------------------------- MODULE AsyncLoggingProofs -------------------------
(***************************************************************************)
(* Proofs about AsyncLogging for every size of the buffers, every set of   *)
(* lengths, every number of appends and every limit on the buffers.        *)
(***************************************************************************)
EXTENDS AsyncLogging, TLAPS

-----------------------------------------------------------------------------
(* Lines in places *)

LEMMA HeldIs ==
    ASSUME NEW n \in Nat, NEW P \in [1..n -> Seq(Line)]
    PROVE  \A l : l \in Held(P) <=> \E p \in 1..n : \E i \in 1..Len(P[p]) : P[p][i] = l
<1>1. DOMAIN P = 1..n /\ \A p \in 1..n : DOMAIN P[p] = 1..Len(P[p])
  OBVIOUS
<1>2. \A l : l \in Held(P) <=> \E p \in DOMAIN P : \E i \in DOMAIN P[p] : P[p][i] = l
  BY DEF Held
<1> QED BY <1>1, <1>2, Zenon

LEMMA InOrderIs ==
    ASSUME NEW n \in Nat, NEW P \in [1..n -> Seq(Line)]
    PROVE  InOrder(P) <=> \A p, q \in 1..n : \A i \in 1..Len(P[p]), j \in 1..Len(P[q]) :
                              p < q \/ (p = q /\ i < j) => P[p][i][1] < P[q][j][1]
<1>1. DOMAIN P = 1..n /\ \A p \in 1..n : DOMAIN P[p] = 1..Len(P[p])
  OBVIOUS
<1> QED BY <1>1, Zenon DEF InOrder

\* The last place gets a line with a number above all others.
LineAdded(n, P, Q, line) ==
    /\ n \in Nat /\ n > 0 /\ P \in [1..n -> Seq(Line)] /\ Q \in [1..n -> Seq(Line)]
    /\ line \in Line /\ InOrder(P) /\ \A l \in Held(P) : l[1] < line[1]
    /\ \A p \in 1..(n - 1) : Q[p] = P[p]
    /\ Q[n] = Append(P[n], line)

LEMMA LineAtEnd ==
    ASSUME NEW n, NEW P, NEW Q, NEW line, LineAdded(n, P, Q, line)
    PROVE  InOrder(Q) /\ Held(Q) = Held(P) \cup {line}
<1> /\ n \in Nat /\ n > 0 /\ P \in [1..n -> Seq(Line)] /\ Q \in [1..n -> Seq(Line)]
    /\ line \in Line /\ InOrder(P) /\ \A l \in Held(P) : l[1] < line[1]
    /\ \A p \in 1..(n - 1) : Q[p] = P[p]
    /\ Q[n] = Append(P[n], line)
  BY DEF LineAdded
<1> DEFINE k == Len(P[n])
<1>1. /\ k \in Nat /\ Len(Q[n]) = k + 1 /\ Q[n][k + 1] = line /\ n \in 1..n
      /\ \A i \in 1..k : Q[n][i] = P[n][i]
  OBVIOUS
<1>2. \A p \in 1..n : Len(P[p]) \in Nat /\ Len(Q[p]) \in Nat
  OBVIOUS
<1>h. /\ \A l : l \in Held(P) <=> \E p \in 1..n : \E i \in 1..Len(P[p]) : P[p][i] = l
      /\ \A l : l \in Held(Q) <=> \E p \in 1..n : \E i \in 1..Len(Q[p]) : Q[p][i] = l
  BY HeldIs
<1> HIDE DEF k
<1>3. ASSUME NEW p \in 1..n, NEW i \in 1..Len(Q[p])
      PROVE  \/ p = n /\ i = k + 1 /\ Q[p][i] = line
             \/ i \in 1..Len(P[p]) /\ Q[p][i] = P[p][i]
  <2>1. CASE p = n
    BY <1>1, <2>1 DEF k
  <2>2. CASE p # n
    BY <2>2
  <2> QED BY <2>1, <2>2
<1>4. ASSUME NEW p \in 1..n, NEW i \in 1..Len(P[p])
      PROVE  i \in 1..Len(Q[p]) /\ Q[p][i] = P[p][i]
  <2>1. CASE p = n
    <3>1. i \in 1..k /\ i \in 1..(k + 1)
      BY <1>1, <2>1 DEF k
    <3> QED BY <1>1, <2>1, <3>1
  <2>2. CASE p # n
    BY <2>2
  <2> QED BY <2>1, <2>2
<1>5. Held(Q) = Held(P) \cup {line}
  <2>1. ASSUME NEW l \in Held(Q) PROVE l \in Held(P) \cup {line}
    BY <1>3, <1>h
  <2>2. ASSUME NEW l \in Held(P) PROVE l \in Held(Q)
    BY <1>4, <1>h
  <2>3. k + 1 \in 1..Len(Q[n])
    BY <1>1
  <2>4. line \in Held(Q)
    BY <1>1, <2>3, <1>h
  <2> QED BY <2>1, <2>2, <2>4
<1>6. InOrder(Q)
  <2> SUFFICES ASSUME NEW p \in 1..n, NEW q \in 1..n,
                      NEW i \in 1..Len(Q[p]), NEW j \in 1..Len(Q[q]),
                      p < q \/ (p = q /\ i < j)
               PROVE  Q[p][i][1] < Q[q][j][1]
      BY InOrderIs
  <2>1. i \in 1..Len(P[p]) /\ Q[p][i] = P[p][i]
    <3>1. ~(p = n /\ i = k + 1)
      <4>1. CASE p < q
        BY <4>1
      <4>2. CASE p = q /\ i < j
        BY <1>1, <4>2
      <4> QED BY <4>1, <4>2
    <3> QED BY <1>3, <3>1
  <2>2. CASE q = n /\ j = k + 1 /\ Q[q][j] = line
    <3>1. P[p][i] \in Held(P)
      BY <2>1, <1>h
    <3> QED BY <2>1, <2>2, <3>1
  <2>3. CASE j \in 1..Len(P[q]) /\ Q[q][j] = P[q][j]
    BY <2>1, <2>3, InOrderIs
  <2> QED BY <1>3, <2>2, <2>3
<1> QED BY <1>5, <1>6

\* A new last place, with at most one line.
PlaceAdded(n, P, Q, s) ==
    /\ n \in Nat /\ P \in [1..n -> Seq(Line)] /\ Q \in [1..(n + 1) -> Seq(Line)]
    /\ InOrder(P) /\ s \in Seq(Line) /\ Len(s) <= 1
    /\ \A l \in Held(P) : \A i \in 1..Len(s) : l[1] < s[i][1]
    /\ \A p \in 1..n : Q[p] = P[p]
    /\ Q[n + 1] = s

LEMMA PlaceAtEnd ==
    ASSUME NEW n, NEW P, NEW Q, NEW s, PlaceAdded(n, P, Q, s)
    PROVE  InOrder(Q) /\ Held(Q) = Held(P) \cup {s[i] : i \in 1..Len(s)}
<1> /\ n \in Nat /\ P \in [1..n -> Seq(Line)] /\ Q \in [1..(n + 1) -> Seq(Line)]
    /\ InOrder(P) /\ s \in Seq(Line) /\ Len(s) <= 1
    /\ \A l \in Held(P) : \A i \in 1..Len(s) : l[1] < s[i][1]
    /\ \A p \in 1..n : Q[p] = P[p]
    /\ Q[n + 1] = s
  BY DEF PlaceAdded
<1>1. /\ n + 1 \in 1..(n + 1) /\ Len(s) \in Nat
      /\ \A p \in 1..(n + 1) : p = n + 1 \/ p \in 1..n
      /\ \A p \in 1..n : p \in 1..(n + 1)
  OBVIOUS
<1>g. n + 1 \in Nat
  OBVIOUS
<1>h. /\ \A l : l \in Held(P) <=> \E p \in 1..n : \E i \in 1..Len(P[p]) : P[p][i] = l
      /\ \A l : l \in Held(Q) <=> \E p \in 1..(n + 1) : \E i \in 1..Len(Q[p]) : Q[p][i] = l
  BY <1>g, HeldIs, Zenon
<1>2. Held(Q) = Held(P) \cup {s[i] : i \in 1..Len(s)}
  <2>1. ASSUME NEW l \in Held(Q) PROVE l \in Held(P) \cup {s[i] : i \in 1..Len(s)}
    <3>1. PICK p \in 1..(n + 1) : \E i \in 1..Len(Q[p]) : Q[p][i] = l
      BY <1>h
    <3>2. CASE p = n + 1
      BY <3>1, <3>2
    <3>3. CASE p \in 1..n
      BY <3>1, <3>3, <1>h
    <3> QED BY <1>1, <3>2, <3>3
  <2>2. ASSUME NEW l \in Held(P) PROVE l \in Held(Q)
    BY <1>1, <1>h
  <2>3. ASSUME NEW i \in 1..Len(s) PROVE s[i] \in Held(Q)
    BY <1>1, <1>h
  <2> QED BY <2>1, <2>2, <2>3
<1>3. InOrder(Q)
  <2> SUFFICES ASSUME NEW p \in 1..(n + 1), NEW q \in 1..(n + 1),
                      NEW i \in 1..Len(Q[p]), NEW j \in 1..Len(Q[q]),
                      p < q \/ (p = q /\ i < j)
               PROVE  Q[p][i][1] < Q[q][j][1]
      BY <1>g, InOrderIs, Zenon
  <2>1. p \in 1..n
    BY <1>1
  <2>2. CASE q = n + 1
    <3>1. Q[p][i] \in Held(P)
      BY <2>1, <1>h
    <3> QED BY <2>2, <3>1
  <2>3. CASE q \in 1..n
    BY <2>1, <2>3, InOrderIs
  <2> QED BY <1>1, <2>2, <2>3
<1> QED BY <1>2, <1>3

LEMMA ConcatIs ==
    ASSUME NEW s \in Seq(Line), NEW t \in Seq(Line)
    PROVE  /\ Len(s) \in Nat /\ Len(t) \in Nat /\ Len(s \o t) = Len(s) + Len(t)
           /\ \A i \in 1..Len(s) : (s \o t)[i] = s[i]
           /\ \A i \in (Len(s) + 1)..(Len(s) + Len(t)) : (s \o t)[i] = t[i - Len(s)]
OBVIOUS

\* The lines of the second place move to the end of the first.
Joined(n, P, Q) ==
    /\ n \in Nat /\ n > 0 /\ P \in [1..(n + 1) -> Seq(Line)] /\ Q \in [1..n -> Seq(Line)]
    /\ InOrder(P) /\ Q[1] = P[1] \o P[2]
    /\ \A p \in 2..n : Q[p] = P[p + 1]

LEMMA FirstTwoJoined ==
    ASSUME NEW n, NEW P, NEW Q, Joined(n, P, Q)
    PROVE  InOrder(Q) /\ Held(Q) = Held(P)
<1> /\ n \in Nat /\ n > 0 /\ P \in [1..(n + 1) -> Seq(Line)] /\ Q \in [1..n -> Seq(Line)]
    /\ InOrder(P) /\ Q[1] = P[1] \o P[2]
    /\ \A p \in 2..n : Q[p] = P[p + 1]
  BY DEF Joined
<1> DEFINE m == Len(P[1])
           k == Len(P[2])
<1>1. /\ m \in Nat /\ k \in Nat /\ Len(Q[1]) = m + k /\ 1 \in 1..n
      /\ \A i \in 1..m : Q[1][i] = P[1][i]
      /\ \A i \in (m + 1)..(m + k) : Q[1][i] = P[2][i - m]
  <2>1. P[1] \in Seq(Line) /\ P[2] \in Seq(Line)
    OBVIOUS
  <2>2. /\ Len(P[1]) \in Nat /\ Len(P[2]) \in Nat /\ Len(P[1] \o P[2]) = Len(P[1]) + Len(P[2])
        /\ \A i \in 1..Len(P[1]) : (P[1] \o P[2])[i] = P[1][i]
        /\ \A i \in (Len(P[1]) + 1)..(Len(P[1]) + Len(P[2])) :
               (P[1] \o P[2])[i] = P[2][i - Len(P[1])]
    <3> HIDE DEF m, k
    <3> QED BY <2>1, ConcatIs
  <2>3. 1 \in 1..n /\ Q[1] = P[1] \o P[2]
    OBVIOUS
  <2> QED BY <2>2, <2>3, Zenon
<1>2. \A p \in 1..n : Len(Q[p]) \in Nat /\ Len(P[p]) \in Nat
  OBVIOUS
<1>g. n + 1 \in Nat
  OBVIOUS
<1>h. /\ \A l : l \in Held(P) <=> \E p \in 1..(n + 1) : \E i \in 1..Len(P[p]) : P[p][i] = l
      /\ \A l : l \in Held(Q) <=> \E p \in 1..n : \E i \in 1..Len(Q[p]) : Q[p][i] = l
  BY <1>g, HeldIs, Zenon
\* Where each line of Q is in P.
<1> DEFINE fromP(p, i) == IF p = 1 /\ i <= m THEN 1 ELSE p + 1
           fromI(p, i) == IF p = 1 /\ i > m THEN i - m ELSE i
<1>3. ASSUME NEW p \in 1..n, NEW i \in 1..Len(Q[p])
      PROVE  /\ fromP(p, i) \in 1..(n + 1) /\ fromI(p, i) \in 1..Len(P[fromP(p, i)])
             /\ Q[p][i] = P[fromP(p, i)][fromI(p, i)]
  <2>1. CASE p = 1 /\ i <= m
    BY <1>1, <1>2, <1>3, <2>1
  <2>2. CASE p = 1 /\ i > m
    <3>0. i \in 1..(m + k) /\ i > m /\ m \in Nat /\ k \in Nat
      BY <1>1, <1>3, <2>2
    <3>1. i \in (m + 1)..(m + k) /\ i - m \in 1..k /\ 2 \in 1..(n + 1) /\ ~(i <= m)
      <4> HIDE DEF m, k
      <4> QED BY <3>0
    <3>2. fromP(p, i) = 2 /\ fromI(p, i) = i - m
      <4> HIDE DEF m, k
      <4> QED BY <2>2, <3>0, <3>1
    <3> QED BY <1>1, <2>2, <3>1, <3>2
  <2>3. CASE p # 1
    <3>1. fromP(p, i) = p + 1 /\ fromI(p, i) = i /\ p \in 2..n /\ p + 1 \in 1..(n + 1)
      BY <2>3
    <3> QED BY <2>3, <3>1
  <2> QED BY <1>1, <1>2, <1>3, <2>1, <2>2, <2>3
<1>4. InOrder(Q)
  <2> SUFFICES ASSUME NEW p \in 1..n, NEW q \in 1..n,
                      NEW i \in 1..Len(Q[p]), NEW j \in 1..Len(Q[q]),
                      p < q \/ (p = q /\ i < j)
               PROVE  Q[p][i][1] < Q[q][j][1]
      BY InOrderIs
  <2>1. \/ fromP(p, i) < fromP(q, j)
        \/ fromP(p, i) = fromP(q, j) /\ fromI(p, i) < fromI(q, j)
    <3>1. i \in Nat /\ j \in Nat /\ m \in Nat
      BY <1>1, <1>2
    <3> HIDE DEF m
    <3>2. CASE p < q
      BY <3>1, <3>2
    <3>3. CASE p = q /\ i < j
      BY <3>1, <3>3
    <3> QED BY <3>2, <3>3
  <2>2. /\ fromP(p, i) \in 1..(n + 1) /\ fromI(p, i) \in 1..Len(P[fromP(p, i)])
        /\ fromP(q, j) \in 1..(n + 1) /\ fromI(q, j) \in 1..Len(P[fromP(q, j)])
        /\ Q[p][i] = P[fromP(p, i)][fromI(p, i)] /\ Q[q][j] = P[fromP(q, j)][fromI(q, j)]
    BY <1>3
  <2>3. \A x, y \in 1..(n + 1) : \A u \in 1..Len(P[x]), v \in 1..Len(P[y]) :
            x < y \/ (x = y /\ u < v) => P[x][u][1] < P[y][v][1]
    BY <1>g, InOrderIs, Zenon
  <2> HIDE DEF fromP, fromI
  <2> QED BY <2>1, <2>2, <2>3
<1>5. ASSUME NEW l \in Held(Q) PROVE l \in Held(P)
  <2>1. PICK p \in 1..n : \E i \in 1..Len(Q[p]) : Q[p][i] = l
    BY <1>h
  <2>2. PICK i \in 1..Len(Q[p]) : Q[p][i] = l
    BY <2>1
  <2>3. /\ fromP(p, i) \in 1..(n + 1) /\ fromI(p, i) \in 1..Len(P[fromP(p, i)])
        /\ Q[p][i] = P[fromP(p, i)][fromI(p, i)]
    BY <1>3
  <2> HIDE DEF fromP, fromI
  <2> QED BY <2>2, <2>3, <1>h
<1>6. ASSUME NEW l \in Held(P) PROVE l \in Held(Q)
  <2>2. PICK p \in 1..(n + 1) : \E i \in 1..Len(P[p]) : P[p][i] = l
    BY <1>h
  <2>1. PICK i \in 1..Len(P[p]) : P[p][i] = l
    BY <2>2
  <2>3. CASE p = 1
    <3>1. i \in 1..Len(Q[1]) /\ Q[1][i] = l
      BY <1>1, <2>1, <2>3
    <3> QED BY <1>1, <3>1, <1>h
  <2>4. CASE p = 2
    <3>1. m + i \in 1..Len(Q[1]) /\ Q[1][m + i] = l
      BY <1>1, <2>1, <2>4
    <3> QED BY <1>1, <3>1, <1>h
  <2>5. CASE p > 2
    <3>1. p - 1 \in 1..n /\ Q[p - 1] = P[p]
      BY <2>5
    <3> QED BY <2>1, <3>1, <1>h
  <2> QED BY <2>3, <2>4, <2>5
<1> QED BY <1>4, <1>5, <1>6

-----------------------------------------------------------------------------
(* The places of AsyncLogging *)

Waiting == Len(buffsToWrite) - written
Count == 2 + Waiting + Len(m_buffs)

\* Places, place by place.
PlacesKnown ==
    /\ Waiting \in Nat /\ Count \in Nat /\ Count > 1
    /\ Places \in [1..Count -> Seq(Line)]
    /\ Places[1] = file /\ Places[Count] = m_curbuff.lines
    /\ \A k \in 1..Waiting : Places[1 + k] = buffsToWrite[written + k].lines
    /\ \A k \in 1..Len(m_buffs) : Places[1 + Waiting + k] = m_buffs[k].lines

LEMMA ConcatAt ==
    ASSUME NEW S, NEW s \in Seq(S), NEW t \in Seq(S)
    PROVE  /\ s \o t \in Seq(S) /\ Len(s \o t) = Len(s) + Len(t)
           /\ \A k \in 1..Len(s) : (s \o t)[k] = s[k]
           /\ \A k \in 1..Len(t) : (s \o t)[Len(s) + k] = t[k]
<1>1. s \o t \in Seq(S) /\ Len(s \o t) = Len(s) + Len(t) /\ Len(s) \in Nat /\ Len(t) \in Nat
  OBVIOUS
<1>2. ASSUME NEW k \in 1..Len(s) PROVE (s \o t)[k] = s[k]
  OBVIOUS
<1>3. ASSUME NEW k \in 1..Len(t) PROVE (s \o t)[Len(s) + k] = t[k]
  <2>1. Len(s) + k \in 1..(Len(s) + Len(t)) /\ ~(Len(s) + k <= Len(s)) /\ (Len(s) + k) - Len(s) = k
    BY <1>1
  <2> QED BY <2>1
<1> QED BY <1>1, <1>2, <1>3

LEMMA KnowPlaces == TypeOK /\ ~crashed => PlacesKnown
<1> SUFFICES ASSUME TypeOK, ~crashed PROVE PlacesKnown
    OBVIOUS
<1>1. /\ buffsToWrite \in Seq(Buffer) /\ m_buffs \in Seq(Buffer) /\ m_curbuff \in Buffer
      /\ written \in 0..Len(buffsToWrite) /\ file \in Seq(Line)
  BY DEF TypeOK
<1>2. /\ Buffered \in Seq(Buffer) /\ Len(Buffered) = Waiting + Len(m_buffs) + 1
      /\ \A k \in 1..Waiting : Buffered[k] = buffsToWrite[written + k]
      /\ \A k \in 1..Len(m_buffs) : Buffered[Waiting + k] = m_buffs[k]
      /\ Buffered[Waiting + Len(m_buffs) + 1] = m_curbuff
  <2> DEFINE u == SubSeq(buffsToWrite, written + 1, Len(buffsToWrite))
             x == u \o m_buffs
             c == <<m_curbuff>>
  <2>1. /\ u \in Seq(Buffer) /\ Len(u) = Waiting /\ Waiting \in Nat
        /\ \A k \in 1..Waiting : u[k] = buffsToWrite[written + k]
    BY <1>1 DEF Waiting
  <2>2. c \in Seq(Buffer) /\ Len(c) = 1 /\ c[1] = m_curbuff /\ Len(m_buffs) \in Nat
    BY <1>1
  <2> HIDE DEF u, c
  <2>3. /\ x \in Seq(Buffer) /\ Len(x) = Len(u) + Len(m_buffs)
        /\ \A k \in 1..Len(u) : x[k] = u[k]
        /\ \A k \in 1..Len(m_buffs) : x[Len(u) + k] = m_buffs[k]
    <3>1. u \in Seq(Buffer) /\ m_buffs \in Seq(Buffer)
      BY <1>1, <2>1
    <3> QED BY <3>1, ConcatAt
  <2> HIDE DEF x
  <2>4. Buffered = x \o c
    BY DEF Buffered, x, u, c
  <2>5. /\ Buffered \in Seq(Buffer) /\ Len(Buffered) = Len(x) + Len(c)
        /\ \A k \in 1..Len(x) : Buffered[k] = x[k]
        /\ \A k \in 1..Len(c) : Buffered[Len(x) + k] = c[k]
    <3>1. x \in Seq(Buffer) /\ c \in Seq(Buffer)
      BY <2>2, <2>3
    <3> QED BY <2>4, <3>1, ConcatAt
  <2>6. ASSUME NEW k \in 1..Waiting PROVE Buffered[k] = buffsToWrite[written + k]
    <3>1. k \in 1..Len(u) /\ k \in 1..Len(x)
      BY <2>1, <2>2, <2>3
    <3> QED BY <2>1, <2>3, <2>5, <3>1
  <2>7. ASSUME NEW k \in 1..Len(m_buffs) PROVE Buffered[Waiting + k] = m_buffs[k]
    <3>1. Waiting + k \in 1..Len(x)
      BY <2>1, <2>2, <2>3
    <3> QED BY <2>1, <2>3, <2>5, <3>1
  <2>8. Len(Buffered) = Waiting + Len(m_buffs) + 1 /\ Buffered[Waiting + Len(m_buffs) + 1] = m_curbuff
    <3>1. 1 \in 1..Len(c) /\ Len(x) + 1 = Waiting + Len(m_buffs) + 1
      BY <2>1, <2>2, <2>3
    <3> QED BY <2>1, <2>2, <2>3, <2>5, <3>1
  <2> QED BY <2>5, <2>6, <2>7, <2>8
<1>3. Waiting \in Nat /\ Len(m_buffs) \in Nat /\ Count \in Nat /\ Count > 1
      /\ Count = Len(Buffered) + 1 /\ Count - 1 = Waiting + Len(m_buffs) + 1
  BY <1>1, <1>2 DEF Waiting, Count
<1> DEFINE L == [i \in 1..Len(Buffered) |-> Buffered[i].lines]
<1>4. /\ L \in Seq(Seq(Line)) /\ Len(L) = Len(Buffered)
      /\ \A i \in 1..Len(Buffered) : L[i] = Buffered[i].lines
  <2>1. \A i \in 1..Len(Buffered) : Buffered[i].lines \in Seq(Line)
    <3>1. \A i \in 1..Len(Buffered) : Buffered[i] \in Buffer
      BY <1>2
    <3> QED BY <3>1 DEF Buffer
  <2>2. L \in [1..Len(Buffered) -> Seq(Line)] /\ Len(Buffered) \in Nat
    BY <1>2, <2>1
  <2> QED BY <2>2
<1> HIDE DEF L
<1>5. Places = <<file>> \o L
  BY DEF Places, L
<1>6. <<file>> \in Seq(Seq(Line)) /\ Len(<<file>>) = 1 /\ <<file>>[1] = file
  BY <1>1
<1>7. /\ Places \in Seq(Seq(Line)) /\ Len(Places) = 1 + Len(L)
      /\ \A k \in 1..1 : Places[k] = <<file>>[k]
      /\ \A k \in 1..Len(L) : Places[1 + k] = L[k]
  BY <1>4, <1>5, <1>6, ConcatAt
<1>8. Places[1] = file /\ \A k \in 1..Len(Buffered) : Places[1 + k] = Buffered[k].lines
  BY <1>4, <1>6, <1>7
<1>9. Places \in [1..Count -> Seq(Line)]
  BY <1>3, <1>4, <1>7
<1>10. Places[Count] = m_curbuff.lines
  BY <1>2, <1>3, <1>8
<1>11. ASSUME NEW k \in 1..Waiting PROVE Places[1 + k] = buffsToWrite[written + k].lines
  <2>1. k \in 1..Len(Buffered)
    BY <1>3
  <2> QED BY <1>2, <1>8, <2>1
<1>12. ASSUME NEW k \in 1..Len(m_buffs) PROVE Places[1 + Waiting + k] = m_buffs[k].lines
  <2>1. Waiting + k \in 1..Len(Buffered) /\ 1 + Waiting + k = 1 + (Waiting + k)
    BY <1>3
  <2> QED BY <1>2, <1>8, <2>1
<1> QED BY <1>3, <1>8, <1>9, <1>10, <1>11, <1>12 DEF PlacesKnown

LEMMA KnowPlacesNext == (TypeOK /\ ~crashed => PlacesKnown)'
BY KnowPlaces, PTL

-----------------------------------------------------------------------------
(* The buffers: TypeOK, Started and FourBuffers *)

Shape == TypeOK /\ Started /\ FourBuffers

LEMMA BufferFacts ==
    /\ ResetBuffer \in Buffer /\ ResetBuffer # Null
    /\ \A b \in Buffer, line \in Line : bufferAppend(b, line) \in Buffer
<1>1. ResetBuffer \in Buffer
  BY SizeAssumption DEF Buffer, ResetBuffer
<1>2. ASSUME NEW b \in Buffer, NEW line \in Line PROVE bufferAppend(b, line) \in Buffer
  <2>1. b.lines \in Seq(Line) /\ b.m_cur \in 0..BuffSize /\ line[2] \in Nat
    BY DEF Buffer, Line
  <2>2. CASE avail(b) >= line[2]
    <3>1. Append(b.lines, line) \in Seq(Line) /\ b.m_cur + line[2] \in 0..BuffSize
      BY <2>1, <2>2, SizeAssumption DEF avail
    <3> QED BY <2>2, <3>1 DEF Buffer, bufferAppend
  <2>3. CASE ~(avail(b) >= line[2])
    BY <2>3 DEF bufferAppend
  <2> QED BY <2>2, <2>3
<1> QED BY <1>1, <1>2, NullAssumption

LEMMA InitShape == Init => Shape
<1> SUFFICES ASSUME Init PROVE Shape
    OBVIOUS
<1>1. m_running \in BOOLEAN /\ crashed \in BOOLEAN /\ ~crashed
  BY DEF Init
<1>2. m_curbuff \in Buffer /\ m_curbuff # Null /\ m_nextbuff \in Spare /\ m_nextbuff # Null
  BY BufferFacts DEF Init, Spare
<1>3. firstBuffer \in Spare /\ secondBuffer \in Spare
  BY DEF Init, Spare
<1>4. /\ m_buffs = <<>> /\ buffsToWrite = <<>> /\ written = 0 /\ file = <<>> /\ appended = <<>>
      /\ dropped = {} /\ logger = "unborn" /\ owner = "new" /\ m_latch = 1
      /\ m_appendCount \in 0..(CheckEveryN - 1)
  BY DEF Init
<1>5. m_buffs \in Seq(Buffer) /\ buffsToWrite \in Seq(Buffer) /\ Len(buffsToWrite) = 0
      /\ Len(m_buffs) = 0 /\ file \in Seq(Line) /\ appended \in Seq(Line)
  BY <1>4
<1>6. logger \in LoggerLabels /\ owner \in OwnerLabels
  BY <1>4 DEF LoggerLabels, OwnerLabels
<1>7. TypeOK
  BY <1>1, <1>2, <1>3, <1>4, <1>5, <1>6 DEF TypeOK
<1>8. Started
  BY <1>4 DEF Started
<1>9. FourBuffers
  BY <1>1, <1>2, <1>4, <1>5 DEF FourBuffers
<1> QED BY <1>7, <1>8, <1>9 DEF Shape

\* The steps of the owner leave the buffers alone.
LEMMA OwnerShape ==
    ASSUME Shape, start \/ latchWait \/ stop \/ join
    PROVE  Shape'
<1>1. UNCHANGED <<frontVars, backVars, outVars>>
  BY DEF start, latchWait, stop, join
<1>2. UNCHANGED <<m_curbuff, m_nextbuff, m_buffs, firstBuffer, secondBuffer, buffsToWrite, written,
                  m_appendCount, file, appended, dropped, crashed>>
  BY <1>1 DEF frontVars, backVars, outVars, fileVars, historyVars
<1>3. m_running' \in BOOLEAN
  BY DEF start, latchWait, stop, join, Shape, TypeOK
<1>4. m_latch' \in 0..1 /\ logger' \in LoggerLabels /\ owner' \in OwnerLabels
  BY DEF start, latchWait, stop, join, Shape, TypeOK, LoggerLabels, OwnerLabels
<1>5. TypeOK'
  BY <1>2, <1>3, <1>4 DEF Shape, TypeOK
<1>6. logger' = logger \/ (logger = "unborn" /\ logger' = "begin")
  BY DEF start, latchWait, stop, join, Shape, Started
<1>7. FourBuffers'
  BY <1>2, <1>6 DEF Shape, FourBuffers
<1>8. Started'
  <2>1. CASE start
    BY <2>1 DEF start, Shape, Started
  <2>2. CASE latchWait
    BY <2>2 DEF latchWait, Shape, Started
  <2>3. CASE stop
    BY <2>3 DEF stop, Shape, Started
  <2>4. CASE join
    BY <2>4 DEF join, Shape, Started
  <2> QED BY <2>1, <2>2, <2>3, <2>4
<1> QED BY <1>5, <1>7, <1>8 DEF Shape

\* What a new line is to the lines before it.
LEMMA LineIsNew ==
    ASSUME TypeOK, Numbered, NEW len \in Lengths, NEW line, line = <<Len(appended) + 1, len>>,
           NewLine(line)
    PROVE  /\ line \in Line /\ line[1] = Len(appended) + 1 /\ line[2] = len /\ ~crashed
           /\ appended' \in Seq(Line) /\ Appended' = Appended \cup {line}
           /\ \A i \in DOMAIN appended' : appended'[i][1] = i
           /\ \A l \in Appended : l[1] < line[1]
           /\ line \notin Appended
<1>1. appended \in Seq(Line) /\ Len(appended) \in Nat /\ DOMAIN appended = 1..Len(appended)
  BY DEF TypeOK
<1>2. line \in Line /\ line[1] = Len(appended) + 1 /\ line[2] = len
  BY <1>1, SizeAssumption DEF Line
<1>3. appended' = Append(appended, line) /\ ~crashed
  BY DEF NewLine
<1>4. /\ appended' \in Seq(Line) /\ DOMAIN appended' = 1..(Len(appended) + 1)
      /\ \A i \in 1..Len(appended) : appended'[i] = appended[i]
      /\ appended'[Len(appended) + 1] = line
  BY <1>1, <1>2, <1>3
<1>5. Appended' = Appended \cup {line}
  <2>1. ASSUME NEW l \in Appended' PROVE l \in Appended \cup {line}
    <3>1. PICK i \in 1..(Len(appended) + 1) : appended'[i] = l
      BY <1>4, <2>1 DEF Appended
    <3>2. CASE i = Len(appended) + 1
      BY <1>4, <3>1, <3>2
    <3>3. CASE i \in 1..Len(appended)
      BY <1>1, <1>4, <3>1, <3>3 DEF Appended
    <3> QED BY <1>1, <3>2, <3>3
  <2>2. ASSUME NEW l \in Appended PROVE l \in Appended'
    <3>1. PICK i \in 1..Len(appended) : appended[i] = l
      BY <1>1, <2>2 DEF Appended
    <3>2. i \in DOMAIN appended' /\ appended'[i] = l
      BY <1>1, <1>4, <3>1
    <3> QED BY <3>2 DEF Appended
  <2>3. line \in Appended'
    <3>1. Len(appended) + 1 \in DOMAIN appended'
      BY <1>1, <1>4
    <3> QED BY <1>4, <3>1 DEF Appended
  <2> QED BY <2>1, <2>2, <2>3
<1>6. \A i \in DOMAIN appended' : appended'[i][1] = i
  BY <1>1, <1>2, <1>4 DEF Numbered
<1>7. \A l \in Appended : l[1] < line[1]
  BY <1>1, <1>2 DEF Numbered, Appended
<1>8. line \notin Appended
  <2> SUFFICES ASSUME line \in Appended PROVE FALSE
      OBVIOUS
  <2>1. line[1] < line[1]
    BY <1>7
  <2> QED BY <1>1, <1>2, <2>1
<1> QED BY <1>2, <1>3, <1>4, <1>5, <1>6, <1>7, <1>8

LEMMA FitsShape ==
    ASSUME Shape, Numbered, NEW len \in Lengths, NEW line, line = <<Len(appended) + 1, len>>,
           appendFits(line)
    PROVE  Shape'
<1>1. NewLine(line) /\ m_curbuff' = bufferAppend(m_curbuff, line)
  BY DEF appendFits
<1>2. line \in Line /\ ~crashed /\ appended' \in Seq(Line)
  BY <1>1, LineIsNew DEF Shape
<1>3. m_curbuff \in Buffer /\ m_curbuff' \in Buffer
  BY <1>1, <1>2, BufferFacts DEF Shape, TypeOK
<1>4. UNCHANGED <<m_nextbuff, m_buffs, firstBuffer, secondBuffer, buffsToWrite, written, logger,
                  m_running, m_latch, owner, m_appendCount, file, dropped, crashed>>
  BY DEF appendFits, backVars, ownerVars, fileVars
<1>5. TypeOK'
  BY <1>2, <1>3, <1>4, NullAssumption DEF Shape, TypeOK
<1>6. Started' /\ FourBuffers'
  BY <1>4 DEF Shape, Started, FourBuffers
<1> QED BY <1>5, <1>6 DEF Shape

LEMMA NextBufferShape ==
    ASSUME Shape, Numbered, NEW len \in Lengths, NEW line, line = <<Len(appended) + 1, len>>,
           appendNext(line)
    PROVE  Shape'
<1>1. /\ NewLine(line) /\ m_curbuff' = bufferAppend(m_nextbuff, line) /\ m_nextbuff # Null
      /\ m_nextbuff' = Null /\ m_buffs' = Append(m_buffs, m_curbuff)
      /\ dropped' \in {dropped, dropped \cup {line}}
      /\ logger' = IF logger = "waiting" THEN "woken" ELSE logger
  BY DEF appendNext, moved, push_back, Notify
<1>2. line \in Line /\ ~crashed /\ appended' \in Seq(Line)
  BY <1>1, LineIsNew DEF Shape
<1>3. m_curbuff \in Buffer /\ m_nextbuff \in Buffer
  BY <1>1, <1>2, BufferFacts DEF Shape, TypeOK, Spare
<1>4. m_curbuff' \in Buffer
  BY <1>1, <1>2, <1>3, BufferFacts
<1>5. UNCHANGED <<firstBuffer, secondBuffer, buffsToWrite, written, m_running, m_latch, owner,
                  m_appendCount, file, crashed>>
  BY DEF appendNext, backVars, ownerVars, fileVars
<1>6. m_buffs = <<>>
  BY <1>1, <1>2 DEF Shape, FourBuffers
<1>7. m_buffs' \in Seq(Buffer) /\ Len(m_buffs') = 1 /\ m_buffs' # <<>>
  BY <1>1, <1>3, <1>6
<1>8. dropped' \subseteq Line /\ logger' \in LoggerLabels /\ m_nextbuff' \in Spare
  BY <1>1, <1>2 DEF Shape, TypeOK, LoggerLabels, Spare
<1>9. TypeOK'
  BY <1>2, <1>4, <1>5, <1>7, <1>8, NullAssumption DEF Shape, TypeOK
<1>10. Started'
  BY <1>1, <1>5 DEF Shape, Started
<1>11. FourBuffers'
  BY <1>1, <1>5, <1>7 DEF Shape, FourBuffers
<1> QED BY <1>9, <1>10, <1>11 DEF Shape

LEMMA CrashShape ==
    ASSUME Shape, Numbered, NEW len \in Lengths, NEW line, line = <<Len(appended) + 1, len>>,
           appendCrash(line)
    PROVE  Shape'
<1>1. /\ NewLine(line) /\ m_curbuff' = Null /\ m_buffs' = Append(m_buffs, m_curbuff)
      /\ crashed' /\ crashed' \in BOOLEAN
  BY DEF appendCrash, moved, push_back
<1>2. line \in Line /\ ~crashed /\ appended' \in Seq(Line)
  BY <1>1, LineIsNew DEF Shape
<1>3. m_buffs' \in Seq(Buffer)
  BY <1>1, <1>2 DEF Shape, TypeOK
<1>4. UNCHANGED <<m_nextbuff, firstBuffer, secondBuffer, buffsToWrite, written, logger,
                  m_running, m_latch, owner, m_appendCount, file, dropped>>
  BY DEF appendCrash, backVars, ownerVars, fileVars
<1>5. TypeOK'
  BY <1>1, <1>2, <1>3, <1>4 DEF Shape, TypeOK
<1>6. Started' /\ FourBuffers'
  BY <1>1, <1>4 DEF Shape, Started, FourBuffers
<1> QED BY <1>5, <1>6 DEF Shape

\* begin and the steps between which nothing changes but the program counter.
LEMMA WaitShape ==
    ASSUME Shape, begin \/ testRunning \/ waitForSeconds \/ wakeUp
    PROVE  Shape'
<1>1. UNCHANGED <<m_curbuff, m_nextbuff, m_buffs, buffsToWrite, written, m_running, owner,
                  m_appendCount, file, appended, dropped, crashed>>
  BY DEF begin, testRunning, waitForSeconds, wakeUp, frontVars, backVars, ownerVars, outVars,
         fileVars, historyVars
<1>2. CASE begin
  <2>1. /\ logger = "begin" /\ logger' = "loop" /\ m_latch' = m_latch - 1
        /\ firstBuffer' = ResetBuffer /\ secondBuffer' = ResetBuffer
    BY <1>2 DEF begin, At
  <2>2. m_latch = 1 /\ m_latch' = 0
    BY <2>1 DEF Shape, Started
  <2>3. logger' \in LoggerLabels /\ firstBuffer' \in Spare /\ secondBuffer' \in Spare
    BY <2>1 DEF LoggerLabels, Spare
  <2>4. TypeOK'
    BY <1>1, <2>2, <2>3 DEF Shape, TypeOK
  <2>5. Started'
    BY <1>1, <2>1, <2>2 DEF Shape, Started
  <2>6. FourBuffers'
    BY <1>1, <2>1 DEF Shape, FourBuffers
  <2> QED BY <2>4, <2>5, <2>6 DEF Shape
<1>3. CASE testRunning \/ waitForSeconds \/ wakeUp
  <2>1. /\ UNCHANGED <<firstBuffer, secondBuffer, m_latch>>
        /\ logger \in {"loop", "lock", "waiting"}
        /\ logger' \in {"lock", "exited", "waiting", "woken"}
    BY <1>3 DEF testRunning, waitForSeconds, wakeUp, At, backVars, ownerVars
  <2>2. TypeOK'
    BY <1>1, <2>1 DEF Shape, TypeOK, LoggerLabels
  <2>3. Started'
    BY <1>1, <2>1 DEF Shape, Started
  <2>4. FourBuffers'
    BY <1>1, <2>1 DEF Shape, FourBuffers
  <2> QED BY <2>2, <2>3, <2>4 DEF Shape
<1> QED BY <1>2, <1>3

LEMMA SwapShape ==
    ASSUME Shape, swap
    PROVE  Shape'
<1>1. /\ ~crashed /\ logger \in {"woken", "lock"} /\ logger' = "trim"
      /\ buffsToWrite' = Append(m_buffs, m_curbuff) /\ m_buffs' = buffsToWrite
      /\ m_curbuff' = firstBuffer /\ firstBuffer' = Null
      /\ \/ m_nextbuff = Null /\ m_nextbuff' = secondBuffer /\ secondBuffer' = Null
         \/ m_nextbuff # Null /\ m_nextbuff' = m_nextbuff /\ secondBuffer' = secondBuffer
  BY DEF swap, At, push_back, moved
<1>2. UNCHANGED <<written, m_running, m_latch, owner, m_appendCount, file, appended, dropped, crashed>>
  BY DEF swap, ownerVars, outVars, fileVars, historyVars
<1>3. /\ buffsToWrite = <<>> /\ written = 0 /\ firstBuffer = ResetBuffer
      /\ secondBuffer = ResetBuffer
  BY <1>1 DEF Shape, FourBuffers
<1>4. m_curbuff \in Buffer /\ m_buffs \in Seq(Buffer) /\ Len(m_buffs) \in 0..1
      /\ (m_nextbuff = Null <=> m_buffs # <<>>)
  <2>1. m_curbuff \in Buffer /\ m_buffs \in Seq(Buffer)
    BY <1>1 DEF Shape, TypeOK
  <2>2. m_nextbuff = Null <=> m_buffs # <<>>
    BY <1>1 DEF Shape, FourBuffers
  <2>3. Len(m_buffs) \in 0..1
    <3>1. Len(m_buffs) \in Nat
      BY <2>1
    <3>2. Len(m_buffs) <= 1
      BY <1>1 DEF Shape, FourBuffers
    <3>3. \A n \in Nat : n <= 1 => n \in 0..1
      OBVIOUS
    <3> QED BY <3>1, <3>2, <3>3, Zenon
  <2> QED BY <2>1, <2>2, <2>3, Zenon
<1>5. /\ buffsToWrite' \in Seq(Buffer) /\ Len(buffsToWrite') = Len(m_buffs) + 1
      /\ Len(buffsToWrite') \in 1..2
      /\ m_buffs # <<>> => Len(buffsToWrite') = 2
  BY <1>1, <1>4
<1>6. m_buffs' = <<>> /\ m_buffs' \in Seq(Buffer) /\ Len(m_buffs') = 0
  BY <1>1, <1>3
<1>7. m_curbuff' \in Buffer /\ m_curbuff' # Null
  BY <1>1, <1>3, BufferFacts
<1>8. /\ m_nextbuff' \in Spare /\ m_nextbuff' # Null /\ firstBuffer' \in Spare
      /\ secondBuffer' \in Spare /\ (secondBuffer' = Null => m_buffs # <<>>)
  BY <1>1, <1>3, <1>4, BufferFacts DEF Shape, TypeOK, Spare
<1>9. TypeOK'
  BY <1>1, <1>2, <1>3, <1>5, <1>6, <1>7, <1>8 DEF Shape, TypeOK, LoggerLabels
<1>10. Started'
  BY <1>1, <1>2 DEF Shape, Started
<1>11. FourBuffers'
  BY <1>1, <1>5, <1>6, <1>8 DEF FourBuffers
<1> QED BY <1>9, <1>10, <1>11 DEF Shape

LEMMA LogoutAppend ==
    ASSUME TypeOK, NEW s \in Seq(Line), logoutAppend(s, "write")
    PROVE  /\ file' = file \o s /\ file' \in Seq(Line) /\ logger' \in {"write", "hung"}
           /\ m_appendCount' \in 0..(CheckEveryN - 1)
<1>1. file' = file \o s /\ file \in Seq(Line)
  BY DEF logoutAppend, TypeOK
<1>2. file' \in Seq(Line)
  BY <1>1
<1>3. logger' \in {"write", "hung"}
  BY DEF logoutAppend
<1>4. m_appendCount' \in 0..(CheckEveryN - 1)
  BY CheckAssumption DEF logoutAppend, TypeOK
<1> QED BY <1>1, <1>2, <1>3, <1>4

\* With two buffers there is nothing to drop.
LEMMA TrimKeeps ==
    ASSUME Shape, trim
    PROVE  /\ UNCHANGED <<m_curbuff, m_nextbuff, m_buffs, firstBuffer, secondBuffer, buffsToWrite,
                          written, m_running, m_latch, owner, file, appended, dropped, crashed>>
           /\ logger = "trim" /\ logger' \in {"write", "hung"}
           /\ m_appendCount' \in 0..(CheckEveryN - 1)
<1>1. UNCHANGED <<m_curbuff, m_nextbuff, m_buffs, firstBuffer, secondBuffer, written,
                  m_running, m_latch, owner, appended, crashed>> /\ logger = "trim"
  BY DEF trim, frontVars, ownerVars, At
<1>2. Len(buffsToWrite) \in 1..2 /\ buffsToWrite \in Seq(Buffer) /\ file \in Seq(Line)
  BY <1>1 DEF Shape, TypeOK, FourBuffers
<1>3. CASE ~Dropping
  BY <1>1, <1>3 DEF trim, fileVars, Shape, TypeOK
<1>4. CASE Dropping
  <2>1. /\ logoutAppend(<<>>, "write") /\ buffsToWrite' = SubSeq(buffsToWrite, 1, 2)
        /\ dropped' = dropped \cup Held([i \in 3..Len(buffsToWrite) |-> buffsToWrite[i].lines])
    BY <1>4 DEF trim
  <2>2. Len(buffsToWrite) = 2
    BY <1>2, <1>4, DropAssumption DEF Dropping
  <2>3. SubSeq(buffsToWrite, 1, 2) = buffsToWrite
    BY <1>2, <2>2
  <2>4. 3..Len(buffsToWrite) = {}
    BY <2>2
  <2>5. dropped' = dropped
    BY <2>1, <2>4 DEF Held
  <2>6. <<>> \in Seq(Line) /\ file \o <<>> = file
    BY <1>2
  <2>7. file' = file /\ logger' \in {"write", "hung"} /\ m_appendCount' \in 0..(CheckEveryN - 1)
    BY <2>1, <2>6, LogoutAppend DEF Shape
  <2> QED BY <1>1, <2>1, <2>3, <2>5, <2>7
<1> QED BY <1>3, <1>4

LEMMA TrimShape ==
    ASSUME Shape, trim
    PROVE  Shape'
<1>1. TypeOK'
  BY TrimKeeps DEF Shape, TypeOK, LoggerLabels
<1>2. Started'
  BY TrimKeeps DEF Shape, Started
<1>3. FourBuffers'
  BY TrimKeeps DEF Shape, FourBuffers
<1> QED BY <1>1, <1>2, <1>3 DEF Shape

LEMMA WriteShape ==
    ASSUME Shape, write
    PROVE  /\ Shape'
           /\ file' = file \o buffsToWrite[written + 1].lines
           /\ written < Len(buffsToWrite) /\ written' = written + 1
           /\ ~crashed /\ UNCHANGED <<m_curbuff, m_buffs, buffsToWrite, appended, dropped, crashed>>
<1>1. /\ UNCHANGED <<m_curbuff, m_nextbuff, m_buffs, firstBuffer, secondBuffer, buffsToWrite,
                     m_running, m_latch, owner, appended, dropped, crashed>>
      /\ logger = "write" /\ written < Len(buffsToWrite) /\ written' = written + 1 /\ ~crashed
      /\ logoutAppend(buffsToWrite[written + 1].lines, "write")
  BY DEF write, At, frontVars, ownerVars, historyVars
<1>2. buffsToWrite[written + 1].lines \in Seq(Line)
  <2>1. buffsToWrite \in Seq(Buffer) /\ written \in Nat /\ written + 1 \in 1..Len(buffsToWrite)
    BY <1>1 DEF Shape, TypeOK
  <2>2. buffsToWrite[written + 1] \in Buffer
    BY <2>1
  <2> QED BY <2>2 DEF Buffer
<1>3. /\ file' = file \o buffsToWrite[written + 1].lines
      /\ file' \in Seq(Line) /\ logger' \in {"write", "hung"}
      /\ m_appendCount' \in 0..(CheckEveryN - 1)
  BY <1>1, <1>2, LogoutAppend DEF Shape
<1>4. written' \in 0..Len(buffsToWrite')
  BY <1>1 DEF Shape, TypeOK
<1>5. TypeOK'
  BY <1>1, <1>3, <1>4 DEF Shape, TypeOK, LoggerLabels
<1>6. Started' /\ FourBuffers'
  BY <1>1, <1>3 DEF Shape, Started, FourBuffers
<1> QED BY <1>1, <1>3, <1>5, <1>6 DEF Shape

LEMMA RecycleShape ==
    ASSUME Shape, recycle
    PROVE  Shape'
<1>1. /\ UNCHANGED <<m_curbuff, m_nextbuff, m_buffs, m_running, m_latch, owner,
                     m_appendCount, file, appended, dropped, crashed>>
      /\ logger = "write" /\ logger' = "loop" /\ buffsToWrite' = <<>> /\ written' = 0
  BY DEF recycle, At, frontVars, ownerVars, outVars, fileVars, historyVars
<1>2. firstBuffer' = ResetBuffer /\ secondBuffer' = ResetBuffer
  BY DEF recycle, Refilled, Shape, TypeOK, Spare
<1>3. buffsToWrite' \in Seq(Buffer) /\ Len(buffsToWrite') = 0
  BY <1>1
<1>4. firstBuffer' \in Spare /\ secondBuffer' \in Spare
  BY <1>2 DEF Spare
<1>5. TypeOK'
  BY <1>1, <1>3, <1>4 DEF Shape, TypeOK, LoggerLabels
<1>6. Started'
  BY <1>1 DEF Shape, Started
<1>7. FourBuffers'
  BY <1>1, <1>2, <1>3 DEF Shape, FourBuffers
<1> QED BY <1>5, <1>6, <1>7 DEF Shape

-----------------------------------------------------------------------------
(* The lines: Numbered and NoLineLost *)

\* A step that leaves every place alone.
LEMMA PlacesStay ==
    ASSUME Numbered, NoLineLost,
           UNCHANGED <<file, buffsToWrite, written, m_buffs, m_curbuff, appended, dropped, crashed>>
    PROVE  Numbered' /\ NoLineLost'
<1>1. Places' = Places
  BY DEF Places, Buffered
<1>2. Appended' = Appended
  BY DEF Appended
<1> QED BY <1>1, <1>2 DEF Numbered, NoLineLost

LEMMA FitsKeepsLines ==
    ASSUME Inv, Shape', NEW len \in Lengths, NEW line, line = <<Len(appended) + 1, len>>,
           appendFits(line)
    PROVE  Numbered' /\ NoLineLost'
<1>1. /\ NewLine(line) /\ m_curbuff' = bufferAppend(m_curbuff, line)
      /\ avail(m_curbuff) > line[2]
      /\ UNCHANGED <<m_buffs, buffsToWrite, written, file, dropped, crashed>>
  BY DEF appendFits, backVars, fileVars
<1>2. /\ line \in Line /\ ~crashed /\ Appended' = Appended \cup {line} /\ line \notin Appended
      /\ \A i \in DOMAIN appended' : appended'[i][1] = i
      /\ \A l \in Appended : l[1] < line[1]
  BY <1>1, LineIsNew DEF Inv
<1>3. Numbered'
  BY <1>1, <1>2 DEF Numbered, Inv
<1>4. m_curbuff'.lines = Append(m_curbuff.lines, line)
  <2>1. m_curbuff \in Buffer
    BY <1>2 DEF Inv, TypeOK
  <2>2. avail(m_curbuff) >= line[2]
    BY <1>1, <1>2, <2>1, SizeAssumption DEF avail, Buffer, Line
  <2> QED BY <1>1, <2>2 DEF bufferAppend
<1>5. PlacesKnown /\ PlacesKnown' /\ Count' = Count /\ Waiting' = Waiting
  BY <1>1, <1>2, KnowPlaces, KnowPlacesNext DEF Inv, Shape, Count, Waiting
<1>6. Places'[Count] = Append(Places[Count], line)
  BY <1>4, <1>5 DEF PlacesKnown
<1>7. ASSUME NEW p \in 1..(Count - 1) PROVE Places'[p] = Places[p]
  <2>1. Len(m_buffs) \in Nat
    BY DEF Inv, TypeOK
  <2>2. CASE p = 1
    BY <1>1, <1>5, <2>2 DEF PlacesKnown
  <2>3. CASE p \in 2..(1 + Waiting)
    <3>1. p - 1 \in 1..Waiting /\ p = 1 + (p - 1)
      BY <1>5, <2>3 DEF PlacesKnown
    <3>2. /\ Places[1 + (p - 1)] = buffsToWrite[written + (p - 1)].lines
          /\ Places'[1 + (p - 1)] = buffsToWrite'[written' + (p - 1)].lines
      BY <1>5, <3>1 DEF PlacesKnown
    <3> QED BY <1>1, <3>1, <3>2
  <2>4. CASE p > 1 + Waiting
    <3>1. p - 1 - Waiting \in 1..Len(m_buffs) /\ p = 1 + Waiting + (p - 1 - Waiting)
      BY <1>5, <2>1, <2>4 DEF PlacesKnown, Count
    <3>2. /\ Places[1 + Waiting + (p - 1 - Waiting)] = m_buffs[p - 1 - Waiting].lines
          /\ Places'[1 + Waiting + (p - 1 - Waiting)] = m_buffs'[p - 1 - Waiting].lines
      BY <1>1, <1>5, <3>1 DEF PlacesKnown
    <3> QED BY <1>1, <3>1, <3>2
  <2> QED BY <1>5, <2>2, <2>3, <2>4 DEF PlacesKnown
<1>8. InOrder(Places) /\ Held(Places) = Appended \ dropped
  BY <1>2 DEF Inv, NoLineLost
<1>9. InOrder(Places') /\ Held(Places') = Held(Places) \cup {line}
  <2>1. /\ Count \in Nat /\ Count > 0 /\ Places \in [1..Count -> Seq(Line)]
        /\ Places' \in [1..Count -> Seq(Line)]
    BY <1>5 DEF PlacesKnown
  <2>2. \A l \in Held(Places) : l[1] < line[1]
    BY <1>2, <1>8
  <2>3. \A p \in 1..(Count - 1) : Places'[p] = Places[p]
    BY <1>7
  <2>4. LineAdded(Count, Places, Places', line)
    BY <1>2, <1>6, <1>8, <2>1, <2>2, <2>3, Zenon DEF LineAdded
  <2> QED BY <2>4, LineAtEnd
<1>10. line \notin dropped
  BY <1>2 DEF Inv, Numbered
<1> QED BY <1>1, <1>2, <1>3, <1>8, <1>9, <1>10 DEF NoLineLost

\* A new current buffer, with at most one line, behind all others: Places
\* before is Places without its last.
LEMMA NewPlace ==
    ASSUME Inv, Shape', ~crashed, ~crashed', NEW s,
           PlaceAdded(Count, Places, Places', s), Numbered',
           Appended' \ dropped' = (Appended \ dropped) \cup {s[i] : i \in 1..Len(s)}
    PROVE  NoLineLost'
<1>1. InOrder(Places') /\ Held(Places') = Held(Places) \cup {s[i] : i \in 1..Len(s)}
  BY PlaceAtEnd
<1>2. Held(Places) = Appended \ dropped
  BY DEF Inv, NoLineLost
<1> QED BY <1>1, <1>2 DEF NoLineLost

LEMMA NextBufferKeepsLines ==
    ASSUME Inv, Shape', NEW len \in Lengths, NEW line, line = <<Len(appended) + 1, len>>,
           appendNext(line)
    PROVE  Numbered' /\ NoLineLost'
<1>1. /\ NewLine(line) /\ m_curbuff' = bufferAppend(m_nextbuff, line) /\ m_nextbuff # Null
      /\ m_buffs' = Append(m_buffs, m_curbuff)
      /\ dropped' = IF m_curbuff' = m_nextbuff THEN dropped \cup {line} ELSE dropped
      /\ UNCHANGED <<buffsToWrite, written, file, crashed>>
  BY DEF appendNext, push_back, backVars, fileVars
<1>2. /\ line \in Line /\ ~crashed /\ Appended' = Appended \cup {line} /\ line \notin Appended
      /\ \A i \in DOMAIN appended' : appended'[i][1] = i
      /\ \A l \in Appended : l[1] < line[1]
  BY <1>1, LineIsNew DEF Inv
<1>3. Numbered'
  BY <1>1, <1>2 DEF Numbered, Inv
<1>4. m_nextbuff = ResetBuffer /\ m_buffs = <<>>
  BY <1>1, <1>2 DEF Inv, TypeOK, FourBuffers, Spare
<1> DEFINE s == m_curbuff'.lines
<1>5. \/ s = <<line>> /\ dropped' = dropped
      \/ s = <<>> /\ dropped' = dropped \cup {line}
  <2>1. CASE avail(m_nextbuff) >= line[2]
    <3>1. m_curbuff' = [lines |-> Append(<<>>, line), m_cur |-> 0 + line[2]]
      BY <1>1, <1>4, <2>1 DEF bufferAppend, ResetBuffer
    <3>2. m_curbuff'.lines = <<line>>
      BY <3>1
    <3>3. m_nextbuff.lines = <<>> /\ <<line>> # <<>>
      BY <1>4 DEF ResetBuffer
    <3> QED BY <1>1, <3>2, <3>3
  <2>2. CASE ~(avail(m_nextbuff) >= line[2])
    BY <1>1, <1>4, <2>2 DEF bufferAppend, ResetBuffer
  <2> QED BY <2>1, <2>2
<1> HIDE DEF s
<1>6. /\ s \in Seq(Line) /\ Len(s) <= 1 /\ \A i \in 1..Len(s) : s[i] = line
      /\ Appended' \ dropped' = (Appended \ dropped) \cup {s[i] : i \in 1..Len(s)}
  <2>1. line \notin dropped
    BY <1>2 DEF Inv, Numbered
  <2>2. CASE s = <<line>> /\ dropped' = dropped
    <3>1. Len(s) = 1 /\ s[1] = line /\ s \in Seq(Line)
      BY <1>2, <2>2
    <3>2. {s[i] : i \in 1..Len(s)} = {line}
      BY <3>1
    <3> QED BY <1>2, <2>1, <2>2, <3>1, <3>2
  <2>3. CASE s = <<>> /\ dropped' = dropped \cup {line}
    <3>1. Len(s) = 0 /\ s \in Seq(Line)
      BY <2>3
    <3>2. {s[i] : i \in 1..Len(s)} = {}
      BY <3>1
    <3> QED BY <1>2, <2>1, <2>3, <3>1, <3>2
  <2> QED BY <1>5, <2>2, <2>3
<1>7. PlacesKnown /\ PlacesKnown'
  BY <1>1, <1>2, KnowPlaces, KnowPlacesNext DEF Inv, Shape
<1>8. /\ Len(m_buffs) = 0 /\ Len(m_buffs') = 1 /\ m_buffs'[1] = m_curbuff
      /\ Waiting' = Waiting /\ Waiting \in Nat /\ Count = 2 + Waiting /\ Count' = Count + 1
  <2>1. Len(m_buffs) = 0 /\ Len(m_buffs') = 1 /\ m_buffs'[1] = m_curbuff
    BY <1>1, <1>4
  <2>2. Waiting' = Waiting /\ Waiting \in Nat
    BY <1>1, <1>7 DEF Waiting, PlacesKnown
  <2> QED BY <2>1, <2>2 DEF Count
<1>9. ASSUME NEW p \in 1..Count PROVE Places'[p] = Places[p]
  <2>1. CASE p = 1
    BY <1>1, <1>7, <2>1 DEF PlacesKnown
  <2>2. CASE p \in 2..(1 + Waiting)
    <3>1. p - 1 \in 1..Waiting /\ p = 1 + (p - 1) /\ p - 1 \in 1..Waiting'
      BY <1>8, <2>2
    <3>2. /\ Places[1 + (p - 1)] = buffsToWrite[written + (p - 1)].lines
          /\ Places'[1 + (p - 1)] = buffsToWrite'[written' + (p - 1)].lines
      BY <1>7, <3>1 DEF PlacesKnown
    <3> QED BY <1>1, <3>1, <3>2
  <2>3. CASE p = 2 + Waiting
    <3>1. 1 \in 1..Len(m_buffs') /\ p = 1 + Waiting' + 1
      BY <1>8, <2>3
    <3>2. Places'[1 + Waiting' + 1] = m_buffs'[1].lines
      BY <1>7, <3>1 DEF PlacesKnown
    <3>3. Places[p] = m_curbuff.lines
      BY <1>7, <1>8, <2>3 DEF PlacesKnown
    <3> QED BY <1>8, <3>1, <3>2, <3>3
  <2> QED BY <1>8, <2>1, <2>2, <2>3
<1>10. Places'[Count + 1] = s
  BY <1>7, <1>8 DEF PlacesKnown, s
<1>11. InOrder(Places) /\ \A l \in Held(Places) : \A i \in 1..Len(s) : l[1] < s[i][1]
  BY <1>2, <1>6 DEF Inv, NoLineLost
<1>12. PlaceAdded(Count, Places, Places', s)
  <2>1. /\ Count \in Nat /\ Places \in [1..Count -> Seq(Line)]
        /\ Places' \in [1..(Count + 1) -> Seq(Line)]
    BY <1>7, <1>8 DEF PlacesKnown
  <2>2. \A p \in 1..Count : Places'[p] = Places[p]
    BY <1>9
  <2> QED BY <1>6, <1>10, <1>11, <2>1, <2>2, Zenon DEF PlaceAdded
<1> QED BY <1>1, <1>2, <1>3, <1>6, <1>12, NewPlace

LEMMA SwapKeepsLines ==
    ASSUME Inv, Shape', swap
    PROVE  Numbered' /\ NoLineLost'
<1>1. /\ ~crashed /\ logger \in {"woken", "lock"}
      /\ buffsToWrite' = Append(m_buffs, m_curbuff) /\ m_buffs' = buffsToWrite
      /\ m_curbuff' = firstBuffer
      /\ UNCHANGED <<written, file, appended, dropped, crashed>>
  BY DEF swap, At, push_back, outVars, fileVars, historyVars
<1>2. buffsToWrite = <<>> /\ written = 0 /\ firstBuffer = ResetBuffer
  BY <1>1 DEF Inv, FourBuffers
<1>3. Appended' = Appended /\ Numbered'
  BY <1>1 DEF Appended, Inv, Numbered
<1>4. PlacesKnown /\ PlacesKnown'
  BY <1>1, KnowPlaces, KnowPlacesNext DEF Inv, Shape
<1>5. /\ m_buffs \in Seq(Buffer) /\ m_curbuff \in Buffer /\ Len(m_buffs) \in Nat
      /\ Len(buffsToWrite') = Len(m_buffs) + 1
      /\ \A k \in 1..Len(m_buffs) : buffsToWrite'[k] = m_buffs[k]
      /\ buffsToWrite'[Len(m_buffs) + 1] = m_curbuff
  <2>1. m_buffs \in Seq(Buffer) /\ m_curbuff \in Buffer
    BY <1>1 DEF Inv, TypeOK
  <2> QED BY <1>1, <2>1
<1>6. /\ Waiting = 0 /\ Count = 2 + Len(m_buffs) /\ Waiting' = Len(m_buffs) + 1
      /\ Len(m_buffs') = 0 /\ Count' = Count + 1 /\ m_curbuff'.lines = <<>>
  BY <1>1, <1>2, <1>5 DEF Waiting, Count, ResetBuffer
<1>7. ASSUME NEW p \in 1..Count PROVE Places'[p] = Places[p]
  <2>1. CASE p = 1
    BY <1>1, <1>4, <2>1 DEF PlacesKnown
  <2>2. CASE p # 1
    <3>1. /\ p - 1 \in 1..Waiting' /\ p = 1 + (p - 1) /\ written' + (p - 1) = p - 1
          /\ p = Count => p - 1 = Len(m_buffs) + 1
          /\ p # Count => p - 1 \in 1..Len(m_buffs) /\ p = 1 + Waiting + (p - 1)
      BY <1>1, <1>2, <1>5, <1>6, <2>2
    <3>2. Places'[p] = buffsToWrite'[p - 1].lines
      BY <1>4, <3>1 DEF PlacesKnown
    <3>3. CASE p = Count
      BY <1>4, <1>5, <3>1, <3>2, <3>3 DEF PlacesKnown
    <3>4. CASE p # Count
      BY <1>4, <1>5, <3>1, <3>2, <3>4 DEF PlacesKnown
    <3> QED BY <3>3, <3>4
  <2> QED BY <2>1, <2>2
<1>8. Places'[Count + 1] = <<>>
  BY <1>4, <1>6 DEF PlacesKnown
<1>9. <<>> \in Seq(Line) /\ Len(<<>>) = 0 /\ Len(<<>>) <= 1 /\ 1..Len(<<>>) = {}
  OBVIOUS
<1>10. InOrder(Places)
  BY <1>1 DEF Inv, NoLineLost
<1>11. PlaceAdded(Count, Places, Places', <<>>)
  <2>1. /\ Count \in Nat /\ Places \in [1..Count -> Seq(Line)]
        /\ Places' \in [1..(Count + 1) -> Seq(Line)]
    BY <1>4, <1>6 DEF PlacesKnown
  <2>2. \A p \in 1..Count : Places'[p] = Places[p]
    BY <1>7
  <2> QED BY <1>8, <1>9, <1>10, <2>1, <2>2, Zenon DEF PlaceAdded
<1>12. {<<>>[i] : i \in 1..Len(<<>>)} = {}
  BY <1>9
<1>13. Appended' \ dropped' = (Appended \ dropped) \cup {<<>>[i] : i \in 1..Len(<<>>)}
  BY <1>1, <1>3, <1>12
<1> QED BY <1>1, <1>3, <1>11, <1>13, NewPlace

LEMMA WriteKeepsLines ==
    ASSUME Inv, Shape', write
    PROVE  Numbered' /\ NoLineLost'
<1>1. /\ file' = file \o buffsToWrite[written + 1].lines
      /\ written < Len(buffsToWrite) /\ written' = written + 1
      /\ ~crashed /\ UNCHANGED <<m_curbuff, m_buffs, buffsToWrite, appended, dropped, crashed>>
  BY WriteShape DEF Inv, Shape
<1>2. Appended' = Appended /\ Numbered'
  BY <1>1 DEF Appended, Inv, Numbered
<1>3. PlacesKnown /\ PlacesKnown'
  BY <1>1, KnowPlaces, KnowPlacesNext DEF Inv, Shape
<1>4. Len(m_buffs) \in Nat /\ written \in Nat /\ Len(buffsToWrite) \in Nat
  BY DEF Inv, TypeOK
<1>5. PICK w \in Nat, n \in Nat :
           /\ Waiting' = w /\ Waiting = w + 1 /\ Count' = n /\ Count = n + 1
           /\ n = 2 + w + Len(m_buffs)
  <2>1. Waiting' \in Nat /\ Count' \in Nat
    BY <1>3 DEF PlacesKnown
  <2>2. Waiting = Waiting' + 1
    BY <1>1, <1>4 DEF Waiting
  <2>3. Count' = 2 + Waiting' + Len(m_buffs) /\ Count = 2 + Waiting + Len(m_buffs)
    BY <1>1 DEF Count
  <2>4. \A x, y \in Nat : 2 + (x + 1) + y = (2 + x + y) + 1
    OBVIOUS
  <2>5. Count = Count' + 1
    BY <1>4, <2>1, <2>2, <2>3, <2>4, Zenon
  <2> QED BY <2>1, <2>2, <2>3, <2>5, Zenon
<1>6. Places'[1] = Places[1] \o Places[2]
  <2>1. 1 \in 1..(w + 1) /\ 1 + 1 = 2
    BY <1>5
  <2>2. Places[1 + 1] = buffsToWrite[written + 1].lines
    BY <1>3, <1>5, <2>1 DEF PlacesKnown
  <2>3. Places[1] = file /\ Places'[1] = file'
    BY <1>3 DEF PlacesKnown
  <2> QED BY <1>1, <2>1, <2>2, <2>3
<1>7. ASSUME NEW p \in 2..n PROVE Places'[p] = Places[p + 1]
  <2>1. CASE p \in 2..(1 + w)
    <3>1. /\ p - 1 \in 1..w /\ p \in 1..(w + 1) /\ p = 1 + (p - 1) /\ p + 1 = 1 + p
          /\ written' + (p - 1) = written + p
      BY <1>1, <1>4, <1>5, <2>1
    <3>2. Places'[1 + (p - 1)] = buffsToWrite'[written' + (p - 1)].lines
      BY <1>3, <1>5, <3>1 DEF PlacesKnown
    <3>3. Places[1 + p] = buffsToWrite[written + p].lines
      BY <1>3, <1>5, <3>1 DEF PlacesKnown
    <3> QED BY <1>1, <3>1, <3>2, <3>3
  <2>2. CASE p > 1 + w /\ p # n
    <3>1. /\ p - 1 - w \in 1..Len(m_buffs) /\ p = 1 + w + (p - 1 - w)
          /\ p + 1 = 1 + (w + 1) + (p - 1 - w)
      BY <1>4, <1>5, <2>2
    <3>2. Places'[1 + w + (p - 1 - w)] = m_buffs'[p - 1 - w].lines
      BY <1>1, <1>3, <1>5, <3>1 DEF PlacesKnown
    <3>3. Places[1 + (w + 1) + (p - 1 - w)] = m_buffs[p - 1 - w].lines
      BY <1>3, <1>5, <3>1 DEF PlacesKnown
    <3> QED BY <1>1, <3>1, <3>2, <3>3
  <2>3. CASE p = n
    BY <1>1, <1>3, <1>5, <2>3 DEF PlacesKnown
  <2> QED BY <1>5, <2>1, <2>2, <2>3
<1>8. InOrder(Places) /\ Held(Places) = Appended \ dropped
  BY <1>1 DEF Inv, NoLineLost
<1>9. Joined(n, Places, Places')
  <2>1. /\ n > 0 /\ Places \in [1..(n + 1) -> Seq(Line)]
        /\ Places' \in [1..n -> Seq(Line)]
    BY <1>3, <1>5 DEF PlacesKnown
  <2>2. \A p \in 2..n : Places'[p] = Places[p + 1]
    BY <1>7
  <2> QED BY <1>6, <1>8, <2>1, <2>2, Zenon DEF Joined
<1>10. InOrder(Places') /\ Held(Places') = Held(Places)
  BY <1>9, FirstTwoJoined
<1> QED BY <1>1, <1>2, <1>8, <1>10 DEF NoLineLost

LEMMA RecycleKeepsLines ==
    ASSUME Inv, recycle
    PROVE  Numbered' /\ NoLineLost'
<1>1. /\ UNCHANGED <<m_curbuff, m_buffs, file, appended, dropped, crashed>>
      /\ written = Len(buffsToWrite) /\ buffsToWrite' = <<>> /\ written' = 0
  BY DEF recycle, frontVars, outVars, fileVars, historyVars
<1>2. SubSeq(buffsToWrite, written + 1, Len(buffsToWrite)) = <<>>
  BY <1>1 DEF Inv, TypeOK
<1>3. SubSeq(buffsToWrite', written' + 1, Len(buffsToWrite')) = <<>>
  BY <1>1
<1>4. Buffered' = Buffered
  BY <1>1, <1>2, <1>3 DEF Buffered
<1>5. Places' = Places
  BY <1>1, <1>4 DEF Places
<1>6. Appended' = Appended
  BY <1>1 DEF Appended
<1> QED BY <1>1, <1>5, <1>6 DEF Inv, Numbered, NoLineLost
-----------------------------------------------------------------------------
(* The theorems *)

LEMMA InitInv == Init => Inv
<1> SUFFICES ASSUME Init PROVE Inv
    OBVIOUS
<1>1. Shape
  BY InitShape
<1>2. appended = <<>> /\ dropped = {} /\ DOMAIN appended = {} /\ Appended = {}
  BY DEF Init, Appended
<1>3. Numbered
  BY <1>2 DEF Numbered
<1>4. /\ buffsToWrite = <<>> /\ written = 0 /\ m_buffs = <<>> /\ m_curbuff = ResetBuffer
      /\ file = <<>> /\ ~crashed
  BY DEF Init
<1>5. PlacesKnown
  BY <1>1, <1>4, KnowPlaces DEF Shape
<1>6. Waiting = 0 /\ Count = 2
  BY <1>4 DEF Waiting, Count
<1>7. \A p \in DOMAIN Places : Places[p] = <<>>
  <2>1. DOMAIN Places = 1..2 /\ Places[1] = <<>> /\ Places[2] = <<>>
    BY <1>4, <1>5, <1>6 DEF PlacesKnown, ResetBuffer
  <2> QED BY <2>1
<1>8. \A p \in DOMAIN Places : DOMAIN Places[p] = {}
  BY <1>7
<1>9. Held(Places) = {} /\ InOrder(Places)
  BY <1>8 DEF Held, InOrder
<1> QED BY <1>1, <1>2, <1>3, <1>9 DEF Inv, Shape, NoLineLost

LEMMA NextInv == Inv /\ [Next]_vars => Inv'
<1> SUFFICES ASSUME Inv, [Next]_vars PROVE Inv'
    OBVIOUS
<1>s. Shape /\ Numbered /\ NoLineLost
  BY DEF Inv, Shape
<1>i. ASSUME Shape', Numbered', NoLineLost' PROVE Inv'
  BY <1>i DEF Inv, Shape
<1>1. CASE append
  <2>1. PICK len \in Lengths : LET line == <<Len(appended) + 1, len>>
                               IN  appendFits(line) \/ appendNext(line) \/ appendCrash(line)
    BY <1>1 DEF append
  <2> DEFINE line == <<Len(appended) + 1, len>>
  <2>2. CASE appendFits(line)
    BY <1>s, <1>i, <2>2, FitsShape, FitsKeepsLines
  <2>3. CASE appendNext(line)
    BY <1>s, <1>i, <2>3, NextBufferShape, NextBufferKeepsLines
  <2>4. CASE appendCrash(line)
    <3>1. Shape'
      BY <1>s, <2>4, CrashShape
    <3>2. crashed' /\ dropped' = dropped /\ NewLine(line)
      BY <2>4 DEF appendCrash
    <3>3. Appended' = Appended \cup {line} /\ \A i \in DOMAIN appended' : appended'[i][1] = i
      BY <3>2, LineIsNew DEF Inv
    <3>4. Numbered'
      BY <1>s, <3>2, <3>3 DEF Numbered
    <3>5. NoLineLost'
      BY <3>2 DEF NoLineLost
    <3> QED BY <1>i, <3>1, <3>4, <3>5
  <2> QED BY <2>1, <2>2, <2>3, <2>4
<1>2. CASE start \/ latchWait \/ stop \/ join
  <2>1. UNCHANGED <<file, buffsToWrite, written, m_buffs, m_curbuff, appended, dropped, crashed>>
    BY <1>2 DEF start, latchWait, stop, join, frontVars, backVars, outVars, fileVars, historyVars
  <2> QED BY <1>s, <1>i, <1>2, <2>1, OwnerShape, PlacesStay
<1>3. CASE begin \/ testRunning \/ waitForSeconds \/ wakeUp
  <2>1. UNCHANGED <<file, buffsToWrite, written, m_buffs, m_curbuff, appended, dropped, crashed>>
    BY <1>3 DEF begin, testRunning, waitForSeconds, wakeUp, frontVars, backVars, outVars, fileVars,
                historyVars
  <2> QED BY <1>s, <1>i, <1>3, <2>1, WaitShape, PlacesStay
<1>4. CASE swap
  BY <1>s, <1>i, <1>4, SwapShape, SwapKeepsLines
<1>5. CASE trim
  <2>1. UNCHANGED <<file, buffsToWrite, written, m_buffs, m_curbuff, appended, dropped, crashed>>
    BY <1>s, <1>5, TrimKeeps
  <2> QED BY <1>s, <1>i, <1>5, <2>1, TrimShape, PlacesStay
<1>6. CASE write
  <2>1. Shape'
    BY <1>s, <1>6, WriteShape
  <2> QED BY <1>i, <1>6, <2>1, WriteKeepsLines
<1>7. CASE recycle
  BY <1>s, <1>i, <1>7, RecycleShape, RecycleKeepsLines
<1>8. CASE UNCHANGED vars
  <2>1. UNCHANGED <<m_curbuff, m_nextbuff, m_buffs, firstBuffer, secondBuffer, buffsToWrite, written,
                    logger, m_running, m_latch, owner, m_appendCount, file, appended, dropped,
                    crashed>>
    BY <1>8 DEF vars, frontVars, backVars, ownerVars, outVars, fileVars, historyVars
  <2>2. Shape'
    BY <1>s, <2>1 DEF Shape, TypeOK, Started, FourBuffers
  <2> QED BY <1>s, <1>i, <2>1, <2>2, PlacesStay
<1> QED BY <1>1, <1>2, <1>3, <1>4, <1>5, <1>6, <1>7, <1>8 DEF Next, LoggerStep

LEMMA InvHolds == SafeSpec => []Inv
BY InitInv, NextInv, PTL DEF SafeSpec

\* Every line that append took and did not drop is in the file or on its way
\* there, once and in order, whatever the sizes of the buffers and of the lines.
THEOREM LinesArrive == SafeSpec => []NoLineLost
<1>1. Inv => NoLineLost
  BY DEF Inv
<1> QED BY <1>1, InvHolds, PTL

\* The logging thread never has more than two buffers to write, so that it never
\* drops one.
THEOREM TwoBuffersSuffice == SafeSpec => []AtMostTwoBuffers
<1>1. Inv => AtMostTwoBuffers
  BY DEF Inv, FourBuffers, AtMostTwoBuffers
<1> QED BY <1>1, InvHolds, PTL

\* The assertions of the logging thread hold, for every schedule.
THEOREM AssertionsAlwaysHold == SafeSpec => []AssertionsHold
<1>1. Inv => AssertionsHold
  <2> SUFFICES ASSUME Inv PROVE AssertionsHold
      OBVIOUS
  <2>1. logger = "begin" => m_running
    BY DEF Inv, TypeOK, Started, OwnerLabels
  <2>2. ASSUME logger \in {"trim", "write"}
        PROVE  /\ buffsToWrite # <<>>
               /\ (IF firstBuffer = Null THEN 1 ELSE 0) + (IF secondBuffer = Null THEN 1 ELSE 0)
                      <= Recyclable
    <3>1. Len(buffsToWrite) \in 1..2 /\ (secondBuffer = Null => Len(buffsToWrite) = 2)
      BY <2>2 DEF Inv, FourBuffers
    <3>2. Recyclable = Len(buffsToWrite)
      <4>1. \A n \in 1..2 : ~(n > 2)
        OBVIOUS
      <4>2. ~(Len(buffsToWrite) > 2)
        BY <3>1, <4>1, Zenon
      <4> QED BY <4>2, Zenon DEF Recyclable
    <3> QED BY <3>1, <3>2
  <2> QED BY <2>1, <2>2 DEF AssertionsHold
<1> QED BY <1>1, InvHolds, PTL
=============================================================================
