--------------------------- MODULE LogFileProofs ---------------------------
(***************************************************************************)
(* Proofs about LogFile for every roll size, period, flush interval and    *)
(* check interval, and whatever the uninitialised members held.            *)
(***************************************************************************)
EXTENDS LogFile, TLAPS

-----------------------------------------------------------------------------
(* One file *)

LEMMA ConcatAt ==
    ASSUME NEW s \in Seq(Line), NEW t \in Seq(Line)
    PROVE  /\ s \o t \in Seq(Line) /\ Len(s \o t) = Len(s) + Len(t)
           /\ Len(s) \in Nat /\ Len(t) \in Nat
           /\ \A k \in 1..Len(s) : (s \o t)[k] = s[k]
           /\ \A k \in 1..Len(t) : (s \o t)[Len(s) + k] = t[k]
<1>1. s \o t \in Seq(Line) /\ Len(s \o t) = Len(s) + Len(t) /\ Len(s) \in Nat /\ Len(t) \in Nat
  OBVIOUS
<1>2. ASSUME NEW k \in 1..Len(s) PROVE (s \o t)[k] = s[k]
  OBVIOUS
<1>3. ASSUME NEW k \in 1..Len(t) PROVE (s \o t)[Len(s) + k] = t[k]
  <2>1. Len(s) + k \in 1..(Len(s) + Len(t)) /\ ~(Len(s) + k <= Len(s)) /\ (Len(s) + k) - Len(s) = k
    BY <1>1
  <2> QED BY <2>1
<1> QED BY <1>1, <1>2, <1>3

LEMMA ConcatAppend ==
    ASSUME NEW s \in Seq(Line), NEW t \in Seq(Line), NEW line \in Line
    PROVE  s \o Append(t, line) = Append(s \o t, line)
OBVIOUS

LEMMA LinesType ==
    ASSUME NEW f \in File
    PROVE  /\ lines(f) \in Seq(Line) /\ Len(lines(f)) \in Nat
           /\ f.disk \in Seq(Line) /\ f.buffer \in Seq(Line) /\ lines(f) = f.disk \o f.buffer
BY DEF File, lines

\* The line is in the file, or it is dropped because the file was not opened
\* or the disk is full.
Written(f, line, g) ==
    /\ g \in File /\ g.name = f.name /\ g.roll = f.roll /\ g.period = f.period /\ g.valid = f.valid
    /\ f.m_nBytesWritten >= Len(lines(f)) => g.m_nBytesWritten >= Len(lines(g))
    /\ \/ lines(g) = Append(lines(f), line) /\ g.dropped = f.dropped
       \/ /\ lines(g) = lines(f) /\ g.dropped = f.dropped \cup {line}
          /\ f.valid => disk = "full"

LEMMA WriteFacts ==
    ASSUME NEW f \in File, NEW line \in Line, NEW g \in writeLine(f, line)
    PROVE  Written(f, line, g)
<1>1. /\ f.disk \in Seq(Line) /\ f.buffer \in Seq(Line) /\ f.m_nBytesWritten \in Nat
      /\ f.dropped \in SUBSET Line /\ f.name \in Int /\ f.valid \in BOOLEAN
      /\ f.roll \in Int /\ f.period \in Int
  BY DEF File
<1>2. CASE f.valid /\ g = [f EXCEPT !.buffer = Append(@, line), !.m_nBytesWritten = @ + 1]
  <2>1. /\ g.buffer = Append(f.buffer, line) /\ g.disk = f.disk /\ g.dropped = f.dropped
        /\ g.m_nBytesWritten = f.m_nBytesWritten + 1 /\ g.name = f.name /\ g.roll = f.roll /\ g.period = f.period /\ g.valid = f.valid
    BY <1>2 DEF File
  <2>a. Append(f.buffer, line) \in Seq(Line) /\ f.m_nBytesWritten + 1 \in Nat
    BY <1>1
  <2>2. g \in File
    BY <1>1, <1>2, <2>a DEF File
  <2>3. lines(g) = Append(lines(f), line)
    BY <1>1, <2>1, ConcatAppend DEF lines
  <2>4. Len(lines(g)) = Len(lines(f)) + 1
    BY <2>3, LinesType
  <2>5. f.m_nBytesWritten >= Len(lines(f)) => g.m_nBytesWritten >= Len(lines(g))
    BY <1>1, <2>1, <2>4, LinesType
  <2> QED BY <2>1, <2>2, <2>3, <2>5 DEF Written
<1>3. CASE /\ f.valid /\ disk = "full"
           /\ g = [f EXCEPT !.dropped = @ \cup {line}, !.m_nBytesWritten = @ + 1]
  <2>1. /\ g.buffer = f.buffer /\ g.disk = f.disk /\ g.dropped = f.dropped \cup {line}
        /\ g.m_nBytesWritten = f.m_nBytesWritten + 1 /\ g.name = f.name /\ g.roll = f.roll /\ g.period = f.period /\ g.valid = f.valid
    BY <1>3 DEF File
  <2>a. f.dropped \cup {line} \in SUBSET Line /\ f.m_nBytesWritten + 1 \in Nat
    BY <1>1
  <2>2. g \in File
    BY <1>1, <1>3, <2>a DEF File
  <2>3. lines(g) = lines(f)
    BY <2>1 DEF lines
  <2>5. f.m_nBytesWritten >= Len(lines(f)) => g.m_nBytesWritten >= Len(lines(g))
    BY <1>1, <2>1, <2>3, LinesType
  <2> QED BY <1>3, <2>1, <2>2, <2>3, <2>5 DEF Written
<1>4. CASE ~f.valid /\ g = [f EXCEPT !.dropped = @ \cup {line}]
  <2>1. /\ g.buffer = f.buffer /\ g.disk = f.disk /\ g.dropped = f.dropped \cup {line}
        /\ g.m_nBytesWritten = f.m_nBytesWritten /\ g.name = f.name /\ g.roll = f.roll /\ g.period = f.period /\ g.valid = f.valid
    BY <1>4 DEF File
  <2>2. g \in File
    BY <1>1, <1>4 DEF File
  <2>3. lines(g) = lines(f)
    BY <2>1 DEF lines
  <2> QED BY <1>4, <2>1, <2>2, <2>3 DEF Written
<1> QED BY <1>2, <1>3, <1>4 DEF writeLine, OnFullDisk

\* A flush only moves lines from the buffer to the disk.
Same(f, g) ==
    /\ g \in File /\ g.name = f.name /\ g.roll = f.roll /\ g.period = f.period /\ g.valid = f.valid /\ g.dropped = f.dropped
    /\ g.m_nBytesWritten = f.m_nBytesWritten /\ lines(g) = lines(f)

LEMMA FlushedFacts ==
    ASSUME NEW f \in File
    PROVE  Same(f, Flushed(f)) /\ Flushed(f).buffer = <<>>
<1>1. /\ f.disk \in Seq(Line) /\ f.buffer \in Seq(Line) /\ f.disk \o f.buffer \in Seq(Line)
  BY LinesType DEF lines
<1>2. Flushed(f) \in File
  <2>1. <<>> \in Seq(Line) /\ Flushed(f) = [f EXCEPT !.disk = f.disk \o f.buffer, !.buffer = <<>>]
    BY DEF Flushed
  <2> QED BY <1>1, <2>1 DEF File
<1>3. /\ Flushed(f).name = f.name /\ Flushed(f).roll = f.roll /\ Flushed(f).period = f.period /\ Flushed(f).valid = f.valid /\ Flushed(f).dropped = f.dropped
      /\ Flushed(f).m_nBytesWritten = f.m_nBytesWritten /\ Flushed(f).buffer = <<>>
      /\ Flushed(f).disk = f.disk \o f.buffer
  BY DEF Flushed, File
<1>4. lines(Flushed(f)) = lines(f)
  BY <1>1, <1>3 DEF lines
<1> QED BY <1>2, <1>3, <1>4 DEF Same

LEMMA FlushFacts ==
    ASSUME NEW f \in File, NEW g \in fflush(f)
    PROVE  Same(f, g)
<1>1. g = Flushed(f) \/ g = f
  BY DEF fflush, OnFullDisk
<1>2. Same(f, f)
  BY DEF Same
<1> QED BY <1>1, <1>2, FlushedFacts

\* A file that is closed has nothing buffered, and has lost what was if the disk
\* is full.
Closed(f, g) ==
    \/ Same(f, g) /\ g.buffer = <<>>
    \/ /\ g \in File /\ g.name = f.name /\ g.roll = f.roll /\ g.period = f.period /\ g.valid = f.valid /\ g.buffer = <<>>
       /\ g.m_nBytesWritten = f.m_nBytesWritten
       /\ lines(g) = f.disk /\ g.dropped = f.dropped \cup Held(<<f.buffer>>) /\ disk = "full"

LEMMA HeldOne ==
    ASSUME NEW s \in Seq(Line)
    PROVE  Held(<<s>>) = {s[i] : i \in 1..Len(s)} /\ Held(<<s>>) \subseteq Line
<1>1. DOMAIN <<s>> = {1} /\ <<s>>[1] = s /\ DOMAIN s = 1..Len(s)
  OBVIOUS
<1>2. Held(<<s>>) = {s[i] : i \in 1..Len(s)}
  BY <1>1 DEF Held
<1>3. \A i \in 1..Len(s) : s[i] \in Line
  OBVIOUS
<1> QED BY <1>2, <1>3

LEMMA CloseFacts ==
    ASSUME NEW f \in File, NEW g \in fclose(f)
    PROVE  Closed(f, g)
<1>1. CASE g = Flushed(f)
  BY <1>1, FlushedFacts DEF Closed
<1>2. CASE disk = "full" /\ g = [f EXCEPT !.buffer = <<>>, !.dropped = @ \cup Held(<<f.buffer>>)]
  <2>1. /\ g.buffer = <<>> /\ g.disk = f.disk /\ g.dropped = f.dropped \cup Held(<<f.buffer>>)
        /\ g.m_nBytesWritten = f.m_nBytesWritten /\ g.name = f.name /\ g.roll = f.roll /\ g.period = f.period /\ g.valid = f.valid
    BY <1>2 DEF File
  <2>2. f.buffer \in Seq(Line) /\ f.disk \in Seq(Line) /\ f.dropped \subseteq Line
    BY DEF File
  <2>3. f.dropped \cup Held(<<f.buffer>>) \in SUBSET Line /\ <<>> \in Seq(Line)
    BY <2>2, HeldOne
  <2>4. g \in File
    BY <1>2, <2>3 DEF File
  <2>5. lines(g) = f.disk
    BY <2>1, <2>2 DEF lines
  <2> QED BY <1>2, <2>1, <2>4, <2>5 DEF Closed
<1> QED BY <1>1, <1>2 DEF fclose, OnFullDisk

\* The lines of the closed file are the first of those it had.
LEMMA ClosedIsPrefix ==
    ASSUME NEW f \in File, NEW g, Closed(f, g)
    PROVE  /\ g \in File /\ g.name = f.name /\ g.roll = f.roll /\ g.period = f.period /\ g.valid = f.valid /\ g.buffer = <<>>
           /\ g.m_nBytesWritten = f.m_nBytesWritten
           /\ Len(lines(g)) \in Nat /\ Len(lines(f)) \in Nat /\ Len(lines(g)) <= Len(lines(f))
           /\ \A k \in 1..Len(lines(g)) : lines(g)[k] = lines(f)[k]
<1>1. CASE Same(f, g) /\ g.buffer = <<>>
  BY <1>1, LinesType DEF Same
<1>2. CASE ~(Same(f, g) /\ g.buffer = <<>>)
  <2>1. /\ g \in File /\ g.name = f.name /\ g.roll = f.roll /\ g.period = f.period /\ g.valid = f.valid /\ g.buffer = <<>>
        /\ g.m_nBytesWritten = f.m_nBytesWritten /\ lines(g) = f.disk
    BY <1>2 DEF Closed
  <2>2. /\ Len(lines(f)) = Len(f.disk) + Len(f.buffer) /\ Len(f.disk) \in Nat /\ Len(f.buffer) \in Nat
        /\ \A k \in 1..Len(f.disk) : lines(f)[k] = f.disk[k]
    <3>1. f.disk \in Seq(Line) /\ f.buffer \in Seq(Line)
      BY LinesType
    <3>2. lines(f) = f.disk \o f.buffer
      BY DEF lines
    <3>3. LET s == f.disk
              t == f.buffer
          IN  /\ Len(s \o t) = Len(s) + Len(t) /\ Len(s) \in Nat /\ Len(t) \in Nat
              /\ \A k \in 1..Len(s) : (s \o t)[k] = s[k]
      BY <3>1, ConcatAt
    <3> QED BY <3>2, <3>3, Zenon
  <2>3. Len(lines(g)) \in Nat /\ Len(lines(f)) \in Nat /\ Len(lines(g)) <= Len(lines(f))
    <3>1. \A m, n \in Nat : m <= m + n /\ m + n \in Nat
      OBVIOUS
    <3> QED BY <2>1, <2>2, <3>1, Zenon
  <2> QED BY <2>1, <2>2, <2>3
<1> QED BY <1>1, <1>2

-----------------------------------------------------------------------------
(* The lines of all files *)

PlacesOf(fs) == [i \in DOMAIN fs |-> lines(fs[i])]
DroppedOf(fs) == UNION {fs[i].dropped : i \in DOMAIN fs}

\* NoLineLost of the files fs after the lines app.
Kept(fs, app) ==
    /\ Held(PlacesOf(fs)) = app \ DroppedOf(fs)
    /\ InOrder(PlacesOf(fs))
    /\ DroppedOf(fs) \subseteq app
    /\ disk = "ok" => \A i \in DOMAIN fs : fs[i].valid => fs[i].dropped = {}

LEMMA FilesHold ==
    ASSUME NEW n \in Nat, NEW fs \in [1..n -> File]
    PROVE  /\ \A l : l \in Held(PlacesOf(fs)) <=>
                         \E p \in 1..n : \E i \in 1..Len(lines(fs[p])) : lines(fs[p])[i] = l
           /\ \A l : l \in DroppedOf(fs) <=> \E p \in 1..n : l \in fs[p].dropped
           /\ InOrder(PlacesOf(fs)) <=>
                  \A p, q \in 1..n : \A i \in 1..Len(lines(fs[p])), j \in 1..Len(lines(fs[q])) :
                      p < q \/ (p = q /\ i < j) => lines(fs[p])[i][1] < lines(fs[q])[j][1]
<1>1. /\ DOMAIN PlacesOf(fs) = 1..n /\ DOMAIN fs = 1..n
      /\ \A p \in 1..n : PlacesOf(fs)[p] = lines(fs[p])
  BY DEF PlacesOf
<1>2. \A p \in 1..n : DOMAIN lines(fs[p]) = 1..Len(lines(fs[p]))
  <2>1. \A p \in 1..n : fs[p] \in File
    OBVIOUS
  <2>2. \A p \in 1..n : lines(fs[p]) \in Seq(Line)
    BY <2>1, LinesType
  <2> QED BY <2>2
<1>3. \A l : l \in Held(PlacesOf(fs)) <=>
                 \E p \in DOMAIN PlacesOf(fs) :
                     \E i \in DOMAIN PlacesOf(fs)[p] : PlacesOf(fs)[p][i] = l
  BY DEF Held
<1>4. \A l : l \in Held(PlacesOf(fs)) <=>
                 \E p \in 1..n : \E i \in 1..Len(lines(fs[p])) : lines(fs[p])[i] = l
  <2> SUFFICES ASSUME NEW l
               PROVE  l \in Held(PlacesOf(fs)) <=>
                          \E p \in 1..n : \E i \in 1..Len(lines(fs[p])) : lines(fs[p])[i] = l
    OBVIOUS
  <2>1. \A p \in 1..n : (\E i \in DOMAIN PlacesOf(fs)[p] : PlacesOf(fs)[p][i] = l)
                       <=> (\E i \in 1..Len(lines(fs[p])) : lines(fs[p])[i] = l)
    BY <1>1, <1>2
  <2>2. l \in Held(PlacesOf(fs)) <=>
            \E p \in 1..n : \E i \in DOMAIN PlacesOf(fs)[p] : PlacesOf(fs)[p][i] = l
    BY <1>1, <1>3
  <2> QED BY <2>1, <2>2, Zenon
<1>5. \A l : l \in DroppedOf(fs) <=> \E p \in 1..n : l \in fs[p].dropped
  BY <1>1, Zenon DEF DroppedOf
<1>6. InOrder(PlacesOf(fs)) <=>
          \A p, q \in 1..n : \A i \in 1..Len(lines(fs[p])), j \in 1..Len(lines(fs[q])) :
              p < q \/ (p = q /\ i < j) => lines(fs[p])[i][1] < lines(fs[q])[j][1]
  <2> DEFINE Ordered(s, t, p, q) == \A i \in DOMAIN s, j \in DOMAIN t :
                                       p < q \/ (p = q /\ i < j) => s[i][1] < t[j][1]
  <2>1. InOrder(PlacesOf(fs)) <=>
            \A p, q \in 1..n : Ordered(PlacesOf(fs)[p], PlacesOf(fs)[q], p, q)
    BY <1>1, Zenon DEF InOrder
  <2>2. \A p, q \in 1..n : Ordered(PlacesOf(fs)[p], PlacesOf(fs)[q], p, q)
                           <=> Ordered(lines(fs[p]), lines(fs[q]), p, q)
    BY <1>1, Zenon
  <2>3. \A p, q \in 1..n : Ordered(lines(fs[p]), lines(fs[q]), p, q)
                 <=> \A i \in 1..Len(lines(fs[p])), j \in 1..Len(lines(fs[q])) :
                         p < q \/ (p = q /\ i < j) => lines(fs[p])[i][1] < lines(fs[q])[j][1]
    BY <1>2, Zenon
  <2> HIDE DEF Ordered
  <2> QED BY <2>1, <2>2, <2>3
<1> QED BY <1>4, <1>5, <1>6, Zenon

\* The same, place by place.
In(n, fs, l) == \E p \in 1..n : \E i \in 1..Len(lines(fs[p])) : lines(fs[p])[i] = l
Gone(n, fs, l) == \E p \in 1..n : l \in fs[p].dropped
Ordered(n, fs) == \A p, q \in 1..n : \A i \in 1..Len(lines(fs[p])), j \in 1..Len(lines(fs[q])) :
                      p < q \/ (p = q /\ i < j) => lines(fs[p])[i][1] < lines(fs[q])[j][1]
Spotless(n, fs) == disk = "ok" => \A p \in 1..n : fs[p].valid => fs[p].dropped = {}

KeptAt(n, fs, app) ==
    /\ \A l : In(n, fs, l) <=> l \in app /\ ~Gone(n, fs, l)
    /\ \A l : Gone(n, fs, l) => l \in app
    /\ Ordered(n, fs)
    /\ Spotless(n, fs)

LEMMA KeptPlaceByPlace ==
    ASSUME NEW n \in Nat, NEW fs \in [1..n -> File], NEW app
    PROVE  Kept(fs, app) <=> KeptAt(n, fs, app)
<1>1. /\ \A l : l \in Held(PlacesOf(fs)) <=> In(n, fs, l)
      /\ \A l : l \in DroppedOf(fs) <=> Gone(n, fs, l)
      /\ InOrder(PlacesOf(fs)) <=> Ordered(n, fs)
  BY FilesHold, Zenon DEF In, Gone, Ordered
<1>2. DOMAIN fs = 1..n
  OBVIOUS
<1>3. (Held(PlacesOf(fs)) = app \ DroppedOf(fs))
          <=> (\A l : In(n, fs, l) <=> l \in app /\ ~Gone(n, fs, l))
  BY <1>1, Zenon
<1>4. (DroppedOf(fs) \subseteq app) <=> (\A l : Gone(n, fs, l) => l \in app)
  BY <1>1, Zenon
<1> QED BY <1>1, <1>2, <1>3, <1>4, Zenon DEF Kept, KeptAt, Spotless

\* gs is fs with another last file.
Replaced(n, fs, gs) ==
    /\ n \in Nat /\ n > 0 /\ fs \in [1..n -> File] /\ gs \in [1..n -> File]
    /\ \A p \in 1..(n - 1) : gs[p] = fs[p]

LEMMA LastOrBefore ==
    ASSUME NEW n \in Nat, n > 0
    PROVE  /\ \A p \in 1..n : p = n \/ p \in 1..(n - 1)
           /\ \A p \in 1..(n - 1) : p \in 1..n /\ p < n /\ p # n
           /\ n \in 1..n /\ ~(n < n)
OBVIOUS

LEMMA KeptSame ==
    ASSUME NEW n, NEW fs, NEW gs, NEW app, Replaced(n, fs, gs), Same(fs[n], gs[n]),
           KeptAt(n, fs, app)
    PROVE  KeptAt(n, gs, app)
<1>1. /\ n \in Nat /\ n > 0 /\ fs \in [1..n -> File] /\ gs \in [1..n -> File]
      /\ \A p \in 1..(n - 1) : gs[p] = fs[p]
  BY DEF Replaced
<1>2. \A p \in 1..n : /\ lines(gs[p]) = lines(fs[p]) /\ gs[p].dropped = fs[p].dropped
                      /\ gs[p].valid = fs[p].valid
  BY <1>1, LastOrBefore, Zenon DEF Same
<1>3. \A l : /\ In(n, gs, l) <=> In(n, fs, l)
             /\ Gone(n, gs, l) <=> Gone(n, fs, l)
  BY <1>2 DEF In, Gone
<1>4. Ordered(n, gs) <=> Ordered(n, fs)
  BY <1>2 DEF Ordered
<1>5. Spotless(n, gs) <=> Spotless(n, fs)
  BY <1>2, Zenon DEF Spotless
<1> QED BY <1>3, <1>4, <1>5, Zenon DEF KeptAt

\* A new, empty file.
LEMMA KeptNew ==
    ASSUME NEW n \in Nat, NEW fs \in [1..n -> File], NEW gs \in [1..(n + 1) -> File], NEW app,
           \A p \in 1..n : gs[p] = fs[p], lines(gs[n + 1]) = <<>>, gs[n + 1].dropped = {},
           KeptAt(n, fs, app)
    PROVE  KeptAt(n + 1, gs, app)
<1>1. /\ \A p \in 1..(n + 1) : p = n + 1 \/ p \in 1..n
      /\ \A p \in 1..n : p \in 1..(n + 1)
  OBVIOUS
<1>2. \A i : i \notin 1..Len(lines(gs[n + 1]))
  OBVIOUS
<1>3. \A l : In(n + 1, gs, l) <=> In(n, fs, l)
  BY <1>1, <1>2, Zenon DEF In
<1>4. \A l : Gone(n + 1, gs, l) <=> Gone(n, fs, l)
  BY <1>1, Zenon DEF Gone
<1>5. Ordered(n + 1, gs)
  BY <1>1, <1>2, Zenon DEF Ordered, KeptAt
<1>6. Spotless(n + 1, gs)
  BY <1>1, Zenon DEF Spotless, KeptAt
<1> QED BY <1>3, <1>4, <1>5, <1>6, Zenon DEF KeptAt

\* A line with a higher number than all before it is written, or dropped.
LEMMA KeptWrite ==
    ASSUME NEW n, NEW fs, NEW gs, NEW app, NEW line \in Line,
           Replaced(n, fs, gs), Written(fs[n], line, gs[n]), KeptAt(n, fs, app),
           \A l \in app : l[1] < line[1]
    PROVE  KeptAt(n, gs, app \cup {line})
<1>1. /\ n \in Nat /\ n > 0 /\ fs \in [1..n -> File] /\ gs \in [1..n -> File]
      /\ \A p \in 1..(n - 1) : gs[p] = fs[p]
      /\ fs[n] \in File
  BY DEF Replaced
<1> DEFINE L == Len(lines(fs[n]))
<1>2. lines(fs[n]) \in Seq(Line) /\ L \in Nat
  BY <1>1, LinesType
<1>3. line \notin app
  <2>1. line[1] \in Nat
    BY DEF Line
  <2>2. ~(line[1] < line[1])
    BY <2>1
  <2> QED BY <2>2
<1>4. ~In(n, fs, line) /\ ~Gone(n, fs, line)
  BY <1>3, Zenon DEF KeptAt
<1>5. CASE lines(gs[n]) = Append(lines(fs[n]), line) /\ gs[n].dropped = fs[n].dropped
  <2>1. /\ Len(lines(gs[n])) = L + 1 /\ lines(gs[n])[L + 1] = line
        /\ \A i \in 1..L : lines(gs[n])[i] = lines(fs[n])[i]
    BY <1>2, <1>5
  <2>2. /\ \A i \in 1..(L + 1) : i = L + 1 \/ i \in 1..L
        /\ \A i \in 1..L : i \in 1..(L + 1) /\ i < L + 1 /\ ~(L + 1 < i)
        /\ L + 1 \in 1..(L + 1) /\ ~(L + 1 < L + 1)
    BY <1>2
  <2>3. \A p \in 1..n : \A i \in 1..Len(lines(gs[p])) :
            \/ i \in 1..Len(lines(fs[p])) /\ lines(gs[p])[i] = lines(fs[p])[i]
            \/ p = n /\ i = L + 1 /\ lines(gs[p])[i] = line
    BY <1>1, <2>1, <2>2, LastOrBefore
  <2>4. \A p \in 1..n : \A i \in 1..Len(lines(fs[p])) :
            i \in 1..Len(lines(gs[p])) /\ lines(gs[p])[i] = lines(fs[p])[i]
    BY <1>1, <2>1, <2>2, LastOrBefore
  <2>5. \A l : In(n, gs, l) <=> In(n, fs, l) \/ l = line
    <3>1. ASSUME NEW l, In(n, gs, l) PROVE In(n, fs, l) \/ l = line
      BY <2>3, <3>1, Zenon DEF In
    <3>2. ASSUME NEW l, In(n, fs, l) PROVE In(n, gs, l)
      BY <2>4, <3>2, Zenon DEF In
    <3>3. In(n, gs, line)
      BY <1>1, <2>1, <2>2, LastOrBefore DEF In
    <3> QED BY <3>1, <3>2, <3>3, Zenon
  <2>6. \A p \in 1..n : gs[p].dropped = fs[p].dropped /\ gs[p].valid = fs[p].valid
    BY <1>1, <1>5, LastOrBefore, Zenon DEF Written
  <2>7. \A l : Gone(n, gs, l) <=> Gone(n, fs, l)
    BY <2>6, Zenon DEF Gone
  <2>8. \A p \in 1..n : \A i \in 1..Len(lines(fs[p])) : lines(fs[p])[i][1] < line[1]
    BY Zenon DEF KeptAt, In
  <2>9. Ordered(n, gs)
    <3> SUFFICES ASSUME NEW p \in 1..n, NEW q \in 1..n,
                        NEW i \in 1..Len(lines(gs[p])), NEW j \in 1..Len(lines(gs[q])),
                        p < q \/ (p = q /\ i < j)
                 PROVE  lines(gs[p])[i][1] < lines(gs[q])[j][1]
      BY Zenon DEF Ordered
    <3>1. CASE i \in 1..Len(lines(fs[p])) /\ lines(gs[p])[i] = lines(fs[p])[i]
      <4>1. CASE j \in 1..Len(lines(fs[q])) /\ lines(gs[q])[j] = lines(fs[q])[j]
        BY <3>1, <4>1, Zenon DEF KeptAt, Ordered
      <4>2. CASE lines(gs[q])[j] = line
        BY <2>8, <3>1, <4>2, Zenon
      <4> QED BY <2>3, <4>1, <4>2, Zenon
    <3>2. CASE p = n /\ i = L + 1
      <4>1. ~(p < q)
        BY <1>1, <3>2
      <4>2. q = n /\ i < j /\ j \in 1..(L + 1)
        BY <2>1, <3>2, <4>1
      <4> QED BY <1>2, <3>2, <4>2
    <3> QED BY <2>3, <3>1, <3>2, Zenon
  <2>10. Spotless(n, gs)
    BY <2>6, Zenon DEF Spotless, KeptAt
  <2> QED BY <1>3, <1>4, <2>5, <2>7, <2>9, <2>10, Zenon DEF KeptAt
<1>6. CASE /\ lines(gs[n]) = lines(fs[n]) /\ gs[n].dropped = fs[n].dropped \cup {line}
           /\ fs[n].valid => disk = "full"
  <2>1. \A p \in 1..n : lines(gs[p]) = lines(fs[p]) /\ gs[p].valid = fs[p].valid
    BY <1>1, <1>6, LastOrBefore, Zenon DEF Written
  <2>2. \A l : In(n, gs, l) <=> In(n, fs, l)
    BY <2>1, Zenon DEF In
  <2>3. Ordered(n, gs)
    <3>1. Ordered(n, fs)
      BY DEF KeptAt
    <3> QED BY <2>1, <3>1 DEF Ordered
  <2>4. \A l : Gone(n, gs, l) <=> Gone(n, fs, l) \/ l = line
    BY <1>1, <1>6, LastOrBefore DEF Gone
  <2>5. Spotless(n, gs)
    <3> SUFFICES ASSUME disk = "ok", NEW p \in 1..n, gs[p].valid PROVE gs[p].dropped = {}
      BY Zenon DEF Spotless
    <3>1. fs[p].valid
      BY <2>1
    <3>2. p # n
      BY <1>6, <3>1
    <3>3. gs[p] = fs[p]
      BY <1>1, <3>2, LastOrBefore, Zenon
    <3> QED BY <3>3, Zenon DEF KeptAt, Spotless
  <2> QED BY <1>3, <1>4, <2>2, <2>3, <2>4, <2>5, Zenon DEF KeptAt
<1> QED BY <1>5, <1>6 DEF Written

\* A file is closed, and what was buffered is dropped if the disk is full.
LEMMA KeptClosed ==
    ASSUME NEW n, NEW fs, NEW gs, NEW app,
           Replaced(n, fs, gs), Closed(fs[n], gs[n]), KeptAt(n, fs, app)
    PROVE  KeptAt(n, gs, app)
<1>0. CASE Same(fs[n], gs[n])
  BY <1>0, KeptSame
<1>a. CASE ~Same(fs[n], gs[n])
  <2>1. /\ n \in Nat /\ n > 0 /\ fs \in [1..n -> File] /\ gs \in [1..n -> File]
        /\ \A p \in 1..(n - 1) : gs[p] = fs[p]
        /\ fs[n] \in File
    BY DEF Replaced
  <2> DEFINE s == fs[n].disk
             t == fs[n].buffer
  <2>2. s \in Seq(Line) /\ t \in Seq(Line) /\ lines(fs[n]) = s \o t
    BY <2>1, LinesType
  <2>3. /\ gs[n].valid = fs[n].valid /\ lines(gs[n]) = s /\ disk = "full"
        /\ gs[n].dropped = fs[n].dropped \cup Held(<<t>>)
    BY <1>a DEF Closed
  <2> HIDE DEF s, t
  <2>4. /\ Len(lines(fs[n])) = Len(s) + Len(t) /\ Len(s) \in Nat /\ Len(t) \in Nat
        /\ \A k \in 1..Len(s) : lines(fs[n])[k] = s[k]
        /\ \A k \in 1..Len(t) : lines(fs[n])[Len(s) + k] = t[k]
    BY <2>2, ConcatAt
  <2>5. /\ \A k \in 1..Len(s) : k \in 1..(Len(s) + Len(t))
        /\ \A k \in 1..Len(t) : Len(s) + k \in 1..(Len(s) + Len(t))
        /\ \A k \in 1..(Len(s) + Len(t)) :
               k \in 1..Len(s) \/ \E j \in 1..Len(t) : k = Len(s) + j
        /\ \A k \in 1..Len(s), j \in 1..Len(t) : k < Len(s) + j
    <3>1. \A a, b \in Nat : /\ \A k \in 1..a : k \in 1..(a + b)
                            /\ \A k \in 1..b : a + k \in 1..(a + b)
                            /\ \A k \in 1..a, j \in 1..b : k < a + j
      OBVIOUS
    <3>2. ASSUME NEW a \in Nat, NEW b \in Nat, NEW k \in 1..(a + b), k \notin 1..a
          PROVE  \E j \in 1..b : k = a + j
      <4>1. k - a \in 1..b /\ k = a + (k - a)
        BY <3>2
      <4> QED BY <4>1
    <3> QED BY <2>4, <3>1, <3>2, Zenon
  <2>6. \A l : l \in Held(<<t>>) <=> \E j \in 1..Len(t) : l = t[j]
    BY <2>2, HeldOne
  <2>7. \A l : Gone(n, gs, l) <=> Gone(n, fs, l) \/ l \in Held(<<t>>)
    BY <2>1, <2>3, LastOrBefore DEF Gone
  <2>8. \A p \in 1..n : \A i \in 1..Len(lines(gs[p])) :
            i \in 1..Len(lines(fs[p])) /\ lines(gs[p])[i] = lines(fs[p])[i]
    <3> SUFFICES ASSUME NEW p \in 1..n, NEW i \in 1..Len(lines(gs[p]))
                 PROVE  i \in 1..Len(lines(fs[p])) /\ lines(gs[p])[i] = lines(fs[p])[i]
      OBVIOUS
    <3>1. CASE p = n
      BY <2>3, <2>4, <2>5, <3>1
    <3>2. CASE p \in 1..(n - 1)
      BY <2>1, <3>2
    <3> QED BY <2>1, <3>1, <3>2, LastOrBefore
  <2>9. Ordered(n, fs) /\ Ordered(n, gs)
    <3>1. Ordered(n, fs)
      BY DEF KeptAt
    <3> QED BY <2>8, <3>1, Zenon DEF Ordered
  <2>10. ASSUME NEW l, In(n, gs, l) PROVE In(n, fs, l) /\ l \notin Held(<<t>>)
    <3>1. PICK p \in 1..n : \E i \in 1..Len(lines(gs[p])) : lines(gs[p])[i] = l
      BY <2>10, Zenon DEF In
    <3>2. PICK i \in 1..Len(lines(gs[p])) : lines(gs[p])[i] = l
      BY <3>1
    <3>3. i \in 1..Len(lines(fs[p])) /\ lines(fs[p])[i] = l
      BY <2>8, <3>2, Zenon
    <3>4. ASSUME NEW j \in 1..Len(t), l = t[j] PROVE FALSE
      <4>1. Len(s) + j \in 1..Len(lines(fs[n])) /\ lines(fs[n])[Len(s) + j] = l
        BY <2>4, <2>5, <3>4
      <4>2. p < n \/ (p = n /\ i < Len(s) + j)
        <5>1. CASE p = n
          <6>1. i \in 1..Len(s)
            BY <2>3, <5>1
          <6> QED BY <2>5, <5>1, <6>1
        <5>2. CASE p \in 1..(n - 1)
          BY <2>1, <5>2
        <5> QED BY <2>1, <5>1, <5>2, LastOrBefore
      <4>3. l[1] < l[1]
        <5>1. n \in 1..n
          BY <2>1
        <5> QED BY <2>9, <3>3, <4>1, <4>2, <5>1, Zenon DEF Ordered
      <4>4. l \in Line
        <5>1. t[j] \in Line
          BY <2>2
        <5> QED BY <5>1, <3>4
      <4> QED BY <4>3, <4>4 DEF Line
    <3> QED BY <2>6, <3>3, <3>4, Zenon DEF In
  <2>11. ASSUME NEW l, In(n, fs, l), l \notin Held(<<t>>) PROVE In(n, gs, l)
    <3>1. PICK p \in 1..n : \E i \in 1..Len(lines(fs[p])) : lines(fs[p])[i] = l
      BY <2>11, Zenon DEF In
    <3>2. PICK i \in 1..Len(lines(fs[p])) : lines(fs[p])[i] = l
      BY <3>1
    <3>3. CASE p \in 1..(n - 1)
      BY <2>1, <3>2, <3>3, LastOrBefore DEF In
    <3>4. CASE p = n
      <4>1. i \in 1..(Len(s) + Len(t))
        BY <2>4, <3>4
      <4>2. ~\E j \in 1..Len(t) : i = Len(s) + j
        BY <2>4, <2>6, <2>11, <3>2, <3>4
      <4>3. i \in 1..Len(s)
        BY <2>5, <4>1, <4>2, Zenon
      <4>4. i \in 1..Len(lines(gs[n])) /\ lines(gs[n])[i] = l /\ n \in 1..n
        BY <2>1, <2>3, <2>4, <3>2, <3>4, <4>3
      <4> QED BY <4>4, Zenon DEF In
    <3> QED BY <2>1, <3>3, <3>4, LastOrBefore
  <2>12. \A l : l \in Held(<<t>>) => In(n, fs, l)
    <3> SUFFICES ASSUME NEW j \in 1..Len(t) PROVE In(n, fs, t[j])
      BY <2>6, Zenon
    <3>1. n \in 1..n /\ Len(s) + j \in 1..Len(lines(fs[n])) /\ lines(fs[n])[Len(s) + j] = t[j]
      BY <2>1, <2>4, <2>5
    <3> QED BY <3>1, Zenon DEF In
  <2>13. Spotless(n, gs)
    BY <2>3 DEF Spotless
  <2> QED BY <2>7, <2>9, <2>10, <2>11, <2>12, <2>13, Zenon DEF KeptAt
<1> QED BY <1>0, <1>a

-----------------------------------------------------------------------------
(* Sizes and periods *)

LEMMA PeriodType ==
    ASSUME NEW a \in Nat
    PROVE  PeriodOf(a) \in Nat
<1>1. RollPeriod \in Nat /\ RollPeriod > 0
  BY TimeAssumption
<1>2. a \div RollPeriod \in Nat
  BY <1>1
<1> QED BY <1>1, <1>2 DEF PeriodOf

\* What RollSizeRespected and PeriodRespected say of one file.
Sized(f) == \A k \in 1..Len(lines(f)) :
                RollSize <= k /\ k < Len(lines(f)) => lines(f)[k][2] <= f.roll
InTime(f) == \A a, b \in 1..Len(lines(f)) : LateInARow(f, a, b) => b - a < CheckEveryN + Below
Counts(f) == f.m_nBytesWritten >= Len(lines(f))

FileOK(f) == Sized(f) /\ InTime(f) /\ Counts(f)

FilesOK(n, fs) == /\ n \in Nat /\ n > 0 /\ fs \in [1..n -> File]
                  /\ fs[1].name = BaseName
                  /\ \A p \in 1..n : FileOK(fs[p])
                  /\ \A p, q \in 1..n : p < q => fs[p].name < fs[q].name
                  /\ \A p \in 1..(n - 1) : fs[p].buffer = <<>>

\* What holds of the last file: CurrentSize and CurrentPeriod, for the append
\* count m after the append of the line with the number last.
Unrollable(f) == \A k \in 1..Len(lines(f)) : k >= RollSize => lines(f)[k][2] <= f.roll
EndsIn(f, last) == lines(f)[Len(lines(f))][1] = last
Checked(f, m, last) == \A a \in 1..Len(lines(f)) :
                           LateInARow(f, a, Len(lines(f))) /\ EndsIn(f, last)
                               => m < CheckEveryN /\ Len(lines(f)) - a < m + Below
LastOK(f, m, last) == Unrollable(f) /\ Checked(f, m, last)

\* The first lines of f.
Prefix(f, g) == /\ f \in File /\ g \in File
                /\ g.name = f.name /\ g.roll = f.roll /\ g.period = f.period
                /\ g.m_nBytesWritten = f.m_nBytesWritten
                /\ Len(lines(g)) \in Nat /\ Len(lines(f)) \in Nat /\ Len(lines(g)) <= Len(lines(f))
                /\ \A k \in 1..Len(lines(g)) : lines(g)[k] = lines(f)[k]

LEMMA SameIsPrefix ==
    ASSUME NEW f \in File, NEW g, Same(f, g)
    PROVE  Prefix(f, g)
BY LinesType DEF Same, Prefix

LEMMA ClosedIsAPrefix ==
    ASSUME NEW f \in File, NEW g, Closed(f, g)
    PROVE  Prefix(f, g)
BY ClosedIsPrefix DEF Prefix

\* Lines that both files have are late in a row in both.
LEMMA SameRun ==
    ASSUME NEW f, NEW g, g.roll = f.roll, g.period = f.period, NEW n \in Nat,
           \A k \in 1..n : lines(g)[k] = lines(f)[k],
           NEW a \in 1..n, NEW b \in 1..n
    PROVE  LateInARow(g, a, b) <=> LateInARow(f, a, b)
<1>1. a \in 1..n /\ \A k \in a..b : k \in 1..n
  OBVIOUS
<1>2. lines(g)[a] = lines(f)[a] /\ \A k \in a..b : lines(g)[k] = lines(f)[k]
  BY <1>1
<1>3. \A k \in a..b : Late(g, k) <=> Late(f, k)
  BY <1>2 DEF Late
<1> QED BY <1>2, <1>3, Zenon DEF LateInARow

LEMMA PrefixOK ==
    ASSUME NEW f, NEW g, Prefix(f, g), FileOK(f)
    PROVE  FileOK(g)
<1> /\ f \in File /\ g \in File /\ g.roll = f.roll /\ g.period = f.period
    /\ g.m_nBytesWritten = f.m_nBytesWritten
    /\ Len(lines(g)) \in Nat /\ Len(lines(f)) \in Nat /\ Len(lines(g)) <= Len(lines(f))
    /\ \A k \in 1..Len(lines(g)) : lines(g)[k] = lines(f)[k]
  BY DEF Prefix
<1>1. \A k \in 1..Len(lines(g)) : k \in 1..Len(lines(f)) /\ (k < Len(lines(g)) => k < Len(lines(f)))
  OBVIOUS
<1>2. Sized(g)
  BY <1>1, Zenon DEF FileOK, Sized
<1>3. \A a, b \in 1..Len(lines(g)) : LateInARow(g, a, b) => LateInARow(f, a, b)
  BY SameRun
<1>4. InTime(g)
  BY <1>1, <1>3, Zenon DEF FileOK, InTime
<1>5. f.m_nBytesWritten \in Nat
  BY DEF File
<1>6. Counts(g)
  BY <1>5 DEF FileOK, Counts
<1> QED BY <1>2, <1>4, <1>6 DEF FileOK

LEMMA ReplaceOK ==
    ASSUME NEW n, NEW fs, NEW gs, FilesOK(n, fs), Replaced(n, fs, gs), gs[n].name = fs[n].name,
           FileOK(gs[n])
    PROVE  FilesOK(n, gs)
<1> /\ n \in Nat /\ n > 0 /\ fs \in [1..n -> File] /\ gs \in [1..n -> File]
    /\ \A p \in 1..(n - 1) : gs[p] = fs[p]
  BY DEF Replaced
<1>1. \A p \in 1..n : gs[p].name = fs[p].name
  BY LastOrBefore, Zenon
<1>2. 1 \in 1..n
  OBVIOUS
<1>3. \A p \in 1..n : FileOK(gs[p])
  BY LastOrBefore, Zenon DEF FilesOK
<1>4. \A p \in 1..(n - 1) : gs[p].buffer = <<>>
  BY LastOrBefore, Zenon DEF FilesOK
<1> QED BY <1>1, <1>2, <1>3, <1>4, Zenon DEF FilesOK

LEMMA PrefixReplaceOK ==
    ASSUME NEW n, NEW fs, NEW gs, FilesOK(n, fs), Replaced(n, fs, gs), Prefix(fs[n], gs[n])
    PROVE  FilesOK(n, gs)
<1>1. n \in 1..n /\ gs[n].name = fs[n].name
  BY DEF Replaced, Prefix
<1>2. FileOK(fs[n])
  BY <1>1, Zenon DEF FilesOK
<1> QED BY <1>1, <1>2, PrefixOK, ReplaceOK, Zenon

\* What append does to the last file: line has the next number and the second
\* now, and m_appendCount is the m of the lines before it.
Appending(f, line, g, m) ==
    /\ f \in File /\ line \in Line /\ Written(f, line, g)
    /\ m \in Int /\ m >= -Below /\ Below \in Nat
    /\ LastOK(f, m, line[1] - 1)
    /\ \A k \in 1..Len(lines(f)) : lines(f)[k][1] < line[1]

\* Late lines in a row that end in the new line.
LEMMA RunAtEnd ==
    ASSUME NEW f, NEW line, NEW g, NEW m, Appending(f, line, g, m),
           lines(g) = Append(lines(f), line),
           NEW a \in 1..Len(lines(g)), LateInARow(g, a, Len(lines(g)))
    PROVE  /\ line[2] > g.roll /\ PeriodOf(line[2]) # g.period
           /\ Len(lines(g)) - a < m + 1 + Below
           /\ Len(lines(g)) - a < CheckEveryN + Below
<1> DEFINE L == Len(lines(f))
<1>1. /\ lines(f) \in Seq(Line) /\ L \in Nat /\ line \in Line
      /\ g.roll = f.roll /\ g.period = f.period
  BY LinesType DEF Appending, Written
<1>2. Len(lines(g)) = L + 1 /\ lines(g)[L + 1] = line /\ \A k \in 1..L : lines(g)[k] = lines(f)[k]
  BY <1>1
<1>3. L + 1 \in a..(L + 1) /\ a \in 1..(L + 1)
  BY <1>1, <1>2
<1>4. Late(g, L + 1)
  BY <1>2, <1>3 DEF LateInARow
<1>5. line[2] > g.roll /\ PeriodOf(line[2]) # g.period
  BY <1>2, <1>4 DEF Late
<1>6. m \in Int /\ m >= -Below /\ Below \in Nat /\ CheckEveryN \in Nat /\ CheckEveryN > 0
  BY SizeAssumption DEF Appending
<1>7. CASE a = L + 1
  BY <1>1, <1>2, <1>5, <1>6, <1>7
<1>8. CASE a \in 1..L
  <2>1. LateInARow(f, a, L)
    <3>1. LateInARow(g, a, L)
      <4>1. a <= L /\ \A k \in a..L : k \in a..(L + 1)
        BY <1>1, <1>8
      <4> QED BY <1>2, <4>1, Zenon DEF LateInARow
    <3>2. L \in 1..L
      BY <1>1, <1>8
    <3> QED BY <1>1, <1>2, <1>8, <3>1, <3>2, SameRun
  <2>2. lines(f)[L][1] = line[1] - 1
    <3>1. L \in 1..L /\ L \in a..(L + 1)
      BY <1>1, <1>8
    <3>2. /\ lines(g)[L][1] - L = lines(g)[a][1] - a
          /\ lines(g)[L + 1][1] - (L + 1) = lines(g)[a][1] - a
      BY <1>2, <1>3, <3>1 DEF LateInARow
    <3>3. lines(f)[L] \in Line /\ lines(f)[L][1] \in Nat /\ line[1] \in Nat
      BY <1>1, <3>1 DEF Line
    <3>4. lines(f)[L][1] - L = line[1] - (L + 1)
      BY <1>2, <3>1, <3>2
    <3> QED BY <1>1, <3>3, <3>4
  <2>3. m < CheckEveryN /\ L - a < m + Below
    BY <1>8, <2>1, <2>2 DEF Appending, LastOK, Checked, EndsIn
  <2> QED BY <1>1, <1>2, <1>5, <1>6, <1>8, <2>3
<1> QED BY <1>1, <1>3, <1>7, <1>8

LEMMA WriteFileOK ==
    ASSUME NEW f, NEW line, NEW g, NEW m, Appending(f, line, g, m), FileOK(f)
    PROVE  FileOK(g)
<1>1. /\ f \in File /\ g \in File /\ g.roll = f.roll /\ g.period = f.period
      /\ lines(f) \in Seq(Line) /\ Len(lines(f)) \in Nat /\ line \in Line
  BY LinesType DEF Appending, Written
<1>2. Counts(g)
  BY DEF Appending, Written, FileOK, Counts
<1>3. Unrollable(f)
  BY DEF Appending, LastOK
<1>4. CASE lines(g) = lines(f)
  <2>1. \A a, b \in 1..Len(lines(g)) : LateInARow(g, a, b) => LateInARow(f, a, b)
    BY <1>1, <1>4, SameRun
  <2>2. InTime(g)
    BY <1>4, <2>1, Zenon DEF FileOK, InTime
  <2>3. Sized(g)
    BY <1>1, <1>4 DEF FileOK, Sized
  <2> QED BY <1>2, <2>2, <2>3 DEF FileOK
<1>5. CASE lines(g) = Append(lines(f), line)
  <2> DEFINE L == Len(lines(f))
  <2>1. Len(lines(g)) = L + 1 /\ \A k \in 1..L : lines(g)[k] = lines(f)[k]
    BY <1>1, <1>5
  <2>2. ASSUME NEW k \in 1..Len(lines(g)), RollSize <= k, k < Len(lines(g))
        PROVE  lines(g)[k][2] <= g.roll
    <3>1. k \in 1..L /\ k >= RollSize
      BY <1>1, <2>1, <2>2, SizeAssumption
    <3>2. lines(f)[k][2] <= f.roll
      BY <1>3, <3>1 DEF Unrollable
    <3> QED BY <1>1, <2>1, <3>1, <3>2
  <2>3. Sized(g)
    BY <2>2 DEF Sized
  <2>4. ASSUME NEW a \in 1..Len(lines(g)), NEW b \in 1..Len(lines(g)), LateInARow(g, a, b)
        PROVE  b - a < CheckEveryN + Below
    <3>1. CASE b = L + 1
      BY <1>5, <2>1, <2>4, <3>1, RunAtEnd
    <3>2. CASE b \in 1..L
      <4>1. a \in 1..L
        BY <1>1, <2>4, <3>2 DEF LateInARow
      <4>2. LateInARow(f, a, b)
        BY <1>1, <2>1, <2>4, <3>2, <4>1, SameRun
      <4> QED BY <3>2, <4>1, <4>2 DEF FileOK, InTime
    <3> QED BY <1>1, <2>1, <3>1, <3>2
  <2>5. InTime(g)
    BY <2>4 DEF InTime
  <2> QED BY <1>2, <2>3, <2>5 DEF FileOK
<1> QED BY <1>4, <1>5 DEF Appending, Written

\* The file that has taken a line is in order for the next append if the line is
\* not late, or has been counted.
LEMMA WriteChecked ==
    ASSUME NEW f, NEW line, NEW g, NEW m, Appending(f, line, g, m), NEW c,
           \/ ~(line[2] > g.roll) \/ PeriodOf(line[2]) = g.period
           \/ c = m + 1 /\ c < CheckEveryN
    PROVE  Checked(g, c, line[1])
<1> SUFFICES ASSUME NEW a \in 1..Len(lines(g)), LateInARow(g, a, Len(lines(g))),
                    EndsIn(g, line[1])
             PROVE  c < CheckEveryN /\ Len(lines(g)) - a < c + Below
    BY DEF Checked
<1>1. f \in File /\ lines(f) \in Seq(Line) /\ Len(lines(f)) \in Nat /\ line[1] \in Nat
  BY LinesType DEF Appending, Line
<1>2. lines(g) # lines(f)
  <2> SUFFICES ASSUME lines(g) = lines(f) PROVE FALSE
      OBVIOUS
  <2>1. Len(lines(f)) \in 1..Len(lines(f))
    BY <1>1
  <2>2. lines(f)[Len(lines(f))][1] < line[1] /\ lines(f)[Len(lines(f))][1] = line[1]
    BY <2>1 DEF Appending, EndsIn
  <2> QED BY <1>1, <2>2
<1>3. lines(g) = Append(lines(f), line)
  BY <1>2 DEF Appending, Written
<1>4. /\ line[2] > g.roll /\ PeriodOf(line[2]) # g.period
      /\ Len(lines(g)) - a < m + 1 + Below
  BY <1>3, RunAtEnd
<1> QED BY <1>4

\* A file whose last line is of a second in which it could not be rolled.
LEMMA WriteUnrollable ==
    ASSUME NEW f, NEW line, NEW g, NEW m, Appending(f, line, g, m), line[2] <= g.roll
    PROVE  Unrollable(g)
<1>1. /\ lines(f) \in Seq(Line) /\ Len(lines(f)) \in Nat /\ line \in Line
      /\ g.roll = f.roll /\ Unrollable(f)
  BY LinesType DEF Appending, Written, LastOK
<1>2. CASE lines(g) = lines(f)
  BY <1>1, <1>2 DEF Unrollable
<1>3. CASE lines(g) = Append(lines(f), line)
  <2>1. /\ Len(lines(g)) = Len(lines(f)) + 1 /\ lines(g)[Len(lines(f)) + 1] = line
        /\ \A k \in 1..Len(lines(f)) : lines(g)[k] = lines(f)[k]
    BY <1>1, <1>3
  <2>2. \A k \in 1..Len(lines(g)) : k \in 1..Len(lines(f)) \/ k = Len(lines(f)) + 1
    BY <1>1, <2>1
  <2> QED BY <1>1, <2>1, <2>2 DEF Unrollable
<1> QED BY <1>2, <1>3 DEF Appending, Written

\* A file below the size.
LEMMA SmallIsUnrollable ==
    ASSUME NEW f \in File, Counts(f), WritenBytes(f) < RollSize
    PROVE  Unrollable(f)
<1>1. f.m_nBytesWritten \in Nat /\ Len(lines(f)) \in Nat /\ RollSize \in Nat
  BY LinesType, SizeAssumption DEF File
<1>2. \A k \in 1..Len(lines(f)) : ~(k >= RollSize)
  BY <1>1 DEF Counts, WritenBytes
<1> QED BY <1>2, Zenon DEF Unrollable

LEMMA WriteOK ==
    ASSUME NEW n, NEW fs, NEW gs, NEW line, NEW m, FilesOK(n, fs), Replaced(n, fs, gs),
           Appending(fs[n], line, gs[n], m)
    PROVE  FilesOK(n, gs)
<1>1. n \in 1..n /\ gs[n].name = fs[n].name
  BY DEF Replaced, Appending, Written
<1>2. FileOK(fs[n])
  BY <1>1, Zenon DEF FilesOK
<1> QED BY <1>1, <1>2, WriteFileOK, ReplaceOK, Zenon

LEMMA NewFileFacts ==
    ASSUME NEW name \in Int, NEW valid \in BOOLEAN, NEW roll \in Int, NEW period \in Int,
           NEW f, f = NewFile(name, valid, roll, period)
    PROVE  /\ f \in File /\ f.name = name /\ f.roll = roll /\ f.period = period
           /\ f.buffer = <<>> /\ lines(f) = <<>> /\ f.dropped = {} /\ FileOK(f)
           /\ \A m, last : LastOK(f, m, last)
<1>1. /\ f.name = name /\ f.buffer = <<>> /\ f.disk = <<>> /\ f.dropped = {}
      /\ f.m_nBytesWritten = 0 /\ f.roll = roll /\ f.period = period
  BY DEF NewFile
<1>2. f \in File
  BY DEF NewFile, File
<1>3. lines(f) = <<>>
  BY <1>1 DEF lines
<1>4. Len(lines(f)) = 0 /\ \A k : k \notin 1..Len(lines(f))
  BY <1>3
<1>5. Sized(f) /\ InTime(f) /\ Unrollable(f) /\ \A m, last : Checked(f, m, last)
  BY <1>4, Zenon DEF Sized, InTime, Unrollable, Checked
<1>6. Counts(f)
  BY <1>1, <1>4 DEF Counts
<1> QED BY <1>1, <1>2, <1>3, <1>5, <1>6 DEF FileOK, LastOK

LEMMA NewOK ==
    ASSUME NEW n, NEW fs, NEW gs \in [1..(n + 1) -> File], FilesOK(n, fs),
           \A p \in 1..n : gs[p] = fs[p], FileOK(gs[n + 1]), gs[n + 1].name = now,
           fs[n].buffer = <<>>, fs[n].name < now, now \in Nat
    PROVE  FilesOK(n + 1, gs)
<1>1. n \in Nat /\ n > 0 /\ fs \in [1..n -> File]
  BY DEF FilesOK
<1>2. /\ \A p \in 1..(n + 1) : p = n + 1 \/ p \in 1..n
      /\ \A p \in 1..n : p \in 1..(n + 1) /\ ~(n + 1 < p) /\ (p = n \/ p \in 1..(n - 1))
      /\ ~(n + 1 < n + 1) /\ 1 \in 1..n /\ n \in 1..n /\ n + 1 \in Nat /\ n + 1 > 0
      /\ (n + 1) - 1 = n
  BY <1>1
<1>3. \A p \in 1..n : fs[p].name < now
  <2> SUFFICES ASSUME NEW p \in 1..(n - 1) PROVE fs[p].name < now
    BY <1>2
  <2>1. p \in 1..n /\ p < n /\ n \in 1..n
    BY <1>1
  <2>2. fs[p].name < fs[n].name
    BY <2>1, Zenon DEF FilesOK
  <2>3. fs[p] \in File /\ fs[n] \in File
    BY <1>1, <2>1
  <2>4. fs[p].name \in Int /\ fs[n].name \in Int
    BY <2>3 DEF File
  <2> QED BY <2>2, <2>4
<1>4. \A p \in 1..n : fs[p].buffer = <<>>
  BY <1>2, Zenon DEF FilesOK
<1>5. /\ gs[1].name = BaseName
      /\ \A p \in 1..(n + 1) : FileOK(gs[p])
      /\ \A p \in 1..((n + 1) - 1) : gs[p].buffer = <<>>
  BY <1>2, <1>4, Zenon DEF FilesOK
<1>6. \A p, q \in 1..(n + 1) : p < q => gs[p].name < gs[q].name
  BY <1>2, <1>3, Zenon DEF FilesOK
<1> QED BY <1>2, <1>5, <1>6, Zenon DEF FilesOK

-----------------------------------------------------------------------------
(* The inductive invariant, file by file *)

Numbers == \A i \in DOMAIN appended : appended[i][1] = i

\* The n-th of n files, f, is m_scpFile: opened in the second roll for the
\* period, with the append count m after the append of the line numbered last.
Current(n, f, roll, period, m, last) ==
    /\ n > 1 => f.name = roll
    /\ f.roll = roll /\ f.period = period
    /\ LastOK(f, m, last)

Parts == /\ TypeOK
         /\ FilesOK(Len(files), files)
         /\ Current(Len(files), files[Len(files)], m_lastRoll, m_startPeriod, m_appendCount,
                    Len(appended))
         /\ KeptAt(Len(files), files, Appended)
         /\ Numbers

LEMMA FilesType ==
    ASSUME TypeOK
    PROVE  /\ Len(files) \in Nat /\ Len(files) > 0 /\ files \in [1..Len(files) -> File]
           /\ DOMAIN files = 1..Len(files) /\ files[Len(files)] \in File
           /\ 1 \in 1..Len(files) /\ Len(files) \in 1..Len(files)
<1>1. files \in Seq(File) /\ files # <<>>
  BY DEF TypeOK
<1> QED BY <1>1

LEMMA KeptIs ==
    ASSUME TypeOK
    PROVE  KeptAt(Len(files), files, Appended) <=> NoLineLost /\ Dropped \subseteq Appended
<1>1. KeptAt(Len(files), files, Appended) <=> Kept(files, Appended)
  BY FilesType, KeptPlaceByPlace
<1> QED BY <1>1, Zenon DEF Kept, NoLineLost, PlacesOf, Places, DroppedOf, Dropped

LEMMA PartsMakeInv ==
    ASSUME Parts
    PROVE  Inv
<1>0. TypeOK
  BY DEF Parts
<1> DEFINE n == Len(files)
<1>1. /\ n \in Nat /\ n > 0 /\ files \in [1..n -> File]
      /\ DOMAIN files = 1..n /\ files[n] \in File /\ 1 \in 1..n /\ n \in 1..n
  BY <1>0, FilesType
<1>2. /\ FilesOK(n, files)
      /\ Current(n, files[n], m_lastRoll, m_startPeriod, m_appendCount, Len(appended))
  BY DEF Parts
<1>a. m_scpFile = files[n]
  BY DEF m_scpFile
<1> HIDE DEF n
<1>3. /\ files[1].name = BaseName
      /\ \A p \in 1..n : FileOK(files[p])
      /\ \A p, q \in 1..n : p < q => files[p].name < files[q].name
      /\ \A p \in 1..(n - 1) : files[p].buffer = <<>>
  BY <1>2 DEF FilesOK
<1>5. FilesDistinct
  BY <1>1, <1>3, Zenon DEF FilesDistinct, n
<1>6. Names
  BY <1>2, <1>3, <1>5, <1>a, Zenon DEF Names, Current, n
<1>7. Counted
  BY <1>1, <1>3, Zenon DEF Counted, FileOK, Counts
<1>8. RollSizeRespected
  BY <1>1, <1>3, Zenon DEF RollSizeRespected, FileOK, Sized
<1>9. PeriodRespected
  BY <1>1, <1>3, Zenon DEF PeriodRespected, FileOK, InTime
<1>10. CurrentSize /\ CurrentPeriod
  BY <1>2, <1>a, Zenon DEF CurrentSize, CurrentPeriod, Current, LastOK, Unrollable, Checked, EndsIn
<1>11. NoLineLost /\ Numbered
  BY <1>0, KeptIs, Zenon DEF Parts, Numbers, Numbered
<1> QED BY <1>0, <1>6, <1>7, <1>8, <1>9, <1>10, <1>11 DEF Inv

-----------------------------------------------------------------------------
(* The steps *)

\* The files fs hold the lines app and are otherwise in order.
Holding(fs, app) == /\ fs \in Seq(File) /\ fs # <<>>
                    /\ FilesOK(Len(fs), fs)
                    /\ KeptAt(Len(fs), fs, app)

LEMMA WithCurrentFacts ==
    ASSUME TypeOK, NEW f \in File
    PROVE  /\ WithCurrent(f) \in Seq(File) /\ WithCurrent(f) # <<>>
           /\ Len(WithCurrent(f)) = Len(files)
           /\ WithCurrent(f)[Len(files)] = f
           /\ Replaced(Len(files), files, WithCurrent(f))
<1>1. files \in Seq(File) /\ files # <<>> /\ Len(files) \in Nat /\ Len(files) > 0
  BY DEF TypeOK
<1>2. /\ WithCurrent(f) \in Seq(File) /\ Len(WithCurrent(f)) = Len(files)
      /\ WithCurrent(f)[Len(files)] = f
      /\ \A p \in 1..(Len(files) - 1) : WithCurrent(f)[p] = files[p]
  BY <1>1 DEF WithCurrent
<1>3. WithCurrent(f) # <<>>
  BY <1>1, <1>2
<1>4. files \in [1..Len(files) -> File] /\ WithCurrent(f) \in [1..Len(files) -> File]
  BY <1>1, <1>2
<1> QED BY <1>1, <1>2, <1>3, <1>4 DEF Replaced

\* Two replacements of the last file in a row.
LEMMA ReplacedTwice ==
    ASSUME TypeOK, NEW f \in File, NEW g \in File
    PROVE  Replaced(Len(files), WithCurrent(f), WithCurrent(g))
<1>1. Replaced(Len(files), files, WithCurrent(f)) /\ Replaced(Len(files), files, WithCurrent(g))
  BY WithCurrentFacts
<1> QED BY <1>1 DEF Replaced

\* rollFile, on a current file f that may just have taken a line: it is in order
\* for the next append, or rolled.
LEMMA RollFacts ==
    ASSUME TypeOK, NEW f \in File, NEW app, rollFile(f), Holding(WithCurrent(f), app),
           NEW m, NEW last, ~mayRoll => LastOK(f, m, last),
           Len(files) > 1 => f.name = m_lastRoll, f.roll = m_lastRoll, f.period = m_startPeriod
    PROVE  /\ Holding(files', app)
           /\ m_lastRoll' \in Int /\ m_lastFlush' \in Int /\ m_startPeriod' \in Int
           /\ Current(Len(files'), files'[Len(files')], m_lastRoll', m_startPeriod', m, last)
<1> DEFINE n == Len(files)
           hs == WithCurrent(f)
<1>1. n \in Nat /\ n > 0 /\ n \in 1..n
  BY FilesType
<1>2. hs \in Seq(File) /\ hs # <<>> /\ Len(hs) = n /\ hs[n] = f
  BY WithCurrentFacts
<1>b. n > 1 => f.name = m_lastRoll
  OBVIOUS
<1>c. ASSUME NEW g \in File
      PROVE  /\ WithCurrent(g) \in Seq(File) /\ Len(WithCurrent(g)) = n /\ WithCurrent(g)[n] = g
             /\ Replaced(n, hs, WithCurrent(g))
  BY WithCurrentFacts, ReplacedTwice
<1> HIDE DEF n, hs
<1>a. n = 1 \/ n > 1
  BY <1>1
<1>3. FilesOK(n, hs) /\ KeptAt(n, hs, app)
  BY <1>2 DEF Holding, hs
<1>4. now \in Nat /\ now > 0 /\ m_lastRoll \in Int /\ m_lastFlush \in Int /\ m_startPeriod \in Int
  BY DEF TypeOK
<1>7. ASSUME ~mayRoll, files' = hs, UNCHANGED rollVars
      PROVE  /\ Holding(files', app)
             /\ m_lastRoll' \in Int /\ m_lastFlush' \in Int /\ m_startPeriod' \in Int
             /\ Current(Len(files'), files'[Len(files')], m_lastRoll', m_startPeriod', m, last)
  <2>1. m_lastRoll' = m_lastRoll /\ m_lastFlush' = m_lastFlush /\ m_startPeriod' = m_startPeriod
    BY <1>7 DEF rollVars
  <2>2. files'[Len(files')] = f /\ Len(files') = n
    BY <1>2, <1>7
  <2>3. Holding(files', app)
    BY <1>7 DEF hs
  <2> QED BY <1>4, <1>7, <1>b, <2>1, <2>2, <2>3 DEF Current
<1>8. ASSUME mayRoll, NEW valid \in BOOLEAN, NEW old \in fclose(f),
             files' = Append(WithCurrent(old), NewFile(now, valid, now, PeriodOf(now))),
             m_lastRoll' = now, m_lastFlush' = now, m_startPeriod' = PeriodOf(now)
      PROVE  /\ Holding(files', app)
             /\ m_lastRoll' \in Int /\ m_lastFlush' \in Int /\ m_startPeriod' \in Int
             /\ Current(Len(files'), files'[Len(files')], m_lastRoll', m_startPeriod', m, last)
  <2> DEFINE os == WithCurrent(old)
             new == NewFile(now, valid, now, PeriodOf(now))
             gs == Append(os, new)
  <2>0. now \in Int /\ PeriodOf(now) \in Int
    <3>1. PeriodOf(now) \in Nat
      BY <1>4, PeriodType
    <3> QED BY <1>4, <3>1
  <2>1. Closed(f, old)
    BY CloseFacts
  <2>2. old \in File /\ old.name = f.name /\ old.buffer = <<>>
    BY <2>1, ClosedIsPrefix
  <2>3. os \in Seq(File) /\ Len(os) = n /\ os[n] = old /\ Replaced(n, hs, os)
    BY <1>c, <2>2
  <2>4. FilesOK(n, os)
    BY <1>2, <1>3, <2>1, <2>3, ClosedIsAPrefix, PrefixReplaceOK
  <2>5. KeptAt(n, os, app)
    BY <1>2, <1>3, <2>1, <2>3, KeptClosed
  <2>a. new = NewFile(now, valid, now, PeriodOf(now))
    OBVIOUS
  <2> HIDE DEF os, new
  <2>6. /\ new \in File /\ new.name = now /\ new.roll = now /\ new.period = PeriodOf(now)
        /\ lines(new) = <<>> /\ new.dropped = {} /\ FileOK(new)
        /\ \A k, l : LastOK(new, k, l)
    BY <2>0, <2>a, NewFileFacts
  <2>7. /\ gs \in Seq(File) /\ gs # <<>> /\ Len(gs) = n + 1 /\ gs[n + 1] = new
        /\ \A p \in 1..n : gs[p] = os[p]
        /\ gs \in [1..(n + 1) -> File] /\ os \in [1..n -> File]
    <3>1. os \in Seq(File) /\ Len(os) = n /\ new \in File
      BY <2>3, <2>6
    <3>2. gs \in Seq(File) /\ Len(gs) = n + 1 /\ gs[n + 1] = new /\ \A p \in 1..n : gs[p] = os[p]
      BY <1>1, <3>1
    <3>3. gs # <<>>
      BY <1>1, <3>2
    <3> HIDE DEF gs
    <3> QED BY <1>1, <3>1, <3>2, <3>3
  <2>8. old.name < now
    <3>1. CASE n = 1
      <4>1. f.name = BaseName
        BY <1>2, <1>3, <3>1 DEF FilesOK
      <4> QED BY <1>4, <2>2, <4>1 DEF BaseName
    <3>2. CASE n > 1
      BY <1>4, <1>8, <1>b, <2>2, <3>2 DEF mayRoll
    <3> QED BY <1>a, <3>1, <3>2
  <2> HIDE DEF gs
  <2>9. FilesOK(n + 1, gs)
    <3>1. /\ FileOK(gs[n + 1]) /\ gs[n + 1].name = now
          /\ os[n].buffer = <<>> /\ os[n].name < now
      BY <2>2, <2>3, <2>6, <2>7, <2>8
    <3> QED BY <1>4, <2>4, <2>7, <3>1, NewOK
  <2>10. KeptAt(n + 1, gs, app)
    <3>1. lines(gs[n + 1]) = <<>> /\ gs[n + 1].dropped = {}
      BY <2>6, <2>7
    <3> QED BY <1>1, <2>5, <2>7, <3>1, KeptNew
  <2>11. files' = gs
    BY <1>8 DEF gs, os, new
  <2>12. Holding(files', app)
    BY <2>7, <2>9, <2>10, <2>11 DEF Holding
  <2>13. files'[Len(files')] = new
    BY <2>7, <2>11
  <2> QED BY <1>8, <2>0, <2>6, <2>12, <2>13 DEF Current
<1>9. Opened \subseteq BOOLEAN
  BY DEF Opened
<1> QED BY <1>7, <1>8, <1>9 DEF rollFile, hs

\* What a step that leaves the disk alone has to show.
LEMMA PartsAfter ==
    ASSUME startCount' = startCount, disk' = disk, TypeOK',
           Holding(files', Appended'), Numbers',
           Current(Len(files'), files'[Len(files')], m_lastRoll', m_startPeriod', m_appendCount',
                   Len(appended'))
    PROVE  Parts'
<1>0. Below' = Below
  BY DEF Below
<1>1. FilesOK(Len(files), files)'
  BY <1>0 DEF Holding, FilesOK, FileOK, Sized, InTime, Counts
<1>2. KeptAt(Len(files), files, Appended)'
  BY DEF Holding, KeptAt, In, Gone, Ordered, Spotless
<1>3. Current(Len(files), files[Len(files)], m_lastRoll, m_startPeriod, m_appendCount,
              Len(appended))'
  BY <1>0 DEF Current, LastOK, Unrollable, Checked
<1> QED BY <1>1, <1>2, <1>3 DEF Parts

\* The types after a step that neither ticks nor changes the disk.
LEMMA TypesAfter ==
    ASSUME TypeOK, now' = now, m_bThreadSafe' = m_bThreadSafe, stuck' \in BOOLEAN,
           startCount' = startCount, disk' = disk, appended' \in Seq(Line),
           files' \in Seq(File), files' # <<>>,
           m_lastRoll' \in Int, m_lastFlush' \in Int, m_startPeriod' \in Int,
           m_appendCount' \in Int, m_appendCount' >= -Below,
           m_appendCount' = startCount \/ m_appendCount' < CheckEveryN
    PROVE  TypeOK'
<1>1. Below' = Below
  BY DEF Below
<1> QED BY <1>1 DEF TypeOK

LEMMA CurrentFacts ==
    ASSUME Parts
    PROVE  /\ TypeOK /\ m_scpFile \in File /\ m_scpFile = files[Len(files)]
           /\ Holding(files, Appended)
           /\ Len(files) > 1 => m_scpFile.name = m_lastRoll
           /\ m_scpFile.roll = m_lastRoll /\ m_scpFile.period = m_startPeriod
           /\ LastOK(m_scpFile, m_appendCount, Len(appended))
BY FilesType DEF Parts, m_scpFile, Holding, Current, TypeOK

\* A step that leaves the files and everything about them alone.
LEMMA FilesAlone ==
    ASSUME Parts, TypeOK', disk' = disk \/ disk' # "ok",
           UNCHANGED <<startCount, m_appendCount, files, appended, m_lastRoll, m_startPeriod>>
    PROVE  Parts'
<1>1. Below' = Below /\ Appended' = Appended
  BY DEF Below, Appended
<1>2. FilesOK(Len(files), files)'
  BY <1>1 DEF Parts, FilesOK, FileOK, Sized, InTime, Counts
<1>3. Current(Len(files), files[Len(files)], m_lastRoll, m_startPeriod, m_appendCount,
              Len(appended))'
  BY <1>1 DEF Parts, Current, LastOK, Unrollable, Checked
<1>4. KeptAt(Len(files), files, Appended)' /\ Numbers'
  BY <1>1 DEF Parts, KeptAt, In, Gone, Ordered, Spotless, Numbers
<1> QED BY <1>2, <1>3, <1>4 DEF Parts

LEMMA TickKeepsParts ==
    ASSUME Parts, Tick
    PROVE  Parts'
<1>1. TypeOK /\ now' \in Nat \ {0}
  BY TimeAssumption DEF Parts, Tick
<1>2. /\ UNCHANGED <<m_bThreadSafe, startCount, stuck, m_appendCount, files, appended, disk>>
      /\ m_lastRoll' = m_lastRoll /\ m_lastFlush' = m_lastFlush /\ m_startPeriod' = m_startPeriod
  BY DEF Tick, rollVars
<1>3. TypeOK'
  BY <1>1, <1>2 DEF TypeOK, Below
<1> QED BY <1>2, <1>3, FilesAlone

LEMMA DiskKeepsParts ==
    ASSUME Parts, DiskChanges
    PROVE  Parts'
<1>1. /\ UNCHANGED <<now, m_bThreadSafe, startCount, stuck, m_appendCount, files, appended>>
      /\ m_lastRoll' = m_lastRoll /\ m_lastFlush' = m_lastFlush /\ m_startPeriod' = m_startPeriod
      /\ disk' \in {"full", "freed"}
  BY DEF DiskChanges, rollVars
<1>2. TypeOK
  BY DEF Parts
<1>3. TypeOK'
  BY <1>1, <1>2 DEF TypeOK, Below
<1>4. disk' # "ok"
  BY <1>1
<1> QED BY <1>1, <1>3, <1>4, FilesAlone

\* A flush of the current file f.
LEMMA FlushHolds ==
    ASSUME TypeOK, NEW f \in File, NEW g \in fflush(f), NEW app, Holding(WithCurrent(f), app)
    PROVE  g \in File /\ Same(f, g) /\ Holding(WithCurrent(g), app)
<1> DEFINE n == Len(files)
           fs == WithCurrent(f)
           gs == WithCurrent(g)
<1>1. Same(f, g) /\ g \in File
  BY FlushFacts DEF Same
<1>2. /\ fs \in Seq(File) /\ Len(fs) = n /\ fs[n] = f
      /\ gs \in Seq(File) /\ gs # <<>> /\ Len(gs) = n /\ gs[n] = g
      /\ Replaced(n, fs, gs)
  BY <1>1, WithCurrentFacts, ReplacedTwice
<1>3. FilesOK(n, fs) /\ KeptAt(n, fs, app)
  BY <1>2 DEF Holding
<1> HIDE DEF n, fs, gs
<1>4. FilesOK(n, gs)
  BY <1>1, <1>2, <1>3, SameIsPrefix, PrefixReplaceOK
<1>5. KeptAt(n, gs, app)
  BY <1>1, <1>2, <1>3, KeptSame
<1>6. Holding(gs, app)
  BY <1>2, <1>4, <1>5 DEF Holding
<1> QED BY <1>1, <1>6 DEF gs

LEMMA SameLast ==
    ASSUME NEW f \in File, NEW g \in File, Same(f, g), NEW m, NEW last, LastOK(f, m, last)
    PROVE  LastOK(g, m, last)
<1>1. g.roll = f.roll /\ g.period = f.period /\ lines(g) = lines(f)
  BY DEF Same
<1>2. \A a, b : LateInARow(g, a, b) <=> LateInARow(f, a, b)
  BY <1>1 DEF LateInARow, Late
<1> QED BY <1>1, <1>2 DEF LastOK, Unrollable, Checked, EndsIn

LEMMA CurrentItself ==
    ASSUME TypeOK
    PROVE  WithCurrent(m_scpFile) = files
<1>1. files \in Seq(File)
  BY DEF TypeOK
<1> QED BY <1>1 DEF WithCurrent, m_scpFile

LEMMA FlushKeepsParts ==
    ASSUME Parts, flush
    PROVE  Parts'
<1>1. /\ TypeOK /\ m_scpFile \in File /\ m_scpFile = files[Len(files)]
      /\ Holding(files, Appended)
      /\ Len(files) > 1 => m_scpFile.name = m_lastRoll
      /\ m_scpFile.roll = m_lastRoll /\ m_scpFile.period = m_startPeriod
      /\ LastOK(m_scpFile, m_appendCount, Len(appended))
  BY CurrentFacts
<1>2. PICK g \in fflush(m_scpFile) : files' = WithCurrent(g)
  BY DEF flush
<1>3. /\ UNCHANGED <<now, m_bThreadSafe, startCount, stuck, m_appendCount, appended, disk>>
      /\ m_lastRoll' = m_lastRoll /\ m_lastFlush' = m_lastFlush /\ m_startPeriod' = m_startPeriod
  BY DEF flush, rollVars
<1>4. g \in File /\ Same(m_scpFile, g) /\ Holding(files', Appended)
  BY <1>1, <1>2, CurrentItself, FlushHolds
<1>5. Appended' = Appended /\ Numbers'
  BY <1>3 DEF Appended, Parts, Numbers
<1>6. files'[Len(files')] = g /\ Len(files') = Len(files)
  BY <1>1, <1>2, <1>4, WithCurrentFacts
<1>7. TypeOK'
  <2>1. files' \in Seq(File) /\ files' # <<>>
    BY <1>4 DEF Holding
  <2>2. Below' = Below
    BY <1>3 DEF Below
  <2> QED BY <1>1, <1>3, <2>1, <2>2 DEF TypeOK
<1>8. LastOK(g, m_appendCount, Len(appended))
  BY <1>1, <1>4, SameLast
<1>9. Current(Len(files'), files'[Len(files')], m_lastRoll', m_startPeriod', m_appendCount',
              Len(appended'))
  BY <1>1, <1>3, <1>4, <1>6, <1>8 DEF Current, Same
<1> QED BY <1>3, <1>4, <1>5, <1>7, <1>9, PartsAfter

LEMMA CallRollKeepsParts ==
    ASSUME Parts, callRollFile
    PROVE  Parts'
<1>1. /\ TypeOK /\ m_scpFile \in File /\ Holding(files, Appended)
      /\ Len(files) > 1 => m_scpFile.name = m_lastRoll
      /\ m_scpFile.roll = m_lastRoll /\ m_scpFile.period = m_startPeriod
      /\ LastOK(m_scpFile, m_appendCount, Len(appended))
  BY CurrentFacts
<1>2. UNCHANGED <<now, m_bThreadSafe, startCount, stuck, m_appendCount, appended, disk>>
  BY DEF callRollFile
<1>3. /\ Holding(files', Appended)
      /\ m_lastRoll' \in Int /\ m_lastFlush' \in Int /\ m_startPeriod' \in Int
      /\ Current(Len(files'), files'[Len(files')], m_lastRoll', m_startPeriod', m_appendCount,
                 Len(appended))
  BY <1>1, CurrentItself, RollFacts DEF callRollFile
<1>4. Appended' = Appended /\ Numbers'
  BY <1>2 DEF Appended, Parts, Numbers
<1>5. TypeOK'
  <2>1. files' \in Seq(File) /\ files' # <<>>
    BY <1>3 DEF Holding
  <2>2. Below' = Below
    BY <1>2 DEF Below
  <2> QED BY <1>1, <1>2, <1>3, <2>1, <2>2 DEF TypeOK
<1> QED BY <1>2, <1>3, <1>4, <1>5, PartsAfter

\* The lines appended before have lower numbers.
LEMMA NumberedBelow ==
    ASSUME TypeOK, Numbers, NEW line \in Line, line[1] = Len(appended) + 1,
           appended' = Append(appended, line)
    PROVE  /\ \A l \in Appended : l[1] < line[1]
           /\ Appended' = Appended \cup {line}
           /\ appended' \in Seq(Line) /\ Numbers'
<1>1. appended \in Seq(Line) /\ Len(appended) \in Nat /\ DOMAIN appended = 1..Len(appended)
  BY DEF TypeOK
<1>2. \A i \in 1..Len(appended) : appended[i][1] = i
  BY <1>1 DEF Numbers
<1>3. \A l \in Appended : l[1] < line[1]
  <2> SUFFICES ASSUME NEW i \in 1..Len(appended) PROVE appended[i][1] < line[1]
    BY <1>1, Zenon DEF Appended
  <2> QED BY <1>1, <1>2
<1>4. /\ appended' \in Seq(Line) /\ DOMAIN appended' = 1..(Len(appended) + 1)
      /\ appended'[Len(appended) + 1] = line
      /\ \A i \in 1..Len(appended) : appended'[i] = appended[i]
  BY <1>1
<1>5. /\ \A i \in 1..(Len(appended) + 1) : i = Len(appended) + 1 \/ i \in 1..Len(appended)
      /\ \A i \in 1..Len(appended) : i \in 1..(Len(appended) + 1)
      /\ Len(appended) + 1 \in 1..(Len(appended) + 1)
  BY <1>1
<1>6. Appended' = Appended \cup {line}
  <2>1. Appended' = {appended'[i] : i \in 1..(Len(appended) + 1)}
    BY <1>4 DEF Appended
  <2>2. Appended = {appended[i] : i \in 1..Len(appended)}
    BY <1>1 DEF Appended
  <2> QED BY <1>4, <1>5, <2>1, <2>2
<1>7. Numbers'
  <2> SUFFICES ASSUME NEW i \in 1..(Len(appended) + 1) PROVE appended'[i][1] = i
    BY <1>4, Zenon DEF Numbers
  <2> QED BY <1>2, <1>4, <1>5
<1> QED BY <1>3, <1>4, <1>6, <1>7

\* The file f that has taken the line is in order for the next append, with the
\* count c, if it could not be rolled, or if it is small and the line was counted
\* or is of the file's period.
LEMMA AppendedOK ==
    ASSUME NEW f, NEW line, NEW g, NEW m, Appending(f, line, g, m), Counts(g), NEW c,
           \/ line[2] <= g.roll
           \/ /\ WritenBytes(g) < RollSize
              /\ PeriodOf(line[2]) = g.period \/ (c = m + 1 /\ c < CheckEveryN)
    PROVE  LastOK(g, c, line[1])
<1>1. g \in File /\ line[2] \in Int /\ g.roll \in Int
  BY DEF Appending, Written, Line, File
<1>2. Unrollable(g)
  BY <1>1, WriteUnrollable, SmallIsUnrollable
<1>3. line[2] <= g.roll => ~(line[2] > g.roll)
  BY <1>1
<1>4. Checked(g, c, line[1])
  BY <1>3, WriteChecked
<1> QED BY <1>2, <1>4 DEF LastOK

LEMMA AppendKeepsParts ==
    ASSUME Parts, append
    PROVE  Parts'
<1> DEFINE line == <<Len(appended) + 1, now>>
           n == Len(files)
<1>1. /\ TypeOK /\ m_scpFile \in File /\ m_scpFile = files[n]
      /\ Holding(files, Appended)
      /\ n > 1 => m_scpFile.name = m_lastRoll
      /\ m_scpFile.roll = m_lastRoll /\ m_scpFile.period = m_startPeriod
      /\ LastOK(m_scpFile, m_appendCount, Len(appended))
  BY CurrentFacts
<1>2. line \in Line /\ line[1] = Len(appended) + 1 /\ line[2] = now /\ line[1] - 1 = Len(appended)
  BY <1>1 DEF TypeOK, Line
<1>3. /\ appended' = Append(appended, line) /\ ~stuck
      /\ UNCHANGED <<now, m_bThreadSafe, startCount, disk>>
  BY DEF append
<1>4. PICK f \in writeLine(m_scpFile, line) : rollBySize(f) \/ countOnly(f) \/ check(f)
  BY DEF append
<1> HIDE DEF line
<1>5. /\ Written(m_scpFile, line, f) /\ f \in File /\ f.name = m_scpFile.name
      /\ f.roll = m_lastRoll /\ f.period = m_startPeriod
  BY <1>1, <1>2, WriteFacts DEF Written
<1>6. /\ \A l \in Appended : l[1] < line[1]
      /\ Appended' = Appended \cup {line}
      /\ appended' \in Seq(Line) /\ Numbers'
  BY <1>1, <1>2, <1>3, NumberedBelow DEF Parts
<1>a. Len(appended') = line[1]
  BY <1>1, <1>2, <1>3 DEF TypeOK
<1> DEFINE hs == WithCurrent(f)
<1>7. /\ hs \in Seq(File) /\ hs # <<>> /\ Len(hs) = n /\ hs[n] = f /\ Replaced(n, files, hs)
  BY <1>1, <1>5, WithCurrentFacts
<1>8. FilesOK(n, files) /\ KeptAt(n, files, Appended) /\ n \in Nat /\ n \in 1..n
  BY <1>1, FilesType DEF Holding
<1>b. /\ m_appendCount \in Int /\ m_appendCount >= -Below /\ Below \in Nat
      /\ m_appendCount = startCount \/ m_appendCount < CheckEveryN
      /\ CheckEveryN \in Nat /\ CheckEveryN > 0 /\ stuck \in BOOLEAN /\ m_bThreadSafe \in BOOLEAN
      /\ m_lastRoll \in Int /\ m_lastFlush \in Int /\ m_startPeriod \in Int /\ now \in Int
  BY <1>1, SizeAssumption DEF TypeOK, Below
<1> HIDE DEF n, hs
<1>9. Appending(m_scpFile, line, f, m_appendCount)
  <2>1. ASSUME NEW k \in 1..Len(lines(m_scpFile)) PROVE lines(m_scpFile)[k][1] < line[1]
    <3>1. In(n, files, lines(m_scpFile)[k])
      BY <1>1, <1>8, Zenon DEF In
    <3>2. lines(m_scpFile)[k] \in Appended
      BY <1>8, <3>1, Zenon DEF KeptAt
    <3> QED BY <1>6, <3>2
  <2> QED BY <1>1, <1>2, <1>5, <1>b, <2>1 DEF Appending
<1>10. Holding(hs, Appended')
  <2>1. FilesOK(n, hs)
    BY <1>1, <1>7, <1>8, <1>9, WriteOK
  <2>2. KeptAt(n, hs, Appended \cup {line})
    BY <1>1, <1>2, <1>5, <1>6, <1>7, <1>8, KeptWrite
  <2> QED BY <1>6, <1>7, <2>1, <2>2 DEF Holding
<1>11. Counts(f)
  BY <1>7, <1>8, <1>10, Zenon DEF Holding, FilesOK, FileOK
<1>12. n > 1 => f.name = m_lastRoll
  BY <1>1, <1>5
<1>15. ASSUME rollFile(f), stuck' = stuck,
              m_appendCount' = m_appendCount \/ m_appendCount' = 0
       PROVE  Parts'
  <2>a. ~mayRoll => LastOK(f, m_appendCount', line[1])
    <3>1. ~mayRoll => line[2] <= f.roll
      BY <1>2, <1>5, <1>b DEF mayRoll
    <3> QED BY <1>9, <1>11, <3>1, AppendedOK
  <2>1. /\ Holding(files', Appended')
        /\ m_lastRoll' \in Int /\ m_lastFlush' \in Int /\ m_startPeriod' \in Int
        /\ Current(Len(files'), files'[Len(files')], m_lastRoll', m_startPeriod', m_appendCount',
                   line[1])
    BY <1>1, <1>5, <1>10, <1>12, <1>15, <2>a, RollFacts DEF hs, n
  <2>2. /\ m_appendCount' \in Int /\ m_appendCount' >= -Below
        /\ m_appendCount' = startCount \/ m_appendCount' < CheckEveryN
    BY <1>15, <1>b
  <2>3. files' \in Seq(File) /\ files' # <<>>
    BY <2>1 DEF Holding
  <2>4. TypeOK'
    BY <1>1, <1>3, <1>6, <1>15, <1>b, <2>1, <2>2, <2>3, TypesAfter
  <2> QED BY <1>3, <1>6, <1>a, <2>1, <2>4, PartsAfter
<1>16. ASSUME NEW g \in File, files' = WithCurrent(g), Holding(WithCurrent(g), Appended'),
              g.name = f.name, g.roll = f.roll, g.period = f.period,
              LastOK(g, m_appendCount', line[1]), stuck' \in BOOLEAN,
              m_lastRoll' = m_lastRoll, m_startPeriod' = m_startPeriod, m_lastFlush' \in Int,
              m_appendCount' \in Int, m_appendCount' >= -Below, m_appendCount' < CheckEveryN
       PROVE  Parts'
  <2>1. Len(files') = n /\ files'[n] = g /\ files' \in Seq(File) /\ files' # <<>>
    BY <1>1, <1>16, WithCurrentFacts DEF n
  <2>2. TypeOK'
    BY <1>1, <1>3, <1>6, <1>16, <1>b, <2>1, TypesAfter
  <2>3. Holding(files', Appended')
    BY <1>16
  <2>4. Current(Len(files'), files'[Len(files')], m_lastRoll', m_startPeriod', m_appendCount',
                line[1])
    BY <1>5, <1>12, <1>16, <2>1 DEF Current
  <2> QED BY <1>3, <1>6, <1>a, <2>2, <2>3, <2>4, PartsAfter
<1>17. CASE rollBySize(f)
  BY <1>15, <1>17 DEF rollBySize
<1>18. CASE countOnly(f)
  <2>1. /\ m_appendCount' = m_appendCount + 1 /\ files' = hs /\ WritenBytes(f) < RollSize
        /\ ~(m_appendCount + 1 >= CheckEveryN) /\ stuck' = stuck
        /\ m_lastRoll' = m_lastRoll /\ m_lastFlush' = m_lastFlush /\ m_startPeriod' = m_startPeriod
    BY <1>18 DEF countOnly, rollVars, checkDue, hs
  <2>2. m_appendCount' \in Int /\ m_appendCount' >= -Below /\ m_appendCount' < CheckEveryN
    BY <1>b, <2>1
  <2>3. LastOK(f, m_appendCount', line[1])
    BY <1>9, <1>11, <2>1, <2>2, AppendedOK
  <2>4. stuck' \in BOOLEAN /\ m_lastFlush' \in Int
    BY <1>b, <2>1
  <2>5. files' = WithCurrent(f) /\ Holding(WithCurrent(f), Appended')
    BY <1>10, <2>1 DEF hs
  <2> QED BY <1>5, <1>16, <2>1, <2>2, <2>3, <2>4, <2>5
<1>19. CASE check(f)
  <2>1. m_appendCount' = 0 /\ WritenBytes(f) < RollSize
    BY <1>19 DEF check
  <2>2. m_appendCount' \in Int /\ m_appendCount' >= -Below /\ m_appendCount' < CheckEveryN
    BY <1>b, <2>1
  <2>3. CASE periodOver /\ rollFile(f) /\ UNCHANGED stuck
    BY <1>15, <2>1, <2>3
  <2>4. ASSUME ~periodOver PROVE LastOK(f, m_appendCount', line[1])
    <3>1. PeriodOf(line[2]) = f.period
      BY <1>2, <1>5, <2>4 DEF periodOver
    <3> QED BY <1>9, <1>11, <2>1, <3>1, AppendedOK
  <2>5. CASE ~periodOver /\ m_lastFlush' = now /\ flushInAppend(f) /\ UNCHANGED <<m_lastRoll, m_startPeriod>>
    <3>1. PICK g \in IF m_bThreadSafe THEN {f} ELSE fflush(f) : files' = WithCurrent(g)
      BY <2>5 DEF flushInAppend
    <3>2. /\ stuck' \in BOOLEAN /\ m_lastFlush' \in Int
          /\ m_lastRoll' = m_lastRoll /\ m_startPeriod' = m_startPeriod
      BY <1>b, <2>5 DEF flushInAppend
    <3>3. Holding(WithCurrent(f), Appended')
      BY <1>10 DEF hs
    <3>4. /\ g \in File /\ g.name = f.name /\ g.roll = f.roll /\ g.period = f.period
          /\ Holding(WithCurrent(g), Appended') /\ LastOK(g, m_appendCount', line[1])
      <4>1. CASE g = f
        BY <1>5, <2>4, <2>5, <3>3, <4>1
      <4>2. CASE g \in fflush(f)
        <5>1. g \in File /\ Same(f, g) /\ Holding(WithCurrent(g), Appended')
          BY <1>1, <1>5, <3>3, <4>2, FlushHolds
        <5>2. LastOK(g, m_appendCount', line[1])
          BY <1>5, <2>4, <2>5, <5>1, SameLast
        <5> QED BY <5>1, <5>2 DEF Same
      <4> QED BY <3>1, <4>1, <4>2
    <3> QED BY <1>16, <2>2, <3>1, <3>2, <3>4
  <2>6. CASE ~periodOver /\ files' = WithCurrent(f) /\ UNCHANGED <<stuck, rollVars>>
    <3>1. /\ stuck' \in BOOLEAN /\ m_lastFlush' \in Int
          /\ m_lastRoll' = m_lastRoll /\ m_startPeriod' = m_startPeriod
      BY <1>b, <2>6 DEF rollVars
    <3>2. Holding(WithCurrent(f), Appended')
      BY <1>10 DEF hs
    <3> QED BY <1>5, <1>16, <2>2, <2>4, <2>6, <3>1, <3>2
  <2> QED BY <1>19, <2>3, <2>5, <2>6 DEF check
<1> QED BY <1>4, <1>17, <1>18, <1>19

-----------------------------------------------------------------------------
(* The theorems *)

\* One empty file under the base name.
LEMMA FirstFile ==
    ASSUME NEW base \in BOOLEAN, NEW roll \in Int, NEW period \in Int,
           NEW f, f = NewFile(BaseName, base, roll, period), NEW fs, fs = <<f>>
    PROVE  fs \in [1..1 -> File] /\ FilesOK(1, fs) /\ KeptAt(1, fs, {})
<1>1. /\ f \in File /\ f.name = BaseName /\ f.buffer = <<>> /\ lines(f) = <<>>
      /\ f.dropped = {} /\ FileOK(f)
  <2>1. BaseName \in Int
    BY DEF BaseName
  <2> QED BY <2>1, NewFileFacts
<1>2. fs \in [1..1 -> File] /\ fs[1] = f /\ Len(lines(f)) = 0
  BY <1>1
<1>3. \A p : p \in 1..1 => p = 1
  OBVIOUS
<1>4. 1 \in 1..1 /\ 1 > 0 /\ 1 \in Nat /\ ~(1 < 1) /\ 1..(1 - 1) = {} /\ 1..0 = {}
  OBVIOUS
<1>5. FilesOK(1, fs)
  <2>1. \A p \in 1..1 : FileOK(fs[p])
    BY <1>1, <1>2, <1>3, Zenon
  <2>2. \A p, q \in 1..1 : ~(p < q)
    OBVIOUS
  <2> QED BY <1>1, <1>2, <1>4, <2>1, <2>2, Zenon DEF FilesOK
<1>6. (\A l : ~In(1, fs, l)) /\ (\A l : ~Gone(1, fs, l))
  BY <1>1, <1>2, <1>3, <1>4, Zenon DEF In, Gone
<1>a. \A p \in 1..1 : fs[p].dropped = {} /\ \A i : i \notin 1..Len(lines(fs[p]))
  BY <1>1, <1>2, <1>3, <1>4, Zenon
<1>7. Ordered(1, fs) /\ Spotless(1, fs)
  BY <1>a, Zenon DEF Ordered, Spotless
<1>8. KeptAt(1, fs, {})
  BY <1>6, <1>7, Zenon DEF KeptAt
<1> QED BY <1>2, <1>5, <1>8

LEMMA InitHasParts ==
    ASSUME Init
    PROVE  Parts
<1>1. /\ now = 1 /\ m_bThreadSafe \in BOOLEAN /\ stuck = FALSE /\ m_appendCount \in Int
      /\ startCount = m_appendCount /\ appended = <<>> /\ disk = "ok"
  BY TimeAssumption DEF Init
<1>2. Opened \subseteq BOOLEAN
  BY DEF Opened
<1>3. Appended = {} /\ Numbers
  BY <1>1 DEF Appended, Numbers
<1>4. ASSUME files \in Seq(File), files # <<>>,
             m_lastRoll \in Int, m_lastFlush \in Int, m_startPeriod \in Int
      PROVE  TypeOK
  <2>1. m_appendCount >= -Below
    BY <1>1 DEF Below
  <2>2. <<>> \in Seq(Line) /\ now \in Nat \ {0}
    BY <1>1
  <2> QED BY <1>1, <1>4, <2>1, <2>2 DEF TypeOK
<1>5. ASSUME NEW base \in BOOLEAN, NEW valid \in BOOLEAN,
             m_lastRoll = now, m_lastFlush = now, m_startPeriod = PeriodOf(now),
             files = <<NewFile(BaseName, base, m_lastRoll, m_startPeriod),
                       NewFile(now, valid, now, PeriodOf(now))>>
      PROVE  Parts
  <2> DEFINE f == NewFile(BaseName, base, m_lastRoll, m_startPeriod)
             g == NewFile(now, valid, now, PeriodOf(now))
             fs == <<f>>
  <2>0. now \in Int /\ PeriodOf(now) \in Int /\ BaseName \in Int /\ now \in Nat
    <3>1. now \in Nat
      BY <1>1
    <3>2. PeriodOf(now) \in Nat
      BY <3>1, PeriodType
    <3> QED BY <3>1, <3>2 DEF BaseName
  <2>3. /\ files = <<f, g>> /\ fs = <<f>>
        /\ f = NewFile(BaseName, base, m_lastRoll, m_startPeriod)
        /\ g = NewFile(now, valid, now, PeriodOf(now))
    BY <1>5
  <2> HIDE DEF f, g, fs
  <2>1. fs \in [1..1 -> File] /\ FilesOK(1, fs) /\ KeptAt(1, fs, {})
    BY <1>5, <2>0, <2>3, FirstFile
  <2>2. /\ f \in File /\ f.name = BaseName /\ f.buffer = <<>>
    BY <1>5, <2>0, <2>3, NewFileFacts
  <2>a. /\ g \in File /\ g.name = now /\ lines(g) = <<>> /\ g.dropped = {} /\ FileOK(g)
        /\ g.roll = now /\ g.period = PeriodOf(now) /\ \A m, l : LastOK(g, m, l)
    BY <2>0, <2>3, NewFileFacts
  <2>4. /\ files \in Seq(File) /\ files # <<>> /\ Len(files) = 2 /\ files[1] = f /\ files[2] = g
        /\ files \in [1..2 -> File] /\ fs[1] = f
    BY <2>2, <2>3, <2>a
  <2>6. TypeOK
    BY <1>4, <1>5, <2>0, <2>4
  <2>7. 1 + 1 = 2 /\ \A p \in 1..1 : p = 1
    OBVIOUS
  <2>8. files \in [1..(1 + 1) -> File] /\ files[1 + 1] = g /\ \A p \in 1..1 : files[p] = fs[p]
    BY <2>4, <2>7
  <2>9. fs[1].buffer = <<>> /\ fs[1].name < now
    BY <1>1, <2>2, <2>4 DEF BaseName
  <2>10. FilesOK(1 + 1, files)
    BY <2>0, <2>1, <2>8, <2>9, <2>a, NewOK
  <2>11. KeptAt(1 + 1, files, {})
    <3>1. lines(files[1 + 1]) = <<>> /\ files[1 + 1].dropped = {} /\ 1 \in Nat
      BY <2>8, <2>a
    <3> QED BY <2>1, <2>8, <3>1, KeptNew
  <2>12. Current(2, files[2], m_lastRoll, m_startPeriod, m_appendCount, Len(appended))
    BY <1>5, <2>4, <2>a DEF Current
  <2> QED BY <1>3, <2>4, <2>6, <2>7, <2>10, <2>11, <2>12 DEF Parts
<1>6. ASSUME NEW base \in BOOLEAN, m_lastRoll \in Int, m_lastFlush \in Int, m_startPeriod \in Int,
             files = <<NewFile(BaseName, base, m_lastRoll, m_startPeriod)>>
      PROVE  Parts
  <2> DEFINE f == NewFile(BaseName, base, m_lastRoll, m_startPeriod)
  <2>0. files = <<f>> /\ f = NewFile(BaseName, base, m_lastRoll, m_startPeriod)
    BY <1>6
  <2> HIDE DEF f
  <2>1. files \in [1..1 -> File] /\ FilesOK(1, files) /\ KeptAt(1, files, {})
    BY <1>6, <2>0, FirstFile
  <2>2. files[1] = f /\ f \in File /\ Len(files) = 1
    BY <2>0, <2>1
  <2>3. files \in Seq(File) /\ files # <<>>
    BY <2>0, <2>2
  <2>4. TypeOK
    BY <1>4, <1>6, <2>3
  <2>5. f.roll = m_lastRoll /\ f.period = m_startPeriod /\ \A m, l : LastOK(f, m, l)
    <3>1. BaseName \in Int
      BY DEF BaseName
    <3> QED BY <1>6, <2>0, <3>1, NewFileFacts
  <2>6. Current(1, files[1], m_lastRoll, m_startPeriod, m_appendCount, Len(appended))
    BY <2>2, <2>5 DEF Current
  <2> QED BY <1>3, <2>1, <2>2, <2>4, <2>6 DEF Parts
<1> QED BY <1>2, <1>5, <1>6, TimeAssumption DEF Init

LEMMA StepKeepsParts ==
    ASSUME Parts, [Next]_vars
    PROVE  Parts'
<1>1. CASE UNCHANGED vars
  <2>1. /\ UNCHANGED <<now, m_bThreadSafe, startCount, stuck, m_appendCount, files, appended, disk>>
        /\ m_lastRoll' = m_lastRoll /\ m_lastFlush' = m_lastFlush /\ m_startPeriod' = m_startPeriod
    BY <1>1 DEF vars, rollVars
  <2>2. TypeOK'
    BY <2>1 DEF Parts, TypeOK, Below
  <2> QED BY <2>1, <2>2, FilesAlone
<1>2. CASE Next
  BY <1>2, TickKeepsParts, DiskKeepsParts, AppendKeepsParts, FlushKeepsParts, CallRollKeepsParts
     DEF Next
<1> QED BY <1>1, <1>2

\* The invariant holds whatever the uninitialised members held, however the clock
\* is set, and whether or not files can be opened and the disk fills up.
THEOREM Invariance == Spec => []Inv
<1>1. Init => Parts
  BY InitHasParts
<1>2. Parts /\ [Next]_vars => Parts'
  BY StepKeepsParts
<1>3. Parts => Inv
  BY PartsMakeInv
<1> QED BY <1>1, <1>2, <1>3, PTL DEF Spec

\* Every line append has taken is in exactly one file and in order, across rolls
\* and flushes, but for those given to a file that could not be opened or that
\* met a full disk.
THEOREM LinesReachFiles == Spec => []NoLineLost
<1>1. Inv => NoLineLost
  BY DEF Inv
<1> QED BY <1>1, Invariance, PTL

\* rollFile never gives two files one name, and a file is on disk once it has
\* been rolled away.
THEOREM RollsAreDistinct == Spec => []FilesDistinct
<1>1. Inv => FilesDistinct
  BY DEF Inv, Names
<1> QED BY <1>1, Invariance, PTL

\* append rolls every file at m_rollSize, but for the lines of the seconds in
\* which rollFile refuses: those not past the last roll.
THEOREM SizeIsRespected == Spec => []RollSizeRespected
<1>1. Inv => RollSizeRespected
  BY DEF Inv
<1> QED BY <1>1, Invariance, PTL

\* append notices the end of a period within m_checkEveryN late lines in a row,
\* counted from what the uninitialised m_appendCount was.
THEOREM PeriodIsRespected == Spec => []PeriodRespected
<1>1. Inv => PeriodRespected
  BY DEF Inv
<1> QED BY <1>1, Invariance, PTL
=============================================================================
