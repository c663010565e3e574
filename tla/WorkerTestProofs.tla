-------------------------- MODULE WorkerTestProofs --------------------------
(***************************************************************************)
(* Proofs about WorkerTest, the composition of CountDownLatch and          *)
(* BlockingQueue, for every finite set of workers that is not empty and    *)
(* every number of jobs.                                                   *)
(***************************************************************************)
EXTENDS WorkerTest, FiniteSetTheorems, SequenceTheorems, TLAPS

\* How many elements the workers have taken.
Gets == puts - Len(m_deque)

\* The workers that are awake inside get.
Awake == getting \ queue_cond

Stopped == {w \in Worker : pc[w] = "stopped"}

-----------------------------------------------------------------------------
(* The parts of the inductive invariant *)

\* The latch opens at zero, for the main thread that sleeps as for the one that
\* comes later.
LatchOK == /\ Latch!TypeOK /\ Latch!NobodyPassesEarly /\ Latch!NobodyLeftAsleep

\* The types of the rest, and that a worker is inside get when it says so.
PlacesOK ==
    /\ m_deque \in Seq(Job \cup {STOP})
    /\ getting = {w \in Worker : pc[w] = "get"} /\ queue_cond \subseteq getting
    /\ returned \in [Worker -> (Job \cup {STOP}) \cup {NoValue}]
    /\ main \in {"run", "put", "join", "done"}
    /\ pc \in [Worker -> {"started", "loop", "get", "stopped"}]
    /\ taken \in [Worker -> SUBSET Job]
    /\ \A w \in getting : returned[w] = NoValue

\* Where the main thread is in its loops.
MainOK ==
    /\ puts \in Nat /\ puts <= TotalPuts
    /\ main = "put" => puts < TotalPuts
    /\ main = "run" => puts = 0
    /\ main \in {"join", "done"} => puts = TotalPuts
    /\ main = "done" => Stopped = Worker

\* As many workers are awake as elements are queued, or nobody sleeps.
SignalsOK == queue_cond # {} => Len(m_deque) <= Cardinality(Awake)

\* The queue holds what was put and not yet taken, in the order of the puts.
OrderOK ==
    /\ Len(m_deque) <= puts
    /\ \A i \in 1..Len(m_deque) : m_deque[i] = Element(Gets + i - 1)

\* The jobs come before the STOPs: what was taken are the first jobs, each by
\* one worker, and a worker has stopped for every element taken after them.
TakenOK ==
    /\ \A j \in Job : (\E w \in Worker : j \in taken[w]) <=> j <= Gets
    /\ \A v, w \in Worker : v # w => taken[v] \cap taken[w] = {}
    /\ Cardinality(Stopped) = IF Gets > Times THEN Gets - Times ELSE 0

WInv == LatchOK /\ PlacesOK /\ MainOK /\ SignalsOK /\ OrderOK /\ TakenOK

-----------------------------------------------------------------------------
(* Sets of workers *)

LEMMA WorkerSets ==
    ASSUME NEW S \in SUBSET Worker
    PROVE  /\ Cardinality(S) \in Nat
           /\ S # {} => Cardinality(S) > 0
           /\ \A R \in SUBSET S : Cardinality(R) <= Cardinality(S)
           /\ \A x \in S : Cardinality(S \ {x}) = Cardinality(S) - 1
           /\ \A x \in Worker \ S : Cardinality(S \cup {x}) = Cardinality(S) + 1
<1>1. IsFiniteSet(S)
  BY WorkerAssumption, FS_Subset
<1>2. Cardinality(S) \in Nat /\ (S # {} => Cardinality(S) > 0)
  BY <1>1, FS_CardinalityType, FS_EmptySet
<1>3. \A R \in SUBSET S : Cardinality(R) <= Cardinality(S)
  BY <1>1, FS_Subset
<1>4. \A x \in S : Cardinality(S \ {x}) = Cardinality(S) - 1
  BY <1>1, <1>2, FS_RemoveElement
<1>5. \A x \in Worker \ S : Cardinality(S \cup {x}) = Cardinality(S) + 1
  BY <1>1, FS_AddElement
<1> QED BY <1>2, <1>3, <1>4, <1>5

\* A signal leaves the wait set as it is or one waiter smaller, and smaller
\* whenever somebody waits.
LEMMA NotifyLeaves ==
    ASSUME NEW ws, NEW rest \in Queue!AfterNotify(ws)
    PROVE  /\ ws = {} => rest = {}
           /\ ws # {} => \E w \in ws : rest = ws \ {w}
BY DEF Queue!AfterNotify

LEMMA Numbers == /\ NumThreads \in Nat /\ NumThreads > 0 /\ Times \in Nat
                 /\ TotalPuts = Times + NumThreads /\ NoValue \notin Job \cup {STOP}
                 /\ STOP \notin Job
<1>1. NumThreads \in Nat /\ NumThreads > 0
  BY WorkerAssumption, WorkerSets DEF NumThreads
<1> QED BY <1>1, TimesAssumption DEF TotalPuts, Job, STOP

\* The elements put are the jobs and the STOPs.
LEMMA Elements ==
    ASSUME NEW i \in Nat
    PROVE  /\ Element(i) \in Job \cup {STOP}
           /\ i < Times => Element(i) = i + 1 /\ i + 1 \in Job
           /\ ~(i < Times) => Element(i) = STOP
BY TimesAssumption DEF Element, Job, STOP

-----------------------------------------------------------------------------
(* The latch *)

LEMMA LatchSteps ==
    ASSUME LatchOK,
           \/ Latch!callWait(Main) \/ Latch!wait(Main) \/ Latch!countDown
           \/ Latch!SpuriousWakeup(Main) \/ UNCHANGED latchVars
    PROVE  LatchOK'
<1> USE DEF LatchOK, Latch!TypeOK, Latch!NobodyPassesEarly, Latch!NobodyLeftAsleep
<1>1. CASE Latch!callWait(Main)
  BY <1>1 DEF Latch!callWait
<1>2. CASE Latch!wait(Main)
  BY <1>2 DEF Latch!wait
<1>3. CASE Latch!countDown
  BY <1>3 DEF Latch!countDown
<1>4. CASE Latch!SpuriousWakeup(Main)
  BY <1>4 DEF Latch!SpuriousWakeup
<1>5. CASE UNCHANGED latchVars
  BY <1>5 DEF latchVars
<1> QED BY <1>1, <1>2, <1>3, <1>4, <1>5

-----------------------------------------------------------------------------
(* What stays *)

LEMMA OrderKept ==
    ASSUME OrderOK, UNCHANGED <<m_deque, puts>>
    PROVE  OrderOK' /\ Gets' = Gets
BY DEF OrderOK, Gets

LEMMA TakenKept ==
    ASSUME TakenOK, UNCHANGED <<m_deque, puts, taken>>, Stopped' = Stopped
    PROVE  TakenOK'
BY DEF TakenOK, Gets

LEMMA SignalsKept ==
    ASSUME SignalsOK, UNCHANGED <<m_deque, queue_cond, getting>>
    PROVE  SignalsOK'
BY DEF SignalsOK, Awake

-----------------------------------------------------------------------------
(* The induction *)

LEMMA WInvInit == Init => WInv
<1> SUFFICES ASSUME Init PROVE WInv
    OBVIOUS
<1> USE DEF Init, Latch!Init, Queue!Init
<1>1. LatchOK
  BY Numbers DEF LatchOK, Latch!TypeOK, Latch!NobodyPassesEarly, Latch!NobodyLeftAsleep
<1>2. PlacesOK
  BY EmptySeq DEF PlacesOK
<1>3. MainOK
  BY Numbers DEF MainOK
<1>4. SignalsOK
  BY DEF SignalsOK
<1>5. Len(m_deque) = 0 /\ Gets = 0
  <2>1. m_deque = <<>> /\ puts = 0
    OBVIOUS
  <2>2. Len(<<>>) = 0 /\ 0 - 0 = 0
    OBVIOUS
  <2> QED BY <2>1, <2>2, Zenon DEF Gets
<1>6. OrderOK
  BY <1>5 DEF OrderOK
<1>7. Stopped = {} /\ Cardinality({}) = 0
  BY FS_EmptySet DEF Stopped
<1>8. TakenOK
  <2>1. \A w \in Worker : taken[w] = {}
    OBVIOUS
  <2>2. \A j \in Job : ~(j <= 0)
    BY Numbers DEF Job
  <2>3. ~(0 > Times)
    BY Numbers
  <2> QED BY <1>5, <1>7, <2>1, <2>2, <2>3 DEF TakenOK
<1> QED BY <1>1, <1>2, <1>3, <1>4, <1>6, <1>8 DEF WInv

LEMMA MainWaitInv == ASSUME WInv, MainWait PROVE WInv'
<1> USE DEF WInv
<1>1. UNCHANGED <<m_deque, queue_cond, getting, returned, puts, pc, taken>>
  BY DEF MainWait, queueVars
<1>2. Stopped' = Stopped
  BY <1>1 DEF Stopped
<1>3. LatchOK'
  BY LatchSteps DEF MainWait
<1>4. PlacesOK'
  BY <1>1 DEF PlacesOK, MainWait
<1>5. MainOK'
  BY <1>1, Numbers DEF MainOK, MainWait
<1> QED BY <1>1, <1>2, <1>3, <1>4, <1>5, OrderKept, TakenKept, SignalsKept

LEMMA MainPutInv == ASSUME WInv, MainPut PROVE WInv'
<1> USE DEF WInv
<1> DEFINE v == Element(puts)
<1>1. /\ UNCHANGED <<m_count, latch_cond, waiter, getting, returned, pc, taken>>
      /\ main = "put" /\ puts' = puts + 1 /\ main' = IF puts' = TotalPuts THEN "join" ELSE "put"
      /\ m_deque' = Append(m_deque, v) /\ queue_cond' \in Queue!AfterNotify(queue_cond)
  BY DEF MainPut, latchVars, Queue!put
<1>2. Stopped' = Stopped
  BY <1>1 DEF Stopped
<1>3. puts \in Nat /\ puts < TotalPuts /\ v \in Job \cup {STOP} /\ m_deque \in Seq(Job \cup {STOP})
  BY <1>1, Elements DEF MainOK, PlacesOK
<1> DEFINE n == Len(m_deque)
<1>4. n \in Nat /\ n <= puts
  BY <1>3 DEF OrderOK
<1> HIDE DEF v
<1>5. /\ m_deque' \in Seq(Job \cup {STOP}) /\ Len(m_deque') = n + 1
      /\ m_deque'[n + 1] = v /\ \A i \in 1..n : m_deque'[i] = m_deque[i]
  BY <1>1, <1>3
<1>6. Gets' = Gets /\ Gets + n = puts /\ Gets \in Nat
  <2>1. Gets' = (puts + 1) - (n + 1)
    BY <1>1, <1>5 DEF Gets
  <2> QED BY <1>3, <1>4, <2>1 DEF Gets
<1>7. LatchOK'
  BY <1>1, LatchSteps DEF latchVars
<1>8. queue_cond' \subseteq queue_cond
  BY <1>1, NotifyLeaves
<1>9. PlacesOK'
  BY <1>1, <1>5, <1>8 DEF PlacesOK
<1>10. MainOK'
  BY <1>1, <1>3, Numbers DEF MainOK
<1>11. SignalsOK'
  <2> SUFFICES ASSUME queue_cond' # {} PROVE Len(m_deque') <= Cardinality(Awake')
      BY DEF SignalsOK
  <2>1. PICK w \in queue_cond : queue_cond' = queue_cond \ {w}
    BY <1>1, NotifyLeaves
  <2>2. w \in Worker \ Awake /\ Awake' = Awake \cup {w} /\ Awake \in SUBSET Worker
    BY <1>1, <2>1 DEF PlacesOK, Awake
  <2>3. Cardinality(Awake') = Cardinality(Awake) + 1 /\ Cardinality(Awake) \in Nat
    BY <2>2, WorkerSets
  <2>4. n <= Cardinality(Awake)
    BY <2>1 DEF SignalsOK
  <2> QED BY <1>4, <1>5, <2>3, <2>4
<1>12. OrderOK'
  <2>1. Len(m_deque') <= puts'
    BY <1>1, <1>3, <1>4, <1>5
  <2>2. ASSUME NEW i \in 1..(n + 1) PROVE m_deque'[i] = Element(Gets + i - 1)
    <3>1. CASE i = n + 1
      <4>1. Gets + (n + 1) - 1 = puts
        BY <1>3, <1>4, <1>6
      <4> QED BY <1>5, <3>1, <4>1 DEF v
    <3>2. CASE i \in 1..n
      BY <1>5, <3>2 DEF OrderOK
    <3> QED BY <1>4, <3>1, <3>2
  <2> QED BY <1>5, <1>6, <2>1, <2>2 DEF OrderOK
<1>13. TakenOK'
  BY <1>1, <1>2, <1>6 DEF TakenOK
<1> QED BY <1>7, <1>9, <1>10, <1>11, <1>12, <1>13

LEMMA MainJoinInv == ASSUME WInv, MainJoin PROVE WInv'
<1> USE DEF WInv
<1>1. /\ UNCHANGED <<m_count, latch_cond, waiter, m_deque, queue_cond, getting, returned, puts, pc, taken>>
      /\ main = "join" /\ main' = "done" /\ \A w \in Worker : pc[w] = "stopped"
  BY DEF MainJoin, latchVars, queueVars
<1>2. Stopped' = Stopped /\ Stopped = Worker
  BY <1>1 DEF Stopped
<1>3. LatchOK'
  BY <1>1, LatchSteps DEF latchVars
<1>4. PlacesOK'
  BY <1>1 DEF PlacesOK
<1>5. MainOK'
  BY <1>1, <1>2 DEF MainOK
<1> QED BY <1>1, <1>2, <1>3, <1>4, <1>5, OrderKept, TakenKept, SignalsKept

LEMMA WorkerStartInv == ASSUME WInv, NEW w \in Worker, WorkerStart(w) PROVE WInv'
<1> USE DEF WInv
<1>1. /\ UNCHANGED <<m_deque, queue_cond, getting, returned, main, puts, taken>>
      /\ pc[w] = "started" /\ pc' = [pc EXCEPT ![w] = "loop"]
  BY DEF WorkerStart, Goto, queueVars
<1>2. Stopped' = Stopped
  BY <1>1 DEF Stopped, PlacesOK
<1>3. LatchOK'
  BY LatchSteps DEF WorkerStart
<1>4. PlacesOK'
  BY <1>1 DEF PlacesOK
<1>5. MainOK'
  BY <1>1, <1>2 DEF MainOK
<1> QED BY <1>1, <1>2, <1>3, <1>4, <1>5, OrderKept, TakenKept, SignalsKept

LEMMA WorkerCallInv == ASSUME WInv, NEW w \in Worker, WorkerCall(w) PROVE WInv'
<1> USE DEF WInv
<1>1. /\ UNCHANGED <<m_count, latch_cond, waiter, m_deque, queue_cond, main, puts, taken>>
      /\ pc[w] = "loop" /\ pc' = [pc EXCEPT ![w] = "get"]
      /\ getting' = getting \cup {w} /\ returned' = [returned EXCEPT ![w] = NoValue]
  BY DEF WorkerCall, Goto, latchVars, Queue!callGet
<1>2. Stopped' = Stopped
  BY <1>1 DEF Stopped, PlacesOK
<1>3. LatchOK'
  BY <1>1, LatchSteps DEF latchVars
<1>4. PlacesOK'
  BY <1>1 DEF PlacesOK
<1>5. MainOK'
  BY <1>1, <1>2 DEF MainOK
<1>6. SignalsOK'
  <2>1. Awake \subseteq Awake' /\ Awake' \in SUBSET Worker
    BY <1>1 DEF Awake, PlacesOK
  <2>2. Cardinality(Awake) <= Cardinality(Awake') /\ Cardinality(Awake) \in Nat
        /\ Cardinality(Awake') \in Nat
    BY <2>1, WorkerSets
  <2>3. Len(m_deque) \in Nat
    BY DEF PlacesOK
  <2> QED BY <1>1, <2>2, <2>3 DEF SignalsOK
<1> QED BY <1>1, <1>2, <1>3, <1>4, <1>5, <1>6, OrderKept, TakenKept

\* get on an empty queue: the worker falls asleep.
LEMMA WorkerSleepInv ==
    ASSUME WInv, NEW w \in Worker, WorkerGet(w), m_deque = <<>>
    PROVE  WInv'
<1> USE DEF WInv
<1>1. /\ UNCHANGED <<m_count, latch_cond, waiter, m_deque, getting, returned, main, puts>>
      /\ pc[w] = "get" /\ w \in getting /\ queue_cond' = queue_cond \cup {w}
  BY DEF WorkerGet, latchVars, Queue!get
<1>2. returned'[w] = NoValue
  BY <1>1 DEF PlacesOK
<1>3. pc' = pc /\ taken' = taken
  <2>1. pc' = [pc EXCEPT ![w] = "get"]
    BY <1>2 DEF WorkerGet, Goto
  <2>2. taken' = [taken EXCEPT ![w] = @ \cup ({NoValue} \cap Job)]
    BY <1>2 DEF WorkerGet
  <2>3. {NoValue} \cap Job = {}
    BY Numbers
  <2> QED BY <1>1, <2>1, <2>2, <2>3 DEF PlacesOK
<1>4. Stopped' = Stopped
  BY <1>3 DEF Stopped
<1>5. LatchOK'
  BY <1>1, LatchSteps DEF latchVars
<1>6. PlacesOK'
  BY <1>1, <1>3 DEF PlacesOK
<1>7. MainOK'
  BY <1>1, <1>4 DEF MainOK
<1>8. SignalsOK'
  <2>1. Len(m_deque') = 0
    BY <1>1, EmptySeq
  <2>2. Awake' \in SUBSET Worker
    BY <1>6 DEF Awake, PlacesOK
  <2>3. Cardinality(Awake') \in Nat
    BY <2>2, WorkerSets
  <2> QED BY <2>1, <2>3 DEF SignalsOK
<1> QED BY <1>1, <1>3, <1>4, <1>5, <1>6, <1>7, <1>8, OrderKept, TakenKept

\* get takes the first element: a job that nobody has taken, or a STOP.
LEMMA WorkerTakeInv ==
    ASSUME WInv, NEW w \in Worker, WorkerGet(w), m_deque # <<>>
    PROVE  WInv'
<1> USE DEF WInv
<1> DEFINE v == Head(m_deque)
           n == Len(m_deque)
<1>1. /\ UNCHANGED <<m_count, latch_cond, waiter, queue_cond, main, puts>>
      /\ pc[w] = "get" /\ w \in getting \ queue_cond
      /\ returned' = [returned EXCEPT ![w] = v]
      /\ m_deque' = Tail(m_deque) /\ getting' = getting \ {w}
  BY DEF WorkerGet, latchVars, Queue!get
<1>2. m_deque \in Seq(Job \cup {STOP}) /\ n \in Nat /\ n > 0 /\ v = m_deque[1]
      /\ v \in Job \cup {STOP} /\ returned'[w] = v
  BY <1>1 DEF PlacesOK
<1>3. /\ m_deque' \in Seq(Job \cup {STOP}) /\ Len(m_deque') = n - 1
      /\ \A i \in 1..(n - 1) : m_deque'[i] = m_deque[i + 1]
  BY <1>1, <1>2
<1>4. puts \in Nat /\ n <= puts /\ puts <= TotalPuts
  BY DEF MainOK, OrderOK
<1>5. Gets \in Nat /\ Gets' = Gets + 1 /\ Gets + n = puts
  <2>1. Gets' = puts - (n - 1)
    BY <1>1, <1>3 DEF Gets
  <2> QED BY <1>2, <1>4, <2>1 DEF Gets
<1>6. v = Element(Gets)
  <2>1. 1 \in 1..n /\ Gets + 1 - 1 = Gets
    BY <1>2, <1>5
  <2> QED BY <1>2, <2>1 DEF OrderOK
<1>7. LatchOK'
  BY <1>1, LatchSteps DEF latchVars
<1> HIDE DEF v
<1>8. /\ pc' = [pc EXCEPT ![w] = IF v = STOP THEN "stopped" ELSE "loop"]
      /\ taken' = [taken EXCEPT ![w] = @ \cup ({v} \cap Job)]
  <2>1. v # NoValue
    BY <1>2, Numbers
  <2> QED BY <1>2, <2>1 DEF WorkerGet, Goto
<1>9. PlacesOK'
  <2>1. getting' = {x \in Worker : pc'[x] = "get"}
    BY <1>1, <1>8 DEF PlacesOK
  <2> QED BY <1>1, <1>2, <1>3, <1>8, <2>1 DEF PlacesOK
<1>10. w \notin Stopped /\ Stopped \in SUBSET Worker
       /\ Stopped' = IF v = STOP THEN Stopped \cup {w} ELSE Stopped
  BY <1>1, <1>8 DEF Stopped, PlacesOK
<1>11. MainOK'
  BY <1>1, <1>10 DEF MainOK
<1>12. SignalsOK'
  <2> SUFFICES ASSUME queue_cond' # {} PROVE Len(m_deque') <= Cardinality(Awake')
      BY DEF SignalsOK
  <2>1. Awake' = Awake \ {w} /\ w \in Awake /\ Awake \in SUBSET Worker
    BY <1>1 DEF Awake, PlacesOK
  <2>2. Cardinality(Awake') = Cardinality(Awake) - 1 /\ Cardinality(Awake) \in Nat
    BY <2>1, WorkerSets
  <2>3. n <= Cardinality(Awake)
    BY <1>1 DEF SignalsOK
  <2> QED BY <1>2, <1>3, <2>2, <2>3
<1>13. OrderOK'
  <2>1. Len(m_deque') <= puts'
    BY <1>1, <1>2, <1>3, <1>4
  <2>2. ASSUME NEW i \in 1..(n - 1) PROVE m_deque'[i] = Element(Gets' + i - 1)
    <3>1. i + 1 \in 1..n /\ Gets + (i + 1) - 1 = Gets' + i - 1
      BY <1>2, <1>5
    <3>2. m_deque[i + 1] = Element(Gets + (i + 1) - 1)
      BY <3>1 DEF OrderOK
    <3> QED BY <1>3, <3>1, <3>2
  <2> QED BY <1>3, <2>1, <2>2 DEF OrderOK
<1>14. TakenOK'
  <2>c. Cardinality(Stopped) \in Nat
    BY <1>10, WorkerSets
  <2>1. CASE Gets < Times
    <3>1. v = Gets + 1 /\ v \in Job /\ v # STOP
      BY <1>5, <1>6, <2>1, Elements, Numbers
    <3>2. taken' = [taken EXCEPT ![w] = @ \cup {v}] /\ Stopped' = Stopped
      BY <1>8, <1>10, <3>1
    <3>3. \A x \in Worker : v \notin taken[x]
      BY <1>5, <3>1 DEF TakenOK
    <3>4. ASSUME NEW j \in Job
          PROVE  (\E x \in Worker : j \in taken'[x]) <=> j <= Gets'
      <4>1. j \in Nat /\ (j <= Gets' <=> j <= Gets \/ j = v)
        BY <1>5, <3>1, Numbers DEF Job
      <4>2. (\E x \in Worker : j \in taken'[x]) <=> (\E x \in Worker : j \in taken[x]) \/ j = v
        BY <3>2 DEF PlacesOK
      <4> QED BY <4>1, <4>2 DEF TakenOK
    <3>5. \A x, y \in Worker : x # y => taken'[x] \cap taken'[y] = {}
      <4>1. \A x \in Worker : taken'[x] = IF x = w THEN taken[x] \cup {v} ELSE taken[x]
        BY <3>2 DEF PlacesOK
      <4>2. \A x, y \in Worker : x # y => taken[x] \cap taken[y] = {}
        BY DEF TakenOK
      <4> SUFFICES ASSUME NEW x \in Worker, NEW y \in Worker, x # y
                   PROVE  taken'[x] \cap taken'[y] = {}
          OBVIOUS
      <4>3. taken[x] \cap taken[y] = {} /\ v \notin taken[x] /\ v \notin taken[y]
        BY <3>3, <4>2
      <4>4. CASE x = w
        BY <4>1, <4>3, <4>4
      <4>5. CASE x # w
        BY <4>1, <4>3, <4>5
      <4> QED BY <4>4, <4>5
    <3>6. Cardinality(Stopped') = IF Gets' > Times THEN Gets' - Times ELSE 0
      BY <1>5, <2>1, <3>2, Numbers DEF TakenOK
    <3> QED BY <3>4, <3>5, <3>6 DEF TakenOK
  <2>2. CASE ~(Gets < Times)
    <3>1. v = STOP /\ {v} \cap Job = {}
      BY <1>5, <1>6, <2>2, Elements, Numbers
    <3>2. taken' = taken /\ Stopped' = Stopped \cup {w}
      BY <1>8, <1>10, <3>1 DEF PlacesOK
    <3>3. Cardinality(Stopped') = Cardinality(Stopped) + 1
      BY <1>10, <3>2, WorkerSets
    <3>4. Cardinality(Stopped') = IF Gets' > Times THEN Gets' - Times ELSE 0
      BY <1>5, <2>2, <3>3, Numbers DEF TakenOK
    <3>5. \A j \in Job : j <= Gets' <=> j <= Gets
      BY <1>5, <2>2, Numbers DEF Job
    <3> QED BY <3>2, <3>4, <3>5 DEF TakenOK
  <2> QED BY <2>1, <2>2
<1> QED BY <1>7, <1>9, <1>11, <1>12, <1>13, <1>14

LEMMA SpuriousInv == ASSUME WInv, Spurious PROVE WInv'
<1> USE DEF WInv
<1>1. CASE Latch!SpuriousWakeup(Main) /\ UNCHANGED <<queueVars, main, puts, pc, taken>>
  <2>1. UNCHANGED <<m_deque, queue_cond, getting, returned, main, puts, pc, taken>>
    BY <1>1 DEF queueVars
  <2>2. Stopped' = Stopped
    BY <2>1 DEF Stopped
  <2>3. LatchOK'
    BY <1>1, LatchSteps
  <2>4. PlacesOK' /\ MainOK'
    BY <2>1, <2>2 DEF PlacesOK, MainOK
  <2> QED BY <2>1, <2>2, <2>3, <2>4, OrderKept, TakenKept, SignalsKept
<1>2. ASSUME NEW w \in Worker, Queue!SpuriousWakeup(w),
             UNCHANGED <<latchVars, main, puts, pc, taken>>
      PROVE  WInv'
  <2>1. /\ UNCHANGED <<m_count, latch_cond, waiter, m_deque, getting, returned, main, puts, pc, taken>>
        /\ queue_cond' = queue_cond \ {w}
    BY <1>2 DEF latchVars, Queue!SpuriousWakeup
  <2>2. Stopped' = Stopped
    BY <2>1 DEF Stopped
  <2>3. LatchOK'
    BY <2>1, LatchSteps DEF latchVars
  <2>4. PlacesOK' /\ MainOK'
    BY <2>1, <2>2 DEF PlacesOK, MainOK
  <2>5. SignalsOK'
    <3>1. Awake \subseteq Awake' /\ Awake' \in SUBSET Worker
      BY <2>1 DEF Awake, PlacesOK
    <3>2. Cardinality(Awake) <= Cardinality(Awake') /\ Cardinality(Awake) \in Nat
          /\ Cardinality(Awake') \in Nat
      BY <3>1, WorkerSets
    <3>3. Len(m_deque) \in Nat
      BY DEF PlacesOK
    <3>4. queue_cond' # {} => queue_cond # {}
      BY <2>1
    <3> QED BY <2>1, <3>2, <3>3, <3>4 DEF SignalsOK
  <2> QED BY <2>1, <2>2, <2>3, <2>4, <2>5, OrderKept, TakenKept
<1> QED BY <1>1, <1>2 DEF Spurious

LEMMA WInvNext == WInv /\ [Next]_vars => WInv'
<1> SUFFICES ASSUME WInv, [Next]_vars PROVE WInv'
    OBVIOUS
<1>1. CASE MainStep
  BY <1>1, MainWaitInv, MainPutInv, MainJoinInv DEF MainStep
<1>2. CASE Spurious
  BY <1>2, SpuriousInv
<1>3. ASSUME NEW w \in Worker, WorkerStep(w) PROVE WInv'
  <2>1. CASE WorkerStart(w)
    BY <2>1, WorkerStartInv
  <2>2. CASE WorkerCall(w)
    BY <2>2, WorkerCallInv
  <2>3. CASE WorkerGet(w)
    BY <2>3, WorkerSleepInv, WorkerTakeInv
  <2> QED BY <1>3, <2>1, <2>2, <2>3 DEF WorkerStep
<1>4. CASE UNCHANGED vars
  <2>1. /\ UNCHANGED <<m_count, latch_cond, waiter>>
        /\ UNCHANGED <<m_deque, queue_cond, getting, returned, main, puts, pc, taken>>
    BY <1>4 DEF vars, latchVars, queueVars
  <2>2. Stopped' = Stopped
    BY <2>1 DEF Stopped
  <2>3. LatchOK'
    BY <2>1, LatchSteps DEF WInv, latchVars
  <2>4. PlacesOK' /\ MainOK'
    BY <2>1, <2>2 DEF WInv, PlacesOK, MainOK
  <2> QED BY <2>1, <2>2, <2>3, <2>4, OrderKept, TakenKept, SignalsKept DEF WInv
<1> QED BY <1>1, <1>2, <1>3, <1>4 DEF Next, Done

LEMMA WInvHolds == SafeSpec => []WInv
BY WInvInit, WInvNext, PTL DEF SafeSpec

-----------------------------------------------------------------------------
\* The main thread passes the latch when every worker has counted down and does
\* not sleep on it after that, and no signal of put is lost, for any number of
\* workers and jobs.
THEOREM NoSignalIsLost == SafeSpec => []SignalsExact
<1>1. WInv => SignalsExact
  <2> SUFFICES ASSUME WInv PROVE SignalsExact
      OBVIOUS
  <2>1. Latch!NobodyPassesEarly /\ Latch!NobodyLeftAsleep
    BY DEF WInv, LatchOK
  <2>2. ASSUME queue_cond # {}, m_deque # <<>> PROVE getting \ queue_cond # {}
    <3>1. Len(m_deque) \in Nat /\ Len(m_deque) > 0
      BY <2>2, EmptySeq DEF WInv, PlacesOK
    <3>2. Len(m_deque) <= Cardinality(Awake)
      BY <2>2 DEF WInv, SignalsOK
    <3>3. Cardinality({}) = 0
      BY FS_EmptySet
    <3> QED BY <3>1, <3>2, <3>3 DEF Awake
  <2> QED BY <2>1, <2>2 DEF SignalsExact, Queue!NoLostWakeup
<1> QED BY <1>1, WInvHolds, PTL

\* When the main thread has joined the workers every job was taken, each by one
\* worker, and nothing is left in the queue: the STOPs put last, one for each
\* worker, never overtake a job and never stop a worker twice.
THEOREM EveryJobTaken == SafeSpec => []AllJobsTaken
<1>1. WInv => AllJobsTaken
  <2> SUFFICES ASSUME WInv PROVE AllJobsTaken
      OBVIOUS
  <2>1. \A v, w \in Worker : v # w => taken[v] \cap taken[w] = {}
    BY DEF WInv, TakenOK
  <2>2. ASSUME main = "done"
        PROVE  m_deque = <<>> /\ UNION {taken[w] : w \in Worker} = Job
    <3>1. puts = Times + NumThreads /\ Stopped = Worker
      BY <2>2, Numbers DEF WInv, MainOK
    <3>2. Len(m_deque) \in Nat /\ Len(m_deque) <= puts /\ m_deque \in Seq(Job \cup {STOP})
      BY DEF WInv, PlacesOK, OrderOK
    <3>3. NumThreads = IF Gets > Times THEN Gets - Times ELSE 0
      BY <3>1 DEF WInv, TakenOK, NumThreads
    <3>4. Gets \in Int /\ Gets = (Times + NumThreads) - Len(m_deque)
      BY <3>1, <3>2, Numbers DEF Gets
    <3>5. Len(m_deque) = 0 /\ Gets = Times + NumThreads
      BY <3>2, <3>3, <3>4, Numbers
    <3>6. \A j \in Job : \E w \in Worker : j \in taken[w]
      BY <3>5, Numbers DEF WInv, TakenOK, Job
    <3>7. \A w \in Worker : taken[w] \subseteq Job
      BY DEF WInv, PlacesOK
    <3> QED BY <3>2, <3>5, <3>6, <3>7, EmptySeq
  <2> QED BY <2>1, <2>2 DEF AllJobsTaken
<1> QED BY <1>1, WInvHolds, PTL
=============================================================================
