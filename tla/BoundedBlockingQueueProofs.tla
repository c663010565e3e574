--------------------- MODULE BoundedBlockingQueueProofs ---------------------
(***************************************************************************)
(* Proofs about BoundedBlockingQueue for every finite set of threads, every*)
(* set of values and every capacity, 0 included: with atomic critical      *)
(* sections, lock by lock, and about the Mutex and Condition they rest on. *)
(***************************************************************************)
EXTENDS MCBoundedQueue, FiniteSetTheorems, SequenceTheorems, TLAPS

\* The kinds of call are told apart by their op field.
LEMMA CallOps ==
    /\ Idle.op = "idle" /\ GetCall.op = "get"
    /\ \A v \in Value : PutCall(v).op = "put" /\ PutCall(v).value = v
    /\ \A c \in Calls : /\ c.op \in {"idle", "get", "put"}
                        /\ c.op = "idle" => c = Idle
                        /\ c.op = "get" => c = GetCall
                        /\ c.op = "put" => c.value \in Value
BY DEF Idle, GetCall, PutCall, Calls

\* A signal leaves the wait set as it is or one waiter smaller, and smaller
\* whenever somebody waits.
LEMMA NotifyLeaves ==
    ASSUME NEW ws, NEW rest \in AfterNotify(ws)
    PROVE  /\ rest \subseteq ws
           /\ ws = {} => rest = {}
           /\ ws # {} => \E w \in ws : rest = ws \ {w}
BY DEF AfterNotify

\* Below its capacity the circular buffer appends.
LEMMA PushBackAppends ==
    ASSUME NEW q \in Seq(Value), NEW v \in Value, Len(q) < Capacity
    PROVE  push_back(q, v) = Append(q, v)
BY DEF push_back

LEMMA InitType == Init => TypeOK
BY CapacityAssumption, CallOps, EmptySeq DEF Init, TypeOK, Calls

LEMMA NextType == TypeOK /\ [Next]_vars => TypeOK'
<1> SUFFICES ASSUME TypeOK, [Next]_vars PROVE TypeOK'
    OBVIOUS
<1> USE CapacityAssumption DEF TypeOK
<1>1. ASSUME NEW t \in Thread, Call(t) PROVE TypeOK'
  <2>1. PICK c \in Calls \ {Idle} : call' = [call EXCEPT ![t] = c]
    BY <1>1 DEF Call
  <2>2. call[t].op = "idle"
    BY <1>1, CallOps DEF Call
  <2> QED BY <1>1, <2>1, <2>2 DEF Call
<1>2. ASSUME NEW t \in Thread, PutWait(t) PROVE TypeOK'
  BY <1>2 DEF PutWait, Running
<1>3. ASSUME NEW t \in Thread, Put(t) PROVE TypeOK'
  <2>1. call[t].value \in Value /\ call[t].op = "put" /\ t \notin m_full /\ t \notin m_empty
    BY <1>3, CallOps DEF Put, Running
  <2>2. m_queue' = Append(m_queue, call[t].value)
    BY <1>3, <2>1, PushBackAppends DEF Put, full
  <2>3. m_queue' \in Seq(Value) /\ Len(m_queue') <= Capacity
    BY <1>3, <2>1, <2>2, AppendProperties DEF Put, full
  <2>4. m_empty' \subseteq m_empty
    BY <1>3, NotifyLeaves DEF Put
  <2>5. Idle \in Calls
    BY DEF Calls
  <2> QED BY <1>3, <2>1, <2>3, <2>4, <2>5 DEF Put
<1>4. ASSUME NEW t \in Thread, GetWait(t) PROVE TypeOK'
  BY <1>4 DEF GetWait, Running
<1>5. ASSUME NEW t \in Thread, Get(t) PROVE TypeOK'
  <2>1. call[t].op = "get" /\ t \notin m_full /\ t \notin m_empty /\ m_queue # <<>>
    BY <1>5 DEF Get, Running, empty
  <2>2. Head(m_queue) \in Value /\ m_queue' \in Seq(Value) /\ Len(m_queue') <= Capacity
    BY <1>5, <2>1, HeadTailProperties DEF Get
  <2>3. m_full' \subseteq m_full
    BY <1>5, NotifyLeaves DEF Get
  <2>4. Idle \in Calls
    BY DEF Calls
  <2> QED BY <1>5, <2>1, <2>2, <2>3, <2>4 DEF Get
<1>6. ASSUME NEW t \in Thread, SpuriousWakeup(t) PROVE TypeOK'
  BY <1>6 DEF SpuriousWakeup
<1>7. CASE UNCHANGED vars
  BY <1>7 DEF vars
<1> QED BY <1>1, <1>2, <1>3, <1>4, <1>5, <1>6, <1>7 DEF Next, Step

\* The types of the queue, its bound, and the wait sets hold for every number
\* of threads: put and get never push on a full or pop from an empty buffer.
THEOREM TypeCorrect == SafeSpec => []TypeOK
BY InitType, NextType, PTL DEF SafeSpec

-----------------------------------------------------------------------------
\* Sets of threads are finite and their sizes compare as the sets do.
LEMMA ThreadSets ==
    ASSUME NEW S \in SUBSET Thread
    PROVE  /\ IsFiniteSet(S) /\ Cardinality(S) \in Nat
           /\ S # {} => Cardinality(S) > 0
           /\ \A R \in SUBSET S : Cardinality(R) <= Cardinality(S)
           /\ \A x \in S : Cardinality(S \ {x}) = Cardinality(S) - 1
<1>1. IsFiniteSet(S)
  BY ThreadAssumption, FS_Subset
<1>2. Cardinality(S) \in Nat
  BY <1>1, FS_CardinalityType
<1> QED BY <1>1, <1>2, FS_Subset, FS_RemoveElement, FS_EmptySet

LEMMA NextWakeups == TypeOK /\ WakeupsSuffice /\ [Next]_vars => WakeupsSuffice'
<1> SUFFICES ASSUME TypeOK, WakeupsSuffice, [Next]_vars PROVE WakeupsSuffice'
    OBVIOUS
<1> USE CapacityAssumption DEF TypeOK
<1>t. TypeOK'
  BY NextType
<1>g. Awake("get") \in SUBSET Thread /\ Awake("put") \in SUBSET Thread
  BY DEF Awake
<1>h. Awake("get")' \in SUBSET Thread /\ Awake("put")' \in SUBSET Thread
  BY DEF Awake
<1>c. /\ Cardinality(Awake("get")) \in Nat /\ Cardinality(Awake("put")) \in Nat
      /\ Cardinality(Awake("get")') \in Nat /\ Cardinality(Awake("put")') \in Nat
  BY <1>g, <1>h, ThreadSets
<1>l. Len(m_queue) \in Nat /\ Len(m_queue') \in Nat
  BY <1>t, LenProperties
\* A step that neither touches the queue nor puts anybody to sleep leaves at
\* least as many threads awake.
<1>m. ASSUME UNCHANGED m_queue, m_empty' \subseteq m_empty, m_full' \subseteq m_full,
             Awake("get") \subseteq Awake("get")', Awake("put") \subseteq Awake("put")'
      PROVE  WakeupsSuffice'
  <2>1. /\ Cardinality(Awake("get")) <= Cardinality(Awake("get")')
        /\ Cardinality(Awake("put")) <= Cardinality(Awake("put")')
    BY <1>h, <1>m, ThreadSets
  <2> QED BY <1>c, <1>l, <1>m, <2>1 DEF WakeupsSuffice
<1>1. ASSUME NEW t \in Thread, Call(t) PROVE WakeupsSuffice'
  <2>1. call[t].op = "idle" /\ t \notin m_full /\ t \notin m_empty
    BY <1>1, CallOps DEF Call
  <2>2. \A u \in Thread : u # t => call'[u] = call[u]
    BY <1>1 DEF Call
  <2> QED BY <1>1, <1>m, <2>1, <2>2 DEF Call, Awake, Running
<1>2. ASSUME NEW t \in Thread, PutWait(t) PROVE WakeupsSuffice'
  \* The queue is full, so no slot needs a putter; getters are untouched.
  <2>1. Len(m_queue) = Capacity
    BY <1>2, <1>l DEF PutWait, full
  <2>2. Awake("get")' = Awake("get")
    BY <1>2 DEF PutWait, Awake, Running
  <2> QED BY <1>2, <1>c, <1>l, <2>1, <2>2 DEF PutWait, WakeupsSuffice
<1>3. ASSUME NEW t \in Thread, Put(t) PROVE WakeupsSuffice'
  <2>1. call[t].value \in Value /\ call[t].op = "put" /\ t \notin m_full /\ t \notin m_empty
    BY <1>3, CallOps DEF Put, Running
  <2>2. Len(m_queue') = Len(m_queue) + 1
    BY <1>3, <2>1, PushBackAppends, AppendProperties DEF Put, full
  <2>3. \A u \in Thread : u # t => call'[u] = call[u]
    BY <1>3 DEF Put
  <2>4. call'[t].op = "idle"
    BY <1>3, CallOps DEF Put
  <2>5. t \in Awake("put")
    BY <2>1 DEF Awake, Running
  <2>6. m_empty' \subseteq m_empty /\ m_full' = m_full
    BY <1>3, NotifyLeaves DEF Put
  <2>7. Awake("put")' = Awake("put") \ {t}
    BY <1>3, <2>1, <2>3, <2>4, <2>6 DEF Awake, Running
  <2>8. Cardinality(Awake("put")') = Cardinality(Awake("put")) - 1
    BY <1>g, <2>5, <2>7, ThreadSets
  \* The signal makes one more getter awake, if any sleeps.
  <2>9. m_empty # {} => Cardinality(Awake("get")') = Cardinality(Awake("get")) + 1
    <3> SUFFICES ASSUME m_empty # {}
                 PROVE  Cardinality(Awake("get")') = Cardinality(Awake("get")) + 1
        OBVIOUS
    <3>1. PICK w \in m_empty : m_empty' = m_empty \ {w}
      BY <1>3, NotifyLeaves DEF Put
    <3>2. w # t /\ w \in Thread /\ call[w].op = "get" /\ w \notin m_full
      BY <2>1
    <3>3. w \in Awake("get")' /\ Awake("get")' \ {w} = Awake("get")
      BY <2>1, <2>3, <2>4, <2>6, <3>1, <3>2 DEF Awake, Running
    <3> QED BY <1>c, <1>h, <3>3, ThreadSets
  <2> QED BY <1>c, <1>l, <2>2, <2>6, <2>8, <2>9 DEF WakeupsSuffice
<1>4. ASSUME NEW t \in Thread, GetWait(t) PROVE WakeupsSuffice'
  \* The queue is empty, so no element needs a getter; putters are untouched.
  <2>1. Len(m_queue) = 0
    BY <1>4, EmptySeq DEF GetWait, empty
  <2>2. Awake("put")' = Awake("put")
    BY <1>4 DEF GetWait, Awake, Running
  <2> QED BY <1>4, <1>c, <1>l, <2>1, <2>2 DEF GetWait, WakeupsSuffice
<1>5. ASSUME NEW t \in Thread, Get(t) PROVE WakeupsSuffice'
  <2>1. call[t].op = "get" /\ t \notin m_full /\ t \notin m_empty /\ m_queue # <<>>
    BY <1>5 DEF Get, Running, empty
  <2>2. Len(m_queue') = Len(m_queue) - 1
    BY <1>5, <2>1, HeadTailProperties DEF Get
  <2>3. \A u \in Thread : u # t => call'[u] = call[u]
    BY <1>5 DEF Get
  <2>4. call'[t].op = "idle"
    BY <1>5, CallOps DEF Get
  <2>5. t \in Awake("get")
    BY <2>1 DEF Awake, Running
  <2>6. m_full' \subseteq m_full /\ m_empty' = m_empty
    BY <1>5, NotifyLeaves DEF Get
  <2>7. Awake("get")' = Awake("get") \ {t}
    BY <1>5, <2>1, <2>3, <2>4, <2>6 DEF Awake, Running
  <2>8. Cardinality(Awake("get")') = Cardinality(Awake("get")) - 1
    BY <1>g, <2>5, <2>7, ThreadSets
  \* The signal makes one more putter awake, if any sleeps.
  <2>9. m_full # {} => Cardinality(Awake("put")') = Cardinality(Awake("put")) + 1
    <3> SUFFICES ASSUME m_full # {}
                 PROVE  Cardinality(Awake("put")') = Cardinality(Awake("put")) + 1
        OBVIOUS
    <3>1. PICK w \in m_full : m_full' = m_full \ {w}
      BY <1>5, NotifyLeaves DEF Get
    <3>2. w # t /\ w \in Thread /\ call[w].op = "put" /\ w \notin m_empty
      BY <2>1
    <3>3. w \in Awake("put")' /\ Awake("put")' \ {w} = Awake("put")
      BY <2>1, <2>3, <2>4, <2>6, <3>1, <3>2 DEF Awake, Running
    <3> QED BY <1>c, <1>h, <3>3, ThreadSets
  <2> QED BY <1>c, <1>l, <2>2, <2>6, <2>8, <2>9 DEF WakeupsSuffice
<1>6. ASSUME NEW t \in Thread, SpuriousWakeup(t) PROVE WakeupsSuffice'
  BY <1>6, <1>m DEF SpuriousWakeup, Awake, Running
<1>7. CASE UNCHANGED vars
  BY <1>7, <1>m DEF vars, Awake, Running
<1> QED BY <1>1, <1>2, <1>3, <1>4, <1>5, <1>6, <1>7 DEF Next, Step

\* One thread is awake for every element a sleeping getter could take and for
\* every slot a sleeping putter could fill.
LEMMA InvHolds == SafeSpec => []Inv
<1>1. Init => Inv
  BY InitType DEF Init, Inv, WakeupsSuffice
<1>2. Inv /\ [Next]_vars => Inv'
  BY NextType, NextWakeups DEF Inv
<1> QED BY <1>1, <1>2, PTL DEF SafeSpec

\* For every number of callers and every capacity, put and get never lose a
\* wakeup, although each sends a single signal and either may be stolen by a
\* thread that arrives in between.
THEOREM NoWakeupIsLost == SafeSpec => []NoLostWakeup
<1>1. Inv => NoLostWakeup
  <2> SUFFICES ASSUME Inv PROVE NoLostWakeup
      OBVIOUS
  <2>1. Awake("get") \in SUBSET Thread /\ Awake("put") \in SUBSET Thread
    BY DEF Awake
  <2>2. /\ Cardinality(Awake("get")) \in Nat /\ Cardinality(Awake("put")) \in Nat
        /\ Awake("get") = {} => Cardinality(Awake("get")) = 0
        /\ Awake("put") = {} => Cardinality(Awake("put")) = 0
    BY <2>1, ThreadSets, FS_EmptySet
  <2>3. Len(m_queue) \in Nat /\ (Len(m_queue) = 0 => m_queue = <<>>)
    BY EmptySeq, LenProperties DEF Inv, TypeOK
  <2> QED BY <2>2, <2>3, CapacityAssumption DEF Inv, WakeupsSuffice, NoLostWakeup, empty, full
<1> QED BY <1>1, InvHolds, PTL

\* Every behaviour of the queue is one of the bounded fifo: waits and wakeups
\* are invisible, put appends, get takes the oldest element.
THEOREM ImplementsFifo == SafeSpec => FifoSafeSpec
<1>1. Init => Fifo!Init
  BY DEF Init, Fifo!Init, Idle, Fifo!Idle
<1>2. TypeOK /\ [Next]_vars => [Fifo!Next]_Fifo!vars
  <2> SUFFICES ASSUME TypeOK, [Next]_vars PROVE [Fifo!Next]_Fifo!vars
      OBVIOUS
  <2> USE DEF Idle, Fifo!Idle, GetCall, Fifo!GetCall, PutCall, Fifo!PutCall, Calls, Fifo!Calls
  <2>1. ASSUME NEW t \in Thread, Call(t) PROVE Fifo!Call(t)
    BY <2>1 DEF Call, Fifo!Call
  <2>2. ASSUME NEW t \in Thread, Put(t) PROVE Fifo!Put(t)
    <3>1. Len(m_queue) < Capacity
      BY <2>2, CapacityAssumption, LenProperties DEF Put, full, TypeOK
    <3>2. call[t].value \in Value
      BY <2>2, CallOps DEF Put, Running, TypeOK
    <3> QED BY <2>2, <3>1, <3>2, PushBackAppends DEF Put, Running, Fifo!Put, TypeOK
  <2>3. ASSUME NEW t \in Thread, Get(t) PROVE Fifo!Get(t)
    BY <2>3 DEF Get, Running, empty, Fifo!Get
  <2>4. ASSUME NEW t \in Thread, PutWait(t) \/ GetWait(t) \/ SpuriousWakeup(t)
        PROVE  UNCHANGED Fifo!vars
    BY <2>4 DEF PutWait, GetWait, SpuriousWakeup, Fifo!vars
  <2>5. CASE UNCHANGED vars
    BY <2>5 DEF vars, Fifo!vars
  <2> QED BY <2>1, <2>2, <2>3, <2>4, <2>5 DEF Next, Step, Fifo!Next
<1> QED BY <1>1, <1>2, TypeCorrect, PTL DEF SafeSpec, FifoSafeSpec, Fifo!SafeSpec

-----------------------------------------------------------------------------
(* The queue lock by lock *)

\* Where a thread of LockedQueue owns the mutex, and where m_holder names it.
Owning == {"assign", "test", "enterWait", "wait", "access", "notify", "unassgin", "unlock"}
Holding == {"test", "enterWait", "access", "notify", "unassgin"}

Labels == Owning \cup {"outside", "lock", "asleep"}

\* The inductive form of HolderExact.  Who sleeps on which condition is part of
\* it: a signal wakes a thread that has given the mutex up.
LockInv == /\ l_pc \in [LockedThread -> Labels]
           /\ l_call \in [LockedThread -> Calls]
           /\ l_lock \in LockedThread \cup {NoThread}
           /\ l_holder \in LockedThread \cup {NoThread}
           /\ \A t \in LockedThread : l_pc[t] \in Owning <=> l_lock = t
           /\ \A t \in LockedThread : l_pc[t] \in Holding <=> l_holder = t
           /\ \A t \in LockedThread : l_pc[t] = "outside" <=> l_call[t] = Idle
           /\ l_full = {t \in LockedThread : l_pc[t] = "asleep" /\ l_call[t].op = "put"}
           /\ l_empty = {t \in LockedThread : l_pc[t] = "asleep" /\ l_call[t].op = "get"}

LEMMA LockedCalls ==
    /\ Locked!Queue!Calls = Calls /\ Locked!Idle = Idle /\ Locked!Queue!Idle = Idle
BY DEF Calls, Idle, GetCall, PutCall, Locked!Idle, Locked!Queue!Calls, Locked!Queue!Idle,
       Locked!Queue!GetCall, Locked!Queue!PutCall

\* A signal and the threads it wakes.
LEMMA LockedNotify ==
    ASSUME NEW ws, NEW rest \in Locked!Queue!AfterNotify(ws)
    PROVE  rest \subseteq ws /\ rest \in AfterNotify(ws)
BY DEF Locked!Queue!AfterNotify, AfterNotify

LEMMA LockedStep == LockInv /\ [Locked!Next]_lockedVars => LockInv'
<1> SUFFICES ASSUME LockInv, [Locked!Next]_lockedVars PROVE LockInv'
    OBVIOUS
<1> USE LockedAssumption DEF LockInv, Owning, Holding, Labels, Locked!Goto, Locked!lockVars,
                             Locked!callVars
<1>0. \A t \in LockedThread : /\ l_call[t].op = "idle" <=> l_call[t] = Idle
                              /\ l_call[t].op \in {"idle", "put", "get"}
  BY CallOps
<1>1. ASSUME NEW t \in LockedThread, Locked!Call(t) PROVE LockInv'
  BY <1>1, LockedCalls DEF Locked!Call
<1>2. ASSUME NEW t \in LockedThread, Locked!Lock(t) PROVE LockInv'
  BY <1>2 DEF Locked!Lock
<1>3. ASSUME NEW t \in LockedThread, Locked!assign(t) PROVE LockInv'
  BY <1>3 DEF Locked!assign
<1>4. ASSUME NEW t \in LockedThread, Locked!test(t) PROVE LockInv'
  BY <1>4 DEF Locked!test
<1>5. ASSUME NEW t \in LockedThread, Locked!enterWait(t) PROVE LockInv'
  BY <1>5 DEF Locked!enterWait
<1>6. ASSUME NEW t \in LockedThread, Locked!wait(t) PROVE LockInv'
  BY <1>0, <1>6 DEF Locked!wait
<1>7. ASSUME NEW t \in LockedThread, Locked!access(t) PROVE LockInv'
  BY <1>7 DEF Locked!access
<1>8. ASSUME NEW t \in LockedThread, Locked!notify(t) PROVE LockInv'
  <2>1. CASE /\ l_empty' \in Locked!Queue!AfterNotify(l_empty) /\ l_full' = l_full
             /\ Locked!Wake(l_empty \ l_empty', t, "unassgin")
    <3>1. l_empty' \subseteq l_empty
      BY <2>1, LockedNotify
    <3> QED BY <1>8, <2>1, <3>1 DEF Locked!notify, Locked!Wake
  <2>2. CASE /\ l_full' \in Locked!Queue!AfterNotify(l_full) /\ l_empty' = l_empty
             /\ Locked!Wake(l_full \ l_full', t, "unassgin")
    <3>1. l_full' \subseteq l_full
      BY <2>2, LockedNotify
    <3> QED BY <1>8, <2>2, <3>1 DEF Locked!notify, Locked!Wake
  <2> QED BY <1>8, <2>1, <2>2 DEF Locked!notify
<1>9. ASSUME NEW t \in LockedThread, Locked!unassgin(t) PROVE LockInv'
  BY <1>9 DEF Locked!unassgin
<1>10. ASSUME NEW t \in LockedThread, Locked!Unlock(t) PROVE LockInv'
  <2>1. Idle \in Calls
    BY DEF Calls
  <2> QED BY <1>10, <2>1, LockedCalls DEF Locked!Unlock
<1>11. ASSUME NEW t \in LockedThread, Locked!SpuriousWakeup(t) PROVE LockInv'
  BY <1>11 DEF Locked!SpuriousWakeup
<1>12. CASE UNCHANGED lockedVars
  BY <1>12 DEF lockedVars
<1> QED BY <1>1, <1>2, <1>3, <1>4, <1>5, <1>6, <1>7, <1>8, <1>9, <1>10, <1>11, <1>12
        DEF Locked!Next, Locked!Inside

LEMMA LockedInvHolds == QueuesSpec => []LockInv
<1>1. QueuesInit => LockInv
  <2>1. Idle \in Calls /\ Idle.op = "idle"
    BY DEF Calls, Idle
  <2> QED BY <2>1, LockedAssumption, LockedCalls
          DEF QueuesInit, Locked!Init, LockInv, Owning, Holding, Labels
<1>2. LockInv /\ [QueuesNext]_<<part, vars, lockedVars>> => LockInv'
  <2>1. [QueuesNext]_<<part, vars, lockedVars>> => [Locked!Next]_lockedVars
    BY DEF QueuesNext
  <2> QED BY <2>1, LockedStep
<1> QED BY <1>1, <1>2, PTL DEF QueuesSpec

\* m_holder names the thread in the critical section of put or get, also after a
\* wait, and nobody while the mutex is free, for every set of threads.
THEOREM HolderIsExact == QueuesSpec => []HolderExact
<1>1. LockInv => HolderExact
  BY LockedAssumption DEF LockInv, HolderExact, Locked!HolderExact, Owning, Holding
<1> QED BY <1>1, LockedInvHolds, PTL

\* What a thread knows of the queue while it owns the mutex: what it has tested
\* stays true until it waits or goes to the buffer, and until it signals the
\* buffer differs from that of the abstract queue by its element alone.
Blocked(t) == IF l_call[t].op = "put" THEN Len(l_queue) >= Capacity ELSE l_queue = <<>>

Knows(t) ==
    /\ l_pc[t] \in {"enterWait", "wait"} => Blocked(t)
    /\ l_pc[t] = "access" => ~Blocked(t)
    /\ l_pc[t] = "notify" /\ l_call[t].op = "put" =>
           Len(l_queue) > 0 /\ l_queue[Len(l_queue)] = l_call[t].value
    /\ l_pc[t] = "notify" /\ l_call[t].op = "get" => Len(l_queue) < Capacity
    /\ l_pc[t] # "outside" => l_returned[t] = NoValue
    /\ IF l_pc[t] \in {"notify", "unassgin", "unlock"} /\ l_call[t].op = "get"
       THEN l_value[t] \in Value ELSE l_value[t] = NoValue

QueueInv == /\ LockInv
            /\ l_queue \in Seq(Value) /\ Len(l_queue) <= Capacity
            /\ l_returned \in [LockedThread -> Value \cup {NoValue}]
            /\ l_value \in [LockedThread -> Value \cup {NoValue}]
            /\ \A t \in LockedThread : Knows(t)

LEMMA LockedPush ==
    ASSUME NEW q \in Seq(Value), NEW v \in Value, Len(q) < Capacity
    PROVE  /\ Locked!Queue!push_back(q, v) = Append(q, v)
           /\ Append(q, v) \in Seq(Value) /\ Len(Append(q, v)) = Len(q) + 1
           /\ Append(q, v)[Len(q) + 1] = v
           /\ SubSeq(Append(q, v), 1, Len(q)) = q
BY DEF Locked!Queue!push_back

\* Only the thread that owns the mutex knows anything, so a step of t outside the
\* buffer keeps what the others know.
LEMMA OthersKnow ==
    ASSUME NEW t \in LockedThread, NEW u \in LockedThread, u # t, Knows(u),
           l_queue' = l_queue \/ l_pc[u] \notin Owning,
           l_pc'[u] = l_pc[u] \/ (l_pc[u] = "asleep" /\ l_pc'[u] = "lock"),
           l_call'[u] = l_call[u], l_returned'[u] = l_returned[u], l_value'[u] = l_value[u]
    PROVE  Knows(u)'
BY DEF Knows, Blocked, Owning

LEMMA QueueStep == QueueInv /\ [Locked!Next]_lockedVars => QueueInv'
<1> SUFFICES ASSUME QueueInv, [Locked!Next]_lockedVars PROVE QueueInv'
    OBVIOUS
<1>0. LockInv /\ LockInv'
  BY LockedStep DEF QueueInv
<1>a. /\ l_queue \in Seq(Value) /\ Len(l_queue) \in Nat /\ Len(l_queue) <= Capacity
      /\ l_returned \in [LockedThread -> Value \cup {NoValue}]
      /\ l_value \in [LockedThread -> Value \cup {NoValue}]
      /\ \A t \in LockedThread : Knows(t)
      /\ l_pc \in [LockedThread -> Labels] /\ l_call \in [LockedThread -> Calls]
  BY <1>0 DEF QueueInv, LockInv
<1>b. \A t \in LockedThread : /\ l_call[t].op \in {"idle", "put", "get"}
                              /\ l_call[t].op = "idle" => l_call[t] = Idle
                              /\ l_call[t].op = "put" => l_call[t].value \in Value
                              /\ l_pc[t] \in Owning => l_call[t].op \in {"put", "get"}
  BY <1>0, <1>a, CallOps DEF LockInv, Owning
<1>c. ASSUME NEW t \in LockedThread, l_pc[t] \in Owning, NEW u \in LockedThread, u # t
      PROVE  l_pc[u] \notin Owning
  BY <1>0, <1>c DEF LockInv
\* A step of t: what is left to show once the others are dealt with.
<1>d. ASSUME NEW t \in LockedThread, Knows(t)',
             l_queue' = l_queue \/ l_pc[t] \in Owning,
             l_queue' \in Seq(Value), Len(l_queue') <= Capacity,
             \A u \in LockedThread : u # t =>
                 /\ l_pc'[u] = l_pc[u] \/ (l_pc[u] = "asleep" /\ l_pc'[u] = "lock")
                 /\ l_call'[u] = l_call[u]
                 /\ l_returned'[u] = l_returned[u] /\ l_value'[u] = l_value[u],
             l_returned' \in [LockedThread -> Value \cup {NoValue}],
             l_value' \in [LockedThread -> Value \cup {NoValue}]
      PROVE  QueueInv'
  <2>1. ASSUME NEW u \in LockedThread, u # t PROVE Knows(u)'
    BY <1>a, <1>c, <1>d, <2>1, OthersKnow
  <2>2. \A u \in LockedThread : Knows(u)'
    BY <1>d, <2>1
  <2> QED BY <1>0, <1>d, <2>2 DEF QueueInv
<1> USE NoValueAssumption, CapacityAssumption
<1> USE DEF Locked!Goto, Locked!lockVars, Locked!callVars
<1>1. ASSUME NEW t \in LockedThread, Locked!Call(t) PROVE QueueInv'
  <2>1. /\ l_pc[t] = "outside" /\ l_pc' = [l_pc EXCEPT ![t] = "lock"] /\ l_queue' = l_queue
        /\ l_returned' = [l_returned EXCEPT ![t] = NoValue] /\ l_value' = l_value
        /\ \A u \in LockedThread : u # t => l_call'[u] = l_call[u]
    BY <1>1, <1>a DEF Locked!Call
  <2>2. l_pc'[t] = "lock" /\ l_returned'[t] = NoValue /\ l_value'[t] = NoValue
    BY <1>a, <2>1 DEF Knows
  <2>3. Knows(t)'
    BY <2>2 DEF Knows
  <2> QED BY <1>a, <1>d, <2>1, <2>3
<1>2. ASSUME NEW t \in LockedThread,
             Locked!Lock(t) \/ Locked!assign(t) \/ Locked!enterWait(t) \/ Locked!unassgin(t)
      PROVE  QueueInv'
  <2>1. /\ l_queue' = l_queue /\ l_call' = l_call /\ l_returned' = l_returned /\ l_value' = l_value
        /\ \/ l_pc[t] = "lock" /\ l_pc' = [l_pc EXCEPT ![t] = "assign"]
           \/ l_pc[t] = "assign" /\ l_pc' = [l_pc EXCEPT ![t] = "test"]
           \/ l_pc[t] = "enterWait" /\ l_pc' = [l_pc EXCEPT ![t] = "wait"]
           \/ l_pc[t] = "unassgin" /\ l_pc' = [l_pc EXCEPT ![t] = "unlock"]
    BY <1>2 DEF Locked!Lock, Locked!assign, Locked!enterWait, Locked!unassgin
  <2>2. Knows(t)'
    BY <1>a, <2>1 DEF Knows, Blocked
  <2> QED BY <1>a, <1>d, <2>1, <2>2
<1>3. ASSUME NEW t \in LockedThread, Locked!test(t) PROVE QueueInv'
  <2>1. /\ l_queue' = l_queue /\ l_call' = l_call /\ l_returned' = l_returned /\ l_value' = l_value
        /\ l_pc[t] = "test"
        /\ l_pc' = [l_pc EXCEPT ![t] = IF Blocked(t) THEN "enterWait" ELSE "access"]
    BY <1>3 DEF Locked!test, Locked!mustWait, Locked!full, Locked!empty, Blocked
  <2>2. Knows(t)'
    BY <1>a, <2>1 DEF Knows, Blocked
  <2> QED BY <1>a, <1>d, <2>1, <2>2
<1>4. ASSUME NEW t \in LockedThread, Locked!wait(t) \/ Locked!SpuriousWakeup(t) PROVE QueueInv'
  <2>1. /\ l_queue' = l_queue /\ l_call' = l_call /\ l_returned' = l_returned /\ l_value' = l_value
        /\ \/ l_pc[t] = "wait" /\ l_pc' = [l_pc EXCEPT ![t] = "asleep"]
           \/ l_pc[t] = "asleep" /\ l_pc' = [l_pc EXCEPT ![t] = "lock"]
    BY <1>4 DEF Locked!wait, Locked!SpuriousWakeup
  <2>2. Knows(t)'
    BY <1>a, <2>1 DEF Knows
  <2> QED BY <1>a, <1>d, <2>1, <2>2
<1>5. ASSUME NEW t \in LockedThread, Locked!access(t) PROVE QueueInv'
  <2>1. /\ l_call' = l_call /\ l_returned' = l_returned /\ l_pc[t] = "access"
        /\ l_pc' = [l_pc EXCEPT ![t] = "notify"] /\ l_pc'[t] = "notify"
    BY <1>5, <1>a DEF Locked!access
  <2>2. l_pc[t] \in Owning /\ ~Blocked(t) /\ l_returned[t] = NoValue /\ l_value[t] = NoValue
    BY <1>a, <2>1 DEF Owning, Knows
  <2>3. CASE l_call[t].op = "put"
    <3>1. l_value' = l_value /\ l_queue' = Locked!Queue!push_back(l_queue, l_call[t].value)
      BY <1>5, <2>3 DEF Locked!access
    <3>2. Len(l_queue) < Capacity /\ l_call[t].value \in Value
      BY <1>a, <1>b, <2>2, <2>3 DEF Blocked
    <3>3. /\ l_queue' \in Seq(Value) /\ Len(l_queue') = Len(l_queue) + 1
          /\ l_queue'[Len(l_queue) + 1] = l_call[t].value
      BY <1>a, <3>1, <3>2, LockedPush
    <3>4. Len(l_queue') <= Capacity /\ Len(l_queue') > 0
      BY <1>a, <3>2, <3>3
    <3>5. Knows(t)'
      BY <2>1, <2>2, <2>3, <3>1, <3>3, <3>4 DEF Knows
    <3> QED BY <1>a, <1>d, <2>1, <2>2, <3>1, <3>3, <3>4, <3>5
  <2>4. CASE l_call[t].op = "get"
    <3>1. /\ l_value' = [l_value EXCEPT ![t] = Head(l_queue)] /\ l_queue' = Tail(l_queue)
      BY <1>5, <2>4 DEF Locked!access
    <3>2. l_queue # <<>>
      BY <2>2, <2>4 DEF Blocked
    <3>3. /\ Head(l_queue) \in Value /\ l_queue' \in Seq(Value)
          /\ Len(l_queue') = Len(l_queue) - 1
      BY <1>a, <3>1, <3>2, HeadTailProperties
    <3>4. Len(l_queue') < Capacity /\ Len(l_queue') <= Capacity
      BY <1>a, <3>3
    <3>5. l_value'[t] = Head(l_queue) /\ l_value' \in [LockedThread -> Value \cup {NoValue}]
      BY <1>a, <3>1, <3>3
    <3>6. Knows(t)'
      BY <2>1, <2>2, <2>4, <3>3, <3>4, <3>5 DEF Knows
    <3> QED BY <1>a, <1>d, <2>1, <2>2, <3>1, <3>3, <3>4, <3>5, <3>6
  <2> QED BY <1>b, <2>2, <2>3, <2>4
<1>6. ASSUME NEW t \in LockedThread, Locked!notify(t) PROVE QueueInv'
  <2>1. /\ l_queue' = l_queue /\ l_call' = l_call /\ l_returned' = l_returned /\ l_value' = l_value
        /\ l_pc[t] = "notify" /\ l_pc'[t] = "unassgin"
        /\ \A u \in LockedThread : u # t =>
               l_pc'[u] = l_pc[u] \/ (l_pc[u] = "asleep" /\ l_pc'[u] = "lock")
    BY <1>0, <1>6 DEF Locked!notify, Locked!Wake, LockInv
  <2>2. Knows(t)'
    BY <1>a, <2>1 DEF Knows
  <2> QED BY <1>a, <1>d, <2>1, <2>2
<1>7. ASSUME NEW t \in LockedThread, Locked!Unlock(t) PROVE QueueInv'
  <2>1. /\ l_queue' = l_queue /\ l_pc[t] = "unlock" /\ l_pc' = [l_pc EXCEPT ![t] = "outside"]
        /\ l_call' = [l_call EXCEPT ![t] = Locked!Idle]
        /\ l_returned' = [l_returned EXCEPT ![t] = l_value[t]]
        /\ l_value' = [l_value EXCEPT ![t] = NoValue]
    BY <1>7 DEF Locked!Unlock
  <2>2. l_pc'[t] = "outside" /\ l_value'[t] = NoValue
    BY <1>a, <2>1
  <2>3. Knows(t)'
    BY <2>2 DEF Knows
  <2> QED BY <1>a, <1>d, <2>1, <2>3
<1>8. CASE UNCHANGED lockedVars
  BY <1>0, <1>8 DEF lockedVars, QueueInv, Knows, Blocked
<1> QED BY <1>1, <1>2, <1>3, <1>4, <1>5, <1>6, <1>7, <1>8 DEF Locked!Next, Locked!Inside

-----------------------------------------------------------------------------
(* LockedQueue implements BoundedBlockingQueue *)

\* The variables of the abstract queue.
AQueue == Locked!atomicQueue
ACall == [t \in LockedThread |-> IF Locked!Over(t) THEN Locked!Idle ELSE l_call[t]]
AReturned == [t \in LockedThread |-> IF Locked!Over(t) THEN l_value[t] ELSE l_returned[t]]

LEMMA AbstractStutter ==
    ASSUME UNCHANGED <<AQueue, l_full, l_empty, ACall, AReturned>>
    PROVE  UNCHANGED Locked!Queue!vars
BY DEF Locked!Queue!vars, AQueue, ACall, AReturned

ARunning(t, op) == ACall[t].op = op /\ t \notin l_full \cup l_empty

LEMMA AbstractActions ==
    ASSUME NEW t \in LockedThread
    PROVE  /\ Locked!Queue!Call(t) <=>
                  /\ ACall[t] = Idle
                  /\ \E c \in Calls \ {Idle} : ACall' = [ACall EXCEPT ![t] = c]
                  /\ AReturned' = [AReturned EXCEPT ![t] = NoValue]
                  /\ UNCHANGED <<AQueue, l_full, l_empty>>
           /\ Locked!Queue!PutWait(t) <=>
                  /\ ARunning(t, "put") /\ Len(AQueue) >= Capacity
                  /\ l_full' = l_full \cup {t}
                  /\ UNCHANGED <<AQueue, l_empty, ACall, AReturned>>
           /\ Locked!Queue!GetWait(t) <=>
                  /\ ARunning(t, "get") /\ AQueue = <<>>
                  /\ l_empty' = l_empty \cup {t}
                  /\ UNCHANGED <<AQueue, l_full, ACall, AReturned>>
           /\ Locked!Queue!Put(t) <=>
                  /\ ARunning(t, "put") /\ ~(Len(AQueue) >= Capacity)
                  /\ AQueue' = Locked!Queue!push_back(AQueue, ACall[t].value)
                  /\ l_empty' \in Locked!Queue!AfterNotify(l_empty)
                  /\ ACall' = [ACall EXCEPT ![t] = Idle]
                  /\ UNCHANGED <<l_full, AReturned>>
           /\ Locked!Queue!Get(t) <=>
                  /\ ARunning(t, "get") /\ ~(AQueue = <<>>)
                  /\ AReturned' = [AReturned EXCEPT ![t] = Head(AQueue)]
                  /\ AQueue' = Tail(AQueue)
                  /\ l_full' \in Locked!Queue!AfterNotify(l_full)
                  /\ ACall' = [ACall EXCEPT ![t] = Idle]
                  /\ UNCHANGED l_empty
           /\ Locked!Queue!SpuriousWakeup(t) <=>
                  /\ t \in l_full \cup l_empty
                  /\ l_full' = l_full \ {t} /\ l_empty' = l_empty \ {t}
                  /\ UNCHANGED <<AQueue, ACall, AReturned>>
<1> USE LockedCalls DEF AQueue, ACall, AReturned, ARunning
<1>1. Locked!Queue!Call(t) <=>
                  /\ ACall[t] = Idle
                  /\ \E c \in Calls \ {Idle} : ACall' = [ACall EXCEPT ![t] = c]
                  /\ AReturned' = [AReturned EXCEPT ![t] = NoValue]
                  /\ UNCHANGED <<AQueue, l_full, l_empty>>
  BY DEF Locked!Queue!Call
<1>2. Locked!Queue!PutWait(t) <=>
                  /\ ARunning(t, "put") /\ Len(AQueue) >= Capacity
                  /\ l_full' = l_full \cup {t}
                  /\ UNCHANGED <<AQueue, l_empty, ACall, AReturned>>
  BY DEF Locked!Queue!PutWait, Locked!Queue!Running, Locked!Queue!full
<1>3. Locked!Queue!GetWait(t) <=>
                  /\ ARunning(t, "get") /\ AQueue = <<>>
                  /\ l_empty' = l_empty \cup {t}
                  /\ UNCHANGED <<AQueue, l_full, ACall, AReturned>>
  BY DEF Locked!Queue!GetWait, Locked!Queue!Running, Locked!Queue!empty
<1>4. Locked!Queue!Put(t) <=>
                  /\ ARunning(t, "put") /\ ~(Len(AQueue) >= Capacity)
                  /\ AQueue' = Locked!Queue!push_back(AQueue, ACall[t].value)
                  /\ l_empty' \in Locked!Queue!AfterNotify(l_empty)
                  /\ ACall' = [ACall EXCEPT ![t] = Idle]
                  /\ UNCHANGED <<l_full, AReturned>>
  BY DEF Locked!Queue!Put, Locked!Queue!Running, Locked!Queue!full
<1>5. Locked!Queue!Get(t) <=>
                  /\ ARunning(t, "get") /\ ~(AQueue = <<>>)
                  /\ AReturned' = [AReturned EXCEPT ![t] = Head(AQueue)]
                  /\ AQueue' = Tail(AQueue)
                  /\ l_full' \in Locked!Queue!AfterNotify(l_full)
                  /\ ACall' = [ACall EXCEPT ![t] = Idle]
                  /\ UNCHANGED l_empty
  BY DEF Locked!Queue!Get, Locked!Queue!Running, Locked!Queue!empty
<1>6. Locked!Queue!SpuriousWakeup(t) <=>
                  /\ t \in l_full \cup l_empty
                  /\ l_full' = l_full \ {t} /\ l_empty' = l_empty \ {t}
                  /\ UNCHANGED <<AQueue, ACall, AReturned>>
  BY DEF Locked!Queue!SpuriousWakeup
<1> QED BY <1>1, <1>2, <1>3, <1>4, <1>5, <1>6

\* The abstract queue is the buffer, but for the element that the owner of the
\* mutex has just put or taken and not yet signalled.
QueueIs ==
    /\ (\A t \in LockedThread : l_pc[t] # "notify") => AQueue = l_queue
    /\ \A t \in LockedThread : l_pc[t] \in Owning \ {"notify"} => AQueue = l_queue
    /\ \A t \in LockedThread : l_pc[t] = "notify" =>
           AQueue = IF l_call[t].op = "put" THEN SubSeq(l_queue, 1, Len(l_queue) - 1)
                    ELSE <<l_value[t]>> \o l_queue

LEMMA AbstractQueue == QueueInv => QueueIs
<1> SUFFICES ASSUME QueueInv PROVE QueueIs
    OBVIOUS
<1>1. \A t, u \in LockedThread : l_pc[t] \in Owning /\ l_pc[u] \in Owning => t = u
  BY DEF QueueInv, LockInv
<1>2. "notify" \in Owning
  BY DEF Owning
<1>3. (\A t \in LockedThread : l_pc[t] # "notify") => AQueue = l_queue
  BY DEF AQueue, Locked!atomicQueue, Locked!Accessing
<1>4. \A t \in LockedThread : l_pc[t] \in Owning \ {"notify"} =>
          \A u \in LockedThread : l_pc[u] # "notify"
  BY <1>1, <1>2
<1>5. ASSUME NEW t \in LockedThread, l_pc[t] = "notify"
      PROVE  AQueue = IF l_call[t].op = "put" THEN SubSeq(l_queue, 1, Len(l_queue) - 1)
                      ELSE <<l_value[t]>> \o l_queue
  <2>1. (CHOOSE u \in LockedThread : l_pc[u] = "notify") = t
    BY <1>1, <1>2, <1>5
  <2> QED BY <1>5, <2>1 DEF AQueue, Locked!atomicQueue, Locked!Accessing
<1> QED BY <1>3, <1>4, <1>5 DEF QueueIs

LEMMA AbstractQueueNext == QueueInv' => QueueIs'
BY AbstractQueue, PTL

\* A step that leaves the buffer, the elements on their way and the calls alone
\* is no step of the abstract queue.
LEMMA QueueUntouched ==
    ASSUME QueueInv, QueueInv', UNCHANGED <<l_queue, l_call, l_value>>,
           \A u \in LockedThread : l_pc'[u] = "notify" <=> l_pc[u] = "notify"
    PROVE  AQueue' = AQueue
<1>1. CASE \E t \in LockedThread : l_pc[t] = "notify"
  <2>1. PICK t \in LockedThread : l_pc[t] = "notify"
    BY <1>1
  <2>2. AQueue = IF l_call[t].op = "put" THEN SubSeq(l_queue, 1, Len(l_queue) - 1)
                 ELSE <<l_value[t]>> \o l_queue
    BY <2>1, AbstractQueue, Zenon DEF QueueIs
  <2>3. AQueue' = IF l_call'[t].op = "put" THEN SubSeq(l_queue', 1, Len(l_queue') - 1)
                  ELSE <<l_value'[t]>> \o l_queue'
    BY <2>1, AbstractQueueNext, Zenon DEF QueueIs
  <2>4. l_queue' = l_queue /\ l_call'[t] = l_call[t] /\ l_value'[t] = l_value[t]
    OBVIOUS
  <2> QED BY <2>2, <2>3, <2>4, Zenon
<1>2. CASE \A t \in LockedThread : l_pc[t] # "notify"
  BY <1>2, AbstractQueue, AbstractQueueNext DEF QueueIs
<1> QED BY <1>1, <1>2

LEMMA Refines ==
    ASSUME QueueInv, [Locked!Next]_lockedVars
    PROVE  [Locked!Queue!Next]_(Locked!Queue!vars)
<1>0. QueueInv /\ QueueInv'
  BY QueueStep
<1>a. /\ l_queue \in Seq(Value) /\ Len(l_queue) \in Nat /\ Len(l_queue) <= Capacity
      /\ l_returned \in [LockedThread -> Value \cup {NoValue}]
      /\ l_value \in [LockedThread -> Value \cup {NoValue}]
      /\ \A t \in LockedThread : Knows(t)
      /\ l_pc \in [LockedThread -> Labels] /\ l_call \in [LockedThread -> Calls]
      /\ LockInv
  BY <1>0 DEF QueueInv, LockInv
<1>b. \A t \in LockedThread : /\ l_call[t].op \in {"idle", "put", "get"}
                              /\ l_call[t].op = "put" => l_call[t].value \in Value
                              /\ l_pc[t] \in Owning => l_call[t].op \in {"put", "get"}
  BY <1>a, CallOps DEF LockInv, Owning
<1> USE NoValueAssumption, CapacityAssumption
<1> USE DEF Locked!Goto, Locked!lockVars, Locked!callVars
\* Steps that are none of the abstract queue.
<1>1. ASSUME NEW t \in LockedThread,
             Locked!Lock(t) \/ Locked!assign(t) \/ Locked!test(t) \/ Locked!enterWait(t)
             \/ Locked!unassgin(t)
      PROVE  UNCHANGED Locked!Queue!vars
  <2>1. /\ UNCHANGED <<l_queue, l_full, l_empty, l_call, l_returned, l_value>>
        /\ \A u \in LockedThread : l_pc'[u] = "notify" <=> l_pc[u] = "notify"
        /\ \A u \in LockedThread : Locked!Over(u)' <=> Locked!Over(u)
    BY <1>1, <1>a DEF Locked!Lock, Locked!assign, Locked!test, Locked!enterWait, Locked!unassgin,
                      Locked!Over
  <2>2. AQueue' = AQueue
    BY <1>0, <2>1, QueueUntouched
  <2>3. ACall' = ACall /\ AReturned' = AReturned
    BY <2>1 DEF ACall, AReturned
  <2> QED BY <2>1, <2>2, <2>3, AbstractStutter
<1>2. ASSUME NEW t \in LockedThread, Locked!access(t) PROVE UNCHANGED Locked!Queue!vars
  <2>1. /\ UNCHANGED <<l_full, l_empty, l_call, l_returned>>
        /\ l_pc[t] = "access" /\ l_pc' = [l_pc EXCEPT ![t] = "notify"] /\ l_pc'[t] = "notify"
        /\ \A u \in LockedThread : u # t => l_value'[u] = l_value[u]
    BY <1>2, <1>a DEF Locked!access
  <2>2. \A u \in LockedThread : Locked!Over(u)' <=> Locked!Over(u)
    BY <1>a, <2>1 DEF Locked!Over
  <2>3. ~Locked!Over(t)
    BY <2>1 DEF Locked!Over
  <2>4. ACall' = ACall /\ AReturned' = AReturned
    BY <2>1, <2>2, <2>3 DEF ACall, AReturned
  <2>5. l_pc[t] \in Owning \ {"notify"} /\ ~Blocked(t)
    BY <1>a, <2>1 DEF Owning, Knows
  <2>6. AQueue = l_queue
    BY <1>0, <2>5, AbstractQueue DEF QueueIs
  <2>7. AQueue' = IF l_call[t].op = "put" THEN SubSeq(l_queue', 1, Len(l_queue') - 1)
                  ELSE <<l_value'[t]>> \o l_queue'
    BY <1>0, <2>1, AbstractQueueNext DEF QueueIs
  <2>8. CASE l_call[t].op = "put"
    <3>1. l_queue' = Locked!Queue!push_back(l_queue, l_call[t].value)
      BY <1>2, <2>8 DEF Locked!access
    <3>2. Len(l_queue) < Capacity /\ l_call[t].value \in Value
      BY <1>a, <1>b, <2>5, <2>8 DEF Blocked
    <3>3. Len(l_queue') = Len(l_queue) + 1 /\ SubSeq(l_queue', 1, Len(l_queue)) = l_queue
      BY <1>a, <3>1, <3>2, LockedPush
    <3>4. Len(l_queue') - 1 = Len(l_queue)
      BY <1>a, <3>3
    <3> QED BY <2>1, <2>4, <2>6, <2>7, <2>8, <3>3, <3>4, AbstractStutter
  <2>9. CASE l_call[t].op = "get"
    <3>1. l_value'[t] = Head(l_queue) /\ l_queue' = Tail(l_queue)
      BY <1>2, <1>a, <2>9 DEF Locked!access
    <3>2. l_queue # <<>>
      BY <2>5, <2>9 DEF Blocked
    <3>3. <<Head(l_queue)>> \o Tail(l_queue) = l_queue
      BY <1>a, <3>2
    <3> QED BY <2>1, <2>4, <2>6, <2>7, <2>9, <3>1, <3>3, AbstractStutter
  <2> QED BY <1>b, <2>5, <2>8, <2>9
<1>3. ASSUME NEW t \in LockedThread, Locked!Unlock(t) PROVE UNCHANGED Locked!Queue!vars
  <2>1. /\ l_queue' = l_queue /\ l_full' = l_full /\ l_empty' = l_empty
        /\ l_pc[t] = "unlock" /\ l_pc' = [l_pc EXCEPT ![t] = "outside"]
        /\ l_call' = [l_call EXCEPT ![t] = Locked!Idle]
        /\ l_returned' = [l_returned EXCEPT ![t] = l_value[t]]
        /\ l_value' = [l_value EXCEPT ![t] = NoValue]
    BY <1>3 DEF Locked!Unlock
  <2>2. l_pc[t] \in Owning \ {"notify"}
    BY <2>1 DEF Owning
  <2>3. \A u \in LockedThread : l_pc'[u] # "notify"
    <3>1. \A u \in LockedThread : l_pc[u] \in Owning => u = t
      BY <1>a, <2>2 DEF LockInv
    <3> QED BY <1>a, <2>1, <3>1 DEF Owning
  <2>4. AQueue = l_queue /\ AQueue' = l_queue'
    BY <1>0, <2>2, <2>3, AbstractQueue, AbstractQueueNext DEF QueueIs
  <2>5. Locked!Over(t) /\ ~Locked!Over(t)' /\ \A u \in LockedThread : u # t => (Locked!Over(u)' <=> Locked!Over(u))
    BY <1>a, <2>1 DEF Locked!Over
  <2>6. /\ l_call'[t] = Locked!Idle /\ l_returned'[t] = l_value[t]
        /\ \A u \in LockedThread : u # t => /\ l_call'[u] = l_call[u] /\ l_value'[u] = l_value[u]
                                            /\ l_returned'[u] = l_returned[u]
    BY <1>a, <2>1
  <2>7. ACall' = ACall
    BY <2>5, <2>6 DEF ACall
  <2>8. AReturned' = AReturned
    BY <2>5, <2>6 DEF AReturned
  <2>9. Locked!Idle' = Locked!Idle
    BY DEF Locked!Idle
  <2> QED BY <2>1, <2>4, <2>7, <2>8, AbstractStutter
<1>4. ASSUME NEW t \in LockedThread, Locked!Call(t) PROVE Locked!Queue!Call(t)
  <2>1. PICK c \in Calls \ {Idle} : l_call' = [l_call EXCEPT ![t] = c]
    BY <1>4, LockedCalls DEF Locked!Call
  <2>2. /\ l_pc[t] = "outside" /\ l_pc' = [l_pc EXCEPT ![t] = "lock"]
        /\ l_returned' = [l_returned EXCEPT ![t] = NoValue]
        /\ UNCHANGED <<l_queue, l_full, l_empty, l_value>>
    BY <1>4 DEF Locked!Call
  <2>3. \A u \in LockedThread : l_pc'[u] = "notify" <=> l_pc[u] = "notify"
    BY <1>a, <2>2
  <2>4. AQueue' = AQueue
    <3>1. CASE \E u \in LockedThread : l_pc[u] = "notify"
      <4>1. PICK u \in LockedThread : l_pc[u] = "notify"
        BY <3>1
      <4>2. u # t /\ l_pc'[u] = "notify" /\ l_call'[u] = l_call[u]
        BY <1>a, <2>1, <2>2, <2>3, <4>1
      <4>3. AQueue = IF l_call[u].op = "put" THEN SubSeq(l_queue, 1, Len(l_queue) - 1)
                     ELSE <<l_value[u]>> \o l_queue
        BY <1>0, <4>1, AbstractQueue, Zenon DEF QueueIs
      <4>4. AQueue' = IF l_call'[u].op = "put" THEN SubSeq(l_queue', 1, Len(l_queue') - 1)
                      ELSE <<l_value'[u]>> \o l_queue'
        BY <1>0, <4>1, <4>2, AbstractQueueNext, Zenon DEF QueueIs
      <4>5. l_queue' = l_queue /\ l_value'[u] = l_value[u]
        BY <2>2
      <4> QED BY <4>2, <4>3, <4>4, <4>5, Zenon
    <3>2. CASE \A u \in LockedThread : l_pc[u] # "notify"
      BY <1>0, <2>2, <2>3, <3>2, AbstractQueue, AbstractQueueNext DEF QueueIs
    <3> QED BY <3>1, <3>2
  <2>5. /\ \A u \in LockedThread : Locked!Over(u)' <=> Locked!Over(u)
        /\ ~Locked!Over(t)
    BY <1>a, <2>2 DEF Locked!Over
  <2>6. ACall[t] = Idle /\ ACall' = [ACall EXCEPT ![t] = c]
    BY <1>a, <2>1, <2>2, <2>5 DEF ACall, LockInv
  <2>7. AReturned' = [AReturned EXCEPT ![t] = NoValue]
    BY <1>a, <2>2, <2>5 DEF AReturned
  <2> QED BY <2>2, <2>4, <2>6, <2>7, AbstractActions
<1>5. ASSUME NEW t \in LockedThread, Locked!wait(t)
      PROVE  Locked!Queue!PutWait(t) \/ Locked!Queue!GetWait(t)
  <2>1. /\ l_pc[t] = "wait" /\ l_pc' = [l_pc EXCEPT ![t] = "asleep"]
        /\ UNCHANGED <<l_queue, l_call, l_returned, l_value>>
    BY <1>5 DEF Locked!wait
  <2>2. l_pc[t] \in Owning \ {"notify"} /\ Blocked(t)
    BY <1>a, <2>1 DEF Owning, Knows
  <2>3. \A u \in LockedThread : l_pc'[u] = "notify" <=> l_pc[u] = "notify"
    BY <1>a, <2>1
  <2>4. AQueue = l_queue /\ AQueue' = AQueue
    BY <1>0, <2>1, <2>2, <2>3, AbstractQueue, QueueUntouched DEF QueueIs
  <2>5. (\A u \in LockedThread : Locked!Over(u)' <=> Locked!Over(u)) /\ ~Locked!Over(t)
    BY <1>a, <2>1 DEF Locked!Over
  <2>6. ACall' = ACall /\ AReturned' = AReturned /\ ACall[t] = l_call[t]
    BY <2>1, <2>5 DEF ACall, AReturned
  <2>7. t \notin l_full \cup l_empty
    BY <1>a, <2>1 DEF LockInv
  <2>8. CASE l_call[t].op = "put"
    <3>1. l_full' = l_full \cup {t} /\ l_empty' = l_empty /\ Len(AQueue) >= Capacity
      BY <1>5, <2>2, <2>4, <2>8 DEF Locked!wait, Blocked
    <3> QED BY <2>4, <2>6, <2>7, <2>8, <3>1, AbstractActions DEF ARunning
  <2>9. CASE l_call[t].op = "get"
    <3>1. l_empty' = l_empty \cup {t} /\ l_full' = l_full /\ AQueue = <<>>
      BY <1>5, <2>2, <2>4, <2>9 DEF Locked!wait, Blocked
    <3> QED BY <2>4, <2>6, <2>7, <2>9, <3>1, AbstractActions DEF ARunning
  <2> QED BY <1>b, <2>2, <2>8, <2>9
<1>6. ASSUME NEW t \in LockedThread, Locked!notify(t)
      PROVE  Locked!Queue!Put(t) \/ Locked!Queue!Get(t)
  <2>1. /\ UNCHANGED <<l_queue, l_call, l_returned, l_value>>
        /\ l_pc[t] = "notify" /\ l_pc'[t] = "unassgin"
        /\ \A u \in LockedThread : u # t =>
               l_pc'[u] = l_pc[u] \/ (l_pc[u] = "asleep" /\ l_pc'[u] = "lock")
    BY <1>a, <1>6 DEF Locked!notify, Locked!Wake, LockInv
  <2>2. l_pc[t] \in Owning /\ l_pc'[t] \in Owning \ {"notify"} /\ Knows(t)
    BY <1>a, <2>1 DEF Owning
  <2>3. AQueue' = l_queue
    BY <1>0, <2>1, <2>2, AbstractQueueNext DEF QueueIs
  <2>4. /\ ~Locked!Over(t) /\ Locked!Over(t)'
        /\ \A u \in LockedThread : u # t => (Locked!Over(u)' <=> Locked!Over(u))
    BY <2>1 DEF Locked!Over
  <2>5. ACall[t] = l_call[t] /\ ACall' = [ACall EXCEPT ![t] = Idle]
    BY <2>1, <2>4, LockedCalls DEF ACall
  <2>6. AReturned' = [AReturned EXCEPT ![t] = l_value[t]] /\ AReturned[t] = NoValue
    BY <2>1, <2>2, <2>4 DEF AReturned, Knows
  <2>7. t \notin l_full \cup l_empty
    BY <1>a, <2>1 DEF LockInv
  <2>8. CASE l_call[t].op = "put"
    <3> DEFINE q == SubSeq(l_queue, 1, Len(l_queue) - 1)
               v == l_call[t].value
    <3>1. AQueue = q
      BY <1>0, <2>1, <2>8, AbstractQueue DEF QueueIs
    <3>2. Len(l_queue) > 0 /\ l_queue[Len(l_queue)] = v /\ l_value[t] = NoValue
      BY <2>1, <2>2, <2>8 DEF Knows
    <3>3. v \in Value
      BY <1>b, <2>8
    <3> HIDE DEF v
    <3>4. /\ q \in Seq(Value) /\ Len(q) = Len(l_queue) - 1
          /\ \A i \in 1..(Len(l_queue) - 1) : q[i] = l_queue[i]
      <4> DEFINE n == Len(l_queue)
      <4>1. n \in Nat /\ n > 0
        BY <1>a, <3>2
      <4>2. \A i \in 1..n : l_queue[i] \in Value
        BY <1>a
      <4> HIDE DEF n
      <4>3. SubSeq(l_queue, 1, n - 1) = [i \in 1..(n - 1) |-> l_queue[i]]
        BY <4>1
      <4>4. [i \in 1..(n - 1) |-> l_queue[i]] \in [1..(n - 1) -> Value] /\ n - 1 \in Nat
        BY <4>1, <4>2
      <4>5. [i \in 1..(n - 1) |-> l_queue[i]] \in Seq(Value)
        BY <4>4
      <4>6. LET r == SubSeq(l_queue, 1, n - 1)
            IN  r \in Seq(Value) /\ Len(r) = n - 1 /\ \A i \in 1..(n - 1) : r[i] = l_queue[i]
        BY <4>1, <4>3, <4>4, <4>5
      <4> QED BY <4>6, Zenon DEF n
    <3> HIDE DEF q
    <3>5. Append(q, v) = l_queue
      <4>1. Append(q, v) \in Seq(Value) /\ Len(Append(q, v)) = Len(l_queue)
        BY <1>a, <3>2, <3>3, <3>4
      <4>2. ASSUME NEW i \in 1..Len(l_queue) PROVE Append(q, v)[i] = l_queue[i]
        BY <1>a, <3>2, <3>3, <3>4, <4>2
      <4> QED BY <1>a, <4>1, <4>2, SeqEqual
    <3>6. Len(q) < Capacity
      BY <1>a, <3>4
    <3>7. AQueue' = Locked!Queue!push_back(AQueue, ACall[t].value) /\ ~(Len(AQueue) >= Capacity)
      <4>1. Locked!Queue!push_back(q, v) = Append(q, v)
        BY <3>3, <3>4, <3>6, LockedPush
      <4>2. ~(Len(q) >= Capacity)
        BY <1>a, <3>4, <3>6
      <4> QED BY <2>3, <2>5, <3>1, <3>5, <4>1, <4>2, Zenon DEF v
    <3>8. AReturned' = AReturned
      BY <2>6, <3>2 DEF AReturned
    <3>9. l_empty' \in Locked!Queue!AfterNotify(l_empty) /\ l_full' = l_full
      BY <1>6, <2>8 DEF Locked!notify
    <3> QED BY <2>5, <2>7, <2>8, <3>7, <3>8, <3>9, AbstractActions, Zenon DEF ARunning
  <2>9. CASE l_call[t].op = "get"
    <3>1. AQueue = <<l_value[t]>> \o l_queue
      BY <1>0, <2>1, <2>9, AbstractQueue DEF QueueIs
    <3>2. l_value[t] \in Value
      BY <2>1, <2>2, <2>9 DEF Knows
    <3>3. /\ <<l_value[t]>> \o l_queue # <<>> /\ Head(<<l_value[t]>> \o l_queue) = l_value[t]
          /\ Tail(<<l_value[t]>> \o l_queue) = l_queue
      <4> DEFINE v == l_value[t]
                 r == <<v>> \o l_queue
      <4>1. v \in Value
        BY <3>2
      <4> HIDE DEF v
      <4>2. r \in Seq(Value) /\ Len(r) = Len(l_queue) + 1 /\ r[1] = v
        BY <1>a, <4>1
      <4>3. r # <<>> /\ Head(r) = v
        BY <1>a, <4>2
      <4>4. Tail(r) = l_queue
        BY <1>a, <4>1
      <4> QED BY <4>3, <4>4 DEF v
    <3>4. l_full' \in Locked!Queue!AfterNotify(l_full) /\ l_empty' = l_empty
      BY <1>6, <2>9 DEF Locked!notify
    <3> QED BY <2>3, <2>5, <2>6, <2>7, <2>9, <3>1, <3>3, <3>4, AbstractActions, Zenon DEF ARunning
  <2> QED BY <1>b, <2>2, <2>8, <2>9
<1>7. ASSUME NEW t \in LockedThread, Locked!SpuriousWakeup(t)
      PROVE  Locked!Queue!SpuriousWakeup(t)
  <2>1. /\ l_pc[t] = "asleep" /\ l_pc' = [l_pc EXCEPT ![t] = "lock"]
        /\ UNCHANGED <<l_queue, l_call, l_returned, l_value>>
        /\ l_full' = l_full \ {t} /\ l_empty' = l_empty \ {t}
    BY <1>7 DEF Locked!SpuriousWakeup
  <2>2. t \in l_full \cup l_empty
    <3>1. l_call[t] # Idle /\ l_call[t] \in Calls
      BY <1>a, <2>1 DEF LockInv
    <3>2. l_call[t].op \in {"put", "get"}
      BY <3>1, CallOps
    <3> QED BY <1>a, <2>1, <3>2 DEF LockInv
  <2>3. /\ \A u \in LockedThread : l_pc'[u] = "notify" <=> l_pc[u] = "notify"
        /\ \A u \in LockedThread : Locked!Over(u)' <=> Locked!Over(u)
    BY <1>a, <2>1 DEF Locked!Over
  <2>4. AQueue' = AQueue
    BY <1>0, <2>1, <2>3, QueueUntouched
  <2>5. ACall' = ACall /\ AReturned' = AReturned
    BY <2>1, <2>3 DEF ACall, AReturned
  <2> QED BY <2>1, <2>2, <2>4, <2>5, AbstractActions
<1>8. CASE UNCHANGED lockedVars
  BY <1>8 DEF lockedVars, Locked!Queue!vars, Locked!atomicQueue, Locked!Accessing, Locked!Over
<1> QED BY <1>1, <1>2, <1>3, <1>4, <1>5, <1>6, <1>7, <1>8
        DEF Locked!Next, Locked!Inside, Locked!Queue!Next, Locked!Queue!Step

\* What put and get do lock by lock, Mutex.h and Condition.h included, is a
\* behaviour of the queue whose critical sections are single steps, for every
\* set of threads and values and every capacity.
THEOREM CriticalSectionsAreAtomic == QueuesSpec => AtomicSafeSpec
<1>1. QueuesInit => QueueInv
  <2>1. Idle \in Calls /\ Idle.op = "idle"
    BY DEF Calls, Idle
  <2>2. QueuesInit => LockInv
    BY <2>1, LockedAssumption, LockedCalls
       DEF QueuesInit, Locked!Init, LockInv, Owning, Holding, Labels
  <2>3. QueuesInit => /\ l_queue = <<>> /\ l_returned = [t \in LockedThread |-> NoValue]
                      /\ l_value = [t \in LockedThread |-> NoValue]
                      /\ l_pc = [t \in LockedThread |-> "outside"]
    BY DEF QueuesInit, Locked!Init
  <2> QED BY <2>2, <2>3, CapacityAssumption, EmptySeq DEF QueueInv, Knows
<1>2. QueuesInit => Locked!Queue!Init
  BY LockedCalls DEF QueuesInit, Locked!Init, Locked!Queue!Init, Locked!atomicQueue,
                     Locked!Accessing, Locked!Over
<1>3. [QueuesNext]_<<part, vars, lockedVars>> => [Locked!Next]_lockedVars
  BY DEF QueuesNext
<1>4. QueueInv /\ [Locked!Next]_lockedVars => QueueInv' /\ [Locked!Queue!Next]_(Locked!Queue!vars)
  BY QueueStep, Refines
<1> QED BY <1>1, <1>2, <1>3, <1>4, PTL DEF QueuesSpec, AtomicSafeSpec, Locked!Queue!SafeSpec

-----------------------------------------------------------------------------
(* The mutex and its condition variable by themselves, with timed waits and *)
(* broadcasts, which the queue does not use.                                *)

VARIABLES mutex_lock, mutex_holder, mutex_cond, mutex_pc

Mutex == INSTANCE Monitor WITH m_lock <- mutex_lock, m_holder <- mutex_holder,
                               m_cond <- mutex_cond, pc <- mutex_pc

\* Waking threads touches neither the mutex nor m_holder, and only sleepers.
LEMMA WakeKeepsInv ==
    ASSUME Mutex!Inv, NEW ws \in SUBSET mutex_cond, Mutex!Wake(ws)
    PROVE  Mutex!Inv'
BY DEF Mutex!Inv, Mutex!TypeOK, Mutex!Labels, Mutex!Owning, Mutex!Wake

LEMMA MutexInvHolds ==
    ASSUME NoThread \notin Thread
    PROVE  Mutex!Spec => []Mutex!Inv
<1>1. Mutex!Init => Mutex!Inv
  BY DEF Mutex!Init, Mutex!Inv, Mutex!TypeOK, Mutex!Labels, Mutex!Owning
<1>2. Mutex!Inv /\ [Mutex!Next]_(Mutex!vars) => Mutex!Inv'
  <2> SUFFICES ASSUME Mutex!Inv, [Mutex!Next]_(Mutex!vars) PROVE Mutex!Inv'
      OBVIOUS
  <2> USE DEF Mutex!Inv, Mutex!TypeOK, Mutex!Labels, Mutex!Owning, Mutex!Goto
  <2>1. ASSUME NEW t \in Thread, Mutex!Lock(t) PROVE Mutex!Inv'
    BY <2>1 DEF Mutex!Lock
  <2>2. ASSUME NEW t \in Thread, Mutex!assign(t) PROVE Mutex!Inv'
    BY <2>2 DEF Mutex!assign
  <2>3. ASSUME NEW t \in Thread, Mutex!unassgin(t) PROVE Mutex!Inv'
    BY <2>3 DEF Mutex!unassgin
  <2>4. ASSUME NEW t \in Thread, Mutex!Unlock(t) PROVE Mutex!Inv'
    BY <2>4 DEF Mutex!Unlock
  <2>5. ASSUME NEW t \in Thread, Mutex!Wait(t) PROVE Mutex!Inv'
    BY <2>5 DEF Mutex!Wait
  <2>6. ASSUME NEW t \in Thread, Mutex!notify(t) PROVE Mutex!Inv'
    <3>1. PICK ws \in Mutex!AfterNotify(mutex_cond) : Mutex!Wake(ws)
      BY <2>6 DEF Mutex!notify
    <3>2. ws \in SUBSET mutex_cond
      BY <3>1 DEF Mutex!AfterNotify
    <3> QED BY <3>1, <3>2, WakeKeepsInv
  <2>7. ASSUME NEW t \in Thread, Mutex!notifyAll(t) PROVE Mutex!Inv'
    BY <2>7, WakeKeepsInv DEF Mutex!notifyAll
  <2>8. ASSUME NEW t \in Thread, Mutex!SpuriousWakeup(t) PROVE Mutex!Inv'
    <3>1. mutex_cond \ {t} \in SUBSET mutex_cond /\ Mutex!Wake(mutex_cond \ {t})
      BY <2>8 DEF Mutex!SpuriousWakeup
    <3> QED BY <3>1, WakeKeepsInv
  <2>9. ASSUME NEW t \in Thread, Mutex!Timeout(t) PROVE Mutex!Inv'
    <3>1. mutex_cond \ {t} \in SUBSET mutex_cond /\ Mutex!Wake(mutex_cond \ {t})
      BY <2>9 DEF Mutex!Timeout
    <3> QED BY <3>1, WakeKeepsInv
  <2>10. CASE UNCHANGED Mutex!vars
    BY <2>10 DEF Mutex!vars
  <2> QED BY <2>1, <2>2, <2>3, <2>4, <2>5, <2>6, <2>7, <2>8, <2>9, <2>10 DEF Mutex!Next
<1> QED BY <1>1, <1>2, PTL DEF Mutex!Spec

\* A thread between lock and unlock, or back from a wait, is the only one and
\* is the one m_holder names, for every set of threads.
THEOREM HolderIsAlwaysInside ==
    ASSUME NoThread \notin Thread
    PROVE  Mutex!Spec => []Mutex!HolderIsInside
<1>1. Mutex!Inv => Mutex!HolderIsInside
  BY DEF Mutex!Inv, Mutex!HolderIsInside, Mutex!Owning
<1> QED BY <1>1, MutexInvHolds, PTL

\* The assertion of ~MutexLock holds whenever nobody owns the mutex, threads
\* asleep in wait or waitForSeconds included.
THEOREM FreeMutexNeverHeld ==
    ASSUME NoThread \notin Thread
    PROVE  Mutex!Spec => []Mutex!FreeMutexHasNoHolder
<1>1. Mutex!Inv => Mutex!FreeMutexHasNoHolder
  BY DEF Mutex!Inv, Mutex!TypeOK, Mutex!FreeMutexHasNoHolder, Mutex!Owning
<1> QED BY <1>1, MutexInvHolds, PTL
=============================================================================
