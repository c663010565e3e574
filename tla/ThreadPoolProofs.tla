-------------------------- MODULE ThreadPoolProofs --------------------------
(***************************************************************************)
(* Proofs about ThreadPool for every number of pool threads, every finite  *)
(* set of callers, every set of tasks and every size of the deque, the     *)
(* size 0 that m_maxQueueSize may happen to hold included.                 *)
(***************************************************************************)
EXTENDS ThreadPool, FiniteSetTheorems, SequenceTheorems, TLAPS

\* A signal leaves the wait set as it is or one waiter smaller, and smaller
\* whenever somebody waits.
LEMMA NotifyLeaves ==
    ASSUME NEW ws, NEW rest \in AfterNotify(ws)
    PROVE  /\ rest \subseteq ws
           /\ ws = {} => rest = {}
           /\ ws # {} => \E w \in ws : rest = ws \ {w}
BY DEF AfterNotify

LEMMA InitInv == Init => Inv
<1> SUFFICES ASSUME Init PROVE Inv
    OBVIOUS
<1>1. <<>> \in Seq(Task) /\ Len(<<>>) = 0
  BY EmptySeq
<1>2. pc \in [Thread -> Labels] /\ hand \in [Thread -> Task \cup {NoTask}]
  BY DEF Init, Labels
<1>3. m_threads \in 0..N /\ joined \in 0..m_threads /\ m_maxQueueSize \in Nat
  BY NAssumption, SizeAssumption DEF Init
<1>4. /\ m_tasks \in Seq(Task) /\ accepted \in Seq(Task)
      /\ taken \in Seq(Task) /\ executed \in Seq(Task)
  BY <1>1 DEF Init
<1>5. /\ m_brunning \in BOOLEAN /\ owner \in OwnerLabels
      /\ discarded \subseteq Task /\ unsignalled \in Nat
  BY DEF Init, OwnerLabels
<1>6. m_notFull = {} /\ m_notEmpty = {}
  BY DEF Init
<1>7. TypeOK
  BY <1>2, <1>3, <1>4, <1>5, <1>6 DEF TypeOK
<1> QED BY <1>7, NAssumption DEF Init, Inv, Thread, Worker

\* What a call of run() that returns leaves behind.
LEMMA ReturnKeepsTypes ==
    ASSUME TypeOK, NEW t \in Thread, ReturnFromRun(t)
    PROVE  /\ pc' \in [Thread -> Labels] /\ hand' \in [Thread -> Task \cup {NoTask}]
           /\ pc'[t] \in {"loop", "idle"}
           /\ \A u \in Thread : u # t => pc'[u] = pc[u] /\ hand'[u] = hand[u]
           /\ t \in Worker \/ pc'[t] = "idle"
BY DEF TypeOK, ReturnFromRun, Goto, Labels, Alive

LEMMA NextInv == Inv /\ [Next]_vars => Inv'
<1> SUFFICES ASSUME Inv, [Next]_vars PROVE Inv'
    OBVIOUS
<1> USE NAssumption DEF Inv, TypeOK, Worker
<1>0. Worker \subseteq Thread
  BY DEF Thread
<1>1. CASE setMaxQueueSize
  <2>1. m_maxQueueSize' \in Nat /\ unsignalled' \in Nat
    BY <1>1, SizeAssumption DEF setMaxQueueSize
  <2> QED BY <1>1, <2>1 DEF setMaxQueueSize, condVars, ownerVars, threadVars
<1>2. CASE start
  BY <1>2 DEF start, condVars, threadVars, historyVars, OwnerLabels
<1>3. CASE stop
  BY <1>3 DEF stop, AfterNotifyAll, threadVars, historyVars, OwnerLabels
<1>4. CASE startThread
  <2>1. m_threads' \in Worker /\ m_threads' \in Thread /\ pc[m_threads'] = "unborn"
    BY <1>0, <1>4 DEF startThread
  <2>2. \A t \in Thread : t # m_threads' => pc'[t] = pc[t]
    BY <1>4 DEF startThread, Goto
  <2>3. pc'[m_threads'] \in {"loop", "failed"} /\ pc' \in [Thread -> Labels]
    BY <1>4, <2>1 DEF startThread, Goto, Labels, Alive
  <2> QED BY <1>0, <1>4, <2>1, <2>2, <2>3
          DEF startThread, condVars, historyVars, OwnerLabels
<1>5. CASE join
  BY <1>5 DEF join, poolVars, condVars, threadVars, historyVars, OwnerLabels
<1>6. ASSUME NEW t \in Thread, callRun(t) PROVE Inv'
  <2>1. pc[t] \in {"idle", "exec"} /\ pc'[t] = "run" /\ hand'[t] \in Task
    BY <1>6 DEF callRun, At, Goto, Fresh
  <2>2. \A u \in Thread : u # t => pc'[u] = pc[u] /\ hand'[u] = hand[u]
    BY <1>6 DEF callRun, Goto
  <2>3. pc' \in [Thread -> Labels] /\ hand' \in [Thread -> Task \cup {NoTask}]
    BY <1>6 DEF callRun, Goto, Fresh, Labels, Alive
  <2> QED BY <1>0, <1>6, <2>1, <2>2, <2>3
          DEF callRun, poolVars, condVars, ownerVars, historyVars
<1>7. ASSUME NEW t \in Thread, testThreads(t) PROVE Inv'
  <2>1. pc[t] = "run" /\ hand[t] \in Task
    BY <1>7 DEF testThreads, At
  <2>2. CASE m_threads = 0
    <3>1. ReturnFromRun(t) /\ discarded' = discarded \cup {hand[t]}
      BY <1>7, <2>2 DEF testThreads
    <3> QED BY <1>0, <1>7, <2>1, <2>2, <3>1, ReturnKeepsTypes
            DEF testThreads, poolVars, condVars, ownerVars
  <2>3. CASE m_threads > 0
    <3>1. pc' = [pc EXCEPT ![t] = "queue"] /\ UNCHANGED <<hand, discarded>>
      BY <1>7, <2>3 DEF testThreads, Goto
    <3>2. /\ pc' \in [Thread -> Labels] /\ pc'[t] = "queue"
          /\ \A u \in Thread : u # t => pc'[u] = pc[u]
      BY <1>0, <3>1 DEF Labels, Alive
    <3> QED BY <1>0, <1>7, <2>1, <2>3, <3>1, <3>2
            DEF testThreads, poolVars, condVars, ownerVars
  <2> QED BY <2>2, <2>3
<1>8. ASSUME NEW t \in Thread, runWait(t) PROVE Inv'
  BY <1>8 DEF runWait, At, poolVars, ownerVars, threadVars
<1>9. ASSUME NEW t \in Thread, runPush(t) PROVE Inv'
  <2>1. pc[t] = "queue" /\ hand[t] \in Task /\ m_threads # 0 /\ t \notin m_notFull
    BY <1>9 DEF runPush, At
  <2>2. m_tasks' \in Seq(Task) /\ accepted' \in Seq(Task)
    BY <1>9, <2>1, AppendProperties DEF runPush, push_back
  <2>3. m_notEmpty' \subseteq m_notEmpty
    BY <1>9, NotifyLeaves DEF runPush
  <2>4. ReturnFromRun(t)
    BY <1>9 DEF runPush
  <2> QED BY <1>0, <1>9, <2>1, <2>2, <2>3, <2>4, ReturnKeepsTypes
          DEF runPush, poolVars, ownerVars
<1>10. ASSUME NEW t \in Thread, SpuriousWakeup(t) PROVE Inv'
  BY <1>10 DEF SpuriousWakeup, poolVars, ownerVars, threadVars, historyVars
<1>11. ASSUME NEW w \in Worker, testRunning(w) PROVE Inv'
  BY <1>0, <1>11 DEF testRunning, At, Goto, poolVars, condVars, ownerVars, historyVars, Labels, Alive
<1>12. ASSUME NEW w \in Worker, getTaskWait(w) PROVE Inv'
  BY <1>12 DEF getTaskWait, At, poolVars, ownerVars, threadVars, historyVars
<1>13. ASSUME NEW w \in Worker, getTask(w) PROVE Inv'
  <2>1. pc[w] = "getTask" /\ w \notin m_notEmpty /\ w \in Thread
    BY <1>0, <1>13 DEF getTask, At
  <2>2. CASE m_tasks # <<>>
    <3>1. Head(m_tasks) \in Task /\ Tail(m_tasks) \in Seq(Task)
      BY <2>2, HeadTailProperties
    <3>2. m_tasks' = Tail(m_tasks) /\ taken' = Append(taken, Head(m_tasks))
      BY <1>13, <2>2 DEF getTask
    <3>5. taken' \in Seq(Task)
      BY <3>1, <3>2, AppendProperties
    <3>3. /\ pc' = [pc EXCEPT ![w] = "call"]
          /\ hand' = [hand EXCEPT ![w] = Head(m_tasks)]
          /\ m_notFull' \subseteq m_notFull
      BY <1>13, <2>2, NotifyLeaves DEF getTask, Goto
    <3>4. m_threads # 0
      BY <2>2
    <3>6. UNCHANGED <<poolVars, m_notEmpty, ownerVars, accepted, executed, discarded, unsignalled>>
      BY <1>13 DEF getTask
    <3>7. TypeOK'
      BY <1>0, <2>1, <2>2, <3>1, <3>2, <3>3, <3>4, <3>5, <3>6
         DEF poolVars, ownerVars, Labels, Alive
    <3> QED BY <1>0, <2>1, <3>1, <3>3, <3>4, <3>6, <3>7 DEF poolVars, ownerVars
  <2>3. CASE m_tasks = <<>>
    BY <1>0, <1>13, <2>1, <2>3 DEF getTask, Goto, poolVars, ownerVars, Labels, Alive
  <2> QED BY <2>2, <2>3
<1>14. ASSUME NEW w \in Worker, taskDone(w) PROVE Inv'
  <2>1. pc[w] = "exec" /\ w \in Thread /\ ReturnFromRun(w)
    BY <1>0, <1>14 DEF taskDone, At
  <2> QED BY <1>0, <1>14, <2>1, ReturnKeepsTypes
          DEF taskDone, poolVars, condVars, ownerVars, historyVars
<1>15. ASSUME NEW w \in Worker, callTask(w) PROVE Inv'
  <2>1. pc[w] = "call" /\ w \in Thread /\ hand[w] \in Task
    BY <1>0, <1>15 DEF callTask, At
  <2>2. executed' \in Seq(Task)
    BY <1>15, <2>1, AppendProperties DEF callTask
  <2> QED BY <1>0, <1>15, <2>1, <2>2
          DEF callTask, Goto, poolVars, condVars, ownerVars, Labels, Alive
<1>16. CASE UNCHANGED vars
  BY <1>16 DEF vars, poolVars, condVars, ownerVars, threadVars, historyVars
<1> QED BY <1>1, <1>2, <1>3, <1>4, <1>5, <1>6, <1>7, <1>8, <1>9, <1>10, <1>11, <1>12,
           <1>13, <1>14, <1>15, <1>16 DEF Next, OwnerStep, RunStep, WorkerStep

LEMMA InvHolds == SafeSpec => []Inv
BY InitInv, NextInv, PTL DEF SafeSpec

-----------------------------------------------------------------------------
\* stop leaves nobody asleep in getTask, and a pool thread that had read
\* m_brunning before does not fall asleep there afterwards, for every number of
\* threads and wherever each of them was.
THEOREM StopLeavesNoSleeper == SafeSpec => []StopWakesAll
<1>1. Init => StopWakesAll
  BY DEF Init, StopWakesAll
<1>2. Inv /\ StopWakesAll /\ [Next]_vars => StopWakesAll'
  <2> SUFFICES ASSUME Inv, StopWakesAll, [Next]_vars,
                      owner' \in {"stopping", "stopped"}
               PROVE  m_notEmpty' = {}
      BY DEF StopWakesAll
  <2>1. CASE stop
    BY <2>1 DEF stop, AfterNotifyAll
  <2>2. CASE start \/ startThread
    BY <2>2 DEF start, startThread
  <2>3. CASE setMaxQueueSize \/ join
    BY <2>3 DEF setMaxQueueSize, join, StopWakesAll, condVars, ownerVars
  <2>4. ASSUME NEW t \in Thread, callRun(t) \/ testThreads(t) \/ runWait(t)
        PROVE  m_notEmpty' = {}
    BY <2>4 DEF callRun, testThreads, runWait, StopWakesAll, condVars, ownerVars
  <2>5. ASSUME NEW t \in Thread, runPush(t) PROVE m_notEmpty' = {}
    BY <2>5, NotifyLeaves DEF runPush, StopWakesAll, ownerVars
  <2>6. ASSUME NEW t \in Thread, SpuriousWakeup(t) PROVE m_notEmpty' = {}
    BY <2>6 DEF SpuriousWakeup, StopWakesAll, ownerVars
  <2>7. ASSUME NEW w \in Worker, getTaskWait(w) PROVE m_notEmpty' = {}
    \* Nobody waits: m_brunning is no longer set.
    BY <2>7 DEF getTaskWait, Inv, ownerVars
  <2>8. ASSUME NEW w \in Worker, testRunning(w) \/ getTask(w) \/ callTask(w) \/ taskDone(w)
        PROVE  m_notEmpty' = {}
    BY <2>8 DEF testRunning, getTask, callTask, taskDone, StopWakesAll, condVars, ownerVars
  <2>9. CASE UNCHANGED vars
    BY <2>9 DEF vars, StopWakesAll, condVars, ownerVars
  <2> QED BY <2>1, <2>2, <2>3, <2>4, <2>5, <2>6, <2>7, <2>8, <2>9
          DEF Next, OwnerStep, RunStep, WorkerStep
<1> QED BY <1>1, <1>2, InvHolds, PTL DEF SafeSpec

-----------------------------------------------------------------------------
\* A sequence with one more element at its end.
LEMMA OneMore ==
    ASSUME NEW s \in Seq(Task), NEW k \in Task
    PROVE  /\ Range(Append(s, k)) = Range(s) \cup {k}
           /\ IsInjective(s) /\ k \notin Range(s) => IsInjective(Append(s, k))
<1>1. /\ DOMAIN Append(s, k) = 1..(Len(s) + 1) /\ DOMAIN s = 1..Len(s) /\ Len(s) \in Nat
      /\ \A i \in 1..Len(s) : Append(s, k)[i] = s[i]
      /\ Append(s, k)[Len(s) + 1] = k
  BY AppendProperties, LenProperties
<1>2. Range(Append(s, k)) = Range(s) \cup {k}
  BY <1>1 DEF Range
<1>3. ASSUME IsInjective(s), k \notin Range(s) PROVE IsInjective(Append(s, k))
  BY <1>1, <1>3 DEF Range, IsInjective
<1> QED BY <1>2, <1>3

\* Where a sequence without repetitions is cut, the first element behind the
\* cut does not occur before it.
LEMMA HeadIsNew ==
    ASSUME NEW s \in Seq(Task), NEW q \in Seq(Task), q # <<>>, IsInjective(s \o q)
    PROVE  Head(q) \notin Range(s)
<1>1. Len(s) \in Nat /\ Len(q) \in Nat /\ Len(q) # 0 /\ DOMAIN s = 1..Len(s)
  BY LenProperties, EmptySeq
<1>2. /\ DOMAIN (s \o q) = 1..(Len(s) + Len(q))
      /\ (s \o q)[Len(s) + 1] = Head(q)
      /\ \A i \in 1..Len(s) : (s \o q)[i] = s[i]
  BY <1>1, ConcatProperties
<1>3. ASSUME NEW i \in 1..Len(s), s[i] = Head(q) PROVE FALSE
  <2>1. i \in DOMAIN (s \o q) /\ Len(s) + 1 \in DOMAIN (s \o q) /\ i # Len(s) + 1
    BY <1>1, <1>2
  <2> QED BY <1>2, <1>3, <2>1 DEF IsInjective
<1> QED BY <1>1, <1>3 DEF Range

LEMMA NextApart == Inv /\ TasksApart /\ [Next]_vars => TasksApart'
<1> SUFFICES ASSUME Inv, TasksApart, [Next]_vars PROVE TasksApart'
    OBVIOUS
<1>0. TypeOK /\ Worker \subseteq Thread
  BY DEF Inv, Thread
\* Whoever leaves run, or was never in it, takes nothing from the others.
<1>1. ASSUME accepted' = accepted, Submitting' \subseteq Submitting,
             \A t \in Submitting' : hand'[t] = hand[t]
      PROVE  TasksApart'
  BY <1>1 DEF TasksApart
<1>2. ASSUME NEW t \in Thread, callRun(t) PROVE TasksApart'
  <2>1. PICK k \in Fresh : hand' = [hand EXCEPT ![t] = k]
    BY <1>2 DEF callRun
  <2>2. /\ hand'[t] = k /\ k \notin Range(accepted)
        /\ \A u \in Thread : hand[u] # k
        /\ \A u \in Thread : u # t => hand'[u] = hand[u]
    BY <1>0, <2>1 DEF Fresh, Range, TypeOK
  <2>3. Submitting' = Submitting \cup {t} /\ accepted' = accepted
    BY <1>0, <1>2 DEF callRun, Goto, Submitting, historyVars, TypeOK
  <2>4. Submitting \subseteq Thread
    BY DEF Submitting
  <2> QED BY <2>2, <2>3, <2>4 DEF TasksApart
<1>3. ASSUME NEW t \in Thread, testThreads(t) PROVE TasksApart'
  <2>1. CASE m_threads = 0
    <3>1. ReturnFromRun(t) /\ accepted' = accepted
      BY <1>3, <2>1 DEF testThreads
    <3> QED BY <1>0, <1>1, <3>1, ReturnKeepsTypes DEF Submitting
  <2>2. CASE m_threads > 0
    BY <1>0, <1>1, <1>3, <2>2 DEF testThreads, At, Goto, Submitting, TypeOK
  <2> QED BY <1>3, <2>1, <2>2 DEF testThreads
<1>4. ASSUME NEW t \in Thread, runPush(t) PROVE TasksApart'
  <2>1. /\ t \in Submitting /\ hand[t] \in Task /\ ReturnFromRun(t)
        /\ accepted' = Append(accepted, hand[t])
    BY <1>4 DEF runPush, At, Submitting, Inv
  <2>2. /\ Submitting' \subseteq Submitting \ {t}
        /\ \A u \in Submitting' : hand'[u] = hand[u]
    BY <1>0, <2>1, ReturnKeepsTypes DEF Submitting
  <2>3. Range(accepted') = Range(accepted) \cup {hand[t]} /\ IsInjective(accepted')
    BY <1>0, <2>1, OneMore DEF TasksApart, TypeOK
  <2> QED BY <2>1, <2>2, <2>3 DEF TasksApart
<1>5. CASE setMaxQueueSize \/ start \/ stop \/ join
  BY <1>1, <1>5 DEF setMaxQueueSize, start, stop, join, Submitting, threadVars, historyVars
<1>6. CASE startThread
  BY <1>0, <1>1, <1>6 DEF startThread, Goto, Submitting, historyVars, TypeOK
<1>7. ASSUME NEW t \in Thread, runWait(t) \/ SpuriousWakeup(t) PROVE TasksApart'
  BY <1>1, <1>7 DEF runWait, SpuriousWakeup, Submitting, threadVars, historyVars
<1>8. ASSUME NEW w \in Worker, testRunning(w) \/ getTaskWait(w) \/ callTask(w)
      PROVE  TasksApart'
  BY <1>0, <1>1, <1>8
     DEF testRunning, getTaskWait, callTask, Goto, Submitting, threadVars, historyVars, TypeOK
<1>9. ASSUME NEW w \in Worker, getTask(w) PROVE TasksApart'
  <2>1. /\ pc'[w] \in {"call", "loop"} /\ accepted' = accepted
        /\ \A u \in Thread : u # w => pc'[u] = pc[u] /\ hand'[u] = hand[u]
    BY <1>0, <1>9 DEF getTask, Goto, TypeOK
  <2> QED BY <1>0, <1>1, <2>1 DEF Submitting
<1>10. ASSUME NEW w \in Worker, taskDone(w) PROVE TasksApart'
  <2>1. ReturnFromRun(w) /\ accepted' = accepted
    BY <1>10 DEF taskDone, historyVars
  <2> QED BY <1>0, <1>1, <2>1, ReturnKeepsTypes DEF Submitting
<1>11. CASE UNCHANGED vars
  BY <1>1, <1>11 DEF vars, Submitting, threadVars, historyVars
<1> QED BY <1>2, <1>3, <1>4, <1>5, <1>6, <1>7, <1>8, <1>9, <1>10, <1>11
        DEF Next, OwnerStep, RunStep, WorkerStep

LEMMA ConcatAppend ==
    ASSUME NEW s \in Seq(Task), NEW t \in Seq(Task), NEW k \in Task
    PROVE  Append(s \o t, k) = s \o Append(t, k)
OBVIOUS

LEMMA NextOnce == Inv /\ TasksApart /\ EachTaskOnce /\ [Next]_vars => EachTaskOnce'
<1> SUFFICES ASSUME Inv, TasksApart, EachTaskOnce, [Next]_vars PROVE EachTaskOnce'
    OBVIOUS
<1>0. /\ TypeOK /\ Worker \subseteq Thread
      /\ taken \in Seq(Task) /\ executed \in Seq(Task) /\ m_tasks \in Seq(Task)
  BY DEF Inv, TypeOK, Thread
\* Nobody takes, calls or queues: what the others hold stays with them.
<1>1. ASSUME UNCHANGED <<taken, executed>>, accepted' = taken \o m_tasks',
             Calling' = Calling, \A w \in Calling : hand'[w] = hand[w]
      PROVE  EachTaskOnce'
  <2>1. Held' = Held
    BY <1>1 DEF Held
  <2> QED BY <1>1, <2>1 DEF EachTaskOnce
<1>2. ASSUME NEW t \in Thread, runPush(t) PROVE EachTaskOnce'
  <2>1. hand[t] \in Task /\ pc[t] = "queue" /\ ReturnFromRun(t)
    BY <1>2 DEF runPush, At, Inv
  <2>2. \A k \in Task : Append(taken \o m_tasks, k) = taken \o Append(m_tasks, k)
    BY <1>0, ConcatAppend
  <2>3. Calling' = Calling /\ \A w \in Calling : hand'[w] = hand[w]
    BY <1>0, <2>1, ReturnKeepsTypes DEF Calling
  <2> QED BY <1>1, <1>2, <2>1, <2>2, <2>3 DEF runPush, push_back, EachTaskOnce
<1>3. ASSUME NEW w \in Worker, getTask(w) PROVE EachTaskOnce'
  <2>1. pc[w] = "getTask" /\ w \in Thread
    BY <1>0, <1>3 DEF getTask, At
  <2>2. CASE m_tasks # <<>>
    <3> DEFINE k == Head(m_tasks)
    <3>1. /\ taken' = Append(taken, k) /\ m_tasks' = Tail(m_tasks) /\ UNCHANGED <<accepted, executed>>
          /\ hand' = [hand EXCEPT ![w] = k] /\ pc' = [pc EXCEPT ![w] = "call"]
      BY <1>3, <2>2 DEF getTask, Goto
    <3>2. k \in Task /\ Append(taken, k) \o Tail(m_tasks) = taken \o m_tasks
      BY <1>0, <2>2
    <3>3. k \notin Range(taken)
      BY <1>0, <2>2, HeadIsNew DEF EachTaskOnce, TasksApart
    <3>4. Range(taken') = Range(taken) \cup {k}
      BY <1>0, <3>1, <3>2, OneMore
    <3>5. /\ Calling' = Calling \cup {w} /\ w \notin Calling
          /\ hand'[w] = k /\ \A v \in Calling : hand'[v] = hand[v]
      BY <1>0, <2>1, <3>1 DEF Calling, TypeOK
    <3>6. Held' = Held \cup {k}
      BY <3>5 DEF Held
    <3>7. \A v \in Calling : hand[v] # k
      BY <3>3 DEF EachTaskOnce, Held
    <3> HIDE DEF k
    <3>8. accepted' = taken' \o m_tasks'
      BY <3>1, <3>2 DEF EachTaskOnce
    <3>9. Range(taken') = Range(executed') \cup Held' /\ Range(executed') \cap Held' = {}
      BY <3>1, <3>3, <3>4, <3>6 DEF EachTaskOnce
    <3>10. \A u, v \in Calling' : hand'[u] = hand'[v] => u = v
      BY <3>5, <3>7 DEF EachTaskOnce
    <3> QED BY <3>1, <3>8, <3>9, <3>10 DEF EachTaskOnce
  <2>3. CASE m_tasks = <<>>
    <3>1. Calling' = Calling
      BY <1>0, <1>3, <2>1, <2>3 DEF getTask, Goto, Calling, TypeOK
    <3> QED BY <1>1, <1>3, <2>3, <3>1 DEF getTask, EachTaskOnce
  <2> QED BY <2>2, <2>3
<1>4. ASSUME NEW w \in Worker, callTask(w) PROVE EachTaskOnce'
  <2>1. /\ w \in Calling /\ hand[w] \in Task /\ hand' = hand
        /\ UNCHANGED <<accepted, taken, m_tasks>>
        /\ executed' = Append(executed, hand[w])
    BY <1>0, <1>4 DEF callTask, At, Calling, Inv
  <2>2. Calling' = Calling \ {w}
    BY <1>0, <1>4 DEF callTask, Goto, Calling, TypeOK
  <2>3. hand[w] \in Held /\ Held' = Held \ {hand[w]}
    BY <2>1, <2>2 DEF Held, EachTaskOnce
  <2>4. hand[w] \notin Range(executed)
    BY <2>3 DEF EachTaskOnce
  <2>5. Range(executed') = Range(executed) \cup {hand[w]} /\ IsInjective(executed')
    BY <1>0, <2>1, <2>4, OneMore DEF EachTaskOnce
  <2> QED BY <2>1, <2>2, <2>3, <2>4, <2>5 DEF EachTaskOnce
<1>5. CASE setMaxQueueSize \/ start \/ stop \/ join
  BY <1>1, <1>5 DEF setMaxQueueSize, start, stop, join, EachTaskOnce, Calling, threadVars, historyVars
<1>6. CASE startThread
  <2>1. m_threads' \in Worker /\ m_threads' \in Thread /\ pc[m_threads'] = "unborn"
    BY <1>0, <1>6, NAssumption DEF startThread, Inv, TypeOK, Worker
  <2>2. Calling' = Calling
    BY <1>0, <1>6, <2>1 DEF startThread, Goto, Calling, TypeOK
  <2> QED BY <1>1, <1>6, <2>2 DEF startThread, EachTaskOnce, historyVars
\* A thread that is neither about to call before nor after its step.
<1>7. ASSUME NEW t \in Thread, pc[t] # "call", pc'[t] # "call",
             \A u \in Thread : u # t => pc'[u] = pc[u] /\ hand'[u] = hand[u],
             UNCHANGED <<accepted, taken, executed, m_tasks>>
      PROVE  EachTaskOnce'
  <2>1. Calling' = Calling /\ \A w \in Calling : hand'[w] = hand[w]
    BY <1>0, <1>7 DEF Calling
  <2> QED BY <1>1, <1>7, <2>1 DEF EachTaskOnce
<1>8. ASSUME NEW t \in Thread, callRun(t) PROVE EachTaskOnce'
  BY <1>0, <1>7, <1>8 DEF callRun, At, Goto, historyVars, TypeOK
<1>9. ASSUME NEW t \in Thread, testThreads(t) PROVE EachTaskOnce'
  <2>1. pc[t] = "run"
    BY <1>9 DEF testThreads, At
  <2>2. CASE m_threads = 0
    BY <1>0, <1>7, <1>9, <2>1, <2>2, ReturnKeepsTypes DEF testThreads
  <2>3. CASE m_threads > 0
    <3>1. pc' = [pc EXCEPT ![t] = "queue"] /\ UNCHANGED <<hand, accepted, taken, executed, m_tasks>>
      BY <1>9, <2>3 DEF testThreads, Goto
    <3> QED BY <1>0, <1>7, <2>1, <3>1 DEF TypeOK
  <2> QED BY <1>9, <2>2, <2>3 DEF testThreads
<1>10. ASSUME NEW t \in Thread, runWait(t) \/ SpuriousWakeup(t) PROVE EachTaskOnce'
  BY <1>1, <1>10 DEF runWait, SpuriousWakeup, EachTaskOnce, Calling, threadVars, historyVars
<1>11. ASSUME NEW w \in Worker, testRunning(w) PROVE EachTaskOnce'
  BY <1>0, <1>7, <1>11 DEF testRunning, At, Goto, historyVars, TypeOK
<1>12. ASSUME NEW w \in Worker, getTaskWait(w) PROVE EachTaskOnce'
  BY <1>1, <1>12 DEF getTaskWait, EachTaskOnce, Calling, threadVars, historyVars
<1>13. ASSUME NEW w \in Worker, taskDone(w) PROVE EachTaskOnce'
  <2>1. pc[w] = "exec" /\ w \in Thread /\ ReturnFromRun(w)
    BY <1>0, <1>13 DEF taskDone, At
  <2> QED BY <1>0, <1>7, <1>13, <2>1, ReturnKeepsTypes DEF taskDone, historyVars
<1>14. CASE UNCHANGED vars
  BY <1>1, <1>14 DEF vars, EachTaskOnce, Calling, threadVars, historyVars
<1> QED BY <1>2, <1>3, <1>4, <1>5, <1>6, <1>8, <1>9, <1>10, <1>11, <1>12, <1>13, <1>14
        DEF Next, OwnerStep, RunStep, WorkerStep

\* Tasks are taken in the order in which they were queued, and each one taken is
\* called once or about to be called by one pool thread, for every number of
\* callers and pool threads, every moment of start and stop and every change of
\* the size of the deque.
THEOREM TasksCalledOnce == SafeSpec => []EachTaskOnce
<1>1. Init => TasksApart /\ EachTaskOnce
  <2> SUFFICES ASSUME Init PROVE TasksApart /\ EachTaskOnce
      OBVIOUS
  <2>1. Submitting = {} /\ Calling = {}
    BY DEF Init, Submitting, Calling, Thread
  <2>2. DOMAIN <<>> = {} /\ <<>> \o <<>> = <<>>
    BY EmptySeq, ConcatEmptySeq
  <2> QED BY <2>1, <2>2 DEF Init, TasksApart, EachTaskOnce, Held, IsInjective, Range
<1> QED BY <1>1, InvHolds, NextApart, NextOnce, PTL DEF SafeSpec

-----------------------------------------------------------------------------
\* Sets of threads are finite and their sizes compare as the sets do.
LEMMA ThreadSets ==
    ASSUME NEW S \in SUBSET Thread
    PROVE  /\ IsFiniteSet(S) /\ Cardinality(S) \in Nat
           /\ S # {} => Cardinality(S) > 0
           /\ \A R \in SUBSET S : Cardinality(R) <= Cardinality(S)
           /\ \A x \in S : Cardinality(S \ {x}) = Cardinality(S) - 1
<1>1. IsFiniteSet(Thread)
  <2>1. IsFiniteSet(1..N)
    BY NAssumption, FS_Interval
  <2>2. IsFiniteSet(Caller)
    BY CallerAssumption
  <2> QED BY <2>1, <2>2, FS_Union DEF Thread, Worker
<1>2. IsFiniteSet(S)
  BY <1>1, FS_Subset
<1>3. Cardinality(S) \in Nat
  BY <1>2, FS_CardinalityType
<1> QED BY <1>2, <1>3, FS_Subset, FS_RemoveElement, FS_EmptySet

\* The threads awake are enough for the places that are not unsignalled, also
\* when the size has changed and the unsignalled places with it.
LEMMA PlacesMade ==
    ASSUME NEW c \in Nat, NEW len \in Nat,
           NEW max \in Nat, NEW uns \in Nat, NEW newMax \in Nat, NEW newUns \in Nat,
           c >= max - len - uns, newUns >= uns + newMax - max
    PROVE  c >= newMax - len - newUns
OBVIOUS

LEMMA NextWakeups == Inv /\ WakeupsSuffice /\ [Next]_vars => WakeupsSuffice'
<1> SUFFICES ASSUME Inv, WakeupsSuffice, [Next]_vars PROVE WakeupsSuffice'
    OBVIOUS
<1>0. TypeOK /\ TypeOK' /\ Worker \subseteq Thread
  BY NextInv DEF Inv, Thread
<1>g. /\ AwakeIn("getTask") \in SUBSET Thread /\ AwakeIn("queue") \in SUBSET Thread
      /\ AwakeIn("getTask")' \in SUBSET Thread /\ AwakeIn("queue")' \in SUBSET Thread
  BY DEF AwakeIn
<1>c. /\ Cardinality(AwakeIn("getTask")) \in Nat /\ Cardinality(AwakeIn("queue")) \in Nat
      /\ Cardinality(AwakeIn("getTask")') \in Nat /\ Cardinality(AwakeIn("queue")') \in Nat
  BY <1>g, ThreadSets
<1>l. /\ Len(m_tasks) \in Nat /\ Len(m_tasks') \in Nat
      /\ unsignalled \in Nat /\ unsignalled' \in Nat
      /\ m_maxQueueSize \in Nat /\ m_maxQueueSize' \in Nat
  BY <1>0, LenProperties DEF TypeOK
\* A step that neither touches the deque nor puts anybody to sleep leaves at
\* least as many threads awake.
<1>m. ASSUME UNCHANGED <<m_tasks, m_maxQueueSize, unsignalled>>,
             m_notEmpty' \subseteq m_notEmpty, m_notFull' \subseteq m_notFull,
             AwakeIn("getTask") \subseteq AwakeIn("getTask")',
             AwakeIn("queue") \subseteq AwakeIn("queue")'
      PROVE  WakeupsSuffice'
  <2>1. /\ Cardinality(AwakeIn("getTask")) <= Cardinality(AwakeIn("getTask")')
        /\ Cardinality(AwakeIn("queue")) <= Cardinality(AwakeIn("queue")')
    BY <1>g, <1>m, ThreadSets
  <2> QED BY <1>c, <1>l, <1>m, <2>1 DEF WakeupsSuffice
\* The places made while threads sleep are the ones that count as unsignalled.
<1>1. CASE setMaxQueueSize
  <2>1. /\ m_notFull' = m_notFull /\ m_notEmpty' = m_notEmpty /\ m_tasks' = m_tasks
        /\ m_notFull # {} => unsignalled' >= unsignalled + m_maxQueueSize' - m_maxQueueSize
    BY <1>1, <1>l DEF setMaxQueueSize, condVars
  <2>2. AwakeIn("getTask")' = AwakeIn("getTask") /\ AwakeIn("queue")' = AwakeIn("queue")
    BY <1>1 DEF setMaxQueueSize, AwakeIn, condVars, threadVars
  <2>3. /\ m_notEmpty' # {} => Cardinality(AwakeIn("getTask")') >= Len(m_tasks')
        /\ m_notFull' # {} => Cardinality(AwakeIn("queue")) >= m_maxQueueSize - Len(m_tasks) - unsignalled
    BY <2>1, <2>2 DEF WakeupsSuffice
  <2>4. m_notFull' # {} => Cardinality(AwakeIn("queue")) >= m_maxQueueSize' - Len(m_tasks') - unsignalled'
    BY <1>c, <1>l, <2>1, <2>3, PlacesMade
  <2> QED BY <2>2, <2>3, <2>4 DEF WakeupsSuffice
<1>2. CASE start \/ stop \/ join
  BY <1>2, <1>m DEF start, stop, join, AfterNotifyAll, AwakeIn, poolVars, condVars, threadVars, historyVars
<1>3. CASE startThread
  <2>1. m_threads' \in Worker /\ pc[m_threads'] = "unborn"
    BY <1>3, NAssumption DEF startThread, Inv, TypeOK, Worker
  <2>2. \A t \in Thread : t # m_threads' => pc'[t] = pc[t]
    BY <1>0, <1>3 DEF startThread, Goto, TypeOK
  <2>3. AwakeIn("getTask") \subseteq AwakeIn("getTask")' /\ AwakeIn("queue") \subseteq AwakeIn("queue")'
    BY <1>3, <2>1, <2>2 DEF startThread, AwakeIn, condVars
  <2> QED BY <1>3, <1>m, <2>3 DEF startThread, condVars, historyVars
\* A thread that enters from or leaves to elsewhere.
<1>4. ASSUME NEW t \in Thread, pc[t] \notin {"getTask", "queue"},
             \A u \in Thread : u # t => pc'[u] = pc[u],
             UNCHANGED <<m_tasks, m_maxQueueSize, unsignalled, condVars>>
      PROVE  WakeupsSuffice'
  <2>1. AwakeIn("getTask") \subseteq AwakeIn("getTask")' /\ AwakeIn("queue") \subseteq AwakeIn("queue")'
    BY <1>4 DEF AwakeIn, condVars
  <2> QED BY <1>4, <1>m, <2>1 DEF condVars
<1>5. ASSUME NEW t \in Thread, callRun(t) PROVE WakeupsSuffice'
  BY <1>4, <1>5 DEF callRun, At, Goto, poolVars, historyVars
<1>6. ASSUME NEW t \in Thread, testThreads(t) PROVE WakeupsSuffice'
  <2>1. pc[t] = "run" /\ \A u \in Thread : u # t => pc'[u] = pc[u]
    BY <1>0, <1>6 DEF testThreads, At, Goto, ReturnFromRun, TypeOK
  <2> QED BY <1>4, <1>6, <2>1 DEF testThreads, poolVars
<1>7. ASSUME NEW w \in Worker, testRunning(w) \/ callTask(w) \/ taskDone(w)
      PROVE  WakeupsSuffice'
  <2>1. pc[w] \in {"loop", "call", "exec"} /\ \A u \in Thread : u # w => pc'[u] = pc[u]
    BY <1>0, <1>7 DEF testRunning, callTask, taskDone, At, Goto, ReturnFromRun, TypeOK
  <2> QED BY <1>0, <1>4, <1>7, <2>1 DEF testRunning, callTask, taskDone, poolVars, historyVars
<1>8. ASSUME NEW t \in Thread, SpuriousWakeup(t) PROVE WakeupsSuffice'
  BY <1>m, <1>8 DEF SpuriousWakeup, AwakeIn, poolVars, threadVars, historyVars
<1>9. ASSUME NEW t \in Thread, runWait(t) PROVE WakeupsSuffice'
  \* The deque is full, so no place needs a caller; takers are untouched.
  <2>1. m_maxQueueSize - Len(m_tasks) <= 0
    BY <1>9, <1>l DEF runWait, isFull
  <2>2. AwakeIn("getTask")' = AwakeIn("getTask")
    BY <1>9 DEF runWait, At, AwakeIn, threadVars
  <2> QED BY <1>9, <1>c, <1>l, <2>1, <2>2 DEF runWait, WakeupsSuffice, poolVars
<1>10. ASSUME NEW w \in Worker, getTaskWait(w) PROVE WakeupsSuffice'
  \* The deque is empty, so no task needs a taker; callers are untouched.
  <2>1. Len(m_tasks) = 0
    BY <1>10, EmptySeq DEF getTaskWait
  <2>2. AwakeIn("queue")' = AwakeIn("queue")
    BY <1>10 DEF getTaskWait, At, AwakeIn, threadVars
  <2> QED BY <1>10, <1>c, <1>l, <2>1, <2>2 DEF getTaskWait, WakeupsSuffice, poolVars, historyVars
<1>11. ASSUME NEW t \in Thread, runPush(t) PROVE WakeupsSuffice'
  <2>1. pc[t] = "queue" /\ t \notin m_notFull /\ t \notin m_notEmpty /\ hand[t] \in Task
    BY <1>0, <1>11 DEF runPush, At, Inv, TypeOK
  <2>2. /\ Len(m_tasks') = Len(m_tasks) + 1
        /\ m_maxQueueSize' = m_maxQueueSize /\ unsignalled' = unsignalled
    BY <1>0, <1>11, <2>1, AppendProperties DEF runPush, push_back, TypeOK, poolVars
  <2>3. pc'[t] \in {"loop", "idle"} /\ \A u \in Thread : u # t => pc'[u] = pc[u]
    BY <1>0, <1>11, ReturnKeepsTypes DEF runPush
  <2>4. m_notEmpty' \subseteq m_notEmpty /\ m_notFull' = m_notFull
    BY <1>11, NotifyLeaves DEF runPush
  <2>5. t \in AwakeIn("queue") /\ AwakeIn("queue")' = AwakeIn("queue") \ {t}
    BY <1>0, <2>1, <2>3, <2>4 DEF AwakeIn, TypeOK
  <2>6. Cardinality(AwakeIn("queue")') = Cardinality(AwakeIn("queue")) - 1
    BY <1>g, <2>5, ThreadSets
  \* The signal makes one more taker awake, if any sleeps.
  <2>7. ASSUME m_notEmpty # {}
        PROVE  Cardinality(AwakeIn("getTask")') = Cardinality(AwakeIn("getTask")) + 1
    <3>1. PICK v \in m_notEmpty : m_notEmpty' = m_notEmpty \ {v}
      BY <1>11, <2>7, NotifyLeaves DEF runPush
    <3>2. v # t /\ v \in Thread /\ pc[v] = "getTask" /\ v \notin m_notFull
      BY <1>0, <2>1 DEF TypeOK
    <3>3. v \in AwakeIn("getTask")' /\ AwakeIn("getTask")' \ {v} = AwakeIn("getTask")
      BY <2>1, <2>3, <2>4, <3>1, <3>2 DEF AwakeIn
    <3> QED BY <1>c, <1>g, <3>3, ThreadSets
  <2> QED BY <1>c, <1>l, <2>2, <2>4, <2>6, <2>7 DEF WakeupsSuffice
<1>12. ASSUME NEW w \in Worker, getTask(w) PROVE WakeupsSuffice'
  <2>1. pc[w] = "getTask" /\ w \in Thread /\ w \notin m_notEmpty /\ w \notin m_notFull
    BY <1>0, <1>12 DEF getTask, At, TypeOK
  <2>2. pc'[w] \in {"call", "loop"} /\ \A u \in Thread : u # w => pc'[u] = pc[u]
    BY <1>0, <1>12, <2>1 DEF getTask, Goto, TypeOK
  <2>3. /\ m_notFull' \subseteq m_notFull /\ m_notEmpty' = m_notEmpty
        /\ m_maxQueueSize' = m_maxQueueSize /\ unsignalled' = unsignalled
    BY <1>12, NotifyLeaves DEF getTask, poolVars
  <2>4. w \in AwakeIn("getTask") /\ AwakeIn("getTask")' = AwakeIn("getTask") \ {w}
    BY <1>0, <2>1, <2>2, <2>3 DEF AwakeIn, TypeOK
  <2>5. Cardinality(AwakeIn("getTask")') = Cardinality(AwakeIn("getTask")) - 1
    BY <1>g, <2>4, ThreadSets
  <2>6. CASE m_tasks # <<>>
    <3>1. Len(m_tasks') = Len(m_tasks) - 1
      BY <1>0, <1>12, <2>6, HeadTailProperties DEF getTask, TypeOK
    \* The signal makes one more caller awake, if any sleeps.
    <3>2. ASSUME m_notFull # {}
          PROVE  Cardinality(AwakeIn("queue")') = Cardinality(AwakeIn("queue")) + 1
      <4>1. PICK v \in m_notFull : m_notFull' = m_notFull \ {v}
        BY <1>12, <2>6, <3>2, NotifyLeaves DEF getTask
      <4>2. v # w /\ v \in Thread /\ pc[v] = "queue" /\ v \notin m_notEmpty
        BY <1>0, <2>1 DEF TypeOK
      <4>3. v \in AwakeIn("queue")' /\ AwakeIn("queue")' \ {v} = AwakeIn("queue")
        BY <2>1, <2>2, <2>3, <4>1, <4>2 DEF AwakeIn
      <4> QED BY <1>c, <1>g, <4>3, ThreadSets
    <3> QED BY <1>c, <1>l, <2>3, <2>5, <3>1, <3>2 DEF WakeupsSuffice
  <2>7. CASE m_tasks = <<>>
    <3>1. UNCHANGED <<m_tasks, m_notFull>> /\ Len(m_tasks) = 0
      BY <1>12, <2>7, EmptySeq DEF getTask
    <3>2. AwakeIn("queue")' = AwakeIn("queue")
      BY <2>1, <2>2, <2>3, <3>1 DEF AwakeIn
    <3> QED BY <1>c, <1>l, <2>3, <3>1, <3>2 DEF WakeupsSuffice
  <2> QED BY <2>6, <2>7
<1>13. CASE UNCHANGED vars
  BY <1>m, <1>13 DEF vars, AwakeIn, poolVars, condVars, threadVars, historyVars
<1> QED BY <1>1, <1>2, <1>3, <1>5, <1>6, <1>7, <1>8, <1>9, <1>10, <1>11, <1>12, <1>13
        DEF Next, OwnerStep, RunStep, WorkerStep

\* One signal per task queued and per task taken is enough, whoever it wakes:
\* for every number of callers and pool threads nobody sleeps while there is
\* work that no awake thread will take, or room that no awake thread will use
\* and that setMaxQueueSize has not made behind the sleepers' backs.
THEOREM NoWakeupIsLost == SafeSpec => []NoLostWakeup
<1>1. Init => WakeupsSuffice
  BY DEF Init, WakeupsSuffice
<1>2. Inv /\ WakeupsSuffice => NoLostWakeup
  <2> SUFFICES ASSUME Inv, WakeupsSuffice PROVE NoLostWakeup
      OBVIOUS
  <2>1. AwakeIn("getTask") \in SUBSET Thread /\ AwakeIn("queue") \in SUBSET Thread
    BY DEF AwakeIn
  <2>2. /\ Cardinality(AwakeIn("getTask")) \in Nat /\ Cardinality(AwakeIn("queue")) \in Nat
        /\ AwakeIn("getTask") = {} => Cardinality(AwakeIn("getTask")) = 0
        /\ AwakeIn("queue") = {} => Cardinality(AwakeIn("queue")) = 0
    BY <2>1, ThreadSets, FS_EmptySet
  <2>3. /\ Len(m_tasks) \in Nat /\ m_maxQueueSize \in Nat /\ unsignalled \in Nat
        /\ (Len(m_tasks) = 0 => m_tasks = <<>>)
    BY EmptySeq, LenProperties DEF Inv, TypeOK
  <2> QED BY <2>2, <2>3 DEF WakeupsSuffice, NoLostWakeup, NoSignalledRoom
<1> QED BY <1>1, <1>2, InvHolds, NextWakeups, PTL DEF SafeSpec
=============================================================================
