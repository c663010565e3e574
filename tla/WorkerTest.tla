----------------------------- MODULE WorkerTest -----------------------------
(***************************************************************************)
(* The program of base/tests/BlockingQueue_unittest.cc: a main thread, a   *)
(* CountDownLatch, a BlockingQueue and worker threads.  The main thread    *)
(* waits on the latch until every worker has started, puts the jobs, puts  *)
(* one STOP for each worker and joins them.  This is the protocol with     *)
(* which the repository composes the three components.                     *)
(***************************************************************************)
EXTENDS Integers, Sequences, FiniteSets

CONSTANTS Worker, Main, Times, NoValue

Job == 1..Times
STOP == 0
NumThreads == Cardinality(Worker)

ASSUME TimesAssumption == Times \in Nat /\ NoValue \notin Nat
ASSUME WorkerAssumption == IsFiniteSet(Worker) /\ Worker # {} /\ Main \notin Worker

VARIABLES m_count, latch_cond, waiter,                \* latch_
          m_deque, queue_cond, getting, returned,     \* queue_
          main,      \* where the main thread is
          puts,      \* how many elements it has put
          pc,        \* where each worker is
          taken      \* history: the jobs each worker has taken

latchVars == <<m_count, latch_cond, waiter>>
queueVars == <<m_deque, queue_cond, getting, returned>>
vars == <<latchVars, queueVars, main, puts, pc, taken>>

Latch == INSTANCE CountDownLatch WITH
            Waiter <- {Main}, Count <- NumThreads, MaxBelow <- 0,
            m_cond <- latch_cond

Queue == INSTANCE BlockingQueue WITH
            Thread <- Worker, Value <- Job \cup {STOP}, MaxLen <- Times + NumThreads,
            m_cond <- queue_cond

Init == /\ Latch!Init /\ Queue!Init
        /\ main = "run" /\ puts = 0
        /\ pc = [w \in Worker |-> "started"]
        /\ taken = [w \in Worker |-> {}]

Goto(w, l) == pc' = [pc EXCEPT ![w] = l]

\* Test::run waits on the latch before it puts anything.
MainWait == /\ main = "run"
            /\ Latch!callWait(Main) \/ Latch!wait(Main)
            /\ main' = IF waiter'[Main] = "passed" THEN "put" ELSE "run"
            /\ UNCHANGED <<queueVars, puts, pc, taken>>

\* Faulty variants: a STOP too few, the STOPs first.
TotalPutsLess == Times + NumThreads - 1
ElementStopsFirst(i) == IF i < NumThreads THEN STOP ELSE i - NumThreads + 1

\* The loops of run and of joinAll: the jobs, then a STOP for each worker.
TotalPuts == Times + NumThreads
Element(i) == IF i < Times THEN i + 1 ELSE STOP

MainPut == /\ main = "put"
           /\ Queue!put(Element(puts))
           /\ puts' = puts + 1
           /\ main' = IF puts' = TotalPuts THEN "join" ELSE "put"
           /\ UNCHANGED <<latchVars, pc, taken>>

MainJoin == /\ main = "join"
            /\ \A w \in Worker : pc[w] = "stopped"
            /\ main' = "done"
            /\ UNCHANGED <<latchVars, queueVars, puts, pc, taken>>

\* ThreadFunc: count down, then get until STOP comes.
WorkerStart(w) == /\ pc[w] = "started"
                  /\ Latch!countDown
                  /\ Goto(w, "loop")
                  /\ UNCHANGED <<queueVars, main, puts, taken>>

WorkerCall(w) == /\ pc[w] = "loop"
                 /\ Queue!callGet(w)
                 /\ Goto(w, "get")
                 /\ UNCHANGED <<latchVars, main, puts, taken>>

WorkerGet(w) == /\ pc[w] = "get"
                /\ Queue!get(w)
                /\ Goto(w, IF returned'[w] = NoValue THEN "get"
                           ELSE IF returned'[w] = STOP THEN "stopped" ELSE "loop")
                /\ taken' = [taken EXCEPT ![w] = @ \cup ({returned'[w]} \cap Job)]
                /\ UNCHANGED <<latchVars, main, puts>>

Spurious == \/ /\ Latch!SpuriousWakeup(Main)
               /\ UNCHANGED <<queueVars, main, puts, pc, taken>>
            \/ /\ \E w \in Worker : Queue!SpuriousWakeup(w)
               /\ UNCHANGED <<latchVars, main, puts, pc, taken>>

MainStep == MainWait \/ MainPut \/ MainJoin
WorkerStep(w) == WorkerStart(w) \/ WorkerCall(w) \/ WorkerGet(w)

\* The program ends when the main thread is done.
Done == main = "done" /\ UNCHANGED vars

Next == MainStep \/ Spurious \/ Done \/ \E w \in Worker : WorkerStep(w)

SafeSpec == Init /\ [][Next]_vars

Spec == /\ SafeSpec
        /\ WF_vars(MainStep) /\ \A w \in Worker : WF_vars(WorkerStep(w))
-----------------------------------------------------------------------------
\* The types of the latch and of the queue, and that main puts exactly what run
\* and joinAll put.
TypeOK == /\ Latch!TypeOK /\ Queue!TypeOK
          /\ main \in {"run", "put", "join", "done"}
          /\ puts \in 0..(Times + NumThreads)
          /\ pc \in [Worker -> {"started", "loop", "get", "stopped"}]
          /\ taken \in [Worker -> SUBSET Job]

\* A STOP taken by one worker never leaves a job behind or takes another
\* worker's STOP away: when all workers have been joined the queue is empty
\* and every job was taken by exactly one of them.
AllJobsTaken ==
    /\ main = "done" => m_deque = <<>> /\ UNION {taken[w] : w \in Worker} = Job
    /\ \A v, w \in Worker : v # w => taken[v] \cap taken[w] = {}

\* Main passes the latch neither before every worker has counted down nor
\* sleeps on it after that, and no signal of the queue is lost: a worker sleeps
\* in get while elements are queued only if another one is awake to take one.
SignalsExact == /\ Latch!NobodyPassesEarly /\ Latch!NobodyLeftAsleep
                /\ Queue!NoLostWakeup

\* The test terminates: the joins end although put signals one worker at a time.
TestEnds == <>(main = "done")
=============================================================================
