----------------------------- MODULE ThreadPool -----------------------------
(***************************************************************************)
(* base/ThreadPool.h/.cc: an owner that starts and stops the pool, callers *)
(* of run(), and N pool threads that take tasks from a bounded deque.      *)
(*                                                                         *)
(* m_brunning and m_threads.empty() are read without the mutex by          *)
(* runInThread and by run, so those reads are steps of their own; every    *)
(* critical section is one action.  A task may itself call run().          *)
(***************************************************************************)
EXTENDS Integers, Sequences, FiniteSets, Functions

CONSTANTS N,             \* the numfoThreads given to start
          Caller,        \* the threads outside the pool that call run
          Task, NoTask,  \* distinct tasks, each submitted at most once
          UninitSizes,   \* what m_maxQueueSize may hold before it is set
          SetSizes,      \* the arguments of setMaxQueueSize
          NestedRun,     \* may a task call run() on the pool it runs in?
          CreateMayFail  \* may pthread_create fail in Thread::start?

Worker == 1..N
Thread == Worker \cup Caller

ASSUME NAssumption == N \in Nat
ASSUME CallerAssumption == IsFiniteSet(Caller) /\ Caller \cap Worker = {}
ASSUME TaskAssumption == NoTask \notin Task
ASSUME SizeAssumption == UninitSizes \subseteq Nat /\ SetSizes \subseteq Nat
ASSUME SwitchAssumption == NestedRun \in BOOLEAN /\ CreateMayFail \in BOOLEAN

VARIABLES m_brunning,      \* cleared by stop, read by the pool threads
          m_maxQueueSize,  \* left uninitialised by the constructor
          m_threads,       \* how many threads start has pushed so far
          m_tasks,         \* the deque of tasks
          m_notFull,       \* the threads asleep in run
          m_notEmpty,      \* the threads asleep in getTask
          owner,           \* where the owner is in start and stop
          joined,          \* how many threads stop has joined
          pc,              \* where every other thread is
          hand,            \* the task a thread submits or executes
          accepted,        \* history: the tasks pushed, in order
          taken,           \* history: the tasks popped, in order
          executed,        \* history: the tasks called, in order
          discarded,       \* history: the tasks run() has thrown away
          unsignalled      \* history: the places that setMaxQueueSize made
                           \* while threads slept in run

poolVars == <<m_brunning, m_maxQueueSize, m_threads>>
condVars == <<m_notFull, m_notEmpty>>
ownerVars == <<owner, joined>>
threadVars == <<pc, hand>>
historyVars == <<accepted, taken, executed, discarded, unsignalled>>
vars == <<poolVars, m_tasks, condVars, ownerVars, threadVars, historyVars>>

Alive == {"loop", "getTask", "call", "exec", "run", "queue"}
Labels == Alive \cup {"idle", "unborn", "failed", "exited"}
OwnerLabels == {"new", "starting", "running", "stopping", "stopped", "aborted"}

Goto(t, l) == pc' = [pc EXCEPT ![t] = l]

\* Thread t is about to execute l; a failed assertion has ended them all.
At(t, l) == pc[t] = l /\ owner # "aborted"

\* Faulty variant: the wrong end of the deque.
push_front(q, k) == <<k>> \o q

push_back(q, k) == Append(q, k)

isFull == Len(m_tasks) >= m_maxQueueSize

\* Faulty variant: the signal is forgotten.
NoNotify(ws) == {ws}

\* Condition::notify and notifyAll: the wait sets they may leave.
AfterNotify(ws) == IF ws = {} THEN {ws} ELSE {ws \ {w} : w \in ws}
\* Faulty variant: a signal in place of the broadcast.
NotifyOne(ws) == AfterNotify(ws)

AfterNotifyAll(ws) == {{}}

Init == /\ m_brunning = FALSE
        /\ m_maxQueueSize \in UninitSizes
        /\ m_threads = 0
        /\ m_tasks = <<>>
        /\ m_notFull = {} /\ m_notEmpty = {}
        /\ owner = "new" /\ joined = 0
        /\ pc = [t \in Thread |-> IF t \in Worker THEN "unborn" ELSE "idle"]
        /\ hand = [t \in Thread |-> NoTask]
        /\ accepted = <<>> /\ taken = <<>> /\ executed = <<>>
        /\ discarded = {} /\ unsignalled = 0

-----------------------------------------------------------------------------
(* The owner *)

\* At any time and by anybody: it takes no lock and signals nobody, so the
\* threads asleep in run are not told of the places it makes.
setMaxQueueSize ==
    /\ owner # "aborted"
    /\ \E new_size \in SetSizes :
          /\ m_maxQueueSize' = new_size
          /\ unsignalled' = IF m_notFull = {} \/ unsignalled + new_size < m_maxQueueSize
                             THEN 0 ELSE unsignalled + new_size - m_maxQueueSize
    /\ UNCHANGED <<m_brunning, m_threads, m_tasks, condVars, ownerVars, threadVars,
                   accepted, taken, executed, discarded>>

start == /\ owner = "new"
         /\ m_brunning' = TRUE
         /\ owner' = IF N = 0 THEN "running" ELSE "starting"
         /\ UNCHANGED <<m_maxQueueSize, m_threads, m_tasks, condVars, joined, threadVars, historyVars>>

\* One turn of the loop of start: push a thread and start it.  Thread::start
\* reports a failed pthread_create to nobody.
startThread ==
    /\ owner = "starting"
    /\ m_threads' = m_threads + 1
    /\ \/ Goto(m_threads', "loop")
       \/ CreateMayFail /\ Goto(m_threads', "failed")
    /\ owner' = IF m_threads' = N THEN "running" ELSE "starting"
    /\ UNCHANGED <<m_brunning, m_maxQueueSize, m_tasks, condVars, joined, hand, historyVars>>

\* The critical section of stop, called by the owner or by the destructor.
stop == /\ owner = "running"
        /\ m_brunning' = FALSE
        /\ m_notEmpty' \in AfterNotifyAll(m_notEmpty)
        /\ owner' = "stopping"
        /\ UNCHANGED <<m_maxQueueSize, m_threads, m_tasks, m_notFull, joined, threadVars, historyVars>>

\* The joins of stop, thread by thread; Thread::join asserts m_started.
join == /\ owner = "stopping"
        /\ \/ /\ joined = m_threads
              /\ owner' = "stopped"
              /\ UNCHANGED joined
           \/ /\ joined < m_threads
              /\ pc[joined + 1] = "exited"
              /\ joined' = joined + 1
              /\ UNCHANGED owner
           \/ /\ joined < m_threads
              /\ pc[joined + 1] = "failed"
              /\ owner' = "aborted"
              /\ UNCHANGED joined
        /\ UNCHANGED <<poolVars, m_tasks, condVars, threadVars, historyVars>>

-----------------------------------------------------------------------------
(* run, by a caller or by the task a pool thread executes *)

Fresh == {k \in Task : /\ k \notin discarded
                       /\ \A i \in DOMAIN accepted : accepted[i] # k
                       /\ \A t \in Thread : hand[t] # k}

callRun(t) ==
    /\ \/ t \in Caller /\ At(t, "idle")
       \/ NestedRun /\ t \in Worker /\ At(t, "exec")
    /\ \E k \in Fresh : hand' = [hand EXCEPT ![t] = k]
    /\ Goto(t, "run")
    /\ UNCHANGED <<poolVars, m_tasks, condVars, ownerVars, historyVars>>

\* A caller goes its way; a pool thread ends its task and is back in its loop.
ReturnFromRun(t) ==
    /\ Goto(t, IF t \in Worker THEN "loop" ELSE "idle")
    /\ hand' = [hand EXCEPT ![t] = NoTask]

\* The unlocked test of m_threads.empty().  With no threads, "Task();" builds
\* an empty function and the task given to run is never called.
testThreads(t) ==
    /\ At(t, "run")
    /\ \/ /\ m_threads = 0
          /\ discarded' = discarded \cup {hand[t]}
          /\ ReturnFromRun(t)
       \/ /\ m_threads > 0
          /\ Goto(t, "queue")
          /\ UNCHANGED <<hand, discarded>>
    /\ UNCHANGED <<poolVars, m_tasks, condVars, ownerVars,
                   accepted, taken, executed, unsignalled>>

runWait(t) == /\ At(t, "queue") /\ t \notin m_notFull
              /\ isFull
              /\ m_notFull' = m_notFull \cup {t}
              /\ unsignalled' = 0
              /\ UNCHANGED <<poolVars, m_tasks, m_notEmpty, ownerVars, threadVars,
                             accepted, taken, executed, discarded>>

runPush(t) == /\ At(t, "queue") /\ t \notin m_notFull
              /\ ~isFull
              /\ m_tasks' = push_back(m_tasks, hand[t])
              /\ accepted' = Append(accepted, hand[t])
              /\ m_notEmpty' \in AfterNotify(m_notEmpty)
              /\ ReturnFromRun(t)
              /\ UNCHANGED <<poolVars, m_notFull, ownerVars, taken, executed, discarded, unsignalled>>

-----------------------------------------------------------------------------
(* The pool threads *)

\* The unlocked test of m_brunning in the loop of runInThread.
testRunning(w) ==
    /\ At(w, "loop")
    /\ Goto(w, IF m_brunning THEN "getTask" ELSE "exited")
    /\ UNCHANGED <<poolVars, m_tasks, condVars, ownerVars, hand, historyVars>>

getTaskWait(w) ==
    /\ At(w, "getTask") /\ w \notin m_notEmpty
    /\ m_tasks = <<>> /\ m_brunning
    /\ m_notEmpty' = m_notEmpty \cup {w}
    /\ UNCHANGED <<poolVars, m_tasks, m_notFull, ownerVars, threadVars, historyVars>>

\* The end of getTask and the test of the task it returns: the empty function is
\* not called.
getTask(w) ==
    /\ At(w, "getTask") /\ w \notin m_notEmpty
    /\ \/ /\ m_tasks # <<>>
          /\ hand' = [hand EXCEPT ![w] = Head(m_tasks)]
          /\ taken' = Append(taken, Head(m_tasks))
          /\ m_tasks' = Tail(m_tasks)
          /\ m_notFull' \in AfterNotify(m_notFull)
          /\ Goto(w, "call")
       \/ /\ m_tasks = <<>> /\ ~m_brunning
          /\ Goto(w, "loop")
          /\ UNCHANGED <<hand, taken, m_tasks, m_notFull>>
    /\ UNCHANGED <<poolVars, m_notEmpty, ownerVars,
                   accepted, executed, discarded, unsignalled>>

\* The call of the task, which getTask has returned after unlocking.
callTask(w) ==
    /\ At(w, "call")
    /\ executed' = Append(executed, hand[w])
    /\ Goto(w, "exec")
    /\ UNCHANGED <<poolVars, m_tasks, condVars, ownerVars, hand,
                   accepted, taken, discarded, unsignalled>>

taskDone(w) ==
    /\ w \in Worker /\ At(w, "exec")
    /\ ReturnFromRun(w)
    /\ UNCHANGED <<poolVars, m_tasks, condVars, ownerVars, historyVars>>

\* pthread_cond_wait may return without a signal.
SpuriousWakeup(t) ==
    /\ t \in m_notFull \cup m_notEmpty /\ owner # "aborted"
    /\ m_notFull' = m_notFull \ {t}
    /\ m_notEmpty' = m_notEmpty \ {t}
    /\ UNCHANGED <<poolVars, m_tasks, ownerVars, threadVars, historyVars>>

OwnerStep == startThread \/ join
RunStep(t) == testThreads(t) \/ runWait(t) \/ runPush(t)
WorkerStep(w) == \/ testRunning(w) \/ getTaskWait(w) \/ getTask(w)
                 \/ callTask(w) \/ taskDone(w)

Next == \/ setMaxQueueSize \/ start \/ stop \/ OwnerStep
        \/ \E t \in Thread : callRun(t) \/ RunStep(t) \/ SpuriousWakeup(t)
        \/ \E w \in Worker : WorkerStep(w)

SafeSpec == Init /\ [][Next]_vars

\* Tasks and critical sections end, and the scheduler runs every thread; when
\* to start, to stop and to submit is up to the program.
Spec == /\ SafeSpec
        /\ WF_vars(OwnerStep)
        /\ \A t \in Thread : WF_vars(RunStep(t))
        /\ \A w \in Worker : WF_vars(WorkerStep(w))
-----------------------------------------------------------------------------
\* The types, and that a thread sleeps only where the code waits.
TypeOK == /\ m_brunning \in BOOLEAN
          /\ m_maxQueueSize \in Nat
          /\ m_threads \in 0..N /\ joined \in 0..m_threads
          /\ m_tasks \in Seq(Task)
          /\ owner \in OwnerLabels
          /\ pc \in [Thread -> Labels]
          /\ hand \in [Thread -> Task \cup {NoTask}]
          /\ accepted \in Seq(Task) /\ taken \in Seq(Task) /\ executed \in Seq(Task)
          /\ discarded \subseteq Task /\ unsignalled \in Nat
          /\ m_notFull \subseteq {t \in Thread : pc[t] = "queue"}
          /\ m_notEmpty \subseteq {w \in Worker : pc[w] = "getTask"}

\* The pool threads between getTask and the call of the task it has returned.
Calling == {w \in Worker : pc[w] = "call"}
Held == {hand[w] : w \in Calling}

\* Tasks leave m_tasks in the order in which run() queued them, and every task
\* that has left is either called, once, or still in the hand of exactly one
\* pool thread that is about to call it, never both.  So no interleaving of
\* run, getTask and stop loses or repeats a task, and a task overtakes an
\* earlier one only while another pool thread is between the unlock of getTask
\* and the call of that one.
EachTaskOnce == /\ accepted = taken \o m_tasks
                /\ IsInjective(executed)
                /\ Range(taken) = Range(executed) \cup Held
                /\ Range(executed) \cap Held = {}
                /\ \A v, w \in Calling : hand[v] = hand[w] => v = w

\* Threads in getTask or in the locked part of run that are not asleep.
AwakeIn(l) == {t \in Thread : pc[t] = l /\ t \notin m_notFull \cup m_notEmpty}

\* Every free place of m_tasks, if there is one, is one that setMaxQueueSize
\* has made without telling the threads that slept in run.
NoSignalledRoom == Len(m_tasks) + unsignalled >= m_maxQueueSize

\* No wakeup is lost between run and getTask: a pool thread sleeps while there
\* are tasks only if another is awake in getTask, and a thread sleeps in run
\* while there is room only if another is awake in run, or the room comes from
\* setMaxQueueSize, which signals nobody.
NoLostWakeup ==
    /\ m_notEmpty # {} /\ m_tasks # <<>> => AwakeIn("getTask") # {}
    /\ m_notFull # {} /\ ~NoSignalledRoom => AwakeIn("queue") # {}

\* Once stop has left its critical section no pool thread sleeps in getTask,
\* nor goes to sleep there later, although some may have read m_brunning
\* before it was cleared.
StopWakesAll == owner \in {"stopping", "stopped"} => m_notEmpty = {}

\* The inductive invariant.  Before a thread is started nothing is queued and no
\* thread waits to queue; the threads to come are not born; whoever submits or
\* is about to call has a task in hand; and the pool that is told to stop stays
\* told.
Inv == /\ TypeOK
       /\ owner = "new" => m_threads = 0
       /\ owner = "starting" => m_threads < N
       /\ m_threads = 0 => m_tasks = <<>> /\ \A t \in Thread : pc[t] # "queue"
       /\ \A w \in Worker : w > m_threads => pc[w] = "unborn"
       /\ \A t \in Thread : pc[t] \in {"run", "queue", "call"} => hand[t] \in Task
       /\ owner \in {"stopping", "stopped"} => ~m_brunning

\* The threads inside run, whose tasks are not queued yet.
Submitting == {t \in Thread : pc[t] \in {"run", "queue"}}

\* EachTaskOnce needs that the tasks submitted are distinct: the one a thread
\* is about to queue is nobody else's and was never queued.
TasksApart == /\ IsInjective(accepted)
              /\ \A t \in Submitting : hand[t] \notin Range(accepted)
              /\ \A t, u \in Submitting : hand[t] = hand[u] => t = u

\* NoLostWakeup is not inductive: it has to be counted.  As many threads are
\* awake as there are tasks for them, or free places, while others sleep.
WakeupsSuffice ==
    /\ m_notEmpty # {} => Cardinality(AwakeIn("getTask")) >= Len(m_tasks)
    /\ m_notFull # {} => Cardinality(AwakeIn("queue")) >= m_maxQueueSize - Len(m_tasks) - unsignalled

\* Pool threads asleep in a run() that a task of theirs has called.
NestedAsleep == Worker \cap m_notFull

\* When every pool thread could be created, stop returns, whatever the pool
\* threads were doing, with one exception: stop signals only m_notEmpty, so it
\* waits for a pool thread whose task sleeps in run() on a deque that stays
\* full, or that has room nobody is told of.  (When one could not be created,
\* the assertion of Thread::join ends the program.)
StopReturns == \/ owner = "stopping" /\ (\A w \in Worker : pc[w] # "failed")
                     ~> owner = "stopped"
               \/ []<>(NoSignalledRoom /\ NestedAsleep # {})

\* Nobody is left to take a task: every pool thread that could be created
\* sleeps in run() itself.
NobodyTakes == owner = "running" /\ \A w \in Worker : pc[w] = "failed" \/ w \in m_notFull

\* A task that run() has queued is called, unless the pool is stopped or has,
\* for good, nobody to take it: neither a lost wakeup nor an unlucky pool
\* thread keeps it.
QueuedTaskRuns ==
    \A k \in Task :
        \/ (\E i \in DOMAIN m_tasks : m_tasks[i] = k)
              ~> \/ \E i \in DOMAIN executed : executed[i] = k
                 \/ owner \in {"stopping", "stopped", "aborted"}
        \/ []<>NobodyTakes
=============================================================================
