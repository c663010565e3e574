------------------------------- MODULE Thread -------------------------------
(***************************************************************************)
(* base/Thread.h/.cc: a Thread object, the thread it starts, and the two   *)
(* things they share: the ThreadData handed over to the thread and the     *)
(* pid_t the thread writes through a weak_ptr.  The owner may destroy the  *)
(* Thread object at any moment of the thread's life.                       *)
(***************************************************************************)
EXTENDS Integers

CONSTANT Threads   \* the Thread objects; one also stands for its thread's tid

VARIABLES object,     \* the object's life, and where its owner is in start or join
          m_started, m_joined,
          m_sharedtid,  \* the shared pid_t: its value and how many pointers own it
          td,         \* the ThreadData of the last start
          pc,         \* where the thread is
          t_threadname, \* what the thread's name points at
          pthread     \* what the pthread library keeps for m_threadId

vars == <<object, m_started, m_joined, m_sharedtid, td, pc, t_threadname, pthread>>

None == "none"     \* no tid yet: the 0 of `new pid_t(0)`

\* The types of the members, of the thread's place and of what pthread knows of it.
TypeOK ==
    /\ object \in [Threads -> {"unborn", "idle", "creating", "joining", "destroyed"}]
    /\ m_started \in [Threads -> BOOLEAN] /\ m_joined \in [Threads -> BOOLEAN]
    /\ m_sharedtid \in [Threads -> [value: Threads \cup {None}, owners: 0..2]]
    /\ td \in [Threads -> {"none", "alive", "freed"}]
    /\ pc \in [Threads -> {"none", "lock", "assign", "func", "delete", "exited"}]
    /\ t_threadname \in [Threads -> {"default", "m_name", "finished"}]
    /\ pthread \in [Threads -> {"none", "joinable", "detached", "reclaimed"}]

Init == /\ object = [t \in Threads |-> "unborn"]
        /\ m_started = [t \in Threads |-> FALSE] /\ m_joined = [t \in Threads |-> FALSE]
        /\ m_sharedtid = [t \in Threads |-> [value |-> None, owners |-> 0]]
        /\ td = [t \in Threads |-> "none"]
        /\ pc = [t \in Threads |-> "none"]
        /\ t_threadname = [t \in Threads |-> "default"]
        /\ pthread = [t \in Threads |-> "none"]

-----------------------------------------------------------------------------
(* The owner.  The assertions of start and join are conditions on it. *)

\* The constructor.
Create(t) == /\ object[t] = "unborn"
             /\ object' = [object EXCEPT ![t] = "idle"]
             /\ m_sharedtid' = [m_sharedtid EXCEPT ![t].owners = 1]
             /\ UNCHANGED <<m_started, m_joined, td, pc, t_threadname, pthread>>

start(t) == /\ object[t] = "idle" /\ ~m_started[t]
            /\ object' = [object EXCEPT ![t] = "creating"]
            /\ td' = [td EXCEPT ![t] = "alive"]
            /\ UNCHANGED <<m_started, m_joined, m_sharedtid, pc, t_threadname, pthread>>

\* pthread_create succeeds: the thread runs beside the rest of start.
pthread_create(t) ==
    /\ object[t] = "creating" /\ pc[t] = "none"
    /\ pc' = [pc EXCEPT ![t] = "lock"]
    /\ pthread' = [pthread EXCEPT ![t] = "joinable"]
    /\ UNCHANGED <<object, m_started, m_joined, m_sharedtid, td, t_threadname>>

startReturns(t) ==
    /\ object[t] = "creating" /\ pc[t] # "none"
    /\ object' = [object EXCEPT ![t] = "idle"]
    /\ m_started' = [m_started EXCEPT ![t] = TRUE]
    /\ UNCHANGED <<m_joined, m_sharedtid, td, pc, t_threadname, pthread>>

\* pthread_create fails.
startFails(t) ==
    /\ object[t] = "creating" /\ pc[t] = "none"
    /\ object' = [object EXCEPT ![t] = "idle"]
    /\ td' = [td EXCEPT ![t] = "freed"]
    /\ UNCHANGED <<m_started, m_joined, m_sharedtid, pc, t_threadname, pthread>>

join(t) == /\ object[t] = "idle" /\ m_started[t] /\ ~m_joined[t]
           /\ object' = [object EXCEPT ![t] = "joining"]
           /\ m_joined' = [m_joined EXCEPT ![t] = TRUE]
           /\ UNCHANGED <<m_started, m_sharedtid, td, pc, t_threadname, pthread>>

\* Faulty variant: join returns without waiting for the thread.
joinReturnsEarly(t) ==
    /\ object[t] = "joining"
    /\ object' = [object EXCEPT ![t] = "idle"]
    /\ pthread' = [pthread EXCEPT ![t] = "reclaimed"]
    /\ UNCHANGED <<m_started, m_joined, m_sharedtid, td, pc, t_threadname>>

joinReturns(t) ==
    /\ object[t] = "joining" /\ pc[t] = "exited"
    /\ object' = [object EXCEPT ![t] = "idle"]
    /\ pthread' = [pthread EXCEPT ![t] = "reclaimed"]
    /\ UNCHANGED <<m_started, m_joined, m_sharedtid, td, pc, t_threadname>>

\* pthread_detach: the library forgets an exited thread at once; one that was
\* joined or detached before is not a thread any more.
detached(t) == IF pthread[t] # "joinable" THEN "invalid"
               ELSE IF pc[t] = "exited" THEN "reclaimed" ELSE "detached"

\* Faulty variant: a thread nobody joins is left alone.
mustNotDetach(t) == FALSE

mustDetach(t) == m_started[t] /\ ~m_joined[t]

\* The destructor.
Destroy(t) ==
    /\ object[t] = "idle"
    /\ object' = [object EXCEPT ![t] = "destroyed"]
    /\ pthread' = [pthread EXCEPT ![t] = IF mustDetach(t) THEN detached(t) ELSE @]
    /\ m_sharedtid' = [m_sharedtid EXCEPT ![t].owners = @ - 1]
    /\ UNCHANGED <<m_started, m_joined, td, pc, t_threadname>>

-----------------------------------------------------------------------------
(* The thread: startThread and ThreadData::runInThread. *)

\* Faulty variant: the thread uses the pid_t without owning it.
lockRaw(t) == /\ pc[t] = "lock"
              /\ t_threadname' = [t_threadname EXCEPT ![t] = "m_name"]
              /\ pc' = [pc EXCEPT ![t] = IF m_sharedtid[t].owners > 0 THEN "assign" ELSE "func"]
              /\ UNCHANGED <<object, m_started, m_joined, m_sharedtid, td, pthread>>

\* Faulty variant: the thread insists on the pid_t.
lockAlways(t) == /\ pc[t] = "lock"
                 /\ m_sharedtid[t].owners > 0
                 /\ t_threadname' = [t_threadname EXCEPT ![t] = "m_name"]
                 /\ pc' = [pc EXCEPT ![t] = "assign"]
                 /\ m_sharedtid' = [m_sharedtid EXCEPT ![t].owners = @ + 1]
                 /\ UNCHANGED <<object, m_started, m_joined, td, pthread>>

\* The name, the cached tid and the lock of the weak_ptr.
lock(t) == /\ pc[t] = "lock"
           /\ t_threadname' = [t_threadname EXCEPT ![t] = "m_name"]
           /\ IF m_sharedtid[t].owners > 0
              THEN /\ pc' = [pc EXCEPT ![t] = "assign"]
                   /\ m_sharedtid' = [m_sharedtid EXCEPT ![t].owners = @ + 1]
              ELSE /\ pc' = [pc EXCEPT ![t] = "func"]
                   /\ UNCHANGED m_sharedtid
           /\ UNCHANGED <<object, m_started, m_joined, td, pthread>>

\* The thread's own tid into the pid_t, and reset.
assign(t) == /\ pc[t] = "assign"
             /\ pc' = [pc EXCEPT ![t] = "func"]
             /\ m_sharedtid' = [m_sharedtid EXCEPT ![t] = [value |-> t, owners |-> @.owners - 1]]
             /\ UNCHANGED <<object, m_started, m_joined, td, t_threadname, pthread>>

\* m_func() returns.
func(t) == /\ pc[t] = "func"
           /\ pc' = [pc EXCEPT ![t] = "delete"]
           /\ t_threadname' = [t_threadname EXCEPT ![t] = "finished"]
           /\ UNCHANGED <<object, m_started, m_joined, m_sharedtid, td, pthread>>

\* delete td and the end of the thread.
exit(t) == /\ pc[t] = "delete"
           /\ pc' = [pc EXCEPT ![t] = "exited"]
           /\ td' = [td EXCEPT ![t] = "freed"]
           /\ pthread' = [pthread EXCEPT ![t] = IF @ = "detached" THEN "reclaimed" ELSE @]
           /\ UNCHANGED <<object, m_started, m_joined, m_sharedtid, t_threadname>>

ThreadStep(t) == lock(t) \/ assign(t) \/ func(t) \/ exit(t)

OwnerStep(t) == \/ Create(t) \/ start(t) \/ pthread_create(t) \/ startReturns(t)
                \/ startFails(t) \/ join(t) \/ joinReturns(t) \/ Destroy(t)

Next == \E t \in Threads : OwnerStep(t) \/ ThreadStep(t)

\* A thread is scheduled and its function returns; pthread_join returns for a
\* thread that has exited.
Fairness == \A t \in Threads : WF_vars(ThreadStep(t)) /\ WF_vars(joinReturns(t))

Spec == Init /\ [][Next]_vars /\ Fairness
-----------------------------------------------------------------------------
\* Nothing freed is used, also when the Thread object is destroyed while its
\* thread starts: not the pid_t the thread is about to write or that tid() may
\* read, nor the name the thread goes by, which is part of the ThreadData.
NoDangling == \A t \in Threads :
    /\ pc[t] = "assign" => m_sharedtid[t].owners > 0
    /\ object[t] \notin {"unborn", "destroyed"} => m_sharedtid[t].owners > 0
    /\ t_threadname[t] = "m_name" => td[t] = "alive"

\* Once the object is destroyed and its thread, if any, has exited, nothing
\* of either is left: no ThreadData, no pid_t, no thread waiting to be joined.
NothingLeft == \A t \in Threads :
    object[t] = "destroyed" /\ pc[t] \in {"none", "exited"} =>
        /\ td[t] # "alive"
        /\ m_sharedtid[t].owners = 0
        /\ pthread[t] \in {"none", "reclaimed"}

\* After join has returned the thread has exited, and tid() is its tid,
\* never the 0 the object started with.
JoinedIsDone == \A t \in Threads :
    m_joined[t] /\ object[t] = "idle" => /\ pc[t] = "exited"
                                         /\ m_sharedtid[t].value = t

\* A thread left to itself by the destructor ends, and is forgotten.
DetachedEnds == \A t \in Threads : pthread[t] = "detached" ~> pthread[t] = "reclaimed"

\* Who owns the pid_t: the Thread object while it lives, and the thread between
\* the lock of its weak_ptr and the reset.
Owners(t) == (IF object[t] \in {"unborn", "destroyed"} THEN 0 ELSE 1)
             + (IF pc[t] = "assign" THEN 1 ELSE 0)

\* What the object knows of its thread: m_started and m_joined are right as
\* soon as start and join have returned.
ObjectKnows(t) ==
    /\ object[t] \in {"unborn", "creating"} => ~m_started[t]
    /\ object[t] = "unborn" => pc[t] = "none"
    /\ m_started[t] => pc[t] # "none"
    /\ pc[t] # "none" => m_started[t] \/ object[t] = "creating"
    /\ m_joined[t] => m_started[t] /\ (pc[t] = "exited" \/ object[t] = "joining")
    /\ object[t] = "joining" => m_joined[t]

\* What is allocated for the thread at each point of its life.
ThreadHas(t) ==
    /\ td[t] = "alive" <=> \/ pc[t] \in {"lock", "assign", "func", "delete"}
                           \/ pc[t] = "none" /\ object[t] = "creating"
    /\ t_threadname[t] = "m_name" => pc[t] \in {"assign", "func"}
    /\ pc[t] \in {"func", "delete", "exited"} /\ object[t] # "destroyed"
          => m_sharedtid[t].value = t

\* What the pthread library keeps, as a function of the rest.
PthreadOf(t) ==
    IF pc[t] = "none" THEN "none"
    ELSE IF object[t] # "destroyed" /\ (m_joined[t] => object[t] = "joining") THEN "joinable"
    ELSE IF pc[t] # "exited" THEN "detached" ELSE "reclaimed"

\* The inductive invariant behind the properties above.
Inv == /\ TypeOK
       /\ \A t \in Threads : /\ m_sharedtid[t].owners = Owners(t)
                             /\ ObjectKnows(t) /\ ThreadHas(t)
                             /\ pthread[t] = PthreadOf(t)
=============================================================================
