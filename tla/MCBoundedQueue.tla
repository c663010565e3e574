--------------------------- MODULE MCBoundedQueue ---------------------------
(***************************************************************************)
(* The bounded queue twice: with critical sections that are one action, as *)
(* the callers see them, and lock by lock.  The two share nothing: each    *)
(* behaviour is one of either, and the state graph is the sum of theirs.   *)
(***************************************************************************)
EXTENDS BoundedBlockingQueue

CONSTANTS LockedThread,   \* the threads of LockedQueue
          NoThread

ASSUME LockedAssumption == NoThread \notin LockedThread

VARIABLES part,           \* "atomic" or "locked"
          l_lock, l_holder, l_queue, l_full, l_empty, l_call, l_returned, l_value, l_pc

lockedVars == <<l_lock, l_holder, l_queue, l_full, l_empty, l_call, l_returned, l_value, l_pc>>

Locked == INSTANCE LockedQueue WITH
            Thread <- LockedThread, m_lock <- l_lock, m_holder <- l_holder,
            m_queue <- l_queue, m_full <- l_full, m_empty <- l_empty,
            call <- l_call, returned <- l_returned, value <- l_value, pc <- l_pc

QueuesInit == part \in {"atomic", "locked"} /\ Init /\ Locked!Init

QueuesNext == /\ \/ part = "atomic" /\ Next /\ UNCHANGED lockedVars
                 \/ part = "locked" /\ Locked!Next /\ UNCHANGED vars
              /\ UNCHANGED part

QueuesSpec == /\ QueuesInit /\ [][QueuesNext]_<<part, vars, lockedVars>>
              /\ \A t \in Thread : WF_vars(Step(t))
              /\ Locked!Fairness

\* LockedQueue implements BoundedBlockingQueue: a critical section of put or get
\* is one atomic step to every other thread, and the progress is kept.
AtomicSpec == Locked!AtomicSpec

\* The safety part of AtomicSpec.
AtomicSafeSpec == Locked!Queue!SafeSpec

\* m_holder is the thread inside the critical section of put or get, also after
\* a wait, and nobody when the mutex is free: the assertion of ~MutexLock.
HolderExact == Locked!HolderExact
=============================================================================
