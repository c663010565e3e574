------------------------------ MODULE Monitor ------------------------------
(***************************************************************************)
(* base/Mutex.h and base/Condition.h/.cc: a pthread mutex that records the *)
(* thread holding it, and a condition variable on it.  The pthread calls   *)
(* and the assignments to m_holder are steps of their own here, because    *)
(* the destructor of MutexLock asserts m_holder == 0 and because the other *)
(* modules treat a critical section as one action.                         *)
(***************************************************************************)
EXTENDS Naturals, FiniteSets

CONSTANTS Thread,
          NoThread   \* the tid 0 of a mutex that nobody holds

VARIABLES m_lock,    \* the owner of the pthread mutex
          m_holder,  \* MutexLock::m_holder
          m_cond,    \* the threads asleep on the condition variable
          pc

vars == <<m_lock, m_holder, m_cond, pc>>

\* "locked" and "unlocking" are the two ends of a critical section: the mutex
\* is owned and m_holder is not.
Labels == {"outside", "locked", "inside", "unlocking", "enterWait",
           "enterTimedWait", "waiting", "timedWaiting", "woken"}

Goto(t, l) == pc' = [pc EXCEPT ![t] = l]

\* The wait set a pthread_cond_signal may leave: one sleeper less, if any.
AfterNotify(ws) == IF ws = {} THEN {ws} ELSE {ws \ {w} : w \in ws}

Init == /\ m_lock = NoThread
        /\ m_holder = NoThread
        /\ m_cond = {}
        /\ pc = [t \in Thread |-> "outside"]

\* MutexLock::lock, up to the return of pthread_mutex_lock, and the end of
\* pthread_cond_wait, which takes the mutex back.
Lock(t) == /\ pc[t] \in {"outside", "woken"}
           /\ m_lock = NoThread
           /\ m_lock' = t
           /\ Goto(t, "locked")
           /\ UNCHANGED <<m_holder, m_cond>>

\* MutexLock::assign, at the end of lock and in ~UnassginMutexLockGuard.
assign(t) == /\ pc[t] = "locked"
             /\ m_holder' = t
             /\ Goto(t, "inside")
             /\ UNCHANGED <<m_lock, m_cond>>

\* MutexLock::unassgin, at the start of unlock and of both waits.
unassgin(t) == /\ pc[t] = "inside"
               /\ m_holder' = NoThread
               /\ \E l \in {"unlocking", "enterWait", "enterTimedWait"} : Goto(t, l)
               /\ UNCHANGED <<m_lock, m_cond>>

\* MutexLock::unlock, its pthread_mutex_unlock.
Unlock(t) == /\ pc[t] = "unlocking"
             /\ m_lock' = NoThread
             /\ Goto(t, "outside")
             /\ UNCHANGED <<m_holder, m_cond>>

\* pthread_cond_wait and pthread_cond_timedwait: give the mutex up and fall
\* asleep in one step.
Wait(t) == /\ pc[t] \in {"enterWait", "enterTimedWait"}
           /\ m_lock' = NoThread
           /\ m_cond' = m_cond \cup {t}
           /\ Goto(t, IF pc[t] = "enterWait" THEN "waiting" ELSE "timedWaiting")
           /\ UNCHANGED m_holder

\* Threads leave the wait set and contend for the mutex.
Wake(ws) == /\ m_cond' = ws
            /\ pc' = [t \in Thread |-> IF t \in m_cond \ ws THEN "woken" ELSE pc[t]]
            /\ UNCHANGED <<m_lock, m_holder>>

\* Condition::notify and notifyAll, called inside the critical section.
notify(t) == pc[t] = "inside" /\ \E ws \in AfterNotify(m_cond) : Wake(ws)

notifyAll(t) == pc[t] = "inside" /\ Wake({})

\* pthread_cond_wait may return without a signal, a timed wait also because
\* its time has come.
SpuriousWakeup(t) == pc[t] = "waiting" /\ Wake(m_cond \ {t})

Timeout(t) == pc[t] = "timedWaiting" /\ Wake(m_cond \ {t})

Next == \E t \in Thread :
            \/ Lock(t) \/ assign(t) \/ unassgin(t) \/ Unlock(t)
            \/ Wait(t) \/ notify(t) \/ notifyAll(t)
            \/ SpuriousWakeup(t) \/ Timeout(t)

Spec == Init /\ [][Next]_vars
-----------------------------------------------------------------------------
\* The types, and that the threads asleep are exactly those inside pthread_cond_wait
\* or pthread_cond_timedwait.
TypeOK == /\ m_lock \in Thread \cup {NoThread}
          /\ m_holder \in Thread \cup {NoThread}
          /\ pc \in [Thread -> Labels]
          /\ m_cond = {t \in Thread : pc[t] \in {"waiting", "timedWaiting"}}

\* Between lock and unlock, and after every return from wait, a thread is
\* alone in the critical section and m_holder names it: the later assignment
\* to m_holder by a thread on its way out can never hit another's.
HolderIsInside == \A t \in Thread : pc[t] = "inside" => m_lock = t /\ m_holder = t

\* A mutex nobody owns names no holder, even while threads sleep on the
\* condition: this is what the assertion of ~MutexLock needs.
FreeMutexHasNoHolder == m_lock = NoThread => m_holder = NoThread

\* The labels at which a thread owns the mutex.
Owning == {"locked", "inside", "unlocking", "enterWait", "enterTimedWait"}

\* The inductive invariant behind the two properties above.
Inv == /\ TypeOK
       /\ \A t \in Thread : pc[t] \in Owning <=> m_lock = t
       /\ \A t \in Thread : pc[t] = "inside" <=> m_holder = t
=============================================================================
