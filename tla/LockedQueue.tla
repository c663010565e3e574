---------------------------- MODULE LockedQueue ----------------------------
(***************************************************************************)
(* base/BoundedBlockingQueue.h again, statement by statement: put and get  *)
(* with the pthread calls and the assignments to m_holder that Mutex.h and *)
(* Condition.h make for them.  Both conditions are on the one mutex.       *)
(*                                                                         *)
(* BoundedBlockingQueue.tla takes a critical section for one action.  Here *)
(* that is shown and not assumed: this module implements that one, with    *)
(* the put or get taking effect when it sends its signal.                  *)
(***************************************************************************)
EXTENDS Naturals, Sequences

CONSTANTS Thread, Value, NoValue, Capacity,
          NoThread   \* the tid 0 of a mutex that nobody holds

VARIABLES m_lock, m_holder,          \* the MutexLock
          m_queue, m_full, m_empty,  \* the circular buffer, the sleepers on each condition
          call, returned,            \* as in BoundedBlockingQueue
          value,                     \* the local variable of get
          pc

lockVars == <<m_lock, m_holder>>
callVars == <<call, returned>>
vars == <<lockVars, m_queue, m_full, m_empty, callVars, value, pc>>

-----------------------------------------------------------------------------
(* The abstract queue *)

Idle == [op |-> "idle"]

\* Between the access to the buffer and the signal the operation has not taken
\* effect yet, from the signal on it is over.
Accessing(t) == pc[t] = "notify"
Over(t) == pc[t] \in {"unassgin", "unlock"}

atomicQueue ==
    IF \E t \in Thread : Accessing(t)
    THEN LET t == CHOOSE u \in Thread : Accessing(u)
         IN  IF call[t].op = "put" THEN SubSeq(m_queue, 1, Len(m_queue) - 1)
             ELSE <<value[t]>> \o m_queue
    ELSE m_queue

Queue == INSTANCE BoundedBlockingQueue WITH
            m_queue <- atomicQueue,
            call <- [t \in Thread |-> IF Over(t) THEN Idle ELSE call[t]],
            returned <- [t \in Thread |-> IF Over(t) THEN value[t] ELSE returned[t]]

-----------------------------------------------------------------------------
(* put and get *)

Goto(t, l) == pc' = [pc EXCEPT ![t] = l]

full == Len(m_queue) >= Capacity
empty == m_queue = <<>>

Init == /\ m_lock = NoThread /\ m_holder = NoThread
        /\ m_queue = <<>> /\ m_full = {} /\ m_empty = {}
        /\ call = [t \in Thread |-> Idle] /\ returned = [t \in Thread |-> NoValue]
        /\ value = [t \in Thread |-> NoValue]
        /\ pc = [t \in Thread |-> "outside"]

Call(t) == /\ pc[t] = "outside"
           /\ \E c \in Queue!Calls \ {Idle} : call' = [call EXCEPT ![t] = c]
           /\ returned' = [returned EXCEPT ![t] = NoValue]
           /\ Goto(t, "lock")
           /\ UNCHANGED <<lockVars, m_queue, m_full, m_empty, value>>

\* pthread_mutex_lock, and the end of pthread_cond_wait.
Lock(t) == /\ pc[t] = "lock" /\ m_lock = NoThread
           /\ m_lock' = t
           /\ Goto(t, "assign")
           /\ UNCHANGED <<m_holder, m_queue, m_full, m_empty, callVars, value>>

\* Back from lock or from wait the loop condition is tested (again).
assign(t) == /\ pc[t] = "assign"
             /\ m_holder' = t
             /\ Goto(t, "test")
             /\ UNCHANGED <<m_lock, m_queue, m_full, m_empty, callVars, value>>

mustWait(t) == IF call[t].op = "put" THEN full ELSE empty

test(t) == /\ pc[t] = "test"
           /\ Goto(t, IF mustWait(t) THEN "enterWait" ELSE "access")
           /\ UNCHANGED <<lockVars, m_queue, m_full, m_empty, callVars, value>>

\* Faulty variant: the holder is not taken out before the wait.
enterWaitHolding(t) == /\ pc[t] = "enterWait"
                       /\ Goto(t, "wait")
                       /\ UNCHANGED <<lockVars, m_queue, m_full, m_empty, callVars, value>>

\* The constructor of UnassginMutexLockGuard.
enterWait(t) == /\ pc[t] = "enterWait"
                /\ m_holder' = NoThread
                /\ Goto(t, "wait")
                /\ UNCHANGED <<m_lock, m_queue, m_full, m_empty, callVars, value>>

\* pthread_cond_wait gives the mutex up and falls asleep in one step.
wait(t) == /\ pc[t] = "wait"
           /\ m_lock' = NoThread
           /\ IF call[t].op = "put" THEN m_full' = m_full \cup {t} /\ UNCHANGED m_empty
                                    ELSE m_empty' = m_empty \cup {t} /\ UNCHANGED m_full
           /\ Goto(t, "asleep")
           /\ UNCHANGED <<m_holder, m_queue, callVars, value>>

\* push_back, or front and pop_front.
access(t) == /\ pc[t] = "access"
             /\ \/ /\ call[t].op = "put"
                   /\ m_queue' = Queue!push_back(m_queue, call[t].value)
                   /\ UNCHANGED value
                \/ /\ call[t].op = "get"
                   /\ value' = [value EXCEPT ![t] = Head(m_queue)]
                   /\ m_queue' = Tail(m_queue)
             /\ Goto(t, "notify")
             /\ UNCHANGED <<lockVars, m_full, m_empty, callVars>>

\* Those who are no longer asleep contend for the mutex.
Wake(awake, t, l) == pc' = [u \in Thread |-> IF u = t THEN l
                                             ELSE IF u \in awake THEN "lock" ELSE pc[u]]

\* Faulty variant: the conditions are confused.
notifyOwnSide(t) == /\ pc[t] = "notify"
                    /\ \/ /\ call[t].op = "get"
                          /\ m_empty' \in Queue!AfterNotify(m_empty) /\ UNCHANGED m_full
                          /\ Wake(m_empty \ m_empty', t, "unassgin")
                       \/ /\ call[t].op = "put"
                          /\ m_full' \in Queue!AfterNotify(m_full) /\ UNCHANGED m_empty
                          /\ Wake(m_full \ m_full', t, "unassgin")
                    /\ UNCHANGED <<lockVars, m_queue, callVars, value>>

notify(t) == /\ pc[t] = "notify"
             /\ \/ /\ call[t].op = "put"
                   /\ m_empty' \in Queue!AfterNotify(m_empty) /\ UNCHANGED m_full
                   /\ Wake(m_empty \ m_empty', t, "unassgin")
                \/ /\ call[t].op = "get"
                   /\ m_full' \in Queue!AfterNotify(m_full) /\ UNCHANGED m_empty
                   /\ Wake(m_full \ m_full', t, "unassgin")
             /\ UNCHANGED <<lockVars, m_queue, callVars, value>>

\* MutexLock::unlock.
unassgin(t) == /\ pc[t] = "unassgin"
               /\ m_holder' = NoThread
               /\ Goto(t, "unlock")
               /\ UNCHANGED <<m_lock, m_queue, m_full, m_empty, callVars, value>>

Unlock(t) == /\ pc[t] = "unlock"
             /\ m_lock' = NoThread
             /\ call' = [call EXCEPT ![t] = Idle]
             /\ returned' = [returned EXCEPT ![t] = value[t]]
             /\ value' = [value EXCEPT ![t] = NoValue]
             /\ Goto(t, "outside")
             /\ UNCHANGED <<m_holder, m_queue, m_full, m_empty>>

SpuriousWakeup(t) == /\ pc[t] = "asleep"
                     /\ m_full' = m_full \ {t} /\ m_empty' = m_empty \ {t}
                     /\ Goto(t, "lock")
                     /\ UNCHANGED <<lockVars, m_queue, callVars, value>>

\* What a thread does in a critical section.
Inside(t) == \/ assign(t) \/ test(t) \/ enterWait(t) \/ wait(t)
             \/ access(t) \/ notify(t) \/ unassgin(t) \/ Unlock(t)

Next == \E t \in Thread : Call(t) \/ Lock(t) \/ Inside(t) \/ SpuriousWakeup(t)

\* Threads go on, and the mutex passes no contender over forever.
Fairness == \A t \in Thread : WF_vars(Inside(t)) /\ SF_vars(Lock(t))

Spec == Init /\ [][Next]_vars /\ Fairness
-----------------------------------------------------------------------------
\* The types; a thread is in the set of the condition it sleeps on.
TypeOK == /\ m_lock \in Thread \cup {NoThread} /\ m_holder \in Thread \cup {NoThread}
          /\ m_queue \in Seq(Value) /\ Len(m_queue) <= Capacity
          /\ call \in [Thread -> Queue!Calls]
          /\ returned \in [Thread -> Value \cup {NoValue}]
          /\ value \in [Thread -> Value \cup {NoValue}]
          /\ pc \in [Thread -> {"outside", "lock", "assign", "test", "enterWait", "wait", "asleep",
                               "access", "notify", "unassgin", "unlock"}]
          /\ m_full = {t \in Thread : pc[t] = "asleep" /\ call[t].op = "put"}
          /\ m_empty = {t \in Thread : pc[t] = "asleep" /\ call[t].op = "get"}

\* Mutex.h, Condition.h and the loops of put and get make a critical section
\* one atomic step: what the threads do statement by statement is a behaviour of
\* the queue of BoundedBlockingQueue.tla, its progress included.
AtomicSpec == Queue!Spec

\* In a critical section m_holder names the thread that is in it, also after a
\* wait, and a mutex nobody owns names nobody, also while threads sleep on it:
\* the assertion of ~MutexLock holds, and no late assignment on the way out
\* hits the holder that follows.
HolderExact ==
    /\ \A t \in Thread : pc[t] \in {"test", "access", "notify"} => m_lock = t /\ m_holder = t
    /\ m_lock = NoThread => m_holder = NoThread
=============================================================================
