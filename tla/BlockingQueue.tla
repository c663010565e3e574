--------------------------- MODULE BlockingQueue ---------------------------
(***************************************************************************)
(* base/BlockingQueue.h: an unbounded deque under one mutex and one        *)
(* condition variable.  put never blocks and signals once per element.     *)
(***************************************************************************)
EXTENDS Naturals, Sequences

CONSTANTS Thread, Value,
          NoValue,  \* held by a thread whose get has not returned
          MaxLen    \* bound: no put when this many elements are queued

VARIABLES m_deque,
          m_cond,    \* the threads asleep in get
          getting,   \* the threads inside get
          returned   \* what a get has returned, until the thread's next call

vars == <<m_deque, m_cond, getting, returned>>

Init == /\ m_deque = <<>>
        /\ m_cond = {} /\ getting = {}
        /\ returned = [t \in Thread |-> NoValue]

\* Faulty variant: the signal is forgotten.
NoNotify(ws) == {ws}

\* Condition::notify: the wait set a signal may leave.
AfterNotify(ws) == IF ws = {} THEN {ws} ELSE {ws \ {w} : w \in ws}

put(v) == /\ Len(m_deque) < MaxLen
          /\ m_deque' = Append(m_deque, v)
          /\ m_cond' \in AfterNotify(m_cond)
          /\ UNCHANGED <<getting, returned>>

callGet(t) == /\ t \notin getting
              /\ getting' = getting \cup {t}
              /\ returned' = [returned EXCEPT ![t] = NoValue]
              /\ UNCHANGED <<m_deque, m_cond>>

\* One turn of the loop of get, which holds the mutex.
get(t) == /\ t \in getting \ m_cond
          /\ \/ /\ m_deque = <<>>
                /\ m_cond' = m_cond \cup {t}
                /\ UNCHANGED <<m_deque, getting, returned>>
             \/ /\ m_deque # <<>>
                /\ returned' = [returned EXCEPT ![t] = Head(m_deque)]
                /\ m_deque' = Tail(m_deque)
                /\ getting' = getting \ {t}
                /\ UNCHANGED m_cond

SpuriousWakeup(t) == /\ t \in m_cond
                     /\ m_cond' = m_cond \ {t}
                     /\ UNCHANGED <<m_deque, getting, returned>>

Next == \/ \E v \in Value : put(v)
        \/ \E t \in Thread : callGet(t) \/ get(t) \/ SpuriousWakeup(t)

Spec == Init /\ [][Next]_vars
-----------------------------------------------------------------------------
\* The types, and that only a thread inside BlockingQueue::get sleeps.
TypeOK == /\ m_deque \in Seq(Value)
          /\ getting \subseteq Thread /\ m_cond \subseteq getting
          /\ returned \in [Thread -> Value \cup {NoValue}]

\* No signal of put is lost: a thread sleeps in get while elements are queued
\* only if another thread inside get is awake to take one.
NoLostWakeup == m_cond # {} /\ m_deque # <<>> => getting \ m_cond # {}
=============================================================================
