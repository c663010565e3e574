--------------------------- MODULE CountDownLatch ---------------------------
(***************************************************************************)
(* base/CountDownLatch.h/.cc: threads wait until a count reaches zero.     *)
(* countDown broadcasts only on the step that makes the count exactly 0    *)
(* and may go on below it.                                                 *)
(***************************************************************************)
EXTENDS Integers

CONSTANTS Waiter,   \* the threads that call wait
          Count,    \* the initial count
          MaxBelow  \* bound: how far below zero countDown is called

VARIABLES m_count,
          m_cond,   \* the waiters asleep
          waiter    \* each waiter is "out" of wait, "in" it or has "passed"

vars == <<m_count, m_cond, waiter>>

Init == /\ m_count = Count
        /\ m_cond = {}
        /\ waiter = [t \in Waiter |-> "out"]

callWait(t) == /\ waiter[t] = "out"
               /\ waiter' = [waiter EXCEPT ![t] = "in"]
               /\ UNCHANGED <<m_count, m_cond>>

\* One turn of the loop of wait, which holds the mutex.
wait(t) == /\ waiter[t] = "in" /\ t \notin m_cond
           /\ \/ /\ m_count > 0
                 /\ m_cond' = m_cond \cup {t}
                 /\ UNCHANGED waiter
              \/ /\ ~(m_count > 0)
                 /\ waiter' = [waiter EXCEPT ![t] = "passed"]
                 /\ UNCHANGED m_cond
           /\ UNCHANGED m_count

\* Faulty variant: the broadcast comes one event too early.
countDownEarly == /\ m_count > -MaxBelow
                  /\ m_count' = m_count - 1
                  /\ m_cond' = IF m_count' = 1 THEN {} ELSE m_cond
                  /\ UNCHANGED waiter

countDown == /\ m_count > -MaxBelow
             /\ m_count' = m_count - 1
             /\ m_cond' = IF m_count' = 0 THEN {} ELSE m_cond
             /\ UNCHANGED waiter

SpuriousWakeup(t) == /\ t \in m_cond
                     /\ m_cond' = m_cond \ {t}
                     /\ UNCHANGED <<m_count, waiter>>

Next == \/ countDown
        \/ \E t \in Waiter : callWait(t) \/ wait(t) \/ SpuriousWakeup(t)

Spec == Init /\ [][Next]_vars
-----------------------------------------------------------------------------
\* The types, and that only a thread inside CountDownLatch::wait sleeps.
TypeOK == /\ m_count \in Int
          /\ waiter \in [Waiter -> {"out", "in", "passed"}]
          /\ m_cond \subseteq {t \in Waiter : waiter[t] = "in"}

\* wait returns only when every event has been counted, whatever wakes it.
NobodyPassesEarly == \A t \in Waiter : waiter[t] = "passed" => m_count <= 0

\* The single broadcast is enough: from the moment the count is zero nobody
\* sleeps, even those who call wait later or when the count is negative.
NobodyLeftAsleep == m_count <= 0 => m_cond = {}
=============================================================================
