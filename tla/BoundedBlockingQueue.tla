------------------------ MODULE BoundedBlockingQueue ------------------------
(***************************************************************************)
(* base/BoundedBlockingQueue.h: a boost::circular_buffer under one mutex   *)
(* with two condition variables.  Putters wait on m_full while the buffer  *)
(* is full, getters wait on m_empty while it is empty.                     *)
(*                                                                         *)
(* A critical section (from taking the mutex, or from coming back from a   *)
(* wait, to the next wait or to the return) is one action; Monitor.tla     *)
(* shows that Mutex.h and Condition.h make it so.  A thread that is in a   *)
(* call and in no wait set is one that contends for the mutex.             *)
(***************************************************************************)
EXTENDS Naturals, Sequences, FiniteSets

CONSTANTS Thread, Value, NoValue, Capacity

ASSUME ThreadAssumption == IsFiniteSet(Thread)
ASSUME CapacityAssumption == Capacity \in Nat
ASSUME NoValueAssumption == NoValue \notin Value

VARIABLES m_queue,   \* the circular buffer, oldest element first
          m_full,    \* the threads waiting on the condition m_full
          m_empty,   \* the threads waiting on the condition m_empty
          call,      \* the operation each thread is executing
          returned   \* what a get has returned, until the thread's next call

vars == <<m_queue, m_full, m_empty, call, returned>>

Idle == [op |-> "idle"]
PutCall(v) == [op |-> "put", value |-> v]
GetCall == [op |-> "get"]
Calls == {Idle, GetCall} \cup {PutCall(v) : v \in Value}

\* Faulty variant: off by one.
fullTooLate == Len(m_queue) > Capacity

full == Len(m_queue) >= Capacity
empty == m_queue = <<>>

\* circular_buffer::push_back: on a full buffer it overwrites the oldest
\* element, and a buffer of capacity 0 ignores it.
push_back(q, v) ==
    IF Len(q) < Capacity THEN Append(q, v)
    ELSE IF Capacity = 0 THEN q ELSE Append(Tail(q), v)

\* Faulty variant: the signal is forgotten.
NoNotify(ws) == {ws}

\* Condition::notify: the wait set a signal may leave, one waiter less if any.
AfterNotify(ws) == IF ws = {} THEN {ws} ELSE {ws \ {w} : w \in ws}

Init == /\ m_queue = <<>>
        /\ m_full = {} /\ m_empty = {}
        /\ call = [t \in Thread |-> Idle]
        /\ returned = [t \in Thread |-> NoValue]

Call(t) == /\ call[t] = Idle
           /\ \E c \in Calls \ {Idle} : call' = [call EXCEPT ![t] = c]
           /\ returned' = [returned EXCEPT ![t] = NoValue]
           /\ UNCHANGED <<m_queue, m_full, m_empty>>

\* A thread executing op that waits on neither condition.
Running(t, op) == call[t].op = op /\ t \notin m_full \cup m_empty

\* Faulty variant: put waits on the wrong condition.
PutWaitOnEmpty(t) == /\ Running(t, "put")
                     /\ full
                     /\ m_empty' = m_empty \cup {t}
                     /\ UNCHANGED <<m_queue, m_full, call, returned>>

PutWait(t) == /\ Running(t, "put")
              /\ full
              /\ m_full' = m_full \cup {t}
              /\ UNCHANGED <<m_queue, m_empty, call, returned>>

Put(t) == /\ Running(t, "put")
          /\ ~full
          /\ m_queue' = push_back(m_queue, call[t].value)
          /\ m_empty' \in AfterNotify(m_empty)
          /\ call' = [call EXCEPT ![t] = Idle]
          /\ UNCHANGED <<m_full, returned>>

GetWait(t) == /\ Running(t, "get")
              /\ empty
              /\ m_empty' = m_empty \cup {t}
              /\ UNCHANGED <<m_queue, m_full, call, returned>>

Get(t) == /\ Running(t, "get")
          /\ ~empty
          /\ returned' = [returned EXCEPT ![t] = Head(m_queue)]
          /\ m_queue' = Tail(m_queue)
          /\ m_full' \in AfterNotify(m_full)
          /\ call' = [call EXCEPT ![t] = Idle]
          /\ UNCHANGED m_empty

\* pthread_cond_wait may return without a signal.
SpuriousWakeup(t) == /\ t \in m_full \cup m_empty
                     /\ m_full' = m_full \ {t}
                     /\ m_empty' = m_empty \ {t}
                     /\ UNCHANGED <<m_queue, call, returned>>

\* What a thread does once it has the mutex.
Step(t) == PutWait(t) \/ Put(t) \/ GetWait(t) \/ Get(t)

Next == \E t \in Thread : Call(t) \/ Step(t) \/ SpuriousWakeup(t)

SafeSpec == Init /\ [][Next]_vars

\* Critical sections are finite, so a thread that contends for the mutex gets
\* it sooner or later; no signal beyond those the code sends is assumed.
Spec == SafeSpec /\ \A t \in Thread : WF_vars(Step(t))
-----------------------------------------------------------------------------
\* The types, the bound of the circular buffer, and that a thread sleeps on the
\* condition of its own operation only: notify, and not notifyAll, is enough in
\* put and get because a signal cannot wake a thread that has no use for it.
TypeOK == /\ m_queue \in Seq(Value)
          /\ Len(m_queue) <= Capacity
          /\ call \in [Thread -> Calls]
          /\ returned \in [Thread -> Value \cup {NoValue}]
          /\ m_full \subseteq {t \in Thread : call[t].op = "put"}
          /\ m_empty \subseteq {t \in Thread : call[t].op = "get"}

\* The threads inside op that are not asleep: each will look at the queue
\* again before it returns.
Awake(op) == {t \in Thread : Running(t, op)}

\* No wakeup of put or get is lost: while a getter sleeps on m_empty, the
\* queue holds an element only if a getter is awake to take it, and while a
\* putter sleeps on m_full there is room only if a putter is awake to use it.
\* BoundedBlockingQueue::put and get send one signal per element and per slot.
NoLostWakeup ==
    /\ m_empty # {} /\ ~empty => Awake("get") # {}
    /\ m_full # {} /\ ~full => Awake("put") # {}

\* The inductive form of NoLostWakeup: it is not enough that one thread is
\* awake, there must be one for every element (every free slot), since each of
\* them takes one element only and signals the other condition.
WakeupsSuffice ==
    /\ m_empty # {} => Len(m_queue) <= Cardinality(Awake("get"))
    /\ m_full # {} => Capacity - Len(m_queue) <= Cardinality(Awake("put"))

Inv == TypeOK /\ WakeupsSuffice

Fifo == INSTANCE BoundedFifo WITH fifo <- m_queue

\* The mutex, the waiting and the signalling implement the bounded fifo of
\* BoundedFifo.tla: no element is lost, duplicated, overwritten or reordered
\* by any interleaving of put and get, and calls that can complete do.
FifoSpec == Fifo!Spec

\* The safety part of FifoSpec.
FifoSafeSpec == Fifo!SafeSpec
=============================================================================
