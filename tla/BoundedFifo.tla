---------------------------- MODULE BoundedFifo ----------------------------
(***************************************************************************)
(* What base/BoundedBlockingQueue.h promises its callers, without mutex,   *)
(* condition variables or waiting: a bounded first-in first-out queue on   *)
(* which every put and every get takes effect at one instant between its   *)
(* call and its return, a put only when there is room and a get only when  *)
(* there is something to take.                                             *)
(***************************************************************************)
EXTENDS Naturals, Sequences

CONSTANTS Thread,   \* the callers
          Value,    \* the elements of type T
          NoValue,  \* held by a thread with no result
          Capacity  \* the maxSize of the constructor

VARIABLES fifo,     \* the elements, oldest first
          call,     \* the operation each thread is executing
          returned  \* what a get has returned, until the thread's next call

vars == <<fifo, call, returned>>

Idle == [op |-> "idle"]
PutCall(v) == [op |-> "put", value |-> v]
GetCall == [op |-> "get"]

Calls == {Idle, GetCall} \cup {PutCall(v) : v \in Value}

Init == /\ fifo = <<>>
        /\ call = [t \in Thread |-> Idle]
        /\ returned = [t \in Thread |-> NoValue]

Call(t) == /\ call[t] = Idle
           /\ \E c \in Calls \ {Idle} : call' = [call EXCEPT ![t] = c]
           /\ returned' = [returned EXCEPT ![t] = NoValue]
           /\ UNCHANGED fifo

Put(t) == /\ call[t].op = "put"
          /\ Len(fifo) < Capacity
          /\ fifo' = Append(fifo, call[t].value)
          /\ call' = [call EXCEPT ![t] = Idle]
          /\ UNCHANGED returned

Get(t) == /\ call[t].op = "get"
          /\ fifo # <<>>
          /\ fifo' = Tail(fifo)
          /\ returned' = [returned EXCEPT ![t] = Head(fifo)]
          /\ call' = [call EXCEPT ![t] = Idle]

Next == \E t \in Thread : Call(t) \/ Put(t) \/ Get(t)

\* Some call that can complete does: the mutex is not fair, so no one thread
\* is promised its turn.
Progress == WF_vars(\E t \in Thread : Put(t) \/ Get(t))

SafeSpec == Init /\ [][Next]_vars
Spec == SafeSpec /\ Progress
=============================================================================
