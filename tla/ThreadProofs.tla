---------------------------- MODULE ThreadProofs ----------------------------
(***************************************************************************)
(* Proofs about Thread.h and Thread.cc for every set of Thread objects.    *)
(* The objects are independent of each other, so the invariant is one per  *)
(* object, and each of the twelve actions disturbs that of its own only.   *)
(***************************************************************************)
EXTENDS Thread, TLAPS

LEMMA InitInv == Init => Inv
BY DEF Init, Inv, TypeOK, None, Owners, ObjectKnows, ThreadHas, PthreadOf

\* The constructor, start, join and the destructor.
LEMMA OwnerKeepsInv ==
    ASSUME Inv, NEW t \in Threads, OwnerStep(t)
    PROVE  Inv'
<1> USE DEF Inv, TypeOK, None, Owners, ObjectKnows, ThreadHas, PthreadOf
<1>1. CASE Create(t)
  BY <1>1 DEF Create
<1>2. CASE start(t)
  BY <1>2 DEF start
<1>3. CASE pthread_create(t)
  BY <1>3 DEF pthread_create
<1>4. CASE startReturns(t)
  BY <1>4 DEF startReturns
<1>5. CASE startFails(t)
  BY <1>5 DEF startFails
<1>6. CASE join(t)
  BY <1>6 DEF join
<1>7. CASE joinReturns(t)
  BY <1>7 DEF joinReturns
<1>8. CASE Destroy(t)
  BY <1>8 DEF Destroy, mustDetach, detached
<1> QED BY <1>1, <1>2, <1>3, <1>4, <1>5, <1>6, <1>7, <1>8 DEF OwnerStep

\* startThread and runInThread, in the new thread.
LEMMA ThreadKeepsInv ==
    ASSUME Inv, NEW t \in Threads, ThreadStep(t)
    PROVE  Inv'
<1> USE DEF Inv, TypeOK, None, Owners, ObjectKnows, ThreadHas, PthreadOf
<1>1. CASE lock(t)
  <2>1. /\ pc[t] = "lock"
        /\ t_threadname' = [t_threadname EXCEPT ![t] = "m_name"]
        /\ UNCHANGED <<object, m_started, m_joined, td, pthread>>
    BY <1>1 DEF lock
  <2>2. CASE m_sharedtid[t].owners > 0
    <3>1. /\ pc' = [pc EXCEPT ![t] = "assign"]
          /\ m_sharedtid' = [m_sharedtid EXCEPT ![t].owners = @ + 1]
      BY <1>1, <2>2 DEF lock
    <3>2. object[t] \notin {"unborn", "destroyed"} /\ m_sharedtid[t].owners = 1
      BY <2>1, <2>2
    <3> QED BY <2>1, <3>1, <3>2
  <2>3. CASE ~(m_sharedtid[t].owners > 0)
    <3>1. pc' = [pc EXCEPT ![t] = "func"] /\ m_sharedtid' = m_sharedtid
      BY <1>1, <2>3 DEF lock
    <3>2. object[t] = "destroyed"
      BY <2>1, <2>3
    <3> QED BY <2>1, <3>1, <3>2
  <2> QED BY <2>2, <2>3
<1>2. CASE assign(t)
  BY <1>2 DEF assign
<1>3. CASE func(t)
  BY <1>3 DEF func
<1>4. CASE exit(t)
  BY <1>4 DEF exit
<1> QED BY <1>1, <1>2, <1>3, <1>4 DEF ThreadStep

LEMMA InvHolds == Spec => []Inv
<1>1. Inv /\ [Next]_vars => Inv'
  <2> SUFFICES ASSUME Inv, [Next]_vars PROVE Inv'
      OBVIOUS
  <2>1. CASE Next
    BY <2>1, OwnerKeepsInv, ThreadKeepsInv DEF Next
  <2>2. CASE UNCHANGED vars
    BY <2>2 DEF vars, Inv, TypeOK, Owners, ObjectKnows, ThreadHas, PthreadOf
  <2> QED BY <2>1, <2>2
<1> QED BY <1>1, InitInv, PTL DEF Spec

\* For every number of Thread objects, whenever they are destroyed: the pid_t
\* that runInThread writes and tid() reads is owned, and the name the thread
\* goes by lies in a ThreadData that startThread has not deleted yet.
THEOREM NothingDangles == Spec => []NoDangling
<1>1. Inv => NoDangling
  <2> SUFFICES ASSUME Inv, NEW t \in Threads
               PROVE  /\ pc[t] = "assign" => m_sharedtid[t].owners > 0
                      /\ object[t] \notin {"unborn", "destroyed"} => m_sharedtid[t].owners > 0
                      /\ t_threadname[t] = "m_name" => td[t] = "alive"
      BY DEF NoDangling
  <2>1. m_sharedtid[t].owners = Owners(t) /\ ThreadHas(t)
    BY DEF Inv
  <2>2. pc[t] = "assign" => m_sharedtid[t].owners > 0
    BY <2>1 DEF Owners
  <2>3. object[t] \notin {"unborn", "destroyed"} => m_sharedtid[t].owners > 0
    BY <2>1 DEF Owners
  <2>4. t_threadname[t] = "m_name" => td[t] = "alive"
    BY <2>1 DEF ThreadHas
  <2> QED BY <2>2, <2>3, <2>4
<1> QED BY <1>1, InvHolds, PTL

\* The destructor of Thread and the end of startThread together free the
\* ThreadData, the pid_t and the pthread, in whatever order they come.
THEOREM NothingIsLeft == Spec => []NothingLeft
<1>1. Inv => NothingLeft
  BY DEF Inv, TypeOK, NothingLeft, Owners, ObjectKnows, ThreadHas, PthreadOf
<1> QED BY <1>1, InvHolds, PTL

\* join returns after the thread's function has, and tid() is then the tid.
THEOREM JoinMeansDone == Spec => []JoinedIsDone
<1>1. Inv => JoinedIsDone
  BY DEF Inv, TypeOK, JoinedIsDone, ObjectKnows, ThreadHas
<1> QED BY <1>1, InvHolds, PTL
=============================================================================
