----------------------------- MODULE NetProofs -----------------------------
(***************************************************************************)
(* Proofs about the components of net/, which share nothing: Acceptor for  *)
(* every limit on the descriptors, every number of clients, and other      *)
(* threads that open and close descriptors at any moment; Channel for      *)
(* every number of references to its owner; Buffer for all sizes, all byte *)
(* strings and all integers.                                               *)
(***************************************************************************)
EXTENDS Acceptor, Channel, Buffer, SequenceTheorems, FiniteSetTheorems,
        WellFoundedInduction, TLAPS

-----------------------------------------------------------------------------
(* Acceptor *)

\* A set of natural numbers that is not empty has a smallest element.
LEMMA HasMinimum ==
    ASSUME NEW T \in SUBSET Nat, T # {}
    PROVE  \E x \in T : \A y \in T : x <= y
<1>1. PICK x \in T : \A y \in T : <<y, x>> \notin OpToRel(<, Nat)
  BY NatLessThanWellFounded, WFMin, Zenon
<1>2. \A y \in T : ~(y < x)
  BY <1>1 DEF OpToRel
<1> QED BY <1>2

\* The kernel finds the lowest free descriptor if there is one.
LEMMA LowestIsFree == Free # {} => Lowest \in Fd /\ table[Lowest] = "free"
<1> SUFFICES ASSUME Free # {} PROVE Lowest \in Fd /\ table[Lowest] = "free"
    OBVIOUS
<1>1. Free \in SUBSET Nat
  BY MaxFdAssumption DEF Free, Fd
<1>2. \E fd \in Free : \A g \in Free : fd <= g
  BY <1>1, HasMinimum
<1>3. Lowest \in Free
  BY <1>2 DEF Lowest
<1> QED BY <1>3 DEF Free

\* The constructor begins with none of its descriptors open.
LEMMA AcceptorInitInv == AcceptorInit => AcceptorInv
<1> SUFFICES ASSUME AcceptorInit PROVE AcceptorInv
    OBVIOUS
<1>1. table \in [Fd -> Uses] /\ \A fd \in Fd : table[fd] \in {"other", "free"}
  BY DEF AcceptorInit, Uses
<1>2. connects \in 0..MaxConnects /\ backlog \in 0..connects
  BY BoundAssumption DEF AcceptorInit
<1>3. listenning_ \in BOOLEAN /\ newConnectionCallback_ \in BOOLEAN
  BY DEF AcceptorInit
<1>4. AcceptorTypeOK
  BY <1>1, <1>2, <1>3 DEF AcceptorInit, AcceptorTypeOK
<1> QED BY <1>1, <1>4, MaxFdAssumption
        DEF AcceptorInit, AcceptorInv, OnlyOwnClosed, Spared, Stages, None, Fd

\* One step per action, those of other threads included.
LEMMA AcceptorNextInv == AcceptorInv /\ [AcceptorNext]_acceptorVars => AcceptorInv'
<1> SUFFICES ASSUME AcceptorInv, [AcceptorNext]_acceptorVars PROVE AcceptorInv'
    OBVIOUS
<1>0. None \notin Fd
  BY MaxFdAssumption DEF None, Fd
<1>f. Free # {} => Lowest \in Fd /\ table[Lowest] = "free"
  BY LowestIsFree
<1> USE <1>0, MaxFdAssumption, BoundAssumption
    DEF AcceptorInv, AcceptorTypeOK, OnlyOwnClosed, Spared, Unspared, Stages, Uses, Free
<1>1. CASE Connect
  BY <1>1 DEF Connect, memberVars
<1>2. CASE Abort
  BY <1>2 DEF Abort, memberVars
<1>3. CASE OpenOther
  <2> DEFINE x == Lowest
  <2>1. x \in Fd /\ table[x] = "free" /\ table' = [table EXCEPT ![x] = "other"]
    BY <1>3, <1>f DEF OpenOther
  <2> HIDE DEF x
  <2>2. /\ table' \in [Fd -> Uses]
        /\ \A fd \in Fd : table'[fd] = IF fd = x THEN "other" ELSE table[fd]
    BY <2>1
  <2>3. /\ UNCHANGED <<acceptSocket_, idleFd_, listenning_, newConnectionCallback_, connects, backlog, pc>>
        /\ robbed' = (robbed \/ pc \in {"acceptIdle", "closeShed", "reopen"})
    BY <1>3 DEF OpenOther, memberVars, clientVars
  <2>4. AcceptorTypeOK'
    BY <2>2, <2>3
  <2>5. OnlyOwnClosed'
    BY <2>1, <2>2, <2>3
  <2> QED BY <2>1, <2>2, <2>3, <2>4, <2>5
<1>4. CASE CloseOther
  BY <1>4 DEF CloseOther, memberVars, clientVars
<1>5. CASE socket
  BY <1>5, <1>f DEF socket, opened, openedFd, clientVars
<1>6. CASE openIdle
  BY <1>6, <1>f DEF openIdle, opened, openedFd, clientVars
<1>7. CASE bindAddress
  BY <1>7 DEF bindAddress, Advance, memberVars, clientVars
<1>8. CASE listen
  BY <1>8 DEF listen, Advance, clientVars
<1>9. CASE destroyAcceptor
  BY <1>9 DEF destroyAcceptor, memberVars
<1>10. CASE handleRead \/ acceptFails \/ acceptFull \/ acceptFullMasked
  BY <1>10 DEF handleRead, acceptFails, acceptFull, acceptFullMasked, memberVars, clientVars
<1>11. CASE acceptNew
  BY <1>11, <1>f DEF acceptNew, memberVars
<1>12. CASE closeIdle
  BY <1>12 DEF closeIdle, closed, memberVars, clientVars
<1>13. CASE acceptIdle
  BY <1>13, <1>f DEF acceptIdle, accepted
<1>14. CASE closeShed
  BY <1>14 DEF closeShed, closed, memberVars, clientVars
<1>15. CASE reopen
  BY <1>15, <1>f DEF reopen, opened, openedFd, clientVars
<1>16. CASE UNCHANGED acceptorVars
  BY <1>16 DEF acceptorVars, memberVars, clientVars
<1> QED BY <1>1, <1>2, <1>3, <1>4, <1>5, <1>6, <1>7, <1>8, <1>9, <1>10, <1>11, <1>12,
           <1>13, <1>14, <1>15, <1>16 DEF AcceptorNext, Construct, LoopStep

\* The invariant holds in every reachable state.
LEMMA AcceptorInvHolds == AcceptorSafeSpec => []AcceptorInv
BY AcceptorInitInv, AcceptorNextInv, PTL DEF AcceptorSafeSpec

\* For every limit of descriptors, every number of clients and whatever other
\* threads do in between, shedding leaks no descriptor, and what it and the
\* destructor close is the acceptor's own.
THEOREM ClosesOnlyItsOwn == AcceptorSafeSpec => []OnlyOwnClosed
<1>1. AcceptorInv => OnlyOwnClosed
  BY DEF AcceptorInv
<1> QED BY <1>1, AcceptorInvHolds, PTL

\* For every limit of descriptors the spare one is there again after handleRead,
\* unless another thread has opened one in between.
THEOREM SpareComesBack == AcceptorSafeSpec => []SpareHeld
<1>1. AcceptorInv => SpareHeld
  BY DEF AcceptorInv, SpareHeld, Spared
<1> QED BY <1>1, AcceptorInvHolds, PTL

-----------------------------------------------------------------------------
(* Channel *)

\* A new channel watches nothing.
LEMMA ChannelInitInv == ChannelInit => ChannelInv
<1> SUFFICES ASSUME ChannelInit PROVE ChannelInv
    OBVIOUS
<1>1. /\ events_ \subseteq Bits /\ revents_ \subseteq Bits /\ wanted \subseteq Bits
      /\ refs \in 0..MaxRefs /\ refs = 1
      /\ stage = "idle" /\ called \subseteq DOMAIN After
      /\ callbacks \subseteq DOMAIN After /\ kept \subseteq callbacks
  BY MaxRefsAssumption DEF ChannelInit, kNoneEvent
<1>2. /\ tied_ \in BOOLEAN /\ eventHandling_ \in BOOLEAN /\ addedToLoop_ \in BOOLEAN
      /\ inLoop \in BOOLEAN /\ guard \in BOOLEAN /\ alive \in BOOLEAN
      /\ alive /\ ~guard /\ ~eventHandling_ /\ ~addedToLoop_ /\ ~inLoop
  BY DEF ChannelInit
<1>3. ChannelTypeOK
  BY <1>1, <1>2 DEF ChannelTypeOK
<1> QED BY <1>1, <1>2, <1>3 DEF ChannelInv

\* What a handleEvent that has come to the stage s has called: callbacks whose
\* events were reported, all of them that have been set all the time.
CalledOK(s) == /\ called \subseteq {r \in Passed(s) : Due(r)}
               /\ {r \in Passed(s) : Due(r)} \cap kept \subseteq called

\* The next test is made with the events that were reported at the start.
LEMMA NextStage ==
    ASSUME ChannelInv, callback
    PROVE  /\ stage' \in {"error", "read", "write", "done"}
           /\ called' \subseteq {r \in Passed(stage') : Due(r)}
           /\ {r \in Passed(stage') : Due(r)} \cap kept \subseteq called'
           /\ called' \subseteq DOMAIN After
<1>0. /\ stage \in DOMAIN After /\ CalledOK(stage) /\ kept \subseteq callbacks
      /\ called \subseteq DOMAIN After
      /\ stage' = After[stage]
      /\ called' = IF Due(stage) THEN called \cup ({stage} \cap callbacks) ELSE called
  BY DEF callback, ChannelInv, ChannelTypeOK, After, CalledOK
<1>1. stage' \in {"error", "read", "write", "done"} /\ Passed(stage') = Passed(stage) \cup {stage}
  BY <1>0 DEF Passed, After
<1> QED BY <1>0, <1>1 DEF CalledOK

\* One step per operation and per stage of handleEvent.
LEMMA ChannelNextInv == ChannelInv /\ [ChannelNext]_channelVars => ChannelInv'
<1> SUFFICES ASSUME ChannelInv, [ChannelNext]_channelVars PROVE ChannelInv'
    OBVIOUS
<1> USE MaxRefsAssumption DEF ChannelInv, ChannelTypeOK
\* What a handleEvent that is under way has found out stays as it is.
<1>h. ASSUME UNCHANGED <<stage, revents_, called>>, kept' \subseteq kept
      PROVE  (stage # "idle" => /\ called \subseteq {s \in Passed(stage) : Due(s)}
                                /\ {s \in Passed(stage) : Due(s)} \cap kept \subseteq called)'
  BY <1>h DEF Due, closeDue, Passed
<1>1. CASE ChangeInterest
  <2>1. events_' \subseteq Bits /\ wanted' \subseteq Bits /\ addedToLoop_' = TRUE /\ inLoop' = TRUE
    BY <1>1 DEF ChangeInterest, enable, disable, disableAll, update, kNoneEvent, kReadEvent,
                kWriteEvent, Bits
  <2> QED BY <1>1, <1>h, <2>1 DEF ChangeInterest, ownerVars, callbackVars, handleVars
<1>a. ASSUME NEW s \in DOMAIN After, setCallback(s) PROVE ChannelInv'
  <2>1. /\ kept' \subseteq kept /\ kept' \subseteq callbacks' /\ callbacks' \subseteq DOMAIN After
    BY <1>a DEF setCallback
  <2>2. UNCHANGED <<events_, addedToLoop_, inLoop, wanted, tied_, refs, guard, alive, revents_,
                    eventHandling_, stage, called>>
    BY <1>a DEF setCallback, maskVars, ownerVars, handleVars
  <2> QED BY <1>h, <2>1, <2>2
<1>2. CASE remove
  BY <1>2, <1>h DEF remove, ownerVars, callbackVars, handleVars
<1>3. CASE tie
  BY <1>3, <1>h DEF tie, maskVars, ownerVars, callbackVars, handleVars
<1>4. CASE share
  BY <1>4, <1>h DEF share, maskVars, callbackVars, handleVars
<1>5. CASE drop
  <2>1. CASE refs' = 0 /\ ~guard
    <3>1. /\ ~alive' /\ ~inLoop' /\ ~addedToLoop_' /\ alive' \in BOOLEAN
          /\ inLoop' \in BOOLEAN /\ addedToLoop_' \in BOOLEAN
          /\ events_' = {} /\ wanted' = {}
      BY <1>5, <2>1 DEF drop, destroyOwner, kNoneEvent
    <3>a. /\ refs' \in 0..MaxRefs
          /\ UNCHANGED <<tied_, guard, callbacks, kept, revents_, eventHandling_, stage, called>>
      BY <1>5, <2>1 DEF drop, callbackVars, handleVars
    <3>2. stage = "idle"
      BY <1>5, <2>1 DEF drop
    <3> QED BY <2>1, <3>1, <3>a, <3>2
  <2>2. CASE ~(refs' = 0 /\ ~guard)
    <3>1. UNCHANGED <<events_, addedToLoop_, inLoop, wanted, alive>>
      BY <1>5, <2>2 DEF drop, maskVars
    <3>2. UNCHANGED <<tied_, guard, callbacks, kept, revents_, eventHandling_, stage, called>>
      BY <1>5 DEF drop, callbackVars, handleVars
    <3>3. refs' \in 0..MaxRefs /\ alive
      BY <1>5 DEF drop
    <3> QED BY <2>2, <3>1, <3>2, <3>3, <1>h
  <2> QED BY <2>1, <2>2
<1>6. CASE handleEvent
  <2>1. /\ revents_' \subseteq Bits
        /\ stage' = "close" /\ called' = {} /\ stage = "idle"
        /\ kept' = callbacks /\ callbacks' = callbacks
    BY <1>6, PollAssumption DEF handleEvent
  <2>2. guard' = tied_ /\ eventHandling_' = TRUE
    BY <1>6 DEF handleEvent, lock
  <2>5. alive /\ (guard' \/ refs > 0)
    BY <1>6 DEF handleEvent, lock
  <2>3. Passed(stage') = {}
    BY <2>1 DEF Passed
  <2>4. UNCHANGED <<events_, addedToLoop_, inLoop, wanted, tied_, refs, alive>>
    BY <1>6 DEF handleEvent, maskVars
  <2> QED BY <2>1, <2>2, <2>3, <2>4, <2>5 DEF After
<1>7. CASE callback
  <2>1. UNCHANGED <<events_, addedToLoop_, inLoop, wanted, tied_, refs, guard, alive, revents_,
                    eventHandling_, callbacks, kept>> /\ stage # "idle"
    BY <1>7 DEF callback, After, maskVars, ownerVars, callbackVars
  <2>2. /\ called' \subseteq {s \in Passed(stage') : Due(s)'}
        /\ {s \in Passed(stage') : Due(s)'} \cap kept' \subseteq called'
    BY <1>7, <2>1, NextStage DEF Due, closeDue
  <2>3. stage' \in {"error", "read", "write", "done"} /\ called' \subseteq DOMAIN After
    BY <1>7, NextStage
  <2> QED BY <2>1, <2>2, <2>3 DEF After
<1>8. CASE handled
  <2>1. /\ stage = "done" /\ stage' = "idle" /\ ~guard' /\ guard' \in BOOLEAN
        /\ ~eventHandling_' /\ eventHandling_' \in BOOLEAN
        /\ called' = {} /\ kept' = {} /\ UNCHANGED <<tied_, refs, revents_, callbacks>>
    BY <1>8 DEF handled
  <2>2. CASE guard /\ refs = 0
    <3>1. /\ ~alive' /\ ~inLoop' /\ ~addedToLoop_' /\ alive' \in BOOLEAN
          /\ inLoop' \in BOOLEAN /\ addedToLoop_' \in BOOLEAN
          /\ events_' = {} /\ wanted' = {}
      BY <1>8, <2>2 DEF handled, destroyOwner, kNoneEvent
    <3> QED BY <2>1, <2>2, <3>1
  <2>3. CASE ~(guard /\ refs = 0)
    <3>1. UNCHANGED <<events_, addedToLoop_, inLoop, wanted, alive>>
      BY <1>8, <2>3 DEF handled, maskVars
    <3> QED BY <2>1, <2>3, <3>1
  <2> QED BY <2>2, <2>3
<1>9. CASE UNCHANGED channelVars
  BY <1>9, <1>h DEF channelVars, maskVars, ownerVars, callbackVars, handleVars
<1> QED BY <1>1, <1>a, <1>2, <1>3, <1>4, <1>5, <1>6, <1>7, <1>8, <1>9 DEF ChannelNext

\* The invariant holds in every reachable state.
LEMMA ChannelInvHolds == ChannelSpec => []ChannelInv
BY ChannelInitInv, ChannelNextInv, PTL DEF ChannelSpec

\* Whatever the callbacks do with any number of references, the owner of a
\* channel lives until its handleEvent is over.
THEOREM HandlingIsOutlived == ChannelSpec => []OwnerOutlivesHandling
<1>1. ChannelInv => OwnerOutlivesHandling
  BY DEF ChannelInv, OwnerOutlivesHandling
<1> QED BY <1>1, ChannelInvHolds, PTL

\* Whatever poll reports of the bits it names reaches the callbacks they are for
\* that are set all the time, and no other ones: a hangup with data still to read
\* is read and not closed.
THEOREM ReportsAreHandled == ChannelSpec => []EveryReportHandled
<1>1. ChannelInv => EveryReportHandled
  <2> DEFINE concerned == {Handler(bit) : bit \in revents_ \ {"other"}}
  <2> SUFFICES ASSUME ChannelInv, stage = "done"
               PROVE  concerned \cap kept \subseteq called /\ called \subseteq concerned
      BY DEF EveryReportHandled
  <2>1. revents_ \subseteq Bits
    BY DEF ChannelInv, ChannelTypeOK
  <2>2. \A bit \in revents_ \ {"other"} :
            Handler(bit) \in {"close", "error", "read", "write"} /\ Due(Handler(bit))
    BY <2>1 DEF Bits, Handler, Due, closeDue
  <2>3. ASSUME NEW s \in {"close", "error", "read", "write"}, Due(s)
        PROVE  \E bit \in revents_ \ {"other"} : Handler(bit) = s
    BY <2>1, <2>3 DEF Bits, Handler, Due, closeDue
  <2>4. Passed(stage) = {"close", "error", "read", "write"}
    BY DEF Passed
  <2>5. /\ called \subseteq {s \in Passed(stage) : Due(s)}
        /\ {s \in Passed(stage) : Due(s)} \cap kept \subseteq called
    BY DEF ChannelInv
  <2> QED BY <2>2, <2>3, <2>4, <2>5
<1> QED BY <1>1, ChannelInvHolds, PTL

-----------------------------------------------------------------------------
(* Buffer *)

\* What may be in the vector: the bytes of integers are not looked into.
Cell == Byte \cup UNION {{hostToNetwork(x)[i] : i \in 1..x.size} : x \in Ints}

\* The picture at the head of Buffer.h, and that the vector has room for the
\* indices that retrieveAll sets.
Buffers == {b \in [buffer_: Seq(Cell), readerIndex_: Nat, writerIndex_: Nat] :
               /\ b.readerIndex_ <= b.writerIndex_ /\ b.writerIndex_ <= Len(b.buffer_)
               /\ kCheapPrepend <= Len(b.buffer_)}

-----------------------------------------------------------------------------
(* Sequences *)

\* The elements of a concatenation,
LEMMA ConcatElements ==
    ASSUME NEW S, NEW s \in Seq(S), NEW t \in Seq(S)
    PROVE  /\ s \o t \in Seq(S) /\ Len(s \o t) = Len(s) + Len(t)
           /\ \A i \in 1..(Len(s) + Len(t)) :
                  (s \o t)[i] = IF i <= Len(s) THEN s[i] ELSE t[i - Len(s)]
OBVIOUS

\* of a part of a sequence,
LEMMA SubSeqElements ==
    ASSUME NEW S, NEW s \in Seq(S), NEW m \in Nat, NEW n \in Nat, m <= n, n <= Len(s)
    PROVE  /\ SubSeq(s, m + 1, n) \in Seq(S) /\ Len(SubSeq(s, m + 1, n)) = n - m
           /\ \A i \in 1..(n - m) : SubSeq(s, m + 1, n)[i] = s[m + i]
<1>1. \A i \in (m + 1)..n : s[i] \in S
  OBVIOUS
<1>2. /\ SubSeq(s, m + 1, n) \in Seq(S)
      /\ Len(SubSeq(s, m + 1, n)) = IF m + 1 <= n THEN n - (m + 1) + 1 ELSE 0
      /\ \A i \in 1..(n - (m + 1) + 1) : SubSeq(s, m + 1, n)[i] = s[(m + 1) + i - 1]
  BY <1>1, SubSeqProperties
<1> QED BY <1>2

\* of its beginning,
LEMMA PrefixElements ==
    ASSUME NEW S, NEW s \in Seq(S), NEW n \in Nat, n <= Len(s)
    PROVE  /\ SubSeq(s, 1, n) \in Seq(S) /\ Len(SubSeq(s, 1, n)) = n
           /\ \A i \in 1..n : SubSeq(s, 1, n)[i] = s[i]
<1>1. \A i \in 1..n : s[i] \in S
  OBVIOUS
<1>2. /\ SubSeq(s, 1, n) \in Seq(S)
      /\ Len(SubSeq(s, 1, n)) = IF 1 <= n THEN n - 1 + 1 ELSE 0
      /\ \A i \in 1..(n - 1 + 1) : SubSeq(s, 1, n)[i] = s[1 + i - 1]
  BY <1>1, SubSeqProperties
<1> QED BY <1>2

\* and of two neighbours.
LEMMA PairElements ==
    ASSUME NEW S, NEW s \in Seq(S), NEW k \in Nat, k + 2 <= Len(s)
    PROVE  /\ SubSeq(s, k + 1, k + 2) \in Seq(S) /\ Len(SubSeq(s, k + 1, k + 2)) = 2
           /\ SubSeq(s, k + 1, k + 2)[1] = s[k + 1] /\ SubSeq(s, k + 1, k + 2)[2] = s[k + 2]
<1> DEFINE n == k + 2
<1>1. n \in Nat /\ k <= n /\ n <= Len(s) /\ n - k = 2
  OBVIOUS
<1> HIDE DEF n
<1>2. /\ SubSeq(s, k + 1, n) \in Seq(S) /\ Len(SubSeq(s, k + 1, n)) = n - k
      /\ \A i \in 1..(n - k) : SubSeq(s, k + 1, n)[i] = s[k + i]
  BY <1>1, SubSeqElements
<1>3. 1 \in 1..(n - k) /\ 2 \in 1..(n - k)
  BY <1>1
<1>4. /\ SubSeq(s, k + 1, n) \in Seq(S) /\ Len(SubSeq(s, k + 1, n)) = 2
      /\ SubSeq(s, k + 1, n)[1] = s[k + 1] /\ SubSeq(s, k + 1, n)[2] = s[k + 2]
  BY <1>1, <1>2, <1>3
<1> QED BY <1>4, Zenon DEF n

-----------------------------------------------------------------------------
(* The vector and its indices *)

\* std::copy changes the bytes it is told to and no other.
LEMMA CopyElements ==
    ASSUME NEW mem \in Seq(Cell), NEW pos \in Nat, NEW data \in Seq(Cell)
    PROVE  /\ copy(mem, pos, data) \in Seq(Cell) /\ Len(copy(mem, pos, data)) = Len(mem)
           /\ \A i \in 1..Len(mem) : copy(mem, pos, data)[i] =
                  IF i \in (pos + 1)..(pos + Len(data)) THEN data[i - pos] ELSE mem[i]
<1> DEFINE n == Len(mem)
           k == Len(data)
<1>1. n \in Nat /\ k \in Nat /\ (\A i \in 1..n : mem[i] \in Cell) /\ \A i \in 1..k : data[i] \in Cell
  OBVIOUS
<1>2. copy(mem, pos, data) = [i \in 1..n |-> IF i \in (pos + 1)..(pos + k) THEN data[i - pos] ELSE mem[i]]
  BY DEF copy
<1> HIDE DEF n, k
<1>3. \A i \in 1..n : i \in (pos + 1)..(pos + k) => i - pos \in 1..k
  BY <1>1
<1>4. copy(mem, pos, data) \in [1..n -> Cell]
  BY <1>1, <1>2, <1>3
<1>5. copy(mem, pos, data) \in Seq(Cell) /\ Len(copy(mem, pos, data)) = n
  BY <1>1, <1>4, LenProperties
<1> QED BY <1>2, <1>5 DEF n, k

\* resize keeps the bytes there are.
LEMMA ResizeElements ==
    ASSUME NEW mem \in Seq(Cell), NEW size \in Nat, Len(mem) <= size
    PROVE  /\ resize(mem, size) \in Seq(Cell) /\ Len(resize(mem, size)) = size
           /\ \A i \in 1..Len(mem) : resize(mem, size)[i] = mem[i]
<1> DEFINE n == Len(mem)
<1>1. n \in Nat /\ n <= size /\ (\A i \in 1..n : mem[i] \in Cell) /\ Zero \in Cell
  BY DataAssumption DEF Cell
<1>2. resize(mem, size) = [i \in 1..size |-> IF i <= n THEN mem[i] ELSE Zero]
  BY DEF resize
<1> HIDE DEF n
<1>3. resize(mem, size) \in [1..size -> Cell]
  BY <1>1, <1>2
<1>4. resize(mem, size) \in Seq(Cell) /\ Len(resize(mem, size)) = size
  BY <1>3, LenProperties
<1>5. \A i \in 1..n : resize(mem, size)[i] = mem[i]
  BY <1>1, <1>2
<1> QED BY <1>4, <1>5 DEF n

\* What is known of the members of a buffer.
LEMMA Members ==
    ASSUME NEW b \in Buffers
    PROVE  /\ b.buffer_ \in Seq(Cell) /\ Len(b.buffer_) \in Nat
           /\ b.readerIndex_ \in Nat /\ b.writerIndex_ \in Nat
           /\ b.readerIndex_ <= b.writerIndex_ /\ b.writerIndex_ <= Len(b.buffer_)
           /\ kCheapPrepend \in Nat /\ kCheapPrepend <= Len(b.buffer_)
           /\ readableBytes(b) \in Nat /\ writableBytes(b) \in Nat
           /\ readableBytes(b) = b.writerIndex_ - b.readerIndex_
           /\ writableBytes(b) = Len(b.buffer_) - b.writerIndex_
           /\ b = [buffer_ |-> b.buffer_, readerIndex_ |-> b.readerIndex_, writerIndex_ |-> b.writerIndex_]
BY SizeAssumption DEF Buffers, readableBytes, writableBytes

\* The members of a buffer one by one.
Has(c, m, r, w) == /\ c \in [buffer_: Seq(Cell), readerIndex_: Nat, writerIndex_: Nat]
                   /\ c.buffer_ = m /\ c.readerIndex_ = r /\ c.writerIndex_ = w

\* Setting members leaves the other members alone.
LEMMA Updates ==
    ASSUME NEW b \in Buffers, NEW m \in Seq(Cell), NEW i \in Nat
    PROVE  /\ Has([b EXCEPT !.buffer_ = m, !.writerIndex_ = i], m, b.readerIndex_, i)
           /\ Has([b EXCEPT !.buffer_ = m, !.readerIndex_ = i], m, i, b.writerIndex_)
           /\ Has([b EXCEPT !.readerIndex_ = i], b.buffer_, i, b.writerIndex_)
           /\ Has([b EXCEPT !.writerIndex_ = i], b.buffer_, b.readerIndex_, i)
           /\ Has([b EXCEPT !.readerIndex_ = i, !.writerIndex_ = i], b.buffer_, i, i)
<1>1. b \in [buffer_: Seq(Cell), readerIndex_: Nat, writerIndex_: Nat]
  BY DEF Buffers
<1>2. Has([b EXCEPT !.buffer_ = m, !.writerIndex_ = i], m, b.readerIndex_, i)
  BY <1>1 DEF Has
<1>3. Has([b EXCEPT !.buffer_ = m, !.readerIndex_ = i], m, i, b.writerIndex_)
  BY <1>1 DEF Has
<1>4. Has([b EXCEPT !.readerIndex_ = i], b.buffer_, i, b.writerIndex_)
  BY <1>1 DEF Has
<1>5. Has([b EXCEPT !.writerIndex_ = i], b.buffer_, b.readerIndex_, i)
  BY <1>1 DEF Has
<1>6. Has([b EXCEPT !.readerIndex_ = i, !.writerIndex_ = i], b.buffer_, i, i)
  BY <1>1 DEF Has
<1> QED BY <1>2, <1>3, <1>4, <1>5, <1>6

\* The readable bytes, one by one.
LEMMA ContentElements ==
    ASSUME NEW b \in Buffers
    PROVE  /\ Content(b) \in Seq(Cell) /\ Len(Content(b)) = readableBytes(b)
           /\ \A i \in 1..readableBytes(b) : Content(b)[i] = b.buffer_[b.readerIndex_ + i]
BY Members, SubSeqElements DEF Content, readableBytes

\* Two buffers whose readable bytes agree one by one have the same content.
LEMMA SameContent ==
    ASSUME NEW b \in Buffers, NEW c \in Buffers, readableBytes(c) = readableBytes(b),
           \A i \in 1..readableBytes(b) :
               c.buffer_[c.readerIndex_ + i] = b.buffer_[b.readerIndex_ + i]
    PROVE  Content(c) = Content(b)
<1>1. \A i \in 1..readableBytes(b) : Content(c)[i] = Content(b)[i]
  BY ContentElements
<1> QED BY <1>1, ContentElements, SeqEqual

\* A new buffer has nothing to read.
LEMMA NewIsEmpty ==
    ASSUME NEW size \in Nat
    PROVE  New(size) \in Buffers /\ Content(New(size)) = <<>>
<1> DEFINE b == New(size)
<1>1. /\ b.buffer_ = [i \in 1..(kCheapPrepend + size) |-> Zero]
      /\ b.readerIndex_ = kCheapPrepend /\ b.writerIndex_ = kCheapPrepend
      /\ b = [buffer_ |-> b.buffer_, readerIndex_ |-> kCheapPrepend, writerIndex_ |-> kCheapPrepend]
  BY DEF New
<1> HIDE DEF b
<1>2. kCheapPrepend \in Nat /\ kCheapPrepend + size \in Nat /\ kCheapPrepend <= kCheapPrepend + size
  BY SizeAssumption
<1>3. b.buffer_ \in [1..(kCheapPrepend + size) -> Cell]
  BY <1>1, DataAssumption DEF Cell
<1>4. b.buffer_ \in Seq(Cell) /\ Len(b.buffer_) = kCheapPrepend + size
  BY <1>2, <1>3, LenProperties
<1>5. b \in Buffers
  BY <1>1, <1>2, <1>4 DEF Buffers
<1>6. Len(Content(b)) = 0 /\ Content(b) \in Seq(Cell)
  BY <1>1, <1>2, <1>5, ContentElements DEF readableBytes
<1> QED BY <1>5, <1>6, EmptySeq DEF b

\* makeSpace: growing and moving keep the content and make the room.
LEMMA EnsureWritable ==
    ASSUME NEW b \in Buffers, NEW len \in Nat
    PROVE  /\ ensureWritable(b, len) \in Buffers
           /\ Content(ensureWritable(b, len)) = Content(b)
           /\ writableBytes(ensureWritable(b, len)) >= len
           /\ readableBytes(ensureWritable(b, len)) = readableBytes(b)
<1> DEFINE mem == b.buffer_
           r == b.readerIndex_
           w == b.writerIndex_
           size == Len(mem)
           c == ensureWritable(b, len)
<1>1. /\ mem \in Seq(Cell) /\ size \in Nat /\ r \in Nat /\ w \in Nat /\ r <= w /\ w <= size
      /\ kCheapPrepend \in Nat /\ kCheapPrepend <= size
      /\ readableBytes(b) = w - r /\ writableBytes(b) = size - w /\ prependableBytes(b) = r
  BY Members DEF prependableBytes
<1>2. CASE ~(writableBytes(b) < len)
  <2>1. c = b
    BY <1>2 DEF ensureWritable
  <2>2. writableBytes(b) >= len
    BY <1>1, <1>2
  <2> QED BY <2>1, <2>2
<1>3. CASE writableBytes(b) < len /\ mustGrow(b, len)
  <2>1. c = [b EXCEPT !.buffer_ = resize(mem, w + len)]
    BY <1>3 DEF ensureWritable, makeSpace
  <2>2. c.buffer_ = resize(mem, w + len) /\ c.readerIndex_ = r /\ c.writerIndex_ = w
        /\ c = [buffer_ |-> c.buffer_, readerIndex_ |-> r, writerIndex_ |-> w]
    BY <2>1, Members
  <2>3. size <= w + len /\ w + len \in Nat
    BY <1>1, <1>3
  <2>4. /\ c.buffer_ \in Seq(Cell) /\ Len(c.buffer_) = w + len
        /\ \A i \in 1..size : c.buffer_[i] = mem[i]
    <3> HIDE DEF mem, c
    <3>1. LET g == resize(mem, w + len)
          IN  g \in Seq(Cell) /\ Len(g) = w + len /\ \A i \in 1..size : g[i] = mem[i]
      BY <1>1, <2>3, ResizeElements
    <3> QED BY <2>2, <3>1, Zenon
  <2> HIDE DEF mem, r, w, size, c
  <2>5. w <= w + len /\ kCheapPrepend <= w + len
    BY <1>1, <2>3
  <2>6. c \in Buffers
    BY <1>1, <2>2, <2>4, <2>5 DEF Buffers
  <2>7. \A i \in 1..(w - r) : r + i \in 1..size
    BY <1>1
  <2>8. readableBytes(c) = w - r /\ writableBytes(c) = (w + len) - w
    BY <2>2, <2>4 DEF readableBytes, writableBytes
  <2>9. \A i \in 1..readableBytes(b) : c.buffer_[c.readerIndex_ + i] = b.buffer_[b.readerIndex_ + i]
    <3>1. ASSUME NEW i \in 1..(w - r) PROVE c.buffer_[r + i] = mem[r + i]
      BY <2>4, <2>7
    <3>2. readableBytes(b) = w - r /\ c.readerIndex_ = r
      BY <1>1, <2>2
    <3>3. \A i \in 1..readableBytes(b) : c.buffer_[c.readerIndex_ + i] = mem[r + i]
      BY <3>1, <3>2
    <3> QED BY <3>3 DEF mem, r
  <2>10. Content(c) = Content(b)
    BY <1>1, <2>6, <2>8, <2>9, SameContent
  <2>11. writableBytes(c) >= len
    BY <1>1, <2>8
  <2> QED BY <1>1, <2>6, <2>8, <2>10, <2>11 DEF c
<1>4. CASE writableBytes(b) < len /\ ~mustGrow(b, len)
  <2> DEFINE n == w - r
             k == kCheapPrepend
  <2>1. c = [buffer_ |-> copy(mem, k, Content(b)), readerIndex_ |-> k, writerIndex_ |-> k + n]
    BY <1>1, <1>4 DEF ensureWritable, makeSpace
  <2>2. /\ c.buffer_ = copy(mem, k, Content(b)) /\ c.readerIndex_ = k /\ c.writerIndex_ = k + n
        /\ c = [buffer_ |-> c.buffer_, readerIndex_ |-> k, writerIndex_ |-> k + n]
    BY <2>1
  <2>3. (size - w) + r >= len + k
    BY <1>1, <1>4 DEF mustGrow
  <2>4. /\ Content(b) \in Seq(Cell) /\ Len(Content(b)) = n
        /\ \A i \in 1..n : Content(b)[i] = mem[r + i]
    BY <1>1, ContentElements
  <2>5. /\ c.buffer_ \in Seq(Cell) /\ Len(c.buffer_) = size
        /\ \A i \in 1..size : i \in (k + 1)..(k + n) => c.buffer_[i] = Content(b)[i - k]
    <3> HIDE DEF mem, c, k, n
    <3>1. LET g == copy(mem, k, Content(b))
          IN  /\ g \in Seq(Cell) /\ Len(g) = size
              /\ \A i \in 1..size : i \in (k + 1)..(k + n) => g[i] = Content(b)[i - k]
      BY <1>1, <2>4, CopyElements DEF k
    <3> QED BY <2>2, <3>1, Zenon
  <2> HIDE DEF mem, r, w, size, c
  <2>6. n \in Nat /\ k \in Nat /\ k + n \in Nat /\ k + n <= size /\ k <= k + n /\ size - (k + n) >= len
    BY <1>1, <2>3
  <2> HIDE DEF n, k
  <2>7. c \in Buffers
    BY <1>1, <2>2, <2>5, <2>6 DEF Buffers, k
  <2>8. readableBytes(c) = n /\ writableBytes(c) = size - (k + n) /\ readableBytes(b) = n
    <3>1. readableBytes(c) = (k + n) - k /\ writableBytes(c) = size - (k + n)
      BY <2>2, <2>5 DEF readableBytes, writableBytes
    <3> QED BY <1>1, <2>6, <3>1 DEF n
  <2>9. \A i \in 1..n : k + i \in 1..size /\ k + i \in (k + 1)..(k + n) /\ (k + i) - k = i
    BY <2>6, <1>1
  <2>10. \A i \in 1..n : c.buffer_[k + i] = mem[r + i]
    BY <2>4, <2>5, <2>9
  <2>11. \A i \in 1..readableBytes(b) : c.buffer_[c.readerIndex_ + i] = b.buffer_[b.readerIndex_ + i]
    BY <2>2, <2>8, <2>10 DEF mem, r
  <2>12. Content(c) = Content(b)
    BY <2>7, <2>8, <2>11, SameContent
  <2> QED BY <2>6, <2>7, <2>8, <2>12 DEF c
<1> QED BY <1>2, <1>3, <1>4

\* Writing at beginWrite() puts the data behind the content.
LEMMA Written ==
    ASSUME NEW b \in Buffers, NEW data \in Seq(Cell), Len(data) <= writableBytes(b)
    PROVE  /\ written(b, data) \in Buffers
           /\ Content(written(b, data)) = Content(b) \o data
           /\ Len(written(b, data).buffer_) = Len(b.buffer_)
<1> DEFINE mem == b.buffer_
           r == b.readerIndex_
           w == b.writerIndex_
           size == Len(mem)
           n == Len(data)
           c == written(b, data)
<1>1. /\ mem \in Seq(Cell) /\ size \in Nat /\ r \in Nat /\ w \in Nat /\ r <= w /\ w <= size
      /\ kCheapPrepend \in Nat /\ kCheapPrepend <= size /\ n \in Nat
      /\ readableBytes(b) = w - r /\ n <= size - w
  BY Members
<1>2. w + n \in Nat /\ w + n <= size /\ r <= w + n /\ (w + n) - r = (w - r) + n /\ w - r \in Nat
  BY <1>1
<1>3. /\ c \in [buffer_: Seq(Cell), readerIndex_: Nat, writerIndex_: Nat]
      /\ c.readerIndex_ = r /\ c.writerIndex_ = w + n /\ Len(c.buffer_) = size
      /\ \A i \in 1..size : c.buffer_[i] = IF i \in (w + 1)..(w + n) THEN data[i - w] ELSE mem[i]
  <2> DEFINE g == copy(mem, w, data)
             v == w + n
  <2>1. c = [b EXCEPT !.buffer_ = g, !.writerIndex_ = v]
    BY DEF written
  <2> HIDE DEF mem, w, c, size
  <2>2. /\ g \in Seq(Cell) /\ Len(g) = size
        /\ \A i \in 1..size : g[i] = IF i \in (w + 1)..(w + n) THEN data[i - w] ELSE mem[i]
    BY <1>1, CopyElements DEF size
  <2> HIDE DEF g, v
  <2>3. v \in Nat
    BY <1>2 DEF v
  <2>4. Has(c, g, r, v)
    BY <2>1, <2>2, <2>3, Updates
  <2> QED BY <2>2, <2>4, Zenon DEF Has, v
<1>4. /\ Content(b) \in Seq(Cell) /\ Len(Content(b)) = w - r
      /\ \A i \in 1..(w - r) : Content(b)[i] = mem[r + i]
  BY <1>1, ContentElements
<1>5. /\ Content(b) \o data \in Seq(Cell) /\ Len(Content(b) \o data) = (w - r) + n
      /\ \A i \in 1..((w - r) + n) :
            (Content(b) \o data)[i] = IF i <= w - r THEN Content(b)[i] ELSE data[i - (w - r)]
  <2> DEFINE s == Content(b)
             k == w - r
  <2>1. s \in Seq(Cell) /\ Len(s) = k /\ data \in Seq(Cell)
    BY <1>4
  <2> HIDE DEF s, k
  <2>2. /\ s \o data \in Seq(Cell) /\ Len(s \o data) = k + n
        /\ \A i \in 1..(k + n) : (s \o data)[i] = IF i <= k THEN s[i] ELSE data[i - k]
    BY <2>1, ConcatElements
  <2> QED BY <2>2 DEF s, k
<1> HIDE DEF mem, r, w, size, n, c
<1>7. c \in Buffers
  BY <1>1, <1>2, <1>3 DEF Buffers
<1>8. /\ Content(c) \in Seq(Cell) /\ Len(Content(c)) = (w - r) + n
      /\ \A i \in 1..((w - r) + n) : Content(c)[i] = c.buffer_[r + i]
  BY <1>2, <1>3, <1>7, ContentElements DEF readableBytes
<1>9. ASSUME NEW i \in 1..((w - r) + n) PROVE Content(c)[i] = (Content(b) \o data)[i]
  <2>1. CASE i <= w - r
    <3>1. i \in 1..(w - r) /\ r + i \in 1..size /\ r + i \notin (w + 1)..(w + n)
      BY <1>1, <1>2, <2>1
    <3> QED BY <1>3, <1>4, <1>5, <1>8, <2>1, <3>1
  <2>2. CASE ~(i <= w - r)
    <3>1. r + i \in 1..size /\ r + i \in (w + 1)..(w + n) /\ (r + i) - w = i - (w - r)
      BY <1>1, <1>2, <2>2
    <3> QED BY <1>3, <1>5, <1>8, <2>2, <3>1
  <2> QED BY <2>1, <2>2
<1>10. Content(c) = Content(b) \o data
  BY <1>5, <1>8, <1>9, SeqEqual
<1> QED BY <1>3, <1>7, <1>10 DEF c, size, mem

\* append makes room and writes behind the content.
LEMMA Appended ==
    ASSUME NEW b \in Buffers, NEW data \in Seq(Cell)
    PROVE  appended(b, data) \in Buffers /\ Content(appended(b, data)) = Content(b) \o data
<1> DEFINE c == ensureWritable(b, Len(data))
<1>1. Len(data) \in Nat
  OBVIOUS
<1>2. c \in Buffers /\ Content(c) = Content(b) /\ writableBytes(c) >= Len(data) /\ writableBytes(c) \in Nat
  BY <1>1, EnsureWritable, Members
<1> HIDE DEF c
<1>3. Len(data) <= writableBytes(c)
  BY <1>1, <1>2
<1>4. written(c, data) \in Buffers /\ Content(written(c, data)) = Content(c) \o data
  BY <1>2, <1>3, Written
<1> QED BY <1>2, <1>4 DEF appended, c

\* Prepending puts the data in front.
LEMMA Prepended ==
    ASSUME NEW b \in Buffers, NEW data \in Seq(Cell), Len(data) <= b.readerIndex_,
           NEW c, c = [b EXCEPT !.buffer_ = copy(b.buffer_, b.readerIndex_ - Len(data), data),
                                !.readerIndex_ = b.readerIndex_ - Len(data)]
    PROVE  c \in Buffers /\ Content(c) = data \o Content(b)
<1> DEFINE mem == b.buffer_
           r == b.readerIndex_
           w == b.writerIndex_
           size == Len(mem)
           n == Len(data)
           p == r - n
<1>1. /\ mem \in Seq(Cell) /\ size \in Nat /\ r \in Nat /\ w \in Nat /\ r <= w /\ w <= size
      /\ kCheapPrepend \in Nat /\ kCheapPrepend <= size /\ n \in Nat /\ n <= r
      /\ readableBytes(b) = w - r
  BY Members
<1>3. p \in Nat /\ p <= w /\ p + n = r
  BY <1>1
<1>4. /\ c \in [buffer_: Seq(Cell), readerIndex_: Nat, writerIndex_: Nat]
      /\ c.readerIndex_ = p /\ c.writerIndex_ = w /\ Len(c.buffer_) = size
      /\ \A i \in 1..size : c.buffer_[i] = IF i \in (p + 1)..(p + n) THEN data[i - p] ELSE mem[i]
  <2> DEFINE g == copy(mem, p, data)
  <2>1. c = [b EXCEPT !.buffer_ = g, !.readerIndex_ = p]
    OBVIOUS
  <2> HIDE DEF mem, p, size
  <2>2. /\ g \in Seq(Cell) /\ Len(g) = size
        /\ \A i \in 1..size : g[i] = IF i \in (p + 1)..(p + n) THEN data[i - p] ELSE mem[i]
    BY <1>1, <1>3, CopyElements DEF size
  <2> HIDE DEF g
  <2>3. Has(c, g, p, w)
    <3>1. p \in Nat /\ g \in Seq(Cell)
      BY <1>3, <2>2
    <3>2. Has([b EXCEPT !.buffer_ = g, !.readerIndex_ = p], g, p, w)
      BY <3>1, Updates, Zenon
    <3> QED BY <2>1, <3>2, Zenon
  <2> QED BY <2>2, <2>3, Zenon DEF Has
<1>5. /\ Content(b) \in Seq(Cell) /\ Len(Content(b)) = w - r
      /\ \A i \in 1..(w - r) : Content(b)[i] = mem[r + i]
  BY <1>1, ContentElements
<1>6. /\ data \o Content(b) \in Seq(Cell) /\ Len(data \o Content(b)) = n + (w - r)
      /\ \A i \in 1..(n + (w - r)) :
            (data \o Content(b))[i] = IF i <= n THEN data[i] ELSE Content(b)[i - n]
  <2> DEFINE s == Content(b)
             k == w - r
  <2>1. s \in Seq(Cell) /\ Len(s) = k /\ data \in Seq(Cell)
    BY <1>5
  <2> HIDE DEF s, k
  <2>2. /\ data \o s \in Seq(Cell) /\ Len(data \o s) = n + k
        /\ \A i \in 1..(n + k) : (data \o s)[i] = IF i <= n THEN data[i] ELSE s[i - n]
    BY <2>1, ConcatElements
  <2> QED BY <2>2 DEF s, k
<1> HIDE DEF mem, r, w, size, n, p
<1>7. c \in Buffers
  BY <1>1, <1>3, <1>4 DEF Buffers
<1>8. /\ Content(c) \in Seq(Cell) /\ Len(Content(c)) = n + (w - r)
      /\ \A i \in 1..(n + (w - r)) : Content(c)[i] = c.buffer_[p + i]
  <2>1. readableBytes(c) = n + (w - r)
    <3>1. readableBytes(c) = w - p
      BY <1>4 DEF readableBytes
    <3> QED BY <1>1, <1>3, <3>1
  <2>2. /\ Content(c) \in Seq(Cell) /\ Len(Content(c)) = readableBytes(c)
        /\ \A i \in 1..readableBytes(c) : Content(c)[i] = c.buffer_[c.readerIndex_ + i]
    BY <1>7, ContentElements
  <2>3. c.readerIndex_ = p
    BY <1>4
  <2> QED BY <2>1, <2>2, <2>3
<1>c. \A i \in 1..size : c.buffer_[i] = IF i \in (p + 1)..(p + n) THEN data[i - p] ELSE mem[i]
  BY <1>4
<1>9. ASSUME NEW i \in 1..(n + (w - r)) PROVE Content(c)[i] = (data \o Content(b))[i]
  <2>1. CASE i <= n
    <3>1. p + i \in 1..size /\ p + i \in (p + 1)..(p + n) /\ (p + i) - p = i
      BY <1>1, <1>3, <2>1
    <3>2. c.buffer_[p + i] = data[(p + i) - p]
      BY <1>c, <3>1
    <3>3. Content(c)[i] = c.buffer_[p + i]
      BY <1>8
    <3>4. (data \o Content(b))[i] = data[i]
      BY <1>6, <2>1
    <3> QED BY <3>1, <3>2, <3>3, <3>4
  <2>2. CASE ~(i <= n)
    <3>1. i \in Nat /\ i <= n + (w - r) /\ i > n
      BY <1>1, <2>2
    <3>2. p + i \in 1..size /\ p + i \notin (p + 1)..(p + n) /\ i - n \in 1..(w - r) /\ p + i = r + (i - n)
      <4>1. /\ p \in Nat /\ n \in Nat /\ r \in Nat /\ w \in Nat /\ size \in Nat
            /\ r <= w /\ w <= size /\ p + n = r
        BY <1>1, <1>3
      <4>2. i - n \in 1..(w - r)
        BY <3>1, <4>1
      <4>3. p + i = r + (i - n)
        BY <3>1, <4>1
      <4>4. p + i \in 1..size
        BY <3>1, <4>1
      <4>5. p + i \notin (p + 1)..(p + n)
        BY <3>1, <4>1
      <4> QED BY <4>2, <4>3, <4>4, <4>5
    <3>3. c.buffer_[p + i] = mem[p + i]
      BY <1>c, <3>2
    <3>4. Content(c)[i] = c.buffer_[p + i]
      BY <1>8
    <3>5. (data \o Content(b))[i] = Content(b)[i - n]
      BY <1>6, <2>2
    <3>6. Content(b)[i - n] = mem[r + (i - n)]
      BY <1>5, <3>2
    <3> QED BY <3>2, <3>3, <3>4, <3>5, <3>6
  <2> QED BY <2>1, <2>2
<1>10. Content(c) = data \o Content(b)
  BY <1>6, <1>8, <1>9, SeqEqual
<1> QED BY <1>7, <1>10

\* Moving one index within the readable bytes takes them from that end.
LEMMA Narrowed ==
    ASSUME NEW b \in Buffers, NEW len \in Nat, len <= readableBytes(b)
    PROVE  /\ [b EXCEPT !.readerIndex_ = b.readerIndex_ + len] \in Buffers
           /\ Content([b EXCEPT !.readerIndex_ = b.readerIndex_ + len])
                = SubSeq(Content(b), len + 1, Len(Content(b)))
           /\ [b EXCEPT !.writerIndex_ = b.writerIndex_ - len] \in Buffers
           /\ Content([b EXCEPT !.writerIndex_ = b.writerIndex_ - len])
                = SubSeq(Content(b), 1, Len(Content(b)) - len)
<1> DEFINE r == b.readerIndex_
           w == b.writerIndex_
           k == w - r
           s == Content(b)
           c == [b EXCEPT !.readerIndex_ = r + len]
           d == [b EXCEPT !.writerIndex_ = w - len]
<1>1. /\ r \in Nat /\ w \in Nat /\ r <= w /\ len <= k /\ readableBytes(b) = k
      /\ w <= Len(b.buffer_) /\ Len(b.buffer_) \in Nat /\ b.buffer_ \in Seq(Cell)
      /\ kCheapPrepend <= Len(b.buffer_)
  BY Members
<1>2. s \in Seq(Cell) /\ Len(s) = k /\ \A i \in 1..k : s[i] = b.buffer_[r + i]
  BY <1>1, ContentElements
<1>3. /\ k \in Nat /\ k - len \in Nat /\ k - len <= k /\ r + len \in Nat /\ r + len <= w
      /\ w - len \in Nat /\ r <= w - len /\ w - len <= Len(b.buffer_)
      /\ w - (r + len) = k - len /\ (w - len) - r = k - len
  BY <1>1
<1>4. Has(c, b.buffer_, r + len, w)
  BY <1>1, <1>3, Updates
<1>5. Has(d, b.buffer_, r, w - len)
  BY <1>1, <1>3, Updates
<1> HIDE DEF c, d
<1>6. c \in Buffers /\ d \in Buffers
  BY <1>1, <1>3, <1>4, <1>5 DEF Buffers, Has
<1>7. readableBytes(c) = k - len /\ readableBytes(d) = k - len
  BY <1>3, <1>4, <1>5 DEF readableBytes, Has
<1>8. /\ Content(c) \in Seq(Cell) /\ Len(Content(c)) = k - len
      /\ \A i \in 1..(k - len) : Content(c)[i] = b.buffer_[(r + len) + i]
  BY <1>4, <1>6, <1>7, ContentElements DEF Has
<1>9. /\ Content(d) \in Seq(Cell) /\ Len(Content(d)) = k - len
      /\ \A i \in 1..(k - len) : Content(d)[i] = b.buffer_[r + i]
  BY <1>5, <1>6, <1>7, ContentElements DEF Has
<1> HIDE DEF s, k, r, w
<1>10. /\ SubSeq(s, len + 1, k) \in Seq(Cell) /\ Len(SubSeq(s, len + 1, k)) = k - len
       /\ \A i \in 1..(k - len) : SubSeq(s, len + 1, k)[i] = s[len + i]
  <2>1. len <= k /\ k <= Len(s)
    BY <1>1, <1>2, <1>3
  <2> QED BY <1>2, <1>3, <2>1, SubSeqElements
<1>11. /\ SubSeq(s, 1, k - len) \in Seq(Cell) /\ Len(SubSeq(s, 1, k - len)) = k - len
       /\ \A i \in 1..(k - len) : SubSeq(s, 1, k - len)[i] = s[i]
  <2>1. 0 \in Nat /\ 0 <= k - len /\ k - len <= Len(s) /\ 0 + 1 = 1 /\ (k - len) - 0 = k - len
        /\ \A i \in 1..(k - len) : 0 + i = i
    BY <1>2, <1>3
  <2>2. /\ SubSeq(s, 0 + 1, k - len) \in Seq(Cell) /\ Len(SubSeq(s, 0 + 1, k - len)) = (k - len) - 0
        /\ \A i \in 1..((k - len) - 0) : SubSeq(s, 0 + 1, k - len)[i] = s[0 + i]
    BY <1>2, <1>3, <2>1, SubSeqElements
  <2> QED BY <2>1, <2>2
<1>12. \A i \in 1..(k - len) : len + i \in 1..k /\ i \in 1..k /\ r + (len + i) = (r + len) + i
  BY <1>1, <1>3
<1>13. Content(c) = SubSeq(s, len + 1, k)
  <2>1. \A i \in 1..(k - len) : Content(c)[i] = SubSeq(s, len + 1, k)[i]
    BY <1>2, <1>8, <1>10, <1>12
  <2> QED BY <1>8, <1>10, <2>1, SeqEqual
<1>14. Content(d) = SubSeq(s, 1, k - len)
  <2>1. \A i \in 1..(k - len) : Content(d)[i] = SubSeq(s, 1, k - len)[i]
    BY <1>2, <1>9, <1>11, <1>12
  <2> QED BY <1>9, <1>11, <2>1, SeqEqual
<1> QED BY <1>2, <1>6, <1>13, <1>14, Zenon DEF c, d, s, r, w

-----------------------------------------------------------------------------
(* Buffer implements ByteQueue *)

\* What callers write.
LEMMA DataAreCells == /\ \A data \in Data : data \in Seq(Cell)
                      /\ \A x \in Ints : hostToNetwork(x) \in Seq(Cell)
<1>1. ASSUME NEW data \in Data PROVE data \in Seq(Cell)
  <2>1. data \in Seq(Byte) /\ Byte \subseteq Cell
    BY DataAssumption DEF Cell
  <2> QED BY <2>1
<1>2. ASSUME NEW x \in Ints PROVE hostToNetwork(x) \in Seq(Cell)
  <2> DEFINE size == x.size
             mem == memory(x)
             h == hostToNetwork(x)
  <2>1. size \in Nat
    BY IntAssumption
  <2>2. DOMAIN mem = 1..size /\ mem = [i \in 1..size |-> mem[i]]
    BY DEF memory
  <2>3. h = [i \in 1..Len(mem) |-> mem[Len(mem) + 1 - i]]
    BY DEF hostToNetwork, swapped
  <2>4. \A i \in 1..size : h[i] \in Cell
    BY DEF Cell
  <2> HIDE DEF size, mem, h
  <2>5. Len(mem) = size
    BY <2>1, <2>2, LenProperties
  <2>6. h \in [1..size -> Cell]
    BY <2>1, <2>3, <2>4, <2>5
  <2>7. h \in Seq(Cell)
    BY <2>1, <2>6
  <2> QED BY <2>7 DEF h
<1> QED BY <1>1, <1>2

\* The invariant: the buffer is well formed.
Inv == buf \in Buffers

\* The constructor makes a well-formed, empty buffer.
LEMMA InitInv == Init => Inv /\ Content(buf) = <<>>
BY NewIsEmpty, SizeAssumption DEF Init, Inv

\* Each operation keeps the buffer well formed and does its work on the queue.
LEMMA AppendStep ==
    ASSUME Inv, NEW data \in Seq(Cell), append(data)
    PROVE  Inv' /\ Queue!Write(data)
BY Appended DEF Inv, append, Queue!Write

LEMMA HasWrittenStep ==
    ASSUME Inv, NEW data \in Seq(Cell), hasWritten(data)
    PROVE  Inv' /\ Queue!Write(data)
BY Written DEF Inv, hasWritten, Queue!Write

LEMMA PrependStep ==
    ASSUME Inv, NEW data \in Seq(Cell), prepend(data)
    PROVE  Inv' /\ Queue!Prepend(data)
BY Prepended DEF Inv, prepend, prependableBytes, Queue!Prepend

LEMMA EnsureStep ==
    ASSUME Inv, NEW len \in Nat, ensureWritableBytes(len)
    PROVE  Inv' /\ UNCHANGED Content(buf) /\ writableBytes(buf') >= len
BY EnsureWritable DEF Inv, ensureWritableBytes

LEMMA UnwriteStep ==
    ASSUME Inv, NEW len \in Nat, unwrite(len)
    PROVE  Inv' /\ Queue!Unwrite(len)
BY Narrowed DEF Inv, unwrite, Queue!Unwrite

LEMMA RetrieveAllStep ==
    ASSUME Inv, retrieveAll
    PROVE  Inv' /\ Content(buf)' = <<>> /\ Queue!Retrieve(Len(Content(buf)))
<1>1. /\ kCheapPrepend \in Nat /\ kCheapPrepend <= Len(buf.buffer_)
      /\ buf.buffer_ \in Seq(Cell) /\ Len(buf.buffer_) \in Nat
  BY Members DEF Inv
<1>2. Has(buf', buf.buffer_, kCheapPrepend, kCheapPrepend)
  BY <1>1, Updates DEF Inv, retrieveAll
<1>3. buf' \in Buffers
  BY <1>1, <1>2 DEF Has, Buffers
<1>4. readableBytes(buf') = 0
  BY <1>1, <1>2 DEF Has, readableBytes
<1>5. Content(buf') = <<>>
  BY <1>3, <1>4, ContentElements, EmptySeq
<1>6. SubSeq(Content(buf), Len(Content(buf)) + 1, Len(Content(buf))) = <<>>
  <2> DEFINE s == Content(buf)
             n == Len(s)
  <2>1. s \in Seq(Cell) /\ n \in Nat
    BY ContentElements DEF Inv
  <2> HIDE DEF n
  <2>2. n <= n /\ n <= Len(s) /\ n - n = 0
    BY <2>1 DEF n
  <2>3. SubSeq(s, n + 1, n) \in Seq(Cell) /\ Len(SubSeq(s, n + 1, n)) = 0
    BY <2>1, <2>2, SubSeqElements
  <2> QED BY <2>3, EmptySeq DEF n
<1> QED BY <1>3, <1>5, <1>6 DEF Inv, Queue!Retrieve

LEMMA RetrieveStep ==
    ASSUME Inv, NEW len \in Nat, retrieve(len)
    PROVE  Inv' /\ Queue!Retrieve(len)
<1>1. CASE len < readableBytes(buf)
  <2>1. buf' = [buf EXCEPT !.readerIndex_ = buf.readerIndex_ + len] /\ len <= readableBytes(buf)
    BY <1>1, Members DEF Inv, retrieve
  <2> QED BY <2>1, Narrowed DEF Inv, Queue!Retrieve
<1>2. CASE len = readableBytes(buf) /\ retrieveAll
  BY <1>2, RetrieveAllStep, ContentElements DEF Inv
<1> QED BY <1>1, <1>2 DEF retrieve

\* shrink: a new buffer that is given room and then the content.
LEMMA ShrinkStep ==
    ASSUME Inv, NEW reserve \in Nat, shrink(reserve)
    PROVE  Inv' /\ UNCHANGED Content(buf)
<1> DEFINE s == Content(buf)
           c == ensureWritable(New(kInitialSize), readableBytes(buf) + reserve)
<1>1. s \in Seq(Cell) /\ readableBytes(buf) + reserve \in Nat
  BY ContentElements, Members DEF Inv
<1>2. New(kInitialSize) \in Buffers /\ Content(New(kInitialSize)) = <<>>
  BY NewIsEmpty, SizeAssumption
<1>3. c \in Buffers /\ Content(c) = <<>>
  BY <1>1, <1>2, EnsureWritable
<1>4. buf' = appended(c, s)
  BY DEF shrink
<1> HIDE DEF s, c
<1>5. buf' \in Buffers /\ Content(buf') = <<>> \o s
  BY <1>1, <1>3, <1>4, Appended
<1>6. <<>> \o s = s
  BY <1>1
<1> QED BY <1>5, <1>6 DEF Inv, s

LEMMA CellsAssociate ==
    \A s, t, u \in Seq(Cell) : (s \o t) \o u = s \o (t \o u)
BY ConcatAssociative

\* readFd: the first part goes to the writable bytes, the rest is appended.
LEMMA ReadFdStep ==
    ASSUME Inv, NEW data \in Seq(Cell), readFd(data)
    PROVE  Inv' /\ Queue!Write(data)
<1> DEFINE n == Len(data)
           k == writableBytes(buf)
<1>1. n \in Nat /\ k \in Nat
  BY Members DEF Inv
<1>2. CASE n <= k
  <2>1. SubSeq(data, 1, n) = data
    OBVIOUS
  <2>2. buf' = written(buf, data)
    <3>1. ~(n > k)
      BY <1>1, <1>2
    <3>2. buf' = written(buf, SubSeq(data, 1, n))
      BY <1>2, <3>1, Zenon DEF readFd
    <3> QED BY <2>1, <3>2
  <2>3. written(buf, data) \in Buffers /\ Content(written(buf, data)) = Content(buf) \o data
    BY <1>2, Written DEF Inv
  <2> QED BY <2>2, <2>3 DEF Inv, Queue!Write
<1>3. CASE n > k
  <2> DEFINE start == written(buf, SubSeq(data, 1, k))
             extra == SubSeq(data, k + 1, n)
             s == Content(buf)
  <2>1. buf' = appended(start, extra)
    BY <1>1, <1>3 DEF readFd
  <2>2. /\ SubSeq(data, 1, k) \in Seq(Cell) /\ Len(SubSeq(data, 1, k)) = k
        /\ extra \in Seq(Cell) /\ SubSeq(data, 1, k) \o extra = data
    <3> HIDE DEF k
    <3>1. 0 \in Nat /\ 0 <= k /\ k <= n /\ n <= Len(data) /\ 0 + 1 = 1 /\ k - 0 = k
          /\ \A i \in 1..k : 0 + i = i
      BY <1>1, <1>3
    <3> DEFINE f == SubSeq(data, 1, k)
    <3>2. f \in Seq(Cell) /\ Len(f) = k /\ \A i \in 1..k : f[i] = data[i]
      <4>1. k \in Nat /\ k <= Len(data)
        BY <1>1, <3>1
      <4> QED BY <1>1, <4>1, PrefixElements
    <3>3. extra \in Seq(Cell) /\ Len(extra) = n - k /\ \A i \in 1..(n - k) : extra[i] = data[k + i]
      BY <1>1, <3>1, SubSeqElements
    <3> HIDE DEF f, extra, n
    <3>4. /\ f \o extra \in Seq(Cell) /\ Len(f \o extra) = k + (n - k)
          /\ \A i \in 1..(k + (n - k)) : (f \o extra)[i] = IF i <= k THEN f[i] ELSE extra[i - k]
      <4> DEFINE e == n - k
      <4>1. f \in Seq(Cell) /\ extra \in Seq(Cell) /\ Len(f) = k /\ Len(extra) = e
        BY <3>2, <3>3
      <4> HIDE DEF e
      <4>2. /\ f \o extra \in Seq(Cell) /\ Len(f \o extra) = k + e
            /\ \A i \in 1..(k + e) : (f \o extra)[i] = IF i <= k THEN f[i] ELSE extra[i - k]
        <5>1. /\ f \o extra \in Seq(Cell) /\ Len(f \o extra) = Len(f) + Len(extra)
              /\ \A i \in 1..(Len(f) + Len(extra)) :
                    (f \o extra)[i] = IF i <= Len(f) THEN f[i] ELSE extra[i - Len(f)]
          BY <4>1, ConcatElements
        <5> QED BY <4>1, <5>1
      <4> QED BY <4>2 DEF e
    <3>5. k + (n - k) = n /\ \A i \in 1..n : IF i <= k THEN i \in 1..k
                                              ELSE i - k \in 1..(n - k) /\ k + (i - k) = i
      BY <1>1, <1>3
    <3>6. \A i \in 1..n : (f \o extra)[i] = data[i]
      BY <3>2, <3>3, <3>4, <3>5
    <3>7. f \o extra = data
      BY <3>4, <3>5, <3>6, SeqEqual DEF n
    <3> QED BY <3>2, <3>3, <3>7 DEF f
  <2> HIDE DEF extra
  <2>3. start \in Buffers /\ Content(start) = s \o SubSeq(data, 1, k)
    <3> DEFINE f == SubSeq(data, 1, k)
    <3>1. f \in Seq(Cell) /\ Len(f) <= writableBytes(buf)
      BY <1>1, <2>2
    <3> HIDE DEF f
    <3>2. written(buf, f) \in Buffers /\ Content(written(buf, f)) = Content(buf) \o f
      BY <3>1, Written DEF Inv
    <3> QED BY <3>2 DEF f
  <2> HIDE DEF start
  <2>4. buf' \in Buffers /\ Content(buf') = (s \o SubSeq(data, 1, k)) \o extra
    BY <2>1, <2>2, <2>3, Appended
  <2>5. (s \o SubSeq(data, 1, k)) \o extra = s \o data
    <3> DEFINE f == SubSeq(data, 1, k)
    <3>1. s \in Seq(Cell)
      BY ContentElements DEF Inv
    <3> HIDE DEF s
    <3>2. f \in Seq(Cell) /\ extra \in Seq(Cell) /\ f \o extra = data
      BY <2>2
    <3> HIDE DEF f
    <3>3. (s \o f) \o extra = s \o (f \o extra)
      BY <3>1, <3>2, CellsAssociate, Zenon
    <3> QED BY <3>2, <3>3 DEF f
  <2> QED BY <2>4, <2>5 DEF Inv, Queue!Write
<1> QED BY <1>1, <1>2, <1>3

\* Swapping the bytes of a little-endian host puts the most significant first.
LEMMA NetworkIsBigEndian == \A x \in Ints : hostToNetwork(x) = BigEndian(x)
<1> SUFFICES ASSUME NEW x \in Ints PROVE hostToNetwork(x) = BigEndian(x)
    OBVIOUS
<1> DEFINE digit(k) == (x.value \div Power[k]) % Base
           size == x.size
           mem == memory(x)
<1>1. size \in Nat
  BY IntAssumption
<1>2. mem = [i \in 1..size |-> digit(i - 1)]
  BY DEF memory
<1>3. BigEndian(x) = [i \in 1..size |-> digit(size - i)]
  BY DEF BigEndian
<1>4. hostToNetwork(x) = [i \in 1..Len(mem) |-> mem[Len(mem) + 1 - i]]
  BY DEF hostToNetwork, swapped
<1> HIDE DEF digit, size, mem
<1>5. Len(mem) = size
  BY <1>1, <1>2, LenProperties
<1>6. ASSUME NEW i \in 1..size PROVE mem[size + 1 - i] = digit(size - i)
  <2>1. size + 1 - i \in 1..size /\ (size + 1 - i) - 1 = size - i
    BY <1>1
  <2>2. mem[size + 1 - i] = digit((size + 1 - i) - 1)
    BY <1>2, <2>1
  <2> QED BY <2>1, <2>2
<1> QED BY <1>3, <1>4, <1>5, <1>6

\* The abstract variable and constant of the refinement.
LEMMA QueueNextIs ==
    ASSUME Inv,
           \/ \E data \in Data : Queue!Write(data) \/ Queue!Prepend(data)
           \/ \E x \in Ints : Queue!Write(hostToNetwork(x)) \/ Queue!Prepend(hostToNetwork(x))
           \/ \E n \in 0..Len(Content(buf)) : Queue!Retrieve(n) \/ Queue!Unwrite(n)
    PROVE  Queue!Next
BY DEF Queue!Next

\* So every step of the buffer is a step of the queue or leaves it alone.
LEMMA Step ==
    ASSUME Inv, [Next]_buf
    PROVE  Inv' /\ [Queue!Next]_(Content(buf))
<1> USE DataAreCells, QueueNextIs
<1>0. Counts \subseteq Nat
  BY DataAssumption
<1>1. ASSUME NEW data \in Data, append(data) \/ hasWritten(data) \/ readFd(data)
      PROVE  Inv' /\ Queue!Next
  BY <1>1, AppendStep, HasWrittenStep, ReadFdStep
<1>2. ASSUME NEW data \in Data, prepend(data) PROVE Inv' /\ Queue!Next
  BY <1>2, PrependStep
<1>3. ASSUME NEW x \in Ints, appendInt(x) \/ prependInt(x) PROVE Inv' /\ Queue!Next
  BY <1>3, AppendStep, PrependStep DEF appendInt, prependInt
<1>4. ASSUME NEW n \in Counts, retrieve(n) \/ unwrite(n) PROVE Inv' /\ Queue!Next
  <2>1. n \in 0..Len(Content(buf))
    <3>1. n <= readableBytes(buf) /\ readableBytes(buf) \in Nat
      BY <1>4, Members DEF Inv, retrieve, unwrite
    <3>2. Len(Content(buf)) = readableBytes(buf)
      BY ContentElements DEF Inv
    <3> QED BY <1>0, <3>1, <3>2
  <2>2. Inv' /\ (Queue!Retrieve(n) \/ Queue!Unwrite(n))
    BY <1>0, <1>4, RetrieveStep, UnwriteStep
  <2> QED BY <2>1, <2>2
<1>5. ASSUME NEW n \in Counts, ensureWritableBytes(n) \/ shrink(n)
      PROVE  Inv' /\ UNCHANGED Content(buf)
  BY <1>0, <1>5, EnsureStep, ShrinkStep
<1>6. CASE retrieveAll
  <2>1. Len(Content(buf)) \in 0..Len(Content(buf))
    BY ContentElements, Members DEF Inv
  <2> QED BY <1>6, <2>1, RetrieveAllStep
<1>7. CASE UNCHANGED buf
  BY <1>7 DEF Inv
<1> QED BY <1>1, <1>2, <1>3, <1>4, <1>5, <1>6, <1>7 DEF Next

\* The buffer is always well formed.
LEMMA InvHolds == Spec => []Inv
BY InitInv, Step, PTL DEF Spec

\* Whatever the sizes and however the vector grows, moves, is filled from two
\* pieces or exchanged for a smaller one: Buffer is a queue of bytes.
THEOREM ImplementsByteQueue == Spec => ContentSpec
<1>1. Init => Content(buf) = <<>>
  BY InitInv
<1>2. Inv /\ [Next]_buf => [Queue!Next]_(Content(buf))
  BY Step
<1> QED BY <1>1, <1>2, InvHolds, PTL DEF Spec, ContentSpec, Queue!Spec

\* Each operation of Buffer.h, integers included, does to the queue what its
\* name says.
LEMMA NamesHold == Inv => DoesAsNamed
<1> SUFFICES ASSUME Inv PROVE DoesAsNamed
    OBVIOUS
<1> USE DataAreCells
<1>1. ASSUME NEW data \in Data
      PROVE  /\ append(data) \/ hasWritten(data) \/ readFd(data) => Queue!Write(data)
             /\ prepend(data) => Queue!Prepend(data)
  BY AppendStep, HasWrittenStep, ReadFdStep, PrependStep
<1>2. ASSUME NEW x \in Ints
      PROVE  /\ appendInt(x) => Queue!Write(BigEndian(x))
             /\ prependInt(x) => Queue!Prepend(BigEndian(x))
  BY AppendStep, PrependStep, NetworkIsBigEndian DEF appendInt, prependInt
<1>3. ASSUME NEW n \in Counts
      PROVE  /\ retrieve(n) => Queue!Retrieve(n)
             /\ unwrite(n) => Queue!Unwrite(n)
             /\ ensureWritableBytes(n) \/ shrink(n) => UNCHANGED Content(buf)
             /\ ensureWritableBytes(n) => writableBytes(buf') >= n
  BY DataAssumption, RetrieveStep, UnwriteStep, EnsureStep, ShrinkStep
<1> QED BY <1>1, <1>2, <1>3 DEF DoesAsNamed

-----------------------------------------------------------------------------
(* Searching *)

\* first finds the smallest index there is.
LEMMA FirstIs ==
    ASSUME NEW found \in SUBSET Nat
    PROVE  /\ found = {} => first(found) = -1
           /\ found # {} => first(found) \in found /\ \A j \in found : first(found) <= j
<1>1. CASE found = {}
  BY <1>1 DEF first
<1>2. CASE found # {}
  <2>1. PICK x \in found : \A y \in found : <<y, x>> \notin OpToRel(<, Nat)
    BY <1>2, NatLessThanWellFounded, WFMin, Zenon
  <2>2. \A y \in found : ~(y < x)
    BY <2>1 DEF OpToRel
  <2>3. \E i \in found : \A j \in found : i <= j
    BY <2>2
  <2> DEFINE least == CHOOSE i \in found : \A j \in found : i <= j
  <2>4. least \in found /\ \A j \in found : least <= j
    BY <2>3, Zenon
  <2>5. first(found) = least
    BY <1>2 DEF first
  <2> QED BY <1>2, <2>4, <2>5
<1> QED BY <1>1, <1>2

\* Counting the indices from r moves the first one by r.
LEMMA FirstFrom ==
    ASSUME NEW r \in Nat, NEW A \in SUBSET Nat, NEW B \in SUBSET Nat,
           \A i \in A : i >= r /\ i - r \in B,
           \A k \in B : r + k \in A
    PROVE  (IF first(A) = -1 THEN -1 ELSE first(A) - r) = first(B)
<1>1. CASE A = {}
  <2>1. B = {}
    BY <1>1
  <2> QED BY <1>1, <2>1, FirstIs
<1>2. CASE A # {}
  <2>1. B # {}
    BY <1>2
  <2> DEFINE a == first(A)
             b == first(B)
  <2>2. a \in A /\ a \in Nat /\ \A j \in A : a <= j
    BY <1>2, FirstIs
  <2>3. b \in B /\ b \in Nat /\ \A j \in B : b <= j
    BY <2>1, FirstIs
  <2> HIDE DEF a, b
  <2>4. a >= r /\ b <= a - r /\ a <= r + b
    BY <2>2, <2>3
  <2>5. a - r = b /\ a # -1
    BY <2>2, <2>3, <2>4
  <2> QED BY <2>5 DEF a, b
<1> QED BY <1>1, <1>2

\* The searches, which run over the vector, find what is in the content.
LEMMA SearchesExact == Inv => SearchesSeeContent
<1> SUFFICES ASSUME Inv PROVE SearchesSeeContent
    OBVIOUS
<1> DEFINE mem == buf.buffer_
           r == buf.readerIndex_
           w == buf.writerIndex_
           s == Content(buf)
           n == readableBytes(buf)
<1>1. r \in Nat /\ w \in Nat /\ r <= w /\ n = w - r
  BY Members DEF Inv
<1>2. s \in Seq(Cell) /\ Len(s) = n /\ \A i \in 1..n : s[i] = mem[r + i]
  BY ContentElements DEF Inv
<1>3. Found(buf, findCRLF(buf, r)) = Place(buf, <<CR, LF>>)
  <2> DEFINE A == {i \in r..(w - 2) : mem[i + 1] = CR /\ mem[i + 2] = LF}
             B == {k \in 0..(n - 2) : SubSeq(s, k + 1, k + 2) = <<CR, LF>>}
  <2>1. /\ findCRLF(buf, r) = first(A) /\ Place(buf, <<CR, LF>>) = first(B)
        /\ Found(buf, first(A)) = IF first(A) = -1 THEN -1 ELSE first(A) - r
    <3>1. Len(<<CR, LF>>) = 2
      OBVIOUS
    <3> QED BY <3>1, Zenon DEF findCRLF, Place, Found
  <2> HIDE DEF mem, r, w, s, n
  <2>2. ASSUME NEW k \in 0..(n - 2)
        PROVE  SubSeq(s, k + 1, k + 2) = <<CR, LF>> <=> mem[(r + k) + 1] = CR /\ mem[(r + k) + 2] = LF
    <3>1. k \in Nat /\ k + 2 \in Nat /\ k <= k + 2 /\ k + 2 <= n /\ (k + 2) - k = 2 /\ n \in Nat
      BY <1>1
    <3>2. /\ SubSeq(s, k + 1, k + 2) \in Seq(Cell) /\ Len(SubSeq(s, k + 1, k + 2)) = 2
          /\ SubSeq(s, k + 1, k + 2)[1] = s[k + 1] /\ SubSeq(s, k + 1, k + 2)[2] = s[k + 2]
      <4>1. k + 2 <= Len(s)
        BY <1>2, <3>1
      <4> QED BY <1>2, <3>1, <4>1, PairElements
    <3>3. /\ s[k + 1] = mem[(r + k) + 1] /\ s[k + 2] = mem[(r + k) + 2]
      <4>1. k + 1 \in 1..n /\ k + 2 \in 1..n /\ r + (k + 1) = (r + k) + 1 /\ r + (k + 2) = (r + k) + 2
        BY <1>1, <3>1
      <4> QED BY <1>2, <4>1
    <3> DEFINE t == SubSeq(s, k + 1, k + 2)
               u == <<CR, LF>>
    <3>4. t \in Seq(Cell) /\ Len(t) = 2 /\ t[1] = s[k + 1] /\ t[2] = s[k + 2]
      BY <3>2
    <3>5. u \in Seq(Cell) /\ Len(u) = 2 /\ u[1] = CR /\ u[2] = LF
      BY DataAssumption DEF Cell
    <3> HIDE DEF t, u
    <3>6. t[1] = u[1] /\ t[2] = u[2] => t = u
      <4>1. \A i \in 1..2 : i = 1 \/ i = 2
        OBVIOUS
      <4>2. t[1] = u[1] /\ t[2] = u[2] => \A i \in 1..Len(t) : t[i] = u[i]
        BY <3>4, <4>1
      <4> QED BY <3>4, <3>5, <4>2, SeqEqual
    <3>7. t = u <=> mem[(r + k) + 1] = CR /\ mem[(r + k) + 2] = LF
      BY <3>3, <3>4, <3>5, <3>6
    <3> QED BY <3>7, Zenon DEF t, u
  <2>3. A \in SUBSET Nat /\ B \in SUBSET Nat
    BY <1>1
  <2>4. ASSUME NEW i \in A PROVE i >= r /\ i - r \in B
    <3>1. i \in Nat /\ i >= r /\ i - r \in 0..(n - 2) /\ r + (i - r) = i
      BY <1>1
    <3>2. mem[i + 1] = CR /\ mem[i + 2] = LF
      OBVIOUS
    <3>3. SubSeq(s, (i - r) + 1, (i - r) + 2) = <<CR, LF>>
      BY <2>2, <3>1, <3>2
    <3> QED BY <3>1, <3>3
  <2>5. ASSUME NEW k \in B PROVE r + k \in A
    <3>1. k \in 0..(n - 2) /\ r + k \in r..(w - 2)
      BY <1>1
    <3>2. mem[(r + k) + 1] = CR /\ mem[(r + k) + 2] = LF
      BY <2>2, <3>1
    <3> QED BY <3>1, <3>2
  <2> HIDE DEF A, B
  <2>6. (IF first(A) = -1 THEN -1 ELSE first(A) - r) = first(B)
    BY <1>1, <2>3, <2>4, <2>5, FirstFrom
  <2> QED BY <2>1, <2>6
<1>4. Found(buf, findEOL(buf, r)) = Place(buf, <<LF>>)
  <2> DEFINE A == {i \in r..(w - 1) : mem[i + 1] = LF}
             B == {k \in 0..(n - 1) : SubSeq(s, k + 1, k + 1) = <<LF>>}
  <2>1. /\ findEOL(buf, r) = first(A) /\ Place(buf, <<LF>>) = first(B)
        /\ Found(buf, first(A)) = IF first(A) = -1 THEN -1 ELSE first(A) - r
    <3>1. Len(<<LF>>) = 1
      OBVIOUS
    <3> QED BY <3>1, Zenon DEF findEOL, Place, Found
  <2> HIDE DEF mem, r, w, s, n
  <2>2. ASSUME NEW k \in 0..(n - 1)
        PROVE  SubSeq(s, k + 1, k + 1) = <<LF>> <=> mem[(r + k) + 1] = LF
    <3>1. k \in Nat /\ k + 1 \in 1..n /\ r + (k + 1) = (r + k) + 1
      BY <1>1
    <3>2. s[k + 1] = mem[(r + k) + 1]
      BY <1>2, <3>1
    <3> DEFINE t == SubSeq(s, k + 1, k + 1)
    <3>3. t \in Seq(Cell) /\ Len(t) = 1 /\ t[1] = s[k + 1]
      <4> DEFINE m == k + 1
      <4>1. m \in Nat /\ k <= m /\ m <= Len(s) /\ m - k = 1
        BY <1>2, <3>1
      <4> HIDE DEF m
      <4>2. /\ SubSeq(s, k + 1, m) \in Seq(Cell) /\ Len(SubSeq(s, k + 1, m)) = m - k
            /\ \A i \in 1..(m - k) : SubSeq(s, k + 1, m)[i] = s[k + i]
        BY <1>2, <3>1, <4>1, SubSeqElements
      <4>3. 1 \in 1..(m - k) /\ m - k = 1
        BY <4>1
      <4>4. /\ SubSeq(s, k + 1, m) \in Seq(Cell) /\ Len(SubSeq(s, k + 1, m)) = 1
            /\ SubSeq(s, k + 1, m)[1] = s[k + 1]
        BY <4>2, <4>3
      <4> QED BY <4>4 DEF m
    <3> DEFINE u == <<LF>>
    <3>4. u \in Seq(Cell) /\ Len(u) = 1 /\ u[1] = LF
      BY DataAssumption DEF Cell
    <3> HIDE DEF t, u
    <3>5. t[1] = u[1] => t = u
      <4>1. t[1] = u[1] => \A i \in 1..Len(t) : t[i] = u[i]
        BY <3>3
      <4> QED BY <3>3, <3>4, <4>1, SeqEqual
    <3>6. t = u <=> mem[(r + k) + 1] = LF
      BY <3>2, <3>3, <3>4, <3>5
    <3> QED BY <3>6, Zenon DEF t, u
  <2>3. A \in SUBSET Nat /\ B \in SUBSET Nat
    BY <1>1
  <2>4. ASSUME NEW i \in A PROVE i >= r /\ i - r \in B
    <3>1. i \in Nat /\ i >= r /\ i - r \in 0..(n - 1) /\ r + (i - r) = i
      BY <1>1
    <3>2. SubSeq(s, (i - r) + 1, (i - r) + 1) = <<LF>>
      BY <2>2, <3>1
    <3> QED BY <3>1, <3>2
  <2>5. ASSUME NEW k \in B PROVE r + k \in A
    <3>1. k \in 0..(n - 1) /\ r + k \in r..(w - 1)
      BY <1>1
    <3>2. mem[(r + k) + 1] = LF
      BY <2>2, <3>1
    <3> QED BY <3>1, <3>2
  <2> HIDE DEF A, B
  <2>6. (IF first(A) = -1 THEN -1 ELSE first(A) - r) = first(B)
    BY <1>1, <2>3, <2>4, <2>5, FirstFrom
  <2> QED BY <2>1, <2>6
<1> QED BY <1>3, <1>4 DEF SearchesSeeContent

-----------------------------------------------------------------------------
(* Integers come back *)

\* There is at least one byte, the one resize fills with.
LEMMA BaseIs == Base \in Nat /\ Base >= 1
<1>1. Base \in Nat
  BY IntAssumption, FS_CardinalityType DEF Base
<1>2. Zero \in 0..(Base - 1)
  BY DataAssumption, IntAssumption
<1> QED BY <1>1, <1>2

\* The powers up to k.
PowersUpTo(k) == {g \in [0..k -> Nat] : g[0] = 1 /\ \A i \in 1..k : g[i] = Base * g[i - 1]}

\* There are powers up to every k,
LEMMA PowersExist == \A k \in Nat : PowersUpTo(k) # {}
<1> DEFINE T == {k \in Nat : PowersUpTo(k) = {}}
<1>1. SUFFICES ASSUME T # {} PROVE FALSE
  OBVIOUS
<1>2. PICK k \in T : \A j \in T : k <= j
  BY <1>1, HasMinimum
<1>3. k # 0
  <2>1. [i \in 0..0 |-> 1] \in PowersUpTo(0)
    BY DEF PowersUpTo
  <2> QED BY <2>1
<1>4. k \in Nat /\ k - 1 \in Nat /\ k - 1 \notin T
  <2>1. k \in Nat /\ k - 1 \in Nat /\ ~(k <= k - 1)
    BY <1>3
  <2> HIDE DEF T
  <2> QED BY <1>2, <2>1
<1>5. PICK g : g \in PowersUpTo(k - 1)
  BY <1>4
<1>6. g \in [0..(k - 1) -> Nat] /\ g[0] = 1 /\ \A i \in 1..(k - 1) : g[i] = Base * g[i - 1]
  BY <1>5 DEF PowersUpTo
<1> DEFINE h == [i \in 0..k |-> IF i = k THEN Base * g[k - 1] ELSE g[i]]
<1>7. \A i \in 0..k : i = k \/ i \in 0..(k - 1)
  BY <1>4
<1>8. Base * g[k - 1] \in Nat
  <2>1. g[k - 1] \in Nat
    BY <1>4, <1>6
  <2> QED BY <2>1, BaseIs
<1>9. h \in [0..k -> Nat]
  BY <1>6, <1>7, <1>8
<1>10. h[0] = 1 /\ h[k] = Base * g[k - 1] /\ \A i \in 0..(k - 1) : h[i] = g[i]
  BY <1>3, <1>4, <1>6
<1> HIDE DEF h
<1>11. ASSUME NEW i \in 1..k PROVE h[i] = Base * h[i - 1]
  <2>1. CASE i = k
    BY <1>4, <1>10, <2>1
  <2>2. CASE i # k
    <3>1. i \in 1..(k - 1) /\ i \in 0..(k - 1) /\ i - 1 \in 0..(k - 1)
      BY <1>4, <2>2
    <3> QED BY <1>6, <1>10, <3>1
  <2> QED BY <2>1, <2>2
<1>12. h \in PowersUpTo(k)
  BY <1>9, <1>10, <1>11 DEF PowersUpTo
<1> QED BY <1>2, <1>12

\* and they agree.
LEMMA PowersAgree ==
    ASSUME NEW k \in Nat, NEW m \in Nat, k <= m, NEW g \in PowersUpTo(k), NEW h \in PowersUpTo(m)
    PROVE  g[k] = h[k]
<1> DEFINE T == {i \in Nat : i <= k /\ g[i] # h[i]}
<1>1. SUFFICES ASSUME T # {} PROVE FALSE
  OBVIOUS
<1>2. /\ g[0] = 1 /\ \A i \in 1..k : g[i] = Base * g[i - 1]
      /\ h[0] = 1 /\ \A i \in 1..m : h[i] = Base * h[i - 1]
  BY DEF PowersUpTo
<1>3. PICK i \in T : \A j \in T : i <= j
  BY <1>1, HasMinimum
<1>4. i \in Nat /\ i <= k /\ g[i] # h[i] /\ i # 0
  BY <1>2, <1>3
<1>5. i \in 1..k /\ i \in 1..m /\ i - 1 \in Nat /\ i - 1 <= k /\ ~(i <= i - 1)
  BY <1>4
<1>6. i - 1 \notin T
  <2> HIDE DEF T
  <2> QED BY <1>3, <1>5
<1>7. g[i - 1] = h[i - 1]
  BY <1>5, <1>6
<1> QED BY <1>2, <1>4, <1>5, <1>7

\* Power is what its recursion says.
LEMMA PowerIs ==
    Power[0] = 1 /\ \A n \in Nat : Power[n] \in Nat \ {0} /\ Power[n + 1] = Base * Power[n]
<1> DEFINE G(n) == CHOOSE g : g \in PowersUpTo(n)
           F == [n \in Nat |-> G(n)[n]]
           turn(f, n) == IF n = 0 THEN 1 ELSE Base * f[n - 1]
<1>1. \A n \in Nat : G(n) \in PowersUpTo(n)
  BY PowersExist
<1> HIDE DEF G
<1>2. \A n \in Nat : F[n] = G(n)[n]
  OBVIOUS
<1>3. \A n \in Nat : F[n] = turn(F, n)
  <2> HIDE DEF F
  <2> SUFFICES ASSUME NEW n \in Nat PROVE F[n] = turn(F, n)
      OBVIOUS
  <2>1. G(n)[0] = 1 /\ \A i \in 1..n : G(n)[i] = Base * G(n)[i - 1]
    BY <1>1 DEF PowersUpTo
  <2>2. CASE n = 0
    BY <1>2, <2>1, <2>2
  <2>3. CASE n # 0
    <3>1. n - 1 \in Nat /\ n - 1 <= n /\ n \in 1..n
      BY <2>3
    <3>2. G(n - 1)[n - 1] = G(n)[n - 1]
      BY <1>1, <3>1, PowersAgree
    <3> QED BY <1>2, <2>1, <2>3, <3>1, <3>2
  <2> QED BY <2>2, <2>3
<1>4. F = [n \in Nat |-> turn(F, n)]
  <2>1. F = [n \in Nat |-> F[n]]
    OBVIOUS
  <2> HIDE DEF F, turn
  <2> QED BY <1>3, <2>1
<1>5. Power = CHOOSE p : p = [n \in Nat |-> turn(p, n)]
  BY DEF Power
<1> HIDE DEF F
<1>6. Power = [n \in Nat |-> turn(Power, n)]
  <2> HIDE DEF turn
  <2> QED BY <1>4, <1>5
<1>7. \A n \in Nat : Power[n] = turn(Power, n)
  <2> HIDE DEF turn
  <2> QED BY <1>6
<1>8. Power[0] = 1 /\ \A n \in Nat : Power[n + 1] = Base * Power[n]
  BY <1>7
<1> DEFINE T == {n \in Nat : Power[n] \notin Nat \ {0}}
<1>9. ASSUME T # {} PROVE FALSE
  <2>1. PICK n \in T : \A j \in T : n <= j
    BY <1>9, HasMinimum
  <2>2. n # 0
    BY <1>8
  <2>3. n - 1 \in Nat /\ n - 1 \notin T /\ (n - 1) + 1 = n
    <3>1. n \in Nat /\ n - 1 \in Nat /\ ~(n <= n - 1) /\ (n - 1) + 1 = n
      BY <2>2
    <3> HIDE DEF T
    <3> QED BY <2>1, <3>1
  <2>4. Power[n - 1] \in Nat \ {0} /\ Power[n] = Base * Power[n - 1]
    BY <1>8, <2>3
  <2> DEFINE y == Power[n - 1]
  <2>5. y \in Nat /\ y >= 1 /\ Power[n] = Base * y
    BY <2>4
  <2> HIDE DEF y
  <2>6. Base * y \in Nat /\ Base * y >= 1
    BY <2>5, BaseIs
  <2> QED BY <2>5, <2>6
<1> QED BY <1>8, <1>9

\* The division rounds down, also for negative numbers.
LEMMA Division ==
    ASSUME NEW v \in Int, NEW x \in Nat, x >= 1
    PROVE  /\ v \div x \in Int /\ x * (v \div x) <= v /\ v < x * (v \div x) + x
OBVIOUS

\* The remainder belongs to that quotient,
LEMMA Remainder ==
    ASSUME NEW v \in Int, NEW x \in Nat, x >= 1
    PROVE  v % x = v - x * (v \div x)
OBVIOUS

\* which is the only one within its bounds.
LEMMA Quotient ==
    ASSUME NEW v \in Int, NEW x \in Nat, x >= 1, NEW q \in Int, x * q <= v, v < x * q + x
    PROVE  v \div x = q
OBVIOUS

\* Products of variables, for the solver.
LEMMA Times ==
    ASSUME NEW a \in Int, NEW b \in Int, a <= b, NEW c \in Nat
    PROVE  c * a \in Int /\ c * b \in Int /\ c * a <= c * b
OBVIOUS

LEMMA Distributes ==
    ASSUME NEW a \in Int, NEW b \in Int, NEW c \in Int
    PROVE  c * (a + b) = c * a + c * b
OBVIOUS

LEMMA Associates ==
    ASSUME NEW a \in Int, NEW b \in Int, NEW c \in Int
    PROVE  (a * b) * c = a * (b * c) /\ a * b = b * a /\ a * b \in Int
OBVIOUS

\* Dividing twice is dividing by the product.
LEMMA DivideTwice ==
    ASSUME NEW v \in Int, NEW x \in Nat, x >= 1
    PROVE  (v \div x) \div Base = v \div (Base * x)
<1> DEFINE q == v \div x
           r == q \div Base
           y == Base * x
           z == Base * r
<1>1. q \in Int /\ x * q <= v /\ v < x * q + x
  BY Division
<1>2. r \in Int /\ z <= q /\ q < z + Base
  BY <1>1, Division, BaseIs
<1>3. y \in Nat /\ y >= 1 /\ z \in Int
  BY <1>2, BaseIs
<1>4. y * r = x * z /\ x * Base = y
  <2>1. y * r = (x * Base) * r /\ x * Base = y
    BY BaseIs, Associates
  <2> QED BY <1>2, <2>1, BaseIs, Associates
<1> HIDE DEF q, r, y, z
<1>5. x * z <= x * q /\ x * z \in Int /\ x * q \in Int
  BY <1>1, <1>2, <1>3, Times
<1>6. x * (q + 1) <= x * (z + Base)
  BY <1>1, <1>2, <1>3, Times, BaseIs
<1>7. x * (q + 1) = x * q + x * 1 /\ x * (z + Base) = x * z + x * Base /\ x * 1 = x
  BY <1>1, <1>3, Distributes, BaseIs
<1>8. x * z <= v /\ v < x * z + y
  BY <1>1, <1>3, <1>4, <1>5, <1>6, <1>7
<1>9. v \div y = r
  BY <1>2, <1>3, <1>4, <1>8, Quotient
<1> QED BY <1>9 DEF q, r, y

\* Two integers with the same digits differ by a multiple of the power.
LEMMA SameDigits ==
    ASSUME NEW v \in Int, NEW w \in Int, NEW s \in Nat,
           \A i \in 1..s : (v \div Power[i - 1]) % Base = (w \div Power[i - 1]) % Base
    PROVE  v - Power[s] * (v \div Power[s]) = w - Power[s] * (w \div Power[s])
<1> DEFINE Rest(u, k) == u - Power[k] * (u \div Power[k])
           T == {k \in Nat : k <= s /\ Rest(v, k) # Rest(w, k)}
<1>1. \A k \in Nat : Power[k] \in Nat /\ Power[k] >= 1
  BY PowerIs
<1>2. ASSUME NEW u \in Int, NEW k \in Nat
      PROVE  /\ Rest(u, 0) = 0
             /\ Rest(u, k + 1) = Rest(u, k) + Power[k] * ((u \div Power[k]) % Base)
  <2>1. Rest(u, 0) = 0
    <3>1. Power[0] = 1
      BY PowerIs
    <3>2. u \div 1 = u /\ 1 * u = u /\ u - u = 0
      OBVIOUS
    <3> QED BY <3>1, <3>2
  <2> DEFINE x == Power[k]
             y == Power[k + 1]
             q == u \div x
             r == u \div y
             d == q % Base
  <2>2. x \in Nat /\ x >= 1 /\ y = Base * x
    BY <1>1, PowerIs
  <2> HIDE DEF x, y
  <2>3. q \in Int /\ r = q \div Base
    BY <2>2, Division, DivideTwice
  <2> HIDE DEF q, r
  <2>4. r \in Int /\ d = q - Base * r
    BY <2>3, Division, Remainder, BaseIs
  <2> DEFINE z == Base * r
  <2>5. z \in Int /\ y * r = x * z
    <3>1. y * r = (x * Base) * r
      BY <2>2, BaseIs, Associates
    <3> QED BY <2>2, <2>4, <3>1, BaseIs, Associates
  <2>6. d \in Int /\ q = z + d
    BY <2>3, <2>4, <2>5
  <2> HIDE DEF d, z
  <2>7. x * q = x * z + x * d
    BY <2>2, <2>5, <2>6, Distributes
  <2>8. x * q \in Int /\ x * z \in Int /\ x * d \in Int
    BY <2>2, <2>3, <2>5, <2>6, Associates
  <2>9. u - y * r = (u - x * q) + x * d
    BY <2>5, <2>7, <2>8
  <2> QED BY <2>1, <2>9 DEF x, y, q, r, d
<1> HIDE DEF Rest
<1>3. SUFFICES ASSUME T # {} PROVE FALSE
  <2>1. s \notin T
    BY <1>3
  <2> QED BY <2>1 DEF Rest
<1>4. PICK k \in T : \A j \in T : k <= j
  BY <1>3, HasMinimum
<1>5. k \in Nat /\ k <= s /\ Rest(v, k) # Rest(w, k)
  BY <1>4
<1>6. k # 0
  BY <1>2, <1>5
<1> DEFINE j == k - 1
<1>7. j \in Nat /\ j <= s /\ ~(k <= j) /\ j + 1 = k /\ k \in 1..s
  BY <1>5, <1>6
<1>8. (v \div Power[j]) % Base = (w \div Power[j]) % Base
  BY <1>7
<1> HIDE DEF j
<1>9. j \notin T
  <2> HIDE DEF T
  <2> QED BY <1>4, <1>7
<1>10. Rest(v, j) = Rest(w, j)
  BY <1>7, <1>9
<1> HIDE DEF T
<1>11. /\ Rest(v, j + 1) = Rest(v, j) + Power[j] * ((v \div Power[j]) % Base)
       /\ Rest(w, j + 1) = Rest(w, j) + Power[j] * ((w \div Power[j]) % Base)
  BY <1>2, <1>7
<1>12. Rest(v, j + 1) = Rest(w, j + 1)
  BY <1>8, <1>10, <1>11, Zenon
<1> QED BY <1>5, <1>7, <1>12

\* In two's complement no two integers of a size have the same digits.
LEMMA OneValue ==
    ASSUME NEW v \in Int, NEW w \in Int, NEW s \in Nat,
           2 * v \in -Power[s]..(Power[s] - 1), 2 * w \in -Power[s]..(Power[s] - 1),
           \A i \in 1..s : (v \div Power[i - 1]) % Base = (w \div Power[i - 1]) % Base
    PROVE  v = w
<1> DEFINE p == Power[s]
           a == v \div p
           b == w \div p
           k == a - b
<1>1. p \in Nat /\ p >= 1
  BY PowerIs
<1>2. v - p * a = w - p * b
  BY SameDigits
<1>3. a \in Int /\ b \in Int
  <2> HIDE DEF p
  <2> QED BY <1>1, Division
<1>4. -p <= 2 * v /\ 2 * v < p /\ -p <= 2 * w /\ 2 * w < p
  BY <1>1
<1> HIDE DEF p, a, b
<1>5. a = b + k /\ k \in Int
  BY <1>3
<1> HIDE DEF k
<1>6. p * a = p * b + p * k /\ p * k \in Int /\ p * b \in Int
  BY <1>1, <1>3, <1>5, Distributes, Associates
<1>7. v - w = p * k
  BY <1>2, <1>6
<1>8. k = 0
  <2>1. CASE k >= 1
    <3>1. p * 1 <= p * k /\ p * 1 = p
      BY <1>1, <1>5, <2>1, Times
    <3> QED BY <1>1, <1>4, <1>6, <1>7, <3>1
  <2>2. CASE k <= -1
    <3>1. p * k <= p * (-1) /\ p * (-1) = -p
      BY <1>1, <1>5, <2>2, Times
    <3> QED BY <1>1, <1>4, <1>6, <1>7, <3>1
  <2> QED BY <1>5, <2>1, <2>2
<1>9. p * 0 = 0
  BY <1>1
<1> QED BY <1>7, <1>8, <1>9

\* Swapping the bytes twice gives the memory of the host back.
LEMMA MemoryIs ==
    ASSUME NEW x \in Ints
    PROVE  /\ x.size \in Nat /\ Len(memory(x)) = x.size
           /\ swapped(hostToNetwork(x)) = memory(x)
           /\ Len(hostToNetwork(x)) = x.size
<1> DEFINE n == x.size
           mem == memory(x)
           h == hostToNetwork(x)
<1>1. n \in Nat
  BY IntAssumption
<1>2. mem = [i \in 1..n |-> mem[i]]
  BY DEF memory
<1>3. h = [i \in 1..Len(mem) |-> mem[Len(mem) + 1 - i]]
  BY DEF hostToNetwork, swapped
<1>4. swapped(h) = [i \in 1..Len(h) |-> h[Len(h) + 1 - i]]
  BY DEF swapped
<1> HIDE DEF n, mem, h
<1>5. Len(mem) = n
  BY <1>1, <1>2, LenProperties
<1>6. Len(h) = n
  BY <1>1, <1>3, <1>5, LenProperties
<1>7. \A i \in 1..n : h[n + 1 - i] = mem[i]
  <2> SUFFICES ASSUME NEW i \in 1..n PROVE h[n + 1 - i] = mem[i]
      OBVIOUS
  <2>1. n + 1 - i \in 1..n /\ n + 1 - (n + 1 - i) = i
    BY <1>1
  <2> QED BY <1>3, <1>5, <2>1
<1>8. swapped(h) = mem
  BY <1>2, <1>4, <1>6, <1>7
<1> QED BY <1>1, <1>5, <1>6, <1>8 DEF n, mem, h

\* An integer is the only one with its bytes.
LEMMA ValueComesBack ==
    ASSUME NEW x \in Ints
    PROVE  valueOf(memory(x)) = x.value
<1> DEFINE n == x.size
           p == Power[n]
           Is(v) == 2 * v \in -p..(p - 1) /\ memory([value |-> v, size |-> n]) = memory(x)
<1>1. n \in Nat /\ Len(memory(x)) = n /\ x.value \in Int /\ 2 * x.value \in -p..(p - 1)
  BY MemoryIs, IntAssumption
<1>2. p \in Nat
  BY <1>1, PowerIs
<1>3. valueOf(memory(x)) = CHOOSE v \in -p..p : Is(v)
  BY <1>1 DEF valueOf
<1>4. x.value \in -p..p /\ Is(x.value)
  <2>1. memory([value |-> x.value, size |-> n]) = memory(x)
    BY DEF memory
  <2> HIDE DEF p
  <2>2. x.value \in -p..p
    BY <1>1, <1>2
  <2> QED BY <1>1, <2>1, <2>2
<1>5. ASSUME NEW v \in -p..p, Is(v) PROVE v = x.value
  <2>1. v \in Int
    <3> HIDE DEF p
    <3> QED BY <1>2
  <2>2. ASSUME NEW i \in 1..n
        PROVE  (v \div Power[i - 1]) % Base = (x.value \div Power[i - 1]) % Base
    <3>1. memory([value |-> v, size |-> n])[i] = (v \div Power[i - 1]) % Base
      BY DEF memory
    <3>2. memory(x)[i] = (x.value \div Power[i - 1]) % Base
      BY DEF memory
    <3> QED BY <1>5, <3>1, <3>2
  <2> QED BY <1>1, <1>5, <2>1, <2>2, OneValue
<1> HIDE DEF Is, p
<1> QED BY <1>3, <1>4, <1>5

\* An integer at the front of the content is found there.
LEMMA PeekFinds ==
    ASSUME NEW b \in Buffers, NEW x \in Ints, NEW rest \in Seq(Cell),
           Content(b) = hostToNetwork(x) \o rest
    PROVE  peekInt(b, x.size) = x.value
<1> DEFINE n == x.size
           h == hostToNetwork(x)
           r == b.readerIndex_
           s == SubSeq(b.buffer_, r + 1, r + n)
<1>1. h \in Seq(Cell) /\ n \in Nat /\ Len(h) = n
  BY DataAreCells, MemoryIs
<1>2. /\ r \in Nat /\ b.buffer_ \in Seq(Cell) /\ readableBytes(b) \in Nat
      /\ r + readableBytes(b) <= Len(b.buffer_)
  BY Members
<1>3. /\ Len(Content(b)) = readableBytes(b)
      /\ \A i \in 1..readableBytes(b) : Content(b)[i] = b.buffer_[r + i]
  BY ContentElements
<1>4. Len(h \o rest) = n + Len(rest) /\ Len(rest) \in Nat /\ \A i \in 1..n : (h \o rest)[i] = h[i]
  <2> HIDE DEF h, n
  <2>1. Len(rest) \in Nat
    OBVIOUS
  <2>2. /\ Len(h \o rest) = Len(h) + Len(rest)
        /\ \A i \in 1..(Len(h) + Len(rest)) :
               (h \o rest)[i] = IF i <= Len(h) THEN h[i] ELSE rest[i - Len(h)]
    BY <1>1, ConcatElements
  <2> QED BY <1>1, <2>1, <2>2
<1>5. peekInt(b, n) = valueOf(swapped(s))
  BY DEF peekInt
<1>6. Content(b) = h \o rest
  OBVIOUS
<1> HIDE DEF h, n, r
<1>7. n <= readableBytes(b) /\ r + n \in Nat /\ r <= r + n /\ r + n <= Len(b.buffer_) /\ (r + n) - r = n
  <2>1. readableBytes(b) = n + Len(rest)
    BY <1>3, <1>4, <1>6
  <2> QED BY <1>1, <1>2, <1>4, <2>1
<1>8. s \in Seq(Cell) /\ Len(s) = n /\ \A i \in 1..n : s[i] = b.buffer_[r + i]
  BY <1>2, <1>7, SubSeqElements
<1> HIDE DEF s
<1>9. \A i \in 1..n : s[i] = h[i]
  <2> SUFFICES ASSUME NEW i \in 1..n PROVE s[i] = h[i]
      OBVIOUS
  <2>1. i \in 1..readableBytes(b)
    BY <1>1, <1>2, <1>7
  <2> QED BY <1>3, <1>4, <1>6, <1>8, <2>1
<1>10. s = h
  BY <1>1, <1>8, <1>9, SeqEqual
<1> QED BY <1>5, <1>10, MemoryIs, ValueComesBack DEF h, n

\* An integer that was appended to an empty buffer or prepended is read back.
LEMMA ComeBack == Inv => IntegersComeBack
<1> SUFFICES ASSUME Inv, NEW x \in Ints
             PROVE  /\ appendInt(x) /\ readableBytes(buf) = 0 => peekInt(buf', x.size) = x.value
                    /\ prependInt(x) => peekInt(buf', x.size) = x.value
    BY DEF IntegersComeBack
<1> DEFINE h == hostToNetwork(x)
<1>1. h \in Seq(Cell) /\ Content(buf) \in Seq(Cell) /\ Len(Content(buf)) = readableBytes(buf)
  BY DataAreCells, ContentElements DEF Inv
<1>2. ASSUME appendInt(x), readableBytes(buf) = 0 PROVE peekInt(buf', x.size) = x.value
  <2>1. Inv' /\ Queue!Write(h)
    BY <1>1, <1>2, AppendStep DEF appendInt
  <2>2. Content(buf)' = Content(buf) \o h
    BY <2>1 DEF Queue!Write
  <2>3. Content(buf) = <<>>
    BY <1>1, <1>2, EmptySeq
  <2>4. Content(buf') = h \o <<>> /\ <<>> \in Seq(Cell)
    <3>1. <<>> \o h = h /\ h \o <<>> = h
      BY <1>1
    <3> QED BY <2>2, <2>3, <3>1
  <2>5. buf' \in Buffers
    BY <2>1 DEF Inv
  <2> QED BY <2>4, <2>5, PeekFinds
<1>3. ASSUME prependInt(x) PROVE peekInt(buf', x.size) = x.value
  <2>1. Inv' /\ Queue!Prepend(h)
    BY <1>1, <1>3, PrependStep DEF prependInt
  <2>2. Content(buf') = h \o Content(buf)
    BY <2>1 DEF Queue!Prepend
  <2>3. buf' \in Buffers
    BY <2>1 DEF Inv
  <2> QED BY <1>1, <2>2, <2>3, PeekFinds
<1> QED BY <1>2, <1>3

\* For all sizes, data and integers every operation of Buffer.h takes, returns
\* and finds exactly what it should; integers of either sign come back.
THEOREM AllOperationsExact == Spec => OperationsExact
<1>1. Inv => DoesAsNamed /\ IntegersComeBack
  BY NamesHold, ComeBack
<1>2. Inv => SearchesSeeContent
  BY SearchesExact
<1> QED BY <1>1, <1>2, InvHolds, PTL DEF OperationsExact
=============================================================================
