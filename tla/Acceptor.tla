------------------------------ MODULE Acceptor ------------------------------
(***************************************************************************)
(* net/Acceptor.h/.cc with the calls of Socket and SocketsOps it makes:    *)
(* the loop thread accepts connections, and when the process is out of     *)
(* descriptors it sheds one with the help of a spare descriptor, idleFd_,  *)
(* that it gives up and takes back.  Other threads open and close          *)
(* descriptors in between: LogFile::rollFile in the logging thread is one  *)
(* of them.  The "OrDie" functions do not die: a socket, bind or listen    *)
(* that fails goes unnoticed, and only the spare descriptor is asserted    *)
(* (the build is a Debug build by default).                                *)
(*                                                                         *)
(* The system calls are steps of their own.  The kernel gives out the      *)
(* lowest free descriptor, 0 too when standard input is closed, and        *)
(* reports the listening socket as readable while connections are pending. *)
(***************************************************************************)
EXTENDS Integers, FiniteSets

CONSTANTS MaxFd,         \* RLIMIT_NOFILE: descriptors are 0..MaxFd
          MaxConnects    \* bound: the clients that connect

Fd == 0..MaxFd

ASSUME MaxFdAssumption == MaxFd \in Nat /\ MaxFd >= 2
ASSUME BoundAssumption == MaxConnects \in Nat

VARIABLES table,          \* what each descriptor stands for
          acceptSocket_,  \* the descriptor of the socket
          idleFd_, listenning_,
          newConnectionCallback_,   \* is it set?
          connects,       \* the clients that have connected so far
          backlog,        \* the connections that wait to be accepted
          pc,             \* where the loop thread is: constructor, loop or handleRead
          robbed          \* history: a descriptor was opened while idleFd_ was closed

memberVars == <<acceptSocket_, idleFd_, listenning_, newConnectionCallback_>>
clientVars == <<connects, backlog>>
acceptorVars == <<table, memberVars, clientVars, pc, robbed>>

None == -1
\* The stages of the acceptor's socket: created, bound to the address, listening.
Stages == {"socket", "bound", "listen"}
Uses == Stages \cup {"free", "idle", "shed", "conn", "other"}

Free == {fd \in Fd : table[fd] = "free"}
Lowest == CHOOSE fd \in Free : \A g \in Free : fd <= g

\* close(fd): of a descriptor that is not open it only returns an error.
closed(fd) == IF fd \in Fd THEN [table EXCEPT ![fd] = "free"] ELSE table

\* socket or open: the lowest free descriptor, -1 if there is none.
opened(use) == IF Free = {} THEN table ELSE [table EXCEPT ![Lowest] = use]
openedFd == IF Free = {} THEN None ELSE Lowest

\* Only standard input is open, or not even that.
AcceptorInit == /\ table \in {[fd \in Fd |-> IF fd = 0 THEN use ELSE "free"] : use \in {"other", "free"}}
                /\ acceptSocket_ = None /\ idleFd_ = None /\ listenning_ = FALSE
                /\ newConnectionCallback_ \in BOOLEAN
                /\ connects = 0 /\ backlog = 0
                /\ pc = "socket" /\ robbed = FALSE

-----------------------------------------------------------------------------
(* Clients and other threads *)

Connect == /\ \E fd \in Fd : table[fd] = "listen"
           /\ connects < MaxConnects
           /\ connects' = connects + 1 /\ backlog' = backlog + 1
           /\ UNCHANGED <<table, memberVars, pc, robbed>>

\* The client gives up before it is accepted.
Abort == /\ backlog > 0
         /\ backlog' = backlog - 1
         /\ UNCHANGED <<table, memberVars, connects, pc, robbed>>

OpenOther == /\ Free # {} /\ pc # "aborted"
             /\ table' = [table EXCEPT ![Lowest] = "other"]
             /\ robbed' = (robbed \/ pc \in {"acceptIdle", "closeShed", "reopen"})
             /\ UNCHANGED <<memberVars, clientVars, pc>>

\* A connection or a file of another thread is closed by whoever has it.
CloseOther == /\ pc # "aborted"
              /\ \E fd \in Fd : /\ table[fd] \in {"conn", "other"}
                                /\ table' = [table EXCEPT ![fd] = "free"]
              /\ UNCHANGED <<memberVars, clientVars, pc, robbed>>

-----------------------------------------------------------------------------
(* The acceptor *)

\* The constructor.  createNonBlockingOrDie returns -1 when socket fails.
socket == /\ pc = "socket"
          /\ \/ acceptSocket_' = openedFd /\ table' = opened("socket")
             \/ acceptSocket_' = None /\ UNCHANGED table
          /\ pc' = "idle"
          /\ UNCHANGED <<idleFd_, listenning_, newConnectionCallback_, clientVars, robbed>>

\* idleFd_: the only result that is asserted.
openIdle == /\ pc = "idle"
            /\ idleFd_' = openedFd /\ table' = opened("idle")
            /\ pc' = IF openedFd = None THEN "aborted" ELSE "bind"
            /\ UNCHANGED <<acceptSocket_, listenning_, newConnectionCallback_, clientVars, robbed>>

\* The next stage of the socket, or none when the call fails.
Advance(from, to) == table' \in {table, [fd \in Fd |-> IF fd = acceptSocket_ /\ table[fd] = from
                                                      THEN to ELSE table[fd]]}

bindAddress == /\ pc = "bind"
               /\ Advance("socket", "bound")
               /\ pc' = "loop"
               /\ UNCHANGED <<memberVars, clientVars, robbed>>

listen == /\ pc = "loop"
          /\ listenning_' = TRUE
          /\ Advance("bound", "listen")
          /\ UNCHANGED <<acceptSocket_, idleFd_, newConnectionCallback_, clientVars, pc, robbed>>

\* ~Acceptor and ~Socket; the kernel drops the connections that nobody accepted.
destroyAcceptor == /\ pc = "loop"
                   /\ table' = [fd \in Fd |-> IF fd \in {idleFd_, acceptSocket_}
                                              THEN "free" ELSE table[fd]]
                   /\ backlog' = 0
                   /\ pc' = "destroyed"
                   /\ UNCHANGED <<memberVars, connects, robbed>>

handleRead == /\ pc = "loop" /\ backlog > 0
              /\ pc' = "accept"
              /\ UNCHANGED <<table, memberVars, clientVars, robbed>>

\* accept succeeds: the connection goes to the callback, or is closed if there
\* is none.  (A connection on descriptor 0 is passed on without its address.)
acceptNew == /\ pc = "accept" /\ Free # {} /\ backlog > 0
             /\ table' = [table EXCEPT ![Lowest] = IF newConnectionCallback_ THEN "conn"
                                                   ELSE "free"]
             /\ backlog' = backlog - 1
             /\ pc' = "loop"
             /\ UNCHANGED <<memberVars, connects, robbed>>

\* accept fails for another reason than EMFILE: nobody waits any more, or a
\* passing error that is only logged.
acceptFails == /\ pc = "accept" /\ Free # {}
               /\ pc' = "loop"
               /\ UNCHANGED <<table, memberVars, clientVars, robbed>>

\* EMFILE, but LOG_SYSERR writes its line first and the output function leaves
\* another errno behind: nothing is shed this time.
acceptFullMasked == /\ pc = "accept" /\ Free = {}
                    /\ pc' = "loop"
                    /\ UNCHANGED <<table, memberVars, clientVars, robbed>>

\* Faulty variant: EMFILE is only logged as well.
acceptFullLogged == /\ pc = "accept" /\ Free = {}
                    /\ pc' = "loop"
                    /\ UNCHANGED <<table, memberVars, clientVars, robbed>>

\* EMFILE, which the kernel finds out before it looks at the backlog, and errno
\* survives the logging: four system calls with idleFd_.
acceptFull == /\ pc = "accept" /\ Free = {}
              /\ pc' = "closeIdle"
              /\ UNCHANGED <<table, memberVars, clientVars, robbed>>

closeIdle == /\ pc = "closeIdle"
             /\ table' = closed(idleFd_)
             /\ pc' = "acceptIdle"
             /\ UNCHANGED <<memberVars, clientVars, robbed>>

\* Faulty variant: a failed accept leaves idleFd_ as it was.
acceptedOrOld == IF Free # {} /\ backlog > 0 THEN Lowest ELSE idleFd_

accepted == IF Free # {} /\ backlog > 0 THEN Lowest ELSE None

acceptIdle ==
    /\ pc = "acceptIdle"
    /\ idleFd_' = accepted
    /\ \/ /\ Free # {} /\ backlog > 0
          /\ table' = [table EXCEPT ![Lowest] = "shed"]
          /\ backlog' = backlog - 1
       \/ ~(Free # {} /\ backlog > 0) /\ UNCHANGED <<table, backlog>>
    /\ pc' = "closeShed"
    /\ UNCHANGED <<acceptSocket_, listenning_, newConnectionCallback_, connects, robbed>>

\* Faulty variant: the connection that was shed is not closed.
closeShedNothing == /\ pc = "closeShed"
                    /\ pc' = "reopen"
                    /\ UNCHANGED <<table, memberVars, clientVars, robbed>>

closeShed == /\ pc = "closeShed"
             /\ table' = closed(idleFd_)
             /\ pc' = "reopen"
             /\ UNCHANGED <<memberVars, clientVars, robbed>>

reopen == /\ pc = "reopen"
          /\ idleFd_' = openedFd /\ table' = opened("idle")
          /\ pc' = "loop"
          /\ UNCHANGED <<acceptSocket_, listenning_, newConnectionCallback_, clientVars, robbed>>

Construct == socket \/ openIdle \/ bindAddress

LoopStep == \/ handleRead \/ acceptNew \/ acceptFails \/ acceptFull \/ acceptFullMasked
            \/ closeIdle \/ acceptIdle \/ closeShed \/ reopen

AcceptorNext == \/ Connect \/ Abort \/ OpenOther \/ CloseOther
                \/ Construct \/ listen \/ destroyAcceptor \/ LoopStep

AcceptorSafeSpec == AcceptorInit /\ [][AcceptorNext]_acceptorVars

\* The loop runs, the errors that are only logged pass, and the output of the
\* logger does not hide EMFILE every time.
AcceptorSpec == AcceptorSafeSpec /\ WF_acceptorVars(LoopStep) /\ SF_acceptorVars(acceptNew) /\ SF_acceptorVars(acceptFull)
-----------------------------------------------------------------------------
\* The types, and that a connection is taken off the backlog only if it is there.
AcceptorTypeOK == /\ table \in [Fd -> Uses]
                  /\ acceptSocket_ \in Fd \cup {None} /\ idleFd_ \in Fd \cup {None}
                  /\ listenning_ \in BOOLEAN /\ newConnectionCallback_ \in BOOLEAN
                  /\ connects \in 0..MaxConnects /\ backlog \in 0..connects
                  /\ pc \in {"socket", "idle", "bind", "loop", "accept", "closeIdle", "acceptIdle",
                             "closeShed", "reopen", "destroyed", "aborted"}

\* No descriptor is leaked and none of another thread's is closed: whenever
\* handleRead is about to close idleFd_ it is the acceptor's own or none, and
\* the only descriptors taken by the shedding are the one in idleFd_.  The
\* socket that ~Socket closes is the acceptor's own as well.
OnlyOwnClosed ==
    /\ pc \in {"bind", "loop", "accept", "closeIdle"} /\ idleFd_ # None => table[idleFd_] = "idle"
    /\ pc = "closeShed" /\ idleFd_ # None => table[idleFd_] = "shed"
    /\ \A fd \in Fd : table[fd] = "idle" => fd = idleFd_ /\ pc # "destroyed"
    /\ \A fd \in Fd : table[fd] = "shed" => fd = idleFd_ /\ pc = "closeShed"
    /\ pc # "destroyed" => \A fd \in Fd : (fd = acceptSocket_) <=> (table[fd] \in Stages)

\* After every handleRead the acceptor has its spare descriptor again, as the
\* constructor asserts at the start, unless another thread has opened one in
\* the moments in which handleRead had given it up.
SpareHeld == pc = "loop" /\ ~robbed => idleFd_ # None

\* Where the acceptor has its spare descriptor, and where it has given it up.
Spared == {"bind", "loop", "accept", "closeIdle"}
Unspared == {"socket", "idle", "acceptIdle", "closeShed", "reopen"}

\* The inductive invariant: before the socket and the spare descriptor are opened
\* they are none, where the spare one is given up no descriptor is an idle one,
\* and as long as nobody has interfered one is free or about to be.
AcceptorInv == /\ AcceptorTypeOK /\ OnlyOwnClosed
               /\ pc = "socket" => acceptSocket_ = None
               /\ pc \in Unspared => \A fd \in Fd : table[fd] # "idle"
               /\ pc \in {"destroyed", "aborted"} => \A fd \in Fd : table[fd] \notin {"idle", "shed"}
               /\ ~robbed => /\ pc \in Spared => idleFd_ # None
                             /\ pc \in {"acceptIdle", "reopen"} => Free # {}
                             /\ pc = "closeShed" => idleFd_ # None \/ Free # {}

\* Every pending connection is accepted or shed, also when the process is out
\* of descriptors and nobody ever closes one, and although the errno that says
\* so may be overwritten by the logger before it is tested, as long as no other
\* thread has taken the spare descriptor.
PendingHandled == (backlog > 0) ~> (backlog = 0 \/ pc = "destroyed" \/ robbed)
=============================================================================
