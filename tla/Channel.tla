------------------------------ MODULE Channel ------------------------------
(***************************************************************************)
(* net/Channel.h/.cc: the events a descriptor's owner is interested in and *)
(* the callbacks that handle them.  handleEvent calls up to four callbacks *)
(* in a row, those that are set; any of them may change the interest, set  *)
(* callbacks, take the channel out of the loop or drop the last reference  *)
(* to the owner, with which the channel itself is destroyed.               *)
(*                                                                         *)
(* Everything runs in the thread of the EventLoop, which is not part of    *)
(* the repository: it keeps the channels given to updateChannel, and its   *)
(* poll reports events asked for, or errors.  A mask is a set of bits.     *)
(***************************************************************************)
EXTENDS Naturals

CONSTANTS MaxRefs,  \* bound: the references to the owner held outside
          Polled    \* bound: the bits that poll reports, some of Bits


VARIABLES events_, revents_, tied_, eventHandling_, addedToLoop_,
          inLoop,     \* the loop has the channel
          refs,       \* the shared_ptrs to the owner, besides guard
          guard,      \* the shared_ptr of handleEvent holds the owner
          alive,      \* the owner and its channel exist
          stage,      \* the next test of handleEventWithGuard
          callbacks,  \* which of readCallback_, writeCallback_, ... are set
          kept,       \* history: those set ever since this handleEvent began
          called,     \* history: those this handleEvent has called
          wanted      \* history: the events the owner has asked for

maskVars == <<events_, addedToLoop_, inLoop, wanted>>
ownerVars == <<refs, guard, alive>>
callbackVars == <<callbacks, kept>>
handleVars == <<revents_, eventHandling_, stage, called>>
channelVars == <<maskVars, tied_, ownerVars, callbackVars, handleVars>>

\* Every bit poll(2) names, and the others of an int.
Bits == {"IN", "PRI", "OUT", "ERR", "HUP", "NVAL", "RDHUP", "other"}
ASSUME PollAssumption == Polled \subseteq Bits
ASSUME MaxRefsAssumption == MaxRefs \in Nat \ {0}

kNoneEvent == {}
kReadEvent == {"IN", "PRI"}
kWriteEvent == {"OUT"}

isNoneEvent == events_ = kNoneEvent

\* poll reports these whether asked or not.
AlwaysReported == {"ERR", "HUP", "NVAL"}

ChannelInit == /\ events_ = kNoneEvent /\ revents_ = {} /\ wanted = {}
               /\ tied_ = FALSE /\ eventHandling_ = FALSE
               /\ addedToLoop_ = FALSE /\ inLoop = FALSE
               /\ refs = 1 /\ guard = FALSE /\ alive = TRUE
               /\ stage = "idle" /\ called = {}
               /\ callbacks = {} /\ kept = {}

-----------------------------------------------------------------------------
(* What the owner and its callbacks do *)

update(mask) == /\ events_' = mask
                /\ addedToLoop_' = TRUE
                /\ inLoop' = TRUE

enable(bits) == /\ update(events_ \cup bits)
                /\ wanted' = wanted \cup bits

\* events_ |= ~bits: the complement is added, nothing is taken away.
disable(bits) == /\ update(events_ \cup (Bits \ bits))
                 /\ wanted' = wanted \ bits

disableAll == /\ update(kNoneEvent)
              /\ wanted' = {}

ChangeInterest == /\ alive
                  /\ \/ \E bits \in {kReadEvent, kWriteEvent} : enable(bits) \/ disable(bits)
                     \/ disableAll
                  /\ UNCHANGED <<tied_, ownerVars, callbackVars, handleVars>>

\* setReadCallback and the others: to a function, or to an empty one.
setCallback(s) == /\ alive
                  /\ \/ callbacks' = callbacks \cup {s} /\ UNCHANGED kept
                     \/ callbacks' = callbacks \ {s} /\ kept' = kept \ {s}
                  /\ UNCHANGED <<maskVars, tied_, ownerVars, handleVars>>

\* remove asserts isNoneEvent(), which disableAll has seen to.
remove == /\ alive /\ isNoneEvent
          /\ addedToLoop_' = FALSE /\ inLoop' = FALSE
          /\ UNCHANGED <<events_, wanted, tied_, ownerVars, callbackVars, handleVars>>

\* The owner ties itself when it is set up, before any event.
tie == /\ alive /\ stage = "idle" /\ ~addedToLoop_
       /\ tied_' = TRUE
       /\ UNCHANGED <<maskVars, ownerVars, callbackVars, handleVars>>

\* A copy of a shared_ptr, in a callback possibly of guard itself.
share == /\ alive /\ refs < MaxRefs
         /\ refs' = refs + 1
         /\ UNCHANGED <<maskVars, tied_, guard, alive, callbackVars, handleVars>>

\* The owner's destructor, as ~Acceptor: disableAll, remove, ~Channel.
destroyOwner == /\ alive' = FALSE
                /\ events_' = kNoneEvent /\ wanted' = {}
                /\ addedToLoop_' = FALSE /\ inLoop' = FALSE

\* A reference goes away.  The owner of an untied channel is not destroyed in
\* one of its callbacks: only tie makes that possible.
drop == /\ alive /\ refs > 0
        /\ refs = 1 /\ ~tied_ => stage = "idle"
        /\ refs' = refs - 1
        /\ \/ refs' = 0 /\ ~guard /\ destroyOwner
           \/ ~(refs' = 0 /\ ~guard) /\ UNCHANGED <<maskVars, alive>>
        /\ UNCHANGED <<tied_, guard, callbackVars, handleVars>>

-----------------------------------------------------------------------------
(* The loop *)

\* Faulty variant: the weak pointer is tested but not locked.
lockNothing == FALSE

\* guard = tie_.lock(), if the channel is tied.
lock == tied_

\* poll reports events and the loop calls handleEvent; a tied channel whose
\* owner has expired gets no callback.
handleEvent ==
    /\ stage = "idle" /\ inLoop
    /\ tied_ => refs > 0
    /\ revents_' \in (SUBSET ((events_ \cup AlwaysReported) \cap Polled)) \ {{}}
    /\ guard' = lock
    /\ eventHandling_' = TRUE
    /\ stage' = "close" /\ called' = {} /\ kept' = callbacks
    /\ UNCHANGED <<maskVars, tied_, refs, alive, callbacks>>

\* Faulty variant: a hangup closes although there is data to read.
closeDueAnyway == "HUP" \in revents_

closeDue == "HUP" \in revents_ /\ "IN" \notin revents_

Due(s) == CASE s = "close" -> closeDue
            [] s = "error" -> revents_ \cap {"ERR", "NVAL"} # {}
            [] s = "read"  -> revents_ \cap {"IN", "PRI", "RDHUP"} # {}
            [] s = "write" -> "OUT" \in revents_

After == [close |-> "error", error |-> "read", read |-> "write", write |-> "done"]

\* The next test of handleEventWithGuard, and the callback if its event is there
\* and it is set; what it does are steps of its own before the next test.
callback == /\ stage \in DOMAIN After
            /\ called' = IF Due(stage) THEN called \cup ({stage} \cap callbacks) ELSE called
            /\ stage' = After[stage]
            /\ UNCHANGED <<maskVars, tied_, ownerVars, callbackVars, revents_, eventHandling_>>

\* The end of handleEventWithGuard, and of handleEvent, where guard goes away.
handled == /\ stage = "done"
           /\ eventHandling_' = FALSE /\ stage' = "idle"
           /\ guard' = FALSE
           /\ \/ guard /\ refs = 0 /\ destroyOwner
              \/ ~(guard /\ refs = 0) /\ UNCHANGED <<maskVars, alive>>
           /\ called' = {} /\ kept' = {}
           /\ UNCHANGED <<tied_, refs, revents_, callbacks>>

ChannelNext == \/ ChangeInterest \/ (\E s \in DOMAIN After : setCallback(s)) \/ remove \/ tie \/ share \/ drop
               \/ handleEvent \/ callback \/ handled

ChannelSpec == ChannelInit /\ [][ChannelNext]_channelVars
-----------------------------------------------------------------------------
\* The types, and that the channel knows whether the loop has it: addedToLoop_
\* is what ~Channel asserts, inLoop what the loop's hasChannel answers.
ChannelTypeOK == /\ events_ \subseteq Bits /\ revents_ \subseteq Bits /\ wanted \subseteq Bits
                 /\ tied_ \in BOOLEAN /\ eventHandling_ \in BOOLEAN /\ addedToLoop_ \in BOOLEAN
                 /\ inLoop \in BOOLEAN /\ guard \in BOOLEAN /\ alive \in BOOLEAN
                 /\ refs \in 0..MaxRefs
                 /\ stage \in {"idle", "done"} \cup DOMAIN After
                 /\ called \subseteq DOMAIN After /\ callbacks \subseteq DOMAIN After
                 /\ kept \subseteq callbacks
                 /\ addedToLoop_ <=> inLoop

\* The channel outlives its own handleEvent: whatever the callbacks do with
\* their references, the owner is destroyed after the last test of revents_
\* and after eventHandling_ is cleared, which ~Channel asserts, and a channel
\* that is destroyed is no longer in the loop.
OwnerOutlivesHandling ==
    /\ eventHandling_ => alive
    /\ ~alive => ~inLoop /\ refs = 0

\* The callback that a bit reported by poll is for: a hangup with data still to
\* read is for the read callback, which finds the end behind the data.
Handler(bit) == CASE bit \in {"IN", "PRI", "RDHUP"} -> "read"
                  [] bit = "OUT" -> "write"
                  [] bit \in {"ERR", "NVAL"} -> "error"
                  [] bit = "HUP" -> IF "IN" \in revents_ THEN "read" ELSE "close"

\* By the end of handleEvent every bit that poll reported has reached the callback
\* it is for, whatever the callbacks before it did to the interest, the loop, the
\* owner or each other, if that callback was set all the time; and no other one
\* has been called: a hangup with data still to read does not close.
EveryReportHandled ==
    stage = "done" => LET concerned == {Handler(bit) : bit \in revents_ \ {"other"}}
                      IN  concerned \cap kept \subseteq called /\ called \subseteq concerned

\* The tests that handleEventWithGuard has made when it comes to stage s.
Passed(s) == CASE s = "close" -> {}
               [] s = "error" -> {"close"}
               [] s = "read"  -> {"close", "error"}
               [] s = "write" -> {"close", "error", "read"}
               [] OTHER -> {"close", "error", "read", "write"}

\* The inductive invariant: an owner that exists is referred to, from outside or
\* by the guard of a handleEvent that is under way, and a tied one by the guard
\* while there is one; the callbacks called are among those that were due so far,
\* and all of these that have been set all the time.
ChannelInv == /\ ChannelTypeOK
              /\ alive => refs > 0 \/ guard
              /\ ~alive => ~inLoop /\ refs = 0
              /\ stage # "idle" => alive /\ (guard <=> tied_)
              /\ stage = "idle" => ~guard
              /\ eventHandling_ <=> stage # "idle"
              /\ stage # "idle" => /\ called \subseteq {s \in Passed(stage) : Due(s)}
                                   /\ {s \in Passed(stage) : Due(s)} \cap kept \subseteq called

\* An owner that has disabled everything it enabled has a channel without
\* events, which remove() asserts.
InterestWithdrawn == alive /\ wanted = {} => isNoneEvent
=============================================================================
