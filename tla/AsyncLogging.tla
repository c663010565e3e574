---------------------------- MODULE AsyncLogging ----------------------------
(***************************************************************************)
(* base/AsyncLogging.h/.cc: user threads append log lines to a front       *)
(* buffer, the logging thread swaps the filled buffers out under the mutex *)
(* and writes them to a LogFile.  Four buffers circulate: m_curbuff and    *)
(* m_nextbuff in front, firstBuffer and secondBuffer in the logging thread.*)
(*                                                                         *)
(* append() is one critical section, whichever user thread calls it.  The  *)
(* logging thread has a program counter; m_running is read without the     *)
(* mutex.  A buffer is the lines it holds and how far it is filled, a line *)
(* is its number and its length.                                           *)
(***************************************************************************)
EXTENDS Integers, Sequences, LinePlaces

CONSTANTS BuffSize,      \* kLargeBuffer, the bytes of a buffer
          Lengths,       \* the lengths of the log lines
          MaxAppends,    \* bound: the calls of append in a behaviour
          DropAbove,     \* 25: the buffers above which lines are dropped
          CheckEveryN,   \* LogFile's m_checkEveryN
          FlushElapses,  \* can m_flushInterval pass between two file rolls?
          Null           \* a pointer that owns no buffer

ASSUME SizeAssumption == BuffSize \in Nat /\ Lengths \subseteq Nat
ASSUME DropAssumption == DropAbove \in Nat \ {0}
ASSUME CheckAssumption == CheckEveryN \in Nat \ {0} /\ FlushElapses \in BOOLEAN
ASSUME MaxAppendsAssumption == MaxAppends \in Nat

Line == Nat \X Nat
Buffer == [lines: Seq(Line), m_cur: 0..BuffSize]

ASSUME NullAssumption == Null \notin Buffer

VARIABLES m_running,
          m_latch,        \* the count of the latch start() waits on
          m_curbuff, m_nextbuff, m_buffs,            \* the front end
          firstBuffer, secondBuffer, buffsToWrite,   \* the logging thread
          written,        \* how many of buffsToWrite are in the file
          logger,         \* where the logging thread is
          owner,          \* where the owner is in start and stop
          m_appendCount,  \* of the LogFile
          file,           \* the lines given to the LogFile
          appended,       \* history: the lines given to append, in order
          dropped,        \* history: the lines thrown away
          crashed         \* the process has died

frontVars == <<m_curbuff, m_nextbuff, m_buffs>>
backVars == <<firstBuffer, secondBuffer, buffsToWrite, written>>
fileVars == <<m_appendCount, file>>
ownerVars == <<m_running, m_latch, owner>>
historyVars == <<appended, dropped>>
outVars == <<fileVars, historyVars, crashed>>
vars == <<frontVars, backVars, logger, ownerVars, outVars>>

LoggerLabels == {"unborn", "begin", "loop", "lock", "waiting", "woken", "trim",
                 "write", "exited", "hung"}
OwnerLabels == {"new", "starting", "running", "stopping", "stopped"}

\* FixedBuffer: m_cur is where the next line goes; append copies a line if it
\* fits and otherwise leaves the buffer alone.
avail(b) == BuffSize - b.m_cur
bufferAppend(b, line) ==
    IF avail(b) >= line[2]
    THEN [lines |-> Append(b.lines, line), m_cur |-> b.m_cur + line[2]] ELSE b
ResetBuffer == [lines |-> <<>>, m_cur |-> 0]

\* Faulty variant: the buffer is not queued.
push_nothing(buffs, b) == buffs

push_back(buffs, b) == Append(buffs, b)

\* Faulty variant: a pointer that keeps what it has given away.
copied(p) == p

\* ptr_container::move and auto_type::release leave a null pointer behind.
moved(p) == Null

Init == /\ m_running = FALSE /\ m_latch = 1
        /\ m_curbuff = ResetBuffer /\ m_nextbuff = ResetBuffer /\ m_buffs = <<>>
        /\ firstBuffer = Null /\ secondBuffer = Null
        /\ buffsToWrite = <<>> /\ written = 0
        /\ logger = "unborn" /\ owner = "new"
        /\ m_appendCount \in 0..(CheckEveryN - 1)   \* not initialised by LogFile
        /\ file = <<>>
        /\ appended = <<>> /\ dropped = {} /\ crashed = FALSE

-----------------------------------------------------------------------------
(* The front end *)

NewLine(line) == /\ ~crashed
                 /\ Len(appended) < MaxAppends
                 /\ line = <<Len(appended) + 1, line[2]>>
                 /\ appended' = Append(appended, line)

\* Condition::notify, for the one thread that ever waits.
Notify == logger' = IF logger = "waiting" THEN "woken" ELSE logger

\* append, the line fits in the current buffer.
appendFits(line) ==
    /\ NewLine(line)
    /\ avail(m_curbuff) > line[2]
    /\ m_curbuff' = bufferAppend(m_curbuff, line)
    /\ UNCHANGED <<m_nextbuff, m_buffs, backVars, logger, ownerVars, fileVars, dropped, crashed>>

\* append, the spare buffer takes over from the full one.
appendNext(line) ==
    /\ NewLine(line)
    /\ ~(avail(m_curbuff) > line[2])
    /\ m_nextbuff # Null
    /\ m_buffs' = push_back(m_buffs, m_curbuff)
    /\ m_curbuff' = bufferAppend(m_nextbuff, line)
    /\ m_nextbuff' = moved(m_nextbuff)
    /\ dropped' = IF m_curbuff' = m_nextbuff THEN dropped \cup {line} ELSE dropped
    /\ Notify
    /\ UNCHANGED <<backVars, ownerVars, fileVars, crashed>>

\* append, no spare buffer: m_curbuff has just been released and is reset
\* through a null pointer.
appendCrash(line) ==
    /\ NewLine(line)
    /\ ~(avail(m_curbuff) > line[2])
    /\ m_nextbuff = Null
    /\ m_buffs' = push_back(m_buffs, m_curbuff)
    /\ m_curbuff' = moved(m_curbuff)
    /\ crashed' = TRUE
    /\ UNCHANGED <<m_nextbuff, backVars, logger, ownerVars, fileVars, dropped>>

append == \E len \in Lengths :
            LET line == <<Len(appended) + 1, len>>
            IN  appendFits(line) \/ appendNext(line) \/ appendCrash(line)

-----------------------------------------------------------------------------
(* The owner *)

start == /\ ~crashed /\ owner = "new"
         /\ m_running' = TRUE
         /\ logger' = "begin"
         /\ owner' = "starting"
         /\ UNCHANGED <<m_latch, frontVars, backVars, outVars>>

latchWait == /\ ~crashed /\ owner = "starting"
             /\ m_latch = 0
             /\ owner' = "running"
             /\ UNCHANGED <<m_running, m_latch, logger, frontVars, backVars, outVars>>

\* stop does not signal the condition: the logging thread finds out when its
\* timed wait is over.
stop == /\ ~crashed /\ owner = "running"
        /\ m_running' = FALSE
        /\ owner' = "stopping"
        /\ UNCHANGED <<m_latch, logger, frontVars, backVars, outVars>>

join == /\ ~crashed /\ owner = "stopping"
        /\ logger = "exited"
        /\ owner' = "stopped"
        /\ UNCHANGED <<m_running, m_latch, logger, frontVars, backVars, outVars>>

-----------------------------------------------------------------------------
(* The logging thread *)

At(l) == ~crashed /\ logger = l

\* ThreadFunc up to its loop.  It asserts m_running: see AssertionsHold.
begin == /\ At("begin")
         /\ m_latch' = m_latch - 1
         /\ firstBuffer' = ResetBuffer /\ secondBuffer' = ResetBuffer
         /\ logger' = "loop"
         /\ UNCHANGED <<m_running, owner, frontVars, buffsToWrite, written, outVars>>

testRunning == /\ At("loop")
               /\ logger' = IF m_running THEN "lock" ELSE "exited"
               /\ UNCHANGED <<frontVars, backVars, ownerVars, outVars>>

waitForSeconds == /\ At("lock")
                  /\ m_buffs = <<>>
                  /\ logger' = "waiting"
                  /\ UNCHANGED <<frontVars, backVars, ownerVars, outVars>>

\* Faulty variant: a wait without a timeout.
wakeUpNeverInTime == /\ At("waiting") /\ m_buffs # <<>>
                     /\ logger' = "woken"
                     /\ UNCHANGED <<frontVars, backVars, ownerVars, outVars>>

\* The time is up, or a spurious wakeup: the code does not tell them apart.
wakeUp == /\ At("waiting")
          /\ logger' = "woken"
          /\ UNCHANGED <<frontVars, backVars, ownerVars, outVars>>

\* The rest of the critical section.
swap == /\ \/ At("woken")
           \/ At("lock") /\ m_buffs # <<>>
        /\ buffsToWrite' = push_back(m_buffs, m_curbuff)
        /\ m_buffs' = buffsToWrite
        /\ m_curbuff' = firstBuffer
        /\ firstBuffer' = moved(firstBuffer)
        /\ \/ /\ m_nextbuff = Null
              /\ m_nextbuff' = secondBuffer
              /\ secondBuffer' = moved(secondBuffer)
           \/ /\ m_nextbuff # Null
              /\ UNCHANGED <<m_nextbuff, secondBuffer>>
        /\ logger' = "trim"
        /\ UNCHANGED <<written, ownerVars, outVars>>

\* LogFile::append: the lines are in the file; then the file rolls, or the
\* append is counted, and every CheckEveryN-th counted one rolls, does nothing,
\* or flushes, which takes the mutex append holds and never returns.
logoutAppend(lines, next) ==
    /\ file' = file \o lines
    /\ \/ logger' = next /\ UNCHANGED m_appendCount
       \/ /\ m_appendCount + 1 < CheckEveryN
          /\ m_appendCount' = m_appendCount + 1
          /\ logger' = next
       \/ /\ m_appendCount + 1 >= CheckEveryN
          /\ m_appendCount' = 0
          /\ logger' \in {next} \cup (IF FlushElapses THEN {"hung"} ELSE {})

\* Too many buffers: all but the first two are dropped, and the file says so.
Dropping == Len(buffsToWrite) > DropAbove

trim == /\ At("trim")
        /\ \/ /\ ~Dropping
              /\ logger' = "write"
              /\ UNCHANGED <<buffsToWrite, fileVars, dropped>>
           \/ /\ Dropping
              /\ logoutAppend(<<>>, "write")
              /\ buffsToWrite' = SubSeq(buffsToWrite, 1, 2)
              /\ dropped' = dropped \cup
                    Held([i \in 3..Len(buffsToWrite) |-> buffsToWrite[i].lines])
        /\ UNCHANGED <<frontVars, firstBuffer, secondBuffer, written, ownerVars, appended, crashed>>

write == /\ At("write")
         /\ written < Len(buffsToWrite)
         /\ logoutAppend(buffsToWrite[written + 1].lines, "write")
         /\ written' = written + 1
         /\ UNCHANGED <<frontVars, firstBuffer, secondBuffer, buffsToWrite, ownerVars, historyVars, crashed>>

\* Faulty variant: the buffer keeps its old lines.
RefilledNoReset(buffer) == IF buffer = Null THEN buffsToWrite[Len(buffsToWrite)] ELSE buffer

\* A spare buffer that is gone is replaced by the last of the buffers just
\* written, of which at most two are kept; its old lines are reset away.
Refilled(buffer) == IF buffer = Null THEN ResetBuffer ELSE buffer

recycle == /\ At("write")
           /\ written = Len(buffsToWrite)
           /\ firstBuffer' = Refilled(firstBuffer)
           /\ secondBuffer' = Refilled(secondBuffer)
           /\ buffsToWrite' = <<>> /\ written' = 0
           /\ logger' = "loop"
           /\ UNCHANGED <<frontVars, ownerVars, outVars>>

LoggerStep == \/ begin \/ testRunning \/ waitForSeconds \/ wakeUp \/ swap
              \/ trim \/ write \/ recycle

Next == append \/ start \/ latchWait \/ stop \/ join \/ LoggerStep

SafeSpec == Init /\ [][Next]_vars

\* The scheduler runs the logging thread and its timed waits end; the owner
\* returns from start and stop when it can.
Spec == SafeSpec /\ WF_vars(LoggerStep) /\ WF_vars(latchWait) /\ WF_vars(join)
-----------------------------------------------------------------------------
Spare == {ResetBuffer, Null}

\* The types; that a spare buffer of either side, if there is one, is empty; and
\* that append has a current buffer until the process has crashed.
TypeOK == /\ m_running \in BOOLEAN /\ crashed \in BOOLEAN /\ m_latch \in 0..1
          /\ m_curbuff \in Buffer \cup {Null} /\ (m_curbuff = Null <=> crashed)
          /\ m_nextbuff \in Spare /\ firstBuffer \in Spare /\ secondBuffer \in Spare
          /\ m_buffs \in Seq(Buffer) /\ buffsToWrite \in Seq(Buffer)
          /\ written \in 0..Len(buffsToWrite)
          /\ logger \in LoggerLabels /\ owner \in OwnerLabels
          /\ m_appendCount \in 0..(CheckEveryN - 1)
          /\ file \in Seq(Line) /\ appended \in Seq(Line) /\ dropped \subseteq Line

\* The buffers the logging thread can still recycle: two of the written ones.
Recyclable == IF Len(buffsToWrite) > 2 THEN 2 ELSE Len(buffsToWrite)

\* The assertions of ThreadFunc: m_running is set when the thread begins,
\* there is something to write after every swap, and when the spare buffers
\* are refilled there is a written buffer for each that is gone ("with
\* secondBuffer empty, buffsToWrite holds at least two elements").
AssertionsHold ==
    /\ logger = "begin" => m_running
    /\ logger \in {"trim", "write"} =>
         /\ buffsToWrite # <<>>
         /\ (IF firstBuffer = Null THEN 1 ELSE 0) + (IF secondBuffer = Null THEN 1 ELSE 0)
                <= Recyclable

\* The front end never hands over more than two buffers at once, so the code
\* that drops lines when buffsToWrite exceeds 25 has nothing to do: a third
\* full buffer would have needed a spare one that append does not have.
AtMostTwoBuffers ==
    /\ ~crashed => Len(m_buffs) <= 1
    /\ Len(buffsToWrite) <= 2

\* Where a line can be, the oldest ones first: in the file, in a buffer that is
\* still to be written, in one that waits for the logging thread, in the
\* current one.
Buffered == SubSeq(buffsToWrite, written + 1, Len(buffsToWrite)) \o m_buffs \o <<m_curbuff>>
Places == <<file>> \o [i \in 1..Len(Buffered) |-> Buffered[i].lines]

Appended == {appended[i] : i \in DOMAIN appended}

\* Lines reach the file in the order in which append took them, each once:
\* file, the buffers being written, the buffers waiting and the current buffer
\* together hold every line that was not dropped, and no stale one.
NoLineLost ==
    ~crashed => /\ Held(Places) = Appended \ dropped
                /\ InOrder(Places)

\* start and stop against the latch and the logging thread.
Started == /\ owner = "new" <=> logger = "unborn"
           /\ m_latch = 1 <=> logger \in {"unborn", "begin"}
           /\ owner \in {"running", "stopping", "stopped"} => m_latch = 0
           /\ owner \in {"starting", "running"} => m_running

\* Where the four buffers are: outside its work the logging thread has both
\* spare ones, and the front end is short of its own exactly while a full
\* buffer waits; during the work the first is in front, and the second is only
\* if two buffers came for them.
FourBuffers ==
    /\ ~crashed => Len(m_buffs) <= 1 /\ (m_nextbuff = Null <=> m_buffs # <<>>)
    /\ logger \in {"unborn", "begin", "loop", "lock", "waiting", "woken"} =>
           buffsToWrite = <<>> /\ written = 0
    /\ logger \in {"loop", "lock", "waiting", "woken"} =>
           firstBuffer = ResetBuffer /\ secondBuffer = ResetBuffer
    /\ logger \in {"trim", "write", "hung"} =>
           /\ Len(buffsToWrite) \in 1..2
           /\ secondBuffer = Null => Len(buffsToWrite) = 2
    /\ Len(buffsToWrite) <= 2

\* The lines are numbered in the order of their appends, and what is dropped
\* has been appended.
Numbered == /\ \A i \in DOMAIN appended : appended[i][1] = i
            /\ dropped \subseteq Appended

\* The inductive invariant.
Inv == TypeOK /\ Started /\ FourBuffers /\ Numbered /\ NoLineLost

\* The two ways in which logging ends for good: append has used the buffer it
\* had just released, or the logging thread waits for the mutex of its LogFile
\* that it holds itself.
Dead == crashed \/ logger = "hung"

\* A line given to append gets into the file, or is dropped because the logging
\* thread could not keep up, unless logging is stopped or dead.
LineIsWritten ==
    \A i \in 1..MaxAppends :
        (Len(appended) >= i /\ owner = "running")
            ~> \/ \E j \in DOMAIN file : file[j][1] = i
               \/ \E line \in dropped : line[1] = i
               \/ owner \in {"stopping", "stopped"} \/ Dead

\* stop() returns: the logging thread notices m_running although nobody wakes it.
StopReturns == owner = "stopping" ~> owner = "stopped" \/ Dead
=============================================================================
