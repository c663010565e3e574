------------------------------- MODULE LogFile -------------------------------
(***************************************************************************)
(* base/LogFile.h/.cc with the WriteFile of base/FileUtil.h/.cc: lines are *)
(* appended to a buffered file that is rolled when it is large or when its *)
(* day is over, and flushed now and then.                                  *)
(*                                                                         *)
(* With a mutex (m_bThreadSafe) an append or flush is one critical section *)
(* whoever calls it; without one the object belongs to one thread.  Either *)
(* way an operation is one action.  The one thing that can happen inside a *)
(* critical section is that append calls flush, which locks again.         *)
(* An operation takes place within one second: the one or two calls of     *)
(* time(NULL) it makes agree.  Between operations the clock may be set     *)
(* forward and back.  A line is its number and the second of its append,   *)
(* and has length 1.                                                       *)
(***************************************************************************)
EXTENDS Integers, Sequences, FiniteSets, LinePlaces

CONSTANTS RollSize,       \* m_rollSize, in lines
          FlushInterval,  \* m_flushInterval, in seconds
          CheckEveryN,    \* m_checkEveryN
          RollPeriod,     \* m_rollPeriod, in seconds
          Uninit,         \* what a member the constructor skips may hold
          OpenMayFail, DiskMayFill,   \* may fopen fail, and writes?
          MaxTime,        \* bound: the last second
          MaxAppends      \* bound: the number of appends

ASSUME SizeAssumption == RollSize \in Nat /\ CheckEveryN \in Nat \ {0}
ASSUME TimeAssumption == /\ RollPeriod \in Nat \ {0} /\ FlushInterval \in Nat
                         /\ Uninit \subseteq Int /\ MaxTime \in Nat
ASSUME BoundAssumption == MaxAppends \in Nat /\ {OpenMayFail, DiskMayFill} \subseteq BOOLEAN

VARIABLES now,            \* time(NULL)
          m_bThreadSafe,  \* is there a mutex?
          stuck,          \* the mutex is held by an append that waits for it
          m_lastRoll, m_lastFlush, m_startPeriod, m_appendCount,
          files,          \* the WriteFiles opened so far, m_scpFile the last
          startCount,     \* history: the m_appendCount the memory held
          appended,       \* history: the lines appended
          disk            \* "ok", "full" or "freed" again

rollVars == <<m_lastRoll, m_lastFlush, m_startPeriod>>
vars == <<now, m_bThreadSafe, stuck, rollVars, m_appendCount, files, appended, disk,
          startCount>>

\* WriteFile: its stdio buffer, what the kernel has, m_nBytesWritten, m_valid and
\* (history) the lines it has dropped and the m_lastRoll and m_startPeriod while
\* it is m_scpFile.  The name of a rolled file is the second in which it was
\* opened; the constructor opens one under the base name first.
BaseName == -1
NewFile(name, valid, roll, period) ==
    [name |-> name, valid |-> valid, buffer |-> <<>>, disk |-> <<>>,
     m_nBytesWritten |-> 0, dropped |-> {}, roll |-> roll, period |-> period]

\* What stdio may make of a file while the disk is full.
OnFullDisk(f) == IF disk = "full" THEN {f} ELSE {}

\* The files that may come of writing a line: on a full disk fwrite may refuse
\* it, and it is counted all the same.
writeLine(f, line) ==
    IF f.valid
    THEN {[f EXCEPT !.buffer = Append(@, line), !.m_nBytesWritten = @ + 1]}
         \cup OnFullDisk([f EXCEPT !.dropped = @ \cup {line}, !.m_nBytesWritten = @ + 1])
    ELSE {[f EXCEPT !.dropped = @ \cup {line}]}

Flushed(f) == [f EXCEPT !.disk = @ \o f.buffer, !.buffer = <<>>]

\* fflush and fclose; nobody looks at their results, and fclose frees the buffer
\* in any case.
fflush(f) == {Flushed(f)} \cup OnFullDisk(f)

\* Faulty variant: the buffer is freed and not written.
fcloseFreed(f) == {[f EXCEPT !.buffer = <<>>]}

fclose(f) == {Flushed(f)}
             \cup OnFullDisk([f EXCEPT !.buffer = <<>>, !.dropped = @ \cup Held(<<f.buffer>>)])

lines(f) == f.disk \o f.buffer
WritenBytes(f) == f.m_nBytesWritten

m_scpFile == files[Len(files)]
WithCurrent(f) == [files EXCEPT ![Len(files)] = f]

Opened == IF OpenMayFail THEN BOOLEAN ELSE {TRUE}
PeriodOf(time) == (time \div RollPeriod) * RollPeriod

\* Faulty variant: a second roll in the same second.
mayRollAgain == now >= m_lastRoll

\* rollFile, for m_scpFile = f: at most one roll a second, because the second
\* names the file.  The old file is closed, which writes its buffer out.
mayRoll == now > m_lastRoll

rollFile(f) ==
    \/ /\ mayRoll
       /\ m_lastRoll' = now /\ m_lastFlush' = now /\ m_startPeriod' = PeriodOf(now)
       /\ \E valid \in Opened, old \in fclose(f) :
             files' = Append(WithCurrent(old), NewFile(now, valid, now, PeriodOf(now)))
    \/ /\ ~mayRoll
       /\ files' = WithCurrent(f)
       /\ UNCHANGED rollVars

\* The constructor calls rollFile before m_lastRoll has a value: the members
\* keep what the memory held if that is not in the past.
Init == /\ now = 1
        /\ m_bThreadSafe \in BOOLEAN
        /\ stuck = FALSE
        /\ m_appendCount \in Uninit /\ startCount = m_appendCount
        /\ \E roll \in Uninit, flush \in Uninit, period \in Uninit, base \in Opened :
              \/ /\ now > roll
                 /\ m_lastRoll = now /\ m_lastFlush = now /\ m_startPeriod = PeriodOf(now)
                 /\ \E valid \in Opened :
                       files = <<NewFile(BaseName, base, m_lastRoll, m_startPeriod),
                                 NewFile(now, valid, now, PeriodOf(now))>>
              \/ /\ ~(now > roll)
                 /\ m_lastRoll = roll /\ m_lastFlush = flush /\ m_startPeriod = period
                 /\ files = <<NewFile(BaseName, base, m_lastRoll, m_startPeriod)>>
        /\ appended = <<>> /\ disk = "ok"

\* Time goes on, or the clock is set.
Tick == /\ now' \in (1..MaxTime) \ {now}
        /\ UNCHANGED <<m_bThreadSafe, startCount, stuck, rollVars, m_appendCount, files, appended, disk>>

\* Others fill the disk and free it again.
DiskChanges == /\ DiskMayFill /\ disk # "freed"
               /\ disk' = IF disk = "ok" THEN "full" ELSE "freed"
               /\ UNCHANGED <<now, m_bThreadSafe, startCount, stuck, rollVars, m_appendCount, files, appended>>

\* flush inside append_unlocked: with a mutex it blocks on the mutex that
\* append holds.
flushInAppend(f) == /\ stuck' = m_bThreadSafe
                    /\ \E g \in IF m_bThreadSafe THEN {f} ELSE fflush(f) : files' = WithCurrent(g)

checkDue == m_appendCount + 1 >= CheckEveryN
\* Faulty variant: the period is never compared.
periodNeverOver == FALSE

periodOver == PeriodOf(now) # m_startPeriod
flushDue == now - m_lastFlush >= FlushInterval

\* Faulty variant: the size of the file does not matter.
neverRollBySize(f) ==
    /\ WritenBytes(f) >= RollSize
    /\ files' = WithCurrent(f)
    /\ UNCHANGED <<stuck, m_appendCount, rollVars>>

\* What append_unlocked does once the line is in the file f.
rollBySize(f) == /\ WritenBytes(f) >= RollSize
                 /\ rollFile(f)
                 /\ UNCHANGED <<stuck, m_appendCount>>

countOnly(f) == /\ WritenBytes(f) < RollSize /\ ~checkDue
                /\ m_appendCount' = m_appendCount + 1
                /\ files' = WithCurrent(f)
                /\ UNCHANGED <<stuck, rollVars>>

check(f) == /\ WritenBytes(f) < RollSize /\ checkDue
            /\ m_appendCount' = 0
            /\ \/ periodOver /\ rollFile(f) /\ UNCHANGED stuck
               \/ /\ ~periodOver /\ flushDue
                  /\ m_lastFlush' = now
                  /\ flushInAppend(f)
                  /\ UNCHANGED <<m_lastRoll, m_startPeriod>>
               \/ /\ ~periodOver /\ ~flushDue
                  /\ files' = WithCurrent(f)
                  /\ UNCHANGED <<stuck, rollVars>>

append == /\ ~stuck /\ Len(appended) < MaxAppends
          /\ LET line == <<Len(appended) + 1, now>>
             IN  /\ appended' = Append(appended, line)
                 /\ \E f \in writeLine(m_scpFile, line) :
                       rollBySize(f) \/ countOnly(f) \/ check(f)
          /\ UNCHANGED <<now, m_bThreadSafe, startCount, disk>>

flush == /\ ~stuck
         /\ m_scpFile.valid /\ \E f \in fflush(m_scpFile) : files' = WithCurrent(f)
         /\ UNCHANGED <<now, m_bThreadSafe, startCount, stuck, rollVars, m_appendCount, appended, disk>>

\* rollFile is public and takes no mutex, so only a single-threaded owner may
\* call it.
callRollFile == /\ ~m_bThreadSafe
                /\ rollFile(m_scpFile)
                /\ UNCHANGED <<now, m_bThreadSafe, startCount, stuck, m_appendCount, appended, disk>>

Next == Tick \/ DiskChanges \/ append \/ flush \/ callRollFile

Spec == Init /\ [][Next]_vars
-----------------------------------------------------------------------------
Line == Nat \X Nat
File == [name: Int, valid: BOOLEAN, buffer: Seq(Line), disk: Seq(Line), m_nBytesWritten: Nat,
         dropped: SUBSET Line, roll: Int, period: Int]

\* How far below zero the uninitialised m_appendCount was.
Below == IF startCount < 0 THEN -startCount ELSE 0

\* The types, and the range m_appendCount keeps to from whatever the memory held.
TypeOK == /\ now \in Nat \ {0}
          /\ m_bThreadSafe \in BOOLEAN /\ stuck \in BOOLEAN
          /\ m_lastRoll \in Int /\ m_lastFlush \in Int /\ m_startPeriod \in Int
          /\ startCount \in Int /\ m_appendCount \in Int
          /\ m_appendCount >= -Below
          /\ m_appendCount = startCount \/ m_appendCount < CheckEveryN
          /\ files \in Seq(File) /\ files # <<>>
          /\ appended \in Seq(Line) /\ disk \in {"ok", "full", "freed"}

Places == [i \in DOMAIN files |-> lines(files[i])]
Dropped == UNION {files[i].dropped : i \in DOMAIN files}
Appended == {appended[i] : i \in DOMAIN appended}

\* Every line is in exactly one file, in the order of the appends, across rolls
\* and flushes, except the lines given to a file that could not be opened or
\* that met a full disk, which append reports as written.
NoLineLost ==
    /\ Held(Places) = Appended \ Dropped
    /\ InOrder(Places)
    /\ disk = "ok" => \A i \in DOMAIN files : files[i].valid => files[i].dropped = {}

\* No two files have the same name, so a roll never reopens an older file, and
\* what is rolled away is on disk.
FilesDistinct ==
    /\ \A i, j \in DOMAIN files : i < j => files[i].name < files[j].name
    /\ \A i \in 1..(Len(files) - 1) : files[i].buffer = <<>>

\* A file that has reached m_rollSize is rolled by that append, or by the first
\* append of a second past the last roll, since until then rollFile refuses: in
\* the second in which the file was opened, in the seconds before it when the
\* clock is set back, and for the first file up to what m_lastRoll happened to
\* hold.
RollSizeRespected ==
    \A i \in DOMAIN files : \A k \in 1..Len(lines(files[i])) :
        RollSize <= k /\ k < Len(lines(files[i])) => lines(files[i])[k][2] <= files[i].roll

\* Line k of the file f is of another period than the one the file is for, and of
\* a second in which it can be rolled.
Late(f, k) == lines(f)[k][2] > f.roll /\ PeriodOf(lines(f)[k][2]) # f.period

\* The lines a to b of the file f are late, and nothing was appended in between
\* that f does not have.
LateInARow(f, a, b) ==
    a <= b /\ \A k \in a..b : Late(f, k) /\ lines(f)[k][1] - k = lines(f)[a][1] - a

\* A file takes at most m_checkEveryN late lines in a row before an append
\* notices that the period is over and rolls it, and more only by as much as the
\* uninitialised m_appendCount was below zero.  (When the clock is set back
\* between two late lines, the check may come at a line that is not late.)
PeriodRespected ==
    \A i \in DOMAIN files : \A a, b \in 1..Len(lines(files[i])) :
        LateInARow(files[i], a, b) => b - a < CheckEveryN + Below

\* The first file has the base name, the last one of the others the second of
\* m_lastRoll; only the last one has anything buffered.
Names == /\ files[1].name = BaseName
         /\ Len(files) > 1 => m_scpFile.name = m_lastRoll
         /\ m_scpFile.roll = m_lastRoll /\ m_scpFile.period = m_startPeriod
         /\ FilesDistinct

\* m_nBytesWritten counts every line of a file.
Counted == \A i \in DOMAIN files : files[i].m_nBytesWritten >= Len(lines(files[i]))

\* In the file that is not yet rolled every line from RollSize on is of a second
\* in which it could not be rolled, or its append would have rolled it.
CurrentSize == \A k \in 1..Len(lines(m_scpFile)) :
                   k >= RollSize => lines(m_scpFile)[k][2] <= m_scpFile.roll

\* Late lines in a row up to the last append have been counted by m_appendCount.
CurrentPeriod ==
    LET last == Len(lines(m_scpFile))
    IN  \A a \in 1..last :
            LateInARow(m_scpFile, a, last) /\ lines(m_scpFile)[last][1] = Len(appended)
                => m_appendCount < CheckEveryN /\ last - a < m_appendCount + Below

\* The lines are numbered in the order of their appends, and what is dropped
\* has been appended.
Numbered == /\ \A i \in DOMAIN appended : appended[i][1] = i
            /\ Dropped \subseteq Appended

\* The inductive invariant.
Inv == /\ TypeOK /\ Names /\ Counted /\ Numbered /\ NoLineLost
       /\ CurrentSize /\ RollSizeRespected
       /\ CurrentPeriod /\ PeriodRespected
=============================================================================
