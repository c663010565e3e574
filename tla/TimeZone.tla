------------------------------ MODULE TimeZone ------------------------------
(***************************************************************************)
(* base/TimeZone.h/.cc: a zone is read from a zoneinfo file, or is a fixed *)
(* offset; findLocalTime searches its transitions for the local time that  *)
(* is in force, by universal or by local time.                             *)
(*                                                                         *)
(* A file is its first four bytes and the numbers that follow: how many    *)
(* transitions and local times there are, the transitions, the index of    *)
(* the local time of each, and the offsets.  The words that are read and   *)
(* ignored are left out.  A file may be cut off anywhere: a number that is *)
(* not there is read as 0.                                                 *)
(***************************************************************************)
EXTENDS Integers, Sequences

CONSTANTS ZoneFiles,   \* records with fields opens, head and numbers
          Offsets,     \* the offsets of fixed zones
          Seconds      \* the times that are looked up

VARIABLES m_spDate,    \* the Data, or NoData
          file,        \* history: the file it was read from
          sentry,      \* the time looked up last, and by which comparison
          local        \* what findLocalTime has found

zoneVars == <<m_spDate, file, sentry, local>>

NoData == [transitions |-> <<>>, localtimes |-> <<>>, null |-> TRUE]
NoFile == [opens |-> FALSE, head |-> "", numbers |-> <<>>]
Nothing == [what |-> "nothing", offset |-> 0]
Undefined == [what |-> "undefined", offset |-> 0]   \* an element a vector does not have
Failed == [what |-> "assertion", offset |-> 0]
Crashed == [what |-> "crash", offset |-> 0]   \* the constructor read through a null pointer
Found(offset) == [what |-> "found", offset |-> offset]

ZoneInit == m_spDate = NoData /\ file = NoFile /\ sentry = <<0, TRUE>> /\ local = Nothing

-----------------------------------------------------------------------------
(* Reading a zone *)

\* readInt32 and readUint8.
number(f, i) == IF i <= Len(f.numbers) THEN f.numbers[i] ELSE 0

timecnt(f) == number(f, 1)
typecnt(f) == number(f, 2)

localtimesOf(f) == [i \in 1..typecnt(f) |-> number(f, 2 + 2 * timecnt(f) + i)]

\* The index of the local time of transition i, counted from 0.
localIdx(f, i) == number(f, 2 + timecnt(f) + i)

\* What the zone compiler writes, whole or cut off anywhere: the counts and the
\* indices are not negative, and an index is that of a local time.
ASSUME ZoneAssumption ==
    /\ Offsets \subseteq Int /\ Seconds \subseteq Int
    /\ \A f \in ZoneFiles :
          /\ f.opens \in BOOLEAN /\ f.numbers \in Seq(Int)
          /\ timecnt(f) \in Nat /\ typecnt(f) \in Nat
          /\ \A i \in 1..timecnt(f) :
                localIdx(f, i) \in Nat /\ (typecnt(f) > 0 => localIdx(f, i) < typecnt(f))

transitionsOf(f) ==
    [i \in 1..timecnt(f) |->
        [gmtime |-> number(f, 2 + i),
         localtime |-> number(f, 2 + i) + localtimesOf(f)[localIdx(f, i) + 1],
         localtimeIdx |-> localIdx(f, i)]]

\* A transition has no local time to refer to: the empty vector is indexed, whose
\* storage is null.
indexesEmpty(f) == f.opens /\ f.head = "TZif" /\ timecnt(f) > 0 /\ typecnt(f) = 0

\* A file that cannot be opened leaves the Data empty and counts as read.
readTimeZoneFile(f) ==
    CASE ~f.opens -> [transitions |-> <<>>, localtimes |-> <<>>, null |-> FALSE]
      [] f.opens /\ f.head # "TZif" -> NoData
      [] OTHER -> [transitions |-> transitionsOf(f), localtimes |-> localtimesOf(f),
                   null |-> FALSE]

\* The constructors.
openZone == /\ m_spDate = NoData /\ file = NoFile
            /\ \E f \in ZoneFiles :
                  /\ file' = f
                  /\ \/ indexesEmpty(f) /\ local' = Crashed /\ UNCHANGED m_spDate
                     \/ ~indexesEmpty(f) /\ m_spDate' = readTimeZoneFile(f) /\ UNCHANGED local
            /\ UNCHANGED sentry

fixedZone == /\ m_spDate = NoData /\ file = NoFile
             /\ \E eastOfUtc \in Offsets :
                   m_spDate' = [transitions |-> <<>>, localtimes |-> <<eastOfUtc>>, null |-> FALSE]
             /\ UNCHANGED <<file, sentry, local>>

valid == ~m_spDate.null

-----------------------------------------------------------------------------
(* The search *)

key(transition, compareGMT) == IF compareGMT THEN transition.gmtime ELSE transition.localtime

\* The loop of std::lower_bound, for the number of elements it is left with and
\* then for the first of them: it halves the number until none is left.
halving(keys, t) ==
    LET search[len \in Nat] ==
            [first \in Nat |->
                LET half == len \div 2
                IN  IF len = 0 THEN first
                    ELSE IF keys[first + half + 1] < t THEN search[len - half - 1][first + half + 1]
                    ELSE search[half][first]]
    IN  search

\* The index, from 0, of the first transition not before t if they are in order;
\* the loop also ends when they are not.
lower_bound(keys, t) == halving(keys, t)[Len(keys)][0]

\* Faulty variant: only the zone without transitions is taken care of.
beforeFirstNever(keys, t) == keys = <<>>

beforeFirst(keys, t) == keys = <<>> \/ t < keys[1]

findLocalTime(data, t, compareGMT) ==
    LET keys == [i \in 1..Len(data.transitions) |-> key(data.transitions[i], compareGMT)]
        transI == lower_bound(keys, t)
        idx(i) == data.transitions[i + 1].localtimeIdx
        localOf(i) == IF idx(i) < Len(data.localtimes) THEN Found(data.localtimes[idx(i) + 1])
                      ELSE Undefined
    IN  CASE beforeFirst(keys, t) ->
                 IF data.localtimes = <<>> THEN Undefined ELSE Found(data.localtimes[1])
          [] ~beforeFirst(keys, t) /\ transI = Len(keys) -> localOf(transI - 1)
          [] ~beforeFirst(keys, t) /\ transI < Len(keys) /\ t = keys[transI + 1] -> localOf(transI)
          [] OTHER -> IF transI = 0 THEN Failed ELSE localOf(transI - 1)

find == /\ valid /\ local = Nothing
        /\ \E t \in Seconds, compareGMT \in BOOLEAN :
              /\ sentry' = <<t, compareGMT>>
              /\ local' = findLocalTime(m_spDate, t, compareGMT)
        /\ UNCHANGED <<m_spDate, file>>

ZoneStep == openZone \/ fixedZone \/ find

ZoneSpec == ZoneInit /\ [][ZoneStep]_zoneVars
-----------------------------------------------------------------------------
\* The types.
ZoneTypeOK == /\ m_spDate.null \in BOOLEAN /\ file \in ZoneFiles \cup {NoFile}
              /\ sentry \in (Seconds \cup {0}) \X BOOLEAN
              /\ local.what \in {"nothing", "undefined", "assertion", "crash", "found"}

Key(i) == key(m_spDate.transitions[i], sentry[2])
Ascending == \A i, j \in 1..Len(m_spDate.transitions) : i < j => Key(i) < Key(j)
Past == {i \in 1..Len(m_spDate.transitions) : Key(i) <= sentry[1]}
InForce == IF Past = {} THEN m_spDate.localtimes[1]
           ELSE LET last == CHOOSE i \in Past : \A j \in Past : j <= i
                IN  m_spDate.localtimes[m_spDate.transitions[last].localtimeIdx + 1]

\* The local time found is that of the latest transition not after the time
\* looked up, and the first one before all transitions.  When the transitions
\* are not in order, because the file is cut off or local times overlap, the
\* search still ends inside the vector and its assertion holds.  It asks for a
\* local time that is not there only in a zone that has neither, because its
\* file could not be opened or was cut off before the counts.
FindsLocalTime ==
    /\ local.what = "found" /\ Ascending => local = Found(InForce)
    /\ local # Failed
    /\ local = Undefined => m_spDate.localtimes = <<>> /\ m_spDate.transitions = <<>>
=============================================================================
