---------------------------- MODULE MCUtilities ----------------------------
(***************************************************************************)
(* Date, TimeZone and ReadSmallFile, the sequential utilities of base/.    *)
(* They share nothing, so each behaviour exercises one of them and the     *)
(* state graph is the sum of theirs and not the product.                   *)
(***************************************************************************)
EXTENDS Date, TimeZone, ReadSmallFile

VARIABLE part   \* the utility of this behaviour

Ascends(s) == \A i, j \in DOMAIN s : i < j => s[i] < s[j]

\* All zones with up to three transitions and one or two local times, and each
\* of them cut off at every number; a file of another kind and no file at all.
MCOffsets == {-2, 0, 1}
Zones == UNION {{<<times, types>> \o trans \o idx \o offsets :
                    trans \in {s \in [1..times -> 1..4] : Ascends(s)},
                    idx \in [1..times -> 0..(types - 1)],
                    offsets \in [1..types -> MCOffsets]} : times \in 0..3, types \in 1..2}
MCZoneFiles == {NoFile, [opens |-> TRUE, head |-> "none", numbers |-> <<>>]}
               \cup UNION {{[opens |-> TRUE, head |-> "TZif", numbers |-> SubSeq(z, 1, n)] :
                               n \in 0..Len(z)} : z \in Zones}

UtilitiesInit == /\ part \in {"date", "zone", "file"}
                 /\ DateInit /\ ZoneInit /\ FileInit
                 /\ part # "file" => kind = "missing" /\ size = 0

UtilitiesNext ==
    /\ \/ part = "date" /\ nextDay /\ UNCHANGED <<zoneVars, readVars>>
       \/ part = "zone" /\ ZoneStep /\ UNCHANGED <<dateVars, readVars>>
       \/ part = "file" /\ FileNext /\ UNCHANGED <<dateVars, zoneVars>>
    /\ UNCHANGED part

UtilitiesSpec == /\ UtilitiesInit /\ [][UtilitiesNext]_<<part, dateVars, zoneVars, readVars>>
                 /\ FileFairness
=============================================================================
