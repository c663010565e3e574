----------------------------- MODULE LinePlaces -----------------------------
(***************************************************************************)
(* Log lines on their way: a sequence of places (files, buffers), each of  *)
(* them a sequence of lines, and a line a tuple that starts with its       *)
(* number.                                                                 *)
(***************************************************************************)
EXTENDS Naturals, Sequences

\* The lines that are in some place.
Held(places) == UNION {{places[p][i] : i \in DOMAIN places[p]} : p \in DOMAIN places}

\* The numbers ascend through every place and from place to place; in
\* particular no line is held twice.
InOrder(places) ==
    \A p, q \in DOMAIN places : \A i \in DOMAIN places[p], j \in DOMAIN places[q] :
        p < q \/ (p = q /\ i < j) => places[p][i][1] < places[q][j][1]
=============================================================================
