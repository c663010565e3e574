------------------------------ MODULE MCBuffer ------------------------------
(***************************************************************************)
(* Buffer with bytes of two bits, of which 1 and 2 are written and stand   *)
(* for CR and LF.  Nothing else looks at a byte, so a few strings of each  *)
(* length that are not symmetric are enough to notice a byte that is lost, *)
(* repeated or moved; the integers have one and two bytes and both signs.  *)
(***************************************************************************)
EXTENDS Buffer

MCByte == 0..3
MCData == {<<>>, <<1>>, <<2>>, <<1, 2>>, <<2, 1, 1>>}
MCInts == {[value |-> -2, size |-> 1], [value |-> 6, size |-> 2], [value |-> -7, size |-> 2]}
MCCounts == 0..3
=============================================================================
