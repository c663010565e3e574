----------------------------- MODULE MCLogging -----------------------------
(***************************************************************************)
(* Logging with the numbers of an 8-bit machine: the longest, "-128" and   *)
(* "0xFF", fill kMaxNumericSize exactly with their NUL, as the room of 32  *)
(* bytes has to hold the longest number of 64 bits.                        *)
(***************************************************************************)
EXTENDS Logging

MCParts == {Integer(n) : n \in {-128, -10, 0, 9, 127, 255}}
           \cup {Pointer(p) : p \in {0, 16, 255}}
           \cup {Text(<<>>), Text(<<"a">>), Text(<<"a", "b", "c">>), Double(<<"1", ".", "5">>)}
=============================================================================
