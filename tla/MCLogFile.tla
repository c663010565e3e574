----------------------------- MODULE MCLogFile -----------------------------
(***************************************************************************)
(* LogFile with values in the past and in the future for the members that  *)
(* the constructor leaves uninitialised (a configuration file has no       *)
(* negative numbers).                                                      *)
(***************************************************************************)
EXTENDS LogFile

MCUninit == {-1, 2}
=============================================================================
