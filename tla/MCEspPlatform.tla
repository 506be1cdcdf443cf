--------------------------- MODULE MCEspPlatform --------------------------
(***************************************************************************)
(* EspPlatform for TLC: the constants are given in the configurations.     *)
(***************************************************************************)
EXTENDS EspPlatform
=============================================================================
