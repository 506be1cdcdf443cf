--------------------------- MODULE MCEspconnTcp ---------------------------
(***************************************************************************)
(* EspconnTcp with interchangeable heap blocks.                            *)
(***************************************************************************)
EXTENDS EspconnTcp, TLC

Symmetry == Permutations(Pcb) \cup Permutations(Msg)
=============================================================================
