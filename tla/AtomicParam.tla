---------------------------- MODULE AtomicParam ----------------------------
(***************************************************************************)
(* What the two-sector parameter area of user_esp_platform.c promises: one *)
(* stored value, replaced as a whole, whatever the moment power is lost.   *)
(* EspParam implements this specification.                                 *)
(***************************************************************************)
CONSTANTS Value,      \* the parameter blocks that can be saved
          Factory     \* the block programmed at the factory

VARIABLES phase,      \* "off", "idle" or "busy" (a save is under way)
          ram,        \* the working copy
          stored      \* what a reboot would load

vars == <<phase, ram, stored>>

Init == phase = "off" /\ ram \in Value /\ stored = Factory

Boot == phase = "off" /\ phase' = "idle" /\ ram' = stored /\ UNCHANGED stored

Update(v) == phase = "idle" /\ phase' = "busy" /\ ram' = v /\ UNCHANGED stored

Commit == phase = "busy" /\ stored' = ram /\ UNCHANGED <<phase, ram>>

Done == phase = "busy" /\ phase' = "idle" /\ stored' = ram /\ UNCHANGED ram

(* Losing power during a save leaves either the old or the new block.      *)
PowerOff ==
    /\ phase # "off"
    /\ phase' = "off"
    /\ stored' \in IF phase = "busy" THEN {stored, ram} ELSE {stored}
    /\ UNCHANGED ram

Next == Boot \/ (\E v \in Value : Update(v)) \/ Commit \/ Done \/ PowerOff

Spec == Init /\ [][Next]_vars
=============================================================================
