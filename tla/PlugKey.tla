------------------------------ MODULE PlugKey ------------------------------
(***************************************************************************)
(* The push button of 07switch and the relay it switches                   *)
(* (src/apps/07switch/driver/key.c, user/user_plug.c).                     *)
(*                                                                         *)
(* The contact changes at any moment.  The GPIO latches an edge of the     *)
(* kind it is set to; the interrupt handler and the 50 ms callback first   *)
(* look and then set the kind of edge to wait for next, and the contact    *)
(* may change in between.  The handler interrupts callbacks.               *)
(***************************************************************************)

EXTENDS Naturals

CONSTANT PAD_ERASED     \* the content of an erased status byte, 0xff

VARIABLES
  pin,            \* the contact: 0 while the key is down
  edge,           \* the GPIO's interrupt type
  gpio_status,    \* an edge is latched, its interrupt pending
  key_level, key_5s, key_50ms,    \* of single_key_param: level, timers armed
  intr,           \* the handler is between disabling and reprogramming the edge
  task,           \* where the 50 ms callback is
  plug_status, relay, plug_saved, \* plug_param.status, the output, the flash
  missed,         \* history: the contact changed while the driver was looking away
  pushed          \* history: the contact was down since the last short press

keyVars == <<pin, edge, gpio_status, key_level, key_5s, key_50ms, intr, task,
             plug_status, relay, plug_saved, missed, pushed>>
driver == <<key_level, key_5s, key_50ms>>
switch == <<plug_status, relay, plug_saved>>

KeyTypeOK ==
  /\ pin \in {0, 1} /\ key_level \in {0, 1}
  /\ edge \in {"off", "neg", "pos"}
  /\ {gpio_status, key_5s, key_50ms, intr, missed, pushed} \subseteq BOOLEAN
  /\ task \in {"idle", "up", "down", "erase", "write"}
  /\ plug_status \in {0, 1} /\ relay \in {0, 1}
  /\ plug_saved \in {0, 1, PAD_ERASED}

\* user_plug_init: an erased byte switches the relay on.
Loaded(saved) == IF saved = PAD_ERASED THEN 1 ELSE saved

KeyInit ==
  /\ pin = 1 /\ edge = "neg" /\ gpio_status = FALSE
  /\ key_level = 1 /\ key_5s = FALSE /\ key_50ms = FALSE
  /\ intr = FALSE /\ task = "idle"
  /\ plug_saved \in {0, 1, PAD_ERASED}
  /\ plug_status = Loaded(plug_saved) /\ relay = Loaded(plug_saved)
  /\ missed = FALSE /\ pushed = FALSE

\* A restart of the program; with the contact down nothing is heard before it
\* has been released.
Boot ==
  /\ edge' = "neg" /\ gpio_status' = FALSE
  /\ key_level' = 1 /\ key_5s' = FALSE /\ key_50ms' = FALSE
  /\ intr' = FALSE /\ task' = "idle"
  /\ plug_status' = Loaded(plug_saved) /\ relay' = Loaded(plug_saved)
  /\ missed' = (pin = 0) /\ pushed' = (pin = 0)
  /\ UNCHANGED <<pin, plug_saved>>
----------------------------------------------------------------------------
\* The user's finger, or a bouncing contact.
Contact ==
  LET heard == edge = (IF pin = 1 THEN "neg" ELSE "pos")
      away == gpio_status \/ intr \/ task \in {"up", "down"}
  IN /\ pin' = 1 - pin
     /\ gpio_status' = (gpio_status \/ heard)
     /\ missed' = (away \/ (missed /\ ~heard))
     /\ pushed' = TRUE
     /\ UNCHANGED <<edge, driver, intr, task, switch>>

\* The handler's first half: no more edges, status cleared, timers.
key_intr_handler ==
  /\ gpio_status /\ ~intr
  /\ gpio_status' = FALSE /\ edge' = "off" /\ intr' = TRUE
  /\ IF key_level = 1
     THEN key_5s' = TRUE /\ key_level' = 0 /\ UNCHANGED key_50ms
     ELSE key_50ms' = TRUE /\ UNCHANGED <<key_5s, key_level>>
  /\ UNCHANGED <<pin, task, switch, missed, pushed>>

\* Its second half: after a press it waits for the release; after a release
\* the edge stays off until the 50 ms are over.
key_intr_handler_done ==
  /\ intr /\ intr' = FALSE
  /\ edge' = IF key_50ms THEN "off" ELSE "pos"
  /\ UNCHANGED <<pin, gpio_status, driver, task, switch, missed, pushed>>

\* Mutant: the 50 ms timer goes on after it has gone off.
BugRepeats ==
  /\ key_50ms /\ task = "idle" /\ ~intr
  /\ task' = IF pin = 1 THEN "up" ELSE "down"
  /\ missed' = FALSE
  /\ UNCHANGED <<pin, edge, gpio_status, key_level, key_5s, key_50ms, intr, switch, pushed>>

\* The 50 ms callback reads the contact ...
key_50ms_cb ==
  /\ key_50ms /\ task = "idle" /\ ~intr
  /\ key_50ms' = FALSE
  /\ task' = IF pin = 1 THEN "up" ELSE "down"
  /\ missed' = FALSE
  /\ UNCHANGED <<pin, edge, gpio_status, key_level, key_5s, intr, switch, pushed>>

\* Mutant: after a bounce no edge is awaited.
BugLeavesEdgeOff ==
  /\ task = "down" /\ task' = "idle"
  /\ UNCHANGED <<pin, edge, gpio_status, driver, intr, switch, missed, pushed>>

\* ... and finds the key still down: it was a bounce.
key_50ms_cb_down ==
  /\ task = "down" /\ task' = "idle"
  /\ edge' = "pos"
  /\ UNCHANGED <<pin, gpio_status, driver, intr, switch, missed, pushed>>

\* ... or up: user_plug_short_press, up to its flash operations.
key_50ms_cb_up ==
  /\ task = "up" /\ task' = "erase"
  /\ key_5s' = FALSE /\ key_level' = 1 /\ edge' = "neg"
  /\ plug_status' = 1 - plug_status /\ relay' = 1 - plug_status
  /\ pushed' = FALSE
  /\ UNCHANGED <<pin, gpio_status, key_50ms, intr, plug_saved, missed>>

\* The new state of the relay is saved: erase, then write.
user_plug_short_press ==
  /\ ~intr
  /\ \/ task = "erase" /\ task' = "write" /\ plug_saved' = PAD_ERASED
     \/ task = "write" /\ task' = "idle" /\ plug_saved' = plug_status
  /\ UNCHANGED <<pin, edge, gpio_status, driver, intr, plug_status, relay,
                 missed, pushed>>

\* Five seconds after a press: user_plug_long_press restarts the device (its
\* factory reset is in EspParam), unless the contact is up.
key_5s_cb ==
  /\ key_5s /\ task = "idle" /\ ~intr
  /\ \/ pin = 0 /\ Boot
     \/ /\ pin = 1 /\ key_5s' = FALSE
        /\ UNCHANGED <<pin, edge, gpio_status, key_level, key_50ms, intr, task,
                       switch, missed, pushed>>

\* The server, the web pages and the timed actions switch the relay too; that
\* is not saved.
user_plug_set_status(status) ==
  /\ task = "idle" /\ ~intr
  /\ status # plug_status
  /\ plug_status' = status /\ relay' = status
  /\ UNCHANGED <<pin, edge, gpio_status, driver, intr, task, plug_saved,
                 missed, pushed>>

PowerCut == Boot

KeyNext ==
  \/ Contact \/ PowerCut
  \/ key_intr_handler \/ key_intr_handler_done
  \/ key_50ms_cb \/ key_50ms_cb_down \/ key_50ms_cb_up
  \/ user_plug_short_press \/ key_5s_cb
  \/ \E status \in {0, 1} : user_plug_set_status(status)

KeySpec == KeyInit /\ [][KeyNext]_keyVars
----------------------------------------------------------------------------
\* The driver is never deaf: either an edge is awaited, or something under
\* way will have it awaited again.
NeverDeaf == edge # "off" \/ key_50ms \/ intr \/ task \in {"up", "down"}

\* At rest the driver's level is the contact's, unless the contact changed
\* while the driver was about to reprogram the edge.
LevelFollowsContact ==
  ~gpio_status /\ ~intr /\ ~key_50ms /\ task = "idle" /\ ~missed => key_level = pin

KeyHeard == NeverDeaf /\ LevelFollowsContact

\* Between two short presses that are acted on the contact has moved: one
\* movement is not counted twice.  A bounce is a movement too.
PressNeedsContact ==
  [][task # "erase" /\ task' = "erase" => pushed]_keyVars
============================================================================
