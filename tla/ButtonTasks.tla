----------------------------- MODULE ButtonTasks -----------------------------
(***************************************************************************)
(* The three tasks of the FreeRTOS button application                      *)
(* (src/rtos_apps/08button/user/user_main.c).                              *)
(*                                                                         *)
(* check_connection runs at priority 4, the two others at 3 and in turns:  *)
(* they only run while check_connection waits.  check_button and           *)
(* check_input both call send_command, which blocks at every call into     *)
(* the network and builds its request in one static buffer.                *)
(***************************************************************************)
EXTENDS Naturals

VARIABLES
  button, input, check,     \* where the three tasks are
  at,           \* where each sender is in send_command
  target,       \* the host each sender has looked up
  sockets,      \* senders whose socket is open
  data,         \* the static buffer: who built the request, for which host
  user_config,  \* in memory: the host, old, blank (being typed) or new
  flash,        \* the saved one: its host, and whether valid is written
  ledSemaphore, \* who has taken it
  wifi_status,  \* what check_connection last saw
  stray,        \* history: the semaphore was given by a task that had not taken it
  astray,       \* history: a request was sent that is not its sender's
  disturbed,    \* history: during whose send_command another task was in it or
                \* edited the configuration
  torn          \* history: the power failed while the saved configuration was erased

buttonVars == <<button, input, check, at, target, sockets, data, user_config, flash,
                ledSemaphore, wifi_status, stray, astray, disturbed, torn>>

Senders == {"button", "input"}
Addresses == {"old", "blank", "new", "torn"}
Steps == {"out", "socket", "lookup", "connect", "build", "write", "read"}

ButtonTypeOK ==
  /\ button \in {"sleep", "take", "send", "flash", "release"}
  /\ input \in {"menu", "send", "configure", "typing", "erase", "write", "valid", "restart"}
  /\ check \in {"sleep", "take", "led"}
  /\ at \in [Senders -> Steps] /\ target \in [Senders -> Addresses]
  /\ sockets \subseteq Senders
  /\ data \in [by : Senders \cup {"none"}, host : Addresses]
  /\ user_config \in Addresses
  /\ flash \in [host : Addresses \cup {"erased"}, valid : BOOLEAN]
  /\ ledSemaphore \in {"free", "button", "check"}
  /\ {wifi_status, stray, astray, torn} \subseteq BOOLEAN /\ disturbed \subseteq Senders

\* user_init: a saved configuration that is not valid counts as none.
LoadedConfig(f) == IF f.valid THEN f.host ELSE "blank"

ButtonInit ==
  /\ button = "sleep" /\ input = "menu" /\ check = "sleep"
  /\ at = [t \in Senders |-> "out"] /\ target = [t \in Senders |-> "blank"]
  /\ sockets = {} /\ data = [by |-> "none", host |-> "blank"]
  /\ flash \in {[host |-> "old", valid |-> TRUE], [host |-> "erased", valid |-> FALSE]}
  /\ user_config = LoadedConfig(flash)
  /\ ledSemaphore = "free" /\ wifi_status = FALSE
  /\ stray = FALSE /\ astray = FALSE /\ disturbed = {} /\ torn = FALSE

\* Mutant: all tasks have the same priority.
BugEqualPriorities == TRUE

\* A task of priority 3 runs only while check_connection waits.
CheckWaits == check = "sleep" \/ (check = "take" /\ ledSemaphore # "free")
----------------------------------------------------------------------------
\* check_connection: the status, then the semaphore, then the LED.
check_connection ==
  /\ \/ /\ check = "sleep" /\ check' = "take"
        /\ wifi_status' \in BOOLEAN /\ UNCHANGED ledSemaphore
     \/ /\ check = "take" /\ ledSemaphore = "free" /\ check' = "led"
        /\ ledSemaphore' = "check" /\ UNCHANGED wifi_status
     \/ /\ check = "led" /\ check' = "sleep"
        /\ ledSemaphore' = "free" /\ UNCHANGED wifi_status
  /\ UNCHANGED <<button, input, at, target, sockets, data, user_config, flash, stray, astray,
                 disturbed, torn>>

Other(t) == IF t = "button" THEN "input" ELSE "button"

\* A sender enters send_command; it may find the other one there.
Enter(t) ==
  /\ at' = [at EXCEPT ![t] = "socket"]
  /\ disturbed' = IF at[Other(t)] # "out" THEN Senders
                  ELSE IF t = "button" /\ input = "typing" THEN disturbed \cup {t}
                  ELSE disturbed \ {t}

Returns(t) ==
  /\ at[t] = "out" /\ UNCHANGED at
  /\ target' = [target EXCEPT ![t] = "blank"] /\ disturbed' = disturbed \ {t}

\* One blocking call of send_command after the other; a failure closes the
\* socket and returns.
Goes(t, from, to) == at[t] = from /\ at' = [at EXCEPT ![t] = to]

send_socket(t) ==
  /\ \/ Goes(t, "socket", "lookup") /\ sockets' = sockets \cup {t}
     \/ Goes(t, "socket", "out") /\ UNCHANGED sockets
  /\ UNCHANGED <<target, data, astray>>

send_lookup(t) ==
  /\ \/ /\ Goes(t, "lookup", "connect") /\ target' = [target EXCEPT ![t] = user_config]
        /\ UNCHANGED sockets
     \/ Goes(t, "lookup", "out") /\ sockets' = sockets \ {t} /\ UNCHANGED target
  /\ UNCHANGED <<data, astray>>

send_connect(t) ==
  /\ \/ Goes(t, "connect", "build") /\ UNCHANGED sockets
     \/ Goes(t, "connect", "out") /\ sockets' = sockets \ {t}
  /\ UNCHANGED <<target, data, astray>>

send_build(t) ==
  /\ Goes(t, "build", "write")
  /\ data' = [by |-> t, host |-> user_config]
  /\ UNCHANGED <<target, sockets, astray>>

\* What is written is what the buffer holds by now.
send_write(t) ==
  /\ \/ /\ Goes(t, "write", "read")
        /\ astray' = (astray \/ (t \notin disturbed /\ data # [by |-> t, host |-> target[t]]))
        /\ data' = [by |-> "none", host |-> "blank"] /\ UNCHANGED sockets
     \/ /\ Goes(t, "write", "out") /\ sockets' = sockets \ {t}
        /\ UNCHANGED <<data, astray>>
  /\ UNCHANGED target

send_read(t) ==
  /\ Goes(t, "read", "out") /\ sockets' = sockets \ {t}
  /\ data' = [by |-> "none", host |-> "blank"]
  /\ UNCHANGED <<target, astray>>

send_command(t) ==
  /\ CheckWaits
  /\ \/ send_socket(t) \/ send_lookup(t) \/ send_connect(t)
     \/ send_build(t) \/ send_write(t) \/ send_read(t)
  /\ UNCHANGED <<button, input, check, user_config, flash, ledSemaphore, wifi_status,
                 stray, disturbed, torn>>

\* check_button: a press, the semaphore (or 10 ticks without it), the command,
\* the LED, the semaphore back, the release.
check_button ==
  /\ CheckWaits
  /\ \/ /\ button = "sleep" /\ wifi_status /\ button' = "take"
        /\ UNCHANGED <<at, target, ledSemaphore, stray, disturbed>>
     \/ /\ button = "take" /\ button' = "send" /\ Enter("button")
        /\ ledSemaphore' = IF ledSemaphore = "free" THEN "button" ELSE ledSemaphore
        /\ UNCHANGED <<target, stray>>
     \/ /\ button = "send" /\ Returns("button") /\ button' = "flash"
        /\ UNCHANGED <<ledSemaphore, stray>>
     \/ /\ button = "flash" /\ button' = "release"
        /\ stray' = (stray \/ ledSemaphore # "button") /\ ledSemaphore' = "free"
        /\ UNCHANGED <<at, target, disturbed>>
     \/ /\ button = "release" /\ button' = "sleep"
        /\ UNCHANGED <<at, target, ledSemaphore, stray, disturbed>>
  /\ UNCHANGED <<input, check, sockets, data, user_config, flash, wifi_status, astray, torn>>

\* check_input: 't' sends the command, 'c' opens the menu of configure.
check_input ==
  /\ CheckWaits
  /\ \/ /\ input = "menu" /\ wifi_status /\ input' = "send" /\ Enter("input")
        /\ UNCHANGED target
     \/ /\ input = "send" /\ Returns("input") /\ input' = "menu"
     \/ /\ input = "menu" /\ input' = "configure" /\ UNCHANGED <<at, target, disturbed>>
  /\ UNCHANGED <<button, check, sockets, data, user_config, flash, ledSemaphore,
                 wifi_status, stray, astray, torn>>

\* configure: a field is cleared, then typed into the configuration in use; '0'
\* saves it, valid last, and restarts.
configure ==
  /\ CheckWaits
  /\ \/ /\ input = "configure" /\ input' = "typing" /\ user_config' = "blank"
        /\ disturbed' = disturbed \cup {t \in Senders : at[t] # "out"} /\ UNCHANGED flash
     \/ /\ input = "typing" /\ input' = "configure" /\ user_config' = "new"
        /\ UNCHANGED <<flash, disturbed>>
     \/ /\ input = "configure" /\ input' = "erase" /\ UNCHANGED <<user_config, flash, disturbed>>
     \/ /\ input = "erase" /\ input' = "write"
        /\ flash' = [host |-> "erased", valid |-> FALSE] /\ UNCHANGED <<user_config, disturbed>>
     \/ /\ input = "write" /\ input' = "valid"
        /\ flash' = [flash EXCEPT !.host = user_config] /\ UNCHANGED <<user_config, disturbed>>
     \/ /\ input = "valid" /\ input' = "restart"
        /\ flash' = [flash EXCEPT !.valid = TRUE] /\ UNCHANGED <<user_config, disturbed>>
  /\ UNCHANGED <<button, check, at, target, sockets, data, ledSemaphore, wifi_status,
                 stray, astray, torn>>

\* system_restart at the end of configure, or the power fails; if that cuts the
\* erase short, part of the old host is left, valid or not.
Reboot ==
  /\ \/ UNCHANGED <<flash, torn>>
     \/ /\ input = "erase" /\ torn' = TRUE
        /\ flash' \in [host : {"torn"}, valid : BOOLEAN]
  /\ button' = "sleep" /\ input' = "menu" /\ check' = "sleep"
  /\ at' = [t \in Senders |-> "out"] /\ target' = [t \in Senders |-> "blank"]
  /\ sockets' = {} /\ data' = [by |-> "none", host |-> "blank"]
  /\ user_config' = LoadedConfig(flash')
  /\ ledSemaphore' = "free" /\ wifi_status' = FALSE /\ disturbed' = {}
  /\ UNCHANGED <<stray, astray>>

ButtonNext ==
  \/ check_connection \/ check_button \/ check_input \/ configure \/ Reboot
  \/ \E t \in Senders : send_command(t)

ButtonSpec == ButtonInit /\ [][ButtonNext]_buttonVars
----------------------------------------------------------------------------
\* The LED has one user at a time, and the semaphore, taken with a time limit
\* whose result is ignored, is still given back only by who has it: a task of
\* lower priority never sees check_connection holding it.
LedExclusive ==
  /\ ~stray
  /\ check = "led" => button \notin {"send", "flash"}

\* Every way out of send_command closes its socket.
SocketsClosed == sockets \subseteq {t \in Senders : at[t] # "out"}

\* A request is its sender's, for the host it goes to, unless the other task
\* was in send_command or the menu during it.
RequestOwn == ~astray

\* A configuration that counts as valid is one that was saved whole, unless the
\* power has once failed in the middle of the erase.
SavedWhole == flash.valid /\ ~torn => flash.host \in {"old", "new", "blank"}

TasksKept == LedExclusive /\ SocketsClosed /\ RequestOwn /\ SavedWhole
============================================================================
