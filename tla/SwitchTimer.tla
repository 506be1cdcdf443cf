----------------------------- MODULE SwitchTimer -----------------------------
(***************************************************************************)
(* The timed actions of 07switch                                           *)
(* (src/apps/07switch/user/user_esp_platform_timer.c).                     *)
(*                                                                         *)
(* The server sends the time and a list of timers; the device works out    *)
(* the shortest wait, waits for it in pieces of at most an hour because    *)
(* the SDK's timer has a limited range, acts, and begins again.  It keeps  *)
(* time by adding up its own waits.                                        *)
(*                                                                         *)
(* Time passes in units; a callback takes none.                            *)
(***************************************************************************)
EXTENDS Integers, Sequences

CONSTANTS
  Hour,         \* 3600 s: the longest single wait
  Week,         \* 7 * 24 * 3600 s
  Monday,       \* 1388937600, the first Monday of 2014: weeks are counted from it
  MaxTime,      \* bound: the time up to which the model looks
  TimerLists    \* the lists the server may send

\* A period is not 0 and a time of the week lies in the week: the server sees to
\* it, the device does not look.  Of an entry of unknown mode nothing is copied, so
\* that its action is unknown, too; "0" stands for every action that begins so.
Timers ==
  {timer \in [mode : {"f", "l", "w", "unknown"}, param : Nat,
              action : {"on_switch", "off_switch", "on_off_switch", "0", "unknown"}] :
     /\ timer.mode = "l" => timer.param > 0
     /\ timer.mode = "w" => timer.param <= Week
     /\ timer.mode = "unknown" => timer.action = "unknown"}

ASSUME TimerAssumption ==
  /\ Hour \in Nat \ {0} /\ Week \in Nat \ {0} /\ Monday \in Nat /\ MaxTime \in Nat
  /\ \A l \in TimerLists : l \in Seq(Timers) /\ l # <<>>

VARIABLES
  now,              \* the real time
  timestamp, min_wait_second, timer_splits,     \* globals
  pwait_action,     \* the stack frame of esp_platform_timer_action, long dead
  frame_reused,     \* that frame has been written over
  device_timer,     \* its callback, and when it is due
  timer_status,     \* what user_plug_get_status returns
  halted,           \* a null pointer was followed
  served,           \* history: when an action list was last executed or loaded
  in_force          \* history: the list pwait_action was computed from

timerVars == <<now, timestamp, min_wait_second, timer_splits, pwait_action,
               frame_reused, device_timer, timer_status, halted, served, in_force>>

Never == 16 * MaxTime + Week          \* 0xFFFFFFF: longer than anything modelled
Disarmed == [fn |-> "none", at |-> 0]
NoWait == [action |-> <<>>, count |-> 0, min_time_backup |-> 0]

TimerTypeOK ==
  /\ now \in 0..MaxTime /\ timestamp \in Nat /\ min_wait_second \in Nat
  /\ timer_splits \in TimerLists \cup {<<>>} /\ in_force \in TimerLists \cup {<<>>}
  /\ pwait_action.count \in Nat /\ pwait_action.min_time_backup \in Int
  /\ device_timer.fn \in {"none", "action", "check"} /\ device_timer.at \in Nat
  /\ timer_status \in {0, 1} /\ {halted, frame_reused} \subseteq BOOLEAN

TimerInit ==
  /\ now = 0 /\ timestamp = 0 /\ min_wait_second = 0 /\ timer_splits = <<>>
  /\ pwait_action = NoWait /\ frame_reused = FALSE /\ device_timer = Disarmed
  /\ timer_status = 0 /\ halted = FALSE /\ served = 0 /\ in_force = <<>>
----------------------------------------------------------------------------
\* The remainder of C, which has the sign of a: negative before the first Monday.
Remainder(a) == IF a >= 0 THEN a % Week ELSE -((-a) % Week)

\* Mutant: a weekly timer that is due waits for nothing, not for a week.
BugWeeklyAtOnce(timer, t) ==
  LET monday_wait_time == Remainder(t - Monday)
  IN CASE timer.mode = "f" -> timer.param - t
       [] timer.mode = "l" -> timer.param - (t % timer.param)
       [] timer.mode = "w" -> IF timer.param >= monday_wait_time
                              THEN timer.param - monday_wait_time
                              ELSE Week - monday_wait_time + timer.param
       [] timer.mode = "unknown" -> 0

\* The wait of one timer, counted from time t: fixed, repeated, or weekly; that
\* of an entry of unknown mode stays 0.
WaitSecond(timer, t) ==
  LET monday_wait_time == Remainder(t - Monday)
  IN CASE timer.mode = "f" -> timer.param - t
       [] timer.mode = "l" -> timer.param - (t % timer.param)
       [] timer.mode = "w" -> IF timer.param > monday_wait_time
                              THEN timer.param - monday_wait_time
                              ELSE Week - monday_wait_time + timer.param
       [] timer.mode = "unknown" -> 0

\* esp_platform_find_min_time: the shortest wait that is not over.
FindMinTime(list, t) ==
  LET waits == ({Never} \cup {WaitSecond(list[i], t) : i \in DOMAIN list}) \cap Nat
  IN CHOOSE w \in waits : \A v \in waits : w <= v

\* user_esp_platform_wait_time_overflow_check: an hour, or what is left.
Armed(left) ==
  IF left >= Hour THEN [fn |-> "check", at |-> now + Hour]
                  ELSE [fn |-> "action", at |-> now + left]

\* user_platform_timer_first_start with esp_platform_timer_action, at time t.  The
\* actions keep their places in the list.
FirstStart(list, count, t) ==
  LET min == FindMinTime(list, t)
      due == {i \in DOMAIN list : WaitSecond(list[i], t) = min}
  IN /\ timestamp' = t /\ min_wait_second' = min
     /\ pwait_action' = [action |-> [i \in due |-> list[i].action],
                         count |-> count, min_time_backup |-> min - Hour]
     /\ device_timer' = Armed(min)
     /\ frame_reused' = FALSE /\ in_force' = list

\* A list from the server, with its time.  An empty list leaves device_timer
\* and the wait in hand as they are.
user_platform_timer_start(list) ==
  /\ ~halted
  /\ timer_splits' = list
  /\ IF list = <<>>
     THEN /\ min_wait_second' = 0 /\ timestamp' = now
          /\ UNCHANGED <<pwait_action, frame_reused, device_timer, in_force, served>>
     ELSE FirstStart(list, Len(list), now) /\ served' = now
  /\ UNCHANGED <<now, timer_status, halted>>

Fires(fn) == ~halted /\ device_timer = [fn |-> fn, at |-> now] /\ ~frame_reused

\* Mutant: the hour that is over is not taken off what is left.
BugForgetsHour ==
  /\ Fires("check")
  /\ device_timer' = Armed(pwait_action.min_time_backup)
  /\ UNCHANGED <<now, timestamp, min_wait_second, timer_splits, pwait_action, frame_reused,
                 timer_status, halted, served, in_force>>

\* An hour of a longer wait is over.
user_esp_platform_wait_time_overflow_check ==
  /\ Fires("check")
  /\ device_timer' = Armed(pwait_action.min_time_backup)
  /\ pwait_action' = [pwait_action EXCEPT !.min_time_backup = @ - Hour]
  /\ UNCHANGED <<now, timestamp, min_wait_second, timer_splits, frame_reused,
                 timer_status, halted, served, in_force>>

\* The relay after the actions, done in the order of the list of n timers, up to
\* the first that is unknown or begins with '0'.
Switched(status, actions, n) ==
  LET done == {i \in DOMAIN actions :
                 \A j \in DOMAIN actions : j <= i => actions[j] \notin {"0", "unknown"}}
      relay[i \in 0..n] ==
        IF i = 0 THEN status
        ELSE IF i \notin done THEN relay[i - 1]
        ELSE CASE actions[i] = "on_switch" -> 1
               [] actions[i] = "off_switch" -> 0
               [] actions[i] = "on_off_switch" -> 1 - relay[i - 1]
  IN relay[n]

\* Does the loop over the actions come to an unknown one?
ComesToUnknown(actions) ==
  \E i \in DOMAIN actions :
    actions[i] = "unknown" /\ \A j \in DOMAIN actions : j < i => actions[j] # "0"

\* The wait is over.  An unknown action ends the timers; otherwise the next
\* wait is computed over as many splits as there were, which are null once an
\* empty list has come.
user_esp_platform_device_action ==
  /\ Fires("action")
  /\ timer_status' = Switched(timer_status, pwait_action.action, pwait_action.count)
  /\ served' = now
  /\ IF ComesToUnknown(pwait_action.action)
     THEN /\ device_timer' = Disarmed
          /\ UNCHANGED <<timestamp, min_wait_second, pwait_action, frame_reused,
                         in_force, halted>>
     ELSE IF pwait_action.count > Len(timer_splits)
     THEN /\ halted' = TRUE
          /\ UNCHANGED <<timestamp, min_wait_second, pwait_action, frame_reused,
                         in_force, device_timer>>
     ELSE /\ FirstStart(timer_splits, pwait_action.count, timestamp + min_wait_second)
          /\ UNCHANGED halted
  /\ UNCHANGED <<now, timer_splits>>

\* pwait_action is a local variable of a function that has returned: any other
\* call may write over it while the timer waits ...
FrameReused ==
  /\ ~halted /\ device_timer # Disarmed /\ ~frame_reused
  /\ frame_reused' = TRUE /\ pwait_action' = NoWait
  /\ UNCHANGED <<now, timestamp, min_wait_second, timer_splits, device_timer,
                 timer_status, halted, served, in_force>>

\* ... and the callback then works on what is there: it stops the timers, waits
\* again, or reads splits that do not exist.
GarbageFires ==
  /\ ~halted /\ frame_reused /\ device_timer # Disarmed /\ device_timer.at = now
  /\ \/ device_timer' = Disarmed /\ UNCHANGED halted
     \/ device_timer' = [fn |-> "check", at |-> now + Hour] /\ UNCHANGED halted
     \/ halted' = TRUE /\ UNCHANGED device_timer
  /\ UNCHANGED <<now, timestamp, min_wait_second, timer_splits, pwait_action,
                 frame_reused, timer_status, served, in_force>>

Tick ==
  /\ ~halted /\ now < MaxTime
  /\ device_timer # Disarmed => device_timer.at > now
  /\ now' = now + 1
  /\ UNCHANGED <<timestamp, min_wait_second, timer_splits, pwait_action, frame_reused,
                 device_timer, timer_status, halted, served, in_force>>

TimerNext ==
  \/ \E list \in TimerLists \cup {<<>>} : user_platform_timer_start(list)
  \/ user_esp_platform_wait_time_overflow_check \/ user_esp_platform_device_action
  \/ FrameReused \/ GarbageFires \/ Tick

TimerSpec == TimerInit /\ [][TimerNext]_timerVars
----------------------------------------------------------------------------
Due(timer, t) ==
  CASE timer.mode = "f" -> timer.param = t
    [] timer.mode = "l" -> t % timer.param = 0
    [] timer.mode = "w" -> (t - Monday) % Week = timer.param % Week
    [] timer.mode = "unknown" -> FALSE

\* A weekly timer counted from before the first Monday may be a week late.
Reckoned == served < Monday => \A i \in DOMAIN in_force : in_force[i].mode # "w"

Stopped == halted \/ device_timer = Disarmed

\* As long as the dead frame survives, the pieces of a wait and the device's own
\* count of time keep step with the real time: when a timer of the list is due,
\* its callback is due, or has just acted.
NothingSkipped ==
  ~Stopped /\ ~frame_reused /\ Reckoned =>
    \A i \in 1..Len(in_force) :
      Due(in_force[i], now) => \/ served = now
                               \/ device_timer.at = now

\* What is about to be done is what the list says for this moment, no more and
\* no less (but for a repetition, see RepeatsOnlyFixed).
OnlyWhatIsDue ==
  Fires("action") /\ served # now /\ Reckoned =>
    pwait_action.action =
      [i \in {j \in DOMAIN in_force : Due(in_force[j], now)} |-> in_force[i].action]

\* The program follows a null pointer only if the server emptied the list of a
\* running wait, or the frame was lost.
HaltsOnlyIfCleared == halted => timer_splits = <<>> \/ frame_reused

TimersKept == NothingSkipped /\ OnlyWhatIsDue /\ HaltsOnlyIfCleared

\* Actions are repeated at the same moment only by a timer of fixed time, whose
\* wait of 0 is found again and again; an entry of unknown mode, whose wait is 0,
\* too, makes the timers act at once.
RepeatsOnlyFixed ==
  [][Fires("action") /\ user_esp_platform_device_action /\ served = now
       => \E i \in 1..Len(in_force) :
            \/ in_force[i].mode = "f" /\ in_force[i].param = now
            \/ in_force[i].mode = "unknown"]_timerVars
============================================================================
