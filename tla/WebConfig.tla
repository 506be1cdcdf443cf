------------------------------ MODULE WebConfig ------------------------------
(***************************************************************************)
(* The configuration requests of 07switch's web server and the timer that  *)
(* carries them out 10 ms later (webserver_recv and restart_10ms_cb in     *)
(* src/apps/07switch/user/user_webserver.c).                               *)
(*                                                                         *)
(* One pair of configurations, one parameter block and one timer serve all *)
(* connections.  Requests are whole here; see WebRequest.                  *)
(***************************************************************************)
EXTENDS Naturals, FiniteSets

CONSTANTS
  Browsers,     \* connections, which are also the blocks of memory they live in
  MaxPosts      \* bound: wifi configurations posted

ASSUME ConfigAssumption == MaxPosts \in Nat

Posts == 1..MaxPosts

VARIABLES
  sta_conf, ap_conf,    \* null, or the posts whose bytes are in the ssid
  rstparm,              \* null, or the connection and what is to be done
  restart_10ms,         \* the timer: null, idle or armed
  connected,            \* the browsers whose connection is open
  posted,               \* number of posts so far
  waiting,              \* history: posts that are to be applied
  stranded,             \* history: posts a reboot was asked for on top of
  met,                  \* history: posts that came while others were neither
                        \* applied nor dropped
  cleared,              \* history: a GET dropped posts that were waiting
  applied,              \* the posts in what was last put into force
  config_halted         \* a null pointer was followed

configVars == <<sta_conf, ap_conf, rstparm, restart_10ms, connected, posted, waiting,
                stranded, met, cleared, applied, config_halted>>

Null == [null |-> TRUE, ssid |-> {}]
Conf(ps) == [null |-> FALSE, ssid |-> ps]
NoParm == [conn |-> "null", parmtype |-> "null"]

ConfigTypeOK ==
  /\ {sta_conf, ap_conf} \subseteq [null : BOOLEAN, ssid : SUBSET Posts]
  /\ \/ rstparm = NoParm
     \/ rstparm.conn \in Browsers /\ rstparm.parmtype \in {"WIFI", "REBOOT"}
  /\ restart_10ms \in {"null", "idle", "armed"}
  /\ connected \subseteq Browsers /\ posted \in 0..MaxPosts
  /\ waiting \cup stranded \cup met \cup applied \subseteq Posts
  /\ {cleared, config_halted} \subseteq BOOLEAN

ConfigInit ==
  /\ sta_conf = Null /\ ap_conf = Null /\ rstparm = NoParm /\ restart_10ms = "null"
  /\ connected = {} /\ posted = 0 /\ waiting = {} /\ stranded = {} /\ met = {}
  /\ cleared = FALSE /\ applied = {} /\ config_halted = FALSE
----------------------------------------------------------------------------
\* A connection begins, or ends and its espconn is freed: rstparm keeps the
\* address, where the next connection may come to live.
Connection(c) ==
  /\ connected' = IF c \in connected THEN connected \ {c} ELSE connected \cup {c}
  /\ UNCHANGED <<sta_conf, ap_conf, rstparm, restart_10ms, posted, waiting, stranded,
                 met, cleared, applied, config_halted>>

\* GET of the wifi configuration: the two configurations are allocated for the
\* answer and freed, whatever they were before.
get_wifi(c) ==
  /\ c \in connected
  /\ sta_conf' = Null /\ ap_conf' = Null
  /\ cleared' = (cleared \/ waiting # {}) /\ waiting' = {} /\ stranded' = {}
  /\ UNCHANGED <<rstparm, restart_10ms, connected, posted, met, applied, config_halted>>

\* POST of reboot: takes over the parameter block and starts the timer again.
post_reboot(c) ==
  /\ c \in connected
  /\ rstparm' = [conn |-> c, parmtype |-> "REBOOT"] /\ restart_10ms' = "armed"
  /\ stranded' = stranded \cup waiting /\ waiting' = {}
  /\ UNCHANGED <<sta_conf, ap_conf, connected, posted, met, cleared, applied,
                 config_halted>>

\* A posted ssid is copied over the one that is there, whose end stays behind a
\* shorter one.
Merged(conf, p, given) ==
  IF given THEN {Conf({p}), Conf(conf.ssid \cup {p})} ELSE {Conf(conf.ssid)}

\* POST of a wifi configuration, with the ssid of the station, of the access
\* point, of both or of none.  If there is none by now everything is freed; the
\* timer has been disarmed by then.
post_wifi(c, sta, ap) ==
  LET p == posted + 1
  IN /\ c \in connected /\ posted < MaxPosts /\ posted' = p
     /\ \E s \in Merged(sta_conf, p, sta), a \in Merged(ap_conf, p, ap) :
          IF s.ssid \cup a.ssid = {}
          THEN /\ sta_conf' = Null /\ ap_conf' = Null /\ rstparm' = NoParm
               /\ restart_10ms' = IF restart_10ms = "null" THEN "null" ELSE "idle"
          ELSE /\ sta_conf' = s /\ ap_conf' = a
               /\ rstparm' = [conn |-> c, parmtype |-> "WIFI"] /\ restart_10ms' = "armed"
     /\ waiting' = (waiting \cup stranded \cup (IF sta \/ ap THEN {p} ELSE {}))
                      \cap (sta_conf'.ssid \cup ap_conf'.ssid)
     /\ met' = IF waiting \cup stranded # {} THEN met \cup {p} ELSE met
     /\ stranded' = {}
     /\ UNCHANGED <<connected, cleared, applied, config_halted>>

\* Mutant: the station's configuration is freed but its pointer kept.
BugKeepsStation ==
  /\ rstparm.parmtype = "WIFI"
  /\ IF sta_conf = Null \/ ap_conf = Null
     THEN /\ config_halted' = TRUE
          /\ UNCHANGED <<sta_conf, ap_conf, rstparm, restart_10ms, waiting, stranded, applied>>
     ELSE /\ applied' = sta_conf.ssid \cup ap_conf.ssid
          /\ ap_conf' = Null /\ rstparm' = NoParm
          /\ restart_10ms' = "null" /\ waiting' = {} /\ stranded' = {}
          /\ UNCHANGED <<sta_conf, config_halted>>

\* The 10 ms are over.  WIFI: both configurations are looked at, the ones with
\* an ssid applied, and everything is freed.
restart_wifi ==
  /\ rstparm.parmtype = "WIFI"
  /\ IF sta_conf = Null \/ ap_conf = Null
     THEN /\ config_halted' = TRUE
          /\ UNCHANGED <<sta_conf, ap_conf, rstparm, restart_10ms, waiting, stranded, applied>>
     ELSE /\ applied' = sta_conf.ssid \cup ap_conf.ssid
          /\ sta_conf' = Null /\ ap_conf' = Null /\ rstparm' = NoParm
          /\ restart_10ms' = "null" /\ waiting' = {} /\ stranded' = {}
          /\ UNCHANGED config_halted

\* REBOOT: waits for the end of the connection, looking into its espconn, which
\* is freed then: what is read there afterwards may say anything.
restart_reboot ==
  /\ rstparm.parmtype = "REBOOT"
  /\ \/ restart_10ms' = "armed"
     \/ rstparm.conn \notin connected /\ restart_10ms' = "idle"
  /\ UNCHANGED <<sta_conf, ap_conf, rstparm, waiting, stranded, applied, config_halted>>

restart_10ms_cb ==
  /\ restart_10ms = "armed"
  /\ restart_wifi \/ restart_reboot
  /\ UNCHANGED <<connected, posted, met, cleared>>

\* An applied access point restarts the device; the power may fail too.
SystemRestart ==
  /\ sta_conf' = Null /\ ap_conf' = Null /\ rstparm' = NoParm /\ restart_10ms' = "null"
  /\ connected' = {} /\ waiting' = {} /\ stranded' = {}
  /\ UNCHANGED <<posted, met, cleared, applied, config_halted>>

ConfigNext ==
  /\ ~config_halted
  /\ \/ \E c \in Browsers :
          \/ Connection(c) \/ get_wifi(c) \/ post_reboot(c)
          \/ \E sta, ap \in BOOLEAN : post_wifi(c, sta, ap)
     \/ restart_10ms_cb \/ SystemRestart

ConfigSpec == ConfigInit /\ [][ConfigNext]_configVars
----------------------------------------------------------------------------
\* A posted configuration that is neither dropped by a GET nor taken over by a
\* reboot is still there in whole or part, with the timer that will apply it.
AllAwaited ==
  waiting # {} => /\ restart_10ms = "armed" /\ rstparm.parmtype = "WIFI"
                  /\ waiting \subseteq sta_conf.ssid \cup ap_conf.ssid

\* A null pointer is followed only if a GET came between a POST and its 10 ms.
HaltsOnlyAfterGet == config_halted => cleared

\* What is put into force is what one request asked for, unless the request met
\* another one that was neither applied nor dropped.
NoneMixed == Cardinality(applied) <= 1 \/ applied \cap met # {}

ConfigKept == AllAwaited /\ HaltsOnlyAfterGet /\ NoneMixed
============================================================================
