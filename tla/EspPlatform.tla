---------------------------- MODULE EspPlatform ---------------------------
(***************************************************************************)
(* The cloud client of the plug (apps/07switch/user/user_esp_platform.c).  *)
(* One timer, client_timer, serves every purpose: setting it for one       *)
(* cancels the other.  Its events are timers, answers of the DNS client,   *)
(* callbacks of the connections of user_conn and the web server's          *)
(* configuration, one at a time and in any order.                          *)
(***************************************************************************)
EXTENDS Naturals, SequencesExt

CONSTANTS Width,         \* values of device_recon_count, a uint8 (2^8)
          MaxQueries,    \* entries of the DNS table
          MaxConns,      \* bound on the connections of user_conn
          ConnectFails,  \* may espconn_connect return an error?
          Interventions  \* is the device configured and restarted meanwhile?

ASSUME PlatformAssumption ==
    /\ Width \in Nat /\ Width > 5
    /\ MaxQueries \in Nat \ {0} /\ MaxConns \in Nat \ {0}
    /\ ConnectFails \in BOOLEAN /\ Interventions \in BOOLEAN

VARIABLES client_timer, beacon_timer,
          device_recon_count, device_status, ping_status,
          server_ip,     \* is esp_server_ip set?
          queries,       \* DNS queries under way
          conns,         \* the listed connections of user_conn, oldest first
          dying,         \* connections whose error is reported in 10 ms
          state,         \* user_conn.state
          wifi, opmode,
          active,        \* esp_param.activeflag = 1
          refused        \* ghost: espconn_connect has returned an error

vars == <<client_timer, beacon_timer, device_recon_count, device_status,
          ping_status, server_ip, queries, conns, dying, state, wifi, opmode,
          active, refused>>

(* The variables no callback of the client itself changes.                 *)
net == <<queries, conns, dying, wifi, refused>>

-----------------------------------------------------------------------------
(* user_esp_platform_reconnect does what check_ip(0) does, and shares its  *)
(* name here.                                                              *)
Purpose == {"none", "check_ip", "check_ip_reset", "dns_check", "timer_get",
            "ap_change", "reboot"}

(* "stuck": tcp_connect failed, and the connection is on the list anyway.  *)
Phase == {"connecting", "open", "closing", "stuck"}

Count(n) == IF n + 1 = Width THEN 0 ELSE n + 1

(* What espconn_sent leaves in the state: nothing listed; a connection     *)
(* that takes no data any more; or data taken, or no memory for it.        *)
Sent(list) ==
    IF list = <<>> THEN {"WRITE"}
    ELSE IF list[1] \in {"closing", "stuck"} THEN {"CLOSE"}
    ELSE {"WRITE", "CLOSE"}

(* espconn_disconnect finds the oldest connection.                         *)
user_esp_platform_discon ==
    conns' = IF conns = <<>> THEN conns ELSE [conns EXCEPT ![1] = "closing"]

(* user_esp_platform_init: the mode and the flag are in flash.             *)
Init ==
    /\ client_timer = "check_ip_reset"
    /\ beacon_timer = FALSE
    /\ device_recon_count = 0
    /\ device_status = "none"
    /\ ping_status = FALSE
    /\ server_ip = FALSE
    /\ queries = 0
    /\ conns = <<>>
    /\ dying = 0
    /\ state = "NONE"
    /\ wifi = "connecting"
    /\ active \in BOOLEAN
    /\ opmode \in IF active THEN {"STATION", "STATIONAP"} ELSE {"STATIONAP"}
    /\ refused = FALSE

-----------------------------------------------------------------------------
(* user_esp_platform_reset_mode, and the choice of its callers             *)
BugResetKeepsStation ==
    /\ client_timer' = "ap_change"
    /\ UNCHANGED opmode

user_esp_platform_reset_mode ==
    /\ client_timer' = "ap_change"
    /\ opmode' = "STATIONAP"

(* user_esp_platform_check_ip.  Without an address yet, it tries again in  *)
(* 100 ms, but with reset_flag 0.                                          *)
BugCheckIpNoRetry(reset_flag) ==
    \/ /\ wifi = "got_ip"
       /\ client_timer' = "dns_check"
       /\ beacon_timer' = FALSE
       /\ device_recon_count' = IF reset_flag THEN 0 ELSE device_recon_count
       /\ device_status' = "CONNECTING"
       /\ server_ip' = FALSE
       /\ queries' \in {queries} \cup {q \in 1 .. MaxQueries : q = queries + 1}
       /\ state' = "NONE"
       /\ UNCHANGED opmode
    \/ /\ wifi # "got_ip"
       /\ client_timer' = "none"
       /\ UNCHANGED <<beacon_timer, device_recon_count, device_status, server_ip,
                      queries, state, opmode>>

user_esp_platform_check_ip(reset_flag) ==
    \/ /\ wifi = "got_ip"
       /\ client_timer' = "dns_check"
       /\ beacon_timer' = FALSE
       /\ device_recon_count' = IF reset_flag THEN 0 ELSE device_recon_count
       /\ device_status' = "CONNECTING"
       /\ server_ip' = FALSE
       /\ queries' \in {queries} \cup {q \in 1 .. MaxQueries : q = queries + 1}
       /\ state' = "NONE"
       /\ UNCHANGED opmode
    \/ /\ wifi # "got_ip"
       /\ \/ wifi = "failed" /\ user_esp_platform_reset_mode
          \/ wifi = "connecting" /\ client_timer' = "check_ip" /\ UNCHANGED opmode
       /\ UNCHANGED <<beacon_timer, device_recon_count, device_status, server_ip,
                      queries, state>>

CheckIpTimer ==
    /\ client_timer \in {"check_ip", "check_ip_reset"}
    /\ user_esp_platform_check_ip(client_timer = "check_ip_reset")
    /\ UNCHANGED <<ping_status, conns, dying, wifi, active, refused>>

(* restart_10ms_cb, after a station configuration was posted, calls        *)
(* check_ip with no argument and no declaration in scope: the flag is      *)
(* whatever the register holds.                                            *)
WebCheckIp ==
    /\ Interventions
    /\ \E reset_flag \in BOOLEAN : user_esp_platform_check_ip(reset_flag)
    /\ UNCHANGED <<ping_status, conns, dying, wifi, active, refused>>

(* restart_10ms_cb after "reboot" was posted, which only sets the mode.    *)
WebReboot ==
    /\ Interventions
    /\ opmode' = "STATION"
    /\ UNCHANGED <<client_timer, beacon_timer, device_recon_count, device_status,
                   ping_status, server_ip, state, active, net>>

(* The POST itself: user_esp_platform_set_token, set_connect_status.       *)
WebSetToken ==
    /\ Interventions
    /\ active' = FALSE
    /\ device_status' = "CONNECTING"
    /\ UNCHANGED <<client_timer, beacon_timer, device_recon_count, ping_status,
                   server_ip, state, opmode, net>>

-----------------------------------------------------------------------------
(* Names.                                                                  *)

(* user_esp_platform_dns_check_cb: one more query, and the timer again; a  *)
(* full table changes nothing but the timer.                               *)
BugDnsCheckTableFull ==
    /\ client_timer = "dns_check"
    /\ queries' = queries + 1
    /\ UNCHANGED <<client_timer, beacon_timer, device_recon_count, device_status,
                   ping_status, server_ip, conns, dying, state, wifi, opmode,
                   active, refused>>

user_esp_platform_dns_check_cb ==
    /\ client_timer = "dns_check"
    /\ queries < MaxQueries
    /\ queries' = queries + 1
    /\ UNCHANGED <<client_timer, beacon_timer, device_recon_count, device_status,
                   ping_status, server_ip, conns, dying, state, wifi, opmode,
                   active, refused>>

(* Another failure, of a query or of a connection; the fifth in a row      *)
(* changes the mode, any other leaves the timer to be set to next.         *)
BugFailuresKeepCounting(next) ==
    /\ device_recon_count' = Count(device_recon_count)
    /\ client_timer' = next
    /\ UNCHANGED <<device_status, opmode>>

Failure(next) ==
    /\ device_recon_count' = Count(device_recon_count)
    /\ IF Count(device_recon_count) = 5
       THEN device_status' = "SERVER_FAIL" /\ user_esp_platform_reset_mode
       ELSE client_timer' = next /\ UNCHANGED <<device_status, opmode>>

DnsNotFound ==
    /\ queries > 0
    /\ queries' = queries - 1
    /\ Failure(client_timer)
    /\ UNCHANGED <<beacon_timer, ping_status, server_ip, conns, dying, state,
                   wifi, active, refused>>

(* user_esp_platform_dns_found with an address: the first one connects;    *)
(* the result of espconn_connect is not looked at.                         *)
DnsFound ==
    /\ queries > 0
    /\ queries' = queries - 1
    /\ ~server_ip /\ Len(conns) + dying < MaxConns
    /\ client_timer' = "none"
    /\ server_ip' = TRUE
    /\ ping_status' = TRUE
    /\ \/ conns' = Append(conns, "connecting") /\ state' = "WAIT" /\ UNCHANGED refused
       \/ /\ ConnectFails
          /\ refused' = TRUE
          /\ \/ UNCHANGED <<conns, state>>
             \/ conns' = Append(conns, "stuck") /\ state' = "WAIT"
    /\ UNCHANGED <<beacon_timer, device_recon_count, device_status, dying, wifi,
                   opmode, active>>

DnsFoundAgain ==
    /\ queries > 0 /\ server_ip
    /\ queries' = queries - 1
    /\ UNCHANGED <<client_timer, beacon_timer, device_recon_count, device_status,
                   ping_status, server_ip, conns, dying, state, wifi, opmode,
                   active, refused>>

-----------------------------------------------------------------------------
(* Connections.                                                            *)

(* user_esp_platform_connect_cb: count, mode, and the first frame.         *)
user_esp_platform_connect_cb(i) ==
    /\ conns[i] = "connecting"
    /\ conns' = [conns EXCEPT ![i] = "open"]
    /\ opmode' = IF active THEN "STATION" ELSE opmode
    /\ device_recon_count' = 0
    /\ state' \in Sent(conns')
    /\ UNCHANGED <<client_timer, beacon_timer, device_status, ping_status, server_ip,
                   queries, dying, wifi, active, refused>>

(* user_esp_platform_recv_cb, by what the server says.  The beacon is armed*)
(* afresh, and espconn_client_recv leaves the state at CONNECT.            *)
Recv(i) ==
    /\ conns[i] = "open"
    /\ beacon_timer' = TRUE
    /\ state' = "CONNECT"
    /\ UNCHANGED <<device_recon_count, server_ip, opmode, net>>

RecvActivated(i) ==
    /\ Recv(i)
    /\ \/ active' = TRUE /\ device_status' = "ACTIVE_DONE"
       \/ device_status' = "ACTIVE_FAIL" /\ UNCHANGED active
    /\ UNCHANGED <<client_timer, ping_status>>

RecvReboot(i) ==
    /\ Recv(i)
    /\ client_timer' = "reboot"
    /\ UNCHANGED <<active, device_status, ping_status>>

RecvTimersChanged(i) ==
    /\ Recv(i)
    /\ client_timer' = "timer_get"
    /\ UNCHANGED <<active, device_status, ping_status>>

RecvPingSuccess(i) ==
    /\ Recv(i)
    /\ ping_status' = TRUE
    /\ UNCHANGED <<client_timer, active, device_status>>

(* Part of a frame, a request or a reply that is answered at once.         *)
RecvOther(i) ==
    /\ Recv(i)
    /\ UNCHANGED <<client_timer, active, device_status, ping_status>>

(* What was sent is acknowledged: espconn_client_sent.                     *)
SentAcked(i) ==
    /\ conns[i] = "open"
    /\ state # "CONNECT"
    /\ state' = "CONNECT"
    /\ UNCHANGED <<client_timer, beacon_timer, device_recon_count, device_status,
                   ping_status, server_ip, opmode, active, net>>

(* The server closes.                                                      *)
PeerFin(i) ==
    /\ conns[i] = "open"
    /\ conns' = [conns EXCEPT ![i] = "closing"]
    /\ UNCHANGED <<client_timer, beacon_timer, device_recon_count, device_status,
                   ping_status, server_ip, queries, dying, state, wifi, opmode,
                   active, refused>>

(* espconn_client_err                                                      *)
ConnError(i) ==
    /\ conns[i] # "stuck"
    /\ conns' = RemoveAt(conns, i)
    /\ dying' = dying + 1
    /\ state' = "CLOSE"
    /\ UNCHANGED <<client_timer, beacon_timer, device_recon_count, device_status,
                   ping_status, server_ip, queries, wifi, opmode, active, refused>>

(* user_esp_platform_recon_cb                                              *)
BugReconKeepsBeacon ==
    /\ dying > 0
    /\ dying' = dying - 1
    /\ Failure("check_ip")
    /\ UNCHANGED <<beacon_timer, ping_status, server_ip, queries, conns, state,
                   wifi, active, refused>>

user_esp_platform_recon_cb ==
    /\ dying > 0
    /\ dying' = dying - 1
    /\ beacon_timer' = FALSE
    /\ Failure("check_ip")
    /\ UNCHANGED <<ping_status, server_ip, queries, conns, state, wifi, active,
                   refused>>

(* espconn_cclose_cb and user_esp_platform_discon_cb                       *)
BugDisconNoReconnect(i) ==
    /\ conns[i] = "closing"
    /\ conns' = RemoveAt(conns, i)
    /\ beacon_timer' = FALSE
    /\ state' = "CLOSE"
    /\ UNCHANGED <<client_timer, device_recon_count, device_status, server_ip, queries,
                   opmode, ping_status, dying, wifi, active, refused>>

user_esp_platform_discon_cb(i) ==
    /\ conns[i] = "closing"
    /\ conns' = RemoveAt(conns, i)
    /\ beacon_timer' = FALSE
    /\ \/ wifi = "got_ip" /\ user_esp_platform_check_ip(FALSE)
       \/ /\ wifi # "got_ip"
          /\ state' = "CLOSE"
          /\ \/ wifi = "failed" /\ user_esp_platform_reset_mode
             \/ wifi = "connecting" /\ client_timer' = "check_ip" /\ UNCHANGED opmode
          /\ UNCHANGED <<device_recon_count, device_status, server_ip, queries>>
    /\ UNCHANGED <<ping_status, dying, wifi, active, refused>>

-----------------------------------------------------------------------------
(* The other timers.                                                       *)

(* user_esp_platform_sent_beacon.  An inactive device asks for activation  *)
(* again, and arms no beacon; nor does one without memory for the frame.   *)
BeaconDue ==
    /\ beacon_timer
    /\ UNCHANGED <<client_timer, device_recon_count, device_status, server_ip,
                   queries, dying, wifi, opmode, active, refused>>

BeaconAsksActivation ==
    /\ BeaconDue /\ state = "CONNECT" /\ ~active
    /\ beacon_timer' = FALSE
    /\ state' \in Sent(conns)
    /\ UNCHANGED <<conns, ping_status>>

BeaconSent ==
    /\ BeaconDue /\ state = "CONNECT" /\ active /\ ping_status
    /\ \/ beacon_timer' = TRUE /\ ping_status' = FALSE /\ state' \in Sent(conns)
       \/ beacon_timer' = FALSE /\ UNCHANGED <<ping_status, state>>
    /\ UNCHANGED conns

BeaconUnanswered ==
    /\ BeaconDue
    /\ state = "CONNECT" => active /\ ~ping_status
    /\ beacon_timer' = FALSE
    /\ user_esp_platform_discon
    /\ UNCHANGED <<ping_status, state>>

user_platform_timer_get ==
    /\ client_timer = "timer_get"
    /\ client_timer' = "none"
    /\ state' \in Sent(conns)
    /\ UNCHANGED <<beacon_timer, device_recon_count, device_status, ping_status,
                   server_ip, opmode, active, net>>

user_esp_platform_ap_change ==
    /\ client_timer = "ap_change"
    /\ client_timer' = "check_ip"
    /\ device_recon_count' = 0
    /\ UNCHANGED <<beacon_timer, device_status, ping_status, server_ip, state,
                   opmode, active, net>>

(* user_esp_platform_init once more, with the flag a.                      *)
Restarted(a) ==
    /\ client_timer' = "check_ip_reset"
    /\ beacon_timer' = FALSE /\ ping_status' = FALSE /\ server_ip' = FALSE
    /\ device_recon_count' = 0 /\ device_status' = "none"
    /\ queries' = 0 /\ conns' = <<>> /\ dying' = 0
    /\ state' = "NONE" /\ wifi' = "connecting"
    /\ active' = a
    /\ opmode' = IF a THEN opmode ELSE "STATIONAP"
    /\ refused' = FALSE

(* system_upgrade_reboot                                                   *)
Reboot == client_timer = "reboot" /\ Restarted(active)

(* restart_10ms_cb after an access point configuration, and the key held   *)
(* for 5 s, which also erases the parameters.                              *)
UserRestart == Interventions /\ \E a \in {active, FALSE} : Restarted(a)

(* The station's status, as the SDK reports it.                            *)
WifiChanges ==
    /\ wifi' \in {"connecting", "got_ip", "failed"} \ {wifi}
    /\ UNCHANGED <<client_timer, beacon_timer, device_recon_count, device_status,
                   ping_status, server_ip, queries, conns, dying, state, opmode,
                   active, refused>>

Next ==
    \/ CheckIpTimer
    \/ WebCheckIp
    \/ WebSetToken
    \/ WebReboot
    \/ user_esp_platform_dns_check_cb
    \/ DnsNotFound
    \/ DnsFound
    \/ DnsFoundAgain
    \/ \E i \in 1 .. Len(conns) :
         \/ user_esp_platform_connect_cb(i)
         \/ RecvActivated(i)
         \/ RecvReboot(i)
         \/ RecvTimersChanged(i)
         \/ RecvPingSuccess(i)
         \/ RecvOther(i)
         \/ SentAcked(i)
         \/ PeerFin(i)
         \/ ConnError(i)
         \/ user_esp_platform_discon_cb(i)
    \/ user_esp_platform_recon_cb
    \/ BeaconAsksActivation
    \/ BeaconSent
    \/ BeaconUnanswered
    \/ user_platform_timer_get
    \/ user_esp_platform_ap_change
    \/ Reboot
    \/ UserRestart
    \/ WifiChanges

Spec == Init /\ [][Next]_vars

(* Timers fire, a query is answered (dns_check_entry gives up after        *)
(* DNS_MAX_RETRIES), a connection attempt ends, and its callbacks are made.*)
ClientFairness ==
    /\ WF_vars(CheckIpTimer)
    /\ WF_vars(user_esp_platform_dns_check_cb)
    /\ WF_vars(user_esp_platform_ap_change)
    /\ WF_vars(Reboot)
    /\ WF_vars(DnsNotFound \/ DnsFound \/ DnsFoundAgain)
    /\ WF_vars(user_esp_platform_recon_cb)
    /\ \A i \in 1 .. MaxConns :
         /\ WF_vars(i <= Len(conns) /\ user_esp_platform_discon_cb(i))
         /\ WF_vars(/\ i <= Len(conns) /\ conns[i] = "connecting"
                    /\ user_esp_platform_connect_cb(i) \/ ConnError(i))

(* The station settles, and the 100 ms timer sees it settled.              *)
WifiSettles ==
    /\ WF_vars(wifi = "connecting" /\ WifiChanges)
    /\ SF_vars(CheckIpTimer /\ wifi # "connecting")

(* The server can be reached: a query is answered and a connection made,   *)
(* sooner or later.                                                        *)
ServerReachable ==
    /\ SF_vars(DnsFound)
    /\ \A i \in 1 .. MaxConns :
         SF_vars(i <= Len(conns) /\ user_esp_platform_connect_cb(i))

FairSpec == Spec /\ ClientFairness

-----------------------------------------------------------------------------
(* Properties.                                                             *)

(* Type invariant; MaxQueries bounds what start_dns and dns_check_cb ask.  *)
TypeOK ==
    /\ client_timer \in Purpose
    /\ beacon_timer \in BOOLEAN
    /\ device_recon_count \in 0 .. Width - 1
    /\ device_status \in {"none", "CONNECTING", "ACTIVE_DONE", "ACTIVE_FAIL",
                          "SERVER_FAIL"}
    /\ ping_status \in BOOLEAN
    /\ server_ip \in BOOLEAN
    /\ queries \in 0 .. MaxQueries
    /\ conns \in Seq(Phase)
    /\ dying \in Nat /\ Len(conns) + dying <= MaxConns
    /\ state \in {"NONE", "WAIT", "CONNECT", "WRITE", "CLOSE"}
    /\ wifi \in {"connecting", "got_ip", "failed"}
    /\ opmode \in {"STATION", "STATIONAP"}
    /\ active \in BOOLEAN
    /\ refused \in BOOLEAN

Connected == conns # <<>> \/ dying > 0

(* The client never stops for good: with its one timer idle there is a     *)
(* connection whose end will set it, unless espconn_connect has once       *)
(* refused: dns_found has then disarmed the timer and looks no further.    *)
StallOnlyIfRefused == client_timer = "none" => Connected \/ refused

(* The beacon never fires without a connection to send on or to close,     *)
(* whatever order the end of one, a new check of the address and data come *)
(* in.                                                                     *)
BeaconHasConnection == beacon_timer => Connected

(* The request for the timer list is never sent into the void: whatever    *)
(* ends the connection takes client_timer over before the 2 s are up.      *)
TimerGetHasConnection == client_timer = "timer_get" => Connected

(* Both: no timer that sends outlives the connection it sends on.          *)
SendersConnected == BeaconHasConnection /\ TimerGetHasConnection

(* After five failures in a row the device can be reached on its own       *)
(* access point, until it connects, whatever the timer is doing (without   *)
(* interventions: a posted "reboot" closes the access point).              *)
FallbackAP == device_recon_count >= 5 => opmode = "STATIONAP"

(* reset_mode: "delay 5s to change AP".  While the failures stand at five  *)
(* or more the change is pending, or a connection is being tried.          *)
ApChangePending ==
    device_recon_count >= 5 => client_timer = "ap_change" \/ Connected

Open == \E i \in 1 .. Len(conns) : conns[i] = "open"

(* A device in station mode that cannot reach its server opens its access  *)
(* point once the Wi-Fi settles: no order of failures, late answers and    *)
(* Wi-Fi changes keeps resetting or skipping the count of five.            *)
FallbackWhenUnreachable ==
    WifiSettles => (opmode = "STATION" ~> (opmode = "STATIONAP" \/ Open))

(* Wherever the failures have left the device, with its address back and   *)
(* the server answering it connects, and again whenever it is cut off.     *)
Reconnects == ServerReachable /\ <>[](wifi = "got_ip") => []<>Open
=============================================================================
