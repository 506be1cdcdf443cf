------------------------- MODULE EspPlatformProofs ------------------------
(***************************************************************************)
(* Proofs about the cloud client for every size of the DNS table, every    *)
(* number of connections and every width of the failure counter.  What is  *)
(* proved by induction is Values (the type invariant but for the flags,    *)
(* which need another prover) together with Connection: that the client    *)
(* never stalls rests on the request for the timer list, which leaves the  *)
(* timer idle, being sent only while there is a connection.                *)
(***************************************************************************)
EXTENDS EspPlatform, TLAPS, SequenceTheorems

(* The Boolean part of TypeOK.                                             *)
Flags ==
    /\ beacon_timer \in BOOLEAN
    /\ ping_status \in BOOLEAN
    /\ server_ip \in BOOLEAN
    /\ active \in BOOLEAN
    /\ refused \in BOOLEAN

(* The rest of TypeOK.                                                     *)
Values ==
    /\ client_timer \in Purpose
    /\ device_recon_count \in 0 .. Width - 1
    /\ device_status \in {"none", "CONNECTING", "ACTIVE_DONE", "ACTIVE_FAIL",
                          "SERVER_FAIL"}
    /\ queries \in 0 .. MaxQueries
    /\ conns \in Seq(Phase)
    /\ dying \in Nat /\ Len(conns) + dying <= MaxConns
    /\ state \in {"NONE", "WAIT", "CONNECT", "WRITE", "CLOSE"}
    /\ wifi \in {"connecting", "got_ip", "failed"}
    /\ opmode \in {"STATION", "STATIONAP"}

(* What depends on there being a connection.                               *)
Connection ==
    /\ StallOnlyIfRefused
    /\ BeaconHasConnection
    /\ TimerGetHasConnection

(* Taking one element out of a sequence.                                   *)
LEMMA Removed ==
    ASSUME NEW S, NEW s \in Seq(S), NEW i \in 1 .. Len(s)
    PROVE  /\ RemoveAt(s, i) \in Seq(S)
           /\ Len(RemoveAt(s, i)) = Len(s) - 1
<1> DEFINE a == SubSeq(s, 1, i - 1)
           b == SubSeq(s, i + 1, Len(s))
<1>1. a \in Seq(S) /\ Len(a) = i - 1
  BY SubSeqProperties
<1>2. b \in Seq(S) /\ Len(b) = Len(s) - i
  BY SubSeqProperties
<1>3. RemoveAt(s, i) = a \o b
  BY DEF RemoveAt
<1> HIDE DEF a, b
<1>4. a \o b \in Seq(S) /\ Len(a \o b) = Len(a) + Len(b)
  BY <1>1, <1>2, ConcatProperties
<1>5. QED
  BY <1>1, <1>2, <1>3, <1>4

(* Every flag stays a flag.                                                *)
LEMMA FlagsStep ==
    ASSUME Flags, [Next]_vars
    PROVE  Flags'
<1> USE PlatformAssumption
<1>1. CASE CheckIpTimer
  BY <1>1, Zenon
  DEF CheckIpTimer, user_esp_platform_check_ip, user_esp_platform_reset_mode,
      Flags
<1>2. CASE WebCheckIp
  BY <1>2, Zenon
  DEF WebCheckIp, user_esp_platform_check_ip, user_esp_platform_reset_mode,
      Flags
<1>3. CASE WebSetToken
  BY <1>3, Zenon DEF WebSetToken, net, Flags
<1>4. CASE WebReboot
  BY <1>4, Zenon DEF WebReboot, net, Flags
<1>5. CASE user_esp_platform_dns_check_cb
  BY <1>5, Zenon DEF user_esp_platform_dns_check_cb, Flags
<1>6. CASE DnsNotFound
  BY <1>6, Zenon
  DEF DnsNotFound, Failure, Count, user_esp_platform_reset_mode, Flags
<1>7. CASE DnsFound
  BY <1>7, Zenon DEF DnsFound, Flags
<1>8. CASE DnsFoundAgain
  BY <1>8, Zenon DEF DnsFoundAgain, Flags
<1>9. ASSUME NEW i \in 1 .. Len(conns), user_esp_platform_connect_cb(i)
      PROVE  Flags'
  BY <1>9, Zenon DEF user_esp_platform_connect_cb, Sent, Flags
<1>10. ASSUME NEW i \in 1 .. Len(conns), RecvActivated(i) PROVE Flags'
  BY <1>10, Zenon DEF RecvActivated, Recv, net, Flags
<1>11. ASSUME NEW i \in 1 .. Len(conns), RecvReboot(i) PROVE Flags'
  BY <1>11, Zenon DEF RecvReboot, Recv, net, Flags
<1>12. ASSUME NEW i \in 1 .. Len(conns), RecvTimersChanged(i) PROVE Flags'
  BY <1>12, Zenon DEF RecvTimersChanged, Recv, net, Flags
<1>13. ASSUME NEW i \in 1 .. Len(conns), RecvPingSuccess(i) PROVE Flags'
  BY <1>13, Zenon DEF RecvPingSuccess, Recv, net, Flags
<1>14. ASSUME NEW i \in 1 .. Len(conns), RecvOther(i) PROVE Flags'
  BY <1>14, Zenon DEF RecvOther, Recv, net, Flags
<1>15. ASSUME NEW i \in 1 .. Len(conns), SentAcked(i) PROVE Flags'
  BY <1>15, Zenon DEF SentAcked, net, Flags
<1>16. ASSUME NEW i \in 1 .. Len(conns), PeerFin(i) PROVE Flags'
  BY <1>16, Zenon DEF PeerFin, Flags
<1>17. ASSUME NEW i \in 1 .. Len(conns), ConnError(i) PROVE Flags'
  BY <1>17, Zenon DEF ConnError, Flags
<1>18. ASSUME NEW i \in 1 .. Len(conns), user_esp_platform_discon_cb(i)
      PROVE  Flags'
  BY <1>18, Zenon
  DEF user_esp_platform_discon_cb, user_esp_platform_check_ip,
      user_esp_platform_reset_mode, Flags
<1>19. CASE user_esp_platform_recon_cb
  BY <1>19, Zenon
  DEF user_esp_platform_recon_cb, Failure, Count,
      user_esp_platform_reset_mode, Flags
<1>20. CASE BeaconAsksActivation
  BY <1>20, Zenon DEF BeaconAsksActivation, BeaconDue, Sent, Flags
<1>21. CASE BeaconSent
  BY <1>21, Zenon DEF BeaconSent, BeaconDue, Sent, Flags
<1>22. CASE BeaconUnanswered
  BY <1>22, Zenon
  DEF BeaconUnanswered, BeaconDue, user_esp_platform_discon, Flags
<1>23. CASE user_platform_timer_get
  BY <1>23, Zenon DEF user_platform_timer_get, Sent, net, Flags
<1>24. CASE user_esp_platform_ap_change
  BY <1>24, Zenon DEF user_esp_platform_ap_change, net, Flags
<1>25. CASE Reboot
  BY <1>25, Zenon DEF Reboot, Restarted, Flags
<1>26. CASE UserRestart
  BY <1>26, Zenon DEF UserRestart, Restarted, Flags
<1>27. CASE WifiChanges
  BY <1>27, Zenon DEF WifiChanges, Flags
<1>28. CASE UNCHANGED vars
  BY <1>28, Zenon DEF vars, Flags
<1>29. QED
  BY <1>1, <1>2, <1>3, <1>4, <1>5, <1>6, <1>7, <1>8, <1>9, <1>10, <1>11,
     <1>12, <1>13, <1>14, <1>15, <1>16, <1>17, <1>18, <1>19, <1>20, <1>21,
     <1>22, <1>23, <1>24, <1>25, <1>26, <1>27, <1>28
  DEF Next

(* Every other variable keeps its type; a connection that fails moves from *)
(* the list to the dying ones.                                             *)
LEMMA ValuesStep ==
    ASSUME Values, [Next]_vars
    PROVE  Values'
<1> USE PlatformAssumption
<1>1. CASE CheckIpTimer
  BY <1>1
  DEF CheckIpTimer, user_esp_platform_check_ip, user_esp_platform_reset_mode,
      Values, Purpose, Phase
<1>2. CASE WebCheckIp
  BY <1>2
  DEF WebCheckIp, user_esp_platform_check_ip, user_esp_platform_reset_mode,
      Values, Purpose, Phase
<1>3. CASE WebSetToken
  BY <1>3 DEF WebSetToken, net, Values, Purpose, Phase
<1>4. CASE WebReboot
  BY <1>4 DEF WebReboot, net, Values, Purpose, Phase
<1>5. CASE user_esp_platform_dns_check_cb
  BY <1>5 DEF user_esp_platform_dns_check_cb, Values, Purpose, Phase
<1>6. CASE DnsNotFound
  BY <1>6
  DEF DnsNotFound, Failure, Count, user_esp_platform_reset_mode, Values,
      Purpose, Phase
<1>7. CASE DnsFound
  BY <1>7 DEF DnsFound, Values, Purpose, Phase
<1>8. CASE DnsFoundAgain
  BY <1>8 DEF DnsFoundAgain, Values, Purpose, Phase
<1>9. ASSUME NEW i \in 1 .. Len(conns), user_esp_platform_connect_cb(i)
      PROVE  Values'
  BY <1>9 DEF user_esp_platform_connect_cb, Sent, Values, Purpose, Phase
<1>10. ASSUME NEW i \in 1 .. Len(conns), RecvActivated(i) PROVE Values'
  BY <1>10 DEF RecvActivated, Recv, net, Values, Purpose, Phase
<1>11. ASSUME NEW i \in 1 .. Len(conns), RecvReboot(i) PROVE Values'
  BY <1>11 DEF RecvReboot, Recv, net, Values, Purpose, Phase
<1>12. ASSUME NEW i \in 1 .. Len(conns), RecvTimersChanged(i) PROVE Values'
  BY <1>12 DEF RecvTimersChanged, Recv, net, Values, Purpose, Phase
<1>13. ASSUME NEW i \in 1 .. Len(conns), RecvPingSuccess(i) PROVE Values'
  BY <1>13 DEF RecvPingSuccess, Recv, net, Values, Purpose, Phase
<1>14. ASSUME NEW i \in 1 .. Len(conns), RecvOther(i) PROVE Values'
  BY <1>14 DEF RecvOther, Recv, net, Values, Purpose, Phase
<1>15. ASSUME NEW i \in 1 .. Len(conns), SentAcked(i) PROVE Values'
  BY <1>15 DEF SentAcked, net, Values, Purpose, Phase
<1>16. ASSUME NEW i \in 1 .. Len(conns), PeerFin(i) PROVE Values'
  BY <1>16 DEF PeerFin, Values, Purpose, Phase
<1>17. ASSUME NEW i \in 1 .. Len(conns), ConnError(i) PROVE Values'
  BY <1>17, Removed DEF ConnError, Values, Purpose, Phase
<1>18. ASSUME NEW i \in 1 .. Len(conns), user_esp_platform_discon_cb(i)
      PROVE  Values'
  <2>1. conns' \in Seq(Phase) /\ Len(conns') + dying' <= MaxConns
        /\ dying' \in Nat /\ wifi' = wifi
    BY <1>18, Removed DEF user_esp_platform_discon_cb, Values
  <2>2. /\ client_timer' \in {"dns_check", "check_ip", "ap_change"}
        /\ opmode' \in {"STATION", "STATIONAP"}
    BY <1>18
    DEF user_esp_platform_discon_cb, user_esp_platform_check_ip,
        user_esp_platform_reset_mode, Values
  <2>3. /\ device_recon_count' = device_recon_count
        /\ device_status' \in {device_status, "CONNECTING"}
        /\ queries' \in 0 .. MaxQueries
        /\ state' \in {"NONE", "CLOSE"}
    BY <1>18
    DEF user_esp_platform_discon_cb, user_esp_platform_check_ip, Values
  <2>4. QED
    BY <2>1, <2>2, <2>3 DEF Values, Purpose
<1>19. CASE user_esp_platform_recon_cb
  BY <1>19
  DEF user_esp_platform_recon_cb, Failure, Count,
      user_esp_platform_reset_mode, Values, Purpose, Phase
<1>20. CASE BeaconAsksActivation
  BY <1>20 DEF BeaconAsksActivation, BeaconDue, Sent, Values, Purpose, Phase
<1>21. CASE BeaconSent
  BY <1>21 DEF BeaconSent, BeaconDue, Sent, Values, Purpose, Phase
<1>22. CASE BeaconUnanswered
  BY <1>22
  DEF BeaconUnanswered, BeaconDue, user_esp_platform_discon, Values, Purpose,
      Phase
<1>23. CASE user_platform_timer_get
  BY <1>23 DEF user_platform_timer_get, Sent, net, Values, Purpose, Phase
<1>24. CASE user_esp_platform_ap_change
  BY <1>24 DEF user_esp_platform_ap_change, net, Values, Purpose, Phase
<1>25. CASE Reboot
  BY <1>25 DEF Reboot, Restarted, Values, Purpose, Phase
<1>26. CASE UserRestart
  BY <1>26 DEF UserRestart, Restarted, Values, Purpose, Phase
<1>27. CASE WifiChanges
  BY <1>27 DEF WifiChanges, Values, Purpose, Phase
<1>28. CASE UNCHANGED vars
  BY <1>28 DEF vars, Values, Purpose, Phase
<1>29. QED
  BY <1>1, <1>2, <1>3, <1>4, <1>5, <1>6, <1>7, <1>8, <1>9, <1>10, <1>11,
     <1>12, <1>13, <1>14, <1>15, <1>16, <1>17, <1>18, <1>19, <1>20, <1>21,
     <1>22, <1>23, <1>24, <1>25, <1>26, <1>27, <1>28
  DEF Next

(* No step leaves the timer idle, the beacon armed or the request pending  *)
(* without a connection.                                                   *)
LEMMA ConnectionStep ==
    ASSUME Values, Connection, [Next]_vars
    PROVE  Connection'
<1> USE PlatformAssumption
<1>1. CASE CheckIpTimer
  BY <1>1
  DEF CheckIpTimer, user_esp_platform_check_ip, user_esp_platform_reset_mode,
      Values, Connection, StallOnlyIfRefused, BeaconHasConnection,
      TimerGetHasConnection, Connected
<1>2. CASE WebCheckIp
  BY <1>2
  DEF WebCheckIp, user_esp_platform_check_ip, user_esp_platform_reset_mode,
      Values, Connection, StallOnlyIfRefused, BeaconHasConnection,
      TimerGetHasConnection, Connected
<1>3. CASE WebSetToken
  BY <1>3
  DEF WebSetToken, net, Values, Connection, StallOnlyIfRefused,
      BeaconHasConnection, TimerGetHasConnection, Connected
<1>4. CASE WebReboot
  BY <1>4
  DEF WebReboot, net, Values, Connection, StallOnlyIfRefused,
      BeaconHasConnection, TimerGetHasConnection, Connected
<1>5. CASE user_esp_platform_dns_check_cb
  BY <1>5
  DEF user_esp_platform_dns_check_cb, Values, Connection, StallOnlyIfRefused,
      BeaconHasConnection, TimerGetHasConnection, Connected
<1>6. CASE DnsNotFound
  BY <1>6
  DEF DnsNotFound, Failure, Count, user_esp_platform_reset_mode, Values,
      Connection, StallOnlyIfRefused, BeaconHasConnection,
      TimerGetHasConnection, Connected
<1>7. CASE DnsFound
  BY <1>7
  DEF DnsFound, Values, Connection, StallOnlyIfRefused, BeaconHasConnection,
      TimerGetHasConnection, Connected
<1>8. CASE DnsFoundAgain
  BY <1>8
  DEF DnsFoundAgain, Values, Connection, StallOnlyIfRefused,
      BeaconHasConnection, TimerGetHasConnection, Connected
<1>9. ASSUME NEW i \in 1 .. Len(conns), user_esp_platform_connect_cb(i)
      PROVE  Connection'
  BY <1>9
  DEF user_esp_platform_connect_cb, Sent, Values, Connection,
      StallOnlyIfRefused, BeaconHasConnection, TimerGetHasConnection,
      Connected
<1>10. ASSUME NEW i \in 1 .. Len(conns), RecvActivated(i) PROVE Connection'
  BY <1>10
  DEF RecvActivated, Recv, net, Values, Connection, StallOnlyIfRefused,
      BeaconHasConnection, TimerGetHasConnection, Connected
<1>11. ASSUME NEW i \in 1 .. Len(conns), RecvReboot(i) PROVE Connection'
  BY <1>11
  DEF RecvReboot, Recv, net, Values, Connection, StallOnlyIfRefused,
      BeaconHasConnection, TimerGetHasConnection, Connected
<1>12. ASSUME NEW i \in 1 .. Len(conns), RecvTimersChanged(i) PROVE Connection'
  BY <1>12
  DEF RecvTimersChanged, Recv, net, Values, Connection, StallOnlyIfRefused,
      BeaconHasConnection, TimerGetHasConnection, Connected
<1>13. ASSUME NEW i \in 1 .. Len(conns), RecvPingSuccess(i) PROVE Connection'
  BY <1>13
  DEF RecvPingSuccess, Recv, net, Values, Connection, StallOnlyIfRefused,
      BeaconHasConnection, TimerGetHasConnection, Connected
<1>14. ASSUME NEW i \in 1 .. Len(conns), RecvOther(i) PROVE Connection'
  BY <1>14
  DEF RecvOther, Recv, net, Values, Connection, StallOnlyIfRefused,
      BeaconHasConnection, TimerGetHasConnection, Connected
<1>15. ASSUME NEW i \in 1 .. Len(conns), SentAcked(i) PROVE Connection'
  BY <1>15
  DEF SentAcked, net, Values, Connection, StallOnlyIfRefused,
      BeaconHasConnection, TimerGetHasConnection, Connected
<1>16. ASSUME NEW i \in 1 .. Len(conns), PeerFin(i) PROVE Connection'
  BY <1>16
  DEF PeerFin, Values, Connection, StallOnlyIfRefused, BeaconHasConnection,
      TimerGetHasConnection, Connected
<1>17. ASSUME NEW i \in 1 .. Len(conns), ConnError(i) PROVE Connection'
  BY <1>17
  DEF ConnError, Values, Connection, StallOnlyIfRefused, BeaconHasConnection,
      TimerGetHasConnection, Connected
<1>18. ASSUME NEW i \in 1 .. Len(conns), user_esp_platform_discon_cb(i)
      PROVE  Connection'
  BY <1>18
  DEF user_esp_platform_discon_cb, user_esp_platform_check_ip,
      user_esp_platform_reset_mode, Values, Connection, StallOnlyIfRefused,
      BeaconHasConnection, TimerGetHasConnection, Connected
<1>19. CASE user_esp_platform_recon_cb
  BY <1>19
  DEF user_esp_platform_recon_cb, Failure, Count,
      user_esp_platform_reset_mode, Values, Connection, StallOnlyIfRefused,
      BeaconHasConnection, TimerGetHasConnection, Connected
<1>20. CASE BeaconAsksActivation
  BY <1>20
  DEF BeaconAsksActivation, BeaconDue, Sent, Values, Connection,
      StallOnlyIfRefused, BeaconHasConnection, TimerGetHasConnection,
      Connected
<1>21. CASE BeaconSent
  BY <1>21
  DEF BeaconSent, BeaconDue, Sent, Values, Connection, StallOnlyIfRefused,
      BeaconHasConnection, TimerGetHasConnection, Connected
<1>22. CASE BeaconUnanswered
  BY <1>22
  DEF BeaconUnanswered, BeaconDue, user_esp_platform_discon, Values,
      Connection, StallOnlyIfRefused, BeaconHasConnection,
      TimerGetHasConnection, Connected
<1>23. CASE user_platform_timer_get
  BY <1>23
  DEF user_platform_timer_get, Sent, net, Values, Connection,
      StallOnlyIfRefused, BeaconHasConnection, TimerGetHasConnection,
      Connected
<1>24. CASE user_esp_platform_ap_change
  BY <1>24
  DEF user_esp_platform_ap_change, net, Values, Connection,
      StallOnlyIfRefused, BeaconHasConnection, TimerGetHasConnection,
      Connected
<1>25. CASE Reboot
  BY <1>25
  DEF Reboot, Restarted, Values, Connection, StallOnlyIfRefused,
      BeaconHasConnection, TimerGetHasConnection, Connected
<1>26. CASE UserRestart
  BY <1>26
  DEF UserRestart, Restarted, Values, Connection, StallOnlyIfRefused,
      BeaconHasConnection, TimerGetHasConnection, Connected
<1>27. CASE WifiChanges
  BY <1>27
  DEF WifiChanges, Values, Connection, StallOnlyIfRefused,
      BeaconHasConnection, TimerGetHasConnection, Connected
<1>28. CASE UNCHANGED vars
  BY <1>28
  DEF vars, Values, Connection, StallOnlyIfRefused, BeaconHasConnection,
      TimerGetHasConnection, Connected
<1>29. QED
  BY <1>1, <1>2, <1>3, <1>4, <1>5, <1>6, <1>7, <1>8, <1>9, <1>10, <1>11,
     <1>12, <1>13, <1>14, <1>15, <1>16, <1>17, <1>18, <1>19, <1>20, <1>21,
     <1>22, <1>23, <1>24, <1>25, <1>26, <1>27, <1>28
  DEF Next

(* No step leaves five failures behind without an access point.            *)
LEMMA FallbackStep ==
    ASSUME Interventions = FALSE, Values, FallbackAP, [Next]_vars
    PROVE  FallbackAP'
<1> USE PlatformAssumption
<1>1. CASE CheckIpTimer
  BY <1>1
  DEF CheckIpTimer, user_esp_platform_check_ip, user_esp_platform_reset_mode,
      Values, FallbackAP
<1>2. CASE WebCheckIp
  BY <1>2
  DEF WebCheckIp, user_esp_platform_check_ip, user_esp_platform_reset_mode,
      Values, FallbackAP
<1>3. CASE WebSetToken
  BY <1>3 DEF WebSetToken, net, Values, FallbackAP
<1>4. CASE WebReboot
  BY <1>4 DEF WebReboot, net, Values, FallbackAP
<1>5. CASE user_esp_platform_dns_check_cb
  BY <1>5 DEF user_esp_platform_dns_check_cb, Values, FallbackAP
<1>6. CASE DnsNotFound
  BY <1>6
  DEF DnsNotFound, Failure, Count, user_esp_platform_reset_mode, Values,
      FallbackAP
<1>7. CASE DnsFound
  BY <1>7 DEF DnsFound, Values, FallbackAP
<1>8. CASE DnsFoundAgain
  BY <1>8 DEF DnsFoundAgain, Values, FallbackAP
<1>9. ASSUME NEW i \in 1 .. Len(conns), user_esp_platform_connect_cb(i)
      PROVE  FallbackAP'
  BY <1>9 DEF user_esp_platform_connect_cb, Sent, Values, FallbackAP
<1>10. ASSUME NEW i \in 1 .. Len(conns), RecvActivated(i) PROVE FallbackAP'
  BY <1>10 DEF RecvActivated, Recv, net, Values, FallbackAP
<1>11. ASSUME NEW i \in 1 .. Len(conns), RecvReboot(i) PROVE FallbackAP'
  BY <1>11 DEF RecvReboot, Recv, net, Values, FallbackAP
<1>12. ASSUME NEW i \in 1 .. Len(conns), RecvTimersChanged(i) PROVE FallbackAP'
  BY <1>12 DEF RecvTimersChanged, Recv, net, Values, FallbackAP
<1>13. ASSUME NEW i \in 1 .. Len(conns), RecvPingSuccess(i) PROVE FallbackAP'
  BY <1>13 DEF RecvPingSuccess, Recv, net, Values, FallbackAP
<1>14. ASSUME NEW i \in 1 .. Len(conns), RecvOther(i) PROVE FallbackAP'
  BY <1>14 DEF RecvOther, Recv, net, Values, FallbackAP
<1>15. ASSUME NEW i \in 1 .. Len(conns), SentAcked(i) PROVE FallbackAP'
  BY <1>15 DEF SentAcked, net, Values, FallbackAP
<1>16. ASSUME NEW i \in 1 .. Len(conns), PeerFin(i) PROVE FallbackAP'
  BY <1>16 DEF PeerFin, Values, FallbackAP
<1>17. ASSUME NEW i \in 1 .. Len(conns), ConnError(i) PROVE FallbackAP'
  BY <1>17 DEF ConnError, Values, FallbackAP
<1>18. ASSUME NEW i \in 1 .. Len(conns), user_esp_platform_discon_cb(i)
      PROVE  FallbackAP'
  BY <1>18
  DEF user_esp_platform_discon_cb, user_esp_platform_check_ip,
      user_esp_platform_reset_mode, Values, FallbackAP
<1>19. CASE user_esp_platform_recon_cb
  BY <1>19
  DEF user_esp_platform_recon_cb, Failure, Count,
      user_esp_platform_reset_mode, Values, FallbackAP
<1>20. CASE BeaconAsksActivation
  BY <1>20 DEF BeaconAsksActivation, BeaconDue, Sent, Values, FallbackAP
<1>21. CASE BeaconSent
  BY <1>21 DEF BeaconSent, BeaconDue, Sent, Values, FallbackAP
<1>22. CASE BeaconUnanswered
  BY <1>22
  DEF BeaconUnanswered, BeaconDue, user_esp_platform_discon, Values,
      FallbackAP
<1>23. CASE user_platform_timer_get
  BY <1>23 DEF user_platform_timer_get, Sent, net, Values, FallbackAP
<1>24. CASE user_esp_platform_ap_change
  BY <1>24 DEF user_esp_platform_ap_change, net, Values, FallbackAP
<1>25. CASE Reboot
  BY <1>25 DEF Reboot, Restarted, Values, FallbackAP
<1>26. CASE UserRestart
  BY <1>26 DEF UserRestart, Restarted, Values, FallbackAP
<1>27. CASE WifiChanges
  BY <1>27 DEF WifiChanges, Values, FallbackAP
<1>28. CASE UNCHANGED vars
  BY <1>28 DEF vars, Values, FallbackAP
<1>29. QED
  BY <1>1, <1>2, <1>3, <1>4, <1>5, <1>6, <1>7, <1>8, <1>9, <1>10, <1>11,
     <1>12, <1>13, <1>14, <1>15, <1>16, <1>17, <1>18, <1>19, <1>20, <1>21,
     <1>22, <1>23, <1>24, <1>25, <1>26, <1>27, <1>28
  DEF Next

LEMMA InitialState ==
    ASSUME Init
    PROVE  Flags /\ Values /\ Connection /\ FallbackAP
<1> USE PlatformAssumption
<1>1. Flags
  BY DEF Init, Flags
<1>2. Values
  BY DEF Init, Values, Purpose, Phase
<1>3. Connection /\ FallbackAP
  BY DEF Init, Connection, StallOnlyIfRefused, BeaconHasConnection,
         TimerGetHasConnection, Connected, FallbackAP
<1>4. QED
  BY <1>1, <1>2, <1>3

(* The inductive invariant holds throughout.                               *)
LEMMA Invariant == Spec => [](Flags /\ Values /\ Connection)
<1>1. Init => Flags /\ Values /\ Connection
  BY InitialState
<1>2. Flags /\ Values /\ Connection /\ [Next]_vars
      => (Flags /\ Values /\ Connection)'
  BY FlagsStep, ValuesStep, ConnectionStep
<1>3. QED
  BY <1>1, <1>2, PTL DEF Spec

(* TypeOK: every variable of user_esp_platform.c keeps to its values, and  *)
(* the DNS table and the connections to their bounds.                      *)
THEOREM TypeCorrect == Spec => []TypeOK
<1>1. Flags /\ Values => TypeOK
  BY DEF Flags, Values, TypeOK
<1>2. QED
  BY <1>1, Invariant, PTL

(* StallOnlyIfRefused: client_timer is idle without a connection only if   *)
(* espconn_connect refused, whose result user_esp_platform_dns_found       *)
(* ignores.                                                                *)
THEOREM NeverStalls == Spec => []StallOnlyIfRefused
<1>1. Connection => StallOnlyIfRefused
  BY DEF Connection
<1>2. QED
  BY <1>1, Invariant, PTL

(* SendersConnected: user_esp_platform_sent_beacon and                     *)
(* user_platform_timer_get never run without a connection.                 *)
THEOREM TimersConnected == Spec => []SendersConnected
<1>1. Connection => SendersConnected
  BY DEF Connection, SendersConnected
<1>2. QED
  BY <1>1, Invariant, PTL

(* FallbackAP: when nobody configures the device meanwhile, five failures  *)
(* in a row have opened its access point (user_esp_platform_reset_mode),   *)
(* for every width of device_recon_count.                                  *)
THEOREM AccessPointOpens ==
    ASSUME Interventions = FALSE
    PROVE  Spec => []FallbackAP
<1>1. Init => Values /\ FallbackAP
  BY InitialState
<1>2. Values /\ FallbackAP /\ [Next]_vars => (Values /\ FallbackAP)'
  BY ValuesStep, FallbackStep
<1>3. QED
  BY <1>1, <1>2, PTL DEF Spec
=============================================================================
