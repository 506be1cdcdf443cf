----------------------------- MODULE MCFirmware -----------------------------
(***************************************************************************)
(* The components that share nothing with the others, checked in one run:  *)
(* `part` says which of them moves, the others stay where they started.    *)
(***************************************************************************)
EXTENDS EspParam, PlugKey, SwitchTimer, WebPages, ButtonTasks,
        EspconnSend, TcpSegments, DnsTable, DhcpClient, DhcpServer, EtharpTable, UartInput, Httpd

VARIABLE part

Parts == {"param", "key", "timer", "request", "config", "scan", "button", "send",
          "segments", "dns", "dhcp", "server", "etharp", "uart", "httpd"}

firmwareVars == <<part, paramVars, keyVars, timerVars, requestVars, configVars, scanVars,
                  buttonVars, sendVars, segmentsVars, dnsVars, dhcpVars, serverVars, etharpVars,
                  uartVars, httpdVars>>

Init ==
  /\ part \in Parts
  /\ KeyInit /\ (part # "key" => plug_saved = 1)
  /\ ButtonInit /\ (part # "button" => flash.valid)
  /\ ParamInit /\ TimerInit /\ RequestInit /\ ConfigInit /\ ScanInit
  /\ SendInit /\ SegmentsInit /\ DnsInit /\ DhcpInit /\ ServerInit /\ EtharpInit
  /\ UartInit /\ HttpdInit

\* Everything but component p stays.
Alone(p) ==
  /\ part = p /\ UNCHANGED part
  /\ p = "param" \/ UNCHANGED paramVars
  /\ p = "key" \/ UNCHANGED keyVars
  /\ p = "timer" \/ UNCHANGED timerVars
  /\ p = "request" \/ UNCHANGED requestVars
  /\ p = "config" \/ UNCHANGED configVars
  /\ p = "scan" \/ UNCHANGED scanVars
  /\ p = "button" \/ UNCHANGED buttonVars
  /\ p = "send" \/ UNCHANGED sendVars
  /\ p = "segments" \/ UNCHANGED segmentsVars
  /\ p = "dns" \/ UNCHANGED dnsVars
  /\ p = "dhcp" \/ UNCHANGED dhcpVars
  /\ p = "server" \/ UNCHANGED serverVars
  /\ p = "etharp" \/ UNCHANGED etharpVars
  /\ p = "uart" \/ UNCHANGED uartVars
  /\ p = "httpd" \/ UNCHANGED httpdVars

Params == part = "param" /\ ParamNext /\ Alone("param")
Key == part = "key" /\ KeyNext /\ Alone("key")
Timer == part = "timer" /\ TimerNext /\ Alone("timer")
Requests == part = "request" /\ RequestNext /\ Alone("request")
Config == part = "config" /\ ConfigNext /\ Alone("config")
Scan == part = "scan" /\ ScanNext /\ Alone("scan")
Button == part = "button" /\ ButtonNext /\ Alone("button")
Sending == part = "send" /\ SendNext /\ Alone("send")
Segments == part = "segments" /\ SegmentsNext /\ Alone("segments")
Dns == part = "dns" /\ DnsNext /\ Alone("dns")
Dhcp == part = "dhcp" /\ DhcpNext /\ Alone("dhcp")
Server == part = "server" /\ ServerNext /\ Alone("server")
Etharp == part = "etharp" /\ EtharpNext /\ Alone("etharp")
Uart == part = "uart" /\ UartNext /\ Alone("uart")
WebServer == part = "httpd" /\ HttpdNext /\ Alone("httpd")

Next ==
  \/ Params \/ Key \/ Timer \/ Requests \/ Config \/ Scan \/ Button
  \/ Sending \/ Segments \/ Dns \/ Dhcp \/ Server \/ Etharp
  \/ Uart \/ WebServer

\* The fairness of the components that have one: lwIP's timers go off, the
\* network delivers what it has not lost, the peer acknowledges and reads, and
\* the web server's tcp_close does not fail for ever.
Fairness ==
  /\ WF_sendVars(part = "send" /\ (\E n \in 1..SndBuf : espconn_client_sent(n)))
  /\ WF_segmentsVars(part = "segments" /\ Progress)
  /\ WF_segmentsVars(part = "segments" /\ tcp_recved)
  /\ WF_dnsVars(part = "dns" /\ (dns_tmr \/ dns_check_entry))
  /\ WF_dhcpVars(part = "dhcp" /\ FineTick)
  /\ WF_dhcpVars(part = "dhcp" /\ CoarseTick)
  /\ WF_etharpVars(part = "etharp" /\ etharp_tmr)
  /\ WF_httpdVars(part = "httpd" /\ http_poll)
  /\ WF_httpdVars(part = "httpd" /\ http_poll /\ http_pcb' = "none")

Spec == Init /\ [][Next]_firmwareVars /\ Fairness

\* The type invariant of the component that moves; the others are where they
\* started.
TypeOK ==
  CASE part = "param" -> ParamTypeOK
    [] part = "key" -> KeyTypeOK
    [] part = "timer" -> TimerTypeOK
    [] part = "request" -> RequestTypeOK
    [] part = "config" -> ConfigTypeOK
    [] part = "scan" -> ScanTypeOK
    [] part = "button" -> ButtonTypeOK
    [] part = "send" -> SendTypeOK
    [] part = "segments" -> SegmentsTypeOK
    [] part = "dns" -> DnsTypeOK
    [] part = "dhcp" -> DhcpTypeOK
    [] part = "server" -> ServerTypeOK
    [] part = "etharp" -> EtharpTypeOK
    [] part = "uart" -> UartTypeOK
    [] part = "httpd" -> HttpdTypeOK

----------------------------------------------------------------------------
\* The lists of timers the server sends: fixed, repeated and weekly ones, two of
\* them due at once, actions that end the loop over them, and an unknown mode.
Entry(m, p, a) == [mode |-> m, param |-> p, action |-> a]
Lists ==
  {<<Entry("l", 5, "on_off_switch"), Entry("w", 3, "on_switch")>>,
   <<Entry("f", 7, "off_switch"), Entry("l", 3, "on_switch")>>,
   <<Entry("w", 2, "unknown"), Entry("l", 4, "0"), Entry("l", 2, "on_off_switch")>>,
   <<Entry("l", 2, "on_switch"), Entry("unknown", 0, "unknown")>>}

\* Renewal before rebinding, both at once, and a lease without end.
LeaseTimes == {<<1, 2>>, <<1, 1>>, <<INFINITE, INFINITE>>}
=============================================================================
