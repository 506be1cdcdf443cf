# A verification development for the ESP8266 SDK applications

The repository holds three things: the Espressif SDK (`esp_iot_sdk/`: headers,
libraries as binaries, examples), applications for the event-driven SDK
(`apps/`, of which `07switch` is the complete product: a smart plug with its
own sockets layer and lwIP), and applications for the FreeRTOS SDK
(`rtos_apps/`).  The modules here model the control logic of the programs
themselves, starting with the plug.

- [1 Inventory](#1-inventory)
- [2 Modules and how they correspond to the code](#2-modules)
- [3 Runs](#3-runs)
- [4 Proofs](#4-proofs)
- [5 What the code does that one would not expect](#5-disagreements)
- [6 Plan](#6-plan)
- [7 What is not modelled](#7-not-modelled)

## 1 Inventory

Everything under `apps/` runs in the one task of the non-OS SDK: a callback
(timer, lwIP event, DNS answer, key interrupt's timer) runs to completion, so
the concurrency is in the *order* of callbacks and in what one of them leaves
behind for a later one; only the key's interrupt handler cuts into callbacks.
`rtos_apps/` has preemptive tasks.

| part | state | operations | what is hard | what makes it correct |
|---|---|---|---|---|
| saved parameters (`user/user_esp_platform.c`) | RAM block, two sectors, flag sector | load, save, set_token, set_active, activation, factory reset | power loss inside a save or a reset | a reboot always finds a whole block, old or new, never a mixture |
| cloud client (`user/user_esp_platform.c`) | `client_timer`, `beacon_timer`, `device_recon_count`, `ping_status`, `esp_server_ip`, `user_conn` | check_ip, DNS check and answer, connect/reconnect/disconnect callbacks, beacon, change of access point, reboot | one timer with six purposes, each setting it cancelling the others; late DNS answers; several connections in one espconn | it never stops trying; it never sends into the void; it opens its access point when the cloud is out of reach |
| sockets layer: connections (`lwip/app/espconn.c`, `espconn_tcp.c`, over `lwip/core/tcp.c`, `tcp_in.c`) | list of messages, control blocks, close and error timers | connect, accept, disconnect; lwIP's connected, recv, poll and err callbacks | a close, an error and a timer for one connection in any order; references to freed control blocks; failed closes | each connection's end is reported once; no callback gets another connection's message |
| sockets layer: sending (same files) | the message in hand: `ptrbuf`, `cntr` | espconn_sent, sent callbacks | messages longer than the send buffer, short memory, sending before the callback | nothing lost, repeated or reordered; the application is called back |
| configuration web server (`user/user_webserver.c`) | receive buffer and counts, posted configurations, 10 ms restart timer, scan result | GET and POST requests, scan, reboot | all of it shared by all connections: parts of two requests, a request between a POST and its timer, pages of a scan under way | what is posted is applied; a request acted upon is one browser's |
| push button and relay (`driver/key.c`, `user/user_plug.c`) | level, two timers, interrupt edge, relay and its saved state | interrupt, 50 ms and 5 s callbacks | bouncing contacts; an edge between a look and the reprogramming | the driver is never deaf; no movement of the contact counts twice |
| timed switch actions (`user/user_esp_platform_timer.c`) | timer list, `device_timer`, the wait in hand | list from the server, expiry | waits longer than the timer's range; a list replacing a running one; a pointer to a dead stack frame | what is due is done, and nothing else |
| DNS client (`lwip/core/dns.c`) | table of queries, sequence number | enqueue, answer, retry, expiry | late answers, full table, wrap-around, a callback that asks again | each query is answered once, and each is |
| DHCP client (`lwip/core/dhcp.c`) | `struct dhcp`, the interface's address | start, stop, network change; two timers; messages; ARP replies | answers, retries and lease times in any order; narrow counters | the interface is up only with a lease, as long as the client is left alone with it; no wait without a timer |
| DHCP server (`lwip/app/dhcpserver.c`) | one transaction, one address in hand; the SDK's stations | discover, request, decline, release, leave | two stations in the middle of their transactions | no two stations with one address |
| ARP (`lwip/netif/etharp.c`) | table, queues of packets, cached index | output, input, query, timer | few entries, recycled while packets wait | packets leave in order to the right host, none leaks |
| TCP: data (`lwip/core/tcp_out.c`, `tcp_in.c`, `tcp.c`) | queues, windows, timers of both ends | write, output, acknowledgement, retransmission, probe, close | loss, duplicates, closed windows, wrapping numbers | the stream arrives, in place |
| TCP: connections (same files) | state, queues and handle of both ends | connect, listen, close, abort; segments; timers | resets, half-open connections, segments of an earlier life | ends are in step; an application knows whether its connection exists |
| FreeRTOS button application (`rtos_apps/08button`) | LED semaphore, shared buffer, configuration, flash | three tasks | interleaving at every blocking call | one user of the LED; a request is its sender's |
| FreeRTOS serial console (`rtos_apps/08button/user/uart.c`) | fifo, queue, field being typed | interrupt handler, menu, `uart_gets` | bursts, editing at the ends of the field | the field is the line as edited |
| FreeRTOS web server (`rtos_apps/10HTTP_Server/user/httpd.c`) | `http_state`, pool of pbufs | accept, recv, sent, poll, err | partial and failed writes, requests in parts, failing closes | an answer is whole; every connection ends |
| UDP sockets, device discovery, drivers, demonstrations, axTLS, JSON, sequential lwIP API | | | | section 7 |

Interaction: the web server calls `user_esp_platform_set_token`, `check_ip` and
`set_connect_status`; the cloud client and the web server use the sockets layer
(`espconn_*`), which registers its callbacks with lwIP; the button and the timed
actions set the relay, and a long press resets the saved parameters; the cloud
client hands the server's timer list to the timed actions and its host name to
the DNS client. Each module models the calls of its neighbours as actions that
may happen whenever the neighbour's own state would allow them; where a neighbour
is modelled too, its module shows when that is.

## 2 Modules

| module | models | extends / instantiates |
|---|---|---|
| `AtomicParam` | what the parameter store promises: replaced in one step, or not | |
| `EspParam` | `load_param`, `save_param`, their callers, power loss | `AtomicParam` (refinement) |
| `EspconnTcp` | life of TCP connections in the sockets layer | |
| `EspconnSend` | the sending side of one connection of the sockets layer | |
| `EspconnProofs` | theorems about these two | the two, `NumberLemmas` |
| `EspPlatform` | the cloud client | |
| `EspPlatformProofs` | theorems about `EspPlatform` | `EspPlatform`, TLAPS |
| `PlugKey` | push button and relay | |
| `SwitchTimer` | timed switch actions | |
| `WebRequest`, `WebConfig`, `WebScan` | configuration web server: a request's parts; posted configurations and reboot; the scan | |
| `WebPages` | what the three promise together | the three |
| `PlugProofs` | theorems about the saved parameters, the button, the timed actions and the web server | `EspParam`, `PlugKey`, `SwitchTimer`, `WebPages`, `NumberLemmas` |
| `DnsTable`, `DhcpClient`, `DhcpServer`, `EtharpTable` | the parts of lwIP and of the SDK's network layer with tables and timers of their own | |
| `NetworkProofs` | theorems about these four | the four, `NumberLemmas` |
| `TcpStream` | what a connection promises the applications at its ends: a stream | |
| `TcpSegments` | one established TCP connection: data, windows, retransmission | `TcpStream` (refinement) |
| `SegmentsProofs` | theorems about `TcpSegments` | `TcpSegments`, `NumberLemmas` |
| `TcpStates` | TCP connections from handshake to end, at both ends | |
| `TcpProofs` | theorems about `TcpStates` | `TcpStates`, `NumberLemmas` |
| `ButtonTasks`, `UartInput`, `Httpd` | FreeRTOS applications | |
| `FreeRtosProofs` | theorems about these three | the three, TLAPS |
| `NumberLemmas` | what several proofs need of numbers: a least member, induction, remainders | TLAPS |
| `MCFirmware` | the modules that share no state, in one run | fifteen of the above |
| `MCEspconnTcp`, `MCEspPlatform` | instances for TLC (symmetry) | |

Operators whose name begins with `Bug` are variants with a plausible fault,
kept next to the definition they vary; they are used only to show that each
property notices such a fault, and no specification refers to them. Variables
commented as history are not the program's: they record what a property needs to
say under which condition it promises something.

**EspParam.** `esp_param` is the RAM block, `sector[0]`, `sector[1]` and `flag`
the three flash sectors. `save_param` is cut at its flash operations: `SaveParam`
(entry: reads the flag, chooses the branch), `EraseData`, `WriteData`,
`EraseFlag`, `WriteFlag`; `after` says where the caller goes on. `PowerLoss`
happens at any time, with the operation under way done, not done or torn.
Flash and power are external. The contents of a block are abstracted to device
key, token and activation flag. `sta_cfg` is the SDK's own station
configuration, which a factory reset wipes after deactivating the device.

**EspconnTcp.** `Pcb` and `Msg` are heap blocks. A freed block keeps its
contents until something reuses it, because the code reads freed control blocks
(`espconn_cclose_cb`). With `HeapReuse = TRUE` the heap may reuse a block at any
moment (`Reuse`, and `tcp_alloc` may give it out); with `FALSE` only when nothing
on the list refers to it. `timer[m]` is the message's one timer: the 250 ms
close timer or the 10 ms error timer. Segments are abstracted to their effect
on the state of the connection; memory failures (FIN, accept, connect) are
choices. `espconn_find_connection` returns the first node with the espconn asked for or
with its peer's address and port; a client's node records no peer, and which of a
server's have that peer is left open (`alike`). A `tcp_close` while the application has
not been given all that came resets the connection (`Unread`). `CloseOnce` restricts the
application to one `espconn_disconnect` for a connection. `closed_twice` and `reused` are
history variables: `reused` says that a connection was given a block to which the message
of another still refers, after which little can be promised of either.

**EspconnSend.** `stream` is what `tcp_write` has taken, as units
`<<message, offset>>`; `ptrbuf` and `cntr` are the rest of the message in hand.
A write takes all that was offered, what is left after it was halved some number of
times (`Taken`, the retry loop of `espconn_tcp_sent`), or nothing. `rushed` and `failed` are history variables.
Client and server callbacks are the same but for a counter of the idle poll.

**EspPlatform.** One variable for each global of the file; `client_timer` holds
the purpose it is armed for. DNS queries are a count (an answer is for any of
them); `conns` are the phases of the connections that use the one `user_conn`,
oldest first, which is the one `espconn_find_connection` returns; `dying` counts
those whose error is to be reported. The Wi-Fi state changes by itself. The web
server's calls (`WebSetToken`, `WebCheckIp`, `WebReboot`) and a restart
are the interventions that the constant `Interventions` allows.
The text of frames is abstracted to what the code tells apart in them.

**PlugKey.** `pin` is the contact, which changes at any moment; `edge` and
`gpio_status` are the GPIO's interrupt type and its latched interrupt. The handler
and the 50 ms callback each look first and reprogram the edge afterwards, so each
is two actions (`key_intr_handler`, `key_intr_handler_done`; `key_50ms_cb` and
its two continuations) with `Contact` between them; saving the relay is cut
between erase and write.

**SwitchTimer.** Time is counted in units and a callback takes none. `FirstStart`
is `user_platform_timer_first_start` with the search for the shortest wait
(`FindMinTime`); `Armed` cuts a wait into hours. `pwait_action` is a local
variable of a function that has returned by the time `device_timer` uses it:
`FrameReused` overwrites it at any moment, and `GarbageFires` is what may then
follow. What the properties promise holds until that happens. The wait of a list's entry
of unknown mode stays 0, so that the timers act at once, on an action that is unknown, too,
and stop. The loop over the actions ends at one that begins with `0`. The time of the week is
a remainder that is negative before the first Monday of 2014, as C has it.

**WebRequest.** `totallength`, `dat_sumlength` and `precvbuffer` are the static
variables of `save_data`; `Result` is that function, from their values to their
next values and its verdict. Browsers send the parts of requests in any
interleaving, and break off; `upset` is set from the moment two of them are under
way at once, or one breaks off, until the variables are clean again.

**WebConfig.** The two configuration blocks, the parameter block and the 10 ms
timer that all requests share; a configuration is the set of posts its bytes came
from. A browser's connection is also the memory block a reboot polls afterwards.

**WebScan.** The result block, the list in it and the two counts; a page takes
its entries off the list. A scan can be under way while pages are asked for.

**ButtonTasks.** Each task is a place in its code; `send_command` is cut at every
blocking call (look-up, connect, write, read). `check_connection` has the higher
priority and the others take turns: a guard on the two says so. A power loss in the middle of
`configure`'s erase leaves part of the old host, which may count as valid (`torn`). `stray`,
`astray`, `disturbed` and `torn` are history.

**UartInput.** A character is a letter, DEL or CR; the buffer records which letter of
the line it holds. The handler's two branches are `uart0_rxfifo_full`, which empties
the fifo without queueing, and `uart0_rxfifo_tout`.

**Httpd.** One connection after another; between them only the pbufs that were
lost remain. `http_pcb = "left"` is a connection whose `tcp_close` failed after the
state had been freed: only its poll is left. `http_write` is the set of amounts the
retry loop may end up with.

**DnsTable.** A slot is a record, and its number the identity an answer carries.
`dns_check_entries` is a loop of one action per slot (`scan`), because the callback
of an entry may put a query into a slot behind or ahead of it. `dns_seqno` is
taken modulo `SeqWidth` and the age of an entry computed as the code does, in an
`int`.

**DhcpClient.** The code's functions are operators from one value of `dhcp` to the
next, called by the actions for timers, messages and the interface. A message of the
server carries what the code looks at: type, transaction, address, server
identity, times. Counters wrap at `TickWidth` and `TriesWidth`. `dhcp_start` may find a client
running and `dhcp_stop` may come at any moment; neither touches the interface, which then
keeps the address of a lease nobody looks after: `abandoned` is the history of that.
`dhcp_release`, called by the application (`End`) or on giving up, takes the interface down.

**DhcpServer.** `old_xid` and `client_address` are the server's one transaction;
`station_info` is the SDK's list, which is external.

**EtharpTable.** Entries, queues, the cached index and the pool of queue elements; a
table entry is found, recycled or refused as `find_entry` does. Packets are routed to an
interface that is up. When it goes down `etharp_cleanup_netif` frees the entries that belong
to it, which are none (`OfNetif`): an entry's interface is recorded only under `LWIP_SNMP`.

**TcpSegments.** Two control blocks and a network that loses, doubles, reorders and
delays up to `MaxFaults` times. Units of data carry their number and sequence
numbers are taken modulo `SeqSpace`; a probe carries `HeaderByte` when it reads from a
segment that was sent before (section 5). `mss` is the peer's, which segmentation and the
congestion window use; pbufs and the receiver's announcements are of `TCP_MSS`.

**TcpStates.** One pair of addresses and ports, a client and a server, each with
the handle its application keeps. The network holds a set of segments for each end:
a segment is lost, comes twice or comes late. `tcp_input` is the disjunction of the
code's cases. Initially the server may still hold a connection of an earlier life of
the client (`HalfOpen`). Timers that remove a connection go off at any moment:
`pcb->tmr` is not refreshed once the receiving side is closed. `tcp_next_iss` adds a
value of `tcp_ticks`, one of the constant `Ticks`, and starts at `Iss0` after every `Restart`,
as the code's static variable does. A number may therefore come again in a later
connection. `first` (the number of an end's latest SYN, in any life) and `spaced` (no
connection began with a number at most `MaxData + 2`, a connection's length, above that) are
history: while `spaced` holds connected ends are in step (`InStep`), and when it does not they
need not be (section 5).

**MCFirmware.** `part` says which component moves; the others stay at their first
state, so the run is fifteen models side by side, each with its own invariant and its
own fairness. They share nothing in the code either, except through calls that
each module has as actions of its own.

## 3 Runs

`expect: violation` runs show that a statement of the repository does not hold
of the code; they are discussed in section 5.

| run | configuration | shows |
|---|---|---|
| `firmware` | `MCFirmware.cfg` | the components one by one, see below |
| `tcp_reuse` | `MCEspconnTcp.cfg` | even with a heap that reuses blocks that are still referred to, no timer runs on a freed message and no callback gets a freed or foreign one (`EachItsOwn`), and the list is exact (`ListExact`); until a connection is given a block that another's message refers to, no connection is forgotten and the table of links not outgrown (`ListedKept`), and none is closed twice by an application that disconnects once (`NeverClosedTwice`) |
| `tcp_live` | `MCEspconnTcpLive.cfg` | if no block is reused too early, a server connection's close is reported in the end (`ServerCloseReported`) |
| `cloud_safety` | `MCEspPlatform.cfg` | the client's one timer is lost only if `espconn_connect` returned an error (`StallOnlyIfRefused`); the beacon and the request for timers have a connection (`SendersConnected`) |
| `cloud_live` | `MCEspPlatformLive.cfg` | out of reach of its server the device opens its access point (`FallbackWhenUnreachable`, `FallbackAP`), with the server answering it connects again and again (`Reconnects`) |
| `tcp_states` | `TcpStates.cfg` | two connected ends are in step, as long as initial sequence numbers are apart; an application with a handle has a connection; it is told once of what was acknowledged; a connection ends short of its data only if the close could not send it (`StatesKept`) |
| `tcp_client_retry`, `tcp_twice`, `tcp_freed`, `send_early`, `cloud_ap_change`, `tcp_probe` | | violations |

In `firmware`, besides the types:

| component | properties |
|---|---|
| `EspParam` | a whole block can be loaded (`LoadIntact`), nothing is in RAM only (`RamMatchesFlash`), a factory reset cut short leaves no active device without network (`ActiveHasStation`), the sequence implements `AtomicParam` (`AtomicSave`) |
| `EspconnSend` | nothing repeated, reordered or, if the application waits and no write fails outright, lost (`SendKept`); the application is called back (`CalledBack`) |
| `TcpSegments` | the stream is given in place, what is left of it has its timer, and the announced window is kept (`SegmentsKept`); it arrives (`StreamArrives`); all of it implements `TcpStream` (`ImplementsStream`) |
| `PlugKey` | the driver is never deaf and its level follows the contact (`KeyHeard`); between two presses that are acted on the contact has moved, so that no movement counts twice, though a bounce, which is a movement, may count (`PressNeedsContact`) |
| `SwitchTimer` | no due action is skipped or added, and the program follows a null pointer only after an emptied list (`TimersKept`); before the first Monday of 2014 weekly timers are excepted; only a timer of fixed time repeats its action at the same moment, and only an entry of unknown mode makes the timers act then without one (`RepeatsOnlyFixed`) |
| `WebRequest`, `WebConfig`, `WebScan` | requests are whole and their browser's, posts wait for their timer and are not mixed, entries are counted, each up to the condition named there (`WebKept`) |
| `ButtonTasks` | one user of the LED, sockets closed, a request its sender's unless another overlapped it, a valid configuration whole unless an erase was torn (`TasksKept`) |
| `DnsTable` | called back once, refused only by a busy table until the number wraps (`DnsTableKept`); every query ends (`EveryQueryEnds`) |
| `DhcpClient` | the interface is up only with a lease, and no wait is without a timer (`DhcpSound`); with silent servers the address is given up (`LeaseGivenUp`); both but for a client that is restarted or stopped while it holds a lease (`abandoned`) |
| `DhcpServer` | no address twice on the list of stations, and a listed station keeps what the list says (`LeasesKept`) |
| `EtharpTable` | one entry per host with its last address, no leaked packet, packets in order (`EtharpKept`); none waits for ever (`NoneWaitsForever`) |
| `UartInput` | the field is the line as edited, of the characters that arrive, written in place, unless a DEL comes at the start (`UartKept`) |
| `Httpd` | an answer is whole, closed as slow only after its idle polls, pbufs accounted for (`HttpdKept`); every connection ends (`HttpdEnds`) |

**Bounds.** Small instances of the code's constants, each with a reason:

- `EspParam`: two tokens, so that a stale one differs from the current one; the
  model is otherwise finite.
- `EspconnTcp`: two control blocks and three messages (so that a dying message,
  a new one in its block and a third connection coexist), one client espconn,
  one connection allowed by `MaxActive`, so that the limit is met and exceeded.
  `MEMP_NUM_TCP_PCB` is 5 in the code; what happens at the limit does not depend
  on its value.
- `EspconnSend`: a send buffer of four units, two segments at most three units
  long (the peer's `mss` may be below `TCP_MSS`), two messages of one to five
  units: shorter than, as long as and longer than the buffer.
- `EspPlatform`: `Width` is 7 instead of 256: the count is compared with 5 only,
  and 7 leaves one value above it before it wraps. Two DNS queries of the four
  the table holds: enough for a late answer to overtake a new query. Two
  connections of `user_conn`: one ending while another begins. With more of
  either the safety properties are proved (section 4).
- `TcpSegments`: segments of two units, a send buffer of three (so that a write is
  cut short and the oversize of a segment is used), a window of four, five units
  (so that the window closes), two retransmissions before the end, one fault. Sequence
  numbers modulo 28, more than twice what can be sent or announced.
- `TcpStates`: two units over a window of one (so that data and FIN wait in the
  queue when the application closes), one connection beside a half-open one, one
  upset: a loss, a duplicate, an early retransmission or a restart. Connections of the
  client's own earlier life come in through `HalfOpen`. `tcp_next_iss` adds 6, more than a
  connection's numbers, so that the run meets them apart and, after a restart, equal.
- `SwitchTimer`: an hour of 2 units, a week of 9 and 12 units of time, so that waits of
  one, several and no pieces and a week's end occur; four lists, with two actions
  due at once, a repeated, a weekly and a fixed timer, an entry of unknown mode, an unknown
  action and one that begins with `0`.
- `WebRequest`: two browsers with bodies of up to two bytes: one and two parts. `WebConfig`:
  two browsers, three posts: one applied, one waiting, one meeting it. `WebScan`: pages
  of two of up to five entries: no, one, a full and a last short page.
- `DnsTable`: two slots, two servers, two retries, three queries for two names, and
  a sequence number of three values, so that the table is full, a slot is recycled
  and the number wraps.
- `DhcpClient`: one offered address; times of one tick, equal and infinite; `tries` of
  four values, so that it wraps; one or two retries in place of 5, 8 and 2.
- `DhcpServer`: two stations, two addresses, three transactions: one of them is begun again.
- `EtharpTable`: three hosts for two entries, two packets and two queue elements: an entry
  is recycled with a packet in its queue, and the pool is used up.
- `UartInput`: a field of three characters, lines of four, a queue of two, a threshold
  of three: each limit is met and passed. `Httpd`: three retries in
  place of four, two pbufs to a request, four in the pool, files of no, one and six
  units over a buffer of four: an answer in one piece and in several.

**Deadlock** is checked except in `firmware` and `tcp_probe` (bounds on messages,
queries, time and faults let the components end, and some stop at a null
pointer), `send_early`, and `tcp_states`, where the connection ends.

**Fairness.** Only what the code and its timers do by themselves:

- `EspconnTcp`: timers fire; lwIP's own timeouts end a connection that is
  opening or closing; a server is polled, and its FIN does not fail for ever (the
  strong fairness of `espconn_server_poll`). Nothing is assumed of the peer.
- `EspconnSend`: TCP's retransmissions are acknowledged in the end (else the
  connection ends, which is `EspconnTcp`).
- `TcpSegments`: what the network has not lost is delivered, the timers go off, and the
  receiver's application reads (`tcp_recved`).
- `DnsTable`, `DhcpClient`, `EtharpTable`: lwIP's cyclic timers go off. Nothing is
  assumed of servers and hosts.
- `Httpd`: the poll comes every two seconds, and `tcp_close` does not fail for ever.
- `EspPlatform`, `ClientFairness`: timers fire, a DNS query ends with an answer or
  after its retries, a connection attempt succeeds or fails, and pending
  callbacks are made. Nothing makes the server answer. What a property needs
  besides is its hypothesis: `FallbackWhenUnreachable` that the Wi-Fi settles
  (`WifiSettles`), `Reconnects` that the address is back for good and the server
  can be reached (`ServerReachable`). In this run `espconn_connect` returns no
  error and nobody configures the device: a refused connect stops the client for
  good (`StallOnlyIfRefused` says it is the only thing that does), and a posted
  `reboot` closes the access point.
- `TcpStates` states none, and no liveness property.

## 4 Proofs

Checked by TLAPS for every value of the constants.

**EspPlatformProofs.** `TypeCorrect`, `NeverStalls` (`StallOnlyIfRefused`),
`TimersConnected` (`SendersConnected`) and `AccessPointOpens` (`FallbackAP`, under
`Interventions = FALSE`), from `PlatformAssumption`: any number of queries and
connections, any width of the counter above 5. The invariant is the
conjunction of `Flags` (the Boolean variables), `Values` (the others, with
the bounds on queries and connections) and `Connection` (the three properties about
`client_timer`, `beacon_timer` and the connections, which are inductive together:
what ends a connection takes `client_timer` over). `ValuesStep`, `FlagsStep`,
`ConnectionStep` and `FallbackStep` have one step per action.

**EspconnProofs.** *Connections*: `ConnectionsTyped` (`TypeOK`), `CallbacksGetTheirOwn` (`EachItsOwn`),
`ActiveListExact` (`ListExact`), `ConnectionsCanEnd` (`ListedKept`) and `ClosedOnlyOnce`
(`NeverClosedTwice`), for any number of control blocks, messages, clients and links, and for a
heap that reuses what it likes. From `EspconnAssumption` (espconns of clients are not messages,
and `None` is neither). The first three hold in the states of `Assumed == CloseOnce \/ ~reused`:
as long as no connection has been given a block that another's message refers to, and without
end if the application disconnects no closing connection; otherwise a block closed twice may
be another connection's, as the run `tcp_twice` shows. `ConnectionsCanEnd` has no condition but
the one in `ListedKept` itself; `ClosedOnlyOnce` assumes `CloseOnce`. `IInv` relates
the list, the timers and the blocks' arguments: a listed message is one that waits for
no error report (`ListedAre`), nothing calls back with a message about to be freed
(`ArgListed`), a connection has its message from its first callback on (`ArgStates`), is
timed once it is being closed (`ClosingTimed`), and the message nobody closes is its
block's argument (`Attended`). What each callback does is one lemma, cited by the
lemma of each action that makes it. *Sending*: `StreamKept` (`SendKept`), for messages, a send buffer and writes of any size.
`SendInv` says where in the stream the message in hand is: it is the last that a write took
part of, what was taken of it is all before `ptrbuf`, `ptrbuf` and `cntr` end at the
message's last unit (`InHand`); the stream rises (`Rising`); and of an application that
waits, with no failed write, all before `ptrbuf` has been taken (`Complete`).

**PlugProofs.** *Saved parameters*: `ParamTyped` (`ParamTypeOK`), `AlwaysLoadable` (`LoadIntact`),
`NothingOnlyInRam` (`RamMatchesFlash`), `ResetIsSafe` (`ActiveHasStation`) and
`SaveIsAtomic` (the refinement of `AtomicParam`), from `TornAssumption` alone (a torn
sector is not a parameter block). The properties are not inductive: that
`WriteData` is harmless depends on the sector being the spare one, that `WriteFlag`
switches to a whole block on `WriteData` having been done. `ParamInv` therefore adds
`SlotIsSpare`, `SlotWritten`, `FlagErased` and `RamSound`; one lemma per group of
actions shows that it is preserved, and the refinement has a lemma per group
that says which abstract step, or stutter, it is. The step on which all depends
is `EraseFlag`: an erased flag selects the same sector as 1, so the spare sector,
by then complete, is selected one operation early or the old one still is.
*Button*: `ButtonHeard` (`KeyHeard`) and `ButtonNotCountedTwice`
(`PressNeedsContact`), from no assumption. `EdgeAwaited` says which edge is awaited at each
place of the handler and the callbacks, `ContactKnown` where the contact is unless it moved
while the driver looked away, `PressIsReal` what is on its way to a press. *Timed actions*:
`ActionsInTime` (`TimersKept`) and `OnlyFixedRepeats` (`RepeatsOnlyFixed`), for every list of
timers, hour, week and time, from `TimerAssumption`: a repeated timer's period is not 0 and a
weekly time is within the week. The server sees to both; the device, which divides by the
former, checks neither. A wait ends at the time of the last service plus the shortest wait,
however it is cut into hours, and the device's count of time agrees with the real one
unless an empty list came or an entry of unknown mode had it act at once; that no other timer is due before then is arithmetic of
division with remainder.
*Web server*: `RequestsWhole`, `PostsAwaited`, `EntriesKept`, and `WebSound` (`WebKept`) of the three
together, for any number of browsers, lengths, posts and entries. `RequestInv` relates the
static counts to what each browser has sent, `ConfigInv` the two blocks to the timer and what
its callback will find in them, `ScanInv` the list to the two counts.

**NetworkProofs.** For tables, pools, counters and numbers of hosts of any size. `LeasesSound`
(`LeasesKept`): a transaction is one station's (`OneStation`), the address in hand is that
station's (`InHand`), and the server stays past its last address only at a free one; there
always is one, as there are more addresses than stations (`ServerAssumption`), by counting.
`ArpSound` (`EtharpKept`): a packet waits in one queue only (`WaitsOnce`), and what `find_entry`
recycles, the oldest entry of its kind, exists. `ClientSound` (`DhcpSound`): a state in which the
client talks to its server has an address to talk about, and the interface is up only with
that, or abandoned by a restart or a stop, after which the theorem promises no more of it than
an address; the retries stay two below the width
of `tries` (`DhcpAssumption`), which 5, 8 and 2 do. `QueriesKept` (`DnsTableKept`): the entries,
the callbacks and the queries overtaken fit each other (`Fits`), and until the number wraps
every entry was made before the next (`Earlier`), so that one that is not waiting is found.

**TcpProofs.** `StatesSound` (`StatesInv`), `StatesTyped` (`StatesTypeOK`), `HandlesKept`
(`HandleValid`, `ToldOnce` and `DataKept`) and `StatesInStep` (`StatesKept`, which is these three
and `InStep`), for any amount of data, windows, retries, connections one after another and
upsets, from `StatesAssumption`. In two parts. *Each end by itself*: `StatesInv` says what a
block may hold in each state (`BlockFits`), that the handle is what the state makes it
(`HandleOf`) and what the callbacks were told (`MarksFit`), and that a segment on the network
fits (`SegmentFits`); whatever numbers `tcp_next_iss` gives. Each of the code's actions
is shown to be a `Step`: one end's connection goes, begins, or goes on, by waiting, by being
answered or by receiving; it takes segments from its queue and adds its own to the other's.
*Both ends*, while `spaced` holds: every number on the network and every `rcv` is of its sender's
latest connection or of one that is over, less than `Span` from its SYN (`StatesNumbered`).
`StatesPaired` is proved from `Step` alone, kind by kind, and no longer looks at
the code. Segments acknowledge what their sender has received (`Account`); an
acknowledgement of an end's latest connection is that of the other's latest
(`AcksOfServer`, `AcksOfClient`); the blocks' numbers agree (`Agreed`). The step that needs
most is a client that answers an old SYN ACK, of a connection the server has replaced
(`Misled`): `Agreed` is not inductive there unless nothing on the network can complete
the server's latest (`Unanswered`).

**SegmentsProofs.** `SegmentsInvariant` (`SegmentsInv`), `SegmentsWhileShort` and `SegmentsSafe`
(`SegmentsKept`), for any amount of data, any writes, windows, losses and retransmissions, and
for numbers that wrap, from `SegmentsAssumption`. The code compares numbers modulo `SeqSpace`;
the proof speaks of each number's distance from the first, `At`, which does not wrap, and its
first lemmas say that within the bound on `SeqSpace` the code's comparisons agree with it, that
sorting segments by number puts them back in their places, and what an acknowledgement removes
of a queue. `SegmentsInv` says that the two queues
are one piece of the stream, from `lastack` to its end (`Tiled`); that what was sent ends within
a window the receiver announced, and that announced windows are not taken back; that frames on
the way are pieces of the stream, and acknowledgements true of the receiver; that what the
queues have given up, what the callback was told of and what was received agree; and that what
is unacknowledged has its timer. It is shown of a queue first, then through `tcp_output`,
`tcp_write`, `tcp_slowtmr` and the probe, then of the receiver, and last of an acknowledgement.
What it rests on is that `unsent` cannot hold a segment that was sent before while `tcp_write`
appends to it: a fast retransmission must be able to send its segment at once. The congestion
window it leaves is five times the mss at least (`tcp_rexmit_fast`), and a segment can be longer
than the mss (section 5). So the oldest segment's unacknowledged part must be no longer than that
(`OldestFits`): the hypothesis of the first two theorems. `SegmentsSafe` has none: no segment
is longer than the send buffer, so that `TCP_SND_BUF <= 5 * mss` (`SegmentsRoom`) is enough, as
it is here, where `TCP_SND_BUF` is twice 1460, for a peer whose mss is 584 or more. For lwIP's
default of 536 and smaller ones the first two remain. `StreamWhileShort` and `StreamImplemented`, under
the same conditions, are the refinement of `TcpStream` (`ImplementsStream`): a write, a close, a
frame that is taken and an acknowledgement of something new are steps of the stream, all
else is not seen there. It says of steps what `SegmentsKept` cannot say of states: nothing
received is changed or taken back, nothing is written after the close, nothing received after the end, and the sent
callback's count only rises.

**FreeRtosProofs.** `AnswersKept` (`HttpdKept`): written and left are the file (`Whole`), retries are
no more than idle polls. `TasksSound` (`TasksKept`): what each task holds at each place of
its code (`Semaphore`, `Calls`), and whom it has disturbed there (`Undisturbed`). `LinesKept`
(`UartKept`): the first `count` of the field are the letters that stay, which for a line of any
length is said by counting (`Edits`): from each of them on, the line, edited, leaves as many as
the field has from its place on.

**NumberLemmas.** What the others rest on. `LeastNat`: a set of natural numbers that is not empty has a least member, from
the library's theorem that `<` is well founded; and `Induct`, induction over a set in place of a
predicate, which the library's theorems on induction cannot be instantiated with. Division
with remainder, of natural numbers and of integers, which the solver does not know of a
divisor that is a constant: `Euclid`, `IntEuclid`, `OneRemainder`, `RemainderLater` and what
follows from them.

**Only model-checked.** Liveness, which is out of the prover's reach, and `TypeOK` of
`MCFirmware`, which only joins the components' types for TLC. `SegmentsKept` and
`ImplementsStream` for a send buffer of more than five times the mss, when a segment exceeds that.

## 5 Disagreements

- `tcp_client_retry` — "closing failed, try again later" (`espconn_tcp.c:261`):
  for a client nothing tries again, as `espconn_client_poll` is not registered.
- `tcp_freed` — "It is therefore unsafe to reference it" (`tcp.c:246-250`): the close
  timer reads and writes a control block 250 ms after lwIP freed it, on the
  ordinary path of a close by the peer.
- `tcp_twice` — "this should never happen" (`tcp.c:171-174`): a second
  `espconn_disconnect` within those 250 ms gives the freed block to `tcp_close`.
- `send_early` — "successfully delivered to the remote host" (`espconn.c:274-275`):
  the sent callback comes with the first acknowledgement after TCP took the last
  unit.
- `cloud_ap_change` — "delay 5s to change AP" (`user_esp_platform.c:974`): a late
  DNS answer within the 5 s cancels the change, and the next failure counts past 5.
- `tcp_probe` — "copy in one byte from the head of the unacked queue"
  (`tcp_out.c:1446-1449`): once the segment has been sent its payload pointer stands at
  the headers, and the probe carries one of their bytes. A peer whose window has opened
  takes it for the byte of the stream.

`findings` in `PROJECT.json` has the details. The following has no run of its own, and
most of it contradicts no statement of the repository; the models contain it, and the conditions in the properties
(`upset`, `cleared`, `hurried`, `stray`, `serverless`, `abandoned`, `torn`, `wrapped`, ...) are there
because of it.

*Web server.* A part of a request is answered "400" though the whole later succeeds. A
POST broken off before its first body byte makes every GET be refused until the next
POST. A POST that follows a broken-off one can be acted upon before it is whole. A GET of
the wifi configuration within 10 ms of a POST has `restart_10ms_cb` follow null
pointers; a POST of `reboot` in that time takes the parameter block over.
"Reboot" waits for the state of an espconn that is freed with its connection. A page
asked for while a scan runs frees the list it is being written to.

*Timed actions.* `device_timer` keeps the address of a local variable. An empty list
from the server leaves the timer armed over null splits. A timer of fixed time
fires again and again at its moment. An entry of unknown mode has a wait of 0: the timers
act at once, and stop on its action. An action that begins with `0` keeps those after it in
the list from being done. Before the first Monday of 2014 a weekly timer may be a week late.

*DNS.* After 256 queries the oldest completed entry is not found and a table that has
one is reported full. A time to live of 0 wraps. A query asked from the callback of a
failed one may go into the slot that is then flushed. *DHCP client.* An offer without
server identity disarms the timer and stops the client. `tries` wraps to a value that
arms no timer; `t1` and `t2` count past zero. A client that is started again or stopped
forgets its lease, but its interface stays up with the address: when no server answers, for
ever. *ARP.* "Remove all ARP table entries of the specified netif" (`etharp.c:572`) removes
none: an interface that comes up in another network has the entries of the old one
until they age. *DHCP server.* The very first transaction
is offered the address 0.0.0.0; a message that repeats a number is answered
with the address in hand, another station's perhaps.

*TCP data.* `TCP_MAXRTX` is compared for equality with a counter a fast retransmission
also increments. With `LWIP_NETIF_TX_SINGLE_PBUF` every pbuf has room for `TCP_MSS` bytes,
which `tcp_write` fills before it looks at the room of the segment (`tcp_out.c:229`,
`:444`): to a peer with a smaller `mss`, or by writes that chain pbufs, segments grow beyond
`pcb->mss`. After a retransmission timeout such a segment does not fit the congestion
window of one mss, and waits for ever with neither timer running; `StreamArrives` excepts
it (`Oversized`). A FIN waits behind a closed window. *TCP connections.* "ackno ==
snd_nxt" (`tcp_in.c:823`) is taken for the acknowledgement of the FIN while data and FIN
are still queued, and the connection ends without them: the comment at `tcp.c:230-236`
supposes that the timers send them. `pcb->acked` is left from the segment before when a
SYN or RST is refused, and the application is told again (`tcp_in.c:364`). The
timers of FIN_WAIT_2, LAST_ACK and TIME_WAIT count from the last segment before the
close. Initial sequence numbers, "pseudo random" (`tcp.c:1475`), begin again at 6510 after
every reset and rise by no more than the ticks since, so that one may come again: a client
begins, gives up, begins again and is answered; the server restarts before the
acknowledgement comes, and the first SYN, late, has it answer with the same number; the
acknowledgement then completes a connection no client has, and what the client sends is
never in sequence. With `Ticks = {1}`, two connections of one unit and one upset TLC finds this as a
violation of `InStep` alone; `StatesKept` excepts it by `spaced`. A failed `tcp_close` still closes the receiving side. A listener
answers a RST that has an ACK with a RST.

*FreeRTOS.* `check_connection` ignores that its semaphore timed out; the two senders
share one static buffer. A burst of characters is echoed and lost; DEL at the start
of a line writes before the field; a full field is not a terminated string. A configuration
half erased by a power loss may count as valid.
`httpd` loses the pbufs of unfinished requests and of segments that come during an
answer, and a peer's FIN ends an answer that is not yet whole.

## 6 Plan

Done: `EspParam` with `AtomicParam`, `EspconnTcp`, `EspconnSend`, `EspPlatform`,
`PlugKey`, `SwitchTimer`, the web server's three modules, the network layer's
tables, `TcpSegments` with `TcpStream`, `TcpStates`, and the FreeRTOS modules. In order, what is left:

1. The queries of `EspPlatform` as a refinement of `DnsTable`, which today's count of
   queries abstracts; `TcpStates` under `EspconnTcp` instead of that module's own effects
   of segments.
2. Keepalive, the choice of ports, what `tcp_alloc` kills when blocks run out, several
   listeners; IGMP's delayed reports; reference counts of pbufs.

## 7 Not modelled

- *Compiled out of these builds*: IP reassembly and fragmentation (`IP_REASSEMBLY`,
  `IP_FRAG` are 0), lwIP's own heap (`MEM_LIBC_MALLOC`), AutoIP, SNMP, raw sockets, the
  sequential API and sockets (`api/`, `NO_SYS` is 1), out-of-sequence queues
  (`TCP_QUEUE_OOSEQ` is 0), axTLS, the light and sensor variants with PWM
  (`PLUG_DEVICE`), httpd's SSI, CGI and POST.
- *In the build, without interesting state*: UDP sockets and device discovery (one
  datagram in, one out), register-level drivers, parsing and printing of JSON, IP, ICMP
  and netif (one packet at a time), demonstrations with a timer or a task, the two echo
  servers.
- *In the build, left for later*: `LWIP_IGMP`, `LWIP_TCP_KEEPALIVE`, `pbuf.c`.
- *Copies*: the SDK's `IoT_Demo`, the same drivers and headers in every application.
- *Binary*: the SDK's libraries; what the applications rely on is in the modules as
  external definitions.

Together these are most of the repository's lines: the third-party code that is
compiled out, headers, tables and copies. The map covers the control logic, which is
the smaller part.

Known and without a property (the hazards with no property in `PROJECT.json`, of which the
models have most, say why): the entry `espconn_tcp_accept` writes past the table of links;
an accept that runs out of memory between its allocations; an application's buffer that
does not live until it is sent, and a send that fails at its first write; a retransmission
count that steps over its limit; two overlapping requests of the button application; a DEL
at the start of a line, and characters lost in a burst; a DHCP client restarted or stopped
under its lease. Besides, the listener compares the number of active connections for
equality and clients are not counted in (`tcp_in.c:500`; `EspconnTcp` has the limit for
server connections only); the server's reboot waits in `client_timer`, which the end of
the connection takes over (`user_esp_platform.c:882`), and a beacon is not armed again
without memory for its frame (`:624`): nothing in the repository says that either should
survive; an activation asked for with the old token is answered after a new one was posted
and marks the new one active (`:852`): the server's answer does not name the token.

Within the modelled parts: the text of frames and requests, `espconn.state` outside
sending, SSL connections; data that arrives is modelled only where it changes
control. `components` in `PROJECT.json` lists each part with its reason.
