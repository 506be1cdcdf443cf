----------------------------- MODULE DhcpClient -----------------------------
(***************************************************************************)
(* lwIP's DHCP client as 07switch builds it (src/apps/07switch/lwip/core/  *)
(* dhcp.c, with DHCP_DOES_ARP_CHECK and without AUTOIP).                   *)
(*                                                                         *)
(* Two timers: the fine one ends a wait for an answer, the coarse one      *)
(* counts down the renewal (t1) and rebinding (t2) times of the lease.     *)
(* Their interleaving with answers is arbitrary; answers may be late, come *)
(* twice or never.  A function of the code that changes the client's state *)
(* is an operator from one value of `dhcp` to the next; `ok` says whether  *)
(* there was memory for its message.                                       *)
(***************************************************************************)
EXTENDS Naturals

CONSTANTS
  Addrs, NO_ADDR,     \* addresses servers offer; IP_ADDR_ANY
  INFINITE,           \* 0xffffffff, the lease time that never ends
  TickWidth,          \* number of values of the u16 t1_timeout and t2_timeout
  TriesWidth,         \* number of values of the u8 tries
  REQUEST_TRIES, REBIND_TRIES, REBOOT_TRIES,  \* 5, 8 and 2
  Leases              \* bound: pairs <<t1, t2>> of renewal and rebinding times

ASSUME DhcpAssumption ==
  /\ NO_ADDR \notin Addrs
  /\ TickWidth \in Nat \ {0, 1} /\ TriesWidth \in Nat \ {0, 1}
  /\ {REQUEST_TRIES, REBIND_TRIES, REBOOT_TRIES} \subseteq 1..(TriesWidth - 2)
  /\ INFINITE \notin Nat
  /\ Leases \subseteq (((0..(TickWidth - 1)) \cup {INFINITE})
                       \X ((0..(TickWidth - 1)) \cup {INFINITE}))

VARIABLES
  dhcp,         \* the struct, with what of a transaction is on the network
  netif_up, netif_addr,
  abandoned,    \* history: the client was stopped or started anew under the address in use
  serverless,   \* history: an offer without server identity stopped the client
  silent        \* the servers have fallen silent for good

dhcpVars == <<dhcp, netif_up, netif_addr, abandoned, serverless, silent>>

States == {"off", "requesting", "selecting", "rebooting", "rebinding", "renewing",
           "checking", "bound", "backing_off"}
Times == (0..(TickWidth - 1)) \cup {INFINITE}

DhcpTypeOK ==
  /\ dhcp \in [state : States, tries : 0..(TriesWidth - 1), request_timeout : BOOLEAN,
               t1 : 0..(TickWidth - 1), t2 : 0..(TickWidth - 1),
               offered_ip_addr : Addrs \cup {NO_ADDR}, lease : Times \X Times,
               asked : SUBSET {"discover", "request"}]
  /\ netif_addr \in Addrs \cup {NO_ADDR}
  /\ {netif_up, abandoned, serverless, silent} \subseteq BOOLEAN

Cleared == [state |-> "off", tries |-> 0, request_timeout |-> FALSE, t1 |-> 0, t2 |-> 0,
            offered_ip_addr |-> NO_ADDR, lease |-> <<0, 0>>, asked |-> {}]

DhcpInit ==
  /\ dhcp = Cleared /\ netif_up = FALSE /\ netif_addr = NO_ADDR
  /\ abandoned = FALSE /\ serverless = FALSE /\ silent = FALSE
----------------------------------------------------------------------------
\* Entering another state clears the retry count and the timer.
dhcp_set_state(d, s) ==
  IF s = d.state THEN d
                 ELSE [d EXCEPT !.state = s, !.tries = 0, !.request_timeout = FALSE]

\* dhcp_create_msg: a new transaction begins with the first message that is not
\* a request; answers to an earlier one no longer match its number.
Create(d, type, ok) ==
  IF ~ok THEN d
  ELSE IF type # "request" /\ d.tries = 0 THEN [d EXCEPT !.asked = {type} \ {"release", "decline"}]
  ELSE [d EXCEPT !.asked = @ \cup ({type} \ {"release", "decline"})]

\* One more try, and the time to wait for the answer.  The backing off of
\* discover and select is never zero; elsewhere it is a multiple of tries, which
\* is zero when the u8 has wrapped, and zero means no timer.
Wait(d, steps) ==
  LET tries == (d.tries + 1) % TriesWidth
  IN [d EXCEPT !.tries = tries, !.request_timeout = (steps = "fixed" \/ tries # 0)]

dhcp_discover(d, ok) ==
  Wait(Create(dhcp_set_state([d EXCEPT !.offered_ip_addr = NO_ADDR], "selecting"),
              "discover", ok), "fixed")
dhcp_select(d, ok) == Wait(Create(dhcp_set_state(d, "requesting"), "request", ok), "fixed")
dhcp_check(d)      == Wait(dhcp_set_state(d, "checking"), "fixed")
dhcp_decline(d, ok) == Wait(Create(dhcp_set_state(d, "backing_off"), "decline", ok), "fixed")
dhcp_renew(d, ok)  == Wait(Create(dhcp_set_state(d, "renewing"), "request", ok), "multiple")
\* Mutant: every try is counted as the first.
BugRebindsForever(d, ok) ==
  Wait(Create([dhcp_set_state(d, "rebinding") EXCEPT !.tries = 0], "request", ok), "multiple")
dhcp_rebind(d, ok) == Wait(Create(dhcp_set_state(d, "rebinding"), "request", ok), "multiple")
dhcp_reboot(d, ok) == Wait(Create(dhcp_set_state(d, "rebooting"), "request", ok), "multiple")
dhcp_release(d, ok) ==
  Wait(Create([dhcp_set_state(d, "off") EXCEPT !.offered_ip_addr = NO_ADDR,
                                               !.lease = <<0, 0>>], "release", ok), "multiple")

\* The lease is granted: its times in ticks of the coarse timer, at least one;
\* an infinite one leaves the counter as it is; t1 is off unless before t2.
Ticks(offered, old) == IF offered = INFINITE THEN old ELSE IF offered = 0 THEN 1 ELSE offered
Bound(d) ==
  LET t1 == Ticks(d.lease[1], d.t1)
      t2 == Ticks(d.lease[2], d.t2)
  IN dhcp_set_state([d EXCEPT !.t1 = IF t1 >= t2 /\ t2 > 0 THEN 0 ELSE t1, !.t2 = t2],
                    "bound")

\* What becomes of the interface.
Down == netif_up' = FALSE /\ abandoned' = FALSE
Unconfigured == Down /\ netif_addr' = NO_ADDR
dhcp_bind(d) ==
  /\ dhcp' = Bound(d)
  /\ netif_up' = TRUE /\ netif_addr' = d.offered_ip_addr /\ abandoned' = FALSE
Abandon == abandoned' = netif_up /\ UNCHANGED <<netif_up, netif_addr>>
Kept == UNCHANGED <<netif_up, netif_addr, abandoned>>
----------------------------------------------------------------------------
\* The application starts the client, or starts a running one anew: the struct is
\* cleared, the interface is left as it is.  Without memory for the pcb or the
\* first message the client is stopped at once.
dhcp_start(ok) ==
  /\ dhcp' = IF ok THEN dhcp_discover(Cleared, ok) ELSE Cleared
  /\ Abandon /\ serverless' = FALSE /\ UNCHANGED silent

\* It removes the client: its pcb goes, the interface is left as it is.
dhcp_stop ==
  /\ dhcp' = dhcp_set_state([dhcp EXCEPT !.asked = {}], "off")
  /\ Abandon /\ UNCHANGED <<serverless, silent>>

\* It ends the lease, dhcp_release, of a client that runs: a stopped one has no
\* pcb to send from.  The interface goes down, the transaction stays open.
End(ok) ==
  /\ dhcp.state # "off"
  /\ dhcp' = dhcp_release(dhcp, ok)
  /\ Unconfigured /\ UNCHANGED <<serverless, silent>>

\* The network behind the interface may have changed.
dhcp_network_changed(ok) ==
  /\ dhcp.state # "off" /\ serverless' = FALSE
  /\ LET again == [dhcp EXCEPT !.tries = 0]
     IN IF dhcp.state \in {"rebinding", "renewing", "bound", "rebooting"}
        THEN dhcp' = dhcp_reboot(again, ok) /\ Down /\ UNCHANGED netif_addr
        ELSE dhcp' = dhcp_discover(again, ok) /\ Kept
  /\ UNCHANGED silent

\* dhcp_fine_tmr: the wait is over, dhcp_timeout decides.
dhcp_fine_tmr(ok) ==
  /\ dhcp.request_timeout
  /\ LET d == [dhcp EXCEPT !.request_timeout = FALSE]
         GiveUp == dhcp' = dhcp_discover(dhcp_release(d, ok), ok) /\ Unconfigured
     IN \/ /\ d.state \in {"backing_off", "selecting"}
           /\ dhcp' = dhcp_discover(d, ok) /\ Kept
        \/ /\ d.state = "requesting"
           /\ IF d.tries <= REQUEST_TRIES THEN dhcp' = dhcp_select(d, ok) /\ Kept ELSE GiveUp
        \/ /\ d.state = "checking"
           /\ IF d.tries <= 1 THEN dhcp' = dhcp_check(d) /\ Kept ELSE dhcp_bind(d)
        \/ d.state = "renewing" /\ dhcp' = dhcp_renew(d, ok) /\ Kept
        \/ /\ d.state = "rebinding"
           /\ IF d.tries <= REBIND_TRIES THEN dhcp' = dhcp_rebind(d, ok) /\ Kept ELSE GiveUp
        \/ /\ d.state = "rebooting"
           /\ dhcp' = IF d.tries < REBOOT_TRIES THEN dhcp_reboot(d, ok) ELSE dhcp_discover(d, ok)
           /\ Kept
        \/ d.state \in {"off", "bound"} /\ dhcp' = d /\ Kept
  /\ UNCHANGED <<serverless, silent>>

\* dhcp_coarse_tmr: both counters go down, past zero too; what they trigger is
\* for a lease in use, or one being asked for.
Less(t) == (t + TickWidth - 1) % TickWidth
dhcp_coarse_tmr(ok) ==
  /\ dhcp.state # "off"
  /\ LET d2 == [dhcp EXCEPT !.t2 = Less(@)]
         d1 == [d2 EXCEPT !.t1 = Less(@)]
         leased == dhcp.state \in {"requesting", "bound", "renewing"}
     IN dhcp' = IF dhcp.t2 = 1 THEN IF leased THEN dhcp_rebind(d2, ok) ELSE d2
                ELSE IF dhcp.t1 = 1 /\ leased THEN dhcp_renew(d1, ok)
                ELSE d1
  /\ Kept /\ UNCHANGED <<serverless, silent>>

\* An offer, for a discover of the current transaction; without the server's
\* identity it is not taken, but the timer has been stopped already.
Offer(ok) ==
  /\ "discover" \in dhcp.asked /\ dhcp.state = "selecting"
  /\ \/ \E a \in Addrs : dhcp' = dhcp_select([dhcp EXCEPT !.request_timeout = FALSE,
                                                         !.offered_ip_addr = a], ok)
        /\ UNCHANGED serverless
     \/ ok /\ dhcp' = [dhcp EXCEPT !.request_timeout = FALSE] /\ serverless' = TRUE
  /\ Kept

\* An acknowledgement: of a new lease, whose address is then checked with ARP,
\* or of the one in use, whose times are not read again.
Ack ==
  /\ "request" \in dhcp.asked
  /\ \/ /\ dhcp.state = "requesting"
        /\ \E l \in Leases, a \in Addrs :
             dhcp' = dhcp_check([dhcp EXCEPT !.lease = l, !.offered_ip_addr = a])
        /\ Kept
     \/ dhcp.state \in {"rebooting", "rebinding", "renewing"} /\ dhcp_bind(dhcp)
  /\ UNCHANGED serverless

\* Mutant: the refused address stays in use.
BugNakKeepsAddress(ok) ==
  /\ "request" \in dhcp.asked
  /\ dhcp.state \in {"rebooting", "requesting", "rebinding", "renewing"}
  /\ dhcp' = dhcp_discover(dhcp_set_state(dhcp, "backing_off"), ok)
  /\ Kept /\ UNCHANGED serverless

\* A refusal: the interface goes down, discovery begins again.
Nak(ok) ==
  /\ "request" \in dhcp.asked
  /\ dhcp.state \in {"rebooting", "requesting", "rebinding", "renewing"}
  /\ dhcp' = dhcp_discover(dhcp_set_state(dhcp, "backing_off"), ok)
  /\ Unconfigured /\ UNCHANGED serverless

dhcp_recv(ok) == ~silent /\ UNCHANGED silent /\ (Offer(ok) \/ Ack \/ Nak(ok))

\* Another host has the address that is being checked.
dhcp_arp_reply(ok) ==
  /\ dhcp.state = "checking"
  /\ dhcp' = dhcp_decline(dhcp, ok)
  /\ Kept /\ UNCHANGED <<serverless, silent>>

Silence == ~silent /\ silent' = TRUE /\ Kept /\ UNCHANGED <<dhcp, serverless>>

DhcpNext ==
  \/ Silence \/ dhcp_stop
  \/ \E ok \in BOOLEAN :
       \/ dhcp_start(ok) \/ End(ok) \/ dhcp_network_changed(ok)
       \/ dhcp_fine_tmr(ok) \/ dhcp_coarse_tmr(ok)
       \/ dhcp_recv(ok) \/ dhcp_arp_reply(ok)

FineTick == \E ok \in BOOLEAN : dhcp_fine_tmr(ok)
CoarseTick == \E ok \in BOOLEAN : dhcp_coarse_tmr(ok)
DhcpFairness == WF_dhcpVars(FineTick) /\ WF_dhcpVars(CoarseTick)
DhcpSpec == DhcpInit /\ [][DhcpNext]_dhcpVars /\ DhcpFairness
----------------------------------------------------------------------------
\* The interface is up only with an address, that of a lease in use until the
\* client that has it is stopped or started anew.
UpMeansLease ==
  netif_up => /\ netif_addr # NO_ADDR
              /\ \/ abandoned
                 \/ /\ dhcp.state \in {"bound", "renewing", "rebinding"}
                    /\ netif_addr = dhcp.offered_ip_addr

\* The client is never left waiting without a timer, but by an offer without
\* server identity; in renewing the rebinding time still runs.
NeverStuck ==
  dhcp.state \notin {"off", "bound", "renewing"} => dhcp.request_timeout \/ serverless

DhcpSound == UpMeansLease /\ NeverStuck

\* When the servers fall silent a leased address is given up in the end, unless the
\* client is stopped or started anew first: then nothing takes it away.
LeaseGivenUp == silent /\ netif_up /\ ~abandoned ~> ~netif_up \/ abandoned
============================================================================
