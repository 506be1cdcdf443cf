----------------------------- MODULE EtharpTable -----------------------------
(***************************************************************************)
(* lwIP's ARP table as 07switch builds it                                  *)
(* (src/apps/07switch/lwip/netif/etharp.c, with ARP_QUEUEING and           *)
(* ETHARP_TRUST_IP_MAC, without static entries).                           *)
(*                                                                         *)
(* A packet for an address not yet known waits in the queue of a pending   *)
(* entry; the entries are few, the queue elements of all entries come from *)
(* one pool.                                                               *)
(***************************************************************************)
EXTENDS Integers, Sequences, FiniteSets, Functions

CONSTANTS
  Hosts, Macs,
  ARP_TABLE_SIZE, MEMP_NUM_ARP_QUEUE,
  ARP_MAXAGE, ARP_MAXPENDING,
  MaxPackets    \* bound: packets given to etharp_output

ASSUME EtharpAssumption ==
  /\ {ARP_TABLE_SIZE, MEMP_NUM_ARP_QUEUE, ARP_MAXAGE} \subseteq Nat \ {0}
  /\ ARP_MAXPENDING \in 2..ARP_MAXAGE /\ MaxPackets \in Nat /\ Macs # {}

VARIABLES
  arp_table,
  etharp_cached_entry,  \* the entry last used for sending
  packets,      \* packets given so far; packet n is the n-th
  unsent,       \* packets accepted and neither sent nor dropped
  overtook,     \* history: a packet was sent before an older one for its host
  interface_up, \* NETIF_FLAG_UP
  heard         \* history: the hardware address each host was last heard from

etharpVars == <<arp_table, etharp_cached_entry, packets, unsent, overtook, interface_up,
                heard>>

Entries == 0..(ARP_TABLE_SIZE - 1)
Empty == [state |-> "empty", ip |-> "none", mac |-> "none", ctime |-> 0, q |-> <<>>]
Nothing == "none"

EtharpTypeOK ==
  /\ \A i \in Entries :
       \/ arp_table[i] = Empty
       \/ /\ arp_table[i].state \in {"pending", "stable"} /\ arp_table[i].ip \in Hosts
          /\ arp_table[i].mac \in Macs \cup {Nothing}
          /\ arp_table[i].ctime \in 0..(ARP_MAXAGE - 1)
          /\ arp_table[i].q \in Seq(1..MaxPackets)
  /\ etharp_cached_entry \in Entries /\ packets \in 0..MaxPackets
  /\ unsent \subseteq 1..packets /\ {overtook, interface_up} \subseteq BOOLEAN
  /\ heard \in [Hosts -> Macs]

EtharpInit ==
  /\ arp_table = [i \in Entries |-> Empty] /\ etharp_cached_entry = 0
  /\ packets = 0 /\ unsent = {} /\ overtook = FALSE /\ interface_up = FALSE
  /\ heard = [h \in Hosts |-> CHOOSE m \in Macs : TRUE]
----------------------------------------------------------------------------
\* The entry find_entry recycles: the first empty one, the oldest stable one,
\* the oldest pending one without a queue, the oldest pending one; of equally
\* old ones the last.
In(S) == {i \in Entries : arp_table[i].state \in S}
Oldest(S) == CHOOSE i \in S :
  \A j \in S : \/ arp_table[j].ctime < arp_table[i].ctime
               \/ arp_table[j].ctime = arp_table[i].ctime /\ j <= i
Recycled ==
  LET idle == {i \in In({"pending"}) : arp_table[i].q = <<>>}
  IN IF In({"empty"}) # {} THEN CHOOSE i \in In({"empty"}) : \A j \in In({"empty"}) : i <= j
     ELSE IF In({"stable"}) # {} THEN Oldest(In({"stable"}))
     ELSE IF idle # {} THEN Oldest(idle)
     ELSE Oldest(In({"pending"}))

\* find_entry for host h that may create: the index, and the entry as found or
\* made.  Without that it finds only what is there.
\* Mutant: a pending entry is not found again.
BugFindsStable(h) == {i \in In({"stable"}) : arp_table[i].ip = h}
Matching(h) == {i \in In({"pending", "stable"}) : arp_table[i].ip = h}
find_entry(h) ==
  IF Matching(h) # {} THEN CHOOSE i \in Matching(h) : \A j \in Matching(h) : i <= j
                      ELSE Recycled

\* The packets that wait in some entries; free_entry drops them.
Queued(entries) == UNION {Range(arp_table[i].q) : i \in entries}
Lost(h) == IF Matching(h) # {} THEN {} ELSE Queued({Recycled})

\* A packet is sent to h at once.
Send(h) ==
  /\ packets' = packets + 1
  /\ overtook' = (overtook \/ Queued(Matching(h)) # {})
  /\ UNCHANGED <<arp_table, unsent, interface_up, heard>>

\* etharp_output, if the remembered entry is still the right one, ...
Cached(h) == /\ arp_table[etharp_cached_entry].state = "stable"
             /\ arp_table[etharp_cached_entry].ip = h
send_cached(h) == Cached(h) /\ Send(h) /\ UNCHANGED etharp_cached_entry

\* ... or through etharp_query: sent by a stable entry, queued at a pending one
\* if there is memory for a copy and an element of the pool.
etharp_query(h) ==
  LET i == find_entry(h)
      n == packets + 1
      found == Matching(h) # {}
      entry == IF found THEN arp_table[i] ELSE [Empty EXCEPT !.state = "pending", !.ip = h]
      taken == Cardinality(unsent \ Lost(h))
  IN IF entry.state = "stable"
     THEN Send(h) /\ etharp_cached_entry' = i
     ELSE /\ packets' = n /\ UNCHANGED <<etharp_cached_entry, overtook, interface_up, heard>>
          /\ \/ /\ taken < MEMP_NUM_ARP_QUEUE
                /\ unsent' = (unsent \ Lost(h)) \cup {n}
                /\ arp_table' = [arp_table EXCEPT ![i] = [entry EXCEPT !.q = Append(@, n)]]
             \/ /\ unsent' = unsent \ Lost(h)
                /\ arp_table' = [arp_table EXCEPT ![i] = entry]

\* Packets are only routed to an interface that is up.
etharp_output(h) ==
  interface_up /\ packets < MaxPackets /\ (send_cached(h) \/ (~Cached(h) /\ etharp_query(h)))

\* update_arp_entry: host h is heard from address m.  Its entry becomes stable
\* and sends what waits; create says whether one may be made.
update_arp_entry(h, m, create) ==
  /\ heard' = [heard EXCEPT ![h] = m]
  /\ IF Matching(h) = {} /\ ~create
     THEN UNCHANGED <<arp_table, unsent>>
     ELSE /\ arp_table' = [arp_table EXCEPT ![find_entry(h)] =
                [state |-> "stable", ip |-> h, mac |-> m, ctime |-> 0, q |-> <<>>]]
          /\ unsent' = unsent \ (Lost(h) \cup Queued(Matching(h)))
  /\ UNCHANGED <<etharp_cached_entry, packets, overtook, interface_up>>

\* A request or an answer for us makes an entry; any IP packet of the local
\* network, and any other ARP packet, only renews one.
etharp_arp_input(h, m) == update_arp_entry(h, m, TRUE)
etharp_ip_input(h, m) == update_arp_entry(h, m, FALSE)

Limit(i) == IF arp_table[i].state = "pending" THEN ARP_MAXPENDING ELSE ARP_MAXAGE

\* Mutant: an entry lives one tick longer.
BugExpiresLate(i) == arp_table[i].ctime + 1 > Limit(i)
Expired(i) == arp_table[i].ctime + 1 >= Limit(i)

\* Mutant: only stable entries age.
BugPendingStay ==
  LET old == {i \in In({"stable"}) : Expired(i)}
  IN /\ arp_table' = [i \in Entries |->
          IF i \in old THEN Empty
          ELSE IF arp_table[i].state = "stable" THEN [arp_table[i] EXCEPT !.ctime = @ + 1]
          ELSE arp_table[i]]
     /\ unsent' = unsent \ Queued(old)
     /\ UNCHANGED <<etharp_cached_entry, packets, overtook, interface_up, heard>>

\* Every five seconds: old entries go, with what waits in them.
etharp_tmr ==
  LET old == {i \in In({"pending", "stable"}) : Expired(i)}
  IN /\ In({"pending", "stable"}) # {}
     /\ arp_table' = [i \in Entries |->
          IF i \in old \/ arp_table[i] = Empty THEN Empty
          ELSE [arp_table[i] EXCEPT !.ctime = @ + 1]]
     /\ unsent' = unsent \ Queued(old)
     /\ UNCHANGED <<etharp_cached_entry, packets, overtook, interface_up, heard>>

\* The interface goes up; or it goes down, which frees the entries that belong to
\* it.  Whose an entry is is recorded only under LWIP_SNMP, which is off: none.
OfNetif == {}
etharp_cleanup_netif ==
  /\ arp_table' = [i \in Entries |-> IF i \in OfNetif THEN Empty ELSE arp_table[i]]
  /\ unsent' = unsent \ Queued(OfNetif)

netif_set_up ==
  /\ ~interface_up /\ interface_up' = TRUE
  /\ UNCHANGED <<arp_table, etharp_cached_entry, packets, unsent, overtook, heard>>

netif_set_down ==
  /\ interface_up /\ interface_up' = FALSE
  /\ etharp_cleanup_netif
  /\ UNCHANGED <<etharp_cached_entry, packets, overtook, heard>>

EtharpNext ==
  \/ \E h \in Hosts : etharp_output(h)
  \/ \E h \in Hosts, m \in Macs : etharp_arp_input(h, m) \/ etharp_ip_input(h, m)
  \/ etharp_tmr \/ netif_set_up \/ netif_set_down

EtharpFairness == WF_etharpVars(etharp_tmr)
EtharpSpec == EtharpInit /\ [][EtharpNext]_etharpVars /\ EtharpFairness
----------------------------------------------------------------------------
\* A host has one entry at most, with the hardware address it was last heard
\* from, whatever was recycled or freed meanwhile.
OneTrueEntry ==
  /\ \A i, j \in In({"pending", "stable"}) : arp_table[i].ip = arp_table[j].ip => i = j
  /\ \A i \in In({"stable"}) : arp_table[i].mac = heard[arp_table[i].ip]

\* Only pending entries make packets wait, and every accepted packet that has
\* neither been sent nor dropped waits in one of them: none leaks.
NoneLeaks ==
  /\ unsent = Queued(Entries)
  /\ \A i \in Entries : arp_table[i].q # <<>> => arp_table[i].state = "pending"

\* Packets leave for a host in the order they were given.
InOrder ==
  /\ ~overtook
  /\ \A i \in Entries : \A k \in 2..Len(arp_table[i].q) :
       arp_table[i].q[k] > arp_table[i].q[k - 1]

EtharpKept == OneTrueEntry /\ NoneLeaks /\ InOrder

\* No packet waits for ever: there is always a time again at which none waits
\* (their number is bounded).
NoneWaitsForever == []<>(unsent = {})
============================================================================
