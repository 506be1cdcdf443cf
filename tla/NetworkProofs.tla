--------------------------- MODULE NetworkProofs ---------------------------
(***************************************************************************)
(* Proofs about lwIP's tables and clients as the firmware builds them: the *)
(* DHCP server's list of stations, the ARP table and its queues, the DHCP  *)
(* client's states, and the DNS client's table of queries; each for tables *)
(* of any size and any numbers of stations, hosts and queries.             *)
(***************************************************************************)
EXTENDS DhcpServer, EtharpTable, DhcpClient, DnsTable, SequenceTheorems, FiniteSetTheorems, NumberLemmas

(* A transaction is one station's.                                         *)
OneStation ==
    /\ old_xid <= xids
    /\ \A c \in Stations : transaction[c] <= xids
    /\ \A c, d \in Stations : transaction[c] = transaction[d] /\ transaction[c] # 0 => c = d

(* The address in hand is that of the station whose transaction it is.     *)
InHand ==
    old_xid # 0 =>
        \A c \in Stations : transaction[c] = old_xid =>
            client_address = station_info[c] \/ c \in unlisted

(* Past the last address the server only stays at one that is free.        *)
PlusFree == client_address_plus <= LAST \/ ~InUse(client_address_plus)

LeasesInv ==
    /\ ServerTypeOK
    /\ ListDistinct
    /\ LeaseIsListed
    /\ OneStation
    /\ InHand
    /\ PlusFree

(* There is a free address from the one in hand on, and the search finds   *)
(* the first.                                                              *)
LEMMA FreeFound ==
    ASSUME LeasesInv
    PROVE  NextFree \in Leasable \ {0} /\ ~InUse(NextFree)
<1> DEFINE K == Cardinality(Stations)
           Used == {station_info[c] : c \in Stations}
           U == {a \in Leasable : a >= client_address_plus /\ ~InUse(a)}
<1>1. IsFiniteSet(Stations) /\ K \in Nat /\ FIRST \in Nat \ {0} /\ LAST \in Nat
  BY ServerAssumption, FS_CardinalityType
<1>2. client_address_plus \in Leasable
  BY DEF LeasesInv, ServerTypeOK
<1>3. IsFiniteSet(Used) /\ Cardinality(Used) <= K /\ Cardinality(Used) \in Nat
  <2>1. station_info \in Surjection(Stations, Used)
    BY DEF LeasesInv, ServerTypeOK, Surjection
  <2>2. IsFiniteSet(Used) /\ Cardinality(Used) <= K
    BY <1>1, <2>1, FS_Surjection DEF ExistsSurjection
  <2>3. QED
    BY <2>2, FS_CardinalityType
<1> HIDE DEF K
<1>4. U # {}
  <2>1. CASE client_address_plus > LAST
    BY <1>1, <1>2, <2>1 DEF LeasesInv, PlusFree, Leasable
  <2>2. CASE client_address_plus <= LAST
    <3> DEFINE I == client_address_plus .. LAST + K
    <3>1. client_address_plus \in Nat /\ LAST + K \in Nat
      BY <1>1, <1>2 DEF Leasable
    <3>2. IsFiniteSet(I) /\ Cardinality(I) = LAST + K - client_address_plus + 1
      BY <1>1, <2>2, <3>1, FS_Interval
    <3>3. ~(I \subseteq Used)
      <4>1. I \subseteq Used => Cardinality(I) <= Cardinality(Used)
        BY <1>3, FS_Subset
      <4>2. QED
        BY <1>1, <1>3, <2>2, <3>1, <3>2, <4>1
    <3>4. PICK a \in I : a \notin Used
      BY <3>3
    <3>5. a \in Leasable /\ a >= client_address_plus
      BY <1>1, <1>2, <3>1 DEF Leasable, K
    <3>6. ~InUse(a)
      BY <3>4 DEF InUse
    <3>7. QED
      BY <3>5, <3>6
  <2>3. QED
    BY <1>1, <1>2, <2>1, <2>2 DEF Leasable
<1>5. PICK x \in U : \A y \in U : x <= y
  BY <1>1, <1>4, U \in SUBSET Nat, LeastNat DEF Leasable
<1> HIDE DEF U
<1>6. x \in Leasable /\ x >= client_address_plus /\ ~InUse(x)
  BY <1>5 DEF U
<1>7. \A b \in client_address_plus .. (x - 1) : InUse(b)
  <2>1. ASSUME NEW b \in client_address_plus .. (x - 1) PROVE InUse(b)
    <3>1. x \in Nat /\ client_address_plus \in Nat
      BY <1>1, <1>2, <1>6 DEF Leasable
    <3>2. b \in Nat /\ b >= client_address_plus /\ b < x
      BY <3>1
    <3>3. b \in Leasable
      BY <1>1, <1>2, <1>6, <3>1, <3>2, FS_CardinalityType DEF Leasable
    <3>4. ~(x <= b)
      BY <3>1, <3>2
    <3>5. QED
      BY <1>5, <3>2, <3>3, <3>4 DEF U
  <2>2. QED
    BY <2>1
<1>8. \E a \in Leasable : /\ a >= client_address_plus /\ ~InUse(a)
                          /\ \A b \in client_address_plus .. (a - 1) : InUse(b)
  BY <1>6, <1>7
<1>9. NextFree \in Leasable /\ ~InUse(NextFree)
  BY ONLY <1>8, Zenon DEF NextFree
<1>10. QED
  BY <1>1, <1>9 DEF Leasable

LEMMA LeasesInit == ServerInit => LeasesInv
<1> SUFFICES ASSUME ServerInit PROVE LeasesInv
  OBVIOUS
<1> USE DEF ServerInit
<1>1. Cardinality(Stations) \in Nat /\ FIRST \in Nat \ {0} /\ LAST \in Nat /\ MaxXid \in Nat
  BY ServerAssumption, FS_CardinalityType
<1>2. ServerTypeOK
  BY <1>1, ServerAssumption DEF ServerTypeOK, Leasable
<1>3. ListDistinct /\ LeaseIsListed /\ OneStation /\ InHand
  BY DEF ListDistinct, LeaseIsListed, OneStation, InHand
<1>4. PlusFree
  BY <1>1 DEF PlusFree, InUse
<1>5. QED
  BY <1>2, <1>3, <1>4 DEF LeasesInv

(* What parse_msg does, whether or not a lease is given after it.          *)
LEMMA Parsed ==
    ASSUME LeasesInv, NEW c \in Stations, NEW ok \in BOOLEAN, transaction[c] # 0,
           parse_msg(c, ok), UNCHANGED <<transaction, xids>>
    PROVE  /\ station_info' \in [Stations -> Leasable \cup {0}] /\ old_xid' \in 0 .. MaxXid
           /\ client_address' \in Leasable \cup {0} /\ client_address_plus' \in Leasable
           /\ unlisted' \in SUBSET Stations /\ unlisted \subseteq unlisted'
           /\ ListDistinct' /\ OneStation' /\ InHand' /\ PlusFree'
           /\ client_address' = station_info'[c] \/ c \in unlisted'
           /\ \A d \in Stations : station_info'[d] # station_info[d] => station_info[d] = 0
<1> USE DEF LeasesInv, ServerTypeOK
<1>1. Cardinality(Stations) \in Nat /\ FIRST \in Nat \ {0} /\ LAST \in Nat /\ MaxXid \in Nat
      /\ FIRST <= LAST + 1
  BY ServerAssumption, FS_CardinalityType
<1>2. OneStation'
  BY DEF OneStation, parse_msg
<1>3. \A d \in Stations : transaction[d] = transaction[c] => d = c
  BY DEF OneStation
<1>4. old_xid' = transaction[c] /\ old_xid' # 0
  BY DEF parse_msg
<1>5. CASE old_xid = 0 \/ old_xid = transaction[c]
  BY <1>2, <1>3, <1>4, <1>5 DEF parse_msg, ListDistinct, InHand, PlusFree, InUse
<1>6. CASE ~(old_xid = 0 \/ old_xid = transaction[c]) /\ station_info[c] # 0
  BY <1>2, <1>3, <1>4, <1>6 DEF parse_msg, ListDistinct, InHand, PlusFree, InUse
<1>7. CASE ~(old_xid = 0 \/ old_xid = transaction[c]) /\ station_info[c] = 0 /\ ok
  <2> DEFINE a == NextFree
  <2>1. Listed(c, a) /\ unlisted' = unlisted
    BY <1>7 DEF parse_msg
  <2>2. a \in Leasable \ {0} /\ ~InUse(a)
    BY FreeFound
  <2> HIDE DEF a
  <2>3. /\ station_info' \in [Stations -> Leasable \cup {0}] /\ station_info'[c] = a
        /\ \A d \in Stations : d # c => station_info'[d] = station_info[d]
        /\ client_address' = a
        /\ client_address_plus' = IF a + 1 > LAST THEN FIRST ELSE a + 1
    BY <2>1, <2>2 DEF Listed
  <2>4. client_address_plus' \in Leasable /\ (client_address_plus' <= LAST \/ ~InUse(FIRST)')
    <3>1. Cardinality(Stations) >= 1
      BY ServerAssumption, FS_EmptySet, <1>1
    <3>2. FIRST <= LAST
      BY <1>1, <3>1, ServerAssumption
    <3>3. QED
      BY <1>1, <2>2, <2>3, <3>2 DEF Leasable
  <2>5. ListDistinct'
    BY <2>2, <2>3 DEF ListDistinct, InUse
  <2>6. InHand'
    BY <1>3, <1>4, <2>3 DEF InHand
  <2>7. PlusFree'
    BY <1>1, <2>2, <2>3, <2>4 DEF PlusFree, Leasable
  <2>8. QED
    BY <1>2, <1>4, <1>7, <2>1, <2>2, <2>3, <2>4, <2>5, <2>6, <2>7
<1>8. CASE ~(old_xid = 0 \/ old_xid = transaction[c]) /\ station_info[c] = 0 /\ ~ok
  <2>1. NextFree \in Leasable /\ ~InUse(NextFree)
    BY FreeFound
  <2>2. /\ client_address_plus' = NextFree /\ unlisted' = unlisted \cup {c}
        /\ UNCHANGED <<client_address, station_info>>
    BY <1>8 DEF parse_msg
  <2>3. PlusFree'
    BY <2>1, <2>2 DEF PlusFree, InUse
  <2>4. ListDistinct' /\ InHand'
    BY <1>3, <1>4, <2>2 DEF ListDistinct, InHand
  <2>5. QED
    BY <1>2, <1>4, <2>1, <2>2, <2>3, <2>4
<1>9. QED
  BY <1>5, <1>6, <1>7, <1>8

LEMMA LeasesStep == LeasesInv /\ [ServerNext]_serverVars => LeasesInv'
<1> SUFFICES ASSUME LeasesInv, [ServerNext]_serverVars PROVE LeasesInv'
  OBVIOUS
<1> USE DEF LeasesInv
<1>1. ASSUME NEW c \in Stations, NEW ok \in BOOLEAN, transaction[c] # 0,
             Discover(c, ok) \/ Request(c, ok)
      PROVE  LeasesInv'
  <2>1. parse_msg(c, ok) /\ UNCHANGED <<transaction, xids>>
    BY <1>1 DEF Discover, Request
  <2>2. /\ station_info' \in [Stations -> Leasable \cup {0}] /\ old_xid' \in 0 .. MaxXid
        /\ client_address' \in Leasable \cup {0} /\ client_address_plus' \in Leasable
        /\ unlisted' \in SUBSET Stations /\ unlisted \subseteq unlisted'
        /\ ListDistinct' /\ OneStation' /\ InHand' /\ PlusFree'
        /\ client_address' = station_info'[c] \/ c \in unlisted'
        /\ \A d \in Stations : station_info'[d] # station_info[d] => station_info[d] = 0
    BY <1>1, <2>1, Parsed
  <2>3. CASE UNCHANGED <<offered, leased>>
    <3>1. ServerTypeOK'
      BY <2>1, <2>2, <2>3 DEF ServerTypeOK
    <3>2. LeaseIsListed'
      BY <2>2, <2>3 DEF LeaseIsListed
    <3>3. QED
      BY <2>2, <3>1, <3>2
  <2>4. CASE offered' = [offered EXCEPT ![c] = client_address'] /\ UNCHANGED leased
    <3>1. ServerTypeOK'
      BY <2>1, <2>2, <2>4 DEF ServerTypeOK
    <3>2. LeaseIsListed'
      BY <2>2, <2>4 DEF LeaseIsListed
    <3>3. QED
      BY <2>2, <3>1, <3>2
  <2>5. CASE leased' = [leased EXCEPT ![c] = client_address'] /\ UNCHANGED offered
    <3>1. ServerTypeOK'
      BY <2>1, <2>2, <2>5 DEF ServerTypeOK
    <3>2. LeaseIsListed'
      BY <2>2, <2>5 DEF LeaseIsListed
    <3>3. QED
      BY <2>2, <3>1, <3>2
  <2>6. QED
    BY <1>1, <2>3, <2>4, <2>5 DEF Discover, Request
<1>2. ASSUME NEW c \in Stations, Begin(c) PROVE LeasesInv'
  <2>1. /\ xids' = xids + 1 /\ xids' \in 0 .. MaxXid /\ transaction'[c] = xids + 1
        /\ transaction' \in [Stations -> 0 .. MaxXid]
        /\ \A d \in Stations : d # c => transaction'[d] = transaction[d]
        /\ UNCHANGED <<old_xid, client_address, client_address_plus, station_info, offered,
                       leased, unlisted>>
    BY <1>2, ServerAssumption DEF Begin, ServerTypeOK
  <2>2. ServerTypeOK'
    BY <2>1 DEF ServerTypeOK
  <2>3. OneStation'
    BY <2>1 DEF OneStation, ServerTypeOK
  <2>4. InHand'
    BY <2>1 DEF InHand, OneStation, ServerTypeOK
  <2>5. ListDistinct' /\ LeaseIsListed' /\ PlusFree'
    BY <2>1 DEF ListDistinct, LeaseIsListed, PlusFree, InUse
  <2>6. QED
    BY <2>2, <2>3, <2>4, <2>5
<1>3. ASSUME NEW c \in Stations, Leave(c) PROVE LeasesInv'
  <2>1. /\ station_info' \in [Stations -> Leasable \cup {0}] /\ station_info'[c] = 0
        /\ \A d \in Stations : d # c => station_info'[d] = station_info[d]
        /\ leased' \in [Stations -> Leasable \cup {0}] /\ leased'[c] = 0
        /\ \A d \in Stations : d # c => leased'[d] = leased[d]
        /\ transaction' \in [Stations -> 0 .. MaxXid] /\ transaction'[c] = 0
        /\ \A d \in Stations : d # c => transaction'[d] = transaction[d]
        /\ unlisted' = unlisted \ {c}
        /\ UNCHANGED <<old_xid, client_address, client_address_plus, offered, xids>>
    BY <1>3, ServerAssumption DEF Leave, ServerTypeOK
  <2>2. ServerTypeOK'
    BY <2>1 DEF ServerTypeOK
  <2>3. OneStation'
    BY <2>1 DEF OneStation, ServerTypeOK
  <2>4. InHand'
    BY <2>1 DEF InHand
  <2>5. ListDistinct' /\ LeaseIsListed'
    BY <2>1 DEF ListDistinct, LeaseIsListed
  <2>6. PlusFree'
    <3>1. client_address_plus # 0
      BY ServerAssumption DEF ServerTypeOK, Leasable
    <3>2. QED
      BY <2>1, <3>1 DEF PlusFree, InUse
  <2>7. QED
    BY <2>2, <2>3, <2>4, <2>5, <2>6
<1>4. CASE UNCHANGED serverVars
  BY <1>4 DEF serverVars, ServerTypeOK, ListDistinct, LeaseIsListed, OneStation, InHand, PlusFree, InUse
<1>5. QED
  BY <1>1, <1>2, <1>3, <1>4 DEF ServerNext, handle_dhcp

(* The server lists no address twice, and acknowledges to a station only   *)
(* its own, but for the first to ask and those refused; for any number of  *)
(* stations and addresses.                                                 *)
THEOREM LeasesSound == ServerSpec => []LeasesKept
<1>1. LeasesInv => LeasesKept
  BY DEF LeasesInv, LeasesKept
<1>2. QED
  BY <1>1, LeasesInit, LeasesStep, PTL DEF ServerSpec

-----------------------------------------------------------------------------
(* ARP: an entry of the table.                                             *)
Slot == [state : {"empty", "pending", "stable"}, ip : Hosts \cup {Nothing},
         mac : Macs \cup {Nothing}, ctime : 0 .. ARP_MAXAGE - 1, q : Seq(1 .. MaxPackets)]

TableTyped ==
    /\ arp_table \in [Entries -> Slot]
    /\ \A i \in Entries : IF arp_table[i].state = "empty" THEN arp_table[i] = Empty
                                                         ELSE arp_table[i].ip \in Hosts
    /\ etharp_cached_entry \in Entries /\ packets \in 0 .. MaxPackets
    /\ unsent \subseteq 1 .. packets /\ overtook \in BOOLEAN /\ heard \in [Hosts -> Macs]

(* A packet waits in one queue.                                            *)
WaitsOnce ==
    \A i, j \in Entries : i # j => Range(arp_table[i].q) \cap Range(arp_table[j].q) = {}

EtharpInv == TableTyped /\ OneTrueEntry /\ NoneLeaks /\ InOrder /\ WaitsOnce

Ascending(q) == \A k \in 2 .. Len(q) : q[k] > q[k - 1]

LEMMA Tables ==
    /\ Entries \subseteq Nat /\ 0 \in Entries /\ MaxPackets \in Nat
    /\ \A i \in Entries : i < ARP_TABLE_SIZE
    /\ ARP_MAXAGE \in Nat \ {0} /\ ARP_TABLE_SIZE \in Nat \ {0}
BY EtharpAssumption DEF Entries

(* The entry recycled is one of the table.                                 *)
LEMMA OldestIn ==
    ASSUME TableTyped, NEW S \in SUBSET Entries, S # {}
    PROVE  Oldest(S) \in S
<1> DEFINE age(i) == arp_table[i].ctime
           A == {ARP_MAXAGE - age(i) : i \in S}
<1>1. \A i \in S : age(i) \in Nat /\ age(i) < ARP_MAXAGE /\ i \in Nat /\ i < ARP_TABLE_SIZE
  BY Tables DEF TableTyped, Slot
<1>2. A \in SUBSET Nat /\ A # {}
  BY <1>1, Tables
<1>3. PICK a \in A : \A b \in A : a <= b
  BY <1>2, LeastNat
<1>4. PICK k \in S : a = ARP_MAXAGE - age(k)
  BY <1>3
<1>5. ASSUME NEW j \in S PROVE age(j) <= age(k)
  <2>1. ARP_MAXAGE - age(k) <= ARP_MAXAGE - age(j)
    BY <1>3, <1>4
  <2>2. age(j) \in Nat /\ age(k) \in Nat /\ ARP_MAXAGE \in Nat
    BY <1>1, Tables
  <2> HIDE DEF age
  <2>3. QED
    BY <2>1, <2>2
<1> DEFINE T == {j \in S : age(j) = age(k)}
           B == {ARP_TABLE_SIZE - j : j \in T}
<1>6. B \in SUBSET Nat /\ B # {}
  BY <1>1, Tables
<1>7. PICK c \in B : \A b \in B : c <= b
  BY <1>6, LeastNat
<1>8. PICK n \in T : c = ARP_TABLE_SIZE - n
  BY <1>7
<1>9. ASSUME NEW j \in T PROVE j <= n
  <2>1. ARP_TABLE_SIZE - n <= ARP_TABLE_SIZE - j
    BY <1>7, <1>8
  <2>2. j \in Nat /\ n \in Nat /\ ARP_TABLE_SIZE \in Nat
    BY <1>1, Tables
  <2>3. QED
    BY <2>1, <2>2
<1>10. ASSUME NEW j \in S PROVE age(j) < age(n) \/ (age(j) = age(n) /\ j <= n)
  BY <1>1, <1>5, <1>8, <1>9
<1>11. \E i \in S : \A j \in S : \/ arp_table[j].ctime < arp_table[i].ctime
                                 \/ arp_table[j].ctime = arp_table[i].ctime /\ j <= i
  BY <1>8, <1>10
<1>12. QED
  BY ONLY <1>11, Zenon DEF Oldest

LEMMA RecycledIn ==
    ASSUME TableTyped
    PROVE  Recycled \in Entries
<1> DEFINE idle == {i \in In({"pending"}) : arp_table[i].q = <<>>}
<1>1. In({"empty"}) \subseteq Entries /\ In({"stable"}) \subseteq Entries
      /\ In({"pending"}) \subseteq Entries /\ idle \subseteq Entries
  BY DEF In
<1>2. In({"empty"}) # {} \/ In({"stable"}) # {} \/ In({"pending"}) # {}
  BY Tables DEF In, TableTyped, Slot
<1>3. In({"empty"}) # {} =>
        (CHOOSE i \in In({"empty"}) : \A j \in In({"empty"}) : i <= j) \in In({"empty"})
  <2>1. In({"empty"}) # {} => \E i \in In({"empty"}) : \A j \in In({"empty"}) : i <= j
    BY <1>1, Tables, LeastNat
  <2>2. QED
    BY <2>1, Zenon
<1>4. /\ In({"stable"}) # {} => Oldest(In({"stable"})) \in Entries
      /\ idle # {} => Oldest(idle) \in Entries
      /\ In({"pending"}) # {} => Oldest(In({"pending"})) \in Entries
  <2>1. In({"stable"}) # {} => Oldest(In({"stable"})) \in Entries
    BY <1>1, OldestIn
  <2>2. idle # {} => Oldest(idle) \in Entries
    BY <1>1, OldestIn
  <2>3. In({"pending"}) # {} => Oldest(In({"pending"})) \in Entries
    BY <1>1, OldestIn
  <2>4. QED
    BY <2>1, <2>2, <2>3
<1>5. QED
  BY <1>1, <1>2, <1>3, <1>4 DEF Recycled

(* find_entry: the one entry of the host, or the one recycled.             *)
LEMMA EntryFound ==
    ASSUME EtharpInv, NEW h \in Hosts
    PROVE  /\ find_entry(h) \in Entries
           /\ IF Matching(h) # {} THEN Matching(h) = {find_entry(h)}
                                  ELSE find_entry(h) = Recycled
<1>1. CASE Matching(h) = {}
  BY <1>1, RecycledIn DEF EtharpInv, find_entry
<1>2. CASE Matching(h) # {}
  <2>1. PICK i \in Matching(h) : TRUE
    BY <1>2
  <2>2. Matching(h) = {i} /\ i \in Entries
    BY <2>1 DEF Matching, EtharpInv, OneTrueEntry, In
  <2>3. (CHOOSE k \in {i} : \A j \in {i} : k <= j) = i
    BY <2>2, Tables
  <2>4. QED
    BY <2>2, <2>3 DEF find_entry
<1>3. QED
  BY <1>1, <1>2

(* One entry, that of host h or one recycled for it, is written.           *)
Writes(h, i, e) ==
    /\ IF Matching(h) # {} THEN Matching(h) = {i} ELSE TRUE
    /\ e.state \in {"pending", "stable"} /\ e.ip = h
    /\ e.q # <<>> => e.state = "pending"
    /\ Ascending(e.q)
    /\ \A n \in Range(e.q) : n \in Range(arp_table[i].q) \/ n = packets + 1
    /\ e.state = "stable" => e.mac = heard'[h]
    /\ arp_table' = [arp_table EXCEPT ![i] = e]
    /\ packets' \in {packets, packets + 1} /\ packets' \in 0 .. MaxPackets
    /\ \A n \in Range(e.q) : n <= packets'
    /\ unsent' = (unsent \ Range(arp_table[i].q)) \cup Range(e.q)
    /\ heard' \in [Hosts -> Macs] /\ \A k \in Hosts : k # h => heard'[k] = heard[k]
    /\ UNCHANGED <<etharp_cached_entry, overtook>>

LEMMA Written ==
    ASSUME EtharpInv, NEW h \in Hosts, NEW i \in Entries, NEW e \in Slot, Writes(h, i, e)
    PROVE  EtharpInv'
<1> USE DEF EtharpInv, Writes
<1>1. /\ arp_table' \in [Entries -> Slot] /\ arp_table'[i] = e
      /\ \A j \in Entries : j # i => arp_table'[j] = arp_table[j]
  BY DEF TableTyped
<1>2. \A j \in Entries : Range(arp_table[j].q) \subseteq unsent
  BY DEF NoneLeaks, Queued
<1>3. \A n \in unsent : n \in Nat /\ n >= 1 /\ n <= packets /\ packets \in Nat
  BY Tables DEF TableTyped
<1>4. ASSUME NEW n \in Range(e.q) PROVE n \in 1 .. packets'
  <2>1. packets \in Nat /\ packets' \in Nat /\ n <= packets'
    BY <1>4, Tables DEF TableTyped
  <2>2. n \in Nat /\ n >= 1
    BY <1>2, <1>3, <1>4, <2>1
  <2>3. QED
    BY <2>1, <2>2
<1>5. TableTyped'
  <2>1. unsent' \subseteq 1 .. packets'
    BY <1>3, <1>4
  <2>2. QED
    BY <1>1, <2>1 DEF TableTyped
<1>6. OneTrueEntry'
  <2>1. ASSUME NEW j \in Entries, j # i, arp_table[j].state \in {"pending", "stable"}
        PROVE  arp_table[j].ip # h
    BY <2>1 DEF Matching, In
  <2>2. \A j, k \in In({"pending", "stable"})' : arp_table'[j].ip = arp_table'[k].ip => j = k
    BY <1>1, <2>1 DEF In, OneTrueEntry
  <2>3. \A j \in In({"stable"})' : arp_table'[j].mac = heard'[arp_table'[j].ip]
    BY <1>1, <2>1 DEF In, OneTrueEntry, TableTyped
  <2>4. QED
    BY <2>2, <2>3 DEF OneTrueEntry, In
<1>7. NoneLeaks'
  <2>1. Queued(Entries)' = UNION {Range(arp_table'[j].q) : j \in Entries}
    BY DEF Queued
  <2>2. \A j \in Entries : j # i => Range(arp_table[j].q) \cap Range(arp_table[i].q) = {}
    BY DEF WaitsOnce
  <2>3. UNION {Range(arp_table'[j].q) : j \in Entries} = unsent'
    BY <1>1, <2>2 DEF NoneLeaks, Queued
  <2>4. \A j \in Entries : arp_table'[j].q # <<>> => arp_table'[j].state = "pending"
    BY <1>1 DEF NoneLeaks
  <2>5. QED
    BY <2>1, <2>3, <2>4 DEF NoneLeaks
<1>8. InOrder'
  BY <1>1 DEF InOrder, Ascending
<1>9. WaitsOnce'
  <2>1. ASSUME NEW j \in Entries, j # i PROVE Range(arp_table[j].q) \cap Range(e.q) = {}
    BY <1>2, <1>3, <2>1, Tables DEF WaitsOnce, TableTyped
  <2>2. QED
    BY <1>1, <2>1 DEF WaitsOnce
<1>10. QED
  BY <1>5, <1>6, <1>7, <1>8, <1>9

LEMMA RangeSeq ==
    ASSUME NEW S, NEW q \in Seq(S)
    PROVE  Range(q) = {q[k] : k \in 1 .. Len(q)} /\ Len(q) \in Nat /\ Range(q) \subseteq S
BY LenProperties DEF Range

LEMMA QueueGrows ==
    ASSUME NEW q \in Seq(1 .. MaxPackets), NEW n \in 1 .. MaxPackets,
           Ascending(q), \A k \in Range(q) : k < n
    PROVE  LET r == Append(q, n) IN
             r \in Seq(1 .. MaxPackets) /\ Ascending(r) /\ Range(r) = Range(q) \cup {n}
<1> DEFINE r == Append(q, n)
<1>1. /\ Len(q) \in Nat /\ r \in Seq(1 .. MaxPackets) /\ Len(r) = Len(q) + 1
      /\ r[Len(q) + 1] = n /\ \A k \in 1 .. Len(q) : r[k] = q[k]
  BY LenProperties, AppendProperties
<1>2. Range(q) = {q[k] : k \in 1 .. Len(q)} /\ Range(r) = {r[k] : k \in 1 .. Len(r)}
  BY <1>1, RangeSeq
<1>3. \A k \in 1 .. Len(q) : q[k] < n
  BY <1>2
<1> HIDE DEF r
<1>4. Ascending(r)
  <2>1. ASSUME NEW k \in 2 .. Len(r) PROVE r[k] > r[k - 1]
    <3>1. CASE k = Len(q) + 1
      <4>1. k - 1 \in 1 .. Len(q)
        BY <1>1, <3>1
      <4>2. q[k - 1] < n /\ r[k - 1] = q[k - 1] /\ r[k] = n
        BY <1>1, <1>3, <3>1, <4>1
      <4>3. q[k - 1] \in 1 .. MaxPackets
        BY <4>1, ElementOfSeq
      <4>4. QED
        BY <4>2, <4>3
    <3>2. CASE k # Len(q) + 1
      <4>1. k \in 2 .. Len(q) /\ k \in 1 .. Len(q) /\ k - 1 \in 1 .. Len(q)
        BY <1>1, <3>2
      <4>2. QED
        BY <1>1, <4>1 DEF Ascending
    <3>3. QED
      BY <3>1, <3>2
  <2>2. QED
    BY <2>1 DEF Ascending
<1>5. Range(r) = Range(q) \cup {n}
  <2>1. \A k \in 1 .. Len(r) : r[k] \in Range(q) \cup {n}
    BY <1>1, <1>2
  <2>2. \A k \in 1 .. Len(q) : q[k] \in Range(r)
    BY <1>1, <1>2
  <2>3. n \in Range(r)
    BY <1>1, <1>2
  <2>4. QED
    BY <1>2, <2>1, <2>2, <2>3
<1>6. QED
  BY <1>1, <1>4, <1>5 DEF r

(* The facts about an entry that every action needs.                       *)
LEMMA EntryOf ==
    ASSUME EtharpInv, NEW i \in Entries
    PROVE  /\ arp_table[i] \in Slot /\ arp_table[i].q \in Seq(1 .. MaxPackets)
           /\ arp_table[i].ctime \in 0 .. ARP_MAXAGE - 1
           /\ arp_table[i].state \in {"empty", "pending", "stable"}
           /\ Ascending(arp_table[i].q)
           /\ Range(arp_table[i].q) \subseteq unsent
           /\ \A n \in unsent : n \in Nat /\ n <= packets
<1>1. arp_table[i] \in Slot /\ Ascending(arp_table[i].q) /\ Range(arp_table[i].q) \subseteq unsent
  BY DEF EtharpInv, TableTyped, InOrder, Ascending, NoneLeaks, Queued
<1>2. \A n \in unsent : n \in Nat /\ n <= packets
  BY Tables DEF EtharpInv, TableTyped
<1>3. QED
  BY <1>1, <1>2 DEF Slot

(* A host is heard from.                                                   *)
LEMMA Heard ==
    ASSUME EtharpInv, NEW h \in Hosts, NEW m \in Macs, NEW create \in BOOLEAN,
           update_arp_entry(h, m, create)
    PROVE  EtharpInv'
<1> DEFINE i == find_entry(h)
           e == [state |-> "stable", ip |-> h, mac |-> m, ctime |-> 0, q |-> <<>>]
<1>1. heard' = [heard EXCEPT ![h] = m] /\ UNCHANGED <<etharp_cached_entry, packets, overtook>>
  BY DEF update_arp_entry
<1>2. /\ heard' \in [Hosts -> Macs] /\ heard'[h] = m
      /\ \A k \in Hosts : k # h => heard'[k] = heard[k]
  BY <1>1 DEF EtharpInv, TableTyped
<1>3. i \in Entries /\ IF Matching(h) # {} THEN Matching(h) = {i} ELSE i = Recycled
  BY EntryFound
<1>4. CASE Matching(h) = {} /\ ~create
  <2>1. UNCHANGED <<arp_table, unsent>>
    BY <1>4 DEF update_arp_entry
  <2>2. \A j \in In({"stable"}) : arp_table[j].ip # h /\ arp_table[j].ip \in Hosts
    BY <1>4 DEF Matching, In, EtharpInv, TableTyped
  <2>3. TableTyped' /\ NoneLeaks' /\ InOrder' /\ WaitsOnce'
    <3>1. TableTyped'
      BY <1>1, <1>2, <2>1 DEF EtharpInv, TableTyped
    <3>2. Queued(Entries)' = Queued(Entries)
      BY <2>1 DEF Queued
    <3>3. NoneLeaks'
      BY <2>1, <3>2 DEF EtharpInv, NoneLeaks
    <3>4. InOrder' /\ WaitsOnce'
      BY <1>1, <2>1 DEF EtharpInv, InOrder, WaitsOnce
    <3>5. QED
      BY <3>1, <3>3, <3>4
  <2>4. OneTrueEntry'
    BY <1>2, <2>1, <2>2 DEF EtharpInv, OneTrueEntry, In
  <2>5. QED
    BY <2>3, <2>4 DEF EtharpInv
<1>5. CASE ~(Matching(h) = {} /\ ~create)
  <2>1. /\ arp_table' = [arp_table EXCEPT ![i] = e]
        /\ unsent' = unsent \ (Lost(h) \cup Queued(Matching(h)))
    BY <1>5 DEF update_arp_entry
  <2>2. Lost(h) \cup Queued(Matching(h)) = Range(arp_table[i].q)
    BY <1>3 DEF Lost, Queued
  <2>3. e \in Slot /\ e.state = "stable" /\ e.ip = h /\ e.mac = m /\ e.q = <<>>
    BY Tables DEF Slot
  <2>4. Range(e.q) = {} /\ Ascending(e.q)
    BY <2>3 DEF Range, Ascending
  <2> HIDE DEF i, e
  <2>5. packets \in 0 .. MaxPackets
    BY DEF EtharpInv, TableTyped
  <2>6. Writes(h, i, e)
    BY <1>1, <1>2, <1>3, <2>1, <2>2, <2>3, <2>4, <2>5 DEF Writes
  <2>7. QED
    BY <1>3, <2>3, <2>6, Written DEF i
<1>6. QED
  BY <1>4, <1>5

(* A packet is sent through a stable entry: none of its host waits.        *)
LEMMA Sent ==
    ASSUME EtharpInv, NEW h \in Hosts, packets < MaxPackets, Send(h),
           etharp_cached_entry' \in Entries,
           NEW i \in Entries, arp_table[i].state = "stable", arp_table[i].ip = h
    PROVE  EtharpInv'
<1>1. Queued(Matching(h)) = {}
  <2>1. Matching(h) = {i}
    BY DEF Matching, EtharpInv, OneTrueEntry, In
  <2>2. arp_table[i].q = <<>>
    BY DEF EtharpInv, NoneLeaks
  <2>3. Range(<<>>) = {}
    BY DEF Range
  <2>4. QED
    BY <2>1, <2>2, <2>3 DEF Queued
<1>2. ~overtook'
  BY <1>1 DEF Send, EtharpInv, InOrder
<1>3. packets' \in 0 .. MaxPackets /\ unsent' \subseteq 1 .. packets'
  BY Tables DEF Send, EtharpInv, TableTyped
<1>4. UNCHANGED <<arp_table, unsent, heard>>
  BY DEF Send
<1>5. TableTyped'
  BY <1>2, <1>3, <1>4 DEF Send, EtharpInv, TableTyped
<1>6. NoneLeaks'
  <2>1. Queued(Entries)' = Queued(Entries)
    BY <1>4 DEF Queued
  <2>2. QED
    BY <1>4, <2>1 DEF EtharpInv, NoneLeaks
<1>7. InOrder' /\ WaitsOnce' /\ OneTrueEntry'
  BY <1>2, <1>4 DEF EtharpInv, InOrder, WaitsOnce, OneTrueEntry, In
<1>8. QED
  BY <1>5, <1>6, <1>7 DEF EtharpInv

(* A packet given to ARP.                                                  *)
LEMMA Output ==
    ASSUME EtharpInv, NEW h \in Hosts, etharp_output(h)
    PROVE  EtharpInv'
<1> DEFINE i == find_entry(h)
           n == packets + 1
           found == Matching(h) # {}
           new == [Empty EXCEPT !.state = "pending", !.ip = h]
           entry == IF found THEN arp_table[i] ELSE new
           more == [entry EXCEPT !.q = Append(@, n)]
<1>1. packets < MaxPackets /\ n \in 1 .. MaxPackets /\ packets \in 0 .. MaxPackets
  BY Tables DEF etharp_output, EtharpInv, TableTyped
<1>2. CASE send_cached(h)
  <2>1. Send(h) /\ etharp_cached_entry \in Entries /\ etharp_cached_entry' = etharp_cached_entry
        /\ arp_table[etharp_cached_entry].state = "stable" /\ arp_table[etharp_cached_entry].ip = h
    BY <1>2 DEF send_cached, Cached, EtharpInv, TableTyped
  <2>2. QED
    BY <1>1, <2>1, Sent
<1>3. i \in Entries /\ IF found THEN Matching(h) = {i} ELSE i = Recycled
  BY EntryFound
<1>4. new \in Slot /\ new.state = "pending" /\ new.ip = h /\ new.q = <<>>
  <2>1. Empty \in Slot /\ Empty.q = <<>>
    BY Tables DEF Slot, Empty, Nothing
  <2>2. QED
    BY <2>1 DEF Slot
<1>5. Range(<<>>) = {} /\ Ascending(<<>>)
  BY DEF Range, Ascending
<1>6. entry \in Slot /\ entry.state \in {"pending", "stable"} /\ entry.ip = h
      /\ entry.q \in Seq(1 .. MaxPackets) /\ Ascending(entry.q)
      /\ Range(entry.q) = IF found THEN Range(arp_table[i].q) ELSE {}
  <2>1. CASE found
    <3>1. entry = arp_table[i] /\ i \in Matching(h)
      BY <1>3, <2>1
    <3>2. arp_table[i].state \in {"pending", "stable"} /\ arp_table[i].ip = h
      BY <3>1 DEF Matching, In
    <3>3. arp_table[i] \in Slot /\ arp_table[i].q \in Seq(1 .. MaxPackets) /\ Ascending(arp_table[i].q)
      BY <1>3, EntryOf
    <3> HIDE DEF entry, i
    <3>4. QED
      BY <2>1, <3>1, <3>2, <3>3
  <2>2. CASE ~found
    <3>1. entry = new
      BY <2>2
    <3> HIDE DEF entry, new
    <3>2. new.q \in Seq(1 .. MaxPackets)
      BY <1>4
    <3>3. QED
      BY <1>4, <1>5, <2>2, <3>1, <3>2
  <2>3. QED
    BY <2>1, <2>2
<1>7. \A k \in Range(entry.q) : k \in unsent /\ k \in Nat /\ k < n /\ k \in Range(arp_table[i].q)
  BY <1>1, <1>3, <1>6, EntryOf
<1>8. unsent \ Lost(h) = (unsent \ Range(arp_table[i].q)) \cup Range(entry.q)
  <2>1. CASE found
    BY <1>3, <1>6, <2>1, EntryOf DEF Lost
  <2>2. CASE ~found
    BY <1>3, <1>6, <2>2 DEF Lost, Queued
  <2>3. QED
    BY <2>1, <2>2
<1>9. CASE ~send_cached(h) /\ entry.state = "stable"
  <2>1. Send(h) /\ etharp_cached_entry' = i /\ found
    BY <1>4, <1>9 DEF etharp_output, etharp_query
  <2>2. arp_table[i].state = "stable" /\ arp_table[i].ip = h
    BY <1>6, <1>9, <2>1
  <2>3. QED
    BY <1>1, <1>3, <2>1, <2>2, Sent
<1>10. CASE ~send_cached(h) /\ entry.state = "pending"
  <2>1. /\ packets' = n /\ UNCHANGED <<etharp_cached_entry, overtook, heard>>
        /\ \/ /\ unsent' = (unsent \ Lost(h)) \cup {n}
              /\ arp_table' = [arp_table EXCEPT ![i] = more]
           \/ /\ unsent' = unsent \ Lost(h)
              /\ arp_table' = [arp_table EXCEPT ![i] = entry]
    BY <1>10 DEF etharp_output, etharp_query
  <2>2. more.q = Append(entry.q, n) /\ more.q \in Seq(1 .. MaxPackets) /\ Ascending(more.q)
        /\ Range(more.q) = Range(entry.q) \cup {n}
    <3> HIDE DEF entry, n
    <3>1. more.q = Append(entry.q, n)
      BY <1>6 DEF Slot
    <3>2. QED
      BY <1>1, <1>6, <1>7, <3>1, QueueGrows
  <2>3. more \in Slot /\ more.state = entry.state /\ more.ip = entry.ip
    <3> HIDE DEF entry, n
    <3>1. QED
      BY <1>6, <2>2 DEF Slot
  <2>4. heard' \in [Hosts -> Macs] /\ \A k \in Hosts : k # h => heard'[k] = heard[k]
    BY <2>1 DEF EtharpInv, TableTyped
  <2> HIDE DEF i, new, entry, more
  <2>5. n \in Nat /\ n <= packets' /\ \A k \in Range(entry.q) : k <= packets'
    BY <1>1, <1>7, <2>1
  <2>6. CASE unsent' = (unsent \ Lost(h)) \cup {n} /\ arp_table' = [arp_table EXCEPT ![i] = more]
    <3>1. Writes(h, i, more)
      BY <1>1, <1>3, <1>6, <1>7, <1>8, <1>10, <2>1, <2>2, <2>3, <2>4, <2>5, <2>6 DEF Writes
    <3>2. QED
      BY <1>3, <2>3, <3>1, Written
  <2>7. CASE unsent' = unsent \ Lost(h) /\ arp_table' = [arp_table EXCEPT ![i] = entry]
    <3>1. Writes(h, i, entry)
      BY <1>1, <1>3, <1>6, <1>7, <1>8, <1>10, <2>1, <2>4, <2>5, <2>7 DEF Writes
    <3>2. QED
      BY <1>3, <1>6, <3>1, Written
  <2>8. QED
    BY <2>1, <2>6, <2>7
<1>11. QED
  BY <1>2, <1>6, <1>9, <1>10

(* Entries go, and what waits in them is dropped.                          *)
LEMMA Dropped ==
    ASSUME EtharpInv, NEW old \in SUBSET Entries,
           arp_table' \in [Entries -> Slot],
           \A i \in Entries :
              IF i \in old THEN arp_table'[i] = Empty
              ELSE /\ arp_table'[i].state = arp_table[i].state
                   /\ arp_table'[i].ip = arp_table[i].ip
                   /\ arp_table'[i].mac = arp_table[i].mac
                   /\ arp_table'[i].q = arp_table[i].q
                   /\ arp_table[i].state = "empty" => arp_table'[i] = Empty,
           unsent' = unsent \ Queued(old),
           UNCHANGED <<etharp_cached_entry, packets, overtook, heard>>
    PROVE  EtharpInv'
<1> USE DEF EtharpInv
<1>1. Empty.state = "empty" /\ Empty.q = <<>> /\ Range(<<>>) = {} /\ Len(<<>>) = 0
  BY DEF Empty, Range
<1>2. \A i \in old : arp_table'[i].state = "empty" /\ Range(arp_table'[i].q) = {}
                    /\ arp_table'[i].q = <<>> /\ arp_table'[i] = Empty
  BY <1>1
<1>3. \A i \in Entries \ old :
         /\ arp_table'[i].state = arp_table[i].state /\ arp_table'[i].ip = arp_table[i].ip
         /\ arp_table'[i].mac = arp_table[i].mac /\ arp_table'[i].q = arp_table[i].q
         /\ arp_table[i].state = "empty" => arp_table'[i] = Empty
  OBVIOUS
<1>4. TableTyped'
  BY <1>2, <1>3 DEF TableTyped
<1>5. OneTrueEntry'
  BY <1>2, <1>3 DEF OneTrueEntry, In
<1>6. NoneLeaks'
  <2>1. \A i \in Entries \ old, j \in old : Range(arp_table[i].q) \cap Range(arp_table[j].q) = {}
    BY DEF WaitsOnce
  <2>2. UNION {Range(arp_table'[j].q) : j \in Entries}
          = UNION {Range(arp_table[j].q) : j \in Entries \ old}
    BY <1>2, <1>3
  <2>3. UNION {Range(arp_table[j].q) : j \in Entries \ old} = unsent'
    <3> DEFINE held(j) == Range(arp_table[j].q)
    <3>1. unsent = UNION {held(j) : j \in Entries}
      BY DEF NoneLeaks, Queued
    <3>2. unsent' = unsent \ UNION {held(j) : j \in old}
      BY DEF Queued
    <3>3. \A i \in Entries \ old, j \in old : held(i) \cap held(j) = {}
      BY <2>1
    <3> HIDE DEF held
    <3>4. UNION {held(j) : j \in Entries \ old} = unsent'
      BY ONLY <3>1, <3>2, <3>3
    <3>5. QED
      BY <3>4 DEF held
  <2>4. \A j \in Entries : arp_table'[j].q # <<>> => arp_table'[j].state = "pending"
    BY <1>2, <1>3 DEF NoneLeaks
  <2>5. QED
    BY <2>2, <2>3, <2>4 DEF NoneLeaks, Queued
<1>7. InOrder'
  BY <1>1, <1>2, <1>3 DEF InOrder
<1>8. WaitsOnce'
  BY <1>2, <1>3 DEF WaitsOnce
<1>9. QED
  BY <1>4, <1>5, <1>6, <1>7, <1>8

LEMMA EmptySlot == Empty \in Slot /\ Empty.state = "empty" /\ Empty.q = <<>> /\ Range(<<>>) = {}
BY Tables DEF Slot, Empty, Nothing, Range

(* The timer: what is too old goes, the rest is one tick older.            *)
LEMMA Aged ==
    ASSUME EtharpInv, etharp_tmr
    PROVE  EtharpInv'
<1> DEFINE old == {i \in In({"pending", "stable"}) : Expired(i)}
<1>1. /\ arp_table' = [i \in Entries |->
             IF i \in old \/ arp_table[i] = Empty THEN Empty
             ELSE [arp_table[i] EXCEPT !.ctime = @ + 1]]
      /\ unsent' = unsent \ Queued(old)
      /\ UNCHANGED <<etharp_cached_entry, packets, overtook, heard>>
  BY DEF etharp_tmr
<1>2. old \in SUBSET Entries
  BY DEF In
<1>3. ASSUME NEW i \in Entries
      PROVE  /\ arp_table'[i] \in Slot
             /\ IF i \in old THEN arp_table'[i] = Empty
                ELSE /\ arp_table'[i].state = arp_table[i].state
                     /\ arp_table'[i].ip = arp_table[i].ip
                     /\ arp_table'[i].mac = arp_table[i].mac
                     /\ arp_table'[i].q = arp_table[i].q
                     /\ arp_table[i].state = "empty" => arp_table'[i] = Empty
  <2>1. arp_table'[i] = IF i \in old \/ arp_table[i] = Empty THEN Empty
                        ELSE [arp_table[i] EXCEPT !.ctime = @ + 1]
    BY <1>1
  <2>2. arp_table[i] \in Slot /\ arp_table[i].ctime \in 0 .. ARP_MAXAGE - 1
        /\ arp_table[i].state \in {"empty", "pending", "stable"}
    BY EntryOf
  <2>3. CASE i \in old
    BY <2>1, <2>3, EmptySlot
  <2>4. CASE i \notin old /\ arp_table[i] = Empty
    BY <2>1, <2>4, EmptySlot
  <2>5. CASE i \notin old /\ arp_table[i] # Empty
    <3>1. arp_table[i].state \in {"pending", "stable"}
      BY <2>2, <2>5 DEF EtharpInv, TableTyped
    <3>2. ~(arp_table[i].ctime + 1 >= Limit(i))
      BY <2>5, <3>1 DEF In, Expired
    <3>3. arp_table[i].ctime + 1 \in 0 .. ARP_MAXAGE - 1
      <4>1. Limit(i) \in Nat /\ Limit(i) <= ARP_MAXAGE
        BY EtharpAssumption DEF Limit
      <4>2. QED
        BY <2>2, <3>2, <4>1, Tables
    <3>4. arp_table'[i] = [arp_table[i] EXCEPT !.ctime = @ + 1]
      BY <2>1, <2>5
    <3>5. QED
      BY <2>2, <2>5, <3>1, <3>3, <3>4 DEF Slot
  <2>6. QED
    BY <2>3, <2>4, <2>5
<1>4. arp_table' \in [Entries -> Slot]
  BY <1>1, <1>3
<1> HIDE DEF old
<1>5. QED
  BY <1>1, <1>2, <1>3, <1>4, Dropped

(* The interface goes down: whichever entries are its own go.              *)
LEMMA Cleaned ==
    ASSUME EtharpInv, netif_set_down
    PROVE  EtharpInv'
<1>1. /\ arp_table' = [i \in Entries |-> IF i \in OfNetif THEN Empty ELSE arp_table[i]]
      /\ unsent' = unsent \ Queued(OfNetif)
      /\ UNCHANGED <<etharp_cached_entry, packets, overtook, heard>>
  BY DEF netif_set_down, etharp_cleanup_netif
<1>2. OfNetif \in SUBSET Entries
  BY DEF OfNetif
<1>3. arp_table' \in [Entries -> Slot]
  BY <1>1, EmptySlot DEF EtharpInv, TableTyped
<1>4. ASSUME NEW i \in Entries
      PROVE  IF i \in OfNetif THEN arp_table'[i] = Empty
             ELSE /\ arp_table'[i].state = arp_table[i].state
                  /\ arp_table'[i].ip = arp_table[i].ip
                  /\ arp_table'[i].mac = arp_table[i].mac
                  /\ arp_table'[i].q = arp_table[i].q
                  /\ arp_table[i].state = "empty" => arp_table'[i] = Empty
  BY <1>1 DEF EtharpInv, TableTyped
<1>5. QED
  BY <1>1, <1>2, <1>3, <1>4, Dropped

(* A step that leaves the table and what waits as they are.                *)
LEMMA TableStays ==
    ASSUME EtharpInv,
           UNCHANGED <<arp_table, etharp_cached_entry, packets, unsent, overtook, heard>>
    PROVE  EtharpInv'
<1>1. TableTyped' /\ OneTrueEntry' /\ InOrder' /\ WaitsOnce'
  BY DEF EtharpInv, TableTyped, OneTrueEntry, In, InOrder, WaitsOnce
<1>2. Queued(Entries)' = Queued(Entries)
  BY DEF Queued
<1>3. NoneLeaks'
  BY <1>2 DEF EtharpInv, NoneLeaks
<1>4. QED
  BY <1>1, <1>3 DEF EtharpInv

LEMMA EtharpInitInv == EtharpInit => EtharpInv
<1> SUFFICES ASSUME EtharpInit PROVE EtharpInv
  OBVIOUS
<1>1. arp_table \in [Entries -> Slot] /\ \A i \in Entries : arp_table[i] = Empty
  BY EmptySlot DEF EtharpInit
<1>2. heard \in [Hosts -> Macs]
  <2>1. (CHOOSE m \in Macs : TRUE) \in Macs
    BY EtharpAssumption
  <2>2. QED
    BY <2>1 DEF EtharpInit
<1>3. TableTyped
  <2>1. \A i \in Entries : IF arp_table[i].state = "empty" THEN arp_table[i] = Empty
                                                         ELSE arp_table[i].ip \in Hosts
    BY <1>1, EmptySlot
  <2>2. etharp_cached_entry \in Entries /\ packets \in 0 .. MaxPackets
        /\ unsent \subseteq 1 .. packets /\ overtook \in BOOLEAN
    <3>1. etharp_cached_entry = 0 /\ packets = 0 /\ unsent = {} /\ overtook = FALSE
      BY DEF EtharpInit
    <3>2. etharp_cached_entry \in Entries
      BY <3>1, Tables
    <3>3. packets \in 0 .. MaxPackets
      BY <3>1, Tables
    <3>4. unsent \subseteq 1 .. packets
      BY <3>1
    <3>5. overtook \in BOOLEAN
      BY <3>1
    <3>6. QED
      BY <3>2, <3>3, <3>4, <3>5
  <2>3. QED
    BY <1>1, <1>2, <2>1, <2>2 DEF TableTyped
<1>4. Queued(Entries) = {}
  BY <1>1, EmptySlot DEF Queued
<1>5. OneTrueEntry /\ InOrder /\ WaitsOnce
  BY <1>1, EmptySlot DEF EtharpInit, OneTrueEntry, In, InOrder, WaitsOnce
<1>6. NoneLeaks
  BY <1>1, <1>4, EmptySlot DEF EtharpInit, NoneLeaks
<1>7. QED
  BY <1>3, <1>5, <1>6 DEF EtharpInv

LEMMA EtharpStep == EtharpInv /\ [EtharpNext]_etharpVars => EtharpInv'
<1> SUFFICES ASSUME EtharpInv, [EtharpNext]_etharpVars PROVE EtharpInv'
  OBVIOUS
<1>1. CASE EtharpNext
  <2>1. ASSUME NEW h \in Hosts, etharp_output(h) PROVE EtharpInv'
    BY <2>1, Output
  <2>2. ASSUME NEW h \in Hosts, NEW m \in Macs, etharp_arp_input(h, m) PROVE EtharpInv'
    BY <2>2, Heard DEF etharp_arp_input
  <2>3. ASSUME NEW h \in Hosts, NEW m \in Macs, etharp_ip_input(h, m) PROVE EtharpInv'
    BY <2>3, Heard DEF etharp_ip_input
  <2>4. ASSUME netif_set_up PROVE EtharpInv'
    BY <2>4, TableStays DEF netif_set_up
  <2>5. QED
    BY <1>1, <2>1, <2>2, <2>3, <2>4, Aged, Cleaned DEF EtharpNext
<1>2. CASE UNCHANGED etharpVars
  BY <1>2, TableStays DEF etharpVars
<1>3. QED
  BY <1>1, <1>2

(* A host has one entry at most, with the address it was last heard from;  *)
(* every packet accepted waits in one queue until it is sent or dropped,   *)
(* and packets for a host leave in order; for tables and pools of any size.*)
THEOREM ArpSound == EtharpSpec => []EtharpKept
<1>1. EtharpInv => EtharpKept
  BY DEF EtharpInv, EtharpKept
<1>2. QED
  BY <1>1, EtharpInitInv, EtharpStep, PTL DEF EtharpSpec
----------------------------------------------------------------------------
(* The values of the client's struct.                                      *)
Structs == [state : States, tries : 0..(TriesWidth - 1), request_timeout : BOOLEAN,
            t1 : 0..(TickWidth - 1), t2 : 0..(TickWidth - 1),
            offered_ip_addr : Addrs \cup {NO_ADDR}, lease : Times \X Times,
            asked : SUBSET {"discover", "request"}]

(* In these states the client has an address, its own or promised.         *)
Addressed == {"requesting", "checking", "bound", "renewing", "rebinding", "rebooting"}

(* A struct whose wait for an answer ends.                                 *)
Waits(d) == d.state \notin {"off", "bound", "renewing"} => d.request_timeout

DhcpInv ==
    /\ DhcpTypeOK
    /\ DhcpSound
    /\ dhcp.state \in Addressed => dhcp.offered_ip_addr # NO_ADDR

(* The next try of a u8 counter.                                           *)
LEMMA NextTry ==
    ASSUME NEW t \in 0..(TriesWidth - 1)
    PROVE  /\ (t + 1) % TriesWidth \in 0..(TriesWidth - 1)
           /\ t + 1 < TriesWidth => (t + 1) % TriesWidth # 0
<1>1. TriesWidth \in Nat \ {0}
  BY DhcpAssumption
<1>2. (t + 1) % TriesWidth \in 0..(TriesWidth - 1)
  BY <1>1
<1>3. ASSUME t + 1 < TriesWidth PROVE (t + 1) % TriesWidth = t + 1
  BY <1>1, <1>3
<1>4. QED
  BY <1>2, <1>3

LEMMA SetState ==
    ASSUME NEW d \in Structs, NEW s \in States
    PROVE  LET r == dhcp_set_state(d, s)
           IN /\ r \in Structs
              /\ r.state = s /\ r.offered_ip_addr = d.offered_ip_addr
              /\ r.t1 = d.t1 /\ r.t2 = d.t2 /\ r.lease = d.lease
              /\ s # d.state => r.tries = 0
              /\ s = d.state => r = d
<1>1. 0 \in 0..(TriesWidth - 1)
  BY DhcpAssumption
<1>2. QED
  BY <1>1 DEF dhcp_set_state, Structs

LEMMA Created ==
    ASSUME NEW d \in Structs, NEW ok \in BOOLEAN,
           NEW type \in {"discover", "request", "decline", "release"}
    PROVE  LET r == Create(d, type, ok)
           IN /\ r \in Structs
              /\ r.state = d.state /\ r.tries = d.tries
              /\ r.offered_ip_addr = d.offered_ip_addr
<1>1. {type} \ {"release", "decline"} \in SUBSET {"discover", "request"}
  OBVIOUS
<1>2. d.asked \in SUBSET {"discover", "request"}
  BY DEF Structs
<1>3. QED
  BY <1>1, <1>2 DEF Create, Structs

LEMMA Waited ==
    ASSUME NEW d \in Structs, NEW steps \in {"fixed", "multiple"}
    PROVE  LET r == Wait(d, steps)
           IN /\ r \in Structs
              /\ r.state = d.state /\ r.offered_ip_addr = d.offered_ip_addr
              /\ steps = "fixed" \/ d.tries + 1 < TriesWidth => r.request_timeout
<1> DEFINE u == (d.tries + 1) % TriesWidth
<1>1. d.tries \in 0..(TriesWidth - 1)
  BY DEF Structs
<1>2. u \in 0..(TriesWidth - 1) /\ (d.tries + 1 < TriesWidth => u # 0)
  BY <1>1, NextTry
<1>3. Wait(d, steps) = [d EXCEPT !.tries = u, !.request_timeout = (steps = "fixed" \/ u # 0)]
  BY DEF Wait
<1> HIDE DEF u
<1>4. (steps = "fixed" \/ u # 0) \in BOOLEAN
  OBVIOUS
<1>5. QED
  BY <1>2, <1>3, <1>4 DEF Structs

(* A message is made and an answer waited for: what the functions of the   *)
(* code that send one have in common.                                      *)
LEMMA Asks ==
    ASSUME NEW d \in Structs, NEW s \in States, NEW ok \in BOOLEAN,
           NEW type \in {"discover", "request", "decline", "release"},
           NEW steps \in {"fixed", "multiple"}
    PROVE  LET r == Wait(Create(dhcp_set_state(d, s), type, ok), steps)
           IN /\ r \in Structs
              /\ r.state = s /\ r.offered_ip_addr = d.offered_ip_addr
              /\ \/ steps = "fixed"
                 \/ s # d.state
                 \/ d.tries + 1 < TriesWidth
                 => r.request_timeout
<1> DEFINE e == dhcp_set_state(d, s)
           c == Create(e, type, ok)
<1>1. /\ e \in Structs /\ e.state = s /\ e.offered_ip_addr = d.offered_ip_addr
      /\ s # d.state => e.tries = 0
      /\ s = d.state => e = d
  BY SetState
<1> HIDE DEF e
<1>2. c \in Structs /\ c.state = s /\ c.offered_ip_addr = d.offered_ip_addr /\ c.tries = e.tries
  <2>1. e \in Structs
    BY <1>1
  <2>2. LET r == Create(e, type, ok)
        IN /\ r \in Structs
           /\ r.state = e.state /\ r.tries = e.tries
           /\ r.offered_ip_addr = e.offered_ip_addr
    BY <2>1, Created
  <2>3. QED
    BY <1>1, <2>2
<1> HIDE DEF c
<1>3. LET r == Wait(c, steps)
      IN /\ r \in Structs /\ r.state = s /\ r.offered_ip_addr = d.offered_ip_addr
         /\ steps = "fixed" \/ c.tries + 1 < TriesWidth => r.request_timeout
  BY <1>2, Waited
<1>4. s # d.state \/ d.tries + 1 < TriesWidth => c.tries + 1 < TriesWidth
  BY <1>1, <1>2, DhcpAssumption
<1>5. QED
  BY <1>3, <1>4 DEF c, e

LEMMA Discovers ==
    ASSUME NEW d \in Structs, NEW ok \in BOOLEAN
    PROVE  LET r == dhcp_discover(d, ok)
           IN r \in Structs /\ r.state = "selecting" /\ r.request_timeout
<1> DEFINE e == [d EXCEPT !.offered_ip_addr = NO_ADDR]
<1>1. e \in Structs
  BY DEF Structs
<1> HIDE DEF e
<1>2. QED
  BY <1>1, Asks DEF dhcp_discover, e, States

LEMMA Selects ==
    ASSUME NEW d \in Structs, NEW ok \in BOOLEAN
    PROVE  LET r == dhcp_select(d, ok)
           IN /\ r \in Structs /\ r.state = "requesting" /\ r.request_timeout
              /\ r.offered_ip_addr = d.offered_ip_addr
BY Asks DEF dhcp_select, States

LEMMA Checks ==
    ASSUME NEW d \in Structs
    PROVE  LET r == dhcp_check(d)
           IN /\ r \in Structs /\ r.state = "checking" /\ r.request_timeout
              /\ r.offered_ip_addr = d.offered_ip_addr
<1> DEFINE e == dhcp_set_state(d, "checking")
<1>1. e \in Structs /\ e.state = "checking" /\ e.offered_ip_addr = d.offered_ip_addr
  BY SetState DEF States
<1> HIDE DEF e
<1>2. QED
  BY <1>1, Waited DEF dhcp_check, e

LEMMA Declines ==
    ASSUME NEW d \in Structs, NEW ok \in BOOLEAN
    PROVE  LET r == dhcp_decline(d, ok)
           IN r \in Structs /\ r.state = "backing_off" /\ r.request_timeout
BY Asks DEF dhcp_decline, States

LEMMA Renews ==
    ASSUME NEW d \in Structs, NEW ok \in BOOLEAN
    PROVE  LET r == dhcp_renew(d, ok)
           IN r \in Structs /\ r.state = "renewing" /\ r.offered_ip_addr = d.offered_ip_addr
BY Asks DEF dhcp_renew, States

LEMMA Rebinds ==
    ASSUME NEW d \in Structs, NEW ok \in BOOLEAN,
           d.state # "rebinding" \/ d.tries <= REBIND_TRIES
    PROVE  LET r == dhcp_rebind(d, ok)
           IN /\ r \in Structs /\ r.state = "rebinding" /\ r.request_timeout
              /\ r.offered_ip_addr = d.offered_ip_addr
<1>1. d.state # "rebinding" \/ d.tries + 1 < TriesWidth
  BY DhcpAssumption DEF Structs
<1>2. /\ "rebinding" \in States /\ "request" \in {"discover", "request", "decline", "release"}
      /\ "multiple" \in {"fixed", "multiple"}
  BY DEF States
<1>3. LET r == Wait(Create(dhcp_set_state(d, "rebinding"), "request", ok), "multiple")
      IN /\ r \in Structs
         /\ r.state = "rebinding" /\ r.offered_ip_addr = d.offered_ip_addr
         /\ \/ "multiple" = "fixed"
            \/ "rebinding" # d.state
            \/ d.tries + 1 < TriesWidth
            => r.request_timeout
  BY <1>2, Asks
<1>4. QED
  BY <1>1, <1>3 DEF dhcp_rebind

LEMMA Reboots ==
    ASSUME NEW d \in Structs, NEW ok \in BOOLEAN,
           d.state # "rebooting" \/ d.tries < REBOOT_TRIES
    PROVE  LET r == dhcp_reboot(d, ok)
           IN /\ r \in Structs /\ r.state = "rebooting" /\ r.request_timeout
              /\ r.offered_ip_addr = d.offered_ip_addr
<1>1. d.state # "rebooting" \/ d.tries + 1 < TriesWidth
  BY DhcpAssumption DEF Structs
<1>2. /\ "rebooting" \in States /\ "request" \in {"discover", "request", "decline", "release"}
      /\ "multiple" \in {"fixed", "multiple"}
  BY DEF States
<1>3. LET r == Wait(Create(dhcp_set_state(d, "rebooting"), "request", ok), "multiple")
      IN /\ r \in Structs
         /\ r.state = "rebooting" /\ r.offered_ip_addr = d.offered_ip_addr
         /\ \/ "multiple" = "fixed"
            \/ "rebooting" # d.state
            \/ d.tries + 1 < TriesWidth
            => r.request_timeout
  BY <1>2, Asks
<1>4. QED
  BY <1>1, <1>3 DEF dhcp_reboot

LEMMA Releases ==
    ASSUME NEW d \in Structs, NEW ok \in BOOLEAN
    PROVE  dhcp_release(d, ok) \in Structs /\ dhcp_release(d, ok).state = "off"
<1> DEFINE e == dhcp_set_state(d, "off")
           f == [e EXCEPT !.offered_ip_addr = NO_ADDR, !.lease = <<0, 0>>]
           g == Create(f, "release", ok)
<1>1. e \in Structs /\ e.state = "off"
  BY SetState DEF States
<1>2. dhcp_release(d, ok) = Wait(g, "multiple")
  BY DEF dhcp_release
<1> HIDE DEF e
<1>3. <<0, 0>> \in Times \X Times
  BY DhcpAssumption DEF Times
<1>4. f \in Structs /\ f.state = "off"
  BY <1>1, <1>3 DEF Structs
<1> HIDE DEF f
<1>5. g \in Structs /\ g.state = "off"
  BY <1>4, Created
<1> HIDE DEF g
<1>6. QED
  BY <1>2, <1>5, Waited

(* The lease is in use, with its renewal time before its rebinding time.   *)
LEMMA Binds ==
    ASSUME NEW d \in Structs
    PROVE  LET r == Bound(d)
           IN /\ r \in Structs /\ r.state = "bound"
              /\ r.offered_ip_addr = d.offered_ip_addr
<1> DEFINE t1 == Ticks(d.lease[1], d.t1)
           t2 == Ticks(d.lease[2], d.t2)
           u == IF t1 >= t2 /\ t2 > 0 THEN 0 ELSE t1
           e == [d EXCEPT !.t1 = u, !.t2 = t2]
<1>1. /\ d.lease[1] \in Times /\ d.lease[2] \in Times
      /\ d.t1 \in 0..(TickWidth - 1) /\ d.t2 \in 0..(TickWidth - 1)
  BY DEF Structs
<1>2. t1 \in 0..(TickWidth - 1)
  BY <1>1, DhcpAssumption DEF Times, Ticks
<1>3. t2 \in 0..(TickWidth - 1)
  BY <1>1, DhcpAssumption DEF Times, Ticks
<1>4. u \in 0..(TickWidth - 1)
  BY <1>2, DhcpAssumption
<1>5. Bound(d) = dhcp_set_state(e, "bound")
  BY DEF Bound
<1> HIDE DEF t1, t2, u
<1>6. e \in Structs /\ e.offered_ip_addr = d.offered_ip_addr
  BY <1>3, <1>4 DEF Structs
<1> HIDE DEF e
<1>7. QED
  BY <1>5, <1>6, SetState DEF States

(* The invariant, for a step that leaves the interface as it is.           *)
LEMMA SameInterface ==
    ASSUME DhcpInv, Kept, dhcp' \in Structs, serverless' \in BOOLEAN, silent' \in BOOLEAN,
           netif_up /\ ~abandoned => /\ dhcp'.state \in {"bound", "renewing", "rebinding"}
                                     /\ dhcp'.offered_ip_addr = dhcp.offered_ip_addr,
           Waits(dhcp') \/ serverless',
           dhcp'.state \in Addressed => dhcp'.offered_ip_addr # NO_ADDR
    PROVE  DhcpInv'
BY DEF DhcpInv, DhcpTypeOK, Structs, Waits, DhcpSound, UpMeansLease, NeverStuck, Kept

(* The invariant, for a step that takes the interface down.                *)
LEMMA TakenDown ==
    ASSUME DhcpInv, Down, netif_addr' \in Addrs \cup {NO_ADDR}, dhcp' \in Structs,
           serverless' \in BOOLEAN, silent' \in BOOLEAN, Waits(dhcp') \/ serverless',
           dhcp'.state \in Addressed => dhcp'.offered_ip_addr # NO_ADDR
    PROVE  DhcpInv'
BY DEF DhcpInv, DhcpTypeOK, Structs, Waits, DhcpSound, UpMeansLease, NeverStuck, Down

(* The invariant, for a step that binds the address in hand.               *)
LEMMA PutToUse ==
    ASSUME DhcpInv, NEW d \in Structs, dhcp_bind(d), d.offered_ip_addr # NO_ADDR,
           serverless' \in BOOLEAN, silent' \in BOOLEAN
    PROVE  DhcpInv'
<1>1. dhcp' \in Structs /\ dhcp'.state = "bound" /\ dhcp'.offered_ip_addr = d.offered_ip_addr
  BY Binds DEF dhcp_bind
<1>2. netif_up' = TRUE /\ abandoned' = FALSE /\ netif_addr' = d.offered_ip_addr /\ d.offered_ip_addr \in Addrs \cup {NO_ADDR}
  BY DEF dhcp_bind, Structs
<1>3. QED
  BY <1>1, <1>2 DEF DhcpInv, DhcpTypeOK, Structs, DhcpSound, UpMeansLease, NeverStuck

LEMMA Typed ==
    ASSUME DhcpInv
    PROVE  /\ dhcp \in Structs /\ {netif_up, abandoned, serverless} \subseteq BOOLEAN
           /\ silent \in BOOLEAN
           /\ netif_addr \in Addrs \cup {NO_ADDR} /\ NO_ADDR \in Addrs \cup {NO_ADDR}
BY DEF DhcpInv, DhcpTypeOK, Structs

LEMMA ClearedTyped == Cleared \in Structs
<1>1. 0 \in 0..(TriesWidth - 1) /\ 0 \in 0..(TickWidth - 1) /\ <<0, 0>> \in Times \X Times
  BY DhcpAssumption DEF Times
<1>2. QED
  BY <1>1 DEF Cleared, Structs, States

(* The invariant, for a step that leaves the interface to itself.          *)
LEMMA LeftToItself ==
    ASSUME DhcpInv, Abandon, dhcp' \in Structs, serverless' \in BOOLEAN, silent' \in BOOLEAN,
           Waits(dhcp') \/ serverless', dhcp'.state \notin Addressed
    PROVE  DhcpInv'
BY DEF DhcpInv, DhcpTypeOK, Structs, Waits, DhcpSound, UpMeansLease, NeverStuck, Abandon

LEMMA Starts ==
    ASSUME DhcpInv, NEW ok \in BOOLEAN, dhcp_start(ok)
    PROVE  DhcpInv'
<1>1. Abandon /\ serverless' = FALSE /\ silent' = silent
  BY DEF dhcp_start
<1>2. CASE ok
  <2>1. dhcp' \in Structs /\ dhcp'.state = "selecting" /\ dhcp'.request_timeout
    BY <1>2, ClearedTyped, Discovers DEF dhcp_start
  <2>2. QED
    BY <1>1, <2>1, Typed, LeftToItself DEF Waits, Addressed
<1>3. CASE ~ok
  <2>1. dhcp' = Cleared /\ dhcp'.state = "off"
    BY <1>3 DEF dhcp_start, Cleared
  <2>2. QED
    BY <1>1, <2>1, Typed, ClearedTyped, LeftToItself DEF Waits, Addressed
<1>4. QED
  BY <1>2, <1>3

LEMMA Stops ==
    ASSUME DhcpInv, dhcp_stop
    PROVE  DhcpInv'
<1> DEFINE e == [dhcp EXCEPT !.asked = {}]
<1>1. e \in Structs
  BY Typed DEF Structs
<1>2. dhcp' = dhcp_set_state(e, "off") /\ Abandon /\ serverless' = serverless /\ silent' = silent
  BY DEF dhcp_stop
<1> HIDE DEF e
<1>3. dhcp' \in Structs /\ dhcp'.state = "off"
  BY <1>1, <1>2, SetState DEF States
<1>4. QED
  BY <1>2, <1>3, Typed, LeftToItself DEF Waits, Addressed

LEMMA Ends ==
    ASSUME DhcpInv, NEW ok \in BOOLEAN, End(ok)
    PROVE  DhcpInv'
<1>1. dhcp' \in Structs /\ dhcp'.state = "off"
  BY Typed, Releases DEF End
<1>2. Unconfigured /\ serverless' = serverless /\ silent' = silent
  BY DEF End
<1>3. QED
  BY <1>1, <1>2, Typed, TakenDown DEF Unconfigured, Down, Waits, Addressed

LEMMA ChangesNetwork ==
    ASSUME DhcpInv, NEW ok \in BOOLEAN, dhcp_network_changed(ok)
    PROVE  DhcpInv'
<1> DEFINE d == [dhcp EXCEPT !.tries = 0]
<1>1. d \in Structs /\ d.state = dhcp.state /\ d.tries = 0
      /\ d.offered_ip_addr = dhcp.offered_ip_addr
  BY Typed, DhcpAssumption DEF Structs
<1>2. serverless' = FALSE /\ silent' = silent
  BY DEF dhcp_network_changed
<1>3. CASE dhcp.state \in {"rebinding", "renewing", "bound", "rebooting"}
  <2>1. dhcp' = dhcp_reboot(d, ok) /\ Down /\ netif_addr' = netif_addr
    BY <1>3 DEF dhcp_network_changed
  <2> HIDE DEF d
  <2>2. d.tries < REBOOT_TRIES
    BY <1>1, DhcpAssumption
  <2>3. dhcp' \in Structs /\ dhcp'.state = "rebooting" /\ dhcp'.request_timeout
        /\ dhcp'.offered_ip_addr = dhcp.offered_ip_addr
    BY <1>1, <2>1, <2>2, Reboots
  <2>4. dhcp'.offered_ip_addr # NO_ADDR
    BY <1>3, <2>3 DEF DhcpInv, Addressed
  <2>5. QED
    BY <1>2, <2>1, <2>3, <2>4, Typed, TakenDown DEF Waits
<1>4. CASE dhcp.state \notin {"rebinding", "renewing", "bound", "rebooting"}
  <2>1. dhcp' = dhcp_discover(d, ok) /\ Kept
    BY <1>4 DEF dhcp_network_changed
  <2> HIDE DEF d
  <2>2. dhcp' \in Structs /\ dhcp'.state = "selecting" /\ dhcp'.request_timeout
    BY <1>1, <2>1, Discovers
  <2>3. ~netif_up \/ abandoned
    BY <1>4 DEF DhcpInv, DhcpSound, UpMeansLease
  <2>4. QED
    BY <1>2, <2>1, <2>2, <2>3, Typed, SameInterface DEF Waits, Addressed
<1>5. QED
  BY <1>3, <1>4

(* The wait is over: tried again or given up, but never left at that.      *)
LEMMA TimesOut ==
    ASSUME DhcpInv, NEW ok \in BOOLEAN, dhcp_fine_tmr(ok)
    PROVE  DhcpInv'
<1> DEFINE d == [dhcp EXCEPT !.request_timeout = FALSE]
<1>1. d \in Structs /\ d.state = dhcp.state /\ d.tries = dhcp.tries
      /\ d.offered_ip_addr = dhcp.offered_ip_addr
  BY Typed DEF Structs
<1>2. serverless' = serverless /\ silent' = silent /\ serverless \in BOOLEAN /\ silent \in BOOLEAN
  BY Typed DEF dhcp_fine_tmr
<1>3. netif_up /\ ~abandoned => /\ dhcp.state \in {"bound", "renewing", "rebinding"}
                                /\ netif_addr = dhcp.offered_ip_addr
  BY DEF DhcpInv, DhcpSound, UpMeansLease
<1>4. dhcp.state \in Addressed => dhcp.offered_ip_addr # NO_ADDR
  BY DEF DhcpInv
<1> DEFINE GiveUp == dhcp' = dhcp_discover(dhcp_release(d, ok), ok) /\ Unconfigured
<1>5. \/ d.state \in {"backing_off", "selecting"} /\ dhcp' = dhcp_discover(d, ok) /\ Kept
      \/ d.state = "requesting" /\ dhcp' = dhcp_select(d, ok) /\ Kept
      \/ GiveUp
      \/ d.state = "checking" /\ dhcp' = dhcp_check(d) /\ Kept
      \/ d.state = "checking" /\ dhcp_bind(d)
      \/ d.state = "renewing" /\ dhcp' = dhcp_renew(d, ok) /\ Kept
      \/ d.state = "rebinding" /\ d.tries <= REBIND_TRIES /\ dhcp' = dhcp_rebind(d, ok) /\ Kept
      \/ d.state = "rebooting" /\ d.tries < REBOOT_TRIES /\ dhcp' = dhcp_reboot(d, ok) /\ Kept
      \/ d.state = "rebooting" /\ dhcp' = dhcp_discover(d, ok) /\ Kept
      \/ d.state \in {"off", "bound"} /\ dhcp' = d /\ Kept
  BY DEF dhcp_fine_tmr
<1> HIDE DEF d
<1>6. CASE d.state \in {"backing_off", "selecting", "rebooting"} /\ dhcp' = dhcp_discover(d, ok) /\ Kept
  <2>1. dhcp' \in Structs /\ dhcp'.state = "selecting" /\ dhcp'.request_timeout
    BY <1>1, <1>6, Discovers
  <2>2. QED
    BY <1>1, <1>2, <1>3, <1>6, <2>1, SameInterface DEF Waits, Addressed
<1>7. CASE d.state = "requesting" /\ dhcp' = dhcp_select(d, ok) /\ Kept
  <2>1. dhcp' \in Structs /\ dhcp'.state = "requesting" /\ dhcp'.request_timeout
        /\ dhcp'.offered_ip_addr = dhcp.offered_ip_addr
    BY <1>1, <1>7, Selects
  <2>2. QED
    BY <1>1, <1>2, <1>3, <1>4, <1>7, <2>1, SameInterface DEF Waits, Addressed
<1>8. CASE GiveUp
  <2>1. dhcp' \in Structs /\ dhcp'.state = "selecting" /\ dhcp'.request_timeout
    BY <1>1, <1>8, Discovers, Releases
  <2>2. QED
    BY <1>2, <1>8, <2>1, Typed, TakenDown DEF Waits, Addressed, Unconfigured, Down
<1>9. CASE d.state = "checking" /\ dhcp' = dhcp_check(d) /\ Kept
  <2>1. dhcp' \in Structs /\ dhcp'.state = "checking" /\ dhcp'.request_timeout
        /\ dhcp'.offered_ip_addr = dhcp.offered_ip_addr
    BY <1>1, <1>9, Checks
  <2>2. QED
    BY <1>1, <1>2, <1>3, <1>4, <1>9, <2>1, SameInterface DEF Waits, Addressed
<1>10. CASE d.state = "checking" /\ dhcp_bind(d)
  <2>1. d.offered_ip_addr # NO_ADDR
    BY <1>1, <1>4, <1>10 DEF Addressed
  <2>2. QED
    BY <1>1, <1>2, <1>10, <2>1, PutToUse
<1>11. CASE d.state = "renewing" /\ dhcp' = dhcp_renew(d, ok) /\ Kept
  <2>1. dhcp' \in Structs /\ dhcp'.state = "renewing" /\ dhcp'.offered_ip_addr = dhcp.offered_ip_addr
    BY <1>1, <1>11, Renews
  <2>2. QED
    BY <1>1, <1>2, <1>3, <1>4, <1>11, <2>1, SameInterface DEF Waits, Addressed
<1>12. CASE d.state = "rebinding" /\ d.tries <= REBIND_TRIES /\ dhcp' = dhcp_rebind(d, ok) /\ Kept
  <2>1. dhcp' \in Structs /\ dhcp'.state = "rebinding" /\ dhcp'.request_timeout
        /\ dhcp'.offered_ip_addr = dhcp.offered_ip_addr
    BY <1>1, <1>12, Rebinds
  <2>2. QED
    BY <1>1, <1>2, <1>3, <1>4, <1>12, <2>1, SameInterface DEF Waits, Addressed
<1>13. CASE d.state = "rebooting" /\ d.tries < REBOOT_TRIES /\ dhcp' = dhcp_reboot(d, ok) /\ Kept
  <2>1. dhcp' \in Structs /\ dhcp'.state = "rebooting" /\ dhcp'.request_timeout
        /\ dhcp'.offered_ip_addr = dhcp.offered_ip_addr
    BY <1>1, <1>13, Reboots
  <2>2. QED
    BY <1>1, <1>2, <1>3, <1>4, <1>13, <2>1, SameInterface DEF Waits, Addressed
<1>14. CASE d.state \in {"off", "bound"} /\ dhcp' = d /\ Kept
  BY <1>1, <1>2, <1>3, <1>4, <1>14, SameInterface DEF Waits, Addressed
<1>15. QED
  BY <1>5, <1>6, <1>7, <1>8, <1>9, <1>10, <1>11, <1>12, <1>13, <1>14

(* One tick less of a u16 counter.                                         *)
LEMMA OneLess ==
    ASSUME NEW t \in 0..(TickWidth - 1)
    PROVE  Less(t) \in 0..(TickWidth - 1)
BY DhcpAssumption DEF Less

(* Renewing and rebinding begin only from a lease in use or asked for.     *)
LEMMA CountsDown ==
    ASSUME DhcpInv, NEW ok \in BOOLEAN, dhcp_coarse_tmr(ok)
    PROVE  DhcpInv'
<1> DEFINE d2 == [dhcp EXCEPT !.t2 = Less(@)]
           d1 == [d2 EXCEPT !.t1 = Less(@)]
           inUse == dhcp.state \in {"requesting", "bound", "renewing"}
<1>1. Less(dhcp.t1) \in 0..(TickWidth - 1) /\ Less(dhcp.t2) \in 0..(TickWidth - 1)
  BY Typed, OneLess DEF Structs
<1>2. d2 \in Structs /\ d2.state = dhcp.state /\ d2.offered_ip_addr = dhcp.offered_ip_addr
      /\ d2.request_timeout = dhcp.request_timeout /\ d2.t1 = dhcp.t1
  BY <1>1, Typed DEF Structs
<1>3. /\ dhcp' = IF dhcp.t2 = 1 THEN IF inUse THEN dhcp_rebind(d2, ok) ELSE d2
                 ELSE IF dhcp.t1 = 1 /\ inUse THEN dhcp_renew(d1, ok)
                 ELSE d1
      /\ Kept /\ serverless' = serverless /\ silent' = silent
  BY DEF dhcp_coarse_tmr
<1> HIDE DEF d2
<1>4. d1 \in Structs /\ d1.state = dhcp.state /\ d1.offered_ip_addr = dhcp.offered_ip_addr
      /\ d1.request_timeout = dhcp.request_timeout
  BY <1>1, <1>2 DEF Structs
<1> HIDE DEF d1
<1>5. netif_up /\ ~abandoned => dhcp.state \in {"bound", "renewing", "rebinding"}
  BY DEF DhcpInv, DhcpSound, UpMeansLease
<1>6. dhcp.state \in Addressed => dhcp.offered_ip_addr # NO_ADDR
  BY DEF DhcpInv
<1>7. Waits(dhcp) \/ serverless
  BY DEF DhcpInv, DhcpSound, NeverStuck, Waits
<1>8. CASE inUse /\ dhcp' = dhcp_rebind(d2, ok)
  <2>1. dhcp' \in Structs /\ dhcp'.state = "rebinding" /\ dhcp'.request_timeout
        /\ dhcp'.offered_ip_addr = dhcp.offered_ip_addr
    BY <1>2, <1>8, Rebinds
  <2>2. QED
    BY <1>3, <1>5, <1>6, <1>8, <2>1, Typed, SameInterface DEF Waits, Addressed
<1>9. CASE inUse /\ dhcp' = dhcp_renew(d1, ok)
  <2>1. dhcp' \in Structs /\ dhcp'.state = "renewing"
        /\ dhcp'.offered_ip_addr = dhcp.offered_ip_addr
    BY <1>4, <1>9, Renews
  <2>2. QED
    BY <1>3, <1>5, <1>6, <1>9, <2>1, Typed, SameInterface DEF Waits, Addressed
<1>10. CASE dhcp' \in {d1, d2}
  BY <1>2, <1>3, <1>4, <1>5, <1>6, <1>7, <1>10, Typed, SameInterface DEF Waits
<1>11. QED
  BY <1>3, <1>8, <1>9, <1>10

LEMMA Offered ==
    ASSUME DhcpInv, NEW ok \in BOOLEAN, Offer(ok), silent' = silent
    PROVE  DhcpInv'
<1>1. (~netif_up \/ abandoned) /\ Kept
  BY DEF DhcpInv, DhcpSound, UpMeansLease, Offer
<1>2. ASSUME NEW a \in Addrs, serverless' = serverless,
             dhcp' = dhcp_select([dhcp EXCEPT !.request_timeout = FALSE, !.offered_ip_addr = a], ok)
      PROVE  DhcpInv'
  <2> DEFINE e == [dhcp EXCEPT !.request_timeout = FALSE, !.offered_ip_addr = a]
  <2>1. e \in Structs /\ e.offered_ip_addr = a /\ a # NO_ADDR
    BY Typed, DhcpAssumption DEF Structs
  <2> HIDE DEF e
  <2>2. dhcp' \in Structs /\ dhcp'.state = "requesting" /\ dhcp'.request_timeout
        /\ dhcp'.offered_ip_addr # NO_ADDR
    BY <1>2, <2>1, Selects DEF e
  <2>3. QED
    BY <1>1, <1>2, <2>2, Typed, SameInterface DEF Waits
<1>3. ASSUME dhcp' = [dhcp EXCEPT !.request_timeout = FALSE], serverless' = TRUE
      PROVE  DhcpInv'
  <2>1. dhcp' \in Structs /\ dhcp'.state = "selecting"
    BY <1>3, Typed DEF Structs, Offer
  <2>2. QED
    BY <1>1, <1>3, <2>1, Typed, SameInterface DEF Addressed
<1>4. QED
  BY <1>2, <1>3 DEF Offer

LEMMA Acknowledged ==
    ASSUME DhcpInv, Ack, silent' = silent
    PROVE  DhcpInv'
<1>1. serverless' = serverless
  BY DEF Ack
<1>2. ASSUME NEW l \in Leases, NEW a \in Addrs, dhcp.state = "requesting", Kept,
             dhcp' = dhcp_check([dhcp EXCEPT !.lease = l, !.offered_ip_addr = a])
      PROVE  DhcpInv'
  <2> DEFINE e == [dhcp EXCEPT !.lease = l, !.offered_ip_addr = a]
  <2>1. l \in Times \X Times
    BY DhcpAssumption DEF Times
  <2>2. e \in Structs /\ e.offered_ip_addr = a /\ a # NO_ADDR
    BY <2>1, Typed, DhcpAssumption DEF Structs
  <2> HIDE DEF e
  <2>3. dhcp' \in Structs /\ dhcp'.state = "checking" /\ dhcp'.request_timeout
        /\ dhcp'.offered_ip_addr # NO_ADDR
    BY <1>2, <2>2, Checks DEF e
  <2>4. ~netif_up \/ abandoned
    BY <1>2 DEF DhcpInv, DhcpSound, UpMeansLease
  <2>5. QED
    BY <1>1, <1>2, <2>3, <2>4, Typed, SameInterface DEF Waits
<1>3. ASSUME dhcp.state \in {"rebooting", "rebinding", "renewing"}, dhcp_bind(dhcp)
      PROVE  DhcpInv'
  <2>1. dhcp.offered_ip_addr # NO_ADDR
    BY <1>3 DEF DhcpInv, Addressed
  <2>2. QED
    BY <1>1, <1>3, <2>1, Typed, PutToUse
<1>4. QED
  BY <1>2, <1>3 DEF Ack

LEMMA Refused ==
    ASSUME DhcpInv, NEW ok \in BOOLEAN, Nak(ok), silent' = silent
    PROVE  DhcpInv'
<1> DEFINE e == dhcp_set_state(dhcp, "backing_off")
<1>1. e \in Structs
  BY Typed, SetState DEF States
<1>2. dhcp' = dhcp_discover(e, ok) /\ Unconfigured /\ serverless' = serverless
  BY DEF Nak
<1> HIDE DEF e
<1>3. dhcp' \in Structs /\ dhcp'.state = "selecting" /\ dhcp'.request_timeout
  BY <1>1, <1>2, Discovers
<1>4. QED
  BY <1>2, <1>3, Typed, TakenDown DEF Waits, Addressed, Unconfigured, Down

LEMMA AddressTaken ==
    ASSUME DhcpInv, NEW ok \in BOOLEAN, dhcp_arp_reply(ok)
    PROVE  DhcpInv'
<1>1. dhcp' \in Structs /\ dhcp'.state = "backing_off" /\ dhcp'.request_timeout
  BY Typed, Declines DEF dhcp_arp_reply
<1>2. (~netif_up \/ abandoned) /\ Kept /\ serverless' = serverless /\ silent' = silent
  BY DEF dhcp_arp_reply, DhcpInv, DhcpSound, UpMeansLease
<1>3. QED
  BY <1>1, <1>2, Typed, SameInterface DEF Waits, Addressed

LEMMA DhcpInitInv == DhcpInit => DhcpInv
<1> SUFFICES ASSUME DhcpInit PROVE DhcpInv
  OBVIOUS
<1>1. dhcp \in Structs
  BY ClearedTyped DEF DhcpInit
<1>2. dhcp.state = "off"
  BY DEF DhcpInit, Cleared
<1>3. QED
  BY <1>1, <1>2
  DEF DhcpInit, DhcpInv, DhcpTypeOK, DhcpSound, UpMeansLease, NeverStuck, Structs, Addressed

LEMMA DhcpStep == DhcpInv /\ [DhcpNext]_dhcpVars => DhcpInv'
<1> SUFFICES ASSUME DhcpInv, [DhcpNext]_dhcpVars PROVE DhcpInv'
  OBVIOUS
<1>1. ASSUME Silence PROVE DhcpInv'
  BY <1>1 DEF Silence, Kept, DhcpInv, DhcpTypeOK, DhcpSound, UpMeansLease, NeverStuck
<1>2. ASSUME NEW ok \in BOOLEAN, dhcp_recv(ok) PROVE DhcpInv'
  BY <1>2, Offered, Acknowledged, Refused DEF dhcp_recv
<1>3. ASSUME UNCHANGED dhcpVars PROVE DhcpInv'
  BY <1>3 DEF dhcpVars, DhcpInv, DhcpTypeOK, DhcpSound, UpMeansLease, NeverStuck
<1>4. QED
  BY <1>1, <1>2, <1>3, Starts, Stops, Ends, ChangesNetwork, TimesOut, CountsDown, AddressTaken
  DEF DhcpNext

(* The interface is up only with an address, that of a lease in use unless *)
(* the client that has it was stopped or started anew, and a client is     *)
(* never left waiting without a timer but by an offer without a server's   *)
(* identity; for any addresses, leases and numbers of tries.               *)
THEOREM ClientSound == DhcpSpec => []DhcpSound
<1>1. DhcpInv => DhcpSound
  BY DEF DhcpInv
<1>2. QED
  BY <1>1, DhcpInitInv, DhcpStep, PTL DEF DhcpSpec
----------------------------------------------------------------------------
(* The entries of the table: those that wait for an answer, those that     *)
(* have one.                                                               *)
Awaiting == [state : {"asking"}, name : Names, q : Queries, seqno : 0..(SeqWidth - 1),
            numdns : 0..(DNS_MAX_SERVERS - 1), tmr : 1..DNS_MAX_RETRIES,
            retries : 0..(DNS_MAX_RETRIES - 1)]
Finished == [state : {"done"}, seqno : 0..(SeqWidth - 1), ttl : -1..MaxTtl]
Resting == {Unused} \cup Finished
Outcomes == {"none", "pending", "address", "failed"}

(* Table t and what the callbacks of the first n queries were told, `out`, *)
(* fit each other, but for the queries `over` that were overtaken.         *)
Fits(t, out, n, over) ==
    /\ t \in [Slots -> Resting \cup Awaiting]
    /\ out \in [Queries -> Outcomes]
    /\ \A i \in Slots : t[i] \in Awaiting =>
         t[i].q <= n /\ out[t[i].q] = "pending" /\ t[i].q \notin over
    /\ \A i, j \in Slots : t[i] \in Awaiting /\ t[j] \in Awaiting /\ t[i].q = t[j].q => i = j
    /\ \A q \in Queries : out[q] = "pending" =>
         q \in over \/ \E i \in Slots : t[i] \in Awaiting /\ t[i].q = q
    /\ \A q \in over : q \in Queries /\ q <= n /\ out[q] = "pending"
    /\ \A q \in Queries : q > n => out[q] = "none"

(* Every entry was made before the next sequence number, which has not     *)
(* come round yet.                                                         *)
Earlier(t, s) == \A i \in Slots : t[i] # Unused => t[i].seqno < s

DnsInv ==
    /\ Fits(dns_table, outcome, dns_asked, overtaken)
    /\ dns_seqno \in 0..(SeqWidth - 1) /\ scan \in 0..DNS_TABLE_SIZE
    /\ dns_asked \in 0..MaxQueries
    /\ sent \subseteq Slots \X Names
    /\ refused \in BOOLEAN /\ wrapped \in BOOLEAN
    /\ ~wrapped => Earlier(dns_table, dns_seqno) /\ ~refused

(* An entry is of one kind.                                                *)
LEMMA Kinds ==
    /\ Unused.state = "unused"
    /\ \A e \in Finished : e.state = "done"
    /\ \A e \in Awaiting : e.state = "asking"
    /\ \A e \in Resting : e \notin Awaiting
BY DEF Unused, Finished, Awaiting, Resting

(* The callback of an entry that waited is told, and the entry put to rest. *)
LEMMA Answered ==
    ASSUME NEW t, NEW out, NEW n \in Nat, NEW over, NEW i \in Slots, Fits(t, out, n, over),
           t[i] \in Awaiting, NEW x \in Resting, NEW what \in {"address", "failed"}
    PROVE  Fits([t EXCEPT ![i] = x], [out EXCEPT ![t[i].q] = what], n, over)
<1> DEFINE p == t[i].q
           u == [t EXCEPT ![i] = x]
           o == [out EXCEPT ![p] = what]
<1>1. p \in Queries /\ out[p] = "pending" /\ p <= n /\ p \notin over
  BY DEF Fits, Awaiting
<1>2. u \in [Slots -> Resting \cup Awaiting] /\ o \in [Queries -> Outcomes]
  BY <1>1 DEF Fits, Outcomes
<1>3. x \notin Awaiting
  BY Kinds
<1>4. /\ u[i] = x
      /\ \A k \in Slots : k # i => u[k] = t[k]
      /\ o[p] = what
      /\ \A q \in Queries : q # p => o[q] = out[q]
  BY <1>1 DEF Fits
<1>5. \A k \in Slots : u[k] \in Awaiting => k # i /\ u[k] = t[k] /\ t[k].q # p
  BY <1>3, <1>4 DEF Fits
<1> HIDE DEF u, o
<1>6. \A k \in Slots : u[k] \in Awaiting => u[k].q \in Queries
  BY DEF Awaiting
<1>7. \A k \in Slots : u[k] \in Awaiting =>
        u[k].q <= n /\ o[u[k].q] = "pending" /\ u[k].q \notin over
  BY <1>4, <1>5, <1>6 DEF Fits
<1>8. \A k, j \in Slots : u[k] \in Awaiting /\ u[j] \in Awaiting /\ u[k].q = u[j].q => k = j
  BY <1>5 DEF Fits
<1>9. ASSUME NEW q \in Queries, o[q] = "pending"
      PROVE  q \in over \/ \E k \in Slots : u[k] \in Awaiting /\ u[k].q = q
  <2>1. q # p /\ out[q] = "pending"
    BY <1>4, <1>9
  <2>2. q \in over \/ \E k \in Slots : t[k] \in Awaiting /\ t[k].q = q
    BY <2>1 DEF Fits
  <2>3. \A k \in Slots : t[k] \in Awaiting /\ t[k].q = q => k # i /\ u[k] = t[k]
    BY <1>4, <2>1
  <2>4. QED
    BY <2>2, <2>3
<1>10. \A q \in over : q \in Queries /\ q <= n /\ o[q] = "pending"
  BY <1>1, <1>4 DEF Fits
<1>11. \A q \in Queries : q > n => o[q] = "none"
  BY <1>1, <1>4 DEF Fits, Queries
<1>12. QED
  BY <1>2, <1>7, <1>8, <1>9, <1>10, <1>11 DEF Fits, u, o

(* The next query gets an entry that was at rest.                          *)
LEMMA Entered ==
    ASSUME NEW t, NEW out, NEW n \in Nat, NEW over, NEW j \in Slots, Fits(t, out, n, over),
           t[j] \in Resting, n + 1 \in Queries, NEW e \in Awaiting, e.q = n + 1
    PROVE  Fits([t EXCEPT ![j] = e], [out EXCEPT ![n + 1] = "pending"], n + 1, over)
<1> DEFINE p == n + 1
           u == [t EXCEPT ![j] = e]
           o == [out EXCEPT ![p] = "pending"]
<1>1. u \in [Slots -> Resting \cup Awaiting] /\ o \in [Queries -> Outcomes]
  BY DEF Fits, Outcomes
<1>2. /\ u[j] = e
      /\ \A k \in Slots : k # j => u[k] = t[k]
      /\ o[p] = "pending"
      /\ \A q \in Queries : q # p => o[q] = out[q]
  BY DEF Fits
<1>3. t[j] \notin Awaiting
  BY Kinds
<1> HIDE DEF u, o
<1>4. p \notin over /\ p \in Queries
  BY DEF Fits, Queries
<1>5. \A k \in Slots : k # j /\ u[k] \in Awaiting =>
        u[k] = t[k] /\ u[k].q \in Queries /\ u[k].q # p /\ u[k].q <= n
  BY <1>2 DEF Fits, Awaiting, Queries
<1>6. \A k \in Slots : u[k] \in Awaiting =>
        u[k].q <= n + 1 /\ o[u[k].q] = "pending" /\ u[k].q \notin over
  <2>1. SUFFICES ASSUME NEW k \in Slots, u[k] \in Awaiting
                 PROVE  u[k].q <= n + 1 /\ o[u[k].q] = "pending" /\ u[k].q \notin over
    OBVIOUS
  <2>2. CASE k = j
    BY <1>2, <1>4, <2>2
  <2>3. CASE k # j
    <3>1. u[k] = t[k] /\ u[k].q \in Queries /\ u[k].q # p /\ u[k].q <= n
      BY <1>5, <2>1, <2>3
    <3>2. out[t[k].q] = "pending" /\ t[k].q \notin over
      BY <2>1, <3>1 DEF Fits
    <3>3. u[k].q <= n + 1
      BY <3>1 DEF Queries
    <3>4. QED
      BY <1>2, <3>1, <3>2, <3>3
  <2>4. QED
    BY <2>2, <2>3
<1>7. \A k, m \in Slots : u[k] \in Awaiting /\ u[m] \in Awaiting /\ u[k].q = u[m].q => k = m
  BY <1>2, <1>5 DEF Fits
<1>8. ASSUME NEW q \in Queries, o[q] = "pending"
      PROVE  q \in over \/ \E k \in Slots : u[k] \in Awaiting /\ u[k].q = q
  <2>1. CASE q = p
    BY <1>2, <2>1
  <2>2. CASE q # p
    <3>1. q \in over \/ \E k \in Slots : t[k] \in Awaiting /\ t[k].q = q
      BY <1>2, <1>8, <2>2 DEF Fits
    <3>2. \A k \in Slots : t[k] \in Awaiting => k # j /\ u[k] = t[k]
      BY <1>2, <1>3
    <3>3. QED
      BY <3>1, <3>2
  <2>3. QED
    BY <2>1, <2>2
<1>9. \A q \in over : q \in Queries /\ q <= n + 1 /\ o[q] = "pending"
  <2>1. \A q \in over : q \in Queries /\ q <= n /\ out[q] = "pending" /\ q # p
    BY <1>4 DEF Fits
  <2>2. QED
    BY <1>2, <2>1 DEF Queries
<1>10. \A q \in Queries : q > n + 1 => o[q] = "none"
  BY <1>2 DEF Fits, Queries
<1>11. QED
  BY <1>1, <1>6, <1>7, <1>8, <1>9, <1>10 DEF Fits, u, o

(* An entry changes and stays what it is, waiting with the same query or   *)
(* at rest.                                                                *)
LEMMA Remains ==
    ASSUME NEW t, NEW out, NEW n \in Nat, NEW over, NEW i \in Slots, Fits(t, out, n, over),
           NEW x,
           \/ t[i] \in Resting /\ x \in Resting
           \/ t[i] \in Awaiting /\ x \in Awaiting /\ x.q = t[i].q
    PROVE  Fits([t EXCEPT ![i] = x], out, n, over)
<1> DEFINE u == [t EXCEPT ![i] = x]
<1>1. u \in [Slots -> Resting \cup Awaiting]
  BY DEF Fits
<1>2. u[i] = x /\ \A k \in Slots : k # i => u[k] = t[k]
  BY DEF Fits
<1> HIDE DEF u
<1>3. \A k \in Slots : (u[k] \in Awaiting <=> t[k] \in Awaiting)
                       /\ (t[k] \in Awaiting => u[k].q = t[k].q)
  BY <1>2, Kinds
<1>4. /\ \A k \in Slots : u[k] \in Awaiting =>
           u[k].q <= n /\ out[u[k].q] = "pending" /\ u[k].q \notin over
      /\ \A k, j \in Slots : u[k] \in Awaiting /\ u[j] \in Awaiting /\ u[k].q = u[j].q => k = j
      /\ \A q \in Queries : out[q] = "pending" =>
           q \in over \/ \E k \in Slots : u[k] \in Awaiting /\ u[k].q = q
  BY <1>3 DEF Fits
<1>5. QED
  BY <1>1, <1>4 DEF Fits, u

(* The query that waits in an entry is overtaken: the entry is flushed.    *)
LEMMA Overtaken ==
    ASSUME NEW t, NEW out, NEW n \in Nat, NEW over, NEW i \in Slots, Fits(t, out, n, over),
           t[i] \in Awaiting
    PROVE  Fits([t EXCEPT ![i] = Unused], out, n, over \cup {t[i].q})
<1> DEFINE p == t[i].q
           u == [t EXCEPT ![i] = Unused]
<1>1. p \in Queries /\ out[p] = "pending" /\ p <= n
  BY DEF Fits, Awaiting
<1>2. Unused \in Resting /\ Unused \notin Awaiting
  BY Kinds DEF Resting
<1>3. u \in [Slots -> Resting \cup Awaiting]
  BY <1>2 DEF Fits
<1>4. u[i] = Unused /\ \A k \in Slots : k # i => u[k] = t[k]
  BY DEF Fits
<1> HIDE DEF u
<1>5. \A k \in Slots : u[k] \in Awaiting => k # i /\ u[k] = t[k] /\ t[k].q # p
  BY <1>2, <1>4 DEF Fits
<1>6. /\ \A k \in Slots : u[k] \in Awaiting =>
           u[k].q <= n /\ out[u[k].q] = "pending" /\ u[k].q \notin over \cup {p}
      /\ \A k, j \in Slots : u[k] \in Awaiting /\ u[j] \in Awaiting /\ u[k].q = u[j].q => k = j
  BY <1>5 DEF Fits
<1>7. ASSUME NEW q \in Queries, out[q] = "pending"
      PROVE  q \in over \cup {p} \/ \E k \in Slots : u[k] \in Awaiting /\ u[k].q = q
  <2>1. q \in over \/ \E k \in Slots : t[k] \in Awaiting /\ t[k].q = q
    BY <1>7 DEF Fits
  <2>2. \A k \in Slots : t[k].q = q /\ q # p => u[k] = t[k]
    BY <1>4
  <2>3. QED
    BY <2>1, <2>2
<1>8. \A q \in over \cup {p} : q \in Queries /\ q <= n /\ out[q] = "pending"
  BY <1>1 DEF Fits
<1>9. QED
  BY <1>3, <1>6, <1>7, <1>8 DEF Fits, u

(* The slot a query is put into is one of the table, and it is at rest if  *)
(* an entry is unused, or done and older than the query.                   *)
LEMMA CandidateFound ==
    ASSUME NEW t \in [Slots -> Resting \cup Awaiting], dns_seqno \in 0..(SeqWidth - 1)
    PROVE  /\ Candidate(t) \in Slots
           /\ \A i \in Slots :
                t[i] = Unused \/ (t[i].state = "done" /\ Age(t, i) > 0) => HasRoom(t)
<1> DEFINE unused == {i \in Slots : t[i] = Unused}
           older == {i \in Slots : t[i].state = "done" /\ Age(t, i) > 0}
           oldest == {i \in older : \A j \in older : Age(t, i) >= Age(t, j)}
           First(S) == CHOOSE i \in S : \A j \in S : i <= j
<1>1. Slots \subseteq Nat /\ 0 \in Slots
  BY DnsAssumption DEF Slots
<1>2. ASSUME NEW S \in SUBSET Slots, S # {} PROVE First(S) \in S
  <2>1. \E i \in S : \A j \in S : i <= j
    BY <1>1, <1>2, LeastNat
  <2>2. QED
    BY ONLY <2>1, Zenon
<1>3. Candidate(t) = IF unused # {} THEN First(unused)
                     ELSE IF older # {} THEN First(oldest)
                     ELSE 0
  BY DEF Candidate
<1>4. older # {} => oldest # {}
  <2> SUFFICES ASSUME older # {} PROVE oldest # {}
    OBVIOUS
  <2> DEFINE T == {t[i].seqno : i \in older}
  <2>1. \A i \in older : t[i] \in Finished /\ t[i].seqno \in 0..(SeqWidth - 1)
    BY Kinds DEF Resting, Finished
  <2>2. T \in SUBSET Nat /\ T # {}
    BY <2>1, DnsAssumption
  <2>3. PICK x \in T : \A y \in T : x <= y
    BY <2>2, LeastNat
  <2>4. PICK i \in older : x = t[i].seqno
    OBVIOUS
  <2>5. ASSUME NEW j \in older PROVE Age(t, i) >= Age(t, j)
    <3>1. t[i].seqno <= t[j].seqno /\ t[i].seqno \in Int /\ t[j].seqno \in Int /\ dns_seqno \in Int
      BY <2>1, <2>3, <2>4, DnsAssumption
    <3>2. QED
      BY <3>1 DEF Age
  <2>6. QED
    BY <2>5
<1> HIDE DEF First
<1>5. Candidate(t) \in Slots
  BY <1>1, <1>2, <1>3, <1>4
<1>6. unused # {} => t[Candidate(t)] = Unused
  BY <1>2, <1>3
<1>7. unused = {} /\ older # {} => t[Candidate(t)].state = "done"
  <2> SUFFICES ASSUME unused = {}, older # {} PROVE t[Candidate(t)].state = "done"
    OBVIOUS
  <2>1. Candidate(t) \in oldest
    BY <1>2, <1>3, <1>4
  <2>2. QED
    BY <2>1
<1>8. QED
  BY <1>5, <1>6, <1>7, Kinds DEF HasRoom

(* A slot with room is at rest.                                            *)
LEMMA Room ==
    ASSUME NEW t \in [Slots -> Resting \cup Awaiting], dns_seqno \in 0..(SeqWidth - 1),
           HasRoom(t)
    PROVE  t[Candidate(t)] \in Resting
BY CandidateFound, Kinds DEF HasRoom

(* A refused query leaves the invariant: no entry was done with, or the    *)
(* sequence numbers have wrapped.                                          *)
LEMMA Refusals ==
    ASSUME NEW t \in [Slots -> Resting \cup Awaiting], dns_seqno \in 0..(SeqWidth - 1),
           ~HasRoom(t), Earlier(t, dns_seqno)
    PROVE  \A i \in Slots : t[i].state # "done"
<1> SUFFICES ASSUME NEW i \in Slots, t[i].state = "done" PROVE FALSE
  OBVIOUS
<1>1. t[i] \in Finished /\ t[i] # Unused
  BY Kinds DEF Resting
<1>2. t[i].seqno < dns_seqno /\ t[i].seqno \in Int /\ dns_seqno \in Int
  BY <1>1, DnsAssumption DEF Earlier, Finished
<1>3. Age(t, i) > 0
  BY <1>2 DEF Age
<1>4. QED
  BY <1>3, CandidateFound

(* The rest of the state fits the sequence numbers.                        *)
Counted ==
    /\ dns_seqno' \in 0..(SeqWidth - 1) /\ dns_asked' \in 0..MaxQueries
    /\ sent' \subseteq Slots \X Names
    /\ wrapped' \in BOOLEAN
    /\ ~wrapped' => ~wrapped /\ dns_seqno <= dns_seqno'

LEMMA NobodyCounts ==
    ASSUME DnsInv, NobodyAsks
    PROVE  Counted
BY DnsAssumption DEF NobodyAsks, Counted, DnsInv

LEMMA Accepted ==
    ASSUME DnsInv, NEW j \in Slots, NEW n \in Names, Accept(j, n)
    PROVE  /\ Counted
           /\ dns_asked \in Nat /\ dns_asked + 1 \in Queries
           /\ NewEntry(n) \in Awaiting /\ NewEntry(n).q = dns_asked + 1
           /\ NewEntry(n).seqno = dns_seqno
           /\ ~wrapped' => dns_seqno < dns_seqno'
<1>1. dns_seqno \in 0..(SeqWidth - 1) /\ dns_asked \in 0..MaxQueries /\ wrapped \in BOOLEAN
      /\ sent \subseteq Slots \X Names
  BY DEF DnsInv
<1>2. dns_asked \in Nat /\ dns_asked + 1 \in Queries /\ dns_asked' \in 0..MaxQueries
  BY <1>1, DnsAssumption DEF Accept, Queries
<1>3. dns_seqno' \in 0..(SeqWidth - 1)
      /\ (dns_seqno + 1 # SeqWidth => dns_seqno' = dns_seqno + 1)
  BY <1>1, DnsAssumption DEF Accept
<1>4. wrapped' = (wrapped \/ dns_seqno + 1 = SeqWidth)
  BY DEF Accept
<1>5. ~wrapped' => ~wrapped /\ dns_seqno < dns_seqno'
  <2>1. dns_seqno + 1 # SeqWidth => dns_seqno < dns_seqno'
    BY <1>1, <1>3, DnsAssumption
  <2>2. QED
    BY <1>4, <2>1, Zenon
<1>6. sent' \subseteq Slots \X Names
  BY <1>1 DEF Accept
<1>7. /\ NewEntry(n) \in Awaiting /\ NewEntry(n).q = dns_asked + 1
      /\ NewEntry(n).seqno = dns_seqno
  BY <1>1, <1>2, DnsAssumption DEF NewEntry, Asking, Awaiting
<1>8. wrapped' \in BOOLEAN
  BY <1>4
<1>9. Counted
  BY <1>1, <1>2, <1>3, <1>5, <1>6, <1>8, DnsAssumption DEF Counted
<1>10. QED
  BY <1>2, <1>5, <1>7, <1>9

(* The invariant after a step, from what the step did to the table.        *)
LEMMA DnsKept ==
    ASSUME DnsInv, Counted, Fits(dns_table', outcome', dns_asked', overtaken'),
           scan' \in 0..DNS_TABLE_SIZE, refused' \in BOOLEAN,
           ~wrapped' => Earlier(dns_table', dns_seqno') /\ ~refused'
    PROVE  DnsInv'
BY DEF DnsInv, Counted, Fits, Earlier

(* An entry of the new table is unused, new, or as old as the one before.  *)
LEMMA StillEarlier ==
    ASSUME DnsInv, Counted, NEW u \in [Slots -> Resting \cup Awaiting],
           \A k \in Slots :
             \/ u[k] = Unused
             \/ dns_table[k] # Unused /\ u[k].seqno = dns_table[k].seqno
             \/ u[k].seqno = dns_seqno /\ (~wrapped' => dns_seqno < dns_seqno')
    PROVE  ~wrapped' => Earlier(u, dns_seqno')
<1> SUFFICES ASSUME ~wrapped', NEW k \in Slots, u[k] # Unused PROVE u[k].seqno < dns_seqno'
  BY DEF Earlier
<1>1. ~wrapped /\ dns_seqno <= dns_seqno' /\ dns_seqno \in Int /\ dns_seqno' \in Int
  BY DnsAssumption DEF Counted, DnsInv
<1>2. u[k].seqno \in Int
  BY DnsAssumption DEF Resting, Finished, Awaiting
<1>3. CASE dns_table[k] # Unused /\ u[k].seqno = dns_table[k].seqno
  <2>1. dns_table[k].seqno < dns_seqno
    BY <1>1, <1>3 DEF DnsInv, Earlier
  <2>2. QED
    BY <1>1, <1>2, <1>3, <2>1
<1>4. CASE u[k].seqno = dns_seqno /\ dns_seqno < dns_seqno'
  BY <1>1, <1>4
<1>5. QED
  BY <1>3, <1>4

(* What a refusal records.                                                 *)
LEMMA Recorded ==
    ASSUME DnsInv, NEW t \in [Slots -> Resting \cup Awaiting], ~HasRoom(t), Refusal(t),
           wrapped' = wrapped, ~wrapped => Earlier(t, dns_seqno)
    PROVE  refused' \in BOOLEAN /\ (~wrapped' => ~refused')
<1>1. refused' = (refused \/ \E i \in Slots : t[i].state = "done")
  BY DEF Refusal
<1>2. ~wrapped => ~refused /\ \A i \in Slots : t[i].state # "done"
  BY Refusals DEF DnsInv
<1>3. QED
  BY <1>1, <1>2

LEMMA Inquired ==
    ASSUME DnsInv, dns_gethostbyname
    PROVE  DnsInv'
<1>1. /\ Fits(dns_table, outcome, dns_asked, overtaken)
      /\ dns_table \in [Slots -> Resting \cup Awaiting]
      /\ scan' \in 0..DNS_TABLE_SIZE /\ overtaken' = overtaken
      /\ dns_seqno \in 0..(SeqWidth - 1) /\ refused \in BOOLEAN
      /\ ~wrapped => ~refused /\ Earlier(dns_table, dns_seqno)
  BY DEF DnsInv, Fits, dns_gethostbyname
<1> DEFINE j == Candidate(dns_table)
<1>2. ASSUME HasRoom(dns_table), NEW n \in Names, Accept(j, n),
             dns_table' = [dns_table EXCEPT ![j] = NewEntry(n)],
             outcome' = Asked(outcome), refused' = refused
      PROVE  DnsInv'
  <2>1. j \in Slots /\ dns_table[j] \in Resting
    BY <1>1, <1>2, Room, CandidateFound
  <2> HIDE DEF j
  <2>2. /\ Counted /\ dns_asked \in Nat /\ dns_asked + 1 \in Queries
        /\ NewEntry(n) \in Awaiting /\ NewEntry(n).q = dns_asked + 1
        /\ NewEntry(n).seqno = dns_seqno
        /\ ~wrapped' => dns_seqno < dns_seqno'
    BY <1>2, <2>1, Accepted
  <2>3. Fits(dns_table', outcome', dns_asked + 1, overtaken)
    BY <1>1, <1>2, <2>1, <2>2, Entered DEF Asked
  <2>4. dns_asked' = dns_asked + 1
    BY <1>2 DEF Accept
  <2>5. dns_table' \in [Slots -> Resting \cup Awaiting]
    BY <2>3 DEF Fits
  <2>6. \A k \in Slots :
          \/ dns_table'[k] = Unused
          \/ dns_table[k] # Unused /\ dns_table'[k].seqno = dns_table[k].seqno
          \/ dns_table'[k].seqno = dns_seqno /\ (~wrapped' => dns_seqno < dns_seqno')
    BY <1>1, <1>2, <2>2
  <2>7. ~wrapped' => Earlier(dns_table', dns_seqno')
    BY <2>2, <2>5, <2>6, StillEarlier
  <2>8. ~wrapped' => ~refused'
    BY <1>1, <1>2, <2>2 DEF Counted
  <2>9. QED
    BY <1>1, <1>2, <2>2, <2>3, <2>4, <2>7, <2>8, DnsKept
<1>3. ASSUME ~HasRoom(dns_table), Refusal(dns_table), NobodyAsks,
             UNCHANGED <<dns_table, outcome>>
      PROVE  DnsInv'
  <2>1. Counted /\ dns_asked' = dns_asked /\ wrapped' = wrapped /\ dns_seqno' = dns_seqno
    BY <1>3, NobodyCounts DEF NobodyAsks
  <2>2. refused' \in BOOLEAN /\ (~wrapped' => ~refused')
    BY <1>1, <1>3, <2>1, Recorded
  <2>3. QED
    BY <1>1, <1>3, <2>1, <2>2, DnsKept
<1>4. QED
  BY <1>2, <1>3 DEF dns_gethostbyname

(* The callback of slot i is called while the slot is done, or while it is *)
(* about to be flushed; then the query it may make gets its slot.          *)
LEMMA CalledBack ==
    ASSUME DnsInv, NEW i \in Slots, dns_table[i] \in Awaiting,
           NEW what \in {"address", "failed"}, NEW flush \in BOOLEAN, NEW during,
           \/ during \in Finished /\ during.seqno = dns_table[i].seqno
           \/ during = dns_table[i] /\ flush,
           CallBack(i, what, during, flush), scan' \in 0..DNS_TABLE_SIZE
    PROVE  DnsInv'
<1> DEFINE told == Told(dns_table[i].q, what)
           t == [dns_table EXCEPT ![i] = during]
           Left(u) == IF flush THEN [u EXCEPT ![i] = Unused] ELSE u
           j == Candidate(t)
<1>1. /\ Fits(dns_table, outcome, dns_asked, overtaken)
      /\ dns_table \in [Slots -> Resting \cup Awaiting]
      /\ dns_asked \in Nat /\ dns_seqno \in 0..(SeqWidth - 1)
      /\ refused \in BOOLEAN
      /\ ~wrapped => ~refused /\ Earlier(dns_table, dns_seqno)
  BY DnsAssumption DEF DnsInv, Fits
<1>2. Unused \in Resting /\ Finished \subseteq Resting /\ dns_table[i] # Unused
  BY Kinds DEF Resting
<1>3. told = [outcome EXCEPT ![dns_table[i].q] = what]
  <2>1. outcome[dns_table[i].q] = "pending"
    BY <1>1 DEF Fits
  <2>2. QED
    BY <2>1 DEF Told
<1> HIDE DEF told
<1>4. \A x \in Resting : Fits([dns_table EXCEPT ![i] = x], told, dns_asked, overtaken)
  BY <1>1, <1>3, Answered
<1>5. t \in [Slots -> Resting \cup Awaiting]
  BY <1>1, <1>2
<1>6. \A k \in Slots : \/ t[k] = Unused
                       \/ dns_table[k] # Unused /\ t[k].seqno = dns_table[k].seqno
  BY <1>1, <1>2
<1>7. ASSUME dns_table' = Left(t), outcome' = told, NobodyAsks, overtaken' = overtaken,
             refused' = refused \/ (~HasRoom(t) /\ Refusal(t))
      PROVE  DnsInv'
  <2>1. Counted /\ dns_asked' = dns_asked /\ wrapped' = wrapped /\ dns_seqno' = dns_seqno
    BY <1>7, NobodyCounts DEF NobodyAsks
  <2>2. PICK x \in Resting : dns_table' = [dns_table EXCEPT ![i] = x]
                             /\ (x = Unused \/ x.seqno = dns_table[i].seqno)
    <3>1. CASE flush
      <4>1. dns_table' = [dns_table EXCEPT ![i] = Unused]
        BY <1>7, <3>1
      <4>2. QED
        BY <1>2, <4>1
    <3>2. CASE ~flush
      BY <1>2, <1>7, <3>2
    <3>3. QED
      BY <3>1, <3>2
  <2>3. Fits(dns_table', outcome', dns_asked', overtaken')
    BY <1>4, <1>7, <2>1, <2>2
  <2>4. dns_table' \in [Slots -> Resting \cup Awaiting]
    BY <2>3 DEF Fits
  <2>5. \A k \in Slots :
          \/ dns_table'[k] = Unused
          \/ dns_table[k] # Unused /\ dns_table'[k].seqno = dns_table[k].seqno
    BY <1>1, <1>2, <2>2
  <2>6. ~wrapped' => Earlier(dns_table', dns_seqno')
    BY <2>1, <2>4, <2>5, StillEarlier
  <2>7. refused' \in BOOLEAN /\ (~wrapped' => ~refused')
    <3>1. CASE refused' = refused
      BY <1>1, <2>1, <3>1
    <3>2. CASE ~HasRoom(t) /\ Refusal(t)
      <4>1. ~wrapped => Earlier(t, dns_seqno)
        BY <1>1, <1>6 DEF Earlier
      <4> HIDE DEF t
      <4>2. QED
        BY <1>5, <2>1, <3>2, <4>1, Recorded
    <3>3. QED
      BY <1>7, <3>1, <3>2
  <2>8. QED
    BY <2>1, <2>3, <2>6, <2>7, DnsKept
<1>8. ASSUME HasRoom(t), NEW n \in Names, Accept(j, n),
             dns_table' = Left([t EXCEPT ![j] = NewEntry(n)]),
             outcome' = Asked(told), refused' = refused,
             overtaken' = IF flush /\ i = j THEN overtaken \cup {dns_asked + 1} ELSE overtaken
      PROVE  DnsInv'
  <2>1. j \in Slots /\ t[j] \in Resting
    <3> HIDE DEF t
    <3>1. QED
      BY <1>1, <1>5, <1>8, Room, CandidateFound
  <2> HIDE DEF j
  <2> DEFINE e == NewEntry(n)
             u == [t EXCEPT ![j] = e]
  <2>2. /\ Counted /\ dns_asked \in Nat /\ dns_asked + 1 \in Queries
        /\ e \in Awaiting /\ e.q = dns_asked + 1 /\ e.seqno = dns_seqno
        /\ ~wrapped' => dns_seqno < dns_seqno'
    BY <1>8, <2>1, Accepted
  <2>3. dns_asked' = dns_asked + 1 /\ outcome' = [told EXCEPT ![dns_asked + 1] = "pending"]
    BY <1>8 DEF Accept, Asked
  <2>4. dns_table' = Left(u)
    BY <1>8
  <2> HIDE DEF e
  <2>5. Fits(dns_table', outcome', dns_asked', overtaken')
    <3>1. CASE during \in Finished
      <4>1. Fits(t, told, dns_asked, overtaken)
        BY <1>2, <1>4, <3>1
      <4>2. t[i] = during /\ during \in Resting
        BY <1>1, <1>2, <3>1
      <4> HIDE DEF t
      <4>3. Fits(u, outcome', dns_asked + 1, overtaken)
        BY <2>1, <2>2, <2>3, <4>1, Entered
      <4>4. u[j] = e /\ (i # j => u[i] = during)
        BY <1>5, <2>1, <4>2
      <4> HIDE DEF u
      <4>5. dns_asked + 1 \in Nat
        BY <2>2
      <4>6. CASE ~flush
        BY <1>8, <2>3, <2>4, <4>3, <4>6
      <4>7. CASE flush /\ i = j
        <5>1. dns_table' = [u EXCEPT ![i] = Unused] /\ u[i] = e
              /\ overtaken' = overtaken \cup {dns_asked + 1}
          BY <1>8, <2>4, <4>4, <4>7
        <5>2. Fits([u EXCEPT ![i] = Unused], outcome', dns_asked + 1, overtaken \cup {u[i].q})
          BY <2>2, <4>3, <4>5, <5>1, Overtaken
        <5>3. QED
          BY <2>2, <2>3, <5>1, <5>2
      <4>8. CASE flush /\ i # j
        <5>1. dns_table' = [u EXCEPT ![i] = Unused] /\ u[i] \in Resting /\ overtaken' = overtaken
          BY <1>8, <2>4, <4>2, <4>4, <4>8
        <5>2. Fits([u EXCEPT ![i] = Unused], outcome', dns_asked + 1, overtaken)
          BY <1>2, <4>3, <4>5, <5>1, Remains
        <5>3. QED
          BY <2>3, <5>1, <5>2
      <4>9. QED
        BY <4>6, <4>7, <4>8
    <3>2. CASE during = dns_table[i] /\ flush
      <4> DEFINE v == [dns_table EXCEPT ![i] = Unused]
      <4>1. t = dns_table
        BY <1>1, <3>2
      <4>2. i # j /\ dns_table[j] \in Resting
        BY <2>1, <4>1, Kinds
      <4>3. Fits(v, told, dns_asked, overtaken) /\ v[j] \in Resting
        BY <1>1, <1>2, <1>4, <2>1, <4>2
      <4>4. dns_table' = [v EXCEPT ![j] = e]
        <5>1. dns_table' = [[dns_table EXCEPT ![j] = e] EXCEPT ![i] = Unused]
          BY <2>4, <3>2, <4>1
        <5>2. QED
          BY <1>1, <2>1, <4>2, <5>1
      <4> HIDE DEF v
      <4>5. Fits(dns_table', outcome', dns_asked + 1, overtaken)
        BY <2>1, <2>2, <2>3, <4>3, <4>4, Entered
      <4>6. overtaken' = overtaken
        BY <1>8, <4>2
      <4>7. QED
        BY <2>3, <4>5, <4>6
    <3>3. QED
      BY <3>1, <3>2
  <2>6. dns_table' \in [Slots -> Resting \cup Awaiting]
    BY <2>5 DEF Fits
  <2>7. \A k \in Slots :
          \/ dns_table'[k] = Unused
          \/ dns_table[k] # Unused /\ dns_table'[k].seqno = dns_table[k].seqno
          \/ dns_table'[k].seqno = dns_seqno /\ (~wrapped' => dns_seqno < dns_seqno')
    <3>1. ASSUME NEW k \in Slots PROVE u[k] = IF k = j THEN e ELSE t[k]
      BY <1>5, <2>1
    <3>2. u \in [Slots -> Resting \cup Awaiting]
      BY <1>5, <2>1, <2>2
    <3> HIDE DEF u, t
    <3>3. ASSUME NEW k \in Slots PROVE dns_table'[k] \in {Unused, u[k]}
      BY <2>4, <3>2
    <3>4. QED
      BY <1>6, <2>2, <3>1, <3>3
  <2>8. ~wrapped' => Earlier(dns_table', dns_seqno')
    BY <2>2, <2>6, <2>7, StillEarlier
  <2>9. ~wrapped' => ~refused'
    BY <1>1, <1>8, <2>2 DEF Counted
  <2>10. QED
    BY <1>1, <1>8, <2>2, <2>5, <2>8, <2>9, DnsKept
<1>9. \/ dns_table' = Left(t) /\ outcome' = told /\ NobodyAsks /\ overtaken' = overtaken
         /\ (refused' = refused \/ (~HasRoom(t) /\ Refusal(t)))
      \/ /\ HasRoom(t) /\ refused' = refused
         /\ \E n \in Names : Accept(j, n) /\ dns_table' = Left([t EXCEPT ![j] = NewEntry(n)])
         /\ outcome' = Asked(told)
         /\ overtaken' = IF flush /\ i = j THEN overtaken \cup {dns_asked + 1} ELSE overtaken
  BY DEF CallBack, told
<1>10. QED
  BY <1>7, <1>8, <1>9

LEMMA Received ==
    ASSUME DnsInv, dns_recv
    PROVE  DnsInv'
<1>1. PICK a \in sent, good \in BOOLEAN, ttl \in 0..MaxTtl :
        LET i == a[1]
            e == dns_table[i]
        IN /\ e.state = "asking"
           /\ IF good /\ a[2] = e.name
              THEN CallBack(i, "address", Done(e.seqno, ttl), FALSE)
              ELSE ttl = 0 /\ CallBack(i, "failed", Done(e.seqno, 0), TRUE)
  BY DEF dns_recv
<1> DEFINE i == a[1]
           e == dns_table[i]
<1>2. i \in Slots /\ scan' \in 0..DNS_TABLE_SIZE
  BY DEF DnsInv, dns_recv
<1>3. e \in Awaiting
  BY <1>1, <1>2, Kinds DEF DnsInv, Fits, Resting
<1>4. /\ Done(e.seqno, ttl) \in Finished /\ Done(e.seqno, 0) \in Finished
      /\ Done(e.seqno, ttl).seqno = e.seqno /\ Done(e.seqno, 0).seqno = e.seqno
  BY <1>3, DnsAssumption DEF Done, Finished, Awaiting
<1>5. \/ CallBack(i, "address", Done(e.seqno, ttl), FALSE)
      \/ CallBack(i, "failed", Done(e.seqno, 0), TRUE)
  BY <1>1
<1> HIDE DEF i
<1>6. QED
  BY <1>2, <1>3, <1>4, <1>5, CalledBack

(* An entry waits, is asked for again, or ages.                            *)
LEMMA Checked ==
    ASSUME DnsInv, scan \in Slots, scan' = scan + 1, NEW x, Ask(scan, x),
           sent' \subseteq Slots \X Names,
           x # Unused => dns_table[scan] # Unused /\ x.seqno = dns_table[scan].seqno,
           \/ dns_table[scan] \in Resting /\ x \in Resting
           \/ dns_table[scan] \in Awaiting /\ x \in Awaiting /\ x.q = dns_table[scan].q
    PROVE  DnsInv'
<1>1. /\ Fits(dns_table, outcome, dns_asked, overtaken) /\ dns_asked \in Nat
      /\ dns_seqno \in 0..(SeqWidth - 1)
      /\ refused \in BOOLEAN /\ wrapped \in BOOLEAN /\ dns_asked \in 0..MaxQueries
      /\ ~wrapped => ~refused
  BY DnsAssumption DEF DnsInv
<1>2. /\ dns_table' = [dns_table EXCEPT ![scan] = x]
      /\ UNCHANGED <<dns_seqno, dns_asked, outcome, overtaken, refused, wrapped>>
  BY DEF Ask
<1>3. Fits(dns_table', outcome', dns_asked', overtaken')
  BY <1>1, <1>2, Remains
<1>4. Counted
  BY <1>1, <1>2, DnsAssumption DEF Counted
<1>5. dns_table' \in [Slots -> Resting \cup Awaiting]
  BY <1>3 DEF Fits
<1>6. \A k \in Slots : \/ dns_table'[k] = Unused
                       \/ dns_table[k] # Unused /\ dns_table'[k].seqno = dns_table[k].seqno
  BY <1>1, <1>2 DEF Fits
<1>7. ~wrapped' => Earlier(dns_table', dns_seqno')
  BY <1>4, <1>5, <1>6, StillEarlier
<1>8. scan' \in 0..DNS_TABLE_SIZE
  BY DnsAssumption DEF Slots
<1>9. QED
  BY <1>1, <1>2, <1>3, <1>4, <1>7, <1>8, DnsKept

LEMMA Walked ==
    ASSUME DnsInv, dns_check_entry
    PROVE  DnsInv'
<1> DEFINE e == dns_table[scan]
           last == e.retries + 1 = DNS_MAX_RETRIES
<1>1. scan \in Slots /\ scan' = scan + 1 /\ e \in Resting \cup Awaiting
      /\ sent \subseteq Slots \X Names
  BY DEF dns_check_entry, DnsInv, Fits
<1>2. CASE e = Unused /\ Ask(scan, e) /\ sent' = sent
  BY <1>1, <1>2, Checked DEF Resting
<1>3. CASE /\ e.state = "done" /\ sent' = sent
           /\ Ask(scan, IF e.ttl = 1 THEN Unused
                        ELSE IF e.ttl = -1 THEN e ELSE [e EXCEPT !.ttl = @ - 1])
  <2> DEFINE x == IF e.ttl = 1 THEN Unused
                  ELSE IF e.ttl = -1 THEN e ELSE [e EXCEPT !.ttl = @ - 1]
  <2>1. e \in Finished /\ e # Unused
    BY <1>1, <1>3, Kinds DEF Resting
  <2>2. x \in Resting /\ (x # Unused => x.seqno = e.seqno)
    BY <2>1, DnsAssumption DEF Finished, Resting
  <2> HIDE DEF x
  <2>3. Ask(scan, x)
    BY <1>3 DEF x
  <2>4. e \in Resting
    BY <2>1 DEF Resting
  <2>5. QED
    BY <1>1, <1>3, <2>1, <2>2, <2>3, <2>4, Checked
<1>4. CASE e.state = "asking"
  <2>1. e \in Awaiting /\ e # Unused
    BY <1>1, <1>4, Kinds DEF Resting
  <2>2. CASE e.tmr > 1 /\ Ask(scan, [e EXCEPT !.tmr = @ - 1]) /\ sent' = sent
    <3> DEFINE x == [e EXCEPT !.tmr = @ - 1]
    <3>1. x \in Awaiting /\ x.q = e.q /\ x.seqno = e.seqno
      BY <2>1, <2>2, DnsAssumption DEF Awaiting
    <3> HIDE DEF x
    <3>2. Ask(scan, x)
      BY <2>2 DEF x
    <3>3. QED
      BY <1>1, <2>1, <2>2, <3>1, <3>2, Checked
  <2>3. CASE /\ ~last /\ Ask(scan, [e EXCEPT !.retries = @ + 1, !.tmr = e.retries + 1])
             /\ sent' \in {sent, sent \cup {<<scan, e.name>>}}
    <3> DEFINE x == [e EXCEPT !.retries = @ + 1, !.tmr = e.retries + 1]
    <3>1. e.retries + 1 \in 1..(DNS_MAX_RETRIES - 1)
      <4>1. e.retries \in 0..(DNS_MAX_RETRIES - 1) /\ e.retries + 1 # DNS_MAX_RETRIES
        BY <2>1, <2>3 DEF Awaiting
      <4>2. QED
        BY <4>1, DnsAssumption
    <3>2. x \in Awaiting /\ x.q = e.q /\ x.seqno = e.seqno
      <4>1. e.retries + 1 \in 1..DNS_MAX_RETRIES /\ e.retries + 1 \in 0..(DNS_MAX_RETRIES - 1)
        BY <3>1, DnsAssumption
      <4> DEFINE r == e.retries + 1
      <4> HIDE DEF r
      <4>2. [e EXCEPT !.retries = r, !.tmr = r] \in Awaiting
        BY <2>1, <4>1 DEF Awaiting, r
      <4>3. x = [e EXCEPT !.retries = r, !.tmr = r]
        BY <2>1 DEF Awaiting, r
      <4>4. QED
        BY <2>1, <4>2, <4>3 DEF Awaiting
    <3> HIDE DEF x
    <3>3. Ask(scan, x) /\ sent' \subseteq Slots \X Names
      BY <1>1, <2>1, <2>3 DEF x, Awaiting
    <3>4. QED
      BY <1>1, <2>1, <3>2, <3>3, Checked
  <2>4. CASE /\ e.numdns + 1 < DNS_MAX_SERVERS /\ sent' = sent
             /\ Ask(scan, [e EXCEPT !.numdns = @ + 1, !.tmr = 1, !.retries = 0])
    <3> DEFINE x == [e EXCEPT !.numdns = @ + 1, !.tmr = 1, !.retries = 0]
    <3>1. x \in Awaiting /\ x.q = e.q /\ x.seqno = e.seqno
      <4>1. 1 \in 1..DNS_MAX_RETRIES /\ 0 \in 0..(DNS_MAX_RETRIES - 1)
        BY DnsAssumption
      <4>2. e.numdns + 1 \in 0..(DNS_MAX_SERVERS - 1)
        BY <2>1, <2>4, DnsAssumption DEF Awaiting
      <4>3. QED
        BY <2>1, <4>1, <4>2 DEF Awaiting
    <3> HIDE DEF x
    <3>2. Ask(scan, x)
      BY <2>4 DEF x
    <3>3. QED
      BY <1>1, <2>1, <2>4, <3>1, <3>2, Checked
  <2>5. CASE CallBack(scan, "failed", e, TRUE)
    <3>1. scan' \in 0..DNS_TABLE_SIZE
      BY <1>1, DnsAssumption DEF Slots
    <3>2. QED
      BY <1>1, <2>1, <2>5, <3>1, CalledBack
  <2>6. QED
    BY <1>4, <2>2, <2>3, <2>4, <2>5, Kinds DEF dns_check_entry
<1>5. QED
  BY <1>2, <1>3, <1>4 DEF dns_check_entry

LEMMA DnsInitInv == DnsInit => DnsInv
<1> SUFFICES ASSUME DnsInit PROVE DnsInv
  OBVIOUS
<1>1. \A i \in Slots : dns_table[i] = Unused /\ Unused \in Resting /\ Unused \notin Awaiting
  BY Kinds DEF DnsInit, Resting
<1>2. Fits(dns_table, outcome, dns_asked, overtaken)
  <2>1. dns_table \in [Slots -> Resting \cup Awaiting]
    BY <1>1 DEF DnsInit
  <2>2. outcome \in [Queries -> Outcomes] /\ \A q \in Queries : outcome[q] = "none"
    BY DEF DnsInit, Outcomes
  <2>3. overtaken = {}
    BY DEF DnsInit
  <2>4. QED
    BY <1>1, <2>1, <2>2, <2>3 DEF Fits
<1>3. Earlier(dns_table, dns_seqno)
  BY <1>1 DEF Earlier
<1>4. /\ dns_seqno \in 0..(SeqWidth - 1) /\ scan \in 0..DNS_TABLE_SIZE
      /\ dns_asked \in 0..MaxQueries /\ sent \subseteq Slots \X Names
      /\ refused = FALSE /\ wrapped = FALSE
  BY DnsAssumption DEF DnsInit
<1>5. QED
  BY <1>2, <1>3, <1>4 DEF DnsInv

LEMMA DnsStep == DnsInv /\ [DnsNext]_dnsVars => DnsInv'
<1> SUFFICES ASSUME DnsInv, [DnsNext]_dnsVars PROVE DnsInv'
  OBVIOUS
<1>1. ASSUME dns_tmr PROVE DnsInv'
  <2>1. scan' \in 0..DNS_TABLE_SIZE
    BY <1>1, DnsAssumption DEF dns_tmr
  <2>2. QED
    BY <1>1, <2>1 DEF dns_tmr, DnsInv, Fits, Earlier
<1>2. ASSUME UNCHANGED dnsVars PROVE DnsInv'
  BY <1>2 DEF dnsVars, DnsInv, Fits, Earlier
<1>3. QED
  BY <1>1, <1>2, Inquired, Received, Walked DEF DnsNext

(* One callback for each query; a query not answered has its entry, and an *)
(* entry its query, but for those overtaken; and one is refused only when  *)
(* every entry waits, until the sequence number wraps; for tables, widths  *)
(* and numbers of queries of any size.                                     *)
THEOREM QueriesKept == DnsSpec => []DnsTableKept
<1>1. DnsInv => DnsTableKept
  <2> SUFFICES ASSUME DnsInv PROVE DnsTableKept
    OBVIOUS
  <2>1. Fits(dns_table, outcome, dns_asked, overtaken)
    BY DEF DnsInv
  <2>2. CalledOnce
    BY <2>1 DEF Fits, Outcomes, CalledOnce
  <2>3. NoQueryLost
    <3> SUFFICES ASSUME NEW q \in Queries
                 PROVE  LET mine == {i \in Slots : dns_table[i].state = "asking" /\ dns_table[i].q = q}
                        IN /\ Cardinality(mine) <= 1
                           /\ outcome[q] = "pending" <=> (mine # {} \/ q \in overtaken)
      BY DEF NoQueryLost
    <3> DEFINE mine == {i \in Slots : dns_table[i].state = "asking" /\ dns_table[i].q = q}
    <3>1. \A i \in Slots : dns_table[i].state = "asking" <=> dns_table[i] \in Awaiting
      BY <2>1, Kinds DEF Fits, Resting
    <3>2. \A i, j \in mine : i = j
      BY <2>1, <3>1 DEF Fits
    <3>3. Cardinality(mine) <= 1
      <4>1. CASE mine = {}
        BY <4>1, FS_EmptySet
      <4>2. ASSUME NEW i \in mine PROVE Cardinality(mine) <= 1
        <5>1. mine = {i}
          BY <3>2
        <5>2. Cardinality(mine) = 1
          BY <5>1, FS_Singleton, Zenon
        <5>3. QED
          BY <5>2
      <4>3. QED
        BY <4>1, <4>2
    <3>4. outcome[q] = "pending" <=> (mine # {} \/ q \in overtaken)
      BY <2>1, <3>1 DEF Fits
    <3>5. QED
      BY <3>3, <3>4
  <2>4. RefusedOnlyIfBusy
    BY DEF DnsInv, RefusedOnlyIfBusy
  <2>5. QED
    BY <2>2, <2>3, <2>4 DEF DnsTableKept
<1>2. QED
  BY <1>1, DnsInitInv, DnsStep, PTL DEF DnsSpec
=============================================================================
