----------------------------- MODULE DhcpServer -----------------------------
(***************************************************************************)
(* The DHCP server of the access point                                     *)
(* (src/apps/07switch/lwip/app/dhcpserver.c).                              *)
(*                                                                         *)
(* The server has one address in hand, that of the transaction it last saw *)
(* (old_xid).  Who has which address is kept by the SDK, in the list of    *)
(* stations.  A message whose number is not new is answered with the       *)
(* address in hand, whoever sent it.                                       *)
(***************************************************************************)
EXTENDS Naturals, FiniteSets

CONSTANTS
  Stations,
  FIRST, LAST,  \* the last byte of the addresses, 100 and 200
  MaxXid        \* bound: transactions

ASSUME ServerAssumption ==
  /\ IsFiniteSet(Stations) /\ MaxXid \in Nat
  /\ FIRST \in Nat \ {0} /\ LAST \in Nat /\ LAST + 1 >= FIRST + Cardinality(Stations)

VARIABLES
  old_xid, client_address, client_address_plus,
  station_info,     \* the SDK's list: each station's address, 0 if not in it
  transaction,      \* the number each station uses, 0 when it has none
  offered,          \* what each was last offered
  leased,           \* what each was last acknowledged, 0 when it has left
  xids,             \* numbers used so far
  unlisted          \* history: stations served without an entry of their own

serverVars == <<old_xid, client_address, client_address_plus, station_info, transaction,
                offered, leased, xids, unlisted>>

\* The addresses: the search for a free one runs past LAST.
Leasable == FIRST..(LAST + Cardinality(Stations) + 1)

ServerTypeOK ==
  /\ old_xid \in 0..MaxXid /\ xids \in 0..MaxXid
  /\ client_address \in Leasable \cup {0} /\ client_address_plus \in Leasable
  /\ station_info \in [Stations -> Leasable \cup {0}]
  /\ transaction \in [Stations -> 0..MaxXid]
  /\ offered \in [Stations -> Leasable \cup {0}] /\ leased \in [Stations -> Leasable \cup {0}]
  /\ unlisted \subseteq Stations

ServerInit ==
  /\ old_xid = 0 /\ client_address = 0 /\ client_address_plus = FIRST
  /\ station_info = [c \in Stations |-> 0] /\ transaction = [c \in Stations |-> 0]
  /\ offered = [c \in Stations |-> 0] /\ leased = [c \in Stations |-> 0]
  /\ xids = 0 /\ unlisted = {}
----------------------------------------------------------------------------
InUse(a) == \E c \in Stations : station_info[c] = a

\* Mutant: the next address is taken unseen.
BugTakesNext == client_address_plus
NextFree == CHOOSE a \in Leasable :
  a >= client_address_plus /\ ~InUse(a) /\ \A b \in client_address_plus..(a - 1) : InUse(b)

Listed(c, a) ==
  /\ station_info' = [station_info EXCEPT ![c] = a]
  /\ client_address' = a
  /\ client_address_plus' = IF a + 1 > LAST THEN FIRST ELSE a + 1

\* parse_msg: a new transaction brings the address of its station in hand: the
\* listed one, or the next that is free, which the SDK enters into its list or
\* refuses.  The very first one and one seen before leave it as it is.
parse_msg(c, ok) ==
  /\ old_xid' = transaction[c]
  /\ IF old_xid = 0 \/ old_xid = transaction[c]
     THEN /\ ok /\ UNCHANGED <<client_address, client_address_plus, station_info>>
          /\ unlisted' = IF old_xid = 0 THEN unlisted \cup {c} ELSE unlisted
     ELSE IF station_info[c] # 0
     THEN /\ ok /\ client_address' = station_info[c]
          /\ UNCHANGED <<client_address_plus, station_info, unlisted>>
     ELSE IF ok
     THEN Listed(c, NextFree) /\ UNCHANGED unlisted
     ELSE /\ client_address_plus' = NextFree
          /\ unlisted' = unlisted \cup {c}
          /\ UNCHANGED <<client_address, station_info>>

\* handle_dhcp: the answer, which may be lost on its way back.
Discover(c, ok) ==
  /\ parse_msg(c, ok)
  /\ \/ ok /\ offered' = [offered EXCEPT ![c] = client_address']
     \/ UNCHANGED offered
  /\ UNCHANGED <<transaction, leased, xids>>

Request(c, ok) ==
  /\ parse_msg(c, ok)
  /\ \/ ok /\ offered[c] = client_address' /\ leased' = [leased EXCEPT ![c] = client_address']
     \/ UNCHANGED leased
  /\ UNCHANGED <<transaction, offered, xids>>

handle_dhcp(c) ==
  /\ transaction[c] # 0
  /\ \E ok \in BOOLEAN : Discover(c, ok) \/ Request(c, ok)

\* A station begins a transaction of its own.
Begin(c) ==
  /\ xids < MaxXid /\ xids' = xids + 1
  /\ transaction' = [transaction EXCEPT ![c] = xids + 1]
  /\ UNCHANGED <<old_xid, client_address, client_address_plus, station_info, offered,
                 leased, unlisted>>

\* A station leaves, and the SDK takes it off the list.
Leave(c) ==
  /\ transaction[c] # 0
  /\ station_info' = [station_info EXCEPT ![c] = 0]
  /\ leased' = [leased EXCEPT ![c] = 0]
  /\ transaction' = [transaction EXCEPT ![c] = 0]
  /\ unlisted' = unlisted \ {c}
  /\ UNCHANGED <<old_xid, client_address, client_address_plus, offered, xids>>

ServerNext == \E c \in Stations : handle_dhcp(c) \/ Begin(c) \/ Leave(c)
ServerSpec == ServerInit /\ [][ServerNext]_serverVars
----------------------------------------------------------------------------
\* The SDK's list has no address twice, although addresses are used again after
\* the last one.
ListDistinct ==
  \A c, d \in Stations : c # d /\ station_info[c] # 0 => station_info[c] # station_info[d]

\* A station is never acknowledged another one's address, unless it is the very
\* first to ask, or asks again after its entry into the list was refused.
LeaseIsListed == \A c \in Stations : leased[c] \in {0, station_info[c]} \/ c \in unlisted

LeasesKept == ListDistinct /\ LeaseIsListed
============================================================================
