---------------------------- MODULE EspconnProofs ----------------------------
(***************************************************************************)
(* Proofs about the sockets layer: its connections, for any number of      *)
(* blocks, messages, clients and links, and after them what espconn_sent   *)
(* hands to TCP, for messages, a send buffer and writes of any size.       *)
(*                                                                         *)
(* A block that is closed twice may meanwhile be another connection's; so  *)
(* either no connection was given a block that another's message still     *)
(* refers to, or the application disconnects once.                         *)
(***************************************************************************)
EXTENDS EspconnTcp, EspconnSend, SequenceTheorems, FiniteSetTheorems, NumberLemmas

(* Until a connection gets a block that another's message refers to, or if *)
(* the application disconnects no closing connection.                      *)
Assumed == CloseOnce \/ ~reused

Elems(s) == {s[i] : i \in 1 .. Len(s)}
Distinct(s) == \A i, j \in 1 .. Len(s) : s[i] = s[j] => i = j

(* The list, node by node.                                                 *)
ListedAre ==
    /\ Distinct(plink_active)
    /\ Listed = {m \in Msg : msg[m] # None /\ timer[m] # "reconnect"}

(* Nothing calls back with a message that is about to be freed.            *)
ArgListed == \A p \in Pcb : pcb[p].arg # None => pcb[p].arg \in Listed

(* A connection has a message from its first callback to its end, a half   *)
(* open one has none.                                                      *)
ArgStates ==
    \A p \in Pcb : Active(p) =>
        IF pcb[p].state = "SYN_RCVD" THEN pcb[p].arg = None /\ ~pcb[p].handlers
                                     ELSE pcb[p].arg # None

(* Beyond its open states a connection is being closed.                    *)
ClosingTimed ==
    \A p \in Pcb : pcb[p].arg # None =>
        \/ pcb[p].state \in {"CLOSED", "SYN_SENT", "ESTABLISHED"}
        \/ timer[pcb[p].arg] = "close"

(* The message of a connection nobody closes is its block's argument; a    *)
(* connection that could not be begun is still there to be closed.         *)
Attended ==
    \A m \in Listed : LET p == msg[m].pcb IN
        \/ timer[m] = "close"
        \/ pcb[p].arg = m
        \/ reused /\ pcb[p].live /\ pcb[p].state = "CLOSED" /\ pcb[p].arg = None

(* Two messages that nobody closes do not refer to the same block.         *)
Unshared ==
    \A m, n \in Listed :
        msg[m].pcb = msg[n].pcb /\ timer[m] # "close" /\ timer[n] # "close" => m = n

(* As long as no block is given away, each is its message's.               *)
OneOwner ==
    ~reused => \A m \in Listed : LET p == msg[m].pcb IN
        pcb[p].live => pcb[p].arg = m

ClosedOnce == CloseOnce /\ ~reused => ~closed_twice

IInv ==
    /\ TypeOK
    /\ TimerOwned
    /\ ArgIsMine
    /\ ListedAre
    /\ ArgListed
    /\ ArgStates
    /\ ClosingTimed
    /\ Attended
    /\ Unshared
    /\ OneOwner
    /\ LinksBounded
    /\ ClosedOnce

-----------------------------------------------------------------------------
(* Lists without repetitions.                                              *)
LEMMA Removed ==
    ASSUME NEW S, NEW s \in Seq(S), Distinct(s), NEW m
    PROVE  LET r == RemoveFirst(s, m) IN
             r \in Seq(S) /\ Distinct(r) /\ Elems(r) = Elems(s) \ {m}
<1>1. CASE \A i \in 1 .. Len(s) : s[i] # m
  <2>1. RemoveFirst(s, m) = s
    BY <1>1 DEF RemoveFirst
  <2>2. QED
    BY <1>1, <2>1 DEF Elems
<1>2. ASSUME NEW k \in 1 .. Len(s), s[k] = m
      PROVE  LET r == RemoveFirst(s, m) IN
               r \in Seq(S) /\ Distinct(r) /\ Elems(r) = Elems(s) \ {m}
  <2>1. Len(s) \in Nat
    BY LenProperties
  <2>2. {i \in 1 .. Len(s) : s[i] = m} = {k}
    BY <1>2 DEF Distinct
  <2>3. (CHOOSE x \in {k} : \A y \in {k} : x =< y) = k
    BY <2>1
  <2>4. SelectInSeq(s, LAMBDA v : v = m) = k
    BY <2>2, <2>3 DEF SelectInSeq, Min
  <2>5. RemoveFirst(s, m) = RemoveAt(s, k)
    BY <1>2, <2>4 DEF RemoveFirst
  <2> DEFINE a == SubSeq(s, 1, k - 1)
             b == SubSeq(s, k + 1, Len(s))
             r == a \o b
  <2>6. a \in Seq(S) /\ Len(a) = k - 1 /\ \A i \in 1 .. k - 1 : a[i] = s[i]
    BY <2>1, SubSeqProperties
  <2>7. b \in Seq(S) /\ Len(b) = Len(s) - k /\ \A i \in 1 .. Len(s) - k : b[i] = s[i + k]
    BY <2>1, SubSeqProperties
  <2> HIDE DEF a, b
  <2>8. r \in Seq(S) /\ Len(r) = Len(s) - 1
        /\ \A i \in 1 .. Len(s) - 1 : r[i] = IF i < k THEN s[i] ELSE s[i + 1]
    <3>1. r \in Seq(S) /\ Len(r) = Len(a) + Len(b)
          /\ \A i \in 1 .. Len(a) + Len(b) : r[i] = IF i <= Len(a) THEN a[i] ELSE b[i - Len(a)]
      BY <2>6, <2>7, ConcatProperties
    <3> HIDE DEF r
    <3>2. Len(a) + Len(b) = Len(s) - 1
      BY <2>1, <2>6, <2>7
    <3>3. ASSUME NEW i \in 1 .. Len(s) - 1
          PROVE  r[i] = IF i < k THEN s[i] ELSE s[i + 1]
      <4>1. CASE i < k
        BY <2>1, <2>6, <3>1, <3>2, <4>1
      <4>2. CASE ~(i < k)
        <5>1. r[i] = b[i - (k - 1)] /\ i - (k - 1) \in 1 .. Len(s) - k
          BY <2>1, <2>6, <3>1, <3>2, <4>2
        <5>2. b[i - (k - 1)] = s[(i - (k - 1)) + k]
          BY <2>7, <5>1
        <5>3. (i - (k - 1)) + k = i + 1
          BY <2>1
        <5>4. QED
          BY <4>2, <5>1, <5>2, <5>3
      <4>3. QED
        BY <4>1, <4>2
    <3>4. QED
      BY <3>1, <3>2, <3>3
  <2>9. r = RemoveFirst(s, m)
    BY <2>5 DEF RemoveAt, a, b
  <2> HIDE DEF r
  <2>10. Distinct(r)
    BY <2>1, <2>8 DEF Distinct
  <2>11. Elems(r) \subseteq Elems(s) \ {m}
    BY <1>2, <2>1, <2>8 DEF Distinct, Elems
  <2>12. ASSUME NEW j \in 1 .. Len(s), s[j] # m PROVE s[j] \in Elems(r)
    <3>1. CASE j < k
      <4>1. j \in 1 .. Len(s) - 1 /\ r[j] = s[j]
        BY <2>1, <2>8, <3>1
      <4>2. QED
        BY <2>8, <4>1 DEF Elems
    <3>2. CASE j > k
      <4>1. j - 1 \in 1 .. Len(s) - 1 /\ r[j - 1] = s[j]
        BY <2>1, <2>8, <3>2
      <4>2. QED
        BY <2>8, <4>1 DEF Elems
    <3>3. QED
      BY <1>2, <2>12, <3>1, <3>2
  <2>13. Elems(r) = Elems(s) \ {m}
    BY <2>11, <2>12 DEF Elems
  <2>14. QED
    BY <2>8, <2>9, <2>10, <2>13
<1>3. QED
  BY <1>1, <1>2

LEMMA Appended ==
    ASSUME NEW S, NEW s \in Seq(S), Distinct(s), NEW m \in S, m \notin Elems(s)
    PROVE  LET r == Append(s, m) IN
             r \in Seq(S) /\ Distinct(r) /\ Elems(r) = Elems(s) \cup {m}
<1> DEFINE r == Append(s, m)
<1>1. Len(s) \in Nat /\ r \in Seq(S) /\ Len(r) = Len(s) + 1 /\ r[Len(s) + 1] = m
      /\ \A i \in 1 .. Len(s) : r[i] = s[i]
  BY LenProperties, AppendProperties
<1> HIDE DEF r
<1>2. Distinct(r)
  BY <1>1 DEF Distinct, Elems
<1>3. Elems(r) = Elems(s) \cup {m}
  BY <1>1 DEF Elems
<1>4. QED
  BY <1>1, <1>2, <1>3 DEF r

(* A list without repetitions is as long as its set of elements.           *)
LEMMA DistinctLength ==
    ASSUME NEW S, NEW s \in Seq(S), Distinct(s)
    PROVE  IsFiniteSet(Elems(s)) /\ Cardinality(Elems(s)) = Len(s)
<1>1. Len(s) \in Nat /\ s \in [1 .. Len(s) -> Elems(s)]
  BY LenProperties DEF Elems
<1>2. s \in Bijection(1 .. Len(s), Elems(s))
  BY <1>1 DEF Distinct, Elems, Bijection, Injection, Surjection, IsInjective
<1>3. IsFiniteSet(1 .. Len(s)) /\ Cardinality(1 .. Len(s)) = Len(s)
  BY <1>1, FS_Interval
<1>4. QED
  BY <1>2, <1>3, FS_Bijection DEF ExistsBijection

-----------------------------------------------------------------------------
(* What the three kinds of step do to the invariant.                       *)

LEMMA Constants ==
    /\ MaxActive \in Nat \ {0} /\ HeapReuse \in BOOLEAN /\ CloseOnce \in BOOLEAN
    /\ None \notin Msg /\ None \notin Message /\ Client \cap Msg = {}
BY EspconnAssumption DEF Message, Handle

LEMMA ListDeleted ==
    ASSUME IInv, NEW v
    PROVE  LET r == espconn_list_delete(v) IN
             r \in Seq(Msg) /\ Distinct(r) /\ Elems(r) = Listed \ {v}
<1>1. plink_active \in Seq(Msg) /\ Distinct(plink_active) /\ Listed = Elems(plink_active)
  BY DEF IInv, TypeOK, ListedAre, Listed, Elems
<1>2. QED
  BY <1>1, Removed DEF espconn_list_delete

(* The state as the invariant sees it: each message listed or not.         *)
LEMMA Looked ==
    ASSUME IInv
    PROVE  /\ Listed \subseteq Msg /\ IsFiniteSet(Listed)
           /\ \A m \in Listed : msg[m] # None /\ msg[m] \in Message /\ msg[m].pcb \in Pcb
                                /\ timer[m] \in {"off", "close"}
           /\ \A p \in Pcb : pcb[p] \in Block /\ pcb[p].arg \in Msg \cup {None}
                               /\ pcb[p].live \in BOOLEAN /\ pcb[p].state \in TcpState
<1>1. plink_active \in Seq(Msg) /\ Distinct(plink_active) /\ Listed = Elems(plink_active)
  BY DEF IInv, TypeOK, ListedAre, Listed, Elems
<1>2. IsFiniteSet(Listed)
  BY <1>1, DistinctLength
<1>3. Listed = {m \in Msg : msg[m] # None /\ timer[m] # "reconnect"}
  BY DEF IInv, ListedAre
<1>4. ASSUME NEW m \in Listed
      PROVE  msg[m] # None /\ msg[m] \in Message /\ msg[m].pcb \in Pcb
             /\ timer[m] \in {"off", "close"}
  <2>1. m \in Msg /\ msg[m] \in Message /\ timer[m] \in {"off", "close"} /\ msg[m] # None
    BY <1>3 DEF IInv, TypeOK
  <2>2. QED
    BY <2>1 DEF Message
<1>5. ASSUME NEW p \in Pcb
      PROVE  pcb[p] \in Block /\ pcb[p].arg \in Msg \cup {None}
             /\ pcb[p].live \in BOOLEAN /\ pcb[p].state \in TcpState
  BY DEF IInv, TypeOK, Block
<1>6. QED
  BY <1>2, <1>3, <1>4, <1>5

LEMMA FewerLinks ==
    ASSUME IInv, ServerNodes' \subseteq ServerNodes
    PROVE  LinksBounded'
<1>1. IsFiniteSet(ServerNodes)
  BY Looked, FS_Subset, ServerNodes \subseteq Listed DEF ServerNodes
<1>2. Cardinality(ServerNodes') <= Cardinality(ServerNodes)
  BY <1>1, FS_Subset
<1>3. Cardinality(ServerNodes) \in Nat /\ Cardinality(ServerNodes') \in Nat
  BY <1>1, FS_Subset, FS_CardinalityType
<1>4. QED
  BY <1>2, <1>3, Constants DEF IInv, LinksBounded

(* A block changes hands or ends, and the message v that was its argument, *)
(* or none, is told: nothing that goes on is left with the block.          *)
Loses(p, b, v) ==
    /\ b.arg = None /\ (b.live => b.state = "SYN_RCVD" /\ ~b.handlers)
    /\ v = None \/ v = pcb[p].arg
    /\ \A n \in Listed \ {v} :
          msg[n].pcb = p => timer[n] = "close" /\ (reused' \/ ~b.live)
    /\ pcb' = [pcb EXCEPT ![p] = b]
    /\ espconn_err(v)
    /\ reused' \in BOOLEAN /\ (reused => reused')
    /\ UNCHANGED <<msg, link_cnt, closed_twice>>

LEMMA Lost ==
    ASSUME IInv, NEW p \in Pcb, NEW b \in Block, NEW v \in Msg \cup {None}, Loses(p, b, v)
    PROVE  IInv'
<1> USE DEF Loses
<1>1. /\ plink_active' \in Seq(Msg) /\ Distinct(plink_active') /\ Elems(plink_active') = Listed \ {v}
      /\ timer' = IF v = None THEN timer ELSE [timer EXCEPT ![v] = "reconnect"]
  BY ListDeleted DEF espconn_err
<1>2. Listed' = Listed \ {v}
  BY <1>1 DEF Listed, Elems
<1>3. /\ timer' \in [Msg -> {"off", "close", "reconnect"}]
      /\ \A m \in Msg : m # v => timer'[m] = timer[m]
      /\ v # None => v \in Msg /\ timer'[v] = "reconnect"
  BY <1>1 DEF IInv, TypeOK
<1>4. /\ pcb' \in [Pcb -> Block] /\ pcb'[p] = b
      /\ \A q \in Pcb : q # p => pcb'[q] = pcb[q]
  BY DEF IInv, TypeOK
<1>5. v # None => v = pcb[p].arg /\ msg[v] # None /\ msg[v].pcb = p /\ v \in Listed
                  /\ \A q \in Pcb : pcb[q].arg = v => q = p
  BY DEF IInv, ArgIsMine, ArgListed
<1>6. TypeOK'
  BY <1>1, <1>3, <1>4 DEF IInv, TypeOK
<1>7. TimerOwned'
  <2>1. ASSUME NEW m \in Msg, timer'[m] # "off" PROVE msg'[m] # None
    <3>1. CASE m = v
      BY <1>5, <3>1, Constants
    <3>2. CASE m # v
      BY <1>3, <2>1, <3>2 DEF IInv, TimerOwned
    <3>3. QED
      BY <3>1, <3>2
  <2>2. QED
    BY <2>1 DEF TimerOwned
<1>8. ArgIsMine'
  BY <1>4 DEF IInv, ArgIsMine
<1>9. ListedAre'
  <2>1. Listed = {m \in Msg : msg[m] # None /\ timer[m] # "reconnect"}
    BY DEF IInv, ListedAre
  <2>2. ASSUME NEW m \in Msg
        PROVE  m \in Listed \ {v} <=> msg'[m] # None /\ timer'[m] # "reconnect"
    <3>1. CASE m = v
      BY <1>3, <3>1, Constants
    <3>2. CASE m # v
      BY <1>3, <2>1, <3>2
    <3>3. QED
      BY <3>1, <3>2
  <2>3. Listed' = {m \in Msg : msg'[m] # None /\ timer'[m] # "reconnect"}
    BY <1>2, <2>1, <2>2
  <2>4. QED
    BY <1>1, <2>3 DEF ListedAre
<1>10. ArgListed'
  BY <1>2, <1>4, <1>5 DEF IInv, ArgListed
<1>11. ArgStates'
  BY <1>4 DEF IInv, ArgStates, Active
<1>12. ClosingTimed'
  BY <1>3, <1>4, <1>5, Looked DEF IInv, ClosingTimed
<1>13. Attended'
  BY <1>2, <1>3, <1>4, Looked DEF IInv, Attended
<1>14. Unshared'
  BY <1>2, <1>3, Looked DEF IInv, Unshared
<1>15. OneOwner'
  BY <1>2, <1>4, Looked DEF IInv, OneOwner
<1>16. LinksBounded'
  <2>1. ServerNodes' \subseteq ServerNodes
    BY <1>2 DEF ServerNodes, IsServer
  <2>2. QED
    BY <2>1, FewerLinks
<1>17. ClosedOnce'
  BY DEF IInv, ClosedOnce
<1>18. QED
  BY <1>6, <1>7, <1>8, <1>9, <1>10, <1>11, <1>12, <1>13, <1>14, <1>15, <1>16, <1>17 DEF IInv

(* The block tcp_alloc takes: whoever refers to it is closing, or is the   *)
(* connection whose error callback is run.                                 *)
LEMMA AllocSafe ==
    ASSUME IInv, NEW p \in tcp_alloc, reused' = (reused \/ TakenFrom(p) # {})
    PROVE  /\ p \in Pcb
           /\ Victim(p) \in Msg \cup {None}
           /\ Victim(p) = None \/ Victim(p) = pcb[p].arg
           /\ \A n \in Listed \ {Victim(p)} :
                  msg[n].pcb = p => timer[n] = "close" /\ reused'
           /\ reused' \in BOOLEAN /\ (reused => reused')
<1>1. p \in Pcb /\ (p \in FreeBlocks \/ p \in TimeWaits \/ Active(p))
  BY DEF tcp_alloc, FreeBlocks, TimeWaits
<1>2. Victim(p) \in Msg \cup {None} /\ (Victim(p) = None \/ Victim(p) = pcb[p].arg)
  BY <1>1, Looked DEF Victim
<1>3. ASSUME NEW n \in Listed, n # Victim(p), msg[n].pcb = p
      PROVE  timer[n] = "close" /\ reused'
  <2>1. n \in Msg /\ n # None /\ p \in Referenced
    BY <1>3, Looked, Constants DEF Referenced
  <2>2. \/ timer[n] = "close"
        \/ pcb[p].arg = n
        \/ reused /\ pcb[p].live /\ pcb[p].state = "CLOSED"
    BY <1>3 DEF IInv, Attended
  <2>3. reused'
    BY <1>3 DEF TakenFrom
  <2>4. CASE p \in FreeBlocks
    BY <2>1, <2>2, <2>3, <2>4 DEF FreeBlocks, IInv, ArgIsMine
  <2>5. CASE p \in TimeWaits
    BY <2>1, <2>2, <2>3, <2>5 DEF TimeWaits, IInv, ClosingTimed
  <2>6. CASE Active(p)
    <3>1. pcb[p].live /\ pcb[p].state # "CLOSED" /\ pcb[p].arg # n
      BY <1>3, <2>6 DEF Active, Victim
    <3>2. QED
      BY <2>2, <2>3, <3>1
  <2>7. QED
    BY <1>1, <2>4, <2>5, <2>6
<1>4. reused' \in BOOLEAN /\ (reused => reused')
  BY DEF IInv, TypeOK
<1>5. QED
  BY <1>1, <1>2, <1>3, <1>4

(* A message that was free takes over a block, whose last message v, or    *)
(* none, is told.                                                          *)
TakesOver(m, p, v, b, a) ==
    /\ msg[m] = None
    /\ v = None \/ v = pcb[p].arg
    /\ \A n \in Listed \ {v} : msg[n].pcb = p => timer[n] = "close" /\ reused'
    /\ reused' \in BOOLEAN /\ (reused => reused')
    /\ b.live /\ b.arg = m /\ b.state \in {"SYN_SENT", "CLOSED", "ESTABLISHED"}
    /\ a.pcb = p
    /\ pcb' = [pcb EXCEPT ![p] = b]
    /\ msg' = [msg EXCEPT ![m] = a]
    /\ plink_active' = Append(espconn_list_delete(v), m)
    /\ timer' = IF v = None THEN timer ELSE [timer EXCEPT ![v] = "reconnect"]
    /\ link_cnt' \in 0 .. MaxActive + 1
    /\ closed_twice' = closed_twice
    /\ LinksBounded'

LEMMA ConnectionTaken ==
    ASSUME IInv, NEW m \in Msg, NEW p \in Pcb, NEW v \in Msg \cup {None},
           NEW b \in Block, NEW a \in Message, TakesOver(m, p, v, b, a)
    PROVE  IInv'
<1> USE DEF TakesOver
<1>1. m \notin Listed /\ timer[m] = "off" /\ m # None /\ m # v
  BY Looked, Constants DEF IInv, TypeOK, TimerOwned, ArgIsMine
<1>2. /\ plink_active' \in Seq(Msg) /\ Distinct(plink_active')
      /\ Elems(plink_active') = (Listed \ {v}) \cup {m}
  <2> DEFINE r == espconn_list_delete(v)
  <2>1. r \in Seq(Msg) /\ Distinct(r) /\ Elems(r) = Listed \ {v}
    BY ListDeleted
  <2>2. plink_active' = Append(r, m)
    OBVIOUS
  <2> HIDE DEF r
  <2>3. QED
    BY <1>1, <2>1, <2>2, Appended
<1>3. Listed' = (Listed \ {v}) \cup {m}
  BY <1>2 DEF Listed, Elems
<1>4. /\ timer' \in [Msg -> {"off", "close", "reconnect"}]
      /\ \A n \in Msg : n # v => timer'[n] = timer[n]
      /\ v # None => v \in Msg /\ timer'[v] = "reconnect"
  BY DEF IInv, TypeOK
<1>5. /\ pcb' \in [Pcb -> Block] /\ pcb'[p] = b
      /\ \A q \in Pcb : q # p => pcb'[q] = pcb[q]
  BY DEF IInv, TypeOK
<1>6. /\ msg' \in [Msg -> Message \cup {None}] /\ msg'[m] = a
       /\ \A n \in Msg : n # m => msg'[n] = msg[n]
  BY DEF IInv, TypeOK
<1>7. v # None => v = pcb[p].arg /\ msg[v] # None /\ v \in Listed
                     /\ \A q \in Pcb : pcb[q].arg = v => q = p
  BY DEF IInv, ArgIsMine, ArgListed
<1>8. \A q \in Pcb : pcb[q].arg # m
  BY <1>1 DEF IInv, ArgIsMine
<1>9. TypeOK'
  BY <1>2, <1>4, <1>5, <1>6 DEF IInv, TypeOK
<1>10. TimerOwned'
  <2>1. ASSUME NEW n \in Msg, timer'[n] # "off" PROVE msg'[n] # None
    <3>1. CASE n = m
      BY <1>6, <3>1, Constants
    <3>2. CASE n = v
      BY <1>1, <1>6, <1>7, <3>2, Constants
    <3>3. CASE n # v /\ n # m
      BY <1>4, <1>6, <2>1, <3>3 DEF IInv, TimerOwned
    <3>4. QED
      BY <3>1, <3>2, <3>3
  <2>2. QED
    BY <2>1 DEF TimerOwned
<1>11. ArgIsMine'
  <2>1. ASSUME NEW q \in Pcb, pcb'[q].arg # None
        PROVE  pcb'[q].live /\ msg'[pcb'[q].arg] # None /\ msg'[pcb'[q].arg].pcb = q
    <3>1. CASE q = p
      BY <1>5, <1>6, <3>1, Constants
    <3>2. CASE q # p
      BY <1>5, <1>6, <1>8, <2>1, <3>2, Looked DEF IInv, ArgIsMine
    <3>3. QED
      BY <3>1, <3>2
  <2>2. QED
    BY <2>1 DEF ArgIsMine
<1>12. ListedAre'
  <2>1. Listed = {n \in Msg : msg[n] # None /\ timer[n] # "reconnect"}
    BY DEF IInv, ListedAre
  <2>2. ASSUME NEW n \in Msg
        PROVE  n \in (Listed \ {v}) \cup {m} <=> msg'[n] # None /\ timer'[n] # "reconnect"
    <3>1. CASE n = m
      BY <1>1, <1>4, <1>6, <3>1, Constants
    <3>2. CASE n = v
      BY <1>1, <1>4, <3>2, Constants
    <3>3. CASE n # v /\ n # m
      BY <1>4, <1>6, <2>1, <3>3
    <3>4. QED
      BY <3>1, <3>2, <3>3
  <2>3. Listed' = {n \in Msg : msg'[n] # None /\ timer'[n] # "reconnect"}
    BY <1>3, <2>1, <2>2
  <2>4. QED
    BY <1>2, <2>3 DEF ListedAre
<1>13. ArgListed'
  BY <1>3, <1>5, <1>7 DEF IInv, ArgListed
<1>14. ArgStates'
  BY <1>1, <1>5 DEF IInv, ArgStates, Active
<1>15. ClosingTimed'
  BY <1>4, <1>5, <1>7, Looked DEF IInv, ClosingTimed
<1>16. Attended'
  <2>1. ASSUME NEW n \in Listed'
        PROVE  LET q == msg'[n].pcb IN
                 \/ timer'[n] = "close"
                 \/ pcb'[q].arg = n
                 \/ reused' /\ pcb'[q].live /\ pcb'[q].state = "CLOSED" /\ pcb'[q].arg = None
    <3>1. CASE n = m
      BY <1>5, <1>6, <3>1
    <3>2. CASE n # m
      BY <1>3, <1>4, <1>5, <1>6, <2>1, <3>2, Looked DEF IInv, Attended
    <3>3. QED
      BY <3>1, <3>2
  <2>2. QED
    BY <2>1 DEF Attended
<1>17. Unshared'
  <2>1. \A n \in Listed' : n # m => n \in Listed \ {v} /\ n \in Msg /\ msg'[n] = msg[n]
                                   /\ timer'[n] = timer[n]
    BY <1>3, <1>4, <1>6, Looked
  <2>2. ASSUME NEW k \in Listed', NEW n \in Listed', msg'[k].pcb = msg'[n].pcb,
               timer'[k] # "close", timer'[n] # "close"
        PROVE  k = n
    <3>1. CASE k = m /\ n # m
      BY <1>6, <2>1, <2>2, <3>1
    <3>2. CASE n = m /\ k # m
      BY <1>6, <2>1, <2>2, <3>2
    <3>3. CASE k # m /\ n # m
      BY <2>1, <2>2, <3>3 DEF IInv, Unshared
    <3>4. QED
      BY <3>1, <3>2, <3>3
  <2>3. QED
    BY <2>2 DEF Unshared
<1>18. OneOwner'
  <2>1. ASSUME ~reused', NEW n \in Listed', pcb'[msg'[n].pcb].live
        PROVE  pcb'[msg'[n].pcb].arg = n
    <3>1. CASE n = m
      BY <1>5, <1>6, <3>1
    <3>2. CASE n # m
      BY <1>3, <1>5, <1>6, <2>1, <3>2, Looked DEF IInv, OneOwner
    <3>3. QED
      BY <3>1, <3>2
  <2>2. QED
    BY <2>1 DEF OneOwner
<1>19. ClosedOnce'
  BY DEF IInv, ClosedOnce
<1>20. QED
  BY <1>9, <1>10, <1>11, <1>12, <1>13, <1>14, <1>15, <1>16, <1>17, <1>18, <1>19
  DEF IInv

(* espconn_connect: a client's message takes a block.                      *)
LEMMA Connected ==
    ASSUME IInv, NEW c \in Client, espconn_connect(c)
    PROVE  IInv'
<1>1. PICK m \in Msg, p \in tcp_alloc, connected \in BOOLEAN :
        /\ msg[m] = None
        /\ pcb' = [pcb EXCEPT ![p] = Fresh(IF connected THEN "SYN_SENT" ELSE "CLOSED", m)]
        /\ msg' = [msg EXCEPT ![m] = [pespconn |-> c, pcb |-> p]]
        /\ plink_active' = Append(espconn_list_delete(Victim(p)), m)
        /\ timer' = IF Victim(p) = None THEN timer
                    ELSE [timer EXCEPT ![Victim(p)] = "reconnect"]
        /\ reused' = (reused \/ TakenFrom(p) # {})
        /\ UNCHANGED <<link_cnt, closed_twice>>
  BY DEF espconn_connect
<1> DEFINE v == Victim(p)
           b == Fresh(IF connected THEN "SYN_SENT" ELSE "CLOSED", m)
           a == [pespconn |-> c, pcb |-> p]
<1>2. /\ p \in Pcb /\ v \in Msg \cup {None} /\ (v = None \/ v = pcb[p].arg)
      /\ \A n \in Listed \ {v} : msg[n].pcb = p => timer[n] = "close" /\ reused'
      /\ reused' \in BOOLEAN /\ (reused => reused')
  BY <1>1, AllocSafe
<1>3. b \in Block /\ b.live /\ b.arg = m /\ b.state \in {"SYN_SENT", "CLOSED"}
  BY DEF Fresh, Block, TcpState
<1>4. a \in Message /\ a.pcb = p /\ a.pespconn = c
  BY <1>2 DEF Message, Handle
<1>5. /\ pcb' = [pcb EXCEPT ![p] = b]
      /\ msg' = [msg EXCEPT ![m] = a]
      /\ plink_active' = Append(espconn_list_delete(v), m)
      /\ timer' = IF v = None THEN timer ELSE [timer EXCEPT ![v] = "reconnect"]
  BY <1>1
<1> HIDE DEF v, b, a
<1>6. link_cnt' \in 0 .. MaxActive + 1 /\ closed_twice' = closed_twice
  BY <1>1 DEF IInv, TypeOK
<1>7. LinksBounded'
  <2> DEFINE r == espconn_list_delete(v)
  <2>1. r \in Seq(Msg) /\ Distinct(r) /\ Elems(r) = Listed \ {v} /\ m \notin Listed
    BY <1>1, ListDeleted, Looked
  <2>2. plink_active' = Append(r, m)
    BY <1>5
  <2> HIDE DEF r
  <2>3. Listed' = (Listed \ {v}) \cup {m}
    <3>1. m \in Msg /\ m \notin Elems(r)
      BY <2>1
    <3>2. Elems(Append(r, m)) = Elems(r) \cup {m}
      BY <2>1, <3>1, Appended
    <3>3. QED
      BY <2>1, <2>2, <3>2 DEF Listed, Elems
  <2>4. msg'[m] = a /\ \A n \in Msg : n # m => msg'[n] = msg[n]
    BY <1>5 DEF IInv, TypeOK
  <2>5. ServerNodes' \subseteq ServerNodes
    <3>1. ASSUME NEW n \in Listed', msg'[n].pespconn \in Msg
          PROVE  n \in Listed /\ msg[n].pespconn \in Msg
      BY <1>4, <2>3, <2>4, <3>1, Looked, Constants
    <3>2. QED
      BY <3>1 DEF ServerNodes, IsServer
  <2>6. QED
    BY <2>5, FewerLinks
<1>8. TakesOver(m, p, v, b, a)
  BY <1>1, <1>2, <1>3, <1>4, <1>5, <1>6, <1>7 DEF TakesOver
<1>9. QED
  BY <1>2, <1>3, <1>4, <1>8, ConnectionTaken

(* Nobody told: the list and the timers stay.                              *)
LEMMA NoneDeleted ==
    ASSUME IInv
    PROVE  espconn_list_delete(None) = plink_active
<1>1. \A i \in 1 .. Len(plink_active) : plink_active[i] # None
  BY Looked, Constants DEF Listed
<1>2. QED
  BY <1>1 DEF espconn_list_delete, RemoveFirst

LEMMA Untold ==
    ASSUME IInv, UNCHANGED <<plink_active, timer>>
    PROVE  espconn_err(None)
BY NoneDeleted DEF espconn_err

(* A block is freed: its message is told, or is already being closed.      *)
LEMMA Ended ==
    ASSUME IInv, NEW p \in Pcb, NEW s \in TcpState, NEW v \in Msg \cup {None},
           pcb[p].live => pcb[p].state # "CLOSED",
           \/ v = pcb[p].arg
           \/ v = None /\ pcb[p].state \notin {"SYN_SENT", "ESTABLISHED"}
           \/ v = None /\ ~pcb[p].live,
           pcb' = [pcb EXCEPT ![p] = Freed(s)], espconn_err(v),
           UNCHANGED <<msg, link_cnt, closed_twice, reused>>
    PROVE  IInv'
<1> DEFINE b == Freed(s)
<1>1. b \in Block /\ b.arg = None /\ ~b.live
  BY DEF Freed, Block
<1>2. pcb' = [pcb EXCEPT ![p] = b]
  OBVIOUS
<1> HIDE DEF b
<1>3. ASSUME NEW n \in Listed, n # v, msg[n].pcb = p PROVE timer[n] = "close"
  <2>1. n \in Msg /\ n # None
    BY Looked, Constants
  <2>2. timer[n] = "close" \/ pcb[p].arg = n
    BY <1>3 DEF IInv, Attended
  <2>3. pcb[p].arg = n => pcb[p].live /\ (timer[n] = "close"
                                             \/ pcb[p].state \in {"SYN_SENT", "ESTABLISHED"})
    BY <2>1 DEF IInv, ArgIsMine, ClosingTimed
  <2>4. QED
    BY <1>3, <2>1, <2>2, <2>3
<1>4. v = None \/ v = pcb[p].arg
  OBVIOUS
<1>5. Loses(p, b, v)
  BY <1>1, <1>2, <1>3, <1>4 DEF Loses, IInv, TypeOK
<1>6. QED
  BY <1>1, <1>5, Lost

LEMMA BlocksEnd ==
    ASSUME IInv, NEW p \in Pcb,
           AcceptNoMessage(p) \/ RecvLastAck(p) \/ Reset(p) \/ Timeout(p)
             \/ TimeWaitExpires(p) \/ Reuse(p)
    PROVE  IInv'
<1> USE DEF TcpState
<1>1. pcb[p].arg \in Msg \cup {None} /\ pcb[p].state \in TcpState
  BY Looked
<1>2. CASE AcceptNoMessage(p)
  BY <1>2, Untold, Ended DEF AcceptNoMessage
<1>3. CASE RecvLastAck(p)
  <2>1. CASE pcb[p].rxclosed
    BY <1>3, <2>1, Untold, Ended DEF RecvLastAck
  <2>2. CASE ~pcb[p].rxclosed
    BY <1>1, <1>3, <2>2, Ended DEF RecvLastAck
  <2>3. QED
    BY <2>1, <2>2
<1>4. CASE Reset(p)
  BY <1>1, <1>4, Ended DEF Reset, Active
<1>5. CASE Timeout(p)
  BY <1>1, <1>5, Ended DEF Timeout, Active
<1>6. CASE TimeWaitExpires(p)
  BY <1>6, Untold, Ended DEF TimeWaitExpires
<1>7. CASE Reuse(p)
  BY <1>7, Untold, Ended DEF Reuse
<1>8. QED
  BY <1>2, <1>3, <1>4, <1>5, <1>6, <1>7

(* A SYN takes a block; it has no message yet.                             *)
LEMMA Listened ==
    ASSUME IInv, tcp_listen_input
    PROVE  IInv'
<1>1. PICK p \in tcp_alloc : /\ pcb' = [pcb EXCEPT ![p] = Fresh("SYN_RCVD", None)]
                             /\ espconn_err(Victim(p))
                             /\ reused' = (reused \/ TakenFrom(p) # {})
  BY DEF tcp_listen_input
<1> DEFINE b == Fresh("SYN_RCVD", None)
<1>2. b \in Block /\ b.arg = None /\ b.state = "SYN_RCVD" /\ ~b.handlers
  BY DEF Fresh, Block, TcpState
<1>3. pcb' = [pcb EXCEPT ![p] = b]
  BY <1>1
<1> HIDE DEF b
<1>4. Loses(p, b, Victim(p))
  BY <1>1, <1>2, <1>3, AllocSafe DEF Loses, tcp_listen_input
<1>5. QED
  BY <1>1, <1>2, <1>4, AllocSafe, Lost

(* The ACK of a half open connection: it gets a message, unless the links  *)
(* are full.                                                               *)
LEMMA Accepted ==
    ASSUME IInv, NEW p \in Pcb, espconn_tcp_accept(p)
    PROVE  IInv'
<1>1. PICK m \in Msg :
        LET cnt == Cardinality(ServerNodes) + 1
        IN  /\ msg[m] = None
            /\ msg' = [msg EXCEPT ![m] = [pespconn |-> m, pcb |-> p]]
            /\ link_cnt' = cnt
            /\ IF TooManyLinks(cnt)
               THEN /\ pcb' = [pcb EXCEPT ![p] = Freed("CLOSED")]
                    /\ plink_active' = plink_active
                    /\ timer' = [timer EXCEPT ![m] = "reconnect"]
               ELSE /\ pcb' = [pcb EXCEPT ![p] = [Fresh("ESTABLISHED", m) EXCEPT !.handlers = TRUE]]
                    /\ plink_active' = Append(plink_active, m)
                    /\ timer' = timer
  BY DEF espconn_tcp_accept
<1> DEFINE a == [pespconn |-> m, pcb |-> p]
           c == [Fresh("ESTABLISHED", m) EXCEPT !.handlers = TRUE]
           d == Freed("CLOSED")
<1>2. a \in Message /\ a.pcb = p /\ a.pespconn = m /\ msg' = [msg EXCEPT ![m] = a]
  BY <1>1 DEF Message, Handle
<1>3. c \in Block /\ c.live /\ c.arg = m /\ c.state = "ESTABLISHED"
  BY DEF Fresh, Block, TcpState
<1>4. d \in Block /\ ~d.live /\ d.arg = None /\ d.state = "CLOSED"
  BY DEF Freed, Block, TcpState
<1>5. closed_twice' = closed_twice /\ reused' = reused /\ reused \in BOOLEAN
      /\ pcb[p].live /\ pcb[p].state = "SYN_RCVD"
      /\ pcb[p].arg = None
  BY DEF espconn_tcp_accept, IInv, TypeOK, ArgStates, Active
<1>6. \A n \in Listed : msg[n].pcb = p => timer[n] = "close" /\ reused
  <2>1. ASSUME NEW n \in Listed, msg[n].pcb = p PROVE timer[n] = "close" /\ reused
    <3>1. n # None
      BY Looked, Constants
    <3>2. ~reused => pcb[p].arg = n
      BY <1>5, <2>1 DEF IInv, OneOwner
    <3>3. timer[n] = "close" \/ pcb[p].arg = n
      BY <1>5, <2>1 DEF IInv, Attended
    <3>4. QED
      BY <1>5, <3>1, <3>2, <3>3
  <2>2. QED
    BY <2>1
<1>7. IsFiniteSet(ServerNodes) /\ Cardinality(ServerNodes) \in Nat
      /\ Cardinality(ServerNodes) <= MaxActive
  <2>1. IsFiniteSet(ServerNodes)
    BY Looked, FS_Subset, ServerNodes \subseteq Listed DEF ServerNodes
  <2>2. QED
    BY <2>1, FS_CardinalityType DEF IInv, LinksBounded
<1>8. link_cnt' \in 0 .. MaxActive + 1
  BY <1>1, <1>7, Constants
<1>9. m \notin Listed /\ m \notin ServerNodes /\ m # None /\ timer[m] = "off"
  BY <1>1, Looked, Constants DEF ServerNodes, IInv, TypeOK, TimerOwned
<1>10. msg' \in [Msg -> Message \cup {None}] /\ msg'[m] = a
       /\ \A n \in Msg : n # m => msg'[n] = msg[n]
  BY <1>2 DEF IInv, TypeOK
<1> HIDE DEF a, c, d
<1>11. CASE ~TooManyLinks(Cardinality(ServerNodes) + 1)
  <2>1. /\ pcb' = [pcb EXCEPT ![p] = c]
        /\ plink_active' = Append(plink_active, m)
        /\ timer' = timer
    BY <1>1, <1>11 DEF c
  <2>2. espconn_list_delete(None) = plink_active
    BY NoneDeleted
  <2>3. LinksBounded'
    <3>1. plink_active \in Seq(Msg) /\ Distinct(plink_active) /\ Listed = Elems(plink_active)
      BY DEF IInv, TypeOK, ListedAre, Listed, Elems
    <3>2. Elems(Append(plink_active, m)) = Elems(plink_active) \cup {m}
      BY <1>9, <3>1, Appended
    <3>3. Listed' = Listed \cup {m}
      BY <2>1, <3>1, <3>2 DEF Listed, Elems
    <3>4. ServerNodes' = ServerNodes \cup {m}
      BY <1>2, <1>9, <1>10, <3>3, Looked DEF ServerNodes, IsServer
    <3>5. Cardinality(ServerNodes') = Cardinality(ServerNodes) + 1
      BY <1>7, <1>9, <3>4, FS_AddElement
    <3>6. QED
      BY <1>7, <1>11, <3>5, Constants DEF LinksBounded, TooManyLinks
  <2>4. TakesOver(m, p, None, c, a)
    BY <1>1, <1>2, <1>3, <1>5, <1>6, <1>8, <2>1, <2>2, <2>3 DEF TakesOver
  <2>5. QED
    BY <1>2, <1>3, <2>4, ConnectionTaken
<1>12. CASE TooManyLinks(Cardinality(ServerNodes) + 1)
  <2>1. /\ pcb' = [pcb EXCEPT ![p] = d]
        /\ plink_active' = plink_active
        /\ timer' = [timer EXCEPT ![m] = "reconnect"]
    BY <1>1, <1>12 DEF d
  <2>2. /\ pcb' \in [Pcb -> Block] /\ pcb'[p] = d
        /\ \A q \in Pcb : q # p => pcb'[q] = pcb[q]
    BY <1>4, <2>1 DEF IInv, TypeOK
  <2>3. /\ timer' \in [Msg -> {"off", "close", "reconnect"}] /\ timer'[m] = "reconnect"
        /\ \A n \in Msg : n # m => timer'[n] = timer[n]
    BY <2>1 DEF IInv, TypeOK
  <2>4. Listed' = Listed
    BY <2>1 DEF Listed
  <2>5. \A n \in Listed : n \in Msg /\ n # m /\ msg'[n] = msg[n] /\ timer'[n] = timer[n]
    BY <1>9, <1>10, <2>3, Looked
  <2>6. TypeOK'
    BY <1>5, <1>8, <1>10, <2>1, <2>2, <2>3 DEF IInv, TypeOK
  <2>7. TimerOwned'
    <3>1. ASSUME NEW n \in Msg, timer'[n] # "off" PROVE msg'[n] # None
      <4>1. CASE n = m
        BY <1>2, <1>10, <4>1, Constants
      <4>2. CASE n # m
        BY <1>10, <2>3, <3>1, <4>2 DEF IInv, TimerOwned
      <4>3. QED
        BY <4>1, <4>2
    <3>2. QED
      BY <3>1 DEF TimerOwned
  <2>8. ArgIsMine'
    <3>1. \A q \in Pcb : pcb[q].arg # m
      BY <1>1, <1>9 DEF IInv, ArgIsMine
    <3>2. QED
      BY <1>4, <1>10, <2>2, <3>1, Looked DEF IInv, ArgIsMine
  <2>9. ListedAre'
    <3>1. Listed = {n \in Msg : msg[n] # None /\ timer[n] # "reconnect"}
      BY DEF IInv, ListedAre
    <3>2. \A n \in Msg : n \in Listed <=> msg'[n] # None /\ timer'[n] # "reconnect"
      BY <1>9, <1>10, <2>3, <3>1
    <3>3. Listed = {n \in Msg : msg'[n] # None /\ timer'[n] # "reconnect"}
      BY <3>1, <3>2
    <3>4. QED
      BY <2>1, <2>4, <3>3 DEF IInv, ListedAre, Distinct
  <2>10. ArgListed'
    BY <1>4, <2>2, <2>4 DEF IInv, ArgListed
  <2>11. ArgStates'
    BY <1>4, <2>2 DEF IInv, ArgStates, Active
  <2>12. ClosingTimed'
    BY <1>4, <2>2, <2>5 DEF IInv, ClosingTimed, ArgListed
  <2>13. Attended'
    <3>1. \A n \in Listed : msg[n].pcb = p => timer[n] = "close"
      BY <1>6
    <3>2. QED
      BY <1>5, <2>2, <2>4, <2>5, <3>1, Looked DEF IInv, Attended
  <2>14. Unshared'
    BY <2>4, <2>5 DEF IInv, Unshared
  <2>15. OneOwner'
    BY <1>4, <1>5, <2>2, <2>4, <2>5, Looked DEF IInv, OneOwner
  <2>16. LinksBounded'
    <3>1. ServerNodes' \subseteq ServerNodes
      BY <2>4, <2>5 DEF ServerNodes, IsServer
    <3>2. QED
      BY <3>1, FewerLinks
  <2>17. ClosedOnce'
    BY <1>5 DEF IInv, ClosedOnce
  <2>18. QED
    BY <2>6, <2>7, <2>8, <2>9, <2>10, <2>11, <2>12, <2>13, <2>14, <2>15, <2>16, <2>17 DEF IInv
<1>13. QED
  BY <1>11, <1>12

-----------------------------------------------------------------------------
(* Nothing is referred to, as after a reset of the chip.                   *)
Blank ==
    /\ pcb = [p \in Pcb |-> Freed("OTHER")]
    /\ msg = [m \in Msg |-> None]
    /\ plink_active = <<>>
    /\ timer = [m \in Msg |-> "off"]
    /\ link_cnt = 0
    /\ closed_twice \in BOOLEAN /\ reused \in BOOLEAN /\ ClosedOnce

LEMMA BlankSound == Blank => IInv
<1> SUFFICES ASSUME Blank PROVE IInv
  OBVIOUS
<1> DEFINE b == Freed("OTHER")
<1>1. b \in Block /\ b.arg = None /\ ~b.live
  BY DEF Freed, Block, TcpState
<1>2. pcb \in [Pcb -> Block] /\ \A p \in Pcb : pcb[p] = b
  BY <1>1 DEF Blank
<1> HIDE DEF b
<1>3. plink_active \in Seq(Msg) /\ Len(plink_active) = 0
  BY DEF Blank
<1>4. Listed = {}
  BY <1>3 DEF Listed
<1>5. \A m \in Msg : msg[m] = None /\ timer[m] = "off"
  BY DEF Blank
<1>6. TypeOK
  BY <1>2, <1>3, Constants DEF Blank, TypeOK
<1>7. TimerOwned
  BY <1>5 DEF TimerOwned
<1>8. ArgIsMine /\ ArgListed /\ ArgStates /\ ClosingTimed
  BY <1>1, <1>2 DEF ArgIsMine, ArgListed, ArgStates, ClosingTimed, Active
<1>9. ListedAre
  BY <1>3, <1>4, <1>5 DEF ListedAre, Distinct
<1>10. Attended /\ Unshared /\ OneOwner
  BY <1>4 DEF Attended, Unshared, OneOwner
<1>11. LinksBounded
  <2>1. ServerNodes = {}
    BY <1>4 DEF ServerNodes
  <2>2. QED
    BY <2>1, FS_EmptySet, Constants DEF LinksBounded
<1>12. QED
  BY <1>6, <1>7, <1>8, <1>9, <1>10, <1>11 DEF IInv, Blank

LEMMA WasReset ==
    ASSUME IInv, NEW p \in Pcb, AcceptNoEspconn(p)
    PROVE  IInv'
<1>1. Blank'
  BY DEF AcceptNoEspconn, Blank, IInv, TypeOK, ClosedOnce
<1>2. Blank' => IInv'
  BY BlankSound, PTL
<1>3. QED
  BY <1>1, <1>2

-----------------------------------------------------------------------------
(* A connection goes on: its block changes state only.                     *)
Moves(p, b) ==
    /\ b.live /\ pcb[p].live /\ b.arg = pcb[p].arg /\ pcb[p].arg # None
    /\ b.state \notin {"CLOSED", "SYN_RCVD"}
    /\ b.state = "ESTABLISHED" \/ timer[pcb[p].arg] = "close"
    /\ pcb[p].state # "CLOSED"
    /\ pcb' = [pcb EXCEPT ![p] = b]
    /\ UNCHANGED <<msg, plink_active, timer, link_cnt, closed_twice, reused>>

LEMMA Moved ==
    ASSUME IInv, NEW p \in Pcb, NEW b \in Block, Moves(p, b)
    PROVE  IInv'
<1> USE DEF Moves
<1>1. /\ pcb' \in [Pcb -> Block] /\ pcb'[p] = b
      /\ \A q \in Pcb : q # p => pcb'[q] = pcb[q]
      /\ \A q \in Pcb : pcb'[q].arg = pcb[q].arg /\ (pcb'[q].live <=> pcb[q].live)
  BY DEF IInv, TypeOK
<1>2. Listed' = Listed /\ ServerNodes' = ServerNodes
  BY DEF Listed, ServerNodes, IsServer
<1>3. TypeOK'
  BY <1>1 DEF IInv, TypeOK
<1>4. TimerOwned' /\ ArgIsMine' /\ ArgListed' /\ LinksBounded' /\ ClosedOnce'
  BY <1>1, <1>2 DEF IInv, TimerOwned, ArgIsMine, ArgListed, LinksBounded, ClosedOnce
<1>5. ListedAre'
  BY <1>2 DEF IInv, ListedAre, Distinct
<1>6. ArgStates'
  BY <1>1 DEF IInv, ArgStates, Active
<1>7. ClosingTimed'
  BY <1>1 DEF IInv, ClosingTimed
<1>8. Attended'
  BY <1>1, <1>2, Looked DEF IInv, Attended
<1>9. Unshared' /\ OneOwner'
  BY <1>1, <1>2, Looked DEF IInv, Unshared, OneOwner
<1>10. QED
  BY <1>3, <1>4, <1>5, <1>6, <1>7, <1>8, <1>9 DEF IInv

LEMMA GoesOn ==
    ASSUME IInv, NEW p \in Pcb, espconn_client_connect(p) \/ RecvClosing(p)
    PROVE  IInv'
<1> USE DEF TcpState
<1>1. pcb[p] \in Block
  BY Looked
<1>2. CASE espconn_client_connect(p)
  <2> DEFINE b == [pcb[p] EXCEPT !.state = "ESTABLISHED", !.handlers = TRUE]
  <2>1. b \in Block /\ b.state = "ESTABLISHED" /\ b.arg = pcb[p].arg /\ b.live = pcb[p].live
    BY <1>1 DEF Block
  <2>2. pcb' = [pcb EXCEPT ![p] = b]
    BY <1>2 DEF espconn_client_connect
  <2> HIDE DEF b
  <2>3. Moves(p, b)
    BY <1>2, <2>1, <2>2 DEF Moves, espconn_client_connect, IInv, ArgStates, Active
  <2>4. QED
    BY <2>1, <2>3, Moved
<1>3. CASE RecvClosing(p)
  <2>1. PICK next \in {"FIN_WAIT_2", "CLOSING", "TIME_WAIT"} :
          pcb' = [pcb EXCEPT ![p].state = next]
    BY <1>3 DEF RecvClosing
  <2>2. pcb[p].live /\ pcb[p].state \in {"FIN_WAIT_1", "FIN_WAIT_2", "CLOSING"}
        /\ UNCHANGED <<msg, plink_active, timer, link_cnt, closed_twice, reused>>
    BY <1>3 DEF RecvClosing
  <2> DEFINE b == [pcb[p] EXCEPT !.state = next]
  <2>3. b \in Block /\ b.state = next /\ b.arg = pcb[p].arg /\ b.live = pcb[p].live
    BY <1>1 DEF Block
  <2>4. pcb' = [pcb EXCEPT ![p] = b]
    BY <2>1
  <2> HIDE DEF b
  <2>5. Moves(p, b)
    BY <2>2, <2>3, <2>4 DEF Moves, IInv, ArgStates, Active, ClosingTimed
  <2>6. QED
    BY <2>3, <2>5, Moved
<1>4. QED
  BY <1>2, <1>3

(* The close timer ends a connection: its message leaves the list, and its *)
(* block forgets whatever argument it has.                                 *)
LEMMA CloseReported ==
    ASSUME IInv, NEW m \in Msg, espconn_close_cb(m)
    PROVE  IInv'
<1> DEFINE p == msg[m].pcb
           b == IF pcb[p].live THEN [pcb[p] EXCEPT !.arg = None] ELSE pcb[p]
<1> USE DEF espconn_close_cb, espconn_tcp_disconnect_successful
<1>1. m \in Listed /\ p \in Pcb /\ msg[m] \in Message /\ m # None
  BY Looked, Constants DEF IInv, ListedAre
<1>2. pcb[p] \in Block /\ pcb[p].state \in {"TIME_WAIT", "CLOSED"} /\ ~Active(p)
  BY <1>1, Looked DEF Active
<1>3. b \in Block /\ b.arg = None /\ b.state = pcb[p].state /\ (b.live <=> pcb[p].live)
  BY <1>1, <1>2 DEF Block, IInv, ArgIsMine
<1>4. /\ pcb' \in [Pcb -> Block] /\ pcb'[p] = b
      /\ \A q \in Pcb : q # p => pcb'[q] = pcb[q]
  <2>1. pcb \in [Pcb -> Block]
    BY DEF IInv, TypeOK
  <2>2. CASE pcb[p].live
    <3>1. pcb' = [pcb EXCEPT ![p] = b]
      BY <2>2
    <3>2. QED
      BY <1>1, <1>3, <2>1, <3>1
  <2>3. CASE ~pcb[p].live
    BY <1>1, <2>1, <2>3
  <2>4. QED
    BY <2>2, <2>3
<1>5. p \in Pcb /\ p = msg[m].pcb
  BY <1>1
<1> HIDE DEF p, b
<1>6. /\ plink_active' \in Seq(Msg) /\ Distinct(plink_active') /\ Listed' = Listed \ {m}
  BY ListDeleted DEF Listed, Elems
<1>7. timer' \in [Msg -> {"off", "close", "reconnect"}] /\ timer'[m] = "off"
      /\ \A n \in Msg : n # m => timer'[n] = timer[n]
  BY DEF IInv, TypeOK
<1>8. msg' \in [Msg -> Message \cup {None}] /\ msg'[m] = None
      /\ \A n \in Msg : n # m => msg'[n] = msg[n]
  BY DEF IInv, TypeOK
<1>9. \A q \in Pcb : pcb'[q].arg # None => q # p /\ pcb'[q] = pcb[q] /\ pcb[q].arg # m
  BY <1>1, <1>3, <1>4, <1>5 DEF IInv, ArgIsMine
<1>10. \A n \in Listed' : n \in Listed /\ n \in Msg /\ n # m /\ msg'[n] = msg[n]
                         /\ timer'[n] = timer[n] /\ msg[n].pcb \in Pcb
  BY <1>6, <1>7, <1>8, Looked
<1>11. link_cnt' = link_cnt /\ closed_twice' = closed_twice /\ reused' = reused
  OBVIOUS
<1> USE DEF IInv
<1> HIDE DEF espconn_close_cb, espconn_tcp_disconnect_successful
<1>12. TypeOK'
  BY <1>4, <1>6, <1>7, <1>8, <1>11 DEF TypeOK
<1>13. TimerOwned'
  BY <1>7, <1>8 DEF TimerOwned
<1>14. ArgIsMine'
  BY <1>8, <1>9, Looked DEF ArgIsMine
<1>15. ListedAre'
  <2>1. Listed = {n \in Msg : msg[n] # None /\ timer[n] # "reconnect"}
    BY DEF ListedAre
  <2>2. \A n \in Msg : n \in Listed \ {m} <=> msg'[n] # None /\ timer'[n] # "reconnect"
    BY <1>7, <1>8, <2>1
  <2>3. Listed' = {n \in Msg : msg'[n] # None /\ timer'[n] # "reconnect"}
    BY <1>6, <2>1, <2>2
  <2>4. QED
    BY <1>6, <2>3 DEF ListedAre
<1>16. ArgListed'
  BY <1>6, <1>9 DEF ArgListed
<1>17. ArgStates'
  BY <1>2, <1>3, <1>4 DEF ArgStates, Active
<1>18. ClosingTimed'
  BY <1>7, <1>9, Looked DEF ClosingTimed
<1>19. Attended'
  <2>1. ASSUME NEW n \in Listed', msg'[n].pcb = p, timer'[n] # "close"
        PROVE  reused /\ b.live /\ b.state = "CLOSED"
    <3>1. \/ pcb[p].arg = n /\ pcb[p].live
          \/ reused /\ pcb[p].live /\ pcb[p].state = "CLOSED"
      BY <1>5, <1>10, <2>1, Constants DEF Attended, ArgIsMine
    <3>2. pcb[p].arg = n => pcb[p].state = "CLOSED"
      BY <1>2, <1>5, <1>10, <2>1, Constants DEF ClosingTimed
    <3>3. pcb[p].arg = n /\ pcb[p].live => reused
      BY <1>1, <1>5, <1>10 DEF OneOwner
    <3>4. QED
      BY <1>3, <3>1, <3>2, <3>3
  <2>2. ASSUME NEW n \in Listed', msg'[n].pcb # p
        PROVE  pcb'[msg'[n].pcb] = pcb[msg[n].pcb]
    BY <1>4, <1>10, <2>2
  <2>3. QED
    BY <1>3, <1>4, <1>10, <1>11, <2>1, <2>2 DEF Attended
<1>20. Unshared'
  BY <1>10 DEF Unshared
<1>21. OneOwner'
  <2>1. ASSUME ~reused', NEW n \in Listed', pcb'[msg'[n].pcb].live
        PROVE  pcb'[msg'[n].pcb].arg = n
    <3>1. CASE msg[n].pcb = p
      BY <1>1, <1>3, <1>4, <1>5, <1>10, <1>11, <2>1, <3>1 DEF OneOwner
    <3>2. CASE msg[n].pcb # p
      BY <1>4, <1>10, <1>11, <2>1, <3>2 DEF OneOwner
    <3>3. QED
      BY <3>1, <3>2
  <2>2. QED
    BY <2>1 DEF OneOwner
<1>22. LinksBounded'
  <2>1. ServerNodes' \subseteq ServerNodes
    BY <1>10 DEF ServerNodes, IsServer
  <2>2. QED
    BY <2>1, FewerLinks
<1>23. ClosedOnce'
  BY <1>11 DEF ClosedOnce
<1>24. QED
  BY <1>12, <1>13, <1>14, <1>15, <1>16, <1>17, <1>18, <1>19, <1>20, <1>21, <1>22, <1>23

(* The report of an error: the message is off the list already.            *)
LEMMA ErrorReported ==
    ASSUME IInv, NEW m \in Msg, espconn_tcp_reconnect(m)
    PROVE  IInv'
<1> USE DEF espconn_tcp_reconnect, IInv
<1>1. m \notin Listed /\ Listed' = Listed
  BY DEF ListedAre, Listed
<1>2. timer' \in [Msg -> {"off", "close", "reconnect"}] /\ timer'[m] = "off"
      /\ \A n \in Msg : n # m => timer'[n] = timer[n]
  BY DEF TypeOK
<1>3. msg' \in [Msg -> Message \cup {None}] /\ msg'[m] = None
      /\ \A n \in Msg : n # m => msg'[n] = msg[n]
  BY DEF TypeOK
<1>4. \A n \in Listed : n \in Msg /\ n # m /\ msg'[n] = msg[n] /\ timer'[n] = timer[n]
  BY <1>1, <1>2, <1>3, Looked
<1>5. \A q \in Pcb : pcb[q].arg # None => pcb[q].arg \in Listed
  BY DEF ArgListed
<1>6. TypeOK'
  BY <1>2, <1>3 DEF TypeOK
<1>7. TimerOwned'
  BY <1>2, <1>3 DEF TimerOwned
<1>8. ArgIsMine'
  BY <1>4, <1>5 DEF ArgIsMine
<1>9. ListedAre'
  <2>1. Listed = {n \in Msg : msg[n] # None /\ timer[n] # "reconnect"}
    BY DEF ListedAre
  <2>2. \A n \in Msg : n \in Listed <=> msg'[n] # None /\ timer'[n] # "reconnect"
    BY <1>1, <1>2, <1>3, <2>1
  <2>3. Listed' = {n \in Msg : msg'[n] # None /\ timer'[n] # "reconnect"}
    BY <1>1, <2>1, <2>2
  <2>4. QED
    BY <2>3 DEF ListedAre, Distinct
<1>10. ArgListed' /\ ArgStates'
  BY <1>1 DEF ArgListed, ArgStates, Active
<1>11. ClosingTimed'
  BY <1>4, <1>5 DEF ClosingTimed
<1>12. Attended' /\ Unshared' /\ OneOwner'
  BY <1>1, <1>4 DEF Attended, Unshared, OneOwner
<1>13. LinksBounded'
  <2>1. ServerNodes' \subseteq ServerNodes
    BY <1>1, <1>4 DEF ServerNodes, IsServer
  <2>2. QED
    BY <2>1, FewerLinks
<1>14. ClosedOnce'
  BY DEF ClosedOnce
<1>15. QED
  BY <1>6, <1>7, <1>8, <1>9, <1>10, <1>11, <1>12, <1>13, <1>14

-----------------------------------------------------------------------------
(* A connection is closed, or what is left of one that could not begin;    *)
(* its message waits for the close timer.                                  *)
Closes(p, m, b) ==
    /\ m \in Listed /\ msg[m].pcb = p /\ pcb[p].live
    /\ \/ pcb[p].arg = m
       \/ pcb[p].arg = None /\ timer[m] # "close" /\ ~b.live
    /\ IF b.live THEN b.arg = m /\ b.state # "SYN_RCVD" ELSE b.arg = None
    /\ pcb' = [pcb EXCEPT ![p] = b]
    /\ timer' = [timer EXCEPT ![m] = "close"]
    /\ UNCHANGED <<msg, plink_active, link_cnt, reused>>
    /\ closed_twice' \in BOOLEAN /\ ClosedOnce'

LEMMA Closed ==
    ASSUME IInv, NEW p \in Pcb, NEW m \in Msg, NEW b \in Block, Closes(p, m, b)
    PROVE  IInv'
<1> USE DEF Closes, IInv
<1>1. /\ pcb' \in [Pcb -> Block] /\ pcb'[p] = b
      /\ \A q \in Pcb : q # p => pcb'[q] = pcb[q]
  BY DEF TypeOK
<1>2. timer' \in [Msg -> {"off", "close", "reconnect"}] /\ timer'[m] = "close"
      /\ \A n \in Msg : n # m => timer'[n] = timer[n]
  BY DEF TypeOK
<1>3. Listed' = Listed /\ msg' = msg
  BY DEF Listed
<1>4. m # None /\ msg[m] # None /\ timer[m] # "reconnect"
  BY Looked, Constants
<1>5. TypeOK'
  BY <1>1, <1>2 DEF TypeOK
<1>6. TimerOwned'
  BY <1>2, <1>3, <1>4 DEF TimerOwned
<1>7. ArgIsMine'
  BY <1>1, <1>3, <1>4 DEF ArgIsMine
<1>8. ListedAre'
  <2>1. Listed = {n \in Msg : msg[n] # None /\ timer[n] # "reconnect"}
    BY DEF ListedAre
  <2>2. \A n \in Msg : n \in Listed <=> msg'[n] # None /\ timer'[n] # "reconnect"
    BY <1>2, <1>3, <1>4, <2>1
  <2>3. Listed' = {n \in Msg : msg'[n] # None /\ timer'[n] # "reconnect"}
    BY <1>3, <2>1, <2>2
  <2>4. QED
    BY <2>3 DEF ListedAre, Distinct
<1>9. ArgListed'
  BY <1>1, <1>3 DEF ArgListed
<1>10. ArgStates'
  BY <1>1, <1>4 DEF ArgStates, Active
<1>11. ClosingTimed'
  BY <1>1, <1>2, Looked DEF ClosingTimed
<1>12. Attended'
  <2>1. ASSUME NEW n \in Listed', timer'[n] # "close" PROVE msg[n].pcb # p
    <3>1. n \in Listed /\ n # m /\ timer[n] # "close" /\ n \in Msg /\ n # None
      BY <1>2, <1>3, <2>1, Looked, Constants
    <3>2. CASE pcb[p].arg = m
      BY <1>4, <3>1, <3>2 DEF Attended
    <3>3. CASE pcb[p].arg = None /\ timer[m] # "close"
      BY <3>1, <3>3 DEF Unshared
    <3>4. QED
      BY <3>2, <3>3
  <2>2. QED
    BY <1>1, <1>2, <1>3, <2>1, Looked DEF Attended
<1>13. Unshared'
  <2>1. \A n \in Listed : timer'[n] # "close" => timer[n] # "close"
    BY <1>2, Looked
  <2>2. QED
    BY <1>3, <2>1 DEF Unshared
<1>14. OneOwner'
  <2>1. ASSUME ~reused', NEW n \in Listed, pcb'[msg[n].pcb].live
        PROVE  pcb'[msg[n].pcb].arg = n
    <3>1. CASE msg[n].pcb = p
      BY <1>1, <2>1, <3>1 DEF OneOwner
    <3>2. CASE msg[n].pcb # p
      BY <1>1, <2>1, <3>2, Looked DEF OneOwner
    <3>3. QED
      BY <3>1, <3>2
  <2>2. QED
    BY <1>3, <2>1 DEF OneOwner
<1>15. LinksBounded'
  <2>1. ServerNodes' \subseteq ServerNodes
    BY <1>3 DEF ServerNodes, IsServer
  <2>2. QED
    BY <2>1, FewerLinks
<1>16. QED
  BY <1>5, <1>6, <1>7, <1>8, <1>9, <1>10, <1>11, <1>12, <1>13, <1>14, <1>15

(* What tcp_close leaves of a block.                                       *)
LEMMA Result ==
    ASSUME NEW b \in Block, NEW fin_ok \in BOOLEAN, b.live
    PROVE  LET r == tcp_close(b, fin_ok) IN
             /\ r \in Block
             /\ IF r.live THEN r.arg = b.arg /\ (r.state = "SYN_RCVD" => b.state = "SYN_RCVD")
                          ELSE r.arg = None
             /\ b.state = "CLOSED" => ~r.live
<1> DEFINE next == CASE b.state \in {"CLOSED", "SYN_SENT"} -> "CLOSED"
                     [] b.state \in {"SYN_RCVD", "ESTABLISHED"} /\ fin_ok -> "FIN_WAIT_1"
                     [] b.state = "CLOSE_WAIT" /\ fin_ok -> "LAST_ACK"
                     [] OTHER -> b.state
           f == Freed("CLOSED")
           c == [b EXCEPT !.state = next, !.rxclosed = TRUE, !.handlers = ~fin_ok]
<1>1. next \in TcpState /\ (next = "SYN_RCVD" => b.state = "SYN_RCVD")
      /\ (b.state = "CLOSED" => next = "CLOSED")
  BY DEF Block, TcpState
<1>2. f \in Block /\ ~f.live /\ f.arg = None
  BY DEF Freed, Block, TcpState
<1>3. tcp_close(b, fin_ok) = IF next = "CLOSED" THEN f ELSE c
  BY DEF tcp_close
<1> HIDE DEF next, f
<1>4. c \in Block /\ c.live = b.live /\ c.arg = b.arg /\ c.state = next
  BY <1>1 DEF Block
<1> HIDE DEF c
<1>5. QED
  BY <1>1, <1>2, <1>3, <1>4

LEMMA Closing ==
    ASSUME IInv, NEW m \in Listed, NEW b \in Block, NEW fin_ok \in BOOLEAN,
           close(m, b, fin_ok), b.live, pcb[msg[m].pcb].live,
           \/ pcb[msg[m].pcb].arg = m /\ b.arg = m /\ b.state # "SYN_RCVD"
           \/ pcb[msg[m].pcb].arg = None /\ b.state = "CLOSED" /\ timer[m] # "close",
           closed_twice' \in BOOLEAN, ClosedOnce'
    PROVE  IInv'
<1> DEFINE p == msg[m].pcb
           r == tcp_close(b, fin_ok)
<1>1. m \in Msg /\ p \in Pcb /\ m # None
  BY Looked, Constants
<1>2. /\ r \in Block
      /\ IF r.live THEN r.arg = b.arg /\ (r.state = "SYN_RCVD" => b.state = "SYN_RCVD")
                   ELSE r.arg = None
      /\ b.state = "CLOSED" => ~r.live
  BY Result
<1>3. /\ pcb' = [pcb EXCEPT ![p] = r]
      /\ timer' = [timer EXCEPT ![m] = "close"]
      /\ UNCHANGED <<msg, plink_active, link_cnt, reused>>
  BY DEF close
<1> HIDE DEF r
<1>4. Closes(p, m, r)
  BY <1>2, <1>3 DEF Closes
<1> HIDE DEF p
<1>5. QED
  BY <1>1, <1>2, <1>4, Closed

(* espconn_find_connection returns a node of the list.                     *)
LEMMA Found ==
    ASSUME IInv, NEW h, NEW alike, espconn_find_connection(h, alike) # None
    PROVE  espconn_find_connection(h, alike) \in Listed
<1> DEFINE I == {i \in 1 .. Len(plink_active) :
                    msg[plink_active[i]].pespconn = h \/ plink_active[i] \in alike}
           i == SelectInSeq(plink_active, LAMBDA n : msg[n].pespconn = h \/ n \in alike)
<1>1. i = IF I # {} THEN Min(I) ELSE 0
  BY DEF SelectInSeq
<1>2. espconn_find_connection(h, alike) = IF i = 0 THEN None ELSE plink_active[i]
  BY DEF espconn_find_connection
<1>3. Len(plink_active) \in Nat
  BY LenProperties DEF IInv, TypeOK
<1>4. I \subseteq 1 .. Len(plink_active) /\ I \in SUBSET Nat
  BY <1>3
<1> HIDE DEF I, i
<1>5. I # {} => Min(I) \in I
  <2>1. I # {} => \E x \in I : \A y \in I : x <= y
    BY <1>4, LeastNat
  <2>2. QED
    BY <1>4, <2>1 DEF Min
<1>6. QED
  BY <1>1, <1>2, <1>4, <1>5 DEF Listed

(* The application closes; the block is its own, or is a client's that     *)
(* could not begin, or does not exist any more.                            *)
LEMMA Disconnected ==
    ASSUME Assumed, IInv, NEW h \in Handle, espconn_disconnect(h)
    PROVE  IInv'
<1>0. PICK alike \in SUBSET ServerNodes :
        LET m == espconn_find_connection(h, alike)
            p == msg[m].pcb
            mine == pcb[p].live /\ pcb[p].arg = m
        IN  /\ m # None
            /\ CloseOnce => timer[m] # "close"
            /\ closed_twice' = (closed_twice \/ ~mine)
            /\ \/ /\ pcb[p].live
                  /\ \E fin_ok \in FinResult(pcb[p].state) : close(m, pcb[p], fin_ok)
               \/ /\ pcb[p].live
                  /\ \E b \in Unread(pcb[p]) : pcb' = [pcb EXCEPT ![p] = b]
                  /\ timer' = [timer EXCEPT ![m] = "close"]
                  /\ UNCHANGED <<msg, plink_active, link_cnt, reused>>
               \/ /\ ~pcb[p].live
                  /\ UNCHANGED <<pcb, msg, plink_active, timer, link_cnt, reused>>
  BY DEF espconn_disconnect
<1> DEFINE m == espconn_find_connection(h, alike)
           p == msg[m].pcb
           mine == pcb[p].live /\ pcb[p].arg = m
<1>1. m \in Listed
  BY <1>0, Found
<1>2. /\ CloseOnce => timer[m] # "close"
      /\ closed_twice' = (closed_twice \/ ~mine)
      /\ \/ /\ pcb[p].live
            /\ \E fin_ok \in FinResult(pcb[p].state) : close(m, pcb[p], fin_ok)
         \/ /\ pcb[p].live
            /\ \E b \in Unread(pcb[p]) : pcb' = [pcb EXCEPT ![p] = b]
            /\ timer' = [timer EXCEPT ![m] = "close"]
            /\ UNCHANGED <<msg, plink_active, link_cnt, reused>>
         \/ /\ ~pcb[p].live
            /\ UNCHANGED <<pcb, msg, plink_active, timer, link_cnt, reused>>
  BY <1>0
<1> HIDE DEF m
<1>3. m \in Msg /\ m # None /\ p \in Pcb /\ pcb[p] \in Block /\ pcb[p].live \in BOOLEAN
  BY <1>1, Looked, Constants
<1>4. closed_twice \in BOOLEAN
  BY DEF IInv, TypeOK
<1>5. closed_twice' \in BOOLEAN
  BY <1>2, <1>3, <1>4
<1>6. CloseOnce /\ ~reused => mine
  <2>1. CloseOnce /\ ~reused => pcb[p].arg = m
    BY <1>1, <1>2 DEF IInv, Attended
  <2>2. pcb[p].arg = m => pcb[p].live
    BY <1>3 DEF IInv, ArgIsMine
  <2>3. QED
    BY <2>1, <2>2
<1>7. ClosedOnce'
  <2>1. reused' = reused
    BY <1>2 DEF close
  <2>2. QED
    BY <1>2, <1>6, <2>1 DEF IInv, ClosedOnce
<1>8. CASE pcb[p].live
  <2>1. \/ pcb[p].arg = m /\ pcb[p].state # "SYN_RCVD"
        \/ pcb[p].arg = None /\ pcb[p].state = "CLOSED" /\ timer[m] # "close"
    <3>1. CASE pcb[p].arg = m
      BY <1>3, <1>8, <3>1 DEF IInv, ArgStates, Active
    <3>2. CASE pcb[p].arg # m
      <4>1. reused
        BY <1>1, <1>8, <3>2 DEF IInv, OneOwner
      <4>2. timer[m] # "close"
        BY <1>2, <4>1 DEF Assumed
      <4>3. QED
        BY <1>1, <3>2, <4>2 DEF IInv, Attended
    <3>3. QED
      BY <3>1, <3>2
  <2>2. ASSUME NEW fin_ok \in BOOLEAN, close(m, pcb[p], fin_ok) PROVE IInv'
    BY <1>1, <1>3, <1>5, <1>7, <1>8, <2>1, <2>2, Closing
  <2>3. ASSUME NEW b \in Unread(pcb[p]), pcb' = [pcb EXCEPT ![p] = b],
               timer' = [timer EXCEPT ![m] = "close"],
               UNCHANGED <<msg, plink_active, link_cnt, reused>>
        PROVE  IInv'
    <3>1. pcb[p].state = "ESTABLISHED"
      BY <2>3 DEF Unread
    <3>2. b \in Block /\ (IF b.live THEN b.arg = pcb[p].arg /\ b.state # "SYN_RCVD"
                                     ELSE b.arg = None)
      <4> DEFINE c == [pcb[p] EXCEPT !.state = "TIME_WAIT", !.rxclosed = TRUE, !.handlers = FALSE]
                 d == Freed("CLOSED")
      <4>1. b = c \/ b = d
        BY <2>3, <3>1 DEF Unread
      <4>2. c \in Block /\ c.arg = pcb[p].arg /\ c.state = "TIME_WAIT" /\ (c.live <=> pcb[p].live)
        BY <1>3 DEF Block, TcpState
      <4>3. d \in Block /\ d.arg = None /\ ~d.live
        BY DEF Freed, Block, TcpState
      <4> HIDE DEF c, d
      <4>4. QED
        BY <1>8, <4>1, <4>2, <4>3
    <3>3. pcb[p].arg = m
      BY <2>1, <3>1
    <3>4. Closes(p, m, b)
      BY <1>1, <1>5, <1>7, <1>8, <2>3, <3>2, <3>3 DEF Closes
    <3> HIDE DEF p
    <3>5. QED
      BY <1>3, <3>2, <3>4, Closed
  <2>4. \A fin_ok \in FinResult(pcb[p].state) : fin_ok \in BOOLEAN
    BY DEF FinResult
  <2>5. QED
    BY <1>2, <1>8, <2>2, <2>3, <2>4
<1>9. CASE ~pcb[p].live
  <2>1. UNCHANGED <<pcb, msg, plink_active, timer, link_cnt, reused>>
    BY <1>2, <1>9
  <2>2. Listed' = Listed /\ ServerNodes' = ServerNodes
    BY <2>1 DEF Listed, ServerNodes, IsServer
  <2>3. TypeOK' /\ TimerOwned' /\ ArgIsMine' /\ ArgListed' /\ ArgStates' /\ ClosingTimed'
    BY <1>5, <2>1, <2>2
    DEF IInv, TypeOK, TimerOwned, ArgIsMine, ArgListed, ArgStates, Active, ClosingTimed
  <2>4. ListedAre' /\ Attended' /\ Unshared' /\ OneOwner' /\ LinksBounded'
    BY <2>1, <2>2 DEF IInv, ListedAre, Distinct, Attended, Unshared, OneOwner, LinksBounded
  <2>5. QED
    BY <1>7, <2>3, <2>4 DEF IInv
<1>10. QED
  BY <1>3, <1>8, <1>9

(* The peer closes first, or an idle server connection is closed.          *)
LEMMA ClosedFromBelow ==
    ASSUME IInv, NEW p \in Pcb, RecvFin(p) \/ espconn_server_poll(p)
    PROVE  IInv'
<1> DEFINE m == pcb[p].arg
<1>1. pcb[p] \in Block /\ pcb[p].live
  BY Looked DEF RecvFin, espconn_server_poll, Active
<1>2. m # None /\ pcb[p].state # "SYN_RCVD"
  BY DEF RecvFin, espconn_server_poll, IInv, ArgStates, Active
<1>3. m \in Listed /\ msg[m].pcb = p
  BY <1>2 DEF IInv, ArgListed, ArgIsMine
<1>4. closed_twice' \in BOOLEAN /\ ClosedOnce'
  BY DEF RecvFin, espconn_server_poll, close, IInv, TypeOK, ClosedOnce
<1>5. CASE RecvFin(p)
  <2> DEFINE b == [pcb[p] EXCEPT !.state = "CLOSE_WAIT"]
  <2>1. b \in Block /\ b.state = "CLOSE_WAIT" /\ b.arg = m /\ b.live
    BY <1>1 DEF Block, TcpState
  <2>2. PICK fin_ok \in BOOLEAN : close(m, b, fin_ok)
    BY <1>5 DEF RecvFin
  <2> HIDE DEF b
  <2>3. QED
    BY <1>1, <1>3, <1>4, <2>1, <2>2, Closing
<1>6. CASE espconn_server_poll(p)
  <2>1. PICK fin_ok \in BOOLEAN : close(m, pcb[p], fin_ok)
    BY <1>6 DEF espconn_server_poll
  <2>2. QED
    BY <1>1, <1>2, <1>3, <1>4, <2>1, Closing
<1>7. QED
  BY <1>5, <1>6

-----------------------------------------------------------------------------
LEMMA IInvInit == Init => IInv
<1>1. Init => Blank
  BY DEF Init, Blank, ClosedOnce
<1>2. QED
  BY <1>1, BlankSound

LEMMA IInvNext == Assumed /\ IInv /\ [Next]_vars => IInv'
<1> SUFFICES ASSUME Assumed, IInv, [Next]_vars PROVE IInv'
  OBVIOUS
<1>1. CASE Next
  BY <1>1, Connected, Disconnected, CloseReported, ErrorReported, Listened, Accepted, BlocksEnd,
     WasReset, GoesOn, ClosedFromBelow
  DEF Next
<1>2. CASE UNCHANGED vars
  <2>1. UNCHANGED <<pcb, msg, plink_active, timer, link_cnt, closed_twice, reused>>
    BY <1>2 DEF vars
  <2>2. Listed' = Listed /\ ServerNodes' = ServerNodes
    BY <2>1 DEF Listed, ServerNodes, IsServer
  <2>3. TypeOK' /\ TimerOwned' /\ ArgIsMine' /\ ArgListed' /\ ArgStates' /\ ClosingTimed'
    BY <2>1, <2>2
    DEF IInv, TypeOK, TimerOwned, ArgIsMine, ArgListed, ArgStates, Active, ClosingTimed
  <2>4. ListedAre' /\ Attended' /\ Unshared' /\ OneOwner' /\ LinksBounded' /\ ClosedOnce'
    BY <2>1, <2>2
    DEF IInv, ListedAre, Distinct, Attended, Unshared, OneOwner, LinksBounded, ClosedOnce
  <2>5. QED
    BY <2>3, <2>4 DEF IInv
<1>3. QED
  BY <1>1, <1>2

(* A block that was given away stays so.                                   *)
LEMMA StaysReused == [Next]_vars => (reused => reused')
<1> SUFFICES ASSUME [Next]_vars, reused PROVE reused'
  OBVIOUS
<1> USE DEF close, espconn_connect, espconn_close_cb, espconn_tcp_reconnect,
            tcp_listen_input, espconn_tcp_accept, AcceptNoMessage, AcceptNoEspconn,
            espconn_client_connect, RecvFin, RecvClosing, RecvLastAck, Reset, Timeout,
            TimeWaitExpires, espconn_server_poll, Reuse
<1>1. ASSUME NEW h \in Handle, espconn_disconnect(h) PROVE reused'
  BY <1>1 DEF espconn_disconnect
<1>2. CASE UNCHANGED vars
  BY <1>2 DEF vars
<1>3. QED
  BY <1>1, <1>2 DEF Next

(* The invariant of the connections, until a connection is given a block   *)
(* that another's message refers to; and beyond, if the application        *)
(* disconnects no closing connection.                                      *)
THEOREM ConnectionsInvariant == Spec => [](Assumed => IInv)
<1>1. Init => (Assumed => IInv)
  BY IInvInit
<1>2. (Assumed => IInv) /\ [Next]_vars => (Assumed => IInv)'
  <2> SUFFICES ASSUME Assumed => IInv, [Next]_vars, Assumed' PROVE IInv'
    OBVIOUS
  <2>1. Assumed
    BY StaysReused DEF Assumed
  <2>2. QED
    BY <2>1, IInvNext
<1>3. QED
  BY <1>1, <1>2, PTL DEF Spec

(* The types of the state; one link more than the limit at most.           *)
THEOREM ConnectionsTyped == Spec => [](Assumed => TypeOK)
<1>1. (Assumed => IInv) => (Assumed => TypeOK)
  BY DEF IInv
<1>2. QED
  BY <1>1, ConnectionsInvariant, PTL

(* No callback of lwIP and no timer gets a message that was freed, or one  *)
(* of another connection.                                                  *)
THEOREM CallbacksGetTheirOwn == Spec => [](Assumed => EachItsOwn)
<1>1. (Assumed => IInv) => (Assumed => EachItsOwn)
  BY DEF IInv, EachItsOwn
<1>2. QED
  BY <1>1, ConnectionsInvariant, PTL

(* plink_active is the list of the messages that wait for no error report, *)
(* each once.                                                              *)
THEOREM ActiveListExact == Spec => [](Assumed => ListExact)
<1>1. (Assumed => IInv) => (Assumed => ListExact)
  <2> SUFFICES ASSUME IInv PROVE ListExact
    OBVIOUS
  <2>1. plink_active \in Seq(Msg) /\ Distinct(plink_active) /\ Listed = Elems(plink_active)
    BY DEF IInv, TypeOK, ListedAre, Listed, Elems
  <2>2. Cardinality(Elems(plink_active)) = Len(plink_active)
    BY <2>1, DistinctLength
  <2>3. QED
    BY <2>1, <2>2 DEF IInv, ListedAre, ListExact
<1>2. QED
  BY <1>1, ConnectionsInvariant, PTL

(* As long as no connection was given a block that another's message       *)
(* refers to, each connection on the list can still end, however often the *)
(* application disconnects, and there are no more than MEMP_NUM_TCP_PCB    *)
(* server connections.                                                     *)
THEOREM ConnectionsCanEnd == Spec => []ListedKept
<1>1. (Assumed => IInv) => ListedKept
  BY DEF Assumed, IInv, ListedKept, NoneForgotten, Attended
<1>2. QED
  BY <1>1, ConnectionsInvariant, PTL

(* tcp_close is called once for each connection, which is what lwIP asks   *)
(* of its callers: if the application disconnects no closing connection,   *)
(* and as long as no connection was given another's block.                 *)
THEOREM ClosedOnlyOnce ==
    ASSUME CloseOnce
    PROVE  Spec => []NeverClosedTwice
<1>1. (Assumed => IInv) => NeverClosedTwice
  BY DEF Assumed, IInv, ClosedOnce, NeverClosedTwice
<1>2. QED
  BY <1>1, ConnectionsInvariant, PTL

-----------------------------------------------------------------------------
(* What is sent.                                                           *)

(* The message in hand is the last that a write took part of; all that was *)
(* taken is before what is left of it.                                     *)
InHand ==
    /\ sizes \in Seq(1 .. MaxUnits)
    /\ stream \in Seq(Nat \X Nat)
    /\ acked \in Nat /\ acked <= Len(stream) /\ Len(stream) - acked <= SndBuf
    /\ ptrbuf \in Nat \X Nat /\ ptrbuf[1] <= Len(sizes) /\ cntr \in Nat
    /\ ptrbuf[1] = 0 => cntr = 0
    /\ ptrbuf[1] # 0 => ptrbuf[2] >= 1 /\ ptrbuf[2] + cntr = sizes[ptrbuf[1]] + 1
    /\ \A k \in 1 .. Len(stream) :
          /\ stream[k] \in Offered
          /\ Before(stream[k], ptrbuf)

Rising(s) == \A j, k \in 1 .. Len(s) : j < k => Before(s[j], s[k])

(* Unless the application was impatient or a write failed, it is in hand   *)
(* until the callback, and nothing before it is missing.                   *)
Complete ==
    ~rushed /\ ~failed =>
        /\ ptrbuf[1] = Len(sizes)
        /\ \A u \in Offered : Before(u, ptrbuf) => \E k \in 1 .. Len(stream) : stream[k] = u

SendInv == InHand /\ Rising(stream) /\ Complete /\ (~asked => cntr = 0)

(* The constants are what they are declared to be.                         *)
LEMMA SendConstants ==
    /\ SndBuf \in Nat \ {0} /\ Chunk \in Nat \ {0} /\ MaxUnits \in Nat \ {0}
    /\ MaxMessages \in Nat
BY SendAssumption

(* The elements of the two sequences.                                      *)
LEMMA Sizes ==
    ASSUME NEW s \in Seq(1 .. MaxUnits)
    PROVE  Len(s) \in Nat /\ \A m \in 1 .. Len(s) : s[m] \in Nat /\ s[m] \in 1 .. MaxUnits
<1>1. Len(s) \in Nat /\ \A m \in 1 .. Len(s) : s[m] \in 1 .. MaxUnits
  BY LenProperties, ElementOfSeq
<1>2. QED
  BY <1>1

LEMMA Pairs ==
    ASSUME NEW s \in Seq(Nat \X Nat)
    PROVE  Len(s) \in Nat /\ \A k \in 1 .. Len(s) :
                                /\ s[k] \in Nat \X Nat /\ s[k] = <<s[k][1], s[k][2]>>
                                /\ s[k][1] \in Nat /\ s[k][2] \in Nat
<1>1. Len(s) \in Nat /\ \A k \in 1 .. Len(s) : s[k] \in Nat \X Nat
  BY LenProperties, ElementOfSeq
<1>2. \A v \in Nat \X Nat : v = <<v[1], v[2]>> /\ v[1] \in Nat /\ v[2] \in Nat
  OBVIOUS
<1>3. QED
  BY <1>1, <1>2

(* A unit offered is <<message, offset>>.                                  *)
LEMMA OfferedUnit ==
    ASSUME sizes \in Seq(1 .. MaxUnits), NEW u
    PROVE  /\ u \in Offered => /\ u = <<u[1], u[2]>> /\ u[1] \in 1 .. Len(sizes)
                               /\ u[2] \in 1 .. sizes[u[1]] /\ sizes[u[1]] \in Nat
                               /\ u[1] \in Nat /\ u[2] \in Nat
           /\ \A m \in 1 .. Len(sizes) : \A y \in 1 .. sizes[m] : <<m, y>> \in Offered
<1> DEFINE box(m) == {m} \X (1 .. sizes[m])
<1>1. \A m \in 1 .. Len(sizes) : sizes[m] \in Nat
  BY Sizes
<1>2. Offered = UNION {box(m) : m \in 1 .. Len(sizes)}
  BY DEF Offered
<1>3. \A m : \A v : v \in box(m) <=> v = <<v[1], v[2]>> /\ v[1] = m /\ v[2] \in 1 .. sizes[m]
  OBVIOUS
<1>4. \A m \in 1 .. Len(sizes) : \A y \in 1 .. sizes[m] : <<m, y>> \in Offered
  BY <1>2
<1>5. ASSUME u \in Offered
      PROVE  u = <<u[1], u[2]>> /\ u[1] \in 1 .. Len(sizes) /\ u[2] \in 1 .. sizes[u[1]]
  <2>1. PICK m \in 1 .. Len(sizes) : u \in box(m)
    BY <1>2, <1>5
  <2> HIDE DEF box
  <2>2. QED
    BY <1>3, <2>1
<1>6. QED
  BY <1>1, <1>4, <1>5

(* A write takes none, some or all of what it was offered.              *)
LEMMA TakenFits ==
    ASSUME NEW a \in Nat, NEW b \in Nat, NEW c \in Nat, NEW n \in Taken(Least({a, b, c}))
    PROVE  n \in Nat /\ n <= a /\ n <= b
<1> DEFINE S == {a, b, c}
           m == Least(S)
<1>1. m \in S /\ \A k \in S : m <= k
  <2>1. \E x \in S : \A k \in S : x <= k
    <3>1. S \in SUBSET Nat /\ S # {}
      OBVIOUS
    <3> HIDE DEF S
    <3>2. QED
      BY <3>1, LeastNat
  <2> HIDE DEF S
  <2>2. QED
    BY ONLY <2>1, Zenon DEF m, Least
<1>2. m \in Nat /\ m <= a /\ m <= b
  BY <1>1
<1> HIDE DEF m
<1>3. n = m \/ n \in 1 .. m
  BY DEF Taken, m
<1>4. QED
  BY <1>2, <1>3

(* The units from p on, n of them.                                         *)
Units(p, n) == [k \in 1 .. n |-> <<p[1], p[2] + k - 1>>]

(* A write takes n of the l units from p on.                               *)
Writes(p, l, n) ==
    /\ sizes' \in Seq(1 .. MaxUnits) /\ Len(sizes) <= Len(sizes')
    /\ \A m \in 1 .. Len(sizes) : sizes'[m] = sizes[m]
    /\ p \in Nat \X Nat /\ l \in Nat /\ n \in Nat /\ n <= l
    /\ p[1] \in 1 .. Len(sizes') /\ p[2] >= 1 /\ p[2] + l = sizes'[p[1]] + 1
    /\ p = ptrbuf \/ p[1] = Len(sizes) + 1
    /\ stream' = stream \o Units(p, n)
    /\ ptrbuf' = <<p[1], p[2] + n>> /\ cntr' = l - n
    /\ acked' \in Nat /\ acked <= acked' /\ acked' <= Len(stream)
    /\ n <= SndBuf - (Len(stream) - acked')

(* The offsets of the c units from q on, in a message of z.                *)
LEMMA OffsetFits ==
    ASSUME NEW q \in Nat, NEW c \in Nat, NEW z \in Nat, q >= 1, q + c = z + 1
    PROVE  \A b \in 1 .. c : q + b - 1 \in 1 .. z
OBVIOUS

LEMMA OffsetLeft ==
    ASSUME NEW q \in Nat, NEW c \in Nat, NEW z \in Nat, q >= 1, q + c = z + 1,
           NEW y \in 1 .. z, y >= q
    PROVE  y - q + 1 \in 1 .. c /\ q + (y - q + 1) - 1 = y
OBVIOUS

(* What fits is what the buffer has left beside x - a that wait.           *)
LEMMA BufferFits ==
    ASSUME NEW x \in Nat, NEW n \in Nat, NEW a \in Nat, NEW z \in Nat,
           n <= z - (x - a), a <= x
    PROVE  (x + n) - a <= z /\ a <= x + n
OBVIOUS

(* What is before a unit is before one of the same message from it on.     *)
LEMMA BeforeLater ==
    ASSUME NEW u, NEW v, NEW w, Before(u, v), w[1] = v[1], u[2] \in Nat,
           v[2] \in Nat, w[2] \in Nat, v[2] <= w[2]
    PROVE  Before(u, w)
<1> DEFINE a == u[2]
           b == v[2]
           c == w[2]
<1>1. u[1] < v[1] \/ (u[1] = v[1] /\ a < b)
  BY DEF Before
<1>2. a \in Nat /\ b \in Nat /\ c \in Nat /\ b <= c
  OBVIOUS
<1> HIDE DEF a, b, c
<1>3. a < b => a < c
  BY <1>2
<1>4. QED
  BY <1>1, <1>3, Zenon DEF Before, a, c

(* What the concatenation of two sequences of units is.                    *)
LEMMA Joined ==
    ASSUME NEW s \in Seq(Nat \X Nat), NEW r \in Seq(Nat \X Nat), NEW t, t = s \o r
    PROVE  /\ t \in Seq(Nat \X Nat) /\ Len(t) = Len(s) + Len(r)
           /\ \A i \in 1 .. (Len(s) + Len(r)) :
                 t[i] = IF i <= Len(s) THEN s[i] ELSE r[i - Len(s)]
<1> DEFINE S == Nat \X Nat
<1>1. s \in Seq(S) /\ r \in Seq(S)
  OBVIOUS
<1> HIDE DEF S
<1>2. /\ s \o r \in Seq(S) /\ Len(s \o r) = Len(s) + Len(r)
      /\ \A i \in 1 .. (Len(s) + Len(r)) :
            (s \o r)[i] = IF i <= Len(s) THEN s[i] ELSE r[i - Len(s)]
  BY <1>1, ConcatProperties
<1>3. QED
  BY <1>2 DEF S

(* What the stream is after a write.                                       *)
LEMMA StreamGrows ==
    ASSUME stream \in Seq(Nat \X Nat), NEW p \in Nat \X Nat, NEW n \in Nat,
           stream' = stream \o Units(p, n)
    PROVE  /\ stream' \in Seq(Nat \X Nat) /\ Len(stream') = Len(stream) + n
           /\ Len(stream) \in Nat
           /\ \A k \in 1 .. Len(stream) : stream'[k] = stream[k] /\ k \in 1 .. Len(stream')
           /\ \A k \in 1 .. n :
                 /\ Len(stream) + k \in 1 .. Len(stream')
                 /\ stream'[Len(stream) + k] = <<p[1], p[2] + k - 1>>
                 /\ stream'[Len(stream) + k][1] = p[1]
                 /\ stream'[Len(stream) + k][2] = p[2] + k - 1
           /\ \A k \in 1 .. Len(stream') :
                 k \in 1 .. Len(stream) \/ \E b \in 1 .. n : k = Len(stream) + b
<1>1. p[1] \in Nat /\ p[2] \in Nat
  OBVIOUS
<1>2. \A k \in 1 .. n : <<p[1], p[2] + k - 1>> \in Nat \X Nat
  BY <1>1
<1>3. Units(p, n) \in Seq(Nat \X Nat) /\ Len(Units(p, n)) = n
      /\ \A k \in 1 .. n : Units(p, n)[k] = <<p[1], p[2] + k - 1>>
  BY <1>2 DEF Units
<1>4. /\ stream' \in Seq(Nat \X Nat) /\ Len(stream') = Len(stream) + n /\ Len(stream) \in Nat
      /\ \A k \in 1 .. Len(stream) : stream'[k] = stream[k]
      /\ \A k \in 1 .. n : stream'[Len(stream) + k] = Units(p, n)[k]
  <2> DEFINE r == Units(p, n)
             x == Len(stream)
  <2>1. stream' = stream \o r /\ r \in Seq(Nat \X Nat) /\ Len(r) = n /\ x \in Nat
    BY <1>3, LenProperties
  <2>2. DOMAIN stream = 1 .. x /\ DOMAIN r = 1 .. n
    BY <2>1, LenProperties
  <2> HIDE DEF r
  <2>3. /\ stream' \in Seq(Nat \X Nat) /\ Len(stream') = x + n
        /\ \A i \in 1 .. (x + n) : stream'[i] = IF i <= x THEN stream[i] ELSE r[i - x]
    BY <2>1, Joined
  <2> HIDE DEF x
  <2>4. \A k \in 1 .. x : k \in 1 .. (x + n) /\ k <= x
    BY <2>1
  <2>5. \A k \in 1 .. n : x + k \in 1 .. (x + n) /\ ~(x + k <= x) /\ (x + k) - x = k
    BY <2>1
  <2>6. QED
    BY <2>1, <2>3, <2>4, <2>5 DEF x, r
<1>5. \A k \in 1 .. Len(stream') : k \in 1 .. Len(stream) \/ k - Len(stream) \in 1 .. n
  BY <1>4
<1>6. \A k \in 1 .. Len(stream') :
                 k \in 1 .. Len(stream) \/ \E b \in 1 .. n : k = Len(stream) + b
  <2> TAKE k \in 1 .. Len(stream')
  <2>1. Len(stream) + (k - Len(stream)) = k
    BY <1>4
  <2>2. QED
    BY <1>5, <2>1
<1>7. /\ \A k \in 1 .. Len(stream) : k \in 1 .. Len(stream')
      /\ \A k \in 1 .. n : Len(stream) + k \in 1 .. Len(stream')
  <2> DEFINE x == Len(stream)
             y == Len(stream')
  <2>1. x \in Nat /\ y = x + n
    BY <1>4
  <2> HIDE DEF x, y
  <2>2. (\A k \in 1 .. x : k \in 1 .. y) /\ \A k \in 1 .. n : x + k \in 1 .. y
    BY <2>1
  <2>3. QED
    BY <2>2 DEF x, y
<1>8. \A k \in 1 .. n : stream'[Len(stream) + k] = <<p[1], p[2] + k - 1>>
  BY <1>3, <1>4
<1>9. \A k \in 1 .. n : /\ stream'[Len(stream) + k][1] = p[1]
                       /\ stream'[Len(stream) + k][2] = p[2] + k - 1
  <2> TAKE k \in 1 .. n
  <2>1. stream'[Len(stream) + k] = <<p[1], p[2] + k - 1>>
    BY <1>8
  <2>2. QED
    BY <2>1
<1>10. \A k \in 1 .. n :
                 /\ Len(stream) + k \in 1 .. Len(stream')
                 /\ stream'[Len(stream) + k] = <<p[1], p[2] + k - 1>>
                 /\ stream'[Len(stream) + k][1] = p[1]
                 /\ stream'[Len(stream) + k][2] = p[2] + k - 1
  BY <1>7, <1>8, <1>9, Zenon
<1>11. \A k \in 1 .. Len(stream) : stream'[k] = stream[k] /\ k \in 1 .. Len(stream')
  BY <1>4, <1>7, Zenon
<1>12. QED
  BY ONLY <1>4, <1>6, <1>10, <1>11, Zenon

(* A write keeps the stream in order, and what it takes is there.          *)
LEMMA Wrote ==
    ASSUME InHand, Rising(stream), NEW p, NEW l, NEW n, Writes(p, l, n)
    PROVE  InHand' /\ Rising(stream')
           /\ \A u \in Offered' : Before(u, ptrbuf')
                => Before(u, p) \/ \E k \in 1 .. Len(stream') : stream'[k] = u
<1>1. /\ p \in Nat \X Nat /\ p[1] \in Nat /\ p[2] \in Nat /\ p = <<p[1], p[2]>> /\ n \in Nat
      /\ l \in Nat /\ n <= l
      /\ Len(stream) \in Nat /\ Len(sizes) \in Nat /\ Len(sizes') \in Nat /\ acked' \in Nat
      /\ stream \in Seq(Nat \X Nat) /\ sizes \in Seq(1 .. MaxUnits)
  <2>1. p \in Nat \X Nat /\ l \in Nat /\ n \in Nat /\ n <= l /\ acked' \in Nat
        /\ sizes' \in Seq(1 .. MaxUnits)
    BY DEF Writes
  <2>2. stream \in Seq(Nat \X Nat) /\ sizes \in Seq(1 .. MaxUnits)
    BY DEF InHand
  <2>3. p[1] \in Nat /\ p[2] \in Nat /\ p = <<p[1], p[2]>>
    BY <2>1
  <2>4. Len(stream) \in Nat /\ Len(sizes) \in Nat /\ Len(sizes') \in Nat
    BY <2>1, <2>2, Sizes, Pairs
  <2>5. QED
    BY <2>1, <2>2, <2>3, <2>4
<1>2. p[1] \in 1 .. Len(sizes') /\ p[2] >= 1 /\ p[2] + l = sizes'[p[1]] + 1
      /\ sizes'[p[1]] \in Nat
  <2>1. /\ p[1] \in 1 .. Len(sizes') /\ p[2] >= 1 /\ p[2] + l = sizes'[p[1]] + 1
        /\ sizes' \in Seq(1 .. MaxUnits)
    BY DEF Writes
  <2>2. QED
    BY <2>1, Sizes
<1>3. /\ stream' \in Seq(Nat \X Nat) /\ Len(stream') = Len(stream) + n
      /\ \A k \in 1 .. Len(stream) : stream'[k] = stream[k]
      /\ \A k \in 1 .. n :
            /\ stream'[Len(stream) + k] = <<p[1], p[2] + k - 1>>
            /\ stream'[Len(stream) + k][1] = p[1]
            /\ stream'[Len(stream) + k][2] = p[2] + k - 1
            /\ Len(stream) + k \in 1 .. Len(stream')
      /\ \A k \in 1 .. Len(stream') :
            k \in 1 .. Len(stream) \/ \E b \in 1 .. n : k = Len(stream) + b
  <2>0. stream \in Seq(Nat \X Nat) /\ p \in Nat \X Nat /\ n \in Nat
    BY <1>1
  <2>1. stream' = stream \o Units(p, n)
    BY DEF Writes
  <2>2. /\ stream' \in Seq(Nat \X Nat) /\ Len(stream') = Len(stream) + n
        /\ \A k \in 1 .. Len(stream) : stream'[k] = stream[k] /\ k \in 1 .. Len(stream')
    BY <2>0, <2>1, StreamGrows
  <2>3. \A k \in 1 .. n :
            /\ Len(stream) + k \in 1 .. Len(stream')
            /\ stream'[Len(stream) + k] = <<p[1], p[2] + k - 1>>
            /\ stream'[Len(stream) + k][1] = p[1]
            /\ stream'[Len(stream) + k][2] = p[2] + k - 1
    BY <2>0, <2>1, StreamGrows
  <2>4. \A k \in 1 .. Len(stream') :
            k \in 1 .. Len(stream) \/ \E b \in 1 .. n : k = Len(stream) + b
    BY <2>0, <2>1, StreamGrows
  <2>5. QED
    BY <2>2, <2>3, <2>4
<1>4. ASSUME NEW k \in 1 .. Len(stream)
      PROVE  /\ stream[k] \in Nat \X Nat /\ stream[k] \in Offered /\ Before(stream[k], p)
             /\ stream[k][1] \in Nat /\ stream[k][2] \in Nat
  <2>5. stream[k] \in Offered /\ Before(stream[k], ptrbuf)
    BY DEF InHand
  <2>6. stream[k] \in Nat \X Nat
    BY <1>1, Pairs
  <2>1. stream[k] \in Nat \X Nat /\ stream[k] \in Offered /\ Before(stream[k], ptrbuf)
    BY <2>5, <2>6
  <2>2. CASE p = ptrbuf
    BY <2>1, <2>2
  <2>3. CASE p[1] = Len(sizes) + 1
    <3>1. stream[k][1] \in 1 .. Len(sizes)
      BY <1>1, <2>1, OfferedUnit
    <3> DEFINE a == stream[k][1]
               x == Len(sizes)
    <3>4. a \in 1 .. x /\ x \in Nat /\ p[1] = x + 1
      BY <1>1, <2>3, <3>1
    <3> HIDE DEF a, x
    <3>5. a < p[1]
      BY <3>4
    <3>2. stream[k][1] < p[1]
      BY <3>5 DEF a
    <3>3. QED
      BY <2>1, <3>2 DEF Before
  <2>4. QED
    BY <2>2, <2>3 DEF Writes
<1>7. Rising(stream')
  <2> SUFFICES ASSUME NEW j \in 1 .. Len(stream'), NEW k \in 1 .. Len(stream'), j < k
               PROVE  Before(stream'[j], stream'[k])
    BY DEF Rising
  <2>1. CASE k \in 1 .. Len(stream)
    <3> DEFINE x == Len(stream)
               y == Len(stream')
    <3>5. x \in Nat /\ y \in Nat /\ j \in 1 .. y /\ k \in 1 .. x /\ j < k
      BY <1>1, <1>3, <2>1
    <3> HIDE DEF x, y
    <3>6. j \in 1 .. x
      BY <3>5
    <3>1. j \in 1 .. Len(stream)
      BY <3>6 DEF x
    <3>2. Before(stream[j], stream[k])
      BY <2>1, <3>1 DEF Rising
    <3>7. \A i \in 1 .. Len(stream) : stream'[i] = stream[i]
      BY <1>3
    <3>4. stream'[j] = stream[j] /\ stream'[k] = stream[k]
      BY <2>1, <3>1, <3>7
    <3>3. QED
      BY <3>2, <3>4
  <2>2. ASSUME NEW b \in 1 .. n, k = Len(stream) + b PROVE Before(stream'[j], stream'[k])
    <3>0. \A i \in 1 .. n : /\ stream'[Len(stream) + i][1] = p[1]
                           /\ stream'[Len(stream) + i][2] = p[2] + i - 1
      BY <1>3
    <3>5. b \in Nat /\ b >= 1
      BY <1>1
    <3>1. stream'[k][1] = p[1] /\ stream'[k][2] = p[2] + b - 1 /\ b \in Nat /\ b >= 1
      BY <2>2, <3>0, <3>5
    <3>2. CASE j \in 1 .. Len(stream)
      <4>1. stream'[j] = stream[j] /\ Before(stream[j], p)
            /\ stream[j][1] \in Nat /\ stream[j][2] \in Nat
        BY <1>3, <1>4, <3>2
      <4> DEFINE v == stream[j]
                 w == stream'[k]
      <4>2. Before(v, p) /\ v[1] \in Nat /\ v[2] \in Nat
            /\ w[1] = p[1] /\ w[2] = p[2] + b - 1 /\ b \in Nat /\ b >= 1
        BY <3>1, <4>1
      <4> HIDE DEF v, w
      <4>3. Before(v, w)
        <5> DEFINE q == p[2]
        <5>3. q \in Nat /\ w[2] = q + b - 1 /\ b \in Nat /\ b >= 1
          BY <1>1, <4>2
        <5> HIDE DEF q
        <5>4. q + b - 1 \in Nat /\ q <= q + b - 1
          BY <5>3
        <5>1. w[2] \in Nat /\ p[2] <= w[2]
          BY <5>3, <5>4 DEF q
        <5>2. QED
          BY <1>1, <4>2, <5>1, BeforeLater
      <4>4. QED
        BY <4>1, <4>3 DEF v, w
    <3>3. ASSUME NEW a \in 1 .. n, j = Len(stream) + a PROVE Before(stream'[j], stream'[k])
      <4>1. stream'[j][1] = p[1] /\ stream'[j][2] = p[2] + a - 1
        BY <1>3, <3>3
      <4>2. a < b /\ a \in Nat
        BY <1>1, <2>2, <3>3
      <4> DEFINE q == p[2]
      <4>4. q \in Nat /\ stream'[j][2] = q + a - 1 /\ stream'[k][2] = q + b - 1
            /\ b \in Nat /\ a \in Nat /\ a < b
        BY <1>1, <3>1, <4>1, <4>2
      <4> HIDE DEF q
      <4>5. q + a - 1 < q + b - 1
        BY <4>4
      <4>6. stream'[j][1] = stream'[k][1] /\ stream'[j][2] < stream'[k][2]
        BY <3>1, <4>1, <4>4, <4>5
      <4>3. QED
        BY <4>6, Zenon DEF Before
    <3>4. QED
      BY <1>3, <3>2, <3>3
  <2>5. \A i \in 1 .. Len(stream') : i \in 1 .. Len(stream) \/ \E b \in 1 .. n : i = Len(stream) + b
    BY <1>3
  <2>3. k \in 1 .. Len(stream) \/ \E b \in 1 .. n : k = Len(stream) + b
    BY <2>5, Zenon
  <2>4. QED
    BY <2>1, <2>2, <2>3, Zenon
<1>8. ptrbuf' \in Nat \X Nat /\ ptrbuf'[1] = p[1] /\ ptrbuf'[2] = p[2] + n /\ cntr' = l - n
  <2>1. ptrbuf' = <<p[1], p[2] + n>> /\ cntr' = l - n
    BY DEF Writes
  <2>2. ptrbuf'[1] = p[1] /\ ptrbuf'[2] = p[2] + n
    BY <2>1
  <2>3. ptrbuf' \in Nat \X Nat
    BY <1>1, <2>1
  <2>4. QED
    BY <2>1, <2>2, <2>3
<1>9. ASSUME NEW k \in 1 .. Len(stream')
      PROVE  stream'[k] \in Offered' /\ Before(stream'[k], ptrbuf')
  <2>0. \A m \in 1 .. Len(sizes') : \A y \in 1 .. sizes'[m] : <<m, y>> \in Offered'
    <3>1. sizes' \in Seq(1 .. MaxUnits)
      BY DEF Writes
    <3>2. QED
      BY <3>1 DEF Offered
  <2>1. CASE k \in 1 .. Len(stream)
    <3> DEFINE m == stream[k][1]
               y == stream[k][2]
    <3>1. stream'[k] = stream[k] /\ stream[k] \in Offered /\ Before(stream[k], p)
          /\ m \in Nat /\ y \in Nat
      BY <1>3, <1>4, <2>1
    <3>2. stream[k] = <<m, y>> /\ m \in 1 .. Len(sizes) /\ y \in 1 .. sizes[m]
      BY <1>1, <3>1, OfferedUnit
    <3>3. Before(stream[k], ptrbuf')
      <4>1. ptrbuf'[2] \in Nat /\ p[2] <= ptrbuf'[2]
        BY <1>1, <1>8
      <4>2. QED
        BY <1>1, <1>8, <3>1, <4>1, BeforeLater
    <3> HIDE DEF m, y
    <3>4. Len(sizes) <= Len(sizes') /\ sizes'[m] = sizes[m]
      BY <3>2 DEF Writes
    <3>5. m \in 1 .. Len(sizes') /\ y \in 1 .. sizes'[m]
      BY <1>1, <3>2, <3>4
    <3>6. <<m, y>> \in Offered'
      BY <2>0, <3>5
    <3>7. QED
      BY <3>1, <3>2, <3>3, <3>6
  <2>2. ASSUME NEW b \in 1 .. n, k = Len(stream) + b
        PROVE  stream'[k] \in Offered' /\ Before(stream'[k], ptrbuf')
    <3>1. stream'[k] = <<p[1], p[2] + b - 1>> /\ stream'[k][1] = p[1]
          /\ stream'[k][2] = p[2] + b - 1
      BY <1>3, <2>2
    <3>2. p[2] + b - 1 \in 1 .. sizes'[p[1]]
      <4> DEFINE q == p[2]
                 z == sizes'[p[1]]
      <4>1. q \in Nat /\ z \in Nat /\ q >= 1 /\ q + l = z + 1 /\ l \in Nat /\ b \in 1 .. l
        BY <1>1, <1>2
      <4> HIDE DEF q, z
      <4>2. q + b - 1 \in 1 .. z
        BY <4>1, OffsetFits
      <4>3. QED
        BY <4>2 DEF q, z
    <3>3. Before(stream'[k], ptrbuf')
      BY <1>1, <1>8, <3>1 DEF Before
    <3>4. <<p[1], p[2] + b - 1>> \in Offered'
      BY <1>2, <2>0, <3>2
    <3>5. QED
      BY <3>1, <3>3, <3>4
  <2>3. QED
    BY <1>3, <2>1, <2>2
<1>10. InHand'
  <2>1. Len(stream') - acked' <= SndBuf /\ acked' <= Len(stream')
    <3>1. n <= SndBuf - (Len(stream) - acked') /\ acked' <= Len(stream)
      BY DEF Writes
    <3> DEFINE x == Len(stream)
    <3>2. x \in Nat /\ n \in Nat /\ acked' \in Nat /\ SndBuf \in Nat
          /\ n <= SndBuf - (x - acked') /\ acked' <= x
      BY <1>1, <3>1, SendConstants
    <3>5. Len(stream') = x + n
      BY <1>3
    <3> HIDE DEF x
    <3>3. (x + n) - acked' <= SndBuf /\ acked' <= x + n
      BY <3>2, BufferFits
    <3>4. QED
      BY <3>3, <3>5
  <2>2. ptrbuf'[1] # 0 /\ ptrbuf'[2] >= 1 /\ ptrbuf'[1] <= Len(sizes') /\ cntr' \in Nat
        /\ ptrbuf'[2] + cntr' = sizes'[ptrbuf'[1]] + 1
    <3> DEFINE q == p[2]
               z == sizes'[p[1]]
    <3>1. q \in Nat /\ z \in Nat /\ q >= 1 /\ q + l = z + 1 /\ l \in Nat /\ n \in Nat /\ n <= l
      BY <1>1, <1>2
    <3>2. p[1] # 0 /\ p[1] <= Len(sizes')
      BY <1>1, <1>2
    <3>5. ptrbuf'[1] = p[1] /\ ptrbuf'[2] = q + n /\ cntr' = l - n /\ sizes'[ptrbuf'[1]] = z
      BY <1>8
    <3> HIDE DEF q, z
    <3>3. q + n >= 1 /\ l - n \in Nat /\ (q + n) + (l - n) = z + 1
      BY <3>1
    <3>4. QED
      BY <3>2, <3>3, <3>5
  <2>3. sizes' \in Seq(1 .. MaxUnits)
    BY DEF Writes
  <2>4. QED
    BY <1>1, <1>3, <1>8, <1>9, <2>1, <2>2, <2>3 DEF InHand
<1>11. ASSUME NEW u \in Offered', Before(u, ptrbuf'), ~Before(u, p)
       PROVE  \E k \in 1 .. Len(stream') : stream'[k] = u
  <2> DEFINE m == u[1]
             y == u[2]
  <2>1. u = <<m, y>> /\ m \in 1 .. Len(sizes') /\ y \in 1 .. sizes'[m] /\ sizes'[m] \in Nat
    <3>1. sizes' \in Seq(1 .. MaxUnits)
      BY DEF Writes
    <3>2. Len(sizes') \in Nat /\ \A k \in 1 .. Len(sizes') : sizes'[k] \in Nat
      BY <3>1, Sizes
    <3>3. DOMAIN sizes' = 1 .. Len(sizes')
      BY <3>1, LenProperties
    <3>4. PICK k \in 1 .. Len(sizes') : u \in {k} \X (1 .. sizes'[k])
      BY <1>11, <3>3 DEF Offered
    <3>5. QED
      BY <3>2, <3>4
  <2>2. m = p[1] /\ p[2] <= y /\ y < p[2] + n /\ m \in Nat /\ y \in Nat
    <3>1. m \in Nat /\ y \in Nat
      BY <1>1, <2>1
    <3>2. QED
      BY <1>1, <1>8, <1>11, <3>1 DEF Before
  <2> HIDE DEF m, y
  <2>3. y - p[2] + 1 \in 1 .. n /\ p[2] + (y - p[2] + 1) - 1 = y
    <3> DEFINE q == p[2]
    <3>1. q \in Nat /\ y \in Nat /\ n \in Nat /\ q <= y /\ y < q + n
      BY <1>1, <2>2
    <3> HIDE DEF q
    <3>2. y - q + 1 \in 1 .. n /\ q + (y - q + 1) - 1 = y
      BY <3>1
    <3>3. QED
      BY <3>2 DEF q
  <2> DEFINE a == y - p[2] + 1
  <2> HIDE DEF a
  <2>4. a \in 1 .. n /\ <<p[1], p[2] + a - 1>> = u
    BY <2>1, <2>2, <2>3 DEF a
  <2>7. \A i \in 1 .. n : /\ stream'[Len(stream) + i] = <<p[1], p[2] + i - 1>>
                          /\ Len(stream) + i \in 1 .. Len(stream')
    BY <1>3, Zenon
  <2>8. stream'[Len(stream) + a] = <<p[1], p[2] + a - 1>> /\ Len(stream) + a \in 1 .. Len(stream')
    BY <2>4, <2>7, Zenon
  <2>5. Len(stream) + a \in 1 .. Len(stream') /\ stream'[Len(stream) + a] = u
    BY <2>4, <2>8, Zenon
  <2>6. QED
    BY <2>5
<1>12. QED
  BY <1>7, <1>10, <1>11

(* A message is given to espconn_sent.                                     *)
LEMMA MessageSent ==
    ASSUME SendInv, NEW l \in 1 .. MaxUnits, espconn_sent(l)
    PROVE  SendInv'
<1>1. /\ sizes' = Append(sizes, l) /\ asked' = TRUE /\ (~rushed' => ~rushed /\ ~asked)
      /\ acked' = acked
  BY Zenon DEF espconn_sent
<1>2. /\ sizes' \in Seq(1 .. MaxUnits) /\ Len(sizes') = Len(sizes) + 1 /\ Len(sizes) \in Nat
      /\ \A m \in 1 .. Len(sizes) : sizes'[m] = sizes[m]
      /\ sizes'[Len(sizes) + 1] = l /\ l \in Nat /\ sizes \in Seq(1 .. MaxUnits)
  BY <1>1 DEF SendInv, InHand
<1>3. Offered \subseteq Offered'
  <2> SUFFICES ASSUME NEW u \in Offered PROVE u \in Offered'
    OBVIOUS
  <2> DEFINE m == u[1]
             y == u[2]
  <2>1. u = <<m, y>> /\ m \in 1 .. Len(sizes) /\ y \in 1 .. sizes[m]
    BY <1>2, OfferedUnit
  <2> HIDE DEF m, y
  <2>2. m \in 1 .. Len(sizes') /\ y \in 1 .. sizes'[m]
    BY <1>2, <2>1
  <2>3. QED
    BY <1>2, <2>1, <2>2 DEF Offered
<1>4. ASSUME failed', UNCHANGED <<stream, ptrbuf, cntr>> PROVE SendInv'
  <2>1. Len(sizes) <= Len(sizes') /\ (ptrbuf[1] # 0 => sizes'[ptrbuf[1]] = sizes[ptrbuf[1]])
    BY <1>2 DEF SendInv, InHand
  <2>2. ptrbuf[1] \in Nat
    BY DEF SendInv, InHand
  <2>5. /\ sizes' \in Seq(1 .. MaxUnits) /\ stream' \in Seq(Nat \X Nat)
        /\ acked' \in Nat /\ acked' <= Len(stream') /\ Len(stream') - acked' <= SndBuf
        /\ ptrbuf' \in Nat \X Nat /\ cntr' \in Nat
        /\ (ptrbuf'[1] = 0 => cntr' = 0)
    BY <1>1, <1>2, <1>4 DEF SendInv, InHand
  <2>6. ptrbuf'[1] <= Len(sizes')
    BY <1>2, <1>4, <2>2 DEF SendInv, InHand
  <2>7. ptrbuf'[1] # 0 => ptrbuf'[2] >= 1 /\ ptrbuf'[2] + cntr' = sizes'[ptrbuf'[1]] + 1
    BY <1>4, <2>1 DEF SendInv, InHand
  <2>8. \A k \in 1 .. Len(stream') : stream'[k] \in Offered' /\ Before(stream'[k], ptrbuf')
    BY <1>3, <1>4 DEF SendInv, InHand
  <2>3. InHand'
    BY <2>5, <2>6, <2>7, <2>8, Zenon DEF InHand
  <2>4. QED
    BY <1>1, <1>4, <2>3, Zenon DEF SendInv, Complete, Rising
<1>5. ASSUME NEW n \in Taken(Least({SndBuf - (Len(stream) - acked), l, Chunk})),
             stream' = stream \o Units(<<Len(sizes) + 1, 1>>, n),
             ptrbuf' = <<Len(sizes) + 1, 1 + n>>, cntr' = l - n, failed' = failed
      PROVE  SendInv'
  <2> DEFINE p == <<Len(sizes) + 1, 1>>
             a == SndBuf - (Len(stream) - acked)
  <2>1. a \in Nat /\ Chunk \in Nat /\ Len(stream) \in Nat /\ acked \in Nat
    BY SendConstants DEF SendInv, InHand
  <2>2. n \in Nat /\ n <= a /\ n <= l
    <3> HIDE DEF a
    <3>1. n \in Taken(Least({a, l, Chunk}))
      BY <1>5 DEF a
    <3>2. QED
      BY <1>2, <2>1, <3>1, TakenFits
  <2>3. p \in Nat \X Nat /\ p[1] = Len(sizes) + 1 /\ p[2] = 1 /\ p[1] \in 1 .. Len(sizes')
        /\ p[2] + l = sizes'[p[1]] + 1 /\ p[2] >= 1
    BY <1>2
  <2>4. ptrbuf' = <<p[1], p[2] + n>> /\ stream' = stream \o Units(p, n)
        /\ n <= SndBuf - (Len(stream) - acked')
        /\ acked <= acked' /\ acked' <= Len(stream) /\ Len(sizes) <= Len(sizes')
    BY <1>1, <1>2, <1>5, <2>1, <2>2, <2>3 DEF SendInv, InHand
  <2>8. Writes(p, l, n)
    BY <1>1, <1>2, <1>5, <2>1, <2>2, <2>3, <2>4 DEF Writes
  <2> HIDE DEF p, a
  <2>5. /\ InHand' /\ Rising(stream')
        /\ \A u \in Offered' : Before(u, ptrbuf')
                => Before(u, p) \/ \E k \in 1 .. Len(stream') : stream'[k] = u
    BY <2>8, Wrote DEF SendInv
  <2>6. Complete'
    <3> SUFFICES ASSUME ~rushed', ~failed'
                 PROVE  /\ ptrbuf'[1] = Len(sizes')
                        /\ \A u \in Offered' : Before(u, ptrbuf')
                             => \E k \in 1 .. Len(stream') : stream'[k] = u
      BY Zenon DEF Complete
    <3>1. ~rushed /\ ~asked /\ ~failed
      BY <1>1, <1>5
    <3>2. cntr = 0 /\ ptrbuf[1] = Len(sizes)
      BY <3>1, Zenon DEF SendInv, Complete
    <3>3. ASSUME NEW u \in Offered', Before(u, p)
          PROVE  \E k \in 1 .. Len(stream') : stream'[k] = u
      <4> DEFINE m == u[1]
                 y == u[2]
      <4>1. u = <<m, y>> /\ m \in 1 .. Len(sizes') /\ y \in 1 .. sizes'[m]
        BY <1>2 DEF Offered
      <4>2. m \in 1 .. Len(sizes) /\ y \in 1 .. sizes[m] /\ sizes[m] \in Nat
        <5>1. m \in Nat /\ y \in Nat /\ y >= 1 /\ m <= Len(sizes) + 1
          <6>1. Len(sizes') \in Nat /\ sizes'[m] \in Nat
            BY <1>2, <4>1, Sizes
          <6> HIDE DEF m, y
          <6>2. QED
            BY <1>2, <4>1, <6>1
        <5>2. m < Len(sizes) + 1 /\ m >= 1
          BY <1>2, <2>3, <3>3, <4>1, <5>1 DEF Before
        <5> HIDE DEF m, y
        <5>3. m \in 1 .. Len(sizes)
          BY <1>2, <5>1, <5>2
        <5>4. sizes'[m] = sizes[m] /\ sizes[m] \in Nat
          BY <1>2, <5>3, Sizes
        <5>5. QED
          BY <4>1, <5>3, <5>4
      <4>3. u \in Offered
        BY <1>2, <4>1, <4>2, OfferedUnit
      <4>4. Before(u, ptrbuf)
        <5>1. ptrbuf[1] # 0 => ptrbuf[2] = sizes[ptrbuf[1]] + 1
          BY <3>2 DEF SendInv, InHand
        <5>2. QED
          BY <1>2, <3>2, <4>1, <4>2, <5>1 DEF Before
      <4>5. PICK k \in 1 .. Len(stream) : stream[k] = u
        BY <3>1, <4>3, <4>4, Zenon DEF SendInv, Complete
      <4>6. stream \in Seq(Nat \X Nat) /\ n \in Nat
        BY <2>2 DEF SendInv, InHand
      <4>7. k \in 1 .. Len(stream') /\ stream'[k] = stream[k]
        BY ONLY <2>3, <2>4, <4>5, <4>6, StreamGrows
      <4>8. QED
        BY <4>5, <4>7
    <3>4. ptrbuf'[1] = Len(sizes')
      BY <1>2, <2>3, <2>4
    <3>5. QED
      BY <2>5, <3>3, <3>4, Zenon
  <2>7. QED
    BY <1>1, <2>5, <2>6, Zenon DEF SendInv
<1>6. \/ failed' /\ UNCHANGED <<stream, ptrbuf, cntr>>
      \/ \E n \in Taken(Least({SndBuf - (Len(stream) - acked), l, Chunk})) :
             /\ stream' = stream \o Units(<<Len(sizes) + 1, 1>>, n)
             /\ ptrbuf' = <<Len(sizes) + 1, 1 + n>>
             /\ cntr' = l - n /\ failed' = failed
  BY DEF espconn_sent, espconn_tcp_sent, Units
<1>7. QED
  BY <1>4, <1>5, <1>6

(* An acknowledgement, on which the rest is offered.                       *)
LEMMA MoreAcked ==
    ASSUME SendInv, NEW m \in 1 .. SndBuf, espconn_client_sent(m)
    PROVE  SendInv'
<1>1. /\ m <= Len(stream) - acked /\ acked' = acked + m /\ UNCHANGED <<sizes, rushed>>
  BY DEF espconn_client_sent
<1>2. /\ Len(stream) \in Nat /\ acked \in Nat /\ m \in Nat /\ acked' \in Nat /\ m >= 1
      /\ acked <= acked' /\ acked' <= Len(stream)
      /\ Len(stream) - acked <= SndBuf /\ SndBuf - (Len(stream) - acked') \in Nat
      /\ SndBuf \in Nat
  <2>1. /\ stream \in Seq(Nat \X Nat) /\ acked \in Nat /\ Len(stream) - acked <= SndBuf
        /\ acked <= Len(stream)
    BY DEF SendInv, InHand
  <2>2. Len(stream) \in Nat /\ SndBuf \in Nat /\ m \in Nat /\ m >= 1
    BY <2>1, Pairs, SendConstants
  <2>3. QED
    BY <1>1, <2>1, <2>2
<1>3. Offered' = Offered
  BY <1>1 DEF Offered
<1>4. ASSUME cntr = 0, UNCHANGED <<stream, ptrbuf, cntr, failed>> PROVE SendInv'
  <2>1. InHand'
    BY <1>1, <1>2, <1>3, <1>4 DEF SendInv, InHand
  <2>2. Rising(stream') /\ Complete'
    BY <1>1, <1>3, <1>4, Zenon DEF SendInv, Rising, Complete
  <2>3. QED
    BY <1>4, <2>1, <2>2, Zenon DEF SendInv
<1>5. ASSUME failed', UNCHANGED <<stream, ptrbuf, cntr, asked>> PROVE SendInv'
  <2>1. InHand'
    BY <1>1, <1>2, <1>3, <1>5 DEF SendInv, InHand
  <2>2. Rising(stream') /\ Complete'
    BY <1>1, <1>3, <1>5, Zenon DEF SendInv, Rising, Complete
  <2>3. QED
    BY <1>5, <2>1, <2>2, Zenon DEF SendInv
<1>6. ASSUME NEW n \in Taken(Least({SndBuf - (Len(stream) - (acked + m)), cntr, Chunk})),
             cntr # 0, stream' = stream \o Units(ptrbuf, n),
             ptrbuf' = <<ptrbuf[1], ptrbuf[2] + n>>, cntr' = cntr - n,
             UNCHANGED <<failed, asked>>
      PROVE  SendInv'
  <2> DEFINE a == SndBuf - (Len(stream) - (acked + m))
  <2>1. a \in Nat /\ cntr \in Nat /\ Chunk \in Nat /\ a = SndBuf - (Len(stream) - acked')
    BY <1>1, <1>2, SendConstants DEF SendInv, InHand
  <2>2. n \in Nat /\ n <= a /\ n <= cntr
    <3> HIDE DEF a
    <3>1. n \in Taken(Least({a, cntr, Chunk}))
      BY <1>6 DEF a
    <3>2. QED
      BY <2>1, <3>1, TakenFits
  <2>3. /\ ptrbuf \in Nat \X Nat /\ ptrbuf[1] \in 1 .. Len(sizes') /\ ptrbuf[2] >= 1
        /\ ptrbuf[2] + cntr = sizes'[ptrbuf[1]] + 1
        /\ sizes' \in Seq(1 .. MaxUnits) /\ Len(sizes) <= Len(sizes')
        /\ \A k \in 1 .. Len(sizes) : sizes'[k] = sizes[k]
    BY <1>1, <1>6 DEF SendInv, InHand
  <2>4. InHand /\ Rising(stream) /\ n <= SndBuf - (Len(stream) - acked')
    BY <2>1, <2>2 DEF SendInv
  <2>8. Writes(ptrbuf, cntr, n)
    BY <1>2, <1>6, <2>1, <2>2, <2>3, <2>4 DEF Writes
  <2> HIDE DEF a
  <2>5. /\ InHand' /\ Rising(stream')
        /\ \A u \in Offered' : Before(u, ptrbuf')
                => Before(u, ptrbuf) \/ \E k \in 1 .. Len(stream') : stream'[k] = u
    BY <2>8, Wrote DEF SendInv
  <2>6. Complete'
    <3> SUFFICES ASSUME ~rushed', ~failed'
                 PROVE  /\ ptrbuf'[1] = Len(sizes')
                        /\ \A u \in Offered' : Before(u, ptrbuf')
                             => \E k \in 1 .. Len(stream') : stream'[k] = u
      BY Zenon DEF Complete
    <3>1. ptrbuf[1] = Len(sizes)
          /\ \A u \in Offered : Before(u, ptrbuf) => \E k \in 1 .. Len(stream) : stream[k] = u
      BY <1>1, <1>6, Zenon DEF SendInv, Complete
    <3>2. ptrbuf'[1] = Len(sizes')
      BY <1>1, <1>6, <3>1
    <3>3. \A k \in 1 .. Len(stream) : k \in 1 .. Len(stream') /\ stream'[k] = stream[k]
      <4>1. stream \in Seq(Nat \X Nat) /\ ptrbuf \in Nat \X Nat
        BY DEF SendInv, InHand
      <4>2. QED
        BY ONLY <1>6, <2>2, <4>1, StreamGrows
    <3>4. QED
      BY <1>3, <2>5, <3>1, <3>2, <3>3
  <2>7. QED
    BY <1>6, <2>5, <2>6, <1>2 DEF SendInv
<1>7. \/ cntr = 0 /\ UNCHANGED <<stream, ptrbuf, cntr, failed>>
      \/ failed' /\ UNCHANGED <<stream, ptrbuf, cntr, asked>>
      \/ /\ cntr # 0 /\ UNCHANGED <<failed, asked>>
         /\ \E n \in Taken(Least({SndBuf - (Len(stream) - (acked + m)), cntr, Chunk})) :
               /\ stream' = stream \o Units(ptrbuf, n)
               /\ ptrbuf' = <<ptrbuf[1], ptrbuf[2] + n>> /\ cntr' = cntr - n
  BY DEF espconn_client_sent, espconn_tcp_sent, Units
<1>8. QED
  BY <1>4, <1>5, <1>6, <1>7

(* The invariant holds at first, and each step keeps it.                   *)
LEMMA SendInitInv == SendInit => SendInv
<1> SUFFICES ASSUME SendInit PROVE SendInv
  OBVIOUS
<1>1. sizes = <<>> /\ stream = <<>> /\ acked = 0 /\ ptrbuf = <<0, 0>> /\ cntr = 0
  BY DEF SendInit
<1>2. InHand
  BY <1>1, SendConstants DEF InHand
<1>3. Rising(stream)
  BY <1>1 DEF Rising
<1>4. Complete
  BY <1>1 DEF Complete, Offered
<1>5. QED
  BY <1>1, <1>2, <1>3, <1>4 DEF SendInv

LEMMA SendStep == SendInv /\ [SendNext]_sendVars => SendInv'
<1> SUFFICES ASSUME SendInv, [SendNext]_sendVars PROVE SendInv'
  OBVIOUS
<1>1. CASE UNCHANGED sendVars
  <2>1. UNCHANGED <<sizes, stream, acked, ptrbuf, cntr, asked, rushed, failed>>
    BY <1>1 DEF sendVars
  <2>2. Offered' = Offered
    BY <2>1 DEF Offered
  <2>3. InHand'
    BY <2>1, <2>2 DEF SendInv, InHand
  <2>4. Rising(stream)' /\ Complete' /\ (~asked' => cntr' = 0)
    BY <2>1, <2>2, Zenon DEF SendInv, Rising, Complete
  <2>5. QED
    BY <2>3, <2>4, Zenon DEF SendInv
<1>2. QED
  BY <1>1, MessageSent, MoreAcked DEF SendNext

(* Whatever fits of a message at a time, the stream has its units in their *)
(* order, none twice and none from beyond it; and if the application waits *)
(* for its callbacks and no write fails, all of them.  For messages and a  *)
(* send buffer of any size.                                                *)
THEOREM StreamKept == SendSpec => []SendKept
<1>1. SendInv => SendKept
  <2> SUFFICES ASSUME SendInv PROVE SendKept
    OBVIOUS
  <2>1. stream \in Seq(Nat \X Nat) /\ sizes \in Seq(1 .. MaxUnits) /\ DOMAIN stream = 1 .. Len(stream)
        /\ ptrbuf[1] \in Nat /\ ptrbuf[2] \in Nat /\ cntr \in Nat /\ Len(stream) \in Nat
        /\ Len(sizes) \in Nat
    <3>1. stream \in Seq(Nat \X Nat) /\ sizes \in Seq(1 .. MaxUnits) /\ ptrbuf \in Nat \X Nat
          /\ cntr \in Nat
      BY DEF SendInv, InHand
    <3>2. DOMAIN stream = 1 .. Len(stream) /\ Len(stream) \in Nat /\ Len(sizes) \in Nat
      BY <3>1, LenProperties
    <3>3. QED
      BY <3>1, <3>2
  <2>2. Ordered
    <3>1. \A k \in DOMAIN stream : stream[k][2] <= sizes[stream[k][1]]
      <4> TAKE k \in DOMAIN stream
      <4>1. stream[k] \in Offered
        BY <2>1 DEF SendInv, InHand
      <4>2. QED
        BY <2>1, <4>1, OfferedUnit
    <3>2. \A j, k \in DOMAIN stream : j < k => Before(stream[j], stream[k])
      BY <2>1 DEF SendInv, Rising
    <3>3. QED
      BY <3>1, <3>2 DEF Ordered
  <2>3. ASSUME ~rushed, ~failed
        PROVE  /\ {Accounted[k] : k \in DOMAIN Accounted} = Offered
               /\ \A j, k \in DOMAIN Accounted : j < k => Before(Accounted[j], Accounted[k])
    <3> DEFINE r == Units(ptrbuf, cntr)
               x == Len(stream)
    <3>1. r \in Seq(Nat \X Nat) /\ Len(r) = cntr
          /\ \A k \in 1 .. cntr : r[k] = <<ptrbuf[1], ptrbuf[2] + k - 1>>
      BY <2>1 DEF Units
    <3>2. Accounted = stream \o r
      BY DEF Accounted, Units
    <3> HIDE DEF r
    <3>3. /\ DOMAIN Accounted = 1 .. (x + cntr)
          /\ \A k \in 1 .. x : Accounted[k] = stream[k]
          /\ \A k \in 1 .. cntr : Accounted[x + k] = <<ptrbuf[1], ptrbuf[2] + k - 1>>
      <4>1. /\ Accounted \in Seq(Nat \X Nat) /\ Len(Accounted) = x + cntr
            /\ \A i \in 1 .. (x + cntr) : Accounted[i] = IF i <= x THEN stream[i] ELSE r[i - x]
        BY <2>1, <3>1, <3>2, ConcatProperties
      <4>2. DOMAIN Accounted = 1 .. (x + cntr)
        BY <4>1, LenProperties
      <4>3. \A k \in 1 .. x : k \in 1 .. (x + cntr) /\ k <= x
        BY <2>1
      <4>4. \A k \in 1 .. cntr : x + k \in 1 .. (x + cntr) /\ ~(x + k <= x) /\ (x + k) - x = k
        BY <2>1
      <4>5. QED
        BY <3>1, <4>1, <4>2, <4>3, <4>4
    <3> HIDE DEF x
    <3>4. \A k \in 1 .. (x + cntr) : k \in 1 .. x \/ k - x \in 1 .. cntr
      BY <2>1 DEF x
    <3>5. \A k \in 1 .. x : stream[k][1] \in Nat /\ stream[k][2] \in Nat /\ stream[k] \in Offered
                           /\ Before(stream[k], ptrbuf)
      BY <2>1, Pairs DEF SendInv, InHand, x
    <3>11. x \in Nat
      BY <2>1 DEF x
    <3>6. \A k \in 1 .. cntr : /\ Accounted[x + k][1] = ptrbuf[1]
                              /\ Accounted[x + k][2] = ptrbuf[2] + k - 1
      BY <3>3
    <3>7. ASSUME NEW j \in 1 .. (x + cntr), NEW k \in 1 .. (x + cntr), j < k
          PROVE  Before(Accounted[j], Accounted[k])
      <4>1. CASE k \in 1 .. x
        <5>1. j \in 1 .. x
          BY <2>1, <3>11, <3>7, <4>1
        <5>2. QED
          BY <3>3, <3>7, <4>1, <5>1 DEF SendInv, Rising, x
      <4>2. CASE k \notin 1 .. x
        <5>1. PICK b \in 1 .. cntr : k = x + b
          BY <2>1, <3>11, <3>4, <4>2
        <5>2. CASE j \in 1 .. x
          <6>1. Accounted[j][1] \in Nat /\ Accounted[j][2] \in Nat /\ Before(Accounted[j], ptrbuf)
            BY <3>3, <3>5, <5>2
          <6>2. /\ Accounted[k][1] = ptrbuf[1] /\ Accounted[k][2] = ptrbuf[2] + b - 1
                /\ b \in Nat /\ b >= 1
            BY <2>1, <3>6, <5>1
          <6>3. Accounted[k][2] \in Nat /\ ptrbuf[2] <= Accounted[k][2]
            BY <2>1, <6>2
          <6>4. QED
            BY <2>1, <6>1, <6>2, <6>3, BeforeLater
        <5>3. CASE j \notin 1 .. x
          <6>1. PICK a \in 1 .. cntr : j = x + a
            BY <2>1, <3>11, <3>4, <5>3
          <6>2. a < b
            BY <2>1, <3>11, <3>7, <5>1, <6>1
          <6>3. /\ Accounted[j][1] = ptrbuf[1] /\ Accounted[j][2] = ptrbuf[2] + a - 1
                /\ Accounted[k][1] = ptrbuf[1] /\ Accounted[k][2] = ptrbuf[2] + b - 1
            BY <3>6, <5>1, <6>1
          <6>4. ptrbuf[2] + a - 1 < ptrbuf[2] + b - 1
            BY <2>1, <6>2
          <6>5. QED
            BY <6>3, <6>4 DEF Before
        <5>4. QED
          BY <5>2, <5>3
      <4>3. QED
        BY <4>1, <4>2
    <3>8. ASSUME NEW k \in 1 .. (x + cntr) PROVE Accounted[k] \in Offered
      <4>1. CASE k \in 1 .. x
        BY <3>3, <3>5, <4>1
      <4>2. CASE k \notin 1 .. x
        <5>1. PICK b \in 1 .. cntr : k = x + b
          BY <2>1, <3>11, <3>4, <4>2
        <5>2. ptrbuf[1] \in 1 .. Len(sizes) /\ ptrbuf[2] >= 1 /\ ptrbuf[2] + cntr = sizes[ptrbuf[1]] + 1
          BY <2>1, <3>11, <5>1 DEF SendInv, InHand
        <5>3. sizes[ptrbuf[1]] \in Nat
          BY <2>1, <5>2, Sizes
        <5>4. ptrbuf[2] + b - 1 \in 1 .. sizes[ptrbuf[1]]
          BY <2>1, <5>2, <5>3, OffsetFits
        <5>5. Accounted[k] = <<ptrbuf[1], ptrbuf[2] + b - 1>>
          BY <3>3, <5>1
        <5>6. QED
          BY <2>1, <3>11, <5>2, <5>4, <5>5, OfferedUnit
      <4>3. QED
        BY <4>1, <4>2
    <3>9. ASSUME NEW u \in Offered PROVE \E k \in 1 .. (x + cntr) : u = Accounted[k]
      <4>1. CASE Before(u, ptrbuf)
        <5>1. PICK k \in 1 .. x : stream[k] = u
          BY <2>3, <4>1, Zenon DEF SendInv, Complete, x
        <5>2. k \in 1 .. (x + cntr)
          BY <2>1, <3>11, <5>1
        <5>3. QED
          BY <3>3, <5>1, <5>2
      <4>2. CASE ~Before(u, ptrbuf)
        <5> DEFINE m == u[1]
                   y == u[2]
        <5>1. u = <<m, y>> /\ m \in 1 .. Len(sizes) /\ y \in 1 .. sizes[m]
              /\ sizes[m] \in Nat /\ m \in Nat /\ y \in Nat
          BY <2>1, OfferedUnit
        <5>2. ptrbuf[1] = Len(sizes)
          BY <2>3, Zenon DEF SendInv, Complete
        <5>3. m = ptrbuf[1] /\ y >= ptrbuf[2]
          BY <2>1, <4>2, <5>1, <5>2 DEF Before
        <5> HIDE DEF m, y
        <5>4. ptrbuf[2] + cntr = sizes[m] + 1 /\ ptrbuf[2] >= 1
          BY <2>1, <3>11, <5>1, <5>3 DEF SendInv, InHand
        <5>5. y - ptrbuf[2] + 1 \in 1 .. cntr /\ ptrbuf[2] + (y - ptrbuf[2] + 1) - 1 = y
          <6> DEFINE q == ptrbuf[2]
                     z == sizes[m]
          <6>1. q \in Nat /\ z \in Nat /\ q >= 1 /\ q + cntr = z + 1 /\ cntr \in Nat
                /\ y \in 1 .. z /\ y >= q
            BY <2>1, <5>1, <5>3, <5>4
          <6> HIDE DEF q, z
          <6>2. y - q + 1 \in 1 .. cntr /\ q + (y - q + 1) - 1 = y
            BY <6>1, OffsetLeft
          <6>3. QED
            BY <6>2 DEF q
        <5> DEFINE b == y - ptrbuf[2] + 1
        <5> HIDE DEF b
        <5>6. b \in 1 .. cntr /\ <<ptrbuf[1], ptrbuf[2] + b - 1>> = u
          BY <5>1, <5>3, <5>5 DEF b
        <5>7. Accounted[x + b] = u
          BY <3>3, <5>6
        <5>9. x + b \in 1 .. (x + cntr)
          BY <2>1, <3>11, <5>6
        <5>8. QED
          BY <5>7, <5>9
      <4>3. QED
        BY <4>1, <4>2
    <3>10. QED
      BY <3>3, <3>7, <3>8, <3>9
  <2>4. QED
    BY <2>2, <2>3 DEF SendKept, NothingMissing
<1>2. QED
  BY <1>1, SendInitInv, SendStep, PTL DEF SendSpec

=============================================================================
