------------------------------ MODULE TcpProofs ------------------------------
(***************************************************************************)
(* Proofs about the states of a TCP connection: for any number of          *)
(* connections one after another, of segments each end sends, loses and    *)
(* sends again.                                                            *)
(*                                                                         *)
(* First what holds of one end: every action is a step of it, in which its *)
(* block goes, begins or goes on by an answer, a retransmission or a       *)
(* segment received.  Then what holds between the ends, kind of step by    *)
(* kind of step.                                                           *)
(***************************************************************************)
EXTENDS TcpStates, FiniteSetTheorems, NumberLemmas

(* The states of a connection, and what its block may hold in each; n is   *)
(* its first number.                                                       *)
Opening == {"SYN_SENT", "SYN_RCVD"}
Open == {"ESTABLISHED", "CLOSE_WAIT"}
Closing == {"FIN_WAIT_1", "FIN_WAIT_2", "CLOSING", "LAST_ACK"}

Block ==
    [state : Active \cup {"CLOSED", "TIME_WAIT"}, rcv : Nat, una : Nat, head : Nat, nxt : Nat,
     lbb : Nat, syn : Nat, fin : Int, nrtx : 0 .. MaxRtx + 1, rxclosed : BOOLEAN, unread : Nat,
     acked : Nat]

BlockFits(e, p, n) ==
    /\ p \in Block
    /\ p.state = "CLOSED" => p = NoPcb
    /\ p.state \in Active => p.syn = n /\ p.una <= p.head /\ p.head <= p.nxt /\ p.nxt <= p.lbb
    /\ p.state \in Opening =>
         p.una = n /\ p.nxt = n + 1 /\ p.lbb = n + 1 /\ p.fin = -1 /\ p.unread = 0
    /\ p.state \in Open => n < p.una /\ p.fin = -1 /\ p.lbb <= n + MaxData + 1
    /\ p.state \in Closing => n < p.una /\ p.fin = p.lbb - 1 /\ p.lbb <= n + MaxData + 2
    /\ p.state = "TIME_WAIT" => n <= p.nxt /\ p.nxt <= n + MaxData + 2
    /\ p.state = "SYN_SENT" => e = "client" /\ p.rcv = 0
    /\ p.state = "SYN_RCVD" => e = "server"
    /\ p.unread <= RcvWnd

(* What its application has.                                               *)
HandleOf(state) ==
    IF state \in {"CLOSED", "SYN_RCVD"} THEN "none"
    ELSE IF state = "SYN_SENT" THEN "opening"
    ELSE IF state \in Open THEN "open" ELSE "closed"

(* What its callbacks were told, and what a close left.                    *)
Marks == [told : Int, stray : BOOLEAN, queued : BOOLEAN, cut : BOOLEAN]

MarksFit(p, h) ==
    /\ h \in Marks
    /\ p.state \in Opening => h.told = 0
    /\ p.state \in Open /\ ~h.stray => h.told = p.una - p.syn - 1
    /\ p.state \in Active => ~h.cut
    /\ h.cut => h.queued
    /\ p.state \in Closing /\ ~h.queued => p.nxt = p.lbb
    /\ p.state = "FIN_WAIT_2" /\ ~h.queued => p.una = p.lbb

(* A segment g, not a reset, that e has sent: of its present connection or *)
(* of an earlier one.                                                      *)
Segment == [flags : SUBSET {"SYN", "ACK", "FIN", "RST"}, seq : Nat, ack : Nat, len : {0, 1}]
Plain(g) == "RST" \notin g.flags

SegmentFits(e, g) ==
    /\ g.flags \in {{"SYN"}, {"SYN", "ACK"}, {"ACK"}, {"FIN", "ACK"}}
    /\ g.flags = {"SYN"} <=> (e = "client" /\ "SYN" \in g.flags)
    /\ g.flags # {"ACK"} => g.len = 0

StatesInv ==
    /\ net \in [End -> SUBSET Segment] /\ iss \in [End -> Nat] /\ first \in [End -> Nat]
    /\ pcb = [e \in End |-> pcb[e]] /\ hist = [e \in End |-> hist[e]]
    /\ handle = [e \in End |-> HandleOf(pcb[e].state)]
    /\ \A e \in End :
         /\ BlockFits(e, pcb[e], first[e])
         /\ MarksFit(pcb[e], hist[e])
         /\ \A g \in net[Other(e)] : Plain(g) => SegmentFits(e, g)
----------------------------------------------------------------------------
LEMMA StatesConstants ==
    /\ MaxData \in Nat /\ Window \in Nat \ {0} /\ RcvWnd \in Nat /\ MaxRtx \in Nat \ {0}
    /\ MaxData < RcvWnd /\ Iss0 \in Nat /\ Ticks \subseteq Nat
BY StatesAssumption

LEMMA LengthIs ==
    ASSUME NEW g
    PROVE  TcpLength(g) = g.len + (IF "SYN" \in g.flags \/ "FIN" \in g.flags THEN 1 ELSE 0)
BY DEF TcpLength
----------------------------------------------------------------------------
(* The window lets something out, up to a place it ends at.                *)
LEMMA SentToIs ==
    ASSUME NEW p \in Block, p.head <= p.lbb
    PROVE  SentTo(p) \in p.head .. p.lbb /\ (SentTo(p) < p.lbb => ~Fits(p, SentTo(p)))
<1> DEFINE S == {k \in p.head .. p.lbb : k < p.lbb => ~Fits(p, k)}
<1>1. p.head \in Nat /\ p.lbb \in Nat
  BY DEF Block
<1>2. p.lbb \in S /\ S \in SUBSET Nat
  BY <1>1
<1>3. PICK k \in S : \A j \in S : k <= j
  BY <1>2, LeastNat
<1>4. \A i \in p.head .. (k - 1) : Fits(p, i)
  <2> SUFFICES ASSUME NEW i \in p.head .. (k - 1) PROVE Fits(p, i)
    OBVIOUS
  <2>1. i < k /\ i \in p.head .. p.lbb /\ i < p.lbb
    BY <1>1, <1>2
  <2>2. i \notin S
    BY <1>1, <1>2, <1>3, <2>1
  <2>3. QED
    BY <2>1, <2>2
<1>5. \E j \in p.head .. p.lbb : /\ \A i \in p.head .. (j - 1) : Fits(p, i)
                                 /\ j < p.lbb => ~Fits(p, j)
  BY <1>4
<1>6. QED
  BY ONLY <1>5, Zenon DEF SentTo

(* A segment that the block q of the connection that begins at n stands    *)
(* behind.                                                                 *)
Own(q, n, g) ==
    /\ q.state # "CLOSED"
    /\ g.seq >= n /\ g.seq + TcpLength(g) <= q.nxt
    /\ "SYN" \in g.flags => g.seq = n
    /\ "ACK" \in g.flags => q.state # "SYN_SENT"
    /\ g.ack = q.rcv

Sendable(e, q, n, g) == g \in Segment /\ (Plain(g) => SegmentFits(e, g) /\ Own(q, n, g))
AllSendable(e, q, n, segs) == \A g \in segs : Sendable(e, q, n, g)
Resets(segs) == \A g \in segs : g \in Segment /\ ~Plain(g)

LEMMA FlagsAre ==
    ASSUME NEW p, NEW i, p.syn # p.fin
    PROVE  /\ p.state = "SYN_SENT" /\ i = p.syn => Flags(p, i) = {"SYN"}
           /\ p.state # "SYN_SENT" /\ i = p.syn => Flags(p, i) = {"SYN", "ACK"}
           /\ p.state # "SYN_SENT" /\ i = p.fin => Flags(p, i) = {"FIN", "ACK"}
           /\ p.state # "SYN_SENT" /\ i # p.fin /\ i # p.syn => Flags(p, i) = {"ACK"}
BY DEF Flags

(* What the block p puts on its way.                                       *)
LEMMA SegmentSendable ==
    ASSUME NEW e \in End, NEW p, NEW n \in Nat,
           BlockFits(e, p, n), p.state \in Active, NEW q, q.state = p.state, q.rcv = p.rcv,
           NEW i \in p.head .. p.lbb, i < p.lbb, q.nxt \in Nat, i + 1 <= q.nxt
    PROVE  Sendable(e, q, n, Control(Flags(p, i), i, p.rcv, IF IsUnit(p, i) THEN 1 ELSE 0))
<1> DEFINE g == Control(Flags(p, i), i, p.rcv, IF IsUnit(p, i) THEN 1 ELSE 0)
<1>0. q.state # "CLOSED"
  BY DEF Active, Synchronized
<1>1. g.flags = Flags(p, i) /\ g.seq = i /\ g.ack = p.rcv /\ g.len = IF IsUnit(p, i) THEN 1 ELSE 0
  BY DEF Control
<1>2. /\ p.head \in Nat /\ p.lbb \in Nat /\ p.una \in Nat /\ p.rcv \in Nat /\ p.syn = n
      /\ p.una <= p.head /\ i \in Nat /\ n <= p.una
  BY StatesConstants DEF BlockFits, Block, Active, Synchronized, Opening, Open, Closing
<1>3. p.syn # p.fin
  BY <1>2 DEF BlockFits, Block, Active, Synchronized, Opening, Open, Closing
<1>6. CASE p.state = "SYN_SENT"
  <2>1. i = p.syn /\ e = "client"
    BY <1>2, <1>6 DEF BlockFits, Opening, Active
  <2>2. g.flags = {"SYN"} /\ g.len = 0
    BY <1>1, <1>3, <1>6, <2>1, FlagsAre DEF IsUnit
  <2>3. TcpLength(g) = 1
    BY <2>2, LengthIs
  <2>4. g \in Segment
    BY <1>1, <1>2, <2>2 DEF Control, Segment
  <2>5. SegmentFits(e, g)
    BY <2>1, <2>2 DEF SegmentFits
  <2>6. Own(q, n, g)
    BY <1>0, <1>1, <1>2, <2>1, <2>2, <2>3 DEF Own
  <2>7. QED
    BY <2>4, <2>5, <2>6 DEF Sendable
<1>7. CASE p.state # "SYN_SENT" /\ i = p.syn
  <2>1. p.state = "SYN_RCVD" /\ e = "server"
    BY <1>2, <1>7 DEF BlockFits, Block, Active, Synchronized, Opening, Open, Closing
  <2>2. g.flags = {"SYN", "ACK"} /\ g.len = 0
    BY <1>1, <1>3, <1>7, FlagsAre DEF IsUnit
  <2>3. TcpLength(g) = 1
    BY <2>2, LengthIs
  <2>4. g \in Segment
    BY <1>1, <1>2, <2>2 DEF Control, Segment
  <2>5. SegmentFits(e, g)
    BY <2>1, <2>2 DEF SegmentFits
  <2>6. Own(q, n, g)
    BY <1>0, <1>1, <1>2, <1>7, <2>1, <2>2, <2>3 DEF Own
  <2>7. QED
    BY <2>4, <2>5, <2>6 DEF Sendable
<1>8. CASE p.state # "SYN_SENT" /\ i # p.syn /\ i = p.fin
  <2>2. g.flags = {"FIN", "ACK"} /\ g.len = 0
    BY <1>1, <1>3, <1>8, FlagsAre DEF IsUnit
  <2>3. TcpLength(g) = 1
    BY <2>2, LengthIs
  <2>4. g \in Segment
    BY <1>1, <1>2, <2>2 DEF Control, Segment
  <2>5. SegmentFits(e, g)
    BY <2>2 DEF SegmentFits
  <2>6. Own(q, n, g)
    BY <1>0, <1>1, <1>2, <1>8, <2>2, <2>3 DEF Own
  <2>7. QED
    BY <2>4, <2>5, <2>6 DEF Sendable
<1>9. CASE p.state # "SYN_SENT" /\ i # p.syn /\ i # p.fin
  <2>2. g.flags = {"ACK"} /\ g.len = 1
    BY <1>1, <1>3, <1>9, FlagsAre DEF IsUnit
  <2>3. TcpLength(g) = 1
    BY <2>2, LengthIs
  <2>4. g \in Segment
    BY <1>1, <1>2, <2>2 DEF Control, Segment
  <2>5. SegmentFits(e, g)
    BY <2>2 DEF SegmentFits
  <2>6. Own(q, n, g)
    BY <1>0, <1>1, <1>2, <1>9, <2>2, <2>3 DEF Own
  <2>7. QED
    BY <2>4, <2>5, <2>6 DEF Sendable
<1>10. QED
  <2>1. p.state = "SYN_SENT" => i = p.syn
    BY <1>2 DEF BlockFits, Opening, Active
  <2>2. QED
    BY <1>6, <1>7, <1>8, <1>9, <2>1

(* An acknowledgement of a connection that exists.                         *)
LEMMA AckSendable ==
    ASSUME NEW e \in End, NEW p, NEW n \in Nat,
           BlockFits(e, p, n), p.state \in Synchronized \cup {"TIME_WAIT"},
           NEW q, q.state = p.state, q.rcv = p.rcv, q.nxt \in Nat, p.nxt <= q.nxt,
           NEW due, NEW g \in AckOf(p, due)
    PROVE  Sendable(e, q, n, g)
<1>1. g = Control({"ACK"}, p.nxt, p.rcv, 0)
  BY DEF AckOf, EmptyAck
<1>2. g.flags = {"ACK"} /\ g.seq = p.nxt /\ g.ack = p.rcv /\ g.len = 0
  BY <1>1 DEF Control
<1>3. /\ p.nxt \in Nat /\ p.rcv \in Nat /\ n <= p.nxt /\ p.state # "SYN_SENT"
  BY StatesConstants DEF BlockFits, Block, Active, Synchronized, Opening, Open, Closing
<1>4. TcpLength(g) = 0
  BY <1>2, LengthIs
<1>5. g \in Segment
  BY <1>1, <1>3 DEF Control, Segment
<1>6. SegmentFits(e, g)
  BY <1>2 DEF SegmentFits
<1>7. QED
  BY <1>2, <1>3, <1>4, <1>5, <1>6 DEF Own, Sendable, Synchronized

----------------------------------------------------------------------------
(* q is p after more of its queue has been sent.                           *)
FurtherSent(p, q) ==
    /\ q.state = p.state /\ q.rcv = p.rcv /\ q.una = p.una /\ q.lbb = p.lbb /\ q.syn = p.syn
    /\ q.fin = p.fin /\ q.unread = p.unread /\ q.acked = p.acked /\ q.rxclosed = p.rxclosed
    /\ q.nrtx = p.nrtx /\ p.nxt <= q.nxt

LEMMA OutputIs ==
    ASSUME NEW p \in Block, p.head <= p.lbb
    PROVE  /\ Output(p) \in Block
           /\ Output(p).head = SentTo(p)
           /\ Output(p).nxt = (IF p.nxt > SentTo(p) THEN p.nxt ELSE SentTo(p))
           /\ FurtherSent(p, Output(p))
<1>1. SentTo(p) \in Nat
  BY SentToIs DEF Block
<1> DEFINE x == SentTo(p)
           y == IF p.nxt > x THEN p.nxt ELSE x
<1>2. p.nxt \in Nat /\ y \in Nat /\ p.nxt <= y
  BY <1>1 DEF Block
<1>3. Output(p) = [p EXCEPT !.head = x, !.nxt = y]
  BY DEF Output, Larger
<1> HIDE DEF x, y
<1>4. Output(p) \in Block /\ Output(p).head = x /\ Output(p).nxt = y /\ FurtherSent(p, Output(p))
  BY <1>1, <1>2, <1>3 DEF Block, FurtherSent, x
<1>5. QED
  BY <1>4 DEF x, y

(* What a block that fits sends, and what it is then.                      *)
LEMMA Outputs ==
    ASSUME NEW e \in End, NEW p, NEW n \in Nat,
           BlockFits(e, p, n), p.state \in Active, NEW due, due => p.state \in Synchronized
    PROVE  /\ BlockFits(e, Output(p), n)
           /\ FurtherSent(p, Output(p))
           /\ \A h : MarksFit(p, h) => MarksFit(Output(p), h)
           /\ AllSendable(e, Output(p), n, OutSegs(p, due))
<1> DEFINE q == Output(p)
           x == SentTo(p)
<1>1. /\ p \in Block /\ p.head \in Nat /\ p.lbb \in Nat /\ p.nxt \in Nat /\ p.una \in Nat
      /\ p.una <= p.head /\ p.head <= p.nxt /\ p.nxt <= p.lbb /\ p.syn = n
  BY DEF BlockFits, Block
<1>2. x \in p.head .. p.lbb
  BY <1>1, SentToIs
<1>3. /\ q \in Block /\ q.head = x /\ q.nxt = (IF p.nxt > x THEN p.nxt ELSE x)
      /\ FurtherSent(p, q)
  BY <1>1, OutputIs
<1> HIDE DEF q, x
<1>4. /\ q.nxt \in Nat /\ x <= q.nxt /\ q.nxt <= q.lbb /\ q.una <= q.head /\ q.head <= q.nxt
      /\ (p.nxt = p.lbb => q.nxt = q.lbb)
  BY <1>1, <1>2, <1>3 DEF FurtherSent
<1>5. BlockFits(e, q, n)
  <2>1. q.state # "CLOSED" /\ q.state # "TIME_WAIT" /\ q.state = p.state
    BY <1>3 DEF FurtherSent, Active, Synchronized
  <2>2. q.state \in Opening => q.nxt = n + 1
    BY <1>1, <1>2, <1>3, <1>4 DEF FurtherSent, BlockFits
  <2>3. QED
    BY <1>3, <1>4, <2>1, <2>2 DEF FurtherSent, BlockFits
<1>6. ASSUME NEW h, MarksFit(p, h) PROVE MarksFit(q, h)
  BY <1>3, <1>4, <1>6 DEF MarksFit, FurtherSent
<1>7. ASSUME NEW g \in OutSegs(p, due) PROVE Sendable(e, q, n, g)
  <2>1. CASE x = p.head
    <3>1. g \in AckOf(p, due)
      BY <1>7, <2>1 DEF OutSegs, x
    <3>2. p.state \in Synchronized
      BY <3>1 DEF AckOf
    <3>3. QED
      BY <1>3, <1>4, <3>1, <3>2, AckSendable DEF FurtherSent
  <2>2. CASE x # p.head
    <3>1. g \in {Control(Flags(p, i), i, p.rcv, IF IsUnit(p, i) THEN 1 ELSE 0) :
                 i \in p.head .. (x - 1)}
      BY <1>7, <2>2 DEF OutSegs, x
    <3>2. PICK i \in p.head .. (x - 1) :
                 g = Control(Flags(p, i), i, p.rcv, IF IsUnit(p, i) THEN 1 ELSE 0)
      BY <3>1
    <3>3. i \in p.head .. p.lbb /\ i < p.lbb /\ i + 1 <= q.nxt
      BY <1>1, <1>2, <1>4, <3>2
    <3>4. q.state = p.state /\ q.rcv = p.rcv /\ q.nxt \in Nat
      BY <1>3, <1>4 DEF FurtherSent
    <3>5. QED
      BY <3>2, <3>3, <3>4, SegmentSendable
  <2>3. QED
    BY <2>1, <2>2
<1>8. QED
  BY <1>3, <1>5, <1>6, <1>7 DEF q, AllSendable

(* The SYN, or the SYN with its acknowledgement, is sent at once.          *)
Opens(e, st, rc) ==
    \/ st = "SYN_SENT" /\ e = "client" /\ rc = 0
    \/ st = "SYN_RCVD" /\ e = "server"

Begins(p, q, st, rc, n) == p = Opened(st, rc, n) /\ q = Output(p)
Begun(q, st, rc) == q.state = st /\ q.rcv = rc

LEMMA OpenedSends ==
    ASSUME NEW e \in End, NEW n \in Nat, NEW st, NEW rc \in Nat,
           Opens(e, st, rc), NEW p, NEW q, Begins(p, q, st, rc, n)
    PROVE  /\ BlockFits(e, q, n)
           /\ Begun(q, st, rc)
           /\ MarksFit(q, Unmarked)
           /\ AllSendable(e, q, n, OutSegs(p, FALSE))
<1> DEFINE p2 == [p EXCEPT !.nxt = n + 1]
<1>0. \/ st = "SYN_SENT" /\ e = "client" /\ rc = 0
      \/ st = "SYN_RCVD" /\ e = "server"
  BY DEF Opens
<1>1. /\ p.state = st /\ p.rcv = rc /\ p.una = n /\ p.head = n /\ p.nxt = n /\ p.lbb = n + 1
      /\ p.syn = n /\ p.fin = -1 /\ p.unread = 0 /\ p.rxclosed = FALSE
  BY DEF Begins, Opened, NoPcb
<1>2. p \in Block /\ p2 \in Block /\ p2.nxt = n + 1
  <2>1. st \in Active /\ MaxRtx \in Nat
    BY <1>0, StatesConstants DEF Active
  <2>2. NoPcb \in Block
    BY <2>1 DEF NoPcb, Block
  <2> DEFINE l == n + 1
  <2>3. l \in Nat /\ st \in Active \cup {"CLOSED", "TIME_WAIT"}
    BY <2>1
  <2> HIDE DEF l
  <2>4. [NoPcb EXCEPT !.state = st, !.rcv = rc, !.una = n, !.head = n, !.nxt = n, !.lbb = l,
                      !.syn = n] \in Block
    BY <2>2, <2>3, Zenon DEF Block
  <2>5. p \in Block
    BY <2>4 DEF Begins, Opened, l
  <2>6. QED
    BY <2>5 DEF Block
<1>3. SentTo(p) = n + 1
  <2>1. SentTo(p) \in p.head .. p.lbb /\ (SentTo(p) < p.lbb => ~Fits(p, SentTo(p)))
    BY <1>1, <1>2, SentToIs
  <2>2. Fits(p, n)
    BY <1>1, StatesConstants DEF Fits, IsUnit
  <2>3. QED
    BY <1>1, <2>1, <2>2
<1>4. /\ q \in Block /\ q.head = n + 1 /\ q.nxt = n + 1 /\ FurtherSent(p, q)
  BY <1>1, <1>2, <1>3, OutputIs DEF Begins
<1>5. /\ p2.state = st /\ p2.rcv = rc /\ p2.una = n /\ p2.head = n /\ p2.lbb = n + 1
      /\ p2.syn = n /\ p2.fin = -1 /\ p2.unread = 0
  BY <1>1, <1>2 DEF Block
<1>6. st \in Opening /\ st \in Active /\ st \notin Synchronized /\ st \notin Open /\ st \notin Closing
      /\ st # "CLOSED" /\ st # "TIME_WAIT"
  BY <1>0 DEF Opening, Active, Synchronized, Open, Closing
<1>7. OutSegs(p, FALSE) = {Control(Flags(p, i), i, p.rcv, IF IsUnit(p, i) THEN 1 ELSE 0) :
                           i \in p.head .. (SentTo(p) - 1)}
  <2>1. SentTo(p) # p.head
    BY <1>1, <1>3
  <2>2. QED
    BY <2>1, Zenon DEF OutSegs
<1>8. \A i : Flags(p, i) = Flags(p2, i) /\ IsUnit(p, i) = IsUnit(p2, i)
  BY <1>1, <1>5 DEF Flags, IsUnit
<1> HIDE DEF p2
<1>9. BlockFits(e, p2, n)
  BY <1>0, <1>2, <1>5, <1>6, StatesConstants DEF BlockFits
<1>10. BlockFits(e, q, n)
  <2>1. /\ q.state = st /\ q.rcv = rc /\ q.una = n /\ q.lbb = n + 1 /\ q.syn = n /\ q.fin = -1
        /\ q.unread = 0
    BY <1>1, <1>4 DEF FurtherSent
  <2>3. q.una <= q.head /\ q.head <= q.nxt /\ q.nxt <= q.lbb /\ q.unread <= RcvWnd
    BY <1>4, <2>1, StatesConstants
  <2>4. /\ q.state = "SYN_SENT" => e = "client" /\ q.rcv = 0
        /\ q.state = "SYN_RCVD" => e = "server"
    BY <1>0, <2>1
  <2>5. q.state \notin Synchronized /\ q.state \notin Open /\ q.state \notin Closing
        /\ q.state # "CLOSED" /\ q.state # "TIME_WAIT"
    BY <1>6, <2>1
  <2>6. QED
    BY <1>4, <2>1, <2>3, <2>4, <2>5 DEF BlockFits
<1>11. MarksFit(q, Unmarked)
  <2>1. q.state = st
    BY <1>1, <1>4 DEF FurtherSent
  <2>2. Unmarked \in Marks /\ Unmarked.told = 0 /\ ~Unmarked.cut
    BY DEF Unmarked, Marks
  <2>3. QED
    BY <1>6, <2>1, <2>2 DEF MarksFit, Closing
<1>12. ASSUME NEW g \in OutSegs(p, FALSE) PROVE Sendable(e, q, n, g)
  <2>1. PICK i \in p.head .. (SentTo(p) - 1) :
               g = Control(Flags(p, i), i, p.rcv, IF IsUnit(p, i) THEN 1 ELSE 0)
    BY <1>7
  <2>2. g = Control(Flags(p2, i), i, p2.rcv, IF IsUnit(p2, i) THEN 1 ELSE 0)
    BY <2>1, <1>1, <1>5, <1>8
  <2>3. i \in p2.head .. p2.lbb /\ i < p2.lbb /\ i + 1 <= q.nxt /\ q.nxt \in Nat
    BY <1>1, <1>3, <1>4, <1>5, <2>1
  <2>4. q.state = p2.state /\ q.rcv = p2.rcv /\ p2.state \in Active
    BY <1>1, <1>4, <1>5, <1>6 DEF FurtherSent
  <2>5. QED
    BY <1>9, <2>2, <2>3, <2>4, SegmentSendable
<1>13. QED
  BY <1>1, <1>4, <1>10, <1>11, <1>12 DEF FurtherSent, AllSendable, Begun

----------------------------------------------------------------------------
(* The connection that begins at n goes on, from the block p to q: it      *)
(* waits for an answer, gets it, or receives; `in` are the segments on     *)
(* their way to it.                                                        *)
Waits(p, q) ==
    p.state \in Opening /\ q.state = p.state /\ q.rcv = p.rcv /\ q.una = p.una

Answered(p, q, n, in) ==
    /\ p.state = "SYN_SENT" /\ q.state \in Synchronized
    /\ \E g \in in : /\ Plain(g) /\ {"SYN", "ACK"} \subseteq g.flags
                     /\ g.ack = n + 1 /\ q.rcv = g.seq + 1 /\ q.una = n + 1

Receives(p, q, in) ==
    /\ p.state \in Synchronized \cup {"SYN_RCVD", "TIME_WAIT"}
    /\ q.state \in Synchronized \cup {"TIME_WAIT"}
    /\ p.state = "TIME_WAIT" => q.state = "TIME_WAIT"
    /\ q.rcv = p.rcv \/ \E g \in in : /\ Plain(g) /\ g.seq = p.rcv /\ TcpLength(g) = 1
                                      /\ q.rcv = p.rcv + 1
    /\ \/ p.state # "SYN_RCVD" /\ q.state = "TIME_WAIT"
       \/ p.state # "SYN_RCVD" /\ q.una = p.una
       \/ \E g \in in : /\ Plain(g) /\ "ACK" \in g.flags /\ q.una = g.ack
                        /\ p.una < g.ack /\ g.ack <= p.nxt

GoesOn(p, q, n, in) ==
    /\ p.state # "CLOSED" /\ q.state # "CLOSED" /\ p.nxt <= q.nxt
    /\ Waits(p, q) \/ Answered(p, q, n, in) \/ Receives(p, q, in)

(* More numbers than a connection uses: the SYN, the units, the FIN.       *)
Span == MaxData + 3

(* A step of the end e, which leaves it with the block q and the marks h;  *)
(* n is the first number of its latest connection then.                    *)
Step(e, q, rest, segs, h, n) ==
    /\ Becomes(e, q, rest, segs) /\ rest \subseteq net[e]
    /\ first' = [first EXCEPT ![e] = n] /\ iss' \in [End -> Nat] /\ (spaced' => spaced)
    /\ handle' = [handle EXCEPT ![e] = HandleOf(q.state)]
    /\ hist' = [hist EXCEPT ![e] = h]
    /\ BlockFits(e, q, n) /\ MarksFit(q, h)
    /\ AllSendable(e, q, n, segs)
    /\ \/ n = first[e] /\ q.state = "CLOSED"
       \/ n = first[e] /\ GoesOn(pcb[e], q, n, net[e])
       \/ /\ n \in Nat /\ (spaced' => n >= first[e] + Span)
          /\ pcb[e].state = "CLOSED" /\ q.state \in Opening
          /\ q.state = "SYN_RCVD" =>
               \E g \in net[e] : Plain(g) /\ "SYN" \in g.flags /\ q.rcv = g.seq + 1
                                 /\ "ACK" \notin g.flags

LEMMA Ends == /\ \A e \in End : Other(e) \in End /\ Other(e) # e /\ Other(Other(e)) = e
              /\ \A e, f \in End : f = e \/ f = Other(e)
BY DEF End, Other

(* What an end knows of its state.                                         *)
LEMMA EndIs ==
    ASSUME StatesInv, NEW e \in End
    PROVE  /\ first[e] \in Nat /\ first[Other(e)] \in Nat
           /\ BlockFits(e, pcb[e], first[e])
           /\ MarksFit(pcb[e], hist[e])
           /\ handle[e] = HandleOf(pcb[e].state)
           /\ net[e] \subseteq Segment
           /\ \A g \in net[e] : Plain(g) => SegmentFits(Other(e), g)
           /\ first = [first EXCEPT ![e] = first[e]]
           /\ hist = [hist EXCEPT ![e] = hist[e]]
           /\ handle = [handle EXCEPT ![e] = HandleOf(pcb[e].state)]
<1>1. Other(e) \in End /\ Other(Other(e)) = e
  BY Ends
<1>2. first[e] \in Nat /\ first[Other(e)] \in Nat /\ net[e] \subseteq Segment
  BY <1>1 DEF StatesInv
<1>3. BlockFits(e, pcb[e], first[e]) /\ MarksFit(pcb[e], hist[e])
  BY DEF StatesInv
<1>4. handle[e] = HandleOf(pcb[e].state)
  BY DEF StatesInv
<1>5. \A g \in net[e] : Plain(g) => SegmentFits(Other(e), g)
  BY <1>1, Zenon DEF StatesInv
<1>6. first = [first EXCEPT ![e] = first[e]]
  BY DEF StatesInv
<1>7. hist = [hist EXCEPT ![e] = hist[e]]
  BY DEF StatesInv
<1>8. handle = [handle EXCEPT ![e] = HandleOf(pcb[e].state)]
  BY <1>4 DEF StatesInv
<1>9. QED
  BY <1>1, <1>2, <1>3, <1>4, <1>5, <1>6, <1>7, <1>8, Zenon

LEMMA StepKeeps ==
    ASSUME StatesInv, NEW e \in End, NEW q, NEW rest, NEW segs, NEW h, NEW n,
           Step(e, q, rest, segs, h, n)
    PROVE  StatesInv'
<1> DEFINE f == Other(e)
<1>1. f \in End /\ f # e /\ Other(f) = e /\ \A d \in End : d = e \/ d = f
  BY Ends, Zenon
<1> HIDE DEF f
<1>2. /\ net \in [End -> SUBSET Segment] /\ first \in [End -> Nat] /\ first[e] \in Nat /\ first[f] \in Nat
  BY <1>1 DEF StatesInv
<1>3. n \in Nat
  BY <1>2 DEF Step
<1>4. /\ pcb' = [pcb EXCEPT ![e] = q] /\ net' = [net EXCEPT ![e] = rest, ![f] = net[f] \cup segs]
      /\ rest \subseteq net[e] /\ first' = [first EXCEPT ![e] = n]
      /\ handle' = [handle EXCEPT ![e] = HandleOf(q.state)] /\ hist' = [hist EXCEPT ![e] = h]
  BY <1>1, <1>2 DEF Step, Becomes, f
<1>5. /\ BlockFits(e, q, n) /\ MarksFit(q, h)
      /\ \A g \in segs : g \in Segment /\ (Plain(g) => SegmentFits(e, g))
  BY DEF Step, AllSendable, Sendable, f
<1>6. /\ pcb'[e] = q /\ pcb'[f] = pcb[f] /\ net'[e] = rest /\ net'[f] = net[f] \cup segs
      /\ first'[e] = n /\ first'[f] = first[f] /\ hist'[e] = h /\ hist'[f] = hist[f]
  BY <1>1, <1>2, <1>4 DEF StatesInv
<1>7. net' \in [End -> SUBSET Segment] /\ iss' \in [End -> Nat] /\ first' \in [End -> Nat]
  <2>1. rest \subseteq Segment /\ net[f] \cup segs \subseteq Segment
    BY <1>1, <1>2, <1>4, <1>5
  <2>2. QED
    BY <1>1, <1>2, <1>3, <1>4, <2>1 DEF Step
<1>8. /\ pcb' = [d \in End |-> pcb'[d]] /\ hist' = [d \in End |-> hist'[d]]
      /\ handle' = [d \in End |-> HandleOf(pcb'[d].state)]
  <2>1. pcb' = [d \in End |-> pcb'[d]]
    BY <1>4 DEF StatesInv
  <2>2. hist' = [d \in End |-> hist'[d]]
    BY <1>4 DEF StatesInv
  <2>3. handle = [d \in End |-> HandleOf(pcb[d].state)]
    BY DEF StatesInv
  <2>4. \A d \in End : handle'[d] = HandleOf(pcb'[d].state)
    BY <1>1, <1>4, <1>6, <2>3
  <2>5. handle' = [d \in End |-> handle'[d]]
    BY <1>4, <2>3
  <2>6. QED
    BY <2>1, <2>2, <2>4, <2>5
<1>9. /\ BlockFits(e, pcb'[e], first'[e]) /\ MarksFit(pcb'[e], hist'[e])
      /\ \A g \in net'[f] : Plain(g) => SegmentFits(e, g)
  <2>1. \A g \in net[f] : Plain(g) => SegmentFits(e, g)
    BY <1>1, Zenon DEF StatesInv, f
  <2>2. QED
    BY <1>5, <1>6, <2>1
<1>10. /\ BlockFits(f, pcb'[f], first'[f]) /\ MarksFit(pcb'[f], hist'[f])
       /\ \A g \in net'[e] : Plain(g) => SegmentFits(f, g)
  <2>1. /\ BlockFits(f, pcb[f], first[f]) /\ MarksFit(pcb[f], hist[f])
        /\ \A g \in net[e] : Plain(g) => SegmentFits(f, g)
    BY <1>1, Zenon DEF StatesInv
  <2>2. QED
    BY <1>4, <1>6, <2>1
<1>11. \A d \in End :
         /\ BlockFits(d, pcb'[d], first'[d])
         /\ MarksFit(pcb'[d], hist'[d])
         /\ \A g \in net'[Other(d)] : Plain(g) => SegmentFits(d, g)
  BY <1>1, <1>9, <1>10, Zenon DEF f
<1>12. QED
  BY <1>7, <1>8, <1>11, Zenon DEF StatesInv

----------------------------------------------------------------------------
(* No connection begins.                                                   *)
SameNumber == first' = first /\ iss' \in [End -> Nat] /\ (spaced' => spaced)

LEMMA SameNumberIs == StatesInv /\ UNCHANGED numbers => SameNumber
BY DEF numbers, SameNumber, StatesInv

(* A connection begins.                                                    *)
LEMMA NextIssIs ==
    ASSUME StatesInv, NEW e \in End, tcp_next_iss(e)
    PROVE  /\ iss' \in [End -> Nat] /\ iss'[e] \in Nat
           /\ first' = [first EXCEPT ![e] = iss'[e]]
           /\ (spaced' => spaced) /\ (spaced' => iss'[e] >= first[e] + Span)
<1>1. PICK ticks \in Ticks : iss' = [iss EXCEPT ![e] = iss[e] + ticks]
  BY DEF tcp_next_iss
<1>2. iss \in [End -> Nat] /\ first[e] \in Nat /\ ticks \in Nat
  BY StatesConstants DEF StatesInv
<1>3. iss' \in [End -> Nat] /\ iss'[e] \in Nat
  BY <1>1, <1>2
<1>4. first' = [first EXCEPT ![e] = iss'[e]]
  BY DEF tcp_next_iss
<1>5. (spaced' => spaced) /\ (spaced' => iss'[e] > first[e] + MaxData + 2)
  BY Zenon DEF tcp_next_iss
<1>6. iss'[e] > first[e] + MaxData + 2 => iss'[e] >= first[e] + Span
  BY <1>2, <1>3, StatesConstants DEF Span
<1>7. QED
  BY <1>3, <1>4, <1>5, <1>6, Zenon

Moves(e) == \E q, rest, segs, h, n : Step(e, q, rest, segs, h, n)

LEMMA MovesKeeps ==
    ASSUME StatesInv, NEW e \in End, Moves(e)
    PROVE  StatesInv'
<1>1. PICK q, rest, segs, h, n : Step(e, q, rest, segs, h, n)
  BY Zenon DEF Moves
<1>2. QED
  BY <1>1, StepKeeps

LEMMA RstIs ==
    ASSUME NEW seq \in Nat, NEW ack \in Nat
    PROVE  Resets(Rst(seq, ack))
BY DEF Resets, Rst, Control, Segment, Plain

LEMMA ResetsSendable ==
    ASSUME NEW e, NEW q, NEW n, NEW segs, Resets(segs)
    PROVE  AllSendable(e, q, n, segs)
BY DEF Resets, AllSendable, Sendable

LEMMA NoneSent == /\ Resets({})
                  /\ \A e, q, n : AllSendable(e, q, n, {})
BY DEF Resets, AllSendable

(* The connection is gone.                                                 *)
LEMMA FreedMoves ==
    ASSUME StatesInv, NEW e \in End, NEW rest, NEW segs, NEW h \in Marks, h.cut => h.queued,
           rest \subseteq net[e], Resets(segs),
           Becomes(e, NoPcb, rest, segs), handle' = [handle EXCEPT ![e] = "none"],
           SameNumber, hist' = [hist EXCEPT ![e] = h]
    PROVE  Moves(e)
<1>1. NoPcb.state = "CLOSED" /\ NoPcb.rcv = 0 /\ NoPcb.unread = 0 /\ NoPcb \in Block
  BY StatesConstants DEF NoPcb, Block
<1>2. BlockFits(e, NoPcb, first[e])
  BY <1>1, StatesConstants DEF BlockFits, Active, Synchronized, Opening, Open, Closing
<1>3. MarksFit(NoPcb, h)
  BY <1>1 DEF MarksFit, Marks, Active, Synchronized, Opening, Open, Closing
<1>4. HandleOf(NoPcb.state) = "none"
  BY <1>1 DEF HandleOf
<1>5. first' = [first EXCEPT ![e] = first[e]] /\ iss' \in [End -> Nat] /\ (spaced' => spaced)
  BY EndIs DEF SameNumber
<1>6. AllSendable(e, NoPcb, first[e], segs)
  BY ResetsSendable
<1>7. Step(e, NoPcb, rest, segs, h, first[e])
  BY <1>1, <1>2, <1>3, <1>4, <1>5, <1>6 DEF Step
<1>8. QED
  BY <1>7, Zenon DEF Moves

(* The connection goes on with the block p and the segments segs.          *)
Turns(e, p, rest, h) ==
    /\ rest \subseteq net[e] /\ SameNumber
    /\ handle' = [handle EXCEPT ![e] = HandleOf(p.state)] /\ hist' = [hist EXCEPT ![e] = h]
    /\ BlockFits(e, p, first[e])
    /\ GoesOn(pcb[e], p, first[e], net[e])

LEMMA BecomesMoves ==
    ASSUME StatesInv, NEW e \in End, NEW p, NEW rest, NEW segs, NEW h, Turns(e, p, rest, h),
           Becomes(e, p, rest, segs), MarksFit(p, h),
           AllSendable(e, p, first[e], segs)
    PROVE  Moves(e)
<1>1. first' = [first EXCEPT ![e] = first[e]] /\ iss' \in [End -> Nat] /\ (spaced' => spaced)
  BY EndIs DEF Turns, SameNumber
<1>2. Step(e, p, rest, segs, h, first[e])
  BY <1>1 DEF Step, Turns
<1>3. QED
  BY <1>2, Zenon DEF Moves

LEMMA GoesFurther ==
    ASSUME NEW p \in Block, NEW q, NEW r, NEW n, NEW in, GoesOn(p, q, n, in), FurtherSent(q, r),
           q.nxt \in Nat, r.nxt \in Nat
    PROVE  GoesOn(p, r, n, in)
<1>1. p.nxt <= r.nxt
  BY DEF GoesOn, FurtherSent, Block
<1>2. r.state = q.state /\ r.rcv = q.rcv /\ r.una = q.una
  BY DEF FurtherSent
<1>3. Waits(p, q) => Waits(p, r)
  BY <1>2 DEF Waits
<1>4. Answered(p, q, n, in) => Answered(p, r, n, in)
  BY <1>2 DEF Answered
<1>5. Receives(p, q, in) => Receives(p, r, in)
  BY <1>2 DEF Receives
<1>6. QED
  BY <1>1, <1>2, <1>3, <1>4, <1>5 DEF GoesOn

LEMMA SendsMoves ==
    ASSUME StatesInv, NEW e \in End, NEW p, NEW rest, NEW h, NEW due, Turns(e, p, rest, h),
           Sends(e, p, rest, due), p.state \in Active, due => p.state \in Synchronized,
           MarksFit(p, h) \/ MarksFit(Output(p), h)
    PROVE  Moves(e)
<1> DEFINE q == Output(p)
           segs == OutSegs(p, due)
<1>1. first[e] \in Nat /\ pcb[e] \in Block
  BY EndIs DEF BlockFits
<1>2. BlockFits(e, p, first[e]) /\ GoesOn(pcb[e], p, first[e], net[e])
  BY DEF Turns
<1>3. /\ BlockFits(e, q, first[e])
      /\ FurtherSent(p, q)
      /\ \A k : MarksFit(p, k) => MarksFit(q, k)
      /\ AllSendable(e, q, first[e], segs)
  BY <1>1, <1>2, Outputs
<1>4. Becomes(e, q, rest, segs)
  BY DEF Sends
<1> HIDE DEF q, segs
<1>5. p.nxt \in Nat /\ q.nxt \in Nat /\ q.state = p.state
  BY <1>2, <1>3 DEF BlockFits, Block, FurtherSent
<1>6. GoesOn(pcb[e], q, first[e], net[e])
  BY <1>1, <1>2, <1>3, <1>5, GoesFurther
<1>7. Turns(e, q, rest, h)
  BY <1>3, <1>5, <1>6 DEF Turns
<1>8. MarksFit(q, h)
  BY <1>3 DEF q
<1>9. QED
  BY <1>3, <1>4, <1>7, <1>8, BecomesMoves

(* A connection that only waits on.                                        *)
LEMMA GoesOnSame ==
    ASSUME StatesInv, NEW e \in End, NEW q, pcb[e].state # "CLOSED", q.state = pcb[e].state,
           q.rcv = pcb[e].rcv, q.una = pcb[e].una, q.nxt = pcb[e].nxt
    PROVE  GoesOn(pcb[e], q, first[e], net[e])
<1>1. pcb[e].nxt \in Nat /\ pcb[e].state \in Active \cup {"CLOSED", "TIME_WAIT"}
  BY EndIs DEF BlockFits, Block
<1>2. CASE pcb[e].state \in Opening
  BY <1>1, <1>2 DEF GoesOn, Waits
<1>3. CASE pcb[e].state \notin Opening
  BY <1>1, <1>3 DEF GoesOn, Receives, Active, Opening
<1>4. QED
  BY <1>2, <1>3

(* What it has of its state, when a step leaves that alone.                *)
LEMMA Idle ==
    ASSUME StatesInv, NEW e \in End
    PROVE  /\ UNCHANGED handle => handle' = [handle EXCEPT ![e] = HandleOf(pcb[e].state)]
           /\ UNCHANGED hist => hist' = [hist EXCEPT ![e] = hist[e]]
BY EndIs

LEMMA Kinds ==
    ASSUME StatesInv, NEW e \in End
    PROVE  /\ handle[e] = "open" <=> pcb[e].state \in Open
           /\ handle[e] = "opening" <=> pcb[e].state = "SYN_SENT"
           /\ handle[e] = "none" <=> pcb[e].state \in {"CLOSED", "SYN_RCVD"}
           /\ pcb[e].state \in Synchronized => pcb[e].state \in Open \cup Closing
           /\ pcb[e].state \in Open \cup Closing => pcb[e].state \in Synchronized
           /\ pcb[e].state \in Active => pcb[e].state \in Open \cup Closing \cup Opening
           /\ pcb[e].state \in Active \cup {"CLOSED", "TIME_WAIT"}
<1>1. pcb[e].state \in Active \cup {"CLOSED", "TIME_WAIT"}
  BY EndIs DEF BlockFits, Block
<1>2. handle[e] = HandleOf(pcb[e].state)
  BY EndIs
<1>3. QED
  BY <1>1, <1>2 DEF HandleOf, Active, Synchronized, Opening, Open, Closing

----------------------------------------------------------------------------
(* What the applications do.                                               *)
LEMMA Connects == StatesInv /\ tcp_connect => Moves("client")
<1> SUFFICES ASSUME StatesInv, tcp_connect PROVE Moves("client")
  OBVIOUS
<1> DEFINE e == "client"
           n == iss'["client"]
           p == Opened("SYN_SENT", 0, n)
<1>1. e \in End
  BY DEF End
<1>2. /\ n \in Nat /\ first' = [first EXCEPT ![e] = n] /\ iss' \in [End -> Nat]
      /\ (spaced' => spaced) /\ (spaced' => n >= first[e] + Span)
  BY <1>1, NextIssIs DEF tcp_connect
<1>3. Becomes(e, Output(p), net[e], OutSegs(p, FALSE))
  BY <1>2 DEF tcp_connect, Sends
<1>4. pcb[e].state = "CLOSED"
  BY DEF tcp_connect, NoPcb
<1> HIDE DEF n
<1>5. /\ BlockFits(e, Output(p), n)
      /\ Output(p).state = "SYN_SENT"
      /\ MarksFit(Output(p), Unmarked)
      /\ AllSendable(e, Output(p), n, OutSegs(p, FALSE))
  <2>1. Opens(e, "SYN_SENT", 0)
    BY DEF Opens
  <2> DEFINE q == Output(p)
             st == "SYN_SENT"
             rc == 0
  <2>2. /\ Begins(p, q, st, rc, n) /\ e \in End /\ n \in Nat
        /\ Opens(e, st, rc) /\ rc \in Nat
    BY <1>1, <1>2, <2>1 DEF Begins
  <2> HIDE DEF p, q, e, st, rc
  <2>3. BlockFits(e, q, n) /\ Begun(q, st, rc) /\ MarksFit(q, Unmarked)
        /\ AllSendable(e, q, n, OutSegs(p, FALSE))
    BY <2>2, OpenedSends
  <2>4. QED
    BY <2>3 DEF Begun, q, e, st
<1>6. /\ handle' = [handle EXCEPT ![e] = HandleOf("SYN_SENT")]
      /\ hist' = [hist EXCEPT ![e] = Unmarked]
  BY DEF tcp_connect, HandleOf
<1>7. Step(e, Output(p), net[e], OutSegs(p, FALSE), Unmarked, n)
  <2>1. "SYN_SENT" \in Opening
    BY DEF Opening
  <2> HIDE DEF p
  <2>2. QED
    BY <1>2, <1>3, <1>4, <1>5, <1>6, <2>1 DEF Step
<1>8. QED
  BY <1>7, Zenon DEF Moves

LEMMA Writes == StatesInv /\ AppWrites => Moves("client")
<1> SUFFICES ASSUME StatesInv, AppWrites PROVE Moves("client")
  OBVIOUS
<1> DEFINE e == "client"
           p == pcb[e]
           l == p.lbb + 1
           q == [p EXCEPT !.lbb = l]
<1>1. e \in End /\ BlockFits(e, p, first[e]) /\ MarksFit(p, hist[e])
  BY EndIs DEF End
<1>2. p.state \in Open /\ p.lbb - p.syn - 1 < MaxData /\ Sends(e, q, net[e], FALSE)
  BY DEF AppWrites, Open
<1>3. p \in Block /\ l \in Nat /\ p.syn = first[e] /\ l <= first[e] + MaxData + 1 /\ p.nxt <= l
      /\ p.state \in Active
  BY <1>1, <1>2, StatesConstants DEF BlockFits, Block, Active, Synchronized, Open
<1> HIDE DEF l
<1>4. /\ q \in Block /\ q.lbb = l /\ q.state = p.state /\ q.una = p.una /\ q.head = p.head
      /\ q.nxt = p.nxt /\ q.syn = p.syn /\ q.fin = p.fin /\ q.rcv = p.rcv /\ q.unread = p.unread
  BY <1>3 DEF Block
<1> HIDE DEF q
<1>5. BlockFits(e, q, first[e])
  BY <1>1, <1>2, <1>3, <1>4 DEF BlockFits, Active, Synchronized, Opening, Open, Closing
<1>6. MarksFit(q, hist[e])
  BY <1>1, <1>2, <1>3, <1>4 DEF MarksFit, Opening, Open, Closing
<1>7. GoesOn(p, q, first[e], net[e])
  BY <1>1, <1>2, <1>4, GoesOnSame DEF Open
<1>8. Turns(e, q, net[e], hist[e])
  BY <1>1, <1>4, <1>5, <1>7, Idle, SameNumberIs DEF Turns, AppWrites
<1>9. QED
  BY <1>1, <1>2, <1>3, <1>4, <1>6, <1>8, SendsMoves

LEMMA Reads == StatesInv /\ AppReads => Moves("server")
<1> SUFFICES ASSUME StatesInv, AppReads PROVE Moves("server")
  OBVIOUS
<1> DEFINE e == "server"
           p == pcb[e]
           q == [p EXCEPT !.unread = 0]
<1>1. e \in End /\ BlockFits(e, p, first[e]) /\ MarksFit(p, hist[e])
  BY EndIs DEF End
<1>2. p.state \in Open
  BY <1>1, Kinds DEF AppReads
<1>3. p \in Block
  BY <1>1 DEF BlockFits
<1>4. /\ q \in Block /\ q.lbb = p.lbb /\ q.state = p.state /\ q.una = p.una /\ q.head = p.head
      /\ q.nxt = p.nxt /\ q.syn = p.syn /\ q.fin = p.fin /\ q.rcv = p.rcv /\ q.unread = 0
  BY <1>3 DEF Block
<1>5. Becomes(e, q, net[e], {})
  <2>1. pcb' = [pcb EXCEPT ![e] = q]
    BY DEF AppReads, StatesInv
  <2>2. net' = [net EXCEPT ![e] = net[e], ![Other(e)] = net[Other(e)] \cup {}]
    BY DEF AppReads, StatesInv
  <2>3. QED
    BY <2>1, <2>2 DEF Becomes
<1> HIDE DEF q
<1>6. BlockFits(e, q, first[e])
  BY <1>1, <1>2, <1>3, <1>4, StatesConstants
  DEF BlockFits, Active, Synchronized, Opening, Open, Closing
<1>7. MarksFit(q, hist[e])
  BY <1>1, <1>2, <1>3, <1>4 DEF MarksFit, Opening, Open, Closing
<1>8. GoesOn(p, q, first[e], net[e])
  BY <1>1, <1>2, <1>4, GoesOnSame DEF Open
<1>9. Turns(e, q, net[e], hist[e])
  BY <1>1, <1>4, <1>6, <1>8, Idle, SameNumberIs DEF Turns, AppReads
<1>10. QED
  BY <1>1, <1>5, <1>7, <1>9, NoneSent, BecomesMoves

(* A connection that waits for the last of its segments to die out.        *)
LEMMA PurgedIs ==
    ASSUME NEW e \in End, NEW p \in Block, NEW n \in Nat, NEW h \in Marks,
           p.nxt >= n, p.nxt <= n + MaxData + 2, p.unread <= RcvWnd,
           h.cut => h.queued
    PROVE  /\ Purged(p) \in Block /\ Purged(p).state = "TIME_WAIT"
           /\ Purged(p).rcv = p.rcv /\ Purged(p).nxt = p.nxt
           /\ BlockFits(e, Purged(p), n) /\ MarksFit(Purged(p), h)
<1>1. NoPcb \in Block /\ p.rcv \in Nat /\ p.nxt \in Nat /\ p.unread \in Nat
  BY StatesConstants DEF NoPcb, Block
<1> DEFINE r == p.rcv
           x == p.nxt
           u == p.unread
           q == [NoPcb EXCEPT !.state = "TIME_WAIT", !.rcv = r, !.nxt = x, !.unread = u,
                              !.rxclosed = TRUE]
<1>2. Purged(p) = q
  BY DEF Purged
<1>3. r \in Nat /\ x \in Nat /\ u \in Nat
  BY <1>1
<1> HIDE DEF r, x, u
<1>4. q \in Block
  <2>1. "TIME_WAIT" \in Active \cup {"CLOSED", "TIME_WAIT"} /\ TRUE \in BOOLEAN
    OBVIOUS
  <2>2. QED
    BY <1>1, <1>3, <2>1, Zenon DEF Block
<1>5. q.state = "TIME_WAIT" /\ q.rcv = r /\ q.nxt = x /\ q.unread = u
  BY <1>1 DEF NoPcb
<1> HIDE DEF q
<1>6. BlockFits(e, q, n)
  BY <1>4, <1>5 DEF BlockFits, Active, Synchronized, Opening, Open, Closing, r, x, u
<1>7. MarksFit(q, h)
  BY <1>5 DEF MarksFit, Active, Synchronized, Opening, Open, Closing
<1>8. QED
  BY <1>2, <1>4, <1>5, <1>6, <1>7 DEF r, x

LEMMA Closes ==
    ASSUME StatesInv, NEW e \in End, tcp_close(e)
    PROVE  Moves(e)
<1> DEFINE p == pcb[e]
           n == first[e]
<1>1. BlockFits(e, p, n) /\ MarksFit(p, hist[e]) /\ p \in Block /\ n \in Nat
  BY EndIs DEF BlockFits
<1>2. p.state \in Open \cup {"SYN_SENT"} /\ SameNumber
  BY Kinds, SameNumberIs DEF tcp_close
<1>3. hist[e] \in Marks /\ (hist[e].cut => hist[e].queued)
  BY <1>1 DEF MarksFit
<1>4. CASE CloseUnread(e, p)
  <2>1. p.unread > 0 /\ p.state \in Open
    BY <1>1, <1>2, <1>4 DEF CloseUnread, BlockFits, Opening
  <2>2. p.nxt \in Nat /\ p.rcv \in Nat /\ p.nxt >= n /\ p.nxt <= n + MaxData + 2
        /\ p.unread <= RcvWnd
    BY <1>1, <2>1, StatesConstants DEF BlockFits, Block, Active, Synchronized, Open
  <2>3. /\ Purged(p).state = "TIME_WAIT" /\ Purged(p).rcv = p.rcv /\ Purged(p).nxt = p.nxt
        /\ BlockFits(e, Purged(p), n) /\ MarksFit(Purged(p), hist[e])
    BY <1>1, <1>3, <2>2, PurgedIs
  <2>4. GoesOn(p, Purged(p), n, net[e])
    BY <2>1, <2>2, <2>3 DEF GoesOn, Receives, Synchronized, Open
  <2>5. Becomes(e, Purged(p), net[e], Rst(p.nxt, p.rcv))
    BY <1>4 DEF CloseUnread
  <2>6. AllSendable(e, Purged(p), n, Rst(p.nxt, p.rcv))
    BY <2>2, RstIs, ResetsSendable
  <2>7. Turns(e, Purged(p), net[e], hist[e])
    BY <1>2, <1>4, <2>3, <2>4, Idle DEF Turns, CloseUnread, HandleOf, Open
  <2>8. QED
    BY <2>3, <2>5, <2>6, <2>7, BecomesMoves
<1>5. CASE CloseOpening(e, p)
  <2>1. hist' = [hist EXCEPT ![e] = hist[e]]
    BY <1>5, Idle DEF CloseOpening
  <2>2. Becomes(e, NoPcb, net[e], {}) /\ handle' = [handle EXCEPT ![e] = "none"]
    BY <1>5 DEF CloseOpening
  <2>3. net[e] \subseteq net[e] /\ Resets({})
    BY NoneSent
  <2>4. QED
    BY <1>2, <1>3, <2>1, <2>2, <2>3, FreedMoves
<1>6. CASE CloseOpen(e, p)
  <2> DEFINE st == IF p.state = "ESTABLISHED" THEN "FIN_WAIT_1" ELSE "LAST_ACK"
             f == p.lbb
             l == p.lbb + 1
             q == [p EXCEPT !.rxclosed = TRUE, !.fin = f, !.lbb = l, !.state = st]
             b == Output(q).nxt < q.lbb
             h == [hist[e] EXCEPT !.queued = b]
  <2>1. /\ p.state \in Open /\ Sends(e, q, net[e], FALSE)
        /\ hist' = [hist EXCEPT ![e].queued = Output(q).nxt < q.lbb]
        /\ handle' = [handle EXCEPT ![e] = "closed"]
    BY <1>6 DEF CloseOpen, Open
  <2>2. st \in Closing /\ st \in Active /\ st \in Synchronized /\ HandleOf(st) = "closed"
    BY DEF Closing, Active, Synchronized, HandleOf, Open
  <2>3. /\ f \in Int /\ l \in Nat /\ l = f + 1 /\ f <= n + MaxData + 1 /\ n < p.una /\ p.nxt <= f
        /\ p.syn = n /\ p.una <= p.head /\ p.head <= p.nxt /\ p.nxt \in Nat /\ ~hist[e].cut
        /\ p.unread <= RcvWnd
    BY <1>1, <2>1 DEF BlockFits, Block, Active, Synchronized, Open, MarksFit
  <2> HIDE DEF st, f, l
  <2>4. q \in Block
    <3>1. st \in Active \cup {"CLOSED", "TIME_WAIT"} /\ TRUE \in BOOLEAN
      BY <2>2
    <3>2. QED
      BY <1>1, <2>3, <3>1, Zenon DEF Block
  <2>5. /\ q.lbb = l /\ q.state = st /\ q.una = p.una /\ q.head = p.head /\ q.fin = f
        /\ q.nxt = p.nxt /\ q.syn = p.syn /\ q.rcv = p.rcv /\ q.unread = p.unread
    BY <1>1 DEF Block
  <2> HIDE DEF q
  <2>6. BlockFits(e, q, n)
    <3>1. st \notin Opening /\ st \notin Open /\ st \notin {"CLOSED", "TIME_WAIT", "SYN_SENT", "SYN_RCVD"}
      BY DEF st, Opening, Open
    <3>2. q.una <= q.head /\ q.head <= q.nxt /\ q.nxt <= q.lbb /\ n < q.una
      BY <1>1, <2>3, <2>5 DEF Block
    <3>3. q.fin = q.lbb - 1 /\ q.lbb <= n + MaxData + 2
      BY <1>1, <2>3, <2>5, StatesConstants
    <3>4. q.syn = n /\ q.unread <= RcvWnd
      BY <2>3, <2>5
    <3>5. QED
      BY <2>2, <2>4, <2>5, <3>1, <3>2, <3>3, <3>4, Zenon DEF BlockFits
  <2>7. MarksFit(Output(q), h)
    <3>2. BlockFits(e, Output(q), n) /\ FurtherSent(q, Output(q))
      BY <1>1, <2>2, <2>5, <2>6, Outputs
    <3>3. Output(q).state = st /\ Output(q).lbb = q.lbb /\ Output(q).nxt \in Nat
          /\ Output(q).nxt <= Output(q).lbb /\ q.lbb \in Nat
      BY <2>2, <2>4, <2>5, <3>2 DEF BlockFits, Block, FurtherSent
    <3>4. h \in Marks /\ ~h.cut /\ h.queued = b
      <4>1. b \in BOOLEAN
        OBVIOUS
      <4> HIDE DEF b
      <4>2. QED
        BY <1>3, <2>3, <4>1 DEF Marks
    <3>5. st # "FIN_WAIT_2" /\ st \notin Opening /\ st \notin Open
      BY DEF st, Opening, Open
    <3> HIDE DEF h
    <3>6. ~h.queued => Output(q).nxt = Output(q).lbb
      <4>1. ~h.queued => ~b
        BY <3>4, Zenon
      <4>2. ~b => Output(q).nxt = Output(q).lbb
        BY <3>3
      <4>3. QED
        BY <4>1, <4>2, Zenon
    <3>7. QED
      BY <3>3, <3>4, <3>5, <3>6 DEF MarksFit
  <2>8. GoesOn(p, q, n, net[e])
    BY <2>1, <2>2, <2>3, <2>5 DEF GoesOn, Receives, Synchronized, Open
  <2>9. hist' = [hist EXCEPT ![e] = h]
    BY <2>1, Zenon
  <2>10. Turns(e, q, net[e], h)
    BY <1>2, <2>1, <2>2, <2>5, <2>6, <2>8, <2>9 DEF Turns
  <2>11. QED
    BY <2>1, <2>2, <2>5, <2>7, <2>10, SendsMoves
<1>7. CASE CloseFails(e, p)
  <2> DEFINE q == [p EXCEPT !.rxclosed = TRUE]
  <2>1. p.state \in Open /\ Becomes(e, q, net[e], {}) /\ UNCHANGED <<handle, hist>>
    BY <1>7 DEF CloseFails, Open
  <2>2. /\ q \in Block /\ q.lbb = p.lbb /\ q.state = p.state /\ q.una = p.una /\ q.head = p.head
        /\ q.nxt = p.nxt /\ q.syn = p.syn /\ q.fin = p.fin /\ q.rcv = p.rcv /\ q.unread = p.unread
    BY <1>1 DEF Block
  <2> HIDE DEF q
  <2>3. BlockFits(e, q, n)
    BY <1>1, <2>1, <2>2 DEF BlockFits, Active, Synchronized, Opening, Open, Closing
  <2>4. MarksFit(q, hist[e])
    BY <1>1, <2>1, <2>2 DEF MarksFit, Opening, Open, Closing
  <2>5. GoesOn(p, q, n, net[e])
    BY <2>1, <2>2, GoesOnSame DEF Open
  <2>6. Turns(e, q, net[e], hist[e])
    BY <1>2, <2>1, <2>2, <2>3, <2>5, Idle DEF Turns
  <2>7. QED
    BY <2>1, <2>4, <2>6, NoneSent, BecomesMoves
<1>8. QED
  BY <1>4, <1>5, <1>6, <1>7 DEF tcp_close

----------------------------------------------------------------------------
(* What comes in.                                                          *)
Comes(e, s, rest) == s \in net[e] /\ rest \subseteq net[e]

LEMMA ComesIs ==
    ASSUME StatesInv, NEW e \in End, NEW s, NEW rest, Comes(e, s, rest)
    PROVE  /\ s \in Segment /\ s.seq \in Nat /\ s.ack \in Nat /\ TcpLength(s) \in Nat
           /\ rest \subseteq net[e] /\ s \in net[e]
           /\ Plain(s) => SegmentFits(Other(e), s)
<1>1. s \in Segment
  BY EndIs DEF Comes
<1>2. TcpLength(s) \in Nat
  BY <1>1, LengthIs DEF Segment
<1>3. Plain(s) => SegmentFits(Other(e), s)
  BY EndIs DEF Comes
<1>4. QED
  BY <1>1, <1>2, <1>3 DEF Comes, Segment

(* No segment of the client's has both SYN and ACK, none of the server's   *)
(* lacks the ACK.                                                          *)
LEMMA ComesAs ==
    ASSUME StatesInv, NEW e \in End, NEW s, NEW rest, Comes(e, s, rest), Plain(s)
    PROVE  /\ e = "client" => "ACK" \in s.flags
           /\ e = "client" /\ "SYN" \in s.flags => {"SYN", "ACK"} \subseteq s.flags
           /\ "SYN" \notin s.flags => "ACK" \in s.flags
           /\ e = "server" /\ "ACK" \in s.flags => "SYN" \notin s.flags
           /\ "SYN" \in s.flags => TcpLength(s) = 1
           /\ s.seq \in Nat
<1>1. s \in Segment /\ SegmentFits(Other(e), s) /\ s.seq \in Nat
  BY ComesIs
<1>2. s.flags \in {{"SYN"}, {"SYN", "ACK"}, {"ACK"}, {"FIN", "ACK"}}
  BY <1>1 DEF SegmentFits
<1>3. /\ s.flags = {"SYN"} <=> (Other(e) = "client" /\ "SYN" \in s.flags)
      /\ s.flags # {"ACK"} => s.len = 0
  BY <1>1 DEF SegmentFits
<1>4. e = "client" => "ACK" \in s.flags
  BY <1>2, <1>3 DEF Other
<1>5. e = "server" /\ "ACK" \in s.flags => "SYN" \notin s.flags
  BY <1>2, <1>3 DEF Other
<1>6. "SYN" \in s.flags => s.len = 0 /\ TcpLength(s) = 1
  BY <1>3, LengthIs
<1>8. "SYN" \notin s.flags => "ACK" \in s.flags
  BY <1>2
<1>9. QED
  BY <1>1, <1>3, <1>4, <1>5, <1>6, <1>8

LEMMA NoPcbInput ==
    ASSUME StatesInv, NEW e \in End, NEW s, NEW rest, Comes(e, s, rest), no_pcb_input(e, s, rest)
    PROVE  Moves(e)
<1>1. s.seq \in Nat /\ s.ack \in Nat /\ TcpLength(s) \in Nat /\ rest \subseteq net[e]
  BY ComesIs
<1>2. PICK segs : Becomes(e, NoPcb, rest, segs) /\ Resets(segs)
  <2> DEFINE a == IF e = "client" THEN s.ack ELSE s.ack + 1
             b == s.seq + TcpLength(s)
  <2>1. a \in Nat /\ b \in Nat
    BY <1>1
  <2>2. Becomes(e, NoPcb, rest, {}) \/ Becomes(e, NoPcb, rest, Rst(a, b))
    BY DEF no_pcb_input
  <2> HIDE DEF a, b
  <2>3. Resets({}) /\ Resets(Rst(a, b))
    BY <2>1, RstIs, NoneSent
  <2>4. QED
    BY <2>2, <2>3
<1>3. /\ hist[e] \in Marks /\ (hist[e].cut => hist[e].queued)
      /\ pcb[e].state = "CLOSED" /\ HandleOf("CLOSED") = "none"
  BY EndIs DEF MarksFit, no_pcb_input, HandleOf
<1>4. /\ handle' = [handle EXCEPT ![e] = "none"] /\ hist' = [hist EXCEPT ![e] = hist[e]]
      /\ SameNumber
  BY <1>3, Idle, SameNumberIs DEF no_pcb_input
<1>5. QED
  BY <1>1, <1>2, <1>3, <1>4, FreedMoves

LEMMA ListenInput ==
    ASSUME StatesInv, NEW e \in End, NEW s, NEW rest, Comes(e, s, rest),
           tcp_listen_input(e, s, rest)
    PROVE  Moves(e)
<1> DEFINE n == iss'[e]
           st == "SYN_RCVD"
           rc == s.seq + 1
           p == Opened(st, rc, n)
           q == Output(p)
<1>1. handle = [handle EXCEPT ![e] = HandleOf(pcb[e].state)]
  BY EndIs
<1>2. /\ n \in Nat /\ first' = [first EXCEPT ![e] = n] /\ iss' \in [End -> Nat]
      /\ (spaced' => spaced) /\ (spaced' => n >= first[e] + Span)
  BY NextIssIs DEF tcp_listen_input
<1>3. Becomes(e, q, rest, OutSegs(p, FALSE))
  BY <1>2 DEF tcp_listen_input, Sends
<1>4. s.flags = {"SYN"} /\ Plain(s) /\ e = "server" /\ pcb[e].state = "CLOSED"
  BY DEF tcp_listen_input, Plain
<1>5. Opens(e, st, rc) /\ rc \in Nat
  <2>1. s.seq \in Nat
    BY <1>4, ComesAs
  <2>2. QED
    BY <1>4, <2>1 DEF Opens
<1>6. Begins(p, q, st, rc, n)
  BY DEF Begins
<1>7. \E g \in net[e] : Plain(g) /\ "SYN" \in g.flags /\ rc = g.seq + 1 /\ "ACK" \notin g.flags
  BY <1>4 DEF Comes
<1>8. /\ handle' = [handle EXCEPT ![e] = HandleOf(st)]
      /\ hist' = [hist EXCEPT ![e] = Unmarked] /\ rest \subseteq net[e]
  <2>1. HandleOf(st) = HandleOf(pcb[e].state)
    BY <1>4 DEF HandleOf
  <2>2. QED
    BY <1>1, <2>1 DEF tcp_listen_input, Comes
<1>9. st \in Opening
  BY DEF Opening
<1> HIDE DEF n, st, rc, p, q
<1>10. /\ BlockFits(e, q, n) /\ Begun(q, st, rc) /\ MarksFit(q, Unmarked)
       /\ AllSendable(e, q, n, OutSegs(p, FALSE))
  BY <1>1, <1>2, <1>5, <1>6, OpenedSends
<1>11. q.state = st /\ q.rcv = rc
  BY <1>10 DEF Begun
<1>12. Step(e, q, rest, OutSegs(p, FALSE), Unmarked, n)
  BY <1>2, <1>3, <1>4, <1>7, <1>8, <1>9, <1>10, <1>11 DEF Step
<1>13. QED
  BY <1>12, Zenon DEF Moves

LEMMA TimeWaitInput ==
    ASSUME StatesInv, NEW e \in End, NEW s, NEW rest, Comes(e, s, rest),
           tcp_timewait_input(e, s, rest)
    PROVE  Moves(e)
<1> DEFINE p == pcb[e]
           n == first[e]
           due == TcpLength(s) > 0
           b == s.seq + TcpLength(s)
<1>1. /\ BlockFits(e, p, n) /\ MarksFit(p, hist[e]) /\ n \in Nat
      /\ p.nxt \in Nat /\ p.nxt <= p.nxt /\ p.state = "TIME_WAIT"
  BY EndIs DEF BlockFits, Block, tcp_timewait_input
<1>2. s.ack \in Nat /\ b \in Nat /\ rest \subseteq net[e]
  BY ComesIs
<1>3. \/ Becomes(e, p, rest, {}) \/ Becomes(e, p, rest, Rst(s.ack, b))
      \/ Becomes(e, p, rest, AckOf(p, due))
  BY DEF tcp_timewait_input
<1>4. /\ AllSendable(e, p, n, {})
      /\ AllSendable(e, p, n, Rst(s.ack, b))
      /\ AllSendable(e, p, n, AckOf(p, due))
  <2> HIDE DEF b, due
  <2>1. AllSendable(e, p, n, AckOf(p, due))
    BY <1>1, AckSendable DEF AllSendable
  <2>2. QED
    BY <1>2, <2>1, NoneSent, RstIs, ResetsSendable
<1>5. GoesOn(p, p, n, net[e])
  BY <1>1, GoesOnSame
<1>6. Turns(e, p, rest, hist[e])
  BY <1>1, <1>2, <1>5, Idle, SameNumberIs DEF Turns, tcp_timewait_input
<1> HIDE DEF b, due
<1>7. QED
  BY <1>1, <1>3, <1>4, <1>6, BecomesMoves

(* A SYN or a reset that the connection refuses: the sent callback may     *)
(* count what it had counted.                                              *)
LEMMA StrayFits ==
    ASSUME StatesInv, NEW e \in End
    PROVE  MarksFit(pcb[e], [Told(e, pcb[e].acked) EXCEPT !.stray = TRUE])
<1> DEFINE a == pcb[e].acked
           t == hist[e].told + a
           h == hist[e]
<1>1. MarksFit(pcb[e], h) /\ h \in Marks /\ a \in Nat
  BY EndIs DEF MarksFit, BlockFits, Block
<1>2. t \in Int
  BY <1>1 DEF Marks
<1>3. handle[e] = "open" => pcb[e].state \notin Opening
  BY Kinds DEF Opening, Open
<1>4. CASE handle[e] = "open"
  <2> DEFINE k == [h EXCEPT !.told = t]
             j == [k EXCEPT !.stray = TRUE]
  <2>1. Told(e, a) = k
    BY <1>4 DEF Told
  <2> HIDE DEF t, h, a
  <2>2. j \in Marks /\ j.stray /\ j.queued = h.queued /\ j.cut = h.cut
    BY <1>1, <1>2 DEF Marks
  <2> HIDE DEF j
  <2>3. MarksFit(pcb[e], j)
    BY <1>1, <1>3, <1>4, <2>2 DEF MarksFit
  <2>4. QED
    BY <2>1, <2>3 DEF j, a
<1>5. CASE handle[e] # "open"
  <2> DEFINE j == [h EXCEPT !.stray = TRUE]
  <2>1. Told(e, a) = h
    BY <1>5 DEF Told
  <2> HIDE DEF h, a
  <2>2. j \in Marks /\ j.stray /\ j.queued = h.queued /\ j.cut = h.cut /\ j.told = h.told
    BY <1>1, <1>2 DEF Marks
  <2> HIDE DEF j
  <2>3. MarksFit(pcb[e], j)
    BY <1>1, <2>2 DEF MarksFit
  <2>4. QED
    BY <2>1, <2>3 DEF j, a
<1>6. QED
  BY <1>4, <1>5

LEMMA ResetInput ==
    ASSUME StatesInv, NEW e \in End, NEW s, NEW rest, Comes(e, s, rest), reset_input(e, s, rest)
    PROVE  Moves(e)
<1> DEFINE p == pcb[e]
           n == first[e]
           k == [Told(e, p.acked) EXCEPT !.stray = TRUE]
<1>1. /\ BlockFits(e, p, n) /\ MarksFit(p, hist[e]) /\ p.state \in Active /\ p.state # "CLOSED"
  BY EndIs DEF reset_input, Active, Synchronized
<1>2. rest \subseteq net[e] /\ SameNumber
  BY SameNumberIs DEF Comes, reset_input
<1>3. CASE Freed(e, rest, {}) /\ UNCHANGED hist
  <2>1. hist' = [hist EXCEPT ![e] = hist[e]] /\ hist[e] \in Marks /\ (hist[e].cut => hist[e].queued)
    BY <1>1, <1>3, Idle DEF MarksFit
  <2>2. QED
    BY <1>2, <1>3, <2>1, NoneSent, FreedMoves DEF Freed
<1>4. CASE /\ Sends(e, p, rest, FALSE) /\ UNCHANGED handle
           /\ hist' = [hist EXCEPT ![e] = k]
  <2>1. MarksFit(p, k)
    BY StrayFits
  <2> HIDE DEF k
  <2>2. GoesOn(p, p, n, net[e])
    BY <1>1, GoesOnSame
  <2>3. Turns(e, p, rest, k)
    BY <1>1, <1>2, <1>4, <2>2, Idle DEF Turns
  <2>4. QED
    BY <1>1, <1>4, <2>1, <2>3, SendsMoves
<1>5. QED
  BY <1>3, <1>4 DEF reset_input

LEMMA SynInput ==
    ASSUME StatesInv, NEW e \in End, NEW s, NEW rest, Comes(e, s, rest), syn_input(e, s, rest)
    PROVE  Moves(e)
<1> DEFINE p == pcb[e]
           n == first[e]
           k == [Told(e, p.acked) EXCEPT !.stray = TRUE]
           due == TRUE
<1>1. /\ BlockFits(e, p, n) /\ p.state \in Active /\ p.state # "CLOSED" /\ p.state \in Synchronized
  BY EndIs DEF syn_input, Active, Synchronized
<1>2. /\ rest \subseteq net[e] /\ SameNumber /\ UNCHANGED handle /\ Sends(e, p, rest, due)
      /\ hist' = [hist EXCEPT ![e] = k]
  BY SameNumberIs DEF Comes, syn_input
<1>3. MarksFit(p, k)
  BY StrayFits
<1> HIDE DEF k, due
<1>4. GoesOn(p, p, n, net[e])
  BY <1>1, GoesOnSame
<1>5. Turns(e, p, rest, k)
  BY <1>1, <1>2, <1>4, Idle DEF Turns
<1>6. QED
  BY <1>1, <1>2, <1>3, <1>5, SendsMoves

LEMMA SynSentInput ==
    ASSUME StatesInv, NEW e \in End, NEW s, NEW rest, Comes(e, s, rest), syn_sent_input(e, s, rest)
    PROVE  Moves(e)
<1> DEFINE p == pcb[e]
           n == first[e]
           due == TRUE
<1>1. /\ BlockFits(e, p, n) /\ MarksFit(p, hist[e]) /\ p.state = "SYN_SENT" /\ p \in Block
      /\ p.state # "CLOSED" /\ n \in Nat
  BY EndIs DEF syn_sent_input, BlockFits
<1>2. rest \subseteq net[e] /\ SameNumber /\ hist' = [hist EXCEPT ![e] = hist[e]] /\ s \in net[e]
  BY Idle, SameNumberIs DEF Comes, syn_sent_input
<1>3. Plain(s) /\ e = "client" /\ s.seq \in Nat /\ s.ack \in Nat /\ TcpLength(s) \in Nat
  BY <1>1, ComesIs DEF syn_sent_input, Plain, BlockFits
<1>4. CASE /\ "SYN" \in s.flags /\ s.ack = p.syn + 1
           /\ Sends(e, [p EXCEPT !.state = "ESTABLISHED", !.rcv = s.seq + 1, !.una = s.ack,
                                 !.head = s.ack], rest, due)
           /\ handle' = [handle EXCEPT ![e] = "open"]
  <2> DEFINE rc == s.seq + 1
             a == s.ack
             q == [p EXCEPT !.state = "ESTABLISHED", !.rcv = rc, !.una = a, !.head = a]
  <2>1. /\ p.syn = n /\ a = n + 1 /\ p.nxt = n + 1 /\ p.lbb = n + 1 /\ p.fin = -1 /\ p.unread = 0
        /\ a \in Nat /\ rc \in Nat
    BY <1>1, <1>3, <1>4 DEF BlockFits, Opening, Active, Synchronized
  <2>2. {"SYN", "ACK"} \subseteq s.flags
    BY <1>3, <1>4, ComesAs
  <2>3. Sends(e, q, rest, due)
    BY <1>4
  <2>4. \E g \in net[e] : /\ Plain(g) /\ {"SYN", "ACK"} \subseteq g.flags
                          /\ g.ack = n + 1 /\ rc = g.seq + 1 /\ a = n + 1
    BY <1>2, <1>3, <2>1, <2>2
  <2> HIDE DEF rc, a
  <2>5. q \in Block
    <3>1. "ESTABLISHED" \in Active \cup {"CLOSED", "TIME_WAIT"}
      BY DEF Active, Synchronized
    <3>2. p \in Block /\ rc \in Nat /\ a \in Nat
      BY <1>1, <2>1
    <3> HIDE DEF p
    <3>3. QED
      BY <3>1, <3>2, Zenon DEF Block
  <2>6. /\ q.state = "ESTABLISHED" /\ q.rcv = rc /\ q.una = a /\ q.head = a /\ q.nxt = p.nxt
        /\ q.lbb = p.lbb /\ q.syn = p.syn /\ q.fin = p.fin /\ q.unread = p.unread
    BY <1>1 DEF Block
  <2> HIDE DEF q
  <2>7. q.state \in Active /\ q.state \in Synchronized /\ q.state \in Open /\ HandleOf(q.state) = "open"
        /\ q.state \notin Opening /\ q.state \notin Closing
    BY <2>6 DEF Active, Synchronized, Open, Opening, Closing, HandleOf
  <2>8. BlockFits(e, q, n)
    <3>1. q.una <= q.head /\ q.head <= q.nxt /\ q.nxt <= q.lbb /\ n < q.una /\ q.lbb <= n + MaxData + 1
          /\ q.syn = n
      BY <1>1, <2>1, <2>6, StatesConstants
    <3>2. q.unread <= RcvWnd /\ q.fin = -1
      BY <2>1, <2>6, StatesConstants
    <3>3. QED
      BY <2>5, <2>6, <2>7, <3>1, <3>2 DEF BlockFits
  <2>9. MarksFit(q, hist[e])
    <3>1. hist[e] \in Marks /\ hist[e].told = 0 /\ ~hist[e].cut
      BY <1>1 DEF MarksFit, Opening, Active
    <3>2. q.una - q.syn - 1 = 0
      BY <1>1, <2>1, <2>6
    <3>3. QED
      BY <2>6, <2>7, <3>1, <3>2 DEF MarksFit
  <2>10. GoesOn(p, q, n, net[e])
    <3>1. Answered(p, q, n, net[e])
      BY <1>1, <2>4, <2>6, <2>7 DEF Answered
    <3>2. QED
      BY <1>1, <2>1, <2>6, <3>1 DEF GoesOn
  <2>11. Turns(e, q, rest, hist[e])
    BY <1>2, <1>4, <2>7, <2>8, <2>10 DEF Turns
  <2> HIDE DEF due
  <2>12. QED
    BY <2>3, <2>7, <2>9, <2>11, SendsMoves
<1>5. CASE /\ Becomes(e, p, rest, Rst(s.ack, s.seq + TcpLength(s)))
           /\ UNCHANGED handle
  <2>1. AllSendable(e, p, n, Rst(s.ack, s.seq + TcpLength(s)))
    <3> DEFINE b == s.seq + TcpLength(s)
    <3>1. b \in Nat /\ s.ack \in Nat
      BY <1>3
    <3> HIDE DEF b
    <3>2. AllSendable(e, p, n, Rst(s.ack, b))
      BY <3>1, RstIs, ResetsSendable
    <3>3. QED
      BY <3>2 DEF b
  <2>2. GoesOn(p, p, n, net[e])
    BY <1>1, GoesOnSame
  <2>3. Turns(e, p, rest, hist[e])
    BY <1>1, <1>2, <1>5, <2>2, Idle DEF Turns
  <2>4. QED
    BY <1>1, <1>5, <2>1, <2>3, BecomesMoves
<1>6. QED
  BY <1>4, <1>5 DEF syn_sent_input

----------------------------------------------------------------------------
(* The block p after the acknowledgement in s.                             *)
SettledFits(p, s, q) ==
    /\ q \in Block
    /\ q.state = p.state /\ q.rcv = p.rcv /\ q.nxt = p.nxt /\ q.lbb = p.lbb /\ q.syn = p.syn
    /\ q.fin = p.fin /\ q.rxclosed = p.rxclosed /\ q.unread = p.unread
    /\ IsNewAck(p, s) => q.una = s.ack /\ q.head = (IF p.head > s.ack THEN p.head ELSE s.ack)
    /\ ~IsNewAck(p, s) => q.una = p.una /\ q.head = p.head /\ q.acked = 0
    /\ IsNewAck(p, s) /\ p.fin = -1 /\ p.syn < p.una => q.acked = s.ack - p.una

LEMMA UnitsAcked ==
    ASSUME NEW p \in Block, NEW a \in Nat, p.una < a
    PROVE  /\ Cardinality({i \in p.una .. (a - 1) : IsUnit(p, i)}) \in Nat
           /\ p.fin = -1 /\ p.syn < p.una =>
                Cardinality({i \in p.una .. (a - 1) : IsUnit(p, i)}) = a - p.una
<1> DEFINE S == {i \in p.una .. (a - 1) : IsUnit(p, i)}
<1>1. p.una \in Nat /\ p.syn \in Nat /\ p.una \in Int /\ a - 1 \in Int
  BY DEF Block
<1>2. IsFiniteSet(p.una .. (a - 1)) /\ Cardinality(p.una .. (a - 1)) = a - p.una
  <2> DEFINE x == p.una
             y == a - 1
  <2>1. x \in Int /\ y \in Int /\ x <= y /\ y - x + 1 = a - p.una
    BY <1>1
  <2> HIDE DEF x, y
  <2>2. IsFiniteSet(x .. y) /\ Cardinality(x .. y) = y - x + 1
    BY <2>1, FS_Interval
  <2>3. QED
    BY <2>1, <2>2 DEF x, y
<1>3. S \subseteq p.una .. (a - 1)
  OBVIOUS
<1>4. Cardinality(S) \in Nat
  BY <1>2, <1>3, FS_Subset, FS_CardinalityType
<1>5. ASSUME p.fin = -1, p.syn < p.una PROVE S = p.una .. (a - 1)
  BY <1>1, <1>5 DEF IsUnit
<1>6. p.fin = -1 /\ p.syn < p.una => Cardinality(S) = a - p.una
  BY <1>2, <1>5, Zenon
<1>7. QED
  BY <1>4, <1>6

LEMMA SettledIs ==
    ASSUME NEW p \in Block, NEW s \in Segment
    PROVE  SettledFits(p, s, Settled(p, s))
<1>1. p.una \in Nat /\ p.nxt \in Nat /\ p.head \in Nat /\ s.ack \in Nat /\ 0 \in 0 .. MaxRtx + 1
  BY StatesConstants DEF Block, Segment
<1>2. CASE IsNewAck(p, s)
  <2> DEFINE c == Cardinality({i \in p.una .. (s.ack - 1) : IsUnit(p, i)})
             a == s.ack
             hd == IF p.head > a THEN p.head ELSE a
             z == 0
             q == [p EXCEPT !.una = a, !.head = hd, !.nrtx = z, !.acked = c]
  <2>1. p.una < s.ack
    BY <1>1, <1>2 DEF IsNewAck
  <2>2. c \in Nat /\ (p.fin = -1 /\ p.syn < p.una => c = s.ack - p.una)
    BY <1>1, <2>1, UnitsAcked
  <2>3. Settled(p, s) = q
    BY <1>2, Zenon DEF Settled, Larger
  <2>4. a \in Nat /\ hd \in Nat /\ z \in 0 .. MaxRtx + 1
    BY <1>1
  <2> HIDE DEF c, hd, a, z
  <2>5. q \in Block
    BY <2>2, <2>4, Zenon DEF Block
  <2>6. /\ q.state = p.state /\ q.rcv = p.rcv /\ q.nxt = p.nxt /\ q.lbb = p.lbb /\ q.syn = p.syn
        /\ q.fin = p.fin /\ q.rxclosed = p.rxclosed /\ q.unread = p.unread
        /\ q.una = a /\ q.head = hd /\ q.acked = c
    BY DEF Block
  <2> HIDE DEF q
  <2>7. SettledFits(p, s, q)
    BY <1>2, <2>2, <2>5, <2>6 DEF SettledFits, a, hd
  <2>8. QED
    BY <2>3, <2>7
<1>3. CASE ~IsNewAck(p, s)
  <2> DEFINE q == [p EXCEPT !.acked = 0]
  <2>1. Settled(p, s) = q
    BY <1>3, Zenon DEF Settled
  <2>2. /\ q.state = p.state /\ q.rcv = p.rcv /\ q.nxt = p.nxt /\ q.lbb = p.lbb /\ q.syn = p.syn
        /\ q.fin = p.fin /\ q.rxclosed = p.rxclosed /\ q.unread = p.unread /\ q \in Block
        /\ q.una = p.una /\ q.head = p.head /\ q.acked = 0
    BY DEF Block
  <2> HIDE DEF q
  <2>3. SettledFits(p, s, q)
    BY <1>3, <2>2 DEF SettledFits
  <2>4. QED
    BY <2>1, <2>3
<1>4. QED
  BY <1>2, <1>3

(* The block q is p after s was received, but for the state.               *)
Received(p, s, q) ==
    /\ q \in Block
    /\ q.state = p.state /\ q.nxt = p.nxt /\ q.lbb = p.lbb /\ q.syn = p.syn
    /\ q.fin = p.fin
    /\ q.rcv = (IF InSequence(p, s) THEN p.rcv + 1 ELSE p.rcv)
    /\ q.unread = (IF GotUnit(p, s) THEN p.unread + 1 ELSE p.unread)
    /\ IsNewAck(p, s) => q.una = s.ack /\ q.head = (IF p.head > s.ack THEN p.head ELSE s.ack)
    /\ ~IsNewAck(p, s) => q.una = p.una /\ q.head = p.head /\ q.acked = 0
    /\ IsNewAck(p, s) /\ p.fin = -1 /\ p.syn < p.una => q.acked = s.ack - p.una

LEMMA ReceivedIs ==
    ASSUME NEW p \in Block, NEW s \in Segment
    PROVE  Received(p, s, tcp_receive(p, s))
<1> DEFINE x == Settled(p, s)
           rc == IF InSequence(p, s) THEN p.rcv + 1 ELSE p.rcv
           u == IF GotUnit(p, s) THEN p.unread + 1 ELSE p.unread
           q == [x EXCEPT !.rcv = rc, !.unread = u]
<1>1. SettledFits(p, s, x)
  BY SettledIs
<1>2. rc \in Nat /\ u \in Nat
  BY DEF Block
<1>3. x.rcv = p.rcv /\ x.unread = p.unread /\ x \in Block
  BY <1>1 DEF SettledFits
<1>4. tcp_receive(p, s) = q
  <2>1. rc = (IF InSequence(p, s) THEN x.rcv + 1 ELSE x.rcv)
    BY <1>3
  <2>2. u = (IF GotUnit(p, s) THEN x.unread + 1 ELSE x.unread)
    BY <1>3
  <2> HIDE DEF rc, u
  <2>3. q = [x EXCEPT !.rcv = IF InSequence(p, s) THEN x.rcv + 1 ELSE x.rcv,
                      !.unread = IF GotUnit(p, s) THEN x.unread + 1 ELSE x.unread]
    BY <2>1, <2>2, Zenon
  <2>4. QED
    BY <2>3, Zenon DEF tcp_receive
<1> HIDE DEF x
<1>5. q \in Block
  <2> HIDE DEF rc, u
  <2>1. QED
    BY <1>2, <1>3, Zenon DEF Block
<1>6. /\ q.state = x.state /\ q.nxt = x.nxt /\ q.lbb = x.lbb /\ q.syn = x.syn
      /\ q.fin = x.fin /\ q.una = x.una /\ q.head = x.head /\ q.acked = x.acked
      /\ q.rcv = rc /\ q.unread = u
  <2> HIDE DEF rc, u
  <2>1. QED
    BY <1>3 DEF Block
<1> HIDE DEF q
<1>7. Received(p, s, q)
  BY <1>1, <1>5, <1>6 DEF Received, SettledFits
<1>8. QED
  BY <1>4, <1>7

LEMMA ProcessIs ==
    ASSUME NEW p, NEW s, p.state \in Open \cup Closing
    PROVE  /\ p.state \in Open => tcp_process(p, s) \in Open
           /\ p.state \in Closing => tcp_process(p, s) \in Closing \cup {"TIME_WAIT", "CLOSED"}
           /\ p.state \in Closing /\ tcp_process(p, s) \in {"FIN_WAIT_2", "TIME_WAIT", "CLOSED"} =>
                p.state = "FIN_WAIT_2" \/ AllAcked(p, s)
           /\ tcp_process(p, s) \in Active \cup {"CLOSED", "TIME_WAIT"}
<1>1. CASE p.state \in {"ESTABLISHED", "CLOSE_WAIT"}
  BY <1>1 DEF tcp_process, Open, Closing, Active, Synchronized
<1>2. CASE p.state = "FIN_WAIT_1"
  BY <1>2 DEF tcp_process, Open, Closing, Active, Synchronized
<1>3. CASE p.state = "FIN_WAIT_2"
  BY <1>3 DEF tcp_process, Open, Closing, Active, Synchronized
<1>4. CASE p.state = "CLOSING"
  BY <1>4 DEF tcp_process, Open, Closing, Active, Synchronized
<1>5. CASE p.state = "LAST_ACK"
  BY <1>5 DEF tcp_process, Open, Closing, Active, Synchronized
<1>6. QED
  BY <1>1, <1>2, <1>3, <1>4, <1>5 DEF Open, Closing

----------------------------------------------------------------------------
(* The segment s arrives for a connection, p: one that is there, or one    *)
(* that the segment completes; h is what its application has then.         *)
Arrives(e, p, s, rest, h) ==
    /\ Comes(e, s, rest) /\ Plain(s) /\ "SYN" \notin s.flags /\ SameNumber
    /\ \/ p = pcb[e] /\ p.state \in Synchronized /\ h = handle[e]
       \/ /\ pcb[e].state = "SYN_RCVD" /\ p = [pcb[e] EXCEPT !.state = "ESTABLISHED"]
          /\ h = "open" /\ IsNewAck(pcb[e], s)

LEMMA ArrivesIs ==
    ASSUME StatesInv, NEW e \in End, NEW p, NEW s, NEW rest, NEW h, Arrives(e, p, s, rest, h)
    PROVE  /\ p \in Block /\ p.state \in Open \cup Closing
           /\ p.rcv = pcb[e].rcv /\ p.una = pcb[e].una /\ p.nxt = pcb[e].nxt
           /\ p.syn = first[e] /\ p.una <= p.head /\ p.head <= p.nxt /\ p.nxt <= p.lbb
           /\ p.unread <= RcvWnd
           /\ p.state \in Open => p.fin = -1 /\ p.lbb <= first[e] + MaxData + 1
           /\ p.state \in Closing => p.fin = p.lbb - 1 /\ p.lbb <= first[e] + MaxData + 2
           /\ first[e] < p.una \/ (IsNewAck(p, s) /\ p.una = first[e] /\ p.nxt = first[e] + 1)
           /\ pcb[e].state \in Synchronized => first[e] < p.una
           /\ pcb[e].state \in Synchronized \cup {"SYN_RCVD"}
           /\ pcb[e].state = "SYN_RCVD" => p.state \in Open /\ IsNewAck(p, s)
           /\ pcb[e].state # "SYN_RCVD" => p.state = pcb[e].state
           /\ h = IF p.state \in Open THEN "open" ELSE "closed"
<1> DEFINE P == pcb[e]
           n == first[e]
<1>1. /\ BlockFits(e, P, n) /\ P \in Block /\ n \in Nat /\ handle[e] = HandleOf(P.state)
  BY EndIs DEF BlockFits
<1>2. CASE p = P /\ p.state \in Synchronized /\ h = handle[e]
  <2>1. p.state \in Open \cup Closing /\ p.state \in Active /\ p.state # "SYN_RCVD"
        /\ (p.state \in Open => p.state \notin Closing)
    BY <1>2 DEF Synchronized, Open, Closing, Active
  <2>2. h = IF p.state \in Open THEN "open" ELSE "closed"
    BY <1>1, <1>2, <2>1 DEF HandleOf, Open, Closing
  <2>3. n < p.una
    BY <1>1, <1>2, <2>1 DEF BlockFits
  <2>4. QED
    BY <1>1, <1>2, <2>1, <2>2, <2>3 DEF BlockFits
<1>3. CASE /\ P.state = "SYN_RCVD" /\ p = [P EXCEPT !.state = "ESTABLISHED"]
           /\ h = "open" /\ IsNewAck(P, s)
  <2>1. "ESTABLISHED" \in Active \cup {"CLOSED", "TIME_WAIT"}
    BY DEF Active, Synchronized
  <2>2. /\ p.state = "ESTABLISHED" /\ p.rcv = P.rcv /\ p.una = P.una /\ p.head = P.head
        /\ p.nxt = P.nxt /\ p.lbb = P.lbb /\ p.syn = P.syn /\ p.fin = P.fin /\ p.unread = P.unread
        /\ p \in Block
    BY <1>1, <1>3, <2>1 DEF Block
  <2>3. p.state \in Open /\ p.state \notin Closing /\ P.state \notin Synchronized
    BY <1>3, <2>2 DEF Open, Closing, Synchronized
  <2>4. P.state \in Opening /\ P.state \in Active
    BY <1>3 DEF Opening, Active
  <2>5. /\ P.una = n /\ P.nxt = n + 1 /\ P.lbb = n + 1 /\ P.fin = -1 /\ P.unread = 0
        /\ P.syn = n /\ P.una <= P.head /\ P.head <= P.nxt /\ P.nxt <= P.lbb
    BY <1>1, <1>3, <2>4 DEF BlockFits
  <2>6. IsNewAck(p, s)
    BY <1>3, <2>2 DEF IsNewAck
  <2>7. n + 1 <= n + MaxData + 1 /\ 0 <= RcvWnd
    BY <1>1, StatesConstants
  <2>8. QED
    BY <1>3, <2>2, <2>3, <2>5, <2>6, <2>7
<1>4. QED
  BY <1>2, <1>3 DEF Arrives

(* What a connection has received, and that it has room for it.            *)
LEMMA ReceivedCounts ==
    ASSUME StatesInv, NEW e \in End, NEW p, NEW s, NEW rest, NEW h, Arrives(e, p, s, rest, h),
           NEW q, Received(p, s, q)
    PROVE  /\ q.unread <= RcvWnd
           /\ q.rcv = p.rcv \/ (s.seq = p.rcv /\ TcpLength(s) = 1 /\ q.rcv = p.rcv + 1)
<1>1. Comes(e, s, rest) /\ Plain(s) /\ "SYN" \notin s.flags
  BY DEF Arrives
<1>2. s \in Segment /\ SegmentFits(Other(e), s)
  BY <1>1, ComesIs
<1>3. p \in Block /\ p.unread \in Nat /\ p.unread <= RcvWnd
  BY ArrivesIs DEF Block
<1>4. CASE ~InSequence(p, s)
  <2>1. q.rcv = p.rcv /\ q.unread = p.unread
    BY <1>4 DEF Received, GotUnit
  <2>2. QED
    BY <1>3, <2>1
<1>5. CASE InSequence(p, s)
  <2>1. /\ s.seq = p.rcv /\ q.rcv = p.rcv + 1 /\ TcpLength(s) > 0 /\ p.unread < RcvWnd
        /\ q.unread = (IF s.len = 1 THEN p.unread + 1 ELSE p.unread)
    BY <1>5 DEF Received, GotUnit, InSequence
  <2>2. TcpLength(s) = s.len + (IF "FIN" \in s.flags THEN 1 ELSE 0) /\ s.len \in {0, 1}
    BY <1>1, <1>2, LengthIs DEF Segment
  <2>3. s.flags # {"ACK"} => s.len = 0
    BY <1>2 DEF SegmentFits
  <2>4. TcpLength(s) = 1
    BY <2>1, <2>2, <2>3
  <2>5. QED
    BY <1>3, <2>1, <2>4, StatesConstants
<1>6. QED
  BY <1>4, <1>5

(* What is acknowledged.                                                   *)
LEMMA ReceivedAcks ==
    ASSUME StatesInv, NEW e \in End, NEW p, NEW s, NEW rest, NEW h, Arrives(e, p, s, rest, h),
           NEW q, Received(p, s, q)
    PROVE  /\ first[e] < q.una /\ q.una <= q.head /\ q.head <= q.nxt /\ q.nxt <= q.lbb
           /\ q.una \in Nat /\ q.nxt \in Nat /\ q.lbb \in Nat /\ p.una <= q.una
           /\ AllAcked(p, s) => q.una = q.nxt
           /\ \/ ~IsNewAck(p, s) /\ q.una = p.una
              \/ IsNewAck(p, s) /\ "ACK" \in s.flags /\ q.una = s.ack /\ p.una < s.ack /\ s.ack <= p.nxt
<1>1. Comes(e, s, rest) /\ Plain(s) /\ "SYN" \notin s.flags
  BY DEF Arrives
<1>2. s.ack \in Nat /\ "ACK" \in s.flags /\ first[e] \in Nat
  BY <1>1, ComesIs, ComesAs, EndIs
<1>3. /\ p \in Block /\ p.una \in Nat /\ p.head \in Nat /\ p.nxt \in Nat /\ p.lbb \in Nat
      /\ p.una <= p.head /\ p.head <= p.nxt /\ p.nxt <= p.lbb
      /\ first[e] < p.una \/ (IsNewAck(p, s) /\ p.una = first[e] /\ p.nxt = first[e] + 1)
  BY ArrivesIs DEF Block
<1>4. q.nxt = p.nxt /\ q.lbb = p.lbb
  BY DEF Received
<1>5. CASE IsNewAck(p, s)
  <2>1. /\ q.una = s.ack /\ q.head = (IF p.head > s.ack THEN p.head ELSE s.ack)
        /\ p.una < s.ack /\ s.ack <= p.nxt
    BY <1>2, <1>3, <1>5 DEF Received, IsNewAck
  <2>2. QED
    BY <1>2, <1>3, <1>4, <1>5, <2>1 DEF AllAcked
<1>6. CASE ~IsNewAck(p, s)
  <2>1. q.una = p.una /\ q.head = p.head
    BY <1>6 DEF Received
  <2>2. AllAcked(p, s) => p.una = p.nxt
    BY <1>2, <1>3, <1>6 DEF IsNewAck, AllAcked
  <2>3. QED
    BY <1>3, <1>4, <1>6, <2>1, <2>2
<1>7. QED
  BY <1>5, <1>6

(* The block r is q in the state x.                                        *)
Restated(q, r, x) ==
    /\ r \in Block /\ r.state = x
    /\ r.rcv = q.rcv /\ r.una = q.una /\ r.head = q.head /\ r.nxt = q.nxt /\ r.lbb = q.lbb
    /\ r.syn = q.syn /\ r.fin = q.fin /\ r.unread = q.unread /\ r.acked = q.acked

LEMMA FinishBlock ==
    ASSUME StatesInv, NEW e \in End, NEW p, NEW s, NEW rest, NEW h, Arrives(e, p, s, rest, h),
           NEW q, Received(p, s, q), NEW r, Restated(q, r, tcp_process(p, s))
    PROVE  /\ r.state \in Active => BlockFits(e, r, first[e])
           /\ r.state \in Synchronized \cup {"TIME_WAIT", "CLOSED"}
           /\ r.state \notin Active => p.state \in Closing
           /\ r.state # "CLOSED" => h = HandleOf(r.state)
           /\ r.state \in Synchronized => r.state \in Active
<1> DEFINE n == first[e]
           x == tcp_process(p, s)
<1>1. /\ p \in Block /\ p.state \in Open \cup Closing /\ p.syn = n
      /\ p.state \in Open => p.fin = -1 /\ p.lbb <= n + MaxData + 1
      /\ p.state \in Closing => p.fin = p.lbb - 1 /\ p.lbb <= n + MaxData + 2
      /\ h = IF p.state \in Open THEN "open" ELSE "closed"
  BY ArrivesIs
<1>2. /\ r \in Block /\ r.state = x /\ r.lbb = p.lbb /\ r.syn = n /\ r.fin = p.fin
      /\ n < r.una /\ r.una <= r.head /\ r.head <= r.nxt /\ r.nxt <= r.lbb
      /\ r.unread <= RcvWnd
  BY <1>1, ReceivedCounts, ReceivedAcks DEF Restated, Received
<1>3. /\ p.state \in Open => x \in Open
      /\ p.state \in Closing => x \in Closing \cup {"TIME_WAIT", "CLOSED"}
  BY <1>1, ProcessIs
<1> HIDE DEF x
<1>4. /\ x \in Open => x \notin Closing \cup Opening /\ x \in Synchronized /\ x \in Active
                       /\ x \notin {"TIME_WAIT", "CLOSED", "SYN_SENT", "SYN_RCVD"}
      /\ x \in Closing => x \notin Open \cup Opening /\ x \in Synchronized /\ x \in Active
                          /\ x \notin {"TIME_WAIT", "CLOSED", "SYN_SENT", "SYN_RCVD"}
      /\ x \in {"TIME_WAIT", "CLOSED"} => x \notin Active /\ x \notin Open
      /\ p.state \in Closing => p.state \notin Open
      /\ x \in Synchronized => x \in Active
  BY DEF Open, Closing, Opening, Synchronized, Active
<1>5. r.state \in Active => BlockFits(e, r, n)
  BY <1>1, <1>2, <1>3, <1>4 DEF BlockFits
<1>6. r.state # "CLOSED" => h = HandleOf(r.state)
  BY <1>1, <1>2, <1>3, <1>4 DEF HandleOf
<1>7. QED
  BY <1>1, <1>2, <1>3, <1>4, <1>5, <1>6

(* The marks after it: c is whether the connection ends with something     *)
(* that is not acknowledged.                                               *)
Ended(r) == r.state \in {"TIME_WAIT", "CLOSED"} /\ r.una < r.lbb
Marked(e, r) == [Told(e, r.acked) EXCEPT !.cut = @ \/ Ended(r)]

LEMMA MarkedIs ==
    ASSUME StatesInv, NEW e \in End, NEW r \in Block
    PROVE  /\ Marked(e, r) \in Marks
           /\ Marked(e, r).told = (IF handle[e] = "open" THEN hist[e].told + r.acked ELSE hist[e].told)
           /\ Marked(e, r).stray = hist[e].stray /\ Marked(e, r).queued = hist[e].queued
           /\ Marked(e, r).cut <=> hist[e].cut \/ Ended(r)
<1> DEFINE h == hist[e]
           a == IF handle[e] = "open" THEN hist[e].told + r.acked ELSE hist[e].told
           k == Told(e, r.acked)
           b == k.cut \/ Ended(r)
           t == [k EXCEPT !.cut = b]
<1>1. h \in Marks /\ r.acked \in Nat
  BY EndIs DEF MarksFit, Block
<1>2. a \in Int
  BY <1>1 DEF Marks
<1>3. /\ k \in Marks /\ k.told = a /\ k.stray = h.stray /\ k.queued = h.queued /\ k.cut = h.cut
  <2>1. CASE handle[e] = "open"
    <3>1. k = [h EXCEPT !.told = a]
      BY <2>1 DEF Told
    <3> HIDE DEF a, k
    <3>2. QED
      BY <1>1, <1>2, <3>1 DEF Marks
  <2>2. CASE handle[e] # "open"
    <3>1. k = h /\ a = h.told
      BY <2>2 DEF Told
    <3>2. QED
      BY <1>1, <3>1
  <2>3. QED
    BY <2>1, <2>2
<1>4. Marked(e, r) = t
  BY DEF Marked
<1>5. b \in BOOLEAN /\ (b <=> h.cut \/ Ended(r))
  BY <1>3
<1> HIDE DEF k, b, a, h
<1>6. t \in Marks /\ t.told = k.told /\ t.stray = k.stray /\ t.queued = k.queued /\ t.cut = b
  BY <1>3, <1>5 DEF Marks
<1> HIDE DEF t
<1>7. t \in Marks /\ t.told = a /\ t.stray = h.stray /\ t.queued = h.queued
  BY <1>3, <1>6
<1>8. t.cut <=> h.cut \/ Ended(r)
  BY <1>5, <1>6, Zenon
<1>9. QED
  BY <1>4, <1>7, <1>8 DEF h, a

LEMMA FinishMarks ==
    ASSUME StatesInv, NEW e \in End, NEW p, NEW s, NEW rest, NEW h, Arrives(e, p, s, rest, h),
           NEW q, Received(p, s, q), NEW r, Restated(q, r, tcp_process(p, s))
    PROVE  /\ Marked(e, r) \in Marks
           /\ Marked(e, r).cut => Marked(e, r).queued
           /\ r.state \in Active => MarksFit(r, Marked(e, r))
<1> DEFINE n == first[e]
           x == tcp_process(p, s)
           t == Marked(e, r)
           k == hist[e]
           P == pcb[e]
<1>1. /\ p \in Block /\ p.state \in Open \cup Closing /\ p.syn = n /\ n \in Nat
      /\ p.nxt = P.nxt /\ p.una = P.una
      /\ p.state \in Open => p.fin = -1
      /\ P.state \in Synchronized \cup {"SYN_RCVD"}
      /\ P.state \in Synchronized => n < p.una
      /\ P.state = "SYN_RCVD" => p.state \in Open /\ IsNewAck(p, s)
      /\ P.state # "SYN_RCVD" => p.state = P.state
      /\ n < p.una \/ (IsNewAck(p, s) /\ p.una = n /\ p.nxt = n + 1)
  BY ArrivesIs, EndIs
<1>2. /\ r \in Block /\ r.state = x /\ r.lbb = p.lbb /\ r.syn = p.syn /\ r.nxt = p.nxt
      /\ r.una = q.una /\ r.acked = q.acked
  BY DEF Restated, Received
<1>3. /\ n < q.una /\ q.una <= r.nxt /\ r.nxt <= r.lbb
      /\ r.una \in Nat /\ r.nxt \in Nat /\ r.lbb \in Nat /\ p.una \in Nat /\ p.una <= r.una
      /\ AllAcked(p, s) => r.una = r.nxt
  <2>1. p.una \in Nat
    BY <1>1 DEF Block
  <2>2. q.una <= q.head /\ q.head <= q.nxt /\ q.head \in Nat /\ r.nxt = q.nxt /\ r.lbb = q.lbb
    BY ReceivedAcks DEF Restated, Received, Block
  <2>3. QED
    BY <1>2, <2>1, <2>2, ReceivedAcks
<1>4. /\ MarksFit(P, k) /\ BlockFits(e, P, n) /\ k \in Marks
  BY EndIs DEF MarksFit
<1>5. /\ t \in Marks /\ t.told = (IF handle[e] = "open" THEN k.told + r.acked ELSE k.told)
      /\ t.stray = k.stray /\ t.queued = k.queued
      /\ t.cut <=> k.cut \/ Ended(r)
  BY <1>2, MarkedIs
<1>6. P.state \in Active /\ ~k.cut
  <2>1. P.state \in Active
    BY <1>1 DEF Active
  <2>2. QED
    BY <1>4, <2>1 DEF MarksFit
<1>7. /\ p.state \in Open => x \in Open
      /\ p.state \in Closing => x \in Closing \cup {"TIME_WAIT", "CLOSED"}
      /\ p.state \in Closing /\ x \in {"FIN_WAIT_2", "TIME_WAIT", "CLOSED"} =>
           p.state = "FIN_WAIT_2" \/ AllAcked(p, s)
  BY <1>1, ProcessIs
<1>8. p.state \in Closing /\ ~k.queued => r.nxt = r.lbb
  <2>1. p.state \in Closing => P.state = p.state
    BY <1>1 DEF Open, Closing
  <2>2. p.state \in Closing /\ ~k.queued => P.nxt = P.lbb
    BY <1>4, <2>1 DEF MarksFit
  <2>3. P.state # "SYN_RCVD" => p.lbb = P.lbb
    BY <1>1 DEF Arrives, Synchronized
  <2>4. QED
    BY <1>1, <1>2, <2>1, <2>2, <2>3 DEF Closing
<1>9. p.state \in Closing /\ ~k.queued /\ x \in {"FIN_WAIT_2", "TIME_WAIT", "CLOSED"}
        => r.una = r.lbb
  <2>1. p.state = "FIN_WAIT_2" => P.state = "FIN_WAIT_2"
    BY <1>1 DEF Open
  <2>2. p.state = "FIN_WAIT_2" /\ ~k.queued => P.una = P.lbb /\ P.nxt <= P.lbb
    BY <1>4, <1>6, <2>1 DEF MarksFit, BlockFits
  <2>3. P.state # "SYN_RCVD" => p.lbb = P.lbb
    BY <1>1 DEF Arrives, Synchronized
  <2>4. p.state = "FIN_WAIT_2" /\ ~k.queued => r.una = r.lbb
    BY <1>1, <1>2, <1>3, <2>1, <2>2, <2>3
  <2>5. QED
    BY <1>3, <1>7, <1>8, <2>4
<1>10. t.cut => t.queued
  <2>1. Ended(r) => p.state \in Closing /\ x \in {"TIME_WAIT", "CLOSED"} /\ r.una < r.lbb
    BY <1>1, <1>2, <1>7 DEF Ended, Open
  <2>2. Ended(r) => k.queued
    BY <1>3, <1>9, <2>1
  <2>3. QED
    BY <1>5, <1>6, <2>2
<1>11. ASSUME r.state \in Active PROVE MarksFit(r, t)
  <2>1. ~Ended(r)
    BY <1>11 DEF Ended, Active, Synchronized
  <2>2. ~t.cut
    BY <1>5, <1>6, <2>1
  <2>3. x \notin Opening
    BY <1>1, <1>7 DEF Opening, Open, Closing
  <2>4. x \in Closing => p.state \in Closing
    BY <1>1, <1>7 DEF Open, Closing
  <2>5. x \in Open => p.state \in Open
    BY <1>1, <1>7 DEF Open, Closing
  <2>6. x \in Open /\ ~k.stray => t.told = r.una - r.syn - 1
    <3>1. CASE P.state = "SYN_RCVD"
      <4>1. k.told = 0 /\ handle[e] # "open"
        BY <1>4, <3>1, Kinds DEF MarksFit, Opening, Open
      <4>2. IsNewAck(p, s) /\ p.una = n /\ p.nxt = n + 1
        <5>1. P.una = n /\ P.nxt = n + 1
          BY <1>4, <3>1 DEF BlockFits, Opening
        <5>2. QED
          BY <1>1, <3>1, <5>1
      <4>3. r.una = n + 1
        BY <1>1, <1>2, <1>3, <4>2
      <4>4. QED
        BY <1>1, <1>2, <1>5, <4>1, <4>3
    <3>2. CASE P.state # "SYN_RCVD" /\ x \in Open /\ ~k.stray
      <4>1. P.state \in Open /\ n < p.una /\ handle[e] = "open"
        BY <1>1, <2>5, <3>2, Kinds
      <4>2. k.told = P.una - P.syn - 1 /\ k.told \in Int
        BY <1>4, <3>2, <4>1 DEF MarksFit, Marks
      <4>3. P.syn = n /\ p.una = P.una
        BY <1>1, <1>4, <1>6 DEF BlockFits
      <4>4. r.acked = r.una - p.una
        <5>1. p.fin = -1 /\ p.syn < p.una
          BY <1>1, <2>5, <3>2, <4>1
        <5>2. (q.una = s.ack /\ q.acked = s.ack - p.una) \/ (q.una = p.una /\ q.acked = 0)
          BY <5>1 DEF Received
        <5>3. QED
          BY <1>2, <1>3, <5>2
      <4>5. t.told = k.told + r.acked
        BY <1>5, <4>1
      <4>6. QED
        BY <1>1, <1>2, <1>3, <4>2, <4>3, <4>4, <4>5
    <3>3. QED
      BY <3>1, <3>2
  <2>7. x \in Closing /\ ~t.queued => r.nxt = r.lbb
    BY <1>5, <1>8, <2>4
  <2>8. x = "FIN_WAIT_2" /\ ~t.queued => r.una = r.lbb
    BY <1>5, <1>9, <2>4 DEF Closing
  <2> HIDE DEF t, x
  <2>9. QED
    BY <1>2, <1>5, <2>2, <2>3, <2>6, <2>7, <2>8 DEF MarksFit
<1>12. QED
  BY <1>5, <1>10, <1>11

LEMMA FinishGoesOn ==
    ASSUME StatesInv, NEW e \in End, NEW p, NEW s, NEW rest, NEW h, Arrives(e, p, s, rest, h),
           NEW q, Received(p, s, q), NEW r, r.rcv = q.rcv, r.una = q.una, r.nxt = q.nxt,
           r.state \in Synchronized
    PROVE  GoesOn(pcb[e], r, first[e], net[e])
<1> DEFINE P == pcb[e]
<1>1. /\ P.rcv = p.rcv /\ P.una = p.una /\ P.nxt = p.nxt
      /\ P.state \in Synchronized \cup {"SYN_RCVD"}
      /\ P.state = "SYN_RCVD" => IsNewAck(p, s)
  BY ArrivesIs
<1>2. s \in net[e] /\ Plain(s) /\ r.nxt = p.nxt /\ p.nxt \in Nat
  BY ArrivesIs DEF Arrives, Comes, Received, Block
<1>3. /\ r.rcv = p.rcv \/ (s.seq = p.rcv /\ TcpLength(s) = 1 /\ r.rcv = p.rcv + 1)
      /\ \/ ~IsNewAck(p, s) /\ r.una = p.una
         \/ "ACK" \in s.flags /\ r.una = s.ack /\ p.una < s.ack /\ s.ack <= p.nxt
  BY ReceivedCounts, ReceivedAcks
<1>4. Receives(P, r, net[e])
  <2>1. P.state # "TIME_WAIT"
    BY <1>1 DEF Synchronized
  <2>2. \/ r.rcv = P.rcv
        \/ \E g \in net[e] : Plain(g) /\ g.seq = P.rcv /\ TcpLength(g) = 1 /\ r.rcv = P.rcv + 1
    BY <1>1, <1>2, <1>3
  <2>3. \/ P.state # "SYN_RCVD" /\ r.una = P.una
        \/ \E g \in net[e] : Plain(g) /\ "ACK" \in g.flags /\ r.una = g.ack
                             /\ P.una < g.ack /\ g.ack <= P.nxt
    BY <1>1, <1>2, <1>3
  <2>4. QED
    BY <1>1, <2>1, <2>2, <2>3 DEF Receives
<1>5. P.state # "CLOSED" /\ r.state # "CLOSED" /\ P.nxt <= r.nxt
  BY <1>1, <1>2 DEF Synchronized
<1>6. QED
  BY <1>4, <1>5 DEF GoesOn

LEMMA PurgedGoesOn ==
    ASSUME StatesInv, NEW e \in End, NEW p, NEW s, NEW rest, NEW h, Arrives(e, p, s, rest, h),
           NEW q, Received(p, s, q), NEW r, r.rcv = q.rcv, r.nxt = q.nxt,
           r.state = "TIME_WAIT", p.state \in Closing
    PROVE  GoesOn(pcb[e], r, first[e], net[e])
<1> DEFINE P == pcb[e]
<1>1. /\ P.rcv = p.rcv /\ P.nxt = p.nxt
      /\ P.state \in Synchronized \cup {"SYN_RCVD"} /\ P.state # "SYN_RCVD"
  BY ArrivesIs DEF Open, Closing
<1>2. s \in net[e] /\ Plain(s) /\ r.nxt = p.nxt /\ p.nxt \in Nat
  BY ArrivesIs DEF Arrives, Comes, Received, Block
<1>3. r.rcv = p.rcv \/ (s.seq = p.rcv /\ TcpLength(s) = 1 /\ r.rcv = p.rcv + 1)
  BY ReceivedCounts
<1>4. Receives(P, r, net[e])
  BY <1>1, <1>2, <1>3 DEF Receives, Synchronized
<1>5. P.state # "CLOSED" /\ r.state # "CLOSED" /\ P.nxt <= r.nxt
  BY <1>1, <1>2 DEF Synchronized
<1>6. QED
  BY <1>4, <1>5 DEF GoesOn

LEMMA FinishMoves ==
    ASSUME StatesInv, NEW e \in End, NEW p, NEW s, NEW rest, NEW h, Arrives(e, p, s, rest, h),
           Finish(e, p, tcp_receive(p, s), s, rest, h)
    PROVE  Moves(e)
<1> DEFINE n == first[e]
           q == tcp_receive(p, s)
           x == tcp_process(p, s)
           r == [q EXCEPT !.state = x]
           due == AckDue(p, s)
           t == Marked(e, r)
<1>1. /\ p \in Block /\ p.state \in Open \cup Closing /\ n \in Nat
      /\ s \in Segment /\ rest \subseteq net[e] /\ SameNumber
  BY ArrivesIs, ComesIs, EndIs DEF Arrives
<1>2. Received(p, s, q)
  BY <1>1, ReceivedIs
<1>3. \/ /\ r.state = "CLOSED" \/ (GotUnit(p, s) /\ r.rxclosed)
         /\ Freed(e, rest, IF r.state = "CLOSED" THEN {} ELSE Rst(r.nxt, r.rcv))
      \/ /\ r.state # "CLOSED" /\ handle' = [handle EXCEPT ![e] = h]
         /\ IF r.state = "TIME_WAIT" THEN Becomes(e, Purged(r), rest, AckOf(r, due))
            ELSE Sends(e, r, rest, due)
  BY DEF Finish
<1>4. hist' = [hist EXCEPT ![e] = t]
  BY DEF Finish, Marked, Ended
<1>5. Restated(q, r, x)
  <2>1. x \in Active \cup {"CLOSED", "TIME_WAIT"}
    BY <1>1, ProcessIs
  <2> HIDE DEF q, x
  <2>2. q \in Block
    BY <1>2 DEF Received
  <2>3. QED
    BY <2>1, <2>2 DEF Restated, Block
<1> HIDE DEF q, r, x, due
<1>6. /\ r.state \in Active => BlockFits(e, r, n)
      /\ r.state \in Synchronized \cup {"TIME_WAIT", "CLOSED"}
      /\ r.state \notin Active => p.state \in Closing
      /\ r.state # "CLOSED" => h = HandleOf(r.state)
      /\ r.state \in Synchronized => r.state \in Active
  BY <1>2, <1>5, FinishBlock DEF x
<1>7. /\ t \in Marks
      /\ t.cut => t.queued
      /\ r.state \in Active => MarksFit(r, t)
  BY <1>2, <1>5, FinishMarks DEF x
<1>8. /\ r \in Block /\ r.rcv = q.rcv /\ r.una = q.una /\ r.nxt = q.nxt
      /\ r.unread = q.unread
  BY <1>5 DEF Restated
<1>9. r.nxt \in Nat /\ r.rcv \in Nat
  BY <1>8 DEF Block
<1> HIDE DEF t
<1>10. CASE Freed(e, rest, IF r.state = "CLOSED" THEN {} ELSE Rst(r.nxt, r.rcv))
  <2> DEFINE segs == IF r.state = "CLOSED" THEN {} ELSE Rst(r.nxt, r.rcv)
  <2>1. Resets(segs)
    BY <1>9, RstIs, NoneSent
  <2>2. Becomes(e, NoPcb, rest, segs) /\ handle' = [handle EXCEPT ![e] = "none"]
    BY <1>10 DEF Freed
  <2> HIDE DEF segs
  <2>3. QED
    BY <1>1, <1>4, <1>7, <2>1, <2>2, FreedMoves
<1>11. CASE /\ r.state = "TIME_WAIT" /\ handle' = [handle EXCEPT ![e] = h]
            /\ Becomes(e, Purged(r), rest, AckOf(r, due))
  <2> DEFINE u == Purged(r)
  <2>1. p.state \in Closing
    BY <1>6, <1>11 DEF Active, Synchronized
  <2>2. r.nxt >= n /\ r.nxt <= n + MaxData + 2 /\ r.unread <= RcvWnd
    <3>1. /\ n < q.una /\ q.una <= q.head /\ q.head <= q.nxt /\ q.nxt <= q.lbb /\ q.lbb = p.lbb
          /\ p.lbb <= n + MaxData + 2 /\ q.una \in Nat /\ q.nxt \in Nat /\ q.head \in Nat
          /\ p.lbb \in Nat /\ MaxData \in Nat
      BY <1>1, <1>2, <2>1, ReceivedAcks, ArrivesIs, StatesConstants DEF Received, Block
    <3>2. r.unread <= RcvWnd
      BY <1>2, <1>8, ReceivedCounts
    <3>3. QED
      BY <1>1, <1>8, <3>1, <3>2
  <2>3. /\ u \in Block /\ u.state = "TIME_WAIT" /\ u.rcv = r.rcv /\ u.nxt = r.nxt
        /\ BlockFits(e, u, n) /\ MarksFit(u, t)
    BY <1>1, <1>7, <1>8, <2>2, PurgedIs
  <2> HIDE DEF u
  <2>4. AllSendable(e, u, n, AckOf(r, due))
    <3>1. AckOf(r, due) = AckOf(u, due)
      BY <2>3 DEF AckOf, EmptyAck
    <3>2. u.nxt \in Nat /\ u.nxt <= u.nxt
      BY <1>9, <2>3
    <3>3. AllSendable(e, u, n, AckOf(u, due))
      BY <1>1, <2>3, <3>2, AckSendable DEF AllSendable
    <3>4. QED
      BY <3>1, <3>3
  <2>5. GoesOn(pcb[e], u, n, net[e])
    <3>1. u.rcv = q.rcv /\ u.nxt = q.nxt
      BY <1>8, <2>3
    <3>2. QED
      BY <1>2, <2>1, <2>3, <3>1, PurgedGoesOn
  <2>6. h = HandleOf(u.state)
    BY <1>6, <1>11, <2>3
  <2>7. Turns(e, u, rest, t)
    BY <1>1, <1>4, <1>11, <2>3, <2>5, <2>6 DEF Turns
  <2>8. QED
    BY <1>11, <2>3, <2>4, <2>7, BecomesMoves DEF u
<1>12. CASE /\ r.state \notin {"CLOSED", "TIME_WAIT"} /\ handle' = [handle EXCEPT ![e] = h]
            /\ Sends(e, r, rest, due)
  <2>1. r.state \in Synchronized /\ r.state \in Active
    BY <1>6, <1>12
  <2>2. GoesOn(pcb[e], r, n, net[e])
    BY <1>2, <1>8, <2>1, FinishGoesOn
  <2>3. Turns(e, r, rest, t)
    BY <1>1, <1>4, <1>6, <1>12, <2>1, <2>2 DEF Turns
  <2>4. QED
    BY <1>7, <1>12, <2>1, <2>3, SendsMoves
<1>13. QED
  BY <1>3, <1>10, <1>11, <1>12

LEMMA SegmentInput ==
    ASSUME StatesInv, NEW e \in End, NEW s, NEW rest, Comes(e, s, rest), segment_input(e, s, rest)
    PROVE  Moves(e)
<1>1. "RST" \notin s.flags /\ "SYN" \notin s.flags
  BY DEF segment_input
<1>2. Arrives(e, pcb[e], s, rest, handle[e])
  BY <1>1, SameNumberIs DEF Arrives, segment_input, Plain
<1>3. QED
  BY <1>2, FinishMoves DEF segment_input

(* What is unacked is unsent again.                                        *)
LEMMA ResentIs ==
    ASSUME StatesInv, NEW e \in End, pcb[e].state \in Active
    PROVE  /\ BlockFits(e, Resent(pcb[e]), first[e])
           /\ MarksFit(Resent(pcb[e]), hist[e])
           /\ Resent(pcb[e]).state = pcb[e].state
           /\ GoesOn(pcb[e], Resent(pcb[e]), first[e], net[e])
<1> DEFINE p == pcb[e]
           n == first[e]
           k == IF p.nrtx > MaxRtx THEN p.nrtx ELSE p.nrtx + 1
           hd == p.una
           q == [p EXCEPT !.head = hd, !.nrtx = k]
<1>1. /\ BlockFits(e, p, n) /\ MarksFit(p, hist[e]) /\ p \in Block
      /\ p.state # "CLOSED" /\ p.state # "TIME_WAIT"
  BY EndIs DEF BlockFits, Active, Synchronized
<1>2. k \in 0 .. MaxRtx + 1 /\ hd \in Nat /\ hd = p.una
  BY <1>1, StatesConstants DEF Block
<1>3. Resent(p) = q
  BY DEF Resent
<1> HIDE DEF k, hd
<1>4. /\ q \in Block /\ q.lbb = p.lbb /\ q.state = p.state /\ q.una = p.una /\ q.head = hd
      /\ q.nxt = p.nxt /\ q.syn = p.syn /\ q.fin = p.fin /\ q.rcv = p.rcv /\ q.unread = p.unread
  BY <1>1, <1>2 DEF Block
<1> HIDE DEF q
<1>5. p.una <= hd /\ hd <= p.nxt
  BY <1>1, <1>2 DEF BlockFits, Block
<1>6. BlockFits(e, q, n)
  BY <1>1, <1>4, <1>5 DEF BlockFits
<1>7. MarksFit(q, hist[e])
  BY <1>1, <1>4 DEF MarksFit
<1>8. GoesOn(p, q, n, net[e])
  BY <1>1, <1>4, GoesOnSame
<1>9. QED
  BY <1>3, <1>4, <1>6, <1>7, <1>8

LEMMA SynRcvdInput ==
    ASSUME StatesInv, NEW e \in End, NEW s, NEW rest, Comes(e, s, rest),
           syn_rcvd_input(e, s, rest)
    PROVE  Moves(e)
<1> DEFINE p == pcb[e]
           n == first[e]
           q == [p EXCEPT !.state = "ESTABLISHED"]
           due == FALSE
<1>1. /\ BlockFits(e, p, n) /\ MarksFit(p, hist[e]) /\ p \in Block /\ p.nxt \in Nat /\ p.rcv \in Nat
      /\ p.state = "SYN_RCVD" /\ p.state # "CLOSED" /\ p.state \in Active
      /\ hist[e] \in Marks /\ (hist[e].cut => hist[e].queued)
  BY EndIs DEF BlockFits, Block, MarksFit, syn_rcvd_input, Active
<1>2. /\ rest \subseteq net[e] /\ s.ack \in Nat /\ s.seq \in Nat /\ TcpLength(s) \in Nat
      /\ Plain(s) /\ SameNumber
  BY ComesIs, SameNumberIs DEF syn_rcvd_input, Plain
<1>3. CASE IsNewAck(p, s) /\ Finish(e, q, tcp_receive(q, s), s, rest, "open")
  <2>1. e = "server" /\ "ACK" \in s.flags
    BY <1>1, <1>3 DEF BlockFits, IsNewAck
  <2>2. "SYN" \notin s.flags
    BY <1>2, <2>1, ComesAs
  <2>3. Arrives(e, q, s, rest, "open")
    BY <1>1, <1>2, <1>3, <2>2 DEF Arrives
  <2> HIDE DEF q
  <2>4. QED
    BY <1>3, <2>3, FinishMoves
<1>4. CASE Freed(e, rest, Rst(p.nxt, p.rcv)) /\ UNCHANGED hist
  <2>1. hist' = [hist EXCEPT ![e] = hist[e]] /\ Resets(Rst(p.nxt, p.rcv))
    BY <1>1, <1>4, Idle, RstIs
  <2>2. QED
    BY <1>1, <1>2, <1>4, <2>1, FreedMoves DEF Freed
<1>5. CASE Becomes(e, p, rest, Rst(s.ack, s.seq + TcpLength(s))) /\ UNCHANGED <<handle, hist>>
  <2> DEFINE b == s.seq + TcpLength(s)
  <2>1. b \in Nat
    BY <1>2
  <2>2. Becomes(e, p, rest, Rst(s.ack, b))
    BY <1>5
  <2> HIDE DEF b
  <2>3. AllSendable(e, p, n, Rst(s.ack, b))
    BY <1>2, <2>1, RstIs, ResetsSendable
  <2>4. GoesOn(p, p, n, net[e])
    BY <1>1, GoesOnSame
  <2>5. Turns(e, p, rest, hist[e])
    BY <1>1, <1>2, <1>5, <2>4, Idle DEF Turns
  <2>6. QED
    BY <1>1, <2>2, <2>3, <2>5, BecomesMoves
<1>6. CASE Sends(e, p, rest, due) /\ UNCHANGED <<handle, hist>>
  <2>1. GoesOn(p, p, n, net[e])
    BY <1>1, GoesOnSame
  <2>2. Turns(e, p, rest, hist[e])
    BY <1>1, <1>2, <1>6, <2>1, Idle DEF Turns
  <2>3. QED
    BY <1>1, <1>6, <2>2, SendsMoves
<1>7. CASE Sends(e, Resent(p), rest, due) /\ UNCHANGED <<handle, hist>>
  <2> DEFINE u == Resent(p)
  <2>1. /\ BlockFits(e, u, n) /\ MarksFit(u, hist[e]) /\ u.state = p.state
        /\ GoesOn(p, u, n, net[e])
    BY <1>1, ResentIs
  <2>2. Sends(e, u, rest, due)
    BY <1>7
  <2> HIDE DEF u
  <2>3. Turns(e, u, rest, hist[e])
    BY <1>1, <1>2, <1>7, <2>1, Idle DEF Turns
  <2>4. QED
    BY <1>1, <2>1, <2>2, <2>3, SendsMoves
<1>8. QED
  BY <1>3, <1>4, <1>5, <1>6, <1>7 DEF syn_rcvd_input

----------------------------------------------------------------------------
(* tcp_slowtmr, and what befalls the ends and the network.                 *)
LEMMA Inputs ==
    ASSUME StatesInv, NEW e \in End, tcp_input(e)
    PROVE  Moves(e)
<1>1. PICK s \in net[e], again \in {0, 1} :
        LET rest == IF again = 1 THEN net[e] ELSE net[e] \ {s}
        IN \/ no_pcb_input(e, s, rest) \/ tcp_listen_input(e, s, rest)
           \/ tcp_timewait_input(e, s, rest) \/ reset_input(e, s, rest)
           \/ syn_input(e, s, rest) \/ syn_sent_input(e, s, rest)
           \/ syn_rcvd_input(e, s, rest) \/ segment_input(e, s, rest)
  BY Zenon DEF tcp_input
<1> DEFINE rest == IF again = 1 THEN net[e] ELSE net[e] \ {s}
<1>2. Comes(e, s, rest)
  BY DEF Comes
<1>3. \/ no_pcb_input(e, s, rest) \/ tcp_listen_input(e, s, rest)
      \/ tcp_timewait_input(e, s, rest) \/ reset_input(e, s, rest)
      \/ syn_input(e, s, rest) \/ syn_sent_input(e, s, rest)
      \/ syn_rcvd_input(e, s, rest) \/ segment_input(e, s, rest)
  BY <1>1, Zenon
<1> HIDE DEF rest
<1>4. QED
  BY <1>2, <1>3, NoPcbInput, ListenInput, TimeWaitInput, ResetInput, SynInput, SynSentInput,
     SynRcvdInput, SegmentInput

LEMMA Retransmits ==
    ASSUME StatesInv, NEW e \in End, Retransmission(e)
    PROVE  Moves(e)
<1> DEFINE u == Resent(pcb[e])
           due == FALSE
<1>1. /\ pcb[e].state \in Active /\ Sends(e, u, net[e], due) /\ SameNumber
      /\ UNCHANGED handle /\ UNCHANGED hist /\ net[e] \subseteq net[e]
  BY SameNumberIs DEF Retransmission
<1>2. /\ BlockFits(e, u, first[e]) /\ MarksFit(u, hist[e]) /\ u.state = pcb[e].state
      /\ GoesOn(pcb[e], u, first[e], net[e])
  BY <1>1, ResentIs
<1> HIDE DEF u, due
<1>3. Turns(e, u, net[e], hist[e])
  BY <1>1, <1>2, Idle DEF Turns
<1>4. due => u.state \in Synchronized
  BY DEF due
<1>5. QED
  BY <1>1, <1>2, <1>3, <1>4, SendsMoves

LEMMA Gone ==
    ASSUME StatesInv, NEW e \in End, Removal(e) \/ Restart(e)
    PROVE  Moves(e)
<1>0. SameNumber
  <2>1. CASE Restart(e)
    BY <2>1, StatesConstants DEF Restart, SameNumber, StatesInv
  <2>2. CASE Removal(e)
    BY <2>2, SameNumberIs DEF Removal
  <2>3. QED
    BY <2>1, <2>2
<1>1. /\ Becomes(e, NoPcb, net[e], {}) /\ handle' = [handle EXCEPT ![e] = "none"]
      /\ UNCHANGED hist
  BY DEF Removal, Restart, Freed
<1>2. /\ hist' = [hist EXCEPT ![e] = hist[e]] /\ hist[e] \in Marks
      /\ (hist[e].cut => hist[e].queued) /\ net[e] \subseteq net[e] /\ Resets({})
  BY <1>1, Idle, EndIs, NoneSent DEF MarksFit
<1>3. QED
  BY <1>0, <1>1, <1>2, FreedMoves

LEMMA LostKeeps ==
    ASSUME StatesInv, NEW e \in End, Lost(e)
    PROVE  StatesInv'
<1>1. UNCHANGED <<pcb, handle, iss, first, hist>>
  BY DEF Lost, numbers
<1>2. PICK s \in net[e] : net' = [net EXCEPT ![e] = net[e] \ {s}]
  BY DEF Lost
<1>3. net \in [End -> SUBSET Segment]
  BY DEF StatesInv
<1>4. net' \in [End -> SUBSET Segment] /\ \A d \in End : net'[d] \subseteq net[d]
  BY <1>2, <1>3
<1>5. ASSUME NEW d \in End
      PROVE  \A g \in net'[Other(d)] : Plain(g) => SegmentFits(d, g)
  <2>1. Other(d) \in End
    BY Ends
  <2>2. \A g \in net[Other(d)] : Plain(g) => SegmentFits(d, g)
    BY Zenon DEF StatesInv
  <2>3. QED
    BY <1>4, <2>1, <2>2
<1>6. first \in [End -> Nat] /\ iss \in [End -> Nat]
      /\ pcb = [d \in End |-> pcb[d]] /\ hist = [d \in End |-> hist[d]]
      /\ handle = [d \in End |-> HandleOf(pcb[d].state)]
  BY DEF StatesInv
<1>7. \A d \in End : BlockFits(d, pcb[d], first[d]) /\ MarksFit(pcb[d], hist[d])
  BY Zenon DEF StatesInv
<1>8. \A d \in End :
        /\ BlockFits(d, pcb'[d], first'[d])
        /\ MarksFit(pcb'[d], hist'[d])
        /\ \A g \in net'[Other(d)] : Plain(g) => SegmentFits(d, g)
  BY <1>1, <1>5, <1>7, Zenon
<1>9. /\ first' \in [End -> Nat] /\ iss' \in [End -> Nat]
      /\ pcb' = [d \in End |-> pcb'[d]] /\ hist' = [d \in End |-> hist'[d]]
      /\ handle' = [d \in End |-> HandleOf(pcb'[d].state)]
  BY <1>1, <1>6, Zenon
<1>10. QED
  BY <1>4, <1>8, <1>9, Zenon DEF StatesInv

(* Every step is that of an end, or loses a segment.                       *)
LEMMA NextMoves ==
    ASSUME StatesInv, StatesNext
    PROVE  \E e \in End : Moves(e) \/ Lost(e)
<1>1. "client" \in End /\ "server" \in End
  BY DEF End
<1>2. CASE tcp_connect \/ AppWrites \/ AppReads
  BY <1>1, <1>2, Connects, Writes, Reads
<1>3. ASSUME NEW e \in End, \/ tcp_close(e) \/ tcp_input(e) \/ Retransmission(e) \/ Removal(e)
                            \/ Lost(e) \/ Restart(e)
      PROVE  \E d \in End : Moves(d) \/ Lost(d)
  BY <1>3, Closes, Inputs, Retransmits, Gone
<1>4. QED
  BY <1>2, <1>3 DEF StatesNext

LEMMA HalfOpenIs ==
    /\ HalfOpen.state = "ESTABLISHED" /\ HalfOpen.rcv = Iss0 + 1 /\ HalfOpen.una = Iss0 + 1
    /\ HalfOpen.head = Iss0 + 1 /\ HalfOpen.nxt = Iss0 + 1 /\ HalfOpen.lbb = Iss0 + 1
    /\ HalfOpen.syn = Iss0 /\ HalfOpen.fin = -1 /\ HalfOpen.unread = 0
    /\ HalfOpen \in Block
<1> DEFINE l == Iss0 + 1
<1>1. l \in Nat /\ Iss0 \in Nat
  BY StatesConstants
<1> HIDE DEF l
<1>2. NoPcb \in Block /\ "ESTABLISHED" \in Active \cup {"CLOSED", "TIME_WAIT"}
  BY StatesConstants DEF NoPcb, Block, Active, Synchronized
<1> DEFINE p == [NoPcb EXCEPT !.state = "ESTABLISHED", !.rcv = l, !.una = Iss0, !.head = Iss0,
                              !.nxt = Iss0, !.lbb = l, !.syn = Iss0]
           q == [p EXCEPT !.una = l, !.head = l, !.nxt = l]
<1>3. p \in Block
  BY <1>1, <1>2, Zenon DEF Block
<1>4. /\ p.state = "ESTABLISHED" /\ p.rcv = l /\ p.lbb = l /\ p.syn = Iss0 /\ p.fin = -1
      /\ p.unread = 0
  BY DEF NoPcb
<1>5. HalfOpen = q
  BY DEF HalfOpen, Opened, l
<1> HIDE DEF p
<1>6. q \in Block
  BY <1>1, <1>3, Zenon DEF Block
<1>7. /\ q.state = "ESTABLISHED" /\ q.rcv = l /\ q.una = l /\ q.head = l /\ q.nxt = l
      /\ q.lbb = l /\ q.syn = Iss0 /\ q.fin = -1 /\ q.unread = 0
  BY <1>3, <1>4 DEF Block
<1>8. QED
  BY <1>5, <1>6, <1>7 DEF l

LEMMA StatesBegin == StatesInit => StatesInv
<1> SUFFICES ASSUME StatesInit PROVE StatesInv
  OBVIOUS
<1>1. /\ net = [e \in End |-> {}] /\ hist = [e \in End |-> Unmarked]
      /\ iss = [e \in End |-> Iss0]
      /\ "client" \in End /\ "server" \in End /\ \A e \in End : Other(e) \in End
  BY Ends DEF StatesInit, End
<1>2. NoPcb \in Block /\ NoPcb.state = "CLOSED" /\ NoPcb.unread = 0 /\ Iss0 \in Nat
  BY StatesConstants DEF NoPcb, Block
<1>3. \A e \in End, n \in Nat : BlockFits(e, NoPcb, n)
  BY <1>2, StatesConstants DEF BlockFits, Active, Synchronized, Opening, Open, Closing
<1>4. \A p : p \in {NoPcb, HalfOpen} => MarksFit(p, Unmarked)
  <2>1. Unmarked \in Marks /\ Unmarked.told = 0 /\ ~Unmarked.cut
    BY DEF Unmarked, Marks
  <2>2. 0 = HalfOpen.una - HalfOpen.syn - 1
    BY <1>2, HalfOpenIs
  <2>3. QED
    BY <1>2, <2>1, <2>2, HalfOpenIs DEF MarksFit, Active, Synchronized, Opening, Open, Closing
<1>5. BlockFits("server", HalfOpen, Iss0)
  <2>1. Iss0 < Iss0 + 1 /\ Iss0 + 1 <= Iss0 + MaxData + 1 /\ 0 <= RcvWnd
    BY StatesConstants
  <2>2. QED
    BY <1>2, <2>1, HalfOpenIs DEF BlockFits, Active, Synchronized, Opening, Open, Closing
<1>6. /\ \A e \in End : BlockFits(e, pcb[e], first[e]) /\ MarksFit(pcb[e], Unmarked)
      /\ first \in [End -> Nat]
      /\ pcb = [e \in End |-> pcb[e]] /\ handle = [e \in End |-> HandleOf(pcb[e].state)]
  <2>1. NoPcb.state = "CLOSED" /\ HalfOpen.state = "ESTABLISHED"
    BY <1>2, HalfOpenIs
  <2>2. HandleOf("CLOSED") = "none" /\ HandleOf("ESTABLISHED") = "open"
    BY DEF HandleOf, Open
  <2>3. CASE /\ pcb = [e \in End |-> NoPcb] /\ handle = [e \in End |-> "none"]
             /\ first = [e \in End |-> 0]
    <3>1. \A e \in End : pcb[e] = NoPcb /\ first[e] = 0
      BY <2>3
    <3>2. QED
      BY <1>3, <1>4, <2>1, <2>2, <2>3, <3>1
  <2>4. CASE /\ pcb = [client |-> NoPcb, server |-> HalfOpen]
             /\ handle = [client |-> "none", server |-> "open"]
             /\ first = [e \in End |-> Iss0]
    <3>1. /\ DOMAIN pcb = End /\ DOMAIN handle = End
          /\ pcb["client"] = NoPcb /\ pcb["server"] = HalfOpen
          /\ handle["client"] = "none" /\ handle["server"] = "open"
      BY <2>4 DEF End
    <3>2. pcb = [e \in End |-> pcb[e]]
      BY <2>4 DEF End
    <3>3. handle = [e \in End |-> handle[e]]
      BY <2>4 DEF End
    <3>4. \A e \in End : handle[e] = HandleOf(pcb[e].state)
      BY <2>1, <2>2, <3>1 DEF End
    <3>5. first \in [End -> Nat] /\ \A e \in End : first[e] = Iss0
      BY <1>2, <2>4
    <3>6. \A e \in End : BlockFits(e, pcb[e], first[e]) /\ MarksFit(pcb[e], Unmarked)
      BY <1>2, <1>3, <1>4, <1>5, <3>1, <3>5 DEF End
    <3>7. QED
      BY <3>2, <3>3, <3>4, <3>5, <3>6
  <2>5. QED
    BY <2>3, <2>4 DEF StatesInit
<1>7. \A e \in End : net[e] = {} /\ hist[e] = Unmarked
  BY <1>1
<1>8. /\ net \in [End -> SUBSET Segment] /\ iss \in [End -> Nat]
      /\ hist = [e \in End |-> hist[e]]
  BY <1>1, <1>2
<1>9. QED
  BY <1>1, <1>6, <1>7, <1>8 DEF StatesInv

(* The blocks, the marks and the segments under way fit.                   *)
THEOREM StatesSound == StatesSpec => []StatesInv
<1>1. StatesInv /\ [StatesNext]_statesVars => StatesInv'
  <2> SUFFICES ASSUME StatesInv, [StatesNext]_statesVars PROVE StatesInv'
    OBVIOUS
  <2>1. CASE StatesNext
    BY <2>1, NextMoves, MovesKeeps, LostKeeps
  <2>2. CASE UNCHANGED statesVars
    BY <2>2 DEF statesVars, StatesInv
  <2>3. QED
    BY <2>1, <2>2
<1>2. QED
  BY <1>1, StatesBegin, PTL DEF StatesSpec

(* tcp_in.c, tcp_out.c: the queues of a connection are in order, and its   *)
(* counters bounded.                                                       *)
THEOREM StatesTyped == StatesSpec => []StatesTypeOK
<1>1. StatesInv => StatesTypeOK
  <2> SUFFICES ASSUME StatesInv PROVE StatesTypeOK
    OBVIOUS
  <2>1. ASSUME NEW e \in End
        PROVE  /\ handle[e] \in {"none", "opening", "open", "closed"}
               /\ pcb[e].state \in Active \cup {"CLOSED", "TIME_WAIT"}
               /\ pcb[e].state \in Active =>
                    /\ pcb[e].una <= pcb[e].head /\ pcb[e].head <= pcb[e].lbb
                    /\ pcb[e].head <= pcb[e].nxt /\ pcb[e].nxt <= pcb[e].lbb
               /\ pcb[e].nrtx \in 0 .. (MaxRtx + 1) /\ pcb[e].unread \in 0 .. RcvWnd
    <3>1. BlockFits(e, pcb[e], first[e]) /\ handle[e] = HandleOf(pcb[e].state)
      BY EndIs
    <3>2. handle[e] \in {"none", "opening", "open", "closed"}
      BY <3>1 DEF HandleOf
    <3>3. QED
      BY <3>1, <3>2, StatesConstants DEF BlockFits, Block
  <2>2. handle \in [End -> {"none", "opening", "open", "closed"}]
    <3>1. handle = [e \in End |-> HandleOf(pcb[e].state)]
      BY DEF StatesInv
    <3>2. QED
      BY <2>1, <3>1
  <2>3. QED
    BY <2>1, <2>2, Zenon DEF StatesTypeOK
<1>2. QED
  BY <1>1, StatesSound, PTL

----------------------------------------------------------------------------
(* An application's handle is that of a block that is there, the sent      *)
(* callback counts once, and a connection that could send all it had ends  *)
(* with that acknowledged.                                                 *)
THEOREM HandlesKept == StatesSpec => [](HandleValid /\ ToldOnce /\ DataKept)
<1>1. StatesInv => HandleValid /\ ToldOnce /\ DataKept
  <2> SUFFICES ASSUME StatesInv PROVE HandleValid /\ ToldOnce /\ DataKept
    OBVIOUS
  <2>1. ASSUME NEW e \in End
        PROVE  /\ handle[e] \in {"opening", "open"} => pcb[e].state \in Active
               /\ handle[e] = "open" /\ ~hist[e].stray => hist[e].told = pcb[e].una - pcb[e].syn - 1
               /\ hist[e].cut => hist[e].queued
    <3>1. MarksFit(pcb[e], hist[e])
      BY EndIs
    <3>2. handle[e] \in {"opening", "open"} => pcb[e].state \in Active
      BY Kinds DEF Active, Synchronized, Open
    <3>3. QED
      BY <3>1, <3>2, Kinds DEF MarksFit
  <2>2. QED
    BY <2>1, Zenon DEF HandleValid, ToldOnce, DataKept
<1>2. QED
  BY <1>1, StatesSound, PTL
----------------------------------------------------------------------------
(* The two ends.  c and s are the blocks of the client and the server, ic  *)
(* and is the first numbers of their latest connections, nc and ns what is *)
(* on its way to them.                                                     *)
There(p) == p.state # "CLOSED"
Joined(p) == p.state \in Synchronized \cup {"TIME_WAIT"}

(* A segment of the connection that the block p is of, from n on.          *)
Present(p, n, m, g) ==
    There(p) /\ g.seq >= n =>
      /\ g.seq + TcpLength(g) <= p.nxt
      /\ "SYN" \in g.flags => g.seq = n
      /\ "ACK" \in g.flags => /\ p.state # "SYN_SENT" /\ g.ack <= p.rcv
                              /\ g.ack >= m <=> p.rcv >= m

Account(p, n, m, segs) == \A g \in segs : Plain(g) => Present(p, n, m, g)

(* When the server knows the client's latest connection, only that one     *)
(* acknowledges the server's.                                              *)
AcksOfServer(s, ic, is, ns) ==
    \A g \in ns : Plain(g) /\ "ACK" \in g.flags /\ g.ack >= is /\ There(s) /\ s.rcv >= ic
                    => g.seq >= ic

(* More than the client's SYN is acknowledged when it has been answered,   *)
(* and by the connection that answered.                                    *)
AcksOfClient(c, ic, is, nc) ==
    \A g \in nc : Plain(g) /\ g.ack > ic + 1 /\ There(c)
                    => c.state # "SYN_SENT" /\ (c.rcv >= is => g.seq >= is)

(* What the two blocks say of each other.                                  *)
Agreed(c, s, ic, is) ==
    /\ Joined(s) /\ s.rcv >= ic /\ There(c) => Joined(c) /\ c.rcv >= is
    /\ s.state = "SYN_RCVD" /\ s.rcv >= ic /\ There(c) => s.rcv = ic + 1
    /\ Joined(c) /\ c.rcv >= is /\ There(s) => s.rcv >= ic
    /\ There(c) /\ There(s) /\ s.rcv >= ic => s.rcv <= c.nxt
    /\ Joined(c) /\ There(s) /\ c.rcv >= is => c.rcv <= s.nxt
    /\ c.state \in Synchronized /\ There(s) /\ c.rcv >= is => c.una <= s.rcv
    /\ s.state \in Active /\ Joined(c) /\ c.rcv >= is /\ s.rcv >= ic => s.una <= c.rcv

(* The client has joined an earlier connection of the server's, or may; it *)
(* has said nothing then that the server takes for an answer.              *)
Misled(c, ic, is, nc) ==
    \/ Joined(c) /\ ~(c.rcv >= is)
    \/ c.state = "SYN_SENT" /\ \E g \in nc : Plain(g) /\ g.ack >= ic /\ ~(g.seq >= is)

Unanswered(s, is, ns) ==
    /\ s.state \notin Synchronized
    /\ \A g \in ns : Plain(g) /\ "ACK" \in g.flags => ~(g.ack >= is)

Paired(c, s, ic, is, nc, ns) ==
    /\ Account(c, ic, is, ns) /\ Account(s, is, ic, nc)
    /\ AcksOfServer(s, ic, is, ns) /\ AcksOfClient(c, ic, is, nc)
    /\ Agreed(c, s, ic, is)
    /\ Misled(c, ic, is, nc) => Unanswered(s, is, ns)

StatesPaired ==
    Paired(pcb["client"], pcb["server"], first["client"], first["server"], net["client"],
           net["server"])

(* As long as no connection begins with a number that its end might have   *)
(* used, the segments of an earlier one, which is below n, are told from   *)
(* those of the present one, from n on; so are its acknowledgements.       *)
Numbered(g, n, m) ==
    /\ g.seq >= n \/ g.seq + TcpLength(g) < n
    /\ g.seq + TcpLength(g) < n + Span /\ g.ack < m + Span

StatesNumbered ==
    \A e \in End :
      /\ pcb[e].rcv < first[Other(e)] + Span
      /\ \A g \in net[Other(e)] : Plain(g) => Numbered(g, first[e], first[Other(e)])

(* What is used of a segment and of a block.                               *)
Regular(e, g, n, m) ==
    /\ g.seq \in Nat /\ g.ack \in Nat /\ TcpLength(g) \in Nat
    /\ g.seq >= n \/ g.seq + TcpLength(g) < n
    /\ g.seq + TcpLength(g) < n + Span /\ g.ack < m + Span
    /\ "SYN" \in g.flags => TcpLength(g) = 1
    /\ e = "server" => "ACK" \in g.flags

AllRegular(e, segs, n, m) == \A g \in segs : Plain(g) => Regular(e, g, n, m)

Simple(e, p, n, m) ==
    /\ n \in Nat /\ m \in Nat /\ p.rcv \in Nat /\ p.una \in Nat /\ p.nxt \in Nat
    /\ p.rcv < m + Span
    /\ p.state \in Synchronized => n < p.una
    /\ p.state \in Opening => p.una = n /\ p.nxt = n + 1
    /\ p.state = "SYN_SENT" => e = "client"
    /\ p.state = "SYN_RCVD" => e = "server"
    /\ p.state \in Active \cup {"CLOSED", "TIME_WAIT"}

Setting(c, s, ic, is, nc, ns) ==
    /\ Simple("client", c, ic, is) /\ Simple("server", s, is, ic)
    /\ AllRegular("client", ns, ic, is) /\ AllRegular("server", nc, is, ic)

LEMMA SegmentRegular ==
    ASSUME NEW e, NEW g \in Segment, NEW n \in Nat, NEW m \in Nat, SegmentFits(e, g),
           Numbered(g, n, m)
    PROVE  Regular(e, g, n, m)
<1> DEFINE l == TcpLength(g)
<1>1. l = g.len + (IF "SYN" \in g.flags \/ "FIN" \in g.flags THEN 1 ELSE 0)
  BY LengthIs
<1>2. g.seq \in Nat /\ g.ack \in Nat /\ g.len \in {0, 1}
  BY DEF Segment
<1>3. /\ g.flags \in {{"SYN"}, {"SYN", "ACK"}, {"ACK"}, {"FIN", "ACK"}}
      /\ g.flags = {"SYN"} <=> (e = "client" /\ "SYN" \in g.flags)
      /\ g.flags # {"ACK"} => g.len = 0
  BY DEF SegmentFits
<1>4. l \in Nat /\ ("SYN" \in g.flags => l = 1)
  BY <1>1, <1>2, <1>3
<1>5. e = "server" => "ACK" \in g.flags
  BY <1>3
<1> HIDE DEF l
<1>6. QED
  BY <1>2, <1>4, <1>5 DEF Regular, Numbered, l

LEMMA BlockSimple ==
    ASSUME NEW e, NEW p, NEW n \in Nat, NEW m \in Nat, BlockFits(e, p, n), p.rcv < m + Span
    PROVE  Simple(e, p, n, m)
<1>1. /\ p.rcv \in Nat /\ p.una \in Nat /\ p.nxt \in Nat
      /\ p.state \in Active \cup {"CLOSED", "TIME_WAIT"}
  BY DEF BlockFits, Block
<1>2. p.state \in Synchronized => p.state \in Open \cup Closing
  BY DEF Synchronized, Open, Closing
<1>3. QED
  BY <1>1, <1>2 DEF BlockFits, Simple

LEMMA SettingIs ==
    StatesInv /\ StatesNumbered
      => Setting(pcb["client"], pcb["server"], first["client"], first["server"],
                 net["client"], net["server"])
<1> SUFFICES ASSUME StatesInv, StatesNumbered
             PROVE  Setting(pcb["client"], pcb["server"], first["client"], first["server"],
                            net["client"], net["server"])
  OBVIOUS
<1>1. /\ "client" \in End /\ "server" \in End
      /\ Other("client") = "server" /\ Other("server") = "client"
  BY DEF End, Other
<1>2. first["client"] \in Nat /\ first["server"] \in Nat
  BY <1>1, EndIs
<1>3. Simple("client", pcb["client"], first["client"], first["server"])
  BY <1>1, <1>2, EndIs, BlockSimple DEF StatesNumbered
<1>4. Simple("server", pcb["server"], first["server"], first["client"])
  BY <1>1, <1>2, EndIs, BlockSimple DEF StatesNumbered
<1>5. ASSUME NEW e \in End PROVE AllRegular(Other(e), net[e], first[Other(e)], first[e])
  <2>1. /\ net[e] \subseteq Segment /\ first[e] \in Nat /\ first[Other(e)] \in Nat
        /\ \A g \in net[e] : Plain(g) => SegmentFits(Other(e), g)
    BY EndIs
  <2>2. \A g \in net[e] : Plain(g) => Numbered(g, first[Other(e)], first[e])
    BY Ends, Zenon DEF StatesNumbered
  <2>3. QED
    BY <2>1, <2>2, SegmentRegular DEF AllRegular
<1>6. QED
  <2>1. AllRegular("client", net["server"], first["client"], first["server"])
    BY <1>1, <1>5, Zenon
  <2>2. AllRegular("server", net["client"], first["server"], first["client"])
    BY <1>1, <1>5, Zenon
  <2>3. QED
    BY <1>3, <1>4, <2>1, <2>2 DEF Setting

(* What an end adds.                                                       *)
Added(e, q, n, m, segs) ==
    \A g \in segs : Plain(g) => Regular(e, g, n, m) /\ Own(q, n, g)

LEMMA AddedIs ==
    ASSUME NEW e, NEW q, NEW n \in Nat, NEW m \in Nat, NEW segs, AllSendable(e, q, n, segs),
           \A g \in segs : Plain(g) => Numbered(g, n, m)
    PROVE  Added(e, q, n, m, segs)
BY SegmentRegular DEF Added, AllSendable, Sendable

(* What an end sends is numbered from its first on, and acknowledges what  *)
(* it has got.                                                             *)
LEMMA OwnNumbered ==
    ASSUME NEW e \in End, NEW q, NEW n \in Nat, NEW m \in Nat, BlockFits(e, q, n),
           q.rcv < m + Span, NEW g \in Segment, Own(q, n, g)
    PROVE  Numbered(g, n, m)
<1>1. g.seq \in Nat /\ TcpLength(g) \in Nat
  BY LengthIs DEF Segment
<1>2. q.nxt \in Nat /\ q.lbb \in Nat /\ q.rcv \in Nat
  BY DEF BlockFits, Block
<1>3. q.nxt <= n + MaxData + 2
  <2>1. q.state \in Opening \cup Open \cup Closing \cup {"TIME_WAIT"}
    BY DEF Own, BlockFits, Block, Active, Synchronized, Opening, Open, Closing
  <2>2. q.state \in Opening \cup Open \cup Closing => q.state \in Active
    BY DEF Active, Synchronized, Opening, Open, Closing
  <2>3. CASE q.state \in Opening
    BY <2>3, StatesConstants DEF BlockFits
  <2>4. CASE q.state \in Open
    BY <1>2, <2>2, <2>4, StatesConstants DEF BlockFits
  <2>5. CASE q.state \in Closing
    BY <1>2, <2>2, <2>5, StatesConstants DEF BlockFits
  <2>6. CASE q.state = "TIME_WAIT"
    BY <2>6 DEF BlockFits
  <2>7. QED
    BY <2>1, <2>3, <2>4, <2>5, <2>6
<1> DEFINE l == TcpLength(g)
<1>4. g.seq >= n /\ g.seq + l <= q.nxt /\ g.ack = q.rcv /\ l \in Nat
  BY <1>1 DEF Own
<1> HIDE DEF l
<1>5. g.seq + l < n + Span
  BY <1>1, <1>2, <1>3, <1>4, StatesConstants DEF Span
<1>6. QED
  BY <1>4, <1>5 DEF Numbered, l

(* Later first numbers leave what was numbered before them behind.         *)
LEMMA NumberedLater ==
    ASSUME NEW n \in Nat, NEW m \in Nat, NEW n2 \in Nat, NEW m2 \in Nat,
           n2 = n \/ n2 >= n + Span, m2 = m \/ m2 >= m + Span,
           NEW g \in Segment, Numbered(g, n, m)
    PROVE  Numbered(g, n2, m2)
<1> DEFINE l == TcpLength(g)
<1>1. l \in Nat /\ g.seq \in Nat /\ g.ack \in Nat
  BY LengthIs DEF Segment
<1>2. (g.seq >= n \/ g.seq + l < n) /\ g.seq + l < n + Span /\ g.ack < m + Span
  BY DEF Numbered
<1>3. Span \in Nat
  BY StatesConstants DEF Span
<1> HIDE DEF l
<1>4. (g.seq >= n2 \/ g.seq + l < n2) /\ g.seq + l < n2 + Span /\ g.ack < m2 + Span
  BY <1>1, <1>2, <1>3
<1>5. QED
  BY <1>4 DEF Numbered, l

(* What it has received, it counts on from the other's first number.       *)
LEMMA StepNumbers ==
    ASSUME StatesInv, StatesNumbered, NEW e \in End, NEW q, NEW rest, NEW segs, NEW h, NEW n,
           Step(e, q, rest, segs, h, n)
    PROVE  q.rcv < first[Other(e)] + Span
<1> DEFINE m == first[Other(e)]
<1>1. m \in Nat /\ Span \in Nat /\ Span > 0
  BY EndIs, StatesConstants DEF Span
<1>2. BlockFits(e, q, n) /\ q.rcv \in Nat
  BY DEF Step, BlockFits, Block
<1>3. pcb[e].rcv \in Nat /\ pcb[e].rcv < m + Span
  BY EndIs DEF StatesNumbered, BlockFits, Block
<1>4. ASSUME NEW g \in net[e], Plain(g)
      PROVE  /\ g.seq \in Nat /\ TcpLength(g) \in Nat
             /\ g.seq + TcpLength(g) < m + Span
             /\ "SYN" \in g.flags => TcpLength(g) = 1
  <2>1. Comes(e, g, net[e])
    BY DEF Comes
  <2>2. Numbered(g, m, first[e])
    BY <1>4, Ends, Zenon DEF StatesNumbered
  <2>3. QED
    BY <1>4, <2>1, <2>2, ComesIs, ComesAs DEF Numbered
<1> HIDE DEF m
<1>5. CASE q.state = "CLOSED" \/ q.state = "SYN_SENT"
  <2>1. q.rcv = 0
    BY <1>2, <1>5 DEF BlockFits, NoPcb
  <2>2. QED
    BY <1>1, <2>1 DEF m
<1>6. CASE GoesOn(pcb[e], q, n, net[e])
  <2>1. CASE q.rcv = pcb[e].rcv
    BY <1>3, <2>1 DEF m
  <2>2. CASE \E g \in net[e] : /\ Plain(g) /\ g.seq = pcb[e].rcv /\ TcpLength(g) = 1
                               /\ q.rcv = pcb[e].rcv + 1
    BY <1>3, <1>4, <2>2 DEF m
  <2>3. CASE \E g \in net[e] : Plain(g) /\ "SYN" \in g.flags /\ q.rcv = g.seq + 1
    BY <1>4, <2>3 DEF m
  <2>4. QED
    BY <1>6, <2>1, <2>2, <2>3 DEF GoesOn, Waits, Answered, Receives
<1>7. CASE q.state = "SYN_RCVD" /\ \E g \in net[e] : Plain(g) /\ "SYN" \in g.flags
                                                    /\ q.rcv = g.seq + 1
  BY <1>4, <1>7 DEF m
<1>8. QED
  BY <1>5, <1>6, <1>7 DEF Step, Opening

LEMMA NumberedKeeps ==
    ASSUME StatesInv, StatesNumbered, spaced', NEW e \in End, NEW q, NEW rest, NEW segs, NEW h,
           NEW n, Step(e, q, rest, segs, h, n)
    PROVE  StatesNumbered'
<1> DEFINE f == Other(e)
<1>1. f \in End /\ f # e /\ Other(f) = e /\ \A d \in End : d = e \/ d = f
  BY Ends, Zenon
<1>2. first[e] \in Nat /\ first[f] \in Nat /\ n \in Nat /\ (n = first[e] \/ n >= first[e] + Span)
  BY EndIs DEF Step
<1>3. q.rcv < first[f] + Span
  BY StepNumbers
<1>4. pcb[f].rcv \in Nat /\ pcb[f].rcv < first[e] + Span
  BY <1>1, EndIs DEF StatesNumbered, BlockFits, Block
<1>5. BlockFits(e, q, n) /\ \A g \in segs : g \in Segment /\ (Plain(g) => Own(q, n, g))
  BY DEF Step, AllSendable, Sendable
<1>6. /\ \A g \in net[f] : Plain(g) => Numbered(g, first[e], first[f])
      /\ \A g \in net[e] : Plain(g) => Numbered(g, first[f], first[e])
  BY <1>1, Zenon DEF StatesNumbered
<1>7. net[e] \subseteq Segment /\ net[f] \subseteq Segment
  BY <1>1, EndIs
<1> HIDE DEF f
<1>8. /\ pcb'[e] = q /\ pcb'[f] = pcb[f] /\ net'[e] = rest /\ net'[f] = net[f] \cup segs
      /\ first'[e] = n /\ first'[f] = first[f] /\ rest \subseteq net[e]
  <2>1. /\ pcb' = [pcb EXCEPT ![e] = q]
        /\ net' = [net EXCEPT ![e] = rest, ![f] = net[f] \cup segs]
        /\ first' = [first EXCEPT ![e] = n]
    BY <1>1 DEF Step, Becomes, StatesInv, f
  <2>2. QED
    BY <1>1, <2>1 DEF StatesInv, Step
<1>9. /\ pcb'[e].rcv < first'[f] + Span
      /\ \A g \in net'[f] : Plain(g) => Numbered(g, first'[e], first'[f])
  <2>1. \A g \in net[f] : Plain(g) => Numbered(g, n, first[f])
    BY <1>2, <1>6, <1>7, NumberedLater
  <2>2. \A g \in segs : Plain(g) => Numbered(g, n, first[f])
    BY <1>2, <1>3, <1>5, OwnNumbered
  <2>3. QED
    BY <1>3, <1>8, <2>1, <2>2
<1>10. /\ pcb'[f].rcv < first'[e] + Span
       /\ \A g \in net'[e] : Plain(g) => Numbered(g, first'[f], first'[e])
  <2>1. \A g \in net[e] : Plain(g) => Numbered(g, first[f], n)
    BY <1>2, <1>6, <1>7, NumberedLater
  <2>2. Span \in Nat
    BY StatesConstants DEF Span
  <2>3. pcb[f].rcv < n + Span
    BY <1>2, <1>4, <2>2
  <2>4. QED
    BY <1>8, <2>1, <2>3
<1>11. \A d \in End :
         /\ pcb'[d].rcv < first'[Other(d)] + Span
         /\ \A g \in net'[Other(d)] : Plain(g) => Numbered(g, first'[d], first'[Other(d)])
  BY <1>1, <1>9, <1>10, Zenon DEF f
<1>12. QED
  BY <1>11, Zenon DEF StatesNumbered

----------------------------------------------------------------------------
(* What the client does.                                                   *)
ClientTurn(c, s, ic, is, nc, ns, q, n, rest, segs) ==
    /\ Setting(c, s, ic, is, nc, ns) /\ Paired(c, s, ic, is, nc, ns)
    /\ rest \subseteq nc /\ Simple("client", q, n, is) /\ Added("client", q, n, is, segs)

LEMMA ClientGone ==
    ASSUME NEW c, NEW s, NEW ic, NEW is, NEW nc, NEW ns, NEW q, NEW rest, NEW segs,
           ClientTurn(c, s, ic, is, nc, ns, q, ic, rest, segs), ~There(q)
    PROVE  Paired(q, s, ic, is, rest, ns \cup segs)
<1>0. Paired(c, s, ic, is, nc, ns) /\ rest \subseteq nc
  BY DEF ClientTurn
<1>1. q.state = "CLOSED" /\ ~Joined(q) /\ q.state # "SYN_SENT" /\ q.state \notin Synchronized
  BY DEF There, Joined, Synchronized
<1>2. \A g \in segs : ~Plain(g)
  BY <1>1 DEF ClientTurn, Added, Own
<1>3. Account(q, ic, is, ns \cup segs)
  BY <1>2 DEF Account, Present
<1>4. Account(s, is, ic, rest)
  BY <1>0 DEF Paired, Account
<1>5. AcksOfServer(s, ic, is, ns \cup segs)
  BY <1>0, <1>2 DEF Paired, AcksOfServer
<1>6. AcksOfClient(q, ic, is, rest)
  BY DEF AcksOfClient
<1>7. Agreed(q, s, ic, is)
  <2>1. ~(Joined(s) /\ s.rcv >= ic /\ There(q))
    OBVIOUS
  <2>2. QED
    BY <1>1 DEF Agreed
<1>8. ~Misled(q, ic, is, rest)
  BY <1>1 DEF Misled
<1>9. QED
  BY <1>3, <1>4, <1>5, <1>6, <1>7, <1>8 DEF Paired

LEMMA ClientBegins ==
    ASSUME NEW c, NEW s, NEW ic, NEW is, NEW nc, NEW ns, NEW q, NEW n, NEW rest, NEW segs,
           ClientTurn(c, s, ic, is, nc, ns, q, n, rest, segs), n >= ic + Span,
           ~There(c), q.state = "SYN_SENT"
    PROVE  Paired(q, s, n, is, rest, ns \cup segs)
<1>0. /\ Paired(c, s, ic, is, nc, ns) /\ rest \subseteq nc
      /\ ic \in Nat /\ is \in Nat /\ n \in Nat /\ s.rcv \in Nat /\ s.rcv < n
      /\ Span \in Nat /\ Span > 0
  BY StatesConstants DEF ClientTurn, Setting, Simple, Span
<1>1. ~Joined(q) /\ q.state \notin Synchronized
  BY DEF Joined, Synchronized
<1>2. \A g \in ns : Plain(g) => g.seq \in Nat /\ TcpLength(g) \in Nat /\ g.seq + TcpLength(g) < n
  BY <1>0 DEF ClientTurn, Setting, AllRegular, Regular
<1>3. \A g \in nc : Plain(g) => g.ack \in Nat /\ g.ack < n
  BY <1>0 DEF ClientTurn, Setting, AllRegular, Regular
<1>4. \A g \in segs : Plain(g) => /\ g.seq >= n /\ g.seq + TcpLength(g) <= q.nxt
                                  /\ "SYN" \in g.flags => g.seq = n
                                  /\ "ACK" \notin g.flags
  BY DEF ClientTurn, Added, Own
<1>5. Account(q, n, is, ns \cup segs)
  <2>1. \A g \in ns : Plain(g) => ~(g.seq >= n)
    BY <1>0, <1>2
  <2>2. QED
    BY <1>4, <2>1 DEF Account, Present
<1>6. Account(s, is, n, rest)
  <2>1. \A g \in rest : Plain(g) => Present(s, is, ic, g)
    BY <1>0 DEF Paired, Account
  <2>2. \A g \in rest : Plain(g) => ~(g.ack >= n)
    BY <1>0, <1>3
  <2>3. ~(s.rcv >= n)
    BY <1>0
  <2>4. QED
    BY <2>1, <2>2, <2>3 DEF Account, Present
<1>7. AcksOfServer(s, n, is, ns \cup segs)
  BY <1>0 DEF AcksOfServer
<1>8. AcksOfClient(q, n, is, rest)
  BY <1>0, <1>3 DEF AcksOfClient
<1>9. Agreed(q, s, n, is)
  <2>1. ~(s.rcv >= n)
    BY <1>0
  <2>2. QED
    BY <1>1, <2>1 DEF Agreed
<1>10. ~Misled(q, n, is, rest)
  <2>1. \A g \in rest : Plain(g) => ~(g.ack >= n)
    BY <1>0, <1>3
  <2>2. QED
    BY <1>1, <2>1 DEF Misled
<1>11. QED
  BY <1>5, <1>6, <1>7, <1>8, <1>9, <1>10 DEF Paired

LEMMA ClientWaits ==
    ASSUME NEW c, NEW s, NEW ic, NEW is, NEW nc, NEW ns, NEW q, NEW rest, NEW segs,
           ClientTurn(c, s, ic, is, nc, ns, q, ic, rest, segs), Waits(c, q), c.nxt <= q.nxt
    PROVE  Paired(q, s, ic, is, rest, ns \cup segs)
<1>0. /\ Paired(c, s, ic, is, nc, ns) /\ rest \subseteq nc
      /\ Simple("client", c, ic, is) /\ Simple("server", s, is, ic) /\ Simple("client", q, ic, is)
  BY DEF ClientTurn, Setting
<1>1. /\ c.state = "SYN_SENT" /\ q.state = "SYN_SENT" /\ q.rcv = c.rcv /\ q.una = c.una
      /\ c.nxt \in Nat /\ q.nxt \in Nat /\ s.rcv \in Nat
  BY <1>0 DEF Waits, Opening, Simple
<1>2. ~Joined(q) /\ ~Joined(c) /\ q.state \notin Synchronized /\ There(q) /\ There(c)
  BY <1>1 DEF Joined, Synchronized, There
<1>3. \A g \in segs : Plain(g) => /\ g.seq + TcpLength(g) <= q.nxt
                                  /\ "SYN" \in g.flags => g.seq = ic
                                  /\ "ACK" \notin g.flags
  BY <1>1 DEF ClientTurn, Added, Own
<1>4. \A g \in ns : Plain(g) => g.seq \in Nat /\ TcpLength(g) \in Nat
  BY DEF ClientTurn, Setting, AllRegular, Regular
<1>5. Account(q, ic, is, ns \cup segs)
  <2>1. \A g \in ns : Plain(g) => Present(c, ic, is, g)
    BY <1>0 DEF Paired, Account
  <2>2. \A g \in ns : Plain(g) => Present(q, ic, is, g)
    BY <1>1, <1>2, <1>4, <2>1 DEF Present
  <2>3. \A g \in segs : Plain(g) => Present(q, ic, is, g)
    BY <1>3 DEF Present
  <2>4. QED
    BY <2>2, <2>3 DEF Account
<1>6. Account(s, is, ic, rest)
  BY <1>0 DEF Paired, Account
<1>7. AcksOfServer(s, ic, is, ns \cup segs)
  BY <1>0, <1>3 DEF Paired, AcksOfServer
<1>8. AcksOfClient(q, ic, is, rest)
  BY <1>0, <1>1, <1>2 DEF Paired, AcksOfClient
<1>9. Agreed(q, s, ic, is)
  <2>1. Agreed(c, s, ic, is)
    BY <1>0 DEF Paired
  <2>2. There(s) /\ s.rcv >= ic => s.rcv <= q.nxt
    BY <1>1, <1>2, <2>1 DEF Agreed
  <2>3. QED
    BY <1>1, <1>2, <2>1, <2>2 DEF Agreed
<1>10. Misled(q, ic, is, rest) => Unanswered(s, is, ns \cup segs)
  <2>1. Misled(q, ic, is, rest) => Misled(c, ic, is, nc)
    BY <1>0, <1>1, <1>2 DEF Misled
  <2>2. Unanswered(s, is, ns) => Unanswered(s, is, ns \cup segs)
    BY <1>3 DEF Unanswered
  <2>3. QED
    BY <1>0, <2>1, <2>2 DEF Paired
<1>11. QED
  BY <1>5, <1>6, <1>7, <1>8, <1>9, <1>10 DEF Paired

LEMMA ClientAnswered ==
    ASSUME NEW c, NEW s, NEW ic, NEW is, NEW nc, NEW ns, NEW q, NEW rest, NEW segs,
           ClientTurn(c, s, ic, is, nc, ns, q, ic, rest, segs), Answered(c, q, ic, nc),
           c.nxt <= q.nxt
    PROVE  Paired(q, s, ic, is, rest, ns \cup segs)
<1>0. /\ Paired(c, s, ic, is, nc, ns) /\ rest \subseteq nc
      /\ Simple("client", c, ic, is) /\ Simple("server", s, is, ic) /\ Simple("client", q, ic, is)
  BY DEF ClientTurn, Setting
<1>1. /\ c.state = "SYN_SENT" /\ q.state \in Synchronized /\ q.state # "SYN_SENT"
      /\ c.nxt \in Nat /\ q.nxt \in Nat /\ s.rcv \in Nat /\ q.rcv \in Nat /\ s.una \in Nat
      /\ s.nxt \in Nat /\ ic \in Nat /\ is \in Nat
  BY <1>0 DEF Answered, Simple, Synchronized
<1>2. Joined(q) /\ ~Joined(c) /\ There(q) /\ There(c)
  BY <1>1 DEF Joined, Synchronized, There
<1>3. PICK h \in nc : /\ Plain(h) /\ {"SYN", "ACK"} \subseteq h.flags
                      /\ h.ack = ic + 1 /\ q.rcv = h.seq + 1 /\ q.una = ic + 1
  BY DEF Answered
<1>4. /\ h.seq \in Nat /\ TcpLength(h) = 1
      /\ h.seq >= is \/ h.seq + 1 < is
  BY <1>3 DEF ClientTurn, Setting, AllRegular, Regular
<1>5. h.seq >= is /\ There(s) => /\ h.seq + 1 <= s.nxt /\ h.seq = is /\ ic + 1 <= s.rcv /\ s.rcv >= ic
  <2>1. Present(s, is, ic, h)
    BY <1>0, <1>3 DEF Paired, Account
  <2>2. QED
    BY <1>1, <1>3, <1>4, <2>1 DEF Present
<1>6. q.rcv >= is => h.seq >= is
  BY <1>1, <1>3, <1>4
<1>7. Agreed(c, s, ic, is)
  BY <1>0 DEF Paired
<1>8. \A g \in segs : Plain(g) => /\ g.seq >= ic /\ g.seq + TcpLength(g) <= q.nxt
                                  /\ "SYN" \in g.flags => g.seq = ic
                                  /\ "ACK" \in g.flags => g.ack = q.rcv
  BY DEF ClientTurn, Added, Own
<1>9. \A g \in ns : Plain(g) => g.seq \in Nat /\ TcpLength(g) \in Nat
  BY DEF ClientTurn, Setting, AllRegular, Regular
<1>10. Account(q, ic, is, ns \cup segs)
  <2>1. \A g \in ns : Plain(g) => Present(c, ic, is, g)
    BY <1>0 DEF Paired, Account
  <2>2. \A g \in ns : Plain(g) => Present(q, ic, is, g)
    BY <1>1, <1>2, <1>9, <2>1 DEF Present
  <2>3. \A g \in segs : Plain(g) => Present(q, ic, is, g)
    BY <1>1, <1>8 DEF Present
  <2>4. QED
    BY <2>2, <2>3 DEF Account
<1>11. Account(s, is, ic, rest)
  BY <1>0 DEF Paired, Account
<1>12. AcksOfServer(s, ic, is, ns \cup segs)
  BY <1>0, <1>8 DEF Paired, AcksOfServer
<1>13. AcksOfClient(q, ic, is, rest)
  BY <1>0, <1>1, <1>2 DEF Paired, AcksOfClient
<1>14. Agreed(q, s, ic, is)
  <2>1. ~(Joined(s) /\ s.rcv >= ic)
    BY <1>2, <1>7 DEF Agreed
  <2>2. There(s) /\ s.rcv >= ic => s.rcv <= q.nxt
    BY <1>1, <1>2, <1>7 DEF Agreed
  <2>3. There(s) /\ q.rcv >= is => q.rcv <= s.nxt /\ q.una <= s.rcv /\ s.rcv >= ic
    BY <1>3, <1>5, <1>6
  <2>4. s.state = "SYN_RCVD" /\ s.rcv >= ic => s.rcv = ic + 1
    BY <1>2, <1>7 DEF Agreed
  <2>5. s.state \in Active /\ q.rcv >= is /\ s.rcv >= ic => s.una <= q.rcv
    <3>1. s.state \in Active /\ s.rcv >= ic => s.state \in Opening
      BY <2>1 DEF Joined, Active, Opening
    <3>2. s.state \in Opening => s.una = is
      BY <1>0 DEF Simple
    <3>3. QED
      BY <1>1, <3>1, <3>2
  <2>6. QED
    BY <2>1, <2>2, <2>3, <2>4, <2>5 DEF Agreed
<1>15. Misled(q, ic, is, rest) => Unanswered(s, is, ns \cup segs)
  <2> SUFFICES ASSUME Misled(q, ic, is, rest) PROVE Unanswered(s, is, ns \cup segs)
    OBVIOUS
  <2>1. ~(q.rcv >= is)
    BY <1>1 DEF Misled
  <2>2. ~(h.seq >= is) /\ h.ack >= ic
    BY <1>1, <1>3, <1>4, <2>1
  <2>3. Misled(c, ic, is, nc)
    BY <1>1, <1>3, <2>2 DEF Misled
  <2>4. Unanswered(s, is, ns)
    BY <1>0, <2>3 DEF Paired
  <2>5. QED
    BY <1>8, <2>1, <2>4 DEF Unanswered
<1>16. QED
  BY <1>10, <1>11, <1>12, <1>13, <1>14, <1>15 DEF Paired

(* An end that receives does not come to know a connection it did not.     *)
LEMMA ReceivesKnows ==
    ASSUME NEW p, NEW q, NEW in, NEW m \in Nat, NEW n, NEW e, p.rcv \in Nat, q.rcv \in Nat,
           AllRegular(e, in, m, n),
           q.rcv = p.rcv \/ \E g \in in : /\ Plain(g) /\ g.seq = p.rcv /\ TcpLength(g) = 1
                                          /\ q.rcv = p.rcv + 1
    PROVE  q.rcv >= p.rcv /\ (q.rcv >= m <=> p.rcv >= m)
<1>1. CASE q.rcv = p.rcv
  BY <1>1
<1>2. CASE \E g \in in : Plain(g) /\ g.seq = p.rcv /\ TcpLength(g) = 1 /\ q.rcv = p.rcv + 1
  <2>1. PICK g \in in : Plain(g) /\ g.seq = p.rcv /\ TcpLength(g) = 1 /\ q.rcv = p.rcv + 1
    BY <1>2
  <2>2. g.seq >= m \/ g.seq + TcpLength(g) < m
    BY <2>1 DEF AllRegular, Regular
  <2>3. p.rcv >= m \/ p.rcv + 1 < m
    BY <2>1, <2>2
  <2>4. QED
    BY <2>1, <2>3
<1>3. QED
  BY <1>1, <1>2

LEMMA ClientReceives ==
    ASSUME NEW c, NEW s, NEW ic, NEW is, NEW nc, NEW ns, NEW q, NEW rest, NEW segs,
           ClientTurn(c, s, ic, is, nc, ns, q, ic, rest, segs), Receives(c, q, nc),
           c.nxt <= q.nxt
    PROVE  Paired(q, s, ic, is, rest, ns \cup segs)
<1>0. /\ Paired(c, s, ic, is, nc, ns) /\ rest \subseteq nc /\ AllRegular("server", nc, is, ic)
      /\ Simple("client", c, ic, is) /\ Simple("server", s, is, ic) /\ Simple("client", q, ic, is)
  BY DEF ClientTurn, Setting
<1>1. /\ c.nxt \in Nat /\ q.nxt \in Nat /\ s.rcv \in Nat /\ q.rcv \in Nat /\ s.una \in Nat
      /\ s.nxt \in Nat /\ ic \in Nat /\ is \in Nat /\ c.rcv \in Nat /\ c.una \in Nat /\ q.una \in Nat
      /\ c.state # "SYN_RCVD"
  BY <1>0 DEF Simple
<1>2. /\ Joined(q) /\ Joined(c) /\ There(q) /\ There(c) /\ q.state # "SYN_SENT" /\ c.state # "SYN_SENT"
      /\ q.state \in Synchronized => c.state \in Synchronized
  BY <1>1 DEF Receives, Joined, Synchronized, There
<1>3. \/ q.rcv = c.rcv
      \/ \E g \in nc : Plain(g) /\ g.seq = c.rcv /\ TcpLength(g) = 1 /\ q.rcv = c.rcv + 1
  BY DEF Receives
<1>4. q.rcv >= c.rcv /\ (q.rcv >= is <=> c.rcv >= is)
  BY <1>0, <1>1, <1>3, ReceivesKnows
<1>5. Agreed(c, s, ic, is)
  BY <1>0 DEF Paired
<1>6. \A g \in segs : Plain(g) => /\ g.seq >= ic /\ g.seq + TcpLength(g) <= q.nxt
                                  /\ "SYN" \in g.flags => g.seq = ic
                                  /\ "ACK" \in g.flags => g.ack = q.rcv
  BY DEF ClientTurn, Added, Own
<1>7. \A g \in ns : Plain(g) => g.seq \in Nat /\ TcpLength(g) \in Nat /\ g.ack \in Nat
  BY DEF ClientTurn, Setting, AllRegular, Regular
<1>8. \A g \in nc : Plain(g) => Present(s, is, ic, g)
  BY <1>0 DEF Paired, Account
<1>10. Account(q, ic, is, ns \cup segs)
  <2>1. \A g \in ns : Plain(g) => Present(c, ic, is, g)
    BY <1>0 DEF Paired, Account
  <2>2. \A g \in ns : Plain(g) => Present(q, ic, is, g)
    BY <1>1, <1>2, <1>4, <1>7, <2>1 DEF Present
  <2>3. \A g \in segs : Plain(g) => Present(q, ic, is, g)
    BY <1>1, <1>2, <1>6 DEF Present
  <2>4. QED
    BY <2>2, <2>3 DEF Account
<1>11. Account(s, is, ic, rest)
  BY <1>0 DEF Paired, Account
<1>12. AcksOfServer(s, ic, is, ns \cup segs)
  BY <1>0, <1>6 DEF Paired, AcksOfServer
<1>13. AcksOfClient(q, ic, is, rest)
  BY <1>0, <1>2, <1>4 DEF Paired, AcksOfClient
<1>14. Agreed(q, s, ic, is)
  <2>1. There(s) /\ s.rcv >= ic => s.rcv <= q.nxt
    BY <1>1, <1>2, <1>5 DEF Agreed
  <2>2. There(s) /\ q.rcv >= is => q.rcv <= s.nxt
    <3>1. CASE q.rcv = c.rcv
      BY <1>2, <1>4, <1>5, <3>1 DEF Agreed
    <3>2. CASE /\ There(s) /\ q.rcv >= is
               /\ \E g \in nc : Plain(g) /\ g.seq = c.rcv /\ TcpLength(g) = 1 /\ q.rcv = c.rcv + 1
      <4>1. PICK g \in nc : Plain(g) /\ g.seq = c.rcv /\ TcpLength(g) = 1 /\ q.rcv = c.rcv + 1
        BY <3>2
      <4>2. Present(s, is, ic, g) /\ g.seq >= is
        BY <1>4, <1>8, <3>2, <4>1
      <4>3. QED
        BY <3>2, <4>1, <4>2 DEF Present
    <3>3. QED
      BY <1>3, <3>1, <3>2
  <2>3. q.state \in Synchronized /\ There(s) /\ q.rcv >= is => q.una <= s.rcv
    <3> SUFFICES ASSUME q.state \in Synchronized, There(s), q.rcv >= is PROVE q.una <= s.rcv
      OBVIOUS
    <3>1. c.state \in Synchronized /\ c.rcv >= is /\ ic < c.una /\ c.una <= s.rcv
          /\ q.state # "TIME_WAIT"
      BY <1>0, <1>2, <1>4, <1>5 DEF Agreed, Simple, Synchronized
    <3>2. CASE q.una = c.una
      BY <3>1, <3>2
    <3>3. CASE \E g \in nc : Plain(g) /\ "ACK" \in g.flags /\ q.una = g.ack /\ c.una < g.ack
      <4>1. PICK g \in nc : Plain(g) /\ "ACK" \in g.flags /\ q.una = g.ack /\ c.una < g.ack
        BY <3>3
      <4>2. g.ack > ic + 1
        BY <1>1, <3>1, <4>1
      <4>3. g.seq >= is
        BY <1>0, <1>2, <3>1, <4>1, <4>2 DEF Paired, AcksOfClient
      <4>4. g.ack <= s.rcv
        BY <1>8, <4>1, <4>3 DEF Present
      <4>5. QED
        BY <4>1, <4>4
    <3>4. QED
      BY <3>1, <3>2, <3>3 DEF Receives
  <2>4. s.state \in Active /\ q.rcv >= is /\ s.rcv >= ic => s.una <= q.rcv
    BY <1>1, <1>2, <1>4, <1>5 DEF Agreed
  <2>5. QED
    BY <1>2, <1>4, <1>5, <2>1, <2>2, <2>3, <2>4 DEF Agreed
<1>15. Misled(q, ic, is, rest) => Unanswered(s, is, ns \cup segs)
  <2> SUFFICES ASSUME Misled(q, ic, is, rest) PROVE Unanswered(s, is, ns \cup segs)
    OBVIOUS
  <2>1. ~(q.rcv >= is) /\ ~(c.rcv >= is)
    BY <1>2, <1>4 DEF Misled
  <2>2. Misled(c, ic, is, nc)
    BY <1>2, <2>1 DEF Misled
  <2>3. Unanswered(s, is, ns)
    BY <1>0, <2>2 DEF Paired
  <2>4. QED
    BY <1>6, <2>1, <2>3 DEF Unanswered
<1>16. QED
  BY <1>10, <1>11, <1>12, <1>13, <1>14, <1>15 DEF Paired
----------------------------------------------------------------------------
(* What the server does.                                                   *)
ServerTurn(c, s, ic, is, nc, ns, q, n, rest, segs) ==
    /\ Setting(c, s, ic, is, nc, ns) /\ Paired(c, s, ic, is, nc, ns)
    /\ rest \subseteq ns /\ Simple("server", q, n, ic) /\ Added("server", q, n, ic, segs)

LEMMA ServerGone ==
    ASSUME NEW c, NEW s, NEW ic, NEW is, NEW nc, NEW ns, NEW q, NEW rest, NEW segs,
           ServerTurn(c, s, ic, is, nc, ns, q, is, rest, segs), ~There(q)
    PROVE  Paired(c, q, ic, is, nc \cup segs, rest)
<1>0. Paired(c, s, ic, is, nc, ns) /\ rest \subseteq ns
  BY DEF ServerTurn
<1>1. q.state = "CLOSED" /\ ~Joined(q) /\ q.state # "SYN_RCVD" /\ q.state \notin Active
      /\ q.state \notin Synchronized
  BY DEF There, Joined, Active, Synchronized
<1>2. \A g \in segs : ~Plain(g)
  BY <1>1 DEF ServerTurn, Added, Own
<1>3. Account(q, is, ic, nc \cup segs)
  BY <1>2 DEF Account, Present
<1>4. Account(c, ic, is, rest)
  BY <1>0 DEF Paired, Account
<1>5. AcksOfServer(q, ic, is, rest)
  BY DEF AcksOfServer
<1>6. AcksOfClient(c, ic, is, nc \cup segs)
  BY <1>0, <1>2 DEF Paired, AcksOfClient
<1>7. Agreed(c, q, ic, is)
  BY <1>1 DEF Agreed
<1>8. Misled(c, ic, is, nc \cup segs) => Unanswered(q, is, rest)
  <2>1. Misled(c, ic, is, nc \cup segs) => Misled(c, ic, is, nc)
    BY <1>2 DEF Misled
  <2>2. Unanswered(s, is, ns) => Unanswered(q, is, rest)
    BY <1>0, <1>1 DEF Unanswered
  <2>3. QED
    BY <1>0, <2>1, <2>2 DEF Paired
<1>9. QED
  BY <1>3, <1>4, <1>5, <1>6, <1>7, <1>8 DEF Paired

LEMMA ServerBegins ==
    ASSUME NEW c, NEW s, NEW ic, NEW is, NEW nc, NEW ns, NEW q, NEW n, NEW rest, NEW segs,
           ServerTurn(c, s, ic, is, nc, ns, q, n, rest, segs), n >= is + Span,
           ~There(s), q.state = "SYN_RCVD",
           \E g \in ns : Plain(g) /\ "SYN" \in g.flags /\ q.rcv = g.seq + 1
    PROVE  Paired(c, q, ic, n, nc \cup segs, rest)
<1>0. /\ Paired(c, s, ic, is, nc, ns) /\ rest \subseteq ns
      /\ ic \in Nat /\ is \in Nat /\ n \in Nat /\ c.rcv \in Nat /\ c.rcv < n /\ c.nxt \in Nat
      /\ Span \in Nat /\ Span > 0 /\ q.rcv \in Nat
  BY StatesConstants DEF ServerTurn, Setting, Simple, Span
<1>1. ~Joined(q) /\ q.state \notin Synchronized /\ q.state # "SYN_SENT"
  BY DEF Joined, Synchronized
<1>2. \A g \in nc : Plain(g) => g.seq \in Nat /\ TcpLength(g) \in Nat /\ g.seq + TcpLength(g) < n
  BY <1>0 DEF ServerTurn, Setting, AllRegular, Regular
<1>3. \A g \in ns : Plain(g) => g.ack \in Nat /\ g.ack < n
  BY <1>0 DEF ServerTurn, Setting, AllRegular, Regular
<1>4. \A g \in segs : Plain(g) => /\ g.seq >= n /\ g.seq + TcpLength(g) <= q.nxt
                                  /\ "SYN" \in g.flags => g.seq = n
                                  /\ "ACK" \in g.flags /\ g.ack = q.rcv
  BY DEF ServerTurn, Added, Own, Regular
<1>5. PICK h \in ns : Plain(h) /\ "SYN" \in h.flags /\ q.rcv = h.seq + 1
  OBVIOUS
<1>6. h.seq \in Nat /\ TcpLength(h) = 1 /\ (h.seq >= ic \/ h.seq + 1 < ic)
  BY <1>5 DEF ServerTurn, Setting, AllRegular, Regular
<1>7. There(c) /\ h.seq >= ic => h.seq = ic /\ h.seq + 1 <= c.nxt
  <2>1. Present(c, ic, is, h)
    BY <1>0, <1>5 DEF Paired, Account
  <2>2. QED
    BY <1>5, <1>6, <2>1 DEF Present
<1>8. Account(q, n, ic, nc \cup segs)
  <2>1. \A g \in nc : Plain(g) => ~(g.seq >= n)
    BY <1>0, <1>2
  <2>2. QED
    BY <1>0, <1>1, <1>4, <2>1 DEF Account, Present
<1>9. Account(c, ic, n, rest)
  <2>1. \A g \in rest : Plain(g) => Present(c, ic, is, g)
    BY <1>0 DEF Paired, Account
  <2>2. \A g \in rest : Plain(g) => ~(g.ack >= n)
    BY <1>0, <1>3
  <2>3. ~(c.rcv >= n)
    BY <1>0
  <2>4. QED
    BY <2>1, <2>2, <2>3 DEF Account, Present
<1>10. AcksOfServer(q, ic, n, rest)
  BY <1>0, <1>3 DEF AcksOfServer
<1>11. AcksOfClient(c, ic, n, nc \cup segs)
  <2>1. \A g \in nc : Plain(g) /\ g.ack > ic + 1 /\ There(c) => c.state # "SYN_SENT"
    BY <1>0 DEF Paired, AcksOfClient
  <2>2. ~(c.rcv >= n)
    BY <1>0
  <2>3. There(c) => ~(q.rcv > ic + 1)
    BY <1>0, <1>5, <1>6, <1>7
  <2>4. QED
    BY <1>4, <2>1, <2>2, <2>3 DEF AcksOfClient
<1>12. Agreed(c, q, ic, n)
  <2>1. ~(c.rcv >= n)
    BY <1>0
  <2>2. There(c) /\ q.rcv >= ic => q.rcv = ic + 1 /\ q.rcv <= c.nxt
    BY <1>0, <1>5, <1>6, <1>7
  <2>3. QED
    BY <1>1, <2>1, <2>2 DEF Agreed
<1>13. Unanswered(q, n, rest)
  BY <1>0, <1>1, <1>3 DEF Unanswered
<1>14. QED
  BY <1>8, <1>9, <1>10, <1>11, <1>12, <1>13 DEF Paired

LEMMA ServerWaits ==
    ASSUME NEW c, NEW s, NEW ic, NEW is, NEW nc, NEW ns, NEW q, NEW rest, NEW segs,
           ServerTurn(c, s, ic, is, nc, ns, q, is, rest, segs), Waits(s, q), s.nxt <= q.nxt
    PROVE  Paired(c, q, ic, is, nc \cup segs, rest)
<1>0. /\ Paired(c, s, ic, is, nc, ns) /\ rest \subseteq ns
      /\ Simple("client", c, ic, is) /\ Simple("server", s, is, ic) /\ Simple("server", q, is, ic)
  BY DEF ServerTurn, Setting
<1>1. /\ s.state = "SYN_RCVD" /\ q.state = "SYN_RCVD" /\ q.rcv = s.rcv /\ q.una = s.una
      /\ s.nxt \in Nat /\ q.nxt \in Nat /\ s.rcv \in Nat /\ c.rcv \in Nat /\ ic \in Nat
  BY <1>0 DEF Waits, Opening, Simple
<1>2. /\ ~Joined(q) /\ ~Joined(s) /\ q.state \notin Synchronized /\ There(q) /\ There(s)
      /\ q.state # "SYN_SENT" /\ s.state \in Active
  BY <1>1 DEF Joined, Synchronized, There, Active
<1>3. \A g \in segs : Plain(g) => /\ g.seq >= is /\ g.seq + TcpLength(g) <= q.nxt
                                  /\ "SYN" \in g.flags => g.seq = is
                                  /\ "ACK" \in g.flags /\ g.ack = q.rcv
  BY DEF ServerTurn, Added, Own, Regular
<1>4. \A g \in nc : Plain(g) => g.seq \in Nat /\ TcpLength(g) \in Nat
  BY DEF ServerTurn, Setting, AllRegular, Regular
<1>5. Agreed(c, s, ic, is)
  BY <1>0 DEF Paired
<1>6. Account(q, is, ic, nc \cup segs)
  <2>1. \A g \in nc : Plain(g) => Present(s, is, ic, g)
    BY <1>0 DEF Paired, Account
  <2>2. \A g \in nc : Plain(g) => Present(q, is, ic, g)
    BY <1>1, <1>2, <1>4, <2>1 DEF Present
  <2>3. \A g \in segs : Plain(g) => Present(q, is, ic, g)
    BY <1>1, <1>2, <1>3 DEF Present
  <2>4. QED
    BY <2>2, <2>3 DEF Account
<1>7. Account(c, ic, is, rest)
  BY <1>0 DEF Paired, Account
<1>8. AcksOfServer(q, ic, is, rest)
  BY <1>0, <1>1, <1>2 DEF Paired, AcksOfServer
<1>9. AcksOfClient(c, ic, is, nc \cup segs)
  <2>1. There(c) => ~(q.rcv > ic + 1)
    BY <1>1, <1>5 DEF Agreed
  <2>2. QED
    BY <1>0, <1>3, <2>1 DEF Paired, AcksOfClient
<1>10. Agreed(c, q, ic, is)
  <2>1. Joined(c) /\ c.rcv >= is => c.rcv <= q.nxt
    BY <1>1, <1>2, <1>5 DEF Agreed
  <2>2. Joined(c) /\ c.rcv >= is /\ q.rcv >= ic => q.una <= c.rcv
    BY <1>1, <1>2, <1>5 DEF Agreed
  <2>3. QED
    BY <1>1, <1>2, <1>5, <2>1, <2>2 DEF Agreed
<1>11. Misled(c, ic, is, nc \cup segs) => Unanswered(q, is, rest)
  <2>1. Misled(c, ic, is, nc \cup segs) => Misled(c, ic, is, nc)
    BY <1>3 DEF Misled
  <2>2. Unanswered(s, is, ns) => Unanswered(q, is, rest)
    BY <1>0, <1>2 DEF Unanswered
  <2>3. QED
    BY <1>0, <2>1, <2>2 DEF Paired
<1>12. QED
  BY <1>6, <1>7, <1>8, <1>9, <1>10, <1>11 DEF Paired

LEMMA ServerReceives ==
    ASSUME NEW c, NEW s, NEW ic, NEW is, NEW nc, NEW ns, NEW q, NEW rest, NEW segs,
           ServerTurn(c, s, ic, is, nc, ns, q, is, rest, segs), Receives(s, q, ns),
           s.nxt <= q.nxt
    PROVE  Paired(c, q, ic, is, nc \cup segs, rest)
<1>0. /\ Paired(c, s, ic, is, nc, ns) /\ rest \subseteq ns /\ AllRegular("client", ns, ic, is)
      /\ Simple("client", c, ic, is) /\ Simple("server", s, is, ic) /\ Simple("server", q, is, ic)
  BY DEF ServerTurn, Setting
<1>1. /\ c.nxt \in Nat /\ q.nxt \in Nat /\ s.rcv \in Nat /\ q.rcv \in Nat /\ s.una \in Nat
      /\ s.nxt \in Nat /\ ic \in Nat /\ is \in Nat /\ c.rcv \in Nat /\ c.una \in Nat /\ q.una \in Nat
      /\ c.state \in Active \cup {"CLOSED", "TIME_WAIT"} /\ c.state # "SYN_RCVD"
  BY <1>0 DEF Simple
<1>2. /\ Joined(q) /\ There(q) /\ There(s) /\ q.state # "SYN_SENT" /\ s.state # "SYN_SENT"
      /\ q.state # "SYN_RCVD"
      /\ q.state \in Synchronized => s.state \in Synchronized \cup {"SYN_RCVD"}
      /\ Joined(s) \/ s.state = "SYN_RCVD"
  BY DEF Receives, Joined, Synchronized, There
<1>3. \/ q.rcv = s.rcv
      \/ \E g \in ns : Plain(g) /\ g.seq = s.rcv /\ TcpLength(g) = 1 /\ q.rcv = s.rcv + 1
  BY DEF Receives
<1>4. q.rcv >= s.rcv /\ (q.rcv >= ic <=> s.rcv >= ic)
  BY <1>0, <1>1, <1>3, ReceivesKnows
<1>5. Agreed(c, s, ic, is)
  BY <1>0 DEF Paired
<1>6. \A g \in segs : Plain(g) => /\ g.seq >= is /\ g.seq + TcpLength(g) <= q.nxt
                                  /\ "SYN" \in g.flags => g.seq = is
                                  /\ "ACK" \in g.flags /\ g.ack = q.rcv
  BY DEF ServerTurn, Added, Own, Regular
<1>7. \A g \in nc : Plain(g) => g.seq \in Nat /\ TcpLength(g) \in Nat /\ g.ack \in Nat
  BY DEF ServerTurn, Setting, AllRegular, Regular
<1>8. \A g \in ns : Plain(g) => Present(c, ic, is, g)
  BY <1>0 DEF Paired, Account
(* What it takes for new is of a connection of the client's that it knows. *)
<1>9. ASSUME NEW g \in ns, Plain(g), "ACK" \in g.flags, s.una < g.ack, q.state \in Synchronized
             \/ s.state = "SYN_RCVD", s.rcv >= ic
      PROVE  /\ g.seq >= ic /\ g.ack >= is /\ g.ack > is
             /\ There(c) => Joined(c) /\ g.ack <= c.rcv /\ c.rcv >= is
  <2>1. s.una >= is
    BY <1>0, <1>1, <1>2, <1>9 DEF Simple, Opening
  <2>2. g.ack > is /\ g.ack >= is
    <3>1. g.ack \in Nat
      BY <1>0, <1>9 DEF AllRegular, Regular
    <3>2. QED
      BY <1>1, <1>9, <2>1, <3>1
  <2>3. g.seq >= ic
    BY <1>0, <1>2, <1>9, <2>2 DEF Paired, AcksOfServer
  <2>4. There(c) => c.state # "SYN_SENT" /\ g.ack <= c.rcv /\ c.rcv >= is
    BY <1>8, <1>9, <2>2, <2>3 DEF Present
  <2>5. There(c) /\ c.state # "SYN_SENT" => Joined(c)
    BY <1>1 DEF There, Joined, Active
  <2>6. QED
    BY <2>2, <2>3, <2>4, <2>5
(* When it knows the client's connection, that knows its own.              *)
<1>10. s.rcv >= ic /\ There(c) => Joined(c) /\ c.rcv >= is
  <2>1. CASE Joined(s)
    BY <1>5, <2>1 DEF Agreed
  <2>2. CASE s.state = "SYN_RCVD" /\ s.rcv >= ic
    <3>1. PICK g \in ns : Plain(g) /\ "ACK" \in g.flags /\ s.una < g.ack
      BY <2>2 DEF Receives
    <3>2. QED
      BY <1>9, <2>2, <3>1
  <2>3. QED
    BY <1>2, <2>1, <2>2
<1>11. Account(q, is, ic, nc \cup segs)
  <2>1. \A g \in nc : Plain(g) => Present(s, is, ic, g)
    BY <1>0 DEF Paired, Account
  <2>2. \A g \in nc : Plain(g) => Present(q, is, ic, g)
    BY <1>1, <1>2, <1>4, <1>7, <2>1 DEF Present
  <2>3. \A g \in segs : Plain(g) => Present(q, is, ic, g)
    BY <1>1, <1>2, <1>6 DEF Present
  <2>4. QED
    BY <2>2, <2>3 DEF Account
<1>12. Account(c, ic, is, rest)
  BY <1>0 DEF Paired, Account
<1>13. AcksOfServer(q, ic, is, rest)
  BY <1>0, <1>2, <1>4 DEF Paired, AcksOfServer
<1>14. AcksOfClient(c, ic, is, nc \cup segs)
  <2>1. \A g \in segs : Plain(g) /\ g.ack > ic + 1 /\ There(c) => c.state # "SYN_SENT"
    <3>1. \A g \in segs : Plain(g) /\ g.ack > ic + 1 => s.rcv >= ic
      BY <1>1, <1>4, <1>6
    <3>2. Joined(c) => c.state # "SYN_SENT"
      BY DEF Joined, Synchronized
    <3>3. QED
      BY <1>10, <3>1, <3>2
  <2>2. QED
    BY <1>0, <1>6, <2>1 DEF Paired, AcksOfClient
<1>15. Agreed(c, q, ic, is)
  <2>1. There(c) /\ q.rcv >= ic => q.rcv <= c.nxt
    <3>1. CASE q.rcv = s.rcv
      BY <1>2, <1>4, <1>5, <3>1 DEF Agreed
    <3>2. CASE /\ There(c) /\ q.rcv >= ic
               /\ \E g \in ns : Plain(g) /\ g.seq = s.rcv /\ TcpLength(g) = 1 /\ q.rcv = s.rcv + 1
      <4>1. PICK g \in ns : Plain(g) /\ g.seq = s.rcv /\ TcpLength(g) = 1 /\ q.rcv = s.rcv + 1
        BY <3>2
      <4>2. Present(c, ic, is, g) /\ g.seq >= ic
        BY <1>4, <1>8, <3>2, <4>1
      <4>3. QED
        BY <3>2, <4>1, <4>2 DEF Present
    <3>3. QED
      BY <1>3, <3>1, <3>2
  <2>2. Joined(c) /\ c.rcv >= is => c.rcv <= q.nxt /\ q.rcv >= ic
    BY <1>1, <1>2, <1>4, <1>5 DEF Agreed
  <2>3. c.state \in Synchronized /\ c.rcv >= is => c.una <= q.rcv
    BY <1>1, <1>2, <1>4, <1>5 DEF Agreed
  <2>4. q.state \in Active /\ Joined(c) /\ c.rcv >= is /\ q.rcv >= ic => q.una <= c.rcv
    <3> SUFFICES ASSUME q.state \in Active, Joined(c), c.rcv >= is, q.rcv >= ic
                 PROVE  q.una <= c.rcv
      OBVIOUS
    <3>1. q.state \in Synchronized /\ q.state # "TIME_WAIT" /\ There(c) /\ s.rcv >= ic
      BY <1>2, <1>4 DEF Joined, Active, Synchronized, There
    <3>2. CASE s.state # "SYN_RCVD" /\ q.una = s.una
      <4>1. s.state \in Active
        BY <1>2, <3>1, <3>2 DEF Active
      <4>2. QED
        BY <1>5, <3>1, <3>2, <4>1 DEF Agreed
    <3>3. CASE \E g \in ns : Plain(g) /\ "ACK" \in g.flags /\ q.una = g.ack /\ s.una < g.ack
      BY <1>9, <3>1, <3>3
    <3>4. QED
      BY <3>1, <3>2, <3>3 DEF Receives
  <2>5. Joined(q) /\ q.rcv >= ic /\ There(c) => Joined(c) /\ c.rcv >= is
    BY <1>4, <1>10
  <2>6. QED
    BY <1>2, <2>1, <2>2, <2>3, <2>4, <2>5 DEF Agreed
<1>16. Misled(c, ic, is, nc \cup segs) => Unanswered(q, is, rest)
  <2> SUFFICES ASSUME Misled(c, ic, is, nc \cup segs) PROVE Unanswered(q, is, rest)
    OBVIOUS
  <2>1. Misled(c, ic, is, nc)
    BY <1>6 DEF Misled
  <2>2. Unanswered(s, is, ns)
    BY <1>0, <2>1 DEF Paired
  <2>3. q.state \notin Synchronized
    <3> SUFFICES ASSUME q.state \in Synchronized PROVE FALSE
      OBVIOUS
    <3>1. s.state = "SYN_RCVD"
      BY <1>2, <2>2 DEF Unanswered
    <3>2. PICK g \in ns : Plain(g) /\ "ACK" \in g.flags /\ s.una < g.ack
      BY <3>1 DEF Receives, Synchronized
    <3>3. s.una = is /\ g.ack \in Nat
      BY <1>0, <3>1, <3>2 DEF Simple, Opening, AllRegular, Regular
    <3>4. g.ack >= is
      BY <1>1, <3>2, <3>3
    <3>5. QED
      BY <2>2, <3>2, <3>4 DEF Unanswered
  <2>4. QED
    BY <1>0, <2>2, <2>3 DEF Unanswered
<1>17. QED
  BY <1>11, <1>12, <1>13, <1>14, <1>15, <1>16 DEF Paired
----------------------------------------------------------------------------
LEMMA ClientKeeps ==
    ASSUME StatesInv, StatesNumbered, StatesPaired, spaced', Moves("client")
    PROVE  StatesPaired'
<1> DEFINE e == "client"
           c == pcb[e]
           s == pcb["server"]
           ic == first[e]
           is == first["server"]
           nc == net[e]
           ns == net["server"]
<1>1. /\ e \in End /\ "server" \in End /\ Other(e) = "server" /\ "server" # e
  BY DEF End, Other
<1>2. PICK q, rest, segs, h, n : Step(e, q, rest, segs, h, n)
  BY Zenon DEF Moves
<1>3. /\ pcb' = [pcb EXCEPT ![e] = q] /\ net' = [net EXCEPT ![e] = rest, !["server"] = ns \cup segs]
      /\ first' = [first EXCEPT ![e] = n] /\ rest \subseteq nc
      /\ BlockFits(e, q, n) /\ AllSendable(e, q, n, segs)
  BY <1>1, <1>2 DEF Step, Becomes
<1>4. /\ pcb'[e] = q /\ pcb'["server"] = s /\ first'[e] = n /\ first'["server"] = is
      /\ net'[e] = rest /\ net'["server"] = ns \cup segs
  BY <1>1, <1>3 DEF StatesInv
<1>5. /\ n = first[e] \/ n \in Nat
      /\ \/ n = ic /\ q.state = "CLOSED"
         \/ n = ic /\ GoesOn(c, q, n, nc)
         \/ n >= ic + Span /\ c.state = "CLOSED" /\ q.state \in Opening
  BY <1>2 DEF Step
<1>6. ic \in Nat /\ is \in Nat /\ n \in Nat
  BY <1>1, <1>5, EndIs, StatesConstants
<1>7. Simple(e, q, n, is) /\ Added(e, q, n, is, segs)
  <2>1. q.rcv < is + Span
    BY <1>1, <1>2, StepNumbers
  <2>2. \A g \in segs : Plain(g) => Numbered(g, n, is)
    BY <1>1, <1>3, <1>6, <2>1, OwnNumbered DEF AllSendable, Sendable
  <2>3. QED
    BY <1>3, <1>6, <2>1, <2>2, BlockSimple, AddedIs
<1>8. ClientTurn(c, s, ic, is, nc, ns, q, n, rest, segs)
  BY <1>3, <1>7, SettingIs DEF ClientTurn, StatesPaired
<1>9. Paired(q, s, n, is, rest, ns \cup segs)
  <2>1. CASE n = ic /\ q.state = "CLOSED"
    BY <1>8, <2>1, ClientGone DEF There
  <2>2. CASE n = ic /\ GoesOn(c, q, n, nc)
    BY <1>8, <2>2, ClientWaits, ClientAnswered, ClientReceives DEF GoesOn
  <2>3. CASE n >= ic + Span /\ c.state = "CLOSED" /\ q.state \in Opening
    <3>1. q.state = "SYN_SENT"
      BY <1>7, <2>3 DEF Simple, Opening
    <3>2. QED
      BY <1>8, <2>3, <3>1, ClientBegins DEF There
  <2>4. QED
    BY <1>5, <2>1, <2>2, <2>3
<1>10. QED
  BY <1>4, <1>9 DEF StatesPaired

LEMMA ServerKeeps ==
    ASSUME StatesInv, StatesNumbered, StatesPaired, spaced', Moves("server")
    PROVE  StatesPaired'
<1> DEFINE e == "server"
           s == pcb[e]
           c == pcb["client"]
           is == first[e]
           ic == first["client"]
           ns == net[e]
           nc == net["client"]
<1>1. /\ e \in End /\ "client" \in End /\ Other(e) = "client" /\ "client" # e
  BY DEF End, Other
<1>2. PICK q, rest, segs, h, n : Step(e, q, rest, segs, h, n)
  BY Zenon DEF Moves
<1>3. /\ pcb' = [pcb EXCEPT ![e] = q] /\ net' = [net EXCEPT ![e] = rest, !["client"] = nc \cup segs]
      /\ first' = [first EXCEPT ![e] = n] /\ rest \subseteq ns
      /\ BlockFits(e, q, n) /\ AllSendable(e, q, n, segs)
  BY <1>1, <1>2 DEF Step, Becomes
<1>4. /\ pcb'[e] = q /\ pcb'["client"] = c /\ first'[e] = n /\ first'["client"] = ic
      /\ net'[e] = rest /\ net'["client"] = nc \cup segs
  BY <1>1, <1>3 DEF StatesInv
<1>5. /\ n = first[e] \/ n \in Nat
      /\ \/ n = is /\ q.state = "CLOSED"
         \/ n = is /\ GoesOn(s, q, n, ns)
         \/ /\ n >= is + Span /\ s.state = "CLOSED" /\ q.state \in Opening
            /\ q.state = "SYN_RCVD" =>
                 \E g \in ns : Plain(g) /\ "SYN" \in g.flags /\ q.rcv = g.seq + 1
                               /\ "ACK" \notin g.flags
  BY <1>2 DEF Step
<1>6. ic \in Nat /\ is \in Nat /\ n \in Nat
  BY <1>1, <1>5, EndIs, StatesConstants
<1>7. Simple(e, q, n, ic) /\ Added(e, q, n, ic, segs)
  <2>1. q.rcv < ic + Span
    BY <1>1, <1>2, StepNumbers
  <2>2. \A g \in segs : Plain(g) => Numbered(g, n, ic)
    BY <1>1, <1>3, <1>6, <2>1, OwnNumbered DEF AllSendable, Sendable
  <2>3. QED
    BY <1>3, <1>6, <2>1, <2>2, BlockSimple, AddedIs
<1>8. ServerTurn(c, s, ic, is, nc, ns, q, n, rest, segs)
  BY <1>3, <1>7, SettingIs DEF ServerTurn, StatesPaired
<1>9. Paired(c, q, ic, n, nc \cup segs, rest)
  <2>1. CASE n = is /\ q.state = "CLOSED"
    BY <1>8, <2>1, ServerGone DEF There
  <2>2. CASE n = is /\ GoesOn(s, q, n, ns)
    <3>1. ~Answered(s, q, n, ns)
      BY <1>8 DEF Answered, ServerTurn, Setting, Simple
    <3>2. QED
      BY <1>8, <2>2, <3>1, ServerWaits, ServerReceives DEF GoesOn
  <2>3. CASE /\ n >= is + Span /\ s.state = "CLOSED" /\ q.state \in Opening
             /\ q.state = "SYN_RCVD" =>
                  \E g \in ns : Plain(g) /\ "SYN" \in g.flags /\ q.rcv = g.seq + 1
                                /\ "ACK" \notin g.flags
    <3>1. q.state = "SYN_RCVD"
      BY <1>7, <2>3 DEF Simple, Opening
    <3>2. \E g \in ns : Plain(g) /\ "SYN" \in g.flags /\ q.rcv = g.seq + 1
      BY <2>3, <3>1
    <3>3. QED
      BY <1>8, <2>3, <3>1, <3>2, ServerBegins DEF There
  <2>4. QED
    BY <1>5, <2>1, <2>2, <2>3
<1>10. QED
  BY <1>4, <1>9 DEF StatesPaired

(* What the network loses is missed by nobody.                             *)
LEMMA LostPaired ==
    ASSUME StatesInv, StatesNumbered, StatesPaired, NEW e \in End, Lost(e)
    PROVE  StatesNumbered' /\ StatesPaired' /\ (spaced' => spaced)
<1>1. net' \in [End -> SUBSET Segment] /\ \A d \in End : net'[d] \subseteq net[d]
  <2>1. PICK s \in net[e] : net' = [net EXCEPT ![e] = net[e] \ {s}]
    BY DEF Lost
  <2>2. net \in [End -> SUBSET Segment]
    BY DEF StatesInv
  <2>3. QED
    BY <2>1, <2>2
<1>2. UNCHANGED <<pcb, first, spaced>>
  BY DEF Lost, numbers
<1>3. "client" \in End /\ "server" \in End
  BY DEF End
<1>4. ASSUME NEW c, NEW s, NEW ic, NEW is, NEW nc, NEW ns, Paired(c, s, ic, is, nc, ns),
             NEW mc, NEW ms, mc \subseteq nc, ms \subseteq ns
      PROVE  Paired(c, s, ic, is, mc, ms)
  <2>1. Account(c, ic, is, ms) /\ Account(s, is, ic, mc)
    BY <1>4 DEF Paired, Account
  <2>2. AcksOfServer(s, ic, is, ms) /\ AcksOfClient(c, ic, is, mc)
    BY <1>4 DEF Paired, AcksOfServer, AcksOfClient
  <2>3. Misled(c, ic, is, mc) => Misled(c, ic, is, nc)
    BY <1>4 DEF Misled
  <2>4. Unanswered(s, is, ns) => Unanswered(s, is, ms)
    BY <1>4 DEF Unanswered
  <2>5. QED
    BY <1>4, <2>1, <2>2, <2>3, <2>4 DEF Paired
<1>5. StatesPaired'
  BY <1>1, <1>2, <1>3, <1>4 DEF StatesPaired
<1>6. StatesNumbered'
  <2>1. \A d \in End : Other(d) \in End
    BY Ends
  <2>2. QED
    BY <1>1, <1>2, <2>1 DEF StatesNumbered
<1>7. QED
  BY <1>2, <1>5, <1>6

LEMMA PairedBegins == StatesInit => StatesNumbered /\ StatesPaired
<1> SUFFICES ASSUME StatesInit PROVE StatesNumbered /\ StatesPaired
  OBVIOUS
<1>1. net["client"] = {} /\ net["server"] = {} /\ \A e \in End : net[e] = {}
  BY DEF StatesInit, End
<1>2. pcb["client"] = NoPcb /\ pcb["server"] \in {NoPcb, HalfOpen}
      /\ (pcb["server"] = HalfOpen => first["client"] = Iss0)
      /\ \A e \in End : first[e] \in Nat
  <2>1. NoPcb.state = "CLOSED"
    BY DEF NoPcb
  <2>2. HalfOpen # NoPcb
    BY <2>1, HalfOpenIs
  <2>3. QED
    BY <2>2, StatesConstants DEF StatesInit, End
<1>3. NoPcb.state = "CLOSED" /\ NoPcb.rcv = 0
  BY DEF NoPcb
<1>4. StatesNumbered
  <2>1. Span \in Nat /\ Span > 1 /\ Iss0 \in Nat
    BY StatesConstants DEF Span
  <2>2. /\ "client" \in End /\ "server" \in End
        /\ Other("client") = "server" /\ Other("server") = "client"
    BY DEF End, Other
  <2>3. pcb["client"].rcv < first["server"] + Span
    BY <1>2, <1>3, <2>1, <2>2
  <2>4. pcb["server"].rcv < first["client"] + Span
    BY <1>2, <1>3, <2>1, <2>2, HalfOpenIs
  <2>5. \A e \in End : net[Other(e)] = {}
    BY <1>1, Ends
  <2>6. \A e \in End : pcb[e].rcv < first[Other(e)] + Span
    BY <2>2, <2>3, <2>4 DEF End
  <2>7. QED
    BY <2>5, <2>6 DEF StatesNumbered
<1> DEFINE c == pcb["client"]
           s == pcb["server"]
           ic == first["client"]
           is == first["server"]
<1>5. ~There(c) /\ ~Joined(c) /\ c.state # "SYN_SENT" /\ c.state \notin Synchronized
  BY <1>2, <1>3 DEF There, Joined, Synchronized
<1> HIDE DEF c, s, ic, is
<1>6. Account(c, ic, is, {}) /\ Account(s, is, ic, {}) /\ AcksOfServer(s, ic, is, {})
      /\ AcksOfClient(c, ic, is, {})
  BY DEF Account, AcksOfServer, AcksOfClient
<1>7. Agreed(c, s, ic, is)
  BY <1>5 DEF Agreed
<1>8. ~Misled(c, ic, is, {})
  BY <1>5 DEF Misled
<1>9. Paired(c, s, ic, is, {}, {})
  BY <1>6, <1>7, <1>8 DEF Paired
<1>10. QED
  BY <1>1, <1>4, <1>9 DEF StatesPaired, c, s, ic, is

(* tcp_in.c, tcp_out.c, tcp.c: the ends are in step as long as no          *)
(* connection began with a number that its end might have used before;     *)
(* handles are valid, acknowledged data is counted once, and none is lost  *)
(* unnoticed, whatever the numbers.                                        *)
THEOREM StatesInStep == StatesSpec => []StatesKept
<1> DEFINE InTouch == spaced => StatesNumbered /\ StatesPaired
<1>1. StatesInv /\ InTouch /\ [StatesNext]_statesVars => InTouch'
  <2> SUFFICES ASSUME StatesInv, InTouch, [StatesNext]_statesVars, spaced'
               PROVE  StatesNumbered' /\ StatesPaired'
    OBVIOUS
  <2>1. CASE StatesNext
    <3>1. PICK e \in End : Moves(e) \/ Lost(e)
      BY <2>1, NextMoves
    <3>2. CASE Moves(e)
      <4>1. PICK q, rest, segs, h, n : Step(e, q, rest, segs, h, n)
        BY <3>2, Zenon DEF Moves
      <4>2. spaced
        BY <4>1, Zenon DEF Step
      <4>3. StatesNumbered'
        BY <4>1, <4>2, NumberedKeeps
      <4>4. StatesPaired'
        BY <3>2, <4>2, ClientKeeps, ServerKeeps DEF End
      <4>5. QED
        BY <4>3, <4>4
    <3>3. CASE Lost(e)
      <4>1. spaced
        BY <3>3, Zenon DEF Lost, numbers
      <4>2. QED
        BY <3>3, <4>1, LostPaired
    <3>4. QED
      BY <3>1, <3>2, <3>3
  <2>2. CASE UNCHANGED statesVars
    BY <2>2 DEF statesVars, StatesNumbered, StatesPaired
  <2>3. QED
    BY <2>1, <2>2
<1>2. StatesInv /\ StatesNumbered /\ StatesPaired => InStep
  <2> SUFFICES ASSUME StatesInv, StatesNumbered, StatesPaired PROVE InStep
    OBVIOUS
  <2> DEFINE c == pcb["client"]
             s == pcb["server"]
             ic == first["client"]
             is == first["server"]
  <2>1. Simple("client", c, ic, is) /\ Simple("server", s, is, ic)
    BY SettingIs DEF Setting
  <2>2. Paired(c, s, ic, is, net["client"], net["server"])
    BY DEF StatesPaired
  <2> SUFFICES ASSUME c.state \in Synchronized, s.state \in Synchronized
               PROVE  s.rcv \in c.una .. c.nxt /\ c.rcv \in s.una .. s.nxt
    BY DEF InStep
  <2> HIDE DEF c, s, ic, is
  <2>3. Joined(c) /\ There(c) /\ There(s) /\ s.state \in Active
    BY DEF Joined, There, Synchronized, Active
  <2>4. c.rcv >= is
    BY <2>2, <2>3 DEF Paired, Misled, Unanswered
  <2>5. s.rcv >= ic /\ s.rcv <= c.nxt /\ c.rcv <= s.nxt /\ c.una <= s.rcv /\ s.una <= c.rcv
    BY <2>2, <2>3, <2>4 DEF Paired, Agreed
  <2>6. QED
    BY <2>1, <2>5 DEF Simple
<1>3. StatesInit => InTouch
  BY PairedBegins
<1>4. StatesInv /\ InTouch => (spaced => InStep)
  BY <1>2
<1>5. StatesSpec => []InTouch
  BY <1>1, <1>3, StatesSound, PTL DEF StatesSpec
<1>6. StatesSpec => [](spaced => InStep)
  BY <1>4, <1>5, StatesSound, PTL
<1>7. QED
  BY <1>6, HandlesKept, PTL DEF StatesKept
=============================================================================
