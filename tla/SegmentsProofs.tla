--------------------------- MODULE SegmentsProofs ---------------------------
(***************************************************************************)
(* Proofs about the transfer of data over one TCP connection, for any      *)
(* amount of data, writes, segments and windows of any size, and any       *)
(* number of frames lost, doubled or overtaken.                            *)
(*                                                                         *)
(* Sequence numbers wrap; the proofs speak of how far one is from the      *)
(* first, At(v), which does not, and the first lemmas say that the code's  *)
(* comparisons agree with it.  SegmentsInv is what is proved by induction. *)
(* It is shown of a queue first, then of the sender's block through        *)
(* tcp_output, tcp_write, tcp_slowtmr and tcp_close, of the probe and of   *)
(* what the network does, of the receiver, and last of an acknowledgement, *)
(* which touches all of it.  At the end, each step is shown to be one of   *)
(* the stream of TcpStream, or not seen there.                             *)
(***************************************************************************)
EXTENDS TcpSegments, NumberLemmas, SequenceTheorems, FiniteSetTheorems

(* The oldest segment is not beyond what a fast retransmission leaves of   *)
(* the congestion window: either because no segment is, or so far.         *)
Room(s) == s.unacked # <<>> => Reach(s, s.unacked[1]) <= 5 * mss
OldestFits == ~tcp.dead => Room(tcp)

(* So it is whenever the send buffer is small.                             *)
SegmentsRoom == TCP_SND_BUF <= 5 * mss

(* How far a sequence number is from the first; where a segment ends.      *)
Number == 0 .. SeqSpace - 1
At(v) == Ahead(v, FirstSeq)
DataEnd(seg) == At(seg.seq) + Len(seg.data)
End(seg) == At(seg.seq) + TcpLen(seg)

Segments == [seq : Number, data : Seq(Nat), fin : BOOLEAN, moved : BOOLEAN]
FrameSet == [seq : Number, data : Seq(Nat), fin : BOOLEAN]

ControlBlock ==
    [unsent : Seq(Segments), unacked : Seq(Segments), snd_nxt : Number, lastack : Number,
     snd_lbb : Number, snd_buf : Int, oversize : Nat, snd_wnd : Nat, snd_wl2 : Number,
     cwnd : Nat \ {0}, ssthresh : Nat \ {0}, dupacks : Nat, nrtx : Nat, running : BOOLEAN, persist : BOOLEAN,
     memerr : BOOLEAN, infr : BOOLEAN, tf_fin : BOOLEAN, closed : BOOLEAN, dead : BOOLEAN]

PeerBlock ==
    [rcv_nxt : Number, rcv_wnd : Nat, ann_wnd : Nat, ann_edge : Number, ack_delay : BOOLEAN,
     unread : Nat]

AckSet == [ack : Number, wnd : Nat]

SegmentsTyped ==
    /\ tcp \in ControlBlock /\ peer \in PeerBlock /\ wire \in Seq(FrameSet) /\ acks \in Seq(AckSet)
    /\ written \in 0 .. Units /\ reported \in Nat /\ received \in Seq(Nat) /\ eof \in BOOLEAN

(* Where a stream of w units ends, with its FIN if it is closed.           *)
Edge(w, closed) == w + (IF closed THEN 1 ELSE 0)

(* A segment is a piece of the stream, and a FIN is its end; `other` is    *)
(* what may stand in the place of a unit.                                  *)
PieceOf(g, other, w, closed) ==
    /\ DataEnd(g) <= w
    /\ \A i \in 1 .. Len(g.data) : g.data[i] \in {At(g.seq) + i} \cup other
    /\ g.data # <<>> \/ g.fin
    /\ g.fin => closed /\ DataEnd(g) = w

(* A queue is in one piece, from an acknowledgement to the end.            *)
Tiled(q, from, w, closed) ==
    /\ \A i \in 1 .. Len(q) : PieceOf(q[i], {}, w, closed)
    /\ \A i, j \in 1 .. Len(q) : j = i + 1 => End(q[i]) = At(q[j].seq)
    /\ q # <<>> => /\ At(q[1].seq) <= from /\ from < End(q[1])
                   /\ End(q[Len(q)]) = Edge(w, closed)
    /\ q = <<>> => from = Edge(w, closed)

Queue(s) == s.unacked \o s.unsent

(* A segment that was sent, and the window it was sent in.                 *)
WasSent(s, g) == End(g) <= At(s.snd_nxt) /\ DataEnd(g) <= At(s.lastack) + s.snd_wnd

(* What the sender knows, w units being written.                           *)
Counts(s, w) ==
    /\ w <= Units /\ w <= At(s.lastack) + TCP_SND_BUF
    /\ ~s.closed => At(s.snd_lbb) = w /\ s.snd_buf + w = TCP_SND_BUF + At(s.lastack)
    /\ At(s.lastack) <= At(s.snd_nxt) /\ At(s.snd_nxt) <= Edge(w, s.closed)

SenderFits(s, w) ==
    /\ Counts(s, w)
    /\ Tiled(Queue(s), At(s.lastack), w, s.closed)
    /\ \A i \in 1 .. Len(s.unacked) : WasSent(s, s.unacked[i])
    /\ s.unacked # <<>> => s.running

(* Windows are announced further and further.                              *)
Announced(ack, wnd, p) ==
    At(ack) <= At(p.rcv_nxt) /\ At(ack) + wnd <= At(p.ann_edge)

NotBefore(ack, wnd, a) == At(ack) < At(a.ack) => At(ack) + wnd <= At(a.ack) + a.wnd

AcksFit(q, p) ==
    \A i \in 1 .. Len(q) :
        /\ Announced(q[i].ack, q[i].wnd, p)
        /\ \A j \in 1 .. Len(q) : NotBefore(q[i].ack, q[i].wnd, q[j])

PeerFits(p) ==
    /\ At(p.ann_edge) <= At(p.rcv_nxt) + p.ann_wnd
    /\ p.ann_wnd <= TCP_WND /\ p.rcv_wnd <= TCP_WND

WindowFits(s, p, q) ==
    /\ At(s.lastack) <= At(s.snd_wl2)
    /\ At(s.lastack) <= At(p.rcv_nxt)
    /\ Announced(s.snd_wl2, s.snd_wnd, p)
    /\ \A i \in 1 .. Len(q) : NotBefore(s.snd_wl2, s.snd_wnd, q[i])
    /\ At(s.snd_nxt) <= At(p.ann_edge) + (IF s.closed THEN 1 ELSE 0)

(* A probe may be one ahead of what was sent: then nothing is under way.   *)
Follows(n, s) ==
    \/ n <= At(s.snd_nxt)
    \/ n = At(s.snd_nxt) + 1 /\ s.unacked = <<>> /\ At(s.lastack) = At(s.snd_nxt)
    \/ s.dead

FramesFit(q, s, w) ==
    \A i \in 1 .. Len(q) : PieceOf(q[i], {HeaderByte}, w, s.closed) /\ Follows(End(q[i]), s)

Taken(p, r, e, s, w) ==
    /\ At(p.rcv_nxt) = Len(r) + (IF e THEN 1 ELSE 0)
    /\ Len(r) <= w /\ Follows(At(p.rcv_nxt), s)
    /\ \A i \in 1 .. Len(r) : r[i] \in {i, HeaderByte}
    /\ e => s.closed /\ Len(r) = w

Told(s, w, n) == n = IF At(s.lastack) > w THEN w ELSE At(s.lastack)

(* What is under way has its timer, after the connection was given up too. *)
Timed(s) == s.unacked # <<>> => s.running

SegmentsInv ==
    /\ SegmentsTyped
    /\ ~tcp.dead => SenderFits(tcp, written)
    /\ Timed(tcp)
    /\ Counts(tcp, written)
    /\ WindowFits(tcp, peer, acks) /\ AcksFit(acks, peer) /\ PeerFits(peer)
    /\ FramesFit(wire, tcp, written)
    /\ Taken(peer, received, eof, tcp, written)
    /\ Told(tcp, written, reported)
-----------------------------------------------------------------------------
(* Numbers: how far apart two of them may be.                              *)
Limit == Units + 2 * TCP_WND

LEMMA SegmentsConstants ==
    /\ Units \in Nat /\ mss \in Nat \ {0} /\ TCP_MSS \in Nat \ {0} /\ TCP_SND_BUF \in Nat
    /\ TCP_WND \in Nat \ {0} /\ TCP_MAXRTX \in Nat \ {0} /\ SeqSpace \in Nat \ {0}
    /\ MaxFaults \in Nat /\ WriteSizes \subseteq Nat \ {0} /\ mss <= TCP_MSS
    /\ TCP_WND >= 2 /\ TCP_SND_BUF <= TCP_WND
    /\ FirstSeq \in Number /\ Limit \in Nat /\ Limit > Units + TCP_WND + 1
    /\ SeqSpace > 2 * Limit /\ SeqSpace \div 2 >= Limit /\ SeqSpace - (SeqSpace \div 2) >= Limit
    /\ SeqSpace \div 2 \in Nat
<1>1. {Units, mss, TCP_MSS, TCP_SND_BUF, TCP_WND, TCP_MAXRTX, SeqSpace, MaxFaults} \subseteq Nat
  BY SegmentsAssumption
<1>2. Units \in Nat /\ mss \in Nat /\ TCP_MSS \in Nat /\ TCP_SND_BUF \in Nat /\ TCP_WND \in Nat
      /\ TCP_MAXRTX \in Nat /\ SeqSpace \in Nat /\ MaxFaults \in Nat
  BY <1>1
<1>3. QED
  BY <1>2, SegmentsAssumption DEF FirstSeq, Number, Limit
-----------------------------------------------------------------------------
(* Sequence numbers by how far they are from the first.                    *)
LEMMA AtTyped ==
    ASSUME NEW x \in Int
    PROVE  At(x) \in Number /\ At(x) \in Nat /\ x % SeqSpace \in Number /\ At(x % SeqSpace) = At(x)
<1>1. SeqSpace \in Nat \ {0} /\ FirstSeq \in Int
  BY SegmentsConstants DEF Number
<1>2. At(x) = (x - FirstSeq) % SeqSpace /\ At(x % SeqSpace) = ((x % SeqSpace) - FirstSeq) % SeqSpace
  BY DEF At, Ahead
<1>3. ((x % SeqSpace) - FirstSeq) % SeqSpace = (x - FirstSeq) % SeqSpace
  BY <1>1, RemainderOf
<1>4. x - FirstSeq \in Int
  BY <1>1
<1>5. (x - FirstSeq) % SeqSpace \in 0 .. SeqSpace - 1 /\ x % SeqSpace \in 0 .. SeqSpace - 1
  BY <1>1, <1>4, IntEuclid
<1>6. QED
  BY <1>1, <1>2, <1>3, <1>5 DEF Number

LEMMA AtPlus ==
    ASSUME NEW x \in Int, NEW k \in Int, At(x) + k \in Number
    PROVE  At(x + k) = At(x) + k /\ At((x + k) % SeqSpace) = At(x) + k
<1> DEFINE t == x - FirstSeq
           y == x + k - FirstSeq
<1>1. SeqSpace \in Nat \ {0} /\ FirstSeq \in Int
  BY SegmentsConstants DEF Number
<1>2. At(x) = t % SeqSpace /\ t \in Int /\ y = t + k /\ At(x + k) = y % SeqSpace
  BY <1>1 DEF At, Ahead
<1> HIDE DEF t, y
<1>3. (t % SeqSpace) + k \in 0 .. SeqSpace - 1
  BY <1>2 DEF Number
<1>4. (t + k) % SeqSpace = (t % SeqSpace) + k
  BY <1>1, <1>2, <1>3, SameRemainder
<1>5. At(x + k) = At(x) + k
  BY <1>2, <1>4
<1>6. At((x + k) % SeqSpace) = At(x + k)
  BY AtTyped
<1>7. QED
  BY <1>5, <1>6

LEMMA AtFirst == At(FirstSeq) = 0
<1>1. SeqSpace \in Nat \ {0} /\ FirstSeq \in Int
  BY SegmentsConstants DEF Number
<1>2. At(FirstSeq) = 0 % SeqSpace
  BY <1>1 DEF At, Ahead
<1>3. 0 % SeqSpace = 0
  BY <1>1, OneRemainder
<1>4. QED
  BY <1>2, <1>3

LEMMA AheadIs ==
    ASSUME NEW x \in Int, NEW y \in Int
    PROVE  Ahead(x, y) = IF At(y) <= At(x) THEN At(x) - At(y) ELSE At(x) - At(y) + SeqSpace
<1> DEFINE t == x - FirstSeq
           u == y - FirstSeq
           k == -At(y)
           r == u \div SeqSpace
<1>1. SeqSpace \in Nat \ {0} /\ FirstSeq \in Int
  BY SegmentsConstants DEF Number
<1>2. /\ At(x) = t % SeqSpace /\ t \in Int /\ u \in Int /\ At(y) = u % SeqSpace
      /\ Ahead(x, y) = (x - y) % SeqSpace /\ x - y = t - u
  BY <1>1 DEF At, Ahead
<1>3. At(x) \in 0 .. SeqSpace - 1 /\ At(y) \in 0 .. SeqSpace - 1 /\ k \in Int
  BY AtTyped DEF Number
<1> HIDE DEF t, u, k
<1>4. (t % SeqSpace) + k \in 0 .. SeqSpace - 1 => (t + k) % SeqSpace = (t % SeqSpace) + k
  BY <1>1, <1>2, <1>3, SameRemainder
<1>5. (t % SeqSpace) + k \in -SeqSpace .. -1 => (t + k) % SeqSpace = (t % SeqSpace) + k + SeqSpace
  BY <1>1, <1>2, <1>3, RemainderOver
<1>6. (t + k) % SeqSpace = (t - u) % SeqSpace
  <2>1. ((u % SeqSpace) - t) % SeqSpace = (u - t) % SeqSpace
    BY <1>1, <1>2, RemainderOf
  <2>2. (t - (u % SeqSpace)) = t - u + SeqSpace * r /\ r \in Int
    <3>1. u = SeqSpace * (u \div SeqSpace) + (u % SeqSpace) /\ u \div SeqSpace \in Int
          /\ u % SeqSpace \in Int
      BY <1>1, <1>2, IntEuclid
    <3> DEFINE m == SeqSpace * r
               w == u % SeqSpace
    <3>2. u = m + w /\ r \in Int /\ w \in Int
      BY <3>1
    <3>3. m \in Int
      BY <1>1, <3>2
    <3> HIDE DEF m, w, r
    <3>4. t - w = t - u + m
      BY <1>2, <3>2, <3>3
    <3>5. QED
      BY <3>2, <3>4 DEF m, w
  <2> DEFINE a == t - u
             q == a \div SeqSpace
             z == a % SeqSpace
             b == q + r
             c == t + k
  <2> HIDE DEF r
  <2>3. a = SeqSpace * q + z /\ q \in Int /\ z \in 0 .. SeqSpace - 1
    <3>1. a \in Int
      BY <1>2
    <3> HIDE DEF a
    <3>2. QED
      BY <1>1, <3>1, IntEuclid
  <2>4. c = t - (u % SeqSpace) /\ c \in Int
    BY <1>2, <1>3 DEF k
  <2> HIDE DEF a, q, z, c
  <2>5. SeqSpace * (q + r) = SeqSpace * q + SeqSpace * r
    BY <1>1, <2>2, <2>3
  <2>6. c = SeqSpace * b + z /\ b \in Int
    <3>1. c = a + SeqSpace * r
      BY <2>2, <2>4 DEF a
    <3>2. SeqSpace * q \in Int /\ SeqSpace * r \in Int
      BY <1>1, <2>2, <2>3
    <3>3. QED
      BY <2>2, <2>3, <2>5, <3>1, <3>2
  <2> HIDE DEF b
  <2>61. /\ SeqSpace \in Nat \ {0} /\ b \in Int /\ z \in 0 .. SeqSpace - 1 /\ c \in Int
         /\ c = SeqSpace * b + z
    BY <1>1, <2>3, <2>4, <2>6, Zenon
  <2>7. c % SeqSpace = z
    BY ONLY <2>61, OneRemainder
  <2>8. QED
    BY <2>7 DEF c, z, a
<1> DEFINE A == Ahead(x, y)
           X == t % SeqSpace
           Y == (t + k) % SeqSpace
<1>7. A = Y
  BY <1>2, <1>6
<1>8. X = At(x) /\ k = -At(y)
  BY <1>2 DEF k
<1>9. (X + k \in 0 .. SeqSpace - 1 => A = X + k) /\ (X + k \in -SeqSpace .. -1 => A = X + k + SeqSpace)
  BY <1>4, <1>5, <1>7
<1> HIDE DEF A, X, Y
<1>10. A = IF At(y) <= At(x) THEN At(x) - At(y) ELSE At(x) - At(y) + SeqSpace
  BY <1>1, <1>3, <1>8, <1>9
<1>11. QED
  BY <1>10 DEF A

(* The comparisons, for what is within reach of each other.                *)
LEMMA SeqLtIs ==
    ASSUME NEW x \in Int, NEW y \in Int, At(x) - At(y) <= Limit - 1, At(y) - At(x) <= Limit
    PROVE  SeqLt(x, y) <=> At(x) < At(y)
<1> DEFINE A == Ahead(x, y)
<1>1. At(x) \in Nat /\ At(y) \in Nat
  BY AtTyped
<1>2. A = IF At(y) <= At(x) THEN At(x) - At(y) ELSE At(x) - At(y) + SeqSpace
  BY AheadIs
<1>3. SeqLt(x, y) <=> A >= SeqSpace \div 2
  BY DEF SeqLt
<1> HIDE DEF A
<1>4. QED
  BY <1>1, <1>2, <1>3, SegmentsConstants

LEMMA SeqLeqIs ==
    ASSUME NEW x \in Int, NEW y \in Int, At(x) - At(y) <= Limit - 1, At(y) - At(x) <= Limit
    PROVE  SeqLeq(x, y) <=> At(x) <= At(y)
<1> DEFINE A == Ahead(x, y)
<1>1. At(x) \in Nat /\ At(y) \in Nat /\ At(x) < SeqSpace /\ At(y) < SeqSpace
  <2>1. At(x) \in Number /\ At(y) \in Number
    BY AtTyped
  <2>2. SeqSpace \in Nat
    BY SegmentsConstants
  <2>3. QED
    BY <2>1, <2>2 DEF Number
<1>2. A = IF At(y) <= At(x) THEN At(x) - At(y) ELSE At(x) - At(y) + SeqSpace
  BY AheadIs
<1>3. SeqLeq(x, y) <=> A = 0 \/ At(x) < At(y)
  BY SeqLtIs DEF SeqLeq
<1> HIDE DEF A
<1>4. QED
  BY <1>1, <1>2, <1>3, SegmentsConstants
-----------------------------------------------------------------------------
(* The least and the greatest of two.                                      *)
LEMMA MinIs ==
    ASSUME NEW a \in Int, NEW b \in Int
    PROVE  Min({a, b}) = IF a <= b THEN a ELSE b
<1> DEFINE m == IF a <= b THEN a ELSE b
<1>1. \E x \in {a, b} : \A y \in {a, b} : x =< y
  <2>1. m \in {a, b} /\ \A y \in {a, b} : m =< y
    OBVIOUS
  <2>2. QED
    BY <2>1
<1>2. Min({a, b}) \in {a, b} /\ \A y \in {a, b} : Min({a, b}) =< y
  BY ONLY <1>1, Zenon DEF Min
<1>3. QED
  BY <1>2

LEMMA MaxIs ==
    ASSUME NEW a \in Int, NEW b \in Int
    PROVE  Max({a, b}) = IF a >= b THEN a ELSE b
<1> DEFINE m == IF a >= b THEN a ELSE b
<1>1. \E x \in {a, b} : \A y \in {a, b} : x >= y
  <2>1. m \in {a, b} /\ \A y \in {a, b} : m >= y
    OBVIOUS
  <2>2. QED
    BY <2>1
<1>2. Max({a, b}) \in {a, b} /\ \A y \in {a, b} : Max({a, b}) >= y
  BY ONLY <1>1, Zenon DEF Max
<1>3. QED
  BY <1>2

(* How many of the first are in P: all before are, the next is not.        *)
LEMMA LeadingIs ==
    ASSUME NEW n \in Nat, NEW P, P \subseteq 1 .. n
    PROVE  /\ Leading(n, P) \in 0 .. n
           /\ \A i \in 1 .. Leading(n, P) : i \in P
           /\ Leading(n, P) < n => Leading(n, P) + 1 \notin P
<1> DEFINE R == (1 .. (n + 1)) \ P
<1>1. n + 1 \in R /\ R \in SUBSET Nat /\ R # {}
  OBVIOUS
<1>2. \E x \in R : \A y \in R : x <= y
  BY <1>1, LeastNat
<1>3. Min(R) \in R /\ \A y \in R : Min(R) =< y
  BY ONLY <1>2, Zenon DEF Min
<1>4. Leading(n, P) = Min(R) - 1
  BY DEF Leading
<1> DEFINE m == Min(R)
<1>5. m \in R /\ (\A y \in R : m =< y) /\ Leading(n, P) = m - 1
  BY <1>3, <1>4
<1> HIDE DEF m
<1>6. m \in 1 .. n + 1
  BY <1>5
<1>7. \A i \in 1 .. m - 1 : i \in P
  <2> SUFFICES ASSUME NEW i \in 1 .. m - 1, i \notin P PROVE FALSE
    OBVIOUS
  <2>1. i \in R /\ i < m
    BY <1>6
  <2>2. QED
    BY <1>5, <1>6, <2>1
<1>8. m \notin P
  BY <1>5
<1> HIDE DEF R
<1>9. QED
  BY <1>5, <1>6, <1>7, <1>8

(* A queue that a permutation puts in order is in order.                   *)
Orders(p, q, r) ==
    /\ Len(q) = Len(r) /\ p \in [1 .. Len(r) -> 1 .. Len(r)]
    /\ \A k \in 1 .. Len(r) : \E i \in 1 .. Len(r) : p[i] = k
    /\ \A k \in 1 .. Len(r) : r[k] = q[p[k]]
    /\ \A i, j \in 1 .. Len(r) : SeqLt(r[i].seq, r[j].seq) <=> i < j

LEMMA BySeqIs ==
    ASSUME NEW S, NEW q \in Seq(S), NEW r \in Seq(S), NEW p, Orders(p, q, r)
    PROVE  BySeq(q) = r
<1> DEFINE n == Len(r)
           before(i) == {j \in 1 .. Len(q) : SeqLt(q[j].seq, q[i].seq)}
<1>1. n \in Nat /\ Len(q) = n
  BY LenProperties DEF Orders
<1>2. p \in [1 .. n -> 1 .. n] /\ \A k \in 1 .. n : \E i \in 1 .. n : p[i] = k
  BY DEF Orders
<1>3. \A i, j \in 1 .. n : SeqLt(q[p[i]].seq, q[p[j]].seq) <=> i < j
  BY <1>2 DEF Orders
<1> HIDE DEF n
<1>4. \A i, j \in 1 .. n : p[i] = p[j] => i = j
  <2> SUFFICES ASSUME NEW i \in 1 .. n, NEW j \in 1 .. n, p[i] = p[j] PROVE i = j
    OBVIOUS
  <2>1. (i < i <=> i < j) /\ (i < i <=> j < i)
    BY <1>3, Zenon
  <2>2. QED
    BY <1>1, <2>1
<1>5. ASSUME NEW k \in 1 .. n
      PROVE  IsFiniteSet(before(p[k])) /\ Cardinality(before(p[k])) = k - 1
  <2> DEFINE f == [j \in 1 .. k - 1 |-> p[j]]
             B == before(p[k])
  <2>1. \A j \in 1 .. n : p[j] \in B <=> j < k
    BY <1>1, <1>2, <1>3
  <2>2. B \subseteq 1 .. n
    BY <1>1
  <2> HIDE DEF B
  <2>3. f \in [1 .. k - 1 -> B]
    BY <1>1, <2>1
  <2>4. \A b \in B : \E j \in 1 .. k - 1 : f[j] = b
    <3> SUFFICES ASSUME NEW b \in B PROVE \E j \in 1 .. k - 1 : f[j] = b
      OBVIOUS
    <3>1. PICK j \in 1 .. n : p[j] = b
      BY <1>2, <2>2
    <3>2. j < k
      BY <2>1, <3>1
    <3>3. QED
      BY <1>1, <3>1, <3>2
  <2>5. \A i, j \in 1 .. k - 1 : f[i] = f[j] => i = j
    BY <1>1, <1>4
  <2> HIDE DEF f
  <2>6. f \in Bijection(1 .. k - 1, B)
    <3>1. IsInjective(f)
      BY <2>3, <2>5 DEF IsInjective
    <3>2. QED
      BY <2>3, <2>4, <3>1 DEF Bijection, Injection, Surjection
  <2>7. IsFiniteSet(1 .. k - 1) /\ Cardinality(1 .. k - 1) = k - 1
    <3>1. 1 \in Int /\ k - 1 \in Int
      BY <1>1
    <3>2. IsFiniteSet(1 .. k - 1) /\ Cardinality(1 .. k - 1) = IF 1 > k - 1 THEN 0 ELSE k - 1 - 1 + 1
      BY <3>1, FS_Interval
    <3>3. QED
      BY <1>1, <3>2
  <2>8. IsFiniteSet(B) /\ Cardinality(B) = k - 1
    BY <2>6, <2>7, FS_Bijection DEF ExistsBijection
  <2>9. QED
    BY <2>8 DEF B
<1>6. ASSUME NEW k \in 1 .. n
      PROVE  (CHOOSE i \in 1 .. n : Cardinality(before(i)) = k - 1) = p[k]
  <2> DEFINE P(i) == Cardinality(before(i)) = k - 1
             c == CHOOSE i \in 1 .. n : P(i)
  <2>1. p[k] \in 1 .. n /\ P(p[k])
    BY <1>2, <1>5
  <2>2. \E i \in 1 .. n : P(i)
    BY <2>1
  <2>3. c \in 1 .. n /\ P(c)
    <3> HIDE DEF P
    <3>1. QED
      BY <2>2
  <2>4. PICK m \in 1 .. n : p[m] = c
    <3> HIDE DEF c, P
    <3>1. QED
      BY <1>2, <2>3
  <2>5. Cardinality(before(p[m])) = m - 1
    BY <1>5
  <2>6. Cardinality(before(p[m])) = k - 1
    <3> HIDE DEF before, c
    <3>1. QED
      BY <2>3, <2>4
  <2>7. m = k
    <3> DEFINE x == Cardinality(before(p[m]))
    <3>1. x = m - 1 /\ x = k - 1
      BY <2>5, <2>6
    <3> HIDE DEF x
    <3>2. QED
      BY <1>1, <3>1
  <2>8. QED
    BY <2>4, <2>7
<1>7. BySeq(q) = [k \in 1 .. n |-> q[CHOOSE i \in 1 .. n : Cardinality(before(i)) = k - 1]]
  BY <1>1 DEF BySeq
<1>8. BySeq(q) = [k \in 1 .. n |-> q[p[k]]]
  <2> DEFINE g == [k \in 1 .. n |-> q[CHOOSE i \in 1 .. n : Cardinality(before(i)) = k - 1]]
             h == [k \in 1 .. n |-> q[p[k]]]
  <2>1. \A k \in 1 .. n : q[CHOOSE i \in 1 .. n : Cardinality(before(i)) = k - 1] = q[p[k]]
    <3> SUFFICES ASSUME NEW k \in 1 .. n
                 PROVE  q[CHOOSE i \in 1 .. n : Cardinality(before(i)) = k - 1] = q[p[k]]
      OBVIOUS
    <3>1. (CHOOSE i \in 1 .. n : Cardinality(before(i)) = k - 1) = p[k]
      BY <1>6
    <3> HIDE DEF before
    <3>2. QED
      BY <3>1
  <2>2. QED
    <3> HIDE DEF before
    <3>1. QED
      BY <1>7, <2>1, Zenon
<1>9. r = [k \in 1 .. n |-> q[p[k]]]
  <2>1. r \in [1 .. n -> S]
    BY LenProperties DEF n
  <2>2. \A k \in 1 .. n : r[k] = q[p[k]]
    BY DEF Orders, n
  <2>3. QED
    BY <2>1, <2>2
<1>10. QED
  BY <1>8, <1>9
-----------------------------------------------------------------------------
(* Segments and frames.                                                    *)
Typed(g) == g.seq \in Number /\ g.data \in Seq(Nat) /\ g.fin \in BOOLEAN

LEMMA SegmentTyped ==
    /\ \A g \in Segments : Typed(g) /\ g.moved \in BOOLEAN
    /\ \A g \in FrameSet : Typed(g)
BY DEF Segments, FrameSet, Typed

LEMMA EndsAre ==
    ASSUME NEW g, Typed(g)
    PROVE  /\ g.seq \in Int /\ At(g.seq) \in Nat /\ Len(g.data) \in Nat /\ At(g.seq) < SeqSpace
           /\ DataEnd(g) = At(g.seq) + Len(g.data)
           /\ TcpLen(g) = Len(g.data) + (IF g.fin THEN 1 ELSE 0)
           /\ End(g) = DataEnd(g) + (IF g.fin THEN 1 ELSE 0)
           /\ DataEnd(g) \in Nat /\ End(g) \in Nat /\ TcpLen(g) \in Nat
<1>1. g.seq \in Int /\ Len(g.data) \in Nat /\ g.fin \in BOOLEAN
  BY SegmentsConstants DEF Typed, Number
<1>2. At(g.seq) \in Nat /\ At(g.seq) \in Number
  BY <1>1, AtTyped
<1>3. At(g.seq) < SeqSpace
  BY <1>2, SegmentsConstants DEF Number
<1>4. TcpLen(g) = Len(g.data) + (IF g.fin THEN 1 ELSE 0)
  BY DEF TcpLen
<1>5. DataEnd(g) = At(g.seq) + Len(g.data) /\ End(g) = At(g.seq) + TcpLen(g)
  BY DEF DataEnd, End
<1> DEFINE a == At(g.seq)
           l == Len(g.data)
           t == TcpLen(g)
           d == DataEnd(g)
           e == End(g)
<1>6. /\ a \in Nat /\ l \in Nat /\ t = l + (IF g.fin THEN 1 ELSE 0) /\ d = a + l /\ e = a + t
      /\ a < SeqSpace
  BY <1>1, <1>2, <1>3, <1>4, <1>5
<1> HIDE DEF a, l, t, d, e
<1>7. e = d + (IF g.fin THEN 1 ELSE 0) /\ d \in Nat /\ e \in Nat /\ t \in Nat
  BY <1>6
<1>8. QED
  BY <1>1, <1>6, <1>7, Zenon DEF a, l, t, d, e

LEMMA SeqEndIs ==
    ASSUME NEW g, Typed(g), End(g) <= Limit
    PROVE  At(SeqEnd(g)) = End(g) /\ SeqEnd(g) \in Number
<1>1. g.seq \in Int /\ TcpLen(g) \in Nat /\ End(g) = At(g.seq) + TcpLen(g) /\ End(g) \in Nat
  <2>1. TcpLen(g) \in Nat /\ g.seq \in Int /\ End(g) \in Nat
    BY EndsAre
  <2>2. QED
    BY <2>1 DEF End
<1>2. End(g) \in Number
  BY <1>1, SegmentsConstants DEF Number
<1>3. At((g.seq + TcpLen(g)) % SeqSpace) = At(g.seq) + TcpLen(g)
  BY <1>1, <1>2, AtPlus
<1>4. SeqEnd(g) = (g.seq + TcpLen(g)) % SeqSpace
  BY DEF SeqEnd
<1>5. g.seq + TcpLen(g) \in Int
  BY <1>1
<1>6. QED
  BY <1>1, <1>3, <1>4, <1>5, AtTyped

(* What a piece of the stream begins and ends at.                          *)
Lies(g, w, closed) ==
    /\ At(g.seq) < End(g) /\ End(g) <= Edge(w, closed) /\ End(g) <= Units + 1
    /\ At(SeqEnd(g)) = End(g) /\ SeqEnd(g) \in Number
    /\ DataEnd(g) <= w /\ DataEnd(g) <= End(g)
    /\ End(g) = DataEnd(g) + (IF g.fin THEN 1 ELSE 0)
    /\ ~g.fin => g.data # <<>>

LEMMA PieceLies ==
    ASSUME NEW g, Typed(g), NEW other, NEW w \in 0 .. Units, NEW closed \in BOOLEAN,
           PieceOf(g, other, w, closed)
    PROVE  Lies(g, w, closed)
<1>1. /\ At(g.seq) \in Nat /\ Len(g.data) \in Nat /\ DataEnd(g) = At(g.seq) + Len(g.data)
      /\ End(g) = DataEnd(g) + (IF g.fin THEN 1 ELSE 0) /\ DataEnd(g) \in Nat /\ End(g) \in Nat
  BY EndsAre
<1>2. DataEnd(g) <= w /\ (g.data # <<>> \/ g.fin) /\ (g.fin => closed /\ DataEnd(g) = w)
  BY DEF PieceOf
<1>3. g.data # <<>> => Len(g.data) > 0
  <2>1. g.data \in Seq(Nat)
    BY DEF Typed
  <2>2. QED
    BY <2>1, EmptySeq
<1>4. g.fin \in BOOLEAN
  BY DEF Typed
<1>5. At(g.seq) < End(g) /\ DataEnd(g) <= End(g)
  BY <1>1, <1>2, <1>3, <1>4
<1>6. Units \in Nat
  BY SegmentsConstants
<1>7. End(g) <= Edge(w, closed) /\ End(g) <= Units + 1
  BY <1>1, <1>2, <1>4, <1>6 DEF Edge
<1>8. End(g) <= Limit
  BY <1>1, <1>7, SegmentsConstants
<1>9. At(SeqEnd(g)) = End(g) /\ SeqEnd(g) \in Number
  BY <1>8, SeqEndIs
<1>10. QED
  BY <1>1, <1>2, <1>5, <1>7, <1>9 DEF Lies

(* A piece of what was written before more is, or the end.                 *)
LEMMA PieceLater ==
    ASSUME NEW g, Typed(g), NEW other, NEW w \in 0 .. Units, NEW v \in 0 .. Units, w <= v,
           NEW closed \in BOOLEAN, NEW c \in BOOLEAN, closed => c /\ v = w,
           PieceOf(g, other, w, closed)
    PROVE  PieceOf(g, other, v, c)
<1>1. DataEnd(g) \in Nat
  BY EndsAre
<1>2. QED
  BY <1>1 DEF PieceOf

LEMMA EdgeIs ==
    ASSUME NEW w \in 0 .. Units, NEW c \in BOOLEAN
    PROVE  /\ Edge(w, c) \in Nat /\ w <= Edge(w, c) /\ Edge(w, c) <= w + 1 /\ Edge(w, c) <= Units + 1
           /\ Edge(w, c) = w + (IF c THEN 1 ELSE 0) /\ Edge(w, c) < Limit
<1>1. Units \in Nat /\ Units + 1 < Limit /\ Limit \in Nat
  BY SegmentsConstants
<1>2. QED
  BY <1>1 DEF Edge
-----------------------------------------------------------------------------
(* A queue in one piece.                                                   *)
InOrder(q) == \A i, j \in 1 .. Len(q) : i < j => End(q[i]) <= At(q[j].seq)

LEMMA TiledLies ==
    ASSUME NEW q \in Seq(Segments), NEW from \in Nat, NEW w \in 0 .. Units, NEW c \in BOOLEAN,
           Tiled(q, from, w, c)
    PROVE  \A i \in 1 .. Len(q) : q[i] \in Segments /\ Typed(q[i]) /\ Lies(q[i], w, c)
<1> SUFFICES ASSUME NEW i \in 1 .. Len(q)
             PROVE  q[i] \in Segments /\ Typed(q[i]) /\ Lies(q[i], w, c)
  OBVIOUS
<1>1. q[i] \in Segments
  BY ElementOfSeq
<1>2. Typed(q[i])
  BY <1>1, SegmentTyped
<1>3. PieceOf(q[i], {}, w, c)
  BY DEF Tiled
<1>4. QED
  BY <1>1, <1>2, <1>3, PieceLies

LEMMA TiledInOrder ==
    ASSUME NEW q \in Seq(Segments), NEW from \in Nat, NEW w \in 0 .. Units, NEW c \in BOOLEAN,
           Tiled(q, from, w, c)
    PROVE  InOrder(q)
<1>1. Len(q) \in Nat
  BY LenProperties
<1>2. SUFFICES ASSUME NEW i \in 1 .. Len(q), NEW m \in 1 .. Len(q), i < m,
                      ~(End(q[i]) <= At(q[m].seq))
               PROVE  FALSE
  BY DEF InOrder
<1> DEFINE B == {j \in 1 .. Len(q) : i < j /\ ~(End(q[i]) <= At(q[j].seq))}
<1>3. m \in B /\ B \in SUBSET Nat
  BY <1>2
<1>4. PICK j \in B : \A k \in B : j <= k
  BY <1>3, LeastNat
<1>5. j \in 1 .. Len(q) /\ i < j /\ ~(End(q[i]) <= At(q[j].seq)) /\ i \in 1 .. Len(q)
  BY <1>4
<1> DEFINE h == j - 1
<1>6. h \in 1 .. Len(q) /\ j = h + 1 /\ h \in Nat /\ i <= h
  BY <1>1, <1>5
<1>7. End(q[h]) = At(q[j].seq)
  BY <1>5, <1>6 DEF Tiled
<1>8. /\ At(q[h].seq) \in Nat /\ End(q[h]) \in Nat /\ At(q[h].seq) < End(q[h])
      /\ End(q[i]) \in Nat
  <2>1. Typed(q[h]) /\ Lies(q[h], w, c) /\ Typed(q[i])
    BY <1>2, <1>6, TiledLies
  <2>2. QED
    BY <2>1, EndsAre DEF Lies
<1>9. CASE h = i
  BY <1>5, <1>7, <1>8, <1>9
<1>10. CASE h # i
  <2>1. h \notin B
    BY <1>4, <1>6
  <2>2. End(q[i]) <= At(q[h].seq)
    BY <1>6, <1>10, <2>1
  <2>3. QED
    BY <1>5, <1>7, <1>8, <2>2
<1>11. QED
  BY <1>9, <1>10

(* Where its ends are.                                                     *)
LEMMA TiledEnds ==
    ASSUME NEW q \in Seq(Segments), NEW from \in Nat, NEW w \in 0 .. Units, NEW c \in BOOLEAN,
           Tiled(q, from, w, c)
    PROVE  /\ \A i \in 1 .. Len(q) : from < End(q[i])
           /\ from <= Edge(w, c)
           /\ from < Edge(w, c) <=> q # <<>>
           /\ \A i \in 1 .. Len(q) : q[i].fin <=> i = Len(q) /\ c
<1>1. Len(q) \in Nat /\ (q # <<>> => Len(q) > 0) /\ Edge(w, c) \in Nat /\ (Len(q) > 0 => q # <<>>)
  BY LenProperties, EmptySeq, EdgeIs
<1>2. \A i \in 1 .. Len(q) : /\ Lies(q[i], w, c) /\ At(q[i].seq) \in Nat /\ End(q[i]) \in Nat
                             /\ PieceOf(q[i], {}, w, c) /\ q[i].fin \in BOOLEAN
  <2> SUFFICES ASSUME NEW i \in 1 .. Len(q)
               PROVE  /\ Lies(q[i], w, c) /\ At(q[i].seq) \in Nat /\ End(q[i]) \in Nat
                      /\ PieceOf(q[i], {}, w, c) /\ q[i].fin \in BOOLEAN
    OBVIOUS
  <2>1. Typed(q[i]) /\ Lies(q[i], w, c)
    BY TiledLies
  <2>2. At(q[i].seq) \in Nat /\ End(q[i]) \in Nat
    BY <2>1, EndsAre
  <2>3. PieceOf(q[i], {}, w, c)
    BY DEF Tiled
  <2>4. QED
    BY <2>1, <2>2, <2>3 DEF Typed
<1>3. q # <<>> => from < End(q[1]) /\ End(q[Len(q)]) = Edge(w, c)
  BY DEF Tiled
<1>4. InOrder(q)
  BY TiledInOrder
<1>5. ASSUME NEW i \in 1 .. Len(q) PROVE from < End(q[i])
  <2>1. q # <<>> /\ 1 \in 1 .. Len(q)
    BY <1>1
  <2>2. CASE i = 1
    BY <1>3, <2>1, <2>2
  <2>3. CASE i # 1
    <3>1. 1 < i
      BY <2>3
    <3>2. End(q[1]) <= At(q[i].seq)
      BY <1>4, <2>1, <3>1 DEF InOrder
    <3>3. At(q[i].seq) < End(q[i])
      BY <1>2 DEF Lies
    <3>4. QED
      BY <1>2, <1>3, <2>1, <3>2, <3>3
  <2>4. QED
    BY <2>2, <2>3
<1>6. q # <<>> => from < Edge(w, c)
  <2> SUFFICES ASSUME q # <<>> PROVE from < Edge(w, c)
    OBVIOUS
  <2>1. Len(q) \in 1 .. Len(q)
    BY <1>1
  <2>2. from < End(q[Len(q)])
    BY <1>5, <2>1
  <2>3. QED
    BY <1>3, <2>2
<1>7. q = <<>> => from = Edge(w, c)
  BY DEF Tiled
<1>8. ASSUME NEW i \in 1 .. Len(q) PROVE q[i].fin <=> i = Len(q) /\ c
  <2> DEFINE d == DataEnd(q[i])
             e == End(q[i])
  <2>1. /\ e = d + (IF q[i].fin THEN 1 ELSE 0) /\ d <= w /\ (q[i].fin => c /\ d = w)
        /\ q[i].fin \in BOOLEAN /\ e \in Nat /\ e <= Edge(w, c)
    BY <1>2 DEF Lies, PieceOf
  <2>2. d \in Nat
    <3>1. Typed(q[i])
      BY TiledLies
    <3>2. QED
      BY <3>1, EndsAre
  <2>3. q # <<>>
    BY <1>1
  <2>4. i = Len(q) => e = Edge(w, c)
    BY <1>3, <2>3
  <2>5. i # Len(q) => e < Edge(w, c)
    <3> SUFFICES ASSUME i # Len(q) PROVE e < Edge(w, c)
      OBVIOUS
    <3>1. i < Len(q) /\ Len(q) \in 1 .. Len(q)
      BY <1>1
    <3>2. e <= At(q[Len(q)].seq)
      BY <1>4, <3>1 DEF InOrder
    <3>3. At(q[Len(q)].seq) < End(q[Len(q)])
      BY <1>2, <3>1 DEF Lies
    <3> DEFINE f == At(q[Len(q)].seq)
               g == End(q[Len(q)])
    <3>4. e <= f /\ f < g /\ g = Edge(w, c) /\ f \in Nat
      BY <1>2, <1>3, <2>3, <3>1, <3>2, <3>3
    <3> HIDE DEF f, g, e
    <3>5. QED
      BY <1>1, <2>1, <3>4
  <2>6. Edge(w, c) = w + (IF c THEN 1 ELSE 0)
    BY DEF Edge
  <2> HIDE DEF d, e
  <2>7. QED
    BY <2>1, <2>2, <2>4, <2>5, <2>6
<1>9. QED
  BY <1>1, <1>5, <1>6, <1>7, <1>8

(* The same queue but for where its pbufs point.                           *)
Like(q, r) ==
    Len(q) = Len(r) /\ \A i \in 1 .. Len(q) : q[i].seq = r[i].seq /\ q[i].data = r[i].data /\ q[i].fin = r[i].fin

LEMMA LikeIs ==
    ASSUME NEW g, NEW h, g.seq = h.seq, g.data = h.data, g.fin = h.fin
    PROVE  /\ DataEnd(g) = DataEnd(h) /\ End(g) = End(h) /\ SeqEnd(g) = SeqEnd(h)
           /\ \A other, w, c : PieceOf(g, other, w, c) => PieceOf(h, other, w, c)
           /\ \A s : Reach(s, g) = Reach(s, h) /\ (WasSent(s, g) <=> WasSent(s, h))
<1>1. DataEnd(g) = DataEnd(h) /\ TcpLen(g) = TcpLen(h)
  BY Zenon DEF DataEnd, TcpLen
<1>2. End(g) = End(h) /\ SeqEnd(g) = SeqEnd(h)
  BY <1>1, Zenon DEF End, SeqEnd
<1>3. \A s : Reach(s, g) = Reach(s, h)
  BY Zenon DEF Reach
<1>4. \A s : WasSent(s, g) <=> WasSent(s, h)
  BY <1>1, <1>2, Zenon DEF WasSent
<1>5. \A other, w, c : PieceOf(g, other, w, c) => PieceOf(h, other, w, c)
  BY <1>1, Zenon DEF PieceOf
<1>6. QED
  BY <1>1, <1>2, <1>3, <1>4, <1>5

LEMMA LikeTiled ==
    ASSUME NEW q \in Seq(Segments), NEW r \in Seq(Segments), Like(q, r),
           NEW from, NEW w, NEW c, Tiled(q, from, w, c)
    PROVE  Tiled(r, from, w, c)
<1>1. Len(q) = Len(r) /\ Len(q) \in Nat /\ (q = <<>> <=> r = <<>>)
  BY LenProperties, EmptySeq DEF Like
<1>2. \A i \in 1 .. Len(q) : /\ End(q[i]) = End(r[i]) /\ q[i].seq = r[i].seq
                             /\ PieceOf(q[i], {}, w, c) => PieceOf(r[i], {}, w, c)
  BY LikeIs DEF Like
<1>3. q # <<>> => 1 \in 1 .. Len(q) /\ Len(q) \in 1 .. Len(q)
  BY <1>1, EmptySeq
<1>4. QED
  BY <1>1, <1>2, <1>3 DEF Tiled

(* An acknowledgement takes from its front.                                *)
LEMMA TiledDrop ==
    ASSUME NEW q \in Seq(Segments), NEW from \in Nat, NEW w \in 0 .. Units, NEW c \in BOOLEAN,
           Tiled(q, from, w, c), NEW d \in 0 .. Len(q), NEW to \in Nat, from <= to, to <= Edge(w, c),
           \A i \in 1 .. d : End(q[i]) <= to, d < Len(q) => to < End(q[d + 1])
    PROVE  SubSeq(q, d + 1, Len(q)) \in Seq(Segments) /\ Tiled(SubSeq(q, d + 1, Len(q)), to, w, c)
<1> DEFINE r == SubSeq(q, d + 1, Len(q))
           n == Len(q)
<1>1. n \in Nat /\ d \in Nat /\ d <= n /\ Edge(w, c) \in Nat
  BY LenProperties, EdgeIs
<1>2. /\ r \in Seq(Segments) /\ Len(r) = (IF d + 1 <= n THEN n - (d + 1) + 1 ELSE 0)
      /\ \A i \in 1 .. n - (d + 1) + 1 : r[i] = q[d + 1 + i - 1]
  <2>1. d + 1 \in Int /\ n \in Int /\ \A i \in d + 1 .. n : q[i] \in Segments
    BY <1>1, ElementOfSeq
  <2>2. QED
    BY <2>1, SubSeqProperties
<1>3. Len(r) = n - d /\ \A i \in 1 .. Len(r) : r[i] = q[d + i] /\ d + i \in 1 .. n
  <2>1. n - (d + 1) + 1 = n - d /\ \A i \in 1 .. n - d : d + 1 + i - 1 = d + i /\ d + i \in 1 .. n
    BY <1>1
  <2> HIDE DEF r, n
  <2>2. Len(r) = n - d
    BY <1>1, <1>2
  <2>3. QED
    BY <1>2, <2>1, <2>2
<1>4. Tiled(q, from, w, c) /\ q \in Seq(Segments) /\ n = Len(q)
  OBVIOUS
<1>5. \A i \in 1 .. n : At(q[i].seq) \in Nat /\ End(q[i]) \in Nat
  <2> SUFFICES ASSUME NEW i \in 1 .. n PROVE At(q[i].seq) \in Nat /\ End(q[i]) \in Nat
    OBVIOUS
  <2>1. Typed(q[i])
    BY TiledLies
  <2>2. QED
    BY <2>1, EndsAre
<1> HIDE DEF r, n
<1>6. \A i \in 1 .. Len(r) : PieceOf(r[i], {}, w, c)
  BY <1>3, <1>4 DEF Tiled
<1>7. \A i, j \in 1 .. Len(r) : j = i + 1 => End(r[i]) = At(r[j].seq)
  <2> SUFFICES ASSUME NEW i \in 1 .. Len(r), NEW j \in 1 .. Len(r), j = i + 1
               PROVE  End(r[i]) = At(r[j].seq)
    OBVIOUS
  <2>1. d + j = d + i + 1 /\ r[i] = q[d + i] /\ r[j] = q[d + j] /\ d + i \in 1 .. n /\ d + j \in 1 .. n
    BY <1>1, <1>3
  <2>2. QED
    BY <1>4, <2>1 DEF Tiled
<1>8. r = <<>> => to = Edge(w, c)
  <2> SUFFICES ASSUME r = <<>> PROVE to = Edge(w, c)
    OBVIOUS
  <2>1. d = n
    BY <1>1, <1>2, <1>3, EmptySeq
  <2>2. CASE n = 0
    <3>1. q = <<>>
      BY <1>4, <2>2, EmptySeq
    <3>2. from = Edge(w, c)
      BY <1>4, <3>1 DEF Tiled
    <3>3. QED
      BY <1>1, <3>2
  <2>3. CASE n # 0
    <3>1. n \in 1 .. d /\ q # <<>>
      BY <1>1, <1>4, <2>1, <2>3, EmptySeq
    <3>2. End(q[n]) <= to /\ End(q[n]) = Edge(w, c)
      BY <1>4, <3>1 DEF Tiled
    <3>3. QED
      BY <1>1, <3>2
  <2>4. QED
    BY <2>2, <2>3
<1>9. ASSUME r # <<>>
      PROVE  At(r[1].seq) <= to /\ to < End(r[1]) /\ End(r[Len(r)]) = Edge(w, c)
  <2>1. Len(r) \in Nat /\ Len(r) > 0 /\ d < n
    BY <1>1, <1>2, <1>3, <1>9, EmptySeq
  <2>2. 1 \in 1 .. Len(r) /\ Len(r) \in 1 .. Len(r) /\ d + 1 \in 1 .. n /\ n \in 1 .. n /\ d + Len(r) = n
    BY <1>1, <1>3, <2>1
  <2>3. r[1] = q[d + 1] /\ r[Len(r)] = q[n]
    BY <1>3, <2>2
  <2>4. q # <<>>
    BY <1>1, <1>4, <2>1, EmptySeq
  <2>5. End(q[n]) = Edge(w, c)
    BY <1>4, <2>4 DEF Tiled
  <2>6. to < End(q[d + 1])
    BY <1>4, <2>1
  <2>7. At(q[d + 1].seq) <= to
    <3>1. CASE d = 0
      <4>1. At(q[1].seq) <= from
        BY <1>4, <2>4 DEF Tiled
      <4>2. QED
        BY <1>1, <1>5, <2>2, <3>1, <4>1
    <3>2. CASE d # 0
      <4>1. d \in 1 .. n /\ d \in 1 .. d
        BY <1>1, <3>2
      <4>2. End(q[d]) = At(q[d + 1].seq)
        BY <1>4, <2>2, <4>1 DEF Tiled
      <4>3. End(q[d]) <= to
        BY <4>1
      <4>4. QED
        BY <4>2, <4>3
    <3>3. QED
      BY <3>1, <3>2
  <2>8. QED
    BY <2>3, <2>5, <2>6, <2>7
<1>10. Tiled(r, to, w, c)
  BY <1>6, <1>7, <1>8, <1>9 DEF Tiled
<1>11. QED
  BY <1>2, <1>10 DEF r, n

(* What is not acknowledged is in it.                                      *)
LEMMA TiledHas ==
    ASSUME NEW q \in Seq(Segments), NEW from \in Nat, NEW w \in 0 .. Units, NEW c \in BOOLEAN,
           Tiled(q, from, w, c), NEW k \in Nat, from < k, k <= w
    PROVE  \E i \in 1 .. Len(q) : \E j \in 1 .. Len(q[i].data) : q[i].data[j] = k
<1> DEFINE n == Len(q)
           B == {i \in 1 .. n : k <= End(q[i])}
<1>1. n \in Nat /\ w <= Edge(w, c) /\ Edge(w, c) \in Nat
  BY LenProperties, EdgeIs
<1>2. q # <<>>
  BY <1>1 DEF Tiled
<1>3. n \in 1 .. n /\ 1 \in 1 .. n
  BY <1>1, <1>2, EmptySeq
<1>4. n \in B /\ B \in SUBSET Nat
  <2>1. End(q[n]) = Edge(w, c)
    BY <1>2 DEF Tiled
  <2>2. QED
    BY <1>1, <1>3, <2>1
<1>5. PICK i \in B : \A m \in B : i <= m
  BY <1>4, LeastNat
<1>6. i \in 1 .. n /\ k <= End(q[i])
  BY <1>5
<1>7. \A m \in 1 .. n : At(q[m].seq) \in Nat /\ End(q[m]) \in Nat
  <2> SUFFICES ASSUME NEW m \in 1 .. n PROVE At(q[m].seq) \in Nat /\ End(q[m]) \in Nat
    OBVIOUS
  <2>1. Typed(q[m])
    BY TiledLies
  <2>2. QED
    BY <2>1, EndsAre
<1>8. At(q[i].seq) < k
  <2>1. CASE i = 1
    <3>1. At(q[1].seq) <= from
      BY <1>2 DEF Tiled
    <3>2. QED
      BY <1>3, <1>7, <2>1, <3>1
  <2>2. CASE i # 1
    <3> DEFINE h == i - 1
    <3>1. h \in 1 .. n /\ i = h + 1 /\ h \in Nat /\ h < i
      BY <1>6, <2>2
    <3>2. h \notin B
      BY <1>5, <3>1
    <3>3. End(q[h]) < k
      <4> DEFINE x == End(q[h])
      <4>1. x \in Nat /\ ~(k <= x)
        BY <1>7, <3>1, <3>2
      <4> HIDE DEF x
      <4>2. x < k
        BY <4>1
      <4>3. QED
        BY <4>2 DEF x
    <3>4. End(q[h]) = At(q[i].seq)
      BY <1>6, <3>1 DEF Tiled
    <3>5. QED
      BY <3>3, <3>4
  <2>3. QED
    BY <2>1, <2>2
<1>9. Lies(q[i], w, c) /\ PieceOf(q[i], {}, w, c) /\ Typed(q[i])
  BY <1>6, TiledLies DEF Tiled
<1> DEFINE a == At(q[i].seq)
           d == DataEnd(q[i])
           e == End(q[i])
           l == Len(q[i].data)
           j == k - a
<1>10. /\ a \in Nat /\ l \in Nat /\ d = a + l /\ e = d + (IF q[i].fin THEN 1 ELSE 0) /\ (q[i].fin => d = w)
       /\ a < k /\ k <= e /\ q[i].fin \in BOOLEAN
  BY <1>6, <1>8, <1>9, EndsAre DEF PieceOf, Typed
<1> HIDE DEF a, d, e, l
<1>11. j \in 1 .. l /\ a + j = k
  <2>1. (q[i].fin => d = w) /\ k <= w /\ w \in Nat /\ k \in Nat /\ (e = d \/ q[i].fin)
    BY <1>10
  <2>2. k <= d
    BY <1>10, <2>1
  <2>3. QED
    BY <1>10, <2>2
<1>12. q[i].data[j] \in {a + j} \cup {}
  BY <1>9, <1>11 DEF PieceOf, a, l
<1>13. j \in 1 .. Len(q[i].data) /\ q[i].data[j] = k
  BY <1>11, <1>12 DEF l
<1>14. QED
  BY <1>6, <1>13

(* What is a piece while the stream is open is one later on.               *)
LEMMA PieceOpen ==
    ASSUME NEW g, Typed(g), NEW other, NEW w \in 0 .. Units, NEW v \in 0 .. Units, w <= v,
           NEW c, PieceOf(g, other, w, FALSE)
    PROVE  PieceOf(g, other, v, c)
<1>1. DataEnd(g) \in Nat
  BY EndsAre
<1>2. QED
  BY <1>1 DEF PieceOf

(* A write or the FIN changes its last segment.                            *)
LEMMA TiledLast ==
    ASSUME NEW q \in Seq(Segments), NEW from \in Nat, NEW w \in 0 .. Units,
           Tiled(q, from, w, FALSE), q # <<>>, NEW r \in Seq(Segments), Len(r) = Len(q),
           \A i \in 1 .. Len(q) : i # Len(q) => r[i] = q[i],
           r[Len(q)].seq = q[Len(q)].seq,
           NEW v \in 0 .. Units, w <= v, NEW c \in BOOLEAN,
           PieceOf(r[Len(q)], {}, v, c), End(r[Len(q)]) = Edge(v, c)
    PROVE  Tiled(r, from, v, c)
<1> DEFINE n == Len(q)
<1>1. n \in Nat /\ n \in 1 .. n /\ 1 \in 1 .. n /\ r # <<>>
  BY LenProperties, EmptySeq
<1>2. /\ Tiled(q, from, w, FALSE) /\ n = Len(q) /\ Len(r) = n
      /\ \A i \in 1 .. n : i # n => r[i] = q[i]
      /\ r[n].seq = q[n].seq /\ PieceOf(r[n], {}, v, c) /\ End(r[n]) = Edge(v, c)
  OBVIOUS
<1> HIDE DEF n
<1>3. \A i \in 1 .. n : PieceOf(r[i], {}, v, c)
  <2> SUFFICES ASSUME NEW i \in 1 .. n, i # n PROVE PieceOf(q[i], {}, v, c)
    BY <1>2
  <2>1. PieceOf(q[i], {}, w, FALSE)
    BY <1>2 DEF Tiled
  <2>2. q[i] \in Segments
    BY <1>2, ElementOfSeq
  <2>3. Typed(q[i])
    BY <2>2, SegmentTyped
  <2>4. QED
    BY <2>1, <2>3, PieceOpen
<1>4. \A i \in 1 .. n : r[i].seq = q[i].seq
  BY <1>2
<1>5. \A i, j \in 1 .. n : j = i + 1 => End(r[i]) = At(r[j].seq)
  <2> SUFFICES ASSUME NEW i \in 1 .. n, NEW j \in 1 .. n, j = i + 1 PROVE End(r[i]) = At(r[j].seq)
    OBVIOUS
  <2>1. i # n
    BY <1>1
  <2>2. End(q[i]) = At(q[j].seq)
    BY <1>2 DEF Tiled
  <2>3. QED
    BY <1>2, <1>4, <2>1, <2>2
<1>6. At(r[1].seq) <= from
  BY <1>1, <1>2, <1>4 DEF Tiled
<1>7. from < End(r[1])
  <2>1. CASE n = 1
    <3>1. from < End(q[1]) /\ End(q[1]) = Edge(w, FALSE)
      BY <1>2, <2>1 DEF Tiled
    <3>2. Edge(w, FALSE) = w
      BY DEF Edge
    <3>3. v <= Edge(v, c) /\ Edge(v, c) \in Nat
      BY EdgeIs
    <3> DEFINE e == Edge(v, c)
    <3>4. from < w /\ w <= v /\ v <= e /\ End(r[1]) = e /\ e \in Nat
      BY <1>2, <2>1, <3>1, <3>2, <3>3
    <3> HIDE DEF e
    <3>5. from < e
      BY <3>4
    <3>6. QED
      BY <3>4, <3>5
  <2>2. CASE n # 1
    BY <1>1, <1>2, <2>2 DEF Tiled
  <2>3. QED
    BY <2>1, <2>2
<1>8. QED
  BY <1>1, <1>2, <1>3, <1>5, <1>6, <1>7 DEF Tiled

(* Or adds segments at its end.                                            *)
Added(n, w, v, c) ==
    /\ \A i \in 1 .. Len(n) : PieceOf(n[i], {}, v, c)
    /\ \A i, j \in 1 .. Len(n) : j = i + 1 => End(n[i]) = At(n[j].seq)
    /\ n # <<>> => At(n[1].seq) = w /\ End(n[Len(n)]) = Edge(v, c)
    /\ n = <<>> => v = w /\ c = FALSE

LEMMA TiledAppend ==
    ASSUME NEW q \in Seq(Segments), NEW from \in Nat, NEW w \in 0 .. Units,
           Tiled(q, from, w, FALSE), NEW n \in Seq(Segments), NEW v \in 0 .. Units, w <= v,
           NEW c \in BOOLEAN, Added(n, w, v, c)
    PROVE  Tiled(q \o n, from, v, c)
<1> DEFINE r == q \o n
           a == Len(q)
           b == Len(n)
<1>1. a \in Nat /\ b \in Nat
  BY LenProperties
<1>2. /\ r \in Seq(Segments) /\ Len(r) = a + b
      /\ \A i \in 1 .. a + b : r[i] = IF i <= a THEN q[i] ELSE n[i - a]
  BY ConcatProperties
<1>3. Tiled(q, from, w, FALSE) /\ Added(n, w, v, c) /\ a = Len(q) /\ b = Len(n)
      /\ (a = 0 => q = <<>>) /\ (b = 0 => n = <<>>) /\ (q = <<>> => a = 0) /\ (n = <<>> => b = 0)
  BY EmptySeq
<1> HIDE DEF r, a, b
<1>4. \A i \in 1 .. a : r[i] = q[i] /\ PieceOf(q[i], {}, v, c)
  <2> SUFFICES ASSUME NEW i \in 1 .. a PROVE r[i] = q[i] /\ PieceOf(q[i], {}, v, c)
    OBVIOUS
  <2>1. PieceOf(q[i], {}, w, FALSE)
    BY <1>3 DEF Tiled
  <2>2. q[i] \in Segments
    BY <1>3, ElementOfSeq
  <2>3. Typed(q[i])
    BY <2>2, SegmentTyped
  <2>4. PieceOf(q[i], {}, v, c)
    BY <2>1, <2>3, PieceOpen
  <2>5. QED
    BY <1>1, <1>2, <2>4
<1>5. \A i \in 1 .. b : r[a + i] = n[i] /\ PieceOf(n[i], {}, v, c)
  <2> SUFFICES ASSUME NEW i \in 1 .. b PROVE r[a + i] = n[i] /\ PieceOf(n[i], {}, v, c)
    OBVIOUS
  <2>1. a + i \in 1 .. a + b /\ ~(a + i <= a) /\ (a + i) - a = i
    BY <1>1
  <2>2. r[a + i] = n[(a + i) - a]
    BY <1>2, <2>1, Zenon
  <2>3. PieceOf(n[i], {}, v, c)
    BY <1>3 DEF Added
  <2>4. QED
    BY <2>1, <2>2, <2>3, Zenon
<1>6. \A i \in 1 .. a + b : i \in 1 .. a \/ (i - a \in 1 .. b /\ i = a + (i - a))
  BY <1>1
<1>7. \A i \in 1 .. Len(r) : PieceOf(r[i], {}, v, c)
  BY <1>2, <1>4, <1>5, <1>6
<1>8. Edge(w, FALSE) = w
  BY DEF Edge
<1>9. ASSUME NEW i \in 1 .. Len(r), NEW j \in 1 .. Len(r), j = i + 1
      PROVE  End(r[i]) = At(r[j].seq)
  <2>1. CASE j \in 1 .. a
    <3>1. i \in 1 .. a
      BY <1>1, <1>9, <2>1
    <3>2. QED
      BY <1>3, <1>4, <1>9, <2>1, <3>1 DEF Tiled
  <2>2. CASE i \in 1 .. a /\ j \notin 1 .. a
    <3>1. i = a /\ j - a = 1 /\ j = a + 1 /\ 1 \in 1 .. b /\ a # 0
      BY <1>1, <1>2, <1>9, <2>2
    <3>2. q # <<>> /\ n # <<>>
      <4>1. a # 0 /\ b # 0
        BY <1>1, <3>1
      <4>2. QED
        BY <1>3, <4>1, Zenon
    <3>3. End(q[a]) = w /\ At(n[1].seq) = w
      BY <1>3, <1>8, <3>2 DEF Tiled, Added
    <3>4. r[i] = q[a] /\ r[j] = n[1]
      <4>1. r[i] = q[i] /\ r[a + 1] = n[1]
        BY <1>4, <1>5, <2>2, <3>1, Zenon
      <4>2. QED
        BY <3>1, <4>1, Zenon
    <3>5. QED
      BY <3>3, <3>4
  <2>3. CASE i \notin 1 .. a
    <3> DEFINE x == i - a
               y == j - a
    <3>1. x \in 1 .. b /\ y \in 1 .. b /\ y = x + 1 /\ i = a + x /\ j = a + y
      BY <1>1, <1>2, <1>9, <2>3
    <3> HIDE DEF x, y
    <3>2. r[i] = n[x] /\ r[j] = n[y]
      BY <1>5, <3>1
    <3>3. End(n[x]) = At(n[y].seq)
      BY <1>3, <3>1 DEF Added
    <3>4. QED
      BY <3>2, <3>3
  <2>4. QED
    BY <2>1, <2>2, <2>3
<1>10. r = <<>> => from = Edge(v, c)
  <2> SUFFICES ASSUME r = <<>> PROVE from = Edge(v, c)
    OBVIOUS
  <2>1. a = 0 /\ b = 0
    BY <1>1, <1>2, EmptySeq
  <2>2. q = <<>> /\ n = <<>>
    BY <1>3, <2>1
  <2>3. from = w /\ v = w /\ c = FALSE
    BY <1>3, <1>8, <2>2 DEF Tiled, Added
  <2>4. QED
    BY <1>8, <2>3
<1>11. ASSUME r # <<>>
       PROVE  At(r[1].seq) <= from /\ from < End(r[1])
  <2>1. CASE a # 0
    <3>1. q # <<>> /\ 1 \in 1 .. a
      BY <1>1, <1>3, <2>1
    <3>2. QED
      BY <1>3, <1>4, <3>1 DEF Tiled
  <2>2. CASE a = 0
    <3>1. q = <<>> /\ b # 0
      BY <1>1, <1>2, <1>3, <1>11, <2>2, EmptySeq
    <3>2. n # <<>> /\ 1 \in 1 .. b /\ a + 1 = 1
      BY <1>1, <1>3, <2>2, <3>1
    <3>3. r[1] = n[1]
      BY <1>5, <3>2
    <3>4. from = w /\ At(n[1].seq) = w
      BY <1>3, <1>8, <3>1, <3>2 DEF Tiled, Added
    <3>5. n[1] \in Segments
      BY <1>3, <3>2, ElementOfSeq
    <3>6. Typed(n[1])
      BY <3>5, SegmentTyped
    <3>7. PieceOf(n[1], {}, v, c)
      BY <1>5, <3>2
    <3>8. At(n[1].seq) < End(n[1])
      BY <3>6, <3>7, PieceLies DEF Lies
    <3>9. QED
      BY <3>3, <3>4, <3>8
  <2>3. QED
    BY <2>1, <2>2
<1>12. r # <<>> => End(r[Len(r)]) = Edge(v, c)
  <2>1. CASE b # 0
    <3>1. n # <<>> /\ b \in 1 .. b
      BY <1>1, <1>3, <2>1
    <3>2. r[Len(r)] = n[b]
      BY <1>2, <1>5, <3>1
    <3>3. QED
      BY <1>3, <3>1, <3>2 DEF Added
  <2>2. CASE b = 0
    <3> SUFFICES ASSUME r # <<>> PROVE End(r[Len(r)]) = Edge(v, c)
      OBVIOUS
    <3>1. n = <<>> /\ Len(r) = a
      BY <1>1, <1>2, <1>3, <2>2
    <3>2. a # 0
      BY <1>2, <3>1, EmptySeq
    <3>3. q # <<>> /\ a \in 1 .. a
      BY <1>1, <1>3, <3>2
    <3>4. v = w /\ c = FALSE
      BY <1>3, <3>1 DEF Added
    <3>5. End(q[a]) = Edge(w, FALSE)
      BY <1>3, <3>3 DEF Tiled
    <3>6. QED
      BY <1>4, <3>1, <3>3, <3>4, <3>5
  <2>3. QED
    BY <2>1, <2>2
<1>13. Tiled(r, from, v, c)
  BY <1>7, <1>9, <1>10, <1>11, <1>12 DEF Tiled
<1>14. QED
  BY <1>13 DEF r
-----------------------------------------------------------------------------
(* What tcp_output sends.                                                  *)
LEMMA SentIs ==
    ASSUME NEW s \in ControlBlock
    PROVE  /\ SentNow(s) \in 0 .. Len(s.unsent) /\ Len(s.unsent) \in Nat
           /\ \A i \in 1 .. SentNow(s) : MaySend(s, i)
           /\ SentNow(s) < Len(s.unsent) => ~MaySend(s, SentNow(s) + 1)
<1> DEFINE n == Len(s.unsent)
           P == {i \in 1 .. n : MaySend(s, i)}
<1>1. n \in Nat /\ P \subseteq 1 .. n
  <2>1. s.unsent \in Seq(Segments)
    BY DEF ControlBlock
  <2>2. QED
    BY <2>1, LenProperties
<1>2. SentNow(s) = Leading(n, P)
  BY DEF SentNow
<1> HIDE DEF n, P
<1>3. /\ SentNow(s) \in 0 .. n /\ \A i \in 1 .. SentNow(s) : i \in P
      /\ SentNow(s) < n => SentNow(s) + 1 \notin P
  BY <1>1, <1>2, LeadingIs
<1>4. SentNow(s) < n => SentNow(s) + 1 \in 1 .. n
  BY <1>1, <1>3
<1>5. QED
  BY <1>1, <1>3, <1>4 DEF n, P

Gone(s) == [i \in 1 .. SentNow(s) |-> [s.unsent[i] EXCEPT !.moved = TRUE]]
Rest(s) == SubSeq(s.unsent, SentNow(s) + 1, Len(s.unsent))

LEMMA GoneIs ==
    ASSUME NEW s \in ControlBlock
    PROVE  /\ Gone(s) \in Seq(Segments) /\ Len(Gone(s)) = SentNow(s)
           /\ \A i \in 1 .. SentNow(s) : /\ Gone(s)[i].seq = s.unsent[i].seq /\ Gone(s)[i].fin = s.unsent[i].fin
                                         /\ Gone(s)[i].data = s.unsent[i].data /\ s.unsent[i] \in Segments
<1> DEFINE k == SentNow(s)
           e(i) == [s.unsent[i] EXCEPT !.moved = TRUE]
           G == [i \in 1 .. k |-> e(i)]
<1>1. s.unsent \in Seq(Segments)
  BY DEF ControlBlock
<1>2. k \in Nat /\ k <= Len(s.unsent) /\ Len(s.unsent) \in Nat
  BY SentIs
<1>3. \A i \in 1 .. k : s.unsent[i] \in Segments
  BY <1>1, <1>2, ElementOfSeq
<1>4. \A i \in 1 .. k : /\ e(i) \in Segments /\ e(i).seq = s.unsent[i].seq /\ e(i).fin = s.unsent[i].fin
                        /\ e(i).data = s.unsent[i].data
  BY <1>3 DEF Segments
<1>5. Gone(s) = G
  BY DEF Gone
<1> HIDE DEF k, e
<1>6. G \in [1 .. k -> Segments]
  BY <1>4
<1>7. G \in Seq(Segments) /\ Len(G) = k
  BY <1>2, <1>6
<1>8. \A i \in 1 .. k : G[i] = e(i)
  OBVIOUS
<1>9. QED
  BY <1>3, <1>4, <1>5, <1>7, <1>8 DEF k

LEMMA RestIs ==
    ASSUME NEW s \in ControlBlock
    PROVE  /\ Rest(s) \in Seq(Segments) /\ Len(Rest(s)) = Len(s.unsent) - SentNow(s)
           /\ \A i \in 1 .. Len(Rest(s)) : Rest(s)[i] = s.unsent[SentNow(s) + i]
<1> DEFINE k == SentNow(s)
           n == Len(s.unsent)
           r == Rest(s)
<1>1. s.unsent \in Seq(Segments)
  BY DEF ControlBlock
<1>2. k \in Nat /\ k <= n /\ n \in Nat
  BY SentIs
<1>3. \A i \in k + 1 .. n : s.unsent[i] \in Segments
  BY <1>1, <1>2, ElementOfSeq
<1>4. k + 1 \in Int /\ n \in Int
  BY <1>2
<1>5. r = SubSeq(s.unsent, k + 1, n)
  BY DEF Rest
<1>6. /\ r \in Seq(Segments) /\ Len(r) = (IF k + 1 <= n THEN n - (k + 1) + 1 ELSE 0)
      /\ \A i \in 1 .. n - (k + 1) + 1 : r[i] = s.unsent[(k + 1) + i - 1]
  BY <1>3, <1>4, <1>5, SubSeqProperties
<1> HIDE DEF k, n, r
<1>7. Len(r) = n - k
  BY <1>2, <1>6
<1>8. \A i \in 1 .. Len(r) : i \in 1 .. n - (k + 1) + 1 /\ (k + 1) + i - 1 = k + i
  BY <1>2, <1>7
<1>9. \A i \in 1 .. Len(r) : r[i] = s.unsent[k + i]
  BY <1>6, <1>8
<1>10. QED
  BY <1>6, <1>7, <1>9 DEF k, n, r

(* The fields that tcp_output leaves alone.                                *)
Kept(r, s) ==
    /\ r.lastack = s.lastack /\ r.snd_lbb = s.snd_lbb /\ r.snd_buf = s.snd_buf
    /\ r.snd_wnd = s.snd_wnd /\ r.snd_wl2 = s.snd_wl2 /\ r.closed = s.closed /\ r.dead = s.dead

LEMMA OutputIs ==
    ASSUME NEW s \in ControlBlock, BySeq(s.unacked \o Gone(s)) \in Seq(Segments),
           SentNow(s) > 0 => SeqEnd(s.unsent[SentNow(s)]) \in Number
    PROVE  /\ tcp_output(s) \in ControlBlock
           /\ tcp_output(s).unsent = Rest(s) /\ tcp_output(s).unacked = BySeq(s.unacked \o Gone(s))
           /\ tcp_output(s).snd_nxt = IF SentNow(s) > 0 /\ SeqLt(s.snd_nxt, SeqEnd(s.unsent[SentNow(s)]))
                                      THEN SeqEnd(s.unsent[SentNow(s)]) ELSE s.snd_nxt
           /\ tcp_output(s).running = (s.running \/ SentNow(s) > 0)
           /\ Kept(tcp_output(s), s)
<1> DEFINE k == SentNow(s)
           gone == [i \in 1..k |-> [s.unsent[i] EXCEPT !.moved = TRUE]]
           rest == SubSeq(s.unsent, k + 1, Len(s.unsent))
           a == BySeq(s.unacked \o gone)
           n == IF k > 0 /\ SeqLt(s.snd_nxt, SeqEnd(s.unsent[k])) THEN SeqEnd(s.unsent[k]) ELSE s.snd_nxt
           r == s.running \/ k > 0
           o == IF rest = <<>> THEN 0 ELSE s.oversize
           p == s.persist \/ (rest # <<>> /\ Reach(s, rest[1]) > s.snd_wnd)
           t == tcp_output(s)
<1>1. t = [s EXCEPT !.unsent = rest, !.unacked = a, !.snd_nxt = n, !.running = r, !.oversize = o,
                    !.persist = p, !.memerr = FALSE]
  BY Zenon DEF tcp_output
<1>2. gone = Gone(s) /\ rest = Rest(s)
  BY DEF Gone, Rest
<1>3. a \in Seq(Segments) /\ rest \in Seq(Segments)
  BY <1>2, RestIs
<1>4. n \in Number /\ r \in BOOLEAN /\ o \in Nat /\ p \in BOOLEAN
  BY DEF ControlBlock
<1> HIDE DEF k, gone, rest, a, n, r, o, p, t
<1>5. t.unsent = rest /\ t.unacked = a /\ t.snd_nxt = n /\ t.running = r /\ Kept(t, s)
  BY <1>1 DEF ControlBlock, Kept
<1>6. t \in ControlBlock
  <2>1. [s EXCEPT !.unsent = rest, !.unacked = a, !.snd_nxt = n] \in ControlBlock
    BY ONLY <1>3, <1>4, s \in ControlBlock DEF ControlBlock
  <2> DEFINE h == [s EXCEPT !.unsent = rest, !.unacked = a, !.snd_nxt = n]
  <2>2. t = [h EXCEPT !.running = r, !.oversize = o, !.persist = p, !.memerr = FALSE]
    BY ONLY <1>1, s \in ControlBlock DEF ControlBlock
  <2> HIDE DEF h
  <2>3. h \in ControlBlock
    BY ONLY <2>1 DEF h
  <2>4. QED
    BY ONLY <2>2, <2>3, <1>4, ZenonT(60) DEF ControlBlock
<1>7. t.unsent = Rest(s) /\ t.unacked = BySeq(s.unacked \o Gone(s))
  BY <1>2, <1>5, Zenon DEF a
<1>8. QED
  BY <1>5, <1>6, <1>7, Zenon DEF t, n, r, k
-----------------------------------------------------------------------------
(* The two queues of a control block are one.                             *)
LEMMA JoinParts ==
    ASSUME NEW S, NEW u \in Seq(S), NEW v \in Seq(S)
    PROVE  /\ u \o v \in Seq(S) /\ Len(u) \in Nat /\ Len(v) \in Nat /\ Len(u \o v) = Len(u) + Len(v)
           /\ \A i \in 1 .. Len(u) : (u \o v)[i] = u[i]
           /\ \A i \in 1 .. Len(v) : (u \o v)[Len(u) + i] = v[i]
           /\ \A i \in 1 .. Len(u) + Len(v) : i \in 1 .. Len(u) \/ \E j \in 1 .. Len(v) : i = Len(u) + j
<1> DEFINE r == u \o v
           a == Len(u)
           b == Len(v)
<1>1. a \in Nat /\ b \in Nat
  BY LenProperties
<1>2. /\ r \in Seq(S) /\ Len(r) = a + b
      /\ \A i \in 1 .. a + b : r[i] = IF i <= a THEN u[i] ELSE v[i - a]
  BY ConcatProperties
<1> HIDE DEF r, a, b
<1>3. \A i \in 1 .. a : i \in 1 .. a + b /\ i <= a
  BY <1>1
<1>4. \A i \in 1 .. b : a + i \in 1 .. a + b /\ ~(a + i <= a) /\ (a + i) - a = i
  BY <1>1
<1>5. \A i \in 1 .. a : r[i] = u[i]
  BY <1>2, <1>3, Zenon
<1>6. \A i \in 1 .. b : r[a + i] = v[i]
  <2> SUFFICES ASSUME NEW i \in 1 .. b PROVE r[a + i] = v[i]
    OBVIOUS
  <2>1. a + i \in 1 .. a + b /\ ~(a + i <= a) /\ (a + i) - a = i
    BY <1>4
  <2>2. r[a + i] = v[(a + i) - a]
    BY <1>2, <2>1, Zenon
  <2>3. QED
    BY <2>1, <2>2, Zenon
<1>7. \A i \in 1 .. a + b : i \in 1 .. a \/ \E j \in 1 .. b : i = a + j
  <2> SUFFICES ASSUME NEW i \in 1 .. a + b, i \notin 1 .. a PROVE \E j \in 1 .. b : i = a + j
    OBVIOUS
  <2>1. i - a \in 1 .. b /\ i = a + (i - a)
    BY <1>1
  <2>2. QED
    BY <2>1
<1>8. QED
  BY <1>1, <1>2, <1>5, <1>6, <1>7 DEF r, a, b

LEMMA JoinIs ==
    ASSUME NEW u \in Seq(Segments), NEW v \in Seq(Segments)
    PROVE  /\ u \o v \in Seq(Segments) /\ Len(u) \in Nat /\ Len(v) \in Nat /\ Len(u \o v) = Len(u) + Len(v)
           /\ \A i \in 1 .. Len(u) : (u \o v)[i] = u[i]
           /\ \A i \in 1 .. Len(v) : (u \o v)[Len(u) + i] = v[i]
           /\ \A i \in 1 .. Len(u) + Len(v) : i \in 1 .. Len(u) \/ \E j \in 1 .. Len(v) : i = Len(u) + j
BY JoinParts

(* The numbers of a queue rise.                                            *)
LEMMA TiledRises ==
    ASSUME NEW q \in Seq(Segments), NEW from \in Nat, NEW w \in 0 .. Units, NEW c \in BOOLEAN,
           Tiled(q, from, w, c)
    PROVE  \A i, j \in 1 .. Len(q) : SeqLt(q[i].seq, q[j].seq) <=> i < j
<1> SUFFICES ASSUME NEW i \in 1 .. Len(q), NEW j \in 1 .. Len(q)
             PROVE  SeqLt(q[i].seq, q[j].seq) <=> i < j
  OBVIOUS
<1> DEFINE n == Len(q)
           b(m) == At(q[m].seq)
           e(m) == End(q[m])
<1>1. \A m \in 1 .. n : q[m].seq \in Int /\ b(m) \in Nat /\ e(m) \in Nat /\ b(m) < e(m) /\ e(m) <= Units + 1
  <2> SUFFICES ASSUME NEW m \in 1 .. n
               PROVE q[m].seq \in Int /\ b(m) \in Nat /\ e(m) \in Nat /\ b(m) < e(m) /\ e(m) <= Units + 1
    OBVIOUS
  <2>1. Typed(q[m]) /\ Lies(q[m], w, c)
    BY TiledLies
  <2>2. QED
    BY <2>1, EndsAre DEF Lies
<1>2. \A l, m \in 1 .. n : l < m => e(l) <= b(m)
  BY TiledInOrder DEF InOrder
<1>3. i \in 1 .. n /\ j \in 1 .. n /\ n \in Nat
  BY LenProperties
<1>4. Units + 1 < Limit /\ Units \in Nat /\ Limit \in Nat
  BY SegmentsConstants
<1>5. SeqLt(q[i].seq, q[j].seq) <=> b(i) < b(j)
  <2>1. /\ q[i].seq \in Int /\ q[j].seq \in Int /\ At(q[i].seq) - At(q[j].seq) <= Limit - 1
        /\ At(q[j].seq) - At(q[i].seq) <= Limit
    <3>1. /\ q[i].seq \in Int /\ q[j].seq \in Int /\ b(i) \in Nat /\ b(j) \in Nat
          /\ b(i) <= Units /\ b(j) <= Units
      <4>1. /\ q[i].seq \in Int /\ b(i) \in Nat /\ e(i) \in Nat /\ b(i) < e(i) /\ e(i) <= Units + 1
            /\ q[j].seq \in Int /\ b(j) \in Nat /\ e(j) \in Nat /\ b(j) < e(j) /\ e(j) <= Units + 1
        BY <1>1, <1>3
      <4> HIDE DEF b, e
      <4>2. QED
        BY <1>4, <4>1, SMTT(30)
    <3> DEFINE x == b(i)
               y == b(j)
    <3> HIDE DEF x, y
    <3>2. x - y <= Limit - 1 /\ y - x <= Limit
      BY <1>4, <3>1, SMTT(30) DEF x, y
    <3>3. QED
      BY <3>1, <3>2 DEF x, y
  <2>2. QED
    BY <2>1, SeqLtIs
<1> HIDE DEF b, e, n
<1>6. b(i) < b(j) <=> i < j
  <2>1. i < j => b(i) < b(j)
    BY <1>1, <1>2, <1>3
  <2>2. j < i => b(j) < b(i)
    BY <1>1, <1>2, <1>3
  <2>3. b(i) \in Nat /\ b(j) \in Nat /\ i \in Nat /\ j \in Nat
    BY <1>1, <1>3
  <2>4. QED
    BY <2>1, <2>2, <2>3
<1>7. QED
  BY <1>5, <1>6

(* A queue whose numbers rise is in order.                                 *)
LEMMA RisingBySeq ==
    ASSUME NEW q \in Seq(Segments), \A i, j \in 1 .. Len(q) : SeqLt(q[i].seq, q[j].seq) <=> i < j
    PROVE  BySeq(q) = q
<1> DEFINE p == [i \in 1 .. Len(q) |-> i]
<1>1. Orders(p, q, q)
  <2>1. p \in [1 .. Len(q) -> 1 .. Len(q)]
    OBVIOUS
  <2>2. \A k \in 1 .. Len(q) : p[k] = k
    OBVIOUS
  <2> HIDE DEF p
  <2>3. \A k \in 1 .. Len(q) : q[k] = q[p[k]]
    BY <2>2
  <2>4. \A k \in 1 .. Len(q) : \E i \in 1 .. Len(q) : p[i] = k
    BY <2>2
  <2>5. QED
    BY <2>1, <2>3, <2>4 DEF Orders
<1> HIDE DEF p
<1>2. QED
  BY <1>1, BySeqIs

LEMMA BlockQueues ==
    ASSUME NEW s \in ControlBlock
    PROVE  s.unacked \in Seq(Segments) /\ s.unsent \in Seq(Segments)
BY DEF ControlBlock

(* What is sent from a queue in one piece goes behind what is not          *)
(* acknowledged, and nothing else changes.                                 *)
Follow(s) == s.unacked \o Gone(s)

LEMMA StraightOutput ==
    ASSUME NEW s \in ControlBlock, NEW from \in Nat, NEW w \in 0 .. Units, NEW c \in BOOLEAN,
           Tiled(Queue(s), from, w, c)
    PROVE  /\ Follow(s) \in Seq(Segments) /\ BySeq(Follow(s)) = Follow(s)
           /\ Like(Queue(s), Follow(s) \o Rest(s))
<1> DEFINE u == s.unacked
           v == s.unsent
           k == SentNow(s)
           g == Gone(s)
           r == Rest(s)
           q == u \o v
           a == u \o g
           t == a \o r
           m == Len(u)
           n == Len(v)
<1>1. u \in Seq(Segments) /\ v \in Seq(Segments)
  BY BlockQueues
<1>2. k \in 0 .. n /\ n \in Nat
  BY SentIs
<1>3. /\ g \in Seq(Segments) /\ Len(g) = k
      /\ \A i \in 1 .. k : g[i].seq = v[i].seq /\ g[i].data = v[i].data /\ g[i].fin = v[i].fin
  BY GoneIs
<1>4. r \in Seq(Segments) /\ Len(r) = n - k /\ \A i \in 1 .. Len(r) : r[i] = v[k + i]
  BY RestIs
<1>5. Queue(s) = q /\ Follow(s) = a /\ Follow(s) \o Rest(s) = t
  BY DEF Queue, Follow
<1> HIDE DEF u, v, k, g, r
<1>6. /\ q \in Seq(Segments) /\ m \in Nat /\ Len(q) = m + n
      /\ \A i \in 1 .. m : q[i] = u[i]
      /\ \A i \in 1 .. n : q[m + i] = v[i]
  BY <1>1, JoinIs
<1>7. /\ a \in Seq(Segments) /\ Len(a) = m + k
      /\ \A i \in 1 .. m : a[i] = u[i]
      /\ \A i \in 1 .. k : a[m + i] = g[i]
  BY <1>1, <1>3, JoinIs
<1> HIDE DEF a
<1>8. /\ t \in Seq(Segments) /\ Len(t) = Len(a) + Len(r)
      /\ \A i \in 1 .. Len(a) : t[i] = a[i]
      /\ \A i \in 1 .. Len(r) : t[Len(a) + i] = r[i]
  BY <1>4, <1>7, JoinIs
<1> HIDE DEF q, t, m, n
<1>9. Len(q) = Len(t)
  BY <1>2, <1>4, <1>6, <1>7, <1>8
<1>10. ASSUME NEW i \in 1 .. Len(q)
       PROVE  q[i].seq = t[i].seq /\ q[i].data = t[i].data /\ q[i].fin = t[i].fin
  <2>1. CASE i \in 1 .. m
    <3>1. q[i] = u[i] /\ a[i] = u[i] /\ i \in 1 .. Len(a)
      BY <1>2, <1>6, <1>7, <2>1
    <3>2. q[i] = t[i]
      BY <1>8, <3>1
    <3>3. QED
      BY <3>2
  <2>2. CASE i \in m + 1 .. m + k
    <3> DEFINE j == i - m
    <3>1. j \in 1 .. k /\ j \in 1 .. n /\ i = m + j /\ i \in 1 .. Len(a)
      BY <1>2, <1>6, <1>7, <2>2
    <3> HIDE DEF j
    <3>2. q[i] = v[j] /\ a[i] = g[j] /\ t[i] = a[i]
      BY <1>6, <1>7, <1>8, <3>1
    <3>3. QED
      BY <1>3, <3>1, <3>2
  <2>3. CASE i \in m + k + 1 .. m + n
    <3> DEFINE j == i - m - k
               l == k + j
    <3>1. j \in 1 .. Len(r) /\ l \in 1 .. n /\ i = m + l /\ i = Len(a) + j
      BY <1>2, <1>4, <1>6, <1>7, <2>3
    <3>2. r[j] = v[l]
      BY <1>4, <3>1
    <3> HIDE DEF j, l
    <3>3. q[i] = v[l] /\ t[i] = r[j]
      BY <1>6, <1>8, <3>1
    <3>4. QED
      BY <3>2, <3>3
  <2>4. QED
    BY <1>2, <1>6, <2>1, <2>2, <2>3
<1>11. Like(q, t)
  BY <1>9, <1>10 DEF Like
<1>12. \A i \in 1 .. Len(a) : i \in 1 .. Len(q) /\ a[i].seq = q[i].seq
  <2>1. \A i \in 1 .. Len(a) : i \in 1 .. Len(q)
    BY <1>2, <1>6, <1>7
  <2>2. QED
    BY <1>8, <1>10, <2>1
<1>13. \A i, j \in 1 .. Len(q) : SeqLt(q[i].seq, q[j].seq) <=> i < j
  <2>1. Tiled(q, from, w, c)
    BY <1>5
  <2>2. QED
    BY <1>6, <2>1, TiledRises
<1>14. \A i, j \in 1 .. Len(a) : SeqLt(a[i].seq, a[j].seq) <=> i < j
  BY <1>12, <1>13
<1>15. BySeq(a) = a
  BY <1>7, <1>14, RisingBySeq
<1>16. QED
  BY <1>5, <1>7, <1>11, <1>15

(* The first n of q were sent or are sent now.                             *)
Within(s, q, n) ==
    \A i \in 1 .. n : WasSent(s, q[i]) \/ \E j \in 1 .. SentNow(s) : q[i] = s.unsent[j]

LEMMA StraightWithin ==
    ASSUME NEW s \in ControlBlock, \A i \in 1 .. Len(s.unacked) : WasSent(s, s.unacked[i])
    PROVE  Within(s, Queue(s), Len(Follow(s)))
<1> DEFINE u == s.unacked
           v == s.unsent
           k == SentNow(s)
           g == Gone(s)
           q == u \o v
           a == u \o g
           m == Len(u)
           n == Len(v)
<1>1. u \in Seq(Segments) /\ v \in Seq(Segments)
  BY BlockQueues
<1>2. k \in 0 .. n /\ n \in Nat
  BY SentIs
<1>3. g \in Seq(Segments) /\ Len(g) = k
  BY GoneIs
<1>4. Queue(s) = q /\ Follow(s) = a
  BY DEF Queue, Follow
<1>5. \A i \in 1 .. m : WasSent(s, u[i])
  OBVIOUS
<1> HIDE DEF u, v, g
<1>6. /\ m \in Nat
      /\ \A i \in 1 .. m : q[i] = u[i]
      /\ \A i \in 1 .. n : q[m + i] = v[i]
  BY <1>1, JoinIs
<1>7. /\ Len(a) = m + k
      /\ \A i \in 1 .. m + k : i \in 1 .. m \/ \E j \in 1 .. k : i = m + j
  <2>1. /\ Len(a) = Len(u) + Len(g)
        /\ \A i \in 1 .. Len(u) + Len(g) : i \in 1 .. Len(u) \/ \E j \in 1 .. Len(g) : i = Len(u) + j
    BY <1>1, <1>3, JoinIs
  <2>2. Len(g) = k
    BY <1>3
  <2> HIDE DEF a, k
  <2>3. QED
    BY <2>1, <2>2, Zenon
<1> HIDE DEF q, a, m, n, k
<1>8. ASSUME NEW i \in 1 .. Len(a)
      PROVE  WasSent(s, q[i]) \/ \E j \in 1 .. k : q[i] = v[j]
  <2>1. CASE i \in 1 .. m
    BY <1>5, <1>6, <2>1
  <2>2. CASE \E j \in 1 .. k : i = m + j
    <3>1. PICK j \in 1 .. k : i = m + j
      BY <2>2
    <3>2. j \in 1 .. n
      BY <1>2
    <3>3. q[i] = v[j]
      BY <1>6, <3>1, <3>2
    <3>4. QED
      BY <3>3
  <2>3. QED
    BY <1>7, <2>1, <2>2
<1>9. QED
  BY <1>4, <1>8 DEF Within, k, v

(* The oldest segment is to be sent again, before the others.              *)
Recalled(s, u, v) == u # <<>> /\ s.unacked = Tail(u) /\ s.unsent = <<u[1]>> \o v

LEMMA RecalledOutput ==
    ASSUME NEW s \in ControlBlock, NEW from \in Nat, NEW w \in 0 .. Units, NEW c \in BOOLEAN,
           NEW u \in Seq(Segments), NEW v \in Seq(Segments), Recalled(s, u, v),
           Tiled(u \o v, from, w, c), SentNow(s) > 0,
           \A i \in 1 .. Len(u) : WasSent(s, u[i])
    PROVE  /\ BySeq(Follow(s)) \in Seq(Segments)
           /\ Like(u \o v, BySeq(Follow(s)) \o Rest(s))
           /\ Within(s, u \o v, Len(BySeq(Follow(s))))
<1> DEFINE x == <<u[1]>>
           y == s.unsent
           z == s.unacked
           k == SentNow(s)
           g == Gone(s)
           r == Rest(s)
           q == u \o v
           a == Follow(s)
           m == Len(u)
           n == Len(v)
           N == 1 .. m - 1 + k
           p == [i \in N |-> IF i = 1 THEN m ELSE IF i <= m THEN i - 1 ELSE i]
           b == [i \in N |-> a[p[i]]]
           t == b \o r
<1>1. u # <<>> /\ z = Tail(u) /\ y = x \o v
  BY DEF Recalled
<1>2. m \in Nat /\ m > 0 /\ n \in Nat
  BY <1>1, LenProperties, EmptySeq
<1>3. x \in Seq(Segments) /\ Len(x) = 1 /\ x[1] = u[1]
  <2>1. u[1] \in Segments
    <3>1. 1 \in 1 .. m
      BY <1>2
    <3>2. QED
      BY <3>1, ElementOfSeq
  <2>2. QED
    BY <2>1
<1>4. z \in Seq(Segments) /\ Len(z) = m - 1 /\ \A i \in 1 .. m - 1 : z[i] = u[i + 1]
  BY <1>1, HeadTailProperties
<1>5. y \in Seq(Segments) /\ Len(y) = 1 + n /\ y[1] = u[1] /\ \A i \in 1 .. n : y[1 + i] = v[i]
  <2>1. /\ x \o v \in Seq(Segments) /\ Len(x \o v) = Len(x) + Len(v)
        /\ \A i \in 1 .. Len(x) : (x \o v)[i] = x[i]
        /\ \A i \in 1 .. Len(v) : (x \o v)[Len(x) + i] = v[i]
    BY <1>3, JoinIs
  <2> HIDE DEF x, y
  <2>2. QED
    BY <1>1, <1>3, <2>1
<1>6. k \in 0 .. Len(y) /\ k > 0
  BY SentIs
<1>7. /\ g \in Seq(Segments) /\ Len(g) = k
      /\ \A i \in 1 .. k : g[i].seq = y[i].seq /\ g[i].data = y[i].data /\ g[i].fin = y[i].fin
  BY GoneIs
<1>8. r \in Seq(Segments) /\ Len(r) = Len(y) - k /\ \A i \in 1 .. Len(r) : r[i] = y[k + i]
  BY RestIs
<1>9. a = z \o g
  BY DEF Follow
<1>10. Tiled(q, from, w, c) /\ \A i \in 1 .. m : WasSent(s, u[i])
  OBVIOUS
<1> HIDE DEF x, y, z, k, g, r, a
<1>11. /\ q \in Seq(Segments) /\ Len(q) = m + n
       /\ \A i \in 1 .. m : q[i] = u[i]
       /\ \A i \in 1 .. n : q[m + i] = v[i]
  BY JoinIs
<1>12. /\ a \in Seq(Segments) /\ Len(a) = m - 1 + k
       /\ \A i \in 1 .. m - 1 : a[i] = z[i]
       /\ \A i \in 1 .. k : a[m - 1 + i] = g[i]
  <2>1. /\ z \o g \in Seq(Segments) /\ Len(z \o g) = Len(z) + Len(g)
        /\ \A i \in 1 .. Len(z) : (z \o g)[i] = z[i]
        /\ \A i \in 1 .. Len(g) : (z \o g)[Len(z) + i] = g[i]
    BY <1>4, <1>7, JoinIs
  <2> HIDE DEF m
  <2>2. QED
    BY <1>4, <1>7, <1>9, <2>1, Zenon
<1> HIDE DEF q, m, n
<1>13. /\ p \in [N -> N]
       /\ p[1] = m /\ 1 \in N
       /\ \A i \in 2 .. m : p[i] = i - 1 /\ i \in N
       /\ \A i \in m + 1 .. m - 1 + k : p[i] = i /\ i \in N
  BY <1>2, <1>5, <1>6
<1>14. \A i \in N : i = 1 \/ i \in 2 .. m \/ i \in m + 1 .. m - 1 + k
  BY <1>2
<1>15. N = 1 .. Len(a)
  BY <1>12
<1>16. \A i \in N : b[i] = a[p[i]]
  OBVIOUS
<1>17. b \in Seq(Segments) /\ Len(b) = m - 1 + k
  <2>1. \A i \in N : a[p[i]] \in Segments
    BY <1>12, <1>13, <1>15, ElementOfSeq
  <2> HIDE DEF p
  <2>2. b \in [N -> Segments]
    BY <2>1
  <2>3. m - 1 + k \in Nat
    BY <1>2, <1>6
  <2> HIDE DEF b
  <2>4. QED
    BY <2>2, <2>3
<1>18. \A k1 \in N : \E i \in N : p[i] = k1
  <2> SUFFICES ASSUME NEW j \in N PROVE \E i \in N : p[i] = j
    OBVIOUS
  <2> HIDE DEF p
  <2>1. CASE j = m
    BY <1>13, <2>1
  <2>2. CASE j < m
    <3>1. j + 1 \in 2 .. m /\ (j + 1) - 1 = j
      BY <1>2, <2>2
    <3>2. p[j + 1] = j /\ j + 1 \in N
      BY <1>13, <3>1
    <3>3. QED
      BY <3>2
  <2>3. CASE j > m
    <3>1. j \in m + 1 .. m - 1 + k
      BY <1>2, <2>3
    <3>2. QED
      BY <1>13, <3>1
  <2>4. QED
    BY <1>2, <2>1, <2>2, <2>3
<1> HIDE DEF p, b, N
<1>19. ASSUME NEW i \in N
       PROVE  /\ i \in 1 .. Len(q) /\ b[i].seq = q[i].seq /\ b[i].data = q[i].data /\ b[i].fin = q[i].fin
              /\ i \in 1 .. m \/ \E j \in 1 .. k : q[i] = y[j]
  <2>1. CASE i = 1
    <3>1. 1 \in 1 .. k /\ m - 1 + 1 = m /\ 1 \in 1 .. m /\ 1 \in 1 .. Len(q)
      BY <1>2, <1>5, <1>6, <1>11
    <3>2. b[1] = a[m] /\ a[m - 1 + 1] = g[1]
      BY <1>12, <1>13, <1>16, <3>1
    <3>3. b[1] = g[1] /\ y[1] = u[1] /\ q[1] = u[1]
      BY <1>5, <1>11, <3>1, <3>2
    <3>4. QED
      BY <1>7, <2>1, <3>1, <3>3
  <2>2. CASE i \in 2 .. m
    <3> DEFINE h == i - 1
    <3>1. h \in 1 .. m - 1 /\ h + 1 = i /\ i \in 1 .. m /\ i \in 1 .. Len(q) /\ p[i] = h
      BY <1>2, <1>11, <1>13, <2>2
    <3> HIDE DEF h
    <3>2. b[i] = a[h] /\ a[h] = z[h] /\ z[h] = u[h + 1] /\ q[i] = u[i]
      BY <1>4, <1>11, <1>12, <1>16, <3>1
    <3>3. b[i] = q[i]
      BY <3>1, <3>2
    <3>4. QED
      BY <3>1, <3>3
  <2>3. CASE i \in m + 1 .. m - 1 + k
    <3> DEFINE h == i - m
               j == h + 1
    <3>1. /\ h \in 1 .. n /\ j \in 1 .. k /\ j = 1 + h /\ m - 1 + j = i /\ m + h = i /\ i \in 1 .. Len(q)
          /\ p[i] = i
      BY <1>2, <1>5, <1>6, <1>11, <1>13, <2>3
    <3> HIDE DEF h, j
    <3>2. b[i] = a[m - 1 + j] /\ a[m - 1 + j] = g[j] /\ y[1 + h] = v[h] /\ q[m + h] = v[h]
      <4>1. b[i] = a[m - 1 + j]
        BY <1>16, <3>1
      <4>2. a[m - 1 + j] = g[j]
        BY <1>12, <3>1
      <4>3. y[1 + h] = v[h]
        BY <1>5, <3>1
      <4>4. q[m + h] = v[h]
        BY <1>11, <3>1
      <4>5. QED
        BY <4>1, <4>2, <4>3, <4>4
    <3>3. b[i] = g[j] /\ q[i] = y[j]
      BY <3>1, <3>2
    <3>4. QED
      BY <1>7, <3>1, <3>3
  <2>4. QED
    BY <1>14, <2>1, <2>2, <2>3
<1>20. /\ t \in Seq(Segments) /\ Len(t) = Len(b) + Len(r)
       /\ \A i \in 1 .. Len(b) : t[i] = b[i]
       /\ \A i \in 1 .. Len(r) : t[Len(b) + i] = r[i]
  BY <1>8, <1>17, JoinIs
<1> HIDE DEF t
<1>21. Len(q) = Len(t)
  BY <1>2, <1>5, <1>6, <1>8, <1>11, <1>17, <1>20
<1>22. N = 1 .. Len(b)
  BY <1>17 DEF N
<1>23. ASSUME NEW i \in 1 .. Len(q)
       PROVE  q[i].seq = t[i].seq /\ q[i].data = t[i].data /\ q[i].fin = t[i].fin
  <2>1. CASE i \in N
    <3>1. t[i] = b[i]
      BY <1>20, <1>22, <2>1
    <3>2. QED
      BY <1>19, <2>1, <3>1
  <2>2. CASE i \notin N
    <3> DEFINE j == i - (m - 1 + k)
               h == k + j - 1
    <3>1. j \in 1 .. Len(r) /\ h \in 1 .. n /\ i = m + h /\ i = Len(b) + j /\ k + j = 1 + h
      BY <1>2, <1>5, <1>6, <1>8, <1>11, <1>17, <2>2 DEF N
    <3> HIDE DEF j, h
    <3>2. r[j] = y[k + j] /\ y[1 + h] = v[h] /\ q[m + h] = v[h] /\ t[Len(b) + j] = r[j]
      BY <1>5, <1>8, <1>11, <1>20, <3>1
    <3>3. q[i] = t[i]
      BY <3>1, <3>2
    <3>4. QED
      BY <3>3
  <2>3. QED
    BY <2>1, <2>2
<1>24. Like(q, t)
  BY <1>21, <1>23 DEF Like
<1>25. \A i, j \in 1 .. Len(q) : SeqLt(q[i].seq, q[j].seq) <=> i < j
  BY <1>10, <1>11, TiledRises
<1>26. \A i, j \in 1 .. Len(b) : SeqLt(b[i].seq, b[j].seq) <=> i < j
  BY <1>19, <1>22, <1>25
<1>27. Orders(p, a, b)
  BY <1>12, <1>13, <1>16, <1>17, <1>18, <1>22, <1>26 DEF Orders
<1>28. BySeq(a) = b
  BY <1>12, <1>17, <1>27, BySeqIs
<1>29. Within(s, q, Len(b))
  <2> SUFFICES ASSUME NEW i \in 1 .. Len(b)
               PROVE  WasSent(s, q[i]) \/ \E j \in 1 .. k : q[i] = y[j]
    BY DEF Within, k, y
  <2>1. i \in 1 .. m => WasSent(s, q[i])
    BY <1>10, <1>11
  <2>2. QED
    BY <1>19, <1>22, <2>1
<1>30. QED
  BY <1>17, <1>24, <1>28, <1>29 DEF q, t, r, a
-----------------------------------------------------------------------------
(* What the window is compared with.                                       *)
LEMMA ReachIs ==
    ASSUME NEW s \in ControlBlock, NEW g, Typed(g), At(s.lastack) <= DataEnd(g), DataEnd(g) <= Units
    PROVE  Reach(s, g) = DataEnd(g) - At(s.lastack)
<1> DEFINE l == Len(g.data)
           x == g.seq + l
           y == s.lastack
           t == g.seq - y + l
           d == DataEnd(g)
<1>1. g.seq \in Int /\ l \in Nat /\ d = At(g.seq) + l /\ d \in Nat
  BY EndsAre
<1>2. y \in Int /\ At(y) \in Nat
  <2>1. y \in Int
    BY SegmentsConstants DEF ControlBlock, Number
  <2>2. QED
    BY <2>1, AtTyped
<1>3. Units < SeqSpace /\ SeqSpace \in Nat /\ Units \in Nat
  BY SegmentsConstants
<1>4. d \in Number
  BY <1>1, <1>3 DEF Number
<1>5. At(x) = d /\ x \in Int
  BY <1>1, <1>4, AtPlus
<1>6. Reach(s, g) = t % SeqSpace
  BY DEF Reach
<1>7. Ahead(x, y) = (x - y) % SeqSpace
  BY DEF Ahead
<1>8. t = x - y
  <2> HIDE DEF l, y
  <2>1. QED
    BY <1>1, <1>2
<1>9. Ahead(x, y) = IF At(y) <= At(x) THEN At(x) - At(y) ELSE At(x) - At(y) + SeqSpace
  BY <1>2, <1>5, AheadIs
<1>10. At(y) <= d
  OBVIOUS
<1> HIDE DEF t, x, y, d
<1>11. Reach(s, g) = Ahead(x, y)
  BY <1>6, <1>7, <1>8, Zenon
<1>12. QED
  BY <1>5, <1>9, <1>10, <1>11 DEF d, y

LEMMA MaySendIs ==
    ASSUME NEW s \in ControlBlock, NEW i, Typed(s.unsent[i]), At(s.lastack) <= DataEnd(s.unsent[i]),
           DataEnd(s.unsent[i]) <= Units, MaySend(s, i)
    PROVE  DataEnd(s.unsent[i]) <= At(s.lastack) + s.snd_wnd
<1> DEFINE d == DataEnd(s.unsent[i])
           a == At(s.lastack)
           w == s.snd_wnd
           c == s.cwnd
           r == Reach(s, s.unsent[i])
<1>1. r = d - a
  BY ReachIs
<1>2. w \in Nat /\ c \in Nat /\ s.lastack \in Int
  BY SegmentsConstants DEF ControlBlock, Number
<1>3. d \in Nat /\ a \in Nat
  BY <1>2, EndsAre, AtTyped
<1>4. r <= Min({w, c})
  BY DEF MaySend
<1>5. Min({w, c}) = IF w <= c THEN w ELSE c
  BY <1>2, MinIs
<1> HIDE DEF d, a, w, c, r
<1>6. d <= a + w
  BY <1>1, <1>2, <1>3, <1>4, <1>5
<1>7. QED
  BY <1>6 DEF d, a, w

(* A block s that sends, w units being written, when q is its queue.       *)
ToSend(s, w) ==
    \A j \in 1 .. SentNow(s) :
        /\ Typed(s.unsent[j]) /\ PieceOf(s.unsent[j], {}, w, s.closed)
        /\ At(s.lastack) < End(s.unsent[j]) /\ End(s.unsent[j]) <= End(s.unsent[SentNow(s)])

Sends(s, w, q) ==
    /\ Counts(s, w)
    /\ q \in Seq(Segments) /\ Tiled(q, At(s.lastack), w, s.closed)
    /\ BySeq(Follow(s)) \in Seq(Segments)
    /\ Like(q, BySeq(Follow(s)) \o Rest(s))
    /\ Within(s, q, Len(BySeq(Follow(s))))
    /\ ToSend(s, w)
    /\ BySeq(Follow(s)) # <<>> => s.running \/ SentNow(s) > 0
    /\ SentNow(s) = 0 => BySeq(Follow(s)) = s.unacked

(* How far more is sent.                                                   *)
Further(s, r) ==
    /\ At(s.snd_nxt) <= At(r.snd_nxt)
    /\ \/ r.snd_nxt = s.snd_nxt
       \/ At(r.snd_nxt) <= At(s.lastack) + s.snd_wnd + (IF s.closed THEN 1 ELSE 0)
    /\ SentNow(s) > 0 => At(s.lastack) < At(r.snd_nxt)
    /\ SentNow(s) = 0 => r.snd_nxt = s.snd_nxt /\ r.unacked = s.unacked

FramesSent(s, r, w) ==
    \A i \in 1 .. Len(Frames(s)) :
        PieceOf(Frames(s)[i], {}, w, s.closed) /\ End(Frames(s)[i]) <= At(r.snd_nxt)

LEMMA FramesAre ==
    ASSUME NEW s \in ControlBlock
    PROVE  /\ Frames(s) \in Seq(FrameSet) /\ Len(Frames(s)) = SentNow(s)
           /\ \A i \in 1 .. SentNow(s) : /\ Frames(s)[i].seq = s.unsent[i].seq
                                         /\ Frames(s)[i].data = s.unsent[i].data
                                         /\ Frames(s)[i].fin = s.unsent[i].fin
<1> DEFINE k == SentNow(s)
           e(i) == Frame(s.unsent[i].seq, s.unsent[i].data, s.unsent[i].fin)
           G == [i \in 1 .. k |-> e(i)]
<1>1. k \in Nat
  BY SentIs
<1>2. \A i \in 1 .. k : s.unsent[i] \in Segments
  BY GoneIs
<1>3. \A i \in 1 .. k : /\ e(i) \in FrameSet /\ e(i).seq = s.unsent[i].seq /\ e(i).fin = s.unsent[i].fin
                        /\ e(i).data = s.unsent[i].data
  BY <1>2 DEF Segments, Frame, FrameSet
<1>4. Frames(s) = G
  BY DEF Frames
<1> HIDE DEF k, e
<1>5. G \in [1 .. k -> FrameSet]
  BY <1>3
<1>6. G \in Seq(FrameSet) /\ Len(G) = k
  BY <1>1, <1>5
<1>7. \A i \in 1 .. k : G[i] = e(i)
  OBVIOUS
<1>8. QED
  BY <1>3, <1>4, <1>6, <1>7 DEF k

(* Where each of the fields of the result comes from.                      *)
LEMMA NextIs ==
    ASSUME NEW s \in ControlBlock, NEW w \in 0 .. Units, Counts(s, w), ToSend(s, w),
           SentNow(s) > 0
    PROVE  /\ SeqEnd(s.unsent[SentNow(s)]) \in Number
           /\ At(SeqEnd(s.unsent[SentNow(s)])) = End(s.unsent[SentNow(s)])
           /\ SeqLt(s.snd_nxt, SeqEnd(s.unsent[SentNow(s)]))
                <=> At(s.snd_nxt) < End(s.unsent[SentNow(s)])
           /\ End(s.unsent[SentNow(s)]) \in Nat /\ At(s.snd_nxt) \in Nat /\ At(s.lastack) \in Nat
           /\ End(s.unsent[SentNow(s)]) <= Edge(w, s.closed)
           /\ s.snd_wnd \in Nat
           /\ End(s.unsent[SentNow(s)]) <= At(s.lastack) + s.snd_wnd + (IF s.closed THEN 1 ELSE 0)
<1> DEFINE k == SentNow(s)
           g == s.unsent[k]
           x == s.snd_nxt
           y == SeqEnd(g)
<1>1. k \in 1 .. k /\ MaySend(s, k)
  BY SentIs
<1>2. Typed(g) /\ PieceOf(g, {}, w, s.closed) /\ At(s.lastack) < End(g)
  BY <1>1 DEF ToSend
<1>3. s.closed \in BOOLEAN /\ x \in Int /\ s.lastack \in Int /\ s.snd_wnd \in Nat
  BY SegmentsConstants DEF ControlBlock, Number
<1>4. Lies(g, w, s.closed)
  BY <1>2, <1>3, PieceLies
<1>5. End(g) \in Nat /\ DataEnd(g) \in Nat
  BY <1>2, EndsAre
<1>6. At(x) \in Nat /\ At(s.lastack) \in Nat
  BY <1>3, AtTyped
<1>7. At(x) <= Edge(w, s.closed)
  BY DEF Counts
<1>8. At(y) = End(g) /\ y \in Number /\ y \in Int
  BY <1>4 DEF Lies, Number
<1>9. SeqLt(x, y) <=> At(x) < At(y)
  <2> DEFINE a == At(x)
             b == End(g)
             e == Edge(w, s.closed)
  <2>1. b <= e /\ a <= e /\ e \in Nat /\ e < Limit /\ a \in Nat /\ b \in Nat /\ Limit \in Nat
    BY <1>3, <1>4, <1>5, <1>6, <1>7, EdgeIs, SegmentsConstants DEF Lies
  <2> HIDE DEF a, b, e
  <2>2. a - b <= Limit - 1 /\ b - a <= Limit
    BY <2>1
  <2>3. At(x) - At(y) <= Limit - 1 /\ At(y) - At(x) <= Limit
    BY <1>8, <2>2 DEF a, b
  <2>4. QED
    BY <1>3, <1>8, <2>3, SeqLtIs
<1>10. End(g) <= At(s.lastack) + s.snd_wnd + (IF s.closed THEN 1 ELSE 0)
  <2> DEFINE d == DataEnd(g)
             a == At(s.lastack)
             e == End(g)
             v == s.snd_wnd
  <2>1. /\ e = d + (IF g.fin THEN 1 ELSE 0) /\ d <= w /\ a < e /\ g.fin \in BOOLEAN
        /\ (g.fin => s.closed) /\ d \in Nat /\ a \in Nat /\ v \in Nat
    BY <1>2, <1>3, <1>4, <1>5, <1>6 DEF Lies, Typed, PieceOf
  <2>2. Units \in Nat
    BY SegmentsConstants
  <2> HIDE DEF d, a, e, v
  <2>3. a <= d /\ d <= Units
    BY <2>1, <2>2
  <2>4. d <= a + v
    BY <1>1, <1>2, <2>3, MaySendIs DEF d, a, v
  <2>5. e <= a + v + (IF s.closed THEN 1 ELSE 0)
    BY <1>3, <2>1, <2>4
  <2>6. QED
    BY <2>5 DEF e, a, v
<1>11. QED
  BY <1>3, <1>4, <1>5, <1>6, <1>8, <1>9, <1>10 DEF Lies

(* The numbers of a control block.                                         *)
LEMMA BlockNumbers ==
    ASSUME NEW s \in ControlBlock
    PROVE  /\ s.snd_nxt \in Int /\ s.lastack \in Int /\ s.snd_lbb \in Int /\ s.snd_wl2 \in Int
           /\ At(s.snd_nxt) \in Nat /\ At(s.lastack) \in Nat /\ At(s.snd_lbb) \in Nat
           /\ At(s.snd_wl2) \in Nat /\ s.snd_wnd \in Nat /\ s.closed \in BOOLEAN
<1>1. /\ s.snd_nxt \in Int /\ s.lastack \in Int /\ s.snd_lbb \in Int /\ s.snd_wl2 \in Int
      /\ s.snd_wnd \in Nat /\ s.closed \in BOOLEAN
  BY SegmentsConstants DEF ControlBlock, Number
<1>2. QED
  BY <1>1, AtTyped

(* Where the next number to send is then.                                  *)
LEMMA NextOf ==
    ASSUME NEW s \in ControlBlock, NEW w \in 0 .. Units, NEW q, Sends(s, w, q)
    PROVE  /\ tcp_output(s) \in ControlBlock /\ Kept(tcp_output(s), s)
           /\ tcp_output(s).unsent = Rest(s) /\ tcp_output(s).unacked = BySeq(Follow(s))
           /\ tcp_output(s).running = (s.running \/ SentNow(s) > 0)
           /\ Further(s, tcp_output(s))
           /\ At(tcp_output(s).snd_nxt) <= Edge(w, s.closed)
           /\ SentNow(s) > 0 => End(s.unsent[SentNow(s)]) <= At(tcp_output(s).snd_nxt)
<1> DEFINE k == SentNow(s)
           y == SeqEnd(s.unsent[k])
           x == s.snd_nxt
           r == tcp_output(s)
           a == At(s.lastack)
           e == End(s.unsent[k])
           v == s.snd_wnd
           c == IF s.closed THEN 1 ELSE 0
           m == Edge(w, s.closed)
<1>1. /\ Counts(s, w) /\ ToSend(s, w) /\ BySeq(Follow(s)) \in Seq(Segments)
      /\ k = 0 => BySeq(Follow(s)) = s.unacked
  BY DEF Sends
<1>2. ASSUME k > 0
      PROVE  /\ y \in Number /\ At(y) = e /\ (SeqLt(x, y) <=> At(x) < e)
             /\ e \in Nat /\ a \in Nat /\ e <= m /\ v \in Nat
             /\ e <= a + v + c
  BY <1>1, <1>2, NextIs
<1>3. k > 0 => y \in Number
  BY <1>2
<1>4. Follow(s) = s.unacked \o Gone(s)
  BY DEF Follow
<1>5. /\ r \in ControlBlock /\ Kept(r, s) /\ r.unsent = Rest(s) /\ r.unacked = BySeq(Follow(s))
      /\ r.running = (s.running \/ k > 0)
      /\ r.snd_nxt = IF k > 0 /\ SeqLt(x, y) THEN y ELSE x
  BY <1>1, <1>3, <1>4, OutputIs
<1>6. k \in Nat
  BY SentIs
<1>7. k > 0 => a < e
  <2> SUFFICES ASSUME k > 0 PROVE a < e
    OBVIOUS
  <2>1. k \in 1 .. k
    BY <1>6
  <2>2. QED
    BY <1>1, <2>1 DEF ToSend
<1>8. At(x) \in Nat /\ At(x) <= m
  <2>1. x \in Int
    BY SegmentsConstants DEF ControlBlock, Number
  <2>2. QED
    BY <1>1, <2>1, AtTyped DEF Counts
<1> DEFINE n == At(r.snd_nxt)
<1>9. k = 0 => r.snd_nxt = x /\ r.unacked = s.unacked
  BY <1>1, <1>5
<1> HIDE DEF y, x, e, a, v, c, m, k, r
<1>10. k = 0 => r.snd_nxt = x /\ n = At(x)
  BY <1>5
<1>11. CASE k > 0
  <2>1. n = IF At(x) < e THEN e ELSE At(x)
    BY <1>2, <1>5, <1>11
  <2> HIDE DEF n
  <2>2. At(x) <= n /\ e <= n /\ n <= m /\ a < n
    BY <1>2, <1>7, <1>8, <1>11, <2>1
  <2>3. r.snd_nxt = x \/ n <= a + v + c
    <3>1. CASE At(x) < e
      BY <1>2, <1>11, <2>1, <3>1
    <3>2. CASE ~(At(x) < e)
      BY <1>2, <1>5, <1>11, <3>2
    <3>3. QED
      BY <3>1, <3>2
  <2>4. k # 0
    BY <1>11
  <2>5. Further(s, r)
    BY <1>11, <2>2, <2>3, <2>4, Zenon DEF Further, x, n, a, v, c, k
  <2>6. QED
    BY <1>5, <2>2, <2>5 DEF k, e, r, n, m
<1>12. CASE k = 0
  <2>1. n <= m /\ At(x) <= n /\ ~(k > 0)
    BY <1>8, <1>10, <1>12
  <2>2. Further(s, r)
    BY <1>9, <1>12, <2>1, Zenon DEF Further, x, n, a, v, c, k
  <2>3. QED
    BY <1>5, <2>1, <2>2, Zenon DEF k, e, r, n, m
<1>13. QED
  BY <1>6, <1>11, <1>12

(* tcp_output keeps what the sender knows.                                 *)
LEMMA OutputKeeps ==
    ASSUME NEW s \in ControlBlock, NEW w \in 0 .. Units, NEW q, Sends(s, w, q)
    PROVE  /\ tcp_output(s) \in ControlBlock /\ Kept(tcp_output(s), s)
           /\ SenderFits(tcp_output(s), w)
           /\ Further(s, tcp_output(s)) /\ FramesSent(s, tcp_output(s), w)
           /\ Frames(s) \in Seq(FrameSet)
<1> DEFINE r == tcp_output(s)
           k == SentNow(s)
           b == BySeq(Follow(s))
           d == Rest(s)
           l == Len(b)
           t == b \o d
<1>1. /\ r \in ControlBlock /\ Kept(r, s) /\ r.unsent = d /\ r.unacked = b
      /\ r.running = (s.running \/ k > 0)
      /\ Further(s, r)
      /\ At(r.snd_nxt) <= Edge(w, s.closed)
      /\ k > 0 => End(s.unsent[k]) <= At(r.snd_nxt)
  BY NextOf
<1>2. /\ Counts(s, w) /\ q \in Seq(Segments) /\ Tiled(q, At(s.lastack), w, s.closed)
      /\ b \in Seq(Segments) /\ Like(q, t) /\ Within(s, q, l) /\ ToSend(s, w)
      /\ b # <<>> => s.running \/ k > 0
  BY DEF Sends
<1>3. d \in Seq(Segments)
  BY RestIs
<1>4. /\ k \in Nat /\ At(s.snd_nxt) \in Nat /\ At(r.snd_nxt) \in Nat /\ At(s.lastack) \in Nat
      /\ s.snd_wnd \in Nat
  <2>1. k \in Nat
    BY SentIs
  <2>2. r \in ControlBlock
    BY <1>1
  <2> HIDE DEF r, k
  <2>3. QED
    BY <2>1, <2>2, BlockNumbers
<1> HIDE DEF r, k, b, d
<1>5. Kept(r, s)
  BY <1>1
<1>6. At(s.snd_nxt) <= At(r.snd_nxt)
  BY <1>1 DEF Further
<1>7. Counts(r, w)
  <2>1. r.lastack = s.lastack /\ r.snd_lbb = s.snd_lbb /\ r.snd_buf = s.snd_buf /\ r.closed = s.closed
    BY <1>5 DEF Kept
  <2>2. At(s.lastack) <= At(s.snd_nxt)
    BY <1>2 DEF Counts
  <2>3. At(s.lastack) <= At(r.snd_nxt)
    BY <1>4, <1>6, <2>2
  <2>4. /\ w <= Units /\ w <= At(s.lastack) + TCP_SND_BUF
        /\ ~s.closed => At(s.snd_lbb) = w /\ s.snd_buf + w = TCP_SND_BUF + At(s.lastack)
    BY <1>2 DEF Counts
  <2>5. QED
    BY <1>1, <2>1, <2>3, <2>4, Zenon DEF Counts
<1>8. Tiled(Queue(r), At(r.lastack), w, r.closed)
  <2>1. t \in Seq(Segments)
    BY <1>2, <1>3, JoinIs
  <2>2. Queue(r) = t /\ r.lastack = s.lastack /\ r.closed = s.closed
    BY <1>1, <1>5 DEF Queue, Kept
  <2> HIDE DEF t
  <2>3. Tiled(t, At(s.lastack), w, s.closed)
    BY <1>2, <2>1, LikeTiled
  <2>4. QED
    BY <2>2, <2>3
<1>9. ASSUME NEW j \in 1 .. k
      PROVE  /\ PieceOf(s.unsent[j], {}, w, s.closed) /\ End(s.unsent[j]) <= At(r.snd_nxt)
             /\ DataEnd(s.unsent[j]) <= At(s.lastack) + s.snd_wnd
  <2> DEFINE g == s.unsent[j]
  <2>1. /\ Typed(g) /\ PieceOf(g, {}, w, s.closed)
        /\ At(s.lastack) < End(g) /\ End(g) <= End(s.unsent[k])
    BY <1>2 DEF ToSend, k
  <2>2. Typed(s.unsent[k])
    <3>1. k \in 1 .. k
      BY <1>4
    <3>2. QED
      BY <1>2, <3>1 DEF ToSend, k
  <2>3. End(s.unsent[k]) \in Nat /\ End(g) \in Nat /\ DataEnd(g) \in Nat
        /\ End(g) = DataEnd(g) + (IF g.fin THEN 1 ELSE 0)
    BY <2>1, <2>2, EndsAre
  <2>4. MaySend(s, j)
    BY SentIs DEF k
  <2>5. End(s.unsent[k]) <= At(r.snd_nxt)
    <3>1. k > 0
      BY <1>4
    <3>2. QED
      BY <1>1, <3>1
  <2>6. DataEnd(g) <= w /\ g.fin \in BOOLEAN
    BY <2>1 DEF PieceOf, Typed
  <2>7. At(s.lastack) <= DataEnd(g) /\ DataEnd(g) <= Units
    <3> DEFINE a == At(s.lastack)
               e == End(g)
               f == DataEnd(g)
    <3>1. a < e /\ e = f + (IF g.fin THEN 1 ELSE 0) /\ g.fin \in BOOLEAN /\ a \in Nat /\ f \in Nat /\ f <= w
      BY <1>4, <2>1, <2>3, <2>6
    <3>2. Units \in Nat
      BY SegmentsConstants
    <3> HIDE DEF a, e, f
    <3>3. a <= f /\ f <= Units
      BY <3>1, <3>2
    <3>4. QED
      BY <3>3 DEF a, f
  <2>8. DataEnd(g) <= At(s.lastack) + s.snd_wnd
    BY <2>1, <2>4, <2>7, MaySendIs
  <2>9. End(g) <= At(r.snd_nxt)
    <3> DEFINE e == End(g)
               f == End(s.unsent[k])
               x == At(r.snd_nxt)
    <3>1. e <= f /\ f <= x /\ e \in Nat /\ f \in Nat /\ x \in Nat
      BY <1>4, <2>1, <2>3, <2>5
    <3> HIDE DEF e, f, x
    <3>2. e <= x
      BY <3>1
    <3>3. QED
      BY <3>2 DEF e, x
  <2>10. QED
    BY <2>1, <2>8, <2>9
<1>10. ASSUME NEW i \in 1 .. Len(r.unacked) PROVE WasSent(r, r.unacked[i])
  <2>1. i \in 1 .. l /\ r.unacked[i] = b[i]
    BY <1>1
  <2>2. t[i] = b[i] /\ i \in 1 .. Len(t)
    <3>1. Len(t) = l + Len(d) /\ l \in Nat /\ Len(d) \in Nat /\ t[i] = b[i]
      BY <1>2, <1>3, <2>1, JoinIs
    <3> HIDE DEF t, l
    <3>2. QED
      BY <2>1, <3>1
  <2>3. q[i].seq = b[i].seq /\ q[i].data = b[i].data /\ q[i].fin = b[i].fin
    BY <1>2, <2>2 DEF Like
  <2>4. WasSent(r, q[i])
    <3>1. WasSent(s, q[i]) \/ \E j \in 1 .. k : q[i] = s.unsent[j]
      BY <1>2, <2>1 DEF Within, k
    <3>2. r.lastack = s.lastack /\ r.snd_wnd = s.snd_wnd
      BY <1>5 DEF Kept
    <3>3. i \in 1 .. Len(q)
      BY <1>2, <2>2 DEF Like
    <3>4. End(q[i]) \in Nat
      <4>1. q[i] \in Segments
        BY <1>2, <3>3, ElementOfSeq
      <4>2. Typed(q[i])
        BY <4>1, SegmentTyped
      <4>3. QED
        BY <4>2, EndsAre
    <3>5. CASE WasSent(s, q[i])
      <4>1. End(q[i]) <= At(s.snd_nxt) /\ DataEnd(q[i]) <= At(s.lastack) + s.snd_wnd
        BY <3>5 DEF WasSent
      <4> DEFINE e == End(q[i])
                 x == At(s.snd_nxt)
                 y == At(r.snd_nxt)
      <4>2. e <= x /\ x <= y /\ e \in Nat /\ x \in Nat /\ y \in Nat
        BY <1>4, <1>6, <3>4, <4>1
      <4> HIDE DEF e, x, y
      <4>3. e <= y
        BY <4>2
      <4>4. QED
        BY <3>2, <4>1, <4>3 DEF WasSent, e, y
    <3>6. CASE \E j \in 1 .. k : q[i] = s.unsent[j]
      <4>1. PICK j \in 1 .. k : q[i] = s.unsent[j]
        BY <3>6
      <4>2. End(q[i]) <= At(r.snd_nxt) /\ DataEnd(q[i]) <= At(s.lastack) + s.snd_wnd
        BY <1>9, <4>1
      <4>3. QED
        BY <3>2, <4>2 DEF WasSent
    <3>7. QED
      BY <3>1, <3>5, <3>6
  <2>5. WasSent(r, b[i])
    BY <2>3, <2>4, LikeIs
  <2>6. QED
    BY <2>1, <2>5
<1>11. r.unacked # <<>> => r.running
  BY <1>1, <1>2
<1>12. SenderFits(r, w)
  BY <1>7, <1>8, <1>10, <1>11 DEF SenderFits
<1>13. FramesSent(s, r, w)
  <2> SUFFICES ASSUME NEW i \in 1 .. Len(Frames(s))
               PROVE  PieceOf(Frames(s)[i], {}, w, s.closed) /\ End(Frames(s)[i]) <= At(r.snd_nxt)
    BY DEF FramesSent
  <2>1. i \in 1 .. k
    BY FramesAre DEF k
  <2>2. /\ s.unsent[i].seq = Frames(s)[i].seq /\ s.unsent[i].data = Frames(s)[i].data
        /\ s.unsent[i].fin = Frames(s)[i].fin
    BY <2>1, FramesAre DEF k
  <2>3. PieceOf(s.unsent[i], {}, w, s.closed) /\ End(s.unsent[i]) <= At(r.snd_nxt)
    BY <1>9, <2>1
  <2> DEFINE f == Frames(s)[i]
             g == s.unsent[i]
  <2>4. g.seq = f.seq /\ g.data = f.data /\ g.fin = f.fin
    BY <2>2
  <2> HIDE DEF f, g
  <2>5. End(g) = End(f) /\ (PieceOf(g, {}, w, s.closed) => PieceOf(f, {}, w, s.closed))
    BY <2>4, LikeIs
  <2>6. QED
    BY <2>3, <2>5 DEF f, g
<1>14. Frames(s) \in Seq(FrameSet)
  BY FramesAre
<1>15. QED
  BY <1>1, <1>12, <1>13, <1>14 DEF r

(* What follows what was sent still does.                                  *)
LEMMA FollowsFurther ==
    ASSUME NEW s \in ControlBlock, NEW r \in ControlBlock, Kept(r, s), Further(s, r), NEW n \in Nat,
           Follows(n, s)
    PROVE  Follows(n, r)
<1> DEFINE x == At(s.snd_nxt)
           y == At(r.snd_nxt)
           a == At(s.lastack)
           k == SentNow(s)
<1>1. x \in Nat /\ y \in Nat /\ a \in Nat /\ k \in Nat
  <2>1. k \in Nat
    BY SentIs
  <2> HIDE DEF k
  <2>2. QED
    BY <2>1, BlockNumbers
<1>2. /\ x <= y /\ (k > 0 => a < y) /\ (k = 0 => y = x /\ r.unacked = s.unacked)
      /\ r.lastack = s.lastack /\ r.dead = s.dead
  BY DEF Further, Kept
<1>3. n <= x \/ (n = x + 1 /\ s.unacked = <<>> /\ a = x) \/ s.dead
  BY DEF Follows
<1> HIDE DEF x, y, a, k
<1>4. n <= y \/ (n = y + 1 /\ r.unacked = <<>> /\ a = y) \/ r.dead
  <2>1. CASE k = 0
    BY <1>1, <1>2, <1>3, <2>1
  <2>2. CASE k > 0
    BY <1>1, <1>2, <1>3, <2>2
  <2>3. QED
    BY <1>1, <2>1, <2>2
<1>5. At(r.lastack) = a
  BY <1>2 DEF a
<1>6. QED
  BY <1>4, <1>5 DEF Follows, y
-----------------------------------------------------------------------------
(* What is to be sent is in the queue, in its order.                       *)
Picks(s, q, p) ==
    \A j \in 1 .. SentNow(s) :
        p[j] \in 1 .. Len(q) /\ s.unsent[j] = q[p[j]] /\ p[j] <= p[SentNow(s)]

LEMMA ToSendIs ==
    ASSUME NEW s \in ControlBlock, NEW w \in 0 .. Units, NEW q \in Seq(Segments),
           Tiled(q, At(s.lastack), w, s.closed), NEW p, Picks(s, q, p)
    PROVE  ToSend(s, w)
<1> DEFINE k == SentNow(s)
           a == At(s.lastack)
           c == s.closed
<1>1. k \in Nat /\ a \in Nat /\ c \in BOOLEAN
  BY SentIs, BlockNumbers
<1>2. Tiled(q, a, w, c)
  OBVIOUS
<1>3. \A j \in 1 .. k : p[j] \in 1 .. Len(q) /\ s.unsent[j] = q[p[j]] /\ p[j] <= p[k]
  BY DEF Picks
<1> SUFFICES ASSUME NEW j \in 1 .. k
             PROVE  /\ Typed(s.unsent[j]) /\ PieceOf(s.unsent[j], {}, w, c)
                    /\ a < End(s.unsent[j]) /\ End(s.unsent[j]) <= End(s.unsent[k])
  BY DEF ToSend
<1> HIDE DEF k, a, c
<1>4. k \in 1 .. k
  BY <1>1
<1> DEFINE x == p[j]
           y == p[k]
<1>5. x \in 1 .. Len(q) /\ y \in 1 .. Len(q) /\ x <= y /\ s.unsent[j] = q[x] /\ s.unsent[k] = q[y]
  BY <1>3, <1>4
<1> HIDE DEF x, y
<1>6. Typed(q[x]) /\ Typed(q[y]) /\ Lies(q[y], w, c)
  BY <1>1, <1>2, <1>5, TiledLies
<1>7. PieceOf(q[x], {}, w, c)
  BY <1>2, <1>5 DEF Tiled
<1>8. a < End(q[x])
  BY <1>1, <1>2, <1>5, TiledEnds
<1>9. End(q[x]) <= End(q[y])
  <2>1. End(q[x]) \in Nat /\ End(q[y]) \in Nat /\ At(q[y].seq) \in Nat
    BY <1>6, EndsAre
  <2>2. CASE x = y
    BY <2>1, <2>2
  <2>3. CASE x # y
    <3>1. x < y
      <4>1. x \in Nat /\ y \in Nat
        BY <1>5
      <4>2. QED
        BY <1>5, <2>3, <4>1
    <3>2. InOrder(q)
      BY <1>1, <1>2, TiledInOrder
    <3>3. End(q[x]) <= At(q[y].seq)
      BY <1>5, <3>1, <3>2 DEF InOrder
    <3>4. At(q[y].seq) < End(q[y])
      BY <1>6 DEF Lies
    <3>5. QED
      BY <2>1, <3>3, <3>4
  <2>4. QED
    BY <2>2, <2>3
<1>10. QED
  BY <1>5, <1>6, <1>7, <1>8, <1>9

(* What the sender knows lets tcp_output send from its queue.              *)
LEMMA StraightSends ==
    ASSUME NEW s \in ControlBlock, NEW w \in 0 .. Units, SenderFits(s, w)
    PROVE  Sends(s, w, Queue(s))
<1> DEFINE u == s.unacked
           v == s.unsent
           k == SentNow(s)
           q == u \o v
           m == Len(u)
           p == [j \in 1 .. k |-> m + j]
           a == At(s.lastack)
           f == Follow(s)
<1>1. /\ Counts(s, w) /\ Tiled(Queue(s), a, w, s.closed)
      /\ \A i \in 1 .. Len(s.unacked) : WasSent(s, s.unacked[i])
      /\ u # <<>> => s.running
  BY DEF SenderFits
<1>2. a \in Nat /\ s.closed \in BOOLEAN
  BY BlockNumbers
<1>3. f \in Seq(Segments) /\ BySeq(f) = f /\ Like(Queue(s), f \o Rest(s))
  <2> HIDE DEF a, f
  <2>1. QED
    BY <1>1, <1>2, StraightOutput DEF f
<1>4. Within(s, Queue(s), Len(f))
  BY <1>1, StraightWithin
<1>5. u \in Seq(Segments) /\ v \in Seq(Segments)
  BY BlockQueues
<1>6. Queue(s) = q
  BY DEF Queue
<1>7. k \in 0 .. Len(v) /\ Len(v) \in Nat
  BY SentIs
<1>8. Gone(s) \in Seq(Segments) /\ Len(Gone(s)) = k
  BY GoneIs
<1>9. f = u \o Gone(s)
  BY DEF Follow
<1> HIDE DEF u, k, f, a
<1>10. q \in Seq(Segments) /\ m \in Nat /\ Len(q) = m + Len(v) /\ \A i \in 1 .. Len(v) : q[m + i] = v[i]
  BY <1>5, JoinIs
<1>11. ToSend(s, w)
  <2>1. Picks(s, q, p)
    <3> HIDE DEF q, m
    <3> SUFFICES ASSUME NEW j \in 1 .. k
                 PROVE  p[j] \in 1 .. Len(q) /\ s.unsent[j] = q[p[j]] /\ p[j] <= p[k]
      BY DEF Picks, k
    <3>1. p[j] = m + j /\ p[k] = m + k /\ j \in 1 .. Len(v)
      BY <1>7
    <3> HIDE DEF p
    <3>2. QED
      BY <1>7, <1>10, <3>1
  <2> HIDE DEF p, q
  <2>2. Tiled(q, At(s.lastack), w, s.closed)
    BY <1>1, <1>6 DEF a
  <2>3. QED
    BY <1>10, <2>1, <2>2, ToSendIs
<1>12. k = 0 => f = u
  <2> SUFFICES ASSUME k = 0 PROVE f = u
    OBVIOUS
  <2>1. Gone(s) = <<>>
    BY <1>8, EmptySeq
  <2>2. QED
    BY <1>5, <1>9, <2>1, ConcatEmptySeq
<1>13. f # <<>> => s.running \/ k > 0
  BY <1>1, <1>7, <1>12
<1>14. Queue(s) \in Seq(Segments)
  BY <1>6, <1>10
<1>15. QED
  BY <1>1, <1>3, <1>4, <1>11, <1>12, <1>13, <1>14 DEF Sends, f, k, a, u

(* So does a queue whose oldest segment is to be sent again, when it goes. *)
LEMMA RecalledSends ==
    ASSUME NEW s \in ControlBlock, NEW w \in 0 .. Units, NEW u \in Seq(Segments), NEW v \in Seq(Segments),
           Recalled(s, u, v), Counts(s, w), Tiled(u \o v, At(s.lastack), w, s.closed),
           \A i \in 1 .. Len(u) : WasSent(s, u[i]), SentNow(s) > 0
    PROVE  Sends(s, w, u \o v)
<1> DEFINE y == s.unsent
           x == <<u[1]>>
           k == SentNow(s)
           q == u \o v
           m == Len(u)
           n == Len(v)
           p == [j \in 1 .. k |-> IF j = 1 THEN 1 ELSE m + j - 1]
           a == At(s.lastack)
           b == BySeq(Follow(s))
<1>1. a \in Nat /\ s.closed \in BOOLEAN /\ Tiled(q, a, w, s.closed)
  BY BlockNumbers
<1>2. b \in Seq(Segments) /\ Like(q, b \o Rest(s)) /\ Within(s, q, Len(b))
  <2> HIDE DEF a
  <2>1. QED
    BY <1>1, RecalledOutput
<1>3. u # <<>> /\ y = x \o v
  BY DEF Recalled
<1>4. k \in 0 .. Len(y) /\ Len(y) \in Nat /\ k > 0
  BY SentIs
<1>5. m \in Nat /\ m > 0 /\ n \in Nat
  BY <1>3, LenProperties, EmptySeq
<1>6. x \in Seq(Segments) /\ Len(x) = 1 /\ x[1] = u[1]
  <2>1. 1 \in 1 .. m
    BY <1>5
  <2>2. u[1] \in Segments
    BY <2>1, ElementOfSeq
  <2>3. QED
    BY <2>2
<1> HIDE DEF x, y, k
<1>7. Len(y) = 1 + n /\ y[1] = u[1] /\ \A i \in 1 .. n : y[1 + i] = v[i]
  <2>1. /\ Len(x \o v) = Len(x) + Len(v)
        /\ \A i \in 1 .. Len(x) : (x \o v)[i] = x[i]
        /\ \A i \in 1 .. Len(v) : (x \o v)[Len(x) + i] = v[i]
    BY <1>6, JoinIs
  <2>2. QED
    BY <1>3, <1>6, <2>1
<1>8. /\ q \in Seq(Segments) /\ Len(q) = m + n
      /\ \A i \in 1 .. m : q[i] = u[i]
      /\ \A i \in 1 .. n : q[m + i] = v[i]
  BY JoinIs
<1> HIDE DEF q, m, n, a, b
<1>9. Picks(s, q, p)
  <2> SUFFICES ASSUME NEW j \in 1 .. k
               PROVE  p[j] \in 1 .. Len(q) /\ y[j] = q[p[j]] /\ p[j] <= p[k]
    BY DEF Picks, k, y
  <2>1. p[j] = (IF j = 1 THEN 1 ELSE m + j - 1) /\ p[k] = (IF k = 1 THEN 1 ELSE m + k - 1)
    BY <1>4
  <2> HIDE DEF p
  <2>2. CASE j = 1
    <3>1. p[j] = 1 /\ 1 \in 1 .. m /\ 1 <= p[k] /\ 1 \in 1 .. Len(q)
      BY <1>4, <1>5, <1>8, <2>1, <2>2
    <3>2. QED
      BY <1>7, <1>8, <2>2, <3>1
  <2>3. CASE j # 1
    <3> DEFINE h == j - 1
    <3>1. h \in 1 .. n /\ j = 1 + h /\ p[j] = m + h /\ m + h \in 1 .. Len(q) /\ p[j] <= p[k]
      BY <1>4, <1>5, <1>7, <1>8, <2>1, <2>3
    <3> HIDE DEF h
    <3>2. QED
      BY <1>7, <1>8, <3>1
  <2>4. QED
    BY <2>2, <2>3
<1> HIDE DEF p
<1>10. ToSend(s, w)
  <2>1. Tiled(q, At(s.lastack), w, s.closed)
    BY <1>1 DEF a
  <2>2. QED
    BY <1>8, <1>9, <2>1, ToSendIs
<1>11. k # 0
  BY <1>4
<1>12. Counts(s, w)
  OBVIOUS
<1>13. QED
  BY <1>1, <1>2, <1>4, <1>8, <1>10, <1>11, <1>12, Zenon DEF Sends, q, a, b, k
-----------------------------------------------------------------------------
(* The sender's block s and what is around it, w units being written.      *)
Around(s, w, p, q, fs, r, e, n) ==
    /\ s \in ControlBlock /\ WindowFits(s, p, q) /\ FramesFit(fs, s, w)
    /\ Taken(p, r, e, s, w) /\ Told(s, w, n)

LEMMA OutputWindow ==
    ASSUME NEW s \in ControlBlock, NEW r \in ControlBlock, Kept(r, s), Further(s, r),
           NEW p \in PeerBlock, NEW q, WindowFits(s, p, q)
    PROVE  WindowFits(r, p, q)
<1> DEFINE x == At(s.snd_nxt)
           y == At(r.snd_nxt)
           a == At(s.lastack)
           l == At(s.snd_wl2)
           v == s.snd_wnd
           e == At(p.ann_edge)
           c == IF s.closed THEN 1 ELSE 0
<1>1. /\ r.lastack = s.lastack /\ r.snd_wnd = s.snd_wnd /\ r.snd_wl2 = s.snd_wl2 /\ r.closed = s.closed
  BY DEF Kept
<1>2. x = y \/ y <= a + v + c
  BY DEF Further
<1>3. a <= l /\ l + v <= e /\ x <= e + c
  BY DEF WindowFits, Announced
<1>4. x \in Nat /\ y \in Nat /\ a \in Nat /\ l \in Nat /\ v \in Nat
  <2> HIDE DEF x, y, a, l, v
  <2>1. QED
    BY BlockNumbers DEF x, y, a, l, v
<1>5. e \in Nat
  <2>1. p.ann_edge \in Int
    BY SegmentsConstants DEF PeerBlock, Number
  <2>2. QED
    BY <2>1, AtTyped
<1>6. c \in {0, 1}
  OBVIOUS
<1> HIDE DEF x, y, a, l, v, e, c
<1>7. y <= e + c
  BY <1>2, <1>3, <1>4, <1>5, <1>6
<1>8. At(r.snd_nxt) <= At(p.ann_edge) + (IF r.closed THEN 1 ELSE 0)
  BY <1>1, <1>7 DEF y, e, c
<1>9. /\ At(s.lastack) <= At(s.snd_wl2)
      /\ At(s.lastack) <= At(p.rcv_nxt)
      /\ Announced(s.snd_wl2, s.snd_wnd, p)
      /\ \A i \in 1 .. Len(q) : NotBefore(s.snd_wl2, s.snd_wnd, q[i])
  BY DEF WindowFits
<1>10. QED
  BY <1>1, <1>8, <1>9, Zenon DEF WindowFits

LEMMA OutputAround ==
    ASSUME NEW s, NEW w \in 0 .. Units, NEW p \in PeerBlock, NEW q, NEW fs \in Seq(FrameSet),
           NEW r, NEW e, NEW n, Around(s, w, p, q, fs, r, e, n), NEW z, Sends(s, w, z)
    PROVE  /\ Around(tcp_output(s), w, p, q, fs \o Frames(s), r, e, n)
           /\ SenderFits(tcp_output(s), w) /\ tcp_output(s).dead = s.dead
           /\ fs \o Frames(s) \in Seq(FrameSet)
<1> DEFINE t == tcp_output(s)
           gs == Frames(s)
           hs == fs \o gs
<1>1. /\ s \in ControlBlock /\ WindowFits(s, p, q) /\ FramesFit(fs, s, w)
      /\ Taken(p, r, e, s, w) /\ Told(s, w, n)
  BY DEF Around
<1>2. /\ t \in ControlBlock /\ Kept(t, s) /\ SenderFits(t, w) /\ Further(s, t) /\ FramesSent(s, t, w)
      /\ gs \in Seq(FrameSet)
  BY <1>1, OutputKeeps
<1>3. t.lastack = s.lastack /\ t.closed = s.closed /\ t.dead = s.dead
  BY <1>2 DEF Kept
<1>4. FramesSent(s, t, w) => \A i \in 1 .. Len(gs) : PieceOf(gs[i], {}, w, s.closed) /\ End(gs[i]) <= At(t.snd_nxt)
  BY DEF FramesSent
<1> HIDE DEF t, gs
<1>5. WindowFits(t, p, q)
  BY <1>1, <1>2, OutputWindow
<1>6. Told(t, w, n)
  BY <1>1, <1>3 DEF Told
<1>7. Taken(p, r, e, t, w)
  <2>1. At(p.rcv_nxt) \in Nat
    <3>1. p.rcv_nxt \in Int
      BY SegmentsConstants DEF PeerBlock, Number
    <3>2. QED
      BY <3>1, AtTyped
  <2>2. Follows(At(p.rcv_nxt), s)
    BY <1>1 DEF Taken
  <2>3. Follows(At(p.rcv_nxt), t)
    BY <1>1, <1>2, <2>1, <2>2, FollowsFurther
  <2>4. /\ At(p.rcv_nxt) = Len(r) + (IF e THEN 1 ELSE 0)
        /\ Len(r) <= w
        /\ \A i \in 1 .. Len(r) : r[i] \in {i, HeaderByte}
        /\ e => s.closed /\ Len(r) = w
    BY <1>1 DEF Taken
  <2>5. QED
    BY <1>3, <2>3, <2>4, Zenon DEF Taken
<1>8. /\ hs \in Seq(FrameSet) /\ Len(hs) = Len(fs) + Len(gs)
      /\ \A i \in 1 .. Len(fs) : hs[i] = fs[i]
      /\ \A i \in 1 .. Len(gs) : hs[Len(fs) + i] = gs[i]
      /\ \A i \in 1 .. Len(fs) + Len(gs) : i \in 1 .. Len(fs) \/ \E j \in 1 .. Len(gs) : i = Len(fs) + j
  BY <1>2, JoinParts
<1> HIDE DEF hs
<1>9. FramesFit(hs, t, w)
  <2> SUFFICES ASSUME NEW i \in 1 .. Len(hs)
               PROVE  PieceOf(hs[i], {HeaderByte}, w, t.closed) /\ Follows(End(hs[i]), t)
    BY DEF FramesFit
  <2>1. CASE i \in 1 .. Len(fs)
    <3>1. hs[i] = fs[i] /\ PieceOf(fs[i], {HeaderByte}, w, s.closed) /\ Follows(End(fs[i]), s)
      BY <1>1, <1>8, <2>1 DEF FramesFit
    <3>2. End(fs[i]) \in Nat
      <4>1. fs[i] \in FrameSet
        BY <2>1, ElementOfSeq
      <4>2. Typed(fs[i])
        BY <4>1, SegmentTyped
      <4>3. QED
        BY <4>2, EndsAre
    <3>3. Follows(End(fs[i]), t)
      BY <1>1, <1>2, <3>1, <3>2, FollowsFurther
    <3>4. QED
      BY <1>3, <3>1, <3>3
  <2>2. CASE \E j \in 1 .. Len(gs) : i = Len(fs) + j
    <3>1. PICK j \in 1 .. Len(gs) : i = Len(fs) + j
      BY <2>2
    <3>2. hs[i] = gs[j] /\ PieceOf(gs[j], {}, w, s.closed) /\ End(gs[j]) <= At(t.snd_nxt)
      BY <1>2, <1>4, <1>8, <3>1
    <3>3. PieceOf(gs[j], {HeaderByte}, w, s.closed)
      BY <3>2 DEF PieceOf
    <3>4. QED
      BY <1>3, <3>2, <3>3 DEF Follows
  <2>3. QED
    BY <1>8, <2>1, <2>2
<1>10. QED
  BY <1>2, <1>3, <1>5, <1>6, <1>7, <1>8, <1>9 DEF Around, t, hs, gs
-----------------------------------------------------------------------------
(* tcp_write: how n units, m of which are in other segments, are cut.      *)
Cuts(n, m) == (n - m + mss - 1) \div mss
Position(m, i) == m + (i - 1) * mss
Piece(n, m, i) == Min({mss, n - Position(m, i)})
Written(first, len) == [i \in 1 .. len |-> written + first + i]
Fresh(s, n, m, i) == Segment(s.snd_lbb + Position(m, i), Written(Position(m, i), Piece(n, m, i)))
FreshOnes(s, n, m) == [i \in 1 .. Cuts(n, m) |-> Fresh(s, n, m, i)]
Lengthened(u, m) == IF u = <<>> THEN u ELSE [u EXCEPT ![Len(u)].data = @ \o Written(0, m)]

LEMMA CutsAre ==
    ASSUME NEW n \in Nat, NEW m \in 0 .. n
    PROVE  /\ Cuts(n, m) \in Nat
           /\ Cuts(n, m) = 0 <=> m = n
           /\ \A i \in 1 .. Cuts(n, m) :
                /\ Position(m, i) \in m .. n - 1 /\ Piece(n, m, i) \in 1 .. mss
                /\ Position(m, i) + Piece(n, m, i) <= n
                /\ i < Cuts(n, m) => Position(m, i) + Piece(n, m, i) = Position(m, i + 1)
                /\ i = Cuts(n, m) => Position(m, i) + Piece(n, m, i) = n
           /\ Position(m, 1) = m
<1> DEFINE t == n - m + mss - 1
           K == t \div mss
           d == t % mss
<1>1. mss \in Nat /\ mss > 0 /\ t \in Nat /\ n \in Nat /\ m \in Nat /\ m <= n
  BY SegmentsConstants
<1>2. Cuts(n, m) = K
  BY DEF Cuts
<1>3. t = mss * K + d /\ d \in Nat /\ d < mss /\ K \in Nat
  <2> HIDE DEF t
  <2>1. QED
    BY <1>1, Euclid
<1>4. t = n - m + mss - 1
  OBVIOUS
<1> DEFINE M == mss * K
<1>5. M \in Nat /\ M >= n - m /\ M <= n - m + mss - 1
  BY <1>1, <1>3
<1> HIDE DEF K, d, t
<1>6. K = 0 <=> m = n
  <2>1. K = 0 => M = 0
    BY <1>1
  <2>2. K # 0 => M >= mss
    <3>1. 0 < K => mss * 0 + mss <= mss * K
      BY <1>1, <1>3, TimesLess
    <3>2. mss * 0 = 0
      BY <1>1
    <3>3. K # 0 => 0 < K
      BY <1>3
    <3>4. QED
      BY <1>1, <3>1, <3>2, <3>3
  <2> HIDE DEF M
  <2>3. QED
    BY <1>1, <1>5, <2>1, <2>2
<1>7. Position(m, 1) = m
  BY <1>1 DEF Position
<1>8. ASSUME NEW i \in 1 .. K
      PROVE  /\ Position(m, i) \in m .. n - 1 /\ Piece(n, m, i) \in 1 .. mss
             /\ Position(m, i) + Piece(n, m, i) <= n
             /\ i < K => Position(m, i) + Piece(n, m, i) = Position(m, i + 1)
             /\ i = K => Position(m, i) + Piece(n, m, i) = n
  <2> DEFINE x == (i - 1) * mss
             y == i * mss
             p == Position(m, i)
             l == Piece(n, m, i)
  <2>1. i \in Nat /\ i >= 1 /\ i <= K
    BY <1>3
  <2>2. x \in Nat /\ y = x + mss /\ x = mss * (i - 1) /\ y = mss * i
    BY <1>1, <2>1
  <2>3. x + mss <= M
    <3>1. i - 1 < K /\ i - 1 \in Int /\ K \in Int
      BY <1>3, <2>1
    <3>2. mss * (i - 1) + mss <= mss * K
      BY <1>1, <3>1, TimesLess
    <3>3. QED
      BY <2>2, <3>2
  <2>4. i < K => y + mss <= M
    <3>1. i < K => mss * i + mss <= mss * K
      BY <1>1, <1>3, <2>1, TimesLess
    <3>2. QED
      BY <2>2, <3>1
  <2>5. i = K => y = M
    BY <2>2
  <2>6. p = m + x /\ Position(m, i + 1) = m + y
    <3>1. (i + 1) - 1 = i
      BY <2>1
    <3>2. QED
      BY <3>1 DEF Position
  <2>7. p \in m .. n - 1
    <3> HIDE DEF x, y, p, l, M
    <3>1. QED
      BY <1>1, <1>5, <2>2, <2>3, <2>6
  <2>8. l = IF mss <= n - p THEN mss ELSE n - p
    <3> HIDE DEF p
    <3>1. mss \in Int /\ n - p \in Int
      BY <1>1, <2>7
    <3>2. l = Min({mss, n - p})
      BY DEF Piece, p
    <3> HIDE DEF l
    <3>3. QED
      BY <3>1, <3>2, MinIs
  <2> HIDE DEF x, y, p, l, M
  <2>9. l \in 1 .. mss /\ p + l <= n
    BY <1>1, <2>7, <2>8
  <2>10. i < K => p + l = m + y
    BY <1>1, <1>5, <2>2, <2>4, <2>6, <2>7, <2>8
  <2>11. i = K => p + l = n
    BY <1>1, <1>5, <2>2, <2>5, <2>6, <2>7, <2>8
  <2>12. QED
    BY <2>6, <2>7, <2>9, <2>10, <2>11 DEF p, l
<1>9. QED
  BY <1>2, <1>3, <1>6, <1>7, <1>8

LEMMA WrittenIs ==
    ASSUME NEW first \in Nat, NEW len \in Nat, written \in Nat
    PROVE  /\ Written(first, len) \in Seq(Nat) /\ Len(Written(first, len)) = len
           /\ \A i \in 1 .. len : Written(first, len)[i] = written + first + i
<1> DEFINE G == [i \in 1 .. len |-> written + first + i]
<1>1. G \in [1 .. len -> Nat]
  OBVIOUS
<1>2. \A i \in 1 .. len : G[i] = written + first + i
  OBVIOUS
<1>3. Written(first, len) = G
  BY DEF Written
<1> HIDE DEF G
<1>4. G \in Seq(Nat) /\ Len(G) = len
  BY <1>1
<1>5. QED
  BY <1>2, <1>3, <1>4

LEMMA FreshIs ==
    ASSUME NEW s \in ControlBlock, NEW n \in Nat, NEW m \in 0 .. n, NEW i \in 1 .. Cuts(n, m),
           written \in Nat, written + n <= Units, At(s.snd_lbb) = written
    PROVE  /\ Fresh(s, n, m, i) \in Segments
           /\ At(Fresh(s, n, m, i).seq) = written + Position(m, i)
           /\ Len(Fresh(s, n, m, i).data) = Piece(n, m, i)
           /\ End(Fresh(s, n, m, i)) = written + Position(m, i) + Piece(n, m, i)
           /\ PieceOf(Fresh(s, n, m, i), {}, written + n, FALSE)
<1> DEFINE p == Position(m, i)
           l == Piece(n, m, i)
           x == s.snd_lbb
           d == Written(p, l)
           q == (x + p) % SeqSpace
           g == Fresh(s, n, m, i)
<1>1. p \in Nat /\ l \in Nat /\ l >= 1 /\ p + l <= n
  <2>1. p \in m .. n - 1 /\ l \in 1 .. mss /\ p + l <= n
    BY CutsAre
  <2> HIDE DEF p, l
  <2>2. QED
    BY <2>1
<1>2. x \in Int /\ At(x) = written
  BY BlockNumbers
<1>3. Units < SeqSpace /\ SeqSpace \in Nat /\ Units \in Nat
  BY SegmentsConstants
<1> HIDE DEF p, l, x
<1>4. At(x) + p \in Number
  BY <1>1, <1>2, <1>3 DEF Number
<1>5. At(q) = written + p
  <2>1. x \in Int /\ p \in Int /\ At(x) + p \in Number
    BY <1>1, <1>2, <1>4
  <2>2. At((x + p) % SeqSpace) = At(x) + p
    BY ONLY <2>1, AtPlus
  <2>3. QED
    BY <1>2, <2>2
<1>6. q \in Number
  <2>1. x + p \in Int
    BY <1>1, <1>2
  <2>2. QED
    BY <2>1, AtTyped
<1>7. d \in Seq(Nat) /\ Len(d) = l /\ \A j \in 1 .. l : d[j] = written + p + j
  BY <1>1, WrittenIs
<1>8. g = [seq |-> q, data |-> d, fin |-> FALSE, moved |-> FALSE]
  BY DEF Fresh, Segment, p, l, x
<1> HIDE DEF q, d, g
<1>9. g \in Segments /\ g.seq = q /\ g.data = d /\ g.fin = FALSE
  BY <1>6, <1>7, <1>8 DEF Segments
<1>10. DataEnd(g) = written + p + l
  BY <1>5, <1>7, <1>9 DEF DataEnd
<1>11. End(g) = written + p + l
  <2>1. TcpLen(g) = l
    BY <1>1, <1>7, <1>9 DEF TcpLen
  <2>2. QED
    BY <1>5, <1>9, <2>1 DEF End
<1>12. PieceOf(g, {}, written + n, FALSE)
  <2>1. written + p + l <= written + n
    BY <1>1
  <2>2. d # <<>>
    BY <1>1, <1>7, EmptySeq
  <2>3. \A j \in 1 .. Len(g.data) : g.data[j] \in {At(g.seq) + j} \cup {}
    BY <1>5, <1>7, <1>9
  <2>4. QED
    BY <1>9, <1>10, <2>1, <2>2, <2>3 DEF PieceOf
<1>13. QED
  BY <1>5, <1>7, <1>9, <1>11, <1>12 DEF g, p, l

LEMMA FreshAdded ==
    ASSUME NEW s \in ControlBlock, NEW n \in Nat, NEW m \in 0 .. n,
           written \in Nat, written + n <= Units, At(s.snd_lbb) = written
    PROVE  /\ FreshOnes(s, n, m) \in Seq(Segments)
           /\ Added(FreshOnes(s, n, m), written + m, written + n, FALSE)
           /\ Len(FreshOnes(s, n, m)) = Cuts(n, m) /\ Cuts(n, m) \in Nat
           /\ \A i \in 1 .. Cuts(n, m) : Len(FreshOnes(s, n, m)[i].data) \in 1 .. mss
<1> DEFINE K == Cuts(n, m)
           e(i) == Fresh(s, n, m, i)
           G == [i \in 1 .. K |-> e(i)]
           p(i) == Position(m, i)
           l(i) == Piece(n, m, i)
<1>1. K \in Nat /\ (K = 0 <=> m = n) /\ p(1) = m
  BY CutsAre
<1>2. \A i \in 1 .. K : /\ p(i) \in Nat /\ l(i) \in 1 .. mss
                        /\ i < K => p(i) + l(i) = p(i + 1)
                        /\ i = K => p(i) + l(i) = n
  <2> SUFFICES ASSUME NEW i \in 1 .. K
               PROVE  /\ p(i) \in Nat /\ l(i) \in 1 .. mss
                      /\ i < K => p(i) + l(i) = p(i + 1)
                      /\ i = K => p(i) + l(i) = n
    OBVIOUS
  <2>1. p(i) \in m .. n - 1 /\ l(i) \in 1 .. mss /\ (i < K => p(i) + l(i) = p(i + 1))
        /\ (i = K => p(i) + l(i) = n)
    BY CutsAre
  <2>2. p(i) \in Nat
    <3> HIDE DEF p
    <3>1. QED
      BY <2>1
  <2>3. QED
    BY <2>1, <2>2
<1>3. \A i \in 1 .. K : /\ e(i) \in Segments
                        /\ At(e(i).seq) = written + p(i)
                        /\ Len(e(i).data) = l(i)
                        /\ End(e(i)) = written + p(i) + l(i)
                        /\ PieceOf(e(i), {}, written + n, FALSE)
  BY FreshIs
<1>4. FreshOnes(s, n, m) = G
  BY DEF FreshOnes
<1> HIDE DEF K, e, p, l
<1>5. G \in [1 .. K -> Segments]
  BY <1>3
<1>6. G \in Seq(Segments) /\ Len(G) = K
  BY <1>1, <1>5
<1>7. \A i \in 1 .. K : G[i] = e(i)
  OBVIOUS
<1> HIDE DEF G
<1>8. Added(G, written + m, written + n, FALSE)
  <2>1. \A i \in 1 .. Len(G) : PieceOf(G[i], {}, written + n, FALSE)
    BY <1>3, <1>6, <1>7
  <2>2. \A i, j \in 1 .. Len(G) : j = i + 1 => End(G[i]) = At(G[j].seq)
    <3> SUFFICES ASSUME NEW i \in 1 .. Len(G), NEW j \in 1 .. Len(G), j = i + 1
                 PROVE  End(G[i]) = At(G[j].seq)
      OBVIOUS
    <3>1. i \in 1 .. K /\ j \in 1 .. K /\ i < K
      BY <1>1, <1>6
    <3>2. p(i) + l(i) = p(j) /\ p(i) \in Nat /\ l(i) \in Nat
      BY <1>2, <3>1
    <3>3. End(e(i)) = written + p(i) + l(i) /\ At(e(j).seq) = written + p(j)
      BY <1>3, <3>1
    <3>4. End(e(i)) = At(e(j).seq)
      BY <3>2, <3>3
    <3>5. QED
      BY <1>7, <3>1, <3>4
  <2>3. ASSUME G # <<>> PROVE At(G[1].seq) = written + m /\ End(G[Len(G)]) = Edge(written + n, FALSE)
    <3>1. K > 0 /\ 1 \in 1 .. K /\ K \in 1 .. K
      BY <1>1, <1>6, <2>3, EmptySeq
    <3>2. At(e(1).seq) = written + p(1) /\ End(e(K)) = written + p(K) + l(K)
      BY <1>3, <3>1
    <3>3. p(K) + l(K) = n /\ p(K) \in Nat /\ l(K) \in Nat
      BY <1>2, <3>1
    <3>4. End(e(K)) = written + n /\ written + n \in Nat
      BY <3>2, <3>3
    <3>5. Edge(written + n, FALSE) = written + n
      BY <3>4 DEF Edge
    <3>6. QED
      BY <1>1, <1>6, <1>7, <3>1, <3>2, <3>4, <3>5
  <2>4. G = <<>> => written + n = written + m
    <3>1. G = <<>> => K = 0
      BY <1>6, EmptySeq
    <3>2. QED
      BY <1>1, <3>1
  <2>5. QED
    BY <2>1, <2>2, <2>3, <2>4 DEF Added
<1>9. \A i \in 1 .. K : Len(G[i].data) \in 1 .. mss
  BY <1>2, <1>3, <1>7
<1>10. QED
  BY <1>1, <1>4, <1>6, <1>8, <1>9 DEF K

(* The block that tcp_write leaves.                                        *)
WriteOf(s, n, t, m) ==
    /\ m \in 0 .. n /\ (s.unsent = <<>> => m = 0)
    /\ t \in ControlBlock
    /\ t.unsent = Lengthened(s.unsent, m) \o FreshOnes(s, n, m)
    /\ t.snd_lbb = (s.snd_lbb + n) % SeqSpace /\ t.snd_buf = s.snd_buf - n
    /\ t.unacked = s.unacked /\ t.snd_nxt = s.snd_nxt /\ t.lastack = s.lastack
    /\ t.snd_wnd = s.snd_wnd /\ t.snd_wl2 = s.snd_wl2 /\ t.running = s.running
    /\ t.closed = s.closed /\ t.dead = s.dead

LEMMA LengthenedIs ==
    ASSUME NEW u \in Seq(Segments), NEW m \in Nat, written \in Nat
    PROVE  /\ Lengthened(u, m) \in Seq(Segments) /\ Len(Lengthened(u, m)) = Len(u) /\ Len(u) \in Nat
           /\ \A i \in 1 .. Len(u) : i # Len(u) => Lengthened(u, m)[i] = u[i]
           /\ u # <<>> => /\ Len(u) \in 1 .. Len(u) /\ u[Len(u)] \in Segments
                          /\ Lengthened(u, m)[Len(u)]
                               = [u[Len(u)] EXCEPT !.data = @ \o Written(0, m)]
<1>1. CASE u = <<>>
  BY <1>1, LenProperties, EmptySeq DEF Lengthened
<1>2. CASE u # <<>>
  <2> DEFINE l == Len(u)
             g == u[l]
             h == [g EXCEPT !.data = @ \o Written(0, m)]
             v == [u EXCEPT ![l].data = @ \o Written(0, m)]
  <2>1. l \in Nat /\ l \in 1 .. l
    BY <1>2, LenProperties, EmptySeq
  <2>2. g \in Segments
    BY <2>1, ElementOfSeq
  <2>3. Written(0, m) \in Seq(Nat)
    BY WrittenIs
  <2>4. g.data \o Written(0, m) \in Seq(Nat)
    BY <2>2, <2>3 DEF Segments
  <2>5. h \in Segments
    BY <2>2, <2>4 DEF Segments
  <2>6. v = [u EXCEPT ![l] = h]
    OBVIOUS
  <2>7. Lengthened(u, m) = v
    BY <1>2 DEF Lengthened
  <2> HIDE DEF l, h, v
  <2>8. /\ [u EXCEPT ![l] = h] \in Seq(Segments) /\ Len([u EXCEPT ![l] = h]) = Len(u)
        /\ \A j \in 1 .. Len(u) : [u EXCEPT ![l] = h][j] = IF j = l THEN h ELSE u[j]
    <3>1. l \in 1 .. Len(u)
      BY <2>1 DEF l
    <3>2. QED
      BY <2>5, <3>1, ExceptSeq
  <2>9. /\ Lengthened(u, m) \in Seq(Segments) /\ Len(Lengthened(u, m)) = Len(u)
        /\ \A j \in 1 .. Len(u) : Lengthened(u, m)[j] = IF j = l THEN h ELSE u[j]
    BY <2>6, <2>7, <2>8, Zenon
  <2>10. l \in 1 .. Len(u) /\ l = Len(u)
    BY <2>1 DEF l
  <2>11. Lengthened(u, m)[l] = h /\ \A i \in 1 .. Len(u) : i # l => Lengthened(u, m)[i] = u[i]
    BY <2>9, <2>10
  <2>12. QED
    BY <2>1, <2>2, <2>9, <2>10, <2>11 DEF h
<1>3. QED
  BY <1>1, <1>2

LEMMA WriteIs ==
    ASSUME NEW s \in ControlBlock, NEW n \in Nat \ {0}, written \in Nat, written + n <= Units,
           At(s.snd_lbb) = written
    PROVE  \E m \in 0 .. n : WriteOf(s, n, tcp_write(s, n), m)
<1> DEFINE u == s.unsent
           has == u # <<>>
           tail == u[Len(u)]
           unit(first, len) == [i \in 1..len |-> written + first + i]
           used == IF has THEN Min({s.oversize, n}) ELSE 0
           room == mss - Len(tail.data) - used
           cat == IF has /\ Len(tail.data) > 0 /\ room # 0
                  THEN (IF room < 0 THEN n - used ELSE Min({room, n - used})) ELSE 0
           left == n - used - cat
           new == [i \in 1..((left + mss - 1) \div mss) |->
                     LET pos == used + cat + (i - 1) * mss
                     IN Segment(s.snd_lbb + pos, unit(pos, Min({mss, n - pos})))]
           v == (IF has THEN [u EXCEPT ![Len(u)].data = @ \o unit(0, used + cat)] ELSE u) \o new
           o == IF left > 0 THEN TCP_MSS - Len(new[Len(new)].data)
                ELSE IF cat > 0 THEN (TCP_MSS - cat) % 2^16
                ELSE IF has THEN s.oversize - used ELSE 0
           b == (s.snd_lbb + n) % SeqSpace
           f == s.snd_buf - n
           t == tcp_write(s, n)
           m == used + cat
<1>1. t = [s EXCEPT !.unsent = v, !.oversize = o, !.snd_lbb = b, !.snd_buf = f]
  BY Zenon DEF tcp_write
<1>2. u \in Seq(Segments) /\ s.oversize \in Nat /\ s.snd_lbb \in Int /\ s.snd_buf \in Int
  BY BlockNumbers DEF ControlBlock
<1>3. mss \in Nat \ {0} /\ TCP_MSS \in Nat /\ mss <= TCP_MSS
  BY SegmentsConstants
<1>4. used \in 0 .. n /\ used <= s.oversize /\ (~has => used = 0)
  <2>1. Min({s.oversize, n}) = IF s.oversize <= n THEN s.oversize ELSE n
    BY <1>2, MinIs
  <2>2. QED
    BY <1>2, <2>1
<1>5. cat \in 0 .. n - used /\ (~has => cat = 0)
  <2>1. CASE ~has
    BY <1>4, <2>1
  <2>2. CASE has
    <3>1. tail \in Segments
      <4>1. Len(u) \in 1 .. Len(u)
        BY <1>2, <2>2, LenProperties, EmptySeq
      <4>2. QED
        BY <1>2, <4>1, ElementOfSeq
    <3>2. Len(tail.data) \in Nat
      BY <3>1 DEF Segments
    <3> DEFINE l == Len(tail.data)
    <3> HIDE DEF used, l
    <3>3. room \in Int /\ n - used \in Int
      BY <1>3, <1>4, <3>2 DEF l
    <3> HIDE DEF room
    <3>4. Min({room, n - used}) = IF room <= n - used THEN room ELSE n - used
      BY <3>3, MinIs
    <3>5. QED
      BY <1>4, <2>2, <3>3, <3>4
  <2>3. QED
    BY <2>1, <2>2
<1>6. m \in 0 .. n /\ (~has => m = 0) /\ left = n - m /\ m \in Nat
  <2> HIDE DEF used, cat
  <2>1. QED
    BY <1>4, <1>5
<1>7. new = FreshOnes(s, n, m)
  <2>1. ((left + mss - 1) \div mss) = Cuts(n, m)
    BY <1>6, Zenon DEF Cuts
  <2> DEFINE e(i) == LET pos == used + cat + (i - 1) * mss
                     IN Segment(s.snd_lbb + pos, unit(pos, Min({mss, n - pos})))
  <2>2. \A i \in 1 .. Cuts(n, m) : e(i) = Fresh(s, n, m, i)
    BY Zenon DEF Fresh, Position, Piece, Written
  <2>3. new = [i \in 1 .. Cuts(n, m) |-> e(i)]
    BY <2>1, Zenon
  <2> HIDE DEF e, new
  <2>4. QED
    BY <2>2, <2>3, Zenon DEF FreshOnes
<1>8. v = Lengthened(u, m) \o FreshOnes(s, n, m)
  <2> HIDE DEF new, used, cat
  <2>1. (IF has THEN [u EXCEPT ![Len(u)].data = @ \o unit(0, m)] ELSE u) = Lengthened(u, m)
    BY DEF Lengthened, Written
  <2>2. QED
    BY <1>7, <2>1, Zenon
<1> HIDE DEF new, used, cat, m, left, v, room
<1>9. /\ FreshOnes(s, n, m) \in Seq(Segments) /\ Len(FreshOnes(s, n, m)) = Cuts(n, m)
      /\ \A i \in 1 .. Cuts(n, m) : Len(FreshOnes(s, n, m)[i].data) \in 1 .. mss
      /\ Cuts(n, m) \in Nat /\ (Cuts(n, m) = 0 <=> m = n)
  <2>1. /\ s \in ControlBlock /\ n \in Nat /\ m \in 0 .. n /\ written \in Nat /\ written + n <= Units
        /\ At(s.snd_lbb) = written
    BY <1>6
  <2>2. /\ FreshOnes(s, n, m) \in Seq(Segments) /\ Len(FreshOnes(s, n, m)) = Cuts(n, m)
        /\ \A i \in 1 .. Cuts(n, m) : Len(FreshOnes(s, n, m)[i].data) \in 1 .. mss
        /\ Cuts(n, m) \in Nat
    BY ONLY <2>1, FreshAdded
  <2>3. Cuts(n, m) = 0 <=> m = n
    BY ONLY <2>1, CutsAre
  <2>4. QED
    BY <2>2, <2>3
<1>10. o \in Nat
  <2>1. CASE left > 0
    <3>1. Cuts(n, m) \in 1 .. Cuts(n, m)
      BY <1>6, <1>9, <2>1
    <3>2. Len(new[Len(new)].data) \in 1 .. mss
      BY <1>7, <1>9, <3>1
    <3>3. QED
      BY <1>3, <2>1, <3>2
  <2>2. CASE ~(left > 0) /\ cat > 0
    <3>1. cat \in Int
      BY <1>4, <1>5
    <3>2. (TCP_MSS - cat) % 2^16 \in Nat
      BY <1>3, <3>1
    <3>3. o = (TCP_MSS - cat) % 2^16
      BY <2>2
    <3>4. QED
      BY <3>2, <3>3
  <2>3. CASE ~(left > 0) /\ ~(cat > 0)
    <3>1. s.oversize - used \in Nat
      BY <1>2, <1>4
    <3>2. o = IF has THEN s.oversize - used ELSE 0
      BY <2>3
    <3>3. QED
      BY <3>1, <3>2
  <2>4. QED
    BY <2>1, <2>2, <2>3
<1>11. b \in Number /\ f \in Int
  <2>1. s.snd_lbb + n \in Int
    BY <1>2
  <2>2. (s.snd_lbb + n) % SeqSpace \in Number
    BY ONLY <2>1, AtTyped
  <2>3. QED
    BY <1>2, <2>2
<1>12. v \in Seq(Segments)
  <2>1. Lengthened(u, m) \in Seq(Segments)
    BY <1>2, <1>6, LengthenedIs
  <2>2. QED
    BY <1>8, <1>9, <2>1, JoinIs
<1> HIDE DEF o, b, f, t
<1>13. t \in ControlBlock
  BY <1>1, <1>10, <1>11, <1>12 DEF ControlBlock
<1>14. /\ t.unsent = v /\ t.snd_lbb = b /\ t.snd_buf = f
       /\ t.unacked = s.unacked /\ t.snd_nxt = s.snd_nxt /\ t.lastack = s.lastack
       /\ t.snd_wnd = s.snd_wnd /\ t.snd_wl2 = s.snd_wl2 /\ t.running = s.running
       /\ t.closed = s.closed /\ t.dead = s.dead
  BY <1>1 DEF ControlBlock
<1>15. WriteOf(s, n, t, m)
  BY <1>6, <1>8, <1>13, <1>14, Zenon DEF WriteOf, b, f
<1>16. QED
  BY <1>6, <1>15 DEF t

LEMMA LongerPiece ==
    ASSUME NEW g \in Segments, NEW m \in Nat, NEW h, h = [g EXCEPT !.data = @ \o Written(0, m)],
           written \in Nat, PieceOf(g, {}, written, FALSE), End(g) = written
    PROVE  /\ h \in Segments /\ h.seq = g.seq /\ PieceOf(h, {}, written + m, FALSE)
           /\ End(h) = written + m
<1> DEFINE d == g.data
           e == Written(0, m)
           x == d \o e
           l == Len(d)
           a == At(g.seq)
<1>1. d \in Seq(Nat) /\ g.fin \in BOOLEAN
  BY DEF Segments
<1>2. e \in Seq(Nat) /\ Len(e) = m /\ \A i \in 1 .. m : e[i] = written + 0 + i
  BY WrittenIs
<1>3. Typed(g)
  BY SegmentTyped
<1>4. a \in Nat /\ l \in Nat /\ DataEnd(g) = a + l /\ End(g) = DataEnd(g) + (IF g.fin THEN 1 ELSE 0)
  BY <1>3, EndsAre
<1>5. /\ g.fin = FALSE /\ d # <<>>
      /\ \A i \in 1 .. l : d[i] \in {a + i} \cup {}
  BY <1>1 DEF PieceOf
<1>6. a + l = written
  BY <1>4, <1>5
<1> HIDE DEF d, e
<1>7. /\ x \in Seq(Nat) /\ Len(x) = l + m
      /\ \A i \in 1 .. l + m : x[i] = IF i <= l THEN d[i] ELSE e[i - l]
  BY <1>1, <1>2, ConcatProperties
<1> HIDE DEF x, l, a
<1>8. \A i \in 1 .. l + m : x[i] = a + i
  <2> SUFFICES ASSUME NEW i \in 1 .. l + m PROVE x[i] = a + i
    OBVIOUS
  <2>1. CASE i <= l
    <3>1. i \in 1 .. l
      BY <1>4, <2>1
    <3>2. x[i] = d[i]
      BY <1>7, <2>1
    <3>3. QED
      BY <1>5, <3>1, <3>2
  <2>2. CASE ~(i <= l)
    <3> DEFINE j == i - l
    <3>1. j \in 1 .. m /\ written + 0 + j = a + i
      BY <1>4, <1>6, <2>2
    <3>2. x[i] = e[j]
      BY <1>7, <2>2
    <3> HIDE DEF j
    <3>3. QED
      BY <1>2, <3>1, <3>2
  <2>3. QED
    BY <2>1, <2>2
<1>9. h.data = x /\ h.seq = g.seq /\ h.fin = FALSE /\ h \in Segments
  <2>1. h = [g EXCEPT !.data = x]
    BY DEF x, d, e
  <2>2. QED
    BY <1>5, <1>7, <2>1 DEF Segments
<1>10. DataEnd(h) = written + m /\ At(h.seq) = a /\ Len(h.data) = l + m
  <2>1. At(h.seq) = a /\ Len(h.data) = l + m
    BY <1>7, <1>9 DEF a
  <2>2. DataEnd(h) = At(h.seq) + Len(h.data)
    BY DEF DataEnd
  <2>3. DataEnd(h) = a + (l + m)
    BY <2>1, <2>2, Zenon
  <2>4. QED
    BY <1>4, <1>6, <2>1, <2>3
<1>11. End(h) = written + m
  <2>1. TcpLen(h) = l + m
    <3>1. TcpLen(h) = Len(h.data) + (IF h.fin THEN 1 ELSE 0)
      BY DEF TcpLen
    <3>2. (IF h.fin THEN 1 ELSE 0) = 0
      BY <1>9
    <3>3. TcpLen(h) = (l + m) + 0
      BY <1>10, <3>1, <3>2, Zenon
    <3>4. QED
      BY <1>4, <3>3
  <2>2. QED
    BY <1>4, <1>6, <1>10, <2>1 DEF End
<1>12. x # <<>>
  <2>1. l > 0
    BY <1>1, <1>5, EmptySeq DEF l
  <2>2. QED
    BY <1>4, <1>7, <2>1, EmptySeq
<1>13. PieceOf(h, {}, written + m, FALSE)
  BY <1>8, <1>9, <1>10, <1>12 DEF PieceOf
<1>14. QED
  BY <1>9, <1>11, <1>13

LEMMA WriteTiles ==
    ASSUME NEW s \in ControlBlock, NEW n \in Nat \ {0}, NEW t, NEW m, WriteOf(s, n, t, m),
           written \in 0 .. Units, written + n <= Units, At(s.snd_lbb) = written,
           NEW from \in Nat, Tiled(Queue(s), from, written, FALSE)
    PROVE  Tiled(Queue(t), from, written + n, FALSE)
<1> DEFINE a == s.unacked
           u == s.unsent
           x == Lengthened(u, m)
           y == FreshOnes(s, n, m)
           q == a \o u
           r == a \o x
           k == Len(a)
           l == Len(u)
           v == written + m
<1>1. /\ m \in 0 .. n /\ (u = <<>> => m = 0) /\ m \in Nat
      /\ t.unsent = x \o y /\ t.unacked = a
  BY DEF WriteOf
<1>2. /\ written \in Nat /\ n \in Nat /\ v \in 0 .. Units /\ written <= v /\ v <= written + n
      /\ written + n \in 0 .. Units
  BY <1>1, SegmentsConstants
<1>3. a \in Seq(Segments) /\ u \in Seq(Segments) /\ q = Queue(s)
  BY BlockQueues DEF Queue
<1>4. Tiled(q, from, written, FALSE)
  BY <1>3
<1>5. /\ x \in Seq(Segments) /\ Len(x) = l /\ l \in Nat
      /\ \A i \in 1 .. l : i # l => x[i] = u[i]
      /\ u # <<>> => /\ l \in 1 .. l /\ u[l] \in Segments
                     /\ x[l] = [u[l] EXCEPT !.data = @ \o Written(0, m)]
  BY <1>1, <1>2, <1>3, LengthenedIs
<1>6. y \in Seq(Segments) /\ Added(y, v, written + n, FALSE)
  BY <1>1, <1>2, FreshAdded
<1> HIDE DEF a, u, x, y, l
<1>7. /\ q \in Seq(Segments) /\ k \in Nat /\ Len(q) = k + l
      /\ \A i \in 1 .. k : q[i] = a[i]
      /\ \A i \in 1 .. l : q[k + i] = u[i]
      /\ \A i \in 1 .. k + l : i \in 1 .. k \/ \E j \in 1 .. l : i = k + j
  BY <1>3, JoinIs DEF l
<1>8. /\ r \in Seq(Segments) /\ Len(r) = k + l
      /\ \A i \in 1 .. k : r[i] = a[i]
      /\ \A i \in 1 .. l : r[k + i] = x[i]
  <2>1. /\ r \in Seq(Segments) /\ Len(r) = k + Len(x)
        /\ \A i \in 1 .. k : r[i] = a[i]
        /\ \A i \in 1 .. Len(x) : r[k + i] = x[i]
    <3>1. a \in Seq(Segments) /\ x \in Seq(Segments)
      BY <1>3, <1>5
    <3>2. QED
      BY ONLY <3>1, JoinIs
  <2> HIDE DEF r, k
  <2>2. QED
    BY <1>5, <2>1
<1> HIDE DEF q, r, k
<1>9. Tiled(r, from, v, FALSE)
  <2>1. CASE u = <<>>
    <3>1. l = 0 /\ v = written
      BY <1>1, <1>2, <2>1, EmptySeq DEF l
    <3>2. Len(r) = Len(q) /\ \A i \in 1 .. Len(r) : r[i] = q[i]
      BY <1>7, <1>8, <3>1
    <3>3. r = q
      BY <1>7, <1>8, <3>2, SeqEqual
    <3>4. QED
      BY <1>4, <3>1, <3>3
  <2>2. CASE u # <<>>
    <3> DEFINE g == u[l]
               h == x[l]
               z == k + l
    <3>1. /\ l \in 1 .. l /\ g \in Segments /\ h = [g EXCEPT !.data = @ \o Written(0, m)]
      BY <1>5, <2>2
    <3>2. z \in 1 .. z /\ z = Len(q) /\ q[z] = g /\ r[z] = h
      <4>1. q[k + l] = u[l] /\ r[k + l] = x[l]
        BY <1>7, <1>8, <3>1
      <4>2. k + l \in 1 .. k + l
        BY <1>5, <1>7, <3>1
      <4>3. QED
        BY <1>7, <4>1, <4>2
    <3>3. q # <<>>
      BY <1>7, <3>2, EmptySeq
    <3> HIDE DEF g, h, z
    <3>4. PieceOf(g, {}, written, FALSE) /\ End(g) = Edge(written, FALSE)
      BY <1>4, <3>2, <3>3 DEF Tiled
    <3>5. Edge(written, FALSE) = written
      BY <1>2 DEF Edge
    <3>6. h.seq = g.seq /\ PieceOf(h, {}, v, FALSE) /\ End(h) = v
      BY <1>1, <1>2, <3>1, <3>4, <3>5, LongerPiece
    <3>7. \A i \in 1 .. Len(q) : i # Len(q) => r[i] = q[i]
      <4> SUFFICES ASSUME NEW i \in 1 .. k + l, i # k + l PROVE r[i] = q[i]
        BY <1>7
      <4>1. CASE i \in 1 .. k
        BY <1>7, <1>8, <4>1
      <4>2. CASE \E j \in 1 .. l : i = k + j
        <5>1. PICK j \in 1 .. l : i = k + j
          BY <4>2
        <5>2. j # l
          BY <5>1
        <5>3. QED
          BY <1>5, <1>7, <1>8, <5>1, <5>2
      <4>3. QED
        BY <1>7, <4>1, <4>2
    <3>8. Edge(v, FALSE) = v
      BY <1>2 DEF Edge
    <3> DEFINE c == FALSE
    <3>9. c \in BOOLEAN /\ PieceOf(h, {}, v, c) /\ End(h) = Edge(v, c)
      BY <3>6, <3>8
    <3> HIDE DEF c
    <3>10. /\ q \in Seq(Segments) /\ from \in Nat /\ written \in 0 .. Units
           /\ Tiled(q, from, written, FALSE) /\ q # <<>> /\ r \in Seq(Segments) /\ Len(r) = Len(q)
           /\ \A i \in 1 .. Len(q) : i # Len(q) => r[i] = q[i]
           /\ r[Len(q)].seq = q[Len(q)].seq
           /\ v \in 0 .. Units /\ written <= v /\ c \in BOOLEAN
           /\ PieceOf(r[Len(q)], {}, v, c) /\ End(r[Len(q)]) = Edge(v, c)
      <4>1. r[Len(q)] = h /\ q[Len(q)] = g /\ Len(r) = Len(q)
        BY <1>7, <1>8, <3>2
      <4>2. QED
        BY <1>2, <1>4, <1>7, <1>8, <3>3, <3>6, <3>7, <3>9, <4>1, Zenon
    <3>11. Tiled(r, from, v, c)
      BY ONLY <3>10, TiledLast
    <3>12. QED
      BY <3>11 DEF c
  <2>3. QED
    BY <2>1, <2>2
<1> DEFINE c == FALSE
<1>10. c \in BOOLEAN /\ Added(y, v, written + n, c)
  BY <1>6
<1> HIDE DEF c, v
<1>11. Tiled(r \o y, from, written + n, c)
  BY <1>2, <1>6, <1>8, <1>9, <1>10, TiledAppend
<1>12. Queue(t) = r \o y
  <2>1. Queue(t) = a \o (x \o y)
    BY <1>1 DEF Queue
  <2>2. a \in Seq(Segments) /\ x \in Seq(Segments) /\ y \in Seq(Segments)
    BY <1>3, <1>5, <1>6
  <2>3. (a \o x) \o y = a \o (x \o y)
    BY ONLY <2>2, ConcatAssociative
  <2>4. QED
    BY <2>1, <2>3 DEF r
<1>13. QED
  BY <1>11, <1>12 DEF c

(* What the sender knows after a write.                                    *)
LEMMA WriteKeeps ==
    ASSUME NEW s \in ControlBlock, NEW n \in Nat \ {0}, CanWrite(s, n),
           written \in 0 .. Units, SenderFits(s, written)
    PROVE  /\ tcp_write(s, n) \in ControlBlock /\ SenderFits(tcp_write(s, n), written + n)
           /\ written + n \in 0 .. Units /\ At(s.lastack) <= written
           /\ LET t == tcp_write(s, n)
              IN /\ t.lastack = s.lastack /\ t.snd_nxt = s.snd_nxt /\ t.snd_wnd = s.snd_wnd
                 /\ t.snd_wl2 = s.snd_wl2 /\ t.closed = s.closed /\ t.dead = s.dead
                 /\ t.unacked = s.unacked
<1> DEFINE t == tcp_write(s, n)
           w == written
           v == written + n
<1>1. s.closed = FALSE /\ n <= s.snd_buf /\ v <= Units
  BY BlockNumbers DEF CanWrite
<1>2. /\ w \in Nat /\ n \in Nat /\ v \in 0 .. Units /\ w <= v /\ Units \in Nat
      /\ TCP_SND_BUF \in Nat
  BY <1>1, SegmentsConstants
<1>3. /\ Counts(s, w) /\ Tiled(Queue(s), At(s.lastack), w, s.closed)
      /\ \A i \in 1 .. Len(s.unacked) : WasSent(s, s.unacked[i])
      /\ s.unacked # <<>> => s.running
  BY DEF SenderFits
<1> DEFINE a == At(s.lastack)
           x == At(s.snd_nxt)
           l == s.snd_lbb
           b == s.snd_buf
<1>4. a \in Nat /\ x \in Nat /\ l \in Int /\ b \in Int
  <2>1. b \in Int
    BY DEF ControlBlock
  <2> HIDE DEF a, x, l, b
  <2>2. QED
    BY <2>1, BlockNumbers DEF a, x, l
<1>5. w <= a + TCP_SND_BUF /\ At(l) = w /\ b + w = TCP_SND_BUF + a /\ a <= x /\ x <= Edge(w, FALSE)
  BY <1>1, <1>3 DEF Counts
<1>6. Edge(w, FALSE) = w /\ Edge(v, FALSE) = v
  BY DEF Edge
<1>7. PICK m \in 0 .. n : WriteOf(s, n, t, m)
  <2>1. At(s.snd_lbb) = written /\ written \in Nat /\ written + n <= Units
    BY <1>1, <1>2, <1>5
  <2>2. QED
    BY <2>1, WriteIs
<1> HIDE DEF t
<1>8. /\ t \in ControlBlock /\ t.snd_lbb = (l + n) % SeqSpace /\ t.snd_buf = b - n
      /\ t.unacked = s.unacked /\ t.snd_nxt = s.snd_nxt /\ t.lastack = s.lastack
      /\ t.snd_wnd = s.snd_wnd /\ t.snd_wl2 = s.snd_wl2 /\ t.running = s.running
      /\ t.closed = s.closed /\ t.dead = s.dead
  BY <1>7 DEF WriteOf
<1>9. At(t.snd_lbb) = v
  <2>1. v \in Number
    BY <1>2, SegmentsConstants DEF Number
  <2>2. l \in Int /\ n \in Int /\ At(l) + n \in Number
    BY <1>2, <1>4, <1>5, <2>1
  <2>3. At((l + n) % SeqSpace) = At(l) + n
    BY ONLY <2>2, AtPlus
  <2>4. QED
    BY <1>5, <1>8, <2>3
<1>10. Tiled(Queue(t), a, v, FALSE)
  <2>1. Tiled(Queue(s), a, w, FALSE)
    BY <1>1, <1>3, Zenon
  <2> HIDE DEF a
  <2>2. QED
    BY <1>1, <1>4, <1>5, <1>7, <2>1, WriteTiles DEF l
<1>11. Counts(t, v)
  <2>0. n <= b /\ v = w + n /\ x <= w
    BY <1>1, <1>5, <1>6
  <2> HIDE DEF a, x, l, b, w, v
  <2>1. v <= a + TCP_SND_BUF /\ (b - n) + v = TCP_SND_BUF + a /\ x <= v
    BY <1>2, <1>4, <1>5, <2>0
  <2>2. a <= x
    BY <1>5
  <2>3. At(t.lastack) = a /\ At(t.snd_nxt) = x /\ t.closed = FALSE
    BY <1>1, <1>8 DEF a, x
  <2>4. QED
    BY <1>1, <1>6, <1>8, <1>9, <2>1, <2>2, <2>3 DEF Counts, v
<1>12. \A i \in 1 .. Len(t.unacked) : WasSent(t, t.unacked[i])
  BY <1>3, <1>8 DEF WasSent
<1>13. SenderFits(t, v)
  <2>1. Tiled(Queue(t), At(t.lastack), v, t.closed)
    BY <1>1, <1>8, <1>10, Zenon DEF a
  <2>2. t.unacked # <<>> => t.running
    BY <1>3, <1>8
  <2>3. QED
    BY <1>11, <1>12, <2>1, <2>2 DEF SenderFits
<1>14. a <= w
  <2>0. a <= x /\ x <= w
    BY <1>5, <1>6
  <2> HIDE DEF a, x, w
  <2>1. QED
    BY <1>2, <1>4, <2>0
<1>15. QED
  BY <1>2, <1>8, <1>13, <1>14 DEF t, a, w, v

LEMMA WriteAround ==
    ASSUME NEW s, NEW n \in Nat \ {0}, CanWrite(s, n),
           written \in 0 .. Units, SenderFits(s, written), NEW p, NEW q, NEW fs \in Seq(FrameSet),
           NEW r \in Seq(Nat), NEW e \in BOOLEAN, NEW k, Around(s, written, p, q, fs, r, e, k)
    PROVE  Around(tcp_write(s, n), written + n, p, q, fs, r, e, k)
<1> DEFINE t == tcp_write(s, n)
           w == written
           v == written + n
<1>1. /\ s \in ControlBlock /\ WindowFits(s, p, q) /\ FramesFit(fs, s, w)
      /\ Taken(p, r, e, s, w) /\ Told(s, w, k)
  BY DEF Around
<1>2. /\ t \in ControlBlock /\ v \in 0 .. Units /\ At(s.lastack) <= w
      /\ t.lastack = s.lastack /\ t.snd_nxt = s.snd_nxt /\ t.snd_wnd = s.snd_wnd
      /\ t.snd_wl2 = s.snd_wl2 /\ t.closed = s.closed /\ t.dead = s.dead
      /\ t.unacked = s.unacked
  BY <1>1, WriteKeeps
<1>3. ~s.closed /\ s.closed \in BOOLEAN
  BY <1>1, BlockNumbers DEF CanWrite
<1>4. w <= v /\ w \in Nat /\ v \in Nat /\ w \in 0 .. Units
  <2>1. Units \in Nat
    BY SegmentsConstants
  <2>2. QED
    BY <2>1
<1> HIDE DEF t, w, v
<1>5. WindowFits(t, p, q)
  BY <1>1, <1>2 DEF WindowFits
<1>6. \A x : Follows(x, s) => Follows(x, t)
  BY <1>2 DEF Follows
<1>7. FramesFit(fs, t, v)
  <2> SUFFICES ASSUME NEW i \in 1 .. Len(fs)
               PROVE  PieceOf(fs[i], {HeaderByte}, v, t.closed) /\ Follows(End(fs[i]), t)
    BY DEF FramesFit
  <2>1. PieceOf(fs[i], {HeaderByte}, w, s.closed) /\ Follows(End(fs[i]), s)
    BY <1>1 DEF FramesFit
  <2>2. Typed(fs[i])
    <3>1. fs[i] \in FrameSet
      BY ElementOfSeq
    <3>2. QED
      BY <3>1, SegmentTyped
  <2>3. PieceOf(fs[i], {HeaderByte}, v, s.closed)
    BY <1>2, <1>3, <1>4, <2>1, <2>2, PieceLater
  <2>4. QED
    BY <1>2, <1>6, <2>1, <2>3
<1>8. Taken(p, r, e, t, v)
  <2>1. /\ At(p.rcv_nxt) = Len(r) + (IF e THEN 1 ELSE 0)
        /\ Len(r) <= w /\ Follows(At(p.rcv_nxt), s)
        /\ \A i \in 1 .. Len(r) : r[i] \in {i, HeaderByte}
        /\ e => s.closed /\ Len(r) = w
    BY <1>1 DEF Taken
  <2>2. Len(r) \in Nat
    BY LenProperties
  <2>3. Len(r) <= v /\ ~e
    BY <1>3, <1>4, <2>1, <2>2
  <2>4. QED
    BY <1>6, <2>1, <2>3 DEF Taken
<1>9. Told(t, v, k)
  <2> DEFINE a == At(s.lastack)
  <2>1. a \in Nat /\ a <= w
    BY <1>1, <1>2, BlockNumbers
  <2>2. k = IF a > w THEN w ELSE a
    BY <1>1 DEF Told
  <2>3. At(t.lastack) = a
    BY <1>2
  <2> HIDE DEF a
  <2>4. k = IF a > v THEN v ELSE a
    BY <1>4, <2>1, <2>2
  <2>5. QED
    BY <2>3, <2>4 DEF Told
<1>10. QED
  BY <1>2, <1>5, <1>7, <1>8, <1>9 DEF Around, t, v
-----------------------------------------------------------------------------
(* The steps of the sender.                                                *)
LEMMA InvIs ==
    ASSUME SegmentsInv
    PROVE  /\ tcp \in ControlBlock /\ peer \in PeerBlock /\ wire \in Seq(FrameSet) /\ acks \in Seq(AckSet)
           /\ written \in 0 .. Units /\ reported \in Nat /\ received \in Seq(Nat) /\ eof \in BOOLEAN
           /\ Around(tcp, written, peer, acks, wire, received, eof, reported)
           /\ AcksFit(acks, peer) /\ PeerFits(peer) /\ Counts(tcp, written)
           /\ ~tcp.dead => SenderFits(tcp, written)
           /\ Timed(tcp)
BY DEF SegmentsInv, SegmentsTyped, Around

(* A step that ends in tcp_output of a block u that still fits.            *)
LEMMA SenderStep ==
    ASSUME SegmentsInv, NEW u, NEW w \in 0 .. Units, NEW q \in Seq(AckSet), NEW n \in Nat,
           AcksFit(q, peer), Around(u, w, peer, q, wire, received, eof, n), NEW z, Sends(u, w, z),
           tcp' = tcp_output(u), wire' = wire \o Frames(u), acks' = q, written' = w, reported' = n,
           peer' = peer, received' = received, eof' = eof
    PROVE  SegmentsInv'
<1>1. /\ peer \in PeerBlock /\ wire \in Seq(FrameSet) /\ received \in Seq(Nat) /\ eof \in BOOLEAN
      /\ PeerFits(peer)
  BY InvIs
<1> DEFINE t == tcp_output(u)
           ws == wire \o Frames(u)
<1>2. /\ Around(t, w, peer, q, ws, received, eof, n) /\ SenderFits(t, w) /\ ws \in Seq(FrameSet)
  BY <1>1, OutputAround
<1>3. t \in ControlBlock /\ Counts(t, w)
  BY <1>2 DEF Around, SenderFits
<1>4. /\ tcp' = t /\ wire' = ws /\ acks' = q /\ written' = w /\ reported' = n
      /\ peer' = peer /\ received' = received /\ eof' = eof
  OBVIOUS
<1> HIDE DEF t, ws
<1>5. SegmentsTyped'
  BY <1>1, <1>2, <1>3, <1>4 DEF SegmentsTyped
<1>6. /\ WindowFits(t, peer, q) /\ FramesFit(ws, t, w)
      /\ Taken(peer, received, eof, t, w) /\ Told(t, w, n)
  BY <1>2 DEF Around
<1>7. /\ SenderFits(t, w) /\ Counts(t, w) /\ AcksFit(q, peer) /\ PeerFits(peer) /\ Timed(t)
  BY <1>1, <1>2, <1>3 DEF SenderFits, Timed
<1>8. QED
  BY <1>4, <1>5, <1>6, <1>7, Zenon DEF SegmentsInv

LEMMA WriteKept ==
    ASSUME SegmentsInv, NEW n \in WriteSizes, Write(n)
    PROVE  SegmentsInv'
<1> DEFINE u == tcp_write(tcp, n)
           w == written + n
<1>1. n \in Nat \ {0}
  BY SegmentsConstants
<1>2. /\ ~tcp.dead /\ CanWrite(tcp, n) /\ tcp' = tcp_output(u) /\ wire' = wire \o Frames(u)
      /\ written' = w /\ peer' = peer /\ acks' = acks /\ reported' = reported
      /\ received' = received /\ eof' = eof
  BY DEF Write
<1>3. /\ tcp \in ControlBlock /\ acks \in Seq(AckSet) /\ reported \in Nat /\ AcksFit(acks, peer)
      /\ Around(tcp, written, peer, acks, wire, received, eof, reported)
      /\ SenderFits(tcp, written) /\ written \in 0 .. Units /\ wire \in Seq(FrameSet)
      /\ received \in Seq(Nat) /\ eof \in BOOLEAN
  BY <1>2, InvIs
<1>4. u \in ControlBlock /\ SenderFits(u, w) /\ w \in 0 .. Units
  BY <1>1, <1>2, <1>3, WriteKeeps
<1>5. Around(u, w, peer, acks, wire, received, eof, reported)
  BY <1>1, <1>2, <1>3, WriteAround
<1> HIDE DEF u, w
<1>6. Sends(u, w, Queue(u))
  BY <1>4, StraightSends
<1>7. QED
  BY <1>2, <1>3, <1>4, <1>5, <1>6, SenderStep

LEMMA PollKept ==
    ASSUME SegmentsInv, Poll
    PROVE  SegmentsInv'
<1>1. /\ ~tcp.dead /\ tcp' = tcp_output(tcp) /\ wire' = wire \o Frames(tcp)
      /\ written' = written /\ peer' = peer /\ acks' = acks /\ reported' = reported
      /\ received' = received /\ eof' = eof
  BY DEF Poll
<1>2. /\ tcp \in ControlBlock /\ acks \in Seq(AckSet) /\ reported \in Nat /\ AcksFit(acks, peer)
      /\ Around(tcp, written, peer, acks, wire, received, eof, reported)
      /\ SenderFits(tcp, written) /\ written \in 0 .. Units
  BY <1>1, InvIs
<1>3. Sends(tcp, written, Queue(tcp))
  BY <1>2, StraightSends
<1>4. QED
  BY <1>1, <1>2, <1>3, SenderStep

LEMMA WriteFailsKept ==
    ASSUME SegmentsInv, WriteFails
    PROVE  SegmentsInv'
<1> DEFINE t == [tcp EXCEPT !.memerr = TRUE]
<1>1. /\ tcp' = t /\ wire' = wire /\ ~tcp.dead
      /\ written' = written /\ peer' = peer /\ acks' = acks /\ reported' = reported
      /\ received' = received /\ eof' = eof
  BY DEF WriteFails
<1>2. tcp \in ControlBlock /\ SegmentsTyped
  BY InvIs DEF SegmentsInv
<1>3. /\ t \in ControlBlock /\ t.unsent = tcp.unsent /\ t.unacked = tcp.unacked /\ t.snd_nxt = tcp.snd_nxt
      /\ t.lastack = tcp.lastack /\ t.snd_lbb = tcp.snd_lbb /\ t.snd_buf = tcp.snd_buf
      /\ t.snd_wnd = tcp.snd_wnd /\ t.snd_wl2 = tcp.snd_wl2 /\ t.running = tcp.running
      /\ t.closed = tcp.closed /\ t.dead = tcp.dead
  BY <1>2 DEF ControlBlock
<1> HIDE DEF t
<1>4. SegmentsTyped'
  BY <1>1, <1>2, <1>3 DEF SegmentsTyped
<1>5. Queue(t) = Queue(tcp) /\ (\A g : WasSent(tcp, g) <=> WasSent(t, g))
      /\ (Counts(tcp, written) => Counts(t, written))
      /\ (\A n : Follows(n, tcp) => Follows(n, t))
  BY <1>3 DEF Queue, WasSent, Counts, Follows
<1>6. SenderFits(tcp, written) => SenderFits(t, written)
  BY <1>3, <1>5 DEF SenderFits
<1>7. WindowFits(t, peer, acks)
  BY <1>3 DEF SegmentsInv, WindowFits
<1>8. FramesFit(wire, t, written)
  BY <1>3, <1>5 DEF SegmentsInv, FramesFit
<1>9. Taken(peer, received, eof, t, written)
  BY <1>3, <1>5 DEF SegmentsInv, Taken
<1>10. Told(t, written, reported)
  BY <1>3 DEF SegmentsInv, Told
<1>11. /\ SenderFits(t, written) /\ Counts(t, written) /\ AcksFit(acks, peer) /\ PeerFits(peer) /\ Timed(t)
  BY <1>1, <1>3, <1>5, <1>6 DEF SegmentsInv, Timed
<1>12. QED
  BY <1>1, <1>4, <1>7, <1>8, <1>9, <1>10, <1>11, Zenon DEF SegmentsInv

LEMMA GivenUpKept ==
    ASSUME SegmentsInv, GivenUp
    PROVE  SegmentsInv'
<1> DEFINE t == [tcp EXCEPT !.dead = TRUE, !.unsent = <<>>, !.unacked = <<>>]
<1>1. /\ tcp' = t /\ wire' = wire
      /\ written' = written /\ peer' = peer /\ acks' = acks /\ reported' = reported
      /\ received' = received /\ eof' = eof
  BY DEF GivenUp
<1>2. tcp \in ControlBlock /\ SegmentsTyped
  BY InvIs DEF SegmentsInv
<1>3. /\ t \in ControlBlock /\ t.snd_nxt = tcp.snd_nxt
      /\ t.lastack = tcp.lastack /\ t.snd_lbb = tcp.snd_lbb /\ t.snd_buf = tcp.snd_buf
      /\ t.snd_wnd = tcp.snd_wnd /\ t.snd_wl2 = tcp.snd_wl2
      /\ t.closed = tcp.closed /\ t.dead /\ t.unacked = <<>>
  <2>1. <<>> \in Seq(Segments)
    BY EmptySeq
  <2>2. QED
    BY <1>2, <2>1 DEF ControlBlock
<1> HIDE DEF t
<1>4. SegmentsTyped'
  BY <1>1, <1>2, <1>3 DEF SegmentsTyped
<1>5. (Counts(tcp, written) => Counts(t, written)) /\ (\A n : Follows(n, t))
  BY <1>3 DEF Counts, Follows
<1>6. WindowFits(t, peer, acks)
  BY <1>3 DEF SegmentsInv, WindowFits
<1>7. FramesFit(wire, t, written)
  BY <1>3, <1>5 DEF SegmentsInv, FramesFit
<1>8. Taken(peer, received, eof, t, written)
  BY <1>3, <1>5 DEF SegmentsInv, Taken
<1>9. Told(t, written, reported)
  BY <1>3 DEF SegmentsInv, Told
<1>10. /\ Counts(t, written) /\ AcksFit(acks, peer) /\ PeerFits(peer) /\ Timed(t)
  BY <1>1, <1>3, <1>5 DEF SegmentsInv, Timed
<1>11. QED
  BY <1>1, <1>3, <1>4, <1>6, <1>7, <1>8, <1>9, <1>10, Zenon DEF SegmentsInv
-----------------------------------------------------------------------------
(* A block that differs from s in nothing that others go by.               *)
Alike(t, s) ==
    /\ t.lastack = s.lastack /\ t.snd_nxt = s.snd_nxt /\ t.snd_wnd = s.snd_wnd
    /\ t.snd_wl2 = s.snd_wl2 /\ t.closed = s.closed /\ t.dead = s.dead
    /\ s.unacked = <<>> => t.unacked = <<>>

LEMMA AlikeAround ==
    ASSUME NEW s, NEW t \in ControlBlock, Alike(t, s), NEW w, NEW p, NEW q, NEW fs, NEW r, NEW e, NEW k,
           Around(s, w, p, q, fs, r, e, k)
    PROVE  Around(t, w, p, q, fs, r, e, k)
<1>1. /\ t.lastack = s.lastack /\ t.snd_nxt = s.snd_nxt /\ t.snd_wnd = s.snd_wnd
      /\ t.snd_wl2 = s.snd_wl2 /\ t.closed = s.closed /\ t.dead = s.dead
      /\ s.unacked = <<>> => t.unacked = <<>>
  BY DEF Alike
<1>2. /\ WindowFits(s, p, q) /\ FramesFit(fs, s, w) /\ Taken(p, r, e, s, w) /\ Told(s, w, k)
  BY DEF Around
<1>3. \A x : Follows(x, s) => Follows(x, t)
  BY <1>1 DEF Follows
<1>4. WindowFits(t, p, q)
  BY <1>1, <1>2 DEF WindowFits
<1>5. FramesFit(fs, t, w)
  BY <1>1, <1>2, <1>3 DEF FramesFit
<1>6. Taken(p, r, e, t, w)
  BY <1>1, <1>2, <1>3 DEF Taken
<1>7. Told(t, w, k)
  BY <1>1, <1>2 DEF Told
<1>8. QED
  BY <1>4, <1>5, <1>6, <1>7 DEF Around

LEMMA CappedIs ==
    ASSUME NEW n \in Int
    PROVE  Capped(n) = IF n <= TCP_WND THEN n ELSE TCP_WND
<1>1. TCP_WND \in Int
  BY SegmentsConstants
<1>2. Capped(n) = Min({n, TCP_WND})
  BY DEF Capped
<1>3. QED
  BY <1>1, <1>2, MinIs

LEMMA ThreshIs ==
    ASSUME NEW s \in ControlBlock
    PROVE  /\ ReducedThresh(s) \in Nat \ {0} /\ ReducedThresh(s) <= TCP_WND
           /\ ReducedThresh(s) >= 2 * mss \/ ReducedThresh(s) = TCP_WND
<1> DEFINE a == Min({s.cwnd, s.snd_wnd}) \div 2
           b == 2 * mss
           m == Max({a, b})
           x == Min({s.cwnd, s.snd_wnd})
<1>1. s.cwnd \in Nat /\ s.snd_wnd \in Nat
  BY DEF ControlBlock
<1>2. mss \in Nat /\ mss > 0 /\ TCP_WND \in Nat /\ TCP_WND > 0
  BY SegmentsConstants
<1>3. x \in Nat
  <2>1. x = IF s.cwnd <= s.snd_wnd THEN s.cwnd ELSE s.snd_wnd
    BY <1>1, MinIs
  <2>2. QED
    BY <1>1, <2>1
<1>4. a \in Int /\ b \in Int /\ b > 0 /\ b \in Nat
  <2> HIDE DEF x
  <2>1. x \div 2 \in Int
    BY <1>3
  <2>2. QED
    BY <1>2, <2>1 DEF x
<1> HIDE DEF a, b
<1>5. m = IF a >= b THEN a ELSE b
  BY <1>4, MaxIs
<1> HIDE DEF m
<1>6. m \in Int /\ m >= b
  BY <1>4, <1>5
<1>7. Capped(m) = IF m <= TCP_WND THEN m ELSE TCP_WND
  BY <1>6, CappedIs
<1>8. ReducedThresh(s) = Capped(m)
  BY DEF ReducedThresh, m, a, b
<1>9. Capped(m) \in Nat \ {0} /\ Capped(m) <= TCP_WND /\ (Capped(m) >= b \/ Capped(m) = TCP_WND)
  BY <1>2, <1>4, <1>6, <1>7
<1>10. QED
  BY <1>8, <1>9 DEF b

LEMMA RetriedIs ==
    ASSUME NEW n \in Nat
    PROVE  Retried(n) \in Nat
<1>1. TCP_MAXRTX + 1 \in Nat /\ n + 1 \in Nat
  BY SegmentsConstants
<1>2. Retried(n) = Min({n + 1, TCP_MAXRTX + 1})
  BY DEF Retried
<1>3. Retried(n) = IF n + 1 <= TCP_MAXRTX + 1 THEN n + 1 ELSE TCP_MAXRTX + 1
  BY <1>1, <1>2, MinIs
<1>4. QED
  BY <1>1, <1>3

LEMMA RetransmitKept ==
    ASSUME SegmentsInv, Retransmit
    PROVE  SegmentsInv'
<1> DEFINE h == ReducedThresh(tcp)
           n == Retried(tcp.nrtx)
           q == tcp.unacked \o tcp.unsent
           u == [tcp EXCEPT !.ssthresh = h, !.cwnd = mss, !.nrtx = n, !.unacked = <<>>, !.unsent = q]
<1>1. /\ ~tcp.dead /\ tcp' = tcp_output(u) /\ wire' = wire \o Frames(u)
      /\ written' = written /\ peer' = peer /\ acks' = acks /\ reported' = reported
      /\ received' = received /\ eof' = eof
  BY DEF Retransmit
<1>2. /\ tcp \in ControlBlock /\ acks \in Seq(AckSet) /\ reported \in Nat /\ AcksFit(acks, peer)
      /\ Around(tcp, written, peer, acks, wire, received, eof, reported)
      /\ SenderFits(tcp, written) /\ written \in 0 .. Units
  BY <1>1, InvIs
<1>3. h \in Nat \ {0} /\ n \in Nat /\ mss \in Nat \ {0}
  <2>1. tcp.nrtx \in Nat
    BY <1>2 DEF ControlBlock
  <2>2. QED
    BY <1>2, <2>1, ThreshIs, RetriedIs, SegmentsConstants
<1>4. q \in Seq(Segments) /\ <<>> \in Seq(Segments)
  BY <1>2, BlockQueues, JoinIs, EmptySeq
<1>5. q = Queue(tcp)
  BY DEF Queue
<1> HIDE DEF h, n, q
<1>6. u \in ControlBlock
  BY <1>2, <1>3, <1>4 DEF ControlBlock
<1>7. /\ u.unsent = q /\ u.unacked = <<>> /\ u.snd_nxt = tcp.snd_nxt
      /\ u.lastack = tcp.lastack /\ u.snd_lbb = tcp.snd_lbb /\ u.snd_buf = tcp.snd_buf
      /\ u.snd_wnd = tcp.snd_wnd /\ u.snd_wl2 = tcp.snd_wl2
      /\ u.closed = tcp.closed /\ u.dead = tcp.dead
  BY <1>2 DEF ControlBlock
<1> HIDE DEF u
<1>8. Alike(u, tcp)
  BY <1>7 DEF Alike
<1>9. Queue(u) = Queue(tcp)
  BY <1>4, <1>5, <1>7, ConcatEmptySeq DEF Queue
<1>10. SenderFits(u, written)
  <2>1. Counts(u, written)
    BY <1>2, <1>7 DEF SenderFits, Counts
  <2>2. Tiled(Queue(u), At(u.lastack), written, u.closed)
    BY <1>2, <1>7, <1>9 DEF SenderFits
  <2>3. Len(u.unacked) = 0
    BY <1>7, EmptySeq
  <2>4. QED
    BY <1>7, <2>1, <2>2, <2>3 DEF SenderFits
<1>11. Sends(u, written, Queue(u))
  BY <1>2, <1>6, <1>10, StraightSends
<1>12. Around(u, written, peer, acks, wire, received, eof, reported)
  BY <1>2, <1>6, <1>8, AlikeAround
<1>13. QED
  BY <1>1, <1>2, <1>11, <1>12, SenderStep
-----------------------------------------------------------------------------
(* tcp_send_fin: the last unsent segment gets the FIN, or a new one.       *)
FinOn(g) == [g EXCEPT !.fin = TRUE]
FinAlone(s) == FinOn(Segment(s.snd_lbb, <<>>))

LEMMA FinPiece ==
    ASSUME NEW g \in Segments, NEW w \in Nat, PieceOf(g, {}, w, FALSE), End(g) = w
    PROVE  /\ FinOn(g) \in Segments /\ FinOn(g).seq = g.seq /\ End(FinOn(g)) = w + 1
           /\ PieceOf(FinOn(g), {}, w, TRUE)
<1> DEFINE h == FinOn(g)
           a == At(g.seq)
           l == Len(g.data)
<1>1. h \in Segments /\ h.seq = g.seq /\ h.data = g.data /\ h.fin = TRUE /\ g.fin \in BOOLEAN
  BY DEF Segments, FinOn
<1>2. Typed(g)
  BY SegmentTyped
<1>3. a \in Nat /\ l \in Nat /\ DataEnd(g) = a + l /\ End(g) = DataEnd(g) + (IF g.fin THEN 1 ELSE 0)
  BY <1>2, EndsAre
<1>4. g.fin = FALSE /\ \A i \in 1 .. Len(g.data) : g.data[i] \in {At(g.seq) + i} \cup {}
  BY <1>1 DEF PieceOf
<1>5. DataEnd(g) = w
  BY <1>3, <1>4
<1> HIDE DEF h
<1>6. DataEnd(h) = w
  BY <1>1, <1>5, Zenon DEF DataEnd
<1>7. Typed(h)
  BY <1>1, SegmentTyped
<1>8. End(h) = DataEnd(h) + (IF h.fin THEN 1 ELSE 0)
  BY <1>7, EndsAre
<1>9. End(h) = w + 1
  BY <1>1, <1>6, <1>8
<1>10. PieceOf(h, {}, w, TRUE)
  <2>1. \A i \in 1 .. Len(h.data) : h.data[i] \in {At(h.seq) + i} \cup {}
    BY <1>1, <1>4, Zenon
  <2>2. DataEnd(h) <= w
    BY <1>6
  <2>3. QED
    BY <1>1, <1>6, <2>1, <2>2 DEF PieceOf
<1>11. QED
  BY <1>1, <1>9, <1>10 DEF h

LEMMA FinAloneIs ==
    ASSUME NEW s \in ControlBlock, NEW w \in 0 .. Units, At(s.snd_lbb) = w
    PROVE  /\ FinAlone(s) \in Segments /\ At(FinAlone(s).seq) = w /\ End(FinAlone(s)) = w + 1
           /\ PieceOf(FinAlone(s), {}, w, TRUE)
<1> DEFINE h == FinAlone(s)
           x == s.snd_lbb
           q == x % SeqSpace
<1>1. x \in Int /\ q \in Number /\ At(q) = w
  <2>1. x \in Int
    BY BlockNumbers
  <2> HIDE DEF x
  <2>2. QED
    BY <2>1, AtTyped DEF x
<1> HIDE DEF q
<1>2. <<>> \in Seq(Nat) /\ Len(<<>>) = 0
  BY EmptySeq
<1>3. h = [[seq |-> q, data |-> <<>>, fin |-> FALSE, moved |-> FALSE] EXCEPT !.fin = TRUE]
  BY DEF FinAlone, FinOn, Segment, q
<1>4. h \in Segments /\ h.seq = q /\ h.data = <<>> /\ h.fin = TRUE
  BY <1>1, <1>2, <1>3 DEF Segments
<1> HIDE DEF h
<1>5. w \in Nat /\ w <= w
  BY SegmentsConstants
<1>6. Typed(h) /\ Len(h.data) = 0
  BY <1>2, <1>4, SegmentTyped
<1>7. DataEnd(h) = At(h.seq) + Len(h.data) /\ End(h) = DataEnd(h) + (IF h.fin THEN 1 ELSE 0)
  BY <1>6, EndsAre
<1>8. At(h.seq) = w
  BY <1>1, <1>4
<1>9. DataEnd(h) = w /\ End(h) = w + 1
  BY <1>4, <1>5, <1>6, <1>7, <1>8
<1>10. PieceOf(h, {}, w, TRUE)
  <2>1. 1 .. Len(h.data) = {}
    BY <1>6
  <2>2. QED
    BY <1>4, <1>5, <1>9, <2>1 DEF PieceOf
<1>11. QED
  BY <1>4, <1>8, <1>9, <1>10 DEF h

(* What is to be sent is the queue with its end.                           *)
LEMMA FinTiles ==
    ASSUME NEW s \in ControlBlock, NEW w \in 0 .. Units, NEW from \in Nat,
           Tiled(Queue(s), from, w, FALSE), At(s.snd_lbb) = w, NEW c, c = TRUE
    PROVE  /\ s.unsent = <<>> => /\ <<FinAlone(s)>> \in Seq(Segments)
                                 /\ Tiled(s.unacked \o <<FinAlone(s)>>, from, w, c)
           /\ LET v == [s.unsent EXCEPT ![Len(s.unsent)].fin = TRUE]
              IN s.unsent # <<>> => v \in Seq(Segments) /\ Tiled(s.unacked \o v, from, w, c)
<1> DEFINE a == s.unacked
           u == s.unsent
           q == a \o u
           l == Len(u)
           k == Len(a)
           v == [u EXCEPT ![Len(u)].fin = TRUE]
           f == FinAlone(s)
<1>1. a \in Seq(Segments) /\ u \in Seq(Segments) /\ q = Queue(s) /\ Tiled(q, from, w, FALSE)
  BY BlockQueues DEF Queue
<1>2. w \in Nat /\ w <= w /\ c \in BOOLEAN
  BY SegmentsConstants
<1>3. Edge(w, FALSE) = w /\ Edge(w, TRUE) = w + 1 /\ Edge(w, c) = w + 1
  BY <1>2 DEF Edge
<1>4. ASSUME u = <<>>
      PROVE  <<f>> \in Seq(Segments) /\ Tiled(a \o <<f>>, from, w, c)
  <2>1. f \in Segments /\ At(f.seq) = w /\ End(f) = w + 1 /\ PieceOf(f, {}, w, TRUE)
    BY FinAloneIs
  <2>2. PieceOf(f, {}, w, c) /\ End(f) = Edge(w, c)
    BY <1>3, <2>1, Zenon
  <2> HIDE DEF f
  <2> DEFINE n == <<f>>
  <2>3. n \in Seq(Segments) /\ Len(n) = 1 /\ n[1] = f /\ n # <<>>
    BY <2>1
  <2> HIDE DEF n
  <2>4. Added(n, w, w, c)
    <3>1. \A i \in 1 .. Len(n) : i = 1
      BY <2>3
    <3>2. \A i \in 1 .. Len(n) : PieceOf(n[i], {}, w, c)
      BY <2>2, <2>3, <3>1
    <3>3. \A i, j \in 1 .. Len(n) : j # i + 1
      BY <2>3
    <3>4. At(n[1].seq) = w /\ End(n[Len(n)]) = Edge(w, c)
      BY <2>1, <2>2, <2>3
    <3>5. QED
      BY <2>3, <3>2, <3>3, <3>4 DEF Added
  <2>5. Tiled(a, from, w, FALSE)
    <3>1. q = a
      BY <1>1, <1>4, ConcatEmptySeq
    <3>2. QED
      BY <1>1, <3>1
  <2>6. a \in Seq(Segments) /\ from \in Nat /\ w \in 0 .. Units /\ Tiled(a, from, w, FALSE) /\ n \in Seq(Segments)
        /\ w <= w /\ c \in BOOLEAN /\ Added(n, w, w, c)
    BY <1>1, <1>2, <2>3, <2>4, <2>5
  <2>7. Tiled(a \o n, from, w, c)
    BY ONLY <2>6, TiledAppend
  <2>8. QED
    BY <2>3, <2>7 DEF n
<1>5. ASSUME u # <<>>
      PROVE  v \in Seq(Segments) /\ Tiled(a \o v, from, w, c)
  <2> DEFINE g == u[l]
             h == FinOn(g)
             r == a \o v
             z == k + l
  <2>1. l \in Nat /\ l \in 1 .. l
    BY <1>1, <1>5, LenProperties, EmptySeq
  <2>2. g \in Segments
    BY <1>1, <2>1, ElementOfSeq
  <2>3. v = [u EXCEPT ![l] = h]
    BY DEF FinOn
  <2>4. /\ q \in Seq(Segments) /\ k \in Nat /\ Len(q) = k + l
        /\ \A i \in 1 .. k : q[i] = a[i]
        /\ \A i \in 1 .. l : q[k + i] = u[i]
        /\ \A i \in 1 .. k + l : i \in 1 .. k \/ \E j \in 1 .. l : i = k + j
    BY <1>1, JoinIs
  <2>5. q[z] = g /\ z = Len(q) /\ z \in 1 .. z
    <3>1. q[k + l] = u[l]
      BY <2>1, <2>4
    <3> HIDE DEF q, k, l
    <3>2. k + l \in 1 .. k + l
      BY <2>1, <2>4
    <3>3. QED
      BY <2>4, <3>1, <3>2
  <2> HIDE DEF g, q, z
  <2>6. q # <<>>
    <3>1. Len(q) # 0
      <4> HIDE DEF k, l
      <4>1. z \in Nat
        BY <2>1, <2>4 DEF z
      <4>2. z # 0
        BY <2>5, <4>1
      <4>3. QED
        BY <2>5, <4>2
    <3>2. q = <<>> => Len(q) = 0
      BY EmptySeq
    <3>3. QED
      BY <3>1, <3>2
  <2>7. PieceOf(g, {}, w, FALSE) /\ End(g) = w
    BY <1>1, <1>3, <2>5, <2>6 DEF Tiled
  <2>8. h \in Segments /\ h.seq = g.seq /\ End(h) = w + 1 /\ PieceOf(h, {}, w, TRUE)
    BY <1>2, <2>2, <2>7, FinPiece
  <2>9. PieceOf(h, {}, w, c) /\ End(h) = Edge(w, c)
    BY <1>3, <2>8, Zenon
  <2> HIDE DEF h, v, l
  <2>10. /\ v \in Seq(Segments) /\ Len(v) = l
         /\ \A j \in 1 .. l : v[j] = IF j = l THEN h ELSE u[j]
    <3>1. l \in 1 .. Len(u)
      BY <2>1 DEF l
    <3>2. /\ [u EXCEPT ![l] = h] \in Seq(Segments) /\ Len([u EXCEPT ![l] = h]) = Len(u)
          /\ \A j \in 1 .. Len(u) : [u EXCEPT ![l] = h][j] = IF j = l THEN h ELSE u[j]
      BY <1>1, <2>8, <3>1, ExceptSeq
    <3>3. QED
      BY <2>3, <3>2, Zenon DEF l
  <2>11. /\ r \in Seq(Segments) /\ Len(r) = k + l
         /\ \A i \in 1 .. k : r[i] = a[i]
         /\ \A i \in 1 .. l : r[k + i] = v[i]
    <3>1. /\ r \in Seq(Segments) /\ Len(r) = k + Len(v)
          /\ \A i \in 1 .. k : r[i] = a[i]
          /\ \A i \in 1 .. Len(v) : r[k + i] = v[i]
      BY <1>1, <2>10, JoinIs
    <3> HIDE DEF r, k
    <3>2. QED
      BY <2>10, <3>1
  <2> HIDE DEF r, k
  <2>12. r[Len(q)] = h /\ q[Len(q)] = g
    <3>1. v[l] = h /\ r[k + l] = v[l] /\ l \in 1 .. l
      BY <2>1, <2>10, <2>11
    <3>2. QED
      BY <2>4, <2>5, <3>1 DEF z
  <2>13. \A i \in 1 .. Len(q) : i # Len(q) => r[i] = q[i]
    <3> SUFFICES ASSUME NEW i \in 1 .. k + l, i # k + l PROVE r[i] = q[i]
      BY <2>4
    <3>1. CASE i \in 1 .. k
      BY <2>4, <2>11, <3>1
    <3>2. CASE \E j \in 1 .. l : i = k + j
      <4>1. PICK j \in 1 .. l : i = k + j
        BY <3>2
      <4>2. j # l
        BY <4>1
      <4>3. v[j] = u[j]
        BY <2>10, <4>1, <4>2
      <4>4. QED
        BY <2>4, <2>11, <4>1, <4>3
    <3>3. QED
      BY <2>4, <3>1, <3>2
  <2>14. /\ q \in Seq(Segments) /\ from \in Nat /\ w \in 0 .. Units
         /\ Tiled(q, from, w, FALSE) /\ q # <<>> /\ r \in Seq(Segments) /\ Len(r) = Len(q)
         /\ \A i \in 1 .. Len(q) : i # Len(q) => r[i] = q[i]
         /\ r[Len(q)].seq = q[Len(q)].seq
         /\ w <= w /\ c \in BOOLEAN
         /\ PieceOf(r[Len(q)], {}, w, c) /\ End(r[Len(q)]) = Edge(w, c)
    <3>1. Len(r) = Len(q)
      BY <2>4, <2>11
    <3>2. QED
      BY <1>1, <1>2, <2>4, <2>6, <2>8, <2>9, <2>11, <2>12, <2>13, <3>1, Zenon
  <2>15. Tiled(r, from, w, c)
    BY ONLY <2>14, TiledLast
  <2>16. QED
    BY <2>10, <2>15 DEF r
<1>6. QED
  BY <1>4, <1>5, Zenon

(* The block after tcp_send_fin.                                           *)
Finished(u, s, x) ==
    /\ u.unsent = x /\ u.unacked = s.unacked /\ u.snd_nxt = s.snd_nxt /\ u.lastack = s.lastack
    /\ u.snd_wnd = s.snd_wnd /\ u.snd_wl2 = s.snd_wl2 /\ u.running = s.running
    /\ u.dead = s.dead /\ u.closed = TRUE

LEMMA FinIs ==
    ASSUME NEW s \in ControlBlock, NEW w \in 0 .. Units, SenderFits(s, w), ~s.closed
    PROVE  \E x \in Seq(Segments) :
             /\ tcp_send_fin(s) \in ControlBlock /\ Finished(tcp_send_fin(s), s, x)
             /\ Tiled(s.unacked \o x, At(s.lastack), w, TRUE)
<1> DEFINE u == tcp_send_fin(s)
           v == [s.unsent EXCEPT ![Len(s.unsent)].fin = TRUE]
           f == FinAlone(s)
           n == <<f>>
           y == (s.snd_lbb + 1) % SeqSpace
           c == TRUE
<1>1. Tiled(Queue(s), At(s.lastack), w, FALSE) /\ At(s.snd_lbb) = w /\ At(s.lastack) \in Nat
  <2>1. s.closed = FALSE
    BY BlockNumbers
  <2>2. QED
    BY <2>1, BlockNumbers DEF SenderFits, Counts
<1>2. c = TRUE
  OBVIOUS
<1> HIDE DEF c
<1>3. /\ s.unsent = <<>> => n \in Seq(Segments) /\ Tiled(s.unacked \o n, At(s.lastack), w, c)
      /\ s.unsent # <<>> => v \in Seq(Segments) /\ Tiled(s.unacked \o v, At(s.lastack), w, c)
  BY <1>1, <1>2, FinTiles
<1>4. y \in Number /\ s.snd_buf - 1 \in Int /\ 0 \in Nat
  <2>1. s.snd_lbb \in Int /\ s.snd_buf \in Int
    BY SegmentsConstants DEF ControlBlock, Number
  <2>2. s.snd_lbb + 1 \in Int
    BY <2>1
  <2>3. QED
    BY <2>1, <2>2, AtTyped
<1>5. ASSUME s.unsent = <<>>
      PROVE  u \in ControlBlock /\ Finished(u, s, n)
  <2>1. u = [s EXCEPT !.unsent = n, !.oversize = 0, !.snd_lbb = y, !.snd_buf = s.snd_buf - 1,
                      !.tf_fin = TRUE, !.closed = TRUE]
    BY <1>5 DEF tcp_send_fin, FinAlone, FinOn
  <2>2. n \in Seq(Segments)
    BY <1>3, <1>5
  <2> HIDE DEF u, n, y
  <2>3. u \in ControlBlock
    BY <1>4, <2>1, <2>2 DEF ControlBlock
  <2>4. Finished(u, s, n)
    BY <2>1 DEF ControlBlock, Finished
  <2>5. QED
    BY <2>3, <2>4
<1>6. ASSUME s.unsent # <<>>
      PROVE  u \in ControlBlock /\ Finished(u, s, v)
  <2>1. u = [s EXCEPT !.unsent = v, !.closed = TRUE]
    BY <1>6 DEF tcp_send_fin
  <2>2. v \in Seq(Segments)
    BY <1>3, <1>6
  <2> HIDE DEF u, v
  <2>3. u \in ControlBlock
    BY <2>1, <2>2 DEF ControlBlock
  <2>4. Finished(u, s, v)
    BY <2>1 DEF ControlBlock, Finished
  <2>5. QED
    BY <2>3, <2>4
<1> HIDE DEF u, n, v
<1>7. QED
  BY <1>2, <1>3, <1>5, <1>6 DEF u

LEMMA CloseKept ==
    ASSUME SegmentsInv, Close
    PROVE  SegmentsInv'
<1> DEFINE u == tcp_send_fin(tcp)
<1>1. /\ ~tcp.dead /\ ~tcp.closed /\ tcp' = tcp_output(u) /\ wire' = wire \o Frames(u)
      /\ written' = written /\ peer' = peer /\ acks' = acks /\ reported' = reported
      /\ received' = received /\ eof' = eof
  BY DEF Close
<1>2. /\ tcp \in ControlBlock /\ acks \in Seq(AckSet) /\ reported \in Nat /\ AcksFit(acks, peer)
      /\ Around(tcp, written, peer, acks, wire, received, eof, reported)
      /\ SenderFits(tcp, written) /\ written \in 0 .. Units
      /\ peer \in PeerBlock /\ wire \in Seq(FrameSet) /\ eof \in BOOLEAN
  BY <1>1, InvIs
<1>3. PICK x \in Seq(Segments) : /\ u \in ControlBlock /\ Finished(u, tcp, x)
                                 /\ Tiled(tcp.unacked \o x, At(tcp.lastack), written, TRUE)
  BY <1>1, <1>2, FinIs
<1> HIDE DEF u
<1>4. /\ u.unsent = x /\ u.unacked = tcp.unacked /\ u.snd_nxt = tcp.snd_nxt /\ u.lastack = tcp.lastack
      /\ u.snd_wnd = tcp.snd_wnd /\ u.snd_wl2 = tcp.snd_wl2 /\ u.running = tcp.running
      /\ u.dead = tcp.dead /\ u.closed = TRUE
  BY <1>3 DEF Finished
<1>5. tcp.closed = FALSE
  BY <1>1, <1>2, BlockNumbers
<1>6. SenderFits(u, written)
  <2>1. /\ written <= Units /\ written <= At(tcp.lastack) + TCP_SND_BUF
        /\ At(tcp.lastack) <= At(tcp.snd_nxt) /\ At(tcp.snd_nxt) <= Edge(written, tcp.closed)
    BY <1>2 DEF SenderFits, Counts
  <2>2. At(tcp.snd_nxt) <= Edge(written, TRUE)
    <3>1. At(tcp.snd_nxt) <= written /\ At(tcp.snd_nxt) \in Nat /\ Edge(written, TRUE) = written + 1
      BY <1>2, <1>5, <2>1, BlockNumbers DEF Edge
    <3>2. written \in Nat
      BY <1>2, SegmentsConstants
    <3> DEFINE x0 == At(tcp.snd_nxt)
               e == Edge(written, TRUE)
    <3>3. x0 <= written /\ x0 \in Nat /\ e = written + 1
      BY <3>1
    <3> HIDE DEF x0, e
    <3>4. x0 <= e
      BY <3>2, <3>3
    <3>5. QED
      BY <3>4 DEF x0, e
  <2>3. Counts(u, written)
    BY <1>4, <2>1, <2>2 DEF Counts
  <2>4. Tiled(Queue(u), At(u.lastack), written, u.closed)
    BY <1>3, <1>4 DEF Queue
  <2>5. \A i \in 1 .. Len(u.unacked) : WasSent(u, u.unacked[i])
    BY <1>2, <1>4 DEF SenderFits, WasSent
  <2>6. u.unacked # <<>> => u.running
    BY <1>2, <1>4 DEF SenderFits
  <2>7. QED
    BY <2>3, <2>4, <2>5, <2>6 DEF SenderFits
<1>7. Sends(u, written, Queue(u))
  BY <1>2, <1>3, <1>6, StraightSends
<1>8. Around(u, written, peer, acks, wire, received, eof, reported)
  <2>1. /\ WindowFits(tcp, peer, acks) /\ FramesFit(wire, tcp, written)
        /\ Taken(peer, received, eof, tcp, written) /\ Told(tcp, written, reported)
    BY <1>2 DEF Around
  <2>2. WindowFits(u, peer, acks)
    <3>1. At(u.snd_nxt) <= At(peer.ann_edge) + (IF u.closed THEN 1 ELSE 0)
      <4>1. At(tcp.snd_nxt) <= At(peer.ann_edge) + 0
        BY <1>5, <2>1 DEF WindowFits
      <4>2. At(tcp.snd_nxt) \in Nat /\ At(peer.ann_edge) \in Nat
        <5>1. peer.ann_edge \in Int
          BY <1>2, SegmentsConstants DEF PeerBlock, Number
        <5>2. QED
          BY <1>2, <5>1, AtTyped, BlockNumbers
      <4>3. QED
        BY <1>4, <4>1, <4>2
    <3>2. QED
      BY <1>4, <2>1, <3>1 DEF WindowFits
  <2>3. \A n : Follows(n, tcp) => Follows(n, u)
    BY <1>4 DEF Follows
  <2>4. FramesFit(wire, u, written)
    <3> SUFFICES ASSUME NEW i \in 1 .. Len(wire)
                 PROVE  PieceOf(wire[i], {HeaderByte}, written, u.closed) /\ Follows(End(wire[i]), u)
      BY DEF FramesFit
    <3>1. PieceOf(wire[i], {HeaderByte}, written, FALSE) /\ Follows(End(wire[i]), tcp)
      BY <1>5, <2>1 DEF FramesFit
    <3>2. Typed(wire[i])
      <4>1. wire[i] \in FrameSet
        BY <1>2, ElementOfSeq
      <4>2. QED
        BY <4>1, SegmentTyped
    <3>3. written <= written
      BY <1>2
    <3> DEFINE g == wire[i]
               c == u.closed
    <3>4. PieceOf(g, {HeaderByte}, written, FALSE) /\ Typed(g)
      BY <3>1, <3>2
    <3> HIDE DEF g, c
    <3>5. PieceOf(g, {HeaderByte}, written, c)
      BY <1>2, <3>3, <3>4, PieceOpen
    <3>6. QED
      BY <2>3, <3>1, <3>5 DEF g, c
  <2>5. Taken(peer, received, eof, u, written)
    BY <1>4, <1>5, <2>1, <2>3 DEF Taken
  <2>6. Told(u, written, reported)
    BY <1>4, <2>1 DEF Told
  <2>7. QED
    BY <1>3, <2>2, <2>4, <2>5, <2>6 DEF Around
<1>9. QED
  BY <1>1, <1>2, <1>7, <1>8, SenderStep DEF u
-----------------------------------------------------------------------------
(* A step that leaves the sender's block alone.                            *)
LEMMA OtherStep ==
    ASSUME SegmentsInv, NEW p \in PeerBlock, NEW ws \in Seq(FrameSet), NEW q \in Seq(AckSet),
           NEW r \in Seq(Nat), NEW e \in BOOLEAN,
           WindowFits(tcp, p, q), AcksFit(q, p), PeerFits(p), FramesFit(ws, tcp, written),
           Taken(p, r, e, tcp, written),
           tcp' = tcp, peer' = p, wire' = ws, acks' = q, written' = written,
           reported' = reported, received' = r, eof' = e
    PROVE  SegmentsInv'
<1>1. SegmentsTyped'
  BY InvIs DEF SegmentsTyped
<1>2. /\ ~tcp.dead => SenderFits(tcp, written)
      /\ Timed(tcp) /\ Counts(tcp, written) /\ Told(tcp, written, reported)
  BY DEF SegmentsInv
<1>3. QED
  BY <1>1, <1>2, Zenon DEF SegmentsInv

LEMMA WireStep ==
    ASSUME SegmentsInv, NEW ws \in Seq(FrameSet), FramesFit(ws, tcp, written),
           tcp' = tcp, peer' = peer, wire' = ws, acks' = acks, written' = written,
           reported' = reported, received' = received, eof' = eof
    PROVE  SegmentsInv'
<1>1. /\ peer \in PeerBlock /\ acks \in Seq(AckSet) /\ received \in Seq(Nat) /\ eof \in BOOLEAN
      /\ WindowFits(tcp, peer, acks) /\ AcksFit(acks, peer) /\ PeerFits(peer)
      /\ Taken(peer, received, eof, tcp, written)
  BY InvIs DEF Around
<1>2. QED
  BY <1>1, OtherStep

(* A probe is the first piece of the oldest segment, or its FIN.           *)
LEMMA ProbeIs ==
    ASSUME NEW g \in Segments, NEW w \in 0 .. Units, NEW c \in BOOLEAN, PieceOf(g, {}, w, c)
    PROVE  /\ ProbeFrame(g) \in FrameSet /\ PieceOf(ProbeFrame(g), {HeaderByte}, w, c)
           /\ End(ProbeFrame(g)) <= At(g.seq) + 1
<1> DEFINE f == ProbeFrame(g)
           a == At(g.seq)
           l == Len(g.data)
<1>1. Typed(g)
  BY SegmentTyped
<1>2. /\ g.seq \in Number /\ a \in Nat /\ l \in Nat /\ DataEnd(g) = a + l
      /\ End(g) = DataEnd(g) + (IF g.fin THEN 1 ELSE 0)
  BY <1>1, EndsAre DEF Typed
<1>3. /\ DataEnd(g) <= w
      /\ \A i \in 1 .. l : g.data[i] \in {a + i}
      /\ g.data # <<>> \/ g.fin
      /\ g.fin => c /\ DataEnd(g) = w
  BY DEF PieceOf
<1>4. CASE g.fin /\ g.data = <<>>
  <2>1. f = Frame(g.seq, <<>>, TRUE)
    BY <1>4 DEF ProbeFrame
  <2>2. f.seq = g.seq /\ f.data = <<>> /\ f.fin = TRUE /\ f \in FrameSet
    <3>1. <<>> \in Seq(Nat)
      BY EmptySeq
    <3>2. QED
      BY <1>2, <2>1, <3>1 DEF Frame, FrameSet
  <2>3. l = 0
    BY <1>4, EmptySeq
  <2> HIDE DEF f
  <2>4. Typed(f)
    BY <2>2, SegmentTyped
  <2>5. DataEnd(f) = At(f.seq) + Len(f.data) /\ End(f) = DataEnd(f) + (IF f.fin THEN 1 ELSE 0)
    BY <2>4, EndsAre
  <2>6. Len(f.data) = 0
    BY <2>2, EmptySeq
  <2> HIDE DEF a, l
  <2>7. DataEnd(f) = a /\ End(f) = a + 1 /\ DataEnd(g) = a
    BY <1>2, <2>2, <2>3, <2>5, <2>6 DEF a
  <2>8. PieceOf(f, {HeaderByte}, w, c)
    <3>1. 1 .. Len(f.data) = {}
      BY <2>6
    <3>2. c /\ a = w /\ w <= w
      BY <1>2, <1>3, <1>4, <2>7
    <3>3. QED
      BY <2>2, <2>7, <3>1, <3>2 DEF PieceOf
  <2>9. End(f) <= a + 1
    BY <1>2, <2>7
  <2>10. QED
    BY <2>2, <2>8, <2>9 DEF f, a
<1>5. CASE ~(g.fin /\ g.data = <<>>)
  <2> DEFINE x == IF g.moved THEN HeaderByte ELSE g.data[1]
  <2>1. l > 0
    <3>1. g.data # <<>> /\ g.data \in Seq(Nat)
      BY <1>1, <1>3, <1>5 DEF Typed
    <3>2. QED
      BY <1>2, <3>1, EmptySeq
  <2>2. x \in {a + 1, HeaderByte}
    <3>1. 1 \in 1 .. l
      BY <1>2, <2>1
    <3>2. g.data[1] = a + 1
      BY <1>3, <3>1
    <3>3. QED
      BY <3>2
  <2>3. f = Frame(g.seq, <<x>>, FALSE)
    BY <1>5 DEF ProbeFrame
  <2> HIDE DEF x
  <2>4. x \in Nat
    BY <1>2, <2>2 DEF HeaderByte
  <2>5. f.seq = g.seq /\ f.data = <<x>> /\ f.fin = FALSE /\ f \in FrameSet
    <3>1. <<x>> \in Seq(Nat)
      BY <2>4
    <3>2. QED
      BY <1>2, <2>3, <3>1 DEF Frame, FrameSet
  <2> HIDE DEF f
  <2>6. Typed(f)
    BY <2>5, SegmentTyped
  <2>7. DataEnd(f) = At(f.seq) + Len(f.data) /\ End(f) = DataEnd(f) + (IF f.fin THEN 1 ELSE 0)
    BY <2>6, EndsAre
  <2>8. Len(f.data) = 1 /\ f.data[1] = x
    BY <2>5
  <2> HIDE DEF a, l
  <2>9. DataEnd(f) = a + 1 /\ End(f) = a + 1
    BY <1>2, <2>5, <2>7, <2>8 DEF a
  <2>10. a + 1 <= w
    BY <1>2, <1>3, <2>1
  <2>11. PieceOf(f, {HeaderByte}, w, c)
    <3>1. ASSUME NEW i \in 1 .. Len(f.data) PROVE f.data[i] \in {a + i} \cup {HeaderByte}
      <4>1. i = 1
        BY <2>8
      <4>2. QED
        BY <2>2, <2>8, <4>1
    <3>2. f.data # <<>>
      BY <2>8
    <3>3. QED
      BY <2>5, <2>9, <2>10, <3>1, <3>2 DEF PieceOf, a
  <2>12. End(f) <= a + 1
    BY <1>2, <2>9
  <2>13. QED
    BY <2>5, <2>11, <2>12 DEF f, a
<1>6. QED
  BY <1>4, <1>5

(* What reaches one unit beyond the acknowledgement follows what was sent. *)
LEMMA NextFollows ==
    ASSUME NEW s \in ControlBlock, NEW w \in 0 .. Units, SenderFits(s, w),
           NEW n \in Nat, n <= At(s.lastack) + 1
    PROVE  Follows(n, s)
<1> DEFINE a == At(s.lastack)
           x == At(s.snd_nxt)
<1>1. a \in Nat /\ x \in Nat /\ a <= x
  BY BlockNumbers DEF SenderFits, Counts
<1>2. ASSUME s.unacked # <<>> PROVE a < x
  <2> DEFINE q == Queue(s)
             g == q[1]
  <2>1. q \in Seq(Segments) /\ 1 \in 1 .. Len(q) /\ 1 \in 1 .. Len(s.unacked) /\ g = s.unacked[1]
    <3>1. s.unacked \in Seq(Segments) /\ s.unsent \in Seq(Segments)
      BY BlockQueues
    <3>2. Len(s.unacked) \in Nat /\ Len(s.unsent) \in Nat /\ Len(s.unacked) # 0
      BY <1>2, <3>1, LenProperties, EmptySeq
    <3>3. /\ q \in Seq(Segments) /\ Len(q) = Len(s.unacked) + Len(s.unsent)
          /\ \A i \in 1 .. Len(s.unacked) : q[i] = s.unacked[i]
      BY <3>1, JoinIs DEF Queue
    <3> DEFINE k == Len(s.unacked)
               l == Len(s.unsent)
               m == Len(q)
    <3>4. 1 \in 1 .. k /\ 1 \in 1 .. m
      <4>1. k \in Nat /\ l \in Nat /\ k # 0 /\ m = k + l
        BY <3>2, <3>3
      <4> HIDE DEF k, l, m
      <4>2. QED
        BY <4>1
    <3>5. QED
      BY <3>3, <3>4
  <2>2. Tiled(q, a, w, s.closed)
    BY DEF SenderFits
  <2>3. a < End(g)
    BY <1>1, <2>1, <2>2, BlockNumbers, TiledEnds
  <2>4. End(g) <= x
    BY <2>1 DEF SenderFits, WasSent
  <2>5. End(g) \in Nat
    <3>1. g \in Segments
      BY <2>1, ElementOfSeq
    <3> HIDE DEF g
    <3>2. Typed(g)
      BY <3>1, SegmentTyped
    <3>3. QED
      BY <3>2, EndsAre
  <2> HIDE DEF g, a, x
  <2>6. QED
    BY <1>1, <2>3, <2>4, <2>5
<1>3. n <= a + 1
  OBVIOUS
<1> HIDE DEF a, x
<1>4. n <= x \/ (n = x + 1 /\ s.unacked = <<>> /\ a = x)
  BY <1>1, <1>2, <1>3
<1>5. QED
  BY <1>4 DEF Follows, a, x

LEMMA ProbeKept ==
    ASSUME SegmentsInv, Probe
    PROVE  SegmentsInv'
<1> DEFINE g == Probed
           f == ProbeFrame(g)
           ws == Append(wire, f)
           q == Queue(tcp)
<1>1. /\ ~tcp.dead /\ tcp' = tcp /\ wire' = ws /\ (tcp.unacked # <<>> \/ tcp.unsent # <<>>)
      /\ written' = written /\ peer' = peer /\ acks' = acks /\ reported' = reported
      /\ received' = received /\ eof' = eof
  BY DEF Probe
<1>2. /\ tcp \in ControlBlock /\ SenderFits(tcp, written) /\ written \in 0 .. Units
      /\ wire \in Seq(FrameSet) /\ FramesFit(wire, tcp, written)
  BY <1>1, InvIs DEF Around
<1>3. q \in Seq(Segments) /\ 1 \in 1 .. Len(q) /\ g = q[1]
  <2> DEFINE a == tcp.unacked
             u == tcp.unsent
  <2>1. a \in Seq(Segments) /\ u \in Seq(Segments)
    BY <1>2, BlockQueues
  <2>2. Len(a) \in Nat /\ Len(u) \in Nat /\ (a # <<>> <=> Len(a) # 0) /\ (u # <<>> <=> Len(u) # 0)
    BY <2>1, LenProperties, EmptySeq
  <2>3. /\ q \in Seq(Segments) /\ Len(q) = Len(a) + Len(u)
        /\ \A i \in 1 .. Len(a) : q[i] = a[i]
        /\ \A i \in 1 .. Len(u) : q[Len(a) + i] = u[i]
    BY <2>1, JoinIs DEF Queue
  <2>4. g = IF a # <<>> THEN a[1] ELSE u[1]
    BY DEF Probed
  <2>5. a # <<>> \/ u # <<>>
    BY <1>1
  <2> HIDE DEF q, a, u, g
  <2>6. CASE a # <<>>
    <3>1. 1 \in 1 .. Len(a) /\ 1 \in 1 .. Len(q)
      BY <2>2, <2>3, <2>6
    <3>2. QED
      BY <2>3, <2>4, <2>6, <3>1
  <2>7. CASE a = <<>>
    <3>1. Len(a) = 0 /\ Len(u) # 0
      BY <2>2, <2>5, <2>7
    <3>2. 1 \in 1 .. Len(u) /\ 1 \in 1 .. Len(q) /\ Len(a) + 1 = 1
      BY <2>2, <2>3, <3>1
    <3>3. q[1] = u[1]
      BY <2>3, <3>2
    <3>4. QED
      BY <2>3, <2>4, <2>7, <3>2, <3>3
  <2>8. QED
    BY <2>6, <2>7
<1>4. tcp.closed \in BOOLEAN /\ At(tcp.lastack) \in Nat
  BY <1>2, BlockNumbers
<1>5. g \in Segments /\ PieceOf(g, {}, written, tcp.closed) /\ At(g.seq) <= At(tcp.lastack)
  <2>1. Tiled(q, At(tcp.lastack), written, tcp.closed)
    BY <1>2 DEF SenderFits
  <2>2. q # <<>>
    BY <1>3, EmptySeq
  <2>3. QED
    BY <1>3, <2>1, <2>2, ElementOfSeq DEF Tiled
<1> HIDE DEF g, q
<1>6. f \in FrameSet /\ PieceOf(f, {HeaderByte}, written, tcp.closed) /\ End(f) <= At(g.seq) + 1
  BY <1>2, <1>4, <1>5, ProbeIs
<1> HIDE DEF f
<1>7. End(f) \in Nat /\ At(g.seq) \in Nat
  <2>1. Typed(f) /\ Typed(g)
    BY <1>5, <1>6, SegmentTyped
  <2>2. QED
    BY <2>1, EndsAre
<1>8. Follows(End(f), tcp)
  <2> DEFINE e == End(f)
             x == At(g.seq)
             y == At(tcp.lastack)
  <2>1. e \in Nat /\ x \in Nat /\ y \in Nat /\ e <= x + 1 /\ x <= y
    BY <1>4, <1>5, <1>6, <1>7
  <2> HIDE DEF e, x, y
  <2>2. e <= y + 1
    BY <2>1
  <2>3. QED
    BY <1>2, <2>1, <2>2, NextFollows DEF e, y
<1>9. ws \in Seq(FrameSet) /\ FramesFit(ws, tcp, written)
  <2>1. /\ ws \in Seq(FrameSet) /\ Len(ws) = Len(wire) + 1
        /\ \A i \in 1 .. Len(wire) : ws[i] = wire[i]
        /\ ws[Len(wire) + 1] = f
    BY <1>2, <1>6, AppendProperties
  <2>2. Len(wire) \in Nat
    BY <1>2, LenProperties
  <2> HIDE DEF ws
  <2>3. ASSUME NEW i \in 1 .. Len(ws)
        PROVE  PieceOf(ws[i], {HeaderByte}, written, tcp.closed) /\ Follows(End(ws[i]), tcp)
    <3>1. CASE i \in 1 .. Len(wire)
      BY <1>2, <2>1, <3>1 DEF FramesFit
    <3>2. CASE i = Len(wire) + 1
      BY <1>6, <1>8, <2>1, <3>2
    <3>3. QED
      BY <2>1, <2>2, <3>1, <3>2
  <2>4. QED
    BY <2>1, <2>3 DEF FramesFit
<1> HIDE DEF ws
<1>10. QED
  BY <1>1, <1>9, WireStep
-----------------------------------------------------------------------------
(* What the network makes of a queue has nothing new in it.                *)
From(r, q) == \A i \in 1 .. Len(r) : \E j \in 1 .. Len(q) : r[i] = q[j]

LEMMA TailFrom ==
    ASSUME NEW S, NEW q \in Seq(S), q # <<>>
    PROVE  /\ Tail(q) \in Seq(S) /\ From(Tail(q), q) /\ Head(q) \in S
           /\ 1 \in 1 .. Len(q) /\ Head(q) = q[1]
<1> DEFINE r == Tail(q)
<1>1. /\ r \in Seq(S) /\ Len(r) = Len(q) - 1 /\ Head(q) \in S /\ Head(q) = q[1]
      /\ \A i \in 1 .. Len(r) : r[i] = q[i + 1]
  BY HeadTailProperties
<1>2. Len(q) \in Nat /\ Len(q) # 0
  BY LenProperties, EmptySeq
<1> HIDE DEF r
<1>3. From(r, q)
  <2> SUFFICES ASSUME NEW i \in 1 .. Len(r) PROVE \E j \in 1 .. Len(q) : r[i] = q[j]
    BY DEF From
  <2>1. i + 1 \in 1 .. Len(q) /\ r[i] = q[i + 1]
    BY <1>1, <1>2
  <2>2. QED
    BY <2>1
<1>4. QED
  BY <1>1, <1>2, <1>3 DEF r

LEMMA AppendFrom ==
    ASSUME NEW S, NEW q \in Seq(S), NEW r \in Seq(S), From(r, q), NEW j \in 1 .. Len(q)
    PROVE  Append(r, q[j]) \in Seq(S) /\ From(Append(r, q[j]), q)
<1> DEFINE x == q[j]
           t == Append(r, x)
<1>1. x \in S
  BY ElementOfSeq
<1> HIDE DEF x
<1>2. /\ t \in Seq(S) /\ Len(t) = Len(r) + 1 /\ t[Len(r) + 1] = x
      /\ \A i \in 1 .. Len(r) : t[i] = r[i]
  BY <1>1, AppendProperties
<1>3. Len(r) \in Nat
  BY LenProperties
<1> HIDE DEF t
<1>4. ASSUME NEW i \in 1 .. Len(t) PROVE \E k \in 1 .. Len(q) : t[i] = q[k]
  <2>1. CASE i \in 1 .. Len(r)
    BY <1>2, <2>1 DEF From
  <2>2. CASE i = Len(r) + 1
    BY <1>2, <2>2 DEF x
  <2>3. QED
    BY <1>2, <1>3, <2>1, <2>2
<1>5. From(t, q)
  BY <1>4 DEF From
<1>6. QED
  BY <1>2, <1>5 DEF t, x

LEMMA FaultFrom ==
    ASSUME NEW S, NEW q \in Seq(S), q # <<>>, NEW r, r \in {Dropped(q), Doubled(q), Overtaken(q)}
    PROVE  r \in Seq(S) /\ From(r, q)
<1>1. /\ Tail(q) \in Seq(S) /\ From(Tail(q), q) /\ 1 \in 1 .. Len(q) /\ Head(q) = q[1]
  BY TailFrom
<1>2. From(q, q)
  BY DEF From
<1>3. /\ Append(q, q[1]) \in Seq(S) /\ From(Append(q, q[1]), q)
      /\ Append(Tail(q), q[1]) \in Seq(S) /\ From(Append(Tail(q), q[1]), q)
  BY <1>1, <1>2, AppendFrom
<1>4. r = Tail(q) \/ r = Append(q, q[1]) \/ r = Append(Tail(q), q[1])
  BY <1>1 DEF Dropped, Doubled, Overtaken
<1>5. QED
  BY <1>1, <1>3, <1>4, Zenon

LEMMA FramesFrom ==
    ASSUME NEW ws, NEW fs, From(ws, fs), NEW s, NEW w, FramesFit(fs, s, w)
    PROVE  FramesFit(ws, s, w)
<1> SUFFICES ASSUME NEW i \in 1 .. Len(ws)
             PROVE  PieceOf(ws[i], {HeaderByte}, w, s.closed) /\ Follows(End(ws[i]), s)
  BY DEF FramesFit
<1>1. PICK j \in 1 .. Len(fs) : ws[i] = fs[j]
  BY DEF From
<1>2. PieceOf(fs[j], {HeaderByte}, w, s.closed) /\ Follows(End(fs[j]), s)
  BY DEF FramesFit
<1>3. QED
  BY <1>1, <1>2

LEMMA AcksFrom ==
    ASSUME NEW r, NEW q, From(r, q), NEW p
    PROVE  /\ AcksFit(q, p) => AcksFit(r, p)
           /\ \A s : WindowFits(s, p, q) => WindowFits(s, p, r)
<1>1. ASSUME AcksFit(q, p) PROVE AcksFit(r, p)
  <2> SUFFICES ASSUME NEW i \in 1 .. Len(r), NEW j \in 1 .. Len(r)
               PROVE  Announced(r[i].ack, r[i].wnd, p) /\ NotBefore(r[i].ack, r[i].wnd, r[j])
    BY DEF AcksFit
  <2>1. PICK k \in 1 .. Len(q) : r[i] = q[k]
    BY DEF From
  <2>2. PICK l \in 1 .. Len(q) : r[j] = q[l]
    BY DEF From
  <2>3. Announced(q[k].ack, q[k].wnd, p) /\ NotBefore(q[k].ack, q[k].wnd, q[l])
    BY <1>1 DEF AcksFit
  <2>4. QED
    BY <2>1, <2>2, <2>3
<1>2. ASSUME NEW s, WindowFits(s, p, q) PROVE WindowFits(s, p, r)
  <2>1. ASSUME NEW i \in 1 .. Len(r) PROVE NotBefore(s.snd_wl2, s.snd_wnd, r[i])
    <3>1. PICK k \in 1 .. Len(q) : r[i] = q[k]
      BY DEF From
    <3>2. QED
      BY <1>2, <3>1 DEF WindowFits
  <2>2. QED
    BY <1>2, <2>1 DEF WindowFits
<1>3. QED
  BY <1>1, <1>2

LEMMA NetworkFaultKept ==
    ASSUME SegmentsInv, NetworkFault
    PROVE  SegmentsInv'
<1>1. /\ tcp' = tcp /\ peer' = peer /\ written' = written /\ reported' = reported
      /\ received' = received /\ eof' = eof
  BY DEF NetworkFault
<1>2. /\ peer \in PeerBlock /\ wire \in Seq(FrameSet) /\ acks \in Seq(AckSet) /\ received \in Seq(Nat)
      /\ eof \in BOOLEAN
      /\ WindowFits(tcp, peer, acks) /\ AcksFit(acks, peer) /\ PeerFits(peer)
      /\ FramesFit(wire, tcp, written) /\ Taken(peer, received, eof, tcp, written)
  BY InvIs DEF Around
<1>3. CASE wire # <<>> /\ wire' \in {Dropped(wire), Doubled(wire), Overtaken(wire)} /\ acks' = acks
  <2>1. PICK ws : ws = wire' /\ ws \in {Dropped(wire), Doubled(wire), Overtaken(wire)}
    BY <1>3
  <2>2. ws \in Seq(FrameSet) /\ From(ws, wire)
    BY <1>2, <1>3, <2>1, FaultFrom
  <2>3. FramesFit(ws, tcp, written)
    BY <1>2, <2>2, FramesFrom
  <2>4. QED
    BY <1>1, <1>3, <2>1, <2>2, <2>3, WireStep
<1>4. CASE acks # <<>> /\ acks' \in {Dropped(acks), Doubled(acks), Overtaken(acks)} /\ wire' = wire
  <2>1. PICK q : q = acks' /\ q \in {Dropped(acks), Doubled(acks), Overtaken(acks)}
    BY <1>4
  <2>2. q \in Seq(AckSet) /\ From(q, acks)
    BY <1>2, <1>4, <2>1, FaultFrom
  <2>3. AcksFit(q, peer) /\ WindowFits(tcp, peer, q)
    BY <1>2, <2>2, AcksFrom
  <2>4. QED
    BY <1>1, <1>2, <1>4, <2>1, <2>2, <2>3, OtherStep
<1>5. QED
  BY <1>3, <1>4 DEF NetworkFault
-----------------------------------------------------------------------------
(* The receiver's numbers.                                                 *)
LEMMA PeerNumbers ==
    ASSUME NEW p \in PeerBlock
    PROVE  /\ p.rcv_nxt \in Int /\ p.ann_edge \in Int /\ p.rcv_nxt \in Number
           /\ At(p.rcv_nxt) \in Nat /\ At(p.ann_edge) \in Nat
           /\ p.rcv_wnd \in Nat /\ p.ann_wnd \in Nat /\ p.unread \in Nat
<1>1. /\ p.rcv_nxt \in Int /\ p.ann_edge \in Int /\ p.rcv_nxt \in Number
      /\ p.rcv_wnd \in Nat /\ p.ann_wnd \in Nat /\ p.unread \in Nat
  BY SegmentsConstants DEF PeerBlock, Number
<1>2. QED
  BY <1>1, AtTyped

(* A receiver that is further still fits what was announced.               *)
LEMMA PeerLater ==
    ASSUME NEW p \in PeerBlock, NEW o \in PeerBlock, NEW q \in Seq(AckSet),
           At(p.rcv_nxt) <= At(o.rcv_nxt), At(p.ann_edge) <= At(o.ann_edge),
           NEW s \in ControlBlock, WindowFits(s, p, q), AcksFit(q, p)
    PROVE  WindowFits(s, o, q) /\ AcksFit(q, o)
<1> DEFINE n == At(p.rcv_nxt)
           m == At(o.rcv_nxt)
           e == At(p.ann_edge)
           d == At(o.ann_edge)
<1>1. n \in Nat /\ m \in Nat /\ e \in Nat /\ d \in Nat /\ n <= m /\ e <= d
  BY PeerNumbers
<1> HIDE DEF n, m, e, d
<1>2. ASSUME NEW x \in Int, NEW v \in Nat, Announced(x, v, p) PROVE Announced(x, v, o)
  <2>1. At(x) <= n /\ At(x) + v <= e
    BY <1>2 DEF Announced, n, e
  <2>2. At(x) \in Nat
    BY AtTyped
  <2>3. At(x) <= m /\ At(x) + v <= d
    BY <1>1, <2>1, <2>2
  <2>4. QED
    BY <2>3 DEF Announced, m, d
<1>3. AcksFit(q, o)
  <2> SUFFICES ASSUME NEW i \in 1 .. Len(q)
               PROVE  /\ Announced(q[i].ack, q[i].wnd, o)
                      /\ \A j \in 1 .. Len(q) : NotBefore(q[i].ack, q[i].wnd, q[j])
    BY DEF AcksFit
  <2>1. /\ Announced(q[i].ack, q[i].wnd, p)
        /\ \A j \in 1 .. Len(q) : NotBefore(q[i].ack, q[i].wnd, q[j])
    BY DEF AcksFit
  <2>2. q[i].ack \in Int /\ q[i].wnd \in Nat
    <3>1. q[i] \in AckSet
      BY ElementOfSeq
    <3>2. QED
      BY <3>1, SegmentsConstants DEF AckSet, Number
  <2>3. QED
    BY <1>2, <2>1, <2>2
<1>4. WindowFits(s, o, q)
  <2>1. /\ At(s.lastack) <= At(s.snd_wl2)
        /\ At(s.lastack) <= n
        /\ Announced(s.snd_wl2, s.snd_wnd, p)
        /\ \A i \in 1 .. Len(q) : NotBefore(s.snd_wl2, s.snd_wnd, q[i])
        /\ At(s.snd_nxt) <= e + (IF s.closed THEN 1 ELSE 0)
    BY DEF WindowFits, n, e
  <2>2. At(s.lastack) \in Nat /\ At(s.snd_nxt) \in Nat /\ s.snd_wl2 \in Int /\ s.snd_wnd \in Nat
    BY BlockNumbers
  <2>3. Announced(s.snd_wl2, s.snd_wnd, o)
    BY <1>2, <2>1, <2>2
  <2>4. At(s.lastack) <= m /\ At(s.snd_nxt) <= d + (IF s.closed THEN 1 ELSE 0)
    BY <1>1, <2>1, <2>2
  <2>5. QED
    BY <2>1, <2>3, <2>4 DEF WindowFits, m, d
<1>5. QED
  BY <1>3, <1>4

(* An acknowledgement announces the window as far as ever.                 *)
Answered(p) == [p EXCEPT !.ann_edge = (p.rcv_nxt + p.ann_wnd) % SeqSpace, !.ack_delay = FALSE]
Answer(p) == [ack |-> p.rcv_nxt, wnd |-> p.ann_wnd]

LEMMA AnsweredIs ==
    ASSUME NEW p \in PeerBlock, PeerFits(p), At(p.rcv_nxt) <= Units + 1
    PROVE  /\ Answered(p) \in PeerBlock /\ PeerFits(Answered(p)) /\ Answered(p).rcv_nxt = p.rcv_nxt
           /\ At(Answered(p).ann_edge) = At(p.rcv_nxt) + p.ann_wnd
           /\ At(p.ann_edge) <= At(Answered(p).ann_edge)
           /\ Answer(p) \in AckSet /\ Answer(p).ack = p.rcv_nxt /\ Answer(p).wnd = p.ann_wnd
<1> DEFINE o == Answered(p)
           y == (p.rcv_nxt + p.ann_wnd) % SeqSpace
           n == At(p.rcv_nxt)
           v == p.ann_wnd
           x == p.rcv_nxt
           e == At(p.ann_edge)
<1>1. x \in Int /\ n \in Nat /\ v \in Nat /\ e \in Nat /\ x \in Number
  BY PeerNumbers
<1>2. e <= n + v /\ v <= TCP_WND /\ p.rcv_wnd <= TCP_WND
  BY DEF PeerFits
<1>3. y \in Number /\ At(y) = n + v
  <2>1. n + v \in Number
    <3>1. n <= Units + 1
      OBVIOUS
    <3> HIDE DEF n, v
    <3>2. QED
      BY <1>1, <1>2, <3>1, SegmentsConstants DEF Number, Limit
  <2> HIDE DEF x, v
  <2>2. x \in Int /\ v \in Int /\ At(x) + v \in Number
    BY <1>1, <2>1 DEF x
  <2>3. At((x + v) % SeqSpace) = At(x) + v
    BY ONLY <2>2, AtPlus
  <2>4. (x + v) % SeqSpace \in Number
    <3>1. x + v \in Int
      BY <2>2
    <3>2. QED
      BY <3>1, AtTyped
  <2>5. QED
    BY <2>3, <2>4 DEF x, v
<1>4. o = [p EXCEPT !.ann_edge = y, !.ack_delay = FALSE]
  BY DEF Answered
<1> HIDE DEF o, y
<1>5. /\ o \in PeerBlock /\ o.ann_edge = y /\ o.rcv_nxt = p.rcv_nxt /\ o.ann_wnd = p.ann_wnd
      /\ o.rcv_wnd = p.rcv_wnd
  BY <1>3, <1>4 DEF PeerBlock
<1>6. PeerFits(o)
  <2>1. At(o.ann_edge) = n + v /\ n + v <= n + v
    BY <1>1, <1>3, <1>5
  <2>2. QED
    BY <1>2, <1>5, <2>1 DEF PeerFits
<1>7. Answer(p) \in AckSet /\ Answer(p).ack = p.rcv_nxt /\ Answer(p).wnd = p.ann_wnd
  BY <1>1 DEF Answer, AckSet
<1>8. QED
  BY <1>2, <1>3, <1>5, <1>6, <1>7 DEF o

LEMMA AnswerFits ==
    ASSUME NEW p \in PeerBlock, PeerFits(p), At(p.rcv_nxt) <= Units + 1, NEW q \in Seq(AckSet),
           NEW s \in ControlBlock, WindowFits(s, p, q), AcksFit(q, p)
    PROVE  LET t == Append(q, Answer(p))
           IN t \in Seq(AckSet) /\ WindowFits(s, Answered(p), t) /\ AcksFit(t, Answered(p))
<1> DEFINE a == Answer(p)
           t == Append(q, a)
           o == Answered(p)
           l == Len(q)
           n == At(p.rcv_nxt)
           e == At(p.ann_edge)
<1>1. /\ o \in PeerBlock /\ o.rcv_nxt = p.rcv_nxt
      /\ At(o.ann_edge) = n + p.ann_wnd /\ e <= At(o.ann_edge)
      /\ a \in AckSet /\ a.ack = p.rcv_nxt /\ a.wnd = p.ann_wnd
  BY AnsweredIs
<1>2. n \in Nat /\ e \in Nat /\ p.ann_wnd \in Nat /\ l \in Nat
  BY PeerNumbers, LenProperties
<1> HIDE DEF o, a
<1>3. /\ t \in Seq(AckSet) /\ Len(t) = l + 1 /\ t[l + 1] = a
      /\ \A i \in 1 .. l : t[i] = q[i]
  BY <1>1, AppendProperties
<1> HIDE DEF t
<1>4. WindowFits(s, o, q) /\ AcksFit(q, o)
  <2>1. At(p.rcv_nxt) <= At(o.rcv_nxt)
    BY <1>1, <1>2
  <2>2. QED
    BY <1>1, <2>1, PeerLater
<1>5. \A i \in 1 .. Len(t) : i \in 1 .. l \/ i = l + 1
  BY <1>2, <1>3
<1>6. ASSUME NEW x \in Int, NEW v \in Nat, Announced(x, v, p) PROVE NotBefore(x, v, a)
  <2> DEFINE m == At(x)
             u == p.ann_wnd
             d == At(o.ann_edge)
  <2>1. m <= n /\ m + v <= e /\ d = n + u /\ e <= d
    BY <1>1, <1>6 DEF Announced
  <2>2. m \in Nat /\ u \in Nat
    BY <1>2, AtTyped
  <2>3. At(a.ack) = n /\ a.wnd = u
    BY <1>1
  <2> HIDE DEF m, u, d, n, e
  <2>4. m + v <= n + u
    BY <1>2, <2>1, <2>2
  <2>5. QED
    BY <2>3, <2>4 DEF NotBefore, m
<1>7. ASSUME NEW x \in Int, NEW v \in Nat, NEW b, b.ack = x, Announced(x, v, p)
      PROVE  NotBefore(a.ack, a.wnd, b)
  <2> DEFINE m == At(x)
  <2>1. m <= n /\ m \in Nat /\ At(a.ack) = n /\ At(b.ack) = m
    BY <1>1, <1>7, AtTyped DEF Announced
  <2> HIDE DEF m, n
  <2>2. ~(n < m)
    BY <1>2, <2>1
  <2>3. QED
    BY <2>1, <2>2 DEF NotBefore
<1>8. Announced(a.ack, a.wnd, o)
  <2>1. At(a.ack) = n /\ At(o.rcv_nxt) = n /\ n <= n /\ At(o.ann_edge) = n + a.wnd
        /\ n + a.wnd <= n + a.wnd
    BY <1>1, <1>2
  <2>2. QED
    BY <2>1 DEF Announced
<1>9. NotBefore(a.ack, a.wnd, a)
  <2>1. At(a.ack) = n /\ ~(n < n)
    BY <1>1, <1>2
  <2>2. QED
    BY <2>1 DEF NotBefore
<1>10. ASSUME NEW i \in 1 .. l
       PROVE  /\ q[i].ack \in Int /\ q[i].wnd \in Nat
              /\ Announced(q[i].ack, q[i].wnd, p) /\ Announced(q[i].ack, q[i].wnd, o)
              /\ \A j \in 1 .. l : NotBefore(q[i].ack, q[i].wnd, q[j])
              /\ NotBefore(q[i].ack, q[i].wnd, a) /\ NotBefore(a.ack, a.wnd, q[i])
  <2>1. q[i] \in AckSet
    BY ElementOfSeq
  <2>2. q[i].ack \in Int /\ q[i].wnd \in Nat
    BY <2>1, SegmentsConstants DEF AckSet, Number
  <2>3. /\ Announced(q[i].ack, q[i].wnd, p) /\ Announced(q[i].ack, q[i].wnd, o)
        /\ \A j \in 1 .. l : NotBefore(q[i].ack, q[i].wnd, q[j])
    BY <1>4 DEF AcksFit
  <2>4. NotBefore(q[i].ack, q[i].wnd, a) /\ NotBefore(a.ack, a.wnd, q[i])
    BY <1>6, <1>7, <2>2, <2>3
  <2>5. QED
    BY <2>2, <2>3, <2>4
<1>11. AcksFit(t, o)
  <2> SUFFICES ASSUME NEW i \in 1 .. Len(t), NEW j \in 1 .. Len(t)
               PROVE  Announced(t[i].ack, t[i].wnd, o) /\ NotBefore(t[i].ack, t[i].wnd, t[j])
    BY DEF AcksFit
  <2>1. CASE i \in 1 .. l
    BY <1>3, <1>5, <1>10, <2>1
  <2>2. CASE i = l + 1
    BY <1>3, <1>5, <1>8, <1>9, <1>10, <2>2
  <2>3. QED
    BY <1>5, <2>1, <2>2
<1>12. WindowFits(s, o, t)
  <2>1. s.snd_wl2 \in Int /\ s.snd_wnd \in Nat
    BY BlockNumbers
  <2>2. NotBefore(s.snd_wl2, s.snd_wnd, a)
    BY <1>6, <2>1 DEF WindowFits
  <2>3. ASSUME NEW i \in 1 .. Len(t) PROVE NotBefore(s.snd_wl2, s.snd_wnd, t[i])
    <3>1. CASE i \in 1 .. l
      BY <1>3, <1>4, <3>1 DEF WindowFits
    <3>2. CASE i = l + 1
      BY <1>3, <2>2, <3>2
    <3>3. QED
      BY <1>5, <3>1, <3>2
  <2>4. QED
    BY <1>4, <2>3 DEF WindowFits
<1>13. QED
  BY <1>3, <1>11, <1>12 DEF t, o, a

LEMMA AcknowledgeStep ==
    ASSUME SegmentsInv, NEW p \in PeerBlock, PeerFits(p), NEW ws \in Seq(FrameSet),
           NEW r \in Seq(Nat), NEW e \in BOOLEAN,
           WindowFits(tcp, p, acks), AcksFit(acks, p), FramesFit(ws, tcp, written),
           Taken(p, r, e, tcp, written), Acknowledge(p),
           tcp' = tcp, wire' = ws, written' = written, reported' = reported, received' = r, eof' = e
    PROVE  SegmentsInv'
<1> DEFINE o == Answered(p)
           t == Append(acks, Answer(p))
<1>1. tcp \in ControlBlock /\ acks \in Seq(AckSet) /\ written \in 0 .. Units
  BY InvIs
<1>2. At(p.rcv_nxt) <= Units + 1
  <2> DEFINE n == At(p.rcv_nxt)
             k == Len(r)
  <2>1. n = k + (IF e THEN 1 ELSE 0) /\ k <= written
    BY DEF Taken
  <2>2. k \in Nat /\ written \in Nat /\ written <= Units /\ Units \in Nat
    BY <1>1, LenProperties, SegmentsConstants
  <2> HIDE DEF n, k
  <2>3. n <= Units + 1
    BY <2>1, <2>2
  <2>4. QED
    BY <2>3 DEF n
<1>3. o \in PeerBlock /\ PeerFits(o) /\ o.rcv_nxt = p.rcv_nxt
  BY <1>2, AnsweredIs
<1>4. t \in Seq(AckSet) /\ WindowFits(tcp, o, t) /\ AcksFit(t, o)
  BY <1>1, <1>2, AnswerFits
<1>5. peer' = o /\ acks' = t
  BY DEF Acknowledge, Answered, Answer
<1> HIDE DEF o, t
<1>6. Taken(o, r, e, tcp, written)
  BY <1>3 DEF Taken
<1>7. QED
  BY <1>3, <1>4, <1>5, <1>6, OtherStep

(* The window to announce never takes back what was announced.             *)
LEMMA UpdateIs ==
    ASSUME NEW p \in PeerBlock, At(p.rcv_nxt) <= Units + 1, p.rcv_wnd <= TCP_WND,
           At(p.ann_edge) <= At(p.rcv_nxt) + TCP_WND
    PROVE  LET o == tcp_update_rcv_ann_wnd(p)
           IN /\ o \in PeerBlock /\ PeerFits(o) /\ o.rcv_nxt = p.rcv_nxt /\ o.rcv_wnd = p.rcv_wnd
              /\ o.ann_edge = p.ann_edge /\ o.ack_delay = p.ack_delay /\ o.unread = p.unread
<1> DEFINE x == p.rcv_nxt
           y == p.ann_edge
           v == p.rcv_wnd
           n == At(x)
           e == At(y)
           h == Min({TCP_WND \div 2, TCP_MSS})
           right == (x + v) % SeqSpace
           room == IF SeqLeq(y + h, right) THEN v ELSE IF SeqLt(y, x) THEN 0 ELSE Ahead(y, x)
           o == tcp_update_rcv_ann_wnd(p)
<1>1. x \in Int /\ y \in Int /\ n \in Nat /\ e \in Nat /\ v \in Nat
  BY PeerNumbers
<1>2. n <= Units + 1 /\ v <= TCP_WND /\ e <= n + TCP_WND
  OBVIOUS
<1>3. o = [p EXCEPT !.ann_wnd = room]
  BY DEF tcp_update_rcv_ann_wnd
<1>4. h \in Nat /\ h <= TCP_WND /\ 2 * h <= TCP_WND
  <2> DEFINE a == TCP_WND \div 2
  <2>1. a \in Nat /\ TCP_MSS \in Nat /\ 2 * a <= TCP_WND /\ TCP_WND \in Nat
    BY SegmentsConstants
  <2> HIDE DEF a
  <2>2. h = IF a <= TCP_MSS THEN a ELSE TCP_MSS
    BY <2>1, MinIs DEF a
  <2> HIDE DEF h
  <2>3. QED
    BY <2>1, <2>2
<1> HIDE DEF x, y, v, n, e, h
<1>5. At(y + h) = e + h /\ y + h \in Int
  <2>1. e + h \in Number
    BY <1>1, <1>2, <1>4, SegmentsConstants DEF Number, Limit
  <2>2. y \in Int /\ h \in Int /\ At(y) + h \in Number
    BY <1>1, <1>4, <2>1 DEF e
  <2>3. At(y + h) = At(y) + h
    BY ONLY <2>2, AtPlus
  <2>4. QED
    BY <2>2, <2>3 DEF e
<1>6. At(right) = n + v /\ right \in Int
  <2>1. n + v \in Number
    BY <1>1, <1>2, SegmentsConstants DEF Number, Limit
  <2>2. x \in Int /\ v \in Int /\ At(x) + v \in Number
    BY <1>1, <2>1 DEF n
  <2>3. At((x + v) % SeqSpace) = At(x) + v
    BY ONLY <2>2, AtPlus
  <2>4. right \in Int
    <3>1. x + v \in Int
      BY <2>2
    <3>2. (x + v) % SeqSpace \in Number
      BY <3>1, AtTyped
    <3>3. QED
      BY <3>2 DEF Number
  <2>5. QED
    BY <2>3, <2>4 DEF n
<1>7. SeqLeq(y + h, right) <=> e + h <= n + v
  <2> DEFINE l == y + h
             r == right
  <2>1. l \in Int /\ r \in Int /\ At(l) = e + h /\ At(r) = n + v
    BY <1>5, <1>6
  <2>2. (e + h) - (n + v) <= Limit - 1 /\ (n + v) - (e + h) <= Limit
    BY <1>1, <1>2, <1>4, SegmentsConstants DEF Limit
  <2> HIDE DEF l, r
  <2>3. At(l) - At(r) <= Limit - 1 /\ At(r) - At(l) <= Limit
    BY <2>1, <2>2
  <2>4. SeqLeq(l, r) <=> At(l) <= At(r)
    BY <2>1, <2>3, SeqLeqIs
  <2>5. QED
    BY <2>1, <2>4 DEF l, r
<1>8. SeqLt(y, x) <=> e < n
  <2>1. e - n <= Limit - 1 /\ n - e <= Limit
    BY <1>1, <1>2, SegmentsConstants DEF Limit
  <2>2. x \in Int /\ y \in Int /\ At(y) - At(x) <= Limit - 1 /\ At(x) - At(y) <= Limit
    BY <1>1, <2>1 DEF e, n
  <2>3. SeqLt(y, x) <=> At(y) < At(x)
    BY ONLY <2>2, SeqLtIs
  <2>4. QED
    BY <2>3 DEF e, n
<1>9. n <= e => Ahead(y, x) = e - n
  <2>1. Ahead(y, x) = IF At(x) <= At(y) THEN At(y) - At(x) ELSE At(y) - At(x) + SeqSpace
    BY <1>1, AheadIs
  <2>2. QED
    BY <2>1 DEF e, n
<1>10. room \in Nat /\ e <= n + room /\ room <= TCP_WND
  <2>1. TCP_WND \in Nat
    BY SegmentsConstants
  <2>2. CASE e + h <= n + v
    <3>1. room = v
      BY <1>7, <2>2
    <3>2. QED
      BY <1>1, <1>2, <1>4, <2>2, <3>1
  <2>3. CASE ~(e + h <= n + v) /\ e < n
    <3>1. room = 0
      BY <1>7, <1>8, <2>3
    <3>2. QED
      BY <1>1, <2>1, <2>3, <3>1
  <2>4. CASE ~(e + h <= n + v) /\ ~(e < n)
    <3>1. n <= e
      BY <1>1, <2>4
    <3>2. room = e - n
      BY <1>7, <1>8, <1>9, <2>4, <3>1
    <3>3. QED
      BY <1>1, <1>2, <2>1, <3>1, <3>2
  <2>5. QED
    BY <2>2, <2>3, <2>4
<1> HIDE DEF room, o
<1>11. /\ o \in PeerBlock /\ o.rcv_nxt = p.rcv_nxt /\ o.rcv_wnd = p.rcv_wnd /\ o.ann_wnd = room
       /\ o.ann_edge = p.ann_edge /\ o.ack_delay = p.ack_delay /\ o.unread = p.unread
  BY <1>3, <1>10 DEF PeerBlock
<1>12. PeerFits(o)
  BY <1>2, <1>10, <1>11 DEF PeerFits, e, n, x, y, v
<1>13. QED
  BY <1>11, <1>12 DEF o

(* How far the receiver can be.                                            *)
LEMMA TakenIs ==
    ASSUME NEW p, NEW r \in Seq(Nat), NEW e \in BOOLEAN, NEW s, NEW w \in 0 .. Units,
           Taken(p, r, e, s, w)
    PROVE  At(p.rcv_nxt) <= Units + 1 /\ Len(r) \in Nat /\ At(p.rcv_nxt) = Len(r) + (IF e THEN 1 ELSE 0)
<1> DEFINE n == At(p.rcv_nxt)
           k == Len(r)
<1>1. n = k + (IF e THEN 1 ELSE 0) /\ k <= w
  BY DEF Taken
<1>2. k \in Nat /\ w \in Nat /\ w <= Units /\ Units \in Nat
  BY LenProperties, SegmentsConstants
<1> HIDE DEF n, k
<1>3. n <= Units + 1
  BY <1>1, <1>2
<1>4. QED
  BY <1>1, <1>2, <1>3 DEF n, k

LEMMA FastTimerKept ==
    ASSUME SegmentsInv, FastTimer
    PROVE  SegmentsInv'
<1>1. /\ Acknowledge(peer) /\ tcp' = tcp /\ wire' = wire /\ written' = written
      /\ reported' = reported /\ received' = received /\ eof' = eof
  BY DEF FastTimer
<1>2. /\ peer \in PeerBlock /\ wire \in Seq(FrameSet) /\ received \in Seq(Nat) /\ eof \in BOOLEAN
      /\ WindowFits(tcp, peer, acks) /\ AcksFit(acks, peer) /\ PeerFits(peer)
      /\ FramesFit(wire, tcp, written) /\ Taken(peer, received, eof, tcp, written)
  BY InvIs DEF Around
<1>3. QED
  BY <1>1, <1>2, AcknowledgeStep

LEMMA RecvedKept ==
    ASSUME SegmentsInv, tcp_recved
    PROVE  SegmentsInv'
<1> DEFINE v == Min({peer.rcv_wnd + peer.unread, TCP_WND})
           o == [peer EXCEPT !.rcv_wnd = v, !.unread = 0]
           p == tcp_update_rcv_ann_wnd(o)
<1>1. /\ Acknowledge(p) \/ (peer' = p /\ acks' = acks)
      /\ tcp' = tcp /\ wire' = wire /\ written' = written
      /\ reported' = reported /\ received' = received /\ eof' = eof
  BY DEF tcp_recved
<1>2. /\ peer \in PeerBlock /\ wire \in Seq(FrameSet) /\ received \in Seq(Nat) /\ eof \in BOOLEAN
      /\ WindowFits(tcp, peer, acks) /\ AcksFit(acks, peer) /\ PeerFits(peer)
      /\ FramesFit(wire, tcp, written) /\ Taken(peer, received, eof, tcp, written)
      /\ tcp \in ControlBlock /\ acks \in Seq(AckSet) /\ written \in 0 .. Units
  BY InvIs DEF Around
<1>3. v \in Nat /\ v <= TCP_WND
  <2> DEFINE a == peer.rcv_wnd + peer.unread
  <2>1. a \in Nat /\ TCP_WND \in Nat
    BY <1>2, PeerNumbers, SegmentsConstants
  <2> HIDE DEF a
  <2>2. v = IF a <= TCP_WND THEN a ELSE TCP_WND
    BY <2>1, MinIs DEF a
  <2> HIDE DEF v
  <2>3. QED
    BY <2>1, <2>2
<1> HIDE DEF v
<1>4. o \in PeerBlock /\ o.rcv_nxt = peer.rcv_nxt /\ o.rcv_wnd = v /\ o.ann_edge = peer.ann_edge
  BY <1>2, <1>3 DEF PeerBlock
<1> HIDE DEF o
<1>5. At(peer.rcv_nxt) <= Units + 1
  BY <1>2, TakenIs
<1>6. At(peer.ann_edge) <= At(peer.rcv_nxt) + TCP_WND
  <2> DEFINE e == At(peer.ann_edge)
             n == At(peer.rcv_nxt)
             d == peer.ann_wnd
  <2>1. e <= n + d /\ d <= TCP_WND
    BY <1>2 DEF PeerFits
  <2>2. e \in Nat /\ n \in Nat /\ d \in Nat /\ TCP_WND \in Nat
    BY <1>2, PeerNumbers, SegmentsConstants
  <2> HIDE DEF e, n, d
  <2>3. e <= n + TCP_WND
    BY <2>1, <2>2
  <2>4. QED
    BY <2>3 DEF e, n
<1>7. /\ p \in PeerBlock /\ PeerFits(p) /\ p.rcv_nxt = peer.rcv_nxt /\ p.ann_edge = peer.ann_edge
  <2>1. /\ o \in PeerBlock /\ At(o.rcv_nxt) <= Units + 1 /\ o.rcv_wnd <= TCP_WND
        /\ At(o.ann_edge) <= At(o.rcv_nxt) + TCP_WND
    BY <1>3, <1>4, <1>5, <1>6
  <2>2. QED
    BY <1>4, <2>1, UpdateIs
<1> HIDE DEF p
<1>8. WindowFits(tcp, p, acks) /\ AcksFit(acks, p) /\ Taken(p, received, eof, tcp, written)
  <2>1. WindowFits(tcp, p, acks)
    BY <1>2, <1>7 DEF WindowFits, Announced
  <2>2. AcksFit(acks, p)
    BY <1>2, <1>7 DEF AcksFit, Announced
  <2>3. Taken(p, received, eof, tcp, written)
    BY <1>2, <1>7 DEF Taken
  <2>4. QED
    BY <2>1, <2>2, <2>3
<1>9. CASE Acknowledge(p)
  BY <1>1, <1>2, <1>7, <1>8, <1>9, AcknowledgeStep
<1>10. CASE peer' = p /\ acks' = acks
  BY <1>1, <1>2, <1>7, <1>8, <1>10, OtherStep
<1>11. QED
  BY <1>1, <1>9, <1>10
-----------------------------------------------------------------------------
(* What is left of a frame is a piece of the stream as well.               *)
FrontOff(g, x) == Frame(x, SubSeq(g.data, Ahead(x, g.seq) + 1, Len(g.data)), g.fin)

LEMMA FrontCut ==
    ASSUME NEW g \in FrameSet, NEW x \in Number, NEW w \in 0 .. Units, NEW c \in BOOLEAN,
           PieceOf(g, {HeaderByte}, w, c), At(g.seq) < At(x), At(x) < End(g)
    PROVE  LET f == FrontOff(g, x)
           IN f \in FrameSet /\ f.seq = x /\ PieceOf(f, {HeaderByte}, w, c) /\ End(f) = End(g)
<1> DEFINE a == At(g.seq)
           n == At(x)
           l == Len(g.data)
           d == Ahead(x, g.seq)
           r == SubSeq(g.data, d + 1, l)
           f == Frame(x, r, g.fin)
           k == l - d
<1>1. Typed(g) /\ g.data \in Seq(Nat) /\ g.fin \in BOOLEAN
  BY SegmentTyped DEF Typed
<1>2. /\ g.seq \in Int /\ a \in Nat /\ l \in Nat /\ DataEnd(g) = a + l
      /\ End(g) = DataEnd(g) + (IF g.fin THEN 1 ELSE 0)
  BY <1>1, EndsAre
<1>3. x \in Int /\ n \in Nat
  <2>1. x \in Int
    BY SegmentsConstants DEF Number
  <2>2. QED
    BY <2>1, AtTyped
<1>4. a < n /\ n < End(g)
  OBVIOUS
<1>5. /\ DataEnd(g) <= w
      /\ \A i \in 1 .. l : g.data[i] \in {a + i} \cup {HeaderByte}
      /\ g.fin => c /\ DataEnd(g) = w
  BY DEF PieceOf
<1>6. d = n - a
  <2>1. d = IF a <= n THEN n - a ELSE n - a + SeqSpace
    BY <1>2, <1>3, AheadIs
  <2> HIDE DEF d, a, n
  <2>2. QED
    BY <1>2, <1>3, <1>4, <2>1
<1> HIDE DEF d, a, n, l
<1>7. d \in Nat /\ d <= l /\ k \in Nat /\ (k = 0 => g.fin)
  BY <1>1, <1>2, <1>3, <1>4, <1>6
<1>8. r \in Seq(Nat) /\ Len(r) = k /\ \A i \in 1 .. k : r[i] = g.data[d + i]
  <2>1. \A i \in d + 1 .. l : g.data[i] \in Nat
    <3> SUFFICES ASSUME NEW i \in d + 1 .. l PROVE g.data[i] \in Nat
      OBVIOUS
    <3>1. i \in 1 .. l
      BY <1>2, <1>7
    <3>2. QED
      BY <1>1, <3>1, ElementOfSeq DEF l
  <2>2. d + 1 \in Int /\ l \in Int
    BY <1>2, <1>7
  <2>3. /\ r \in Seq(Nat) /\ Len(r) = (IF d + 1 <= l THEN l - (d + 1) + 1 ELSE 0)
        /\ \A i \in 1 .. l - (d + 1) + 1 : r[i] = g.data[d + 1 + i - 1]
    BY <2>1, <2>2, SubSeqProperties
  <2> HIDE DEF r
  <2>4. l - (d + 1) + 1 = k /\ (~(d + 1 <= l) => k = 0) /\ \A i \in 1 .. k : d + 1 + i - 1 = d + i
    BY <1>2, <1>7
  <2>5. QED
    BY <2>3, <2>4
<1> HIDE DEF r
<1>9. f.seq = x /\ f.data = r /\ f.fin = g.fin /\ f \in FrameSet
  BY <1>1, <1>8 DEF Frame, FrameSet
<1> HIDE DEF f
<1>10. Typed(f)
  BY <1>9, SegmentTyped
<1>11. DataEnd(f) = At(f.seq) + Len(f.data) /\ End(f) = DataEnd(f) + (IF f.fin THEN 1 ELSE 0)
  BY <1>10, EndsAre
<1>12. DataEnd(f) = DataEnd(g)
  <2>1. DataEnd(f) = n + k
    BY <1>8, <1>9, <1>11 DEF n
  <2>2. n + k = a + l
    BY <1>2, <1>3, <1>6, <1>7
  <2>3. QED
    BY <1>2, <2>1, <2>2
<1>13. End(f) = End(g)
  BY <1>2, <1>9, <1>11, <1>12
<1>14. PieceOf(f, {HeaderByte}, w, c)
  <2>1. ASSUME NEW i \in 1 .. Len(f.data) PROVE f.data[i] \in {At(f.seq) + i} \cup {HeaderByte}
    <3>1. i \in 1 .. k /\ f.data[i] = g.data[d + i]
      BY <1>8, <1>9
    <3>2. d + i \in 1 .. l /\ a + (d + i) = n + i
      BY <1>2, <1>3, <1>6, <1>7, <3>1
    <3>3. g.data[d + i] \in {a + (d + i)} \cup {HeaderByte}
      BY <1>5, <3>2
    <3>4. At(f.seq) = n
      BY <1>9 DEF n
    <3>5. QED
      BY <3>1, <3>2, <3>3, <3>4
  <2>2. f.data # <<>> \/ f.fin
    <3>1. f.data = <<>> => k = 0
      BY <1>8, <1>9, EmptySeq
    <3>2. QED
      BY <1>7, <1>9, <3>1
  <2>3. QED
    BY <1>5, <1>9, <1>12, <2>1, <2>2 DEF PieceOf
<1>15. QED
  BY <1>9, <1>13, <1>14 DEF f, r, d, l, FrontOff

LEMMA EndCut ==
    ASSUME NEW g \in FrameSet, NEW v \in Nat, v > 0, TcpLen(g) > v, NEW w \in 0 .. Units,
           NEW c \in BOOLEAN, PieceOf(g, {HeaderByte}, w, c)
    PROVE  LET f == Frame(g.seq, SubSeq(g.data, 1, v), FALSE)
           IN /\ f \in FrameSet /\ f.seq = g.seq /\ PieceOf(f, {HeaderByte}, w, c)
              /\ End(f) <= End(g) /\ TcpLen(f) <= v
<1> DEFINE a == At(g.seq)
           l == Len(g.data)
           r == SubSeq(g.data, 1, v)
           f == Frame(g.seq, r, FALSE)
<1>1. Typed(g) /\ g.data \in Seq(Nat) /\ g.fin \in BOOLEAN /\ g.seq \in Number
  BY SegmentTyped DEF Typed
<1>2. /\ g.seq \in Int /\ a \in Nat /\ l \in Nat /\ DataEnd(g) = a + l
      /\ End(g) = DataEnd(g) + (IF g.fin THEN 1 ELSE 0)
      /\ TcpLen(g) = l + (IF g.fin THEN 1 ELSE 0)
  BY <1>1, EndsAre
<1>3. v > 0 /\ v < TcpLen(g) /\ v \in Nat
  <2> DEFINE t == TcpLen(g)
  <2>1. t \in Nat /\ t > v
    BY <1>1, EndsAre
  <2> HIDE DEF t
  <2>2. v < t
    BY <2>1
  <2>3. QED
    BY <2>2 DEF t
<1>4. /\ DataEnd(g) <= w
      /\ \A i \in 1 .. l : g.data[i] \in {a + i} \cup {HeaderByte}
  BY DEF PieceOf
<1> HIDE DEF a, l
<1>5. v <= l
  BY <1>1, <1>2, <1>3
<1>6. r \in Seq(Nat) /\ Len(r) = v /\ \A i \in 1 .. v : r[i] = g.data[i]
  <2>1. \A i \in 1 .. v : g.data[i] \in Nat
    <3> SUFFICES ASSUME NEW i \in 1 .. v PROVE g.data[i] \in Nat
      OBVIOUS
    <3>1. i \in 1 .. l
      BY <1>2, <1>3, <1>5
    <3>2. QED
      BY <1>1, <3>1, ElementOfSeq DEF l
  <2>2. 1 \in Int /\ v \in Int
    BY <1>3
  <2>3. /\ r \in Seq(Nat) /\ Len(r) = (IF 1 <= v THEN v - 1 + 1 ELSE 0)
        /\ \A i \in 1 .. v - 1 + 1 : r[i] = g.data[1 + i - 1]
    BY <2>1, <2>2, SubSeqProperties
  <2> HIDE DEF r
  <2>4. v - 1 + 1 = v /\ 1 <= v /\ \A i \in 1 .. v : 1 + i - 1 = i
    BY <1>3
  <2>5. QED
    BY <2>3, <2>4
<1> HIDE DEF r
<1>7. f.seq = g.seq /\ f.data = r /\ f.fin = FALSE /\ f \in FrameSet
  BY <1>1, <1>6 DEF Frame, FrameSet
<1> HIDE DEF f
<1>8. Typed(f)
  BY <1>7, SegmentTyped
<1>9. /\ DataEnd(f) = At(f.seq) + Len(f.data) /\ End(f) = DataEnd(f) + (IF f.fin THEN 1 ELSE 0)
      /\ TcpLen(f) = Len(f.data) + (IF f.fin THEN 1 ELSE 0)
  BY <1>8, EndsAre
<1>10. DataEnd(f) = a + v /\ End(f) = a + v /\ TcpLen(f) = v
  BY <1>2, <1>3, <1>6, <1>7, <1>9 DEF a
<1>11. a + v <= w /\ a + v <= End(g)
  BY <1>1, <1>2, <1>3, <1>4, <1>5
<1>12. PieceOf(f, {HeaderByte}, w, c)
  <2>1. ASSUME NEW i \in 1 .. Len(f.data) PROVE f.data[i] \in {At(f.seq) + i} \cup {HeaderByte}
    <3>1. i \in 1 .. v /\ f.data[i] = g.data[i] /\ i \in 1 .. l
      BY <1>2, <1>3, <1>5, <1>6, <1>7
    <3>2. QED
      BY <1>4, <1>7, <3>1 DEF a
  <2>2. f.data # <<>>
    <3>1. f.data = <<>> => v = 0
      BY <1>6, <1>7, EmptySeq
    <3>2. QED
      BY <1>3, <3>1
  <2>3. QED
    BY <1>7, <1>10, <1>11, <2>1, <2>2 DEF PieceOf
<1>13. v <= v
  BY <1>3
<1>14. QED
  BY <1>7, <1>10, <1>11, <1>12, <1>13 DEF f, r

LEMMA TrimmedIs ==
    ASSUME NEW g \in FrameSet, peer \in PeerBlock, NEW w \in 0 .. Units, NEW c \in BOOLEAN,
           PieceOf(g, {HeaderByte}, w, c), peer.rcv_wnd > 0, Trimmed(g).seq = peer.rcv_nxt,
           At(peer.rcv_nxt) <= Units + 1
    PROVE  /\ Trimmed(g) \in FrameSet /\ PieceOf(Trimmed(g), {HeaderByte}, w, c)
           /\ End(Trimmed(g)) <= End(g) /\ TcpLen(Trimmed(g)) <= peer.rcv_wnd
<1> DEFINE x == peer.rcv_nxt
           v == peer.rcv_wnd
           a == At(g.seq)
           n == At(x)
           t == TcpLen(g)
           lo == (g.seq + 1) % SeqSpace
           hi == (g.seq + TcpLen(g) - 1) % SeqSpace
           front == FrontOff(g, x)
           h == IF SeqBetween(x, lo, hi) THEN front ELSE g
           f == IF TcpLen(h) > v THEN Frame(h.seq, SubSeq(h.data, 1, v), FALSE) ELSE h
<1>1. f = Trimmed(g)
  BY DEF Trimmed, FrontOff
<1>2. x \in Int /\ x \in Number /\ v \in Nat /\ n \in Nat /\ v > 0 /\ n <= Units + 1
  BY PeerNumbers
<1>3. Typed(g)
  BY SegmentTyped
<1>4. /\ g.seq \in Int /\ a \in Nat /\ t \in Nat /\ t > 0 /\ End(g) = a + t /\ a + t <= Units + 1
  <2>1. /\ g.seq \in Int /\ a \in Nat /\ Len(g.data) \in Nat /\ DataEnd(g) = a + Len(g.data)
        /\ End(g) = DataEnd(g) + (IF g.fin THEN 1 ELSE 0) /\ g.fin \in BOOLEAN
        /\ t = Len(g.data) + (IF g.fin THEN 1 ELSE 0)
    BY <1>3, EndsAre DEF Typed
  <2>2. DataEnd(g) <= w /\ (g.data # <<>> \/ g.fin)
    BY DEF PieceOf
  <2>3. g.data # <<>> => Len(g.data) # 0
    BY <1>3, EmptySeq DEF Typed
  <2>4. w \in Nat /\ w <= Units /\ Units \in Nat
    BY SegmentsConstants
  <2> DEFINE l == Len(g.data)
             e == DataEnd(g)
             z == End(g)
             b == IF g.fin THEN 1 ELSE 0
  <2>5. l \in Nat /\ (l # 0 \/ b = 1) /\ e = a + l /\ e <= w /\ t = l + b /\ z = e + b /\ a \in Nat
        /\ b \in {0, 1}
    BY <2>1, <2>2, <2>3
  <2> HIDE DEF l, a, t, e, z, b
  <2>6. t \in Nat /\ t > 0 /\ z = a + t /\ a + t <= Units + 1
    BY <2>4, <2>5
  <2>7. QED
    BY <2>1, <2>5, <2>6 DEF z
<1> HIDE DEF x, v, a, n, t
<1>5. At(lo) = a + 1 /\ lo \in Int /\ At(hi) = a + t - 1 /\ hi \in Int
  <2>1. a + 1 \in Number /\ a + t - 1 \in Number
    BY <1>4, SegmentsConstants DEF Number, Limit
  <2> DEFINE y == g.seq
             k == t - 1
  <2>2. y \in Int /\ 1 \in Int /\ At(y) + 1 \in Number
    BY <1>4, <2>1 DEF a
  <2>3. At((y + 1) % SeqSpace) = At(y) + 1
    BY ONLY <2>2, AtPlus
  <2>4. k \in Int /\ At(y) + k \in Number
    <3>1. a + t - 1 = a + k
      BY <1>4
    <3>2. QED
      BY <1>4, <2>1, <3>1 DEF a
  <2> HIDE DEF k
  <2>5. At((y + k) % SeqSpace) = At(y) + k
    BY ONLY <2>2, <2>4, AtPlus
  <2>6. hi = (y + k) % SeqSpace
    <3>1. y + t - 1 = y + k
      BY <1>4 DEF k
    <3>2. hi = (y + t - 1) % SeqSpace
      BY DEF t
    <3>3. QED
      BY <3>1, <3>2
  <2> HIDE DEF y
  <2>7. (y + 1) % SeqSpace \in Number /\ (y + k) % SeqSpace \in Number
    <3>1. y + 1 \in Int /\ y + k \in Int
      BY <2>2, <2>4
    <3>2. QED
      BY <3>1, AtTyped
  <2>8. At(y) + k = a + t - 1
    BY <1>4 DEF k, a, y
  <2>9. lo = (y + 1) % SeqSpace /\ At(y) = a
    BY DEF y, a
  <2>10. lo \in Int /\ hi \in Int
    BY <2>6, <2>7, <2>9 DEF Number
  <2>11. QED
    BY <2>3, <2>5, <2>6, <2>8, <2>9, <2>10
<1>6. SeqBetween(x, lo, hi) => a < n /\ n < End(g)
  <2> HIDE DEF lo, hi
  <2>1. /\ (a + 1) - n <= Limit - 1 /\ n - (a + 1) <= Limit
        /\ n - (a + t - 1) <= Limit - 1 /\ (a + t - 1) - n <= Limit
    BY <1>2, <1>4, SegmentsConstants DEF Limit
  <2>2. /\ At(lo) - At(x) <= Limit - 1 /\ At(x) - At(lo) <= Limit
        /\ At(x) - At(hi) <= Limit - 1 /\ At(hi) - At(x) <= Limit
    BY <1>5, <2>1 DEF n
  <2>3. (SeqLeq(lo, x) <=> At(lo) <= At(x)) /\ (SeqLeq(x, hi) <=> At(x) <= At(hi))
    BY <1>2, <1>5, <2>2, SeqLeqIs
  <2>4. SeqBetween(x, lo, hi) => a + 1 <= n /\ n <= a + t - 1
    BY <1>5, <2>3 DEF SeqBetween, n
  <2>5. QED
    BY <1>2, <1>4, <2>4
<1> HIDE DEF lo, hi
<1>7. h \in FrameSet /\ PieceOf(h, {HeaderByte}, w, c) /\ End(h) = End(g)
  <2>1. CASE SeqBetween(x, lo, hi)
    <3>1. At(g.seq) < At(x) /\ At(x) < End(g)
      BY <1>6, <2>1 DEF a, n
    <3>2. /\ g \in FrameSet /\ x \in Number /\ w \in 0 .. Units /\ c \in BOOLEAN
          /\ PieceOf(g, {HeaderByte}, w, c) /\ At(g.seq) < At(x) /\ At(x) < End(g)
      BY <1>2, <3>1
    <3>3. front \in FrameSet /\ PieceOf(front, {HeaderByte}, w, c) /\ End(front) = End(g)
      BY ONLY <3>2, FrontCut
    <3>4. QED
      BY <2>1, <3>3
  <2>2. CASE ~SeqBetween(x, lo, hi)
    BY <2>2
  <2>3. QED
    BY <2>1, <2>2
<1> HIDE DEF h
<1>8. End(h) \in Nat /\ TcpLen(h) \in Nat
  BY <1>7, SegmentTyped, EndsAre
<1>9. f \in FrameSet /\ PieceOf(f, {HeaderByte}, w, c) /\ End(f) <= End(h) /\ TcpLen(f) <= v
  <2>1. CASE TcpLen(h) > v
    <3> DEFINE o == Frame(h.seq, SubSeq(h.data, 1, v), FALSE)
    <3>1. o \in FrameSet /\ PieceOf(o, {HeaderByte}, w, c) /\ End(o) <= End(h) /\ TcpLen(o) <= v
      BY <1>2, <1>7, <2>1, EndCut
    <3>2. f = o
      BY <2>1
    <3>3. QED
      BY <3>1, <3>2
  <2>2. CASE ~(TcpLen(h) > v)
    <3>1. f = h
      BY <2>2
    <3>2. End(h) <= End(h) /\ TcpLen(h) <= v
      BY <1>2, <1>8, <2>2
    <3>3. QED
      BY <1>7, <3>1, <3>2
  <2>3. QED
    BY <2>1, <2>2
<1>10. QED
  BY <1>1, <1>7, <1>9 DEF v

LEMMA FollowsLess ==
    ASSUME NEW s \in ControlBlock, NEW n \in Nat, NEW m \in Nat, m <= n, Follows(n, s)
    PROVE  Follows(m, s)
<1> DEFINE x == At(s.snd_nxt)
           a == At(s.lastack)
<1>1. x \in Nat /\ a \in Nat
  BY BlockNumbers
<1>2. n <= x \/ (n = x + 1 /\ s.unacked = <<>> /\ a = x) \/ s.dead
  BY DEF Follows
<1> HIDE DEF x, a
<1>3. m <= x \/ (m = x + 1 /\ s.unacked = <<>> /\ a = x) \/ s.dead
  BY <1>1, <1>2
<1>4. QED
  BY <1>3 DEF Follows, x, a

(* The next piece is taken.                                                *)
LEMMA TakenMore ==
    ASSUME NEW p \in PeerBlock, NEW r \in Seq(Nat), NEW e \in BOOLEAN, NEW s \in ControlBlock,
           NEW w \in 0 .. Units, Taken(p, r, e, s, w), NEW f \in FrameSet, f.seq = p.rcv_nxt,
           PieceOf(f, {HeaderByte}, w, s.closed), Follows(End(f), s), NEW o, o.rcv_nxt = SeqEnd(f)
    PROVE  /\ r \o f.data \in Seq(Nat) /\ Taken(o, r \o f.data, e \/ f.fin, s, w)
           /\ At(o.rcv_nxt) = End(f) /\ End(f) <= Units + 1 /\ At(p.rcv_nxt) <= End(f)
           /\ SeqEnd(f) \in Number
<1> DEFINE n == At(p.rcv_nxt)
           k == Len(r)
           l == Len(f.data)
           b == IF f.fin THEN 1 ELSE 0
           z == End(f)
           d == DataEnd(f)
           t == r \o f.data
<1>1. Typed(f) /\ f.data \in Seq(Nat) /\ f.fin \in BOOLEAN
  BY SegmentTyped DEF Typed
<1>2. l \in Nat /\ d = n + l /\ z = d + b /\ b \in {0, 1} /\ n \in Nat
  BY <1>1, EndsAre
<1>3. k \in Nat /\ n = k + (IF e THEN 1 ELSE 0) /\ k <= w /\ (e => k = w)
  BY TakenIs DEF Taken
<1>4. d <= w /\ (f.fin => s.closed /\ d = w)
      /\ \A i \in 1 .. l : f.data[i] \in {n + i} \cup {HeaderByte}
  BY DEF PieceOf
<1>5. w \in Nat /\ w <= Units /\ Units \in Nat
  BY SegmentsConstants
<1>6. /\ t \in Seq(Nat) /\ Len(t) = k + l
      /\ \A i \in 1 .. k : t[i] = r[i]
      /\ \A i \in 1 .. l : t[k + i] = f.data[i]
      /\ \A i \in 1 .. k + l : i \in 1 .. k \/ \E j \in 1 .. l : i = k + j
  BY <1>1, JoinParts
<1>7. At(o.rcv_nxt) = z /\ SeqEnd(f) \in Number
  <2> HIDE DEF n, l, b, d
  <2>1. z <= Limit
    <3> HIDE DEF z
    <3>1. QED
      BY <1>2, <1>4, <1>5, SegmentsConstants DEF Limit
  <2>2. QED
    BY <1>1, <2>1, SeqEndIs
<1> HIDE DEF n, k, l, b, z, d, t
<1>8. ~e /\ n = k /\ z <= Units + 1 /\ n <= z /\ d = k + l
  <2>1. ~e
    <3>1. e => n = k + 1
      BY <1>3
    <3>2. QED
      BY <1>2, <1>3, <1>4, <1>5, <3>1
  <2>2. n = k
    BY <1>3, <2>1
  <2>3. QED
    BY <1>2, <1>3, <1>4, <1>5, <2>1, <2>2
<1>9. Taken(o, t, e \/ f.fin, s, w)
  <2>1. Follows(z, s)
    BY DEF z
  <2>2. \A i \in 1 .. Len(t) : t[i] \in {i, HeaderByte}
    <3> SUFFICES ASSUME NEW i \in 1 .. k + l PROVE t[i] \in {i, HeaderByte}
      BY <1>6
    <3>1. CASE i \in 1 .. k
      BY <1>6, <3>1 DEF Taken, k
    <3>2. CASE \E j \in 1 .. l : i = k + j
      BY <1>4, <1>6, <1>8, <3>2
    <3>3. QED
      BY <1>6, <3>1, <3>2
  <2>3. z = Len(t) + (IF e \/ f.fin THEN 1 ELSE 0)
    BY <1>2, <1>6, <1>8 DEF b
  <2>4. Len(t) <= w /\ (e \/ f.fin => s.closed /\ Len(t) = w)
    BY <1>4, <1>6, <1>8
  <2>5. QED
    BY <1>7, <2>1, <2>2, <2>3, <2>4 DEF Taken
<1>10. QED
  BY <1>6, <1>7, <1>8, <1>9 DEF n, z, t

LEMMA DeliverDataKept ==
    ASSUME SegmentsInv, DeliverData
    PROVE  SegmentsInv'
<1> DEFINE g == Head(wire)
           f == Trimmed(g)
           ws == Tail(wire)
           c == tcp.closed
<1>1. /\ wire # <<>> /\ wire' = ws /\ tcp' = tcp /\ written' = written /\ reported' = reported
  BY DEF DeliverData
<1>2. /\ peer \in PeerBlock /\ wire \in Seq(FrameSet) /\ received \in Seq(Nat) /\ eof \in BOOLEAN
      /\ WindowFits(tcp, peer, acks) /\ AcksFit(acks, peer) /\ PeerFits(peer)
      /\ FramesFit(wire, tcp, written) /\ Taken(peer, received, eof, tcp, written)
      /\ tcp \in ControlBlock /\ acks \in Seq(AckSet) /\ written \in 0 .. Units
  BY InvIs DEF Around
<1>3. /\ ws \in Seq(FrameSet) /\ From(ws, wire) /\ g \in FrameSet /\ 1 \in 1 .. Len(wire) /\ g = wire[1]
  BY <1>1, <1>2, TailFrom
<1>4. PieceOf(g, {HeaderByte}, written, c) /\ Follows(End(g), tcp) /\ c \in BOOLEAN
  BY <1>2, <1>3, BlockNumbers DEF FramesFit
<1> HIDE DEF g, ws
<1>5. FramesFit(ws, tcp, written)
  BY <1>2, <1>3, FramesFrom
<1>6. CASE peer.rcv_wnd > 0 /\ f.seq = peer.rcv_nxt
  <2> DEFINE x == SeqEnd(f)
             v == peer.rcv_wnd - TcpLen(f)
             u == peer.unread + Len(f.data)
             o == [peer EXCEPT !.rcv_nxt = x, !.rcv_wnd = v, !.unread = u]
             p == tcp_update_rcv_ann_wnd(o)
             y == IF f.fin /\ p.rcv_wnd # TCP_WND THEN p.rcv_wnd + 1 ELSE p.rcv_wnd
             q == [p EXCEPT !.rcv_wnd = y]
             z == [q EXCEPT !.ack_delay = TRUE]
             r == received \o f.data
             e == eof \/ f.fin
  <2>1. /\ received' = r /\ eof' = e
        /\ Acknowledge(q) \/ (peer' = z /\ acks' = acks)
    BY <1>6 DEF DeliverData, g
  <2>2. At(peer.rcv_nxt) <= Units + 1
    BY <1>2, TakenIs
  <2>3. /\ f \in FrameSet /\ PieceOf(f, {HeaderByte}, written, c)
        /\ End(f) <= End(g) /\ TcpLen(f) <= peer.rcv_wnd /\ f.seq = peer.rcv_nxt
    BY <1>2, <1>3, <1>4, <1>6, <2>2, TrimmedIs
  <2> HIDE DEF f
  <2>4. /\ Typed(f) /\ TcpLen(f) \in Nat /\ Len(f.data) \in Nat /\ End(f) \in Nat /\ End(g) \in Nat
        /\ f.fin \in BOOLEAN
    BY <1>3, <2>3, SegmentTyped, EndsAre DEF Typed
  <2>5. Follows(End(f), tcp)
    BY <1>2, <1>4, <2>3, <2>4, FollowsLess
  <2>6. v \in Nat /\ v <= TCP_WND /\ u \in Nat /\ peer.rcv_wnd \in Nat
    <3> DEFINE a == peer.rcv_wnd
               b == TcpLen(f)
               d == peer.unread
               l == Len(f.data)
    <3>1. a \in Nat /\ b \in Nat /\ d \in Nat /\ l \in Nat /\ b <= a /\ a <= TCP_WND /\ TCP_WND \in Nat
      BY <1>2, <2>3, <2>4, PeerNumbers, SegmentsConstants DEF PeerFits
    <3> HIDE DEF a, b, d, l
    <3>2. a - b \in Nat /\ a - b <= TCP_WND /\ d + l \in Nat
      BY <3>1
    <3>3. QED
      BY <3>1, <3>2 DEF a, b, d, l
  <2> HIDE DEF x, v, u
  <2>7. o.rcv_nxt = x
    BY <1>2 DEF PeerBlock
  <2>8. /\ r \in Seq(Nat) /\ Taken(o, r, e, tcp, written) /\ At(o.rcv_nxt) = End(f)
        /\ End(f) <= Units + 1 /\ At(peer.rcv_nxt) <= End(f) /\ x \in Number
    <3>1. o.rcv_nxt = SeqEnd(f)
      BY <2>7 DEF x
    <3> HIDE DEF o
    <3>2. /\ peer \in PeerBlock /\ received \in Seq(Nat) /\ eof \in BOOLEAN /\ tcp \in ControlBlock
          /\ written \in 0 .. Units /\ Taken(peer, received, eof, tcp, written) /\ f \in FrameSet
          /\ f.seq = peer.rcv_nxt /\ PieceOf(f, {HeaderByte}, written, tcp.closed)
          /\ Follows(End(f), tcp) /\ o.rcv_nxt = SeqEnd(f)
      BY <1>2, <2>3, <2>5, <3>1
    <3>3. /\ r \in Seq(Nat) /\ Taken(o, r, e, tcp, written)
          /\ At(o.rcv_nxt) = End(f) /\ End(f) <= Units + 1 /\ At(peer.rcv_nxt) <= End(f)
          /\ SeqEnd(f) \in Number
      <4>1. /\ received \o f.data \in Seq(Nat) /\ Taken(o, received \o f.data, eof \/ f.fin, tcp, written)
            /\ At(o.rcv_nxt) = End(f) /\ End(f) <= Units + 1 /\ At(peer.rcv_nxt) <= End(f)
            /\ SeqEnd(f) \in Number
        <5> HIDE DEF r, e
        <5>1. QED
          BY ONLY <3>2, TakenMore, ZenonT(60)
      <4>2. QED
        BY ONLY <4>1 DEF r, e
    <3>4. QED
      BY <3>3 DEF x
  <2>9. /\ o \in PeerBlock /\ o.rcv_wnd = v /\ o.ann_edge = peer.ann_edge
    BY <1>2, <2>6, <2>8 DEF PeerBlock
  <2> HIDE DEF o
  <2>10. At(peer.ann_edge) <= End(f) + TCP_WND
    <3> DEFINE a == At(peer.ann_edge)
               n == At(peer.rcv_nxt)
               d == peer.ann_wnd
               k == End(f)
    <3>1. a <= n + d /\ d <= TCP_WND /\ n <= k
      BY <1>2, <2>8 DEF PeerFits
    <3>2. a \in Nat /\ n \in Nat /\ d \in Nat /\ k \in Nat /\ TCP_WND \in Nat
      BY <1>2, <2>4, PeerNumbers, SegmentsConstants
    <3> HIDE DEF a, n, d, k
    <3>3. a <= k + TCP_WND
      BY <3>1, <3>2
    <3>4. QED
      BY <3>3 DEF a, k
  <2>11. /\ p \in PeerBlock /\ PeerFits(p) /\ p.rcv_nxt = o.rcv_nxt /\ p.rcv_wnd = v
         /\ p.ann_edge = peer.ann_edge
    <3>1. /\ At(o.rcv_nxt) <= Units + 1 /\ o.rcv_wnd <= TCP_WND
          /\ At(o.ann_edge) <= At(o.rcv_nxt) + TCP_WND
      BY <2>6, <2>8, <2>9, <2>10
    <3>2. QED
      BY <2>9, <3>1, UpdateIs
  <2> HIDE DEF p
  <2>12. y \in Nat /\ y <= TCP_WND
    BY <2>6, <2>11, SegmentsConstants
  <2> HIDE DEF y
  <2>13. /\ q \in PeerBlock /\ q.rcv_nxt = o.rcv_nxt /\ q.ann_edge = peer.ann_edge
         /\ q.ann_wnd = p.ann_wnd /\ q.rcv_wnd = y
    BY <2>11, <2>12 DEF PeerBlock
  <2>14. PeerFits(q)
    BY <2>11, <2>12, <2>13 DEF PeerFits
  <2> HIDE DEF q
  <2>15. /\ z \in PeerBlock /\ z.rcv_nxt = q.rcv_nxt /\ z.ann_edge = q.ann_edge
         /\ z.ann_wnd = q.ann_wnd /\ z.rcv_wnd = q.rcv_wnd
    BY <2>13 DEF PeerBlock
  <2> HIDE DEF z, r, e
  <2>16. WindowFits(tcp, q, acks) /\ AcksFit(acks, q) /\ Taken(q, r, e, tcp, written)
    <3>1. At(peer.rcv_nxt) <= At(q.rcv_nxt) /\ At(peer.ann_edge) <= At(q.ann_edge)
      <4>1. At(peer.ann_edge) \in Nat
        BY <1>2, PeerNumbers
      <4>2. QED
        BY <2>8, <2>13, <4>1
    <3>2. WindowFits(tcp, q, acks) /\ AcksFit(acks, q)
      BY <1>2, <2>13, <3>1, PeerLater
    <3>3. QED
      BY <2>8, <2>13, <3>2 DEF Taken
  <2>17. e \in BOOLEAN
    BY <1>2, <2>4 DEF e
  <2>18. CASE Acknowledge(q)
    BY <1>1, <1>3, <1>5, <2>1, <2>8, <2>13, <2>14, <2>16, <2>17, <2>18, AcknowledgeStep
  <2>19. CASE peer' = z /\ acks' = acks
    <3>1. WindowFits(tcp, z, acks) /\ AcksFit(acks, z) /\ PeerFits(z) /\ Taken(z, r, e, tcp, written)
      <4>1. WindowFits(tcp, z, acks)
        BY <2>15, <2>16 DEF WindowFits, Announced
      <4>2. AcksFit(acks, z)
        BY <2>15, <2>16 DEF AcksFit, Announced
      <4>3. PeerFits(z)
        BY <2>14, <2>15 DEF PeerFits
      <4>4. Taken(z, r, e, tcp, written)
        BY <2>15, <2>16 DEF Taken
      <4>5. QED
        BY <4>1, <4>2, <4>3, <4>4
    <3>2. QED
      BY <1>1, <1>2, <1>3, <1>5, <2>1, <2>8, <2>15, <2>17, <2>19, <3>1, OtherStep
  <2>20. QED
    BY <2>1, <2>18, <2>19
<1>7. CASE ~(peer.rcv_wnd > 0 /\ f.seq = peer.rcv_nxt)
  <2>1. Acknowledge(peer) /\ received' = received /\ eof' = eof
    BY <1>7 DEF DeliverData, g
  <2>2. QED
    BY <1>1, <1>2, <1>3, <1>5, <2>1, AcknowledgeStep
<1>8. QED
  BY <1>6, <1>7
-----------------------------------------------------------------------------
(* An acknowledgement that has arrived, q being those behind it.           *)
Heard(a, s, p, q) ==
    /\ a \in AckSet /\ q \in Seq(AckSet) /\ s \in ControlBlock /\ p \in PeerBlock
    /\ WindowFits(s, p, q) /\ At(p.rcv_nxt) <= Units + 1
    /\ Announced(a.ack, a.wnd, p) /\ NotBefore(s.snd_wl2, s.snd_wnd, a)
    /\ \A i \in 1 .. Len(q) : NotBefore(a.ack, a.wnd, q[i])

LEMMA HeardIs ==
    ASSUME NEW a, NEW s, NEW p, NEW q, Heard(a, s, p, q)
    PROVE  /\ a.ack \in Int /\ a.ack \in Number /\ At(a.ack) \in Nat /\ a.wnd \in Nat
           /\ At(a.ack) <= At(p.rcv_nxt) /\ At(a.ack) <= Units + 1
           /\ At(s.lastack) <= At(s.snd_wl2) /\ At(s.snd_wl2) <= Units + 1
           /\ At(a.ack) + a.wnd <= At(p.ann_edge)
<1>1. a.ack \in Int /\ a.ack \in Number /\ a.wnd \in Nat
  BY SegmentsConstants DEF Heard, AckSet, Number
<1>2. s \in ControlBlock /\ p \in PeerBlock
  BY DEF Heard
<1>3. /\ At(a.ack) \in Nat /\ At(p.rcv_nxt) \in Nat /\ At(s.snd_wl2) \in Nat /\ At(s.lastack) \in Nat
      /\ Units \in Nat
  BY <1>1, <1>2, AtTyped, PeerNumbers, BlockNumbers, SegmentsConstants
<1>4. /\ At(a.ack) <= At(p.rcv_nxt) /\ At(p.rcv_nxt) <= Units + 1 /\ At(a.ack) + a.wnd <= At(p.ann_edge)
      /\ At(s.snd_wl2) <= At(p.rcv_nxt) /\ At(s.lastack) <= At(s.snd_wl2)
  BY DEF Heard, Announced, WindowFits
<1> DEFINE x == At(a.ack)
           n == At(p.rcv_nxt)
           k == At(s.snd_wl2)
<1>5. x <= Units + 1 /\ k <= Units + 1
  <2>1. x \in Nat /\ n \in Nat /\ k \in Nat /\ x <= n /\ n <= Units + 1 /\ k <= n /\ Units \in Nat
    BY <1>3, <1>4
  <2> HIDE DEF x, n, k
  <2>2. QED
    BY <2>1
<1>6. QED
  BY <1>1, <1>3, <1>4, <1>5

(* What UpdateWindow leaves.                                               *)
Windowed(r, s, a) ==
    /\ r \in ControlBlock
    /\ r.unsent = s.unsent /\ r.unacked = s.unacked /\ r.snd_nxt = s.snd_nxt /\ r.lastack = s.lastack
    /\ r.snd_lbb = s.snd_lbb /\ r.snd_buf = s.snd_buf /\ r.running = s.running
    /\ r.closed = s.closed /\ r.dead = s.dead
    /\ At(a.ack) <= At(r.snd_wl2)
    /\ At(s.lastack) <= At(a.ack) => At(s.lastack) + s.snd_wnd <= At(a.ack) + r.snd_wnd
    /\ At(a.ack) <= At(s.lastack) => s.snd_wnd <= r.snd_wnd

LEMMA UpdateWindowIs ==
    ASSUME NEW a, NEW s, NEW p, NEW q, Heard(a, s, p, q)
    PROVE  Windowed(UpdateWindow(s, a), s, a) /\ WindowFits(UpdateWindow(s, a), p, q)
<1> DEFINE x == At(a.ack)
           v == a.wnd
           k == At(s.snd_wl2)
           u == s.snd_wnd
           l == At(s.lastack)
           r == UpdateWindow(s, a)
           z == s.persist /\ v = 0
<1>1. /\ a.ack \in Int /\ a.ack \in Number /\ x \in Nat /\ v \in Nat
      /\ x <= At(p.rcv_nxt) /\ x <= Units + 1 /\ l <= k /\ k <= Units + 1
  BY HeardIs
<1>2. /\ a \in AckSet /\ s \in ControlBlock /\ p \in PeerBlock /\ WindowFits(s, p, q)
      /\ Announced(a.ack, a.wnd, p) /\ NotBefore(s.snd_wl2, s.snd_wnd, a)
      /\ \A i \in 1 .. Len(q) : NotBefore(a.ack, a.wnd, q[i])
  BY DEF Heard
<1>3. s.snd_wl2 \in Int /\ k \in Nat /\ u \in Nat /\ l \in Nat /\ s.snd_wl2 \in Number
  BY <1>2, BlockNumbers DEF ControlBlock
<1>4. k < x => k + u <= x + v
  BY <1>2 DEF NotBefore
<1>5. SeqLt(s.snd_wl2, a.ack) <=> k < x
  <2> DEFINE m == s.snd_wl2
             n == a.ack
  <2>1. k - x <= Limit - 1 /\ x - k <= Limit
    <3> HIDE DEF k, x
    <3>1. QED
      BY <1>1, <1>3, SegmentsConstants DEF Limit
  <2>2. m \in Int /\ n \in Int /\ At(m) - At(n) <= Limit - 1 /\ At(n) - At(m) <= Limit
    BY <1>1, <1>3, <2>1
  <2> HIDE DEF m, n
  <2>3. SeqLt(m, n) <=> At(m) < At(n)
    BY ONLY <2>2, SeqLtIs
  <2>4. QED
    BY <2>3 DEF m, n
<1>6. s.snd_wl2 = a.ack => k = x
  OBVIOUS
<1> HIDE DEF x, v, k, u, l, r
<1>7. CASE SeqLt(s.snd_wl2, a.ack) \/ (s.snd_wl2 = a.ack /\ v > u)
  <2>1. r = [s EXCEPT !.snd_wnd = v, !.snd_wl2 = a.ack, !.persist = z]
    BY <1>7 DEF UpdateWindow, r, v, u
  <2>2. z \in BOOLEAN
    BY <1>2 DEF ControlBlock
  <2> HIDE DEF z
  <2>3. /\ r \in ControlBlock
        /\ r.unsent = s.unsent /\ r.unacked = s.unacked /\ r.snd_nxt = s.snd_nxt /\ r.lastack = s.lastack
        /\ r.snd_lbb = s.snd_lbb /\ r.snd_buf = s.snd_buf /\ r.running = s.running
        /\ r.closed = s.closed /\ r.dead = s.dead /\ r.snd_wl2 = a.ack /\ r.snd_wnd = v
    BY <1>1, <1>2, <2>1, <2>2 DEF ControlBlock
  <2>4. /\ x <= x /\ (l <= x => l + u <= x + v) /\ (x <= l => u <= v) /\ l <= x
    BY <1>1, <1>3, <1>4, <1>5, <1>6, <1>7
  <2>5. Windowed(r, s, a)
    BY <2>3, <2>4 DEF Windowed, x, l, u
  <2>6. WindowFits(r, p, q)
    <3>1. At(r.lastack) <= At(r.snd_wl2)
      BY <2>3, <2>4 DEF l, x
    <3>2. Announced(r.snd_wl2, r.snd_wnd, p) /\ \A i \in 1 .. Len(q) : NotBefore(r.snd_wl2, r.snd_wnd, q[i])
      BY <1>2, <2>3 DEF v
    <3>3. /\ At(r.lastack) <= At(p.rcv_nxt)
          /\ At(r.snd_nxt) <= At(p.ann_edge) + (IF r.closed THEN 1 ELSE 0)
      BY <1>2, <2>3 DEF WindowFits
    <3>4. QED
      BY <3>1, <3>2, <3>3 DEF WindowFits
  <2>7. QED
    BY <2>5, <2>6 DEF r
<1>8. CASE ~(SeqLt(s.snd_wl2, a.ack) \/ (s.snd_wl2 = a.ack /\ v > u))
  <2>1. r = s
    BY <1>8 DEF UpdateWindow, r, v, u
  <2>2. x <= k /\ (l <= x => l + u <= x + u) /\ (x <= l => u <= u)
    BY <1>1, <1>3, <1>5, <1>8
  <2>3. Windowed(s, s, a)
    BY <1>2, <2>2 DEF Windowed, x, k, l, u
  <2>4. QED
    BY <1>2, <2>1, <2>3 DEF r
<1>9. QED
  BY <1>7, <1>8

(* Whether a segment is acknowledged to its end.                           *)
LEMMA DoneIs ==
    ASSUME NEW g, Typed(g), End(g) <= Units + 1, NEW x \in Int, At(x) <= Units + 1
    PROVE  SeqLeq(SeqEnd(g), x) <=> End(g) <= At(x)
<1> DEFINE y == SeqEnd(g)
           e == End(g)
           m == At(x)
<1>1. e \in Nat /\ m \in Nat /\ e <= Units + 1 /\ m <= Units + 1
  BY EndsAre, AtTyped
<1>2. At(y) = e /\ y \in Int
  <2>1. e <= Limit
    <3> HIDE DEF e
    <3>1. QED
      BY <1>1, SegmentsConstants DEF Limit
  <2>2. At(y) = e /\ y \in Number
    BY <2>1, SeqEndIs
  <2> HIDE DEF y
  <2>3. QED
    BY <2>2 DEF Number
<1> HIDE DEF y, e, m
<1>3. e - m <= Limit - 1 /\ m - e <= Limit
  BY <1>1, SegmentsConstants DEF Limit
<1>4. y \in Int /\ x \in Int /\ At(y) - At(x) <= Limit - 1 /\ At(x) - At(y) <= Limit
  BY <1>2, <1>3 DEF m
<1>5. SeqLeq(y, x) <=> At(y) <= At(x)
  BY ONLY <1>4, SeqLeqIs
<1>6. QED
  BY <1>2, <1>5 DEF y, e

LEMMA BehindIs ==
    ASSUME NEW q \in Seq(Segments), NEW P, P \subseteq 1 .. Len(q)
    PROVE  \E d \in 0 .. Len(q) : /\ Behind(q, P) = SubSeq(q, d + 1, Len(q))
                                  /\ \A i \in 1 .. d : i \in P
                                  /\ d < Len(q) => d + 1 \notin P
<1> DEFINE n == Len(q)
           d == Leading(n, P)
<1>1. n \in Nat
  BY LenProperties
<1> HIDE DEF n
<1>2. P \subseteq 1 .. n
  BY DEF n
<1>3. d \in 0 .. n /\ (\A i \in 1 .. d : i \in P) /\ (d < n => d + 1 \notin P)
  BY <1>1, <1>2, LeadingIs
<1>4. Behind(q, P) = SubSeq(q, d + 1, n)
  BY DEF Behind, n
<1> HIDE DEF d
<1>5. QED
  BY <1>3, <1>4 DEF n

LEMMA WholeIs ==
    ASSUME NEW q \in Seq(Segments)
    PROVE  SubSeq(q, 1, Len(q)) = q
<1> DEFINE n == Len(q)
           r == SubSeq(q, 1, n)
<1>1. n \in Nat
  BY LenProperties
<1>2. \A i \in 1 .. n : q[i] \in Segments
  BY ElementOfSeq
<1>3. /\ r \in Seq(Segments) /\ Len(r) = (IF 1 <= n THEN n - 1 + 1 ELSE 0)
      /\ \A i \in 1 .. n - 1 + 1 : r[i] = q[1 + i - 1]
  <2> HIDE DEF n
  <2>1. 1 \in Int /\ n \in Int
    BY <1>1
  <2>2. QED
    BY <1>2, <2>1, SubSeqProperties
<1> HIDE DEF r
<1>4. Len(r) = Len(q) /\ \A i \in 1 .. Len(q) : r[i] = q[i]
  <2>1. n - 1 + 1 = n /\ (~(1 <= n) => n = 0) /\ \A i \in 1 .. n : 1 + i - 1 = i
    BY <1>1
  <2>2. QED
    BY <1>1, <1>3, <2>1
<1>5. r = q
  BY <1>3, <1>4, SeqEqual
<1>6. QED
  BY <1>5 DEF r

(* What DropUnsent leaves.                                                 *)
LEMMA DropIs ==
    ASSUME NEW s \in ControlBlock, NEW a, a.ack \in Int, At(a.ack) <= Units + 1,
           At(s.snd_nxt) <= Units + 1, \A i \in 1 .. Len(s.unsent) : End(s.unsent[i]) <= Units + 1
    PROVE  \E d \in 0 .. Len(s.unsent) :
             /\ DropUnsent(s, a) = [s EXCEPT !.unsent = SubSeq(s.unsent, d + 1, Len(s.unsent))]
             /\ \A i \in 1 .. d : End(s.unsent[i]) <= At(a.ack) /\ At(a.ack) <= At(s.snd_nxt)
             /\ d < Len(s.unsent) => ~(End(s.unsent[d + 1]) <= At(a.ack) /\ At(a.ack) <= At(s.snd_nxt))
<1> DEFINE q == s.unsent
           x == a.ack
           y == s.snd_nxt
           P == {i \in 1 .. Len(q) : SeqBetween(x, SeqEnd(q[i]), y)}
<1>1. q \in Seq(Segments) /\ y \in Int /\ At(y) \in Nat /\ At(x) \in Nat
  BY BlockQueues, BlockNumbers, AtTyped
<1>2. DropUnsent(s, a) = [s EXCEPT !.unsent = Behind(q, P)]
  BY DEF DropUnsent
<1>3. PICK d \in 0 .. Len(q) : /\ Behind(q, P) = SubSeq(q, d + 1, Len(q))
                               /\ \A i \in 1 .. d : i \in P
                               /\ d < Len(q) => d + 1 \notin P
  BY <1>1, BehindIs
<1>4. SeqLeq(x, y) <=> At(x) <= At(y)
  <2>1. At(x) - At(y) <= Limit - 1 /\ At(y) - At(x) <= Limit
    <3> DEFINE k == At(x)
               l == At(y)
    <3>1. k \in Nat /\ l \in Nat /\ k <= Units + 1 /\ l <= Units + 1
      BY <1>1
    <3> HIDE DEF k, l
    <3>2. k - l <= Limit - 1 /\ l - k <= Limit
      BY <3>1, SegmentsConstants DEF Limit
    <3>3. QED
      BY <3>2 DEF k, l
  <2>2. x \in Int /\ y \in Int /\ At(x) - At(y) <= Limit - 1 /\ At(y) - At(x) <= Limit
    BY <1>1, <2>1
  <2>3. QED
    BY ONLY <2>2, SeqLeqIs
<1>5. ASSUME NEW i \in 1 .. Len(q)
      PROVE  i \in P <=> End(q[i]) <= At(x) /\ At(x) <= At(y)
  <2>1. Typed(q[i])
    <3>1. q[i] \in Segments
      BY <1>1, ElementOfSeq
    <3>2. QED
      BY <3>1, SegmentTyped
  <2>2. SeqLeq(SeqEnd(q[i]), x) <=> End(q[i]) <= At(x)
    BY <2>1, DoneIs
  <2>3. QED
    BY <1>4, <2>2 DEF SeqBetween
<1>6. Len(q) \in Nat /\ d \in Nat
  BY <1>1, LenProperties
<1> HIDE DEF q, P, x, y
<1>7. \A i \in 1 .. d : End(q[i]) <= At(x) /\ At(x) <= At(y)
  <2> SUFFICES ASSUME NEW i \in 1 .. d PROVE End(q[i]) <= At(x) /\ At(x) <= At(y)
    OBVIOUS
  <2>1. i \in 1 .. Len(q)
    BY <1>6
  <2>2. QED
    BY <1>3, <1>5, <2>1
<1>8. d < Len(q) => ~(End(q[d + 1]) <= At(x) /\ At(x) <= At(y))
  <2>1. d < Len(q) => d + 1 \in 1 .. Len(q)
    BY <1>6
  <2>2. QED
    BY <1>3, <1>5, <2>1
<1>9. DropUnsent(s, a) = [s EXCEPT !.unsent = SubSeq(q, d + 1, Len(q))]
  BY <1>2, <1>3
<1>10. QED
  BY <1>6, <1>7, <1>8, <1>9 DEF q, x, y

LEMMA DropNothing ==
    ASSUME NEW s \in ControlBlock, NEW a, a.ack \in Int, At(a.ack) <= Units + 1,
           At(s.snd_nxt) <= Units + 1, \A i \in 1 .. Len(s.unsent) : End(s.unsent[i]) <= Units + 1,
           \/ \A i \in 1 .. Len(s.unsent) : At(a.ack) < End(s.unsent[i])
           \/ At(s.snd_nxt) < At(a.ack)
    PROVE  DropUnsent(s, a) = s
<1> DEFINE q == s.unsent
<1>1. PICK d \in 0 .. Len(q) :
             /\ DropUnsent(s, a) = [s EXCEPT !.unsent = SubSeq(q, d + 1, Len(q))]
             /\ \A i \in 1 .. d : End(q[i]) <= At(a.ack) /\ At(a.ack) <= At(s.snd_nxt)
  BY DropIs
<1>2. q \in Seq(Segments) /\ Len(q) \in Nat /\ At(a.ack) \in Nat /\ At(s.snd_nxt) \in Nat
  BY BlockQueues, BlockNumbers, AtTyped, LenProperties
<1>3. ASSUME d # 0 PROVE FALSE
  <2>1. 1 \in 1 .. d /\ 1 \in 1 .. Len(q)
    BY <1>2, <1>3
  <2>2. End(q[1]) <= At(a.ack) /\ At(a.ack) <= At(s.snd_nxt)
    BY <1>1, <2>1
  <2>3. End(q[1]) \in Nat
    <3>1. q[1] \in Segments
      BY <1>2, <2>1, ElementOfSeq
    <3>2. Typed(q[1])
      BY <3>1, SegmentTyped
    <3>3. QED
      BY <3>2, EndsAre
  <2>4. At(a.ack) < End(q[1]) \/ At(s.snd_nxt) < At(a.ack)
    BY <2>1
  <2> DEFINE e == End(q[1])
             x == At(a.ack)
             y == At(s.snd_nxt)
  <2>5. e \in Nat /\ x \in Nat /\ y \in Nat /\ e <= x /\ x <= y /\ (x < e \/ y < x)
    BY <1>2, <2>2, <2>3, <2>4
  <2> HIDE DEF e, x, y
  <2>6. QED
    BY <2>5
<1>4. SubSeq(q, d + 1, Len(q)) = q
  BY <1>2, <1>3, WholeIs
<1>5. DropUnsent(s, a) = [s EXCEPT !.unsent = q]
  BY <1>1, <1>4
<1>6. QED
  BY <1>5 DEF ControlBlock

(* A block whose oldest segment is to be sent again is in order, and its   *)
(* window has room for it.                                                 *)
Rejoined(u, v) == <<u[1]>> \o v

LEMMA RejoinIs ==
    ASSUME NEW u \in Seq(Segments), NEW v \in Seq(Segments), u # <<>>,
           NEW from \in Nat, NEW w \in 0 .. Units, NEW c \in BOOLEAN, Tiled(u \o v, from, w, c)
    PROVE  LET q == Rejoined(u, v)
           IN /\ q \in Seq(Segments) /\ BySeq(q) = q /\ Len(q) = 1 + Len(v) /\ Len(v) \in Nat
              /\ q[1] = u[1] /\ (u \o v)[1] = u[1]
              /\ \A i \in 1 .. Len(v) : q[1 + i] = v[i]
              /\ \A i \in 1 .. Len(q) : \E j \in 1 .. Len(u \o v) : q[i] = (u \o v)[j]
<1> DEFINE x == <<u[1]>>
           q == x \o v
           t == u \o v
           m == Len(u)
           n == Len(v)
           f(i) == IF i = 1 THEN 1 ELSE m + i - 1
<1>1. m \in Nat /\ m > 0 /\ n \in Nat
  BY LenProperties, EmptySeq
<1>2. x \in Seq(Segments) /\ Len(x) = 1 /\ x[1] = u[1]
  <2>1. 1 \in 1 .. m
    BY <1>1
  <2>2. u[1] \in Segments
    BY <2>1, ElementOfSeq
  <2>3. QED
    BY <2>2
<1> HIDE DEF x
<1>3. /\ q \in Seq(Segments) /\ Len(q) = 1 + n /\ q[1] = u[1]
      /\ \A i \in 1 .. n : q[1 + i] = v[i]
  <2>1. /\ q \in Seq(Segments) /\ Len(q) = Len(x) + Len(v)
        /\ \A i \in 1 .. Len(x) : q[i] = x[i]
        /\ \A i \in 1 .. Len(v) : q[Len(x) + i] = v[i]
    BY <1>2, JoinIs
  <2> HIDE DEF q
  <2>2. QED
    BY <1>2, <2>1
<1>4. /\ t \in Seq(Segments) /\ Len(t) = m + n
      /\ \A i \in 1 .. m : t[i] = u[i]
      /\ \A i \in 1 .. n : t[m + i] = v[i]
  BY JoinIs
<1>5. \A i, j \in 1 .. Len(t) : SeqLt(t[i].seq, t[j].seq) <=> i < j
  BY <1>4, TiledRises
<1> HIDE DEF q, t, m, n
<1>6. ASSUME NEW i \in 1 .. Len(q)
      PROVE  f(i) \in 1 .. Len(t) /\ q[i] = t[f(i)]
  <2>1. CASE i = 1
    <3>1. 1 \in 1 .. m /\ 1 \in 1 .. Len(t)
      BY <1>1, <1>4
    <3>2. QED
      BY <1>3, <1>4, <2>1, <3>1
  <2>2. CASE i # 1
    <3> DEFINE h == i - 1
    <3>1. h \in 1 .. n /\ i = 1 + h /\ f(i) = m + h /\ m + h \in 1 .. Len(t)
      BY <1>1, <1>3, <1>4, <2>2
    <3> HIDE DEF h
    <3>2. QED
      BY <1>3, <1>4, <3>1
  <2>3. QED
    BY <2>1, <2>2
<1>7. \A i, j \in 1 .. Len(q) : SeqLt(q[i].seq, q[j].seq) <=> i < j
  <2> SUFFICES ASSUME NEW i \in 1 .. Len(q), NEW j \in 1 .. Len(q)
               PROVE  SeqLt(q[i].seq, q[j].seq) <=> i < j
    OBVIOUS
  <2>1. /\ f(i) \in 1 .. Len(t) /\ q[i] = t[f(i)]
        /\ f(j) \in 1 .. Len(t) /\ q[j] = t[f(j)]
    BY <1>6
  <2>2. f(i) < f(j) <=> i < j
    BY <1>1, <1>3
  <2> HIDE DEF f
  <2>3. SeqLt(t[f(i)].seq, t[f(j)].seq) <=> f(i) < f(j)
    BY <1>5, <2>1
  <2>4. QED
    BY <2>1, <2>2, <2>3
<1>8. BySeq(q) = q
  BY <1>3, <1>7, RisingBySeq
<1>9. \A i \in 1 .. Len(q) : \E j \in 1 .. Len(t) : q[i] = t[j]
  BY <1>6
<1>10. t[1] = u[1]
  BY <1>1, <1>4
<1>11. QED
  BY <1>1, <1>3, <1>8, <1>9, <1>10 DEF q, t, n, x, Rejoined
-----------------------------------------------------------------------------
(* What an acknowledgement of nothing new leaves: the queues as they are,  *)
(* or the oldest segment to be sent again.                                 *)
Steady(t, s) ==
    /\ t \in ControlBlock /\ t.unsent = s.unsent /\ t.unacked = s.unacked
    /\ t.snd_nxt = s.snd_nxt /\ t.lastack = s.lastack /\ t.snd_lbb = s.snd_lbb /\ t.snd_buf = s.snd_buf
    /\ t.snd_wnd = s.snd_wnd /\ t.snd_wl2 = s.snd_wl2 /\ t.running = s.running
    /\ t.closed = s.closed /\ t.dead = s.dead

Recall(t, s) ==
    /\ t \in ControlBlock /\ Recalled(t, s.unacked, s.unsent)
    /\ t.snd_nxt = s.snd_nxt /\ t.lastack = s.lastack /\ t.snd_lbb = s.snd_lbb /\ t.snd_buf = s.snd_buf
    /\ t.snd_wnd = s.snd_wnd /\ t.snd_wl2 = s.snd_wl2 /\ t.running = s.running
    /\ t.closed = s.closed /\ t.dead = s.dead
    /\ t.infr = TRUE /\ (t.cwnd >= 5 * mss \/ t.cwnd = TCP_WND)

LEMMA RexmitIs ==
    ASSUME NEW s \in ControlBlock, NEW from \in Nat, NEW w \in 0 .. Units, NEW c \in BOOLEAN,
           Tiled(Queue(s), from, w, c)
    PROVE  Steady(tcp_rexmit_fast(s), s) \/ Recall(tcp_rexmit_fast(s), s)
<1> DEFINE u == s.unacked
           v == s.unsent
           h == ReducedThresh(s)
           n == Retried(s.nrtx)
           y == Capped(h + 3 * mss)
           q == BySeq(<<u[1]>> \o v)
           r == Tail(u)
           t == tcp_rexmit_fast(s)
<1>1. CASE u = <<>> \/ s.infr
  <2>1. t = s
    BY <1>1 DEF tcp_rexmit_fast
  <2>2. Steady(s, s)
    BY DEF Steady
  <2>3. QED
    BY <2>1, <2>2
<1>2. CASE u # <<>> /\ ~s.infr
  <2>1. t = [s EXCEPT !.unacked = r, !.unsent = q, !.nrtx = n, !.ssthresh = h, !.cwnd = y, !.infr = TRUE]
    BY <1>2 DEF tcp_rexmit_fast
  <2>2. q = <<u[1]>> \o v /\ q \in Seq(Segments) /\ r \in Seq(Segments)
    <3>1. u \in Seq(Segments) /\ v \in Seq(Segments) /\ Tiled(u \o v, from, w, c)
      BY BlockQueues DEF Queue
    <3>2. r \in Seq(Segments)
      BY <1>2, <3>1, HeadTailProperties
    <3>3. /\ u \in Seq(Segments) /\ v \in Seq(Segments) /\ u # <<>> /\ from \in Nat /\ w \in 0 .. Units
          /\ c \in BOOLEAN /\ Tiled(u \o v, from, w, c)
      BY <1>2, <3>1
    <3> HIDE DEF u, v, h, n, y, q, r, t
    <3>4. BySeq(Rejoined(u, v)) = Rejoined(u, v) /\ Rejoined(u, v) \in Seq(Segments)
      BY ONLY <3>3, RejoinIs
    <3>5. QED
      BY <3>2, <3>4 DEF q, r, Rejoined
  <2>3. h \in Nat \ {0} /\ h <= TCP_WND /\ (h >= 2 * mss \/ h = TCP_WND)
    BY ThreshIs
  <2>4. n \in Nat
    <3>1. s.nrtx \in Nat
      BY DEF ControlBlock
    <3>2. QED
      BY <3>1, RetriedIs
  <2> HIDE DEF h, n, q, r
  <2>5. y \in Nat \ {0} /\ (y >= 5 * mss \/ y = TCP_WND)
    <3>1. h + 3 * mss \in Int /\ mss \in Nat /\ mss > 0 /\ TCP_WND \in Nat \ {0}
      BY <2>3, SegmentsConstants
    <3> DEFINE k == h + 3 * mss
    <3>2. y = IF k <= TCP_WND THEN k ELSE TCP_WND
      BY <3>1, CappedIs
    <3> HIDE DEF y
    <3>3. QED
      BY <2>3, <3>1, <3>2
  <2> HIDE DEF y, t
  <2>6. /\ t \in ControlBlock /\ t.unsent = q /\ t.unacked = r
        /\ t.snd_nxt = s.snd_nxt /\ t.lastack = s.lastack /\ t.snd_lbb = s.snd_lbb /\ t.snd_buf = s.snd_buf
        /\ t.snd_wnd = s.snd_wnd /\ t.snd_wl2 = s.snd_wl2 /\ t.running = s.running
        /\ t.closed = s.closed /\ t.dead = s.dead /\ t.infr = TRUE /\ t.cwnd = y
    BY <2>1, <2>2, <2>3, <2>4, <2>5 DEF ControlBlock
  <2>7. Recalled(t, u, v)
    BY <1>2, <2>2, <2>6 DEF Recalled, r
  <2>8. Recall(t, s)
    BY <2>5, <2>6, <2>7 DEF Recall
  <2>9. QED
    BY <2>8 DEF t
<1>3. QED
  BY <1>1, <1>2

LEMMA DupAckIs ==
    ASSUME NEW s \in ControlBlock, NEW a, NEW from \in Nat, NEW w \in 0 .. Units, NEW c \in BOOLEAN,
           Tiled(Queue(s), from, w, c)
    PROVE  Steady(DupAck(s, a), s) \/ Recall(DupAck(s, a), s)
<1> DEFINE d == Min({s.dupacks + 1, 4})
           t == [s EXCEPT !.dupacks = d]
           y == Capped(t.cwnd + mss)
           z == [s EXCEPT !.dupacks = 0]
           x == [t EXCEPT !.cwnd = y]
           C == /\ (s.snd_wl2 + s.snd_wnd - tcp.snd_wl2 - tcp.snd_wnd) % SeqSpace = 0
                /\ s.running /\ a.ack = s.lastack
<1>1. DupAck(s, a) = IF C THEN IF d > 3 THEN x ELSE IF d = 3 THEN tcp_rexmit_fast(t) ELSE t
                     ELSE z
  BY DEF DupAck
<1> HIDE DEF C
<1>2. d \in Nat
  <2>1. s.dupacks + 1 \in Nat
    BY DEF ControlBlock
  <2>2. d = IF s.dupacks + 1 <= 4 THEN s.dupacks + 1 ELSE 4
    BY <2>1, MinIs
  <2> HIDE DEF d
  <2>3. QED
    BY <2>1, <2>2
<1> HIDE DEF d
<1>3. Steady(t, s) /\ Steady(z, s) /\ t.cwnd \in Nat \ {0}
  BY <1>2 DEF Steady, ControlBlock
<1> HIDE DEF t, z
<1>4. t \in ControlBlock /\ Queue(t) = Queue(s)
  BY <1>3 DEF Steady, Queue
<1>5. y \in Nat \ {0}
  <2> DEFINE k == t.cwnd + mss
  <2>1. k \in Int /\ k > 0 /\ TCP_WND \in Nat \ {0}
    BY <1>3, SegmentsConstants
  <2> HIDE DEF k
  <2>2. y = IF k <= TCP_WND THEN k ELSE TCP_WND
    BY <2>1, CappedIs DEF k
  <2> HIDE DEF y
  <2>3. QED
    BY <2>1, <2>2
<1> HIDE DEF y
<1>6. Steady(x, t)
  BY <1>4, <1>5 DEF Steady, ControlBlock
<1> HIDE DEF x
<1>7. Steady(x, s)
  BY <1>3, <1>6 DEF Steady
<1>8. Steady(tcp_rexmit_fast(t), t) \/ Recall(tcp_rexmit_fast(t), t)
  BY <1>4, RexmitIs
<1> DEFINE o == tcp_rexmit_fast(t)
<1> HIDE DEF o
<1>9. (Steady(o, t) => Steady(o, s)) /\ (Recall(o, t) => Recall(o, s))
  BY <1>3 DEF Steady, Recall
<1>10. QED
  BY <1>1, <1>3, <1>7, <1>8, <1>9, Zenon DEF o

(* The oldest segment is sent again at once.                               *)
LEMMA RecallSends ==
    ASSUME NEW s \in ControlBlock, Room(s), NEW w \in 0 .. Units, NEW t, Recall(t, s), SenderFits(s, w)
    PROVE  Sends(t, w, Queue(s)) /\ Counts(t, w)
<1> DEFINE u == s.unacked
           v == s.unsent
           q == u \o v
           g == t.unsent[1]
           k == SentNow(t)
<1>1. /\ t \in ControlBlock /\ Recalled(t, u, v) /\ t.snd_nxt = s.snd_nxt /\ t.lastack = s.lastack
      /\ t.snd_lbb = s.snd_lbb /\ t.snd_buf = s.snd_buf
      /\ t.snd_wnd = s.snd_wnd /\ t.snd_wl2 = s.snd_wl2 /\ t.running = s.running
      /\ t.closed = s.closed /\ t.dead = s.dead
      /\ t.infr = TRUE /\ (t.cwnd >= 5 * mss \/ t.cwnd = TCP_WND)
  BY DEF Recall
<1>2. /\ Counts(s, w) /\ Tiled(q, At(s.lastack), w, s.closed)
      /\ \A i \in 1 .. Len(u) : WasSent(s, u[i])
      /\ u \in Seq(Segments) /\ v \in Seq(Segments)
      /\ At(s.lastack) \in Nat /\ s.closed \in BOOLEAN
  BY BlockQueues, BlockNumbers DEF SenderFits, Queue
<1>3. u # <<>> /\ t.unsent = <<u[1]>> \o v
  BY <1>1 DEF Recalled
<1>4. Counts(t, w)
  BY <1>1, <1>2 DEF Counts
<1>5. Tiled(q, At(t.lastack), w, t.closed) /\ \A i \in 1 .. Len(u) : WasSent(t, u[i])
  BY <1>1, <1>2 DEF WasSent
<1>6. /\ Len(t.unsent) = 1 + Len(v) /\ Len(v) \in Nat /\ g = u[1] /\ q[1] = u[1]
  <2> DEFINE from == At(s.lastack)
             c == s.closed
  <2>1. /\ u \in Seq(Segments) /\ v \in Seq(Segments) /\ u # <<>> /\ from \in Nat /\ w \in 0 .. Units
        /\ c \in BOOLEAN /\ Tiled(u \o v, from, w, c)
    BY <1>2, <1>3
  <2> HIDE DEF u, v, from, c
  <2>2. /\ Len(Rejoined(u, v)) = 1 + Len(v) /\ Len(v) \in Nat
        /\ Rejoined(u, v)[1] = u[1] /\ (u \o v)[1] = u[1]
    BY ONLY <2>1, RejoinIs
  <2>3. QED
    BY <1>3, <2>2 DEF Rejoined
<1>7. Len(u) \in Nat /\ 1 \in 1 .. Len(u) /\ 1 \in 1 .. Len(q)
  <2>1. Len(u) \in Nat /\ Len(u) # 0
    BY <1>2, <1>3, LenProperties, EmptySeq
  <2>2. Len(q) = Len(u) + Len(v)
    BY <1>2, JoinIs
  <2> DEFINE m == Len(u)
             n == Len(v)
             l == Len(q)
  <2>3. m \in Nat /\ m # 0 /\ n \in Nat /\ l = m + n
    BY <1>6, <2>1, <2>2
  <2> HIDE DEF m, n, l
  <2>4. m \in Nat /\ 1 \in 1 .. m /\ 1 \in 1 .. l
    BY <2>3
  <2>5. QED
    BY <2>4 DEF m, l
<1>8. Typed(g) /\ PieceOf(g, {}, w, s.closed) /\ At(s.lastack) < End(g) /\ WasSent(s, g)
  <2>1. g \in Segments
    BY <1>2, <1>6, <1>7, ElementOfSeq
  <2>2. q[1] = g
    BY <1>6
  <2>3. q \in Seq(Segments)
    BY <1>2, JoinIs
  <2> HIDE DEF q, g, u
  <2>4. At(s.lastack) < End(q[1]) /\ PieceOf(q[1], {}, w, s.closed)
    BY <1>2, <1>7, <2>3, TiledEnds DEF Tiled
  <2>5. WasSent(s, g)
    BY <1>2, <1>6, <1>7
  <2>6. QED
    BY <2>1, <2>2, <2>4, <2>5, SegmentTyped
<1> HIDE DEF g
<1>9. At(s.lastack) <= DataEnd(g) /\ DataEnd(g) <= Units /\ DataEnd(g) \in Nat
  <2> DEFINE a == At(s.lastack)
             d == DataEnd(g)
             e == End(g)
             b == IF g.fin THEN 1 ELSE 0
  <2>1. d \in Nat /\ e = d + b /\ b \in {0, 1} /\ a < e /\ a \in Nat /\ d <= w
    BY <1>2, <1>8, EndsAre DEF PieceOf
  <2>2. w <= Units /\ w \in Nat /\ Units \in Nat
    BY SegmentsConstants
  <2> HIDE DEF a, d, e, b
  <2>3. a <= d /\ d <= Units
    BY <2>1, <2>2
  <2>4. QED
    BY <2>1, <2>3 DEF a, d
<1>10. DataEnd(g) - At(s.lastack) <= 5 * mss
  <2>1. Reach(s, g) = DataEnd(g) - At(s.lastack)
    BY <1>8, <1>9, ReachIs
  <2>2. Reach(s, g) <= 5 * mss
    BY <1>3, <1>6 DEF Room
  <2>3. QED
    BY <2>1, <2>2
<1>11. /\ At(s.lastack) <= DataEnd(g) /\ DataEnd(g) <= Units
      /\ DataEnd(g) - At(s.lastack) <= s.snd_wnd /\ DataEnd(g) - At(s.lastack) <= t.cwnd
      /\ DataEnd(g) - At(s.lastack) \in Int
  <2> DEFINE a == At(s.lastack)
             d == DataEnd(g)
             e == End(g)
             b == IF g.fin THEN 1 ELSE 0
             x == s.snd_wnd
             y == t.cwnd
  <2>1. d \in Nat /\ e = d + b /\ b \in {0, 1} /\ a < e /\ a \in Nat /\ d <= w /\ d <= a + x
    BY <1>2, <1>8, EndsAre DEF PieceOf, WasSent
  <2>2. w <= a + TCP_SND_BUF /\ w <= Units /\ w \in Nat
    BY <1>2, SegmentsConstants DEF Counts
  <2>3. (y >= 5 * mss \/ y = TCP_WND) /\ x \in Nat /\ y \in Nat
    <3>1. x \in Nat /\ y \in Nat
      BY <1>1 DEF ControlBlock
    <3>2. QED
      BY <1>1, <3>1
  <2>4. /\ TCP_SND_BUF <= TCP_WND /\ TCP_SND_BUF \in Nat /\ mss \in Nat /\ TCP_WND \in Nat
        /\ d - a <= 5 * mss
    BY <1>10, SegmentsConstants
  <2> HIDE DEF a, d, e, b, x, y
  <2>5. a <= d /\ d <= Units
    <3>1. Units \in Nat
      BY SegmentsConstants
    <3>2. QED
      BY <2>1, <2>2, <3>1
  <2>6. d - a <= x /\ d - a \in Int /\ d - a <= TCP_SND_BUF
    BY <2>1, <2>2, <2>3, <2>4
  <2>7. d - a <= y
    BY <2>3, <2>4, <2>6
  <2>8. QED
    BY <2>5, <2>6, <2>7 DEF a, d, x, y
<1>12. MaySend(t, 1)
  <2>1. Reach(t, g) = DataEnd(g) - At(s.lastack)
    <3>1. At(t.lastack) = At(s.lastack)
      BY <1>1
    <3>2. At(t.lastack) <= DataEnd(g) /\ DataEnd(g) <= Units
      BY <1>11, <3>1
    <3>3. Reach(t, g) = DataEnd(g) - At(t.lastack)
      BY <1>1, <1>8, <3>2, ReachIs
    <3>4. QED
      BY <3>1, <3>3
  <2>2. t.snd_wnd \in Int /\ t.cwnd \in Int /\ t.snd_wnd = s.snd_wnd
    BY <1>1 DEF ControlBlock
  <2>3. Min({t.snd_wnd, t.cwnd}) = IF t.snd_wnd <= t.cwnd THEN t.snd_wnd ELSE t.cwnd
    BY <2>2, MinIs
  <2>4. Reach(t, g) <= Min({t.snd_wnd, t.cwnd})
    BY <1>11, <2>1, <2>2, <2>3
  <2>5. tcp_do_output_nagle(t, 1)
    BY <1>1 DEF tcp_do_output_nagle
  <2>6. QED
    BY <2>4, <2>5 DEF MaySend, g
<1>13. k > 0
  <2>1. k \in 0 .. Len(t.unsent) /\ (k < Len(t.unsent) => ~MaySend(t, k + 1))
    BY <1>1, SentIs
  <2> HIDE DEF k
  <2>2. k = 0 => k < Len(t.unsent) /\ k + 1 = 1
    BY <1>6
  <2>3. QED
    BY <1>6, <1>12, <2>1, <2>2
<1>14. Queue(s) = q
  BY DEF Queue
<1>15. Sends(t, w, q)
  <2>1. /\ t \in ControlBlock /\ u \in Seq(Segments) /\ v \in Seq(Segments) /\ Recalled(t, u, v)
        /\ Counts(t, w) /\ Tiled(u \o v, At(t.lastack), w, t.closed)
        /\ (\A i \in 1 .. Len(u) : WasSent(t, u[i])) /\ SentNow(t) > 0 /\ w \in 0 .. Units
    BY <1>1, <1>2, <1>4, <1>5, <1>13
  <2> HIDE DEF u, v
  <2>2. Sends(t, w, u \o v)
    BY ONLY <2>1, RecalledSends
  <2>3. QED
    BY <2>2
<1>16. QED
  BY <1>4, <1>14, <1>15
-----------------------------------------------------------------------------
(* What a window update leaves of what the sender knows.                   *)
LEMMA WindowedFits ==
    ASSUME NEW s \in ControlBlock, NEW r, NEW a, Windowed(r, s, a), NEW w \in 0 .. Units, SenderFits(s, w),
           a.ack \in Int, At(a.ack) <= At(s.lastack) \/ s.unacked = <<>>
    PROVE  SenderFits(r, w)
<1>1. /\ r \in ControlBlock /\ r.unsent = s.unsent /\ r.unacked = s.unacked /\ r.snd_nxt = s.snd_nxt
      /\ r.lastack = s.lastack /\ r.snd_lbb = s.snd_lbb /\ r.snd_buf = s.snd_buf
      /\ r.running = s.running /\ r.closed = s.closed
      /\ (At(a.ack) <= At(s.lastack) => s.snd_wnd <= r.snd_wnd)
  BY DEF Windowed
<1>2. Counts(r, w) /\ Queue(r) = Queue(s)
  BY <1>1 DEF SenderFits, Counts, Queue
<1>3. \A i \in 1 .. Len(s.unacked) : WasSent(r, s.unacked[i])
  <2> SUFFICES ASSUME NEW i \in 1 .. Len(s.unacked) PROVE WasSent(r, s.unacked[i])
    OBVIOUS
  <2> DEFINE g == s.unacked[i]
  <2>1. s.unacked # <<>> /\ s.unacked \in Seq(Segments) /\ g \in Segments
    <3>1. s.unacked \in Seq(Segments)
      BY BlockQueues
    <3>2. s.unacked # <<>>
      BY <3>1, EmptySeq
    <3>3. QED
      BY <3>1, <3>2, ElementOfSeq
  <2>2. WasSent(s, g) /\ DataEnd(g) \in Nat
    BY <2>1, SegmentTyped, EndsAre DEF SenderFits
  <2> HIDE DEF g
  <2>3. s.snd_wnd <= r.snd_wnd /\ s.snd_wnd \in Nat /\ r.snd_wnd \in Nat /\ At(s.lastack) \in Nat
    BY <1>1, <2>1, BlockNumbers
  <2>4. DataEnd(g) <= At(s.lastack) + s.snd_wnd
    BY <2>2 DEF WasSent
  <2> DEFINE d == DataEnd(g)
             l == At(s.lastack)
             v == s.snd_wnd
             y == r.snd_wnd
  <2>5. d <= l + v /\ v <= y /\ d \in Nat /\ l \in Nat /\ v \in Nat /\ y \in Nat
    BY <2>2, <2>3, <2>4
  <2> HIDE DEF d, l, v, y
  <2>6. d <= l + y
    BY <2>5
  <2>7. DataEnd(g) <= At(s.lastack) + r.snd_wnd
    BY <2>6 DEF d, l, y
  <2>8. QED
    BY <1>1, <2>2, <2>7 DEF WasSent, g
<1>4. Tiled(Queue(r), At(r.lastack), w, r.closed) /\ (r.unacked # <<>> => r.running)
  BY <1>1, <1>2 DEF SenderFits
<1>5. QED
  BY <1>1, <1>2, <1>3, <1>4, Zenon DEF SenderFits

LEMMA WindowedAround ==
    ASSUME NEW s \in ControlBlock, NEW r, NEW a, Windowed(r, s, a), NEW w, NEW p, NEW q, NEW fs,
           NEW x, NEW e, NEW n, Around(s, w, p, q, fs, x, e, n), WindowFits(r, p, q)
    PROVE  Around(r, w, p, q, fs, x, e, n)
<1>1. /\ r \in ControlBlock /\ r.unacked = s.unacked /\ r.snd_nxt = s.snd_nxt
      /\ r.lastack = s.lastack /\ r.closed = s.closed /\ r.dead = s.dead
  BY DEF Windowed
<1>2. /\ FramesFit(fs, s, w) /\ Taken(p, x, e, s, w) /\ Told(s, w, n)
  BY DEF Around
<1>3. \A k : Follows(k, s) => Follows(k, r)
  BY <1>1 DEF Follows
<1>4. FramesFit(fs, r, w)
  BY <1>1, <1>2, <1>3 DEF FramesFit
<1>5. Taken(p, x, e, r, w)
  BY <1>1, <1>2, <1>3 DEF Taken
<1>6. Told(r, w, n)
  BY <1>1, <1>2 DEF Told
<1>7. QED
  BY <1>1, <1>4, <1>5, <1>6 DEF Around

(* What a duplicate leaves.                                                *)
LEMMA SteadySends ==
    ASSUME NEW s \in ControlBlock, NEW t, Steady(t, s), NEW w \in 0 .. Units, SenderFits(s, w)
    PROVE  Sends(t, w, Queue(s)) /\ Alike(t, s) /\ t.unsent = s.unsent
<1>1. /\ t \in ControlBlock /\ t.unsent = s.unsent /\ t.unacked = s.unacked
      /\ t.snd_nxt = s.snd_nxt /\ t.lastack = s.lastack /\ t.snd_lbb = s.snd_lbb /\ t.snd_buf = s.snd_buf
      /\ t.snd_wnd = s.snd_wnd /\ t.snd_wl2 = s.snd_wl2 /\ t.running = s.running
      /\ t.closed = s.closed /\ t.dead = s.dead
  BY DEF Steady
<1>2. Queue(t) = Queue(s) /\ (\A g : WasSent(s, g) <=> WasSent(t, g))
      /\ (Counts(s, w) => Counts(t, w))
  BY <1>1 DEF Queue, WasSent, Counts
<1>3. SenderFits(t, w)
  BY <1>1, <1>2 DEF SenderFits
<1>4. Sends(t, w, Queue(t))
  BY <1>1, <1>3, StraightSends
<1>5. QED
  BY <1>1, <1>2, <1>4 DEF Alike

(* Nothing of what waits is acknowledged by what is not new.               *)
LEMMA DupAckKeeps ==
    ASSUME NEW s \in ControlBlock, Room(s), NEW a, NEW w \in 0 .. Units, SenderFits(s, w),
           a.ack \in Int, At(a.ack) <= At(s.lastack)
    PROVE  LET t == DupAck(s, a)
           IN /\ Sends(t, w, Queue(s)) /\ Alike(t, s) /\ DropUnsent(t, a) = t /\ t \in ControlBlock
<1> DEFINE t == DupAck(s, a)
           q == Queue(s)
           l == At(s.lastack)
           c == s.closed
<1>1. /\ Tiled(q, l, w, c) /\ l \in Nat /\ c \in BOOLEAN
      /\ q \in Seq(Segments) /\ s.unacked \in Seq(Segments) /\ s.unsent \in Seq(Segments)
  BY BlockQueues, BlockNumbers, JoinIs DEF SenderFits, Queue
<1>2. Steady(t, s) \/ Recall(t, s)
  BY <1>1, DupAckIs
<1>3. \A i \in 1 .. Len(q) : l < End(q[i]) /\ End(q[i]) <= Units + 1
  <2>1. \A i \in 1 .. Len(q) : l < End(q[i])
    BY <1>1, TiledEnds
  <2>2. \A i \in 1 .. Len(q) : Lies(q[i], w, c)
    BY <1>1, TiledLies
  <2>3. QED
    BY <2>1, <2>2 DEF Lies
<1>4. Sends(t, w, q) /\ Alike(t, s) /\ t \in ControlBlock /\ t.snd_nxt = s.snd_nxt
  <2>1. CASE Steady(t, s)
    BY <2>1, SteadySends DEF Steady
  <2>2. CASE Recall(t, s)
    <3>1. Sends(t, w, q)
      BY <2>2, RecallSends
    <3>2. Alike(t, s) /\ t \in ControlBlock /\ t.snd_nxt = s.snd_nxt
      BY <2>2 DEF Recall, Recalled, Alike
    <3>3. QED
      BY <3>1, <3>2
  <2>3. QED
    BY <1>2, <2>1, <2>2
<1>5. \A i \in 1 .. Len(t.unsent) : \E j \in 1 .. Len(q) : t.unsent[i] = q[j]
  <2>1. CASE Steady(t, s)
    <3>1. t.unsent = s.unsent
      BY <2>1 DEF Steady
    <3>2. \A i \in 1 .. Len(s.unsent) : Len(s.unacked) + i \in 1 .. Len(q) /\ q[Len(s.unacked) + i] = s.unsent[i]
      <4> DEFINE m == Len(s.unacked)
                 n == Len(s.unsent)
                 z == Len(q)
      <4>1. m \in Nat /\ n \in Nat /\ z = m + n /\ \A i \in 1 .. n : q[m + i] = s.unsent[i]
        BY <1>1, JoinIs DEF Queue
      <4> HIDE DEF m, n, z
      <4>2. \A i \in 1 .. n : m + i \in 1 .. z /\ q[m + i] = s.unsent[i]
        BY <4>1
      <4>3. QED
        BY <4>2 DEF m, n, z
    <3>3. QED
      BY <3>1, <3>2
  <2>2. CASE Recall(t, s)
    <3>1. t.unsent = Rejoined(s.unacked, s.unsent) /\ s.unacked # <<>>
      BY <2>2 DEF Recall, Recalled, Rejoined
    <3>2. Tiled(s.unacked \o s.unsent, l, w, c)
      BY <1>1 DEF Queue
    <3> DEFINE u == s.unacked
               v == s.unsent
    <3> HIDE DEF t, l, c
    <3>3. /\ u \in Seq(Segments) /\ v \in Seq(Segments) /\ u # <<>> /\ l \in Nat /\ w \in 0 .. Units
          /\ c \in BOOLEAN /\ Tiled(u \o v, l, w, c)
      BY <1>1, <3>1, <3>2
    <3> HIDE DEF u, v
    <3>5. \A i \in 1 .. Len(Rejoined(u, v)) : \E j \in 1 .. Len(u \o v) : Rejoined(u, v)[i] = (u \o v)[j]
      BY ONLY <3>3, RejoinIs
    <3>4. QED
      BY <3>1, <3>5 DEF Queue, u, v
  <2>3. QED
    BY <1>2, <2>1, <2>2
<1>6. \A i \in 1 .. Len(t.unsent) : l < End(t.unsent[i]) /\ End(t.unsent[i]) <= Units + 1
  BY <1>3, <1>5
<1>7. /\ At(a.ack) \in Nat /\ At(a.ack) <= Units + 1 /\ At(s.snd_nxt) <= Units + 1
      /\ \A i \in 1 .. Len(t.unsent) : At(a.ack) < End(t.unsent[i])
  <2>1. l <= At(s.snd_nxt) /\ At(s.snd_nxt) <= Edge(w, c)
    BY DEF SenderFits, Counts
  <2>2. Edge(w, c) \in Nat /\ Edge(w, c) <= Units + 1
    BY <1>1, EdgeIs
  <2> DEFINE n == At(s.snd_nxt)
             x == At(a.ack)
             e == Edge(w, c)
  <2>3. n \in Nat /\ x \in Nat /\ l <= n /\ n <= e /\ e \in Nat /\ e <= Units + 1 /\ x <= l
    BY <2>1, <2>2, BlockNumbers, AtTyped
  <2>31. Units \in Nat
    BY SegmentsConstants
  <2> HIDE DEF n, x, e, l, t
  <2>4. x <= Units + 1 /\ n <= Units + 1
    BY <1>1, <2>3, <2>31
  <2>5. \A i \in 1 .. Len(t.unsent) : x < End(t.unsent[i])
    <3> SUFFICES ASSUME NEW i \in 1 .. Len(t.unsent) PROVE x < End(t.unsent[i])
      OBVIOUS
    <3> DEFINE f == End(t.unsent[i])
    <3>1. l < f /\ f \in Nat
      <4>1. PICK j \in 1 .. Len(q) : t.unsent[i] = q[j]
        BY <1>5
      <4>2. Typed(q[j])
        BY <1>1, ElementOfSeq, SegmentTyped
      <4>3. QED
        BY <1>6, <4>1, <4>2, EndsAre
    <3> HIDE DEF f
    <3>2. x < f
      BY <1>1, <2>3, <3>1
    <3>3. QED
      BY <3>2 DEF f
  <2>6. QED
    BY <2>3, <2>4, <2>5 DEF x, n
<1>8. DropUnsent(t, a) = t
  <2>1. At(t.snd_nxt) <= Units + 1
    BY <1>4, <1>7
  <2> HIDE DEF t
  <2>2. QED
    BY <1>4, <1>6, <1>7, <2>1, DropNothing
<1>9. QED
  BY <1>4, <1>8
-----------------------------------------------------------------------------
(* Which acknowledgements are of something new.                            *)
LEMMA NewIs ==
    ASSUME NEW s \in ControlBlock, NEW a, a.ack \in Int, At(a.ack) <= Units + 1,
           At(s.lastack) <= Units + 1, At(s.snd_nxt) <= Units + 1
    PROVE  /\ IsNew(s, a) <=> At(s.lastack) < At(a.ack) /\ At(a.ack) <= At(s.snd_nxt)
           /\ SeqLeq(a.ack, s.lastack) <=> At(a.ack) <= At(s.lastack)
           /\ At(s.lastack) < At(a.ack) => Ahead(a.ack, s.lastack) = At(a.ack) - At(s.lastack)
<1> DEFINE x == a.ack
           y == s.lastack
           z == s.snd_nxt
           o == (y + 1) % SeqSpace
           A == At(x)
           L == At(y)
           N == At(z)
           O == At(o)
<1>1. /\ x \in Int /\ y \in Int /\ z \in Int /\ A \in Nat /\ L \in Nat /\ N \in Nat
      /\ A <= Units + 1 /\ L <= Units + 1 /\ N <= Units + 1
  BY BlockNumbers, AtTyped
<1>2. Units \in Nat /\ Limit \in Nat /\ Limit > Units + 2 /\ SeqSpace \in Nat /\ SeqSpace > 2 * Limit
  BY SegmentsConstants
<1>3. O = L + 1 /\ o \in Int
  <2>1. L + 1 \in Number
    BY <1>1, <1>2 DEF Number
  <2>2. At((y + 1) % SeqSpace) = At(y) + 1
    BY <1>1, <2>1, AtPlus
  <2>3. o \in Number
    BY <1>1, AtTyped
  <2>4. QED
    BY <1>2, <2>2, <2>3 DEF Number
<1>4. IsNew(s, a) <=> SeqLeq(o, x) /\ SeqLeq(x, z)
  BY DEF IsNew, SeqBetween
<1>5. Ahead(x, y) = IF L <= A THEN A - L ELSE A - L + SeqSpace
  BY <1>1, AheadIs
<1> HIDE DEF x, y, z, o
<1>6. /\ O - A <= Limit - 1 /\ A - O <= Limit /\ A - N <= Limit - 1 /\ N - A <= Limit
      /\ A - L <= Limit - 1 /\ L - A <= Limit
  <2> HIDE DEF A, L, N, O
  <2>1. QED
    BY <1>1, <1>2, <1>3
<1>7. (SeqLeq(o, x) <=> O <= A) /\ (SeqLeq(x, z) <=> A <= N) /\ (SeqLeq(x, y) <=> A <= L)
  BY <1>1, <1>3, <1>6, SeqLeqIs
<1> HIDE DEF A, L, N, O
<1>8. O <= A <=> L < A
  BY <1>1, <1>3
<1>9. IsNew(s, a) <=> L < A /\ A <= N
  BY <1>4, <1>7, <1>8
<1>10. L < A => Ahead(x, y) = A - L
  BY <1>1, <1>5
<1>11. QED
  BY <1>7, <1>9, <1>10 DEF x, y, z, A, L, N

LEMMA CountsNumbers ==
    ASSUME NEW s \in ControlBlock, NEW w \in 0 .. Units, Counts(s, w)
    PROVE  /\ At(s.lastack) <= At(s.snd_nxt) /\ At(s.snd_nxt) <= Edge(w, s.closed)
           /\ At(s.lastack) <= Units + 1 /\ At(s.snd_nxt) <= Units + 1
           /\ At(s.lastack) \in Nat /\ At(s.snd_nxt) \in Nat /\ Edge(w, s.closed) \in Nat
<1> DEFINE L == At(s.lastack)
           N == At(s.snd_nxt)
           E == Edge(w, s.closed)
<1>1. L \in Nat /\ N \in Nat /\ E \in Nat /\ E <= Units + 1 /\ Units \in Nat
  BY BlockNumbers, EdgeIs, SegmentsConstants
<1>2. L <= N /\ N <= E
  BY DEF Counts
<1> HIDE DEF L, N, E
<1>3. L <= Units + 1 /\ N <= Units + 1
  BY <1>1, <1>2
<1>4. QED
  BY <1>1, <1>2, <1>3 DEF L, N, E

(* An acknowledgement of what is known already, or of a probe that was one *)
(* ahead of what was sent.                                                 *)
LEMMA OldAck ==
    ASSUME NEW s, Room(s), NEW a, NEW p, NEW q, Heard(a, s, p, q), NEW w \in 0 .. Units,
           SenderFits(s, w), NEW fs, NEW x, NEW e, NEW n, Around(s, w, p, q, fs, x, e, n),
           \/ At(a.ack) <= At(s.lastack)
           \/ At(s.snd_nxt) < At(a.ack) /\ s.unacked = <<>>
    PROVE  LET t == DropUnsent(Acked(UpdateWindow(s, a), a), a)
           IN /\ Around(t, w, p, q, fs, x, e, n) /\ (\E z : Sends(t, w, z))
              /\ ~IsNew(s, a)
<1> DEFINE r == UpdateWindow(s, a)
<1>1. /\ Windowed(r, s, a) /\ WindowFits(r, p, q) /\ s \in ControlBlock
      /\ a.ack \in Int /\ At(a.ack) \in Nat /\ At(a.ack) <= Units + 1
  BY HeardIs, UpdateWindowIs DEF Heard
<1> HIDE DEF r
<1>2. /\ r \in ControlBlock /\ r.lastack = s.lastack /\ r.snd_nxt = s.snd_nxt /\ r.unacked = s.unacked
      /\ r.unsent = s.unsent
  BY <1>1 DEF Windowed
<1>3. SenderFits(r, w) /\ Around(r, w, p, q, fs, x, e, n)
  BY <1>1, WindowedFits, WindowedAround
<1>4. Room(r)
  BY <1>2 DEF Room, Reach
<1>5. /\ At(r.lastack) <= At(r.snd_nxt)
      /\ At(r.lastack) <= Units + 1 /\ At(r.snd_nxt) <= Units + 1
      /\ At(r.lastack) \in Nat /\ At(r.snd_nxt) \in Nat
  BY <1>2, <1>3, CountsNumbers DEF SenderFits
<1>6. /\ IsNew(r, a) <=> At(r.lastack) < At(a.ack) /\ At(a.ack) <= At(r.snd_nxt)
      /\ IsNew(r, a) <=> IsNew(s, a)
      /\ SeqLeq(a.ack, r.lastack) <=> At(a.ack) <= At(r.lastack)
  <2>1. IsNew(r, a) <=> IsNew(s, a)
    BY <1>2 DEF IsNew
  <2>2. QED
    BY <1>1, <1>2, <1>5, <2>1, NewIs
<1> DEFINE A == At(a.ack)
           L == At(r.lastack)
           N == At(r.snd_nxt)
<1>7. A \in Nat /\ L \in Nat /\ N \in Nat /\ L <= N /\ (A <= L \/ N < A)
  BY <1>1, <1>2, <1>5
<1>8. ~(L < A /\ A <= N) /\ (~(A <= L) => N < A)
  <2> HIDE DEF A, L, N
  <2>1. QED
    BY <1>7
<1>9. ~IsNew(s, a) /\ ~IsNew(r, a)
  BY <1>6, <1>8
<1>10. CASE At(a.ack) <= At(r.lastack)
  <2> DEFINE t == DupAck(r, a)
  <2>1. Acked(r, a) = t
    BY <1>6, <1>10 DEF Acked
  <2>2. /\ Sends(t, w, Queue(r)) /\ Alike(t, r) /\ DropUnsent(t, a) = t /\ t \in ControlBlock
    BY <1>1, <1>2, <1>3, <1>10, <1>4, DupAckKeeps
  <2> HIDE DEF t
  <2>3. Around(t, w, p, q, fs, x, e, n)
    BY <1>3, <2>2, AlikeAround
  <2>4. DropUnsent(Acked(r, a), a) = t
    BY <2>1, <2>2
  <2>5. QED
    BY <1>9, <2>2, <2>3, <2>4 DEF r
<1>11. CASE ~(At(a.ack) <= At(r.lastack))
  <2>1. N < A /\ s.unacked = <<>>
    BY <1>2, <1>8, <1>11
  <2>2. Acked(r, a) = r
    BY <1>6, <1>9, <1>11 DEF Acked
  <2>3. \A i \in 1 .. Len(r.unsent) : End(r.unsent[i]) <= Units + 1
    <3> DEFINE z == Queue(r)
    <3>1. z = r.unacked \o r.unsent /\ r.unacked = <<>> /\ r.unsent \in Seq(Segments)
      BY <1>2, <2>1, BlockQueues DEF Queue
    <3>2. z = r.unsent
      BY <3>1
    <3>3. Tiled(z, L, w, r.closed) /\ r.closed \in BOOLEAN
      BY <1>2, <1>3, BlockNumbers DEF SenderFits
    <3>4. z \in Seq(Segments)
      BY <3>1, <3>2
    <3> HIDE DEF z, L
    <3>5. \A i \in 1 .. Len(z) : Lies(z[i], w, r.closed)
      BY <1>7, <3>3, <3>4, TiledLies
    <3>6. QED
      BY <3>2, <3>5 DEF Lies
  <2>4. DropUnsent(r, a) = r
    BY <1>1, <1>2, <1>5, <2>1, <2>3, DropNothing
  <2>5. Sends(r, w, Queue(r))
    BY <1>2, <1>3, StraightSends
  <2>6. QED
    BY <1>3, <1>9, <2>2, <2>4, <2>5 DEF r
<1>12. QED
  BY <1>10, <1>11
-----------------------------------------------------------------------------
(* What a new acknowledgement leaves of the control block.                 *)
LEMMA GrownIs ==
    ASSUME NEW s, s.cwnd \in Nat \ {0}, s.ssthresh \in Nat
    PROVE  Grown(s) \in Nat \ {0}
<1> DEFINE c == s.cwnd
           m == mss * mss
           k == m \div c
           x == IF c < s.ssthresh THEN c + mss ELSE c + k
<1>1. c \in Nat \ {0} /\ mss \in Nat /\ m \in Nat /\ s.ssthresh \in Nat
  BY SegmentsConstants
<1>2. k \in Nat
  <2> HIDE DEF m, c
  <2>1. QED
    BY <1>1
<1> HIDE DEF c, k
<1>3. x \in Nat \ {0}
  BY <1>1, <1>2
<1>4. Grown(s) = Capped(x)
  BY DEF Grown, c, k
<1> HIDE DEF x
<1>5. Capped(x) = IF x <= TCP_WND THEN x ELSE TCP_WND
  BY <1>3, CappedIs
<1>6. QED
  BY <1>3, <1>4, <1>5, SegmentsConstants

Newer(t, s, a, u, v) ==
    /\ t \in ControlBlock /\ t.unsent = v /\ t.unacked = u
    /\ t.snd_nxt = s.snd_nxt /\ t.lastack = a.ack /\ t.snd_lbb = s.snd_lbb
    /\ t.snd_buf = s.snd_buf + Ahead(a.ack, s.lastack)
    /\ t.snd_wnd = s.snd_wnd /\ t.snd_wl2 = s.snd_wl2 /\ t.running = (u # <<>>)
    /\ t.closed = s.closed /\ t.dead = s.dead

LEMMA NewAckIs ==
    ASSUME NEW s \in ControlBlock, NEW a, a.ack \in Number,
           Unacknowledged(s.unacked, a.ack) \in Seq(Segments)
    PROVE  Newer(NewAck(s, a), s, a, Unacknowledged(s.unacked, a.ack), s.unsent)
<1> DEFINE x == IF s.infr THEN s.ssthresh ELSE s.cwnd
           y == [s EXCEPT !.cwnd = x, !.infr = FALSE]
           g == Grown(y)
           k == Ahead(a.ack, s.lastack)
           b == s.snd_buf + k
           u == Unacknowledged(s.unacked, a.ack)
           o == u # <<>>
           t == [y EXCEPT !.nrtx = 0, !.snd_buf = b, !.dupacks = 0, !.lastack = a.ack,
                          !.cwnd = g, !.unacked = u, !.running = o]
<1>1. x \in Nat \ {0} /\ s.snd_buf \in Int
  BY DEF ControlBlock
<1>2. /\ y \in ControlBlock /\ y.snd_buf = s.snd_buf /\ y.unsent = s.unsent /\ y.snd_nxt = s.snd_nxt
      /\ y.snd_lbb = s.snd_lbb /\ y.snd_wnd = s.snd_wnd /\ y.snd_wl2 = s.snd_wl2
      /\ y.closed = s.closed /\ y.dead = s.dead /\ y.unacked = s.unacked
  <2> HIDE DEF x
  <2>1. QED
    BY <1>1 DEF ControlBlock
<1>3. NewAck(s, a) = t
  <2>1. NewAck(s, a) = [y EXCEPT !.nrtx = 0, !.snd_buf = @ + k, !.dupacks = 0,
               !.lastack = a.ack, !.cwnd = g, !.unacked = u, !.running = o]
    BY Zenon DEF NewAck
  <2> HIDE DEF y, k, g, u, o
  <2>2. QED
    BY <1>2, <2>1 DEF ControlBlock
<1> HIDE DEF y
<1>4. g \in Nat \ {0}
  <2>1. y.cwnd \in Nat \ {0} /\ y.ssthresh \in Nat
    BY <1>2 DEF ControlBlock
  <2>2. QED
    BY <2>1, GrownIs
<1>5. b \in Int
  <2>1. a.ack \in Int /\ s.lastack \in Int /\ SeqSpace \in Nat \ {0}
    BY BlockNumbers, SegmentsConstants DEF Number
  <2>2. a.ack - s.lastack \in Int
    BY <2>1
  <2>3. k \in Int
    BY <2>1, <2>2, IntEuclid DEF Ahead
  <2> HIDE DEF k
  <2>4. QED
    BY <1>1, <2>3
<1>6. u \in Seq(Segments) /\ o \in BOOLEAN
  OBVIOUS
<1> HIDE DEF b, g, u, o
<1>7. /\ t \in ControlBlock /\ t.unsent = y.unsent /\ t.unacked = u
      /\ t.snd_nxt = y.snd_nxt /\ t.lastack = a.ack /\ t.snd_lbb = y.snd_lbb
      /\ t.snd_buf = b /\ t.snd_wnd = y.snd_wnd /\ t.snd_wl2 = y.snd_wl2 /\ t.running = o
      /\ t.closed = y.closed /\ t.dead = y.dead
  BY <1>2, <1>4, <1>5, <1>6, ZenonT(60) DEF ControlBlock
<1> HIDE DEF t
<1>8. QED
  BY <1>2, <1>3, <1>7 DEF Newer, b, u, o

LEMMA UnacknowledgedIs ==
    ASSUME NEW q \in Seq(Segments), NEW x \in Int, At(x) <= Units + 1,
           \A i \in 1 .. Len(q) : End(q[i]) <= Units + 1
    PROVE  \E d \in 0 .. Len(q) :
             /\ Unacknowledged(q, x) = SubSeq(q, d + 1, Len(q))
             /\ \A i \in 1 .. d : End(q[i]) <= At(x)
             /\ d < Len(q) => At(x) < End(q[d + 1])
<1> DEFINE P == {i \in 1 .. Len(q) : SeqLeq(SeqEnd(q[i]), x)}
<1>1. P \subseteq 1 .. Len(q) /\ Unacknowledged(q, x) = Behind(q, P)
  BY DEF Unacknowledged
<1>2. \A i \in 1 .. Len(q) : /\ i \in P <=> End(q[i]) <= At(x)
                             /\ End(q[i]) \in Nat
  <2> SUFFICES ASSUME NEW i \in 1 .. Len(q)
               PROVE (i \in P <=> End(q[i]) <= At(x)) /\ End(q[i]) \in Nat
    OBVIOUS
  <2>1. Typed(q[i]) /\ End(q[i]) <= Units + 1
    BY ElementOfSeq, SegmentTyped
  <2>2. SeqLeq(SeqEnd(q[i]), x) <=> End(q[i]) <= At(x)
    BY <2>1, DoneIs
  <2>3. QED
    BY <2>1, <2>2, EndsAre
<1> HIDE DEF P
<1>3. PICK d \in 0 .. Len(q) : /\ Behind(q, P) = SubSeq(q, d + 1, Len(q))
                               /\ \A i \in 1 .. d : i \in P
                               /\ d < Len(q) => d + 1 \notin P
  BY <1>1, BehindIs
<1>4. Len(q) \in Nat /\ At(x) \in Nat
  BY LenProperties, AtTyped
<1>5. \A i \in 1 .. d : End(q[i]) <= At(x)
  BY <1>1, <1>2, <1>3
<1>6. d < Len(q) => At(x) < End(q[d + 1])
  <2> HAVE d < Len(q)
  <2>1. d + 1 \in 1 .. Len(q)
    BY <1>3, <1>4
  <2>2. ~(End(q[d + 1]) <= At(x)) /\ End(q[d + 1]) \in Nat
    BY <1>2, <1>3, <2>1
  <2> DEFINE k == End(q[d + 1])
             m == At(x)
  <2>3. ~(k <= m) /\ k \in Nat /\ m \in Nat
    BY <1>4, <2>2
  <2> HIDE DEF k, m
  <2>4. m < k
    BY <2>3
  <2>5. QED
    BY <2>4 DEF k, m
<1>7. QED
  BY <1>1, <1>3, <1>5, <1>6
-----------------------------------------------------------------------------
(* What an acknowledgement leaves of the two queues is what it leaves of   *)
(* the one they are.                                                       *)
Left(q, d) == SubSeq(q, d + 1, Len(q))

LEMMA LeftIs ==
    ASSUME NEW q \in Seq(Segments), NEW d \in 0 .. Len(q)
    PROVE  /\ Left(q, d) \in Seq(Segments) /\ Len(Left(q, d)) = Len(q) - d /\ Len(q) \in Nat
           /\ \A i \in 1 .. Len(q) - d : Left(q, d)[i] = q[d + i] /\ d + i \in 1 .. Len(q)
<1> DEFINE r == SubSeq(q, d + 1, Len(q))
           n == Len(q)
<1>1. n \in Nat /\ d \in Nat /\ d <= n
  BY LenProperties
<1>2. /\ r \in Seq(Segments) /\ Len(r) = (IF d + 1 <= n THEN n - (d + 1) + 1 ELSE 0)
      /\ \A i \in 1 .. n - (d + 1) + 1 : r[i] = q[d + 1 + i - 1]
  <2>1. d + 1 \in Int /\ n \in Int /\ \A i \in d + 1 .. n : q[i] \in Segments
    BY <1>1, ElementOfSeq
  <2>2. QED
    BY <2>1, SubSeqProperties
<1>3. Len(r) = n - d /\ \A i \in 1 .. n - d : r[i] = q[d + i] /\ d + i \in 1 .. n
  <2>1. n - (d + 1) + 1 = n - d /\ \A i \in 1 .. n - d : d + 1 + i - 1 = d + i /\ d + i \in 1 .. n
    BY <1>1
  <2> HIDE DEF r, n
  <2>2. Len(r) = n - d
    BY <1>1, <1>2
  <2>3. QED
    BY <1>2, <2>1, <2>2
<1>4. QED
  BY <1>1, <1>2, <1>3 DEF Left

LEMMA LeftJoin ==
    ASSUME NEW u \in Seq(Segments), NEW v \in Seq(Segments), NEW d \in 0 .. Len(u), NEW e \in 0 .. Len(v),
           d < Len(u) => e = 0
    PROVE  /\ Left(u, d) \o Left(v, e) = Left(u \o v, d + e)
           /\ d + e \in 0 .. Len(u \o v)
<1> DEFINE q == u \o v
           m == Len(u)
           n == Len(v)
           z == Len(q)
           k == d + e
           x == Left(u, d)
           y == Left(v, e)
           r == Left(q, k)
           t == x \o y
<1>1. /\ q \in Seq(Segments) /\ z = m + n /\ m \in Nat /\ n \in Nat
      /\ \A i \in 1 .. m : q[i] = u[i]
      /\ \A i \in 1 .. n : q[m + i] = v[i]
  BY JoinIs
<1>2. d \in Nat /\ e \in Nat /\ d <= m /\ e <= n /\ k = d + e /\ (d < m => e = 0)
  BY <1>1
<1>3. /\ x \in Seq(Segments) /\ Len(x) = m - d /\ y \in Seq(Segments) /\ Len(y) = n - e
      /\ \A i \in 1 .. m - d : x[i] = u[d + i] /\ d + i \in 1 .. m
      /\ \A i \in 1 .. n - e : y[i] = v[e + i] /\ e + i \in 1 .. n
  BY LeftIs
<1> HIDE DEF q, x, y, z, m, n, k
<1>4. k \in 0 .. z /\ k \in Nat /\ z \in Nat
  BY <1>1, <1>2
<1>5. /\ r \in Seq(Segments) /\ Len(r) = z - k
      /\ \A i \in 1 .. z - k : r[i] = q[k + i]
  BY <1>1, <1>4, LeftIs DEF z
<1>6. /\ t \in Seq(Segments) /\ Len(t) = Len(x) + Len(y)
      /\ \A i \in 1 .. Len(x) + Len(y) : t[i] = IF i <= Len(x) THEN x[i] ELSE y[i - Len(x)]
  BY <1>3, ConcatProperties
<1> HIDE DEF r, t
<1>7. Len(t) = Len(r)
  <2>1. Len(t) = (m - d) + (n - e) /\ Len(r) = (m + n) - (d + e)
    BY <1>1, <1>2, <1>3, <1>5, <1>6
  <2>2. (m - d) + (n - e) = (m + n) - (d + e)
    BY <1>1, <1>2
  <2>3. QED
    BY <2>1, <2>2
<1>8. \A i \in 1 .. Len(t) : t[i] = r[i]
  <2> SUFFICES ASSUME NEW i \in 1 .. Len(t) PROVE t[i] = r[i]
    OBVIOUS
  <2>0. i \in 1 .. (m - d) + (n - e) /\ i \in Nat
    BY <1>1, <1>2, <1>3, <1>6
  <2>1. CASE i <= m - d
    <3>1. i \in 1 .. m - d /\ e = 0 /\ k + i = d + i /\ i \in 1 .. z - k
      BY <1>1, <1>2, <2>0, <2>1
    <3>2. t[i] = x[i]
      BY <1>3, <1>6, <2>0, <2>1
    <3>3. t[i] = u[d + i] /\ d + i \in 1 .. m
      BY <1>3, <3>1, <3>2
    <3>4. r[i] = q[d + i]
      BY <1>5, <3>1
    <3>5. QED
      BY <1>1, <3>3, <3>4
  <2>2. CASE ~(i <= m - d)
    <3> DEFINE j == i - (m - d)
    <3>1. /\ j \in 1 .. n - e /\ e + j \in Nat /\ k + i = m + (e + j) /\ i \in 1 .. z - k
      BY <1>1, <1>2, <2>0, <2>2
    <3>2. t[i] = y[j]
      BY <1>3, <1>6, <2>0, <2>2
    <3> HIDE DEF j
    <3>3. t[i] = v[e + j] /\ e + j \in 1 .. n
      BY <1>3, <3>1, <3>2
    <3>4. r[i] = q[m + (e + j)]
      BY <1>5, <3>1
    <3>5. QED
      BY <1>1, <3>3, <3>4
  <2>3. QED
    BY <2>1, <2>2
<1>9. t = r
  BY <1>5, <1>6, <1>7, <1>8, SeqEqual
<1>10. QED
  BY <1>4, <1>9 DEF t, r, x, y, q, k, z

(* The two queues, as far as they are acknowledged to x.                   *)
Cut(q, d, x) == /\ \A i \in 1 .. d : End(q[i]) <= x
                /\ d < Len(q) => x < End(q[d + 1])

LEMMA QueuesCut ==
    ASSUME NEW u \in Seq(Segments), NEW v \in Seq(Segments), NEW d \in 0 .. Len(u), NEW e \in 0 .. Len(v),
           NEW from \in Nat, NEW w \in 0 .. Units, NEW c \in BOOLEAN, Tiled(u \o v, from, w, c),
           NEW x \in Nat, from <= x, x <= Edge(w, c), Cut(u, d, x), Cut(v, e, x)
    PROVE  Tiled(Left(u, d) \o Left(v, e), x, w, c)
<1> DEFINE q == u \o v
           m == Len(u)
           n == Len(v)
           z == Len(q)
           k == d + e
<1>1. /\ q \in Seq(Segments) /\ z = m + n /\ m \in Nat /\ n \in Nat
      /\ \A i \in 1 .. m : q[i] = u[i]
      /\ \A i \in 1 .. n : q[m + i] = v[i]
  BY JoinIs
<1>2. d \in Nat /\ e \in Nat /\ d <= m /\ e <= n /\ k = d + e
  BY <1>1
<1>3. Tiled(q, from, w, c)
  OBVIOUS
<1>4. InOrder(q) /\ \A i \in 1 .. z : End(q[i]) \in Nat /\ At(q[i].seq) \in Nat /\ At(q[i].seq) < End(q[i])
  <2>1. InOrder(q)
    BY <1>1, TiledInOrder
  <2>2. \A i \in 1 .. z : Typed(q[i]) /\ Lies(q[i], w, c)
    BY <1>1, TiledLies
  <2>3. QED
    BY <2>1, <2>2, EndsAre DEF Lies
<1> HIDE DEF q, m, n, z, k
<1>5. (\A i \in 1 .. d : End(u[i]) <= x) /\ (d < m => x < End(u[d + 1]))
      /\ (\A i \in 1 .. e : End(v[i]) <= x) /\ (e < n => x < End(v[e + 1]))
  BY DEF Cut, m, n
<1>6. d < m => e = 0
  <2> SUFFICES ASSUME d < m, e # 0 PROVE FALSE
    BY <1>2
  <2>1. d + 1 \in 1 .. m /\ d + 1 \in 1 .. z /\ 1 \in 1 .. e /\ 1 \in 1 .. n /\ m + 1 \in 1 .. z
        /\ d + 1 < m + 1
    BY <1>1, <1>2
  <2>2. q[d + 1] = u[d + 1] /\ q[m + 1] = v[1] /\ x < End(u[d + 1]) /\ End(v[1]) <= x
    BY <1>1, <1>5, <2>1
  <2>3. End(q[d + 1]) <= At(q[m + 1].seq) /\ At(q[m + 1].seq) < End(q[m + 1])
    BY <1>4, <2>1 DEF InOrder, z
  <2> DEFINE a == End(q[d + 1])
             b == At(q[m + 1].seq)
             f == End(q[m + 1])
  <2>4. a \in Nat /\ b \in Nat /\ f \in Nat /\ a <= b /\ b < f /\ x < a /\ f <= x
    BY <1>4, <2>1, <2>2, <2>3
  <2> HIDE DEF a, b, f
  <2>5. QED
    BY <2>4
<1>61. /\ m \in Nat /\ n \in Nat /\ z = m + n /\ d \in Nat /\ e \in Nat /\ d <= m /\ e <= n
       /\ k = d + e /\ (d < m => e = 0)
  BY <1>1, <1>2, <1>6
<1>7. Left(u, d) \o Left(v, e) = Left(q, k) /\ k \in 0 .. z
  BY <1>6, LeftJoin DEF q, m, k, z
<1>8. \A i \in 1 .. k : End(q[i]) <= x
  <2> SUFFICES ASSUME NEW i \in 1 .. k PROVE End(q[i]) <= x
    OBVIOUS
  <2>1. CASE i \in 1 .. d
    BY <1>1, <1>2, <1>5, <2>1
  <2>2. CASE i \notin 1 .. d
    <3> DEFINE j == i - m
    <3>1. d = m
      BY ONLY <1>61, i \in 1 .. k, <2>2
    <3>2. j \in 1 .. e /\ j \in 1 .. n /\ i = m + j
      BY <1>1, <1>2, <2>2, <3>1
    <3> HIDE DEF j
    <3>3. QED
      BY <1>1, <1>5, <3>2
  <2>3. QED
    BY <2>1, <2>2
<1>9. k < z => x < End(q[k + 1])
  <2> HAVE k < z
  <2>1. CASE d < m
    <3>1. d + 1 \in 1 .. m /\ k + 1 = d + 1
      BY ONLY <1>61, <2>1
    <3>2. QED
      BY <1>1, <1>5, <2>1, <3>1
  <2>2. CASE ~(d < m)
    <3>1. d = m /\ e < n /\ e + 1 \in 1 .. n /\ k + 1 = m + (e + 1)
      BY ONLY <1>61, <2>2, k < z
    <3>2. QED
      BY <1>1, <1>5, <3>1
  <2>3. QED
    BY <2>1, <2>2
<1>10. Tiled(SubSeq(q, k + 1, Len(q)), x, w, c)
  BY <1>1, <1>3, <1>7, <1>8, <1>9, TiledDrop DEF z
<1>11. QED
  BY <1>7, <1>10 DEF Left
-----------------------------------------------------------------------------
(* How many FINs a queue in one piece has.                                 *)
FinsOf(q) == {seg \in ToSet(q) : seg.fin}

LEMMA FinsAre ==
    ASSUME NEW q \in Seq(Segments), NEW from \in Nat, NEW w \in 0 .. Units, NEW c \in BOOLEAN,
           Tiled(q, from, w, c)
    PROVE  Cardinality(FinsOf(q)) = IF c /\ from < Edge(w, c) THEN 1 ELSE 0
<1>1. /\ from < Edge(w, c) <=> q # <<>>
      /\ \A i \in 1 .. Len(q) : q[i].fin <=> i = Len(q) /\ c
  BY TiledEnds
<1>2. ToSet(q) = {q[i] : i \in 1 .. Len(q)} /\ Len(q) \in Nat
  BY LenProperties DEF ToSet
<1>3. CASE c /\ q # <<>>
  <2>1. Len(q) \in 1 .. Len(q)
    BY <1>2, <1>3, EmptySeq
  <2>2. FinsOf(q) = {q[Len(q)]}
    <3>1. q[Len(q)] \in FinsOf(q)
      BY <1>1, <1>2, <1>3, <2>1 DEF FinsOf
    <3>2. \A g \in FinsOf(q) : g = q[Len(q)]
      BY <1>1, <1>2 DEF FinsOf
    <3>3. QED
      BY <3>1, <3>2
  <2>3. Cardinality({q[Len(q)]}) = 1
    BY FS_Singleton
  <2>4. QED
    BY <1>1, <1>3, <2>2, <2>3
<1>4. CASE ~(c /\ q # <<>>)
  <2>1. FinsOf(q) = {}
    <3>1. \A g \in FinsOf(q) : FALSE
      <4> SUFFICES ASSUME NEW g \in FinsOf(q) PROVE FALSE
        OBVIOUS
      <4>1. g \in ToSet(q) /\ g.fin
        BY DEF FinsOf
      <4>2. PICK i \in 1 .. Len(q) : g = q[i]
        BY <1>2, <4>1
      <4>3. c /\ i = Len(q)
        BY <1>1, <4>1, <4>2
      <4>4. q # <<>>
        BY <1>2, EmptySeq
      <4>5. QED
        BY <1>4, <4>3, <4>4
    <3>2. QED
      BY <3>1
  <2>2. Cardinality({}) = 0
    BY FS_EmptySet
  <2>3. QED
    BY <1>1, <1>4, <2>1, <2>2
<1>5. QED
  BY <1>3, <1>4

(* What the callback is told.                                              *)
LEMMA ToldIs ==
    ASSUME NEW s \in ControlBlock, NEW t \in ControlBlock, NEW a, a.ack \in Number, NEW w \in 0 .. Units,
           SenderFits(s, w), SenderFits(t, w), t.closed = s.closed, t.lastack = a.ack,
           At(s.lastack) < At(a.ack), At(a.ack) <= At(s.snd_nxt),
           NEW n \in Nat, Told(s, w, n)
    PROVE  AckedUnits(s, t, a) \in Nat /\ Told(t, w, n + AckedUnits(s, t, a))
<1> DEFINE L == At(s.lastack)
           A == At(a.ack)
           c == s.closed
           E == Edge(w, c)
           f == Cardinality(FinsOf(Queue(s)))
           g == Cardinality(FinsOf(Queue(t)))
           k == Ahead(a.ack, s.lastack)
           d == AckedUnits(s, t, a)
<1>1. /\ At(s.lastack) <= Units + 1 /\ At(s.snd_nxt) <= Units + 1 /\ At(s.snd_nxt) <= E
      /\ L \in Nat /\ At(s.snd_nxt) \in Nat /\ E \in Nat
  BY CountsNumbers DEF SenderFits
<1>2. /\ a.ack \in Int /\ A \in Nat /\ Units \in Nat /\ c \in BOOLEAN
  BY AtTyped, SegmentsConstants, BlockNumbers DEF Number
<1>3. At(a.ack) <= Units + 1
  <2> DEFINE N == At(s.snd_nxt)
  <2>1. N \in Nat /\ N <= Units + 1 /\ A <= N
    BY <1>1
  <2> HIDE DEF N, A
  <2>2. A <= Units + 1
    BY <1>2, <2>1
  <2>3. QED
    BY <2>2 DEF A
<1>4. IsNew(s, a) /\ k = A - L
  BY <1>1, <1>2, <1>3, NewIs
<1>5. d = k - f + g
  <2>1. AckedUnits(s, t, a) = Ahead(a.ack, s.lastack)
          - Cardinality({seg \in ToSet(s.unacked \o s.unsent) : seg.fin})
          + Cardinality({seg \in ToSet(t.unacked \o t.unsent) : seg.fin})
    BY <1>4 DEF AckedUnits
  <2>2. QED
    BY <2>1, Zenon DEF FinsOf, Queue
<1>6. /\ Tiled(Queue(s), L, w, c) /\ Tiled(Queue(t), A, w, c)
      /\ Queue(s) \in Seq(Segments) /\ Queue(t) \in Seq(Segments)
  BY BlockQueues, JoinIs DEF SenderFits, Queue
<1>7. f = (IF c /\ L < E THEN 1 ELSE 0) /\ g = (IF c /\ A < E THEN 1 ELSE 0)
  BY <1>1, <1>2, <1>6, FinsAre
<1>8. E = w + (IF c THEN 1 ELSE 0) /\ w \in Nat
  BY <1>2, EdgeIs
<1>9. L < A /\ A <= E
  <2> DEFINE N == At(s.snd_nxt)
  <2>1. N \in Nat /\ N <= E /\ A <= N /\ L < A
    BY <1>1
  <2> HIDE DEF N, A, E, L
  <2>2. L < A /\ A <= E
    BY <1>1, <1>2, <2>1
  <2>3. QED
    BY <2>2
<1>10. n = IF L > w THEN w ELSE L
  BY DEF Told
<1> HIDE DEF L, A, E, f, g, k, d, c
<1>11. L <= w /\ n = L
  BY <1>1, <1>2, <1>8, <1>9, <1>10
<1>12. d \in Nat /\ n + d = IF A > w THEN w ELSE A
  <2>1. CASE c
    <3>1. E = w + 1 /\ f = 1 /\ g = IF A < w + 1 THEN 1 ELSE 0
      BY <1>1, <1>2, <1>7, <1>8, <1>9, <2>1
    <3>2. QED
      BY <1>1, <1>2, <1>4, <1>5, <1>8, <1>9, <1>11, <3>1
  <2>2. CASE ~c
    <3>1. E = w /\ f = 0 /\ g = 0
      BY <1>7, <1>8, <2>2
    <3>2. QED
      BY <1>1, <1>2, <1>4, <1>5, <1>8, <1>9, <1>11, <3>1
  <2>3. QED
    BY <2>1, <2>2
<1>13. QED
  BY <1>12 DEF Told, d, A
-----------------------------------------------------------------------------
(* An acknowledgement of something new.                                    *)
LEMMA NewAckQueues ==
    ASSUME NEW r \in ControlBlock, NEW a, a.ack \in Number, NEW w \in 0 .. Units, Counts(r, w),
           Tiled(Queue(r), At(r.lastack), w, r.closed),
           At(r.lastack) < At(a.ack), At(a.ack) <= At(r.snd_nxt)
    PROVE  LET t == DropUnsent(Acked(r, a), a)
           IN \E d \in 0 .. Len(r.unacked) : \E v \in Seq(Segments) :
                /\ Newer(t, r, a, Left(r.unacked, d), v)
                /\ Left(r.unacked, d) \in Seq(Segments)
                /\ Tiled(Left(r.unacked, d) \o v, At(a.ack), w, r.closed)
<1> DEFINE u == r.unacked
           v == r.unsent
           c == r.closed
           L == At(r.lastack)
           N == At(r.snd_nxt)
           A == At(a.ack)
           E == Edge(w, c)
<1>1. /\ u \in Seq(Segments) /\ v \in Seq(Segments) /\ u \o v \in Seq(Segments)
      /\ Len(u) \in Nat /\ Len(v) \in Nat /\ Len(u \o v) = Len(u) + Len(v)
      /\ \A i \in 1 .. Len(u) : (u \o v)[i] = u[i]
      /\ \A i \in 1 .. Len(v) : (u \o v)[Len(u) + i] = v[i]
  BY BlockQueues, JoinIs
<1>2. /\ L \in Nat /\ N \in Nat /\ E \in Nat /\ N <= E /\ N <= Units + 1 /\ L <= Units + 1
      /\ c \in BOOLEAN /\ Tiled(u \o v, L, w, c)
  BY CountsNumbers, BlockNumbers DEF Queue
<1>3. A \in Nat /\ a.ack \in Int /\ Units \in Nat
  <2>1. a.ack \in Int /\ Units \in Nat
    BY SegmentsConstants DEF Number
  <2>2. QED
    BY <2>1, AtTyped
<1>4. A <= E /\ L <= A /\ A <= N /\ L < A /\ A <= Units + 1
  <2>1. L < A /\ A <= N
    OBVIOUS
  <2> HIDE DEF L, N, A, E
  <2>2. QED
    BY <1>2, <1>3, <2>1
<1>5. \A i \in 1 .. Len(u \o v) : End((u \o v)[i]) <= Units + 1 /\ End((u \o v)[i]) \in Nat
  <2>1. \A i \in 1 .. Len(u \o v) : Typed((u \o v)[i]) /\ Lies((u \o v)[i], w, c)
    BY <1>1, <1>2, TiledLies
  <2>2. QED
    BY <2>1, EndsAre DEF Lies
<1>6. (\A i \in 1 .. Len(u) : End(u[i]) <= Units + 1)
      /\ (\A i \in 1 .. Len(v) : End(v[i]) <= Units + 1 /\ End(v[i]) \in Nat)
  <2> DEFINE q == u \o v
             m == Len(u)
             n == Len(v)
             z == Len(q)
  <2>1. /\ m \in Nat /\ n \in Nat /\ z = m + n
        /\ \A i \in 1 .. m : q[i] = u[i]
        /\ \A i \in 1 .. n : q[m + i] = v[i]
        /\ \A i \in 1 .. z : End(q[i]) <= Units + 1 /\ End(q[i]) \in Nat
    BY <1>1, <1>5
  <2> HIDE DEF q, m, n, z, u, v
  <2>2. (\A i \in 1 .. m : i \in 1 .. z) /\ (\A i \in 1 .. n : m + i \in 1 .. z)
    BY <2>1
  <2>3. QED
    BY <2>1, <2>2 DEF m, n
<1> HIDE DEF L, N, A, E
<1>7. PICK d \in 0 .. Len(u) :
             /\ Unacknowledged(u, a.ack) = SubSeq(u, d + 1, Len(u))
             /\ \A i \in 1 .. d : End(u[i]) <= At(a.ack)
             /\ d < Len(u) => At(a.ack) < End(u[d + 1])
  BY <1>1, <1>3, <1>4, <1>6, UnacknowledgedIs DEF A
<1> DEFINE x == Left(u, d)
<1>8. /\ x \in Seq(Segments) /\ Unacknowledged(u, a.ack) = x /\ Cut(u, d, A)
  BY <1>1, <1>7, LeftIs DEF Left, Cut, A
<1> DEFINE y == NewAck(r, a)
<1>9. Newer(y, r, a, x, v)
  BY <1>8, NewAckIs
<1>10. Acked(r, a) = y
  <2>1. /\ IsNew(r, a) <=> At(r.lastack) < At(a.ack) /\ At(a.ack) <= At(r.snd_nxt)
        /\ SeqLeq(a.ack, r.lastack) <=> At(a.ack) <= At(r.lastack)
    BY <1>2, <1>3, <1>4, NewIs DEF L, N, A
  <2>2. ~(A <= L)
    BY <1>2, <1>3, <1>4
  <2>3. IsNew(r, a) /\ ~SeqLeq(a.ack, r.lastack)
    BY <2>1, <2>2 DEF A, L
  <2>4. QED
    BY <2>3 DEF Acked
<1> HIDE DEF x, y
<1>11. y \in ControlBlock /\ y.unsent = v /\ y.snd_nxt = r.snd_nxt
  BY <1>9 DEF Newer
<1>12. PICK e \in 0 .. Len(y.unsent) :
             /\ DropUnsent(y, a) = [y EXCEPT !.unsent = SubSeq(y.unsent, e + 1, Len(y.unsent))]
             /\ \A i \in 1 .. e : End(y.unsent[i]) <= At(a.ack) /\ At(a.ack) <= At(y.snd_nxt)
             /\ e < Len(y.unsent) => ~(End(y.unsent[e + 1]) <= At(a.ack) /\ At(a.ack) <= At(y.snd_nxt))
  <2>1. /\ At(a.ack) <= Units + 1 /\ At(y.snd_nxt) <= Units + 1
        /\ \A i \in 1 .. Len(y.unsent) : End(y.unsent[i]) <= Units + 1
    BY <1>2, <1>4, <1>6, <1>11 DEF A, N
  <2>2. QED
    BY <1>3, <1>11, <2>1, DropIs
<1> DEFINE b == Left(v, e)
           t == [y EXCEPT !.unsent = b]
<1>13. e \in 0 .. Len(v) /\ DropUnsent(y, a) = t /\ b \in Seq(Segments) /\ Cut(v, e, A)
  <2>1. e \in 0 .. Len(v) /\ DropUnsent(y, a) = t
    BY <1>11, <1>12 DEF Left
  <2>2. b \in Seq(Segments)
    BY <1>1, <2>1, LeftIs
  <2>3. \A i \in 1 .. e : End(v[i]) <= A
    BY <1>11, <1>12 DEF A
  <2>4. e < Len(v) => A < End(v[e + 1])
    <3> HAVE e < Len(v)
    <3>1. ~(End(v[e + 1]) <= A /\ A <= N)
      BY <1>11, <1>12 DEF A, N
    <3>2. e + 1 \in 1 .. Len(v)
      BY <1>1, <2>1
    <3>3. End(v[e + 1]) \in Nat
      BY <1>6, <3>2
    <3> DEFINE k == End(v[e + 1])
    <3>4. ~(k <= A /\ A <= N) /\ k \in Nat
      BY <3>1, <3>3
    <3> HIDE DEF k
    <3>5. A < k
      BY <1>3, <1>4, <3>4
    <3>6. QED
      BY <3>5 DEF k
  <2>5. QED
    BY <2>1, <2>2, <2>3, <2>4 DEF Cut
<1>14. Tiled(x \o b, A, w, c)
  <2>1. /\ u \in Seq(Segments) /\ v \in Seq(Segments) /\ d \in 0 .. Len(u) /\ e \in 0 .. Len(v)
        /\ L \in Nat /\ w \in 0 .. Units /\ c \in BOOLEAN /\ Tiled(u \o v, L, w, c)
        /\ A \in Nat /\ L <= A /\ A <= Edge(w, c) /\ Cut(u, d, A) /\ Cut(v, e, A)
    BY <1>1, <1>2, <1>3, <1>4, <1>8, <1>13 DEF E
  <2> HIDE DEF u, v, c, t, b
  <2>2. Tiled(Left(u, d) \o Left(v, e), A, w, c)
    BY ONLY <2>1, QueuesCut
  <2>3. QED
    BY <2>2 DEF x, b
<1> HIDE DEF b
<1>15. Newer(t, r, a, x, b)
  <2>1. /\ y \in ControlBlock /\ y.unacked = x
      /\ y.snd_nxt = r.snd_nxt /\ y.lastack = a.ack /\ y.snd_lbb = r.snd_lbb
      /\ y.snd_buf = r.snd_buf + Ahead(a.ack, r.lastack)
      /\ y.snd_wnd = r.snd_wnd /\ y.snd_wl2 = r.snd_wl2 /\ y.running = (x # <<>>)
      /\ y.closed = r.closed /\ y.dead = r.dead
    BY <1>9 DEF Newer
  <2>2. /\ t \in ControlBlock /\ t.unsent = b /\ t.unacked = y.unacked
        /\ t.snd_nxt = y.snd_nxt /\ t.lastack = y.lastack /\ t.snd_lbb = y.snd_lbb
        /\ t.snd_buf = y.snd_buf
        /\ t.snd_wnd = y.snd_wnd /\ t.snd_wl2 = y.snd_wl2 /\ t.running = y.running
        /\ t.closed = y.closed /\ t.dead = y.dead
    BY <1>11, <1>13 DEF ControlBlock
  <2> HIDE DEF t
  <2>3. QED
    BY <2>1, <2>2 DEF Newer
<1> HIDE DEF t
<1>16. DropUnsent(Acked(r, a), a) = t
  BY <1>10, <1>13
<1>17. Newer(t, r, a, Left(u, d), b) /\ Left(u, d) \in Seq(Segments) /\ Tiled(Left(u, d) \o b, At(a.ack), w, c)
  BY <1>8, <1>14, <1>15 DEF x, A
<1>18. QED
  BY <1>13, <1>16, <1>17

LEMMA NewAckKeeps ==
    ASSUME NEW s, NEW a, NEW p, NEW q, Heard(a, s, p, q), NEW w \in 0 .. Units,
           SenderFits(s, w), NEW fs, NEW x, NEW e, NEW n \in Nat, Around(s, w, p, q, fs, x, e, n),
           At(s.lastack) < At(a.ack), At(a.ack) <= At(s.snd_nxt)
    PROVE  LET t == DropUnsent(Acked(UpdateWindow(s, a), a), a)
               told == AckedUnits(s, t, a)
           IN /\ SenderFits(t, w) /\ told \in Nat
              /\ Around(t, w, p, q, fs, x, e, n + told)
<1> DEFINE r == UpdateWindow(s, a)
           t == DropUnsent(Acked(r, a), a)
           told == AckedUnits(s, t, a)
           L == At(s.lastack)
           N == At(s.snd_nxt)
           A == At(a.ack)
           V == s.snd_wnd
           W == r.snd_wnd
<1>1. /\ Windowed(r, s, a) /\ WindowFits(r, p, q) /\ s \in ControlBlock /\ p \in PeerBlock
      /\ a.ack \in Number /\ A \in Nat /\ A <= At(p.rcv_nxt)
  BY HeardIs, UpdateWindowIs DEF Heard
<1>2. /\ Counts(s, w) /\ Tiled(Queue(s), At(s.lastack), w, s.closed)
      /\ \A i \in 1 .. Len(s.unacked) : WasSent(s, s.unacked[i])
      /\ s.unacked \in Seq(Segments)
  BY <1>1, BlockQueues DEF SenderFits
<1> HIDE DEF r
<1>3. /\ r \in ControlBlock
      /\ r.unsent = s.unsent /\ r.unacked = s.unacked /\ r.snd_nxt = s.snd_nxt /\ r.lastack = s.lastack
      /\ r.snd_lbb = s.snd_lbb /\ r.snd_buf = s.snd_buf /\ r.running = s.running
      /\ r.closed = s.closed /\ r.dead = s.dead
      /\ A <= At(r.snd_wl2) /\ (L <= A => L + V <= A + W)
  BY <1>1 DEF Windowed
<1>4. Counts(r, w) /\ Tiled(Queue(r), At(r.lastack), w, r.closed)
  BY <1>2, <1>3 DEF Counts, Queue
<1>5. PICK d \in 0 .. Len(r.unacked) : \E v \in Seq(Segments) :
                /\ Newer(t, r, a, Left(r.unacked, d), v)
                /\ Left(r.unacked, d) \in Seq(Segments)
                /\ Tiled(Left(r.unacked, d) \o v, At(a.ack), w, r.closed)
  BY <1>1, <1>3, <1>4, NewAckQueues
<1> DEFINE u == Left(s.unacked, d)
<1>6. PICK v \in Seq(Segments) : Newer(t, r, a, u, v) /\ u \in Seq(Segments) /\ Tiled(u \o v, A, w, s.closed)
  BY <1>3, <1>5
<1>7. \A i \in 1 .. Len(u) : WasSent(s, u[i]) /\ u[i] \in Segments
  <2>1. d \in 0 .. Len(s.unacked)
    BY <1>3, <1>5
  <2>2. /\ Len(u) = Len(s.unacked) - d
        /\ \A i \in 1 .. Len(s.unacked) - d : u[i] = s.unacked[d + i] /\ d + i \in 1 .. Len(s.unacked)
    BY <1>2, <2>1, LeftIs
  <2> HIDE DEF u
  <2>3. \A i \in 1 .. Len(u) : u[i] \in Segments
    BY <1>6, ElementOfSeq
  <2>4. QED
    BY <1>2, <2>2, <2>3
<1> HIDE DEF t, u
<1>8. /\ t \in ControlBlock /\ t.unsent = v /\ t.unacked = u
      /\ t.snd_nxt = s.snd_nxt /\ t.lastack = a.ack /\ t.snd_lbb = s.snd_lbb
      /\ t.snd_buf = s.snd_buf + Ahead(a.ack, s.lastack)
      /\ t.snd_wnd = r.snd_wnd /\ t.snd_wl2 = r.snd_wl2 /\ t.running = (u # <<>>)
      /\ t.closed = s.closed /\ t.dead = s.dead
  BY <1>3, <1>6 DEF Newer
<1>9. /\ L \in Nat /\ N \in Nat /\ V \in Nat /\ W \in Nat /\ L < A /\ A <= N /\ N <= Units + 1
      /\ L <= Units + 1 /\ Units \in Nat
  BY <1>1, <1>2, <1>3, BlockNumbers, CountsNumbers, SegmentsConstants
<1>10. A <= Units + 1 /\ L <= A /\ L + V <= A + W
  <2>1. L <= A => L + V <= A + W
    BY <1>3
  <2>2. /\ A \in Nat /\ L \in Nat /\ N \in Nat /\ V \in Nat /\ W \in Nat /\ L < A /\ A <= N
        /\ N <= Units + 1 /\ Units \in Nat /\ (L <= A => L + V <= A + W)
    BY <1>1, <1>9, <2>1
  <2> HIDE DEF L, N, A, V, W
  <2>3. QED
    BY ONLY <2>2
<1>11. Counts(t, w)
  <2>1. Ahead(a.ack, s.lastack) = A - L
    <3>1. a.ack \in Int
      BY <1>1, SegmentsConstants DEF Number
    <3>2. QED
      BY <1>1, <1>9, <1>10, <3>1, NewIs
  <2>2. /\ w <= Units /\ w <= L + TCP_SND_BUF
        /\ ~s.closed => At(s.snd_lbb) = w /\ s.snd_buf + w = TCP_SND_BUF + L
        /\ N <= Edge(w, s.closed)
    BY <1>2 DEF Counts
  <2> DEFINE b == s.snd_buf
             g == t.snd_buf
  <2>3. b \in Int /\ TCP_SND_BUF \in Nat /\ g = b + (A - L)
    <3>1. s.snd_buf \in Int
      BY <1>1 DEF ControlBlock
    <3>2. QED
      BY <1>8, <2>1, <3>1, SegmentsConstants
  <2> HIDE DEF L, N, A, b, g
  <2>4. w <= A + TCP_SND_BUF /\ A <= N
    BY <1>1, <1>9, <2>2, <2>3
  <2>5. ~s.closed => g + w = TCP_SND_BUF + A
    <3> HAVE ~s.closed
    <3>1. b + w = TCP_SND_BUF + L
      BY <2>2 DEF b
    <3>2. /\ A \in Nat /\ L \in Nat /\ b \in Int /\ TCP_SND_BUF \in Nat /\ g = b + (A - L)
          /\ b + w = TCP_SND_BUF + L /\ w \in Nat
      BY <1>1, <1>9, <2>3, <3>1
    <3>3. QED
      BY ONLY <3>2
  <2>6. QED
    BY <1>8, <2>2, <2>4, <2>5 DEF Counts, A, N, g
<1>12. SenderFits(t, w)
  <2>1. Tiled(Queue(t), At(t.lastack), w, t.closed)
    BY <1>6, <1>8 DEF Queue
  <2>2. \A i \in 1 .. Len(t.unacked) : WasSent(t, t.unacked[i])
    <3> SUFFICES ASSUME NEW i \in 1 .. Len(u) PROVE WasSent(t, u[i])
      BY <1>8
    <3>1. WasSent(s, u[i]) /\ DataEnd(u[i]) \in Nat
      BY <1>7, SegmentTyped, EndsAre
    <3> DEFINE k == DataEnd(u[i])
    <3>2. k <= L + V /\ k \in Nat
      BY <3>1 DEF WasSent
    <3> HIDE DEF k, L, A, V, W
    <3>3. k <= A + W
      BY <1>1, <1>9, <1>10, <3>2
    <3>4. QED
      BY <1>8, <3>1, <3>3 DEF WasSent, k, A, W
  <2>3. t.unacked # <<>> => t.running
    BY <1>8
  <2>4. QED
    BY <1>11, <2>1, <2>2, <2>3 DEF SenderFits
<1>13. told \in Nat /\ Told(t, w, n + told)
  <2>1. Told(s, w, n)
    BY DEF Around
  <2>2. QED
    BY <1>1, <1>8, <1>12, <2>1, ToldIs
<1> HIDE DEF told
<1>14. \A k : Follows(k, s) => Follows(k, t)
  <2>1. L # N
    <3> HIDE DEF L, N, A
    <3>1. QED
      BY <1>1, <1>9
  <2>2. QED
    BY <1>8, <2>1 DEF Follows
<1>15. FramesFit(fs, s, w) /\ Taken(p, x, e, s, w)
  BY DEF Around
<1>16. FramesFit(fs, t, w)
  BY <1>8, <1>14, <1>15 DEF FramesFit
<1>17. Taken(p, x, e, t, w)
  BY <1>8, <1>14, <1>15 DEF Taken
<1>18. WindowFits(t, p, q)
  <2>1. /\ Announced(r.snd_wl2, r.snd_wnd, p)
        /\ \A i \in 1 .. Len(q) : NotBefore(r.snd_wl2, r.snd_wnd, q[i])
        /\ At(r.snd_nxt) <= At(p.ann_edge) + (IF r.closed THEN 1 ELSE 0)
    BY <1>1 DEF WindowFits
  <2>2. QED
    BY <1>1, <1>3, <1>8, <2>1 DEF WindowFits
<1>19. Around(t, w, p, q, fs, x, e, n + told)
  BY <1>8, <1>13, <1>16, <1>17, <1>18 DEF Around
<1>20. QED
  BY <1>12, <1>13, <1>19 DEF t, r, told
-----------------------------------------------------------------------------
(* Every acknowledgement.                                                  *)
LEMMA HeardFirst ==
    ASSUME SegmentsInv, acks # <<>>
    PROVE  /\ Heard(Head(acks), tcp, peer, Tail(acks))
           /\ Tail(acks) \in Seq(AckSet) /\ From(Tail(acks), acks) /\ AcksFit(Tail(acks), peer)
           /\ Around(tcp, written, peer, Tail(acks), wire, received, eof, reported)
           /\ Follows(At(Head(acks).ack), tcp)
<1> DEFINE a == Head(acks)
           q == Tail(acks)
<1>1. /\ tcp \in ControlBlock /\ peer \in PeerBlock /\ wire \in Seq(FrameSet) /\ acks \in Seq(AckSet)
      /\ written \in 0 .. Units /\ reported \in Nat /\ received \in Seq(Nat) /\ eof \in BOOLEAN
      /\ Around(tcp, written, peer, acks, wire, received, eof, reported)
      /\ AcksFit(acks, peer)
  BY InvIs
<1>2. /\ q \in Seq(AckSet) /\ From(q, acks) /\ a \in AckSet /\ 1 \in 1 .. Len(acks) /\ a = acks[1]
  BY <1>1, TailFrom
<1> HIDE DEF a, q
<1>3. WindowFits(tcp, peer, acks) /\ Taken(peer, received, eof, tcp, written)
  BY <1>1 DEF Around
<1>4. AcksFit(q, peer) /\ WindowFits(tcp, peer, q)
  BY <1>1, <1>2, <1>3, AcksFrom
<1>5. Around(tcp, written, peer, q, wire, received, eof, reported)
  BY <1>1, <1>4 DEF Around
<1>6. /\ Announced(a.ack, a.wnd, peer)
      /\ \A j \in 1 .. Len(acks) : NotBefore(a.ack, a.wnd, acks[j])
      /\ NotBefore(tcp.snd_wl2, tcp.snd_wnd, a)
  BY <1>1, <1>2, <1>3 DEF AcksFit, WindowFits
<1>7. \A i \in 1 .. Len(q) : NotBefore(a.ack, a.wnd, q[i])
  BY <1>2, <1>6 DEF From
<1>8. At(peer.rcv_nxt) <= Units + 1
  BY <1>1, <1>3, TakenIs
<1>9. Heard(a, tcp, peer, q)
  BY <1>1, <1>2, <1>4, <1>6, <1>7, <1>8 DEF Heard
<1>10. Follows(At(a.ack), tcp)
  <2>1. At(a.ack) <= At(peer.rcv_nxt) /\ At(a.ack) \in Nat
    BY <1>9, HeardIs
  <2>2. Follows(At(peer.rcv_nxt), tcp) /\ At(peer.rcv_nxt) \in Nat
    BY <1>1, <1>3, PeerNumbers DEF Taken
  <2>3. QED
    BY <1>1, <2>1, <2>2, FollowsLess
<1>11. QED
  BY <1>2, <1>4, <1>5, <1>9, <1>10 DEF a, q

LEMMA DeliverAckKept ==
    ASSUME OldestFits, SegmentsInv, NEW n \in {0} \cup WriteSizes, DeliverAck(n)
    PROVE  SegmentsInv'
<1> DEFINE a == Head(acks)
           q == Tail(acks)
           s == UpdateWindow(tcp, a)
           t == DropUnsent(Acked(s, a), a)
           told == AckedUnits(tcp, t, a)
           k == reported + told
<1>1. /\ acks # <<>> /\ acks' = q
      /\ peer' = peer /\ received' = received /\ eof' = eof
  BY DEF DeliverAck
<1>2. /\ tcp \in ControlBlock /\ peer \in PeerBlock /\ wire \in Seq(FrameSet) /\ acks \in Seq(AckSet)
      /\ written \in 0 .. Units /\ reported \in Nat /\ received \in Seq(Nat) /\ eof \in BOOLEAN
      /\ Around(tcp, written, peer, acks, wire, received, eof, reported)
      /\ AcksFit(acks, peer) /\ PeerFits(peer) /\ Counts(tcp, written)
      /\ ~tcp.dead => SenderFits(tcp, written)
  BY InvIs
<1>3. /\ Heard(a, tcp, peer, q)
      /\ q \in Seq(AckSet) /\ AcksFit(q, peer)
      /\ Around(tcp, written, peer, q, wire, received, eof, reported)
      /\ Follows(At(a.ack), tcp)
  BY <1>1, HeardFirst
<1>4. CASE tcp.dead
  <2>1. tcp' = tcp /\ wire' = wire /\ written' = written /\ reported' = reported
    BY <1>4 DEF DeliverAck
  <2> HIDE DEF a, q
  <2>2. WindowFits(tcp, peer, q) /\ FramesFit(wire, tcp, written) /\ Taken(peer, received, eof, tcp, written)
    BY <1>3 DEF Around
  <2>3. QED
    BY <1>1, <1>2, <1>3, <2>1, <2>2, OtherStep
<1>5. CASE ~tcp.dead
  <2>1. /\ n > 0 => told > 0 /\ CanWrite(t, n)
        /\ tcp' = tcp_output(IF n = 0 THEN t ELSE tcp_write(t, n))
        /\ wire' = wire \o Frames(IF n = 0 THEN t ELSE tcp_write(t, n))
        /\ written' = written + n /\ reported' = k
    BY <1>5 DEF DeliverAck
  <2> HIDE DEF t, told, k, a, q
  <2>2. SenderFits(tcp, written)
    BY <1>2, <1>5
  <2>3. n = 0 \/ n \in Nat \ {0}
    BY SegmentsConstants
  <2>4. \/ At(tcp.lastack) < At(a.ack) /\ At(a.ack) <= At(tcp.snd_nxt)
        \/ At(a.ack) <= At(tcp.lastack)
        \/ At(tcp.snd_nxt) < At(a.ack) /\ tcp.unacked = <<>>
    <3> DEFINE A == At(a.ack)
               L == At(tcp.lastack)
               N == At(tcp.snd_nxt)
    <3>1. A \in Nat /\ L \in Nat /\ N \in Nat
      BY <1>2, <1>3, HeardIs, BlockNumbers
    <3>2. A <= N \/ (A = N + 1 /\ tcp.unacked = <<>>)
      BY <1>3, <1>5 DEF Follows
    <3> HIDE DEF A, L, N
    <3>3. (L < A /\ A <= N) \/ A <= L \/ (N < A /\ tcp.unacked = <<>>)
      BY <3>1, <3>2
    <3>4. QED
      BY <3>3 DEF A, L, N
  <2>5. CASE At(tcp.lastack) < At(a.ack) /\ At(a.ack) <= At(tcp.snd_nxt)
    <3>1. /\ SenderFits(t, written) /\ told \in Nat
          /\ Around(t, written, peer, q, wire, received, eof, k)
      BY <1>2, <1>3, <2>2, <2>5, NewAckKeeps DEF t, told, k, s
    <3>2. k \in Nat /\ t \in ControlBlock
      BY <1>2, <3>1 DEF k, Around
    <3>3. CASE n = 0
      <4>1. tcp' = tcp_output(t) /\ wire' = wire \o Frames(t) /\ written' = written
        BY <1>2, <2>1, <3>3
      <4>2. Sends(t, written, Queue(t))
        BY <1>2, <3>1, <3>2, StraightSends
      <4>3. QED
        BY <1>1, <1>2, <1>3, <2>1, <3>1, <3>2, <4>1, <4>2, SenderStep
    <3>4. CASE n \in Nat \ {0}
      <4> DEFINE u == tcp_write(t, n)
                 w == written + n
      <4>1. /\ tcp' = tcp_output(u) /\ wire' = wire \o Frames(u) /\ written' = w /\ CanWrite(t, n)
        BY <2>1, <3>4
      <4>2. u \in ControlBlock /\ SenderFits(u, w) /\ w \in 0 .. Units
        BY <1>2, <3>1, <3>2, <3>4, <4>1, WriteKeeps
      <4>3. Around(u, w, peer, q, wire, received, eof, k)
        BY <1>2, <3>1, <3>4, <4>1, WriteAround
      <4> HIDE DEF u, w
      <4>4. Sends(u, w, Queue(u))
        BY <4>2, StraightSends
      <4>5. QED
        BY <1>1, <1>2, <1>3, <2>1, <3>2, <4>1, <4>2, <4>3, <4>4, SenderStep
    <3>5. QED
      BY <2>3, <3>3, <3>4
  <2>6. CASE At(a.ack) <= At(tcp.lastack) \/ (At(tcp.snd_nxt) < At(a.ack) /\ tcp.unacked = <<>>)
    <3>1. /\ Around(t, written, peer, q, wire, received, eof, reported)
          /\ \E z : Sends(t, written, z)
          /\ ~IsNew(tcp, a)
      BY <1>2, <1>3, <1>5, <2>2, <2>6, OldAck DEF t, s, OldestFits
    <3>2. told = 0 /\ k = reported
      <4>1. told = 0
        BY <3>1 DEF told, AckedUnits
      <4>2. QED
        BY <1>2, <4>1 DEF k
    <3>3. n = 0
      BY <2>1, <2>3, <3>2
    <3>4. tcp' = tcp_output(t) /\ wire' = wire \o Frames(t) /\ written' = written /\ reported' = reported
      BY <1>2, <2>1, <3>2, <3>3
    <3>5. PICK z : Sends(t, written, z)
      BY <3>1
    <3>6. QED
      BY <1>1, <1>2, <1>3, <3>1, <3>4, <3>5, SenderStep
  <2>7. QED
    BY <2>4, <2>5, <2>6
<1>6. QED
  BY <1>4, <1>5
-----------------------------------------------------------------------------
(* The invariant holds from the first state on.                            *)
LEMMA SegmentsFirst ==
    ASSUME SegmentsInit
    PROVE  SegmentsInv
<1> DEFINE h == Capped(10 * mss)
           e == (FirstSeq + TCP_WND) % SeqSpace
<1>1. /\ Units \in Nat /\ mss \in Nat \ {0} /\ TCP_WND \in Nat \ {0} /\ TCP_SND_BUF \in Nat
      /\ FirstSeq \in Number /\ SeqSpace \in Nat /\ Limit \in Nat /\ TCP_WND < Limit
      /\ SeqSpace > 2 * Limit
  BY SegmentsConstants
<1>2. h \in Nat \ {0}
  BY <1>1, CappedIs
<1>3. e \in Number /\ At(e) = TCP_WND /\ At(FirstSeq) = 0
  <2>1. FirstSeq \in Int
    BY <1>1 DEF Number
  <2>2. At(FirstSeq) + TCP_WND = TCP_WND
    BY <1>1, AtFirst
  <2>3. TCP_WND \in Number
    BY <1>1 DEF Number
  <2>4. At((FirstSeq + TCP_WND) % SeqSpace) = At(FirstSeq) + TCP_WND
    BY <1>1, <2>1, <2>2, <2>3, AtPlus
  <2>5. FirstSeq + TCP_WND \in Int
    BY <1>1, <2>1
  <2>6. e \in Number
    BY <2>5, AtTyped
  <2>7. QED
    BY <2>2, <2>4, <2>6, AtFirst
<1>4. /\ tcp = [unsent |-> <<>>, unacked |-> <<>>, snd_nxt |-> FirstSeq, lastack |-> FirstSeq,
            snd_lbb |-> FirstSeq, snd_buf |-> TCP_SND_BUF, oversize |-> 0,
            snd_wnd |-> TCP_WND, snd_wl2 |-> FirstSeq, cwnd |-> mss,
            ssthresh |-> h, dupacks |-> 0, nrtx |-> 0,
            running |-> FALSE, persist |-> FALSE, memerr |-> FALSE, infr |-> FALSE,
            tf_fin |-> FALSE, closed |-> FALSE, dead |-> FALSE]
      /\ peer = [rcv_nxt |-> FirstSeq, rcv_wnd |-> TCP_WND, ann_wnd |-> TCP_WND,
             ann_edge |-> e, ack_delay |-> FALSE, unread |-> 0]
      /\ wire = <<>> /\ acks = <<>>
      /\ written = 0 /\ reported = 0 /\ received = <<>> /\ eof = FALSE
  BY DEF SegmentsInit
<1> HIDE DEF h, e
<1>5. (\A S : <<>> \in Seq(S)) /\ Len(<<>>) = 0 /\ <<>> \o <<>> = <<>>
  BY EmptySeq
<1>6. /\ tcp \in ControlBlock /\ tcp.unsent = <<>> /\ tcp.unacked = <<>> /\ tcp.snd_nxt = FirstSeq
      /\ tcp.lastack = FirstSeq /\ tcp.snd_lbb = FirstSeq /\ tcp.snd_buf = TCP_SND_BUF
      /\ tcp.snd_wnd = TCP_WND /\ tcp.snd_wl2 = FirstSeq /\ tcp.closed = FALSE
  BY <1>1, <1>2, <1>4, <1>5 DEF ControlBlock
<1>7. /\ peer \in PeerBlock /\ peer.rcv_nxt = FirstSeq /\ peer.rcv_wnd = TCP_WND
      /\ peer.ann_wnd = TCP_WND /\ peer.ann_edge = e
  BY <1>1, <1>3, <1>4 DEF PeerBlock
<1>70. /\ wire = <<>> /\ acks = <<>>
       /\ written = 0 /\ reported = 0 /\ received = <<>> /\ eof = FALSE
  BY <1>4
<1>72. written = 0 /\ reported = 0
  BY <1>70
<1>73. /\ tcp.snd_buf = TCP_SND_BUF /\ tcp.closed = FALSE
  BY <1>6
<1>71. /\ At(tcp.snd_nxt) = 0 /\ At(tcp.lastack) = 0 /\ At(tcp.snd_lbb) = 0 /\ At(tcp.snd_wl2) = 0
       /\ At(peer.rcv_nxt) = 0 /\ At(peer.ann_edge) = TCP_WND
  BY <1>3, <1>6, <1>7
<1>8. SegmentsTyped
  <2>1. wire \in Seq(FrameSet) /\ acks \in Seq(AckSet) /\ received \in Seq(Nat)
    BY <1>5, <1>70, Zenon
  <2>2. written \in 0 .. Units /\ reported \in Nat /\ eof \in BOOLEAN
    <3>1. eof \in BOOLEAN
      BY <1>70
    <3>2. written \in 0 .. Units /\ reported \in Nat
      BY <1>1, <1>72
    <3>3. QED
      BY <3>1, <3>2
  <2>3. tcp \in ControlBlock /\ peer \in PeerBlock
    BY <1>6, <1>7
  <2>4. QED
    BY <2>1, <2>2, <2>3, Zenon DEF SegmentsTyped
<1>9. Counts(tcp, written)
  <2>1. Edge(0, FALSE) = 0
    BY DEF Edge
  <2>2. QED
    <3> DEFINE n == At(tcp.snd_nxt)
               l == At(tcp.lastack)
               o == At(tcp.snd_lbb)
               b == tcp.snd_buf
               x == Edge(written, tcp.closed)
    <3>1. n = 0 /\ l = 0 /\ o = 0 /\ b = TCP_SND_BUF /\ x = 0
      BY <1>71, <1>72, <1>73, <2>1, Zenon
    <3> HIDE DEF n, l, o, b, x
    <3>2. /\ written <= Units /\ written <= l + TCP_SND_BUF /\ o = written
          /\ b + written = TCP_SND_BUF + l /\ l <= n /\ n <= x
      BY <1>1, <1>72, <3>1
    <3>3. QED
      BY <3>2 DEF Counts, n, l, o, b, x
<1>10. SenderFits(tcp, written)
  <2>1. Queue(tcp) = <<>>
    BY <1>5, <1>6 DEF Queue
  <2>2. Tiled(<<>>, 0, 0, FALSE)
    BY <1>5 DEF Tiled, Edge
  <2>3. Tiled(Queue(tcp), At(tcp.lastack), written, tcp.closed)
    BY <1>71, <1>72, <1>73, <2>1, <2>2, Zenon
  <2>4. tcp.unacked = <<>> /\ \A i \in 1 .. Len(tcp.unacked) : WasSent(tcp, tcp.unacked[i])
    BY <1>5, <1>6
  <2>5. QED
    BY <1>9, <2>3, <2>4 DEF SenderFits
<1>11. WindowFits(tcp, peer, acks)
  BY <1>1, <1>5, <1>6, <1>7, <1>70, <1>71 DEF WindowFits, Announced
<1>12. AcksFit(acks, peer) /\ FramesFit(wire, tcp, written)
  BY <1>5, <1>70 DEF AcksFit, FramesFit
<1>13. PeerFits(peer)
  BY <1>1, <1>7, <1>71 DEF PeerFits
<1>14. Taken(peer, received, eof, tcp, written)
  BY <1>5, <1>70, <1>71 DEF Taken, Follows
<1>15. Told(tcp, written, reported)
  BY <1>70, <1>71 DEF Told
<1>16. Timed(tcp)
  BY <1>6 DEF Timed
<1>17. QED
  BY <1>16, <1>8, <1>9, <1>10, <1>11, <1>12, <1>13, <1>14, <1>15 DEF SegmentsInv

LEMMA SegmentsIdle ==
    ASSUME SegmentsInv, UNCHANGED segmentsVars
    PROVE  SegmentsInv'
<1>1. /\ tcp' = tcp /\ peer' = peer /\ wire' = wire /\ acks' = acks /\ written' = written
      /\ reported' = reported /\ received' = received /\ eof' = eof
  BY DEF segmentsVars
<1>2. /\ tcp \in ControlBlock /\ peer \in PeerBlock /\ wire \in Seq(FrameSet) /\ acks \in Seq(AckSet)
      /\ received \in Seq(Nat) /\ eof \in BOOLEAN
      /\ AcksFit(acks, peer) /\ PeerFits(peer)
      /\ Around(tcp, written, peer, acks, wire, received, eof, reported)
  BY InvIs
<1>3. QED
  BY <1>1, <1>2, OtherStep DEF Around

LEMMA SegmentsStep ==
    ASSUME OldestFits, SegmentsInv, [SegmentsNext]_segmentsVars
    PROVE  SegmentsInv'
<1>1. CASE UNCHANGED segmentsVars
  BY <1>1, SegmentsIdle
<1>2. CASE SegmentsNext
  <2>1. CASE \E n \in WriteSizes : Write(n)
    BY <2>1, WriteKept
  <2>2. CASE WriteFails
    BY <2>2, WriteFailsKept
  <2>3. CASE Close
    BY <2>3, CloseKept
  <2>4. CASE Retransmit
    BY <2>4, RetransmitKept
  <2>5. CASE Probe
    BY <2>5, ProbeKept
  <2>6. CASE GivenUp
    BY <2>6, GivenUpKept
  <2>7. CASE Poll
    BY <2>7, PollKept
  <2>8. CASE \E n \in {0} \cup WriteSizes : DeliverAck(n)
    BY <2>8, DeliverAckKept
  <2>9. CASE DeliverData
    BY <2>9, DeliverDataKept
  <2>10. CASE FastTimer
    BY <2>10, FastTimerKept
  <2>11. CASE tcp_recved
    BY <2>11, RecvedKept
  <2>12. CASE NetworkFault
    BY <2>12, NetworkFaultKept
  <2>13. QED
    BY <1>2, <2>1, <2>2, <2>3, <2>4, <2>5, <2>6, <2>7, <2>8, <2>9, <2>10, <2>11, <2>12 DEF SegmentsNext
<1>3. QED
  BY <1>1, <1>2
-----------------------------------------------------------------------------
(* What the invariant is for.                                              *)
LEMMA QueuesHave ==
    ASSUME NEW s \in ControlBlock, NEW w \in 0 .. Units, SenderFits(s, w),
           NEW k \in Nat, At(s.lastack) < k, k <= w
    PROVE  \E d \in {s.unacked[i].data : i \in 1 .. Len(s.unacked)}
                    \cup {s.unsent[i].data : i \in 1 .. Len(s.unsent)} :
             \E i \in 1 .. Len(d) : d[i] = k
<1> DEFINE u == s.unacked
           v == s.unsent
           q == u \o v
           m == Len(u)
           n == Len(v)
           z == Len(q)
<1>1. /\ q \in Seq(Segments) /\ z = m + n /\ m \in Nat /\ n \in Nat
      /\ \A i \in 1 .. m : q[i] = u[i]
      /\ \A i \in 1 .. n : q[m + i] = v[i]
      /\ \A i \in 1 .. m + n : i \in 1 .. m \/ \E j \in 1 .. n : i = m + j
  BY BlockQueues, JoinIs
<1>2. Tiled(q, At(s.lastack), w, s.closed) /\ At(s.lastack) \in Nat /\ s.closed \in BOOLEAN
  BY BlockNumbers DEF SenderFits, Queue
<1> HIDE DEF q, m, n, z
<1>3. PICK i \in 1 .. z : \E j \in 1 .. Len(q[i].data) : q[i].data[j] = k
  BY <1>1, <1>2, TiledHas DEF z
<1>4. (\E j \in 1 .. m : q[i] = u[j]) \/ (\E j \in 1 .. n : q[i] = v[j])
  BY <1>1, <1>3
<1>5. q[i].data \in {u[j].data : j \in 1 .. m} \cup {v[j].data : j \in 1 .. n}
  BY <1>4
<1>6. QED
  BY <1>3, <1>5 DEF m, n

LEMMA InvKeeps ==
    ASSUME SegmentsInv
    PROVE  SegmentsKept
<1> DEFINE A == At(peer.rcv_nxt)
           L == At(tcp.lastack)
           N == At(tcp.snd_nxt)
           E == At(peer.ann_edge)
           c == IF tcp.closed THEN 1 ELSE 0
           l == Len(received)
<1>1. /\ tcp \in ControlBlock /\ peer \in PeerBlock /\ wire \in Seq(FrameSet) /\ acks \in Seq(AckSet)
      /\ written \in 0 .. Units /\ reported \in Nat /\ received \in Seq(Nat) /\ eof \in BOOLEAN
      /\ WindowFits(tcp, peer, acks) /\ Taken(peer, received, eof, tcp, written)
      /\ Told(tcp, written, reported) /\ PeerFits(peer) /\ Counts(tcp, written)
      /\ ~tcp.dead => SenderFits(tcp, written)
      /\ Timed(tcp)
  BY InvIs DEF Around
<1>2. /\ A = l + (IF eof THEN 1 ELSE 0) /\ l <= written
      /\ \A i \in 1 .. l : received[i] \in {i, HeaderByte}
      /\ eof => tcp.closed /\ l = written
  BY <1>1 DEF Taken
<1>3. L <= A /\ N <= E + c
  BY <1>1 DEF WindowFits
<1>4. reported = IF L > written THEN written ELSE L
  BY <1>1 DEF Told
<1>5. A \in Nat /\ L \in Nat /\ N \in Nat /\ E \in Nat /\ l \in Nat /\ c \in {0, 1}
  BY <1>1, BlockNumbers, PeerNumbers, LenProperties
<1>6. reported <= l
  <2> HIDE DEF A, L, l
  <2>1. CASE eof
    BY <1>1, <1>2, <1>4, <1>5, <2>1
  <2>2. CASE ~eof
    BY <1>1, <1>2, <1>3, <1>4, <1>5, <2>2
  <2>3. QED
    BY <2>1, <2>2
<1>7. ASSUME ~tcp.dead, NEW k \in (reported + 1) .. written
      PROVE  \E d \in InQueues : \E i \in 1 .. Len(d) : d[i] = k
  <2>1. k \in Nat /\ L < k /\ k <= written
    <3>1. reported = (IF L > written THEN written ELSE L) /\ reported \in Nat /\ L \in Nat
      BY <1>1, <1>4, <1>5
    <3>2. written \in Nat /\ k \in (reported + 1) .. written
      BY <1>1, <1>7, SegmentsConstants
    <3> HIDE DEF L
    <3>3. k \in Nat /\ L < k /\ k <= written
      BY ONLY <3>1, <3>2
    <3>4. QED
      BY <3>3
  <2>2. QED
    BY <1>1, <1>7, <2>1, QueuesHave DEF InQueues
<1>8. StreamInPlace
  BY <1>2, <1>6, <1>7 DEF StreamInPlace
<1>9. tcp.unacked # <<>> => tcp.running
  BY <1>1 DEF Timed
<1>10. /\ tcp.snd_nxt \in Int /\ peer.ann_edge \in Int /\ c \in Int
       /\ At(tcp.snd_nxt) = N /\ At(peer.ann_edge) = E
  BY <1>1, BlockNumbers, PeerNumbers
<1>11. E + c \in Number /\ N - (E + c) <= Limit - 1 /\ (E + c) - N <= Limit /\ N <= E + c
  <2> DEFINE o == peer.ann_wnd
  <2>1. E <= A + o /\ o <= TCP_WND /\ o \in Nat
    BY <1>1, PeerNumbers DEF PeerFits
  <2>2. A <= Units + 1
    BY <1>1, TakenIs
  <2>3. /\ Units \in Nat /\ TCP_WND \in Nat /\ TCP_WND >= 2 /\ SeqSpace \in Nat
        /\ SeqSpace > 2 * Limit /\ Limit = Units + 2 * TCP_WND
    BY SegmentsConstants DEF Limit
  <2>4. A \in Nat /\ N \in Nat /\ E \in Nat /\ c \in {0, 1} /\ N <= E + c
    BY <1>3, <1>5
  <2> HIDE DEF A, N, E, c, o
  <2>5. /\ E + c \in 0 .. SeqSpace - 1 /\ N - (E + c) <= Limit - 1 /\ (E + c) - N <= Limit
    BY ONLY <2>1, <2>2, <2>3, <2>4
  <2>6. QED
    BY <2>4, <2>5 DEF Number
<1> HIDE DEF N, E, c
<1>12. At(peer.ann_edge + c) = E + c /\ peer.ann_edge + c \in Int
  BY <1>10, <1>11, AtPlus
<1>13. SeqLeq(tcp.snd_nxt, peer.ann_edge + c)
  BY <1>10, <1>11, <1>12, SeqLeqIs
<1>14. QED
  BY <1>8, <1>9, <1>13 DEF SegmentsKept, WindowKept, c
-----------------------------------------------------------------------------
(* A small send buffer keeps the oldest segment short.                     *)
LEMMA RoomAlways ==
    ASSUME SegmentsRoom, SegmentsInv
    PROVE  OldestFits
<1> SUFFICES ASSUME ~tcp.dead, tcp.unacked # <<>>
             PROVE  Reach(tcp, tcp.unacked[1]) <= 5 * mss
  BY DEF OldestFits, Room
<1> DEFINE u == tcp.unacked
           v == tcp.unsent
           q == u \o v
           g == u[1]
           L == At(tcp.lastack)
           d == DataEnd(g)
           b == IF g.fin THEN 1 ELSE 0
           m == Len(u)
           n == Len(v)
           z == Len(q)
<1>1. /\ tcp \in ControlBlock /\ written \in 0 .. Units /\ SenderFits(tcp, written)
  BY InvIs
<1>2. /\ Counts(tcp, written) /\ Tiled(q, L, written, tcp.closed)
      /\ L \in Nat /\ tcp.closed \in BOOLEAN
  BY <1>1, BlockNumbers DEF SenderFits, Queue
<1>3. /\ u \in Seq(Segments) /\ q \in Seq(Segments) /\ m \in Nat /\ n \in Nat /\ z = m + n /\ m # 0
      /\ \A i \in 1 .. m : q[i] = u[i]
  BY <1>1, BlockQueues, JoinIs, LenProperties, EmptySeq
<1>4. 1 \in 1 .. m /\ 1 \in 1 .. z
  <2> HIDE DEF m, n, z
  <2>1. QED
    BY <1>3
<1>5. q[1] = g /\ g \in Segments
  BY <1>3, <1>4, ElementOfSeq
<1> HIDE DEF u, v, q, g, m, n, z
<1>6. L < End(q[1]) /\ PieceOf(q[1], {}, written, tcp.closed)
  BY <1>1, <1>2, <1>3, <1>4, TiledEnds DEF Tiled, z
<1>7. Typed(g) /\ d \in Nat /\ End(g) = d + b /\ b \in {0, 1} /\ L < End(g) /\ d <= written
  BY <1>5, <1>6, SegmentTyped, EndsAre DEF PieceOf
<1>8. written <= L + TCP_SND_BUF /\ written <= Units /\ written \in Nat /\ Units \in Nat
  BY <1>1, <1>2, SegmentsConstants DEF Counts
<1>9. L <= d /\ d <= Units /\ d - L <= 5 * mss
  <2>1. TCP_SND_BUF <= 5 * mss /\ TCP_SND_BUF \in Nat /\ mss \in Nat
    BY SegmentsConstants DEF SegmentsRoom
  <2> DEFINE e == End(g)
  <2>2. L \in Nat /\ d \in Nat /\ e = d + b /\ b \in {0, 1} /\ L < e /\ d <= written
    BY <1>2, <1>7
  <2> HIDE DEF L, d, b, e
  <2>3. QED
    BY ONLY <1>8, <2>1, <2>2
<1>10. Reach(tcp, g) = d - L
  BY <1>1, <1>7, <1>9, ReachIs
<1>11. QED
  BY <1>9, <1>10 DEF g, u

(* The inductive invariant holds in every state: the queues are one piece  *)
(* of the stream, from the last acknowledgement to its end; what was sent  *)
(* lies within a window the receiver announced, and announced windows are  *)
(* never taken back; what is on the way and what was received are pieces   *)
(* of the stream (tcp_write, tcp_output, tcp_receive, tcp_slowtmr).  It    *)
(* does as long as the oldest segment never exceeds five times the mss.    *)
THEOREM SegmentsInvariant == SegmentsSpec /\ []OldestFits => []SegmentsInv
<1>1. SegmentsInit => SegmentsInv
  BY SegmentsFirst
<1>2. OldestFits /\ SegmentsInv /\ [SegmentsNext]_segmentsVars => SegmentsInv'
  BY SegmentsStep
<1>3. QED
  BY <1>1, <1>2, PTL DEF SegmentsSpec

(* Whatever the network drops, doubles or lets overtake and whenever a     *)
(* timer goes off: the receiver is given what was written, in order; what  *)
(* the sent callback was told of has arrived and the rest is in the        *)
(* queues; what is unacknowledged has its timer; and nothing is sent       *)
(* beyond the announced window (tcp_write, tcp_output, tcp_receive).  So   *)
(* it is as long as the oldest segment never exceeds five times the mss.   *)
THEOREM SegmentsWhileShort == SegmentsSpec /\ []OldestFits => []SegmentsKept
<1>1. SegmentsInv => SegmentsKept
  BY InvKeeps
<1>2. QED
  BY <1>1, SegmentsInvariant, PTL

(* The same without a condition on the segments, for a send buffer of at   *)
(* most five times the mss, which no segment exceeds (TCP_SND_BUF).        *)
THEOREM SegmentsSafe ==
    ASSUME SegmentsRoom
    PROVE  SegmentsSpec => []SegmentsKept
<1>1. SegmentsInit => SegmentsInv
  BY SegmentsFirst
<1>2. SegmentsInv /\ [SegmentsNext]_segmentsVars => SegmentsInv'
  BY SegmentsStep, RoomAlways
<1>3. SegmentsInv => SegmentsKept
  BY InvKeeps
<1>4. QED
  BY <1>1, <1>2, <1>3, PTL DEF SegmentsSpec
-----------------------------------------------------------------------------
(* What each step is to the stream.  First: nothing but tcp_close changes  *)
(* whether the writer has closed, in a block that has such a field.        *)
Open(t, s) == "closed" \in DOMAIN t /\ t.closed = s.closed

LEMMA OutputOpen ==
    ASSUME NEW s, "closed" \in DOMAIN s
    PROVE  Open(tcp_output(s), s)
<1> DEFINE k == SentNow(s)
           gone == [i \in 1..k |-> [s.unsent[i] EXCEPT !.moved = TRUE]]
           rest == SubSeq(s.unsent, k + 1, Len(s.unsent))
           b == BySeq(s.unacked \o gone)
           n == IF k > 0 /\ SeqLt(s.snd_nxt, SeqEnd(s.unsent[k])) THEN SeqEnd(s.unsent[k]) ELSE s.snd_nxt
           o == IF rest = <<>> THEN 0 ELSE s.oversize
           r == s.running \/ k > 0
           p == s.persist \/ (rest # <<>> /\ Reach(s, rest[1]) > s.snd_wnd)
           t == [s EXCEPT !.unsent = rest, !.unacked = b, !.snd_nxt = n, !.running = r,
                          !.oversize = o, !.persist = p, !.memerr = FALSE]
<1>1. tcp_output(s) = t
  BY DEF tcp_output
<1> HIDE DEF k, gone, rest, b, n, o, r, p
<1>2. "closed" \in DOMAIN t /\ t.closed = s.closed
  OBVIOUS
<1>3. QED
  BY <1>1, <1>2 DEF Open

LEMMA WriteOpen ==
    ASSUME NEW s, "closed" \in DOMAIN s, NEW n
    PROVE  Open(tcp_write(s, n), s)
<1> DEFINE u == s.unsent
           has == u # <<>>
           tail == u[Len(u)]
           unit(first, len) == [i \in 1..len |-> written + first + i]
           used == IF has THEN Min({s.oversize, n}) ELSE 0
           room == mss - Len(tail.data) - used
           cat == IF has /\ Len(tail.data) > 0 /\ room # 0
                  THEN (IF room < 0 THEN n - used ELSE Min({room, n - used})) ELSE 0
           left == n - used - cat
           new == [i \in 1..((left + mss - 1) \div mss) |->
                     LET pos == used + cat + (i - 1) * mss
                     IN Segment(s.snd_lbb + pos, unit(pos, Min({mss, n - pos})))]
           v == (IF has THEN [u EXCEPT ![Len(u)].data = @ \o unit(0, used + cat)] ELSE u) \o new
           o == IF left > 0 THEN TCP_MSS - Len(new[Len(new)].data)
                ELSE IF cat > 0 THEN (TCP_MSS - cat) % 2^16
                ELSE IF has THEN s.oversize - used ELSE 0
           b == (s.snd_lbb + n) % SeqSpace
           c == s.snd_buf - n
           t == [s EXCEPT !.unsent = v, !.oversize = o, !.snd_lbb = b, !.snd_buf = c]
<1>1. tcp_write(s, n) = t
  BY DEF tcp_write
<1> HIDE DEF v, o, b, c
<1>2. "closed" \in DOMAIN t /\ t.closed = s.closed
  OBVIOUS
<1>3. QED
  BY <1>1, <1>2 DEF Open

LEMMA WindowOpen ==
    ASSUME NEW s, "closed" \in DOMAIN s, NEW a
    PROVE  Open(UpdateWindow(s, a), s)
BY DEF Open, UpdateWindow

LEMMA RexmitOpen ==
    ASSUME NEW s, "closed" \in DOMAIN s
    PROVE  Open(tcp_rexmit_fast(s), s)
<1> DEFINE u == Tail(s.unacked)
           v == BySeq(<<s.unacked[1]>> \o s.unsent)
           n == Retried(s.nrtx)
           h == ReducedThresh(s)
           c == Capped(ReducedThresh(s) + 3 * mss)
           t == [s EXCEPT !.unacked = u, !.unsent = v, !.nrtx = n, !.ssthresh = h, !.cwnd = c, !.infr = TRUE]
<1>1. tcp_rexmit_fast(s) = s \/ tcp_rexmit_fast(s) = t
  BY DEF tcp_rexmit_fast
<1> HIDE DEF u, v, n, h, c
<1>2. "closed" \in DOMAIN t /\ t.closed = s.closed
  OBVIOUS
<1>3. QED
  BY <1>1, <1>2 DEF Open

LEMMA DupAckOpen ==
    ASSUME NEW s, "closed" \in DOMAIN s, NEW a
    PROVE  Open(DupAck(s, a), s)
<1> DEFINE d == Min({s.dupacks + 1, 4})
           t == [s EXCEPT !.dupacks = d]
           c == Capped(t.cwnd + mss)
           r == [t EXCEPT !.cwnd = c]
           o == [s EXCEPT !.dupacks = 0]
<1>1. DupAck(s, a) \in {r, tcp_rexmit_fast(t), t, o}
  BY DEF DupAck
<1> HIDE DEF d
<1>2. "closed" \in DOMAIN t /\ t.closed = s.closed
  OBVIOUS
<1>3. Open(tcp_rexmit_fast(t), t)
  BY <1>2, RexmitOpen
<1>4. "closed" \in DOMAIN o /\ o.closed = s.closed
  OBVIOUS
<1> HIDE DEF c, t, o
<1>5. "closed" \in DOMAIN r /\ r.closed = t.closed
  BY <1>2
<1> HIDE DEF r
<1>6. QED
  BY <1>1, <1>2, <1>3, <1>4, <1>5 DEF Open

LEMMA AckedOpen ==
    ASSUME NEW s, "closed" \in DOMAIN s, NEW a
    PROVE  Open(DropUnsent(Acked(s, a), a), s)
<1>1. Open(NewAck(s, a), s)
  <2> DEFINE c == IF s.infr THEN s.ssthresh ELSE s.cwnd
             t == [s EXCEPT !.cwnd = c, !.infr = FALSE]
             rest == Unacknowledged(s.unacked, a.ack)
             b == t.snd_buf + Ahead(a.ack, s.lastack)
             g == Grown(t)
             r == rest # <<>>
             v == [t EXCEPT !.nrtx = 0, !.snd_buf = b, !.dupacks = 0,
                            !.lastack = a.ack, !.cwnd = g, !.unacked = rest, !.running = r]
  <2>1. NewAck(s, a) = v
    BY DEF NewAck
  <2> HIDE DEF c
  <2>2. "closed" \in DOMAIN t /\ t.closed = s.closed
    OBVIOUS
  <2> HIDE DEF t, rest, b, g, r
  <2>3. "closed" \in DOMAIN v /\ v.closed = t.closed
    BY <2>2
  <2>4. QED
    BY <2>1, <2>2, <2>3 DEF Open
<1> DEFINE t == Acked(s, a)
           v == Behind(t.unsent, {i \in 1..Len(t.unsent) : SeqBetween(a.ack, SeqEnd(t.unsent[i]), t.snd_nxt)})
           r == [t EXCEPT !.unsent = v]
<1>2. Open(t, s)
  BY <1>1, DupAckOpen DEF Acked, Open
<1>3. DropUnsent(t, a) = r
  BY DEF DropUnsent
<1> HIDE DEF t, v
<1>4. "closed" \in DOMAIN r /\ r.closed = t.closed
  BY <1>2 DEF Open
<1>5. QED
  BY <1>2, <1>3, <1>4 DEF Open, t

(* Steps that the stream does not see.                                     *)
LEMMA UnseenSteps ==
    ASSUME SegmentsInv, WriteFails \/ Retransmit \/ Probe \/ GivenUp \/ Poll \/ FastTimer
                        \/ tcp_recved \/ NetworkFault \/ UNCHANGED segmentsVars
    PROVE  UNCHANGED Stream!vars
<1>1. "closed" \in DOMAIN tcp
  BY InvIs DEF ControlBlock
<1>2. written' = written /\ reported' = reported /\ received' = received /\ eof' = eof
  BY DEF WriteFails, Retransmit, Probe, GivenUp, Poll, FastTimer, tcp_recved, NetworkFault, segmentsVars
<1>3. tcp'.closed = tcp.closed
  <2>1. CASE WriteFails \/ GivenUp
    BY <1>1, <2>1 DEF WriteFails, GivenUp
  <2>2. CASE Probe \/ FastTimer \/ tcp_recved \/ NetworkFault \/ UNCHANGED segmentsVars
    BY <2>2 DEF Probe, FastTimer, tcp_recved, NetworkFault, segmentsVars
  <2>3. CASE Poll
    BY <1>1, <2>3, OutputOpen DEF Poll, Open
  <2>4. CASE Retransmit
    <3> DEFINE h == ReducedThresh(tcp)
               n == Retried(tcp.nrtx)
               q == tcp.unacked \o tcp.unsent
               u == [tcp EXCEPT !.ssthresh = h, !.cwnd = mss, !.nrtx = n, !.unacked = <<>>, !.unsent = q]
    <3>1. tcp' = tcp_output(u)
      BY <2>4 DEF Retransmit
    <3> HIDE DEF h, n, q
    <3>2. "closed" \in DOMAIN u /\ u.closed = tcp.closed
      BY <1>1
    <3> HIDE DEF u
    <3>3. QED
      BY <3>1, <3>2, OutputOpen DEF Open
  <2>5. QED
    BY <2>1, <2>2, <2>3, <2>4
<1>4. QED
  BY <1>2, <1>3 DEF Stream!vars

(* The application writes.                                                 *)
LEMMA WriteAccepts ==
    ASSUME SegmentsInv, NEW n \in WriteSizes, Write(n)
    PROVE  Stream!Next
<1>1. "closed" \in DOMAIN tcp /\ written \in Nat /\ Units \in Nat /\ n \in Nat \ {0}
  BY InvIs, SegmentsConstants DEF ControlBlock
<1>2. /\ ~tcp.closed /\ written + n <= Units /\ tcp' = tcp_output(tcp_write(tcp, n))
      /\ written' = written + n /\ reported' = reported /\ received' = received /\ eof' = eof
  BY DEF Write, CanWrite
<1>3. tcp'.closed = tcp.closed
  <2>1. Open(tcp_write(tcp, n), tcp)
    BY <1>1, WriteOpen
  <2>2. Open(tcp_output(tcp_write(tcp, n)), tcp_write(tcp, n))
    BY <2>1, OutputOpen DEF Open
  <2>3. QED
    BY <1>2, <2>1, <2>2 DEF Open
<1>4. Stream!Accept(n)
  BY <1>2, <1>3 DEF Stream!Accept
<1>5. n \in 1 .. (Units - written)
  BY <1>1, <1>2
<1>6. QED
  BY <1>4, <1>5 DEF Stream!Next

(* It closes.                                                              *)
LEMMA CloseCloses ==
    ASSUME SegmentsInv, Close
    PROVE  Stream!Next
<1> DEFINE u == tcp_send_fin(tcp)
<1>1. /\ ~tcp.dead /\ ~tcp.closed /\ tcp' = tcp_output(u)
      /\ written' = written /\ reported' = reported /\ received' = received /\ eof' = eof
  BY DEF Close
<1>2. PICK x \in Seq(Segments) : u \in ControlBlock /\ Finished(u, tcp, x)
  BY <1>1, InvIs, FinIs
<1> HIDE DEF u
<1>3. u.closed = TRUE /\ "closed" \in DOMAIN u
  BY <1>2 DEF Finished, ControlBlock
<1>4. tcp'.closed = TRUE
  BY <1>1, <1>3, OutputOpen DEF Open
<1>5. Stream!Close
  BY <1>1, <1>4 DEF Stream!Close
<1>6. QED
  BY <1>5 DEF Stream!Next

(* A frame that is taken gives its units, and the end if it has it.        *)
LEMMA DeliverDataGives ==
    ASSUME SegmentsInv, SegmentsInv', DeliverData
    PROVE  Stream!Next \/ UNCHANGED Stream!vars
<1> DEFINE g == Head(wire)
           f == Trimmed(g)
           d == f.data
           l == Len(received)
           n == Len(d)
<1>1. wire # <<>> /\ tcp' = tcp /\ written' = written /\ reported' = reported
  BY DEF DeliverData
<1>2. /\ peer \in PeerBlock /\ wire \in Seq(FrameSet) /\ received \in Seq(Nat) /\ eof \in BOOLEAN
      /\ FramesFit(wire, tcp, written) /\ Taken(peer, received, eof, tcp, written)
      /\ tcp \in ControlBlock /\ written \in 0 .. Units
  BY InvIs DEF Around
<1>3. CASE ~(peer.rcv_wnd > 0 /\ f.seq = peer.rcv_nxt)
  <2>1. received' = received /\ eof' = eof
    BY <1>3 DEF DeliverData
  <2>2. QED
    BY <1>1, <2>1 DEF Stream!vars
<1>4. CASE peer.rcv_wnd > 0 /\ f.seq = peer.rcv_nxt
  <2>1. received' = received \o d /\ eof' = (eof \/ f.fin)
    BY <1>4 DEF DeliverData
  <2>2. f \in FrameSet
    <3>1. g \in FrameSet /\ 1 \in 1 .. Len(wire) /\ g = wire[1]
      BY <1>1, <1>2, TailFrom
    <3>2. PieceOf(g, {HeaderByte}, written, tcp.closed) /\ tcp.closed \in BOOLEAN
      BY <1>2, <3>1, BlockNumbers DEF FramesFit
    <3>3. At(peer.rcv_nxt) <= Units + 1
      BY <1>2, TakenIs
    <3> HIDE DEF g
    <3>4. QED
      BY <1>2, <1>4, <3>1, <3>2, <3>3, TrimmedIs
  <2> HIDE DEF f
  <2>3. d \in Seq(Nat) /\ f.fin \in BOOLEAN
    BY <2>2 DEF FrameSet
  <2> HIDE DEF d
  <2>4. /\ l \in Nat /\ n \in Nat /\ written \in Nat /\ Len(received') = l + n
        /\ \A i \in 1 .. n : received'[l + i] = d[i]
    <3>1. /\ Len(received \o d) = l + n
          /\ \A i \in 1 .. n : (received \o d)[l + i] = d[i]
      <4>1. received \in Seq(Nat) /\ d \in Seq(Nat)
        BY <1>2, <2>3
      <4>2. /\ Len(received \o d) = Len(received) + Len(d)
            /\ \A i \in 1 .. Len(d) : (received \o d)[Len(received) + i] = d[i]
        BY ONLY <4>1, JoinParts
      <4>3. QED
        BY <4>2
    <3>2. l \in Nat /\ n \in Nat
      BY <1>2, <2>3, LenProperties
    <3>3. written \in Nat
      BY <1>2, SegmentsConstants
    <3>4. QED
      BY <2>1, <3>1, <3>2, <3>3
  <2>5. /\ Len(received') <= written /\ eof' \in BOOLEAN
        /\ eof' => tcp.closed /\ Len(received') = written
        /\ \A i \in 1 .. Len(received') : received'[i] \in {i, HeaderByte}
    <3>1. (Taken(peer, received, eof, tcp, written))' /\ eof' \in BOOLEAN
      BY DEF SegmentsInv, SegmentsTyped
    <3>2. QED
      BY <1>1, <3>1 DEF Taken
  <2>6. CASE eof
    <3>1. l = written
      BY <1>2, <2>6 DEF Taken
    <3>2. n = 0
      BY <2>4, <2>5, <3>1
    <3>3. received' = received /\ eof' = eof
      BY <1>2, <2>1, <2>3, <2>6, <3>2, EmptySeq, ConcatEmptySeq
    <3>4. QED
      BY <1>1, <3>3 DEF Stream!vars
  <2>7. CASE ~eof
    <3> DEFINE places == {i \in 1 .. n : d[i] = HeaderByte}
               h == [i \in 1 .. n |-> IF i \in places THEN HeaderByte ELSE l + i]
    <3>1. d = h
      <4>1. d = [i \in 1 .. n |-> d[i]]
        BY <2>3
      <4>2. \A i \in 1 .. n : d[i] = IF i \in places THEN HeaderByte ELSE l + i
        <5> SUFFICES ASSUME NEW i \in 1 .. n, d[i] # HeaderByte PROVE d[i] = l + i
          OBVIOUS
        <5>1. l + i \in 1 .. Len(received')
          BY <2>4
        <5>2. QED
          BY <2>4, <2>5, <5>1
      <4>3. QED
        BY <4>1, <4>2
    <3>2. places \in SUBSET (1 .. n)
      OBVIOUS
    <3>3. received' = received \o h
      BY <2>1, <3>1
    <3> HIDE DEF places
    <3>4. n \in 0 .. (written - l)
      BY <2>4, <2>5
    <3>5. Stream!Give(n, places)
      BY <1>1, <2>4, <2>5, <2>7, <3>3 DEF Stream!Give
    <3>6. QED
      BY <3>2, <3>4, <3>5 DEF Stream!Next
  <2>8. QED
    BY <2>6, <2>7
<1>5. QED
  BY <1>3, <1>4

(* An acknowledgement of something new is reported, with what is written   *)
(* in the callback; any other is not seen.                                 *)
LEMMA DeliverAckReports ==
    ASSUME SegmentsInv, SegmentsInv', SegmentsKept', NEW n \in {0} \cup WriteSizes, DeliverAck(n)
    PROVE  Stream!Next \/ UNCHANGED Stream!vars
<1> DEFINE a == Head(acks)
           s == UpdateWindow(tcp, a)
           t == DropUnsent(Acked(s, a), a)
           told == AckedUnits(tcp, t, a)
           u == IF n = 0 THEN t ELSE tcp_write(t, n)
<1>1. acks # <<>> /\ received' = received /\ eof' = eof
  BY DEF DeliverAck
<1>2. CASE tcp.dead
  BY <1>1, <1>2 DEF DeliverAck, Stream!vars
<1>3. CASE ~tcp.dead
  <2>1. /\ n > 0 => told > 0 /\ CanWrite(t, n)
        /\ tcp' = tcp_output(u) /\ written' = written + n /\ reported' = reported + told
    BY <1>3 DEF DeliverAck
  <2>2. "closed" \in DOMAIN tcp
    BY InvIs DEF ControlBlock
  <2>3. Open(s, tcp) /\ Open(t, s)
    BY <2>2, WindowOpen, AckedOpen DEF Open
  <2>4. told \in Nat
    <3>1. /\ Heard(a, tcp, peer, Tail(acks))
          /\ Around(tcp, written, peer, Tail(acks), wire, received, eof, reported)
      BY <1>1, HeardFirst
    <3>2. /\ tcp \in ControlBlock /\ written \in 0 .. Units /\ reported \in Nat
          /\ SenderFits(tcp, written)
      BY <1>3, InvIs
    <3>3. CASE ~IsNew(tcp, a)
      BY <3>3 DEF AckedUnits
    <3>4. CASE IsNew(tcp, a)
      <4> HIDE DEF a
      <4>1. a.ack \in Int /\ At(a.ack) <= Units + 1
        BY <3>1, HeardIs
      <4>2. At(tcp.lastack) <= Units + 1 /\ At(tcp.snd_nxt) <= Units + 1
        BY <3>2, CountsNumbers DEF SenderFits
      <4>3. At(tcp.lastack) < At(a.ack) /\ At(a.ack) <= At(tcp.snd_nxt)
        BY <3>2, <3>4, <4>1, <4>2, NewIs
      <4>4. QED
        BY <3>1, <3>2, <4>3, NewAckKeeps
    <3>5. QED
      BY <3>3, <3>4
  <2> HIDE DEF a, s, t, told
  <2>5. Open(u, t)
    <3>1. "closed" \in DOMAIN t
      BY <2>3 DEF Open
    <3>2. QED
      BY <3>1, WriteOpen DEF Open
  <2> HIDE DEF u
  <2>6. tcp'.closed = tcp.closed /\ t.closed = tcp.closed
    BY <2>1, <2>3, <2>5, OutputOpen DEF Open
  <2>7. /\ written \in Nat /\ reported \in Nat /\ Units \in Nat /\ Len(received) \in Nat /\ n \in Nat
        /\ written' <= Units
    BY <1>1, InvIs, SegmentsConstants, LenProperties DEF SegmentsInv, SegmentsTyped
  <2>8. reported' <= Len(received)
    <3>1. StreamInPlace'
      BY DEF SegmentsKept
    <3>2. QED
      BY <1>1, <3>1 DEF StreamInPlace
  <2>9. CASE told = 0
    <3>1. n = 0 /\ reported' = reported /\ written' = written
      BY <2>1, <2>7, <2>9
    <3>2. QED
      BY <1>1, <2>6, <3>1 DEF Stream!vars
  <2>10. CASE told # 0
    <3>1. told \in 1 .. (Len(received) - reported) /\ n \in 0 .. (Units - written)
      BY <2>1, <2>4, <2>7, <2>8, <2>10
    <3>2. n > 0 => ~tcp.closed
      BY <2>1, <2>6 DEF CanWrite
    <3>3. Stream!Report(told, n)
      BY <1>1, <2>1, <2>6, <3>2 DEF Stream!Report
    <3>4. QED
      BY <3>1, <3>3 DEF Stream!Next
  <2>11. QED
    BY <2>9, <2>10
<1>4. QED
  BY <1>2, <1>3

LEMMA StreamFirst ==
    ASSUME SegmentsInit
    PROVE  Stream!Init
BY DEF SegmentsInit, Stream!Init

LEMMA StreamSteps ==
    ASSUME SegmentsInv, SegmentsInv', SegmentsKept', [SegmentsNext]_segmentsVars
    PROVE  [Stream!Next]_(Stream!vars)
<1>1. CASE \E n \in WriteSizes : Write(n)
  BY <1>1, WriteAccepts
<1>2. CASE Close
  BY <1>2, CloseCloses
<1>3. CASE DeliverData
  BY <1>3, DeliverDataGives
<1>4. CASE \E n \in {0} \cup WriteSizes : DeliverAck(n)
  BY <1>4, DeliverAckReports
<1>5. CASE WriteFails \/ Retransmit \/ Probe \/ GivenUp \/ Poll \/ FastTimer
           \/ tcp_recved \/ NetworkFault \/ UNCHANGED segmentsVars
  BY <1>5, UnseenSteps
<1>6. QED
  BY <1>1, <1>2, <1>3, <1>4, <1>5 DEF SegmentsNext

(* The transfer of data implements the stream: units come out in their     *)
(* order and once, none is reported before, and the end comes last,        *)
(* whatever is lost, doubled or sent again (tcp_write, tcp_close,          *)
(* tcp_input), as long as the oldest segment never exceeds five times the  *)
(* mss.                                                                    *)
THEOREM StreamWhileShort == SegmentsSpec /\ []OldestFits => ImplementsStream
<1>1. SegmentsInit => Stream!Init
  BY StreamFirst
<1>2. SegmentsInv /\ SegmentsInv' /\ SegmentsKept' /\ [SegmentsNext]_segmentsVars => [Stream!Next]_(Stream!vars)
  BY StreamSteps
<1>3. SegmentsInv => SegmentsKept
  BY InvKeeps
<1>4. QED
  BY <1>1, <1>2, <1>3, SegmentsInvariant, PTL DEF SegmentsSpec, ImplementsStream, Stream!Spec

(* The same without a condition on the segments, for a send buffer of at   *)
(* most five times the mss (TCP_SND_BUF).                                  *)
THEOREM StreamImplemented ==
    ASSUME SegmentsRoom
    PROVE  SegmentsSpec => ImplementsStream
<1>1. SegmentsInit => SegmentsInv /\ Stream!Init
  BY SegmentsFirst, StreamFirst
<1>2. SegmentsInv /\ [SegmentsNext]_segmentsVars => SegmentsInv'
  BY SegmentsStep, RoomAlways
<1>3. SegmentsInv /\ SegmentsInv' /\ SegmentsKept' /\ [SegmentsNext]_segmentsVars => [Stream!Next]_(Stream!vars)
  BY StreamSteps
<1>4. SegmentsInv => SegmentsKept
  BY InvKeeps
<1>5. QED
  BY <1>1, <1>2, <1>3, <1>4, PTL DEF SegmentsSpec, ImplementsStream, Stream!Spec
=============================================================================
