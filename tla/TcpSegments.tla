---------------------------- MODULE TcpSegments ----------------------------
(***************************************************************************)
(* lwIP's transfer of data over one established connection                 *)
(* (apps/07switch/lwip/core/tcp_out.c, tcp_in.c, tcp.c): the sending half, *)
(* which cuts what is written into segments, keeps them until they are     *)
(* acknowledged, sends them again and probes a closed window; and the      *)
(* receiving half, at the other end, which trims, acknowledges and reports *)
(* its window.  Between them a network that delivers in order but for a    *)
(* number of faults: a frame lost, doubled or overtaken, or a timer that   *)
(* goes off while an answer is on its way.                                 *)
(*                                                                         *)
(* The data is numbered: unit k is the k-th one written.  Sequence numbers *)
(* are taken modulo SeqSpace, as the code takes them modulo 2^32.          *)
(***************************************************************************)
EXTENDS Integers, SequencesExt

CONSTANTS
  Units,        \* how much the application has to send
  WriteSizes,   \* in writes of one of these sizes
  mss,          \* pcb->mss of the sender: the peer's, at most TCP_MSS
  TCP_MSS, TCP_SND_BUF, TCP_WND, TCP_MAXRTX,
  SeqSpace,       \* sequence numbers wrap here
  MaxFaults     \* how often the network or a timer misbehaves

ASSUME SegmentsAssumption ==
  /\ {Units, mss, TCP_MSS, TCP_SND_BUF, TCP_WND, TCP_MAXRTX, SeqSpace, MaxFaults} \subseteq Nat
  /\ WriteSizes \subseteq Nat \ {0}
  /\ mss > 0 /\ mss <= TCP_MSS /\ TCP_MAXRTX > 0
  /\ TCP_WND >= 2 * TCP_MSS          \* lwipopts.h: "for things to work well"
  /\ TCP_SND_BUF <= 2 * TCP_MSS      \* lwipopts.h
  /\ SeqSpace > 2 * (Units + 2 * TCP_WND)

VARIABLES
  tcp,          \* the sender's control block
  peer,         \* the receiver's control block
  wire,         \* the data segments on their way
  acks,         \* the acknowledgements on their way
  written,      \* how many units tcp_write took
  reported,     \* how many the sent callback was told of
  received,     \* the units the receiver was given
  eof,          \* was the receiver told of the end?
  faults

segmentsVars == <<tcp, peer, wire, acks, written, reported, received, eof, faults>>
----------------------------------------------------------------------------
(* Sequence numbers: the macros TCP_SEQ_LT, TCP_SEQ_LEQ, TCP_SEQ_BETWEEN.  *)
Ahead(a, b) == (a - b) % SeqSpace
SeqLt(a, b) == Ahead(a, b) >= SeqSpace \div 2
SeqLeq(a, b) == Ahead(a, b) = 0 \/ SeqLt(a, b)
SeqBetween(a, b, c) == SeqLeq(b, a) /\ SeqLeq(a, c)

\* Two numbers before the wrap, so that a transfer crosses it.
FirstSeq == SeqSpace - 2

\* A segment: `moved` says that its pbuf points at the headers that were put
\* before it when it was sent.
Segment(seq, units) == [seq |-> seq % SeqSpace, data |-> units, fin |-> FALSE, moved |-> FALSE]
Frame(seq, units, fin) == [seq |-> seq, data |-> units, fin |-> fin]
TcpLen(seg) == Len(seg.data) + (IF seg.fin THEN 1 ELSE 0)
SeqEnd(seg) == (seg.seq + TcpLen(seg)) % SeqSpace

\* What a read through the wrong pointer finds instead of a unit.
HeaderByte == 0

\* How many of the first n positions, from the first one on, are in P.
Leading(n, P) == Min((1..(n + 1)) \ P) - 1

\* A queue in the order of its sequence numbers.
BySeq(q) ==
  LET before(i) == {j \in 1..Len(q) : SeqLt(q[j].seq, q[i].seq)}
  IN [k \in 1..Len(q) |-> q[CHOOSE i \in 1..Len(q) : Cardinality(before(i)) = k - 1]]

\* More retransmissions than TCP_MAXRTX are not told apart.
Retried(n) == Min({n + 1, TCP_MAXRTX + 1})

Capped(n) == Min({n, TCP_WND})       \* windows beyond TCP_WND act like TCP_WND
----------------------------------------------------------------------------
SegmentsInit ==
  /\ tcp = [unsent |-> <<>>, unacked |-> <<>>, snd_nxt |-> FirstSeq, lastack |-> FirstSeq,
            snd_lbb |-> FirstSeq, snd_buf |-> TCP_SND_BUF, oversize |-> 0,
            snd_wnd |-> TCP_WND, snd_wl2 |-> FirstSeq, cwnd |-> mss,
            ssthresh |-> Capped(10 * mss), dupacks |-> 0, nrtx |-> 0,
            running |-> FALSE, persist |-> FALSE, memerr |-> FALSE, infr |-> FALSE,
            tf_fin |-> FALSE, closed |-> FALSE, dead |-> FALSE]
  /\ peer = [rcv_nxt |-> FirstSeq, rcv_wnd |-> TCP_WND, ann_wnd |-> TCP_WND,
             ann_edge |-> (FirstSeq + TCP_WND) % SeqSpace, ack_delay |-> FALSE, unread |-> 0]
  /\ wire = <<>> /\ acks = <<>>
  /\ written = 0 /\ reported = 0 /\ received = <<>> /\ eof = FALSE
  /\ faults = 0
----------------------------------------------------------------------------
(* tcp_output: send from the head of unsent as far as the windows and the  *)
(* Nagle algorithm allow, move what was sent to unacked, and start the     *)
(* persist timer when the peer's window stops the next segment.            *)
Reach(s, seg) == (seg.seq - s.lastack + Len(seg.data)) % SeqSpace

tcp_do_output_nagle(s, i) ==
  \/ i = 1 /\ s.unacked = <<>>
  \/ s.infr
  \/ i < Len(s.unsent)
  \/ Len(s.unsent[i].data) >= mss

MaySend(s, i) ==
  /\ Reach(s, s.unsent[i]) <= Min({s.snd_wnd, s.cwnd})
  /\ tcp_do_output_nagle(s, i) \/ s.memerr \/ s.tf_fin

SentNow(s) == Leading(Len(s.unsent), {i \in 1..Len(s.unsent) : MaySend(s, i)})

Frames(s) ==
  [i \in 1..SentNow(s) |-> Frame(s.unsent[i].seq, s.unsent[i].data, s.unsent[i].fin)]

BugOutputForgetsTimer(s) ==
  LET k == SentNow(s)
      gone == [i \in 1..k |-> [s.unsent[i] EXCEPT !.moved = TRUE]]
      rest == SubSeq(s.unsent, k + 1, Len(s.unsent))
  IN [s EXCEPT
       !.unsent = rest,
       !.unacked = BySeq(@ \o gone),
       !.snd_nxt = IF k > 0 /\ SeqLt(@, SeqEnd(s.unsent[k])) THEN SeqEnd(s.unsent[k]) ELSE @,
       !.oversize = IF rest = <<>> THEN 0 ELSE @,
       !.persist = @ \/ (rest # <<>> /\ Reach(s, rest[1]) > s.snd_wnd),
       !.memerr = FALSE]

tcp_output(s) ==
  LET k == SentNow(s)
      gone == [i \in 1..k |-> [s.unsent[i] EXCEPT !.moved = TRUE]]
      rest == SubSeq(s.unsent, k + 1, Len(s.unsent))
  IN [s EXCEPT
       !.unsent = rest,
       !.unacked = BySeq(@ \o gone),
       !.snd_nxt = IF k > 0 /\ SeqLt(@, SeqEnd(s.unsent[k])) THEN SeqEnd(s.unsent[k]) ELSE @,
       !.running = @ \/ k > 0,
       !.oversize = IF rest = <<>> THEN 0 ELSE @,
       !.persist = @ \/ (rest # <<>> /\ Reach(s, rest[1]) > s.snd_wnd),
       !.memerr = FALSE]
----------------------------------------------------------------------------
(* tcp_write of the next n units, in its three phases: into the spare room *)
(* of the last pbuf, into a pbuf chained to the last unsent segment, into  *)
(* new segments.  Every pbuf is allocated for TCP_MSS units, whatever room *)
(* the segment has left and whatever the mss; the room is a u16 and wraps  *)
(* when phase 1 took more than there was, and the spare room of the new    *)
(* pbuf wraps when that makes phase 2 take more than TCP_MSS.              *)
tcp_write(s, n) ==
  LET u == s.unsent
      has == u # <<>>
      tail == u[Len(u)]
      unit(first, len) == [i \in 1..len |-> written + first + i]
      used == IF has THEN Min({s.oversize, n}) ELSE 0
      room == mss - Len(tail.data) - used
      cat == IF has /\ Len(tail.data) > 0 /\ room # 0
             THEN (IF room < 0 THEN n - used ELSE Min({room, n - used})) ELSE 0
      left == n - used - cat
      new == [i \in 1..((left + mss - 1) \div mss) |->
                LET pos == used + cat + (i - 1) * mss
                IN Segment(s.snd_lbb + pos, unit(pos, Min({mss, n - pos})))]
  IN [s EXCEPT
       !.unsent = (IF has THEN [u EXCEPT ![Len(u)].data = @ \o unit(0, used + cat)] ELSE u) \o new,
       !.oversize = IF left > 0 THEN TCP_MSS - Len(new[Len(new)].data)
                    ELSE IF cat > 0 THEN (TCP_MSS - cat) % 2^16
                    ELSE IF has THEN @ - used ELSE 0,
       !.snd_lbb = (@ + n) % SeqSpace,
       !.snd_buf = @ - n]

\* The application writes, out of the sent callback or in it: espconn_tcp_sent
\* as much as fits, and at most two segments.
CanWrite(s, n) == ~s.closed /\ n <= s.snd_buf /\ n <= 2 * mss /\ written + n <= Units

Write(n) ==
  /\ ~tcp.dead /\ CanWrite(tcp, n)
  /\ \E s \in {tcp_write(tcp, n)} : tcp' = tcp_output(s) /\ wire' = wire \o Frames(s)
  /\ written' = written + n
  /\ UNCHANGED <<peer, acks, reported, received, eof, faults>>

\* tcp_write finds no memory, or too much in the queue.
WriteFails ==
  /\ ~tcp.dead /\ ~tcp.closed /\ ~tcp.memerr /\ written < Units
  /\ tcp' = [tcp EXCEPT !.memerr = TRUE]
  /\ UNCHANGED <<peer, wire, acks, written, reported, received, eof, faults>>

(* tcp_close: tcp_send_fin puts the FIN into the last unsent segment, else *)
(* tcp_enqueue_flags makes one of it, for which the send buffer must have  *)
(* room; without it the close fails.                                       *)
tcp_send_fin(s) ==
  IF s.unsent # <<>>
  THEN [s EXCEPT !.unsent[Len(s.unsent)].fin = TRUE, !.closed = TRUE]
  ELSE [s EXCEPT !.unsent = <<[Segment(s.snd_lbb, <<>>) EXCEPT !.fin = TRUE]>>,
                 !.oversize = 0, !.snd_lbb = (@ + 1) % SeqSpace, !.snd_buf = @ - 1,
                 !.tf_fin = TRUE, !.closed = TRUE]

Close ==
  /\ ~tcp.dead /\ ~tcp.closed /\ written = Units
  /\ tcp.unsent # <<>> \/ tcp.snd_buf > 0
  /\ \E s \in {tcp_send_fin(tcp)} : tcp' = tcp_output(s) /\ wire' = wire \o Frames(s)
  /\ UNCHANGED <<peer, acks, written, reported, received, eof, faults>>
----------------------------------------------------------------------------
(* tcp_slowtmr.  A timer that goes off while something is on its way has   *)
(* gone off too early: that is one of the faults.                          *)
NothingUnderWay == wire = <<>> /\ acks = <<>> /\ ~peer.ack_delay
TimerMayGoOff == IF NothingUnderWay THEN faults' = faults
                 ELSE faults < MaxFaults /\ faults' = faults + 1

ReducedThresh(s) == Capped(Max({Min({s.cwnd, s.snd_wnd}) \div 2, 2 * mss}))

\* The retransmission timer: everything unacknowledged is unsent again.
Retransmit ==
  /\ ~tcp.dead /\ tcp.nrtx # TCP_MAXRTX
  /\ ~tcp.persist /\ tcp.running /\ tcp.unacked # <<>>
  /\ TimerMayGoOff
  /\ \E s \in {[tcp EXCEPT !.ssthresh = ReducedThresh(tcp), !.cwnd = mss, !.nrtx = Retried(@),
                            !.unacked = <<>>, !.unsent = tcp.unacked \o @]} :
       tcp' = tcp_output(s) /\ wire' = wire \o Frames(s)
  /\ UNCHANGED <<peer, acks, written, reported, received, eof>>

\* tcp_zero_window_probe: one unit of the oldest segment, read through the
\* pbuf's pointer, which a segment that was sent has left at its headers.
Probed == IF tcp.unacked # <<>> THEN tcp.unacked[1] ELSE tcp.unsent[1]

ProbeFrame(seg) ==
  IF seg.fin /\ seg.data = <<>> THEN Frame(seg.seq, <<>>, TRUE)
  ELSE Frame(seg.seq, IF seg.moved THEN <<HeaderByte>> ELSE <<seg.data[1]>>, FALSE)

Probe ==
  /\ ~tcp.dead /\ tcp.nrtx # TCP_MAXRTX
  /\ tcp.persist /\ (tcp.unacked # <<>> \/ tcp.unsent # <<>>)
  /\ TimerMayGoOff
  /\ wire' = Append(wire, ProbeFrame(Probed))
  /\ UNCHANGED <<tcp, peer, acks, written, reported, received, eof>>

\* TCP_MAXRTX retransmissions were in vain: the connection is removed.
GivenUp ==
  /\ ~tcp.dead /\ tcp.nrtx = TCP_MAXRTX
  /\ tcp' = [tcp EXCEPT !.dead = TRUE, !.unsent = <<>>, !.unacked = <<>>]
  /\ UNCHANGED <<peer, wire, acks, written, reported, received, eof, faults>>

\* The application is polled, and tcp_output called.
Poll ==
  /\ ~tcp.dead /\ tcp_output(tcp) # tcp
  /\ tcp' = tcp_output(tcp) /\ wire' = wire \o Frames(tcp)
  /\ UNCHANGED <<peer, acks, written, reported, received, eof, faults>>
----------------------------------------------------------------------------
(* tcp_receive, the part for acknowledgements.                             *)
UpdateWindow(s, a) ==
  IF SeqLt(s.snd_wl2, a.ack) \/ (s.snd_wl2 = a.ack /\ a.wnd > s.snd_wnd)
  THEN [s EXCEPT !.snd_wnd = a.wnd, !.snd_wl2 = a.ack, !.persist = @ /\ a.wnd = 0]
  ELSE s

\* tcp_rexmit_fast: the oldest segment is unsent again, the window reduced.
tcp_rexmit_fast(s) ==
  IF s.unacked = <<>> \/ s.infr THEN s
  ELSE [s EXCEPT
         !.unacked = Tail(@),
         !.unsent = BySeq(<<s.unacked[1]>> \o @),
         !.nrtx = Retried(@), !.ssthresh = ReducedThresh(s),
         !.cwnd = Capped(ReducedThresh(s) + 3 * mss), !.infr = TRUE]

\* An acknowledgement of nothing new, s being the control block after its
\* window was updated.  Four duplicates stand for more.
DupAck(s, a) ==
  IF (s.snd_wl2 + s.snd_wnd - tcp.snd_wl2 - tcp.snd_wnd) % SeqSpace = 0
     /\ s.running /\ a.ack = s.lastack
  THEN LET d == Min({s.dupacks + 1, 4})
           t == [s EXCEPT !.dupacks = d]
       IN IF d > 3 THEN [t EXCEPT !.cwnd = Capped(@ + mss)]
          ELSE IF d = 3 THEN tcp_rexmit_fast(t) ELSE t
  ELSE [s EXCEPT !.dupacks = 0]

Grown(s) ==
  Capped(IF s.cwnd < s.ssthresh THEN s.cwnd + mss ELSE s.cwnd + ((mss * mss) \div s.cwnd))

\* The queue from the first segment on that is not acknowledged to its end.
Behind(q, done) == SubSeq(q, Leading(Len(q), done) + 1, Len(q))
BugPartlyIsWhole(q, ack) == Behind(q, {i \in 1..Len(q) : SeqLt(q[i].seq, ack)})
Unacknowledged(q, ack) == Behind(q, {i \in 1..Len(q) : SeqLeq(SeqEnd(q[i]), ack)})

NewAck(s, a) ==
  LET t == [s EXCEPT !.cwnd = IF s.infr THEN s.ssthresh ELSE @, !.infr = FALSE]
      rest == Unacknowledged(s.unacked, a.ack)
  IN [t EXCEPT !.nrtx = 0, !.snd_buf = @ + Ahead(a.ack, s.lastack), !.dupacks = 0,
               !.lastack = a.ack, !.cwnd = Grown(t), !.unacked = rest, !.running = rest # <<>>]

IsNew(s, a) == SeqBetween(a.ack, (s.lastack + 1) % SeqSpace, s.snd_nxt)

\* Retransmitted segments may be acknowledged while they wait to be sent.
DropUnsent(s, a) ==
  [s EXCEPT !.unsent =
     Behind(@, {i \in 1..Len(@) : SeqBetween(a.ack, SeqEnd(s.unsent[i]), s.snd_nxt)})]

Acked(s, a) ==
  IF SeqLeq(a.ack, s.lastack) THEN DupAck(s, a) ELSE IF IsNew(s, a) THEN NewAck(s, a) ELSE s

BugFinCounted(s, t, a) == IF ~IsNew(s, a) THEN 0 ELSE Ahead(a.ack, s.lastack)

\* How much the sent callback is told, t being what the acknowledgement leaves
\* of s: a FIN does not count.
AckedUnits(s, t, a) ==
  LET Fins(r) == {seg \in ToSet(r.unacked \o r.unsent) : seg.fin}
  IN IF ~IsNew(s, a) THEN 0
     ELSE Ahead(a.ack, s.lastack) - Cardinality(Fins(s)) + Cardinality(Fins(t))

\* tcp_input of an acknowledgement: tcp_receive, the sent callback, in which
\* the application may write n more units, and tcp_output.
DeliverAck(n) ==
  /\ acks # <<>> /\ acks' = Tail(acks)
  /\ IF tcp.dead
     THEN n = 0 /\ UNCHANGED <<tcp, wire, written, reported>>
     ELSE \E a \in {Head(acks)} : \E s \in {UpdateWindow(tcp, a)} :
          \E t \in {DropUnsent(Acked(s, a), a)} : \E told \in {AckedUnits(tcp, t, a)} :
          \E u \in {IF n = 0 THEN t ELSE tcp_write(t, n)} :
            /\ n > 0 => told > 0 /\ CanWrite(t, n)
            /\ tcp' = tcp_output(u) /\ wire' = wire \o Frames(u)
            /\ written' = written + n /\ reported' = reported + told
  /\ UNCHANGED <<peer, received, eof, faults>>
----------------------------------------------------------------------------
(* The receiving half.                                                     *)
tcp_update_rcv_ann_wnd(p) ==
  LET right == (p.rcv_nxt + p.rcv_wnd) % SeqSpace
  IN [p EXCEPT !.ann_wnd =
        IF SeqLeq(p.ann_edge + Min({TCP_WND \div 2, TCP_MSS}), right) THEN p.rcv_wnd
        ELSE IF SeqLt(p.ann_edge, p.rcv_nxt) THEN 0
        ELSE Ahead(p.ann_edge, p.rcv_nxt)]

\* tcp_send_empty_ack
Acknowledge(p) ==
  /\ peer' = [p EXCEPT !.ann_edge = (p.rcv_nxt + p.ann_wnd) % SeqSpace, !.ack_delay = FALSE]
  /\ acks' = Append(acks, [ack |-> p.rcv_nxt, wnd |-> p.ann_wnd])

\* What is left of a frame after trimming its front to rcv_nxt and its end to
\* the window.
Trimmed(f) ==
  LET g == IF SeqBetween(peer.rcv_nxt, (f.seq + 1) % SeqSpace, (f.seq + TcpLen(f) - 1) % SeqSpace)
           THEN Frame(peer.rcv_nxt,
                      SubSeq(f.data, Ahead(peer.rcv_nxt, f.seq) + 1, Len(f.data)), f.fin)
           ELSE f
  IN IF TcpLen(g) > peer.rcv_wnd
     THEN Frame(g.seq, SubSeq(g.data, 1, peer.rcv_wnd), FALSE) ELSE g

\* tcp_receive, the part for data: the next in sequence is taken, and
\* acknowledged at once when it is the end or the second since the last
\* acknowledgement; anything else is answered and dropped.
DeliverData ==
  /\ wire # <<>> /\ wire' = Tail(wire)
  /\ \E f \in {Trimmed(Head(wire))} :
       IF peer.rcv_wnd > 0 /\ f.seq = peer.rcv_nxt
       THEN \E p \in {tcp_update_rcv_ann_wnd(
                        [peer EXCEPT !.rcv_nxt = SeqEnd(f), !.rcv_wnd = @ - TcpLen(f),
                                     !.unread = @ + Len(f.data)])} :
            \E q \in {[p EXCEPT !.rcv_wnd = IF f.fin /\ @ # TCP_WND THEN @ + 1 ELSE @]} :
              /\ received' = received \o f.data
              /\ eof' = (eof \/ f.fin)
              /\ IF f.fin \/ peer.ack_delay THEN Acknowledge(q)
                 ELSE peer' = [q EXCEPT !.ack_delay = TRUE] /\ acks' = acks
       ELSE Acknowledge(peer) /\ UNCHANGED <<received, eof>>
  /\ UNCHANGED <<tcp, written, reported, faults>>

\* tcp_fasttmr: the delayed acknowledgement.
FastTimer ==
  /\ peer.ack_delay
  /\ Acknowledge(peer)
  /\ UNCHANGED <<tcp, wire, written, reported, received, eof, faults>>

\* tcp_recved: the application has processed what it was given; a window that
\* has grown by a quarter is announced.
tcp_recved ==
  /\ peer.unread > 0
  /\ \E p \in {tcp_update_rcv_ann_wnd(
                 [peer EXCEPT !.rcv_wnd = Min({@ + peer.unread, TCP_WND}), !.unread = 0])} :
       IF p.ann_wnd = p.rcv_wnd /\ Ahead(p.rcv_nxt + p.rcv_wnd, p.ann_edge) >= TCP_WND \div 4
       THEN Acknowledge(p) ELSE peer' = p /\ acks' = acks
  /\ UNCHANGED <<tcp, wire, written, reported, received, eof, faults>>
----------------------------------------------------------------------------
(* The network.                                                            *)
Dropped(q) == Tail(q)
Doubled(q) == Append(q, Head(q))
Overtaken(q) == Append(Tail(q), Head(q))

NetworkFault ==
  /\ faults < MaxFaults /\ faults' = faults + 1
  /\ \/ wire # <<>> /\ wire' \in {Dropped(wire), Doubled(wire), Overtaken(wire)} /\ UNCHANGED acks
     \/ acks # <<>> /\ acks' \in {Dropped(acks), Doubled(acks), Overtaken(acks)} /\ UNCHANGED wire
  /\ UNCHANGED <<tcp, peer, written, reported, received, eof>>
----------------------------------------------------------------------------
SegmentsNext ==
  \/ \E n \in WriteSizes : Write(n)
  \/ WriteFails \/ Close
  \/ Retransmit \/ Probe \/ GivenUp \/ Poll
  \/ \E n \in {0} \cup WriteSizes : DeliverAck(n)
  \/ DeliverData \/ FastTimer
  \/ tcp_recved
  \/ NetworkFault
----------------------------------------------------------------------------
SegmentsTypeOK ==
  /\ tcp.snd_buf \in 0..(TCP_SND_BUF + 1)
  /\ tcp.oversize \in Nat
  /\ tcp.snd_wnd \in 0..TCP_WND /\ tcp.cwnd \in 1..TCP_WND
  /\ {peer.rcv_wnd, peer.ann_wnd, peer.unread} \subseteq 0..TCP_WND
  /\ tcp.nrtx \in 0..(TCP_MAXRTX + 1)
  /\ written \in 0..Units /\ faults \in 0..MaxFaults

\* The data of the segments the sender still holds.
InQueues == {tcp.unacked[i].data : i \in 1..Len(tcp.unacked)}
            \cup {tcp.unsent[i].data : i \in 1..Len(tcp.unsent)}

(* What the receiver is given is what was written, unit by unit and in     *)
(* order, but for the units a probe carried; what the sent callback was    *)
(* told of has arrived, and everything else that was written is in the     *)
(* queues; the end is reported after the last unit.                        *)
StreamInPlace ==
  /\ \A i \in 1..Len(received) : received[i] \in {i, HeaderByte}
  /\ reported <= Len(received) /\ Len(received) <= written
  /\ ~tcp.dead => \A k \in (reported + 1)..written :
                    \E d \in InQueues : \E i \in 1..Len(d) : d[i] = k
  /\ eof => tcp.closed /\ Len(received) = written

(* Nothing waits without a timer, and nothing is sent beyond the right     *)
(* edge of the window the receiver announced.                              *)
WindowKept ==
  /\ tcp.unacked # <<>> => tcp.running
  /\ SeqLeq(tcp.snd_nxt, peer.ann_edge + (IF tcp.closed THEN 1 ELSE 0))

(* Both: through every write, close, retransmission, probe and fault, the  *)
(* stream is delivered in place and what is left of it has its timer.      *)
SegmentsKept == StreamInPlace /\ WindowKept

\* The comment in tcp_zero_window_probe: "copy in one byte from the head of
\* the unacked queue".  Every unit arrives as it was written.
StreamIntact == \A i \in 1..Len(received) : received[i] = i

(* What is on its way arrives, and the timers go off; the receiver's       *)
(* application reads.                                                      *)
Progress ==
  \/ DeliverData \/ (\E n \in {0} \cup WriteSizes : DeliverAck(n))
  \/ FastTimer \/ Retransmit \/ Probe \/ GivenUp

SegmentsFairness == WF_segmentsVars(Progress) /\ WF_segmentsVars(tcp_recved)

SegmentsSpec == SegmentsInit /\ [][SegmentsNext]_segmentsVars /\ SegmentsFairness

\* A segment that is longer than the mss, which tcp_write may make it, and
\* waits to be sent again, may never fit the congestion window.
Oversized == \E i \in 1..Len(tcp.unsent) : Len(tcp.unsent[i].data) > mss

(* What is written arrives, and the end after it, unless the connection is *)
(* given up or has an oversized segment.                                   *)
StreamArrives ==
  []<>(\/ tcp.dead \/ Oversized
       \/ Len(received) = written /\ reported = written /\ (tcp.closed => eof))
----------------------------------------------------------------------------
Stream == INSTANCE TcpStream WITH closed <- tcp.closed, Filler <- HeaderByte

(* Segments, acknowledgements, timers and windows implement the stream:    *)
(* a step of theirs is a step of it, or is not seen (tcp_write, tcp_close, *)
(* tcp_input).                                                             *)
ImplementsStream == Stream!Spec
=============================================================================
