------------------------------ MODULE TcpStates ------------------------------
(***************************************************************************)
(* The life of lwIP's TCP connections (apps/07switch/lwip/core: tcp_in.c,  *)
(* tcp.c): a client that connects, a server that listens, both running     *)
(* lwIP, between them a network that loses, doubles and reorders, and      *)
(* either of them may be restarted.  One pair of addresses and ports.      *)
(*                                                                         *)
(* The client sends data; a unit is a full segment.  A FIN is a segment of *)
(* its own, and acknowledgements are not delayed: TcpSegments has both     *)
(* kinds, with windows, sizes, probes and the wrap of sequence numbers.    *)
(***************************************************************************)
EXTENDS Integers, FiniteSets

CONSTANTS
  MaxData,              \* bound: units the client writes on a connection, less than a window
  Window,               \* units in flight: the least of snd_wnd and cwnd
  RcvWnd,               \* TCP_WND
  MaxRtx,               \* TCP_MAXRTX, TCP_SYNMAXRTX
  Iss0,                 \* where tcp_next_iss starts after a reset: 6510
  Ticks,                \* bound: values of tcp_ticks, which tcp_next_iss adds
  MaxConnects,          \* bound
  MaxUpsets             \* bound: segments lost or doubled, early timers, restarts

ASSUME StatesAssumption ==
  /\ {MaxData, Window, RcvWnd, MaxRtx, Iss0, MaxConnects, MaxUpsets} \subseteq Nat
  /\ Window > 0 /\ MaxData < RcvWnd /\ MaxRtx > 0 /\ Ticks \subseteq Nat

VARIABLES
  pcb,          \* of each end
  handle,       \* what its application has: none, opening, open, closed
  net,          \* the segments on their way to each end
  iss,          \* of tcp_next_iss
  connects, upsets,
  hist,         \* history, of each end: see Unmarked
  first,        \* history, of each end: the number of its latest SYN, in any life
  spaced        \* history: no connection began with a number that its end might
                \* have used in an earlier one

statesVars == <<pcb, handle, net, iss, connects, upsets, hist, first, spaced>>
numbers == <<iss, first, spaced>>

End == {"client", "server"}
Other(e) == IF e = "client" THEN "server" ELSE "client"

\* The segments of a connection are numbered: the SYN, the units, the FIN.  Those
\* from una to head are unacked, from head to lbb unsent; nxt is snd_nxt.
NoPcb ==
  [state |-> "CLOSED", rcv |-> 0, una |-> 0, head |-> 0, nxt |-> 0, lbb |-> 0, syn |-> 0,
   fin |-> -1, nrtx |-> 0, rxclosed |-> FALSE, unread |-> 0, acked |-> 0]

\* told: units the sent callback was told of; stray: a SYN or RST that belongs to no open connection was seen; queued: at the
\* close not everything could be sent; cut: the connection ended as if it had been
\* (in FIN_WAIT_2 the rest is still sent).
Unmarked == [told |-> 0, stray |-> FALSE, queued |-> FALSE, cut |-> FALSE]

Synchronized == {"ESTABLISHED", "CLOSE_WAIT", "FIN_WAIT_1", "FIN_WAIT_2", "CLOSING", "LAST_ACK"}
Active == Synchronized \cup {"SYN_SENT", "SYN_RCVD"}

\* tcp_alloc and the SYN, numbered n.
Opened(state, rcv, n) ==
  [NoPcb EXCEPT !.state = state, !.rcv = rcv, !.una = n, !.head = n, !.nxt = n, !.lbb = n + 1,
                !.syn = n]

Control(flags, seq, ack, len) == [flags |-> flags, seq |-> seq, ack |-> ack, len |-> len]
TcpLength(s) == s.len + (IF s.flags \cap {"SYN", "FIN"} # {} THEN 1 ELSE 0)
Rst(seq, ack) == {Control({"RST", "ACK"}, seq, ack, 0)}

\* The server may still have the connection of an earlier life of the client; both
\* began it before the first tick.
HalfOpen ==
  [Opened("ESTABLISHED", Iss0 + 1, Iss0) EXCEPT !.una = Iss0 + 1, !.head = Iss0 + 1,
                                                !.nxt = Iss0 + 1]

StatesInit ==
  /\ \/ /\ pcb = [e \in End |-> NoPcb] /\ handle = [e \in End |-> "none"]
        /\ first = [e \in End |-> 0]
     \/ /\ pcb = [client |-> NoPcb, server |-> HalfOpen]
        /\ handle = [client |-> "none", server |-> "open"]
        /\ first = [e \in End |-> Iss0]
  /\ net = [e \in End |-> {}] /\ iss = [e \in End |-> Iss0] /\ spaced = TRUE
  /\ connects = 0 /\ upsets = 0
  /\ hist = [e \in End |-> Unmarked]
----------------------------------------------------------------------------
(* tcp_output: what the window lets out of unsent, or an empty             *)
(* acknowledgement when one is due.                                        *)
IsUnit(p, i) == i \notin {p.syn, p.fin}
Fits(p, i) == i - p.una + (IF IsUnit(p, i) THEN 1 ELSE 0) <= Window
Larger(a, b) == IF a > b THEN a ELSE b

SentTo(p) == CHOOSE k \in p.head..p.lbb : /\ \A i \in p.head..(k - 1) : Fits(p, i)
                                          /\ k < p.lbb => ~Fits(p, k)

Flags(p, i) == (IF i = p.syn THEN {"SYN"} ELSE IF i = p.fin THEN {"FIN"} ELSE {})
               \cup (IF p.state = "SYN_SENT" THEN {} ELSE {"ACK"})

EmptyAck(p) == {Control({"ACK"}, p.nxt, p.rcv, 0)}
AckOf(p, due) == IF due THEN EmptyAck(p) ELSE {}

\* Mutant: snd_nxt is one too far.
BugNextTooFar(p) == [p EXCEPT !.head = SentTo(p), !.nxt = Larger(@, SentTo(p) + 1)]

Output(p) == [p EXCEPT !.head = SentTo(p), !.nxt = Larger(@, SentTo(p))]
OutSegs(p, due) ==
  IF SentTo(p) = p.head THEN AckOf(p, due)
  ELSE {Control(Flags(p, i), i, p.rcv, IF IsUnit(p, i) THEN 1 ELSE 0) :
        i \in p.head..(SentTo(p) - 1)}

\* End e's block becomes p; rest stays on the way to it, and segs are sent.
Becomes(e, p, rest, segs) ==
  /\ pcb' = [pcb EXCEPT ![e] = p]
  /\ net' = [net EXCEPT ![e] = rest, ![Other(e)] = @ \cup segs]

\* ... and p sends what it can, or the acknowledgement that is due.
Sends(e, p, rest, due) == Becomes(e, Output(p), rest, OutSegs(p, due))

\* tcp_rexmit, tcp_rexmit_rto: what is unacked is unsent again.
Resent(p) == [p EXCEPT !.head = p.una, !.nrtx = IF @ > MaxRtx THEN @ ELSE @ + 1]
----------------------------------------------------------------------------
(* What the applications do.                                               *)
tcp_next_iss(e) ==
  /\ \E ticks \in Ticks : iss' = [iss EXCEPT ![e] = @ + ticks]
  /\ first' = [first EXCEPT ![e] = iss'[e]]
  /\ spaced' = (spaced /\ iss'[e] > first[e] + MaxData + 2)

tcp_connect ==
  /\ handle["client"] = "none" /\ pcb["client"] = NoPcb /\ connects < MaxConnects
  /\ connects' = connects + 1
  /\ tcp_next_iss("client")
  /\ Sends("client", Opened("SYN_SENT", 0, iss'["client"]), net["client"], FALSE)
  /\ handle' = [handle EXCEPT !["client"] = "opening"]
  /\ hist' = [hist EXCEPT !["client"] = Unmarked]
  /\ UNCHANGED upsets

AppWrites ==
  /\ handle["client"] = "open"
  /\ LET p == pcb["client"]
     IN /\ p.state \in {"ESTABLISHED", "CLOSE_WAIT"} /\ p.lbb - p.syn - 1 < MaxData
        /\ Sends("client", [p EXCEPT !.lbb = @ + 1], net["client"], FALSE)
  /\ UNCHANGED <<handle, numbers, connects, upsets, hist>>

AppReads ==
  /\ handle["server"] = "open" /\ pcb["server"].unread > 0
  /\ pcb' = [pcb EXCEPT !["server"].unread = 0]
  /\ UNCHANGED <<handle, net, numbers, connects, upsets, hist>>

\* tcp_pcb_purge, on the way to TIME_WAIT.
Purged(p) == [NoPcb EXCEPT !.state = "TIME_WAIT", !.rcv = p.rcv, !.nxt = p.nxt,
                           !.unread = p.unread, !.rxclosed = TRUE]

\* tcp_close, tcp_close_shutdown: with data its application did not take, the
\* connection is reset and waits all the same.
CloseUnread(e, p) ==
  /\ p.unread > 0
  /\ Becomes(e, Purged(p), net[e], Rst(p.nxt, p.rcv))
  /\ handle' = [handle EXCEPT ![e] = "closed"]
  /\ UNCHANGED hist

CloseOpening(e, p) ==
  /\ p.state = "SYN_SENT"
  /\ Becomes(e, NoPcb, net[e], {})
  /\ handle' = [handle EXCEPT ![e] = "none"]
  /\ UNCHANGED hist

CloseOpen(e, p) ==
  /\ p.unread = 0 /\ p.state \in {"ESTABLISHED", "CLOSE_WAIT"}
  /\ LET q == [p EXCEPT !.rxclosed = TRUE, !.fin = p.lbb, !.lbb = @ + 1,
                        !.state = IF @ = "ESTABLISHED" THEN "FIN_WAIT_1" ELSE "LAST_ACK"]
     IN /\ Sends(e, q, net[e], FALSE)
        /\ hist' = [hist EXCEPT ![e].queued = Output(q).nxt < q.lbb]
  /\ handle' = [handle EXCEPT ![e] = "closed"]

\* There is no memory for the FIN: the application tries again later, but its
\* connection takes no more data.
CloseFails(e, p) ==
  /\ p.unread = 0 /\ p.state \in {"ESTABLISHED", "CLOSE_WAIT"} /\ ~p.rxclosed
  /\ Becomes(e, [p EXCEPT !.rxclosed = TRUE], net[e], {})
  /\ UNCHANGED <<handle, hist>>

tcp_close(e) ==
  /\ handle[e] \in {"opening", "open"}
  /\ LET p == pcb[e]
     IN CloseUnread(e, p) \/ CloseOpening(e, p) \/ CloseOpen(e, p) \/ CloseFails(e, p)
  /\ UNCHANGED <<numbers, connects, upsets>>
----------------------------------------------------------------------------
(* tcp_input: end e takes the segment s; rest stays on the way.            *)
\* The error callback: the application forgets its handle.
Freed(e, rest, segs) ==
  /\ Becomes(e, NoPcb, rest, segs)
  /\ handle' = [handle EXCEPT ![e] = "none"]

\* No connection, and for the server no more than the listening one.
no_pcb_input(e, s, rest) ==
  /\ pcb[e].state = "CLOSED"
  /\ IF "RST" \in s.flags /\ e = "client" THEN Becomes(e, NoPcb, rest, {})
     ELSE Becomes(e, NoPcb, rest,
                  Rst(IF e = "client" THEN s.ack ELSE s.ack + 1, s.seq + TcpLength(s)))
  /\ e = "server" => "ACK" \in s.flags
  /\ UNCHANGED <<handle, numbers, hist>>

tcp_listen_input(e, s, rest) ==
  /\ e = "server" /\ pcb[e].state = "CLOSED" /\ s.flags = {"SYN"}
  /\ tcp_next_iss(e)
  /\ Sends(e, Opened("SYN_RCVD", s.seq + 1, iss'[e]), rest, FALSE)
  /\ hist' = [hist EXCEPT ![e] = Unmarked]
  /\ UNCHANGED handle

Within(p, seq) == seq \in p.rcv..(p.rcv + RcvWnd - p.unread)

tcp_timewait_input(e, s, rest) ==
  /\ pcb[e].state = "TIME_WAIT"
  /\ LET p == pcb[e]
     IN IF "RST" \in s.flags THEN Becomes(e, p, rest, {})
        ELSE IF "SYN" \in s.flags /\ Within(p, s.seq)
        THEN Becomes(e, p, rest, Rst(s.ack, s.seq + TcpLength(s)))
        ELSE Becomes(e, p, rest, AckOf(p, TcpLength(s) > 0))
  /\ UNCHANGED <<handle, numbers, hist>>

\* The sent callback, with pcb->acked: what the last segment acknowledged that
\* went through tcp_receive.
Told(e, n) == IF handle[e] = "open" THEN [hist[e] EXCEPT !.told = @ + n] ELSE hist[e]

reset_input(e, s, rest) ==
  /\ pcb[e].state \in Active /\ "RST" \in s.flags
  /\ LET p == pcb[e]
     IN IF IF p.state = "SYN_SENT" THEN s.ack = p.nxt ELSE Within(p, s.seq)
        THEN Freed(e, rest, {}) /\ UNCHANGED hist
        ELSE /\ Sends(e, p, rest, FALSE) /\ UNCHANGED handle
             /\ hist' = [hist EXCEPT ![e] = [Told(e, p.acked) EXCEPT !.stray = TRUE]]
  /\ UNCHANGED numbers

\* "Cope with new connection attempt after remote end crashed".
syn_input(e, s, rest) ==
  /\ pcb[e].state \in Synchronized /\ "SYN" \in s.flags /\ "RST" \notin s.flags
  /\ Sends(e, pcb[e], rest, TRUE)
  /\ hist' = [hist EXCEPT ![e] = [Told(e, pcb[e].acked) EXCEPT !.stray = TRUE]]
  /\ UNCHANGED <<handle, numbers>>

\* Every segment of a listening end and of those after it has an ACK.
syn_sent_input(e, s, rest) ==
  /\ pcb[e].state = "SYN_SENT" /\ "RST" \notin s.flags
  /\ LET p == pcb[e]
     IN IF "SYN" \in s.flags /\ s.ack = p.syn + 1
        THEN /\ Sends(e, [p EXCEPT !.state = "ESTABLISHED", !.rcv = s.seq + 1, !.una = s.ack,
                                   !.head = s.ack], rest, TRUE)
             /\ handle' = [handle EXCEPT ![e] = "open"]
        ELSE /\ Becomes(e, p, rest, Rst(s.ack, s.seq + TcpLength(s)))
             /\ UNCHANGED handle
  /\ UNCHANGED <<numbers, hist>>
----------------------------------------------------------------------------
(* tcp_receive: the acknowledgement, then the unit or the FIN.             *)
IsNewAck(p, s) == "ACK" \in s.flags /\ s.ack \in (p.una + 1)..p.nxt

Settled(p, s) ==
  IF IsNewAck(p, s)
  THEN [p EXCEPT !.una = s.ack, !.head = Larger(@, s.ack), !.nrtx = 0,
                 !.acked = Cardinality({i \in p.una..(s.ack - 1) : IsUnit(p, i)})]
  ELSE [p EXCEPT !.acked = 0]

\* The next in sequence, and room for it.
InSequence(p, s) == TcpLength(s) > 0 /\ s.seq = p.rcv /\ p.unread < RcvWnd
GotFin(p, s) == InSequence(p, s) /\ "FIN" \in s.flags
GotUnit(p, s) == InSequence(p, s) /\ s.len = 1

tcp_receive(p, s) ==
  [Settled(p, s) EXCEPT !.rcv = IF InSequence(p, s) THEN @ + 1 ELSE @,
                        !.unread = IF GotUnit(p, s) THEN @ + 1 ELSE @]

AckDue(p, s) == TcpLength(s) > 0 \/ s.seq \notin p.rcv..(p.rcv + RcvWnd - p.unread - 1)

\* Mutant: any new acknowledgement is taken for that of the FIN.
BugAnyAck(p, s) == s.ack > p.una

\* "ackno == pcb->snd_nxt": everything that was sent is acknowledged.
AllAcked(p, s) == s.ack = p.nxt

tcp_process(p, s) ==
  CASE p.state \in {"ESTABLISHED", "CLOSE_WAIT"} ->
         IF GotFin(p, s) THEN "CLOSE_WAIT" ELSE p.state
    [] p.state = "FIN_WAIT_1" ->
         IF GotFin(p, s) THEN IF AllAcked(p, s) THEN "TIME_WAIT" ELSE "CLOSING"
         ELSE IF AllAcked(p, s) THEN "FIN_WAIT_2" ELSE "FIN_WAIT_1"
    [] p.state = "FIN_WAIT_2" -> IF GotFin(p, s) THEN "TIME_WAIT" ELSE "FIN_WAIT_2"
    [] p.state = "CLOSING" -> IF AllAcked(p, s) THEN "TIME_WAIT" ELSE "CLOSING"
    [] p.state = "LAST_ACK" -> IF AllAcked(p, s) THEN "CLOSED" ELSE "LAST_ACK"

\* What tcp_input does after tcp_process: q is the block after tcp_receive, h what
\* its application has.  A unit for a closed connection aborts it.
Finish(e, p, q, s, rest, h) ==
  LET r == [q EXCEPT !.state = tcp_process(p, s)]
      ended == r.state \in {"TIME_WAIT", "CLOSED"} /\ r.una < r.lbb
      told == [Told(e, r.acked) EXCEPT !.cut = @ \/ ended]
  IN /\ IF r.state = "CLOSED" \/ (GotUnit(p, s) /\ r.rxclosed)
        THEN Freed(e, rest, IF r.state = "CLOSED" THEN {} ELSE Rst(r.nxt, r.rcv))
        ELSE /\ IF r.state = "TIME_WAIT" THEN Becomes(e, Purged(r), rest, AckOf(r, AckDue(p, s)))
                ELSE Sends(e, r, rest, AckDue(p, s))
             /\ handle' = [handle EXCEPT ![e] = h]
     /\ hist' = [hist EXCEPT ![e] = told]

segment_input(e, s, rest) ==
  /\ pcb[e].state \in Synchronized /\ s.flags \cap {"SYN", "RST"} = {}
  /\ Finish(e, pcb[e], tcp_receive(pcb[e], s), s, rest, handle[e])
  /\ UNCHANGED numbers

\* The end of the handshake; the application may refuse the connection.
syn_rcvd_input(e, s, rest) ==
  /\ pcb[e].state = "SYN_RCVD" /\ "RST" \notin s.flags
  /\ LET p == pcb[e]
         q == [p EXCEPT !.state = "ESTABLISHED"]
         again == s.flags = {"SYN"} /\ s.seq = p.rcv - 1 /\ p.una < p.head
     IN \/ IsNewAck(p, s) /\ Finish(e, q, tcp_receive(q, s), s, rest, "open")
        \/ IsNewAck(p, s) /\ Freed(e, rest, Rst(p.nxt, p.rcv)) /\ UNCHANGED hist
        \/ /\ ~IsNewAck(p, s)
           /\ IF "ACK" \in s.flags
              THEN Becomes(e, p, rest, Rst(s.ack, s.seq + TcpLength(s)))
              ELSE Sends(e, IF again THEN Resent(p) ELSE p, rest, FALSE)
           /\ UNCHANGED <<handle, hist>>
  /\ UNCHANGED numbers

\* A segment may come twice.
tcp_input(e) ==
  \E s \in net[e], again \in {0, 1} :
    LET rest == IF again = 1 THEN net[e] ELSE net[e] \ {s}
    IN /\ upsets + again <= MaxUpsets /\ upsets' = upsets + again
       /\ \/ no_pcb_input(e, s, rest) \/ tcp_listen_input(e, s, rest)
          \/ tcp_timewait_input(e, s, rest) \/ reset_input(e, s, rest)
          \/ syn_input(e, s, rest) \/ syn_sent_input(e, s, rest)
          \/ syn_rcvd_input(e, s, rest) \/ segment_input(e, s, rest)
       /\ UNCHANGED connects
----------------------------------------------------------------------------
(* tcp_slowtmr.                                                            *)
\* The retransmission timer, early when something is still under way.
Retransmission(e) ==
  /\ pcb[e].state \in Active /\ pcb[e].una < pcb[e].head /\ pcb[e].nrtx # MaxRtx
  /\ IF \A f \in End : net[f] = {} THEN UNCHANGED upsets
     ELSE upsets < MaxUpsets /\ upsets' = upsets + 1
  /\ Sends(e, Resent(pcb[e]), net[e], FALSE)
  /\ UNCHANGED <<handle, numbers, connects, hist>>

\* No answer to the last retransmission in half a second; or the connection was
\* SYN_RCVD, FIN_WAIT_2, LAST_ACK or TIME_WAIT for too long, which after a close
\* is counted from the last segment before it: at any moment.
Removal(e) ==
  /\ \/ pcb[e].state \in Active /\ pcb[e].nrtx = MaxRtx
     \/ pcb[e].state \in {"SYN_RCVD", "FIN_WAIT_2", "LAST_ACK", "TIME_WAIT"}
  /\ Freed(e, net[e], {})
  /\ UNCHANGED <<numbers, connects, upsets, hist>>

Lost(e) ==
  /\ upsets < MaxUpsets /\ upsets' = upsets + 1
  /\ \E s \in net[e] : net' = [net EXCEPT ![e] = @ \ {s}]
  /\ UNCHANGED <<pcb, handle, numbers, connects, hist>>

\* A reset: tcp_next_iss starts again.
Restart(e) ==
  /\ pcb[e] # NoPcb /\ upsets < MaxUpsets /\ upsets' = upsets + 1
  /\ Freed(e, net[e], {})
  /\ iss' = [iss EXCEPT ![e] = Iss0]
  /\ UNCHANGED <<connects, hist, first, spaced>>

StatesNext ==
  \/ tcp_connect \/ AppWrites \/ AppReads
  \/ \E e \in End :
       \/ tcp_close(e) \/ tcp_input(e) \/ Retransmission(e) \/ Removal(e)
       \/ Lost(e) \/ Restart(e)

StatesSpec == StatesInit /\ [][StatesNext]_statesVars
----------------------------------------------------------------------------
(* Properties.                                                             *)
\* The queues are in order, and the counter of retransmissions does not pass
\* TCP_MAXRTX by more than the resent SYN|ACK.
StatesTypeOK ==
  /\ handle \in [End -> {"none", "opening", "open", "closed"}]
  /\ \A e \in End :
       LET p == pcb[e]
       IN /\ p.state \in Active \cup {"CLOSED", "TIME_WAIT"}
          /\ p.state \in Active =>
               p.una <= p.head /\ p.head <= p.lbb /\ p.head <= p.nxt /\ p.nxt <= p.lbb
          /\ p.nrtx \in 0..(MaxRtx + 1) /\ p.unread \in 0..RcvWnd

\* "Cope with new connection attempt after remote end crashed": two connected ends,
\* whatever was lost, came late or was left by an earlier life of one of them, are
\* in step: what either expects next the other has sent, and has not seen
\* acknowledged beyond.
InStep ==
  LET c == pcb["client"] s == pcb["server"]
  IN c.state \in Synchronized /\ s.state \in Synchronized
     => s.rcv \in c.una..c.nxt /\ c.rcv \in s.una..s.nxt

\* An application that did not close has a block that is still there: it was told
\* of every end.
HandleValid == \A e \in End : handle[e] \in {"opening", "open"} => pcb[e].state \in Active

\* The sent callback counts every acknowledged unit once, unless a SYN or RST came
\* that the connection refuses: then pcb->acked is told again.
ToldOnce ==
  \A e \in End :
    handle[e] = "open" /\ ~hist[e].stray => hist[e].told = pcb[e].una - pcb[e].syn - 1

\* A connection ends with all it had to send acknowledged, if tcp_close could send
\* everything: only what it left queued may be taken for sent ("ackno == snd_nxt").
DataKept == \A e \in End : hist[e].cut => hist[e].queued

\* tcp_in.c, tcp.c: together.  Connected ends are in step as long as tcp_next_iss
\* does not return a number of an earlier connection.
StatesKept == (spaced => InStep) /\ HandleValid /\ ToldOnce /\ DataKept
=============================================================================
