---------------------------- MODULE EspconnSend ----------------------------
(***************************************************************************)
(* The sending side of an established connection: espconn_sent,            *)
(* espconn_tcp_sent and the sent callbacks of espconn_tcp.c.  TCP takes    *)
(* what fits of a message; the rest stays in the application's buffer,     *)
(* which must live on, and is offered again on an acknowledgement.  A unit *)
(* of data is <<message, offset>>, so that every unit is different.        *)
(* Reception and the end of the connection are in EspconnTcp.              *)
(***************************************************************************)
EXTENDS Naturals, Sequences

CONSTANTS SndBuf,       \* TCP_SND_BUF: the units TCP holds unacknowledged
          Chunk,        \* 2 * mss: the most that is offered at a time
          MaxUnits,     \* bound on the length of a message
          MaxMessages   \* bound on the number of messages

ASSUME SendAssumption ==
    /\ SndBuf \in Nat \ {0} /\ Chunk \in Nat \ {0}
    /\ MaxUnits \in Nat \ {0} /\ MaxMessages \in Nat

VARIABLES sizes,   \* the lengths of the messages given to espconn_sent
          stream,  \* the units TCP has taken
          acked,   \* how many of them the peer has acknowledged
          ptrbuf,  \* the next unit of the message in hand
          cntr,    \* how many units of it are left
          espconn_state, \* espconn.espconn_state
          asked,   \* is the application waiting for the sent callback?
          rushed,  \* has it once sent a message without waiting?
          failed   \* has tcp_write once taken nothing for lack of memory?

sendVars == <<sizes, stream, acked, ptrbuf, cntr, espconn_state, asked, rushed, failed>>

Least(S) == CHOOSE n \in S : \A k \in S : n <= k

SendInit ==
    /\ sizes = <<>> /\ stream = <<>> /\ acked = 0
    /\ ptrbuf = <<0, 0>> /\ cntr = 0
    /\ espconn_state = "CONNECT"
    /\ asked = FALSE /\ rushed = FALSE /\ failed = FALSE

-----------------------------------------------------------------------------
(* What tcp_write may take when n units are offered: all, or, as often as  *)
(* memory is short and more than one is left, half of the last offer.      *)
Taken(n) == {n} \cup {j \in 1 .. n : \E k \in 1 .. n : j = n \div 2 ^ k}

(* espconn_tcp_sent: offers what fits of the `length' units from p on,     *)
(* with `confirmed' units acknowledged by now; a failed write leaves the   *)
(* message in hand as it was.                                              *)
BugForgetsOffset(p, length, confirmed, s) ==
    \E n \in Taken(Least({SndBuf - (Len(stream) - confirmed), length, Chunk})) :
        /\ stream' = stream \o [k \in 1 .. n |-> <<p[1], p[2] + k - 1>>]
        /\ ptrbuf' = p
        /\ cntr' = length - n
        /\ espconn_state' = s
        /\ UNCHANGED failed

BugCountsChunk(p, length, confirmed, s) ==
    \E n \in Taken(Least({SndBuf - (Len(stream) - confirmed), length, Chunk})) :
        /\ stream' = stream \o [k \in 1 .. n |-> <<p[1], p[2] + k - 1>>]
        /\ ptrbuf' = <<p[1], p[2] + n>>
        /\ cntr' = length - Least({length, Chunk})
        /\ espconn_state' = s
        /\ UNCHANGED failed

espconn_tcp_sent(p, length, confirmed, s) ==
    \/ \E n \in Taken(Least({SndBuf - (Len(stream) - confirmed), length, Chunk})) :
        /\ stream' = stream \o [k \in 1 .. n |-> <<p[1], p[2] + k - 1>>]
        /\ ptrbuf' = <<p[1], p[2] + n>>
        /\ cntr' = length - n
        /\ espconn_state' = s
        /\ UNCHANGED failed
    \/ /\ espconn_state' = "CLOSE"
       /\ failed' = TRUE
       /\ UNCHANGED <<stream, ptrbuf, cntr>>

(* The application sends a message, which replaces the one in hand.        *)
espconn_sent(length) ==
    /\ Len(sizes) < MaxMessages
    /\ sizes' = Append(sizes, length)
    /\ asked' = TRUE
    /\ rushed' = (rushed \/ asked)
    /\ espconn_tcp_sent(<<Len(sizes) + 1, 1>>, length, acked, "WRITE")
    /\ UNCHANGED acked

(* espconn_client_sent, on an acknowledgement of n more units: calls the   *)
(* application back, or offers the rest.                                   *)
BugStopsSending(n) ==
    /\ n <= Len(stream) - acked
    /\ acked' = acked + n
    /\ IF cntr = 0 THEN espconn_state' = "CONNECT" /\ asked' = FALSE
                   ELSE UNCHANGED <<espconn_state, asked>>
    /\ UNCHANGED <<sizes, stream, ptrbuf, cntr, rushed, failed>>

espconn_client_sent(n) ==
    /\ n <= Len(stream) - acked
    /\ acked' = acked + n
    /\ \/ /\ cntr = 0
          /\ espconn_state' = "CONNECT"
          /\ asked' = FALSE
          /\ UNCHANGED <<stream, ptrbuf, cntr, failed>>
       \/ /\ cntr # 0
          /\ espconn_tcp_sent(ptrbuf, cntr, acked + n, espconn_state)
          /\ UNCHANGED asked
    /\ UNCHANGED <<sizes, rushed>>

SendNext ==
    \/ \E length \in 1 .. MaxUnits : espconn_sent(length)
    \/ \E n \in 1 .. SndBuf : espconn_client_sent(n)

SendSpec == SendInit /\ [][SendNext]_sendVars

(* The peer acknowledges in the end what it was sent.                      *)
SendFairSpec == SendSpec /\ WF_sendVars(\E n \in 1 .. SndBuf : espconn_client_sent(n))

-----------------------------------------------------------------------------
(* Types; TCP never holds more than the send buffer unacknowledged.        *)
SendTypeOK ==
    /\ \A m \in DOMAIN sizes : sizes[m] \in 1 .. MaxUnits
    /\ \A k \in DOMAIN stream : stream[k] \in (1 .. MaxMessages) \X (1 .. MaxUnits)
    /\ acked \in 0 .. Len(stream)
    /\ Len(stream) - acked <= SndBuf
    /\ ptrbuf \in (0 .. MaxMessages) \X (0 .. MaxUnits + 1)
    /\ cntr \in 0 .. MaxUnits
    /\ espconn_state \in {"CONNECT", "WRITE", "CLOSE"}
    /\ asked \in BOOLEAN /\ rushed \in BOOLEAN /\ failed \in BOOLEAN

(* The order of units: by message, then by offset.                         *)
Before(u, v) == u[1] < v[1] \/ (u[1] = v[1] /\ u[2] < v[2])

(* However impatient the application and however short the memory, the     *)
(* acknowledgement-driven offers of espconn_tcp_sent never send a unit     *)
(* twice or out of order, and never take a unit from beyond its message.   *)
Ordered ==
    /\ \A j, k \in DOMAIN stream : j < k => Before(stream[j], stream[k])
    /\ \A k \in DOMAIN stream : stream[k][2] <= sizes[stream[k][1]]

(* The units of the messages given to espconn_sent, and those that TCP has *)
(* taken followed by those still in hand.                                  *)
Offered == UNION {{m} \X (1 .. sizes[m]) : m \in DOMAIN sizes}
Accounted == stream \o [k \in 1 .. cntr |-> <<ptrbuf[1], ptrbuf[2] + k - 1>>]

(* An application that waits for the sent callback loses nothing, however  *)
(* long its messages and however little each write takes, until a write    *)
(* takes nothing: what TCP took and what is still in hand are all that was *)
(* given to espconn_sent, in order.                                        *)
NothingMissing ==
    ~rushed /\ ~failed =>
        /\ {Accounted[k] : k \in DOMAIN Accounted} = Offered
        /\ \A j, k \in DOMAIN Accounted : j < k => Before(Accounted[j], Accounted[k])

(* Both: the stream is what was given, in order and whole.                 *)
SendKept == Ordered /\ NothingMissing

(* Unless a write takes nothing, the application is called back again,     *)
(* whether or not it waited.                                               *)
CalledBack == asked ~> (~asked \/ failed)

(* espconn_regist_sentcb: the callback comes when the data has been        *)
(* delivered to the remote host, at least if the application waits for it. *)
SentMeansDelivered == ~asked /\ ~rushed /\ ~failed => acked = Len(stream)
=============================================================================
