---------------------------- MODULE EspconnTcp ----------------------------
(***************************************************************************)
(* The life of a TCP connection in the sockets layer of the plug           *)
(* (apps/07switch/lwip/app/espconn.c and espconn_tcp.c) over the protocol  *)
(* control blocks of lwIP (lwip/core/tcp.c and tcp_in.c).                  *)
(*                                                                         *)
(* Each connection is an espconn_msg on the list plink_active and a        *)
(* tcp_pcb; each refers to the other.  They are heap blocks: freeing one   *)
(* leaves its contents until the heap reuses it, and the code does refer   *)
(* to freed control blocks.  All callbacks run to completion in one task,  *)
(* so a step is one callback; their order is arbitrary.                    *)
(***************************************************************************)
EXTENDS Naturals, SequencesExt, FiniteSets

CONSTANTS Pcb,        \* heap blocks for tcp_pcb
          Msg,        \* heap blocks for espconn_msg
          Client,     \* the application's own espconn structures
          None,
          MaxActive,  \* MEMP_NUM_TCP_PCB
          HeapReuse,  \* bound: may the heap reuse a block still referred to?
          CloseOnce   \* does the application disconnect no closing connection?

ASSUME EspconnAssumption ==
    /\ MaxActive \in Nat \ {0}
    /\ HeapReuse \in BOOLEAN /\ CloseOnce \in BOOLEAN
    /\ None \notin Msg \cup Pcb \cup Client \cup [pespconn : Client \cup Msg, pcb : Pcb]
    /\ Client \cap Msg = {}

VARIABLES pcb,           \* control blocks, live or freed
          msg,           \* None, or a message: its espconn and its pcb
          plink_active,  \* the list of active connections
          timer,         \* ptimer of each message: which callback is armed
          link_cnt,      \* of the listening espconn
          closed_twice,  \* ghost: tcp_close was called on a block that no
                         \* longer was the connection's
          reused         \* ghost: a connection was given a block that the
                         \* message of another still refers to

vars == <<pcb, msg, plink_active, timer, link_cnt, closed_twice, reused>>

-----------------------------------------------------------------------------
(* "OTHER" is what a freed block reads as once the heap has reused it.     *)
TcpState == {"CLOSED", "SYN_SENT", "SYN_RCVD", "ESTABLISHED", "FIN_WAIT_1",
             "FIN_WAIT_2", "CLOSING", "CLOSE_WAIT", "LAST_ACK", "TIME_WAIT",
             "OTHER"}

(* callback_arg; tcp_arg and tcp_err are always called together, so errf   *)
(* is set exactly when arg is a message.  handlers: recv (and poll on a    *)
(* server) are registered.  rxclosed: TF_RXCLOSED.                         *)
Block == [live : BOOLEAN, state : TcpState, arg : Msg \cup {None},
          handlers : BOOLEAN, rxclosed : BOOLEAN]

(* A client's message has the application's espconn; a server's has one of *)
(* its own, allocated and freed with the message, which stands for it.     *)
Handle == Client \cup Msg
Message == [pespconn : Handle, pcb : Pcb]

Freed(s) == [live |-> FALSE, state |-> s, arg |-> None,
             handlers |-> FALSE, rxclosed |-> FALSE]
Fresh(s, m) == [live |-> TRUE, state |-> s, arg |-> m,
                handlers |-> FALSE, rxclosed |-> FALSE]

(* tcp_active_pcbs                                                         *)
Active(p) == pcb[p].live /\ pcb[p].state \notin {"CLOSED", "TIME_WAIT"}
NumActive == Cardinality({p \in Pcb : Active(p)})

IsServer(m) == msg[m].pespconn \in Msg

Listed == {plink_active[i] : i \in 1 .. Len(plink_active)}

ServerNodes == {n \in Listed : IsServer(n)}

espconn_list_delete(m) == RemoveFirst(plink_active, m)

(* The first node whose espconn is h, or whose peer has the address and    *)
(* port of h, or None.  A client's node does not record its peer; which of *)
(* the server's have the peer of h, `alike`, is left open.                 *)
espconn_find_connection(h, alike) ==
    LET i == SelectInSeq(plink_active, LAMBDA n : msg[n].pespconn = h \/ n \in alike)
    IN  IF i = 0 THEN None ELSE plink_active[i]

Init ==
    /\ pcb = [p \in Pcb |-> Freed("OTHER")]
    /\ msg = [m \in Msg |-> None]
    /\ plink_active = <<>>
    /\ timer = [m \in Msg |-> "off"]
    /\ link_cnt = 0
    /\ closed_twice = FALSE /\ reused = FALSE

-----------------------------------------------------------------------------
(* espconn_client_err, esponn_server_err with the message m as argument:   *)
(* out of the list, and espconn_tcp_reconnect in 10 ms.                    *)
BugErrKeepsListed(m) ==
    /\ plink_active' = plink_active
    /\ timer' = IF m = None THEN timer ELSE [timer EXCEPT ![m] = "reconnect"]

espconn_err(m) ==
    /\ plink_active' = espconn_list_delete(m)
    /\ timer' = IF m = None THEN timer ELSE [timer EXCEPT ![m] = "reconnect"]

(* tcp_close: what becomes of the block b; fin_ok: tcp_send_fin succeeded. *)
tcp_close(b, fin_ok) ==
    LET next == CASE b.state \in {"CLOSED", "SYN_SENT"} -> "CLOSED"
                  [] b.state \in {"SYN_RCVD", "ESTABLISHED"} /\ fin_ok -> "FIN_WAIT_1"
                  [] b.state = "CLOSE_WAIT" /\ fin_ok -> "LAST_ACK"
                  [] OTHER -> b.state
    IN  IF next = "CLOSED" THEN Freed("CLOSED")
        ELSE [b EXCEPT !.state = next, !.rxclosed = TRUE, !.handlers = ~fin_ok]

(* tcp_close_shutdown while the application has not been given all that    *)
(* was received: RST, and TIME_WAIT.  Both recv callbacks call tcp_recved  *)
(* first, so this is in a callback for a segment whose FIN, or data, is    *)
(* still to be delivered; the data then aborts the connection.             *)
Unread(b) == IF b.state # "ESTABLISHED" THEN {}
             ELSE {[b EXCEPT !.state = "TIME_WAIT", !.rxclosed = TRUE, !.handlers = FALSE],
                   Freed("CLOSED")}

(* espconn_client_close, espconn_server_close: the handlers are removed,   *)
(* and put back if tcp_close fails; the timer is armed in either case.     *)
BugCloseNoTimer(m, b, fin_ok) ==
    /\ pcb' = [pcb EXCEPT ![msg[m].pcb] = tcp_close(b, fin_ok)]
    /\ timer' = IF fin_ok THEN timer ELSE [timer EXCEPT ![m] = "close"]
    /\ UNCHANGED <<msg, plink_active, link_cnt, reused>>

BugCloseForgetsHandlers(m, b, fin_ok) ==
    /\ pcb' = [pcb EXCEPT ![msg[m].pcb] =
                 [tcp_close(b, fin_ok) EXCEPT !.handlers = FALSE]]
    /\ timer' = [timer EXCEPT ![m] = "close"]
    /\ UNCHANGED <<msg, plink_active, link_cnt, reused>>

close(m, b, fin_ok) ==
    /\ pcb' = [pcb EXCEPT ![msg[m].pcb] = tcp_close(b, fin_ok)]
    /\ timer' = [timer EXCEPT ![m] = "close"]
    /\ UNCHANGED <<msg, plink_active, link_cnt, reused>>

(* The states in which tcp_close sends a FIN, which may fail for lack of   *)
(* memory.                                                                 *)
FinResult(s) == IF s \in {"SYN_RCVD", "ESTABLISHED", "CLOSE_WAIT"}
                THEN BOOLEAN ELSE {TRUE}

-----------------------------------------------------------------------------
(* What the application does.                                              *)

(* tcp_alloc: a free block; or the block of a TIME_WAIT connection; or     *)
(* that of an active connection, whose error callback runs first.          *)
Referenced == {msg[m].pcb : m \in Listed}
FreeBlocks == {p \in Pcb : ~pcb[p].live /\ (HeapReuse \/ p \notin Referenced)}
TimeWaits  == {p \in Pcb : pcb[p].live /\ pcb[p].state = "TIME_WAIT"
                             /\ (HeapReuse \/ p \notin Referenced)}
tcp_alloc == IF FreeBlocks # {} THEN FreeBlocks
             ELSE IF TimeWaits # {} THEN TimeWaits
             ELSE {p \in Pcb : Active(p)}
Victim(p) == IF Active(p) THEN pcb[p].arg ELSE None
TakenFrom(p) == {m \in Listed \ {Victim(p)} : msg[m].pcb = p}

(* espconn_connect, espconn_tcp_client: if tcp_connect fails (no route, no *)
(* memory for the SYN) the error is returned and nothing is undone.        *)
espconn_connect(c) ==
    \E m \in Msg, p \in tcp_alloc, connected \in BOOLEAN :
        /\ msg[m] = None
        /\ pcb' = [pcb EXCEPT ![p] = Fresh(IF connected THEN "SYN_SENT" ELSE "CLOSED", m)]
        /\ msg' = [msg EXCEPT ![m] = [pespconn |-> c, pcb |-> p]]
        /\ plink_active' = Append(espconn_list_delete(Victim(p)), m)
        /\ timer' = IF Victim(p) = None THEN timer
                    ELSE [timer EXCEPT ![Victim(p)] = "reconnect"]
        /\ reused' = (reused \/ TakenFrom(p) # {})
        /\ UNCHANGED <<link_cnt, closed_twice>>

(* espconn_disconnect on the node that espconn_find_connection returns.    *)
espconn_disconnect(h) ==
    \E alike \in SUBSET ServerNodes :
    LET m == espconn_find_connection(h, alike)
        p == msg[m].pcb
        mine == pcb[p].live /\ pcb[p].arg = m
    IN  /\ m # None
        /\ CloseOnce => timer[m] # "close"
        /\ closed_twice' = (closed_twice \/ ~mine)
        /\ \/ /\ pcb[p].live
              /\ \E fin_ok \in FinResult(pcb[p].state) : close(m, pcb[p], fin_ok)
           \/ /\ pcb[p].live
              /\ \E b \in Unread(pcb[p]) : pcb' = [pcb EXCEPT ![p] = b]
              /\ timer' = [timer EXCEPT ![m] = "close"]
              /\ UNCHANGED <<msg, plink_active, link_cnt, reused>>
           \/ /\ ~pcb[p].live
              /\ UNCHANGED <<pcb, msg, plink_active, timer, link_cnt, reused>>

-----------------------------------------------------------------------------
(* Timers of a message.                                                    *)

(* espconn_tcp_disconnect_successful: the callback is cleared in the block *)
(* and the message freed; then the application's disconnect_callback.      *)
BugDisconnectKeepsArg(m) ==
    /\ pcb' = pcb
    /\ msg' = [msg EXCEPT ![m] = None]

espconn_tcp_disconnect_successful(m) ==
    /\ pcb' = IF pcb[msg[m].pcb].live
              THEN [pcb EXCEPT ![msg[m].pcb].arg = None] ELSE pcb
    /\ msg' = [msg EXCEPT ![m] = None]

BugCloseCbRearms(m) ==
    /\ timer[m] = "close" /\ msg[m] # None
    /\ pcb[msg[m].pcb].state \in {"TIME_WAIT", "CLOSED"}
    /\ plink_active' = espconn_list_delete(m)
    /\ espconn_tcp_disconnect_successful(m)
    /\ UNCHANGED <<timer, link_cnt, closed_twice, reused>>

(* espconn_cclose_cb, espconn_sclose_cb: in any other state the timer is   *)
(* armed again, which changes nothing.                                     *)
espconn_close_cb(m) ==
    /\ timer[m] = "close" /\ msg[m] # None
    /\ pcb[msg[m].pcb].state \in {"TIME_WAIT", "CLOSED"}
    /\ plink_active' = espconn_list_delete(m)
    /\ timer' = [timer EXCEPT ![m] = "off"]
    /\ espconn_tcp_disconnect_successful(m)
    /\ UNCHANGED <<link_cnt, closed_twice, reused>>

(* The message is freed; then the application's reconnect_callback.        *)
espconn_tcp_reconnect(m) ==
    /\ timer[m] = "reconnect" /\ msg[m] # None
    /\ msg' = [msg EXCEPT ![m] = None]
    /\ timer' = [timer EXCEPT ![m] = "off"]
    /\ UNCHANGED <<pcb, plink_active, link_cnt, closed_twice, reused>>

-----------------------------------------------------------------------------
(* Segments from the peer.                                                 *)

(* tcp_listen_input: a SYN.  The test is for equality, and client          *)
(* connections count.                                                      *)
tcp_listen_input ==
    /\ NumActive # MaxActive
    /\ \E p \in tcp_alloc :
         /\ pcb' = [pcb EXCEPT ![p] = Fresh("SYN_RCVD", None)]
         /\ espconn_err(Victim(p))
         /\ reused' = (reused \/ TakenFrom(p) # {})
    /\ UNCHANGED <<msg, link_cnt, closed_twice>>

(* espconn_get_connection_info, after the new node is in the list.         *)
BugAcceptOneMore(cnt) == cnt = MaxActive + 2

TooManyLinks(cnt) == cnt = MaxActive + 1

(* The ACK of our SYN|ACK: espconn_tcp_accept.  One connection too many is *)
(* refused, and tcp_process then aborts it: the error callback runs.       *)
espconn_tcp_accept(p) ==
    /\ pcb[p].live /\ pcb[p].state = "SYN_RCVD"
    /\ \E m \in Msg :
         LET cnt == Cardinality(ServerNodes) + 1
         IN  /\ msg[m] = None
             /\ msg' = [msg EXCEPT ![m] = [pespconn |-> m, pcb |-> p]]
             /\ link_cnt' = cnt
             /\ IF TooManyLinks(cnt)
                THEN /\ pcb' = [pcb EXCEPT ![p] = Freed("CLOSED")]
                     /\ plink_active' = plink_active
                     /\ timer' = [timer EXCEPT ![m] = "reconnect"]
                ELSE /\ pcb' = [pcb EXCEPT ![p] = [Fresh("ESTABLISHED", m) EXCEPT !.handlers = TRUE]]
                     /\ plink_active' = Append(plink_active, m)
                     /\ timer' = timer
    /\ UNCHANGED <<closed_twice, reused>>

(* No memory for the message: the connection is aborted without a callback.*)
AcceptNoMessage(p) ==
    /\ pcb[p].live /\ pcb[p].state = "SYN_RCVD"
    /\ pcb' = [pcb EXCEPT ![p] = Freed("CLOSED")]
    /\ UNCHANGED <<msg, plink_active, timer, link_cnt, closed_twice, reused>>

(* No memory for the espconn or its esp_tcp: the error callback follows a  *)
(* null pointer (the message has no espconn, or no pcb yet) and the chip   *)
(* resets.                                                                 *)
AcceptNoEspconn(p) ==
    /\ pcb[p].live /\ pcb[p].state = "SYN_RCVD"
    /\ \E m \in Msg : msg[m] = None
    /\ pcb' = [q \in Pcb |-> Freed("OTHER")]
    /\ msg' = [m \in Msg |-> None]
    /\ plink_active' = <<>>
    /\ timer' = [m \in Msg |-> "off"]
    /\ link_cnt' = 0
    /\ UNCHANGED <<closed_twice, reused>>

(* SYN|ACK: espconn_client_connect.                                        *)
espconn_client_connect(p) ==
    /\ pcb[p].live /\ pcb[p].state = "SYN_SENT"
    /\ pcb' = [pcb EXCEPT ![p].state = "ESTABLISHED", ![p].handlers = TRUE]
    /\ UNCHANGED <<msg, plink_active, timer, link_cnt, closed_twice, reused>>

(* A FIN while the connection is open: recv is called with NULL, which     *)
(* closes our side.                                                        *)
RecvFin(p) ==
    /\ pcb[p].live /\ pcb[p].state = "ESTABLISHED"
    /\ \E fin_ok \in BOOLEAN :
         close(pcb[p].arg, [pcb[p] EXCEPT !.state = "CLOSE_WAIT"], fin_ok)
    /\ UNCHANGED closed_twice

(* A FIN, or the ACK of our FIN, or both, while the connection is closing. *)
RecvClosing(p) ==
    /\ pcb[p].live
    /\ \E next \in CASE pcb[p].state = "FIN_WAIT_1" -> {"FIN_WAIT_2", "CLOSING", "TIME_WAIT"}
                     [] pcb[p].state \in {"FIN_WAIT_2", "CLOSING"} -> {"TIME_WAIT"}
                     [] OTHER -> {} :
         pcb' = [pcb EXCEPT ![p].state = next]
    /\ UNCHANGED <<msg, plink_active, timer, link_cnt, closed_twice, reused>>

(* The ACK of our FIN in LAST_ACK (TF_CLOSED): the block is freed, without *)
(* an error callback if the connection was closed from our side.           *)
RecvLastAck(p) ==
    /\ pcb[p].live /\ pcb[p].state = "LAST_ACK"
    /\ pcb' = [pcb EXCEPT ![p] = Freed("CLOSED")]
    /\ IF pcb[p].rxclosed THEN UNCHANGED <<plink_active, timer>>
       ELSE espconn_err(pcb[p].arg)
    /\ UNCHANGED <<msg, link_cnt, closed_twice, reused>>

(* RST (TF_RESET), or data for a connection whose receive side is closed   *)
(* (tcp_abort): the error callback, and the block is freed as CLOSED.      *)
Reset(p) ==
    /\ Active(p)
    /\ espconn_err(pcb[p].arg)
    /\ pcb' = [pcb EXCEPT ![p] = Freed("CLOSED")]
    /\ UNCHANGED <<msg, link_cnt, closed_twice, reused>>

-----------------------------------------------------------------------------
(* tcp_slowtmr                                                             *)

(* Too many retransmissions, or too long in SYN_RCVD, FIN_WAIT_2 or        *)
(* LAST_ACK.  The block is freed with its state as it was.                 *)
Timeout(p) ==
    /\ Active(p)
    /\ espconn_err(pcb[p].arg)
    /\ pcb' = [pcb EXCEPT ![p] = Freed(pcb[p].state)]
    /\ UNCHANGED <<msg, link_cnt, closed_twice, reused>>

TimeWaitExpires(p) ==
    /\ pcb[p].live /\ pcb[p].state = "TIME_WAIT"
    /\ pcb' = [pcb EXCEPT ![p] = Freed("TIME_WAIT")]
    /\ UNCHANGED <<msg, plink_active, timer, link_cnt, closed_twice, reused>>

(* espconn_server_poll: an idle connection, or one whose close has failed. *)
espconn_server_poll(p) ==
    /\ Active(p) /\ pcb[p].handlers
    /\ IsServer(pcb[p].arg)
    /\ \E fin_ok \in BOOLEAN : close(pcb[p].arg, pcb[p], fin_ok)
    /\ UNCHANGED closed_twice

(* The heap gives a freed block to something else.                         *)
Reuse(p) ==
    /\ HeapReuse
    /\ ~pcb[p].live
    /\ \E s \in {"CLOSED", "OTHER"} : pcb' = [pcb EXCEPT ![p] = Freed(s)]
    /\ UNCHANGED <<msg, plink_active, timer, link_cnt, closed_twice, reused>>

Next ==
    \/ \E c \in Client : espconn_connect(c)
    \/ \E h \in Handle : espconn_disconnect(h)
    \/ \E m \in Msg : espconn_close_cb(m)
    \/ \E m \in Msg : espconn_tcp_reconnect(m)
    \/ tcp_listen_input
    \/ \E p \in Pcb : espconn_tcp_accept(p)
    \/ \E p \in Pcb : AcceptNoMessage(p)
    \/ \E p \in Pcb : AcceptNoEspconn(p)
    \/ \E p \in Pcb : espconn_client_connect(p)
    \/ \E p \in Pcb : RecvFin(p)
    \/ \E p \in Pcb : RecvClosing(p)
    \/ \E p \in Pcb : RecvLastAck(p)
    \/ \E p \in Pcb : Reset(p)
    \/ \E p \in Pcb : Timeout(p)
    \/ \E p \in Pcb : TimeWaitExpires(p)
    \/ \E p \in Pcb : espconn_server_poll(p)
    \/ \E p \in Pcb : Reuse(p)

Spec == Init /\ [][Next]_vars

(* Timers fire, and tcp_slowtmr runs twice a second: a connection that is  *)
(* opening or closing does not outlive its timeouts, and a server is       *)
(* polled.  A FIN does not fail for ever.  Nothing is assumed of the peer. *)
Passing == {"SYN_SENT", "SYN_RCVD", "FIN_WAIT_1", "FIN_WAIT_2", "CLOSING", "LAST_ACK"}

Fairness ==
    /\ \A m \in Msg : WF_vars(espconn_close_cb(m)) /\ WF_vars(espconn_tcp_reconnect(m))
    /\ \A p \in Pcb : WF_vars(pcb[p].state \in Passing /\ Timeout(p))
    /\ \A p \in Pcb : SF_vars(espconn_server_poll(p) /\ ~pcb'[p].handlers)

FairSpec == Spec /\ Fairness

-----------------------------------------------------------------------------
(* Types; the count of links exceeds the limit by one at most.             *)
TypeOK ==
    /\ pcb \in [Pcb -> Block]
    /\ msg \in [Msg -> Message \cup {None}]
    /\ plink_active \in Seq(Msg)
    /\ timer \in [Msg -> {"off", "close", "reconnect"}]
    /\ link_cnt \in 0 .. MaxActive + 1
    /\ closed_twice \in BOOLEAN /\ reused \in BOOLEAN

(* A timer is only ever armed on an allocated message, so no callback runs *)
(* on, and frees, a message that was freed: each connection's end is       *)
(* reported to the application once.                                       *)
TimerOwned == \A m \in Msg : timer[m] # "off" => msg[m] # None

(* A control block that still exists and still has a message as its        *)
(* argument belongs to that message: no callback of lwIP ever gets a freed *)
(* message or the message of another connection.                           *)
ArgIsMine ==
    \A p \in Pcb : pcb[p].arg # None =>
        /\ pcb[p].live
        /\ msg[pcb[p].arg] # None
        /\ msg[pcb[p].arg].pcb = p

(* Both: timers and callbacks act on what is theirs.                       *)
EachItsOwn == TimerOwned /\ ArgIsMine

(* The list holds the allocated messages, each once, but for those waiting *)
(* to report an error: the application's handles find no dying connection. *)
ListExact ==
    /\ Listed = {m \in Msg : msg[m] # None /\ timer[m] # "reconnect"}
    /\ Len(plink_active) = Cardinality(Listed)

(* Nothing on the list is forgotten: each message has a timer armed or a   *)
(* control block that still calls back with it.                            *)
NoneForgotten ==
    \A m \in Listed : timer[m] = "close" \/ pcb[msg[m].pcb].arg = m

(* The table that reports the links has MEMP_NUM_TCP_PCB entries: between  *)
(* callbacks no more server connections than that are on the list.         *)
LinksBounded == Cardinality(ServerNodes) <= MaxActive

(* Both: the list is of connections that can still end, no more than fit,  *)
(* until a connection is given a block that another's message refers to.   *)
ListedKept == reused \/ (NoneForgotten /\ LinksBounded)

(* "Calling tcp_close() with a pcb that has already been closed, (i.e.     *)
(* twice) ... is erroneous, but this should never happen": not before a    *)
(* block is given to two connections.                                      *)
NeverClosedTwice == closed_twice => reused

(* "Connection pcbs are freed if not yet connected and may not be          *)
(* referenced any more ... It is therefore unsafe to reference it": the    *)
(* close timer reports the end of a connection from a block that exists.   *)
ReportsFromLiveBlock ==
    [][\A m \in Msg :
          (timer[m] = "close" /\ timer'[m] = "off") => pcb[msg[m].pcb].live]_vars

(* A server connection that is being closed, by us or by the peer, is      *)
(* reported in the end, whatever the peer does.                            *)
ServerCloseReported ==
    \A m \in Msg : (timer[m] = "close" /\ msg[m] # None /\ IsServer(m))
                      ~> (timer[m] # "close")

(* "closing failed, try again later": so is a client connection.           *)
ClientCloseReported ==
    \A m \in Msg : (timer[m] = "close" /\ msg[m] # None /\ ~IsServer(m))
                      ~> (timer[m] # "close")
=============================================================================
