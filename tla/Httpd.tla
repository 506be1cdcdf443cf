-------------------------------- MODULE Httpd --------------------------------
(***************************************************************************)
(* The web server of the FreeRTOS applications as it is compiled there     *)
(* (src/rtos_apps/10HTTP_Server/user/httpd.c: no SSI, CGI, POST or         *)
(* keep-alive), for one connection after another.  Connections share       *)
(* nothing but memory: here, the pool of the pbufs they receive into.      *)
(*                                                                         *)
(* A request comes in one pbuf or several.  The answer is a file, counted  *)
(* in units; how much of it tcp_write takes, and whether tcp_close has     *)
(* memory for its segment, is TCP's choice.                                *)
(***************************************************************************)
EXTENDS Naturals

CONSTANTS
  HTTPD_MAX_RETRIES,            \* 4
  LWIP_HTTPD_REQ_QUEUELEN,      \* 5
  PBUF_POOL_SIZE,
  HttpMss, HttpSndBuf,          \* tcp_mss and the size of the send buffer
  FileSizes                     \* bound: of the files asked for

ASSUME HttpdAssumption ==
  /\ {HTTPD_MAX_RETRIES, LWIP_HTTPD_REQ_QUEUELEN, PBUF_POOL_SIZE, HttpMss, HttpSndBuf}
       \subseteq Nat \ {0}
  /\ FileSizes \subseteq Nat

VARIABLES
  http_pcb,     \* none, open, or left: tcp_close failed, and of its callbacks only
                \* the poll remains, with a null argument
  hs,           \* the http_state
  unacked,      \* units in the send buffer
  pbufs,        \* pbufs taken from the pool
  answer,       \* of the last request: size of the file and units written of it
  lost,         \* history: pbufs nobody refers to any more
  idle,         \* history: polls since the peer last acknowledged something
  ending        \* history: what the last connection was closed for

httpdVars == <<http_pcb, hs, unacked, pbufs, answer, lost, idle, ending>>

NoState == [req |-> 0, handle |-> FALSE, left |-> 0, retries |-> 0]
Files == FileSizes \cup {0}
LongestFile == CHOOSE n \in Files : \A k \in Files : k <= n

HttpdTypeOK ==
  /\ http_pcb \in {"none", "open", "left"}
  /\ hs \in [req : 0..LWIP_HTTPD_REQ_QUEUELEN, handle : BOOLEAN, left : 0..LongestFile,
             retries : 0..(HTTPD_MAX_RETRIES - 1)]
  /\ unacked \in 0..HttpSndBuf
  /\ pbufs \in 0..PBUF_POOL_SIZE /\ lost \in 0..PBUF_POOL_SIZE
  /\ answer \in [size : Files, written : 0..LongestFile]
  /\ idle \in 0..HTTPD_MAX_RETRIES
  /\ ending \in {"none", "answered", "refused", "slow", "peer", "error"}

HttpdInit ==
  /\ http_pcb = "none" /\ hs = NoState /\ unacked = 0 /\ pbufs = 0
  /\ answer = [size |-> 0, written |-> 0]
  /\ lost = 0 /\ idle = 0 /\ ending = "none"
----------------------------------------------------------------------------
http_accept ==
  /\ http_pcb = "none"
  /\ http_pcb' = "open" /\ hs' = NoState /\ unacked' = 0
  /\ answer' = [size |-> 0, written |-> 0] /\ idle' = 0 /\ ending' = "none"
  /\ UNCHANGED <<pbufs, lost>>

\* The state is freed whether or not tcp_close succeeds.  The pbufs of an
\* unfinished request are not freed with it.
http_close_conn(h, why) ==
  /\ http_pcb' \in {"none", "left"}
  /\ hs' = NoState /\ unacked' = 0
  /\ lost' = lost + h.req
  /\ ending' = why

Least3(a, b, c) == CHOOSE n \in {a, b, c} : n <= a /\ n <= b /\ n <= c

\* What tcp_write may be made to take of what is offered: all, half of it, half of
\* that, or nothing; a single unit is not tried after a failure.
http_write(left, room) ==
  LET n == Least3(left, room, 2 * HttpMss)
  IN {0, n} \cup {m \in {n \div 2, n \div 4} : m > 1}

\* Mutant: the end is taken to be reached when nothing could be written.
BugEofOnFull(left, n) == n = left \/ n = 0

AtEof(left, n) == n = left

\* u units are in the send buffer, a is what is known of the answer.  The end of
\* the file, or no file at all, closes the connection.
http_send(h, u, a) ==
  IF h.left = 0
  THEN /\ http_close_conn(h, IF h.handle THEN "answered" ELSE "refused")
       /\ answer' = a
  ELSE \E n \in http_write(h.left, HttpSndBuf - u) :
         /\ answer' = [a EXCEPT !.written = @ + n]
         /\ IF AtEof(h.left, n)
            THEN http_close_conn(h, "answered")
            ELSE /\ hs' = [h EXCEPT !.left = @ - n] /\ unacked' = u + n
                 /\ UNCHANGED <<http_pcb, lost, ending>>

\* Data while the answer is sent: the pbuf is neither used nor freed.
recv_while_sending ==
  /\ hs.handle
  /\ pbufs' = pbufs + 1 /\ lost' = lost + 1
  /\ UNCHANGED <<http_pcb, hs, unacked, answer, ending>>

\* A part of a request; with more of them than LWIP_HTTPD_REQ_QUEUELEN it is a
\* bad one.
recv_part ==
  /\ ~hs.handle /\ hs.req < LWIP_HTTPD_REQ_QUEUELEN
  /\ hs' = [hs EXCEPT !.req = @ + 1] /\ pbufs' = pbufs + 1
  /\ UNCHANGED <<http_pcb, unacked, answer, lost, ending>>

\* Mutant: the queue is not freed with the last pbuf.
BugFreesLast == hs

\* The request is done with: its pbufs, the last one among them, are freed.
ReqFreed == [hs EXCEPT !.req = 0]

http_find_file ==
  \E size \in FileSizes :
    http_send([ReqFreed EXCEPT !.handle = TRUE, !.left = size, !.retries = 0], unacked,
              [size |-> size, written |-> 0])

\* A whole request, or one that is bad (ERR_ARG); a file that is not there has
\* the connection closed without an answer.
recv_request ==
  /\ ~hs.handle
  /\ pbufs' = pbufs - hs.req
  /\ \/ http_find_file
     \/ http_send([ReqFreed EXCEPT !.retries = 0], unacked, answer)
     \/ http_close_conn(ReqFreed, "refused") /\ UNCHANGED answer

recv_fin == http_close_conn(hs, "peer") /\ UNCHANGED <<pbufs, answer>>

http_recv ==
  /\ http_pcb = "open" /\ UNCHANGED idle
  /\ \/ pbufs < PBUF_POOL_SIZE /\ (recv_while_sending \/ recv_part \/ recv_request)
     \/ recv_fin

\* Mutant: an acknowledgement does not count as progress.
BugKeepsRetries == hs

Progressed == [hs EXCEPT !.retries = 0]

http_sent ==
  /\ http_pcb = "open" /\ UNCHANGED pbufs
  /\ idle' = 0
  /\ \E n \in 1..unacked : http_send(Progressed, unacked - n, answer)

\* Mutant: a poll without a state does nothing.
BugLeavesLeft == http_pcb = "left" /\ UNCHANGED <<http_pcb, hs, unacked, answer, lost, idle, ending>>

\* The state is gone: tcp_close is tried again.
poll_left ==
  /\ http_pcb = "left" /\ http_pcb' \in {"none", "left"}
  /\ UNCHANGED <<hs, unacked, answer, lost, idle, ending>>

TooMany(h) == h.retries = HTTPD_MAX_RETRIES

http_poll ==
  /\ UNCHANGED pbufs
  /\ \/ /\ http_pcb = "open"
        /\ idle' = IF idle < HTTPD_MAX_RETRIES THEN idle + 1 ELSE idle
        /\ LET h == [hs EXCEPT !.retries = @ + 1]
           IN \/ TooMany(h) /\ http_close_conn(h, "slow") /\ UNCHANGED answer
              \/ ~TooMany(h) /\ h.handle /\ http_send(h, unacked, answer)
              \/ /\ ~TooMany(h) /\ ~h.handle /\ hs' = h
                 /\ UNCHANGED <<http_pcb, unacked, answer, lost, ending>>
     \/ poll_left

\* The connection is reset or given up; http_err frees the state.
http_err ==
  /\ http_pcb # "none" /\ http_pcb' = "none"
  /\ hs' = NoState /\ unacked' = 0 /\ lost' = lost + hs.req
  /\ ending' = IF http_pcb = "open" THEN "error" ELSE ending
  /\ UNCHANGED <<pbufs, answer, idle>>

\* Without callbacks, the peer's end has lwIP close the connection itself.
tcp_recv_null ==
  /\ http_pcb = "left" /\ http_pcb' = "none"
  /\ UNCHANGED <<hs, unacked, pbufs, answer, lost, idle, ending>>

HttpdNext ==
  http_accept \/ http_recv \/ http_sent \/ http_poll \/ http_err \/ tcp_recv_null

\* The poll comes every two seconds, and tcp_close does not fail for ever.
HttpdFairness == WF_httpdVars(http_poll) /\ WF_httpdVars(http_poll /\ http_pcb' = "none")

HttpdSpec == HttpdInit /\ [][HttpdNext]_httpdVars /\ HttpdFairness
----------------------------------------------------------------------------
\* Through partial writes, failed ones and polls, what was written of the file
\* and what is left make up the file; a connection closed at its end has it all.
AnswerWhole ==
  /\ hs.handle => answer.written + hs.left = answer.size
  /\ ending = "answered" => answer.written = answer.size

\* httpd.c:2250, "If there has been no data sent (which resets the retries) in 8
\* seconds, close": no answer is cut short for less.
ClosedOnlyIfIdle == ending = "slow" => idle >= HTTPD_MAX_RETRIES

\* The pool is short of the pbufs of the request being received and of those that
\* were lost: a segment that came during the answer, or an unfinished request
\* whose connection ended.
PbufsAccounted == pbufs = hs.req + lost

HttpdKept == AnswerWhole /\ ClosedOnlyIfIdle /\ PbufsAccounted

\* However slowly the peer sends and acknowledges, every connection ends.
HttpdEnds == []<>(http_pcb = "none")
============================================================================
