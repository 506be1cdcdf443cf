----------------------------- MODULE WebRequest -----------------------------
(***************************************************************************)
(* How the web server of 07switch puts a request together from the parts   *)
(* TCP delivers (save_data and webserver_recv in                           *)
(* src/apps/07switch/user/user_webserver.c).                               *)
(*                                                                         *)
(* The counters and the buffer are static: every connection's parts go     *)
(* through the same three variables, and nothing resets them when a        *)
(* connection ends in the middle of a request.                             *)
(***************************************************************************)
EXTENDS Naturals

CONSTANTS
  Peers,
  MaxLength,    \* bound: the longest body
  MaxTotal      \* bound: how far totallength is followed

ASSUME RequestAssumption == MaxLength \in Nat \ {0} /\ MaxTotal \in Nat

VARIABLES
  totallength, dat_sumlength,   \* body bytes counted, body bytes announced
  precvbuffer,                  \* whose bytes it holds and how many; NoBuffer
  owed,         \* of each browser: the part of its request still to come
  upset,        \* history: since the server was last clean, a request was broken
                \* off or two were under way at once
  spoiled,      \* a part was written past the end of the buffer
  last          \* history: the verdict on the last part

requestVars == <<totallength, dat_sumlength, precvbuffer, owed, upset, spoiled, last>>

NoBuffer == [from |-> {}, held |-> 0, size |-> 0]
NoVerdict == [ok |-> FALSE, whole |-> FALSE, alone |-> TRUE, upset |-> FALSE]

RequestTypeOK ==
  /\ totallength \in 0..(MaxTotal + MaxLength) /\ dat_sumlength \in 0..MaxLength
  /\ precvbuffer \in [from : SUBSET Peers, held : 0..(2 * MaxLength), size : 0..MaxLength]
  /\ owed \in [Peers -> 0..MaxLength]
  /\ {upset, spoiled} \subseteq BOOLEAN
  /\ last \in [ok : BOOLEAN, whole : BOOLEAN, alone : BOOLEAN, upset : BOOLEAN]

RequestInit ==
  /\ totallength = 0 /\ dat_sumlength = 0 /\ precvbuffer = NoBuffer
  /\ owed = [c \in Peers |-> 0]
  /\ upset = FALSE /\ spoiled = FALSE /\ last = NoVerdict

Clean(total, sum, buffer) == total = 0 /\ sum = 0 /\ buffer = NoBuffer
Quiet(due) == \A c \in Peers : due[c] = 0
----------------------------------------------------------------------------
\* Mutant: a complete request does not clear its count.
BugKeepsCount(total, sum, buffer) ==
  IF total = sum THEN [total |-> total, sum |-> 0, buffer |-> buffer, ok |-> TRUE]
                 ELSE [total |-> total, sum |-> sum, buffer |-> buffer, ok |-> FALSE]

\* What save_data leaves in its variables, and what it returns.
Result(total, sum, buffer) ==
  IF total = sum THEN [total |-> 0, sum |-> 0, buffer |-> buffer, ok |-> TRUE]
                 ELSE [total |-> total, sum |-> sum, buffer |-> buffer, ok |-> FALSE]

\* A part with the header, announcing n body bytes and holding b of them.  With
\* no length announced (n = 0) and bytes already counted it is refused; the
\* length announced before stays in force otherwise.
save_head(c, n, b) ==
  LET sum == IF n = 0 THEN dat_sumlength ELSE n
  IN IF n = 0 /\ totallength # 0
     THEN [total |-> 0, sum |-> 0, buffer |-> precvbuffer, ok |-> FALSE]
     ELSE Result(totallength + b, sum, [from |-> {c}, held |-> b, size |-> sum])

\* A part without the header goes behind what the buffer holds.
save_tail(c, b) ==
  IF precvbuffer = NoBuffer
  THEN [total |-> 0, sum |-> 0, buffer |-> NoBuffer, ok |-> FALSE]
  ELSE Result(totallength + b, dat_sumlength,
              [precvbuffer EXCEPT !.from = @ \cup {c}, !.held = @ + b])

\* webserver_recv: a refused part is answered "400 BadRequest" and frees the
\* buffer if no length is in force; a complete request is acted upon, and the
\* buffer freed.
webserver_recv(c, r, due) ==
  LET buffer == IF r.ok \/ r.sum = 0 THEN NoBuffer ELSE r.buffer
      busy == upset \/ \E d \in Peers \ {c} : owed[d] > 0
  IN /\ ~spoiled /\ totallength <= MaxTotal
     /\ totallength' = r.total /\ dat_sumlength' = r.sum /\ precvbuffer' = buffer
     /\ owed' = due
     /\ spoiled' = (r.buffer.held > r.buffer.size)
     /\ last' = [ok |-> r.ok, whole |-> due[c] = 0, alone |-> r.buffer.from \subseteq {c},
                 upset |-> busy]
     /\ upset' = (busy /\ ~(Clean(r.total, r.sum, buffer) /\ Quiet(due)))

FirstPart(c, n, b) ==
  owed[c] = 0 /\ webserver_recv(c, save_head(c, n, b), [owed EXCEPT ![c] = n - b])

NextPart(c, b) ==
  b <= owed[c] /\ webserver_recv(c, save_tail(c, b), [owed EXCEPT ![c] = @ - b])

\* A connection ends in the middle of a request: webserver_recon and
\* webserver_discon only print.
webserver_discon(c) ==
  /\ owed[c] > 0
  /\ owed' = [owed EXCEPT ![c] = 0] /\ upset' = TRUE
  /\ UNCHANGED <<totallength, dat_sumlength, precvbuffer, spoiled, last>>

RequestNext ==
  \E c \in Peers :
    \/ \E n \in 0..MaxLength : \E b \in 0..n : FirstPart(c, n, b)
    \/ \E b \in 1..MaxLength : NextPart(c, b)
    \/ webserver_discon(c)

RequestSpec == RequestInit /\ [][RequestNext]_requestVars
----------------------------------------------------------------------------
\* Nothing of a request stays behind when it is over.
NothingLeft ==
  Quiet(owed) /\ ~upset => Clean(totallength, dat_sumlength, precvbuffer)

\* A part completes a request exactly when its browser has sent all of it, and
\* the request acted upon is that browser's alone.
VerdictRight == ~last.upset => (last.ok <=> last.whole) /\ (last.ok => last.alone)

\* Nothing is written past the end of the buffer.
BufferHolds == spoiled => upset \/ last.upset

\* All this as long as requests are neither broken off nor under way at the
\* same time; and from the moment the counters have come back to zero, again.
RequestsKept == NothingLeft /\ VerdictRight /\ BufferHolds
============================================================================
