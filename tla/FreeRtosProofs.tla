--------------------------- MODULE FreeRtosProofs ---------------------------
(***************************************************************************)
(* Proofs about the FreeRTOS applications: what is answered to a request   *)
(* (Httpd), the tasks and the interrupt handler around the button          *)
(* (ButtonTasks) and the line typed at the console (UartInput).            *)
(***************************************************************************)
EXTENDS Httpd, ButtonTasks, UartInput, FiniteSetTheorems, TLAPS

(* What the members of the state hold; the file asked for may be of any    *)
(* size.                                                                   *)
HttpStates == [req : 0..LWIP_HTTPD_REQ_QUEUELEN, handle : BOOLEAN, left : Nat,
               retries : 0..(HTTPD_MAX_RETRIES - 1)]
Answers == [size : Nat, written : Nat]

(* The state h and the answer a so far: without a file nothing is left.    *)
Whole(h, a) ==
    /\ h.handle => a.written + h.left = a.size
    /\ ~h.handle => h.left = 0

HttpdInv ==
    /\ http_pcb \in {"none", "open", "left"}
    /\ hs \in HttpStates /\ answer \in Answers
    /\ unacked \in 0..HttpSndBuf
    /\ pbufs \in 0..PBUF_POOL_SIZE /\ lost \in Nat
    /\ idle \in 0..HTTPD_MAX_RETRIES
    /\ http_pcb = "open" => ending = "none"
    /\ http_pcb # "open" => hs = NoState
    /\ Whole(hs, answer)
    /\ hs.retries <= idle
    /\ HttpdKept

LEMMA NoStateTyped == NoState \in HttpStates /\ NoState.req = 0 /\ ~NoState.handle
                      /\ NoState.left = 0 /\ NoState.retries = 0
BY HttpdAssumption DEF NoState, HttpStates

(* What tcp_write takes fits the file and the send buffer.                 *)
LEMMA WriteFits ==
    ASSUME NEW left \in Nat, NEW room \in Nat, NEW n \in http_write(left, room)
    PROVE  n \in Nat /\ n <= left /\ n <= room
<1> DEFINE S == {left, room, 2 * HttpMss}
           m == Least3(left, room, 2 * HttpMss)
<1>1. HttpMss \in Nat
  BY HttpdAssumption
<1>2. m \in Nat /\ m <= left /\ m <= room
  <2>1. \E k \in S : k <= left /\ k <= room /\ k <= 2 * HttpMss
    BY <1>1
  <2>2. m \in S /\ m <= left /\ m <= room
    BY ONLY <2>1, Zenon DEF Least3
  <2>3. QED
    BY <1>1, <2>2
<1>3. n \in {0, m} \cup {k \in {m \div 2, m \div 4} : k > 1}
  BY DEF http_write
<1> HIDE DEF m
<1>4. QED
  BY <1>2, <1>3

(* The connection is closed: what it still had of the pool is lost.        *)
ClosesWith(h, why) ==
    /\ http_close_conn(h, why)
    /\ h \in HttpStates /\ answer' \in Answers
    /\ pbufs' \in 0..PBUF_POOL_SIZE /\ pbufs' = h.req + lost
    /\ idle' \in 0..HTTPD_MAX_RETRIES
    /\ why = "answered" => answer'.written = answer'.size
    /\ why = "slow" => idle' = HTTPD_MAX_RETRIES

LEMMA Closed ==
    ASSUME HttpdInv, NEW h, NEW why, ClosesWith(h, why)
    PROVE  HttpdInv'
<1> USE DEF ClosesWith
<1>1. /\ http_pcb' \in {"none", "left"} /\ hs' = NoState /\ unacked' = 0
      /\ lost' = lost + h.req /\ ending' = why
  BY DEF http_close_conn
<1>2. h.req \in Nat /\ lost \in Nat
  BY HttpdAssumption DEF HttpdInv, HttpStates
<1>3. 0 \in 0..HttpSndBuf
  BY HttpdAssumption
<1>4. /\ AnswerWhole' /\ ClosedOnlyIfIdle' /\ PbufsAccounted'
  BY <1>1, <1>2, NoStateTyped, HttpdAssumption DEF AnswerWhole, ClosedOnlyIfIdle, PbufsAccounted
<1>5. Whole(hs', answer')
  BY <1>1, NoStateTyped DEF Whole
<1>6. hs'.retries <= idle'
  BY <1>1, NoStateTyped
<1>7. QED
  BY <1>1, <1>2, <1>3, <1>4, <1>5, <1>6, NoStateTyped DEF HttpdInv, HttpdKept, Whole

(* The answer goes on, with state h, u units unacknowledged and a known of *)
(* it.                                                                     *)
GoesOn(h, u, a) ==
    /\ http_send(h, u, a)
    /\ http_pcb = "open"
    /\ h \in HttpStates /\ a \in Answers /\ Whole(h, a)
    /\ u \in 0..HttpSndBuf
    /\ pbufs' \in 0..PBUF_POOL_SIZE /\ pbufs' = h.req + lost
    /\ idle' \in 0..HTTPD_MAX_RETRIES /\ h.retries <= idle'

LEMMA WentOn ==
    ASSUME HttpdInv, NEW h, NEW u, NEW a, GoesOn(h, u, a)
    PROVE  HttpdInv'
<1> USE DEF GoesOn
<1>1. CASE h.left = 0
  <2> DEFINE why == IF h.handle THEN "answered" ELSE "refused"
  <2>1. http_close_conn(h, why) /\ answer' = a
    BY <1>1 DEF http_send
  <2>2. h.handle => a.written = a.size
    BY <1>1 DEF Whole, Answers
  <2>3. ClosesWith(h, why)
    BY <2>1, <2>2 DEF ClosesWith
  <2>4. QED
    BY <2>3, Closed
<1>2. CASE h.left # 0
  <2>1. h.handle /\ h.left \in Nat /\ h.left > 0 /\ h.req \in Nat
    BY <1>2, HttpdAssumption DEF Whole, HttpStates
  <2>2. HttpSndBuf - u \in Nat
    BY HttpdAssumption
  <2>3. PICK n \in http_write(h.left, HttpSndBuf - u) :
          /\ answer' = [a EXCEPT !.written = @ + n]
          /\ IF AtEof(h.left, n)
             THEN http_close_conn(h, "answered")
             ELSE /\ hs' = [h EXCEPT !.left = @ - n] /\ unacked' = u + n
                  /\ UNCHANGED <<http_pcb, lost, ending>>
    BY <1>2 DEF http_send
  <2>4. n \in Nat /\ n <= h.left /\ n <= HttpSndBuf - u
    BY <2>1, <2>2, WriteFits
  <2>5. answer' \in Answers /\ answer'.written = a.written + n /\ answer'.size = a.size
    BY <2>3, <2>4 DEF Answers
  <2>6. a.written + h.left = a.size /\ a.written \in Nat
    BY <2>1 DEF Whole, Answers
  <2>7. CASE AtEof(h.left, n)
    <3>1. answer'.written = answer'.size
      BY <2>1, <2>4, <2>5, <2>6, <2>7 DEF AtEof
    <3>2. ClosesWith(h, "answered")
      BY <2>3, <2>5, <2>7, <3>1 DEF ClosesWith
    <3>3. QED
      BY <3>2, Closed
  <2>8. CASE ~AtEof(h.left, n)
    <3>1. hs' = [h EXCEPT !.left = @ - n] /\ unacked' = u + n
          /\ UNCHANGED <<http_pcb, lost, ending>>
      BY <2>3, <2>8
    <3>2. /\ hs' \in HttpStates /\ hs'.left = h.left - n /\ hs'.handle = h.handle
          /\ hs'.req = h.req /\ hs'.retries = h.retries
      <4>1. h.left - n \in Nat
        BY <2>1, <2>4
      <4>2. QED
        BY <3>1, <4>1 DEF HttpStates
    <3>3. unacked' \in 0..HttpSndBuf
      BY <2>4, <3>1, HttpdAssumption
    <3>4. answer'.written + hs'.left = answer'.size
      BY <2>1, <2>4, <2>5, <2>6, <3>2
    <3>5. Whole(hs', answer')
      BY <2>1, <3>2, <3>4 DEF Whole
    <3>6. ending' = "none" /\ http_pcb' = "open" /\ lost' = lost
      BY <3>1 DEF HttpdInv
    <3>7. HttpdKept'
      BY <3>2, <3>4, <3>6 DEF HttpdKept, AnswerWhole, ClosedOnlyIfIdle, PbufsAccounted
    <3>8. QED
      BY <2>5, <3>2, <3>3, <3>5, <3>6, <3>7 DEF HttpdInv, Whole
  <2>9. QED
    BY <2>7, <2>8
<1>3. QED
  BY <1>1, <1>2

(* The parts of the invariant, with the arithmetic of the pool.            *)
LEMMA HttpdTyped ==
    ASSUME HttpdInv
    PROVE  /\ hs \in HttpStates /\ answer \in Answers /\ Whole(hs, answer)
           /\ hs.req \in 0..LWIP_HTTPD_REQ_QUEUELEN /\ hs.handle \in BOOLEAN
           /\ hs.retries \in 0..(HTTPD_MAX_RETRIES - 1) /\ hs.retries <= idle
           /\ unacked \in 0..HttpSndBuf
           /\ pbufs \in 0..PBUF_POOL_SIZE /\ lost \in Nat /\ pbufs = hs.req + lost
           /\ idle \in 0..HTTPD_MAX_RETRIES
           /\ HTTPD_MAX_RETRIES \in Nat \ {0} /\ PBUF_POOL_SIZE \in Nat \ {0}
           /\ LWIP_HTTPD_REQ_QUEUELEN \in Nat \ {0} /\ HttpSndBuf \in Nat \ {0}
           /\ FileSizes \subseteq Nat
BY HttpdAssumption DEF HttpdInv, HttpStates, HttpdKept, PbufsAccounted

LEMMA Receives ==
    ASSUME HttpdInv, http_recv
    PROVE  HttpdInv'
<1>1. http_pcb = "open" /\ idle' = idle
  BY DEF http_recv
<1>2. CASE pbufs < PBUF_POOL_SIZE /\ recv_while_sending
  <2>1. pbufs' = pbufs + 1 /\ lost' = lost + 1
        /\ UNCHANGED <<http_pcb, hs, unacked, answer, ending>>
    BY <1>2 DEF recv_while_sending
  <2>2. pbufs' \in 0..PBUF_POOL_SIZE /\ lost' \in Nat /\ pbufs' = hs.req + lost'
    BY <1>2, <2>1, HttpdTyped
  <2>3. QED
    BY <1>1, <2>1, <2>2
    DEF HttpdInv, HttpdKept, Whole, AnswerWhole, ClosedOnlyIfIdle, PbufsAccounted
<1>3. CASE pbufs < PBUF_POOL_SIZE /\ recv_part
  <2>1. hs' = [hs EXCEPT !.req = @ + 1] /\ pbufs' = pbufs + 1 /\ hs.req < LWIP_HTTPD_REQ_QUEUELEN
        /\ UNCHANGED <<http_pcb, unacked, answer, lost, ending>>
    BY <1>3 DEF recv_part
  <2>2. pbufs' \in 0..PBUF_POOL_SIZE /\ hs.req + 1 \in 0..LWIP_HTTPD_REQ_QUEUELEN
    BY <1>3, <2>1, HttpdTyped
  <2>3. /\ hs' \in HttpStates /\ hs'.req = hs.req + 1 /\ hs'.handle = hs.handle
        /\ hs'.left = hs.left /\ hs'.retries = hs.retries
    BY <2>1, <2>2, HttpdTyped DEF HttpStates
  <2>4. pbufs' = hs'.req + lost
    BY <2>1, <2>3, HttpdTyped
  <2>5. QED
    BY <1>1, <2>1, <2>2, <2>3, <2>4
    DEF HttpdInv, HttpdKept, Whole, AnswerWhole, ClosedOnlyIfIdle, PbufsAccounted
<1>4. CASE pbufs < PBUF_POOL_SIZE /\ recv_request
  <2> DEFINE g == [ReqFreed EXCEPT !.retries = 0]
  <2>1. pbufs' = pbufs - hs.req /\ ~hs.handle
    BY <1>4 DEF recv_request
  <2>2. pbufs' \in 0..PBUF_POOL_SIZE /\ pbufs' = lost /\ lost \in Nat /\ 0 <= idle
    BY <2>1, HttpdTyped
  <2>3. ReqFreed \in HttpStates /\ ReqFreed.req = 0 /\ ReqFreed.handle = hs.handle
        /\ ReqFreed.left = hs.left
    BY HttpdTyped DEF ReqFreed, HttpStates
  <2>4. 0 \in 0..(HTTPD_MAX_RETRIES - 1)
    BY HttpdAssumption
  <2>5. g \in HttpStates /\ g.req = 0 /\ ~g.handle /\ g.left = hs.left /\ g.retries = 0
    BY <2>1, <2>3, <2>4 DEF HttpStates
  <2>6. CASE http_find_file
    <3>1. PICK size \in FileSizes :
            http_send([ReqFreed EXCEPT !.handle = TRUE, !.left = size, !.retries = 0], unacked,
                      [size |-> size, written |-> 0])
      BY <2>6 DEF http_find_file
    <3> DEFINE h == [ReqFreed EXCEPT !.handle = TRUE, !.left = size, !.retries = 0]
               a == [size |-> size, written |-> 0]
    <3>2. size \in Nat
      BY HttpdTyped
    <3>3. h \in HttpStates /\ h.req = 0 /\ h.handle /\ h.left = size /\ h.retries = 0
      BY <2>3, <2>4, <3>2 DEF HttpStates
    <3>4. a \in Answers /\ a.written = 0 /\ a.size = size
      BY <3>2 DEF Answers
    <3> HIDE DEF h, a
    <3>5. Whole(h, a)
      BY <3>2, <3>3, <3>4 DEF Whole
    <3>6. GoesOn(h, unacked, a)
      BY <1>1, <2>2, <3>1, <3>3, <3>4, <3>5, HttpdTyped DEF GoesOn, h, a
    <3>7. QED
      BY <3>6, WentOn
  <2>7. CASE http_send(g, unacked, answer)
    <3> HIDE DEF g
    <3>1. Whole(g, answer)
      BY <2>1, <2>5, HttpdTyped DEF Whole
    <3>2. GoesOn(g, unacked, answer)
      BY <1>1, <2>2, <2>5, <2>7, <3>1, HttpdTyped DEF GoesOn
    <3>3. QED
      BY <3>2, WentOn
  <2>8. CASE http_close_conn(ReqFreed, "refused") /\ answer' = answer
    <3>1. ClosesWith(ReqFreed, "refused")
      BY <1>1, <2>2, <2>3, <2>8, HttpdTyped DEF ClosesWith
    <3>2. QED
      BY <3>1, Closed
  <2>9. QED
    BY <1>4, <2>6, <2>7, <2>8 DEF recv_request
<1>5. CASE recv_fin
  <2>1. ClosesWith(hs, "peer")
    BY <1>1, <1>5, HttpdTyped DEF recv_fin, ClosesWith
  <2>2. QED
    BY <2>1, Closed
<1>6. QED
  BY <1>2, <1>3, <1>4, <1>5 DEF http_recv

LEMMA Acknowledges ==
    ASSUME HttpdInv, http_sent
    PROVE  HttpdInv'
<1>1. PICK n \in 1..unacked : http_send(Progressed, unacked - n, answer)
  BY DEF http_sent
<1>2. http_pcb = "open" /\ pbufs' = pbufs /\ idle' = 0
  BY DEF http_sent
<1>3. /\ Progressed \in HttpStates /\ Progressed.req = hs.req /\ Progressed.retries = 0
      /\ Progressed.handle = hs.handle /\ Progressed.left = hs.left
  BY HttpdTyped DEF Progressed, HttpStates
<1>4. Whole(Progressed, answer)
  BY <1>3, HttpdTyped DEF Whole
<1>5. unacked - n \in 0..HttpSndBuf
  BY HttpdTyped
<1>6. GoesOn(Progressed, unacked - n, answer)
  BY <1>1, <1>2, <1>3, <1>4, <1>5, HttpdTyped DEF GoesOn
<1>7. QED
  BY <1>6, WentOn

(* A connection is given up as slow only when it was polled as often as    *)
(* that without progress.                                                  *)
LEMMA Polled ==
    ASSUME HttpdInv, http_poll
    PROVE  HttpdInv'
<1>1. pbufs' = pbufs
  BY DEF http_poll
<1>2. CASE poll_left
  BY <1>1, <1>2
  DEF poll_left, HttpdInv, HttpdKept, Whole, AnswerWhole, ClosedOnlyIfIdle, PbufsAccounted
<1>3. CASE ~poll_left
  <2> DEFINE h == [hs EXCEPT !.retries = @ + 1]
  <2>1. /\ http_pcb = "open"
        /\ idle' = IF idle < HTTPD_MAX_RETRIES THEN idle + 1 ELSE idle
        /\ \/ TooMany(h) /\ http_close_conn(h, "slow") /\ answer' = answer
           \/ ~TooMany(h) /\ http_send(h, unacked, answer)
           \/ /\ ~TooMany(h) /\ hs' = h
              /\ UNCHANGED <<http_pcb, unacked, answer, lost, ending>>
    BY <1>3 DEF http_poll
  <2>2. /\ h.req = hs.req /\ h.handle = hs.handle /\ h.left = hs.left
        /\ h.retries = hs.retries + 1
        /\ h \in [req : 0..LWIP_HTTPD_REQ_QUEUELEN, handle : BOOLEAN, left : Nat, retries : Nat]
    BY HttpdTyped DEF HttpStates
  <2>3. idle' \in 0..HTTPD_MAX_RETRIES /\ hs.retries + 1 <= idle'
    BY <2>1, HttpdTyped
  <2>4. hs.retries + 1 = HTTPD_MAX_RETRIES <=> TooMany(h)
    BY <2>2 DEF TooMany
  <2>5. ~TooMany(h) => h \in HttpStates
    <3>1. hs.retries + 1 # HTTPD_MAX_RETRIES => hs.retries + 1 \in 0..(HTTPD_MAX_RETRIES - 1)
      BY HttpdTyped
    <3>2. QED
      BY <2>2, <2>4, <3>1, HttpdTyped DEF HttpStates
  <2>6. Whole(h, answer)
    BY <2>2, HttpdTyped DEF Whole
  <2> HIDE DEF h
  <2>7. CASE TooMany(h) /\ http_close_conn(h, "slow") /\ answer' = answer
    <3>1. idle' = HTTPD_MAX_RETRIES
      BY <2>3, <2>4, <2>7, HttpdTyped
    <3>2. http_close_conn(hs, "slow")
      BY <2>2, <2>7 DEF http_close_conn
    <3>3. ClosesWith(hs, "slow")
      BY <1>1, <2>3, <2>7, <3>1, <3>2, HttpdTyped DEF ClosesWith
    <3>4. QED
      BY <3>3, Closed
  <2>8. CASE ~TooMany(h) /\ http_send(h, unacked, answer)
    <3>1. GoesOn(h, unacked, answer)
      BY <1>1, <2>1, <2>2, <2>3, <2>5, <2>6, <2>8, HttpdTyped DEF GoesOn
    <3>2. QED
      BY <3>1, WentOn
  <2>9. CASE ~TooMany(h) /\ hs' = h /\ UNCHANGED <<http_pcb, unacked, answer, lost, ending>>
    <3>1. hs' \in HttpStates /\ hs'.retries <= idle' /\ hs'.req = hs.req
          /\ hs'.handle = hs.handle /\ hs'.left = hs.left
      BY <2>2, <2>3, <2>5, <2>9
    <3>2. ending' = "none"
      BY <2>1, <2>9 DEF HttpdInv
    <3>3. QED
      BY <1>1, <2>1, <2>3, <2>9, <3>1, <3>2
      DEF HttpdInv, HttpdKept, Whole, AnswerWhole, ClosedOnlyIfIdle, PbufsAccounted
  <2>10. QED
    BY <2>1, <2>7, <2>8, <2>9
<1>4. QED
  BY <1>2, <1>3

LEMMA Errs ==
    ASSUME HttpdInv, http_err
    PROVE  HttpdInv'
<1>1. /\ http_pcb' = "none" /\ hs' = NoState /\ unacked' = 0 /\ lost' = lost + hs.req
      /\ ending' = IF http_pcb = "open" THEN "error" ELSE ending
      /\ UNCHANGED <<pbufs, answer, idle>>
  BY DEF http_err
<1>2. lost' \in Nat /\ pbufs = 0 + lost' /\ 0 \in 0..HttpSndBuf /\ 0 <= idle
  BY <1>1, HttpdTyped
<1>3. AnswerWhole' /\ ClosedOnlyIfIdle'
  BY <1>1, NoStateTyped DEF HttpdInv, HttpdKept, AnswerWhole, ClosedOnlyIfIdle
<1>4. QED
  BY <1>1, <1>2, <1>3, NoStateTyped DEF HttpdInv, HttpdKept, Whole, PbufsAccounted

LEMMA Accepts ==
    ASSUME HttpdInv, http_accept
    PROVE  HttpdInv'
<1>1. /\ http_pcb = "none" /\ http_pcb' = "open" /\ hs' = NoState /\ unacked' = 0
      /\ answer' = [size |-> 0, written |-> 0] /\ idle' = 0 /\ ending' = "none"
      /\ UNCHANGED <<pbufs, lost>>
  BY DEF http_accept
<1>2. hs = NoState
  BY <1>1 DEF HttpdInv
<1>3. 0 \in 0..HttpSndBuf /\ 0 \in 0..HTTPD_MAX_RETRIES
  BY HttpdTyped
<1>4. answer' \in Answers /\ Whole(hs', answer')
  BY <1>1, NoStateTyped DEF Whole, Answers
<1>5. HttpdKept'
  BY <1>1, <1>2, NoStateTyped, HttpdTyped
  DEF HttpdKept, AnswerWhole, ClosedOnlyIfIdle, PbufsAccounted
<1>6. QED
  BY <1>1, <1>3, <1>4, <1>5, NoStateTyped, HttpdTyped DEF HttpdInv

LEMMA HttpdInitInv == HttpdInit => HttpdInv
BY NoStateTyped, HttpdAssumption
DEF HttpdInit, HttpdInv, HttpdKept, Whole, AnswerWhole, ClosedOnlyIfIdle, PbufsAccounted, Answers

LEMMA HttpdStep == HttpdInv /\ [HttpdNext]_httpdVars => HttpdInv'
<1> SUFFICES ASSUME HttpdInv, [HttpdNext]_httpdVars PROVE HttpdInv'
  OBVIOUS
<1>1. ASSUME tcp_recv_null PROVE HttpdInv'
  BY <1>1
  DEF tcp_recv_null, HttpdInv, HttpdKept, Whole, AnswerWhole, ClosedOnlyIfIdle, PbufsAccounted
<1>2. ASSUME UNCHANGED httpdVars PROVE HttpdInv'
  BY <1>2
  DEF httpdVars, HttpdInv, HttpdKept, Whole, AnswerWhole, ClosedOnlyIfIdle, PbufsAccounted
<1>3. QED
  BY <1>1, <1>2, Accepts, Receives, Acknowledges, Polled, Errs DEF HttpdNext

(* An answer is written whole, however little TCP takes of it at a time; a *)
(* connection is given up only after that many polls without progress; and *)
(* every pbuf is the request's or is lost: for pools, files and buffers of *)
(* any size.                                                               *)
THEOREM AnswersKept == HttpdSpec => []HttpdKept
<1>1. HttpdInv => HttpdKept
  BY DEF HttpdInv
<1>2. QED
  BY <1>1, HttpdInitInv, HttpdStep, PTL DEF HttpdSpec
----------------------------------------------------------------------------
(* Who has the semaphore is where it is used.                              *)
Semaphore ==
    /\ (ledSemaphore = "check" <=> check = "led")
    /\ (ledSemaphore = "button" <=> button \in {"send", "flash"})
    /\ ~stray

(* A task is in send_command only from its call of it, and a socket is     *)
(* open only after its call was made.                                      *)
Calls ==
    /\ at["button"] # "out" => button = "send"
    /\ at["input"] # "out" => input = "send"
    /\ \A t \in sockets : at[t] \notin {"out", "socket"}

(* What a sender has looked up and built is for the configuration in use,  *)
(* unless it was disturbed; and two at once have disturbed each other.     *)
Undisturbed ==
    /\ at["button"] # "out" /\ at["input"] # "out" => disturbed = Senders
    /\ input = "typing" => \A t \in Senders : at[t] # "out" => t \in disturbed
    /\ \A t \in Senders \ disturbed :
         /\ at[t] \in {"connect", "build", "write"} => target[t] = user_config
         /\ at[t] = "write" => data = [by |-> t, host |-> target[t]]
    /\ ~astray

(* The host is written before the configuration is marked valid; part of a *)
(* host is only what an erase cut short has left.                          *)
HostFirst ==
    /\ flash.valid => flash.host # "erased"
    /\ input \in {"valid", "restart"} => flash.host # "erased"
    /\ ~torn => flash.host # "torn" /\ user_config # "torn"

ButtonInv ==
    /\ ButtonTypeOK
    /\ Semaphore
    /\ Calls
    /\ Undisturbed
    /\ HostFirst

(* The variables of each part of the invariant.                            *)
LEMMA PartsKept ==
    ASSUME ButtonInv
    PROVE  /\ UNCHANGED <<ledSemaphore, check, button, stray>> => Semaphore'
           /\ UNCHANGED <<at, button, input, sockets>> => Calls'
           /\ UNCHANGED <<at, input, disturbed, target, user_config, data, astray>> => Undisturbed'
           /\ UNCHANGED <<flash, input, user_config, torn>> => HostFirst'
<1>1. UNCHANGED <<ledSemaphore, check, button, stray>> => Semaphore'
  BY DEF ButtonInv, Semaphore
<1>2. UNCHANGED <<at, button, input, sockets>> => Calls'
  BY DEF ButtonInv, Calls
<1>3. UNCHANGED <<at, input, disturbed, target, user_config, data, astray>> => Undisturbed'
  BY DEF ButtonInv, Undisturbed
<1>4. UNCHANGED <<flash, input, user_config, torn>> => HostFirst'
  BY DEF ButtonInv, HostFirst
<1>5. QED
  BY <1>1, <1>2, <1>3, <1>4

LEMMA ChecksConnection == ButtonInv /\ check_connection => ButtonInv'
<1> SUFFICES ASSUME ButtonInv, check_connection PROVE ButtonInv'
  OBVIOUS
<1>1. UNCHANGED <<button, input, at, target, sockets, data, user_config, flash, stray, astray,
                  disturbed, torn>>
  BY DEF check_connection
<1>2. ButtonTypeOK'
  BY <1>1 DEF ButtonInv, ButtonTypeOK, check_connection
<1>3. Semaphore'
  BY <1>1 DEF ButtonInv, ButtonTypeOK, Semaphore, check_connection
<1>4. QED
  BY <1>1, <1>2, <1>3, PartsKept DEF ButtonInv

(* A sender's step of send_command: what it does to its place, and to what *)
(* the two senders share.                                                  *)
StepsTo(t, to) == at[t] # "out" /\ at' = [at EXCEPT ![t] = to]

LEMMA Commands ==
    ASSUME ButtonInv, NEW t \in Senders, send_command(t)
    PROVE  ButtonInv'
<1>1. /\ UNCHANGED <<button, input, check, user_config, flash, ledSemaphore, wifi_status,
                     stray, disturbed, torn>>
      /\ \/ send_socket(t) \/ send_lookup(t) \/ send_connect(t)
         \/ send_build(t) \/ send_write(t) \/ send_read(t)
  BY DEF send_command
<1>2. /\ at \in [Senders -> Steps] /\ target \in [Senders -> Addresses]
      /\ sockets \subseteq Senders /\ user_config \in Addresses
      /\ data \in [by : Senders \cup {"none"}, host : Addresses]
      /\ astray = FALSE
  BY DEF ButtonInv, ButtonTypeOK, Undisturbed
<1>3. PICK to \in Steps : StepsTo(t, to)
                          /\ (to = "write" <=> send_build(t))
                          /\ (to = "connect" => send_lookup(t) /\ target' = [target EXCEPT ![t] = user_config])
                          /\ (to = "build" => at[t] = "connect" /\ UNCHANGED <<data, target>>)
                          /\ (to = "out" => t \notin sockets')
                          /\ (to = "socket" => FALSE)
  <2>1. at[t] = "socket" => t \notin sockets
    BY DEF ButtonInv, Calls
  <2>2. CASE send_socket(t)
    BY <1>2, <2>1, <2>2 DEF send_socket, send_build, Goes, StepsTo, Steps
  <2>3. CASE send_lookup(t)
    BY <1>2, <2>3 DEF send_lookup, send_build, Goes, StepsTo, Steps
  <2>4. CASE send_connect(t)
    BY <1>2, <2>4 DEF send_connect, send_build, Goes, StepsTo, Steps
  <2>5. CASE send_build(t)
    BY <1>2, <2>5 DEF send_build, Goes, StepsTo, Steps
  <2>6. CASE send_write(t)
    BY <1>2, <2>6 DEF send_write, send_build, Goes, StepsTo, Steps
  <2>7. CASE send_read(t)
    BY <1>2, <2>7 DEF send_read, send_build, Goes, StepsTo, Steps
  <2>8. QED
    BY <1>1, <2>2, <2>3, <2>4, <2>5, <2>6, <2>7
<1>4. /\ at' \in [Senders -> Steps] /\ at'[t] = to /\ at[t] # "out"
      /\ \A u \in Senders : u # t => at'[u] = at[u]
  BY <1>2, <1>3 DEF StepsTo
<1>5. /\ sockets' \subseteq sockets \cup {t}
      /\ target' \in [Senders -> Addresses]
      /\ data' \in [by : Senders \cup {"none"}, host : Addresses]
      /\ \A u \in Senders : u # t => target'[u] = target[u]
      /\ astray' \in BOOLEAN
  <2> DEFINE empty == [by |-> "none", host |-> "blank"]
             built == [by |-> t, host |-> user_config]
  <2>1. empty \in [by : Senders \cup {"none"}, host : Addresses]
        /\ built \in [by : Senders \cup {"none"}, host : Addresses]
    BY <1>2 DEF Addresses
  <2>2. data' \in {data, empty, built}
    BY <1>1 DEF send_socket, send_lookup, send_connect, send_build, send_write, send_read
  <2> HIDE DEF empty, built
  <2>3. data' \in [by : Senders \cup {"none"}, host : Addresses]
    BY <1>2, <2>1, <2>2
  <2>4. sockets' \subseteq sockets \cup {t}
    BY <1>1 DEF send_socket, send_lookup, send_connect, send_build, send_write, send_read
  <2>5. target' \in {target, [target EXCEPT ![t] = user_config]}
    BY <1>1 DEF send_socket, send_lookup, send_connect, send_build, send_write, send_read
  <2>6. astray' \in BOOLEAN
    BY <1>1, <1>2 DEF send_socket, send_lookup, send_connect, send_build, send_write, send_read
  <2>7. QED
    BY <1>2, <2>3, <2>4, <2>5, <2>6
<1>6. ~astray'
  <2>1. t \notin disturbed /\ at[t] = "write" => data = [by |-> t, host |-> target[t]]
    BY DEF ButtonInv, Undisturbed
  <2>2. QED
    BY <1>1, <1>2, <2>1
    DEF send_socket, send_lookup, send_connect, send_build, send_write, send_read, Goes
<1>7. ButtonTypeOK'
  BY <1>1, <1>2, <1>4, <1>5 DEF ButtonInv, ButtonTypeOK
<1>8. Calls'
  <2>1. \A u \in sockets' : at'[u] \notin {"out", "socket"}
    BY <1>2, <1>3, <1>4, <1>5 DEF ButtonInv, Calls
  <2>2. /\ at'["button"] # "out" => button' = "send"
        /\ at'["input"] # "out" => input' = "send"
    BY <1>1, <1>4 DEF ButtonInv, Calls, Senders
  <2>3. QED
    BY <2>1, <2>2 DEF Calls
<1>9. Undisturbed'
  <2>1. at'["button"] # "out" /\ at'["input"] # "out" => disturbed' = Senders
    BY <1>1, <1>4 DEF ButtonInv, Undisturbed, Senders
  <2>2. input' = "typing" => \A u \in Senders : at'[u] # "out" => u \in disturbed'
    BY <1>1, <1>4 DEF ButtonInv, Undisturbed
  <2>3. ASSUME NEW u \in Senders, u \notin disturbed', at'[u] # "out"
        PROVE  /\ at'[u] \in {"connect", "build", "write"} => target'[u] = user_config'
               /\ at'[u] = "write" => data' = [by |-> u, host |-> target'[u]]
    <3>1. u = t
      BY <1>1, <1>4, <2>3 DEF ButtonInv, Undisturbed, Senders
    <3>2. u \notin disturbed /\ u \in Senders \ disturbed
      BY <1>1, <2>3
    <3>3. at[t] \in {"connect", "build", "write"} => target[t] = user_config
      BY <3>1, <3>2 DEF ButtonInv, Undisturbed
    <3>4. CASE to = "connect"
      BY <1>1, <1>2, <1>3, <1>4, <3>1, <3>4
    <3>5. CASE to = "build"
      BY <1>1, <1>3, <1>4, <3>1, <3>3, <3>5
    <3>6. CASE to = "write"
      <4>1. send_build(t)
        BY <1>3, <3>6
      <4>2. at[t] = "build" /\ data' = [by |-> t, host |-> user_config] /\ target' = target
        BY <4>1 DEF send_build, Goes
      <4>3. QED
        BY <1>1, <1>4, <3>1, <3>3, <3>6, <4>2
    <3>7. QED
      BY <1>4, <3>1, <3>4, <3>5, <3>6
  <2>4. QED
    BY <1>6, <2>1, <2>2, <2>3 DEF Undisturbed
<1>10. QED
  BY <1>1, <1>7, <1>8, <1>9, PartsKept DEF ButtonInv

(* A sender enters send_command: from here on, whoever else is in it has   *)
(* been disturbed.                                                         *)
LEMMA Enters ==
    ASSUME ButtonInv, NEW t \in Senders, Enter(t), at[t] = "out",
           UNCHANGED <<target, sockets, data, user_config, astray>>,
           input' = (IF t = "input" THEN "send" ELSE input),
           t = "input" => input = "menu",
           button' = (IF t = "button" THEN "send" ELSE button)
    PROVE  /\ Calls' /\ Undisturbed'
           /\ at' \in [Senders -> Steps] /\ disturbed' \subseteq Senders
<1>1. at \in [Senders -> Steps] /\ disturbed \subseteq Senders /\ sockets \subseteq Senders
      /\ ~astray
  BY DEF ButtonInv, ButtonTypeOK, Undisturbed
<1>2. /\ at' = [at EXCEPT ![t] = "socket"]
      /\ disturbed' = IF at[Other(t)] # "out" THEN Senders
                      ELSE IF t = "button" /\ input = "typing" THEN disturbed \cup {t}
                      ELSE disturbed \ {t}
  BY DEF Enter
<1>3. at' \in [Senders -> Steps] /\ disturbed' \subseteq Senders
  BY <1>1, <1>2 DEF Steps
<1>4. at'[t] = "socket" /\ \A u \in Senders : u # t => at'[u] = at[u] /\ u = Other(t)
  BY <1>1, <1>2 DEF Other, Senders
<1>5. t \notin sockets
  BY DEF ButtonInv, Calls
<1>6. Calls'
  <2>1. /\ at'["button"] # "out" => button' = "send"
        /\ at'["input"] # "out" => input' = "send"
    BY <1>4 DEF ButtonInv, Calls, Senders
  <2>2. \A u \in sockets' : at'[u] \notin {"out", "socket"}
    BY <1>1, <1>4, <1>5 DEF ButtonInv, Calls
  <2>3. QED
    BY <2>1, <2>2 DEF Calls
<1>7. Undisturbed'
  <2>1. at'["button"] # "out" /\ at'["input"] # "out" => disturbed' = Senders
    BY <1>2, <1>4 DEF Senders
  <2>2. ASSUME input' = "typing", NEW u \in Senders, at'[u] # "out" PROVE u \in disturbed'
    BY <1>1, <1>2, <1>4, <2>2 DEF ButtonInv, Undisturbed, Senders
  <2>3. ASSUME NEW u \in Senders \ disturbed'
        PROVE  /\ at'[u] \in {"connect", "build", "write"} => target'[u] = user_config'
               /\ at'[u] = "write" => data' = [by |-> u, host |-> target'[u]]
    <3>1. CASE u = t
      BY <1>4, <3>1
    <3>2. CASE u # t
      <4>1. at'[u] = at[u] /\ (at[u] # "out" => disturbed' = Senders)
        BY <1>2, <1>4, <3>2
      <4>2. QED
        BY <2>3, <4>1
    <3>3. QED
      BY <3>1, <3>2
  <2>4. QED
    BY <1>1, <2>1, <2>2, <2>3 DEF Undisturbed
<1>8. QED
  BY <1>3, <1>6, <1>7

(* A sender comes back from send_command.                                  *)
LEMMA ReturnsFrom ==
    ASSUME ButtonInv, NEW t \in Senders, Returns(t),
           UNCHANGED <<sockets, data, user_config, astray>>,
           input' # "typing", t = "button" => input' = input, t = "input" => button' = button
    PROVE  /\ Calls' /\ Undisturbed' /\ at' = at
           /\ target' \in [Senders -> Addresses] /\ disturbed' \subseteq Senders
<1>1. target \in [Senders -> Addresses] /\ disturbed \subseteq Senders /\ ~astray
  BY DEF ButtonInv, ButtonTypeOK, Undisturbed
<1>2. /\ at[t] = "out" /\ at' = at
      /\ target' = [target EXCEPT ![t] = "blank"] /\ disturbed' = disturbed \ {t}
  BY DEF Returns
<1>3. Calls'
  BY <1>2 DEF ButtonInv, Calls, Senders
<1>4. target' \in [Senders -> Addresses] /\ disturbed' \subseteq Senders
      /\ \A u \in Senders : u # t => target'[u] = target[u]
  BY <1>1, <1>2 DEF Addresses
<1>5. Undisturbed'
  <2>1. ~(at'["button"] # "out" /\ at'["input"] # "out")
    BY <1>2 DEF Senders
  <2>2. ASSUME NEW u \in Senders \ disturbed'
        PROVE  /\ at'[u] \in {"connect", "build", "write"} => target'[u] = user_config'
               /\ at'[u] = "write" => data' = [by |-> u, host |-> target'[u]]
    <3>1. CASE u = t
      BY <1>2, <3>1
    <3>2. CASE u # t
      BY <1>2, <1>4, <2>2, <3>2 DEF ButtonInv, Undisturbed
    <3>3. QED
      BY <3>1, <3>2
  <2>3. QED
    BY <1>1, <2>1, <2>2 DEF Undisturbed
<1>6. QED
  BY <1>2, <1>3, <1>4, <1>5

LEMMA ChecksButton == ButtonInv /\ check_button => ButtonInv'
<1> SUFFICES ASSUME ButtonInv, check_button PROVE ButtonInv'
  OBVIOUS
<1>1. UNCHANGED <<input, check, sockets, data, user_config, flash, wifi_status, astray,
                  torn>>
  BY DEF check_button
<1>2. /\ button \in {"sleep", "take", "send", "flash", "release"}
      /\ ledSemaphore \in {"free", "button", "check"} /\ stray = FALSE
  BY DEF ButtonInv, ButtonTypeOK, Semaphore
<1>3. ledSemaphore # "check" /\ (button \notin {"send", "flash"} => ledSemaphore = "free")
  BY <1>2 DEF check_button, CheckWaits, ButtonInv, Semaphore
<1>4. Semaphore'
  BY <1>1, <1>2, <1>3 DEF check_button, ButtonInv, Semaphore
<1>5. HostFirst'
  BY <1>1, PartsKept
<1>6. button' \in {"sleep", "take", "send", "flash", "release"}
      /\ ledSemaphore' \in {"free", "button", "check"} /\ stray' \in BOOLEAN
  BY <1>2 DEF check_button
<1>7. /\ Calls' /\ Undisturbed'
      /\ at' \in [Senders -> Steps] /\ disturbed' \subseteq Senders
      /\ target' \in [Senders -> Addresses]
  <2>1. CASE button = "take" /\ button' = "send" /\ Enter("button") /\ target' = target
    <3>1. at["button"] = "out"
      BY <2>1 DEF ButtonInv, Calls
    <3>2. target' \in [Senders -> Addresses]
      BY <2>1 DEF ButtonInv, ButtonTypeOK
    <3>3. QED
      BY <1>1, <2>1, <3>1, <3>2, Enters DEF Senders
  <2>2. CASE button = "send" /\ Returns("button") /\ button' = "flash"
    <3>1. at["input"] # "out" => input # "typing"
      BY DEF ButtonInv, Calls
    <3>2. CASE input # "typing"
      <4>1. Calls' /\ Undisturbed' /\ at' = at
            /\ target' \in [Senders -> Addresses] /\ disturbed' \subseteq Senders
        BY <1>1, <2>2, <3>2, ReturnsFrom DEF Senders
      <4>2. QED
        BY <4>1 DEF ButtonInv, ButtonTypeOK
    <3>3. CASE input = "typing"
      <4>1. at["button"] = "out" /\ at["input"] = "out" /\ at' = at
        BY <2>2, <3>1, <3>3 DEF Returns
      <4>2. /\ target' = [target EXCEPT !["button"] = "blank"]
            /\ disturbed' = disturbed \ {"button"}
        BY <2>2 DEF Returns
      <4>3. target' \in [Senders -> Addresses] /\ disturbed' \subseteq Senders
            /\ at' \in [Senders -> Steps]
        BY <4>1, <4>2 DEF ButtonInv, ButtonTypeOK, Addresses
      <4>4. Calls'
        BY <1>1, <4>1 DEF ButtonInv, Calls
      <4>5. Undisturbed'
        BY <1>1, <4>1 DEF ButtonInv, Undisturbed, Senders
      <4>6. QED
        BY <4>3, <4>4, <4>5
    <3>4. QED
      BY <3>2, <3>3
  <2>3. CASE button # "send" /\ button' # "send" /\ UNCHANGED <<at, target, disturbed>>
    <3>1. at["button"] = "out"
      BY <2>3 DEF ButtonInv, Calls
    <3>2. Calls'
      BY <1>1, <2>3, <3>1 DEF ButtonInv, Calls
    <3>3. Undisturbed'
      BY <1>1, <2>3, PartsKept
    <3>4. QED
      BY <2>3, <3>2, <3>3 DEF ButtonInv, ButtonTypeOK
  <2>4. QED
    BY <2>1, <2>2, <2>3 DEF check_button
<1>8. ButtonTypeOK'
  BY <1>1, <1>6, <1>7 DEF ButtonInv, ButtonTypeOK
<1>9. QED
  BY <1>4, <1>5, <1>7, <1>8 DEF ButtonInv

LEMMA ChecksInput == ButtonInv /\ check_input => ButtonInv'
<1> SUFFICES ASSUME ButtonInv, check_input PROVE ButtonInv'
  OBVIOUS
<1>1. UNCHANGED <<button, check, sockets, data, user_config, flash, ledSemaphore,
                  wifi_status, stray, astray, torn>>
  BY DEF check_input
<1>2. Semaphore'
  BY <1>1, PartsKept
<1>3. input' \in {"send", "menu", "configure"}
  BY DEF check_input
<1>4. HostFirst'
  BY <1>1, <1>3 DEF ButtonInv, HostFirst
<1>5. /\ Calls' /\ Undisturbed'
      /\ at' \in [Senders -> Steps] /\ disturbed' \subseteq Senders
      /\ target' \in [Senders -> Addresses]
  <2>1. CASE input = "menu" /\ input' = "send" /\ Enter("input") /\ target' = target
    <3>1. at["input"] = "out"
      BY <2>1 DEF ButtonInv, Calls
    <3>2. target' \in [Senders -> Addresses]
      BY <2>1 DEF ButtonInv, ButtonTypeOK
    <3>3. QED
      BY <1>1, <2>1, <3>1, <3>2, Enters DEF Senders
  <2>2. CASE input = "send" /\ Returns("input") /\ input' = "menu"
    <3>1. Calls' /\ Undisturbed' /\ at' = at
          /\ target' \in [Senders -> Addresses] /\ disturbed' \subseteq Senders
      BY <1>1, <2>2, ReturnsFrom DEF Senders
    <3>2. QED
      BY <3>1 DEF ButtonInv, ButtonTypeOK
  <2>3. CASE input = "menu" /\ input' = "configure" /\ UNCHANGED <<at, target, disturbed>>
    <3>1. at["input"] = "out"
      BY <2>3 DEF ButtonInv, Calls
    <3>2. Calls'
      BY <1>1, <2>3, <3>1 DEF ButtonInv, Calls
    <3>3. Undisturbed'
      BY <1>1, <2>3 DEF ButtonInv, Undisturbed
    <3>4. QED
      BY <2>3, <3>2, <3>3 DEF ButtonInv, ButtonTypeOK
  <2>4. QED
    BY <2>1, <2>2, <2>3 DEF check_input
<1>6. ButtonTypeOK'
  BY <1>1, <1>3, <1>5 DEF ButtonInv, ButtonTypeOK
<1>7. QED
  BY <1>2, <1>4, <1>5, <1>6 DEF ButtonInv

LEMMA Configures == ButtonInv /\ configure => ButtonInv'
<1> SUFFICES ASSUME ButtonInv, configure PROVE ButtonInv'
  OBVIOUS
<1>1. UNCHANGED <<button, check, at, target, sockets, data, ledSemaphore, wifi_status,
                  stray, astray, torn>>
  BY DEF configure
<1>2. /\ input \in {"configure", "typing", "erase", "write", "valid"}
      /\ input' \in {"configure", "typing", "erase", "write", "valid", "restart"}
  BY DEF configure
<1>3. Semaphore'
  BY <1>1, PartsKept
<1>4. at["input"] = "out"
  BY <1>2 DEF ButtonInv, Calls
<1>5. Calls'
  BY <1>1, <1>4 DEF ButtonInv, Calls
<1>6. /\ user_config \in Addresses /\ disturbed \subseteq Senders
      /\ torn \in BOOLEAN
      /\ flash \in [host : Addresses \cup {"erased"}, valid : BOOLEAN]
  BY DEF ButtonInv, ButtonTypeOK
<1>7. /\ user_config' \in Addresses /\ disturbed' \subseteq Senders
      /\ flash' \in [host : Addresses \cup {"erased"}, valid : BOOLEAN]
  <2>1. user_config' \in Addresses /\ disturbed' \subseteq Senders
    BY <1>6 DEF configure, Addresses
  <2>2. \/ flash' = flash
        \/ flash' = [host |-> "erased", valid |-> FALSE]
        \/ flash' = [flash EXCEPT !.host = user_config]
        \/ flash' = [flash EXCEPT !.valid = TRUE]
    BY DEF configure
  <2>3. flash' \in [host : Addresses \cup {"erased"}, valid : BOOLEAN]
    <3>1. CASE flash' = [host |-> "erased", valid |-> FALSE]
      BY <3>1
    <3>2. CASE flash' = [flash EXCEPT !.host = user_config]
      BY <1>6, <3>2
    <3>3. CASE flash' = [flash EXCEPT !.valid = TRUE]
      BY <1>6, <3>3
    <3>4. QED
      BY <1>6, <2>2, <3>1, <3>2, <3>3
  <2>4. QED
    BY <2>1, <2>3
<1>8. HostFirst'
  BY <1>1, <1>6 DEF configure, ButtonInv, HostFirst, Addresses
<1>9. Undisturbed'
  <2>1. CASE input = "configure" /\ input' = "typing"
             /\ disturbed' = disturbed \cup {t \in Senders : at[t] # "out"}
    <3>1. \A t \in Senders : t \notin disturbed' => at'[t] = "out"
      BY <1>1, <2>1
    <3>2. QED
      BY <1>1, <1>4, <3>1 DEF ButtonInv, Undisturbed
  <2>2. CASE input = "typing" /\ input' = "configure" /\ disturbed' = disturbed
    <3>1. \A t \in Senders : t \notin disturbed' => at'[t] = "out"
      BY <1>1, <2>2 DEF ButtonInv, Undisturbed
    <3>2. QED
      BY <1>1, <1>4, <2>2, <3>1 DEF ButtonInv, Undisturbed
  <2>3. CASE input' # "typing" /\ UNCHANGED <<user_config, disturbed>>
    BY <1>1, <2>3 DEF ButtonInv, Undisturbed
  <2>4. QED
    BY <2>1, <2>2, <2>3 DEF configure
<1>10. ButtonTypeOK'
  BY <1>1, <1>2, <1>7 DEF ButtonInv, ButtonTypeOK
<1>11. QED
  BY <1>3, <1>5, <1>8, <1>9, <1>10 DEF ButtonInv

(* What the tasks start with, from a saved configuration that is whole if  *)
(* it counts as valid.                                                     *)
LEMMA Loaded ==
    ASSUME NEW f \in [host : Addresses \cup {"erased"}, valid : BOOLEAN],
           f.valid => f.host # "erased"
    PROVE  LoadedConfig(f) \in Addresses
BY DEF LoadedConfig, Addresses

LEMMA ButtonInitInv == ButtonInit => ButtonInv
<1> SUFFICES ASSUME ButtonInit PROVE ButtonInv
  OBVIOUS
<1>1. /\ flash \in [host : Addresses \cup {"erased"}, valid : BOOLEAN]
      /\ flash.valid => flash.host # "erased"
  <2>1. CASE flash = [host |-> "old", valid |-> TRUE]
    BY <2>1 DEF Addresses
  <2>2. CASE flash = [host |-> "erased", valid |-> FALSE]
    BY <2>2
  <2>3. QED
    BY <2>1, <2>2 DEF ButtonInit
<1>2. user_config \in Addresses
  BY <1>1, Loaded DEF ButtonInit
<1>3. /\ at \in [Senders -> Steps] /\ target \in [Senders -> Addresses]
      /\ data \in [by : Senders \cup {"none"}, host : Addresses]
      /\ \A t \in Senders : at[t] = "out"
  BY DEF ButtonInit, Addresses, Steps
<1>4. ButtonTypeOK /\ Semaphore /\ Calls /\ HostFirst
  <2>1. /\ flash.host \in {"old", "erased"} /\ flash.valid \in BOOLEAN
        /\ user_config \in {"old", "blank", "erased"}
    <3> DEFINE old == [host |-> "old", valid |-> TRUE]
               none == [host |-> "erased", valid |-> FALSE]
    <3>1. flash \in {old, none} /\ user_config = LoadedConfig(flash)
      BY DEF ButtonInit
    <3>2. CASE flash = old
      <4>1. flash.host = "old" /\ flash.valid = TRUE
        BY <3>2
      <4>2. QED
        BY <3>1, <4>1 DEF LoadedConfig
    <3>3. CASE flash = none
      <4>1. flash.host = "erased" /\ flash.valid = FALSE
        BY <3>3
      <4>2. QED
        BY <3>1, <4>1 DEF LoadedConfig
    <3>4. QED
      BY <3>1, <3>2, <3>3
  <2>2. HostFirst
    BY <1>1, <1>2, <2>1 DEF ButtonInit, HostFirst, Addresses
  <2>3. ButtonTypeOK
    BY <1>1, <1>2, <1>3 DEF ButtonInit, ButtonTypeOK
  <2>4. Semaphore /\ Calls
    BY <1>3 DEF ButtonInit, Semaphore, Calls, Senders
  <2>5. QED
    BY <2>2, <2>3, <2>4
<1>5. Undisturbed
  BY <1>3 DEF ButtonInit, Undisturbed, Senders
<1>6. QED
  BY <1>4, <1>5 DEF ButtonInv

LEMMA Reboots == ButtonInv /\ Reboot => ButtonInv'
<1> SUFFICES ASSUME ButtonInv, Reboot PROVE ButtonInv'
  OBVIOUS
<1>1. /\ stray = FALSE /\ astray = FALSE /\ torn \in BOOLEAN
      /\ UNCHANGED <<stray, astray>>
  BY DEF ButtonInv, ButtonTypeOK, Semaphore, Undisturbed, Reboot
<1>2. /\ flash' \in [host : Addresses \cup {"erased"}, valid : BOOLEAN] /\ torn' \in BOOLEAN
      /\ flash'.valid => flash'.host # "erased"
      /\ ~torn' => flash'.host # "torn"
  <2>1. CASE UNCHANGED <<flash, torn>>
    BY <2>1 DEF ButtonInv, ButtonTypeOK, HostFirst
  <2>2. CASE torn' = TRUE /\ flash' \in [host : {"torn"}, valid : BOOLEAN]
    BY <2>2 DEF Addresses
  <2>3. QED
    BY <2>1, <2>2 DEF Reboot
<1>3. user_config' \in Addresses /\ (~torn' => user_config' # "torn")
  <2>1. user_config' = LoadedConfig(flash')
    BY DEF Reboot
  <2>2. QED
    BY <1>2, <2>1, Loaded DEF LoadedConfig
<1>4. /\ at' \in [Senders -> Steps] /\ target' \in [Senders -> Addresses]
      /\ data' \in [by : Senders \cup {"none"}, host : Addresses]
      /\ \A t \in Senders : at'[t] = "out"
  BY DEF Reboot, Addresses, Steps
<1>5. /\ button' = "sleep" /\ input' = "menu" /\ check' = "sleep" /\ sockets' = {}
      /\ ledSemaphore' = "free" /\ wifi_status' = FALSE /\ disturbed' = {}
  BY DEF Reboot
<1>6. ButtonTypeOK'
  BY <1>1, <1>2, <1>3, <1>4, <1>5 DEF ButtonTypeOK
<1>7. Semaphore' /\ Calls' /\ HostFirst'
  BY <1>1, <1>2, <1>3, <1>4, <1>5 DEF Semaphore, Calls, HostFirst, Senders
<1>8. Undisturbed'
  BY <1>1, <1>4, <1>5 DEF Undisturbed, Senders
<1>9. QED
  BY <1>6, <1>7, <1>8 DEF ButtonInv

LEMMA ButtonStep == ButtonInv /\ [ButtonNext]_buttonVars => ButtonInv'
<1> SUFFICES ASSUME ButtonInv, [ButtonNext]_buttonVars PROVE ButtonInv'
  OBVIOUS
<1>1. ASSUME UNCHANGED buttonVars PROVE ButtonInv'
  <2>1. ButtonTypeOK'
    BY <1>1 DEF buttonVars, ButtonInv, ButtonTypeOK
  <2>2. QED
    BY <1>1, <2>1, PartsKept DEF buttonVars, ButtonInv
<1>2. QED
  BY <1>1, ChecksConnection, ChecksButton, ChecksInput, Configures, Reboots, Commands
  DEF ButtonNext

(* The LED has one user at a time; every way out of send_command closes    *)
(* its socket; an undisturbed request is its sender's; and a valid         *)
(* configuration was saved whole, unless an erase was once cut short.      *)
THEOREM TasksSound == ButtonSpec => []TasksKept
<1>1. ButtonInv => TasksKept
  BY DEF Addresses, ButtonInv, ButtonTypeOK, Semaphore, Calls, Undisturbed, HostFirst,
         TasksKept, LedExclusive, SocketsClosed, RequestOwn, SavedWhole
<1>2. QED
  BY <1>1, ButtonInitInv, ButtonStep, PTL DEF ButtonSpec
----------------------------------------------------------------------------
(* The model's counts, for any line l, without its state.                  *)
Count(l, ch, i, j) == Cardinality({k \in i..j : l[k] = ch})
TooMuch(l) == \E j \in 1..Len(l) : Count(l, "DEL", 1, j) > Count(l, "letter", 1, j)
Stays(l, i) ==
    /\ l[i] = "letter"
    /\ \A j \in i..Len(l) : Count(l, "DEL", i, j) < Count(l, "letter", i, j)
Net(l, i) == Count(l, "letter", i, Len(l)) - Count(l, "DEL", i, Len(l))

Fields == [-MaxLine..(buf_length - 1) -> Nat]

(* The first c characters of b are the letters of l that stay, in order;   *)
(* from each of them on, as many letters are left as from its place on.    *)
Edits(l, b, c) ==
    /\ c \in Nat /\ c <= buf_length
    /\ \A k \in 0..(c - 1) : b[k] \in 1..Len(l) /\ Stays(l, b[k]) /\ Net(l, b[k]) = c - k
    /\ \A j, k \in 0..(c - 1) : j < k => b[j] < b[k]
    /\ \A i \in 1..Len(l) : Stays(l, i) => \E k \in 0..(c - 1) : b[k] = i
    /\ \A k \in -MaxLine..(buf_length - 1) : k \notin 0..(c - 1) => b[k] = NUL

UartInv ==
    /\ reader \in {"menu", "gets"}
    /\ buffer \in Fields
    /\ line \in Seq(Char) /\ Len(line) <= MaxLine
    /\ count \in Int /\ -Len(line) <= count /\ count <= buf_length
    /\ reader = "gets" => count < buf_length
    /\ count = Net(line, 1)
    /\ ~TooMuch(line) => Edits(line, buffer, count)

LEMMA UartConstants ==
    /\ buf_length \in Nat \ {0} /\ MaxLine \in Nat \ {0}
    /\ UART_RX_FifoFullIntrThresh \in Nat \ {0} /\ QueueLength \in Nat \ {0}
BY UartAssumption

LEMMA Counted ==
    ASSUME NEW l, NEW ch, NEW i \in Int, NEW j \in Int
    PROVE  /\ Count(l, ch, i, j) \in Nat
           /\ i > j => Count(l, ch, i, j) = 0
<1>1. IsFiniteSet(i..j)
  BY FS_Interval
<1>2. IsFiniteSet({k \in i..j : l[k] = ch})
  BY <1>1, FS_Subset
<1>3. Count(l, ch, i, j) \in Nat
  BY <1>2, FS_CardinalityType DEF Count
<1>4. ASSUME i > j PROVE Count(l, ch, i, j) = 0
  <2>1. {k \in i..j : l[k] = ch} = {}
    BY <1>4
  <2>2. QED
    BY <2>1, FS_EmptySet DEF Count
<1>5. QED
  BY <1>3, <1>4

(* One more character x: the counts up to it stay, those that reach it     *)
(* grow if it is counted.                                                  *)
LEMMA SameBefore ==
    ASSUME NEW l \in Seq(Char), NEW x \in Char, NEW ch, NEW i \in Nat \ {0}, NEW j \in Nat,
           j <= Len(l)
    PROVE  Count(Append(l, x), ch, i, j) = Count(l, ch, i, j)
<1>1. \A k \in i..j : Append(l, x)[k] = l[k]
  OBVIOUS
<1>2. {k \in i..j : Append(l, x)[k] = ch} = {k \in i..j : l[k] = ch}
  BY <1>1
<1>3. QED
  BY <1>2 DEF Count

LEMMA OneMore ==
    ASSUME NEW l \in Seq(Char), NEW x \in Char, NEW ch, NEW i \in Nat \ {0}, i <= Len(l) + 1
    PROVE  Count(Append(l, x), ch, i, Len(l) + 1)
             = Count(l, ch, i, Len(l)) + (IF x = ch THEN 1 ELSE 0)
<1> DEFINE n == Len(l)
           m == Append(l, x)
           S == {k \in i..n : l[k] = ch}
<1>1. n \in Nat /\ i <= n + 1 /\ m[n + 1] = x /\ \A k \in 1..n : m[k] = l[k]
  OBVIOUS
<1> HIDE DEF m, n
<1>2. Count(m, ch, i, n + 1) = Count(l, ch, i, n) + (IF x = ch THEN 1 ELSE 0)
  <2>1. IsFiniteSet(i..n) /\ i..n \in SUBSET Int
    BY <1>1, FS_Interval
  <2>2. S \in SUBSET (i..n)
    OBVIOUS
  <2>3. IsFiniteSet(S) /\ n + 1 \notin S
    <3> HIDE DEF S
    <3>1. IsFiniteSet(S)
      BY <2>1, <2>2, FS_Subset
    <3>2. QED
      BY <1>1, <2>2, <3>1
  <2>4. CASE x = ch
    <3>1. {k \in i..(n + 1) : m[k] = ch} = S \cup {n + 1}
      BY <1>1, <2>4
    <3> HIDE DEF S
    <3>2. Cardinality(S \cup {n + 1}) = Cardinality(S) + 1
      BY <2>3, FS_AddElement
    <3>3. Count(m, ch, i, n + 1) = Count(l, ch, i, n) + 1
      BY <3>1, <3>2 DEF Count, S
    <3>4. QED
      BY <2>4, <3>3
  <2>5. CASE x # ch
    <3>1. {k \in i..(n + 1) : m[k] = ch} = {k \in i..n : l[k] = ch}
      BY <1>1, <2>5
    <3>2. Count(m, ch, i, n + 1) = Count(l, ch, i, n)
      BY <3>1 DEF Count
    <3>3. Count(l, ch, i, n) \in Nat
      BY <1>1, Counted
    <3>4. QED
      BY <2>5, <3>2, <3>3
  <2>6. QED
    BY <2>4, <2>5
<1>3. QED
  BY <1>2 DEF m, n

(* What one more character does to what stays, and to the line.            *)
LEMMA StaysOn ==
    ASSUME NEW l \in Seq(Char), NEW x \in Char, NEW i \in 1..Len(l)
    PROVE  /\ Append(l, x)[i] = l[i]
           /\ Stays(Append(l, x), i)
                <=> Stays(l, i) /\ (x = "DEL" => Net(l, i) >= 2)
           /\ Net(Append(l, x), i) = Net(l, i) + (IF x = "letter" THEN 1
                                                  ELSE IF x = "DEL" THEN -1 ELSE 0)
<1> DEFINE n == Len(l)
           m == Append(l, x)
           L(j) == Count(l, "letter", i, j)
           D(j) == Count(l, "DEL", i, j)
<1>1. n \in Nat /\ Len(m) = n + 1 /\ m[i] = l[i] /\ i <= n
  OBVIOUS
<1>2. \A j \in i..n : /\ Count(m, "letter", i, j) = L(j)
                      /\ Count(m, "DEL", i, j) = D(j)
  <2> TAKE j \in i..n
  <2>1. i \in Nat \ {0} /\ j \in Nat /\ j <= Len(l)
    BY <1>1
  <2>2. QED
    BY <2>1, SameBefore
<1>3. /\ Count(m, "letter", i, n + 1) = L(n) + (IF x = "letter" THEN 1 ELSE 0)
      /\ Count(m, "DEL", i, n + 1) = D(n) + (IF x = "DEL" THEN 1 ELSE 0)
  <2>1. i \in Nat \ {0} /\ i <= Len(l) + 1
    BY <1>1
  <2>2. QED
    BY <2>1, OneMore
<1>4. L(n) \in Nat /\ D(n) \in Nat
  BY <1>1, Counted
<1>5. Net(l, i) = L(n) - D(n) /\ Net(m, i) = Count(m, "letter", i, n + 1) - Count(m, "DEL", i, n + 1)
  BY <1>1 DEF Net
<1>6. Stays(l, i) <=> l[i] = "letter" /\ \A j \in i..n : D(j) < L(j)
  BY DEF Stays
<1>7. Stays(m, i) <=> /\ m[i] = "letter"
                      /\ \A j \in i..(n + 1) : Count(m, "DEL", i, j) < Count(m, "letter", i, j)
  BY <1>1 DEF Stays
<1> HIDE DEF m, n, L, D
<1>8. i..(n + 1) = (i..n) \cup {n + 1} /\ i \in Int /\ n \in i..n
  BY <1>1
<1>9. Stays(m, i) <=> /\ l[i] = "letter"
                      /\ \A j \in i..n : D(j) < L(j)
                      /\ Count(m, "DEL", i, n + 1) < Count(m, "letter", i, n + 1)
  BY <1>1, <1>2, <1>7, <1>8
<1>10. Net(m, i) = Net(l, i) + (IF x = "letter" THEN 1 ELSE IF x = "DEL" THEN -1 ELSE 0)
  BY <1>3, <1>4, <1>5
<1>11. (\A j \in i..n : D(j) < L(j)) =>
         (Count(m, "DEL", i, n + 1) < Count(m, "letter", i, n + 1)
            <=> (x = "DEL" => Net(l, i) >= 2))
  <2>1. (\A j \in i..n : D(j) < L(j)) => D(n) < L(n)
    BY <1>8
  <2>2. QED
    BY <1>3, <1>4, <1>5, <2>1
<1>12. Stays(m, i) <=> Stays(l, i) /\ (x = "DEL" => Net(l, i) >= 2)
  BY <1>6, <1>9, <1>11
<1>13. QED
  BY <1>1, <1>10, <1>12 DEF m

(* The new character itself.                                               *)
LEMMA Newest ==
    ASSUME NEW l \in Seq(Char), NEW x \in Char
    PROVE  /\ Len(l) \in Nat /\ Append(l, x) \in Seq(Char)
           /\ Len(Append(l, x)) = Len(l) + 1 /\ Append(l, x)[Len(l) + 1] = x
           /\ Stays(Append(l, x), Len(l) + 1) <=> x = "letter"
           /\ x = "letter" => Net(Append(l, x), Len(l) + 1) = 1
           /\ Net(Append(l, x), 1) = Net(l, 1) + (IF x = "letter" THEN 1
                                                  ELSE IF x = "DEL" THEN -1 ELSE 0)
<1> DEFINE n == Len(l)
           m == Append(l, x)
<1>1. n \in Nat /\ m \in Seq(Char) /\ Len(m) = n + 1 /\ m[n + 1] = x
  OBVIOUS
<1>2. \A ch : Count(m, ch, n + 1, n + 1) = IF x = ch THEN 1 ELSE 0
  <2> TAKE ch
  <2>1. n + 1 \in Nat \ {0} /\ n + 1 <= Len(l) + 1
    BY <1>1
  <2>2. Count(m, ch, n + 1, n + 1) = Count(l, ch, n + 1, n) + (IF x = ch THEN 1 ELSE 0)
    BY <2>1, OneMore
  <2>3. Count(l, ch, n + 1, n) = 0
    BY <1>1, Counted
  <2>4. QED
    BY <2>2, <2>3
<1>3. \A ch : Count(m, ch, 1, n + 1) = Count(l, ch, 1, n) + (IF x = ch THEN 1 ELSE 0)
  <2>1. 1 \in Nat \ {0} /\ 1 <= Len(l) + 1
    BY <1>1
  <2>2. QED
    BY <2>1, OneMore
<1>4. Count(l, "letter", 1, n) \in Nat /\ Count(l, "DEL", 1, n) \in Nat
  BY <1>1, Counted
<1> HIDE DEF m, n
<1>5. Net(m, 1) = Net(l, 1) + (IF x = "letter" THEN 1 ELSE IF x = "DEL" THEN -1 ELSE 0)
  <2>1. /\ Net(l, 1) = Count(l, "letter", 1, n) - Count(l, "DEL", 1, n)
        /\ Net(m, 1) = Count(m, "letter", 1, n + 1) - Count(m, "DEL", 1, n + 1)
    BY <1>1 DEF Net, n
  <2>2. /\ Count(m, "letter", 1, n + 1) = Count(l, "letter", 1, n) + (IF x = "letter" THEN 1 ELSE 0)
        /\ Count(m, "DEL", 1, n + 1) = Count(l, "DEL", 1, n) + (IF x = "DEL" THEN 1 ELSE 0)
    BY <1>3
  <2>3. QED
    BY <1>4, <2>1, <2>2
<1>6. x = "letter" => Net(m, n + 1) = 1
  <2>1. Count(m, "letter", n + 1, n + 1) = IF x = "letter" THEN 1 ELSE 0
    BY <1>2
  <2>2. Count(m, "DEL", n + 1, n + 1) = IF x = "DEL" THEN 1 ELSE 0
    BY <1>2
  <2>3. Net(m, n + 1) = Count(m, "letter", n + 1, n + 1) - Count(m, "DEL", n + 1, n + 1)
    BY <1>1 DEF Net
  <2>4. QED
    BY <2>1, <2>2, <2>3
<1>7. Stays(m, n + 1) <=> x = "letter"
  <2>1. (n + 1)..Len(m) = {n + 1}
    BY <1>1
  <2>2. Count(m, "letter", n + 1, n + 1) = IF x = "letter" THEN 1 ELSE 0
    BY <1>2
  <2>3. Count(m, "DEL", n + 1, n + 1) = IF x = "DEL" THEN 1 ELSE 0
    BY <1>2
  <2>4. QED
    BY <1>1, <2>1, <2>2, <2>3 DEF Stays
<1>8. QED
  BY <1>1, <1>5, <1>6, <1>7 DEF m, n

(* Too much was deleted by then, or the new DEL is one too many.           *)
LEMMA DeletesMore ==
    ASSUME NEW l \in Seq(Char), NEW x \in Char, ~TooMuch(Append(l, x))
    PROVE  ~TooMuch(l) /\ Net(Append(l, x), 1) >= 0
<1> DEFINE n == Len(l)
           m == Append(l, x)
<1>1. n \in Nat /\ Len(m) = n + 1
  BY Newest
<1>2. \A j \in 1..(n + 1) : ~(Count(m, "DEL", 1, j) > Count(m, "letter", 1, j))
  BY <1>1 DEF TooMuch
<1>3. \A j \in 1..n : /\ Count(m, "DEL", 1, j) = Count(l, "DEL", 1, j)
                      /\ Count(m, "letter", 1, j) = Count(l, "letter", 1, j)
  <2> TAKE j \in 1..n
  <2>1. 1 \in Nat \ {0} /\ j \in Nat /\ j <= Len(l)
    BY <1>1
  <2>2. QED
    BY <2>1, SameBefore
<1>4. ~TooMuch(l)
  BY <1>1, <1>2, <1>3 DEF TooMuch
<1>5. Net(m, 1) >= 0
  <2>1. Count(m, "DEL", 1, n + 1) \in Nat /\ Count(m, "letter", 1, n + 1) \in Nat
    BY <1>1, Counted
  <2>2. ~(Count(m, "DEL", 1, n + 1) > Count(m, "letter", 1, n + 1))
    BY <1>1, <1>2
  <2>3. Net(m, 1) = Count(m, "letter", 1, n + 1) - Count(m, "DEL", 1, n + 1)
    BY <1>1 DEF Net
  <2>4. QED
    BY <2>1, <2>2, <2>3
<1>6. QED
  BY <1>4, <1>5

LEMMA LetterPut ==
    ASSUME NEW l \in Seq(Char), NEW b \in Fields, NEW c, Edits(l, b, c), c < buf_length
    PROVE  Edits(Append(l, "letter"), [b EXCEPT ![c] = Len(l) + 1], c + 1)
<1> DEFINE n == Len(l)
           m == Append(l, "letter")
           d == [b EXCEPT ![c] = n + 1]
<1>1. "letter" \in Char
  BY DEF Char
<1>2. /\ n \in Nat /\ Len(m) = n + 1 /\ Stays(m, n + 1) /\ Net(m, n + 1) = 1
  BY <1>1, Newest
<1>3. \A i \in 1..n : (Stays(m, i) <=> Stays(l, i)) /\ Net(m, i) = Net(l, i) + 1
  BY <1>1, StaysOn
<1>4. c \in Nat /\ c \in -MaxLine..(buf_length - 1) /\ c + 1 <= buf_length
  BY UartConstants DEF Edits
<1>5. d[c] = n + 1 /\ \A k \in -MaxLine..(buf_length - 1) : k # c => d[k] = b[k]
  BY <1>4 DEF Fields
<1>6. \A k \in 0..(c - 1) : k \in -MaxLine..(buf_length - 1) /\ k # c
  BY <1>4, UartConstants
<1>7. \A k \in 0..(c - 1) : d[k] = b[k] /\ b[k] \in 1..n /\ Stays(l, b[k]) /\ Net(l, b[k]) = c - k
  BY <1>5, <1>6 DEF Edits
<1> HIDE DEF d, m, n
<1>8. 0..c = (0..(c - 1)) \cup {c} /\ c + 1 - 1 = c /\ 1..(n + 1) = (1..n) \cup {n + 1}
  BY <1>2, <1>4
<1>9. \A k \in 0..c : d[k] \in 1..(n + 1) /\ Stays(m, d[k]) /\ Net(m, d[k]) = c + 1 - k
  <2>1. ASSUME NEW k \in 0..(c - 1)
        PROVE  d[k] \in 1..(n + 1) /\ Stays(m, d[k]) /\ Net(m, d[k]) = c + 1 - k
    BY <1>2, <1>3, <1>4, <1>7, <2>1
  <2>2. d[c] \in 1..(n + 1) /\ Stays(m, d[c]) /\ Net(m, d[c]) = c + 1 - c
    BY <1>2, <1>4, <1>5
  <2>3. QED
    BY <1>8, <2>1, <2>2
<1>10. \A j, k \in 0..c : j < k => d[j] < d[k]
  <2>1. ASSUME NEW j \in 0..c, NEW k \in 0..c, j < k PROVE d[j] < d[k]
    <3>1. j \in 0..(c - 1)
      BY <1>4, <2>1
    <3>2. CASE k = c
      BY <1>2, <1>5, <1>7, <3>1, <3>2
    <3>3. CASE k # c
      <4>1. k \in 0..(c - 1)
        BY <1>4, <3>3
      <4>2. QED
        BY <1>7, <2>1, <3>1, <4>1 DEF Edits
    <3>4. QED
      BY <3>2, <3>3
  <2>2. QED
    BY <2>1
<1>11. \A i \in 1..(n + 1) : Stays(m, i) => \E k \in 0..c : d[k] = i
  <2>1. ASSUME NEW i \in 1..n, Stays(m, i) PROVE \E k \in 0..c : d[k] = i
    <3>1. Stays(l, i)
      BY <1>3, <2>1
    <3>2. PICK k \in 0..(c - 1) : b[k] = i
      BY <3>1 DEF Edits, n
    <3>3. QED
      BY <1>7, <1>8, <3>2
  <2>2. QED
    BY <1>5, <1>8, <2>1
<1>12. \A k \in -MaxLine..(buf_length - 1) : k \notin 0..c => d[k] = NUL
  BY <1>4, <1>5, <1>8 DEF Edits
<1>13. QED
  <2>1. c + 1 \in Nat /\ c + 1 <= buf_length
    BY <1>4
  <2>2. Edits(m, d, c + 1)
    BY <1>2, <1>8, <1>9, <1>10, <1>11, <1>12, <2>1 DEF Edits
  <2>3. QED
    BY <2>2 DEF m, d, n

LEMMA LetterDeleted ==
    ASSUME NEW l \in Seq(Char), NEW b \in Fields, NEW c, Edits(l, b, c), c # 0
    PROVE  Edits(Append(l, "DEL"), [b EXCEPT ![c - 1] = NUL], c - 1)
<1> DEFINE n == Len(l)
           m == Append(l, "DEL")
           d == [b EXCEPT ![c - 1] = NUL]
<1>1. "DEL" \in Char
  BY DEF Char
<1>2. /\ n \in Nat /\ Len(m) = n + 1 /\ ~Stays(m, n + 1)
  BY <1>1, Newest
<1>3. \A i \in 1..n : /\ Stays(m, i) <=> Stays(l, i) /\ Net(l, i) >= 2
                      /\ Net(m, i) = Net(l, i) - 1
  <2> TAKE i \in 1..n
  <2>1. /\ Stays(m, i) <=> Stays(l, i) /\ Net(l, i) >= 2
        /\ Net(m, i) = Net(l, i) + -1
    BY <1>1, StaysOn
  <2>2. Net(l, i) \in Int
    <3>1. Count(l, "letter", i, n) \in Nat /\ Count(l, "DEL", i, n) \in Nat
      BY <1>2, Counted
    <3>2. QED
      BY <3>1 DEF Net
  <2>3. QED
    BY <2>1, <2>2
<1>4. c \in Nat /\ c - 1 \in Nat /\ c - 1 \in -MaxLine..(buf_length - 1) /\ c - 1 <= buf_length
  BY UartConstants DEF Edits
<1>5. d[c - 1] = NUL /\ \A k \in -MaxLine..(buf_length - 1) : k # c - 1 => d[k] = b[k]
  BY <1>4 DEF Fields
<1>6. \A k \in 0..(c - 1) : b[k] \in 1..n /\ Stays(l, b[k]) /\ Net(l, b[k]) = c - k
  BY DEF Edits
<1>7. \A k \in 0..(c - 2) : k \in 0..(c - 1) /\ d[k] = b[k]
  <2>1. \A k \in 0..(c - 2) : k \in 0..(c - 1) /\ k # c - 1 /\ k \in -MaxLine..(buf_length - 1)
    BY <1>4, UartConstants
  <2>2. QED
    BY <1>5, <2>1
<1> HIDE DEF d, m, n
<1>8. c - 1 - 1 = c - 2 /\ 0..(c - 1) = (0..(c - 2)) \cup {c - 1} /\ 1..(n + 1) = (1..n) \cup {n + 1}
  BY <1>2, <1>4
<1>9. \A k \in 0..(c - 2) : d[k] \in 1..(n + 1) /\ Stays(m, d[k]) /\ Net(m, d[k]) = c - 1 - k
  <2> TAKE k \in 0..(c - 2)
  <2>1. d[k] = b[k] /\ b[k] \in 1..n /\ Stays(l, b[k]) /\ Net(l, b[k]) = c - k
    BY <1>6, <1>7
  <2>2. c - k >= 2 /\ c - k - 1 = c - 1 - k
    BY <1>4
  <2>3. Stays(m, b[k]) /\ Net(m, b[k]) = c - k - 1
    BY <1>3, <2>1, <2>2
  <2>4. QED
    BY <1>8, <2>1, <2>2, <2>3
<1>10. \A j, k \in 0..(c - 2) : j < k => d[j] < d[k]
  BY <1>7 DEF Edits
<1>11. \A i \in 1..(n + 1) : Stays(m, i) => \E k \in 0..(c - 2) : d[k] = i
  <2>1. ASSUME NEW i \in 1..n, Stays(m, i) PROVE \E k \in 0..(c - 2) : d[k] = i
    <3>1. Stays(l, i) /\ Net(l, i) >= 2
      BY <1>3, <2>1
    <3>2. PICK k \in 0..(c - 1) : b[k] = i
      BY <3>1 DEF Edits, n
    <3>3. c - k >= 2
      BY <1>6, <3>1, <3>2
    <3>4. k \in 0..(c - 2)
      BY <1>4, <3>3
    <3>5. QED
      BY <1>7, <3>2, <3>4
  <2>2. QED
    BY <1>2, <1>8, <2>1
<1>12. \A k \in -MaxLine..(buf_length - 1) : k \notin 0..(c - 2) => d[k] = NUL
  BY <1>5, <1>8 DEF Edits
<1>13. QED
  <2>1. Edits(m, d, c - 1)
    BY <1>2, <1>4, <1>8, <1>9, <1>10, <1>11, <1>12 DEF Edits
  <2>2. QED
    BY <2>1 DEF m, d, n

LEMMA NothingPut ==
    ASSUME NEW l \in Seq(Char), NEW b \in Fields, NEW c, Edits(l, b, c)
    PROVE  Edits(Append(l, "CR"), b, c)
<1> DEFINE n == Len(l)
           m == Append(l, "CR")
<1>1. "CR" \in Char
  BY DEF Char
<1>2. n \in Nat /\ Len(m) = n + 1 /\ ~Stays(m, n + 1) /\ 1..(n + 1) = (1..n) \cup {n + 1}
  BY <1>1, Newest
<1>3. \A i \in 1..n : (Stays(m, i) <=> Stays(l, i)) /\ Net(m, i) = Net(l, i)
  <2> TAKE i \in 1..n
  <2>1. (Stays(m, i) <=> Stays(l, i)) /\ Net(m, i) = Net(l, i) + 0
    BY <1>1, StaysOn
  <2>2. Count(l, "letter", i, n) \in Nat /\ Count(l, "DEL", i, n) \in Nat
    BY <1>2, Counted
  <2>3. QED
    BY <2>1, <2>2 DEF Net
<1> HIDE DEF m
<1>4. \A i \in 1..(n + 1) : Stays(m, i) => i \in 1..n /\ Stays(l, i)
  BY <1>2, <1>3
<1>5. \A k \in 0..(c - 1) : b[k] \in 1..(n + 1) /\ Stays(m, b[k]) /\ Net(m, b[k]) = c - k
  <2>1. \A k \in 0..(c - 1) : b[k] \in 1..n /\ Stays(l, b[k]) /\ Net(l, b[k]) = c - k
    BY DEF Edits
  <2>2. QED
    BY <1>2, <1>3, <2>1
<1>6. \A i \in 1..(n + 1) : Stays(m, i) => \E k \in 0..(c - 1) : b[k] = i
  BY <1>4 DEF Edits
<1>7. Edits(m, b, c)
  BY <1>2, <1>5, <1>6 DEF Edits
<1>8. QED
  BY <1>7 DEF m

(* An empty line in a buffer of zeroes.                                    *)
LEMMA NothingYet ==
    /\ Zeroed \in Fields /\ Net(<<>>, 1) = 0 /\ Edits(<<>>, Zeroed, 0)
    /\ <<>> \in Seq(Char) /\ Len(<<>>) = 0
<1>1. Zeroed \in Fields
  BY DEF Zeroed, Fields, NUL
<1>2. \A ch : Count(<<>>, ch, 1, 0) = 0
  BY Counted
<1>3. Net(<<>>, 1) = 0
  BY <1>2 DEF Net
<1>4. Edits(<<>>, Zeroed, 0)
  BY UartConstants DEF Edits, Zeroed
<1>5. QED
  BY <1>1, <1>3, <1>4

LEMMA Gets ==
    ASSUME UartInv, uart_gets
    PROVE  UartInv'
<1>1. PICK ch \in Char :
        /\ line' = Append(line, ch)
        /\ Put(ch) \/ Delete(ch) \/ (ch = "CR" /\ UNCHANGED <<buffer, count>>)
        /\ reader' = IF ch # "CR" /\ count' < buf_length THEN "gets" ELSE "menu"
  BY DEF uart_gets
<1>2. /\ reader = "gets" /\ Len(line) < MaxLine
      /\ line \in Seq(Char) /\ buffer \in Fields /\ count \in Int
      /\ -Len(line) <= count /\ count < buf_length /\ count = Net(line, 1)
      /\ ~TooMuch(line) => Edits(line, buffer, count)
  BY DEF UartInv, uart_gets
<1>3. /\ Len(line) \in Nat /\ line' \in Seq(Char) /\ Len(line') = Len(line) + 1
      /\ Net(line', 1) = count + (IF ch = "letter" THEN 1 ELSE IF ch = "DEL" THEN -1 ELSE 0)
  BY <1>1, <1>2, Newest
<1>4. ~TooMuch(line') => ~TooMuch(line) /\ Net(line', 1) >= 0
  BY <1>1, <1>2, DeletesMore
<1>5. count \in -MaxLine..(buf_length - 1) /\ -MaxLine <= count - 1 /\ Len(line) + 1 <= MaxLine
  BY <1>2, <1>3, UartConstants
<1>6. /\ buffer' \in Fields /\ count' \in Int /\ count' = Net(line', 1)
      /\ -Len(line') <= count' /\ count' <= buf_length
      /\ ~TooMuch(line') => Edits(line', buffer', count')
  <2>1. CASE Put(ch)
    <3>1. ch = "letter" /\ count' = count + 1 /\ buffer' = [buffer EXCEPT ![count] = Len(line) + 1]
      BY <2>1 DEF Put
    <3>2. buffer' \in Fields
      <4>1. Len(line) + 1 \in Nat
        BY <1>3
      <4>2. QED
        BY <1>2, <3>1, <4>1 DEF Fields
    <3>3. ~TooMuch(line') => Edits(line', buffer', count')
      BY <1>1, <1>2, <1>4, <3>1, LetterPut
    <3>4. QED
      BY <1>2, <1>3, <3>1, <3>2, <3>3, UartConstants
  <2>2. CASE Delete(ch)
    <3>1. ch = "DEL" /\ count' = count - 1 /\ buffer' = [buffer EXCEPT ![count - 1] = NUL]
      BY <2>2 DEF Delete
    <3>2. buffer' \in Fields
      BY <1>2, <3>1 DEF Fields, NUL
    <3>3. ~TooMuch(line') => Edits(line', buffer', count')
      <4>1. ~TooMuch(line') => Edits(line, buffer, count) /\ count # 0
        BY <1>2, <1>3, <1>4, <3>1
      <4>2. QED
        BY <1>1, <1>2, <3>1, <4>1, LetterDeleted
    <3>4. QED
      BY <1>2, <1>3, <3>1, <3>2, <3>3, UartConstants
  <2>3. CASE ch = "CR" /\ UNCHANGED <<buffer, count>>
    <3>1. ~TooMuch(line') => Edits(line', buffer', count')
      BY <1>1, <1>2, <1>4, <2>3, NothingPut
    <3>2. QED
      BY <1>2, <1>3, <2>3, <3>1, UartConstants
  <2>4. QED
    BY <1>1, <2>1, <2>2, <2>3
<1>7. reader' \in {"menu", "gets"} /\ (reader' = "gets" => count' < buf_length)
  BY <1>1
<1>8. Len(line') <= MaxLine
  BY <1>3, <1>5
<1>9. QED
  BY <1>3, <1>6, <1>7, <1>8 DEF UartInv

LEMMA UartStep == UartInv /\ [UartNext]_uartVars => UartInv'
<1> SUFFICES ASSUME UartInv, [UartNext]_uartVars PROVE UartInv'
  OBVIOUS
<1>1. ASSUME UNCHANGED <<reader, buffer, count, line>> PROVE UartInv'
  BY <1>1 DEF UartInv
<1>2. ASSUME reader' = "gets", buffer' = Zeroed, count' = 0, line' = <<>> PROVE UartInv'
  BY <1>2, NothingYet, UartConstants DEF UartInv
<1>3. ASSUME menu PROVE UartInv'
  BY <1>1, <1>2, <1>3 DEF menu
<1>4. ASSUME NEW ch \in Char, Type(ch) PROVE UartInv'
  BY <1>1, <1>4 DEF Type
<1>5. ASSUME uart0_rx_intr_handler PROVE UartInv'
  BY <1>1, <1>5 DEF uart0_rx_intr_handler, uart0_rxfifo_full, uart0_rxfifo_tout
<1>6. ASSUME UNCHANGED uartVars PROVE UartInv'
  BY <1>1, <1>6 DEF uartVars
<1>7. QED
  BY <1>3, <1>4, <1>5, <1>6, Gets DEF UartNext

LEMMA UartInitInv == UartInit => UartInv
BY NothingYet, UartConstants DEF UartInit, UartInv

(* The string in the buffer is what was counted.                           *)
LEMMA TextIs ==
    ASSUME UartInv, ~TooMuch(line)
    PROVE  Text = [i \in 1..count |-> buffer[i - 1]] /\ count \in Nat
<1> DEFINE Ends(n) == /\ \A i \in 0..(n - 1) : buffer[i] # NUL
                      /\ n < buf_length => buffer[n] = NUL
<1>1. Edits(line, buffer, count) /\ count \in 0..buf_length
  BY UartConstants DEF UartInv, Edits
<1>2. Ends(count)
  <2>1. \A i \in 0..(count - 1) : buffer[i] # NUL
    BY <1>1 DEF Edits, NUL
  <2>2. count < buf_length => count \in -MaxLine..(buf_length - 1) /\ count \notin 0..(count - 1)
    BY <1>1, UartConstants
  <2>3. QED
    BY <1>1, <2>1, <2>2 DEF Edits
<1>3. ASSUME NEW n \in 0..buf_length, Ends(n) PROVE n = count
  <2>1. CASE n < count
    <3>1. n \in 0..(count - 1) /\ n < buf_length
      BY <1>1, <2>1, UartConstants
    <3>2. QED
      BY <1>2, <1>3, <3>1
  <2>2. CASE n > count
    <3>1. count \in 0..(n - 1) /\ count < buf_length
      BY <1>1, <2>2, UartConstants
    <3>2. QED
      BY <1>2, <1>3, <3>1
  <2>3. QED
    BY <1>1, <2>1, <2>2, UartConstants
<1> DEFINE end == CHOOSE n \in 0..buf_length : Ends(n)
<1>4. end = count
  <2>1. \E n \in 0..buf_length : Ends(n)
    BY <1>1, <1>2
  <2>2. end \in 0..buf_length /\ Ends(end)
    BY ONLY <2>1, Zenon
  <2> HIDE DEF end, Ends
  <2>3. QED
    BY <1>3, <2>2
<1>5. Text = [i \in 1..end |-> buffer[i - 1]]
  BY DEF Text
<1> HIDE DEF end
<1>6. QED
  BY <1>1, <1>4, <1>5, UartConstants

(* Whatever is typed and deleted, the field holds the letters that stay,   *)
(* in order and with their end marked, and nothing is written before it;   *)
(* unless a DEL comes at the start of a line.  For lines and fields of any *)
(* length.                                                                 *)
THEOREM LinesKept == UartSpec => []UartKept
<1>1. UartInv => UartKept
  <2> SUFFICES ASSUME UartInv PROVE UartKept
    OBVIOUS
  <2>1. DeletedTooMuch <=> TooMuch(line)
    BY DEF DeletedTooMuch, TooMuch, Number, Count
  <2>2. \A i : Survives(i) <=> Stays(line, i)
    BY DEF Survives, Stays, Number, Count
  <2>3. CASE DeletedTooMuch
    BY <2>3 DEF UartKept, LineEdited, LineInPlace
  <2>4. CASE ~DeletedTooMuch
    <3>1. Edits(line, buffer, count) /\ count \in 0..buf_length
      BY <2>1, <2>4, UartConstants DEF UartInv, Edits
    <3>2. LineInPlace
      <4>1. \A i \in -MaxLine..-1 : i \in -MaxLine..(buf_length - 1) /\ i \notin 0..(count - 1)
        BY UartConstants
      <4>2. count < buf_length => count \in -MaxLine..(buf_length - 1) /\ count \notin 0..(count - 1)
        BY <3>1, UartConstants
      <4>3. QED
        BY <3>1, <4>1, <4>2 DEF LineInPlace, Edits
    <3>3. Text = [i \in 1..count |-> buffer[i - 1]] /\ count \in Nat
      BY <2>1, <2>4, TextIs
    <3>4. Len(Text) = count /\ \A i \in 1..count : Text[i] = buffer[i - 1] /\ i - 1 \in 0..(count - 1)
      BY <3>3
    <3>5. \A i, j \in 1..count : i < j => Text[i] < Text[j]
      <4>1. \A i, j \in 1..count : i < j => i - 1 < j - 1
        BY <3>3
      <4>2. QED
        <5>1. \A j, k \in 0..(count - 1) : j < k => buffer[j] < buffer[k]
          BY <3>1 DEF Edits
        <5>2. QED
          BY <3>4, <4>1, <5>1
    <3>6. {Text[i] : i \in 1..count} = Edited
      <4>1. ASSUME NEW i \in 1..count PROVE Text[i] \in Edited
        <5>1. Text[i] \in 1..Len(line) /\ Stays(line, Text[i])
          BY <3>1, <3>4 DEF Edits
        <5>2. QED
          BY <2>2, <5>1 DEF Edited
      <4>2. ASSUME NEW e \in Edited PROVE \E i \in 1..count : e = Text[i]
        <5>1. e \in 1..Len(line) /\ Stays(line, e)
          BY <2>2 DEF Edited
        <5>2. PICK k \in 0..(count - 1) : buffer[k] = e
          BY <3>1, <5>1 DEF Edits
        <5>3. k + 1 \in 1..count /\ k + 1 - 1 = k
          BY <3>3
        <5>4. QED
          BY <3>4, <5>2, <5>3
      <4>3. QED
        BY <4>1, <4>2
    <3>7. LineEdited
      BY <3>4, <3>5, <3>6 DEF LineEdited
    <3>8. QED
      BY <3>2, <3>7 DEF UartKept
  <2>5. QED
    BY <2>3, <2>4
<1>2. QED
  BY <1>1, UartInitInv, UartStep, PTL DEF UartSpec
=============================================================================
