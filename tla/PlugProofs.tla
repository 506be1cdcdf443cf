----------------------------- MODULE PlugProofs -----------------------------
(***************************************************************************)
(* Proofs about the application of 07switch: its push button, its web      *)
(* server, its timed actions and the parameters it saves.                  *)
(***************************************************************************)
EXTENDS PlugKey, WebPages, SwitchTimer, EspParam, SequenceTheorems, FiniteSetTheorems, NumberLemmas

(* The button.  What the driver is doing settles which edge is awaited:    *)
(* none from the interrupt of a release to the end of the 50 ms callback,  *)
(* and otherwise the one that ends the level the driver has seen.          *)
Looking == task \in {"up", "down"}

EdgeAwaited ==
    /\ Looking => edge = "off" /\ ~key_50ms
    /\ key_50ms \/ intr => edge = "off"
    /\ edge = "off" => ~gpio_status /\ (key_50ms \/ intr \/ Looking)
    /\ edge = "neg" => key_level = 1
    /\ edge = "pos" => key_level = 0
    /\ edge = "off" => key_level = 0
    /\ Looking => ~intr

(* Where the contact is, unless it changed while the driver looked away.   *)
ContactKnown ==
    ~missed =>
      /\ gpio_status => key_level # pin
      /\ ~gpio_status /\ ~key_50ms /\ ~Looking => key_level = pin
      /\ task = "up" => pin = 1
      /\ task = "down" => pin = 0

(* Whatever is on its way to a short press began with a change of the      *)
(* contact after the last one.                                             *)
PressIsReal == gpio_status \/ key_50ms \/ Looking => pushed

KeyInv == KeyTypeOK /\ EdgeAwaited /\ ContactKnown /\ PressIsReal

(* After a restart nothing is under way.                                   *)
LEMMA BootInv == KeyInv /\ Boot => KeyInv'
<1> SUFFICES ASSUME KeyInv, Boot PROVE KeyInv'
  OBVIOUS
<1>1. pin' \in {0, 1} /\ plug_status' \in {0, 1} /\ relay' \in {0, 1}
      /\ plug_saved' \in {0, 1, PAD_ERASED}
  BY DEF KeyInv, KeyTypeOK, Boot, Loaded
<1>2. {gpio_status, key_5s, key_50ms, intr, missed, pushed}' \subseteq BOOLEAN
  BY Zenon DEF Boot
<1>3. ~missed' => pin' # 0
  BY Zenon DEF Boot
<1>4. QED
  BY <1>1, <1>2, <1>3
  DEF Boot, KeyInv, KeyTypeOK, EdgeAwaited, ContactKnown, PressIsReal, Looking

LEMMA KeyInitInv == KeyInit => KeyInv
BY DEF KeyInit, KeyInv, KeyTypeOK, EdgeAwaited, ContactKnown, PressIsReal, Looking, Loaded

LEMMA KeyStep == KeyInv /\ [KeyNext]_keyVars => KeyInv'
<1> SUFFICES ASSUME KeyInv, [KeyNext]_keyVars PROVE KeyInv'
  OBVIOUS
<1> USE DEF KeyInv, KeyTypeOK, EdgeAwaited, ContactKnown, PressIsReal, Looking, driver, switch
<1>1. CASE Contact
  <2>1. /\ pin' \in {0, 1} /\ pin' # pin
        /\ UNCHANGED <<edge, key_level, key_5s, key_50ms, intr, task, switch>>
        /\ pushed' = TRUE
    BY <1>1 DEF Contact
  <2>2. /\ gpio_status' \in BOOLEAN /\ missed' \in BOOLEAN
        /\ gpio_status' <=> gpio_status \/ edge = (IF pin = 1 THEN "neg" ELSE "pos")
        /\ missed' <=> \/ gpio_status \/ intr \/ Looking
                       \/ missed /\ ~(edge = (IF pin = 1 THEN "neg" ELSE "pos"))
    BY <1>1, Zenon DEF Contact
  <2>3. QED
    BY <2>1, <2>2
<1>2. CASE PowerCut
  BY <1>2, BootInv DEF PowerCut
<1>3. CASE key_intr_handler
  BY <1>3 DEF key_intr_handler
<1>4. CASE key_intr_handler_done
  <2>1. /\ edge' \in {"off", "pos"} /\ edge' = (IF key_50ms THEN "off" ELSE "pos")
        /\ intr /\ intr' = FALSE
        /\ UNCHANGED <<pin, gpio_status, key_level, key_5s, key_50ms, task, switch, missed,
                      pushed>>
    BY <1>4, Zenon DEF key_intr_handler_done
  <2>2. KeyTypeOK'
    BY <2>1
  <2>3. EdgeAwaited' /\ ContactKnown' /\ PressIsReal'
    BY <2>1
  <2>4. QED
    BY ONLY <2>2, <2>3 DEF KeyInv
<1>5. CASE key_50ms_cb
  BY <1>5 DEF key_50ms_cb
<1>6. CASE key_50ms_cb_down
  BY <1>6 DEF key_50ms_cb_down
<1>7. CASE key_50ms_cb_up
  <2>1. plug_status' \in {0, 1} /\ relay' \in {0, 1}
    BY <1>7 DEF key_50ms_cb_up
  <2>2. QED
    BY <1>7, <2>1 DEF key_50ms_cb_up
<1>8. CASE user_plug_short_press
  BY <1>8 DEF user_plug_short_press
<1>9. CASE key_5s_cb
  <2>1. CASE pin = 0 /\ Boot
    BY <2>1, BootInv
  <2>2. CASE key_5s' = FALSE /\ UNCHANGED <<pin, edge, gpio_status, key_level, key_50ms,
                                           intr, task, switch, missed, pushed>>
    <3>1. KeyTypeOK'
      BY <2>2
    <3>2. EdgeAwaited' /\ ContactKnown' /\ PressIsReal'
      BY <2>2, Zenon
    <3>3. QED
      BY ONLY <3>1, <3>2 DEF KeyInv
  <2>3. \/ pin = 0 /\ Boot
        \/ key_5s' = FALSE /\ UNCHANGED <<pin, edge, gpio_status, key_level, key_50ms,
                                         intr, task, switch, missed, pushed>>
    BY <1>9, Zenon DEF key_5s_cb
  <2> HIDE DEF KeyInv, KeyTypeOK, EdgeAwaited, ContactKnown, PressIsReal, Looking
  <2>4. QED
    BY ONLY <2>1, <2>2, <2>3
<1>10. ASSUME NEW status \in {0, 1}, user_plug_set_status(status) PROVE KeyInv'
  BY <1>10 DEF user_plug_set_status
<1>11. CASE UNCHANGED keyVars
  BY <1>11 DEF keyVars
<1>12. QED
  BY <1>1, <1>2, <1>3, <1>4, <1>5, <1>6, <1>7, <1>8, <1>9, <1>10, <1>11 DEF KeyNext

LEMMA KeyInvariant == KeySpec => []KeyInv
BY KeyInitInv, KeyStep, PTL DEF KeySpec

(* However the contact bounces while the interrupt handler and the 50 ms   *)
(* callback look at it, the driver ends up waiting for the edge that comes *)
(* next, at the level the contact really has.                              *)
THEOREM ButtonHeard == KeySpec => []KeyHeard
<1>1. KeyInv => KeyHeard
  BY DEF KeyInv, KeyTypeOK, EdgeAwaited, ContactKnown, Looking, KeyHeard, NeverDeaf,
         LevelFollowsContact
<1>2. QED
  BY <1>1, KeyInvariant, PTL

(* The relay is never switched twice for one movement of the contact.      *)
THEOREM ButtonNotCountedTwice == KeySpec => PressNeedsContact
<1>1. KeyInv /\ [KeyNext]_keyVars => [task # "erase" /\ task' = "erase" => pushed]_keyVars
  <2> SUFFICES ASSUME KeyInv, KeyNext, task # "erase", task' = "erase" PROVE pushed
    BY DEF keyVars
  <2>1. task = "up"
    BY DEF KeyNext, Contact, PowerCut, Boot, key_intr_handler, key_intr_handler_done,
           key_50ms_cb, key_50ms_cb_down, key_50ms_cb_up, user_plug_short_press, key_5s_cb,
           user_plug_set_status
  <2>2. QED
    BY <2>1 DEF KeyInv, PressIsReal, Looking
<1>2. QED
  BY <1>1, KeyInvariant, PTL DEF KeySpec, PressNeedsContact

-----------------------------------------------------------------------------
(* The requests of the web server.  While the server is not upset at most  *)
(* one browser has a request under way, and the counters are that          *)
(* request's.                                                              *)
Holding(c) ==
    /\ owed[c] > 0
    /\ \A d \in Peers \ {c} : owed[d] = 0
    /\ totallength + owed[c] = dat_sumlength
    /\ precvbuffer = [from |-> {c}, held |-> totallength, size |-> dat_sumlength]

OneAtATime ==
    ~upset => \/ Quiet(owed) /\ Clean(totallength, dat_sumlength, precvbuffer)
              \/ \E c \in Peers : Holding(c)

RequestInv ==
    /\ RequestTypeOK
    /\ ~spoiled => precvbuffer.held <= precvbuffer.size
    /\ OneAtATime
    /\ VerdictRight
    /\ BufferHolds

LEMMA RequestInitInv == RequestInit => RequestInv
<1> SUFFICES ASSUME RequestInit PROVE RequestInv
  OBVIOUS
<1>1. NoBuffer \in [from : SUBSET Peers, held : 0 .. 2 * MaxLength, size : 0 .. MaxLength]
  BY RequestAssumption DEF NoBuffer
<1>2. RequestTypeOK
  <2>1. NoVerdict \in [ok : BOOLEAN, whole : BOOLEAN, alone : BOOLEAN, upset : BOOLEAN]
    BY DEF NoVerdict
  <2>2. {upset, spoiled} \subseteq BOOLEAN
    BY DEF RequestInit
  <2>3. /\ totallength \in 0 .. MaxTotal + MaxLength /\ dat_sumlength \in 0 .. MaxLength
        /\ owed \in [Peers -> 0 .. MaxLength]
    BY RequestAssumption DEF RequestInit
  <2>4. QED
    BY <1>1, <2>1, <2>2, <2>3 DEF RequestInit, RequestTypeOK
<1>3. OneAtATime /\ precvbuffer.held <= precvbuffer.size
  BY DEF RequestInit, OneAtATime, Quiet, Clean, NoBuffer
<1>4. VerdictRight /\ BufferHolds
  BY DEF RequestInit, VerdictRight, BufferHolds, NoVerdict
<1>5. QED
  BY <1>2, <1>3, <1>4 DEF RequestInv

(* What save_data returns for a part of b bytes that leaves browser c with *)
(* due[c] bytes to send.                                                   *)
SaveResult == [total : 0 .. MaxTotal + MaxLength, sum : 0 .. MaxLength,
               buffer : [from : SUBSET Peers, held : 0 .. 2 * MaxLength, size : 0 .. MaxLength],
               ok : BOOLEAN]

LEMMA RecvEffect ==
    ASSUME RequestTypeOK, NEW c \in Peers, NEW r \in SaveResult,
           NEW due \in [Peers -> 0 .. MaxLength], webserver_recv(c, r, due)
    PROVE  /\ totallength' = r.total /\ dat_sumlength' = r.sum /\ owed' = due
           /\ precvbuffer' = (IF r.ok \/ r.sum = 0 THEN NoBuffer ELSE r.buffer)
           /\ spoiled' \in BOOLEAN /\ (spoiled' <=> r.buffer.held > r.buffer.size)
           /\ last' \in [ok : BOOLEAN, whole : BOOLEAN, alone : BOOLEAN, upset : BOOLEAN]
           /\ last'.ok <=> r.ok
           /\ last'.whole <=> due[c] = 0
           /\ last'.alone <=> r.buffer.from \subseteq {c}
           /\ last'.upset <=> upset \/ \E d \in Peers \ {c} : owed[d] > 0
<1> DEFINE busy == upset \/ \E d \in Peers \ {c} : owed[d] > 0
           whole == due[c] = 0
           alone == r.buffer.from \subseteq {c}
<1>1. last' = [ok |-> r.ok, whole |-> whole, alone |-> alone, upset |-> busy]
  BY Zenon DEF webserver_recv
<1>2. busy \in BOOLEAN /\ whole \in BOOLEAN /\ alone \in BOOLEAN
  BY Zenon DEF RequestTypeOK
<1>3. r.ok \in BOOLEAN
  BY DEF SaveResult
<1>4. /\ last' \in [ok : BOOLEAN, whole : BOOLEAN, alone : BOOLEAN, upset : BOOLEAN]
      /\ last'.ok <=> r.ok
      /\ last'.whole <=> whole
      /\ last'.alone <=> alone
      /\ last'.upset <=> busy
  <2> HIDE DEF busy, whole, alone
  <2>1. QED
    BY <1>1, <1>2, <1>3
<1>5. /\ totallength' = r.total /\ dat_sumlength' = r.sum /\ owed' = due
      /\ precvbuffer' = (IF r.ok \/ r.sum = 0 THEN NoBuffer ELSE r.buffer)
      /\ spoiled' = (r.buffer.held > r.buffer.size)
  BY DEF webserver_recv
<1>6. spoiled' \in BOOLEAN /\ (spoiled' <=> r.buffer.held > r.buffer.size)
  <2>1. spoiled' \in BOOLEAN
    BY DEF webserver_recv
  <2>2. spoiled' <=> r.buffer.held > r.buffer.size
    BY <1>5, Zenon
  <2>3. QED
    BY <2>1, <2>2
<1>7. QED
  BY <1>4, <1>5, <1>6, Zenon

LEMMA RecvType ==
    ASSUME RequestInv, NEW c \in Peers, NEW r \in SaveResult,
           NEW due \in [Peers -> 0 .. MaxLength], webserver_recv(c, r, due)
    PROVE  /\ RequestTypeOK'
           /\ (~spoiled => precvbuffer.held <= precvbuffer.size)'
<1>1. upset' \in BOOLEAN
  BY Zenon DEF webserver_recv
<1>2. precvbuffer' \in [from : SUBSET Peers, held : 0 .. 2 * MaxLength, size : 0 .. MaxLength]
  BY RecvEffect, RequestAssumption DEF RequestInv, SaveResult, NoBuffer
<1>3. RequestTypeOK'
  BY <1>1, <1>2, RecvEffect DEF RequestInv, RequestTypeOK, SaveResult
<1>4. QED
  BY <1>3, RecvEffect DEF RequestInv, NoBuffer, SaveResult

(* When browsers other than c owe something, or the server is upset        *)
(* already, a part of c's leaves it upset or clean.                        *)
LEMMA RecvBusy ==
    ASSUME RequestInv, NEW c \in Peers, NEW r \in SaveResult,
           NEW due \in [Peers -> 0 .. MaxLength], webserver_recv(c, r, due),
           upset \/ \E d \in Peers \ {c} : owed[d] > 0
    PROVE  OneAtATime' /\ VerdictRight' /\ BufferHolds'
<1>1. last'.upset /\ totallength' = r.total /\ dat_sumlength' = r.sum /\ owed' = due
  BY RecvEffect DEF RequestInv
<1>2. ~upset' => Clean(r.total, r.sum, precvbuffer') /\ Quiet(due)
  <2>1. precvbuffer' = (IF r.ok \/ r.sum = 0 THEN NoBuffer ELSE r.buffer)
    BY RecvEffect DEF RequestInv
  <2>2. QED
    BY <2>1, Zenon DEF webserver_recv
<1>3. QED
  BY <1>1, <1>2 DEF OneAtATime, VerdictRight, BufferHolds, Clean, Quiet

(* When c's is the only request, and its part leaves due[c] bytes to come, *)
(* what is counted and held matches what was announced.                    *)
LEMMA RecvAlone ==
    ASSUME RequestInv, NEW c \in Peers, NEW n \in 0 .. MaxLength, NEW t \in 0 .. n,
           webserver_recv(c, Result(t, n, [from |-> {c}, held |-> t, size |-> n]),
                          [owed EXCEPT ![c] = n - t]),
           ~upset, \A d \in Peers \ {c} : owed[d] = 0
    PROVE  OneAtATime' /\ VerdictRight' /\ BufferHolds'
<1> DEFINE b == [from |-> {c}, held |-> t, size |-> n]
           r == Result(t, n, b)
           due == [owed EXCEPT ![c] = n - t]
<1>1. /\ n \in Nat /\ t \in Nat /\ t <= n
      /\ due \in [Peers -> 0 .. MaxLength] /\ due[c] = n - t
      /\ \A d \in Peers \ {c} : due[d] = 0
  BY RequestAssumption DEF RequestInv, RequestTypeOK
<1>2. /\ r.buffer = b /\ b.from = {c} /\ b.held = t /\ b.size = n
      /\ t = n => r.total = 0 /\ r.sum = 0 /\ r.ok
      /\ t # n => r.total = t /\ r.sum = n /\ ~r.ok
  BY DEF Result
<1>3. r \in SaveResult
  <2>1. t \in 0 .. MaxTotal + MaxLength /\ t \in 0 .. 2 * MaxLength
    BY RequestAssumption
  <2>2. b \in [from : SUBSET Peers, held : 0 .. 2 * MaxLength, size : 0 .. MaxLength]
    BY <2>1
  <2>3. QED
    BY <2>1, <2>2, RequestAssumption DEF Result, SaveResult
<1>4. webserver_recv(c, r, due)
  OBVIOUS
<1> HIDE DEF r, due
<1>5. /\ totallength' = r.total /\ dat_sumlength' = r.sum /\ owed' = due
      /\ precvbuffer' = (IF r.ok \/ r.sum = 0 THEN NoBuffer ELSE r.buffer)
      /\ (spoiled' <=> r.buffer.held > r.buffer.size)
      /\ (last'.ok <=> r.ok) /\ (last'.whole <=> due[c] = 0)
      /\ (last'.alone <=> r.buffer.from \subseteq {c})
  BY <1>1, <1>3, <1>4, RecvEffect DEF RequestInv
<1>6. ~spoiled' /\ last'.alone
  BY <1>1, <1>2, <1>5
<1>7. CASE t = n
  <2>1. due[c] = 0 /\ precvbuffer' = NoBuffer
    BY <1>1, <1>2, <1>5, <1>7
  <2>2. Quiet(owed)' /\ Clean(totallength, dat_sumlength, precvbuffer)'
    BY <1>1, <1>2, <1>5, <1>7, <2>1 DEF Quiet, Clean
  <2>3. QED
    BY <1>2, <1>5, <1>6, <1>7, <2>1, <2>2 DEF OneAtATime, VerdictRight, BufferHolds
<1>8. CASE t # n
  <2>1. due[c] > 0 /\ n # 0
    BY <1>1, <1>8
  <2>2. precvbuffer' = b /\ totallength' + due[c] = n
    BY <1>1, <1>2, <1>5, <1>8, <2>1
  <2>3. Holding(c)'
    BY <1>1, <1>2, <1>5, <1>8, <2>1, <2>2 DEF Holding
  <2>4. QED
    BY <1>2, <1>5, <1>6, <1>8, <2>1, <2>3 DEF OneAtATime, VerdictRight, BufferHolds
<1>9. QED
  BY <1>7, <1>8

LEMMA FirstPartInv ==
    ASSUME RequestInv, NEW c \in Peers, NEW n \in 0 .. MaxLength, NEW b \in 0 .. n,
           FirstPart(c, n, b)
    PROVE  RequestInv'
<1> DEFINE r == save_head(c, n, b)
           due == [owed EXCEPT ![c] = n - b]
<1>1. owed[c] = 0 /\ webserver_recv(c, r, due) /\ totallength <= MaxTotal
  BY DEF FirstPart, webserver_recv
<1>2. due \in [Peers -> 0 .. MaxLength]
  BY RequestAssumption DEF RequestInv, RequestTypeOK
<1>3. r \in SaveResult
  <2>1. totallength + b \in 0 .. MaxTotal + MaxLength /\ dat_sumlength \in 0 .. MaxLength
        /\ b \in 0 .. 2 * MaxLength
    BY <1>1, RequestAssumption DEF RequestInv, RequestTypeOK
  <2>2. QED
    BY <2>1, RequestAssumption DEF save_head, Result, SaveResult, RequestInv, RequestTypeOK
<1>4. CASE upset \/ \E d \in Peers \ {c} : owed[d] > 0
  BY <1>1, <1>2, <1>3, <1>4, RecvBusy, RecvType DEF RequestInv
<1>5. CASE ~upset /\ \A d \in Peers \ {c} : owed[d] = 0
  <2>1. Quiet(owed) /\ Clean(totallength, dat_sumlength, precvbuffer)
    BY <1>1, <1>5 DEF RequestInv, OneAtATime, Holding, Quiet
  <2>2. r = Result(b, n, [from |-> {c}, held |-> b, size |-> n])
    BY <2>1 DEF Clean, save_head
  <2>3. OneAtATime' /\ VerdictRight' /\ BufferHolds'
    BY <1>1, <1>5, <2>2, RecvAlone
  <2>4. QED
    BY <1>1, <1>2, <1>3, <2>3, RecvType DEF RequestInv
<1>6. QED
  BY <1>4, <1>5, RequestAssumption DEF RequestInv, RequestTypeOK

LEMMA NextPartInv ==
    ASSUME RequestInv, NEW c \in Peers, NEW b \in 1 .. MaxLength, NextPart(c, b)
    PROVE  RequestInv'
<1> DEFINE r == save_tail(c, b)
           due == [owed EXCEPT ![c] = @ - b]
<1>1. b <= owed[c] /\ webserver_recv(c, r, due) /\ totallength <= MaxTotal /\ ~spoiled
  BY DEF NextPart, webserver_recv
<1>2. due \in [Peers -> 0 .. MaxLength]
  BY <1>1, RequestAssumption DEF RequestInv, RequestTypeOK
<1>3. r \in SaveResult
  <2>1. totallength + b \in 0 .. MaxTotal + MaxLength /\ dat_sumlength \in 0 .. MaxLength
        /\ precvbuffer.held + b \in 0 .. 2 * MaxLength
    BY <1>1, RequestAssumption DEF RequestInv, RequestTypeOK
  <2>2. [precvbuffer EXCEPT !.from = @ \cup {c}, !.held = @ + b]
          \in [from : SUBSET Peers, held : 0 .. 2 * MaxLength, size : 0 .. MaxLength]
    BY <2>1 DEF RequestInv, RequestTypeOK
  <2>3. NoBuffer \in [from : SUBSET Peers, held : 0 .. 2 * MaxLength, size : 0 .. MaxLength]
    BY RequestAssumption DEF NoBuffer
  <2>4. QED
    BY <2>1, <2>2, <2>3, RequestAssumption DEF save_tail, Result, SaveResult
<1>4. CASE upset \/ \E d \in Peers \ {c} : owed[d] > 0
  BY <1>1, <1>2, <1>3, <1>4, RecvBusy, RecvType DEF RequestInv
<1>5. CASE ~upset /\ \A d \in Peers \ {c} : owed[d] = 0
  <2>1. Holding(c)
    <3>1. owed[c] > 0
      BY <1>1, RequestAssumption DEF RequestInv, RequestTypeOK
    <3>2. QED
      BY <1>5, <3>1 DEF RequestInv, OneAtATime, Holding, Quiet
  <2> DEFINE t == totallength + b
             n == dat_sumlength
  <2>2. n \in 0 .. MaxLength /\ t \in 0 .. n /\ owed[c] - b = n - t /\ precvbuffer # NoBuffer
    BY <1>1, <2>1, RequestAssumption DEF Holding, RequestInv, RequestTypeOK, NoBuffer
  <2>3. r = Result(t, n, [from |-> {c}, held |-> t, size |-> n])
    <3>1. [precvbuffer EXCEPT !.from = @ \cup {c}, !.held = @ + b]
            = [from |-> {c}, held |-> t, size |-> n]
      <4> DEFINE B == [from : SUBSET Peers, held : Int, size : Int]
                 w == [precvbuffer EXCEPT !.from = @ \cup {c}, !.held = @ + b]
      <4>1. precvbuffer \in B /\ precvbuffer.from = {c} /\ precvbuffer.held = totallength
            /\ precvbuffer.size = n
        BY <2>1, RequestAssumption DEF Holding, RequestInv, RequestTypeOK
      <4>2. w.from = precvbuffer.from \cup {c} /\ w.held = precvbuffer.held + b
            /\ w.size = precvbuffer.size
        BY <4>1
      <4>3. w \in B
        <5>1. precvbuffer.from \cup {c} \in SUBSET Peers /\ precvbuffer.held + b \in Int
          BY <4>1, RequestAssumption
        <5>2. QED
          BY <4>1, <5>1
      <4>4. w.from = {c} /\ w.held = t /\ w.size = n
        BY <4>1, <4>2
      <4>5. w = [from |-> {c}, held |-> t, size |-> n]
        <5> HIDE DEF w, t, n
        <5>1. QED
          BY <4>3, <4>4
      <4>6. QED
        BY <4>5
    <3>2. QED
      BY <2>2, <3>1 DEF save_tail
  <2>4. due = [owed EXCEPT ![c] = n - t]
    BY <2>2
  <2> HIDE DEF t, n
  <2>5. OneAtATime' /\ VerdictRight' /\ BufferHolds'
    BY <1>1, <1>5, <2>2, <2>3, <2>4, RecvAlone
  <2>6. QED
    BY <1>1, <1>2, <1>3, <2>5, RecvType DEF RequestInv
<1>6. QED
  BY <1>4, <1>5, RequestAssumption DEF RequestInv, RequestTypeOK

LEMMA RequestStep == RequestInv /\ [RequestNext]_requestVars => RequestInv'
<1> SUFFICES ASSUME RequestInv, [RequestNext]_requestVars PROVE RequestInv'
  OBVIOUS
<1>1. ASSUME NEW c \in Peers, webserver_discon(c) PROVE RequestInv'
  <2>1. [owed EXCEPT ![c] = 0] \in [Peers -> 0 .. MaxLength]
    BY RequestAssumption DEF RequestInv, RequestTypeOK
  <2>2. QED
    BY <1>1, <2>1 DEF webserver_discon, RequestInv, RequestTypeOK, OneAtATime, VerdictRight,
                      BufferHolds
<1>2. CASE UNCHANGED requestVars
  BY <1>2 DEF requestVars, RequestInv, RequestTypeOK, OneAtATime, VerdictRight, BufferHolds,
              Holding, Quiet, Clean
<1>3. QED
  BY <1>1, <1>2, FirstPartInv, NextPartInv DEF RequestNext

LEMMA RequestInvariant == RequestSpec => []RequestInv
BY RequestInitInv, RequestStep, PTL DEF RequestSpec

(* As long as requests are neither broken off nor under way together, and  *)
(* again once the counters have come back to zero, a request is acted upon *)
(* exactly when all of it has come, nothing of it stays behind, and        *)
(* nothing is written past the end of the buffer: for every number of      *)
(* browsers and every length, announced or not.                            *)
THEOREM RequestsWhole == RequestSpec => []RequestsKept
<1>1. RequestInv => RequestsKept
  BY RequestAssumption DEF RequestInv, RequestTypeOK, OneAtATime, Holding, Quiet, RequestsKept,
                           NothingLeft
<1>2. QED
  BY <1>1, RequestInvariant, PTL

-----------------------------------------------------------------------------
(* The configuration requests.  What the two ssids hold is what is waiting *)
(* or what a reboot was asked for on top of; a request to apply them is    *)
(* never left without configurations, but by a GET.                        *)
Held == sta_conf.ssid \cup ap_conf.ssid

HeldIsPosted == Held = waiting \cup stranded

ApplySound ==
    rstparm.parmtype = "WIFI" /\ ~cleared =>
        ~sta_conf.null /\ ~ap_conf.null /\ waiting # {}

HeldNotMixed == (\E q \in Posts : Held \subseteq {q}) \/ Held \cap met # {}

ConfigInv ==
    /\ ConfigTypeOK
    /\ HeldIsPosted
    /\ ApplySound
    /\ HeldNotMixed \/ Held = {}
    /\ AllAwaited
    /\ HaltsOnlyAfterGet
    /\ NoneMixed

LEMMA ConfigInitInv == ConfigInit => ConfigInv
<1> SUFFICES ASSUME ConfigInit PROVE ConfigInv
  OBVIOUS
<1> USE DEF ConfigInit, Null, NoParm, Held
<1>1. ConfigTypeOK
  <2>1. {cleared, config_halted} \subseteq BOOLEAN
    OBVIOUS
  <2>2. Null \in [null : BOOLEAN, ssid : SUBSET Posts] /\ 0 \in 0 .. MaxPosts
    BY ConfigAssumption
  <2>3. QED
    BY <2>1, <2>2 DEF ConfigTypeOK
<1>2. Cardinality(applied) = 0
  BY FS_EmptySet
<1>3. QED
  BY <1>1, <1>2 DEF ConfigInv, HeldIsPosted, ApplySound, AllAwaited, HaltsOnlyAfterGet, NoneMixed

LEMMA NullConf == Null.null /\ Null.ssid = {} /\ Null \in [null : BOOLEAN, ssid : SUBSET Posts]
BY DEF Null

(* A posted ssid is in the configuration; nothing else new is.             *)
LEMMA MergedSsid ==
    ASSUME NEW conf \in [null : BOOLEAN, ssid : SUBSET Posts], NEW p \in Posts,
           NEW given \in BOOLEAN, NEW s \in Merged(conf, p, given)
    PROVE  /\ ~s.null /\ s.ssid \in SUBSET Posts
           /\ s.ssid \subseteq conf.ssid \cup {p} /\ (given => p \in s.ssid)
           /\ ~given => s.ssid = conf.ssid
           /\ s \in [null : BOOLEAN, ssid : SUBSET Posts]
<1>1. PICK ps \in SUBSET Posts :
        /\ s = [null |-> FALSE, ssid |-> ps]
        /\ ps \in {{p}, conf.ssid \cup {p}, conf.ssid}
        /\ given => p \in ps
        /\ ~given => ps = conf.ssid
  <2>1. CASE given
    <3>1. s = [null |-> FALSE, ssid |-> {p}] \/ s = [null |-> FALSE, ssid |-> conf.ssid \cup {p}]
      BY <2>1 DEF Merged, Conf
    <3>2. {p} \in SUBSET Posts /\ conf.ssid \cup {p} \in SUBSET Posts
      OBVIOUS
    <3>3. QED
      BY <2>1, <3>1, <3>2
  <2>2. CASE ~given
    <3>1. s = [null |-> FALSE, ssid |-> conf.ssid] /\ conf.ssid \in SUBSET Posts
      BY <2>2 DEF Merged, Conf
    <3>2. QED
      BY <2>2, <3>1
  <2>3. QED
    BY <2>1, <2>2
<1>2. ~s.null /\ s.ssid = ps
  BY <1>1
<1>3. s \in [null : BOOLEAN, ssid : SUBSET Posts]
  BY <1>1
<1>4. ps \subseteq conf.ssid \cup {p}
  BY <1>1
<1>5. QED
  BY <1>1, <1>2, <1>3, <1>4

LEMMA PostInv ==
    ASSUME ConfigInv, NEW c \in Browsers, NEW sta \in BOOLEAN, NEW ap \in BOOLEAN,
           post_wifi(c, sta, ap)
    PROVE  ConfigInv'
<1> DEFINE p == posted + 1
           given == IF sta \/ ap THEN {p} ELSE {}
<1>1. p \in Posts /\ posted' = p /\ p \in 0 .. MaxPosts
  <2>1. posted \in 0 .. MaxPosts /\ posted < MaxPosts
    BY DEF post_wifi, ConfigInv, ConfigTypeOK
  <2>2. p \in 1 .. MaxPosts
    BY <2>1, ConfigAssumption
  <2>3. QED
    BY <2>2, ConfigAssumption DEF post_wifi, Posts
<1>2. PICK s \in Merged(sta_conf, p, sta), a \in Merged(ap_conf, p, ap) :
        IF s.ssid \cup a.ssid = {}
        THEN /\ sta_conf' = Null /\ ap_conf' = Null /\ rstparm' = NoParm
             /\ restart_10ms' = IF restart_10ms = "null" THEN "null" ELSE "idle"
        ELSE /\ sta_conf' = s /\ ap_conf' = a
             /\ rstparm' = [conn |-> c, parmtype |-> "WIFI"] /\ restart_10ms' = "armed"
  BY DEF post_wifi
<1>3. /\ ~s.null /\ s.ssid \in SUBSET Posts
      /\ s.ssid \subseteq sta_conf.ssid \cup {p} /\ (sta => p \in s.ssid)
      /\ ~sta => s.ssid = sta_conf.ssid
      /\ s \in [null : BOOLEAN, ssid : SUBSET Posts]
  BY <1>1, MergedSsid DEF ConfigInv, ConfigTypeOK
<1>4. /\ ~a.null /\ a.ssid \in SUBSET Posts
      /\ a.ssid \subseteq ap_conf.ssid \cup {p} /\ (ap => p \in a.ssid)
      /\ ~ap => a.ssid = ap_conf.ssid
      /\ a \in [null : BOOLEAN, ssid : SUBSET Posts]
  BY <1>1, MergedSsid DEF ConfigInv, ConfigTypeOK
<1>5. /\ waiting' = (waiting \cup stranded \cup given) \cap Held'
      /\ met' = (IF waiting \cup stranded # {} THEN met \cup {p} ELSE met)
      /\ stranded' = {}
      /\ UNCHANGED <<connected, cleared, applied, config_halted>>
  BY DEF post_wifi, Held
<1>6. s.ssid \cup a.ssid \subseteq waiting \cup stranded \cup given
  BY <1>3, <1>4 DEF ConfigInv, HeldIsPosted, Held
<1> HIDE DEF p
<1>7. CASE s.ssid \cup a.ssid = {}
  <2>1. sta_conf' = Null /\ ap_conf' = Null /\ rstparm' = NoParm
        /\ restart_10ms' \in {"null", "idle"} /\ Held' = {}
    BY <1>2, <1>7, NullConf DEF Held
  <2>2. ConfigTypeOK'
    BY <1>1, <1>5, <2>1, NullConf DEF ConfigInv, ConfigTypeOK
  <2>3. waiting' = {} /\ rstparm'.parmtype # "WIFI"
    BY <1>5, <2>1 DEF NoParm
  <2>4. NoneMixed'
    BY <1>5 DEF ConfigInv, NoneMixed
  <2>5. QED
    BY <1>5, <2>1, <2>2, <2>3, <2>4
    DEF ConfigInv, HeldIsPosted, ApplySound, AllAwaited, HaltsOnlyAfterGet
<1>8. CASE s.ssid \cup a.ssid # {}
  <2>1. sta_conf' = s /\ ap_conf' = a /\ rstparm' = [conn |-> c, parmtype |-> "WIFI"]
        /\ restart_10ms' = "armed" /\ Held' = s.ssid \cup a.ssid
    BY <1>2, <1>8 DEF Held
  <2>2. waiting' = Held'
    BY <1>5, <1>6, <2>1
  <2>3. ConfigTypeOK'
    BY <1>1, <1>3, <1>4, <1>5, <2>1, <2>2 DEF ConfigInv, ConfigTypeOK
  <2>4. HeldNotMixed'
    <3>1. CASE waiting \cup stranded = {}
      <4>1. Held' \subseteq {p}
        BY <1>6, <2>1, <3>1
      <4>2. QED
        BY <1>1, <4>1 DEF HeldNotMixed, Posts
    <3>2. CASE waiting \cup stranded # {} /\ (sta \/ ap)
      BY <1>3, <1>4, <1>5, <2>1, <3>2 DEF HeldNotMixed
    <3>3. CASE waiting \cup stranded # {} /\ ~sta /\ ~ap
      <4>1. Held' = Held /\ met \subseteq met' /\ Posts' = Posts
        BY <1>3, <1>4, <1>5, <2>1, <3>3 DEF Held, Posts
      <4>2. HeldNotMixed
        BY <3>3 DEF ConfigInv, HeldIsPosted
      <4>3. QED
        BY <4>1, <4>2 DEF HeldNotMixed
    <3>4. QED
      BY <3>1, <3>2, <3>3
  <2>5. NoneMixed'
    BY <1>5 DEF ConfigInv, NoneMixed
  <2>6. QED
    BY <1>3, <1>4, <1>5, <1>8, <2>1, <2>2, <2>3, <2>4, <2>5
    DEF ConfigInv, HeldIsPosted, ApplySound, AllAwaited, HaltsOnlyAfterGet, Held
<1>9. QED
  BY <1>7, <1>8

(* The configurations are freed, with whatever was to be applied.          *)
LEMMA DropInv ==
    ASSUME ConfigInv, sta_conf' = Null, ap_conf' = Null, waiting' = {}, stranded' = {},
           UNCHANGED <<posted, met>>, connected' \in SUBSET Browsers,
           restart_10ms' \in {"null", "idle", "armed"},
           rstparm' = NoParm \/ (rstparm' = rstparm /\ restart_10ms' = restart_10ms),
           cleared' \in BOOLEAN, config_halted' = config_halted, cleared => cleared',
           rstparm' = NoParm \/ (waiting # {} => cleared'),
           applied' \subseteq Posts, NoneMixed'
    PROVE  ConfigInv'
<1>1. ConfigTypeOK'
  <2>1. {cleared', config_halted'} \subseteq BOOLEAN
    BY DEF ConfigInv, ConfigTypeOK
  <2>2. /\ {sta_conf', ap_conf'} \subseteq [null : BOOLEAN, ssid : SUBSET Posts]
        /\ (waiting \cup stranded \cup met \cup applied)' \subseteq Posts
    BY NullConf DEF ConfigInv, ConfigTypeOK
  <2>3. QED
    BY <2>1, <2>2 DEF ConfigInv, ConfigTypeOK, Posts
<1>2. Held' = {}
  BY NullConf DEF Held
<1>3. ApplySound'
  BY DEF ConfigInv, ApplySound, NoParm
<1>4. HeldIsPosted' /\ AllAwaited' /\ HaltsOnlyAfterGet'
  BY <1>2 DEF ConfigInv, HeldIsPosted, AllAwaited, HaltsOnlyAfterGet
<1>5. QED
  BY <1>1, <1>2, <1>3, <1>4 DEF ConfigInv

LEMMA GetInv ==
    ASSUME ConfigInv, NEW c \in Browsers, get_wifi(c)
    PROVE  ConfigInv'
<1>1. cleared' \in BOOLEAN /\ (cleared => cleared') /\ (waiting # {} => cleared')
  BY Zenon DEF get_wifi
<1>2. QED
  BY <1>1, DropInv DEF get_wifi, ConfigInv, ConfigTypeOK, NoneMixed

LEMMA RebootInv ==
    ASSUME ConfigInv, NEW c \in Browsers, post_reboot(c)
    PROVE  ConfigInv'
<1>1. /\ rstparm'.conn = c /\ rstparm'.parmtype = "REBOOT" /\ restart_10ms' = "armed"
      /\ UNCHANGED <<sta_conf, ap_conf, posted, connected, met, cleared, applied, config_halted>>
      /\ stranded' = stranded \cup waiting /\ waiting' = {} /\ UNCHANGED Posts
  BY DEF post_reboot, Posts
<1>2. ConfigTypeOK'
  <2>1. (waiting \cup stranded \cup met \cup applied)' \subseteq Posts
    BY <1>1 DEF ConfigInv, ConfigTypeOK
  <2>2. QED
    BY <1>1, <2>1 DEF ConfigInv, ConfigTypeOK
<1>3. Held' = Held
  BY <1>1 DEF Held
<1>4. QED
  BY <1>1, <1>2, <1>3 DEF ConfigInv, HeldIsPosted, ApplySound, HeldNotMixed, AllAwaited,
                          HaltsOnlyAfterGet, NoneMixed

LEMMA WifiInv ==
    ASSUME ConfigInv, restart_10ms_cb, restart_wifi
    PROVE  ConfigInv'
<1> USE DEF restart_10ms_cb, restart_wifi
<1>1. CASE sta_conf = Null \/ ap_conf = Null
  <2>1. cleared
    BY <1>1, NullConf DEF ConfigInv, ApplySound
  <2>2. config_halted' = TRUE
        /\ UNCHANGED <<sta_conf, ap_conf, rstparm, restart_10ms, waiting, stranded, applied,
                       connected, posted, met, cleared>>
    BY <1>1
  <2>3. ConfigTypeOK'
    BY <2>2 DEF ConfigInv, ConfigTypeOK, Posts
  <2>4. QED
    BY <2>1, <2>2, <2>3
    DEF ConfigInv, HeldIsPosted, ApplySound, HeldNotMixed, AllAwaited, HaltsOnlyAfterGet,
        NoneMixed, Held, Posts
<1>2. CASE ~(sta_conf = Null \/ ap_conf = Null)
  <2>1. applied' = Held
    BY <1>2 DEF Held
  <2>2. NoneMixed'
    <3>1. CASE HeldNotMixed
      <4>1. CASE Held \cap met # {}
        BY <2>1, <4>1 DEF NoneMixed
      <4>2. ASSUME NEW q \in Posts, Held \subseteq {q} PROVE NoneMixed'
        <5>1. Held = {} \/ Held = {q}
          BY <4>2
        <5>2. Cardinality(Held) \in {0, 1}
          BY <5>1, FS_EmptySet, FS_Singleton
        <5>3. QED
          BY <2>1, <5>2 DEF NoneMixed
      <4>3. QED
        BY <3>1, <4>1, <4>2 DEF HeldNotMixed
    <3>2. CASE Held = {}
      BY <2>1, <3>2, FS_EmptySet DEF NoneMixed
    <3>3. QED
      BY <3>1, <3>2 DEF ConfigInv
  <2>3. applied' \subseteq Posts
    BY <2>1 DEF Held, ConfigInv, ConfigTypeOK
  <2>4. QED
    BY <1>2, <2>2, <2>3, DropInv DEF ConfigInv, ConfigTypeOK
<1>3. QED
  BY <1>1, <1>2

LEMMA ConfigStep == ConfigInv /\ [ConfigNext]_configVars => ConfigInv'
<1> SUFFICES ASSUME ConfigInv, [ConfigNext]_configVars PROVE ConfigInv'
  OBVIOUS
<1> USE DEF HeldIsPosted, ApplySound, HeldNotMixed, AllAwaited, HaltsOnlyAfterGet, NoneMixed,
            Held, Posts
<1>1. ASSUME NEW c \in Browsers, Connection(c) PROVE ConfigInv'
  BY <1>1 DEF Connection, ConfigInv, ConfigTypeOK
<1>2. CASE restart_10ms_cb /\ restart_reboot
  BY <1>2 DEF restart_10ms_cb, restart_reboot, ConfigInv, ConfigTypeOK
<1>3. CASE SystemRestart
  <2>1. NoneMixed' /\ applied' \subseteq Posts
    BY <1>3 DEF SystemRestart, ConfigInv, ConfigTypeOK
  <2>2. QED
    BY <1>3, <2>1, DropInv DEF SystemRestart, ConfigInv, ConfigTypeOK
<1>4. CASE UNCHANGED configVars
  BY <1>4 DEF configVars, ConfigInv, ConfigTypeOK
<1>5. QED
  BY <1>1, <1>2, <1>3, <1>4, GetInv, RebootInv, PostInv, WifiInv DEF ConfigNext, restart_10ms_cb

LEMMA ConfigInvariant == ConfigSpec => []ConfigInv
BY ConfigInitInv, ConfigStep, PTL DEF ConfigSpec

(* A posted configuration that no GET has dropped and no reboot has taken  *)
(* over is still there with the timer that will apply it; only a GET makes *)
(* the timer follow a null pointer; and what is applied is one request's,  *)
(* unless it met another that was neither applied nor dropped.             *)
THEOREM PostsAwaited == ConfigSpec => []ConfigKept
<1>1. ConfigInv => ConfigKept
  BY DEF ConfigInv, ConfigKept
<1>2. QED
  BY <1>1, ConfigInvariant, PTL

-----------------------------------------------------------------------------
(* The pages of a scan.  The number of pages is that of the last result or *)
(* none, and no entry has been handed out of a list that is still to come. *)
PagesKnown ==
    /\ pscaninfo.totalpage \in {0, Pages(scannum)}
    /\ pscaninfo.null => pscaninfo.totalpage = 0

ScanFresh ==
    scanning /\ ~hurried => ~pscaninfo.null /\ pscaninfo.data_cnt = 0

ScanInv == ScanTypeOK /\ PagesKnown /\ ScanFresh /\ ScanHalts /\ EntriesCounted

(* A page that exists begins before the end of the list.                   *)
LEMMA PageBegins ==
    ASSUME NEW n \in Nat, NEW k \in Nat, k # 0, k <= Pages(n)
    PROVE  (k - 1) * PAGE < n
<1> DEFINE a == n + PAGE - 1
           q == a \div PAGE
<1>1. a \in Nat /\ q \in Nat /\ PAGE * q <= a
  BY ScanAssumption
<1> HIDE DEF q
<1>2. \A z \in Nat : k <= z => k * PAGE <= PAGE * z
  BY ScanAssumption
<1>3. k * PAGE <= a
  BY <1>1, <1>2, ScanAssumption DEF Pages, q
<1>4. (k - 1) * PAGE = k * PAGE - PAGE /\ k * PAGE \in Int
  BY ScanAssumption
<1>5. QED
  BY <1>3, <1>4, ScanAssumption

(* A shorter list has no more pages.                                       *)
LEMMA PagesMonotone ==
    ASSUME NEW n \in 0 .. MaxFound
    PROVE  Pages(n) \in 0 .. Pages(MaxFound)
<1> DEFINE a == n + PAGE - 1
           b == MaxFound + PAGE - 1
<1>1. a \in Nat /\ b \in Nat /\ a <= b
  BY ScanAssumption
<1> HIDE DEF a, b
<1>2. a \div PAGE <= b \div PAGE /\ a \div PAGE \in Nat /\ b \div PAGE \in Nat
  BY <1>1, ScanAssumption
<1>3. QED
  BY <1>2 DEF Pages, a, b

InfoType == [pbss : -1 .. MaxFound, pagenum : 0 .. Pages(MaxFound) + 1,
             page_sn : 0 .. Pages(MaxFound), data_cnt : 0 .. MaxFound,
             totalpage : 0 .. Pages(MaxFound), null : BOOLEAN]

LEMMA ScanBounds ==
    /\ 0 \in 0 .. MaxFound /\ -1 \in -1 .. MaxFound /\ 0 \in 0 .. Pages(MaxFound)
    /\ 0 \in 0 .. Pages(MaxFound) + 1 /\ NoInfo \in InfoType
    /\ Pages(MaxFound) \in Nat
<1>1. MaxFound \in 0 .. MaxFound
  BY ScanAssumption
<1>2. Pages(MaxFound) \in Nat
  BY <1>1, PagesMonotone
<1>3. /\ 0 \in 0 .. MaxFound /\ -1 \in -1 .. MaxFound /\ 0 \in 0 .. Pages(MaxFound)
      /\ 0 \in 0 .. Pages(MaxFound) + 1
  BY <1>2, ScanAssumption
<1>4. QED
  BY <1>2, <1>3 DEF NoInfo, InfoType

LEMMA ScanInitInv == ScanInit => ScanInv
<1> SUFFICES ASSUME ScanInit PROVE ScanInv
  OBVIOUS
<1>1. {scanning, hurried, scan_halted} \subseteq BOOLEAN
  BY DEF ScanInit
<1>2. ScanTypeOK
  BY <1>1, ScanBounds DEF ScanInit, ScanTypeOK, InfoType
<1>3. QED
  BY <1>2 DEF ScanInit, ScanInv, PagesKnown, ScanFresh, ScanHalts, EntriesCounted, NoInfo

LEMMA GetScanInv == ASSUME ScanInv, ~scan_halted, get_scan PROVE ScanInv'
<1>1. {scanning, hurried, scan_halted}' \subseteq BOOLEAN
  BY DEF ScanInv, ScanTypeOK, get_scan
<1>2. /\ pscaninfo' \in InfoType /\ ~pscaninfo'.null /\ pscaninfo'.data_cnt = 0
      /\ pscaninfo'.totalpage = pscaninfo.totalpage
  BY ScanBounds DEF ScanInv, ScanTypeOK, get_scan, InfoType
<1>3. QED
  BY <1>1, <1>2 DEF ScanInv, ScanTypeOK, InfoType, PagesKnown, ScanFresh, ScanHalts,
                    EntriesCounted, get_scan, Pages

LEMMA ResultInv == ASSUME ScanInv, ~scan_halted, json_scan_cb PROVE ScanInv'
<1>1. scanning /\ ~scanning' /\ scannum' \in 0 .. MaxFound /\ hurried' = hurried
      /\ scanning' \in BOOLEAN
  BY DEF json_scan_cb
<1>2. CASE pscaninfo.null
  <2>1. scan_halted' = TRUE /\ pscaninfo' = pscaninfo /\ hurried
    BY <1>1, <1>2 DEF json_scan_cb, ScanInv, ScanFresh
  <2>2. ScanTypeOK'
    BY <1>1, <2>1 DEF ScanInv, ScanTypeOK, Pages
  <2>3. QED
    BY <1>1, <1>2, <2>1, <2>2
    DEF ScanInv, PagesKnown, ScanFresh, ScanHalts, EntriesCounted
<1>3. CASE ~pscaninfo.null
  <2>1. pscaninfo' = [pscaninfo EXCEPT !.pbss = scannum', !.totalpage = Pages(scannum')]
        /\ scan_halted' = scan_halted
    BY <1>3 DEF json_scan_cb
  <2>2. Pages(scannum') \in 0 .. Pages(MaxFound) /\ scannum' \in -1 .. MaxFound
    BY <1>1, PagesMonotone, ScanAssumption
  <2>3. /\ pscaninfo' \in InfoType /\ pscaninfo'.pbss = scannum'
        /\ pscaninfo'.data_cnt = pscaninfo.data_cnt
        /\ pscaninfo'.totalpage = Pages(scannum') /\ ~pscaninfo'.null
    BY <1>1, <1>3, <2>1, <2>2 DEF ScanInv, ScanTypeOK, InfoType
  <2>4. ScanTypeOK'
    BY <1>1, <2>1, <2>3 DEF ScanInv, ScanTypeOK, InfoType, Pages
  <2>5. QED
    BY <1>1, <2>1, <2>3, <2>4
    DEF ScanInv, ScanTypeOK, PagesKnown, ScanFresh, ScanHalts, EntriesCounted, Pages
<1>4. QED
  BY <1>2, <1>3

(* A page read: a block that stays a block, or is freed, or a halt.        *)
LEMMA PageEffect ==
    ASSUME ScanInv, ~scan_halted, ~pscaninfo.null, NEW p \in InfoType,
           p.pagenum # 0, p.pagenum <= p.totalpage, ~p.null,
           p.pbss = pscaninfo.pbss, p.data_cnt = pscaninfo.data_cnt,
           p.totalpage = pscaninfo.totalpage, Page(p)
    PROVE  /\ pscaninfo' \in InfoType
           /\ \/ pscaninfo' = NoInfo
              \/ /\ ~pscaninfo'.null
                 /\ pscaninfo'.pbss + pscaninfo'.data_cnt = pscaninfo.pbss + pscaninfo.data_cnt
                 /\ pscaninfo'.totalpage = pscaninfo.totalpage
           /\ scan_halted' => pscaninfo.pbss + pscaninfo.data_cnt < scannum
           /\ scan_halted' \in BOOLEAN
<1> DEFINE left == scannum - (p.pagenum - 1) * PAGE
           n == IF left >= PAGE THEN PAGE ELSE left
<1>1. /\ p.pbss \in -1 .. MaxFound /\ p.pagenum \in 0 .. Pages(MaxFound) + 1
      /\ p.page_sn \in 0 .. Pages(MaxFound) /\ p.data_cnt \in 0 .. MaxFound
      /\ p.totalpage \in 0 .. Pages(MaxFound)
      /\ scannum \in 0 .. MaxFound /\ scan_halted \in BOOLEAN
  BY DEF InfoType, ScanInv, ScanTypeOK
<1>2. p.pagenum \in 0 .. Pages(MaxFound) /\ p.totalpage = Pages(scannum)
  BY <1>1, ScanBounds DEF ScanInv, PagesKnown
<1>3. left \in Int /\ left > 0
  <2>1. (p.pagenum - 1) * PAGE < scannum
    BY <1>1, <1>2, PageBegins, ScanAssumption
  <2>2. (p.pagenum - 1) * PAGE \in Int
    BY <1>1, ScanAssumption, ScanBounds
  <2>3. QED
    BY <1>1, <2>1, <2>2
<1>4. n \in Nat \ {0}
  BY <1>3, ScanAssumption
<1>5. \/ pscaninfo' = NoInfo /\ UNCHANGED scan_halted
      \/ pscaninfo' = [p EXCEPT !.page_sn = 0] /\ UNCHANGED scan_halted
      \/ pscaninfo' = [p EXCEPT !.page_sn = p.pagenum] /\ UNCHANGED scan_halted
      \/ /\ pscaninfo' = p /\ scan_halted' = TRUE
         /\ p.data_cnt + n <= scannum /\ n > p.pbss
      \/ /\ pscaninfo' = [p EXCEPT !.page_sn = p.pagenum, !.data_cnt = @ + n, !.pbss = @ - n]
         /\ UNCHANGED scan_halted /\ p.data_cnt + n <= scannum /\ n <= p.pbss
  <2>1. p.data_cnt + n \in Int /\ n \in Int
    BY <1>1, <1>4
  <2> HIDE DEF n
  <2>2. QED
    BY <1>1, <2>1 DEF Page, n
<1> HIDE DEF n, left
<1>6. CASE pscaninfo' = NoInfo /\ UNCHANGED scan_halted
  BY <1>1, <1>6, ScanBounds
<1>7. CASE pscaninfo' = [p EXCEPT !.page_sn = 0] /\ UNCHANGED scan_halted
  BY <1>1, <1>7, ScanBounds DEF InfoType
<1>8. CASE pscaninfo' = [p EXCEPT !.page_sn = p.pagenum] /\ UNCHANGED scan_halted
  BY <1>1, <1>2, <1>8 DEF InfoType
<1>9. CASE /\ pscaninfo' = p /\ scan_halted' = TRUE
           /\ p.data_cnt + n <= scannum /\ n > p.pbss
  BY <1>1, <1>4, <1>9
<1>10. CASE /\ pscaninfo' = [p EXCEPT !.page_sn = p.pagenum, !.data_cnt = @ + n, !.pbss = @ - n]
            /\ UNCHANGED scan_halted /\ p.data_cnt + n <= scannum /\ n <= p.pbss
  <2>1. p.data_cnt + n \in 0 .. MaxFound /\ p.pbss - n \in -1 .. MaxFound
    BY <1>1, <1>4, <1>10, ScanAssumption
  <2>2. pscaninfo' \in InfoType /\ ~pscaninfo'.null
        /\ pscaninfo'.pbss = p.pbss - n /\ pscaninfo'.data_cnt = p.data_cnt + n
        /\ pscaninfo'.totalpage = p.totalpage
    BY <1>2, <1>10, <2>1 DEF InfoType
  <2>3. QED
    BY <1>1, <1>4, <1>10, <2>2
<1>11. QED
  BY <1>5, <1>6, <1>7, <1>8, <1>9, <1>10

LEMMA GetPageInv ==
    ASSUME ScanInv, ~scan_halted, NEW k \in 0 .. Pages(MaxFound) + 1, get_page(k)
    PROVE  ScanInv'
<1>1. /\ hurried' \in BOOLEAN /\ (hurried' <=> hurried \/ scanning)
      /\ UNCHANGED <<scannum, scanning>>
  <2>1. hurried' = (hurried \/ scanning)
    BY DEF get_page
  <2>2. hurried' \in BOOLEAN /\ (hurried' <=> hurried \/ scanning)
    BY <2>1, Zenon
  <2>3. QED
    BY <2>2 DEF get_page
<1>2. CASE UNCHANGED <<pscaninfo, scan_halted>>
  BY <1>1, <1>2 DEF ScanInv, ScanTypeOK, PagesKnown, ScanFresh, ScanHalts, EntriesCounted, Pages
<1> DEFINE p == [pscaninfo EXCEPT !.pagenum = k]
<1>3. /\ p \in InfoType /\ p.pagenum = k /\ p.null = pscaninfo.null
      /\ p.pbss = pscaninfo.pbss /\ p.data_cnt = pscaninfo.data_cnt
      /\ p.totalpage = pscaninfo.totalpage
  BY DEF ScanInv, ScanTypeOK, InfoType
<1>4. CASE pscaninfo' = p /\ UNCHANGED scan_halted
  <2> HIDE DEF p
  <2>1. QED
    BY <1>1, <1>3, <1>4 DEF ScanInv, ScanTypeOK, InfoType, PagesKnown, ScanFresh, ScanHalts,
                            EntriesCounted, Pages
<1>5. CASE ~pscaninfo.null /\ k # 0 /\ k <= p.totalpage /\ Page(p)
  <2> HIDE DEF p
  <2>1. /\ pscaninfo' \in InfoType
        /\ \/ pscaninfo' = NoInfo
           \/ /\ ~pscaninfo'.null
              /\ pscaninfo'.pbss + pscaninfo'.data_cnt = pscaninfo.pbss + pscaninfo.data_cnt
              /\ pscaninfo'.totalpage = pscaninfo.totalpage
        /\ scan_halted' => pscaninfo.pbss + pscaninfo.data_cnt < scannum
        /\ scan_halted' \in BOOLEAN
    BY <1>3, <1>5, PageEffect
  <2>2. ScanTypeOK'
    BY <1>1, <2>1 DEF ScanInv, ScanTypeOK, InfoType, Pages
  <2>3. EntriesCounted'
    BY <1>1, <1>5, <2>1 DEF ScanInv, EntriesCounted, NoInfo
  <2>4. ScanHalts'
    BY <1>1, <1>5, <2>1 DEF ScanInv, ScanTypeOK, EntriesCounted, ScanHalts
  <2>5. PagesKnown' /\ ScanFresh'
    BY <1>1, <2>1 DEF ScanInv, PagesKnown, ScanFresh, NoInfo, Pages
  <2>6. QED
    BY <2>2, <2>3, <2>4, <2>5 DEF ScanInv
<1>6. QED
  <2>1. k \in Int /\ p.totalpage \in Int
    BY <1>3, ScanBounds DEF InfoType
  <2>2. \/ UNCHANGED <<pscaninfo, scan_halted>>
        \/ pscaninfo' = p /\ UNCHANGED scan_halted
        \/ ~pscaninfo.null /\ k # 0 /\ ~(k > p.totalpage) /\ Page(p)
    BY DEF get_page
  <2> HIDE DEF p
  <2>3. QED
    BY <1>2, <1>4, <1>5, <2>1, <2>2

LEMMA ScanStep == ScanInv /\ [ScanNext]_scanVars => ScanInv'
<1>1. ASSUME ScanInv, UNCHANGED scanVars PROVE ScanInv'
  BY <1>1 DEF scanVars, ScanInv, ScanTypeOK, PagesKnown, ScanFresh, ScanHalts, EntriesCounted,
              Pages
<1>2. QED
  BY <1>1, GetScanInv, ResultInv, GetPageInv DEF ScanNext

LEMMA ScanInvariant == ScanSpec => []ScanInv
BY ScanInitInv, ScanStep, PTL DEF ScanSpec

(* Whatever pages are asked for in whatever order, every entry found is in *)
(* the list or has been handed out; a null pointer is followed only if a   *)
(* page is asked for while a scan runs.  For every size of a page and      *)
(* every number of access points.                                          *)
THEOREM EntriesKept == ScanSpec => []ScanKept
<1>1. ScanInv => ScanKept
  BY DEF ScanInv, ScanKept
<1>2. QED
  BY <1>1, ScanInvariant, PTL

(* The web server as a whole: its three parts share no variable, and each  *)
(* keeps its promise whatever the others do.                               *)
THEOREM WebSound == RequestSpec /\ ConfigSpec /\ ScanSpec => []WebKept
<1>1. RequestsKept /\ ConfigKept /\ ScanKept => WebKept
  BY DEF WebKept
<1>2. QED
  BY <1>1, RequestsWhole, PostsAwaited, EntriesKept, PTL
-----------------------------------------------------------------------------
LEMMA TimerConstants ==
    /\ Hour \in Nat /\ Week \in Nat \ {0} /\ Monday \in Nat /\ MaxTime \in Nat /\ Never \in Nat /\ Never > 0
    /\ \A l \in TimerLists : l \in Seq(Timers) /\ l # <<>>
BY TimerAssumption DEF Never

LEMMA TimerFields ==
    ASSUME NEW timer \in Timers
    PROVE  /\ timer.mode \in {"f", "l", "w", "unknown"} /\ timer.param \in Nat
           /\ timer.mode = "l" => timer.param \in Nat \ {0}
           /\ timer.mode = "w" => timer.param <= Week
BY DEF Timers

(* The remainder that C computes: how far the week is gone, or, before the *)
(* first Monday, how far it has to go, negated.                            *)
LEMMA WeekGone ==
    ASSUME NEW t \in Nat
    PROVE  /\ Remainder(t - Monday) \in Int
           /\ Remainder(t - Monday) < Week
           /\ t >= Monday => /\ t - Monday \in Nat
                             /\ Remainder(t - Monday) = (t - Monday) % Week
                             /\ Remainder(t - Monday) \in Nat
           /\ t < Monday => Remainder(t - Monday) <= 0
<1>1. Monday \in Nat /\ Week \in Nat \ {0}
  BY TimerConstants
<1>2. CASE t >= Monday
  <2> DEFINE a == t - Monday
  <2>1. a \in Nat
    BY <1>1, <1>2
  <2>2. a % Week \in Nat /\ a % Week < Week /\ Remainder(a) = a % Week
    BY <1>1, <2>1, Euclid DEF Remainder
  <2>3. QED
    BY <1>1, <1>2, <2>1, <2>2
<1>3. CASE ~(t >= Monday)
  <2> DEFINE a == Monday - t
  <2>1. a \in Nat \ {0} /\ t - Monday = -a
    BY <1>1, <1>3
  <2> HIDE DEF a
  <2>2. a % Week \in Nat /\ a % Week < Week /\ Remainder(-a) = -(a % Week)
    <3>1. a % Week \in Nat /\ a % Week < Week
      BY <1>1, <2>1, Euclid
    <3>2. ~(-a >= 0) /\ -(-a) = a
      BY <2>1
    <3>3. QED
      BY <3>1, <3>2 DEF Remainder
  <2>3. QED
    BY <1>1, <1>3, <2>1, <2>2
<1>4. QED
  BY <1>2, <1>3

(* No wait but that for a fixed time, or in an entry of unknown mode, is   *)
(* over at once.                                                           *)
LEMMA WaitIsInt ==
    ASSUME NEW timer \in Timers, NEW t \in Nat
    PROVE  /\ WaitSecond(timer, t) \in Int
           /\ timer.mode = "f" => WaitSecond(timer, t) = timer.param - t
           /\ timer.mode \notin {"f", "unknown"} => WaitSecond(timer, t) >= 1
<1>1. CASE timer.mode = "f"
  BY <1>1, TimerFields DEF WaitSecond
<1>2. CASE timer.mode = "l"
  <2>1. t % timer.param \in Nat /\ t % timer.param < timer.param /\ timer.param \in Nat
    BY <1>2, TimerFields, Euclid
  <2>2. WaitSecond(timer, t) = timer.param - (t % timer.param)
    BY <1>2 DEF WaitSecond
  <2>3. QED
    BY <1>2, <2>1, <2>2
<1>3. CASE timer.mode = "w"
  <2> DEFINE r == Remainder(t - Monday)
  <2>1. r \in Int /\ r < Week /\ Week \in Nat /\ timer.param \in Nat
    BY TimerConstants, TimerFields, WeekGone
  <2>2. WaitSecond(timer, t) = IF timer.param > r THEN timer.param - r
                                                  ELSE Week - r + timer.param
    BY <1>3 DEF WaitSecond
  <2> HIDE DEF r
  <2>3. QED
    BY <1>3, <2>1, <2>2
<1>4. CASE timer.mode = "unknown"
  BY <1>4 DEF WaitSecond
<1>5. QED
  BY <1>1, <1>2, <1>3, <1>4, TimerFields

(* A wait ends when its timer is due, and not before.                      *)
LEMMA NextDue ==
    ASSUME NEW timer \in Timers, NEW t \in Nat, NEW d \in Nat \ {0},
           timer.mode = "w" => t >= Monday
    PROVE  /\ WaitSecond(timer, t) < 0 \/ d < WaitSecond(timer, t) => ~Due(timer, t + d)
           /\ d = WaitSecond(timer, t) => Due(timer, t + d)
<1> DEFINE w == WaitSecond(timer, t)
<1>1. CASE timer.mode = "f"
  BY <1>1, TimerFields DEF WaitSecond, Due
<1>2. CASE timer.mode = "l"
  <2> DEFINE p == timer.param
             r == t % p
  <2>1. r \in Nat /\ r < p /\ p \in Nat \ {0}
    BY <1>2, TimerFields, Euclid
  <2>2. w = p - r
    BY <1>2 DEF WaitSecond
  <2>3. Due(timer, t + d) <=> (t + d) % p = 0
    BY <1>2 DEF Due
  <2>4. /\ r + d < p => (t + d) % p = r + d
        /\ r + d \in p .. 2 * p - 1 => (t + d) % p = r + d - p
    BY <2>1, RemainderLater
  <2> HIDE DEF w, r, p
  <2>5. d < w => (t + d) % p # 0
    BY <2>1, <2>2, <2>4
  <2>6. d = w => (t + d) % p = 0
    BY <2>1, <2>2, <2>4
  <2>7. ~(w < 0)
    BY <2>1, <2>2
  <2>8. QED
    BY <2>3, <2>5, <2>6, <2>7 DEF w
<1>3. CASE timer.mode = "w"
  <2> DEFINE p == timer.param
             u == t - Monday
             r == u % Week
             e == (u + d) % Week
             f == p % Week
  <2>1. r \in Nat /\ r < Week /\ Week \in Nat \ {0} /\ p \in Nat /\ p <= Week /\ u \in Nat
    BY <1>3, TimerConstants, TimerFields, WeekGone, Euclid
  <2>2. w = IF p > r THEN p - r ELSE Week - r + p
    <3>1. Remainder(t - Monday) = r
      BY <1>3, WeekGone
    <3>2. QED
      BY <1>3, <3>1 DEF WaitSecond
  <2>3. Due(timer, t + d) <=> e = f
    <3>1. (t + d) - Monday = u + d
      BY TimerConstants
    <3>2. QED
      BY <1>3, <3>1 DEF Due
  <2> HIDE DEF u
  <2>4. /\ r + d < Week => e = r + d
        /\ r + d \in Week .. 2 * Week - 1 => e = r + d - Week
    BY <2>1, RemainderLater
  <2>5. (p < Week => f = p) /\ (p = Week => f = 0)
    <3>1. p < Week => f = p
      <4>1. p = Week * 0 + p
        BY <2>1
      <4>2. QED
        BY <2>1, <4>1, OneRemainder
    <3>2. p = Week => f = 0
      <4>1. Week = Week * 1 + 0
        BY <2>1
      <4>2. QED
        BY <2>1, <4>1, OneRemainder
    <3>3. QED
      BY <3>1, <3>2
  <2> HIDE DEF w, r, p, e, f
  <2>6. d < w => e # f
    BY <2>1, <2>2, <2>4, <2>5
  <2>7. d = w => e = f
    BY <2>1, <2>2, <2>4, <2>5
  <2>8. ~(w < 0)
    BY <2>1, <2>2
  <2>9. QED
    BY <2>3, <2>6, <2>7, <2>8 DEF w
<1>4. CASE timer.mode = "unknown"
  <2>1. w = 0
    BY <1>4 DEF WaitSecond
  <2>2. QED
    BY <2>1
<1>5. QED
  BY <1>1, <1>2, <1>3, <1>4, TimerFields

LEMMA InList ==
    ASSUME NEW list \in TimerLists
    PROVE  /\ Len(list) \in Nat /\ Len(list) # 0 /\ DOMAIN list = 1 .. Len(list)
           /\ \A i \in DOMAIN list : list[i] \in Timers
<1>1. list \in Seq(Timers) /\ list # <<>>
  BY TimerConstants
<1>2. QED
  BY <1>1, LenProperties, ElementOfSeq, EmptySeq

(* The wait is the shortest that is not over, if there is one.             *)
LEMMA ShortestWait ==
    ASSUME NEW list \in TimerLists, NEW t \in Nat
    PROVE  /\ FindMinTime(list, t) \in Nat
           /\ \/ FindMinTime(list, t) = Never
              \/ \E i \in DOMAIN list : WaitSecond(list[i], t) = FindMinTime(list, t)
           /\ \A i \in DOMAIN list : \/ WaitSecond(list[i], t) < 0
                                     \/ FindMinTime(list, t) <= WaitSecond(list[i], t)
<1> DEFINE all == {Never} \cup {WaitSecond(list[i], t) : i \in DOMAIN list}
           waits == all \cap Nat
           m == FindMinTime(list, t)
<1>1. waits \in SUBSET Nat /\ Never \in waits
  BY TimerConstants
<1>2. \E w \in waits : \A v \in waits : w <= v
  <2> HIDE DEF all
  <2>1. waits # {} /\ waits \in SUBSET Nat
    BY <1>1
  <2> HIDE DEF waits
  <2>2. QED
    BY <2>1, LeastNat
<1>3. m \in waits /\ \A v \in waits : m <= v
  <2>1. m = CHOOSE w \in waits : \A v \in waits : w <= v
    BY DEF FindMinTime
  <2> HIDE DEF waits, m
  <2>2. QED
    BY ONLY <1>2, <2>1, Zenon
<1>4. \A i \in DOMAIN list : WaitSecond(list[i], t) \in Int /\ WaitSecond(list[i], t) \in all
  BY InList, WaitIsInt
<1>5. m \in Nat /\ m \in all
  BY <1>3
<1>6. m = Never \/ \E i \in DOMAIN list : WaitSecond(list[i], t) = m
  <2> HIDE DEF m
  <2>1. QED
    BY <1>5
<1>7. ASSUME NEW i \in DOMAIN list PROVE WaitSecond(list[i], t) < 0 \/ m <= WaitSecond(list[i], t)
  <2> DEFINE w == WaitSecond(list[i], t)
  <2>1. w \in Int /\ w \in all
    BY <1>4
  <2> HIDE DEF w, m, all
  <2>2. w \in Nat => m <= w
    BY <1>3, <2>1
  <2>3. QED
    BY <2>1, <2>2 DEF w
<1>8. QED
  BY <1>5, <1>6, <1>7

(* The end of the wait that runs, from the callback and when it is due.    *)
WaitEnd == IF device_timer.fn = "action" THEN device_timer.at
                                         ELSE device_timer.at + pwait_action.min_time_backup

Waiting == ~halted /\ device_timer.fn # "none" /\ ~frame_reused

(* What waits was computed from the list in force when actions were last   *)
(* done or a list came; it ends as much later as the wait was long, by the *)
(* device's own count, too, unless an empty list has come.                 *)
WaitInHand ==
    /\ in_force \in TimerLists /\ timer_splits \in {<<>>, in_force}
    /\ pwait_action.count = Len(in_force)
    /\ pwait_action.action =
         [i \in {j \in DOMAIN in_force :
                   WaitSecond(in_force[j], served) = FindMinTime(in_force, served)}
            |-> in_force[i].action]
    /\ device_timer.at >= now
    /\ WaitEnd = served + FindMinTime(in_force, served)
    /\ device_timer.fn = "check" => pwait_action.min_time_backup \in Nat
    /\ timer_splits # <<>> => timestamp + min_wait_second = WaitEnd

TimerInv ==
    /\ now \in Nat /\ served \in Nat /\ served <= now
    /\ timestamp \in Nat /\ min_wait_second \in Nat
    /\ timer_splits \in TimerLists \cup {<<>>}
    /\ device_timer \in [fn : {"none", "action", "check"}, at : Nat]
    /\ device_timer.fn = "none" => device_timer = Disarmed
    /\ Waiting => WaitInHand
    /\ HaltsOnlyIfCleared

(* A list is loaded, by the server's message or when actions are done.     *)
LEMMA Started ==
    ASSUME TimerInv, NEW list \in TimerLists, FirstStart(list, Len(list), now),
           timer_splits' = list, served' = now, now' = now, ~halted'
    PROVE  TimerInv'
<1> DEFINE m == FindMinTime(list, now)
<1>1. m \in Nat /\ now \in Nat /\ Hour \in Nat
  BY ShortestWait, TimerConstants DEF TimerInv
<1>2. /\ timestamp' = now /\ min_wait_second' = m
      /\ device_timer' = Armed(m) /\ frame_reused' = FALSE /\ in_force' = list
      /\ pwait_action' =
           [action |-> [i \in {j \in DOMAIN list : WaitSecond(list[j], now) = m} |-> list[i].action],
            count |-> Len(list), min_time_backup |-> m - Hour]
  BY DEF FirstStart
<1>3. pwait_action'.count = Len(list) /\ pwait_action'.min_time_backup = m - Hour
      /\ pwait_action'.action =
           [i \in {j \in DOMAIN list : WaitSecond(list[j], now) = m} |-> list[i].action]
  BY <1>2
<1> HIDE DEF m
<1>4. /\ device_timer' \in [fn : {"none", "action", "check"}, at : Nat]
      /\ device_timer'.fn # "none" /\ device_timer'.at >= now
      /\ IF m >= Hour THEN device_timer'.fn = "check" /\ device_timer'.at = now + Hour
                      ELSE device_timer'.fn = "action" /\ device_timer'.at = now + m
  BY <1>1, <1>2 DEF Armed
<1>5. WaitEnd' = now + m
  BY <1>1, <1>3, <1>4 DEF WaitEnd
<1>6. device_timer'.fn = "check" => pwait_action'.min_time_backup \in Nat
  BY <1>1, <1>3, <1>4
<1>7. WaitInHand'
  BY <1>1, <1>2, <1>3, <1>4, <1>5, <1>6 DEF WaitInHand, m
<1>8. QED
  BY <1>1, <1>2, <1>4, <1>7 DEF TimerInv, HaltsOnlyIfCleared

LEMMA ListCame ==
    ASSUME TimerInv, NEW list \in TimerLists \cup {<<>>}, user_platform_timer_start(list)
    PROVE  TimerInv'
<1>1. CASE list = <<>>
  <2>1. /\ ~halted /\ ~halted' /\ timer_splits' = <<>> /\ min_wait_second' = 0 /\ timestamp' = now
        /\ UNCHANGED <<now, served, pwait_action, frame_reused, device_timer, in_force>>
    BY <1>1 DEF user_platform_timer_start
  <2>2. Waiting' => WaitInHand'
    BY <2>1 DEF TimerInv, Waiting, WaitInHand, WaitEnd
  <2>3. QED
    BY <2>1, <2>2 DEF TimerInv, HaltsOnlyIfCleared
<1>2. CASE list # <<>>
  <2>1. list \in TimerLists
    BY <1>2
  <2>2. /\ ~halted' /\ timer_splits' = list /\ now' = now /\ served' = now
        /\ FirstStart(list, Len(list), now)
    BY <1>2 DEF user_platform_timer_start
  <2>3. QED
    BY <2>1, <2>2, Started
<1>3. QED
  BY <1>1, <1>2

LEMMA HourOver ==
    ASSUME TimerInv, user_esp_platform_wait_time_overflow_check PROVE TimerInv'
<1> DEFINE b == pwait_action.min_time_backup
<1>1. /\ ~halted /\ device_timer.fn = "check" /\ device_timer.at = now /\ ~frame_reused
      /\ UNCHANGED <<now, timestamp, min_wait_second, timer_splits, frame_reused, halted, served,
                     in_force>>
      /\ device_timer' = Armed(b) /\ pwait_action' = [pwait_action EXCEPT !.min_time_backup = @ - Hour]
  BY DEF user_esp_platform_wait_time_overflow_check, Fires
<1>2. Waiting /\ WaitInHand
  BY <1>1 DEF TimerInv, Waiting
<1>3. /\ b \in Nat /\ WaitEnd = now + b /\ now \in Nat /\ Hour \in Nat
      /\ device_timer.at = now
  BY <1>1, <1>2, TimerConstants DEF WaitInHand, WaitEnd, TimerInv
<1>4. pwait_action'.count = pwait_action.count /\ pwait_action'.action = pwait_action.action
      /\ (b >= Hour => pwait_action'.min_time_backup = b - Hour)
  BY <1>1, <1>2 DEF WaitInHand
<1> HIDE DEF b
<1>5. /\ device_timer' \in [fn : {"none", "action", "check"}, at : Nat]
      /\ device_timer'.fn # "none" /\ device_timer'.at >= now
      /\ IF b >= Hour THEN device_timer'.fn = "check" /\ device_timer'.at = now + Hour
                      ELSE device_timer'.fn = "action" /\ device_timer'.at = now + b
  BY <1>1, <1>3 DEF Armed
<1>6. WaitEnd' = WaitEnd
  BY <1>3, <1>4, <1>5 DEF WaitEnd
<1>7. device_timer'.fn = "check" => pwait_action'.min_time_backup \in Nat
  BY <1>3, <1>4, <1>5
<1>8. WaitInHand'
  BY <1>1, <1>2, <1>4, <1>5, <1>6, <1>7 DEF WaitInHand
<1>9. QED
  BY <1>1, <1>5, <1>8 DEF TimerInv, HaltsOnlyIfCleared

LEMMA ActionsDone ==
    ASSUME TimerInv, user_esp_platform_device_action PROVE TimerInv'
<1>1. /\ ~halted /\ device_timer.fn = "action" /\ device_timer.at = now /\ ~frame_reused
      /\ served' = now /\ now' = now /\ timer_splits' = timer_splits
  BY DEF user_esp_platform_device_action, Fires
<1>2. Waiting /\ WaitInHand /\ now \in Nat
  BY <1>1 DEF TimerInv, Waiting
<1>3. CASE device_timer' = Disarmed /\ UNCHANGED <<timestamp, min_wait_second, frame_reused, halted>>
  BY <1>1, <1>2, <1>3 DEF TimerInv, Waiting, Disarmed, HaltsOnlyIfCleared
<1>4. CASE /\ halted' = TRUE /\ pwait_action.count > Len(timer_splits)
           /\ UNCHANGED <<timestamp, min_wait_second, frame_reused, device_timer>>
  <2>1. timer_splits = <<>>
    <3>1. Len(in_force) \in Nat /\ (timer_splits = in_force \/ timer_splits = <<>>)
          /\ pwait_action.count = Len(in_force) /\ in_force \in TimerLists
      BY <1>2, InList DEF WaitInHand
    <3>2. QED
      BY <1>4, <3>1
  <2>2. QED
    BY <1>1, <1>2, <1>4, <2>1 DEF TimerInv, Waiting, HaltsOnlyIfCleared
<1>5. CASE /\ ~(pwait_action.count > Len(timer_splits)) /\ halted' = halted
           /\ FirstStart(timer_splits, pwait_action.count, timestamp + min_wait_second)
  <2>1. in_force \in TimerLists /\ Len(in_force) \in Nat /\ Len(in_force) # 0
        /\ pwait_action.count = Len(in_force) /\ timer_splits \in {<<>>, in_force}
    BY <1>2, InList DEF WaitInHand
  <2>2. timer_splits # <<>>
    <3>1. timer_splits = <<>> => Len(timer_splits) = 0
      OBVIOUS
    <3>2. QED
      BY <1>5, <2>1, <3>1
  <2>3. timer_splits = in_force /\ timestamp + min_wait_second = now
    BY <1>1, <1>2, <2>1, <2>2 DEF WaitInHand, WaitEnd
  <2>4. QED
    BY <1>1, <1>5, <2>1, <2>3, Started
<1>6. QED
  BY <1>3, <1>4, <1>5, Zenon DEF user_esp_platform_device_action

LEMMA TimerStep == TimerInv /\ [TimerNext]_timerVars => TimerInv'
<1> SUFFICES ASSUME TimerInv, [TimerNext]_timerVars PROVE TimerInv'
  OBVIOUS
<1>1. CASE FrameReused
  BY <1>1 DEF FrameReused, TimerInv, Waiting, HaltsOnlyIfCleared
<1>2. CASE GarbageFires
  <2>1. /\ frame_reused /\ frame_reused'
        /\ UNCHANGED <<now, served, timestamp, min_wait_second, timer_splits>>
        /\ \/ device_timer' = Disarmed
           \/ device_timer' = [fn |-> "check", at |-> now + Hour]
           \/ device_timer' = device_timer
    BY <1>2 DEF GarbageFires
  <2>2. now + Hour \in Nat
    BY TimerConstants DEF TimerInv
  <2>3. QED
    BY <2>1, <2>2 DEF TimerInv, Waiting, Disarmed, HaltsOnlyIfCleared
<1>3. CASE Tick
  <2>1. /\ now' = now + 1 /\ (device_timer # Disarmed => device_timer.at > now)
        /\ UNCHANGED <<timestamp, min_wait_second, timer_splits, pwait_action, frame_reused,
                       device_timer, halted, served, in_force>>
    BY <1>3 DEF Tick
  <2>2. now \in Nat /\ served \in Nat /\ served <= now /\ device_timer.at \in Nat
    BY DEF TimerInv
  <2>3. Waiting' => WaitInHand'
    <3>1. Waiting' => device_timer.at >= now + 1
      BY <2>1, <2>2 DEF Waiting, Disarmed
    <3>2. QED
      BY <2>1, <3>1 DEF TimerInv, Waiting, WaitInHand, WaitEnd
  <2>4. QED
    BY <2>1, <2>2, <2>3 DEF TimerInv, HaltsOnlyIfCleared
<1>4. CASE UNCHANGED timerVars
  BY <1>4 DEF timerVars, TimerInv, Waiting, WaitInHand, WaitEnd, HaltsOnlyIfCleared
<1>5. QED
  BY <1>1, <1>2, <1>3, <1>4, ListCame, HourOver, ActionsDone DEF TimerNext

LEMMA TimerInitInv == TimerInit => TimerInv
BY DEF TimerInit, TimerInv, Waiting, Disarmed, HaltsOnlyIfCleared

LEMMA TimerInvariant == TimerSpec => []TimerInv
BY TimerInitInv, TimerStep, PTL DEF TimerSpec

(* While a wait runs, what is due is due at its end, and then all of it    *)
(* is in hand.                                                             *)
LEMMA WhatIsDue ==
    ASSUME TimerInv, Waiting, Reckoned, now # served, NEW i \in DOMAIN in_force
    PROVE  /\ Due(in_force[i], now) => device_timer.at = now
           /\ device_timer.fn = "action" /\ device_timer.at = now =>
                (Due(in_force[i], now) <=>
                   WaitSecond(in_force[i], served) = FindMinTime(in_force, served))
<1> DEFINE w == WaitSecond(in_force[i], served)
           m == FindMinTime(in_force, served)
           d == now - served
<1>1. WaitInHand /\ now \in Nat /\ served \in Nat /\ served <= now /\ in_force \in TimerLists
      /\ in_force[i] \in Timers /\ device_timer.at \in Nat
      /\ device_timer.fn \in {"action", "check"}
  BY InList DEF TimerInv, Waiting, WaitInHand
<1>2. w \in Int /\ m \in Nat /\ (w < 0 \/ m <= w)
  BY <1>1, WaitIsInt, ShortestWait
<1>3. d \in Nat \ {0} /\ served + d = now
  BY <1>1
<1> HIDE DEF d
<1>4. /\ w < 0 \/ d < w => ~Due(in_force[i], now)
      /\ d = w => Due(in_force[i], now)
  <2>1. in_force[i].mode = "w" => served >= Monday
    BY <1>1, TimerConstants DEF Reckoned
  <2>2. QED
    BY <1>1, <1>3, <2>1, NextDue
<1>5. WaitEnd = served + m /\ device_timer.at >= now
  BY <1>1 DEF WaitInHand
<1>6. /\ device_timer.fn = "action" => WaitEnd = device_timer.at
      /\ device_timer.at <= WaitEnd
  <2>1. device_timer.fn # "action" => /\ WaitEnd = device_timer.at + pwait_action.min_time_backup
                                     /\ pwait_action.min_time_backup \in Nat
    BY <1>1 DEF WaitInHand, WaitEnd
  <2>2. device_timer.fn = "action" => WaitEnd = device_timer.at
    BY DEF WaitEnd
  <2>3. QED
    BY <1>1, <2>1, <2>2
<1> HIDE DEF w, m
<1>7. d <= m
  BY <1>1, <1>3, <1>5, <1>6, <1>2
<1>8. ASSUME Due(in_force[i], now) PROVE device_timer.at = now /\ w = m
  <2>1. ~(w < 0) /\ ~(d < w)
    BY <1>4, <1>8
  <2>2. d = m /\ w = m
    BY <1>2, <1>3, <1>7, <2>1
  <2>3. QED
    BY <1>1, <1>2, <1>3, <1>5, <1>6, <2>2
<1>9. ASSUME device_timer.fn = "action", device_timer.at = now, w = m PROVE Due(in_force[i], now)
  <2>1. d = w
    BY <1>1, <1>2, <1>3, <1>5, <1>6, <1>9
  <2>2. QED
    BY <1>4, <2>1
<1>10. QED
  BY <1>8, <1>9 DEF w, m

(* The waits, in their pieces, and the device's own count of time keep     *)
(* step with the real time: no timer is passed over and none acts early.   *)
(* For every list, every hour and every week.                              *)
THEOREM ActionsInTime == TimerSpec => []TimersKept
<1>1. TimerInv => TimersKept
  <2> SUFFICES ASSUME TimerInv PROVE TimersKept
    OBVIOUS
  <2>1. ASSUME ~Stopped, ~frame_reused, Reckoned, NEW i \in 1 .. Len(in_force), Due(in_force[i], now)
        PROVE  served = now \/ device_timer.at = now
    <3>1. Waiting
      BY <2>1 DEF Stopped, TimerInv, Waiting
    <3>2. in_force \in TimerLists
      BY <3>1 DEF TimerInv, WaitInHand
    <3>3. i \in DOMAIN in_force
      BY <3>2, InList
    <3>4. QED
      BY <2>1, <3>1, <3>3, WhatIsDue
  <2>2. ASSUME Fires("action"), served # now, Reckoned
        PROVE  pwait_action.action =
                 [i \in {j \in DOMAIN in_force : Due(in_force[j], now)} |-> in_force[i].action]
    <3>1. Waiting /\ device_timer.fn = "action" /\ device_timer.at = now
      BY <2>2 DEF Fires, Waiting
    <3>2. \A i \in DOMAIN in_force :
             Due(in_force[i], now) <=>
               WaitSecond(in_force[i], served) = FindMinTime(in_force, served)
      BY <2>2, <3>1, WhatIsDue
    <3>3. {j \in DOMAIN in_force : Due(in_force[j], now)}
          = {j \in DOMAIN in_force :
               WaitSecond(in_force[j], served) = FindMinTime(in_force, served)}
      BY <3>2
    <3>4. QED
      BY <3>1, <3>3 DEF TimerInv, WaitInHand
  <2>3. QED
    BY <2>1, <2>2 DEF TimersKept, NothingSkipped, OnlyWhatIsDue, TimerInv
<1>2. QED
  BY <1>1, TimerInvariant, PTL

(* Actions are repeated at one moment only by a timer of fixed time, or in *)
(* a list with an entry of unknown mode: every other wait is at least a    *)
(* second.                                                                 *)
THEOREM OnlyFixedRepeats == TimerSpec => RepeatsOnlyFixed
<1> DEFINE AtOnce(timer) == \/ timer.mode = "f" /\ timer.param = now
                            \/ timer.mode = "unknown"
<1>1. TimerInv /\ [TimerNext]_timerVars =>
        [Fires("action") /\ user_esp_platform_device_action /\ served = now
           => \E i \in 1 .. Len(in_force) : AtOnce(in_force[i])]_timerVars
  <2> SUFFICES ASSUME TimerInv, Fires("action"), served = now
               PROVE  \E i \in 1 .. Len(in_force) : AtOnce(in_force[i])
    OBVIOUS
  <2> DEFINE m == FindMinTime(in_force, served)
  <2>1. Waiting /\ WaitInHand /\ device_timer.fn = "action" /\ device_timer.at = now
        /\ now \in Nat /\ in_force \in TimerLists
    BY DEF Fires, Waiting, TimerInv, WaitInHand
  <2>2. m \in Nat /\ now = served + m
    BY <2>1, ShortestWait DEF WaitInHand, WaitEnd
  <2>3. m = 0 /\ Never # 0
    BY <2>1, <2>2, TimerConstants
  <2>4. PICK i \in DOMAIN in_force : WaitSecond(in_force[i], served) = 0
    BY <2>1, <2>3, ShortestWait
  <2>5. i \in 1 .. Len(in_force) /\ in_force[i] \in Timers
    BY <2>1, InList
  <2>6. AtOnce(in_force[i])
    <3> DEFINE timer == in_force[i]
               w == WaitSecond(timer, served)
    <3>1. timer \in Timers /\ served \in Nat /\ served = now /\ w = 0
      BY <2>1, <2>4, <2>5
    <3> HIDE DEF timer
    <3>2. timer.mode \notin {"f", "unknown"} => w >= 1
      BY <3>1, WaitIsInt
    <3>3. timer.mode = "f" => w = timer.param - served
      BY <3>1, WaitIsInt
    <3>4. timer.param \in Nat
      BY <3>1, TimerFields
    <3> HIDE DEF w
    <3>5. AtOnce(timer)
      BY <2>1, <3>1, <3>2, <3>3, <3>4
    <3>6. QED
      BY <3>5 DEF timer
  <2>7. QED
    BY <2>5, <2>6
<1>2. QED
  BY <1>1, TimerInvariant, PTL DEF TimerSpec, RepeatsOnlyFixed

-----------------------------------------------------------------------------
(* The saved parameters, for every set of tokens.  The invariants of       *)
(* EspParam are not inductive by themselves: what makes them true is the   *)
(* order of the four flash operations, which ParamInv records, one         *)
(* conjunct per value of pc.                                               *)

(* Before the flag is touched the sector being written is the spare one.   *)
SlotIsSpare == pc \in {"erase_data", "write_data", "erase_flag"} => slot = SpareSlot(flag)

(* Once written, the spare sector holds the block being saved.             *)
SlotWritten == pc \in {"erase_flag", "write_flag"} => sector[slot] = esp_param

(* While the flag sector is erased the block is selected through SAVE_1.   *)
FlagErased == pc = "write_flag" => flag = 255

(* A running device never lost its key, is active only with a station      *)
(* configuration, and is inactive while a factory reset is finishing.      *)
RamSound ==
    /\ pc # "off" => esp_param.devkey = "factory"
    /\ pc # "off" /\ esp_param.activeflag = 1 => sta_cfg
    /\ after = "restore" /\ pc \notin {"off", "idle"} => esp_param.activeflag = 0
    /\ pc \in {"restore", "restart"} => esp_param.activeflag = 0

ParamInv ==
    /\ ParamTypeOK
    /\ LoadIntact
    /\ RamMatchesFlash
    /\ ActiveHasStation
    /\ SlotIsSpare
    /\ SlotWritten
    /\ FlagErased
    /\ RamSound

(* A block and its meaning are active together.                            *)
LEMMA MeaningActive ==
    ASSUME NEW p \in Param
    PROVE  Meaning(p).activeflag = 1 <=> p.activeflag = 1
BY DEF Param, Meaning

LEMMA FactoryBlocks ==
    /\ ErasedParam \in Param
    /\ FactoryParam \in Param
    /\ FactoryParam.devkey = "factory"
    /\ FactoryParam.activeflag = 255
BY DEF Param, ErasedParam, FactoryParam

(* While a factory reset finishes, the stored block is already inactive.   *)
LEMMA ResetInactive ==
    ASSUME ParamInv, pc \in {"restore", "restart"}
    PROVE  LoadParam.activeflag # 1
<1>1. LoadParam \in Param /\ esp_param \in Param
  BY DEF ParamInv, ParamTypeOK, LoadIntact
<1>2. Meaning(LoadParam) = Meaning(esp_param) /\ esp_param.activeflag = 0
  BY DEF ParamInv, RamMatchesFlash, RamSound
<1>3. QED
  BY <1>1, <1>2, MeaningActive

(* Wiping the station configuration at the end of a factory reset, whether *)
(* or not power is lost meanwhile, contradicts no part of the invariant.   *)
LEMMA WipeIInv ==
    ASSUME ParamInv, pc = "restore",
           UNCHANGED <<esp_param, sector, flag, slot, after>>,
           pc' \in {"restart", "off"}, sta_cfg' \in BOOLEAN
    PROVE  ParamInv'
<1>1. UNCHANGED LoadParam
  BY DEF LoadParam
<1>2. UNCHANGED <<Meaning(LoadParam), Meaning(esp_param)>>
  BY <1>1 DEF Meaning
<1>3. esp_param.activeflag = 0 /\ LoadParam.activeflag # 1
  BY ResetInactive DEF ParamInv, RamSound
<1>4. ParamTypeOK' /\ LoadIntact' /\ ActiveHasStation'
  BY <1>1, <1>3 DEF ParamInv, ParamTypeOK, LoadIntact, ActiveHasStation
<1>5. RamMatchesFlash'
  BY <1>2 DEF ParamInv, RamMatchesFlash
<1>6. SlotIsSpare' /\ SlotWritten' /\ FlagErased' /\ RamSound'
  BY <1>3 DEF ParamInv, SlotIsSpare, SlotWritten, FlagErased, RamSound
<1>7. QED
  BY <1>4, <1>5, <1>6 DEF ParamInv

LEMMA InitParamInv == ParamInit => ParamInv
<1> SUFFICES ASSUME ParamInit PROVE ParamInv
  OBVIOUS
<1>1. LoadParam = FactoryParam
  BY DEF ParamInit, LoadParam
<1>2. ParamTypeOK
  BY FactoryBlocks DEF ParamInit, ParamTypeOK, FlagByte
<1>3. LoadIntact /\ ActiveHasStation
  BY <1>1, FactoryBlocks DEF LoadIntact, ActiveHasStation
<1>4. QED
  BY <1>2, <1>3 DEF ParamInit, ParamInv, RamMatchesFlash, SlotIsSpare, SlotWritten,
                    FlagErased, RamSound

(* What the callers of save_param share: a save started with a block that  *)
(* keeps the key, and is active only when a station is configured.         *)
LEMMA SaveParamIInv ==
    ASSUME ParamInv, NEW p \in Param, NEW next \in {"idle", "restore"},
           SaveParam(p, next), p.devkey = "factory",
           p.activeflag = 1 => sta_cfg, next = "restore" => p.activeflag = 0
    PROVE  ParamInv'
BY DEF ParamInv, ParamTypeOK, LoadIntact, RamMatchesFlash, ActiveHasStation, SlotIsSpare,
       SlotWritten, FlagErased, RamSound, FlagByte, LoadParam, SpareSlot, SaveParam

(* The three callers of save_param.                                        *)
LEMMA CallersParamInv ==
    ASSUME ParamInv, (\E t \in Token : SetToken(t)) \/ Activated \/ LongPress
    PROVE  ParamInv'
<1>1. esp_param \in Param
  BY DEF ParamInv, ParamTypeOK
<1>2. pc = "idle" /\ esp_param.devkey = "factory"
  BY DEF ParamInv, RamSound, SetToken, Activated, LongPress, SaveParam
<1>3. ASSUME NEW t \in Token, SetToken(t) PROVE ParamInv'
  <2> DEFINE r == [esp_param EXCEPT !.activeflag = 0, !.token = t]
  <2>1. r \in Param /\ r.devkey = "factory" /\ r.activeflag = 0
    BY <1>1, <1>2 DEF Param
  <2>2. SaveParam(r, "idle")
    BY <1>3 DEF SetToken
  <2> HIDE DEF r
  <2>3. QED
    BY <2>1, <2>2, SaveParamIInv
<1> DEFINE q(a) == [esp_param EXCEPT !.activeflag = a]
<1>4. CASE Activated
  <2>1. q(1) \in Param /\ q(1).devkey = "factory"
    BY <1>1, <1>2 DEF Param
  <2>2. SaveParam(q(1), "idle") /\ sta_cfg
    BY <1>4 DEF Activated
  <2> HIDE DEF q
  <2>3. QED
    BY <2>1, <2>2, SaveParamIInv
<1>5. CASE LongPress
  <2>1. q(0) \in Param /\ q(0).devkey = "factory" /\ q(0).activeflag = 0
    BY <1>1, <1>2 DEF Param
  <2>2. SaveParam(q(0), "restore")
    BY <1>5 DEF LongPress
  <2> HIDE DEF q
  <2>3. QED
    BY <2>1, <2>2, SaveParamIInv
<1>6. QED
  BY <1>3, <1>4, <1>5

(* The flash operations of a save, and the end of a factory reset.         *)
LEMMA FlashParamInv ==
    ASSUME ParamInv, EraseData \/ WriteData \/ EraseFlag \/ WriteFlag \/ Restore \/ Restart
    PROVE  ParamInv'
<1>1. CASE Restore
  BY <1>1, WipeIInv DEF Restore
<1> USE TornAssumption
    DEF ParamInv, ParamTypeOK, LoadIntact, RamMatchesFlash, ActiveHasStation, SlotIsSpare,
        SlotWritten, FlagErased, RamSound, FlagByte, LoadParam, SpareSlot
<1>2. CASE EraseData
  BY <1>2, FactoryBlocks DEF EraseData
<1>3. CASE WriteData
  BY <1>3 DEF WriteData
<1>4. CASE EraseFlag
  BY <1>4 DEF EraseFlag
<1>5. CASE WriteFlag
  BY <1>5 DEF WriteFlag
<1>6. CASE Restart
  BY <1>6 DEF Restart
<1>7. QED
  BY <1>1, <1>2, <1>3, <1>4, <1>5, <1>6

(* A power loss leaves every sector but the one being written alone, and   *)
(* moves the flag only between bytes that select a whole block.            *)
LEMMA PowerLossParamInv == ASSUME ParamInv, PowerLoss PROVE ParamInv'
<1>1. PICK d \in DataAfterCut : sector' = [sector EXCEPT ![slot] = d]
  BY DEF PowerLoss
<1>2. flag' \in FlagAfterCut /\ pc' = "off" /\ pc # "off"
      /\ UNCHANGED <<esp_param, slot, after>>
      /\ sta_cfg' \in (IF pc = "restore" THEN {sta_cfg, FALSE} ELSE {sta_cfg})
  BY DEF PowerLoss
<1>3. SlotIsSpare' /\ SlotWritten' /\ FlagErased' /\ RamSound' /\ RamMatchesFlash'
  BY <1>2 DEF SlotIsSpare, SlotWritten, FlagErased, RamSound, RamMatchesFlash
<1>4. CASE pc = "restore"
  <2>1. sector[slot] = d
    BY <1>1, <1>4 DEF DataAfterCut
  <2>2. UNCHANGED <<sector, flag>> /\ sta_cfg' \in BOOLEAN
    BY <1>1, <1>2, <1>4, <2>1 DEF FlagAfterCut, ParamInv, ParamTypeOK
  <2>3. QED
    BY <1>2, <1>4, <2>2, WipeIInv
<1>5. CASE pc \in {"idle", "restart"}
  <2>1. UNCHANGED <<sector, flag, sta_cfg>> /\ sector[slot] = d
    BY <1>1, <1>2, <1>5 DEF DataAfterCut, FlagAfterCut, ParamInv, ParamTypeOK
  <2>2. UNCHANGED LoadParam
    BY <2>1 DEF LoadParam
  <2>3. ParamTypeOK' /\ LoadIntact' /\ ActiveHasStation'
    BY <1>2, <2>1, <2>2 DEF ParamInv, ParamTypeOK, LoadIntact, ActiveHasStation
  <2>4. QED
    BY <1>3, <2>3 DEF ParamInv
<1>6. ASSUME pc \notin {"idle", "restart", "restore"}
      PROVE ParamTypeOK' /\ LoadIntact' /\ ActiveHasStation'
  <2> USE DEF ParamInv, ParamTypeOK, LoadIntact, RamMatchesFlash, ActiveHasStation,
              SlotIsSpare, SlotWritten, FlagErased, RamSound, FlagByte,
              LoadParam, SpareSlot
  <2>1. CASE pc \in {"erase_data", "write_data"}
    <3>1. d \in Param \cup {Torn}
      BY <2>1, FactoryBlocks DEF DataAfterCut
    <3>2. UNCHANGED <<flag, sta_cfg>>
      BY <1>2, <2>1 DEF FlagAfterCut
    <3>3. QED
      BY <1>1, <1>2, <2>1, <3>1, <3>2
  <2>2. CASE pc = "erase_flag"
    <3>1. UNCHANGED <<sector, sta_cfg>> /\ flag' \in {flag, 255}
      BY <1>1, <1>2, <2>2 DEF DataAfterCut, FlagAfterCut
    <3>2. QED
      BY <1>2, <2>2, <3>1
  <2>3. CASE pc = "write_flag"
    <3>1. UNCHANGED <<sector, sta_cfg>> /\ flag' \in {255, slot}
      BY <1>1, <1>2, <2>3 DEF DataAfterCut, FlagAfterCut
    <3>2. QED
      BY <1>2, <2>3, <3>1
  <2>4. QED
    BY <1>2, <1>6, <2>1, <2>2, <2>3
<1>7. QED
  BY <1>3, <1>4, <1>5, <1>6 DEF ParamInv

(* The steps that only read the flash or move one RAM byte.                *)
LEMMA QuietParamInv == ASSUME ParamInv, LoadAtBoot \/ Sent \/ SetStation PROVE ParamInv'
<1> USE DEF ParamInv, ParamTypeOK, LoadIntact, RamMatchesFlash, ActiveHasStation,
            SlotIsSpare, SlotWritten, FlagErased, RamSound, LoadParam
<1>1. CASE LoadAtBoot
  BY <1>1 DEF LoadAtBoot
<1>2. CASE SetStation
  BY <1>2 DEF SetStation
<1>3. CASE Sent
  <2> DEFINE q == [esp_param EXCEPT !.activeflag = 0]
  <2>1. pc = "idle" /\ esp_param' = q
        /\ UNCHANGED <<sector, flag, slot, pc, after, sta_cfg>>
    BY <1>3 DEF Sent
  <2>2. q \in Param /\ q.devkey = "factory" /\ q.activeflag = 0
    BY <2>1 DEF Param
  <2>3. Meaning(q) = Meaning(esp_param)
    BY <1>3 DEF Sent, Meaning, Param
  <2> HIDE DEF q
  <2>4. QED
    BY <2>1, <2>2, <2>3
<1>4. QED
  BY <1>1, <1>2, <1>3

LEMMA NextParamInv == ParamInv /\ [ParamNext]_paramVars => ParamInv'
<1>1. ASSUME ParamInv, UNCHANGED paramVars PROVE ParamInv'
  BY <1>1 DEF paramVars, ParamInv, ParamTypeOK, LoadIntact, RamMatchesFlash, ActiveHasStation,
              SlotIsSpare, SlotWritten, FlagErased, RamSound, LoadParam
<1>2. QED
  BY <1>1, CallersParamInv, FlashParamInv, PowerLossParamInv, QuietParamInv DEF ParamNext

(* The inductive invariant holds in every reachable state.                 *)
THEOREM ParamInductive == ParamSpec => []ParamInv
BY InitParamInv, NextParamInv, PTL DEF ParamSpec

(* Type correctness: the RAM copy is never torn, whatever happened to the  *)
(* sectors.                                                                *)
THEOREM ParamTyped == ParamSpec => []ParamTypeOK
<1>1. ParamInv => ParamTypeOK
  BY DEF ParamInv
<1>2. QED
  BY <1>1, ParamInductive, PTL

(* What a reboot would load is a whole block with the device key, at every *)
(* instant of every save and after any number of power losses.             *)
THEOREM AlwaysLoadable == ParamSpec => []LoadIntact
<1>1. ParamInv => LoadIntact
  BY DEF ParamInv
<1>2. QED
  BY <1>1, ParamInductive, PTL

(* Outside a save nothing is held in RAM only.                             *)
THEOREM NothingOnlyInRam == ParamSpec => []RamMatchesFlash
<1>1. ParamInv => RamMatchesFlash
  BY DEF ParamInv
<1>2. QED
  BY <1>1, ParamInductive, PTL

(* No power loss during a factory reset leaves an active device without a  *)
(* station configuration.                                                  *)
THEOREM ResetIsSafe == ParamSpec => []ActiveHasStation
<1>1. ParamInv => ActiveHasStation
  BY DEF ParamInv
<1>2. QED
  BY <1>1, ParamInductive, PTL

-----------------------------------------------------------------------------
(* The refinement: each step of a save is a step of the atomic store or    *)
(* leaves its variables alone.                                             *)
LEMMA InitRefines == ParamInit => Atomic!Init
<1> SUFFICES ASSUME ParamInit PROVE Atomic!Init
  OBVIOUS
<1>1. LoadParam = FactoryParam /\ Phase = "off" /\ esp_param \in Param
  BY FactoryBlocks DEF ParamInit, LoadParam, Phase
<1>2. QED
  BY <1>1 DEF Atomic!Init

(* A stutter of the atomic store.                                          *)
Still == UNCHANGED <<Phase, Meaning(esp_param), Meaning(LoadParam)>>

LEMMA SaveParamRefines ==
    ASSUME NEW p \in Param, NEW next, SaveParam(p, next)
    PROVE  Atomic!Update(Meaning(p))
<1>1. Phase = "idle" /\ Phase' = "busy"
  BY DEF SaveParam, Phase
<1>2. Meaning(LoadParam)' = Meaning(LoadParam)
  BY DEF SaveParam, LoadParam, Meaning
<1>3. Meaning(esp_param)' = Meaning(p)
  BY DEF SaveParam, Meaning
<1>4. QED
  BY <1>1, <1>2, <1>3 DEF Atomic!Update

LEMMA CallersRefine ==
    ASSUME ParamInv, (\E t \in Token : SetToken(t)) \/ Activated \/ LongPress
    PROVE  Atomic!Next
<1>1. esp_param \in Param
  BY DEF ParamInv, ParamTypeOK
<1>2. \E p \in Param : \E next \in {"idle", "restore"} : SaveParam(p, next)
  <2>1. ASSUME NEW t \in Token PROVE [esp_param EXCEPT !.activeflag = 0, !.token = t] \in Param
    BY <1>1 DEF Param
  <2>2. [esp_param EXCEPT !.activeflag = 0] \in Param
    BY <1>1 DEF Param
  <2>3. [esp_param EXCEPT !.activeflag = 1] \in Param
    BY <1>1 DEF Param
  <2>4. QED
    BY <2>1, <2>2, <2>3 DEF SetToken, Activated, LongPress
<1>3. QED
  BY <1>2, SaveParamRefines DEF Atomic!Next

LEMMA FlashRefines ==
    ASSUME ParamInv, EraseData \/ WriteData \/ EraseFlag \/ WriteFlag \/ Restore
    PROVE  Atomic!Next \/ Still
<1>1. Meaning(esp_param)' = Meaning(esp_param)
  BY DEF EraseData, WriteData, EraseFlag, WriteFlag, Restore, Meaning
<1>2. CASE EraseData \/ WriteData \/ Restore
  <2>1. LoadParam' = LoadParam
    BY <1>2 DEF EraseData, WriteData, Restore, LoadParam, SpareSlot, ParamInv,
                SlotIsSpare, ParamTypeOK, FlagByte
  <2>2. Phase' = Phase
    BY <1>2 DEF EraseData, WriteData, Restore, Phase
  <2>3. QED
    BY <1>1, <2>1, <2>2 DEF Still, Meaning
<1>3. CASE EraseFlag
  <2>1. LoadParam' = LoadParam \/ LoadParam' = esp_param
    BY <1>3 DEF EraseFlag, LoadParam, SpareSlot, ParamInv, SlotIsSpare, SlotWritten
  <2>2. Phase = "busy" /\ Phase' = "busy"
    BY <1>3 DEF EraseFlag, Phase
  <2>3. Meaning(LoadParam)' = Meaning(LoadParam) \/ Meaning(LoadParam)' = Meaning(esp_param)
    BY <2>1 DEF Meaning
  <2>4. QED
    BY <1>1, <2>2, <2>3 DEF Still, Atomic!Next, Atomic!Commit
<1>4. CASE WriteFlag
  <2>1. LoadParam' = esp_param
    BY <1>4 DEF WriteFlag, LoadParam, ParamInv, SlotWritten, ParamTypeOK
  <2>2. Phase = "busy" /\ Phase' = "idle"
    BY <1>4 DEF WriteFlag, Phase, ParamInv, ParamTypeOK
  <2>3. Meaning(LoadParam)' = Meaning(esp_param)
    BY <2>1 DEF Meaning
  <2>4. QED
    BY <1>1, <2>2, <2>3 DEF Atomic!Next, Atomic!Done
<1>5. QED
  BY <1>2, <1>3, <1>4

LEMMA PowerRefines ==
    ASSUME ParamInv, PowerLoss \/ Restart \/ LoadAtBoot
    PROVE  Atomic!Next
<1>1. CASE LoadAtBoot
  <2>1. Phase = "off" /\ Phase' = "idle" /\ LoadParam' = LoadParam /\ esp_param' = LoadParam
    BY <1>1 DEF LoadAtBoot, Phase, LoadParam
  <2>2. Meaning(esp_param)' = Meaning(LoadParam) /\ Meaning(LoadParam)' = Meaning(LoadParam)
    BY <2>1 DEF Meaning
  <2>3. QED
    BY <2>1, <2>2 DEF Atomic!Next, Atomic!Boot
<1>2. ASSUME PowerLoss \/ Restart PROVE Atomic!PowerOff
  <2>1. Phase # "off" /\ Phase' = "off" /\ UNCHANGED esp_param
    BY <1>2 DEF PowerLoss, Restart, Phase
  <2>2. LoadParam' = LoadParam \/ (Phase = "busy" /\ LoadParam' = esp_param)
    <3>1. CASE Restart
      BY <3>1 DEF Restart, LoadParam
    <3>2. CASE PowerLoss
      <4>1. PICK d \in DataAfterCut : sector' = [sector EXCEPT ![slot] = d]
        BY <3>2 DEF PowerLoss
      <4>2. flag' \in FlagAfterCut
        BY <3>2 DEF PowerLoss
      <4>3. CASE pc \in {"erase_data", "write_data"}
        BY <4>1, <4>2, <4>3 DEF FlagAfterCut, LoadParam, SpareSlot, ParamInv, SlotIsSpare, ParamTypeOK
      <4>4. ASSUME pc \notin {"erase_data", "write_data"} PROVE UNCHANGED sector
        BY <4>1, <4>4 DEF DataAfterCut, ParamInv, ParamTypeOK
      <4>5. CASE pc = "erase_flag"
        BY <4>2, <4>4, <4>5 DEF FlagAfterCut, LoadParam, SpareSlot, ParamInv, SlotIsSpare,
                                SlotWritten, Phase
      <4>6. CASE pc = "write_flag"
        BY <4>2, <4>4, <4>6 DEF FlagAfterCut, LoadParam, ParamInv, SlotWritten, FlagErased,
                                Phase, ParamTypeOK
      <4>7. CASE pc \notin {"erase_data", "write_data", "erase_flag", "write_flag"}
        BY <4>2, <4>4, <4>7 DEF FlagAfterCut, LoadParam
      <4>8. QED
        BY <4>3, <4>5, <4>6, <4>7
    <3>3. QED
      BY <1>2, <3>1, <3>2
  <2>3. UNCHANGED Meaning(esp_param)
    BY <2>1 DEF Meaning
  <2>4. \/ Meaning(LoadParam)' = Meaning(LoadParam)
        \/ Phase = "busy" /\ Meaning(LoadParam)' = Meaning(esp_param)
    BY <2>2 DEF Meaning
  <2>5. QED
    BY <2>1, <2>3, <2>4 DEF Atomic!PowerOff
<1>3. QED
  BY <1>1, <1>2 DEF Atomic!Next

LEMMA QuietRefines == ASSUME ParamInv, Sent \/ SetStation \/ UNCHANGED paramVars PROVE Still
<1>1. UNCHANGED <<LoadParam, Phase>>
  BY DEF Sent, SetStation, paramVars, LoadParam, Phase
<1>2. UNCHANGED Meaning(LoadParam)
  BY <1>1 DEF Meaning
<1>3. UNCHANGED Meaning(esp_param)
  BY DEF Sent, SetStation, paramVars, Meaning, ParamInv, ParamTypeOK, Param
<1>4. QED
  BY <1>1, <1>2, <1>3 DEF Still

(* A save is one atomic replacement of the stored block.                   *)
THEOREM SaveIsAtomic == ParamSpec => AtomicSave
<1>1. ParamInv /\ [ParamNext]_paramVars => [Atomic!Next]_(Atomic!vars)
  <2>1. ParamInv /\ [ParamNext]_paramVars => Atomic!Next \/ Still
    BY CallersRefine, FlashRefines, PowerRefines, QuietRefines DEF ParamNext
  <2>2. Still => UNCHANGED Atomic!vars
    BY DEF Still, Atomic!vars
  <2>3. QED
    BY <2>1, <2>2
<1>2. QED
  BY InitRefines, ParamInductive, <1>1, PTL DEF ParamSpec, AtomicSave, Atomic!Spec
=============================================================================
