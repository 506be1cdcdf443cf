------------------------------ MODULE DnsTable ------------------------------
(***************************************************************************)
(* lwIP's DNS client as 07switch builds it                                 *)
(* (src/apps/07switch/lwip/core/dns.c).                                    *)
(*                                                                         *)
(* A query is a slot of the table; the slot's number is the identity the   *)
(* server answers to.  Answers come late, twice or never.  The callback of *)
(* a query that failed may ask again at once, inside the call.             *)
(***************************************************************************)
EXTENDS Integers, FiniteSets

CONSTANTS
  DNS_TABLE_SIZE, DNS_MAX_RETRIES, DNS_MAX_SERVERS,
  SeqWidth,       \* number of values of the u8 dns_seqno
  Names,          \* host names
  MaxTtl,         \* bound: the longest time to live in an answer
  MaxQueries      \* bound: queries accepted

ASSUME DnsAssumption ==
  /\ DNS_TABLE_SIZE \in Nat \ {0} /\ DNS_MAX_RETRIES \in Nat \ {0, 1}
  /\ DNS_MAX_SERVERS \in Nat \ {0} /\ SeqWidth \in Nat \ {0, 1}
  /\ MaxTtl \in Nat /\ MaxQueries \in Nat

Slots == 0..(DNS_TABLE_SIZE - 1)
Queries == 1..MaxQueries

VARIABLES
  dns_table, dns_seqno,
  scan,         \* dns_check_entries' loop index, DNS_TABLE_SIZE outside it
  dns_asked,    \* queries accepted so far
  outcome,      \* of each query: what its callback was told
  sent,         \* slot and name of every datagram the servers may answer
  overtaken,    \* history: queries put into the slot their own caller was leaving
  refused,      \* history: a query was refused although an entry was done with
  wrapped       \* history: dns_seqno has passed its width

dnsVars == <<dns_table, dns_seqno, scan, dns_asked, outcome, sent, overtaken,
             refused, wrapped>>

Unused == [state |-> "unused"]
Asking(n, q, s) == [state |-> "asking", name |-> n, q |-> q, seqno |-> s,
                    numdns |-> 0, tmr |-> 1, retries |-> 0]
Done(s, t) == [state |-> "done", seqno |-> s, ttl |-> t]

DnsTypeOK ==
  /\ \A i \in Slots :
       \/ dns_table[i] = Unused
       \/ /\ dns_table[i].state = "done"
          /\ dns_table[i].seqno \in 0..(SeqWidth - 1) /\ dns_table[i].ttl \in -1..MaxTtl
       \/ /\ dns_table[i].state = "asking" /\ dns_table[i].name \in Names
          /\ dns_table[i].q \in Queries /\ dns_table[i].seqno \in 0..(SeqWidth - 1)
          /\ dns_table[i].numdns \in 0..(DNS_MAX_SERVERS - 1)
          /\ dns_table[i].tmr \in 1..DNS_MAX_RETRIES
          /\ dns_table[i].retries \in 0..DNS_MAX_RETRIES
  /\ dns_seqno \in 0..(SeqWidth - 1) /\ scan \in 0..DNS_TABLE_SIZE
  /\ dns_asked \in 0..MaxQueries
  /\ outcome \in [Queries -> {"none", "pending", "address", "failed", "twice"}]
  /\ sent \subseteq (Slots \X Names) /\ overtaken \subseteq Queries
  /\ {refused, wrapped} \subseteq BOOLEAN

DnsInit ==
  /\ dns_table = [i \in Slots |-> Unused] /\ dns_seqno = 0
  /\ scan = DNS_TABLE_SIZE /\ dns_asked = 0
  /\ outcome = [q \in Queries |-> "none"] /\ sent = {} /\ overtaken = {}
  /\ refused = FALSE /\ wrapped = FALSE
----------------------------------------------------------------------------
\* The slot dns_enqueue takes: the first unused one, else the completed one
\* with the greatest distance dns_seqno - seqno, an int that is negative once
\* dns_seqno has wrapped; slot 0 stands for none found.
Age(t, i) == dns_seqno - t[i].seqno
Candidate(t) ==
  LET unused == {i \in Slots : t[i] = Unused}
      older  == {i \in Slots : t[i].state = "done" /\ Age(t, i) > 0}
      First(S) == CHOOSE i \in S : \A j \in S : i <= j
  IN IF unused # {} THEN First(unused)
     ELSE IF older # {} THEN First({i \in older : \A j \in older : Age(t, i) >= Age(t, j)})
     ELSE 0
\* Mutant: an entry that waits for its answer is taken too.
BugAlwaysRoom(t) == TRUE
HasRoom(t) == t[Candidate(t)].state # "asking"

\* dns_enqueue puts name n into slot j, and dns_check_entry sends the first
\* datagram, unless there is no memory for it.
Accept(j, n) ==
  /\ dns_asked < MaxQueries
  /\ dns_asked' = dns_asked + 1
  /\ dns_seqno' = (dns_seqno + 1) % SeqWidth
  /\ wrapped' = (wrapped \/ dns_seqno + 1 = SeqWidth)
  /\ sent' \in {sent, sent \cup {<<j, n>>}}
NewEntry(n) == Asking(n, dns_asked + 1, dns_seqno)
Asked(told) == [told EXCEPT ![dns_asked + 1] = "pending"]
NobodyAsks == UNCHANGED <<dns_asked, dns_seqno, wrapped, sent>>

\* No entry can be taken: ERR_MEM.
Refusal(t) == refused' = (refused \/ \E i \in Slots : t[i].state = "done")

\* The program asks.
dns_gethostbyname ==
  /\ scan = DNS_TABLE_SIZE
  /\ LET j == Candidate(dns_table)
     IN \/ /\ HasRoom(dns_table)
           /\ \E n \in Names : /\ Accept(j, n)
                               /\ dns_table' = [dns_table EXCEPT ![j] = NewEntry(n)]
           /\ outcome' = Asked(outcome) /\ UNCHANGED refused
        \/ /\ ~HasRoom(dns_table) /\ Refusal(dns_table)
           /\ NobodyAsks /\ UNCHANGED <<dns_table, outcome>>
  /\ UNCHANGED <<scan, overtaken>>

Told(q, what) == [outcome EXCEPT ![q] = IF @ = "pending" THEN what ELSE "twice"]

\* The callback of slot i is told `what` while the slot holds `during`; it may
\* ask again; on return a failed slot is flushed, whatever it holds by then.
CallBack(i, what, during, flush) ==
  LET told == Told(dns_table[i].q, what)
      t == [dns_table EXCEPT ![i] = during]
      j == Candidate(t)
      Left(u) == IF flush THEN [u EXCEPT ![i] = Unused] ELSE u
  IN \/ /\ dns_table' = Left(t) /\ outcome' = told
        /\ NobodyAsks /\ UNCHANGED <<overtaken, refused>>
     \/ /\ HasRoom(t)
        /\ \E n \in Names : Accept(j, n) /\ dns_table' = Left([t EXCEPT ![j] = NewEntry(n)])
        /\ outcome' = Asked(told)
        /\ overtaken' = IF flush /\ i = j THEN overtaken \cup {dns_asked + 1} ELSE overtaken
        /\ UNCHANGED refused
     \/ /\ ~HasRoom(t) /\ Refusal(t)
        /\ dns_table' = Left(t) /\ outcome' = told
        /\ NobodyAsks /\ UNCHANGED overtaken

\* An answer to any datagram ever sent, in time, late or again.  An entry that
\* is not asking ignores it; one that asks for another name fails.
dns_recv ==
  /\ scan = DNS_TABLE_SIZE
  /\ \E a \in sent, good \in BOOLEAN, ttl \in 0..MaxTtl :
       LET i == a[1]
           e == dns_table[i]
       IN /\ e.state = "asking"
          /\ IF good /\ a[2] = e.name
             THEN CallBack(i, "address", Done(e.seqno, ttl), FALSE)
             ELSE ttl = 0 /\ CallBack(i, "failed", Done(e.seqno, 0), TRUE)
  /\ UNCHANGED scan

\* Mutant: the walk leaves out the first entry.
BugSkipsFirst ==
  /\ scan = DNS_TABLE_SIZE /\ scan' = 1
  /\ \E i \in Slots : dns_table[i] # Unused
  /\ UNCHANGED <<dns_table, dns_seqno, dns_asked, outcome, sent, overtaken, refused, wrapped>>

\* Every second dns_tmr walks the table, entry by entry.
dns_tmr ==
  /\ scan = DNS_TABLE_SIZE /\ scan' = 0
  /\ \E i \in Slots : dns_table[i] # Unused
  /\ UNCHANGED <<dns_table, dns_seqno, dns_asked, outcome, sent, overtaken, refused, wrapped>>

Ask(i, e) ==
  /\ dns_table' = [dns_table EXCEPT ![i] = e]
  /\ UNCHANGED <<dns_seqno, dns_asked, outcome, overtaken, refused, wrapped>>

\* dns_check_entry: waits, retries, changes server, gives up, or lets a
\* completed entry age; a time to live of 0 wraps and never ends.
dns_check_entry ==
  /\ scan \in Slots /\ scan' = scan + 1
  /\ LET e == dns_table[scan]
         last == e.retries + 1 = DNS_MAX_RETRIES
     IN \/ e = Unused /\ Ask(scan, e) /\ UNCHANGED sent
        \/ /\ e.state = "done" /\ UNCHANGED sent
           /\ Ask(scan, IF e.ttl = 1 THEN Unused
                        ELSE IF e.ttl = -1 THEN e ELSE [e EXCEPT !.ttl = @ - 1])
        \/ /\ e.state = "asking" /\ e.tmr > 1
           /\ Ask(scan, [e EXCEPT !.tmr = @ - 1]) /\ UNCHANGED sent
        \/ /\ e.state = "asking" /\ e.tmr = 1 /\ ~last
           /\ Ask(scan, [e EXCEPT !.retries = @ + 1, !.tmr = e.retries + 1])
           /\ sent' \in {sent, sent \cup {<<scan, e.name>>}}
        \/ /\ e.state = "asking" /\ e.tmr = 1 /\ last /\ e.numdns + 1 < DNS_MAX_SERVERS
           /\ Ask(scan, [e EXCEPT !.numdns = @ + 1, !.tmr = 1, !.retries = 0])
           /\ UNCHANGED sent
        \/ /\ e.state = "asking" /\ e.tmr = 1 /\ last /\ e.numdns + 1 = DNS_MAX_SERVERS
           /\ CallBack(scan, "failed", e, TRUE)

DnsNext == dns_gethostbyname \/ dns_recv \/ dns_tmr \/ dns_check_entry

DnsFairness == WF_dnsVars(dns_tmr) /\ WF_dnsVars(dns_check_entry)
DnsSpec == DnsInit /\ [][DnsNext]_dnsVars /\ DnsFairness
----------------------------------------------------------------------------
\* However late, doubled or reordered the answers are, a callback is called
\* once: a completed or flushed entry ignores what comes after.
CalledOnce == \A q \in Queries : outcome[q] # "twice"

\* A query not yet answered has its entry, and an entry its query, unless it was
\* put into the slot its own caller was leaving.
NoQueryLost ==
  \A q \in Queries :
    LET mine == {i \in Slots : dns_table[i].state = "asking" /\ dns_table[i].q = q}
    IN /\ Cardinality(mine) <= 1
       /\ outcome[q] = "pending" <=> (mine # {} \/ q \in overtaken)

\* Until dns_seqno wraps (256 queries), a query is refused only if every entry
\* of the table waits for an answer.
RefusedOnlyIfBusy == refused => wrapped

DnsTableKept == CalledOnce /\ NoQueryLost /\ RefusedOnlyIfBusy

\* Every query ends, with an address or with its failure after the retries at
\* every server: there is always a time again at which none is pending (the
\* bound on their number makes that the end of each of them).
EveryQueryEnds == []<>(\A q \in Queries : outcome[q] # "pending" \/ q \in overtaken)
============================================================================
