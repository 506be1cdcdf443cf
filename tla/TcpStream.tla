----------------------------- MODULE TcpStream -----------------------------
(***************************************************************************)
(* What a TCP connection promises the two applications, in one direction:  *)
(* units come out in the order they went in, each at most once; the sent   *)
(* callback is told of none before it has come out; the end comes after    *)
(* the last.  Of what is lost, doubled or sent again on the way nothing is *)
(* seen.  One thing the code does is seen: a unit may come out as Filler.  *)
(* TcpSegments implements this specification.                              *)
(***************************************************************************)
EXTENDS Integers, Sequences

CONSTANTS Units,      \* how much there is to write
          Filler      \* what may stand in a unit's place

VARIABLES written,    \* how many units went in
          reported,   \* how many the sent callback was told of
          received,   \* the units that came out
          closed,     \* has the writer closed?
          eof         \* has the reader been told?

vars == <<written, reported, received, closed, eof>>

Init == written = 0 /\ reported = 0 /\ received = <<>> /\ ~closed /\ ~eof

\* The writer writes n units, which is over once it has closed.
Accept(n) ==
  /\ ~closed /\ written' = written + n
  /\ UNCHANGED <<reported, received, closed, eof>>

Close == ~closed /\ closed' = TRUE /\ UNCHANGED <<written, reported, received, eof>>

\* The next n units come out, those in places as Filler; then the end, perhaps.
Give(n, places) ==
  /\ ~eof
  /\ received' = received \o [i \in 1..n |-> IF i \in places THEN Filler ELSE Len(received) + i]
  /\ eof' => closed /\ Len(received) + n = written
  /\ eof' \in BOOLEAN
  /\ UNCHANGED <<written, reported, closed>>

\* The writer is told of n more, and may write m more in the callback.
Report(n, m) ==
  /\ reported' = reported + n
  /\ written' = written + m /\ (m > 0 => ~closed)
  /\ UNCHANGED <<received, closed, eof>>

Next ==
  \/ \E n \in 1..(Units - written) : Accept(n)
  \/ Close
  \/ \E n \in 0..(written - Len(received)) : \E places \in SUBSET (1..n) : Give(n, places)
  \/ \E n \in 1..(Len(received) - reported), m \in 0..(Units - written) : Report(n, m)

Spec == Init /\ [][Next]_vars
=============================================================================
