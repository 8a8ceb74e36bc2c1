----------------------------- MODULE Connection -----------------------------
(***************************************************************************)
(* What a session promises the game that uses it, without threads, events, *)
(* flags or the completion port: buffers handed to Send reach the peer in  *)
(* order and without a gap, packets of the peer reach the main thread in   *)
(* order and without a gap, the end of the connection is reported exactly  *)
(* once, and at most Late packets come behind that report.  Module Session *)
(* implements it while failures are resets; module GameServer is written   *)
(* against it.                                                             *)
(***************************************************************************)
EXTENDS Integers, Sequences

CONSTANTS
  Late,         \* packets that may follow the report of the end
  Disc          \* that report, among the numbers of the packets

VARIABLES
  fresh,        \* no peer has connected yet
  open,         \* the connection is up
  sent,         \* buffers handed to Send
  delivered,    \* the buffers the peer received
  inbox         \* what the main thread is given of this session

vars == <<fresh, open, sent, delivered, inbox>>

Init == fresh = TRUE /\ open = FALSE /\ sent = 0 /\ delivered = <<>> /\ inbox = <<>>

Reported == \E i \in 1..Len(inbox) : inbox[i] = Disc

Connect ==
  /\ fresh
  /\ fresh' = FALSE /\ open' = TRUE
  /\ UNCHANGED <<sent, delivered, inbox>>

Send ==
  /\ ~fresh
  /\ sent' = sent + 1
  /\ UNCHANGED <<fresh, open, delivered, inbox>>

\* The peer receives some of the buffers that were sent, the oldest first.
Deliver ==
  /\ \E n \in Len(delivered) + 1 .. sent : delivered' = [i \in 1..n |-> i]
  /\ UNCHANGED <<fresh, open, sent, inbox>>

\* The peer's next packet reaches the main thread.
Receive ==
  /\ ~fresh
  /\ \A i \in 1..Len(inbox) : inbox[i] = Disc => Len(inbox) - i < Late
  /\ inbox' = Append(inbox, IF Reported THEN Len(inbox) ELSE Len(inbox) + 1)
  /\ UNCHANGED <<fresh, open, sent, delivered>>

Close ==
  /\ open /\ open' = FALSE
  /\ UNCHANGED <<fresh, sent, delivered, inbox>>

Report ==
  /\ ~fresh /\ ~open /\ ~Reported
  /\ inbox' = Append(inbox, Disc)
  /\ UNCHANGED <<fresh, open, sent, delivered>>

Next == Connect \/ Send \/ Deliver \/ Receive \/ Close \/ Report

Spec == Init /\ [][Next]_vars

\* While the connection is up what was sent is delivered in the end, and a
\* connection that is over is reported.
FairSpec == Spec /\ WF_vars(open /\ Deliver) /\ WF_vars(Report)
=============================================================================
