--------------------------- MODULE OrderedStream ---------------------------
(***************************************************************************)
(* What a subscriber is promised of the order of its events: the           *)
(* confirmation comes before any message, the messages are a gap-free      *)
(* prefix of what was published, and a message that cannot be represented  *)
(* is reported at most once, with nothing after it ever delivered.  The    *)
(* report itself may overtake everything else.                             *)
(***************************************************************************)
EXTENDS Integers, Sequences

CONSTANT Confirmation

VARIABLES
  published,         \* the published messages, in order
  unrepresentable,   \* those the wire format cannot carry
  events,            \* the confirmation and the messages the subscriber is sent
  reports            \* the messages it is told it cannot have

Init ==
  /\ events = <<>>
  /\ reports = <<>>

Confirm ==
  /\ events = <<>>
  /\ events' = <<Confirmation>>
  /\ UNCHANGED reports

\* The next messages, all of them before the first that is unrepresentable.
Deliver(k) ==
  LET sent == Len(events) - 1 IN
  /\ events # <<>>
  /\ sent + k <= Len(published)
  /\ \A i \in 1 .. sent + k : published[i] \notin unrepresentable
  /\ events' = events \o SubSeq(published, sent + 1, sent + k)

\* The first unrepresentable message, if nobody has reported it yet.
Report ==
  /\ reports = <<>>
  /\ \E i \in 1 .. Len(published) :
       /\ published[i] \in unrepresentable
       /\ \A j \in 1 .. i - 1 : published[j] \notin unrepresentable
       /\ reports' = <<published[i]>>

Next ==
  /\ UNCHANGED <<published, unrepresentable>>
  /\ \/ Confirm
     \/ \E k \in 1 .. Len(published) : Deliver(k) /\ (Report \/ UNCHANGED reports)
     \/ Report /\ UNCHANGED events

Spec == Init /\ [][Next]_<<published, unrepresentable, events, reports>>
=============================================================================
