----------------------------- MODULE LossyFifo ------------------------------
(***************************************************************************)
(* What a subscriber of run events is promised: events arrive in the order *)
(* in which they were published, each once at most.  On the way any of     *)
(* them may be lost.  A subscription starts with nothing on the way.       *)
(***************************************************************************)
EXTENDS Integers, Sequences

VARIABLES
  published,   \* how many events were published
  line,        \* the events on the way to the subscriber, oldest first
  got          \* the events that arrived since it subscribed

vars == <<published, line, got>>

Init == published = 0 /\ line = << >> /\ got = << >>

Without(events, i) == SubSeq(events, 1, i - 1) \o SubSeq(events, i + 1, Len(events))

\* At most one event is lost, and nobody may be there.
Lossy(events) ==
  line' \in {events} \cup {Without(events, i) : i \in DOMAIN events}

Publish ==
  /\ published' = published + 1
  /\ \/ line' = line
     \/ Lossy(Append(line, published'))
  /\ UNCHANGED got

Arrive ==
  /\ line # << >>
  /\ got' = Append(got, Head(line)) /\ line' = Tail(line)
  /\ UNCHANGED published

Lose == Lossy(line) /\ UNCHANGED <<published, got>>

\* A subscription ends, or starts afresh.
Reset == line' = << >> /\ got' = << >> /\ UNCHANGED published

Next == Publish \/ Arrive \/ Lose \/ Reset

Spec == Init /\ [][Next]_vars
=============================================================================
