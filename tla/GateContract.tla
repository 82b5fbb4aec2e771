---------------------------- MODULE GateContract ----------------------------
(***************************************************************************)
(* What a human gate promises to the features that ask for one: a gate is  *)
(* offered, a person may grant it, and a grant lets the gated action run   *)
(* at most once and never after the gate's time is over.  A closed or used *)
(* gate stays that way.  HumanGates implements this contract.              *)
(***************************************************************************)
EXTENDS Integers

CONSTANT Gate

VARIABLES
  grant,    \* [Gate -> stage of the gate]
  over,     \* the gates whose time is over
  served    \* [Gate -> how many requests were told that they may act]

vars == <<grant, over, served>>

Stage == {"none", "open", "granted", "used", "closed"}

Init ==
  /\ grant = [g \in Gate |-> "none"]
  /\ over = {}
  /\ served = [g \in Gate |-> 0]

\* A gate is put in front of a person; its time may already be over.
Offer(g) ==
  /\ grant[g] = "none"
  /\ grant' = [grant EXCEPT ![g] = "open"]
  /\ over' \in {over, over \cup {g}}
  /\ UNCHANGED served

Grant(g) ==
  /\ grant[g] = "open"
  /\ grant' = [grant EXCEPT ![g] = "granted"]
  /\ UNCHANGED <<over, served>>

Use(g) ==
  /\ grant[g] = "granted"
  /\ g \notin over
  /\ grant' = [grant EXCEPT ![g] = "used"]
  /\ served' = [served EXCEPT ![g] = @ + 1]
  /\ UNCHANGED over

\* Denial, expiry or cancellation, of one gate or of all gates of a run.
Close(S) ==
  /\ \A g \in S : grant[g] \in {"open", "granted"}
  /\ grant' = [g \in Gate |-> IF g \in S THEN "closed" ELSE grant[g]]
  /\ UNCHANGED <<over, served>>

\* Time passes: what is over stays over.
Pass ==
  /\ over' \in SUBSET Gate
  /\ over \subseteq over'
  /\ UNCHANGED <<grant, served>>

Next ==
  \/ \E g \in Gate : Offer(g) \/ Grant(g) \/ Use(g)
  \/ \E S \in SUBSET Gate : Close(S)
  \/ Pass

Spec == Init /\ [][Next]_vars
=============================================================================
