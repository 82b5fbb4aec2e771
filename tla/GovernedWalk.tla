---------------------------- MODULE GovernedWalk ----------------------------
(***************************************************************************)
(* What running a graph promises, whatever happens at its nodes: a walk    *)
(* along the graph's edges that begins at the start node, succeeds only at *)
(* an output node, and takes no more turns through a loop node than the    *)
(* node allows; beyond them it leaves the node by a fallback edge.         *)
(***************************************************************************)
EXTENDS ForgeGraph

VARIABLES
  graph,      \* the graph that is walked
  at,         \* where the walk is
  turns,      \* [loop nodes of the graph -> turns taken through them]
  outcome     \* "going", "succeeded" or "stopped"

vars == <<graph, at, turns, outcome>>

Init ==
  /\ at = Start(graph)
  /\ turns = [l \in Loops(graph) |-> 0]
  /\ outcome = "going"

Along(handles) ==
  \E e \in Edges(graph) : e.source = at /\ e.handle \in handles /\ at' = e.target

Move ==
  /\ outcome = "going" /\ at \notin Loops(graph)
  /\ \E e \in Edges(graph) : e.source = at /\ at' = e.target
  /\ UNCHANGED <<graph, turns, outcome>>

Turn ==
  /\ outcome = "going" /\ at \in Loops(graph)
  /\ turns[at] < graph.max[at]
  /\ turns' = [turns EXCEPT ![at] = @ + 1]
  /\ Along({"true", "false"})
  /\ UNCHANGED <<graph, outcome>>

LeaveLoop ==
  /\ outcome = "going" /\ at \in Loops(graph)
  /\ turns[at] = graph.max[at]
  /\ Along({"fallback"})
  /\ UNCHANGED <<graph, turns, outcome>>

Succeed ==
  /\ outcome = "going" /\ graph.type[at] = "output"
  /\ outcome' = "succeeded"
  /\ UNCHANGED <<graph, at, turns>>

Stop ==
  /\ outcome = "going"
  /\ outcome' = "stopped"
  /\ UNCHANGED <<graph, at, turns>>

Next == Move \/ Turn \/ LeaveLoop \/ Succeed \/ Stop

Spec == Init /\ [][Next]_vars
=============================================================================
