-------------------------- MODULE GraphValidation ---------------------------
(***************************************************************************)
(* The cycle check of the graph validator, one step of its depth-first     *)
(* search at a time, on any graph of a given set.                          *)
(***************************************************************************)
EXTENDS ForgeGraph

CONSTANT Drafts    \* well-formed graphs to validate

ASSUME DraftsWellFormed == \A g \in Drafts : WellFormed(g)

VARIABLES
  draft,    \* the graph being validated
  walk      \* the search: stack, visited nodes, nodes reported as cyclic

search == <<draft, walk>>

SearchInit == draft \in Drafts /\ walk = WalkStart(draft)

Step ==
  /\ ~Ended(walk)
  /\ walk' = WalkStep(draft, walk)
  /\ UNCHANGED draft

SearchSpec == SearchInit /\ [][Step]_search /\ WF_search(Step)

-----------------------------------------------------------------------------
(* Properties                                                              *)

\* The node is on a cycle that avoids every loop node.
OnUngovernedCycle(g, n) ==
  LET free == Nodes(g) \ Loops(g)
      next == {e.target : e \in {d \in Edges(g) : d.source = n}}
  IN n \in free /\ n \in Spread(g, next, free)

UngovernedCycle == \E n \in Reachable(draft) : OnUngovernedCycle(draft, n)

\* The search's own state: frames of nodes with edges of theirs, on a path of
\* distinct nodes from the start node.
SearchTypeOK ==
  /\ walk.visited \subseteq Nodes(draft) /\ walk.cyclic \subseteq Nodes(draft)
  /\ \A i \in DOMAIN walk.stack :
       LET f == walk.stack[i] IN
       /\ f.node \in Nodes(draft) \ walk.visited
       /\ f.todo \subseteq Out(draft, f.node)
       /\ \A j \in 1 .. i - 1 : walk.stack[j].node # f.node

\* UNGOVERNED_CYCLE is never a false alarm: a reported node lies on a cycle
\* that has no loop node.  In a graph without loop nodes every cycle is found
\* (validator.py, walk).
ReportsAreRight ==
  /\ \A n \in walk.cyclic : OnUngovernedCycle(draft, n)
  /\ Ended(walk) /\ Loops(draft) = {} /\ UngovernedCycle => walk.cyclic # {}

\* What the comment in validate_graph says: a back-edge is permitted only when
\* the cycle contains an explicit loop node.  An accepted graph has no other.
AcceptedIsGoverned == Ended(walk) /\ walk.cyclic = {} => ~UngovernedCycle
=============================================================================
