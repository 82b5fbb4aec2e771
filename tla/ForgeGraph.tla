----------------------------- MODULE ForgeGraph -----------------------------
(***************************************************************************)
(* Agent graphs, and what the validator and the runner compute on them.    *)
(*                                                                         *)
(* A graph is a record                                                     *)
(*   type      [its nodes -> kind of node]                                 *)
(*   edges     [numbers -> [source, target, handle]], in the stored order  *)
(*   ids       [the same numbers -> ids of the edges]                      *)
(*   max       [its loop nodes -> max_iterations]                          *)
(*   fallback  [its loop nodes -> configured fallback node]                *)
(*   mistral   llm nodes whose provider is configured to be Mistral        *)
(*   faulty    nodes whose remaining configuration breaks a rule           *)
(***************************************************************************)
EXTENDS Integers, Sequences, FiniteSetsExt, Functions

CONSTANTS
  NoHandle,            \* an edge without a source handle
  NoRoute,             \* result of a choice that finds no edge
  MaxLoopIterations,   \* CAPS.max_loop_iterations
  MaxNodes,            \* CAPS.max_nodes
  MaxEdges             \* CAPS.max_edges

ASSUME CapsAssumption == MaxNodes \in Nat /\ MaxEdges \in Nat

NodeType == {"start", "reducer", "rag", "llm", "tool", "loop", "output"}

Nodes(g) == DOMAIN g.type
Loops(g) == {n \in Nodes(g) : g.type[n] = "loop"}
Start(g) == CHOOSE n \in Nodes(g) : g.type[n] = "start"
Edges(g) == {g.edges[i] : i \in DOMAIN g.edges}

\* The numbers of the edges that leave n.
Out(g, n) == {i \in DOMAIN g.edges : g.edges[i].source = n}

OneOf(g, kind) == \E n \in Nodes(g) : {m \in Nodes(g) : g.type[m] = kind} = {n}

Joined(g) == \A e \in Edges(g) : e.source \in Nodes(g) /\ e.target \in Nodes(g)

\* Nodes and edges that fit together.
Shaped(g) ==
  /\ OneOf(g, "start") /\ OneOf(g, "output")
  /\ IsFiniteSet(Nodes(g))
  /\ DOMAIN g.edges \subseteq Nat /\ IsFiniteSet(DOMAIN g.edges)
  /\ Joined(g)
  /\ \A e \in Edges(g) :
       /\ g.type[e.source] # "output"
       /\ g.type[e.source] = "loop" =>
            e.handle \in {NoHandle, "true", "false", "fallback"}

WithinCaps(g) ==
  Cardinality(Nodes(g)) <= MaxNodes /\ Cardinality(DOMAIN g.edges) <= MaxEdges

\* Every edge has an id of its own.
EdgesNamed(g) == DOMAIN g.ids = DOMAIN g.edges /\ IsInjective(g.ids)

\* What the contract of a graph admits before anything validates it.
WellFormed(g) == Shaped(g) /\ WithinCaps(g) /\ EdgesNamed(g)

-----------------------------------------------------------------------------
(* The runner's choice of the next node: the first edge with the handle,   *)
(* or the only edge when no handle is asked for.                           *)

Choose(g, n, handle) ==
  LET all  == Out(g, n)
      fits == {i \in all : g.edges[i].handle = handle}
  IN IF fits # {} THEN g.edges[Min(fits)].target
     ELSE IF handle = NoHandle /\ Cardinality(all) = 1 THEN g.edges[Min(all)].target
     ELSE NoRoute

-----------------------------------------------------------------------------
(* The validator's walk: a depth-first search from the start node, as a    *)
(* machine whose stack holds the nodes being visited and the edges each    *)
(* still has to follow.                                                    *)

Frame(g, n) == [node |-> n, todo |-> Out(g, n)]

WalkStart(g) ==
  [stack |-> <<Frame(g, Start(g))>>, visited |-> {}, cyclic |-> {}]

Ended(w) == w.stack = <<>>
Top(w) == w.stack[Len(w.stack)]
Below(w) == SubSeq(w.stack, 1, Len(w.stack) - 1)
Visiting(w) == {w.stack[i].node : i \in DOMAIN w.stack}

\* Mutant: the slice of the cycle starts one node late.
CycleAtNext(w, n) ==
  LET from == CHOOSE i \in DOMAIN w.stack : w.stack[i].node = n
  IN {w.stack[i].node : i \in from + 1 .. Len(w.stack)}

\* The nodes of the stack from n to its top: the cycle that an edge back to n
\* closes.
CycleAt(w, n) ==
  LET from == CHOOSE i \in DOMAIN w.stack : w.stack[i].node = n
  IN {w.stack[i].node : i \in from .. Len(w.stack)}

\* Mutant: what is marked as visited is the frame, not its node.
LeaveMarkingFrame(w) ==
  [w EXCEPT !.stack = Below(w), !.visited = @ \cup {Top(w)}]

Leave(w) == [w EXCEPT !.stack = Below(w), !.visited = @ \cup {Top(w).node}]

\* The stack when edge k of its top has been followed.
OneLess(stack, k) == [stack EXCEPT ![Len(stack)].todo = @ \ {k}]

\* Mutant: a cycle found ends the walk.
FollowToFirstCycle(g, w) ==
  LET next == Min(Top(w).todo)
      n    == g.edges[next].target
      rest == OneLess(w.stack, next)
  IN CASE n \in Visiting(w) ->
            [w EXCEPT !.stack = <<>>,
                      !.visited = @ \cup Visiting(w),
                      !.cyclic = IF CycleAt(w, n) \cap Loops(g) = {}
                                   THEN @ \cup {n} ELSE @]
       [] n \in w.visited \ Visiting(w) -> [w EXCEPT !.stack = rest]
       [] OTHER -> [w EXCEPT !.stack = Append(rest, Frame(g, n))]

\* Follow the next edge: to a node being visited, which closes a cycle, to a
\* visited node, or to a new one.
Follow(g, w) ==
  LET next == Min(Top(w).todo)
      n    == g.edges[next].target
      rest == OneLess(w.stack, next)
  IN CASE n \in Visiting(w) ->
            [w EXCEPT !.stack = rest,
                      !.cyclic = IF CycleAt(w, n) \cap Loops(g) = {}
                                   THEN @ \cup {n} ELSE @]
       [] n \in w.visited \ Visiting(w) -> [w EXCEPT !.stack = rest]
       [] OTHER -> [w EXCEPT !.stack = Append(rest, Frame(g, n))]

WalkStep(g, w) == IF Top(w).todo = {} THEN Leave(w) ELSE Follow(g, w)

\* The whole walk: one step per edge and one per node at most.
Walked(g) ==
  LET after[k \in Nat] ==
        IF k = 0 THEN WalkStart(g)
        ELSE LET w == after[k - 1] IN IF Ended(w) THEN w ELSE WalkStep(g, w)
  IN after[Cardinality(DOMAIN g.edges) + Cardinality(Nodes(g))]

-----------------------------------------------------------------------------
(* What the validator accepts                                              *)

\* A set of nodes that no edge to a node of another set leaves.
ClosedIn(g, S, within) ==
  \A e \in Edges(g) : e.source \in S /\ e.target \in within => e.target \in S

\* The nodes reached from a set of nodes along edges between nodes of a set:
\* the least set that is closed.
Spread(g, from, within) ==
  LET closed == {S \in SUBSET within : from \cap within \subseteq S /\ ClosedIn(g, S, within)}
  IN {n \in within : \A S \in closed : n \in S}

Reachable(g) == Spread(g, {Start(g)}, Nodes(g))

Targets(g, n, handle) == {e.target : e \in {d \in Edges(g) : d.source = n
                                                          /\ d.handle = handle}}

\* Mutant: a true branch is enough.
LoopRoutedTrueOnly(g, l) ==
  /\ g.fallback[l] \in Targets(g, l, "fallback")
  /\ Targets(g, l, "true") # {}

\* A loop node has a limit, its fallback among its fallback edges, and both
\* branches.
LoopRouted(g, l) ==
  /\ g.fallback[l] \in Targets(g, l, "fallback")
  /\ Targets(g, l, "true") # {} /\ Targets(g, l, "false") # {}

\* The rules that are looked at when the walk has ended.
RulesKept(g) ==
  /\ Nodes(g) \subseteq Reachable(g)
  /\ \A l \in Loops(g) : g.max[l] \in 1 .. MaxLoopIterations /\ LoopRouted(g, l)
  /\ \E n \in Reachable(g) : g.type[n] = "output"
  /\ g.faulty = {}

Valid(g) == Walked(g).cyclic = {} /\ RulesKept(g)
=============================================================================
