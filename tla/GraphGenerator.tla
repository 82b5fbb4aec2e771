--------------------------- MODULE GraphGenerator ---------------------------
(***************************************************************************)
(* How graphs are made from a prompt: the candidate of a language model,   *)
(* which is repaired, and the graphs that are synthesized without one.     *)
(*                                                                         *)
(* A candidate is a graph whose loops may lack a limit or a fallback node, *)
(* whose edges are a sequence, and which has two fields more:              *)
(*   mistaken  tool nodes that are meant to be rag nodes                   *)
(*   fixable   nodes with configuration that the repair completes          *)
(***************************************************************************)
EXTENDS ForgeGraph, SequencesExt

CONSTANT NoValue    \* a limit or fallback node that a candidate does not give

\* The caps admit what is synthesized.
ASSUME LoopLimitAssumption == MaxLoopIterations \in Nat /\ MaxLoopIterations >= 4
ASSUME RoomAssumption == MaxNodes >= 5 /\ MaxEdges >= 6

Output(g) == CHOOSE n \in Nodes(g) : g.type[n] = "output"

Edge(source, target, handle) == [source |-> source, target |-> target, handle |-> handle]

Or(value, default) == IF value = NoValue THEN default ELSE value

Branches == {"true", "false", "fallback"}

\* The loops that lack one of their branches.
Unrouted(g) == {l \in Loops(g) : \E h \in Branches : Targets(g, l, h) = {}}

\* Where a repaired loop goes back to: the first node of these kinds, which is
\* any of them, or the name that start nodes usually have.
Before(type) ==
  LET some == {n \in DOMAIN type : type[n] \in {"llm", "tool"}}
  IN IF some = {} THEN {"start-1"} ELSE some

\* Every edge of a loop that lacks a branch is replaced, by three at the end whose
\* ids are made of the loop and the branch; and what is missing or fixable is
\* filled in.
Repaired(c, before) ==
  LET fallback == [l \in Loops(c) |-> Or(c.fallback[l], Output(c))]
      routes(l) == << Edge(l, Output(c), "true"), Edge(l, before, "false"),
                      Edge(l, fallback[l], "fallback") >>
      kept  == {i \in DOMAIN c.edges : c.edges[i].source \notin Unrouted(c)}
      last  == Len(c.edges)
      lost  == SetToSeq(Unrouted(c))
      added == last + 1 .. last + 3 * Len(lost)
      new(k) == routes(lost[(k \div 3) + 1])[(k % 3) + 1]
  IN [type |-> [n \in Nodes(c) |-> IF n \in c.mistaken THEN "rag" ELSE c.type[n]],
      edges |-> [i \in kept \cup added |->
                   IF i \in kept THEN c.edges[i] ELSE new(i - last - 1)],
      ids |-> [i \in kept \cup added |->
                 IF i \in kept THEN c.ids[i]
                 ELSE << new(i - last - 1).source, new(i - last - 1).handle >>],
      max |-> [l \in Loops(c) |-> Or(c.max[l], 4)],
      fallback |-> fallback,
      mistral |-> c.mistral,
      faulty |-> c.faulty \ (c.fixable \cup c.mistaken)]

\* What the repair makes of a candidate.
Repairs(c) ==
  {Repaired(c, b) : b \in Before([n \in Nodes(c) |->
                            IF n \in c.mistaken THEN "rag" ELSE c.type[n]])}

\* Mutant: nodes that do not exist have no edges.
DanglingUnnoticed(g) == FALSE

\* The validator comes to a node that does not exist, and fails.
Dangling(g) == \E e \in Edges(g) : e.source \in Reachable(g) /\ e.target \notin Nodes(g)

\* A candidate of nodes in a row, each with an edge to the next.
Row(names, kinds) ==
  [type |-> [n \in ToSet(names) |-> kinds[CHOOSE i \in DOMAIN names : names[i] = n]],
   edges |-> [i \in 1 .. Len(names) - 1 |-> Edge(names[i], names[i + 1], NoHandle)],
   ids |-> [i \in 1 .. Len(names) - 1 |-> << "e", i >>],
   max |-> << >>, fallback |-> << >>, mistral |-> {}, faulty |-> {}, mistaken |-> {},
   fixable |-> {}]

SynthesizedRag ==
  Row(<<"start-1", "rag-1", "llm-1", "out-1">>, <<"start", "rag", "llm", "output">>)

SynthesizedChain ==
  Row(<<"start-1", "llm-1", "llm-2", "out-1">>, <<"start", "llm", "llm", "output">>)

SynthesizedLoop ==
  LET row == Row(<<"start-1", "llm-1", "tool-1", "loop-1", "out-1">>,
                 <<"start", "llm", "tool", "loop", "output">>)
  IN [row EXCEPT
       !.edges = SubSeq(@, 1, 3) \o << Edge("loop-1", "out-1", "true"),
                                       Edge("loop-1", "llm-1", "false"),
                                       Edge("loop-1", "out-1", "fallback") >>,
       !.ids = [i \in 1 .. 6 |-> << "e", i >>],
       !.max = [l \in {"loop-1"} |-> 4],
       !.fallback = [l \in {"loop-1"} |-> "out-1"]]

\* The prompt's words decide between the three.
Synthesized == UNION {Repairs(c) : c \in {SynthesizedRag, SynthesizedLoop, SynthesizedChain}}
=============================================================================
