-------------------------- MODULE StandaloneRunner --------------------------
(***************************************************************************)
(* The exporter's check of a graph, and the program that an export writes, *)
(* which interprets the graph on its own.                                  *)
(*                                                                         *)
(* The program has one count, iteration, that a loop compares with its     *)
(* limit but no loop counts up: only a reducer can.                        *)
(***************************************************************************)
EXTENDS ForgeGraph

CONSTANT MaxSteps      \* CAPS: max_nodes * max_loop_iterations

ASSUME StepsAssumption == MaxSteps \in Nat

\* Mutant: a loop has its branches, maybe more than once.
ExportableLoosely(g) ==
  /\ WellFormed(g)
  /\ \A n \in Nodes(g) :
       CASE g.type[n] = "output" -> TRUE
         [] g.type[n] = "loop" -> \A h \in {"true", "false", "fallback"} : Targets(g, n, h) # {}
         [] OTHER -> Cardinality(Out(g, n)) = 1

\* The contract once more, one way out of every node, and one for each branch of a
\* loop.
Exportable(g) ==
  /\ WellFormed(g)
  /\ \A n \in Nodes(g) :
       CASE g.type[n] = "output" -> TRUE
         [] g.type[n] = "loop" ->
              /\ Cardinality(Out(g, n)) = 3
              /\ \A h \in {"true", "false", "fallback"} : Targets(g, n, h) # {}
         [] OTHER -> Cardinality(Out(g, n)) = 1

\* The program knows the handles of loops and no other, on any edge.
KnownHandles(g) == \A e \in Edges(g) : e.handle \in {NoHandle, "true", "false", "fallback"}

\* What the program checks of its graph before it runs.  It knows the providers
\* that the exporter's check knows, but for Mistral.
Starts(g) ==
  /\ WithinCaps(g) /\ OneOf(g, "start") /\ OneOf(g, "output")
  /\ Joined(g) /\ KnownHandles(g)
  /\ g.mistral = {}
  /\ \A l \in Loops(g) : g.max[l] \in 1 .. MaxLoopIterations /\ LoopRouted(g, l)

\* The handles that a node may ask for with this count.
AskedHandles(g, n, count) ==
  IF g.type[n] # "loop" THEN {NoHandle}
  ELSE IF count >= g.max[n] THEN {"fallback"} ELSE {"true", "false"}

\* The edges that the program finds: all of a node, those with its handle of a
\* loop; and where the first of them leads.
Routes(g, n, handle) ==
  {i \in Out(g, n) : g.type[n] = "loop" => g.edges[i].handle = handle}

Followed(g, n, handle) == g.edges[Min(Routes(g, n, handle))].target

\* A run: its node, its steps and the count, or how it ended.
RunStart(g) == [at |-> Start(g), steps |-> 0, count |-> 0]
EndedRun(how) == [end |-> how]

Going(r) == "at" \in DOMAIN r

\* What the run is after one more node: that fails, or goes on to the next one.
RunSteps(g, r) ==
  IF g.type[r.at] = "output" THEN {EndedRun("succeeded")}
  ELSE IF r.steps = MaxSteps THEN {EndedRun("limit")}
  ELSE {EndedRun("failed")} \cup
    UNION { IF Cardinality(Routes(g, r.at, h)) # 1 THEN {EndedRun("invalid route")}
            ELSE { [at |-> Followed(g, r.at, h), steps |-> r.steps + 1, count |-> k] :
                     k \in IF g.type[r.at] = "reducer" THEN {r.count, r.count + 1}
                           ELSE {r.count} } : h \in AskedHandles(g, r.at, r.count) }
=============================================================================
