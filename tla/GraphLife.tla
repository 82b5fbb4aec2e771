----------------------------- MODULE GraphLife ------------------------------
(***************************************************************************)
(* A graph from its source to its use outside of the server: it comes from *)
(* a client, or is generated from a prompt; it is validated, and exported; *)
(* and the exported program runs.                                          *)
(*                                                                         *)
(* A prompt goes to one model, then to another, and in the end a graph is  *)
(* synthesized: the first that is valid is returned.                       *)
(***************************************************************************)
EXTENDS GraphValidation, GraphGenerator, StandaloneRunner

CONSTANT Candidates   \* what the models may answer

ASSUME CandidatesWellFormed ==
  \A c \in Candidates :
    /\ WellFormed(c) /\ c.edges \in Seq(Edges(c))
    /\ \A n \in c.mistaken : c.type[n] = "tool"

VARIABLES
  source,   \* where the graph is from
  stage,    \* what becomes of it
  run       \* the run of the exported program

life == <<draft, walk, source, stage, run>>

Source == {"client", "mistral", "ollama", "synthesis"}
NoRun == [end |-> "none"]

\* What is made of the models' answers.
Answers == UNION {Repairs(c) : c \in Candidates}

Proposals(s) ==
  CASE s = "client" -> Drafts
    [] s = "synthesis" -> Synthesized
    [] OTHER -> Answers

\* A graph is at hand; the validator starts on it, or fails.
Judged(g) == IF Dangling(g) THEN "refused" ELSE "search"

LifeInit ==
  /\ source \in Source
  /\ draft \in Proposals(source)
  /\ walk = WalkStart(draft) /\ stage = Judged(draft)
  /\ run = NoRun

Search == stage = "search" /\ Step /\ UNCHANGED <<source, stage, run>>

\* The search has ended and the other rules are looked at.
Judge ==
  /\ stage = "search" /\ Ended(walk)
  /\ stage' = IF walk.cyclic = {} /\ RulesKept(draft) THEN "valid" ELSE "refused"
  /\ UNCHANGED <<draft, walk, source, run>>

\* The next model answers, or there is no model left that does.
TryNext ==
  /\ stage = "refused" /\ source \in {"mistral", "ollama"}
  /\ source' \in IF source = "mistral" THEN {"ollama", "synthesis"} ELSE {"synthesis"}
  /\ draft' \in Proposals(source')
  /\ walk' = WalkStart(draft') /\ stage' = Judged(draft')
  /\ UNCHANGED run

\* What a started program comes to: the workspace that it is given may be missing.
Begun(g, workspace) ==
  CASE ~workspace -> EndedRun("no workspace")
    [] workspace /\ Starts(g) -> RunStart(g)
    [] OTHER -> EndedRun("no start")

\* The graph is exported, and the program started; or the export is refused for
\* the configuration of a node, or because the graph is not activated.
Export ==
  /\ stage = "valid"
  /\ \/ Exportable(draft) /\ stage' = "exported"
        /\ \E workspace \in BOOLEAN : run' = Begun(draft, workspace)
     \/ stage' = "kept" /\ UNCHANGED run
  /\ UNCHANGED <<draft, walk, source>>

RunOn ==
  /\ Going(run) /\ run' \in RunSteps(draft, run)
  /\ UNCHANGED <<draft, walk, source, stage>>

LifeNext == Search \/ Judge \/ TryNext \/ Export \/ RunOn

\* The validator runs to its end in one call.
LifeSpec == LifeInit /\ [][LifeNext]_life /\ WF_life(Search)

-----------------------------------------------------------------------------
(* Properties                                                              *)

\* What a repair leaves of the caps and of the ids.
AfterRepair(g) ==
  /\ Cardinality(Nodes(g)) <= MaxNodes
  /\ Cardinality(DOMAIN g.edges) <= MaxEdges + 3 * Cardinality(Loops(g))
  /\ DOMAIN g.ids = DOMAIN g.edges
  /\ \A i, j \in DOMAIN g.ids :
       i # j /\ g.ids[i] = g.ids[j] => g.ids[i] \in Loops(g) \X Branches

\* A search that begins ends, and has then been at every reachable node
\* (validator.py, walk).
SearchCoversGraph == stage = "search" ~> Ended(walk) /\ walk.visited = Reachable(draft)

\* The contract is not looked at again after the repair, which may give an edge
\* the id of another one and the graph more edges than its cap, three for each
\* loop.  Nothing else of the contract is lost in a graph that the validator
\* accepts: its edges still join nodes, and all but those ids are different.
\* Generation never fails: a synthesized graph is valid and keeps the whole
\* contract (generator.py, normalize_and_repair_graph, generate_graph_from_prompt).
GeneratedIsSound ==
  /\ stage \notin {"search", "refused"} => Shaped(draft) /\ AfterRepair(draft)
  /\ source \in {"client", "synthesis"} => WellFormed(draft)
  /\ source = "synthesis" => stage # "refused"

\* An exported program takes the way that the server's runner takes, from every
\* node and for every handle, and never finds no way or two.  In a workspace that
\* is there it refuses to start only for a handle that no loop has, or for a node
\* with Mistral as its provider (validator.py, validate_export;
\* standalone_runner.py.jinja, run, validate_provider, validate_startup).
ExportedRunsAlike ==
  /\ stage = "exported" =>
       \A n \in Nodes(draft) \ {Output(draft)} :
         \A h \in IF n \in Loops(draft) THEN Branches ELSE {NoHandle} :
           /\ Cardinality(Routes(draft, n, h)) = 1
           /\ Followed(draft, n, h) = Choose(draft, n, h)
  /\ run # EndedRun("invalid route")
  /\ run = EndedRun("no start") => ~KnownHandles(draft) \/ draft.mistral # {}
=============================================================================
