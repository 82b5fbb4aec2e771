----------------------------- MODULE MCGraphLife -----------------------------
(* The graphs of MCGraphValidation from clients, and some with an llm node.   *)
(* From models: a start node, two nodes, a loop and an output in a row, with  *)
(* any of the loop's branches missing or doubled and its configuration        *)
(* missing or wrong; some have an edge with the id of a branch, and one has   *)
(* so many edges that its repair goes over the cap.                           *)
EXTENDS MCGraphValidation, GraphLife

CONSTANTS x, y, nowhere

LifeDrafts ==
  MCGraphs \cup
  { [GraphOf(v, <<u>>, <<t>>, <<v, o, o>>, "loop") EXCEPT !.type[u] = "llm", !.mistral = m] :
      t \in {l, o}, m \in {{}, {u}} }

CandidateOf(st, kindX, kindY, branches, max, fallback, mistaken) ==
  LET edges == <<Edge(st, x, NoHandle), Edge(x, y, NoHandle), Edge(y, l, NoHandle)>> \o branches
  IN
  [type |-> st :> "start" @@ x :> kindX @@ y :> kindY @@ l :> "loop" @@ o :> "output",
   edges |-> edges, ids |-> Numbered(edges),
   max |-> l :> max, fallback |-> l :> fallback, mistral |-> {},
   faulty |-> IF kindX = "rag" THEN {x} ELSE {},
   mistaken |-> IF kindY = "tool" /\ mistaken THEN {y} ELSE {},
   fixable |-> {x}]

MCBranches ==
  { << >>, <<Edge(l, o, "true"), Edge(l, x, "false")>>,
    <<Edge(l, x, NoHandle)>>,
    <<Edge(l, o, "true"), Edge(l, y, "false"), Edge(l, o, "fallback")>>,
    <<Edge(l, o, "true"), Edge(l, y, "false"), Edge(l, x, "fallback"), Edge(l, o, "fallback")>> }

Crowd == <<Edge(x, y, "one"), Edge(x, y, "two"), Edge(x, y, "three")>>

MCCandidates ==
  { CandidateOf(st, kx, ky, b, NoValue, NoValue, m) :
      st \in {s, "start-1"}, kx \in {"llm", "rag"}, ky \in {"tool", "reducer"}, b \in MCBranches,
      m \in BOOLEAN }
  \cup
  { CandidateOf(s, "llm", "tool", b, max, f, FALSE) :
      b \in MCBranches, max \in {1, 51}, f \in {o, nowhere} }
  \cup
  { [CandidateOf(s, "llm", "tool", b, NoValue, NoValue, FALSE) EXCEPT !.ids[1] = <<l, "true">>] :
      b \in MCBranches }
  \cup
  { CandidateOf(s, "llm", "tool", Crowd, NoValue, NoValue, FALSE) }
=============================================================================
