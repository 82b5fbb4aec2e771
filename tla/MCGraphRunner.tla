--------------------------- MODULE MCGraphRunner ----------------------------
(* Eight graphs over a start node s, plain nodes v and u, a loop node l and *)
(* an output o.                                                             *)
EXTENDS GraphRunner, TLC

CONSTANTS s, v, u, l, o

E(n, x, h) == [source |-> n, target |-> x, handle |-> h]

Graph(types, edges, fallback, faulty) ==
  LET loops == {n \in DOMAIN types : types[n] = "loop"} IN
  [type |-> types, edges |-> edges, ids |-> [i \in DOMAIN edges |-> <<"e", i>>], max |-> [n \in loops |-> 2],
   fallback |-> [n \in loops |-> fallback], mistral |-> {}, faulty |-> faulty]

Line == s :> "start" @@ v :> "llm" @@ o :> "output"
Small == s :> "start" @@ v :> "tool" @@ l :> "loop" @@ o :> "output"
Large == Small @@ u :> "reducer"

Straight == <<E(s, v, NoHandle), E(v, o, NoHandle)>>
Into == <<E(s, v, NoHandle), E(v, l, NoHandle)>>

\* A loop as it is meant.
Governed == Graph(Small, Into \o <<E(l, v, "true"), E(l, o, "false"),
                                   E(l, o, "fallback")>>, o, {})

\* Its fallback leads back into the cycle.
Returning == Graph(Small, Into \o <<E(l, v, "true"), E(l, o, "false"),
                                    E(l, v, "fallback")>>, v, {})

\* Two fallback edges, the configured one second.
TwoFallbacks == Graph(Small, Into \o <<E(l, v, "true"), E(l, o, "false"),
                         E(l, v, "fallback"), E(l, o, "fallback")>>, o, {})

\* The cycle v, u has no loop node and the validator does not see it.
Unseen == Graph(Large, <<E(s, v, NoHandle), E(v, l, "other"), E(v, u, NoHandle),
                  E(u, v, NoHandle), E(l, u, "true"), E(l, o, "false"),
                  E(l, o, "fallback")>>, o, {})

\* Refused: no false branch; a fault in a node.
NoFalse == Graph(Small, Into \o <<E(l, v, "true"), E(l, o, "fallback")>>, o, {})
Faulty == Graph(Line, Straight, o, {v})

\* Accepted, and a plain node has two edges, each with a handle of its own.
Undecided == Graph(Line, <<E(s, v, NoHandle), E(v, o, "one"), E(v, o, "two")>>, o, {})

MCGraphs == {Governed, Returning, TwoFallbacks, Unseen, NoFalse, Faulty,
             Undecided, Graph(Line, Straight, o, {})}
=============================================================================
