------------------------- MODULE MCGraphValidation --------------------------
(* Every graph over a start node s, two plain nodes v and u, a loop node l *)
(* and an output o, where v and u have one or two edges in either order;   *)
(* and the same graphs with a plain node in place of the loop.             *)
EXTENDS GraphValidation, TLC

CONSTANTS s, v, u, l, o

Targeted == {v, u, l, o}

Lists == {<<x>> : x \in Targeted}
           \cup {q \in Targeted \X Targeted : q[1] # q[2]}

EdgesOf(n, targets, handles) ==
  [i \in 1 .. Len(targets) |->
     [source |-> n, target |-> targets[i], handle |-> handles[i]]]

Plain == <<NoHandle, "other">>
Handles == <<"true", "false", "fallback">>

Numbered(edges) == [i \in DOMAIN edges |-> <<"e", i>>]

GraphOf(ofS, ofV, ofU, ofL, kind) ==
  LET edges == EdgesOf(s, <<ofS>>, Plain) \o EdgesOf(v, ofV, Plain)
                 \o EdgesOf(u, ofU, Plain) \o EdgesOf(l, ofL, Handles)
  IN
  [type |-> s :> "start" @@ v :> "reducer" @@ u :> "reducer" @@ l :> kind
              @@ o :> "output",
   edges |-> edges, ids |-> Numbered(edges),
   max |-> IF kind = "loop" THEN l :> 1 ELSE <<>>,
   fallback |-> IF kind = "loop" THEN l :> ofL[3] ELSE <<>>,
   mistral |-> {}, faulty |-> {}]

MCGraphs ==
  {GraphOf(ofS, ofV, ofU, <<x, y, o>>, "loop") :
     ofS \in {v, l}, ofV \in Lists, ofU \in Lists, x \in {v, u}, y \in {o, v}}
  \cup
  {GraphOf(v, ofV, ofU, <<x>>, "reducer") :
     ofV \in Lists, ofU \in Lists, x \in {v, o}}
=============================================================================
