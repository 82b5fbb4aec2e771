---------------------------- MODULE MCGatedCalls ----------------------------
(* Three scenes.  Two requests race for gates: calls of one tool, runs of a  *)
(* script with two texts, and children of one agent, with a gate for each.   *)
(* Two requests race for the budget: calls of the tool in two runs, with two *)
(* gates, while its server is disabled and approved.  And two servers are    *)
(* registered, approved, disabled and saved, and nobody calls them.          *)
EXTENDS GatedCalls, TLC

CONSTANTS s1, s2, t1, c1, c2, r1, r2, v1, v2, a1, g1, g2, g3, g4

MCServerOf == [t \in {t1} |-> s1]
MCFor == (g1 :> [call |-> "mcp", of |-> t1]) @@ (g2 :> [call |-> "tool", of |-> v1])
           @@ (g3 :> [call |-> "rlm", of |-> a1]) @@ (g4 :> [call |-> "mcp", of |-> t1])

\* Gates are in time and not closed (Refuse stands for the others).
InTime == over = {} /\ \A g \in Gate : grant[g] # "closed"

Known(gs) == \A g \in Gate : grant[g] # "none" => g \in gs
Waiting == {c \in Caller : call[c].at \in {"gate", "gated", "starts", "runs"}}

Alone == items[s2] = "absent" /\ stored[s2] = "absent" /\ s2 \in valid

\* Two gates at a time, one run, an approved server, and a tool that needs a gate
\* or, after a restart, is not known.
Acts ==
  /\ Known({g1, g2, g3}) /\ Cardinality({g \in Gate : grant[g] # "none"}) <= 2
  /\ Alone /\ valid = Server /\ revoked = {}
  /\ items[s1] = "approved" /\ stored = items /\ catalog[t1] # "free"
  /\ made[<<r2, s1>>] = 0
  /\ \A c \in Waiting : call[c].at \in {"gate", "gated"} => r2 \notin call[c].runs

\* Nothing but calls.
Calls ==
  /\ Known({g1, g4}) /\ Alone /\ script = v1 /\ children = {}
  /\ \A c \in Waiting : call[c].what.call = "mcp" /\ call[c].gate \in {g1, g4} /\ ~call[c].edited

\* Nothing but the registry.
Listing == Known({}) /\ script = v1 /\ children = {} /\ Waiting = {} /\ made = [k \in Run \X Server |-> 0]

Scenes == InTime /\ (Acts \/ Calls \/ Listing)

Symmetry == Permutations({c1, c2})
=============================================================================
