----------------------------- MODULE MCHarness ------------------------------
(* A template that repairs, commits and pushes, and one of the same id that *)
(* commits first; two approvals for the commit of the first plan.           *)
EXTENDS Harness, TLC

CONSTANTS p1, p2, g1, g2, c1, c2

Policy(action, gated, attempts) ==
  [action |-> action, gated |-> gated, attempts |-> attempts]

Pushing == <<Policy("test", FALSE, 2), Policy("git_commit", TRUE, 1),
             Policy("git_push", TRUE, 1)>>
Testing == <<Policy("git_commit", TRUE, 1), Policy("test", TRUE, 2)>>

MCVersions == {Pushing, Testing}

MCFor == [g \in {g1, g2} |-> [plan |-> p1, step |-> 2, action |-> "git_commit"]]

Symmetry == Permutations({c1, c2}) \cup Permutations({g1, g2})
=============================================================================
