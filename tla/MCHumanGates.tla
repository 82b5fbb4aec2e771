---------------------------- MODULE MCHumanGates ----------------------------
(* Two gates of two runs and two sessions, two calls in flight.            *)
EXTENDS HumanGates, TLC

CONSTANTS g1, g2, r1, r2, s1, s2, a1

MCBinding == (g1 :> [run |-> r1, session |-> s1, action |-> a1])
          @@ (g2 :> [run |-> r2, session |-> s2, action |-> a1])

Symmetry == Permutations(Caller)
=============================================================================
