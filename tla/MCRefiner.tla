----------------------------- MODULE MCRefiner ------------------------------
(* One file; the second suggestion starts from the text that the first one *)
(* puts there.  Each has a gate of its own.                                *)
EXTENDS Refiner, TLC

CONSTANTS s1, s2, p1, A, B, C, g1, g2

MCPathOf == s1 :> p1 @@ s2 :> p1
MCOld == s1 :> A @@ s2 :> B
MCNew == s1 :> B @@ s2 :> C
MCFirst == p1 :> A
MCFor == g1 :> s1 @@ g2 :> s2
=============================================================================
