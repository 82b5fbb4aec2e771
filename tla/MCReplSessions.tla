--------------------------- MODULE MCReplSessions ----------------------------
(* Two sessions, one of which may be open at a time, two cells each, and *)
(* two requests.                                                          *)
EXTENDS ReplSessions

CONSTANTS s1, s2, c1, c2
=============================================================================
