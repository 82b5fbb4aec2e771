--------------------------- MODULE MCEventStream ----------------------------
(* Two clients with a queue of two events each, three events and two messages *)
(* per connection.                                                           *)
EXTENDS EventStream

CONSTANTS c1, c2
=============================================================================
