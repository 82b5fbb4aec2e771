---------------------------- MODULE MCRunControl ----------------------------
(* One request over HTTP, two over the WebSocket: see MCRunControl.cfg.     *)
EXTENDS RunControl
=============================================================================
