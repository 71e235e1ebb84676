----------------------------- MODULE MCGateway -----------------------------
(* All handlers, one request at a time: nothing is bounded.                 *)
EXTENDS Gateway
=============================================================================
