------------------------------- MODULE MCRelay -------------------------------
(* A small instance of Relay: two handlers that publish two messages each. *)
EXTENDS Relay, TLC

CONSTANTS h1, h2

MCWork == (h1 :> 2) @@ (h2 :> 2)
=============================================================================
