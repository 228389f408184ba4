----------------------------- MODULE MCSendPath -----------------------------
(* A small instance of SendPath: two messages with one reply each. *)
EXTENDS SendPath, TLC

CONSTANTS m1, m2

MCReplies == (m1 :> 1) @@ (m2 :> 1)
=============================================================================
