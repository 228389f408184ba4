------------------------------ MODULE MCReplies ------------------------------
(* A small instance of Replies: a batch of texts and a batch for the chat bot. *)
EXTENDS Replies, TLC

CONSTANTS talk, bots, s1, s2, none, k1, k2, c1, d2

MCKind == (talk :> "message") @@ (bots :> "keyword")
Said(text) == [text |-> text, to |-> 1]
MCContent == (talk :> <<Said("ask"), Said("robot"), Said("malformed"), Said("chat")>>) @@ (bots :> <<Said("ask")>>)
MCType == (k1 :> "message") @@ (k2 :> "message") @@ (c1 :> "keyword") @@ (d2 :> "keyword")
MCMyOf == (k1 :> s1) @@ (k2 :> s1) @@ (c1 :> s1) @@ (d2 :> s2)
MCInitLinks == (1 :> [open |-> TRUE, my |-> s1]) @@ (2 :> [open |-> FALSE, my |-> s2])
=============================================================================
