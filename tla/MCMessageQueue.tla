--------------------------- MODULE MCMessageQueue ---------------------------
(* Two joins of one room whose welcome names its members, a reply to the   *)
(* same room, and a broadcast over two rooms.                              *)
EXTENDS MessageQueue

CONSTANTS r1, r2, j1, j2, k1, b1

MCRooms == {r1, r2}
MCJoins == {j1, j2}
MCJoinRoom == [j \in MCJoins |-> r1]
MCMentions == {r1}
MCReplies == {k1}
MCReplyRoom == [k \in MCReplies |-> r1]
MCBroadcasts == {b1}
MCBroadcastRooms == [b \in MCBroadcasts |-> <<r1, Blank, r2>>]
MCBroadcastDue == [b \in MCBroadcasts |-> 1]
MCNoReply == [k \in {} |-> r1]
MCNoBroadcast == [b \in {} |-> 0]
=============================================================================
