--------------------------- MODULE MCRoomOpening ---------------------------
(* Two joins of a room by one merchant; two codes of another merchant.     *)
EXTENDS RoomOpening, TLC

CONSTANTS l1, l2, r1, r2, u1, c1, c2, m1, m2, s1, p1, p2, p3

MCRoom == [l \in Logs |-> r1]
MCUser == [l \in Logs |-> u1]
MCOwner == [l \in Logs |-> m1]
MCCodeOwner == [c \in Codes |-> [my |-> m2, sub |-> s1]]

ProcessSymmetry == Permutations(Processes)
=============================================================================
