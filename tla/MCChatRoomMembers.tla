------------------------- MODULE MCChatRoomMembers -------------------------
EXTENDS ChatRoomMembers, TLC

Symmetry == Permutations(Users) \cup Permutations(Processes)
=============================================================================
