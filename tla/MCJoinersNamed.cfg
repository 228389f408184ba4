CONSTANTS
  r1 = r1  r2 = r2  j1 = j1  j2 = j2  k1 = k1  b1 = b1
  Blank = Blank
  Rooms <- MCRooms
  Linked <- MCRooms
  Joins <- MCJoins
  JoinRoom <- MCJoinRoom
  Mentions <- MCMentions
  Replies = {}
  ReplyRoom <- MCNoReply
  Broadcasts = {}
  BroadcastRooms <- MCNoBroadcast
  BroadcastDue <- MCNoBroadcast
  Interval = 1
  BatchLimit = 1
  MaxNow = 1
  MaxFaults = 0
SPECIFICATION Spec
INVARIANT AllJoinersNamed
