CONSTANTS
  r1 = r1  r2 = r2  j1 = j1  j2 = j2  k1 = k1  b1 = b1
  Blank = Blank
  Rooms <- MCRooms
  Linked <- MCRooms
  Joins <- MCJoins
  JoinRoom <- MCJoinRoom
  Mentions <- MCMentions
  Replies <- MCReplies
  ReplyRoom <- MCReplyRoom
  Broadcasts <- MCBroadcasts
  BroadcastRooms <- MCBroadcastRooms
  BroadcastDue <- MCBroadcastDue
  Interval = 1
  BatchLimit = 1
  MaxNow = 1
  MaxFaults = 1
SPECIFICATION FairSpec
INVARIANTS
  SendsPaid
  NamesCommitted
  StrandedByFaults
PROPERTIES DueClaimed
