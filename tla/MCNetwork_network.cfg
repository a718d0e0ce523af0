SPECIFICATION FairSpec
CONSTANTS
  Req = {r1, r2}
  Channel = {c1, c2}
  Put = {p1}
  FileSize = {2, 5}
  Greeting <- MCGreeting
  ServerReply <- MCServerReply
  UploadSize = {0, 2}
  BlockSize = 3
  Window = 2
  Replies <- MCReplies
  MaxTalking = 1
  Breaks = TRUE
  NULL = NULL
  Joined = Joined
CHECK_DEADLOCK FALSE
INVARIANT TransfersExact
INVARIANT NothingLeft
INVARIANT ConnectionsOwned
PROPERTY AllEnd
