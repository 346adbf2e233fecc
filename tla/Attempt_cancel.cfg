\* A client that leaves while the upstream request is in flight.
CONSTANTS
  Indexes <- OneIndex
  MaxBlocks = 1
  MaxContent = 3
  ChanCap = 1
  FirstToken = 1
  Idle = 2
  MaxFrames = 1
  Frames <- TextFrames
  Replies <- WholeReplies
  SpokenErrors = {"rate_limit"}
  ClosesAtEnd = FALSE
  CanLeave = TRUE
SPECIFICATION Spec
INVARIANT CancelBeforeCommitIsNoFailure
