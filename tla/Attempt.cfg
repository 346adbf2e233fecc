\* Everything an attempt can meet: three frames over a channel of one, two
\* block indexes under a limit of one block, cancellation, budget expiry and
\* an upstream that may fall silent at any point while keep-alives go out.
CONSTANTS
  Indexes <- TwoIndexes
  MaxBlocks = 1
  MaxContent = 3
  ChanCap = 1
  FirstToken = 1
  Idle = 2
  MaxFrames = 3
  Frames <- MixedFrames
  Replies <- WholeReplies
  SpokenErrors = {"rate_limit", "content_filter", "context_exceeded"}
  ClosesAtEnd = FALSE
  CanLeave = TRUE
SPECIFICATION FairSpec
INVARIANTS
  TypeOK
  ResultAllowed
  NormalMeansWhole
  TruncationIsSaid
  TeardownNamesItsCause
  NotesAfterReader
PROPERTIES
  AnsweredOnce
  EveryStreamEnds
  ReaderLetsGo
