\* An error in the body of an upstream that answers with one body.
CONSTANTS
  MaxBlocks = 1
  MaxFrames <- FewFrames
  GatherFrames <- FewFrames
  EmptyFragments = FALSE
SPECIFICATION Spec
INVARIANTS
  ErrorIsNoAnswer
