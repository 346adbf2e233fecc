\* A stream that is cut off in the middle of a text.
CONSTANTS
  MaxBlocks = 1
  MaxFrames <- FewFrames
  GatherFrames <- FewFrames
  EmptyFragments = FALSE
SPECIFICATION Spec
INVARIANTS
  CutOffIsTold
