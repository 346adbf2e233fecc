\* Upstreams that send empty tool input; a call without arguments is enough.
CONSTANTS
  MaxBlocks = 1
  MaxFrames <- FewFrames
  GatherFrames <- FewFrames
  EmptyFragments = TRUE
SPECIFICATION Spec
INVARIANTS
  CallsExecutable
