\* Every upstream protocol with every client protocol: two blocks of two tokens, five to seven
\* frames, and no upstream that sends empty tool input.
CONSTANTS
  MaxBlocks = 2
  MaxFrames <- Frames
  GatherFrames <- GatheredFrames
  EmptyFragments = FALSE
SPECIFICATION Spec
INVARIANTS
  TypeOK
  WellFormed
  SaidOnce
  CallsKeptApart
  EndIsHonest
  CallsExecutable
