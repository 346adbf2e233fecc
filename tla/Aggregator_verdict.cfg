\* Every stream, JSON and free-text tool calls included, over three block indexes
\* under a limit of two blocks and three units of content.
CONSTANTS
  Indexes <- ThreeIndexes
  MaxBlocks = 2
  MaxContent = 3
  Sent <- Events
SPECIFICATION Spec
INVARIANTS
  TypeOK
  VerdictIsJust
  StopReasonIsHonest
