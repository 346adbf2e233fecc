SPECIFICATION Spec
CONSTANT Bodies <- AllBodies
INVARIANT ParamsAccounted NotesTruthful ToolsAccounted BlocksAccounted
          WireAccepted Repaired NothingSaidIsLost UntouchedWhenSound
\* A request whose attempts went to every protocol, or that is refused, is done.
CHECK_DEADLOCK FALSE
