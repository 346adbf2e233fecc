---------------------------- MODULE MCTranslation ----------------------------
(* Translation over all twelve pairs of protocols.  The protocols that     *)
(* take more frames to say the same are given more.                        *)
EXTENDS Translation

Frames == [anthropic |-> 7, chat |-> 5, gemini |-> 5, responses |-> 5]
GatheredFrames == [anthropic |-> 6, chat |-> 4, gemini |-> 4, responses |-> 4]
FewFrames == [anthropic |-> 3, chat |-> 3, gemini |-> 3, responses |-> 3]
=============================================================================
