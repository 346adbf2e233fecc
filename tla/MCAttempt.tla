----------------------------- MODULE MCAttempt -----------------------------
(* Small upstreams for Attempt: what a frame may decode to and what a      *)
(* whole response may project to.                                          *)
EXTENDS Attempt

(* Text that may be cut off, reasoning that may lack its signature, a tool *)
(* call whose input comes in two halves, an announced error, a terminator. *)
MixedFrames ==
  {<<Start(0, "text")>>, <<Start(0, "thinking")>>, <<Start(0, "tool_use"), Input(0, "head")>>,
   <<Input(0, "tail"), Stop(0)>>, <<ErrorEvent("rate_limit")>>,
   <<MessageDelta("end_turn"), Ev("message_stop")>>, <<Start(1, "text")>>}

(* A stream of text is enough where only timing matters.                   *)
TextFrames == {<<Start(0, "text")>>, <<Ev("message_stop")>>}

WholeReplies ==
  {<<Ev("message_start"), Start(0, "text"), Stop(0), MessageDelta("end_turn"), Ev("message_stop")>>,
   <<Ev("message_start"), Start(0, "tool_use"), Input(0, "head"), Stop(0),
     MessageDelta("tool_use"), Ev("message_stop")>>}

OneIndex == {0}
TwoIndexes == {0, 1}
=============================================================================
