---------------------------- MODULE WholeAnswers ----------------------------
(***************************************************************************)
(* An upstream may answer a request for a stream with one body.  The body  *)
(* goes through its protocol's DecodeResponse, and ir.ResponseEvents       *)
(* (ir/replay.go) makes of the result the events a stream would have had.  *)
(*                                                                         *)
(* A body is [status, items, stop]: the items in the order in which the    *)
(* body has them, each with its kind, id and text, and with a signature or *)
(* without.  A status other than "ok" is an error, or an answer that is    *)
(* still being written.                                                    *)
(***************************************************************************)
EXTENDS Events

Response(content, stop) == [content |-> content, stop |-> stop]
Undecodable == Response(<<>>, "undecodable")

(* Who signed a block: the protocol, if anybody did.                       *)
SignedBy(name, item) ==
  [kind |-> item.kind, id |-> item.id, text |-> item.text,
   signer |-> IF item.signed THEN name ELSE ""]
AllSignedBy(name, items) == [n \in DOMAIN items |-> SignedBy(name, items[n])]

HasKind(items, kinds) == \E n \in DOMAIN items : items[n].kind \in kinds

(* An object that has none of a message's fields is an empty message.      *)
DecodeAnthropic(body) ==
  IF body.status = "ok" THEN Response(AllSignedBy("anthropic", body.items), body.stop)
  ELSE Response(<<>>, "")

(* A chat message has one field per kind, read in this order.              *)
DecodeChat(body) ==
  LET of(kinds) == Filter(AllSignedBy("chat", body.items), LAMBDA b : b.kind \in kinds)
  IN  IF body.status # "ok" THEN Undecodable
      ELSE Response(of({"thinking"}) \o of({"text"}) \o of({"refusal"}) \o of(CallKinds), body.stop)

(* A call without an id is given one; calls turn a normal end into theirs. *)
DecodeGemini(body) ==
  LET content == [n \in DOMAIN body.items |->
                    LET b == SignedBy("gemini", body.items[n])
                    IN  IF b.kind = "tool_use" /\ b.id = "" THEN [b EXCEPT !.id = "synth"] ELSE b]
  IN  CASE body.status # "ok" -> Undecodable
        [] body.status = "ok" /\ HasKind(content, CallKinds) /\ body.stop \in {"", "end_turn"} ->
             Response(content, "tool_use")
        [] OTHER -> Response(content, body.stop)

(* stopReasonFor: the body says why it is incomplete, otherwise the output *)
(* tells how it ended, a refusal before a call.                            *)
StopReasonFor(body) ==
  CASE body.stop = "max_tokens" -> "max_tokens"
    [] body.stop # "max_tokens" /\ HasKind(body.items, {"refusal"}) -> "content_filter"
    [] body.stop # "max_tokens" /\ ~HasKind(body.items, {"refusal"})
         /\ HasKind(body.items, CallKinds) -> "tool_use"
    [] OTHER -> "end_turn"

DecodeResponses(body) ==
  IF body.status # "ok" THEN Undecodable
  ELSE Response(AllSignedBy("responses", body.items), StopReasonFor(body))

DecodeResponse(from, body) ==
  CASE from = "anthropic" -> DecodeAnthropic(body)
    [] from = "chat" -> DecodeChat(body)
    [] from = "gemini" -> DecodeGemini(body)
    [] from = "responses" -> DecodeResponses(body)

-----------------------------------------------------------------------------
DeltaFor(kind) ==
  CASE kind \in {"text", "refusal"} -> "text_delta"
    [] kind = "thinking" -> "thinking_delta"
    [] OTHER -> "tool_input"

(* blockEvents: the block without its content, which follows as deltas, if *)
(* there is any.                                                           *)
BlockEvents(i, b) ==
  <<BlockStart(i, b.kind, b.id)>>
    \o (IF b.text = <<>> THEN <<>> ELSE <<DeltaOf(DeltaFor(b.kind), i, b.text)>>)
    \o (IF b.signer = "" THEN <<>> ELSE <<Signature(i, b.signer)>>)
    \o <<BlockStop(i)>>

ResponseEvents(resp) ==
  <<Event("message_start")>>
    \o Concatenated([n \in DOMAIN resp.content |-> BlockEvents(n - 1, resp.content[n])])
    \o <<MessageDelta(resp.stop), Event("message_stop")>>
=============================================================================
