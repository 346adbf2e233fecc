-------------------------- MODULE AnthropicDecoder --------------------------
(***************************************************************************)
(* The stream decoder of codec/anthropic (decode_stream.go): its frames    *)
(* are close to ir events and pass one by one; only the terminator is made *)
(* up when it is missing.                                                  *)
(***************************************************************************)
EXTENDS Events

New == [stopped |-> FALSE, out |-> <<>>]

DeltaEvent(kind) ==
  CASE kind = "text" -> "text_delta"
    [] kind = "thinking" -> "thinking_delta"
    [] kind = "input_json" -> "tool_input"

(* A start that brings the whole input is a start and one delta.           *)
Start(d, f) ==
  LET begun == Emit(d, BlockStart(f.index, f.kind, f.id))
  IN  IF f.text = <<>> THEN begun ELSE Emit(begun, DeltaOf("tool_input", f.index, f.text))

Delta(f) ==
  IF f.kind = "signature" THEN Signature(f.index, "anthropic")
  ELSE DeltaOf(DeltaEvent(f.kind), f.index, f.text)

Feed(d, f) ==
  CASE f.type = "content_block_start" -> Start(d, f)
    [] f.type = "content_block_delta" -> Emit(d, Delta(f))
    [] f.type = "content_block_stop" -> Emit(d, BlockStop(f.index))
    [] f.type = "message_delta" -> Emit(d, MessageDelta(f.stop))
    [] f.type = "message_stop" -> Emit([d EXCEPT !.stopped = TRUE], Event("message_stop"))
    [] f.type \in {"message_start", "ping", "error"} -> Emit(d, Event(f.type))

Finish(d) == IF d.stopped THEN d ELSE Emit([d EXCEPT !.stopped = TRUE], Event("message_stop"))
=============================================================================
