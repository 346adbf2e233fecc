-------------------------- MODULE AnthropicEncoder --------------------------
(***************************************************************************)
(* The stream encoder of codec/anthropic (encode_stream.go).  Its client   *)
(* wants a message_start first, every delta inside a started block, every  *)
(* block stopped, and message_delta and message_stop at the end; whatever  *)
(* of this the events leave out, the encoder makes up.                     *)
(***************************************************************************)
EXTENDS Events

New == [started |-> FALSE, stopped |-> FALSE, errored |-> FALSE, sentDelta |-> FALSE,
        order |-> <<>>, open |-> {}, pending |-> {}, out |-> <<>>]

EnsureStarted(e) ==
  IF e.started THEN e ELSE Emit([e EXCEPT !.started = TRUE], Event("message_start"))

(* A thinking block without a payload is passed over: encodeBlock takes it *)
(* for an empty one.  A call waits for its first input, the others do not. *)
Begin(e, i, kind, id) ==
  LET s == EnsureStarted(e)
  IN  IF kind = "thinking" /\ id = NoPayload THEN s
      ELSE Emit([s EXCEPT !.order = IF i \in e.open THEN @ ELSE Append(@, i),
                          !.open = @ \cup {i},
                          !.pending = IF kind \in CallKinds \cup {"server_tool_use"}
                                      THEN @ \cup {i} ELSE @],
                [About("content_block_start", i) EXCEPT !.kind = kind, !.id = id])

KindForDelta(type) ==
  CASE type = "text_delta" -> "text"
    [] type = "tool_input" -> "tool_use"
    [] OTHER -> "thinking"

WireDelta(type) ==
  CASE type = "text_delta" -> "text"
    [] type = "thinking_delta" -> "thinking"
    [] type = "signature_delta" -> "signature"
    [] type = "tool_input" -> "input_json"

(* encodeDelta: a block nobody started is started first, from a type alone.*)
Delta(e, ev) ==
  LET s == IF ev.index \in e.open THEN e
           ELSE Begin(e, ev.index, KindForDelta(ev.type),
                      IF KindForDelta(ev.type) = "thinking" THEN NoPayload ELSE "")
  IN  Emit(s, [About("content_block_delta", ev.index)
                 EXCEPT !.kind = WireDelta(ev.type), !.text = ev.text])

(* Any delta, an empty one as well, counts as input.  A call nobody        *)
(* started cannot be started from its type: the event fails, and with it   *)
(* the head of the message if it was due.                                  *)
Input(e, ev) ==
  IF ev.index \in e.open THEN [Delta(e, ev) EXCEPT !.pending = @ \ {ev.index}]
  ELSE [e EXCEPT !.started = TRUE]

(* Mutant: a block is stopped as it is.                                    *)
StopPlain(e, i) ==
  Emit([e EXCEPT !.pending = @ \ {i}, !.open = @ \ {i}], About("content_block_stop", i))

(* closeFrames: a call without any input gets an empty object, since a     *)
(* client puts the input together from deltas only.                        *)
Stop(e, i) ==
  LET s == IF i \notin e.pending THEN e
           ELSE Emit([e EXCEPT !.pending = @ \ {i}],
                     [About("content_block_delta", i) EXCEPT !.kind = "input_json", !.text = <<0>>])
  IN  Emit([s EXCEPT !.open = @ \ {i}], About("content_block_stop", i))

CloseAll(e) ==
  Loop(LAMBDA acc, i : IF i \in acc.open THEN Stop(acc, i) ELSE acc, e, e.order)

SendDelta(e, stop) ==
  Emit([e EXCEPT !.sentDelta = TRUE],
       [Event("message_delta") EXCEPT !.stop = IF stop = "" THEN "end_turn" ELSE stop])

MessageStop(e) ==
  IF e.stopped THEN e
  ELSE LET closed == CloseAll(EnsureStarted(e))
           told == IF closed.sentDelta THEN closed ELSE SendDelta(closed, "end_turn")
       IN  Emit([told EXCEPT !.stopped = TRUE], Event("message_stop"))

(* A signature another protocol made is dropped.  "id" says who made it.   *)
Encode(e, ev) ==
  CASE e.errored -> e
    [] ~e.errored /\ ev.type = "message_start" -> EnsureStarted(e)
    [] ~e.errored /\ ev.type = "block_start" -> Begin(e, ev.index, ev.kind, ev.id)
    [] ~e.errored /\ ev.type \in {"text_delta", "thinking_delta"} -> Delta(e, ev)
    [] ~e.errored /\ ev.type = "signature_delta" -> IF ev.id = "anthropic" THEN Delta(e, ev) ELSE e
    [] ~e.errored /\ ev.type = "tool_input" -> Input(e, ev)
    [] ~e.errored /\ ev.type = "block_stop" -> IF ev.index \in e.open THEN Stop(e, ev.index) ELSE e
    [] ~e.errored /\ ev.type = "message_delta" -> SendDelta(CloseAll(EnsureStarted(e)), ev.stop)
    [] ~e.errored /\ ev.type = "message_stop" -> MessageStop(e)
    [] ~e.errored /\ ev.type = "ping" -> Emit(e, Event("ping"))
    [] ~e.errored /\ ev.type = "error" -> Emit([CloseAll(e) EXCEPT !.errored = TRUE], Event("error"))

Finish(e) == IF e.stopped \/ e.errored THEN e ELSE MessageStop(e)
=============================================================================
