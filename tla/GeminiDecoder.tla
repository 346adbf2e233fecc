--------------------------- MODULE GeminiDecoder ---------------------------
(***************************************************************************)
(* The stream decoder of codec/gemini (decode_stream.go).  A frame holds a *)
(* list of parts without indexes: a block ends where the kind changes, and *)
(* a function call is whole.  Some upstreams send the text so far in every *)
(* frame.  The stream has no terminator.                                   *)
(***************************************************************************)
EXTENDS Events

NoBlock == [index |-> 0, kind |-> ""]

New == [started |-> FALSE, done |-> FALSE, next |-> 0, current |-> NoBlock,
        emitted |-> <<>>, sawCall |-> FALSE, stop |-> "", out |-> <<>>]

Started(d) ==
  IF d.started THEN d ELSE Emit([d EXCEPT !.started = TRUE], Event("message_start"))

CloseCurrent(d) ==
  IF d.current = NoBlock THEN d
  ELSE Emit([d EXCEPT !.current = NoBlock], BlockStop(d.current.index))

SwitchTo(d, kind) ==
  IF d.current.kind = kind THEN d
  ELSE Emit([CloseCurrent(d) EXCEPT !.current = [index |-> d.next, kind |-> kind],
                                    !.next = @ + 1],
            BlockStart(d.next, kind, ""))

(* classifyText: what a frame's text adds to what has been sent on; a      *)
(* frame that repeats it, or goes back behind it, adds nothing.            *)
Growth(emitted, text) ==
  CASE Begins(emitted, text) -> <<>>
    [] emitted # <<>> /\ Begins(text, emitted) -> SubSeq(text, Len(emitted) + 1, Len(text))
    [] OTHER -> text

Text(d, text) ==
  LET new == Growth(d.emitted, text)
      s == SwitchTo([d EXCEPT !.emitted = @ \o new], "text")
  IN  IF new = <<>> THEN d ELSE Emit(s, DeltaOf("text_delta", s.current.index, new))

Thought(d, part) ==
  LET s == SwitchTo(d, "thinking")
      said == IF part.text = <<>> THEN s
              ELSE Emit(s, DeltaOf("thinking_delta", s.current.index, part.text))
  IN  IF part.id = "" THEN said
      ELSE Emit(said, Signature(s.current.index, "gemini"))

(* emitCall: start, input and end in one go.                               *)
Call(d, part) ==
  LET s == [CloseCurrent(d) EXCEPT !.sawCall = TRUE, !.next = @ + 1]
  IN  Emit(Emit(Emit(s, BlockStart(d.next, "tool_use", part.id)),
                DeltaOf("tool_input", d.next, part.text)),
           BlockStop(d.next))

DecodePart(d, part) ==
  CASE part.type = "functionCall" -> Call(d, part)
    [] part.type = "thought" -> Thought(d, part)
    [] part.type = "text" -> Text(d, part.text)

Frame(d, f) ==
  LET s == Loop(DecodePart, Started(d), f.parts)
  IN  IF f.finish = "" THEN s ELSE [s EXCEPT !.stop = f.finish]

Feed(d, f) == IF f.type = "error" THEN Emit(d, Event("error")) ELSE Frame(d, f)

FinishReason(d) ==
  IF d.stop \in {"", "end_turn"} THEN (IF d.sawCall THEN "tool_use" ELSE "end_turn") ELSE d.stop

Finish(d) ==
  IF d.done THEN d
  ELSE Emit(Emit(CloseCurrent([d EXCEPT !.done = TRUE]), MessageDelta(FinishReason(d))),
            Event("message_stop"))
=============================================================================
