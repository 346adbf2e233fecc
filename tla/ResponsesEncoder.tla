-------------------------- MODULE ResponsesEncoder --------------------------
(***************************************************************************)
(* The stream encoder of codec/responses (encode_stream.go).  Every block  *)
(* becomes an output item: added, its parts and deltas, and done with its  *)
(* whole content; the final frame repeats all of it.                       *)
(***************************************************************************)
EXTENDS Events, FiniteSets

(* "items" maps a block index to its item, "order" keeps when they came.   *)
New == [stopped |-> FALSE, errored |-> FALSE, items |-> <<>>, order |-> <<>>,
        skip |-> {}, stop |-> "", out |-> <<>>]

(* openBlock: item, and the part its deltas go to.                         *)
Open(e, i, kind, id) ==
  IF i \in DOMAIN e.items THEN e
  ELSE LET item == [index |-> Len(e.order), kind |-> kind, id |-> id, text |-> <<>>, closed |-> FALSE]
           added == Emit([e EXCEPT !.items = With(@, i, item), !.order = Append(@, i)],
                         [About("item_added", item.index) EXCEPT !.kind = kind, !.id = id])
       IN  IF kind \in CallKinds THEN added ELSE Emit(added, About("part_added", item.index))

(* A call the upstream runs itself opens no item.                          *)
Begin(e, ev) ==
  IF ev.kind = "server_tool_use" THEN [e EXCEPT !.skip = @ \cup {ev.index}]
  ELSE Open(e, ev.index, ev.kind, ev.id)

DeltaFrame(type, kind) ==
  CASE type = "text_delta" -> IF kind = "refusal" THEN "refusal_delta" ELSE "output_text_delta"
    [] type = "thinking_delta" -> "summary_text_delta"
    [] type = "tool_input" -> IF kind = "custom" THEN "custom_input_delta" ELSE "arguments_delta"

KindForDelta(type) ==
  CASE type = "text_delta" -> "text"
    [] type = "thinking_delta" -> "thinking"
    [] type = "tool_input" -> "tool_use"

(* ensureOpen, then the delta; the item's content grows with it.           *)
Delta(e, ev) ==
  IF ev.index \in e.skip THEN e
  ELSE LET s == Open(e, ev.index, KindForDelta(ev.type), "")
           item == s.items[ev.index]
       IN  Emit([s EXCEPT !.items[ev.index].text = @ \o ev.text],
                DeltaOf(DeltaFrame(ev.type, item.kind), item.index, ev.text))

(* Mutant: an item can be closed again.                                    *)
CloseAgain(e, i, status) ==
  IF i \notin DOMAIN e.items THEN e
  ELSE LET item == e.items[i]
           done == [About("item_done", item.index) EXCEPT !.kind = status, !.text = item.text]
           s == [e EXCEPT !.items[i].closed = TRUE]
       IN  IF item.kind \in CallKinds THEN Emit(s, done)
           ELSE Emit(Emit(s, [done EXCEPT !.type = "part_done"]), done)

(* closeBlockAs: part and item are done, each with the whole content.      *)
Close(e, i, status) ==
  IF i \notin DOMAIN e.items \/ (i \in DOMAIN e.items /\ e.items[i].closed) THEN e
  ELSE LET item == e.items[i]
           done == [About("item_done", item.index) EXCEPT !.kind = status, !.text = item.text]
           s == [e EXCEPT !.items[i].closed = TRUE]
       IN  IF item.kind \in CallKinds THEN Emit(s, done)
           ELSE Emit(Emit(s, [done EXCEPT !.type = "part_done"]), done)

CloseAll(e, status) == Loop(LAMBDA acc, i : Close(acc, i, status), e, e.order)

(* renderStatus *)
Final(stop) == IF stop \in {"max_tokens", "content_filter"} THEN "incomplete" ELSE "completed"

Finish(e) ==
  IF e.stopped \/ e.errored THEN e
  ELSE Emit(CloseAll([e EXCEPT !.stopped = TRUE], "completed"),
            [Event(Final(e.stop)) EXCEPT !.stop = e.stop])

(* An error closes the items as incomplete before it is told.              *)
Fail(e) ==
  Emit(Emit([CloseAll(e, "incomplete") EXCEPT !.errored = TRUE], Event("error")), Event("failed"))

Encode(e, ev) ==
  CASE e.errored -> e
    [] ~e.errored /\ ev.type = "message_start" -> Emit(e, Event("created"))
    [] ~e.errored /\ ev.type = "block_start" -> Begin(e, ev)
    [] ~e.errored /\ ev.type \in {"text_delta", "thinking_delta", "tool_input"} -> Delta(e, ev)
    [] ~e.errored /\ ev.type = "block_stop" -> Close(e, ev.index, "completed")
    [] ~e.errored /\ ev.type = "message_delta" ->
         IF ev.stop = "" THEN e ELSE [e EXCEPT !.stop = ev.stop]
    [] ~e.errored /\ ev.type = "message_stop" -> Finish(e)
    [] ~e.errored /\ ev.type = "error" -> Fail(e)
    [] ~e.errored /\ ev.type \in {"signature_delta", "ping"} -> e
=============================================================================
