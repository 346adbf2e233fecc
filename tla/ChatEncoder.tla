---------------------------- MODULE ChatEncoder ----------------------------
(***************************************************************************)
(* The stream encoder of codec/chatcompletions (encode_stream.go).  Its    *)
(* chunks have no blocks: a call is a header and argument fragments under  *)
(* an index of its own, and everything the protocol says at the end it     *)
(* says in finish.                                                         *)
(***************************************************************************)
EXTENDS Events, FiniteSets

New == [stopped |-> FALSE, errored |-> FALSE, kinds |-> <<>>, slots |-> <<>>,
        pending |-> {}, stop |-> "", out |-> <<>>]

KindOf(e, i) == IF i \in DOMAIN e.kinds THEN e.kinds[i] ELSE ""

(* skipDelta: a call the upstream runs itself is not the client's.         *)
Skips(e, i) == KindOf(e, i) = "server_tool_use"

(* toolSlot: calls are numbered in the order in which they are seen.       *)
ToolSlot(e, i) ==
  IF i \in DOMAIN e.slots THEN e
  ELSE [e EXCEPT !.slots = With(@, i, Cardinality(DOMAIN @))]

Header(e, i, id) ==
  LET s == ToolSlot(e, i)
  IN  Emit([s EXCEPT !.pending = @ \cup {i}],
           [About("tool_call", s.slots[i]) EXCEPT !.id = id])

Begin(e, ev) ==
  LET s == [e EXCEPT !.kinds = With(@, ev.index, ev.kind)]
  IN  IF ev.kind \in CallKinds THEN Header(s, ev.index, ev.id) ELSE s

Text(e, ev) ==
  Emit(e, [Event(IF KindOf(e, ev.index) = "refusal" THEN "refusal" ELSE "content")
             EXCEPT !.text = ev.text])

Arguments(e, i, text) ==
  LET s == ToolSlot(e, i)
  IN  Emit([s EXCEPT !.pending = @ \ {i}],
           DeltaOf("arguments", s.slots[i], text))

(* A call that never had an argument fragment gets an empty object.        *)
Fill(e, i) == IF i \in e.pending THEN Arguments(e, i, <<0>>) ELSE e

FillAll(e) == Loop(Fill, e, InOrder(e.pending, <))

Ending(e) ==
  Emit(Emit(Emit(FillAll(e), [Event("finish") EXCEPT !.stop = e.stop]), Event("usage")),
       Event("[DONE]"))

Finish(e) == IF e.stopped \/ e.errored THEN e ELSE [Ending(e) EXCEPT !.stopped = TRUE]

(* An error frame brings its own end marker.                               *)
Encode(e, ev) ==
  CASE e.errored -> e
    [] ~e.errored /\ ev.type = "message_start" -> Emit(e, Event("role"))
    [] ~e.errored /\ ev.type = "block_start" -> Begin(e, ev)
    [] ~e.errored /\ ev.type = "text_delta" -> IF Skips(e, ev.index) THEN e ELSE Text(e, ev)
    [] ~e.errored /\ ev.type = "thinking_delta" ->
         IF Skips(e, ev.index) THEN e ELSE Emit(e, [Event("reasoning") EXCEPT !.text = ev.text])
    [] ~e.errored /\ ev.type = "tool_input" ->
         IF Skips(e, ev.index) THEN e ELSE Arguments(e, ev.index, ev.text)
    [] ~e.errored /\ ev.type = "block_stop" -> Fill(e, ev.index)
    [] ~e.errored /\ ev.type = "message_delta" ->
         IF ev.stop = "" THEN e ELSE [e EXCEPT !.stop = ev.stop]
    [] ~e.errored /\ ev.type = "message_stop" -> Finish(e)
    [] ~e.errored /\ ev.type = "error" ->
         Emit(Emit([e EXCEPT !.errored = TRUE], Event("error")), Event("[DONE]"))
    [] ~e.errored /\ ev.type \in {"signature_delta", "ping"} -> e
=============================================================================
