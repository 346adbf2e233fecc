-------------------------- MODULE ResponsesDecoder --------------------------
(***************************************************************************)
(* The stream decoder of codec/responses (decode_stream.go).  Items are    *)
(* addressed by output index and interleave.  Frames that finish a part or *)
(* an item repeat its whole content, which some upstreams send nowhere     *)
(* else: they are used to fill in what is still missing.                   *)
(***************************************************************************)
EXTENDS Events

(* "open" are the slots of the blocks not yet closed, in order; "closed"   *)
(* the keys of those that are.                                             *)
New == [started |-> FALSE, done |-> FALSE, sawError |-> FALSE, next |-> 0, open |-> <<>>,
        closed |-> {}, refused |-> FALSE, custom |-> {}, stop |-> "", out |-> <<>>]

PartKey(output) == [output |-> output, slot |-> "part"]
CallKey(output) == [output |-> output, slot |-> "call"]
ReasoningKey(output) == [output |-> output, slot |-> "reasoning"]

Started(d) ==
  IF d.started THEN d ELSE Emit([d EXCEPT !.started = TRUE], Event("message_start"))

Has(d, key) == \E n \in DOMAIN d.open : d.open[n].key = key
At(d, key) == CHOOSE n \in DOMAIN d.open : d.open[n].key = key
IndexOf(d, key) == d.open[At(d, key)].index

Allocate(d, key) ==
  [d EXCEPT !.next = @ + 1,
            !.open = Append(@, [key |-> key, index |-> d.next, text |-> <<>>, signed |-> FALSE])]

(* slot and slotCall: the block of a key, opened at the first mention.     *)
Slot(d, key, kind, id) ==
  IF Has(d, key) THEN d ELSE Emit(Allocate(d, key), BlockStart(d.next, kind, id))

CallKind(d, output) == IF output \in d.custom THEN "custom" ELSE "tool_use"

(* A delta for an open slot, entered in its account.                       *)
Deliver(d, key, type, text) ==
  Emit([d EXCEPT !.open[At(d, key)].text = @ \o text], DeltaOf(type, IndexOf(d, key), text))

(* A delta event that carries a block with it if need be.                  *)
DeltaFor(d, key, kind, type, text) == Deliver(Slot(Started(d), key, kind, ""), key, type, text)

(* missingSuffix: what a final value adds to what has been delivered; a    *)
(* value that contradicts it adds nothing.                                 *)
Missing(delivered, full) ==
  IF Begins(full, delivered) THEN SubSeq(full, Len(delivered) + 1, Len(full)) ELSE <<>>

(* Mutant: a closed block is filled in, too.                               *)
BackfillClosed(d, key, kind, type, full) ==
  IF full = <<>> THEN d
  ELSE LET s == Slot(d, key, kind, "")
           new == Missing(s.open[At(s, key)].text, full)
       IN  IF new = <<>> THEN s ELSE Deliver(s, key, type, new)

Backfill(d, key, kind, type, full) ==
  IF full = <<>> \/ key \in d.closed THEN d
  ELSE LET s == Slot(d, key, kind, "")
           new == Missing(s.open[At(s, key)].text, full)
       IN  IF new = <<>> THEN s ELSE Deliver(s, key, type, new)

-----------------------------------------------------------------------------
(* The item of a frame: f.index is its output index, f.kind its type, f.id *)
(* its call id or its signature, f.text its content.                       *)

Key(f) ==
  CASE f.kind \in CallKinds -> CallKey(f.index)
    [] f.kind = "thinking" -> ReasoningKey(f.index)
    [] OTHER -> PartKey(f.index)

DeltaType(f) ==
  CASE f.kind \in CallKinds -> "tool_input"
    [] f.kind = "thinking" -> "thinking_delta"
    [] OTHER -> "text_delta"

Noted(d, f) ==
  [d EXCEPT !.custom = IF f.kind = "custom" THEN @ \cup {f.index} ELSE @,
            !.refused = @ \/ f.kind = "refusal"]

(* itemAdded, and content_part.added for the parts of a message: opens the *)
(* block, with the content an opening frame may already have.              *)
Added(d, f) ==
  LET s == Noted(Started(d), f)
  IN  IF Has(s, Key(f)) /\ f.kind \notin {"text", "refusal"} THEN s
      ELSE LET o == Slot(s, Key(f), f.kind, f.id)
               g == IF f.kind = "thinking" /\ f.id # ""
                    THEN [o EXCEPT !.open[At(o, Key(f))].signed = TRUE] ELSE o
           IN  IF f.text = <<>> \/ f.kind = "thinking" THEN g
               ELSE Deliver(g, Key(f), DeltaType(f), f.text)

TakeDelta(d, f) ==
  LET s == Noted(d, f)
      kind == IF f.kind \in CallKinds THEN CallKind(s, f.index) ELSE f.kind
  IN  DeltaFor(s, Key(f), kind, DeltaType(f), f.text)

(* The frames that finish a part.  They neither begin the message nor end  *)
(* a block.                                                                *)
PartDone(d, f) ==
  Backfill(d, Key(f), IF f.kind \in CallKinds THEN "tool_use" ELSE f.kind, DeltaType(f), f.text)

(* Close one block of an item, with the signature it has not shown yet.    *)
CloseSlot(d, s, f) ==
  LET signs == s.key.slot = "reasoning" /\ f.id # "" /\ ~s.signed
  IN  Emit(IF signs THEN Emit(d, Signature(s.index, "responses")) ELSE d, BlockStop(s.index))

(* itemDone: fill in, then close every block of the item.  Only a custom   *)
(* call is opened for its own sake.                                        *)
ItemDone(d, f) ==
  LET noted == Noted(d, [f EXCEPT !.kind = IF f.kind = "refusal" THEN "text" ELSE f.kind])
      opened == IF f.kind = "custom" THEN Slot(noted, Key(f), "custom", "") ELSE noted
      filled == Backfill(opened, Key(f), IF f.kind = "custom" THEN "tool_use" ELSE f.kind,
                         DeltaType(f), f.text)
      mine == Filter(filled.open, LAMBDA s : s.key.output = f.index)
      ended == Loop(LAMBDA acc, s : CloseSlot(acc, s, f), filled, mine)
  IN  [ended EXCEPT !.open = Filter(@, LAMBDA s : s.key.output # f.index),
                    !.closed = @ \cup {mine[n].key : n \in DOMAIN mine}]

-----------------------------------------------------------------------------
CloseAll(d) ==
  [Loop(LAMBDA acc, s : Emit(acc, BlockStop(s.index)), d, d.open)
     EXCEPT !.open = <<>>, !.closed = @ \cup {d.open[n].key : n \in DOMAIN d.open}]

(* The stop reason of the final frame; a refusal that was seen turns a     *)
(* normal end into a filtered one.                                         *)
StopReason(d, stop) ==
  CASE d.refused /\ stop \in {"", "end_turn"} -> "content_filter"
    [] ~d.refused /\ stop = "" -> "end_turn"
    [] OTHER -> stop

Complete(d, f) ==
  IF d.done THEN d
  ELSE LET closed == CloseAll(Started([d EXCEPT !.done = TRUE]))
           failed == IF f.type = "failed" /\ ~d.sawError
                     THEN Emit([closed EXCEPT !.sawError = TRUE], Event("error")) ELSE closed
       IN  Emit(Emit(failed, MessageDelta(StopReason(d, f.stop))), Event("message_stop"))

(* Mutant: an error behind the final frame is swallowed.                   *)
ErrorBeforeEnd(d) ==
  IF d.done THEN d ELSE Emit([d EXCEPT !.done = TRUE, !.sawError = TRUE], Event("error"))

(* An error ends the stream, and is passed on even behind the final frame. *)
ErrorFrame(d) ==
  IF d.sawError THEN [d EXCEPT !.done = TRUE]
  ELSE Emit([d EXCEPT !.done = TRUE, !.sawError = TRUE], Event("error"))

Feed(d, f) ==
  CASE f.type = "created" -> Started(d)
    [] f.type = "added" -> Added(d, f)
    [] f.type = "delta" -> TakeDelta(d, f)
    [] f.type = "part_done" -> PartDone(d, f)
    [] f.type = "item_done" -> ItemDone(d, f)
    [] f.type \in {"completed", "incomplete", "failed"} -> Complete(d, f)
    [] f.type = "error" -> ErrorFrame(d)

Finish(d) == Complete(d, Event("eof"))
=============================================================================
