---------------------------- MODULE ChatDecoder ----------------------------
(***************************************************************************)
(* The stream decoder of codec/chatcompletions (decode_stream.go).  The    *)
(* protocol has no blocks: text, refusal and reasoning get one block each, *)
(* and the fragments of tool calls are put together by index and by id.    *)
(***************************************************************************)
EXTENDS Events

(* "tools" are the toolSlots ever made, in order; "at" and "byID" point    *)
(* into it.  A slot only "tools" remembers is out of the decoder's reach.  *)
New == [started |-> FALSE, done |-> FALSE, next |-> 0, order |-> <<>>, slots |-> <<>>,
        tools |-> <<>>, at |-> <<>>, byID |-> <<>>, stop |-> "", out |-> <<>>]

EnsureStarted(d) ==
  IF d.started THEN d ELSE Emit([d EXCEPT !.started = TRUE], Event("message_start"))

AllocIndex(d) == [d EXCEPT !.next = @ + 1, !.order = Append(@, d.next)]

(* slot: the block of a key, opened at the first delta for it.  The block  *)
(* has a type and no payload.                                              *)
Slot(d, key, kind) ==
  IF key \in DOMAIN d.slots THEN d
  ELSE Emit([AllocIndex(d) EXCEPT !.slots = With(@, key, d.next)],
            BlockStart(d.next, kind, IF kind = "thinking" THEN NoPayload ELSE ""))

Say(d, key, kind, type, text) ==
  IF text = <<>> THEN d
  ELSE LET s == Slot(d, key, kind) IN Emit(s, DeltaOf(type, s.slots[key], text))

-----------------------------------------------------------------------------
(* Tool calls.  0 stands for "no slot".                                    *)

AtIndex(d, n) == IF n \in DOMAIN d.at THEN d.at[n] ELSE 0

(* Mutant: fragments go by their index alone.                              *)
OwnerByIndex(d, c) == AtIndex(d, c.n)

(* An id that is known goes before the index; an index that comes back     *)
(* with another id has been reused for another call.                       *)
Owner(d, c) ==
  CASE c.id # "" /\ c.id \in DOMAIN d.byID -> d.byID[c.id]
    [] c.id # "" /\ c.id \notin DOMAIN d.byID /\ AtIndex(d, c.n) # 0
         /\ d.tools[AtIndex(d, c.n)].id \notin {"", c.id} -> 0
    [] OTHER -> AtIndex(d, c.n)

NewSlot(d) == [index |-> d.next, id |-> "", named |-> FALSE, announced |-> FALSE, pending |-> <<>>]

(* A fragment without a slot gets one; a known id found under an index     *)
(* that is still free takes that index over as well.                       *)
Located(d, c) ==
  LET s == Owner(d, c)
  IN  CASE s = 0 -> [AllocIndex(d) EXCEPT !.tools = Append(@, NewSlot(d)),
                                          !.at = With(@, c.n, Len(d.tools) + 1)]
        [] s # 0 /\ AtIndex(d, c.n) = 0 -> [d EXCEPT !.at = With(@, c.n, s)]
        [] OTHER -> d

SlotOf(d, c) == IF Owner(d, c) = 0 THEN Len(d.tools) + 1 ELSE Owner(d, c)

(* announce: the start of the block, with an id made up if none came, and  *)
(* the arguments that had to wait for the name.                            *)
Announce(d, s) ==
  LET t == d.tools[s]
      id == IF t.id = "" THEN "synth" ELSE t.id
      begun == Emit([d EXCEPT !.tools[s] = [t EXCEPT !.id = id, !.announced = TRUE, !.pending = <<>>]],
                    BlockStart(t.index, "tool_use", id))
  IN  IF t.pending = <<>> THEN begun ELSE Emit(begun, DeltaOf("tool_input", t.index, t.pending))

Identified(d, s, c) ==
  [d EXCEPT !.tools[s].id = IF c.id = "" THEN @ ELSE c.id,
            !.tools[s].named = @ \/ c.named,
            !.byID = IF c.id = "" THEN @ ELSE With(@, c.id, s)]

TakeCall(d, c) ==
  LET s == SlotOf(d, c)
      k == Identified(Located(d, c), s, c)
      t == k.tools[s]
      kept == [k EXCEPT !.tools[s].pending = @ \o c.args]
  IN  CASE t.announced /\ c.args # <<>> -> Emit(k, DeltaOf("tool_input", t.index, c.args))
        [] ~t.announced -> IF t.named THEN Announce(kept, s) ELSE kept
        [] OTHER -> k

-----------------------------------------------------------------------------
(* announcePending: calls whose name never came are announced all the      *)
(* same, in the order of their blocks, once for every index that leads to  *)
(* them.                                                                   *)
Waiting(d) ==
  InOrder({n \in DOMAIN d.at : ~d.tools[d.at[n]].announced},
          LAMBDA m, n : d.at[m] < d.at[n] \/ (d.at[m] = d.at[n] /\ m < n))

AnnouncePending(d) == Loop(LAMBDA acc, n : Announce(acc, d.at[n]), d, Waiting(d))

CloseAll(d) ==
  LET stopped == Loop(LAMBDA acc, i : Emit(acc, BlockStop(i)), AnnouncePending(d), d.order)
  IN  [stopped EXCEPT !.order = <<>>]

(* A chunk: a delta, and perhaps the finish reason, which ends the blocks; *)
(* the message ends at [DONE], for the usage comes in between.             *)
Chunk(d, f) ==
  LET said == Loop(TakeCall,
                Say(Say(Say(EnsureStarted(d), "reasoning", "thinking", "thinking_delta", f.reasoning),
                    "refusal", "refusal", "text_delta", f.refusal),
                    "text", "text", "text_delta", f.text),
                f.calls)
  IN  IF f.finish = "" THEN said ELSE CloseAll([said EXCEPT !.stop = f.finish])

Finish(d) ==
  IF d.done THEN d
  ELSE LET closed == CloseAll([d EXCEPT !.done = TRUE])
       IN  Emit(Emit(closed, MessageDelta(IF d.stop = "" THEN "end_turn" ELSE d.stop)),
                Event("message_stop"))

Feed(d, f) ==
  CASE f.type = "done" -> Finish(d)
    [] f.type = "error" -> Emit(d, Event("error"))
    [] f.type = "chunk" -> Chunk(d, f)
=============================================================================
