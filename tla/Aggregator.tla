----------------------------- MODULE Aggregator -----------------------------
(***************************************************************************)
(* ir.Aggregator (src/backend/ir/aggregate.go): folds the events an        *)
(* upstream streams into one response, and answers what the bridge asks of *)
(* it when the stream ends: did it hit a limit, is some block unsafe to    *)
(* close, is some block open, what is the stop reason.                     *)
(*                                                                         *)
(* A delta is one unit of content.  The materialized text of a tool call's *)
(* input is kept as what json.Valid tells apart: nothing, a prefix, a      *)
(* whole value, or a text no suffix can repair.                            *)
(***************************************************************************)
EXTENDS Naturals, FiniteSets

CONSTANTS Indexes,        \* block indexes the upstream uses
          MaxBlocks,      \* maxBlocks
          MaxContent      \* maxContentBytes, in units of content

ASSUME LimitsAssumption == MaxBlocks \in Nat /\ MaxContent \in Nat

(* The kinds of block the questions tell apart.  "custom" is a tool call   *)
(* whose Kind is ToolCustom: its input is free text, not JSON.             *)
BlockKinds == {"text", "thinking", "tool_use", "custom"}
Inputs == {"", "prefix", "whole", "broken"}
StopReasons == {"", "end_turn", "max_tokens", "tool_use", "content_filter"}

EventTypes == {"message_start", "block_start", "block_stop", "text_delta",
               "thinking_delta", "signature_delta", "tool_input",
               "message_delta", "message_stop"}

(* A block after materialize: its kind, whether it carries a signature,    *)
(* and its tool input.                                                     *)
Block == [kind : BlockKinds, signed : BOOLEAN, input : Inputs]
NoBlock == [kind |-> "none", signed |-> FALSE, input |-> ""]
(* A start signs its block only with a signature in it.                    *)
Signs(own) == own = "signature"
OpenedWith(kind, own) == [kind |-> kind, signed |-> Signs(own), input |-> ""]
Opened(kind) == OpenedWith(kind, "")

(* What the upstream may send.  "part" is the text of a tool input delta:  *)
(* "head" and "tail" join to a JSON value, "free" is text that is none.    *)
(* "own" is what a start brings along, as one unit of content: nothing, a  *)
(* text, or a signature.  No decoder puts a call's input in its start.     *)
Owns == {"", "content", "signature"}
Ev(type) == [type |-> type]
StartWith(i, kind, own) ==
  [type |-> "block_start", index |-> i, kind |-> kind, own |-> own]
Start(i, kind) == StartWith(i, kind, "")
Stop(i) == [type |-> "block_stop", index |-> i]
Delta(type, i) == [type |-> type, index |-> i]
Input(i, part) == [type |-> "tool_input", index |-> i, part |-> part]
MessageDelta(stop) == [type |-> "message_delta", stop |-> stop]

Events == {Ev("message_start"), Ev("message_stop")}
   \cup {Start(i, k) : i \in Indexes, k \in BlockKinds}
   \cup {StartWith(i, k, "content") : i \in Indexes, k \in {"text", "thinking"}}
   \cup {StartWith(i, "thinking", "signature") : i \in Indexes}
   \cup {Stop(i) : i \in Indexes}
   \cup {Delta(t, i) : t \in {"text_delta", "thinking_delta", "signature_delta"}, i \in Indexes}
   \cup {Input(i, p) : i \in Indexes, p \in {"head", "tail", "free"}}
   \cup {MessageDelta(s) : s \in StopReasons}

(* "order" is kept as a set: nothing that is asked depends on the order.   *)
Empty == [order    |-> {},
          blocks   |-> [i \in Indexes |-> NoBlock],
          closed   |-> {},
          sawInput |-> {},
          content  |-> 0,
          overflow |-> FALSE,
          stop     |-> ""]

Joined(input, part) ==
  CASE input = "" /\ part = "head" -> "prefix"
    [] input = "prefix" /\ part = "tail" -> "whole"
    [] OTHER -> "broken"

-----------------------------------------------------------------------------
(* Mutant: one unit too many.                                              *)
AdmitsOneMore(a) == ~a.overflow /\ a.content <= MaxContent

Admits(a) == ~a.overflow /\ a.content + 1 <= MaxContent

(* admit: a delta past the limit is dropped and trips the gate for good.   *)
Admit(a) == IF Admits(a) THEN [a EXCEPT !.content = @ + 1]
                         ELSE [a EXCEPT !.overflow = TRUE]

Known(a, i) == i \in a.order
Full(a) == Cardinality(a.order) >= MaxBlocks

(* block: a delta for an index nobody started opens a block of its kind.   *)
Ensure(a, i, kind) ==
  IF Known(a, i) THEN a
  ELSE IF Full(a) THEN [a EXCEPT !.overflow = TRUE]
  ELSE [a EXCEPT !.order = @ \cup {i}, !.blocks[i] = Opened(kind)]

(* A block begins, in place of the one its index had, and seed counts what *)
(* it brings along; the gate that trips keeps the block.                   *)
AddBlockStart(a, i, kind, own) ==
  LET begun == [a EXCEPT !.order = @ \cup {i}, !.blocks[i] = OpenedWith(kind, own)]
  IN  IF ~Known(a, i) /\ Full(a) THEN [a EXCEPT !.overflow = TRUE]
      ELSE IF own = "" THEN begun ELSE Admit(begun)

(* A content delta: admitted, then written to its block if there is one.   *)
AddDelta(a, i, kind) == IF Admits(a) THEN Ensure(Admit(a), i, kind) ELSE Admit(a)

AddSignature(a, i) ==
  LET b == AddDelta(a, i, "thinking")
  IN  IF Admits(a) /\ Known(b, i) THEN [b EXCEPT !.blocks[i].signed = TRUE] ELSE b

AddInput(a, i, part) ==
  LET b == AddDelta(a, i, "tool_use")
  IN  IF Admits(a) /\ Known(b, i)
      THEN [b EXCEPT !.blocks[i].input = Joined(@, part), !.sawInput = @ \cup {i}]
      ELSE b

Add(a, ev) ==
  CASE ev.type = "block_start" -> AddBlockStart(a, ev.index, ev.kind, ev.own)
    [] ev.type = "block_stop" -> [a EXCEPT !.closed = @ \cup {ev.index}]
    [] ev.type = "text_delta" -> AddDelta(a, ev.index, "text")
    [] ev.type = "thinking_delta" -> AddDelta(a, ev.index, "thinking")
    [] ev.type = "signature_delta" -> AddSignature(a, ev.index)
    [] ev.type = "tool_input" -> AddInput(a, ev.index, ev.part)
    [] ev.type = "message_delta" /\ ev.stop # "" -> [a EXCEPT !.stop = ev.stop]
    [] OTHER -> a

-----------------------------------------------------------------------------
Overflow(a) == a.overflow

(* Mutant: a call without arguments counts as incomplete, too.             *)
IncompleteOrBare(a) ==
  {i \in a.order : a.blocks[i].kind = "tool_use" /\ a.blocks[i].input # "whole"}

(* IncompleteTools: calls that received input which is not valid JSON.  A  *)
(* custom call's Input is a projection that is always valid.               *)
IncompleteTools(a) ==
  {i \in a.sawInput : a.blocks[i].kind = "tool_use" /\ a.blocks[i].input # "whole"}

OpenBlocks(a) == a.order \ a.closed
HasOpenBlocks(a) == OpenBlocks(a) # {}

UnsafeToClose(a) ==
  IncompleteTools(a)
    \cup {i \in OpenBlocks(a) : a.blocks[i].kind = "thinking" /\ ~a.blocks[i].signed}

HasToolUse(a) == \E i \in Indexes : a.blocks[i].kind \in {"tool_use", "custom"}

(* Mutant: the stop reason is passed on as it came.                        *)
StopReasonVerbatim(a) == a.stop

(* Response().StopReason                                                   *)
StopReason(a) ==
  IF HasToolUse(a) /\ a.stop # "content_filter" THEN "tool_use" ELSE a.stop
=============================================================================
