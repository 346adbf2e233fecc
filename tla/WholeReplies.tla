---------------------------- MODULE WholeReplies ----------------------------
(***************************************************************************)
(* A client that did not ask for a stream gets one body, whatever way the  *)
(* upstream answered: the aggregator (ir/aggregate.go) keeps the blocks of *)
(* the answer, and the client protocol's EncodeResponse puts them in a     *)
(* body at the end.                                                        *)
(*                                                                         *)
(* A body is the sequence of its parts, in the shape of the frames of a    *)
(* stream; the index of a part is the place it has in the body.            *)
(***************************************************************************)
EXTENDS Events, FiniteSets

Stream == INSTANCE ResponsesEncoder

(* A block of the answer: the index of the events it is made of, its kind, *)
(* call id and content, and who signed it.                                 *)
Fresh(i, kind, id) ==
  [index |-> i, kind |-> kind, id |-> IF kind = "thinking" THEN "" ELSE id, text |-> <<>>,
   signer |-> IF kind = "thinking" /\ id # NoPayload THEN id ELSE ""]

Known(blocks, i) == \E n \in DOMAIN blocks : blocks[n].index = i
PlaceOf(blocks, i) == CHOOSE n \in DOMAIN blocks : blocks[n].index = i

(* A start puts a new block in the place of one of the same index.         *)
Begun(blocks, new) ==
  IF Known(blocks, new.index) THEN [blocks EXCEPT ![PlaceOf(blocks, new.index)] = new]
  ELSE Append(blocks, new)

(* A delta for a block nobody started opens one of its kind.               *)
Ensured(blocks, i, kind) ==
  IF Known(blocks, i) THEN blocks ELSE Append(blocks, Fresh(i, kind, ""))

Grown(blocks, i, kind, text) ==
  LET all == Ensured(blocks, i, kind) IN [all EXCEPT ![PlaceOf(all, i)].text = @ \o text]

Signed(blocks, i, signer) ==
  LET all == Ensured(blocks, i, "thinking") IN [all EXCEPT ![PlaceOf(all, i)].signer = signer]

Gather(blocks, ev) ==
  CASE ev.type = "block_start" -> Begun(blocks, Fresh(ev.index, ev.kind, ev.id))
    [] ev.type = "text_delta" -> Grown(blocks, ev.index, "text", ev.text)
    [] ev.type = "thinking_delta" -> Grown(blocks, ev.index, "thinking", ev.text)
    [] ev.type = "tool_input" -> Grown(blocks, ev.index, "tool_use", ev.text)
    [] ev.type = "signature_delta" -> Signed(blocks, ev.index, ev.id)
    [] OTHER -> blocks

-----------------------------------------------------------------------------
Part(type, i, b) == [About(type, i) EXCEPT !.kind = b.kind, !.id = b.id, !.text = b.text]
OfKinds(blocks, kinds) == Filter(blocks, LAMBDA b : b.kind \in kinds)

(* anthropic: encodeBlock for every block.  A refusal is a text like any   *)
(* other; reasoning without text and without a signature of this protocol  *)
(* is left out; the input of a call is an object.                          *)
Shell(b) == b.kind = "thinking" /\ b.text = <<>> /\ b.signer # "anthropic"
AnthropicPart(i, b) ==
  CASE b.kind \in {"text", "refusal"} -> Part("text", i, b)
    [] b.kind = "thinking" -> Part("thinking", i, b)
    [] b.kind \in CallKinds \cup {"server_tool_use"} ->
         [Part("call", i, b) EXCEPT !.text = IF @ = <<>> /\ b.kind # "custom" THEN <<0>> ELSE @]

AnthropicBody(blocks, stop) ==
  LET kept == Filter(blocks, LAMBDA b : ~Shell(b))
  IN  [n \in DOMAIN kept |-> AnthropicPart(n - 1, kept[n])]
        \o <<[Event("message_stop") EXCEPT !.stop = IF stop = "" THEN "end_turn" ELSE stop]>>

(* chat: one field for all blocks of a kind, and the calls, numbered.      *)
Field(type, blocks) ==
  IF blocks = <<>> THEN <<>>
  ELSE <<[Event(type) EXCEPT !.text = Concatenated([n \in DOMAIN blocks |-> blocks[n].text])]>>

ChatBody(blocks, stop) ==
  LET calls == OfKinds(blocks, CallKinds)
  IN  Field("reasoning", OfKinds(blocks, {"thinking"}))
        \o Field("refusal", OfKinds(blocks, {"refusal"}))
        \o Field("content", OfKinds(blocks, {"text"}))
        \o [n \in DOMAIN calls |-> Part("call", n - 1, calls[n])]
        \o <<[Event("finish") EXCEPT !.stop = stop]>>

(* responses: texts and refusals that follow each other are parts of one   *)
(* message item, reasoning and calls are items of their own.               *)
ResponsesPartType(kind) ==
  CASE kind \in {"text", "refusal"} -> kind
    [] kind = "thinking" -> "reasoning"
    [] kind \in CallKinds -> "call"

Says(b) == b.kind \in {"text", "refusal"}
StartsItem(blocks, n) == n = 1 \/ ~Says(blocks[n]) \/ ~Says(blocks[n - 1])
ItemOf(blocks, n) == Cardinality({m \in 1..n : StartsItem(blocks, m)}) - 1

ResponsesBody(blocks, stop) ==
  LET kept == OfKinds(blocks, Kinds \ {"server_tool_use"})
  IN  [n \in DOMAIN kept |-> Part(ResponsesPartType(kept[n].kind), ItemOf(kept, n), kept[n])]
        \o <<[Event(Stream!Final(stop)) EXCEPT !.stop = stop]>>

EncodeResponse(to, blocks, stop) ==
  CASE to = "anthropic" -> AnthropicBody(blocks, stop)
    [] to = "chat" -> ChatBody(blocks, stop)
    [] to = "responses" -> ResponsesBody(blocks, stop)
=============================================================================
