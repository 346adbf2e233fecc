------------------------------- MODULE Events -------------------------------
(***************************************************************************)
(* ir.Event (src/backend/ir/events.go), what every stream decoder produces *)
(* and every stream encoder consumes, and the shape this project gives the *)
(* frames of the wire protocols.  Text is a sequence of tokens; formats,   *)
(* usage and the metadata of a response are left out.                      *)
(*                                                                         *)
(* A decoder or an encoder is a record that changes with every event and   *)
(* collects what it produces in its field "out".                           *)
(***************************************************************************)
EXTENDS Naturals, Sequences, FiniteSets, Folds

(* One shape for events and frames: what it is, the block it addresses,    *)
(* the kind and the call id of a block that starts, the text of a delta,   *)
(* a stop reason.                                                          *)
Event(type) == [type |-> type, index |-> 0, kind |-> "", id |-> "", text |-> <<>>, stop |-> ""]
About(type, i) == [Event(type) EXCEPT !.index = i]
BlockStart(i, kind, id) == [About("block_start", i) EXCEPT !.kind = kind, !.id = id]
BlockStop(i) == About("block_stop", i)
DeltaOf(type, i, text) == [About(type, i) EXCEPT !.text = text]
Signature(i, from) == [About("signature_delta", i) EXCEPT !.id = from]

(* A thinking block may start with its payload (ir.Thinking) or without.   *)
(* It has no call id, so the place of the id says which.                   *)
NoPayload == "no payload"

MessageDelta(stop) == [Event("message_delta") EXCEPT !.stop = stop]

(* The block kinds that make a difference to some codec.  "custom" is a    *)
(* tool call with free-text input, "server_tool_use" one the upstream runs *)
(* itself.                                                                 *)
Kinds == {"text", "refusal", "thinking", "tool_use", "custom", "server_tool_use"}
CallKinds == {"tool_use", "custom"}

(* A map with an entry set.                                                *)
With(f, x, v) == [y \in DOMAIN f \cup {x} |-> IF y = x THEN v ELSE f[y]]

(* A loop over a slice: FoldLeft of SequencesExt, over the fold it is      *)
(* defined by.  Every codec instantiates this module, and with it all that *)
(* it extends, so it extends no more than it needs.                        *)
Greatest(I) == CHOOSE i \in I : \A j \in I : i >= j
Loop(Op(_, _), base, s) ==
  MapThenFoldSet(LAMBDA x, y : Op(y, x), base, LAMBDA i : s[i], Greatest, DOMAIN s)

(* One sequence begins with another.                                       *)
Begins(t, s) == Len(s) <= Len(t) /\ SubSeq(t, 1, Len(s)) = s

(* The members of a sequence that pass a test, in their order.             *)
Filter(s, Test(_)) ==
  Loop(LAMBDA acc, x : IF Test(x) THEN Append(acc, x) ELSE acc, <<>>, s)

(* The members of a finite set in an order that is total on them.          *)
InOrder(S, Precedes(_, _)) ==
  [k \in 1..Cardinality(S) |->
     CHOOSE x \in S : Cardinality({y \in S : Precedes(y, x)}) = k - 1]

(* Sequences one behind the other.                                         *)
Concatenated(seqs) == Loop(LAMBDA acc, s : acc \o s, <<>>, seqs)

Emit(s, ev) == [s EXCEPT !.out = Append(@, ev)]
Quiet(s) == [s EXCEPT !.out = <<>>]
=============================================================================
