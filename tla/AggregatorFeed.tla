--------------------------- MODULE AggregatorFeed ---------------------------
(***************************************************************************)
(* The aggregator under a stream: an upstream sends events, its blocks     *)
(* interleaved at will but each started before it ends, used once and left *)
(* alone once ended (InOrder), stops at any point, and bridge.finish       *)
(* (pipeline/bridge.go) judges what was collected.  Beside the aggregator, *)
(* "sent" keeps what the upstream really did to the block of each index,   *)
(* so that the verdict can be compared with the truth.                     *)
(***************************************************************************)
EXTENDS Aggregator

CONSTANT Sent     \* the events this upstream may send, a subset of Events

ASSUME SentAssumption == Sent \subseteq Events

VARIABLES agg,      \* the Aggregator
          sent,     \* [Indexes -> what the upstream did to the current block]
          verdict   \* "" while streaming, then "refused", "normal", "too large"

vars == <<agg, sent, verdict>>

(* The current block of an index as the upstream sent it.                  *)
Nothing == [kind |-> "none", input |-> "", signed |-> FALSE, closed |-> FALSE]

Init == agg = Empty /\ sent = [i \in Indexes |-> Nothing] /\ verdict = ""

(* The kind of block a delta opens on an index nobody started.             *)
Implied(ev) ==
  CASE ev.type = "tool_input" -> "tool_use"
    [] ev.type \in {"thinking_delta", "signature_delta"} -> "thinking"
    [] OTHER -> "text"

KindAfter(was, ev) ==
  IF was.kind = "none" /\ ev.type # "block_stop" THEN Implied(ev) ELSE was.kind

BlockAfter(was, ev) ==
  IF ev.type = "block_start"
  THEN [Nothing EXCEPT !.kind = ev.kind, !.signed = Signs(ev.own)]
  ELSE [kind   |-> KindAfter(was, ev),
        input  |-> IF ev.type = "tool_input" THEN Joined(was.input, ev.part) ELSE was.input,
        signed |-> was.signed \/ ev.type = "signature_delta",
        closed |-> was.closed \/ ev.type = "block_stop"]

SentAfter(ev) ==
  IF "index" \in DOMAIN ev THEN [sent EXCEPT ![ev.index] = BlockAfter(@, ev)] ELSE sent

(* An upstream starts a block before it ends it, sends nothing for a block *)
(* it has ended, and starts no second block on an index it has used.       *)
InOrder(ev) ==
  "index" \in DOMAIN ev =>
    CASE ev.type = "block_start" -> sent[ev.index].kind = "none"
      [] ev.type = "block_stop" -> sent[ev.index].kind # "none" /\ ~sent[ev.index].closed
      [] OTHER -> ~sent[ev.index].closed

(* The bridge takes one event; a tripped limit ends the stream there.      *)
Receive ==
  /\ verdict = ""
  /\ \E ev \in Sent :
       /\ InOrder(ev)
       /\ agg' = Add(agg, ev)
       /\ sent' = SentAfter(ev)
       /\ verdict' = IF Overflow(agg') THEN "too large" ELSE ""

(* finish: refuse what is unsafe to close, mark an open end as truncated.  *)
Finish ==
  /\ verdict = ""
  /\ verdict' = IF UnsafeToClose(agg) # {} THEN "refused" ELSE "normal"
  /\ agg' = IF UnsafeToClose(agg) = {} /\ HasOpenBlocks(agg) /\ StopReason(agg) = ""
            THEN Add(agg, MessageDelta("max_tokens"))
            ELSE agg
  /\ UNCHANGED sent

Ended == verdict # "" /\ UNCHANGED vars

Next == Receive \/ Finish \/ Ended

Spec == Init /\ [][Next]_vars

-----------------------------------------------------------------------------
(* Properties                                                              *)

(* The aggregator and the history keep their types, and the gates hold: no *)
(* more content and no more blocks than the limits are ever kept, and      *)
(* every block that is kept is in the order.                               *)
TypeOK ==
  /\ agg.order \subseteq Indexes /\ agg.closed \subseteq Indexes
  /\ agg.sawInput \subseteq Indexes /\ agg.stop \in StopReasons
  /\ agg.overflow \in BOOLEAN
  /\ \A i \in Indexes : agg.blocks[i] \in Block \cup {NoBlock}
  /\ agg.content <= MaxContent
  /\ Cardinality(agg.order) <= MaxBlocks
  /\ agg.order = {i \in Indexes : agg.blocks[i] # NoBlock}

(* A block the stream cut off: a tool call whose input stopped half way,   *)
(* or reasoning without its signature whose end never came.                *)
CutCall(b) == b.kind = "tool_use" /\ b.input \notin {"", "whole"}
CutThinking(b) == b.kind = "thinking" /\ ~b.signed /\ ~b.closed
Cut(b) == CutCall(b) \/ CutThinking(b)

(* A stream is judged by what the upstream did: it is refused exactly when *)
(* some block of it was cut off.  Neither is a poisonous block delivered   *)
(* as part of a complete answer, nor a good answer thrown away.            *)
VerdictIsJust ==
  /\ verdict = "refused" => \E i \in Indexes : Cut(sent[i])
  /\ verdict = "normal" => \A i \in Indexes : ~Cut(sent[i])

(* A tool turn is announced as one, unless the content filter spoke; and   *)
(* an answer that ended in the middle of a block is never given the empty  *)
(* stop reason a client takes for the end of the turn.                     *)
StopReasonIsHonest ==
  verdict = "normal" =>
    /\ (\E i \in Indexes : sent[i].kind \in {"tool_use", "custom"}) /\ agg.stop # "content_filter"
         => StopReason(agg) = "tool_use"
    /\ (\E i \in Indexes : sent[i].kind # "none" /\ ~sent[i].closed) => StopReason(agg) # ""
=============================================================================
