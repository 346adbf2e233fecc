----------------------------- MODULE Translation -----------------------------
(***************************************************************************)
(* An answer on its way from an upstream to a client of another protocol:  *)
(* the upstream's frames go through its protocol's decoder, the bridge     *)
(* (pipeline/bridge.go), which holds back the end of the message until the *)
(* answer is known to be complete, and the client protocol's encoder.  The *)
(* upstream is one that keeps to its protocol, with the liberties the      *)
(* decoders' comments grant it; it may fail or break off anywhere, or      *)
(* answer with one body.  The client may want one body, too, which the     *)
(* bridge then puts together at the end.                                   *)
(***************************************************************************)
EXTENDS Events, SequencesExt, FiniteSets

CONSTANTS MaxBlocks,      \* content blocks of an answer
          MaxFrames,      \* frames of an answer, by the upstream's protocol
          GatherFrames,   \* the same for an answer the client wants in one body
          EmptyFragments  \* do upstreams send tool input that is empty?

Protocols == {"anthropic", "chat", "gemini", "responses"}

ASSUME BoundsAssumption ==
  /\ MaxBlocks \in 1..3 /\ EmptyFragments \in BOOLEAN
  /\ MaxFrames \in [Protocols -> Nat] /\ GatherFrames \in [Protocols -> Nat]

VARIABLES
  from,    \* the upstream's protocol
  to,      \* the client's protocol
  stream,  \* call.Stream: the client asked for a stream
  up,      \* what the upstream has said: [opened, blocks, stop, over, failed, cumulative, frames]
  dec,     \* the decoder
  enc,     \* the encoder; enc.out is all the client was sent
  bridge,  \* locals of bridge(): [agg, content, committed, failed, tail, produced]
  phase    \* "open", or how the bridge ended: "normal", "error", "retry"

vars == <<from, to, stream, up, dec, enc, bridge, phase>>

Anthropic == INSTANCE AnthropicDecoder
Chat == INSTANCE ChatDecoder
Gemini == INSTANCE GeminiDecoder
Responses == INSTANCE ResponsesDecoder
ToAnthropic == INSTANCE AnthropicEncoder
ToChat == INSTANCE ChatEncoder
ToResponses == INSTANCE ResponsesEncoder
Whole == INSTANCE WholeAnswers
Gathered == INSTANCE WholeReplies

(* The limits of the aggregator are out of reach here.                     *)
Agg == INSTANCE Aggregator WITH Indexes <- 0..5, MaxBlocks <- 256, MaxContent <- 256

Decoders == [anthropic |-> Anthropic!New, chat |-> Chat!New,
             gemini |-> Gemini!New, responses |-> Responses!New]
Encoders == [anthropic |-> ToAnthropic!New, chat |-> ToChat!New, responses |-> ToResponses!New]

Feed(d, f) ==
  CASE from = "anthropic" -> Anthropic!Feed(d, f)
    [] from = "chat" -> Chat!Feed(d, f)
    [] from = "gemini" -> Gemini!Feed(d, f)
    [] from = "responses" -> Responses!Feed(d, f)

DecoderFinish(d) ==
  CASE from = "anthropic" -> Anthropic!Finish(d)
    [] from = "chat" -> Chat!Finish(d)
    [] from = "gemini" -> Gemini!Finish(d)
    [] from = "responses" -> Responses!Finish(d)

Encode(e, ev) ==
  CASE to = "anthropic" -> ToAnthropic!Encode(e, ev)
    [] to = "chat" -> ToChat!Encode(e, ev)
    [] to = "responses" -> ToResponses!Encode(e, ev)

EncoderFinish(e) ==
  CASE to = "anthropic" -> ToAnthropic!Finish(e)
    [] to = "chat" -> ToChat!Finish(e)
    [] to = "responses" -> ToResponses!Finish(e)

-----------------------------------------------------------------------------
(* What the upstream says.  Token k of block b is 10 * b + k; a block has  *)
(* up to two, which for a call are the head and the tail of its input.     *)

Tokens(b, first, last) == [k \in 1..(last + 1 - first) |-> 10 * b + first + k - 1]
BlockOf(token) == token \div 10
CallId(b) == <<"call 1", "call 2", "call 3">>[b]

(* A block: its kind, how many tokens it has said, whether it was ended,   *)
(* and for a call whether its id and its name were given and the indexes it    *)
(* has gone by (chat).                                                     *)
NewBlock(kind) == [kind |-> kind, said |-> 0, ended |-> FALSE, signed |-> FALSE,
                   ided |-> FALSE, named |-> FALSE, at |-> {}]

Blocks == DOMAIN up.blocks
Latest == Len(up.blocks)
Room == Latest < MaxBlocks
Started(block) == [up EXCEPT !.opened = TRUE, !.blocks = Append(@, block)]
Grown(b, said) == [up EXCEPT !.blocks[b].said = said]

CallsAmong(blocks) == {b \in DOMAIN blocks : blocks[b].kind \in CallKinds}
Calls == CallsAmong(up.blocks)
Complete(block) == block.said \in {0, 2}

RefusedIn(blocks) == from = "responses" /\ \E b \in DOMAIN blocks : blocks[b].kind = "refusal"

(* Why an answer can end: cut short at any time, otherwise with whole      *)
(* calls only.  The final frame of a responses stream may tell of a        *)
(* refusal, or leave it at the refusal in the stream.                      *)
Ordinary(blocks) ==
  CASE RefusedIn(blocks) -> {"content_filter", "end_turn"}
    [] ~RefusedIn(blocks) /\ CallsAmong(blocks) # {} -> {"tool_use"}
    [] OTHER -> {"end_turn"}
Reasons(blocks) ==
  {"max_tokens"} \cup (IF \A b \in CallsAmong(blocks) : Complete(blocks[b]) THEN Ordinary(blocks) ELSE {})

Init ==
  /\ from \in DOMAIN Decoders /\ to \in DOMAIN Encoders /\ stream \in BOOLEAN
  /\ \E cumulative \in (IF from = "gemini" THEN BOOLEAN ELSE {FALSE}) :
       up = [opened |-> FALSE, blocks |-> <<>>, stop |-> "", over |-> FALSE,
             failed |-> FALSE, cumulative |-> cumulative, frames |-> 0]
  /\ dec = Decoders[from] /\ enc = Encoders[to]
  /\ bridge = [agg |-> Agg!Empty, content |-> <<>>, committed |-> FALSE, failed |-> FALSE,
               tail |-> <<>>, produced |-> FALSE]
  /\ phase = "open"

-----------------------------------------------------------------------------
(* The bridge                                                              *)

(* agg.Add.  A signature may come with the start of a thinking block, and  *)
(* an input as one value.                                                  *)
Pieces(t) == CASE t = 0 -> <<"head", "tail">> [] t # 0 -> IF t % 10 = 1 THEN <<"head">> ELSE <<"tail">>
Collect(a, ev) ==
  LET i == ev.index
      own == IF ev.kind = "thinking" /\ ev.id \notin {"", NoPayload} THEN "signature" ELSE ""
  IN  CASE ev.type = "block_start" -> Agg!AddBlockStart(a, i, ev.kind, own)
        [] ev.type = "tool_input" ->
             FoldLeft(LAMBDA acc, piece : Agg!AddInput(acc, i, piece), Agg!Ensure(a, i, "tool_use"),
                      FlattenSeq([k \in DOMAIN ev.text |-> Pieces(ev.text[k])]))
        [] OTHER -> Agg!Add(a, ev)

(* Mutant: everything is held back to the end, as without streaming.       *)
TakeNothing(s, ev) ==
  [s EXCEPT !.b.agg = Collect(@, ev), !.b.committed = TRUE, !.b.tail = Append(@, ev)]

(* One event: errors are noted, the end of the message is kept in tail,    *)
(* anything else is for the client at once, if it wants a stream.  s is    *)
(* [b |-> bridge, e |-> enc].  The content matters to a body only.         *)
TakeEvent(s, ev) ==
  LET taken == [s EXCEPT !.b.agg = Collect(@, ev), !.b.committed = TRUE,
                         !.b.content = IF stream THEN @ ELSE Gathered!Gather(@, ev)]
  IN  CASE ev.type = "error" -> [s EXCEPT !.b.failed = TRUE]
        [] ev.type \in {"message_delta", "message_stop"} -> [taken EXCEPT !.b.tail = Append(@, ev)]
        [] OTHER -> [taken EXCEPT !.e = IF stream THEN Encode(@, ev) ELSE @]

Take(events) ==
  FoldLeft(TakeEvent,
           [b |-> [bridge EXCEPT !.produced = @ \/ events # <<>>], e |-> enc],
           events)

(* A frame from the upstream, after which it has said "next".              *)
FrameBound == IF stream THEN MaxFrames[from] ELSE GatherFrames[from]
Receive(f, next) ==
  /\ phase = "open" /\ up.frames < FrameBound
  /\ up' = [next EXCEPT !.frames = @ + 1]
  /\ \E d \in {Feed(dec, f)} : \E s \in {Take(d.out)} :
       dec' = Quiet(d) /\ bridge' = s.b /\ enc' = s.e
  /\ UNCHANGED <<from, to, stream, phase>>

(* finish(), with the error that ended the stream or without.              *)

(* writeStreamErrorEnd: no end of the message follows the error.  Of a     *)
(* body nothing was written: fail answers with an HTTP error.              *)
EndInError(s) ==
  /\ enc' = IF stream THEN EncoderFinish(Encode(s.e, Event("error"))) ELSE Emit(s.e, Event("error"))
  /\ phase' = "error"

(* Nothing was written yet: another target may do better.                  *)
EndUntold(s) ==
  /\ enc' = s.e
  /\ phase' = "retry"

(* A text cut off is acceptable, but the reason is added behind the tail.  *)
Truncated(b) ==
  IF Agg!HasOpenBlocks(b.agg) /\ Agg!StopReason(b.agg) = ""
  THEN [b EXCEPT !.tail = Append(@, MessageDelta("max_tokens"))] ELSE b

(* writeSuccess: the tail, or the whole answer.                            *)
EndNormally(s) ==
  /\ enc' = LET agg == FoldLeft(Collect, s.b.agg, Truncated(s.b).tail)
            IN  IF stream THEN EncoderFinish(FoldLeft(Encode, s.e, Truncated(s.b).tail))
                ELSE [s.e EXCEPT !.out = Gathered!EncodeResponse(to, s.b.content, Agg!StopReason(agg))]
  /\ phase' = "normal"

(* An answer that cannot be closed as it is ends a stream in error; before *)
(* a body is written, another target may still do better.                  *)
Close(s) ==
  LET unsafe == Agg!UnsafeToClose(s.b.agg) # {}
  IN  \/ ~s.b.committed /\ EndUntold(s)
      \/ s.b.committed /\ (s.b.failed \/ (unsafe /\ stream)) /\ EndInError(s)
      \/ s.b.committed /\ ~s.b.failed /\ unsafe /\ ~stream /\ EndUntold(s)
      \/ s.b.committed /\ ~s.b.failed /\ ~unsafe /\ EndNormally(s)

(* The upstream closes the stream: the decoder makes up the end if it is   *)
(* missing, unless nothing has been decoded at all.                        *)
StreamEnds ==
  /\ phase = "open"
  /\ \E d \in {IF bridge.produced THEN DecoderFinish(dec) ELSE dec} : \E s \in {Take(d.out)} :
       dec' = Quiet(d) /\ bridge' = s.b /\ Close(s)
  /\ UNCHANGED <<from, to, stream, up>>

(* A read error, or nothing comes for too long.                            *)
StreamBreaks ==
  /\ phase = "open"
  /\ LET s == [b |-> bridge, e |-> enc]
     IN  IF bridge.committed THEN EndInError(s) ELSE EndUntold(s)
  /\ UNCHANGED <<from, to, stream, up, dec, bridge>>

-----------------------------------------------------------------------------
(* One body for an answer.  What a protocol can say in it: the kinds, how  *)
(* much of them, and which of them may be signed or lack an id.            *)
WholeBlocks ==
  LET saying(kinds, said) == {[NewBlock(kind) EXCEPT !.said = n, !.ended = TRUE, !.ided = TRUE] :
                                kind \in kinds, n \in said}
      signed(blocks) == blocks \cup {[block EXCEPT !.signed = TRUE] : block \in blocks}
      nameless(blocks) == blocks \cup {[block EXCEPT !.ided = FALSE] : block \in blocks}
  IN  CASE from = "anthropic" -> saying({"text"}, {2}) \cup signed(saying({"thinking"}, {0, 2}))
                                   \cup saying({"tool_use", "server_tool_use"}, {0, 2})
        [] from = "chat" -> saying({"text", "refusal", "thinking"}, {2})
                              \cup nameless(saying({"tool_use"}, 0..2)) \cup saying({"custom"}, {0, 2})
        [] from = "gemini" -> saying({"text"}, {2}) \cup signed(saying({"thinking"}, {0, 2}))
                                \cup nameless(saying({"tool_use"}, {0, 2}))
        [] from = "responses" -> saying({"text", "refusal"}, {2}) \cup signed(saying({"thinking"}, {0, 2}))
                                   \cup saying({"tool_use"}, 0..2) \cup saying({"custom"}, {0, 2})

(* A chat message has a field for all of its text, its refusal and its     *)
(* reasoning.                                                              *)
Expressible(blocks) ==
  from = "chat" => \A m, n \in DOMAIN blocks :
                     blocks[m].kind = blocks[n].kind /\ m # n => blocks[m].kind \in CallKinds

(* Only an anthropic call always has an input, the empty object.           *)
BodyText(b, block) ==
  IF from = "anthropic" /\ block.kind \in {"tool_use", "server_tool_use"} /\ block.said = 0
  THEN <<0>> ELSE Tokens(b, 1, block.said)

BodyOf(answer, status) ==
  [status |-> status, stop |-> answer.stop,
   items |-> [b \in DOMAIN answer.blocks |->
               LET block == answer.blocks[b]
                   called == block.kind \in CallKinds \cup {"server_tool_use"} /\ block.ided
               IN  [kind |-> block.kind, signed |-> block.signed, text |-> BodyText(b, block),
                    id |-> IF called THEN CallId(b) ELSE ""]]]

(* adoptWholeResponse: what can be decoded is replayed, and the stream is  *)
(* at its end; with anything else the attempt has failed before it began.  *)
Adopt(body) ==
  /\ \E resp \in {Whole!DecodeResponse(from, body)} :
       IF resp = Whole!Undecodable
       THEN EndUntold([b |-> bridge, e |-> enc]) /\ UNCHANGED bridge
       ELSE \E s \in {Take(Whole!ResponseEvents(resp))} : bridge' = s.b /\ Close(s)
  /\ UNCHANGED <<from, to, stream, dec>>

Unspoken == phase = "open" /\ up.frames = 0 /\ ~up.cumulative

AnswersWhole ==
  /\ Unspoken
  /\ \E n \in 0..MaxBlocks : \E blocks \in [1..n -> WholeBlocks] :
       /\ Expressible(blocks)
       /\ \E stop \in Reasons(blocks) \cup (IF from = "responses" THEN {} ELSE {""}) :
            LET answer == [up EXCEPT !.opened = TRUE, !.blocks = blocks, !.stop = stop, !.over = TRUE]
            IN  up' = answer /\ Adopt(BodyOf(answer, "ok"))

(* The body is an error, or says that the answer is not ready.             *)
AnswersWithNothing ==
  /\ Unspoken
  /\ up' = [up EXCEPT !.over = TRUE, !.failed = TRUE]
  /\ Adopt(BodyOf(up, "failed"))

-----------------------------------------------------------------------------
(* An upstream of any protocol reports an error; it says no more, only a   *)
(* responses stream may report one behind its end.                         *)
UpstreamFails ==
  /\ ~up.over \/ (from = "responses" /\ up.stop # "")
  /\ Receive(Event("error"), [up EXCEPT !.over = TRUE, !.failed = TRUE])

(* Talking p: the upstream speaks p and has not ended its message.         *)
Talking(p) == from = p /\ ~up.over /\ up.stop = ""

-----------------------------------------------------------------------------
(* anthropic: one block after the other.  message_start and the start of a *)
(* block may be missing.                                                   *)

Between == \A b \in Blocks : up.blocks[b].ended

AnthropicOpens ==
  /\ Talking("anthropic") /\ ~up.opened
  /\ Receive(Event("message_start"), [up EXCEPT !.opened = TRUE])

AnthropicPings ==
  /\ Talking("anthropic") /\ up.frames = 1
  /\ Receive(Event("ping"), up)

AnthropicBlockStart ==
  /\ Talking("anthropic") /\ Between /\ Room
  /\ \E kind \in {"text", "thinking", "tool_use", "server_tool_use"} :
     \E said \in (IF kind = "tool_use" THEN {0, 2} ELSE {0}) :
       LET b == Latest + 1
       IN  Receive([BlockStart(b - 1, kind, IF kind = "tool_use" THEN CallId(b) ELSE "")
                      EXCEPT !.type = "content_block_start", !.text = Tokens(b, 1, said)],
                   Started([NewBlock(kind) EXCEPT !.said = said, !.ided = TRUE, !.named = TRUE]))

AnthropicDeltaKind(kind) ==
  CASE kind \in {"text", "thinking"} -> kind [] OTHER -> "input_json"

AnthropicDelta ==
  /\ Talking("anthropic")
  /\ \E b \in Blocks :
       LET block == up.blocks[b]
           f == [About("content_block_delta", b - 1) EXCEPT !.kind = AnthropicDeltaKind(block.kind)]
       IN  /\ ~block.ended /\ block.said < 2 /\ ~block.signed
           /\ \/ Receive([f EXCEPT !.text = Tokens(b, block.said + 1, block.said + 1)],
                         Grown(b, block.said + 1))
              \/ EmptyFragments /\ block.kind = "tool_use" /\ block.said = 0 /\ Receive(f, up)

AnthropicUnannounced ==
  /\ Talking("anthropic") /\ Between /\ Room
  /\ \E kind \in {"text", "thinking"} :
       LET b == Latest + 1
       IN  Receive([DeltaOf("content_block_delta", b - 1, Tokens(b, 1, 1)) EXCEPT !.kind = kind],
                   Started([NewBlock(kind) EXCEPT !.said = 1]))

AnthropicSigns ==
  /\ Talking("anthropic")
  /\ \E b \in Blocks :
       /\ up.blocks[b].kind = "thinking" /\ ~up.blocks[b].ended /\ ~up.blocks[b].signed
       /\ Receive([About("content_block_delta", b - 1) EXCEPT !.kind = "signature"],
                  [up EXCEPT !.blocks[b].signed = TRUE])

AnthropicBlockStop ==
  /\ Talking("anthropic")
  /\ \E b \in Blocks :
       /\ ~up.blocks[b].ended
       /\ Receive(About("content_block_stop", b - 1), [up EXCEPT !.blocks[b].ended = TRUE])

AnthropicStops ==
  /\ Talking("anthropic") /\ Between /\ up.opened
  /\ \E stop \in Reasons(up.blocks) : Receive(MessageDelta(stop), [up EXCEPT !.stop = stop])

AnthropicEnds ==
  /\ from = "anthropic" /\ up.stop # "" /\ ~up.over
  /\ Receive(Event("message_stop"), [up EXCEPT !.over = TRUE])

AnthropicUpstream ==
  \/ AnthropicOpens \/ AnthropicPings \/ AnthropicBlockStart \/ AnthropicDelta
  \/ AnthropicUnannounced \/ AnthropicSigns \/ AnthropicBlockStop \/ AnthropicStops
  \/ AnthropicEnds

-----------------------------------------------------------------------------
(* chat completions: one text, one refusal, one reasoning, and calls put   *)
(* together from fragments.                                                *)

NoChunk == [type |-> "chunk", reasoning |-> <<>>, refusal |-> <<>>, text |-> <<>>,
            calls |-> <<>>, finish |-> ""]

ChatField(kind) == IF kind = "thinking" THEN "reasoning" ELSE kind

ChatSays ==
  /\ Talking("chat")
  /\ \E kind \in {"text", "refusal", "thinking"} :
       \/ /\ \A b \in Blocks : up.blocks[b].kind # kind
          /\ Room
          /\ Receive([NoChunk EXCEPT ![ChatField(kind)] = Tokens(Latest + 1, 1, 1)],
                     Started([NewBlock(kind) EXCEPT !.said = 1]))
       \/ \E b \in Blocks :
            /\ up.blocks[b].kind = kind /\ up.blocks[b].said < 2
            /\ Receive([NoChunk EXCEPT ![ChatField(kind)] = Tokens(b, 2, 2)], Grown(b, 2))

Holders(n) == {b \in Calls : n \in up.blocks[b].at}
Fragment(b, n, ided, named, text) ==
  [NoChunk EXCEPT !.calls = <<[n |-> n, id |-> IF ided THEN CallId(b) ELSE "",
                               named |-> named, args |-> text]>>]

(* A call begins.  An index is used again only for a call with an id,      *)
(* after a call whose id and name are known.                               *)
ChatCalls ==
  /\ Talking("chat") /\ Room
  /\ \E n \in 0..1, ided, named \in BOOLEAN, said \in 0..1 :
       /\ \A b \in Holders(n) : ided /\ up.blocks[b].ided /\ up.blocks[b].named
       /\ ided \/ named \/ said = 1
       /\ Receive(Fragment(Latest + 1, n, ided, named, Tokens(Latest + 1, 1, said)),
                  Started([NewBlock("tool_use") EXCEPT !.said = said, !.ided = ided,
                                                       !.named = named, !.at = {n}]))

(* A call goes on: its id comes no later than its name; under another      *)
(* index, or one that was used again, it needs its id.                     *)
ChatContinues ==
  /\ Talking("chat")
  /\ \E b \in Calls, n \in 0..1, ided, named \in BOOLEAN, more \in 0..1 :
       LET block == up.blocks[b]
           said == block.said + more
       IN  /\ said <= 2
           /\ more = 1 \/ (named /\ ~block.named)
           /\ named => ~block.named
           /\ ided => block.ided \/ ~block.named
           /\ \/ n \in block.at /\ (\A c \in Holders(n) : c <= b)
              \/ block.ided /\ block.named /\ ided
           /\ Receive(Fragment(b, n, ided, named, Tokens(b, block.said + 1, said)),
                      [up EXCEPT !.blocks[b] =
                        [block EXCEPT !.said = said, !.ided = @ \/ ided, !.named = @ \/ named,
                                      !.at = IF Holders(n) = {} THEN @ \cup {n} ELSE @]])

ChatStops ==
  /\ Talking("chat") /\ up.blocks # <<>>
  /\ \E stop \in Reasons(up.blocks) : Receive([NoChunk EXCEPT !.finish = stop], [up EXCEPT !.stop = stop])

ChatEnds ==
  /\ from = "chat" /\ up.stop # "" /\ ~up.over
  /\ Receive(Event("done"), [up EXCEPT !.over = TRUE])

ChatUpstream == ChatSays \/ ChatCalls \/ ChatContinues \/ ChatStops \/ ChatEnds

-----------------------------------------------------------------------------
(* gemini: text in increments or, from some upstreams, all of it every     *)
(* time; calls come whole.                                                 *)

NoParts == [type |-> "frame", parts |-> <<>>, finish |-> ""]
Parts(type, id, text) == [NoParts EXCEPT !.parts = <<[type |-> type, id |-> id, text |-> text]>>]

GeminiSays ==
  /\ Talking("gemini")
  /\ \/ /\ \A b \in Blocks : up.blocks[b].kind # "text"
        /\ Room
        /\ Receive(Parts("text", "", Tokens(Latest + 1, 1, 1)),
                   Started([NewBlock("text") EXCEPT !.said = 1]))
     \/ \E b \in Blocks :
          LET said == up.blocks[b].said
          IN  /\ up.blocks[b].kind = "text"
              /\ \/ ~up.cumulative /\ said < 2 /\ Receive(Parts("text", "", Tokens(b, 2, 2)), Grown(b, 2))
                 \/ up.cumulative /\ \E n \in said..2 :
                      Receive(Parts("text", "", Tokens(b, 1, n)), Grown(b, n))

GeminiThinks ==
  /\ Talking("gemini") /\ Room
  /\ \A b \in Blocks : up.blocks[b].kind # "thinking"
  /\ \E signature \in {"", "signature"} :
       Receive(Parts("thought", signature, Tokens(Latest + 1, 1, 1)),
               Started([NewBlock("thinking") EXCEPT !.said = 1, !.signed = signature # ""]))

GeminiCalls ==
  /\ Talking("gemini") /\ Room
  /\ \E said \in (IF EmptyFragments THEN {0, 2} ELSE {2}) :
       Receive(Parts("functionCall", CallId(Latest + 1), Tokens(Latest + 1, 1, said)),
               Started([NewBlock("tool_use") EXCEPT !.said = said, !.ided = TRUE, !.named = TRUE]))

GeminiStops ==
  /\ Talking("gemini")
  /\ \E stop \in {"end_turn", "max_tokens"} :
       Receive([NoParts EXCEPT !.finish = stop], [up EXCEPT !.stop = stop, !.over = TRUE])

GeminiUpstream == GeminiSays \/ GeminiThinks \/ GeminiCalls \/ GeminiStops

-----------------------------------------------------------------------------
(* responses: every block an output item; items interleave.  All but calls *)
(* may come without being added, and wholly in the frames that finish them.*)

ResponsesOpens ==
  /\ Talking("responses") /\ ~up.opened
  /\ Receive(Event("created"), [up EXCEPT !.opened = TRUE])

Item(type, b, text) ==
  LET kind == up.blocks[b].kind IN [DeltaOf(type, b - 1, text) EXCEPT !.kind = kind]
NewItem(type, kind, text) == [DeltaOf(type, Latest, text) EXCEPT !.kind = kind]

ResponsesAdds ==
  /\ Talking("responses") /\ Room
  /\ \E kind \in Kinds \ {"server_tool_use"}, said \in {0, 2} :
       /\ said = 2 => kind \in CallKinds
       /\ Receive([NewItem("added", kind, Tokens(Latest + 1, 1, said))
                     EXCEPT !.id = IF kind \in CallKinds THEN CallId(Latest + 1) ELSE ""],
                  Started([NewBlock(kind) EXCEPT !.said = said, !.ided = TRUE, !.named = TRUE]))

ResponsesDelta ==
  /\ Talking("responses")
  /\ \/ \E b \in Blocks :
          LET said == up.blocks[b].said
          IN  /\ ~up.blocks[b].ended /\ said < 2
              /\ Receive(Item("delta", b, Tokens(b, said + 1, said + 1)), Grown(b, said + 1))
     \/ /\ Room
        /\ \E kind \in {"text", "refusal", "thinking"} :
             Receive(NewItem("delta", kind, Tokens(Latest + 1, 1, 1)),
                     Started([NewBlock(kind) EXCEPT !.said = 1]))

(* A part is finished: the frame has all of it.  One may come late.        *)
ResponsesPartDone ==
  /\ Talking("responses")
  /\ \/ \E b \in Blocks :
          \E said \in (IF up.blocks[b].ended THEN {up.blocks[b].said} ELSE {2}) :
            Receive(Item("part_done", b, Tokens(b, 1, said)), Grown(b, said))
     \/ /\ Room
        /\ \E kind \in {"text", "thinking"} :
             Receive(NewItem("part_done", kind, Tokens(Latest + 1, 1, 2)),
                     Started([NewBlock(kind) EXCEPT !.said = 2]))

(* An item is finished: the frame has all of it, and a reasoning item's    *)
(* signature.                                                              *)
ResponsesItemDone ==
  /\ Talking("responses")
  /\ \/ \E b \in Blocks :
          \E said \in {2, up.blocks[b].said} :
            /\ ~up.blocks[b].ended
            /\ Receive([Item("item_done", b, Tokens(b, 1, said))
                          EXCEPT !.id = IF up.blocks[b].kind = "thinking" THEN "signature" ELSE ""],
                       [up EXCEPT !.blocks[b].said = said, !.blocks[b].ended = TRUE])
     \/ /\ Room
        /\ \E kind \in {"text", "thinking"} :
             Receive(NewItem("item_done", kind, Tokens(Latest + 1, 1, 2)),
                     Started([NewBlock(kind) EXCEPT !.said = 2, !.ended = TRUE]))

ResponsesStops ==
  /\ Talking("responses") /\ up.blocks # <<>>
  /\ \/ \E stop \in Reasons(up.blocks) :
          Receive([Event(IF stop = "max_tokens" THEN "incomplete" ELSE "completed") EXCEPT !.stop = stop],
                  [up EXCEPT !.stop = stop])
     \/ Receive(Event("failed"), [up EXCEPT !.over = TRUE, !.failed = TRUE])

(* Behind an error there may be the frame of the failed response.          *)
ResponsesFailsAgain ==
  /\ from = "responses" /\ up.over /\ up.stop = ""
  /\ Receive(Event("failed"), [up EXCEPT !.stop = "failed"])

ResponsesUpstream ==
  \/ ResponsesOpens \/ ResponsesAdds \/ ResponsesDelta \/ ResponsesPartDone
  \/ ResponsesItemDone \/ ResponsesStops \/ ResponsesFailsAgain

-----------------------------------------------------------------------------
Ended == phase # "open" /\ UNCHANGED vars

Next == \/ AnthropicUpstream \/ ChatUpstream \/ GeminiUpstream \/ ResponsesUpstream
        \/ AnswersWhole \/ AnswersWithNothing \/ UpstreamFails \/ StreamEnds \/ StreamBreaks \/ Ended

Spec == Init /\ [][Next]_vars
-----------------------------------------------------------------------------
(* Properties                                                              *)

(* Every variable keeps its type.                                          *)
TypeOK ==
  /\ from \in DOMAIN Decoders /\ to \in DOMAIN Encoders /\ stream \in BOOLEAN
  /\ Len(up.blocks) <= MaxBlocks /\ up.frames <= FrameBound
  /\ \A n \in DOMAIN bridge.content : bridge.content[n].kind \in Kinds
  /\ \A b \in Blocks : up.blocks[b].kind \in Kinds /\ up.blocks[b].said \in 0..2
  /\ DOMAIN dec = DOMAIN Decoders[from] /\ dec.out = <<>> /\ DOMAIN enc = DOMAIN Encoders[to]
  /\ bridge.committed \in BOOLEAN /\ bridge.failed \in BOOLEAN /\ bridge.produced \in BOOLEAN
  /\ \A n \in DOMAIN bridge.tail : bridge.tail[n].type \in {"message_delta", "message_stop"}
  /\ phase \in {"open", "normal", "error", "retry"}

Sent == enc.out
Before(n) == 1..(n - 1)
IsSent(n, type, i) == Sent[n].type = type /\ Sent[n].index = i
Once(type) == \A m, n \in DOMAIN Sent : Sent[m].type = type /\ Sent[n].type = type => m = n

(* Reasoning that no start of a block announced.                           *)
Unstarted(n) ==
  /\ Sent[n].type = "content_block_delta" /\ Sent[n].kind \in {"thinking", "signature"}
  /\ \A m \in Before(n) : ~IsSent(m, "content_block_start", Sent[n].index)

(* What an anthropic client takes for granted: a head; deltas, of the      *)
(* block's kind, within a block that was started once and not yet stopped  *)
(* (but see Unstarted); nothing open when the reason or an error is told.  *)
OpenAt(n, i) ==
  \E m \in Before(n) :
    /\ IsSent(m, "content_block_start", i)
    /\ \A k \in m..(n - 1) : ~IsSent(k, "content_block_stop", i)

OfKind(kind, delta) ==
  CASE delta = "text" -> kind \in {"text", "refusal"}
    [] delta \in {"thinking", "signature"} -> kind = "thinking"
    [] delta = "input_json" -> kind \in CallKinds \cup {"server_tool_use"}

AnthropicFrame(n) ==
  LET f == Sent[n]
  IN  CASE f.type = "content_block_start" ->
             \A m \in Before(n) : ~IsSent(m, "content_block_start", f.index)
        [] f.type = "content_block_delta" /\ ~Unstarted(n) ->
             /\ OpenAt(n, f.index)
             /\ \E m \in Before(n) : IsSent(m, "content_block_start", f.index)
                                     /\ OfKind(Sent[m].kind, f.kind)
        [] f.type = "content_block_stop" -> OpenAt(n, f.index)
        [] f.type \in {"message_delta", "message_stop", "error"} ->
             /\ \A i \in 0..5 : ~OpenAt(n, i)
             /\ f.type = "message_stop" => \E m \in Before(n) : Sent[m].type = "message_delta"
        [] OTHER -> TRUE

AnthropicGrammar ==
  /\ \A n \in DOMAIN Sent :
       /\ AnthropicFrame(n)
       /\ Sent[n].type \notin {"ping", "error"} => \E m \in 1..n : Sent[m].type = "message_start"
       /\ \A m \in Before(n) : Sent[m].type # "error"
                                /\ (Sent[m].type = "message_stop" => Sent[n].type = "message_delta")
  /\ Once("message_start") /\ Once("message_stop")

(* A chat client: a call has one header, the headers count up, arguments   *)
(* follow theirs, and [DONE] is last, behind the reason and the usage or   *)
(* behind an error.                                                        *)
ChatGrammar ==
  /\ \A n \in DOMAIN Sent :
       LET f == Sent[n]
       IN  CASE f.type = "tool_call" ->
                  f.index = Cardinality({m \in Before(n) : Sent[m].type = "tool_call"})
             [] f.type = "arguments" -> \E m \in Before(n) : IsSent(m, "tool_call", f.index)
             [] f.type = "[DONE]" -> n = Len(Sent) /\ Sent[n - 1].type \in {"usage", "error"}
             [] f.type \in {"finish", "error"} -> n >= Len(Sent) - 2
             [] OTHER -> TRUE
  /\ Once("role") /\ Once("finish") /\ Once("error")

(* A responses client: items count up, and every delta is within its item; *)
(* an item is done once, with all that its deltas said, and before the     *)
(* final frame, which is the last.                                         *)
DeltaTypes == {"output_text_delta", "refusal_delta", "summary_text_delta",
               "arguments_delta", "custom_input_delta"}
DeltasOf(n, i) ==
  FlattenSeq([m \in Before(n) |-> IF Sent[m].type \in DeltaTypes /\ Sent[m].index = i
                                  THEN Sent[m].text ELSE <<>>])
AddedBefore(n, i) == \E m \in Before(n) : IsSent(m, "item_added", i)
DoneBefore(n, i) == \E m \in Before(n) : IsSent(m, "item_done", i)

ResponsesGrammar ==
  /\ \A n \in DOMAIN Sent :
       LET f == Sent[n]
       IN  CASE f.type = "item_added" ->
                  f.index = Cardinality({m \in Before(n) : Sent[m].type = "item_added"})
             [] f.type \in DeltaTypes -> AddedBefore(n, f.index) /\ ~DoneBefore(n, f.index)
             [] f.type \in {"part_done", "item_done"} ->
                  /\ AddedBefore(n, f.index) /\ ~DoneBefore(n, f.index)
                  /\ f.text = DeltasOf(n, f.index)
             [] f.type \in {"completed", "incomplete", "failed", "error"} ->
                  /\ n >= Len(Sent) - (IF f.type = "error" THEN 1 ELSE 0)
                  /\ \A i \in 0..5 : AddedBefore(n, i) => DoneBefore(n, i)
             [] OTHER -> TRUE
  /\ Once("created")

(* A client that wants one body: nothing before the end, then an error or  *)
(* a body.  A chat message has each of its fields once and numbers its     *)
(* calls; the items of a responses output count up, and only the parts of  *)
(* a message share one.                                                    *)
BodyParts == {n \in DOMAIN Sent : Sent[n].type \in {"text", "refusal", "reasoning", "thinking", "call"}}
BodyGrammar ==
  /\ phase \in {"open", "retry"} => Sent = <<>>
  /\ phase = "error" => Len(Sent) = 1
  /\ to = "anthropic" => \A m, n \in BodyParts : m # n => Sent[m].index # Sent[n].index
  /\ to = "chat" =>
       /\ \A type \in {"content", "refusal", "reasoning"} : Once(type)
       /\ \A n \in BodyParts : Sent[n].type = "call" =>
            Sent[n].index = Cardinality({m \in Before(n) : Sent[m].type = "call"})
  /\ to = "responses" => \A m, n \in BodyParts :
       /\ m < n => Sent[m].index <= Sent[n].index
       /\ m # n /\ Sent[m].index = Sent[n].index => Sent[m].type \in {"text", "refusal"}
       /\ \A i \in 0..(Sent[n].index - 1) : \E k \in BodyParts : Sent[k].index = i

(* Whatever the upstream sends and wherever it stops, the client is sent   *)
(* what its own protocol calls a stream (all three encoders' purpose), or  *)
(* a body if it asked for none.  The one exception is reasoning that was    *)
(* Unstarted.                                                              *)
WellFormed ==
  CASE ~stream -> BodyGrammar
    [] stream /\ to = "anthropic" -> AnthropicGrammar
    [] stream /\ to = "chat" -> ChatGrammar
    [] stream /\ to = "responses" -> ResponsesGrammar

(* How a client is told that the answer is there.                          *)
Success == {"message_stop", "finish", "completed", "incomplete"}
Successes == {n \in DOMAIN Sent : Sent[n].type \in Success}
Told(stop) ==
  CASE stop = "end_turn" /\ RefusedIn(up.blocks) -> "content_filter"
    [] stop = "end_turn" /\ from = "gemini" /\ Calls # {} -> "tool_use"
    [] stop = "max_tokens" /\ ~stream /\ Calls # {} -> "tool_use"
    [] OTHER -> stop

(* The reason is the one the upstream gave, except that the calls of a     *)
(* body that was cut short are to be run.                                  *)
ReasonIsGiven ==
  phase = "normal" /\ up.stop # "" =>
    \A n \in DOMAIN Sent :
      Sent[n].type \in {"message_delta", "finish", "completed", "incomplete"} =>
        Sent[n].stop = Told(up.stop)

(* The tokens of a block the client has heard.                             *)
Speech == {"content_block_delta", "content", "refusal", "reasoning", "arguments",
           "text", "thinking", "call"} \cup DeltaTypes
Heard(b) ==
  SelectSeq(FlattenSeq([n \in DOMAIN Sent |-> IF Sent[n].type \in Speech THEN Sent[n].text ELSE <<>>]),
            LAMBDA t : BlockOf(t) = b)

Forwarded(b) == up.blocks[b].kind # "server_tool_use" \/ to = "anthropic"

(* Nothing the upstream said reaches the client twice, out of order or     *)
(* changed, the reason it ended for included, however the protocols cut    *)
(* and repeat it, and nothing is missing when the stream has ended well.   *)
(* A call an upstream runs itself stays out of the protocols that would    *)
(* have the client run it.                                                 *)
SaidOnce ==
  /\ \A b \in Blocks :
       /\ IsPrefix(Heard(b), Tokens(b, 1, up.blocks[b].said))
       /\ phase = "normal" /\ Forwarded(b) => Len(Heard(b)) = up.blocks[b].said
       /\ ~Forwarded(b) => Heard(b) = <<>>
  /\ ReasonIsGiven

(* The addresses under which a client is told of calls, and their input.   *)
IsHeader(f) ==
  \/ f.type = "tool_call"
  \/ f.type \in {"content_block_start", "item_added", "call"} /\ f.kind \in CallKinds
IsInput(f) ==
  \/ f.type \in {"arguments", "arguments_delta", "custom_input_delta", "call"}
  \/ f.type = "content_block_delta" /\ f.kind = "input_json"
Headers == {n \in DOMAIN Sent : IsHeader(Sent[n])}
Input(i) ==
  FlattenSeq([n \in DOMAIN Sent |-> IF IsInput(Sent[n]) /\ Sent[n].index = i THEN Sent[n].text ELSE <<>>])

(* The id a client knows a call by: the upstream's, or one made up.  Only  *)
(* the calls of a chat upstream's whole answer are left without.           *)
WholeAnswer == up.over /\ up.frames = 0
IdOf(b) ==
  CASE up.blocks[b].ided -> CallId(b)
    [] ~up.blocks[b].ided -> IF from = "chat" /\ WholeAnswer THEN "" ELSE "synth"

(* The input of different calls never mixes: all of a call is under one    *)
(* address, all under an address is of one call, and the address was       *)
(* announced with that call's id.                                          *)
CallsKeptApart ==
  \A n \in Headers :
    LET f == Sent[n]
    IN  \A t \in ToSet(Input(f.index)) \ {0} :
          /\ f.id = IdOf(BlockOf(t))
          /\ \A m \in Headers \ {n} : ToSet(Input(Sent[m].index)) \cap ToSet(Heard(BlockOf(t))) = {}
          /\ \A s \in ToSet(Input(f.index)) \ {0} : BlockOf(s) = BlockOf(t)

(* An error in the body of an anthropic upstream passes for an answer,     *)
(* which is what ErrorIsNoAnswer is about.                                 *)
Forged == from = "anthropic" /\ WholeAnswer

(* Only an answer that the upstream did not fail (but see ErrorIsNoAnswer) *)
(* ends as one that is there, and exactly once; a client that was sent     *)
(* anything is always told an end, and one whose answer may still come     *)
(* from another target was sent nothing.                                   *)
EndIsHonest ==
  /\ phase \in {"open", "error", "retry"} => Successes = {}
  /\ phase = "error" => \E n \in DOMAIN Sent : Sent[n].type = "error"
  /\ phase = "retry" => Sent = <<>>
  /\ phase = "normal" => Cardinality(Successes) = 1 /\ (up.failed => Forged)

(* No answer ends as one that is there with a call left in pieces, and a   *)
(* client that puts the input of a call together from the deltas always    *)
(* gets a JSON value, the empty object if the call has no arguments        *)
(* (encode_stream.go of chatcompletions and anthropic), and so does an     *)
(* anthropic client that gets a body.                                      *)
CallsExecutable ==
  phase = "normal" =>
    /\ \A b \in Calls : up.blocks[b].kind = "tool_use" => Complete(up.blocks[b])
    /\ to = "anthropic" \/ (to = "chat" /\ stream) =>
         \A n \in Headers :
           LET input == Input(Sent[n].index)
           IN  \/ input = <<0>>
               \/ \E b \in Calls : input = Tokens(b, 1, 2)
               \/ \E b \in Calls : up.blocks[b].kind = "custom"
                                   /\ input = Tokens(b, 1, up.blocks[b].said)

(* A text that was cut off is never passed off as one that was finished    *)
(* (bridge.go: the client would not ask for the rest).                     *)
CutOffIsTold ==
  phase = "normal" /\ up.stop = "" /\ Calls = {}
    /\ (\E b \in Blocks : up.blocks[b].kind = "text" /\ ~up.blocks[b].ended /\ up.blocks[b].said > 0) =>
    \A n \in DOMAIN Sent :
      /\ Sent[n].type # "completed"
      /\ Sent[n].type \in {"message_delta", "finish"} => Sent[n].stop \notin {"", "end_turn"}

(* An error in a body is no answer without content, but an error (see      *)
(* DecodeResponseLossy of gemini/decode_stream.go, which says that the     *)
(* other protocols guard against it).                                      *)
ErrorIsNoAnswer == phase = "normal" => ~up.failed
=============================================================================
