-------------------------- MODULE AggregatorProofs --------------------------
(* Proofs about the aggregator under any stream, for every set of block    *)
(* indexes, every limit and every upstream.                                *)
EXTENDS AggregatorFeed, AggregatorLemmas

-----------------------------------------------------------------------------
(* The inductive invariant.                                                *)

\* The events that add content to a block.
Deltas == {"text_delta", "thinking_delta", "signature_delta", "tool_input"}

SentBlocks == [kind : BlockKinds \cup {"none"}, input : Inputs,
               signed : BOOLEAN, closed : BOOLEAN]

Types ==
  /\ sent \in [Indexes -> SentBlocks]
  /\ \A i \in Indexes : sent[i].kind = "none" => sent[i] = Nothing
  /\ verdict \in {"", "refused", "normal", "too large"}

\* What the aggregator a keeps of an index is what the upstream sent for it.
Kept(a, b, i) ==
  /\ i \in a.order <=> b.kind # "none"
  /\ i \in a.closed <=> b.closed
  /\ i \in a.sawInput <=> b.input # ""
  /\ a.blocks[i].kind = b.kind
  /\ a.blocks[i].input = b.input
  /\ a.blocks[i].signed = b.signed

\* As long as no limit tripped, everything that was sent is kept.
Mirror ==
  verdict # "too large" => ~agg.overflow /\ \A i \in Indexes : Kept(agg, sent[i], i)

IInv == Types /\ Sound(agg) /\ Mirror /\ VerdictIsJust /\ StopReasonIsHonest

-----------------------------------------------------------------------------
(* What was sent, and what is kept of it.                                  *)

\* An event with an index changes the history of that index.
LEMMA SentForms ==
  /\ SentAfter(Ev("message_start")) = sent /\ SentAfter(Ev("message_stop")) = sent
  /\ \A s : SentAfter(MessageDelta(s)) = sent
  /\ \A i, k, own : SentAfter(StartWith(i, k, own))
                       = [sent EXCEPT ![i] = BlockAfter(@, StartWith(i, k, own))]
  /\ \A i : SentAfter(Stop(i)) = [sent EXCEPT ![i] = BlockAfter(@, Stop(i))]
  /\ \A t, i : SentAfter(Delta(t, i)) = [sent EXCEPT ![i] = BlockAfter(@, Delta(t, i))]
  /\ \A i, p : SentAfter(Input(i, p)) = [sent EXCEPT ![i] = BlockAfter(@, Input(i, p))]
  BY DEF SentAfter, Ev, MessageDelta, StartWith, Stop, Delta, Input

\* What is asked of an upstream before it may send an event.
LEMMA OrderForms ==
  /\ \A i, k, own : InOrder(StartWith(i, k, own)) => sent[i].kind = "none"
  /\ \A i : InOrder(Stop(i)) => sent[i].kind # "none" /\ ~sent[i].closed
  BY DEF InOrder, StartWith, Stop

\* The block of the index after each kind of event.
LEMMA BlockForms ==
  ASSUME NEW b \in SentBlocks, NEW i
  PROVE  /\ BlockAfter(b, Stop(i))
              = [kind |-> b.kind, input |-> b.input, signed |-> b.signed, closed |-> TRUE]
         /\ BlockAfter(b, Delta("text_delta", i))
              = [kind |-> IF b.kind = "none" THEN "text" ELSE b.kind, input |-> b.input,
                 signed |-> b.signed, closed |-> b.closed]
         /\ BlockAfter(b, Delta("thinking_delta", i))
              = [kind |-> IF b.kind = "none" THEN "thinking" ELSE b.kind, input |-> b.input,
                 signed |-> b.signed, closed |-> b.closed]
         /\ BlockAfter(b, Delta("signature_delta", i))
              = [kind |-> IF b.kind = "none" THEN "thinking" ELSE b.kind, input |-> b.input,
                 signed |-> TRUE, closed |-> b.closed]
  <1>1. BlockAfter(b, Stop(i))
          = [kind |-> b.kind, input |-> b.input, signed |-> b.signed, closed |-> TRUE]
    BY DEF BlockAfter, Stop, KindAfter, SentBlocks
  <1>2. BlockAfter(b, Delta("text_delta", i))
          = [kind |-> IF b.kind = "none" THEN "text" ELSE b.kind, input |-> b.input,
             signed |-> b.signed, closed |-> b.closed]
    BY DEF BlockAfter, Delta, KindAfter, Implied, SentBlocks
  <1>3. BlockAfter(b, Delta("thinking_delta", i))
          = [kind |-> IF b.kind = "none" THEN "thinking" ELSE b.kind, input |-> b.input,
             signed |-> b.signed, closed |-> b.closed]
    BY DEF BlockAfter, Delta, KindAfter, Implied, SentBlocks
  <1>4. BlockAfter(b, Delta("signature_delta", i))
          = [kind |-> IF b.kind = "none" THEN "thinking" ELSE b.kind, input |-> b.input,
             signed |-> TRUE, closed |-> b.closed]
    BY DEF BlockAfter, Delta, KindAfter, Implied, SentBlocks
  <1> QED
    BY <1>1, <1>2, <1>3, <1>4

\* The history of a block that has begun is no history of nothing.
Begun(b) == b \in SentBlocks /\ b.kind # "none"

\* Two aggregators that differ in one index at most.
Alike(a, b, i) ==
  \A j \in Indexes \ {i} :
    /\ j \in b.order <=> j \in a.order
    /\ j \in b.closed <=> j \in a.closed
    /\ j \in b.sawInput <=> j \in a.sawInput
    /\ b.blocks[j] = a.blocks[j]

\* If the one index is kept, everything is.
LEMMA OneIndex ==
  ASSUME Types, NEW i \in Indexes, NEW new, Begun(new)
  PROVE  LET t == [sent EXCEPT ![i] = new]
         IN  /\ t \in [Indexes -> SentBlocks]
             /\ \A j \in Indexes : t[j].kind = "none" => t[j] = Nothing
             /\ \A a, b : /\ \A j \in Indexes : Kept(a, sent[j], j)
                          /\ Alike(a, b, i) /\ Kept(b, new, i)
                          => \A j \in Indexes : Kept(b, t[j], j)
  <1> DEFINE t == [sent EXCEPT ![i] = new]
  <1>1. t \in [Indexes -> SentBlocks] /\ t[i] = new /\ \A j \in Indexes \ {i} : t[j] = sent[j]
    BY DEF Types, Begun
  <1> HIDE DEF t
  <1>2. \A j \in Indexes : t[j].kind = "none" => t[j] = Nothing
    BY <1>1 DEF Types, Begun
  <1>3. ASSUME NEW a, NEW b, \A j \in Indexes : Kept(a, sent[j], j),
               Alike(a, b, i), Kept(b, new, i), NEW j \in Indexes
        PROVE  Kept(b, t[j], j)
    <2>1. CASE j = i
      BY <1>1, <1>3, <2>1
    <2>2. CASE j # i
      BY <1>1, <1>3, <2>2 DEF Alike, Kept
    <2> QED
      BY <2>1, <2>2
  <1> QED
    BY <1>1, <1>2, <1>3 DEF t

\* A block that was just opened.
LEMMA OpenedFields ==
  ASSUME NEW kind
  PROVE  Opened(kind).kind = kind /\ Opened(kind).input = "" /\ Opened(kind).signed = FALSE
  BY DEF Opened, OpenedWith, Signs

\* A block that was opened with something in it.
LEMMA OpenedWithFields ==
  ASSUME NEW kind, NEW own
  PROVE  /\ OpenedWith(kind, own).kind = kind /\ OpenedWith(kind, own).input = ""
         /\ Signs(own) => OpenedWith(kind, own).signed = TRUE
         /\ ~Signs(own) => OpenedWith(kind, own).signed = FALSE
  BY DEF OpenedWith, Signs

\* The block a delta writes to, with and without a block there before.
LEMMA DeltaKeeps ==
  ASSUME NEW a, Sound(a), NEW i \in Indexes, NEW kind \in BlockKinds, NEW b \in SentBlocks,
         ~AddDelta(a, i, kind).overflow, b.kind = "none" => b = Nothing, Kept(a, b, i)
  PROVE  LET c == AddDelta(a, i, kind)
             new == [kind |-> IF b.kind = "none" THEN kind ELSE b.kind, input |-> b.input,
                     signed |-> b.signed, closed |-> b.closed]
         IN  Begun(new) /\ Alike(a, c, i) /\ Kept(c, new, i)
  <1> DEFINE c == AddDelta(a, i, kind)
             new == [kind |-> IF b.kind = "none" THEN kind ELSE b.kind, input |-> b.input,
                     signed |-> b.signed, closed |-> b.closed]
  <1>1. /\ c.closed = a.closed /\ c.sawInput = a.sawInput
        /\ c.order = a.order \cup {i}
        /\ c.blocks = IF i \in a.order THEN a.blocks
                      ELSE [a.blocks EXCEPT ![i] = Opened(kind)]
    BY DeltaSound
  <1>2. a.blocks \in [Indexes -> Block \cup {NoBlock}]
    BY DEF Sound, Aggregators
  <1> HIDE DEF c
  <1>3. Begun(new)
    BY DEF Begun, SentBlocks, BlockKinds
  <1>4. Alike(a, c, i)
    BY <1>1, <1>2 DEF Alike
  <1>5. CASE b.kind = "none"
    <2>0. b = Nothing
      BY <1>5
    <2>1. b.input = "" /\ b.signed = FALSE /\ b.closed = FALSE
      BY <2>0 DEF Nothing
    <2>2. i \notin a.order /\ i \notin a.closed /\ i \notin a.sawInput
      BY <1>5, <2>1 DEF Kept
    <2>3. c.blocks[i] = Opened(kind)
      BY <1>1, <1>2, <2>2
    <2>4. c.blocks[i].kind = kind /\ c.blocks[i].input = "" /\ c.blocks[i].signed = FALSE
      BY <2>3, OpenedFields
    <2>5. kind # "none"
      BY DEF BlockKinds
    <2>6. new.kind = kind /\ new.input = "" /\ new.signed = FALSE /\ new.closed = FALSE
      BY <1>5, <2>1
    <2> HIDE DEF new
    <2>7. Kept(c, new, i)
      BY <1>1, <2>2, <2>4, <2>5, <2>6 DEF Kept
    <2> QED
      BY <1>3, <1>4, <2>7 DEF c, new
  <1>6. CASE b.kind # "none"
    <2>1. c.blocks[i] = a.blocks[i] /\ i \in c.order
      BY <1>1, <1>6 DEF Kept
    <2>2. new.kind = b.kind /\ new.input = b.input /\ new.signed = b.signed
            /\ new.closed = b.closed
      BY <1>6
    <2> HIDE DEF new
    <2>3. Kept(c, new, i)
      BY <1>1, <1>6, <2>1, <2>2 DEF Kept
    <2> QED
      BY <1>3, <1>4, <2>3 DEF c, new
  <1> QED
    BY <1>5, <1>6

\* An index nothing was sent for.
LEMMA NothingFields == Nothing.input = "" /\ Nothing.closed = FALSE
  BY DEF Nothing

\* One event: the history keeps its type, and what is kept stays the same
\* as what was sent, unless a limit trips.
LEMMA AddKeeps ==
  ASSUME Types, Sound(agg), NEW ev \in Events, InOrder(ev)
  PROVE  /\ SentAfter(ev) \in [Indexes -> SentBlocks]
         /\ \A j \in Indexes : SentAfter(ev)[j].kind = "none" => SentAfter(ev)[j] = Nothing
         /\ (\A j \in Indexes : Kept(agg, sent[j], j)) /\ ~Add(agg, ev).overflow
              => \A j \in Indexes : Kept(Add(agg, ev), SentAfter(ev)[j], j)
  <1>1. "text" \in BlockKinds /\ "thinking" \in BlockKinds /\ "tool_use" \in BlockKinds
    BY DEF BlockKinds
  <1>2. CASE ev = Ev("message_start") \/ ev = Ev("message_stop")
    <2>1. Add(agg, ev) = agg /\ SentAfter(ev) = sent
      BY <1>2, AddForms, SentForms, Zenon
    <2> QED
      BY <2>1 DEF Types
  <1>3. CASE \E s \in StopReasons : ev = MessageDelta(s)
    <2>1. PICK s \in StopReasons : ev = MessageDelta(s)
      BY <1>3
    <2>2. SentAfter(ev) = sent
      BY <2>1, SentForms
    <2>3. Add(agg, ev) = agg \/ Add(agg, ev) = [agg EXCEPT !.stop = s]
      BY <2>1, AddForms
    <2>4. LET b == [agg EXCEPT !.stop = s] IN
            /\ b.order = agg.order /\ b.blocks = agg.blocks
            /\ b.sawInput = agg.sawInput /\ b.closed = agg.closed
      BY EndingsSound
    <2>5. /\ Add(agg, ev).order = agg.order /\ Add(agg, ev).blocks = agg.blocks
          /\ Add(agg, ev).sawInput = agg.sawInput /\ Add(agg, ev).closed = agg.closed
      BY <2>3, <2>4
    <2> QED
      BY <2>2, <2>5 DEF Types, Kept
  <1>4. CASE \E i \in Indexes, k \in BlockKinds, own \in Owns : ev = StartWith(i, k, own)
    <2>1. PICK i \in Indexes, k \in BlockKinds, own \in Owns : ev = StartWith(i, k, own)
      BY <1>4
    <2> DEFINE new == [kind |-> k, input |-> "", signed |-> Signs(own), closed |-> FALSE]
               b == AddBlockStart(agg, i, k, own)
    <2>2. SentAfter(ev) = [sent EXCEPT ![i] = new]
      <3>1. sent[i] \in SentBlocks
        BY DEF Types
      <3>2. BlockAfter(sent[i], StartWith(i, k, own)) = new
        BY DEF BlockAfter, StartWith, Nothing
      <3>3. SentAfter(StartWith(i, k, own))
              = [sent EXCEPT ![i] = BlockAfter(sent[i], StartWith(i, k, own))]
        BY SentForms
      <3> HIDE DEF new
      <3> QED
        BY <2>1, <3>2, <3>3
    <2>3. Begun(new)
      BY DEF Begun, SentBlocks, BlockKinds, Inputs, Signs
    <2>4. Add(agg, ev) = b
      BY <2>1 DEF Add, StartWith
    <2>5. sent[i] = Nothing
      BY <2>1, OrderForms DEF Types
    <2> HIDE DEF b
    <2>6. ASSUME Kept(agg, sent[i], i), ~b.overflow
          PROVE  Alike(agg, b, i) /\ Kept(b, new, i)
      <3>1. /\ b.order = agg.order \cup {i}
            /\ b.blocks = Replaced(agg, i, k, own)
            /\ b.closed = agg.closed /\ b.sawInput = agg.sawInput
        BY <2>6, BlockStartSound DEF b
      <3>2. agg.blocks \in [Indexes -> Block \cup {NoBlock}]
        BY DEF Sound, Aggregators
      <3>3. sent[i].input = "" /\ sent[i].closed = FALSE
        BY <2>5, NothingFields
      <3>4. i \notin agg.closed /\ i \notin agg.sawInput
        BY <2>6, <3>3 DEF Kept
      <3>5. /\ b.blocks[i].kind = k /\ b.blocks[i].input = ""
            /\ b.blocks[i].signed = new.signed
        <4>1. b.blocks[i] = OpenedWith(k, own)
          BY <3>1, <3>2 DEF Replaced
        <4>2. (Signs(own) => new.signed = TRUE) /\ (~Signs(own) => new.signed = FALSE)
          BY DEF Signs
        <4> HIDE DEF new
        <4> DEFINE o == OpenedWith(k, own)
        <4>3. /\ o.kind = k /\ o.input = ""
              /\ (Signs(own) => o.signed = TRUE) /\ (~Signs(own) => o.signed = FALSE)
          BY OpenedWithFields
        <4>4. b.blocks[i] = o
          BY <4>1
        <4> HIDE DEF o
        <4> QED
          BY <4>2, <4>3, <4>4
      <3>6. k # "none"
        BY DEF BlockKinds
      <3>7. new.kind = k /\ new.input = "" /\ new.closed = FALSE
        OBVIOUS
      <3> HIDE DEF new
      <3> QED
        BY <3>1, <3>2, <3>4, <3>5, <3>6, <3>7 DEF Alike, Kept, Replaced
    <2> HIDE DEF new
    <2> QED
      BY <2>2, <2>3, <2>4, <2>6, OneIndex
  <1>5. CASE \E i \in Indexes : ev = Stop(i)
    <2>1. PICK i \in Indexes : ev = Stop(i)
      BY <1>5
    <2> DEFINE new == [kind |-> sent[i].kind, input |-> sent[i].input,
                       signed |-> sent[i].signed, closed |-> TRUE]
               b == [agg EXCEPT !.closed = @ \cup {i}]
    <2>2. SentAfter(ev) = [sent EXCEPT ![i] = new]
      <3>1. sent[i] \in SentBlocks
        BY DEF Types
      <3>2. BlockAfter(sent[i], Stop(i)) = new
        BY <3>1, BlockForms
      <3>3. SentAfter(Stop(i)) = [sent EXCEPT ![i] = BlockAfter(sent[i], Stop(i))]
        BY SentForms
      <3> HIDE DEF new
      <3> QED
        BY <2>1, <3>2, <3>3
    <2>3. Begun(new)
      BY <2>1, OrderForms DEF Types, Begun, SentBlocks
    <2>4. Add(agg, ev) = b
      BY <2>1, AddForms
    <2>5. /\ b.closed = agg.closed \cup {i} /\ b.order = agg.order
          /\ b.blocks = agg.blocks /\ b.sawInput = agg.sawInput
      BY EndingsSound
    <2> HIDE DEF b
    <2>6. Kept(agg, sent[i], i) => Alike(agg, b, i) /\ Kept(b, new, i)
      BY <2>5 DEF Alike, Kept
    <2> HIDE DEF new
    <2> QED
      BY <2>2, <2>3, <2>4, <2>6, OneIndex
  <1>6. CASE \E i \in Indexes : ev = Delta("text_delta", i)
    <2>1. PICK i \in Indexes : ev = Delta("text_delta", i)
      BY <1>6
    <2> DEFINE new == [kind |-> IF sent[i].kind = "none" THEN "text" ELSE sent[i].kind,
                       input |-> sent[i].input, signed |-> sent[i].signed,
                       closed |-> sent[i].closed]
    <2>2. SentAfter(ev) = [sent EXCEPT ![i] = new]
      <3>1. sent[i] \in SentBlocks
        BY DEF Types
      <3>2. BlockAfter(sent[i], Delta("text_delta", i)) = new
        BY <3>1, BlockForms
      <3>3. SentAfter(Delta("text_delta", i)) = [sent EXCEPT ![i] = BlockAfter(sent[i], Delta("text_delta", i))]
        BY SentForms
      <3> HIDE DEF new
      <3> QED
        BY <2>1, <3>2, <3>3
    <2>3. Begun(new)
      BY <1>1 DEF Types, Begun, SentBlocks
    <2>4. Add(agg, ev) = AddDelta(agg, i, "text")
      BY <2>1, AddForms
    <2>5. Kept(agg, sent[i], i) /\ ~AddDelta(agg, i, "text").overflow
            => /\ Alike(agg, AddDelta(agg, i, "text"), i)
               /\ Kept(AddDelta(agg, i, "text"), new, i)
      BY <1>1, DeltaKeeps DEF Types
    <2> HIDE DEF new
    <2> QED
      BY <2>2, <2>3, <2>4, <2>5, OneIndex
  <1>7. CASE \E i \in Indexes : ev = Delta("thinking_delta", i)
    <2>1. PICK i \in Indexes : ev = Delta("thinking_delta", i)
      BY <1>7
    <2> DEFINE new == [kind |-> IF sent[i].kind = "none" THEN "thinking" ELSE sent[i].kind,
                       input |-> sent[i].input, signed |-> sent[i].signed,
                       closed |-> sent[i].closed]
    <2>2. SentAfter(ev) = [sent EXCEPT ![i] = new]
      <3>1. sent[i] \in SentBlocks
        BY DEF Types
      <3>2. BlockAfter(sent[i], Delta("thinking_delta", i)) = new
        BY <3>1, BlockForms
      <3>3. SentAfter(Delta("thinking_delta", i)) = [sent EXCEPT ![i] = BlockAfter(sent[i], Delta("thinking_delta", i))]
        BY SentForms
      <3> HIDE DEF new
      <3> QED
        BY <2>1, <3>2, <3>3
    <2>3. Begun(new)
      BY <1>1 DEF Types, Begun, SentBlocks
    <2>4. Add(agg, ev) = AddDelta(agg, i, "thinking")
      BY <2>1, AddForms
    <2>5. Kept(agg, sent[i], i) /\ ~AddDelta(agg, i, "thinking").overflow
            => /\ Alike(agg, AddDelta(agg, i, "thinking"), i)
               /\ Kept(AddDelta(agg, i, "thinking"), new, i)
      BY <1>1, DeltaKeeps DEF Types
    <2> HIDE DEF new
    <2> QED
      BY <2>2, <2>3, <2>4, <2>5, OneIndex
  <1>8. CASE \E i \in Indexes : ev = Delta("signature_delta", i)
    <2>1. PICK i \in Indexes : ev = Delta("signature_delta", i)
      BY <1>8
    <2> DEFINE mid == [kind |-> IF sent[i].kind = "none" THEN "thinking" ELSE sent[i].kind,
                       input |-> sent[i].input, signed |-> sent[i].signed,
                       closed |-> sent[i].closed]
               new == [kind |-> IF sent[i].kind = "none" THEN "thinking" ELSE sent[i].kind,
                       input |-> sent[i].input, signed |-> TRUE,
                       closed |-> sent[i].closed]
               c == AddDelta(agg, i, "thinking")
               b == AddSignature(agg, i)
    <2>2. SentAfter(ev) = [sent EXCEPT ![i] = new]
      <3>1. sent[i] \in SentBlocks
        BY DEF Types
      <3>2. BlockAfter(sent[i], Delta("signature_delta", i)) = new
        BY <3>1, BlockForms
      <3>3. SentAfter(Delta("signature_delta", i)) = [sent EXCEPT ![i] = BlockAfter(sent[i], Delta("signature_delta", i))]
        BY SentForms
      <3> HIDE DEF new
      <3> QED
        BY <2>1, <3>2, <3>3
    <2>3. Begun(new)
      BY <1>1 DEF Types, Begun, SentBlocks
    <2>4. Add(agg, ev) = b
      BY <2>1, AddForms
    <2>5. Kept(agg, sent[i], i) /\ ~c.overflow => Alike(agg, c, i) /\ Kept(c, mid, i)
      BY <1>1, DeltaKeeps DEF Types
    <2>6. /\ b.overflow = c.overflow
          /\ b.closed = c.closed /\ b.sawInput = c.sawInput /\ b.order = c.order
          /\ ~b.overflow => /\ b.blocks[i].kind = c.blocks[i].kind
                            /\ b.blocks[i].input = c.blocks[i].input
                            /\ b.blocks[i].signed = TRUE
                            /\ \A j \in Indexes \ {i} : b.blocks[j] = c.blocks[j]
      BY SignatureSound
    <2> HIDE DEF b, c
    <2>7. Kept(agg, sent[i], i) /\ ~b.overflow => Alike(agg, b, i) /\ Kept(b, new, i)
      BY <2>5, <2>6 DEF Alike, Kept
    <2> HIDE DEF new
    <2> QED
      BY <2>2, <2>3, <2>4, <2>7, OneIndex
  <1>9. CASE \E i \in Indexes, p \in {"head", "tail", "free"} : ev = Input(i, p)
    <2>1. PICK i \in Indexes, p \in {"head", "tail", "free"} : ev = Input(i, p)
      BY <1>9
    <2> DEFINE mid == [kind |-> IF sent[i].kind = "none" THEN "tool_use" ELSE sent[i].kind,
                       input |-> sent[i].input, signed |-> sent[i].signed,
                       closed |-> sent[i].closed]
               new == [kind |-> IF sent[i].kind = "none" THEN "tool_use" ELSE sent[i].kind,
                       input |-> Joined(sent[i].input, p), signed |-> sent[i].signed,
                       closed |-> sent[i].closed]
               c == AddDelta(agg, i, "tool_use")
               b == AddInput(agg, i, p)
    <2>2. SentAfter(ev) = [sent EXCEPT ![i] = new]
      <3>1. sent[i] \in SentBlocks
        BY DEF Types
      <3>2. BlockAfter(sent[i], Input(i, p)) = new
        BY <3>1 DEF BlockAfter, Input, KindAfter, Implied, SentBlocks
      <3>3. SentAfter(Input(i, p)) = [sent EXCEPT ![i] = BlockAfter(sent[i], Input(i, p))]
        BY SentForms
      <3> HIDE DEF new
      <3> QED
        BY <2>1, <3>2, <3>3
    <2>3. Begun(new)
      BY <1>1, JoinedType DEF Types, Begun, SentBlocks
    <2>4. Add(agg, ev) = b
      BY <2>1 DEF Add, Input
    <2>5. Kept(agg, sent[i], i) /\ ~c.overflow => Alike(agg, c, i) /\ Kept(c, mid, i)
      BY <1>1, DeltaKeeps DEF Types
    <2>6. /\ b.overflow = c.overflow /\ b.closed = c.closed /\ b.order = c.order
          /\ ~b.overflow => /\ b.blocks[i].kind = c.blocks[i].kind
                            /\ b.blocks[i].input = Joined(c.blocks[i].input, p)
                            /\ b.blocks[i].signed = c.blocks[i].signed
                            /\ \A j \in Indexes \ {i} : b.blocks[j] = c.blocks[j]
                            /\ b.sawInput = c.sawInput \cup {i}
      BY InputSound
    <2> HIDE DEF b, c
    <2>7. Kept(agg, sent[i], i) /\ ~b.overflow => Alike(agg, b, i) /\ Kept(b, new, i)
      BY <2>5, <2>6, JoinedType DEF Alike, Kept
    <2> HIDE DEF new
    <2> QED
      BY <2>2, <2>3, <2>4, <2>7, OneIndex
  <1> QED
    BY <1>2, <1>3, <1>4, <1>5, <1>6, <1>7, <1>8, <1>9, EventForms, Zenon

-----------------------------------------------------------------------------
(* The steps.                                                              *)

\* If everything is kept, a block is unsafe to close for the aggregator
\* exactly if the upstream cut it off.
LEMMA UnsafeIsCut ==
  ASSUME Types, Sound(agg), \A i \in Indexes : Kept(agg, sent[i], i)
  PROVE  \A i \in Indexes : i \in UnsafeToClose(agg) <=> Cut(sent[i])
  <1> SUFFICES ASSUME NEW i \in Indexes
               PROVE  i \in UnsafeToClose(agg) <=> Cut(sent[i])
    OBVIOUS
  <1>1. Kept(agg, sent[i], i) /\ sent[i] \in SentBlocks
    BY DEF Types
  <1>2. i \in IncompleteTools(agg) <=> CutCall(sent[i])
    BY <1>1 DEF IncompleteTools, CutCall, Kept
  <1>3. (i \in OpenBlocks(agg) /\ agg.blocks[i].kind = "thinking" /\ ~agg.blocks[i].signed)
          <=> CutThinking(sent[i])
    BY <1>1 DEF OpenBlocks, CutThinking, Kept
  <1> QED
    BY <1>2, <1>3 DEF UnsafeToClose, Cut

\* Only indexes can be unsafe to close.
LEMMA UnsafeType == ASSUME Sound(agg) PROVE UnsafeToClose(agg) \subseteq Indexes
  BY DEF UnsafeToClose, IncompleteTools, OpenBlocks, Sound, Aggregators

\* One event.
LEMMA ReceiveInv == ASSUME IInv, Receive PROVE IInv'
  <1>1. PICK ev \in Sent : /\ InOrder(ev)
                           /\ agg' = Add(agg, ev)
                           /\ sent' = SentAfter(ev)
                           /\ verdict' = IF Overflow(agg') THEN "too large" ELSE ""
    BY DEF Receive
  <1>2. ev \in Events
    BY SentAssumption
  <1>3. verdict = ""
    BY DEF Receive
  <1>4. Sound(agg')
    BY <1>1, <1>2, AddSound DEF IInv
  <1>5. Types'
    BY <1>1, <1>2, AddKeeps DEF IInv, Types
  <1>6. Mirror'
    <2> SUFFICES ASSUME verdict' # "too large"
                 PROVE  ~agg'.overflow /\ \A i \in Indexes : Kept(agg', sent'[i], i)
      BY DEF Mirror
    <2>1. ~agg'.overflow
      BY <1>1 DEF Overflow
    <2>2. \A i \in Indexes : Kept(agg, sent[i], i)
      BY <1>3 DEF IInv, Mirror
    <2> QED
      BY <1>1, <1>2, <2>1, <2>2, AddKeeps DEF IInv
  <1>7. verdict' # "refused" /\ verdict' # "normal"
    BY <1>1
  <1> QED
    BY <1>4, <1>5, <1>6, <1>7 DEF IInv, VerdictIsJust, StopReasonIsHonest

\* The end of the stream is judged.
LEMMA FinishInv == ASSUME IInv, Finish PROVE IInv'
  <1> DEFINE told == [agg EXCEPT !.stop = "max_tokens"]
  <1>1. verdict = "" /\ sent' = sent
    BY DEF Finish
  <1>2. \A i \in Indexes : Kept(agg, sent[i], i)
    BY <1>1 DEF IInv, Mirror
  <1>3. \A i \in Indexes : i \in UnsafeToClose(agg) <=> Cut(sent[i])
    BY <1>2, UnsafeIsCut DEF IInv
  <1>4. verdict' = IF UnsafeToClose(agg) # {} THEN "refused" ELSE "normal"
    BY DEF Finish
  <1>5. Add(agg, MessageDelta("max_tokens")) = told
    BY AddForms
  <1>6. agg' = IF UnsafeToClose(agg) = {} /\ HasOpenBlocks(agg) /\ StopReason(agg) = ""
               THEN told ELSE agg
    BY <1>5 DEF Finish
  <1>7. /\ Sound(told) /\ told.stop = "max_tokens"
        /\ told.order = agg.order /\ told.blocks = agg.blocks
        /\ told.sawInput = agg.sawInput /\ told.closed = agg.closed
        /\ told.overflow = agg.overflow
    BY EndingsSound DEF IInv, StopReasons
  <1> HIDE DEF told
  <1>8. /\ Sound(agg')
        /\ agg'.order = agg.order /\ agg'.blocks = agg.blocks
        /\ agg'.sawInput = agg.sawInput /\ agg'.closed = agg.closed
        /\ agg'.overflow = agg.overflow
    BY <1>6, <1>7 DEF IInv
  <1>9. Types'
    BY <1>1, <1>4 DEF IInv, Types
  <1>10. Mirror'
    BY <1>1, <1>2, <1>8 DEF IInv, Mirror, Kept
  <1>11. VerdictIsJust'
    BY <1>1, <1>3, <1>4, UnsafeType DEF IInv, VerdictIsJust
  <1>12. StopReasonIsHonest'
    <2> SUFFICES ASSUME verdict' = "normal" PROVE StopReasonIsHonest'
      BY DEF StopReasonIsHonest
    <2>1. UnsafeToClose(agg) = {}
      BY <1>4
    <2>2. HasToolUse(agg') <=> HasToolUse(agg)
      BY <1>8 DEF HasToolUse
    <2>3. (\E i \in Indexes : sent[i].kind \in {"tool_use", "custom"}) => HasToolUse(agg')
      BY <1>2, <2>2 DEF HasToolUse, Kept
    <2>4. (\E i \in Indexes : sent[i].kind # "none" /\ ~sent[i].closed) => HasOpenBlocks(agg)
      BY <1>2 DEF HasOpenBlocks, OpenBlocks, Kept
    <2>5. HasOpenBlocks(agg) => StopReason(agg') # ""
      BY <1>6, <1>7, <2>1, <2>2 DEF StopReason
    <2>6. HasToolUse(agg') /\ agg'.stop # "content_filter" => StopReason(agg') = "tool_use"
      BY DEF StopReason
    <2> QED
      BY <1>1, <2>3, <2>4, <2>5, <2>6 DEF StopReasonIsHonest
  <1> QED
    BY <1>8, <1>9, <1>10, <1>11, <1>12 DEF IInv

\* The invariant holds in every state of every stream.
THEOREM FeedInvariance == Spec => []IInv
  <1>1. Init => IInv
    <2> SUFFICES ASSUME Init PROVE IInv
      OBVIOUS
    <2>1. agg = Empty /\ verdict = "" /\ \A i \in Indexes : sent[i] = Nothing
      BY DEF Init
    <2>2. sent \in [Indexes -> SentBlocks]
      BY DEF Init, Nothing, SentBlocks, Inputs
    <2>3. Types
      BY <2>1, <2>2 DEF Types
    <2>4. \A i \in Indexes : Kept(agg, sent[i], i)
      <3>1. /\ Empty.order = {} /\ Empty.closed = {} /\ Empty.sawInput = {}
            /\ \A i \in Indexes : Empty.blocks[i] = NoBlock
        BY DEF Empty
      <3>2. NoBlock.kind = "none" /\ NoBlock.input = "" /\ NoBlock.signed = FALSE
        BY DEF NoBlock
      <3>3. /\ Nothing.kind = "none" /\ Nothing.input = ""
            /\ Nothing.signed = FALSE /\ Nothing.closed = FALSE
        BY DEF Nothing
      <3> QED
        BY <2>1, <3>1, <3>2, <3>3 DEF Kept
    <2>5. Mirror
      BY <2>1, <2>4, EmptySound DEF Mirror
    <2>6. Sound(agg)
      BY <2>1, EmptySound
    <2> QED
      BY <2>1, <2>3, <2>5, <2>6 DEF IInv, VerdictIsJust, StopReasonIsHonest
  <1>2. IInv /\ [Next]_vars => IInv'
    <2> SUFFICES ASSUME IInv, [Next]_vars PROVE IInv'
      OBVIOUS
    <2>1. CASE Receive
      BY <2>1, ReceiveInv
    <2>2. CASE Finish
      BY <2>2, FinishInv
    <2>3. CASE UNCHANGED vars
      BY <2>3 DEF vars, IInv, Types, Sound, Aggregators, Mirror, Kept, VerdictIsJust,
                  StopReasonIsHonest
    <2> QED
      BY <2>1, <2>2, <2>3 DEF Next, Ended
  <1> QED
    BY <1>1, <1>2, PTL DEF Spec

\* The aggregator and the history keep their types, and the limits on content
\* and blocks hold after any sequence of events (ir/aggregate.go, the gates).
THEOREM FeedTypeCorrect == Spec => []TypeOK
  <1>1. IInv => TypeOK
    <2> SUFFICES ASSUME IInv PROVE TypeOK
      OBVIOUS
    <2>1. agg \in Aggregators /\ Cardinality(agg.order) <= MaxBlocks
          /\ agg.order = {i \in Indexes : agg.blocks[i] # NoBlock}
      BY DEF IInv, Sound
    <2> QED
      BY <2>1, LimitsAssumption DEF Aggregators, TypeOK
  <1> QED
    BY <1>1, FeedInvariance, PTL

\* A stream that ends is refused exactly when the upstream cut off a call or
\* reasoning (UnsafeToClose), whatever it sent and however its blocks were
\* interleaved, as long as no index is used twice.
THEOREM VerdictsAreJust == Spec => []VerdictIsJust
  <1>1. IInv => VerdictIsJust
    BY DEF IInv
  <1> QED
    BY <1>1, FeedInvariance, PTL

\* No answer that ended inside a block, and no tool turn, is given a stop
\* reason that says otherwise (Response().StopReason and bridge.finish).
THEOREM StopReasonsAreHonest == Spec => []StopReasonIsHonest
  <1>1. IInv => StopReasonIsHonest
    BY DEF IInv
  <1> QED
    BY <1>1, FeedInvariance, PTL
=============================================================================
