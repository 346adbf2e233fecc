-------------------------- MODULE AggregatorLemmas --------------------------
(* What the operations of the aggregator keep, for every set of block      *)
(* indexes and every limit.                                                *)
EXTENDS Aggregator, FiniteSetTheorems, TLAPS

\* The fields of an aggregator.
Aggregators == [order : SUBSET Indexes, blocks : [Indexes -> Block \cup {NoBlock}],
                closed : SUBSET Indexes, sawInput : SUBSET Indexes,
                content : 0..MaxContent, overflow : BOOLEAN, stop : StopReasons]

\* The gates hold, and every block kept is in the order.
Sound(a) ==
  /\ a \in Aggregators
  /\ IsFiniteSet(a.order) /\ Cardinality(a.order) <= MaxBlocks
  /\ a.order = {i \in Indexes : a.blocks[i] # NoBlock}

-----------------------------------------------------------------------------
(* The operations, one after another.                                      *)

\* An aggregator that has seen nothing.
LEMMA EmptySound == Sound(Empty) /\ ~Empty.overflow
  <1>1. Empty \in Aggregators
    BY LimitsAssumption DEF Empty, Aggregators, StopReasons
  <1>2. Empty.order = {} /\ Empty.overflow = FALSE
    BY DEF Empty
  <1>3. \A i \in Indexes : Empty.blocks[i] = NoBlock
    BY DEF Empty
  <1>4. Cardinality({}) <= MaxBlocks /\ IsFiniteSet({})
    BY FS_EmptySet, LimitsAssumption
  <1> QED
    BY <1>1, <1>2, <1>3, <1>4 DEF Sound

\* The aggregator with a fresh block.
Started(a, i, kind, own) ==
  [a EXCEPT !.order = @ \cup {i}, !.blocks[i] = OpenedWith(kind, own)]

\* Its blocks.
Replaced(a, i, kind, own) == [a.blocks EXCEPT ![i] = OpenedWith(kind, own)]

\* A block that is started is known; it needs room only if it is new.
LEMMA StartSound ==
  ASSUME NEW a, Sound(a), NEW i \in Indexes, NEW kind \in BlockKinds, NEW own \in Owns,
         i \in a.order \/ ~Full(a)
  PROVE  LET b == Started(a, i, kind, own)
         IN  /\ Sound(b)
             /\ b.order = a.order \cup {i}
             /\ b.blocks = Replaced(a, i, kind, own)
             /\ b.closed = a.closed /\ b.sawInput = a.sawInput
             /\ b.overflow = a.overflow /\ b.stop = a.stop
  <1> DEFINE b == Started(a, i, kind, own)
  <1>1. a \in Aggregators /\ a.blocks \in [Indexes -> Block \cup {NoBlock}]
    BY DEF Sound, Aggregators
  <1>2. /\ b.order = a.order \cup {i}
        /\ b.blocks = [a.blocks EXCEPT ![i] = OpenedWith(kind, own)]
        /\ b.closed = a.closed /\ b.sawInput = a.sawInput
        /\ b.content = a.content /\ b.overflow = a.overflow /\ b.stop = a.stop
    BY <1>1 DEF Aggregators, Started
  <1> HIDE DEF b
  <1>3. OpenedWith(kind, own) \in Block /\ OpenedWith(kind, own) # NoBlock
    BY DEF OpenedWith, Signs, Block, NoBlock, BlockKinds, Inputs
  <1>4. b \in Aggregators
    BY <1>1, <1>3 DEF Aggregators, Started, b
  <1>5. IsFiniteSet(b.order) /\ Cardinality(b.order) <= MaxBlocks
    <2>1. IsFiniteSet(a.order) /\ Cardinality(a.order) \in Nat
      BY FS_CardinalityType DEF Sound
    <2>2. /\ IsFiniteSet(a.order \cup {i})
          /\ i \in a.order => Cardinality(a.order \cup {i}) = Cardinality(a.order)
          /\ i \notin a.order => Cardinality(a.order \cup {i}) = Cardinality(a.order) + 1
      BY <2>1, FS_AddElement
    <2> QED
      BY <1>2, <2>1, <2>2, LimitsAssumption DEF Full, Sound
  <1>6. b.order = {j \in Indexes : b.blocks[j] # NoBlock}
    BY <1>1, <1>2, <1>3 DEF Sound
  <1>7. Sound(b)
    BY <1>4, <1>5, <1>6 DEF Sound
  <1>8. b.blocks = Replaced(a, i, kind, own)
    BY <1>2 DEF Replaced
  <1> QED
    BY <1>2, <1>7, <1>8 DEF b

\* A unit of content is counted, or trips the gate.
LEMMA AdmitSound ==
  ASSUME NEW a, Sound(a)
  PROVE  /\ Sound(Admit(a))
         /\ Admit(a).order = a.order /\ Admit(a).blocks = a.blocks
         /\ Admit(a).closed = a.closed /\ Admit(a).sawInput = a.sawInput
         /\ Admit(a).stop = a.stop
         /\ Admit(a).overflow = IF Admits(a) THEN FALSE ELSE TRUE
  <1>1. a \in Aggregators
    BY DEF Sound
  <1>2. /\ Admit(a) \in Aggregators
        /\ Admit(a).order = a.order /\ Admit(a).blocks = a.blocks
        /\ Admit(a).closed = a.closed /\ Admit(a).sawInput = a.sawInput
        /\ Admit(a).stop = a.stop
        /\ Admit(a).overflow = IF Admits(a) THEN FALSE ELSE TRUE
    <2>1. CASE Admits(a)
      <3>1. Admit(a) = [a EXCEPT !.content = @ + 1] /\ a.overflow = FALSE
        BY <1>1, <2>1 DEF Admit, Admits, Aggregators
      <3>2. a.content + 1 \in 0..MaxContent
        BY <1>1, <2>1, LimitsAssumption DEF Admits, Aggregators
      <3> QED
        BY <1>1, <2>1, <3>1, <3>2 DEF Aggregators
    <2>2. CASE ~Admits(a)
      <3>1. Admit(a) = [a EXCEPT !.overflow = TRUE]
        BY <2>2 DEF Admit
      <3> QED
        BY <1>1, <2>2, <3>1 DEF Aggregators
    <2> QED
      BY <2>1, <2>2
  <1> QED
    BY <1>2 DEF Sound

\* A delta for an index nobody started opens a block, if there is room.
LEMMA EnsureSound ==
  ASSUME NEW a, Sound(a), NEW i \in Indexes, NEW kind \in BlockKinds
  PROVE  LET b == Ensure(a, i, kind)
         IN  /\ Sound(b)
             /\ a.overflow => b.overflow
             /\ b.closed = a.closed /\ b.sawInput = a.sawInput /\ b.stop = a.stop
             /\ ~b.overflow =>
                  /\ b.order = a.order \cup {i}
                  /\ b.blocks = IF i \in a.order THEN a.blocks
                                ELSE [a.blocks EXCEPT ![i] = Opened(kind)]
  <1>1. a \in Aggregators
    BY DEF Sound
  <1>2. CASE i \in a.order
    BY <1>2 DEF Ensure, Known
  <1>3. CASE i \notin a.order /\ Full(a)
    <2>1. Ensure(a, i, kind) = [a EXCEPT !.overflow = TRUE]
      BY <1>3 DEF Ensure, Known
    <2>2. /\ Ensure(a, i, kind) \in Aggregators
          /\ Ensure(a, i, kind).order = a.order /\ Ensure(a, i, kind).blocks = a.blocks
          /\ Ensure(a, i, kind).closed = a.closed
          /\ Ensure(a, i, kind).sawInput = a.sawInput
          /\ Ensure(a, i, kind).stop = a.stop /\ Ensure(a, i, kind).overflow
      BY <1>1, <2>1 DEF Aggregators
    <2> QED
      BY <2>2 DEF Sound
  <1>4. CASE i \notin a.order /\ ~Full(a)
    <2>0. PICK own \in Owns : own = ""
      BY DEF Owns
    <2> DEFINE c == Started(a, i, kind, own)
    <2>1. Ensure(a, i, kind) = c
      BY <1>4, <2>0 DEF Ensure, Known, Started, Opened
    <2>2. /\ Sound(c) /\ c.order = a.order \cup {i}
          /\ c.blocks = Replaced(a, i, kind, own)
          /\ c.closed = a.closed /\ c.sawInput = a.sawInput
          /\ c.overflow = a.overflow /\ c.stop = a.stop
      <3>1. i \in a.order \/ ~Full(a)
        BY <1>4
      <3> QED
        BY <3>1, StartSound
    <2>3. Replaced(a, i, kind, own) = [a.blocks EXCEPT ![i] = Opened(kind)]
      BY <2>0 DEF Replaced, Opened
    <2> HIDE DEF c
    <2> QED
      BY <1>4, <2>1, <2>2, <2>3
  <1> QED
    BY <1>2, <1>3, <1>4

\* What AddDelta does.
LEMMA DeltaSound ==
  ASSUME NEW a, Sound(a), NEW i \in Indexes, NEW kind \in BlockKinds
  PROVE  LET b == AddDelta(a, i, kind)
         IN  /\ Sound(b)
             /\ b.closed = a.closed /\ b.sawInput = a.sawInput /\ b.stop = a.stop
             /\ ~Admits(a) => b.overflow
             /\ ~b.overflow =>
                  /\ b.order = a.order \cup {i}
                  /\ b.blocks = IF i \in a.order THEN a.blocks
                                ELSE [a.blocks EXCEPT ![i] = Opened(kind)]
  <1>1. CASE Admits(a)
    <2>1. AddDelta(a, i, kind) = Ensure(Admit(a), i, kind)
      BY <1>1 DEF AddDelta
    <2>2. Sound(Admit(a))
      BY AdmitSound
    <2> DEFINE c == Admit(a)
    <2>3. /\ c.order = a.order /\ c.blocks = a.blocks /\ c.closed = a.closed
          /\ c.sawInput = a.sawInput /\ c.stop = a.stop
      BY AdmitSound
    <2> QED
      BY <1>1, <2>1, <2>2, <2>3, EnsureSound
  <1>2. CASE ~Admits(a)
    <2>1. AddDelta(a, i, kind) = Admit(a)
      BY <1>2 DEF AddDelta
    <2> QED
      BY <1>2, <2>1, AdmitSound
  <1> QED
    BY <1>1, <1>2

\* A signature marks its block.
LEMMA SignatureSound ==
  ASSUME NEW a, Sound(a), NEW i \in Indexes
  PROVE  LET b == AddSignature(a, i)
             c == AddDelta(a, i, "thinking")
         IN  /\ Sound(b)
             /\ b.overflow = c.overflow
             /\ b.closed = c.closed /\ b.sawInput = c.sawInput /\ b.stop = c.stop
             /\ b.order = c.order
             /\ ~b.overflow =>
                  /\ b.blocks[i].kind = c.blocks[i].kind
                  /\ b.blocks[i].input = c.blocks[i].input
                  /\ b.blocks[i].signed = TRUE
                  /\ \A j \in Indexes \ {i} : b.blocks[j] = c.blocks[j]
  <1> DEFINE c == AddDelta(a, i, "thinking")
             b == AddSignature(a, i)
  <1> HIDE DEF c
  <1>1. Sound(c) /\ (~Admits(a) => c.overflow) /\ (~c.overflow => i \in c.order)
    BY DeltaSound DEF BlockKinds, c
  <1>2. c \in Aggregators
    BY <1>1 DEF Sound
  <1>3. CASE Admits(a) /\ i \in c.order
    <2>1. b = [c EXCEPT !.blocks[i].signed = TRUE]
      BY <1>3 DEF AddSignature, Known, c
    <2>2. c.blocks \in [Indexes -> Block \cup {NoBlock}] /\ c.blocks[i] # NoBlock
      BY <1>1, <1>2, <1>3 DEF Aggregators, Sound
    <2>3. c.blocks[i] \in Block
      BY <2>2
    <2> DEFINE new == [c.blocks[i] EXCEPT !.signed = TRUE]
    <2>4. /\ new \in Block
          /\ new.kind = c.blocks[i].kind /\ new.input = c.blocks[i].input
          /\ new.signed = TRUE
      BY <2>3 DEF Block
    <2>5. new # NoBlock
      BY <2>4 DEF Block, NoBlock, BlockKinds
    <2>6. b = [c EXCEPT !.blocks = [c.blocks EXCEPT ![i] = new]]
      BY <2>1
    <2> HIDE DEF new
    <2>7. /\ b.blocks = [c.blocks EXCEPT ![i] = new]
          /\ b.order = c.order /\ b.closed = c.closed /\ b.sawInput = c.sawInput
          /\ b.stop = c.stop /\ b.overflow = c.overflow /\ b.content = c.content
      BY <1>2, <2>6 DEF Aggregators
    <2>8. b.blocks \in [Indexes -> Block \cup {NoBlock}]
      BY <2>2, <2>4, <2>7
    <2>9. b \in Aggregators
      BY <1>2, <2>6, <2>7, <2>8 DEF Aggregators
    <2>10. \A j \in Indexes : b.blocks[j] # NoBlock <=> c.blocks[j] # NoBlock
      BY <2>2, <2>5, <2>7
    <2>11. b.blocks[i] = new /\ \A j \in Indexes \ {i} : b.blocks[j] = c.blocks[j]
      BY <2>2, <2>7
    <2> QED
      BY <1>1, <2>4, <2>7, <2>9, <2>10, <2>11 DEF Sound, c
  <1>4. CASE ~(Admits(a) /\ i \in c.order)
    <2>1. b = c
      BY <1>4 DEF AddSignature, Known, c
    <2> QED
      BY <1>1, <1>4, <2>1 DEF c
  <1> QED
    BY <1>3, <1>4

\* Two halves of an input join to an input that is not empty.
LEMMA JoinedType ==
  ASSUME NEW input, NEW part
  PROVE  Joined(input, part) \in Inputs /\ Joined(input, part) # ""
  BY DEF Joined, Inputs

\* A part of a tool's input is put behind what its block has.
LEMMA InputSound ==
  ASSUME NEW a, Sound(a), NEW i \in Indexes, NEW part
  PROVE  LET b == AddInput(a, i, part)
             c == AddDelta(a, i, "tool_use")
         IN  /\ Sound(b)
             /\ b.overflow = c.overflow
             /\ b.closed = c.closed /\ b.stop = c.stop /\ b.order = c.order
             /\ ~b.overflow =>
                  /\ b.blocks[i].kind = c.blocks[i].kind
                  /\ b.blocks[i].input = Joined(c.blocks[i].input, part)
                  /\ b.blocks[i].signed = c.blocks[i].signed
                  /\ \A j \in Indexes \ {i} : b.blocks[j] = c.blocks[j]
                  /\ b.sawInput = c.sawInput \cup {i}
  <1> DEFINE c == AddDelta(a, i, "tool_use")
             b == AddInput(a, i, part)
  <1> HIDE DEF c
  <1>1. Sound(c) /\ (~Admits(a) => c.overflow) /\ (~c.overflow => i \in c.order)
    BY DeltaSound DEF BlockKinds, c
  <1>2. c \in Aggregators
    BY <1>1 DEF Sound
  <1>3. CASE Admits(a) /\ i \in c.order
    <2>1. b = [c EXCEPT !.blocks[i].input = Joined(@, part), !.sawInput = @ \cup {i}]
      BY <1>3 DEF AddInput, Known, c
    <2>2. c.blocks \in [Indexes -> Block \cup {NoBlock}] /\ c.blocks[i] # NoBlock
      BY <1>1, <1>2, <1>3 DEF Aggregators, Sound
    <2>3. c.blocks[i] \in Block
      BY <2>2
    <2> DEFINE new == [c.blocks[i] EXCEPT !.input = Joined(@, part)]
    <2>4. /\ new \in Block
          /\ new.kind = c.blocks[i].kind /\ new.signed = c.blocks[i].signed
          /\ new.input = Joined(c.blocks[i].input, part)
      BY <2>3, JoinedType DEF Block
    <2>5. new # NoBlock
      BY <2>4 DEF Block, NoBlock, BlockKinds
    <2>6. b = [[c EXCEPT !.blocks = [c.blocks EXCEPT ![i] = new]]
                  EXCEPT !.sawInput = c.sawInput \cup {i}]
      BY <1>2, <2>1 DEF Aggregators
    <2> HIDE DEF new
    <2>7. /\ b.blocks = [c.blocks EXCEPT ![i] = new]
          /\ b.order = c.order /\ b.closed = c.closed
          /\ b.sawInput = c.sawInput \cup {i}
          /\ b.stop = c.stop /\ b.overflow = c.overflow /\ b.content = c.content
      BY <1>2, <2>6 DEF Aggregators
    <2>8. b.blocks \in [Indexes -> Block \cup {NoBlock}]
      BY <2>2, <2>4, <2>7
    <2>9. b \in Aggregators
      BY <1>2, <2>6, <2>7, <2>8 DEF Aggregators
    <2>10. \A j \in Indexes : b.blocks[j] # NoBlock <=> c.blocks[j] # NoBlock
      BY <2>2, <2>5, <2>7
    <2>11. b.blocks[i] = new /\ \A j \in Indexes \ {i} : b.blocks[j] = c.blocks[j]
      BY <2>2, <2>7
    <2> QED
      BY <1>1, <2>4, <2>7, <2>9, <2>10, <2>11 DEF Sound, c
  <1>4. CASE ~(Admits(a) /\ i \in c.order)
    <2>1. b = c
      BY <1>4 DEF AddInput, Known, c
    <2> QED
      BY <1>1, <1>4, <2>1 DEF c
  <1> QED
    BY <1>3, <1>4

\* The events, one kind after another.
LEMMA EventForms ==
  ASSUME NEW ev \in Events
  PROVE  \/ ev = Ev("message_start") \/ ev = Ev("message_stop")
         \/ \E i \in Indexes, k \in BlockKinds, own \in Owns : ev = StartWith(i, k, own)
         \/ \E i \in Indexes : ev = Stop(i)
         \/ \E i \in Indexes : ev = Delta("text_delta", i)
         \/ \E i \in Indexes : ev = Delta("thinking_delta", i)
         \/ \E i \in Indexes : ev = Delta("signature_delta", i)
         \/ \E i \in Indexes, p \in {"head", "tail", "free"} : ev = Input(i, p)
         \/ \E s \in StopReasons : ev = MessageDelta(s)
  <1>1. CASE \/ \E i \in Indexes, k \in BlockKinds : ev = Start(i, k)
             \/ \E i \in Indexes, k \in {"text", "thinking"} : ev = StartWith(i, k, "content")
             \/ \E i \in Indexes : ev = StartWith(i, "thinking", "signature")
    <2>1. \E i \in Indexes, k \in BlockKinds, own \in Owns : ev = StartWith(i, k, own)
      BY <1>1 DEF Start, Owns, BlockKinds
    <2> QED
      BY <2>1
  <1>2. CASE ~(\/ \E i \in Indexes, k \in BlockKinds : ev = Start(i, k)
               \/ \E i \in Indexes, k \in {"text", "thinking"} : ev = StartWith(i, k, "content")
               \/ \E i \in Indexes : ev = StartWith(i, "thinking", "signature"))
    BY <1>2 DEF Events
  <1> QED
    BY <1>1, <1>2

\* What the events that carry one index or none do to the aggregator.
LEMMA AddForms ==
  ASSUME NEW a
  PROVE  /\ Add(a, Ev("message_start")) = a
         /\ Add(a, Ev("message_stop")) = a
         /\ \A i : Add(a, Stop(i)) = [a EXCEPT !.closed = @ \cup {i}]
         /\ \A i : Add(a, Delta("text_delta", i)) = AddDelta(a, i, "text")
         /\ \A i : Add(a, Delta("thinking_delta", i)) = AddDelta(a, i, "thinking")
         /\ \A i : Add(a, Delta("signature_delta", i)) = AddSignature(a, i)
         /\ \A s : Add(a, MessageDelta(s)) = IF s # "" THEN [a EXCEPT !.stop = s] ELSE a
  BY DEF Add, Ev, Stop, Delta, MessageDelta

\* A started block, with or without room for it.
LEMMA BlockStartSound ==
  ASSUME NEW a, Sound(a), NEW i \in Indexes, NEW kind \in BlockKinds, NEW own \in Owns
  PROVE  LET b == AddBlockStart(a, i, kind, own)
         IN  /\ Sound(b)
             /\ ~b.overflow =>
                  /\ ~a.overflow
                  /\ b.order = a.order \cup {i}
                  /\ b.blocks = Replaced(a, i, kind, own)
                  /\ b.closed = a.closed /\ b.sawInput = a.sawInput /\ b.stop = a.stop
  <1>1. CASE i \notin a.order /\ Full(a)
    <2>1. AddBlockStart(a, i, kind, own) = [a EXCEPT !.overflow = TRUE]
      BY <1>1 DEF AddBlockStart, Known
    <2>2. a \in Aggregators
      BY DEF Sound
    <2>3. LET b == [a EXCEPT !.overflow = TRUE]
          IN  /\ b \in Aggregators /\ b.overflow
              /\ b.order = a.order /\ b.blocks = a.blocks
      BY <2>2 DEF Aggregators
    <2> QED
      BY <2>1, <2>3 DEF Sound
  <1>2. CASE i \in a.order \/ ~Full(a)
    <2> DEFINE c == Started(a, i, kind, own)
    <2>1. AddBlockStart(a, i, kind, own) = IF own = "" THEN c ELSE Admit(c)
      BY <1>2 DEF AddBlockStart, Known, Started
    <2>2. /\ Sound(c) /\ c.order = a.order \cup {i}
          /\ c.blocks = Replaced(a, i, kind, own)
          /\ c.closed = a.closed /\ c.sawInput = a.sawInput
          /\ c.overflow = a.overflow /\ c.stop = a.stop
      BY <1>2, StartSound
    <2> HIDE DEF c
    <2>3. CASE own = ""
      BY <2>1, <2>2, <2>3
    <2>4. CASE own # ""
      <3> DEFINE b == Admit(c)
      <3>1. Admits(c) => ~c.overflow
        BY DEF Admits
      <3>2. /\ Sound(b) /\ b.order = c.order /\ b.blocks = c.blocks
            /\ b.closed = c.closed /\ b.sawInput = c.sawInput /\ b.stop = c.stop
            /\ ~b.overflow => Admits(c)
        BY <2>2, AdmitSound
      <3>3. AddBlockStart(a, i, kind, own) = b
        BY <2>1, <2>4
      <3> HIDE DEF b
      <3> QED
        BY <2>2, <3>1, <3>2, <3>3
    <2> QED
      BY <2>3, <2>4
  <1> QED
    BY <1>1, <1>2

\* The end of a block, and a stop reason.
LEMMA EndingsSound ==
  ASSUME NEW a, Sound(a)
  PROVE  /\ \A i \in Indexes : LET b == [a EXCEPT !.closed = @ \cup {i}] IN
              /\ Sound(b) /\ b.closed = a.closed \cup {i}
              /\ b.order = a.order /\ b.blocks = a.blocks /\ b.sawInput = a.sawInput
              /\ b.stop = a.stop /\ b.overflow = a.overflow
         /\ \A s \in StopReasons : LET b == [a EXCEPT !.stop = s] IN
              /\ Sound(b) /\ b.stop = s
              /\ b.order = a.order /\ b.blocks = a.blocks /\ b.sawInput = a.sawInput
              /\ b.closed = a.closed /\ b.overflow = a.overflow
  <1>1. a \in Aggregators
    BY DEF Sound
  <1>2. ASSUME NEW i \in Indexes
        PROVE  LET b == [a EXCEPT !.closed = @ \cup {i}] IN
                 /\ b \in Aggregators /\ b.closed = a.closed \cup {i}
                 /\ b.order = a.order /\ b.blocks = a.blocks /\ b.sawInput = a.sawInput
                 /\ b.stop = a.stop /\ b.overflow = a.overflow
    BY <1>1 DEF Aggregators
  <1>3. ASSUME NEW s \in StopReasons
        PROVE  LET b == [a EXCEPT !.stop = s] IN
                 /\ b \in Aggregators /\ b.stop = s
                 /\ b.order = a.order /\ b.blocks = a.blocks /\ b.sawInput = a.sawInput
                 /\ b.closed = a.closed /\ b.overflow = a.overflow
    BY <1>1 DEF Aggregators
  <1> QED
    BY <1>2, <1>3 DEF Sound

\* Whatever the upstream sends, the gates hold.
LEMMA AddSound ==
  ASSUME NEW a, Sound(a), NEW ev \in Events
  PROVE  Sound(Add(a, ev))
  <1>1. "text" \in BlockKinds /\ "thinking" \in BlockKinds
    BY DEF BlockKinds
  <1>2. CASE ev = Ev("message_start") \/ ev = Ev("message_stop")
    <2>1. Add(a, ev) = a
      BY <1>2, AddForms, Zenon
    <2> QED
      BY <2>1
  <1>3. CASE \E i \in Indexes, k \in BlockKinds, own \in Owns : ev = StartWith(i, k, own)
    <2>1. PICK i \in Indexes, k \in BlockKinds, own \in Owns : ev = StartWith(i, k, own)
      BY <1>3
    <2>2. Add(a, StartWith(i, k, own)) = AddBlockStart(a, i, k, own)
      BY DEF Add, StartWith
    <2>3. Sound(AddBlockStart(a, i, k, own))
      BY BlockStartSound
    <2> QED
      BY <2>1, <2>2, <2>3
  <1>4. CASE \E i \in Indexes : ev = Stop(i)
    <2>1. PICK i \in Indexes : ev = Stop(i)
      BY <1>4
    <2>2. Add(a, Stop(i)) = [a EXCEPT !.closed = @ \cup {i}]
      BY AddForms
    <2>3. Sound([a EXCEPT !.closed = @ \cup {i}])
      BY EndingsSound
    <2> QED
      BY <2>1, <2>2, <2>3
  <1>5. CASE \E i \in Indexes : ev = Delta("text_delta", i)
    <2>1. PICK i \in Indexes : ev = Delta("text_delta", i)
      BY <1>5
    <2>2. Add(a, Delta("text_delta", i)) = AddDelta(a, i, "text")
      BY AddForms
    <2>3. Sound(AddDelta(a, i, "text"))
      BY <1>1, DeltaSound
    <2> QED
      BY <2>1, <2>2, <2>3
  <1>6. CASE \E i \in Indexes : ev = Delta("thinking_delta", i)
    <2>1. PICK i \in Indexes : ev = Delta("thinking_delta", i)
      BY <1>6
    <2>2. Add(a, Delta("thinking_delta", i)) = AddDelta(a, i, "thinking")
      BY AddForms
    <2>3. Sound(AddDelta(a, i, "thinking"))
      BY <1>1, DeltaSound
    <2> QED
      BY <2>1, <2>2, <2>3
  <1>7. CASE \E i \in Indexes : ev = Delta("signature_delta", i)
    <2>1. PICK i \in Indexes : ev = Delta("signature_delta", i)
      BY <1>7
    <2>2. Add(a, Delta("signature_delta", i)) = AddSignature(a, i)
      BY AddForms
    <2>3. Sound(AddSignature(a, i))
      BY SignatureSound
    <2> QED
      BY <2>1, <2>2, <2>3
  <1>8. CASE \E i \in Indexes, p \in {"head", "tail", "free"} : ev = Input(i, p)
    <2>1. PICK i \in Indexes, p \in {"head", "tail", "free"} : ev = Input(i, p)
      BY <1>8
    <2>2. Add(a, Input(i, p)) = AddInput(a, i, p)
      BY DEF Add, Input
    <2>3. Sound(AddInput(a, i, p))
      BY InputSound
    <2> QED
      BY <2>1, <2>2, <2>3
  <1>9. CASE \E s \in StopReasons : ev = MessageDelta(s)
    <2>1. PICK s \in StopReasons : ev = MessageDelta(s)
      BY <1>9
    <2>2. Add(a, MessageDelta(s)) = a \/ Add(a, MessageDelta(s)) = [a EXCEPT !.stop = s]
      BY AddForms
    <2>3. Sound([a EXCEPT !.stop = s])
      BY EndingsSound
    <2> QED
      BY <2>1, <2>2, <2>3
  <1> QED
    BY <1>2, <1>3, <1>4, <1>5, <1>6, <1>7, <1>8, <1>9, EventForms, Zenon

\* What an event can do to the blocks that are started and stopped and to the
\* stop reason: a stop closes its block, a delta names its reason, and no
\* block is forgotten as long as no limit was hit.
Touches(a, ev, b) ==
  /\ ~b.overflow => a.order \subseteq b.order
  /\ ~b.overflow /\ ev.type = "block_start" => ev.index \in b.order
  /\ \A i \in b.closed : i \in a.closed \/ (ev.type = "block_stop" /\ ev.index = i)
  /\ b.stop = a.stop \/ (ev.type = "message_delta" /\ ev.stop # "")

\* A content delta, for its operation.
LEMMA DeltaTouches ==
  ASSUME NEW a, Sound(a), NEW i \in Indexes,
         NEW kind \in {"text", "thinking", "tool_use"}, NEW b, NEW ev,
         LET c == AddDelta(a, i, kind)
         IN  b.overflow = c.overflow /\ b.closed = c.closed /\ b.stop = c.stop
             /\ b.order = c.order,
         ev.type # "block_start"
  PROVE  Touches(a, ev, b)
  <1> DEFINE c == AddDelta(a, i, kind)
  <1>1. a \in Aggregators
    BY DEF Sound
  <1>2. b.overflow = c.overflow /\ b.closed = c.closed /\ b.stop = c.stop /\ b.order = c.order
    OBVIOUS
  <1>3. c.closed = a.closed /\ c.stop = a.stop
    BY <1>1 DEF AddDelta, Ensure, Admit, Aggregators
  <1>4. c.overflow \/ a.order \subseteq c.order
    BY <1>1 DEF AddDelta, Ensure, Admit, Aggregators
  <1> HIDE DEF c
  <1> QED
    BY <1>2, <1>3, <1>4 DEF Touches

\* Every event, for every aggregator.
LEMMA AddTouches ==
  ASSUME NEW a, Sound(a), NEW ev \in Events
  PROVE  Touches(a, ev, Add(a, ev))
  <1>1. a \in Aggregators
    BY DEF Sound
  <1>2. CASE ev = Ev("message_start") \/ ev = Ev("message_stop")
    <2>1. Add(a, ev) = a
      BY <1>2, AddForms
    <2>2. ev.type \in {"message_start", "message_stop"}
      BY <1>2 DEF Ev
    <2> QED
      BY <2>1, <2>2 DEF Touches
  <1>3. CASE \E i \in Indexes, k \in BlockKinds, own \in Owns : ev = StartWith(i, k, own)
    <2>1. PICK i \in Indexes, k \in BlockKinds, own \in Owns : ev = StartWith(i, k, own)
      BY <1>3
    <2> DEFINE b == AddBlockStart(a, i, k, own)
    <2>2. Add(a, ev) = b
      BY <2>1 DEF Add, StartWith
    <2>3. ev.type = "block_start" /\ ev.index = i
      BY <2>1 DEF StartWith
    <2>4. b.closed = a.closed /\ b.stop = a.stop
      BY <1>1 DEF AddBlockStart, Aggregators, Admit
    <2>5. b.overflow \/ b.order = a.order \cup {i}
      BY BlockStartSound
    <2> HIDE DEF b
    <2> QED
      BY <2>2, <2>3, <2>4, <2>5 DEF Touches
  <1>4. CASE \E i \in Indexes : ev = Stop(i)
    <2>1. PICK i \in Indexes : ev = Stop(i)
      BY <1>4
    <2> DEFINE b == [a EXCEPT !.closed = @ \cup {i}]
    <2>2. Add(a, ev) = b
      BY <2>1, AddForms
    <2>3. ev.type = "block_stop" /\ ev.index = i
      BY <2>1 DEF Stop
    <2>4. b.order = a.order /\ b.stop = a.stop /\ b.closed = a.closed \cup {i}
      BY <1>1 DEF Aggregators
    <2> HIDE DEF b
    <2> QED
      BY <2>2, <2>3, <2>4 DEF Touches
  <1>5. ASSUME NEW i \in Indexes,
               \/ ev = Delta("text_delta", i) \/ ev = Delta("thinking_delta", i)
               \/ ev = Delta("signature_delta", i)
        PROVE  Touches(a, ev, Add(a, ev))
    <2>1. ev.type # "block_start"
      BY <1>5 DEF Delta
    <2>2. CASE ev = Delta("text_delta", i)
      <3>1. Add(a, ev) = AddDelta(a, i, "text")
        BY <2>2, AddForms
      <3> QED
        BY <2>1, <3>1, DeltaTouches
    <2>3. CASE ev = Delta("thinking_delta", i)
      <3>1. Add(a, ev) = AddDelta(a, i, "thinking")
        BY <2>3, AddForms
      <3> QED
        BY <2>1, <3>1, DeltaTouches
    <2>4. CASE ev = Delta("signature_delta", i)
      <3>1. Add(a, ev) = AddSignature(a, i)
        BY <2>4, AddForms
      <3> QED
        BY <2>1, <3>1, SignatureSound, DeltaTouches
    <2> QED
      BY <1>5, <2>2, <2>3, <2>4
  <1>6. CASE \E i \in Indexes, p \in {"head", "tail", "free"} : ev = Input(i, p)
    <2>1. PICK i \in Indexes, p \in {"head", "tail", "free"} : ev = Input(i, p)
      BY <1>6
    <2>2. Add(a, ev) = AddInput(a, i, p)
      BY <2>1 DEF Add, Input
    <2>3. ev.type # "block_start"
      BY <2>1 DEF Input
    <2> QED
      BY <2>2, <2>3, InputSound, DeltaTouches
  <1>7. CASE \E s \in StopReasons : ev = MessageDelta(s)
    <2>1. PICK s \in StopReasons : ev = MessageDelta(s)
      BY <1>7
    <2> DEFINE b == [a EXCEPT !.stop = s]
    <2>2. ev.type = "message_delta" /\ ev.stop = s
      BY <2>1 DEF MessageDelta
    <2>3. Add(a, ev) = IF s # "" THEN b ELSE a
      BY <2>1, AddForms
    <2>4. b.order = a.order /\ b.closed = a.closed
      BY <1>1 DEF Aggregators
    <2> HIDE DEF b
    <2> QED
      BY <2>2, <2>3, <2>4, Zenon DEF Touches
  <1> QED
    BY <1>2, <1>3, <1>4, <1>5, <1>6, <1>7, EventForms, Zenon
=============================================================================
