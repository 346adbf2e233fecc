-------------------------- MODULE TranslationProofs --------------------------
(***************************************************************************)
(* Proofs about an answer on its way from an upstream to a client, for     *)
(* every pair of protocols and every bound on blocks and frames: every     *)
(* variable keeps its type, and the end the client is told is honest.      *)
(*                                                                         *)
(* The decoders, the encoders and the bridge are loops, which are folds    *)
(* here.  What a loop keeps is proved by instantiating FoldFacts with the  *)
(* step of the loop and with what it keeps.                                *)
(***************************************************************************)
EXTENDS Translation, FiniteSetTheorems, TLAPS

-----------------------------------------------------------------------------
(* Sequences.                                                              *)

IsList(s) == s \in Seq(ToSet(s))

\* A sequence over a set is a sequence, with members in the set.
LEMMA ListOf ==
  ASSUME NEW E, NEW s \in Seq(E)
  PROVE  IsList(s) /\ \A i \in DOMAIN s : s[i] \in E
  <1>1. \A i \in DOMAIN s : s[i] \in ToSet(s) BY DEF ToSet
  <1>2. s \in Seq(ToSet(s)) BY <1>1
  <1> QED BY <1>2 DEF IsList

\* A sequence goes from 1 to its length.
LEMMA Listed ==
  ASSUME NEW s, IsList(s)
  PROVE  Len(s) \in Nat /\ DOMAIN s = 1..Len(s)
  BY DEF IsList

\* A function on the numbers up to some number is a sequence.
LEMMA ListMade ==
  ASSUME NEW n \in Nat, NEW s, s = [i \in 1..n |-> s[i]]
  PROVE  IsList(s) /\ Len(s) = n
  <1>1. \A i \in 1..n : s[i] \in ToSet(s) BY DEF ToSet
  <1>2. s \in [1..n -> ToSet(s)] BY <1>1
  <1>3. s \in Seq(ToSet(s)) BY <1>2
  <1>4. DOMAIN s = 1..n OBVIOUS
  <1>5. Len(s) = n BY <1>3, <1>4
  <1> QED BY <1>3, <1>5 DEF IsList

\* The empty sequence.
LEMMA ListEmpty == IsList(<<>>) /\ DOMAIN <<>> = {} /\ Len(<<>>) = 0
  BY DEF IsList

\* Appending, by indexes.
LEMMA ListAppended ==
  ASSUME NEW s, IsList(s), NEW t
  PROVE  LET r == Append(s, t) IN
         /\ IsList(r)
         /\ Len(s) \in Nat /\ Len(r) = Len(s) + 1
         /\ DOMAIN s = 1..Len(s) /\ DOMAIN r = 1..(Len(s) + 1)
         /\ \A i \in 1..Len(s) : r[i] = s[i]
         /\ r[Len(s) + 1] = t
  <1> DEFINE E == ToSet(s) \cup {t}
             r == Append(s, t)
  <1>1. s \in Seq(ToSet(s)) BY DEF IsList
  <1>2. ToSet(s) \subseteq E OBVIOUS
  <1>3. t \in E OBVIOUS
  <1> HIDE DEF E
  <1>4. s \in Seq(E) BY <1>1, <1>2
  <1>5. r \in Seq(E) BY <1>3, <1>4
  <1>6. IsList(r) BY <1>5, ListOf
  <1> QED BY <1>3, <1>4, <1>5, <1>6

\* Concatenation, by members.
LEMMA ListConcatenated ==
  ASSUME NEW s, IsList(s), NEW t, IsList(t)
  PROVE  LET r == s \o t IN
         /\ IsList(r)
         /\ Len(s) \in Nat /\ Len(t) \in Nat /\ Len(r) = Len(s) + Len(t)
         /\ DOMAIN s = 1..Len(s) /\ DOMAIN t = 1..Len(t)
         /\ DOMAIN r = 1..(Len(s) + Len(t))
         /\ \A i \in 1..Len(s) : r[i] = s[i]
         /\ \A i \in 1..Len(t) : r[Len(s) + i] = t[i]
         /\ \A k \in DOMAIN r : \/ k \in DOMAIN s /\ r[k] = s[k]
                                \/ k - Len(s) \in DOMAIN t /\ r[k] = t[k - Len(s)]
  <1> DEFINE E == ToSet(s) \cup ToSet(t)
             r == s \o t
  <1>1. s \in Seq(ToSet(s)) /\ t \in Seq(ToSet(t)) BY DEF IsList
  <1>2. ToSet(s) \subseteq E /\ ToSet(t) \subseteq E OBVIOUS
  <1> HIDE DEF E
  <1>3. s \in Seq(E) /\ t \in Seq(E) BY <1>1, <1>2
  <1>4. r \in Seq(E) BY <1>3
  <1>5. IsList(r) BY <1>4, ListOf
  <1>6. /\ Len(s) \in Nat /\ Len(t) \in Nat /\ Len(r) = Len(s) + Len(t)
        /\ DOMAIN s = 1..Len(s) /\ DOMAIN t = 1..Len(t)
        /\ DOMAIN r = 1..(Len(s) + Len(t))
        /\ \A i \in 1..Len(s) : r[i] = s[i]
        /\ \A i \in 1..Len(t) : r[Len(s) + i] = t[i]
    BY <1>3, <1>4
  <1> HIDE DEF r
  <1>7. ASSUME NEW k \in DOMAIN r
        PROVE  \/ k \in DOMAIN s /\ r[k] = s[k]
               \/ k - Len(s) \in DOMAIN t /\ r[k] = t[k - Len(s)]
    <2>1. CASE k <= Len(s) BY <1>6, <2>1
    <2>2. CASE k > Len(s)
      <3>1. k - Len(s) \in 1..Len(t) /\ Len(s) + (k - Len(s)) = k BY <1>6, <2>2
      <3> QED BY <1>6, <3>1
    <2> QED BY <1>6, <2>1, <2>2
  <1> QED BY <1>5, <1>6, <1>7 DEF r

\* A changed entry.
LEMMA ListChanged ==
  ASSUME NEW s, IsList(s), NEW i, NEW v
  PROVE  IsList([s EXCEPT ![i] = v])
  <1> DEFINE r == [s EXCEPT ![i] = v]
  <1>1. Len(s) \in Nat /\ DOMAIN s = 1..Len(s) BY Listed
  <1>2. r = [j \in 1..Len(s) |-> r[j]] BY <1>1
  <1> HIDE DEF r
  <1>3. IsList(r) BY <1>1, <1>2, ListMade
  <1> QED BY <1>3 DEF r

-----------------------------------------------------------------------------
(* Events.                                                                 *)

\* What the encoders and the aggregator know how to take.
EventTypes == {"message_start", "block_start", "block_stop", "text_delta",
               "thinking_delta", "signature_delta", "tool_input", "message_delta",
               "message_stop", "ping", "error"}

IsEvent(ev) == ev.type \in EventTypes /\ (ev.type = "block_start" => ev.kind \in Kinds)

\* A sequence of events.
AreEvents(s) == IsList(s) /\ \A n \in DOMAIN s : IsEvent(s[n])

\* One of them reports an error.
HasError(s) == \E n \in DOMAIN s : s[n].type = "error"

\* One more event.
LEMMA OneMoreEvent ==
  ASSUME NEW s, AreEvents(s), NEW ev, IsEvent(ev)
  PROVE  LET r == Append(s, ev) IN
         AreEvents(r) /\ (HasError(r) <=> HasError(s) \/ ev.type = "error")
  <1> DEFINE r == Append(s, ev)
  <1>1. /\ IsList(r)
        /\ Len(s) \in Nat /\ Len(r) = Len(s) + 1
        /\ DOMAIN s = 1..Len(s) /\ DOMAIN r = 1..(Len(s) + 1)
        /\ \A i \in 1..Len(s) : r[i] = s[i]
        /\ r[Len(s) + 1] = ev
    BY ListAppended DEF AreEvents
  <1> HIDE DEF r
  <1>2. \A n \in DOMAIN r : (n \in DOMAIN s /\ r[n] = s[n]) \/ r[n] = ev BY <1>1
  <1>3. (\A n \in DOMAIN s : n \in DOMAIN r /\ r[n] = s[n]) /\ Len(s) + 1 \in DOMAIN r
    BY <1>1
  <1>4. AreEvents(r) BY <1>1, <1>2 DEF AreEvents
  <1>5. HasError(r) <=> HasError(s) \/ ev.type = "error"
    BY <1>1, <1>2, <1>3 DEF HasError
  <1> QED BY <1>4, <1>5 DEF r

\* No event at all.
LEMMA NoEvents == AreEvents(<<>>) /\ ~HasError(<<>>)
  BY ListEmpty DEF AreEvents, HasError

-----------------------------------------------------------------------------
(* The decoder of an anthropic upstream.                                   *)

AnthropicReady(d) == DOMAIN d = {"stopped", "out"} /\ AreEvents(d.out)

\* What it does keeps it ready, and forgets no error.
AnthropicGoes(d, r) ==
  AnthropicReady(r) /\ (HasError(d.out) => HasError(r.out))

\* The frames it takes.
AnthropicFrameOK(f) ==
  /\ f.type \in {"content_block_start", "content_block_delta", "content_block_stop",
                 "message_delta", "message_stop", "message_start", "ping", "error"}
  /\ f.type = "content_block_start" => f.kind \in Kinds
  /\ f.type = "content_block_delta" =>
       f.kind \in {"text", "thinking", "input_json", "signature"}

\* What it emits is told.
LEMMA AnthropicEmits ==
  ASSUME NEW d, AnthropicReady(d), NEW ev, IsEvent(ev)
  PROVE  LET r == Anthropic!Emit(d, ev) IN
         AnthropicGoes(d, r) /\ (ev.type = "error" => HasError(r.out))
  <1> DEFINE r == Anthropic!Emit(d, ev)
  <1>1. DOMAIN r = DOMAIN d /\ r.out = Append(d.out, ev)
    BY DEF Anthropic!Emit, AnthropicReady
  <1> HIDE DEF r
  <1> QED BY <1>1, OneMoreEvent DEF AnthropicGoes, AnthropicReady, r

\* Any of its frames keeps it ready, and an error among them is told.
LEMMA AnthropicFeeds ==
  ASSUME NEW d, AnthropicReady(d), NEW f, AnthropicFrameOK(f)
  PROVE  LET r == Anthropic!Feed(d, f) IN
         AnthropicReady(r) /\ (f.type = "error" => HasError(r.out))
  <1>1. ASSUME f.type = "content_block_start"
        PROVE  AnthropicReady(Anthropic!Start(d, f))
    <2>1. IsEvent(Anthropic!BlockStart(f.index, f.kind, f.id))
      BY <1>1 DEF IsEvent, EventTypes, AnthropicFrameOK, Anthropic!BlockStart,
                  Anthropic!About, Anthropic!Event
    <2>2. IsEvent(Anthropic!DeltaOf("tool_input", f.index, f.text))
      BY DEF IsEvent, EventTypes, Anthropic!DeltaOf, Anthropic!About, Anthropic!Event
    <2> QED BY <2>1, <2>2, AnthropicEmits DEF Anthropic!Start, AnthropicGoes
  <1>2. ASSUME f.type = "content_block_delta"
        PROVE  IsEvent(Anthropic!Delta(f))
    BY <1>2 DEF IsEvent, EventTypes, AnthropicFrameOK, Anthropic!Delta, Anthropic!DeltaEvent,
                Anthropic!DeltaOf, Anthropic!Signature, Anthropic!About, Anthropic!Event
  <1>3. IsEvent(Anthropic!BlockStop(f.index)) /\ IsEvent(Anthropic!MessageDelta(f.stop))
    BY DEF IsEvent, EventTypes, Anthropic!BlockStop, Anthropic!MessageDelta,
           Anthropic!About, Anthropic!Event
  <1>4. \A t \in {"message_start", "message_stop", "ping", "error"} :
           IsEvent(Anthropic!Event(t)) /\ Anthropic!Event(t).type = t
    BY DEF IsEvent, EventTypes, Anthropic!Event
  <1>5. AnthropicReady([d EXCEPT !.stopped = TRUE]) BY DEF AnthropicReady
  <1> QED BY <1>1, <1>2, <1>3, <1>4, <1>5, AnthropicEmits
          DEF Anthropic!Feed, AnthropicFrameOK, AnthropicGoes

\* The end of the stream keeps it ready.
LEMMA AnthropicFinishes ==
  ASSUME NEW d, AnthropicReady(d)
  PROVE  AnthropicReady(Anthropic!Finish(d))
  <1>1. IsEvent(Anthropic!Event("message_stop"))
    BY DEF IsEvent, EventTypes, Anthropic!Event
  <1>2. AnthropicReady([d EXCEPT !.stopped = TRUE]) BY DEF AnthropicReady
  <1> QED BY <1>1, <1>2, AnthropicEmits DEF Anthropic!Finish, AnthropicGoes

-----------------------------------------------------------------------------
(* The decoder of a chat upstream.                                         *)

\* What its loops rely on: the order of the blocks is a sequence, the
\* indexes in use are finitely many.
ChatReady(d) ==
  /\ DOMAIN d = {"started", "done", "next", "order", "slots", "tools", "at", "byID",
                 "stop", "out"}
  /\ AreEvents(d.out) /\ IsList(d.order) /\ IsFiniteSet(DOMAIN d.at)

\* The frames it takes.
ChatFrameOK(f) ==
  f.type \in {"chunk", "done", "error"} /\ (f.type = "chunk" => IsList(f.calls))

\* One event more.
LEMMA ChatEmits ==
  ASSUME NEW d, ChatReady(d), NEW ev, IsEvent(ev)
  PROVE  LET r == Chat!Emit(d, ev) IN
         ChatReady(r) /\ (ev.type = "error" => HasError(r.out))
  <1> DEFINE r == Chat!Emit(d, ev)
  <1>1. /\ DOMAIN r = DOMAIN d /\ r.out = Append(d.out, ev)
        /\ r.order = d.order /\ r.at = d.at
    BY DEF Chat!Emit, ChatReady
  <1> HIDE DEF r
  <1> QED BY <1>1, OneMoreEvent DEF ChatReady, r

\* The events it makes.
LEMMA ChatEvents ==
  /\ \A i, kind, id : kind \in Kinds => IsEvent(Chat!BlockStart(i, kind, id))
  /\ \A i : IsEvent(Chat!BlockStop(i))
  /\ \A type, i, text : type \in {"text_delta", "thinking_delta", "tool_input"} =>
       IsEvent(Chat!DeltaOf(type, i, text))
  /\ \A stop : IsEvent(Chat!MessageDelta(stop))
  /\ \A type \in {"message_start", "message_stop", "error"} :
       IsEvent(Chat!Event(type)) /\ Chat!Event(type).type = type
  BY DEF IsEvent, EventTypes, Chat!BlockStart, Chat!BlockStop, Chat!DeltaOf, Chat!MessageDelta,
         Chat!About, Chat!Event

\* Text, refusals and reasoning.
LEMMA ChatSaid ==
  ASSUME NEW d, ChatReady(d), NEW key, NEW kind \in Kinds, NEW text,
         NEW type \in {"text_delta", "thinking_delta", "tool_input"}
  PROVE  ChatReady(Chat!Say(d, key, kind, type, text))
  <1>1. ChatReady(Chat!Slot(d, key, kind))
    <2> DEFINE a == [Chat!AllocIndex(d) EXCEPT !.slots = Chat!With(@, key, d.next)]
    <2>1. DOMAIN a = DOMAIN d /\ a.out = d.out /\ a.order = Append(d.order, d.next)
          /\ a.at = d.at
      BY DEF Chat!AllocIndex, ChatReady
    <2> HIDE DEF a
    <2>2. ChatReady(a) BY <2>1, ListAppended DEF ChatReady
    <2> QED BY <2>2, ChatEmits, ChatEvents DEF Chat!Slot, a
  <1> QED BY <1>1, ChatEmits, ChatEvents DEF Chat!Say

\* A call is announced.
LEMMA ChatAnnounces ==
  ASSUME NEW d, ChatReady(d), NEW s
  PROVE  ChatReady(Chat!Announce(d, s))
  <1>1. \A t : ChatReady([d EXCEPT !.tools[s] = t]) BY DEF ChatReady
  <1>2. "tool_use" \in Kinds BY DEF Kinds
  <1> DEFINE t == d.tools[s]
             id == IF t.id = "" THEN "synth" ELSE t.id
             base == [d EXCEPT !.tools[s] = [t EXCEPT !.id = id, !.announced = TRUE,
                                                      !.pending = <<>>]]
             begun == Chat!Emit(base, Chat!BlockStart(t.index, "tool_use", id))
  <1>3. Chat!Announce(d, s)
        = IF t.pending = <<>> THEN begun
          ELSE Chat!Emit(begun, Chat!DeltaOf("tool_input", t.index, t.pending))
    BY Zenon DEF Chat!Announce
  <1>4. ChatReady(base) BY <1>1
  <1> HIDE DEF t, id, base
  <1>5. ChatReady(begun) BY <1>2, <1>4, ChatEmits, ChatEvents
  <1> HIDE DEF begun
  <1> QED BY <1>3, <1>5, ChatEmits, ChatEvents

\* One fragment of a call.
LEMMA ChatCallTaken ==
  ASSUME NEW d, ChatReady(d), NEW c
  PROVE  ChatReady(Chat!TakeCall(d, c))
  <1> DEFINE located == Chat!Located(d, c)
             s == Chat!SlotOf(d, c)
             k == Chat!Identified(located, s, c)
  <1>1. ChatReady(located)
    <2>1. \A x : DOMAIN Chat!With(d.at, c.n, x) = DOMAIN d.at \cup {c.n}
      BY DEF Chat!With
    <2>2. IsFiniteSet(DOMAIN d.at \cup {c.n}) BY FS_AddElement DEF ChatReady
    <2>3. ChatReady([Chat!AllocIndex(d) EXCEPT !.tools = Append(@, Chat!NewSlot(d)),
                                              !.at = Chat!With(@, c.n, Len(d.tools) + 1)])
      BY <2>1, <2>2, ListAppended DEF ChatReady, Chat!AllocIndex
    <2>4. \A x : ChatReady([d EXCEPT !.at = Chat!With(@, c.n, x)])
      BY <2>1, <2>2 DEF ChatReady
    <2> QED BY <2>3, <2>4 DEF Chat!Located
  <1> HIDE DEF located, s
  <1>2. ChatReady(k) BY <1>1 DEF Chat!Identified, ChatReady
  <1>3. ChatReady([k EXCEPT !.tools[s].pending = @ \o c.args])
    <2> HIDE DEF k
    <2> QED BY <1>2 DEF ChatReady
  <1> HIDE DEF k
  <1> QED BY <1>2, <1>3, ChatEmits, ChatEvents, ChatAnnounces
          DEF Chat!TakeCall, k, s, located

\* The loops: over the fragments of a chunk, over the calls that wait for
\* their name, over the blocks to be stopped.
CallStep(env, acc, c) == Chat!TakeCall(acc, c)
AnnounceStep(env, acc, n) == Chat!Announce(acc, env.at[n])
StopStep(env, acc, i) == Chat!Emit(acc, Chat!BlockStop(i))
StaysChat(given, k, acc) == ChatReady(acc)

CallF == INSTANCE FoldFacts WITH Op <- CallStep, Holds <- StaysChat
AnnounceF == INSTANCE FoldFacts WITH Op <- AnnounceStep, Holds <- StaysChat
StopF == INSTANCE FoldFacts WITH Op <- StopStep, Holds <- StaysChat

\* All fragments of a chunk.
LEMMA ChatCallsTaken ==
  ASSUME NEW d, ChatReady(d), NEW seq, IsList(seq)
  PROVE  ChatReady(FoldLeft(Chat!TakeCall, d, seq))
  <1> DEFINE r == FoldLeft(Chat!TakeCall, d, seq)
  <1>1. r = CallF!Fold(<<>>, d, seq)
    BY DEF CallF!Fold, CallStep, FoldLeft, MapThenFoldSet, Max, CallF!GreatestOf
  <1>2. \A acc : \A k \in 1..Len(seq) :
           StaysChat(<<>>, k - 1, acc) => StaysChat(<<>>, k, CallStep(<<>>, acc, seq[k]))
    BY ChatCallTaken DEF StaysChat, CallStep
  <1>3. StaysChat(<<>>, 0, d) BY DEF StaysChat
  <1>4. Len(seq) \in Nat /\ DOMAIN seq = 1..Len(seq) BY Listed
  <1> HIDE DEF r
  <1>5. StaysChat(<<>>, Len(seq), CallF!Fold(<<>>, d, seq))
    BY <1>2, <1>3, <1>4, CallF!FoldKeeps
  <1> QED BY <1>1, <1>5 DEF StaysChat, r

\* The calls that wait, in a sequence.
LEMMA ChatWaiting ==
  ASSUME NEW d, ChatReady(d)
  PROVE  \E n \in Nat : DOMAIN Chat!Waiting(d) = 1..n
  <1> DEFINE W == {n \in DOMAIN d.at : ~d.tools[d.at[n]].announced}
  <1>1. IsFiniteSet(W)
    <2>1. W \subseteq DOMAIN d.at OBVIOUS
    <2> QED BY <2>1, FS_Subset DEF ChatReady
  <1>2. Cardinality(W) \in Nat BY <1>1, FS_CardinalityType
  <1>3. DOMAIN Chat!Waiting(d) = 1..Cardinality(W)
    BY DEF Chat!Waiting, Chat!InOrder, Chat!Cardinality, Cardinality
  <1> QED BY <1>2, <1>3

\* All of them announced.
LEMMA ChatPendingAnnounced ==
  ASSUME NEW d, ChatReady(d)
  PROVE  ChatReady(Chat!AnnouncePending(d))
  <1> DEFINE seq == Chat!Waiting(d)
             r == Chat!AnnouncePending(d)
  <1>1. PICK n \in Nat : DOMAIN seq = 1..n BY ChatWaiting
  <1>2. r = AnnounceF!Fold(d, d, seq)
    <2> HIDE DEF seq
    <2>1. r = FoldLeft(LAMBDA acc, m : Chat!Announce(acc, d.at[m]), d, seq)
      BY DEF Chat!AnnouncePending, Chat!Loop, Chat!MapThenFoldSet, Chat!Greatest, seq,
             FoldLeft, MapThenFoldSet, Max
    <2> HIDE DEF r
    <2> QED BY <2>1 DEF AnnounceF!Fold, AnnounceStep, FoldLeft, MapThenFoldSet,
           Max, AnnounceF!GreatestOf
  <1>3. \A acc : \A k \in 1..n :
           StaysChat(<<>>, k - 1, acc) => StaysChat(<<>>, k, AnnounceStep(d, acc, seq[k]))
    BY ChatAnnounces DEF StaysChat, AnnounceStep
  <1>4. StaysChat(<<>>, 0, d) BY DEF StaysChat
  <1> HIDE DEF r, seq
  <1>5. StaysChat(<<>>, n, AnnounceF!Fold(d, d, seq))
    BY <1>1, <1>3, <1>4, AnnounceF!FoldKeeps
  <1> QED BY <1>2, <1>5 DEF StaysChat, r

\* All blocks stopped.
LEMMA ChatCloses ==
  ASSUME NEW d, ChatReady(d)
  PROVE  ChatReady(Chat!CloseAll(d))
  <1> DEFINE base == Chat!AnnouncePending(d)
             seq == d.order
             stopped == FoldLeft(LAMBDA acc, i : Chat!Emit(acc, Chat!BlockStop(i)), base, seq)
  <1>1. stopped = StopF!Fold(<<>>, base, seq)
    <2> HIDE DEF base, seq
    <2> QED BY DEF StopF!Fold, StopStep, FoldLeft, MapThenFoldSet, Max, StopF!GreatestOf
  <1>2. \A acc : \A k \in 1..Len(seq) :
           StaysChat(<<>>, k - 1, acc) => StaysChat(<<>>, k, StopStep(<<>>, acc, seq[k]))
    BY ChatEmits, ChatEvents DEF StaysChat, StopStep
  <1>3. StaysChat(<<>>, 0, base) BY ChatPendingAnnounced DEF StaysChat
  <1>4. Len(seq) \in Nat /\ DOMAIN seq = 1..Len(seq) BY Listed DEF ChatReady
  <1>5. Chat!CloseAll(d) = [stopped EXCEPT !.order = <<>>]
    BY DEF Chat!CloseAll, Chat!Loop, Chat!MapThenFoldSet, Chat!Greatest,
           FoldLeft, MapThenFoldSet, Max
  <1> HIDE DEF stopped, base, seq
  <1>6. StaysChat(<<>>, Len(seq), stopped)
    BY <1>1, <1>2, <1>3, <1>4, StopF!FoldKeeps
  <1> QED BY <1>5, <1>6, ListEmpty DEF StaysChat, ChatReady

\* The end of the stream.
LEMMA ChatFinishes ==
  ASSUME NEW d, ChatReady(d)
  PROVE  ChatReady(Chat!Finish(d))
  <1>1. ChatReady([d EXCEPT !.done = TRUE]) BY DEF ChatReady
  <1>2. ChatReady(Chat!CloseAll([d EXCEPT !.done = TRUE])) BY <1>1, ChatCloses
  <1> QED BY <1>2, ChatEmits, ChatEvents DEF Chat!Finish

\* One frame.
LEMMA ChatFeeds ==
  ASSUME NEW d, ChatReady(d), NEW f, ChatFrameOK(f)
  PROVE  LET r == Chat!Feed(d, f) IN
         ChatReady(r) /\ (f.type = "error" => HasError(r.out))
  <1>1. CASE f.type = "chunk"
    <2> DEFINE a == Chat!EnsureStarted(d)
               b == Chat!Say(a, "reasoning", "thinking", "thinking_delta", f.reasoning)
               c == Chat!Say(b, "refusal", "refusal", "text_delta", f.refusal)
               e == Chat!Say(c, "text", "text", "text_delta", f.text)
               said == FoldLeft(Chat!TakeCall, e, f.calls)
    <2>1. ChatReady(a)
      <3>1. ChatReady([d EXCEPT !.started = TRUE]) BY DEF ChatReady
      <3> QED BY <3>1, ChatEmits, ChatEvents DEF Chat!EnsureStarted
    <2>2. {"thinking", "refusal", "text"} \subseteq Kinds BY DEF Kinds
    <2> HIDE DEF a
    <2>3. ChatReady(b) BY <2>1, <2>2, ChatSaid
    <2> HIDE DEF b
    <2>4. ChatReady(c) BY <2>2, <2>3, ChatSaid
    <2> HIDE DEF c
    <2>5. ChatReady(e) BY <2>2, <2>4, ChatSaid
    <2> HIDE DEF e
    <2>6. ChatReady(said) BY <1>1, <2>5, ChatCallsTaken DEF ChatFrameOK
    <2>7. Chat!Chunk(d, f)
          = IF f.finish = "" THEN said ELSE Chat!CloseAll([said EXCEPT !.stop = f.finish])
      BY Zenon DEF Chat!Chunk, Chat!Loop, Chat!MapThenFoldSet, Chat!Greatest,
             FoldLeft, MapThenFoldSet, Max, a, b, c, e
    <2>8. ChatReady([said EXCEPT !.stop = f.finish])
      <3> HIDE DEF said
      <3> QED BY <2>6 DEF ChatReady
    <2> HIDE DEF said
    <2>9. ChatReady(Chat!Chunk(d, f)) BY <2>6, <2>7, <2>8, ChatCloses
    <2> QED BY <1>1, <2>9 DEF Chat!Feed
  <1>2. CASE f.type # "chunk"
    BY <1>2, ChatFinishes, ChatEmits, ChatEvents DEF Chat!Feed, ChatFrameOK
  <1> QED BY <1>1, <1>2

-----------------------------------------------------------------------------
(* The decoder of a gemini upstream.                                       *)

GeminiReady(d) ==
  /\ DOMAIN d = {"started", "done", "next", "current", "emitted", "sawCall", "stop", "out"}
  /\ AreEvents(d.out)

\* The frames it takes.
GeminiFrameOK(f) ==
  f.type # "error" =>
    /\ IsList(f.parts)
    /\ \A n \in DOMAIN f.parts : f.parts[n].type \in {"functionCall", "thought", "text"}

\* One event more.
LEMMA GeminiEmits ==
  ASSUME NEW d, GeminiReady(d), NEW ev, IsEvent(ev)
  PROVE  LET r == Gemini!Emit(d, ev) IN
         GeminiReady(r) /\ (ev.type = "error" => HasError(r.out))
  <1> DEFINE r == Gemini!Emit(d, ev)
  <1>1. DOMAIN r = DOMAIN d /\ r.out = Append(d.out, ev)
    BY DEF Gemini!Emit, GeminiReady
  <1> HIDE DEF r
  <1> QED BY <1>1, OneMoreEvent DEF GeminiReady, r

\* The events it makes.
LEMMA GeminiEvents ==
  /\ \A i, kind, id : kind \in Kinds => IsEvent(Gemini!BlockStart(i, kind, id))
  /\ \A i : IsEvent(Gemini!BlockStop(i))
  /\ \A i, signer : IsEvent(Gemini!Signature(i, signer))
  /\ \A type, i, text : type \in {"text_delta", "thinking_delta", "tool_input"} =>
       IsEvent(Gemini!DeltaOf(type, i, text))
  /\ \A stop : IsEvent(Gemini!MessageDelta(stop))
  /\ \A type \in {"message_start", "message_stop", "error"} :
       IsEvent(Gemini!Event(type)) /\ Gemini!Event(type).type = type
  BY DEF IsEvent, EventTypes, Gemini!BlockStart, Gemini!BlockStop, Gemini!DeltaOf,
         Gemini!Signature, Gemini!MessageDelta, Gemini!About, Gemini!Event

\* The current block ends.
LEMMA GeminiClosesCurrent ==
  ASSUME NEW d, GeminiReady(d)
  PROVE  GeminiReady(Gemini!CloseCurrent(d))
  <1>1. \A x : GeminiReady([d EXCEPT !.current = x]) BY DEF GeminiReady
  <1> QED BY <1>1, GeminiEmits, GeminiEvents DEF Gemini!CloseCurrent

\* Another one begins.
LEMMA GeminiSwitches ==
  ASSUME NEW d, GeminiReady(d), NEW kind \in Kinds
  PROVE  GeminiReady(Gemini!SwitchTo(d, kind))
  <1> DEFINE c == Gemini!CloseCurrent(d)
             a == [c EXCEPT !.current = [index |-> d.next, kind |-> kind], !.next = @ + 1]
  <1>1. GeminiReady(c) BY GeminiClosesCurrent
  <1> HIDE DEF c
  <1>2. GeminiReady(a) BY <1>1 DEF GeminiReady
  <1> HIDE DEF a
  <1>3. Gemini!SwitchTo(d, kind)
        = IF d.current.kind = kind THEN d ELSE Gemini!Emit(a, Gemini!BlockStart(d.next, kind, ""))
    BY Zenon DEF Gemini!SwitchTo, a, c
  <1> QED BY <1>2, <1>3, GeminiEmits, GeminiEvents

\* One part of a frame.
LEMMA GeminiPartDecoded ==
  ASSUME NEW d, GeminiReady(d), NEW part, part.type \in {"functionCall", "thought", "text"}
  PROVE  GeminiReady(Gemini!DecodePart(d, part))
  <1>0. "text" \in Kinds /\ "thinking" \in Kinds /\ "tool_use" \in Kinds BY DEF Kinds
  <1>1. GeminiReady(Gemini!Call(d, part))
    <2> DEFINE c == Gemini!CloseCurrent(d)
               s == [c EXCEPT !.sawCall = TRUE, !.next = @ + 1]
    <2>1. GeminiReady(c) BY GeminiClosesCurrent
    <2> HIDE DEF c
    <2>2. GeminiReady(s) BY <2>1 DEF GeminiReady
    <2> HIDE DEF s
    <2> QED BY <1>0, <2>2, GeminiEmits, GeminiEvents DEF Gemini!Call, s, c
  <1>2. GeminiReady(Gemini!Thought(d, part))
    <2> DEFINE s == Gemini!SwitchTo(d, "thinking")
               said == IF part.text = <<>> THEN s
                       ELSE Gemini!Emit(s, Gemini!DeltaOf("thinking_delta", s.current.index, part.text))
    <2>1. GeminiReady(s) BY <1>0, GeminiSwitches
    <2>2. Gemini!Thought(d, part)
          = IF part.id = "" THEN said
            ELSE Gemini!Emit(said, Gemini!Signature(s.current.index, "gemini"))
      BY Zenon DEF Gemini!Thought
    <2> HIDE DEF s
    <2>3. GeminiReady(said) BY <2>1, GeminiEmits, GeminiEvents
    <2> HIDE DEF said
    <2> QED BY <2>2, <2>3, GeminiEmits, GeminiEvents
  <1>3. GeminiReady(Gemini!Text(d, part.text))
    <2> DEFINE new == Gemini!Growth(d.emitted, part.text)
               a == [d EXCEPT !.emitted = @ \o new]
               s == Gemini!SwitchTo(a, "text")
    <2> HIDE DEF new
    <2>1. GeminiReady(a) BY DEF GeminiReady
    <2>2. GeminiReady(s)
      <3> HIDE DEF a
      <3> QED BY <1>0, <2>1, GeminiSwitches
    <2>3. Gemini!Text(d, part.text)
          = IF new = <<>> THEN d
            ELSE Gemini!Emit(s, Gemini!DeltaOf("text_delta", s.current.index, new))
      BY Zenon DEF Gemini!Text, new
    <2> HIDE DEF s
    <2> QED BY <2>2, <2>3, GeminiEmits, GeminiEvents
  <1> QED BY <1>1, <1>2, <1>3 DEF Gemini!DecodePart

\* The loop over the parts of a frame.
PartStep(env, acc, part) == Gemini!DecodePart(acc, part)
StaysGemini(given, k, acc) == GeminiReady(acc)
PartF == INSTANCE FoldFacts WITH Op <- PartStep, Holds <- StaysGemini

\* One frame.
LEMMA GeminiFeeds ==
  ASSUME NEW d, GeminiReady(d), NEW f, GeminiFrameOK(f)
  PROVE  LET r == Gemini!Feed(d, f) IN
         GeminiReady(r) /\ (f.type = "error" => HasError(r.out))
  <1>1. CASE f.type # "error"
    <2> DEFINE base == Gemini!Started(d)
               seq == f.parts
               s == FoldLeft(Gemini!DecodePart, base, seq)
    <2>1. GeminiReady(base)
      <3>1. GeminiReady([d EXCEPT !.started = TRUE]) BY DEF GeminiReady
      <3> QED BY <3>1, GeminiEmits, GeminiEvents DEF Gemini!Started
    <2>2. s = PartF!Fold(<<>>, base, seq)
      <3> HIDE DEF base, seq
      <3> QED BY DEF PartF!Fold, PartStep, FoldLeft, MapThenFoldSet, Max, PartF!GreatestOf
    <2>3. Gemini!Frame(d, f) = IF f.finish = "" THEN s ELSE [s EXCEPT !.stop = f.finish]
      BY Zenon DEF Gemini!Frame, Gemini!Loop, Gemini!MapThenFoldSet, Gemini!Greatest,
             FoldLeft, MapThenFoldSet, Max
    <2>4. \A acc : \A k \in 1..Len(seq) :
             StaysGemini(<<>>, k - 1, acc) => StaysGemini(<<>>, k, PartStep(<<>>, acc, seq[k]))
      <3>1. \A k \in 1..Len(seq) : seq[k].type \in {"functionCall", "thought", "text"}
        BY <1>1, Listed DEF GeminiFrameOK
      <3> QED BY <3>1, GeminiPartDecoded DEF StaysGemini, PartStep
    <2>5. StaysGemini(<<>>, 0, base) BY <2>1 DEF StaysGemini
    <2>6. Len(seq) \in Nat /\ DOMAIN seq = 1..Len(seq) BY <1>1, Listed DEF GeminiFrameOK
    <2> HIDE DEF s, base, seq
    <2>7. StaysGemini(<<>>, Len(seq), s) BY <2>2, <2>4, <2>5, <2>6, PartF!FoldKeeps
    <2>8. GeminiReady(s) /\ GeminiReady([s EXCEPT !.stop = f.finish])
      BY <2>7 DEF StaysGemini, GeminiReady
    <2>9. GeminiReady(Gemini!Frame(d, f)) BY <2>3, <2>8
    <2> QED BY <1>1, <2>9 DEF Gemini!Feed
  <1>2. CASE f.type = "error"
    BY <1>2, GeminiEmits, GeminiEvents DEF Gemini!Feed
  <1> QED BY <1>1, <1>2

\* The end of the stream.
LEMMA GeminiFinishes ==
  ASSUME NEW d, GeminiReady(d)
  PROVE  GeminiReady(Gemini!Finish(d))
  <1>1. GeminiReady([d EXCEPT !.done = TRUE]) BY DEF GeminiReady
  <1>2. GeminiReady(Gemini!CloseCurrent([d EXCEPT !.done = TRUE])) BY <1>1, GeminiClosesCurrent
  <1> QED BY <1>2, GeminiEmits, GeminiEvents DEF Gemini!Finish

-----------------------------------------------------------------------------
(* The decoder of a responses upstream.                                    *)

ResponsesReady(d) ==
  /\ DOMAIN d = {"started", "done", "sawError", "next", "open", "closed", "refused",
                 "custom", "stop", "out"}
  /\ AreEvents(d.out) /\ IsList(d.open)
  /\ d.done \in BOOLEAN /\ d.sawError \in BOOLEAN

\* What is done before the end keeps the decoder ready, forgets no error and
\* leaves the flags about the end alone.
ResponsesGoes(d, r) ==
  /\ ResponsesReady(r) /\ (HasError(d.out) => HasError(r.out))
  /\ r.done = d.done /\ r.sawError = d.sawError

\* The frames that end the stream, and all frames it takes.
ResponsesEnds == {"completed", "incomplete", "failed", "error"}
ResponsesFrameOK(f) ==
  /\ f.type \in {"created", "added", "delta", "part_done", "item_done"} \cup ResponsesEnds
  /\ f.type \in {"added", "delta", "part_done", "item_done"} => f.kind \in Kinds

\* One event more.
LEMMA ResponsesEmits ==
  ASSUME NEW d, ResponsesReady(d), NEW ev, IsEvent(ev)
  PROVE  LET r == Responses!Emit(d, ev) IN
         ResponsesGoes(d, r) /\ (ev.type = "error" => HasError(r.out))
  <1> DEFINE r == Responses!Emit(d, ev)
  <1>1. /\ DOMAIN r = DOMAIN d /\ r.out = Append(d.out, ev)
        /\ r.done = d.done /\ r.sawError = d.sawError /\ r.open = d.open
    BY DEF Responses!Emit, ResponsesReady
  <1> HIDE DEF r
  <1> QED BY <1>1, OneMoreEvent DEF ResponsesGoes, ResponsesReady, r

\* The events it makes.
LEMMA ResponsesEvents ==
  /\ \A i, kind, id : kind \in Kinds => IsEvent(Responses!BlockStart(i, kind, id))
  /\ \A i : IsEvent(Responses!BlockStop(i))
  /\ \A i, signer : IsEvent(Responses!Signature(i, signer))
  /\ \A type, i, text : type \in {"text_delta", "thinking_delta", "tool_input"} =>
       IsEvent(Responses!DeltaOf(type, i, text))
  /\ \A stop : IsEvent(Responses!MessageDelta(stop))
  /\ \A type \in {"message_start", "message_stop", "error"} :
       IsEvent(Responses!Event(type)) /\ Responses!Event(type).type = type
  BY DEF IsEvent, EventTypes, Responses!BlockStart, Responses!BlockStop, Responses!DeltaOf,
         Responses!Signature, Responses!MessageDelta, Responses!About, Responses!Event

\* The message begins.
LEMMA ResponsesStarted ==
  ASSUME NEW d, ResponsesReady(d)
  PROVE  ResponsesGoes(d, Responses!Started(d))
  <1>1. ResponsesGoes(d, [d EXCEPT !.started = TRUE])
    BY DEF ResponsesGoes, ResponsesReady
  <1> QED BY <1>1, ResponsesEmits, ResponsesEvents DEF Responses!Started, ResponsesGoes

\* A block is opened at its first mention.
LEMMA ResponsesSlot ==
  ASSUME NEW d, ResponsesReady(d), NEW key, NEW kind \in Kinds, NEW id
  PROVE  ResponsesGoes(d, Responses!Slot(d, key, kind, id))
  <1> DEFINE a == Responses!Allocate(d, key)
  <1>1. ResponsesGoes(d, a)
    BY ListAppended DEF ResponsesGoes, ResponsesReady, Responses!Allocate
  <1> HIDE DEF a
  <1>2. ResponsesGoes(d, Responses!Emit(a, Responses!BlockStart(d.next, kind, id)))
    BY <1>1, ResponsesEmits, ResponsesEvents DEF ResponsesGoes
  <1>3. ResponsesGoes(d, d) BY DEF ResponsesGoes
  <1> QED BY <1>2, <1>3 DEF Responses!Slot, a

\* The content of a block goes on.
LEMMA ResponsesDelivered ==
  ASSUME NEW d, ResponsesReady(d), NEW key, NEW text,
         NEW type \in {"text_delta", "thinking_delta", "tool_input"}
  PROVE  ResponsesGoes(d, Responses!Deliver(d, key, type, text))
  <1> DEFINE n == Responses!At(d, key)
             a == [d EXCEPT !.open[n].text = @ \o text]
  <1> HIDE DEF n
  <1>1. PICK v : a.open = [d.open EXCEPT ![n] = v] BY DEF ResponsesReady
  <1>2. IsList(a.open) BY <1>1, ListChanged DEF ResponsesReady
  <1>3. /\ DOMAIN a = DOMAIN d /\ a.out = d.out
        /\ a.done = d.done /\ a.sawError = d.sawError
    BY DEF ResponsesReady
  <1>4. Responses!Deliver(d, key, type, text)
        = Responses!Emit(a, Responses!DeltaOf(type, Responses!IndexOf(d, key), text))
    BY Zenon DEF Responses!Deliver, n
  <1> HIDE DEF a
  <1>5. ResponsesGoes(d, a) BY <1>2, <1>3 DEF ResponsesGoes, ResponsesReady
  <1>6. \A i : IsEvent(Responses!DeltaOf(type, i, text)) BY ResponsesEvents
  <1>7. \A ev : IsEvent(ev) => ResponsesGoes(a, Responses!Emit(a, ev))
    BY <1>5, ResponsesEmits DEF ResponsesGoes
  <1> QED BY <1>4, <1>5, <1>6, <1>7 DEF ResponsesGoes

\* What a frame tells of its item is noted.
LEMMA ResponsesNoted ==
  ASSUME NEW d, ResponsesReady(d), NEW f
  PROVE  ResponsesGoes(d, Responses!Noted(d, f))
  BY DEF ResponsesGoes, ResponsesReady, Responses!Noted

\* The types of the deltas.
LEMMA ResponsesDeltaType ==
  \A f : Responses!DeltaType(f) \in {"text_delta", "thinking_delta", "tool_input"}
  BY DEF Responses!DeltaType

\* What is still missing is filled in.
LEMMA ResponsesBackfilled ==
  ASSUME NEW d, ResponsesReady(d), NEW key, NEW kind \in Kinds, NEW full,
         NEW type \in {"text_delta", "thinking_delta", "tool_input"}
  PROVE  ResponsesGoes(d, Responses!Backfill(d, key, kind, type, full))
  <1> DEFINE s == Responses!Slot(d, key, kind, "")
             new == Responses!Missing(s.open[Responses!At(s, key)].text, full)
  <1>1. ResponsesGoes(d, s) BY ResponsesSlot
  <1>2. Responses!Backfill(d, key, kind, type, full)
        = IF full = <<>> \/ key \in d.closed THEN d
          ELSE IF new = <<>> THEN s ELSE Responses!Deliver(s, key, type, new)
    BY Zenon DEF Responses!Backfill
  <1>3. ResponsesGoes(d, d) BY DEF ResponsesGoes
  <1> HIDE DEF s, new
  <1>4. ResponsesGoes(d, Responses!Deliver(s, key, type, new))
    BY <1>1, ResponsesDelivered DEF ResponsesGoes
  <1> QED BY <1>1, <1>2, <1>3, <1>4

\* A frame that opens an item or a part.
LEMMA ResponsesAdded ==
  ASSUME NEW d, ResponsesReady(d), NEW f, f.kind \in Kinds
  PROVE  ResponsesGoes(d, Responses!Added(d, f))
  <1> DEFINE key == Responses!Key(f)
             b == Responses!Started(d)
             s == Responses!Noted(b, f)
             o == Responses!Slot(s, key, f.kind, f.id)
             n == Responses!At(o, key)
             signed == [o EXCEPT !.open[n].signed = TRUE]
             g == IF f.kind = "thinking" /\ f.id # "" THEN signed ELSE o
             delivered == Responses!Deliver(g, key, Responses!DeltaType(f), f.text)
  <1>1. Responses!Added(d, f)
        = IF Responses!Has(s, key) /\ f.kind \notin {"text", "refusal"} THEN s
          ELSE IF f.text = <<>> \/ f.kind = "thinking" THEN g ELSE delivered
    BY Zenon DEF Responses!Added
  <1> HIDE DEF key
  <1>2. ResponsesGoes(d, b) BY ResponsesStarted
  <1> HIDE DEF b
  <1>3. ResponsesGoes(d, s) BY <1>2, ResponsesNoted DEF ResponsesGoes
  <1> HIDE DEF s
  <1>4. ResponsesGoes(d, o) BY <1>3, ResponsesSlot DEF ResponsesGoes
  <1> HIDE DEF o, n
  <1>5. ResponsesGoes(d, signed)
    <2>1. PICK v : signed.open = [o.open EXCEPT ![n] = v]
      BY <1>4 DEF ResponsesGoes, ResponsesReady
    <2>2. IsList(signed.open) BY <1>4, <2>1, ListChanged DEF ResponsesGoes, ResponsesReady
    <2>3. /\ DOMAIN signed = DOMAIN o /\ signed.out = o.out
          /\ signed.done = o.done /\ signed.sawError = o.sawError
      BY <1>4 DEF ResponsesGoes, ResponsesReady
    <2> HIDE DEF signed
    <2> QED BY <1>4, <2>2, <2>3 DEF ResponsesGoes, ResponsesReady
  <1> HIDE DEF signed
  <1>6. ResponsesGoes(d, g) BY <1>4, <1>5
  <1> HIDE DEF g
  <1>7. ResponsesGoes(d, delivered)
    BY <1>6, ResponsesDelivered, ResponsesDeltaType DEF ResponsesGoes
  <1> HIDE DEF delivered
  <1> QED BY <1>1, <1>3, <1>6, <1>7

\* A delta.
LEMMA ResponsesDeltaTaken ==
  ASSUME NEW d, ResponsesReady(d), NEW f, f.kind \in Kinds
  PROVE  ResponsesGoes(d, Responses!TakeDelta(d, f))
  <1> DEFINE key == Responses!Key(f)
             s == Responses!Noted(d, f)
             kind == IF f.kind \in CallKinds THEN Responses!CallKind(s, f.index) ELSE f.kind
             b == Responses!Started(s)
             o == Responses!Slot(b, key, kind, "")
  <1>1. Responses!TakeDelta(d, f)
        = Responses!Deliver(o, key, Responses!DeltaType(f), f.text)
    BY Zenon DEF Responses!TakeDelta, Responses!DeltaFor, Responses!CallKinds, CallKinds
  <1>2. kind \in Kinds BY DEF Responses!CallKind, Kinds
  <1> HIDE DEF key, kind
  <1>3. ResponsesGoes(d, s) BY ResponsesNoted
  <1> HIDE DEF s
  <1>4. ResponsesGoes(d, b) BY <1>3, ResponsesStarted DEF ResponsesGoes
  <1> HIDE DEF b
  <1>5. ResponsesGoes(d, o)
    <2>1. ResponsesReady(b) BY <1>4 DEF ResponsesGoes
    <2>2. \A id : ResponsesGoes(b, Responses!Slot(b, key, kind, id))
      BY <1>2, <2>1, ResponsesSlot
    <2>3. ResponsesGoes(b, o) BY <2>2, Zenon
    <2> HIDE DEF o
    <2> QED BY <1>4, <2>3 DEF ResponsesGoes
  <1> HIDE DEF o
  <1> QED BY <1>1, <1>5, ResponsesDelivered, ResponsesDeltaType DEF ResponsesGoes

\* A frame that finishes a part.
LEMMA ResponsesPartEnded ==
  ASSUME NEW d, ResponsesReady(d), NEW f, f.kind \in Kinds
  PROVE  ResponsesGoes(d, Responses!PartDone(d, f))
  <1> DEFINE kind == IF f.kind \in Responses!CallKinds THEN "tool_use" ELSE f.kind
  <1>1. kind \in Kinds BY DEF Kinds
  <1>2. Responses!PartDone(d, f)
        = Responses!Backfill(d, Responses!Key(f), kind, Responses!DeltaType(f), f.text)
    BY Zenon DEF Responses!PartDone
  <1> HIDE DEF kind
  <1> QED BY <1>1, <1>2, ResponsesBackfilled, ResponsesDeltaType

\* The loops: over the blocks of an item that is done, over all blocks at
\* the end; and those that pick the blocks of an item, or the others.
CloseSlotStep(f, acc, s) == Responses!CloseSlot(acc, s, f)
CloseBlockStep(env, acc, s) == Responses!Emit(acc, Responses!BlockStop(s.index))
StaysResponses(d, k, acc) == ResponsesGoes(d, acc)
MineStep(i, acc, s) == IF s.key.output = i THEN Append(acc, s) ELSE acc
OtherStep(i, acc, s) == IF s.key.output # i THEN Append(acc, s) ELSE acc
StaysList(given, k, acc) == IsList(acc)

CloseSlotF == INSTANCE FoldFacts WITH Op <- CloseSlotStep, Holds <- StaysResponses
CloseBlockF == INSTANCE FoldFacts WITH Op <- CloseBlockStep, Holds <- StaysResponses
MineF == INSTANCE FoldFacts WITH Op <- MineStep, Holds <- StaysList
OtherF == INSTANCE FoldFacts WITH Op <- OtherStep, Holds <- StaysList

Mine(s, i) == Responses!Filter(s, LAMBDA x : x.key.output = i)
Others(s, i) == Responses!Filter(s, LAMBDA x : x.key.output # i)

\* The blocks of an item are a sequence, and so are the others.
LEMMA ResponsesPicked ==
  ASSUME NEW s, IsList(s), NEW i
  PROVE  IsList(Mine(s, i)) /\ IsList(Others(s, i))
  <1> DEFINE mine == Mine(s, i)
             others == Others(s, i)
  <1>1. Len(s) \in Nat /\ DOMAIN s = 1..Len(s) BY Listed
  <1>2. StaysList(<<>>, 0, <<>>) BY ListEmpty DEF StaysList
  <1>3. mine = MineF!Fold(i, <<>>, s)
    BY DEF Mine, Responses!Filter, Responses!Loop, Responses!MapThenFoldSet, Responses!Greatest,
           MineF!Fold, MineStep, MineF!GreatestOf
  <1>4. \A acc : \A k \in 1..Len(s) :
           StaysList(<<>>, k - 1, acc) => StaysList(<<>>, k, MineStep(i, acc, s[k]))
    BY ListAppended DEF StaysList, MineStep
  <1>5. others = OtherF!Fold(i, <<>>, s)
    BY DEF Others, Responses!Filter, Responses!Loop, Responses!MapThenFoldSet, Responses!Greatest,
           OtherF!Fold, OtherStep, OtherF!GreatestOf
  <1>6. \A acc : \A k \in 1..Len(s) :
           StaysList(<<>>, k - 1, acc) => StaysList(<<>>, k, OtherStep(i, acc, s[k]))
    BY ListAppended DEF StaysList, OtherStep
  <1> HIDE DEF mine, others
  <1>7. StaysList(<<>>, Len(s), MineF!Fold(i, <<>>, s)) BY <1>1, <1>2, <1>4, MineF!FoldKeeps
  <1>8. StaysList(<<>>, Len(s), OtherF!Fold(i, <<>>, s)) BY <1>1, <1>2, <1>6, OtherF!FoldKeeps
  <1> QED BY <1>3, <1>5, <1>7, <1>8 DEF StaysList, mine, others

\* One block of an item is closed.
LEMMA ResponsesSlotClosed ==
  ASSUME NEW d, ResponsesReady(d), NEW s, NEW f
  PROVE  ResponsesGoes(d, Responses!CloseSlot(d, s, f))
  <1> DEFINE signed == Responses!Emit(d, Responses!Signature(s.index, "responses"))
  <1>1. ResponsesGoes(d, signed) BY ResponsesEmits, ResponsesEvents
  <1>2. \A e : ResponsesGoes(d, e) =>
           ResponsesGoes(d, Responses!Emit(e, Responses!BlockStop(s.index)))
    BY ResponsesEmits, ResponsesEvents DEF ResponsesGoes
  <1>3. ResponsesGoes(d, d) BY DEF ResponsesGoes
  <1> HIDE DEF signed
  <1>4. \/ Responses!CloseSlot(d, s, f) = Responses!Emit(signed, Responses!BlockStop(s.index))
        \/ Responses!CloseSlot(d, s, f) = Responses!Emit(d, Responses!BlockStop(s.index))
    BY Zenon DEF Responses!CloseSlot, signed
  <1> QED BY <1>1, <1>2, <1>3, <1>4

\* A frame that finishes an item.
LEMMA ResponsesItemEnded ==
  ASSUME NEW d, ResponsesReady(d), NEW f, f.kind \in Kinds
  PROVE  ResponsesGoes(d, Responses!ItemDone(d, f))
  <1> DEFINE noted == Responses!Noted(d, [f EXCEPT !.kind = IF f.kind = "refusal" THEN "text" ELSE f.kind])
             opened == IF f.kind = "custom" THEN Responses!Slot(noted, Responses!Key(f), "custom", "")
                       ELSE noted
             kind == IF f.kind = "custom" THEN "tool_use" ELSE f.kind
             filled == Responses!Backfill(opened, Responses!Key(f), kind, Responses!DeltaType(f), f.text)
             mine == Mine(filled.open, f.index)
             ended == FoldLeft(LAMBDA acc, s : Responses!CloseSlot(acc, s, f), filled, mine)
  <1>1. PICK c : Responses!ItemDone(d, f)
                 = [ended EXCEPT !.open = Others(ended.open, f.index), !.closed = c]
    BY Zenon DEF Mine, Others, Responses!ItemDone, Responses!Loop, Responses!MapThenFoldSet, Responses!Greatest,
           FoldLeft, MapThenFoldSet, Max
  <1>2. ResponsesGoes(d, noted) BY ResponsesNoted
  <1> HIDE DEF noted
  <1>3. ResponsesGoes(d, opened)
    <2>1. "custom" \in Kinds BY DEF Kinds
    <2>2. \A id : ResponsesGoes(noted, Responses!Slot(noted, Responses!Key(f), "custom", id))
      BY <1>2, <2>1, ResponsesSlot DEF ResponsesGoes
    <2>3. \A id : ResponsesGoes(d, Responses!Slot(noted, Responses!Key(f), "custom", id))
      BY <1>2, <2>2 DEF ResponsesGoes
    <2> QED BY <1>2, <2>3, Zenon
  <1> HIDE DEF opened
  <1>4. ResponsesGoes(d, filled)
    <2>1. kind \in Kinds BY DEF Kinds
    <2> HIDE DEF kind
    <2>2. ResponsesGoes(opened, filled)
      BY <1>3, <2>1, ResponsesBackfilled, ResponsesDeltaType DEF ResponsesGoes
    <2> HIDE DEF filled
    <2> QED BY <1>3, <2>2 DEF ResponsesGoes
  <1> HIDE DEF filled, kind
  <1>5. IsList(mine) BY <1>4, ResponsesPicked DEF ResponsesGoes, ResponsesReady
  <1> HIDE DEF mine
  <1>6. ended = CloseSlotF!Fold(f, filled, mine)
    BY DEF CloseSlotF!Fold, CloseSlotStep, FoldLeft, MapThenFoldSet, Max, CloseSlotF!GreatestOf
  <1>7. \A acc : \A k \in 1..Len(mine) :
           StaysResponses(d, k - 1, acc) => StaysResponses(d, k, CloseSlotStep(f, acc, mine[k]))
    BY ResponsesSlotClosed DEF StaysResponses, CloseSlotStep, ResponsesGoes
  <1>8. Len(mine) \in Nat /\ DOMAIN mine = 1..Len(mine) BY <1>5, Listed
  <1>9. StaysResponses(d, 0, filled) BY <1>4 DEF StaysResponses
  <1> HIDE DEF ended
  <1>10. StaysResponses(d, Len(mine), ended)
    BY <1>6, <1>7, <1>8, <1>9, CloseSlotF!FoldKeeps
  <1>11. ResponsesGoes(d, ended) BY <1>10 DEF StaysResponses
  <1>12. IsList(Others(ended.open, f.index))
    BY <1>11, ResponsesPicked DEF ResponsesGoes, ResponsesReady
  <1> QED BY <1>1, <1>11, <1>12 DEF ResponsesGoes, ResponsesReady

\* All blocks are closed.
LEMMA ResponsesCloses ==
  ASSUME NEW d, ResponsesReady(d)
  PROVE  ResponsesGoes(d, Responses!CloseAll(d))
  <1> DEFINE seq == d.open
             ended == FoldLeft(LAMBDA acc, s : Responses!Emit(acc, Responses!BlockStop(s.index)), d, seq)
  <1>1. PICK c : Responses!CloseAll(d) = [ended EXCEPT !.open = <<>>, !.closed = c]
    BY Zenon DEF Responses!CloseAll, Responses!Loop, Responses!MapThenFoldSet, Responses!Greatest,
           FoldLeft, MapThenFoldSet, Max
  <1> HIDE DEF seq
  <1>2. ended = CloseBlockF!Fold(<<>>, d, seq)
    BY DEF CloseBlockF!Fold, CloseBlockStep, FoldLeft, MapThenFoldSet, Max, CloseBlockF!GreatestOf
  <1>3. \A acc : \A k \in 1..Len(seq) :
           StaysResponses(d, k - 1, acc) => StaysResponses(d, k, CloseBlockStep(<<>>, acc, seq[k]))
    BY ResponsesEmits, ResponsesEvents DEF StaysResponses, CloseBlockStep, ResponsesGoes
  <1>4. Len(seq) \in Nat /\ DOMAIN seq = 1..Len(seq) BY Listed DEF ResponsesReady, seq
  <1>5. StaysResponses(d, 0, d) BY DEF StaysResponses, ResponsesGoes
  <1> HIDE DEF ended
  <1>6. StaysResponses(d, Len(seq), ended)
    BY <1>2, <1>3, <1>4, <1>5, CloseBlockF!FoldKeeps
  <1>7. ResponsesGoes(d, ended) BY <1>6 DEF StaysResponses
  <1> QED BY <1>1, <1>7, ListEmpty DEF ResponsesGoes, ResponsesReady

\* After any frame the decoder is ready, and knows of no error that it has
\* not reported.
ResponsesTells(d, r) ==
  ResponsesReady(r) /\ (r.sawError => d.sawError \/ HasError(r.out))

\* The final frame, or the end of a stream that has none: a response that
\* failed is reported, unless the stream was at its end before.
LEMMA ResponsesCompleted ==
  ASSUME NEW d, ResponsesReady(d), NEW f
  PROVE  LET r == Responses!Complete(d, f) IN
         /\ ResponsesTells(d, r)
         /\ f.type = "failed" => d.done \/ d.sawError \/ HasError(r.out)
  <1> DEFINE base == [d EXCEPT !.done = TRUE]
             begun == Responses!Started(base)
             closed == Responses!CloseAll(begun)
             noted == [closed EXCEPT !.sawError = TRUE]
             told == Responses!Emit(noted, Responses!Event("error"))
             failed == IF f.type = "failed" /\ ~d.sawError THEN told ELSE closed
             reason == Responses!MessageDelta(Responses!StopReason(d, f.stop))
             r == Responses!Emit(Responses!Emit(failed, reason), Responses!Event("message_stop"))
  <1>1. Responses!Complete(d, f) = IF d.done THEN d ELSE r
    BY Zenon DEF Responses!Complete
  <1>2. ResponsesReady(base) /\ base.sawError = d.sawError BY DEF ResponsesReady
  <1> HIDE DEF base
  <1>3. ResponsesReady(begun) /\ begun.sawError = d.sawError
    BY <1>2, ResponsesStarted DEF ResponsesGoes
  <1> HIDE DEF begun
  <1>4. ResponsesReady(closed) /\ closed.sawError = d.sawError
    BY <1>3, ResponsesCloses DEF ResponsesGoes
  <1> HIDE DEF closed
  <1>5. ResponsesReady(told) /\ HasError(told.out)
    <2>1. ResponsesReady(noted) BY <1>4 DEF ResponsesReady
    <2> HIDE DEF noted
    <2> QED BY <2>1, ResponsesEmits, ResponsesEvents DEF ResponsesGoes
  <1> HIDE DEF told
  <1>6. /\ ResponsesTells(d, failed)
        /\ f.type = "failed" => d.sawError \/ HasError(failed.out)
    BY <1>4, <1>5 DEF ResponsesTells, ResponsesReady
  <1> HIDE DEF failed
  <1>7. \A e, ev : ResponsesReady(e) /\ IsEvent(ev) => ResponsesGoes(e, Responses!Emit(e, ev))
    BY ResponsesEmits
  <1>8. IsEvent(reason) /\ IsEvent(Responses!Event("message_stop")) BY ResponsesEvents
  <1> HIDE DEF reason
  <1>9. /\ ResponsesTells(d, r)
        /\ f.type = "failed" => d.sawError \/ HasError(r.out)
    BY <1>6, <1>7, <1>8 DEF ResponsesTells, ResponsesGoes
  <1> HIDE DEF r
  <1>10. ResponsesTells(d, d) BY DEF ResponsesTells
  <1> QED BY <1>1, <1>9, <1>10

\* One frame.
LEMMA ResponsesFeeds ==
  ASSUME NEW d, ResponsesReady(d), NEW f, ResponsesFrameOK(f)
  PROVE  LET r == Responses!Feed(d, f) IN
         /\ ResponsesTells(d, r)
         /\ r.done => d.done \/ f.type \in ResponsesEnds
         /\ f.type = "error" => d.sawError \/ HasError(r.out)
         /\ f.type = "failed" => d.done \/ d.sawError \/ HasError(r.out)
  <1> DEFINE r == Responses!Feed(d, f)
  <1>1. CASE f.type \in {"created", "added", "delta", "part_done", "item_done"}
    <2>1. ResponsesGoes(d, r)
      BY <1>1, ResponsesStarted, ResponsesAdded, ResponsesDeltaTaken, ResponsesPartEnded,
         ResponsesItemEnded DEF Responses!Feed, ResponsesFrameOK
    <2> HIDE DEF r
    <2> QED BY <1>1, <2>1 DEF ResponsesGoes, ResponsesTells, r
  <1>2. CASE f.type \in {"completed", "incomplete", "failed"}
    <2>1. r = Responses!Complete(d, f) BY <1>2 DEF Responses!Feed
    <2> HIDE DEF r
    <2> QED BY <1>2, <2>1, ResponsesCompleted DEF ResponsesEnds, r
  <1>3. CASE f.type = "error"
    <2> DEFINE base == [d EXCEPT !.done = TRUE, !.sawError = TRUE]
    <2>1. r = IF d.sawError THEN [d EXCEPT !.done = TRUE]
              ELSE Responses!Emit(base, Responses!Event("error"))
      BY <1>3 DEF Responses!Feed, Responses!ErrorFrame
    <2>2. ResponsesReady(base) BY DEF ResponsesReady
    <2> HIDE DEF base, r
    <2>3. d.sawError => ResponsesTells(d, r)
      BY <2>1 DEF ResponsesTells, ResponsesReady
    <2>4. ~d.sawError => ResponsesTells(d, r) /\ HasError(r.out)
      BY <2>1, <2>2, ResponsesEmits, ResponsesEvents DEF ResponsesTells, ResponsesGoes
    <2> QED BY <1>3, <2>3, <2>4 DEF ResponsesEnds, r
  <1> QED BY <1>1, <1>2, <1>3 DEF ResponsesFrameOK, ResponsesEnds

\* The end of the stream.
LEMMA ResponsesFinishes ==
  ASSUME NEW d, ResponsesReady(d)
  PROVE  ResponsesReady(Responses!Finish(d))
  BY ResponsesCompleted DEF Responses!Finish, ResponsesTells

-----------------------------------------------------------------------------
(* The decoder of any upstream.                                            *)

DecoderReady(d) ==
  CASE from = "anthropic" -> AnthropicReady(d)
    [] from = "chat" -> ChatReady(d)
    [] from = "gemini" -> GeminiReady(d)
    [] from = "responses" -> ResponsesReady(d)

\* The frames of the upstream's protocol.
FrameOK(f) ==
  CASE from = "anthropic" -> AnthropicFrameOK(f)
    [] from = "chat" -> ChatFrameOK(f)
    [] from = "gemini" -> GeminiFrameOK(f)
    [] from = "responses" -> ResponsesFrameOK(f)

\* The four protocols of an upstream, and the three of a client.
LEMMA AllProtocols ==
  /\ DOMAIN Decoders = {"anthropic", "chat", "gemini", "responses"}
  /\ DOMAIN Encoders = {"anthropic", "chat", "responses"}
  BY DEF Decoders, Encoders

\* A new decoder is ready; it has its fields, and nothing to tell.
LEMMA DecoderBegins ==
  ASSUME from \in DOMAIN Decoders
  PROVE  /\ DecoderReady(Decoders[from])
         /\ from = "responses" => ~Decoders[from].sawError /\ ~Decoders[from].done
         /\ \A d : DecoderReady(d) => DOMAIN d = DOMAIN Decoders[from] /\ AreEvents(d.out)
         /\ Decoders[from].out = <<>>
  <1>1. IsFiniteSet(DOMAIN <<>>) BY FS_EmptySet, ListEmpty
  <1>2. AreEvents(<<>>) /\ IsList(<<>>) BY NoEvents, ListEmpty
  <1>3. CASE from = "anthropic"
    BY <1>2, <1>3 DEF DecoderReady, Decoders, AnthropicReady, Anthropic!New
  <1>4. CASE from = "chat"
    <2>1. Decoders[from] = Chat!New BY <1>4 DEF Decoders
    <2>2. DOMAIN Chat!New = {"started", "done", "next", "order", "slots", "tools", "at", "byID",
                             "stop", "out"}
          /\ Chat!New.out = <<>> /\ Chat!New.order = <<>> /\ Chat!New.at = <<>>
      BY DEF Chat!New
    <2> QED BY <1>1, <1>2, <1>4, <2>1, <2>2 DEF DecoderReady, ChatReady
  <1>5. CASE from = "gemini"
    <2>1. Decoders[from] = Gemini!New BY <1>5 DEF Decoders
    <2>2. DOMAIN Gemini!New = {"started", "done", "next", "current", "emitted", "sawCall",
                               "stop", "out"} /\ Gemini!New.out = <<>>
      BY DEF Gemini!New
    <2> QED BY <1>2, <1>5, <2>1, <2>2 DEF DecoderReady, GeminiReady
  <1>6. CASE from = "responses"
    <2>1. Decoders[from] = Responses!New BY <1>6 DEF Decoders
    <2>2. DOMAIN Responses!New = {"started", "done", "sawError", "next", "open", "closed",
                                  "refused", "custom", "stop", "out"}
          /\ Responses!New.out = <<>> /\ Responses!New.open = <<>>
          /\ Responses!New.done = FALSE /\ Responses!New.sawError = FALSE
      BY DEF Responses!New
    <2> QED BY <1>2, <1>6, <2>1, <2>2 DEF DecoderReady, ResponsesReady
  <1> QED BY <1>3, <1>4, <1>5, <1>6, AllProtocols

\* One frame: the decoder stays ready; an error is told, by a responses
\* decoder if it was not told before.
LEMMA DecoderFeeds ==
  ASSUME from \in DOMAIN Decoders, NEW d, DecoderReady(d), NEW f, FrameOK(f)
  PROVE  LET r == Feed(d, f) IN
         /\ DecoderReady(r)
         /\ f.type = "error" => HasError(r.out) \/ (from = "responses" /\ d.sawError)
         /\ from = "responses" =>
              /\ r.sawError => d.sawError \/ HasError(r.out)
              /\ r.done => d.done \/ f.type \in ResponsesEnds
              /\ f.type = "failed" => d.done \/ d.sawError \/ HasError(r.out)
  <1>1. CASE from = "anthropic"
    BY <1>1, AnthropicFeeds DEF Feed, DecoderReady, FrameOK
  <1>2. CASE from = "chat"
    BY <1>2, ChatFeeds DEF Feed, DecoderReady, FrameOK
  <1>3. CASE from = "gemini"
    BY <1>3, GeminiFeeds DEF Feed, DecoderReady, FrameOK
  <1>4. CASE from = "responses"
    BY <1>4, ResponsesFeeds DEF Feed, DecoderReady, FrameOK, ResponsesTells
  <1> QED BY <1>1, <1>2, <1>3, <1>4, AllProtocols

\* The end of the stream.
LEMMA DecoderFinishes ==
  ASSUME from \in DOMAIN Decoders, NEW d, DecoderReady(d)
  PROVE  DecoderReady(DecoderFinish(d))
  <1>1. CASE from = "anthropic"
    BY <1>1, AnthropicFinishes DEF DecoderFinish, DecoderReady
  <1>2. CASE from = "chat"
    BY <1>2, ChatFinishes DEF DecoderFinish, DecoderReady
  <1>3. CASE from = "gemini"
    BY <1>3, GeminiFinishes DEF DecoderFinish, DecoderReady
  <1>4. CASE from = "responses"
    BY <1>4, ResponsesFinishes DEF DecoderFinish, DecoderReady
  <1> QED BY <1>1, <1>2, <1>3, <1>4, AllProtocols

\* Reading what it has produced leaves it ready, with nothing to read.
LEMMA DecoderQuiet ==
  ASSUME from \in DOMAIN Decoders, NEW d, DecoderReady(d)
  PROVE  /\ DecoderReady(Quiet(d)) /\ Quiet(d).out = <<>>
         /\ from = "responses" => Quiet(d).sawError = d.sawError /\ Quiet(d).done = d.done
  <1>1. /\ DOMAIN Quiet(d) = DOMAIN d
        /\ \A x \in DOMAIN d : x # "out" => Quiet(d)[x] = d[x]
        /\ "out" \in DOMAIN d => Quiet(d).out = <<>>
    BY DEF Quiet
  <1> DEFINE q == Quiet(d)
  <1> HIDE DEF q
  <1>2. CASE from = "anthropic"
    BY <1>1, <1>2, NoEvents DEF DecoderReady, AnthropicReady, q
  <1>3. CASE from = "chat"
    BY <1>1, <1>3, NoEvents DEF DecoderReady, ChatReady, q
  <1>4. CASE from = "gemini"
    BY <1>1, <1>4, NoEvents DEF DecoderReady, GeminiReady, q
  <1>5. CASE from = "responses"
    BY <1>1, <1>5, NoEvents DEF DecoderReady, ResponsesReady, q
  <1> QED BY <1>2, <1>3, <1>4, <1>5, AllProtocols

-----------------------------------------------------------------------------
(* What a client has been told.                                            *)

\* The frames of a list that say the answer is there.
SuccessesIn(s) == {n \in DOMAIN s : s[n].type \in Success}

\* Neither that the answer is there nor that it failed; that it is there,
\* once; that it failed, only.
Plain(s) == IsList(s) /\ \A n \in DOMAIN s : s[n].type \notin Success \cup {"error"}
OneEnd(s) == IsList(s) /\ \E n \in DOMAIN s : SuccessesIn(s) = {n}
Failing(s) == IsList(s) /\ SuccessesIn(s) = {} /\ \E n \in DOMAIN s : s[n].type = "error"

Modes == {"running", "ended", "failed"}
Tells(m, s) ==
  CASE m = "running" -> Plain(s)
    [] m = "ended" -> OneEnd(s)
    [] m = "failed" -> Failing(s)

\* One frame more.
LEMMA OneMoreFrame ==
  ASSUME NEW s, IsList(s), NEW f
  PROVE  LET r == Append(s, f) IN
         /\ IsList(r)
         /\ f.type \notin Success \cup {"error"} => \A m \in Modes : Tells(m, s) => Tells(m, r)
         /\ Plain(s) /\ f.type \in Success => OneEnd(r)
         /\ OneEnd(s) /\ f.type \notin Success => OneEnd(r)
         /\ Plain(s) /\ f.type = "error" => Failing(r)
         /\ Failing(s) /\ f.type \notin Success => Failing(r)
  <1> DEFINE r == Append(s, f)
             n == Len(s) + 1
  <1>1. /\ IsList(r)
        /\ Len(s) \in Nat /\ DOMAIN s = 1..Len(s) /\ DOMAIN r = 1..(Len(s) + 1)
        /\ \A i \in 1..Len(s) : r[i] = s[i]
        /\ r[Len(s) + 1] = f
    BY ListAppended
  <1> HIDE DEF r
  <1>2. DOMAIN r = DOMAIN s \cup {n} /\ n \notin DOMAIN s /\ r[n] = f
        /\ \A i \in DOMAIN s : r[i] = s[i]
    BY <1>1
  <1>3. "error" \notin Success BY DEF Success
  <1> HIDE DEF n
  <1>4. f.type \notin Success => SuccessesIn(r) = SuccessesIn(s)
    BY <1>2 DEF SuccessesIn
  <1>5. Plain(s) => SuccessesIn(s) = {} BY DEF Plain, SuccessesIn
  <1>6. f.type \in Success => SuccessesIn(r) = SuccessesIn(s) \cup {n}
    BY <1>2 DEF SuccessesIn
  <1>7. Plain(s) /\ f.type \notin Success \cup {"error"} => Plain(r)
    BY <1>1, <1>2 DEF Plain
  <1>8. OneEnd(s) /\ f.type \notin Success => OneEnd(r)
    BY <1>1, <1>2, <1>4 DEF OneEnd
  <1>9. Failing(s) /\ f.type \notin Success => Failing(r)
    BY <1>1, <1>2, <1>4 DEF Failing
  <1>10. Plain(s) /\ f.type \in Success => OneEnd(r)
    BY <1>1, <1>2, <1>5, <1>6 DEF OneEnd
  <1>11. Plain(s) /\ f.type = "error" => Failing(r)
    BY <1>1, <1>2, <1>3, <1>4, <1>5 DEF Failing
  <1>12. f.type \notin Success \cup {"error"} => \A m \in Modes : Tells(m, s) => Tells(m, r)
    BY <1>7, <1>8, <1>9 DEF Tells, Modes
  <1> QED BY <1>1, <1>7, <1>8, <1>9, <1>10, <1>11, <1>12 DEF r

\* The frame that says the answer is there.
LEMMA EndTold ==
  ASSUME NEW s, Plain(s), NEW f, f.type \in Success
  PROVE  OneEnd(Append(s, f))
  BY OneMoreFrame DEF Plain

\* The frame that says that it failed.
LEMMA FailureTold ==
  ASSUME NEW s, Plain(s), NEW f, f.type = "error"
  PROVE  Failing(Append(s, f))
  BY OneMoreFrame DEF Plain

\* What an encoder does within a message changes nothing about what the
\* client has been told, nor about the encoder's flags.
Keeps(e, r) ==
  /\ r.stopped = e.stopped /\ r.errored = e.errored
  /\ \A m \in Modes : Tells(m, e.out) => Tells(m, r.out)

-----------------------------------------------------------------------------
(* The encoder for an anthropic client.                                    *)

ToAnthropicReady(e) ==
  /\ DOMAIN e = {"started", "stopped", "errored", "sentDelta", "order", "open", "pending", "out"}
  /\ IsList(e.out) /\ IsList(e.order)
  /\ e.stopped \in BOOLEAN /\ e.errored \in BOOLEAN

ToAnthropicGoes(e, r) == ToAnthropicReady(r) /\ Keeps(e, r)

\* One frame more, that neither says that the answer is there nor that it
\* failed.
LEMMA ToAnthropicEmits ==
  ASSUME NEW e, ToAnthropicReady(e), NEW f, f.type \notin Success \cup {"error"}
  PROVE  ToAnthropicGoes(e, ToAnthropic!Emit(e, f))
  <1> DEFINE r == ToAnthropic!Emit(e, f)
  <1>1. /\ DOMAIN r = DOMAIN e /\ r.out = Append(e.out, f) /\ r.order = e.order
        /\ r.stopped = e.stopped /\ r.errored = e.errored
    BY DEF ToAnthropic!Emit, ToAnthropicReady
  <1> HIDE DEF r
  <1>2. IsList(r.out) /\ \A m \in Modes : Tells(m, e.out) => Tells(m, r.out)
    BY <1>1, OneMoreFrame DEF ToAnthropicReady
  <1> QED BY <1>1, <1>2 DEF ToAnthropicGoes, ToAnthropicReady, Keeps, r

\* The frames that belong to no end.
LEMMA ToAnthropicFrames ==
  /\ \A t : ToAnthropic!Event(t).type = t
  /\ \A t, i, k, x, text :
       /\ ToAnthropic!About(t, i).type = t
       /\ [ToAnthropic!About(t, i) EXCEPT !.kind = k, !.id = x].type = t
       /\ [ToAnthropic!About(t, i) EXCEPT !.kind = k, !.text = text].type = t
  /\ \A t, stop : [ToAnthropic!Event(t) EXCEPT !.stop = stop].type = t
  BY DEF ToAnthropic!Event, ToAnthropic!About

\* Frames for no end.
LEMMA ToAnthropicTypes ==
  {"message_start", "content_block_start", "content_block_delta", "content_block_stop",
   "message_delta", "ping"} \cap (Success \cup {"error"}) = {}
  BY DEF Success

\* Keeping is reflexive and transitive.
LEMMA ToAnthropicChains ==
  /\ \A e : ToAnthropicReady(e) => ToAnthropicGoes(e, e)
  /\ \A e, f, g : ToAnthropicGoes(e, f) /\ ToAnthropicGoes(f, g) => ToAnthropicGoes(e, g)
  BY DEF ToAnthropicGoes, Keeps

\* The head of the message.
LEMMA ToAnthropicStarts ==
  ASSUME NEW e, ToAnthropicReady(e)
  PROVE  ToAnthropicGoes(e, ToAnthropic!EnsureStarted(e))
  <1>1. ToAnthropicGoes(e, [e EXCEPT !.started = TRUE])
    BY DEF ToAnthropicGoes, ToAnthropicReady, Keeps
  <1>2. ToAnthropic!Event("message_start").type \notin Success \cup {"error"}
    BY ToAnthropicFrames, ToAnthropicTypes
  <1>3. \A r : ToAnthropicGoes(e, r) =>
           ToAnthropicGoes(e, ToAnthropic!Emit(r, ToAnthropic!Event("message_start")))
    BY <1>2, ToAnthropicEmits, ToAnthropicChains DEF ToAnthropicGoes
  <1> QED BY <1>1, <1>3, ToAnthropicChains DEF ToAnthropic!EnsureStarted

\* A block begins.
LEMMA ToAnthropicBegins ==
  ASSUME NEW e, ToAnthropicReady(e), NEW i, NEW kind, NEW id
  PROVE  ToAnthropicGoes(e, ToAnthropic!Begin(e, i, kind, id))
  <1> DEFINE s == ToAnthropic!EnsureStarted(e)
             f == [ToAnthropic!About("content_block_start", i) EXCEPT !.kind = kind, !.id = id]
  <1>1. ToAnthropicGoes(e, s) BY ToAnthropicStarts
  <1>2. f.type \notin Success \cup {"error"} BY ToAnthropicFrames, ToAnthropicTypes
  <1> HIDE DEF s, f
  <1> DEFINE order == IF i \in e.open THEN s.order ELSE Append(s.order, i)
             open == s.open \cup {i}
             pending == IF kind \in ToAnthropic!CallKinds \cup {"server_tool_use"}
                        THEN s.pending \cup {i} ELSE s.pending
             a == [s EXCEPT !.order = order, !.open = open, !.pending = pending]
  <1>3. \/ ToAnthropic!Begin(e, i, kind, id) = s
        \/ ToAnthropic!Begin(e, i, kind, id) = ToAnthropic!Emit(a, f)
    BY Zenon DEF ToAnthropic!Begin, s, f
  <1> HIDE DEF open, pending
  <1>4. IsList(order) BY <1>1, ListAppended DEF ToAnthropicGoes, ToAnthropicReady
  <1> HIDE DEF order
  <1>5. ToAnthropicGoes(e, a)
    BY <1>1, <1>4 DEF ToAnthropicGoes, ToAnthropicReady, Keeps
  <1> HIDE DEF a
  <1>6. ToAnthropicGoes(a, ToAnthropic!Emit(a, f))
    BY <1>2, <1>5, ToAnthropicEmits DEF ToAnthropicGoes
  <1> QED BY <1>1, <1>3, <1>5, <1>6, ToAnthropicChains DEF a

\* A delta.
LEMMA ToAnthropicDelta ==
  ASSUME NEW e, ToAnthropicReady(e), NEW ev
  PROVE  ToAnthropicGoes(e, ToAnthropic!Delta(e, ev))
  <1>1. PICK kind, id, k :
           \/ ToAnthropic!Delta(e, ev) = ToAnthropic!Emit(e,
                [ToAnthropic!About("content_block_delta", ev.index)
                   EXCEPT !.kind = k, !.text = ev.text])
           \/ ToAnthropic!Delta(e, ev) = ToAnthropic!Emit(ToAnthropic!Begin(e, ev.index, kind, id),
                [ToAnthropic!About("content_block_delta", ev.index)
                   EXCEPT !.kind = k, !.text = ev.text])
    BY Zenon DEF ToAnthropic!Delta
  <1> DEFINE f == [ToAnthropic!About("content_block_delta", ev.index)
                     EXCEPT !.kind = k, !.text = ev.text]
             s == ToAnthropic!Begin(e, ev.index, kind, id)
  <1>2. f.type \notin Success \cup {"error"} BY ToAnthropicFrames, ToAnthropicTypes
  <1>3. ToAnthropicGoes(e, s) BY ToAnthropicBegins
  <1>4. ToAnthropic!Delta(e, ev) \in {ToAnthropic!Emit(e, f), ToAnthropic!Emit(s, f)} BY <1>1
  <1> HIDE DEF f, s
  <1>5. ToAnthropicGoes(s, ToAnthropic!Emit(s, f))
    BY <1>2, <1>3, ToAnthropicEmits DEF ToAnthropicGoes
  <1>6. ToAnthropicGoes(e, ToAnthropic!Emit(e, f)) BY <1>2, ToAnthropicEmits
  <1> QED BY <1>3, <1>4, <1>5, <1>6, ToAnthropicChains

\* The end of a block.
LEMMA ToAnthropicStopsBlock ==
  ASSUME NEW e, ToAnthropicReady(e), NEW i
  PROVE  ToAnthropicGoes(e, ToAnthropic!Stop(e, i))
  <1> DEFINE fill == [ToAnthropic!About("content_block_delta", i)
                        EXCEPT !.kind = "input_json", !.text = <<0>>]
             stop == ToAnthropic!About("content_block_stop", i)
             a == [e EXCEPT !.pending = @ \ {i}]
             s == IF i \notin e.pending THEN e ELSE ToAnthropic!Emit(a, fill)
             b == [s EXCEPT !.open = @ \ {i}]
  <1>1. ToAnthropic!Stop(e, i) = ToAnthropic!Emit(b, stop)
    BY Zenon DEF ToAnthropic!Stop
  <1>2. fill.type \notin Success \cup {"error"} /\ stop.type \notin Success \cup {"error"}
    BY ToAnthropicFrames, ToAnthropicTypes
  <1>3. ToAnthropicGoes(e, a) BY DEF ToAnthropicGoes, ToAnthropicReady, Keeps
  <1> HIDE DEF fill, stop, a
  <1>4. ToAnthropicGoes(a, ToAnthropic!Emit(a, fill))
    BY <1>2, <1>3, ToAnthropicEmits DEF ToAnthropicGoes
  <1>5. ToAnthropicGoes(e, s) BY <1>3, <1>4, ToAnthropicChains
  <1> HIDE DEF s
  <1>6. ToAnthropicGoes(e, b) BY <1>5 DEF ToAnthropicGoes, ToAnthropicReady, Keeps
  <1> HIDE DEF b
  <1>7. ToAnthropicGoes(b, ToAnthropic!Emit(b, stop))
    BY <1>2, <1>6, ToAnthropicEmits DEF ToAnthropicGoes
  <1> QED BY <1>1, <1>6, <1>7, ToAnthropicChains

\* The loop that ends all blocks.
ToAnthropicStep(env, acc, i) == IF i \in acc.open THEN ToAnthropic!Stop(acc, i) ELSE acc
StaysToAnthropic(e, k, acc) == ToAnthropicGoes(e, acc)
ToAnthropicF == INSTANCE FoldFacts WITH Op <- ToAnthropicStep, Holds <- StaysToAnthropic

\* All blocks end.
LEMMA ToAnthropicCloses ==
  ASSUME NEW e, ToAnthropicReady(e)
  PROVE  ToAnthropicGoes(e, ToAnthropic!CloseAll(e))
  <1> DEFINE seq == e.order
             r == ToAnthropic!CloseAll(e)
  <1>1. r = ToAnthropicF!Fold(<<>>, e, seq)
    BY DEF ToAnthropic!CloseAll, ToAnthropic!Loop, ToAnthropic!MapThenFoldSet, ToAnthropic!Greatest,
           ToAnthropicF!Fold, ToAnthropicStep, ToAnthropicF!GreatestOf
  <1>2. Len(seq) \in Nat /\ DOMAIN seq = 1..Len(seq) BY Listed DEF ToAnthropicReady
  <1> HIDE DEF seq, r
  <1>3. \A acc : \A k \in 1..Len(seq) :
           StaysToAnthropic(e, k - 1, acc) => StaysToAnthropic(e, k, ToAnthropicStep(<<>>, acc, seq[k]))
    BY ToAnthropicStopsBlock, ToAnthropicChains
       DEF StaysToAnthropic, ToAnthropicStep, ToAnthropicGoes
  <1>4. StaysToAnthropic(e, 0, e) BY ToAnthropicChains DEF StaysToAnthropic
  <1>5. StaysToAnthropic(e, Len(seq), ToAnthropicF!Fold(<<>>, e, seq))
    BY <1>2, <1>3, <1>4, ToAnthropicF!FoldKeeps
  <1> QED BY <1>1, <1>5 DEF StaysToAnthropic, r

\* The reason is told.
LEMMA ToAnthropicTellsReason ==
  ASSUME NEW e, ToAnthropicReady(e), NEW stop
  PROVE  ToAnthropicGoes(e, ToAnthropic!SendDelta(e, stop))
  <1> DEFINE f == [ToAnthropic!Event("message_delta")
                     EXCEPT !.stop = IF stop = "" THEN "end_turn" ELSE stop]
             a == [e EXCEPT !.sentDelta = TRUE]
  <1>1. f.type \notin Success \cup {"error"} BY ToAnthropicFrames, ToAnthropicTypes
  <1>2. ToAnthropicGoes(e, a) BY DEF ToAnthropicGoes, ToAnthropicReady, Keeps
  <1>3. ToAnthropic!SendDelta(e, stop) = ToAnthropic!Emit(a, f)
    BY Zenon DEF ToAnthropic!SendDelta
  <1> HIDE DEF f, a
  <1>4. ToAnthropicGoes(a, ToAnthropic!Emit(a, f))
    BY <1>1, <1>2, ToAnthropicEmits DEF ToAnthropicGoes
  <1> QED BY <1>2, <1>3, <1>4, ToAnthropicChains

\* The end of the message is told once.
LEMMA ToAnthropicEnds ==
  ASSUME NEW e, ToAnthropicReady(e), ~e.errored
  PROVE  LET r == ToAnthropic!MessageStop(e) IN
         /\ ToAnthropicReady(r) /\ ~r.errored /\ r.stopped
         /\ ~e.stopped /\ Plain(e.out) => OneEnd(r.out)
         /\ e.stopped => r = e
  <1> DEFINE s == ToAnthropic!EnsureStarted(e)
             closed == ToAnthropic!CloseAll(s)
             reason == ToAnthropic!SendDelta(closed, "end_turn")
             told == IF closed.sentDelta THEN closed ELSE reason
             stop == ToAnthropic!Event("message_stop")
             a == [told EXCEPT !.stopped = TRUE]
             r == ToAnthropic!Emit(a, stop)
  <1>1. ToAnthropic!MessageStop(e) = IF e.stopped THEN e ELSE r
    BY Zenon DEF ToAnthropic!MessageStop
  <1>2. stop.type \in Success BY DEF ToAnthropic!Event, Success
  <1>3. ToAnthropicGoes(e, s) BY ToAnthropicStarts
  <1> HIDE DEF s, stop
  <1>4. ToAnthropicGoes(e, closed)
    BY <1>3, ToAnthropicCloses, ToAnthropicChains DEF ToAnthropicGoes
  <1> HIDE DEF closed
  <1>5. ToAnthropicGoes(closed, reason)
    BY <1>4, ToAnthropicTellsReason DEF ToAnthropicGoes
  <1> HIDE DEF reason
  <1>6. ToAnthropicGoes(e, told) BY <1>4, <1>5, ToAnthropicChains
  <1> HIDE DEF told
  <1>7. /\ ToAnthropicReady(told) /\ ~told.errored
        /\ Plain(e.out) => Plain(told.out)
    BY <1>6 DEF ToAnthropicGoes, Keeps, Tells, Modes
  <1>8. /\ DOMAIN r = DOMAIN told /\ r.out = Append(told.out, stop) /\ r.order = told.order
        /\ r.stopped = TRUE /\ r.errored = told.errored
    BY <1>7 DEF ToAnthropic!Emit, ToAnthropicReady
  <1> HIDE DEF r, a
  <1>9. ToAnthropicReady(r) BY <1>7, <1>8, OneMoreFrame DEF ToAnthropicReady
  <1>10. Plain(e.out) => OneEnd(r.out) BY <1>2, <1>7, <1>8, EndTold
  <1> QED BY <1>1, <1>7, <1>8, <1>9, <1>10

\* An event within the message, or the reason it ends for.
LEMMA ToAnthropicTakes ==
  ASSUME NEW e, ToAnthropicReady(e), NEW ev, ev.type \in EventTypes \ {"message_stop", "error"}
  PROVE  ToAnthropicGoes(e, ToAnthropic!Encode(e, ev))
  <1>1. ToAnthropicGoes(e, e) BY ToAnthropicChains
  <1>2. ToAnthropicGoes(e, ToAnthropic!Input(e, ev))
    <2>1. ToAnthropicGoes(e, [e EXCEPT !.started = TRUE])
      BY DEF ToAnthropicGoes, ToAnthropicReady, Keeps
    <2>2. ToAnthropicGoes(e, ToAnthropic!Delta(e, ev)) BY ToAnthropicDelta
    <2> DEFINE s == ToAnthropic!Delta(e, ev)
    <2> HIDE DEF s
    <2>3. ToAnthropicGoes(e, [s EXCEPT !.pending = @ \ {ev.index}])
      BY <2>2 DEF ToAnthropicGoes, ToAnthropicReady, Keeps, s
    <2> QED BY <2>1, <2>3 DEF ToAnthropic!Input, s
  <1>3. ToAnthropicGoes(e, ToAnthropic!Emit(e, ToAnthropic!Event("ping")))
    BY ToAnthropicEmits, ToAnthropicFrames, ToAnthropicTypes
  <1>4. ToAnthropicGoes(e, ToAnthropic!SendDelta(ToAnthropic!CloseAll(ToAnthropic!EnsureStarted(e)),
                                                 ev.stop))
    BY ToAnthropicStarts, ToAnthropicCloses, ToAnthropicTellsReason, ToAnthropicChains
       DEF ToAnthropicGoes
  <1> QED BY <1>1, <1>2, <1>3, <1>4, ToAnthropicStarts, ToAnthropicBegins, ToAnthropicDelta,
             ToAnthropicStopsBlock DEF ToAnthropic!Encode, EventTypes

\* An error.
LEMMA ToAnthropicFails ==
  ASSUME NEW e, ToAnthropicReady(e), ~e.errored, Plain(e.out), NEW ev, ev.type = "error"
  PROVE  LET r == ToAnthropic!Encode(e, ev) IN
         ToAnthropicReady(r) /\ r.errored /\ Failing(r.out)
  <1> DEFINE c == ToAnthropic!CloseAll(e)
             f == ToAnthropic!Event("error")
             r == ToAnthropic!Emit([c EXCEPT !.errored = TRUE], f)
  <1>1. ToAnthropic!Encode(e, ev) = r BY DEF ToAnthropic!Encode
  <1>2. f.type = "error" BY ToAnthropicFrames
  <1>3. ToAnthropicGoes(e, c) BY ToAnthropicCloses
  <1> HIDE DEF c, f
  <1>4. ToAnthropicReady(c) /\ Plain(c.out)
    BY <1>3 DEF ToAnthropicGoes, Keeps, Tells, Modes
  <1>5. /\ DOMAIN r = DOMAIN c /\ r.out = Append(c.out, f) /\ r.order = c.order
        /\ r.errored = TRUE /\ r.stopped = c.stopped
    BY <1>4 DEF ToAnthropic!Emit, ToAnthropicReady
  <1> HIDE DEF r
  <1>6. Failing(r.out) BY <1>2, <1>4, <1>5, FailureTold
  <1> QED BY <1>1, <1>4, <1>5, <1>6 DEF ToAnthropicReady, Failing

-----------------------------------------------------------------------------
(* The encoder for a chat client.                                          *)

ToChatReady(e) ==
  /\ DOMAIN e = {"stopped", "errored", "kinds", "slots", "pending", "stop", "out"}
  /\ IsList(e.out) /\ IsFiniteSet(e.pending)
  /\ e.stopped \in BOOLEAN /\ e.errored \in BOOLEAN

ToChatGoes(e, r) == ToChatReady(r) /\ Keeps(e, r)

\* One chunk more, that neither says that the answer is there nor that it
\* failed.
LEMMA ToChatEmits ==
  ASSUME NEW e, ToChatReady(e), NEW f, f.type \notin Success \cup {"error"}
  PROVE  ToChatGoes(e, ToChat!Emit(e, f))
  <1> DEFINE r == ToChat!Emit(e, f)
  <1>1. /\ DOMAIN r = DOMAIN e /\ r.out = Append(e.out, f) /\ r.pending = e.pending
        /\ r.stopped = e.stopped /\ r.errored = e.errored
    BY DEF ToChat!Emit, ToChatReady
  <1> HIDE DEF r
  <1>2. IsList(r.out) /\ \A m \in Modes : Tells(m, e.out) => Tells(m, r.out)
    BY <1>1, OneMoreFrame DEF ToChatReady
  <1> QED BY <1>1, <1>2 DEF ToChatGoes, ToChatReady, Keeps, r

\* The chunks, by their types.
LEMMA ToChatFrames ==
  /\ \A t : ToChat!Event(t).type = t
  /\ \A t, text : [ToChat!Event(t) EXCEPT !.text = text].type = t
  /\ \A t, i, x : [ToChat!About(t, i) EXCEPT !.id = x].type = t
  /\ \A t, i, text : ToChat!DeltaOf(t, i, text).type = t
  /\ \A stop : [ToChat!Event("finish") EXCEPT !.stop = stop].type = "finish"
  BY DEF ToChat!Event, ToChat!About, ToChat!DeltaOf

\* Chunks for no end.
LEMMA ToChatTypes ==
  {"tool_call", "refusal", "content", "arguments", "reasoning", "role", "usage", "[DONE]"}
    \cap (Success \cup {"error"}) = {}
  BY DEF Success

\* Keeping is reflexive and transitive.
LEMMA ToChatChains ==
  /\ \A e : ToChatReady(e) => ToChatGoes(e, e)
  /\ \A e, f, g : ToChatGoes(e, f) /\ ToChatGoes(f, g) => ToChatGoes(e, g)
  BY DEF ToChatGoes, Keeps

\* A call gets a number, and a header.
LEMMA ToChatNumbers ==
  ASSUME NEW e, ToChatReady(e), NEW i
  PROVE  /\ ToChatGoes(e, ToChat!ToolSlot(e, i))
         /\ \A id : ToChatGoes(e, ToChat!Header(e, i, id))
  <1> DEFINE s == ToChat!ToolSlot(e, i)
             a == [s EXCEPT !.pending = @ \cup {i}]
  <1>1. ToChatGoes(e, s)
    BY DEF ToChatGoes, ToChatReady, Keeps, ToChat!ToolSlot
  <1>2. IsFiniteSet(s.pending \cup {i})
    BY <1>1, FS_AddElement DEF ToChatGoes, ToChatReady
  <1> HIDE DEF s
  <1>3. ToChatGoes(e, a) BY <1>1, <1>2 DEF ToChatGoes, ToChatReady, Keeps
  <1>4. ASSUME NEW id PROVE ToChatGoes(e, ToChat!Header(e, i, id))
    <2> DEFINE f == [ToChat!About("tool_call", s.slots[i]) EXCEPT !.id = id]
    <2>1. f.type \notin Success \cup {"error"} BY ToChatFrames, ToChatTypes
    <2>2. ToChat!Header(e, i, id) = ToChat!Emit(a, f) BY DEF ToChat!Header, s
    <2> HIDE DEF a, f
    <2>3. ToChatGoes(a, ToChat!Emit(a, f)) BY <1>3, <2>1, ToChatEmits DEF ToChatGoes
    <2> QED BY <1>3, <2>2, <2>3, ToChatChains
  <1> QED BY <1>1, <1>4 DEF s

\* A block begins.
LEMMA ToChatBegins ==
  ASSUME NEW e, ToChatReady(e), NEW ev
  PROVE  ToChatGoes(e, ToChat!Begin(e, ev))
  <1> DEFINE s == [e EXCEPT !.kinds = ToChat!With(@, ev.index, ev.kind)]
  <1>1. ToChatGoes(e, s) BY DEF ToChatGoes, ToChatReady, Keeps
  <1>2. ToChat!Begin(e, ev) \in {s, ToChat!Header(s, ev.index, ev.id)}
    BY DEF ToChat!Begin
  <1> HIDE DEF s
  <1>3. ToChatGoes(s, ToChat!Header(s, ev.index, ev.id))
    BY <1>1, ToChatNumbers DEF ToChatGoes
  <1>4. ToChatGoes(e, ToChat!Header(s, ev.index, ev.id)) BY <1>1, <1>3, ToChatChains
  <1> QED BY <1>1, <1>2, <1>4

\* An argument fragment.
LEMMA ToChatArguments ==
  ASSUME NEW e, ToChatReady(e), NEW i, NEW text
  PROVE  ToChatGoes(e, ToChat!Arguments(e, i, text))
  <1> DEFINE s == ToChat!ToolSlot(e, i)
             a == [s EXCEPT !.pending = @ \ {i}]
             f == ToChat!DeltaOf("arguments", s.slots[i], text)
  <1>1. ToChatGoes(e, s) BY ToChatNumbers
  <1>2. ToChat!Arguments(e, i, text) = ToChat!Emit(a, f) BY DEF ToChat!Arguments
  <1>3. f.type \notin Success \cup {"error"} BY ToChatFrames, ToChatTypes
  <1> HIDE DEF s, f
  <1>4. IsFiniteSet(s.pending \ {i})
    BY <1>1, FS_RemoveElement DEF ToChatGoes, ToChatReady
  <1>5. ToChatGoes(e, a) BY <1>1, <1>4 DEF ToChatGoes, ToChatReady, Keeps
  <1> HIDE DEF a
  <1>6. ToChatGoes(a, ToChat!Emit(a, f)) BY <1>3, <1>5, ToChatEmits DEF ToChatGoes
  <1> QED BY <1>2, <1>5, <1>6, ToChatChains

\* The loop that gives every call without arguments an empty object.
ToChatStep(env, acc, i) == ToChat!Fill(acc, i)
StaysToChat(e, k, acc) == ToChatGoes(e, acc)
ToChatF == INSTANCE FoldFacts WITH Op <- ToChatStep, Holds <- StaysToChat

\* One call, and all of them.
LEMMA ToChatFills ==
  ASSUME NEW e, ToChatReady(e)
  PROVE  /\ \A i : ToChatGoes(e, ToChat!Fill(e, i))
         /\ ToChatGoes(e, ToChat!FillAll(e))
  <1> DEFINE seq == ToChat!InOrder(e.pending, <)
             n == Cardinality(e.pending)
             r == ToChat!FillAll(e)
  <1>1. \A a, i : ToChatReady(a) => ToChatGoes(a, ToChat!Fill(a, i))
    <2> DEFINE filled(a, i) == ToChat!Arguments(a, i, <<0>>)
    <2>1. \A a, i : ToChatReady(a) => ToChatGoes(a, filled(a, i)) BY ToChatArguments
    <2>2. \A a, i : ToChat!Fill(a, i) = IF i \in a.pending THEN filled(a, i) ELSE a
      BY DEF ToChat!Fill
    <2> HIDE DEF filled
    <2> QED BY <2>1, <2>2, ToChatChains
  <1>2. n \in Nat BY FS_CardinalityType DEF ToChatReady
  <1>3. DOMAIN seq = 1..n BY DEF ToChat!InOrder, ToChat!Cardinality, Cardinality
  <1>4. r = ToChatF!Fold(<<>>, e, seq)
    <2> HIDE DEF seq
    <2> QED BY DEF ToChat!FillAll, ToChat!Loop, ToChat!MapThenFoldSet, ToChat!Greatest,
                   ToChatF!Fold, ToChatStep, ToChatF!GreatestOf, seq
  <1> HIDE DEF seq, n, r
  <1>5. \A acc : \A k \in 1..n :
           StaysToChat(e, k - 1, acc) => StaysToChat(e, k, ToChatStep(<<>>, acc, seq[k]))
    BY <1>1, ToChatChains DEF StaysToChat, ToChatStep, ToChatGoes
  <1>6. StaysToChat(e, 0, e) BY ToChatChains DEF StaysToChat
  <1>7. StaysToChat(e, n, ToChatF!Fold(<<>>, e, seq))
    BY <1>2, <1>3, <1>5, <1>6, ToChatF!FoldKeeps
  <1> QED BY <1>1, <1>4, <1>7 DEF StaysToChat, r

\* The end of the message is told once.
LEMMA ToChatEnds ==
  ASSUME NEW e, ToChatReady(e), ~e.errored
  PROVE  LET r == ToChat!Finish(e) IN
         /\ ToChatReady(r) /\ ~r.errored /\ r.stopped
         /\ ~e.stopped /\ Plain(e.out) => OneEnd(r.out)
         /\ e.stopped => r = e
  <1> DEFINE filled == ToChat!FillAll(e)
             finish == [ToChat!Event("finish") EXCEPT !.stop = e.stop]
             usage == ToChat!Event("usage")
             done == ToChat!Event("[DONE]")
             a == ToChat!Emit(filled, finish)
             b == ToChat!Emit(ToChat!Emit(a, usage), done)
             r == [b EXCEPT !.stopped = TRUE]
  <1>1. ToChat!Finish(e) = IF e.stopped THEN e ELSE r
    BY Zenon DEF ToChat!Finish, ToChat!Ending
  <1>2. /\ finish.type \in Success
        /\ usage.type \notin Success \cup {"error"} /\ done.type \notin Success \cup {"error"}
    BY ToChatFrames, ToChatTypes DEF Success
  <1>3. ToChatGoes(e, filled) BY ToChatFills
  <1> HIDE DEF filled, finish, usage, done
  <1>4. /\ ToChatReady(filled) /\ ~filled.errored
        /\ Plain(e.out) => Plain(filled.out)
    BY <1>3 DEF ToChatGoes, Keeps, Tells, Modes
  <1>5. /\ DOMAIN a = DOMAIN filled /\ a.out = Append(filled.out, finish)
        /\ a.pending = filled.pending
        /\ a.stopped = filled.stopped /\ a.errored = filled.errored
    BY <1>4 DEF ToChat!Emit, ToChatReady
  <1> HIDE DEF a
  <1>6. ToChatReady(a) BY <1>4, <1>5, OneMoreFrame DEF ToChatReady
  <1>7. Plain(e.out) => OneEnd(a.out) BY <1>2, <1>4, <1>5, EndTold
  <1>8. ToChatGoes(a, b)
    BY <1>2, <1>6, ToChatEmits, ToChatChains DEF ToChatGoes
  <1> HIDE DEF b
  <1>9. /\ ToChatReady(r) /\ ~r.errored /\ r.stopped
        /\ Plain(e.out) => OneEnd(r.out)
    BY <1>4, <1>5, <1>7, <1>8 DEF ToChatGoes, ToChatReady, Keeps, Tells, Modes
  <1> HIDE DEF r
  <1> QED BY <1>1, <1>9

\* An event within the message, or the reason it ends for.
LEMMA ToChatTakes ==
  ASSUME NEW e, ToChatReady(e), NEW ev, ev.type \in EventTypes \ {"message_stop", "error"}
  PROVE  ToChatGoes(e, ToChat!Encode(e, ev))
  <1>1. ToChatGoes(e, e) /\ \A stop : ToChatGoes(e, [e EXCEPT !.stop = stop])
    BY ToChatChains DEF ToChatGoes, ToChatReady, Keeps
  <1>2. ToChatGoes(e, ToChat!Emit(e, ToChat!Event("role")))
    BY ToChatEmits, ToChatFrames, ToChatTypes
  <1>3. ToChatGoes(e, ToChat!Text(e, ev))
    <2> DEFINE t == IF ToChat!KindOf(e, ev.index) = "refusal" THEN "refusal" ELSE "content"
               f == [ToChat!Event(t) EXCEPT !.text = ev.text]
    <2>1. f.type \notin Success \cup {"error"} BY ToChatFrames, ToChatTypes
    <2>2. ToChat!Text(e, ev) = ToChat!Emit(e, f) BY Zenon DEF ToChat!Text
    <2> HIDE DEF f
    <2> QED BY <2>1, <2>2, ToChatEmits
  <1>4. ToChatGoes(e, ToChat!Emit(e, [ToChat!Event("reasoning") EXCEPT !.text = ev.text]))
    <2> DEFINE f == [ToChat!Event("reasoning") EXCEPT !.text = ev.text]
    <2>1. f.type \notin Success \cup {"error"} BY ToChatFrames, ToChatTypes
    <2> HIDE DEF f
    <2>2. ToChatGoes(e, ToChat!Emit(e, f)) BY <2>1, ToChatEmits
    <2> QED BY <2>2 DEF f
  <1>5. \/ ToChat!Encode(e, ev) \in {e, ToChat!Emit(e, ToChat!Event("role")), ToChat!Begin(e, ev),
              ToChat!Text(e, ev), ToChat!Arguments(e, ev.index, ev.text),
              ToChat!Emit(e, [ToChat!Event("reasoning") EXCEPT !.text = ev.text]),
              ToChat!Fill(e, ev.index), [e EXCEPT !.stop = ev.stop]}
    BY Zenon DEF ToChat!Encode, EventTypes
  <1> QED BY <1>1, <1>2, <1>3, <1>4, <1>5, ToChatBegins, ToChatArguments, ToChatFills

\* An error.
LEMMA ToChatFails ==
  ASSUME NEW e, ToChatReady(e), ~e.errored, Plain(e.out), NEW ev, ev.type = "error"
  PROVE  LET r == ToChat!Encode(e, ev) IN
         ToChatReady(r) /\ r.errored /\ Failing(r.out)
  <1> DEFINE f == ToChat!Event("error")
             done == ToChat!Event("[DONE]")
             a == ToChat!Emit([e EXCEPT !.errored = TRUE], f)
  <1>1. ToChat!Encode(e, ev) = ToChat!Emit(a, done) BY DEF ToChat!Encode
  <1>2. f.type = "error" /\ done.type \notin Success \cup {"error"}
    BY ToChatFrames, ToChatTypes
  <1> HIDE DEF f, done
  <1>3. /\ DOMAIN a = DOMAIN e /\ a.out = Append(e.out, f) /\ a.pending = e.pending
        /\ a.errored = TRUE /\ a.stopped = e.stopped
    BY DEF ToChat!Emit, ToChatReady
  <1> HIDE DEF a
  <1>4. Failing(a.out) BY <1>2, <1>3, FailureTold
  <1>6. ToChatReady(a) BY <1>3, <1>4 DEF ToChatReady, Failing
  <1>5. ToChatGoes(a, ToChat!Emit(a, done)) BY <1>2, <1>6, ToChatEmits
  <1> QED BY <1>1, <1>3, <1>4, <1>5 DEF ToChatGoes, Keeps, Tells, Modes

-----------------------------------------------------------------------------
(* The encoder for a responses client.                                     *)

ToResponsesReady(e) ==
  /\ DOMAIN e = {"stopped", "errored", "items", "order", "skip", "stop", "out"}
  /\ IsList(e.out) /\ IsList(e.order)
  /\ e.stopped \in BOOLEAN /\ e.errored \in BOOLEAN

ToResponsesGoes(e, r) == ToResponsesReady(r) /\ Keeps(e, r)

\* One frame more, that neither says that the answer is there nor that it
\* failed.
LEMMA ToResponsesEmits ==
  ASSUME NEW e, ToResponsesReady(e), NEW f, f.type \notin Success \cup {"error"}
  PROVE  ToResponsesGoes(e, ToResponses!Emit(e, f))
  <1> DEFINE r == ToResponses!Emit(e, f)
  <1>1. /\ DOMAIN r = DOMAIN e /\ r.out = Append(e.out, f) /\ r.order = e.order
        /\ r.stopped = e.stopped /\ r.errored = e.errored
    BY DEF ToResponses!Emit, ToResponsesReady
  <1> HIDE DEF r
  <1>2. IsList(r.out) /\ \A m \in Modes : Tells(m, e.out) => Tells(m, r.out)
    BY <1>1, OneMoreFrame DEF ToResponsesReady
  <1> QED BY <1>1, <1>2 DEF ToResponsesGoes, ToResponsesReady, Keeps, r

\* The frames, by their types.
LEMMA ToResponsesFrames ==
  /\ \A t : ToResponses!Event(t).type = t
  /\ \A t, i : ToResponses!About(t, i).type = t
  /\ \A t, i, k, x : [ToResponses!About(t, i) EXCEPT !.kind = k, !.id = x].type = t
  /\ \A i, k, text :
       [ToResponses!About("item_done", i) EXCEPT !.kind = k, !.text = text].type = "item_done"
  /\ \A i, k, text :
       [[ToResponses!About("item_done", i) EXCEPT !.kind = k, !.text = text]
          EXCEPT !.type = "part_done"].type = "part_done"
  /\ \A t, i, text : ToResponses!DeltaOf(t, i, text).type = t
  /\ \A t, stop : [ToResponses!Event(t) EXCEPT !.stop = stop].type = t
  BY DEF ToResponses!Event, ToResponses!About, ToResponses!DeltaOf

\* Frames for no end.
LEMMA ToResponsesTypes ==
  ({"created", "item_added", "part_added", "part_done", "item_done", "failed"} \cup DeltaTypes)
    \cap (Success \cup {"error"}) = {}
  BY DEF Success, DeltaTypes

\* Keeping is reflexive and transitive.
LEMMA ToResponsesChains ==
  /\ \A e : ToResponsesReady(e) => ToResponsesGoes(e, e)
  /\ \A e, f, g : ToResponsesGoes(e, f) /\ ToResponsesGoes(f, g) => ToResponsesGoes(e, g)
  BY DEF ToResponsesGoes, Keeps

\* One frame more, behind what was done before.
LEMMA ToResponsesEmitsNext ==
  ASSUME NEW e, NEW r, ToResponsesGoes(e, r), NEW f, f.type \notin Success \cup {"error"}
  PROVE  ToResponsesGoes(e, ToResponses!Emit(r, f))
  <1>1. ToResponsesGoes(r, ToResponses!Emit(r, f)) BY ToResponsesEmits DEF ToResponsesGoes
  <1> QED BY <1>1, ToResponsesChains

\* An item opens.
LEMMA ToResponsesOpens ==
  ASSUME NEW e, ToResponsesReady(e), NEW i, NEW kind, NEW id
  PROVE  ToResponsesGoes(e, ToResponses!Open(e, i, kind, id))
  <1> DEFINE item == [index |-> Len(e.order), kind |-> kind, id |-> id, text |-> <<>>,
                      closed |-> FALSE]
             items == ToResponses!With(e.items, i, item)
             order == Append(e.order, i)
             a == [e EXCEPT !.items = items, !.order = order]
             f == [ToResponses!About("item_added", item.index) EXCEPT !.kind = kind, !.id = id]
             g == ToResponses!About("part_added", item.index)
             added == ToResponses!Emit(a, f)
  <1>1. ToResponses!Open(e, i, kind, id) \in {e, added, ToResponses!Emit(added, g)}
    BY Zenon DEF ToResponses!Open
  <1>2. f.type \notin Success \cup {"error"} /\ g.type \notin Success \cup {"error"}
    BY ToResponsesFrames, ToResponsesTypes
  <1> HIDE DEF item, items, f, g
  <1>3. IsList(order) BY ListAppended DEF ToResponsesReady
  <1> HIDE DEF order
  <1>4. ToResponsesGoes(e, a) BY <1>3 DEF ToResponsesGoes, ToResponsesReady, Keeps
  <1> HIDE DEF a
  <1>5. ToResponsesGoes(e, added) BY <1>2, <1>4, ToResponsesEmitsNext
  <1> HIDE DEF added
  <1>6. ToResponsesGoes(e, ToResponses!Emit(added, g)) BY <1>2, <1>5, ToResponsesEmitsNext
  <1> QED BY <1>1, <1>5, <1>6, ToResponsesChains

\* A block begins.
LEMMA ToResponsesBegins ==
  ASSUME NEW e, ToResponsesReady(e), NEW ev
  PROVE  ToResponsesGoes(e, ToResponses!Begin(e, ev))
  <1>1. \A x : ToResponsesGoes(e, [e EXCEPT !.skip = x])
    BY DEF ToResponsesGoes, ToResponsesReady, Keeps
  <1> QED BY <1>1, ToResponsesOpens DEF ToResponses!Begin

\* A delta.
LEMMA ToResponsesDelta ==
  ASSUME NEW e, ToResponsesReady(e), NEW ev,
         ev.type \in {"text_delta", "thinking_delta", "tool_input"}
  PROVE  ToResponsesGoes(e, ToResponses!Delta(e, ev))
  <1> DEFINE kind == ToResponses!KindForDelta(ev.type)
             s == ToResponses!Open(e, ev.index, kind, "")
             item == s.items[ev.index]
             type == ToResponses!DeltaFrame(ev.type, item.kind)
             f == ToResponses!DeltaOf(type, item.index, ev.text)
             a == [s EXCEPT !.items[ev.index].text = @ \o ev.text]
  <1>1. ToResponses!Delta(e, ev) = IF ev.index \in e.skip THEN e ELSE ToResponses!Emit(a, f)
    BY Zenon DEF ToResponses!Delta
  <1>2. type \in DeltaTypes BY DEF ToResponses!DeltaFrame, DeltaTypes
  <1> HIDE DEF kind
  <1>3. ToResponsesGoes(e, s)
    <2>1. \A id : ToResponsesGoes(e, ToResponses!Open(e, ev.index, kind, id))
      BY ToResponsesOpens
    <2> QED BY <2>1, Zenon
  <1> HIDE DEF s, type, item
  <1>4. f.type \notin Success \cup {"error"} BY <1>2, ToResponsesFrames, ToResponsesTypes
  <1> HIDE DEF f
  <1>5. ToResponsesGoes(e, a) BY <1>3 DEF ToResponsesGoes, ToResponsesReady, Keeps
  <1> HIDE DEF a
  <1>6. ToResponsesGoes(e, ToResponses!Emit(a, f)) BY <1>4, <1>5, ToResponsesEmitsNext
  <1> QED BY <1>1, <1>6, ToResponsesChains

\* An item is done.
LEMMA ToResponsesClosesItem ==
  ASSUME NEW e, ToResponsesReady(e), NEW i, NEW status
  PROVE  ToResponsesGoes(e, ToResponses!Close(e, i, status))
  <1> DEFINE item == e.items[i]
             done == [ToResponses!About("item_done", item.index) EXCEPT !.kind = status, !.text = item.text]
             part == [done EXCEPT !.type = "part_done"]
             s == [e EXCEPT !.items[i].closed = TRUE]
  <1>1. ToResponses!Close(e, i, status)
        \in {e, ToResponses!Emit(s, done), ToResponses!Emit(ToResponses!Emit(s, part), done)}
    BY Zenon DEF ToResponses!Close
  <1>2. done.type \notin Success \cup {"error"} /\ part.type \notin Success \cup {"error"}
    BY ToResponsesFrames, ToResponsesTypes
  <1> HIDE DEF item, done, part
  <1>3. ToResponsesGoes(e, s) BY DEF ToResponsesGoes, ToResponsesReady, Keeps
  <1> HIDE DEF s
  <1>4. /\ ToResponsesGoes(e, ToResponses!Emit(s, done))
        /\ ToResponsesGoes(e, ToResponses!Emit(ToResponses!Emit(s, part), done))
    BY <1>2, <1>3, ToResponsesEmitsNext
  <1> QED BY <1>1, <1>4, ToResponsesChains

\* The loop that closes all items, with a status.
ToResponsesStep(status, acc, i) == ToResponses!Close(acc, i, status)
StaysToResponses(e, k, acc) == ToResponsesGoes(e, acc)
ToResponsesF == INSTANCE FoldFacts WITH Op <- ToResponsesStep, Holds <- StaysToResponses

\* All items are done.
LEMMA ToResponsesCloses ==
  ASSUME NEW e, ToResponsesReady(e), NEW status
  PROVE  ToResponsesGoes(e, ToResponses!CloseAll(e, status))
  <1> DEFINE seq == e.order
             r == ToResponses!CloseAll(e, status)
  <1>1. r = ToResponsesF!Fold(status, e, seq)
    BY DEF ToResponses!CloseAll, ToResponses!Loop, ToResponses!MapThenFoldSet, ToResponses!Greatest,
           ToResponsesF!Fold, ToResponsesStep, ToResponsesF!GreatestOf
  <1>2. Len(seq) \in Nat /\ DOMAIN seq = 1..Len(seq) BY Listed DEF ToResponsesReady
  <1> HIDE DEF seq, r
  <1>3. \A acc : \A k \in 1..Len(seq) :
           StaysToResponses(e, k - 1, acc) => StaysToResponses(e, k, ToResponsesStep(status, acc, seq[k]))
    BY ToResponsesClosesItem, ToResponsesChains
       DEF StaysToResponses, ToResponsesStep, ToResponsesGoes
  <1>4. StaysToResponses(e, 0, e) BY ToResponsesChains DEF StaysToResponses
  <1>5. StaysToResponses(e, Len(seq), ToResponsesF!Fold(status, e, seq))
    BY <1>2, <1>3, <1>4, ToResponsesF!FoldKeeps
  <1> QED BY <1>1, <1>5 DEF StaysToResponses, r

\* The end of the message is told once.
LEMMA ToResponsesEnds ==
  ASSUME NEW e, ToResponsesReady(e), ~e.errored
  PROVE  LET r == ToResponses!Finish(e) IN
         /\ ToResponsesReady(r) /\ ~r.errored /\ r.stopped
         /\ ~e.stopped /\ Plain(e.out) => OneEnd(r.out)
         /\ e.stopped => r = e
  <1> DEFINE a == [e EXCEPT !.stopped = TRUE]
             closed == ToResponses!CloseAll(a, "completed")
             type == ToResponses!Final(e.stop)
             f == [ToResponses!Event(type) EXCEPT !.stop = e.stop]
             r == ToResponses!Emit(closed, f)
  <1>1. ToResponses!Finish(e) = IF e.stopped THEN e ELSE r
    BY Zenon DEF ToResponses!Finish
  <1>2. type \in Success BY DEF ToResponses!Final, Success
  <1> HIDE DEF type
  <1>3. f.type \in Success BY <1>2, ToResponsesFrames
  <1> HIDE DEF f
  <1>4. ToResponsesReady(a) /\ a.stopped /\ ~a.errored /\ a.out = e.out
    BY DEF ToResponsesReady
  <1> HIDE DEF a
  <1>5. ToResponsesGoes(a, closed) BY <1>4, ToResponsesCloses
  <1> HIDE DEF closed
  <1>6. /\ ToResponsesReady(closed) /\ closed.stopped /\ ~closed.errored
        /\ Plain(e.out) => Plain(closed.out)
    BY <1>4, <1>5 DEF ToResponsesGoes, Keeps, Tells, Modes
  <1>7. /\ DOMAIN r = DOMAIN closed /\ r.out = Append(closed.out, f) /\ r.order = closed.order
        /\ r.stopped = closed.stopped /\ r.errored = closed.errored
    BY <1>6 DEF ToResponses!Emit, ToResponsesReady
  <1> HIDE DEF r
  <1>8. ToResponsesReady(r) BY <1>6, <1>7, ListAppended DEF ToResponsesReady
  <1>9. Plain(e.out) => OneEnd(r.out) BY <1>3, <1>6, <1>7, EndTold
  <1> QED BY <1>1, <1>6, <1>7, <1>8, <1>9

\* An event within the message, or the reason it ends for.
LEMMA ToResponsesTakes ==
  ASSUME NEW e, ToResponsesReady(e), NEW ev, ev.type \in EventTypes \ {"message_stop", "error"}
  PROVE  ToResponsesGoes(e, ToResponses!Encode(e, ev))
  <1>1. ToResponsesGoes(e, e) /\ \A stop : ToResponsesGoes(e, [e EXCEPT !.stop = stop])
    BY ToResponsesChains DEF ToResponsesGoes, ToResponsesReady, Keeps
  <1>2. ToResponsesGoes(e, ToResponses!Emit(e, ToResponses!Event("created")))
    <2>1. ToResponses!Event("created").type \notin Success \cup {"error"}
      BY ToResponsesFrames, ToResponsesTypes
    <2> QED BY <2>1, ToResponsesEmits
  <1>3. CASE ev.type \in {"text_delta", "thinking_delta", "tool_input"}
    <2>1. ToResponses!Encode(e, ev) \in {e, ToResponses!Delta(e, ev)}
      BY <1>3, Zenon DEF ToResponses!Encode
    <2> QED BY <1>1, <1>3, <2>1, ToResponsesDelta
  <1>4. CASE ev.type \notin {"text_delta", "thinking_delta", "tool_input"}
    <2>1. ToResponses!Encode(e, ev) \in {e, ToResponses!Emit(e, ToResponses!Event("created")),
             ToResponses!Begin(e, ev), ToResponses!Close(e, ev.index, "completed"),
             [e EXCEPT !.stop = ev.stop]}
      BY <1>4, Zenon DEF ToResponses!Encode, EventTypes
    <2> QED BY <1>1, <1>2, <2>1, ToResponsesBegins, ToResponsesClosesItem
  <1> QED BY <1>3, <1>4

\* An error.
LEMMA ToResponsesFails ==
  ASSUME NEW e, ToResponsesReady(e), ~e.errored, Plain(e.out), NEW ev, ev.type = "error"
  PROVE  LET r == ToResponses!Encode(e, ev) IN
         ToResponsesReady(r) /\ r.errored /\ Failing(r.out)
  <1> DEFINE c == ToResponses!CloseAll(e, "incomplete")
             f == ToResponses!Event("error")
             failed == ToResponses!Event("failed")
             a == ToResponses!Emit([c EXCEPT !.errored = TRUE], f)
  <1>1. ToResponses!Encode(e, ev) = ToResponses!Emit(a, failed)
    BY DEF ToResponses!Encode, ToResponses!Fail
  <1>2. f.type = "error" /\ failed.type \notin Success \cup {"error"}
    BY ToResponsesFrames, ToResponsesTypes
  <1>3. ToResponsesGoes(e, c) BY ToResponsesCloses
  <1> HIDE DEF c, f, failed
  <1>4. ToResponsesReady(c) /\ Plain(c.out)
    BY <1>3 DEF ToResponsesGoes, Keeps, Tells, Modes
  <1>5. /\ DOMAIN a = DOMAIN c /\ a.out = Append(c.out, f) /\ a.order = c.order
        /\ a.errored = TRUE /\ a.stopped = c.stopped
    BY <1>4 DEF ToResponses!Emit, ToResponsesReady
  <1> HIDE DEF a
  <1>6. Failing(a.out) BY <1>2, <1>4, <1>5, FailureTold
  <1>7. ToResponsesReady(a) BY <1>4, <1>5, <1>6 DEF ToResponsesReady, Failing
  <1>8. ToResponsesGoes(a, ToResponses!Emit(a, failed)) BY <1>2, <1>7, ToResponsesEmits
  <1> QED BY <1>1, <1>5, <1>6, <1>8 DEF ToResponsesGoes, Keeps, Tells, Modes

-----------------------------------------------------------------------------
(* The encoder for any client.                                             *)

EncoderReady(e) ==
  CASE to = "anthropic" -> ToAnthropicReady(e)
    [] to = "chat" -> ToChatReady(e)
    [] to = "responses" -> ToResponsesReady(e)

\* Within a message, behind its end, behind an error.
Running(e) == EncoderReady(e) /\ ~e.stopped /\ ~e.errored /\ Plain(e.out)
Finished(e) == EncoderReady(e) /\ e.stopped /\ ~e.errored /\ OneEnd(e.out)
Failed(e) == EncoderReady(e) /\ e.errored /\ Failing(e.out)

\* A new encoder is ready and has told nothing; an encoder has its fields.
LEMMA EncoderBegins ==
  ASSUME to \in DOMAIN Encoders
  PROVE  /\ Running(Encoders[to]) /\ Encoders[to].out = <<>>
         /\ \A e : EncoderReady(e) => DOMAIN e = DOMAIN Encoders[to]
  <1>1. Plain(<<>>) /\ IsList(<<>>) BY ListEmpty DEF Plain
  <1>2. CASE to = "anthropic"
    <2>1. Encoders[to] = ToAnthropic!New BY <1>2 DEF Encoders
    <2>2. /\ DOMAIN ToAnthropic!New = {"started", "stopped", "errored", "sentDelta", "order",
                                       "open", "pending", "out"}
          /\ ToAnthropic!New.out = <<>> /\ ToAnthropic!New.order = <<>>
          /\ ToAnthropic!New.stopped = FALSE /\ ToAnthropic!New.errored = FALSE
      BY DEF ToAnthropic!New
    <2> QED BY <1>1, <1>2, <2>1, <2>2, Zenon DEF EncoderReady, Running, ToAnthropicReady
  <1>3. CASE to = "chat"
    <2>1. Encoders[to] = ToChat!New BY <1>3 DEF Encoders
    <2>2. /\ DOMAIN ToChat!New = {"stopped", "errored", "kinds", "slots", "pending", "stop", "out"}
          /\ ToChat!New.out = <<>> /\ ToChat!New.pending = {}
          /\ ToChat!New.stopped = FALSE /\ ToChat!New.errored = FALSE
      BY DEF ToChat!New
    <2>3. IsFiniteSet({}) BY FS_EmptySet
    <2> QED BY <1>1, <1>3, <2>1, <2>2, <2>3, Zenon DEF EncoderReady, Running, ToChatReady
  <1>4. CASE to = "responses"
    <2>1. Encoders[to] = ToResponses!New BY <1>4 DEF Encoders
    <2>2. /\ DOMAIN ToResponses!New = {"stopped", "errored", "items", "order", "skip", "stop", "out"}
          /\ ToResponses!New.out = <<>> /\ ToResponses!New.order = <<>>
          /\ ToResponses!New.stopped = FALSE /\ ToResponses!New.errored = FALSE
      BY DEF ToResponses!New
    <2> QED BY <1>1, <1>4, <2>1, <2>2, Zenon DEF EncoderReady, Running, ToResponsesReady
  <1> QED BY <1>2, <1>3, <1>4, AllProtocols

\* An event that is neither the end of the message nor an error.
LEMMA EncoderTakes ==
  ASSUME to \in DOMAIN Encoders, NEW e, EncoderReady(e),
         NEW ev, ev.type \in EventTypes \ {"message_stop", "error"}
  PROVE  EncoderReady(Encode(e, ev)) /\ Keeps(e, Encode(e, ev))
  <1>1. CASE to = "anthropic"
    BY <1>1, ToAnthropicTakes DEF EncoderReady, Encode, ToAnthropicGoes
  <1>2. CASE to = "chat"
    BY <1>2, ToChatTakes DEF EncoderReady, Encode, ToChatGoes
  <1>3. CASE to = "responses"
    BY <1>3, ToResponsesTakes DEF EncoderReady, Encode, ToResponsesGoes
  <1> QED BY <1>1, <1>2, <1>3, AllProtocols

\* Such an event leaves the encoder where it was, in its message or behind
\* the end of it.
LEMMA EncoderStays ==
  ASSUME to \in DOMAIN Encoders, NEW e,
         NEW ev, ev.type \in EventTypes \ {"message_stop", "error"}
  PROVE  /\ Running(e) => Running(Encode(e, ev))
         /\ Finished(e) => Finished(Encode(e, ev))
  <1> DEFINE r == Encode(e, ev)
  <1>1. EncoderReady(e) => EncoderReady(r) /\ Keeps(e, r) BY EncoderTakes
  <1> HIDE DEF r
  <1> QED BY <1>1 DEF Running, Finished, Keeps, Tells, Modes, r

\* What finishes the message does so once, whether it is the event that
\* ends it or Finish.
LEMMA EncoderEnds ==
  ASSUME to \in DOMAIN Encoders, NEW e, Running(e) \/ Finished(e)
  PROVE  /\ Finished(EncoderFinish(e))
         /\ \A ev : ev.type = "message_stop" => Finished(Encode(e, ev))
  <1> SUFFICES ASSUME NEW ev, ev.type = "message_stop"
               PROVE  Finished(EncoderFinish(e)) /\ Finished(Encode(e, ev))
    <2>1. \E ev : ev.type = "message_stop"
      <3>1. Event("message_stop").type = "message_stop" BY DEF Event
      <3> QED BY <3>1
    <2> QED BY <2>1
  <1>1. EncoderReady(e) /\ ~e.errored /\ (e.stopped \/ Plain(e.out))
        /\ (e.stopped => OneEnd(e.out))
    BY DEF Running, Finished
  <1>2. CASE to = "anthropic"
    <2>1. Encode(e, ev) = ToAnthropic!MessageStop(e)
      BY <1>1, <1>2, Zenon DEF Encode, ToAnthropic!Encode
    <2>2. EncoderFinish(e) = IF e.stopped THEN e ELSE ToAnthropic!MessageStop(e)
      BY <1>1, <1>2, Zenon DEF EncoderFinish, ToAnthropic!Finish
    <2> QED BY <1>1, <1>2, <2>1, <2>2, ToAnthropicEnds DEF EncoderReady, Finished
  <1>3. CASE to = "chat"
    <2>1. Encode(e, ev) = ToChat!Finish(e)
      BY <1>1, <1>3, Zenon DEF Encode, ToChat!Encode
    <2>2. EncoderFinish(e) = ToChat!Finish(e) BY <1>3, Zenon DEF EncoderFinish
    <2> QED BY <1>1, <1>3, <2>1, <2>2, ToChatEnds DEF EncoderReady, Finished
  <1>4. CASE to = "responses"
    <2>1. Encode(e, ev) = ToResponses!Finish(e)
      BY <1>1, <1>4, Zenon DEF Encode, ToResponses!Encode
    <2>2. EncoderFinish(e) = ToResponses!Finish(e) BY <1>4, Zenon DEF EncoderFinish
    <2> QED BY <1>1, <1>4, <2>1, <2>2, ToResponsesEnds DEF EncoderReady, Finished
  <1> QED BY <1>2, <1>3, <1>4, AllProtocols

\* An error is told, and no end of the message behind it.
LEMMA EncoderFails ==
  ASSUME to \in DOMAIN Encoders, NEW e, Running(e), NEW ev, ev.type = "error"
  PROVE  Failed(EncoderFinish(Encode(e, ev)))
  <1> DEFINE r == Encode(e, ev)
  <1>1. Failed(r)
    <2>1. CASE to = "anthropic"
      BY <2>1, ToAnthropicFails DEF EncoderReady, Encode, Running, Failed
    <2>2. CASE to = "chat"
      BY <2>2, ToChatFails DEF EncoderReady, Encode, Running, Failed
    <2>3. CASE to = "responses"
      BY <2>3, ToResponsesFails DEF EncoderReady, Encode, Running, Failed
    <2> QED BY <2>1, <2>2, <2>3, AllProtocols
  <1> HIDE DEF r
  <1>2. r.errored BY <1>1 DEF Failed
  <1>3. EncoderFinish(r) = r
    BY <1>2, AllProtocols DEF EncoderFinish, ToAnthropic!Finish, ToChat!Finish, ToResponses!Finish
  <1> QED BY <1>1, <1>3 DEF r

\* The loop over the end of the message.
EncodeStep(env, acc, ev) == Encode(acc, ev)
StaysInOrBehind(given, k, acc) == Running(acc) \/ Finished(acc)
EncodeF == INSTANCE FoldFacts WITH Op <- EncodeStep, Holds <- StaysInOrBehind

\* The end of a message: the reason it ended for and the end itself, in
\* any number.
LEMMA EncoderTakesTail ==
  ASSUME to \in DOMAIN Encoders, NEW e, Running(e), NEW tail, IsList(tail),
         \A n \in DOMAIN tail : tail[n].type \in {"message_delta", "message_stop"}
  PROVE  Finished(EncoderFinish(FoldLeft(Encode, e, tail)))
  <1> DEFINE r == FoldLeft(Encode, e, tail)
  <1>1. r = EncodeF!Fold(<<>>, e, tail)
    BY DEF FoldLeft, MapThenFoldSet, Max, EncodeF!Fold, EncodeStep, EncodeF!GreatestOf
  <1>2. Len(tail) \in Nat /\ DOMAIN tail = 1..Len(tail) BY Listed
  <1> HIDE DEF r
  <1>3. \A acc : \A k \in 1..Len(tail) :
           StaysInOrBehind(<<>>, k - 1, acc) => StaysInOrBehind(<<>>, k, EncodeStep(<<>>, acc, tail[k]))
    <2> SUFFICES ASSUME NEW acc, NEW k \in 1..Len(tail), Running(acc) \/ Finished(acc)
                 PROVE  Running(Encode(acc, tail[k])) \/ Finished(Encode(acc, tail[k]))
      BY DEF StaysInOrBehind, EncodeStep
    <2>1. tail[k].type = "message_delta" \/ tail[k].type = "message_stop" BY <1>2
    <2>2. CASE tail[k].type = "message_delta"
      <3>1. "message_delta" \in EventTypes \ {"message_stop", "error"} BY DEF EventTypes
      <3> QED BY <2>2, <3>1, EncoderStays
    <2>3. CASE tail[k].type = "message_stop" BY <2>3, EncoderEnds, Zenon
    <2> QED BY <2>1, <2>2, <2>3
  <1>4. StaysInOrBehind(<<>>, 0, e) BY DEF StaysInOrBehind
  <1>5. StaysInOrBehind(<<>>, Len(tail), EncodeF!Fold(<<>>, e, tail))
    BY <1>2, <1>3, <1>4, EncodeF!FoldKeeps
  <1>6. Running(r) \/ Finished(r) BY <1>1, <1>5 DEF StaysInOrBehind
  <1> QED BY <1>6, EncoderEnds, Zenon DEF r

-----------------------------------------------------------------------------
(* The answer a client gets in one body.                                   *)

\* A block of the answer, and all of them.
IsBlock(b) == DOMAIN b = {"index", "kind", "id", "text", "signer"} /\ b.kind \in Kinds
AreBlocks(s) == IsList(s) /\ \A n \in DOMAIN s : IsBlock(s[n])

\* One block more.
LEMMA BlockAdded ==
  ASSUME NEW s, AreBlocks(s), NEW b, IsBlock(b)
  PROVE  AreBlocks(Append(s, b))
  <1> DEFINE r == Append(s, b)
  <1>1. /\ IsList(r)
        /\ DOMAIN s = 1..Len(s) /\ DOMAIN r = 1..(Len(s) + 1) /\ Len(s) \in Nat
        /\ \A i \in 1..Len(s) : r[i] = s[i]
        /\ r[Len(s) + 1] = b
    BY ListAppended DEF AreBlocks
  <1> HIDE DEF r
  <1>2. \A n \in DOMAIN r : (n \in DOMAIN s /\ r[n] = s[n]) \/ r[n] = b BY <1>1
  <1>3. AreBlocks(r) BY <1>1, <1>2 DEF AreBlocks
  <1> QED BY <1>3 DEF r

\* One block changed.
LEMMA BlockChanged ==
  ASSUME NEW s, AreBlocks(s), NEW i, NEW b, i \in DOMAIN s => IsBlock(b)
  PROVE  AreBlocks([s EXCEPT ![i] = b])
  <1>1. IsList([s EXCEPT ![i] = b]) BY ListChanged DEF AreBlocks
  <1> QED BY <1>1 DEF AreBlocks

\* One event: a block is begun, found or opened, and grows or is signed.
LEMMA Gathers ==
  ASSUME NEW s, AreBlocks(s), NEW ev, IsEvent(ev)
  PROVE  AreBlocks(Gathered!Gather(s, ev))
  <1>1. \A i, id : \A kind \in Kinds : IsBlock(Gathered!Fresh(i, kind, id))
    BY DEF IsBlock, Gathered!Fresh
  <1>2. ASSUME NEW b, IsBlock(b) PROVE AreBlocks(Gathered!Begun(s, b))
    BY <1>2, BlockAdded, BlockChanged DEF Gathered!Begun
  <1>3. ASSUME NEW i, NEW kind \in Kinds
        PROVE  AreBlocks(Gathered!Ensured(s, i, kind))
    BY <1>1, BlockAdded DEF Gathered!Ensured
  <1>4. ASSUME NEW i, NEW kind \in Kinds, NEW text
        PROVE  AreBlocks(Gathered!Grown(s, i, kind, text))
    <2> DEFINE all == Gathered!Ensured(s, i, kind)
               p == Gathered!PlaceOf(all, i)
               v == [all[p] EXCEPT !.text = all[p].text \o text]
    <2>1. Gathered!Grown(s, i, kind, text) = [all EXCEPT ![p] = v] BY DEF Gathered!Grown
    <2>2. AreBlocks(all) BY <1>3
    <2> HIDE DEF all, p
    <2>3. p \in DOMAIN all => IsBlock(v) BY <2>2 DEF AreBlocks, IsBlock
    <2> HIDE DEF v
    <2>4. AreBlocks([all EXCEPT ![p] = v]) BY <2>2, <2>3, BlockChanged
    <2> QED BY <2>1, <2>4
  <1>5. ASSUME NEW i, NEW signer
        PROVE  AreBlocks(Gathered!Signed(s, i, signer))
    <2> DEFINE all == Gathered!Ensured(s, i, "thinking")
               p == Gathered!PlaceOf(all, i)
               v == [all[p] EXCEPT !.signer = signer]
    <2>1. Gathered!Signed(s, i, signer) = [all EXCEPT ![p] = v] BY DEF Gathered!Signed
    <2>2. AreBlocks(all) BY <1>3 DEF Kinds
    <2> HIDE DEF all, p
    <2>3. p \in DOMAIN all => IsBlock(v) BY <2>2 DEF AreBlocks, IsBlock
    <2> HIDE DEF v
    <2>4. AreBlocks([all EXCEPT ![p] = v]) BY <2>2, <2>3, BlockChanged
    <2> QED BY <2>1, <2>4
  <1>6. ev.type = "block_start" => IsBlock(Gathered!Fresh(ev.index, ev.kind, ev.id))
    BY <1>1 DEF IsEvent
  <1>7. {"text", "thinking", "tool_use"} \subseteq Kinds BY DEF Kinds
  <1> QED BY <1>2, <1>4, <1>5, <1>6, <1>7, Zenon DEF Gathered!Gather

\* Frames that say neither.
LEMMA PlainJoined ==
  ASSUME NEW s, Plain(s), NEW t, Plain(t)
  PROVE  Plain(s \o t)
  <1> DEFINE r == s \o t
  <1>1. /\ IsList(r)
        /\ \A k \in DOMAIN r : \/ k \in DOMAIN s /\ r[k] = s[k]
                               \/ k - Len(s) \in DOMAIN t /\ r[k] = t[k - Len(s)]
    BY ListConcatenated DEF Plain
  <1> HIDE DEF r
  <1>2. Plain(r) BY <1>1 DEF Plain
  <1> QED BY <1>2 DEF r

\* A list with a list of one frame behind it.
LEMMA OneJoined ==
  ASSUME NEW s, IsList(s), NEW t, IsList(t)
  PROVE  LET r == s \o t
             n == Len(s) + 1
         IN  Len(t) = 1 =>
               /\ IsList(r) /\ DOMAIN r = DOMAIN s \cup {n}
               /\ r[n] = t[1] /\ \A i \in DOMAIN s : r[i] = s[i]
  <1> DEFINE r == s \o t
  <1>1. /\ IsList(r) /\ Len(s) \in Nat
        /\ DOMAIN s = 1..Len(s) /\ DOMAIN r = 1..(Len(s) + Len(t))
        /\ \A i \in 1..Len(s) : r[i] = s[i]
        /\ \A i \in 1..Len(t) : r[Len(s) + i] = t[i]
    BY ListConcatenated
  <1> HIDE DEF r
  <1>2. ASSUME Len(t) = 1
        PROVE  DOMAIN r = DOMAIN s \cup {Len(s) + 1} /\ r[Len(s) + 1] = t[1]
    BY <1>1, <1>2
  <1> QED BY <1>1, <1>2 DEF r

\* The frame that says the answer is there, behind the others.
LEMMA EndJoined ==
  ASSUME NEW s, Plain(s), NEW f, f.type \in Success
  PROVE  OneEnd(s \o <<f>>)
  <1> DEFINE t == <<f>>
             r == s \o t
             n == Len(s) + 1
  <1>1. IsList(t) /\ Len(t) = 1 /\ t[1] = f
    <2>1. <<f>> \in Seq({f}) OBVIOUS
    <2> QED BY <2>1, ListOf
  <1> HIDE DEF t
  <1>2. IsList(s) BY DEF Plain
  <1>3. IsList(r) /\ DOMAIN r = DOMAIN s \cup {n} /\ r[n] = f /\ \A i \in DOMAIN s : r[i] = s[i]
    BY <1>1, <1>2, OneJoined, Zenon
  <1> HIDE DEF r, n
  <1>4. SuccessesIn(r) = {n} BY <1>3 DEF SuccessesIn, Plain
  <1>5. OneEnd(r) BY <1>3, <1>4 DEF OneEnd
  <1> QED BY <1>5 DEF r, t

\* The loops that pick blocks: those of some kinds, those that are no shell.
PickStep(kinds, acc, b) == IF b.kind \in kinds THEN Append(acc, b) ELSE acc
KeepStep(env, acc, b) == IF ~Gathered!Shell(b) THEN Append(acc, b) ELSE acc
PickF == INSTANCE FoldFacts WITH Op <- PickStep, Holds <- StaysList
KeepF == INSTANCE FoldFacts WITH Op <- KeepStep, Holds <- StaysList

Picked(s, kinds) == PickF!Fold(kinds, <<>>, s)
Kept(s) == KeepF!Fold(<<>>, <<>>, s)

\* What is picked was there, and is of the kinds asked for.
LEMMA PicksSome ==
  ASSUME NEW s, IsList(s), NEW kinds
  PROVE  LET r == Picked(s, kinds) IN
         IsList(r) /\ \A n \in DOMAIN r : r[n].kind \in kinds /\ \E m \in DOMAIN s : r[n] = s[m]
  <1> DEFINE E == ToSet(s)
             T == {b \in E : b.kind \in kinds}
             r == Picked(s, kinds)
  <1>1. s \in Seq(E) BY DEF IsList
  <1>2. \A b \in E : \E m \in DOMAIN s : b = s[m] BY DEF ToSet
  <1>3. \A k \in DOMAIN s : s[k] \in E BY DEF ToSet
  <1> HIDE DEF E
  <1>4. \A acc : \A k \in DOMAIN s :
           PickStep(kinds, acc, s[k]) = IF s[k] \in T THEN Append(acc, s[k]) ELSE acc
    BY <1>3 DEF PickStep
  <1> HIDE DEF T
  <1>5. r \in Seq(T) BY <1>1, <1>4, PickF!FilterMembers, Zenon DEF Picked
  <1> HIDE DEF r
  <1>6. IsList(r) /\ \A n \in DOMAIN r : r[n] \in T BY <1>5, ListOf
  <1> QED BY <1>2, <1>6 DEF T, r

\* What is kept was there.
LEMMA KeepsSome ==
  ASSUME NEW s, IsList(s)
  PROVE  LET r == Kept(s) IN
         IsList(r) /\ \A n \in DOMAIN r : \E m \in DOMAIN s : r[n] = s[m]
  <1> DEFINE E == ToSet(s)
             T == {b \in E : ~Gathered!Shell(b)}
             r == Kept(s)
  <1>1. s \in Seq(E) BY DEF IsList
  <1>2. \A b \in E : \E m \in DOMAIN s : b = s[m] BY DEF ToSet
  <1>3. \A k \in DOMAIN s : s[k] \in E BY DEF ToSet
  <1> HIDE DEF E
  <1>4. \A acc : \A k \in DOMAIN s :
           KeepStep(<<>>, acc, s[k]) = IF s[k] \in T THEN Append(acc, s[k]) ELSE acc
    BY <1>3 DEF KeepStep
  <1> HIDE DEF T
  <1>5. r \in Seq(T) BY <1>1, <1>4, KeepF!FilterMembers, Zenon DEF Kept
  <1> HIDE DEF r
  <1>6. IsList(r) /\ \A n \in DOMAIN r : r[n] \in T BY <1>5, ListOf
  <1> QED BY <1>2, <1>6 DEF T, r

\* The parts of a body, one for each block, say neither.
LEMMA PartsPlain ==
  ASSUME NEW s, IsList(s), NEW p, p = [n \in DOMAIN s |-> p[n]],
         \A n \in DOMAIN s : p[n].type \notin Success \cup {"error"}
  PROVE  Plain(p)
  <1>1. Len(s) \in Nat /\ DOMAIN s = 1..Len(s) BY Listed
  <1>2. p = [n \in 1..Len(s) |-> p[n]] BY <1>1
  <1>3. IsList(p) BY <1>1, <1>2, ListMade
  <1>4. DOMAIN p = DOMAIN s OBVIOUS
  <1> QED BY <1>3, <1>4 DEF Plain

\* The types of the parts of a body.
LEMMA PartTypes ==
  /\ {"text", "refusal", "reasoning", "thinking", "call", "content"} \cap (Success \cup {"error"}) = {}
  /\ \A type, i, b : Gathered!Part(type, i, b).type = type
  /\ \A type : Gathered!Event(type).type = type
  /\ \A type, x : [Gathered!Event(type) EXCEPT !.stop = x].type = type
  /\ \A type, x : [Gathered!Event(type) EXCEPT !.text = x].type = type
  BY DEF Success, Gathered!Part, Gathered!About, Gathered!Event

\* The body for an anthropic client.
LEMMA AnthropicBodyEnds ==
  ASSUME NEW blocks, AreBlocks(blocks), NEW stop
  PROVE  OneEnd(Gathered!AnthropicBody(blocks, stop))
  <1> DEFINE kept == Kept(blocks)
             p == [n \in DOMAIN kept |-> Gathered!AnthropicPart(n - 1, kept[n])]
             f == [Gathered!Event("message_stop") EXCEPT !.stop = IF stop = "" THEN "end_turn" ELSE stop]
  <1>1. Gathered!AnthropicBody(blocks, stop) = p \o <<f>>
    <2>1. Gathered!Filter(blocks, LAMBDA b : ~Gathered!Shell(b)) = kept
      BY DEF Gathered!Filter, Gathered!Loop, Gathered!MapThenFoldSet, Gathered!Greatest,
             Kept, KeepF!Fold, KeepStep, KeepF!GreatestOf
    <2> HIDE DEF kept
    <2> QED BY <2>1, Zenon DEF Gathered!AnthropicBody
  <1>2. f.type \in Success BY PartTypes DEF Success
  <1> HIDE DEF f
  <1>3. IsList(kept) /\ \A n \in DOMAIN kept : kept[n].kind \in Kinds
    BY KeepsSome DEF AreBlocks, IsBlock
  <1> HIDE DEF kept
  <1>4. \A i, b : b.kind \in Kinds => Gathered!AnthropicPart(i, b).type \in {"text", "thinking", "call"}
    BY PartTypes DEF Gathered!AnthropicPart, Gathered!Part, Gathered!About, Gathered!Event, Kinds,
                     Gathered!CallKinds
  <1>5. \A n \in DOMAIN kept : p[n].type \notin Success \cup {"error"}
    BY <1>3, <1>4, PartTypes
  <1>6. p = [n \in DOMAIN kept |-> p[n]] OBVIOUS
  <1> HIDE DEF p
  <1>7. Plain(p) BY <1>3, <1>5, <1>6, PartsPlain
  <1> QED BY <1>1, <1>2, <1>7, EndJoined, Zenon

\* The body for a chat client.
LEMMA ChatBodyEnds ==
  ASSUME NEW blocks, AreBlocks(blocks), NEW stop
  PROVE  OneEnd(Gathered!ChatBody(blocks, stop))
  <1> DEFINE calls == Gathered!OfKinds(blocks, Gathered!CallKinds)
             a == Gathered!Field("reasoning", Gathered!OfKinds(blocks, {"thinking"}))
             b == Gathered!Field("refusal", Gathered!OfKinds(blocks, {"refusal"}))
             c == Gathered!Field("content", Gathered!OfKinds(blocks, {"text"}))
             p == [n \in DOMAIN calls |-> Gathered!Part("call", n - 1, calls[n])]
             f == [Gathered!Event("finish") EXCEPT !.stop = stop]
  <1>1. Gathered!ChatBody(blocks, stop) = a \o b \o c \o p \o <<f>>
    BY Zenon DEF Gathered!ChatBody
  <1>2. f.type \in Success BY PartTypes DEF Success
  <1> HIDE DEF f
  <1>3. \A type \in {"reasoning", "refusal", "content"} : \A s : Plain(Gathered!Field(type, s))
    <2> SUFFICES ASSUME NEW type \in {"reasoning", "refusal", "content"}, NEW s
                 PROVE  Plain(Gathered!Field(type, s))
      BY Zenon
    <2> DEFINE g == [Gathered!Event(type) EXCEPT
                       !.text = Gathered!Concatenated([n \in DOMAIN s |-> s[n].text])]
    <2>1. Gathered!Field(type, s) = IF s = <<>> THEN <<>> ELSE <<g>>
      BY Zenon DEF Gathered!Field
    <2>2. g.type \notin Success \cup {"error"} BY PartTypes
    <2> HIDE DEF g
    <2>3. Plain(<<>>) BY ListEmpty DEF Plain
    <2>4. Plain(<<g>>)
      <3>1. <<g>> \in Seq({g}) OBVIOUS
      <3>2. IsList(<<g>>) /\ \A n \in DOMAIN <<g>> : <<g>>[n] \in {g} BY <3>1, ListOf, Zenon
      <3> QED BY <2>2, <3>2 DEF Plain
    <2> QED BY <2>1, <2>3, <2>4
  <1>4. Plain(a) /\ Plain(b) /\ Plain(c) BY <1>3
  <1> HIDE DEF a, b, c
  <1>5. IsList(calls)
    <2>1. calls = Picked(blocks, Gathered!CallKinds)
      BY DEF Gathered!OfKinds, Gathered!Filter, Gathered!Loop, Gathered!MapThenFoldSet,
             Gathered!Greatest, Picked, PickF!Fold, PickStep, PickF!GreatestOf
    <2> QED BY <2>1, PicksSome, Zenon DEF AreBlocks
  <1> HIDE DEF calls
  <1>6. \A n \in DOMAIN calls : p[n].type \notin Success \cup {"error"} BY PartTypes
  <1>7. p = [n \in DOMAIN calls |-> p[n]] OBVIOUS
  <1> HIDE DEF p
  <1>8. Plain(p) BY <1>5, <1>6, <1>7, PartsPlain
  <1>9. Plain(a \o b) BY <1>4, PlainJoined, Zenon
  <1>10. Plain(a \o b \o c) BY <1>4, <1>9, PlainJoined, Zenon
  <1>11. Plain(a \o b \o c \o p) BY <1>8, <1>10, PlainJoined, Zenon
  <1> QED BY <1>1, <1>2, <1>11, EndJoined, Zenon

\* The body for a responses client.
LEMMA ResponsesBodyEnds ==
  ASSUME NEW blocks, AreBlocks(blocks), NEW stop
  PROVE  OneEnd(Gathered!ResponsesBody(blocks, stop))
  <1> DEFINE kinds == Gathered!Kinds \ {"server_tool_use"}
             kept == Gathered!OfKinds(blocks, kinds)
             p == [n \in DOMAIN kept |->
                     Gathered!Part(Gathered!ResponsesPartType(kept[n].kind),
                                   Gathered!ItemOf(kept, n), kept[n])]
             f == [Gathered!Event(Gathered!Stream!Final(stop)) EXCEPT !.stop = stop]
  <1>1. Gathered!ResponsesBody(blocks, stop) = p \o <<f>>
    BY Zenon DEF Gathered!ResponsesBody
  <1>2. f.type \in Success BY PartTypes DEF Success, Gathered!Stream!Final
  <1> HIDE DEF f
  <1>3. IsList(kept) /\ \A n \in DOMAIN kept : kept[n].kind \in kinds
    <2>1. kept = Picked(blocks, kinds)
      BY DEF Gathered!OfKinds, Gathered!Filter, Gathered!Loop, Gathered!MapThenFoldSet,
             Gathered!Greatest, Picked, PickF!Fold, PickStep, PickF!GreatestOf
    <2>2. IsList(blocks) BY DEF AreBlocks
    <2> HIDE DEF kept, kinds
    <2> QED BY <2>1, <2>2, PicksSome
  <1> HIDE DEF kept
  <1>4. \A kind \in kinds : Gathered!ResponsesPartType(kind) \in {"text", "refusal", "reasoning", "call"}
    BY DEF Gathered!ResponsesPartType, Gathered!Kinds, Gathered!CallKinds
  <1>5. \A n \in DOMAIN kept : p[n].type \notin Success \cup {"error"}
    BY <1>3, <1>4, PartTypes
  <1>6. p = [n \in DOMAIN kept |-> p[n]] OBVIOUS
  <1> HIDE DEF p
  <1>7. Plain(p) BY <1>3, <1>5, <1>6, PartsPlain
  <1> QED BY <1>1, <1>2, <1>7, EndJoined, Zenon

\* Any body says once that the answer is there.
LEMMA BodyEnds ==
  ASSUME to \in DOMAIN Encoders, NEW blocks, AreBlocks(blocks), NEW stop
  PROVE  OneEnd(Gathered!EncodeResponse(to, blocks, stop))
  <1>1. CASE to = "anthropic" BY <1>1, AnthropicBodyEnds DEF Gathered!EncodeResponse
  <1>2. CASE to = "chat" BY <1>2, ChatBodyEnds DEF Gathered!EncodeResponse
  <1>3. CASE to = "responses" BY <1>3, ResponsesBodyEnds DEF Gathered!EncodeResponse
  <1> QED BY <1>1, <1>2, <1>3, AllProtocols

-----------------------------------------------------------------------------
(* An answer the upstream gives in one body.                               *)

\* Items of known kinds.
AreItems(s) == IsList(s) /\ \A n \in DOMAIN s : s[n].kind \in Kinds

\* Items one behind the other.
LEMMA ItemsJoined ==
  ASSUME NEW s, AreItems(s), NEW t, AreItems(t)
  PROVE  AreItems(s \o t)
  <1> DEFINE r == s \o t
  <1>1. /\ IsList(r)
        /\ \A k \in DOMAIN r : \/ k \in DOMAIN s /\ r[k] = s[k]
                               \/ k - Len(s) \in DOMAIN t /\ r[k] = t[k - Len(s)]
    BY ListConcatenated DEF AreItems
  <1> HIDE DEF r
  <1>2. AreItems(r) BY <1>1 DEF AreItems
  <1> QED BY <1>2 DEF r

\* An item made of each item.
LEMMA ItemsMade ==
  ASSUME NEW s, IsList(s), NEW p, p = [n \in DOMAIN s |-> p[n]],
         \A n \in DOMAIN s : p[n].kind \in Kinds
  PROVE  AreItems(p)
  <1>1. Len(s) \in Nat /\ DOMAIN s = 1..Len(s) BY Listed
  <1>2. p = [n \in 1..Len(s) |-> p[n]] BY <1>1
  <1>3. IsList(p) BY <1>1, <1>2, ListMade
  <1>4. DOMAIN p = DOMAIN s OBVIOUS
  <1> QED BY <1>3, <1>4 DEF AreItems

\* Whatever body there is, the items of the answer are of known kinds.
LEMMA AnswerDecoded ==
  ASSUME from \in DOMAIN Decoders, NEW body, AreItems(body.items)
  PROVE  AreItems(Whole!DecodeResponse(from, body).content)
  <1>1. AreItems(<<>>) BY ListEmpty DEF AreItems
  <1>2. ASSUME NEW name PROVE AreItems(Whole!AllSignedBy(name, body.items))
    <2> DEFINE p == Whole!AllSignedBy(name, body.items)
    <2>1. /\ p = [n \in DOMAIN body.items |-> p[n]]
          /\ \A n \in DOMAIN body.items : p[n].kind = body.items[n].kind
      BY DEF Whole!AllSignedBy, Whole!SignedBy
    <2> HIDE DEF p
    <2>2. IsList(body.items) /\ \A n \in DOMAIN body.items : p[n].kind \in Kinds
      BY <2>1 DEF AreItems
    <2>3. AreItems(p) BY <2>1, <2>2, ItemsMade, Zenon
    <2> QED BY <2>3 DEF p
  <1>3. \A content, stop : Whole!Response(content, stop).content = content
    BY DEF Whole!Response
  <1>4. Whole!Undecodable.content = <<>> BY DEF Whole!Undecodable, Whole!Response
  <1>5. CASE from = "anthropic"
    <2>1. \/ Whole!DecodeAnthropic(body)
               = Whole!Response(Whole!AllSignedBy("anthropic", body.items), body.stop)
          \/ \E stop : Whole!DecodeAnthropic(body) = Whole!Response(<<>>, stop)
      BY Zenon DEF Whole!DecodeAnthropic
    <2>2. Whole!DecodeResponse(from, body) = Whole!DecodeAnthropic(body)
      BY <1>5 DEF Whole!DecodeResponse
    <2> QED BY <1>1, <1>2, <1>3, <2>1, <2>2
  <1>6. CASE from = "chat"
    <2> DEFINE all == Whole!AllSignedBy("chat", body.items)
    <2>1. AreItems(all) BY <1>2
    <2> HIDE DEF all
    <2>2. ASSUME NEW kinds
          PROVE  AreItems(Picked(all, kinds))
      BY <2>1, PicksSome DEF AreItems
    <2> DEFINE a == Picked(all, {"thinking"})
               b == Picked(all, {"text"})
               c == Picked(all, {"refusal"})
               d == Picked(all, Whole!CallKinds)
    <2>3. Whole!DecodeChat(body) = IF body.status # "ok" THEN Whole!Undecodable
                                   ELSE Whole!Response(a \o b \o c \o d, body.stop)
      BY Zenon DEF Whole!DecodeChat, Whole!Filter, Whole!Loop, Whole!MapThenFoldSet, Whole!Greatest,
                   Picked, PickF!Fold, PickStep, PickF!GreatestOf, all
    <2>4. AreItems(a) /\ AreItems(b) /\ AreItems(c) /\ AreItems(d) BY <2>2
    <2> HIDE DEF a, b, c, d
    <2>5. AreItems(a \o b) BY <2>4, ItemsJoined, Zenon
    <2>6. AreItems(a \o b \o c) BY <2>4, <2>5, ItemsJoined, Zenon
    <2>7. AreItems(a \o b \o c \o d) BY <2>4, <2>6, ItemsJoined, Zenon
    <2>8. Whole!DecodeResponse(from, body) = Whole!DecodeChat(body)
      BY <1>6 DEF Whole!DecodeResponse
    <2> QED BY <1>1, <1>3, <1>4, <2>3, <2>7, <2>8
  <1>7. CASE from = "gemini"
    <2> DEFINE one(n) == LET b == Whole!SignedBy("gemini", body.items[n])
                         IN  IF b.kind = "tool_use" /\ b.id = "" THEN [b EXCEPT !.id = "synth"] ELSE b
               p == [n \in DOMAIN body.items |-> one(n)]
    <2>1. \A n : one(n).kind = body.items[n].kind BY DEF Whole!SignedBy
    <2> HIDE DEF one
    <2>2. /\ p = [n \in DOMAIN body.items |-> p[n]] /\ IsList(body.items)
          /\ \A n \in DOMAIN body.items : p[n].kind \in Kinds
      BY <2>1 DEF AreItems
    <2>3. \/ Whole!DecodeGemini(body) = Whole!Undecodable
          \/ \E stop : Whole!DecodeGemini(body) = Whole!Response(p, stop)
      <3> USE DEF one
      <3> QED BY Zenon DEF Whole!DecodeGemini
    <2> HIDE DEF p
    <2>4. AreItems(p) BY <2>2, ItemsMade, Zenon
    <2>5. Whole!DecodeResponse(from, body) = Whole!DecodeGemini(body)
      BY <1>7 DEF Whole!DecodeResponse
    <2> QED BY <1>1, <1>3, <1>4, <2>3, <2>4, <2>5
  <1>8. CASE from = "responses"
    BY <1>1, <1>2, <1>3, <1>4, <1>8 DEF Whole!DecodeResponse, Whole!DecodeResponses
  <1> QED BY <1>5, <1>6, <1>7, <1>8, AllProtocols

\* One event.
LEMMA OneEvent ==
  ASSUME NEW ev, IsEvent(ev)
  PROVE  AreEvents(<<ev>>)
  <1>1. <<ev>> \in Seq({ev}) OBVIOUS
  <1>2. IsList(<<ev>>) /\ \A n \in DOMAIN <<ev>> : <<ev>>[n] \in {ev} BY <1>1, ListOf, Zenon
  <1> QED BY <1>2 DEF AreEvents

\* Events one behind the other.
LEMMA EventsJoined ==
  ASSUME NEW s, AreEvents(s), NEW t, AreEvents(t)
  PROVE  AreEvents(s \o t)
  <1> DEFINE r == s \o t
  <1>1. /\ IsList(r)
        /\ \A k \in DOMAIN r : \/ k \in DOMAIN s /\ r[k] = s[k]
                               \/ k - Len(s) \in DOMAIN t /\ r[k] = t[k - Len(s)]
    BY ListConcatenated DEF AreEvents
  <1> HIDE DEF r
  <1>2. AreEvents(r) BY <1>1 DEF AreEvents
  <1> QED BY <1>2 DEF r

\* The loop that puts the events of the blocks one behind the other.
JoinStep(env, acc, s) == acc \o s
StaysEvents(given, k, acc) == AreEvents(acc)
JoinF == INSTANCE FoldFacts WITH Op <- JoinStep, Holds <- StaysEvents

\* The events of an answer are events.
LEMMA AnswerReplayed ==
  ASSUME NEW resp, AreItems(resp.content)
  PROVE  AreEvents(Whole!ResponseEvents(resp))
  <1>1. /\ \A i, kind, id : kind \in Kinds => IsEvent(Whole!BlockStart(i, kind, id))
        /\ \A i : IsEvent(Whole!BlockStop(i))
        /\ \A i, signer : IsEvent(Whole!Signature(i, signer))
        /\ \A kind, i, text : IsEvent(Whole!DeltaOf(Whole!DeltaFor(kind), i, text))
        /\ \A stop : IsEvent(Whole!MessageDelta(stop))
        /\ IsEvent(Whole!Event("message_start")) /\ IsEvent(Whole!Event("message_stop"))
    BY DEF IsEvent, EventTypes, Whole!BlockStart, Whole!BlockStop, Whole!DeltaOf, Whole!Signature,
           Whole!MessageDelta, Whole!About, Whole!Event, Whole!DeltaFor
  <1>2. ASSUME NEW i, NEW b, b.kind \in Kinds
        PROVE  AreEvents(Whole!BlockEvents(i, b))
    <2> DEFINE w == <<Whole!BlockStart(i, b.kind, b.id)>>
               x == IF b.text = <<>> THEN <<>> ELSE <<Whole!DeltaOf(Whole!DeltaFor(b.kind), i, b.text)>>
               y == IF b.signer = "" THEN <<>> ELSE <<Whole!Signature(i, b.signer)>>
               z == <<Whole!BlockStop(i)>>
    <2>1. Whole!BlockEvents(i, b) = w \o x \o y \o z BY Zenon DEF Whole!BlockEvents
    <2>2. AreEvents(w) BY <1>1, <1>2, OneEvent, Zenon
    <2>3. AreEvents(x) BY <1>1, OneEvent, NoEvents, Zenon
    <2>4. AreEvents(y) BY <1>1, OneEvent, NoEvents, Zenon
    <2>5. AreEvents(z) BY <1>1, OneEvent, Zenon
    <2> HIDE DEF w, x, y, z
    <2>6. AreEvents(w \o x) BY <2>2, <2>3, EventsJoined, Zenon
    <2>7. AreEvents(w \o x \o y) BY <2>4, <2>6, EventsJoined, Zenon
    <2>8. AreEvents(w \o x \o y \o z) BY <2>5, <2>7, EventsJoined, Zenon
    <2> QED BY <2>1, <2>8
  <1> DEFINE s == resp.content
             p == [n \in DOMAIN s |-> Whole!BlockEvents(n - 1, s[n])]
             all == Whole!Concatenated(p)
             a == <<Whole!Event("message_start")>>
             z == <<Whole!MessageDelta(resp.stop), Whole!Event("message_stop")>>
  <1>3. Whole!ResponseEvents(resp) = a \o all \o z BY Zenon DEF Whole!ResponseEvents
  <1>4. AreEvents(a) BY <1>1, OneEvent, Zenon
  <1>5. AreEvents(z)
    <2> DEFINE u == Whole!MessageDelta(resp.stop)
               v == Whole!Event("message_stop")
    <2>1. IsEvent(u) /\ IsEvent(v) BY <1>1
    <2> HIDE DEF u, v
    <2>2. <<u, v>> \in Seq({u, v}) OBVIOUS
    <2>3. IsList(<<u, v>>) /\ \A n \in DOMAIN <<u, v>> : <<u, v>>[n] \in {u, v}
      BY <2>2, ListOf, Zenon
    <2>4. AreEvents(<<u, v>>) BY <2>1, <2>3 DEF AreEvents
    <2> QED BY <2>4 DEF u, v
  <1>6. AreEvents(all)
    <2>1. all = JoinF!Fold(<<>>, <<>>, p)
      BY DEF Whole!Concatenated, Whole!Loop, Whole!MapThenFoldSet, Whole!Greatest,
             JoinF!Fold, JoinStep, JoinF!GreatestOf
    <2>2. Len(s) \in Nat /\ DOMAIN s = 1..Len(s) BY Listed DEF AreItems
    <2>3. \A n \in DOMAIN s : s[n].kind \in Kinds BY DEF AreItems
    <2> HIDE DEF s
    <2>4. DOMAIN p = 1..Len(s) /\ \A n \in 1..Len(s) : AreEvents(p[n]) BY <1>2, <2>2, <2>3
    <2> HIDE DEF p, all
    <2>5. \A acc : \A k \in 1..Len(s) :
             StaysEvents(<<>>, k - 1, acc) => StaysEvents(<<>>, k, JoinStep(<<>>, acc, p[k]))
      BY <2>4, EventsJoined, Zenon DEF StaysEvents, JoinStep
    <2>6. StaysEvents(<<>>, 0, <<>>) BY NoEvents DEF StaysEvents
    <2>7. StaysEvents(<<>>, Len(s), JoinF!Fold(<<>>, <<>>, p))
      BY <2>2, <2>4, <2>5, <2>6, JoinF!FoldKeeps
    <2> QED BY <2>1, <2>7 DEF StaysEvents
  <1> HIDE DEF a, all, z
  <1>7. AreEvents(a \o all) BY <1>4, <1>6, EventsJoined, Zenon
  <1>8. AreEvents(a \o all \o z) BY <1>5, <1>7, EventsJoined, Zenon
  <1> QED BY <1>3, <1>8

-----------------------------------------------------------------------------
(* The bridge.                                                             *)

TailTypes == {"message_delta", "message_stop"}

\* What the bridge holds back is the end of the message.
BridgeReady(b) ==
  /\ DOMAIN b = {"agg", "content", "committed", "failed", "tail", "produced"}
  /\ b.committed \in BOOLEAN /\ b.failed \in BOOLEAN /\ b.produced \in BOOLEAN
  /\ AreBlocks(b.content)
  /\ IsList(b.tail) /\ \A n \in DOMAIN b.tail : b.tail[n].type \in TailTypes

\* While the answer comes in, a client that wants a stream is within the
\* message, another has been sent nothing; nor has any before the answer
\* is committed.
Relaying(b, e) ==
  /\ BridgeReady(b)
  /\ stream => Running(e)
  /\ ~stream => e = Encoders[to]
  /\ ~b.committed => e.out = <<>>

\* One event held back.
LEMMA TailGrows ==
  ASSUME NEW s, IsList(s), \A n \in DOMAIN s : s[n].type \in TailTypes,
         NEW ev, ev.type \in TailTypes
  PROVE  LET r == Append(s, ev) IN IsList(r) /\ \A n \in DOMAIN r : r[n].type \in TailTypes
  <1> DEFINE r == Append(s, ev)
  <1>1. /\ IsList(r)
        /\ DOMAIN s = 1..Len(s) /\ DOMAIN r = 1..(Len(s) + 1) /\ Len(s) \in Nat
        /\ \A i \in 1..Len(s) : r[i] = s[i]
        /\ r[Len(s) + 1] = ev
    BY ListAppended
  <1> HIDE DEF r
  <1>2. \A n \in DOMAIN r : (n \in DOMAIN s /\ r[n] = s[n]) \/ r[n] = ev BY <1>1
  <1> QED BY <1>1, <1>2 DEF r

\* One event.
LEMMA TakesOne ==
  ASSUME to \in DOMAIN Encoders, stream \in BOOLEAN,
         NEW s, DOMAIN s = {"b", "e"}, Relaying(s.b, s.e), NEW ev, IsEvent(ev)
  PROVE  LET r == TakeEvent(s, ev) IN
         /\ DOMAIN r = {"b", "e"} /\ Relaying(r.b, r.e)
         /\ r.b.failed <=> s.b.failed \/ ev.type = "error"
  <1> DEFINE r == TakeEvent(s, ev)
             g == IF stream THEN s.b.content ELSE Gathered!Gather(s.b.content, ev)
             a == Collect(s.b.agg, ev)
             b == [s.b EXCEPT !.agg = a, !.committed = TRUE, !.content = g]
  <1>1. BridgeReady(b)
    <2>1. AreBlocks(g) BY Gathers DEF Relaying, BridgeReady
    <2> HIDE DEF a, g
    <2> QED BY <2>1 DEF BridgeReady, Relaying
  <1>2. b.committed = TRUE /\ b.failed = s.b.failed BY DEF Relaying, BridgeReady
  <1>3. CASE ev.type = "error"
    <2>1. r = [s EXCEPT !.b = [s.b EXCEPT !.failed = TRUE]] BY <1>3 DEF TakeEvent
    <2> HIDE DEF r
    <2>2. /\ DOMAIN r = {"b", "e"} /\ r.e = s.e /\ r.b = [s.b EXCEPT !.failed = TRUE]
      BY <2>1
    <2>3. BridgeReady(r.b) /\ r.b.committed = s.b.committed /\ r.b.failed = TRUE
      BY <2>2 DEF Relaying, BridgeReady
    <2> QED BY <1>3, <2>2, <2>3 DEF Relaying, r
  <1>4. CASE ev.type \in TailTypes
    <2> DEFINE t == Append(s.b.tail, ev)
               c == [b EXCEPT !.tail = t]
    <2>1. r = [s EXCEPT !.b = c] BY <1>4 DEF TakeEvent, TailTypes, Relaying, BridgeReady
    <2>2. IsList(t) /\ \A n \in DOMAIN t : t[n].type \in TailTypes
      BY <1>4, TailGrows DEF Relaying, BridgeReady
    <2> HIDE DEF r, b, t
    <2>3. BridgeReady(c) /\ c.committed = TRUE /\ c.failed = s.b.failed
      BY <1>1, <1>2, <2>2 DEF BridgeReady
    <2> HIDE DEF c
    <2>4. DOMAIN r = {"b", "e"} /\ r.e = s.e /\ r.b = c BY <2>1
    <2>5. ev.type # "error" BY <1>4 DEF TailTypes
    <2> QED BY <2>3, <2>4, <2>5 DEF Relaying, r
  <1>5. CASE ev.type \notin TailTypes \cup {"error"}
    <2> DEFINE x == IF stream THEN Encode(s.e, ev) ELSE s.e
    <2>1. r = [[s EXCEPT !.b = b] EXCEPT !.e = x]
      BY <1>5, Zenon DEF TakeEvent, TailTypes, Relaying, BridgeReady
    <2>2. stream => Running(x)
      <3>1. ev.type \in EventTypes \ {"message_stop", "error"} BY <1>5 DEF IsEvent, TailTypes
      <3> QED BY <3>1, EncoderStays DEF Relaying
    <2>3. ~stream => x = Encoders[to] BY DEF Relaying
    <2> HIDE DEF r, b, x
    <2>4. DOMAIN r = {"b", "e"} /\ r.e = x /\ r.b = b BY <2>1
    <2> QED BY <1>1, <1>2, <1>5, <2>2, <2>3, <2>4 DEF Relaying, r
  <1> QED BY <1>3, <1>4, <1>5

\* The loop over the events of a frame.
TakeStep(env, acc, ev) == TakeEvent(acc, ev)
StaysRelaying(given, k, acc) ==
  /\ DOMAIN acc = {"b", "e"} /\ Relaying(acc.b, acc.e)
  /\ given.failed \/ (\E n \in 1..k : given.events[n].type = "error") <=> acc.b.failed
TakeF == INSTANCE FoldFacts WITH Op <- TakeStep, Holds <- StaysRelaying

\* All of them: the bridge knows of an error that was reported, now or
\* before.
LEMMA Takes ==
  ASSUME to \in DOMAIN Encoders, stream \in BOOLEAN, Relaying(bridge, enc),
         NEW events, AreEvents(events)
  PROVE  LET s == Take(events) IN
         /\ DOMAIN s = {"b", "e"} /\ Relaying(s.b, s.e)
         /\ s.b.failed <=> bridge.failed \/ HasError(events)
  <1> DEFINE b == [bridge EXCEPT !.produced = @ \/ events # <<>>]
             base == [b |-> b, e |-> enc]
             given == [failed |-> bridge.failed, events |-> events]
             s == Take(events)
  <1>1. s = TakeF!Fold(<<>>, base, events)
    BY DEF Take, FoldLeft, MapThenFoldSet, Max, TakeF!Fold, TakeStep, TakeF!GreatestOf
  <1>2. Len(events) \in Nat /\ DOMAIN events = 1..Len(events) BY Listed DEF AreEvents
  <1>3. BridgeReady(b) /\ b.committed = bridge.committed /\ b.failed = bridge.failed
    BY DEF Relaying, BridgeReady
  <1> HIDE DEF b
  <1>4. DOMAIN base = {"b", "e"} /\ base.b = b /\ base.e = enc OBVIOUS
  <1>5. given.failed = bridge.failed /\ given.events = events OBVIOUS
  <1> HIDE DEF s, base, given
  <1>6. StaysRelaying(given, 0, base)
    <2>1. Relaying(base.b, base.e) BY <1>3, <1>4 DEF Relaying
    <2>2. ~ \E n \in 1..0 : given.events[n].type = "error" OBVIOUS
    <2> QED BY <1>3, <1>4, <1>5, <2>1, <2>2 DEF StaysRelaying
  <1>7. \A acc : \A k \in 1..Len(events) :
           StaysRelaying(given, k - 1, acc) => StaysRelaying(given, k, TakeStep(<<>>, acc, events[k]))
    <2> SUFFICES ASSUME NEW acc, NEW k \in 1..Len(events), StaysRelaying(given, k - 1, acc)
                 PROVE  StaysRelaying(given, k, TakeStep(<<>>, acc, events[k]))
      OBVIOUS
    <2> DEFINE r == TakeEvent(acc, events[k])
    <2>1. IsEvent(events[k]) BY <1>2 DEF AreEvents
    <2>2. DOMAIN acc = {"b", "e"} /\ Relaying(acc.b, acc.e) BY DEF StaysRelaying
    <2>3. /\ DOMAIN r = {"b", "e"} /\ Relaying(r.b, r.e)
          /\ r.b.failed <=> acc.b.failed \/ events[k].type = "error"
      BY <2>1, <2>2, TakesOne
    <2> HIDE DEF r
    <2>4. (\E n \in 1..k : events[n].type = "error")
          <=> (\E n \in 1..(k - 1) : events[n].type = "error") \/ events[k].type = "error"
      <3>1. \A n \in 1..k : n \in 1..(k - 1) \/ n = k BY <1>2
      <3>2. (\A n \in 1..(k - 1) : n \in 1..k) /\ k \in 1..k BY <1>2
      <3> QED BY <3>1, <3>2
    <2>5. StaysRelaying(given, k, r) BY <1>5, <2>3, <2>4 DEF StaysRelaying
    <2> QED BY <2>5 DEF TakeStep, r
  <1>8. StaysRelaying(given, Len(events), TakeF!Fold(<<>>, base, events))
    BY <1>2, <1>6, <1>7, TakeF!FoldKeeps
  <1>9. (\E n \in 1..Len(events) : events[n].type = "error") <=> HasError(events)
    BY <1>2 DEF HasError
  <1> QED BY <1>1, <1>5, <1>8, <1>9 DEF StaysRelaying, s

-----------------------------------------------------------------------------
(* The invariant.                                                          *)

BlockRecord == [kind : Kinds, said : 0..2, ended : BOOLEAN, signed : BOOLEAN,
                ided : BOOLEAN, named : BOOLEAN, at : SUBSET (0..1)]

\* What the upstream has said.
UpReady(u) ==
  /\ DOMAIN u = {"opened", "blocks", "stop", "over", "failed", "cumulative", "frames"}
  /\ u.blocks \in Seq(BlockRecord) /\ Len(u.blocks) <= MaxBlocks
  /\ u.frames \in Nat

\* The upstream has ended its message.
Silent(u) == u.over \/ u.stop # ""

\* How the bridge has ended, and what the client has been told.
Outcome(p, e) ==
  /\ p \in {"open", "normal", "error", "retry"}
  /\ p = "normal" => OneEnd(e.out)
  /\ p = "error" => Failing(e.out)
  /\ p = "retry" => e.out = <<>>

\* While the bridge is open, it has committed itself to nothing before the
\* first frame, and a failure of the upstream is known to it: the decoder of
\* a responses stream keeps to itself only what it has reported before, and
\* is done only when the upstream is.
Open ==
  /\ Relaying(bridge, enc)
  /\ up.failed => bridge.failed
  /\ bridge.committed => up.frames > 0
  /\ from = "responses" => (dec.sawError => bridge.failed) /\ (dec.done => Silent(up))

IInv ==
  /\ from \in DOMAIN Decoders /\ to \in DOMAIN Encoders /\ stream \in BOOLEAN
  /\ UpReady(up) /\ up.frames <= FrameBound
  /\ DecoderReady(dec) /\ dec.out = <<>>
  /\ DOMAIN enc = DOMAIN Encoders[to] /\ BridgeReady(bridge)
  /\ Outcome(phase, enc)
  /\ phase = "open" => Open
  /\ phase = "normal" => (up.failed => Forged)

\* The parts of the invariant that speak of the protocols or of the client's
\* wish, in the next state: neither ever changes.
LEMMA NextDecoder ==
  ASSUME from' = from, DecoderReady(dec')
  PROVE  DecoderReady(dec)'
  BY DEF DecoderReady

\* What is relayed, in the next state.
LEMMA NextRelay ==
  ASSUME to' = to, stream' = stream, Relaying(bridge', enc')
  PROVE  Relaying(bridge, enc)'
  <1>1. Encoders' = Encoders BY DEF Encoders
  <1> QED BY <1>1 DEF Relaying, Running, EncoderReady

\* An encoder that keeps to its message has its fields.
LEMMA RelayFields ==
  ASSUME to \in DOMAIN Encoders, stream \in BOOLEAN, NEW b, NEW e, Relaying(b, e)
  PROVE  DOMAIN e = DOMAIN Encoders[to] /\ BridgeReady(b) /\ Plain(e.out) /\ "out" \in DOMAIN e
  <1>1. /\ Running(Encoders[to])
        /\ \A r : EncoderReady(r) => DOMAIN r = DOMAIN Encoders[to]
    BY EncoderBegins
  <1>2. Running(e) BY <1>1, Zenon DEF Relaying
  <1>3. \A r : EncoderReady(r) => "out" \in DOMAIN r
    BY AllProtocols DEF EncoderReady, ToAnthropicReady, ToChatReady, ToResponsesReady
  <1> QED BY <1>1, <1>2, <1>3 DEF Relaying, Running

\* The bound on the frames is a number.
LEMMA BoundIsNumber ==
  ASSUME from \in DOMAIN Decoders
  PROVE  FrameBound \in Nat
  BY BoundsAssumption, AllProtocols DEF FrameBound, Protocols

\* One frame: the upstream's record goes on to next, and a failure it
\* records is in the frame, or was told before.
LEMMA Receives ==
  ASSUME IInv, NEW f, FrameOK(f), NEW next, UpReady(next), next.frames = up.frames,
         next.failed => \/ up.failed \/ f.type = "error"
                        \/ from = "responses" /\ f.type = "failed" /\ ~Silent(up),
         Silent(up) => Silent(next),
         from = "responses" /\ f.type \in ResponsesEnds => Silent(next),
         Receive(f, next)
  PROVE  IInv'
  <1> DEFINE d == Feed(dec, f)
             s == Take(d.out)
             q == Quiet(d)
  <1>1. /\ phase = "open" /\ up.frames < FrameBound
        /\ up' = [next EXCEPT !.frames = @ + 1]
        /\ dec' = q /\ bridge' = s.b /\ enc' = s.e
        /\ from' = from /\ to' = to /\ stream' = stream /\ phase' = phase
    BY DEF Receive
  <1>2. /\ from \in DOMAIN Decoders /\ to \in DOMAIN Encoders /\ stream \in BOOLEAN
        /\ DecoderReady(dec) /\ Open /\ UpReady(up)
    BY <1>1 DEF IInv
  <1>3. /\ DecoderReady(d)
        /\ f.type = "error" => HasError(d.out) \/ (from = "responses" /\ dec.sawError)
        /\ from = "responses" =>
             /\ d.sawError => dec.sawError \/ HasError(d.out)
             /\ d.done => dec.done \/ f.type \in ResponsesEnds
             /\ f.type = "failed" => dec.done \/ dec.sawError \/ HasError(d.out)
    BY <1>2, DecoderFeeds
  <1> HIDE DEF d
  <1>4. AreEvents(d.out) BY <1>2, <1>3, DecoderBegins
  <1>5. /\ Relaying(s.b, s.e)
        /\ s.b.failed <=> bridge.failed \/ HasError(d.out)
    BY <1>2, <1>4, Takes DEF Open
  <1>6. /\ DecoderReady(q) /\ q.out = <<>>
        /\ from = "responses" => q.sawError = d.sawError /\ q.done = d.done
    BY <1>2, <1>3, DecoderQuiet
  <1> HIDE DEF s, q
  <1>7. /\ UpReady(up') /\ up'.frames = up.frames + 1 /\ up'.failed = next.failed
        /\ Silent(up') <=> Silent(next)
    <2>1. /\ up'.frames = up.frames + 1 /\ up'.failed = next.failed /\ up'.blocks = next.blocks
          /\ DOMAIN up' = DOMAIN next
          /\ up'.over = next.over /\ up'.stop = next.stop
      BY <1>1 DEF UpReady
    <2>2. Silent(up') <=> Silent(next) BY <2>1, Zenon DEF Silent
    <2> QED BY <2>1, <2>2, <1>2 DEF UpReady
  <1>8. (UpReady(up) /\ up.frames <= FrameBound)'
    <2>1. FrameBound' = FrameBound BY <1>1 DEF FrameBound
    <2>2. FrameBound \in Nat BY <1>2, BoundIsNumber
    <2>3. up.frames \in Nat BY <1>2 DEF UpReady
    <2> QED BY <1>1, <1>7, <2>1, <2>2, <2>3 DEF UpReady
  <1>9. (DecoderReady(dec) /\ dec.out = <<>>)' BY <1>1, <1>6, NextDecoder
  <1>10. Open'
    <2>1. Relaying(bridge, enc)' BY <1>1, <1>5, NextRelay
    <2>2. up'.failed => bridge'.failed
      BY <1>1, <1>2, <1>3, <1>5, <1>7 DEF Open
    <2>3. from' = "responses" => (dec'.sawError => bridge'.failed) /\ (dec'.done => Silent(up'))
      BY <1>1, <1>2, <1>3, <1>5, <1>6, <1>7 DEF Open
    <2>4. bridge'.committed => up'.frames > 0 BY <1>2, <1>7 DEF UpReady
    <2> QED BY <2>1, <2>2, <2>3, <2>4 DEF Open, Silent
  <1>11. (DOMAIN enc = DOMAIN Encoders[to] /\ BridgeReady(bridge))'
    <2>1. Encoders' = Encoders BY DEF Encoders
    <2>2. DOMAIN enc' = DOMAIN Encoders[to] /\ BridgeReady(bridge')
      BY <1>1, <1>2, <1>5, RelayFields
    <2> QED BY <1>1, <2>1, <2>2 DEF BridgeReady
  <1>12. (from \in DOMAIN Decoders /\ to \in DOMAIN Encoders /\ stream \in BOOLEAN)'
    BY <1>1, <1>2 DEF Decoders, Encoders
  <1>13. phase' = "open" /\ Outcome(phase, enc)' BY <1>1 DEF Outcome
  <1> QED BY <1>8, <1>9, <1>10, <1>11, <1>12, <1>13 DEF IInv

-----------------------------------------------------------------------------
(* The frames of the upstream, and what it has said with them.             *)

\* The reasons an answer ends for, and the words a frame may lack, as strings.
LEMMA Words ==
  /\ \A blocks : \A stop \in Reasons(blocks) : stop # ""
  /\ "failed" # "" /\ "end_turn" # "" /\ "max_tokens" # ""
  BY Zenon DEF Reasons, Ordinary

\* Talking is speaking a protocol before the end of the message.
LEMMA Talks ==
  ASSUME NEW p, Talking(p)
  PROVE  from = p /\ ~Silent(up)
  BY Zenon DEF Talking, Silent

\* An event is a record of these fields.
EventFields == {"type", "index", "kind", "id", "text", "stop"}

\* Every event has them, and the type it was made with.
LEMMA EventRecord ==
  ASSUME NEW type
  PROVE  DOMAIN Event(type) = EventFields /\ Event(type).type = type
  BY Zenon DEF Event, EventFields

\* What the upstream has said but not how far it is with the message.
Follows(next) ==
  /\ UpReady(next) /\ next.frames = up.frames
  /\ next.over = up.over /\ next.stop = up.stop /\ next.failed = up.failed

\* Nothing more, or the message opened.
LEMMA OpenedFollows ==
  ASSUME UpReady(up)
  PROVE  Follows(up) /\ Follows([up EXCEPT !.opened = TRUE])
  BY DEF UpReady, Follows

\* Other blocks.
LEMMA BlocksFollow ==
  ASSUME UpReady(up), NEW blocks \in Seq(BlockRecord), Len(blocks) <= MaxBlocks
  PROVE  Follows([up EXCEPT !.blocks = blocks])
         /\ Follows([up EXCEPT !.opened = TRUE, !.blocks = blocks])
  BY DEF UpReady, Follows

\* One block more, where there is room.
LEMMA StartedFollows ==
  ASSUME UpReady(up), Room, NEW block \in BlockRecord
  PROVE  Follows(Started(block))
  <1>1. /\ Append(up.blocks, block) \in Seq(BlockRecord)
        /\ Len(Append(up.blocks, block)) <= MaxBlocks
    BY BoundsAssumption DEF UpReady, Room, Latest
  <1> QED BY <1>1, BlocksFollow DEF Started

\* A block that has changed.
LEMMA ChangedFollows ==
  ASSUME UpReady(up), NEW b \in Blocks, NEW block \in BlockRecord
  PROVE  Follows([up EXCEPT !.blocks = [up.blocks EXCEPT ![b] = block]])
  <1>1. /\ [up.blocks EXCEPT ![b] = block] \in Seq(BlockRecord)
        /\ Len([up.blocks EXCEPT ![b] = block]) = Len(up.blocks)
    BY DEF UpReady, Blocks
  <1>2. Len(up.blocks) <= MaxBlocks BY DEF UpReady
  <1> QED BY <1>1, <1>2, BlocksFollow

\* The ways a block changes: more is said, it is ended, it is signed.
LEMMA GrownFollows ==
  ASSUME UpReady(up), NEW b \in Blocks
  PROVE  /\ \A said \in 0..2 :
              /\ Follows(Grown(b, said))
              /\ Follows([up EXCEPT !.blocks[b].said = said, !.blocks[b].ended = TRUE])
         /\ Follows([up EXCEPT !.blocks[b].ended = TRUE])
         /\ Follows([up EXCEPT !.blocks[b].signed = TRUE])
  <1> DEFINE was == up.blocks[b]
  <1>1. was \in BlockRecord /\ DOMAIN up = {"opened", "blocks", "stop", "over", "failed",
                                            "cumulative", "frames"}
        /\ b \in DOMAIN up.blocks
    BY DEF UpReady, Blocks
  <1>2. \A block \in BlockRecord :
           Follows([up EXCEPT !.blocks = [up.blocks EXCEPT ![b] = block]])
    BY ChangedFollows
  <1>3. ASSUME NEW said \in 0..2
        PROVE  /\ Follows(Grown(b, said))
               /\ Follows([up EXCEPT !.blocks[b].said = said, !.blocks[b].ended = TRUE])
    <2>1. /\ [was EXCEPT !.said = said] \in BlockRecord
          /\ [was EXCEPT !.said = said, !.ended = TRUE] \in BlockRecord
      BY <1>1 DEF BlockRecord
    <2>2. Grown(b, said)
            = [up EXCEPT !.blocks = [up.blocks EXCEPT ![b] = [was EXCEPT !.said = said]]]
      BY Zenon DEF Grown
    <2>3. [up EXCEPT !.blocks[b].said = said, !.blocks[b].ended = TRUE]
            = [up EXCEPT !.blocks =
                 [up.blocks EXCEPT ![b] = [was EXCEPT !.said = said, !.ended = TRUE]]]
      BY <1>1
    <2>4. Follows(Grown(b, said)) BY <1>2, <2>1, <2>2, Zenon
    <2>5. Follows([up EXCEPT !.blocks[b].said = said, !.blocks[b].ended = TRUE])
      BY <1>2, <2>1, <2>3, Zenon
    <2> QED BY <2>4, <2>5, Zenon
  <1>4. /\ [was EXCEPT !.ended = TRUE] \in BlockRecord
        /\ [was EXCEPT !.signed = TRUE] \in BlockRecord
    BY <1>1 DEF BlockRecord
  <1>5. [up EXCEPT !.blocks[b].ended = TRUE]
          = [up EXCEPT !.blocks = [up.blocks EXCEPT ![b] = [was EXCEPT !.ended = TRUE]]]
    BY Zenon
  <1>6. [up EXCEPT !.blocks[b].signed = TRUE]
          = [up EXCEPT !.blocks = [up.blocks EXCEPT ![b] = [was EXCEPT !.signed = TRUE]]]
    BY Zenon
  <1>7. Follows([up EXCEPT !.blocks[b].ended = TRUE]) BY <1>2, <1>4, <1>5, Zenon
  <1>8. Follows([up EXCEPT !.blocks[b].signed = TRUE]) BY <1>2, <1>4, <1>6, Zenon
  <1> QED BY <1>3, <1>7, <1>8, Zenon

\* One frame of an upstream that is within its message and stays in it.
LEMMA Speaks ==
  ASSUME IInv, NEW p, Talking(p), NEW f, FrameOK(f), NEW next, Follows(next),
         p # "responses" \/ f.type \notin ResponsesEnds,
         f.type # "error", Receive(f, next)
  PROVE  IInv'
  <1>1. from = p BY Talks
  <1>2. UpReady(next) /\ next.frames = up.frames /\ next.failed = up.failed BY DEF Follows
  <1>3. Silent(up) => Silent(next) BY Zenon DEF Follows, Silent
  <1>4. from = "responses" /\ f.type \in ResponsesEnds => Silent(next) BY <1>1
  <1> QED BY <1>2, <1>3, <1>4, Receives

\* The message with a reason or with its end.
LEMMA EndedReady ==
  ASSUME UpReady(up), NEW stop
  PROVE  /\ LET next == [up EXCEPT !.stop = stop]
            IN  UpReady(next) /\ next.frames = up.frames /\ next.failed = up.failed
                /\ next.stop = stop
         /\ LET next == [up EXCEPT !.over = TRUE]
            IN  UpReady(next) /\ next.frames = up.frames /\ next.failed = up.failed
                /\ next.over = TRUE
         /\ LET next == [up EXCEPT !.stop = stop, !.over = TRUE]
            IN  UpReady(next) /\ next.frames = up.frames /\ next.failed = up.failed
                /\ next.over = TRUE
         /\ LET next == [up EXCEPT !.over = TRUE, !.failed = TRUE]
            IN  UpReady(next) /\ next.frames = up.frames /\ next.over = TRUE /\ next.failed = TRUE
  BY DEF UpReady

\* The frame that has the reason.
LEMMA ReasonKeeps ==
  ASSUME IInv, NEW f, FrameOK(f), NEW stop, stop # "", Receive(f, [up EXCEPT !.stop = stop])
  PROVE  IInv'
  <1> DEFINE next == [up EXCEPT !.stop = stop]
  <1>1. UpReady(next) /\ next.frames = up.frames /\ next.failed = up.failed /\ next.stop = stop
    BY EndedReady DEF IInv
  <1>2. Receive(f, next) OBVIOUS
  <1> HIDE DEF next
  <1>3. Silent(next) BY <1>1, Zenon DEF Silent
  <1> QED BY <1>1, <1>2, <1>3, Receives

\* The frame that has the end.
LEMMA EndKeeps ==
  ASSUME IInv, NEW f, FrameOK(f), Receive(f, [up EXCEPT !.over = TRUE])
  PROVE  IInv'
  <1> DEFINE next == [up EXCEPT !.over = TRUE]
  <1>1. UpReady(next) /\ next.frames = up.frames /\ next.failed = up.failed /\ next.over = TRUE
    BY EndedReady DEF IInv
  <1>2. Receive(f, next) OBVIOUS
  <1> HIDE DEF next
  <1>3. Silent(next) BY <1>1, Zenon DEF Silent
  <1> QED BY <1>1, <1>2, <1>3, Receives

\* A new block of which something was said is one.
LEMMA NewBlockKnown ==
  ASSUME NEW kind \in Kinds, NEW said \in 0..2
  PROVE  [NewBlock(kind) EXCEPT !.said = said] \in BlockRecord
  BY DEF NewBlock, BlockRecord

-----------------------------------------------------------------------------
(* An anthropic upstream.                                                  *)

\* Each of its actions keeps the invariant.
LEMMA AnthropicKeeps ==
  ASSUME IInv, AnthropicUpstream
  PROVE  IInv'
  <1>1. UpReady(up) BY DEF IInv
  <1>2. \A f : from = "anthropic" /\ AnthropicFrameOK(f) => FrameOK(f) BY DEF FrameOK
  <1>3. ASSUME NEW f, AnthropicFrameOK(f), f.type # "error", NEW next, Follows(next),
               Talking("anthropic"), Receive(f, next)
        PROVE  IInv'
    BY <1>2, <1>3, Speaks, Talks
  <1>4. CASE AnthropicOpens
    <2> DEFINE f == Event("message_start")
    <2>1. f.type = "message_start" BY EventRecord
    <2> HIDE DEF f
    <2>2. AnthropicFrameOK(f) BY <2>1 DEF AnthropicFrameOK
    <2>3. Talking("anthropic") /\ Receive(f, [up EXCEPT !.opened = TRUE])
      BY <1>4 DEF AnthropicOpens, f
    <2> QED BY <1>1, <1>3, <2>1, <2>2, <2>3, OpenedFollows
  <1>5. CASE AnthropicPings
    <2> DEFINE f == Event("ping")
    <2>1. f.type = "ping" BY EventRecord
    <2> HIDE DEF f
    <2>2. AnthropicFrameOK(f) BY <2>1 DEF AnthropicFrameOK
    <2>3. Talking("anthropic") /\ Receive(f, up) BY <1>5 DEF AnthropicPings, f
    <2> QED BY <1>1, <1>3, <2>1, <2>2, <2>3, OpenedFollows
  <1>6. CASE AnthropicBlockStart
    <2>1. Talking("anthropic") /\ Room BY <1>6 DEF AnthropicBlockStart
    <2>2. PICK kind \in {"text", "thinking", "tool_use", "server_tool_use"} :
            \E said \in (IF kind = "tool_use" THEN {0, 2} ELSE {0}) :
              LET b == Latest + 1
              IN  Receive([BlockStart(b - 1, kind, IF kind = "tool_use" THEN CallId(b) ELSE "")
                             EXCEPT !.type = "content_block_start", !.text = Tokens(b, 1, said)],
                          Started([NewBlock(kind) EXCEPT !.said = said, !.ided = TRUE, !.named = TRUE]))
      BY <1>6, Zenon DEF AnthropicBlockStart
    <2> DEFINE id == IF kind = "tool_use" THEN CallId(Latest + 1) ELSE ""
    <2>3. PICK said \in (IF kind = "tool_use" THEN {0, 2} ELSE {0}) :
            Receive([BlockStart((Latest + 1) - 1, kind, id)
                       EXCEPT !.type = "content_block_start", !.text = Tokens(Latest + 1, 1, said)],
                    Started([NewBlock(kind) EXCEPT !.said = said, !.ided = TRUE, !.named = TRUE]))
      BY <2>2, Zenon
    <2> HIDE DEF id
    <2> DEFINE f == [BlockStart((Latest + 1) - 1, kind, id)
                       EXCEPT !.type = "content_block_start", !.text = Tokens(Latest + 1, 1, said)]
               block == [NewBlock(kind) EXCEPT !.said = said, !.ided = TRUE, !.named = TRUE]
    <2>4. f.type = "content_block_start" /\ f.kind = kind
      BY EventRecord DEF BlockStart, About, EventFields
    <2>5. Receive(f, Started(block)) BY <2>3
    <2>6. kind \in Kinds /\ said \in 0..2 BY DEF Kinds
    <2>7. block \in BlockRecord BY <2>6 DEF NewBlock, BlockRecord
    <2> HIDE DEF f, block
    <2>8. AnthropicFrameOK(f) BY <2>4, <2>6 DEF AnthropicFrameOK
    <2>9. Follows(Started(block)) BY <1>1, <2>1, <2>7, StartedFollows
    <2> QED BY <1>3, <2>1, <2>4, <2>5, <2>8, <2>9
  <1>7. CASE AnthropicDelta
    <2>1. Talking("anthropic") BY <1>7 DEF AnthropicDelta
    <2>2. PICK b \in Blocks :
            LET block == up.blocks[b]
                f == [About("content_block_delta", b - 1)
                        EXCEPT !.kind = AnthropicDeltaKind(block.kind)]
            IN  /\ ~block.ended /\ block.said < 2 /\ ~block.signed
                /\ \/ Receive([f EXCEPT !.text = Tokens(b, block.said + 1, block.said + 1)],
                              Grown(b, block.said + 1))
                   \/ EmptyFragments /\ block.kind = "tool_use" /\ block.said = 0 /\ Receive(f, up)
      BY <1>7, Zenon DEF AnthropicDelta
    <2> DEFINE kind == AnthropicDeltaKind(up.blocks[b].kind)
               f == [About("content_block_delta", b - 1) EXCEPT !.kind = kind]
               more == up.blocks[b].said + 1
               g == [f EXCEPT !.text = Tokens(b, more, more)]
    <2>3. up.blocks[b].said < 2 /\ (Receive(g, Grown(b, more)) \/ Receive(f, up)) BY <2>2, Zenon
    <2>4. kind \in {"text", "thinking", "input_json"} BY DEF AnthropicDeltaKind
    <2> HIDE DEF kind
    <2>5. /\ f.type = "content_block_delta" /\ f.kind = kind
          /\ g.type = "content_block_delta" /\ g.kind = kind
      BY EventRecord DEF About, EventFields
    <2>6. up.blocks[b] \in BlockRecord BY <1>1 DEF UpReady, Blocks
    <2>7. more \in 0..2 BY <2>3, <2>6 DEF BlockRecord
    <2> HIDE DEF f, more, g
    <2>8. AnthropicFrameOK(f) /\ AnthropicFrameOK(g) BY <2>4, <2>5 DEF AnthropicFrameOK
    <2>9. Follows(up) /\ Follows(Grown(b, more)) BY <1>1, <2>7, OpenedFollows, GrownFollows, Zenon
    <2> QED BY <1>3, <2>1, <2>3, <2>5, <2>8, <2>9
  <1>8. CASE AnthropicUnannounced
    <2>1. Talking("anthropic") /\ Room BY <1>8 DEF AnthropicUnannounced
    <2>2. PICK kind \in {"text", "thinking"} :
            LET b == Latest + 1
            IN  Receive([DeltaOf("content_block_delta", b - 1, Tokens(b, 1, 1)) EXCEPT !.kind = kind],
                        Started([NewBlock(kind) EXCEPT !.said = 1]))
      BY <1>8, Zenon DEF AnthropicUnannounced
    <2> DEFINE f == [DeltaOf("content_block_delta", (Latest + 1) - 1, Tokens(Latest + 1, 1, 1))
                       EXCEPT !.kind = kind]
               block == [NewBlock(kind) EXCEPT !.said = 1]
    <2>3. f.type = "content_block_delta" /\ f.kind = kind
      BY EventRecord DEF DeltaOf, About, EventFields
    <2>4. Receive(f, Started(block)) BY <2>2, Zenon
    <2>5. kind \in Kinds /\ 1 \in 0..2 BY DEF Kinds
    <2>6. block \in BlockRecord BY <2>5, NewBlockKnown, Zenon
    <2> HIDE DEF f, block
    <2>7. AnthropicFrameOK(f) BY <2>3 DEF AnthropicFrameOK
    <2>8. Follows(Started(block)) BY <1>1, <2>1, <2>6, StartedFollows
    <2> QED BY <1>3, <2>1, <2>3, <2>4, <2>7, <2>8
  <1>9. CASE AnthropicSigns
    <2>1. Talking("anthropic") BY <1>9 DEF AnthropicSigns
    <2>2. PICK b \in Blocks :
            Receive([About("content_block_delta", b - 1) EXCEPT !.kind = "signature"],
                    [up EXCEPT !.blocks[b].signed = TRUE])
      BY <1>9, Zenon DEF AnthropicSigns
    <2> DEFINE f == [About("content_block_delta", b - 1) EXCEPT !.kind = "signature"]
               next == [up EXCEPT !.blocks[b].signed = TRUE]
    <2>3. f.type = "content_block_delta" /\ f.kind = "signature"
      BY EventRecord DEF About, EventFields
    <2>4. Receive(f, next) BY <2>2, Zenon
    <2>5. Follows(next) BY <1>1, GrownFollows, Zenon
    <2> HIDE DEF f, next
    <2>6. AnthropicFrameOK(f) BY <2>3 DEF AnthropicFrameOK
    <2> QED BY <1>3, <2>1, <2>3, <2>4, <2>5, <2>6
  <1>10. CASE AnthropicBlockStop
    <2>1. Talking("anthropic") BY <1>10 DEF AnthropicBlockStop
    <2>2. PICK b \in Blocks :
            Receive(About("content_block_stop", b - 1), [up EXCEPT !.blocks[b].ended = TRUE])
      BY <1>10, Zenon DEF AnthropicBlockStop
    <2> DEFINE f == About("content_block_stop", b - 1)
               next == [up EXCEPT !.blocks[b].ended = TRUE]
    <2>3. f.type = "content_block_stop" BY EventRecord DEF About, EventFields
    <2>4. Receive(f, next) BY <2>2, Zenon
    <2>5. Follows(next) BY <1>1, GrownFollows, Zenon
    <2> HIDE DEF f, next
    <2>6. AnthropicFrameOK(f) BY <2>3 DEF AnthropicFrameOK
    <2> QED BY <1>3, <2>1, <2>3, <2>4, <2>5, <2>6
  <1>11. CASE AnthropicStops
    <2>1. from = "anthropic" BY <1>11, Talks DEF AnthropicStops
    <2>2. PICK stop \in Reasons(up.blocks) : Receive(MessageDelta(stop), [up EXCEPT !.stop = stop])
      BY <1>11, Zenon DEF AnthropicStops
    <2>3. MessageDelta(stop).type = "message_delta"
      BY EventRecord DEF MessageDelta, EventFields
    <2>4. FrameOK(MessageDelta(stop)) BY <1>2, <2>1, <2>3 DEF AnthropicFrameOK
    <2>5. stop # "" BY Words, Zenon
    <2> QED BY <2>2, <2>4, <2>5, ReasonKeeps, Zenon
  <1>12. CASE AnthropicEnds
    <2>1. from = "anthropic" /\ Receive(Event("message_stop"), [up EXCEPT !.over = TRUE])
      BY <1>12, Zenon DEF AnthropicEnds
    <2>2. Event("message_stop").type = "message_stop" BY EventRecord
    <2>3. FrameOK(Event("message_stop")) BY <1>2, <2>1, <2>2 DEF AnthropicFrameOK
    <2> QED BY <2>1, <2>3, EndKeeps, Zenon
  <1> QED
    BY <1>4, <1>5, <1>6, <1>7, <1>8, <1>9, <1>10, <1>11, <1>12, Zenon DEF AnthropicUpstream

-----------------------------------------------------------------------------
(* A chat completions upstream.                                            *)

\* A sequence of one.
LEMMA ListOfOne ==
  ASSUME NEW x
  PROVE  IsList(<<x>>) /\ \A n \in DOMAIN <<x>> : <<x>>[n] = x
  <1>1. <<x>> \in Seq({x}) OBVIOUS
  <1>2. IsList(<<x>>) /\ \A n \in DOMAIN <<x>> : <<x>>[n] \in {x} BY <1>1, ListOf, Zenon
  <1> QED BY <1>2

\* A chunk is a frame of the protocol, whatever it says.
LEMMA ChunkFields ==
  /\ \A field \in {"reasoning", "refusal", "text"} : \A text :
       LET f == [NoChunk EXCEPT ![field] = text] IN ChatFrameOK(f) /\ f.type = "chunk"
  /\ \A call : LET f == [NoChunk EXCEPT !.calls = <<call>>] IN ChatFrameOK(f) /\ f.type = "chunk"
  /\ \A stop : LET f == [NoChunk EXCEPT !.finish = stop] IN ChatFrameOK(f) /\ f.type = "chunk"
  <1>1. /\ DOMAIN NoChunk = {"type", "reasoning", "refusal", "text", "calls", "finish"}
        /\ NoChunk.type = "chunk" /\ NoChunk.calls = <<>>
    BY Zenon DEF NoChunk
  <1>2. ASSUME NEW field \in {"reasoning", "refusal", "text", "finish"}, NEW value
        PROVE  LET f == [NoChunk EXCEPT ![field] = value] IN ChatFrameOK(f) /\ f.type = "chunk"
    <2> DEFINE f == [NoChunk EXCEPT ![field] = value]
    <2>1. f.type = "chunk" /\ f.calls = <<>> BY <1>1
    <2> HIDE DEF f
    <2>2. ChatFrameOK(f) BY <2>1, ListEmpty DEF ChatFrameOK
    <2> QED BY <2>1, <2>2 DEF f
  <1>3. ASSUME NEW call
        PROVE  LET f == [NoChunk EXCEPT !.calls = <<call>>] IN ChatFrameOK(f) /\ f.type = "chunk"
    <2> DEFINE f == [NoChunk EXCEPT !.calls = <<call>>]
    <2>1. f.type = "chunk" /\ f.calls = <<call>> BY <1>1
    <2> HIDE DEF f
    <2>2. ChatFrameOK(f) BY <2>1, ListOfOne DEF ChatFrameOK
    <2> QED BY <2>1, <2>2 DEF f
  <1>4. \A stop : LET f == [NoChunk EXCEPT !.finish = stop] IN ChatFrameOK(f) /\ f.type = "chunk"
    BY <1>2, Zenon
  <1> QED BY <1>2, <1>3, <1>4, Zenon

\* Each of its actions keeps the invariant.
LEMMA ChatKeeps ==
  ASSUME IInv, ChatUpstream
  PROVE  IInv'
  <1>1. UpReady(up) BY DEF IInv
  <1>2. \A f : from = "chat" /\ ChatFrameOK(f) => FrameOK(f) BY DEF FrameOK
  <1>3. ASSUME NEW f, ChatFrameOK(f), f.type = "chunk", NEW next, Follows(next),
               Talking("chat"), Receive(f, next)
        PROVE  IInv'
    BY <1>2, <1>3, Speaks, Talks
  <1>4. CASE ChatSays
    <2>1. Talking("chat") BY <1>4 DEF ChatSays
    <2>2. PICK kind \in {"text", "refusal", "thinking"} :
            \/ /\ \A b \in Blocks : up.blocks[b].kind # kind
               /\ Room
               /\ Receive([NoChunk EXCEPT ![ChatField(kind)] = Tokens(Latest + 1, 1, 1)],
                          Started([NewBlock(kind) EXCEPT !.said = 1]))
            \/ \E b \in Blocks :
                 /\ up.blocks[b].kind = kind /\ up.blocks[b].said < 2
                 /\ Receive([NoChunk EXCEPT ![ChatField(kind)] = Tokens(b, 2, 2)], Grown(b, 2))
      BY <1>4, Zenon DEF ChatSays
    <2>3. ChatField(kind) \in {"reasoning", "refusal", "text"} BY DEF ChatField
    <2> DEFINE block == [NewBlock(kind) EXCEPT !.said = 1]
    <2>4. kind \in Kinds /\ 1 \in 0..2 /\ 2 \in 0..2 BY DEF Kinds
    <2>5. block \in BlockRecord BY <2>4, NewBlockKnown, Zenon
    <2>6. CASE Room /\ Receive([NoChunk EXCEPT ![ChatField(kind)] = Tokens(Latest + 1, 1, 1)],
                               Started([NewBlock(kind) EXCEPT !.said = 1]))
      <3> DEFINE f == [NoChunk EXCEPT ![ChatField(kind)] = Tokens(Latest + 1, 1, 1)]
      <3>1. ChatFrameOK(f) /\ f.type = "chunk" BY <2>3, ChunkFields, Zenon
      <3>2. Room /\ Receive(f, Started(block)) BY <2>6, Zenon
      <3> HIDE DEF f, block
      <3>3. Follows(Started(block)) BY <1>1, <2>5, <3>2, StartedFollows
      <3> QED BY <1>3, <2>1, <3>1, <3>2, <3>3
    <2>7. CASE \E b \in Blocks :
                 Receive([NoChunk EXCEPT ![ChatField(kind)] = Tokens(b, 2, 2)], Grown(b, 2))
      <3>1. PICK b \in Blocks :
              Receive([NoChunk EXCEPT ![ChatField(kind)] = Tokens(b, 2, 2)], Grown(b, 2))
        BY <2>7
      <3> DEFINE f == [NoChunk EXCEPT ![ChatField(kind)] = Tokens(b, 2, 2)]
      <3>2. ChatFrameOK(f) /\ f.type = "chunk" BY <2>3, ChunkFields, Zenon
      <3>3. Receive(f, Grown(b, 2)) BY <3>1, Zenon
      <3> HIDE DEF f
      <3>4. Follows(Grown(b, 2)) BY <1>1, <2>4, GrownFollows, Zenon
      <3> QED BY <1>3, <2>1, <3>2, <3>3, <3>4
    <2> QED BY <2>2, <2>6, <2>7, Zenon
  <1>5. CASE ChatCalls
    <2>1. Talking("chat") /\ Room BY <1>5 DEF ChatCalls
    <2>2. PICK n \in 0..1, ided \in BOOLEAN, named \in BOOLEAN, said \in 0..1 :
            Receive(Fragment(Latest + 1, n, ided, named, Tokens(Latest + 1, 1, said)),
                    Started([NewBlock("tool_use") EXCEPT !.said = said, !.ided = ided,
                                                         !.named = named, !.at = {n}]))
      BY <1>5, Zenon DEF ChatCalls
    <2> DEFINE f == Fragment(Latest + 1, n, ided, named, Tokens(Latest + 1, 1, said))
               block == [NewBlock("tool_use") EXCEPT !.said = said, !.ided = ided,
                                                     !.named = named, !.at = {n}]
    <2>3. ChatFrameOK(f) /\ f.type = "chunk" BY ChunkFields, Zenon DEF Fragment
    <2>4. Receive(f, Started(block)) BY <2>2, Zenon
    <2> HIDE DEF f
    <2>5. {n} \in SUBSET (0..1) /\ said \in 0..2 BY DEF Kinds
    <2>6. NewBlock("tool_use") \in BlockRecord BY DEF NewBlock, BlockRecord, Kinds
    <2>7. block \in BlockRecord BY <2>5, <2>6 DEF BlockRecord
    <2> HIDE DEF block
    <2>8. Follows(Started(block)) BY <1>1, <2>1, <2>7, StartedFollows
    <2> QED BY <1>3, <2>1, <2>3, <2>4, <2>8
  <1>6. CASE ChatContinues
    <2>1. Talking("chat") BY <1>6 DEF ChatContinues
    <2>2. PICK b \in Calls, n \in 0..1, ided \in BOOLEAN, named \in BOOLEAN, more \in 0..1 :
            LET block == up.blocks[b]
                said == block.said + more
            IN  /\ said <= 2
                /\ more = 1 \/ (named /\ ~block.named)
                /\ named => ~block.named
                /\ ided => block.ided \/ ~block.named
                /\ \/ n \in block.at /\ (\A c \in Holders(n) : c <= b)
                   \/ block.ided /\ block.named /\ ided
                /\ Receive(Fragment(b, n, ided, named, Tokens(b, block.said + 1, said)),
                           [up EXCEPT !.blocks[b] =
                             [block EXCEPT !.said = said, !.ided = @ \/ ided, !.named = @ \/ named,
                                           !.at = IF Holders(n) = {} THEN @ \cup {n} ELSE @]])
      BY <1>6, Zenon DEF ChatContinues
    <2> DEFINE was == up.blocks[b]
               said == was.said + more
               f == Fragment(b, n, ided, named, Tokens(b, was.said + 1, said))
               block == [was EXCEPT !.said = said, !.ided = @ \/ ided, !.named = @ \/ named,
                                    !.at = IF Holders(n) = {} THEN @ \cup {n} ELSE @]
    <2>3. ChatFrameOK(f) /\ f.type = "chunk" BY ChunkFields, Zenon DEF Fragment
    <2>4. said <= 2 /\ Receive(f, [up EXCEPT !.blocks[b] = block]) BY <2>2, Zenon
    <2> HIDE DEF f
    <2>5. b \in Blocks BY DEF Calls, CallsAmong, Blocks
    <2>6. was \in BlockRecord BY <1>1, <2>5 DEF UpReady, Blocks
    <2>7. said \in 0..2 BY <2>4, <2>6 DEF BlockRecord
    <2>8. block \in BlockRecord
      <3> HIDE DEF was, said
      <3> QED BY <2>6, <2>7 DEF BlockRecord
    <2> HIDE DEF block
    <2>9. [up EXCEPT !.blocks[b] = block] = [up EXCEPT !.blocks = [up.blocks EXCEPT ![b] = block]]
      BY Zenon
    <2>10. Follows([up EXCEPT !.blocks[b] = block])
      BY <1>1, <2>5, <2>8, <2>9, ChangedFollows, Zenon
    <2> QED BY <1>3, <2>1, <2>3, <2>4, <2>10, Zenon
  <1>7. CASE ChatStops
    <2>1. from = "chat" BY <1>7, Talks DEF ChatStops
    <2>2. PICK stop \in Reasons(up.blocks) :
            Receive([NoChunk EXCEPT !.finish = stop], [up EXCEPT !.stop = stop])
      BY <1>7, Zenon DEF ChatStops
    <2> DEFINE f == [NoChunk EXCEPT !.finish = stop]
    <2>3. ChatFrameOK(f) BY ChunkFields, Zenon
    <2>4. Receive(f, [up EXCEPT !.stop = stop]) BY <2>2
    <2> HIDE DEF f
    <2>5. FrameOK(f) BY <1>2, <2>1, <2>3
    <2>6. stop # "" BY Words, Zenon
    <2> QED BY <2>4, <2>5, <2>6, ReasonKeeps, Zenon
  <1>8. CASE ChatEnds
    <2>1. from = "chat" /\ Receive(Event("done"), [up EXCEPT !.over = TRUE])
      BY <1>8, Zenon DEF ChatEnds
    <2>2. Event("done").type = "done" BY EventRecord
    <2>3. FrameOK(Event("done")) BY <1>2, <2>1, <2>2 DEF ChatFrameOK
    <2> QED BY <2>1, <2>3, EndKeeps, Zenon
  <1> QED BY <1>4, <1>5, <1>6, <1>7, <1>8, Zenon DEF ChatUpstream

-----------------------------------------------------------------------------
(* A gemini upstream.                                                      *)

\* A frame of the protocol, whatever it says.
LEMMA PartsFields ==
  /\ \A type \in {"functionCall", "thought", "text"} : \A id, text :
       LET f == Parts(type, id, text) IN GeminiFrameOK(f) /\ f.type = "frame"
  /\ \A stop : LET f == [NoParts EXCEPT !.finish = stop] IN GeminiFrameOK(f) /\ f.type = "frame"
  <1>1. /\ DOMAIN NoParts = {"type", "parts", "finish"}
        /\ NoParts.type = "frame" /\ NoParts.parts = <<>>
    BY Zenon DEF NoParts
  <1>2. ASSUME NEW type \in {"functionCall", "thought", "text"}, NEW id, NEW text
        PROVE  LET f == Parts(type, id, text) IN GeminiFrameOK(f) /\ f.type = "frame"
    <2> DEFINE f == Parts(type, id, text)
               part == [type |-> type, id |-> id, text |-> text]
    <2>1. f = [NoParts EXCEPT !.parts = <<part>>] BY Zenon DEF Parts
    <2>2. part.type = type OBVIOUS
    <2> HIDE DEF f, part
    <2>3. f.type = "frame" /\ f.parts = <<part>> BY <1>1, <2>1
    <2>4. GeminiFrameOK(f) BY <2>2, <2>3, ListOfOne DEF GeminiFrameOK
    <2> QED BY <2>3, <2>4 DEF f
  <1>3. ASSUME NEW stop
        PROVE  LET f == [NoParts EXCEPT !.finish = stop] IN GeminiFrameOK(f) /\ f.type = "frame"
    <2> DEFINE f == [NoParts EXCEPT !.finish = stop]
    <2>1. f.type = "frame" /\ f.parts = <<>> BY <1>1
    <2> HIDE DEF f
    <2>2. GeminiFrameOK(f) BY <2>1, ListEmpty DEF GeminiFrameOK
    <2> QED BY <2>1, <2>2 DEF f
  <1> QED BY <1>2, <1>3, Zenon

\* Each of its actions keeps the invariant.
LEMMA GeminiKeeps ==
  ASSUME IInv, GeminiUpstream
  PROVE  IInv'
  <1>1. UpReady(up) BY DEF IInv
  <1>2. \A f : from = "gemini" /\ GeminiFrameOK(f) => FrameOK(f) BY DEF FrameOK
  <1>3. ASSUME NEW type \in {"functionCall", "thought", "text"}, NEW id, NEW text,
               NEW next, Follows(next), Talking("gemini"), Receive(Parts(type, id, text), next)
        PROVE  IInv'
    <2>1. GeminiFrameOK(Parts(type, id, text)) /\ Parts(type, id, text).type = "frame"
      BY PartsFields, Zenon
    <2>2. from = "gemini" BY <1>3, Talks
    <2>3. FrameOK(Parts(type, id, text)) BY <1>2, <2>1, <2>2
    <2>4. Parts(type, id, text).type # "error" /\ "gemini" # "responses" BY <2>1
    <2> QED BY <1>3, <2>3, <2>4, Speaks, Zenon
  <1>4. CASE GeminiSays
    <2>1. Talking("gemini") BY <1>4 DEF GeminiSays
    <2>2. 1 \in 0..2 /\ 2 \in 0..2 /\ "text" \in Kinds BY DEF Kinds
    <2>3. \/ Room /\ \E id : Receive(Parts("text", id, Tokens(Latest + 1, 1, 1)),
                                     Started([NewBlock("text") EXCEPT !.said = 1]))
          \/ \E b \in Blocks :
               \/ \E id : Receive(Parts("text", id, Tokens(b, 2, 2)), Grown(b, 2))
               \/ \E n \in up.blocks[b].said..2 : \E id :
                    Receive(Parts("text", id, Tokens(b, 1, n)), Grown(b, n))
      BY <1>4, Zenon DEF GeminiSays
    <2>4. ASSUME Room, NEW id, Receive(Parts("text", id, Tokens(Latest + 1, 1, 1)),
                                       Started([NewBlock("text") EXCEPT !.said = 1]))
          PROVE  IInv'
      <3>1. [NewBlock("text") EXCEPT !.said = 1] \in BlockRecord BY <2>2, NewBlockKnown, Zenon
      <3>2. Follows(Started([NewBlock("text") EXCEPT !.said = 1]))
        BY <1>1, <2>4, <3>1, StartedFollows, Zenon
      <3> QED BY <1>3, <2>1, <2>4, <3>2, Zenon
    <2>5. ASSUME NEW b \in Blocks, NEW n \in 0..2, NEW id, NEW text,
                 Receive(Parts("text", id, text), Grown(b, n))
          PROVE  IInv'
      <3>1. Follows(Grown(b, n)) BY <1>1, GrownFollows, Zenon
      <3> QED BY <1>3, <2>1, <2>5, <3>1, Zenon
    <2>6. \A b \in Blocks : \A n \in up.blocks[b].said..2 : n \in 0..2
      <3>1. \A b \in Blocks : up.blocks[b] \in BlockRecord BY <1>1 DEF UpReady, Blocks
      <3>2. \A block \in BlockRecord : block.said \in 0..2 BY DEF BlockRecord
      <3>3. \A said \in 0..2 : \A n \in said..2 : n \in 0..2 OBVIOUS
      <3> QED BY <3>1, <3>2, <3>3, Zenon
    <2> QED BY <2>2, <2>3, <2>4, <2>5, <2>6, Zenon
  <1>5. CASE GeminiThinks
    <2>1. Talking("gemini") /\ Room BY <1>5, Zenon DEF GeminiThinks
    <2>2. ASSUME NEW signed \in BOOLEAN
          PROVE  [NewBlock("thinking") EXCEPT !.said = 1, !.signed = signed] \in BlockRecord
      <3>1. NewBlock("thinking") \in BlockRecord BY DEF NewBlock, BlockRecord, Kinds
      <3>2. 1 \in 0..2 OBVIOUS
      <3> QED BY <3>1, <3>2 DEF BlockRecord
    <2>3. PICK signature \in {"", "signature"} :
            Receive(Parts("thought", signature, Tokens(Latest + 1, 1, 1)),
                    Started([NewBlock("thinking") EXCEPT !.said = 1, !.signed = signature # ""]))
      BY <1>5, Zenon DEF GeminiThinks
    <2> DEFINE signed == signature # ""
               block == [NewBlock("thinking") EXCEPT !.said = 1, !.signed = signed]
    <2>4. Receive(Parts("thought", signature, Tokens(Latest + 1, 1, 1)), Started(block))
      BY <2>3, Zenon
    <2>5. block \in BlockRecord
      <3>1. signed \in BOOLEAN BY Zenon
      <3> QED BY <2>2, <3>1, Zenon
    <2> HIDE DEF block
    <2>6. Follows(Started(block)) BY <1>1, <2>1, <2>5, StartedFollows, Zenon
    <2> QED BY <1>3, <2>1, <2>4, <2>6, Zenon
  <1>6. CASE GeminiCalls
    <2>1. Talking("gemini") /\ Room BY <1>6 DEF GeminiCalls
    <2>2. PICK said \in (IF EmptyFragments THEN {0, 2} ELSE {2}) :
            Receive(Parts("functionCall", CallId(Latest + 1), Tokens(Latest + 1, 1, said)),
                    Started([NewBlock("tool_use") EXCEPT !.said = said, !.ided = TRUE, !.named = TRUE]))
      BY <1>6, Zenon DEF GeminiCalls
    <2> DEFINE block == [NewBlock("tool_use") EXCEPT !.said = said, !.ided = TRUE, !.named = TRUE]
    <2>3. block \in BlockRecord
      <3>1. NewBlock("tool_use") \in BlockRecord BY DEF NewBlock, BlockRecord, Kinds
      <3>2. said \in 0..2 OBVIOUS
      <3> QED BY <3>1, <3>2 DEF BlockRecord
    <2>4. Receive(Parts("functionCall", CallId(Latest + 1), Tokens(Latest + 1, 1, said)), Started(block))
      BY <2>2, Zenon
    <2> HIDE DEF block
    <2>5. Follows(Started(block)) BY <1>1, <2>1, <2>3, StartedFollows, Zenon
    <2> QED BY <1>3, <2>1, <2>4, <2>5, Zenon
  <1>7. CASE GeminiStops
    <2>1. from = "gemini" BY <1>7, Talks DEF GeminiStops
    <2>2. PICK stop \in {"end_turn", "max_tokens"} :
            Receive([NoParts EXCEPT !.finish = stop], [up EXCEPT !.stop = stop, !.over = TRUE])
      BY <1>7, Zenon DEF GeminiStops
    <2> DEFINE f == [NoParts EXCEPT !.finish = stop]
               next == [up EXCEPT !.stop = stop, !.over = TRUE]
    <2>3. FrameOK(f)
      <3>1. GeminiFrameOK(f) BY PartsFields, Zenon
      <3> HIDE DEF f
      <3> QED BY <1>2, <2>1, <3>1
    <2>4. Receive(f, next) BY <2>2
    <2>5. UpReady(next) /\ next.frames = up.frames /\ next.failed = up.failed
          /\ next.over = TRUE
      BY <1>1, EndedReady
    <2> HIDE DEF f, next
    <2>6. Silent(next) BY <2>5, Zenon DEF Silent
    <2> QED BY <2>3, <2>4, <2>5, <2>6, Receives
  <1> QED BY <1>4, <1>5, <1>6, <1>7, Zenon DEF GeminiUpstream

-----------------------------------------------------------------------------
(* A responses upstream.                                                   *)

\* Each of its actions keeps the invariant.
LEMMA ResponsesKeeps ==
  ASSUME IInv, ResponsesUpstream
  PROVE  IInv'
  <1>1. UpReady(up) BY DEF IInv
  <1>2. \A f : from = "responses" /\ ResponsesFrameOK(f) => FrameOK(f) BY DEF FrameOK
  <1>3. ASSUME NEW f, f.type \in {"created", "added", "delta", "part_done", "item_done"},
               f.type # "created" => f.kind \in Kinds,
               NEW next, Follows(next), Talking("responses"), Receive(f, next)
        PROVE  IInv'
    <2>1. ResponsesFrameOK(f) /\ f.type \notin ResponsesEnds /\ f.type # "error"
      BY <1>3 DEF ResponsesFrameOK, ResponsesEnds
    <2>2. from = "responses" BY <1>3, Talks
    <2> QED BY <1>2, <1>3, <2>1, <2>2, Speaks
  <1>4. ASSUME NEW b \in Blocks
        PROVE  up.blocks[b].kind \in Kinds /\ up.blocks[b].said \in 0..2
    <2>1. up.blocks[b] \in BlockRecord BY <1>1 DEF UpReady, Blocks
    <2> QED BY <2>1 DEF BlockRecord
  <1>5. 1 \in 0..2 /\ 2 \in 0..2 /\ "text" \in Kinds /\ "refusal" \in Kinds /\ "thinking" \in Kinds
    BY DEF Kinds
  <1>6. CASE ResponsesOpens
    <2> DEFINE f == Event("created")
               next == [up EXCEPT !.opened = TRUE]
    <2>1. f.type = "created" BY EventRecord
    <2>2. Talking("responses") /\ Receive(f, next) BY <1>6, Zenon DEF ResponsesOpens
    <2>3. Follows(next) BY <1>1, OpenedFollows
    <2> HIDE DEF f, next
    <2> QED BY <1>3, <2>1, <2>2, <2>3
  <1>7. CASE ResponsesAdds
    <2>1. Talking("responses") /\ Room BY <1>7 DEF ResponsesAdds
    <2>2. ASSUME NEW kind \in Kinds, NEW said \in {0, 2}, NEW id, NEW text,
                 Receive([NewItem("added", kind, text) EXCEPT !.id = id],
                         Started([NewBlock(kind) EXCEPT !.said = said, !.ided = TRUE, !.named = TRUE]))
          PROVE  IInv'
      <3> DEFINE f == [NewItem("added", kind, text) EXCEPT !.id = id]
                 block == [NewBlock(kind) EXCEPT !.said = said, !.ided = TRUE, !.named = TRUE]
      <3>1. f.type = "added" /\ f.kind = kind BY EventRecord DEF Item, NewItem, DeltaOf, About, EventFields
      <3>2. Receive(f, Started(block)) BY <2>2
      <3>3. block \in BlockRecord
        <4>1. NewBlock(kind) \in BlockRecord BY DEF NewBlock, BlockRecord
        <4>2. said \in 0..2 OBVIOUS
        <4> QED BY <4>1, <4>2 DEF BlockRecord
      <3> HIDE DEF f, block
      <3>4. Follows(Started(block)) BY <1>1, <2>1, <3>3, StartedFollows, Zenon
      <3> QED BY <1>3, <2>1, <3>1, <3>2, <3>4
    <2>3. PICK kind \in Kinds \ {"server_tool_use"}, said \in {0, 2} :
            /\ said = 2 => kind \in CallKinds
            /\ Receive([NewItem("added", kind, Tokens(Latest + 1, 1, said))
                          EXCEPT !.id = IF kind \in CallKinds THEN CallId(Latest + 1) ELSE ""],
                       Started([NewBlock(kind) EXCEPT !.said = said, !.ided = TRUE, !.named = TRUE]))
      BY <1>7, Zenon DEF ResponsesAdds
    <2>4. kind \in Kinds OBVIOUS
    <2> QED BY <2>2, <2>3, <2>4, Zenon
  <1>8. ASSUME NEW type \in {"delta", "part_done", "item_done"}, NEW b \in Blocks, NEW text,
               NEW said \in 0..2, Talking("responses"), Receive(Item(type, b, text), Grown(b, said))
        PROVE  IInv'
    <2> DEFINE f == Item(type, b, text)
    <2>1. f.type = type /\ f.kind = up.blocks[b].kind BY EventRecord DEF Item, NewItem, DeltaOf, About, EventFields
    <2>2. Receive(f, Grown(b, said)) BY <1>8
    <2>3. Follows(Grown(b, said)) BY <1>1, GrownFollows, Zenon
    <2> HIDE DEF f
    <2> QED BY <1>3, <1>4, <1>8, <2>1, <2>2, <2>3
  <1>9. ASSUME NEW type \in {"delta", "part_done", "item_done"}, NEW kind \in Kinds, NEW text,
               NEW block \in BlockRecord, Room, Talking("responses"),
               Receive(NewItem(type, kind, text), Started(block))
        PROVE  IInv'
    <2> DEFINE f == NewItem(type, kind, text)
    <2>1. f.type = type /\ f.kind = kind BY EventRecord DEF Item, NewItem, DeltaOf, About, EventFields
    <2>2. Receive(f, Started(block)) BY <1>9
    <2>3. Follows(Started(block)) BY <1>1, <1>9, StartedFollows, Zenon
    <2> HIDE DEF f
    <2> QED BY <1>3, <1>9, <2>1, <2>2, <2>3
  <1>10. CASE ResponsesDelta
    <2>1. Talking("responses") BY <1>10 DEF ResponsesDelta
    <2>2. \/ \E b \in Blocks :
               LET said == up.blocks[b].said
               IN  /\ said < 2
                   /\ Receive(Item("delta", b, Tokens(b, said + 1, said + 1)), Grown(b, said + 1))
          \/ /\ Room
             /\ \E kind \in {"text", "refusal", "thinking"} :
                  Receive(NewItem("delta", kind, Tokens(Latest + 1, 1, 1)),
                          Started([NewBlock(kind) EXCEPT !.said = 1]))
      BY <1>10, Zenon DEF ResponsesDelta
    <2>3. \A b \in Blocks : up.blocks[b].said < 2 => up.blocks[b].said + 1 \in 0..2 BY <1>4
    <2>4. \A kind \in {"text", "refusal", "thinking"} :
             kind \in Kinds /\ [NewBlock(kind) EXCEPT !.said = 1] \in BlockRecord
      BY <1>5, NewBlockKnown, Zenon
    <2>5. "delta" \in {"delta", "part_done", "item_done"} OBVIOUS
    <2> QED BY <1>8, <1>9, <2>1, <2>2, <2>3, <2>4, <2>5, Zenon
  <1>11. CASE ResponsesPartDone
    <2>1. Talking("responses") BY <1>11 DEF ResponsesPartDone
    <2>2. \/ \E b \in Blocks : \E said \in {up.blocks[b].said, 2} :
               Receive(Item("part_done", b, Tokens(b, 1, said)), Grown(b, said))
          \/ /\ Room
             /\ \E kind \in {"text", "thinking"} :
                  Receive(NewItem("part_done", kind, Tokens(Latest + 1, 1, 2)),
                          Started([NewBlock(kind) EXCEPT !.said = 2]))
      BY <1>11, Zenon DEF ResponsesPartDone
    <2>3. \A b \in Blocks : \A said \in {up.blocks[b].said, 2} : said \in 0..2 BY <1>4
    <2>4. \A kind \in {"text", "thinking"} :
             kind \in Kinds /\ [NewBlock(kind) EXCEPT !.said = 2] \in BlockRecord
      BY <1>5, NewBlockKnown, Zenon
    <2>5. "part_done" \in {"delta", "part_done", "item_done"} OBVIOUS
    <2> QED BY <1>8, <1>9, <2>1, <2>2, <2>3, <2>4, <2>5, Zenon
  <1>12. CASE ResponsesItemDone
    <2>1. Talking("responses") BY <1>12 DEF ResponsesItemDone
    <2>2. \/ \E b \in Blocks : \E said \in {2, up.blocks[b].said} : \E id :
               Receive([Item("item_done", b, Tokens(b, 1, said)) EXCEPT !.id = id],
                       [up EXCEPT !.blocks[b].said = said, !.blocks[b].ended = TRUE])
          \/ /\ Room
             /\ \E kind \in {"text", "thinking"} :
                  Receive(NewItem("item_done", kind, Tokens(Latest + 1, 1, 2)),
                          Started([NewBlock(kind) EXCEPT !.said = 2, !.ended = TRUE]))
      BY <1>12, Zenon DEF ResponsesItemDone
    <2>3. \A b \in Blocks : \A said \in {2, up.blocks[b].said} : said \in 0..2 BY <1>4
    <2>4. ASSUME NEW kind \in {"text", "thinking"}
          PROVE  kind \in Kinds /\ [NewBlock(kind) EXCEPT !.said = 2, !.ended = TRUE] \in BlockRecord
      <3>1. kind \in Kinds /\ 2 \in 0..2 BY DEF Kinds
      <3>2. NewBlock(kind) \in BlockRecord BY <3>1 DEF NewBlock, BlockRecord
      <3> QED BY <3>1, <3>2 DEF BlockRecord
    <2>5. "item_done" \in {"delta", "part_done", "item_done"} OBVIOUS
    <2>6. ASSUME NEW b \in Blocks, NEW said \in 0..2, NEW text, NEW id,
                 Receive([Item("item_done", b, text) EXCEPT !.id = id],
                         [up EXCEPT !.blocks[b].said = said, !.blocks[b].ended = TRUE])
          PROVE  IInv'
      <3> DEFINE f == [Item("item_done", b, text) EXCEPT !.id = id]
                 next == [up EXCEPT !.blocks[b].said = said, !.blocks[b].ended = TRUE]
      <3>1. f.type = "item_done" /\ f.kind = up.blocks[b].kind BY EventRecord DEF Item, NewItem, DeltaOf, About, EventFields
      <3>2. Follows(next) BY <1>1, GrownFollows, Zenon
      <3>3. Receive(f, next) BY <2>6
      <3> HIDE DEF f, next
      <3> QED BY <1>3, <1>4, <2>1, <3>1, <3>2, <3>3
    <2> QED BY <1>9, <2>1, <2>2, <2>3, <2>4, <2>5, <2>6, Zenon
  <1>13. CASE ResponsesStops
    <2>1. from = "responses" /\ ~Silent(up) BY <1>13, Talks DEF ResponsesStops
    <2>2. \/ \E stop \in Reasons(up.blocks) : \E type \in {"incomplete", "completed"} :
               Receive([Event(type) EXCEPT !.stop = stop], [up EXCEPT !.stop = stop])
          \/ Receive(Event("failed"), [up EXCEPT !.over = TRUE, !.failed = TRUE])
      BY <1>13, Zenon DEF ResponsesStops
    <2>3. ASSUME NEW stop \in Reasons(up.blocks), NEW type \in {"incomplete", "completed"},
                 Receive([Event(type) EXCEPT !.stop = stop], [up EXCEPT !.stop = stop])
          PROVE  IInv'
      <3> DEFINE f == [Event(type) EXCEPT !.stop = stop]
      <3>1. f.type = type BY EventRecord DEF EventFields
      <3>2. Receive(f, [up EXCEPT !.stop = stop]) BY <2>3
      <3> HIDE DEF f
      <3>3. FrameOK(f) BY <1>2, <2>1, <3>1 DEF ResponsesFrameOK, ResponsesEnds
      <3>4. stop # "" BY Words, Zenon
      <3> QED BY <3>2, <3>3, <3>4, ReasonKeeps, Zenon
    <2>4. CASE Receive(Event("failed"), [up EXCEPT !.over = TRUE, !.failed = TRUE])
      <3> DEFINE f == Event("failed")
                 next == [up EXCEPT !.over = TRUE, !.failed = TRUE]
      <3>1. f.type = "failed" BY EventRecord
      <3>2. UpReady(next) /\ next.frames = up.frames /\ next.over = TRUE /\ next.failed = TRUE
        BY <1>1, EndedReady
      <3>3. Receive(f, next) BY <2>4
      <3> HIDE DEF f, next
      <3>4. FrameOK(f) BY <1>2, <2>1, <3>1 DEF ResponsesFrameOK, ResponsesEnds
      <3>5. Silent(next) BY <3>2, Zenon DEF Silent
      <3> QED BY <2>1, <3>1, <3>2, <3>3, <3>4, <3>5, Receives
    <2> QED BY <2>2, <2>3, <2>4, Zenon
  <1>14. CASE ResponsesFailsAgain
    <2>1. from = "responses" /\ Receive(Event("failed"), [up EXCEPT !.stop = "failed"])
      BY <1>14, Zenon DEF ResponsesFailsAgain
    <2>2. Event("failed").type = "failed" BY EventRecord
    <2>3. FrameOK(Event("failed")) BY <1>2, <2>1, <2>2 DEF ResponsesFrameOK, ResponsesEnds
    <2>4. "failed" # "" BY Words, Zenon
    <2> QED BY <2>1, <2>3, <2>4, ReasonKeeps, Zenon
  <1> QED
    BY <1>6, <1>7, <1>10, <1>11, <1>12, <1>13, <1>14, Zenon DEF ResponsesUpstream

-----------------------------------------------------------------------------
(* The actions of every upstream, and of the bridge.                       *)

\* An error of the upstream is known to the bridge.
LEMMA FailureKeeps ==
  ASSUME IInv, UpstreamFails
  PROVE  IInv'
  <1> DEFINE f == Event("error")
             next == [up EXCEPT !.over = TRUE, !.failed = TRUE]
  <1>1. f.type = "error" BY EventRecord
  <1>2. UpReady(next) /\ next.frames = up.frames /\ next.over = TRUE /\ next.failed = TRUE
    BY EndedReady DEF IInv
  <1>3. Receive(f, next) BY Zenon DEF UpstreamFails
  <1> HIDE DEF f, next
  <1>4. FrameOK(f)
    BY <1>1, AllProtocols DEF IInv, FrameOK, AnthropicFrameOK, ChatFrameOK, GeminiFrameOK,
                              ResponsesFrameOK, ResponsesEnds
  <1>5. Silent(next) BY <1>2, Zenon DEF Silent
  <1> QED BY <1>1, <1>2, <1>3, <1>4, <1>5, Receives

\* An error ends what a client was sent with an error, and before anything
\* was sent nothing is.
LEMMA BreaksOff ==
  ASSUME to \in DOMAIN Encoders, stream \in BOOLEAN, NEW s, Relaying(s.b, s.e),
         \/ EndInError(s)
         \/ EndUntold(s) /\ (s.b.committed => ~stream)
  PROVE  /\ DOMAIN enc' = DOMAIN Encoders[to] /\ Outcome(phase', enc')
         /\ phase' \in {"error", "retry"}
  <1>1. /\ DOMAIN s.e = DOMAIN Encoders[to] /\ Plain(s.e.out) /\ "out" \in DOMAIN s.e
    BY RelayFields
  <1>2. /\ Encoders[to].out = <<>>
        /\ \A e : EncoderReady(e) => DOMAIN e = DOMAIN Encoders[to]
    BY EncoderBegins
  <1>3. CASE EndInError(s)
    <2>1. phase' = "error" BY <1>3 DEF EndInError
    <2>2. Event("error").type = "error" BY EventRecord
    <2>3. CASE stream
      <3>1. enc' = EncoderFinish(Encode(s.e, Event("error"))) BY <1>3, <2>3 DEF EndInError
      <3>2. Failed(enc') BY <2>2, <2>3, <3>1, EncoderFails DEF Relaying
      <3> QED BY <1>2, <2>1, <3>2 DEF Failed, Outcome
    <2>4. CASE ~stream
      <3>1. enc' = Emit(s.e, Event("error")) BY <1>3, <2>4 DEF EndInError
      <3>2. DOMAIN enc' = DOMAIN s.e /\ enc'.out = Append(s.e.out, Event("error"))
        BY <1>1, <3>1 DEF Emit
      <3>3. Failing(enc'.out) BY <1>1, <2>2, <3>2, FailureTold
      <3> QED BY <1>1, <2>1, <3>2, <3>3 DEF Outcome
    <2> QED BY <2>3, <2>4
  <1>4. CASE EndUntold(s) /\ (s.b.committed => ~stream)
    <2>1. enc' = s.e /\ phase' = "retry" BY <1>4 DEF EndUntold
    <2>2. s.e.out = <<>> BY <1>2, <1>4 DEF Relaying
    <2> QED BY <1>1, <2>1, <2>2 DEF Outcome
  <1> QED BY <1>3, <1>4

\* However the bridge ends, the client is told what it has come to, and that
\* the answer is there only if no error was reported.
LEMMA Closes ==
  ASSUME to \in DOMAIN Encoders, stream \in BOOLEAN, NEW s, Relaying(s.b, s.e), Close(s)
  PROVE  /\ DOMAIN enc' = DOMAIN Encoders[to] /\ Outcome(phase', enc')
         /\ phase' # "open" /\ (phase' = "normal" => ~s.b.failed)
  <1>1. /\ DOMAIN s.e = DOMAIN Encoders[to] /\ Plain(s.e.out) /\ "out" \in DOMAIN s.e
        /\ BridgeReady(s.b)
    BY RelayFields
  <1>2. /\ Encoders[to].out = <<>>
        /\ \A e : EncoderReady(e) => DOMAIN e = DOMAIN Encoders[to]
    BY EncoderBegins
  <1>3. CASE EndInError(s) \/ (EndUntold(s) /\ (s.b.committed => ~stream))
    <2>1. /\ DOMAIN enc' = DOMAIN Encoders[to] /\ Outcome(phase', enc')
          /\ phase' \in {"error", "retry"}
      BY <1>3, BreaksOff
    <2> QED BY <2>1
  <1>4. CASE EndNormally(s) /\ ~s.b.failed
    <2> DEFINE tail == Truncated(s.b).tail
               stop == Agg!StopReason(FoldLeft(Collect, s.b.agg, tail))
               body == Gathered!EncodeResponse(to, s.b.content, stop)
    <2>1. /\ phase' = "normal"
          /\ enc' = IF stream THEN EncoderFinish(FoldLeft(Encode, s.e, tail))
                    ELSE [s.e EXCEPT !.out = body]
      BY <1>4, Zenon DEF EndNormally
    <2>2. IsList(tail) /\ \A n \in DOMAIN tail : tail[n].type \in {"message_delta", "message_stop"}
      <3> DEFINE more == Append(s.b.tail, MessageDelta("max_tokens"))
      <3>1. tail = s.b.tail \/ tail = more
        BY <1>1, Zenon DEF Truncated, BridgeReady
      <3>2. MessageDelta("max_tokens").type \in TailTypes
        BY EventRecord DEF MessageDelta, EventFields, TailTypes
      <3>3. IsList(s.b.tail) /\ \A n \in DOMAIN s.b.tail : s.b.tail[n].type \in TailTypes
        BY <1>1 DEF BridgeReady
      <3>4. IsList(more) /\ \A n \in DOMAIN more : more[n].type \in TailTypes
        BY <3>2, <3>3, TailGrows, Zenon
      <3> HIDE DEF tail, more
      <3> QED BY <3>1, <3>3, <3>4 DEF TailTypes
    <2>3. OneEnd(body) BY <1>1, BodyEnds DEF BridgeReady
    <2> HIDE DEF tail, body
    <2>4. CASE stream
      <3>1. Finished(enc') BY <2>1, <2>2, <2>4, EncoderTakesTail DEF Relaying
      <3> QED BY <1>2, <1>4, <2>1, <3>1 DEF Finished, Outcome
    <2>5. CASE ~stream
      <3>1. DOMAIN enc' = DOMAIN s.e /\ enc'.out = body BY <1>1, <2>1, <2>5
      <3> QED BY <1>1, <1>4, <2>1, <2>3, <3>1 DEF Outcome
    <2> QED BY <2>4, <2>5
  <1> QED BY <1>3, <1>4, Zenon DEF Close

\* Once the bridge has ended, of the invariant there is left what the client
\* was told, and that a failure was not passed over.
LEMMA EndedKeeps ==
  ASSUME IInv, from' = from, to' = to, stream' = stream,
         UpReady(up'), up'.frames = up.frames,
         DecoderReady(dec'), dec'.out = <<>>, BridgeReady(bridge'),
         DOMAIN enc' = DOMAIN Encoders[to], Outcome(phase', enc'), phase' # "open",
         phase' = "normal" => (up'.failed => from = "anthropic" /\ up'.over /\ up'.frames = 0)
  PROVE  IInv'
  <1>1. from \in DOMAIN Decoders /\ to \in DOMAIN Encoders /\ stream \in BOOLEAN
        /\ up.frames <= FrameBound
    BY DEF IInv
  <1>2. Decoders' = Decoders /\ Encoders' = Encoders BY DEF Decoders, Encoders
  <1>3. FrameBound' = FrameBound BY DEF FrameBound
  <1>4. (from \in DOMAIN Decoders /\ to \in DOMAIN Encoders /\ stream \in BOOLEAN)'
    BY <1>1, <1>2
  <1>5. (UpReady(up) /\ up.frames <= FrameBound)' BY <1>1, <1>3 DEF UpReady
  <1>6. (DecoderReady(dec) /\ dec.out = <<>>)' BY NextDecoder
  <1>7. (DOMAIN enc = DOMAIN Encoders[to] /\ BridgeReady(bridge))' BY <1>2 DEF BridgeReady
  <1>8. Outcome(phase, enc)' BY DEF Outcome
  <1>9. (phase = "normal" => (up.failed => Forged))' BY DEF Forged, WholeAnswer
  <1> QED BY <1>4, <1>5, <1>6, <1>7, <1>8, <1>9 DEF IInv

\* The upstream closes the stream: a failure it has told of is known.
LEMMA StreamEndKeeps ==
  ASSUME IInv, StreamEnds
  PROVE  IInv'
  <1> DEFINE d == IF bridge.produced THEN DecoderFinish(dec) ELSE dec
             s == Take(d.out)
             q == Quiet(d)
  <1>1. /\ phase = "open" /\ dec' = q /\ bridge' = s.b /\ Close(s)
        /\ from' = from /\ to' = to /\ stream' = stream /\ up' = up
    BY Zenon DEF StreamEnds
  <1>2. /\ from \in DOMAIN Decoders /\ to \in DOMAIN Encoders /\ stream \in BOOLEAN
        /\ DecoderReady(dec) /\ Relaying(bridge, enc) /\ UpReady(up)
        /\ up.failed => bridge.failed
    BY <1>1 DEF IInv, Open
  <1>3. DecoderReady(d) BY <1>2, DecoderFinishes
  <1> HIDE DEF d
  <1>4. AreEvents(d.out) BY <1>2, <1>3, DecoderBegins
  <1>5. Relaying(s.b, s.e) /\ (s.b.failed <=> bridge.failed \/ HasError(d.out))
    BY <1>2, <1>4, Takes
  <1>6. DecoderReady(q) /\ q.out = <<>> BY <1>2, <1>3, DecoderQuiet
  <1> HIDE DEF s, q
  <1>7. /\ DOMAIN enc' = DOMAIN Encoders[to] /\ Outcome(phase', enc')
        /\ phase' # "open" /\ (phase' = "normal" => ~s.b.failed)
    BY <1>1, <1>2, <1>5, Closes
  <1>8. BridgeReady(s.b) BY <1>5 DEF Relaying
  <1> QED BY <1>1, <1>2, <1>5, <1>6, <1>7, <1>8, EndedKeeps

\* The stream breaks off: what is committed ends in an error.
LEMMA StreamBreakKeeps ==
  ASSUME IInv, StreamBreaks
  PROVE  IInv'
  <1> DEFINE s == [b |-> bridge, e |-> enc]
  <1>1. /\ phase = "open"
        /\ from' = from /\ to' = to /\ stream' = stream /\ up' = up /\ dec' = dec
        /\ bridge' = bridge
        /\ IF bridge.committed THEN EndInError(s) ELSE EndUntold(s)
    BY Zenon DEF StreamBreaks
  <1>2. /\ to \in DOMAIN Encoders /\ stream \in BOOLEAN /\ DecoderReady(dec) /\ dec.out = <<>>
        /\ Relaying(bridge, enc) /\ UpReady(up)
    BY <1>1 DEF IInv, Open
  <1>3. s.b = bridge /\ s.e = enc OBVIOUS
  <1> HIDE DEF s
  <1>4. BridgeReady(bridge) BY <1>2 DEF Relaying
  <1>5. /\ DOMAIN enc' = DOMAIN Encoders[to] /\ Outcome(phase', enc')
        /\ phase' \in {"error", "retry"}
    BY <1>1, <1>2, <1>3, BreaksOff
  <1> QED BY <1>1, <1>2, <1>4, <1>5, EndedKeeps

\* A block of a whole answer is one.
LEMMA WholeBlockKnown ==
  ASSUME from \in DOMAIN Decoders
  PROVE  WholeBlocks \subseteq BlockRecord
  <1> DEFINE made(kind, n) == [NewBlock(kind) EXCEPT !.said = n, !.ended = TRUE, !.ided = TRUE]
             saying(kinds, said) == {made(kind, n) : kind \in kinds, n \in said}
             signed(blocks) == blocks \cup {[block EXCEPT !.signed = TRUE] : block \in blocks}
             nameless(blocks) == blocks \cup {[block EXCEPT !.ided = FALSE] : block \in blocks}
  <1>1. \A kind \in Kinds : \A n \in 0..2 : made(kind, n) \in BlockRecord
    <2> SUFFICES ASSUME NEW kind \in Kinds, NEW n \in 0..2
                 PROVE  made(kind, n) \in BlockRecord
      OBVIOUS
    <2>1. NewBlock(kind) \in BlockRecord BY DEF NewBlock, BlockRecord
    <2> QED BY <2>1 DEF BlockRecord
  <1>2. \A block \in BlockRecord : [block EXCEPT !.signed = TRUE] \in BlockRecord
                                   /\ [block EXCEPT !.ided = FALSE] \in BlockRecord
    BY DEF BlockRecord
  <1> HIDE DEF made
  <1>3. \A kinds \in SUBSET Kinds : \A said \in SUBSET (0..2) :
           saying(kinds, said) \subseteq BlockRecord
    BY <1>1
  <1> HIDE DEF saying
  <1>4. \A blocks \in SUBSET BlockRecord :
           signed(blocks) \subseteq BlockRecord /\ nameless(blocks) \subseteq BlockRecord
    BY <1>2
  <1> HIDE DEF signed, nameless
  <1>5. /\ {0, 2} \in SUBSET (0..2) /\ {2} \in SUBSET (0..2) /\ 0..2 \in SUBSET (0..2)
        /\ {"text"} \in SUBSET Kinds /\ {"thinking"} \in SUBSET Kinds
        /\ {"tool_use", "server_tool_use"} \in SUBSET Kinds /\ {"custom"} \in SUBSET Kinds
        /\ {"text", "refusal", "thinking"} \in SUBSET Kinds /\ {"tool_use"} \in SUBSET Kinds
        /\ {"text", "refusal"} \in SUBSET Kinds
    BY DEF Kinds, CallKinds
  <1>6. WholeBlocks
          = CASE from = "anthropic" -> saying({"text"}, {2}) \cup signed(saying({"thinking"}, {0, 2}))
                                         \cup saying({"tool_use", "server_tool_use"}, {0, 2})
              [] from = "chat" -> saying({"text", "refusal", "thinking"}, {2})
                                    \cup nameless(saying({"tool_use"}, 0..2))
                                    \cup saying({"custom"}, {0, 2})
              [] from = "gemini" -> saying({"text"}, {2}) \cup signed(saying({"thinking"}, {0, 2}))
                                      \cup nameless(saying({"tool_use"}, {0, 2}))
              [] from = "responses" -> saying({"text", "refusal"}, {2})
                                         \cup signed(saying({"thinking"}, {0, 2}))
                                         \cup saying({"tool_use"}, 0..2)
                                         \cup saying({"custom"}, {0, 2})
    BY DEF WholeBlocks, made, saying, signed, nameless
  <1>7. CASE from = "anthropic" BY <1>3, <1>4, <1>5, <1>6, <1>7
  <1>8. CASE from = "chat" BY <1>3, <1>4, <1>5, <1>6, <1>8
  <1>9. CASE from = "gemini" BY <1>3, <1>4, <1>5, <1>6, <1>9
  <1>10. CASE from = "responses" BY <1>3, <1>4, <1>5, <1>6, <1>10
  <1> QED BY <1>7, <1>8, <1>9, <1>10, AllProtocols

\* The items of a body are of the kinds of the blocks.
LEMMA BodyItems ==
  ASSUME NEW answer, answer.blocks \in Seq(BlockRecord), NEW status
  PROVE  AreItems(BodyOf(answer, status).items)
  <1> DEFINE blocks == answer.blocks
             p == BodyOf(answer, status).items
  <1>1. /\ p = [n \in DOMAIN blocks |-> p[n]]
        /\ \A n \in DOMAIN blocks : p[n].kind = blocks[n].kind
    BY Zenon DEF BodyOf
  <1>2. IsList(blocks) /\ \A n \in DOMAIN blocks : blocks[n] \in BlockRecord BY ListOf, Zenon
  <1>3. \A n \in DOMAIN blocks : blocks[n].kind \in Kinds BY <1>2 DEF BlockRecord
  <1> HIDE DEF p, blocks
  <1>4. AreItems(p) BY <1>1, <1>2, <1>3, ItemsMade, Zenon
  <1> QED BY <1>4 DEF p

\* A body that is no answer is one to an anthropic decoder alone.
LEMMA OnlyAnthropicForges ==
  ASSUME from \in DOMAIN Decoders, NEW body, body.status # "ok", from # "anthropic"
  PROVE  Whole!DecodeResponse(from, body) = Whole!Undecodable
  <1>1. from \in {"chat", "gemini", "responses"} BY AllProtocols
  <1>2. Whole!DecodeChat(body) = Whole!Undecodable BY DEF Whole!DecodeChat
  <1>3. Whole!DecodeGemini(body) = Whole!Undecodable BY DEF Whole!DecodeGemini
  <1>4. Whole!DecodeResponses(body) = Whole!Undecodable BY DEF Whole!DecodeResponses
  <1> QED BY <1>1, <1>2, <1>3, <1>4 DEF Whole!DecodeResponse

\* One body from the upstream, adopted or given up.
LEMMA AdoptKeeps ==
  ASSUME IInv, phase = "open", NEW body, AreItems(body.items), Adopt(body),
         UpReady(up'), up'.frames = up.frames, up.frames = 0, up'.over = TRUE,
         up'.failed => up.failed \/ body.status # "ok"
  PROVE  IInv'
  <1>1. /\ from \in DOMAIN Decoders /\ to \in DOMAIN Encoders /\ stream \in BOOLEAN
        /\ DecoderReady(dec) /\ dec.out = <<>> /\ Relaying(bridge, enc)
        /\ ~bridge.committed /\ (up.failed => bridge.failed)
    BY DEF IInv, Open
  <1>2. from' = from /\ to' = to /\ stream' = stream /\ dec' = dec BY DEF Adopt
  <1> DEFINE resp == Whole!DecodeResponse(from, body)
             events == Whole!ResponseEvents(resp)
             s == Take(events)
             untold == [b |-> bridge, e |-> enc]
  <1>3. CASE EndUntold(untold) /\ bridge' = bridge
    <2>1. enc' = enc /\ phase' = "retry" BY <1>3 DEF EndUntold
    <2>2. enc.out = <<>> /\ BridgeReady(bridge) BY <1>1 DEF Relaying
    <2>3. DOMAIN enc' = DOMAIN Encoders[to] /\ Outcome(phase', enc')
      BY <1>1, <2>1, <2>2, RelayFields DEF Outcome
    <2> QED BY <1>1, <1>2, <1>3, <2>1, <2>2, <2>3, EndedKeeps
  <1>4. CASE resp # Whole!Undecodable /\ bridge' = s.b /\ Close(s)
    <2>1. AreEvents(events) BY <1>1, AnswerDecoded, AnswerReplayed
    <2>2. body.status # "ok" => from = "anthropic" BY <1>1, <1>4, OnlyAnthropicForges
    <2> HIDE DEF events
    <2>3. Relaying(s.b, s.e) /\ (bridge.failed => s.b.failed) BY <1>1, <2>1, Takes
    <2> HIDE DEF s
    <2>4. /\ DOMAIN enc' = DOMAIN Encoders[to] /\ Outcome(phase', enc') /\ phase' # "open"
          /\ phase' = "normal" => ~s.b.failed
      BY <1>1, <1>4, <2>3, Closes
    <2>5. BridgeReady(s.b) BY <2>3 DEF Relaying
    <2>6. phase' = "normal" => (up'.failed => from = "anthropic")
      BY <1>1, <2>2, <2>3, <2>4
    <2> QED BY <1>1, <1>2, <1>4, <2>4, <2>5, <2>6, EndedKeeps
  <1>5. \/ EndUntold(untold) /\ bridge' = bridge
        \/ resp # Whole!Undecodable /\ bridge' = s.b /\ Close(s)
    BY Zenon DEF Adopt
  <1> QED BY <1>3, <1>4, <1>5

\* A whole answer.
LEMMA AnswerKeeps ==
  ASSUME IInv, AnswersWhole
  PROVE  IInv'
  <1> DEFINE answer(blocks, stop) ==
               [up EXCEPT !.opened = TRUE, !.blocks = blocks, !.stop = stop, !.over = TRUE]
  <1>1. phase = "open" /\ up.frames = 0 BY DEF AnswersWhole, Unspoken
  <1>2. UpReady(up) /\ from \in DOMAIN Decoders BY DEF IInv
  <1>3. \E n \in 0..MaxBlocks : \E blocks \in [1..n -> WholeBlocks] : \E stop :
          up' = answer(blocks, stop) /\ Adopt(BodyOf(answer(blocks, stop), "ok"))
    BY Zenon DEF AnswersWhole
  <1>4. PICK n \in 0..MaxBlocks : \E blocks \in [1..n -> WholeBlocks] : \E stop :
          up' = answer(blocks, stop) /\ Adopt(BodyOf(answer(blocks, stop), "ok"))
    BY <1>3
  <1>5. PICK blocks \in [1..n -> WholeBlocks] : \E stop :
          up' = answer(blocks, stop) /\ Adopt(BodyOf(answer(blocks, stop), "ok"))
    BY <1>4
  <1>6. PICK stop : up' = answer(blocks, stop) /\ Adopt(BodyOf(answer(blocks, stop), "ok"))
    BY <1>5
  <1>7. blocks \in Seq(BlockRecord) /\ Len(blocks) <= MaxBlocks
    <2>1. WholeBlocks \subseteq BlockRecord BY <1>2, WholeBlockKnown
    <2>2. n \in Nat /\ n <= MaxBlocks BY BoundsAssumption
    <2>3. blocks \in [1..n -> BlockRecord] BY <2>1
    <2> QED BY <2>2, <2>3
  <1>8. /\ answer(blocks, stop).blocks = blocks /\ answer(blocks, stop).over = TRUE
        /\ answer(blocks, stop).frames = up.frames /\ UpReady(answer(blocks, stop))
        /\ answer(blocks, stop).failed = up.failed
    BY <1>2, <1>7 DEF UpReady
  <1> HIDE DEF answer
  <1>9. AreItems(BodyOf(answer(blocks, stop), "ok").items) BY <1>7, <1>8, BodyItems
  <1> QED BY <1>1, <1>6, <1>8, <1>9, AdoptKeeps

\* A body that is no answer.
LEMMA NoAnswerKeeps ==
  ASSUME IInv, AnswersWithNothing
  PROVE  IInv'
  <1> DEFINE next == [up EXCEPT !.over = TRUE, !.failed = TRUE]
  <1>1. /\ phase = "open" /\ up.frames = 0
        /\ up' = next /\ Adopt(BodyOf(up, "failed"))
    BY Zenon DEF AnswersWithNothing, Unspoken
  <1>2. UpReady(up) BY DEF IInv
  <1>3. UpReady(next) /\ next.frames = up.frames /\ next.over = TRUE BY <1>2, EndedReady
  <1> HIDE DEF next
  <1>4. AreItems(BodyOf(up, "failed").items) BY <1>2, BodyItems DEF UpReady
  <1>5. BodyOf(up, "failed").status # "ok" BY DEF BodyOf
  <1> QED BY <1>1, <1>3, <1>4, <1>5, AdoptKeeps

\* Nothing has been said yet.
LEMMA InitReady == Init => IInv
  <1> SUFFICES ASSUME Init PROVE IInv
    OBVIOUS
  <1>1. /\ from \in DOMAIN Decoders /\ to \in DOMAIN Encoders /\ stream \in BOOLEAN
        /\ dec = Decoders[from] /\ enc = Encoders[to] /\ phase = "open"
        /\ bridge = [agg |-> Agg!Empty, content |-> <<>>, committed |-> FALSE, failed |-> FALSE,
                     tail |-> <<>>, produced |-> FALSE]
    BY Zenon DEF Init
  <1>2. \E cumulative, stop :
          up = [opened |-> FALSE, blocks |-> <<>>, stop |-> stop, over |-> FALSE,
                failed |-> FALSE, cumulative |-> cumulative, frames |-> 0]
    BY Zenon DEF Init
  <1>3. PICK cumulative, stop :
          up = [opened |-> FALSE, blocks |-> <<>>, stop |-> stop, over |-> FALSE,
                failed |-> FALSE, cumulative |-> cumulative, frames |-> 0]
    BY <1>2
  <1>4. UpReady(up) /\ up.frames = 0 /\ up.failed = FALSE
    BY <1>3, BoundsAssumption DEF UpReady
  <1>5. up.frames <= FrameBound BY <1>1, <1>4, BoundIsNumber
  <1>6. /\ DecoderReady(dec) /\ dec.out = <<>>
        /\ from = "responses" => ~dec.sawError /\ ~dec.done
    BY <1>1, DecoderBegins
  <1>7. Running(enc) /\ enc.out = <<>> BY <1>1, EncoderBegins
  <1>8. BridgeReady(bridge) /\ ~bridge.committed
    <2>1. IsList(<<>>) /\ DOMAIN <<>> = {} BY ListEmpty
    <2>2. AreBlocks(<<>>) BY <2>1 DEF AreBlocks
    <2> HIDE <1>3
    <2> QED BY <1>1, <2>1, <2>2 DEF BridgeReady
  <1>9. Open BY <1>1, <1>4, <1>6, <1>7, <1>8 DEF Open, Relaying
  <1>10. Outcome(phase, enc) BY <1>1 DEF Outcome
  <1> QED BY <1>1, <1>4, <1>5, <1>6, <1>8, <1>9, <1>10 DEF IInv

\* Every step of the upstream and of the bridge keeps the invariant.
LEMMA StepKeeps == IInv /\ [Next]_vars => IInv'
  <1> SUFFICES ASSUME IInv, [Next]_vars PROVE IInv'
    OBVIOUS
  <1>1. CASE AnthropicUpstream BY <1>1, AnthropicKeeps
  <1>2. CASE ChatUpstream BY <1>2, ChatKeeps
  <1>3. CASE GeminiUpstream BY <1>3, GeminiKeeps
  <1>4. CASE ResponsesUpstream BY <1>4, ResponsesKeeps
  <1>5. CASE AnswersWhole BY <1>5, AnswerKeeps
  <1>6. CASE AnswersWithNothing BY <1>6, NoAnswerKeeps
  <1>7. CASE UpstreamFails BY <1>7, FailureKeeps
  <1>8. CASE StreamEnds BY <1>8, StreamEndKeeps
  <1>9. CASE StreamBreaks BY <1>9, StreamBreakKeeps
  <1>10. CASE UNCHANGED vars
    <2>1. /\ from' = from /\ to' = to /\ stream' = stream /\ up' = up /\ dec' = dec
          /\ enc' = enc /\ bridge' = bridge /\ phase' = phase
      BY <1>10 DEF vars
    <2> QED
      BY <2>1 DEF IInv, Decoders, Encoders, UpReady, FrameBound, DecoderReady, BridgeReady,
                  Outcome, Open, Relaying, Running, EncoderReady, Silent, Forged,
                  WholeAnswer
  <1> QED
    BY <1>1, <1>2, <1>3, <1>4, <1>5, <1>6, <1>7, <1>8, <1>9, <1>10, Zenon DEF Next, Ended

\* The invariant holds throughout.
LEMMA Invariant == Spec => []IInv
  BY InitReady, StepKeeps, PTL DEF Spec

-----------------------------------------------------------------------------
(* What the runs check.                                                    *)

\* Whatever the upstream says, and however the bridge ends: every decoder and
\* every encoder keeps its fields, the bridge holds back nothing but the end
\* of the message, and the bounds are kept.
THEOREM TypeCorrect == Spec => []TypeOK
  <1>1. IInv => TypeOK
    <2> SUFFICES ASSUME IInv PROVE TypeOK
      OBVIOUS
    <2>1. /\ from \in DOMAIN Decoders /\ to \in DOMAIN Encoders /\ stream \in BOOLEAN
          /\ UpReady(up) /\ up.frames <= FrameBound
          /\ DecoderReady(dec) /\ dec.out = <<>>
          /\ DOMAIN enc = DOMAIN Encoders[to] /\ BridgeReady(bridge) /\ Outcome(phase, enc)
      BY DEF IInv
    <2>2. DOMAIN dec = DOMAIN Decoders[from] BY <2>1, DecoderBegins
    <2>3. /\ Len(up.blocks) <= MaxBlocks
          /\ \A b \in Blocks : up.blocks[b].kind \in Kinds /\ up.blocks[b].said \in 0..2
      <3>1. up.blocks \in Seq(BlockRecord) /\ Len(up.blocks) <= MaxBlocks BY <2>1 DEF UpReady
      <3>2. \A b \in Blocks : up.blocks[b] \in BlockRecord BY <3>1, ListOf, Zenon DEF Blocks
      <3> QED BY <3>1, <3>2 DEF BlockRecord
    <2>4. /\ \A n \in DOMAIN bridge.content : bridge.content[n].kind \in Kinds
          /\ bridge.committed \in BOOLEAN /\ bridge.failed \in BOOLEAN /\ bridge.produced \in BOOLEAN
          /\ \A n \in DOMAIN bridge.tail : bridge.tail[n].type \in {"message_delta", "message_stop"}
      BY <2>1 DEF BridgeReady, AreBlocks, IsBlock, TailTypes
    <2>5. phase \in {"open", "normal", "error", "retry"} BY <2>1 DEF Outcome
    <2> QED BY <2>1, <2>2, <2>3, <2>4, <2>5 DEF TypeOK
  <1> QED BY <1>1, Invariant, PTL

\* However the upstream's frames come and wherever they stop, from whichever
\* protocol and into whichever, as a stream or in one body: the client is
\* told once that its answer is there, and only of an answer the upstream
\* did not fail; of any other it is told an error, or nothing so that another
\* target can answer.
THEOREM HonestEnd == Spec => []EndIsHonest
  <1>1. IInv => EndIsHonest
    <2> SUFFICES ASSUME IInv PROVE EndIsHonest
      OBVIOUS
    <2>1. /\ to \in DOMAIN Encoders /\ stream \in BOOLEAN /\ Outcome(phase, enc)
          /\ phase = "open" => Open
          /\ phase = "normal" => (up.failed => Forged)
      BY DEF IInv
    <2>2. Sent = enc.out /\ Successes = SuccessesIn(enc.out)
      BY DEF Sent, Successes, SuccessesIn
    <2>3. ASSUME phase = "open" PROVE Successes = {}
      <3>1. Plain(enc.out) BY <2>1, <2>3, RelayFields DEF Open
      <3> QED BY <2>2, <3>1 DEF Plain, SuccessesIn
    <2>4. ASSUME phase = "error"
          PROVE  Successes = {} /\ \E n \in DOMAIN Sent : Sent[n].type = "error"
      BY <2>1, <2>2, <2>4 DEF Outcome, Failing
    <2>5. ASSUME phase = "retry" PROVE Successes = {} /\ Sent = <<>>
      <3>1. Sent = <<>> BY <2>1, <2>2, <2>5 DEF Outcome
      <3> QED BY <3>1, ListEmpty DEF Successes
    <2>6. ASSUME phase = "normal" PROVE Cardinality(Successes) = 1
      <3>1. PICK n : Successes = {n} BY <2>1, <2>2, <2>6 DEF Outcome, OneEnd
      <3> QED BY <3>1, FS_Singleton
    <2> QED BY <2>1, <2>3, <2>4, <2>5, <2>6 DEF EndIsHonest
  <1> QED BY <1>1, Invariant, PTL
================================================================================
