--------------------------- MODULE AttemptProofs ---------------------------
(* Proofs about an attempt, for every capacity of the channel, every pair  *)
(* of timeouts and every upstream.                                         *)
EXTENDS Attempt, AggregatorLemmas, SequenceTheorems

-----------------------------------------------------------------------------
(* The inductive invariant.                                                *)

FrameSet == [events : Seq(UpstreamEvents), err : {NoError, NewError("upstream")},
             done : BOOLEAN]

Readers == [pc : {"idle", "scan", "send", "gone"}, frame : FrameSet, sent : 0..MaxFrames,
            produced : BOOLEAN, stopped : BOOLEAN,
            open : SUBSET Indexes, used : SUBSET Indexes]

\* The errors an upstream can announce in its stream.
Announced == NewErrors(UpstreamKinds) \cup {NoError}

Types ==
  /\ stream \in BOOLEAN /\ wroteRequest \in BOOLEAN /\ committed \in BOOLEAN
  /\ ctx \in {"live", "cancelled", "expired"}
  /\ phase \in {"opening", "open", "frame", "event", "done"}
  /\ source \in {"none", "sse", "whole", "empty"}
  /\ reader \in Readers /\ IsFiniteSet(reader.open)
  /\ out \in Seq(FrameSet) /\ Len(out) <= ChanCap /\ hand \in FrameSet
  /\ left \in Nat /\ silent \in Nat
  /\ streamErr \in Announced /\ tail \in Seq(UpstreamEvents)
  /\ client \in [status : Statuses, ending : Endings]
  /\ result.err \in Errors /\ result.outcome \in OutcomeSet \cup {""}

\* What the client has seen as long as the attempt is not over.
BeforeTheEnd ==
  phase # "done" =>
    client = [status |-> IF stream /\ committed THEN "ok" ELSE "none", ending |-> "none"]

\* Where the loop and the reader are.
Places ==
  /\ phase \in {"opening", "open"} => hand = NoFrame
  /\ phase = "event" => committed /\ hand.err = NoError /\ hand.events # <<>>
  /\ reader.pc = "idle" <=> source = "none"
  /\ reader.pc = "idle" => reader.stopped = FALSE
  /\ phase = "opening" => source = "none"
  /\ source = "none" => out = <<>> /\ ~committed /\ ~Bridging
  /\ reader.pc # "send" => reader.frame = NoFrame

\* Nothing follows a last frame; the reader is gone behind it, and goes
\* before it only if its context ended.
LastOfAll ==
  /\ Terminal(hand) => reader.pc = "gone" /\ out = <<>>
  /\ \A i \in DOMAIN out : Terminal(out[i]) => reader.pc = "gone" /\ i = Len(out)

GoneForCause ==
  Bridging /\ reader.pc = "gone" /\ ctx = "live" =>
    Terminal(hand) \/ \E i \in DOMAIN out : Terminal(out[i])

\* The deadline is no nearer than the silence is short.
Clock == phase # "done" => left + silent >= Min2(FirstToken, Idle)

\* The terminator is on its way or held back.
Stops(events) == \E i \in DOMAIN events : events[i] = Ev("message_stop")

Terminated ==
  \/ Stops(tail) \/ Stops(hand.events) \/ Stops(reader.frame.events)
  \/ \E i \in DOMAIN out : Stops(out[i].events)

\* Nothing was decoded, so nothing was committed.
Barren == source = "empty" \/ (source = "sse" /\ ~reader.produced)

BarrenIsEmpty ==
  Barren => /\ ~committed /\ hand.events = <<>> /\ reader.frame.events = <<>>
            /\ \A i \in DOMAIN out : out[i].events = <<>>

\* No stream is done without a terminator, unless it was barren.
DoneIsTold ==
  /\ reader.stopped /\ reader.pc \in {"scan", "send"} => Terminated
  /\ hand.done \/ reader.frame.done \/ (\E i \in DOMAIN out : out[i].done) =>
       Terminated \/ Barren

IInv ==
  /\ Types /\ Sound(agg) /\ BeforeTheEnd /\ Places /\ LastOfAll /\ GoneForCause /\ Clock
  /\ BarrenIsEmpty /\ DoneIsTold
  /\ ResultAllowed /\ NormalMeansWhole /\ TeardownNamesItsCause /\ NotesAfterReader

-----------------------------------------------------------------------------
(* Sequences, events and errors.                                           *)

LEMMA TailParts ==
  ASSUME NEW S, NEW s \in Seq(S), s # <<>>
  PROVE  /\ Head(s) = s[1] /\ Head(s) \in S /\ 1 \in DOMAIN s
         /\ Tail(s) \in Seq(S) /\ Len(Tail(s)) = Len(s) - 1
         /\ \A i \in DOMAIN Tail(s) : i + 1 \in DOMAIN s /\ Tail(s)[i] = s[i + 1]
         /\ \A i \in DOMAIN s : i = 1 \/ (i - 1 \in DOMAIN Tail(s) /\ Tail(s)[i - 1] = s[i])
  OBVIOUS

LEMMA AppendParts ==
  ASSUME NEW S, NEW s \in Seq(S), NEW x \in S
  PROVE  /\ Append(s, x) \in Seq(S) /\ Len(Append(s, x)) = Len(s) + 1
         /\ \A i \in DOMAIN s : i \in DOMAIN Append(s, x) /\ Append(s, x)[i] = s[i]
         /\ Len(s) + 1 \in DOMAIN Append(s, x) /\ Append(s, x)[Len(s) + 1] = x
         /\ \A i \in DOMAIN Append(s, x) : i = Len(s) + 1 \/ i \in DOMAIN s
  OBVIOUS

\* What the loop and the reader read off an event.
LEMMA EventFacts ==
  ASSUME NEW ev \in UpstreamEvents
  PROVE  /\ ev.type \in {"block_start", "block_stop"} => ev.index \in Indexes
         /\ "index" \in DOMAIN ev => ev.index \in Indexes
         /\ ev.type = "error" => ev.err \in NewErrors(UpstreamKinds)
         /\ ev.type # "error" => ev \in Events
         /\ ev.type = "message_stop" => ev = Ev("message_stop")
  <1>1. CASE ev = Ev("message_start") \/ ev = Ev("message_stop")
    BY <1>1 DEF Ev, Events
  <1>2. CASE \/ \E i \in Indexes, k \in BlockKinds : ev = Start(i, k)
             \/ \E i \in Indexes, k \in {"text", "thinking"} : ev = StartWith(i, k, "content")
             \/ \E i \in Indexes : ev = StartWith(i, "thinking", "signature")
    <2>1. ev \in Events
      BY <1>2 DEF Events
    <2>2. PICK i \in Indexes, k \in BlockKinds, own \in Owns : ev = StartWith(i, k, own)
      BY <1>2 DEF Start, BlockKinds, Owns
    <2> QED
      BY <2>1, <2>2 DEF StartWith
  <1>3. CASE \E i \in Indexes : ev = Stop(i)
    <2>1. PICK i \in Indexes : ev = Stop(i)
      BY <1>3
    <2>2. ev \in Events
      BY <2>1 DEF Events
    <2> QED
      BY <2>1, <2>2 DEF Stop
  <1>4. CASE \E i \in Indexes, t \in {"text_delta", "thinking_delta", "signature_delta"} :
               ev = Delta(t, i)
    <2>1. PICK i \in Indexes, t \in {"text_delta", "thinking_delta", "signature_delta"} :
            ev = Delta(t, i)
      BY <1>4
    <2>2. ev \in Events
      BY <2>1 DEF Events
    <2> QED
      BY <2>1, <2>2 DEF Delta
  <1>5. CASE \E i \in Indexes, p \in {"head", "tail", "free"} : ev = Input(i, p)
    <2>1. PICK i \in Indexes, p \in {"head", "tail", "free"} : ev = Input(i, p)
      BY <1>5
    <2>2. ev \in Events
      BY <2>1 DEF Events
    <2> QED
      BY <2>1, <2>2 DEF Input
  <1>6. CASE \E s \in StopReasons : ev = MessageDelta(s)
    <2>1. PICK s \in StopReasons : ev = MessageDelta(s)
      BY <1>6
    <2>2. ev \in Events
      BY <2>1 DEF Events
    <2> QED
      BY <2>1, <2>2 DEF MessageDelta
  <1>7. CASE \E kind \in UpstreamKinds : ev = ErrorEvent(kind)
    <2>1. PICK kind \in UpstreamKinds : ev = ErrorEvent(kind)
      BY <1>7
    <2>2. ev.type = "error" /\ ev.err = NewError(kind) /\ "index" \notin DOMAIN ev
      BY <2>1 DEF ErrorEvent
    <2> QED
      BY <2>2 DEF NewErrors
  <1>8. ev \in Events \/ \E kind \in UpstreamKinds : ev = ErrorEvent(kind)
    BY DEF UpstreamEvents
  <1> QED
    BY <1>1, <1>2, <1>3, <1>4, <1>5, <1>6, <1>7, <1>8 DEF Events

\* The events the decoders and finish add.
LEMMA AddedEvents ==
  /\ Ev("message_stop") \in UpstreamEvents
  /\ \A i \in Indexes : Stop(i) \in UpstreamEvents
  /\ \A s \in StopReasons : MessageDelta(s) \in UpstreamEvents
  BY DEF UpstreamEvents, Events

\* The errors by class.
LEMMA ErrorFacts ==
  /\ \A kinds : \A kind \in kinds : NewError(kind) \in NewErrors(kinds)
  /\ \A kind \in Kinds : NewError(kind) \in Error /\ NewError(kind) # NoError
  /\ BudgetError \in Error /\ BudgetError # NoError
  /\ OverflowError \in Error /\ OverflowError # NoError
  /\ CanceledError \in Error
  /\ OutcomeFor(NewError("upstream")) = "retrying"
  /\ UpstreamKinds \subseteq Kinds /\ {"upstream", "timeout"} \subseteq UpstreamKinds
  <1>1. \A kinds : \A kind \in kinds : NewError(kind) \in NewErrors(kinds)
    BY DEF NewErrors
  <1>2. \A kind \in Kinds : NewError(kind) \in Error /\ NewError(kind) # NoError
    <2>1. TAKE kind \in Kinds
    <2>2. NewError(kind) \in Error
      BY DEF NewError, Error, Retryable
    <2>3. NewError(kind).kind = kind /\ NoError.kind = "" /\ kind # ""
      BY DEF NewError, NoError, Kinds
    <2> QED
      BY <2>2, <2>3
  <1>3. /\ BudgetError \in Error /\ BudgetError # NoError
        /\ OverflowError \in Error /\ OverflowError # NoError
    BY DEF BudgetError, OverflowError, Final, NewError, Error, NoError, Retryable, Kinds
  <1>4. CanceledError \in Error /\ OutcomeFor(NewError("upstream")) = "retrying"
    BY <1>2 DEF CanceledError, Kinds, OutcomeFor, NewError
  <1> QED
    BY <1>1, <1>2, <1>3, <1>4 DEF UpstreamKinds, Kinds

LEMMA NewErrorsFacts ==
  ASSUME NEW kinds, kinds \subseteq Kinds, NEW err \in NewErrors(kinds)
  PROVE  err \in Error /\ err # NoError
  BY ErrorFacts DEF NewErrors

LEMMA AnnouncedFacts ==
  /\ NoError \in Announced
  /\ \A err \in Announced : err \in Errors /\ (err # NoError => err \in NewErrors(UpstreamKinds))
  BY NewErrorsFacts, ErrorFacts DEF Announced, Errors

-----------------------------------------------------------------------------
(* The frames of the reader.                                               *)

LEMMA FrameFacts ==
  /\ NoFrame \in FrameSet /\ NoFrame.events = <<>> /\ ~Terminal(NoFrame)
  /\ NoFrame.err = NoError /\ NoFrame.done = FALSE
  /\ \A events \in Seq(UpstreamEvents) :
       /\ EventFrame(events) \in FrameSet /\ EventFrame(events).events = events
       /\ EventFrame(events).done = FALSE /\ ~Terminal(EventFrame(events))
       /\ DoneFrame(events) \in FrameSet /\ DoneFrame(events).events = events
       /\ DoneFrame(events).done = TRUE
  /\ \A err \in {NewError("upstream")} :
       /\ ErrorFrame(err) \in FrameSet /\ ErrorFrame(err).events = <<>>
       /\ ErrorFrame(err).done = FALSE
  <1>1. <<>> \in Seq(UpstreamEvents)
    OBVIOUS
  <1> QED
    BY <1>1 DEF NoFrame, EventFrame, DoneFrame, ErrorFrame, FrameSet, Terminal

\* A frame without the events the loop is done with.
LEMMA RestFacts ==
  ASSUME hand \in FrameSet, hand.events # <<>>
  PROVE  /\ Rest \in FrameSet /\ Rest.events = Tail(hand.events)
         /\ Rest.err = hand.err /\ Rest.done = hand.done
         /\ Event \in UpstreamEvents
         /\ Stops(hand.events) => Event = Ev("message_stop") \/ Stops(Rest.events)
  <1>1. hand.events \in Seq(UpstreamEvents)
    BY DEF FrameSet
  <1>2. Tail(hand.events) \in Seq(UpstreamEvents) /\ Event \in UpstreamEvents
        /\ Event = hand.events[1]
    BY <1>1, TailParts DEF Event
  <1>3. /\ Rest \in FrameSet /\ Rest.events = Tail(hand.events)
        /\ Rest.err = hand.err /\ Rest.done = hand.done
    BY <1>2 DEF Rest, FrameSet
  <1>4. ASSUME Stops(hand.events), Event # Ev("message_stop")
        PROVE  Stops(Tail(hand.events))
    <2>1. PICK i \in DOMAIN hand.events : hand.events[i] = Ev("message_stop")
      BY <1>4 DEF Stops
    <2>2. i - 1 \in DOMAIN Tail(hand.events)
          /\ Tail(hand.events)[i - 1] = Ev("message_stop")
      BY <1>1, <1>2, <1>4, <2>1, TailParts
    <2> QED
      BY <2>2 DEF Stops
  <1> QED
    BY <1>2, <1>3, <1>4

\* The indexes of the blocks that are started or stopped in a frame.
LEMMA IndexedFacts ==
  ASSUME NEW events \in Seq(UpstreamEvents), NEW type \in {"block_start", "block_stop"}
  PROVE  Indexed(type, events) \subseteq Indexes /\ IsFiniteSet(Indexed(type, events))
  <1> DEFINE D == {j \in DOMAIN events : events[j].type = type}
             f == [i \in D |-> events[i].index]
             T == Indexed(type, events)
  <1>1. IsFiniteSet(D)
    <2>1. IsFiniteSet(1..Len(events)) /\ DOMAIN events = 1..Len(events)
      BY FS_Interval
    <2> QED
      BY <2>1, FS_Subset
  <1>2. T = {events[i].index : i \in D}
    BY DEF Indexed
  <1>3. T \subseteq Indexes
    <2>1. \A i \in D : events[i] \in UpstreamEvents /\ events[i].type = type
      OBVIOUS
    <2> QED
      BY <1>2, <2>1, EventFacts
  <1>4. f \in Surjection(D, T)
    <2> HIDE DEF D
    <2>1. f \in [D -> T] /\ \A t \in T : \E i \in D : f[i] = t
      BY <1>2
    <2> QED
      BY <2>1 DEF Surjection
  <1>5. IsFiniteSet(T)
    <2> HIDE DEF D, f, T
    <2> QED
      BY <1>1, <1>4, FS_Surjection
  <1> QED
    BY <1>3, <1>5

LEMMA TouchedFacts ==
  ASSUME NEW events \in Seq(UpstreamEvents)
  PROVE  Touched(events) \subseteq Indexes
  <1>1. \A i \in DOMAIN events : events[i] \in UpstreamEvents
    OBVIOUS
  <1> QED
    BY <1>1, EventFacts DEF Touched

\* A finite set of events can be put in a sequence.
LEMMA SetToSeqFacts ==
  ASSUME NEW S, S \subseteq UpstreamEvents, IsFiniteSet(S)
  PROVE  SetToSeq(S) \in Seq(UpstreamEvents)
  <1> DEFINE n == Cardinality(S)
  <1>1. n \in Nat /\ ExistsBijection(1..n, S)
    BY FS_CardinalityType
  <1> HIDE DEF n
  <1>2. \E f \in [1..n -> S] : IsInjective(f)
    BY <1>1 DEF ExistsBijection, Bijection, Injection
  <1>3. SetToSeq(S) \in [1..n -> S]
    BY <1>2 DEF SetToSeq, n
  <1> QED
    BY <1>1, <1>3

\* What a decoder adds at the end of its input.
LEMMA FinishFacts ==
  ASSUME reader \in Readers, IsFiniteSet(reader.open)
  PROVE  /\ FinishEvents \in Seq(UpstreamEvents)
         /\ reader.stopped = FALSE => Stops(FinishEvents)
  <1> DEFINE S == {Stop(i) : i \in reader.open}
             f == [i \in reader.open |-> Stop(i)]
             e1 == MessageDelta("end_turn")
             e2 == Ev("message_stop")
  <1>1. reader.open \subseteq Indexes /\ reader.stopped \in BOOLEAN
    BY DEF Readers
  <1>2. e1 \in UpstreamEvents /\ e2 \in UpstreamEvents /\ S \subseteq UpstreamEvents
    BY <1>1, AddedEvents DEF StopReasons
  <1>3. f \in Surjection(reader.open, S)
    BY DEF Surjection
  <1>4. IsFiniteSet(S)
    <2> HIDE DEF f, S
    <2> QED
      BY <1>3, FS_Surjection
  <1> DEFINE q == SetToSeq(S)
  <1>5. q \in Seq(UpstreamEvents)
    <2> HIDE DEF S
    <2> QED
      BY <1>2, <1>4, SetToSeqFacts
  <1>6. FinishEvents = IF reader.stopped THEN <<>>
                       ELSE IF ~ClosesAtEnd THEN <<e2>> ELSE q \o <<e1, e2>>
    BY <1>1, SwitchAssumption DEF FinishEvents
  <1> HIDE DEF q, e1, e2
  <1>7. <<e2>> \in Seq(UpstreamEvents) /\ <<e2>>[1] = e2 /\ 1 \in DOMAIN <<e2>>
    BY <1>2
  <1>8. /\ q \o <<e1, e2>> \in Seq(UpstreamEvents)
        /\ Len(q) + 2 \in DOMAIN (q \o <<e1, e2>>)
        /\ (q \o <<e1, e2>>)[Len(q) + 2] = e2
    BY <1>2, <1>5
  <1>9. Stops(<<e2>>) /\ Stops(q \o <<e1, e2>>)
    BY <1>7, <1>8 DEF Stops, e2
  <1> QED
    BY <1>6, <1>7, <1>8, <1>9, EmptySeq

-----------------------------------------------------------------------------
(* The ways out of the loop.                                               *)

\* What they have in common, and the actions that take them.
EndsAttempt ==
  /\ phase' = "done"
  /\ UNCHANGED <<world, ctx, reader, out, hand, committed, left, streamErr, silent, cut>>

Exit == \/ ReceiveClosed \/ Broken \/ Overflows \/ WriteFails \/ LastFrame \/ TimerFires
        \/ (Waiting /\ ClientLeft /\ UNCHANGED notes)

\* The results that Serve was written for.
LEMMA AllowedForms ==
  ASSUME NEW s \in BOOLEAN
  PROVE  /\ \A e \in UnsentErrors :
              Result(OutcomeFor(e), e, FALSE, "none", "none", "unsent") \in AttemptResults(s)
         /\ \A e \in UnansweredErrors :
              Result(OutcomeFor(e), e, FALSE, "none", "none", "unanswered") \in AttemptResults(s)
         /\ \A e \in RefusedErrors :
              Result(OutcomeFor(e), e, FALSE, "none", "none", "refused") \in AttemptResults(s)
         /\ \A e \in BridgeErrors :
              Result(OutcomeFor(e), e, FALSE, "none", "none", "answered") \in AttemptResults(s)
         /\ \A e \in BridgeErrors \cup {OverflowError} :
              Result("abnormal", e, TRUE, IF s THEN "ok" ELSE "error", "error", "answered")
                \in AttemptResults(s)
         /\ Result("normal", CanceledError, TRUE, "none", "none", "answered")
              \in AttemptResults(s)
         /\ s => Result("normal", CanceledError, TRUE, "ok", "cut", "answered")
                   \in AttemptResults(s)
         /\ Result("normal", NoError, FALSE, "ok", "normal", "answered") \in AttemptResults(s)
         /\ s => Result("normal", NoError, FALSE, "ok", "cut", "answered")
                   \in AttemptResults(s)
         /\ ~s => Result("normal", NoError, FALSE, "error", "error", "answered")
                    \in AttemptResults(s)
  BY Zenon DEF AttemptResults, NothingToldResults, FailedBeforeCommit, FailedAfterCommit,
               ClientGone, Answered

LEMMA LeaveForms ==
  ASSUME NEW outcome, NEW err, NEW told, NEW why, Leave(outcome, err, told, why)
  PROVE  /\ EndsAttempt /\ cause' = why
         /\ result'.outcome = outcome /\ result'.err = err /\ result'.committed = told
  BY DEF Leave, EndsAttempt

LEMMA FinishEnds ==
  ASSUME NEW err, NEW why, Finish(err, why)
  PROVE  EndsAttempt /\ (err # NoError => result'.err = err /\ cause' = why)
  BY LeaveForms DEF Finish, FinishOk, FinishError, GiveUp, BreakOff, WriteSuccess

LEMMA TearDownEnds ==
  ASSUME NEW announced, NEW upstreamErr, NEW why, upstreamErr # NoError,
         TearDown(announced, upstreamErr, why)
  PROVE  /\ EndsAttempt
         /\ \/ ctx = "cancelled" /\ ClientLeft /\ cause' = "gone"
            \/ /\ ctx # "cancelled" /\ TeardownError(announced, upstreamErr) # NoError
               /\ Finish(TeardownError(announced, upstreamErr), why)
               /\ result'.err = TeardownError(announced, upstreamErr) /\ cause' = why
  <1>1. CASE ctx = "cancelled"
    BY <1>1, LeaveForms DEF TearDown, ClientLeft
  <1>2. CASE ctx # "cancelled"
    <2>1. TeardownError(announced, upstreamErr) # NoError
      BY ErrorFacts DEF TeardownError
    <2> QED
      BY <1>2, <2>1, FinishEnds DEF TearDown
  <1> QED
    BY <1>1, <1>2

LEMMA ExitEnds ==
  ASSUME Exit
  PROVE  EndsAttempt
  <1>1. NewError("upstream") # NoError
    BY ErrorFacts
  <1> QED
    BY <1>1, FinishEnds, TearDownEnds, LeaveForms
    DEF Exit, ReceiveClosed, Broken, Overflows, WriteFails, LastFrame, TimerFires, ClientLeft

\* The steps of an attempt.
LEMMA Steps ==
  ASSUME Next
  PROVE  \/ UNCHANGED vars \/ ClientCancels \/ BudgetExpires \/ Tick \/ Open \/ Reader
         \/ Receive \/ NoteError \/ Take \/ HoldBack \/ PassOn \/ NextFrame \/ Exit
  BY DEF Next, Bridge, Heartbeat, Finished, Exit

\* What the collected answer looks like after a way out.
LEMMA FinishKeeps ==
  ASSUME NEW err, NEW why, Finish(err, why), Sound(agg), tail \in Seq(UpstreamEvents)
  PROVE  /\ Sound(agg') /\ tail' \in Seq(UpstreamEvents)
         /\ UnsafeToClose(agg') = UnsafeToClose(agg)
         /\ Stops(tail) => Stops(tail')
  <1>1. SayTruncated \/ UNCHANGED <<tail, agg>>
    BY DEF Finish, FinishOk, FinishError, GiveUp, BreakOff, WriteSuccess, Collected
  <1>2. CASE UNCHANGED <<tail, agg>>
    BY <1>2
  <1>3. CASE agg' = Add(agg, MessageDelta("max_tokens"))
             /\ tail' = Append(tail, MessageDelta("max_tokens"))
    <2>1. MessageDelta("max_tokens") \in UpstreamEvents /\ "max_tokens" \in StopReasons
      BY AddedEvents DEF StopReasons
    <2>2. Add(agg, MessageDelta("max_tokens")) = [agg EXCEPT !.stop = "max_tokens"]
      BY DEF Add, MessageDelta
    <2>3. /\ Sound(agg') /\ agg'.order = agg.order /\ agg'.blocks = agg.blocks
          /\ agg'.sawInput = agg.sawInput /\ agg'.closed = agg.closed
      <3> DEFINE b == [agg EXCEPT !.stop = "max_tokens"]
      <3>1. /\ Sound(b) /\ b.order = agg.order /\ b.blocks = agg.blocks
            /\ b.sawInput = agg.sawInput /\ b.closed = agg.closed
        BY <2>1, EndingsSound
      <3>2. agg' = b
        BY <1>3, <2>2
      <3> HIDE DEF b
      <3> QED
        BY <3>1, <3>2
    <2>4. UnsafeToClose(agg') = UnsafeToClose(agg)
      BY <2>3 DEF UnsafeToClose, IncompleteTools, OpenBlocks
    <2>5. tail' \in Seq(UpstreamEvents)
          /\ \A i \in DOMAIN tail : i \in DOMAIN tail' /\ tail'[i] = tail[i]
      BY <1>3, <2>1, AppendParts
    <2> QED
      BY <2>3, <2>4, <2>5 DEF Stops
  <1> QED
    BY <1>1, <1>2, <1>3 DEF SayTruncated, Collected

-----------------------------------------------------------------------------
(* Every way out returns what Serve was written for.                       *)

Told(status, ending) == [status |-> status, ending |-> ending]

LEMMA ToldFacts ==
  /\ \A status \in Statuses, ending \in Endings :
       Told(status, ending) \in [status : Statuses, ending : Endings]
  /\ \A status, ending : Told(status, ending).status = status
                         /\ Told(status, ending).ending = ending
  /\ \A status, ending : Wrote(status, ending) <=> client' = Told(status, ending)
  /\ {"none", "ok", "error"} \subseteq Statuses
  /\ {"none", "normal", "error", "cut"} \subseteq Endings
  BY DEF Told, Wrote, Statuses, Endings

\* The attempt ends with this result, and the client has been told this.
EndsWith(outcome, err, told, status, ending) ==
  /\ result'.outcome = outcome /\ result'.err = err /\ result'.committed = told
  /\ client' = Told(status, ending)

LEMMA EndingFacts ==
  \A outcome, err, told, status, ending :
    EndsWith(outcome, err, told, status, ending) => client'.ending = ending
  BY ToldFacts DEF EndsWith

LEMMA OutcomeForType ==
  ASSUME NEW e
  PROVE  OutcomeFor(e) \in OutcomeSet
  BY DEF OutcomeFor, OutcomeSet

LEMMA EndForms ==
  /\ \A outcome, err, why :
       GiveUp(outcome, err, why) /\ client = Told("none", "none") =>
         EndsWith(outcome, err, FALSE, "none", "none")
  /\ \A err, why, status :
       BreakOff(err, why, status) => EndsWith("abnormal", err, TRUE, status, "error")
  /\ WriteSuccess => \/ EndsWith("normal", NoError, FALSE, "ok", "normal")
                     \/ stream /\ EndsWith("normal", NoError, FALSE, "ok", "cut")
                     \/ ~stream /\ EndsWith("normal", NoError, FALSE, "error", "error")
  BY LeaveForms, ToldFacts DEF GiveUp, BreakOff, WriteSuccess, EndsWith

\* The ends of finish, and of a client that left.
LEMMA FinishForms ==
  ASSUME Types, BeforeTheEnd, Bridging,
         NEW err, NEW why, Finish(err, why)
  PROVE  \/ err = NoError /\ ~committed
              /\ EndsWith("retrying", NewError("upstream"), FALSE, "none", "none")
         \/ err = NoError /\ committed /\ ~stream /\ Unsafe
              /\ EndsWith("retrying", NewError("upstream"), FALSE, "none", "none")
         \/ err = NoError /\ committed /\ stream /\ Unsafe
              /\ EndsWith("abnormal", NewError("upstream"), TRUE, "ok", "error")
         \/ err = NoError /\ committed /\ ~Unsafe
              /\ \/ EndsWith("normal", NoError, FALSE, "ok", "normal")
                 \/ stream /\ EndsWith("normal", NoError, FALSE, "ok", "cut")
                 \/ ~stream /\ EndsWith("normal", NoError, FALSE, "error", "error")
         \/ err # NoError /\ ~committed
              /\ EndsWith(OutcomeFor(err), err, FALSE, "none", "none")
         \/ err # NoError /\ committed
              /\ EndsWith("abnormal", err, TRUE, IF stream THEN "ok" ELSE "error", "error")
  <1>1. ~(stream /\ committed) => client = Told("none", "none")
    BY DEF BeforeTheEnd, Bridging, Told, Types
  <1>2. CASE err = NoError
    <2>1. FinishOk
      BY <1>2 DEF Finish
    <2> QED
      BY <1>1, <1>2, <2>1, EndForms DEF FinishOk, Types
  <1>3. CASE err # NoError
    <2>1. FinishError(err, why)
      BY <1>3 DEF Finish
    <2> QED
      BY <1>1, <1>3, <2>1, EndForms DEF FinishError, Types
  <1> QED
    BY <1>2, <1>3

LEMMA ClientLeftForms ==
  ASSUME Types, BeforeTheEnd, Bridging, ClientLeft
  PROVE  \/ EndsWith("normal", CanceledError, TRUE, "none", "none")
         \/ stream /\ EndsWith("normal", CanceledError, TRUE, "ok", "cut")
  <1>1. client = Told(IF stream /\ committed THEN "ok" ELSE "none", "none")
    BY DEF BeforeTheEnd, Bridging, Told
  <1>2. client.status = IF stream /\ committed THEN "ok" ELSE "none"
    BY <1>1, ToldFacts
  <1> QED
    BY <1>1, <1>2, LeaveForms, ToldFacts DEF ClientLeft, EndsWith

\* What a result is good for, of a stream that was opened.
LEMMA AllowedEnd ==
  ASSUME NEW outcome, NEW err, NEW told, NEW status, NEW ending,
         EndsWith(outcome, err, told, status, ending),
         Result(outcome, err, told, status, ending, "answered") \in AttemptResults(stream),
         stream' = stream, source' # "none", err \in Errors, outcome \in OutcomeSet,
         status \in Statuses, ending \in Endings
  PROVE  /\ ResultAllowed'
         /\ client' \in [status : Statuses, ending : Endings]
         /\ result'.err \in Errors /\ result'.outcome \in OutcomeSet
  <1>1. Fate' = "answered"
    BY DEF Fate
  <1> QED
    BY <1>1, ToldFacts DEF EndsWith, ResultAllowed

LEMMA FinishAllowed ==
  ASSUME Types, BeforeTheEnd, Bridging, source # "none", NEW err, NEW why, Finish(err, why),
         \/ err \in BridgeErrors \cup {NoError}
         \/ err = OverflowError /\ committed
  PROVE  /\ ResultAllowed'
         /\ client' \in [status : Statuses, ending : Endings]
         /\ result'.err \in Errors /\ result'.outcome \in OutcomeSet
  <1>1. stream' = stream /\ stream \in BOOLEAN /\ source' # "none"
    BY FinishEnds DEF EndsAttempt, world, Types
  <1>2. {"normal", "retrying", "abnormal"} \subseteq OutcomeSet
    BY DEF OutcomeSet
  <1>3. /\ NewError("upstream") \in BridgeErrors
        /\ OutcomeFor(NewError("upstream")) = "retrying"
    BY ErrorFacts DEF BridgeErrors
  <1>4. BridgeErrors \cup {NoError, OverflowError} \subseteq Errors
    BY NewErrorsFacts, ErrorFacts DEF BridgeErrors, Errors
  <1>5. CASE EndsWith("retrying", NewError("upstream"), FALSE, "none", "none")
    BY <1>1, <1>2, <1>3, <1>4, <1>5, AllowedForms, AllowedEnd, ToldFacts
  <1>6. CASE stream /\ EndsWith("abnormal", NewError("upstream"), TRUE, "ok", "error")
    BY <1>1, <1>2, <1>3, <1>4, <1>6, AllowedForms, AllowedEnd, ToldFacts
  <1>7. CASE \/ EndsWith("normal", NoError, FALSE, "ok", "normal")
             \/ stream /\ EndsWith("normal", NoError, FALSE, "ok", "cut")
             \/ ~stream /\ EndsWith("normal", NoError, FALSE, "error", "error")
    BY <1>1, <1>2, <1>4, <1>7, AllowedForms, AllowedEnd, ToldFacts
  <1>8. CASE err # NoError /\ ~committed
              /\ EndsWith(OutcomeFor(err), err, FALSE, "none", "none")
    BY <1>1, <1>4, <1>8, OutcomeForType, AllowedForms, AllowedEnd, ToldFacts
  <1>9. CASE err # NoError /\ committed
              /\ EndsWith("abnormal", err, TRUE, IF stream THEN "ok" ELSE "error", "error")
    BY <1>1, <1>2, <1>4, <1>9, AllowedForms, AllowedEnd, ToldFacts
  <1> QED
    BY <1>5, <1>6, <1>7, <1>8, <1>9, FinishForms

LEMMA ClientLeftAllowed ==
  ASSUME Types, BeforeTheEnd, Bridging, source # "none", ClientLeft
  PROVE  /\ ResultAllowed'
         /\ client' \in [status : Statuses, ending : Endings]
         /\ result'.err \in Errors /\ result'.outcome \in OutcomeSet
  <1>1. stream' = stream /\ stream \in BOOLEAN /\ source' # "none"
    BY LeaveForms DEF ClientLeft, EndsAttempt, world, Types
  <1>2. "normal" \in OutcomeSet /\ CanceledError \in Errors
    BY ErrorFacts DEF OutcomeSet, Errors
  <1> QED
    BY <1>1, <1>2, ClientLeftForms, AllowedForms, AllowedEnd, ToldFacts

\* An answer is made only at the end of a stream that is done, without an
\* error, and from what was told to its end.
LEMMA WholeAtTheEnd ==
  ASSUME Types, Places, LastOfAll, BarrenIsEmpty, DoneIsTold, LastFrame, committed
  PROVE  Stops(tail)
  <1>1. hand.done /\ hand.events = <<>> /\ Terminal(hand)
    BY DEF LastFrame, AtEnd, Terminal
  <1>2. out = <<>> /\ reader.pc = "gone" /\ reader.frame = NoFrame
    BY <1>1 DEF LastOfAll, Places
  <1>3. ~Stops(<<>>) /\ NoFrame.events = <<>>
    BY DEF Stops, NoFrame
  <1>4. Terminated
    BY <1>1 DEF DoneIsTold, BarrenIsEmpty
  <1> QED
    BY <1>1, <1>2, <1>3, <1>4 DEF Terminated

LEMMA ExitForms ==
  ASSUME Exit, IInv
  PROVE  /\ Bridging
         /\ \/ ClientLeft /\ cause' = "gone" /\ UNCHANGED notes
            \/ \E err \in BridgeErrors \cup {OverflowError} : \E why :
                 /\ Finish(err, why) /\ err # NoError /\ UNCHANGED notes
                 /\ cause' = why /\ result'.err = err
                 /\ err = OverflowError => committed
                 /\ why \in {"broke", "closed"} =>
                      /\ ctx # "cancelled"
                      /\ ctx = "expired" => err = BudgetError
                      /\ ctx = "live" /\ streamErr # NoError => err = streamErr
                 /\ why = "timer" => left = 0
            \/ LastFrame /\ Finish(streamErr, "in-band")
  <1>1. /\ NewError("upstream") # NoError /\ NewError("timeout") # NoError
        /\ OverflowError # NoError
        /\ {NewError("upstream"), NewError("timeout"), BudgetError} \subseteq BridgeErrors
    BY ErrorFacts DEF BridgeErrors, Kinds
  <1>2. ClientLeft => cause' = "gone"
    BY LeaveForms DEF ClientLeft
  <1>3. CASE WriteFails \/ (Waiting /\ ClientLeft /\ UNCHANGED notes)
    BY <1>2, <1>3 DEF WriteFails, Passing, Waiting, Bridging
  <1>4. CASE ReceiveClosed
    <2> DEFINE e == TeardownError(NoError, NewError("upstream"))
    <2>1. /\ TearDown(NoError, NewError("upstream"), "closed") /\ UNCHANGED notes
          /\ phase = "open" /\ out = <<>> /\ reader.pc = "gone"
      BY <1>4 DEF ReceiveClosed, Waiting
    <2>2. ctx # "live"
      <3>1. ~Terminal(hand) /\ Bridging /\ DOMAIN out = {}
        BY <2>1, FrameFacts DEF IInv, Places, Bridging
      <3> QED
        BY <2>1, <3>1 DEF IInv, GoneForCause
    <2>3. CASE ctx = "cancelled"
      BY <1>1, <1>2, <2>1, <2>3, TearDownEnds DEF Bridging
    <2>4. CASE ctx # "cancelled"
      <3>1. ctx = "expired" /\ e = BudgetError
        BY <2>2, <2>4 DEF IInv, Types, TeardownError
      <3>2. Finish(BudgetError, "closed") /\ result'.err = BudgetError /\ cause' = "closed"
        BY <1>1, <2>1, <2>4, <3>1, TearDownEnds
      <3>3. BudgetError # OverflowError
        BY DEF BudgetError, OverflowError, NewError, Final
      <3> QED
        BY <1>1, <2>1, <2>4, <3>1, <3>2, <3>3, ErrorFacts DEF Bridging
    <2> QED
      BY <2>3, <2>4
  <1>5. CASE Broken
    <2> DEFINE e == TeardownError(streamErr, hand.err)
    <2>1. /\ TearDown(streamErr, hand.err, "broke") /\ UNCHANGED notes
          /\ phase = "frame" /\ hand.err # NoError
      BY <1>5 DEF Broken
    <2>2. CASE ctx = "cancelled"
      BY <1>1, <1>2, <2>1, <2>2, TearDownEnds DEF Bridging
    <2>3. CASE ctx # "cancelled"
      <3>1. Finish(e, "broke") /\ result'.err = e /\ cause' = "broke" /\ e # NoError
        BY <1>1, <2>1, <2>3, TearDownEnds
      <3>2. hand.err = NewError("upstream")
        BY <2>1 DEF IInv, Types, FrameSet
      <3>3. streamErr = NoError \/ streamErr \in BridgeErrors
        BY DEF IInv, Types, Announced, BridgeErrors
      <3>4. e \in BridgeErrors /\ (ctx = "expired" => e = BudgetError)
            /\ (ctx = "live" /\ streamErr # NoError => e = streamErr)
        BY <1>1, <3>2, <3>3 DEF TeardownError
      <3>5. e # OverflowError
        <4>1. e \in NewErrors(UpstreamKinds) \/ e = BudgetError
          BY <3>4 DEF BridgeErrors
        <4>2. BudgetError # OverflowError
          BY DEF BudgetError, OverflowError, NewError, Final
        <4>3. OverflowError \notin NewErrors(UpstreamKinds)
          BY DEF OverflowError, NewErrors, NewError, Final, Retryable
        <4> QED
          BY <4>1, <4>2, <4>3
      <3> HIDE DEF e
      <3> QED
        BY <2>1, <2>3, <3>1, <3>4, <3>5 DEF Bridging
    <2> QED
      BY <2>2, <2>3
  <1>6. CASE Overflows
    <2>1. Finish(OverflowError, "overflow") /\ UNCHANGED notes /\ phase = "event"
      BY <1>6 DEF Overflows
    <2>2. committed
      BY <2>1 DEF IInv, Places
    <2>3. cause' = "overflow" /\ result'.err = OverflowError
      BY <1>1, <2>1, FinishEnds
    <2> QED
      BY <1>1, <2>1, <2>2, <2>3 DEF Bridging
  <1>7. CASE LastFrame
    BY <1>7 DEF LastFrame, AtEnd, Bridging
  <1>8. CASE TimerFires
    <2>1. Finish(NewError("timeout"), "timer") /\ UNCHANGED notes /\ phase = "open" /\ left = 0
      BY <1>8 DEF TimerFires, Waiting
    <2>2. cause' = "timer" /\ result'.err = NewError("timeout")
      BY <1>1, <2>1, FinishEnds
    <2>3. NewError("timeout") # OverflowError
      BY DEF NewError, OverflowError, Final, Retryable
    <2> QED
      BY <1>1, <2>1, <2>2, <2>3 DEF Bridging
  <1> QED
    BY <1>3, <1>4, <1>5, <1>6, <1>7, <1>8 DEF Exit

\* What holds after a way out.
LEMMA ExitSafe ==
  ASSUME Exit, IInv
  PROVE  /\ ResultAllowed' /\ NormalMeansWhole' /\ TeardownNamesItsCause'
         /\ NotesAfterReader'
         /\ client' \in [status : Statuses, ending : Endings]
         /\ result'.err \in Errors /\ result'.outcome \in OutcomeSet
         /\ Sound(agg') /\ tail' \in Seq(UpstreamEvents) /\ (Stops(tail) => Stops(tail'))
  <1>1. /\ Bridging /\ EndsAttempt /\ Sound(agg) /\ Types /\ BeforeTheEnd
        /\ tail \in Seq(UpstreamEvents) /\ source # "none"
    BY ExitForms, ExitEnds DEF IInv, Types, Places
  <1>2. /\ phase' = "done" /\ ctx' = ctx /\ streamErr' = streamErr /\ silent' = silent
        /\ reader' = reader
    BY <1>1 DEF EndsAttempt, world
  <1>3. CASE ClientLeft /\ cause' = "gone" /\ UNCHANGED notes
    <2>1. UNCHANGED <<tail, agg>>
      BY <1>3 DEF ClientLeft, Collected
    <2>2. client'.ending # "normal"
      BY <1>1, <1>3, ClientLeftForms, EndingFacts
    <2>3. NormalMeansWhole' /\ TeardownNamesItsCause'
      BY <1>3, <2>2 DEF NormalMeansWhole, TeardownNamesItsCause
    <2>4. NotesAfterReader'
      BY <1>2, <1>3 DEF IInv, NotesAfterReader
    <2> QED
      BY <1>1, <1>3, <2>1, <2>3, <2>4, ClientLeftAllowed
  <1>4. ASSUME NEW err \in BridgeErrors \cup {OverflowError}, NEW why,
               Finish(err, why), err # NoError, UNCHANGED notes,
               cause' = why, result'.err = err, err = OverflowError => committed,
               why \in {"broke", "closed"} =>
                 /\ ctx # "cancelled"
                 /\ ctx = "expired" => err = BudgetError
                 /\ ctx = "live" /\ streamErr # NoError => err = streamErr,
               why = "timer" => left = 0
        PROVE  /\ ResultAllowed' /\ NormalMeansWhole' /\ TeardownNamesItsCause'
               /\ NotesAfterReader'
               /\ client' \in [status : Statuses, ending : Endings]
               /\ result'.err \in Errors /\ result'.outcome \in OutcomeSet
    <2>1. client'.ending # "normal"
      BY <1>1, <1>4, FinishForms, EndingFacts
    <2>2. silent >= Min2(FirstToken, Idle) \/ left # 0
      <3>1. left \in Nat /\ silent \in Nat /\ Min2(FirstToken, Idle) \in Nat
        BY <1>1, TimeoutAssumption DEF Types, Min2
      <3>2. left + silent >= Min2(FirstToken, Idle)
        BY <1>1 DEF IInv, Clock, Bridging
      <3> QED
        BY <3>1, <3>2
    <2>3. TeardownNamesItsCause'
      BY <1>2, <1>4, <2>2 DEF TeardownNamesItsCause
    <2>4. NormalMeansWhole' /\ NotesAfterReader'
      BY <1>2, <1>4, <2>1 DEF NormalMeansWhole, NotesAfterReader, IInv
    <2> QED
      BY <1>1, <1>4, <2>3, <2>4, FinishAllowed
  <1>5. CASE LastFrame /\ Finish(streamErr, "in-band")
    <2>1. streamErr \in BridgeErrors \cup {NoError}
      BY <1>1 DEF Types, Announced, BridgeErrors
    <2>2. reader.pc = "gone"
      BY <1>5 DEF IInv, LastOfAll, LastFrame, AtEnd, Terminal
    <2>3. NotesAfterReader'
      BY <1>2, <2>2 DEF NotesAfterReader
    <2>4. cause' \notin {"broke", "closed", "timer"}
      <3>1. CASE streamErr # NoError
        BY <1>5, <3>1, FinishEnds
      <3>2. CASE streamErr = NoError
        <4>1. FinishOk
          BY <1>5, <3>2 DEF Finish
        <4> QED
          BY <4>1 DEF FinishOk, GiveUp, BreakOff, WriteSuccess, Leave
      <3> QED
        BY <3>1, <3>2
    <2>5. ASSUME client'.ending = "normal" PROVE NormalMeansWhole'
      <3>1. streamErr = NoError /\ committed /\ UnsafeToClose(agg) = {}
        BY <1>1, <1>5, <2>5, FinishForms, EndingFacts DEF Unsafe
      <3>2. Stops(tail)
        BY <1>5, <3>1, WholeAtTheEnd DEF IInv
      <3>3. Stops(tail') /\ UnsafeToClose(agg') = {} /\ tail' \in Seq(UpstreamEvents)
        BY <1>1, <1>5, <3>1, <3>2, FinishKeeps
      <3> QED
        BY <1>2, <3>1, <3>3 DEF NormalMeansWhole, Contains, Stops
    <2>6. client'.ending # "normal" => NormalMeansWhole'
      BY DEF NormalMeansWhole
    <2>7. TeardownNamesItsCause'
      BY <2>4 DEF TeardownNamesItsCause
    <2>8. NormalMeansWhole'
      BY <2>5, <2>6, Zenon
    <2>9. /\ ResultAllowed' /\ client' \in [status : Statuses, ending : Endings]
          /\ result'.err \in Errors /\ result'.outcome \in OutcomeSet
      BY <1>1, <1>5, <2>1, FinishAllowed
    <2>10. Sound(agg') /\ tail' \in Seq(UpstreamEvents) /\ (Stops(tail) => Stops(tail'))
      BY <1>1, <1>5, FinishKeeps
    <2> QED
      BY <2>3, <2>7, <2>8, <2>9, <2>10
  <1>6. /\ ResultAllowed' /\ NormalMeansWhole' /\ TeardownNamesItsCause'
        /\ NotesAfterReader'
        /\ client' \in [status : Statuses, ending : Endings]
        /\ result'.err \in Errors /\ result'.outcome \in OutcomeSet
    BY <1>3, <1>4, <1>5, ExitForms
  <1>7. Sound(agg') /\ tail' \in Seq(UpstreamEvents) /\ (Stops(tail) => Stops(tail'))
    BY <1>1, FinishKeeps, ExitForms DEF ClientLeft, Collected
  <1> QED
    BY <1>6, <1>7

-----------------------------------------------------------------------------
(* The steps of the opener and of the reader.                              *)

\* The errors open fails with, and what became of the request.
FailsAs(err, why) ==
  \/ why \in {"target", "do", "aborted"} /\ ~wroteRequest /\ err \in UnsentErrors
  \/ why \in {"do", "aborted"} /\ wroteRequest /\ err \in UnansweredErrors
  \/ why \in {"redirect", "status"} /\ err \in RefusedErrors
  \/ why = "body" /\ err \in BridgeErrors

LEMMA OpenForms ==
  ASSUME Open, wroteRequest \in BOOLEAN
  PROVE  /\ phase = "opening"
         /\ \/ WroteRequest
            \/ \E src \in {"sse", "empty", "whole"} : Opened2xx(src)
            \/ \E err, why : FailsAs(err, why) /\ OpenFails(err, why)
  <1>1. phase = "opening"
    BY DEF Open, BadTarget, WroteRequest, Redirected, DoFails, DoAborted, Refused,
           OpenStream, OpenEmpty, OpenWhole, WholeUndecodable, Opening
  <1>2. \A kind \in UpstreamKinds : NewError(kind) \in RefusedErrors
    BY ErrorFacts DEF RefusedErrors
  <1>3. NewError("upstream") \in RefusedErrors /\ NewError("upstream") \in BridgeErrors
    BY <1>2, ErrorFacts DEF BridgeErrors
  <1>4. \A why \in {"do", "aborted"} :
        \A e \in {BudgetError, NewError("upstream"), NewError("transport")} :
          FailsAs(WithRisk(e, wroteRequest), why)
    <2>1. TAKE why \in {"do", "aborted"}
    <2>2. TAKE e \in {BudgetError, NewError("upstream"), NewError("transport")}
    <2>3. e \in Error /\ e.risk = FALSE
      <3>1. e \in Error
        BY ErrorFacts DEF Kinds
      <3>2. \A kind : NewError(kind).risk = FALSE
        BY DEF NewError
      <3>3. BudgetError.risk = FALSE
        BY DEF BudgetError, Final, NewError
      <3> QED
        BY <3>1, <3>2, <3>3
    <2>4. CASE wroteRequest = TRUE
      <3>1. WithRisk(e, TRUE) \in UnansweredErrors
        BY DEF UnansweredErrors, NewErrors
      <3> QED
        BY <2>4, <3>1 DEF FailsAs
    <2>5. CASE wroteRequest = FALSE
      <3>1. WithRisk(e, FALSE) = e
        BY <2>3 DEF WithRisk, Error
      <3>2. e \in UnsentErrors
        BY DEF UnsentErrors, NewErrors
      <3> QED
        BY <2>5, <3>1, <3>2 DEF FailsAs
    <2> QED
      BY <2>4, <2>5
  <1>5. CASE BadTarget
    <2>1. ~wroteRequest /\ \E err \in NewErrors({"upstream", "internal"}) : OpenFails(err, "target")
      BY <1>5 DEF BadTarget
    <2>2. NewErrors({"upstream", "internal"}) \subseteq UnsentErrors
      BY DEF UnsentErrors, NewErrors
    <2> QED
      BY <1>1, <2>1, <2>2 DEF FailsAs
  <1>6. CASE Redirected \/ WholeUndecodable
    <2>1. \/ OpenFails(NewError("upstream"), "redirect")
          \/ OpenFails(NewError("upstream"), "body")
      BY <1>6 DEF Redirected, WholeUndecodable
    <2>2. FailsAs(NewError("upstream"), "redirect") /\ FailsAs(NewError("upstream"), "body")
      BY <1>3 DEF FailsAs
    <2> QED
      BY <1>1, <2>1, <2>2
  <1>7. CASE DoFails
    <2>1. \E e \in {BudgetError, NewError("upstream"), NewError("transport")} :
            OpenFails(WithRisk(e, wroteRequest), "do")
      BY <1>7 DEF DoFails
    <2> QED
      BY <1>1, <1>4, <2>1
  <1>8. CASE DoAborted
    <2>1. \E e \in {BudgetError, NewError("upstream")} :
            OpenFails(WithRisk(e, wroteRequest), "aborted")
      BY <1>8 DEF DoAborted
    <2> QED
      BY <1>1, <1>4, <2>1
  <1>9. CASE Refused
    <2>1. \E kind \in UpstreamKinds : OpenFails(NewError(kind), "status")
      BY <1>9, SpokenAssumption, ErrorFacts DEF Refused
    <2>2. \A kind \in UpstreamKinds : FailsAs(NewError(kind), "status")
      BY <1>2 DEF FailsAs
    <2> QED
      BY <1>1, <2>1, <2>2
  <1>10. CASE WroteRequest \/ OpenStream \/ OpenEmpty \/ OpenWhole
    BY <1>1, <1>10 DEF OpenStream, OpenEmpty, OpenWhole
  <1> QED
    BY <1>5, <1>6, <1>7, <1>8, <1>9, <1>10 DEF Open

LEMMA OpenFailsFacts ==
  ASSUME NEW err, NEW why, FailsAs(err, why), OpenFails(err, why),
         stream \in BOOLEAN, wroteRequest \in BOOLEAN, source = "none", client = Untouched
  PROVE  /\ ResultAllowed' /\ result'.err \in Errors /\ result'.outcome \in OutcomeSet
         /\ client'.ending # "normal"
  <1>1. /\ result'.outcome = OutcomeFor(err) /\ result'.err = err
        /\ result'.committed = FALSE /\ cause' = why
        /\ client' = client /\ stream' = stream /\ source' = "none"
        /\ wroteRequest' = wroteRequest
    BY DEF OpenFails, world
  <1>2. err \in Errors
    <2>1. UnsentErrors \cup UnansweredErrors \cup RefusedErrors \cup BridgeErrors \subseteq Error
      <3>1. /\ NewErrors({"upstream", "transport", "internal"}) \subseteq Error
            /\ NewErrors(UpstreamKinds) \subseteq Error
            /\ NewErrors({"upstream", "transport"}) \subseteq Error
            /\ BudgetError \in Error
        BY ErrorFacts, NewErrorsFacts DEF Kinds, UpstreamKinds
      <3>2. \A e \in Error : WithRisk(e, TRUE) \in Error
        BY DEF WithRisk, Error
      <3> QED
        BY <3>1, <3>2 DEF UnsentErrors, UnansweredErrors, RefusedErrors, BridgeErrors
    <2> QED
      BY <2>1 DEF Errors, FailsAs
  <1>3. client'.status = "none" /\ client'.ending = "none"
    BY <1>1 DEF Untouched
  <1>4. Result(OutcomeFor(err), err, FALSE, "none", "none", Fate') \in AttemptResults(stream)
    <2>1. CASE why \in {"target", "do", "aborted"} /\ ~wroteRequest /\ err \in UnsentErrors
      <3>1. Fate' = "unsent"
        BY <1>1, <2>1 DEF Fate
      <3> QED
        BY <2>1, <3>1, AllowedForms
    <2>2. CASE why \in {"do", "aborted"} /\ wroteRequest /\ err \in UnansweredErrors
      <3>1. Fate' = "unanswered"
        BY <1>1, <2>2 DEF Fate
      <3> QED
        BY <2>2, <3>1, AllowedForms
    <2>3. CASE why \in {"redirect", "status"} /\ err \in RefusedErrors
      <3>1. Fate' = "refused"
        BY <1>1, <2>3 DEF Fate
      <3> QED
        BY <2>3, <3>1, AllowedForms
    <2>4. CASE why = "body" /\ err \in BridgeErrors
      <3>1. Fate' = "answered"
        BY <1>1, <2>4 DEF Fate
      <3> QED
        BY <2>4, <3>1, AllowedForms
    <2> QED
      BY <2>1, <2>2, <2>3, <2>4 DEF FailsAs
  <1> QED
    BY <1>1, <1>2, <1>3, <1>4, OutcomeForType DEF ResultAllowed

LEMMA OfferFacts ==
  ASSUME NEW frame \in FrameSet, Offer(frame), reader \in Readers
  PROVE  /\ reader' \in Readers /\ reader'.pc = "send" /\ reader'.frame = frame
         /\ reader'.open = reader.open /\ reader'.sent = reader.sent
         /\ reader'.produced = reader.produced /\ reader'.stopped = reader.stopped
  BY DEF Offer, Readers

\* The reader has a frame to send.
Offers(frame) ==
  /\ reader.pc = "scan" /\ reader'.pc = "send" /\ reader'.frame = frame
  /\ out' = out /\ reader'.produced = reader.produced /\ reader'.stopped = reader.stopped

LEMMA ReaderForms ==
  ASSUME Reader, reader \in Readers, IsFiniteSet(reader.open), MaxFrames \in Nat
  PROVE  /\ ReaderOnly
         /\ reader' \in Readers /\ IsFiniteSet(reader'.open)
         /\ \/ \E events \in Seq(UpstreamEvents) :
                 /\ Offers(DoneFrame(events))
                 /\ \/ source = "empty" /\ events = <<>>
                    \/ source = "whole" /\ Stops(events)
                    \/ source = "sse" /\ reader.produced = FALSE /\ events = <<>>
                    \/ /\ source = "sse" /\ reader.produced = TRUE
                       /\ reader.stopped = FALSE => Stops(events)
            \/ Offers(ErrorFrame(NewError("upstream")))
            \/ \E events \in Seq(UpstreamEvents) :
                 /\ source = "sse" /\ reader.pc = "scan" /\ out' = out
                 /\ reader'.pc = "send" /\ reader'.frame = EventFrame(events)
                 /\ reader'.produced = TRUE
                 /\ reader'.stopped => reader.stopped \/ Stops(events)
            \/ /\ Send /\ reader'.frame = NoFrame /\ reader'.produced = reader.produced
               /\ reader'.stopped = reader.stopped
               /\ reader'.pc = IF Terminal(reader.frame) THEN "gone" ELSE "scan"
            \/ /\ SendAborted /\ reader'.frame = NoFrame /\ reader'.produced = reader.produced
               /\ reader'.stopped = reader.stopped /\ reader'.pc = "gone"
  <1>1. CASE OfferWhole
    <2>1. PICK events \in IF source = "whole" THEN Replies ELSE {<<>>} : Offer(DoneFrame(events))
      BY <1>1 DEF OfferWhole
    <2>2. events \in Seq(UpstreamEvents)
      BY <2>1, RepliesAssumption, EmptySeq
    <2>3. source = "whole" => Stops(events)
      BY <2>1, RepliesAssumption DEF Stops
    <2>4. source # "whole" => source = "empty" /\ events = <<>>
      BY <1>1, <2>1 DEF OfferWhole
    <2>5. DoneFrame(events) \in FrameSet
      BY <2>2, FrameFacts
    <2>6. /\ reader' \in Readers /\ IsFiniteSet(reader'.open) /\ ReaderOnly
          /\ Offers(DoneFrame(events))
      BY <1>1, <2>1, <2>5, OfferFacts DEF OfferWhole, Offers, Reading
    <2> QED
      BY <2>2, <2>3, <2>4, <2>6
  <1>2. CASE Feed
    <2>1. PICK events \in Frames :
            reader' = [reader EXCEPT !.pc = "send", !.frame = EventFrame(events),
                       !.sent = @ + 1, !.produced = TRUE,
                       !.stopped = @ \/ Said("message_stop", events),
                       !.open = (@ \cup Indexed("block_start", events))
                                  \ Indexed("block_stop", events),
                       !.used = @ \cup Touched(events)]
      BY <1>2 DEF Feed
    <2>2. events \in Seq(UpstreamEvents) /\ EventFrame(events) \in FrameSet
      BY <2>1, FramesAssumption, FrameFacts
    <2> DEFINE opened == (reader.open \cup Indexed("block_start", events))
                            \ Indexed("block_stop", events)
    <2>3. opened \subseteq Indexes /\ IsFiniteSet(opened)
      <3>1. /\ Indexed("block_start", events) \subseteq Indexes
            /\ IsFiniteSet(Indexed("block_start", events)) /\ reader.open \subseteq Indexes
        BY <2>2, IndexedFacts DEF Readers
      <3>2. IsFiniteSet(reader.open \cup Indexed("block_start", events))
        BY <3>1, FS_Union
      <3> QED
        BY <3>1, <3>2, FS_Subset
    <2>4. Touched(events) \subseteq Indexes
      BY <2>2, TouchedFacts
    <2>5. Said("message_stop", events) \in BOOLEAN
          /\ (Said("message_stop", events) => Stops(events))
      <3>1. \A i \in DOMAIN events : events[i] \in UpstreamEvents
        BY <2>2
      <3> QED
        BY <3>1, EventFacts DEF Said, Stops
    <2>6. reader.sent + 1 \in 0..MaxFrames
      BY <1>2 DEF Feed, Readers
    <2> DEFINE stopped == reader.stopped \/ Said("message_stop", events)
               used == reader.used \cup Touched(events)
    <2>7. stopped \in BOOLEAN /\ used \subseteq Indexes
      BY <2>4 DEF Readers
    <2>8. reader' = [reader EXCEPT !.pc = "send", !.frame = EventFrame(events),
                       !.sent = reader.sent + 1, !.produced = TRUE,
                       !.stopped = stopped, !.open = opened, !.used = used]
      BY <2>1 DEF Readers
    <2> HIDE DEF opened, stopped, used
    <2>9. /\ reader' \in Readers /\ reader'.open = opened
          /\ reader'.pc = "send" /\ reader'.frame = EventFrame(events)
          /\ reader'.produced = TRUE /\ reader'.stopped = stopped
      BY <2>2, <2>3, <2>6, <2>7, <2>8 DEF Readers
    <2> QED
      BY <1>2, <2>2, <2>3, <2>5, <2>9 DEF Feed, Reading, stopped
  <1>3. CASE ReadBroke
    <2>1. ErrorFrame(NewError("upstream")) \in FrameSet
      BY FrameFacts
    <2> QED
      BY <1>3, <2>1, OfferFacts DEF ReadBroke, Offers, Reading
  <1>4. CASE ReadEOF
    <2> DEFINE events == IF reader.produced THEN FinishEvents ELSE <<>>
    <2>1. events \in Seq(UpstreamEvents)
      BY FinishFacts, EmptySeq
    <2>2. /\ reader.produced = FALSE => events = <<>>
          /\ reader.produced = TRUE => (reader.stopped = FALSE => Stops(events))
      BY FinishFacts
    <2>3. reader.produced \in BOOLEAN
      BY DEF Readers
    <2>4. /\ source = "sse" /\ ReaderOnly /\ out' = out /\ reader.pc = "scan"
          /\ Offer(DoneFrame(events))
      BY <1>4 DEF ReadEOF, Reading
    <2> HIDE DEF events
    <2>5. DoneFrame(events) \in FrameSet
      BY <2>1, FrameFacts
    <2>6. /\ reader' \in Readers /\ IsFiniteSet(reader'.open)
          /\ Offers(DoneFrame(events))
      BY <2>4, <2>5, OfferFacts DEF Offers
    <2> QED
      BY <2>1, <2>2, <2>3, <2>4, <2>6
  <1>5. CASE Send
    BY <1>5, FrameFacts DEF Send, Readers
  <1>6. CASE SendAborted
    BY <1>6, FrameFacts DEF SendAborted, Readers
  <1> QED
    BY <1>1, <1>2, <1>3, <1>4, <1>5, <1>6 DEF Reader

-----------------------------------------------------------------------------
(* Every step keeps the invariant, conjunct by conjunct.                   *)

LEMMA InitInv == Init => IInv
  <1> SUFFICES ASSUME Init PROVE IInv
    OBVIOUS
  <1>1. Sound(agg)
    BY EmptySound DEF Init
  <1>2. /\ reader.pc = "idle" /\ reader.frame = NoFrame /\ reader.stopped = FALSE
        /\ reader.produced = FALSE /\ reader.open = {} /\ hand = NoFrame /\ out = <<>>
        /\ reader = [pc |-> "idle", frame |-> NoFrame, sent |-> 0, produced |-> FALSE,
                      stopped |-> FALSE, open |-> {}, used |-> {}]
        /\ tail = <<>> /\ left = FirstToken /\ silent = 0
        /\ phase = "opening" /\ source = "none" /\ committed = FALSE
        /\ client = [status |-> "none", ending |-> "none"]
    BY DEF Init, Untouched
  <1>8. DOMAIN out = {}
    BY <1>2
  <1>3. Types
    <2>1. reader \in Readers /\ IsFiniteSet(reader.open)
      BY <1>2, FrameFacts, FS_EmptySet, ChanAssumption DEF Readers
    <2>2. out \in Seq(FrameSet) /\ Len(out) <= ChanCap /\ tail \in Seq(UpstreamEvents)
      BY <1>2, EmptySeq, ChanAssumption
    <2>3. client \in [status : Statuses, ending : Endings]
      BY <1>2 DEF Statuses, Endings
    <2>4. result.err \in Errors /\ result.outcome = ""
      BY DEF Init, NoResult, Errors
    <2>5. left \in Nat /\ silent \in Nat
      BY <1>2, TimeoutAssumption
    <2> QED
      BY <2>1, <2>2, <2>3, <2>4, <2>5, FrameFacts, AnnouncedFacts DEF Init, Types
  <1>4. BeforeTheEnd /\ Places /\ LastOfAll /\ GoneForCause
    BY <1>2, <1>8, FrameFacts
    DEF BeforeTheEnd, Places, LastOfAll, GoneForCause, Bridging
  <1>5. Clock
    BY <1>2, TimeoutAssumption DEF Clock, Min2
  <1>6. BarrenIsEmpty /\ DoneIsTold
    BY <1>2, <1>8, FrameFacts DEF BarrenIsEmpty, DoneIsTold, Barren
  <1>7. ResultAllowed /\ NormalMeansWhole /\ TeardownNamesItsCause /\ NotesAfterReader
    BY DEF Init, ResultAllowed, NormalMeansWhole, TeardownNamesItsCause, NotesAfterReader,
           Untouched
  <1> QED
    BY <1>1, <1>3, <1>4, <1>5, <1>6, <1>7 DEF IInv

LEMMA TypesStep ==
  ASSUME IInv, Next
  PROVE  Types' /\ Sound(agg)'
  <1> USE DEF IInv
  <1>1. CASE UNCHANGED vars
    BY <1>1 DEF Types, vars, world, locals, seen
  <1>2. CASE ClientCancels \/ BudgetExpires
    BY <1>2 DEF ClientCancels, BudgetExpires, Types, world, locals, seen
  <1>3. CASE Tick
    <2>1. left' \in Nat /\ silent' \in Nat
      <3>1. /\ left \in Nat /\ silent \in Nat /\ left > 0 /\ left' = left - 1
            /\ silent' = Min2(silent + 1, FirstToken + Idle)
        BY <1>3 DEF Tick, Types
      <3> QED
        BY <3>1, TimeoutAssumption DEF Min2
    <2> QED
      BY <1>3, <2>1 DEF Tick, Types, world
  <1>4. CASE Open
    <2>1. wroteRequest \in BOOLEAN /\ stream \in BOOLEAN /\ reader \in Readers
      BY DEF Types
    <2>2. CASE WroteRequest
      BY <2>2 DEF WroteRequest, Types, locals, seen
    <2>3. CASE \E src \in {"sse", "empty", "whole"} : Opened2xx(src)
      <3>1. reader' \in Readers /\ reader'.open = reader.open
        BY <2>1, <2>3 DEF Opened2xx, Readers
      <3> QED
        BY <2>3, <3>1 DEF Opened2xx, Types, locals, seen
    <2>4. ASSUME NEW err, NEW why, FailsAs(err, why), OpenFails(err, why)
          PROVE  Types' /\ Sound(agg)'
      <3>1. client = Untouched /\ source = "none"
        <4>1. phase = "opening" /\ ~committed /\ source = "none"
          BY <1>4, <2>1, OpenForms DEF Places
        <4> QED
          BY <4>1 DEF BeforeTheEnd, Untouched
      <3>2. result'.err \in Errors /\ result'.outcome \in OutcomeSet
        BY <2>1, <2>4, <3>1, OpenFailsFacts
      <3> QED
        BY <2>4, <3>2 DEF OpenFails, Types, world, locals
    <2> QED
      BY <1>4, <2>1, <2>2, <2>3, <2>4, OpenForms
  <1>5. CASE Reader
    <2>1. /\ ReaderOnly /\ reader' \in Readers /\ IsFiniteSet(reader'.open)
      BY <1>5, ReaderForms, ChanAssumption DEF Types
    <2>2. out' = out \/ Send
      BY <1>5 DEF Reader, OfferWhole, Feed, ReadBroke, ReadEOF, SendAborted
    <2>3. Send => Len(out) < ChanCap /\ out' = Append(out, reader.frame)
      BY DEF Send
    <2>4. out' \in Seq(FrameSet) /\ Len(out') <= ChanCap
      <3>1. reader.frame \in FrameSet /\ out \in Seq(FrameSet) /\ Len(out) <= ChanCap
        BY DEF Types, Readers
      <3> QED
        BY <2>2, <2>3, <3>1, ChanAssumption
    <2> QED
      BY <2>1, <2>4 DEF ReaderOnly, Types, world, locals
  <1>6. CASE Receive
    <2>1. out \in Seq(FrameSet) /\ out # <<>> /\ out' = Tail(out) /\ hand' = Head(out)
      BY <1>6 DEF Receive, Types
    <2>2. out' \in Seq(FrameSet) /\ Len(out') <= ChanCap /\ hand' \in FrameSet
      <3>1. /\ Tail(out) \in Seq(FrameSet) /\ Len(Tail(out)) = Len(out) - 1
            /\ Head(out) \in FrameSet /\ Len(out) \in Nat
        BY <2>1, TailParts
      <3>2. Len(out) <= ChanCap
        BY DEF Types
      <3> QED
        BY <2>1, <3>1, <3>2, ChanAssumption
    <2>3. left' \in Nat /\ silent' \in Nat
      BY <1>6, TimeoutAssumption DEF Receive, Timeout
    <2> QED
      BY <1>6, <2>2, <2>3 DEF Receive, Types, world
  <1>7. CASE NoteError
    <2>1. hand' \in FrameSet
      BY <1>7, RestFacts DEF NoteError, AtEvent, Types
    <2>2. streamErr' \in Announced
      BY <1>7, RestFacts, EventFacts DEF NoteError, AtEvent, Types, Announced
    <2> QED
      BY <1>7, <2>1, <2>2 DEF NoteError, Types, world, seen
  <1>8. CASE Take
    <2>1. Event \in Events
      BY <1>8, RestFacts, EventFacts DEF Take, AtEvent, Types
    <2>2. Sound(agg')
      BY <1>8, <2>1, AddSound DEF Take
    <2>3. client' \in [status : Statuses, ending : Endings]
      <3>1. client' = client \/ client' = Told("ok", "none")
        BY <1>8, ToldFacts DEF Take
      <3>2. Told("ok", "none") \in [status : Statuses, ending : Endings]
        BY ToldFacts
      <3>3. client \in [status : Statuses, ending : Endings]
        BY DEF Types
      <3> QED
        BY <3>1, <3>2, <3>3
    <2> QED
      BY <1>8, <2>2, <2>3 DEF Take, Types, world, seen
  <1>9. CASE HoldBack \/ PassOn
    <2>1. hand.events # <<>> /\ hand \in FrameSet
      BY <1>9 DEF HoldBack, PassOn, Passing, Places, Types
    <2>2. hand' \in FrameSet /\ Event \in UpstreamEvents
      BY <1>9, <2>1, RestFacts DEF HoldBack, PassOn, NextEvent
    <2>3. tail' \in Seq(UpstreamEvents)
      <3>1. tail' = tail \/ tail' = Append(tail, Event)
        BY <1>9 DEF HoldBack, PassOn
      <3>2. tail \in Seq(UpstreamEvents)
        BY DEF Types
      <3> QED
        BY <2>2, <3>1, <3>2
    <2> QED
      BY <1>9, <2>2, <2>3 DEF HoldBack, PassOn, NextEvent, Types, world, seen
  <1>10. CASE NextFrame
    BY <1>10, FrameFacts DEF NextFrame, Types, world, seen
  <1>11. CASE Exit
    BY <1>11, ExitEnds, ExitSafe DEF EndsAttempt, Types, world
  <1> QED
    BY <1>1, <1>2, <1>3, <1>4, <1>5, <1>6, <1>7, <1>8, <1>9, <1>10, <1>11, Steps

LEMMA PlacesStep ==
  ASSUME IInv, Next
  PROVE  BeforeTheEnd' /\ Places'
  <1>1. /\ BeforeTheEnd /\ Places /\ wroteRequest \in BOOLEAN /\ reader \in Readers
        /\ hand \in FrameSet
    BY DEF IInv, Types
  <1>2. CASE UNCHANGED vars
    BY <1>1, <1>2 DEF BeforeTheEnd, Places, Bridging, vars, world, locals
  <1>3. CASE ClientCancels \/ BudgetExpires \/ Tick
    BY <1>1, <1>3 DEF ClientCancels, BudgetExpires, Tick, BeforeTheEnd, Places, Bridging, world, locals
  <1>4. CASE Open
    <2>1. phase = "opening" /\ source = "none" /\ out = <<>> /\ ~committed /\ hand = NoFrame
          /\ reader.pc = "idle" /\ reader.frame = NoFrame
      BY <1>1, <1>4, OpenForms DEF Places
    <2>2. CASE WroteRequest
      BY <1>1, <2>2 DEF WroteRequest, BeforeTheEnd, Places, Bridging, locals
    <2>3. CASE \E src \in {"sse", "empty", "whole"} : Opened2xx(src)
      <3>1. reader'.pc = "scan" /\ reader'.frame = NoFrame
        BY <1>1, <2>1, <2>3 DEF Opened2xx, Readers
      <3>2. /\ phase' = "open" /\ source' # "none" /\ hand' = hand /\ committed' = committed
            /\ client' = client /\ stream' = stream
        BY <2>3 DEF Opened2xx, locals
      <3> QED
        BY <1>1, <2>1, <3>1, <3>2 DEF BeforeTheEnd, Places, Bridging
    <2>4. ASSUME NEW err, NEW why, OpenFails(err, why)
          PROVE  BeforeTheEnd' /\ Places'
      BY <1>1, <2>1, <2>4 DEF OpenFails, BeforeTheEnd, Places, Bridging, world, locals
    <2> QED
      BY <1>1, <1>4, <2>2, <2>3, <2>4, OpenForms
  <1>5. CASE Reader
    <2>1. /\ ReaderOnly /\ reader.pc \in {"scan", "send"} /\ reader'.pc # "idle"
          /\ reader'.pc # "send" => reader'.frame = NoFrame
      BY <1>5, ReaderForms, ChanAssumption DEF IInv, Types, Offers, Send, SendAborted
    <2> QED
      BY <1>1, <2>1 DEF ReaderOnly, BeforeTheEnd, Places, Bridging, world, locals
  <1>6. CASE Receive
    <2>1. /\ phase = "open" /\ phase' = "frame" /\ out # <<>>
          /\ UNCHANGED <<world, reader, committed, client>>
      BY <1>6 DEF Receive, Waiting
    <2> QED
      BY <1>1, <2>1 DEF BeforeTheEnd, Places, Bridging, world
  <1>7. CASE NoteError
    BY <1>1, <1>7 DEF NoteError, AtEvent, BeforeTheEnd, Places, Bridging, world
  <1>8. CASE Take
    <2>1. /\ phase = "frame" /\ phase' = "event" /\ committed' = TRUE
          /\ hand.err = NoError /\ hand.events # <<>>
          /\ UNCHANGED <<world, reader, out, hand>>
      BY <1>8 DEF Take, AtEvent
    <2>2. client = Told(IF stream /\ committed THEN "ok" ELSE "none", "none")
      BY <1>1, <2>1 DEF BeforeTheEnd, Told
    <2>3. client' = Told(IF stream THEN "ok" ELSE "none", "none")
      BY <1>8, <2>2, ToldFacts DEF Take
    <2>4. source # "none"
      BY <1>1, <2>1 DEF Places, Bridging
    <2> QED
      BY <1>1, <2>1, <2>3, <2>4 DEF BeforeTheEnd, Places, Bridging, Told, world
  <1>9. CASE HoldBack \/ PassOn
    BY <1>1, <1>9 DEF HoldBack, PassOn, Passing, NextEvent, BeforeTheEnd, Places, Bridging, world
  <1>10. CASE NextFrame
    BY <1>1, <1>10 DEF NextFrame, AtEnd, BeforeTheEnd, Places, Bridging, world
  <1>11. CASE Exit
    BY <1>1, <1>11, ExitEnds DEF EndsAttempt, BeforeTheEnd, Places, Bridging, world
  <1> QED
    BY <1>2, <1>3, <1>4, <1>5, <1>6, <1>7, <1>8, <1>9, <1>10, <1>11, Steps

\* The steps that touch neither the reader, the frames on their way, nor
\* what they were made of.
Quiet ==
  /\ UNCHANGED <<reader, out, hand, tail, committed, source>>
  /\ phase' = phase /\ (ctx # "live" => ctx' = ctx) /\ ctx' \in {ctx, "cancelled", "expired"}

LEMMA QuietSteps ==
  UNCHANGED vars \/ ClientCancels \/ BudgetExpires \/ Tick \/ WroteRequest => Quiet
  BY DEF Quiet, vars, world, locals, ClientCancels, BudgetExpires, Tick, WroteRequest

LEMMA ClockStep ==
  ASSUME IInv, Next
  PROVE  Clock'
  <1>1. /\ Clock /\ left \in Nat /\ silent \in Nat
        /\ Min2(FirstToken, Idle) \in Nat /\ Min2(FirstToken, Idle) <= FirstToken
        /\ Min2(FirstToken, Idle) <= Idle
    <2>1. Clock /\ left \in Nat /\ silent \in Nat
      BY DEF IInv, Types
    <2>2. FirstToken \in Nat /\ Idle \in Nat
      BY TimeoutAssumption
    <2> QED
      BY <2>1, <2>2 DEF Min2
  <1>2. CASE Tick
    <2>1. /\ left' = left - 1 /\ silent' = Min2(silent + 1, FirstToken + Idle)
          /\ phase # "done"
      BY <1>2 DEF Tick, Bridging
    <2>2. silent' = silent + 1 \/ silent' = FirstToken + Idle
      BY <2>1 DEF Min2
    <2>3. left + silent >= Min2(FirstToken, Idle) /\ left > 0
      BY <1>1, <1>2, <2>1 DEF Clock, Tick
    <2>4. left' + silent' >= Min2(FirstToken, Idle)
      BY <1>1, <2>1, <2>2, <2>3, TimeoutAssumption
    <2> QED
      BY <2>4 DEF Clock
  <1>3. CASE Receive
    <2>1. left' = Timeout /\ silent' = 0
      BY <1>3 DEF Receive
    <2>2. left' + silent' >= Min2(FirstToken, Idle)
      BY <1>1, <2>1, TimeoutAssumption DEF Timeout
    <2> QED
      BY <2>2 DEF Clock
  <1>4. CASE Open
    <2>1. phase = "opening" /\ left' = left /\ silent' = silent
      BY <1>4, OpenForms DEF IInv, Types, WroteRequest, Opened2xx, OpenFails, locals, seen
    <2> QED
      BY <1>1, <2>1 DEF Clock
  <1>5. CASE UNCHANGED vars \/ ClientCancels \/ BudgetExpires
    BY <1>1, <1>5 DEF Clock, vars, locals, seen, ClientCancels, BudgetExpires
  <1>6. CASE Reader
    <2>1. ReaderOnly
      BY <1>6, ReaderForms, ChanAssumption DEF IInv, Types
    <2> QED
      BY <1>1, <2>1 DEF Clock, ReaderOnly, locals
  <1>7. CASE NoteError \/ Take \/ HoldBack \/ PassOn \/ NextFrame
    BY <1>1, <1>7
    DEF Clock, NoteError, Take, HoldBack, PassOn, NextEvent, NextFrame, AtEvent, Passing,
        AtEnd, seen
  <1>8. CASE Exit
    BY <1>8, ExitEnds DEF EndsAttempt, Clock
  <1> QED
    BY <1>2, <1>3, <1>4, <1>5, <1>6, <1>7, <1>8, Steps

LEMMA LastStep ==
  ASSUME IInv, Next
  PROVE  LastOfAll' /\ GoneForCause'
  <1>1. /\ LastOfAll /\ GoneForCause /\ Places /\ reader \in Readers /\ out \in Seq(FrameSet)
        /\ hand \in FrameSet /\ reader.frame \in FrameSet
        /\ ctx \in {"live", "cancelled", "expired"}
    BY DEF IInv, Types, Readers
  <1>2. CASE Quiet
    BY <1>1, <1>2 DEF Quiet, LastOfAll, GoneForCause, Bridging
  <1>3. CASE Open
    <2>1. CASE WroteRequest
      BY <1>2, <2>1, QuietSteps
    <2>2. CASE \E src \in {"sse", "empty", "whole"} : Opened2xx(src)
      <3>1. reader'.pc = "scan" /\ out' = out /\ hand' = hand
        BY <1>1, <2>2 DEF Opened2xx, Readers, locals
      <3>2. out = <<>> /\ hand = NoFrame
        BY <1>1, <1>3, OpenForms DEF IInv, Types, Places
      <3>3. DOMAIN out = {} /\ ~Terminal(hand)
        BY <3>2, FrameFacts
      <3> QED
        BY <3>1, <3>3 DEF LastOfAll, GoneForCause
    <2>3. ASSUME NEW err, NEW why, OpenFails(err, why)
          PROVE  LastOfAll' /\ GoneForCause'
      BY <1>1, <2>3 DEF OpenFails, LastOfAll, GoneForCause, Bridging, locals
    <2> QED
      BY <1>3, <2>1, <2>2, <2>3, OpenForms DEF IInv, Types
  <1>4. CASE Reader
    <2>1. /\ reader.pc \in {"scan", "send"} /\ hand' = hand /\ ctx' = ctx /\ phase' = phase
      BY <1>4, ReaderForms, ChanAssumption
      DEF IInv, Types, Offers, Send, SendAborted, ReaderOnly, locals
    <2>2. ~Terminal(hand) /\ \A i \in DOMAIN out : ~Terminal(out[i])
      BY <1>1, <2>1 DEF LastOfAll
    <2>3. CASE out' = out /\ reader'.pc = "send"
      BY <2>1, <2>2, <2>3 DEF LastOfAll, GoneForCause
    <2>4. CASE SendAborted /\ reader'.pc = "gone"
      <3>1. out' = out /\ (ctx # "live" \/ phase = "done")
        BY <2>4 DEF SendAborted, TornDown
      <3> QED
        BY <2>1, <2>2, <3>1 DEF LastOfAll, GoneForCause, Bridging
    <2>5. CASE Send /\ reader'.pc = IF Terminal(reader.frame) THEN "gone" ELSE "scan"
      <3>1. out' = Append(out, reader.frame)
        BY <2>5 DEF Send
      <3>2. /\ \A i \in DOMAIN out' :
                 \/ i = Len(out) + 1 /\ out'[i] = reader.frame
                 \/ i \in DOMAIN out /\ out'[i] = out[i]
            /\ Len(out) + 1 \in DOMAIN out' /\ out'[Len(out) + 1] = reader.frame
            /\ Len(out') = Len(out) + 1
        BY <1>1, <3>1, AppendParts
      <3> QED
        BY <2>1, <2>2, <2>5, <3>2 DEF LastOfAll, GoneForCause
    <2> QED
      BY <1>1, <1>4, <2>3, <2>4, <2>5, ReaderForms, ChanAssumption DEF IInv, Types, Offers
  <1>5. CASE Receive
    <2>1. /\ out # <<>> /\ out' = Tail(out) /\ hand' = Head(out) /\ reader' = reader
          /\ ctx' = ctx /\ phase = "open" /\ hand = NoFrame
      BY <1>1, <1>5 DEF Receive, Waiting, Places
    <2>2. /\ 1 \in DOMAIN out /\ hand' = out[1] /\ Len(out') = Len(out) - 1
          /\ out' \in Seq(FrameSet) /\ Len(out) \in Nat
          /\ \A i \in DOMAIN out' : i + 1 \in DOMAIN out /\ out'[i] = out[i + 1]
          /\ \A i \in DOMAIN out : i = 1 \/ (i - 1 \in DOMAIN out' /\ out'[i - 1] = out[i])
      BY <1>1, <2>1, TailParts
    <2>3. LastOfAll'
      <3>1. ASSUME Terminal(hand') PROVE reader'.pc = "gone" /\ out' = <<>>
        <4>1. reader.pc = "gone" /\ Len(out) = 1
          BY <1>1, <2>2, <3>1 DEF LastOfAll
        <4> QED
          BY <2>1, <2>2, <4>1
      <3>2. ASSUME NEW i \in DOMAIN out', Terminal(out'[i])
            PROVE  reader'.pc = "gone" /\ i = Len(out')
        <4>1. reader.pc = "gone" /\ i + 1 = Len(out)
          BY <1>1, <2>2, <3>2 DEF LastOfAll
        <4>2. i \in Nat
          BY <2>2
        <4> QED
          BY <2>1, <2>2, <4>1, <4>2
      <3> QED
        BY <3>1, <3>2 DEF LastOfAll, Terminal
    <2>4. GoneForCause'
      <3>1. SUFFICES ASSUME reader.pc = "gone", ctx = "live"
                     PROVE  Terminal(hand') \/ \E i \in DOMAIN out' : Terminal(out'[i])
        BY <2>1 DEF GoneForCause, Terminal
      <3>2. \E i \in DOMAIN out : Terminal(out[i])
        BY <1>1, <2>1, <3>1, FrameFacts DEF GoneForCause, Bridging
      <3> QED
        BY <2>2, <3>2
    <2> QED
      BY <2>3, <2>4
  <1>6. CASE NoteError \/ HoldBack \/ PassOn
    <2>1. /\ hand' = Rest /\ hand.events # <<>> /\ UNCHANGED <<reader, out, ctx>> /\ Bridging
      BY <1>1, <1>6
      DEF NoteError, HoldBack, PassOn, NextEvent, AtEvent, Passing, Places, Bridging
    <2>2. Terminal(hand') <=> Terminal(hand)
      BY <1>1, <2>1, RestFacts DEF Terminal
    <2> QED
      BY <1>1, <2>1, <2>2 DEF LastOfAll, GoneForCause
  <1>7. CASE Take
    BY <1>1, <1>7 DEF Take, AtEvent, LastOfAll, GoneForCause, Bridging
  <1>8. CASE NextFrame
    <2>1. /\ ~Terminal(hand) /\ hand' = NoFrame /\ UNCHANGED <<reader, out, ctx>> /\ Bridging
      BY <1>8 DEF NextFrame, AtEnd, Terminal, Bridging
    <2> QED
      BY <1>1, <2>1, FrameFacts DEF LastOfAll, GoneForCause
  <1>9. CASE Exit
    BY <1>1, <1>9, ExitEnds DEF EndsAttempt, LastOfAll, GoneForCause, Bridging
  <1> QED
    BY <1>2, <1>3, <1>4, <1>5, <1>6, <1>7, <1>8, <1>9, Steps, QuietSteps

LEMMA BarrenStep ==
  ASSUME IInv, Next
  PROVE  BarrenIsEmpty'
  <1>1. /\ BarrenIsEmpty /\ Places /\ reader \in Readers /\ out \in Seq(FrameSet)
        /\ hand \in FrameSet /\ reader.frame \in FrameSet
    BY DEF IInv, Types, Readers
  <1>2. CASE Quiet
    BY <1>1, <1>2 DEF Quiet, BarrenIsEmpty, Barren
  <1>3. CASE Open
    <2>1. CASE WroteRequest
      BY <1>2, <2>1, QuietSteps
    <2>2. CASE \E src \in {"sse", "empty", "whole"} : Opened2xx(src)
      <3>1. reader'.frame = reader.frame /\ out' = out /\ hand' = hand /\ committed' = committed
        BY <1>1, <2>2 DEF Opened2xx, Readers, locals
      <3>2. out = <<>> /\ hand = NoFrame /\ reader.frame = NoFrame /\ ~committed
        BY <1>1, <1>3, OpenForms DEF IInv, Types, Places
      <3>3. DOMAIN out = {} /\ NoFrame.events = <<>>
        BY <3>2, FrameFacts
      <3> QED
        BY <3>1, <3>2, <3>3 DEF BarrenIsEmpty
    <2>3. ASSUME NEW err, NEW why, OpenFails(err, why)
          PROVE  BarrenIsEmpty'
      BY <1>1, <2>3 DEF OpenFails, BarrenIsEmpty, Barren, locals, world
    <2> QED
      BY <1>3, <2>1, <2>2, <2>3, OpenForms DEF IInv, Types
  <1>4. CASE Reader
    <2>1. source' = source /\ hand' = hand /\ committed' = committed /\ source # "none"
      BY <1>1, <1>4, ReaderForms, ChanAssumption
      DEF IInv, Types, ReaderOnly, locals, world, Places, Offers, Send, SendAborted
    <2>2. ASSUME NEW events \in Seq(UpstreamEvents), Offers(DoneFrame(events)),
                 \/ source = "empty" /\ events = <<>>
                 \/ source = "whole" /\ Stops(events)
                 \/ source = "sse" /\ reader.produced = FALSE /\ events = <<>>
                 \/ /\ source = "sse" /\ reader.produced = TRUE
                    /\ reader.stopped = FALSE => Stops(events)
          PROVE  BarrenIsEmpty'
      BY <1>1, <2>1, <2>2, FrameFacts DEF Offers, BarrenIsEmpty, Barren
    <2>3. CASE Offers(ErrorFrame(NewError("upstream")))
      BY <1>1, <2>1, <2>3, FrameFacts DEF Offers, BarrenIsEmpty, Barren
    <2>4. CASE source = "sse" /\ reader'.produced = TRUE
      BY <2>1, <2>4 DEF BarrenIsEmpty, Barren
    <2>5. CASE Send /\ reader'.frame = NoFrame /\ reader'.produced = reader.produced
      <3>1. out' = Append(out, reader.frame)
        BY <2>5 DEF Send
      <3>2. \A i \in DOMAIN out' : \/ out'[i] = reader.frame
                                   \/ i \in DOMAIN out /\ out'[i] = out[i]
        BY <1>1, <3>1, AppendParts
      <3> QED
        BY <1>1, <2>1, <2>5, <3>2, FrameFacts DEF BarrenIsEmpty, Barren
    <2>6. CASE SendAborted /\ reader'.frame = NoFrame /\ reader'.produced = reader.produced
      BY <1>1, <2>1, <2>6, FrameFacts DEF SendAborted, BarrenIsEmpty, Barren
    <2> QED
      BY <1>1, <1>4, <2>2, <2>3, <2>4, <2>5, <2>6, ReaderForms, ChanAssumption DEF IInv, Types
  <1>5. CASE Receive
    <2>1. /\ out # <<>> /\ out' = Tail(out) /\ hand' = Head(out)
          /\ reader' = reader /\ committed' = committed /\ source' = source
      BY <1>5 DEF Receive, world
    <2>2. /\ 1 \in DOMAIN out /\ hand' = out[1]
          /\ \A i \in DOMAIN out' : i + 1 \in DOMAIN out /\ out'[i] = out[i + 1]
      BY <1>1, <2>1, TailParts
    <2> QED
      BY <1>1, <2>1, <2>2 DEF BarrenIsEmpty, Barren
  <1>6. CASE NoteError \/ HoldBack \/ PassOn
    <2>1. hand.events # <<>> /\ UNCHANGED <<reader, source>>
      BY <1>1, <1>6 DEF NoteError, HoldBack, PassOn, NextEvent, AtEvent, Passing, Places, world
    <2> QED
      BY <1>1, <2>1 DEF BarrenIsEmpty, Barren
  <1>7. CASE Take
    <2>1. hand.events # <<>> /\ UNCHANGED <<reader, source>>
      BY <1>7 DEF Take, AtEvent, world
    <2> QED
      BY <1>1, <2>1 DEF BarrenIsEmpty, Barren
  <1>8. CASE NextFrame
    <2>1. hand' = NoFrame /\ UNCHANGED <<reader, out, committed, source>>
      BY <1>8 DEF NextFrame, world
    <2> QED
      BY <1>1, <2>1, FrameFacts DEF BarrenIsEmpty, Barren
  <1>9. CASE Exit
    BY <1>1, <1>9, ExitEnds DEF EndsAttempt, BarrenIsEmpty, Barren, world
  <1> QED
    BY <1>2, <1>3, <1>4, <1>5, <1>6, <1>7, <1>8, <1>9, Steps, QuietSteps

\* The terminator stays on its way as long as nothing that holds it is lost.
LEMMA TerminatedKept ==
  ASSUME Terminated, Stops(tail) => Stops(tail'),
         Stops(hand.events) => Stops(hand'.events) \/ Stops(tail'),
         Stops(reader.frame.events) => Stops(reader'.frame.events) \/ out' = Append(out, reader.frame),
         out \in Seq(FrameSet), reader.frame \in FrameSet,
         \/ out' = out
         \/ out' = Append(out, reader.frame)
  PROVE  Terminated'
  <1>1. CASE Stops(tail) \/ Stops(hand.events)
    BY <1>1 DEF Terminated
  <1>2. CASE Stops(reader.frame.events)
    <2>1. CASE out' = Append(out, reader.frame)
      <3>1. Len(out) + 1 \in DOMAIN out' /\ out'[Len(out) + 1] = reader.frame
        BY <2>1, AppendParts
      <3> QED
        BY <1>2, <3>1 DEF Terminated
    <2> QED
      BY <1>2, <2>1 DEF Terminated
  <1>3. CASE \E i \in DOMAIN out : Stops(out[i].events)
    <2>1. PICK i \in DOMAIN out : Stops(out[i].events)
      BY <1>3
    <2>2. i \in DOMAIN out' /\ out'[i] = out[i]
      BY AppendParts
    <2> QED
      BY <2>1, <2>2 DEF Terminated
  <1> QED
    BY <1>1, <1>2, <1>3 DEF Terminated

LEMMA DoneStep ==
  ASSUME IInv, Next
  PROVE  DoneIsTold'
  <1>1. /\ DoneIsTold /\ Places /\ LastOfAll /\ reader \in Readers /\ out \in Seq(FrameSet)
        /\ hand \in FrameSet /\ reader.frame \in FrameSet /\ tail \in Seq(UpstreamEvents)
    BY DEF IInv, Types, Readers
  <1>2. CASE Quiet
    BY <1>1, <1>2 DEF Quiet, DoneIsTold, Terminated, Barren
  <1>3. CASE Open
    <2>1. CASE WroteRequest
      BY <1>2, <2>1, QuietSteps
    <2>2. CASE \E src \in {"sse", "empty", "whole"} : Opened2xx(src)
      <3>1. /\ reader'.frame = reader.frame /\ out' = out /\ hand' = hand
            /\ reader'.stopped = reader.stopped
        BY <1>1, <2>2 DEF Opened2xx, Readers, locals
      <3>2. /\ out = <<>> /\ hand = NoFrame /\ reader.frame = NoFrame /\ reader.stopped = FALSE
        BY <1>1, <1>3, OpenForms DEF IInv, Types, Places
      <3>3. DOMAIN out = {} /\ NoFrame.done = FALSE
        BY <3>2, FrameFacts
      <3> QED
        BY <3>1, <3>2, <3>3 DEF DoneIsTold
    <2>3. ASSUME NEW err, NEW why, OpenFails(err, why)
          PROVE  DoneIsTold'
      BY <1>1, <2>3 DEF OpenFails, DoneIsTold, Terminated, Barren, locals, world
    <2> QED
      BY <1>3, <2>1, <2>2, <2>3, OpenForms DEF IInv, Types
  <1>4. CASE Reader
    <2>1. /\ source' = source /\ hand' = hand /\ tail' = tail
          /\ reader.pc \in {"scan", "send"}
      BY <1>1, <1>4, ReaderForms, ChanAssumption
      DEF IInv, Types, ReaderOnly, locals, world, Offers, Send, SendAborted
    <2>2. ~hand.done /\ \A i \in DOMAIN out : ~out[i].done
      BY <1>1, <2>1 DEF LastOfAll, Terminal
    <2>3. reader.pc = "scan" => ~Stops(reader.frame.events)
      BY <1>1, FrameFacts DEF Places, Stops
    <2>4. reader.pc = "scan" /\ out' = out /\ Terminated => Terminated'
      BY <1>1, <2>1, <2>3, TerminatedKept
    <2>5. ASSUME NEW events \in Seq(UpstreamEvents), Offers(DoneFrame(events)),
                 \/ source = "empty" /\ events = <<>>
                 \/ source = "whole" /\ Stops(events)
                 \/ source = "sse" /\ reader.produced = FALSE /\ events = <<>>
                 \/ /\ source = "sse" /\ reader.produced = TRUE
                    /\ reader.stopped = FALSE => Stops(events)
          PROVE  DoneIsTold'
      <3>1. /\ reader.pc = "scan" /\ out' = out /\ reader'.frame.events = events
            /\ reader'.stopped = reader.stopped /\ reader'.produced = reader.produced
        BY <2>5, FrameFacts DEF Offers
      <3>2. reader.stopped => Terminated'
        BY <1>1, <2>4, <3>1 DEF DoneIsTold
      <3>3. Stops(events) => Terminated'
        BY <3>1 DEF Terminated
      <3>4. Terminated' \/ Barren'
        <4>1. reader.stopped \in BOOLEAN
          BY <1>1 DEF Readers
        <4> QED
          BY <2>1, <2>5, <3>1, <3>2, <3>3, <4>1 DEF Barren
      <3> QED
        BY <3>1, <3>2, <3>4 DEF DoneIsTold
    <2>6. CASE Offers(ErrorFrame(NewError("upstream")))
      <3>1. /\ reader.pc = "scan" /\ out' = out /\ reader'.frame.done = FALSE
            /\ reader'.stopped = reader.stopped
        BY <2>6, FrameFacts DEF Offers
      <3>2. reader.stopped => Terminated'
        BY <1>1, <2>4, <3>1 DEF DoneIsTold
      <3> QED
        BY <2>1, <2>2, <3>1, <3>2 DEF DoneIsTold
    <2>7. ASSUME NEW events \in Seq(UpstreamEvents), reader.pc = "scan", out' = out,
                 reader'.pc = "send", reader'.frame = EventFrame(events),
                 reader'.stopped => reader.stopped \/ Stops(events)
          PROVE  DoneIsTold'
      <3>1. reader'.frame.done = FALSE /\ reader'.frame.events = events
        BY <2>7, FrameFacts
      <3>2. reader.stopped \/ Stops(events) => Terminated'
        BY <1>1, <2>4, <2>7, <3>1 DEF DoneIsTold, Terminated
      <3> QED
        BY <2>1, <2>2, <2>7, <3>1, <3>2 DEF DoneIsTold
    <2>8. CASE /\ Send /\ reader'.frame = NoFrame /\ reader'.produced = reader.produced
               /\ reader'.stopped = reader.stopped
      <3>1. out' = Append(out, reader.frame) /\ reader.pc = "send"
        BY <2>8 DEF Send
      <3>2. \A i \in DOMAIN out' : \/ out'[i] = reader.frame
                                   \/ i \in DOMAIN out /\ out'[i] = out[i]
        BY <1>1, <3>1, AppendParts
      <3>3. Terminated => Terminated'
        BY <1>1, <2>1, <3>1, TerminatedKept
      <3>4. Barren' <=> Barren
        BY <2>1, <2>8 DEF Barren
      <3>5. reader'.frame.done = FALSE
        BY <2>8, FrameFacts
      <3> QED
        BY <1>1, <2>1, <2>2, <2>8, <3>1, <3>2, <3>3, <3>4, <3>5 DEF DoneIsTold
    <2>9. CASE SendAborted /\ reader'.frame = NoFrame /\ reader'.pc = "gone"
      <3>1. out' = out /\ reader'.frame.done = FALSE
        BY <2>9, FrameFacts DEF SendAborted
      <3> QED
        BY <2>1, <2>2, <2>9, <3>1 DEF DoneIsTold
    <2> QED
      BY <1>1, <1>4, <2>5, <2>6, <2>7, <2>8, <2>9, ReaderForms, ChanAssumption DEF IInv, Types
  <1>5. CASE Receive
    <2>1. /\ out # <<>> /\ out' = Tail(out) /\ hand' = Head(out) /\ hand = NoFrame
          /\ reader' = reader /\ tail' = tail /\ source' = source
      BY <1>1, <1>5 DEF Receive, Waiting, Places, world
    <2>2. /\ 1 \in DOMAIN out /\ hand' = out[1]
          /\ \A i \in DOMAIN out' : i + 1 \in DOMAIN out /\ out'[i] = out[i + 1]
          /\ \A i \in DOMAIN out : i = 1 \/ (i - 1 \in DOMAIN out' /\ out'[i - 1] = out[i])
      BY <1>1, <2>1, TailParts
    <2>3. ~Stops(hand.events)
      BY <2>1, FrameFacts DEF Stops
    <2>4. Terminated => Terminated'
      BY <2>1, <2>2, <2>3 DEF Terminated
    <2>5. Barren' <=> Barren
      BY <2>1 DEF Barren
    <2> QED
      BY <1>1, <2>1, <2>2, <2>4, <2>5 DEF DoneIsTold
  <1>6. CASE NoteError \/ HoldBack \/ PassOn
    <2>1. /\ hand.events # <<>> /\ hand' = Rest /\ UNCHANGED <<reader, source, out>>
          /\ tail' = tail \/ tail' = Append(tail, Event)
      BY <1>1, <1>6 DEF NoteError, HoldBack, PassOn, NextEvent, AtEvent, Passing, Places, world
    <2>2. /\ Event \in UpstreamEvents /\ hand'.done = hand.done
          /\ Stops(hand.events) => Event = Ev("message_stop") \/ Stops(hand'.events)
      BY <1>1, <2>1, RestFacts
    <2>3. Stops(tail) => Stops(tail')
      <3>1. \A i \in DOMAIN tail : i \in DOMAIN tail' /\ tail'[i] = tail[i]
        BY <1>1, <2>1, <2>2, AppendParts
      <3> QED
        BY <3>1 DEF Stops
    <2>4. Event = Ev("message_stop") => Stops(tail')
      <3>1. SUFFICES ASSUME Event = Ev("message_stop") PROVE Stops(tail')
        OBVIOUS
      <3>2. Event.type = "message_stop"
        BY <3>1 DEF Ev
      <3>3. tail' = Append(tail, Event)
        BY <1>6, <3>2 DEF NoteError, HoldBack, PassOn, HeldBack
      <3>4. Len(tail) + 1 \in DOMAIN tail' /\ tail'[Len(tail) + 1] = Event
        BY <1>1, <2>2, <3>3, AppendParts
      <3> QED
        BY <3>1, <3>4 DEF Stops
    <2>5. Terminated => Terminated'
      BY <2>1, <2>2, <2>3, <2>4 DEF Terminated
    <2> QED
      BY <1>1, <2>1, <2>2, <2>5 DEF DoneIsTold, Barren
  <1>7. CASE Take
    <2>1. UNCHANGED <<hand, reader, source, out, tail>>
      BY <1>7 DEF Take, world
    <2> QED
      BY <1>1, <2>1 DEF DoneIsTold, Barren, Terminated
  <1>8. CASE NextFrame
    <2>1. hand' = NoFrame /\ hand.events = <<>> /\ UNCHANGED <<reader, source, out, tail>>
      BY <1>8 DEF NextFrame, AtEnd, world
    <2>2. ~Stops(hand.events) /\ hand'.done = FALSE
      BY <2>1, FrameFacts DEF Stops
    <2>3. Terminated => Terminated'
      BY <2>1, <2>2 DEF Terminated
    <2> QED
      BY <1>1, <2>1, <2>2, <2>3 DEF DoneIsTold, Barren
  <1>9. CASE Exit
    <2>1. UNCHANGED <<hand, reader, source, out>> /\ (Stops(tail) => Stops(tail'))
      BY <1>9, ExitEnds, ExitSafe DEF EndsAttempt, world
    <2> QED
      BY <1>1, <2>1 DEF DoneIsTold, Barren, Terminated
  <1> QED
    BY <1>2, <1>3, <1>4, <1>5, <1>6, <1>7, <1>8, <1>9, Steps, QuietSteps

LEMMA PropertiesStep ==
  ASSUME IInv, Next
  PROVE  ResultAllowed' /\ NormalMeansWhole' /\ TeardownNamesItsCause' /\ NotesAfterReader'
  <1>1. /\ ResultAllowed /\ NormalMeansWhole /\ TeardownNamesItsCause /\ NotesAfterReader
        /\ Types /\ BeforeTheEnd' /\ stream \in BOOLEAN /\ wroteRequest \in BOOLEAN
    BY PlacesStep DEF IInv, Types
  <1>2. CASE UNCHANGED vars
    BY <1>1, <1>2
    DEF vars, world, locals, seen, ResultAllowed, Fate, NormalMeansWhole, TeardownNamesItsCause,
        NotesAfterReader
  <1>3. CASE phase' # "done" /\ notes' = notes /\ reader' = reader
    <2>1. client'.ending = "none"
      BY <1>1, <1>3 DEF BeforeTheEnd
    <2> QED
      BY <1>1, <1>3, <2>1
      DEF ResultAllowed, NormalMeansWhole, TeardownNamesItsCause, NotesAfterReader
  <1>4. CASE ClientCancels \/ BudgetExpires \/ Tick
    <2>1. phase' # "done" /\ notes' = notes /\ reader' = reader
      BY <1>4 DEF ClientCancels, BudgetExpires, Tick, Bridging, seen
    <2> QED
      BY <1>3, <2>1
  <1>5. CASE Open
    <2>1. phase = "opening"
      BY <1>1, <1>5, OpenForms
    <2>2. CASE WroteRequest
      <3>1. phase' # "done" /\ notes' = notes /\ reader' = reader
        BY <2>1, <2>2 DEF WroteRequest, seen
      <3> QED
        BY <1>3, <3>1
    <2>3. CASE \E src \in {"sse", "empty", "whole"} : Opened2xx(src)
      <3>1. phase' = "open" /\ notes' = notes /\ reader.pc = "idle"
        BY <2>1, <2>3 DEF Opened2xx, seen, IInv, Places
      <3>2. notes' = FALSE \/ ~notes'
        BY <1>1, <3>1 DEF NotesAfterReader
      <3>3. client'.ending = "none"
        BY <1>1, <3>1 DEF BeforeTheEnd
      <3> QED
        BY <3>1, <3>2, <3>3
        DEF ResultAllowed, NormalMeansWhole, TeardownNamesItsCause, NotesAfterReader
    <2>4. ASSUME NEW err, NEW why, FailsAs(err, why), OpenFails(err, why)
          PROVE  /\ ResultAllowed' /\ NormalMeansWhole' /\ TeardownNamesItsCause'
                 /\ NotesAfterReader'
      <3>1. client = Untouched /\ source = "none"
        <4>1. phase # "done" /\ ~committed /\ source = "none"
          BY <2>1 DEF IInv, Places
        <4> QED
          BY <4>1 DEF IInv, BeforeTheEnd, Untouched
      <3>2. ResultAllowed' /\ client'.ending # "normal"
        BY <1>1, <2>4, <3>1, OpenFailsFacts
      <3>3. cause' \notin {"broke", "closed", "timer"} /\ notes' = notes /\ reader' = reader
        BY <2>4 DEF OpenFails, FailsAs
      <3> QED
        BY <1>1, <3>2, <3>3 DEF NormalMeansWhole, TeardownNamesItsCause, NotesAfterReader
    <2> QED
      BY <1>1, <1>5, <2>2, <2>3, <2>4, OpenForms
  <1>6. CASE Reader
    <2>1. ReaderOnly /\ reader.pc # "gone"
      BY <1>6, ReaderForms, ChanAssumption DEF IInv, Types, Offers, Send, SendAborted
    <2> QED
      BY <1>1, <2>1
      DEF ReaderOnly, world, locals, ResultAllowed, Fate, NormalMeansWhole, TeardownNamesItsCause,
          NotesAfterReader
  <1>7. CASE Receive \/ NoteError \/ Take \/ HoldBack \/ PassOn \/ NextFrame
    <2>1. phase' # "done" /\ notes' = notes /\ reader' = reader
      BY <1>7
      DEF Receive, NoteError, Take, HoldBack, PassOn, NextEvent, NextFrame, AtEvent, Passing,
          seen
    <2> QED
      BY <1>3, <2>1
  <1>8. CASE Exit
    BY <1>8, ExitSafe
  <1> QED
    BY <1>2, <1>4, <1>5, <1>6, <1>7, <1>8, Steps

LEMMA StepInv == IInv /\ [Next]_vars => IInv'
  <1>1. ASSUME IInv, Next PROVE IInv'
    BY <1>1, TypesStep, PlacesStep, LastStep, ClockStep, BarrenStep, DoneStep, PropertiesStep
    DEF IInv
  <1>2. ASSUME IInv, UNCHANGED vars PROVE IInv'
    <2>1. /\ UNCHANGED <<stream, wroteRequest, source, ctx, phase, reader, out, hand>>
          /\ UNCHANGED <<committed, left, streamErr, tail, agg, client, result>>
          /\ UNCHANGED <<silent, cause, notes, cut>>
      BY <1>2 DEF vars, world, locals, seen
    <2>2. Types' /\ Sound(agg)'
      BY <1>2, <2>1 DEF IInv, Types
    <2>3. BeforeTheEnd' /\ Places' /\ LastOfAll' /\ GoneForCause' /\ Clock'
      BY <1>2, <2>1
      DEF IInv, BeforeTheEnd, Places, LastOfAll, GoneForCause, Clock, Bridging
    <2>4. BarrenIsEmpty' /\ DoneIsTold'
      BY <1>2, <2>1 DEF IInv, BarrenIsEmpty, DoneIsTold, Terminated, Barren
    <2>5. ResultAllowed' /\ NormalMeansWhole' /\ TeardownNamesItsCause' /\ NotesAfterReader'
      BY <1>2, <2>1
      DEF IInv, ResultAllowed, Fate, NormalMeansWhole, TeardownNamesItsCause, NotesAfterReader
    <2> QED
      BY <2>2, <2>3, <2>4, <2>5 DEF IInv
  <1> QED
    BY <1>1, <1>2

-----------------------------------------------------------------------------
(* Where blocks are begun and closed between the decoder, which knows that *)
(* a stream ended inside one, and the loop, which has to say so.           *)

\* The events on their way to the loop.
AheadOf(h, f, o) ==
  ToSet(h.events) \cup ToSet(f.events) \cup UNION {ToSet(o[i].events) : i \in DOMAIN o}

\* Those of the state.
Ahead == AheadOf(hand, reader.frame, out)

\* Whether a start or a stop of a block is among them.
StartAhead(i) == \E ev \in Ahead : ev.type = "block_start" /\ ev.index = i
StopAhead(i) == \E ev \in Ahead : ev.type = "block_stop" /\ ev.index = i

\* A block that was begun, or will be, and will not be closed.
StillOpen(i) ==
  i \notin agg.closed /\ ~StopAhead(i) /\ (i \in agg.order \/ StartAhead(i))

\* Nothing happens to blocks before the stream is open.
Fresh ==
  phase = "opening" => agg = Empty /\ reader.open = {} /\ ~cut

\* The loop knows of no stop of a block the decoder has not seen.
UnusedIsFresh ==
  source = "sse" /\ phase # "done" =>
    \A i \in Indexes \ reader.used : i \notin agg.closed /\ ~StopAhead(i)

\* What is open for the decoder is open for the loop, or will be.
OpenIsOpen ==
  source = "sse" /\ reader.pc \in {"scan", "send"} /\ phase # "done" /\ ~agg.overflow =>
    \A i \in reader.open : StillOpen(i)

\* Behind a stream that ended inside a block comes the terminator alone.
CutIsOpen ==
  cut =>
    /\ source = "sse" /\ reader.stopped = FALSE /\ reader.open # {}
    /\ reader.pc \in {"send", "gone"}
    /\ reader.pc = "send" =>
         reader.frame.done /\ \A ev \in ToSet(reader.frame.events) : ev.type # "block_start"
    /\ phase # "done" /\ ~agg.overflow => \E i \in Indexes : StillOpen(i)

\* The loop goes on only with an aggregator that has room.
Within ==
  /\ phase \in {"open", "frame"} => ~agg.overflow
  /\ phase = "event" /\ ~agg.overflow /\ Event.type = "block_start" => Event.index \in agg.order

\* An answer ends normally only with a frame that ends its stream.
NormalIsDone == client.ending = "normal" => hand.done

\* What is known of blocks,
Blocks == UnusedIsFresh /\ OpenIsOpen /\ CutIsOpen

\* and the invariant that is inductive beside IInv.
CutInv == Fresh /\ Blocks /\ Within /\ NormalIsDone /\ TruncationIsSaid

\* What is on its way are events of the upstream.
LEMMA MembersAhead ==
  ASSUME NEW h \in FrameSet, NEW f \in FrameSet, NEW o \in Seq(FrameSet)
  PROVE  /\ AheadOf(h, f, o) \subseteq UpstreamEvents
         /\ h.events # <<>> => Head(h.events) \in AheadOf(h, f, o)
         /\ ToSet(f.events) \subseteq AheadOf(h, f, o)
         /\ h.events = <<>> /\ f.events = <<>> /\ o = <<>> => AheadOf(h, f, o) = {}
  <1>1. h.events \in Seq(UpstreamEvents) /\ f.events \in Seq(UpstreamEvents)
        /\ \A i \in DOMAIN o : o[i].events \in Seq(UpstreamEvents)
    <2>1. \A i \in DOMAIN o : o[i] \in FrameSet
      OBVIOUS
    <2> QED
      BY <2>1 DEF FrameSet
  <1>2. \A s \in Seq(UpstreamEvents) : ToSet(s) \subseteq UpstreamEvents
    BY DEF ToSet
  <1>3. h.events # <<>> => Head(h.events) \in ToSet(h.events)
    BY <1>1, TailParts DEF ToSet
  <1>4. ToSet(<<>>) = {}
    BY DEF ToSet
  <1> QED
    BY <1>1, <1>2, <1>3, <1>4 DEF AheadOf

\* Sending a frame leaves its events on their way.
LEMMA SendAhead ==
  ASSUME NEW h, NEW f \in FrameSet, NEW o \in Seq(FrameSet)
  PROVE  AheadOf(h, NoFrame, Append(o, f)) = AheadOf(h, f, o)
  <1> DEFINE q == Append(o, f)
             T(r) == {ToSet(r[i].events) : i \in DOMAIN r}
  <1>1. /\ \A i \in DOMAIN o : i \in DOMAIN q /\ q[i] = o[i]
        /\ Len(o) + 1 \in DOMAIN q /\ q[Len(o) + 1] = f
        /\ \A i \in DOMAIN q : i = Len(o) + 1 \/ i \in DOMAIN o
    BY AppendParts
  <1>2. T(q) = T(o) \cup {ToSet(f.events)}
    <2> HIDE DEF q
    <2> QED
      BY <1>1
  <1>3. ToSet(NoFrame.events) = {}
    BY DEF NoFrame, ToSet
  <1> HIDE DEF q
  <1> QED
    BY <1>2, <1>3 DEF AheadOf, q

\* So does receiving one,
LEMMA ReceiveAhead ==
  ASSUME NEW f, NEW o \in Seq(FrameSet), o # <<>>
  PROVE  AheadOf(Head(o), f, Tail(o)) = AheadOf(NoFrame, f, o)
  <1> DEFINE q == Tail(o)
             T(r) == {ToSet(r[i].events) : i \in DOMAIN r}
  <1>1. /\ Head(o) = o[1] /\ 1 \in DOMAIN o
        /\ \A i \in DOMAIN q : i + 1 \in DOMAIN o /\ q[i] = o[i + 1]
        /\ \A i \in DOMAIN o : i = 1 \/ (i - 1 \in DOMAIN q /\ q[i - 1] = o[i])
    BY TailParts
  <1>2. T(o) = T(q) \cup {ToSet(Head(o).events)}
    <2> HIDE DEF q
    <2> QED
      BY <1>1
  <1>3. ToSet(NoFrame.events) = {}
    BY DEF NoFrame, ToSet
  <1> HIDE DEF q
  <1> QED
    BY <1>2, <1>3 DEF AheadOf, q

\* and being done with an event takes it off.
LEMMA RestAhead ==
  ASSUME NEW h \in FrameSet, h.events # <<>>, NEW f, NEW o, NEW r, r.events = Tail(h.events)
  PROVE  AheadOf(h, f, o) = AheadOf(r, f, o) \cup {Head(h.events)}
  <1>1. h.events \in Seq(UpstreamEvents)
    BY DEF FrameSet
  <1>2. ToSet(h.events) = ToSet(Tail(h.events)) \cup {Head(h.events)}
    <2> DEFINE s == h.events
               q == Tail(s)
    <2>1. /\ Head(s) = s[1] /\ 1 \in DOMAIN s
          /\ \A i \in DOMAIN q : i + 1 \in DOMAIN s /\ q[i] = s[i + 1]
          /\ \A i \in DOMAIN s : i = 1 \/ (i - 1 \in DOMAIN q /\ q[i - 1] = s[i])
      BY <1>1, TailParts
    <2> HIDE DEF q, s
    <2>2. ToSet(s) = ToSet(q) \cup {Head(s)}
      BY <2>1 DEF ToSet
    <2> QED
      BY <2>2 DEF q, s
  <1> QED
    BY <1>2 DEF AheadOf

\* What the reader holds adds to what is on its way.
LEMMA OfferAhead ==
  ASSUME NEW h, NEW o, NEW f
  PROVE  AheadOf(h, f, o) = AheadOf(h, NoFrame, o) \cup ToSet(f.events)
  <1>1. ToSet(NoFrame.events) = {}
    BY DEF NoFrame, ToSet
  <1> QED
    BY <1>1 DEF AheadOf

\* A start and a stop carry the index of their block.
LEMMA EventIndexed ==
  ASSUME NEW ev \in UpstreamEvents, ev.type \in {"block_start", "block_stop"}
  PROVE  "index" \in DOMAIN ev /\ ev.index \in Indexes
  <1>1. ev.index \in Indexes /\ ev \in Events
    BY EventFacts
  <1>2. "index" \in DOMAIN ev
    BY <1>1, EventForms DEF Ev, StartWith, Stop, Delta, Input, MessageDelta
  <1> QED
    BY <1>1, <1>2


\* The upstream has said that the answer is complete.
NamedEnd ==
  \/ agg.stop = "end_turn"
  \/ \E ev \in Ahead : ev.type = "message_delta" /\ ev.stop = "end_turn"

\* What the theorem asks of the upstream: it says that its answer is complete
\* only when no block is open, unless it ends the message in the same breath.
EndsInOrder == source = "sse" /\ NamedEnd /\ ~reader.stopped => reader.open = {}

\* A step that decodes nothing and takes no start of a block off its way,
\* unless it is collected, keeps the facts about blocks.
LEMMA Unmoved ==
  ASSUME Blocks, agg' = agg, source' = source, cut' = cut,
         reader'.open = reader.open, reader'.used = reader.used,
         reader'.stopped = reader.stopped,
         reader'.pc \in {"scan", "send"} => reader.pc \in {"scan", "send"},
         phase' # "done" => phase # "done",
         cut => reader'.pc \in {"send", "gone"},
         cut /\ reader'.pc = "send" => reader.pc = "send" /\ reader'.frame = reader.frame,
         Ahead' \subseteq Ahead,
         \/ reader'.pc = "gone" /\ ~cut
         \/ \A ev \in Ahead :
              ev.type = "block_start" => ev \in Ahead' \/ ev.index \in agg.order \/ agg.overflow
  PROVE  Blocks'
  <1>1. \A i : StopAhead(i)' => StopAhead(i)
    BY DEF StopAhead
  <1>3. ASSUME ~(reader'.pc = "gone" /\ ~cut), ~agg.overflow
        PROVE  \A i : StillOpen(i) => StillOpen(i)'
    BY <1>1, <1>3 DEF StillOpen, StartAhead
  <1>4. UnusedIsFresh'
    BY <1>1 DEF Blocks, UnusedIsFresh
  <1>5. OpenIsOpen'
    BY <1>3 DEF Blocks, OpenIsOpen
  <1>7. CutIsOpen'
    BY <1>3 DEF Blocks, CutIsOpen
  <1> QED
    BY <1>4, <1>5, <1>7 DEF Blocks

\* The channels' contents, as the lemmas above ask for them.
LEMMA AheadTyped ==
  ASSUME IInv
  PROVE  /\ hand \in FrameSet /\ reader \in Readers /\ reader.frame \in FrameSet
         /\ out \in Seq(FrameSet) /\ Ahead \subseteq UpstreamEvents
         /\ reader.open \subseteq Indexes /\ reader.used \subseteq Indexes
         /\ reader.stopped \in BOOLEAN
         /\ reader.pc # "send" => reader.frame = NoFrame
  <1>1. hand \in FrameSet /\ reader \in Readers /\ out \in Seq(FrameSet)
    BY DEF IInv, Types
  <1>2. reader.frame \in FrameSet /\ reader.open \subseteq Indexes
        /\ reader.used \subseteq Indexes /\ reader.stopped \in BOOLEAN
    BY <1>1 DEF Readers
  <1>3. Ahead \subseteq UpstreamEvents
    BY <1>1, <1>2, MembersAhead DEF Ahead
  <1>4. reader.pc # "send" => reader.frame = NoFrame
    BY DEF IInv, Places
  <1> QED
    BY <1>1, <1>2, <1>3, <1>4

\* The steps of the loop that leave the reader alone and take an event, a frame
\* or nothing off its way.
LEMMA LoopBlocks ==
  ASSUME Blocks, reader' = reader, agg' = agg, source' = source, cut' = cut,
         phase' # "done" => phase # "done", Ahead' \subseteq Ahead,
         \A ev \in Ahead :
           ev.type = "block_start" => ev \in Ahead' \/ ev.index \in agg.order \/ agg.overflow
  PROVE  Blocks'
  <1>1. cut => reader.pc \in {"send", "gone"}
    BY DEF Blocks, CutIsOpen
  <1> QED
    BY <1>1, Unmoved

\* What an open call changes.
LEMMA OpenBlocksStep ==
  ASSUME IInv, IInv', CutInv, Open
  PROVE  Blocks' /\ Fresh' /\ Within'
  <1>1. phase = "opening" /\ wroteRequest \in BOOLEAN
    BY OpenForms DEF IInv, Types
  <1>2. agg = Empty /\ reader.open = {} /\ ~cut
    BY <1>1 DEF CutInv, Fresh
  <1>3. Ahead = {}
    <2>1. hand = NoFrame /\ source = "none" /\ reader.pc = "idle" /\ out = <<>>
      BY <1>1 DEF IInv, Places
    <2>2. reader.frame = NoFrame
      BY <2>1, AheadTyped
    <2> QED
      BY <2>1, <2>2, AheadTyped, MembersAhead, FrameFacts DEF Ahead
  <1>4. ~agg.overflow /\ agg.order = {} /\ agg.closed = {}
    BY <1>2 DEF Empty
  <1>5. CASE WroteRequest \/ \E err, why : OpenFails(err, why)
    <2>1. /\ reader' = reader /\ agg' = agg /\ source' = source /\ cut' = cut /\ out' = out
          /\ hand' = hand /\ phase' \in {"opening", "done"}
      BY <1>1, <1>5 DEF WroteRequest, OpenFails, locals, seen, world
    <2>2. Ahead' = Ahead
      BY <2>1 DEF Ahead
    <2>3. Blocks'
      BY <1>1, <2>1, <2>2, LoopBlocks DEF CutInv
    <2> QED
      BY <1>2, <2>1, <2>3 DEF Fresh, Within
  <1>6. ASSUME NEW src, Opened2xx(src)
        PROVE  Blocks' /\ Fresh' /\ Within'
    <2>1. /\ phase' = "open" /\ reader'.frame = reader.frame /\ reader'.open = reader.open
          /\ reader'.stopped = reader.stopped /\ reader'.pc = "scan"
          /\ out' = out /\ hand' = hand /\ agg' = agg /\ cut' = cut
      BY <1>6, AheadTyped DEF Opened2xx, locals, seen, Readers
    <2>2. Ahead' = {}
      BY <1>3, <2>1 DEF Ahead
    <2>3. UnusedIsFresh'
      BY <1>4, <2>1, <2>2 DEF UnusedIsFresh, StopAhead
    <2>4. OpenIsOpen' /\ CutIsOpen'
      BY <1>2, <2>1 DEF OpenIsOpen, CutIsOpen
    <2> QED
      BY <1>4, <2>1, <2>3, <2>4 DEF Blocks, Fresh, Within
  <1> QED
    BY <1>1, <1>5, <1>6, OpenForms

\* What one more frame of a stream does.
LEMMA FeedBlocks ==
  ASSUME IInv, CutInv, Feed
  PROVE  Blocks'
  <1>1. PICK events \in Frames :
          /\ Indexed("block_start", events) \cap reader.used = {}
          /\ reader' = [reader EXCEPT !.pc = "send", !.frame = EventFrame(events),
                          !.sent = @ + 1, !.produced = TRUE,
                          !.stopped = @ \/ Said("message_stop", events),
                          !.open = (@ \cup Indexed("block_start", events))
                                     \ Indexed("block_stop", events),
                          !.used = @ \cup Touched(events)]
    BY DEF Feed
  <1> DEFINE starts == Indexed("block_start", events)
             stops == Indexed("block_stop", events)
             new == ToSet(events)
  <1>2. /\ reader'.pc = "send" /\ reader'.frame = EventFrame(events)
        /\ reader'.stopped = (reader.stopped \/ Said("message_stop", events))
        /\ reader'.open = (reader.open \cup starts) \ stops
        /\ reader'.used = reader.used \cup Touched(events)
        /\ starts \cap reader.used = {}
    BY <1>1, AheadTyped DEF Readers
  <1>3. /\ reader.pc = "scan" /\ source = "sse" /\ agg' = agg /\ source' = source
        /\ cut' = cut /\ phase' = phase /\ hand' = hand /\ out' = out
    BY DEF Feed, Reading, ReaderOnly, locals, world
  <1>4. events \in Seq(UpstreamEvents)
    BY FramesAssumption
  <1>5. \A ev \in new : /\ ev \in UpstreamEvents
                        /\ \E j \in DOMAIN events : ev = events[j]
    BY <1>4 DEF ToSet
  <1>6. Ahead' = Ahead \cup new
    <2>1. reader.frame = NoFrame /\ EventFrame(events).events = events
      BY <1>3, <1>4, AheadTyped, FrameFacts
    <2>2. /\ Ahead = AheadOf(hand, NoFrame, out)
          /\ Ahead' = AheadOf(hand, EventFrame(events), out)
      BY <1>2, <1>3, <2>1 DEF Ahead
    <2> QED
      BY <2>1, <2>2, OfferAhead
  <1>7. \A ev \in new : ev.type = "block_start" => ev.index \in starts
    BY <1>5 DEF Indexed
  <1>8. \A ev \in new : ev.type = "block_stop" =>
          ev.index \in stops /\ ev.index \in Touched(events)
    BY <1>5, EventIndexed DEF Indexed, Touched
  <1>9. \A i \in starts : \E ev \in new : ev.type = "block_start" /\ ev.index = i
    BY <1>4 DEF Indexed, ToSet
  <1>10. starts \subseteq Indexes /\ reader.open \subseteq Indexes /\ ~cut
    BY <1>3, <1>4, IndexedFacts, AheadTyped DEF CutInv, Blocks, CutIsOpen
  <1> HIDE DEF starts, stops, new
  <1>11. \A i : StopAhead(i)' <=>
           StopAhead(i) \/ \E ev \in new : ev.type = "block_stop" /\ ev.index = i
    BY <1>6 DEF StopAhead
  <1>12. \A i : StartAhead(i)' <=>
           StartAhead(i) \/ \E ev \in new : ev.type = "block_start" /\ ev.index = i
    BY <1>6 DEF StartAhead
  <1>13. UnusedIsFresh'
    BY <1>2, <1>3, <1>8, <1>11 DEF CutInv, Blocks, UnusedIsFresh
  <1>14. OpenIsOpen'
    <2>1. SUFFICES ASSUME phase # "done", ~agg.overflow, NEW i \in (reader.open \cup starts) \ stops
                   PROVE  StillOpen(i)'
      BY <1>2, <1>3 DEF OpenIsOpen
    <2>2. ~\E ev \in new : ev.type = "block_stop" /\ ev.index = i
      BY <1>8
    <2>3. CASE i \in reader.open
      <3>1. StillOpen(i)
        BY <1>3, <2>1, <2>3 DEF CutInv, Blocks, OpenIsOpen
      <3> QED
        BY <1>3, <1>11, <1>12, <2>2, <3>1 DEF StillOpen
    <2>4. CASE i \in starts
      <3>1. i \in Indexes \ reader.used
        BY <1>2, <1>10, <2>4
      <3>2. i \notin agg.closed /\ ~StopAhead(i)
        BY <1>3, <2>1, <3>1 DEF CutInv, Blocks, UnusedIsFresh
      <3> QED
        BY <1>3, <1>9, <1>11, <1>12, <2>2, <2>4, <3>2 DEF StillOpen
    <2> QED
      BY <2>3, <2>4
  <1>16. CutIsOpen'
    BY <1>3, <1>10 DEF CutIsOpen
  <1> QED
    BY <1>13, <1>14, <1>16 DEF Blocks

\* A frame that tells nothing of blocks and reasons.
LEMMA OfferBlocks ==
  ASSUME IInv, CutInv, NEW f \in FrameSet, source = "sse", Reading, Offer(f),
         f.done, \A ev \in ToSet(f.events) : ev.type = "message_stop",
         agg' = agg, source' = source, phase' = phase, hand' = hand, out' = out,
         cut' => reader.stopped = FALSE /\ reader.open # {}
  PROVE  Blocks'
  <1>1. /\ reader.pc = "scan" /\ reader'.pc = "send" /\ reader'.frame = f
        /\ reader'.stopped = reader.stopped /\ reader'.open = reader.open
        /\ reader'.used = reader.used
    BY AheadTyped DEF Offer, Readers, Reading
  <1>2. Ahead' = Ahead \cup ToSet(f.events)
    <2>1. Ahead = AheadOf(hand, NoFrame, out) /\ Ahead' = AheadOf(hand, f, out)
      BY <1>1, AheadTyped DEF Ahead
    <2> QED
      BY <2>1, OfferAhead
  <1>3. \A i : StopAhead(i)' <=> StopAhead(i)
    BY <1>2 DEF StopAhead
  <1>4. \A i : StartAhead(i)' <=> StartAhead(i)
    BY <1>2 DEF StartAhead
  <1>5. \A i : StillOpen(i)' <=> StillOpen(i)
    BY <1>3, <1>4 DEF StillOpen
  <1>6. UnusedIsFresh' /\ OpenIsOpen'
    BY <1>1, <1>3, <1>5 DEF CutInv, Blocks, UnusedIsFresh, OpenIsOpen
  <1>8. CutIsOpen'
    <2>1. \A ev \in ToSet(f.events) : ev.type # "block_start"
      OBVIOUS
    <2>2. ASSUME cut', phase # "done", ~agg.overflow PROVE \E i \in Indexes : StillOpen(i)'
      <3>1. PICK i \in reader.open : StillOpen(i)
        BY <1>1, <2>2 DEF CutInv, Blocks, OpenIsOpen
      <3> QED
        BY <1>5, <3>1, AheadTyped
    <2> QED
      BY <1>1, <2>1, <2>2 DEF CutIsOpen
  <1> QED
    BY <1>6, <1>8 DEF Blocks

\* What a step of the reader does.
LEMMA ReaderBlocks ==
  ASSUME IInv, CutInv, ~ClosesAtEnd, Reader
  PROVE  /\ Blocks'
         /\ agg' = agg /\ phase' = phase /\ hand' = hand /\ client' = client
         /\ phase # "opening" /\ reader.pc # "gone"
  <1>1. /\ ReaderOnly /\ agg' = agg /\ phase' = phase /\ hand' = hand /\ client' = client
        /\ source' = source
    BY DEF Reader, OfferWhole, Feed, ReadBroke, ReadEOF, Send, SendAborted, ReaderOnly, locals,
           world
  <1>2. reader.pc \in {"scan", "send"} /\ phase # "opening"
    BY DEF Reader, OfferWhole, Feed, ReadBroke, ReadEOF, Send, SendAborted, Reading, IInv, Places
  <1> SUFFICES Blocks'
    BY <1>1, <1>2
  <1>3. CASE OfferWhole
    <2>1. PICK f : Offer(f)
      BY <1>3 DEF OfferWhole
    <2>2. source # "sse" /\ reader.pc = "scan" /\ cut' = cut
      BY <1>3 DEF OfferWhole, Reading
    <2>3. ~cut
      BY <2>2 DEF CutInv, Blocks, CutIsOpen
    <2> QED
      BY <1>1, <2>2, <2>3 DEF Blocks, UnusedIsFresh, OpenIsOpen, CutIsOpen
  <1>4. CASE Feed
    BY <1>4, FeedBlocks
  <1>5. CASE ReadBroke
    <2> DEFINE f == ErrorFrame(NewError("upstream"))
    <2>1. /\ reader.pc = "scan" /\ out' = out /\ cut' = cut /\ ~cut /\ Offer(f)
      BY <1>5 DEF ReadBroke, Reading, CutInv, Blocks, CutIsOpen
    <2>2. f \in FrameSet /\ f.events = <<>>
      BY FrameFacts
    <2> HIDE DEF f
    <2>3. /\ reader'.pc = "send" /\ reader'.frame = f /\ reader'.stopped = reader.stopped
          /\ reader'.open = reader.open /\ reader'.used = reader.used
      BY <2>1, AheadTyped DEF Offer, Readers
    <2>4. Ahead' = Ahead
      <3>1. Ahead = AheadOf(hand, NoFrame, out) /\ Ahead' = AheadOf(hand, f, out)
        BY <1>1, <2>1, <2>3, AheadTyped DEF Ahead
      <3>2. ToSet(f.events) = {}
        BY <2>2 DEF ToSet
      <3> QED
        BY <3>1, <3>2, OfferAhead
    <2> QED
      BY <1>1, <2>1, <2>3, <2>4, Unmoved DEF CutInv
  <1>6. CASE ReadEOF
    <2> DEFINE s == IF reader.produced THEN FinishEvents ELSE <<>>
    <2>1. /\ Reading /\ source = "sse" /\ out' = out /\ Offer(DoneFrame(s))
          /\ cut' = (~reader.stopped /\ reader.open # {})
      BY <1>6 DEF ReadEOF
    <2>2. s \in Seq(UpstreamEvents)
      BY AheadTyped, FinishFacts, EmptySeq DEF IInv, Types
    <2>3. s = <<>> \/ s = <<Ev("message_stop")>>
      BY AheadTyped, SwitchAssumption DEF FinishEvents
    <2>4. DoneFrame(s) \in FrameSet /\ DoneFrame(s).events = s /\ DoneFrame(s).done = TRUE
      BY <2>2, FrameFacts
    <2>5. \A ev \in ToSet(s) : ev.type = "message_stop"
      BY <2>3 DEF ToSet, Ev
    <2> HIDE DEF s
    <2> QED
      BY <1>1, <2>1, <2>4, <2>5, AheadTyped, OfferBlocks
  <1>7. CASE Send
    <2>1. /\ reader.pc = "send" /\ out' = Append(out, reader.frame) /\ cut' = cut
          /\ reader' = [reader EXCEPT
                          !.pc = IF Terminal(reader.frame) THEN "gone" ELSE "scan",
                          !.frame = NoFrame]
      BY <1>7 DEF Send
    <2>2. /\ reader'.pc = IF Terminal(reader.frame) THEN "gone" ELSE "scan"
          /\ reader'.frame = NoFrame /\ reader'.stopped = reader.stopped
          /\ reader'.open = reader.open /\ reader'.used = reader.used
      BY <2>1, AheadTyped DEF Readers
    <2>3. Ahead' = Ahead
      BY <1>1, <2>1, <2>2, AheadTyped, SendAhead DEF Ahead
    <2>4. cut => reader'.pc = "gone"
      BY <2>1, <2>2 DEF CutInv, Blocks, CutIsOpen, Terminal
    <2> QED
      BY <1>1, <2>1, <2>2, <2>3, <2>4, Unmoved DEF CutInv
  <1>8. CASE SendAborted
    <2>1. /\ reader.pc = "send" /\ out' = out /\ cut' = cut
          /\ reader' = [reader EXCEPT !.pc = "gone", !.frame = NoFrame]
      BY <1>8 DEF SendAborted
    <2>2. /\ reader'.pc = "gone" /\ reader'.frame = NoFrame
          /\ reader'.stopped = reader.stopped
          /\ reader'.open = reader.open /\ reader'.used = reader.used
      BY <2>1, AheadTyped DEF Readers
    <2>3. Ahead = Ahead' \cup ToSet(reader.frame.events)
      <3>1. Ahead' = AheadOf(hand, NoFrame, out) /\ Ahead = AheadOf(hand, reader.frame, out)
        BY <1>1, <2>1, <2>2 DEF Ahead
      <3> QED
        BY <3>1, OfferAhead
    <2>4. cut => \A ev \in ToSet(reader.frame.events) : ev.type # "block_start"
      BY <2>1 DEF CutInv, Blocks, CutIsOpen
    <2> QED
      BY <1>1, <2>1, <2>2, <2>3, <2>4, Unmoved DEF CutInv
  <1> QED
    BY <1>1, <1>2, <1>3, <1>4, <1>5, <1>6, <1>7, <1>8 DEF Reader

\* What a step of the loop inside an attempt does.
LEMMA LoopStep ==
  ASSUME IInv, CutInv, Receive \/ NoteError \/ HoldBack \/ PassOn \/ NextFrame
  PROVE  Blocks' /\ Within' /\ phase \notin {"opening", "done"} /\ phase' # "opening"
  <1>1. /\ reader' = reader /\ agg' = agg /\ source' = source /\ cut' = cut
        /\ phase \in {"open", "frame", "event"} /\ phase' \in {"open", "frame"}
    BY DEF Receive, NoteError, HoldBack, PassOn, NextFrame, NextEvent, AtEvent, AtEnd, Waiting,
           Passing, seen, world
  <1>2. ~agg.overflow
    BY DEF Receive, NoteError, HoldBack, PassOn, NextFrame, AtEvent, AtEnd, Waiting, Passing,
           Overflow, CutInv, Within
  <1>3. Within'
    BY <1>1, <1>2 DEF Within
  <1>4. CASE Receive
    <2>1. out # <<>> /\ hand = NoFrame /\ hand' = Head(out) /\ out' = Tail(out)
      BY <1>4 DEF Receive, Waiting, IInv, Places
    <2>2. Ahead' = Ahead
      BY <1>1, <2>1, AheadTyped, ReceiveAhead DEF Ahead
    <2> QED
      BY <1>1, <1>3, <2>2, LoopBlocks DEF CutInv
  <1>5. CASE NoteError \/ HoldBack \/ PassOn
    <2>1. /\ hand.events # <<>> /\ hand' = Rest /\ out' = out
          /\ Event.type = "block_start" => phase = "event"
      BY <1>5 DEF NoteError, HoldBack, PassOn, NextEvent, AtEvent, Passing, IInv, Places
    <2>2. Ahead = Ahead' \cup {Event}
      <3>1. hand'.events = Tail(hand.events)
        BY <2>1, AheadTyped, RestFacts
      <3>2. AheadOf(hand, reader.frame, out)
              = AheadOf(hand', reader.frame, out) \cup {Head(hand.events)}
        BY <2>1, <3>1, AheadTyped, RestAhead
      <3> QED
        BY <1>1, <2>1, <3>2 DEF Ahead, Event
    <2>3. Event.type = "block_start" => Event.index \in agg.order
      BY <1>2, <2>1 DEF CutInv, Within
    <2> QED
      BY <1>1, <1>3, <2>2, <2>3, LoopBlocks DEF CutInv
  <1>6. CASE NextFrame
    <2>1. hand.events = <<>> /\ hand' = NoFrame /\ out' = out
      BY <1>6 DEF NextFrame, AtEnd
    <2>2. Ahead' = Ahead
      <3>1. ToSet(hand.events) = ToSet(NoFrame.events)
        BY <2>1, FrameFacts
      <3> QED
        BY <1>1, <2>1, <3>1 DEF Ahead, AheadOf
    <2> QED
      BY <1>1, <1>3, <2>2, LoopBlocks DEF CutInv
  <1> QED
    BY <1>1, <1>4, <1>5, <1>6

\* What collecting an event does.
LEMMA TakeStep ==
  ASSUME IInv, CutInv, Take
  PROVE  Blocks' /\ Within' /\ phase' = "event"
  <1>1. /\ reader' = reader /\ out' = out /\ hand' = hand /\ source' = source /\ cut' = cut
        /\ phase = "frame" /\ phase' = "event" /\ hand.events # <<>>
        /\ agg' = Add(agg, Event) /\ Event.type # "error"
    BY DEF Take, AtEvent, seen, world
  <1>2. Event \in Ahead
    BY <1>1, AheadTyped, MembersAhead DEF Ahead, Event
  <1>3. Event \in Events /\ Event' = Event
    BY <1>1, <1>2, AheadTyped, EventFacts DEF Event
  <1>4. Touches(agg, Event, agg')
    BY <1>1, <1>3, AddTouches DEF IInv
  <1>5. Ahead' = Ahead /\ ~agg.overflow
    BY <1>1 DEF Ahead, CutInv, Within
  <1>6. \A i : (StopAhead(i)' <=> StopAhead(i)) /\ (StartAhead(i)' <=> StartAhead(i))
    BY <1>5 DEF StopAhead, StartAhead
  <1>7. \A i : ~StopAhead(i) /\ i \notin agg.closed => i \notin agg'.closed
    BY <1>2, <1>4 DEF Touches, StopAhead
  <1>8. ~agg'.overflow => \A i : StillOpen(i) => StillOpen(i)'
    BY <1>4, <1>6, <1>7 DEF StillOpen, Touches
  <1>9. UnusedIsFresh'
    BY <1>1, <1>6, <1>7 DEF CutInv, Blocks, UnusedIsFresh
  <1>10. OpenIsOpen'
    BY <1>1, <1>5, <1>8 DEF CutInv, Blocks, OpenIsOpen
  <1>11. CutIsOpen'
    BY <1>1, <1>5, <1>8 DEF CutInv, Blocks, CutIsOpen
  <1>13. Within'
    BY <1>1, <1>3, <1>4 DEF Within, Touches
  <1> QED
    BY <1>1, <1>9, <1>10, <1>11, <1>13 DEF Blocks

\* An answer ends normally only with the last frame of a stream that
\* announced no error, and says so if it is truncated.
LEMMA NormalExit ==
  ASSUME IInv, Exit, client'.ending = "normal"
  PROVE  /\ hand.done /\ hand.events = <<>> /\ phase = "frame"
         /\ SayTruncated
  <1>1. Types /\ BeforeTheEnd /\ Bridging /\ client.ending = "none"
    BY ExitForms DEF IInv, BeforeTheEnd, Bridging
  <1>2. ~ClientLeft
    <2>1. ASSUME ClientLeft PROVE FALSE
      BY <1>1, <2>1, ClientLeftForms, EndingFacts
    <2> QED
      BY <2>1
  <1>3. ASSUME NEW err, NEW why, Finish(err, why) PROVE err = NoError
    BY <1>1, <1>3, FinishForms, EndingFacts
  <1>4. LastFrame /\ Finish(streamErr, "in-band")
    BY <1>2, <1>3, ExitForms
  <1>5. FinishOk
    BY <1>3, <1>4 DEF Finish
  <1>6. SayTruncated
    <2>1. ASSUME NEW outcome, NEW err, NEW why, GiveUp(outcome, err, why) PROVE FALSE
      BY <1>1, <2>1 DEF GiveUp
    <2>2. ASSUME NEW err, NEW why, NEW status, BreakOff(err, why, status) PROVE FALSE
      BY <2>2, EndForms, EndingFacts
    <2> QED
      BY <1>5, <2>1, <2>2 DEF FinishOk
  <1> QED
    BY <1>4, <1>6 DEF LastFrame, AtEnd

\* The way out of the loop.
LEMMA ExitStep ==
  ASSUME IInv, CutInv, EndsInOrder, Exit
  PROVE  Blocks' /\ phase' = "done" /\ NormalIsDone' /\ TruncationIsSaid'
  <1>1. /\ phase' = "done" /\ reader' = reader /\ source' = source /\ cut' = cut
        /\ hand' = hand /\ Bridging
    BY ExitEnds, ExitForms DEF EndsAttempt, world
  <1>2. Blocks'
    BY <1>1 DEF CutInv, Blocks, UnusedIsFresh, OpenIsOpen, CutIsOpen
  <1>3. NormalIsDone'
    BY <1>1, NormalExit DEF NormalIsDone
  <1>4. ASSUME client'.ending = "normal", cut
        PROVE  StopReason(agg') \notin {"", "end_turn"}
    <2>1. hand.done /\ hand.events = <<>> /\ phase = "frame" /\ SayTruncated
      BY <1>4, NormalExit
    <2>2. Ahead = {}
      <3>1. reader.pc = "gone" /\ out = <<>>
        BY <2>1 DEF IInv, LastOfAll, Terminal
      <3>2. reader.frame.events = <<>>
        BY <3>1, AheadTyped, FrameFacts
      <3> QED
        BY <2>1, <3>1, <3>2, AheadTyped, MembersAhead DEF Ahead
    <2>3. PICK i \in Indexes : StillOpen(i)
      BY <1>4, <2>1 DEF CutInv, Within, Blocks, CutIsOpen
    <2>4. HasOpenBlocks(agg)
      BY <2>2, <2>3 DEF StillOpen, StartAhead, HasOpenBlocks, OpenBlocks
    <2>5. agg.stop # "end_turn"
      BY <1>4 DEF CutInv, Blocks, CutIsOpen, EndsInOrder, NamedEnd
    <2>6. CASE StopReason(agg) # ""
      <3>1. agg' = agg
        BY <2>1, <2>6 DEF SayTruncated, Truncated, Collected
      <3>2. StopReason(agg) # "end_turn"
        BY <2>5 DEF StopReason
      <3> QED
        BY <2>6, <3>1, <3>2
    <2>7. CASE StopReason(agg) = ""
      <3> DEFINE b == [agg EXCEPT !.stop = "max_tokens"]
      <3>1. agg' = Add(agg, MessageDelta("max_tokens"))
        BY <2>1, <2>4, <2>7 DEF SayTruncated, Truncated
      <3>2. agg' = b
        <4>1. Add(agg, MessageDelta("max_tokens")) = b
          BY DEF Add, MessageDelta
        <4> QED
          BY <3>1, <4>1
      <3>3. b.stop = "max_tokens" /\ b.blocks = agg.blocks
        BY DEF IInv, Sound, Aggregators
      <3> HIDE DEF b
      <3>4. StopReason(agg') \in {"tool_use", "max_tokens"}
        BY <3>2, <3>3 DEF StopReason
      <3> QED
        BY <3>4
    <2> QED
      BY <2>6, <2>7
  <1> QED
    BY <1>1, <1>2, <1>3, <1>4 DEF TruncationIsSaid

\* The invariant holds when an attempt begins,
LEMMA CutInit == Init => CutInv
  <1>1. ASSUME Init PROVE CutInv
    <2>1. /\ phase = "opening" /\ source = "none" /\ ~cut /\ agg = Empty
          /\ reader.open = {} /\ client.ending = "none"
      BY <1>1 DEF Init, Untouched
    <2>2. Blocks
      BY <2>1 DEF Blocks, UnusedIsFresh, OpenIsOpen, CutIsOpen
    <2> QED
      BY <2>1, <2>2 DEF CutInv, Fresh, Within, NormalIsDone, TruncationIsSaid
  <1> QED
    BY <1>1

\* and every step keeps it.
LEMMA CutStep ==
  ASSUME ~ClosesAtEnd, EndsInOrder, IInv, IInv', CutInv, [Next]_vars
  PROVE  CutInv'
  <1>1. ASSUME phase' # "done" PROVE NormalIsDone' /\ TruncationIsSaid'
    <2>1. client'.ending = "none"
      BY <1>1 DEF IInv, BeforeTheEnd
    <2> QED
      BY <2>1 DEF NormalIsDone, TruncationIsSaid
  <1>2. CASE UNCHANGED vars \/ ClientCancels \/ BudgetExpires \/ Tick
    <2>1. /\ phase' = phase /\ agg' = agg /\ reader' = reader /\ source' = source /\ cut' = cut
          /\ hand' = hand /\ out' = out /\ client' = client /\ stream' = stream
      BY <1>2 DEF vars, world, locals, seen, ClientCancels, BudgetExpires, Tick
    <2>2. Ahead' = Ahead
      BY <2>1 DEF Ahead
    <2>3. Blocks'
      BY <2>1, <2>2, LoopBlocks DEF CutInv
    <2>4. Event' = Event
      BY <2>1 DEF Event
    <2>5. Fresh' /\ Within' /\ NormalIsDone' /\ TruncationIsSaid'
      BY <2>1, <2>4 DEF CutInv, Fresh, Within, NormalIsDone, TruncationIsSaid
    <2> QED
      BY <2>3, <2>5 DEF CutInv
  <1>3. CASE Open
    <2>1. Blocks' /\ Fresh' /\ Within'
      BY <1>3, OpenBlocksStep
    <2>2. client'.ending # "normal"
      <3>1. /\ client = Untouched /\ source = "none"
            /\ wroteRequest \in BOOLEAN /\ stream \in BOOLEAN
        <4>1. phase = "opening" /\ ~committed /\ source = "none"
          BY <1>3, OpenForms DEF IInv, Types, Places
        <4> QED
          BY <4>1 DEF IInv, Types, BeforeTheEnd, Untouched
      <3>2. client' = client \/ client'.ending # "normal"
        BY <1>3, <3>1, OpenForms, OpenFailsFacts DEF WroteRequest, Opened2xx
      <3> QED
        BY <3>1, <3>2 DEF Untouched
    <2> QED
      BY <2>1, <2>2 DEF CutInv, NormalIsDone, TruncationIsSaid
  <1>4. CASE Reader
    <2>1. /\ Blocks' /\ agg' = agg /\ phase' = phase /\ hand' = hand /\ client' = client
          /\ phase # "opening" /\ reader.pc # "gone"
      BY <1>4, ReaderBlocks
    <2>2. client.ending # "normal"
      BY <2>1 DEF CutInv, NormalIsDone, IInv, LastOfAll, Terminal
    <2>3. Event' = Event
      BY <2>1 DEF Event
    <2>4. Fresh' /\ Within' /\ NormalIsDone' /\ TruncationIsSaid'
      BY <2>1, <2>2, <2>3 DEF CutInv, Fresh, Within, NormalIsDone, TruncationIsSaid
    <2> QED
      BY <2>1, <2>4 DEF CutInv
  <1>5. CASE Receive \/ NoteError \/ HoldBack \/ PassOn \/ NextFrame
    <2>1. Blocks' /\ Within' /\ phase' # "opening"
      BY <1>5, LoopStep
    <2>2. phase' # "done"
      BY <1>5 DEF Receive, NoteError, HoldBack, PassOn, NextFrame, NextEvent, AtEvent, Passing
    <2> QED
      BY <1>1, <2>1, <2>2 DEF CutInv, Fresh
  <1>6. CASE Take
    <2>1. Blocks' /\ Within' /\ phase' = "event"
      BY <1>6, TakeStep
    <2> QED
      BY <1>1, <2>1 DEF CutInv, Fresh
  <1>7. CASE Exit
    <2>1. Blocks' /\ phase' = "done" /\ NormalIsDone' /\ TruncationIsSaid'
      BY <1>7, ExitStep
    <2> QED
      BY <2>1 DEF CutInv, Fresh, Within
  <1> QED
    BY <1>2, <1>3, <1>4, <1>5, <1>6, <1>7, Steps

-----------------------------------------------------------------------------
(* The theorems.                                                           *)

\* The invariant holds throughout every attempt.
THEOREM AttemptInvariance == Spec => []IInv
  <1> QED
    BY InitInv, StepInv, PTL DEF Spec

\* Every variable keeps its type, the channel its capacity and the deadline
\* never lies in the past: in every attempt, whatever the upstream sends.
THEOREM AttemptTypeCorrect == Spec => []TypeOK
  <1>1. IInv => TypeOK
    <2>1. ASSUME IInv PROVE TypeOK
      <3>1. reader \in Readers /\ streamErr \in Announced /\ Types
        BY <2>1 DEF IInv, Types
      <3>2. reader.pc \in {"idle", "scan", "send", "gone"} /\ reader.sent \in 0..MaxFrames
        BY <3>1 DEF Readers
      <3>3. streamErr \in Errors
        BY <3>1, AnnouncedFacts
      <3> QED
        BY <3>1, <3>2, <3>3 DEF Types, TypeOK
    <2> QED
      BY <2>1
  <1> QED
    BY <1>1, AttemptInvariance, PTL

\* finish, clientGone and open return only what Serve was written for.
THEOREM ResultsAreAllowed == Spec => []ResultAllowed
  <1>1. IInv => ResultAllowed
    BY DEF IInv
  <1> QED
    BY <1>1, AttemptInvariance, PTL

\* No path of bridge, finish and fail answers a client twice.
THEOREM ClientsAreAnsweredOnce == Spec => AnsweredOnce
  <1> DEFINE Once == /\ client.status # "none" => client'.status = client.status
                     /\ client.ending # "none" => client' = client
  <1>1. ASSUME IInv, Next PROVE Once
    <2>1. /\ BeforeTheEnd /\ Types /\ client \in [status : Statuses, ending : Endings]
          /\ stream \in BOOLEAN /\ reader \in Readers
      BY <1>1 DEF IInv, Types
    <2>2. CASE client' = client
      BY <2>2
    <2>3. CASE Open
      <3>1. client' = client
        BY <2>1, <2>3, OpenForms DEF WroteRequest, Opened2xx, OpenFails, Types
      <3> QED
        BY <2>2, <3>1
    <2>4. CASE Reader
      <3>1. ReaderOnly
        BY <2>1, <2>4, ReaderForms, ChanAssumption DEF Types
      <3> QED
        BY <2>2, <3>1 DEF ReaderOnly
    <2>5. CASE Take
      <3>1. client = [status |-> IF stream /\ committed THEN "ok" ELSE "none", ending |-> "none"]
        BY <2>1, <2>5 DEF Take, AtEvent, BeforeTheEnd
      <3>2. client' = client \/ client' = Told("ok", "none")
        BY <2>5, ToldFacts DEF Take
      <3>3. client.ending = "none" /\ client.status \in {"ok", "none"}
        BY <3>1
      <3> QED
        BY <3>2, <3>3, ToldFacts
    <2>6. CASE Exit
      <3>1. Bridging
        BY <1>1, <2>6, ExitForms
      <3>2. client = Told(IF stream /\ committed THEN "ok" ELSE "none", "none")
        BY <2>1, <3>1 DEF BeforeTheEnd, Bridging, Told
      <3>3. client.ending = "none" /\ (client.status # "none" => client.status = "ok" /\ stream
                                                               /\ committed)
        BY <3>2, ToldFacts
      <3>4. ASSUME NEW err, NEW why, Finish(err, why), client.status # "none"
            PROVE  client'.status = "ok"
        <4>1. \E outcome, e, told, ending : EndsWith(outcome, e, told, "ok", ending)
          BY <2>1, <3>1, <3>3, <3>4, FinishForms
        <4> QED
          BY <4>1, ToldFacts DEF EndsWith
      <3>5. ASSUME ClientLeft, client.status # "none" PROVE client'.status = "ok"
        BY <3>3, <3>5, ToldFacts DEF ClientLeft
      <3>6. ClientLeft \/ \E err, why : Finish(err, why)
        BY <1>1, <2>6, ExitForms
      <3> QED
        BY <3>3, <3>4, <3>5, <3>6
    <2>7. CASE \/ UNCHANGED vars \/ ClientCancels \/ BudgetExpires \/ Tick
               \/ Receive \/ NoteError \/ HoldBack \/ PassOn \/ NextFrame
      <3>1. client' = client
        BY <2>7
        DEF vars, ClientCancels, BudgetExpires, Tick, Receive, NoteError, HoldBack, PassOn,
            NextEvent, NextFrame
      <3> QED
        BY <2>2, <3>1
    <2> QED
      BY <1>1, <2>3, <2>4, <2>5, <2>6, <2>7, Steps
  <1>2. IInv /\ [Next]_vars => [Once]_vars
    BY <1>1
  <1> QED
    BY <1>2, AttemptInvariance, PTL DEF Spec, AnsweredOnce

\* finish closes an answer normally only if it is whole (bridge.go).
THEOREM NormalAnswersAreWhole == Spec => []NormalMeansWhole
  <1>1. IInv => NormalMeansWhole
    BY DEF IInv
  <1> QED
    BY <1>1, AttemptInvariance, PTL

\* teardownCause puts a break down to the right party (budget.go), and a
\* timeout to a silence that was long enough.
THEOREM TeardownsNameTheirCause == Spec => []TeardownNamesItsCause
  <1>1. IInv => TeardownNamesItsCause
    BY DEF IInv
  <1> QED
    BY <1>1, AttemptInvariance, PTL

\* The decoder's notes are never read while the reader may use it.
THEOREM NotesAreReadLast == Spec => []NotesAfterReader
  <1>1. IInv => NotesAfterReader
    BY DEF IInv
  <1> QED
    BY <1>1, AttemptInvariance, PTL

\* Half a sentence is not the end of a turn: whatever is reordered between the
\* decoder and the loop, an answer whose stream ended inside a block is told
\* to be cut off, by decoders that do not close blocks themselves and for
\* upstreams that do not call an answer complete before its blocks are.
THEOREM TruncationsAreSaid ==
  ASSUME ~ClosesAtEnd
  PROVE  Spec /\ []EndsInOrder => []TruncationIsSaid
  <1>1. EndsInOrder /\ IInv /\ IInv' /\ CutInv /\ [Next]_vars => CutInv'
    BY CutStep
  <1>2. CutInv => TruncationIsSaid
    BY DEF CutInv
  <1> QED
    BY CutInit, <1>1, <1>2, AttemptInvariance, PTL DEF Spec
=============================================================================
