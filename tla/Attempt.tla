------------------------------ MODULE Attempt ------------------------------
(***************************************************************************)
(* One attempt at a target once its request is encoded: Pipeline.open      *)
(* (pipeline/upstream.go), the goroutine upstream.read starts, and         *)
(* Pipeline.bridge, the loop that carries decoded frames to the client     *)
(* (pipeline/bridge.go).                                                   *)
(*                                                                         *)
(* Three parties step in any order: the opener and then the bridge loop;   *)
(* the reader, which blocks on the upstream and feeds a bounded channel;   *)
(* and the world, which cancels the client's context, lets the request     *)
(* budget expire, fails writes, and passes time.  The loop takes an event  *)
(* of a frame in two steps: what it does to the locals, then what the      *)
(* client sees of it.                                                      *)
(***************************************************************************)
EXTENDS Outcomes, Aggregator, Naturals, Sequences, SequencesExt

CONSTANTS ChanCap,           \* capacity of the frame channel (8 in the code)
          FirstToken, Idle,  \* the two timeouts, in ticks
          MaxFrames,         \* bound: frames the upstream sends
          Frames,            \* the event sequences a frame may decode to
          Replies,           \* the event sequences a whole response projects to
          SpokenErrors,      \* classes of error an upstream may answer with
          ClosesAtEnd,       \* which Finish the stream decoder has, see FinishEvents
          CanLeave           \* whether the client may cancel

ErrorEvent(kind) == [type |-> "error", err |-> NewError(kind)]
UpstreamEvents == Events \cup {ErrorEvent(kind) : kind \in UpstreamKinds}

ASSUME TimeoutAssumption == FirstToken \in Nat \ {0} /\ Idle \in Nat \ {0}
ASSUME ChanAssumption == ChanCap \in Nat \ {0} /\ MaxFrames \in Nat
ASSUME SpokenAssumption == SpokenErrors \subseteq UpstreamKinds
ASSUME SwitchAssumption == ClosesAtEnd \in BOOLEAN /\ CanLeave \in BOOLEAN
ASSUME FramesAssumption == Frames \subseteq Seq(UpstreamEvents)

(* ResponseEvents (ir/replay.go) ends with the terminator.                 *)
ASSUME RepliesAssumption ==
  /\ Replies \subseteq Seq(UpstreamEvents)
  /\ \A events \in Replies : \E i \in DOMAIN events : events[i] = Ev("message_stop")

VARIABLES
  stream,        \* call.Stream: the client asked for a stream
  ctx,           \* the request context: "live", "cancelled" or "expired" (budget)
  phase,         \* "opening"; "open", "frame", "event" (bridging); "done"
  wroteRequest,  \* httptrace saw the request leave
  source,        \* what the upstream answered with: "none", "sse", "whole", "empty"
  reader,        \* the reader goroutine: [pc, frame, sent, produced, stopped, open, used]
  out,           \* the frame channel
  hand,          \* f: the frame the loop is at, without the events it is done with
  committed, left, streamErr, tail, agg,  \* locals of bridge(); left = deadline - now
  client,        \* what was written to the ResponseWriter: [status, ending]
  result,        \* what the attempt returned: [outcome, err, committed]
  silent,        \* for the properties: ticks since a frame came
  cause,         \* for the properties: what ended the attempt
  notes,         \* for the properties: the decoder's notes were read
  cut            \* for the properties: the stream ended inside a block

world == <<stream, wroteRequest, source>>
locals == <<hand, committed, left, streamErr, tail, agg>>
seen == <<silent, cause, notes, cut>>
vars == <<world, ctx, phase, reader, out, locals, client, result, seen>>

NoFrame == [events |-> <<>>, err |-> NoError, done |-> FALSE]
EventFrame(events) == [events |-> events, err |-> NoError, done |-> FALSE]
ErrorFrame(err) == [events |-> <<>>, err |-> err, done |-> FALSE]
DoneFrame(events) == [events |-> events, err |-> NoError, done |-> TRUE]
Terminal(frame) == frame.done \/ frame.err # NoError

NoResult == [outcome |-> "", err |-> NoError, committed |-> FALSE]
Untouched == [status |-> "none", ending |-> "none"]

Init ==
  /\ stream \in BOOLEAN
  /\ ctx = "live" /\ phase = "opening" /\ wroteRequest = FALSE /\ source = "none"
  /\ reader = [pc |-> "idle", frame |-> NoFrame, sent |-> 0, produced |-> FALSE,
               stopped |-> FALSE, open |-> {}, used |-> {}]
  /\ out = <<>> /\ hand = NoFrame
  /\ committed = FALSE /\ left = FirstToken /\ streamErr = NoError
  /\ tail = <<>> /\ agg = Empty
  /\ client = Untouched /\ result = NoResult
  /\ silent = 0 /\ cause = "" /\ notes = FALSE /\ cut = FALSE

Min2(a, b) == IF a < b THEN a ELSE b

-----------------------------------------------------------------------------
(* The world.  The first cause of a context's end stays its cause.         *)

ClientCancels ==
  /\ CanLeave /\ ctx = "live" /\ phase # "done"
  /\ ctx' = "cancelled"
  /\ UNCHANGED <<world, phase, reader, out, locals, client, result, seen>>

BudgetExpires ==
  /\ ctx = "live" /\ phase # "done"
  /\ ctx' = "expired"
  /\ UNCHANGED <<world, phase, reader, out, locals, client, result, seen>>

Bridging == phase \in {"open", "frame", "event"}

(* Mutant: the clock runs past the deadline.                               *)
TickPastDeadline ==
  /\ Bridging
  /\ left' = left - 1
  /\ silent' = Min2(silent + 1, FirstToken + Idle)
  /\ UNCHANGED <<world, ctx, phase, reader, out, hand, committed, streamErr, tail, agg>>
  /\ UNCHANGED <<client, result, cause, notes, cut>>

(* Time passes while the loop waits or works: the deadline comes closer.   *)
Tick ==
  /\ Bridging /\ left > 0
  /\ left' = left - 1
  /\ silent' = Min2(silent + 1, FirstToken + Idle)
  /\ UNCHANGED <<world, ctx, phase, reader, out, hand, committed, streamErr, tail, agg>>
  /\ UNCHANGED <<client, result, cause, notes, cut>>

-----------------------------------------------------------------------------
(* open(): build the request, send it, judge the response head.            *)

OpenFails(err, why) ==
  /\ phase' = "done"
  /\ result' = [outcome |-> OutcomeFor(err), err |-> err, committed |-> FALSE]
  /\ cause' = why
  /\ UNCHANGED <<world, ctx, reader, out, locals, client, silent, notes, cut>>

Opening == phase = "opening"

(* No URL for the model name, or no request to be built from it.           *)
BadTarget ==
  /\ Opening /\ ~wroteRequest
  /\ \E err \in NewErrors({"upstream", "internal"}) : OpenFails(err, "target")

WroteRequest ==
  /\ Opening /\ ~wroteRequest
  /\ wroteRequest' = TRUE
  /\ UNCHANGED <<stream, source, ctx, phase, reader, out, locals, client, result, seen>>

(* Do returned an error.  A refused redirect needs a response first and is *)
(* never a side-effect risk; the budget is asked before any other cause; a *)
(* context the client cancelled is not told apart from an upstream fault.  *)
Redirected ==
  /\ Opening /\ wroteRequest
  /\ OpenFails(NewError("upstream"), "redirect")

DoFails ==
  /\ Opening
  /\ \E kind \in {"upstream", "transport"} :
       LET err == IF ctx = "expired" THEN BudgetError ELSE NewError(kind)
       IN  OpenFails(WithRisk(err, wroteRequest), "do")

(* Do gives up because the context ended.                                  *)
DoAborted ==
  /\ Opening /\ ctx # "live"
  /\ LET err == IF ctx = "expired" THEN BudgetError ELSE NewError("upstream")
     IN  OpenFails(WithRisk(err, wroteRequest), "aborted")

(* 3xx without a usable Location, a body that cannot be decompressed, or a *)
(* status outside 2xx, which DecodeError classifies.                       *)
Refused ==
  /\ Opening /\ wroteRequest
  /\ \/ OpenFails(NewError("upstream"), "status")
     \/ \E kind \in SpokenErrors : OpenFails(NewError(kind), "status")

Opened2xx(src) ==
  /\ phase' = "open" /\ source' = src
  /\ reader' = [reader EXCEPT !.pc = "scan"]
  /\ UNCHANGED <<stream, wroteRequest, ctx, out, locals, client, result, seen>>

OpenStream == Opening /\ wroteRequest /\ Opened2xx("sse")

(* adoptWholeResponse: the upstream ignored stream:true.  An empty body is *)
(* kept as a stream without frames, a decoded one is replayed.             *)
OpenEmpty == Opening /\ wroteRequest /\ Opened2xx("empty")
OpenWhole == Opening /\ wroteRequest /\ Opened2xx("whole")

(* The whole body was unreadable, too large, or not a response.  An error  *)
(* object in it, which decodeWholeResponse returns as a classified error,  *)
(* is wrapped like any other decoding failure.                             *)
WholeUndecodable ==
  /\ Opening /\ wroteRequest
  /\ OpenFails(NewError("upstream"), "body")

Open == \/ BadTarget \/ WroteRequest \/ Redirected \/ DoFails \/ DoAborted \/ Refused
        \/ OpenStream \/ OpenEmpty \/ OpenWhole \/ WholeUndecodable

-----------------------------------------------------------------------------
(* The reader goroutine of upstream.read.  Its context ends with the       *)
(* request's, or when bridge returns and closes the stream.                *)

TornDown == ctx # "live" \/ phase = "done"

Reading == reader.pc = "scan"

Offer(frame) == reader' = [reader EXCEPT !.pc = "send", !.frame = frame]

ReaderOnly == UNCHANGED <<world, ctx, phase, locals, client, result, silent, cause, notes>>

(* A replayed or an empty response is one frame.                           *)
OfferWhole ==
  /\ Reading /\ source \in {"whole", "empty"}
  /\ \E events \in IF source = "whole" THEN Replies ELSE {<<>>} :
       Offer(DoneFrame(events))
  /\ ReaderOnly /\ UNCHANGED <<out, cut>>

Said(type, events) == \E i \in DOMAIN events : events[i].type = type
Indexed(type, events) ==
  {events[i].index : i \in {j \in DOMAIN events : events[j].type = type}}

Touched(events) ==
  {events[i].index : i \in {j \in DOMAIN events : "index" \in DOMAIN events[j]}}

(* One upstream frame is decoded; the decoder keeps track of its blocks.   *)
(* It opens no second block on an index.                                   *)
Feed ==
  /\ Reading /\ source = "sse" /\ reader.sent < MaxFrames
  /\ \E events \in Frames :
       /\ Indexed("block_start", events) \cap reader.used = {}
       /\ reader' = [reader EXCEPT !.pc = "send", !.frame = EventFrame(events),
                       !.sent = @ + 1, !.produced = TRUE,
                       !.stopped = @ \/ Said("message_stop", events),
                       !.open = (@ \cup Indexed("block_start", events))
                                  \ Indexed("block_stop", events),
                       !.used = @ \cup Touched(events)]
  /\ ReaderOnly /\ UNCHANGED <<out, cut>>

(* The decoder gives up, the connection breaks, or the context ended.      *)
ReadBroke ==
  /\ Reading /\ source = "sse"
  /\ Offer(ErrorFrame(NewError("upstream")))
  /\ ReaderOnly /\ UNCHANGED <<out, cut>>

(* decoder.Finish, for an upstream that ended without a terminator.  The   *)
(* anthropic decoder adds the terminator only; the decoders of the other   *)
(* protocols close the open blocks first and name a stop reason.           *)
FinishEvents ==
  CASE reader.stopped -> <<>>
    [] ~reader.stopped /\ ~ClosesAtEnd -> <<Ev("message_stop")>>
    [] OTHER -> SetToSeq({Stop(i) : i \in reader.open})
                  \o <<MessageDelta("end_turn"), Ev("message_stop")>>

ReadEOF ==
  /\ Reading /\ source = "sse"
  /\ Offer(DoneFrame(IF reader.produced THEN FinishEvents ELSE <<>>))
  /\ cut' = (~reader.stopped /\ reader.open # {})
  /\ ReaderOnly /\ UNCHANGED out

Send ==
  /\ reader.pc = "send" /\ Len(out) < ChanCap
  /\ out' = Append(out, reader.frame)
  /\ reader' = [reader EXCEPT !.pc = IF Terminal(reader.frame) THEN "gone" ELSE "scan",
                               !.frame = NoFrame]
  /\ ReaderOnly /\ UNCHANGED cut

(* Mutant: the send notices the teardown only while there is room.         *)
SendNoticesLate ==
  /\ reader.pc = "send" /\ TornDown /\ Len(out) < ChanCap
  /\ reader' = [reader EXCEPT !.pc = "gone", !.frame = NoFrame]
  /\ ReaderOnly /\ UNCHANGED <<out, cut>>

SendAborted ==
  /\ reader.pc = "send" /\ TornDown
  /\ reader' = [reader EXCEPT !.pc = "gone", !.frame = NoFrame]
  /\ ReaderOnly /\ UNCHANGED <<out, cut>>

Reader == OfferWhole \/ Feed \/ ReadBroke \/ ReadEOF \/ Send \/ SendAborted

-----------------------------------------------------------------------------
(* The bridge loop, and its ways out.                                      *)

Timeout == IF committed THEN Idle ELSE FirstToken

(* What every way out does and leaves alone.                               *)
Leave(outcome, err, told, why) ==
  /\ phase' = "done"
  /\ result' = [outcome |-> outcome, err |-> err, committed |-> told]
  /\ cause' = why
  /\ UNCHANGED <<world, ctx, reader, out, hand, committed, left, streamErr, silent, cut>>

Collected == UNCHANGED <<tail, agg>>

Wrote(status, ending) == client' = [status |-> status, ending |-> ending]

(* clientGone: nothing more is written.                                    *)
ClientLeft ==
  /\ Leave("normal", CanceledError, TRUE, "gone")
  /\ IF client.status = "ok" THEN Wrote("ok", "cut") ELSE UNCHANGED client
  /\ Collected

(* writeSuccess: the held-back terminator is released.  A streaming client *)
(* may be gone by now; any other answer may fail to encode.                *)
WriteSuccess ==
  /\ Leave("normal", NoError, FALSE, "answered")
  /\ \/ Wrote("ok", "normal")
     \/ stream /\ Wrote("ok", "cut")
     \/ ~stream /\ Wrote("error", "error")

(* Mutant: no stop reason is made up for a truncated answer.               *)
SayNothing == Collected

Truncated == HasOpenBlocks(agg) /\ StopReason(agg) = ""
SayTruncated ==
  IF Truncated THEN /\ agg' = Add(agg, MessageDelta("max_tokens"))
                    /\ tail' = Append(tail, MessageDelta("max_tokens"))
               ELSE Collected

(* Nothing was written: Serve may try another target.                      *)
GiveUp(outcome, err, why) == Leave(outcome, err, FALSE, why) /\ Collected /\ UNCHANGED client

(* The answer was begun: the error ends it.                                *)
BreakOff(err, why, status) ==
  Leave("abnormal", err, TRUE, why) /\ Collected /\ Wrote(status, "error")

(* Mutant: a streaming client is answered with an error response, too.     *)
FinishErrorAsResponse(err, why) ==
  \/ committed /\ BreakOff(err, why, "error")
  \/ ~committed /\ GiveUp(OutcomeFor(err), err, why)

FinishError(err, why) ==
  \/ committed /\ BreakOff(err, why, IF stream THEN "ok" ELSE "error")
  \/ ~committed /\ GiveUp(OutcomeFor(err), err, why)

Unsafe == UnsafeToClose(agg) # {}

(* Mutant: an unsafe answer swaps the target even if it was streamed.      *)
FinishOkSwaps ==
  \/ ~committed /\ GiveUp("retrying", NewError("upstream"), "no events")
  \/ committed /\ Unsafe /\ GiveUp("retrying", NewError("upstream"), "unsafe")
  \/ committed /\ ~Unsafe /\ SayTruncated /\ WriteSuccess

(* Mutant: whatever was committed is closed as a success.                  *)
FinishOkTrusts ==
  \/ ~committed /\ GiveUp("retrying", NewError("upstream"), "no events")
  \/ committed /\ SayTruncated /\ WriteSuccess

FinishOk ==
  \/ ~committed /\ GiveUp("retrying", NewError("upstream"), "no events")
  \/ committed /\ Unsafe /\ ~stream /\ GiveUp("retrying", NewError("upstream"), "unsafe")
  \/ committed /\ Unsafe /\ stream /\ BreakOff(NewError("upstream"), "unsafe", "ok")
  \/ committed /\ ~Unsafe /\ SayTruncated /\ WriteSuccess

Finish(err, why) == IF err = NoError THEN FinishOk ELSE FinishError(err, why)

(* teardownCause, for a stream that ended without being done.              *)
TeardownError(announced, upstreamErr) ==
  CASE ctx = "expired" -> BudgetError
    [] ctx # "expired" /\ announced # NoError -> announced
    [] OTHER -> upstreamErr

(* Mutant: only a closed channel asks whether the client left.             *)
TearDownOneSided(announced, upstreamErr, why) ==
  IF ctx = "cancelled" /\ why = "closed" THEN ClientLeft
  ELSE Finish(TeardownError(announced, upstreamErr), why)

TearDown(announced, upstreamErr, why) ==
  IF ctx = "cancelled" THEN ClientLeft
  ELSE Finish(TeardownError(announced, upstreamErr), why)

-----------------------------------------------------------------------------
(* The bridge loop: a frame, event by event.                               *)

Waiting == phase = "open"

(* The deadline is pushed back by the timeout in force when the frame      *)
(* arrives, before the frame's events can change it.                       *)
Receive ==
  /\ Waiting /\ out # <<>>
  /\ phase' = "frame" /\ hand' = Head(out) /\ out' = Tail(out)
  /\ left' = Timeout /\ silent' = 0
  /\ UNCHANGED <<world, ctx, reader, committed, streamErr, tail, agg>>
  /\ UNCHANGED <<client, result, cause, notes, cut>>

(* The channel was closed before a last frame came through.                *)
ReceiveClosed ==
  /\ Waiting /\ out = <<>> /\ reader.pc = "gone"
  /\ TearDown(NoError, NewError("upstream"), "closed")
  /\ UNCHANGED notes

Broken ==
  /\ phase = "frame" /\ hand.err # NoError
  /\ TearDown(streamErr, hand.err, "broke")
  /\ UNCHANGED notes

(* The loop is at an event, and what is left of the frame after it.        *)
AtEvent == phase = "frame" /\ hand.err = NoError /\ hand.events # <<>>
Event == Head(hand.events)
Rest == [hand EXCEPT !.events = Tail(hand.events)]

NoteError ==
  /\ AtEvent /\ Event.type = "error"
  /\ streamErr' = Event.err /\ hand' = Rest
  /\ UNCHANGED <<world, ctx, phase, reader, out, committed, left, tail, agg>>
  /\ UNCHANGED <<client, result, seen>>

(* The event is collected; the first one commits the answer.               *)
Take ==
  /\ AtEvent /\ Event.type # "error"
  /\ phase' = "event" /\ agg' = Add(agg, Event) /\ committed' = TRUE
  /\ IF ~committed /\ stream THEN Wrote("ok", "none") ELSE UNCHANGED client
  /\ UNCHANGED <<world, ctx, reader, out, hand, left, streamErr, tail, result, seen>>

Overflows ==
  /\ phase = "event" /\ Overflow(agg)
  /\ Finish(OverflowError, "overflow")
  /\ UNCHANGED notes

Passing == phase = "event" /\ ~Overflow(agg)
HeldBack == Event.type \in {"message_delta", "message_stop"}

NextEvent ==
  /\ phase' = "frame" /\ hand' = Rest
  /\ UNCHANGED <<world, ctx, reader, out, committed, left, streamErr, agg>>
  /\ UNCHANGED <<client, result, seen>>

HoldBack == Passing /\ HeldBack /\ tail' = Append(tail, Event) /\ NextEvent

(* The event is written to a streaming client, which may have left.        *)
PassOn == Passing /\ ~HeldBack /\ NextEvent /\ UNCHANGED tail
WriteFails == Passing /\ ~HeldBack /\ stream /\ ClientLeft /\ UNCHANGED notes

AtEnd == phase = "frame" /\ hand.err = NoError /\ hand.events = <<>>

NextFrame ==
  /\ AtEnd /\ ~hand.done
  /\ phase' = "open" /\ hand' = NoFrame
  /\ UNCHANGED <<world, ctx, reader, out, committed, left, streamErr, tail, agg>>
  /\ UNCHANGED <<client, result, seen>>

LastFrame ==
  /\ AtEnd /\ hand.done
  /\ notes' = TRUE
  /\ Finish(streamErr, "in-band")

(* Mutant: the decoder's notes are read on a timeout, too.                 *)
TimerReadsNotes ==
  /\ Waiting /\ left = 0
  /\ Finish(NewError("timeout"), "timer")
  /\ notes' = TRUE

TimerFires ==
  /\ Waiting /\ left = 0
  /\ Finish(NewError("timeout"), "timer")
  /\ UNCHANGED notes

(* Mutant: a keep-alive restarts the timer.                                *)
HeartbeatPostpones ==
  /\ Waiting /\ stream /\ committed
  /\ left' = Timeout
  /\ UNCHANGED <<world, ctx, phase, reader, out, hand, committed, streamErr, tail, agg>>
  /\ UNCHANGED <<client, result, seen>>

(* A keep-alive frame goes to a committed stream.  It moves no deadline:   *)
(* it is no sign of life from the upstream.                                *)
Heartbeat ==
  /\ Waiting /\ stream /\ committed
  /\ \/ UNCHANGED vars
     \/ ClientLeft /\ UNCHANGED notes

Bridge == Receive \/ ReceiveClosed \/ Broken \/ NoteError \/ Take \/ Overflows
            \/ HoldBack \/ PassOn \/ WriteFails \/ NextFrame \/ LastFrame \/ TimerFires

(* The attempt is over.                                                    *)
Finished == phase = "done" /\ UNCHANGED vars

Next == ClientCancels \/ BudgetExpires \/ Tick \/ Open \/ Reader \/ Bridge
          \/ Heartbeat \/ Finished

Spec == Init /\ [][Next]_vars

(* The loop and the reader are scheduled and the clock runs; a read of a   *)
(* body whose stream was closed or cancelled returns.  Nothing is asked of *)
(* the upstream, which may stay silent forever.                            *)
Fairness ==
  /\ WF_vars(Tick)
  /\ WF_vars(Bridge)
  /\ WF_vars(OfferWhole)
  /\ WF_vars(Send)
  /\ WF_vars(SendAborted)
  /\ WF_vars(TornDown /\ ReadBroke)

FairSpec == Spec /\ Fairness

-----------------------------------------------------------------------------
(* Properties                                                              *)

Errors == Error \cup {NoError}

(* Every variable keeps its type.                                          *)
TypeOK ==
  /\ stream \in BOOLEAN /\ wroteRequest \in BOOLEAN
  /\ ctx \in {"live", "cancelled", "expired"}
  /\ phase \in {"opening", "open", "frame", "event", "done"}
  /\ source \in {"none", "sse", "whole", "empty"}
  /\ reader.pc \in {"idle", "scan", "send", "gone"} /\ reader.sent \in 0..MaxFrames
  /\ Len(out) <= ChanCap
  /\ committed \in BOOLEAN /\ left \in Nat /\ streamErr \in Errors
  /\ client \in [status : Statuses, ending : Endings]
  /\ result.err \in Errors /\ result.outcome \in OutcomeSet \cup {""}

(* The status line is written once, and nothing follows the end of a body: *)
(* no path of bridge, finish and fail answers a client twice.              *)
AnsweredOnce ==
  [][/\ client.status # "none" => client'.status = client.status
     /\ client.ending # "none" => client' = client]_vars

(* What became of the request: a 2xx head is an answer, also when its body *)
(* is not one.                                                             *)
Fate ==
  CASE source # "none" \/ cause = "body" -> "answered"
    [] source = "none" /\ cause \in {"redirect", "status"} -> "refused"
    [] source = "none" /\ cause \in {"target", "do", "aborted"} ->
         IF wroteRequest THEN "unanswered" ELSE "unsent"

(* Whatever happened, the attempt returns one of the results Serve was     *)
(* written for: in particular one that lets Serve swap the target, or      *)
(* answer an error itself, only if nothing was written to the client, and  *)
(* one that carries the risk flag if the request was handed over and Do    *)
(* failed (upstream.go, open).                                             *)
ResultAllowed ==
  phase = "done" =>
    Result(result.outcome, result.err, result.committed, client.status, client.ending, Fate)
      \in AttemptResults(stream)

(* An answer that ends normally was told complete: the upstream reported   *)
(* no error, the terminator is in it, and no tool call or reasoning block  *)
(* in it was cut off (bridge.go: a closing frame must not disguise a       *)
(* truncated answer as a complete one).                                    *)
NormalMeansWhole ==
  client.ending = "normal" =>
    /\ streamErr = NoError
    /\ UnsafeToClose(agg) = {}
    /\ Contains(tail, Ev("message_stop"))

(* Half a sentence is not the end of a turn (bridge.go): an answer whose   *)
(* stream ended inside a block does not tell the client that it is         *)
(* complete, neither outright nor by leaving the stop reason empty.  Here  *)
(* it is stated of the body of an answer that was not streamed.            *)
TruncationIsSaid ==
  client.ending = "normal" /\ cut /\ ~stream =>
    StopReason(agg) \notin {"", "end_turn"}

(* A stream that broke off, on either of the two paths that can notice it, *)
(* is put down to the budget, to the client, to the error the upstream     *)
(* announced in the stream, or to the break, in this order (budget.go);    *)
(* and to silence only after one as long as the shorter of the timeouts.   *)
TeardownNamesItsCause ==
  /\ phase = "done" /\ cause \in {"broke", "closed"} =>
       /\ ctx # "cancelled"
       /\ ctx = "expired" => result.err = BudgetError
       /\ ctx = "live" /\ streamErr # NoError => result.err = streamErr
  /\ phase = "done" /\ cause = "timer" => silent >= Min2(FirstToken, Idle)

(* The decoder's notes are read only after the reader goroutine has let    *)
(* go of the decoder (bridge.go: anywhere else it would be a data race).   *)
NotesAfterReader == notes => reader.pc = "gone"

(* However long the upstream stays silent and however many keep-alives are *)
(* sent meanwhile, an opened stream comes to its end.                      *)
EveryStreamEnds == Bridging ~> phase = "done"

(* When the attempt is over its reader goroutine goes away, even if it was *)
(* blocked on a full channel nobody drains any more.                       *)
ReaderLetsGo == phase = "done" ~> reader.pc \in {"idle", "gone"}

(* What the documentation says.                                            *)

(* A client that cancels while the target is being opened is not that      *)
(* target's failure, and no other target is tried (ir/errors.go).          *)
CancelBeforeCommitIsNoFailure ==
  phase = "done" /\ cause = "aborted" /\ ctx = "cancelled" =>
    result.outcome = "normal" /\ ~result.err.retryable
=============================================================================
