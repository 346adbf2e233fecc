# Verification of model-surge-agent

model-surge-agent is the data plane of a language-model gateway: it takes a client's chat request
in one of three protocols, asks a scheduler (the *relay*) for an upstream target, forwards the
request in the target's own protocol and carries the upstream's stream back, translated. This
directory holds TLA+ models of its core, the TLC configurations that check them, and theorems
checked by TLAPS. Paths below are relative to `src/backend/`.

## The system

```
             Serve (one per client call)                            database (PostgreSQL)
 client --> dispatch --> attempt --> judge --> next target            request log   outbox
               |           |           |        or answer                 ^            ^
               v           v           v                                  |            |
             relay     upstream    report queue --> Worker.Report ----> (direct) ------+
                       (stream)    (goroutine)          |  fails: enqueue              |
                                                        +--> relay <-- Worker.Drain ---+
```

| Component | State | Operations | Talks to |
| --- | --- | --- | --- |
| Serve, `pipeline/pipeline.go` | attempts made, targets tried, trail of attempts, record, report queue | dispatch, attempt, judge the result, retry or answer, report, record | relay client (call), an attempt (call), its report goroutine (channel), recorder (deferred call) |
| Attempt, `pipeline/upstream.go`, `bridge.go` | request context, committed flag, deadline, held-back tail, reader goroutine, frame channel | open, read and decode, carry events, keep-alive, time out, finish | upstream (HTTP), client (ResponseWriter), stream decoder and encoder (calls) |
| Aggregator, `ir/aggregate.go` | blocks by index, which were closed, sizes, stop reason | Add an event; IncompleteTools, UnsafeToClose, HasOpenBlocks, Response, Overflow | the bridge feeds it every event and asks it for the verdict |
| Outbox worker and store, `outbox/outbox.go`, `store/outbox.go` | rows: attempts, next attempt, lease token, dead mark | Report, Run/Drain, Enqueue, Due, Done, Retry, Bury, Revive | Serve's report goroutine, the ticker, shutdown, the administrator, the relay |
| Error taxonomy, `ir/errors.go`, `outcomeFor` | none | classify, downgrade, mark as side-effect risk | everything above |
| Stream codecs, `codec/*/{de,en}code_stream.go` | open blocks, tool calls being put together, terminator seen or sent | Feed, Finish; Encode, Finish | the reader goroutine, the bridge |
| Request path, `codec/*/{de,en}code_request.go`, `codec/{lossy,shape}.go`, `ir/{sanitize,tooldecl}.go` | the decoded request, repaired in place; a shaped copy per attempt | decode, `Sanitize`, `ShapeRequest`, encode, `DescribeLossy` | Serve calls the repair once and the rest once per attempt |
| Caches and guards, `httpapi/{requestid,models_source,health}.go` | ids seen, last models, last probe | claim, fetch once, probe once | handlers, relay, database |
| Shutdown, `cmd/server` | requests in flight, grace and linger | stop accepting, wait, drain the outbox | HTTP server, outbox |
| Everything else | request data only | validation, storage, administration | |

What makes each of them correct:

* *Serve*: the client is answered exactly once; a request that an upstream has in full and
  does not answer is sent to no other target, where it could bill or act twice (disagreement 4 is about what the
  code lets through); every attempt is reported to the relay once, in order; nothing of this
  can make the client wait for the relay.
* *Attempt*: nothing that was cut off is delivered as complete; the party that broke the stream is
  the one that is blamed; every stream and every goroutine ends.
* *Aggregator*: it refuses a truncated answer and only such an answer, within its limits.
* *Outbox*: a report that could not be delivered is kept until it is delivered or its attempts are
  spent; two drains never count one failure twice.
* *Stream codecs*: whatever the upstream sends, the client's protocol sees well-formed frames, everything
  once, calls unmixed, and an end that is a success only if the answer is whole.
* *Request path*: what the client asked for reaches the upstream or is named in a note, and no note is
  false; a body is never sent that its upstream is known to refuse; the repair loses nothing that was said
  and leaves a sound request alone; an attempt does not depend on the targets tried before it.
* *Caches and guards*: at most one probe or fetch per window, no id claimed twice while it is kept.
* *Shutdown*: no report is dropped without being counted.

What is hard about it: four kinds of goroutine share one attempt (handler, reader, keep-alive
timer, budget), a second queue of goroutines delivers reports behind the answer's back, two drains
work on one table, and almost every step can fail with the world changed or unchanged. The request path is
sequential, and hard for another reason: three decoders, four encoders, a dozen shaping steps and the list
of losses have to agree about some two hundred dimensions, each step working on what the one before left. The
hazards, each at its line, are listed in `PROJECT.json`.

## Modules

| Module | Models | Checked by |
| --- | --- | --- |
| `Outcomes` | error classes, retryability, outcomes, the results an attempt may have | used by the next two |
| `Outbox` | worker and store of the outbox, lease tokens, clock, crash, revival | `MCOutbox`, `OutboxProofs` |
| `ReportCustody` | what the outbox promises: a stored report is released only by delivery | refined by `Outbox` |
| `Aggregator` | the aggregator as operators on a record | used by `AggregatorFeed`, `Attempt` and `Translation` |
| `AggregatorFeed` | the aggregator fed by any upstream, with the truth kept beside it | `MCAggregatorFeed`, `AggregatorProofs` |
| `Attempt` | open, reader goroutine, bridge, finish, clock, client, budget | `MCAttempt`, `AttemptProofs` |
| `Pipeline` | Serve with its report queue, over any attempt results | `MCPipeline`, `PipelineProofs` |
| `Events` | `ir.Event` and the shape given to the frames of the protocols | used by the next ten |
| `AnthropicDecoder`, `ChatDecoder`, `ResponsesDecoder`, `GeminiDecoder` | the stream decoders of the upstream protocols | used by `Translation` |
| `AnthropicEncoder`, `ChatEncoder`, `ResponsesEncoder` | the stream encoders of the client protocols | used by `Translation` |
| `WholeAnswers` | answers of upstreams in one body: `DecodeResponse` of each protocol, and the events made of the result | used by `Translation` |
| `WholeReplies` | answers to clients in one body: the aggregator's blocks, and `EncodeResponse` of each protocol | used by `Translation` |
| `Translation` | an upstream, a decoder, the bridge, an encoder, for every pair of protocols | `MCTranslation`, `TranslationProofs` |
| `Requests` | the neutral request and what each protocol declares it can carry | used by the next eight |
| `Sanitize` | the repair: tool names, calls and results, empty and adjacent messages | used by `RequestPath` |
| `Shaping` | `ShapeRequest`, step by step, with its notes | used by `RequestPath` |
| `Lossy` | `DescribeLossy` over requests: the notes | used by `RequestPath` |
| `AnthropicRequest`, `ChatRequest`, `ResponsesRequest`, `GeminiRequest` | the request decoders and encoders (gemini has no decoder) | used by `RequestPath` |
| `RequestPath` | a request decoded, repaired, and sent to any targets in any order | `MCRequestPath`, `RequestProofs` |
| `OutboxProofs` | theorems about `Outbox` | TLAPS |
| `PipelineProofs` | theorems about `Pipeline` | TLAPS |
| `AggregatorLemmas` | what each operation of `Aggregator` keeps | TLAPS |
| `AggregatorProofs` | theorems about `AggregatorFeed` | TLAPS |
| `AttemptProofs` | theorems about `Attempt` | TLAPS |
| `FoldFacts` | induction over a loop, to be instantiated with its step and with what it keeps | TLAPS |
| `TranslationProofs` | what each decoder, each encoder and the bridge keep; theorems about `Translation` | TLAPS |
| `RequestProofs` | theorems about `RequestPath`: attempts do not influence each other, no parameter and no tool is lost in silence, the settings sent are settings the upstream takes | TLAPS |

### Outbox

One record per row of `report_outbox`; the columns keep their meaning, times are ticks of one clock.
Every SQL statement is one step, because PostgreSQL executes it atomically; between two statements
of a flow anything may happen. A *flow* is one execution of `Drain`: the ticker's, and the one
shutdown starts. `Due` picks and leases rows in one step (`ClaimRows`); it may also lease them and
lose the reply (`DueLost`). A send succeeds, fails, or succeeds with its reply lost, which the
worker sees as a failure. `Retry` and `Bury` write through `Fenced`: only if the row still carries
the flow's token. `Done` deletes by id and
token. `Report` is the direct send with the queue as fallback,
and several `Report` calls may carry the same report id. The process may crash at any point: flows
and calls vanish, rows stay.

The history variables (what was delivered, which queueings were acknowledged, how many sends failed
since the row was queued or revived) are for the properties only. `FailureCountedOnce` has two halves, because
there are two ways to charge a report for one failure twice. A late verdict may count a failure again:
`CountsFailedSends` compares attempts with failed sends. And two flows may work on one row at the same time, so that it
really is sent, and fails, twice: `ClaimIsKept` says that as long as the lease of a flow that works on a row runs, no
step hands that row to another flow.

### Aggregator and AggregatorFeed

Content is counted in units; tool input is one of the shapes "", head, whole, broken, which is what
json.Valid can tell apart. A start may bring content or a signature of its own, which `seed` counts
like a delta; none brings input, as no decoder puts any there. `AggregatorFeed` sends events in every order in which
an index is started once and nothing comes for a block behind its end (`InOrder`), and keeps beside the aggregator what the upstream really did to
each block. The verdict of `finish` is compared with that truth.

### Attempt

The opener/bridge, the reader goroutine and the world are three parties that step in any order. One
action of the reader is one frame offered to the bounded channel. The bridge waits in its `select`
(phase "open"), takes a frame (`Receive`) and goes through it event by event, each in two steps: what
the event does to the locals (`NoteError`, or `Take` with the commit), then the limit and what the
client sees of it (`Overflows`, `HoldBack`, `PassOn`, `WriteFails`). The clock, the reader and the
client go on between any two of these steps. Every way out of the loop is `finish` with one of its
exits, or `clientGone`. Cancellation and budget expiry end the one context; the first cause stays its
cause. Keep-alives are actions, too. A frame carries a sequence of events from the constant `Frames`;
a whole-body answer replays one of `Replies`. What the encoder makes of the events it is given is in
`Translation`.

### Pipeline

Serve is one process, the goroutine of its report queue another. An attempt ends in any result of
`Outcomes!AttemptResults`. That set is not an assumption about `Attempt`: the theorem
`ResultsAreAllowed` says that whatever an `Attempt` returns is in it. The one result `Attempt` does not produce,
`Unencodable`, is the failure to encode the request, before `open`. A result also says what became of the
request (`fate`): it did not leave in full, it left and was not answered, it was refused by a redirect or an error
status, or an answer was begun. The code has no such variable: Serve sees the risk flag alone, and
`UnansweredEndsTheCall` and `NoSecondBill` compare what it does with the fates. `Attempt` derives the fate from its
own state (`Fate`), so that `ResultAllowed` covers that flag and fate go together as `Outcomes` has them. The dispatcher may name any
target again, as the real one may.

### Codecs and Translation

A codec is a record with operators `Feed` or `Encode` and `Finish`, as the Go type has those methods; what
it returns is collected in the field `out`. Text is a sequence of tokens, and every token says which
block of the answer it belongs to and which part of the block it is. So whatever reaches the client can be
compared with what the upstream said: doubled, lost, swapped or mixed-up content shows.

`Translation` composes one decoder, the bridge and one encoder. The bridge takes an event as the code does:
errors are noted, the end of the message is held back in `tail`, the rest is encoded at once; `Close` is
`finish` with its four exits. Time, cancellation and failing writes of the same code are in `Attempt`; the
two modules overlap in the aggregator, which both use.

Either side may do without a stream. A client that asked for none (`stream` is `call.Stream`) gets one body: the
bridge writes nothing until the end, the aggregator keeps the blocks (`bridge.content`, kept apart from the
verdict's record so that streamed answers need not carry it), and `WholeReplies` turns them into the parts of a
body. An upstream that ignores `stream: true` answers with one body (`AnswersWhole`, `AnswersWithNothing`):
`WholeAnswers` decodes it and replays it as the events of a stream, which then meet the same bridge. So the four ways
from upstream to client (stream or body, on each side) are held to the same properties: `SaidOnce`,
`CallsKeptApart` and `EndIsHonest` read frames and parts of a body alike, and `WellFormed` has a grammar for bodies.

The upstream actions are the environment. An upstream keeps to its protocol and takes the liberties that the
decoders' comments grant:

* *anthropic*: no head, a block that starts with a delta, whole input in the start, no message_stop;
* *chat*: calls split over chunks and interleaved; an index that changes within a call or is used again
  for another call with an id; an id or a name that comes late or never; a missing `[DONE]`;
* *gemini*: text in increments or as the whole so far, thoughts with and without signature, calls in one part;
* *responses*: items interleaved; parts and items that are not announced; done frames that come alone, early,
  late or after content was sent; an error behind the final frame.

It may fail or break off at any frame. What it may not do: name a call only after having split it over two
indexes, use an index again before the first call is named (the code gives that call up, and says so), give
the id of a call later than its name under the same index, tell of a refusal in done frames only, finish a
call that was never added, or send an increment that repeats the beginning of its text.

### Request path

A request is a record of parameters, tools, the tool choice, the system prompt and messages. The parameters
are a partial function from dimension to value, so that "not given" and "given as zero" differ as they do in
the code; blocks, messages and tools are records whose optional fields are there exactly when they were
given. Dimensions carry the names the notes use, and a note is a pair of a verb (dropped, rewrote, filled, ...)
and such a name; the sentences are left out.

`Decode` is a codec's `DecodeRequest`. `Repair` is `Sanitize`, which Serve calls once on the request all
attempts share. `Attempt` is one call of `EncodeRequestLossy`: shape a copy, encode it, describe the losses of
the request as it was. It may be repeated for any protocol in any order, so a step that changed the shared
request would show in the next attempt. What is on the wire is again a record of this kind, in the vocabulary
of the target, because the properties compare the two: every block of a body carries a tag, and so does whatever
is made of it. Texts are names: what they stand for (blank, ending in a space, a name that is no legal tool name, a
media type) is read off the name by the operators that take the place of the string functions. Yes and no
within such data are names, too, because a partial function that holds numbers, names and truth values at once
is beyond the provers; `d := v` is the record with one field and `f ++ g` merges two of them, the left side first.
The loops of the code that pick elements are `Filter`, any other loop is a fold.

`BodiesAssumption` is what a body is held to: fields have the values their protocol knows (codecs refuse any other
kind of thinking, format, choice or role), counts are positive and lists have members, because every test in the
code takes zero and the empty list for absent.

The properties are contracts of several parts of the code: `ParamsAccounted`, `ToolsAccounted` and
`BlocksAccounted` say that shaping, encoder and notes agree in one direction, `NotesTruthful` in the other;
`WireAccepted` states the rules of the upstreams that the code's comments quote; `Repaired`,
`NothingSaidIsLost` and `UntouchedWhenSound` are the promises of the repair. The exceptions they name
(`ForceTakenBack`, `SaidAnyway`, `NothingToSend`, ...) are the divergences listed below.

## Runs

| Run | Question | Bounds |
| --- | --- | --- |
| `outbox_safety` | Is anything lost or counted twice when two flows race on a row shared by two calls? | 1 row, 2 calls, 2 flows, 3 lease tokens, 2 attempts, 1 crash, 1 revival: one failure of each kind between any two steps. A second row adds no interaction, because no statement relates two rows |
| `outbox_live` | Is every row resolved in the end? | 2 rows in one batch, 1 flow, 1 crash |
| `aggregator_verdict` | Is every stream judged for what it is? | every event over 3 indexes, free-text calls included, under a limit of 2 blocks and 3 units, so that both limits are met and missed |
| `attempt` | Every interleaving of one attempt; does every stream end, and its goroutine? | 3 frames over a channel of 1, so that the reader blocks; 2 indexes with a limit of 1 block; timeouts 1 and 2, so that they differ; the upstream silent at will. The decoder is of the kind that leaves blocks open at the end, the only one a cut-off text can be told from; the kind that closes them (`ClosesAtEnd`) is covered by the proofs, and each decoder as it is by `translation` |
| `attempt_cancel` | disagreement 1 below | 1 frame |
| `pipeline` | Every sequence of attempt results, and does Serve return? | 2 targets, 3 attempts (the default of `MSA_MAX_ATTEMPTS`), so that a middle attempt exists |
| `translation` | Does each of twelve pairs of protocols carry every answer over well-formed, once, unmixed and with an honest end? | 2 blocks of up to 2 tokens, so that blocks interleave and a call has a head and a tail; 7 frames from anthropic, which says least in a frame, 5 from the others, one less of each for a client that wants one body; bodies of up to 2 blocks of every kind a protocol knows, with and without content, signature and id |
| `pipeline_paid_twice` | disagreement 4 below | as `pipeline` |
| `translation_bare`, `translation_cut` | disagreements 2 and 3 below | 1 block, 3 frames |
| `translation_forged` | disagreement 5 below | 1 block, 3 frames |
| `requests` | Does every request reach every target whole or with true notes, in a form the target accepts, and does the repair keep what it must? | For each client protocol all combinations of the parameters that interact (thinking, effort, limits, temperature, forced tools) and all pairs of the others; conversations of up to 3 of some 14 turns, 4 of 6 and 5 of 3, and of 3 turns whose calls and results may lack an id; every kind of block with every set of its optional fields; tools and allow-lists with every mark; the four targets in every order |

Every property of a passing run has a mutant in `PROJECT.json`: a definition with a plausible bug
under which the run fails. The mutated forms stand beside the definitions they replace, marked
*Mutant*.

### Fairness

* Outbox: weak fairness of the clock and of each step of the ticker's flow, strong fairness of the claim
  and of the write of a verdict. The ticker runs as long as the process, after a crash the process is
  started again, and a database that answers now and then lets some claim and some verdict through. Nothing
  is asked of the relay: a send may fail every time, and the row is then buried, which resolves it.
* Attempt: weak fairness of the loop's turns, of the clock, of the reader's steps that depend on no
  upstream, and of a read on a body that was closed or whose context ended (net/http returns then).
  Nothing is asked of the upstream.
* Pipeline: weak fairness of Serve's and of the queue's goroutine. A dispatch, an attempt and a
  delivery end: the first and the last have the relay client's timeout, the second is what
  `EveryStreamEnds` shows.

## Proofs

### Outbox

`OutboxProofs` proves, for every number of calls, reports, flows, tokens and attempts:

* `Invariance`: `Spec => []IInv`, with the inductive invariant `IInv`;
* `TypeCorrect`, `NothingQueuedIsLost`, `DeadLettersAreSpent`: the invariants of the run `outbox_safety`;
* `FailuresCountedOnce`: its action property `FailureCountedOnce`;
* `ImplementsCustody`: `Outbox` implements `ReportCustody` under its refinement mapping.

The invariants the run checks are not inductive: a flow that holds a failed send says nothing about
the row it is about to write. `IInv` adds what ties them together: tokens of different flows differ
and a row's token was given to the flow that holds it, a flow's copy of a row that still carries its
token agrees with the row, and a failure not yet written is the only one the row does not count.
That a claim is kept needs no invariant beyond the types: a flow can be handed a row by `Due` alone, and `Claimable`
leaves out rows whose lease runs (`OthersClaim`, `RunningClaimsAreKept`).
Each action is shown to preserve each part, through lemmas on what an action does to a row. The
assumptions are those named in `Outbox`: positive bounds and a key for every call.

### Pipeline

`PipelineProofs` proves, for every set of targets and every number of attempts:

* `Invariance`: `Spec => []IInv`, with the inductive invariant `IInv`;
* `TypeCorrect`, `UnansweredIsLast`, `EveryAttemptReported`, `EveryCallAnswered`, `RecordCloses`,
  `FinalIsLast`: all invariants of the run `pipeline`;
* `OneAnswer`: its action property `AnsweredOnce`.

`IInv` has nine parts. The invariants of the run speak of what is over; the parts added say what Serve may
rely on while it is under way: the trail has an entry for every attempt that was judged (`TrailCounts`), all
attempts before the present one were safe to repeat and reported with an outcome that leaves the call open
(`EarlierSafe`), the client is untouched until an attempt or the final error reaches it (`ClientFollows`), and the
record has no outcome before the last attempt (`OutcomeNamed`). The argument has three layers. `ResultFacts`
says what any result of an attempt guarantees (`Sound`); it is the only place where the error taxonomy is opened.
Lemmas on sequences show that no step of the queue changes what was handed over, and that a judgement
adds exactly one report to it (`HandedTake`, `HandedDeliver`, `HandedEnqueue`, `Judging`). One lemma per action
combines them. `QueueHasRoom` is why the client never waits for the relay: queued reports are no more
than attempts judged.

The assumptions are those of `Pipeline`: the number of attempts is a natural number (zero stands for one, as in
the code), and no target is the absence of one.

### Aggregator

`AggregatorLemmas` says what each operation of the aggregator keeps; the proofs below and those of `Attempt`
use it. `AggregatorProofs` proves, for every set of indexes, every pair of limits and every upstream that starts
a block once:

* `FeedInvariance`: `Spec => []IInv`;
* `FeedTypeCorrect`, `VerdictsAreJust`, `StopReasonsAreHonest`: all invariants of the run `aggregator_verdict`.

What makes the verdict provable is `Mirror`: as long as no limit tripped, what the aggregator keeps of every
index (open or closed, signed, its input so far) is what was sent for it. The moment a limit trips the verdict is
"too large", and nothing is said of the content any more. One lemma per kind of event shows that the aggregator
and the history move alike (`AddKeeps`).

### Attempt

`AttemptProofs` proves, for every capacity of the channel, every pair of timeouts, all frames an upstream may send
and both kinds of decoder:

* `AttemptInvariance`: `Spec => []IInv`;
* `AttemptTypeCorrect`, `ResultsAreAllowed`, `NormalAnswersAreWhole`, `TeardownsNameTheirCause`,
  `NotesAreReadLast`: the invariants of the run `attempt` but one;
* `ClientsAreAnsweredOnce`: its action property `AnsweredOnce`;
* `TruncationsAreSaid`: the remaining invariant, see below.

`ResultsAreAllowed` and the theorems about `Pipeline` fit together: what one proves of an attempt is what the other
takes an attempt to be. The parts of `IInv`:

* `BeforeTheEnd`: until the attempt is over a client has seen the status line of a committed stream, or nothing;
* `LastOfAll`, `GoneForCause`: nothing follows a last frame, the reader is gone behind it, and goes before it only
  if its context ended. So the notes are read when nobody uses the decoder, and a channel found closed is never
  blamed on an upstream while the context lives, which is what the comment at `bridge.go:94` claims;
* `Clock`: time to the deadline and silence so far are together at least the shorter timeout;
* `BarrenIsEmpty`, `DoneIsTold`: a stream of which nothing was decoded committed nothing; any other is done only
  with its terminator held back, in the frame at hand, in the channel or in the reader. So a normal answer has one.

Each part has a lemma with one step per action. The ways out of the loop are dealt with once (`ExitForms`,
`ExitSafe`), because they share what they leave alone. Assumed are positive timeouts and capacity, that an upstream
error has a class `DecodeError` can name, and that a replayed response ends with its terminator (`RepliesAssumption`,
`ir/replay.go:38`).

`TruncationsAreSaid` proves the sixth invariant of the run, `TruncationIsSaid`, under two hypotheses. The decoder
leaves open what the upstream left open (disagreement 3 is about the others). And in every state `EndsInOrder`
holds: the upstream does not say that its answer is complete while a block is open, except together with the
terminator. Without the second the property is false, because `bridge.go:252` believes whatever reason was named.
Beside `IInv` the proof needs `CutInv`, which relates three parties: `OpenIsOpen` says that a block that is open for
the decoder is open for the aggregator or its start is on its way there (in the reader's hands, in the channel, or
in the frame the loop is at), and that no stop of it is; `UnusedIsFresh` that the loop knows no stop of an index the
decoder has not seen; `CutIsOpen` that behind a stream that ended inside a block nothing but the terminator comes.
When the loop ends normally nothing is on its way, so the block is open for the aggregator, and `SayTruncated` says
so. Take away the hypothesis on order and TLC finds the upstream it excludes; with it, `CutInv` is an invariant of
the run.

### Request path

`FoldFacts` makes induction over loops possible here. The library states its theorems about folds and its induction
rules for every operator, which the provers cannot instantiate. The module states them for its own CONSTANTs `Op`
and `Holds`, and an INSTANCE of it puts the step and the invariant of one loop in their place; the induction itself
(`SetInduction`) is over a set. So the loops of decoders, encoders and repair have theorems although they are folds.

`RequestProofs` proves, for every set of bodies that meets `BodiesAssumption`, `WayInvariance`: `Spec => []InvWay`.
`InvWay` says for every stage what the variables are as functions of the body: in the stage "sent" `wire` and
`notes` are those of the repaired request and the target, so that no attempt shows in a later one. Below it lies
what is known of a request: `Known` says that its parameters are among known dimensions with values the encoders
branch on (`Understood`), its tools are declared with names, its choice one of the forms `decodeToolChoice` returns.
A lemma per decoder shows that it returns such a request, one per pass of the repair that the pass keeps it.

Two of the three properties that say that no loss is silent are proved, too:

* `ParamsShaped`: what the five steps of `shapeParams` do to parameters, for every set of parameters and every
  target. Each step looks at what the one before left, so that there is a lemma for each about what it may change
  and what it then notes, and the theorem composes them.
* `NoParameterIsLost`: `Spec => []ParamsAccounted`. For each of some fifty dimensions and four targets the encoder
  sends it as it is, or the note of `lossy.go` or `shape.go` is there. Dimensions that are treated alike are proved
  in groups (`Switch`, `OnlyIn`); thinking, format, limits and identity each have lemmas of their own, one per
  target.
* `NoToolIsLost`: `Spec => []ToolsAccounted`. A tool is sent with the marks the target can carry, or is taken out by
  the allow-list or as a server tool, with a note; the choice arrives or was rewritten; the list holds on the wire.
  Here the loops `Filter` and `EnforceToolAllowlist` are taken apart by `FilterMembers`.

Of `Repaired` and `WireAccepted` the parts about tools and settings are proved; the parts about messages stay with TLC:

* `RepairedToolsGoverned`: `Spec => [](Repairing => ToolsGoverned)`. After `governToolDecls` every name is legal, not
  empty and its own. `GovernedTo` is the invariant of its loop; that there are as many names as declarations is by
  the library's theorem on bijections.
* `RepairedChoiceFollows`: `Spec => [](Repairing => ChoiceFollows)`. A forced choice of a tool the client declared names a
  declared tool after the renaming. `GovernedTo` says in addition that each name given is taught under its legal form,
  by the first declaration that got it, although a later one may be dropped for it.
* `SettingsAreAccepted`: `Spec => [](Sending => SettingsAccepted)`. `FitForAnthropic` is what shaping establishes
  (`ParamsFitAnthropic`): a budget below the bound, room for the least budget, no sampling and no forced choice next to
  thinking, a temperature in its range. Each of the five steps looks at what the step before left, and the proof is that
  no later one undoes an earlier one: the bound is the same before and after (`BoundKnown`), and thinking that stays
  stays whole (`ThinkingStays`). Then a budget the encoder itself makes from an effort lies between the least and the
  bound (`BudgetMade`), and the choice fits the declarations that are left after four steps about tools
  (`ChoiceShapedFits`).

Of `NotesTruthful` the part about what is filled in is proved:

* `FilledIsTold`: `Spec => [](Sending => FilledMeansInvented)`. The client is told of a bound, a budget or an effort it
  did not give exactly when the encoder makes one up. The notes are made before shaping, so the proof has three
  sides: no note but those on the bound and on thinking says "filled" (`FilledIsForeseen`, with a lemma per family of
  notes on the verbs it uses); shaping takes thinking away as a whole or not at all (`ThinkingLeft`); and a lemma per
  encoder says when it adds a budget or an effort (`DepthSent`). They agree whenever shaping leaves the choice
  alone that the notes looked at; `ForceTakenBack` is the case in which it does not.

Their statements name exceptions (`SpokenFor`, `AsksNothing`, `DepthAccounted`, `NamesAsGiven`); each stands for a
divergence listed below. The proofs are what found the last three of that list: every one is a case in which the
goal could not be reached, and which the bounded bodies of the run did not contain.

### Translation

`TranslationProofs` proves, for every pair of protocols, every bound on blocks and frames, streams and bodies on
either side:

* `Invariant`: `Spec => []IInv`;
* `TypeCorrect` and `HonestEnd`: the invariants `TypeOK` and `EndIsHonest` of the run `translation`. The client is
  told once that its answer is there, and only of an answer the upstream did not fail (disagreement 5 apart); of any
  other it is told an error, or nothing, so that another target can answer.

`EndIsHonest` takes all three parties to hold, and `IInv` has a part for each:

* *The decoder tells of every failure.* `DecoderFeeds`: whatever state it is in, an error in a frame becomes an error
  event. For three protocols that is so at once. A responses decoder keeps silent about a second error and about
  anything behind the final frame, so `Open` adds that what it has reported the bridge knows (`dec.sawError`), and
  that it is done only when the upstream is (`dec.done`).
* *The bridge forgets none and lets no end through before it is known to be one.* What it holds back is the end of the
  message and nothing else (`BridgeReady`), and until it closes the client is within the message (`Relaying`), or has
  been sent nothing if it wants a body or nothing is committed. Nothing is committed before the first frame, which is
  why a whole answer that cannot be decoded may go to another target; and only the anthropic decoder decodes a body
  that is no answer (`OnlyAnthropicForges`).
* *The encoder says it once.* Each of the three is in one of three modes: `Running`, with neither an end nor an error
  among the frames (`Plain`); `Finished`, with one end (`OneEnd`); `Failed`, with an error and no end (`Failing`). No event but the end of
  the message and an error changes the mode (`EncoderStays`), the tail and Finish bring it to `Finished` in whatever
  number they come (`EncoderTakesTail`), and behind an error Finish adds nothing (`EncoderFails`).

The three decoders and encoders of a kind have the same lemmas, which one lemma for any of them joins
(`DecoderFeeds`, `EncoderTakes`, ...). Loops over calls, parts, items, events and blocks are instances of `FoldFacts`. A
lemma per protocol then shows that what its upstream may say are frames its decoder takes, and one per way out of the
bridge (`BreaksOff`, `Closes`, `AdoptKeeps`) what the client is left with. The assumption is that of `Translation`: the
bounds are numbers, and up to three blocks have names for their calls. `IInv` is an invariant of the run, too.

### Only model-checked

* Liveness (`EveryStreamEnds`, `ReaderLetsGo`, `ServeReturns`, ...): fairness and ENABLED are out of the prover's reach.
* `BlocksAccounted`, `NothingSaidIsLost`, `UntouchedWhenSound` of `RequestPath`, and what is left of three: of
  `WireAccepted` all but `SettingsAccepted`, of `Repaired` all but `ToolsGoverned` and `ChoiceFollows`, of
  `NotesTruthful` all but `FilledMeansInvented`. They speak of blocks within messages through `FlattenSeq`,
  `SelectSeq` and traces of conversations, which are recursions over data without a step `FoldFacts` could be
  given, and they identify blocks by tags whose uniqueness the model takes from the bodies. `LossesAreReal`
  compares a note with the name of the parameter it is about; some of those names are joined from parts, which the
  provers treat as unrelated.
* `WellFormed`, `SaidOnce`, `CallsKeptApart` and `CallsExecutable` of `Translation`. They compare what was said with
  what was sent token by token, over the whole sequence of frames (`FlattenSeq`, `SelectSeq`), so an invariant for them
  has to say for each decoder and each encoder which part of every block is where.
* `TruncationIsSaid` where the upstream says the end before it closes its blocks: false, see above.

## Where the code and its text disagree

Five have a run that TLC violates:

1. `attempt_cancel`: a client that cancels while the upstream request is in flight is reported as a
   retryable upstream failure (`pipeline/upstream.go:151`), although `ir/errors.go:44` says a
   cancellation is neither the target's fault nor the service's.
2. `translation_bare`: a call without arguments from an upstream that sends an empty input (gemini without
   `args`, anthropic with an empty `partial_json`) reaches the client with no input at all instead of `{}`,
   because any delta clears `toolPending` (`codec/anthropic/encode_stream.go:380`,
   `codec/chatcompletions/encode_stream.go:536`).
3. `translation_cut`: the stop reason `max_tokens` made up for a truncated stream is appended behind the
   terminator that the anthropic decoder made up (`pipeline/bridge.go:252-256`), and not at all after the
   other decoders, whose `Finish` closes the block and names `end_turn`: the client hears the ordinary end of
   a turn. The test of this path looks for the word anywhere in the body.
4. `pipeline_paid_twice`: only the errors of `Do` are marked with `SideEffectRisk` (`pipeline/upstream.go:151-170`).
   An attempt that fails after a 200, before anything was sent to the client, is retried: a first frame that does
   not come in time, a stream that breaks or announces an error (`pipeline/bridge.go:106-124`, `:261`), one without
   events or, for a client that wants one body, with a cut-off call (`:216-237`), and a body that does not decode
   (`pipeline/upstream.go:398-414`). `ir/errors.go:72` defines the flag as "failed after the request was completely handed
   over", and `src/docs/api.md:3258-3261` calls sending such a request again a second bill and a second run. Comments in
   `bridge.go` want some of these retries, since nothing has reached the client; the text does not except them, as
   it does redirects and error statuses. What does hold is `UnansweredEndsTheCall`.
5. `translation_forged`: an error object in the 200 body of an anthropic upstream that answers without a stream
   is told to the client as a finished answer without content. `DecodeResponse` reads the absent fields as
   empty (`codec/anthropic/decode_stream.go:248-276`). The decoders of the other protocols look for the error
   first; `codec/gemini/decode_stream.go:646-652` calls the result of not looking a forged success and says
   gemini was the only one that lacked the guard. `EndIsHonest` leaves such an answer, and no other (`Forged`), to this run.

Others were met while modelling and have no run of their own:

* Reasoning reaches an anthropic client as deltas of a block that never starts. The chat decoder starts every
  reasoning block without a payload (`codec/chatcompletions/decode_stream.go:446`), and a start made up for an
  unannounced block has none either; the encoder takes both for empty blocks and sends no start
  (`codec/anthropic/encode_stream.go:324`, `:564`), where `:557` says it makes up the missing one. `WellFormed` excepts
  such deltas: `Unstarted`.
* A call without an id is torn from its result: the index of calls leaves it out (`ir/sanitize.go:158`), so the result
  becomes a text, and because the results were counted before that, the call is not dropped as unanswered
  (`:168`, `:248`). `AnsweredInOrder` is therefore asked of conversations in which every call has an id of its own
  (`DistinctCalls`); that nothing that was said is lost is asked of all.
* The deadline is renewed before the frame's events are handled (`bridge.go:89`, `:140`), so the wait
  after the committing frame still has the first-token timeout, where `src/README.md` says the idle
  timeout applies after the commit. `TeardownNamesItsCause` states the weaker bound that holds.
* When Serve stops because of a side-effect risk or a spent budget, the attempt is reported as *retrying*
  (`pipeline/pipeline.go:370-389`), which the relay reads as "another attempt follows" (`relayclient/contract.go:159`, and
  the comment at `pipeline.go:389`). `FinalOutcomeIsLast` states the direction that holds.
* A stream that carried only an error counts as produced; its made-up terminator commits the target
  (`upstream.go:484-506`), where `bridge.go:26` locks a target only for content.
* An error object in a whole 200 body loses its class and becomes retryable (`upstream.go:411`).
* Because of disagreement 3, `TruncationIsSaid` is checked for answers that are not streamed and with the
  anthropic kind of decoder. An upstream that names `end_turn` while a block is open and then breaks off
  is believed (`bridge.go:252`): `EndsInOrder` of `AttemptProofs`.
* The chat decoder announces a nameless call once for every index that leads to it
  (`codec/chatcompletions/decode_stream.go:473`), and loses a call whose index is used again before its name.
* A responses call that is told of in its done frame only gets neither id nor name, and none at all if it has
  no arguments (`codec/responses/decode_stream.go:706`). A refusal in done frames only does not count as one
  for the stop reason (`:352`).
* `codec/responses/decode_stream.go:270` looks for the frame's type in its data, where the switch above prefers
  the event line: a refusal delta without a type in its data becomes text.
* The responses encoder adds no `{}` for a call without arguments; its done frame says there are none. Nor do the
  bodies of chat and responses: a chat body leaves `arguments` out altogether
  (`codec/chatcompletions/encode_stream.go:804-808`), where the stream encoder says a client crashes on an
  empty string (`:36-38`). `CallsExecutable` is therefore about chat streams and anthropic clients.
* A call without an id in the body of a chat upstream stays without (`codec/chatcompletions/decode_request.go:315-331`),
  where its stream decoder makes one up because the other protocols need it
  (`codec/chatcompletions/decode_stream.go:406-411`): `IdOf`.
* The calls of a body that was cut short are to be run (`ir/aggregate.go:462-474`, on purpose); a stream of the same
  answer says it was cut short: `Told`.
* A free-text tool call's input is valid JSON however much of it arrived (`ir/aggregate.go:337-341`), so
  a cut-off one is delivered as complete.
* A block started on a used index inherits its predecessor's closed mark (`ir/aggregate.go:154-158`).
  The upstreams of the models use an index once.

On the request path, where `codec/lossy.go:45-52` calls a silent loss a defect:

* Joining neighbours of one role drops the second one's name, item id and phase without a note
  (`ir/sanitize.go:68-84`); the separator it inserts is a blank text, which by `:386` anthropic answers with a 400.
* Blanks are trimmed from the last block only, and not again when the last message is then dropped
  (`ir/sanitize.go:388-415`).
* A list of allowed tools keeps the old name of a tool that was renamed (`ir/tooldecl.go:102-122`, whose
  comment says every use follows); the tool is then taken for excluded and removed.
* How much to think: of a budget and an effort given together the target gets one, and the other is lost in
  silence (`codec/lossy.go:1193-1217`). `DepthAccounted` states what holds.
* The notes ask whether thinking survives by the tool choice the client made, where shaping may have dropped that
  choice first (`codec/shape.go:349-383`): `ForceTakenBack`.
* A note says that a responses upstream gets words for an image of a type it does not take; the encoder sends
  the image (`codec/lossy.go:518-525`): `SaidAnyway`.
* An image named by a file id loses its file name without a note (`codec/lossy.go:688-694`), and on the way to anthropic
  its order for oversized pictures (`codec/anthropic/encode_request.go:287-292`), which `ir/types.go:275-280`
  wants back word for word.
* A chat file part with an id and an image's file name is taken for an image, and left out with a note on the way
  back to chat, where `codec/chatcompletions/encode_request.go:373` promises it unchanged.
* Refusals within tool results become text without a note (`codec/lossy.go:2284-2294`).
* With a bound of one token a budget is clamped to 0 on the way to gemini (`codec/shape.go:412-417`, so that it stays
  below the bound), and the encoder takes 0 for not given and sends 2048 or more, or the bound itself
  (`codec/gemini/encode_request.go:73-75`, `:102-113`), all of them not below it. The client is told of the 0; if the
  budget it gave is the one made up (8192 without an effort), what it is told was rewritten is sent as it was, and
  `LossesAreReal` is checked for other budgets only. Chat and responses, which have no number for it, make "medium"
  of the 0 if no effort is given (`codec/chatcompletions/encode_request.go:153-155`).
* A schema format without a schema loses its other properties in silence; the name of a chat tool
  message is never sent on.
* A typed responses choice is forwarded although the hosted tool it names was skipped.
* A conversation of nothing but server tools, uploads, thoughts or earlier audio is encoded as an empty list by the
  chat and gemini (and, for audio, the responses) encoders: `NothingToSend`.
* A request without messages is not repaired at all, its tools included (`ir/sanitize.go`, its early return).
* A budget below anthropic's minimum that the client itself gave is sent as it is: `codec/shape.go:420` asks only
  whether the bound on all tokens leaves room for the minimum, where `codec/codec.go:288` calls it the lower bound of
  the budget. Only a budget made from an effort is raised (`codec/anthropic/encode_request.go:224`): `AnthropicThinks`.
* A choice keeps the old name of a renamed tool in its verbatim copy: `applyToolRenames` (`ir/tooldecl.go:102-122`) changes
  the name, and the encoder of the client's own family sends the copy (`codec/chatcompletions/encode_request.go:448`,
  `codec/responses/encode_request.go:453`), so that a tool is forced that is not declared: `NamesAsGiven`.
* Adaptive thinking with a budget: the anthropic decoder keeps the budget (`codec/anthropic/decode_request.go:126-131`), the
  encoder leaves it out next to the adaptive mode (`codec/anthropic/encode_request.go:135-138`), and no note says so
  (`codec/lossy.go:1250-1252`). `ir/types.go:657` calls the two mutually exclusive; no decoder checks it.
* The effort "none" is dropped in silence on the way to anthropic, where thinking that is off says the same: `AsksNothing`.

## Not modelled

`PROJECT.json` lists every component with its status. Left out for good: string and header parsing,
configuration, storage without decisions, test support, the frontend.
Within modelled components: usage and cost figures, headers, capture of bodies, wording of errors and notes,
sizes of single payloads. Of the stream codecs citations, redacted and opaque blocks, media, notes on what was
lost, frames that cannot be parsed and several candidates. Of the request path JSON syntax and
malformed bodies, citations, the parameters of hosted tools, the old `functions` key, the note on a payload's
budget, the half of `lossy.go` that describes responses, `shapeToolIDs` (no protocol declares a limit), signatures
of tool calls, and the depth of `Clone`: what is sent is a function of the request, so sharing
between copies cannot be seen in the model.

## Plan

What would come next, each module to be written so that it can be proved about:

1. *Caches and guards* (`IdGuard`, `CachedModels`, `Checker`): claims distinct within the capacity,
   one fetch or probe per window. `IdGuard` is to be proved. The question for `CachedModels` is whether a caller
   that looked before a failure fetches again behind it: within the merged fetch only the cache is looked at a
   second time, not the recent failure (`httpapi/models_source.go:46-60`).
2. *Shutdown*: grace, linger and drain against calls in flight and the outbox.
3. *Operators*: parameter merge, against a reference definition.
