------------------------------ MODULE Pipeline ------------------------------
(***************************************************************************)
(* Pipeline.Serve (pipeline/pipeline.go): one client call.  Serve asks the *)
(* relay for a target, attempts it, reports what came of it and, if that   *)
(* can help and cannot hurt, goes on to the next target.  Reports go       *)
(* through a queue of the call's own: a second goroutine delivers them in  *)
(* order while Serve goes on, and Serve waits for it before it records the *)
(* call and returns.                                                       *)
(*                                                                         *)
(* An attempt is taken by its results (Outcomes!AttemptResults); module    *)
(* Attempt checks that they are the only ones.                             *)
(***************************************************************************)
EXTENDS Outcomes, Naturals, Sequences, SequencesExt

CONSTANTS Targets,       \* targets the relay may name
          MaxAttempts    \* Opts.MaxAttempts

NoTarget == "no target"

ASSUME AttemptsAssumption == MaxAttempts \in Nat
ASSUME TargetsAssumption == NoTarget \notin Targets

VARIABLES
  stream,     \* call.Stream
  pc,         \* where Serve is
  attempt,    \* attempts begun
  target,     \* the target of this attempt
  res,        \* what the attempt returned
  tried,      \* TriedIDs: targets the relay is told to avoid
  client,     \* what was written to the ResponseWriter: [status, ending]
  rec,        \* the call's Record: [outcome, failed, trail]
  queue,      \* the report queue: [ch, closed, taken, drained]
  delivered,  \* reports handed to the Reporter, in order
  records     \* records written

vars == <<stream, pc, attempt, target, res, tried, client, rec, queue, delivered, records>>

NoReport == [target |-> NoTarget, outcome |-> ""]
NoRes == Result("", NoError, FALSE, "none", "none", "unsent")

Attempts == IF MaxAttempts > 1 THEN MaxAttempts ELSE 1

(* An entry of the trail: the report of an attempt and, for the            *)
(* properties, what the attempt had returned.                              *)
Entry(t, outcome, result) == [target |-> t, outcome |-> outcome, res |-> result]
Report(entry) == [target |-> entry.target, outcome |-> entry.outcome]

Init ==
  /\ stream \in BOOLEAN
  /\ pc = "dispatch" /\ attempt = 0 /\ target = NoTarget /\ res = NoRes /\ tried = <<>>
  /\ client = [status |-> "none", ending |-> "none"]
  /\ rec = [outcome |-> "", failed |-> FALSE, trail |-> <<>>]
  /\ queue = [ch |-> <<>>, closed |-> FALSE, taken |-> NoReport, drained |-> FALSE]
  /\ delivered = <<>> /\ records = <<>>

-----------------------------------------------------------------------------
(* Asking the relay for a target.                                          *)

Dispatch ==
  /\ pc = "dispatch"
  /\ \E t \in Targets : target' = t
  /\ attempt' = attempt + 1
  /\ pc' = "attempt"
  /\ UNCHANGED <<stream, res, tried, client, rec, queue, delivered, records>>

(* dispatchError: no target, so nobody to report on; the client is         *)
(* answered with the relay's refusal.                                      *)
DispatchErrors ==
  LET refused == NewErrors({"authentication", "not_found", "invalid_request", "internal"})
  IN  refused \cup {RetryableErr(e) : e \in refused}

Refused(err) == Result("abnormal", err, FALSE, "none", "none", "unsent")

DispatchFails ==
  /\ pc = "dispatch"
  /\ \E err \in DispatchErrors :
       /\ res' = Refused(err)
       /\ rec' = [rec EXCEPT !.trail = Append(@, Entry(NoTarget, "abnormal", Refused(err)))]
  /\ attempt' = attempt + 1 /\ target' = NoTarget
  /\ pc' = "fail"
  /\ UNCHANGED <<stream, tried, client, queue, delivered, records>>

(* attempt(): encode, open, bridge.  The bridge notes an error in the      *)
(* record whenever it answered with one itself or gave the client up.      *)
Attempt ==
  /\ pc = "attempt"
  /\ res' \in AttemptResults(stream)
  /\ client' = [status |-> res'.status, ending |-> res'.ending]
  /\ rec' = [rec EXCEPT !.failed = @ \/ res'.committed \/ res'.status = "error"]
  /\ pc' = "judge"
  /\ UNCHANGED <<stream, attempt, target, tried, queue, delivered, records>>

-----------------------------------------------------------------------------
(* What Serve makes of a result.  The outcome enters the trail and the     *)
(* queue together, and the record unless another attempt follows.          *)

(* Mutant: the queue has room for the retries only.                        *)
QueueCapShort == Attempts - 1

QueueCap == Attempts

Judge(next, outcome) ==
  /\ pc = "judge" /\ Len(queue.ch) < QueueCap
  /\ pc' = next
  /\ LET entry == Entry(target, outcome, res)
     IN  /\ rec' = [rec EXCEPT !.trail = Append(@, entry),
                               !.outcome = IF next = "dispatch" THEN @ ELSE outcome]
         /\ queue' = [queue EXCEPT !.ch = Append(@, Report(entry))]
  /\ UNCHANGED <<stream, attempt, target, res, client, delivered, records>>

Failed == res.err # NoError

Succeeded == Judge("close", "normal") /\ ~Failed /\ UNCHANGED tried

(* Mutant: the error is answered, although the response was begun.         *)
CommittedFails == Judge("fail", res.outcome) /\ Failed /\ res.committed /\ UNCHANGED tried

(* The response was begun: the target is locked in.                        *)
Committed == Judge("close", res.outcome) /\ Failed /\ res.committed /\ UNCHANGED tried

(* The upstream has the whole request: sending it again may bill twice.    *)
SideEffectRisk ==
  /\ Judge("fail", res.outcome) /\ UNCHANGED tried
  /\ Failed /\ ~res.committed /\ res.err.risk

(* Mutant: whether the error may be retried is all that counts.            *)
RetriableAtRisk == Failed /\ ~res.committed /\ res.err.retryable

Retriable == Failed /\ ~res.committed /\ ~res.err.risk /\ res.err.retryable

(* Mutant: the client is left without an answer.                           *)
NotRetryableSilent ==
  /\ Judge("close", res.outcome) /\ UNCHANGED tried
  /\ Failed /\ ~res.committed /\ ~res.err.risk /\ ~res.err.retryable

NotRetryable ==
  /\ Judge("fail", res.outcome) /\ UNCHANGED tried
  /\ Failed /\ ~res.committed /\ ~res.err.risk /\ ~res.err.retryable

(* The attempts are used up: nobody will retry what is being reported.     *)
Exhausted ==
  /\ Judge("fail", Downgrade(res.outcome)) /\ Retriable /\ attempt = Attempts
  /\ tried' = Append(tried, target)

(* Mutant: a retry reported as if it were the last attempt.                *)
RetryAsLast ==
  /\ Judge("dispatch", Downgrade(res.outcome)) /\ Retriable /\ attempt < Attempts
  /\ tried' = Append(tried, target)

Retry ==
  /\ Judge("dispatch", res.outcome) /\ Retriable /\ attempt < Attempts
  /\ tried' = Append(tried, target)

(* fail(): answer the error in the client's protocol.                      *)
Fail ==
  /\ pc = "fail"
  /\ client' = [status |-> "error", ending |-> "error"]
  /\ rec' = [rec EXCEPT !.failed = TRUE, !.outcome = IF @ = "" THEN "abnormal" ELSE @]
  /\ pc' = "close"
  /\ UNCHANGED <<stream, attempt, target, res, tried, queue, delivered, records>>

-----------------------------------------------------------------------------
(* The report queue's goroutine, and the deferred calls of Serve.          *)

QueueOnly == UNCHANGED <<stream, pc, attempt, target, res, tried, client, rec, records>>

(* Mutant: whichever report comes first, as with a goroutine for each.     *)
TakeAny ==
  /\ queue.taken = NoReport
  /\ \E i \in DOMAIN queue.ch :
       queue' = [queue EXCEPT !.ch = RemoveAt(@, i), !.taken = queue.ch[i]]
  /\ QueueOnly /\ UNCHANGED delivered

Take ==
  /\ queue.ch # <<>> /\ queue.taken = NoReport
  /\ queue' = [queue EXCEPT !.ch = Tail(@), !.taken = Head(queue.ch)]
  /\ QueueOnly /\ UNCHANGED delivered

Deliver ==
  /\ queue.taken # NoReport
  /\ delivered' = Append(delivered, queue.taken)
  /\ queue' = [queue EXCEPT !.taken = NoReport]
  /\ QueueOnly

Drained ==
  /\ queue.closed /\ ~queue.drained /\ queue.ch = <<>> /\ queue.taken = NoReport
  /\ queue' = [queue EXCEPT !.drained = TRUE]
  /\ QueueOnly /\ UNCHANGED delivered

(* Mutant: the channel stays open.                                         *)
CloseForgets ==
  /\ pc = "close"
  /\ pc' = "wait"
  /\ UNCHANGED <<stream, attempt, target, res, tried, client, rec, queue, delivered, records>>

Close ==
  /\ pc = "close"
  /\ queue' = [queue EXCEPT !.closed = TRUE]
  /\ pc' = "wait"
  /\ UNCHANGED <<stream, attempt, target, res, tried, client, rec, delivered, records>>

(* Mutant: Serve does not wait for its reports.                            *)
AwaitNothing ==
  /\ pc = "wait"
  /\ pc' = "record"
  /\ UNCHANGED <<stream, attempt, target, res, tried, client, rec, queue, delivered, records>>

AwaitDrained ==
  /\ pc = "wait" /\ queue.drained
  /\ pc' = "record"
  /\ UNCHANGED <<stream, attempt, target, res, tried, client, rec, queue, delivered, records>>

Record ==
  /\ pc = "record"
  /\ records' = Append(records, rec)
  /\ pc' = "returned"
  /\ UNCHANGED <<stream, attempt, target, res, tried, client, rec, queue, delivered>>

Returned == pc = "returned" /\ UNCHANGED vars

Serve == \/ Dispatch \/ DispatchFails \/ Attempt \/ Succeeded \/ Committed \/ SideEffectRisk
         \/ NotRetryable \/ Exhausted \/ Retry \/ Fail \/ Close \/ AwaitDrained \/ Record

Queue == Take \/ Deliver \/ Drained

Next == Serve \/ Queue \/ Returned

Spec == Init /\ [][Next]_vars

(* Both goroutines are scheduled; a dispatch, an attempt and a delivery    *)
(* end (module Attempt; the relay client has a timeout).                   *)
FairSpec == Spec /\ WF_vars(Serve) /\ WF_vars(Queue)

-----------------------------------------------------------------------------
(* Properties                                                              *)

(* Every variable keeps its type, and enqueue never makes the client wait: *)
(* there is always room for a report.                                      *)
TypeOK ==
  /\ stream \in BOOLEAN
  /\ pc \in {"dispatch", "attempt", "judge", "fail", "close", "wait", "record", "returned"}
  /\ attempt \in 0..Attempts /\ target \in Targets \cup {NoTarget}
  /\ res \in AttemptResults(stream) \cup {Refused(e) : e \in DispatchErrors} \cup {NoRes}
  /\ tried \in Seq(Targets)
  /\ client \in [status : Statuses, ending : Endings]
  /\ rec.outcome \in OutcomeSet \cup {""} /\ rec.failed \in BOOLEAN
  /\ pc = "judge" => Len(queue.ch) < QueueCap

(* The entries of the trail that are reported: all but that of a dispatch  *)
(* that failed, which is the last one.                                     *)
Reports == [i \in {j \in DOMAIN rec.trail : rec.trail[j].target # NoTarget} |-> rec.trail[i]]
ReportsOf(entries) == [i \in DOMAIN entries |-> Report(entries[i])]

(* What was delivered, is being delivered and is queued.                   *)
Handed == delivered \o (IF queue.taken = NoReport THEN <<>> ELSE <<queue.taken>>) \o queue.ch

(* The client is answered once, over all attempts: no attempt and no error *)
(* answer follows a response that was begun.                               *)
AnsweredOnce == [][client.status # "none" => client' = client]_vars

(* A request the upstream has in full and did not answer ends the call: no *)
(* other target gets it, and the client, who knows whether it may be sent  *)
(* again, is told of the failure (pipeline.go).                            *)
UnansweredEndsTheCall ==
  \A i \in DOMAIN rec.trail :
    rec.trail[i].res.fate = "unanswered" =>
      i = attempt /\ (pc = "returned" => client.status = "error")

(* The relay hears of every attempt exactly once and in their order: what  *)
(* was delivered, is being delivered and is queued is the trail.  Nor is   *)
(* it asked again without being told every target that has failed.         *)
ReportsFollowTrail ==
  /\ Handed = ReportsOf(Reports)
  /\ pc = "dispatch" => tried = [i \in DOMAIN Reports |-> Reports[i].target]

(* A call is recorded once, when all its reports are out, under the        *)
(* outcome its last attempt was reported with.                             *)
RecordClosesTheCall ==
  /\ Len(records) <= 1
  /\ records # <<>> =>
       /\ delivered = ReportsOf(Reports)
       /\ records[1].outcome = rec.trail[Len(rec.trail)].outcome
       /\ client.status = "error" => records[1].failed

(* When Serve returns, the client has been answered or had left.           *)
EveryCallIsAnswered ==
  pc = "returned" => client.status # "none" \/ res.err = CanceledError

(* An outcome that the relay takes for the end of a call is never followed *)
(* by another report of that call.                                         *)
FinalOutcomeIsLast ==
  \A i \in DOMAIN delivered :
    delivered[i].outcome \in {"normal", "abnormal", "context_exceeded"}
      => \A j \in DOMAIN Reports : j <= i

(* Serve returns.                                                          *)
ServeReturns == <>(pc = "returned")

(* What the documentation says.                                            *)

(* A request that was sent, that the upstream may have generated for and   *)
(* billed, is not sent to another target: that would be a second bill      *)
(* (docs/api.md, 6.23; ir/errors.go).  A redirect and an error status are  *)
(* not counted, as the documentation does not count them.                  *)
NoSecondBill ==
  \A i, j \in DOMAIN rec.trail :
    rec.trail[i].res.fate \in {"unanswered", "answered"}
      /\ rec.trail[j].res.fate \in {"unanswered", "answered"} => i = j
=============================================================================
