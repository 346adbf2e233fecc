--------------------------- MODULE PipelineProofs ---------------------------
(* Proofs about Pipeline, for every set of targets and every number of       *)
(* attempts.                                                                 *)
EXTENDS Pipeline, SequenceTheorems, TLAPS

-----------------------------------------------------------------------------
(* The inductive invariant.                                                  *)

Results == AttemptResults(stream) \cup {Refused(e) : e \in DispatchErrors}
Entries == [target : Targets \cup {NoTarget}, outcome : OutcomeSet, res : Results]
RealReports == [target : Targets, outcome : OutcomeSet]
Queues == [ch : Seq(RealReports), closed : BOOLEAN,
           taken : RealReports \cup {NoReport}, drained : BOOLEAN]
Recs == [outcome : OutcomeSet \cup {""}, failed : BOOLEAN, trail : Seq(Entries)]

Trail == rec.trail
LastEntry == Trail[Len(Trail)]

Safe(r) == r.status = "none" /\ ~r.committed /\ ~r.err.risk /\ r.err.retryable
             /\ r.fate # "unanswered"

\* The outcomes an attempt that is followed by another may be reported with.
OpenOutcomes == {"retrying", "transport", "invalid_model"}

\* Where Serve has begun an attempt and not yet judged it.
InAttempt == pc \in {"attempt", "judge"}

\* Where Serve may still go on to another target.
Going == pc \in {"dispatch", "attempt", "judge"}

\* Every variable keeps its type, the compound ones too.
Types ==
  /\ TypeOK
  /\ rec \in Recs
  /\ queue \in Queues
  /\ delivered \in Seq(RealReports)

\* The trail holds an entry for every attempt that was judged.
TrailCounts ==
  /\ Len(Trail) = IF InAttempt THEN attempt - 1 ELSE attempt
  /\ pc = "dispatch" => attempt < Attempts
  /\ ~Going => attempt > 0
  /\ InAttempt => target \in Targets

\* What came before the present attempt was safe to repeat.
EarlierSafe ==
  \A i \in 1..Len(Trail) :
    i < attempt \/ Going => /\ Safe(Trail[i].res)
                            /\ Trail[i].target \in Targets
                            /\ Trail[i].outcome \in OpenOutcomes

\* The client is untouched until an attempt or the final error reaches it.
ClientFollows ==
  /\ pc \in {"dispatch", "attempt", "fail"} => client.status = "none"
  /\ pc = "judge" => /\ res \in AttemptResults(stream)
                     /\ client = [status |-> res.status, ending |-> res.ending]
                     /\ res.status = "error" => rec.failed
  /\ pc \notin {"dispatch", "attempt", "judge", "fail"} =>
       /\ client.status = "none" => res.err = CanceledError
       /\ client.status = "error" => rec.failed
       /\ res.fate = "unanswered" => client.status = "error"

\* The record names the outcome of the last attempt once there is no other;
\* the trail ends with its result.
OutcomeNamed ==
  /\ pc \in {"dispatch", "attempt", "judge"} => rec.outcome = ""
  /\ pc \notin {"dispatch", "attempt", "judge"} => LastEntry.res = res
  /\ pc = "fail" => \/ rec.outcome = LastEntry.outcome
                    \/ rec.outcome = "" /\ LastEntry.outcome = "abnormal"
  /\ pc \notin {"dispatch", "attempt", "judge", "fail"} =>
       rec.outcome = LastEntry.outcome

\* The queue is closed behind the last report and waited for.
QueueEnds ==
  /\ queue.closed => pc \in {"wait", "record", "returned"}
  /\ queue.drained => queue.closed /\ queue.ch = <<>> /\ queue.taken = NoReport
  /\ pc \in {"record", "returned"} => queue.drained

\* The relay is told what it has to avoid.
AvoidsTried == Going => tried = [i \in DOMAIN Trail |-> Trail[i].target]

\* Every attempt that was judged is reported or about to be, in order.
NothingUnreported == Handed = ReportsOf(Reports)

\* The call is recorded as the last step.
RecordedLast == records = IF pc = "returned" THEN <<rec>> ELSE <<>>

IInv ==
  /\ Types
  /\ TrailCounts
  /\ EarlierSafe
  /\ ClientFollows
  /\ OutcomeNamed
  /\ QueueEnds
  /\ AvoidsTried
  /\ NothingUnreported
  /\ RecordedLast

-----------------------------------------------------------------------------
(* What an attempt and a dispatch may result in.                             *)

\* The errors an attempt may fail with before anything reached the client.
FailureErrors == UnsentErrors \cup UnansweredErrors \cup RefusedErrors \cup BridgeErrors

\* An error is named by its class and the two marks Serve branches on.
LEMMA ErrorTypes ==
  /\ DispatchErrors \subseteq Error
  /\ FailureErrors \subseteq Error
  /\ BridgeErrors \subseteq Error
  /\ OverflowError \in Error
  /\ CanceledError \in Error
  /\ NoError \notin Error
  <1>1. \A k \in Kinds : NewError(k) \in Error
    BY DEF NewError, Error, Retryable
  <1>2. \A e \in Error : /\ RetryableErr(e) \in Error
                        /\ Final(e) \in Error
                        /\ WithRisk(e, TRUE) \in Error
    BY DEF RetryableErr, Final, WithRisk, Error
  <1>3. BudgetError \in Error /\ OverflowError \in Error /\ CanceledError \in Error
    BY <1>1, <1>2 DEF BudgetError, OverflowError, CanceledError, Kinds
  <1>4. UpstreamKinds \subseteq Kinds
    BY DEF UpstreamKinds
  <1>5. DispatchErrors \subseteq Error
    BY <1>1, <1>2 DEF DispatchErrors, NewErrors, Kinds
  <1>6. BridgeErrors \subseteq Error
    BY <1>1, <1>3, <1>4 DEF BridgeErrors, NewErrors
  <1>7. FailureErrors \subseteq Error
    <2>1. UnsentErrors \cup RefusedErrors \subseteq Error
      BY <1>1, <1>3, <1>4 DEF UnsentErrors, RefusedErrors, NewErrors, Kinds
    <2>2. NewErrors({"upstream", "transport"}) \cup {BudgetError} \subseteq Error
      BY <1>1, <1>3 DEF NewErrors, Kinds
    <2>3. UnansweredErrors \subseteq Error
      BY <1>2, <2>2 DEF UnansweredErrors
    <2> QED
      BY <1>6, <2>1, <2>3 DEF FailureErrors
  <1>8. NoError \notin Error
    BY DEF NoError, Error, Kinds
  <1> QED
    BY <1>3, <1>5, <1>6, <1>7, <1>8

\* The outcome a class of errors is reported with.
LEMMA OutcomeForType ==
  ASSUME NEW e \in Error
  PROVE  OutcomeFor(e) \in OutcomeSet
  BY DEF OutcomeFor, OutcomeSet

\* A request that was handed over and not answered is marked.
LEMMA RiskIsMarked ==
  ASSUME NEW e \in UnansweredErrors
  PROVE  e.risk = TRUE
  <1>1. BudgetError \in Error
    BY DEF BudgetError, Final, NewError, Error, Retryable, Kinds
  <1>2. NewErrors({"upstream", "transport"}) \subseteq Error
    <2>1. NewError("upstream") \in Error /\ NewError("transport") \in Error
      BY DEF NewError, Error, Retryable, Kinds
    <2> QED
      BY <2>1 DEF NewErrors
  <1>3. \A d \in Error : WithRisk(d, TRUE).risk = TRUE
    BY DEF WithRisk, Error
  <1> QED
    BY <1>1, <1>2, <1>3 DEF UnansweredErrors

\* An error that may be tried again elsewhere leaves the outcome open.
LEMMA OpenOutcomeFor ==
  ASSUME NEW e \in FailureErrors, e.retryable, ~e.risk
  PROVE  OutcomeFor(e) \in OpenOutcomes
  <1>1. \A k \in Kinds : /\ NewError(k).kind = k
                        /\ NewError(k).retryable = Retryable(k)
                        /\ NewError(k) \in Error
    BY DEF NewError, Error, Retryable
  <1>2. \A k \in Kinds : Retryable(k) /\ e = NewError(k) => OutcomeFor(e) \in OpenOutcomes
    BY <1>1 DEF Retryable, OutcomeFor, OpenOutcomes
  <1>3. \A d \in Error : WithRisk(d, TRUE).risk = TRUE /\ Final(d).retryable = FALSE
    BY DEF WithRisk, Final, Error
  <1>4. e # BudgetError
    BY <1>1, <1>3 DEF BudgetError, Kinds
  <1>5. e \notin UnansweredErrors
    <2>1. \A d \in UnansweredErrors : d.risk
      BY RiskIsMarked
    <2> QED
      BY <2>1
  <1>6. PICK k \in Kinds : e = NewError(k)
    BY <1>4, <1>5
    DEF FailureErrors, UnsentErrors, RefusedErrors, BridgeErrors, NewErrors, UpstreamKinds, Kinds
  <1> QED
    BY <1>1, <1>2, <1>6

\* What Serve relies on in the result of an attempt.
Sound(r) ==
  /\ r.outcome \in OutcomeSet
  /\ r.status \in Statuses /\ r.ending \in Endings
  /\ r.committed \in BOOLEAN
  /\ r.err = NoError => r.status # "none"
  /\ r.err # NoError /\ r.committed => r.status # "none" \/ r.err = CanceledError
  /\ r.err # NoError /\ ~r.committed => r.status = "none"
  /\ r.err # NoError /\ ~r.committed /\ r.err.retryable /\ ~r.err.risk
       => r.outcome \in OpenOutcomes
  /\ r.fate = "unanswered" => r.err # NoError /\ ~r.committed /\ r.err.risk

\* Every result of an attempt is sound.
LEMMA ResultFacts ==
  ASSUME NEW r \in AttemptResults(stream), stream \in BOOLEAN
  PROVE  Sound(r)
  <1>1. CASE r \in Unencodable
    <2>1. r = Result("invalid_model", RetryableErr(NewError("internal")), FALSE, "none", "none",
                  "unsent")
      BY <1>1 DEF Unencodable
    <2>2. RetryableErr(NewError("internal")) \in Error
      BY DEF RetryableErr, NewError, Error, Retryable, Kinds
    <2>3. /\ r.outcome = "invalid_model" /\ r.err # NoError /\ r.committed = FALSE
          /\ r.status = "none" /\ r.ending = "none" /\ r.fate = "unsent"
      BY <2>1, <2>2, ErrorTypes DEF Result
    <2> QED
      BY <2>3 DEF Sound, OutcomeSet, Statuses, Endings, OpenOutcomes
  <1>2. CASE r \in NothingToldResults
    <2>1. PICK e \in FailureErrors, fate \in {"unsent", "unanswered", "refused", "answered"} :
             /\ r = Result(OutcomeFor(e), e, FALSE, "none", "none", fate)
             /\ fate = "unanswered" => e \in UnansweredErrors
      BY <1>2 DEF NothingToldResults, FailedBeforeCommit, FailureErrors
    <2>2. e \in Error
      BY ErrorTypes
    <2>3. /\ r.outcome = OutcomeFor(e) /\ r.err = e /\ r.committed = FALSE
          /\ r.status = "none" /\ r.ending = "none" /\ r.fate = fate
      BY <2>1 DEF Result
    <2>4. e # NoError /\ OutcomeFor(e) \in OutcomeSet
      BY <2>2, ErrorTypes, OutcomeForType
    <2>5. fate = "unanswered" => e.risk
      BY <2>1, RiskIsMarked
    <2> QED
      BY <2>3, <2>4, <2>5, OpenOutcomeFor DEF Sound, Statuses, Endings
  <1>3. CASE r \in ClientGone(stream)
    <2>1. /\ r.outcome = "normal" /\ r.err = CanceledError /\ r.committed = TRUE
          /\ r.status \in {"none", "ok"} /\ r.ending \in {"none", "cut"}
          /\ r.fate = "answered"
      BY <1>3 DEF ClientGone, Result
    <2> QED
      BY <2>1, ErrorTypes DEF Sound, OutcomeSet, Statuses, Endings
  <1>4. CASE r \in FailedAfterCommit(stream)
    <2>1. /\ r.outcome = "abnormal" /\ r.err \in BridgeErrors \cup {OverflowError}
          /\ r.committed = TRUE /\ r.status \in {"ok", "error"} /\ r.ending = "error"
          /\ r.fate = "answered"
      BY <1>4 DEF FailedAfterCommit, Result
    <2> QED
      BY <2>1, ErrorTypes DEF Sound, OutcomeSet, Statuses, Endings
  <1>5. CASE r \in Answered(stream)
    <2>1. /\ r.outcome = "normal" /\ r.err = NoError /\ r.committed = FALSE
          /\ r.status \in {"ok", "error"} /\ r.ending \in {"normal", "cut", "error"}
          /\ r.fate = "answered"
      BY <1>5 DEF Answered, Result
    <2> QED
      BY <2>1 DEF Sound, OutcomeSet, Statuses, Endings
  <1> QED
    BY <1>1, <1>2, <1>3, <1>4, <1>5 DEF AttemptResults

\* A dispatch that failed leaves the client to Serve.
LEMMA RefusedFacts ==
  ASSUME NEW e \in DispatchErrors
  PROVE  Refused(e).outcome = "abnormal" /\ Refused(e).status = "none"
  BY DEF Refused, Result

-----------------------------------------------------------------------------
(* The trail and what is reported of it.                                     *)

\* What is on its way to the relay, as the queue's goroutine holds it.
InHand == IF queue.taken = NoReport THEN <<>> ELSE <<queue.taken>>

\* A report of a target is not the absence of one.
LEMMA RealIsReport == NoReport \notin RealReports
  BY TargetsAssumption DEF NoReport, RealReports

\* Entries of the trail name their target, their outcome and their result.
LEMMA EntryType ==
  ASSUME NEW t \in Targets \cup {NoTarget}, NEW o \in OutcomeSet, NEW r \in Results
  PROVE  /\ Entry(t, o, r) \in Entries
         /\ Entry(t, o, r).target = t
         /\ Entry(t, o, r).outcome = o
         /\ Entry(t, o, r).res = r
         /\ Report(Entry(t, o, r)) = [target |-> t, outcome |-> o]
  BY DEF Entry, Entries, Report

\* While every entry has a target, all of them are reported, and one more
\* entry is one more report unless it has none.
LEMMA TrailGrows ==
  ASSUME Trail \in Seq(Entries), \A i \in 1..Len(Trail) : Trail[i].target \in Targets,
         NEW e \in Entries, rec'.trail = Append(Trail, e)
  PROVE  /\ Reports = Trail
         /\ Reports' = IF e.target = NoTarget THEN Trail ELSE Append(Trail, e)
  <1>1. {j \in DOMAIN Trail : Trail[j].target # NoTarget} = DOMAIN Trail
    BY TargetsAssumption, LenProperties
  <1>2. Reports = Trail
    BY <1>1, LenProperties DEF Reports, Trail
  <1> DEFINE longer == Append(Trail, e)
  <1>3. /\ longer \in Seq(Entries) /\ Len(longer) = Len(Trail) + 1
        /\ DOMAIN longer = 1..(Len(Trail) + 1) /\ DOMAIN Trail = 1..Len(Trail)
        /\ \A i \in 1..Len(Trail) : longer[i] = Trail[i]
        /\ longer[Len(Trail) + 1] = e
    BY AppendProperties, LenProperties
  <1>4. Reports' = [i \in {j \in DOMAIN longer : longer[j].target # NoTarget} |-> longer[i]]
    BY DEF Reports, Trail
  <1>5. CASE e.target = NoTarget
    <2>1. {j \in DOMAIN longer : longer[j].target # NoTarget} = DOMAIN Trail
      BY <1>3, <1>5, TargetsAssumption, LenProperties
    <2>2. Reports' = [i \in DOMAIN Trail |-> Trail[i]]
      BY <1>3, <1>4, <2>1
    <2> QED
      BY <1>2, <1>5, <2>2, LenProperties
  <1>6. CASE e.target # NoTarget
    <2>1. {j \in DOMAIN longer : longer[j].target # NoTarget} = DOMAIN longer
      BY <1>3, <1>6, TargetsAssumption, LenProperties
    <2>2. Reports' = [i \in DOMAIN longer |-> longer[i]]
      BY <1>4, <2>1
    <2> QED
      BY <1>2, <1>3, <1>6, <2>2, LenProperties
  <1> QED
    BY <1>5, <1>6

\* The reports of one more entry are one report more.
LEMMA ReportsOfAppend ==
  ASSUME NEW s \in Seq(Entries), NEW e \in Entries
  PROVE  ReportsOf(Append(s, e)) = Append(ReportsOf(s), Report(e))
  <1> DEFINE R == [target : Targets \cup {NoTarget}, outcome : OutcomeSet]
  <1>1. \A x \in Entries : Report(x) \in R
    BY DEF Report, Entries
  <1>2. ReportsOf(s) \in Seq(R) /\ Len(ReportsOf(s)) = Len(s)
    <2>1. \A i \in 1..Len(s) : Report(s[i]) \in R
      BY <1>1
    <2>2. ReportsOf(s) = [i \in 1..Len(s) |-> Report(s[i])]
      BY DEF ReportsOf
    <2> QED
      BY <2>1, <2>2
  <1>3. ReportsOf(Append(s, e)) \in Seq(R) /\ Len(ReportsOf(Append(s, e))) = Len(s) + 1
    BY <1>1 DEF ReportsOf
  <1>4. \A i \in 1..(Len(s) + 1) :
           ReportsOf(Append(s, e))[i] = Append(ReportsOf(s), Report(e))[i]
    BY <1>2 DEF ReportsOf
  <1> QED
    BY <1>1, <1>2, <1>3, <1>4

-----------------------------------------------------------------------------
(* Sequences in three parts.                                                 *)

\* The length of three parts, and the first of them.
LEMMA ThreeParts ==
  ASSUME NEW S, NEW a \in Seq(S), NEW b \in Seq(S), NEW c \in Seq(S)
  PROVE  /\ a \o b \o c \in Seq(S)
         /\ Len(a \o b \o c) = Len(a) + Len(b) + Len(c)
         /\ \A i \in 1..Len(a) : (a \o b \o c)[i] = a[i]
  OBVIOUS

\* What is appended to the last part is appended to the whole.
LEMMA AppendToLast ==
  ASSUME NEW S, NEW a \in Seq(S), NEW b \in Seq(S), NEW c \in Seq(S), NEW r \in S
  PROVE  a \o b \o Append(c, r) = Append(a \o b \o c, r)
  OBVIOUS

\* The head of the last part may stand between it and the first.
LEMMA HeadStandsBetween ==
  ASSUME NEW S, NEW a \in Seq(S), NEW c \in Seq(S), c # <<>>
  PROVE  a \o <<Head(c)>> \o Tail(c) = a \o <<>> \o c
  OBVIOUS

\* What stands between may join the first part.
LEMMA MiddleJoinsFirst ==
  ASSUME NEW S, NEW a \in Seq(S), NEW c \in Seq(S), NEW r \in S
  PROVE  Append(a, r) \o <<>> \o c = a \o <<r>> \o c
  OBVIOUS

-----------------------------------------------------------------------------
(* What the queue does with reports.                                         *)

\* The sequences of reports that make up Handed.
LEMMA HandedType ==
  ASSUME Types
  PROVE  /\ delivered \in Seq(RealReports)
         /\ InHand \in Seq(RealReports)
         /\ queue.ch \in Seq(RealReports)
         /\ Handed = delivered \o InHand \o queue.ch
         /\ Handed \in Seq(RealReports)
         /\ Len(Handed) = Len(delivered) + Len(InHand) + Len(queue.ch)
         /\ \A i \in 1..Len(delivered) : Handed[i] = delivered[i]
  <1>1. /\ delivered \in Seq(RealReports) /\ queue.ch \in Seq(RealReports)
        /\ queue.taken \in RealReports \cup {NoReport}
    BY DEF Types, Queues
  <1>2. InHand \in Seq(RealReports)
    BY <1>1 DEF InHand
  <1>3. Handed = delivered \o InHand \o queue.ch
    BY DEF Handed, InHand
  <1>4. \A a, b, c \in Seq(RealReports) :
           /\ a \o b \o c \in Seq(RealReports)
           /\ Len(a \o b \o c) = Len(a) + Len(b) + Len(c)
           /\ \A i \in 1..Len(a) : (a \o b \o c)[i] = a[i]
    BY ThreeParts
  <1>5. /\ delivered \o InHand \o queue.ch \in Seq(RealReports)
        /\ Len(delivered \o InHand \o queue.ch) = Len(delivered) + Len(InHand) + Len(queue.ch)
        /\ \A i \in 1..Len(delivered) : (delivered \o InHand \o queue.ch)[i] = delivered[i]
    BY <1>1, <1>2, <1>4, Zenon
  <1> QED
    BY <1>1, <1>2, <1>3, <1>5

\* A report that enters the queue is the last one handed over.
LEMMA HandedEnqueue ==
  ASSUME Types, NEW r \in RealReports, UNCHANGED delivered,
         queue' = [queue EXCEPT !.ch = Append(@, r)]
  PROVE  Handed' = Append(Handed, r)
  <1>1. queue'.ch = Append(queue.ch, r) /\ queue'.taken = queue.taken
    BY DEF Types, Queues
  <1>2. InHand' = InHand
    BY <1>1 DEF InHand
  <1>3. Handed' = delivered \o InHand \o Append(queue.ch, r)
    <2>1. Handed' = delivered' \o InHand' \o queue'.ch
      BY DEF Handed, InHand
    <2> QED
      BY <1>1, <1>2, <2>1
  <1>4. \A a, b, c \in Seq(RealReports) : a \o b \o Append(c, r) = Append(a \o b \o c, r)
    BY AppendToLast
  <1>5. delivered \o InHand \o Append(queue.ch, r) = Append(delivered \o InHand \o queue.ch, r)
    BY <1>4, HandedType, Zenon
  <1> QED
    BY <1>3, <1>5, HandedType

\* Taking a report from the queue hands none over and loses none.
LEMMA HandedTake ==
  ASSUME Types, Take
  PROVE  Handed' = Handed
  <1>1. /\ queue.ch \in Seq(RealReports) /\ queue.ch # <<>> /\ queue.taken = NoReport
        /\ delivered \in Seq(RealReports) /\ delivered' = delivered
        /\ queue'.ch = Tail(queue.ch) /\ queue'.taken = Head(queue.ch)
    BY DEF Types, Queues, Take
  <1>2. Head(queue.ch) # NoReport
    BY <1>1, HeadTailProperties, RealIsReport
  <1>3. Handed' = delivered \o <<Head(queue.ch)>> \o Tail(queue.ch)
    BY <1>1, <1>2 DEF Handed
  <1>4. Handed = delivered \o <<>> \o queue.ch
    BY <1>1 DEF Handed
  <1> QED
    BY <1>1, <1>3, <1>4, HeadStandsBetween

\* Nor does delivering it.
LEMMA HandedDeliver ==
  ASSUME Types, Deliver
  PROVE  Handed' = Handed
  <1>1. /\ delivered \in Seq(RealReports) /\ queue.ch \in Seq(RealReports)
        /\ queue.taken \in RealReports /\ queue.taken # NoReport
        /\ delivered' = Append(delivered, queue.taken)
        /\ queue'.ch = queue.ch /\ queue'.taken = NoReport
    BY DEF Types, Queues, Deliver
  <1>2. Handed' = Append(delivered, queue.taken) \o <<>> \o queue.ch
    BY <1>1 DEF Handed
  <1>3. Handed = delivered \o <<queue.taken>> \o queue.ch
    BY <1>1 DEF Handed
  <1> QED
    BY <1>1, <1>2, <1>3, MiddleJoinsFirst

\* Where Serve may go on, every entry of the trail has a target.
LEMMA AllReported ==
  ASSUME Trail \in Seq(Entries), \A i \in 1..Len(Trail) : Trail[i].target \in Targets
  PROVE  Reports = Trail
  <1>1. {j \in DOMAIN Trail : Trail[j].target # NoTarget} = DOMAIN Trail
    BY TargetsAssumption, LenProperties
  <1> QED
    BY <1>1, LenProperties DEF Reports, Trail

\* The reports that are queued are no more than the attempts before this one.
LEMMA QueueHasRoom ==
  ASSUME IInv, pc = "attempt"
  PROVE  Len(queue.ch) < QueueCap
  <1>1. Trail \in Seq(Entries) /\ \A i \in 1..Len(Trail) : Trail[i].target \in Targets
    BY DEF IInv, Types, Recs, Trail, EarlierSafe, Going
  <1>2. Len(Trail) = attempt - 1 /\ attempt \in 0..Attempts
    BY DEF IInv, Types, TypeOK, TrailCounts, InAttempt
  <1>3. Reports = Trail
    BY <1>1, AllReported
  <1>4. Types
    BY DEF IInv
  <1>5. Handed \in Seq(RealReports)
    BY <1>4, HandedType
  <1>6. DOMAIN Handed = DOMAIN Trail
    BY <1>3 DEF IInv, NothingUnreported, ReportsOf
  <1>7. Len(Handed) = Len(Trail)
    BY <1>1, <1>5, <1>6, LenProperties
  <1>8. Len(Handed) = Len(delivered) + Len(InHand) + Len(queue.ch)
    BY <1>4, HandedType
  <1>9. Len(delivered) \in Nat /\ Len(InHand) \in Nat /\ Len(queue.ch) \in Nat
    BY <1>4, HandedType, LenProperties
  <1>10. Attempts \in Nat
    BY AttemptsAssumption DEF Attempts
  <1>11. Len(delivered) + Len(InHand) + Len(queue.ch) = attempt - 1
    BY <1>2, <1>7, <1>8
  <1>12. attempt - 1 < Attempts /\ attempt \in Int
    BY <1>2, <1>10
  <1>13. \A a, b, c, n \in Nat : \A m \in Int : a + b + c = m - 1 /\ m - 1 < n => c < n
    OBVIOUS
  <1>14. Len(queue.ch) < Attempts
    BY <1>9, <1>10, <1>11, <1>12, <1>13, Zenon
  <1> QED
    BY <1>14 DEF QueueCap

-----------------------------------------------------------------------------
(* The invariant holds at first and is kept by every step.                   *)

\* Nothing has happened yet.
LEMMA InitInv == Init => IInv
  <1> SUFFICES ASSUME Init PROVE IInv
    OBVIOUS
  <1>1. Attempts \in Nat /\ Attempts > 0
    BY AttemptsAssumption DEF Attempts
  <1>2. stream \in BOOLEAN
    BY DEF Init
  <1>3. pc = "dispatch"
    BY DEF Init
  <1>4. attempt = 0
    BY DEF Init
  <1>5. target = NoTarget /\ res = NoRes
    BY DEF Init
  <1>6. tried = <<>> /\ delivered = <<>> /\ records = <<>>
    BY DEF Init
  <1>7. client = [status |-> "none", ending |-> "none"]
    BY DEF Init
  <1>8. client.status = "none"
    BY <1>7
  <1>9. rec = [outcome |-> "", failed |-> FALSE, trail |-> <<>>]
    BY DEF Init
  <1>10. rec.outcome = "" /\ rec.failed \in BOOLEAN
    BY <1>9
  <1>11. Trail = <<>>
    BY <1>9 DEF Trail
  <1>12. queue = [ch |-> <<>>, closed |-> FALSE, taken |-> NoReport, drained |-> FALSE]
    BY DEF Init
  <1>13. queue.ch = <<>> /\ queue.taken = NoReport
    BY <1>12
  <1>14. queue.closed = FALSE /\ queue.drained = FALSE
    BY <1>12
  <1>15. Types
    <2>1. client \in [status : Statuses, ending : Endings]
      BY <1>7 DEF Statuses, Endings
    <2>2. tried \in Seq(Targets) /\ delivered \in Seq(RealReports)
      BY <1>6
    <2>3. attempt \in 0..Attempts
      BY <1>1, <1>4
    <2>4. res \in Results \cup {NoRes} /\ target \in Targets \cup {NoTarget}
      BY <1>5
    <2>5. rec.outcome \in OutcomeSet \cup {""}
      BY <1>10
    <2>6. pc \in {"dispatch", "attempt", "judge", "fail", "close", "wait", "record", "returned"}
          /\ pc # "judge"
      BY <1>3
    <2>7. TypeOK
      BY <1>2, <1>10, <2>1, <2>2, <2>3, <2>4, <2>5, <2>6, Zenon DEF TypeOK, Results
    <2>8. rec \in Recs
      <3>1. <<>> \in Seq(Entries)
        OBVIOUS
      <3>2. \A t \in Seq(Entries) : [outcome |-> "", failed |-> FALSE, trail |-> t] \in Recs
        BY DEF Recs
      <3> QED
        BY <1>9, <3>1, <3>2, Zenon
    <2>9. queue \in Queues
      BY <1>12 DEF Queues
    <2> QED
      BY <2>2, <2>7, <2>8, <2>9 DEF Types
  <1>16. TrailCounts
    <2>1. Len(Trail) = 0
      BY <1>11
    <2> QED
      BY <1>1, <1>3, <1>4, <2>1 DEF TrailCounts, InAttempt, Going
  <1>17. EarlierSafe
    BY <1>11 DEF EarlierSafe
  <1>18. ClientFollows /\ OutcomeNamed
    BY <1>3, <1>8, <1>10 DEF ClientFollows, OutcomeNamed
  <1>19. QueueEnds
    BY <1>3, <1>14 DEF QueueEnds
  <1>20. AvoidsTried
    BY <1>6, <1>11 DEF AvoidsTried
  <1>21. NothingUnreported
    <2>1. Handed = <<>> \o <<>> \o <<>>
      BY <1>6, <1>13 DEF Handed
    <2>2. Handed = <<>>
      BY <2>1
    <2>3. Reports = Trail
      BY <1>11, AllReported
    <2>4. ReportsOf(<<>>) = <<>>
      BY DEF ReportsOf
    <2> QED
      BY <1>11, <2>2, <2>3, <2>4 DEF NothingUnreported
  <1>22. RecordedLast
    BY <1>3, <1>6 DEF RecordedLast
  <1> QED
    BY <1>15, <1>16, <1>17, <1>18, <1>19, <1>20, <1>21, <1>22 DEF IInv

\* What is noted in the record leaves the trail and its reports alone.
LEMMA NotedInRecord ==
  ASSUME IInv, rec'.trail = rec.trail, UNCHANGED <<queue, delivered>>
  PROVE  NothingUnreported' /\ Trail' = Trail /\ LastEntry' = LastEntry
  BY DEF IInv, NothingUnreported, Handed, Reports, ReportsOf, Trail, LastEntry

\* A target is named.
LEMMA DispatchStep ==
  ASSUME IInv, Dispatch
  PROVE  IInv'
  <1>1. /\ pc = "dispatch" /\ pc' = "attempt" /\ attempt' = attempt + 1 /\ target' \in Targets
        /\ UNCHANGED <<stream, res, tried, client, rec, queue, delivered, records>>
    BY DEF Dispatch
  <1>2. Trail' = Trail /\ NothingUnreported'
    BY <1>1, NotedInRecord
  <1>3. Attempts \in Nat /\ attempt \in 0..Attempts /\ attempt < Attempts /\ Len(Trail) = attempt
    BY <1>1, AttemptsAssumption
    DEF IInv, Types, TypeOK, TrailCounts, InAttempt, Going, Attempts
  <1>4. Types'
    <2>1. /\ stream' \in BOOLEAN
          /\ res' \in (AttemptResults(stream) \cup {Refused(e) : e \in DispatchErrors}
                          \cup {NoRes})'
          /\ tried' \in Seq(Targets)
          /\ client' \in [status : Statuses, ending : Endings]
          /\ rec'.outcome \in OutcomeSet \cup {""} /\ rec'.failed \in BOOLEAN
      BY <1>1 DEF IInv, Types, TypeOK
    <2>2. attempt' \in 0..Attempts
      BY <1>1, <1>3
    <2>3. pc' = "attempt" /\ target' \in Targets \cup {NoTarget}
      BY <1>1
    <2>4. rec' \in Recs' /\ queue' \in Queues' /\ delivered' \in Seq(RealReports)
      BY <1>1 DEF IInv, Types, Recs, Entries, Results
    <2>5. TypeOK'
      BY <2>1, <2>2, <2>3 DEF TypeOK
    <2> QED
      BY <2>4, <2>5 DEF Types
  <1>5. TrailCounts'
    BY <1>1, <1>2, <1>3 DEF TrailCounts, InAttempt, Going
  <1>6. EarlierSafe' /\ AvoidsTried'
    BY <1>1, <1>2 DEF IInv, EarlierSafe, AvoidsTried, Going
  <1>7. ClientFollows' /\ OutcomeNamed' /\ QueueEnds' /\ RecordedLast'
    BY <1>1 DEF IInv, ClientFollows, OutcomeNamed, QueueEnds, RecordedLast
  <1> QED
    BY <1>2, <1>4, <1>5, <1>6, <1>7 DEF IInv

\* What stays the same keeps its type.
LEMMA TypesKept ==
  ASSUME Types, UNCHANGED <<stream, target, res, tried, client, rec, delivered>>,
         queue' \in Queues, attempt' = attempt,
         pc' \in {"fail", "close", "wait", "record", "returned", "dispatch"}
  PROVE  Types'
  <1>1. /\ stream' \in BOOLEAN
        /\ res' \in (AttemptResults(stream) \cup {Refused(e) : e \in DispatchErrors}
                        \cup {NoRes})'
        /\ tried' \in Seq(Targets)
        /\ client' \in [status : Statuses, ending : Endings]
        /\ rec'.outcome \in OutcomeSet \cup {""} /\ rec'.failed \in BOOLEAN
        /\ attempt' \in 0..Attempts
        /\ target' \in Targets \cup {NoTarget}
    BY DEF Types, TypeOK
  <1>2. rec' \in Recs' /\ queue' \in Queues' /\ delivered' \in Seq(RealReports)
    BY DEF Types, Recs, Entries, Results, Queues
  <1>3. pc' # "judge"
    OBVIOUS
  <1>4. TypeOK'
    BY <1>1, <1>3 DEF TypeOK
  <1> QED
    BY <1>2, <1>4 DEF Types

\* The queue is closed.
LEMMA CloseStep ==
  ASSUME IInv, Close
  PROVE  IInv'
  <1>1. /\ pc = "close" /\ pc' = "wait"
        /\ UNCHANGED <<stream, attempt, target, res, tried, client, rec, delivered, records>>
        /\ queue' = [queue EXCEPT !.closed = TRUE]
    BY DEF Close
  <1>2. Types /\ queue \in Queues
    BY DEF IInv, Types
  <1>3. /\ queue' \in Queues /\ queue'.ch = queue.ch /\ queue'.taken = queue.taken
        /\ queue'.drained = queue.drained /\ queue'.closed = TRUE
    BY <1>1, <1>2 DEF Queues
  <1>4. Types'
    BY <1>1, <1>2, <1>3, TypesKept
  <1>5. Trail' = Trail /\ LastEntry' = LastEntry
    BY <1>1 DEF Trail, LastEntry
  <1>6. NothingUnreported'
    BY <1>1, <1>3 DEF IInv, NothingUnreported, Handed, Reports, ReportsOf
  <1>7. TrailCounts'
    BY <1>1, <1>5 DEF IInv, TrailCounts, InAttempt, Going
  <1>8. EarlierSafe' /\ AvoidsTried'
    BY <1>1, <1>5 DEF IInv, EarlierSafe, AvoidsTried, Going
  <1>9. ClientFollows'
    BY <1>1 DEF IInv, ClientFollows
  <1>10. OutcomeNamed'
    BY <1>1, <1>5 DEF IInv, OutcomeNamed
  <1>11. QueueEnds' /\ RecordedLast'
    BY <1>1, <1>3 DEF IInv, QueueEnds, RecordedLast
  <1> QED
    BY <1>4, <1>6, <1>7, <1>8, <1>9, <1>10, <1>11 DEF IInv

\* Serve has waited for its reports.
LEMMA AwaitDrainedStep ==
  ASSUME IInv, AwaitDrained
  PROVE  IInv'
  <1>1. /\ pc = "wait" /\ pc' = "record" /\ queue.drained
        /\ UNCHANGED <<stream, attempt, target, res, tried, client, rec, queue, delivered, records>>
    BY DEF AwaitDrained
  <1>2. Types /\ queue \in Queues
    BY DEF IInv, Types
  <1>3. queue' \in Queues
    BY <1>1, <1>2
  <1>4. Types'
    BY <1>1, <1>2, <1>3, TypesKept
  <1>5. Trail' = Trail /\ LastEntry' = LastEntry /\ NothingUnreported'
    BY <1>1, NotedInRecord
  <1>7. TrailCounts'
    BY <1>1, <1>5 DEF IInv, TrailCounts, InAttempt, Going
  <1>8. EarlierSafe' /\ AvoidsTried'
    BY <1>1, <1>5 DEF IInv, EarlierSafe, AvoidsTried, Going
  <1>9. ClientFollows'
    BY <1>1 DEF IInv, ClientFollows
  <1>10. OutcomeNamed'
    BY <1>1, <1>5 DEF IInv, OutcomeNamed
  <1>11. QueueEnds' /\ RecordedLast'
    BY <1>1 DEF IInv, QueueEnds, RecordedLast
  <1> QED
    BY <1>4, <1>5, <1>7, <1>8, <1>9, <1>10, <1>11 DEF IInv

\* The call is recorded.
LEMMA RecordStep ==
  ASSUME IInv, Record
  PROVE  IInv'
  <1>1. /\ pc = "record" /\ pc' = "returned" /\ records' = Append(records, rec)
        /\ UNCHANGED <<stream, attempt, target, res, tried, client, rec, queue, delivered>>
    BY DEF Record
  <1>2. Types /\ queue \in Queues
    BY DEF IInv, Types
  <1>3. queue' \in Queues
    BY <1>1, <1>2
  <1>4. Types'
    BY <1>1, <1>2, <1>3, TypesKept
  <1>5. Trail' = Trail /\ LastEntry' = LastEntry /\ NothingUnreported'
    BY <1>1, NotedInRecord
  <1>7. TrailCounts'
    BY <1>1, <1>5 DEF IInv, TrailCounts, InAttempt, Going
  <1>8. EarlierSafe' /\ AvoidsTried'
    BY <1>1, <1>5 DEF IInv, EarlierSafe, AvoidsTried, Going
  <1>9. ClientFollows'
    BY <1>1 DEF IInv, ClientFollows
  <1>10. OutcomeNamed'
    BY <1>1, <1>5 DEF IInv, OutcomeNamed
  <1>11. QueueEnds'
    BY <1>1 DEF IInv, QueueEnds
  <1>12. RecordedLast'
    <2>1. records = <<>>
      BY <1>1 DEF IInv, RecordedLast
    <2>2. records' = <<rec>>
      BY <1>1, <2>1
    <2> QED
      BY <1>1, <2>2 DEF RecordedLast
  <1> QED
    BY <1>4, <1>5, <1>7, <1>8, <1>9, <1>10, <1>11, <1>12 DEF IInv

\* The queue's goroutine leaves everything else as it is.
LEMMA QueueSteps ==
  ASSUME IInv, QueueOnly, queue' \in Queues, delivered' \in Seq(RealReports),
         Len(queue'.ch) \leq Len(queue.ch), Handed' = Handed, QueueEnds'
  PROVE  IInv'
  <1>1. UNCHANGED <<stream, pc, attempt, target, res, tried, client, rec, records>>
    BY DEF QueueOnly
  <1>2. Types'
    <2>1. /\ stream' \in BOOLEAN
          /\ res' \in (AttemptResults(stream) \cup {Refused(e) : e \in DispatchErrors}
                          \cup {NoRes})'
          /\ tried' \in Seq(Targets)
          /\ client' \in [status : Statuses, ending : Endings]
          /\ rec'.outcome \in OutcomeSet \cup {""} /\ rec'.failed \in BOOLEAN
          /\ attempt' \in 0..Attempts
          /\ target' \in Targets \cup {NoTarget}
          /\ pc' \in {"dispatch", "attempt", "judge", "fail", "close", "wait", "record", "returned"}
      BY <1>1 DEF IInv, Types, TypeOK
    <2>2. rec' \in Recs' /\ queue' \in Queues'
      BY <1>1 DEF IInv, Types, Recs, Entries, Results, Queues
    <2>3. pc' = "judge" => Len(queue'.ch) < QueueCap'
      <3>1. pc = "judge" => Len(queue.ch) < QueueCap
        BY DEF IInv, Types, TypeOK
      <3>2. QueueCap' = QueueCap /\ QueueCap \in Nat
        BY AttemptsAssumption DEF QueueCap, Attempts
      <3>3. Len(queue.ch) \in Nat /\ Len(queue'.ch) \in Nat
        BY DEF IInv, Types, Queues
      <3>4. \A a, b, c \in Nat : a \leq b /\ b < c => a < c
        OBVIOUS
      <3> QED
        BY <1>1, <3>1, <3>2, <3>3, <3>4, Zenon
    <2>4. TypeOK'
      BY <2>1, <2>3 DEF TypeOK
    <2> QED
      BY <2>2, <2>4 DEF Types
  <1>3. Trail' = Trail /\ LastEntry' = LastEntry
    BY <1>1 DEF Trail, LastEntry
  <1>4. NothingUnreported'
    BY <1>1 DEF IInv, NothingUnreported, Reports, ReportsOf
  <1>5. TrailCounts'
    BY <1>1, <1>3 DEF IInv, TrailCounts, InAttempt, Going
  <1>6. EarlierSafe' /\ AvoidsTried'
    BY <1>1, <1>3 DEF IInv, EarlierSafe, AvoidsTried, Going
  <1>7. ClientFollows'
    BY <1>1 DEF IInv, ClientFollows
  <1>8. OutcomeNamed' /\ RecordedLast'
    BY <1>1, <1>3 DEF IInv, OutcomeNamed, RecordedLast
  <1> QED
    BY <1>2, <1>4, <1>5, <1>6, <1>7, <1>8 DEF IInv

\* A report is taken from the queue.
LEMMA TakeStep ==
  ASSUME IInv, Take
  PROVE  IInv'
  <1>1. /\ queue.ch \in Seq(RealReports) /\ queue.ch # <<>> /\ queue.taken = NoReport
        /\ queue \in Queues /\ QueueOnly /\ delivered' = delivered
        /\ queue' = [queue EXCEPT !.ch = Tail(@), !.taken = Head(queue.ch)]
    BY DEF IInv, Types, Queues, Take
  <1>2. Tail(queue.ch) \in Seq(RealReports) /\ Head(queue.ch) \in RealReports
        /\ Len(Tail(queue.ch)) \leq Len(queue.ch)
    BY <1>1
  <1>3. /\ queue'.ch = Tail(queue.ch) /\ queue'.taken = Head(queue.ch)
        /\ queue'.closed = queue.closed /\ queue'.drained = queue.drained
        /\ queue' \in Queues
    BY <1>1, <1>2 DEF Queues
  <1>4. QueueEnds'
    BY <1>1, <1>3 DEF IInv, QueueEnds, QueueOnly
  <1>5. Handed' = Handed /\ delivered' \in Seq(RealReports)
    BY <1>1, HandedTake DEF IInv, Types
  <1> QED
    BY <1>1, <1>2, <1>3, <1>4, <1>5, QueueSteps

\* A report is delivered.
LEMMA DeliverStep ==
  ASSUME IInv, Deliver
  PROVE  IInv'
  <1>1. /\ queue.taken \in RealReports /\ queue.taken # NoReport
        /\ queue \in Queues /\ QueueOnly /\ delivered \in Seq(RealReports)
        /\ delivered' = Append(delivered, queue.taken)
        /\ queue' = [queue EXCEPT !.taken = NoReport]
    BY DEF IInv, Types, Queues, Deliver
  <1>2. /\ queue'.ch = queue.ch /\ queue'.taken = NoReport
        /\ queue'.closed = queue.closed /\ queue'.drained = queue.drained
        /\ queue' \in Queues
    BY <1>1 DEF Queues
  <1>3. QueueEnds'
    BY <1>1, <1>2 DEF IInv, QueueEnds, QueueOnly
  <1>4. Handed' = Handed
    BY HandedDeliver DEF IInv
  <1>5. delivered' \in Seq(RealReports)
    BY <1>1
  <1>6. Len(queue.ch) \in Nat /\ Len(queue'.ch) \leq Len(queue.ch)
    BY <1>1, <1>2 DEF Queues
  <1> QED
    BY <1>1, <1>2, <1>3, <1>4, <1>5, <1>6, QueueSteps

\* The goroutine has delivered everything.
LEMMA DrainedStep ==
  ASSUME IInv, Drained
  PROVE  IInv'
  <1>1. /\ queue.closed /\ queue.ch = <<>> /\ queue.taken = NoReport
        /\ queue \in Queues /\ QueueOnly /\ delivered' = delivered
        /\ queue' = [queue EXCEPT !.drained = TRUE]
    BY DEF IInv, Types, Drained
  <1>2. /\ queue'.ch = queue.ch /\ queue'.taken = queue.taken
        /\ queue'.closed = queue.closed /\ queue'.drained = TRUE
        /\ queue' \in Queues
    BY <1>1 DEF Queues
  <1>3. QueueEnds'
    BY <1>1, <1>2 DEF IInv, QueueEnds, QueueOnly
  <1>4. Handed' = Handed
    BY <1>1, <1>2 DEF Handed
  <1>5. delivered' \in Seq(RealReports)
    BY <1>1 DEF IInv, Types
  <1>6. Len(queue.ch) \in Nat /\ Len(queue'.ch) \leq Len(queue.ch)
    BY <1>1, <1>2 DEF Queues
  <1> QED
    BY <1>1, <1>2, <1>3, <1>4, <1>5, <1>6, QueueSteps

\* Nothing changes.
LEMMA StutterStep ==
  ASSUME IInv, UNCHANGED vars
  PROVE  IInv'
  <1>1. QueueOnly /\ queue' = queue /\ delivered' = delivered
    BY DEF vars, QueueOnly
  <1>2. Handed' = Handed
    BY <1>1 DEF Handed
  <1>3. queue' \in Queues /\ delivered' \in Seq(RealReports)
    BY <1>1 DEF IInv, Types
  <1>4. Len(queue.ch) \in Nat /\ Len(queue'.ch) \leq Len(queue.ch)
    BY <1>1, <1>3 DEF Queues
  <1>5. QueueEnds'
    BY <1>1 DEF IInv, QueueEnds, QueueOnly
  <1> QED
    BY <1>1, <1>2, <1>3, <1>4, <1>5, QueueSteps

\* The target of one more entry is one target more to avoid.
LEMMA TriedGrows ==
  ASSUME NEW s \in Seq(Entries), NEW e \in Entries
  PROVE  Append([i \in DOMAIN s |-> s[i].target], e.target)
           = [i \in DOMAIN Append(s, e) |-> Append(s, e)[i].target]
  <1> DEFINE T == Targets \cup {NoTarget}
             of(q) == [i \in DOMAIN q |-> q[i].target]
  <1>1. \A x \in Entries : x.target \in T
    BY DEF Entries
  <1>2. of(s) \in Seq(T) /\ Len(of(s)) = Len(s)
    <2>1. \A i \in 1..Len(s) : s[i].target \in T
      BY <1>1
    <2>2. of(s) = [i \in 1..Len(s) |-> s[i].target]
      OBVIOUS
    <2> HIDE DEF T
    <2> QED
      BY <2>1, <2>2
  <1>3. of(Append(s, e)) \in Seq(T) /\ Len(of(Append(s, e))) = Len(s) + 1
    <2>1. Append(s, e) \in Seq(Entries) /\ Len(Append(s, e)) = Len(s) + 1
      OBVIOUS
    <2>2. \A i \in 1..(Len(s) + 1) : Append(s, e)[i].target \in T
      BY <1>1, <2>1
    <2>3. of(Append(s, e)) = [i \in 1..(Len(s) + 1) |-> Append(s, e)[i].target]
      BY <2>1
    <2> HIDE DEF T
    <2> QED
      BY <2>1, <2>2, <2>3
  <1>4. \A i \in 1..(Len(s) + 1) : of(Append(s, e))[i] = Append(of(s), e.target)[i]
    BY <1>1, <1>2
  <1>5. e.target \in T
    BY <1>1
  <1> HIDE DEF T, of
  <1>6. of(Append(s, e)) = Append(of(s), e.target)
    BY <1>2, <1>3, <1>4, <1>5
  <1> QED
    BY <1>6 DEF of

\* What every judgement of a result does: the outcome enters the trail and
\* the queue together.
LEMMA Judging ==
  ASSUME IInv, NEW next \in {"close", "fail", "dispatch"}, NEW outcome \in OutcomeSet,
         Judge(next, outcome)
  PROVE  /\ pc = "judge" /\ pc' = next
         /\ UNCHANGED <<stream, attempt, target, res, client, delivered, records>>
         /\ target \in Targets /\ res \in Results
         /\ Trail \in Seq(Entries)
         /\ Entry(target, outcome, res) \in Entries
         /\ Trail' = Append(Trail, Entry(target, outcome, res))
         /\ rec'.outcome = (IF next = "dispatch" THEN rec.outcome ELSE outcome)
         /\ rec'.failed = rec.failed
         /\ rec' \in Recs /\ queue' \in Queues
         /\ NothingUnreported' /\ QueueEnds'
  <1> DEFINE e == Entry(target, outcome, res)
  <1>1. /\ pc = "judge" /\ pc' = next
        /\ UNCHANGED <<stream, attempt, target, res, client, delivered, records>>
        /\ rec' = [rec EXCEPT !.trail = Append(@, e),
                              !.outcome = IF next = "dispatch" THEN @ ELSE outcome]
        /\ queue' = [queue EXCEPT !.ch = Append(@, Report(e))]
    BY DEF Judge
  <1>2. target \in Targets
    BY <1>1 DEF IInv, TrailCounts, InAttempt
  <1>3. res \in Results
    BY <1>1 DEF IInv, ClientFollows, Results
  <1>4. rec \in Recs /\ queue \in Queues /\ Types
    BY DEF IInv, Types
  <1>5. Trail \in Seq(Entries)
    BY <1>4 DEF Recs, Trail
  <1>6. /\ e \in Entries /\ e.target = target
        /\ Report(e) = [target |-> target, outcome |-> outcome]
    BY <1>2, <1>3, EntryType
  <1>7. Report(e) \in RealReports
    BY <1>2, <1>6 DEF RealReports
  <1> HIDE DEF e
  <1>8. /\ rec'.trail = Append(rec.trail, e)
        /\ rec'.outcome = (IF next = "dispatch" THEN rec.outcome ELSE outcome)
        /\ rec'.failed = rec.failed
    BY <1>1, <1>4 DEF Recs
  <1>9. rec' \in Recs
    <2>1. Append(rec.trail, e) \in Seq(Entries)
      BY <1>5, <1>6 DEF Trail
    <2>2. rec.outcome \in OutcomeSet \cup {""} /\ rec.failed \in BOOLEAN
      BY <1>4 DEF Recs
    <2> QED
      BY <1>1, <1>4, <2>1, <2>2 DEF Recs
  <1>10. /\ queue'.ch = Append(queue.ch, Report(e)) /\ queue'.taken = queue.taken
         /\ queue'.closed = queue.closed /\ queue'.drained = queue.drained
         /\ queue' \in Queues
    <2>1. queue.ch \in Seq(RealReports)
      BY <1>4 DEF Queues
    <2>2. Append(queue.ch, Report(e)) \in Seq(RealReports)
      BY <1>7, <2>1
    <2>3. \A c \in Seq(RealReports) :
             LET q == [queue EXCEPT !.ch = c]
             IN  /\ q.ch = c /\ q.taken = queue.taken /\ q.closed = queue.closed
                 /\ q.drained = queue.drained /\ q \in Queues
      BY <1>4 DEF Queues
    <2>4. queue' = [queue EXCEPT !.ch = Append(queue.ch, Report(e))]
      BY <1>1
    <2> QED
      BY <2>2, <2>3, <2>4, Zenon
  <1>11. Trail' = Append(Trail, e)
    BY <1>8 DEF Trail
  <1>12. NothingUnreported'
    <2>1. Handed' = Append(Handed, Report(e))
      BY <1>1, <1>4, <1>7, HandedEnqueue
    <2>2. \A i \in 1..Len(Trail) : Trail[i].target \in Targets
      BY <1>1 DEF IInv, EarlierSafe, Going
    <2>3. Reports = Trail /\ Reports' = Append(Trail, e)
      <3>1. e.target # NoTarget
        BY <1>2, <1>6, TargetsAssumption
      <3>2. rec'.trail = Append(Trail, e)
        BY <1>8 DEF Trail
      <3> QED
        BY <1>5, <1>6, <2>2, <3>1, <3>2, TrailGrows
    <2>4. ReportsOf(Append(Trail, e)) = Append(ReportsOf(Trail), Report(e))
      BY <1>5, <1>6, ReportsOfAppend
    <2>5. Handed = ReportsOf(Trail)
      BY <2>3 DEF IInv, NothingUnreported
    <2>6. Handed' = ReportsOf(Append(Trail, e))
      BY <2>1, <2>4, <2>5
    <2> QED
      BY <2>3, <2>6 DEF NothingUnreported, ReportsOf
  <1>13. QueueEnds'
    <2>1. queue.closed = FALSE /\ queue.drained = FALSE
      BY <1>1, <1>4 DEF IInv, QueueEnds, Queues
    <2> QED
      BY <1>1, <1>10, <2>1 DEF QueueEnds
  <1> QED
    BY <1>1, <1>2, <1>3, <1>5, <1>6, <1>8, <1>9, <1>10, <1>11, <1>12, <1>13 DEF e

\* A judgement keeps the invariant when what follows suits the result.
LEMMA JudgedStep ==
  ASSUME IInv, NEW next \in {"close", "fail", "dispatch"}, NEW outcome \in OutcomeSet,
         Judge(next, outcome), tried' \in Seq(Targets),
         next = "dispatch" => /\ Safe(res) /\ outcome \in OpenOutcomes /\ attempt < Attempts
                              /\ tried' = Append(tried, target),
         next = "fail" => client.status = "none",
         next = "close" => /\ client.status = "none" => res.err = CanceledError
                           /\ res.fate # "unanswered"
  PROVE  IInv'
  <1> DEFINE e == Entry(target, outcome, res)
  <1>1. /\ pc = "judge" /\ pc' = next
        /\ UNCHANGED <<stream, attempt, target, res, client, delivered, records>>
        /\ target \in Targets /\ Trail \in Seq(Entries) /\ e \in Entries
        /\ rec'.outcome = (IF next = "dispatch" THEN rec.outcome ELSE outcome)
        /\ rec'.failed = rec.failed /\ rec' \in Recs /\ queue' \in Queues
        /\ Trail' = Append(Trail, e) /\ NothingUnreported' /\ QueueEnds'
    BY Judging
  <1>2. e.target = target /\ e.outcome = outcome /\ e.res = res
    BY DEF Entry
  <1> HIDE DEF e
  <1>3. /\ Len(Trail') = Len(Trail) + 1 /\ Trail'[Len(Trail) + 1] = e
        /\ \A i \in 1..Len(Trail) : Trail'[i] = Trail[i]
    BY <1>1
  <1>4. /\ Len(Trail) = attempt - 1 /\ attempt \in 0..Attempts /\ Len(Trail) \in Nat
        /\ Attempts \in Nat
    <2>1. Len(Trail) = attempt - 1
      BY <1>1 DEF IInv, TrailCounts, InAttempt
    <2>2. attempt \in 0..Attempts
      BY DEF IInv, Types, TypeOK
    <2>3. Len(Trail) \in Nat
      BY <1>1
    <2>4. Attempts \in Nat
      BY AttemptsAssumption DEF Attempts
    <2> QED
      BY <2>1, <2>2, <2>3, <2>4
  <1>5. Len(Trail') = attempt
    BY <1>3, <1>4
  <1>6. LastEntry' = e
    BY <1>3 DEF LastEntry
  <1>7. Types'
    <2>1. /\ stream' \in BOOLEAN
          /\ res' \in (AttemptResults(stream) \cup {Refused(d) : d \in DispatchErrors}
                          \cup {NoRes})'
          /\ client' \in [status : Statuses, ending : Endings]
          /\ attempt' \in 0..Attempts
          /\ target' \in Targets \cup {NoTarget}
      BY <1>1 DEF IInv, Types, TypeOK
    <2>2. rec'.outcome \in OutcomeSet \cup {""} /\ rec'.failed \in BOOLEAN
      BY <1>1 DEF Recs
    <2>3. rec' \in Recs' /\ queue' \in Queues' /\ delivered' \in Seq(RealReports)
      BY <1>1 DEF IInv, Types, Recs, Entries, Results, Queues
    <2>4. pc' \in {"fail", "close", "dispatch"}
      BY <1>1
    <2>5. TypeOK'
      BY <2>1, <2>2, <2>4 DEF TypeOK
    <2> QED
      BY <2>3, <2>5 DEF Types
  <1>8. TrailCounts'
    <2>1. attempt > 0
      BY <1>4
    <2> QED
      BY <1>1, <1>5, <2>1 DEF TrailCounts, InAttempt, Going, Attempts
  <1>9. EarlierSafe'
    <2> SUFFICES ASSUME NEW i \in 1..Len(Trail'), i < attempt \/ Going'
                 PROVE  /\ Safe(Trail'[i].res) /\ Trail'[i].target \in Targets
                        /\ Trail'[i].outcome \in OpenOutcomes
      BY <1>1 DEF EarlierSafe
    <2>1. CASE i \in 1..Len(Trail)
      BY <1>1, <1>3, <2>1 DEF IInv, EarlierSafe, Going
    <2>2. CASE i \notin 1..Len(Trail)
      <3>1. i = attempt /\ i = Len(Trail) + 1
        BY <1>4, <1>5, <2>2
      <3>2. next = "dispatch"
        BY <1>1, <1>4, <3>1 DEF Going
      <3>3. Trail'[i] = e
        BY <1>3, <3>1
      <3> QED
        BY <1>1, <1>2, <3>2, <3>3
    <2> QED
      BY <2>1, <2>2
  <1>10. ClientFollows'
    <2>1. client = [status |-> res.status, ending |-> res.ending]
          /\ (res.status = "error" => rec.failed)
      BY <1>1 DEF IInv, ClientFollows
    <2>2. client.status = res.status
      BY <2>1
    <2>3. client.status = "error" => rec.failed
      BY <2>1, <2>2
    <2>4. /\ client'.status = client.status /\ res' = res
          /\ rec'.failed = rec.failed /\ pc' = next /\ pc' # "judge"
      BY <1>1
    <2>5. pc' \in {"dispatch", "attempt", "fail"} => client'.status = "none"
      <3>1. CASE next = "dispatch"
        BY <2>2, <2>4, <3>1 DEF Safe
      <3> QED
        BY <2>4, <3>1
    <2>6. pc' \notin {"dispatch", "attempt", "judge", "fail"} =>
            /\ client'.status = "none" => res'.err = CanceledError
            /\ client'.status = "error" => rec'.failed
            /\ res'.fate = "unanswered" => client'.status = "error"
      BY <2>3, <2>4
    <2> QED
      BY <2>4, <2>5, <2>6 DEF ClientFollows
  <1>11. OutcomeNamed'
    <2>1. rec.outcome = ""
      BY <1>1 DEF IInv, OutcomeNamed
    <2> QED
      BY <1>1, <1>2, <1>6, <2>1 DEF OutcomeNamed
  <1>12. AvoidsTried'
    <2> SUFFICES ASSUME next = "dispatch"
                 PROVE  tried' = [i \in DOMAIN Trail' |-> Trail'[i].target]
      BY <1>1 DEF AvoidsTried, Going
    <2>1. tried = [i \in DOMAIN Trail |-> Trail[i].target]
      BY <1>1 DEF IInv, AvoidsTried, Going
    <2>2. Append([i \in DOMAIN Trail |-> Trail[i].target], e.target)
            = [i \in DOMAIN Append(Trail, e) |-> Append(Trail, e)[i].target]
      BY <1>1, TriedGrows
    <2> QED
      BY <1>1, <1>2, <2>1, <2>2
  <1>13. RecordedLast'
    BY <1>1 DEF IInv, RecordedLast
  <1> QED
    BY <1>1, <1>7, <1>8, <1>9, <1>10, <1>11, <1>12, <1>13 DEF IInv

\* What Serve knows of the result it judges.
LEMMA JudgedResult ==
  ASSUME IInv, pc = "judge"
  PROVE  /\ Sound(res) /\ client.status = res.status /\ target \in Targets
         /\ tried \in Seq(Targets) /\ attempt \in 0..Attempts
  <1>1. stream \in BOOLEAN /\ res \in AttemptResults(stream)
    BY DEF IInv, Types, TypeOK, ClientFollows
  <1>2. Sound(res)
    BY <1>1, ResultFacts
  <1>3. client = [status |-> res.status, ending |-> res.ending]
    BY DEF IInv, ClientFollows
  <1>4. client.status = res.status
    BY <1>3
  <1>5. target \in Targets
    BY DEF IInv, TrailCounts, InAttempt
  <1>6. tried \in Seq(Targets) /\ attempt \in 0..Attempts
    BY DEF IInv, Types, TypeOK
  <1> QED
    BY <1>2, <1>4, <1>5, <1>6

\* A whole answer ends the call.
LEMMA SucceededStep ==
  ASSUME IInv, Succeeded
  PROVE  IInv'
  <1>1. /\ Judge("close", "normal") /\ res.err = NoError /\ tried' = tried /\ pc = "judge"
    BY DEF Succeeded, Failed, Judge
  <1>2. Sound(res) /\ client.status = res.status /\ tried \in Seq(Targets)
    BY <1>1, JudgedResult
  <1>3. client.status # "none" /\ res.fate # "unanswered"
    BY <1>1, <1>2 DEF Sound
  <1>4. "normal" \in OutcomeSet
    BY DEF OutcomeSet
  <1> QED
    BY <1>1, <1>2, <1>3, <1>4, JudgedStep

\* A failure after the response was begun ends the call.
LEMMA CommittedStep ==
  ASSUME IInv, Committed
  PROVE  IInv'
  <1>1. /\ Judge("close", res.outcome) /\ res.err # NoError /\ res.committed
        /\ tried' = tried /\ pc = "judge"
    BY DEF Committed, Failed, Judge
  <1>2. Sound(res) /\ client.status = res.status /\ tried \in Seq(Targets)
    BY <1>1, JudgedResult
  <1>3. /\ res.outcome \in OutcomeSet /\ (client.status = "none" => res.err = CanceledError)
        /\ res.fate # "unanswered"
    BY <1>1, <1>2 DEF Sound
  <1> QED
    BY <1>1, <1>2, <1>3, JudgedStep

\* A failure that may have run at the upstream is answered.
LEMMA SideEffectRiskStep ==
  ASSUME IInv, SideEffectRisk
  PROVE  IInv'
  <1>1. /\ Judge("fail", res.outcome) /\ res.err # NoError /\ ~res.committed
        /\ tried' = tried /\ pc = "judge"
    BY DEF SideEffectRisk, Failed, Judge
  <1>2. Sound(res) /\ client.status = res.status /\ tried \in Seq(Targets)
    BY <1>1, JudgedResult
  <1>3. res.outcome \in OutcomeSet /\ client.status = "none"
    BY <1>1, <1>2 DEF Sound
  <1> QED
    BY <1>1, <1>2, <1>3, JudgedStep

\* A failure that no other target mends is answered.
LEMMA NotRetryableStep ==
  ASSUME IInv, NotRetryable
  PROVE  IInv'
  <1>1. /\ Judge("fail", res.outcome) /\ res.err # NoError /\ ~res.committed
        /\ tried' = tried /\ pc = "judge"
    BY DEF NotRetryable, Failed, Judge
  <1>2. Sound(res) /\ client.status = res.status /\ tried \in Seq(Targets)
    BY <1>1, JudgedResult
  <1>3. res.outcome \in OutcomeSet /\ client.status = "none"
    BY <1>1, <1>2 DEF Sound
  <1> QED
    BY <1>1, <1>2, <1>3, JudgedStep

\* The last failure is answered.
LEMMA ExhaustedStep ==
  ASSUME IInv, Exhausted
  PROVE  IInv'
  <1>1. /\ Judge("fail", Downgrade(res.outcome)) /\ res.err # NoError /\ ~res.committed
        /\ tried' = Append(tried, target) /\ pc = "judge"
    BY DEF Exhausted, Retriable, Failed, Judge
  <1>2. /\ Sound(res) /\ client.status = res.status /\ tried \in Seq(Targets)
        /\ target \in Targets
    BY <1>1, JudgedResult
  <1>3. Downgrade(res.outcome) \in OutcomeSet /\ client.status = "none"
    BY <1>1, <1>2 DEF Sound, Downgrade, OutcomeSet
  <1>4. tried' \in Seq(Targets)
    BY <1>1, <1>2
  <1> QED
    BY <1>1, <1>2, <1>3, <1>4, JudgedStep

\* Another target is tried.
LEMMA RetryStep ==
  ASSUME IInv, Retry
  PROVE  IInv'
  <1>1. /\ Judge("dispatch", res.outcome) /\ res.err # NoError /\ ~res.committed
        /\ ~res.err.risk /\ res.err.retryable /\ attempt < Attempts
        /\ tried' = Append(tried, target) /\ pc = "judge"
    BY DEF Retry, Retriable, Failed, Judge
  <1>2. /\ Sound(res) /\ client.status = res.status /\ tried \in Seq(Targets)
        /\ target \in Targets
    BY <1>1, JudgedResult
  <1>3. res.outcome \in OutcomeSet /\ res.outcome \in OpenOutcomes /\ Safe(res)
    BY <1>1, <1>2 DEF Sound, Safe
  <1>4. tried' \in Seq(Targets)
    BY <1>1, <1>2
  <1> QED
    BY <1>1, <1>3, <1>4, JudgedStep

\* The relay refuses to name a target.
LEMMA DispatchFailsStep ==
  ASSUME IInv, DispatchFails
  PROVE  IInv'
  <1>1. PICK err \in DispatchErrors :
          /\ res' = Refused(err)
          /\ rec' = [rec EXCEPT !.trail = Append(@, Entry(NoTarget, "abnormal", Refused(err)))]
    BY DEF DispatchFails
  <1>2. /\ pc = "dispatch" /\ pc' = "fail" /\ attempt' = attempt + 1 /\ target' = NoTarget
        /\ UNCHANGED <<stream, tried, client, queue, delivered, records>>
    BY DEF DispatchFails
  <1> DEFINE e == Entry(NoTarget, "abnormal", Refused(err))
  <1>3. Refused(err) \in Results /\ "abnormal" \in OutcomeSet
    BY DEF Results, OutcomeSet
  <1>4. /\ e \in Entries /\ e.target = NoTarget /\ e.outcome = "abnormal"
        /\ e.res = Refused(err)
    BY <1>3, EntryType
  <1> HIDE DEF e
  <1>5. rec \in Recs /\ queue \in Queues /\ Trail \in Seq(Entries)
    BY DEF IInv, Types, Recs, Trail
  <1>6. rec' \in Recs /\ rec'.outcome = rec.outcome /\ rec'.trail = Append(Trail, e)
    <2>1. Append(Trail, e) \in Seq(Entries)
      BY <1>4, <1>5
    <2>2. \A t \in Seq(Entries) :
             LET r == [rec EXCEPT !.trail = t]
             IN  r \in Recs /\ r.outcome = rec.outcome /\ r.trail = t
      BY <1>5 DEF Recs
    <2>3. rec' = [rec EXCEPT !.trail = Append(Trail, e)]
      BY <1>1 DEF e, Trail
    <2> QED
      BY <2>1, <2>2, <2>3, Zenon
  <1>7. Trail' = Append(Trail, e)
    BY <1>6 DEF Trail
  <1>8. /\ Len(Trail') = Len(Trail) + 1 /\ Trail'[Len(Trail) + 1] = e
        /\ \A i \in 1..Len(Trail) : Trail'[i] = Trail[i]
    BY <1>4, <1>5, <1>7
  <1>9. LastEntry' = e
    BY <1>8 DEF LastEntry
  <1>10. Attempts \in Nat /\ attempt \in 0..Attempts /\ attempt < Attempts /\ Len(Trail) = attempt
    BY <1>2, AttemptsAssumption
    DEF IInv, Types, TypeOK, TrailCounts, InAttempt, Going, Attempts
  <1>11. Types'
    <2>1. /\ stream' \in BOOLEAN
          /\ tried' \in Seq(Targets)
          /\ client' \in [status : Statuses, ending : Endings]
      BY <1>2 DEF IInv, Types, TypeOK
    <2>2. attempt' \in 0..Attempts
      BY <1>2, <1>10
    <2>3. res' \in (AttemptResults(stream) \cup {Refused(d) : d \in DispatchErrors}
                       \cup {NoRes})'
      BY <1>1
    <2>4. rec'.outcome \in OutcomeSet \cup {""} /\ rec'.failed \in BOOLEAN
      BY <1>6 DEF Recs
    <2>5. rec' \in Recs' /\ queue' \in Queues' /\ delivered' \in Seq(RealReports)
      BY <1>2, <1>6 DEF IInv, Types, Recs, Entries, Results, Queues
    <2>6. pc' = "fail" /\ target' \in Targets \cup {NoTarget}
      BY <1>2
    <2>7. TypeOK'
      BY <2>1, <2>2, <2>3, <2>4, <2>6 DEF TypeOK
    <2> QED
      BY <2>5, <2>7 DEF Types
  <1>12. TrailCounts'
    <2>1. attempt' > 0 /\ Len(Trail') = attempt'
      BY <1>2, <1>8, <1>10
    <2> QED
      BY <1>2, <2>1 DEF TrailCounts, InAttempt, Going
  <1>13. EarlierSafe'
    <2> SUFFICES ASSUME NEW i \in 1..Len(Trail'), i < attempt' \/ Going'
                 PROVE  /\ Safe(Trail'[i].res) /\ Trail'[i].target \in Targets
                        /\ Trail'[i].outcome \in OpenOutcomes
      BY DEF EarlierSafe
    <2>1. ~Going' /\ Going
      BY <1>2 DEF Going
    <2>2. i \in 1..Len(Trail)
      BY <1>2, <1>8, <1>10, <2>1
    <2> QED
      BY <1>8, <2>1, <2>2 DEF IInv, EarlierSafe
  <1>14. ClientFollows'
    <2>1. client.status = "none"
      BY <1>2 DEF IInv, ClientFollows
    <2>2. client'.status = "none" /\ pc' = "fail"
      BY <1>2, <2>1
    <2> QED
      BY <2>2 DEF ClientFollows
  <1>15. OutcomeNamed'
    <2>1. rec.outcome = ""
      BY <1>2 DEF IInv, OutcomeNamed
    <2>2. e.res = res' /\ pc' = "fail"
      BY <1>1, <1>2, <1>4
    <2>3. rec'.outcome = "" /\ LastEntry'.outcome = "abnormal" /\ LastEntry'.res = res'
      BY <1>4, <1>6, <1>9, <2>1, <2>2
    <2> QED
      BY <2>2, <2>3 DEF OutcomeNamed
  <1>16. QueueEnds'
    <2>1. queue.closed = FALSE /\ queue.drained = FALSE
      BY <1>2, <1>5 DEF IInv, QueueEnds, Queues
    <2> QED
      BY <1>2, <2>1 DEF QueueEnds
  <1>17. AvoidsTried' /\ RecordedLast'
    BY <1>2 DEF IInv, AvoidsTried, RecordedLast, Going
  <1>18. NothingUnreported'
    <2>1. Handed' = Handed
      BY <1>2 DEF Handed
    <2>2. \A i \in 1..Len(Trail) : Trail[i].target \in Targets
      BY <1>2 DEF IInv, EarlierSafe, Going
    <2>3. Reports = Trail /\ Reports' = Trail
      BY <1>4, <1>5, <1>6, <2>2, TrailGrows
    <2>4. Handed = ReportsOf(Reports)
      BY DEF IInv, NothingUnreported
    <2> QED
      BY <2>1, <2>3, <2>4 DEF NothingUnreported, ReportsOf
  <1> QED
    BY <1>11, <1>12, <1>13, <1>14, <1>15, <1>16, <1>17, <1>18 DEF IInv

\* An attempt returns.
LEMMA AttemptStep ==
  ASSUME IInv, Attempt
  PROVE  IInv'
  <1>1. /\ pc = "attempt" /\ pc' = "judge" /\ res' \in AttemptResults(stream)
        /\ client' = [status |-> res'.status, ending |-> res'.ending]
        /\ rec' = [rec EXCEPT !.failed = @ \/ res'.committed \/ res'.status = "error"]
        /\ UNCHANGED <<stream, attempt, target, tried, queue, delivered, records>>
    BY DEF Attempt
  <1>2. stream \in BOOLEAN /\ rec \in Recs /\ queue \in Queues
    BY DEF IInv, Types, TypeOK
  <1>3. Sound(res')
    BY <1>1, <1>2, ResultFacts
  <1>4. /\ rec'.trail = rec.trail /\ rec'.outcome = rec.outcome
        /\ rec'.failed = (rec.failed \/ res'.committed \/ res'.status = "error")
        /\ rec' \in Recs
    <2> DEFINE f == rec.failed \/ res'.committed \/ res'.status = "error"
    <2>1. f \in BOOLEAN
      OBVIOUS
    <2>2. \A g \in BOOLEAN :
            LET r == [rec EXCEPT !.failed = g]
            IN  /\ r \in Recs /\ r.outcome = rec.outcome /\ r.trail = rec.trail
                /\ r.failed = g
      BY <1>2 DEF Recs
    <2>3. rec' = [rec EXCEPT !.failed = f]
      BY <1>1
    <2> HIDE DEF f
    <2>4. /\ rec' \in Recs /\ rec'.outcome = rec.outcome /\ rec'.trail = rec.trail
          /\ rec'.failed = f
      BY <2>1, <2>2, <2>3, Zenon
    <2> QED
      BY <2>4 DEF f
  <1>5. Trail' = Trail /\ LastEntry' = LastEntry /\ NothingUnreported'
    BY <1>1, <1>4, NotedInRecord
  <1>6. Types'
    <2>1. /\ stream' \in BOOLEAN
          /\ tried' \in Seq(Targets)
          /\ attempt' \in 0..Attempts
          /\ target' \in Targets \cup {NoTarget}
      BY <1>1 DEF IInv, Types, TypeOK
    <2>2. res' \in (AttemptResults(stream) \cup {Refused(d) : d \in DispatchErrors}
                       \cup {NoRes})'
      BY <1>1
    <2>3. client' \in [status : Statuses, ending : Endings]
      <3>1. res'.status \in Statuses /\ res'.ending \in Endings
        BY <1>3 DEF Sound
      <3> QED
        BY <1>1, <3>1
    <2>4. rec'.outcome \in OutcomeSet \cup {""} /\ rec'.failed \in BOOLEAN
      BY <1>4 DEF Recs
    <2>5. rec' \in Recs' /\ queue' \in Queues' /\ delivered' \in Seq(RealReports)
      BY <1>1, <1>4 DEF IInv, Types, Recs, Entries, Results, Queues
    <2>6. pc' = "judge"
      BY <1>1
    <2>7. Len(queue'.ch) < QueueCap'
      <3>1. Len(queue.ch) < QueueCap
        BY <1>1, QueueHasRoom
      <3> QED
        BY <1>1, <3>1 DEF QueueCap, Attempts
    <2>8. TypeOK'
      BY <2>1, <2>2, <2>3, <2>4, <2>6, <2>7 DEF TypeOK
    <2> QED
      BY <2>5, <2>8 DEF Types
  <1>7. TrailCounts'
    BY <1>1, <1>5 DEF IInv, TrailCounts, InAttempt, Going
  <1>8. EarlierSafe' /\ AvoidsTried'
    BY <1>1, <1>5 DEF IInv, EarlierSafe, AvoidsTried, Going
  <1>9. ClientFollows'
    <2>1. res'.status = "error" => rec'.failed
      BY <1>4
    <2> QED
      BY <1>1, <2>1 DEF ClientFollows
  <1>10. OutcomeNamed'
    BY <1>1, <1>4 DEF IInv, OutcomeNamed
  <1>11. QueueEnds' /\ RecordedLast'
    BY <1>1 DEF IInv, QueueEnds, RecordedLast
  <1> QED
    BY <1>5, <1>6, <1>7, <1>8, <1>9, <1>10, <1>11 DEF IInv

\* Serve answers an error.
LEMMA FailStep ==
  ASSUME IInv, Fail
  PROVE  IInv'
  <1>1. /\ pc = "fail" /\ pc' = "close"
        /\ client' = [status |-> "error", ending |-> "error"]
        /\ rec' = [rec EXCEPT !.failed = TRUE, !.outcome = IF @ = "" THEN "abnormal" ELSE @]
        /\ UNCHANGED <<stream, attempt, target, res, tried, queue, delivered, records>>
    BY DEF Fail
  <1>2. rec \in Recs /\ queue \in Queues /\ Trail \in Seq(Entries)
    BY DEF IInv, Types, Recs, Trail
  <1>3. /\ rec'.trail = rec.trail /\ rec'.failed = TRUE
        /\ rec'.outcome = (IF rec.outcome = "" THEN "abnormal" ELSE rec.outcome)
    BY <1>1, <1>2 DEF Recs
  <1>4. rec' \in Recs
    BY <1>1, <1>2 DEF Recs, OutcomeSet
  <1>5. Trail' = Trail /\ LastEntry' = LastEntry /\ NothingUnreported'
    BY <1>1, <1>3, NotedInRecord
  <1>6. Types'
    <2>1. /\ stream' \in BOOLEAN
          /\ res' \in (AttemptResults(stream) \cup {Refused(d) : d \in DispatchErrors}
                          \cup {NoRes})'
          /\ tried' \in Seq(Targets)
          /\ attempt' \in 0..Attempts
          /\ target' \in Targets \cup {NoTarget}
      BY <1>1 DEF IInv, Types, TypeOK
    <2>2. client' \in [status : Statuses, ending : Endings]
      BY <1>1 DEF Statuses, Endings
    <2>3. rec'.outcome \in OutcomeSet \cup {""} /\ rec'.failed \in BOOLEAN
      BY <1>4 DEF Recs
    <2>4. rec' \in Recs' /\ queue' \in Queues' /\ delivered' \in Seq(RealReports)
      BY <1>1, <1>4 DEF IInv, Types, Recs, Entries, Results, Queues
    <2>5. pc' = "close"
      BY <1>1
    <2>6. TypeOK'
      BY <2>1, <2>2, <2>3, <2>5 DEF TypeOK
    <2> QED
      BY <2>4, <2>6 DEF Types
  <1>7. TrailCounts'
    BY <1>1, <1>5 DEF IInv, TrailCounts, InAttempt, Going
  <1>8. EarlierSafe' /\ AvoidsTried'
    BY <1>1, <1>5 DEF IInv, EarlierSafe, AvoidsTried, Going
  <1>9. ClientFollows'
    <2>1. client'.status = "error" /\ rec'.failed /\ pc' = "close"
      BY <1>1, <1>3
    <2> QED
      BY <2>1 DEF ClientFollows
  <1>10. OutcomeNamed'
    <2>1. LastEntry.outcome \in OutcomeSet
      <3>1. Len(Trail) = attempt /\ attempt > 0 /\ attempt \in 0..Attempts
        BY <1>1 DEF IInv, Types, TypeOK, TrailCounts, InAttempt, Going
      <3>2. Attempts \in Nat
        BY AttemptsAssumption DEF Attempts
      <3>3. Len(Trail) \in 1..Len(Trail)
        BY <3>1, <3>2
      <3>4. LastEntry \in Entries
        BY <1>2, <3>3 DEF LastEntry
      <3> QED
        BY <3>4 DEF Entries
    <2>2. LastEntry.outcome # ""
      BY <2>1 DEF OutcomeSet
    <2>3. rec'.outcome = LastEntry.outcome /\ LastEntry.res = res
      BY <1>1, <1>3, <2>2 DEF IInv, OutcomeNamed
    <2>4. pc' = "close" /\ res' = res /\ LastEntry' = LastEntry
      BY <1>1, <1>5
    <2> QED
      BY <2>3, <2>4 DEF OutcomeNamed
  <1>11. QueueEnds' /\ RecordedLast'
    BY <1>1 DEF IInv, QueueEnds, RecordedLast
  <1> QED
    BY <1>4, <1>5, <1>6, <1>7, <1>8, <1>9, <1>10, <1>11 DEF IInv

-----------------------------------------------------------------------------
(* The theorems.                                                             *)

\* The inductive invariant holds of every run of Serve and its queue.
THEOREM Invariance == Spec => []IInv
  <1>1. Init => IInv
    BY InitInv
  <1>2. IInv /\ [Next]_vars => IInv'
    <2> SUFFICES ASSUME IInv, [Next]_vars PROVE IInv'
      OBVIOUS
    <2>1. CASE Serve
      BY <2>1, DispatchStep, DispatchFailsStep, AttemptStep, SucceededStep, CommittedStep,
         SideEffectRiskStep, NotRetryableStep, ExhaustedStep, RetryStep, FailStep, CloseStep,
         AwaitDrainedStep, RecordStep DEF Serve
    <2>2. CASE Queue
      BY <2>2, TakeStep, DeliverStep, DrainedStep DEF Queue
    <2>3. CASE Returned \/ UNCHANGED vars
      BY <2>3, StutterStep DEF Returned
    <2> QED
      BY <2>1, <2>2, <2>3 DEF Next
  <1> QED
    BY <1>1, <1>2, PTL DEF Spec

\* Every variable keeps its type, and the queue always has room for a report:
\* Serve never waits for the relay when it hands one over.
THEOREM TypeCorrect == Spec => []TypeOK
  <1>1. IInv => TypeOK
    BY DEF IInv, Types
  <1> QED
    BY <1>1, Invariance, PTL

\* A request that was handed over and not answered is the last of its call,
\* and the client is told.
THEOREM UnansweredIsLast == Spec => []UnansweredEndsTheCall
  <1>1. IInv => UnansweredEndsTheCall
    <2> SUFFICES ASSUME IInv, NEW i \in DOMAIN Trail, Trail[i].res.fate = "unanswered"
                 PROVE  i = attempt /\ (pc = "returned" => client.status = "error")
      BY DEF UnansweredEndsTheCall, Trail
    <2>0. Trail \in Seq(Entries)
      BY DEF IInv, Types, Recs, Trail
    <2>1. i \in 1..Len(Trail) /\ Len(Trail) \in Nat
      BY <2>0
    <2>2. ~Going /\ ~(i < attempt)
      BY <2>1 DEF IInv, EarlierSafe, Safe
    <2>3. Len(Trail) = attempt
      BY <2>2 DEF IInv, TrailCounts, InAttempt, Going
    <2>4. i = attempt
      BY <2>1, <2>2, <2>3
    <2>5. ASSUME pc = "returned" PROVE client.status = "error"
      <3>1. Trail[i] = LastEntry
        BY <2>3, <2>4 DEF LastEntry
      <3>2. LastEntry.res = res
        BY <2>5 DEF IInv, OutcomeNamed
      <3> QED
        BY <2>5, <3>1, <3>2 DEF IInv, ClientFollows
    <2> QED
      BY <2>4, <2>5
  <1> QED
    BY <1>1, Invariance, PTL

\* The relay hears of every attempt once and in order, and is told what to
\* avoid.
THEOREM EveryAttemptReported == Spec => []ReportsFollowTrail
  <1>1. IInv => ReportsFollowTrail
    <2> SUFFICES ASSUME IInv PROVE ReportsFollowTrail
      OBVIOUS
    <2>1. Handed = ReportsOf(Reports)
      BY DEF IInv, NothingUnreported
    <2>2. ASSUME pc = "dispatch"
          PROVE  tried = [i \in DOMAIN Reports |-> Reports[i].target]
      <3>1. Trail \in Seq(Entries) /\ \A i \in 1..Len(Trail) : Trail[i].target \in Targets
        BY <2>2 DEF IInv, Types, Recs, Trail, EarlierSafe, Going
      <3>2. Reports = Trail
        BY <3>1, AllReported
      <3>3. tried = [i \in DOMAIN Trail |-> Trail[i].target]
        BY <2>2 DEF IInv, AvoidsTried, Going
      <3> QED
        BY <3>2, <3>3
    <2> QED
      BY <2>1, <2>2 DEF ReportsFollowTrail
  <1> QED
    BY <1>1, Invariance, PTL

\* When Serve returns the client has been answered, or has left.
THEOREM EveryCallAnswered == Spec => []EveryCallIsAnswered
  <1>1. IInv => EveryCallIsAnswered
    BY DEF IInv, ClientFollows, EveryCallIsAnswered
  <1> QED
    BY <1>1, Invariance, PTL

\* A call is recorded once, behind its reports, under the outcome of its last
\* attempt.
THEOREM RecordCloses == Spec => []RecordClosesTheCall
  <1>1. IInv => RecordClosesTheCall
    <2> SUFFICES ASSUME IInv PROVE RecordClosesTheCall
      OBVIOUS
    <2>1. CASE pc # "returned"
      <3>1. records = <<>>
        BY <2>1 DEF IInv, RecordedLast
      <3> QED
        BY <3>1 DEF RecordClosesTheCall
    <2>2. CASE pc = "returned"
      <3>1. records = <<rec>>
        BY <2>2 DEF IInv, RecordedLast
      <3>2. Len(records) = 1 /\ records[1] = rec
        BY <3>1
      <3>3. queue.ch = <<>> /\ queue.taken = NoReport
        BY <2>2 DEF IInv, QueueEnds
      <3>4. delivered \in Seq(RealReports)
        BY DEF IInv, Types
      <3>5. Handed = delivered \o <<>> \o <<>>
        BY <3>3 DEF Handed
      <3>6. Handed = delivered
        BY <3>4, <3>5
      <3>7. delivered = ReportsOf(Reports)
        BY <3>6 DEF IInv, NothingUnreported
      <3>8. rec.outcome = LastEntry.outcome
        BY <2>2 DEF IInv, OutcomeNamed
      <3>9. client.status = "error" => rec.failed
        BY <2>2 DEF IInv, ClientFollows
      <3> QED
        BY <3>2, <3>7, <3>8, <3>9 DEF RecordClosesTheCall, LastEntry, Trail
    <2> QED
      BY <2>1, <2>2
  <1> QED
    BY <1>1, Invariance, PTL

\* No report of a call follows one that the relay takes for its end.
THEOREM FinalIsLast == Spec => []FinalOutcomeIsLast
  <1>1. IInv => FinalOutcomeIsLast
    <2> SUFFICES ASSUME IInv PROVE FinalOutcomeIsLast
      OBVIOUS
    <2>1. /\ Trail \in Seq(Entries) /\ delivered \in Seq(RealReports)
          /\ Handed \in Seq(RealReports)
          /\ \A n \in 1..Len(delivered) : Handed[n] = delivered[n]
      BY HandedType DEF IInv, Types, Recs, Trail
    <2> SUFFICES ASSUME NEW i \in DOMAIN delivered, NEW j \in DOMAIN Reports, ~(j \leq i),
                        delivered[i].outcome \in {"normal", "abnormal", "context_exceeded"}
                 PROVE  FALSE
      BY Zenon DEF FinalOutcomeIsLast
    <2>2. i \in 1..Len(delivered) /\ j \in 1..Len(Trail) /\ Trail[j].target # NoTarget
      BY <2>1 DEF Reports, Trail
    <2>3. Len(Trail) \leq attempt /\ attempt \in Nat
      <3>1. Attempts \in Nat
        BY AttemptsAssumption DEF Attempts
      <3>2. attempt \in 0..Attempts
        BY DEF IInv, Types, TypeOK
      <3>3. Len(Trail) = IF InAttempt THEN attempt - 1 ELSE attempt
        BY DEF IInv, TrailCounts
      <3> QED
        BY <3>1, <3>2, <3>3
    <2>4. i \in 1..Len(Trail) /\ i < attempt
      BY <2>1, <2>2, <2>3
    <2>5. Trail[i].target \in Targets /\ Trail[i].outcome \in OpenOutcomes
      BY <2>4 DEF IInv, EarlierSafe
    <2>6. i \in DOMAIN Reports /\ Reports[i] = Trail[i]
      BY <2>1, <2>4, <2>5, TargetsAssumption DEF Reports, Trail
    <2>7. Handed[i] = Report(Trail[i])
      BY <2>6 DEF IInv, NothingUnreported, ReportsOf
    <2>8. delivered[i].outcome = Trail[i].outcome
      BY <2>1, <2>2, <2>7 DEF Report
    <2> QED
      BY <2>5, <2>8 DEF OpenOutcomes
  <1> QED
    BY <1>1, Invariance, PTL

\* Once something was written to the client, no other attempt and no error
\* answer is.
THEOREM OneAnswer == Spec => AnsweredOnce
  <1>1. IInv /\ [Next]_vars => [client.status # "none" => client' = client]_vars
    <2> SUFFICES ASSUME IInv, [Next]_vars, client.status # "none"
                 PROVE  client' = client
      OBVIOUS
    <2>1. pc \notin {"dispatch", "attempt", "fail"}
      BY DEF IInv, ClientFollows
    <2>2. ~Attempt /\ ~Fail
      BY <2>1 DEF Attempt, Fail
    <2> QED
      BY <2>1, <2>2
      DEF Next, Serve, Queue, Dispatch, DispatchFails, Succeeded, Committed, SideEffectRisk,
          NotRetryable, Exhausted, Retry, Judge, Close, AwaitDrained, Record, Take, Deliver,
          Drained, QueueOnly, Returned, vars
  <1> QED
    BY <1>1, Invariance, PTL DEF Spec, AnsweredOnce

=============================================================================
