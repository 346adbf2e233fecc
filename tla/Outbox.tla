------------------------------- MODULE Outbox -------------------------------
(***************************************************************************)
(* The report outbox: the direct report of a finished attempt             *)
(* (outbox.Worker.Report), the durable queue it falls back to             *)
(* (store.Outbox over the report_outbox table) and the execution flows    *)
(* that drain the queue (outbox.Worker.Drain: the ticker's and the one     *)
(* the shutdown runs).                                                     *)
(*                                                                         *)
(* Time is the distance to a row's deadlines: row.next is the time left    *)
(* until next_attempt_at and row.lease the time left until lease_until,    *)
(* so Tick can go on for ever and the state space stays finite.  A lease   *)
(* token is only ever compared on its own row, so a token that no claim    *)
(* on that row still carries is as fresh as a new UUID.                    *)
(***************************************************************************)
EXTENDS Integers, FiniteSets, FiniteSetsExt

CONSTANTS
  Calls,       \* invocations of Worker.Report
  Keys,        \* report ids
  KeyOf,       \* KeyOf[c]: the report id call c carries
  Workers,     \* execution flows running Drain
  Tokens,      \* lease tokens
  NoToken,     \* lease_token IS NULL
  MaxAttempts, \* Options.MaxAttempts
  BatchSize,   \* Options.BatchSize
  Timeout,     \* Options.Timeout, in whole ticks
  LeaseFloor,  \* the 30s floor of the lease, in ticks
  Ceiling,     \* the 5min cap of the backoff, in ticks
  MaxCrashes,  \* bound: process crashes explored
  MaxRevives   \* bound: retry-button presses explored

ASSUME OutboxAssumption ==
  /\ Keys # {}
  /\ KeyOf \in [Calls -> Keys]
  /\ NoToken \notin Tokens
  /\ MaxAttempts \in Nat \ {0}
  /\ BatchSize \in Nat \ {0}
  /\ Timeout \in Nat
  /\ LeaseFloor \in Nat \ {0}
  /\ Ceiling \in Nat \ {0}
  /\ MaxCrashes \in Nat
  /\ MaxRevives \in Nat

VARIABLES
  status,    \* status[c]: how far the Report call c has come
  queue,     \* the report ids that have a row in report_outbox
  row,       \* row[k]: the columns of k's row; blank when there is none
  phase,     \* phase[w]: where flow w stands in its Drain loop
  batch,     \* batch[w]: the entries Due returned that w has not begun
  cur,       \* cur[w]: the entry w is working on, as Due returned it
  accepted,  \* the report ids the dispatcher has taken in
  failures,  \* failures[k]: failed queue sends since insertion or revival
  crashes, revives

vars == <<status, queue, row, phase, batch, cur, accepted, failures,
          crashes, revives>>

callVars   == <<status>>
workerVars == <<phase, batch, cur>>
boundVars  == <<crashes, revives>>

-----------------------------------------------------------------------------
\* deadHorizon: a next_attempt_at no clock reaches.
Dead == -1

Blank == [attempts |-> 0, next |-> 0, lease |-> 0, token |-> NoToken]

\* What Due hands to Drain of a row: its id, a snapshot, and the ownership.
Claim == [key : Keys, attempts : 0..(MaxAttempts - 1), token : Tokens \union {NoToken}]
NoEntry == [key |-> CHOOSE k \in Keys : TRUE, attempts |-> 0, token |-> NoToken]

Statuses == {"new", "sending", "failed", "reported", "queued", "lost"}
Phases   == {"pick", "sending", "sent", "failed"}

\* Mutant: no cap.
BackoffUncapped(a) == 2^(IF a < 16 THEN a ELSE 16)

\* Doubles from one tick and stops at the ceiling.
Backoff(a) == LET d == 2^(IF a < 16 THEN a ELSE 16)
              IN  IF d \in 0..Ceiling THEN d ELSE Ceiling

Lease == IF 3 * Timeout > LeaseFloor THEN 3 * Timeout ELSE LeaseFloor

Row == [attempts : 0..MaxAttempts, next : 0..Ceiling \union {Dead},
        lease : 0..Lease, token : Tokens \union {NoToken}]

IsDead(k) == k \in queue /\ row[k].next = Dead

\* WHERE id = $1 AND lease_token = $2
Fenced(w) == cur[w].key \in queue /\ row[cur[w].key].token = cur[w].token

-----------------------------------------------------------------------------
Init ==
  /\ status = [c \in Calls |-> "new"]
  /\ queue = {}
  /\ row = [k \in Keys |-> Blank]
  /\ phase = [w \in Workers |-> "pick"]
  /\ batch = [w \in Workers |-> {}]
  /\ cur = [w \in Workers |-> NoEntry]
  /\ accepted = {}
  /\ failures = [k \in Keys |-> 0]
  /\ crashes = 0
  /\ revives = 0

-----------------------------------------------------------------------------
(* Worker.Report: the direct send and, when it fails, the queue.           *)

DirectBegin(c) ==
  /\ status[c] = "new"
  /\ status' = [status EXCEPT ![c] = "sending"]
  /\ UNCHANGED <<queue, row, workerVars, accepted, failures, boundVars>>

DirectOk(c) ==
  /\ status[c] = "sending"
  /\ status' = [status EXCEPT ![c] = "reported"]
  /\ accepted' = accepted \union {KeyOf[c]}
  /\ UNCHANGED <<queue, row, workerVars, failures, boundVars>>

\* An error says nothing about whether the dispatcher took the report in.
DirectFails(c) ==
  /\ status[c] = "sending"
  /\ status' = [status EXCEPT ![c] = "failed"]
  /\ accepted' \in {accepted, accepted \union {KeyOf[c]}}
  /\ UNCHANGED <<queue, row, workerVars, failures, boundVars>>

\* INSERT ... ON CONFLICT (report_id) DO NOTHING
Insert(k) ==
  IF k \in queue
  THEN UNCHANGED <<queue, row, failures>>
  ELSE /\ queue' = queue \union {k}
       /\ row' = [row EXCEPT ![k] = Blank]
       /\ failures' = [failures EXCEPT ![k] = 0]

Enqueue(c) ==
  /\ status[c] = "failed"
  /\ status' = [status EXCEPT ![c] = "queued"]
  /\ Insert(KeyOf[c])
  /\ UNCHANGED <<workerVars, accepted, boundVars>>

\* Mutant: the error of Enqueue is not looked at.
EnqueueErrorIgnored(c) ==
  /\ status[c] = "failed"
  /\ status' = [status EXCEPT ![c] = "queued"]
  /\ UNCHANGED <<queue, row, failures, workerVars, accepted, boundVars>>

\* Enqueue returned an error: the insert may have committed all the same.
EnqueueFails(c) ==
  /\ status[c] = "failed"
  /\ status' = [status EXCEPT ![c] = "lost"]
  /\ \/ Insert(KeyOf[c])
     \/ UNCHANGED <<queue, row, failures>>
  /\ UNCHANGED <<workerVars, accepted, boundVars>>

-----------------------------------------------------------------------------
(* store.Outbox.Due: claim the due rows nobody holds.                      *)

\* Mutant: a claim never expires.
ClaimableUnclaimed == {k \in queue : row[k].next = 0 /\ row[k].token = NoToken}

\* Mutant: the scan takes rows another flow still holds a lease on.
ClaimableLeased == {k \in queue : row[k].next = 0}

Claimable == {k \in queue : row[k].next = 0 /\ row[k].lease = 0}

\* Every claim some flow still carries.
Held(w) == batch[w] \union (IF phase[w] = "pick" THEN {} ELSE {cur[w]})

Unused(k, t) ==
  /\ row[k].token # t
  /\ \A w \in Workers : \A e \in Held(w) : e.key = k => e.token # t

FreshToken(k) == CHOOSE t \in Tokens : Unused(k, t)

ClaimRows(S) ==
  /\ S # {}
  /\ Cardinality(S) = (IF BatchSize < Cardinality(Claimable)
                       THEN BatchSize ELSE Cardinality(Claimable))
  /\ \A k \in S : \E t \in Tokens : Unused(k, t)
  /\ row' = [k \in Keys |->
               IF k \in S
               THEN [row[k] EXCEPT !.lease = Lease, !.token = FreshToken(k)]
               ELSE row[k]]

Due(w) ==
  /\ phase[w] = "pick" /\ batch[w] = {}
  /\ \E S \in SUBSET Claimable :
       /\ ClaimRows(S)
       /\ batch' = [batch EXCEPT ![w] =
            {[key |-> k, attempts |-> row[k].attempts,
              token |-> FreshToken(k)] : k \in S}]
  /\ UNCHANGED <<callVars, queue, phase, cur, accepted, failures, boundVars>>

\* The UPDATE committed and its rows never arrived: Drain gives up the round
\* and the claims wait for their lease to run out.
DueLost(w) ==
  /\ phase[w] = "pick" /\ batch[w] = {}
  /\ \E S \in SUBSET Claimable : ClaimRows(S)
  /\ UNCHANGED <<callVars, queue, workerVars, accepted, failures, boundVars>>

-----------------------------------------------------------------------------
(* Worker.Drain: one entry after the other.                                *)

Pick(w) ==
  /\ phase[w] = "pick"
  /\ \E e \in batch[w] :
       /\ cur' = [cur EXCEPT ![w] = e]
       /\ batch' = [batch EXCEPT ![w] = @ \ {e}]
  /\ phase' = [phase EXCEPT ![w] = "sending"]
  /\ UNCHANGED <<callVars, queue, row, accepted, failures, boundVars>>

SendOk(w) ==
  /\ phase[w] = "sending"
  /\ phase' = [phase EXCEPT ![w] = "sent"]
  /\ accepted' = accepted \union {cur[w].key}
  /\ UNCHANGED <<callVars, queue, row, batch, cur, failures, boundVars>>

SendFails(w) ==
  /\ phase[w] = "sending"
  /\ phase' = [phase EXCEPT ![w] = "failed"]
  /\ accepted' \in {accepted, accepted \union {cur[w].key}}
  \* the count saturates: no row ever needs to know more
  /\ failures' = [failures EXCEPT ![cur[w].key] =
                    IF @ < MaxAttempts THEN @ + 1 ELSE @]
  /\ UNCHANGED <<callVars, queue, row, batch, cur, boundVars>>

NextEntry(w) ==
  /\ phase' = [phase EXCEPT ![w] = "pick"]
  /\ cur' = [cur EXCEPT ![w] = NoEntry]
  /\ UNCHANGED <<callVars, batch, accepted, failures, boundVars>>

\* DELETE ... WHERE id AND token.  A row that changed hands is left alone.
Done(w) ==
  /\ phase[w] = "sent"
  /\ IF Fenced(w)
     THEN /\ queue' = queue \ {cur[w].key}
          /\ row' = [row EXCEPT ![cur[w].key] = Blank]
     ELSE UNCHANGED <<queue, row>>
  /\ NextEntry(w)

\* The columns Retry and Bury set: attempts counts up, the claim is released.
Verdict(w, nextAt) ==
  IF Fenced(w)
  THEN row' = [row EXCEPT ![cur[w].key] =
                 [attempts |-> @.attempts + 1, next |-> nextAt,
                  lease |-> 0, token |-> NoToken]]
  ELSE UNCHANGED row

Retry(w) ==
  /\ phase[w] = "failed"
  /\ cur[w].attempts + 1 < MaxAttempts
  /\ Verdict(w, Backoff(cur[w].attempts + 1))
  /\ UNCHANGED queue
  /\ NextEntry(w)

\* Mutant: a spent row is deleted, not kept as a dead letter.
BuryDeletes(w) ==
  /\ phase[w] = "failed"
  /\ cur[w].attempts + 1 >= MaxAttempts
  /\ queue' = queue \ {cur[w].key}
  /\ row' = [row EXCEPT ![cur[w].key] = Blank]
  /\ NextEntry(w)

Bury(w) ==
  /\ phase[w] = "failed"
  /\ cur[w].attempts + 1 >= MaxAttempts
  /\ Verdict(w, Dead)
  /\ UNCHANGED queue
  /\ NextEntry(w)

\* The write of the verdict failed: logged, and the loop goes on.
VerdictError(w) ==
  /\ phase[w] \in {"sent", "failed"}
  /\ UNCHANGED <<queue, row>>
  /\ NextEntry(w)

\* The flow's context is cancelled: what it still holds is dropped, whether
\* it was between two entries, in a send or before writing a verdict.
Cancelled(w) ==
  /\ Held(w) # {}
  /\ crashes < MaxCrashes
  /\ crashes' = crashes + 1
  /\ phase' = [phase EXCEPT ![w] = "pick"]
  /\ batch' = [batch EXCEPT ![w] = {}]
  /\ cur' = [cur EXCEPT ![w] = NoEntry]
  /\ UNCHANGED <<callVars, queue, row, accepted, failures, revives>>

-----------------------------------------------------------------------------
(* The operator, the clock and the process.                                *)

\* Mutant: the claim on a revived row stays valid.
ReviveKeepsClaim(k) ==
  /\ k \in queue
  /\ revives < MaxRevives
  /\ revives' = revives + 1
  /\ row' = [row EXCEPT ![k].attempts = 0, ![k].next = 0]
  /\ failures' = [failures EXCEPT ![k] = 0]
  /\ UNCHANGED <<callVars, queue, workerVars, accepted, crashes>>

Revive(k) ==
  /\ k \in queue
  /\ revives < MaxRevives
  /\ revives' = revives + 1
  /\ row' = [row EXCEPT ![k] = Blank]
  /\ failures' = [failures EXCEPT ![k] = 0]
  /\ UNCHANGED <<callVars, queue, workerVars, accepted, crashes>>

Earlier(n) == IF n > 0 THEN n - 1 ELSE n

Tick ==
  /\ \E k \in queue : row[k].next > 0 \/ row[k].lease > 0
  /\ row' = [k \in Keys |-> [row[k] EXCEPT !.next = Earlier(@),
                                           !.lease = Earlier(@)]]
  /\ UNCHANGED <<callVars, queue, workerVars, accepted, failures, boundVars>>

\* The process is killed: only the table survives.
Crash ==
  /\ crashes < MaxCrashes
  /\ crashes' = crashes + 1
  /\ status' = [c \in Calls |-> IF status[c] \in {"sending", "failed"}
                                THEN "lost" ELSE status[c]]
  /\ phase' = [w \in Workers |-> "pick"]
  /\ batch' = [w \in Workers |-> {}]
  /\ cur' = [w \in Workers |-> NoEntry]
  /\ UNCHANGED <<queue, row, accepted, failures, revives>>

-----------------------------------------------------------------------------
Report(c) == \/ DirectBegin(c) \/ DirectOk(c) \/ DirectFails(c)
             \/ Enqueue(c) \/ EnqueueFails(c)

Drain(w) == \/ Due(w) \/ DueLost(w) \/ Pick(w) \/ SendOk(w) \/ SendFails(w)
            \/ Done(w) \/ Retry(w) \/ Bury(w) \/ VerdictError(w)
            \/ Cancelled(w)

Next ==
  \/ \E c \in Calls : Report(c)
  \/ \E w \in Workers : Drain(w)
  \/ \E k \in Keys : Revive(k)
  \/ Tick
  \/ Crash

Spec == Init /\ [][Next]_vars

\* The ticker keeps calling Drain, a send ends by its timeout, and a database
\* that answers now and then lets some verdict through.
Fairness ==
  /\ WF_vars(Tick)
  /\ \A w \in Workers :
       /\ SF_vars(Due(w))
       /\ WF_vars(Pick(w))
       /\ WF_vars(SendOk(w) \/ SendFails(w))
       /\ WF_vars(Done(w) \/ Retry(w) \/ Bury(w) \/ VerdictError(w))
       /\ SF_vars(Done(w) \/ Retry(w) \/ Bury(w))

FairSpec == Spec /\ Fairness

-----------------------------------------------------------------------------
TypeOK ==
  /\ status \in [Calls -> Statuses]
  /\ queue \in SUBSET Keys
  /\ row \in [Keys -> Row]
  /\ phase \in [Workers -> Phases]
  /\ batch \in [Workers -> SUBSET Claim]
  /\ cur \in [Workers -> Claim]
  /\ accepted \in SUBSET Keys
  /\ failures \in [Keys -> 0..MaxAttempts]
  /\ crashes \in 0..MaxCrashes
  /\ revives \in 0..MaxRevives

\* A report that was put in the queue is never dropped: either its row is
\* still there or the dispatcher has taken the report in (Done deletes only
\* what was sent, a dead letter keeps its row, a crash loses only memory).
NoSilentLoss ==
  \A c \in Calls : status[c] = "queued" => KeyOf[c] \in queue \union accepted

\* Attempts never outruns the sends that failed since the row was inserted or
\* revived, however late a verdict arrives.
CountsFailedSends == \A k \in queue : row[k].attempts <= failures[k]

\* Flow w still carries the claim on k that the table shows, and its lease runs.
Running(w, k) ==
  \E e \in Held(w) :
    e.key = k /\ k \in queue /\ row[k].token = e.token /\ row[k].lease > 0

\* Only w's own flow, a revival or the end of the lease ends a running claim.
ClaimIsKept(w, k) ==
  \/ Held(w)' # Held(w)
  \/ revives' # revives
  \/ k \in queue' /\ row'[k].token = row[k].token

\* One failure costs a row one attempt: two flows that drain at once do not
\* both send a claimed row (Due's comment: they would burn its attempts at
\* double speed), so no step of another flow takes over, judges or deletes a
\* row whose claim runs; and the verdict of a flow whose lease ran out is not
\* counted on top of its successor's, so attempts never outruns the failures.
FailureCountedOnce ==
  [][/\ CountsFailedSends'
     /\ \A w \in Workers, k \in Keys : Running(w, k) => ClaimIsKept(w, k)]_vars

\* A row is a dead letter exactly when its attempts are used up; a verdict
\* computed from an old snapshot never buries a row that was revived since,
\* nor leaves one pending past its last attempt.
DeadExactlyWhenSpent ==
  \A k \in queue : row[k].next = Dead <=> row[k].attempts >= MaxAttempts

\* A row does not stay in the queue for ever: it is delivered and deleted, or
\* it becomes a dead letter the operator can see, even when claims are
\* abandoned, replies are lost and verdicts fail to be written.
EveryRowResolved ==
  \A k \in Keys : (k \in queue) ~> (k \notin queue \/ IsDead(k))

-----------------------------------------------------------------------------
\* The queue seen from outside: where each report is and what was promised.
Place(k) == IF k \notin queue THEN "none" ELSE IF IsDead(k) THEN "dead" ELSE "queue"

Custody == INSTANCE ReportCustody WITH
             place    <- [k \in Keys |-> Place(k)],
             promised <- {KeyOf[c] : c \in {d \in Calls : status[d] = "queued"}}

\* The outbox implements the custody it promises: a row leaves the queue only
\* after the dispatcher took the report in, and turns into a dead letter and
\* back without ever disappearing.
KeepsCustody == Custody!Spec

=============================================================================
