---------------------------- MODULE OutboxProofs ----------------------------
(* Proofs about Outbox, for every set of calls, report ids and flows and     *)
(* every value of the options.                                               *)
EXTENDS Outbox, TLAPS

-----------------------------------------------------------------------------
(* The inductive invariant.                                                  *)

\* The entry a flow is working on is a claim of its own.
CurApart == \A w \in Workers : phase[w] # "pick" => cur[w] \notin batch[w]

\* Claims carry a real token, and no two claims on a row the same one.
SoleOwner ==
  /\ \A w \in Workers : \A e \in Held(w) : e.token \in Tokens
  /\ \A v, w \in Workers : \A e \in Held(v), f \in Held(w) :
       e.key = f.key /\ e.token = f.token => v = w /\ e = f

\* A claim that still owns its row knows the row's attempts.
SnapshotFresh ==
  \A w \in Workers : \A e \in Held(w) :
    e.key \in queue /\ row[e.key].token = e.token
      => e.attempts = row[e.key].attempts

\* A dead letter is nobody's.
DeadUnclaimed ==
  \A k \in Keys : row[k].next = Dead => row[k].token = NoToken

\* A failed send that its flow may still count has not been counted.
FailurePending ==
  \A w \in Workers : phase[w] = "failed" /\ Fenced(w)
    => row[cur[w].key].attempts + 1 <= failures[cur[w].key]

\* What a flow is about to delete has been taken in.
SentAccepted == \A w \in Workers : phase[w] = "sent" => cur[w].key \in accepted

IInv ==
  /\ TypeOK
  /\ CurApart
  /\ SoleOwner
  /\ SnapshotFresh
  /\ DeadUnclaimed
  /\ DeadExactlyWhenSpent
  /\ CountsFailedSends
  /\ FailurePending
  /\ SentAccepted
  /\ NoSilentLoss

-----------------------------------------------------------------------------
(* The operators.                                                            *)

\* The delay before a retry stays within its cap.
LEMMA BackoffType == ASSUME NEW a \in Nat PROVE Backoff(a) \in 0..Ceiling
  BY OutboxAssumption DEF Backoff

\* A lease is never empty.
LEMMA LeaseType == Lease \in Nat \ {0}
  BY OutboxAssumption DEF Lease

\* A token chosen while one is left is a token no claim on the row carries.
LEMMA FreshTokenUnused ==
  ASSUME NEW k \in Keys, \E t \in Tokens : Unused(k, t)
  PROVE  FreshToken(k) \in Tokens /\ Unused(k, FreshToken(k))
  BY DEF FreshToken

\* An idle flow holds a well-formed entry.
LEMMA NoEntryType == NoEntry \in Claim
  BY OutboxAssumption DEF NoEntry, Claim

\* A report id without a row has blank columns.
LEMMA BlankType ==
  /\ Blank \in Row
  /\ Blank.attempts = 0 /\ Blank.next = 0 /\ Blank.lease = 0
  /\ Blank.token = NoToken
  BY OutboxAssumption, LeaseType DEF Blank, Row

-----------------------------------------------------------------------------
(* What the steps that write rows do to them.                                *)

\* A claim gives a fresh lease to the rows in S and leaves every other row alone.
LEMMA ClaimRowsEffect ==
  ASSUME TypeOK, NEW S \in SUBSET Claimable, ClaimRows(S)
  PROVE  /\ row' \in [Keys -> Row]
         /\ \A k \in Keys : /\ row'[k].attempts = row[k].attempts
                            /\ row'[k].next = row[k].next
         /\ \A k \in Keys \ S : row'[k] = row[k]
         /\ \A k \in S : /\ k \in queue /\ row[k].next = 0 /\ row[k].lease = 0
                         /\ row'[k].token = FreshToken(k)
                         /\ FreshToken(k) \in Tokens
                         /\ Unused(k, FreshToken(k))
  <1>1. \A k \in S : /\ k \in Keys /\ k \in queue
                   /\ row[k].next = 0 /\ row[k].lease = 0
    BY DEF TypeOK, Claimable
  <1>2. \A k \in S : FreshToken(k) \in Tokens /\ Unused(k, FreshToken(k))
    BY <1>1, FreshTokenUnused DEF ClaimRows
  <1>3. row \in [Keys -> Row]
    BY DEF TypeOK
  <1>4. \A k \in S : row'[k] = [row[k] EXCEPT !.lease = Lease, !.token = FreshToken(k)]
    BY <1>1 DEF ClaimRows
  <1>5. \A k \in Keys \ S : row'[k] = row[k]
    BY DEF ClaimRows
  <1>6. \A k \in S : row'[k] \in Row
    <2> SUFFICES ASSUME NEW k \in S PROVE row'[k] \in Row
      OBVIOUS
    <2>1. row[k] \in Row /\ FreshToken(k) \in Tokens /\ Lease \in 0..Lease
      BY <1>1, <1>2, <1>3, LeaseType
    <2>2. [row[k] EXCEPT !.lease = Lease, !.token = FreshToken(k)] \in Row
      BY <2>1 DEF Row
    <2> QED
      BY <1>4, <2>2
  <1>7. row' \in [Keys -> Row]
    <2>1. row' = [k \in Keys |-> row'[k]]
      BY DEF ClaimRows
    <2> QED
      BY <1>3, <1>5, <1>6, <2>1
  <1>8. \A k \in S : /\ row'[k].attempts = row[k].attempts
                    /\ row'[k].next = row[k].next
                    /\ row'[k].token = FreshToken(k)
    <2> SUFFICES ASSUME NEW k \in S
                 PROVE  /\ row'[k].attempts = row[k].attempts
                        /\ row'[k].next = row[k].next
                        /\ row'[k].token = FreshToken(k)
      OBVIOUS
    <2>1. row[k] \in Row
      BY <1>1, <1>3
    <2> QED
      BY <1>4, <2>1 DEF Row
  <1> QED
    BY <1>1, <1>2, <1>5, <1>7, <1>8

\* What Retry and Bury do: one more attempt and no lease, on the fenced row.
LEMMA VerdictEffect ==
  ASSUME TypeOK, SnapshotFresh, NEW w \in Workers, phase[w] = "failed",
         NEW n \in 0..Ceiling \union {Dead}, Verdict(w, n)
  PROVE  /\ row' \in [Keys -> Row]
         /\ Fenced(w) => /\ row'[cur[w].key].attempts = cur[w].attempts + 1
                         /\ row'[cur[w].key].next = n
                         /\ row'[cur[w].key].token = NoToken
                         /\ row[cur[w].key].attempts = cur[w].attempts
         /\ \A k \in Keys : ~ (Fenced(w) /\ k = cur[w].key) => row'[k] = row[k]
  <1> DEFINE k0 == cur[w].key
             new == [attempts |-> row[k0].attempts + 1, next |-> n,
                     lease |-> 0, token |-> NoToken]
  <1>1. row \in [Keys -> Row] /\ k0 \in Keys
    BY DEF TypeOK, Claim
  <1>2. CASE ~ Fenced(w)
    BY <1>1, <1>2 DEF Verdict
  <1>3. CASE Fenced(w)
    <2>1. row[k0].attempts = cur[w].attempts
      BY <1>3 DEF SnapshotFresh, Held, Fenced
    <2>2. row' = [row EXCEPT ![k0] = new]
      BY <1>3 DEF Verdict
    <2>3. new \in Row
      BY <1>1, <2>1, OutboxAssumption, LeaseType DEF Row, TypeOK, Claim
    <2> HIDE DEF new
    <2>4. row' \in [Keys -> Row] /\ row'[k0] = new
             /\ \A k \in Keys : k # k0 => row'[k] = row[k]
      BY <1>1, <2>2, <2>3
    <2> QED
      BY <1>3, <2>1, <2>4 DEF new
  <1> QED
    BY <1>2, <1>3

\* A tick brings every deadline one step closer and changes nothing else.
LEMMA TickEffect ==
  ASSUME TypeOK, Tick
  PROVE  /\ row' \in [Keys -> Row]
         /\ \A k \in Keys : /\ row'[k].attempts = row[k].attempts
                            /\ row'[k].token = row[k].token
                            /\ row'[k].next = Dead <=> row[k].next = Dead
  <1>1. row \in [Keys -> Row]
    BY DEF TypeOK
  <1>2. \A k \in Keys : row'[k] = [row[k] EXCEPT !.next = Earlier(@),
                                                 !.lease = Earlier(@)]
    BY DEF Tick
  <1>3. ASSUME NEW k \in Keys
        PROVE  /\ row'[k] \in Row
               /\ row'[k].attempts = row[k].attempts
               /\ row'[k].token = row[k].token
               /\ row'[k].next = Dead <=> row[k].next = Dead
    <2> DEFINE n == Earlier(row[k].next)
               l == Earlier(row[k].lease)
    <2>1. row[k] \in Row
      BY <1>1
    <2>2. /\ n \in 0..Ceiling \union {Dead} /\ l \in 0..Lease
          /\ n = Dead <=> row[k].next = Dead
      BY <2>1, LeaseType, OutboxAssumption DEF Row, Earlier, Dead
    <2>3. row'[k] = [row[k] EXCEPT !.next = n, !.lease = l]
      BY <1>2
    <2> HIDE DEF n, l
    <2> QED
      BY <2>1, <2>2, <2>3 DEF Row
  <1>4. row' = [k \in Keys |-> row'[k]]
    BY DEF Tick
  <1> QED
    BY <1>3, <1>4

\* The invariant holds initially.
LEMMA InitIInv == Init => IInv
  BY OutboxAssumption, NoEntryType, BlankType
  DEF Init, IInv, TypeOK, CurApart, SoleOwner, SnapshotFresh, DeadUnclaimed,
      DeadExactlyWhenSpent, CountsFailedSends, FailurePending, SentAccepted,
      NoSilentLoss, Statuses, Phases, Claim, Held, Dead

\* Every step of the outbox preserves the invariant.
LEMMA StepIInv == IInv /\ [Next]_vars => IInv'
  <1> SUFFICES ASSUME IInv, [Next]_vars PROVE IInv'
    OBVIOUS
  <1> USE OutboxAssumption DEF IInv, callVars, workerVars, boundVars
  <1>1. ASSUME NEW c \in Calls, DirectBegin(c) PROVE IInv'
    <2>1. TypeOK'
      BY <1>1, NoEntryType, BlankType
      DEF DirectBegin, TypeOK, Statuses, Phases, Row, Claim, Dead
    <2>2. NoSilentLoss'
      BY <1>1, <2>1, NoEntryType, BlankType
      DEF DirectBegin, TypeOK, NoSilentLoss, SentAccepted, Fenced
    <2>3. /\ CurApart'
          /\ SoleOwner'
          /\ SnapshotFresh'
          /\ DeadUnclaimed'
          /\ DeadExactlyWhenSpent'
          /\ CountsFailedSends'
          /\ FailurePending'
          /\ SentAccepted'
      BY <1>1, <2>1, NoEntryType, BlankType
      DEF DirectBegin, TypeOK, CurApart, SoleOwner, Held, SnapshotFresh,
          DeadUnclaimed, Row, Dead, DeadExactlyWhenSpent, Claim,
          CountsFailedSends, FailurePending, Fenced, SentAccepted
    <2> QED
      BY <2>1, <2>2, <2>3
  <1>2. ASSUME NEW c \in Calls, DirectOk(c) PROVE IInv'
    <2>1. TypeOK'
      BY <1>2, NoEntryType, BlankType
      DEF DirectOk, TypeOK, Statuses, Phases, Row, Claim, Dead
    <2>2. SentAccepted'
      BY <1>2, <2>1, NoEntryType, BlankType
      DEF DirectOk, TypeOK, SentAccepted
    <2>3. NoSilentLoss'
      BY <1>2, <2>1, NoEntryType, BlankType
      DEF DirectOk, TypeOK, NoSilentLoss, SentAccepted, Fenced
    <2>4. /\ CurApart'
          /\ SoleOwner'
          /\ SnapshotFresh'
          /\ DeadUnclaimed'
          /\ DeadExactlyWhenSpent'
          /\ CountsFailedSends'
          /\ FailurePending'
      BY <1>2, <2>1, NoEntryType, BlankType
      DEF DirectOk, TypeOK, CurApart, SoleOwner, Held, SnapshotFresh,
          DeadUnclaimed, Row, Dead, DeadExactlyWhenSpent, Claim,
          CountsFailedSends, FailurePending, Fenced
    <2> QED
      BY <2>1, <2>2, <2>3, <2>4
  <1>3. ASSUME NEW c \in Calls, DirectFails(c) PROVE IInv'
    <2>1. TypeOK'
      BY <1>3, NoEntryType, BlankType
      DEF DirectFails, TypeOK, Statuses, Phases, Row, Claim, Dead
    <2>2. SentAccepted'
      BY <1>3, <2>1, NoEntryType, BlankType
      DEF DirectFails, TypeOK, SentAccepted
    <2>3. NoSilentLoss'
      BY <1>3, <2>1, NoEntryType, BlankType
      DEF DirectFails, TypeOK, NoSilentLoss, SentAccepted, Fenced
    <2>4. /\ CurApart'
          /\ SoleOwner'
          /\ SnapshotFresh'
          /\ DeadUnclaimed'
          /\ DeadExactlyWhenSpent'
          /\ CountsFailedSends'
          /\ FailurePending'
      BY <1>3, <2>1, NoEntryType, BlankType
      DEF DirectFails, TypeOK, CurApart, SoleOwner, Held, SnapshotFresh,
          DeadUnclaimed, Row, Dead, DeadExactlyWhenSpent, Claim,
          CountsFailedSends, FailurePending, Fenced
    <2> QED
      BY <2>1, <2>2, <2>3, <2>4
  <1>4. ASSUME NEW c \in Calls, Enqueue(c) PROVE IInv'
    <2>1. TypeOK'
      <3>1. CASE KeyOf[c] \in queue
        BY <1>4, <3>1 DEF Enqueue, Insert, TypeOK, Statuses
      <3>2. CASE KeyOf[c] \notin queue
        BY <1>4, <3>2, BlankType DEF Enqueue, Insert, TypeOK, Statuses
      <3> QED
        BY <3>1, <3>2
    <2>2. SnapshotFresh'
      BY <1>4, <2>1, NoEntryType, BlankType
      DEF Enqueue, Insert, TypeOK, SnapshotFresh, Held, SoleOwner, CurApart
    <2>3. DeadUnclaimed'
      BY <1>4, <2>1, NoEntryType, BlankType
      DEF Enqueue, Insert, TypeOK, DeadUnclaimed, Row, Dead
    <2>4. DeadExactlyWhenSpent'
      BY <1>4, <2>1, NoEntryType, BlankType
      DEF Enqueue, Insert, TypeOK, DeadExactlyWhenSpent, SnapshotFresh, Held,
          Row, Dead, Claim
    <2>5. CountsFailedSends'
      BY <1>4, <2>1, NoEntryType, BlankType
      DEF Enqueue, Insert, TypeOK, CountsFailedSends, FailurePending, Row,
          Claim
    <2>6. FailurePending'
      BY <1>4, <2>1, NoEntryType, BlankType
      DEF Enqueue, Insert, TypeOK, FailurePending, CountsFailedSends,
          SoleOwner, Held, DeadUnclaimed, DeadExactlyWhenSpent, Row, Claim,
          CurApart, Fenced
    <2>7. NoSilentLoss'
      BY <1>4, <2>1, NoEntryType, BlankType
      DEF Enqueue, Insert, TypeOK, NoSilentLoss, SentAccepted, Fenced
    <2>8. CurApart' /\ SoleOwner' /\ SentAccepted'
      BY <1>4, <2>1, NoEntryType, BlankType
      DEF Enqueue, Insert, TypeOK, CurApart, SoleOwner, Held, SentAccepted
    <2> QED
      BY <2>1, <2>2, <2>3, <2>4, <2>5, <2>6, <2>7, <2>8
  <1>5. ASSUME NEW c \in Calls, EnqueueFails(c) PROVE IInv'
    <2>1. TypeOK'
      <3>1. CASE Insert(KeyOf[c])
        BY <1>5, <3>1, BlankType DEF EnqueueFails, Insert, TypeOK, Statuses
      <3>2. CASE UNCHANGED <<queue, row, failures>>
        BY <1>5, <3>2 DEF EnqueueFails, TypeOK, Statuses
      <3> QED
        BY <1>5, <3>1, <3>2 DEF EnqueueFails
    <2>2. SnapshotFresh'
      BY <1>5, <2>1, NoEntryType, BlankType
      DEF EnqueueFails, Insert, TypeOK, SnapshotFresh, Held, SoleOwner, CurApart
    <2>3. DeadUnclaimed'
      BY <1>5, <2>1, NoEntryType, BlankType
      DEF EnqueueFails, Insert, TypeOK, DeadUnclaimed, Row, Dead
    <2>4. DeadExactlyWhenSpent'
      BY <1>5, <2>1, NoEntryType, BlankType
      DEF EnqueueFails, Insert, TypeOK, DeadExactlyWhenSpent, SnapshotFresh,
          Held, Row, Dead, Claim
    <2>5. CountsFailedSends'
      BY <1>5, <2>1, NoEntryType, BlankType
      DEF EnqueueFails, Insert, TypeOK, CountsFailedSends, FailurePending, Row,
          Claim
    <2>6. FailurePending'
      BY <1>5, <2>1, NoEntryType, BlankType
      DEF EnqueueFails, Insert, TypeOK, FailurePending, CountsFailedSends,
          SoleOwner, Held, DeadUnclaimed, DeadExactlyWhenSpent, Row, Claim,
          CurApart, Fenced
    <2>7. NoSilentLoss'
      BY <1>5, <2>1, NoEntryType, BlankType
      DEF EnqueueFails, Insert, TypeOK, NoSilentLoss, SentAccepted, Fenced
    <2>8. CurApart' /\ SoleOwner' /\ SentAccepted'
      BY <1>5, <2>1, NoEntryType, BlankType
      DEF EnqueueFails, Insert, TypeOK, CurApart, SoleOwner, Held, SentAccepted
    <2> QED
      BY <2>1, <2>2, <2>3, <2>4, <2>5, <2>6, <2>7, <2>8
  <1>6. ASSUME NEW w \in Workers, Due(w) PROVE IInv'
    <2>a. PICK S \in SUBSET Claimable :
                 /\ ClaimRows(S)
                 /\ batch' = [batch EXCEPT ![w] =
                     {[key |-> k, attempts |-> row[k].attempts,
                       token |-> FreshToken(k)] : k \in S}]
      BY <1>6 DEF Due
    <2>b. /\ phase[w] = "pick" /\ batch[w] = {}
          /\ UNCHANGED <<status, queue, phase, cur, accepted, failures, crashes, revives>>
      BY <1>6 DEF Due
    <2>c. /\ row' \in [Keys -> Row]
          /\ \A k \in Keys : /\ row'[k].attempts = row[k].attempts
                             /\ row'[k].next = row[k].next
          /\ \A k \in Keys \ S : row'[k] = row[k]
          /\ \A k \in S : /\ k \in queue /\ row[k].next = 0
                          /\ row'[k].token = FreshToken(k)
                          /\ FreshToken(k) \in Tokens
                          /\ Unused(k, FreshToken(k))
      BY <2>a, ClaimRowsEffect
    <2>1. TypeOK'
      BY <2>a, <2>b, <2>c, NoEntryType, BlankType
      DEF TypeOK, Statuses, Phases, Row, Claim, Dead, Unused,
          DeadExactlyWhenSpent, Claim
    <2>2. CurApart'
      BY <2>a, <2>b, <2>c, <2>1, NoEntryType, BlankType
      DEF TypeOK, CurApart, Unused
    <2>3. SoleOwner'
      BY <2>a, <2>b, <2>c, <2>1, NoEntryType, BlankType
      DEF TypeOK, SoleOwner, Held, Unused
    <2>4. SnapshotFresh'
      <3> SUFFICES ASSUME NEW v \in Workers, NEW e \in Held(v)',
                          e.key \in queue, row'[e.key].token = e.token
                   PROVE  e.attempts = row'[e.key].attempts
        BY <2>b DEF SnapshotFresh
      <3>1. CASE e \in Held(v)
        <4>1. e.key \in Keys
          BY <3>1 DEF TypeOK, Held, Claim
        <4>2. e.key \notin S
          BY <2>c, <3>1 DEF Unused
        <4> QED
          BY <2>c, <3>1, <4>1, <4>2 DEF SnapshotFresh
      <3>2. CASE e \notin Held(v)
        <4>1. PICK k \in S : e = [key |-> k, attempts |-> row[k].attempts,
                                  token |-> FreshToken(k)]
          BY <2>a, <2>b, <3>2 DEF Held, TypeOK
        <4> QED
          BY <2>c, <4>1 DEF TypeOK, Claimable
      <3> QED
        BY <3>1, <3>2
    <2>5. DeadUnclaimed'
      BY <2>a, <2>b, <2>c, <2>1, NoEntryType, BlankType
      DEF TypeOK, DeadUnclaimed, Row, Dead, Unused
    <2>6. DeadExactlyWhenSpent'
      BY <2>a, <2>b, <2>c, <2>1, NoEntryType, BlankType
      DEF TypeOK, DeadExactlyWhenSpent, SnapshotFresh, Held, Row, Dead, Claim,
          Unused
    <2>7. CountsFailedSends'
      BY <2>a, <2>b, <2>c, <2>1, NoEntryType, BlankType
      DEF TypeOK, CountsFailedSends, FailurePending, Row, Claim, Unused
    <2>8. FailurePending'
      BY <2>a, <2>b, <2>c, <2>1, NoEntryType, BlankType
      DEF TypeOK, FailurePending, CountsFailedSends, SoleOwner, Held,
          DeadUnclaimed, DeadExactlyWhenSpent, Row, Claim, CurApart, Fenced,
          Unused
    <2>9. SentAccepted'
      BY <2>a, <2>b, <2>c, <2>1, NoEntryType, BlankType
      DEF TypeOK, SentAccepted, Unused
    <2>10. NoSilentLoss'
      BY <2>a, <2>b, <2>c, <2>1, NoEntryType, BlankType
      DEF TypeOK, NoSilentLoss, SentAccepted, Fenced, Unused
    <2> QED
      BY <2>1, <2>2, <2>3, <2>4, <2>5, <2>6, <2>7, <2>8, <2>9, <2>10
  <1>7. ASSUME NEW w \in Workers, DueLost(w) PROVE IInv'
    <2>a. PICK S \in SUBSET Claimable :
                 /\ ClaimRows(S)
      BY <1>7 DEF DueLost
    <2>b. /\ phase[w] = "pick" /\ batch[w] = {}
          /\ UNCHANGED <<status, queue, phase, cur, accepted, failures, crashes, revives>>
          /\ UNCHANGED batch
      BY <1>7 DEF DueLost
    <2>c. /\ row' \in [Keys -> Row]
          /\ \A k \in Keys : /\ row'[k].attempts = row[k].attempts
                             /\ row'[k].next = row[k].next
          /\ \A k \in Keys \ S : row'[k] = row[k]
          /\ \A k \in S : /\ k \in queue /\ row[k].next = 0
                          /\ row'[k].token = FreshToken(k)
                          /\ FreshToken(k) \in Tokens
                          /\ Unused(k, FreshToken(k))
      BY <2>a, ClaimRowsEffect
    <2>1. TypeOK'
      BY <2>a, <2>b, <2>c, NoEntryType, BlankType
      DEF TypeOK, Statuses, Phases, Row, Claim, Dead, Unused
    <2>2. CurApart'
      BY <2>a, <2>b, <2>c, <2>1, NoEntryType, BlankType
      DEF TypeOK, CurApart, Unused
    <2>3. SoleOwner'
      BY <2>a, <2>b, <2>c, <2>1, NoEntryType, BlankType
      DEF TypeOK, SoleOwner, Held, Unused
    <2>4. SnapshotFresh'
      <3> SUFFICES ASSUME NEW v \in Workers, NEW e \in Held(v)',
                          e.key \in queue, row'[e.key].token = e.token
                   PROVE  e.attempts = row'[e.key].attempts
        BY <2>b DEF SnapshotFresh
      <3>1. e \in Held(v) /\ e.key \in Keys
        BY <2>b DEF Held, TypeOK, Claim
      <3>2. e.key \notin S
        BY <2>c, <3>1 DEF Unused
      <3> QED
        BY <2>c, <3>1, <3>2 DEF SnapshotFresh
    <2>5. DeadUnclaimed'
      BY <2>a, <2>b, <2>c, <2>1, NoEntryType, BlankType
      DEF TypeOK, DeadUnclaimed, Row, Dead, Unused
    <2>6. DeadExactlyWhenSpent'
      BY <2>a, <2>b, <2>c, <2>1, NoEntryType, BlankType
      DEF TypeOK, DeadExactlyWhenSpent, SnapshotFresh, Held, Row, Dead, Claim,
          Unused
    <2>7. CountsFailedSends'
      BY <2>a, <2>b, <2>c, <2>1, NoEntryType, BlankType
      DEF TypeOK, CountsFailedSends, FailurePending, Row, Claim, Unused
    <2>8. FailurePending'
      BY <2>a, <2>b, <2>c, <2>1, NoEntryType, BlankType
      DEF TypeOK, FailurePending, CountsFailedSends, SoleOwner, Held,
          DeadUnclaimed, DeadExactlyWhenSpent, Row, Claim, CurApart, Fenced,
          Unused
    <2>9. SentAccepted'
      BY <2>a, <2>b, <2>c, <2>1, NoEntryType, BlankType
      DEF TypeOK, SentAccepted, Unused
    <2>10. NoSilentLoss'
      BY <2>a, <2>b, <2>c, <2>1, NoEntryType, BlankType
      DEF TypeOK, NoSilentLoss, SentAccepted, Fenced, Unused
    <2> QED
      BY <2>1, <2>2, <2>3, <2>4, <2>5, <2>6, <2>7, <2>8, <2>9, <2>10
  <1>8. ASSUME NEW w \in Workers, Pick(w) PROVE IInv'
    <2>1. TypeOK'
      BY <1>8, NoEntryType, BlankType
      DEF Pick, TypeOK, Statuses, Phases, Row, Claim, Dead
    <2>2. CurApart'
      BY <1>8, <2>1, NoEntryType, BlankType
      DEF Pick, TypeOK, CurApart
    <2>3. SoleOwner'
      BY <1>8, <2>1, NoEntryType, BlankType
      DEF Pick, TypeOK, SoleOwner, Held
    <2>4. SnapshotFresh'
      BY <1>8, <2>1, NoEntryType, BlankType
      DEF Pick, TypeOK, SnapshotFresh, Held, SoleOwner, CurApart
    <2>5. FailurePending'
      BY <1>8, <2>1, NoEntryType, BlankType
      DEF Pick, TypeOK, FailurePending, CountsFailedSends, SoleOwner, Held,
          DeadUnclaimed, DeadExactlyWhenSpent, Row, Claim, CurApart, Fenced
    <2>6. /\ DeadUnclaimed'
          /\ DeadExactlyWhenSpent'
          /\ CountsFailedSends'
          /\ SentAccepted'
          /\ NoSilentLoss'
      BY <1>8, <2>1, NoEntryType, BlankType
      DEF Pick, TypeOK, DeadUnclaimed, Row, Dead, DeadExactlyWhenSpent,
          SnapshotFresh, Held, Claim, CountsFailedSends, FailurePending,
          SentAccepted, NoSilentLoss, Fenced
    <2> QED
      BY <2>1, <2>2, <2>3, <2>4, <2>5, <2>6
  <1>9. ASSUME NEW w \in Workers, SendOk(w) PROVE IInv'
    <2>1. TypeOK'
      BY <1>9, NoEntryType, BlankType
      DEF SendOk, TypeOK, Statuses, Phases, Row, Claim, Dead
    <2>2. SoleOwner'
      BY <1>9, <2>1, NoEntryType, BlankType
      DEF SendOk, TypeOK, SoleOwner, Held
    <2>3. SnapshotFresh'
      BY <1>9, <2>1, NoEntryType, BlankType
      DEF SendOk, TypeOK, SnapshotFresh, Held, SoleOwner, CurApart
    <2>4. SentAccepted'
      BY <1>9, <2>1, NoEntryType, BlankType
      DEF SendOk, TypeOK, SentAccepted
    <2>5. NoSilentLoss'
      BY <1>9, <2>1, NoEntryType, BlankType
      DEF SendOk, TypeOK, NoSilentLoss, SentAccepted, Fenced
    <2>6. /\ CurApart'
          /\ DeadUnclaimed'
          /\ DeadExactlyWhenSpent'
          /\ CountsFailedSends'
          /\ FailurePending'
      BY <1>9, <2>1, NoEntryType, BlankType
      DEF SendOk, TypeOK, CurApart, DeadUnclaimed, Row, Dead,
          DeadExactlyWhenSpent, SnapshotFresh, Held, Claim, CountsFailedSends,
          FailurePending, SoleOwner, Fenced
    <2> QED
      BY <2>1, <2>2, <2>3, <2>4, <2>5, <2>6
  <1>10. ASSUME NEW w \in Workers, SendFails(w) PROVE IInv'
    <2>1. TypeOK'
      BY <1>10, NoEntryType, BlankType
      DEF SendFails, TypeOK, Statuses, Phases, Row, Claim, Dead
    <2>2. SoleOwner'
      BY <1>10, <2>1, NoEntryType, BlankType
      DEF SendFails, TypeOK, SoleOwner, Held
    <2>3. SnapshotFresh'
      BY <1>10, <2>1, NoEntryType, BlankType
      DEF SendFails, TypeOK, SnapshotFresh, Held, SoleOwner, CurApart
    <2>4. CountsFailedSends'
      BY <1>10, <2>1, NoEntryType, BlankType
      DEF SendFails, TypeOK, CountsFailedSends, FailurePending, Row, Claim
    <2>5. FailurePending'
      BY <1>10, <2>1, NoEntryType, BlankType
      DEF SendFails, TypeOK, FailurePending, CountsFailedSends, SoleOwner,
          Held, DeadUnclaimed, DeadExactlyWhenSpent, Row, Claim, CurApart,
          Fenced
    <2>6. NoSilentLoss'
      BY <1>10, <2>1, NoEntryType, BlankType
      DEF SendFails, TypeOK, NoSilentLoss, SentAccepted, Fenced
    <2>7. CurApart' /\ DeadUnclaimed' /\ DeadExactlyWhenSpent' /\ SentAccepted'
      BY <1>10, <2>1, NoEntryType, BlankType
      DEF SendFails, TypeOK, CurApart, DeadUnclaimed, Row, Dead,
          DeadExactlyWhenSpent, SnapshotFresh, Held, Claim, SentAccepted
    <2> QED
      BY <2>1, <2>2, <2>3, <2>4, <2>5, <2>6, <2>7
  <1>11. ASSUME NEW w \in Workers, Done(w) PROVE IInv'
    <2>1. TypeOK'
      <3>1. CASE Fenced(w)
        BY <1>11, <3>1, BlankType, NoEntryType DEF Done, NextEntry, TypeOK,
            Phases, Claim
      <3>2. CASE ~ Fenced(w)
        BY <1>11, <3>2, NoEntryType DEF Done, NextEntry, TypeOK, Phases
      <3> QED
        BY <3>1, <3>2
    <2>2. CurApart'
      BY <1>11, <2>1, NoEntryType, BlankType
      DEF Done, NextEntry, Fenced, TypeOK, CurApart
    <2>3. SoleOwner'
      BY <1>11, <2>1, NoEntryType, BlankType
      DEF Done, NextEntry, Fenced, TypeOK, SoleOwner, Held
    <2>4. SnapshotFresh'
      BY <1>11, <2>1, NoEntryType, BlankType
      DEF Done, NextEntry, Fenced, TypeOK, SnapshotFresh, Held, SoleOwner,
          CurApart
    <2>5. DeadUnclaimed'
      BY <1>11, <2>1, NoEntryType, BlankType
      DEF Done, NextEntry, Fenced, TypeOK, DeadUnclaimed, Row, Dead
    <2>6. DeadExactlyWhenSpent'
      BY <1>11, <2>1, NoEntryType, BlankType
      DEF Done, NextEntry, Fenced, TypeOK, DeadExactlyWhenSpent, SnapshotFresh,
          Held, Row, Dead, Claim
    <2>7. CountsFailedSends'
      BY <1>11, <2>1, NoEntryType, BlankType
      DEF Done, NextEntry, Fenced, TypeOK, CountsFailedSends, FailurePending,
          Row, Claim
    <2>8. FailurePending'
      BY <1>11, <2>1, NoEntryType, BlankType
      DEF Done, NextEntry, Fenced, TypeOK, FailurePending, CountsFailedSends,
          SoleOwner, Held, DeadUnclaimed, DeadExactlyWhenSpent, Row, Claim,
          CurApart
    <2>9. SentAccepted'
      BY <1>11, <2>1, NoEntryType, BlankType
      DEF Done, NextEntry, Fenced, TypeOK, SentAccepted
    <2>10. NoSilentLoss'
      BY <1>11, <2>1, NoEntryType, BlankType
      DEF Done, NextEntry, Fenced, TypeOK, NoSilentLoss, SentAccepted
    <2> QED
      BY <2>1, <2>2, <2>3, <2>4, <2>5, <2>6, <2>7, <2>8, <2>9, <2>10
  <1>12. ASSUME NEW w \in Workers, Retry(w) PROVE IInv'
    <2> DEFINE n == Backoff(cur[w].attempts + 1)
    <2>a. /\ phase[w] = "failed" /\ cur[w].attempts + 1 < MaxAttempts /\ Verdict(w, n)
          /\ phase' = [phase EXCEPT ![w] = "pick"]
          /\ cur' = [cur EXCEPT ![w] = NoEntry]
          /\ UNCHANGED <<status, queue, batch, accepted, failures, crashes, revives>>
      BY <1>12 DEF Retry, NextEntry
    <2>b. n \in 0..Ceiling \union {Dead} /\ cur[w] \in Claim /\ n # Dead
      BY BackoffType DEF TypeOK, Claim, Dead
    <2> HIDE DEF n
    <2>c. /\ row' \in [Keys -> Row]
          /\ Fenced(w) => /\ row'[cur[w].key].attempts = cur[w].attempts + 1
                          /\ row'[cur[w].key].next = n
                          /\ row'[cur[w].key].token = NoToken
                          /\ row[cur[w].key].attempts = cur[w].attempts
          /\ \A k \in Keys : ~ (Fenced(w) /\ k = cur[w].key) => row'[k] = row[k]
      BY <2>a, <2>b, VerdictEffect
    <2>1. TypeOK'
      BY <2>a, <2>b, <2>c, NoEntryType, BlankType
      DEF Fenced, TypeOK, Statuses, Phases, Row, Claim, Dead
    <2>2. CurApart'
      BY <2>a, <2>b, <2>c, <2>1, NoEntryType, BlankType
      DEF Fenced, TypeOK, CurApart
    <2>3. SoleOwner'
      BY <2>a, <2>b, <2>c, <2>1, NoEntryType, BlankType
      DEF Fenced, TypeOK, SoleOwner, Held
    <2>4. SnapshotFresh'
      BY <2>a, <2>b, <2>c, <2>1, NoEntryType, BlankType
      DEF Fenced, TypeOK, SnapshotFresh, Held, SoleOwner, CurApart
    <2>5. DeadUnclaimed'
      BY <2>a, <2>b, <2>c, <2>1, NoEntryType, BlankType
      DEF Fenced, TypeOK, DeadUnclaimed, Row, Dead
    <2>6. DeadExactlyWhenSpent'
      BY <2>a, <2>b, <2>c, <2>1, NoEntryType, BlankType
      DEF Fenced, TypeOK, DeadExactlyWhenSpent, SnapshotFresh, Held, Row, Dead,
          Claim
    <2>7. CountsFailedSends'
      BY <2>a, <2>b, <2>c, <2>1, NoEntryType, BlankType
      DEF Fenced, TypeOK, CountsFailedSends, FailurePending, Row, Claim
    <2>8. FailurePending'
      BY <2>a, <2>b, <2>c, <2>1, NoEntryType, BlankType
      DEF Fenced, TypeOK, FailurePending, CountsFailedSends, SoleOwner, Held,
          DeadUnclaimed, DeadExactlyWhenSpent, Row, Claim, CurApart
    <2>9. SentAccepted'
      BY <2>a, <2>b, <2>c, <2>1, NoEntryType, BlankType
      DEF Fenced, TypeOK, SentAccepted
    <2>10. NoSilentLoss'
      BY <2>a, <2>b, <2>c, <2>1, NoEntryType, BlankType
      DEF Fenced, TypeOK, NoSilentLoss, SentAccepted
    <2> QED
      BY <2>1, <2>2, <2>3, <2>4, <2>5, <2>6, <2>7, <2>8, <2>9, <2>10
  <1>13. ASSUME NEW w \in Workers, Bury(w) PROVE IInv'
    <2> DEFINE n == Dead
    <2>a. /\ phase[w] = "failed" /\ cur[w].attempts + 1 >= MaxAttempts /\ Verdict(w, n)
          /\ phase' = [phase EXCEPT ![w] = "pick"]
          /\ cur' = [cur EXCEPT ![w] = NoEntry]
          /\ UNCHANGED <<status, queue, batch, accepted, failures, crashes, revives>>
      BY <1>13 DEF Bury, NextEntry
    <2>b. n \in 0..Ceiling \union {Dead} /\ cur[w] \in Claim
      BY BackoffType DEF TypeOK, Claim, Dead
    <2> HIDE DEF n
    <2>c. /\ row' \in [Keys -> Row]
          /\ Fenced(w) => /\ row'[cur[w].key].attempts = cur[w].attempts + 1
                          /\ row'[cur[w].key].next = n
                          /\ row'[cur[w].key].token = NoToken
                          /\ row[cur[w].key].attempts = cur[w].attempts
          /\ \A k \in Keys : ~ (Fenced(w) /\ k = cur[w].key) => row'[k] = row[k]
      BY <2>a, <2>b, VerdictEffect
    <2>1. TypeOK'
      BY <2>a, <2>b, <2>c, NoEntryType, BlankType
      DEF Fenced, TypeOK, Statuses, Phases, Row, Claim, Dead
    <2>2. CurApart'
      BY <2>a, <2>b, <2>c, <2>1, NoEntryType, BlankType
      DEF Fenced, TypeOK, CurApart
    <2>3. SoleOwner'
      BY <2>a, <2>b, <2>c, <2>1, NoEntryType, BlankType
      DEF Fenced, TypeOK, SoleOwner, Held
    <2>4. SnapshotFresh'
      BY <2>a, <2>b, <2>c, <2>1, NoEntryType, BlankType
      DEF Fenced, TypeOK, SnapshotFresh, Held, SoleOwner, CurApart
    <2>5. DeadUnclaimed'
      BY <2>a, <2>b, <2>c, <2>1, NoEntryType, BlankType
      DEF Fenced, TypeOK, DeadUnclaimed, Row, Dead
    <2>6. DeadExactlyWhenSpent'
      <3> SUFFICES ASSUME NEW k \in queue
                   PROVE  row'[k].next = Dead <=> row'[k].attempts >= MaxAttempts
        BY <2>a DEF DeadExactlyWhenSpent
      <3>1. CASE Fenced(w) /\ k = cur[w].key
        BY <2>a, <2>b, <2>c, <3>1 DEF n
      <3>2. CASE ~ (Fenced(w) /\ k = cur[w].key)
        BY <2>c, <3>2 DEF DeadExactlyWhenSpent, TypeOK
      <3> QED
        BY <3>1, <3>2
    <2>7. CountsFailedSends'
      BY <2>a, <2>b, <2>c, <2>1, NoEntryType, BlankType
      DEF Fenced, TypeOK, CountsFailedSends, FailurePending, Row, Claim
    <2>8. FailurePending'
      BY <2>a, <2>b, <2>c, <2>1, NoEntryType, BlankType
      DEF Fenced, TypeOK, FailurePending, CountsFailedSends, SoleOwner, Held,
          DeadUnclaimed, DeadExactlyWhenSpent, Row, Claim, CurApart
    <2>9. SentAccepted'
      BY <2>a, <2>b, <2>c, <2>1, NoEntryType, BlankType
      DEF Fenced, TypeOK, SentAccepted
    <2>10. NoSilentLoss'
      BY <2>a, <2>b, <2>c, <2>1, NoEntryType, BlankType
      DEF Fenced, TypeOK, NoSilentLoss, SentAccepted
    <2> QED
      BY <2>1, <2>2, <2>3, <2>4, <2>5, <2>6, <2>7, <2>8, <2>9, <2>10
  <1>14. ASSUME NEW w \in Workers, VerdictError(w) PROVE IInv'
    <2>1. TypeOK'
      BY <1>14, NoEntryType, BlankType
      DEF VerdictError, NextEntry, TypeOK, Statuses, Phases, Row, Claim, Dead
    <2>2. SoleOwner'
      BY <1>14, <2>1, NoEntryType, BlankType
      DEF VerdictError, NextEntry, TypeOK, SoleOwner, Held
    <2>3. SnapshotFresh'
      BY <1>14, <2>1, NoEntryType, BlankType
      DEF VerdictError, NextEntry, TypeOK, SnapshotFresh, Held, SoleOwner,
          CurApart
    <2>4. /\ CurApart'
          /\ DeadUnclaimed'
          /\ DeadExactlyWhenSpent'
          /\ CountsFailedSends'
          /\ FailurePending'
          /\ SentAccepted'
          /\ NoSilentLoss'
      BY <1>14, <2>1, NoEntryType, BlankType
      DEF VerdictError, NextEntry, TypeOK, CurApart, DeadUnclaimed, Row, Dead,
          DeadExactlyWhenSpent, SnapshotFresh, Held, Claim, CountsFailedSends,
          FailurePending, SoleOwner, Fenced, SentAccepted, NoSilentLoss
    <2> QED
      BY <2>1, <2>2, <2>3, <2>4
  <1>15. ASSUME NEW w \in Workers, Cancelled(w) PROVE IInv'
    <2>1. TypeOK'
      BY <1>15, NoEntryType, BlankType
      DEF Cancelled, TypeOK, Statuses, Phases, Row, Claim, Dead
    <2>2. SoleOwner'
      BY <1>15, <2>1, NoEntryType, BlankType
      DEF Cancelled, TypeOK, SoleOwner, Held
    <2>3. SnapshotFresh'
      BY <1>15, <2>1, NoEntryType, BlankType
      DEF Cancelled, TypeOK, SnapshotFresh, Held, SoleOwner, CurApart
    <2>4. /\ CurApart'
          /\ DeadUnclaimed'
          /\ DeadExactlyWhenSpent'
          /\ CountsFailedSends'
          /\ FailurePending'
          /\ SentAccepted'
          /\ NoSilentLoss'
      BY <1>15, <2>1, NoEntryType, BlankType
      DEF Cancelled, TypeOK, CurApart, DeadUnclaimed, Row, Dead,
          DeadExactlyWhenSpent, SnapshotFresh, Held, Claim, CountsFailedSends,
          FailurePending, SoleOwner, Fenced, SentAccepted, NoSilentLoss
    <2> QED
      BY <2>1, <2>2, <2>3, <2>4
  <1>16. ASSUME NEW k \in Keys, Revive(k) PROVE IInv'
    <2>1. TypeOK'
      BY <1>16, NoEntryType, BlankType
      DEF Revive, TypeOK, Statuses, Phases, Row, Claim, Dead
    <2>2. SnapshotFresh'
      BY <1>16, <2>1, NoEntryType, BlankType
      DEF Revive, TypeOK, SnapshotFresh, Held, SoleOwner, CurApart
    <2>3. DeadUnclaimed'
      BY <1>16, <2>1, NoEntryType, BlankType
      DEF Revive, TypeOK, DeadUnclaimed, Row, Dead
    <2>4. DeadExactlyWhenSpent'
      BY <1>16, <2>1, NoEntryType, BlankType
      DEF Revive, TypeOK, DeadExactlyWhenSpent, SnapshotFresh, Held, Row, Dead,
          Claim
    <2>5. CountsFailedSends'
      BY <1>16, <2>1, NoEntryType, BlankType
      DEF Revive, TypeOK, CountsFailedSends, FailurePending, Row, Claim
    <2>6. FailurePending'
      BY <1>16, <2>1, NoEntryType, BlankType
      DEF Revive, TypeOK, FailurePending, CountsFailedSends, SoleOwner, Held,
          DeadUnclaimed, DeadExactlyWhenSpent, Row, Claim, CurApart, Fenced
    <2>7. CurApart' /\ SoleOwner' /\ SentAccepted' /\ NoSilentLoss'
      BY <1>16, <2>1, NoEntryType, BlankType
      DEF Revive, TypeOK, CurApart, SoleOwner, Held, SentAccepted, NoSilentLoss,
          Fenced
    <2> QED
      BY <2>1, <2>2, <2>3, <2>4, <2>5, <2>6, <2>7
  <1>17. ASSUME Tick PROVE IInv'
    <2>a. /\ row' \in [Keys -> Row]
          /\ \A k \in Keys : /\ row'[k].attempts = row[k].attempts
                             /\ row'[k].token = row[k].token
                             /\ row'[k].next = Dead <=> row[k].next = Dead
      BY <1>17, TickEffect
    <2>b. UNCHANGED <<status, queue, phase, batch, cur, accepted, failures, crashes, revives>>
      BY <1>17 DEF Tick
    <2>1. TypeOK'
      BY <2>a, <2>b, NoEntryType, BlankType
      DEF TypeOK, Statuses, Phases, Row, Claim, Dead
    <2>2. SnapshotFresh'
      BY <2>a, <2>b, <2>1, NoEntryType, BlankType
      DEF TypeOK, SnapshotFresh, Held, SoleOwner, CurApart
    <2>3. DeadUnclaimed'
      BY <2>a, <2>b, <2>1, NoEntryType, BlankType
      DEF TypeOK, DeadUnclaimed, Row, Dead
    <2>4. DeadExactlyWhenSpent'
      BY <2>a, <2>b, <2>1, NoEntryType, BlankType
      DEF TypeOK, DeadExactlyWhenSpent, SnapshotFresh, Held, Row, Dead, Claim
    <2>5. CountsFailedSends'
      BY <2>a, <2>b, <2>1, NoEntryType, BlankType
      DEF TypeOK, CountsFailedSends, FailurePending, Row, Claim
    <2>6. FailurePending'
      BY <2>a, <2>b, <2>1, NoEntryType, BlankType
      DEF TypeOK, FailurePending, CountsFailedSends, SoleOwner, Held,
          DeadUnclaimed, DeadExactlyWhenSpent, Row, Claim, CurApart, Fenced
    <2>7. CurApart' /\ SoleOwner' /\ SentAccepted' /\ NoSilentLoss'
      BY <2>a, <2>b, <2>1, NoEntryType, BlankType
      DEF TypeOK, CurApart, SoleOwner, Held, SentAccepted, NoSilentLoss, Fenced
    <2> QED
      BY <2>1, <2>2, <2>3, <2>4, <2>5, <2>6, <2>7
  <1>18. ASSUME Crash PROVE IInv'
    <2>1. TypeOK'
      BY <1>18, NoEntryType, BlankType
      DEF Crash, TypeOK, Statuses, Phases, Row, Claim, Dead
    <2>2. SoleOwner'
      BY <1>18, <2>1, NoEntryType, BlankType
      DEF Crash, TypeOK, SoleOwner, Held
    <2>3. SnapshotFresh'
      BY <1>18, <2>1, NoEntryType, BlankType
      DEF Crash, TypeOK, SnapshotFresh, Held, SoleOwner, CurApart
    <2>4. /\ CurApart'
          /\ DeadUnclaimed'
          /\ DeadExactlyWhenSpent'
          /\ CountsFailedSends'
          /\ FailurePending'
          /\ SentAccepted'
          /\ NoSilentLoss'
      BY <1>18, <2>1, NoEntryType, BlankType
      DEF Crash, TypeOK, CurApart, DeadUnclaimed, Row, Dead,
          DeadExactlyWhenSpent, SnapshotFresh, Held, Claim, CountsFailedSends,
          FailurePending, SoleOwner, Fenced, SentAccepted, NoSilentLoss
    <2> QED
      BY <2>1, <2>2, <2>3, <2>4
  <1>19. CASE UNCHANGED vars
    BY <1>19 DEF vars, TypeOK, CurApart, SoleOwner, SnapshotFresh,
        DeadUnclaimed,
      DeadExactlyWhenSpent, CountsFailedSends, FailurePending, SentAccepted,
      NoSilentLoss, Held, Fenced
  <1> QED
    BY <1>1, <1>2, <1>3, <1>4, <1>5, <1>6, <1>7, <1>8, <1>9, <1>10, <1>11,
        <1>12, <1>13, <1>14, <1>15, <1>16, <1>17, <1>18, <1>19 DEF Next, Report,
        Drain

-----------------------------------------------------------------------------
(* Who may end a running claim.                                              *)

\* A step that leaves the rows and the revivals alone ends nobody's claim.
LEMMA RowsAlone ==
  ASSUME UNCHANGED <<queue, row>>, NEW w \in Workers, NEW k \in Keys, Running(w, k)
  PROVE  ClaimIsKept(w, k)
  BY DEF Running, ClaimIsKept

\* The verdict of flow v, or its delete, touches the row of the claim v works
\* on, which no other flow can still hold.
LEMMA OthersClaim ==
  ASSUME SoleOwner, NEW v \in Workers, phase[v] # "pick", Fenced(v),
         NEW w \in Workers, Running(w, cur[v].key)
  PROVE  w = v
  <1>1. cur[v] \in Held(v)
    BY DEF Held
  <1>2. PICK e \in Held(w) : e.key = cur[v].key /\ row[cur[v].key].token = e.token
    BY DEF Running
  <1> QED
    BY <1>1, <1>2 DEF SoleOwner, Fenced

\* A flow that turns to its next entry gives up the claim it worked on.
LEMMA NextEntryLetsGo ==
  ASSUME TypeOK, CurApart, NEW w \in Workers, phase[w] # "pick", NextEntry(w)
  PROVE  Held(w)' # Held(w)
  <1>1. phase'[w] = "pick" /\ batch'[w] = batch[w]
    BY DEF NextEntry, TypeOK
  <1>2. cur[w] \in Held(w) /\ cur[w] \notin Held(w)'
    BY <1>1 DEF Held, CurApart
  <1> QED
    BY <1>2

\* No step takes over, judges or deletes a row whose claim runs, but a step of
\* the flow that holds the claim or a revival.
LEMMA RunningClaimsAreKept ==
  ASSUME IInv, [Next]_vars
  PROVE  \A w \in Workers, k \in Keys : Running(w, k) => ClaimIsKept(w, k)
  <1> SUFFICES ASSUME NEW w \in Workers, NEW k \in Keys, Running(w, k)
               PROVE  ClaimIsKept(w, k)
    OBVIOUS
  <1> USE DEF IInv
  <1>1. k \in queue /\ row[k].lease > 0
    BY DEF Running
  <1>2. ASSUME NEW c \in Calls, DirectBegin(c) \/ DirectOk(c) \/ DirectFails(c)
        PROVE  ClaimIsKept(w, k)
    BY <1>2, RowsAlone DEF DirectBegin, DirectOk, DirectFails
  <1>3. ASSUME NEW c \in Calls, Enqueue(c) \/ EnqueueFails(c)
        PROVE  ClaimIsKept(w, k)
    <2>1. CASE UNCHANGED <<queue, row>>
      BY <2>1, RowsAlone
    <2>2. CASE ~ UNCHANGED <<queue, row>>
      <3>1. KeyOf[c] \notin queue /\ k # KeyOf[c]
            /\ queue' = queue \union {KeyOf[c]} /\ row' = [row EXCEPT ![KeyOf[c]] = Blank]
        BY <1>1, <1>3, <2>2 DEF Enqueue, EnqueueFails, Insert
      <3> QED
        BY <1>1, <3>1 DEF ClaimIsKept, TypeOK
    <2> QED
      BY <2>1, <2>2
  <1>4. ASSUME NEW v \in Workers, Due(v) \/ DueLost(v)
        PROVE  ClaimIsKept(w, k)
    <2>1. queue' = queue
      BY <1>4 DEF Due, DueLost
    <2>2. PICK S \in SUBSET Claimable : ClaimRows(S)
      BY <1>4 DEF Due, DueLost
    <2>3. k \notin S
      BY <1>1, <2>2, ClaimRowsEffect
    <2>4. row'[k] = row[k]
      BY <2>2, <2>3, ClaimRowsEffect
    <2> QED
      BY <1>1, <2>1, <2>4 DEF ClaimIsKept
  <1>5. ASSUME NEW v \in Workers,
               Pick(v) \/ SendOk(v) \/ SendFails(v) \/ VerdictError(v) \/ Cancelled(v)
        PROVE  ClaimIsKept(w, k)
    BY <1>5, RowsAlone DEF Pick, SendOk, SendFails, VerdictError, Cancelled
  <1>6. ASSUME NEW v \in Workers, Done(v) \/ Retry(v) \/ Bury(v)
        PROVE  ClaimIsKept(w, k)
    <2>1. phase[v] # "pick" /\ NextEntry(v)
      BY <1>6 DEF Done, Retry, Bury
    <2>2. CASE w = v
      BY <2>1, <2>2, NextEntryLetsGo DEF ClaimIsKept
    <2>3. CASE w # v
      <3>1. ~ (Fenced(v) /\ k = cur[v].key)
        BY <2>1, <2>3, OthersClaim
      <3>2. (k \in queue <=> k \in queue') /\ row'[k] = row[k]
        BY <1>6, <3>1 DEF Done, Retry, Bury, Verdict, TypeOK
      <3> QED
        BY <1>1, <3>2 DEF ClaimIsKept
    <2> QED
      BY <2>2, <2>3
  <1>7. ASSUME NEW j \in Keys, Revive(j)
        PROVE  ClaimIsKept(w, k)
    BY <1>7 DEF Revive, ClaimIsKept, TypeOK
  <1>8. CASE Tick
    BY <1>1, <1>8, TickEffect DEF Tick, ClaimIsKept
  <1>9. CASE Crash \/ UNCHANGED vars
    BY <1>9, RowsAlone DEF Crash, vars
  <1> QED
    BY <1>2, <1>3, <1>4, <1>5, <1>6, <1>7, <1>8, <1>9 DEF Next, Report, Drain

-----------------------------------------------------------------------------
(* The theorems.                                                             *)

\* The invariant holds in every state: initially, and through every step of
\* a caller, a drain flow, the operator, the clock and a crash.
THEOREM Invariance == Spec => []IInv
  <1>1. Init => IInv
    BY InitIInv
  <1>2. IInv /\ [Next]_vars => IInv'
    BY StepIInv
  <1> QED
    BY <1>1, <1>2, PTL DEF Spec

\* Every variable keeps its type (a wait never exceeds the backoff's cap, nor
\* an attempt count the maximum).
THEOREM TypeCorrect == Spec => []TypeOK
  BY Invariance, PTL DEF IInv

\* A report whose queueing was acknowledged is in the queue or was taken in.
THEOREM NothingQueuedIsLost == Spec => []NoSilentLoss
  BY Invariance, PTL DEF IInv

\* However many flows drain the same rows, a claimed row is its flow's alone
\* while the lease runs, and an attempt is counted only for a send that failed.
THEOREM FailuresCountedOnce == Spec => FailureCountedOnce
  <1> DEFINE Kept == \A w \in Workers, k \in Keys : Running(w, k) => ClaimIsKept(w, k)
  <1>1. IInv /\ IInv' /\ [Next]_vars => [CountsFailedSends' /\ Kept]_vars
    BY RunningClaimsAreKept DEF IInv
  <1> QED
    BY <1>1, Invariance, PTL DEF Spec, FailureCountedOnce

\* A row is dead exactly when its attempts are spent, stale verdicts included.
THEOREM DeadLettersAreSpent == Spec => []DeadExactlyWhenSpent
  BY Invariance, PTL DEF IInv

-----------------------------------------------------------------------------
(* The outbox implements ReportCustody.                                      *)

Promised == {KeyOf[c] : c \in {d \in Calls : status[d] = "queued"}}
Places   == [k \in Keys |-> Place(k)]

\* A step that leaves the calls, the rows' existence and their deadness alone,
\* and takes in at most one report more, is a step of the abstract queue.
LEMMA QuietStep ==
  ASSUME TypeOK, TypeOK',
         Promised' = Promised, Places' = Places,
         NEW k \in Keys, accepted' \in {accepted, accepted \union {k}}
  PROVE  [Custody!Next]_(Custody!vars)
  BY DEF Custody!Next, Custody!Accept, Custody!vars, Promised, Places

\* Nothing is promised yet at the start.
LEMMA CustodyInit == Init => Custody!Init
  BY DEF Init, Custody!Init, Place

\* The places do not change when no row comes, goes, dies or is revived.
LEMMA PlacesKept ==
  ASSUME queue' = queue,
         \A k \in queue : row'[k].next = Dead <=> row[k].next = Dead
  PROVE  Places' = Places
  BY DEF Places, Place, IsDead

\* Every step of the outbox is a step of ReportCustody or changes none of it.
LEMMA CustodyStep == IInv /\ IInv' /\ [Next]_vars => [Custody!Next]_(Custody!vars)
  <1> SUFFICES ASSUME IInv, IInv', [Next]_vars
               PROVE  [Custody!Next]_(Custody!vars)
    OBVIOUS
  <1> USE OutboxAssumption DEF callVars, workerVars, boundVars
  <1>1. TypeOK /\ TypeOK'
    BY DEF IInv
  <1>2. ASSUME NEW c \in Calls, DirectBegin(c) \/ DirectOk(c) \/ DirectFails(c)
        PROVE  [Custody!Next]_(Custody!vars)
    <2>1. Places' = Places
      BY <1>2, PlacesKept DEF DirectBegin, DirectOk, DirectFails
    <2>2. Promised' = Promised
      BY <1>1, <1>2 DEF DirectBegin, DirectOk, DirectFails, Promised, TypeOK
    <2>3. KeyOf[c] \in Keys /\ accepted' \in {accepted, accepted \union {KeyOf[c]}}
      BY <1>2 DEF DirectBegin, DirectOk, DirectFails
    <2> QED
      BY <1>1, <2>1, <2>2, <2>3, QuietStep
  <1>3. ASSUME NEW c \in Calls, Enqueue(c) \/ EnqueueFails(c)
        PROVE  [Custody!Next]_(Custody!vars)
    <2> DEFINE k0 == KeyOf[c]
    <2>1. k0 \in Keys /\ accepted' = accepted
      BY <1>3 DEF Enqueue, EnqueueFails
    <2>2. Insert(k0) \/ UNCHANGED <<queue, row, failures>>
      BY <1>3 DEF Enqueue, EnqueueFails
    <2>3. Promised' \in {Promised, Promised \union {k0}}
      BY <1>1, <1>3 DEF Enqueue, EnqueueFails, Promised, TypeOK
    <2>4. CASE Insert(k0)
      <3>1. Places' = [Places EXCEPT ![k0] = IF @ = "none" THEN "queue" ELSE @]
        <4>1. CASE k0 \in queue
          BY <2>1, <2>4, <4>1 DEF Insert, Places, Place, IsDead
        <4>2. CASE k0 \notin queue
          <5>1. row \in [Keys -> Row]
            BY <1>1 DEF TypeOK
          <5>2. /\ queue' = queue \union {k0} /\ row'[k0].next # Dead
                /\ \A k \in Keys : k # k0 => row'[k] = row[k]
            BY <2>1, <2>4, <4>2, <5>1, BlankType DEF Insert, Dead
          <5> QED
            BY <2>1, <4>2, <5>2 DEF Places, Place, IsDead
        <4> QED
          BY <4>1, <4>2
      <3> QED
        BY <2>1, <2>3, <3>1
        DEF Custody!Next, Custody!Store, Promised, Places
    <2>5. CASE UNCHANGED <<queue, row, failures>>
      <3>1. Places' = Places
        BY <2>5, PlacesKept
      <3>2. CASE Promised' = Promised
        BY <1>1, <2>1, <3>1, <3>2, QuietStep
      <3>3. CASE Promised' # Promised
        <4>1. Insert(k0)
          BY <1>1, <1>3, <3>3 DEF Enqueue, EnqueueFails, Promised, TypeOK
        <4> QED
          BY <2>4, <4>1
      <3> QED
        BY <3>2, <3>3
    <2> QED
      BY <2>2, <2>4, <2>5
  <1>4. ASSUME NEW w \in Workers, Due(w) \/ DueLost(w)
        PROVE  [Custody!Next]_(Custody!vars)
    <2>1. UNCHANGED <<status, queue, accepted>>
      BY <1>4 DEF Due, DueLost
    <2>2. PICK S \in SUBSET Claimable : ClaimRows(S)
      BY <1>4 DEF Due, DueLost
    <2>3. Places' = Places
      BY <1>1, <2>1, <2>2, ClaimRowsEffect, PlacesKept DEF TypeOK
    <2>4. Promised' = Promised
      BY <2>1 DEF Promised
    <2> QED
      BY <2>1, <2>3, <2>4 DEF Custody!vars, Promised, Places
  <1>5. ASSUME NEW w \in Workers,
               Pick(w) \/ SendOk(w) \/ SendFails(w) \/ VerdictError(w) \/ Cancelled(w)
        PROVE  [Custody!Next]_(Custody!vars)
    <2>1. UNCHANGED <<status, queue, row>>
      BY <1>5 DEF Pick, SendOk, SendFails, VerdictError, Cancelled, NextEntry
    <2>2. Places' = Places /\ Promised' = Promised
      BY <2>1, PlacesKept DEF Promised
    <2>3. /\ cur[w].key \in Keys
          /\ accepted' \in {accepted, accepted \union {cur[w].key}}
      BY <1>1, <1>5
      DEF Pick, SendOk, SendFails, VerdictError, Cancelled, NextEntry, TypeOK,
          Claim
    <2> QED
      BY <1>1, <2>2, <2>3, QuietStep
  <1>6. ASSUME NEW w \in Workers, Done(w)
        PROVE  [Custody!Next]_(Custody!vars)
    <2> DEFINE k0 == cur[w].key
    <2>1. UNCHANGED <<status, accepted>> /\ k0 \in Keys /\ k0 \in accepted
      BY <1>1, <1>6 DEF Done, NextEntry, TypeOK, Claim, IInv, SentAccepted
    <2>2. Promised' = Promised
      BY <2>1 DEF Promised
    <2>3. CASE Fenced(w)
      <3>1. Place(k0) # "none"
        BY <2>3 DEF Fenced, Place, IsDead
      <3>2. Places' = [Places EXCEPT ![k0] = "none"]
        BY <1>1, <1>6, <2>1, <2>3
        DEF Done, Places, Place, IsDead, TypeOK
      <3> QED
        BY <2>1, <2>2, <3>1, <3>2
        DEF Custody!Next, Custody!Release, Promised, Places
    <2>4. CASE ~ Fenced(w)
      <3>1. Places' = Places
        BY <1>6, <2>4, PlacesKept DEF Done
      <3> QED
        BY <2>1, <2>2, <3>1 DEF Custody!vars, Promised, Places
    <2> QED
      BY <2>3, <2>4
  <1>7. ASSUME NEW w \in Workers, Retry(w)
        PROVE  [Custody!Next]_(Custody!vars)
    <2>1. UNCHANGED <<status, queue, accepted>>
      BY <1>7 DEF Retry, NextEntry
    <2>2. \A k \in queue : row'[k].next = Dead <=> row[k].next = Dead
      <3> DEFINE n == Backoff(cur[w].attempts + 1)
      <3>1. /\ phase[w] = "failed" /\ Verdict(w, n)
            /\ n \in 0..Ceiling \union {Dead} /\ n # Dead
        BY <1>1, <1>7, BackoffType DEF Retry, TypeOK, Claim, Dead
      <3> HIDE DEF n
      <3>2. Fenced(w) => row[cur[w].key].token # NoToken
        BY <1>1, <3>1 DEF IInv, SoleOwner, Held, Fenced
      <3> QED
        BY <1>1, <3>1, <3>2, VerdictEffect DEF IInv, DeadUnclaimed, TypeOK
    <2> QED
      BY <2>1, <2>2, PlacesKept DEF Custody!vars, Promised, Places
  <1>8. ASSUME NEW w \in Workers, Bury(w)
        PROVE  [Custody!Next]_(Custody!vars)
    <2> DEFINE k0 == cur[w].key
    <2>1. /\ UNCHANGED <<status, queue, accepted>>
          /\ phase[w] = "failed" /\ Verdict(w, Dead) /\ k0 \in Keys
      BY <1>1, <1>8 DEF Bury, NextEntry, TypeOK, Claim
    <2>2. Promised' = Promised
      BY <2>1 DEF Promised
    <2>3. CASE Fenced(w)
      <3>1. row[k0].token # NoToken
        BY <2>1, <2>3 DEF IInv, SoleOwner, Held, Fenced
      <3>2. Place(k0) = "queue"
        BY <2>1, <2>3, <3>1 DEF IInv, DeadUnclaimed, Place, IsDead, Fenced
      <3>3. /\ row'[k0].next = Dead
            /\ \A k \in Keys : k # k0 => row'[k] = row[k]
        BY <1>1, <2>1, <2>3, VerdictEffect DEF IInv
      <3>4. Places' = [Places EXCEPT ![k0] = "dead"]
        BY <2>1, <2>3, <3>3 DEF Places, Place, IsDead, Fenced
      <3> QED
        BY <2>1, <2>2, <3>2, <3>4
        DEF Custody!Next, Custody!GiveUp, Promised, Places
    <2>4. CASE ~ Fenced(w)
      BY <2>1, <2>2, <2>4, PlacesKept
      DEF Verdict, Custody!vars, Promised, Places
    <2> QED
      BY <2>3, <2>4
  <1>9. ASSUME NEW k \in Keys, Revive(k)
        PROVE  [Custody!Next]_(Custody!vars)
    <2>1. /\ UNCHANGED <<status, queue, accepted>> /\ k \in queue
          /\ row' = [row EXCEPT ![k] = Blank]
      BY <1>9 DEF Revive
    <2>2. Promised' = Promised
      BY <2>1 DEF Promised
    <2>3. CASE IsDead(k)
      <3>1. Places' = [Places EXCEPT ![k] = "queue"]
        <4>1. row \in [Keys -> Row]
          BY <1>1 DEF TypeOK
        <4>2. /\ row'[k].next # Dead
              /\ \A j \in Keys : j # k => row'[j] = row[j]
          BY <2>1, <4>1, BlankType DEF Dead
        <4> QED
          BY <2>1, <4>2 DEF Places, Place, IsDead
      <3> QED
        BY <2>1, <2>2, <2>3, <3>1
        DEF Custody!Next, Custody!PutBack, Promised, Places, Place, IsDead
    <2>4. CASE ~ IsDead(k)
      <3>1. Places' = Places
        BY <1>1, <2>1, <2>4, BlankType DEF Places, Place, IsDead, Dead, TypeOK
      <3> QED
        BY <2>1, <2>2, <3>1 DEF Custody!vars, Promised, Places
    <2> QED
      BY <2>3, <2>4
  <1>10. CASE Tick
    <2>1. UNCHANGED <<status, queue, accepted>>
      BY <1>10 DEF Tick
    <2>2. Places' = Places
      BY <1>1, <1>10, <2>1, TickEffect, PlacesKept DEF TypeOK
    <2> QED
      BY <2>1, <2>2 DEF Custody!vars, Promised, Places
  <1>11. CASE Crash
    <2>1. UNCHANGED <<queue, row, accepted>>
      BY <1>11 DEF Crash
    <2>2. Promised' = Promised
      BY <1>1, <1>11 DEF Crash, Promised, TypeOK
    <2> QED
      BY <2>1, <2>2, PlacesKept DEF Custody!vars, Promised, Places
  <1>12. CASE UNCHANGED vars
    BY <1>12 DEF vars, Custody!vars, Place, IsDead
  <1> QED
    BY <1>2, <1>3, <1>4, <1>5, <1>6, <1>7, <1>8, <1>9, <1>10, <1>11, <1>12
    DEF Next, Report, Drain

\* The outbox implements the custody of reports it promises: whatever claims,
\* leases, lost replies and crashes do in between, a row leaves the queue only
\* after the dispatcher took the report in.
THEOREM ImplementsCustody == Spec => KeepsCustody
  <1>1. Init => Custody!Init
    BY CustodyInit
  <1>2. IInv /\ IInv' /\ [Next]_vars => [Custody!Next]_(Custody!vars)
    BY CustodyStep
  <1> QED
    BY <1>1, <1>2, Invariance, PTL DEF Spec, KeepsCustody, Custody!Spec

=============================================================================
