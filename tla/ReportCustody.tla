---------------------------- MODULE ReportCustody ----------------------------
(***************************************************************************)
(* What the outbox promises, without claims, leases, attempts or clocks:   *)
(* who is answerable for a report.  A report that was put in the queue      *)
(* stays there, or stays as a dead letter, until the dispatcher has taken   *)
(* it in; the dispatcher never forgets one.                                 *)
(***************************************************************************)
CONSTANT Keys

VARIABLES
  place,     \* place[k]: "none", "queue" or "dead"
  promised,  \* the reports whose queueing was acknowledged
  accepted   \* the reports the dispatcher has taken in

vars == <<place, promised, accepted>>

Init ==
  /\ place = [k \in Keys |-> "none"]
  /\ promised = {}
  /\ accepted = {}

\* A send reaches the dispatcher, acknowledged or not.
Accept(k) ==
  /\ accepted' = accepted \union {k}
  /\ UNCHANGED <<place, promised>>

\* The report is in the queue (it may have been already); the caller may or
\* may not learn of it.
Store(k) ==
  /\ place' = [place EXCEPT ![k] = IF @ = "none" THEN "queue" ELSE @]
  /\ promised' \in {promised, promised \union {k}}
  /\ UNCHANGED accepted

\* Only what the dispatcher has taken in leaves the queue.
Release(k) ==
  /\ place[k] # "none"
  /\ k \in accepted
  /\ place' = [place EXCEPT ![k] = "none"]
  /\ UNCHANGED <<promised, accepted>>

GiveUp(k) ==
  /\ place[k] = "queue"
  /\ place' = [place EXCEPT ![k] = "dead"]
  /\ UNCHANGED <<promised, accepted>>

PutBack(k) ==
  /\ place[k] = "dead"
  /\ place' = [place EXCEPT ![k] = "queue"]
  /\ UNCHANGED <<promised, accepted>>

Next == \E k \in Keys : \/ Accept(k) \/ Store(k) \/ Release(k)
                        \/ GiveUp(k) \/ PutBack(k)

Spec == Init /\ [][Next]_vars

TypeOK ==
  /\ place \in [Keys -> {"none", "queue", "dead"}]
  /\ promised \in SUBSET Keys
  /\ accepted \in SUBSET Keys

\* A promised report is in custody or was delivered.
Kept == \A k \in promised : place[k] # "none" \/ k \in accepted

=============================================================================
