------------------------------ MODULE Outcomes ------------------------------
(***************************************************************************)
(* What one attempt at a target can come to: the error classes of          *)
(* ir/errors.go, the outcomes the relay is told (pipeline.go), and the     *)
(* results an attempt hands to Pipeline.Serve together with what it has    *)
(* already written to the client.                                          *)
(***************************************************************************)
EXTENDS FiniteSets

Kinds == {"invalid_request", "authentication", "not_found", "rate_limit",
          "context_exceeded", "upstream", "transport", "timeout",
          "content_filter", "internal", "canceled"}

Retryable(kind) == kind \in {"rate_limit", "upstream", "timeout", "transport"}

(* An ir.Error, reduced to what Serve branches on.                         *)
Error == [kind : Kinds, retryable : BOOLEAN, risk : BOOLEAN]
NoError == [kind |-> "", retryable |-> FALSE, risk |-> FALSE]
NewError(kind) == [kind |-> kind, retryable |-> Retryable(kind), risk |-> FALSE]
NewErrors(kinds) == {NewError(k) : k \in kinds}

(* The two places that set Retryable against the class.                    *)
RetryableErr(e) == [e EXCEPT !.retryable = TRUE]
Final(e) == [e EXCEPT !.retryable = FALSE]

BudgetError == Final(NewError("timeout"))
CanceledError == NewError("canceled")
WithRisk(e, wroteRequest) == [e EXCEPT !.risk = wroteRequest]

OutcomeSet == {"normal", "retrying", "abnormal", "transport", "context_exceeded",
               "invalid_model"}

OutcomeFor(e) ==
  CASE e.kind = "context_exceeded" -> "context_exceeded"
    [] e.kind = "not_found" -> "invalid_model"
    [] e.kind = "transport" -> "transport"
    [] e.kind \in {"rate_limit", "upstream", "timeout"} -> "retrying"
    [] OTHER -> "abnormal"

Downgrade(outcome) == IF outcome = "retrying" THEN "abnormal" ELSE outcome

-----------------------------------------------------------------------------
(* An attempt's result and the client's view when it returns: the status   *)
(* line (none, 200, or an error status) and how the body ended.            *)
Statuses == {"none", "ok", "error"}
Endings == {"none", "normal", "error", "cut"}

(* What became of the attempt's request, for the properties; Serve knows   *)
(* it only by the risk flag of an error:                                   *)
(*   "unsent"      it did not leave in full;                               *)
(*   "unanswered"  the upstream has all of it and gave no usable answer;   *)
(*   "refused"     the upstream answered with a redirect or an error       *)
(*                 status;                                                 *)
(*   "answered"    the upstream began a 2xx answer.                        *)
Result(outcome, err, committed, status, ending, fate) ==
  [outcome |-> outcome, err |-> err, committed |-> committed,
   status |-> status, ending |-> ending, fate |-> fate]

(* Classes DecodeError and an in-band error frame can name.                *)
UpstreamKinds == Kinds \ {"transport", "internal", "canceled"}

(* Nothing reached the client: Serve may swap the target or answer itself. *)
FailedBeforeCommit(errs, fate) ==
  {Result(OutcomeFor(e), e, FALSE, "none", "none", fate) : e \in errs}

(* The target could not even be encoded for.                               *)
Unencodable ==
  {Result("invalid_model", RetryableErr(NewError("internal")), FALSE, "none", "none", "unsent")}

(* A request that did not leave in full, and one that Do failed on after   *)
(* that: only the second kind is marked.  A redirect and an error status   *)
(* are answers, and not marked either.                                     *)
UnsentErrors == NewErrors({"upstream", "transport", "internal"}) \cup {BudgetError}
UnansweredErrors ==
  {WithRisk(e, TRUE) : e \in NewErrors({"upstream", "transport"}) \cup {BudgetError}}
RefusedErrors == NewErrors(UpstreamKinds)

(* An answer that was begun: a frame that does not come, a break, an error *)
(* the upstream announces in it, a body that is not one.  None is marked.  *)
BridgeErrors == NewErrors(UpstreamKinds) \cup {BudgetError}

NothingToldResults ==
  FailedBeforeCommit(UnsentErrors, "unsent")
    \cup FailedBeforeCommit(UnansweredErrors, "unanswered")
    \cup FailedBeforeCommit(RefusedErrors, "refused")
    \cup FailedBeforeCommit(BridgeErrors, "answered")

(* The answer outgrew its limits: only an answer that was begun can.       *)
OverflowError == Final(NewError("upstream"))

(* The client left: charged to nobody, whatever was written so far.        *)
ClientGone(stream) ==
  LET gone(status, ending) == Result("normal", CanceledError, TRUE, status, ending, "answered")
  IN  {gone("none", "none")} \cup IF stream THEN {gone("ok", "cut")} ELSE {}

(* Committed: a streaming client gets the error inside the stream, any     *)
(* other client still gets an error response.                              *)
FailedAfterCommit(stream) ==
  {Result("abnormal", e, TRUE, IF stream THEN "ok" ELSE "error", "error", "answered") :
     e \in BridgeErrors \cup {OverflowError}}

(* Answered.  A streaming client may be cut off while the ending is        *)
(* written; any other may get an error because the answer did not encode.  *)
Answered(stream) ==
  {Result("normal", NoError, FALSE, "ok", "normal", "answered"),
   IF stream THEN Result("normal", NoError, FALSE, "ok", "cut", "answered")
             ELSE Result("normal", NoError, FALSE, "error", "error", "answered")}

AttemptResults(stream) ==
  Unencodable \cup NothingToldResults
    \cup ClientGone(stream) \cup FailedAfterCommit(stream) \cup Answered(stream)
=============================================================================
