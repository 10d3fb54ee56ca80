--------------------------- MODULE ControlServer ---------------------------
(***************************************************************************)
(* The public service quantum-control: it builds plans and keeps them in a *)
(* volatile cache, passes confirmations and approved executions to qcored, *)
(* and leaves the durable audit trail.  Requests run at once; the call to  *)
(* qcored may be lost on its way in, on its way back, or given up by the   *)
(* client's timeout while qcored is still at work; quantum-control may     *)
(* restart at any time and forgets its plans.                              *)
(*                                                                         *)
(* qcored is abstract here: a plan is granted at most once and a grant     *)
(* used at most once (ApprovalBroker and this module both implement        *)
(* SingleUseGrant).  Appending to the audit file may fail, if              *)
(* AuditMayFail, and the handlers then go on.                              *)
(***************************************************************************)
EXTENDS Naturals, FiniteSets

CONSTANTS
  Plans,         \* plan ids
  Reqs,          \* confirmation and execution requests, each used once
  AuditMayFail,  \* whether an append to the audit file may fail
  None

VARIABLES
  cache,    \* security.PlanCache: the plans quantum-control remembers
  expired,  \* plans whose time is over
  made,     \* plan ids drawn so far
  audit,    \* the records in the audit file
  h,        \* h[r]: the handler of request r
  call,     \* call[r]: the call of r as qcored sees it
  grant,    \* grant[p]: qcored's grant for plan p
  tokens,   \* plans whose confirmation token the client holds
  ran       \* ran[p]: qcored's transaction for p, and the request behind it

vars == <<cache, expired, made, audit, h, call, grant, tokens, ran>>

ASSUME ControlAssumption ==
  AuditMayFail \in BOOLEAN /\ None \notin Reqs \cup Plans \cup {"confirm", "execute"}

NewHandler == [pc |-> "new", kind |-> None, plan |-> None, token |-> FALSE]
NotRun == [status |-> "no", by |-> None]

(* "plan.created" also stands for a TCI's "proposal.created".                *)
Events == {"plan.created", "confirmation.issued", "operation.attempt", "operation.unknown",
           "operation.rejected", "operation.completed", "operation.failed"}
Results == Events \ {"plan.created", "confirmation.issued", "operation.attempt"}

(* id is the request id on the record; by, the handler that wrote it, is not *)
(* in the file (history).  A plan stands for the id of the request it was    *)
(* made for.                                                                 *)
Record(event, p, id, r) == [event |-> event, plan |-> p, id |-> id, by |-> r]

(* appendAudit: an error is logged and the handler goes on.                  *)
Log(event, p, id, r) ==
  \/ audit' = audit \cup {Record(event, p, id, r)}
  \/ AuditMayFail /\ audit' = audit

(* Put and Get drop every expired plan first.                                *)
Purged == cache \ expired

Reply(r) == h' = [h EXCEPT ![r].pc = "over"]

(***************************************************************************)
(* POST /v1/operations/plan.  The id is in nobody's hands before the       *)
(* reply, so building, caching and logging the plan is one step.           *)
(***************************************************************************)
HandlePlan(p) ==
  /\ p \notin made
  /\ made' = made \cup {p}
  /\ cache' = Purged \cup {p}
  /\ Log("plan.created", p, p, None)
  /\ UNCHANGED <<expired, h, call, grant, tokens, ran>>

(***************************************************************************)
(* POST /v1/confirmations and POST /v1/operations/execute-approved.        *)
(***************************************************************************)
SubmitConfirm(r, p) ==
  /\ h[r] = NewHandler
  /\ cache' = Purged
  /\ p \in Purged
  /\ h' = [h EXCEPT ![r] = [pc |-> "called", kind |-> "confirm", plan |-> p, token |-> FALSE]]
  /\ call' = [call EXCEPT ![r] = "sent"]
  /\ UNCHANGED <<expired, made, audit, grant, tokens, ran>>

(* The attempt is on record before the call leaves.                          *)
SubmitExecuteUnlogged(r, p) == \* faulty: leaves the record to the outcome
  /\ h[r] = NewHandler
  /\ cache' = Purged
  /\ p \in Purged
  /\ h' = [h EXCEPT ![r] = [pc |-> "called", kind |-> "execute", plan |-> p,
                            token |-> p \in tokens]]
  /\ call' = [call EXCEPT ![r] = "sent"]
  /\ UNCHANGED <<expired, made, audit, grant, tokens, ran>>

SubmitExecute(r, p) ==
  /\ h[r] = NewHandler
  /\ cache' = Purged
  /\ p \in Purged
  /\ Log("operation.attempt", p, r, r)
  /\ h' = [h EXCEPT ![r] = [pc |-> "called", kind |-> "execute", plan |-> p,
                            token |-> p \in tokens]]
  /\ call' = [call EXCEPT ![r] = "sent"]
  /\ UNCHANGED <<expired, made, grant, tokens, ran>>

(* A plan that is not in the cache: 404, and only the purge is left behind.  *)
PlanNotFound(r, p) ==
  /\ h[r] = NewHandler
  /\ p \notin Purged
  /\ cache' = Purged
  /\ Reply(r)
  /\ UNCHANGED <<expired, made, audit, call, grant, tokens, ran>>

(***************************************************************************)
(* qcored, which works on a call whether or not anyone still waits.        *)
(***************************************************************************)
BrokerConfirm(r) ==
  LET p == h[r].plan IN
  /\ h[r].kind = "confirm" /\ call[r] = "sent"
  /\ p \notin expired /\ grant[p] = "none"
  /\ grant' = [grant EXCEPT ![p] = "issued"]
  /\ call' = [call EXCEPT ![r] = "granted"]
  /\ UNCHANGED <<cache, expired, made, audit, h, tokens, ran>>

(* Consume is on file before ExecuteApproved looks at the plan again.        *)
BrokerConsume(r) ==
  LET p == h[r].plan IN
  /\ h[r].kind = "execute" /\ call[r] = "sent"
  /\ p \notin expired /\ h[r].token /\ grant[p] = "issued"
  /\ grant' = [grant EXCEPT ![p] = "used"]
  /\ call' = [call EXCEPT ![r] = "consumed"]
  /\ UNCHANGED <<cache, expired, made, audit, h, tokens, ran>>

BrokerExecuteFirst(r) == \* faulty: runs on the strength of a grant it has not used up
  LET p == h[r].plan IN
  /\ h[r].kind = "execute" /\ call[r] = "sent"
  /\ p \notin expired /\ h[r].token /\ grant[p] = "issued"
  /\ ran' = [ran EXCEPT ![p] = [status |-> "running", by |-> r]]
  /\ call' = [call EXCEPT ![r] = "running"]
  /\ UNCHANGED <<cache, expired, made, audit, h, grant, tokens>>

BrokerExecute(r) ==
  LET p == h[r].plan IN
  /\ call[r] = "consumed" /\ p \notin expired
  /\ ran' = [ran EXCEPT ![p] = [status |-> "running", by |-> r]]
  /\ call' = [call EXCEPT ![r] = "running"]
  /\ UNCHANGED <<cache, expired, made, audit, h, grant, tokens>>

(* The grant or the plan is not good, or the broker's own policy refuses,    *)
(* before or after the grant was used up.                                    *)
BrokerReject(r) ==
  /\ call[r] \in {"sent", "consumed"}
  /\ call' = [call EXCEPT ![r] = "rejected"]
  /\ UNCHANGED <<cache, expired, made, audit, h, grant, tokens, ran>>

(* qcored cannot read the body (decodeJSON: over the size limit, or not one  *)
(* JSON object) and answers 400 with a problem that has no status.           *)
BrokerProblem(r) ==
  /\ call[r] = "sent"
  /\ call' = [call EXCEPT ![r] = "problem"]
  /\ UNCHANGED <<cache, expired, made, audit, h, grant, tokens, ran>>

BrokerFinish(r, status) ==
  /\ call[r] = "running"
  /\ call' = [call EXCEPT ![r] = status]
  /\ ran' = [ran EXCEPT ![h[r].plan].status = status]
  /\ UNCHANGED <<cache, expired, made, audit, h, grant, tokens>>

(* qcored dies or the connection breaks before the call is answered.         *)
BrokerLost(r) ==
  /\ call[r] \in {"sent", "consumed", "running"}
  /\ call' = [call EXCEPT ![r] = "lost"]
  /\ UNCHANGED <<cache, expired, made, audit, h, grant, tokens, ran>>

(***************************************************************************)
(* The answers, as quantum-control receives them.                          *)
(***************************************************************************)
Waiting(r, kind) == h[r].pc = "called" /\ h[r].kind = kind

ConfirmSilently(r) == \* faulty: hands the token out and leaves no record
  /\ Waiting(r, "confirm") /\ call[r] = "granted"
  /\ tokens' = tokens \cup {h[r].plan}
  /\ Reply(r)
  /\ UNCHANGED <<cache, expired, made, audit, call, grant, ran>>

(* The reply with the token may not reach the client, which may be gone.     *)
ConfirmAnswered(r) ==
  /\ Waiting(r, "confirm") /\ call[r] = "granted"
  /\ Log("confirmation.issued", h[r].plan, r, r)
  /\ tokens' \in {tokens, tokens \cup {h[r].plan}}
  /\ Reply(r)
  /\ UNCHANGED <<cache, expired, made, call, grant, ran>>

(* Rejected, a problem, or no answer in time: one error reply for all.  In   *)
(* the last case qcored may have issued the grant, or still may.             *)
ConfirmFailed(r) ==
  /\ Waiting(r, "confirm")
  /\ Reply(r)
  /\ UNCHANGED <<cache, expired, made, audit, call, grant, tokens, ran>>

(* The answer carries the request id of the plan, and so does the record.    *)
ExecuteAnswered(r) ==
  /\ Waiting(r, "execute")
  /\ call[r] \in {"rejected", "completed", "failed"}
  /\ Log(CASE call[r] = "rejected" -> "operation.rejected"
           [] call[r] = "completed" -> "operation.completed"
           [] OTHER -> "operation.failed", h[r].plan, h[r].plan, r)
  /\ Reply(r)
  /\ UNCHANGED <<cache, expired, made, call, grant, tokens, ran>>

(* ExecuteApproved takes a 400 for an operation response whatever its body   *)
(* holds; a problem becomes a response without status, and Append refuses    *)
(* the record that would say so.                                             *)
ExecuteProblem(r) ==
  /\ Waiting(r, "execute") /\ call[r] = "problem"
  /\ Reply(r)
  /\ UNCHANGED <<cache, expired, made, audit, call, grant, tokens, ran>>

(* A transport error, the client's own timeout included.                     *)
ExecuteLostAsFailed(r) == \* faulty: takes silence for failure
  /\ Waiting(r, "execute")
  /\ Log("operation.rejected", h[r].plan, r, r)
  /\ Reply(r)
  /\ UNCHANGED <<cache, expired, made, call, grant, tokens, ran>>

ExecuteLostSilently(r) == \* faulty: returns before the record
  /\ Waiting(r, "execute")
  /\ Reply(r)
  /\ UNCHANGED <<cache, expired, made, audit, call, grant, tokens, ran>>

ExecuteLost(r) ==
  /\ Waiting(r, "execute")
  /\ Log("operation.unknown", h[r].plan, r, r)
  /\ Reply(r)
  /\ UNCHANGED <<cache, expired, made, call, grant, tokens, ran>>

(* quantum-control restarts: plans and handlers are gone, qcored goes on.    *)
RestartCountingAnew == \* faulty: plan ids from a counter that starts over
  /\ cache' = {} /\ made' = {}
  /\ h' = [r \in Reqs |-> IF h[r].pc = "called" THEN [h[r] EXCEPT !.pc = "dead"] ELSE h[r]]
  /\ UNCHANGED <<expired, audit, call, grant, tokens, ran>>

Restart ==
  /\ cache' = {}
  /\ h' = [r \in Reqs |-> IF h[r].pc = "called" THEN [h[r] EXCEPT !.pc = "dead"] ELSE h[r]]
  /\ UNCHANGED <<expired, made, audit, call, grant, tokens, ran>>

Expire(p) ==
  /\ p \in made \ expired
  /\ expired' = expired \cup {p}
  /\ UNCHANGED <<cache, made, audit, h, call, grant, tokens, ran>>

Init ==
  /\ cache = {} /\ expired = {} /\ made = {} /\ audit = {}
  /\ h = [r \in Reqs |-> NewHandler]
  /\ call = [r \in Reqs |-> "none"]
  /\ grant = [p \in Plans |-> "none"]
  /\ tokens = {}
  /\ ran = [p \in Plans |-> NotRun]

Answer(r) ==
  \/ ConfirmAnswered(r) \/ ConfirmFailed(r)
  \/ ExecuteAnswered(r) \/ ExecuteProblem(r) \/ ExecuteLost(r)

Next ==
  \/ \E p \in Plans : HandlePlan(p) \/ Expire(p)
  \/ \E r \in Reqs, p \in Plans :
       SubmitConfirm(r, p) \/ SubmitExecute(r, p) \/ PlanNotFound(r, p)
  \/ \E r \in Reqs :
       \/ BrokerConfirm(r) \/ BrokerConsume(r) \/ BrokerExecute(r)
       \/ BrokerReject(r) \/ BrokerProblem(r) \/ BrokerLost(r)
       \/ Answer(r)
       \/ \E s \in {"completed", "failed"} : BrokerFinish(r, s)
  \/ Restart

(* Every call of the HTTP client ends, by an answer or by its timeout.       *)
Spec == Init /\ [][Next]_vars /\ \A r \in Reqs : WF_vars(Answer(r))

-----------------------------------------------------------------------------
(* Types; plans expire, are cached and are on record only once they were     *)
(* drawn up (handlePlan), restarts included.                                 *)
TypeOK ==
  /\ cache \in SUBSET Plans /\ expired \in SUBSET made /\ made \in SUBSET Plans
  /\ \A e \in audit : /\ e.event \in Events /\ e.plan \in made
                       /\ e.id \in Reqs \cup {e.plan} /\ e.by \in Reqs \cup {None}
  /\ \A r \in Reqs :
       /\ h[r].pc \in {"new", "called", "over", "dead"}
       /\ h[r].kind \in {None, "confirm", "execute"}
       /\ h[r].plan \in Plans \cup {None} /\ h[r].token \in BOOLEAN
  /\ call \in [Reqs -> {"none", "sent", "granted", "consumed", "rejected", "running",
                        "completed", "failed", "problem", "lost"}]
  /\ grant \in [Plans -> {"none", "issued", "used"}]
  /\ tokens \in SUBSET Plans
  /\ \A p \in Plans : ran[p].status \in {"no", "running", "completed", "failed"}

Logged(event, p) == \E e \in audit : e.event = event /\ e.plan = p

(* A transaction never runs without its trail: the plan, a human's approval  *)
(* and the attempt are in the audit file before qcored starts, whatever was  *)
(* lost or restarted since.                                                  *)
TrailBeforeAction ==
  \A p \in Plans : ran[p].status # "no" =>
    /\ Logged("plan.created", p)
    /\ Logged("confirmation.issued", p)
    /\ Record("operation.attempt", p, ran[p].by, ran[p].by) \in audit

Outcome(event) == IF event = "operation.completed" THEN "completed" ELSE "failed"

(* The result on record is what qcored did for that very request: completed  *)
(* and failed as it ended, rejected only if it never ran.  What is not known *)
(* is said to be unknown.  A confirmation on record is one qcored has        *)
(* granted, and a plan has one at most.                                      *)
ResultsAreTrue ==
  \A e \in audit :
    /\ e.event \in {"operation.completed", "operation.failed"} =>
         ran[e.plan] = [status |-> Outcome(e.event), by |-> e.by]
    /\ e.event = "operation.rejected" => ran[e.plan].by # e.by
    /\ e.event = "confirmation.issued" =>
         /\ call[e.by] = "granted" /\ grant[e.plan] # "none"
         /\ \A f \in audit : f.event = e.event /\ f.plan = e.plan => f = e

(* One request leaves at most one result, and none without its attempt.      *)
OneResult ==
  \A r \in Reqs :
    LET results == {e \in audit : e.by = r /\ e.event \in Results}
    IN /\ Cardinality(results) <= 1
       /\ \A e \in results : Record("operation.attempt", e.plan, r, r) \in audit

(* The grant of a plan seen as a single-use token; accepted is the start of  *)
(* its transaction.                                                          *)
G == INSTANCE SingleUseGrant WITH
       Tokens <- Plans, PlanKeys <- Plans,
       owner <- [p \in Plans |-> IF grant[p] = "none" THEN None ELSE p],
       spent <- {p \in Plans : grant[p] = "used"},
       accepted <- [p \in Plans |-> IF ran[p].status = "no" THEN 0 ELSE 1]

(* What this module takes qcored to do with its grants is what the abstract  *)
(* grant allows, and so what ApprovalBroker keeps to as well: a plan is      *)
(* granted once, its grant is used up for good, and only then does the       *)
(* transaction start (handleConfirm 79-115, handleExecuteApproved 117-151).  *)
QcoredSingleUse == G!AbsSpec

HasResult(r) == \E e \in audit : e.by = r /\ e.event \in Results

(* What qcored ran for a request is never without a result on record once    *)
(* the request was answered: a result left out is one of an attempt that did *)
(* nothing, and a transaction that starts after its client gave up is on     *)
(* record as unknown (handleApprovedExecute 69-94).                          *)
NoSilentTransaction ==
  \A p \in Plans :
    ran[p].status # "no" /\ h[ran[p].by].pc = "over" => HasResult(ran[p].by)

(* An attempt on record is followed by a result on record, unless            *)
(* quantum-control itself went down while it waited, or qcored could not     *)
(* read the request and answered with a bare problem, for which the attempt  *)
(* stays without a result (client.go 77, audit.go 63).                       *)
AttemptIsSettled ==
  \A r \in Reqs, p \in Plans :
    Record("operation.attempt", p, r, r) \in audit ~>
      h[r].pc = "dead" \/ call[r] = "problem" \/ HasResult(r)

=============================================================================
