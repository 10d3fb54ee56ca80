--------------------------- MODULE ApprovalBroker ---------------------------
(***************************************************************************)
(* qcored's confirmation and approved-execution endpoints (broker.Server   *)
(* handleConfirm and handleExecuteApproved) over the confirmation store.   *)
(* Many requests run at once; each reads the clock and the policy several  *)
(* times, and everything may change between two readings.  qcored may      *)
(* crash anywhere and may come back with a narrower service policy.        *)
(*                                                                         *)
(* The transaction a plan runs is a start and an end here; its steps are   *)
(* the subject of ServiceTransaction.                                      *)
(***************************************************************************)
EXTENDS GrantStore, Sequences

CONSTANTS
  CompiledUnits,  \* the units compiled into the service policy
  Skew,           \* how far ahead a plan's creation may lie (30 s)
  MaxLifetime     \* longest plan lifetime (15 min)

VARIABLES
  policy,  \* the units of the policy loaded at start
  req,     \* req[r]: the HTTP request in hand
  ran      \* the transactions started so far, oldest first (history)

brokerVars == <<clock, up, mu, data, disk, op, known, accepted, policy, req, ran>>

NoReq == [pc |-> "idle", kind |-> "none", plan |-> None, actor |-> None, token |-> None]

CatalogRisk == [a \in {"service.start", "service.stop", "service.restart"} |->
                  IF a = "service.stop" THEN "high" ELSE "low"]

(***************************************************************************)
(* ValidateApprovedPlan replays the broker's policy over the whole plan.   *)
(***************************************************************************)
PlanCurrent(p) == p.created <= clock + Skew /\ p.expires > clock

ValidateAnonymous(p) == \* faulty: leaves identity to the digest
  /\ p.confirmable
  /\ VerifyPlanDigest(p)
  /\ PlanCurrent(p)
  /\ p.action \in DOMAIN CatalogRisk
  /\ p.unit \in policy
  /\ p.risk = CatalogRisk[p.action]

ValidateApprovedPlan(p) ==
  /\ p.confirmable
  /\ VerifyPlanDigest(p)
  /\ "" \notin {p.id, p.actor, p.session}
  /\ p.created # Zero /\ p.expires # Zero /\ p.expires > p.created
  /\ PlanCurrent(p)
  /\ p.expires - p.created <= MaxLifetime
  /\ p.action \in DOMAIN CatalogRisk
  /\ p.unit \in policy
  /\ p.risk = CatalogRisk[p.action]

MayMutate(a) ==
  a # None /\ a.kind # "tci" /\ "operations.execute.mutate" \in a.perms

(***************************************************************************)
(* Handlers.                                                               *)
(***************************************************************************)
(* The envelope is decoded, the credential authenticated (None: it is not)   *)
(* and the plan validated.  A request turned away here changes nothing.      *)
Admitted(kind, p, a) ==
  /\ a # None
  /\ IF kind = "confirm" THEN MayConfirm(a) ELSE MayMutate(a)
  /\ ValidateApprovedPlan(p)

Arrive(r, kind, p, a, t) ==
  /\ up
  /\ req[r] = NoReq
  /\ Admitted(kind, p, a)
  /\ req' = [req EXCEPT ![r] = [pc |-> "call", kind |-> kind, plan |-> p,
                                actor |-> a, token |-> t]]
  /\ UNCHANGED <<vars, policy, ran>>

Continue(r, pc) == req' = [req EXCEPT ![r].pc = pc]
Respond(r)      == req' = [req EXCEPT ![r] = NoReq]

(* Issue for the approver, or Consume for the plan's own actor and action.   *)
CallStore(r) ==
  /\ req[r].pc = "call"
  /\ Continue(r, "store")
  /\ LET p == req[r].plan IN
       IF req[r].kind = "confirm" THEN Issue(r, p, req[r].actor)
       ELSE Consume(r, req[r].token, p, p.actor, p.action)
  /\ UNCHANGED <<policy, ran>>

WriteStore(r) ==
  /\ PersistOk(r) \/ PersistFails(r)
  /\ UNCHANGED <<policy, req, ran>>

StoreReturnedHanging(r) == \* faulty: a refusal is not answered
  /\ Return(r)
  /\ IF op[r].pc = "consumed" THEN Continue(r, "execute")
     ELSE IF op[r].pc = "refused" THEN Continue(r, "refused")
     ELSE Respond(r)
  /\ UNCHANGED <<policy, ran>>

StoreReturned(r) ==
  /\ Return(r)
  /\ IF op[r].pc = "consumed" THEN Continue(r, "execute") ELSE Respond(r)
  /\ UNCHANGED <<policy, ran>>

(* Registry.ExecuteApproved looks at executor and plan again, then runs.     *)
ExecuteUnchecked(r) == \* faulty: trusts the first validation
  /\ req[r].pc = "execute"
  /\ Continue(r, "run")
  /\ ran' = Append(ran, [plan |-> req[r].plan, token |-> req[r].token,
                         executor |-> req[r].actor, at |-> clock])
  /\ UNCHANGED <<vars, policy>>

ExecuteRefunding(r) == \* faulty: a refusal gives the grant back
  /\ req[r].pc = "execute"
  /\ ~ValidateApprovedPlan(req[r].plan)
  /\ Respond(r)
  /\ data' = [data EXCEPT ![req[r].token] = MarkUsed(@, Zero)]
  /\ disk' = [disk EXCEPT ![req[r].token] = MarkUsed(@, Zero)]
  /\ UNCHANGED <<clock, up, mu, op, known, accepted, policy, ran>>

ExecuteApproved(r) ==
  /\ req[r].pc = "execute"
  /\ IF MayMutate(req[r].actor) /\ ValidateApprovedPlan(req[r].plan)
     THEN /\ Continue(r, "run")
          /\ ran' = Append(ran, [plan |-> req[r].plan, token |-> req[r].token,
                                 executor |-> req[r].actor, at |-> clock])
     ELSE Respond(r) /\ UNCHANGED ran
  /\ UNCHANGED <<vars, policy>>

Finish(r) ==
  /\ req[r].pc = "run"
  /\ Respond(r)
  /\ UNCHANGED <<vars, policy, ran>>

BrokerCrash ==
  /\ Crash
  /\ req' = [r \in Requests |-> NoReq]
  /\ UNCHANGED <<policy, ran>>

(* Restart: the policy file may only narrow the compiled units.              *)
BrokerStartWidened == \* faulty: believes the policy file
  /\ OpenGrantStore
  /\ policy' \in SUBSET {p.unit : p \in Plans}
  /\ UNCHANGED <<req, ran>>

BrokerStart ==
  /\ OpenGrantStore
  /\ policy' \in SUBSET CompiledUnits
  /\ UNCHANGED <<req, ran>>

Clock == Tick /\ UNCHANGED <<policy, req, ran>>

BrokerInit ==
  /\ Init
  /\ policy = CompiledUnits
  /\ req = [r \in Requests |-> NoReq]
  /\ ran = <<>>

Handle(r) == \/ CallStore(r) \/ WriteStore(r) \/ StoreReturned(r)
             \/ ExecuteApproved(r) \/ Finish(r)

BrokerNext ==
  \/ \E r \in Requests, p \in Plans, a \in Actors \cup {None} :
       \/ Arrive(r, "confirm", p, a, None)
       \/ \E t \in known : Arrive(r, "execute", p, a, t)
  \/ \E r \in Requests : Handle(r)
  \/ BrokerCrash
  \/ BrokerStart
  \/ Clock

(* A running handler goes on; sync.Mutex hands the lock to every waiter in   *)
(* the end (its starvation mode), hence strong fairness for the call.        *)
BrokerFairness ==
  \A r \in Requests : /\ WF_brokerVars(Handle(r))
                      /\ SF_brokerVars(CallStore(r))

BrokerSpec == BrokerInit /\ [][BrokerNext]_brokerVars /\ BrokerFairness

-----------------------------------------------------------------------------
(* Types; above all the loaded policy stays within the compiled units,       *)
(* whatever policy file a restart reads (LoadPolicy 66-78).                  *)
BrokerTypeOK ==
  /\ TypeOK
  /\ policy \in SUBSET CompiledUnits
  /\ req \in [Requests -> [pc : {"idle", "call", "store", "execute", "run"},
                           kind : {"none", "confirm", "execute"},
                           plan : Plans \cup {None}, actor : Actors \cup {None},
                           token : Tokens \cup {None}]]
  /\ \A i \in 1 .. Len(ran) : ran[i].at \in Times

(* A plan's transaction starts at most once, whoever retries it, whatever    *)
(* crashes in between, and although the request that consumed its grant may  *)
(* be lost (handleExecuteApproved 142-148).                                  *)
AtMostOnce ==
  \A i, j \in 1 .. Len(ran) : i # j =>
    <<ran[i].plan.id, ran[i].plan.digest>> # <<ran[j].plan.id, ran[j].plan.digest>>

(* Behind every transaction ever started stand a durably used grant for that *)
(* very plan, a human approver other than the plan's actor, an executor who  *)
(* is no TCI, a unit compiled in, and a plan not expired when it started.    *)
Authorised ==
  \A i \in 1 .. Len(ran) :
    LET x == ran[i]
        g == disk[x.token]
    IN /\ Used(g)
       /\ SamePlan(g, x.plan) /\ VerifyPlanDigest(x.plan)
       /\ g.approver.kind = "human" /\ g.approver.id # x.plan.actor
       /\ x.executor.kind # "tci"
       /\ x.plan.unit \in CompiledUnits
       /\ x.at < x.plan.expires

(* What the endpoints have made the store write, the next start can read:    *)
(* nothing but its size (8 MiB, never pruned) makes load refuse the file.    *)
(* Issue tests the session only (grants.go 71-73), load also the plan, its   *)
(* actor and its action (187-195): the handlers' validation must see to it.  *)
WrittenLoads == Cardinality(Stored(disk)) <= LoadLimit => LoadAccepts(disk)

(* The endpoints use the store only through its own operations.              *)
UsesStoreProperly == Init /\ [][Next]_vars

(* Every request is answered, or lost with the process that served it.       *)
EveryRequestEnds == \A r \in Requests : req[r] # NoReq ~> req[r] = NoReq

=============================================================================
