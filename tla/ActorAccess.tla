---------------------------- MODULE ActorAccess ----------------------------
(***************************************************************************)
(* Who may do what, through both services.  quantum-control and qcored     *)
(* each read their environment and the actor file once, when they start,   *)
(* and go by what they read until they stop.  Both may be edited at any    *)
(* time and either service restarted, so every start reads whatever is     *)
(* there and the two may disagree.  A request passes quantum-control's     *)
(* door first (requirePermission); confirmations and approved executions   *)
(* carry the caller's credential on to qcored, which authenticates it      *)
(* again.                                                                  *)
(*                                                                         *)
(* Expiry, digests, durable grants and the transaction itself are the      *)
(* subject of other modules; here one plan at a time is followed, with its *)
(* grant.  The parsing of numbers, paths and addresses is external: an     *)
(* environment says whether they are sound, and where it listens.          *)
(***************************************************************************)
EXTENDS ActorRegistry, FiniteSets

CONSTANTS
  Tokens,        \* bearer tokens callers may present
  ActorFiles,    \* contents the actor file may have
  Environments,  \* [listen, api, actors, broker, sound]: see Validate
  Requests,      \* [action, unit] an operation request may name
  Allowed,       \* the units of qcored's service policy
  Malformed,     \* a unit parameter the pattern refuses
  Short          \* an API token of less than 32 characters

ASSUME AccessAssumption ==
  /\ None \notin Tokens \cup {Placeholder, Short} \cup ActorFiles /\ Placeholder \notin Tokens
  /\ Environments \subseteq [listen : {"loopback", "remote"}, api : Tokens \cup {None, Short},
                             actors : BOOLEAN, broker : STRING, sound : BOOLEAN]
  /\ \A f \in ActorFiles : f = Garbled \/ f \in Seq([id : STRING \cup {NoId}, kind : STRING,
                                       roles : SUBSET STRING, token : Tokens \cup {Placeholder}])

VARIABLES
  qc,     \* quantum-control: [up, env, broker, file, creds]
  qd,     \* qcored: [up, broker, file, creds]
  plan,   \* the last plan drawn up, while quantum-control remembers it
  grant,  \* the grant qcored issued for it
  ran     \* the operation run last (history)

vars == <<qc, qd, plan, grant, ran>>

Down == [up |-> FALSE, env |-> None, broker |-> None, file |-> None, creds |-> <<>>]

(***************************************************************************)
(* Starting the services.                                                  *)
(***************************************************************************)
(* Control.Validate; sound stands for the paths, lengths and ranges tested   *)
(* one by one.  A listener others can reach needs some credential source.    *)
ValidateLocalOnly(e) == e.sound /\ e.api # Short \* faulty: forgets the listener

Validate(e) ==
  /\ e.sound
  /\ e.api # Short
  /\ e.listen # "loopback" => e.api # None \/ e.actors

(* LoadSecurityDependencies: the registry first, then the API token.         *)
Authenticators(e, f) ==
  (IF e.actors THEN Credentials(f) ELSE <<>>)
    \o (IF e.api # None THEN NewStaticAuthenticator(LegacyServiceActor, e.api) ELSE <<>>)

StartControl(e, f) ==
  /\ ~qc.up
  /\ Validate(e)
  /\ e.actors => Loads(f)
  /\ qc' = [up |-> TRUE, env |-> e, broker |-> e.broker, file |-> IF e.actors THEN f ELSE None,
            creds |-> Authenticators(e, f)]
  /\ UNCHANGED <<qd, plan, grant, ran>>

(* Plans live in memory.                                                     *)
StopControl ==
  /\ qc.up
  /\ qc' = Down
  /\ plan' = None
  /\ UNCHANGED <<qd, grant, ran>>

(* loadMutationSecurity: without an actor file qcored authenticates nobody.  *)
StartQcored(e, f) ==
  /\ ~qd.up
  /\ e.sound
  /\ e.actors => Loads(f)
  /\ qd' = [Down EXCEPT !.up = TRUE, !.broker = e.broker,
                        !.file = IF e.actors THEN f ELSE None,
                        !.creds = IF e.actors THEN Credentials(f) ELSE <<>>]
  /\ UNCHANGED <<qc, plan, grant, ran>>

StopQcored == qd.up /\ qd' = Down /\ UNCHANGED <<qc, plan, grant, ran>>

(***************************************************************************)
(* The doors.  t is the bearer token, None a request without a credential. *)
(***************************************************************************)
authenticateRequest(t) ==
  IF qc.creds = <<>> THEN IF t = None THEN LocalReadOnlyActor ELSE None
  ELSE AuthenticateBearer(qc.creds, t)

requirePermission(t, permission) ==
  /\ qc.up
  /\ authenticateRequest(t) # None
  /\ HasPermission(authenticateRequest(t), permission)

(* Both services read the broker token at their start, and qcored answers    *)
(* nobody who shows another one than its own.                                *)
requireBrokerAuth == qd.up /\ qc.broker = qd.broker

authenticateActor(t) == AuthenticateBearer(qd.creds, t)

(***************************************************************************)
(* The catalog: Registry.validate over action and parameters.              *)
(***************************************************************************)
Mutations == {"service.start", "service.stop", "service.restart"}
ReadOnly  == {"system.snapshot", "service.status"}

ParametersAccepted(q) ==
  CASE q.action = "system.snapshot" -> q.unit = None
    [] q.action = "service.status"  -> q.unit \notin {None, Malformed}
    [] OTHER                        -> q.unit \in Allowed

validate(q, execution) ==
  /\ q.action \in Mutations \cup ReadOnly
  /\ execution => q.action \notin Mutations
  /\ ParametersAccepted(q)

(***************************************************************************)
(* Operations.  planned and named are who quantum-control took the caller  *)
(* for, and go into the plan and the audit trail.                          *)
(***************************************************************************)
(* A read-only operation, run at once; what is refused changes nothing.      *)
Execute(q, named) ==
  /\ requireBrokerAuth
  /\ validate(q, TRUE)
  /\ ran' = [request |-> q, executor |-> None, named |-> named, agreed |-> qc.file = qd.file,
             grant |-> None]
  /\ UNCHANGED <<qc, qd, plan, grant>>

HandleExecute(t, q) ==
  requirePermission(t, "operations.execute.readonly") /\ Execute(q, authenticateRequest(t).id)

(* The two status routes ask for less, fix the action and leave no record.   *)
HandleStatus(t, q) ==
  requirePermission(t, "control.read") /\ q.action \in ReadOnly /\ Execute(q, None)

HandlePlan(t, q) ==
  /\ requirePermission(t, "operations.plan")
  /\ requireBrokerAuth
  /\ plan' = [request |-> q, valid |-> validate(q, FALSE), planned |-> authenticateRequest(t).id,
              token |-> t, file |-> qc.file]
  /\ grant' = None
  /\ UNCHANGED <<qc, qd, ran>>

ValidateApprovedPlan ==
  plan # None /\ plan.valid /\ plan.request.action \in Mutations /\ validate(plan.request, FALSE)

IssueUnseparated(approver) == \* faulty: anybody's plan
  approver.kind = "human" /\ HasPermission(approver, "operations.confirm")

IssueAllowed(approver) ==
  /\ approver.kind = "human" /\ HasPermission(approver, "operations.confirm")
  /\ approver.id # plan.planned

HandleConfirm(t) ==
  /\ requirePermission(t, "operations.confirm")
  /\ requireBrokerAuth
  /\ ValidateApprovedPlan /\ grant = None
  /\ authenticateActor(t) # None
  /\ IssueAllowed(authenticateActor(t))
  /\ grant' = [approver |-> authenticateActor(t), token |-> t, file |-> qd.file,
               named |-> authenticateRequest(t).id, publicFile |-> qc.file,
               planner |-> plan.token, plannerFile |-> plan.file, used |-> FALSE]
  /\ UNCHANGED <<qc, qd, plan, ran>>

MayMutate(executor) ==
  executor # None /\ executor.kind # "tci" /\ HasPermission(executor, "operations.execute.mutate")

HandleApproved(t) ==
  /\ requirePermission(t, "operations.execute.mutate")
  /\ requireBrokerAuth
  /\ MayMutate(authenticateActor(t))
  /\ ValidateApprovedPlan /\ grant # None /\ ~grant.used
  /\ grant' = [grant EXCEPT !.used = TRUE]
  /\ ran' = [request |-> plan.request, executor |-> authenticateActor(t),
             named |-> authenticateRequest(t).id, agreed |-> qc.file = qd.file, grant |-> grant]
  /\ UNCHANGED <<qc, qd, plan>>

Init ==
  /\ qc = Down /\ qd = Down
  /\ plan = None /\ grant = None /\ ran = None

Next ==
  \/ \E e \in Environments, f \in ActorFiles : StartControl(e, f) \/ StartQcored(e, f)
  \/ StopControl \/ StopQcored
  \/ \E t \in Tokens \cup {None} :
       \/ \E q \in Requests : HandleExecute(t, q) \/ HandleStatus(t, q) \/ HandlePlan(t, q)
       \/ HandleConfirm(t) \/ HandleApproved(t)

Spec == Init /\ [][Next]_vars

-----------------------------------------------------------------------------
TciPermissions == Reading \cup {"operations.plan", "operations.propose"}

(* Whatever the actor file says and whichever version of it a service has    *)
(* loaded, a credential of a TCI opens no door but reading and proposing     *)
(* (normalizeActor 194-235), and none stands behind a mutation or its        *)
(* approval.                                                                 *)
TciStaysOut ==
  /\ \A t \in Tokens : \A a \in {authenticateRequest(t), authenticateActor(t)} :
       a # None /\ a.kind = "tci" => a.perms \subseteq TciPermissions
  /\ ran # None /\ ran.executor # None => ran.executor.kind # "tci"
  /\ grant # None => grant.approver.kind # "tci"

(* On the routes behind requirePermission, a request without credential is   *)
(* served only on a loopback listener with no credential source configured,  *)
(* and never reads the audit trail, confirms or mutates: a broken or missing *)
(* actor file opens nothing (Control.Validate 177-179, authenticateRequest   *)
(* 114-132).  The three routes outside it (/, /healthz and /readyz,          *)
(* control/server.go 51-53) answer anyone on any listener.                   *)
AnonymousOnlyOnLoopback ==
  qc.up /\ authenticateRequest(None) # None =>
    /\ qc.env.listen = "loopback" /\ qc.env.api = None /\ ~qc.env.actors
    /\ authenticateRequest(None).perms
         \cap {"audit.read", "operations.confirm", "operations.execute.mutate"} = {}

(* No unit is touched but under a grant for that plan; and as long as the    *)
(* two services have loaded the same actor file, the credential that         *)
(* approved is not the one that planned, and the trail names the approver    *)
(* and the executor qcored saw.  (With different files loaded one credential *)
(* may be two actors: only their ids are compared, grants.go 77-79.)         *)
FourEyes ==
  /\ ran # None /\ ran.request.action \in Mutations =>
       /\ ran.grant # None /\ ran.executor # None
       /\ ran.agreed => ran.named = ran.executor.id
  /\ grant # None =>
       /\ grant.plannerFile = grant.file => grant.planner # grant.token
       /\ grant.publicFile = grant.file => grant.named = grant.approver.id

=============================================================================
