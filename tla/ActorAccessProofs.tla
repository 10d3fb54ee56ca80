------------------------- MODULE ActorAccessProofs -------------------------
(***************************************************************************)
(* ActorAccess, proved for every actor file, environment and token.        *)
(*                                                                         *)
(* The invariant says of each service that its credentials are the ones of *)
(* a file that loads, whichever that was, and of the plan that its actor   *)
(* is whom that file takes the token for.                                  *)
(***************************************************************************)
EXTENDS ActorAccess, SequenceTheorems, WellFoundedInduction, TLAPS

(***************************************************************************)
(* Credentials.                                                            *)
(***************************************************************************)
(* A nonempty set of numbers has a smallest one.                             *)
LEMMA Smallest ==
  ASSUME NEW T, T \subseteq Nat, T # {}
  PROVE  \E i \in T : \A j \in T : i <= j
<1> DEFINE Less == {p \in Nat \X Nat : p[1] < p[2]}
<1>1. IsWellFoundedOn(Less, Nat)
  BY NatLessThanWellFounded, Zenon DEF OpToRel
<1>2. PICK i \in T : \A j \in T : ~(<<j, i>> \in Less)
  <2> HIDE DEF Less
  <2> QED BY <1>1, WFMin, Zenon
<1>3. SUFFICES ASSUME NEW j \in T PROVE i <= j
  BY <1>2
<1>4. i \in Nat /\ j \in Nat /\ ~(<<j, i>> \in Less)
  BY <1>2
<1>5. ~(j < i)
  BY <1>4
<1> QED BY <1>4, <1>5

(* A token that authenticates is one of the credentials', and stands for     *)
(* that credential's actor (AuthenticateBearer 143-158).                     *)
LEMMA BearerIsACredential ==
  ASSUME NEW creds, DOMAIN creds \subseteq Nat, NEW t, Matches(creds, t) # {}
  PROVE  \E i \in Matches(creds, t) :
           /\ \A j \in Matches(creds, t) : i <= j
           /\ AuthenticateBearer(creds, t) = creds[i].actor
<1> DEFINE First == CHOOSE i \in Matches(creds, t) : \A j \in Matches(creds, t) : i <= j
<1>1. Matches(creds, t) \subseteq Nat
  BY DEF Matches
<1>2. \E i \in Matches(creds, t) : \A j \in Matches(creds, t) : i <= j
  BY <1>1, Smallest
<1>3. First \in Matches(creds, t) /\ \A j \in Matches(creds, t) : First <= j
  BY <1>2
<1>4. AuthenticateBearer(creds, t) = creds[First].actor
  BY DEF AuthenticateBearer
<1> QED BY <1>3, <1>4

(* A file that loads yields as many credentials as it has entries.           *)
LEMMA CredentialsOfAFile ==
  ASSUME NEW f \in ActorFiles, Loads(f)
  PROVE  /\ Len(f) \in Nat /\ Len(f) > 0
         /\ DOMAIN Credentials(f) = 1 .. Len(f)
         /\ Len(Credentials(f)) = Len(f)
         /\ \A i \in 1 .. Len(f) : Credentials(f)[i] = [actor |-> Actor(f[i]), token |-> f[i].token]
<1>1. f \in Seq([id : STRING \cup {NoId}, kind : STRING,
                 roles : SUBSET STRING, token : Tokens \cup {Placeholder}])
  BY AccessAssumption DEF Loads
<1>2. Len(f) \in Nat /\ DOMAIN f = 1 .. Len(f)
  BY <1>1
<1>3. Len(f) > 0
  BY <1>1, <1>2 DEF Loads
<1> QED BY <1>2, <1>3 DEF Credentials

(* What the doors count on of every credential: nobody's token is the empty  *)
(* one, and a TCI's reads and proposes.                                      *)
CredentialOk(c) == c.token # None /\ (c.actor.kind = "tci" => c.actor.perms \subseteq TciPermissions)

(* The roles a TCI may hold grant no more than reading and proposing         *)
(* (normalizeActor 220-222 with rolePermissions 18-67).                      *)
LEMMA TciRolesGrantLittle ==
  ASSUME NEW e, Normalizes(e), e.kind = "tci"
  PROVE  Actor(e).perms \subseteq TciPermissions
<1>1. e.roles \subseteq {"tci-proposer", "reader"}
  BY DEF Normalizes, TciRoles
<1>2. rolePermissions["reader"] = Reading
  BY DEF rolePermissions, Roles
<1>3. rolePermissions["tci-proposer"] = Reading \cup {"operations.plan", "operations.propose"}
  BY DEF rolePermissions, Roles
<1>4. \A role \in e.roles : rolePermissions[role] \subseteq TciPermissions
  BY <1>1, <1>2, <1>3 DEF TciPermissions
<1>5. Actor(e).perms = UNION {rolePermissions[role] : role \in e.roles}
  BY DEF Actor, PermissionsOf
<1> QED BY <1>4, <1>5

(* Every credential of a file that loads is sound.                           *)
LEMMA FileCredentialsOk ==
  ASSUME NEW f \in ActorFiles, Loads(f), NEW i \in 1 .. Len(f)
  PROVE  CredentialOk(Credentials(f)[i])
<1>1. f \in Seq([id : STRING \cup {NoId}, kind : STRING,
                 roles : SUBSET STRING, token : Tokens \cup {Placeholder}])
  BY AccessAssumption DEF Loads
<1>2. f[i].token \in Tokens \cup {Placeholder}
  <2>1. f[i] \in [id : STRING \cup {NoId}, kind : STRING,
                 roles : SUBSET STRING, token : Tokens \cup {Placeholder}]
    BY <1>1, ElementOfSeq
  <2> QED BY <2>1
<1>3. f[i].token # None
  BY <1>2, AccessAssumption
<1>4. Normalizes(f[i])
  BY <1>1 DEF Loads
<1>5. Actor(f[i]).kind = f[i].kind
  BY DEF Actor
<1>6. Actor(f[i]).kind = "tci" => Actor(f[i]).perms \subseteq TciPermissions
  BY <1>4, <1>5, TciRolesGrantLittle
<1>7. Credentials(f)[i] = [actor |-> Actor(f[i]), token |-> f[i].token]
  BY CredentialsOfAFile
<1>8. Credentials(f)[i].actor = Actor(f[i]) /\ Credentials(f)[i].token = f[i].token
  BY <1>7
<1> QED BY <1>3, <1>6, <1>8 DEF CredentialOk

(* quantum-control's authenticators: the file's credentials come first and   *)
(* unchanged, and all of them are sound (LoadSecurityDependencies 22-53).    *)
LEMMA ControlCredentials ==
  ASSUME NEW e \in Environments, NEW f, e.actors => f \in ActorFiles /\ Loads(f)
  PROVE  /\ DOMAIN Authenticators(e, f) \subseteq Nat \ {0}
         /\ Authenticators(e, f) = <<>> => ~e.actors /\ e.api = None
         /\ \A i \in DOMAIN Authenticators(e, f) : CredentialOk(Authenticators(e, f)[i])
         /\ e.actors =>
              /\ 1 .. Len(f) \subseteq DOMAIN Authenticators(e, f)
              /\ \A i \in 1 .. Len(f) : Authenticators(e, f)[i] = Credentials(f)[i]
<1> DEFINE own == [actor |-> LegacyServiceActor, token |-> e.api]
           C == IF e.actors THEN Credentials(f) ELSE <<>>
           D == IF e.api # None THEN <<own>> ELSE <<>>
           S == {C[i] : i \in DOMAIN C} \cup {own}
<1>1. Authenticators(e, f) = C \o D
  BY DEF Authenticators, NewStaticAuthenticator
<1>2. C \in Seq(S) /\ (e.actors => Len(C) = Len(f))
  <2>1. CASE e.actors
    <3>1. /\ Len(f) \in Nat /\ DOMAIN C = 1 .. Len(f) /\ Len(C) = Len(f)
          /\ C = [i \in 1 .. Len(f) |-> C[i]]
      BY <2>1, CredentialsOfAFile DEF Credentials
    <3>2. \A i \in 1 .. Len(f) : C[i] \in S
      BY <3>1
    <3> HIDE DEF C, S
    <3>3. C \in [1 .. Len(f) -> S]
      BY <3>1, <3>2
    <3> QED BY <2>1, <3>1, <3>3
  <2>2. CASE ~e.actors
    BY <2>2
  <2> QED BY <2>1, <2>2
<1>3. D \in Seq(S) /\ (e.api # None => D = <<own>>) /\ (e.api = None => D = <<>>)
  <2>1. own \in S
    OBVIOUS
  <2> HIDE DEF S, own
  <2> QED BY <2>1
<1>4. /\ e.actors => Len(C) > 0 /\ \A i \in 1 .. Len(f) : C[i] = Credentials(f)[i]
      /\ \A i \in 1 .. Len(C) : CredentialOk(C[i])
  <2>1. CASE e.actors
    BY <2>1, <1>2, CredentialsOfAFile, FileCredentialsOk
  <2>2. CASE ~e.actors
    BY <2>2
  <2> QED BY <2>1, <2>2
<1>5. e.api # None => CredentialOk(own)
  BY DEF CredentialOk, LegacyServiceActor, Actor
<1> HIDE DEF C, D, S, own
<1>6. /\ C \o D \in Seq(S) /\ Len(C \o D) = Len(C) + Len(D)
      /\ \A i \in 1 .. Len(C \o D) :
           (C \o D)[i] = IF i <= Len(C) THEN C[i] ELSE D[i - Len(C)]
  BY <1>2, <1>3
<1>7. Len(C) \in Nat /\ Len(D) \in Nat /\ DOMAIN (C \o D) = 1 .. Len(C) + Len(D)
  BY <1>2, <1>3, <1>6
<1>8. \A i \in 1 .. Len(D) : CredentialOk(D[i])
  BY <1>3, <1>5
<1>9. \A i \in DOMAIN (C \o D) : CredentialOk((C \o D)[i])
  <2> SUFFICES ASSUME NEW i \in 1 .. Len(C) + Len(D) PROVE CredentialOk((C \o D)[i])
    BY <1>7
  <2>1. CASE i <= Len(C)
    BY <2>1, <1>4, <1>6, <1>7
  <2>2. CASE i > Len(C)
    <3>1. i - Len(C) \in 1 .. Len(D)
      BY <2>2, <1>7
    <3>2. (C \o D)[i] = D[i - Len(C)]
      BY <2>2, <1>6, <1>7
    <3> QED BY <3>1, <3>2, <1>8
  <2> QED BY <2>1, <2>2, <1>7
<1>10. C \o D = <<>> => ~e.actors /\ e.api = None
  <2> SUFFICES ASSUME C \o D = <<>> PROVE ~e.actors /\ e.api = None
    OBVIOUS
  <2>1. Len(C) + Len(D) = 0
    BY <1>6
  <2>2. Len(C) = 0 /\ Len(D) = 0
    BY <2>1, <1>7
  <2> QED BY <2>2, <1>3, <1>4
<1>11. e.actors => /\ 1 .. Len(f) \subseteq DOMAIN (C \o D)
                   /\ \A i \in 1 .. Len(f) : (C \o D)[i] = Credentials(f)[i]
  BY <1>2, <1>4, <1>6, <1>7
<1> QED BY <1>1, <1>7, <1>9, <1>10, <1>11

-----------------------------------------------------------------------------
(***************************************************************************)
(* The invariant.                                                          *)
(***************************************************************************)
ControlLoaded ==
  qc = Down \/
    /\ qc.up /\ qc.env \in Environments /\ Validate(qc.env)
    /\ IF qc.env.actors THEN qc.file \in ActorFiles /\ Loads(qc.file) ELSE qc.file = None
    /\ qc.creds = Authenticators(qc.env, qc.file)

QcoredLoaded ==
  \/ qd.file = None /\ qd.creds = <<>>
  \/ qd.file \in ActorFiles /\ Loads(qd.file) /\ qd.creds = Credentials(qd.file)

PlanNamesItsActor ==
  plan # None /\ plan.file \in ActorFiles /\ Matches(Credentials(plan.file), plan.token) # {} =>
    plan.planned = AuthenticateBearer(Credentials(plan.file), plan.token).id

NoTciBehindIt ==
  /\ ran # None /\ ran.executor # None => ran.executor.kind # "tci"
  /\ grant # None => grant.approver.kind # "tci"

AccessInv == ControlLoaded /\ QcoredLoaded /\ PlanNamesItsActor /\ NoTciBehindIt /\ FourEyes

(* Who passes quantum-control's door is the anonymous actor or holds a sound *)
(* credential (authenticateRequest 114-132).                                 *)
LEMMA AtControlsDoor ==
  ASSUME ControlLoaded, NEW t, authenticateRequest(t) # None
  PROVE  \/ qc.creds = <<>> /\ t = None /\ authenticateRequest(t) = LocalReadOnlyActor
         \/ \E c : CredentialOk(c) /\ c.token = t /\ authenticateRequest(t) = c.actor
<1>1. CASE qc.creds = <<>>
  BY <1>1 DEF authenticateRequest
<1>2. CASE qc.creds # <<>>
  <2>1. /\ authenticateRequest(t) = AuthenticateBearer(qc.creds, t)
        /\ Matches(qc.creds, t) # {}
    BY <1>2 DEF authenticateRequest, AuthenticateBearer
  <2>2. /\ qc.env \in Environments /\ qc.creds = Authenticators(qc.env, qc.file)
        /\ qc.env.actors => qc.file \in ActorFiles /\ Loads(qc.file)
    BY <1>2 DEF ControlLoaded, Down
  <2>3. /\ DOMAIN qc.creds \subseteq Nat
        /\ \A i \in DOMAIN qc.creds : CredentialOk(qc.creds[i])
    BY <2>2, ControlCredentials
  <2>4. PICK i \in Matches(qc.creds, t) : AuthenticateBearer(qc.creds, t) = qc.creds[i].actor
    BY <2>1, <2>3, BearerIsACredential
  <2>5. i \in DOMAIN qc.creds /\ qc.creds[i].token = t
    BY DEF Matches
  <2> QED BY <2>1, <2>3, <2>4, <2>5
<1> QED BY <1>1, <1>2

(* Whom qcored authenticates its file knows (authenticateActor 40-53).       *)
LEMMA AtQcoredsDoor ==
  ASSUME QcoredLoaded, NEW t, authenticateActor(t) # None
  PROVE  /\ qd.file \in ActorFiles /\ Loads(qd.file) /\ qd.creds = Credentials(qd.file)
         /\ Matches(Credentials(qd.file), t) # {}
         /\ \E c : CredentialOk(c) /\ c.token = t /\ authenticateActor(t) = c.actor
<1>1. authenticateActor(t) = AuthenticateBearer(qd.creds, t) /\ Matches(qd.creds, t) # {}
  BY DEF authenticateActor, AuthenticateBearer
<1>2. qd.creds # <<>>
  BY <1>1 DEF Matches
<1>3. qd.file \in ActorFiles /\ Loads(qd.file) /\ qd.creds = Credentials(qd.file)
  BY <1>2 DEF QcoredLoaded
<1>4. DOMAIN qd.creds = 1 .. Len(qd.file) /\ Len(qd.file) \in Nat
  BY <1>3, CredentialsOfAFile
<1>5. PICK i \in Matches(qd.creds, t) : AuthenticateBearer(qd.creds, t) = qd.creds[i].actor
  BY <1>1, <1>4, BearerIsACredential
<1>6. i \in DOMAIN qd.creds /\ qd.creds[i].token = t
  BY DEF Matches
<1>7. CredentialOk(qd.creds[i])
  BY <1>3, <1>4, <1>6, FileCredentialsOk
<1> QED BY <1>1, <1>3, <1>5, <1>6, <1>7

(* A token that is in the actor file quantum-control has loaded stands for   *)
(* the actor of that file, whatever the API token is.                        *)
LEMMA FileComesFirst ==
  ASSUME ControlLoaded, qc.file \in ActorFiles, NEW t, Matches(Credentials(qc.file), t) # {}
  PROVE  authenticateRequest(t) = AuthenticateBearer(Credentials(qc.file), t)
<1> DEFINE C == Credentials(qc.file)
           D == qc.creds
<1>1. /\ qc.env \in Environments /\ qc.env.actors /\ Loads(qc.file)
      /\ D = Authenticators(qc.env, qc.file)
  BY AccessAssumption DEF ControlLoaded, Down
<1>2. /\ Len(qc.file) \in Nat /\ Len(qc.file) > 0 /\ DOMAIN C = 1 .. Len(qc.file)
  BY <1>1, CredentialsOfAFile
<1>3. /\ DOMAIN D \subseteq Nat
      /\ 1 .. Len(qc.file) \subseteq DOMAIN D
      /\ \A i \in 1 .. Len(qc.file) : D[i] = C[i]
  BY <1>1, ControlCredentials
<1>4. D # <<>>
  BY <1>2, <1>3
<1>5. DOMAIN C \subseteq Nat
  BY <1>2
<1> HIDE DEF C, D
<1>6. Matches(C, t) # {}
  BY DEF C
<1>7. PICK i \in Matches(C, t) : /\ \A j \in Matches(C, t) : i <= j
                                 /\ AuthenticateBearer(C, t) = C[i].actor
  BY <1>5, <1>6, BearerIsACredential
<1>8. i \in 1 .. Len(qc.file) /\ i \in Matches(D, t)
  BY <1>2, <1>3, <1>7 DEF Matches
<1>9. PICK k \in Matches(D, t) : /\ \A j \in Matches(D, t) : k <= j
                                 /\ AuthenticateBearer(D, t) = D[k].actor
  BY <1>3, <1>8, BearerIsACredential
<1>10. k \in Nat /\ k <= i /\ k # 0
  <2>1. k \in DOMAIN D
    BY <1>9 DEF Matches
  <2>2. k \in Nat /\ k <= i
    BY <2>1, <1>3, <1>8, <1>9
  <2>3. 0 \notin DOMAIN D
    BY <1>1, ControlCredentials DEF D
  <2> QED BY <2>1, <2>2, <2>3
<1>11. k \in 1 .. Len(qc.file)
  BY <1>2, <1>8, <1>10
<1>12. k \in Matches(C, t)
  BY <1>2, <1>3, <1>9, <1>11 DEF Matches
<1>13. k = i
  BY <1>7, <1>8, <1>10, <1>12
<1>14. authenticateRequest(t) = AuthenticateBearer(D, t)
  BY <1>4 DEF authenticateRequest, D
<1> QED BY <1>3, <1>7, <1>8, <1>9, <1>13, <1>14 DEF C

(* Where both have loaded the same file, both take a token qcored knows for  *)
(* the same actor.                                                           *)
LEMMA DoorsAgree ==
  ASSUME ControlLoaded, QcoredLoaded, qc.file = qd.file, NEW t, authenticateActor(t) # None
  PROVE  authenticateRequest(t) = authenticateActor(t)
BY AtQcoredsDoor, FileComesFirst DEF authenticateActor

-----------------------------------------------------------------------------
(* Before the services start nothing is loaded, planned or run.              *)
LEMMA AccessInit == Init => AccessInv
BY DEF Init, AccessInv, ControlLoaded, QcoredLoaded, PlanNamesItsActor, NoTciBehindIt, FourEyes, Down

(* Every step keeps the invariant, one case per action.                      *)
LEMMA AccessNext == AccessInv /\ [Next]_vars => AccessInv'
<1> SUFFICES ASSUME AccessInv, [Next]_vars PROVE AccessInv'
  OBVIOUS
<1> USE DEF AccessInv
<1>1. ASSUME NEW e \in Environments, NEW f \in ActorFiles, StartControl(e, f) PROVE AccessInv'
  <2>1. ControlLoaded'
    <3>1. /\ qc'.up /\ qc'.env = e /\ Validate(e)
          /\ qc'.file = IF e.actors THEN f ELSE None
          /\ qc'.creds = Authenticators(e, f)
          /\ e.actors => Loads(f)
      BY <1>1 DEF StartControl
    <3>2. e.actors \in BOOLEAN
      BY AccessAssumption
    <3>3. qc'.creds = Authenticators(e, qc'.file)
      BY <3>1, <3>2 DEF Authenticators
    <3> QED BY <3>1, <3>2, <3>3 DEF ControlLoaded
  <2>2. UNCHANGED <<qd, plan, grant, ran>>
    BY <1>1 DEF StartControl
  <2> QED BY <2>1, <2>2 DEF QcoredLoaded, PlanNamesItsActor, NoTciBehindIt, FourEyes
<1>2. ASSUME NEW e \in Environments, NEW f \in ActorFiles, StartQcored(e, f) PROVE AccessInv'
  <2>1. QcoredLoaded'
    <3>1. e.actors \in BOOLEAN
      BY AccessAssumption
    <3> QED BY <1>2, <3>1 DEF StartQcored, QcoredLoaded, Down
  <2>2. UNCHANGED <<qc, plan, grant, ran>>
    BY <1>2 DEF StartQcored
  <2> QED BY <2>1, <2>2 DEF ControlLoaded, PlanNamesItsActor, NoTciBehindIt, FourEyes
<1>3. CASE StopControl
  BY <1>3 DEF StopControl, ControlLoaded, QcoredLoaded, PlanNamesItsActor, NoTciBehindIt, FourEyes
<1>4. CASE StopQcored
  BY <1>4 DEF StopQcored, ControlLoaded, QcoredLoaded, PlanNamesItsActor, NoTciBehindIt, FourEyes, Down
<1>5. ASSUME NEW q, NEW named, Execute(q, named) PROVE AccessInv'
  <2>1. /\ ran'.executor = None /\ ran'.request = q /\ q.action \notin Mutations
        /\ UNCHANGED <<qc, qd, plan, grant>>
    BY <1>5 DEF Execute, validate
  <2> QED BY <2>1 DEF ControlLoaded, QcoredLoaded, PlanNamesItsActor, NoTciBehindIt, FourEyes
<1>6. ASSUME NEW t, NEW q, HandlePlan(t, q) PROVE AccessInv'
  <2>1. /\ plan'.planned = authenticateRequest(t).id /\ plan'.token = t /\ plan'.file = qc.file
        /\ grant' = None /\ UNCHANGED <<qc, qd, ran>>
    BY <1>6 DEF HandlePlan
  <2>2. PlanNamesItsActor'
    <3>1. SUFFICES ASSUME qc.file \in ActorFiles, Matches(Credentials(qc.file), t) # {}
                   PROVE  authenticateRequest(t) = AuthenticateBearer(Credentials(qc.file), t)
      BY <2>1 DEF PlanNamesItsActor
    <3> QED BY <3>1, FileComesFirst
  <2> QED BY <2>1, <2>2 DEF ControlLoaded, QcoredLoaded, NoTciBehindIt, FourEyes
<1>7. ASSUME NEW t, HandleConfirm(t) PROVE AccessInv'
  <2> DEFINE a == authenticateActor(t)
  <2>1. /\ a # None /\ a.kind = "human" /\ a.id # plan.planned /\ plan # None
        /\ grant'.approver = a /\ grant'.token = t /\ grant'.file = qd.file
        /\ grant'.named = authenticateRequest(t).id /\ grant'.publicFile = qc.file
        /\ grant'.planner = plan.token /\ grant'.plannerFile = plan.file
        /\ UNCHANGED <<qc, qd, plan, ran>>
    BY <1>7 DEF HandleConfirm, IssueAllowed, ValidateApprovedPlan
  <2>2. /\ qd.file \in ActorFiles /\ qd.creds = Credentials(qd.file)
        /\ Matches(Credentials(qd.file), t) # {}
    BY <2>1, AtQcoredsDoor
  <2>3. plan.file = qd.file => plan.token # t
    <3>1. ASSUME plan.file = qd.file, plan.token = t PROVE FALSE
      <4>1. plan.planned = a.id
        BY <2>1, <2>2, <3>1 DEF PlanNamesItsActor, authenticateActor
      <4> QED BY <2>1, <4>1
    <3> QED BY <3>1
  <2>4. qc.file = qd.file => authenticateRequest(t) = a
    BY <2>1, DoorsAgree
  <2>5. FourEyes'
    BY <2>1, <2>3, <2>4 DEF FourEyes
  <2>6. NoTciBehindIt'
    BY <2>1 DEF NoTciBehindIt
  <2> QED BY <2>1, <2>5, <2>6 DEF ControlLoaded, QcoredLoaded, PlanNamesItsActor
<1>8. ASSUME NEW t, HandleApproved(t) PROVE AccessInv'
  <2> DEFINE a == authenticateActor(t)
  <2>1. /\ a # None /\ a.kind # "tci" /\ grant # None
        /\ ran'.executor = a /\ ran'.named = authenticateRequest(t).id
        /\ ran'.agreed = (qc.file = qd.file) /\ ran'.grant = grant
        /\ grant' = [grant EXCEPT !.used = TRUE]
        /\ UNCHANGED <<qc, qd, plan>>
    BY <1>8 DEF HandleApproved, MayMutate
  <2>2. /\ grant'.approver = grant.approver /\ grant'.token = grant.token /\ grant'.file = grant.file
        /\ grant'.named = grant.named /\ grant'.publicFile = grant.publicFile
        /\ grant'.planner = grant.planner /\ grant'.plannerFile = grant.plannerFile
    BY <2>1
  <2>3. qc.file = qd.file => authenticateRequest(t) = a
    BY <2>1, DoorsAgree
  <2>4. FourEyes'
    BY <2>1, <2>2, <2>3 DEF FourEyes
  <2>5. NoTciBehindIt'
    BY <2>1, <2>2 DEF NoTciBehindIt
  <2> QED BY <2>1, <2>4, <2>5 DEF ControlLoaded, QcoredLoaded, PlanNamesItsActor
<1>9. CASE UNCHANGED vars
  BY <1>9 DEF vars, ControlLoaded, QcoredLoaded, PlanNamesItsActor, NoTciBehindIt, FourEyes
<1> QED
  BY <1>1, <1>2, <1>3, <1>4, <1>5, <1>6, <1>7, <1>8, <1>9 DEF Next, HandleExecute, HandleStatus

(* Whatever the two services load and whenever, the invariant holds.         *)
THEOREM AccessInvariance == Spec => []AccessInv
<1>1. Init => AccessInv
  BY AccessInit
<1>2. AccessInv /\ [Next]_vars => AccessInv'
  BY AccessNext
<1> QED BY <1>1, <1>2, PTL DEF Spec

(* For every actor file and whichever version each service has loaded, a TCI *)
(* reads and proposes and never stands behind a mutation or its approval     *)
(* (normalizeActor 194-235).                                                 *)
THEOREM TciStaysOutHolds == Spec => []TciStaysOut
<1>1. AccessInv => TciStaysOut
  <2> SUFFICES ASSUME AccessInv PROVE TciStaysOut
    OBVIOUS
  <2> USE DEF AccessInv
  <2>1. ASSUME NEW t \in Tokens, authenticateRequest(t) # None, authenticateRequest(t).kind = "tci"
        PROVE  authenticateRequest(t).perms \subseteq TciPermissions
    <3>1. LocalReadOnlyActor.kind # "tci"
      BY DEF LocalReadOnlyActor, Actor
    <3> QED BY <2>1, <3>1, AtControlsDoor DEF CredentialOk
  <2>2. ASSUME NEW t \in Tokens, authenticateActor(t) # None, authenticateActor(t).kind = "tci"
        PROVE  authenticateActor(t).perms \subseteq TciPermissions
    BY <2>2, AtQcoredsDoor DEF CredentialOk
  <2> QED BY <2>1, <2>2 DEF TciStaysOut, NoTciBehindIt
<1> QED BY <1>1, AccessInvariance, PTL

(* For every environment and actor file, a request without credential is     *)
(* served only on loopback with no credential source configured              *)
(* (Control.Validate 177-179, authenticateRequest 114-132).                  *)
THEOREM AnonymousHolds == Spec => []AnonymousOnlyOnLoopback
<1>1. AccessInv => AnonymousOnlyOnLoopback
  <2> SUFFICES ASSUME AccessInv, qc.up, authenticateRequest(None) # None
               PROVE  /\ qc.env.listen = "loopback" /\ qc.env.api = None /\ ~qc.env.actors
                      /\ authenticateRequest(None).perms
                           \cap {"audit.read", "operations.confirm", "operations.execute.mutate"} = {}
    BY DEF AnonymousOnlyOnLoopback
  <2> USE DEF AccessInv
  <2>1. qc.creds = <<>> /\ authenticateRequest(None) = LocalReadOnlyActor
    BY AtControlsDoor DEF CredentialOk
  <2>2. /\ qc.env \in Environments /\ Validate(qc.env)
        /\ qc.env.actors => qc.file \in ActorFiles /\ Loads(qc.file)
        /\ qc.creds = Authenticators(qc.env, qc.file)
    BY DEF ControlLoaded, Down
  <2>3. ~qc.env.actors /\ qc.env.api = None
    BY <2>1, <2>2, ControlCredentials
  <2>4. qc.env.listen = "loopback"
    BY <2>2, <2>3 DEF Validate
  <2>5. LocalReadOnlyActor.perms = Operating
    <3>1. LocalReadOnlyActor.perms = UNION {rolePermissions[role] : role \in {"operator"}}
      BY DEF LocalReadOnlyActor, Actor, PermissionsOf
    <3>2. rolePermissions["operator"] = Operating
      BY DEF rolePermissions, Roles
    <3> QED BY <3>1, <3>2
  <2>6. Operating \cap {"audit.read", "operations.confirm", "operations.execute.mutate"} = {}
    BY DEF Operating, Reading
  <2> QED BY <2>1, <2>3, <2>4, <2>5, <2>6
<1> QED BY <1>1, AccessInvariance, PTL

(* No mutation without a grant; with one actor file in both services, the    *)
(* credential that approved is not the one that planned, and the trail names *)
(* whom qcored saw (GrantStore.Issue 77-79).                                 *)
THEOREM FourEyesHolds == Spec => []FourEyes
<1>1. AccessInv => FourEyes
  BY DEF AccessInv
<1> QED BY <1>1, AccessInvariance, PTL
=============================================================================
