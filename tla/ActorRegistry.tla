--------------------------- MODULE ActorRegistry ---------------------------
(***************************************************************************)
(* Actors and their credentials (security/auth.go): what an actor file     *)
(* must be to load, what permissions its actors get, and which actor a     *)
(* bearer token stands for.  Both quantum-control and qcored use this.     *)
(*                                                                         *)
(* A file is a sequence of entries [id, kind, roles, token], or Garbled    *)
(* where it cannot be read, is too long, does not decode or has another    *)
(* schema.  A token stands for its SHA-256; Placeholder is a digest that   *)
(* does not decode or is all zero, and NoId an id or display name that     *)
(* does not match policy.  Permissions an entry claims for itself are      *)
(* overwritten and therefore left out.                                     *)
(***************************************************************************)
EXTENDS Naturals, Sequences

CONSTANTS Garbled, Placeholder, NoId, None

Kinds == {"human", "service", "tci"}

Reading   == {"control.read", "inventory.read", "operations.catalog.read"}
Operating == Reading \cup {"operations.plan", "operations.execute.readonly"}

Roles == {"reader", "operator", "mutator", "auditor", "approver", "tci-proposer", "service"}

rolePermissions ==
  [role \in Roles |->
     CASE role = "reader"       -> Reading
       [] role = "operator"     -> Operating
       [] role = "mutator"      -> Operating \cup {"operations.execute.mutate"}
       [] role = "auditor"      -> {"control.read", "audit.read"}
       [] role = "approver"     -> Operating \cup {"audit.read", "operations.confirm"}
       [] role = "tci-proposer" -> Reading \cup {"operations.plan", "operations.propose"}
       [] role = "service"      -> Operating \cup {"audit.read"}]

(* The union of what the roles grant, sorted and without duplicates.         *)
PermissionsOf(roles) == UNION {rolePermissions[role] : role \in roles}

HasPermission(actor, permission) == permission \in actor.perms

(***************************************************************************)
(* normalizeActor, as a test of the entry and the actor it becomes.        *)
(***************************************************************************)
TciRolesAnything(e) == \* faulty: counts on the permission checks alone
  e.roles \subseteq Roles

TciRoles(e) == e.kind = "tci" => e.roles \subseteq {"tci-proposer", "reader"}

Normalizes(e) ==
  /\ e.id # NoId
  /\ e.kind \in Kinds
  /\ e.roles # {} /\ e.roles \subseteq Roles
  /\ TciRoles(e)
  /\ e.kind = "tci" =>
       {"operations.confirm", "operations.execute.mutate"} \cap PermissionsOf(e.roles) = {}

Actor(e) == [id |-> e.id, kind |-> e.kind, perms |-> PermissionsOf(e.roles)]

(***************************************************************************)
(* LoadActorRegistry: the file loads as a whole or not at all.  Ids must   *)
(* differ; token digests need not.                                         *)
(***************************************************************************)
Loads(file) ==
  /\ file # Garbled /\ file # <<>>
  /\ \A i \in DOMAIN file : Normalizes(file[i]) /\ file[i].token # Placeholder
  /\ \A i, j \in DOMAIN file : file[i].id = file[j].id => i = j

Credentials(file) == [i \in DOMAIN file |-> [actor |-> Actor(file[i]), token |-> file[i].token]]

(* The first credential with the token's digest; of several authenticators   *)
(* (MultiAuthenticator) the first one that knows it, so that a list of       *)
(* authenticators is the list of all their credentials.                      *)
Matches(creds, t) == {i \in DOMAIN creds : creds[i].token = t}

AuthenticateBearer(creds, t) ==
  IF Matches(creds, t) = {} THEN None
  ELSE creds[CHOOSE i \in Matches(creds, t) : \A j \in Matches(creds, t) : i <= j].actor

(* The built-in actors and the API token's authenticator.                    *)
LocalReadOnlyActor ==
  Actor([id |-> "service:loopback-readonly", kind |-> "service", roles |-> {"operator"}])

LegacyServiceActor ==
  Actor([id |-> "service:legacy-api-token", kind |-> "service", roles |-> {"service"}])

NewStaticAuthenticator(actor, t) == <<[actor |-> actor, token |-> t]>>

=============================================================================
