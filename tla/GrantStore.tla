----------------------------- MODULE GrantStore -----------------------------
(***************************************************************************)
(* security.GrantStore: the confirmation grants of qcored, kept in memory  *)
(* (data) and in one JSON file (disk).  Issue and Consume run under the    *)
(* mutex mu: each changes data, writes the whole of it to a temporary file *)
(* and renames that over the old one; a failed write undoes the change in  *)
(* memory.  qcored may crash between any two of those steps and reloads    *)
(* the file when it starts again.                                          *)
(*                                                                         *)
(* Data: a token stands for its SHA-256, a plan digest for the hash of the *)
(* canonical plan (an injective tuple), an actor for its id, kind and      *)
(* permissions.  Time is the wall clock (now().UTC() drops the monotonic   *)
(* reading), so it may step either way; 0 is Go's zero time.               *)
(***************************************************************************)
EXTENDS Integers, FiniteSets

(***************************************************************************)
(* A definition marked "faulty" is a plausible slip in the definition that *)
(* follows it.  No action uses it: it stands in for that definition when   *)
(* one shows that a property would catch the slip.                         *)
(***************************************************************************)
CONSTANTS
  Plans,      \* the plan records callers may present, tampered ones included
  Actors,     \* the actor records [id, kind, perms]
  Tokens,     \* the 256-bit random tokens that may be drawn
  Requests,   \* the goroutines that may be inside the store
  TTL,        \* life of a grant
  MaxTime,    \* bound on the clock
  LoadLimit,  \* how many grants fit in the 8 MiB that load reads
  None        \* no grant, no token, nobody

VARIABLES
  clock,     \* time.Now()
  up,        \* qcored is running and has opened the store
  mu,        \* the request that holds s.mu, or None
  data,      \* s.data.Grants, by token
  disk,      \* the contents of the store file, by token
  op,        \* op[r]: where request r is, and the token it works on
  known,     \* tokens handed to a caller
  accepted   \* accepted[t]: how many calls Consume(t) have returned success

vars == <<clock, up, mu, data, disk, op, known, accepted>>

Zero  == 0
Times == 1 .. MaxTime

PlanDigest(p) ==
  <<p.id, p.session, p.actor, p.action, p.unit, p.risk, p.confirmable, p.created, p.expires>>

VerifyPlanDigest(p) == p.digest = PlanDigest(p)

(* Whom a plan may be drawn up for, or a caller may be.                      *)
ActorIds == {a.id : a \in Actors} \cup {p.actor : p \in Plans}

Grant == [planId : {p.id : p \in Plans}, digest : {p.digest : p \in Plans},
          subject : {p.actor : p \in Plans}, session : {p.session : p \in Plans},
          action : {p.action : p \in Plans}, approver : Actors,
          issuedAt : Times, expiresAt : Int, usedAt : Times \cup {Zero}]

Idle == [pc |-> "idle", token |-> None]

ASSUME GrantAssumption ==
  /\ TTL \in Nat \ {0}
  /\ MaxTime \in Nat \ {0}
  /\ \A p \in Plans : p.expires \in Nat
  /\ None \notin Tokens
  /\ None \notin Requests
  /\ None \notin Grant
  /\ None \notin {p.id : p \in Plans} \X {p.digest : p \in Plans}

(***************************************************************************)
(* The decisions of Issue and Consume, taken with the lock held.           *)
(***************************************************************************)
MayConfirm(a) == a.kind = "human" /\ "operations.confirm" \in a.perms

SamePlan(g, p) == g.planId = p.id /\ g.digest = p.digest

HasOpenGrant(p) == \* faulty: overlooks grants already used
  \E t \in Tokens : data[t] # None /\ SamePlan(data[t], p) /\ data[t].usedAt = Zero

HasGrant(p) == \E t \in Tokens : data[t] # None /\ SamePlan(data[t], p)

IssueAllowed(p, a) ==
  /\ p.confirmable
  /\ VerifyPlanDigest(p)
  /\ p.expires > clock
  /\ p.session # ""
  /\ MayConfirm(a)
  /\ p.actor # a.id
  /\ ~HasGrant(p)

GrantExpiryUncapped(p) == clock + TTL \* faulty: may outlive the plan

GrantExpiry(p) == IF p.expires < clock + TTL THEN p.expires ELSE clock + TTL

NewGrant(p, a) ==
  [planId |-> p.id, digest |-> p.digest, subject |-> p.actor,
   session |-> p.session, action |-> p.action, approver |-> a,
   issuedAt |-> clock, expiresAt |-> GrantExpiry(p), usedAt |-> Zero]

MarkUsed(g, at) ==
  [planId |-> g.planId, digest |-> g.digest, subject |-> g.subject,
   session |-> g.session, action |-> g.action, approver |-> g.approver,
   issuedAt |-> g.issuedAt, expiresAt |-> g.expiresAt, usedAt |-> at]

BoundTo(g, p, subject, action) ==
  /\ SamePlan(g, p)
  /\ g.subject = subject
  /\ g.session = p.session
  /\ g.action = action

UsableAgain(g) == g.expiresAt > clock \* faulty: forgets usedAt

Usable(g) == g.usedAt = Zero /\ g.expiresAt > clock

ConsumeAllowed(t, p, subject, action) ==
  /\ p.confirmable
  /\ VerifyPlanDigest(p)
  /\ p.expires > clock
  /\ data[t] # None
  /\ Usable(data[t])
  /\ BoundTo(data[t], p, subject, action)

(***************************************************************************)
(* The steps.  Taking the lock, deciding and changing data is one step:    *)
(* until the write nobody else can see it.                                 *)
(***************************************************************************)
Lock(r) == up /\ mu = None /\ op[r] = Idle

Refuse(r) ==
  /\ op' = [op EXCEPT ![r] = [pc |-> "refused", token |-> None]]
  /\ UNCHANGED <<clock, up, mu, data, disk, known, accepted>>

Issue(r, p, a) ==
  /\ Lock(r)
  /\ IF IssueAllowed(p, a)
     THEN \E t \in Tokens :
            /\ data[t] = None
            /\ data' = [data EXCEPT ![t] = NewGrant(p, a)]
            /\ op' = [op EXCEPT ![r] = [pc |-> "issue", token |-> t]]
            /\ mu' = r
            /\ UNCHANGED <<clock, up, disk, known, accepted>>
     ELSE Refuse(r)

Consume(r, t, p, subject, action) ==
  /\ Lock(r)
  /\ IF ConsumeAllowed(t, p, subject, action)
     THEN /\ data' = [data EXCEPT ![t] = MarkUsed(@, clock)]
          /\ op' = [op EXCEPT ![r] = [pc |-> "consume", token |-> t]]
          /\ mu' = r
          /\ UNCHANGED <<clock, up, disk, known, accepted>>
     ELSE Refuse(r)

Writing(r) == mu = r /\ op[r].pc \in {"issue", "consume"}

(* persistLocked succeeds at the rename; the call then unlocks and returns. *)
PersistOkUnwritten(r) == \* faulty: answers although nothing was renamed
  /\ Writing(r)
  /\ mu' = None
  /\ op' = [op EXCEPT ![r].pc = IF op[r].pc = "issue" THEN "granted" ELSE "consumed"]
  /\ UNCHANGED <<clock, up, data, disk, known, accepted>>

PersistOk(r) ==
  /\ Writing(r)
  /\ disk' = data
  /\ mu' = None
  /\ op' = [op EXCEPT ![r].pc = IF op[r].pc = "issue" THEN "granted" ELSE "consumed"]
  /\ UNCHANGED <<clock, up, data, known, accepted>>

(* persistLocked fails at or before the rename, and the caller undoes what   *)
(* it did to data.  A failing rand.Read has the same outcome.                *)
UndoneIssueOnly(r) == \* faulty: UsedAt is not reset
  IF op[r].pc = "issue" THEN [data EXCEPT ![op[r].token] = None] ELSE data

UndoneByDelete(r) == \* faulty: the entry goes, not the change
  [t \in Tokens \ {op[r].token} |-> data[t]]

Undone(r) ==
  IF op[r].pc = "issue"
  THEN [data EXCEPT ![op[r].token] = None]
  ELSE [data EXCEPT ![op[r].token] = MarkUsed(@, Zero)]

PersistFailsLocked(r) == \* faulty: an early return without the unlock
  /\ Writing(r)
  /\ data' = Undone(r)
  /\ op' = [op EXCEPT ![r] = [pc |-> "refused", token |-> None]]
  /\ UNCHANGED <<clock, up, mu, disk, known, accepted>>

PersistFails(r) ==
  /\ Writing(r)
  /\ data' = Undone(r)
  /\ mu' = None
  /\ op' = [op EXCEPT ![r] = [pc |-> "refused", token |-> None]]
  /\ UNCHANGED <<clock, up, disk, known, accepted>>

(* The caller has the answer: a new token is known, a consumption counts.    *)
Return(r) ==
  /\ op[r].pc \in {"granted", "consumed", "refused"}
  /\ op' = [op EXCEPT ![r] = Idle]
  /\ known' = IF op[r].pc = "granted" THEN known \cup {op[r].token} ELSE known
  /\ accepted' = IF op[r].pc = "consumed"
                 THEN [accepted EXCEPT ![op[r].token] = @ + 1] ELSE accepted
  /\ UNCHANGED <<clock, up, mu, data, disk>>

(* qcored dies: memory and every answer not yet delivered are lost.          *)
Crash ==
  /\ up
  /\ up' = FALSE
  /\ mu' = None
  /\ data' = [t \in Tokens |-> None]
  /\ op' = [r \in Requests |-> Idle]
  /\ UNCHANGED <<clock, disk, known, accepted>>

Stored(file) == {t \in Tokens : file[t] # None}

(* load: what it refuses to read keeps qcored down. *)
LoadAccepts(file) ==
  /\ Cardinality(Stored(file)) <= LoadLimit
  /\ \A t \in Stored(file) :
       "" \notin {file[t].planId, file[t].subject, file[t].session, file[t].action}

OpenEmpty == \* faulty: starts without reading the file
  /\ ~up
  /\ up' = TRUE
  /\ UNCHANGED <<clock, mu, data, disk, op, known, accepted>>

OpenGrantStore ==
  /\ ~up
  /\ LoadAccepts(disk)
  /\ up' = TRUE
  /\ data' = disk
  /\ UNCHANGED <<clock, mu, disk, op, known, accepted>>

Tick == clock' \in Times /\ UNCHANGED <<up, mu, data, disk, op, known, accepted>>

Init ==
  /\ clock \in Times
  /\ up = TRUE
  /\ mu = None
  /\ data = [t \in Tokens |-> None]
  /\ disk = [t \in Tokens |-> None]
  /\ op = [r \in Requests |-> Idle]
  /\ known = {}
  /\ accepted = [t \in Tokens |-> 0]

Next ==
  \/ \E r \in Requests :
       \/ \E p \in Plans, a \in Actors : Issue(r, p, a)
       \/ \E t \in known, p \in Plans, s \in ActorIds :
            Consume(r, t, p, s, p.action)
       \/ PersistOk(r)
       \/ PersistFails(r)
       \/ Return(r)
  \/ Crash
  \/ OpenGrantStore
  \/ Tick

(* A goroutine that runs goes on running: the write ends one way or the      *)
(* other and the call returns.  Nothing makes callers call.                  *)
Fairness == \A r \in Requests : /\ WF_vars(PersistOk(r) \/ PersistFails(r))
                                /\ WF_vars(Return(r))

Spec == Init /\ [][Next]_vars /\ Fairness

-----------------------------------------------------------------------------
(* Types: memory and file map every token to a grant or to none, whatever the*)
(* undo paths of Issue and Consume did.                                      *)
TypeOK ==
  /\ clock \in Times
  /\ up \in BOOLEAN
  /\ mu \in Requests \cup {None}
  /\ data \in [Tokens -> Grant \cup {None}]
  /\ disk \in [Tokens -> Grant \cup {None}]
  /\ op \in [Requests -> [pc : {"idle", "issue", "consume", "granted", "consumed", "refused"},
                          token : Tokens \cup {None}]]
  /\ known \in SUBSET Tokens
  /\ accepted \in [Tokens -> Nat]

Used(g) == g # None /\ g.usedAt # Zero

PlanKey(g) == <<g.planId, g.digest>>

(* Whenever no call is inside the store, memory and file agree: a failed     *)
(* write was undone completely, a successful one wrote everything (Issue     *)
(* lines 108-112, Consume lines 154-158, load line 206).                     *)
MemoryIsDisk == up /\ mu = None => data = disk

(* At most one Consume call per token ever returns success, over any         *)
(* interleaving, failed writes, crashes and clock steps (Consume 141).       *)
SingleUse == \A t \in Tokens : accepted[t] <= 1

(* Success is reported only for what the file already records as used, so a  *)
(* restart cannot make the token good again.                                 *)
AcceptedIsDurable ==
  /\ \A t \in Tokens : accepted[t] > 0 => Used(disk[t])
  /\ \A r \in Requests : op[r].pc = "consumed" => Used(disk[op[r].token])

(* One plan never gets two grants, in memory or in the file, used and        *)
(* expired grants included (Issue 80-84).                                    *)
Distinct(file) ==
  \A t, u \in Tokens : t # u /\ file[t] # None /\ file[u] # None =>
    PlanKey(file[t]) # PlanKey(file[u])

OneGrantPerPlan == Distinct(data) /\ Distinct(disk)

(* A grant is good for TTL at most and never past its plan, was approved by  *)
(* a human other than the plan's actor, and was used only while good.        *)
Sound(g) ==
  /\ g.expiresAt <= g.issuedAt + TTL
  /\ \A p \in Plans : SamePlan(g, p) /\ VerifyPlanDigest(p) => g.expiresAt <= p.expires
  /\ g.approver.kind = "human" /\ g.approver.id # g.subject
  /\ g.usedAt # Zero => g.usedAt < g.expiresAt

AllSound(file) == \A t \in Tokens : file[t] # None => Sound(file[t])

GrantWindow == AllSound(data) /\ AllSound(disk)

(* The file only moves forward: a grant is never dropped from it or changed  *)
(* but for being marked used, and that mark is never taken back.             *)
DiskMovesForward ==
  [][\A t \in Stored(disk) :
       \/ disk'[t] = disk[t]
       \/ ~Used(disk[t]) /\ disk'[t] = MarkUsed(disk[t], disk'[t].usedAt)]_vars

(* The lock is always given back: no path through Issue or Consume, failed   *)
(* writes included, keeps it.                                                *)
LockReleased == mu # None ~> mu = None

(* The store implements the abstract single-use grant, read off the file.    *)
AbstractOwner == [t \in Tokens |-> IF disk[t] = None THEN None ELSE PlanKey(disk[t])]

Abs == INSTANCE SingleUseGrant WITH
         PlanKeys <- {p.id : p \in Plans} \X {p.digest : p \in Plans},
         owner <- AbstractOwner, spent <- {t \in Tokens : Used(disk[t])}

ImplementsSingleUse == Abs!AbsSpec

=============================================================================
