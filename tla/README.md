# Quantum Control in TLA+

A verification development for Quantum Control: the public service
`quantum-control`, which plans administrative operations and keeps the audit
trail, and the privileged broker `qcored`, which holds the confirmation grants
and runs the approved service mutations. The modules model the part of the
program that keeps state and in which order, failure and restarts matter: from
a plan, through a human's single-use confirmation, to a systemd transaction and
its audit records.

Paths are relative to the repository; `src/` is its root.

## 1. Inventory

| Component | State | Operations | Interacts with | Hard behaviour | What makes it correct |
|---|---|---|---|---|---|
| Grant store (`internal/security/grants.go`) | grants in memory, one JSON file, a mutex | `OpenGrantStore`/`load`, `Issue`, `Consume`, `persistLocked` | called by qcored's handlers | concurrent calls, failing writes, crash between write and answer, clock steps | a token is accepted once, durably; one grant per plan; memory equals file |
| Plans (`internal/security/plan.go`) | volatile plan cache | `Build`, `PlanDigest`, `Put`, `Get` | control server | expiry, loss on restart | a plan is what was signed |
| Approval endpoints (`internal/broker/server.go`, `approval.go`, `mutations.go` 107-217) | none of their own | `handleConfirm`, `handleExecuteApproved`, `ValidateApprovedPlan`, `ExecuteApproved` | grant store, registry, client | values read before the lock and used after it; restart with another policy | an approved plan runs at most once and with full authority |
| Service transaction (`mutations.go` 219-334, `internal/servicecontrol`) | local variables, a context | observe, apply, wait, recover | systemctl, health URL | deadlines, hang-ups, two transactions on one unit, a unit that changes by itself | success was seen and stands until somebody else moves the unit; at most one step back; it ends |
| Audit store (`internal/security/audit.go`) | records, head hash, append-only file | `Append`, `loadAndVerify`, `Query`, `Integrity` | control server | torn writes, failing sync, restart, JSON round trip | acknowledged records stay; the chain holds |
| Control server (`internal/control`) | plan cache | plan, confirmation, approved execution, read-only routes | broker client, audit store | lost, late and malformed answers, restart while waiting, failing audit | the trail precedes the action and tells the truth |
| Unix listener (`internal/broker/listener.go`, `cmd/qcored`) | a path in the file system | `ListenUnix`, `Close` | other runs of qcored | check and act by path, crash leftovers | the serving qcored is at the path |
| Broker client (`internal/broker/client.go`) | none | `do` | Unix socket | timeouts, transport errors | unknown is reported as unknown |
| Service policy (`internal/servicecontrol/policy.go`) | none after start | `LoadPolicy` | registry | change over a restart | narrows, never broadens |
| Catalog and validation (`internal/broker/registry.go`) | none after start | `validate`, `Plan`, `Execute` | handlers | - | only listed actions and parameters |
| Actors (`internal/security/auth.go`) | the credentials, fixed at start | `LoadActorRegistry`, `normalizeActor`, `AuthenticateBearer` | both services, each with its own copy | the two copies may be of different files | a TCI never confirms or mutates; approver and planner are two |
| Configuration (`internal/config`) | fixed at start | `Validate` | both services | a listener others reach without credentials | nobody is served anonymously from outside |
| Inventory (`internal/inventory`) | local variables of a scan | `Snapshot`, `Component`, `scanDefinition` | the machine, through an observer | any probe may fail, the machine changes between two of them, the caller hangs up | what is reported was seen; gaps are told |
| System probe (`internal/systemprobe`) | none | `ServiceStatus`, `Snapshot` | systemctl | - | - |
| Protocol types, HTTP plumbing, packaging | none | - | - | - | - |

The hazards these behaviours carry are listed, each at its line, in
`PROJECT.json` under `hazards`, with the properties that watch over them.

## 2. Modules

| Module | Models | State and actions |
|---|---|---|
| `SingleUseGrant` | abstract promise of the grant store | `owner`, `spent`, `accepted`; issue, spend, accept |
| `GrantStore` | `grants.go`, plan digest | `data` = `s.data`, `disk` = the file, `mu` = `s.mu`, `op[r]` = where call `r` is. `Issue`/`Consume` take the lock, decide and change memory; `PersistOk`/`PersistFails` are the two ends of `persistLocked` with what the caller does next; `Return` delivers the answer; `Crash`, `OpenGrantStore`, `Tick` |
| `ApprovalBroker` | the two approval handlers; extends `GrantStore` | `req[r]` = the request in hand, `policy` = the loaded units, `ran` = transactions started (history). `Arrive` validates, `CallStore` calls the store, `StoreReturned` takes its answer, `ExecuteApproved` validates again and starts the transaction |
| `ServiceTransaction` | `runServiceTransaction` and below | `state[u]` = ActiveState, `ctx[x]` = the transaction's context, `tx[x]` its variables, `calls[x]` the systemctl verbs started, `mover[u]` who moved the unit last (history) |
| `AuditStore` | `audit.go` | `lines` = the file, each line the pieces written on it; `open` = last line without newline; `records`, `last` = memory |
| `ControlServer` | the three mutating routes, the plan cache, the client; qcored abstract | `cache`, `audit`, `h[r]` = handler, `call[r]` = the call as qcored sees it, `grant`, `ran`. An answer is an operation response (`ExecuteAnswered`), a bare problem (`ExecuteProblem`) or none (`ExecuteLost`) |
| `ListenUnix` | `ListenUnix`, `Close`, the end of `serve` | `path`, `pc[p]`: one action per system call; `Operator` clears the path or puts a file there at any time, but leaves the socket of a running qcored alone |
| `ActorRegistry` | `auth.go` | constant operators: `Normalizes` = what `normalizeActor` lets through, `Loads` = the files that load, `AuthenticateBearer` = the actor a token stands for |
| `ActorAccess` | the doors of both services; extends `ActorRegistry` | `qc`, `qd` = what each service read at its start; `plan`, `grant` = the plan being followed; `ran` = the operation run last (history). `StartControl` and `StartQcored` read any environment and actor file; `HandleExecute`, `HandleStatus`, `HandlePlan`, `HandleConfirm`, `HandleApproved` are the routes with both services' checks |
| `Inventory` | `inventory.go` | `seen` = the answers to the probes asked so far, `components` = what was classified; `Probe` asks one question and takes any answer, `Classify` ends a definition, `Cancel` is the hang-up |
| `MCGrantStore`, `MCApprovalBroker`, `MCActorAccess`, `MCInventory` | instances for TLC | plans, actors, actor files, definitions |
| `GrantStoreProofs`, `ApprovalBrokerProofs`, `ServiceTransactionProofs`, `AuditStoreProofs`, `ControlServerProofs`, `ListenUnixProofs`, `ActorAccessProofs`, `InventoryProofs` | TLAPS proofs about the module each is named for | - |

How they compose: `ApprovalBroker` extends `GrantStore` and uses its actions as
the bodies of its calls; the property `UsesStoreProperly`, checked and proved, says
that it adds no step to the store, so what is proved of the store holds in the
broker. What
`ControlServer` assumes of qcored (a plan is granted once, its grant used up for
good, and only then a transaction started) is what `ApprovalBroker` establishes:
both implement `SingleUseGrant`; the start and end of a transaction, which
`ApprovalBroker` leaves opaque, are the subject of `ServiceTransaction`; the
set `audit` of `ControlServer` is the file `AuditStore` keeps. `ActorAccess`
says where the actors come from which `ApprovalBroker` takes as inputs, and
composes the two services' checks, which read different copies of the actor file.

### Abstractions

* A token stands for its SHA-256; a digest or entry hash for the tuple it
  hashes (collisions are not modelled). Letter case of digests is not modelled.
* A plan record keeps the fields some decision reads. `confirmable` stands for
  the schema, `valid` and `requires_confirmation` together.
* Time in `GrantStore` is a small set of wall-clock instants that may step
  either way; 0 is Go's zero time.
* Taking the mutex, deciding and changing memory is one step, since nothing of
  it can be seen before the write; the write, its failure and the answer are
  steps of their own. A request turned away before it reaches the store changes
  nothing and is not a step.
* An audit record's fields are one `text` of a class: plain; with U+FFFD in it; cut
  inside a UTF-8 character; exactly at, or beyond the line limit. Encoding and decoding are
  modelled by what Go's `encoding/json` does to these.
* systemd is external: a successful start or restart leaves the unit active; a
  successful stop leaves it inactive or failed, and a failed unit failed; a
  failing verb may have done nothing, everything, left the unit failed, or still
  be under way; a running service may exit, crash, restart or reload by itself.
  `changing` stands for the ActiveStates the code tells from none of `active`,
  `inactive` and `failed` (activating, deactivating, reloading).
* In `ControlServer` the record of a confirmation and its reply are one step, and
  the reply may or may not reach the client.
* `validate` trims an action's name where `ExecuteApproved` looks it up as it is
  (`registry.go` 136, `mutations.go` 198). Only a plan made by hand tells them
  apart, so names have no surrounding blanks here.
* A token's SHA-256 is the token, a digest that does not decode or is all zero
  a placeholder. Environment values that are tested one by one (paths, lengths,
  ranges) are one flag `sound`; what depends on two of them is modelled.
* A probe of the inventory answers with the set of what it found, nothing, or
  `error` where the machine did not answer. Whether the code gets to know is
  another matter: `probeErrors` counts the errors of paths, markers, units and
  version files; `filepath.Glob` hides its own, and a failing version command is
  skipped. Names, categories, capabilities and the order of lists are left out.
* A crash is the end of a process. A power failure that takes back the rename
  of the grant file, whose directory is not synced, is not modelled.
* A definition marked *faulty* is a plausible slip in the definition after it.
  No action uses one; `PROJECT.json` pairs it with the property that catches it.

## 3. Runs

| Run | Result | Shows |
|---|---|---|
| `grant_store` | passes, 33 k states | type; memory = file when the lock is free; single use; acceptance is durable; one grant per plan; grant window; the file only moves forward; the lock is released; implements `SingleUseGrant` |
| `approval_broker` | passes, 24 k | a plan runs at most once; every transaction had an approver, an executor, a live plan and an allowed unit behind it; what was written loads again, size apart; only store operations touch the store; requests end |
| `service_transaction` | passes, 828 k | `completed` was seen after the verb; one step back at most and in the right direction; `recovery_status` is true; a report stands until another transaction or the service itself moves the unit; transactions end |
| `service_recovery` | **violated** | `FailureIsRecovered`: a transaction that timed out waiting has no context left to recover with |
| `audit_store` | passes, 482 k | the chain holds in memory; acknowledged records survive, but for one behind an object without newline; what is written verifies, but for two kinds of record |
| `control_server` | passes, 70 k | trail before action; results are true; one result per attempt; no transaction without a result on record; what is assumed of qcored implements `SingleUseGrant`; an attempt gets its result, unless quantum-control dies or qcored could not read the request |
| `control_audit_loss` | **violated** | `TrailBeforeAction` once an append may fail |
| `listen_unix` | passes, 1.3 k | serving means reachable; leftovers never block a start |
| `listen_overlap` | **violated** | `RemovesOnlyStale`: with two qcored at once, one removes the socket the other has just begun to listen on |
| `actor_access` | passes, 238 k | a TCI reads and proposes only; nobody is served anonymously on a reachable listener; no mutation without a grant, and approver and planner are two credentials where both services hold the same file |
| `inventory` | passes, 200 k | ownership is backed by what was found and by the failures that are counted; health and version were seen; a snapshot is whole |
| `inventory_optimistic` | **violated** | `NeverOptimistic`: a failing version command, or a directory a glob cannot read, lets a component pass for disabled |

Each violated run states what the repository itself says (a document, a comment
or a test, quoted under `findings`) and what the code does instead.

Four more departures of the code from what the repository says have no run of
their own. The first three are written into properties of passing runs, which say
exactly when they happen and that nothing else of the kind does:

* A write that ends between a record and its newline lets the next record land on
  the same line. Append acknowledges it, and `loadAndVerify`, which decodes one
  value a line (`audit.go` 161-163), never sees it again, although
  `docs/AUDIT.md:40` has startup never truncate history silently. This is `Hidden`
  in `AckedSurvive`: without it the invariant fails in two appends and a restart.
* A value truncated inside a UTF-8 character (`audit.go` 258, 278) is hashed as the
  escape `\ufffd` and read back as U+FFFD, which is hashed as its three bytes; and a
  line of exactly `maxAuditLineBytes` is accepted by Append (75) and too long for
  the scanner (150), which has to hold the newline too. quantum-control then
  refuses to start on a file only it has written; the test at
  `internal/security/security_test.go:254` asks that what is appended can be opened
  again. These are the two texts `WrittenIsReadable` names.
* qcored answers a request it cannot decode, an envelope over its own body limit
  for one, with 400 and a bare problem (`broker/server.go` 183-196). The client
  takes it for an operation response (`client.go` 77), its empty status makes
  Append refuse the result (`audit.go` 63-65), and the attempt stays without one
  while quantum-control runs on, although `docs/SECURITY-CONTRACTS.md:152-153` has
  final results recorded. This is the exception `AttemptIsSettled` names;
  `NoSilentTransaction` says that nothing was run then.
* A file put in the place of a stale socket after the test for a socket is removed
  (`listener.go` 33), although the comment at 15-16 says that a regular file is
  never replaced. The model has it, and no property speaks of it.

### Bounds and why they are enough

* `GrantStore`: two requests and two tokens give every pair of concurrent calls
  and a second grant to confuse with the first; five plans cover a good one, one
  its only approver proposed, one altered under its old digest, one altered and
  signed anew, one without session. Four instants with TTL 2 and plans ending at
  3 and 4 let a grant be cut off by its plan, expire before it, and be used in
  between. `LoadLimit` is not exceeded here.
* `ApprovalBroker`: two requests suffice for a race and for a retry after a
  crash; two instants let a plan expire between two readings of the clock.
* `ServiceTransaction`: two transactions on the same unit, every action, every
  initial state; one more unit that is not allowed. Two suffice for one to undo
  what the other waits for or has reported.
* `AuditStore`: four appends over four starts, every class of text and every
  fault; the damage cases need three appends and two starts. Counters are capped,
  hence no deadlock check.
* `ControlServer`: three requests for one plan, so a confirmation and two
  executions, or the reverse, in any order; plans do not influence each other
  but for the purge of expired ones.
  All requests used up is the end, where only a restart may follow.
* `ListenUnix`: three runs, so a leftover may itself be left over; each run is
  started once, hence no deadlock check. `Overlap = FALSE`: systemd runs one
  qcored at a time. `listen_overlap` lets two run at once, which is what the test
  for a listener in `ListenUnix` is there for.
* `ActorAccess`: eight files (four that load, of which one renames a holder, one
  makes the TCI's token a human approver's and one gives a token to two actors,
  and four that do not) and six environments;
  three tokens, so that planner, approver and executor may all differ. One plan
  at a time, as plans do not interact here.
* `Inventory`: two definitions, so that a snapshot may be cut between them; one
  has a path, a marker and a unit, the other a glob, a service glob, a unit and
  two version sources, which together have every kind of probe; a second unit,
  which the service glob may bring up, and two versions, for disagreement.

### Fairness

Weak fairness is assumed of a goroutine that is running (a write ends one way or
the other, a call returns, a handler goes on) and of timers (`Deadline`; the HTTP
client's timeout, as the always possible `ExecuteLost` and `ConfirmFailed`).
`ApprovalBroker` has strong fairness for taking the store's lock: Go's
`sync.Mutex` hands the lock to the longest waiter in starvation mode. Nothing is
assumed of callers, of systemd, of the health endpoint, of polls ever seeing
what they wait for, or of qcored answering.

## 4. Proofs

Every safety invariant, action property and refinement of a passing run is also a
theorem, for every value of the constants. Each proof module has one inductive
invariant, a lemma or step per action that keeps it, and theorems that draw the
properties from it; each of these invariants was model-checked on the instance
of its run first. Some theorems have a hypothesis about what may go wrong; without
it the property fails, as the last column shows.

| Theorem | Hypothesis | Without it |
|---|---|---|
| `TrailBeforeActionHolds`, `OneResultHolds`, `NoSilentTransactionHolds` | no append to the audit file fails | `control_audit_loss` |
| those of `ListenUnixProofs` | one qcored at a time, as systemd runs it | a qcored loses its path, as in `listen_overlap` |

**`GrantStoreProofs`** holds for every set of plans, actors, tokens and requests,
every TTL and every clock bound (`GrantAssumption`: these are positive naturals,
plan expiries are naturals, and `None` is none of the values it must differ
from). It proves all the invariants of the run `grant_store`, the action property
`DiskMovesForward`, and `Refinement`: the store implements `SingleUseGrant`.
The inductive invariant `Inv` adds three parts to the properties. Single use is
not inductive by itself, because between the write and the answer a consumption
is neither counted nor undone. `LockInv` says that exactly the holder of the
lock is inside a write and that a stopped qcored has nobody inside. `DataInv`
says that memory differs from the file by the holder's own change and nothing
else, which makes undoing restore the file's contents and makes a restart
harmless. `AcceptInv` says that a consumption about to be reported is on file,
has not been counted yet and is the only one of its token. For the refinement,
only `PersistOk` changes what the mapping sees of the file (`DiskStep`), and it
is an abstract issue or spend; `Return` is an abstract acceptance.

**`ApprovalBrokerProofs`** holds for every set of plans, actors, tokens and
requests and for every policy a restart may load. It reuses the store's `Inv`:
`StoreStep` shows that each step of the endpoints is a step of the store or does
not touch it. `BrokerInv` adds what a request has behind it while it waits:
`InFlight` ties each request to its call, so that the grant the call is marking
(in memory before the write, in the file after it) is one for the request's own
plan, though the request was checked before the lock was taken. `Behind` says the
same of every transaction started, and `TokensApart` that no token is behind two
of them or behind one and about to start another; `AtMostOnce` then follows from
`OneGrantPerPlan` of the store. That none of this is lost later needs three facts
about the store, which are lemmas: a grant in the file keeps its plan
(`GrantsStay`), an acceptance stays one (`AcceptedStays`), and only `Issue` brings
a new grant into memory (`OnlyIssueMakesGrants`), which carries `WrittenLoads`
through undone writes and restarts. Proved are `BrokerTypeOK`, `AtMostOnce`,
`Authorised`, `WrittenLoads`, `UsesStoreProperly`, and `BrokerRefinement`: the
endpoints as a whole still implement `SingleUseGrant`.

**`ServiceTransactionProofs`** holds for any number of transactions and units,
any policy and any units with a health URL. `TxInv` ties, for each transaction,
the step it is at and the outcome it reports to the exact sequence of systemctl
verbs it has started (`UnderWay`, `Ended`). None of the properties is inductive
alone: that a recovery is told truly depends on what was run two steps earlier.
The one subtle part is a transaction that fails without having started its verb:
its context is gone by then (exec starts nothing), and so it will not step back
either. `OneAtOnce` reduces every step to the one transaction that takes it,
which is why transactions may share a unit without a lock. `ReportStands` is the
property in which they meet: `ToldOk` says of a transaction that has told of its
unit that it has ended and that, as long as it was the last to move the unit, the
unit is as told; a step of another transaction or of systemd either leaves the
unit or takes it over (`ToldByOther`, `SystemctlTakesUnit`). Proved are `TypeOK`,
`CompletedWasSeen`, `OneStepBack`, `RecoveryToldTruly` and `ReportStands`.

**`AuditStoreProofs`** holds for any number of appends and starts, any texts and
any faults. `SInv` (memory is a chain, the file a sequence of lines none of which
is empty) gives `MemoryIsChain` and `TypeOK` (which no run checks apart).
The set of pieces a file is made of is only said to exist, as hashes nest.
`AckedSurvive` is not inductive: after a crash an acknowledged record is only in
the file. `AInv` says that every acknowledged record is somewhere in the file, in
which nothing is ever overwritten (`FileKeeps`), and that while the store is open
it is in memory or stands behind a whole object on its line; a start that
succeeds has met no torn object, so that a record that heads its line is read
(`OpenReads`). `RInv`, for `WrittenIsReadable`, says that until a write fails each
line is the one record Append made, hashed over the text that stands there, and
that memory and file end in the same record; `SoundIsAccepted` says which of
these lines `loadAndVerify` accepts.

**`ControlServerProofs`** holds for any plans and requests. `CInv` says for each
call what qcored has done for it (`CallInv`), for each transaction which call
brought it and that its grant is used (`RanInv`), and for each record in the
trail the state it was written from (`RecordInv`); `NothingTakenBack` says that
no step takes such a state back, so a record once true stays true. It needs no
hypothesis on the audit file and gives `TypeOK` and `ResultsAreTrue`. `Trail` says
which records must be there; it is inductive only if no append fails, and with
`CInv` it gives `TrailBeforeAction` and `OneResult`. `NoSilentTransactionHolds`
adds that a request that is over has its result on record unless qcored could not
read it, and that qcored runs nothing for a request it could not read.
`QcoredSingleUseHolds` is the
link to the other side: the qcored assumed here implements `SingleUseGrant`
(confirm, consume and execute are issue, spend and accept), as the detailed one
does by `BrokerRefinement`. A plan may expire, or the policy refuse it, after its
grant was consumed; such a grant is spent and never accepted in either.

**`InventoryProofs`** holds for every sequence of definitions, any units and
versions. The classification is a function of the answers, and the lemmas
`EvidenceIsFound`, `FailureWarned`, `HealthEarned` and `VersionEarned` say what it
may be for answers the probes can give (`Sensible`); the assumption that no unit
or version is the word for a failure is used there. `IInv` says that every
component was classified from such answers, and that a snapshot under way has one
component for each definition behind it, all of them scanned before the caller
hung up. The first part gives `OwnershipIsBacked`, which speaks of the failures
the code counts, and `OnlyWhatWasSeen`, the second `SnapshotIsWhole`. What
README.md says of every failure, `NeverOptimistic`, does not hold and is not proved.

**`ListenUnixProofs`** holds for any number of runs of qcored one after the other
(the theorems assume `Overlap = FALSE`). `ListenInv` says that at most one run is
under way and what it finds at the path at each of its steps; in particular the
path it removes or binds is not its own yet and not another live one's. Proved are
`ServingIsReachable` and `OnlyAFileRefuses`, with an operator at the path at any time.

**`ActorAccessProofs`** holds for every set of tokens, actor files, environments
and requests. `AccessInv` says of each service that its credentials come from a
file that loads and an environment that validates, whichever that was and
whenever it was read, and of the plan and the grant that the names on them are
what these files make of the tokens behind them. `TciStaysOut` rests on
`TciRolesGrantLittle` (what the roles open to a TCI grant), and `FourEyes` on
`DoorsAgree`: with one file, the first entry with the token's digest answers in
both services alike, the API token coming after the file (`FileComesFirst`).

Only model-checked: the liveness properties (`LockReleased`, `EveryRequestEnds`,
`EveryTransactionEnds`, `AttemptIsSettled`), as liveness under fairness is outside
what the prover does; and what the violated runs refute.

## 5. Not modelled

* Reading without effect: the catalog, the audit queries, `Integrity`, info and
  readiness, and the host snapshot of the system probe. Nothing depends on them.
* The syntax of actor, policy and environment files. What a file may say is an
  input of the models, one that cannot be read included.
* HTTP headers, logging and signals, and the size limits of quantum-control's own
  routes: what they turn away changes no state. A request that qcored's limit or
  decoder turns away is modelled (`BrokerProblem`), as quantum-control takes the
  answer for an operation response without a status.
* A power failure that takes back the rename of the grant file.
* Packaging and deployment.

## 6. Plan

Done: grant store with its abstraction, approval endpoints, service transaction,
audit store, control server, listener, actors and both services' doors, component
inventory; all safety properties of the passing runs proved.

Next, in this order:

1. A full composition of `ControlServer` with `ApprovalBroker`, in which the calls
   of the one are the requests of the other; so far both implement one abstract
   grant.
2. What remains true where a hypothesis of section 4 fails: of a trail with
   failing appends, and of several qcored at one path.
3. Power failure in `GrantStore`: a rename that is not yet durable.
