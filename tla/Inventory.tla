----------------------------- MODULE Inventory -----------------------------
(***************************************************************************)
(* The read-only component inventory (inventory.Service): Snapshot goes    *)
(* through the component definitions one by one, Component scans a single  *)
(* one; scanDefinition asks the machine one question after the other and   *)
(* then classifies what it learned.  The machine may change between two    *)
(* questions, any of them may fail, and the caller may hang up: from then  *)
(* on every command fails, but the scan is only given up between two       *)
(* definitions.                                                            *)
(*                                                                         *)
(* A definition is a set of probes [kind, at], and the answer to a probe   *)
(* is the set of what it found: nothing, or "error" where the machine did  *)
(* not answer, whether or not scanDefinition gets to know.  The number of  *)
(* matches of a glob, names, categories, capabilities and the order of     *)
(* lists are left out.                                                     *)
(***************************************************************************)
EXTENDS Naturals, Sequences, FiniteSets

CONSTANTS
  Definitions,  \* the component definitions, a sequence of sets of probes
  Units,        \* the units a service glob may bring up
  Versions,     \* what cleanVersion may make of an answer, besides nothing
  None

VARIABLES
  ctx,         \* the request's context: "live" or "gone"
  at,          \* the definition being scanned, 0 when no scan is under way
  whole,       \* whether the scan is a Snapshot
  seen,        \* the answers so far: a function on the probes asked
  components,  \* the components classified so far
  outcome      \* how the last scan ended

vars == <<ctx, at, whole, seen, components, outcome>>

(* The order in which a definition's probes are asked.                       *)
Rank == [path |-> 1, marker |-> 2, glob |-> 3, serviceGlob |-> 4, unit |-> 5,
         versionFile |-> 6, command |-> 7]

ASSUME InventoryAssumption ==
  /\ Definitions \in Seq(SUBSET [kind : DOMAIN Rank, at : STRING])
  /\ \A i \in DOMAIN Definitions : \A p \in Definitions[i] : p.kind # "unit" => p.at \notin Units
  /\ {None, "error"} \cap (Versions \cup Units) = {}
  /\ None \notin {"delivered", "failed"}

(***************************************************************************)
(* The Observer.  Commands and systemctl run under the context.  A version *)
(* file is looked up and then read, and may be gone or unreadable by then. *)
(* A command that is not installed has nothing to say; one that fails has  *)
(* not answered.                                                           *)
(***************************************************************************)
Error == {"error"}

Answers(kind) ==
  CASE kind \in {"path", "marker", "glob"} -> {{}, {"present"}, Error}
    [] kind = "serviceGlob" -> (SUBSET Units) \cup {Error}
    [] kind = "unit" -> {Error} \cup IF ctx = "live" THEN {{}, {"active"}, {"inactive"}} ELSE {}
    [] kind = "versionFile" -> {{}, Error} \cup {{v} : v \in Versions}
    [] kind = "command" -> {{}, Error} \cup IF ctx = "live" THEN {{v} : v \in Versions} ELSE {}

(***************************************************************************)
(* scanDefinition's accumulators, as functions of the answers.             *)
(***************************************************************************)
Asked(s, kinds) == {p \in DOMAIN s : p.kind \in kinds}
Found(s, kinds) == (UNION {s[p] : p \in Asked(s, kinds)}) \ Error

(* The definition's units and the ones its service globs brought up.         *)
Probes(i, s) == Definitions[i] \cup {[kind |-> "unit", at |-> u] : u \in Found(s, {"serviceGlob"})}
Todo(i, s) == Probes(i, s) \ DOMAIN s

versions(s) == Found(s, {"versionFile", "command"})

nonMarkerEvidence(s) == Found(s, {"path", "glob", "unit", "versionFile", "command"})

managedMarker(s) == Found(s, {"marker"}) # {}

(* filepath.Glob passes over what it cannot read and reports no error, and   *)
(* a version command that fails is skipped: neither is counted.              *)
probeErrorsOfPaths(s) == \* faulty: forgets systemctl and the files
  {p \in Asked(s, {"path", "marker"}) : s[p] = Error}

probeErrors(s) == {p \in Asked(s, {"path", "marker", "unit", "versionFile"}) : s[p] = Error}

activeService(s)   == "active" \in Found(s, {"unit"})
inactiveService(s) == "inactive" \in Found(s, {"unit"})

Ownership(s) ==
  CASE managedMarker(s) /\ nonMarkerEvidence(s) = {} -> "unknown"
    [] managedMarker(s) /\ nonMarkerEvidence(s) # {} -> "managed"
    [] ~managedMarker(s) /\ nonMarkerEvidence(s) # {} -> "external"
    [] OTHER -> IF probeErrors(s) # {} THEN "unknown" ELSE "disabled"

HealthByDefault(s) == \* faulty: a component no unit of which was seen is fine
  IF Ownership(s) \in {"unknown", "disabled"} THEN Ownership(s)
  ELSE IF inactiveService(s) /\ ~activeService(s) THEN "degraded"
  ELSE "healthy"

Health(s) ==
  IF Ownership(s) \in {"unknown", "disabled"} THEN Ownership(s)
  ELSE IF activeService(s) THEN "healthy"
  ELSE IF inactiveService(s) THEN "degraded"
  ELSE "unknown"

Version(s) == IF Cardinality(versions(s)) = 1 THEN CHOOSE v \in versions(s) : TRUE ELSE None

(* Warnings say that something is missing or withheld.                       *)
Warned(s) ==
  \/ Cardinality(versions(s)) > 1
  \/ managedMarker(s) /\ nonMarkerEvidence(s) = {}
  \/ probeErrors(s) # {}

(* answers and cut, whether the context was gone by then, are history.       *)
Component(s) ==
  [ownership |-> Ownership(s), health |-> Health(s), version |-> Version(s),
   warned |-> Warned(s), answers |-> s, cut |-> ctx = "gone"]

(***************************************************************************)
(* Requests.                                                               *)
(***************************************************************************)
Empty == [p \in {} |-> None]

(* GET /v1/components/{id}, and GET /v1/components from the first one on.    *)
Begin(i, snapshot) ==
  /\ at = 0
  /\ snapshot => i = 1
  /\ at' = i /\ whole' = snapshot
  /\ ctx' = "live" /\ seen' = Empty /\ components' = <<>> /\ outcome' = None

Probe(p, answer) ==
  /\ at # 0
  /\ p \in Todo(at, seen) /\ \A q \in Todo(at, seen) : Rank[p.kind] <= Rank[q.kind]
  /\ answer \in Answers(p.kind)
  /\ seen' = [q \in DOMAIN seen \cup {p} |-> IF q = p THEN answer ELSE seen[q]]
  /\ UNCHANGED <<ctx, at, whole, components, outcome>>

(* The component is classified; a Snapshot goes on to the next definition,   *)
(* whose scan begins by looking at the context.                              *)
ClassifyRegardless == \* faulty: never looks at the context again
  /\ at # 0 /\ Todo(at, seen) = {}
  /\ components' = Append(components, Component(seen))
  /\ seen' = Empty
  /\ IF whole /\ at < Len(Definitions) THEN at' = at + 1 /\ UNCHANGED outcome
     ELSE at' = 0 /\ outcome' = "delivered"
  /\ UNCHANGED <<ctx, whole>>

Classify ==
  /\ at # 0 /\ Todo(at, seen) = {}
  /\ components' = Append(components, Component(seen))
  /\ seen' = Empty
  /\ IF whole /\ at < Len(Definitions)
     THEN IF ctx = "live" THEN at' = at + 1 /\ UNCHANGED outcome
          ELSE at' = 0 /\ outcome' = "failed"
     ELSE at' = 0 /\ outcome' = "delivered"
  /\ UNCHANGED <<ctx, whole>>

(* The caller hangs up.                                                      *)
Cancel ==
  /\ at # 0 /\ ctx = "live"
  /\ ctx' = "gone"
  /\ UNCHANGED <<at, whole, seen, components, outcome>>

Init ==
  /\ ctx = "live" /\ at = 0 /\ whole = FALSE /\ seen = Empty
  /\ components = <<>> /\ outcome = None

Next ==
  \/ \E i \in DOMAIN Definitions, snapshot \in BOOLEAN : Begin(i, snapshot)
  \/ at # 0 /\ \E p \in Todo(at, seen) : \E answer \in Answers(p.kind) : Probe(p, answer)
  \/ Classify
  \/ Cancel

Spec == Init /\ [][Next]_vars

-----------------------------------------------------------------------------
Delivered == IF outcome = "delivered" THEN {components[i] : i \in DOMAIN components} ELSE {}

FoundIn(c)   == {p \in DOMAIN c.answers : p.kind # "serviceGlob" /\ c.answers[p] \notin {{}, Error}}
FailedIn(c)  == {p \in DOMAIN c.answers : c.answers[p] = Error}
CountedIn(c) == {p \in FailedIn(c) : p.kind \in {"path", "marker", "unit", "versionFile"}}

(* Ownership goes by the evidence, and the failures that are counted weigh   *)
(* in: "managed" stands for a marker and something else found, "external"    *)
(* for something found and no marker, "disabled" for nothing found and no    *)
(* counted failure, and a counted failure is warned of (scanDefinition       *)
(* 366-395).  It speaks of paths, markers, units and version files; a glob   *)
(* or a command that failed is not counted, which NeverOptimistic is about.  *)
OwnershipIsBacked ==
  \A c \in Delivered :
    LET marked == \E p \in FoundIn(c) : p.kind = "marker"
        other  == \E p \in FoundIn(c) : p.kind # "marker"
    IN /\ c.ownership = "managed" => marked /\ other
       /\ c.ownership = "external" => ~marked /\ other
       /\ c.ownership = "disabled" => ~marked /\ ~other /\ CountedIn(c) = {}
       /\ CountedIn(c) # {} => c.warned

(* As README.md has it: inaccessible evidence becomes "unknown", never an    *)
(* optimistic "disabled" - a component is "disabled" only if every probe     *)
(* was answered.                                                             *)
NeverOptimistic == \A c \in Delivered : c.ownership = "disabled" => FailedIn(c) = {}

(* Health and version are what was seen: "healthy" needs a unit seen active, *)
(* "degraded" a unit seen and none active, and a version is reported only if *)
(* all sources that named one agree (314-318, 359-364, 383-391).             *)
OnlyWhatWasSeen ==
  \A c \in Delivered :
    LET units == {c.answers[p] : p \in {q \in DOMAIN c.answers : q.kind = "unit"}}
    IN /\ c.health = "healthy" => {"active"} \in units
       /\ c.health = "degraded" => {"inactive"} \in units /\ {"active"} \notin units
       /\ c.version # None =>
            \A p \in DOMAIN c.answers :
              p.kind \in {"versionFile", "command"} => c.answers[p] \in {{}, Error, {c.version}}

(* A Snapshot is delivered whole, and a caller's hang-up has blinded the     *)
(* scan of its last component at most (Snapshot 213-219).                    *)
SnapshotIsWhole ==
  outcome = "delivered" /\ whole =>
    /\ Len(components) = Len(Definitions)
    /\ \A i \in 1 .. Len(components) - 1 : ~components[i].cut

=============================================================================
