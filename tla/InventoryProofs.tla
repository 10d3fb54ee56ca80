-------------------------- MODULE InventoryProofs --------------------------
(***************************************************************************)
(* Inventory, proved for any definitions, units and versions.  The         *)
(* classification is a function of the answers, so most of the work is     *)
(* about that function; the invariant says that every component was        *)
(* classified from answers the probes can give.                            *)
(***************************************************************************)
EXTENDS Inventory, FiniteSetTheorems, SequenceTheorems, TLAPS

(* Answers that scanDefinition may have collected, before or after the       *)
(* caller hung up.                                                           *)
Fits(kind, answer) ==
  \/ answer = Error
  \/ kind = "serviceGlob" /\ answer \subseteq Units
  \/ answer = {}
  \/ kind \in {"path", "marker", "glob"} /\ answer = {"present"}
  \/ kind = "unit" /\ answer \in {{"active"}, {"inactive"}}
  \/ kind \in {"versionFile", "command"} /\ \E v \in Versions : answer = {v}

Sensible(s) ==
  /\ \A p \in DOMAIN s : p.kind \in DOMAIN Rank /\ Fits(p.kind, s[p])
  /\ IsFiniteSet(versions(s))

(* A component is what Component makes of its answers.                       *)
Classified(c) ==
  /\ Sensible(c.answers)
  /\ c.ownership = Ownership(c.answers) /\ c.health = Health(c.answers)
  /\ c.version = Version(c.answers) /\ c.warned = Warned(c.answers)

(* The scan under way: one component for each definition behind it, none of  *)
(* them blinded by a hang-up.                                                *)
ScanInv ==
  /\ ctx \in {"live", "gone"} /\ at \in 0 .. Len(Definitions) /\ whole \in BOOLEAN
  /\ \E S : components \in Seq(S)
  /\ Sensible(seen)
  /\ \A i \in 1 .. Len(components) : Classified(components[i])
  /\ at # 0 => outcome = None
  /\ at # 0 /\ whole =>
       Len(components) = at - 1 /\ \A i \in 1 .. Len(components) : ~components[i].cut

IInv == ScanInv /\ SnapshotIsWhole

Kinds == {"path", "marker", "glob", "serviceGlob", "unit", "versionFile", "command"}
VersionKinds == {"versionFile", "command"}

-----------------------------------------------------------------------------
(* The probes scanDefinition knows.                                          *)
LEMMA RankDomain == DOMAIN Rank = Kinds
BY DEF Rank, Kinds

(* What an accumulator of scanDefinition holds was the answer to a probe...  *)
LEMMA FoundThere ==
  ASSUME NEW s, NEW K, NEW x \in Found(s, K)
  PROVE  \E p \in DOMAIN s : p.kind \in K /\ x \in s[p] /\ s[p] \notin {{}, Error}
<1>1. x # "error" /\ \E p \in Asked(s, K) : x \in s[p]
  BY DEF Found, Error
<1> QED BY <1>1 DEF Asked, Error

(* ... and an answer that is neither empty nor an error ends up in it.       *)
LEMMA FoundKept ==
  ASSUME NEW s, Sensible(s), NEW K, NEW p \in DOMAIN s, p.kind \in K,
         s[p] \notin {{}, Error}
  PROVE  s[p] \subseteq Found(s, K) /\ s[p] # {}
<1>1. Fits(p.kind, s[p])
  BY DEF Sensible
<1>2. "error" \notin s[p]
  BY <1>1, InventoryAssumption DEF Fits, Error
<1>3. p \in Asked(s, K)
  BY DEF Asked
<1> QED BY <1>2, <1>3 DEF Found, Error

(* No evidence at all means that no probe came back with something.          *)
LEMMA NothingFound ==
  ASSUME NEW s, Sensible(s), NEW K, Found(s, K) = {}, NEW p \in DOMAIN s, p.kind \in K
  PROVE  s[p] \in {{}, Error}
BY FoundKept

(* The branches of the ownership decision (scanDefinition 366-381).          *)
LEMMA OwnershipSays ==
  ASSUME NEW s
  PROVE  /\ Ownership(s) \in {"unknown", "disabled", "managed", "external"}
         /\ Ownership(s) = "managed" => managedMarker(s) /\ nonMarkerEvidence(s) # {}
         /\ Ownership(s) = "external" => ~managedMarker(s) /\ nonMarkerEvidence(s) # {}
         /\ Ownership(s) = "disabled" =>
              ~managedMarker(s) /\ nonMarkerEvidence(s) = {} /\ probeErrors(s) = {}
<1>1. CASE managedMarker(s) /\ nonMarkerEvidence(s) = {}
  BY <1>1 DEF Ownership
<1>2. CASE managedMarker(s) /\ nonMarkerEvidence(s) # {}
  BY <1>2 DEF Ownership
<1>3. CASE ~managedMarker(s) /\ nonMarkerEvidence(s) # {}
  BY <1>3 DEF Ownership
<1>4. CASE ~managedMarker(s) /\ nonMarkerEvidence(s) = {}
  BY <1>4 DEF Ownership
<1> QED BY <1>1, <1>2, <1>3, <1>4

(* The branches of the health decision (scanDefinition 383-391).             *)
LEMMA HealthSays ==
  ASSUME NEW s
  PROVE  /\ Health(s) = "healthy" => activeService(s)
         /\ Health(s) = "degraded" => inactiveService(s) /\ ~activeService(s)
<1>1. CASE Ownership(s) \in {"unknown", "disabled"}
  BY <1>1 DEF Health
<1>2. CASE Ownership(s) \notin {"unknown", "disabled"} /\ activeService(s)
  BY <1>2 DEF Health
<1>3. CASE Ownership(s) \notin {"unknown", "disabled"} /\ ~activeService(s) /\ inactiveService(s)
  BY <1>3 DEF Health
<1>4. CASE Ownership(s) \notin {"unknown", "disabled"} /\ ~activeService(s) /\ ~inactiveService(s)
  BY <1>4 DEF Health
<1> QED BY <1>1, <1>2, <1>3, <1>4

(* A marker was found, or anything else, exactly if a probe for it came back *)
(* with something.                                                           *)
LEMMA EvidenceIsFound ==
  ASSUME NEW s, Sensible(s)
  PROVE  /\ managedMarker(s) <=> \E p \in DOMAIN s : p.kind = "marker" /\ s[p] \notin {{}, Error}
         /\ nonMarkerEvidence(s) # {} <=>
              \E p \in DOMAIN s : p.kind \notin {"marker", "serviceGlob"} /\ s[p] \notin {{}, Error}
<1> DEFINE K == {"path", "glob", "unit", "versionFile", "command"}
<1>1. \A p \in DOMAIN s : p.kind \in Kinds
  BY RankDomain DEF Sensible
<1>2. ASSUME managedMarker(s) PROVE \E p \in DOMAIN s : p.kind = "marker" /\ s[p] \notin {{}, Error}
  <2>1. PICK x : x \in Found(s, {"marker"})
    BY <1>2 DEF managedMarker
  <2>2. \E p \in DOMAIN s : p.kind \in {"marker"} /\ x \in s[p] /\ s[p] \notin {{}, Error}
    BY <2>1, FoundThere
  <2> QED BY <2>2
<1>3. ASSUME NEW p \in DOMAIN s, p.kind = "marker", s[p] \notin {{}, Error} PROVE managedMarker(s)
  BY <1>3, NothingFound DEF managedMarker
<1>4. ASSUME nonMarkerEvidence(s) # {}
      PROVE  \E p \in DOMAIN s : p.kind \notin {"marker", "serviceGlob"} /\ s[p] \notin {{}, Error}
  <2>1. PICK x : x \in Found(s, K)
    BY <1>4 DEF nonMarkerEvidence
  <2>2. \E p \in DOMAIN s : p.kind \in K /\ x \in s[p] /\ s[p] \notin {{}, Error}
    BY <2>1, FoundThere
  <2> QED BY <2>2
<1>5. ASSUME NEW p \in DOMAIN s, p.kind \notin {"marker", "serviceGlob"}, s[p] \notin {{}, Error}
      PROVE  nonMarkerEvidence(s) # {}
  <2>1. p.kind \in K
    BY <1>1, <1>5 DEF Kinds
  <2> QED BY <1>5, <2>1, NothingFound DEF nonMarkerEvidence
<1> QED BY <1>2, <1>3, <1>4, <1>5

(* The failures that are counted are warned of (scanDefinition 375-395).     *)
LEMMA FailureWarned ==
  ASSUME NEW s, NEW p \in DOMAIN s, p.kind \in {"path", "marker", "unit", "versionFile"}, s[p] = Error
  PROVE  Warned(s) /\ probeErrors(s) # {}
<1>1. p \in probeErrors(s)
  BY DEF probeErrors, Asked
<1> QED BY <1>1 DEF Warned

(* Health speaks of units that were seen.                                    *)
LEMMA HealthEarned ==
  ASSUME NEW s, Sensible(s)
  PROVE  /\ Health(s) = "healthy" =>
              \E p \in DOMAIN s : p.kind = "unit" /\ s[p] = {"active"}
         /\ Health(s) = "degraded" =>
              /\ \E p \in DOMAIN s : p.kind = "unit" /\ s[p] = {"inactive"}
              /\ \A p \in DOMAIN s : p.kind = "unit" => s[p] # {"active"}
<1>1. ASSUME NEW x, x \in Found(s, {"unit"})
      PROVE  \E p \in DOMAIN s : p.kind = "unit" /\ s[p] = {x}
  <2>1. PICK p \in DOMAIN s : p.kind \in {"unit"} /\ x \in s[p] /\ s[p] \notin {{}, Error}
    BY <1>1, FoundThere
  <2>2. Fits(p.kind, s[p])
    BY DEF Sensible
  <2>3. s[p] \in {{"active"}, {"inactive"}}
    BY <2>1, <2>2 DEF Fits
  <2> QED BY <2>1, <2>3
<1>2. ASSUME NEW p \in DOMAIN s, p.kind = "unit", s[p] = {"active"}
      PROVE  "active" \in Found(s, {"unit"})
  <2>1. s[p] \notin {{}, Error}
    BY <1>2 DEF Error
  <2> QED BY <1>2, <2>1, FoundKept
<1>3. Health(s) = "healthy" => "active" \in Found(s, {"unit"})
  BY HealthSays DEF activeService
<1>4. Health(s) = "degraded" =>
        "inactive" \in Found(s, {"unit"}) /\ "active" \notin Found(s, {"unit"})
  BY HealthSays DEF activeService, inactiveService
<1> QED BY <1>1, <1>2, <1>3, <1>4

(* A version is reported when one was named only, by however many sources.   *)
LEMMA VersionEarned ==
  ASSUME NEW s, Sensible(s), Version(s) # None,
         NEW p \in DOMAIN s, p.kind \in VersionKinds
  PROVE  s[p] \in {{}, Error, {Version(s)}}
<1>1. Cardinality(versions(s)) = 1
  BY DEF Version
<1>2. IsFiniteSet(versions(s))
  BY DEF Sensible
<1>3. PICK v : versions(s) = {v}
  BY <1>1, <1>2, FS_Singleton
<1>4. Version(s) = v
  BY <1>1, <1>3 DEF Version
<1>5. CASE s[p] \in {{}, Error}
  BY <1>5
<1>6. CASE s[p] \notin {{}, Error}
  <2>1. s[p] \subseteq versions(s) /\ s[p] # {}
    BY <1>6, FoundKept DEF versions, VersionKinds
  <2> QED BY <2>1, <1>3, <1>4
<1> QED BY <1>5, <1>6

-----------------------------------------------------------------------------
(* A scan starts with no answers.                                            *)
LEMMA EmptySensible == Sensible(Empty)
<1>1. DOMAIN Empty = {}
  BY DEF Empty
<1>2. versions(Empty) = {}
  BY <1>1, FoundThere DEF versions
<1> QED BY <1>1, <1>2, FS_EmptySet DEF Sensible

(* The Observer's answers fit the question, with a live context or without.  *)
LEMMA AnswersFit ==
  ASSUME NEW kind \in Kinds, NEW answer \in Answers(kind)
  PROVE  Fits(kind, answer)
<1>1. CASE kind \in {"path", "marker", "glob"}
  BY <1>1 DEF Answers, Fits
<1>2. CASE kind = "serviceGlob"
  BY <1>2 DEF Answers, Fits
<1>3. CASE kind = "unit"
  BY <1>3 DEF Answers, Fits
<1>4. CASE kind = "versionFile"
  BY <1>4 DEF Answers, Fits
<1>5. CASE kind = "command"
  BY <1>5 DEF Answers, Fits
<1> QED BY <1>1, <1>2, <1>3, <1>4, <1>5 DEF Kinds

(* One more answer.                                                          *)
LEMMA MoreSensible ==
  ASSUME NEW s, Sensible(s), NEW p, p \notin DOMAIN s, p.kind \in Kinds,
         NEW answer, Fits(p.kind, answer)
  PROVE  Sensible([q \in DOMAIN s \cup {p} |-> IF q = p THEN answer ELSE s[q]])
<1> DEFINE t == [q \in DOMAIN s \cup {p} |-> IF q = p THEN answer ELSE s[q]]
           extra == IF p.kind \in VersionKinds THEN answer ELSE {}
<1>1. /\ DOMAIN t = DOMAIN s \cup {p} /\ t[p] = answer
      /\ \A q \in DOMAIN s : t[q] = s[q]
  OBVIOUS
<1>2. \A q \in DOMAIN t : q.kind \in DOMAIN Rank /\ Fits(q.kind, t[q])
  BY <1>1, RankDomain DEF Sensible
<1>3. IsFiniteSet(extra)
  <2>1. CASE p.kind \notin VersionKinds
    BY <2>1, FS_EmptySet
  <2>2. CASE p.kind \in VersionKinds
    <3>1. answer = {} \/ \E v : answer = {v}
      BY <2>2 DEF Fits, VersionKinds, Error
    <3> QED BY <2>2, <3>1, FS_EmptySet, FS_Singleton
  <2> QED BY <2>1, <2>2
<1> HIDE DEF t
<1>4. versions(t) \subseteq versions(s) \cup extra
  <2> SUFFICES ASSUME NEW x \in versions(t), x \notin extra PROVE x \in versions(s)
    OBVIOUS
  <2>1. x # "error" /\ \E q \in DOMAIN t : q.kind \in VersionKinds /\ x \in t[q]
    BY DEF versions, Found, Asked, Error, VersionKinds
  <2>2. PICK q \in DOMAIN t : q.kind \in VersionKinds /\ x \in t[q]
    BY <2>1
  <2>3. q \in DOMAIN s /\ x \in s[q]
    BY <1>1, <2>2
  <2> QED BY <2>1, <2>2, <2>3 DEF versions, Found, Asked, Error, VersionKinds
<1> HIDE DEF extra
<1>5. IsFiniteSet(versions(s) \cup extra)
  BY <1>3, FS_Union DEF Sensible
<1>6. IsFiniteSet(versions(t))
  BY <1>4, <1>5, FS_Subset
<1>7. Sensible(t)
  BY <1>2, <1>6 DEF Sensible
<1> QED BY <1>7 DEF t

(* The probes of a definition, those its globs brought up too.               *)
LEMMA ProbeKinds ==
  ASSUME NEW i \in 1 .. Len(Definitions), NEW s, NEW p \in Todo(i, s)
  PROVE  p \notin DOMAIN s /\ p.kind \in Kinds
<1>1. p \notin DOMAIN s /\ p \in Probes(i, s)
  BY DEF Todo
<1>2. CASE p \in Definitions[i]
  <2>1. Definitions[i] \subseteq [kind : DOMAIN Rank, at : STRING]
    BY InventoryAssumption
  <2> QED BY <1>1, <1>2, <2>1, RankDomain
<1>3. CASE p \notin Definitions[i]
  BY <1>1, <1>3 DEF Probes, Kinds
<1> QED BY <1>2, <1>3

-----------------------------------------------------------------------------
(* Nothing is scanned before the first request.                              *)
LEMMA InventoryInit == Init => IInv
<1> SUFFICES ASSUME Init PROVE IInv
  OBVIOUS
<1> USE DEF Init
<1>1. components \in Seq({}) /\ Len(components) = 0
  OBVIOUS
<1>2. Len(Definitions) \in Nat
  BY InventoryAssumption
<1>3. outcome # "delivered"
  BY InventoryAssumption
<1>4. \E S : components \in Seq(S)
  BY <1>1
<1>5. Sensible(seen)
  BY EmptySensible
<1>6. at = 0 /\ at \in 0 .. Len(Definitions)
  BY <1>2
<1>7. ctx \in {"live", "gone"} /\ whole \in BOOLEAN
  OBVIOUS
<1>8. \A i \in 1 .. Len(components) : Classified(components[i])
  BY <1>1
<1> QED BY <1>3, <1>4, <1>5, <1>6, <1>7, <1>8 DEF IInv, ScanInv, SnapshotIsWhole

(* A request finds no scan under way and starts from nothing.                *)
LEMMA BeginKeeps ==
  ASSUME IInv, NEW i \in DOMAIN Definitions, NEW snapshot \in BOOLEAN, Begin(i, snapshot)
  PROVE  IInv'
<1> USE DEF Begin
<1>1. components' \in Seq({}) /\ Len(components') = 0
  OBVIOUS
<1>2. i \in 1 .. Len(Definitions)
  BY InventoryAssumption
<1>3. outcome' # "delivered"
  BY InventoryAssumption
<1>4. Sensible(seen)'
  BY EmptySensible DEF Sensible, versions, Found, Asked, Fits
<1>5. at' # 0 /\ whole' => Len(components') = at' - 1
  BY <1>1, <1>2
<1>6. at' \in 0 .. Len(Definitions) /\ ctx' \in {"live", "gone"} /\ whole' \in BOOLEAN
  BY <1>2
<1> QED BY <1>1, <1>3, <1>4, <1>5, <1>6 DEF IInv, ScanInv, SnapshotIsWhole

(* A probe adds an answer that fits, whatever the context.                   *)
LEMMA ProbeKeeps ==
  ASSUME IInv, at # 0, NEW p \in Todo(at, seen), NEW answer \in Answers(p.kind), Probe(p, answer)
  PROVE  IInv'
<1>1. at \in 1 .. Len(Definitions)
  BY DEF IInv, ScanInv
<1>2. p \notin DOMAIN seen /\ p.kind \in Kinds
  BY <1>1, ProbeKinds
<1>3. Fits(p.kind, answer)
  BY <1>2, AnswersFit
<1>4. Sensible(seen) /\ seen' = [q \in DOMAIN seen \cup {p} |-> IF q = p THEN answer ELSE seen[q]]
  BY DEF IInv, ScanInv, Probe
<1>5. Sensible(seen')
  BY <1>2, <1>3, <1>4, MoreSensible
<1>6. UNCHANGED <<ctx, at, whole, components, outcome>>
  BY DEF Probe
<1> QED BY <1>5, <1>6 DEF IInv, ScanInv, SnapshotIsWhole, Classified

(* The component is what the answers make of it; a Snapshot goes on only     *)
(* with a live context, and then none of its components was blinded.         *)
LEMMA ClassifyKeeps == ASSUME IInv, Classify PROVE IInv'
<1> DEFINE c == Component(seen)
<1>1. at \in 1 .. Len(Definitions) /\ Len(Definitions) \in Nat
  BY InventoryAssumption DEF IInv, ScanInv, Classify
<1>2. Classified(c) /\ c.cut = (ctx = "gone")
  BY DEF Classified, Component, IInv, ScanInv
<1>3. PICK S : components \in Seq(S)
  BY DEF IInv, ScanInv
<1>4. components' = Append(components, c)
  BY DEF Classify
<1> HIDE DEF c
<1>5. /\ components' \in Seq(S \cup {c}) /\ Len(components') = Len(components) + 1
      /\ \A i \in 1 .. Len(components) : components'[i] = components[i]
      /\ components'[Len(components) + 1] = c /\ Len(components) \in Nat
  <2>1. components \in Seq(S \cup {c})
    BY <1>3
  <2> QED BY <1>4, <2>1
<1>6. \A i \in 1 .. Len(components') : Classified(components'[i])
  BY <1>2, <1>5 DEF IInv, ScanInv
<1>7. \E T : components' \in Seq(T)
  BY <1>5
<1>8. Sensible(seen')
  BY EmptySensible DEF Classify
<1>9. UNCHANGED <<ctx, whole>> /\ ctx \in {"live", "gone"} /\ whole \in BOOLEAN
  BY DEF Classify, IInv, ScanInv
<1>10. outcome # "delivered" /\ "failed" # "delivered"
  BY <1>1, InventoryAssumption DEF IInv, ScanInv
<1>11. whole => /\ Len(components) = at - 1
                /\ \A i \in 1 .. Len(components) : ~components[i].cut
  BY <1>1 DEF IInv, ScanInv
<1>12. CASE whole /\ at < Len(Definitions) /\ ctx = "live"
  <2>1. at' = at + 1 /\ outcome' = outcome
    BY <1>12 DEF Classify
  <2>2. ~c.cut
    BY <1>12, <1>2
  <2>3. \A i \in 1 .. Len(components') : ~components'[i].cut
    BY <1>5, <1>11, <1>12, <2>2
  <2>4. Len(components') = at' - 1 /\ at' \in 0 .. Len(Definitions)
    BY <1>1, <1>5, <1>11, <1>12, <2>1
  <2>5. outcome' = None
    BY <2>1, <1>1 DEF IInv, ScanInv
  <2>6. ScanInv'
    BY <1>6, <1>7, <1>8, <1>9, <2>3, <2>4, <2>5 DEF ScanInv, Classified
  <2> QED BY <2>1, <2>6, <1>10 DEF IInv, SnapshotIsWhole
<1>13. CASE whole /\ at < Len(Definitions) /\ ctx # "live"
  <2>1. at' = 0 /\ outcome' = "failed"
    BY <1>13 DEF Classify
  <2>2. at' \in 0 .. Len(Definitions)
    BY <1>1, <2>1
  <2>3. ScanInv'
    BY <1>6, <1>7, <1>8, <1>9, <2>1, <2>2 DEF ScanInv, Classified
  <2> QED BY <2>1, <2>3, <1>10 DEF IInv, SnapshotIsWhole
<1>14. CASE ~(whole /\ at < Len(Definitions))
  <2>1. at' = 0 /\ outcome' = "delivered"
    BY <1>14 DEF Classify
  <2>2. at' \in 0 .. Len(Definitions)
    BY <1>1, <2>1
  <2>3. ScanInv'
    BY <1>6, <1>7, <1>8, <1>9, <2>1, <2>2 DEF ScanInv, Classified
  <2>4. ASSUME whole PROVE Len(components') = Len(Definitions)
    <3>1. at = Len(Definitions)
      BY <1>1, <1>14, <2>4
    <3> QED BY <1>1, <1>5, <1>11, <2>4, <3>1
  <2>5. ASSUME whole PROVE \A i \in 1 .. Len(components') - 1 : ~components'[i].cut
    BY <1>5, <1>11, <2>5
  <2> QED BY <1>9, <2>3, <2>4, <2>5 DEF IInv, SnapshotIsWhole
<1> QED BY <1>12, <1>13, <1>14

(* The hang-up touches the context only.                                     *)
LEMMA CancelKeeps == ASSUME IInv, Cancel PROVE IInv'
<1>1. UNCHANGED <<at, whole, seen, components, outcome>> /\ ctx' = "gone"
  BY DEF Cancel
<1> QED BY <1>1 DEF IInv, ScanInv, SnapshotIsWhole, Classified

-----------------------------------------------------------------------------
(* Every component was classified from answers its probes can give, and a    *)
(* Snapshot under way has one component, scanned with a live context, for    *)
(* each definition behind it (Snapshot, scanDefinition).                     *)
THEOREM InventoryInvariance == Spec => []IInv
<1>1. IInv /\ [Next]_vars => IInv'
  <2> SUFFICES ASSUME IInv, [Next]_vars PROVE IInv'
    OBVIOUS
  <2>1. ASSUME NEW i \in DOMAIN Definitions, NEW snapshot \in BOOLEAN, Begin(i, snapshot)
        PROVE  IInv'
    BY <2>1, BeginKeeps
  <2>2. ASSUME at # 0, NEW p \in Todo(at, seen), NEW answer \in Answers(p.kind), Probe(p, answer)
        PROVE  IInv'
    BY <2>2, ProbeKeeps
  <2>3. CASE Classify
    BY <2>3, ClassifyKeeps
  <2>4. CASE Cancel
    BY <2>4, CancelKeeps
  <2>5. CASE UNCHANGED vars
    BY <2>5 DEF vars, IInv, ScanInv, SnapshotIsWhole, Classified
  <2> QED BY <2>1, <2>2, <2>3, <2>4, <2>5 DEF Next
<1> QED BY <1>1, InventoryInit, PTL DEF Spec

(* A Snapshot is delivered with a component for every definition, and a      *)
(* hang-up has blinded the scan of the last one at most, for any number of   *)
(* definitions (Snapshot 213-219).                                           *)
THEOREM SnapshotIsWholeHolds == Spec => []SnapshotIsWhole
<1>1. IInv => SnapshotIsWhole
  BY DEF IInv
<1> QED BY <1>1, InventoryInvariance, PTL

(* What is delivered was classified.                                         *)
LEMMA DeliveredClassified == ASSUME IInv, NEW c \in Delivered PROVE Classified(c)
<1>1. PICK i \in DOMAIN components : c = components[i]
  BY DEF Delivered
<1>2. DOMAIN components = 1 .. Len(components)
  BY DEF IInv, ScanInv
<1> QED BY <1>1, <1>2 DEF IInv, ScanInv

(* Ownership goes by what was found and by the failures that are counted,    *)
(* for any definitions and any answers (scanDefinition 366-395).  Failing    *)
(* commands and unreadable globs are not among those.                        *)
THEOREM OwnershipIsBackedHolds == Spec => []OwnershipIsBacked
<1>1. IInv => OwnershipIsBacked
  <2> SUFFICES ASSUME IInv, NEW c \in Delivered
               PROVE  LET marked == \E p \in FoundIn(c) : p.kind = "marker"
                          other  == \E p \in FoundIn(c) : p.kind # "marker"
                      IN /\ c.ownership = "managed" => marked /\ other
                         /\ c.ownership = "external" => ~marked /\ other
                         /\ c.ownership = "disabled" => ~marked /\ ~other /\ CountedIn(c) = {}
                         /\ CountedIn(c) # {} => c.warned
    BY DEF OwnershipIsBacked
  <2>1. Sensible(c.answers) /\ c.ownership = Ownership(c.answers) /\ c.warned = Warned(c.answers)
    BY DeliveredClassified DEF Classified
  <2> DEFINE s == c.answers
             marked == \E p \in FoundIn(c) : p.kind = "marker"
             other  == \E p \in FoundIn(c) : p.kind # "marker"
  <2>2. (managedMarker(s) <=> marked) /\ (nonMarkerEvidence(s) # {} <=> other)
    BY <2>1, EvidenceIsFound DEF FoundIn
  <2>3. CountedIn(c) # {} => Warned(s) /\ probeErrors(s) # {}
    BY FailureWarned DEF CountedIn, FailedIn
  <2> HIDE DEF marked, other
  <2> QED BY <2>1, <2>2, <2>3, OwnershipSays DEF marked, other
<1> QED BY <1>1, InventoryInvariance, PTL

(* Health and version are what was seen, for any definitions, units and      *)
(* versions (scanDefinition 314-318, 359-364, 383-391).                      *)
THEOREM OnlyWhatWasSeenHolds == Spec => []OnlyWhatWasSeen
<1>1. IInv => OnlyWhatWasSeen
  <2> SUFFICES ASSUME IInv, NEW c \in Delivered
               PROVE  LET units == {c.answers[p] : p \in {q \in DOMAIN c.answers : q.kind = "unit"}}
                      IN /\ c.health = "healthy" => {"active"} \in units
                         /\ c.health = "degraded" =>
                              {"inactive"} \in units /\ {"active"} \notin units
                         /\ c.version # None =>
                              \A p \in DOMAIN c.answers :
                                p.kind \in {"versionFile", "command"} =>
                                  c.answers[p] \in {{}, Error, {c.version}}
    BY DEF OnlyWhatWasSeen
  <2>1. Sensible(c.answers) /\ c.health = Health(c.answers) /\ c.version = Version(c.answers)
    BY DeliveredClassified DEF Classified
  <2> DEFINE s == c.answers
             units == {s[p] : p \in {q \in DOMAIN s : q.kind = "unit"}}
  <2>2. ASSUME c.health = "healthy" PROVE {"active"} \in units
    BY <2>1, <2>2, HealthEarned
  <2>3. ASSUME c.health = "degraded" PROVE {"inactive"} \in units /\ {"active"} \notin units
    BY <2>1, <2>3, HealthEarned
  <2>4. ASSUME c.version # None, NEW p \in DOMAIN s, p.kind \in {"versionFile", "command"}
        PROVE  s[p] \in {{}, Error, {c.version}}
    BY <2>1, <2>4, VersionEarned DEF VersionKinds
  <2> QED BY <2>2, <2>3, <2>4
<1> QED BY <1>1, InventoryInvariance, PTL

=============================================================================
