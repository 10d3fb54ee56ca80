-------------------------- MODULE GrantStoreProofs --------------------------
(* Proofs about GrantStore, for any plans, actors, tokens, requests, TTL and *)
(* clock bound.                                                              *)
EXTENDS GrantStore, TLAPS

(* Who holds the lock, and what a stopped qcored leaves behind.              *)
LockInv ==
  /\ \A r \in Requests : op[r].pc \in {"issue", "consume"} <=> mu = r
  /\ \A r \in Requests : op[r].pc \in {"issue", "consume", "granted", "consumed"}
                           => op[r].token \in Tokens
  /\ ~up => mu = None /\ \A r \in Requests : op[r] = Idle

(* Memory differs from the file by the lock holder's own change and no more. *)
DataInv ==
  /\ up /\ mu = None => data = disk
  /\ \A r \in Requests : op[r].pc = "issue" =>
       /\ disk[op[r].token] = None
       /\ data[op[r].token] # None
       /\ data[op[r].token].usedAt = Zero
       /\ \A t \in Tokens : t # op[r].token => data[t] = disk[t]
  /\ \A r \in Requests : op[r].pc = "consume" =>
       /\ disk[op[r].token] # None
       /\ disk[op[r].token].usedAt = Zero
       /\ data[op[r].token] # None
       /\ data[op[r].token].usedAt # Zero
       /\ data[op[r].token] = MarkUsed(disk[op[r].token], data[op[r].token].usedAt)
       /\ \A t \in Tokens : t # op[r].token => data[t] = disk[t]

(* A consumption reported, or about to be, is the only one of its token, and *)
(* the file records it.                                                      *)
AcceptInv ==
  /\ \A t \in Tokens : accepted[t] \in {0, 1}
  /\ \A t \in Tokens : accepted[t] = 1 => Used(disk[t])
  /\ \A r \in Requests : op[r].pc = "consumed" =>
       /\ Used(disk[op[r].token])
       /\ accepted[op[r].token] = 0
       /\ \A q \in Requests : op[q].pc = "consumed" /\ op[q].token = op[r].token => q = r

Inv == TypeOK /\ LockInv /\ DataInv /\ AcceptInv /\ OneGrantPerPlan /\ GrantWindow

(***************************************************************************)
(* Facts about the grants the store makes and marks.                       *)
(***************************************************************************)

(* NewGrant (Issue 92-107) builds a grant of the type, unused and sound.      *)
LEMMA NewGrantSound ==
  ASSUME NEW p \in Plans, NEW a \in Actors, clock \in Times, IssueAllowed(p, a)
  PROVE  /\ NewGrant(p, a) \in Grant
         /\ NewGrant(p, a) # None
         /\ NewGrant(p, a).usedAt = Zero
         /\ Sound(NewGrant(p, a))
         /\ PlanKey(NewGrant(p, a)) = <<p.id, p.digest>>
<1> DEFINE g == NewGrant(p, a)
<1>0. p.expires \in Nat /\ TTL \in Nat /\ clock \in Nat /\ clock \in Times
  BY GrantAssumption DEF Times
<1>1. GrantExpiry(p) \in Int /\ GrantExpiry(p) <= clock + TTL /\ GrantExpiry(p) <= p.expires
  BY <1>0 DEF GrantExpiry
<1>2. g \in Grant
  BY <1>0, <1>1 DEF NewGrant, Grant
<1>3. g # None
  BY <1>2, GrantAssumption
<1>4. \A q \in Plans : SamePlan(g, q) /\ VerifyPlanDigest(q) => g.expiresAt <= q.expires
  <2> SUFFICES ASSUME NEW q \in Plans, SamePlan(g, q), VerifyPlanDigest(q)
               PROVE  g.expiresAt <= q.expires
    OBVIOUS
  <2>1. PlanDigest(p) = PlanDigest(q)
    BY DEF IssueAllowed, VerifyPlanDigest, SamePlan, NewGrant
  <2>2. p.expires = q.expires
    BY <2>1 DEF PlanDigest
  <2> QED BY <2>2, <1>1 DEF NewGrant
<1>5. Sound(g)
  BY <1>1, <1>4 DEF Sound, NewGrant, IssueAllowed, MayConfirm
<1> QED BY <1>2, <1>3, <1>5 DEF NewGrant, PlanKey

(* Marking a usable grant used keeps it sound (Consume 141-154).              *)
LEMMA MarkUsedSound ==
  ASSUME NEW g \in Grant, clock \in Times, Usable(g), Sound(g)
  PROVE  LET h == MarkUsed(g, clock) IN
         /\ h \in Grant /\ h # None /\ h.usedAt = clock /\ clock # Zero
         /\ Sound(h) /\ PlanKey(h) = PlanKey(g)
<1> DEFINE h == MarkUsed(g, clock)
<1>1. h \in Grant /\ h.usedAt = clock /\ clock # Zero
  BY DEF Grant, Times, Zero, MarkUsed
<1>2. h # None
  BY <1>1, GrantAssumption
<1>3. /\ h.planId = g.planId /\ h.digest = g.digest /\ h.expiresAt = g.expiresAt
      /\ h.issuedAt = g.issuedAt /\ h.approver = g.approver /\ h.subject = g.subject
  BY DEF MarkUsed
<1>4. clock < g.expiresAt
  BY DEF Usable, Grant, Times
<1>5. Sound(h)
  BY <1>1, <1>3, <1>4 DEF Sound, SamePlan
<1> QED BY <1>1, <1>2, <1>3, <1>5 DEF PlanKey

-----------------------------------------------------------------------------
(***************************************************************************)
(* The invariant is inductive.                                             *)
(***************************************************************************)

(* An empty store with nobody in it (OpenGrantStore on no file) satisfies it. *)
LEMMA InitInv == Init => Inv
<1> SUFFICES ASSUME Init PROVE Inv
  OBVIOUS
<1>1. TypeOK
  BY GrantAssumption DEF Init, TypeOK, Idle
<1>2. LockInv /\ DataInv /\ AcceptInv
  BY GrantAssumption DEF Init, LockInv, DataInv, AcceptInv, Idle
<1>3. OneGrantPerPlan /\ GrantWindow
  BY DEF Init, OneGrantPerPlan, Distinct, GrantWindow, AllSound
<1> QED BY <1>1, <1>2, <1>3 DEF Inv

(* A refused call changes only where its request is.                          *)
LEMMA RefuseInv ==
  ASSUME Inv, NEW r \in Requests, Lock(r), Refuse(r)
  PROVE  Inv'
<1> USE DEF Inv, Lock, Refuse, Idle
<1>1. TypeOK'
  BY DEF TypeOK
<1>2. LockInv'
  BY GrantAssumption DEF LockInv, TypeOK
<1>3. DataInv'
  BY DEF DataInv, TypeOK
<1>4. AcceptInv'
  BY DEF AcceptInv, TypeOK, Used
<1>5. OneGrantPerPlan' /\ GrantWindow'
  BY DEF OneGrantPerPlan, Distinct, GrantWindow, AllSound, Sound
<1> QED BY <1>1, <1>2, <1>3, <1>4, <1>5

(* Issue (57-107), refused or up to its write, keeps it.                      *)
LEMMA IssueInv ==
  ASSUME Inv, NEW r \in Requests, NEW p \in Plans, NEW a \in Actors, Issue(r, p, a)
  PROVE  Inv'
<1>1. CASE ~IssueAllowed(p, a)
  BY <1>1, RefuseInv DEF Issue
<1>2. CASE IssueAllowed(p, a)
  <2>1. PICK t \in Tokens :
          /\ data[t] = None
          /\ data' = [data EXCEPT ![t] = NewGrant(p, a)]
          /\ op' = [op EXCEPT ![r] = [pc |-> "issue", token |-> t]]
          /\ mu' = r
          /\ UNCHANGED <<clock, up, disk, known, accepted>>
    BY <1>2 DEF Issue
  <2>2. up /\ mu = None /\ op[r] = Idle /\ data = disk
    BY DEF Issue, Lock, Inv, DataInv
  <2>3. /\ NewGrant(p, a) \in Grant /\ NewGrant(p, a) # None
        /\ NewGrant(p, a).usedAt = Zero /\ Sound(NewGrant(p, a))
        /\ PlanKey(NewGrant(p, a)) = <<p.id, p.digest>>
    BY <1>2, NewGrantSound DEF Inv, TypeOK
  <2>d. DEFINE g == NewGrant(p, a)
  <2>4. TypeOK'
    BY <2>1, <2>3 DEF Inv, TypeOK
  <2> HIDE DEF g
  <2>5. LockInv'
    BY <2>1, <2>2, GrantAssumption DEF Inv, LockInv, TypeOK, Idle
  <2>6. DataInv'
    <3>1. data'[t] = g /\ \A u \in Tokens : u # t => data'[u] = disk'[u]
      BY <2>1, <2>2 DEF Inv, TypeOK, g
    <3>2. \A q \in Requests : q # r => op'[q].pc \notin {"issue", "consume"}
      BY <2>1, <2>2, GrantAssumption DEF Inv, LockInv, TypeOK
    <3>3. op'[r].pc = "issue" /\ op'[r].token = t
      BY <2>1 DEF Inv, TypeOK
    <3>4. disk'[t] = None
      BY <2>1, <2>2
    <3>5. mu' # None
      BY <2>1, GrantAssumption
    <3> QED BY <3>1, <3>2, <3>3, <3>4, <3>5, <2>3 DEF DataInv, g
  <2>7. AcceptInv'
    BY <2>1, <2>2 DEF Inv, AcceptInv, TypeOK, Idle, Used
  <2>8. OneGrantPerPlan'
    <3>1. \A u \in Tokens : u # t /\ data[u] # None => PlanKey(data[u]) # <<p.id, p.digest>>
      BY <1>2 DEF IssueAllowed, HasGrant, SamePlan, PlanKey
    <3>2. data'[t] = g /\ \A u \in Tokens : u # t => data'[u] = data[u]
      BY <2>1 DEF Inv, TypeOK, g
    <3>3. PlanKey(g) = <<p.id, p.digest>>
      BY <2>3 DEF g
    <3>4. Distinct(data)' 
      BY <3>1, <3>2, <3>3 DEF Inv, OneGrantPerPlan, Distinct
    <3>5. Distinct(disk)'
      BY <2>1 DEF Inv, OneGrantPerPlan, Distinct
    <3> QED BY <3>4, <3>5 DEF OneGrantPerPlan
  <2>9. GrantWindow'
    <3>1. data'[t] = g /\ \A u \in Tokens : u # t => data'[u] = data[u]
      BY <2>1 DEF Inv, TypeOK, g
    <3>2. Sound(g)
      BY <2>3 DEF g
    <3> QED BY <3>1, <3>2, <2>1 DEF Inv, GrantWindow, AllSound
  <2> QED BY <2>4, <2>5, <2>6, <2>7, <2>8, <2>9 DEF Inv
<1> QED BY <1>1, <1>2

(* Consume (116-154), refused or up to its write, keeps it.                   *)
LEMMA ConsumeInv ==
  ASSUME Inv, NEW r \in Requests, NEW t \in Tokens, NEW p \in Plans,
         NEW s, NEW act, Consume(r, t, p, s, act)
  PROVE  Inv'
<1>1. CASE ~ConsumeAllowed(t, p, s, act)
  BY <1>1, RefuseInv DEF Consume
<1>2. CASE ConsumeAllowed(t, p, s, act)
  <2> DEFINE h == MarkUsed(data[t], clock)
  <2>1. /\ data' = [data EXCEPT ![t] = h]
        /\ op' = [op EXCEPT ![r] = [pc |-> "consume", token |-> t]]
        /\ mu' = r
        /\ UNCHANGED <<clock, up, disk, known, accepted>>
    BY <1>2 DEF Consume
  <2>2. up /\ mu = None /\ op[r] = Idle /\ data = disk
    BY DEF Consume, Lock, Inv, DataInv
  <2>3. data[t] \in Grant /\ data[t] # None /\ data[t].usedAt = Zero /\ Usable(data[t])
    BY <1>2 DEF ConsumeAllowed, Usable, Inv, TypeOK
  <2>4. Sound(data[t]) /\ clock \in Times
    BY <2>3 DEF Inv, GrantWindow, AllSound, TypeOK
  <2>5. /\ h \in Grant /\ h # None /\ h.usedAt = clock /\ clock # Zero
        /\ Sound(h) /\ PlanKey(h) = PlanKey(data[t])
    BY <2>3, <2>4, MarkUsedSound
  <2>h. h = MarkUsed(disk[t], h.usedAt)
    BY <2>2, <2>5
  <2> HIDE DEF h
  <2>6. data'[t] = h /\ \A u \in Tokens : u # t => data'[u] = data[u]
    BY <2>1 DEF Inv, TypeOK
  <2>7. TypeOK'
    BY <2>1, <2>5 DEF Inv, TypeOK
  <2>8. LockInv'
    BY <2>1, <2>2, GrantAssumption DEF Inv, LockInv, TypeOK, Idle
  <2>9. DataInv'
    <3>1. \A q \in Requests : q # r => op'[q].pc \notin {"issue", "consume"}
      BY <2>1, <2>2, GrantAssumption DEF Inv, LockInv, TypeOK
    <3>2. op'[r].pc = "consume" /\ op'[r].token = t
      BY <2>1 DEF Inv, TypeOK
    <3>3. mu' # None
      BY <2>1, GrantAssumption
    <3> QED BY <3>1, <3>2, <3>3, <2>1, <2>2, <2>3, <2>5, <2>6, <2>h DEF DataInv
  <2>10. AcceptInv'
    BY <2>1, <2>2 DEF Inv, AcceptInv, TypeOK, Idle, Used
  <2>11. OneGrantPerPlan'
    <3>1. Distinct(data)'
      BY <2>3, <2>5, <2>6 DEF Inv, OneGrantPerPlan, Distinct
    <3>2. Distinct(disk)'
      BY <2>1 DEF Inv, OneGrantPerPlan, Distinct
    <3> QED BY <3>1, <3>2 DEF OneGrantPerPlan
  <2>12. GrantWindow'
    BY <2>1, <2>5, <2>6 DEF Inv, GrantWindow, AllSound
  <2> QED BY <2>7, <2>8, <2>9, <2>10, <2>11, <2>12 DEF Inv
<1> QED BY <1>1, <1>2

(* The write goes through: an issue or a consumption becomes durable.         *)
LEMMA PersistOkInv ==
  ASSUME Inv, NEW r \in Requests, PersistOk(r)
  PROVE  Inv'
<1>1. /\ op[r].pc \in {"issue", "consume"} /\ op[r].token \in Tokens
      /\ \A q \in Requests : q # r => op[q].pc \notin {"issue", "consume"}
      /\ up
  BY GrantAssumption DEF PersistOk, Writing, Inv, LockInv
<1>2. /\ op'[r].pc = (IF op[r].pc = "issue" THEN "granted" ELSE "consumed")
      /\ op'[r].token = op[r].token
      /\ \A q \in Requests : q # r => op'[q] = op[q]
  BY DEF PersistOk, Inv, TypeOK
<1>3. TypeOK'
  BY <1>1 DEF PersistOk, Inv, TypeOK
<1>4. LockInv'
  BY <1>1, <1>2, GrantAssumption DEF PersistOk, Inv, LockInv
<1>5. DataInv'
  BY <1>1, <1>2 DEF PersistOk, DataInv
<1>6. AcceptInv'
  <2>0. UNCHANGED <<data, accepted>> /\ disk' = data
    BY DEF PersistOk
  <2>1. \A t \in Tokens : Used(disk[t]) => Used(disk'[t])
    BY <1>1, <2>0 DEF Inv, DataInv, Used
  <2>2. op[r].pc = "consume" => ~Used(disk[op[r].token]) /\ Used(disk'[op[r].token])
    BY <1>1, <2>0 DEF Inv, DataInv, Used
  <2>3. op[r].pc = "consume" => accepted[op[r].token] = 0
    BY <1>1, <2>2 DEF Inv, AcceptInv
  <2>4. \A q \in Requests : op[q].pc = "consumed" /\ op[r].pc = "consume" => op[q].token # op[r].token
    BY <2>2 DEF Inv, AcceptInv
  <2>5. \A q \in Requests : op'[q].pc = "consumed" => op'[q].token \in Tokens
    BY <1>4 DEF LockInv
  <2>6. \A q \in Requests : op'[q].pc = "consumed" =>
          /\ Used(disk'[op'[q].token])
          /\ accepted'[op'[q].token] = 0
    BY <1>1, <1>2, <2>0, <2>1, <2>2, <2>3, <2>5 DEF Inv, AcceptInv
  <2>7. \A q1, q2 \in Requests :
          op'[q1].pc = "consumed" /\ op'[q2].pc = "consumed" /\ op'[q1].token = op'[q2].token
            => q1 = q2
    BY <1>1, <1>2, <2>4 DEF Inv, AcceptInv
  <2> QED BY <2>0, <2>1, <2>6, <2>7 DEF Inv, AcceptInv, Used
<1>7. OneGrantPerPlan'
  BY DEF PersistOk, Inv, OneGrantPerPlan, Distinct
<1>8. GrantWindow'
  BY DEF PersistOk, Inv, GrantWindow, AllSound
<1> QED BY <1>3, <1>4, <1>5, <1>6, <1>7, <1>8 DEF Inv

(* The write fails: undoing the change leaves memory equal to the file.       *)
LEMMA UndoneIsDisk ==
  ASSUME Inv, NEW r \in Requests, mu = r
  PROVE  Undone(r) = disk
<1> DEFINE t == op[r].token
<1>1. op[r].pc \in {"issue", "consume"} /\ t \in Tokens
  BY DEF Inv, LockInv
<1>2. disk \in [Tokens -> Grant \cup {None}] /\ data \in [Tokens -> Grant \cup {None}]
  BY DEF Inv, TypeOK
<1>3. CASE op[r].pc = "issue"
  <2>1. disk[t] = None /\ \A u \in Tokens : u # t => data[u] = disk[u]
    BY <1>3 DEF Inv, DataInv
  <2> QED BY <1>1, <1>2, <1>3, <2>1 DEF Undone
<1>4. CASE op[r].pc = "consume"
  <2>1. /\ disk[t] # None /\ disk[t].usedAt = Zero
        /\ data[t] = MarkUsed(disk[t], data[t].usedAt)
        /\ \A u \in Tokens : u # t => data[u] = disk[u]
    BY <1>4 DEF Inv, DataInv
  <2>2. disk[t] \in Grant
    BY <1>1, <1>2, <2>1
  <2>3. MarkUsed(data[t], Zero) = MarkUsed(disk[t], Zero)
    BY <2>1 DEF MarkUsed
  <2>4. MarkUsed(disk[t], Zero) = disk[t]
    BY <2>1, <2>2 DEF MarkUsed, Grant
  <2>5. Undone(r) = [data EXCEPT ![t] = disk[t]]
    BY <1>4, <2>3, <2>4 DEF Undone
  <2> QED BY <1>1, <1>2, <2>1, <2>5
<1> QED BY <1>1, <1>3, <1>4

(* A call whose write failed (109-112, 155-158) leaves it as it was.          *)
LEMMA PersistFailsInv ==
  ASSUME Inv, NEW r \in Requests, PersistFails(r)
  PROVE  Inv'
<1>1. /\ data' = disk /\ disk' = disk /\ mu = r /\ mu' = None
      /\ op' = [op EXCEPT ![r] = [pc |-> "refused", token |-> None]]
      /\ UNCHANGED <<clock, up, known, accepted>>
  BY UndoneIsDisk DEF PersistFails, Writing
<1>2. \A q \in Requests : q # r => op[q].pc \notin {"issue", "consume"}
  BY <1>1 DEF Inv, LockInv
<1>u. up
  BY <1>1, GrantAssumption DEF Inv, LockInv
<1>3. TypeOK'
  BY <1>1 DEF Inv, TypeOK
<1>4. LockInv'
  BY <1>1, <1>2, <1>u, GrantAssumption DEF Inv, LockInv, TypeOK
<1>5. DataInv'
  BY <1>1, <1>2 DEF Inv, DataInv, TypeOK
<1>6. AcceptInv'
  BY <1>1 DEF Inv, AcceptInv, TypeOK, Used
<1>7. OneGrantPerPlan' /\ GrantWindow'
  BY <1>1 DEF Inv, OneGrantPerPlan, Distinct, GrantWindow, AllSound
<1> QED BY <1>3, <1>4, <1>5, <1>6, <1>7 DEF Inv

(* Handing an answer to the caller keeps it: a token counts at most once.     *)
LEMMA ReturnInv ==
  ASSUME Inv, NEW r \in Requests, Return(r)
  PROVE  Inv'
<1>1. /\ op' = [op EXCEPT ![r] = Idle]
      /\ UNCHANGED <<clock, up, mu, data, disk>>
      /\ op[r].pc \in {"granted", "consumed", "refused"}
  BY DEF Return
<1>2. op'[r] = Idle /\ \A q \in Requests : q # r => op'[q] = op[q]
  BY <1>1 DEF Inv, TypeOK
<1>3. op[r].pc \in {"granted", "consumed"} => op[r].token \in Tokens
  BY DEF Inv, LockInv
<1>4. TypeOK'
  BY <1>1, <1>3 DEF Inv, TypeOK, Return, Idle
<1>5. LockInv'
  BY <1>1, <1>2 DEF Inv, LockInv, Idle
<1>6. DataInv'
  BY <1>1, <1>2 DEF Inv, DataInv, Idle
<1>7. AcceptInv'
  <2>1. CASE op[r].pc = "consumed"
    <3>0. Used(disk[op[r].token]) /\ accepted[op[r].token] = 0
      BY <2>1 DEF Inv, AcceptInv
    <3>1. accepted' = [accepted EXCEPT ![op[r].token] = 1]
      BY <2>1, <3>0 DEF Return
    <3>2. \A q \in Requests : q # r /\ op[q].pc = "consumed" => op[q].token # op[r].token
      BY <2>1 DEF Inv, AcceptInv
    <3>3. \A t \in Tokens : accepted'[t] = IF t = op[r].token THEN 1 ELSE accepted[t]
      BY <3>1 DEF Inv, TypeOK
    <3>4. \A q \in Requests : op[q].pc = "consumed" => op[q].token \in Tokens
      BY DEF Inv, LockInv
    <3> QED BY <1>1, <1>2, <3>0, <3>2, <3>3, <3>4 DEF Inv, AcceptInv, Idle, Used
  <2>2. CASE op[r].pc # "consumed"
    BY <2>2, <1>1, <1>2 DEF Inv, AcceptInv, Idle, Return, Used
  <2> QED BY <2>1, <2>2
<1>8. OneGrantPerPlan' /\ GrantWindow'
  BY <1>1 DEF Inv, OneGrantPerPlan, Distinct, GrantWindow, AllSound
<1> QED BY <1>4, <1>5, <1>6, <1>7, <1>8 DEF Inv

(* A crash loses memory and callers, not the file.                            *)
LEMMA CrashInv == Inv /\ Crash => Inv'
<1> SUFFICES ASSUME Inv, Crash PROVE Inv'
  OBVIOUS
<1>1. TypeOK'
  BY DEF Inv, TypeOK, Crash, Idle
<1>2. LockInv' /\ DataInv'
  BY GrantAssumption DEF LockInv, DataInv, Crash, Idle
<1>3. AcceptInv'
  BY DEF Inv, AcceptInv, Crash, Idle, Used
<1>4. OneGrantPerPlan' /\ GrantWindow'
  BY DEF Inv, OneGrantPerPlan, Distinct, GrantWindow, AllSound, Crash
<1> QED BY <1>1, <1>2, <1>3, <1>4 DEF Inv

(* A start that accepts the file (38-55) makes it the memory.                 *)
LEMMA OpenInv == Inv /\ OpenGrantStore => Inv'
<1> SUFFICES ASSUME Inv, OpenGrantStore PROVE Inv'
  OBVIOUS
<1>1. TypeOK'
  BY DEF Inv, TypeOK, OpenGrantStore
<1>2. \A r \in Requests : op[r] = Idle
  BY DEF Inv, LockInv, OpenGrantStore
<1>3. LockInv' /\ DataInv'
  BY <1>2 DEF Inv, LockInv, DataInv, OpenGrantStore, Idle
<1>4. AcceptInv'
  BY <1>2 DEF Inv, AcceptInv, OpenGrantStore, Idle, Used
<1>5. OneGrantPerPlan' /\ GrantWindow'
  BY DEF Inv, OneGrantPerPlan, Distinct, GrantWindow, AllSound, OpenGrantStore
<1> QED BY <1>1, <1>3, <1>4, <1>5 DEF Inv

(* The wall clock may step either way, and nothing may happen.                *)
LEMMA TickInv == Inv /\ (Tick \/ UNCHANGED vars) => Inv'
<1> SUFFICES ASSUME Inv, Tick \/ UNCHANGED vars PROVE Inv'
  OBVIOUS
<1>1. UNCHANGED <<up, mu, data, disk, op, known, accepted>> /\ clock' \in Times
  BY DEF Tick, vars, Inv, TypeOK
<1>2. TypeOK' /\ LockInv'
  BY <1>1 DEF Inv, TypeOK, LockInv
<1>3. DataInv' /\ AcceptInv'
  BY <1>1 DEF Inv, DataInv, AcceptInv, Used
<1>4. OneGrantPerPlan' /\ GrantWindow'
  BY <1>1 DEF Inv, OneGrantPerPlan, Distinct, GrantWindow, AllSound
<1> QED BY <1>2, <1>3, <1>4 DEF Inv

(* Every step of the store keeps the invariant.                               *)
LEMMA NextInv == Inv /\ [Next]_vars => Inv'
<1> SUFFICES ASSUME Inv, [Next]_vars PROVE Inv'
  OBVIOUS
<1>k. known \subseteq Tokens
  BY DEF Inv, TypeOK
<1> QED
  BY <1>k, IssueInv, ConsumeInv, PersistOkInv, PersistFailsInv, ReturnInv,
     CrashInv, OpenInv, TickInv DEF Next

(* The inductive invariant holds throughout every behaviour of the store.     *)
THEOREM Invariance == Spec => []Inv
BY InitInv, NextInv, PTL DEF Spec

-----------------------------------------------------------------------------
(* Every variable keeps its type.                                             *)
THEOREM TypeCorrect == Spec => []TypeOK
BY Invariance, PTL DEF Inv

(* No token is ever accepted twice, whatever crashes, failed writes and clock *)
(* steps come between two calls of Consume.                                   *)
THEOREM SingleUseHolds == Spec => []SingleUse
<1>1. Inv => SingleUse
  BY DEF Inv, AcceptInv, SingleUse
<1> QED BY <1>1, Invariance, PTL

(* A consumption is reported only once the file records it.                   *)
THEOREM AcceptedIsDurableHolds == Spec => []AcceptedIsDurable
<1>1. Inv => AcceptedIsDurable
  BY DEF Inv, AcceptInv, AcceptedIsDurable
<1> QED BY <1>1, Invariance, PTL

(* Memory and file agree whenever the lock is free, one plan has one grant,   *)
(* and every grant is sound.                                                  *)
THEOREM StoreConsistent == Spec => [](MemoryIsDisk /\ OneGrantPerPlan /\ GrantWindow)
<1>1. Inv => MemoryIsDisk /\ OneGrantPerPlan /\ GrantWindow
  BY DEF Inv, DataInv, MemoryIsDisk
<1> QED BY <1>1, Invariance, PTL

(* One plan never has two grants, spent and expired ones included, in memory  *)
(* or in the file (GrantStore.Issue 80-84, undone at 109-112).                *)
THEOREM OneGrantPerPlanHolds == Spec => []OneGrantPerPlan
BY StoreConsistent, PTL

(* Every grant ends with its plan, was approved by a human other than the     *)
(* plan's actor and was used while good, although the clock may step back     *)
(* (GrantStore.Issue 92-107, Consume 141-154).                                *)
THEOREM GrantWindowHolds == Spec => []GrantWindow
BY StoreConsistent, PTL

(***************************************************************************)
(* Steps.  Only a successful write changes the file, and it changes one    *)
(* token: from no grant to an unused one, or from unused to used.          *)
(***************************************************************************)

(* The file changes only in persistLocked (210-244), when it succeeds.        *)
LEMMA DiskStep ==
  ASSUME Inv, [Next]_vars, disk' # disk
  PROVE  \E r \in Requests : PersistOk(r)
BY DEF Next, vars, Issue, Consume, Refuse, PersistFails, Return, Crash, OpenGrantStore, Tick

(* A successful write adds one grant or marks one unused grant used.          *)
LEMMA PersistOkChange ==
  ASSUME Inv, NEW r \in Requests, PersistOk(r)
  PROVE  \E t \in Tokens :
           /\ \A u \in Tokens : u # t => disk'[u] = disk[u]
           /\ \/ /\ disk[t] = None /\ disk'[t] # None /\ ~Used(disk'[t])
                 /\ \A u \in Tokens : disk[u] # None => PlanKey(disk[u]) # PlanKey(disk'[t])
              \/ /\ disk[t] # None /\ ~Used(disk[t]) /\ Used(disk'[t])
                 /\ disk'[t] = MarkUsed(disk[t], disk'[t].usedAt)
<1> DEFINE t == op[r].token
<1>1. op[r].pc \in {"issue", "consume"} /\ t \in Tokens /\ disk' = data
  BY DEF PersistOk, Writing, Inv, LockInv
<1>2. CASE op[r].pc = "issue"
  <2>1. /\ disk[t] = None /\ data[t] # None /\ ~Used(data[t])
        /\ \A u \in Tokens : u # t => data[u] = disk[u]
    BY <1>2 DEF Inv, DataInv, Used
  <2>2. \A u \in Tokens : disk[u] # None => PlanKey(disk[u]) # PlanKey(data[t])
    BY <1>1, <2>1 DEF Inv, OneGrantPerPlan, Distinct
  <2> QED BY <1>1, <2>1, <2>2
<1>3. CASE op[r].pc = "consume"
  BY <1>1, <1>3 DEF Inv, DataInv, Used
<1> QED BY <1>1, <1>2, <1>3

(* The file only moves forward: no grant is dropped or altered but for being  *)
(* marked used, and that mark stays.                                          *)
THEOREM DiskMovesForwardHolds == Spec => DiskMovesForward
<1> DEFINE A == \A t \in Stored(disk) :
                  \/ disk'[t] = disk[t]
                  \/ ~Used(disk[t]) /\ disk'[t] = MarkUsed(disk[t], disk'[t].usedAt)
<1>1. Inv /\ [Next]_vars => [A]_vars
  <2> SUFFICES ASSUME Inv, [Next]_vars, disk' # disk PROVE A
    OBVIOUS
  <2>1. PICK r \in Requests : PersistOk(r)
    BY DiskStep
  <2> QED BY <2>1, PersistOkChange DEF Stored
<1>2. DiskMovesForward <=> [][A]_vars
  BY DEF DiskMovesForward
<1> QED BY <1>1, <1>2, Invariance, PTL DEF Spec

(***************************************************************************)
(* The store implements the abstract single-use grant.                     *)
(***************************************************************************)

(* The empty store is the abstract initial state.                             *)
LEMMA RefineInit == Init => Abs!AbsInit
BY DEF Init, Abs!AbsInit, AbstractOwner, Used

(* A successful write is an abstract issue or an abstract spend.              *)
LEMMA RefinePersist ==
  ASSUME Inv, Inv', NEW r \in Requests, PersistOk(r)
  PROVE  Abs!AbsNext
<1> DEFINE keys == {p.id : p \in Plans} \X {p.digest : p \in Plans}
<1>1. PICK t \in Tokens :
        /\ \A u \in Tokens : u # t => disk'[u] = disk[u]
        /\ \/ /\ disk[t] = None /\ disk'[t] # None /\ ~Used(disk'[t])
              /\ \A u \in Tokens : disk[u] # None => PlanKey(disk[u]) # PlanKey(disk'[t])
           \/ /\ disk[t] # None /\ ~Used(disk[t]) /\ Used(disk'[t])
              /\ disk'[t] = MarkUsed(disk[t], disk'[t].usedAt)
  BY PersistOkChange
<1>2. accepted' = accepted
  BY DEF PersistOk
<1>3. \A u \in Tokens : disk'[u] # None => PlanKey(disk'[u]) \in keys
  BY DEF Inv, TypeOK, Grant, PlanKey
<1>4. CASE disk[t] = None
  <2> DEFINE k == PlanKey(disk'[t])
  <2>1. k \in keys /\ k # None
    BY <1>1, <1>3, <1>4, GrantAssumption
  <2>2. AbstractOwner' = [AbstractOwner EXCEPT ![t] = k]
    BY <1>1, <1>4 DEF AbstractOwner
  <2>3. {u \in Tokens : Used(disk'[u])} = {u \in Tokens : Used(disk[u])}
    BY <1>1, <1>4 DEF Used
  <2>4. \A u \in Tokens : AbstractOwner[u] # k
    BY <1>1, <1>4, <2>1 DEF AbstractOwner
  <2>5. AbstractOwner[t] = None
    BY <1>4 DEF AbstractOwner
  <2>6. Abs!AbsIssue(t, k)
    BY <1>2, <2>2, <2>3, <2>4, <2>5 DEF Abs!AbsIssue
  <2> QED BY <2>1, <2>6 DEF Abs!AbsNext
<1>5. CASE disk[t] # None
  <2>1. /\ ~Used(disk[t]) /\ Used(disk'[t])
        /\ disk'[t] # None /\ PlanKey(disk'[t]) = PlanKey(disk[t])
    BY <1>1, <1>5 DEF Used, PlanKey, MarkUsed
  <2>2. AbstractOwner' = AbstractOwner
    BY <1>1, <1>5, <2>1 DEF AbstractOwner
  <2>3. {u \in Tokens : Used(disk'[u])} = {u \in Tokens : Used(disk[u])} \cup {t}
    BY <1>1, <2>1
  <2>4. AbstractOwner[t] # None
    <3>1. disk[t] \in Grant
      BY <1>5 DEF Inv, TypeOK
    <3>2. PlanKey(disk[t]) \in keys
      BY <3>1 DEF Grant, PlanKey
    <3> QED BY <1>5, <3>2, GrantAssumption DEF AbstractOwner
  <2>5. Abs!AbsSpend(t)
    BY <1>2, <2>1, <2>2, <2>3, <2>4 DEF Abs!AbsSpend
  <2> QED BY <2>5 DEF Abs!AbsNext
<1> QED BY <1>4, <1>5

(* Answering a successful Consume is the abstract acceptance.                 *)
LEMMA RefineReturn ==
  ASSUME Inv, NEW r \in Requests, Return(r)
  PROVE  Abs!AbsNext \/ UNCHANGED <<disk, accepted>>
<1>1. CASE op[r].pc = "consumed"
  <2> DEFINE t == op[r].token
  <2>1. t \in Tokens /\ Used(disk[t]) /\ accepted[t] = 0 /\ disk' = disk
    BY <1>1 DEF Inv, LockInv, AcceptInv, Return
  <2>2. accepted' = [accepted EXCEPT ![t] = 1]
    BY <1>1, <2>1 DEF Return
  <2>3. AbstractOwner' = AbstractOwner
    BY <2>1 DEF AbstractOwner
  <2>4. Abs!AbsAccept(t)
    BY <2>1, <2>2, <2>3 DEF Abs!AbsAccept, Used
  <2> QED BY <2>1, <2>4 DEF Abs!AbsNext
<1>2. CASE op[r].pc # "consumed"
  BY <1>2 DEF Return
<1> QED BY <1>1, <1>2

(* Every step of the store is an abstract step or is not seen.               *)
LEMMA RefineStep == Inv /\ Inv' /\ [Next]_vars => [Abs!AbsNext]_(Abs!absVars)
<1> SUFFICES ASSUME Inv, Inv', [Next]_vars
             PROVE  Abs!AbsNext \/ UNCHANGED Abs!absVars
  OBVIOUS
<1>1. UNCHANGED <<disk, accepted>> => UNCHANGED Abs!absVars
  BY DEF Abs!absVars, AbstractOwner, Used
<1>2. \/ \E r \in Requests : PersistOk(r) \/ Return(r)
      \/ UNCHANGED <<disk, accepted>>
  BY DEF Next, vars, Issue, Consume, Refuse, PersistFails, Crash, OpenGrantStore, Tick
<1> QED BY <1>1, <1>2, RefinePersist, RefineReturn

(* The detailed store, with its memory, file, lock, crashes and clock, does   *)
(* nothing the abstract single-use grant does not allow.                      *)
THEOREM Refinement == Spec => ImplementsSingleUse
BY RefineInit, RefineStep, Invariance, PTL DEF Spec, ImplementsSingleUse, Abs!AbsSpec

=============================================================================
