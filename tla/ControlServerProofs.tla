------------------------ MODULE ControlServerProofs ------------------------
(***************************************************************************)
(* ControlServer, proved for any plans and requests.  CInv says what qcored *)
(* has done for each call and what each record in the audit file has       *)
(* behind it; it holds whether or not appends may fail.  Trail says which  *)
(* records must be there, and holds if no append fails.                    *)
(***************************************************************************)
EXTENDS ControlServer, FiniteSetTheorems, TLAPS

HandlerType == [pc : {"new", "called", "over", "dead"}, kind : {None, "confirm", "execute"},
                plan : Plans \cup {None}, token : BOOLEAN]
RanType     == [status : {"no", "running", "completed", "failed"}, by : Reqs \cup {None}]
RecordType  == [event : Events, plan : Plans, id : Reqs \cup Plans, by : Reqs \cup {None}]

Shape ==
  /\ h \in [Reqs -> HandlerType]
  /\ ran \in [Plans -> RanType]
  /\ audit \in SUBSET RecordType
  /\ cache \in SUBSET made

(* A call and its handler: what qcored did for it is what it says.           *)
Called(r) ==
  /\ h[r].pc = "new" => h[r] = NewHandler /\ call[r] = "none"
  /\ h[r].pc = "called" => call[r] # "none"
  /\ call[r] # "none" => h[r].plan \in made /\ h[r].kind \in {"confirm", "execute"}
  /\ call[r] = "granted" =>
       /\ h[r].kind = "confirm" /\ grant[h[r].plan] # "none"
       /\ \A s \in Reqs : call[s] = "granted" /\ h[s].plan = h[r].plan => s = r
  /\ call[r] = "consumed" =>
       /\ h[r].kind = "execute" /\ h[r].token
       /\ grant[h[r].plan] = "used" /\ ran[h[r].plan] = NotRun
       /\ \A s \in Reqs : call[s] = "consumed" /\ h[s].plan = h[r].plan => s = r
  /\ call[r] \in {"running", "completed", "failed"} =>
       ran[h[r].plan] = [status |-> call[r], by |-> r]

CallInv == \A r \in Reqs : Called(r)

(* A transaction: the grant it used and the one call that brought it.        *)
RanInv ==
  \A p \in Plans :
    /\ ran[p].status = "no" => ran[p] = NotRun
    /\ ran[p].status # "no" =>
         LET r == ran[p].by IN
         /\ grant[p] = "used" /\ r \in Reqs
         /\ h[r].plan = p /\ h[r].kind = "execute" /\ h[r].token
         /\ call[r] \in {"running", "completed", "failed", "lost"}

(* A record: who wrote it, and the state it was written from, which stays.   *)
Truthful(e) ==
  /\ e.event \in {"operation.completed", "operation.failed"} =>
       ran[e.plan] = [status |-> Outcome(e.event), by |-> e.by]
  /\ e.event = "operation.rejected" => call[e.by] = "rejected"
  /\ e.event = "confirmation.issued" =>
       e.by \in Reqs /\ e.id = e.by /\ call[e.by] = "granted" /\ h[e.by].plan = e.plan
  /\ e.event \in Results =>
       e.by \in Reqs /\ h[e.by].pc = "over" /\ h[e.by].kind = "execute" /\ h[e.by].plan = e.plan

RecordInv ==
  /\ \A e \in audit : Truthful(e)
  /\ \A e, f \in audit : e.event \in Results /\ f.event \in Results /\ e.by = f.by => e = f

CInv == TypeOK /\ Shape /\ CallInv /\ RanInv /\ RecordInv

(* What must be on record if no append fails.                                *)
Trail ==
  /\ \A p \in made : Logged("plan.created", p)
  /\ \A p \in tokens : Logged("confirmation.issued", p)
  /\ \A r \in Reqs : h[r].kind = "execute" =>
       /\ Record("operation.attempt", h[r].plan, r, r) \in audit
       /\ h[r].token => h[r].plan \in tokens

(***************************************************************************)
(* Types.                                                                  *)
(***************************************************************************)
(* The initial state: no plan, no call, an empty audit file.                 *)
LEMMA CInitInv == Init => CInv /\ Trail
<1> SUFFICES ASSUME Init PROVE CInv /\ Trail
  OBVIOUS
<1> USE ControlAssumption DEF Init, NewHandler, NotRun
<1>1. TypeOK
  BY DEF TypeOK
<1>2. Shape
  BY DEF Shape, HandlerType, RanType
<1>3. CallInv /\ RanInv
  BY DEF CallInv, Called, RanInv
<1>4. RecordInv /\ Trail
  BY DEF RecordInv, Trail
<1> QED BY <1>1, <1>2, <1>3, <1>4 DEF CInv

(* What a step adds to the audit file: at most one record (appendAudit).     *)
LEMMA LogAdds ==
  ASSUME NEW event \in Events, NEW p \in Plans, NEW id \in Reqs \cup Plans,
         NEW r \in Reqs \cup {None}, Log(event, p, id, r), audit \in SUBSET RecordType
  PROVE  /\ Record(event, p, id, r) \in RecordType
         /\ audit' \in SUBSET RecordType /\ audit \subseteq audit'
         /\ \A e \in audit' : e \in audit \/ e = Record(event, p, id, r)
BY DEF Log, Record, RecordType

(* Both kinds of request that go on to qcored, k telling which and t whether *)
(* a confirmation token came with it (security_routes.go 53-91,              *)
(* mutation_routes.go 19-69).                                                *)
Submitted(r, p, k, t) ==
  /\ h[r] = NewHandler /\ cache' = Purged /\ p \in Purged
  /\ h' = [h EXCEPT ![r] = [pc |-> "called", kind |-> k, plan |-> p, token |-> t]]
  /\ call' = [call EXCEPT ![r] = "sent"]
  /\ IF k = "execute" THEN Log("operation.attempt", p, r, r) /\ (t => p \in tokens)
     ELSE audit' = audit
  /\ UNCHANGED <<expired, made, grant, tokens, ran>>

(* What a submission leaves behind, in one form for both kinds.              *)
LEMMA Submission ==
  ASSUME NEW r \in Reqs, NEW p, SubmitConfirm(r, p) \/ SubmitExecute(r, p)
  PROVE  \E k \in {"confirm", "execute"}, t \in BOOLEAN : Submitted(r, p, k, t)
<1>1. SubmitConfirm(r, p) => Submitted(r, p, "confirm", FALSE)
  BY DEF SubmitConfirm, Submitted
<1>2. SubmitExecute(r, p) => Submitted(r, p, "execute", p \in tokens)
  BY Zenon DEF SubmitExecute, Submitted
<1>3. (p \in tokens) \in BOOLEAN
  OBVIOUS
<1>4. SubmitExecute(r, p) => \E k \in {"confirm", "execute"}, t \in BOOLEAN : Submitted(r, p, k, t)
  BY <1>2, <1>3, Zenon
<1> QED BY <1>1, <1>4

(* Which steps change which variable.                                        *)
LEMMA Writers ==
  ASSUME Next
  PROVE  /\ ran' # ran => \E r \in Reqs : \/ BrokerExecute(r)
                                          \/ \E s \in {"completed", "failed"} : BrokerFinish(r, s)
         /\ grant' # grant => \E r \in Reqs : BrokerConfirm(r) \/ BrokerConsume(r)
         /\ call' # call => \E r \in Reqs :
              \/ \E p \in Plans : SubmitConfirm(r, p) \/ SubmitExecute(r, p)
              \/ BrokerConfirm(r) \/ BrokerConsume(r) \/ BrokerExecute(r)
              \/ BrokerReject(r) \/ BrokerProblem(r) \/ BrokerLost(r)
              \/ \E s \in {"completed", "failed"} : BrokerFinish(r, s)
         /\ h' # h => \/ Restart \/ \E r \in Reqs : Answer(r)
                      \/ \E r \in Reqs, p \in Plans :
                           SubmitConfirm(r, p) \/ SubmitExecute(r, p) \/ PlanNotFound(r, p)
<1>1. ASSUME NEW p \in Plans, HandlePlan(p) \/ Expire(p) PROVE UNCHANGED <<h, call, grant, ran>>
  BY <1>1 DEF HandlePlan, Expire
<1>2. ASSUME NEW r \in Reqs, NEW p \in Plans, SubmitConfirm(r, p) \/ SubmitExecute(r, p)
      PROVE  UNCHANGED <<grant, ran>>
  BY <1>2 DEF SubmitConfirm, SubmitExecute
<1>3. ASSUME NEW r \in Reqs, NEW p \in Plans, PlanNotFound(r, p) PROVE UNCHANGED <<call, grant, ran>>
  BY <1>3 DEF PlanNotFound
<1>4. ASSUME NEW r \in Reqs, BrokerConfirm(r) \/ BrokerReject(r) \/ BrokerProblem(r) \/ BrokerLost(r)
      PROVE  UNCHANGED <<h, ran>> /\ (grant' # grant => BrokerConfirm(r))
  BY <1>4 DEF BrokerConfirm, BrokerReject, BrokerProblem, BrokerLost
<1>5. /\ \A r \in Reqs : BrokerConsume(r) => UNCHANGED <<h, ran>>
      /\ \A r \in Reqs : BrokerExecute(r) => UNCHANGED <<h, grant>>
  BY DEF BrokerConsume, BrokerExecute
<1>6. ASSUME NEW r \in Reqs, NEW s, BrokerFinish(r, s) PROVE UNCHANGED <<h, grant>>
  BY <1>6 DEF BrokerFinish
<1>7. ASSUME NEW r \in Reqs, Answer(r) PROVE UNCHANGED <<call, grant, ran>>
  BY <1>7 DEF Answer, ConfirmAnswered, ConfirmFailed, ExecuteAnswered, ExecuteProblem, ExecuteLost
<1>8. Restart => UNCHANGED <<call, grant, ran>>
  BY DEF Restart
<1> QED BY <1>1, <1>2, <1>3, <1>4, <1>5, <1>6, <1>7, <1>8 DEF Next

(* Every step keeps the shapes.                                              *)
LEMMA ShapeStep ==
  ASSUME TypeOK, Shape, CallInv, [Next]_vars
  PROVE  Shape'
<1> USE DEF Shape
<1>1. ASSUME NEW p \in Plans, HandlePlan(p) PROVE Shape'
  <2>1. "plan.created" \in Events
    BY DEF Events
  <2>2. audit' \in SUBSET RecordType
    BY <1>1, <2>1, LogAdds DEF HandlePlan
  <2> QED BY <1>1, <2>2 DEF HandlePlan, Purged
<1>2. ASSUME NEW r \in Reqs, NEW p \in Plans,
             SubmitConfirm(r, p) \/ SubmitExecute(r, p) \/ PlanNotFound(r, p)
      PROVE  Shape'
  <2>1. "operation.attempt" \in Events
    BY DEF Events
  <2>2. SubmitExecute(r, p) => audit' \in SUBSET RecordType
    BY <2>1, LogAdds DEF SubmitExecute
  <2>3. audit' \in SUBSET RecordType /\ cache' \in SUBSET made'
    BY <1>2, <2>2 DEF SubmitConfirm, SubmitExecute, PlanNotFound, Purged
  <2>4. h' \in [Reqs -> HandlerType] /\ ran' = ran
    <3>1. CASE SubmitConfirm(r, p) \/ SubmitExecute(r, p)
      <4>1. PICK k \in {"confirm", "execute"}, t \in BOOLEAN : Submitted(r, p, k, t)
        BY <3>1, Submission
      <4>2. [pc |-> "called", kind |-> k, plan |-> p, token |-> t] \in HandlerType
        BY DEF HandlerType
      <4> QED BY <4>1, <4>2 DEF Submitted
    <3>2. CASE PlanNotFound(r, p)
      BY <3>2 DEF PlanNotFound, Reply, HandlerType
    <3> QED BY <1>2, <3>1, <3>2
  <2> QED BY <2>3, <2>4
<1>3. ASSUME NEW r \in Reqs, Answer(r) PROVE Shape'
  <2>1. h[r].pc = "called" /\ h[r].plan \in Plans
    BY <1>3 DEF Answer, ConfirmAnswered, ConfirmFailed, ExecuteAnswered, ExecuteProblem, ExecuteLost, Waiting,
                CallInv, Called, TypeOK
  <2>2. audit' \in SUBSET RecordType
    <3>1. /\ "confirmation.issued" \in Events /\ "operation.unknown" \in Events
          /\ (CASE call[r] = "rejected" -> "operation.rejected"
                [] call[r] = "completed" -> "operation.completed"
                [] OTHER -> "operation.failed") \in Events
      BY DEF Events
    <3>2. ConfirmAnswered(r) \/ ExecuteLost(r) => audit' \in SUBSET RecordType
      BY <2>1, <3>1, LogAdds DEF ConfirmAnswered, ExecuteLost
    <3>3. ExecuteAnswered(r) => audit' \in SUBSET RecordType
      BY <2>1, <3>1, LogAdds DEF ExecuteAnswered
    <3>4. ConfirmFailed(r) \/ ExecuteProblem(r) => audit' = audit
      BY DEF ConfirmFailed, ExecuteProblem
    <3> QED BY <1>3, <3>2, <3>3, <3>4 DEF Answer
  <2>3. h' \in [Reqs -> HandlerType] /\ UNCHANGED <<ran, cache, made>>
    BY <1>3 DEF Answer, ConfirmAnswered, ConfirmFailed, ExecuteAnswered, ExecuteProblem, ExecuteLost, Reply,
                HandlerType
  <2> QED BY <2>2, <2>3
<1>4. ASSUME NEW r \in Reqs, NEW s \in {"completed", "failed"}, BrokerFinish(r, s) PROVE Shape'
  BY <1>4 DEF BrokerFinish, RanType
<1>5. ASSUME NEW r \in Reqs, \/ BrokerConfirm(r) \/ BrokerConsume(r) \/ BrokerExecute(r)
                              \/ BrokerReject(r) \/ BrokerProblem(r) \/ BrokerLost(r)
      PROVE  Shape'
  BY <1>5 DEF BrokerConfirm, BrokerConsume, BrokerExecute, BrokerReject, BrokerProblem, BrokerLost, RanType
<1>6. ASSUME Restart PROVE Shape'
  <2>1. \A r \in Reqs : h'[r] \in HandlerType
    BY <1>6 DEF Restart, HandlerType
  <2>2. h' \in [Reqs -> HandlerType]
    BY <1>6, <2>1 DEF Restart
  <2> QED BY <1>6, <2>2 DEF Restart
<1>7. ASSUME (\E p \in Plans : Expire(p)) \/ UNCHANGED vars PROVE Shape'
  BY <1>7 DEF Expire, vars
<1> QED BY <1>1, <1>2, <1>3, <1>4, <1>5, <1>6, <1>7 DEF Next

(***************************************************************************)
(* What no step takes back.                                                *)
(***************************************************************************)
(* A handler keeps its plan, a call its end, a transaction its result, and   *)
(* nothing leaves the audit file.                                            *)
LEMMA NothingTakenBack ==
  ASSUME CInv, [Next]_vars
  PROVE  /\ made \subseteq made' /\ audit \subseteq audit' /\ tokens \subseteq tokens'
         /\ \A p \in Plans : grant[p] # "none" => grant'[p] # "none"
         /\ \A p \in Plans : ran[p].status \in {"completed", "failed"} => ran'[p] = ran[p]
         /\ \A r \in Reqs : call[r] \notin {"none", "sent", "consumed", "running"} => call'[r] = call[r]
         /\ \A r \in Reqs : h[r].pc # "new" =>
              /\ h'[r].pc # "new" /\ h'[r].kind = h[r].kind /\ h'[r].plan = h[r].plan
              /\ h'[r].token = h[r].token /\ (h[r].pc = "over" => h'[r].pc = "over")
<1> USE DEF CInv, Shape, TypeOK
<1>1. made \subseteq made' /\ audit \subseteq audit' /\ tokens \subseteq tokens'
  BY DEF Next, vars, HandlePlan, Log, Expire, SubmitConfirm, SubmitExecute, PlanNotFound,
         BrokerConfirm, BrokerConsume, BrokerExecute, BrokerReject, BrokerProblem,
           BrokerLost, BrokerFinish, Answer,
         ConfirmAnswered, ConfirmFailed, ExecuteAnswered, ExecuteProblem, ExecuteLost, Restart
<1>2. \A p \in Plans : grant[p] # "none" => grant'[p] # "none"
  <2>1. ASSUME NEW r \in Reqs, BrokerConfirm(r) \/ BrokerConsume(r), NEW p \in Plans, grant[p] # "none"
        PROVE  grant'[p] # "none"
    BY <2>1 DEF BrokerConfirm, BrokerConsume
  <2> QED BY <2>1, Writers DEF vars
<1>3. ASSUME NEW p \in Plans, ran[p].status \in {"completed", "failed"} PROVE ran'[p] = ran[p]
  <2>1. ASSUME NEW r \in Reqs, BrokerExecute(r) PROVE h[r].plan # p
    <3>1. call[r] = "consumed"
      BY <2>1 DEF BrokerExecute
    <3>2. ran[h[r].plan] = NotRun
      BY <3>1, Zenon DEF CallInv, Called
    <3> QED BY <1>3, <3>2 DEF NotRun
  <2>2. ASSUME NEW r \in Reqs, NEW s, BrokerFinish(r, s) PROVE h[r].plan # p
    <3>1. call[r] = "running"
      BY <2>2 DEF BrokerFinish
    <3>2. ran[h[r].plan] = [status |-> call[r], by |-> r]
      BY <3>1, Zenon DEF CallInv, Called
    <3> QED BY <1>3, <3>1, <3>2
  <2>3. ran' = ran \/ \E r \in Reqs : BrokerExecute(r) \/ \E s \in {"completed", "failed"} : BrokerFinish(r, s)
    BY Writers DEF vars
  <2>4. ASSUME NEW r \in Reqs, BrokerExecute(r) PROVE ran'[p] = ran[p]
    BY <2>1, <2>4 DEF BrokerExecute
  <2>5. ASSUME NEW r \in Reqs, NEW s, BrokerFinish(r, s) PROVE ran'[p] = ran[p]
    BY <2>2, <2>5 DEF BrokerFinish
  <2> QED BY <2>3, <2>4, <2>5
<1>4. \A r \in Reqs : call[r] \notin {"none", "sent", "consumed", "running"} => call'[r] = call[r]
  <2>1. ASSUME NEW r \in Reqs, NEW p, SubmitConfirm(r, p) \/ SubmitExecute(r, p)
        PROVE  call[r] = "none" /\ call' = [call EXCEPT ![r] = "sent"]
    <3>1. h[r] = NewHandler /\ call' = [call EXCEPT ![r] = "sent"]
      BY <2>1, Submission DEF Submitted
    <3>2. h[r].pc = "new"
      BY <3>1 DEF NewHandler
    <3> QED BY <3>1, <3>2 DEF CallInv, Called
  <2>2. ASSUME NEW r \in Reqs,
               \/ BrokerConfirm(r) \/ BrokerConsume(r) \/ BrokerExecute(r)
               \/ BrokerReject(r) \/ BrokerProblem(r) \/ BrokerLost(r)
               \/ \E s \in {"completed", "failed"} : BrokerFinish(r, s)
        PROVE  call[r] \in {"sent", "consumed", "running"} /\ \E c : call' = [call EXCEPT ![r] = c]
    BY <2>2 DEF BrokerConfirm, BrokerConsume, BrokerExecute, BrokerReject, BrokerProblem, BrokerLost, BrokerFinish
  <2> QED BY <2>1, <2>2, Writers DEF vars
<1>5. ASSUME NEW r \in Reqs, h[r].pc # "new"
      PROVE  /\ h'[r].pc # "new" /\ h'[r].kind = h[r].kind /\ h'[r].plan = h[r].plan
             /\ h'[r].token = h[r].token /\ (h[r].pc = "over" => h'[r].pc = "over")
  <2>1. h[r] \in HandlerType
    OBVIOUS
  <2>2. ASSUME NEW u \in Reqs, NEW p, SubmitConfirm(u, p) \/ SubmitExecute(u, p) \/ PlanNotFound(u, p)
        PROVE  h'[r] = h[r]
    BY <1>5, <2>2 DEF SubmitConfirm, SubmitExecute, PlanNotFound, Reply, NewHandler
  <2>3. ASSUME NEW u \in Reqs, Answer(u)
        PROVE  h'[r] = h[r] \/ h'[r] = [h[r] EXCEPT !.pc = "over"]
    BY <2>3 DEF Answer, ConfirmAnswered, ConfirmFailed, ExecuteAnswered, ExecuteProblem, ExecuteLost, Reply
  <2>4. Restart => \/ h[r].pc # "called" /\ h'[r] = h[r]
                   \/ h[r].pc = "called" /\ h'[r] = [h[r] EXCEPT !.pc = "dead"]
    BY DEF Restart
  <2>5. \/ h' = h \/ Restart \/ \E u \in Reqs : Answer(u)
        \/ \E u \in Reqs, p \in Plans : SubmitConfirm(u, p) \/ SubmitExecute(u, p) \/ PlanNotFound(u, p)
    BY Writers DEF vars
  <2> QED BY <1>5, <2>1, <2>2, <2>3, <2>4, <2>5 DEF HandlerType
<1> QED BY <1>1, <1>2, <1>3, <1>4, <1>5

(* A reply, and a restart, change nothing of a handler but where it is.      *)
LEMMA OnlyPcMoves ==
  ASSUME Shape, Restart \/ \E u \in Reqs : Answer(u) \/ \E p \in Plans : PlanNotFound(u, p)
  PROVE  \A r \in Reqs : \/ h'[r] = h[r]
                         \/ /\ h'[r].pc \in {"over", "dead"} /\ h'[r].kind = h[r].kind
                            /\ h'[r].plan = h[r].plan /\ h'[r].token = h[r].token
<1>1. h \in [Reqs -> HandlerType]
  BY DEF Shape
<1>2. ASSUME Restart, NEW r \in Reqs
      PROVE  h'[r] = h[r] \/ h'[r] = [h[r] EXCEPT !.pc = "dead"]
  BY <1>2 DEF Restart
<1>3. ASSUME NEW u \in Reqs, Answer(u) \/ \E p \in Plans : PlanNotFound(u, p), NEW r \in Reqs
      PROVE  h'[r] = h[r] \/ h'[r] = [h[r] EXCEPT !.pc = "over"]
  <2>1. Reply(u)
    BY <1>3 DEF Answer, ConfirmAnswered, ConfirmFailed, ExecuteAnswered, ExecuteProblem, ExecuteLost, PlanNotFound
  <2> QED BY <1>1, <2>1 DEF Reply
<1>4. ASSUME NEW r \in Reqs, NEW pc \in {"over", "dead"}, h'[r] = [h[r] EXCEPT !.pc = pc]
      PROVE  /\ h'[r].pc \in {"over", "dead"} /\ h'[r].kind = h[r].kind
             /\ h'[r].plan = h[r].plan /\ h'[r].token = h[r].token
  <2>1. h[r] \in HandlerType
    BY <1>1
  <2> QED BY <1>4, <2>1 DEF HandlerType
<1> QED BY <1>2, <1>3, <1>4

(***************************************************************************)
(* Calls and transactions.                                                 *)
(***************************************************************************)
(* Submitting a request: nobody knew of it before.                           *)
LEMMA SubmitCalls ==
  ASSUME CInv, NEW u \in Reqs, NEW p \in Plans, SubmitConfirm(u, p) \/ SubmitExecute(u, p)
  PROVE  CallInv' /\ RanInv'
<1>1. PICK k \in {"confirm", "execute"}, t \in BOOLEAN : Submitted(u, p, k, t)
  BY Submission
<1>2. /\ h \in [Reqs -> HandlerType] /\ p \in made /\ h[u] = NewHandler
      /\ call \in [Reqs -> {"none", "sent", "granted", "consumed", "rejected", "running", "completed",
                            "failed", "problem", "lost"}]
      /\ UNCHANGED <<made, grant, ran>>
  BY <1>1 DEF CInv, Shape, TypeOK, Submitted, Purged
<1>3. /\ h'[u].pc = "called" /\ h'[u].kind = k /\ h'[u].plan = p /\ call'[u] = "sent"
      /\ \A r \in Reqs \ {u} : h'[r] = h[r] /\ call'[r] = call[r]
  BY <1>1, <1>2 DEF Submitted
<1>4. CallInv'
  <2> SUFFICES ASSUME NEW r \in Reqs PROVE Called(r)'
    BY DEF CallInv
  <2> QED BY <1>2, <1>3 DEF CInv, CallInv, Called
<1>5. RanInv'
  <2>1. h[u].kind # "execute"
    BY <1>2, ControlAssumption DEF NewHandler
  <2> QED BY <1>2, <1>3, <2>1 DEF CInv, RanInv
<1> QED BY <1>4, <1>5

(* Answers, refusals and restarts leave qcored alone.                        *)
LEMMA PcCalls ==
  ASSUME CInv, UNCHANGED <<call, grant, ran>>, made \subseteq made',
         \A r \in Reqs : \/ h'[r] = h[r]
                         \/ /\ h'[r].pc \in {"over", "dead"} /\ h'[r].kind = h[r].kind
                            /\ h'[r].plan = h[r].plan /\ h'[r].token = h[r].token
  PROVE  CallInv' /\ RanInv'
<1>1. CallInv'
  BY DEF CInv, CallInv, Called
<1>2. RanInv'
  BY DEF CInv, RanInv
<1> QED BY <1>1, <1>2

(* What qcored does with the call of u: h and made stay.                     *)
LEMMA BrokerCalls ==
  ASSUME CInv, NEW u \in Reqs,
         \/ BrokerConfirm(u) \/ BrokerConsume(u) \/ BrokerExecute(u) \/ BrokerReject(u)
         \/ BrokerProblem(u) \/ BrokerLost(u)
         \/ \E s \in {"completed", "failed"} : BrokerFinish(u, s)
  PROVE  CallInv' /\ RanInv'
<1> DEFINE p == h[u].plan
<1>1. /\ call \in [Reqs -> {"none", "sent", "granted", "consumed", "rejected", "running", "completed",
                            "failed", "problem", "lost"}]
      /\ grant \in [Plans -> {"none", "issued", "used"}] /\ made \in SUBSET Plans
      /\ ran \in [Plans -> RanType] /\ CallInv /\ RanInv
  BY DEF CInv, TypeOK, Shape
<1>2. UNCHANGED <<h, made>> /\ call[u] \in {"sent", "consumed", "running"} /\ p \in Plans
  BY <1>1 DEF BrokerConfirm, BrokerConsume, BrokerExecute, BrokerReject, BrokerProblem, BrokerLost, BrokerFinish, CallInv, Called
<1>3. PICK c \in {"granted", "consumed", "rejected", "running", "completed", "failed", "problem", "lost"} :
        call' = [call EXCEPT ![u] = c]
  BY DEF BrokerConfirm, BrokerConsume, BrokerExecute, BrokerReject, BrokerProblem, BrokerLost, BrokerFinish
<1>4. call'[u] = c /\ \A r \in Reqs \ {u} : call'[r] = call[r]
  BY <1>1, <1>3
<1>5. CASE BrokerReject(u) \/ BrokerProblem(u) \/ BrokerLost(u)
  <2>1. /\ UNCHANGED <<grant, ran>> /\ c \in {"rejected", "problem", "lost"}
        /\ (call[u] = "running" => c = "lost")
    BY <1>1, <1>3, <1>5 DEF BrokerReject, BrokerProblem, BrokerLost
  <2>2. CallInv'
    <3>1. \A r \in Reqs : Called(r)
      BY <1>1 DEF CallInv
    <3>2. Called(u)'
      BY <1>2, <1>4, <2>1, <3>1 DEF Called
    <3>3. ASSUME NEW r \in Reqs \ {u} PROVE Called(r)'
      BY <1>1, <1>2, <1>4, <2>1, <3>1 DEF Called
    <3> QED BY <3>2, <3>3 DEF CallInv
  <2>3. RanInv'
    BY <1>1, <1>2, <1>4, <2>1 DEF RanInv
  <2> QED BY <2>2, <2>3
<1>6. CASE BrokerConfirm(u)
  <2>1. /\ c = "granted" /\ ran' = ran /\ call[u] = "sent" /\ h[u].kind = "confirm" /\ grant[p] = "none"
        /\ grant' = [grant EXCEPT ![p] = "issued"]
    BY <1>1, <1>3, <1>6 DEF BrokerConfirm
  <2>2. grant'[p] = "issued" /\ \A q \in Plans \ {p} : grant'[q] = grant[q]
    BY <1>1, <1>2, <2>1
  <2>3. CallInv'
    <3>1. \A r \in Reqs : Called(r)
      BY <1>1 DEF CallInv
    <3>2. ASSUME NEW r \in Reqs, call[r] = "granted" PROVE h[r].plan # p
      <4>1. grant[h[r].plan] # "none"
        BY <3>1, <3>2, Zenon DEF Called
      <4> QED BY <2>1, <4>1
    <3>3. Called(u)'
      <4>1. ASSUME NEW r \in Reqs, call'[r] = "granted", h'[r].plan = h'[u].plan PROVE r = u
        BY <1>2, <1>4, <3>2, <4>1
      <4>2. p \in made /\ h[u].pc # "new"
        BY <2>1, <3>1 DEF Called
      <4> QED BY <1>2, <1>4, <2>1, <2>2, <4>1, <4>2 DEF Called
    <3>4. ASSUME NEW r \in Reqs \ {u} PROVE Called(r)'
      BY <1>1, <1>2, <1>4, <2>1, <2>2, <3>1 DEF Called
    <3> QED BY <3>3, <3>4 DEF CallInv
  <2>4. RanInv'
    BY <1>1, <1>2, <1>4, <2>1, <2>2 DEF RanInv
  <2> QED BY <2>3, <2>4
<1>7. CASE BrokerConsume(u)
  <2>1. /\ c = "consumed" /\ call[u] = "sent" /\ h[u].kind = "execute" /\ h[u].token /\ ran' = ran
        /\ grant[p] = "issued" /\ grant' = [grant EXCEPT ![p] = "used"]
    BY <1>1, <1>3, <1>7 DEF BrokerConsume
  <2>2. grant'[p] = "used" /\ \A q \in Plans \ {p} : grant'[q] = grant[q]
    BY <1>1, <1>2, <2>1
  <2>3. ran[p] = NotRun
    BY <1>1, <1>2, <2>1 DEF RanInv
  <2>4. CallInv'
    <3>1. \A r \in Reqs : Called(r)
      BY <1>1 DEF CallInv
    <3>2. ASSUME NEW r \in Reqs, call[r] = "consumed" PROVE h[r].plan # p
      BY <2>1, <3>1, <3>2 DEF Called
    <3>3. Called(u)'
      <4>1. ASSUME NEW r \in Reqs, call'[r] = "consumed", h'[r].plan = h'[u].plan PROVE r = u
        BY <1>2, <1>4, <3>2, <4>1
      <4>2. p \in made /\ h[u].pc # "new"
        BY <2>1, <3>1 DEF Called
      <4> QED BY <1>2, <1>4, <2>1, <2>2, <2>3, <4>1, <4>2 DEF Called
    <3>4. ASSUME NEW r \in Reqs \ {u} PROVE Called(r)'
      BY <1>1, <1>2, <1>4, <2>1, <2>2, <3>1, <3>2 DEF Called
    <3> QED BY <3>3, <3>4 DEF CallInv
  <2>5. RanInv'
    BY <1>1, <1>2, <1>4, <2>1, <2>2 DEF RanInv
  <2> QED BY <2>4, <2>5
<1>8. CASE BrokerExecute(u)
  <2>1. /\ c = "running" /\ call[u] = "consumed" /\ grant' = grant
        /\ ran' = [ran EXCEPT ![p] = [status |-> "running", by |-> u]]
    BY <1>1, <1>3, <1>8 DEF BrokerExecute
  <2>2. /\ h[u].kind = "execute" /\ h[u].token /\ grant[p] = "used" /\ ran[p] = NotRun
        /\ \A r \in Reqs \ {u} : call[r] = "consumed" => h[r].plan # p
    <3>1. /\ h[u].kind = "execute" /\ h[u].token /\ grant[p] = "used" /\ ran[p] = NotRun
          /\ \A r \in Reqs : call[r] = "consumed" /\ h[r].plan = h[u].plan => r = u
      BY <1>1, <2>1, Zenon DEF CallInv, Called
    <3> QED BY <3>1
  <2>3. /\ ran'[p] = [status |-> "running", by |-> u] /\ \A q \in Plans \ {p} : ran'[q] = ran[q]
        /\ ran[p].status = "no"
    BY <1>1, <1>2, <2>1, <2>2 DEF NotRun
  <2>4. CallInv'
    <3>1. \A r \in Reqs : Called(r)
      BY <1>1 DEF CallInv
    <3>2. Called(u)'
      BY <1>2, <1>4, <2>1, <2>2, <2>3, <3>1 DEF Called
    <3>3. ASSUME NEW r \in Reqs \ {u} PROVE Called(r)'
      BY <1>1, <1>2, <1>4, <2>1, <2>2, <2>3, <3>1 DEF Called
    <3> QED BY <3>2, <3>3 DEF CallInv
  <2>5. RanInv'
    BY <1>1, <1>2, <1>4, <2>1, <2>2, <2>3 DEF RanInv
  <2> QED BY <2>4, <2>5
<1>9. CASE \E s \in {"completed", "failed"} : BrokerFinish(u, s)
  <2>1. PICK s \in {"completed", "failed"} : BrokerFinish(u, s)
    BY <1>9
  <2>2. c = s /\ grant' = grant /\ call[u] = "running" /\ ran' = [ran EXCEPT ![p].status = s]
    BY <1>1, <1>3, <2>1 DEF BrokerFinish
  <2>3. ran[p] = [status |-> call[u], by |-> u]
    BY <1>1, <2>2, Zenon DEF CallInv, Called
  <2>4. ran'[p] = [status |-> s, by |-> u] /\ \A q \in Plans \ {p} : ran'[q] = ran[q]
    BY <1>1, <1>2, <2>2, <2>3
  <2>5. CallInv'
    <3>1. \A r \in Reqs : Called(r)
      BY <1>1 DEF CallInv
    <3>2. Called(u)'
      BY <1>2, <1>4, <2>2, <2>3, <2>4, <3>1 DEF Called
    <3>3. ASSUME NEW r \in Reqs \ {u} PROVE Called(r)'
      BY <1>1, <1>2, <1>4, <2>2, <2>3, <2>4, <3>1 DEF Called, NotRun
    <3> QED BY <3>2, <3>3 DEF CallInv
  <2>6. RanInv'
    BY <1>1, <1>2, <1>4, <2>2, <2>3, <2>4 DEF RanInv
  <2> QED BY <2>5, <2>6
<1> QED BY <1>5, <1>6, <1>7, <1>8, <1>9

(* Calls and transactions keep their invariants in every step.               *)
LEMMA CallStep ==
  ASSUME CInv, [Next]_vars
  PROVE  CallInv' /\ RanInv'
<1>1. made \subseteq made'
  BY NothingTakenBack
<1>2. ASSUME Restart \/ \E u \in Reqs : Answer(u) \/ \E p \in Plans : PlanNotFound(u, p)
      PROVE  CallInv' /\ RanInv'
  <2>1. UNCHANGED <<call, grant, ran>>
    BY <1>2 DEF Restart, Answer, ConfirmAnswered, ConfirmFailed, ExecuteAnswered, ExecuteProblem, ExecuteLost,
                PlanNotFound
  <2> QED BY <1>1, <1>2, <2>1, OnlyPcMoves, PcCalls DEF CInv
<1>3. ASSUME (\E p \in Plans : HandlePlan(p) \/ Expire(p)) \/ UNCHANGED vars
      PROVE  CallInv' /\ RanInv'
  <2>1. UNCHANGED <<h, call, grant, ran>>
    BY <1>3 DEF HandlePlan, Expire, vars
  <2> QED BY <1>1, <2>1, PcCalls
<1> QED BY <1>2, <1>3, SubmitCalls, BrokerCalls DEF Next

(***************************************************************************)
(* The audit file.                                                         *)
(***************************************************************************)
(* The record a step may add, and the handler that adds it (appendAudit).    *)
AnswerEvent(c) == CASE c = "rejected" -> "operation.rejected"
                    [] c = "completed" -> "operation.completed"
                    [] OTHER -> "operation.failed"

Adds(e) ==
  \/ \E p \in Plans : HandlePlan(p) /\ e = Record("plan.created", p, p, None)
  \/ \E r \in Reqs, p \in Plans : SubmitExecute(r, p) /\ e = Record("operation.attempt", p, r, r)
  \/ \E r \in Reqs :
       \/ ConfirmAnswered(r) /\ e = Record("confirmation.issued", h[r].plan, r, r)
       \/ ExecuteAnswered(r) /\ e = Record(AnswerEvent(call[r]), h[r].plan, h[r].plan, r)
       \/ ExecuteLost(r) /\ e = Record("operation.unknown", h[r].plan, r, r)

(* Whatever a step leaves in the file was there before, or is the one record *)
(* it adds; if no append fails that one is there.                            *)
LEMMA OneRecordAdded ==
  ASSUME [Next]_vars
  PROVE  audit' = audit \/ \E e : Adds(e) /\ audit' = audit \cup {e}
<1>1. ASSUME NEW p \in Plans, HandlePlan(p)
      PROVE  audit' = audit \/ \E e : Adds(e) /\ audit' = audit \cup {e}
  BY <1>1 DEF HandlePlan, Log, Adds
<1>2. ASSUME NEW r \in Reqs, NEW p \in Plans, SubmitExecute(r, p)
      PROVE  audit' = audit \/ \E e : Adds(e) /\ audit' = audit \cup {e}
  <2>1. Log("operation.attempt", p, r, r)
    BY <1>2 DEF SubmitExecute
  <2> QED BY <1>2, <2>1, Zenon DEF Log, Adds
<1>3. ASSUME NEW r \in Reqs, ConfirmAnswered(r)
      PROVE  audit' = audit \/ \E e : Adds(e) /\ audit' = audit \cup {e}
  <2>1. Log("confirmation.issued", h[r].plan, r, r)
    BY <1>3 DEF ConfirmAnswered
  <2> QED BY <1>3, <2>1, Zenon DEF Log, Adds
<1>4. ASSUME NEW r \in Reqs, ExecuteAnswered(r)
      PROVE  audit' = audit \/ \E e : Adds(e) /\ audit' = audit \cup {e}
  <2>1. Log(AnswerEvent(call[r]), h[r].plan, h[r].plan, r)
    BY <1>4, Zenon DEF ExecuteAnswered, AnswerEvent
  <2> QED BY <1>4, <2>1, Zenon DEF Log, Adds
<1>5. ASSUME NEW r \in Reqs, ExecuteLost(r)
      PROVE  audit' = audit \/ \E e : Adds(e) /\ audit' = audit \cup {e}
  <2>1. Log("operation.unknown", h[r].plan, r, r)
    BY <1>5 DEF ExecuteLost
  <2> QED BY <1>5, <2>1, Zenon DEF Log, Adds
<1>6. ASSUME NEW r \in Reqs, NEW p \in Plans, SubmitConfirm(r, p) \/ PlanNotFound(r, p)
      PROVE  audit' = audit
  BY <1>6 DEF SubmitConfirm, PlanNotFound
<1>7. ASSUME NEW r \in Reqs, NEW s,
             \/ BrokerConfirm(r) \/ BrokerConsume(r) \/ BrokerExecute(r)
             \/ BrokerReject(r) \/ BrokerProblem(r) \/ BrokerLost(r)
             \/ BrokerFinish(r, s) \/ ConfirmFailed(r) \/ ExecuteProblem(r)
      PROVE  audit' = audit
  BY <1>7 DEF BrokerConfirm, BrokerConsume, BrokerExecute, BrokerReject, BrokerProblem, BrokerLost,
              BrokerFinish, ConfirmFailed, ExecuteProblem
<1>8. (\E p \in Plans : Expire(p)) \/ Restart \/ UNCHANGED vars => audit' = audit
  BY DEF Expire, Restart, vars
<1> QED BY <1>1, <1>2, <1>3, <1>4, <1>5, <1>6, <1>7, <1>8 DEF Next, Answer

(* A record is true when it is written (security_routes.go 102-109,          *)
(* mutation_routes.go 70-96), and its writer wrote no result before.         *)
LEMMA AddedIsTrue ==
  ASSUME CInv, [Next]_vars, NEW e, Adds(e)
  PROVE  /\ Truthful(e)' /\ e.plan \in made' /\ e.id \in Reqs \cup {e.plan}
         /\ e.event \in Results => h[e.by].pc = "called"
<1>1. h \in [Reqs -> HandlerType]
  BY DEF CInv, Shape
<1>2. ASSUME NEW r \in Reqs, h[r].pc = "called"
      PROVE  h[r].plan \in made /\ call[r] # "none"
  BY <1>2 DEF CInv, CallInv, Called
<1>3. made \subseteq made'
  BY NothingTakenBack
<1>4. ASSUME NEW p \in Plans, HandlePlan(p), e = Record("plan.created", p, p, None)
      PROVE  /\ Truthful(e)' /\ e.plan \in made' /\ e.id \in Reqs \cup {e.plan}
             /\ e.event \notin Results
  BY <1>4 DEF Record, Truthful, Results, HandlePlan
<1>5. ASSUME NEW r \in Reqs, NEW p \in Plans, SubmitExecute(r, p),
             e = Record("operation.attempt", p, r, r)
      PROVE  /\ Truthful(e)' /\ e.plan \in made' /\ e.id \in Reqs \cup {e.plan}
             /\ e.event \notin Results
  <2>1. p \in made
    BY <1>5 DEF SubmitExecute, Purged, CInv, Shape
  <2> QED BY <1>3, <1>5, <2>1 DEF Record, Truthful, Results
<1>6. ASSUME NEW r \in Reqs, ConfirmAnswered(r), e = Record("confirmation.issued", h[r].plan, r, r)
      PROVE  /\ Truthful(e)' /\ e.plan \in made' /\ e.id \in Reqs \cup {e.plan}
             /\ e.event \notin Results
  <2>1. h[r].pc = "called" /\ call[r] = "granted" /\ call' = call
    BY <1>6 DEF ConfirmAnswered, Waiting
  <2>2. h'[r].plan = h[r].plan
    BY <2>1, NothingTakenBack
  <2> QED BY <1>2, <1>3, <1>6, <2>1, <2>2 DEF Record, Truthful, Results
<1>7. ASSUME NEW r \in Reqs, ExecuteAnswered(r) \/ ExecuteLost(r)
      PROVE  /\ h[r].pc = "called" /\ h[r].plan \in made' /\ call' = call /\ ran' = ran
             /\ h'[r].pc = "over" /\ h'[r].kind = "execute" /\ h'[r].plan = h[r].plan
  <2>1. h[r].pc = "called" /\ h[r].kind = "execute" /\ call' = call /\ ran' = ran /\ Reply(r)
    BY <1>7 DEF ExecuteAnswered, ExecuteLost, Waiting
  <2>2. h'[r].plan = h[r].plan /\ h'[r].kind = h[r].kind
    BY <2>1, NothingTakenBack
  <2>3. h'[r].pc = "over"
    BY <1>1, <2>1 DEF Reply, HandlerType
  <2> QED BY <1>2, <1>3, <2>1, <2>2, <2>3
<1>8. ASSUME NEW r \in Reqs, ExecuteAnswered(r),
             e = Record(AnswerEvent(call[r]), h[r].plan, h[r].plan, r)
      PROVE  /\ Truthful(e)' /\ e.plan \in made' /\ e.id \in Reqs \cup {e.plan}
             /\ h[e.by].pc = "called"
  <2>1. call[r] \in {"rejected", "completed", "failed"}
    BY <1>8 DEF ExecuteAnswered
  <2>2. call[r] \in {"completed", "failed"} => ran[h[r].plan] = [status |-> call[r], by |-> r]
    BY DEF CInv, CallInv, Called
  <2>3. e.event = AnswerEvent(call[r]) /\ e.plan = h[r].plan /\ e.by = r /\ e.id = h[r].plan
    BY <1>8 DEF Record
  <2>4. CASE call[r] = "rejected"
    <3>1. e.event = "operation.rejected"
      BY <2>3, <2>4 DEF AnswerEvent
    <3> QED BY <1>7, <1>8, <2>3, <2>4, <3>1 DEF Truthful
  <2>5. CASE call[r] \in {"completed", "failed"}
    <3>1. /\ e.event \in {"operation.completed", "operation.failed"}
          /\ Outcome(e.event) = call[r]
      BY <2>3, <2>5 DEF AnswerEvent, Outcome
    <3> QED BY <1>7, <1>8, <2>2, <2>3, <2>5, <3>1 DEF Truthful
  <2> QED BY <2>1, <2>4, <2>5
<1>9. ASSUME NEW r \in Reqs, ExecuteLost(r), e = Record("operation.unknown", h[r].plan, r, r)
      PROVE  /\ Truthful(e)' /\ e.plan \in made' /\ e.id \in Reqs \cup {e.plan}
             /\ h[e.by].pc = "called"
  <2>1. e.event = "operation.unknown" /\ e.plan = h[r].plan /\ e.by = r /\ e.id = r
    BY <1>9 DEF Record
  <2> QED BY <1>7, <1>9, <2>1 DEF Truthful
<1> QED BY <1>4, <1>5, <1>6, <1>8, <1>9 DEF Adds

(* What is on record stays true, and a second result is never added.         *)
LEMMA RecordStep ==
  ASSUME CInv, [Next]_vars
  PROVE  RecordInv' /\ \A e \in audit' : e.plan \in made' /\ e.id \in Reqs \cup {e.plan}
<1>1. ASSUME NEW e \in audit
      PROVE  Truthful(e)' /\ e.plan \in made' /\ e.id \in Reqs \cup {e.plan}
  <2>1. Truthful(e) /\ e.plan \in made /\ e.plan \in Plans /\ e.id \in Reqs \cup {e.plan}
    BY DEF CInv, RecordInv, TypeOK
  <2>2. /\ made \subseteq made'
        /\ ran[e.plan].status \in {"completed", "failed"} => ran'[e.plan] = ran[e.plan]
        /\ \A r \in Reqs : call[r] \in {"granted", "rejected"} => call'[r] = call[r]
        /\ \A r \in Reqs : h[r].pc # "new" =>
              /\ h'[r].kind = h[r].kind /\ h'[r].plan = h[r].plan
              /\ (h[r].pc = "over" => h'[r].pc = "over")
    BY <2>1, NothingTakenBack
  <2>3. \A r \in Reqs : call[r] = "granted" => h[r].pc # "new"
    BY DEF CInv, CallInv, Called
  <2>4. e.event = "operation.rejected" => e.event \in Results
    BY DEF Results, Events
  <2>5. Outcome(e.event) \in {"completed", "failed"}
    BY DEF Outcome
  <2>6. Truthful(e)'
    BY <2>1, <2>2, <2>3, <2>4, <2>5 DEF Truthful
  <2> QED BY <2>1, <2>2, <2>6
<1>2. CASE audit' = audit
  BY <1>1, <1>2 DEF CInv, RecordInv
<1>3. ASSUME NEW x, Adds(x), audit' = audit \cup {x}
      PROVE  RecordInv' /\ \A e \in audit' : e.plan \in made' /\ e.id \in Reqs \cup {e.plan}
  <2>1. /\ Truthful(x)' /\ x.plan \in made' /\ x.id \in Reqs \cup {x.plan}
        /\ x.event \in Results => h[x.by].pc = "called"
    BY <1>3, AddedIsTrue
  <2>2. ASSUME NEW e \in audit, e.event \in Results, x.event \in Results PROVE e.by # x.by
    <3>1. h[e.by].pc = "over"
      BY <2>2 DEF CInv, RecordInv, Truthful
    <3> QED BY <2>1, <2>2, <3>1
  <2>3. \A e, f \in audit' : e.event \in Results /\ f.event \in Results /\ e.by = f.by => e = f
    BY <1>3, <2>2 DEF CInv, RecordInv
  <2>4. \A e \in audit' : Truthful(e)' /\ e.plan \in made' /\ e.id \in Reqs \cup {e.plan}
    BY <1>1, <1>3, <2>1
  <2> QED BY <2>3, <2>4 DEF RecordInv
<1> QED BY <1>2, <1>3, OneRecordAdded

(* Types, the step.                                                          *)
LEMMA TypeStep ==
  ASSUME CInv, [Next]_vars
  PROVE  TypeOK'
<1>1. Shape'
  BY ShapeStep DEF CInv
<1>2. \A e \in audit' : e.event \in Events /\ e.by \in Reqs \cup {None}
  BY <1>1 DEF Shape, RecordType
<1>3. \A e \in audit' : e.plan \in made' /\ e.id \in Reqs \cup {e.plan}
  BY RecordStep
<1>4. ASSUME NEW r \in Reqs
      PROVE  /\ h'[r].pc \in {"new", "called", "over", "dead"}
             /\ h'[r].kind \in {None, "confirm", "execute"}
             /\ h'[r].plan \in Plans \cup {None} /\ h'[r].token \in BOOLEAN
  <2>1. h'[r] \in HandlerType
    BY <1>1 DEF Shape
  <2> QED BY <2>1 DEF HandlerType
<1>5. ASSUME NEW p \in Plans PROVE ran'[p].status \in {"no", "running", "completed", "failed"}
  <2>1. ran'[p] \in RanType
    BY <1>1 DEF Shape
  <2> QED BY <2>1 DEF RanType
<1>6. made' \in SUBSET Plans /\ expired' \in SUBSET made' /\ tokens' \in SUBSET Plans
  <2>1. made' = made \/ \E p \in Plans : made' = made \cup {p}
    BY DEF Next, vars, HandlePlan, Expire, SubmitConfirm, SubmitExecute, PlanNotFound,
           BrokerConfirm, BrokerConsume, BrokerExecute, BrokerReject, BrokerProblem,
           BrokerLost, BrokerFinish, Answer,
           ConfirmAnswered, ConfirmFailed, ExecuteAnswered, ExecuteProblem, ExecuteLost, Restart
  <2>2. expired' = expired \/ \E p \in made : expired' = expired \cup {p}
    BY DEF Next, vars, HandlePlan, Expire, SubmitConfirm, SubmitExecute, PlanNotFound,
           BrokerConfirm, BrokerConsume, BrokerExecute, BrokerReject, BrokerProblem,
           BrokerLost, BrokerFinish, Answer,
           ConfirmAnswered, ConfirmFailed, ExecuteAnswered, ExecuteProblem, ExecuteLost, Restart
  <2>3. ASSUME NEW r \in Reqs, ConfirmAnswered(r) PROVE tokens' \in SUBSET Plans
    <3>1. h[r].pc = "called" /\ tokens' \in {tokens, tokens \cup {h[r].plan}}
      BY <2>3 DEF ConfirmAnswered, Waiting
    <3>2. h[r].plan \in made
      BY <3>1 DEF CInv, CallInv, Called
    <3> QED BY <3>1, <3>2 DEF CInv, TypeOK
  <2>4. tokens' = tokens \/ \E r \in Reqs : ConfirmAnswered(r)
    BY DEF Next, vars, HandlePlan, Expire, SubmitConfirm, SubmitExecute, PlanNotFound,
           BrokerConfirm, BrokerConsume, BrokerExecute, BrokerReject, BrokerProblem,
           BrokerLost, BrokerFinish, Answer,
           ConfirmFailed, ExecuteAnswered, ExecuteProblem, ExecuteLost, Restart
  <2> QED BY <2>1, <2>2, <2>3, <2>4 DEF CInv, TypeOK
<1>7. /\ call' \in [Reqs -> {"none", "sent", "granted", "consumed", "rejected", "running", "completed",
                             "failed", "problem", "lost"}]
      /\ grant' \in [Plans -> {"none", "issued", "used"}]
  <2>1. ASSUME NEW r \in Reqs, NEW p, SubmitConfirm(r, p) \/ SubmitExecute(r, p)
        PROVE  call' = [call EXCEPT ![r] = "sent"]
    BY <2>1, Submission DEF Submitted
  <2>2. ASSUME NEW r \in Reqs,
               \/ BrokerConfirm(r) \/ BrokerConsume(r) \/ BrokerExecute(r)
               \/ BrokerReject(r) \/ BrokerProblem(r) \/ BrokerLost(r)
               \/ \E s \in {"completed", "failed"} : BrokerFinish(r, s)
        PROVE  \E c \in {"granted", "consumed", "rejected", "running", "completed", "failed", "problem", "lost"} :
                 call' = [call EXCEPT ![r] = c]
    BY <2>2 DEF BrokerConfirm, BrokerConsume, BrokerExecute, BrokerReject, BrokerProblem, BrokerLost, BrokerFinish
  <2>3. ASSUME NEW r \in Reqs, BrokerConfirm(r) \/ BrokerConsume(r)
        PROVE  \/ grant' = [grant EXCEPT ![h[r].plan] = "issued"]
               \/ grant' = [grant EXCEPT ![h[r].plan] = "used"]
    BY <2>3 DEF BrokerConfirm, BrokerConsume
  <2> QED BY <2>1, <2>2, <2>3, Writers DEF CInv, TypeOK, vars
<1>8. cache' \in SUBSET Plans
  BY <1>1, <1>6 DEF Shape
<1> QED BY <1>2, <1>3, <1>4, <1>5, <1>6, <1>7, <1>8 DEF TypeOK

(* The inductive invariant holds throughout every behaviour, whether or not  *)
(* appends to the audit file fail.                                           *)
THEOREM ControlInvariance == Spec => []CInv
<1>1. Init => CInv
  BY CInitInv
<1>2. CInv /\ [Next]_vars => CInv'
  BY TypeStep, ShapeStep, CallStep, RecordStep DEF CInv
<1> QED BY <1>1, <1>2, PTL DEF Spec

-----------------------------------------------------------------------------
(* Every variable keeps its type; plans are cached, expire and are on record *)
(* only once they were drawn up (handlePlan).                                *)
THEOREM ControlTypeCorrect == Spec => []TypeOK
BY ControlInvariance, PTL DEF CInv

(* What the audit file says of a request is what qcored did for it, although *)
(* calls are lost, answers come late and quantum-control restarts in between *)
(* (mutation_routes.go 70-96, security_routes.go 102-109).                   *)
THEOREM ResultsAreTrueHolds == Spec => []ResultsAreTrue
<1>1. ASSUME CInv PROVE ResultsAreTrue
  <2> SUFFICES ASSUME NEW e \in audit
               PROVE  /\ e.event \in {"operation.completed", "operation.failed"} =>
                           ran[e.plan] = [status |-> Outcome(e.event), by |-> e.by]
                      /\ e.event = "operation.rejected" => ran[e.plan].by # e.by
                      /\ e.event = "confirmation.issued" =>
                           /\ call[e.by] = "granted" /\ grant[e.plan] # "none"
                           /\ \A f \in audit : f.event = e.event /\ f.plan = e.plan => f = e
    BY DEF ResultsAreTrue
  <2>1. Truthful(e) /\ e.plan \in Plans /\ e \in RecordType
    BY <1>1 DEF CInv, RecordInv, TypeOK, Shape
  <2>2. ASSUME e.event = "operation.rejected" PROVE ran[e.plan].by # e.by
    <3>1. e.by \in Reqs /\ call[e.by] = "rejected"
      BY <2>1, <2>2 DEF Truthful, Results, Events
    <3>2. CASE ran[e.plan].status = "no"
      BY <1>1, <2>1, <3>1, <3>2, ControlAssumption DEF CInv, RanInv, NotRun
    <3>3. CASE ran[e.plan].status # "no"
      BY <1>1, <2>1, <3>1, <3>3 DEF CInv, RanInv
    <3> QED BY <3>2, <3>3
  <2>3. ASSUME e.event = "confirmation.issued"
        PROVE  /\ call[e.by] = "granted" /\ grant[e.plan] # "none"
               /\ \A f \in audit : f.event = e.event /\ f.plan = e.plan => f = e
    <3>1. e.by \in Reqs /\ e.id = e.by /\ call[e.by] = "granted" /\ h[e.by].plan = e.plan
      BY <2>1, <2>3 DEF Truthful
    <3>2. Called(e.by)
      BY <1>1, <3>1 DEF CInv, CallInv
    <3>3. ASSUME NEW f \in audit, f.event = e.event, f.plan = e.plan PROVE f = e
      <4>1. Truthful(f) /\ f \in RecordType
        BY <1>1 DEF CInv, RecordInv, Shape
      <4>2. f.by \in Reqs /\ f.id = f.by /\ call[f.by] = "granted" /\ h[f.by].plan = f.plan
        BY <2>3, <3>3, <4>1 DEF Truthful
      <4>3. f.by = e.by
        BY <3>1, <3>2, <3>3, <4>2 DEF Called
      <4> QED BY <2>1, <3>1, <3>3, <4>1, <4>2, <4>3 DEF RecordType
    <3> QED BY <3>1, <3>2, <3>3 DEF Called
  <2> QED BY <2>1, <2>2, <2>3 DEF Truthful
<1> QED BY <1>1, ControlInvariance, PTL

(***************************************************************************)
(* The trail, when no append fails (appendAudit 147-154).                  *)
(***************************************************************************)
(* Every step leaves its record before anything can be built on it.          *)
LEMMA TrailStep ==
  ASSUME ~AuditMayFail, CInv, Trail, [Next]_vars
  PROVE  Trail'
<1>1. /\ audit \subseteq audit' /\ made \subseteq made' /\ tokens \subseteq tokens'
      /\ \A r \in Reqs : h[r].pc # "new" =>
           h'[r].kind = h[r].kind /\ h'[r].plan = h[r].plan /\ h'[r].token = h[r].token
  BY NothingTakenBack
<1>2. \A event, p : Logged(event, p) => Logged(event, p)'
  BY <1>1 DEF Logged
<1>3. ASSUME NEW p \in made' PROVE Logged("plan.created", p)'
  <2>1. CASE p \in made
    BY <1>2, <2>1 DEF Trail
  <2>2. CASE p \notin made
    <3>1. p \in Plans /\ HandlePlan(p)
      BY <2>2 DEF Next, vars, HandlePlan, Expire, SubmitConfirm, SubmitExecute, PlanNotFound,
           BrokerConfirm, BrokerConsume, BrokerExecute, BrokerReject, BrokerProblem,
           BrokerLost, BrokerFinish, Answer,
           ConfirmAnswered, ConfirmFailed, ExecuteAnswered, ExecuteProblem, ExecuteLost, Restart
    <3>2. Record("plan.created", p, p, None) \in audit'
      BY <3>1 DEF HandlePlan, Log
    <3> QED BY <3>2 DEF Logged, Record
  <2> QED BY <2>1, <2>2
<1>4. ASSUME NEW p \in tokens' PROVE Logged("confirmation.issued", p)'
  <2>1. CASE p \in tokens
    BY <1>2, <2>1 DEF Trail
  <2>2. CASE p \notin tokens
    <3>1. PICK r \in Reqs : ConfirmAnswered(r) /\ p = h[r].plan
      BY <2>2 DEF Next, vars, HandlePlan, Expire, SubmitConfirm, SubmitExecute, PlanNotFound,
           BrokerConfirm, BrokerConsume, BrokerExecute, BrokerReject, BrokerProblem,
           BrokerLost, BrokerFinish, Answer,
           ConfirmAnswered, ConfirmFailed, ExecuteAnswered, ExecuteProblem, ExecuteLost, Restart
    <3>2. Record("confirmation.issued", p, r, r) \in audit'
      BY <3>1 DEF ConfirmAnswered, Log
    <3> QED BY <3>2 DEF Logged, Record
  <2> QED BY <2>1, <2>2
<1>5. ASSUME NEW r \in Reqs, h'[r].kind = "execute"
      PROVE  /\ Record("operation.attempt", h'[r].plan, r, r) \in audit'
             /\ h'[r].token => h'[r].plan \in tokens'
  <2>1. CASE h[r].pc # "new"
    BY <1>1, <1>5, <2>1 DEF Trail
  <2>2. CASE h[r].pc = "new"
    <3>1. h[r].kind # "execute"
      <4>1. h[r] = NewHandler
        BY <2>2 DEF CInv, CallInv, Called
      <4> QED BY <4>1, ControlAssumption DEF NewHandler
    <3>2. h' # h
      BY <1>5, <3>1
    <3>3. ~(Restart \/ \E u \in Reqs : Answer(u) \/ \E p \in Plans : PlanNotFound(u, p))
      BY <1>5, <3>1, OnlyPcMoves DEF CInv
    <3>4. Next
      BY <3>2 DEF vars
    <3>5. PICK u \in Reqs, p \in Plans : SubmitConfirm(u, p) \/ SubmitExecute(u, p)
      BY <3>2, <3>3, <3>4, Writers
    <3>6. PICK k \in {"confirm", "execute"}, t \in BOOLEAN : Submitted(u, p, k, t)
      BY <3>5, Submission
    <3>7. h \in [Reqs -> HandlerType]
      BY DEF CInv, Shape
    <3>8. u = r
      BY <1>5, <3>1, <3>6, <3>7 DEF Submitted
    <3>9. h'[r].kind = k /\ h'[r].plan = p /\ h'[r].token = t
      BY <3>6, <3>7, <3>8 DEF Submitted
    <3>10. Log("operation.attempt", p, r, r) /\ (t => p \in tokens)
      BY <1>5, <3>6, <3>8, <3>9 DEF Submitted
    <3> QED BY <1>1, <3>9, <3>10 DEF Log
  <2> QED BY <2>1, <2>2
<1> QED BY <1>3, <1>4, <1>5 DEF Trail

(* No transaction ever runs without its plan, a human's approval and its     *)
(* attempt on record, provided that no append fails.                         *)
THEOREM TrailBeforeActionHolds ==
  ASSUME ~AuditMayFail
  PROVE  Spec => []TrailBeforeAction
<1>1. Init => Trail
  BY CInitInv
<1>2. CInv /\ Trail /\ [Next]_vars => Trail'
  BY TrailStep
<1>3. CInv /\ Trail => TrailBeforeAction
  <2> SUFFICES ASSUME CInv, Trail, NEW p \in Plans, ran[p].status # "no"
               PROVE  /\ Logged("plan.created", p) /\ Logged("confirmation.issued", p)
                      /\ Record("operation.attempt", p, ran[p].by, ran[p].by) \in audit
    BY DEF TrailBeforeAction
  <2> DEFINE r == ran[p].by
  <2>1. /\ r \in Reqs /\ h[r].plan = p /\ h[r].kind = "execute" /\ h[r].token
        /\ call[r] \in {"running", "completed", "failed", "lost"}
    BY DEF CInv, RanInv
  <2>2. p \in made
    <3>1. call[r] # "none" => h[r].plan \in made
      BY <2>1, Zenon DEF CInv, CallInv, Called
    <3> QED BY <2>1, <3>1
  <2> QED BY <2>1, <2>2 DEF Trail
<1> QED BY <1>1, <1>2, <1>3, ControlInvariance, PTL DEF Spec

(* A request leaves one result at most, and none without its attempt,        *)
(* provided that no append fails.                                            *)
THEOREM OneResultHolds ==
  ASSUME ~AuditMayFail
  PROVE  Spec => []OneResult
<1>1. Init => Trail
  BY CInitInv
<1>2. CInv /\ Trail /\ [Next]_vars => Trail'
  BY TrailStep
<1>3. CInv /\ Trail => OneResult
  <2> SUFFICES ASSUME CInv, Trail, NEW r \in Reqs
               PROVE  LET results == {e \in audit : e.by = r /\ e.event \in Results}
                      IN /\ Cardinality(results) <= 1
                         /\ \A e \in results : Record("operation.attempt", e.plan, r, r) \in audit
    BY DEF OneResult
  <2> DEFINE results == {e \in audit : e.by = r /\ e.event \in Results}
  <2>1. \A e, f \in results : e = f
    BY DEF CInv, RecordInv
  <2> HIDE DEF results
  <2>2. Cardinality(results) <= 1
    <3>1. CASE results = {}
      BY <3>1, FS_EmptySet
    <3>2. CASE results # {}
      <4>1. PICK e : e \in results
        BY <3>2
      <4>2. results = {e}
        BY <2>1, <4>1
      <4>3. Cardinality({e}) = 1
        BY FS_Singleton
      <4> QED BY <4>2, <4>3
    <3> QED BY <3>1, <3>2
  <2>3. ASSUME NEW e \in results PROVE Record("operation.attempt", e.plan, r, r) \in audit
    <3>1. e \in audit /\ e.by = r /\ e.event \in Results
      BY DEF results
    <3>2. h[r].kind = "execute" /\ h[r].plan = e.plan
      BY <3>1 DEF CInv, RecordInv, Truthful
    <3> QED BY <3>2 DEF Trail
  <2> QED BY <2>2, <2>3 DEF results
<1> QED BY <1>1, <1>2, <1>3, ControlInvariance, PTL DEF Spec

(* A request answered has its result on record, but for the answers without  *)
(* a status.                                                                 *)
Settled ==
  \A r \in Reqs : h[r].pc = "over" /\ h[r].kind = "execute" /\ call[r] # "problem" => HasResult(r)

(* A result that is logged is on record, if no append fails (appendAudit).   *)
LEMMA ResultLogged ==
  ASSUME ~AuditMayFail, NEW event \in Results, NEW p, NEW id, NEW r, Log(event, p, id, r)
  PROVE  HasResult(r)'
<1>1. Record(event, p, id, r) \in audit'
  BY DEF Log
<1>2. Record(event, p, id, r).by = r /\ Record(event, p, id, r).event = event
  BY DEF Record
<1>3. \E e \in audit' : e.by = r /\ e.event \in Results
  BY <1>1, <1>2, Zenon
<1> QED BY <1>3 DEF HasResult

(* Every way to answer an execution leaves its result, or was a problem, and *)
(* a problem stays one.                                                      *)
LEMMA SettledStep ==
  ASSUME ~AuditMayFail, CInv, Settled, [Next]_vars
  PROVE  Settled'
<1> SUFFICES ASSUME NEW r \in Reqs, h'[r].pc = "over", h'[r].kind = "execute", call'[r] # "problem"
             PROVE  HasResult(r)'
  BY DEF Settled
<1>1. /\ audit \subseteq audit' /\ h \in [Reqs -> HandlerType]
      /\ call[r] = "problem" => call'[r] = "problem"
  BY NothingTakenBack DEF CInv, Shape
<1>2. HasResult(r) => HasResult(r)'
  BY <1>1 DEF HasResult
<1>3. CASE h'[r] = h[r]
  BY <1>1, <1>2, <1>3 DEF Settled
<1>4. CASE h'[r] # h[r]
  <2>1. ASSUME Restart PROVE FALSE
    BY <1>1, <1>4, <2>1 DEF Restart
  <2>2. ASSUME NEW u \in Reqs, NEW p \in Plans,
               SubmitConfirm(u, p) \/ SubmitExecute(u, p) \/ PlanNotFound(u, p)
        PROVE  FALSE
    <3>1. ASSUME SubmitConfirm(u, p) \/ SubmitExecute(u, p) PROVE FALSE
      BY <1>1, <1>4, <3>1, Submission DEF Submitted
    <3>2. ASSUME PlanNotFound(u, p) PROVE FALSE
      BY <1>1, <1>4, <3>2, ControlAssumption DEF PlanNotFound, Reply, NewHandler
    <3> QED BY <2>2, <3>1, <3>2
  <2>3. PICK u \in Reqs : Answer(u)
    BY <1>4, <2>1, <2>2, Writers DEF vars
  <2>4. u = r /\ h[r].kind = "execute" /\ call' = call
    <3>1. h' = [h EXCEPT ![u].pc = "over"] /\ call' = call
      BY <2>3 DEF Answer, ConfirmAnswered, ConfirmFailed, ExecuteAnswered, ExecuteProblem,
                  ExecuteLost, Reply
    <3>2. u = r
      BY <1>1, <1>4, <3>1
    <3>3. h[r] \in HandlerType
      BY <1>1
    <3> QED BY <1>1, <3>1, <3>2, <3>3 DEF HandlerType
  <2>5. ~ConfirmAnswered(r) /\ ~ConfirmFailed(r) /\ ~ExecuteProblem(r)
    BY <2>4 DEF ConfirmAnswered, ConfirmFailed, ExecuteProblem, Waiting
  <2>6. CASE ExecuteAnswered(r)
    <3>1. Log(AnswerEvent(call[r]), h[r].plan, h[r].plan, r)
      BY <2>6, Zenon DEF ExecuteAnswered, AnswerEvent
    <3>2. AnswerEvent(call[r]) \in Results
      BY DEF AnswerEvent, Results, Events
    <3> QED BY <3>1, <3>2, ResultLogged
  <2>7. CASE ExecuteLost(r)
    <3>1. Log("operation.unknown", h[r].plan, r, r)
      BY <2>7 DEF ExecuteLost
    <3>2. "operation.unknown" \in Results
      BY DEF Results, Events
    <3> QED BY <3>1, <3>2, ResultLogged
  <2> QED BY <2>3, <2>4, <2>5, <2>6, <2>7 DEF Answer
<1> QED BY <1>3, <1>4

(* Nothing qcored ran stays without a result on record once its request was  *)
(* answered, provided that no append fails (handleApprovedExecute 69-94).    *)
THEOREM NoSilentTransactionHolds ==
  ASSUME ~AuditMayFail
  PROVE  Spec => []NoSilentTransaction
<1>1. Init => Settled
  BY DEF Init, Settled, NewHandler
<1>2. CInv /\ Settled /\ [Next]_vars => Settled'
  BY SettledStep
<1>3. CInv /\ Settled => NoSilentTransaction
  BY DEF CInv, RanInv, Settled, NoSilentTransaction
<1> QED BY <1>1, <1>2, <1>3, ControlInvariance, PTL DEF Spec

(***************************************************************************)
(* qcored's part, as the abstract single-use grant.                        *)
(***************************************************************************)
(* Using up the grant, and starting the transaction, are an abstract spend   *)
(* and an abstract acceptance; confirming is an abstract issue.              *)
LEMMA QcoredStep ==
  ASSUME CInv, CInv', [Next]_vars
  PROVE  [G!AbsNext]_(G!absVars)
<1> DEFINE own == [p \in Plans |-> IF grant[p] = "none" THEN None ELSE p]
           used == {p \in Plans : grant[p] = "used"}
           acc == [p \in Plans |-> IF ran[p].status = "no" THEN 0 ELSE 1]
<1>1. /\ grant \in [Plans -> {"none", "issued", "used"}] /\ None \notin Plans
      /\ ran \in [Plans -> RanType] /\ CallInv /\ RanInv
  BY ControlAssumption DEF CInv, TypeOK, Shape
<1>2. ASSUME NEW r \in Reqs, call[r] # "none" PROVE h[r].plan \in Plans
  BY <1>2 DEF CInv, TypeOK, CallInv, Called
<1>3. ASSUME NEW r \in Reqs, BrokerConfirm(r) PROVE G!AbsNext
  <2>1. PICK p \in Plans : /\ grant[p] = "none" /\ grant' = [grant EXCEPT ![p] = "issued"]
                           /\ ran' = ran
    BY <1>2, <1>3 DEF BrokerConfirm
  <2>2. grant'[p] = "issued" /\ \A q \in Plans \ {p} : grant'[q] = grant[q]
    BY <1>1, <2>1
  <2>3. own' = [own EXCEPT ![p] = p] /\ own[p] = None /\ \A q \in Plans : own[q] # p
    BY <1>1, <2>1, <2>2
  <2>4. used' = used /\ acc' = acc
    BY <1>1, <2>1, <2>2
  <2>5. G!AbsIssue(p, p)
    BY <2>1, <2>3, <2>4 DEF G!AbsIssue
  <2> QED BY <2>1, <2>5 DEF G!AbsNext
<1>4. ASSUME NEW r \in Reqs, BrokerConsume(r) PROVE G!AbsNext
  <2>1. PICK p \in Plans : /\ grant[p] = "issued" /\ grant' = [grant EXCEPT ![p] = "used"]
                           /\ ran' = ran
    BY <1>2, <1>4 DEF BrokerConsume
  <2>2. grant'[p] = "used" /\ \A q \in Plans \ {p} : grant'[q] = grant[q]
    BY <1>1, <2>1
  <2>3. own' = own /\ own[p] # None
    BY <1>1, <2>1, <2>2
  <2>4. used' = used \cup {p} /\ p \notin used /\ acc' = acc
    BY <1>1, <2>1, <2>2
  <2>5. G!AbsSpend(p)
    BY <2>1, <2>3, <2>4 DEF G!AbsSpend
  <2> QED BY <2>1, <2>5 DEF G!AbsNext
<1>5. ASSUME NEW r \in Reqs, BrokerExecute(r) PROVE G!AbsNext
  <2>1. PICK p \in Plans :
          /\ p = h[r].plan /\ call[r] = "consumed" /\ grant' = grant
          /\ ran' = [ran EXCEPT ![p] = [status |-> "running", by |-> r]]
    BY <1>2, <1>5 DEF BrokerExecute
  <2>2. grant[p] = "used" /\ ran[p] = NotRun
    BY <1>1, <2>1, Zenon DEF CallInv, Called
  <2>3. ran'[p].status # "no" /\ ran[p].status = "no" /\ \A q \in Plans \ {p} : ran'[q] = ran[q]
    BY <1>1, <2>1, <2>2 DEF NotRun
  <2>4. own' = own /\ used' = used /\ p \in used
    BY <1>1, <2>1, <2>2
  <2>5. acc' = [acc EXCEPT ![p] = 1] /\ acc[p] = 0
    BY <2>1, <2>3
  <2>6. G!AbsAccept(p)
    BY <2>1, <2>4, <2>5 DEF G!AbsAccept
  <2> QED BY <2>1, <2>6 DEF G!AbsNext
<1>6. ASSUME NEW r \in Reqs, NEW s \in {"completed", "failed"}, BrokerFinish(r, s)
      PROVE  UNCHANGED G!absVars
  <2>1. call[r] = "running" /\ grant' = grant /\ ran' = [ran EXCEPT ![h[r].plan].status = s]
    BY <1>6 DEF BrokerFinish
  <2>2. ran[h[r].plan] = [status |-> call[r], by |-> r]
    BY <1>1, <2>1, Zenon DEF CallInv, Called
  <2>3. \A q \in Plans : ran'[q].status = "no" <=> ran[q].status = "no"
    BY <1>1, <2>1, <2>2 DEF RanType
  <2>4. acc' = acc
    BY <2>3
  <2> QED BY <2>1, <2>4 DEF G!absVars
<1>7. UNCHANGED <<grant, ran>> => UNCHANGED G!absVars
  BY DEF G!absVars
<1>8. UNCHANGED vars => UNCHANGED <<grant, ran>>
  BY DEF vars
<1>9. CASE Next /\ ~UNCHANGED <<grant, ran>>
  BY <1>3, <1>4, <1>5, <1>6, <1>9, Writers
<1> QED BY <1>7, <1>8, <1>9

(* What this module takes qcored to do with its grants, the abstract grant   *)
(* allows; ApprovalBroker, which is qcored in detail, implements the same    *)
(* (handleConfirm 79-115, handleExecuteApproved 117-151).                    *)
THEOREM QcoredSingleUseHolds == Spec => QcoredSingleUse
<1>1. Init => G!AbsInit
  BY DEF Init, NotRun, G!AbsInit
<1>2. CInv /\ CInv' /\ [Next]_vars => [G!AbsNext]_(G!absVars)
  BY QcoredStep
<1> QED BY <1>1, <1>2, ControlInvariance, PTL DEF Spec, QcoredSingleUse, G!AbsSpec

=============================================================================
