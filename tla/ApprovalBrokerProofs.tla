------------------------ MODULE ApprovalBrokerProofs ------------------------
(***************************************************************************)
(* ApprovalBroker, proved for any plans, actors, tokens, requests and      *)
(* policies.  Every step of the endpoints is a step of the store or leaves *)
(* it alone, so that the store's invariant Inv holds here too.  To it the  *)
(* invariant BrokerInv adds what a request has behind it at each step, and *)
(* what stands behind each transaction that was started.                   *)
(***************************************************************************)
EXTENDS ApprovalBroker, GrantStoreProofs, SequenceTheorems

(* A grant made for this plan, on behalf of its actor.                       *)
Bound(g, p) == g # None /\ SamePlan(g, p) /\ g.subject = p.actor

(* What ValidateApprovedPlan established when the request arrived and no     *)
(* later change can take back.                                               *)
Vetted(p) == VerifyPlanDigest(p) /\ "" \notin {p.id, p.actor, p.session, p.action}

(* A request q whose call to the store is at o, with the store's memory mem, *)
(* its file, the acceptances acc and the known tokens.                       *)
Flight(q, o, mem, file, acc, tokens) ==
  /\ q.pc # "store" => o = Idle
  /\ q.pc # "idle" =>
       /\ q.plan \in Plans /\ q.actor \in Actors /\ Vetted(q.plan)
       /\ q.kind \in {"confirm", "execute"}
       /\ q.kind = "execute" => q.token \in tokens
  /\ q.pc = "idle" => q = NoReq
  /\ o.pc \in {"consume", "consumed"} => q.kind = "execute" /\ o.token = q.token
  /\ o.pc = "consume" => Bound(mem[q.token], q.plan)
  /\ o.pc = "consumed" => Bound(file[q.token], q.plan)
  /\ q.pc = "execute" =>
       q.kind = "execute" /\ Bound(file[q.token], q.plan) /\ acc[q.token] = 1

InFlight == \A r \in Requests : Flight(req[r], op[r], data, disk, accepted, known)

(* A transaction x that was started.                                         *)
Backed(x, file, acc) ==
  /\ acc[x.token] = 1 /\ Bound(file[x.token], x.plan) /\ VerifyPlanDigest(x.plan)
  /\ x.executor.kind # "tci" /\ x.plan.unit \in CompiledUnits /\ x.at < x.plan.expires

Run == [plan : Plans, token : Tokens, executor : Actors, at : Times]

Behind == ran \in Seq(Run) /\ \A i \in 1 .. Len(ran) : Backed(ran[i], disk, accepted)

(* No token is behind two transactions, or behind one and about to start     *)
(* another.                                                                  *)
TokensApart ==
  /\ \A i, j \in 1 .. Len(ran) : i # j => ran[i].token # ran[j].token
  /\ \A r \in Requests : req[r].pc = "execute" =>
       /\ \A i \in 1 .. Len(ran) : ran[i].token # req[r].token
       /\ \A s \in Requests : req[s].pc = "execute" /\ req[s].token = req[r].token => s = r

(* load asks this of each grant (187-195).                                   *)
Loadable(g) == "" \notin {g.planId, g.subject, g.session, g.action}
AllLoadable(file) == \A t \in Tokens : file[t] # None => Loadable(file[t])

BrokerInv ==
  /\ Inv /\ BrokerTypeOK /\ InFlight /\ Behind /\ TokensApart
  /\ AllLoadable(data) /\ AllLoadable(disk)

(***************************************************************************)
(* The store under the endpoints.                                          *)
(***************************************************************************)
(* Every step of the endpoints is one of the store, or leaves it alone       *)
(* (handleConfirm 79-115, handleExecuteApproved 117-151).                    *)
LEMMA StoreStep ==
  ASSUME InFlight, BrokerNext
  PROVE  [Next]_vars
<1>1. ASSUME NEW r \in Requests, CallStore(r) PROVE Next
  <2>1. /\ req[r].plan \in Plans /\ req[r].actor \in Actors
        /\ req[r].kind = "execute" => req[r].token \in known
    BY <1>1 DEF CallStore, InFlight, Flight
  <2>2. CASE req[r].kind = "confirm"
    BY <1>1, <2>1, <2>2 DEF CallStore, Next
  <2>3. CASE req[r].kind # "confirm"
    <3>1. req[r].kind = "execute" => req[r].token \in known
      BY <2>1
    <3>2. req[r].plan.actor \in ActorIds
      BY <2>1 DEF ActorIds
    <3>3. req[r].kind = "execute"
      BY <1>1, <2>3 DEF CallStore, InFlight, Flight
    <3> QED BY <1>1, <2>1, <2>3, <3>2, <3>3 DEF CallStore, Next
  <2> QED BY <2>2, <2>3
<1>2. ASSUME NEW r \in Requests, WriteStore(r) \/ StoreReturned(r) PROVE Next
  BY <1>2 DEF WriteStore, StoreReturned, Next
<1>3. ASSUME NEW r \in Requests, ExecuteApproved(r) \/ Finish(r) PROVE UNCHANGED vars
  BY <1>3 DEF ExecuteApproved, Finish
<1>4. ASSUME NEW r \in Requests, NEW p \in Plans, NEW a \in Actors \cup {None}, NEW k, NEW t,
             Arrive(r, k, p, a, t)
      PROVE  UNCHANGED vars
  BY <1>4 DEF Arrive
<1>5. BrokerCrash \/ BrokerStart \/ Clock => Next
  BY DEF BrokerCrash, BrokerStart, Clock, Next
<1> QED BY <1>1, <1>2, <1>3, <1>4, <1>5 DEF BrokerNext, Handle

(* What the file says of a grant's plan stays, and so does an acceptance.    *)
LEMMA GrantsStay ==
  ASSUME Inv, [Next]_vars, NEW t \in Tokens, NEW p, Bound(disk[t], p)
  PROVE  Bound(disk'[t], p)
<1>1. CASE disk' = disk
  BY <1>1
<1>2. CASE disk' # disk
  <2>1. PICK r \in Requests : PersistOk(r)
    BY <1>2, DiskStep
  <2>2. PICK u \in Tokens :
          /\ \A v \in Tokens : v # u => disk'[v] = disk[v]
          /\ \/ disk[u] = None
             \/ Used(disk'[u]) /\ disk'[u] = MarkUsed(disk[u], disk'[u].usedAt)
    BY <2>1, PersistOkChange
  <2>3. CASE t = u
    BY <2>2, <2>3 DEF Bound, Used, MarkUsed, SamePlan
  <2>4. CASE t # u
    BY <2>2, <2>4
  <2> QED BY <2>3, <2>4
<1> QED BY <1>1, <1>2

(* An accepted token stays accepted, once (Return counts only new ones).     *)
LEMMA AcceptedStays ==
  ASSUME Inv, [Next]_vars, NEW t \in Tokens, accepted[t] = 1
  PROVE  accepted'[t] = 1
<1>1. accepted \in [Tokens -> Nat]
  BY DEF Inv, TypeOK
<1>2. ASSUME NEW r \in Requests, Return(r) PROVE accepted'[t] = 1
  <2>1. CASE op[r].pc = "consumed"
    <3>1. accepted[op[r].token] = 0
      BY <2>1 DEF Inv, AcceptInv
    <3>2. accepted' = [accepted EXCEPT ![op[r].token] = @ + 1]
      BY <1>2, <2>1 DEF Return
    <3> QED BY <1>1, <3>1, <3>2
  <2>2. CASE op[r].pc # "consumed"
    BY <1>2, <2>2 DEF Return
  <2> QED BY <2>1, <2>2
<1>3. (\E r \in Requests : Return(r)) \/ UNCHANGED accepted
  BY DEF Next, vars, Issue, Consume, Refuse, PersistOk, PersistFails, Crash, OpenGrantStore, Tick
<1> QED BY <1>2, <1>3

(* Nobody forgets a token they were given.                                   *)
LEMMA KnownStays ==
  ASSUME [Next]_vars
  PROVE  known \subseteq known'
BY DEF Next, vars, Issue, Consume, Refuse, PersistOk, PersistFails, Return, Crash, OpenGrantStore, Tick

(* So does what is behind a transaction.                                     *)
LEMMA BackedStays ==
  ASSUME Inv, [Next]_vars, NEW x, x.token \in Tokens, Backed(x, disk, accepted)
  PROVE  Backed(x, disk', accepted')
BY GrantsStay, AcceptedStays DEF Backed

(* A request that does not move keeps what it has behind it: the memory      *)
(* under a consumption in progress is its own.                               *)
LEMMA FlightStays ==
  ASSUME Inv, [Next]_vars, known \in SUBSET Tokens, NEW q, NEW o,
         Flight(q, o, data, disk, accepted, known),
         o.pc = "consume" => data'[q.token] = data[q.token]
  PROVE  Flight(q, o, data', disk', accepted', known')
<1>1. known \subseteq known'
  BY KnownStays
<1>2. q.pc = "execute" => q.token \in Tokens
  BY DEF Flight
<1>3. o.pc = "consumed" => q.pc = "store" /\ q.kind = "execute"
  BY DEF Flight, Idle
<1>4. o.pc = "consumed" => q.token \in Tokens
  BY <1>3 DEF Flight
<1> QED BY <1>1, <1>2, <1>4, GrantsStay, AcceptedStays DEF Flight

(***************************************************************************)
(* The invariant is inductive.  A step moves one request at most: it is    *)
(* enough to look at that one, at the grants in memory and file, and at    *)
(* the transactions.                                                       *)
(***************************************************************************)
(* The initial state: nothing stored, nobody at work.                        *)
LEMMA BrokerInitInv == BrokerInit => BrokerInv
<1> SUFFICES ASSUME BrokerInit PROVE BrokerInv
  OBVIOUS
<1>1. Inv
  BY InitInv DEF BrokerInit
<1>2. ran = <<>> /\ Len(ran) = 0 /\ ran \in Seq(Run)
  BY DEF BrokerInit
<1>3. BrokerTypeOK
  BY <1>1, <1>2 DEF BrokerInit, BrokerTypeOK, Inv, NoReq
<1>4. ASSUME NEW r \in Requests PROVE Flight(req[r], op[r], data, disk, accepted, known)
  <2>1. req[r] = NoReq /\ op[r] = Idle
    BY DEF BrokerInit, Init
  <2> QED BY <2>1 DEF Flight, NoReq, Idle
<1>5. Behind
  BY <1>2 DEF Behind
<1>6. TokensApart
  BY <1>2 DEF TokensApart, BrokerInit, NoReq
<1>7. AllLoadable(data) /\ AllLoadable(disk)
  BY DEF BrokerInit, Init, AllLoadable
<1> QED BY <1>1, <1>3, <1>4, <1>5, <1>6, <1>7 DEF BrokerInv, InFlight

(* Only Issue puts a new grant in memory; everything else that memory or     *)
(* file may hold afterwards was held before, but for the mark of its use.    *)
Alike(g, h) == /\ g.planId = h.planId /\ g.subject = h.subject
               /\ g.session = h.session /\ g.action = h.action

NoIssue ==
  \/ \E r \in Requests, u \in known, p \in Plans, s \in ActorIds : Consume(r, u, p, s, p.action)
  \/ \E r \in Requests : PersistOk(r) \/ PersistFails(r) \/ Return(r)
  \/ Crash \/ OpenGrantStore \/ Tick \/ UNCHANGED vars

(* The store's other operations (Consume 141-158, its undo, load 206).       *)
LEMMA OnlyIssueMakesGrants ==
  ASSUME Inv, NoIssue, NEW t \in Tokens
  PROVE  /\ disk'[t] # None => \/ disk[t] # None /\ disk'[t] = disk[t]
                               \/ data[t] # None /\ disk'[t] = data[t]
         /\ data'[t] # None => \/ disk[t] # None /\ data'[t] = disk[t]
                               \/ data[t] # None /\ Alike(data'[t], data[t])
<1>1. data \in [Tokens -> Grant \cup {None}] /\ disk \in [Tokens -> Grant \cup {None}]
  BY DEF Inv, TypeOK
<1>3. ASSUME NEW r \in Requests, NEW u \in known, NEW p \in Plans, NEW s \in ActorIds,
             Consume(r, u, p, s, p.action)
      PROVE  /\ disk' = disk
             /\ data'[t] # data[t] => data[t] # None /\ Alike(data'[t], data[t])
  <2>1. CASE ConsumeAllowed(u, p, s, p.action)
    <3>1. data' = [data EXCEPT ![u] = MarkUsed(@, clock)] /\ disk' = disk
      BY <1>3, <2>1 DEF Consume
    <3>2. data[u] # None /\ u \in Tokens
      BY <2>1 DEF ConsumeAllowed, Inv, TypeOK
    <3> QED BY <1>1, <3>1, <3>2 DEF Alike, MarkUsed
  <2>2. CASE ~ConsumeAllowed(u, p, s, p.action)
    BY <1>3, <2>2 DEF Consume, Refuse
  <2> QED BY <2>1, <2>2
<1>4. ASSUME NEW r \in Requests, PersistFails(r)
      PROVE  disk' = disk /\ (data'[t] # None => data[t] # None /\ Alike(data'[t], data[t]))
  <2>1. data' = Undone(r) /\ disk' = disk
    BY <1>4 DEF PersistFails
  <2>2. CASE op[r].pc = "issue"
    BY <1>1, <2>1, <2>2 DEF Undone, Alike
  <2>3. CASE op[r].pc # "issue"
    <3>1. op[r].pc = "consume" /\ data[op[r].token] # None
      BY <1>4, <2>3 DEF PersistFails, Writing, Inv, DataInv
    <3>2. data' = [data EXCEPT ![op[r].token] = MarkUsed(@, Zero)]
      BY <2>1, <2>3 DEF Undone
    <3> QED BY <1>1, <2>1, <3>1, <3>2 DEF Alike, MarkUsed
  <2> QED BY <2>2, <2>3
<1>5. ASSUME NEW r \in Requests, PersistOk(r) PROVE disk' = data /\ data' = data
  BY <1>5 DEF PersistOk
<1>6. ASSUME (\E r \in Requests : Return(r)) \/ Tick \/ UNCHANGED vars
      PROVE  disk' = disk /\ data' = data
  BY <1>6 DEF Return, Tick, vars
<1>7. Crash => disk' = disk /\ data'[t] = None
  BY DEF Crash
<1>8. OpenGrantStore => disk' = disk /\ data' = disk
  BY DEF OpenGrantStore
<1>9. Alike(data[t], data[t])
  BY DEF Alike
<1>11. CASE \E r \in Requests, u \in known, p \in Plans, s \in ActorIds :
              Consume(r, u, p, s, p.action)
  BY <1>3, <1>9, <1>11
<1>12. CASE \E r \in Requests : PersistOk(r) \/ PersistFails(r)
  BY <1>4, <1>5, <1>9, <1>12
<1> QED BY <1>6, <1>7, <1>8, <1>9, <1>11, <1>12 DEF NoIssue

(* What is written can be read back (load 184-202): Issue writes what the    *)
(* vetted plan of its request says.                                          *)
LEMMA LoadableStays ==
  ASSUME Inv, InFlight, AllLoadable(data), AllLoadable(disk), BrokerNext
  PROVE  AllLoadable(data)' /\ AllLoadable(disk)'
<1>1. ASSUME NoIssue PROVE AllLoadable(data)' /\ AllLoadable(disk)'
  <2> SUFFICES ASSUME NEW t \in Tokens
               PROVE  /\ data'[t] # None => Loadable(data'[t])
                      /\ disk'[t] # None => Loadable(disk'[t])
    BY DEF AllLoadable
  <2>1. /\ disk'[t] # None => \/ disk[t] # None /\ disk'[t] = disk[t]
                              \/ data[t] # None /\ disk'[t] = data[t]
        /\ data'[t] # None => \/ disk[t] # None /\ data'[t] = disk[t]
                              \/ data[t] # None /\ Alike(data'[t], data[t])
    BY <1>1, OnlyIssueMakesGrants
  <2>2. /\ disk[t] # None => Loadable(disk[t])
        /\ data[t] # None => Loadable(data[t])
    BY DEF AllLoadable
  <2> QED BY <2>1, <2>2 DEF Loadable, Alike
<1>2. ASSUME NEW r \in Requests, CallStore(r), req[r].kind = "confirm"
      PROVE  AllLoadable(data)' /\ AllLoadable(disk)'
  <2>1. Vetted(req[r].plan)
    BY <1>2 DEF CallStore, InFlight, Flight
  <2>2. Issue(r, req[r].plan, req[r].actor)
    BY <1>2 DEF CallStore
  <2>3. Loadable(NewGrant(req[r].plan, req[r].actor))
    BY <2>1 DEF Vetted, Loadable, NewGrant
  <2>4. disk' = disk /\ \A t \in Tokens :
                          \/ data'[t] = data[t]
                          \/ data'[t] = NewGrant(req[r].plan, req[r].actor)
    BY <2>2 DEF Issue, Refuse, Inv, TypeOK
  <2> QED BY <2>3, <2>4 DEF AllLoadable
<1>3. ASSUME NEW r \in Requests, CallStore(r), req[r].kind # "confirm" PROVE NoIssue
  <2>1. req[r].kind = "execute" /\ req[r].plan \in Plans /\ req[r].token \in known
    BY <1>3 DEF CallStore, InFlight, Flight
  <2>2. req[r].plan.actor \in ActorIds
    BY <2>1 DEF ActorIds
  <2> QED BY <1>3, <2>1, <2>2 DEF CallStore, NoIssue
<1>4. ASSUME NEW r \in Requests, NEW p \in Plans, NEW a \in Actors \cup {None}, NEW k, NEW t,
             Arrive(r, k, p, a, t)
      PROVE  NoIssue
  BY <1>4 DEF Arrive, NoIssue
<1>5. ASSUME NEW r \in Requests,
             WriteStore(r) \/ StoreReturned(r) \/ ExecuteApproved(r) \/ Finish(r)
      PROVE  NoIssue
  BY <1>5 DEF WriteStore, StoreReturned, ExecuteApproved, Finish, NoIssue
<1>6. BrokerCrash \/ BrokerStart \/ Clock => NoIssue
  BY DEF BrokerCrash, BrokerStart, Clock, NoIssue
<1> QED BY <1>1, <1>2, <1>3, <1>4, <1>5, <1>6 DEF BrokerNext, Handle

(* A step that starts no transaction and moves no request to its start keeps *)
(* what is said about transactions.                                          *)
LEMMA RunsStay ==
  ASSUME BrokerInv, [Next]_vars, UNCHANGED ran,
         \A r \in Requests : req'[r].pc = "execute" => req'[r] = req[r]
  PROVE  Behind' /\ TokensApart'
<1>1. ran \in Seq(Run) /\ \A i \in 1 .. Len(ran) : Backed(ran[i], disk, accepted)
  BY DEF BrokerInv, Behind
<1>2. ASSUME NEW i \in 1 .. Len(ran) PROVE Backed(ran[i], disk', accepted')
  <2>1. ran[i] \in Run
    BY <1>1
  <2>2. ran[i].token \in Tokens
    BY <2>1 DEF Run
  <2> QED BY <1>1, <2>2, BackedStays DEF BrokerInv
<1>3. Behind'
  BY <1>1, <1>2 DEF Behind
<1>4. TokensApart'
  BY DEF BrokerInv, TokensApart
<1> QED BY <1>3, <1>4

ReqType == [pc : {"idle", "call", "store", "execute", "run"},
            kind : {"none", "confirm", "execute"},
            plan : Plans \cup {None}, actor : Actors \cup {None}, token : Tokens \cup {None}]

(* A step of request r alone.                                                *)
LEMMA OneMoves ==
  ASSUME BrokerInv, [Next]_vars, NEW r \in Requests, NEW q \in ReqType,
         req' = [req EXCEPT ![r] = q], UNCHANGED policy,
         \A s \in Requests \ {r} : op'[s] = op[s] /\ (mu = s => data' = data),
         Flight(q, op'[r], data', disk', accepted', known'),
         Behind'
  PROVE  InFlight' /\ BrokerTypeOK'
<1>1. req \in [Requests -> ReqType] /\ policy \in SUBSET CompiledUnits
  BY DEF BrokerInv, BrokerTypeOK, ReqType
<1>2. ASSUME NEW s \in Requests PROVE Flight(req'[s], op'[s], data', disk', accepted', known')
  <2>1. CASE s = r
    BY <1>1, <2>1
  <2>2. CASE s # r
    <3>1. req'[s] = req[s] /\ op'[s] = op[s] /\ (mu = s => data' = data)
      BY <1>1, <2>2
    <3>2. Flight(req[s], op[s], data, disk, accepted, known) /\ known \in SUBSET Tokens
      BY DEF BrokerInv, InFlight, Inv, TypeOK
    <3>3. op[s].pc = "consume" => mu = s
      BY DEF BrokerInv, Inv, LockInv
    <3> QED BY <3>1, <3>2, <3>3, FlightStays DEF BrokerInv
  <2> QED BY <2>1, <2>2
<1>3. InFlight'
  BY <1>2 DEF InFlight
<1>4. TypeOK'
  BY NextInv DEF BrokerInv, Inv
<1>5. ASSUME NEW i \in 1 .. Len(ran') PROVE ran'[i].at \in Times
  <2>1. ran' \in Seq(Run)
    BY DEF Behind
  <2>2. ran'[i] \in Run
    BY <2>1
  <2> QED BY <2>2 DEF Run
<1>6. req' \in [Requests -> ReqType]
  BY <1>1
<1> QED BY <1>1, <1>3, <1>4, <1>5, <1>6 DEF BrokerTypeOK, ReqType

(* The parts of the invariant that a step of one request can disturb, when   *)
(* it starts no transaction.                                                 *)
LEMMA MovesOnly ==
  ASSUME BrokerInv, BrokerNext, NEW r \in Requests, NEW q \in ReqType,
         req' = [req EXCEPT ![r] = q], UNCHANGED <<policy, ran>>,
         q.pc = "execute" => q = req[r],
         \A s \in Requests \ {r} : op'[s] = op[s] /\ (mu = s => data' = data),
         Flight(q, op'[r], data', disk', accepted', known')
  PROVE  BrokerInv'
<1>1. [Next]_vars
  BY StoreStep DEF BrokerInv
<1>2. req \in [Requests -> ReqType]
  BY DEF BrokerInv, BrokerTypeOK, ReqType
<1>3. Behind' /\ TokensApart'
  BY <1>1, <1>2, RunsStay
<1>4. InFlight' /\ BrokerTypeOK'
  BY <1>1, <1>3, OneMoves
<1>5. AllLoadable(data)' /\ AllLoadable(disk)'
  BY LoadableStays DEF BrokerInv
<1>6. Inv'
  BY <1>1, NextInv DEF BrokerInv
<1> QED BY <1>3, <1>4, <1>5, <1>6 DEF BrokerInv

(* A request that arrives has been vetted (server.go 79-105, 117-141).       *)
LEMMA ArriveInv ==
  ASSUME BrokerInv, BrokerNext, NEW r \in Requests, NEW p \in Plans, NEW a \in Actors \cup {None},
         NEW k \in {"confirm", "execute"}, NEW t \in known \cup {None}, k = "execute" => t \in known,
         Arrive(r, k, p, a, t)
  PROVE  BrokerInv'
<1> DEFINE q == [pc |-> "call", kind |-> k, plan |-> p, actor |-> a, token |-> t]
<1>1. known \in SUBSET Tokens
  BY DEF BrokerInv, Inv, TypeOK
<1>2. q \in ReqType
  BY <1>1 DEF ReqType
<1>3. req' = [req EXCEPT ![r] = q] /\ UNCHANGED vars /\ UNCHANGED <<policy, ran>>
  BY DEF Arrive
<1>4. Vetted(p) /\ a \in Actors
  <2>1. ValidateApprovedPlan(p) /\ a # None
    BY DEF Arrive, Admitted
  <2>2. DOMAIN CatalogRisk = {"service.start", "service.stop", "service.restart"}
    BY DEF CatalogRisk
  <2>3. p.action # ""
    BY <2>1, <2>2 DEF ValidateApprovedPlan
  <2> QED BY <2>1, <2>3 DEF ValidateApprovedPlan, Vetted
<1>5. op[r] = Idle
  <2>1. req[r].pc = "idle"
    BY DEF Arrive, NoReq
  <2> QED BY <2>1 DEF BrokerInv, InFlight, Flight
<1>6. Flight(q, op'[r], data', disk', accepted', known')
  BY <1>3, <1>4, <1>5 DEF Flight, vars, Idle
<1>7. \A s \in Requests \ {r} : op'[s] = op[s] /\ (mu = s => data' = data)
  BY <1>3 DEF vars
<1> HIDE DEF q
<1>8. q.pc # "execute"
  BY DEF q
<1> QED BY <1>2, <1>3, <1>6, <1>7, <1>8, MovesOnly

(* The call of the store (server.go 100, 142), refused or under the lock.    *)
LEMMA CallStoreInv ==
  ASSUME BrokerInv, BrokerNext, NEW r \in Requests, CallStore(r)
  PROVE  BrokerInv'
<1> DEFINE q == [req[r] EXCEPT !.pc = "store"]
<1>1. req[r] \in ReqType /\ Flight(req[r], op[r], data, disk, accepted, known)
  BY DEF BrokerInv, BrokerTypeOK, InFlight, ReqType
<1>2. /\ q \in ReqType /\ q.pc = "store" /\ q.kind = req[r].kind /\ q.plan = req[r].plan
      /\ q.actor = req[r].actor /\ q.token = req[r].token
  BY <1>1 DEF ReqType
<1>3. req' = [req EXCEPT ![r] = q] /\ UNCHANGED <<policy, ran>> /\ req[r].pc = "call"
  BY <1>1 DEF CallStore, Continue, BrokerInv, BrokerTypeOK
<1>4. mu = None /\ r # None /\ op \in [Requests -> [pc : {"idle", "issue", "consume", "granted",
                                    "consumed", "refused"}, token : Tokens \cup {None}]]
  BY GrantAssumption DEF CallStore, Issue, Consume, Lock, BrokerInv, Inv, TypeOK
<1>5. \A s \in Requests \ {r} : op'[s] = op[s] /\ mu # s
  BY <1>4, GrantAssumption DEF CallStore, Issue, Consume, Refuse
<1> HIDE DEF q
<1>6. ASSUME op'[r].pc \in {"issue", "refused"}, known' = known
      PROVE  Flight(q, op'[r], data', disk', accepted', known')
  BY <1>1, <1>2, <1>3, <1>6 DEF Flight
<1>7. CASE req[r].kind = "confirm"
  <2>1. Issue(r, req[r].plan, req[r].actor)
    BY <1>7 DEF CallStore
  <2>2. op'[r].pc \in {"issue", "refused"} /\ known' = known
    BY <1>4, <2>1 DEF Issue, Refuse
  <2> QED BY <1>2, <1>3, <1>5, <1>6, <2>2, MovesOnly
<1>8. CASE req[r].kind # "confirm"
  <2> DEFINE p == req[r].plan
             t == req[r].token
  <2>1. Consume(r, t, p, p.actor, p.action) /\ t \in Tokens /\ req[r].kind = "execute"
    BY <1>1, <1>3, <1>8 DEF CallStore, Flight, BrokerInv, Inv, TypeOK
  <2>2. CASE ConsumeAllowed(t, p, p.actor, p.action)
    <3>1. /\ data' = [data EXCEPT ![t] = MarkUsed(@, clock)]
          /\ op'[r] = [pc |-> "consume", token |-> t] /\ known' = known
      BY <1>4, <2>1, <2>2 DEF Consume
    <3>2. data[t] # None /\ SamePlan(data[t], p) /\ data[t].subject = p.actor
      BY <2>2 DEF ConsumeAllowed, BoundTo
    <3>3. data \in [Tokens -> Grant \cup {None}] /\ data' \in [Tokens -> Grant \cup {None}]
      <4>1. [Next]_vars
        BY StoreStep DEF BrokerInv
      <4> QED BY <4>1, NextInv DEF BrokerInv, Inv, TypeOK
    <3>4. data'[t] = MarkUsed(data[t], clock)
      BY <2>1, <3>1, <3>3
    <3>5. data'[t] # None
      <4>1. [Next]_vars
        BY StoreStep DEF BrokerInv
      <4>2. Inv'
        BY <4>1, NextInv DEF BrokerInv
      <4> QED BY <3>1, <4>2 DEF Inv, DataInv
    <3>6. Bound(data'[t], p)
      BY <3>2, <3>4, <3>5 DEF Bound, SamePlan, MarkUsed
    <3>7. Flight(q, op'[r], data', disk', accepted', known')
      BY <1>1, <1>2, <1>3, <2>1, <3>1, <3>6 DEF Flight
    <3> QED BY <1>2, <1>3, <1>5, <3>7, MovesOnly
  <2>3. CASE ~ConsumeAllowed(t, p, p.actor, p.action)
    <3>1. op'[r].pc \in {"issue", "refused"} /\ known' = known
      BY <1>4, <2>1, <2>3 DEF Consume, Refuse
    <3> QED BY <1>2, <1>3, <1>5, <1>6, <3>1, MovesOnly
  <2> QED BY <2>2, <2>3
<1> QED BY <1>7, <1>8

(* persistLocked under the call.                                             *)
LEMMA WriteStoreInv ==
  ASSUME BrokerInv, BrokerNext, NEW r \in Requests, WriteStore(r)
  PROVE  BrokerInv'
<1>1. req[r] \in ReqType /\ Flight(req[r], op[r], data, disk, accepted, known)
  BY DEF BrokerInv, BrokerTypeOK, InFlight, ReqType
<1>2. req' = [req EXCEPT ![r] = req[r]] /\ UNCHANGED <<policy, ran>>
  BY DEF WriteStore, BrokerInv, BrokerTypeOK
<1>3. mu = r /\ op[r].pc \in {"issue", "consume"} /\ known' = known /\ accepted' = accepted
  BY DEF WriteStore, PersistOk, PersistFails, Writing
<1>4. op \in [Requests -> [pc : {"idle", "issue", "consume", "granted",
                                 "consumed", "refused"}, token : Tokens \cup {None}]]
  BY DEF BrokerInv, Inv, TypeOK
<1>5. \A s \in Requests \ {r} : op'[s] = op[s] /\ mu # s
  BY <1>3, <1>4 DEF WriteStore, PersistOk, PersistFails
<1>6. req[r].pc = "store"
  BY <1>1, <1>3 DEF Flight, Idle
<1>7. CASE PersistFails(r)
  <2>1. op'[r].pc = "refused"
    BY <1>4, <1>7 DEF PersistFails
  <2>2. Flight(req[r], op'[r], data', disk', accepted', known')
    BY <1>1, <1>3, <1>6, <2>1 DEF Flight
  <2> QED BY <1>1, <1>2, <1>5, <2>2, MovesOnly
<1>8. CASE PersistOk(r)
  <2>1. /\ disk' = data
        /\ op'[r].pc = (IF op[r].pc = "issue" THEN "granted" ELSE "consumed")
        /\ op'[r].token = op[r].token
    BY <1>4, <1>8 DEF PersistOk
  <2>2. op'[r].pc = "consumed" => op[r].pc = "consume"
    BY <1>3, <2>1
  <2>3. Flight(req[r], op'[r], data', disk', accepted', known')
    BY <1>1, <1>3, <1>6, <2>1, <2>2 DEF Flight
  <2> QED BY <1>1, <1>2, <1>5, <2>3, MovesOnly
<1> QED BY <1>7, <1>8 DEF WriteStore

(* An answer goes back, or the grant just consumed lets the request go on to *)
(* the transaction (server.go 142-148).  That grant was never accepted       *)
(* before, so no transaction and no other request has it.                    *)
LEMMA StoreReturnedInv ==
  ASSUME BrokerInv, BrokerNext, NEW r \in Requests, StoreReturned(r)
  PROVE  BrokerInv'
<1>1. req[r] \in ReqType /\ Flight(req[r], op[r], data, disk, accepted, known)
  BY DEF BrokerInv, BrokerTypeOK, InFlight, ReqType
<1>2. /\ req \in [Requests -> ReqType] /\ accepted \in [Tokens -> Nat] /\ known \in SUBSET Tokens
      /\ op \in [Requests -> [pc : {"idle", "issue", "consume", "granted",
                                    "consumed", "refused"}, token : Tokens \cup {None}]]
  BY DEF BrokerInv, BrokerTypeOK, Inv, TypeOK, ReqType
<1>3. UNCHANGED <<policy, ran, data, disk>> /\ Return(r) /\ op'[r] = Idle
  BY <1>2 DEF StoreReturned, Return
<1>4. \A s \in Requests \ {r} : op'[s] = op[s] /\ (mu = s => data' = data)
  BY <1>2, <1>3 DEF Return
<1>5. CASE op[r].pc # "consumed"
  <2>1. req' = [req EXCEPT ![r] = NoReq]
    BY <1>5 DEF StoreReturned, Respond
  <2>2. NoReq \in ReqType /\ NoReq.pc # "execute"
    BY DEF NoReq, ReqType
  <2>3. Flight(NoReq, op'[r], data', disk', accepted', known')
    BY <1>3 DEF Flight, NoReq, Idle
  <2> QED BY <1>3, <1>4, <2>1, <2>2, <2>3, MovesOnly
<1>6. CASE op[r].pc = "consumed"
  <2> DEFINE q == [req[r] EXCEPT !.pc = "execute"]
             t == req[r].token
  <2>1. /\ q \in ReqType /\ q.pc = "execute" /\ q.kind = req[r].kind /\ q.plan = req[r].plan
        /\ q.actor = req[r].actor /\ q.token = t
    BY <1>1 DEF ReqType
  <2>2. req' = [req EXCEPT ![r] = q]
    BY <1>2, <1>6 DEF StoreReturned, Continue
  <2>3. req[r].pc = "store" /\ req[r].kind = "execute" /\ op[r].token = t /\ t \in Tokens
    BY <1>1, <1>2, <1>6 DEF Flight, Idle
  <2>4. accepted[t] = 0
    BY <1>6, <2>3 DEF BrokerInv, Inv, AcceptInv
  <2>5. accepted'[t] = 1 /\ known' = known
    BY <1>2, <1>3, <1>6, <2>3, <2>4 DEF Return
  <2> HIDE DEF q
  <2>6. Flight(q, op'[r], data', disk', accepted', known')
    BY <1>1, <1>3, <1>6, <2>1, <2>3, <2>5 DEF Flight, Idle
  <2>7. [Next]_vars
    BY StoreStep DEF BrokerInv
  <2>8. ASSUME NEW i \in 1 .. Len(ran)
        PROVE  ran[i].token # t /\ Backed(ran[i], disk', accepted')
    <3>1. ran \in Seq(Run) /\ Backed(ran[i], disk, accepted)
      BY DEF BrokerInv, Behind
    <3>2. ran[i] \in Run
      BY <3>1
    <3>3. ran[i].token \in Tokens /\ accepted[ran[i].token] = 1
      BY <3>1, <3>2 DEF Run, Backed
    <3> QED BY <2>4, <2>7, <3>1, <3>3, BackedStays DEF BrokerInv
  <2>9. ASSUME NEW s \in Requests, req[s].pc = "execute" PROVE req[s].token # t
    BY <2>4, <2>9 DEF BrokerInv, InFlight, Flight
  <2>10. Behind'
    BY <1>3, <2>8 DEF BrokerInv, Behind
  <2>11. InFlight' /\ BrokerTypeOK'
    BY <1>3, <1>4, <2>1, <2>2, <2>6, <2>7, <2>10, OneMoves
  <2>12. TokensApart'
    <3>1. /\ \A s \in Requests : s # r => req'[s] = req[s]
          /\ req'[r].token = t /\ ran' = ran
      BY <1>2, <1>3, <2>1, <2>2
    <3> QED BY <2>8, <2>9, <3>1 DEF BrokerInv, TokensApart
  <2>13. AllLoadable(data)' /\ AllLoadable(disk)'
    BY LoadableStays DEF BrokerInv
  <2>14. Inv'
    BY <2>7, NextInv DEF BrokerInv
  <2> QED BY <2>10, <2>11, <2>12, <2>13, <2>14 DEF BrokerInv
<1> QED BY <1>5, <1>6

(* The second look at executor and plan (mutations.go 168-190): the transaction *)
(* starts with its grant behind it, or the request ends with none.           *)
LEMMA ExecuteApprovedInv ==
  ASSUME BrokerInv, BrokerNext, NEW r \in Requests, ExecuteApproved(r)
  PROVE  BrokerInv'
<1>1. req[r] \in ReqType /\ Flight(req[r], op[r], data, disk, accepted, known)
  BY DEF BrokerInv, BrokerTypeOK, InFlight, ReqType
<1>2. req \in [Requests -> ReqType] /\ known \in SUBSET Tokens /\ clock \in Times
  BY DEF BrokerInv, BrokerTypeOK, Inv, TypeOK, ReqType
<1>3. req[r].pc = "execute" /\ UNCHANGED vars /\ UNCHANGED policy /\ op[r] = Idle
  BY <1>1 DEF ExecuteApproved, Flight
<1>4. \A s \in Requests \ {r} : op'[s] = op[s] /\ (mu = s => data' = data)
  BY <1>3 DEF vars
<1> DEFINE p == req[r].plan
           t == req[r].token
<1>5. CASE ~(MayMutate(req[r].actor) /\ ValidateApprovedPlan(p))
  <2>1. req' = [req EXCEPT ![r] = NoReq] /\ UNCHANGED ran
    BY <1>5 DEF ExecuteApproved, Respond
  <2>2. NoReq \in ReqType /\ NoReq.pc # "execute"
    BY DEF NoReq, ReqType
  <2>3. Flight(NoReq, op'[r], data', disk', accepted', known')
    BY <1>3 DEF Flight, NoReq, Idle, vars
  <2> QED BY <1>3, <1>4, <2>1, <2>2, <2>3, MovesOnly
<1>6. CASE MayMutate(req[r].actor) /\ ValidateApprovedPlan(p)
  <2> DEFINE q == [req[r] EXCEPT !.pc = "run"]
             x == [plan |-> p, token |-> t, executor |-> req[r].actor, at |-> clock]
  <2>1. /\ q \in ReqType /\ q.pc = "run" /\ q.kind = req[r].kind /\ q.plan = req[r].plan
        /\ q.actor = req[r].actor /\ q.token = t
    BY <1>1 DEF ReqType
  <2>2. req' = [req EXCEPT ![r] = q] /\ ran' = Append(ran, x)
    BY <1>2, <1>6 DEF ExecuteApproved, Continue
  <2>3. /\ p \in Plans /\ req[r].actor \in Actors /\ Vetted(p) /\ t \in Tokens
        /\ Bound(disk[t], p) /\ accepted[t] = 1 /\ req[r].kind = "execute"
    BY <1>1, <1>2, <1>3 DEF Flight
  <2>4. x \in Run
    BY <1>2, <2>3 DEF Run
  <2>5. Backed(x, disk, accepted)
    <3>1. p.expires > clock /\ p.unit \in policy /\ policy \subseteq CompiledUnits
      BY <1>6 DEF ValidateApprovedPlan, PlanCurrent, BrokerInv, BrokerTypeOK
    <3>2. clock < p.expires
      BY <1>2, <2>3, <3>1, GrantAssumption DEF Times
    <3> QED BY <1>6, <2>3, <3>1, <3>2 DEF Backed, MayMutate, Vetted
  <2> HIDE DEF q, x
  <2>6. Flight(q, op'[r], data', disk', accepted', known')
    BY <1>1, <1>3, <2>1 DEF Flight, Idle, vars
  <2>7. [Next]_vars /\ UNCHANGED <<disk, accepted>>
    BY <1>3, StoreStep DEF BrokerInv, vars
  <2>8. ran \in Seq(Run) /\ \A i \in 1 .. Len(ran) : Backed(ran[i], disk, accepted)
    BY DEF BrokerInv, Behind
  <2>9. /\ ran' \in Seq(Run) /\ Len(ran') = Len(ran) + 1 /\ Len(ran) \in Nat
        /\ \A i \in 1 .. Len(ran) : ran'[i] = ran[i]
        /\ ran'[Len(ran) + 1] = x
    BY <2>2, <2>4, <2>8
  <2>10. Behind'
    <3>1. ASSUME NEW i \in 1 .. Len(ran') PROVE Backed(ran'[i], disk, accepted)
      <4>1. i \in 1 .. Len(ran) \/ i = Len(ran) + 1
        BY <2>9
      <4> QED BY <2>5, <2>8, <2>9, <4>1
    <3> QED BY <2>7, <2>9, <3>1 DEF Behind
  <2>11. InFlight' /\ BrokerTypeOK'
    BY <1>3, <1>4, <2>1, <2>2, <2>6, <2>7, <2>10, OneMoves
  <2>12. TokensApart'
    <3>1. /\ \A i, j \in 1 .. Len(ran) : i # j => ran[i].token # ran[j].token
          /\ \A i \in 1 .. Len(ran) : ran[i].token # t
          /\ \A s \in Requests \ {r} : req[s].pc = "execute" => req[s].token # t
      BY <1>3 DEF BrokerInv, TokensApart
    <3>2. x.token = t
      BY DEF x
    <3>3. \A i \in 1 .. Len(ran') : i \in 1 .. Len(ran) \/ i = Len(ran) + 1
      BY <2>9
    <3>4. \A i, j \in 1 .. Len(ran') : i # j => ran'[i].token # ran'[j].token
      BY <2>9, <3>1, <3>2, <3>3
    <3>5. /\ \A s \in Requests : s # r => req'[s] = req[s]
          /\ req'[r].pc = "run"
      BY <1>2, <2>1, <2>2
    <3>6. ASSUME NEW s \in Requests, req'[s].pc = "execute"
          PROVE  /\ s # r /\ req'[s] = req[s] /\ req[s].token # t
                 /\ \A i \in 1 .. Len(ran) : ran[i].token # req[s].token
                 /\ \A u \in Requests : req[u].pc = "execute" /\ req[u].token = req[s].token => u = s
      BY <3>1, <3>5, <3>6 DEF BrokerInv, TokensApart
    <3>7. ASSUME NEW s \in Requests, req'[s].pc = "execute", NEW i \in 1 .. Len(ran')
          PROVE  ran'[i].token # req'[s].token
      BY <2>9, <3>2, <3>3, <3>6, <3>7
    <3>8. ASSUME NEW s \in Requests, req'[s].pc = "execute", NEW u \in Requests,
                 req'[u].pc = "execute", req'[u].token = req'[s].token
          PROVE  u = s
      BY <3>6, <3>8
    <3> QED BY <3>4, <3>7, <3>8 DEF TokensApart
  <2>13. AllLoadable(data)' /\ AllLoadable(disk)'
    BY LoadableStays DEF BrokerInv
  <2>14. Inv'
    BY <2>7, NextInv DEF BrokerInv
  <2> QED BY <2>10, <2>11, <2>12, <2>13, <2>14 DEF BrokerInv
<1> QED BY <1>5, <1>6

(* The transaction has ended and its request is answered.                    *)
LEMMA FinishInv ==
  ASSUME BrokerInv, BrokerNext, NEW r \in Requests, Finish(r)
  PROVE  BrokerInv'
<1>1. /\ req' = [req EXCEPT ![r] = NoReq] /\ UNCHANGED vars /\ UNCHANGED <<policy, ran>>
      /\ req[r].pc = "run"
  BY DEF Finish, Respond
<1>2. op[r] = Idle
  BY <1>1 DEF BrokerInv, InFlight, Flight
<1>3. NoReq \in ReqType /\ NoReq.pc # "execute"
  BY DEF NoReq, ReqType
<1>4. Flight(NoReq, op'[r], data', disk', accepted', known')
  BY <1>1, <1>2 DEF Flight, NoReq, Idle, vars
<1>5. \A s \in Requests \ {r} : op'[s] = op[s] /\ (mu = s => data' = data)
  BY <1>1 DEF vars
<1> QED BY <1>1, <1>3, <1>4, <1>5, MovesOnly

(* Crash, restart and the clock: either no request is left or none moves.    *)
LEMMA BrokerOtherInv ==
  ASSUME BrokerInv, BrokerNext, BrokerCrash \/ BrokerStart \/ Clock
  PROVE  BrokerInv'
<1>1. [Next]_vars /\ UNCHANGED ran
  BY StoreStep DEF BrokerInv, BrokerCrash, BrokerStart, Clock
<1>2. req \in [Requests -> ReqType] /\ policy \in SUBSET CompiledUnits /\ known \in SUBSET Tokens
  BY DEF BrokerInv, BrokerTypeOK, Inv, TypeOK, ReqType
<1>3. NoReq \in ReqType
  BY DEF NoReq, ReqType
<1>4. /\ req' \in [Requests -> ReqType] /\ policy' \in SUBSET CompiledUnits
      /\ \A r \in Requests : req'[r].pc = "execute" => req'[r] = req[r]
  BY <1>2, <1>3 DEF BrokerCrash, BrokerStart, Clock, NoReq
<1>5. Behind' /\ TokensApart'
  BY <1>1, <1>4, RunsStay
<1>6. ASSUME NEW r \in Requests PROVE Flight(req'[r], op'[r], data', disk', accepted', known')
  <2>1. Flight(req[r], op[r], data, disk, accepted, known)
    BY DEF BrokerInv, InFlight
  <2>2. CASE BrokerCrash
    <3>1. req'[r] = NoReq /\ op'[r] = Idle
      BY <2>2 DEF BrokerCrash, Crash
    <3> QED BY <3>1 DEF Flight, NoReq, Idle
  <2>3. CASE BrokerStart
    <3>1. op[r] = Idle /\ op' = op /\ req' = req
      BY <2>3 DEF BrokerStart, OpenGrantStore, BrokerInv, Inv, LockInv
    <3>2. op[r].pc # "consume"
      BY <3>1 DEF Idle
    <3> QED BY <1>1, <1>2, <2>1, <3>1, <3>2, FlightStays DEF BrokerInv
  <2>4. CASE Clock
    <3>1. UNCHANGED <<op, req, data>>
      BY <2>4 DEF Clock, Tick
    <3> QED BY <1>1, <1>2, <2>1, <3>1, FlightStays DEF BrokerInv
  <2> QED BY <2>2, <2>3, <2>4
<1>7. InFlight'
  BY <1>6 DEF InFlight
<1>8. Inv'
  BY <1>1, NextInv DEF BrokerInv
<1>9. UNCHANGED ran /\ \A i \in 1 .. Len(ran) : ran[i].at \in Times
  BY <1>1 DEF BrokerInv, BrokerTypeOK
<1>10. BrokerTypeOK'
  BY <1>4, <1>8, <1>9 DEF BrokerTypeOK, Inv, ReqType
<1>11. AllLoadable(data)' /\ AllLoadable(disk)'
  BY LoadableStays DEF BrokerInv
<1> QED BY <1>5, <1>7, <1>8, <1>10, <1>11 DEF BrokerInv

(* Every step of the endpoints keeps the invariant.                          *)
LEMMA BrokerNextInv == BrokerInv /\ [BrokerNext]_brokerVars => BrokerInv'
<1> SUFFICES ASSUME BrokerInv, [BrokerNext]_brokerVars PROVE BrokerInv'
  OBVIOUS
<1>1. CASE UNCHANGED brokerVars
  <2>1. UNCHANGED vars /\ UNCHANGED <<policy, req, ran>>
    BY <1>1 DEF brokerVars, vars
  <2>2. Inv'
    BY <2>1, NextInv DEF BrokerInv
  <2>3. BrokerTypeOK' /\ InFlight' /\ Behind' /\ TokensApart'
    BY <2>1, <2>2 DEF BrokerInv, Inv, BrokerTypeOK, InFlight, Behind, TokensApart, vars
  <2>4. AllLoadable(data)' /\ AllLoadable(disk)'
    BY <2>1 DEF BrokerInv, AllLoadable, vars
  <2> QED BY <2>2, <2>3, <2>4 DEF BrokerInv
<1>2. CASE BrokerNext
  <2>1. ASSUME NEW r \in Requests, NEW p \in Plans, NEW a \in Actors \cup {None},
               \/ Arrive(r, "confirm", p, a, None)
               \/ \E t \in known : Arrive(r, "execute", p, a, t)
        PROVE  BrokerInv'
    BY <1>2, <2>1, ArriveInv
  <2>2. ASSUME NEW r \in Requests, Handle(r) PROVE BrokerInv'
    BY <1>2, <2>2, CallStoreInv, WriteStoreInv, StoreReturnedInv, ExecuteApprovedInv, FinishInv
       DEF Handle
  <2>3. ASSUME BrokerCrash \/ BrokerStart \/ Clock PROVE BrokerInv'
    BY <1>2, <2>3, BrokerOtherInv
  <2> QED BY <1>2, <2>1, <2>2, <2>3 DEF BrokerNext
<1> QED BY <1>1, <1>2

(* The inductive invariant holds throughout every behaviour of the endpoints.*)
THEOREM BrokerInvariance == BrokerSpec => []BrokerInv
BY BrokerInitInv, BrokerNextInv, PTL DEF BrokerSpec

-----------------------------------------------------------------------------
(* Every variable keeps its type, and the policy in force never names a unit *)
(* that was not compiled in (LoadPolicy 66-78).                              *)
THEOREM BrokerTypeCorrect == BrokerSpec => []BrokerTypeOK
BY BrokerInvariance, PTL DEF BrokerInv

(* No plan's transaction is ever started twice: two starts would have two    *)
(* tokens behind them, hence two grants of one plan in the file.             *)
THEOREM AtMostOnceHolds == BrokerSpec => []AtMostOnce
<1>1. BrokerInv => AtMostOnce
  <2> SUFFICES ASSUME BrokerInv, NEW i \in 1 .. Len(ran), NEW j \in 1 .. Len(ran), i # j
               PROVE  <<ran[i].plan.id, ran[i].plan.digest>> # <<ran[j].plan.id, ran[j].plan.digest>>
    BY DEF AtMostOnce
  <2>1. ran \in Seq(Run) /\ Backed(ran[i], disk, accepted) /\ Backed(ran[j], disk, accepted)
    BY DEF BrokerInv, Behind
  <2>2. ran[i] \in Run /\ ran[j] \in Run
    BY <2>1
  <2>3. ran[i].token \in Tokens /\ ran[j].token \in Tokens /\ ran[i].token # ran[j].token
    BY <2>2 DEF Run, BrokerInv, TokensApart
  <2>4. Bound(disk[ran[i].token], ran[i].plan) /\ Bound(disk[ran[j].token], ran[j].plan)
    BY <2>1 DEF Backed
  <2>5. PlanKey(disk[ran[i].token]) # PlanKey(disk[ran[j].token])
    BY <2>3, <2>4 DEF Bound, BrokerInv, Inv, OneGrantPerPlan, Distinct
  <2> QED BY <2>4, <2>5 DEF Bound, SamePlan, PlanKey
<1> QED BY <1>1, BrokerInvariance, PTL

(* Behind every transaction ever started stand a used grant for that plan, a *)
(* second person, an executor who is no TCI, a unit of the compiled policy   *)
(* and a plan that had not expired (handleExecuteApproved 117-151).          *)
THEOREM AuthorisedHolds == BrokerSpec => []Authorised
<1>1. BrokerInv => Authorised
  <2> SUFFICES ASSUME BrokerInv, NEW i \in 1 .. Len(ran)
               PROVE  LET x == ran[i]
                          g == disk[x.token]
                      IN /\ Used(g)
                         /\ SamePlan(g, x.plan) /\ VerifyPlanDigest(x.plan)
                         /\ g.approver.kind = "human" /\ g.approver.id # x.plan.actor
                         /\ x.executor.kind # "tci"
                         /\ x.plan.unit \in CompiledUnits
                         /\ x.at < x.plan.expires
    BY DEF Authorised
  <2>1. ran \in Seq(Run) /\ Backed(ran[i], disk, accepted)
    BY DEF BrokerInv, Behind
  <2>2. ran[i] \in Run
    BY <2>1
  <2>3. ran[i].token \in Tokens /\ accepted[ran[i].token] = 1
    BY <2>1, <2>2 DEF Run, Backed
  <2>4. Used(disk[ran[i].token])
    BY <2>3 DEF BrokerInv, Inv, AcceptInv
  <2>5. Bound(disk[ran[i].token], ran[i].plan)
    BY <2>1 DEF Backed
  <2>6. Sound(disk[ran[i].token])
    BY <2>3, <2>5 DEF Bound, BrokerInv, Inv, GrantWindow, AllSound
  <2>7. /\ disk[ran[i].token].approver.kind = "human"
        /\ disk[ran[i].token].approver.id # ran[i].plan.actor
        /\ SamePlan(disk[ran[i].token], ran[i].plan)
    BY <2>5, <2>6 DEF Sound, Bound
  <2> QED BY <2>1, <2>4, <2>7 DEF Backed
<1> QED BY <1>1, BrokerInvariance, PTL

(* Nothing the endpoints ever made the store write, but its size, keeps the  *)
(* next start from reading it (load 184-202).                                *)
THEOREM WrittenLoadsHolds == BrokerSpec => []WrittenLoads
<1>1. BrokerInv => WrittenLoads
  BY DEF BrokerInv, AllLoadable, Loadable, WrittenLoads, LoadAccepts, Stored
<1> QED BY <1>1, BrokerInvariance, PTL

(* A step of the endpoints, one that stutters included, as the store sees    *)
(* it.                                                                       *)
LEMMA StoreStepOrNot == BrokerInv /\ [BrokerNext]_brokerVars => [Next]_vars
<1>1. UNCHANGED brokerVars => UNCHANGED vars
  BY DEF brokerVars, vars
<1> QED BY <1>1, StoreStep DEF BrokerInv

(* The endpoints, whatever they do and whenever they crash, take no step in  *)
(* the store but its own: they implement its specification.                  *)
THEOREM UsesStoreProperlyHolds == BrokerSpec => UsesStoreProperly
<1>1. BrokerInit => Init
  BY DEF BrokerInit
<1> QED BY <1>1, StoreStepOrNot, BrokerInvariance, PTL DEF BrokerSpec, UsesStoreProperly

(* Seen from outside qcored, through handlers, policy changes and crashes,   *)
(* a token is issued, spent and accepted once each: the endpoints keep the   *)
(* promise of the abstract grant (handleConfirm 79-115,                      *)
(* handleExecuteApproved 117-151, Issue and Consume of grants.go).           *)
THEOREM BrokerRefinement == BrokerSpec => ImplementsSingleUse
<1>1. BrokerInit => Abs!AbsInit
  BY RefineInit DEF BrokerInit
<1>2. BrokerInv /\ BrokerInv' /\ [BrokerNext]_brokerVars => [Abs!AbsNext]_(Abs!absVars)
  <2>1. BrokerInv => Inv
    BY DEF BrokerInv
  <2>2. BrokerInv' => Inv'
    BY DEF BrokerInv
  <2> QED BY <2>1, <2>2, StoreStepOrNot, RefineStep
<1> QED BY <1>1, <1>2, BrokerInvariance, PTL DEF BrokerSpec, ImplementsSingleUse, Abs!AbsSpec

=============================================================================
