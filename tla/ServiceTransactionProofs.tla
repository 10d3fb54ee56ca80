---------------------- MODULE ServiceTransactionProofs ----------------------
(***************************************************************************)
(* ServiceTransaction, proved for any number of transactions and units.    *)
(* Transactions share nothing but the units' states.  The first invariant  *)
(* does not mention these: it says of each transaction which systemctl     *)
(* calls it has started by the time it has come to a step.  The second one *)
(* is about a unit two transactions move: who moved it since a report.     *)
(***************************************************************************)
EXTENDS ServiceTransaction, SequenceTheorems, TLAPS

Failures == {"service_action_failed", "service_postcondition_failed"}

(* How a transaction with local variables t and calls c may have ended.      *)
Ended(t, c) ==
  \/ /\ t.code \in {"service_not_allowlisted", "service_precondition_failed"}
     /\ t.recovery = "not_required" /\ c = <<>>
  \/ /\ t.code = "completed" /\ t.recovery = "not_required" /\ c = <<t.action>>
     /\ t.seen = expectedActiveState(t.action)
     /\ t.seen = "active" /\ t.unit \in HealthUnits => t.healthy
  \/ /\ t.code \in Failures /\ t.recovery = "failed"
     /\ \/ c = <<>>
        \/ c = <<t.action>>
        \/ RecoveryAction(t.pre) # None /\ c = <<t.action, RecoveryAction(t.pre)>>
  \/ t.code \in Failures /\ t.recovery = "not_defined" /\ c = <<t.action>>
  \/ /\ t.code \in Failures /\ t.recovery = "succeeded"
     /\ RecoveryAction(t.pre) # None /\ c = <<t.action, RecoveryAction(t.pre)>>
     /\ t.seen = expectedActiveState(RecoveryAction(t.pre))

(* Where it is under way.  A transaction that fails without having started   *)
(* its verb has no context left, so that it will not step back either.       *)
UnderWay(t, c, live) ==
  /\ t.pc \notin {"idle", "done"} => t.action \in Actions /\ t.unit \in Targets
  /\ t.pc \in {"idle", "probe", "apply"} => c = <<>> /\ t.code = None /\ t.recovery = "not_required"
  /\ t.pc = "wait" => c = <<t.action>> /\ t.code = None /\ t.recovery = "not_required"
  /\ t.pc \in {"recover", "recoverApply", "recoverWait"} => t.code \in Failures
  /\ t.pc = "recover" => c = <<t.action>> \/ (c = <<>> /\ ~live)
  /\ t.pc = "recoverApply" => c = <<t.action>> /\ RecoveryAction(t.pre) # None
  /\ t.pc = "recoverWait" => /\ RecoveryAction(t.pre) # None
                             /\ c = <<t.action, RecoveryAction(t.pre)>>

TxOk(t, c, live) == UnderWay(t, c, live) /\ (t.pc = "done" => Ended(t, c))

TxInv == TypeOK /\ \A x \in Txs : TxOk(tx[x], calls[x], Alive(x))

Local == [pc : {"idle", "probe", "apply", "wait", "recover",
                "recoverApply", "recoverWait", "done"},
          action : Actions \cup {None}, unit : Units \cup {None},
          pre : ActiveStates \cup {None}, seen : ActiveStates \cup {None},
          healthy : BOOLEAN,
          code : Codes \cup {None},
          recovery : {"not_required", "failed", "not_defined", "succeeded"}]

(* The step back is a verb, and points to the state found.                   *)
LEMMA StepBackIsAVerb ==
  ASSUME NEW pre, RecoveryAction(pre) # None
  PROVE  /\ RecoveryAction(pre) \in Actions
         /\ \/ pre = "active" /\ RecoveryAction(pre) = "service.start"
            \/ pre \in {"inactive", "failed"} /\ RecoveryAction(pre) = "service.stop"
BY DEF RecoveryAction, Actions

(* A step that touches one transaction only, and no unit in a way that       *)
(* leaves the ActiveStates, keeps the invariant if it does so for that one.  *)
LEMMA OneAtOnce ==
  ASSUME TxInv, NEW x \in Txs, NEW t \in Local, NEW c \in Seq(Actions), NEW k,
         tx' = [tx EXCEPT ![x] = t], calls' = [calls EXCEPT ![x] = c],
         k \in {"live", "timeout", "cancelled"}, ctx' = [ctx EXCEPT ![x] = k],
         state' \in [Targets -> ActiveStates], mover' \in [Targets -> Txs \cup {None}],
         TxOk(t, c, k = "live")
  PROVE  TxInv'
<1>1. TypeOK'
  BY DEF TxInv, TypeOK, Local
<1>2. ASSUME NEW y \in Txs PROVE TxOk(tx'[y], calls'[y], Alive(y)')
  <2>1. CASE y = x
    BY <2>1 DEF TxInv, TypeOK, Alive
  <2>2. CASE y # x
    <3>1. tx'[y] = tx[y] /\ calls'[y] = calls[y] /\ ctx'[y] = ctx[y]
      BY <2>2 DEF TxInv, TypeOK
    <3> QED BY <3>1 DEF TxInv, Alive
  <2> QED BY <2>1, <2>2
<1> QED BY <1>1, <1>2 DEF TxInv

(* What systemctl does, as the invariant sees it: with the context alive one *)
(* more call and some ActiveState, otherwise a failure and nothing.          *)
LEMMA SystemctlStep ==
  ASSUME TxInv, NEW x \in Txs, tx[x].unit \in Targets, NEW action \in Actions, NEW ok \in BOOLEAN,
         Systemctl(x, action, ok)
  PROVE  /\ state' \in [Targets -> ActiveStates] /\ mover' \in [Targets -> Txs \cup {None}]
         /\ \/ Alive(x) /\ calls' = [calls EXCEPT ![x] = Append(calls[x], action)]
            \/ ~Alive(x) /\ ~ok /\ calls' = [calls EXCEPT ![x] = calls[x]]
<1>1. /\ state \in [Targets -> ActiveStates] /\ calls \in [Txs -> Seq(Actions)]
      /\ mover \in [Targets -> Txs \cup {None}]
  BY DEF TxInv, TypeOK
<1>2. CASE Alive(x)
  <2>1. JobDone(tx[x].unit, action) \subseteq ActiveStates
    BY DEF JobDone, ActiveStates
  <2>2. {state[tx[x].unit], expectedActiveState(action), "failed", "changing"} \subseteq ActiveStates
    BY <1>1 DEF ActiveStates, expectedActiveState
  <2>3. /\ calls' = [calls EXCEPT ![x] = Append(@, action)]
        /\ mover' = [mover EXCEPT ![tx[x].unit] = x]
        /\ \E s \in ActiveStates : state' = [state EXCEPT ![tx[x].unit] = s]
    BY <1>2, <2>1, <2>2 DEF Systemctl
  <2> QED BY <1>1, <1>2, <2>3
<1>3. CASE ~Alive(x)
  BY <1>1, <1>3 DEF Systemctl
<1> QED BY <1>2, <1>3

(* Every transaction starts idle, its context live.                          *)
LEMMA TxInit == Init => TxInv
<1> SUFFICES ASSUME Init PROVE TxInv
  OBVIOUS
<1>1. TypeOK
  BY DEF Init, TypeOK, Fresh
<1>2. ASSUME NEW x \in Txs PROVE TxOk(tx[x], calls[x], Alive(x))
  <2>1. tx[x] = Fresh /\ calls[x] = <<>>
    BY DEF Init
  <2> QED BY <2>1 DEF TxOk, UnderWay, Fresh
<1> QED BY <1>1, <1>2 DEF TxInv

(* The facts about one transaction that its steps go by.                     *)
LEMMA Locals ==
  ASSUME TxInv, NEW x \in Txs
  PROVE  /\ tx[x] \in Local /\ calls[x] \in Seq(Actions)
         /\ ctx[x] \in {"live", "timeout", "cancelled"}
         /\ TxOk(tx[x], calls[x], ctx[x] = "live")
         /\ calls = [calls EXCEPT ![x] = calls[x]] /\ ctx = [ctx EXCEPT ![x] = ctx[x]]
         /\ tx = [tx EXCEPT ![x] = tx[x]]
         /\ state \in [Targets -> ActiveStates] /\ mover \in [Targets -> Txs \cup {None}]
         /\ Running(x) => tx[x].unit \in Targets /\ tx[x].action \in Actions
<1>1. /\ tx \in [Txs -> Local] /\ calls \in [Txs -> Seq(Actions)]
      /\ ctx \in [Txs -> {"live", "timeout", "cancelled"}] /\ state \in [Targets -> ActiveStates]
      /\ mover \in [Targets -> Txs \cup {None}]
  BY DEF TxInv, TypeOK, Local
<1>2. TxOk(tx[x], calls[x], ctx[x] = "live")
  BY DEF TxInv, Alive
<1>3. Running(x) => tx[x].unit \in Targets /\ tx[x].action \in Actions
  BY <1>2 DEF TxOk, UnderWay, Running
<1> QED BY <1>1, <1>2, <1>3

(* A step of x that only changes its local variables.                        *)
LEMMA LocalStep ==
  ASSUME TxInv, NEW x \in Txs, NEW t \in Local, tx' = [tx EXCEPT ![x] = t],
         UNCHANGED <<state, ctx, calls, mover>>, TxOk(t, calls[x], ctx[x] = "live")
  PROVE  TxInv'
<1>1. /\ calls[x] \in Seq(Actions) /\ ctx[x] \in {"live", "timeout", "cancelled"}
      /\ calls' = [calls EXCEPT ![x] = calls[x]] /\ ctx' = [ctx EXCEPT ![x] = ctx[x]]
      /\ state' \in [Targets -> ActiveStates] /\ mover' \in [Targets -> Txs \cup {None}]
  BY Locals
<1> QED BY <1>1, OneAtOnce

(* What a transaction may have started: nothing, its verb, or its verb and   *)
(* the step back.                                                            *)
LEMMA CallSequences ==
  ASSUME NEW a \in Actions, NEW b \in Actions
  PROVE  /\ <<>> \in Seq(Actions) /\ <<a>> \in Seq(Actions) /\ <<a, b>> \in Seq(Actions)
         /\ Append(<<>>, a) = <<a>> /\ Append(<<a>>, b) = <<a, b>>
<1>1. <<>> \in Seq(Actions) /\ <<a>> \in Seq(Actions) /\ <<a, b>> \in Seq(Actions)
  OBVIOUS
<1>2. Append(<<>>, a) = <<a>>
  OBVIOUS
<1>3. Append(<<a>>, b) = <<a, b>>
  <2> DEFINE s == Append(<<a>>, b)
             u == <<a, b>>
  <2>1. s \in Seq(Actions) /\ Len(s) = 2 /\ s[1] = a /\ s[2] = b
    BY <1>1, AppendProperties
  <2>2. u \in Seq(Actions) /\ Len(u) = 2 /\ u[1] = a /\ u[2] = b
    BY <1>1
  <2> HIDE DEF s, u
  <2>3. \A i \in 1 .. Len(s) : s[i] = u[i]
    <3>1. 1 .. Len(s) = {1, 2}
      BY <2>1
    <3> QED BY <2>1, <2>2, <3>1
  <2>4. s = u
    BY <2>1, <2>2, <2>3, SeqEqual
  <2> QED BY <2>4 DEF s, u
<1> QED BY <1>1, <1>2, <1>3

(* What the probes answer has its type.                                      *)
LEMMA Answers ==
  ASSUME TxInv, NEW x \in Txs, tx[x].unit \in Targets, NEW s \in ServiceStatus(x),
         NEW healthy \in Check(x)
  PROVE  s \in ActiveStates /\ healthy \in BOOLEAN
<1>1. s \in ActiveStates
  BY Locals DEF ServiceStatus
<1>2. Check(x) \subseteq BOOLEAN
  BY Zenon DEF Check
<1> QED BY <1>1, <1>2

(* Every step keeps the invariant, one case per action.                      *)
LEMMA TxNext == TxInv /\ [Next]_vars => TxInv'
<1> SUFFICES ASSUME TxInv, [Next]_vars PROVE TxInv'
  OBVIOUS
<1> USE TxAssumption
<1>0. \A x \in Txs : tx[x] \in Local
  BY Locals
<1>1. ASSUME NEW x \in Txs, NEW a \in Actions, NEW u \in Units, Begin(x, a, u) PROVE TxInv'
  <2> DEFINE t == [Fresh EXCEPT !.pc = IF u \in Targets THEN "probe" ELSE "done",
                     !.code = IF u \in Targets THEN None ELSE "service_not_allowlisted",
                     !.action = a, !.unit = u]
  <2>1. tx' = [tx EXCEPT ![x] = t] /\ UNCHANGED <<state, ctx, calls, mover>> /\ tx[x] = Fresh
    BY <1>1 DEF Begin
  <2>2. t \in Local /\ t.action = a /\ t.unit = u /\ t.recovery = "not_required"
    BY DEF Local, Fresh, Codes
  <2>3. calls[x] = <<>>
    BY <2>1, Locals DEF TxOk, UnderWay, Fresh
  <2>4. /\ u \in Targets => t.pc = "probe" /\ t.code = None
        /\ u \notin Targets => t.pc = "done" /\ t.code = "service_not_allowlisted"
    BY DEF Fresh
  <2> HIDE DEF t
  <2>5. TxOk(t, calls[x], ctx[x] = "live")
    BY <2>2, <2>3, <2>4 DEF TxOk, UnderWay, Ended
  <2> QED BY <2>1, <2>2, <2>5, LocalStep
<1>2. ASSUME NEW x \in Txs, ObservePrecondition(x) PROVE TxInv'
  <2>1. /\ tx[x].pc = "probe" /\ UNCHANGED <<state, ctx, calls, mover>>
        /\ tx[x].unit \in Targets /\ tx[x].action \in Actions
    BY <1>2, Locals DEF ObservePrecondition, Running
  <2>2. ASSUME NEW s \in ServiceStatus(x), tx' = [tx EXCEPT ![x].pc = "apply", ![x].pre = s]
        PROVE  TxInv'
    <3> DEFINE t == [tx[x] EXCEPT !.pc = "apply", !.pre = s]
    <3>1. s \in ActiveStates
      BY <2>1, Locals DEF ServiceStatus
    <3>2. t \in Local
      BY <1>0, <3>1 DEF Local
    <3>3. tx' = [tx EXCEPT ![x] = t]
      BY <2>2, Locals DEF TxInv, TypeOK
    <3>4. TxOk(t, calls[x], ctx[x] = "live")
      BY <2>1, Locals DEF TxOk, UnderWay, Local
    <3> QED BY <2>1, <3>2, <3>3, <3>4, LocalStep
  <2>3. ASSUME End(x, "service_precondition_failed", "not_required") PROVE TxInv'
    <3> DEFINE t == [tx[x] EXCEPT !.pc = "done", !.code = "service_precondition_failed",
                                  !.recovery = "not_required"]
    <3>1. t \in Local
      BY <1>0 DEF Local, Codes
    <3>2. tx' = [tx EXCEPT ![x] = t]
      BY <2>3, Locals DEF End, TxInv, TypeOK
    <3>3. TxOk(t, calls[x], ctx[x] = "live")
      BY <2>1, Locals DEF TxOk, UnderWay, Ended, Local
    <3> QED BY <2>1, <3>1, <3>2, <3>3, LocalStep
  <2> QED BY <1>2, <2>2, <2>3 DEF ObservePrecondition
<1>3. ASSUME NEW x \in Txs, Apply(x) PROVE TxInv'
  <2> DEFINE code(ok) == IF ok THEN None ELSE "service_action_failed"
             t(ok) == [tx[x] EXCEPT !.pc = IF ok THEN "wait" ELSE "recover", !.code = code(ok)]
  <2>1. /\ tx[x].pc = "apply" /\ ctx' = ctx /\ tx[x].unit \in Targets /\ tx[x].action \in Actions
        /\ calls[x] = <<>> /\ tx[x].recovery = "not_required"
    BY <1>3, Locals DEF Apply, Running, TxOk, UnderWay
  <2>2. PICK ok \in BOOLEAN : /\ Systemctl(x, tx[x].action, ok)
                              /\ tx' = [tx EXCEPT ![x].pc = IF ok THEN "wait" ELSE "recover",
                                                  ![x].code = code(ok)]
    BY <1>3 DEF Apply
  <2>3. t(ok) \in Local
    BY <1>0 DEF Local, Codes
  <2>4. tx' = [tx EXCEPT ![x] = t(ok)]
    BY <2>2, Locals DEF TxInv, TypeOK
  <2>5. /\ t(ok).pc = (IF ok THEN "wait" ELSE "recover") /\ t(ok).code = code(ok)
        /\ t(ok).action = tx[x].action /\ t(ok).unit = tx[x].unit
        /\ t(ok).recovery = tx[x].recovery
    BY <1>0 DEF Local
  <2>6. PICK c \in {<<>>, <<tx[x].action>>} :
          /\ calls' = [calls EXCEPT ![x] = c]
          /\ c = <<>> => ~Alive(x) /\ ~ok
          /\ state' \in [Targets -> ActiveStates] /\ mover' \in [Targets -> Txs \cup {None}]
    <3>1. \/ Alive(x) /\ calls' = [calls EXCEPT ![x] = <<tx[x].action>>]
          \/ ~Alive(x) /\ ~ok /\ calls' = [calls EXCEPT ![x] = <<>>]
      <4>1. Append(calls[x], tx[x].action) = <<tx[x].action>>
        BY <2>1, CallSequences
      <4>2. \/ Alive(x) /\ calls' = [calls EXCEPT ![x] = Append(calls[x], tx[x].action)]
            \/ ~Alive(x) /\ ~ok /\ calls' = [calls EXCEPT ![x] = calls[x]]
        <5>1. Systemctl(x, tx[x].action, ok)
          BY <2>2
        <5>2. tx[x].unit \in Targets /\ tx[x].action \in Actions
          BY <2>1
        <5> QED BY <5>1, <5>2, SystemctlStep
      <4>3. calls[x] = <<>>
        BY <2>1
      <4> QED BY <4>1, <4>2, <4>3, Zenon
    <3>2. state' \in [Targets -> ActiveStates] /\ mover' \in [Targets -> Txs \cup {None}]
      BY <2>1, <2>2, SystemctlStep
    <3> QED BY <3>1, <3>2
  <2>7. c \in Seq(Actions)
    BY <2>1, <2>6, CallSequences
  <2> HIDE DEF t
  <2>8. TxOk(t(ok), c, ctx[x] = "live")
    BY <2>1, <2>5, <2>6 DEF TxOk, UnderWay, Failures, Alive
  <2> QED BY <2>1, <2>3, <2>4, <2>6, <2>7, <2>8, Locals, OneAtOnce
<1>4. ASSUME NEW x \in Txs, AwaitPostcondition(x) PROVE TxInv'
  <2>1. /\ tx[x].pc = "wait" /\ tx[x].unit \in Targets /\ tx[x].action \in Actions
        /\ UNCHANGED <<state, ctx, calls, mover>> /\ calls[x] = <<tx[x].action>>
    BY <1>4, Locals DEF AwaitPostcondition, Poll, Running, TxOk, UnderWay
  <2>2. PICK s \in ServiceStatus(x), healthy \in Check(x) :
          /\ ConditionMet(s, expectedActiveState(tx[x].action), tx[x].unit \in HealthUnits, healthy)
          /\ tx' = [tx EXCEPT ![x].pc = "done", ![x].code = "completed", ![x].recovery = "not_required",
                              ![x].seen = s, ![x].healthy = healthy]
    BY <1>4 DEF AwaitPostcondition, Poll
  <2> DEFINE t == [tx[x] EXCEPT !.pc = "done", !.code = "completed", !.recovery = "not_required",
                                !.seen = s, !.healthy = healthy]
  <2>3. s \in ActiveStates /\ healthy \in BOOLEAN
    BY <2>1, Answers
  <2>4. /\ t \in Local /\ t.pc = "done" /\ t.code = "completed" /\ t.recovery = "not_required"
        /\ t.seen = s /\ t.healthy = healthy /\ t.action = tx[x].action /\ t.unit = tx[x].unit
    BY <1>0, <2>3 DEF Local, Codes
  <2>5. tx' = [tx EXCEPT ![x] = t]
    BY <2>2, Locals DEF TxInv, TypeOK
  <2> HIDE DEF t
  <2>6. Ended(t, calls[x])
    BY <2>1, <2>2, <2>4 DEF Ended, ConditionMet
  <2>7. TxOk(t, calls[x], ctx[x] = "live")
    BY <2>4, <2>6 DEF TxOk, UnderWay
  <2> QED BY <2>1, <2>4, <2>5, <2>7, LocalStep
<1>5. ASSUME NEW x \in Txs, PostconditionTimeout(x) PROVE TxInv'
  <2> DEFINE t == [tx[x] EXCEPT !.pc = "recover", !.code = "service_postcondition_failed"]
  <2>1. /\ tx[x].pc = "wait" /\ tx[x].unit \in Targets /\ tx[x].action \in Actions
        /\ UNCHANGED <<state, ctx, calls, mover>> /\ calls[x] = <<tx[x].action>>
        /\ tx[x].recovery = "not_required"
    BY <1>5, Locals DEF PostconditionTimeout, Running, TxOk, UnderWay
  <2>2. t \in Local
    BY <1>0 DEF Local, Codes
  <2>3. tx' = [tx EXCEPT ![x] = t]
    BY <1>5, Locals DEF PostconditionTimeout, TxInv, TypeOK
  <2>4. TxOk(t, calls[x], ctx[x] = "live")
    BY <2>1, Locals DEF TxOk, UnderWay, Failures, Local
  <2> QED BY <2>1, <2>2, <2>3, <2>4, LocalStep
<1>6. ASSUME NEW x \in Txs, Recover(x) PROVE TxInv'
  <2>1. /\ tx[x].pc = "recover" /\ tx[x].unit \in Targets /\ tx[x].action \in Actions
        /\ UNCHANGED <<state, ctx, calls, mover>> /\ tx[x].code \in Failures
        /\ calls[x] = <<tx[x].action>> \/ (calls[x] = <<>> /\ ~Alive(x))
    BY <1>6, Locals DEF Recover, Running, TxOk, UnderWay, Alive
  <2>2. ASSUME NEW recovery \in {"failed", "not_defined"}, End(x, tx[x].code, recovery),
               recovery = "not_defined" => Alive(x)
        PROVE  TxInv'
    <3> DEFINE t == [tx[x] EXCEPT !.pc = "done", !.code = tx[x].code, !.recovery = recovery]
    <3>1. /\ t \in Local /\ t.pc = "done" /\ t.code = tx[x].code /\ t.recovery = recovery
          /\ t.action = tx[x].action
      BY <1>0 DEF Local
    <3>2. tx' = [tx EXCEPT ![x] = t]
      BY <2>2, Locals DEF End, TxInv, TypeOK
    <3> HIDE DEF t
    <3>3. Ended(t, calls[x])
      BY <2>1, <2>2, <3>1 DEF Ended
    <3>4. TxOk(t, calls[x], ctx[x] = "live")
      BY <3>1, <3>3 DEF TxOk, UnderWay
    <3> QED BY <2>1, <3>1, <3>2, <3>4, LocalStep
  <2>3. ASSUME RecoveryAction(tx[x].pre) # None, Alive(x), Step(x, "recoverApply") PROVE TxInv'
    <3> DEFINE t == [tx[x] EXCEPT !.pc = "recoverApply"]
    <3>1. t \in Local
      BY <1>0 DEF Local
    <3>2. tx' = [tx EXCEPT ![x] = t]
      BY <2>3, Locals DEF Step, TxInv, TypeOK
    <3>3. TxOk(t, calls[x], ctx[x] = "live")
      BY <2>1, <2>3, Locals DEF TxOk, UnderWay, Local
    <3> QED BY <2>1, <3>1, <3>2, <3>3, LocalStep
  <2> QED BY <1>6, <2>2, <2>3 DEF Recover
<1>7. ASSUME NEW x \in Txs, RecoverApply(x) PROVE TxInv'
  <2> DEFINE back == RecoveryAction(tx[x].pre)
  <2>1. /\ tx[x].pc = "recoverApply" /\ ctx' = ctx
        /\ tx[x].unit \in Targets /\ tx[x].action \in Actions
        /\ tx[x].code \in Failures /\ calls[x] = <<tx[x].action>> /\ back # None
    BY <1>7, Locals DEF RecoverApply, Running, TxOk, UnderWay
  <2>2. back \in Actions
    BY <2>1, StepBackIsAVerb
  <2>3. PICK ok \in BOOLEAN :
          /\ Systemctl(x, back, ok)
          /\ IF ok THEN Step(x, "recoverWait") ELSE End(x, tx[x].code, "failed")
    BY <1>7 DEF RecoverApply
  <2> HIDE DEF back
  <2>4. PICK c \in {<<tx[x].action>>, <<tx[x].action, back>>} :
          /\ calls' = [calls EXCEPT ![x] = c]
          /\ ok => c = <<tx[x].action, back>>
          /\ state' \in [Targets -> ActiveStates] /\ mover' \in [Targets -> Txs \cup {None}]
    <3>1. \/ Alive(x) /\ calls' = [calls EXCEPT ![x] = <<tx[x].action, back>>]
          \/ ~Alive(x) /\ ~ok /\ calls' = [calls EXCEPT ![x] = <<tx[x].action>>]
      <4>1. Append(calls[x], back) = <<tx[x].action, back>>
        BY <2>1, <2>2, CallSequences
      <4>2. \/ Alive(x) /\ calls' = [calls EXCEPT ![x] = Append(calls[x], back)]
            \/ ~Alive(x) /\ ~ok /\ calls' = [calls EXCEPT ![x] = calls[x]]
        <5>1. Systemctl(x, back, ok) /\ tx[x].unit \in Targets /\ back \in Actions
          BY <2>1, <2>2, <2>3
        <5> QED BY <5>1, SystemctlStep
      <4>3. calls[x] = <<tx[x].action>>
        BY <2>1
      <4> QED BY <4>1, <4>2, <4>3, Zenon
    <3>2. state' \in [Targets -> ActiveStates] /\ mover' \in [Targets -> Txs \cup {None}]
      BY <2>1, <2>2, <2>3, SystemctlStep
    <3> QED BY <3>1, <3>2
  <2>5. c \in Seq(Actions)
    BY <2>1, <2>2, <2>4, CallSequences
  <2>6. CASE ok
    <3> DEFINE t == [tx[x] EXCEPT !.pc = "recoverWait"]
    <3>1. /\ t \in Local /\ t.pc = "recoverWait" /\ t.code = tx[x].code /\ t.action = tx[x].action
          /\ t.unit = tx[x].unit /\ t.pre = tx[x].pre
      BY <1>0 DEF Local
    <3>2. tx' = [tx EXCEPT ![x] = t]
      BY <2>3, <2>6, Locals DEF Step, TxInv, TypeOK
    <3> HIDE DEF t
    <3>3. TxOk(t, c, ctx[x] = "live")
      BY <2>1, <2>4, <2>6, <3>1 DEF TxOk, UnderWay, back
    <3> QED BY <2>1, <2>4, <2>5, <3>1, <3>2, <3>3, Locals, OneAtOnce
  <2>7. CASE ~ok
    <3> DEFINE t == [tx[x] EXCEPT !.pc = "done", !.code = tx[x].code, !.recovery = "failed"]
    <3>1. /\ t \in Local /\ t.pc = "done" /\ t.code = tx[x].code /\ t.action = tx[x].action
          /\ t.recovery = "failed" /\ t.pre = tx[x].pre
      BY <1>0 DEF Local
    <3>2. tx' = [tx EXCEPT ![x] = t]
      BY <2>3, <2>7, Locals DEF End, TxInv, TypeOK
    <3> HIDE DEF t
    <3>3. Ended(t, c)
      BY <2>1, <2>4, <3>1 DEF Ended, back
    <3>4. TxOk(t, c, ctx[x] = "live")
      BY <3>1, <3>3 DEF TxOk, UnderWay
    <3> QED BY <2>1, <2>4, <2>5, <3>1, <3>2, <3>4, Locals, OneAtOnce
  <2> QED BY <2>6, <2>7
<1>8. ASSUME NEW x \in Txs, RecoverAwait(x) PROVE TxInv'
  <2> DEFINE back == RecoveryAction(tx[x].pre)
  <2>1. /\ tx[x].pc = "recoverWait" /\ tx[x].unit \in Targets
        /\ UNCHANGED <<state, ctx, calls, mover>> /\ tx[x].code \in Failures
        /\ back # None /\ calls[x] = <<tx[x].action, back>>
    BY <1>8, Locals DEF RecoverAwait, Poll, Running, TxOk, UnderWay
  <2>2. PICK s \in ServiceStatus(x), healthy \in Check(x) :
          /\ ConditionMet(s, expectedActiveState(back), FALSE, healthy)
          /\ tx' = [tx EXCEPT ![x].pc = "done", ![x].code = tx[x].code, ![x].recovery = "succeeded",
                              ![x].seen = s, ![x].healthy = healthy]
    BY <1>8 DEF RecoverAwait, Poll
  <2> DEFINE t == [tx[x] EXCEPT !.pc = "done", !.code = tx[x].code, !.recovery = "succeeded",
                                !.seen = s, !.healthy = healthy]
  <2>3. s \in ActiveStates /\ healthy \in BOOLEAN
    BY <2>1, Answers
  <2>4. /\ t \in Local /\ t.pc = "done" /\ t.code = tx[x].code /\ t.recovery = "succeeded"
        /\ t.seen = s /\ t.action = tx[x].action /\ t.pre = tx[x].pre
    BY <1>0, <2>3 DEF Local
  <2>5. tx' = [tx EXCEPT ![x] = t]
    BY <2>2, Locals DEF TxInv, TypeOK
  <2> HIDE DEF t
  <2>6. Ended(t, calls[x])
    BY <2>1, <2>2, <2>4 DEF Ended, ConditionMet
  <2>7. TxOk(t, calls[x], ctx[x] = "live")
    BY <2>4, <2>6 DEF TxOk, UnderWay
  <2> QED BY <2>1, <2>4, <2>5, <2>7, LocalStep
<1>9. ASSUME NEW x \in Txs, RecoverTimeout(x) PROVE TxInv'
  <2> DEFINE t == [tx[x] EXCEPT !.pc = "done", !.code = tx[x].code, !.recovery = "failed"]
  <2>1. /\ tx[x].pc = "recoverWait" /\ UNCHANGED <<state, ctx, calls, mover>> /\ tx[x].code \in Failures
        /\ RecoveryAction(tx[x].pre) # None
        /\ calls[x] = <<tx[x].action, RecoveryAction(tx[x].pre)>>
    BY <1>9, Locals DEF RecoverTimeout, TxOk, UnderWay
  <2>2. /\ t \in Local /\ t.pc = "done" /\ t.code = tx[x].code /\ t.action = tx[x].action
        /\ t.recovery = "failed" /\ t.pre = tx[x].pre
    BY <1>0 DEF Local
  <2>3. tx' = [tx EXCEPT ![x] = t]
    BY <1>9, Locals DEF RecoverTimeout, End, TxInv, TypeOK
  <2> HIDE DEF t
  <2>4. Ended(t, calls[x])
    BY <2>1, <2>2 DEF Ended
  <2>5. TxOk(t, calls[x], ctx[x] = "live")
    BY <2>2, <2>4 DEF TxOk, UnderWay
  <2> QED BY <2>1, <2>2, <2>3, <2>5, LocalStep
<1>10. ASSUME NEW x \in Txs, Deadline(x) \/ ClientGone(x) PROVE TxInv'
  <2>1. PICK k \in {"timeout", "cancelled"} :
          ctx' = [ctx EXCEPT ![x] = k] /\ UNCHANGED <<state, tx, calls, mover>>
    BY <1>10 DEF Deadline, ClientGone
  <2>2. TxOk(tx[x], calls[x], k = "live")
    BY Locals DEF TxOk, UnderWay
  <2> QED BY <2>1, <2>2, Locals, OneAtOnce
<1>11. ASSUME NEW u \in Targets, UnitSettles(u) \/ ServiceMoves(u) PROVE TxInv'
  <2>1. PICK s \in ActiveStates : Moves(u, s)
    BY <1>11 DEF UnitSettles, ServiceMoves, ActiveStates
  <2>2. /\ state' \in [Targets -> ActiveStates] /\ mover' \in [Targets -> Txs \cup {None}]
        /\ UNCHANGED <<ctx, tx, calls>>
    BY <2>1 DEF Moves, TxInv, TypeOK
  <2> QED BY <2>2 DEF TxInv, TypeOK, Alive
<1>12. CASE UNCHANGED vars
  BY <1>12 DEF vars, TxInv, TypeOK, Alive
<1> QED
  BY <1>1, <1>2, <1>3, <1>4, <1>5, <1>6, <1>7, <1>8, <1>9, <1>10, <1>11, <1>12
  DEF Next, Proceed, Quiet

(* The invariant of any number of transactions.                              *)
THEOREM TxInvariance == Spec => []TxInv
<1>1. Init => TxInv
  BY TxInit
<1>2. TxInv /\ [Next]_vars => TxInv'
  BY TxNext
<1> QED BY <1>1, <1>2, PTL DEF Spec

(* Only ActiveState values are compared and reported.                        *)
THEOREM TxTypeCorrect == Spec => []TypeOK
<1>1. TxInv => TypeOK
  BY DEF TxInv
<1> QED BY <1>1, TxInvariance, PTL

(* The calls of a transaction that has ended, or is under way, are one of    *)
(* four sequences.                                                           *)
LEMMA CallsSoFar ==
  ASSUME TxInv, NEW x \in Txs
  PROVE  \/ calls[x] = <<>>
         \/ calls[x] = <<tx[x].action>>
         \/ RecoveryAction(tx[x].pre) # None /\ calls[x] = <<tx[x].action, RecoveryAction(tx[x].pre)>>
<1>1. /\ TxOk(tx[x], calls[x], ctx[x] = "live")
      /\ tx[x].pc \in {"idle", "probe", "apply", "wait", "recover", "recoverApply", "recoverWait", "done"}
  BY Locals DEF Local
<1>2. CASE tx[x].pc = "done"
  BY <1>1, <1>2 DEF TxOk, Ended
<1>3. CASE tx[x].pc # "done"
  BY <1>1, <1>3 DEF TxOk, UnderWay
<1> QED BY <1>2, <1>3

(* "completed" is reported only after the wanted state was seen later than   *)
(* the transaction's own systemctl (runServiceTransaction 254-264).          *)
THEOREM CompletedWasSeenHolds == Spec => []CompletedWasSeen
<1>1. ASSUME TxInv, NEW x \in Txs, tx[x].code = "completed"
      PROVE  /\ calls[x] = <<tx[x].action>>
             /\ tx[x].seen = expectedActiveState(tx[x].action)
             /\ tx[x].seen = "active" /\ tx[x].unit \in HealthUnits => tx[x].healthy
  <2>1. /\ TxOk(tx[x], calls[x], ctx[x] = "live")
        /\ tx[x].pc \in {"idle", "probe", "apply", "wait", "recover", "recoverApply", "recoverWait", "done"}
    BY <1>1, Locals DEF Local
  <2>2. tx[x].pc = "done"
    <3>1. "completed" # None
      BY TxAssumption DEF Codes
    <3>2. tx[x].pc # "done" => tx[x].code \in {None, "service_action_failed", "service_postcondition_failed"}
      BY <2>1 DEF TxOk, UnderWay, Failures
    <3> QED BY <1>1, <3>1, <3>2
  <2> QED BY <1>1, <2>1, <2>2 DEF TxOk, Ended, Failures
<1>2. TxInv => CompletedWasSeen
  BY <1>1 DEF CompletedWasSeen
<1> QED BY <1>2, TxInvariance, PTL

(* A transaction starts its own verb at most once and then at most one step  *)
(* back, towards the state it found the unit in (recoverPrecondition         *)
(* 309-321).                                                                 *)
THEOREM OneStepBackHolds == Spec => []OneStepBack
<1>1. ASSUME TxInv, NEW x \in Txs
      PROVE  /\ Len(calls[x]) <= 2
             /\ Len(calls[x]) >= 1 => calls[x][1] = tx[x].action
             /\ Len(calls[x]) = 2 =>
                  \/ tx[x].pre = "active" /\ calls[x][2] = "service.start"
                  \/ tx[x].pre \in {"inactive", "failed"} /\ calls[x][2] = "service.stop"
  <2>1. CASE calls[x] = <<>>
    BY <2>1
  <2>2. CASE calls[x] = <<tx[x].action>>
    BY <2>2
  <2>3. CASE /\ RecoveryAction(tx[x].pre) # None
             /\ calls[x] = <<tx[x].action, RecoveryAction(tx[x].pre)>>
    <3>1. Len(calls[x]) = 2 /\ calls[x][1] = tx[x].action /\ calls[x][2] = RecoveryAction(tx[x].pre)
      BY <2>3
    <3> QED BY <2>3, <3>1, StepBackIsAVerb
  <2> QED BY <1>1, <2>1, <2>2, <2>3, CallsSoFar
<1>2. TxInv => OneStepBack
  BY <1>1 DEF OneStepBack
<1> QED BY <1>2, TxInvariance, PTL

(* recovery_status tells the truth about the step back.                      *)
THEOREM RecoveryToldTrulyHolds == Spec => []RecoveryToldTruly
<1>1. ASSUME TxInv, NEW x \in Txs, tx[x].pc = "done"
      PROVE  /\ tx[x].recovery = "succeeded" =>
                  Len(calls[x]) = 2 /\ tx[x].seen = expectedActiveState(calls[x][2])
             /\ tx[x].recovery \in {"not_defined", "not_required"} => Len(calls[x]) <= 1
             /\ tx[x].recovery = "not_required" <=>
                  tx[x].code \in {"completed", "service_not_allowlisted", "service_precondition_failed"}
  <2>1. Ended(tx[x], calls[x])
    BY <1>1, Locals DEF TxOk
  <2>2. tx[x].recovery = "succeeded" => calls[x] = <<tx[x].action, RecoveryAction(tx[x].pre)>>
                                        /\ tx[x].seen = expectedActiveState(RecoveryAction(tx[x].pre))
    BY <2>1 DEF Ended
  <2>3. tx[x].recovery \in {"not_defined", "not_required"} => calls[x] = <<>> \/ calls[x] = <<tx[x].action>>
    BY <2>1 DEF Ended
  <2>4. tx[x].recovery = "not_required" <=>
          tx[x].code \in {"completed", "service_not_allowlisted", "service_precondition_failed"}
    BY <2>1 DEF Ended, Failures
  <2>5. ASSUME NEW a, NEW b
        PROVE  Len(<<>>) <= 1 /\ Len(<<a>>) <= 1 /\ Len(<<a, b>>) = 2 /\ <<a, b>>[2] = b
    OBVIOUS
  <2>6. tx[x].recovery = "succeeded" =>
          Len(calls[x]) = 2 /\ tx[x].seen = expectedActiveState(calls[x][2])
    <3>1. SUFFICES ASSUME calls[x] = <<tx[x].action, RecoveryAction(tx[x].pre)>>,
                          tx[x].seen = expectedActiveState(RecoveryAction(tx[x].pre))
                   PROVE  Len(calls[x]) = 2 /\ tx[x].seen = expectedActiveState(calls[x][2])
      BY <2>2
    <3>2. calls[x][2] = RecoveryAction(tx[x].pre) /\ Len(calls[x]) = 2
      BY <3>1
    <3> QED BY <3>1, <3>2
  <2>7. tx[x].recovery \in {"not_defined", "not_required"} => Len(calls[x]) <= 1
    BY <2>3, <2>5, Zenon
  <2> QED BY <2>4, <2>6, <2>7
<1>2. TxInv => RecoveryToldTruly
  BY <1>1 DEF RecoveryToldTruly
<1> QED BY <1>2, TxInvariance, PTL

(* A transaction that has told of its unit's state has ended, and the unit   *)
(* is as told unless somebody else moved it.                                 *)
Told(t) == t.code = "completed" \/ t.recovery = "succeeded"

ToldOk(x) ==
  Told(tx[x]) => /\ tx[x].pc = "done" /\ tx[x].unit \in Targets
                 /\ mover[tx[x].unit] = x => state[tx[x].unit] = tx[x].seen

(* A step that leaves a transaction's local variables and takes its unit     *)
(* away from it, if it touches the unit at all, keeps what it told.          *)
LEMMA ToldByOther ==
  ASSUME NEW x \in Txs, ToldOk(x), tx'[x] = tx[x],
         \/ state' = state /\ mover' = mover
         \/ \E u \in Targets, who \in (Txs \cup {None}) \ {x}, s \in ActiveStates :
              state' = [state EXCEPT ![u] = s] /\ mover' = [mover EXCEPT ![u] = who],
         TxInv
  PROVE  ToldOk(x)'
<1>1. state \in [Targets -> ActiveStates] /\ mover \in [Targets -> Txs \cup {None}]
  BY DEF TxInv, TypeOK
<1>2. CASE state' = state /\ mover' = mover
  BY <1>2 DEF ToldOk
<1>3. ASSUME NEW u \in Targets, NEW who \in (Txs \cup {None}) \ {x}, NEW s \in ActiveStates,
             state' = [state EXCEPT ![u] = s], mover' = [mover EXCEPT ![u] = who]
      PROVE  ToldOk(x)'
  <2>1. CASE tx[x].unit = u
    BY <1>1, <1>3, <2>1 DEF ToldOk
  <2>2. CASE tx[x].unit # u
    BY <1>1, <1>3, <2>2 DEF ToldOk
  <2> QED BY <2>1, <2>2
<1> QED BY <1>2, <1>3

(* Systemctl of y, as x's report sees it.                                    *)
LEMMA SystemctlTakesUnit ==
  ASSUME TxInv, NEW y \in Txs, tx[y].unit \in Targets, NEW action \in Actions, NEW ok \in BOOLEAN,
         Systemctl(y, action, ok)
  PROVE  \/ state' = state /\ mover' = mover
         \/ \E s \in ActiveStates : /\ state' = [state EXCEPT ![tx[y].unit] = s]
                                    /\ mover' = [mover EXCEPT ![tx[y].unit] = y]
<1>1. state \in [Targets -> ActiveStates]
  BY DEF TxInv, TypeOK
<1>2. CASE Alive(y)
  <2>1. JobDone(tx[y].unit, action) \subseteq ActiveStates
    BY DEF JobDone, ActiveStates
  <2>2. {state[tx[y].unit], expectedActiveState(action), "failed", "changing"} \subseteq ActiveStates
    BY <1>1 DEF ActiveStates, expectedActiveState
  <2> QED BY <1>2, <2>1, <2>2 DEF Systemctl
<1>3. CASE ~Alive(y)
  BY <1>3 DEF Systemctl
<1> QED BY <1>2, <1>3

(* A step of x itself that does not end it with such a report leaves nothing *)
(* to show.                                                                  *)
LEMMA NotTold ==
  ASSUME TxInv, NEW x \in Txs, NEW t, tx' = [tx EXCEPT ![x] = t], ~Told(t)
  PROVE  ToldOk(x)'
<1>1. tx'[x] = t
  BY DEF TxInv, TypeOK
<1> QED BY <1>1 DEF ToldOk

(* Every step keeps every report, one case per action.                       *)
LEMMA ToldStep ==
  ASSUME TxInv, NEW x \in Txs, ToldOk(x), [Next]_vars PROVE ToldOk(x)'
<1> USE TxAssumption
<1>0. tx \in [Txs -> Local] /\ \A y \in Txs : tx[y] \in Local
  BY DEF TxInv, TypeOK, Local
<1>1. ASSUME NEW y \in Txs, NEW a \in Actions, NEW u \in Units, Begin(y, a, u) PROVE ToldOk(x)'
  <2>1. CASE y # x
    BY <1>0, <1>1, <2>1, ToldByOther DEF Begin
  <2>2. CASE y = x
    <3> DEFINE t == [Fresh EXCEPT !.pc = IF u \in Targets THEN "probe" ELSE "done",
                       !.code = IF u \in Targets THEN None ELSE "service_not_allowlisted",
                       !.action = a, !.unit = u]
    <3>1. tx' = [tx EXCEPT ![x] = t]
      BY <1>1, <2>2 DEF Begin
    <3>2. ~Told(t)
      BY DEF Told, Fresh, Codes
    <3> HIDE DEF t
    <3> QED BY <3>1, <3>2, NotTold
  <2> QED BY <2>1, <2>2
<1>2. ASSUME NEW y \in Txs, Apply(y) \/ RecoverApply(y) PROVE ToldOk(x)'
  <2>1. PICK action \in Actions, ok \in BOOLEAN : Systemctl(y, action, ok)
    <3>1. CASE Apply(y)
      BY <3>1, Locals DEF Apply, Running
    <3>2. CASE RecoverApply(y)
      <4>1. RecoveryAction(tx[y].pre) \in Actions
        BY <3>2, Locals, StepBackIsAVerb DEF RecoverApply, TxOk, UnderWay
      <4> QED BY <3>2, <4>1 DEF RecoverApply
    <3> QED BY <1>2, <3>1, <3>2
  <2>2. tx[y].unit \in Targets /\ tx[y].pc \in {"apply", "recoverApply"}
    BY <1>2, Locals DEF Apply, RecoverApply, Running
  <2>3. CASE y # x
    <3>1. \/ state' = state /\ mover' = mover
          \/ \E s \in ActiveStates : /\ state' = [state EXCEPT ![tx[y].unit] = s]
                                     /\ mover' = [mover EXCEPT ![tx[y].unit] = y]
      BY <2>1, <2>2, SystemctlTakesUnit
    <3>2. tx'[x] = tx[x]
      BY <1>0, <1>2, <2>3 DEF Apply, RecoverApply, Step, End
    <3> QED BY <2>2, <2>3, <3>1, <3>2, ToldByOther
  <2>4. CASE y = x
    <3>1. ~Told(tx[x])
      BY <2>2, <2>4 DEF ToldOk
    <3>2. ~Told(tx'[x])
      <4>1. CASE Apply(x)
        <5>1. PICK k \in BOOLEAN :
                tx' = [tx EXCEPT ![x].pc = IF k THEN "wait" ELSE "recover",
                                 ![x].code = IF k THEN None ELSE "service_action_failed"]
          BY <4>1 DEF Apply
        <5>2. None # "completed"
          BY DEF Codes
        <5>3. tx'[x].recovery = tx[x].recovery /\ tx'[x].code \in {None, "service_action_failed"}
          BY <1>0, <5>1 DEF Local
        <5> QED BY <3>1, <5>2, <5>3 DEF Told
      <4>2. CASE RecoverApply(x)
        <5>1. Step(x, "recoverWait") \/ End(x, tx[x].code, "failed")
          BY <4>2 DEF RecoverApply
        <5> QED BY <1>0, <3>1, <5>1 DEF Step, End, Told, Local
      <4> QED BY <1>2, <2>4, <4>1, <4>2
    <3> QED BY <3>2 DEF ToldOk
  <2> QED BY <2>3, <2>4
<1>3. ASSUME NEW y \in Txs,
             ObservePrecondition(y) \/ PostconditionTimeout(y) \/ Recover(y) \/ RecoverTimeout(y)
      PROVE  ToldOk(x)'
  <2>1. state' = state /\ mover' = mover /\ tx[y].pc \in {"probe", "wait", "recover", "recoverWait"}
    BY <1>3 DEF ObservePrecondition, PostconditionTimeout, Recover, RecoverTimeout
  <2>2. CASE y # x
    <3>1. tx'[x] = tx[x]
      BY <1>0, <1>3, <2>2 DEF ObservePrecondition, PostconditionTimeout, Recover, RecoverTimeout, Step, End
    <3> QED BY <2>1, <3>1, ToldByOther
  <2>3. CASE y = x
    <3>1. ~Told(tx[x])
      BY <2>1, <2>3 DEF ToldOk
    <3>2. ~Told(tx'[x])
      BY <1>0, <1>3, <2>3, <3>1
      DEF ObservePrecondition, PostconditionTimeout, Recover, RecoverTimeout, Step, End, Told, Local
    <3> QED BY <3>2 DEF ToldOk
  <2> QED BY <2>2, <2>3
<1>4. ASSUME NEW y \in Txs, AwaitPostcondition(y) \/ RecoverAwait(y) PROVE ToldOk(x)'
  <2>1. PICK want, needHealth, code, recovery : Poll(y, want, needHealth, code, recovery)
    BY <1>4 DEF AwaitPostcondition, RecoverAwait
  <2>2. PICK s \in ServiceStatus(y), healthy \in Check(y) :
          tx' = [tx EXCEPT ![y].pc = "done", ![y].code = code, ![y].recovery = recovery,
                           ![y].seen = s, ![y].healthy = healthy]
    BY <2>1 DEF Poll
  <2>3. state' = state /\ mover' = mover
    BY <2>1 DEF Poll
  <2>4. tx[y].unit \in Targets
    BY <1>4, Locals DEF AwaitPostcondition, RecoverAwait, Running
  <2>5. CASE y # x
    BY <1>0, <2>2, <2>3, <2>5, ToldByOther
  <2>6. CASE y = x
    <3>1. tx'[x].pc = "done" /\ tx'[x].unit = tx[x].unit /\ tx'[x].seen = s
      BY <1>0, <2>2, <2>6 DEF Local
    <3>2. s = state[tx[x].unit]
      BY <2>2, <2>6 DEF ServiceStatus
    <3> QED BY <2>3, <2>4, <2>6, <3>1, <3>2 DEF ToldOk
  <2> QED BY <2>5, <2>6
<1>5. ASSUME NEW y \in Txs, Deadline(y) \/ ClientGone(y) PROVE ToldOk(x)'
  BY <1>5, ToldByOther DEF Deadline, ClientGone
<1>6. ASSUME NEW u \in Targets, UnitSettles(u) \/ ServiceMoves(u) PROVE ToldOk(x)'
  <2>1. PICK s \in ActiveStates : Moves(u, s)
    BY <1>6 DEF UnitSettles, ServiceMoves, ActiveStates
  <2> QED BY <2>1, ToldByOther DEF Moves
<1>7. CASE UNCHANGED vars
  BY <1>7, ToldByOther DEF vars
<1> QED BY <1>1, <1>2, <1>3, <1>4, <1>5, <1>6, <1>7 DEF Next, Proceed, Quiet

(* With no lock on units, a report of "completed" or of a recovery that       *)
(* succeeded can be belied by another transaction's systemctl or by the      *)
(* service itself, and by nothing else (runServiceTransaction 254-264,       *)
(* recoverPrecondition 324-327).                                             *)
THEOREM ReportStandsHolds == Spec => []ReportStands
<1> DEFINE ReportInv == \A x \in Txs : ToldOk(x)
<1>1. Init => ReportInv
  BY TxAssumption DEF Init, Fresh, ToldOk, Told, Codes
<1>2. TxInv /\ ReportInv /\ [Next]_vars => ReportInv'
  BY ToldStep
<1>3. ReportInv => ReportStands
  BY DEF ToldOk, Told, ReportStands
<1> HIDE DEF ReportInv
<1> QED BY <1>1, <1>2, <1>3, TxInvariance, PTL DEF Spec

=============================================================================
