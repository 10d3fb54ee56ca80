------------------------- MODULE ServiceTransaction -------------------------
(***************************************************************************)
(* Registry.runServiceTransaction: an approved start, stop or restart of a *)
(* unit.  Observe the unit, act, poll until the wanted state is seen, and  *)
(* on failure try one step back.  Transactions of different requests run   *)
(* at once and take no lock on the unit.  A transaction's context ends at  *)
(* the transaction timeout, or when the client that sent the request hangs *)
(* up (its timeout is 15 s by default, the transaction's is 30 s).         *)
(*                                                                         *)
(* systemd is external: systemctl runs to an end or fails, a unit settles  *)
(* after a while, and a running service may exit, die or reload.           *)
(***************************************************************************)
EXTENDS Sequences, Integers

CONSTANTS
  Txs,          \* the transactions
  Units,        \* the units a request may name
  Targets,      \* the units of the loaded policy
  HealthUnits,  \* the targets with a health URL
  None

VARIABLES
  state,  \* state[u]: systemd's ActiveState of unit u
  ctx,    \* ctx[x]: "live", or why the context of x ended
  tx,     \* tx[x]: the local variables of transaction x
  calls,  \* calls[x]: the systemctl verbs x has started, in order (history)
  mover   \* mover[u]: whose systemctl moved u last, None if u moved by itself (history)

vars == <<state, ctx, tx, calls, mover>>

Actions == {"service.start", "service.stop", "service.restart"}

(* "changing" is activating, deactivating, reloading and whatever else the   *)
(* code tells from none of the other three.                                  *)
ActiveStates == {"active", "inactive", "failed", "changing"}

Codes == {"completed", "service_not_allowlisted", "service_precondition_failed",
          "service_action_failed", "service_postcondition_failed"}

ASSUME TxAssumption == Targets \subseteq Units /\ HealthUnits \subseteq Targets
                       /\ None \notin Txs \cup Units \cup Codes \cup Actions \cup ActiveStates

Fresh == [pc |-> "idle", action |-> None, unit |-> None, pre |-> None, seen |-> None,
          healthy |-> FALSE, code |-> None, recovery |-> "not_required"]

expectedSubState(action) == \* faulty: SubState taken for ActiveState
  IF action = "service.stop" THEN "dead" ELSE "running"

expectedActiveState(action) == IF action = "service.stop" THEN "inactive" ELSE "active"

(* The step back from a failure: None where the precondition defines none.   *)
RecoveryFromFailedIsStart(pre) == \* faulty: takes "failed" for a unit to start
  CASE pre \in {"active", "failed"} -> "service.start"
    [] pre = "inactive" -> "service.stop"
    [] OTHER -> None

RecoveryAction(pre) == CASE pre = "active" -> "service.start"
                         [] pre \in {"inactive", "failed"} -> "service.stop"
                         [] OTHER -> None

Alive(x) == ctx[x] = "live"

Step(x, pc) == tx' = [tx EXCEPT ![x].pc = pc]

End(x, code, recovery) ==
  tx' = [tx EXCEPT ![x].pc = "done", ![x].code = code, ![x].recovery = recovery]

(***************************************************************************)
(* systemctl <verb> -- <unit>, applyServiceAction's effect.  With the      *)
(* context gone exec does not start it.  On success the job is done, which *)
(* for a stop may leave the unit failed, and leaves a failed one so; on    *)
(* failure, which includes being killed at the deadline, the job may have  *)
(* done nothing, or its work, left the unit failed, or still be under way. *)
(***************************************************************************)
JobDone(u, action) == IF action # "service.stop" THEN {"active"}
                      ELSE IF state[u] = "failed" THEN {"failed"}
                      ELSE {"inactive", "failed"}

Systemctl(x, action, ok) ==
  LET u == tx[x].unit
      want == expectedActiveState(action)
  IN IF Alive(x)
     THEN /\ calls' = [calls EXCEPT ![x] = Append(@, action)]
          /\ mover' = [mover EXCEPT ![u] = x]
          /\ \E s \in IF ok THEN JobDone(u, action) ELSE {state[u], want, "failed", "changing"} :
               state' = [state EXCEPT ![u] = s]
     ELSE ~ok /\ UNCHANGED <<calls, mover, state>>

(* What systemctl show and the health endpoint may answer; with the context  *)
(* gone they fail.                                                           *)
ServiceStatus(x) == IF Alive(x) THEN {state[tx[x].unit]} ELSE {}
Check(x) == IF Alive(x) THEN BOOLEAN ELSE {FALSE}

(***************************************************************************)
(* The transaction.                                                        *)
(***************************************************************************)
Begin(x, action, u) ==
  /\ tx[x] = Fresh
  /\ tx' = [tx EXCEPT ![x] = [Fresh EXCEPT
       !.pc = IF u \in Targets THEN "probe" ELSE "done",
       !.code = IF u \in Targets THEN None ELSE "service_not_allowlisted",
       !.action = action, !.unit = u]]
  /\ UNCHANGED <<state, ctx, calls, mover>>

(* The precondition; the health probe that follows it is only reported.      *)
ObservePrecondition(x) ==
  /\ tx[x].pc = "probe"
  /\ \/ \E s \in ServiceStatus(x) : tx' = [tx EXCEPT ![x].pc = "apply", ![x].pre = s]
     \/ End(x, "service_precondition_failed", "not_required")
  /\ UNCHANGED <<state, ctx, calls, mover>>

Apply(x) ==
  /\ tx[x].pc = "apply"
  /\ \E ok \in BOOLEAN :
       /\ Systemctl(x, tx[x].action, ok)
       /\ tx' = [tx EXCEPT ![x].pc = IF ok THEN "wait" ELSE "recover",
                           ![x].code = IF ok THEN None ELSE "service_action_failed"]
  /\ UNCHANGED ctx

(* waitForServicePostcondition: one probe of the unit, and of its health     *)
(* where the wait is for an active unit that has a health URL.               *)
ConditionMetUnprobed(s, want, needHealth, healthy) == \* faulty: health is not asked for
  s = want

ConditionMet(s, want, needHealth, healthy) ==
  s = want /\ (want = "active" /\ needHealth => healthy)

(* A probe that misses leaves only a reading for the error report.           *)
Poll(x, want, needHealth, code, recovery) ==
  /\ \E s \in ServiceStatus(x), healthy \in Check(x) :
       /\ ConditionMet(s, want, needHealth, healthy)
       /\ tx' = [tx EXCEPT ![x].pc = "done", ![x].code = code, ![x].recovery = recovery,
                           ![x].seen = s, ![x].healthy = healthy]
  /\ UNCHANGED <<state, ctx, calls, mover>>

AwaitByPrecondition(x) == \* faulty: content with the reading from before the action
  /\ tx[x].pc = "wait"
  /\ IF tx[x].pre = expectedActiveState(tx[x].action)
     THEN /\ tx' = [tx EXCEPT ![x].pc = "done", ![x].code = "completed",
                              ![x].seen = tx[x].pre, ![x].healthy = TRUE]
          /\ UNCHANGED <<state, ctx, calls, mover>>
     ELSE Poll(x, expectedActiveState(tx[x].action), tx[x].unit \in HealthUnits,
               "completed", "not_required")

AwaitPostcondition(x) ==
  /\ tx[x].pc = "wait"
  /\ Poll(x, expectedActiveState(tx[x].action), tx[x].unit \in HealthUnits,
          "completed", "not_required")

PostconditionForever(x) == \* faulty: a wait that only success ends
  /\ tx[x].pc = "wait"
  /\ ~Alive(x)
  /\ UNCHANGED vars

PostconditionTimeout(x) ==
  /\ tx[x].pc = "wait"
  /\ ~Alive(x)
  /\ tx' = [tx EXCEPT ![x].pc = "recover", ![x].code = "service_postcondition_failed"]
  /\ UNCHANGED <<state, ctx, calls, mover>>

(***************************************************************************)
(* recoverPrecondition.                                                    *)
(***************************************************************************)
Recover(x) ==
  /\ tx[x].pc = "recover"
  /\ IF ~Alive(x) THEN End(x, tx[x].code, "failed")
     ELSE IF RecoveryAction(tx[x].pre) = None THEN End(x, tx[x].code, "not_defined")
     ELSE Step(x, "recoverApply")
  /\ UNCHANGED <<state, ctx, calls, mover>>

RecoverApplyUnwatched(x) == \* faulty: takes the verb's success for the unit's state
  /\ tx[x].pc = "recoverApply"
  /\ \E ok \in BOOLEAN :
       /\ Systemctl(x, RecoveryAction(tx[x].pre), ok)
       /\ End(x, tx[x].code, IF ok THEN "succeeded" ELSE "failed")
  /\ UNCHANGED ctx

RecoverApply(x) ==
  /\ tx[x].pc = "recoverApply"
  /\ \E ok \in BOOLEAN :
       /\ Systemctl(x, RecoveryAction(tx[x].pre), ok)
       /\ IF ok THEN Step(x, "recoverWait") ELSE End(x, tx[x].code, "failed")
  /\ UNCHANGED ctx

RecoverAwait(x) ==
  /\ tx[x].pc = "recoverWait"
  /\ Poll(x, expectedActiveState(RecoveryAction(tx[x].pre)), FALSE,
          tx[x].code, "succeeded")

RecoverTimeout(x) ==
  /\ tx[x].pc = "recoverWait"
  /\ ~Alive(x)
  /\ End(x, tx[x].code, "failed")
  /\ UNCHANGED <<state, ctx, calls, mover>>

(***************************************************************************)
(* The context, and systemd on its own.                                    *)
(***************************************************************************)
Running(x) == tx[x].pc \notin {"idle", "done"}

Deadline(x) == /\ Running(x) /\ Alive(x)
               /\ ctx' = [ctx EXCEPT ![x] = "timeout"]
               /\ UNCHANGED <<state, tx, calls, mover>>

ClientGone(x) == /\ Running(x) /\ Alive(x)
                 /\ ctx' = [ctx EXCEPT ![x] = "cancelled"]
                 /\ UNCHANGED <<state, tx, calls, mover>>

Moves(u, s) == /\ state' = [state EXCEPT ![u] = s]
               /\ mover' = [mover EXCEPT ![u] = None]
               /\ UNCHANGED <<ctx, tx, calls>>

UnitSettles(u) == /\ state[u] = "changing"
                  /\ \E s \in {"active", "inactive", "failed"} : Moves(u, s)

(* A clean exit, a crash, a restart or a reload that nobody here asked for.  *)
ServiceMoves(u) == /\ state[u] = "active"
                   /\ \E s \in {"inactive", "failed", "changing"} : Moves(u, s)

Quiet == (\A x \in Txs : tx[x].pc = "done") /\ UNCHANGED vars

Init ==
  /\ state \in [Targets -> ActiveStates]
  /\ ctx = [x \in Txs |-> "live"]
  /\ tx = [x \in Txs |-> Fresh]
  /\ calls = [x \in Txs |-> <<>>]
  /\ mover = [u \in Targets |-> None]

Proceed(x) ==
  \/ ObservePrecondition(x) \/ Apply(x) \/ PostconditionTimeout(x)
  \/ Recover(x) \/ RecoverApply(x) \/ RecoverTimeout(x)

Next ==
  \/ \E x \in Txs :
       \/ \E a \in Actions, u \in Units : Begin(x, a, u)
       \/ Proceed(x)
       \/ AwaitPostcondition(x)
       \/ RecoverAwait(x)
       \/ Deadline(x)
       \/ ClientGone(x)
  \/ \E u \in Targets : UnitSettles(u) \/ ServiceMoves(u)
  \/ Quiet

(* A running goroutine proceeds and its timer fires.  Nothing is assumed of  *)
(* systemd, of the client, or of the polls ever seeing what they wait for.   *)
Fairness == \A x \in Txs : WF_vars(Proceed(x)) /\ WF_vars(Deadline(x))

Spec == Init /\ [][Next]_vars /\ Fairness

-----------------------------------------------------------------------------
(* Types: only ActiveState values are compared and reported, and a           *)
(* transaction is at one of its steps with one of its error codes.           *)
TypeOK ==
  /\ state \in [Targets -> ActiveStates]
  /\ ctx \in [Txs -> {"live", "timeout", "cancelled"}]
  /\ tx \in [Txs -> [pc : {"idle", "probe", "apply", "wait", "recover",
                           "recoverApply", "recoverWait", "done"},
                     action : Actions \cup {None}, unit : Units \cup {None},
                     pre : ActiveStates \cup {None}, seen : ActiveStates \cup {None},
                     healthy : BOOLEAN,
                     code : Codes \cup {None},
                     recovery : {"not_required", "failed", "not_defined", "succeeded"}]]
  /\ calls \in [Txs -> Seq(Actions)]
  /\ mover \in [Targets -> Txs \cup {None}]

(* "completed" is reported only after the wanted state was seen on the unit  *)
(* later than this transaction's own systemctl, with the health endpoint     *)
(* answering where one is required (lines 254-264, 295-297).                 *)
CompletedWasSeen ==
  \A x \in Txs : tx[x].code = "completed" =>
    /\ calls[x] = <<tx[x].action>>
    /\ tx[x].seen = expectedActiveState(tx[x].action)
    /\ tx[x].seen = "active" /\ tx[x].unit \in HealthUnits => tx[x].healthy

(* Whatever fails and whenever, a transaction starts its own verb at most    *)
(* once and then at most one more, which points back to the state it found   *)
(* the unit in; a unit found in any other state is left alone.               *)
OneStepBack ==
  \A x \in Txs :
    /\ Len(calls[x]) <= 2
    /\ Len(calls[x]) >= 1 => calls[x][1] = tx[x].action
    /\ Len(calls[x]) = 2 =>
         \/ tx[x].pre = "active" /\ calls[x][2] = "service.start"
         \/ tx[x].pre \in {"inactive", "failed"} /\ calls[x][2] = "service.stop"

(* recovery_status tells the truth: "succeeded" means a step back was run    *)
(* and its state seen, "not_defined" and "not_required" mean none was run.   *)
RecoveryToldTruly ==
  \A x \in Txs : tx[x].pc = "done" =>
    /\ tx[x].recovery = "succeeded" =>
         Len(calls[x]) = 2 /\ tx[x].seen = expectedActiveState(calls[x][2])
    /\ tx[x].recovery \in {"not_defined", "not_required"} => Len(calls[x]) <= 1
    /\ tx[x].recovery = "not_required" <=>
         tx[x].code \in {"completed", "service_not_allowlisted", "service_precondition_failed"}

(* What a transaction reports of its unit, "completed" or a recovery that    *)
(* succeeded, stands until somebody else moves the unit: with no lock on     *)
(* units only another transaction's systemctl or the service itself can      *)
(* belie a report, never a step of the transaction that made it, and never   *)
(* a reading from before its last systemctl (254-264, 324-327).              *)
ReportStands ==
  \A x \in Txs :
    /\ tx[x].code = "completed" \/ tx[x].recovery = "succeeded"
    /\ mover[tx[x].unit] = x
    => state[tx[x].unit] = tx[x].seen

(* Every transaction ends, whatever systemd, the client and the health       *)
(* endpoint do.                                                              *)
EveryTransactionEnds == \A x \in Txs : tx[x].pc = "probe" ~> tx[x].pc = "done"

(* A mutation that did not reach its postcondition within the transaction    *)
(* timeout, its client still waiting, has made its one defined step back     *)
(* (runServiceTransaction 254-258).                                          *)
FailureIsRecovered ==
  \A x \in Txs :
    tx[x].pc = "done" /\ tx[x].code = "service_postcondition_failed"
      /\ ctx[x] = "timeout" /\ RecoveryAction(tx[x].pre) # None
    => Len(calls[x]) = 2

=============================================================================
