-------------------------- MODULE ListenUnixProofs --------------------------
(***************************************************************************)
(* ListenUnix, proved for any number of runs of qcored one after the other *)
(* (Overlap = FALSE, as systemd runs the unit).  The invariant says what   *)
(* the one that is under way finds at the path at each of its steps.       *)
(***************************************************************************)
EXTENDS ListenUnix, TLAPS

Labels == Over \cup {"lstat", "dial", "remove", "bind", "listen", "chmod", "serve", "undo",
                     "unlink", "unlinkAgain"}

ListenTypeOK == path \in Procs \cup {None, File} /\ pc \in [Procs -> Labels]

OneAtATime == \A p, q \in Procs : pc[p] \notin Over /\ pc[q] \notin Over => p = q

PathKnown ==
  \A p \in Procs :
    /\ pc[p] \in {"listen", "chmod", "serve", "undo", "unlink"} => path = p
    /\ pc[p] \in {"bind", "unlinkAgain"} => path \in {None, File}
    /\ pc[p] \in {"new", "lstat"} => path # p
    /\ pc[p] \in {"dial", "remove"} => path # p

ListenInv == ListenTypeOK /\ OneAtATime /\ PathKnown


(* Nothing is at the path before the first start.                            *)
LEMMA ListenInit == Init => ListenInv
BY ListenAssumption DEF Init, ListenInv, ListenTypeOK, OneAtATime, PathKnown, Labels, Over

(* Every step keeps the invariant, as long as one run at a time is under     *)
(* way.                                                                      *)
LEMMA ListenNext ==
  ASSUME Overlap = FALSE
  PROVE  ListenInv /\ [Next]_vars => ListenInv'
<1> SUFFICES ASSUME ListenInv, [Next]_vars PROVE ListenInv'
  OBVIOUS
<1> USE ListenAssumption DEF ListenInv, ListenTypeOK, OneAtATime, PathKnown, Labels, Over, Goto
<1>1. ASSUME NEW p \in Procs, Start(p) PROVE ListenInv'
  BY <1>1 DEF Start
<1>2. ASSUME NEW p \in Procs, Lstat(p) PROVE ListenInv'
  BY <1>2 DEF Lstat
<1>3. ASSUME NEW p \in Procs, Dial(p) PROVE ListenInv'
  BY <1>3 DEF Dial
<1>4. ASSUME NEW p \in Procs, Remove(p) PROVE ListenInv'
  BY <1>4 DEF Remove
<1>5. ASSUME NEW p \in Procs, Bind(p) PROVE ListenInv'
  BY <1>5 DEF Bind
<1>6. ASSUME NEW p \in Procs, Listen(p) \/ Chmod(p) \/ ChmodFails(p) PROVE ListenInv'
  BY <1>6 DEF Listen, Chmod, ChmodFails
<1>7. ASSUME NEW p \in Procs, Undo(p) \/ GiveUp(p) PROVE ListenInv'
  BY <1>7 DEF Undo, GiveUp
<1>8. ASSUME NEW p \in Procs, Close(p) \/ Unlink(p) \/ UnlinkAgain(p) PROVE ListenInv'
  BY <1>8 DEF Close, Unlink, UnlinkAgain
<1>9. ASSUME NEW p \in Procs, Kill(p) PROVE ListenInv'
  BY <1>9 DEF Kill
<1>10. CASE Operator
  BY <1>10 DEF Operator
<1>11. CASE UNCHANGED vars
  BY <1>11 DEF vars
<1> QED
  BY <1>1, <1>2, <1>3, <1>4, <1>5, <1>6, <1>7, <1>8, <1>9, <1>10, <1>11 DEF Next

(* The invariant, for any number of runs one after the other.                *)
THEOREM ListenInvariance ==
  ASSUME Overlap = FALSE
  PROVE  Spec => []ListenInv
<1>1. Init => ListenInv
  BY ListenInit
<1>2. ListenInv /\ [Next]_vars => ListenInv'
  BY ListenNext
<1> QED BY <1>1, <1>2, PTL DEF Spec

(* A qcored that serves is the one at the path, whatever earlier runs left   *)
(* there (ListenUnix 17-53, Close 60-70).                                    *)
THEOREM ServingIsReachableHolds ==
  ASSUME Overlap = FALSE
  PROVE  Spec => []ServingIsReachable
<1>1. ListenInv => ServingIsReachable
  BY DEF ListenInv, PathKnown, ServingIsReachable
<1> QED BY <1>1, ListenInvariance, PTL

(* A qcored gives way only in Lstat or Bind, and then to a regular file:     *)
(* what its Dial meets is never another qcored that listens.                 *)
LEMMA RefusedByFile ==
  ASSUME ListenInv, Next
  PROVE  \A p \in Procs : pc[p] # "refused" /\ pc'[p] = "refused" => path = File
<1> USE ListenAssumption DEF ListenInv, ListenTypeOK, OneAtATime, PathKnown, Labels, Over, Goto, Listening
<1> SUFFICES ASSUME NEW q \in Procs, pc[q] # "refused", pc'[q] = "refused" PROVE path = File
  OBVIOUS
<1>1. ASSUME NEW p \in Procs, Start(p) \/ Remove(p) \/ Listen(p) \/ Chmod(p) \/ ChmodFails(p)
      PROVE  FALSE
  BY <1>1 DEF Start, Remove, Listen, Chmod, ChmodFails
<1>2. ASSUME NEW p \in Procs, Undo(p) \/ GiveUp(p) \/ Close(p) \/ Unlink(p) \/ UnlinkAgain(p) \/ Kill(p)
      PROVE  FALSE
  BY <1>2 DEF Undo, GiveUp, Close, Unlink, UnlinkAgain, Kill
<1>3. ASSUME NEW p \in Procs, Lstat(p) PROVE path = File
  BY <1>3 DEF Lstat
<1>4. ASSUME NEW p \in Procs, Dial(p) PROVE FALSE
  BY <1>4 DEF Dial
<1>5. ASSUME NEW p \in Procs, Bind(p) PROVE path = File
  BY <1>5 DEF Bind
<1>6. ASSUME Operator PROVE FALSE
  BY <1>6 DEF Operator
<1> QED BY <1>1, <1>2, <1>3, <1>4, <1>5, <1>6 DEF Next

(* Nothing an earlier run left behind refuses the next one (25-43).          *)
THEOREM OnlyAFileRefusesHolds ==
  ASSUME Overlap = FALSE
  PROVE  Spec => OnlyAFileRefuses
<1>1. ListenInv /\ [Next]_vars =>
        [\A p \in Procs : pc[p] # "refused" /\ pc'[p] = "refused" => path = File]_vars
  BY RefusedByFile
<1> QED BY <1>1, ListenInvariance, PTL DEF Spec, OnlyAFileRefuses

=============================================================================
