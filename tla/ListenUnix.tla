----------------------------- MODULE ListenUnix -----------------------------
(***************************************************************************)
(* qcored's claim on its Unix socket: broker.ListenUnix, the two Close     *)
(* calls at the end of serve (http.Server closes the listener, and so does *)
(* the deferred call), and a qcored that is killed and leaves its socket   *)
(* behind.  Every step is a system call of its own, and each goes by the   *)
(* path: what is there may have changed since the step before.             *)
(*                                                                         *)
(* With Overlap, a qcored may be started while another one runs; without,  *)
(* as systemd runs the unit, only when none does.                          *)
(***************************************************************************)
EXTENDS Naturals

CONSTANTS
  Procs,    \* the runs of qcored, each started once
  Overlap,  \* whether two may run at the same time
  None,     \* nothing at the path
  File      \* a regular file at the path

VARIABLES
  path,  \* what is at the socket path: None, File, or the run that bound it
  pc     \* pc[p]: where run p is

vars == <<path, pc>>

ASSUME ListenAssumption == None # File /\ {None, File} \cap Procs = {} /\ Overlap \in BOOLEAN

Over == {"new", "over", "refused", "failed", "killed"}

(* Connections to the socket of p are accepted into its backlog.             *)
Listening(p) == p \in Procs /\ pc[p] \in {"chmod", "serve"}

Goto(p, l) == pc' = [pc EXCEPT ![p] = l]

Start(p) ==
  /\ pc[p] = "new"
  /\ Overlap \/ \A q \in Procs : pc[q] \in Over
  /\ Goto(p, "lstat")
  /\ UNCHANGED path

(***************************************************************************)
(* ListenUnix.                                                             *)
(***************************************************************************)
Lstat(p) ==
  /\ pc[p] = "lstat"
  /\ Goto(p, CASE path = None -> "bind" [] path = File -> "refused" [] OTHER -> "dial")
  /\ UNCHANGED path

(* connect is refused where nobody listens, on a regular file too; a path    *)
(* that is gone counts as stale as well.                                     *)
Dial(p) ==
  /\ pc[p] = "dial"
  /\ Goto(p, IF Listening(path) THEN "refused" ELSE "remove")
  /\ UNCHANGED path

RemoveSkipped(p) == \* faulty: leaves the stale socket to bind
  /\ pc[p] = "remove"
  /\ Goto(p, "bind")
  /\ UNCHANGED path

Remove(p) ==
  /\ pc[p] = "remove"
  /\ Goto(p, IF path = None THEN "failed" ELSE "bind")
  /\ path' = None

(* net.Listen is two calls: bind makes the socket, listen opens it.          *)
Bind(p) ==
  /\ pc[p] = "bind"
  /\ IF path = None THEN path' = p /\ Goto(p, "listen")
     ELSE Goto(p, "refused") /\ UNCHANGED path

Listen(p) == pc[p] = "listen" /\ Goto(p, "chmod") /\ UNCHANGED path

Chmod(p) == pc[p] = "chmod" /\ path # None /\ Goto(p, "serve") /\ UNCHANGED path

ChmodFailsServing(p) == \* faulty: cleans up and does not return
  /\ pc[p] = "chmod"
  /\ path' = None
  /\ Goto(p, "serve")

ChmodFails(p) == pc[p] = "chmod" /\ Goto(p, "undo") /\ UNCHANGED path

Undo(p) == pc[p] = "undo" /\ path' = None /\ Goto(p, "failed")

(* Any of the other calls fails: ListenUnix returns and leaves all as it is. *)
GiveUp(p) ==
  /\ pc[p] \in {"lstat", "dial", "remove", "bind"}
  /\ Goto(p, "failed")
  /\ UNCHANGED path

(***************************************************************************)
(* The end of serve.  Shutdown, or Serve's own failure, closes the         *)
(* listener, whose Close then removes the path; the deferred Close removes *)
(* it once more.                                                           *)
(***************************************************************************)
Close(p) == pc[p] = "serve" /\ Goto(p, "unlink") /\ UNCHANGED path

Unlink(p) == pc[p] = "unlink" /\ path' = None /\ Goto(p, "unlinkAgain")

UnlinkAgain(p) == pc[p] = "unlinkAgain" /\ path' = None /\ Goto(p, "over")

Kill(p) ==
  /\ pc[p] \notin Over
  /\ Goto(p, "killed")
  /\ UNCHANGED path

(* Somebody clears the path or puts a file there, at any time, but leaves    *)
(* the socket of a running qcored alone.                                     *)
Operator ==
  /\ path \in Procs => pc[path] \in Over
  /\ path' \in {None, File} \ {path}
  /\ UNCHANGED pc

Init == path = None /\ pc = [p \in Procs |-> "new"]

Next ==
  \/ \E p \in Procs :
       \/ Start(p) \/ Lstat(p) \/ Dial(p) \/ Remove(p) \/ Bind(p) \/ Listen(p)
       \/ Chmod(p) \/ ChmodFails(p) \/ Undo(p) \/ GiveUp(p)
       \/ Close(p) \/ Unlink(p) \/ UnlinkAgain(p) \/ Kill(p)
  \/ Operator

Spec == Init /\ [][Next]_vars

-----------------------------------------------------------------------------
(* A qcored that serves is the one at the path: clients reach it, crashes    *)
(* and left-over sockets of earlier runs notwithstanding.                    *)
ServingIsReachable == \A p \in Procs : pc[p] = "serve" => path = p

(* What an earlier run left behind never keeps the next one from starting:   *)
(* it gives way only to a regular file.                                      *)
OnlyAFileRefuses ==
  [][\A p \in Procs : pc[p] # "refused" /\ pc'[p] = "refused" => path = File]_vars

(* As the comment on ListenUnix has it, a socket that is removed is stale:   *)
(* no step takes the path from a qcored that listens there.                  *)
RemovesOnlyStale == [][\A p \in Procs : path = p /\ Listening(p) => path' = p]_vars

=============================================================================
