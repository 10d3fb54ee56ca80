-------------------------- MODULE MCApprovalBroker --------------------------
(* Small instances of ApprovalBroker.                                        *)
EXTENDS ApprovalBroker

Signed(p) == [p EXCEPT !.digest = PlanDigest(p)]

Alice == [id |-> "alice", kind |-> "human",
          perms |-> {"operations.confirm", "operations.execute.mutate"}]
Tci1  == [id |-> "tci1", kind |-> "tci", perms |-> {"operations.propose"}]

MCActors == {Alice, Tci1}

Stop == Signed([id |-> "p1", session |-> "s1", actor |-> "tci1", action |-> "service.stop",
                unit |-> "nginx", risk |-> "high", confirmable |-> TRUE,
                created |-> 1, expires |-> 2, digest |-> ""])
Start == Signed([Stop EXCEPT !.id = "p2", !.action = "service.start", !.risk = "low"])
Tampered == [Stop EXCEPT !.action = "service.start", !.risk = "low"]

Foreign  == Signed([Stop EXCEPT !.id = "p3", !.unit = "sshd"])
Nameless == Signed([Stop EXCEPT !.id = ""])

MCPlans == {Stop, Start, Tampered, Foreign, Nameless}
MCUnits == {"nginx"}

=============================================================================
