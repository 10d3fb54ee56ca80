---------------------------- MODULE MCGrantStore ----------------------------
(* Small instances of GrantStore.                                           *)
EXTENDS GrantStore

Signed(p) == [p EXCEPT !.digest = PlanDigest(p)]

Tci1   == [id |-> "tci1",   kind |-> "tci",   perms |-> {"operations.propose"}]
Alice  == [id |-> "alice",  kind |-> "human", perms |-> {"operations.confirm"}]
Bob    == [id |-> "bob",    kind |-> "human", perms |-> {"operations.execute.mutate"}]

MCActors == {Tci1, Alice, Bob}

(* Stop, proposed by the TCI; Own, proposed by the only approver herself; a  *)
(* copy of Stop altered under the old digest, one altered and signed anew,   *)
(* and one with no session.                                                  *)
Stop == Signed([id |-> "p1", session |-> "s1", actor |-> "tci1", action |-> "service.stop",
                unit |-> "nginx", risk |-> "high", confirmable |-> TRUE,
                created |-> 1, expires |-> 3, digest |-> ""])
Own      == Signed([Stop EXCEPT !.id = "p2", !.actor = "alice"])
Tampered == [Stop EXCEPT !.action = "service.start", !.risk = "low"]
Forged   == Signed([Stop EXCEPT !.action = "service.start", !.risk = "low", !.expires = 4])
Unbound  == Signed([Stop EXCEPT !.id = "p3", !.session = ""])

MCPlans == {Stop, Own, Tampered, Forged, Unbound}

=============================================================================
