--------------------------- MODULE MCActorAccess ---------------------------
(* A small instance of ActorAccess.                                          *)
EXTENDS ActorAccess

CONSTANTS t1, t2, t3

Entry(id, kind, roles, t) == [id |-> id, kind |-> kind, roles |-> roles, token |-> t]

Alice == Entry("human:alice", "human", {"approver"}, t1)
Bot   == Entry("service:bot", "service", {"mutator"}, t2)
Tci   == Entry("tci:one", "tci", {"tci-proposer", "reader"}, t3)

MCActorFiles ==
  { <<Alice, Bot, Tci>>,
    \* the holder of t1 is renamed and may mutate as well
    <<Entry("human:carol", "human", {"approver", "mutator"}, t1), Tci>>,
    \* the TCI's token becomes a human approver's
    <<Bot, Entry("human:dora", "human", {"approver"}, t3)>>,
    \* one token for two actors, one of them without use
    <<Tci, Entry("service:bot", "service", {"mutator"}, t3), Alice>>,
    \* refused: a TCI that reads the audit trail, one id twice, a placeholder
    <<Alice, Entry("tci:one", "tci", {"auditor"}, t3)>>,
    <<Alice, Entry("human:alice", "human", {"operator"}, t2)>>,
    <<Alice, Entry("service:bot", "service", {"mutator"}, Placeholder)>>,
    Garbled }

Environment(listen, api, actors) ==
  [listen |-> listen, api |-> api, actors |-> actors, broker |-> "b", sound |-> TRUE]

MCEnvironments ==
  { Environment("loopback", None, FALSE), Environment("remote", None, FALSE),
    Environment("remote", None, TRUE), Environment("remote", t2, TRUE),
    Environment("loopback", Short, TRUE),
    [Environment("remote", None, TRUE) EXCEPT !.broker = "new"] }

MCRequests ==
  { [action |-> "system.snapshot", unit |-> None], [action |-> "service.status", unit |-> Malformed],
    [action |-> "service.restart", unit |-> "web"], [action |-> "service.stop", unit |-> "sshd"] }

=============================================================================
