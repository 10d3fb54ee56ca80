--------------------------- MODULE SingleUseGrant ---------------------------
(***************************************************************************)
(* What the confirmation store promises its callers, with no memory, file, *)
(* lock or clock in it: a token is issued for one plan, a plan gets at     *)
(* most one token, a token is spent at most once and for good, and at most *)
(* one caller is ever told that it may go ahead.                           *)
(***************************************************************************)
EXTENDS Naturals

CONSTANTS Tokens,    \* confirmation tokens
          PlanKeys,  \* what a token is issued for: a plan and its digest
          None       \* no plan

VARIABLES owner,     \* owner[t]: the plan token t was issued for, or None
          spent,     \* the tokens that have been consumed durably
          accepted   \* accepted[t]: how many callers were told "go ahead"

absVars == <<owner, spent, accepted>>

AbsInit == /\ owner = [t \in Tokens |-> None]
           /\ spent = {}
           /\ accepted = [t \in Tokens |-> 0]

AbsIssue(t, k) ==
  /\ owner[t] = None
  /\ \A u \in Tokens : owner[u] # k
  /\ owner' = [owner EXCEPT ![t] = k]
  /\ UNCHANGED <<spent, accepted>>

AbsSpend(t) ==
  /\ owner[t] # None
  /\ t \notin spent
  /\ spent' = spent \cup {t}
  /\ UNCHANGED <<owner, accepted>>

AbsAccept(t) ==
  /\ t \in spent
  /\ accepted[t] = 0
  /\ accepted' = [accepted EXCEPT ![t] = 1]
  /\ UNCHANGED <<owner, spent>>

AbsNext == \E t \in Tokens : \/ \E k \in PlanKeys : AbsIssue(t, k)
                             \/ AbsSpend(t)
                             \/ AbsAccept(t)

AbsSpec == AbsInit /\ [][AbsNext]_absVars

=============================================================================
