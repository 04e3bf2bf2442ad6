--------------------------- MODULE AccessControl ---------------------------
(***************************************************************************)
(* What the daemon promises about access, without mutexes, registries or   *)
(* tasks: there is a policy in force; a session starts only if the policy  *)
(* in force authorizes it; a new policy is enforced before the next one    *)
(* comes into force, which means that every session it does not authorize  *)
(* has ended.                                                              *)
(***************************************************************************)
EXTENDS Grants

CONSTANTS Conn, NoSession, Session, Authorized(_, _)

VARIABLES
  policy,     \* the grants table in force
  enforcing,  \* the policy is in force but older sessions may still be live
  live        \* the session each connection is being served

acvars == <<policy, enforcing, live>>

NoneLive == [c \in Conn |-> NoSession]

Init == policy = EmptyGrants /\ enforcing = FALSE /\ live = NoneLive

\* A new policy comes into force.
Publish ==
  /\ ~enforcing
  /\ policy' \in GrantTable
  /\ enforcing' = TRUE
  /\ UNCHANGED live

Admit(c, s) ==
  /\ live[c] = NoSession
  /\ Authorized(policy, s)
  /\ live' = [live EXCEPT ![c] = s]
  /\ UNCHANGED <<policy, enforcing>>

\* Sessions end, those of several connections at once if they share a fate.
End(cs) ==
  /\ live' = [c \in Conn |-> IF c \in cs THEN NoSession ELSE live[c]]
  /\ UNCHANGED <<policy, enforcing>>

Compliant == \A c \in Conn : live[c] # NoSession => Authorized(policy, live[c])

Enforced ==
  /\ enforcing
  /\ Compliant
  /\ enforcing' = FALSE
  /\ UNCHANGED <<policy, live>>

\* The daemon stops, or starts with the policy it finds.
Restart ==
  /\ live' = NoneLive
  /\ policy' \in GrantTable
  /\ enforcing' = FALSE

Next ==
  \/ Publish \/ Enforced \/ Restart
  \/ \E cs \in SUBSET Conn : End(cs)
  \/ \E c \in Conn, s \in Session : Admit(c, s)

Spec == Init /\ [][Next]_acvars
=============================================================================
