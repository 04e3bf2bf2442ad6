---------------------------- MODULE MCPackServer ----------------------------
(* TLC instances of PackServer. *)
EXTENDS PackServer

CONSTANTS A, B, n1, i1, i2, c1, c2

member(rights) == [id |-> i1, lfs_enabled |-> FALSE, members |-> [n \in Node |-> rights]]

\* One repository is shared, n1 may push to it.
OneShare == {[EmptyGrants EXCEPT ![A] = member({"read", "push"})]}

grantOf(p, w) == [op |-> "grant", path |-> p, node |-> n1, write |-> w, lfs |-> FALSE]
revokeOf(p, what) == [op |-> "revoke_at", path |-> p, node |-> n1, what |-> what]

\* Push access is withdrawn and granted; A is unshared, and either repository
\* shared: an id is given up and the other drawn.
Changes ==
  {grantOf(A, TRUE), grantOf(B, FALSE), revokeOf(A, "Write")}
    \cup {[op |-> "unshare", path |-> A]}

request(version, id, service) == [version |-> version, repo_id |-> id, service |-> service]

\* A push with the ticket there is at first, a fetch with the ticket of a later
\* share, and a version the daemon does not speak.
PushAndFetch ==
  {request(VERSION, i1, "ReceivePack"), request(VERSION, i2, "UploadPack"),
   request(VERSION + 1, i1, "UploadPack")}

\* The member is removed and granted again.
MemberChange == {grantOf(A, TRUE), revokeOf(A, "Member")}
=============================================================================
