---------------------------- MODULE MCPorcelain ----------------------------
(* TLC instances of Porcelain. *)
EXTENDS Porcelain, TLC

CONSTANTS A, B, n1, i1, i2, i3, p1, p2

ProcSymmetry == Permutations(Proc) \cup Permutations(RepoId)

NothingShared == {EmptyGrants}

grantOf(p, n, w) == [op |-> "grant", path |-> p, node |-> n, write |-> w, lfs |-> FALSE]

revokeOf(p, what) == [op |-> "revoke_at", path |-> p, node |-> n1, what |-> what]

\* Every kind of command; the last three free a repository to draw another id.
EveryKind ==
       {grantOf(A, n1, FALSE), grantOf(A, n1, TRUE), grantOf(B, n1, FALSE), revokeOf(A, "Write")}
  \cup {[op |-> "revoke_everywhere", node |-> n1, what |-> "Member"]}
  \cup {[op |-> "set_repo_lfs", path |-> A, enabled |-> TRUE]}
  \cup {[op |-> "unshare_by_id", id |-> i] : i \in RepoId}
  \cup {[op |-> "unshare", path |-> A], [op |-> "unshare_all"]}

\* Two grants of different rights to one node.
TwoGrants == {grantOf(A, n1, w) : w \in BOOLEAN}
=============================================================================
