---------------------------- MODULE MCLfsServer ----------------------------
(* TLC instances of LfsServer. *)
EXTENDS LfsServer

CONSTANTS A, B, n1, i1, i2, c1, c2

\* Two objects on one connection, none on the others.
TwoOnOne == [c \in Conn |-> IF c = c1 THEN 2 ELSE 0]

lfsShare(id, rights) == [id |-> id, lfs_enabled |-> TRUE, members |-> [n \in Node |-> rights]]

\* n1 may use LFS on every repository, and push.
AllShared ==
  {[p \in Path |-> lfsShare(IF p = A THEN i1 ELSE i2, {"read", "push", "lfs"})]}

\* A download and an upload, of different repositories.
TwoRequests ==
  {[version |-> LFS_VERSION, repo_id |-> i1, op |-> "Download"],
   [version |-> LFS_VERSION, repo_id |-> i2, op |-> "Upload"]}

\* LFS is switched off and on again at one repository.
LfsSwitch == {[op |-> "set_repo_lfs", path |-> A, enabled |-> on] : on \in BOOLEAN}
=============================================================================
