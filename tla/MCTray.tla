------------------------------- MODULE MCTray -------------------------------
(* TLC instances of Tray. *)
EXTENDS Tray

CONSTANTS A, n1, i1

NoneShared == {EmptyGrants}
RevokeAll == {[op |-> "unshare_all"]}
=============================================================================
