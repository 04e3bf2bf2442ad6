--------------------------- MODULE MCLfsTransfer ---------------------------
(* TLC instances of LfsTransfer. *)
EXTENDS LfsTransfer

CONSTANTS o1, t1, t2
=============================================================================
