---------------------------- MODULE MCLfsClient ----------------------------
(* TLC instances of LfsClient. *)
EXTENDS LfsClient

CONSTANTS o1, o2, p1, a1, a2

Everything == {Oid}
=============================================================================
