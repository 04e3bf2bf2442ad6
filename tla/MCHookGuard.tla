---------------------------- MODULE MCHookGuard ----------------------------
(* TLC instances of HookGuard. *)
EXTENDS HookGuard

CONSTANTS g1, g2
=============================================================================
