---------------------------- MODULE MCPackRelay ----------------------------
(* TLC instances of PackRelay. *)
EXTENDS PackRelay

kind(service, waits) == [service |-> service, waits |-> waits]

\* Fetches in both protocols, and a push.
Sessions == {kind("UploadPack", FALSE), kind("UploadPack", TRUE), kind("ReceivePack", FALSE)}

Pushes == {kind("ReceivePack", FALSE)}
=============================================================================
