---------------------------- MODULE LfsTransfer ----------------------------
(***************************************************************************)
(* One LFS object per stream, end to end: the client's Session::download   *)
(* and Session::upload, the daemon's lfs::serve, and the staging both      *)
(* receive through (stage_from_stream, TmpGuard), on the object stores of  *)
(* one repository at either end (iroh-git/src/lfs.rs).                     *)
(*                                                                         *)
(* A file's content is named by its sha256: it is the oid it hashes to, or *)
(* Other for anything else, such as a part of an object.  Uploads put a    *)
(* request, a body and two replies on the stream, downloads a request, a   *)
(* reply and a body; a stream that is dropped before its end looks like    *)
(* one that ended early.                                                   *)
(***************************************************************************)
EXTENDS FiniteSets

CONSTANTS
  Transfer,   \* object streams
  Oid,        \* the objects
  Other,      \* content that is none of the objects
  Absent,     \* no file, or no end of the body yet
  NoOid       \* the object of a transfer that has not started

ASSUME LfsTransferAssumption ==
  /\ Other \notin Oid /\ Absent \notin Oid /\ NoOid \notin Oid /\ Other # Absent

VARIABLES
  disk,      \* the object stores: what is at object_path of each oid
  tmp,       \* the staging file of each transfer, beside its destination
  request,   \* what each transfer asks for
  client,    \* where Session::download or Session::upload is
  server,    \* where lfs::serve is
  staging,   \* where the stage_from_stream of the receiving end is
  body,      \* what the sending end has sent, once the stream has ended
  reply,     \* the reply the client has still to read
  orphaned   \* history: transfers whose staging file nothing will remove

vars == <<disk, tmp, request, client, server, staging, body, reply, orphaned>>

Content == Oid \cup {Other}
File == Content \cup {Absent}
Side == {"client", "server"}

\* `exact` says whether the size an upload declares is that of the object.
Request == [op : {"Download", "Upload"}, oid : Oid, exact : BOOLEAN]
NotStarted == [op |-> "Upload", oid |-> NoOid, exact |-> FALSE]

Finished == {"uploaded", "had", "downloaded", "failed"}

Op(t) == request[t].op
Dest(t) == IF Op(t) = "Upload" THEN "server" ELSE "client"
exists(t) == disk[Dest(t)][request[t].oid] # Absent

\* The end that receives is inside stage_from_stream and what follows it.
Receiving(t) == (IF Op(t) = "Upload" THEN server[t] ELSE client[t]) = "receiving"
Staging == {"create", "read", "verify", "rename"}

TypeOK ==
  /\ disk \in [Side -> [Oid -> File]]
  /\ tmp \in [Transfer -> File]
  /\ request \in [Transfer -> Request \cup {NotStarted}]
  /\ client \in [Transfer -> {"idle", "asking", "sending", "receiving", "confirming"} \cup Finished]
  /\ server \in [Transfer -> {"none", "sending", "receiving", "replying", "done"}]
  /\ staging \in [Transfer -> Staging \cup {"off", "late"}]
  /\ body \in [Transfer -> File]
  /\ reply \in [Transfer -> {"none", "Proceed", "Have", "Error"}]
  /\ orphaned \subseteq Transfer
  /\ \A t \in Transfer : staging[t] \in Staging <=> Receiving(t)

Init ==
  /\ disk \in [Side -> [Oid -> File]]
  /\ tmp = [t \in Transfer |-> Absent]
  /\ request = [t \in Transfer |-> NotStarted]
  /\ client = [t \in Transfer |-> "idle"]
  /\ server = [t \in Transfer |-> "none"]
  /\ staging = [t \in Transfer |-> "off"]
  /\ body = [t \in Transfer |-> Absent]
  /\ reply = [t \in Transfer |-> "none"]
  /\ orphaned = {}

ClientGoto(t, at) == client' = [client EXCEPT ![t] = at]
ServerGoto(t, at) == server' = [server EXCEPT ![t] = at]
StagingGoto(t, at) == staging' = [staging EXCEPT ![t] = at]
Reply(t, r) == reply' = [reply EXCEPT ![t] = r]

\* A dropped TmpGuard removes the staging file.
DropGuard(t) ==
  /\ tmp' = [tmp EXCEPT ![t] = Absent]
  /\ StagingGoto(t, "off")

\* The receiving end leaves, at whatever step: the guard, if there is one, goes.
StopReceiving(t) ==
  IF staging[t] \in {"off", "late"} THEN UNCHANGED <<tmp, staging>> ELSE DropGuard(t)

\* The sending end leaves: its half of the stream ends where it is.
StopSending(t) == body' = [body EXCEPT ![t] = IF @ = Absent THEN Other ELSE @]

-----------------------------------------------------------------------------
(* The client: asking, and what it makes of the replies.                   *)

Ask(t, r) ==
  /\ client[t] = "idle"
  /\ request' = [request EXCEPT ![t] = r]
  /\ ClientGoto(t, "asking")
  /\ UNCHANGED <<disk, tmp, server, staging, body, reply, orphaned>>

ToldToSend(t) ==
  /\ client[t] = "asking" /\ reply[t] = "Proceed" /\ Op(t) = "Upload"
  /\ Reply(t, "none")
  /\ ClientGoto(t, "sending")
  /\ UNCHANGED <<disk, tmp, request, server, staging, body, orphaned>>

ToldItHas(t) ==
  /\ client[t] = "asking" /\ reply[t] = "Have" /\ Op(t) = "Upload"
  /\ Reply(t, "none")
  /\ ClientGoto(t, "had")
  /\ UNCHANGED <<disk, tmp, request, server, staging, body, orphaned>>

ToldToReceive(t) ==
  /\ client[t] = "asking" /\ reply[t] = "Proceed" /\ Op(t) = "Download"
  /\ Reply(t, "none")
  /\ ClientGoto(t, "receiving")
  /\ StagingGoto(t, "create")
  /\ UNCHANGED <<disk, tmp, request, server, body, orphaned>>

\* Mutant of ClientSends: `send.finish()` is forgotten, and the client waits for the
\* reply with its half of the stream open.
ClientSendsUnfinished(t) ==
  /\ client[t] = "sending"
  /\ disk["client"][request[t].oid] # Absent
  /\ ClientGoto(t, "confirming")
  /\ UNCHANGED <<disk, tmp, request, server, staging, body, reply, orphaned>>

\* The source is opened and streamed to its end, and the stream finished.
ClientSends(t) ==
  /\ client[t] = "sending"
  /\ disk["client"][request[t].oid] # Absent
  /\ body' = [body EXCEPT ![t] = disk["client"][request[t].oid]]
  /\ ClientGoto(t, "confirming")
  /\ UNCHANGED <<disk, tmp, request, server, staging, reply, orphaned>>

Confirmed(t) ==
  /\ client[t] = "confirming" /\ reply[t] \in {"Proceed", "Have"}
  /\ Reply(t, "none")
  /\ ClientGoto(t, "uploaded")
  /\ UNCHANGED <<disk, tmp, request, server, staging, body, orphaned>>

\* Mutant of ClientFails: a connection that is lost takes back what was reported.
ClientFailsAfterwards(t) ==
  /\ client[t] # "idle"
  /\ ClientGoto(t, "failed")
  /\ Reply(t, "none")
  /\ IF Op(t) = "Upload" THEN StopSending(t) /\ UNCHANGED <<tmp, staging>>
                         ELSE StopReceiving(t) /\ UNCHANGED body
  /\ UNCHANGED <<disk, request, server, orphaned>>

\* An error of any kind: the daemon's Error, a reply that does not come, a
\* source that cannot be read, a failed file operation, a lost connection.
ClientFails(t) ==
  /\ client[t] \notin Finished \cup {"idle"}
  /\ ClientGoto(t, "failed")
  /\ Reply(t, "none")
  /\ IF Op(t) = "Upload" THEN StopSending(t) /\ UNCHANGED <<tmp, staging>>
                         ELSE StopReceiving(t) /\ UNCHANGED body
  /\ UNCHANGED <<disk, request, server, orphaned>>

\* The failures that must come: nothing else can happen to the client.
ClientMustFail(t) ==
  \/ client[t] \in {"asking", "confirming"} /\ reply[t] = "Error"
  \/ client[t] \in {"asking", "confirming"} /\ reply[t] = "none" /\ server[t] = "done"
  \/ client[t] = "sending" /\ disk["client"][request[t].oid] = Absent

-----------------------------------------------------------------------------
(* The daemon: lfs::serve.                                                 *)

ServeDownload(t) ==
  /\ client[t] # "idle" /\ server[t] = "none" /\ Op(t) = "Download"
  /\ IF disk["server"][request[t].oid] # Absent
     THEN Reply(t, "Proceed") /\ ServerGoto(t, "sending")
     ELSE Reply(t, "Error") /\ ServerGoto(t, "done")
  /\ UNCHANGED <<disk, tmp, request, client, staging, body, orphaned>>

ServerSends(t) ==
  /\ server[t] = "sending"
  /\ body' = [body EXCEPT ![t] = disk["server"][request[t].oid]]
  /\ ServerGoto(t, "done")
  /\ UNCHANGED <<disk, tmp, request, client, staging, reply, orphaned>>

UploadNotNeeded(t) ==
  /\ client[t] # "idle" /\ server[t] = "none" /\ Op(t) = "Upload"
  /\ exists(t)
  /\ Reply(t, "Have")
  /\ ServerGoto(t, "done")
  /\ UNCHANGED <<disk, tmp, request, client, staging, body, orphaned>>

ServeUpload(t) ==
  /\ client[t] # "idle" /\ server[t] = "none" /\ Op(t) = "Upload"
  /\ ~exists(t)
  /\ Reply(t, "Proceed")
  /\ ServerGoto(t, "receiving")
  /\ StagingGoto(t, "create")
  /\ UNCHANGED <<disk, tmp, request, client, body, orphaned>>

\* The object is in place: the reply is written.
ServerConfirms(t) ==
  /\ server[t] = "replying"
  /\ Reply(t, "Proceed")
  /\ ServerGoto(t, "done")
  /\ UNCHANGED <<disk, tmp, request, client, staging, body, orphaned>>

\* Mutant of ServerFails: the staging file has no guard.
ServerFailsUnguarded(t) ==
  /\ server[t] \in {"sending", "receiving", "replying"}
  /\ ServerGoto(t, "done")
  /\ IF Op(t) = "Download"
     THEN StopSending(t) /\ UNCHANGED <<tmp, staging>>
     ELSE staging' = [staging EXCEPT ![t] = "off"] /\ UNCHANGED <<tmp, body>>
  /\ UNCHANGED <<disk, request, client, reply, orphaned>>

\* Mutant of ServerFails: the staging is a task of its own, and outlives serve.
ServerFailsDetached(t) ==
  /\ server[t] \in {"sending", "receiving", "replying"}
  /\ ServerGoto(t, "done")
  /\ IF Op(t) = "Download" THEN StopSending(t) ELSE UNCHANGED body
  /\ UNCHANGED <<disk, tmp, request, client, staging, reply, orphaned>>

\* A file operation or a stream fails and serve returns the error.
ServerFails(t) ==
  /\ server[t] \in {"sending", "receiving", "replying"}
  /\ ServerGoto(t, "done")
  /\ IF Op(t) = "Download" THEN StopSending(t) /\ UNCHANGED <<tmp, staging>>
                           ELSE StopReceiving(t) /\ UNCHANGED body
  /\ UNCHANGED <<disk, request, client, reply, orphaned>>

\* LFS_TRANSFER_TIMEOUT drops the future of serve.  The file operation that it
\* was waiting for goes on by itself: a create may come after the guard has gone.
TimeoutInCreate(t) ==
  /\ server[t] = "receiving" /\ staging[t] = "create"
  /\ ServerGoto(t, "done")
  /\ StagingGoto(t, "late")
  /\ UNCHANGED <<disk, tmp, request, client, body, reply, orphaned>>

LateCreate(t) ==
  /\ staging[t] = "late"
  /\ tmp' = [tmp EXCEPT ![t] = Other]
  /\ StagingGoto(t, "off")
  /\ orphaned' = orphaned \cup {t}
  /\ UNCHANGED <<disk, request, client, server, body, reply>>

\* A rename goes on as well (that it did not happen is ServerFails).
TimeoutInRename(t) ==
  /\ server[t] = "receiving" /\ staging[t] = "rename"
  /\ ServerGoto(t, "done")
  /\ disk' = [disk EXCEPT !["server"][request[t].oid] = tmp[t]]
  /\ DropGuard(t)
  /\ UNCHANGED <<request, client, body, reply, orphaned>>

-----------------------------------------------------------------------------
(* Receiving, at either end: stage_from_stream, verification, rename.      *)

Create(t) ==
  /\ staging[t] = "create"
  /\ tmp' = [tmp EXCEPT ![t] = Other]
  /\ StagingGoto(t, "read")
  /\ UNCHANGED <<disk, request, client, server, body, reply, orphaned>>

ReadToEnd(t) ==
  /\ staging[t] = "read"
  /\ body[t] # Absent
  /\ tmp' = [tmp EXCEPT ![t] = body[t]]
  /\ StagingGoto(t, "verify")
  /\ UNCHANGED <<disk, request, client, server, body, reply, orphaned>>

\* Mutant of Verified: the end of the stream is taken for the end of the object.
VerifiedByEnd(t) == TRUE

\* The client checks the hash, the daemon the declared size as well.
Verified(t) == tmp[t] = request[t].oid /\ (Op(t) = "Upload" => request[t].exact)

DownloadVerified(t) ==
  /\ client[t] = "receiving" /\ staging[t] = "verify"
  /\ Verified(t)
  /\ StagingGoto(t, "rename")
  /\ UNCHANGED <<disk, tmp, request, client, server, body, reply, orphaned>>

DownloadForged(t) ==
  /\ client[t] = "receiving" /\ staging[t] = "verify"
  /\ ~Verified(t)
  /\ ClientGoto(t, "failed")
  /\ DropGuard(t)
  /\ UNCHANGED <<disk, request, server, body, reply, orphaned>>

UploadForged(t) ==
  /\ server[t] = "receiving" /\ staging[t] = "verify"
  /\ ~Verified(t)
  /\ Reply(t, "Error")
  /\ ServerGoto(t, "done")
  /\ DropGuard(t)
  /\ UNCHANGED <<disk, request, client, body, orphaned>>

\* Another upload of the object landed first.
UploadOvertaken(t) ==
  /\ server[t] = "receiving" /\ staging[t] = "verify"
  /\ Verified(t) /\ exists(t)
  /\ Reply(t, "Proceed")
  /\ ServerGoto(t, "done")
  /\ DropGuard(t)
  /\ UNCHANGED <<disk, request, client, body, orphaned>>

\* Mutant of UploadVerified: the reply is written before the rename.
UploadVerifiedReplying(t) ==
  /\ server[t] = "receiving" /\ staging[t] = "verify"
  /\ Verified(t) /\ ~exists(t)
  /\ Reply(t, "Proceed")
  /\ StagingGoto(t, "rename")
  /\ UNCHANGED <<disk, tmp, request, client, server, body, orphaned>>

UploadVerified(t) ==
  /\ server[t] = "receiving" /\ staging[t] = "verify"
  /\ Verified(t) /\ ~exists(t)
  /\ StagingGoto(t, "rename")
  /\ UNCHANGED <<disk, tmp, request, client, server, body, reply, orphaned>>

\* The rename, after which the guard is disarmed.
Place(t) ==
  /\ staging[t] = "rename"
  /\ disk' = [disk EXCEPT ![Dest(t)][request[t].oid] = tmp[t]]
  /\ tmp' = [tmp EXCEPT ![t] = Absent]
  /\ StagingGoto(t, "off")
  /\ IF Op(t) = "Upload" THEN ServerGoto(t, "replying") /\ UNCHANGED client
                         ELSE ClientGoto(t, "downloaded") /\ UNCHANGED server
  /\ UNCHANGED <<request, body, reply, orphaned>>

-----------------------------------------------------------------------------
(* A process dies, with every transfer it is an end of: no guard is run.   *)

Abandoned(side) == {t \in Transfer : Dest(t) = side /\ tmp[t] # Absent}
EndsAt(side) == {t \in Transfer : request[t] # NotStarted /\ Dest(t) # side}

KilledStaging(side) ==
  /\ orphaned' = orphaned \cup Abandoned(side)
  /\ staging' = [t \in Transfer |-> IF Dest(t) = side THEN "off" ELSE staging[t]]
  /\ body' = [t \in Transfer |-> IF t \in EndsAt(side) /\ body[t] = Absent THEN Other ELSE body[t]]

ClientKilled ==
  /\ client' = [t \in Transfer |-> IF client[t] \in Finished \cup {"idle"} THEN client[t] ELSE "failed"]
  /\ KilledStaging("client")
  /\ UNCHANGED <<disk, tmp, request, server, reply>>

DaemonKilled ==
  /\ server' = [t \in Transfer |-> IF client[t] = "idle" THEN "none" ELSE "done"]
  /\ KilledStaging("server")
  /\ UNCHANGED <<disk, tmp, request, client, reply>>

-----------------------------------------------------------------------------

ClientStep(t) ==
  \/ ToldToSend(t) \/ ToldItHas(t) \/ ToldToReceive(t) \/ ClientSends(t) \/ Confirmed(t)
  \/ ClientMustFail(t) /\ ClientFails(t)

ServerStep(t) ==
  ServeDownload(t) \/ ServerSends(t) \/ UploadNotNeeded(t) \/ ServeUpload(t) \/ ServerConfirms(t)

StagingStep(t) ==
  \/ Create(t) \/ ReadToEnd(t) \/ Place(t)
  \/ DownloadVerified(t) \/ DownloadForged(t)
  \/ UploadVerified(t) \/ UploadForged(t) \/ UploadOvertaken(t)

Failure(t) ==
  ClientFails(t) \/ ServerFails(t) \/ TimeoutInCreate(t) \/ LateCreate(t) \/ TimeoutInRename(t)

Next ==
  \/ \E t \in Transfer :
       \/ \E r \in Request : Ask(t, r)
       \/ ClientStep(t) \/ ServerStep(t) \/ StagingStep(t) \/ Failure(t)
  \/ ClientKilled \/ DaemonKilled

Spec == Init /\ [][Next]_vars

\* Both ends keep running: each of the steps is a file operation or a read of a
\* stream whose other end has already written or left.
Fairness ==
  \A t \in Transfer : WF_vars(ClientStep(t)) /\ WF_vars(ServerStep(t)) /\ WF_vars(StagingStep(t))

FairSpec == Spec /\ Fairness

-----------------------------------------------------------------------------
(* Properties *)

\* "The body is verified against `oid` before `dest` appears, so a partial or
\* forged transfer never lands there" (lfs.rs, download; serve does the same):
\* whatever fails at either end, and however many transfers of an object there
\* are at once, a store only ever changes by getting an object whole, and never
\* loses or damages one.
OnlyWholeObjects ==
  [][\A side \in Side, o \in Oid : disk[side][o] # disk'[side][o] => disk'[side][o] = o]_vars

\* What a client reports is so: an object it calls uploaded is whole in the
\* daemon's store, one the daemon is said to have is there, and one it calls
\* downloaded is whole in its own (UploadOutcome, download).
OutcomesTrue ==
  \A t \in Transfer :
    /\ client[t] = "uploaded" => disk["server"][request[t].oid] = request[t].oid
    /\ client[t] = "had" => disk["server"][request[t].oid] # Absent
    /\ client[t] = "downloaded" => disk["client"][request[t].oid] = request[t].oid

\* A staging file outlives its transfer in two cases only: the process was
\* killed, or the timeout met the creation of the file.
OrphansExplained ==
  \A t \in Transfer : tmp[t] # Absent => staging[t] \in {"read", "verify", "rename"} \/ t \in orphaned

\* Where an upload or download stands, as ObjectExchange has it.
JobState(t) ==
  CASE client[t] = "idle" -> "idle"
    [] client[t] \in {"uploaded", "downloaded"} -> "delivered"
    [] client[t] = "had" -> "found"
    [] client[t] = "failed" -> "failed"
    [] OTHER -> "open"

Errand(t) ==
  IF client[t] = "idle" THEN [oid |-> NoOid, to |-> "client", state |-> "idle"]
                        ELSE [oid |-> request[t].oid, to |-> Dest(t), state |-> JobState(t)]

held == [side \in Side |-> {o \in Oid : disk[side][o] # Absent}]
whole == [side \in Side |-> {o \in Oid : disk[side][o] = o}]
job == [t \in Transfer |-> Errand(t)]

\* However the streams, the staging files and the failures of many transfers
\* interleave, each of them is a job of ObjectExchange: what comes into a store is
\* an object that the other store has whole, and not what a third one or a damaged
\* source put on the stream; and an outcome, once reported, is so and stays so.
OE == INSTANCE ObjectExchange WITH
        Job <- Transfer,
        held <- held, whole <- whole, job <- job

ImplementsObjectExchange == OE!Spec

\* A client that asked gets an answer or fails, whatever fails at the daemon: the
\* two ends never both wait for the other, the daemon for the end of a body and the
\* client for a reply (lfs.rs, upload and serve).  LFS_TRANSFER_TIMEOUT, of which no
\* fairness is assumed, is not what makes it so.
EveryTransferEnds == \A t \in Transfer : client[t] = "asking" ~> client[t] \in Finished
=============================================================================
