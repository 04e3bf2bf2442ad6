------------------------- MODULE LfsTransfer_proofs -------------------------
(***************************************************************************)
(* Proofs about LfsTransfer, for any number of transfers and objects: what *)
(* the stores hold, what clients report, and which staging files remain.   *)
(***************************************************************************)
EXTENDS LfsTransfer, TLAPS

-----------------------------------------------------------------------------
(* The inductive invariant, transfer by transfer.                          *)

\* A transfer has a request once its client has asked.
Started(t) ==
  IF client[t] = "idle" THEN request[t] = NotStarted /\ server[t] = "none" /\ body[t] = Absent
                        ELSE request[t] \in Request

\* Who receives and who sends is a matter of the request.
Roles(t) ==
  /\ client[t] = "receiving" => Op(t) = "Download"
  /\ client[t] \in {"sending", "confirming"} => Op(t) = "Upload"
  /\ server[t] \in {"receiving", "replying"} => Op(t) = "Upload"
  /\ server[t] = "sending" => Op(t) = "Download"
  /\ staging[t] \in Staging <=> Receiving(t)

\* An upload's body ends after the client was told to send, a download's once the
\* daemon has sent it, and it is verified and answered only after it has ended.
BodyInTime(t) ==
  /\ client[t] \in {"asking", "sending"} /\ Op(t) = "Upload" => body[t] = Absent
  /\ server[t] \in {"none", "sending"} /\ Op(t) = "Download" => body[t] = Absent
  /\ staging[t] \in {"verify", "rename"} \/ server[t] = "replying" => body[t] # Absent

\* Which replies can be under way, and what they say of the daemon's store.
Replies(t) ==
  /\ reply[t] # "none" => server[t] # "none"
  /\ client[t] \in {"sending", "confirming"} => server[t] # "none" /\ reply[t] # "Have"
  /\ client[t] = "sending" => reply[t] = "none"
  /\ reply[t] = "Have" => disk["server"][request[t].oid] # Absent
  /\ client[t] = "confirming" /\ reply[t] = "Proceed" =>
       disk["server"][request[t].oid] = request[t].oid

\* What is renamed was verified; while an upload is received its object is
\* absent or another upload has placed it; it is there before the reply, and
\* an object that is sent is there.
Placed(t) ==
  /\ staging[t] = "rename" => tmp[t] = request[t].oid
  /\ server[t] = "receiving" => disk["server"][request[t].oid] \in {Absent, request[t].oid}
  /\ server[t] = "replying" => disk["server"][request[t].oid] = request[t].oid
  /\ server[t] = "sending" => disk["server"][request[t].oid] # Absent

\* What is staged is what was sent, and who sent an object has it whole: the
\* sending store, which nothing damages, had it when it was read.
Source(t) == IF Op(t) = "Upload" THEN "client" ELSE "server"

Sourced(t) ==
  /\ staging[t] \in {"verify", "rename"} => tmp[t] = body[t]
  /\ client[t] # "idle" /\ body[t] = request[t].oid =>
       disk[Source(t)][request[t].oid] = request[t].oid

OutcomeTrue(t) ==
  /\ client[t] = "uploaded" => disk["server"][request[t].oid] = request[t].oid
  /\ client[t] = "had" => disk["server"][request[t].oid] # Absent
  /\ client[t] = "downloaded" => disk["client"][request[t].oid] = request[t].oid

OrphanExplained(t) ==
  tmp[t] # Absent => staging[t] \in {"read", "verify", "rename"} \/ t \in orphaned

TransferInv(t) ==
  /\ Started(t) /\ Roles(t) /\ BodyInTime(t) /\ Replies(t) /\ Placed(t)
  /\ Sourced(t) /\ OutcomeTrue(t) /\ OrphanExplained(t)

\* TypeOK without the part that relates staging to the rest, which is in Roles.
Types ==
  /\ disk \in [Side -> [Oid -> File]]
  /\ tmp \in [Transfer -> File]
  /\ request \in [Transfer -> Request \cup {NotStarted}]
  /\ client \in [Transfer -> {"idle", "asking", "sending", "receiving", "confirming"} \cup Finished]
  /\ server \in [Transfer -> {"none", "sending", "receiving", "replying", "done"}]
  /\ staging \in [Transfer -> Staging \cup {"off", "late"}]
  /\ body \in [Transfer -> File]
  /\ reply \in [Transfer -> {"none", "Proceed", "Have", "Error"}]
  /\ orphaned \subseteq Transfer

IInv == Types /\ \A t \in Transfer : TransferInv(t)

\* The invariant gives the properties of the run.
LEMMA InvImplies == IInv => TypeOK /\ OutcomesTrue /\ OrphansExplained
BY DEF IInv, Types, TypeOK, TransferInv, Roles, OutcomeTrue, OutcomesTrue,
       OrphanExplained, OrphansExplained

\* It holds before the first request.
LEMMA InitInv == Init => IInv
BY LfsTransferAssumption
   DEF Init, IInv, Types, TransferInv, Started, Roles, BodyInTime, Replies, Placed,
       Sourced, Source, OutcomeTrue, OrphanExplained, Op, Receiving, Request, NotStarted, File, Content, Side,
       Staging, Finished

-----------------------------------------------------------------------------
(* A step of one transfer leaves the others alone, but for the stores.     *)

\* A store only changes by getting an object whole.
DiskGrows == \A side \in Side, o \in Oid : disk'[side][o] # disk[side][o] => disk'[side][o] = o

Same(u) ==
  /\ tmp'[u] = tmp[u] /\ request'[u] = request[u] /\ client'[u] = client[u]
  /\ server'[u] = server[u] /\ staging'[u] = staging[u] /\ body'[u] = body[u]
  /\ reply'[u] = reply[u] /\ (u \in orphaned' <=> u \in orphaned)

\* The other transfers keep their invariant when a store grows.
LEMMA OthersKeepInv ==
  ASSUME Types, NEW u \in Transfer, TransferInv(u), Same(u), DiskGrows
  PROVE  TransferInv(u)'
<1>1. CASE request[u] = NotStarted
  <2>1. client[u] = "idle"
    BY <1>1, LfsTransferAssumption DEF TransferInv, Started, NotStarted, Request
  <2>2. /\ Started(u)' /\ Roles(u)' /\ BodyInTime(u)' /\ OrphanExplained(u)'
    BY DEF Same, TransferInv, Started, Roles, BodyInTime, OrphanExplained, Op, Receiving
  <2>3. /\ server[u] = "none" /\ reply[u] = "none" /\ staging[u] # "rename"
    BY <2>1 DEF TransferInv, Started, Replies, Roles, Receiving, Staging
  <2>4. Replies(u)' /\ Placed(u)' /\ Sourced(u)' /\ OutcomeTrue(u)'
    BY <2>1, <2>3 DEF Same, TransferInv, Replies, Placed, Sourced, OutcomeTrue
  <2> QED BY <2>2, <2>4 DEF TransferInv
<1>2. CASE request[u] \in Request
  <2>1. /\ request[u].oid \in Oid /\ request[u].oid # Absent
        /\ "server" \in Side /\ "client" \in Side
    BY <1>2, LfsTransferAssumption DEF Request, Side
  <2> DEFINE o == request[u].oid
  <2>2. /\ disk'["server"][o] # disk["server"][o] => disk'["server"][o] = o
        /\ disk'["client"][o] # disk["client"][o] => disk'["client"][o] = o
    BY <2>1 DEF DiskGrows
  <2>3. Started(u)' /\ Roles(u)' /\ BodyInTime(u)' /\ OrphanExplained(u)'
    BY DEF Same, TransferInv, Started, Roles, BodyInTime, OrphanExplained, Op, Receiving
  <2>4. Replies(u)' /\ Placed(u)' /\ Sourced(u)' /\ OutcomeTrue(u)'
    BY <2>1, <2>2 DEF Same, TransferInv, Replies, Placed, Sourced, Source, Op, OutcomeTrue
  <2> QED BY <2>3, <2>4 DEF TransferInv
<1> QED BY <1>1, <1>2 DEF Types

-----------------------------------------------------------------------------
(* The steps of one transfer.                                              *)

\* What a step of t must do: keep the types, leave the stores with whole
\* objects, leave the others alone, and keep t's own invariant.
Kept(t) ==
  /\ Types' /\ DiskGrows
  /\ \A u \in Transfer \ {t} : Same(u)
  /\ TransferInv(t)'

\* A step of t in which its client asks, or hears the first reply.
LEMMA AskingKept ==
  ASSUME IInv, NEW t \in Transfer,
         \/ \E r \in Request : Ask(t, r)
         \/ ToldToSend(t)
         \/ ToldItHas(t)
         \/ ToldToReceive(t)
  PROVE  Kept(t)
<1> USE LfsTransferAssumption
    DEF Types, TransferInv, Started, Roles, BodyInTime, Replies, Placed, Sourced, Source,
        OutcomeTrue, OrphanExplained, Op, Receiving, Request, NotStarted, Staging, Finished, File, Content,
        Side, ClientGoto, ServerGoto, StagingGoto, Reply
<1>0. Types /\ TransferInv(t)
  BY DEF IInv
<1>1. CASE \E r \in Request : Ask(t, r)
  <2>1. Types'
    BY <1>0, <1>1 DEF Ask
  <2>2. DiskGrows /\ \A u \in Transfer \ {t} : Same(u)
    BY <1>0, <1>1 DEF Ask, DiskGrows, Same
  <2>3. TransferInv(t)'
    BY <1>0, <1>1 DEF Ask
  <2> QED BY <2>1, <2>2, <2>3 DEF Kept
<1>2. CASE ToldToSend(t)
  <2>1. Types'
    BY <1>0, <1>2 DEF ToldToSend
  <2>2. DiskGrows /\ \A u \in Transfer \ {t} : Same(u)
    BY <1>0, <1>2 DEF ToldToSend, DiskGrows, Same
  <2>3. TransferInv(t)'
    BY <1>0, <1>2 DEF ToldToSend
  <2> QED BY <2>1, <2>2, <2>3 DEF Kept
<1>3. CASE ToldItHas(t)
  <2>1. Types'
    BY <1>0, <1>3 DEF ToldItHas
  <2>2. DiskGrows /\ \A u \in Transfer \ {t} : Same(u)
    BY <1>0, <1>3 DEF ToldItHas, DiskGrows, Same
  <2>3. TransferInv(t)'
    BY <1>0, <1>3 DEF ToldItHas
  <2> QED BY <2>1, <2>2, <2>3 DEF Kept
<1>4. CASE ToldToReceive(t)
  <2>1. Types'
    BY <1>0, <1>4 DEF ToldToReceive
  <2>2. DiskGrows /\ \A u \in Transfer \ {t} : Same(u)
    BY <1>0, <1>4 DEF ToldToReceive, DiskGrows, Same
  <2>3. TransferInv(t)'
    BY <1>0, <1>4 DEF ToldToReceive
  <2> QED BY <2>1, <2>2, <2>3 DEF Kept
<1> QED BY <1>1, <1>2, <1>3, <1>4

\* A step of t in which its client sends, is answered or fails.
LEMMA ClientKept ==
  ASSUME IInv, NEW t \in Transfer,
         \/ ClientSends(t)
         \/ Confirmed(t)
         \/ ClientFails(t)
  PROVE  Kept(t)
<1> USE LfsTransferAssumption
    DEF Types, TransferInv, Started, Roles, BodyInTime, Replies, Placed, Sourced, Source,
        OutcomeTrue, OrphanExplained, Op, Receiving, Request, NotStarted, Staging, Finished, File, Content,
        Side, ClientGoto, ServerGoto, StagingGoto, Reply
<1>0. Types /\ TransferInv(t)
  BY DEF IInv
<1>1. CASE ClientSends(t)
  <2>1. Types'
    BY <1>0, <1>1 DEF ClientSends
  <2>2. DiskGrows /\ \A u \in Transfer \ {t} : Same(u)
    BY <1>0, <1>1 DEF ClientSends, DiskGrows, Same
  <2>3. TransferInv(t)'
    BY <1>0, <1>1 DEF ClientSends
  <2> QED BY <2>1, <2>2, <2>3 DEF Kept
<1>2. CASE Confirmed(t)
  <2>1. Types'
    BY <1>0, <1>2 DEF Confirmed
  <2>2. DiskGrows /\ \A u \in Transfer \ {t} : Same(u)
    BY <1>0, <1>2 DEF Confirmed, DiskGrows, Same
  <2>3. TransferInv(t)'
    BY <1>0, <1>2 DEF Confirmed
  <2> QED BY <2>1, <2>2, <2>3 DEF Kept
<1>3. CASE ClientFails(t)
  <2>1. Types'
    BY <1>0, <1>3 DEF ClientFails, StopSending, StopReceiving, DropGuard
  <2>2. DiskGrows /\ \A u \in Transfer \ {t} : Same(u)
    BY <1>0, <1>3 DEF ClientFails, StopSending, StopReceiving, DropGuard, DiskGrows, Same
  <2>3. TransferInv(t)'
    BY <1>0, <1>3 DEF ClientFails, StopSending, StopReceiving, DropGuard
  <2> QED BY <2>1, <2>2, <2>3 DEF Kept
<1> QED BY <1>1, <1>2, <1>3

\* A step of t in which the daemon answers its request or sends.
LEMMA ServerKept ==
  ASSUME IInv, NEW t \in Transfer,
         \/ ServeDownload(t)
         \/ ServerSends(t)
         \/ UploadNotNeeded(t)
         \/ ServeUpload(t)
         \/ ServerConfirms(t)
  PROVE  Kept(t)
<1> USE LfsTransferAssumption
    DEF Types, TransferInv, Started, Roles, BodyInTime, Replies, Placed, Sourced, Source,
        OutcomeTrue, OrphanExplained, Op, Receiving, Request, NotStarted, Staging, Finished, File, Content,
        Side, ClientGoto, ServerGoto, StagingGoto, Reply
<1>0. Types /\ TransferInv(t)
  BY DEF IInv
<1>1. CASE ServeDownload(t)
  <2>1. Types'
    BY <1>0, <1>1 DEF ServeDownload
  <2>2. DiskGrows /\ \A u \in Transfer \ {t} : Same(u)
    BY <1>0, <1>1 DEF ServeDownload, DiskGrows, Same
  <2>3. TransferInv(t)'
    BY <1>0, <1>1 DEF ServeDownload
  <2> QED BY <2>1, <2>2, <2>3 DEF Kept
<1>2. CASE ServerSends(t)
  <2>1. Types'
    BY <1>0, <1>2 DEF ServerSends
  <2>2. DiskGrows /\ \A u \in Transfer \ {t} : Same(u)
    BY <1>0, <1>2 DEF ServerSends, DiskGrows, Same
  <2>3. TransferInv(t)'
    BY <1>0, <1>2 DEF ServerSends
  <2> QED BY <2>1, <2>2, <2>3 DEF Kept
<1>3. CASE UploadNotNeeded(t)
  <2>1. Types'
    BY <1>0, <1>3 DEF UploadNotNeeded, exists, Dest
  <2>2. DiskGrows /\ \A u \in Transfer \ {t} : Same(u)
    BY <1>0, <1>3 DEF UploadNotNeeded, exists, Dest, DiskGrows, Same
  <2>3. TransferInv(t)'
    BY <1>0, <1>3 DEF UploadNotNeeded, exists, Dest
  <2> QED BY <2>1, <2>2, <2>3 DEF Kept
<1>4. CASE ServeUpload(t)
  <2>1. Types'
    BY <1>0, <1>4 DEF ServeUpload, exists, Dest
  <2>2. DiskGrows /\ \A u \in Transfer \ {t} : Same(u)
    BY <1>0, <1>4 DEF ServeUpload, exists, Dest, DiskGrows, Same
  <2>3. TransferInv(t)'
    BY <1>0, <1>4 DEF ServeUpload, exists, Dest
  <2> QED BY <2>1, <2>2, <2>3 DEF Kept
<1>5. CASE ServerConfirms(t)
  <2>1. Types'
    BY <1>0, <1>5 DEF ServerConfirms
  <2>2. DiskGrows /\ \A u \in Transfer \ {t} : Same(u)
    BY <1>0, <1>5 DEF ServerConfirms, DiskGrows, Same
  <2>3. TransferInv(t)'
    BY <1>0, <1>5 DEF ServerConfirms
  <2> QED BY <2>1, <2>2, <2>3 DEF Kept
<1> QED BY <1>1, <1>2, <1>3, <1>4, <1>5

\* A step of t in which the daemon fails or times out.
LEMMA ServerFailureKept ==
  ASSUME IInv, NEW t \in Transfer,
         \/ ServerFails(t)
         \/ TimeoutInCreate(t)
         \/ LateCreate(t)
         \/ TimeoutInRename(t)
  PROVE  Kept(t)
<1> USE LfsTransferAssumption
    DEF Types, TransferInv, Started, Roles, BodyInTime, Replies, Placed, Sourced, Source,
        OutcomeTrue, OrphanExplained, Op, Receiving, Request, NotStarted, Staging, Finished, File, Content,
        Side, ClientGoto, ServerGoto, StagingGoto, Reply
<1>0. Types /\ TransferInv(t)
  BY DEF IInv
<1>1. CASE ServerFails(t)
  <2>1. Types'
    BY <1>0, <1>1 DEF ServerFails, StopSending, StopReceiving, DropGuard
  <2>2. DiskGrows /\ \A u \in Transfer \ {t} : Same(u)
    BY <1>0, <1>1 DEF ServerFails, StopSending, StopReceiving, DropGuard, DiskGrows, Same
  <2>3. TransferInv(t)'
    BY <1>0, <1>1 DEF ServerFails, StopSending, StopReceiving, DropGuard
  <2> QED BY <2>1, <2>2, <2>3 DEF Kept
<1>2. CASE TimeoutInCreate(t)
  <2>1. Types'
    BY <1>0, <1>2 DEF TimeoutInCreate
  <2>2. DiskGrows /\ \A u \in Transfer \ {t} : Same(u)
    BY <1>0, <1>2 DEF TimeoutInCreate, DiskGrows, Same
  <2>3. TransferInv(t)'
    BY <1>0, <1>2 DEF TimeoutInCreate
  <2> QED BY <2>1, <2>2, <2>3 DEF Kept
<1>3. CASE LateCreate(t)
  <2>1. Types'
    BY <1>0, <1>3 DEF LateCreate
  <2>2. DiskGrows /\ \A u \in Transfer \ {t} : Same(u)
    BY <1>0, <1>3 DEF LateCreate, DiskGrows, Same
  <2>3. TransferInv(t)'
    BY <1>0, <1>3 DEF LateCreate
  <2> QED BY <2>1, <2>2, <2>3 DEF Kept
<1>4. CASE TimeoutInRename(t)
  <2>1. Types'
    BY <1>0, <1>4 DEF TimeoutInRename, DropGuard, Dest
  <2>2. DiskGrows /\ \A u \in Transfer \ {t} : Same(u)
    BY <1>0, <1>4 DEF TimeoutInRename, DropGuard, Dest, DiskGrows, Same
  <2>3. TransferInv(t)'
    BY <1>0, <1>4 DEF TimeoutInRename, DropGuard, Dest
  <2> QED BY <2>1, <2>2, <2>3 DEF Kept
<1> QED BY <1>1, <1>2, <1>3, <1>4

\* A step of t in which its receiving end stages, verifies and places.
LEMMA StagingKept ==
  ASSUME IInv, NEW t \in Transfer,
         \/ Create(t)
         \/ ReadToEnd(t)
         \/ DownloadVerified(t)
         \/ DownloadForged(t)
         \/ UploadForged(t)
         \/ UploadOvertaken(t)
         \/ UploadVerified(t)
         \/ Place(t)
  PROVE  Kept(t)
<1> USE LfsTransferAssumption
    DEF Types, TransferInv, Started, Roles, BodyInTime, Replies, Placed, Sourced, Source,
        OutcomeTrue, OrphanExplained, Op, Receiving, Request, NotStarted, Staging, Finished, File, Content,
        Side, ClientGoto, ServerGoto, StagingGoto, Reply
<1>0. Types /\ TransferInv(t)
  BY DEF IInv
<1>1. CASE Create(t)
  <2>1. Types'
    BY <1>0, <1>1 DEF Create
  <2>2. DiskGrows /\ \A u \in Transfer \ {t} : Same(u)
    BY <1>0, <1>1 DEF Create, DiskGrows, Same
  <2>3. TransferInv(t)'
    BY <1>0, <1>1 DEF Create
  <2> QED BY <2>1, <2>2, <2>3 DEF Kept
<1>2. CASE ReadToEnd(t)
  <2>1. Types'
    BY <1>0, <1>2 DEF ReadToEnd
  <2>2. DiskGrows /\ \A u \in Transfer \ {t} : Same(u)
    BY <1>0, <1>2 DEF ReadToEnd, DiskGrows, Same
  <2>3. TransferInv(t)'
    BY <1>0, <1>2 DEF ReadToEnd
  <2> QED BY <2>1, <2>2, <2>3 DEF Kept
<1>3. CASE DownloadVerified(t)
  <2>1. Types'
    BY <1>0, <1>3 DEF DownloadVerified, Verified
  <2>2. DiskGrows /\ \A u \in Transfer \ {t} : Same(u)
    BY <1>0, <1>3 DEF DownloadVerified, Verified, DiskGrows, Same
  <2>3. TransferInv(t)'
    BY <1>0, <1>3 DEF DownloadVerified, Verified
  <2> QED BY <2>1, <2>2, <2>3 DEF Kept
<1>4. CASE DownloadForged(t)
  <2>1. Types'
    BY <1>0, <1>4 DEF DownloadForged, DropGuard, Verified
  <2>2. DiskGrows /\ \A u \in Transfer \ {t} : Same(u)
    BY <1>0, <1>4 DEF DownloadForged, DropGuard, Verified, DiskGrows, Same
  <2>3. TransferInv(t)'
    BY <1>0, <1>4 DEF DownloadForged, DropGuard, Verified
  <2> QED BY <2>1, <2>2, <2>3 DEF Kept
<1>5. CASE UploadForged(t)
  <2>1. Types'
    BY <1>0, <1>5 DEF UploadForged, DropGuard, Verified
  <2>2. DiskGrows /\ \A u \in Transfer \ {t} : Same(u)
    BY <1>0, <1>5 DEF UploadForged, DropGuard, Verified, DiskGrows, Same
  <2>3. TransferInv(t)'
    BY <1>0, <1>5 DEF UploadForged, DropGuard, Verified
  <2> QED BY <2>1, <2>2, <2>3 DEF Kept
<1>6. CASE UploadOvertaken(t)
  <2>1. Types'
    BY <1>0, <1>6 DEF UploadOvertaken, DropGuard, Verified, exists, Dest
  <2>2. DiskGrows /\ \A u \in Transfer \ {t} : Same(u)
    BY <1>0, <1>6 DEF UploadOvertaken, DropGuard, Verified, exists, Dest, DiskGrows, Same
  <2>3. TransferInv(t)'
    BY <1>0, <1>6 DEF UploadOvertaken, DropGuard, Verified, exists, Dest
  <2> QED BY <2>1, <2>2, <2>3 DEF Kept
<1>7. CASE UploadVerified(t)
  <2>1. Types'
    BY <1>0, <1>7 DEF UploadVerified, Verified, exists, Dest
  <2>2. DiskGrows /\ \A u \in Transfer \ {t} : Same(u)
    BY <1>0, <1>7 DEF UploadVerified, Verified, exists, Dest, DiskGrows, Same
  <2>3. TransferInv(t)'
    BY <1>0, <1>7 DEF UploadVerified, Verified, exists, Dest
  <2> QED BY <2>1, <2>2, <2>3 DEF Kept
<1>8. CASE Place(t)
  <2>1. Types'
    BY <1>0, <1>8 DEF Place, Dest
  <2>2. DiskGrows /\ \A u \in Transfer \ {t} : Same(u)
    BY <1>0, <1>8 DEF Place, Dest, DiskGrows, Same
  <2>3. TransferInv(t)'
    BY <1>0, <1>8 DEF Place, Dest
  <2> QED BY <2>1, <2>2, <2>3 DEF Kept
<1> QED BY <1>1, <1>2, <1>3, <1>4, <1>5, <1>6, <1>7, <1>8

-----------------------------------------------------------------------------
(* A process dies.                                                         *)

\* The death of a client keeps the invariant of every transfer.
LEMMA ClientKilledKeepsInv ==
  ASSUME IInv, ClientKilled
  PROVE  Types' /\ DiskGrows /\ \A t \in Transfer : TransferInv(t)'
<1> USE LfsTransferAssumption
    DEF Types, TransferInv, Started, Roles, BodyInTime, Replies, Placed, Sourced, Source,
        OutcomeTrue, OrphanExplained, Op, Receiving, Request, NotStarted, Staging, Finished, File, Content,
        Side, ClientKilled, KilledStaging, Abandoned, EndsAt, Dest
<1>1. Types' /\ DiskGrows
  BY DEF IInv, DiskGrows
<1>2. ASSUME NEW t \in Transfer PROVE TransferInv(t)'
  <2>1. Types /\ TransferInv(t)
    BY DEF IInv
  <2> QED BY <2>1
<1> QED BY <1>1, <1>2

\* So does the death of the daemon.
LEMMA DaemonKilledKeepsInv ==
  ASSUME IInv, DaemonKilled
  PROVE  Types' /\ DiskGrows /\ \A t \in Transfer : TransferInv(t)'
<1> USE LfsTransferAssumption
    DEF Types, TransferInv, Started, Roles, BodyInTime, Replies, Placed, Sourced, Source,
        OutcomeTrue, OrphanExplained, Op, Receiving, Request, NotStarted, Staging, Finished, File, Content,
        Side, DaemonKilled, KilledStaging, Abandoned, EndsAt, Dest
<1>1. Types' /\ DiskGrows
  BY DEF IInv, DiskGrows
<1>2. ASSUME NEW t \in Transfer PROVE TransferInv(t)'
  <2>1. Types /\ TransferInv(t)
    BY DEF IInv
  <2> QED BY <2>1
<1> QED BY <1>1, <1>2

-----------------------------------------------------------------------------
(* LfsTransfer implements ObjectExchange: what a step does to the stores   *)
(* and to the jobs, as the abstract specification sees them.               *)

\* The transfers begin as jobs that nobody has taken on.
LEMMA InitImplements == Init => OE!Init
<1> SUFFICES ASSUME Init PROVE OE!Init
  OBVIOUS
<1>1. \A side \in Side : whole[side] \subseteq held[side]
  BY LfsTransferAssumption DEF whole, held
<1>2. job = [t \in Transfer |-> OE!NoJob]
  BY DEF Init, job, Errand, OE!NoJob
<1> QED BY <1>1, <1>2 DEF OE!Init, OE!Side, Side, held, whole

\* The stores look the same when no file changes.
LEMMA StoresRest ==
  ASSUME disk' = disk
  PROVE  UNCHANGED <<held, whole>>
BY DEF held, whole

\* A file that is placed is an object brought from the end that has it whole.
LEMMA StoreReceives ==
  ASSUME Types, NEW t \in Transfer, request[t] \in Request, client[t] # "idle", Sourced(t),
         staging[t] = "rename", tmp[t] = request[t].oid,
         disk' = [disk EXCEPT ![Dest(t)][request[t].oid] = tmp[t]]
  PROVE  OE!Bringing /\ request[t].oid \in whole'[Dest(t)]
<1> DEFINE o == request[t].oid
           to == Dest(t)
<1>1. /\ o \in Oid /\ o # Absent /\ to \in Side /\ OE!Side = Side
      /\ OE!Peer(to) = Source(t) /\ Source(t) \in Side
  BY LfsTransferAssumption DEF Request, Dest, Side, OE!Side, OE!Peer, Source
<1>2. disk[Source(t)][o] = o
  BY DEF Sourced
<1>3. \A side \in Side, x \in Oid :
        disk'[side][x] = IF side = to /\ x = o THEN o ELSE disk[side][x]
  BY <1>1 DEF Types
<1> HIDE DEF o, to
<1>4. \A side \in Side : held'[side] = IF side = to THEN held[side] \cup {o} ELSE held[side]
  BY <1>1, <1>3 DEF held
<1>5. \A side \in Side : whole'[side] = IF side = to THEN whole[side] \cup {o} ELSE whole[side]
  BY <1>1, <1>3 DEF whole
<1>6. held' = [held EXCEPT ![to] = @ \cup {o}]
  BY <1>1, <1>4 DEF held
<1>7. whole' = [whole EXCEPT ![to] = @ \cup {o}]
  BY <1>1, <1>5 DEF whole
<1>8. o \in whole[OE!Peer(to)]
  BY <1>1, <1>2 DEF whole
<1>9. OE!Bring(o, to)
  BY <1>6, <1>7, <1>8 DEF OE!Bring
<1>10. OE!Bringing
  BY <1>1, <1>9 DEF OE!Bringing
<1> QED BY <1>1, <1>5, <1>10 DEF o, to

\* The jobs stay when the client does not go on to an outcome.
LEMMA JobsRest ==
  ASSUME request' = request,
         \A t \in Transfer : JobState(t)' = JobState(t) /\ (client'[t] = "idle" <=> client[t] = "idle")
  PROVE  UNCHANGED job
<1>1. \A t \in Transfer : Errand(t)' = Errand(t)
  BY DEF Errand, Dest, Op
<1> QED BY <1>1 DEF job

\* Clients that go on to an outcome.
LEMMA JobsBecome ==
  ASSUME Types, request' = request, NEW ts \in SUBSET Transfer, NEW at,
         NEW state \in {"delivered", "found", "failed"},
         \A t \in ts : client[t] \notin Finished \cup {"idle"},
         client' = [t \in Transfer |-> IF t \in ts THEN at ELSE client[t]],
         \/ at \in {"uploaded", "downloaded"} /\ state = "delivered"
         \/ at = "had" /\ state = "found"
         \/ at = "failed" /\ state = "failed"
  PROVE  OE!Become(ts, state) /\ \A t \in ts : job[t].state = "open"
<1>1. ASSUME NEW t \in ts
      PROVE  Errand(t)' = [Errand(t) EXCEPT !.state = state] /\ Errand(t).state = "open"
  BY DEF Errand, JobState, Dest, Op, Finished
<1>2. ASSUME NEW t \in Transfer \ ts PROVE Errand(t)' = Errand(t)
  BY DEF Errand, JobState, Dest, Op
<1> QED BY <1>1, <1>2 DEF OE!Become, job

\* The steps that neither the stores nor the jobs show.
LEMMA Stutters ==
  ASSUME disk' = disk, UNCHANGED job
  PROVE  [OE!Next]_OE!oevars
BY StoresRest DEF OE!oevars

\* A client asks: the job is taken on.
LEMMA AskImplements ==
  ASSUME IInv, NEW t \in Transfer, NEW r \in Request, Ask(t, r)
  PROVE  OE!Next
<1> DEFINE errand == [oid |-> r.oid, to |-> Dest(t)', state |-> "open"]
<1>1. Types
  BY DEF IInv
<1>2. Errand(t)' = errand
  BY <1>1 DEF Types, Ask, ClientGoto, Errand, JobState
<1>3. \A u \in Transfer \ {t} : Errand(u)' = Errand(u)
  BY <1>1 DEF Types, Ask, ClientGoto, Errand, JobState, Dest, Op
<1>4. errand \in OE!Errand
  BY DEF OE!Errand, OE!Side, Request, Dest
<1>5. job[t].state = "idle"
  BY DEF Ask, job, Errand
<1> HIDE DEF errand
<1> DEFINE errands == [u \in {t} |-> errand]
<1>6. errands \in [{t} -> OE!Errand]
  BY <1>4
<1>7. job' = [u \in Transfer |-> IF u \in {t} THEN errands[u] ELSE job[u]]
  BY <1>2, <1>3 DEF job
<1>8. OE!Open({t})
  BY <1>5, <1>6, <1>7 DEF OE!Open
<1>9. UNCHANGED <<held, whole>>
  BY StoresRest DEF Ask
<1> QED BY <1>8, <1>9 DEF OE!Next

\* One client goes on to an outcome, and no file changes.
LEMMA OutcomeImplements ==
  ASSUME IInv, NEW t \in Transfer, ToldItHas(t) \/ Confirmed(t) \/ ClientFails(t) \/ DownloadForged(t)
  PROVE  OE!Next
<1> USE DEF ClientGoto, Finished
<1>1. Types /\ TransferInv(t) /\ request' = request /\ disk' = disk /\ {t} \in SUBSET Transfer
  BY DEF IInv, ToldItHas, Confirmed, ClientFails, DownloadForged
<1>2. UNCHANGED <<held, whole>>
  BY <1>1, StoresRest
<1>3. job[t].oid = request[t].oid /\ job[t].to = Dest(t) /\ request[t] \in Request
  BY <1>1 DEF TransferInv, Started, job, Errand, ToldItHas, Confirmed, ClientFails, DownloadForged
<1>4. CASE ToldItHas(t)
  <2>1. client' = [u \in Transfer |-> IF u \in {t} THEN "had" ELSE client[u]]
    BY <1>1, <1>4 DEF ToldItHas, Types
  <2>2. OE!Become({t}, "found") /\ job[t].state = "open"
    BY <1>1, <1>4, <2>1, JobsBecome DEF ToldItHas
  <2>3. request[t].oid \in held[Dest(t)]
    BY <1>1, <1>3, <1>4 DEF ToldItHas, TransferInv, Replies, held, Dest, Side, Request
  <2>4. OE!Found(t)
    BY <1>3, <2>2, <2>3 DEF OE!Found
  <2> QED BY <1>2, <2>4 DEF OE!Next
<1>5. CASE Confirmed(t)
  <2>1. client' = [u \in Transfer |-> IF u \in {t} THEN "uploaded" ELSE client[u]]
    BY <1>1, <1>5 DEF Confirmed, Types
  <2>2. OE!Become({t}, "delivered") /\ job[t].state = "open"
    BY <1>1, <1>5, <2>1, JobsBecome DEF Confirmed
  <2>3. request[t].oid \in whole[Dest(t)]
    BY <1>1, <1>3, <1>5
       DEF Confirmed, TransferInv, Replies, Roles, whole, Dest, Side, Request
  <2>4. OE!Delivered(t)
    BY <1>2, <1>3, <2>2, <2>3 DEF OE!Delivered
  <2> QED BY <1>2, <2>4 DEF OE!Next, OE!Bringing
<1>6. CASE ClientFails(t) \/ DownloadForged(t)
  <2>1. client' = [u \in Transfer |-> IF u \in {t} THEN "failed" ELSE client[u]]
    BY <1>1, <1>6 DEF ClientFails, DownloadForged, Types
  <2>2. OE!Become({t}, "failed") /\ \A u \in {t} : job[u].state = "open"
    BY <1>1, <1>6, <2>1, JobsBecome DEF ClientFails, DownloadForged
  <2>3. OE!Fail({t})
    BY <2>2 DEF OE!Fail
  <2> QED BY <1>1, <1>2, <2>3 DEF OE!Next
<1> QED BY <1>4, <1>5, <1>6

\* A rename, whether or not the receiving end is still there to see it.
LEMMA RenameImplements ==
  ASSUME IInv, NEW t \in Transfer, Place(t) \/ TimeoutInRename(t)
  PROVE  OE!Next
<1>1. Types /\ TransferInv(t) /\ request' = request /\ staging[t] = "rename"
  BY DEF IInv, Place, TimeoutInRename
<1>2. client[t] # "idle" /\ request[t] \in Request /\ (Op(t) # "Upload" => client[t] = "receiving")
  BY <1>1 DEF TransferInv, Started, Roles, Receiving, Staging
<1>3. disk' = [disk EXCEPT ![Dest(t)][request[t].oid] = tmp[t]]
  BY <1>1 DEF Place, TimeoutInRename, TransferInv, Roles, Dest
<1>4. OE!Bringing /\ request[t].oid \in whole'[Dest(t)]
  BY <1>1, <1>2, <1>3, StoreReceives DEF TransferInv, Placed
<1>5. CASE client' = client
  <2>1. UNCHANGED job
    BY <1>1, <1>5, JobsRest DEF JobState
  <2> QED BY <1>4, <2>1 DEF OE!Next
<1>6. CASE Place(t) /\ Op(t) # "Upload"
  <2>1. client' = [u \in Transfer |-> IF u \in {t} THEN "downloaded" ELSE client[u]]
    BY <1>1, <1>6 DEF Place, ClientGoto, Types
  <2>2. OE!Become({t}, "delivered") /\ job[t].state = "open"
    BY <1>1, <1>2, <1>6, <2>1, JobsBecome DEF Finished
  <2>3. job[t].oid = request[t].oid /\ job[t].to = Dest(t)
    BY <1>2 DEF job, Errand
  <2>4. OE!Delivered(t)
    BY <1>4, <2>2, <2>3 DEF OE!Delivered
  <2> QED BY <1>4, <2>4 DEF OE!Next
<1> QED BY <1>5, <1>6 DEF Place, TimeoutInRename

\* A client's process dies, and with it every transfer that has no outcome yet.
LEMMA ClientKilledImplements ==
  ASSUME IInv, ClientKilled
  PROVE  OE!Next
<1> DEFINE ts == {t \in Transfer : client[t] \notin Finished \cup {"idle"}}
<1>1. Types /\ request' = request /\ ts \in SUBSET Transfer /\ UNCHANGED <<held, whole>>
  BY StoresRest DEF IInv, ClientKilled
<1>2. client' = [t \in Transfer |-> IF t \in ts THEN "failed" ELSE client[t]]
  BY DEF ClientKilled
<1>3. \A t \in ts : client[t] \notin Finished \cup {"idle"}
  OBVIOUS
<1> HIDE DEF ts
<1>4. OE!Become(ts, "failed") /\ \A t \in ts : job[t].state = "open"
  BY <1>1, <1>2, <1>3, JobsBecome
<1>5. OE!Fail(ts)
  BY <1>4 DEF OE!Fail
<1> QED BY <1>1, <1>5 DEF OE!Next

\* Every other step is one that ObjectExchange does not see.
LEMMA OtherStepsImplement ==
  ASSUME IInv, NEW t \in Transfer,
         \/ ToldToSend(t) \/ ToldToReceive(t) \/ ClientSends(t) \/ ServerStep(t)
         \/ Create(t) \/ ReadToEnd(t) \/ DownloadVerified(t) \/ UploadVerified(t)
         \/ UploadForged(t) \/ UploadOvertaken(t)
         \/ ServerFails(t) \/ TimeoutInCreate(t) \/ LateCreate(t)
  PROVE  [OE!Next]_OE!oevars
<1>1. Types
  BY DEF IInv
<1>2. disk' = disk /\ request' = request
  BY DEF ToldToSend, ToldToReceive, ClientSends, ServerStep, ServeDownload, ServerSends,
         UploadNotNeeded, ServeUpload, ServerConfirms, Create, ReadToEnd, DownloadVerified,
         UploadVerified, UploadForged, UploadOvertaken, ServerFails, TimeoutInCreate, LateCreate
<1>3. \/ client' = client
      \/ /\ client[t] \in {"asking", "sending"}
         /\ \E at \in {"sending", "receiving", "confirming"} : client' = [client EXCEPT ![t] = at]
  BY DEF ToldToSend, ToldToReceive, ClientSends, ServerStep, ServeDownload, ServerSends,
         UploadNotNeeded, ServeUpload, ServerConfirms, Create, ReadToEnd, DownloadVerified,
         UploadVerified, UploadForged, UploadOvertaken, ServerFails, TimeoutInCreate, LateCreate,
         ClientGoto
<1>4. \A u \in Transfer : JobState(u)' = JobState(u) /\ (client'[u] = "idle" <=> client[u] = "idle")
  BY <1>1, <1>3 DEF Types, JobState
<1> QED BY <1>2, <1>4, JobsRest, Stutters

LEMMA NextImplements == IInv /\ [Next]_vars => [OE!Next]_OE!oevars
<1> SUFFICES ASSUME IInv, [Next]_vars PROVE [OE!Next]_OE!oevars
  OBVIOUS
<1>1. CASE UNCHANGED vars \/ DaemonKilled
  <2>1. disk' = disk /\ request' = request /\ client' = client
    BY <1>1 DEF vars, DaemonKilled
  <2> QED BY <2>1, JobsRest, Stutters DEF JobState
<1> QED BY <1>1, AskImplements, OutcomeImplements, RenameImplements, ClientKilledImplements,
           OtherStepsImplement
        DEF Next, ClientStep, StagingStep, Failure

-----------------------------------------------------------------------------
(* The theorems.                                                           *)

\* Every step keeps the invariant and leaves the stores with whole objects.
LEMMA NextInv == IInv /\ [Next]_vars => IInv' /\ DiskGrows
<1> SUFFICES ASSUME IInv, [Next]_vars PROVE IInv' /\ DiskGrows
  OBVIOUS
<1>1. CASE UNCHANGED vars
  <2>1. Types' /\ DiskGrows /\ \A t \in Transfer : Same(t)
    BY <1>1 DEF IInv, Types, vars, DiskGrows, Same
  <2> QED BY <2>1, OthersKeepInv DEF IInv
<1>2. CASE ClientKilled \/ DaemonKilled
  BY <1>2, ClientKilledKeepsInv, DaemonKilledKeepsInv DEF IInv
<1>3. ASSUME NEW t \in Transfer,
             \/ \E r \in Request : Ask(t, r)
             \/ ClientStep(t) \/ ServerStep(t) \/ StagingStep(t) \/ Failure(t)
      PROVE  IInv' /\ DiskGrows
  <2>1. Kept(t)
    BY <1>3, AskingKept, ClientKept, ServerKept, ServerFailureKept, StagingKept
       DEF ClientStep, ServerStep, StagingStep, Failure
  <2>2. ASSUME NEW u \in Transfer, u # t PROVE TransferInv(u)'
    BY <2>1, <2>2, OthersKeepInv DEF Kept, IInv
  <2> QED BY <2>1, <2>2 DEF Kept, IInv
<1> QED BY <1>1, <1>2, <1>3 DEF Next

\* Whatever fails or dies at either end, and however many transfers there are, a
\* store only changes by getting an object whole.
THEOREM StoresHoldWholeObjects == Spec => OnlyWholeObjects
<1>1. IInv /\ [Next]_vars =>
        [\A side \in Side, o \in Oid : disk[side][o] # disk'[side][o] => disk'[side][o] = o]_vars
  BY NextInv DEF DiskGrows
<1> QED BY <1>1, InitInv, NextInv, PTL DEF Spec, OnlyWholeObjects

\* Uploads and downloads are jobs of ObjectExchange: a store receives nothing but
\* what the other end has whole, and no outcome is reported that is not so or that
\* changes afterwards.
THEOREM Implements == Spec => ImplementsObjectExchange
BY InitImplements, NextImplements, InitInv, NextInv, PTL
   DEF Spec, OE!Spec, ImplementsObjectExchange

\* What a client reports of a transfer is so.
THEOREM ReportsAreTrue == Spec => [](TypeOK /\ OutcomesTrue)
<1> QED BY InitInv, NextInv, InvImplies, PTL DEF Spec

\* Every staging file belongs to a transfer that is receiving, or to one whose
\* process was killed or whose timeout met the creation of the file.
THEOREM StagingAccountedFor == Spec => []OrphansExplained
<1> QED BY InitInv, NextInv, InvImplies, PTL DEF Spec

\* Every variable keeps its type, and there is a staging step exactly when there
\* is a receiver.
THEOREM TypeCorrect == Spec => []TypeOK
<1> QED BY InitInv, NextInv, InvImplies, PTL DEF Spec
=============================================================================
