----------------------------- MODULE LfsServer -----------------------------
(***************************************************************************)
(* The daemon serving LFS objects: the loop that accepts one stream per    *)
(* object on a connection (handle_lfs) and the task that authorizes and    *)
(* serves each object (serve_lfs_request), composed with the grants        *)
(* watcher and the connection limiter.  What a transfer does with the      *)
(* object store is in LfsTransfer.                                         *)
(***************************************************************************)
EXTENDS Watcher, FiniteSets

CONSTANTS
  MaxConnections,  \* MAX_CONCURRENT_CONNECTIONS
  MaxStreams,      \* MAX_LFS_STREAMS_PER_CONN
  IdleTimeout,     \* LFS_IDLE_TIMEOUT, in ticks
  MaxObjects,      \* bound: object streams the client opens on each connection
  Sent,            \* bound: the requests clients send
  NoRequest        \* no request has been read

ASSUME LfsServerAssumption ==
  /\ IsFiniteSet(Conn)
  /\ MaxConnections \in Nat /\ MaxStreams \in Nat /\ IdleTimeout \in Nat
  /\ MaxObjects \in [Conn -> Nat]
  /\ Sent \subseteq LfsRequest /\ NoRequest \notin LfsRequest

\* The objects of a connection, numbered in the order their streams are accepted.
Object == UNION {{c} \X (1 .. MaxObjects[c]) : c \in Conn}

VARIABLES
  loop,     \* where handle_lfs is on each connection
  pinned,   \* its local repo_id, with the caller: the session it registered
  opened,   \* how many streams it has accepted
  timer,    \* ticks since it started to wait for the next stream
  left,     \* connections the client, or the network, has ended
  step,     \* where the task of each object is in serve_lfs_request
  asked,    \* the request that was read for it
  permits   \* permits left in the connection limiter

loopvars == <<loop, pinned, opened, timer, left, permits>>
objectvars == <<step, asked>>
lfsvars == <<loopvars, objectvars>>
vars == <<storevars, watchervars, lfsvars>>

\* The steps at which the loop owns the connection's permit.
HoldsPermit == {"connecting", "accept", "read", "rejecting", "acquire"}

TypeOK ==
  /\ WatcherTypeOK
  /\ loop \in [Conn -> HoldsPermit \cup {"none", "done"}]
  /\ pinned \in [Conn -> LfsSession \cup {NoSession}]
  /\ opened \in [Conn -> Nat] /\ \A c \in Conn : opened[c] <= MaxObjects[c]
  /\ timer \in [Conn -> 0 .. IdleTimeout]
  /\ left \subseteq Conn
  /\ step \in [Object -> {"none", "queued", "spawned", "serving", "refusing", "done"}]
  /\ asked \in [Object -> LfsRequest \cup {NoRequest}]
  /\ permits \in 0 .. MaxConnections

Init ==
  /\ WatcherInit
  /\ loop = [c \in Conn |-> "none"]
  /\ pinned = NoSessions
  /\ opened = [c \in Conn |-> 0]
  /\ timer = [c \in Conn |-> 0]
  /\ left = {}
  /\ step = [o \in Object |-> "none"]
  /\ asked = [o \in Object |-> NoRequest]
  /\ permits = MaxConnections

Running == {o \in Object : step[o] \in {"spawned", "serving", "refusing"}}

\* The transfers that hold a permit of the connection's stream semaphore.
InFlight(c) == {o \in Running : o[1] = c}

Latest(c) == <<c, opened[c]>>

Goto(c, at) == loop' = [loop EXCEPT ![c] = at]

UnchangedByLoop == UNCHANGED <<storevars, daemon, events, grants, watcher, closed, left>>

\* The next turn of the loop: the sleep of the select! starts over.
NextTurn(c) ==
  /\ Goto(c, "accept")
  /\ timer' = [timer EXCEPT ![c] = 0]

\* handle_lfs returns: the session guard deregisters and the permit is dropped;
\* the tasks it spawned go on.
Return(c) ==
  /\ Goto(c, "done")
  /\ sessions' = [sessions EXCEPT ![c] = NoSession]
  /\ permits' = permits + 1
  /\ UNCHANGED <<pinned, opened, timer, step, asked>>

-----------------------------------------------------------------------------
(* The accept loop of `run`, and `handle` up to the choice of the protocol. *)

Accept(c) ==
  /\ daemon = "serving"
  /\ loop[c] = "none"
  /\ permits > 0
  /\ permits' = permits - 1
  /\ Goto(c, "connecting")
  /\ UNCHANGED <<sessions, pinned, opened, timer, objectvars>> /\ UnchangedByLoop

Refuse(c) ==
  /\ daemon = "serving"
  /\ loop[c] = "none"
  /\ permits = 0
  /\ Goto(c, "done")
  /\ UNCHANGED <<sessions, pinned, opened, timer, permits, objectvars>> /\ UnchangedByLoop

Established(c) ==
  /\ loop[c] = "connecting"
  /\ NextTurn(c)
  /\ UNCHANGED <<sessions, pinned, opened, permits, objectvars>> /\ UnchangedByLoop

ConnectFails(c) ==
  /\ loop[c] = "connecting"
  /\ Return(c) /\ UnchangedByLoop

-----------------------------------------------------------------------------
(* handle_lfs.                                                             *)

\* A stream the client opened, perhaps before the connection was closed.
AcceptStream(c) ==
  /\ loop[c] = "accept"
  /\ opened[c] < MaxObjects[c]
  /\ opened' = [opened EXCEPT ![c] = @ + 1]
  /\ Goto(c, "read")
  /\ UNCHANGED <<sessions, pinned, timer, permits, objectvars>> /\ UnchangedByLoop

AcceptFails(c) ==
  /\ loop[c] = "accept"
  /\ c \in closed \cup left
  /\ Return(c) /\ UnchangedByLoop

Tick(c) ==
  /\ loop[c] = "accept"
  /\ timer[c] < IdleTimeout
  /\ timer' = [timer EXCEPT ![c] = @ + 1]
  /\ UNCHANGED <<sessions, loop, pinned, opened, permits, objectvars>> /\ UnchangedByLoop

TimerFired(c) == loop[c] = "accept" /\ timer[c] = IdleTimeout

\* Mutant of IdleTimerReturns: the timer never ends the loop.
IdleTimerGoesOn(c) ==
  /\ TimerFired(c)
  /\ InFlight(c) = {}
  /\ NextTurn(c)
  /\ UNCHANGED <<sessions, pinned, opened, permits, objectvars>> /\ UnchangedByLoop

\* Every permit of the stream semaphore is available: reclaim the slot.
IdleTimerReturns(c) ==
  /\ TimerFired(c)
  /\ InFlight(c) = {}
  /\ Return(c) /\ UnchangedByLoop

\* Mutant of IdleTimerContinues: the sleep is not started over.
IdleTimerRunsOn(c) ==
  /\ TimerFired(c)
  /\ InFlight(c) # {}
  /\ timer' = [timer EXCEPT ![c] = @ + 1]
  /\ UNCHANGED <<sessions, loop, pinned, opened, permits, objectvars>> /\ UnchangedByLoop

IdleTimerContinues(c) ==
  /\ TimerFired(c)
  /\ InFlight(c) # {}
  /\ NextTurn(c)
  /\ UNCHANGED <<sessions, pinned, opened, permits, objectvars>> /\ UnchangedByLoop

\* The stream breaks, or HANDSHAKE_TIMEOUT fires: it is dropped.
RequestUnreadable(c) ==
  /\ loop[c] = "read"
  /\ NextTurn(c)
  /\ UNCHANGED <<sessions, pinned, opened, permits, objectvars>> /\ UnchangedByLoop

\* The request of an object goes to a task as soon as there is a stream permit.
Queue(c, req) ==
  /\ asked' = [asked EXCEPT ![Latest(c)] = req]
  /\ step' = [step EXCEPT ![Latest(c)] = "queued"]
  /\ Goto(c, "acquire")

\* Mutant of ReadFirst: the repository is pinned and the session not registered.
ReadFirstUnregistered(c, caller, req) ==
  /\ loop[c] = "read"
  /\ pinned[c] = NoSession
  /\ pinned' = [pinned EXCEPT ![c] = [kind |-> "lfs", caller |-> caller, repo_id |-> req.repo_id]]
  /\ Queue(c, req)
  /\ UNCHANGED <<sessions, opened, timer, permits>> /\ UnchangedByLoop

\* The first object registers the connection and pins it to its repository.
ReadFirst(c, caller, req) ==
  /\ loop[c] = "read"
  /\ pinned[c] = NoSession
  /\ pinned' = [pinned EXCEPT ![c] = [kind |-> "lfs", caller |-> caller, repo_id |-> req.repo_id]]
  /\ sessions' = [sessions EXCEPT ![c] = pinned'[c]]
  /\ Queue(c, req)
  /\ UNCHANGED <<opened, timer, permits>> /\ UnchangedByLoop

\* Mutant of ReadNext: a later object may be of any repository.
ReadNextAnywhere(c, req) ==
  /\ loop[c] = "read"
  /\ pinned[c] # NoSession
  /\ Queue(c, req)
  /\ UNCHANGED <<sessions, pinned, opened, timer, permits>> /\ UnchangedByLoop

ReadNext(c, req) ==
  /\ loop[c] = "read"
  /\ pinned[c] # NoSession /\ pinned[c].repo_id = req.repo_id
  /\ Queue(c, req)
  /\ UNCHANGED <<sessions, pinned, opened, timer, permits>> /\ UnchangedByLoop

\* An object of another repository is refused ...
RejectOther(c, req) ==
  /\ loop[c] = "read"
  /\ pinned[c] # NoSession /\ pinned[c].repo_id # req.repo_id
  /\ Goto(c, "rejecting")
  /\ UNCHANGED <<sessions, pinned, opened, timer, permits, objectvars>> /\ UnchangedByLoop

\* ... and the loop goes on when that is written, which has no timeout, or fails.
RejectionWritten(c) ==
  /\ loop[c] = "rejecting"
  /\ NextTurn(c)
  /\ UNCHANGED <<sessions, pinned, opened, permits, objectvars>> /\ UnchangedByLoop

\* Mutant of AcquireAndSpawn: the stream permit is not moved into the task, but
\* dropped once that is spawned.
AcquireAndSpawnDroppingPermit(c) ==
  /\ loop[c] = "acquire"
  /\ step' = [step EXCEPT ![Latest(c)] = "spawned"]
  /\ NextTurn(c)
  /\ UNCHANGED <<sessions, pinned, opened, permits, asked>> /\ UnchangedByLoop

\* The loop waits here while MaxStreams transfers are running.
AcquireAndSpawn(c) ==
  /\ loop[c] = "acquire"
  /\ Cardinality(InFlight(c)) < MaxStreams
  /\ step' = [step EXCEPT ![Latest(c)] = "spawned"]
  /\ NextTurn(c)
  /\ UNCHANGED <<sessions, pinned, opened, permits, asked>> /\ UnchangedByLoop

ReadRequest(c) ==
  \E req \in Sent :
    \/ \E caller \in Node : ReadFirst(c, caller, req)
    \/ ReadNext(c, req) \/ RejectOther(c, req)

-----------------------------------------------------------------------------
(* serve_lfs_request.                                                      *)

Caller(o) == pinned[o[1]].caller

ObjectGoto(o, at) ==
  /\ step' = [step EXCEPT ![o] = at]
  /\ UNCHANGED <<storevars, watchervars, loop, pinned, opened, timer, left, asked, permits>>

\* Mutant of Authorize: an object is served once its connection is registered.
AuthorizeBySession(o) ==
  /\ step[o] = "spawned"
  /\ ObjectGoto(o, "serving")

\* The decision is taken under the grants mutex.
Authorize(o) ==
  /\ step[o] = "spawned"
  /\ GrantsUnlocked
  /\ authorize_lfs(grants, asked[o], Caller(o))
  /\ ObjectGoto(o, "serving")

Deny(o) ==
  /\ step[o] = "spawned"
  /\ GrantsUnlocked
  /\ ~authorize_lfs(grants, asked[o], Caller(o))
  /\ ObjectGoto(o, "refusing")

\* The transfer ends, fails or LFS_TRANSFER_TIMEOUT aborts it; or the refusal is
\* written.  The stream permit is dropped with the task.
ObjectEnds(o) ==
  /\ step[o] \in {"serving", "refusing"}
  /\ ObjectGoto(o, "done")

-----------------------------------------------------------------------------

\* The client closes the connection, or it is lost.
Leave(c) ==
  /\ loop[c] # "none"
  /\ left' = left \cup {c}
  /\ UNCHANGED <<storevars, watchervars, loop, pinned, opened, timer, permits, objectvars>>

StopAll ==
  /\ Stop
  /\ loop' = [c \in Conn |-> IF loop[c] = "none" THEN "none" ELSE "done"]
  /\ step' = [o \in Object |-> IF step[o] = "none" THEN "none" ELSE "done"]
  /\ permits' = MaxConnections
  /\ UNCHANGED <<pinned, opened, timer, left, asked>>

LoopStepOf(c) ==
  \/ Established(c) \/ ConnectFails(c)
  \/ AcceptFails(c) \/ IdleTimerReturns(c) \/ IdleTimerContinues(c)
  \/ RequestUnreadable(c) \/ ReadRequest(c) \/ AcquireAndSpawn(c)

DaemonStep ==
  /\ \/ PorcelainEdit \/ OtherFileChanges
     \/ LoadInitial \/ SpawnWatcher \/ GoOnline
     \/ WatcherStep \/ ReloadFails
  /\ UNCHANGED lfsvars

Next ==
  \/ DaemonStep
  \/ \E c \in Conn : \/ Accept(c) \/ Refuse(c) \/ AcceptStream(c) \/ Tick(c)
                     \/ LoopStepOf(c) \/ RejectionWritten(c) \/ Leave(c)
  \/ \E o \in Object : Authorize(o) \/ Deny(o) \/ ObjectEnds(o)
  \/ StopAll

Spec == Init /\ [][Next]_vars

-----------------------------------------------------------------------------
(* Fairness: time passes, the loop and the watcher task run, every object  *)
(* task gets the grants mutex (which sweeps take and release again and     *)
(* again, hence strong fairness), and a transfer ends, by its timeout at   *)
(* the latest.  No client is assumed to open a stream, to send, to leave   *)
(* or to take a refusal, which only the end of the connection cuts short.  *)

Gone(c) == c \in closed \cup left

Fairness ==
  /\ WF_vars(WatcherStep /\ UNCHANGED lfsvars)
  /\ \A c \in Conn :
       WF_vars(Tick(c)) /\ WF_vars(LoopStepOf(c)) /\ WF_vars(Gone(c) /\ RejectionWritten(c))
  /\ \A o \in Object :
       /\ SF_vars(Authorize(o) \/ Deny(o))
       /\ WF_vars((step[o] = "serving" \/ Gone(o[1])) /\ ObjectEnds(o))

FairSpec == Spec /\ Fairness

-----------------------------------------------------------------------------
(* Properties *)

\* Object o is being served on a connection that is still open.
Live(o) == step[o] = "serving" /\ o[1] \notin closed \cup left

SessionOf(o) == [kind |-> "lfs", caller |-> Caller(o), repo_id |-> asked[o].repo_id]

\* No object transfer escapes a revoke: whenever the watcher task rests, every
\* object in transfer is of a repository its caller has LFS access to, although
\* a sweep only re-checks the one repository its connection registered
\* (lib.rs, handle_lfs: "pinned to a single repository so that revoke check
\* stays exact").
NoEscape ==
  watcher.pc = "idle" => \A o \in Object : Live(o) => still_authorized(grants, SessionOf(o))

\* A reload that closes a connection ends no object transfer on it that it still
\* allows: there are none of another repository, and the list of victims is not
\* out of date when it is gone through (lib.rs, close_revoked_sessions).
OnlyForbiddenClosed ==
  [][\A c \in closed' \ closed : \A o \in Object :
       o[1] = c /\ Live(o) => ~still_authorized(grants, SessionOf(o))]_vars

Holders == {c \in Conn : loop[c] \in HoldsPermit}

\* A connection's slot is free again exactly when its loop has returned, on each
\* of the loop's exits; what goes on without the loop is at most the transfers
\* its stream permits let it start.
PermitAccounting ==
  /\ permits + Cardinality(Holders) = MaxConnections
  /\ \A c \in Conn : Cardinality(InFlight(c)) <= MaxStreams

\* A sweep finds every connection with an object in transfer or about to be:
\* from its first request to the return of its loop, under the one repository
\* its objects are of.
RegistryCoversObjects ==
  \A o \in Object :
    step[o] \in {"queued", "spawned", "serving"} /\ loop[o[1]] # "done" =>
      sessions[o[1]] = SessionOf(o)

-----------------------------------------------------------------------------
(* The inductive invariant behind the safety properties.                   *)

\* The steps of the loop at which the connection may be registered.
Looping == {"accept", "read", "rejecting", "acquire"}

\* The registry has what the loop has pinned, and no more once it has returned.
PinRegistered ==
  \A c \in Conn :
    /\ sessions[c] = IF loop[c] \in Looping THEN pinned[c] ELSE NoSession
    /\ loop[c] \in {"none", "connecting"} => pinned[c] = NoSession
    /\ loop[c] = "acquire" => pinned[c] # NoSession
    /\ loop[c] \in {"read", "acquire"} => opened[c] > 0

\* Objects start in the order of their streams, under the pin of the connection.
InOrder ==
  \A o \in Object :
    /\ step[o] # "none" =>
         /\ o[2] <= opened[o[1]] /\ pinned[o[1]] # NoSession
         /\ asked[o] \in LfsRequest /\ asked[o].repo_id = pinned[o[1]].repo_id
    /\ step[o] = "queued" <=> loop[o[1]] = "acquire" /\ o = Latest(o[1])
    /\ loop[o[1]] = "read" /\ o = Latest(o[1]) => step[o] = "none"

\* The loop leaves transfers behind only when their connection is gone.
NoneLeftBehind ==
  \A o \in Running : loop[o[1]] = "done" => o[1] \in closed \cup left

\* A live transfer the published grants do not authorize is one the watcher has
\* still to sweep, or has swept and has still to close.
Unrevoked ==
  \A o \in Object : Live(o) =>
    \/ still_authorized(grants, SessionOf(o))
    \/ watcher.pc \in {"status", "sweep"}
    \/ watcher.pc = "close" /\ o[1] \in watcher.revoked

\* There is nothing to serve before the accept loop, nor to watch before the watcher.
Quiet ==
  /\ daemon # "serving" => /\ \A c \in Conn : loop[c] \in {"none", "done"}
                           /\ \A o \in Object : step[o] \in {"none", "done"}
  /\ ~Watching => watcher.pc = "idle"

IInv ==
  /\ TypeOK /\ Quiet /\ PermitAccounting
  /\ PinRegistered /\ InOrder /\ NoneLeftBehind /\ Unrevoked

-----------------------------------------------------------------------------
(* Liveness and refinement.                                                *)

\* A refusal of the daemon to the client waits to be written.
ReplyHeldUp(c) ==
  loop[c] = "rejecting" \/ \E o \in Object : o[1] = c /\ step[o] = "refusing"

\* An LFS connection gives its slot back in the end, whatever its client does
\* once it opens no more streams, unless the client does not take a refusal
\* (lib.rs, LFS_IDLE_TIMEOUT: "without this an idle (or parked) LFS connection
\* would hold one of the limited connection permits indefinitely").
SlotReclaimed ==
  \A c \in Conn :
    loop[c] \in HoldsPermit ~> loop[c] \notin HoldsPermit \/ ReplyHeldUp(c)

\* Each object in transfer is a session of AccessControl: it starts only if the
\* published grants allow it, and a published table is enforced on all of them
\* before the next.
AC == INSTANCE AccessControl WITH
  Conn       <- Object,
  Session    <- LfsSession,
  Authorized <- still_authorized,
  policy     <- grants,
  enforcing  <- watcher.pc \in {"status", "sweep", "close"},
  live       <- [o \in Object |-> IF Live(o) THEN SessionOf(o) ELSE NoSession]

ImplementsAccessControl == AC!Spec
=============================================================================
