----------------------------- MODULE PackServer -----------------------------
(***************************************************************************)
(* The daemon serving git over the pack protocol: the accept loop with its *)
(* connection limit (run), one task per connection (handle) and the git    *)
(* process a task spawns (serve_git), composed with the grants watcher.    *)
(***************************************************************************)
EXTENDS Watcher, FiniteSets

CONSTANTS
  MaxConnections,  \* MAX_CONCURRENT_CONNECTIONS
  Sent             \* bound: the requests clients send

ASSUME PackServerAssumption ==
  IsFiniteSet(Conn) /\ MaxConnections \in Nat /\ Sent \subseteq Request

VARIABLES
  pc,       \* where the task of each connection is in `handle`
  asked,    \* the caller and request of each authorized connection
  path,     \* the repository path its authorization resolved to
  git,      \* connections whose git process is running
  waits,    \* what the copies of serve_git wait for but git's output
  permits   \* permits left in the connection limiter

packvars == <<pc, asked, path, git, waits, permits>>
vars == <<storevars, watchervars, packvars>>

\* The steps of `handle` at which the task owns its permit.
HoldsPermit == {"connecting", "handshake", "replying", "registered", "serving", "rejecting"}
TaskStep == HoldsPermit \cup {"none", "lingering", "done"}

\* `to_child` reads the stream, writes git's input or has ended; `from_child` writes
\* the stream, or reads git's output, or its end once git has ended.
Wait == {"recv", "stdin", "send"}

TypeOK ==
  /\ WatcherTypeOK
  /\ pc \in [Conn -> TaskStep]
  /\ asked \in [Conn -> PackSession \cup {NoSession}]
  /\ path \in [Conn -> Path \cup {NoPath}]
  /\ git \subseteq Conn
  /\ waits \in [Conn -> SUBSET Wait]
  /\ permits \in 0 .. MaxConnections

Init ==
  /\ WatcherInit
  /\ pc = [c \in Conn |-> "none"]
  /\ asked = NoSessions
  /\ path = [c \in Conn |-> NoPath]
  /\ git = {}
  /\ waits = [c \in Conn |-> {}]
  /\ permits = MaxConnections

Goto(c, step) == pc' = [pc EXCEPT ![c] = step]

\* Mutant of Return: the session guard is forgotten.
ReturnWithoutGuard(c) ==
  /\ Goto(c, "done")
  /\ permits' = permits + 1
  /\ asked' = [asked EXCEPT ![c] = NoSession]
  /\ path' = [path EXCEPT ![c] = NoPath]
  /\ waits' = [waits EXCEPT ![c] = {}]
  /\ UNCHANGED sessions

\* `handle` returns: the session guard deregisters, the permit is dropped, the
\* connection with the last handle on it, and git's pipes with the copies.
Return(c) ==
  /\ Goto(c, "done")
  /\ sessions' = [sessions EXCEPT ![c] = NoSession]
  /\ permits' = permits + 1
  /\ asked' = [asked EXCEPT ![c] = NoSession]
  /\ path' = [path EXCEPT ![c] = NoPath]
  /\ waits' = [waits EXCEPT ![c] = {}]

\* What no task of `handle` touches.
UnchangedByTask == UNCHANGED <<storevars, daemon, events, grants, watcher, closed>>

-----------------------------------------------------------------------------
(* The accept loop.                                                        *)

Accept(c) ==
  /\ daemon = "serving"
  /\ pc[c] = "none"
  /\ permits > 0
  /\ permits' = permits - 1
  /\ Goto(c, "connecting")
  /\ UNCHANGED <<sessions, asked, path, git, waits>> /\ UnchangedByTask

Refuse(c) ==
  /\ daemon = "serving"
  /\ pc[c] = "none"
  /\ permits = 0
  /\ Goto(c, "done")
  /\ UNCHANGED <<sessions, asked, path, git, waits, permits>> /\ UnchangedByTask

-----------------------------------------------------------------------------
(* `handle`.                                                               *)

Established(c) ==
  /\ pc[c] = "connecting"
  /\ Goto(c, "handshake")
  /\ UNCHANGED <<sessions, asked, path, git, waits, permits>> /\ UnchangedByTask

ConnectFails(c) ==
  /\ pc[c] = "connecting"
  /\ Return(c)
  /\ UNCHANGED git /\ UnchangedByTask

\* The peer is gone, sends no readable request, or HANDSHAKE_TIMEOUT fires.
HandshakeFails(c) ==
  /\ pc[c] = "handshake"
  /\ Return(c)
  /\ UNCHANGED git /\ UnchangedByTask

\* The request has arrived: the decision is taken under the grants mutex.
Authorize(c, caller, req) ==
  /\ pc[c] = "handshake"
  /\ GrantsUnlocked
  /\ authorize(grants, req, caller)
  /\ asked' = [asked EXCEPT ![c] = [kind |-> "pack", caller |-> caller, req |-> req]]
  /\ \E p \in RepoPaths(grants, req.repo_id) : path' = [path EXCEPT ![c] = p]
  /\ Goto(c, "replying")
  /\ UNCHANGED <<sessions, git, waits, permits>> /\ UnchangedByTask

Deny(c, caller, req) ==
  /\ pc[c] = "handshake"
  /\ GrantsUnlocked
  /\ ~authorize(grants, req, caller)
  /\ Goto(c, "rejecting")
  /\ UNCHANGED <<sessions, asked, path, git, waits, permits>> /\ UnchangedByTask

\* Mutant of ReplyAndRegister: `let _ = register_session(..)` drops the guard at
\* once.
ReplyAndDropGuard(c) ==
  /\ pc[c] = "replying"
  /\ Goto(c, "registered")
  /\ UNCHANGED <<sessions, asked, path, git, waits, permits>> /\ UnchangedByTask

\* Response::Ok is written and, in the same step of the task, the session is
\* registered.
ReplyAndRegister(c) ==
  /\ pc[c] = "replying"
  /\ Goto(c, "registered")
  /\ sessions' = [sessions EXCEPT ![c] = asked[c]]
  /\ UNCHANGED <<asked, path, git, waits, permits>> /\ UnchangedByTask

ReplyFails(c) ==
  /\ pc[c] = "replying"
  /\ Return(c)
  /\ UNCHANGED git /\ UnchangedByTask

Spawn(c) ==
  /\ git' = git \cup {c}
  /\ waits' = [waits EXCEPT ![c] = {"recv"}]

\* Mutant of RecheckAndSpawn: there is no recheck.
SpawnWithoutRecheck(c) ==
  /\ pc[c] = "registered"
  /\ Spawn(c)
  /\ Goto(c, "serving")
  /\ UNCHANGED <<sessions, asked, path, permits>> /\ UnchangedByTask

\* The request is authorized again, against the grants of now, and git spawned.
\* A close that has already arrived is only noticed once the streams are used.
RecheckAndSpawn(c) ==
  /\ pc[c] = "registered"
  /\ GrantsUnlocked
  /\ still_authorized(grants, asked[c])
  /\ Spawn(c)
  /\ Goto(c, "serving")
  /\ UNCHANGED <<sessions, asked, path, permits>> /\ UnchangedByTask

\* It is refused, or git cannot be spawned.
RecheckFails(c) ==
  /\ pc[c] = "registered"
  /\ GrantsUnlocked
  /\ Return(c)
  /\ UNCHANGED git /\ UnchangedByTask

Turn(c, from, to) ==
  /\ pc[c] = "serving"
  /\ from \subseteq waits[c]
  /\ waits' = [waits EXCEPT ![c] = (@ \ from) \cup to]
  /\ UNCHANGED <<sessions, pc, asked, path, git, permits>> /\ UnchangedByTask

\* to_child: what had arrived before a close is still read, and git takes it when
\* it likes.
InputRead(c) == Turn(c, {"recv"}, {"stdin"})
InputWritten(c) == c \in git /\ Turn(c, {"stdin"}, {"recv"})
InputEnds(c) == Turn(c, {"recv"}, {})

\* from_child: git writes when it likes, and its pipe is read to the end.
OutputRead(c) == Turn(c, {}, {"send"})
OutputSent(c) == c \notin closed /\ Turn(c, {"send"}, {})

CopyStep(c) ==
  InputRead(c) \/ InputWritten(c) \/ InputEnds(c) \/ OutputRead(c) \/ OutputSent(c)

\* Both copies reached their end, git's output with git, and `child.wait` has
\* returned.
ServeCompletes(c) ==
  /\ pc[c] = "serving"
  /\ waits[c] = {} /\ c \notin git
  /\ Return(c)
  /\ UNCHANGED git /\ UnchangedByTask

\* A copy fails: the peer or the sweep closed the connection it is reading or
\* writing, or git closed its input.  try_join! returns at once and the child is
\* dropped, not killed.  A copy that waits for git's output notices nothing.
ServeAborts(c) ==
  /\ pc[c] = "serving"
  /\ waits[c] # {}
  /\ Return(c)
  /\ UNCHANGED git /\ UnchangedByTask

\* Mutant of SendRejection: the permit is kept for the linger.
SendRejectionKeepingPermit(c) ==
  /\ pc[c] = "rejecting"
  /\ Goto(c, "lingering")
  /\ UNCHANGED <<sessions, asked, path, git, waits, permits>> /\ UnchangedByTask

\* Response::Error is written and the permit dropped before the linger.
SendRejection(c) ==
  /\ pc[c] = "rejecting"
  /\ Goto(c, "lingering")
  /\ permits' = permits + 1
  /\ UNCHANGED <<sessions, asked, path, git, waits>> /\ UnchangedByTask

SendRejectionFails(c) ==
  /\ pc[c] = "rejecting"
  /\ Return(c)
  /\ UNCHANGED git /\ UnchangedByTask

\* Mutant of LingerEnds: the permit dropped before the linger is dropped again.
LingerEndsReturning(c) ==
  /\ pc[c] = "lingering"
  /\ Return(c)
  /\ UNCHANGED git /\ UnchangedByTask

LingerEnds(c) ==
  /\ pc[c] = "lingering"
  /\ Goto(c, "done")
  /\ UNCHANGED <<sessions, asked, path, git, waits, permits>> /\ UnchangedByTask

-----------------------------------------------------------------------------

\* A git process ends by itself.
GitExits(c) ==
  /\ c \in git
  /\ git' = git \ {c}
  /\ UNCHANGED <<sessions, pc, asked, path, waits, permits>> /\ UnchangedByTask

\* The daemon's tasks end with it; the git processes it spawned do not.
StopAll ==
  /\ Stop
  /\ pc' = [c \in Conn |-> IF pc[c] = "none" THEN "none" ELSE "done"]
  /\ asked' = NoSessions
  /\ path' = [c \in Conn |-> NoPath]
  /\ waits' = [c \in Conn |-> {}]
  /\ permits' = MaxConnections
  /\ UNCHANGED git

TaskStepOf(c) ==
  \/ Established(c) \/ ConnectFails(c) \/ HandshakeFails(c)
  \/ \E caller \in Node, req \in Sent : Authorize(c, caller, req) \/ Deny(c, caller, req)
  \/ ReplyAndRegister(c) \/ ReplyFails(c)
  \/ RecheckAndSpawn(c) \/ RecheckFails(c)
  \/ CopyStep(c) \/ ServeCompletes(c) \/ ServeAborts(c)
  \/ SendRejection(c) \/ SendRejectionFails(c)
  \/ LingerEnds(c)

DaemonStep ==
  /\ \/ PorcelainEdit \/ OtherFileChanges
     \/ LoadInitial \/ SpawnWatcher \/ GoOnline
     \/ WatcherStep \/ ReloadFails
  /\ UNCHANGED packvars

Next ==
  \/ DaemonStep
  \/ \E c \in Conn : Accept(c) \/ Refuse(c) \/ TaskStepOf(c) \/ GitExits(c)
  \/ StopAll

Spec == Init /\ [][Next]_vars

-----------------------------------------------------------------------------
(* Fairness: the watcher task runs.  A copy that reads or writes a closed  *)
(* stream gets the error, once it has read what had arrived before the     *)
(* close, which is only so much: strong fairness, since in between it may  *)
(* wait for git.  A task whose git has ended goes on to its end.  Nothing  *)
(* is assumed of peers, owner or git.                                      *)

AtStream(c) == waits[c] \cap {"recv", "send"} # {}

\* What is left to do once git has ended.
WindUp(c) ==
  /\ c \notin git
  /\ ServeCompletes(c) \/ ("stdin" \in waits[c] /\ ServeAborts(c))

Fairness ==
  /\ WF_vars(WatcherStep /\ UNCHANGED packvars)
  /\ \A c \in Conn :
       /\ SF_vars(c \in closed /\ AtStream(c) /\ ServeAborts(c))
       /\ WF_vars(WindUp(c))

FairSpec == Spec /\ Fairness

-----------------------------------------------------------------------------
(* Properties *)

\* Connection c is being served: git output may reach its peer.
Live(c) == pc[c] = "serving" /\ c \notin closed

Allowed(c) == still_authorized(grants, asked[c])

\* No session escapes a revoke: whenever the watcher task rests, every live
\* session is one the published grants authorize, whichever way the reload fell
\* between its authorization, its registration and its recheck (lib.rs, handle:
\* "Close the reload-between-authorize-and-register race").
NoEscape == watcher.pc = "idle" => \A c \in Conn : Live(c) => Allowed(c)

\* No change to grants.toml is missed: a serving daemon with no event left to
\* receive has published the file's content, even if the file changed between
\* the first load and the start of the watcher (lib.rs, run); and a reload that
\* failed is made up for by the next event.
UpToDate ==
  daemon = "serving" /\ events = 0 /\ watcher.pc = "idle" /\ ~watcher.failed => grants = file

\* A reload ends no session that it still allows, although its victims are picked
\* under the sessions mutex and closed after it is released (lib.rs,
\* close_revoked_sessions: `still_authorized` is the only way into the list).
OnlyForbiddenClosed ==
  [][\A c \in closed' \ closed : Live(c) => ~Allowed(c)]_vars

\* Git always runs in the repository the ticket was made for: the path resolved
\* before the recheck is still the right one after it, even if repositories were
\* unshared and shared again in between (lib.rs, handle: `path` and `req`).
ServesTicketRepo ==
  \A c \in Conn : pc[c] = "serving" => path[c] = drawn[asked[c].req.repo_id]

Holders == {c \in Conn : pc[c] \in HoldsPermit}

\* Every permit is either free or owned by exactly one task that is before the
\* linger, on every exit of `handle`: none leaks and none is released twice.
PermitAccounting ==
  permits + Cardinality(Holders) = MaxConnections

\* The registry a sweep goes through holds exactly the sessions between their
\* registration and the end of `handle`, with the request they were authorized
\* for (SessionGuard).
RegistryExact ==
  \A c \in Conn :
    sessions[c] = IF pc[c] \in {"registered", "serving"} THEN asked[c] ELSE NoSession

\* "On the Ok path `permit` is held until here, bounding concurrent git serves":
\* no more git processes than the connection limit.
GitWithinPermits == Cardinality(git) <= MaxConnections

-----------------------------------------------------------------------------
(* The inductive invariant behind the safety properties.                   *)

\* The steps of a task between its authorization and its return.
Admitted == {"replying", "registered", "serving"}

\* A task has a caller, a request and a path exactly while it is authorized.
AskedExact ==
  \A c \in Conn : asked[c] \in PackSession <=> pc[c] \in Admitted

\* Every id in every copy of the table stands at the path it was drawn for.
CopiesAtHome ==
  IdsAtHome(file, drawn) /\ IdsAtHome(grants, drawn) /\ IdsAtHome(watcher.reloaded, drawn)

PathsAtHome ==
  \A c \in Conn : pc[c] \in Admitted => path[c] = drawn[asked[c].req.repo_id] /\ path[c] \in Path

\* A live session the published grants do not authorize is one the watcher has
\* still to sweep, or has swept and has still to close.
Unrevoked ==
  \A c \in Conn : Live(c) =>
    \/ Allowed(c)
    \/ watcher.pc \in {"status", "sweep"}
    \/ watcher.pc = "close" /\ c \in watcher.revoked

\* With no event left, the watcher task has the file or has published it.
Informed ==
  daemon = "serving" /\ events = 0 /\ ~watcher.failed =>
    (IF watcher.pc = "publish" THEN watcher.reloaded ELSE grants) = file

\* There are no tasks before the accept loop, and the watcher task rests after a
\* failed reload.
Quiet ==
  /\ daemon # "serving" => \A c \in Conn : pc[c] \in {"none", "done"}
  /\ ~Watching \/ watcher.failed => watcher.pc = "idle"

IInv ==
  /\ TypeOK /\ Quiet /\ PermitAccounting
  /\ AskedExact /\ RegistryExact /\ Unrevoked
  /\ CopiesAtHome /\ PathsAtHome
  /\ Informed

-----------------------------------------------------------------------------
(* Liveness and refinement.                                                *)

\* The serve of c can only be moved by its git, which runs: it neither reads nor
\* writes the stream.
HeldByGit(c) == c \in git /\ ~AtStream(c)

\* A session that grants.toml no longer authorizes is closed and its task ends,
\* unless the file authorizes it again, the reload fails, or git from some time on
\* keeps the task to itself (lib.rs, close_revoked_sessions: "Closing tears down
\* the connection, ending the serve task", which is more than serve_git does: it
\* looks at the stream only between what it gets from git).
RevokedSessionEnds ==
  \A c \in Conn :
    (pc[c] = "serving" /\ ~still_authorized(file, asked[c]))
      ~> \/ pc[c] # "serving" \/ still_authorized(file, asked[c]) \/ watcher.failed
         \/ c \in closed /\ []HeldByGit(c)

\* The daemon implements AccessControl: a published table is enforced before
\* the next is published, and only sessions it authorizes start.
AC == INSTANCE AccessControl WITH
  Authorized <- still_authorized,
  policy     <- grants,
  enforcing  <- watcher.pc \in {"status", "sweep", "close"},
  live       <- [c \in Conn |-> IF Live(c) THEN asked[c] ELSE NoSession]

ImplementsAccessControl == AC!Spec
=============================================================================
