------------------------------ MODULE Watcher ------------------------------
(***************************************************************************)
(* The daemon's copy of the grants and the task that keeps it up to date:  *)
(* `run` loads grants.toml and starts watching its directory, and on every *)
(* event the watcher task reloads the file, publishes the new table and    *)
(* closes the live sessions it no longer authorizes                        *)
(* (iroh-git-daemon/src/lib.rs: run, spawn_grants_watcher,                 *)
(* close_revoked_sessions).  The actions of the connections, which         *)
(* register sessions and read `grants`, are in PackServer.tla.             *)
(***************************************************************************)
EXTENDS GrantsStore

CONSTANTS
  Conn,         \* connections; each is also the id its session registers under
  NoSession,    \* no session is registered
  MaxEvents     \* bound: file-system events delivered and not yet received

\* What a registered session is re-authorized by (Reauth, ActiveSession).
PackSession == [kind : {"pack"}, caller : Node, req : Request]
LfsSession  == [kind : {"lfs"}, caller : Node, repo_id : RepoId]
Session == PackSession \cup LfsSession

ASSUME WatcherAssumption ==
  /\ NoSession \notin Session
  /\ MaxEvents \in Nat

VARIABLES
  daemon,    \* how far `run` has come
  events,    \* the channel between the notify callback and the watcher task
  grants,    \* the published table, behind a mutex
  watcher,   \* the watcher task: its pc, the table it loaded, the sessions it
             \* still has to close and, as a history, whether its last load failed
  sessions,  \* the registry of live sessions
  closed     \* connections the watcher has closed with CLOSE_REVOKED

watchervars == <<daemon, events, grants, watcher, sessions, closed>>

WatcherIdle == [pc |-> "idle", reloaded |-> EmptyGrants, revoked |-> {}, failed |-> FALSE]

WatcherTypeOK ==
  /\ StoreTypeOK
  /\ daemon \in {"down", "loaded", "watching", "serving"}
  /\ events \in 0 .. MaxEvents
  /\ grants \in GrantTable
  /\ watcher \in [pc : {"idle", "publish", "status", "sweep", "close"},
                  reloaded : GrantTable, revoked : SUBSET Conn, failed : BOOLEAN]
  /\ sessions \in [Conn -> Session \cup {NoSession}]
  /\ closed \subseteq Conn

NoSessions == [c \in Conn |-> NoSession]

WatcherInit ==
  /\ StoreInit
  /\ daemon = "down"
  /\ events = 0
  /\ grants = EmptyGrants
  /\ watcher = WatcherIdle
  /\ sessions = NoSessions
  /\ closed = {}

\* The watcher task holds the grants mutex while it closes sessions.
GrantsUnlocked == watcher.pc # "close"

still_authorized(g, s) ==
  IF s.kind = "pack" THEN authorize(g, s.req, s.caller)
                     ELSE lfs_session_authorized(g, s.repo_id, s.caller)

-----------------------------------------------------------------------------
(* The file system.                                                        *)

Watching == daemon \in {"watching", "serving"}

\* A change in the config directory: the callback sends one more () if the
\* directory is watched.
Notify ==
  IF Watching THEN events < MaxEvents /\ events' = events + 1 ELSE UNCHANGED events

\* A porcelain command saves the table.
PorcelainEdit ==
  /\ \E cmd \in Command : Edit(cmd)
  /\ Notify
  /\ UNCHANGED <<daemon, grants, watcher, sessions, closed>>

\* Some other file of the directory changes: a temp file, a key.
OtherFileChanges ==
  /\ Watching
  /\ Notify
  /\ UNCHANGED <<storevars, daemon, grants, watcher, sessions, closed>>

-----------------------------------------------------------------------------
(* `run`, up to the accept loop.                                           *)

LoadInitial ==
  /\ daemon = "down"
  /\ daemon' = "loaded"
  /\ grants' = file
  /\ UNCHANGED <<storevars, events, watcher, sessions, closed>>

SpawnWatcher ==
  /\ daemon = "loaded"
  /\ daemon' = "watching"
  /\ UNCHANGED <<storevars, events, grants, watcher, sessions, closed>>

\* Mutant of GoOnline: the relay hint is not written to the watched directory.
GoOnlineQuietly ==
  /\ daemon = "watching"
  /\ daemon' = "serving"
  /\ UNCHANGED <<storevars, events, grants, watcher, sessions, closed>>

\* The endpoint reaches a relay and write_relay_hint records it, in the
\* directory that is being watched.
GoOnline ==
  /\ daemon = "watching"
  /\ daemon' = "serving"
  /\ Notify
  /\ UNCHANGED <<storevars, grants, watcher, sessions, closed>>

-----------------------------------------------------------------------------
(* The watcher task.                                                       *)

Receive == Watching /\ watcher.pc = "idle" /\ events > 0 /\ events' = events - 1

Reload ==
  /\ Receive
  /\ watcher' = [WatcherIdle EXCEPT !.pc = "publish", !.reloaded = file]
  /\ UNCHANGED <<storevars, daemon, grants, sessions, closed>>

\* The error is logged and the previous table stays published; nothing is tried
\* again before the next event.
ReloadFails ==
  /\ Receive
  /\ watcher' = [watcher EXCEPT !.failed = TRUE]
  /\ UNCHANGED <<storevars, daemon, grants, sessions, closed>>

Publish ==
  /\ watcher.pc = "publish"
  /\ grants' = watcher.reloaded
  /\ watcher' = [WatcherIdle EXCEPT !.pc = "status"]
  /\ UNCHANGED <<storevars, daemon, events, sessions, closed>>

\* Mutant of UpdateStatus: a status that cannot be updated ends the round early.
UpdateStatusOrReturn ==
  /\ watcher.pc = "status"
  /\ watcher' = WatcherIdle
  /\ UNCHANGED <<storevars, daemon, events, grants, sessions, closed>>

\* The number of repositories, for the tray; a step of its own because it
\* waits for the status mutex.
UpdateStatus ==
  /\ watcher.pc = "status"
  /\ watcher' = [watcher EXCEPT !.pc = "sweep"]
  /\ UNCHANGED <<storevars, daemon, events, grants, sessions, closed>>

\* Mutant of Sweep: a reload ends every session, and clients are left to dial again.
SweepAll ==
  /\ watcher.pc = "sweep"
  /\ watcher' = [WatcherIdle EXCEPT !.pc = "close", !.revoked = {c \in Conn : sessions[c] # NoSession}]
  /\ UNCHANGED <<storevars, daemon, events, grants, sessions, closed>>

\* close_revoked_sessions picks its victims under the sessions mutex ...
Sweep ==
  /\ watcher.pc = "sweep"
  /\ watcher' = [WatcherIdle EXCEPT
       !.pc = "close",
       !.revoked = {c \in Conn : sessions[c] # NoSession /\ ~still_authorized(grants, sessions[c])}]
  /\ UNCHANGED <<storevars, daemon, events, grants, sessions, closed>>

\* ... and closes them after releasing it.
CloseRevoked ==
  /\ watcher.pc = "close"
  /\ \E c \in watcher.revoked :
       /\ closed' = closed \cup {c}
       /\ watcher' = [watcher EXCEPT !.revoked = @ \ {c}]
  /\ UNCHANGED <<storevars, daemon, events, grants, sessions>>

SweepDone ==
  /\ watcher.pc = "close"
  /\ watcher.revoked = {}
  /\ watcher' = WatcherIdle
  /\ UNCHANGED <<storevars, daemon, events, grants, sessions, closed>>

WatcherStep == Reload \/ Publish \/ UpdateStatus \/ Sweep \/ CloseRevoked \/ SweepDone

\* The daemon stops: it is quit or killed, or `run` returns an error.  Its
\* tables and tasks go with the process.
Stop ==
  /\ daemon # "down"
  /\ daemon' = "down"
  /\ events' = 0
  /\ grants' = EmptyGrants
  /\ watcher' = WatcherIdle
  /\ sessions' = NoSessions
  /\ UNCHANGED <<storevars, closed>>
=============================================================================
