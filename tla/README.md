# iroh-git: a verification project

iroh-git shares git repositories between friends over iroh (QUIC): the owner
grants a friend's key access with `git iroh grant`, a daemon serves clone, fetch,
push and LFS transfers to whoever the grants file authorizes, and the friend's
git reaches it through the `git-remote-iroh` helper.  This directory holds TLA+
models of it, TLC runs, and TLAPS proofs.  All paths below are under
`src/crates/`.

## The system

| component | state | operations | talks to |
|---|---|---|---|
| grants table (`iroh-git/src/config.rs`) | repositories, their members and rights | find_or_create_repo, grant_member, revoke_*; authorize, lfs_session_authorized (`iroh-git-daemon/src/lib.rs`) | edited by the porcelain, read by the daemon |
| porcelain (`iroh-git/src/share.rs`, `git-iroh`, the tray's menu) | one process per command, its copy of the table, a temp file | grant, revoke_at, revoke_everywhere, set_repo_lfs, unshare, unshare_by_id, unshare_all | `grants.toml` by load, write temp, rename; no lock |
| grants watcher (`iroh-git-daemon/src/lib.rs`) | event channel, published table, status, session registry | run (start-up), reload, publish, status, sweep, close | file system, connection tasks |
| pack server (same file) | a task per connection, the limiter, git processes | accept, handshake, authorize, reply, register, recheck, spawn, copy, reject, linger | peers, git, the watcher's registry and table |
| LFS server (same file, `iroh-git/src/lfs.rs`) | a task per connection, one per object, a stream semaphore | accept stream, pin, register, authorize per object, idle timeout | the watcher, the object store |
| LFS object store (`iroh-git/src/lfs.rs`) | `.git/lfs/objects`, staging files | serve upload and download, stage, verify, rename | LFS server, LFS client |
| identity (`iroh-git/src/identity.rs`) | two key files | load_or_create, generate, exists | every program |
| LFS client (`git-lfs-iroh`, `git iroh lfs-pull/lfs-push`) | a cached session, a bounded fan-out | download, upload, lfs_pull, lfs_push | LFS server |
| remote helper (`git-remote-iroh`) | a connection, a two-way relay | connect, relay | pack server, git |
| hook guard (`git-iroh/src/lfs_hook.rs`) | the pre-push hook | classify, guard | git-lfs |
| tray (`iroh-git-tray/src/app.rs`) | window, menu actions, dialogs, the shared status | window procedure, menu, dialogs | porcelain functions, the daemon's status |

What is hard in it: commands that edit one file at once and may die at any step;
a reload that races connections being authorized, registered and served;
permits, registry entries and child processes that must be given back on every
exit; start-up between the first load and the first event; long sequences of
sharing and unsharing while old tickets are about.  `PROJECT.json` lists every
hazard with its line and the properties that cover it.

What makes each component correct:

- the table: no repo id ever names two repositories, and a grant only adds;
- the porcelain: a reader finds whole tables and each command is an atomic edit;
- the watcher: no change is missed, and what it publishes is enforced;
- the pack server: it serves only what the published table authorizes, in the
  repository of the ticket, and gives back every permit and registry entry;
- the LFS server: the same for every object, although only the connection is
  registered, and an idle client does not keep a slot;
- the object store: it only ever gains whole objects, and reports are true;
- the remote helper: success means that everything was handed over, and every
  session ends at both ends;
- the identity: a key that is in use stays;
- the LFS client: success means complete, no transfer outlives its session, every
  request of git-lfs is answered and no object it was told of is lost;
- the hook guard: the hook is whole and executable whoever is interrupted;
- the tray: its window and the daemon's watcher always get at the status.

## The modules

- `Grants` — the table as a function from paths to entries, the rights of a
  member as a set, one operator per edit (named as in `share.rs` and
  `config.rs`), and the authorization the daemon performs.  Pure; no state.
- `GrantsStore` — the abstract file: it changes by whole edits.  `drawn` is a
  history variable: the path each repo id was drawn for (`RepoId::random` is a
  choice among ids never drawn, which is what 128 random bits stand for).
- `Porcelain` — the concrete commands.  Each process loads, writes its temp file
  in two steps (truncate, fill), renames, and builds a ticket; each of these may
  fail and the process may die between any two.
- `Watcher` (EXTENDS `GrantsStore`) — `run` up to the accept loop, the events,
  and the watcher task: `Reload`, `Publish`, `UpdateStatus`, `Sweep`,
  `CloseRevoked`, `SweepDone` are the lines of the loop in
  `spawn_grants_watcher`.  The grants mutex is held from the choice of the
  victims to the last close, which is `GrantsUnlocked`.
- `PackServer` (EXTENDS `Watcher`) — the accept loop, the limiter and one task
  per connection; `pc` is the place in `handle`.  A task step is what happens
  between two awaits.  `Return` is what leaving `handle` drops: the guard and the
  permit.  `waits` is what the two copies of `serve_git` wait for besides git's
  output: the stream's next bytes (`recv`), room in git's input (`stdin`) or in the
  stream (`send`).  Only a copy at the stream notices that the connection is closed;
  what it copies is left out.  A connection is not reused, as a session id is not.
- `AccessControl` — the abstract access policy: sessions start only if the
  policy in force authorizes them, and a policy is enforced (no session it
  forbids is live) before the next comes into force.  `PackServer` implements it
  with `policy <- grants`, `enforcing` true from publication to the end of the
  sweep, and `live` the connections that are served and not closed.  `LfsServer`
  implements it too, with a session per object in transfer: the registry knows
  one session per connection, and the abstraction shows that this is enough.
- `LfsServer` (EXTENDS `Watcher`) — `handle_lfs` (`loop`, `pinned`, `timer`) and
  one `serve_lfs_request` task per object (`step`, `asked`).  The stream
  semaphore is the number of running tasks of the connection.  The idle timer is
  counted in ticks.  `Return` deregisters and drops the permit; the spawned tasks
  go on, as in the code.  What a transfer does is left to the next module.
- `LfsTransfer` — both ends of an upload or a download and the staging file in
  between: `Create`, `ReadToEnd`, `...Verified`/`...Forged`, `Place`, with the
  transfer timeout at each await and kills of either process.  A stream cut short
  ends like a whole one and only the verification tells them apart.
- `ObjectExchange` — the abstract promise of LFS: an object comes to one end only
  from the other, where it is whole, and stays there; a job reported done is done.
  `held` is what each end has a file for, `whole` the files that are the object they
  are named for.  `LfsTransfer` implements it stream by stream and `LfsClient`
  command by command, so a step of the one stands for a run of the other.
- `PackRelay` — one git session from git to git: the friend's git, the helper,
  the two directions of the stream, the daemon's task and its git.  A closed
  connection loses what had not arrived.  `faulted` is a history variable: some
  party other than the relay failed.
- `Identity` — `load_or_create`, `keygen` and `keygen --force` on one key file,
  step by step.  `settled` is a history variable: the key found by the first of
  the programs now running.
- `LfsClient` — `lfs-pull`, `lfs-push` and `fan_out` (`pc`, one `task` per object)
  and the transfer agent (`agent`, `asked`, `reported`), on the one object store of
  a clone.  A transfer is a step here, with the outcomes that `ObjectExchange` leaves
  and `LfsTransfer` is shown to have; a file in a store is taken to be its object
  (`LfsTransfer` has the damaged ones).  git-lfs is modelled as the agent uses it: one message at a time, and it
  moves the file it is told of before it sends the next.
- `HookGuard` — several `guard-lfs-hook` commands on one pre-push hook.  Names and
  files are kept apart, since a process goes on writing the file it has open after
  the name has been renamed away (the Unix build; file permissions as there).
- `Tray` (EXTENDS `Watcher`) — the UI thread as a queue of posted messages and a
  stack of open menus, boxes and dialogs (`loops`), each of which dispatches
  messages; the table of menu actions; and the daemon's thread, whose watcher is
  `Watcher`'s.  `holds` marks what is open with the status mutex locked.
- `MC*` — the instances for TLC.  `*_proofs` — the proofs.

Operators whose comment starts with "Mutant of" are deliberate bugs, used by
nothing else: each shows that a property can fail.

## The runs

| run | question | bounds | result |
|---|---|---|---|
| porcelain | is the file ever torn, does an id move? is a command that meets no other an atomic edit of its own subject only, and a grant additive? is every ticket shut out once a revoke has saved? | 2 processes, 2 paths, 1 node, 2 ids, every kind of command, failing or dying anywhere | holds |
| porcelain_lost_update | does a grant lower rights when two run at once? | 2 processes, 2 grants | violated: the later save undoes the earlier |
| pack | does a session escape a revoke? are registry and permits exact? is a change missed? does git run in the wrong repository? does a reload close a session it does not forbid? is `AccessControl` implemented? does a revoked session end, unless git holds its task? | 2 connections, 1 permit, 2 repositories, 2 ids, 1 event, reloads fail, the daemon restarts; fairness | holds |
| pack_orphans | are git processes bounded by the permits? | 2 connections, 1 permit | violated: git outlives the permit |
| lfs | does an object escape a revoke? does the registry cover every object? does a reload close only what it forbids? are slots and stream permits given back? is `AccessControl` implemented? | 2 connections, 1 slot, 2 objects on one of them behind 1 stream permit, 2 repositories, LFS switched off and on, 1 event; fairness | holds |
| transfer | do stores gain only whole objects, are reports true, is `ObjectExchange` implemented, does every transfer end without the timeout? | 2 transfers of 1 object, kills and timeouts, fairness | holds |
| lfs_client | is success complete? does a transfer outlive its session? is an object lost between two agents? is `ObjectExchange` implemented? does every command end, is every request answered? | a pull or push of 2 objects, 1 at a time, beside 2 agents on one of them; lost sessions and kills; fairness | holds |
| relay | is success complete, do faultless fetches succeed, do faultless pushes take effect, does every session end? | a fetch with either way for git to end, and a push; fairness | holds |
| relay_report | does a faultless push get its report? | a push | violated: the connection is dropped behind the last bytes |
| identity | is a key that was there replaced? | 3 programs, 3 keys | holds |
| hook | is the hook whole once every command has ended? | 2 commands | violated: they share one staging file |
| tray | can the status always be read? | 1 repository, 2 nested boxes, 1 posted message, 1 event; fairness | violated: a box holds the mutex its own messages need |

The bounds suffice because each race involves one session (or two commands) and
one reload: one connection in the window and another beside it, one change that
forbids it and one that allows it again.  `MaxEvents` bounds the unbounded
channel: with one there is a change behind the reload that is being worked on.
What the bound leaves out of the runs is two changes before the same reload, which
are one change to it and leave a reload behind that finds nothing new; the proofs
are for any bound.  Two objects are
one that pins the connection and one that follows, and with one stream permit
(`MaxStreams`) the loop waits with the second in hand until the first is through;
`MaxObjects` bounds the streams a client opens, per connection.  Objects in transfer
at the same time on one connection are covered by the proofs, which hold for any
`MaxStreams`.  `Sent` bounds what clients ask for: a push with the ticket there is at
first and a fetch with one of a later share, a download and an upload of different
repositories.  `IdleTimeout` is one tick: what matters is that
the timer can fire before and after any other step.  Two transfers of one object
are what can meet in a store.  Two messages in each direction of a relay
(`Count`) are the advertisement and the answer, the request and the flush behind
it.  A fan-out of two objects with one permit has one that waits for the permit of
the other, whichever way that ends; two agents are what can meet in the staging
directory.  `MaxNested` and `MaxPosted` bound what a user opens and clicks.
Processes and ids are symmetric in the run that says so, which has no liveness
property.  Deadlock is not checked: a daemon with all its connections done and nothing
to reload rests, and so does a shell that runs no command.

Fairness is assumed of the program's own parties only:

- the watcher task keeps running (weak; tokio schedules a ready task, and it
  waits for nothing but mutexes that are held for a moment, but for the status
  mutex under the tray, which is the run `tray`);
- a copy of `serve_git` that reads or writes a closed stream gets the error once
  what had arrived before the close is used up.  It may go back and forth between
  the stream and git until then, hence strong fairness.  A copy that waits for git
  gets nothing: git owes nothing, and `RevokedSessionEnds` exempts a session whose
  git holds the task for good (`HeldByGit`).  A task whose git has ended goes on to
  its end (`WindUp`);
- the LFS loop runs, time passes (`Tick`) and a transfer ends, by its timeout at
  the latest (`ObjectEnds`).  A refusal has no timeout: that it is written is only
  assumed once the connection is gone, which makes the write fail
  (`RejectionWritten`, `ObjectEnds` of a refused object).  An object task gets the grants mutex in the end:
  that is strong fairness, for sweeps take and release it again and again (it is a
  mutex of the standard library, held for a moment at a time: a thread that waits
  for it is woken, and gets it unless another comes in between every time);
- in a transfer both ends run (the timeout, which would cut any wait, is left
  without fairness, so that `EveryTransferEnds` does not rest on it), and in a relay each process and task does;
- in `LfsClient` every command, task and agent runs, a dial returns and a
  transfer ends one way or the other, which is `EveryTransferEnds` of
  `LfsTransfer`; nothing is assumed of git-lfs, the user or the connection;
- in `Tray` both threads run and the user closes what is open, which is the
  most favourable case for the property it violates.

Clients, peers, owner and the choice of what fails owe nothing.  A reload that
fails is not retried (`iroh-git-daemon/src/lib.rs:279`), so a revoke may wait for
the next event: `UpToDate` and `RevokedSessionEnds` exempt the time from a failed
reload to the next load (`watcher.failed`, a history), and show that the next
load makes good for it.

### What the violated runs show

`porcelain_lost_update`: every command loads the table, edits its copy and saves
the whole of it, with no lock.  A read-only grant that started before a
read-write grant and saves after it takes the write access away, which
`share.rs` and `config.rs` say a grant never does.  The same interleaving loses a
revoke: `RevokeShutsOut` says that the save of a revoke shuts everyone out that it
names, whatever tickets are about, and nothing forbids a later save of an older
copy from letting them in again.

`pack_orphans`: when a copy fails `try_join!` returns at once, the child is
dropped but not killed, and the permit is released while git still runs;
`handle` says the permit bounds concurrent git serves.

`relay_report`: `handle` returns, and drops the connection, right after the last
`finish`; the rejection path lingers for the client, the successful one does
not.  The report of a push that has taken effect can be lost
(`FaultlessPushesTakeEffect` shows that the push itself is never lost by the relay).  (A fetch is safe:
its task waits for the end of git's input, which comes after the answer was
read: `FaultlessFetchesSucceed`.)

`hook`: every `guard-lfs-hook` stages its hook in the same
`pre-push.iroh-guard.tmp`.  A second one truncates the file that the first is about
to rename into place; if it is then interrupted, the hook is what it had written
so far, which `write_guarded` says cannot be.

`tray`: the guard of the status mutex in the scrutinee of `copy_my_id`'s match lives
until the match ends, and the match opens a message box.  The box dispatches
messages: a click on the icon runs `show_menu`, which locks the same mutex on the
same thread.  The watcher then waits at its status update, between publishing a
table and sweeping the sessions it forbids, until the process is killed; even
without the click it waits for as long as the box is open.

### Other disagreements met while modelling

They have no run of their own; the models contain the behaviour.

- Closing a revoked connection is said to end the serve task
  (`iroh-git-daemon/src/lib.rs:136`).  `serve_git` looks at the stream only while it
  reads or writes it: on a push whose pack has been read, or while git takes no input,
  the task waits for git's input, output or end (509, 515, 521), and keeps the session
  registered and its permit until git writes or ends.  What git then writes goes
  nowhere, so no access escapes (`NoEscape`); `RevokedSessionEnds` exempts this
  wait (`HeldByGit`) and no other.
- The idle timer runs from the last accepted stream (`iroh-git-daemon/src/lib.rs:557`),
  the comment at 54 says a connection is reclaimed after that long with no
  transfer in flight: a transfer that ends just before the timer fires is
  followed by no grace.
- Refusals are written without a timeout (581, in the loop; 634, in the task of the
  object, which holds a stream permit), so the idle timeout of the comment at 54
  does not reclaim the slot of a client that does not take one.  `SlotReclaimed`
  exempts this case (`ReplyHeldUp`) and no other.
- The transfer tasks are detached (595): a client that opens objects and leaves
  gives its slot back while its transfers go on, so the number of concurrent
  transfers is not bounded by slots times streams.  Those of one connection stay
  within its stream permits, also after it has gone (`PermitAccounting`).
- The transfer timeout may meet `File::create` (`iroh-git/src/lfs.rs:345`): the
  guard that removes the staging file (304, made at 344) is dropped with the future
  and finds nothing to remove, the create comes after it, and the file stays.  `OrphansExplained` allows this case and a kill, and no other.
- `set_repo_lfs` says that enabling "registers the repository if it isn't shared
  yet" (`iroh-git/src/share.rs:197`); the code, and the comment at 203, do not.
  `Grants` has what the code does.
- Two programs that start before there is a key may each mint one
  (`iroh-git/src/identity.rs:51`), and the later write wins; a ticket built from
  the earlier key names a daemon that no longer exists.  `SettledKeyStays` is
  stated for a key that was there before they started.

## The proofs

`Grants_proofs` proves that every command turns a grants table into a grants
table, entry by entry (`EditedType`): an entry keeps its id, is unshared, or gets
the id the grant drew.  `EditTouches` says which rights a command leaves alone
(those it does not concern), `EditEnds` that a revoke leaves none of the rights it
names, and `HomeIsUnique` that a table with unique ids has one path for each.

`Porcelain_proofs`: `NoTornFile` and `TicketsKeepTheirRepo` for any set of
processes, paths, nodes and ids.  The first is not inductive alone: it needs that
a process about to rename has its own whole table in its temp file (`TmpWhole`,
which is why the pid in the name matters).  The second needs that every id of a
table about to be saved is at home or was drawn by this very command
(`PendingAtHome`) and by no other (`DrawsApart`).  `OneAtATimeIsAtomic` and
`LoneGrantNeverLowers` are proved from the same invariant: a command that has met
no other since its load (`overlapped`, a history) still has the file in hand
(`Solo`), so that its rename is one edit of it.  `LoneCommandKeepsToItsSubject`
follows from `Solo` and `EditTouches`: nobody but the member and the repository that
the command names gains or loses a right.  `RevokeShutsOut` needs no such
condition: whatever else runs, the table that a revoke is about to save has ended
the rights it names (`RevokesPending`, by `EditEnds`), and a ticket leads to no other
repository of that table, because its ids are at home.

`PackServer_proofs`: `TypeOK`, `NoEscape`, `UpToDate`, `ServesTicketRepo`,
`PermitAccounting`, `RegistryExact` and the refinement of `AccessControl`, for
any number of connections, permits, events, repositories and nodes.  The
inductive invariant `IInv` strengthens `NoEscape` to `Unrevoked` (a live session
the published table forbids is still to be swept, or picked and still to be
closed), which needs the registry to be exact; `UpToDate` to `Informed` (with no
event left the watcher task has the file in hand or has published it);
`ServesTicketRepo` to `PathsAtHome` over the ids of all three copies of the table
(`CopiesAtHome`); and `PermitAccounting` bounds `permits` for `TypeOK`.
`OnlyForbiddenClosed`, an action property, needs that the victims of a sweep stay
forbidden from their choice to the last close (`Victims`): the published table
changes only through the task that is sweeping, and the task holds the grants mutex.

`LfsServer_proofs`: `TypeOK`, `NoEscape`, `RegistryCoversObjects`,
`PermitAccounting` and the refinement of `AccessControl`, for any limits,
connections and objects.  The invariant says what a connection that has been
pinned has registered (`PinRegistered`), that objects are opened in order and the
task of each that was started is known (`InOrder`, `NoneLeftBehind`), and, as for
the pack server, that a live object the published table forbids is still to be
reached by the sweep (`Unrevoked`), which sees the connection and not the object:
the step from one to the other is `RegistryCoversObjects`.  `OnlyForbiddenClosed` is
proved from `Victims` as for the pack server.

`LfsClient_proofs`: `TypeOK`, `Complete`, `FanOutContained` and `ReportedIsThere`,
for any number of commands, agents and objects and any limit.  The invariant adds
where the tasks of a command may be at each of its steps (`TasksInPlace`) and what a
task that went well has delivered (`TransfersDeliver`); stores only grow, which
keeps one command's part through another's steps.  An object that is reported is
staged or stored, and a move takes it from one to the other.  `Implements` maps
every step to a step of `ObjectExchange` or a stutter: a job is a task of a command
(an object that a pull finds in the store gets none, one that the daemon had already
counts as delivered, being there), and a kill forgets all the jobs of its command at
once.

`LfsTransfer_proofs`: `OnlyWholeObjects`, `OutcomesTrue` and `OrphansExplained`,
for any transfers and objects.  The invariant says, transfer by transfer, that
one that has not asked has no state (`Started`), who stages is on the receiving
side (`Roles`), a body is verified and answered only after it has ended
(`BodyInTime`), a reply under way is backed by the daemon's store (`Replies`),
and what is about to be renamed was verified (`Placed`).  The stores only grow,
which is what keeps one transfer's part through another's steps.  `Implements`
(the refinement of `ObjectExchange`) needs one conjunct more: a body under way that
is not damaged comes from a whole object at its source (`Sourced`), so that what
`Place` renames has been brought from the other end.

`PackRelay_proofs`: `SuccessIsComplete` for any kinds of session.  Each direction
hands on in order and finishes behind its last message (`InOrder`, a part of
`TypeOK`), and a pipe is closed only by a source that has ended (`Closed`).
`FaultlessFetchesSucceed` needs more: that the daemon's git answers only what it was
asked and ends by itself only then (`Asked`), and that in a fetch nothing is closed,
neither the input nor the connection, before the answer has been handed over
(`Fetched`).  `FaultlessPushesTakeEffect` is weaker than success:
while nobody but the relay has failed, neither end gives up and neither the input
nor the connection is closed before the daemon's git has written its answer
(`Effected`), which it does only to what it was asked.

`Identity_proofs`: `SettledKeyStays` for any number of programs and keys.  While
the key is settled no program is in the steps that write (`NobodyWrites`), and
who is about to write has a key to write (`WritersHaveKeys`).

Assumptions: those of the constants (`GrantsAssumption`,
`InitialGrantsAssumption`, `WatcherAssumption`, `PackServerAssumption`,
`PorcelainAssumption`, `LfsServerAssumption`, and the `...Assumption` of
`LfsClient`, `LfsTransfer`, `PackRelay` and `Identity`), which say that the special values are not ordinary ones, the bounds
are naturals, the set of connections is finite, and the file found at the start
has no id twice.

Every invariant and action property of the passing runs is proved.  `TypeOK` of
`Porcelain`, `LfsClient` and `Identity` is proved and no run repeats it.  Only
model-checked is liveness (`RevokedSessionEnds`, `SlotReclaimed`,
`EveryTransferEnds`, `CommandEnds`, `RequestAnswered`, `SessionEnds`), which is out
of the prover's reach.

## Not modelled, and what is left

- Of the tray: the Explorer, ticket, startup and config-folder items, the icon,
  and a daemon thread that ends with an error while the window goes on (the menu
  then says "starting" or what it last knew).  Which of two nested menus Windows
  shows is not in this repository; `Tray` takes one at a time, and the chance that
  an index into `MENU_ACTIONS` outlives the table is listed as a hazard without a
  property.
- Of the LFS clients: `lfs-setup`, which writes three settings of git; the listing
  of the objects the refs reference, which is git-lfs's.
- When a peer grants the credit a reply waits for, which is a matter of QUIC's flow
  control: a reply without a timeout (`iroh-git-daemon/src/lib.rs:331`, `350`, `581`,
  `634`) may be written at any time or never.

What could still be proved about: `HookGuard` with a staging name of its own for
each process, which is not what the code does; and `Tray` with the guard of the
status mutex dropped before the box, likewise.

Left out for good: TOML, base32 and postcard encodings and the framing (pure
conversions with unit tests), path canonicalization, wording, the Windows
drawing and icons, build scripts, file permissions and the zeroization of keys.
A write is taken to complete or fail: what a power loss leaves of a file that was
renamed without being synced is not modelled.  iroh, tokio, notify and git are
modelled only by what the code relies on: a closed connection fails its streams
and loses what had not arrived, an event follows a change of a watched directory,
a rename is atomic, a git process ends when it likes.
