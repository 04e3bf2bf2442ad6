----------------------------- MODULE Porcelain -----------------------------
(***************************************************************************)
(* The commands that edit grants.toml: `git iroh grant`, `revoke`, `stop`, *)
(* `lfs-enable`, `lfs-disable` and the menu of the tray (share.rs).  Each  *)
(* is a process of its own that loads the whole table, edits its copy and  *)
(* saves it: write a temp file, rename it over grants.toml (config.rs).    *)
(* There is no lock, a process may die between any two steps, and a write  *)
(* or a rename may fail.                                                   *)
(***************************************************************************)
EXTENDS GrantsStore

CONSTANTS
  Proc,     \* process ids
  Partial,  \* a file that is being written: it does not parse
  Absent    \* no such file

VARIABLES
  tmp,    \* the temp file grants.toml.<pid>.tmp of each pid
  pc,     \* where each process is in load - write - rename - build_ticket
  cmd,    \* the command it runs
  new,    \* the table it computed: the `grants` it saves
  overlapped  \* history: the commands between load and rename have met others there

vars == <<file, drawn, tmp, pc, cmd, new, overlapped>>

FileContent == GrantTable \cup {Partial, Absent}

ASSUME PorcelainAssumption == Partial # Absent /\ {Partial, Absent} \cap GrantTable = {}

NoCommand == [op |-> "none"]

Step == {"idle", "write", "writing", "rename", "ticket"}

TypeOK ==
  /\ file \in FileContent
  /\ drawn \in [RepoId -> Path \cup {NoPath}]
  /\ tmp \in [Proc -> FileContent]
  /\ pc \in [Proc -> Step]
  /\ cmd \in [Proc -> Command \cup {NoCommand}]
  /\ new \in [Proc -> GrantTable]
  /\ overlapped \in BOOLEAN

Init ==
  /\ StoreInit
  /\ tmp = [p \in Proc |-> Absent]
  /\ pc = [p \in Proc |-> "idle"]
  /\ cmd = [p \in Proc |-> NoCommand]
  /\ new = [p \in Proc |-> EmptyGrants]
  /\ overlapped = FALSE

\* Mutant of tmp_name: one temp name for every process.
tmp_name_without_pid(p) == CHOOSE q \in Proc : TRUE

\* The temp file a process writes: its pid is in the name.
tmp_name(p) == p

Pending == {p \in Proc : pc[p] \in {"write", "writing", "rename"}}

\* RepoId::random collides neither with an id in the file's history nor with
\* one another running command drew and has not saved yet.
FreshIds(c) ==
  IdChoices(file, c, drawn) \ {new[q][path].id : q \in Pending, path \in Path}

\* Grants::load, the edit, and the command's early returns when it has nothing
\* to save.  A draw is recorded in `drawn` when it reaches the file: nobody can
\* have seen an id that did not.
Load(p, c) ==
  /\ pc[p] = "idle"
  /\ file \in GrantTable
  /\ Saves(file, c)
  /\ \E id \in IF c.op = "grant" /\ ~IsShared(file, c.path) THEN FreshIds(c) ELSE {NoId} :
       new' = [new EXCEPT ![p] = Edited(file, c, id)]
  /\ cmd' = [cmd EXCEPT ![p] = c]
  /\ pc' = [pc EXCEPT ![p] = "write"]
  /\ overlapped' = (Pending # {})
  /\ UNCHANGED <<file, drawn, tmp>>

\* fs::write creates or truncates the temp file, then fills it.
WriteBegin(p) ==
  /\ pc[p] = "write"
  /\ tmp' = [tmp EXCEPT ![tmp_name(p)] = Partial]
  /\ pc' = [pc EXCEPT ![p] = "writing"]
  /\ UNCHANGED <<file, drawn, cmd, new, overlapped>>

WriteEnd(p) ==
  /\ pc[p] = "writing"
  /\ tmp' = [tmp EXCEPT ![tmp_name(p)] = new[p]]
  /\ pc' = [pc EXCEPT ![p] = "rename"]
  /\ UNCHANGED <<file, drawn, cmd, new, overlapped>>

Exit(p) ==
  /\ pc' = [pc EXCEPT ![p] = "idle"]
  /\ cmd' = [cmd EXCEPT ![p] = NoCommand]
  /\ new' = [new EXCEPT ![p] = EmptyGrants]

\* fs::write fails (no space, no permission): the temp file stays as it is.
WriteFails(p) ==
  /\ pc[p] \in {"write", "writing"}
  /\ Exit(p)
  /\ UNCHANGED <<file, drawn, tmp, overlapped>>

\* fs::rename replaces grants.toml atomically.
Rename(p) ==
  /\ pc[p] = "rename"
  /\ tmp[tmp_name(p)] # Absent
  /\ file' = tmp[tmp_name(p)]
  /\ tmp' = [tmp EXCEPT ![tmp_name(p)] = Absent]
  /\ drawn' = [id \in RepoId |->
                 IF drawn[id] = NoPath /\ cmd[p].op = "grant" /\ new[p][cmd[p].path].id = id
                 THEN cmd[p].path ELSE drawn[id]]
  /\ IF cmd[p].op = "grant"
     THEN pc' = [pc EXCEPT ![p] = "ticket"] /\ UNCHANGED <<cmd, new>>
     ELSE Exit(p)
  /\ UNCHANGED overlapped

\* Mutant of RenameFails: the target is removed to make way for the rename.
RenameFailsAfterRemove(p) ==
  /\ pc[p] = "rename"
  /\ tmp' = [tmp EXCEPT ![tmp_name(p)] = Absent]
  /\ file' = Absent
  /\ Exit(p)
  /\ UNCHANGED <<drawn, overlapped>>

\* The rename fails: the command removes its temp file and reports the error.
RenameFails(p) ==
  /\ pc[p] = "rename"
  /\ tmp' = [tmp EXCEPT ![tmp_name(p)] = Absent]
  /\ Exit(p)
  /\ UNCHANGED <<file, drawn, overlapped>>

\* build_ticket, after the save: it may fail and the command then reports an
\* error, but the grant stands either way.
BuildTicket(p) ==
  /\ pc[p] = "ticket"
  /\ Exit(p)
  /\ UNCHANGED <<file, drawn, tmp, overlapped>>

\* The process is killed: its temp file is left behind as it is.
Crash(p) ==
  /\ pc[p] # "idle"
  /\ Exit(p)
  /\ UNCHANGED <<file, drawn, tmp, overlapped>>

Next ==
  \E p \in Proc :
    \/ \E c \in Command : Load(p, c)
    \/ WriteBegin(p) \/ WriteEnd(p) \/ WriteFails(p)
    \/ Rename(p) \/ RenameFails(p)
    \/ BuildTicket(p)
    \/ Crash(p)

Spec == Init /\ [][Next]_vars

-----------------------------------------------------------------------------
(* Properties *)

\* A command about to rename has its own whole table in its temp file.
TmpWhole == \A p \in Proc : pc[p] = "rename" => tmp[p] = new[p]

\* In a table about to be saved every id stands at the path it was drawn for;
\* one whose draw is not recorded yet was drawn by this very grant ...
PendingAtHome ==
  \A p \in Pending, path \in Path :
    LET id == new[p][path].id IN
      IsShared(new[p], path) =>
        \/ drawn[id] = path
        \/ drawn[id] = NoPath /\ cmd[p].op = "grant" /\ cmd[p].path = path

\* ... and by no other.
DrawsApart ==
  \A p, q \in Pending, a, b \in Path :
    p # q /\ new[p][a].id = new[q][b].id /\ IsShared(new[p], a) => drawn[new[p][a].id] # NoPath

\* Whoever reads grants.toml, at any moment and whatever crashes, finds a whole
\* table: never a half-written one, on which the daemon's reload would fail and
\* keep the previous, more permissive grants (config.rs, Grants::save).
NoTornFile == file \in GrantTable

\* A repo id never moves to another repository, whatever order concurrent
\* commands load and save in: the ticket a friend holds addresses the repository
\* it was made for or nothing (config.rs, find_or_create_repo).
TicketsKeepTheirRepo == file \in GrantTable => IdsAtHome(file, drawn)

GrantLowersNobody ==
  \A p \in Proc :
    pc[p] = "rename" /\ pc'[p] = "ticket" =>
      \A path \in Path, n \in Node : file[path].members[n] \subseteq file'[path].members[n]

\* The save of a grant lowers nobody's rights anywhere in the table (config.rs,
\* GrantOutcome: "it never lowers an existing member's access").
GrantNeverLowers == [][GrantLowersNobody]_vars

\* It does not if no other command was under way at the same time, however long
\* the history of grants, revokes, failures and crashes before it.
LoneGrantNeverLowers == [][~overlapped => GrantLowersNobody]_vars

\* A command that meets no other touches only the rights it is about, and nothing
\* but a grant raises any: not the LFS switch of a repository, and no revoke of
\* one friend another's (share.rs: grant, revoke, set_repo_lfs, unshare).
LoneCommandKeepsToItsSubject ==
  [][~overlapped =>
       \A path \in Path, n \in Node :
         file'[path].members[n] # file[path].members[n] =>
           \E p \in Proc :
             /\ pc[p] = "rename" /\ Concerns(cmd[p], file, path, n)
             /\ cmd[p].op # "grant" => file'[path].members[n] \subseteq file[path].members[n]]_vars

\* What node n may not do any more with a ticket of repository `id` in table g.
ShutOut(g, id, n, what) ==
  /\ \A req \in Request :
       req.repo_id = id /\ (what = "Write" => req.service = "ReceivePack") /\ what # "Lfs" =>
         ~authorize(g, req, n)
  /\ \A req \in LfsRequest :
       req.repo_id = id /\ (what = "Write" => req.op = "Upload") =>
         ~authorize_lfs(g, req, n)

\* The save of a revoke or a stop works at once on every ticket that was ever
\* made for its repositories, whatever other commands run meanwhile: the table it
\* leaves authorizes none of the requests it was to end (share.rs: revoke,
\* unshare; lib.rs, authorize, which looks a repository up by its id).
RevokeShutsOut ==
  [][\A p \in Proc :
       pc[p] = "rename" /\ pc'[p] = "idle" /\ file' # file =>
         \A id \in RepoId, n \in Node :
           LET c == cmd[p] IN
             /\ c.op = "revoke_at" /\ c.path = drawn'[id] => ShutOut(file', id, c.node, c.what)
             /\ c.op = "revoke_everywhere" => ShutOut(file', id, c.node, c.what)
             /\ \/ c.op = "unshare" /\ c.path = drawn'[id]
                \/ c.op = "unshare_by_id" /\ c.id = id
                \/ c.op = "unshare_all"
                => ShutOut(file', id, n, "Member")]_vars

\* A command alone between its load and its rename saves an edit of the file as
\* it is now.
Solo ==
  ~overlapped => \A p \in Pending :
    /\ \A q \in Pending : q = p
    /\ cmd[p] \in Command /\ Saves(file, cmd[p])
    /\ \E id \in IdChoices(file, cmd[p], drawn) : new[p] = Edited(file, cmd[p], id)

\* The inductive invariant behind these properties.
IInv ==
  TypeOK /\ NoTornFile /\ TmpWhole /\ TicketsKeepTheirRepo /\ PendingAtHome /\ DrawsApart /\ Solo

\* A command that meets no other between its load and its rename, and may fail or
\* die at any step, is an atomic edit of the file, whatever others did before it
\* (config.rs, Grants::save; share.rs: one load and one save per command).
OneAtATimeIsAtomic == StoreInit /\ [][~overlapped => StoreNext]_storevars
=============================================================================
