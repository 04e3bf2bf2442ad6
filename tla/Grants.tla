------------------------------- MODULE Grants -------------------------------
(***************************************************************************)
(* The grants table: which node may do what on which shared repository.    *)
(* It is the content of grants.toml (crates/iroh-git/src/config.rs), the   *)
(* value every porcelain command edits (share.rs) and the value the daemon *)
(* authorizes callers against (iroh-git-daemon/src/lib.rs).                *)
(*                                                                         *)
(* A member's rights are a set.  "read" is membership itself, "push" is    *)
(* allow_push and "lfs" is allow_lfs, so a node that is not a member has   *)
(* the empty set.  Nicknames are labels and are left out.                  *)
(***************************************************************************)

EXTENDS Naturals

CONSTANTS
  Path,     \* canonical paths of repositories on the owner's disk
  Node,     \* NODE_IDs of friends
  RepoId,   \* the random 16-byte ids a share is given
  NoId,     \* the id of a repository that is not shared
  NoPath,   \* no path: what an id that was never drawn belongs to
  Command   \* the porcelain commands the owner may run

Right == {"read", "push", "lfs"}
Rights == {r \in SUBSET Right : r # {} => "read" \in r}

RepoGrant == [id : RepoId \cup {NoId}, lfs_enabled : BOOLEAN, members : [Node -> Rights]]

NotShared == [id |-> NoId, lfs_enabled |-> FALSE, members |-> [n \in Node |-> {}]]

GrantTable == {g \in [Path -> RepoGrant] : \A p \in Path : g[p].id = NoId => g[p] = NotShared}

EmptyGrants == [p \in Path |-> NotShared]

-----------------------------------------------------------------------------
(* The commands of `git iroh` and of the tray menu that edit the table.    *)

RevokeWhat == {"Member", "Write", "Lfs"}

CommandType ==
       [op : {"grant"}, path : Path, node : Node, write : BOOLEAN, lfs : BOOLEAN]
  \cup [op : {"revoke_at"}, path : Path, node : Node, what : RevokeWhat]
  \cup [op : {"revoke_everywhere"}, node : Node, what : RevokeWhat]
  \cup [op : {"set_repo_lfs"}, path : Path, enabled : BOOLEAN]
  \cup [op : {"unshare"}, path : Path]
  \cup [op : {"unshare_by_id"}, id : RepoId]
  \cup [op : {"unshare_all"}]

ASSUME GrantsAssumption ==
  /\ NoId \notin RepoId
  /\ NoPath \notin Path
  /\ Command \subseteq CommandType

IsShared(g, p) == g[p].id # NoId

find_or_create_repo(g, p, id) ==
  IF IsShared(g, p) THEN g ELSE [g EXCEPT ![p] = [NotShared EXCEPT !.id = id]]

\* Mutant of grant_member: the member is given the rights of this grant only.
grant_member_replaces(r, n, write, lfs) ==
  [r EXCEPT !.members[n] = {"read"} \cup (IF write THEN {"push"} ELSE {})
                             \cup (IF lfs THEN {"lfs"} ELSE {})]

\* A grant only ever adds rights.
grant_member(r, n, write, lfs) ==
  [r EXCEPT !.members[n] = @ \cup {"read"} \cup (IF write THEN {"push"} ELSE {})
                             \cup (IF lfs THEN {"lfs"} ELSE {})]

\* What each kind of revoke takes away: removing the member takes everything.
Withdrawn == [Member |-> Right, Write |-> {"push"}, Lfs |-> {"lfs"}]

revoke(r, n, what) == [r EXCEPT !.members[n] = @ \ Withdrawn[what]]

grant(g, cmd, id) ==
  [find_or_create_repo(g, cmd.path, id) EXCEPT
     ![cmd.path] = grant_member(@, cmd.node, cmd.write, cmd.lfs)]

revoke_at(g, cmd) == [g EXCEPT ![cmd.path] = revoke(@, cmd.node, cmd.what)]

\* Mutant of revoke_everywhere: only the first repository found is gone through.
revoke_first(g, cmd) ==
  LET found == {p \in Path : g[p].members[cmd.node] # {}} IN
    IF found = {} THEN g
    ELSE [g EXCEPT ![CHOOSE p \in found : TRUE] = revoke(@, cmd.node, cmd.what)]

revoke_everywhere(g, cmd) == [p \in Path |-> revoke(g[p], cmd.node, cmd.what)]

\* Mutant of set_repo_lfs: enabling LFS gives the right to every member.
set_repo_lfs_for_members(g, cmd) ==
  IF IsShared(g, cmd.path)
  THEN [g EXCEPT ![cmd.path].lfs_enabled = cmd.enabled,
                 ![cmd.path].members =
                   [n \in Node |-> IF @[n] = {} THEN {} ELSE @[n] \cup {"lfs"}]]
  ELSE g

\* Only a repository that is already shared has an LFS switch to toggle.
set_repo_lfs(g, cmd) ==
  IF IsShared(g, cmd.path) THEN [g EXCEPT ![cmd.path].lfs_enabled = cmd.enabled] ELSE g

unshare(g, cmd) == [g EXCEPT ![cmd.path] = NotShared]

unshare_by_id(g, cmd) == [p \in Path |-> IF g[p].id = cmd.id THEN NotShared ELSE g[p]]

\* The table a command computes from the table it loaded; `id` is the repo id
\* it draws if it has to share the repository first.
Edited(g, cmd, id) ==
  CASE cmd.op = "grant"             -> grant(g, cmd, id)
    [] cmd.op = "revoke_at"         -> revoke_at(g, cmd)
    [] cmd.op = "revoke_everywhere" -> revoke_everywhere(g, cmd)
    [] cmd.op = "set_repo_lfs"      -> set_repo_lfs(g, cmd)
    [] cmd.op = "unshare"           -> unshare(g, cmd)
    [] cmd.op = "unshare_by_id"     -> unshare_by_id(g, cmd)
    [] OTHER                        -> EmptyGrants

\* Whose rights on which repository of table g a command is about.
Concerns(cmd, g, p, n) ==
  \/ cmd.op \in {"grant", "revoke_at"} /\ cmd.path = p /\ cmd.node = n
  \/ cmd.op = "revoke_everywhere" /\ cmd.node = n
  \/ cmd.op = "unshare" /\ cmd.path = p
  \/ cmd.op = "unshare_by_id" /\ cmd.id = g[p].id
  \/ cmd.op = "unshare_all"

\* Whether the command goes on to save.  A grant always does, a revoke does
\* whenever the node is a member (even if it changes nothing), every other
\* command only when it changed the table.
Saves(g, cmd) ==
  \/ cmd.op = "grant"
  \/ cmd.op = "revoke_at" /\ g[cmd.path].members[cmd.node] # {}
  \/ cmd.op \notin {"grant", "revoke_at"} /\ Edited(g, cmd, NoId) # g

\* Mutant of IdChoices: any id that no repository has now may be drawn again.
IdChoicesRecycled(g, cmd, drawn) ==
  IF cmd.op = "grant" /\ ~IsShared(g, cmd.path)
  THEN {id \in RepoId : \A p \in Path : g[p].id # id}
  ELSE {NoId}

\* The repo ids a command may draw: RepoId::random is called only by a grant
\* that finds the repository unshared, and never repeats an earlier draw
\* (`drawn` maps every id drawn so far to the repository it was drawn for).
IdChoices(g, cmd, drawn) ==
  IF cmd.op = "grant" /\ ~IsShared(g, cmd.path)
  THEN {id \in RepoId : drawn[id] = NoPath}
  ELSE {NoId}

\* The draws once `cmd` has taken `id` (NoId if it drew none).
Draw(drawn, cmd, id) == IF id = NoId THEN drawn ELSE [drawn EXCEPT ![id] = cmd.path]

NoneDrawn == [id \in RepoId |-> NoPath]

\* Every id in table g was drawn for the path it stands at; so no two paths
\* share one.
IdsAtHome(g, drawn) == \A p \in Path : IsShared(g, p) => drawn[g[p].id] = p

-----------------------------------------------------------------------------
(* Authorization, as the daemon performs it on its copy of the table.      *)

VERSION == 0
Service == {"UploadPack", "ReceivePack"}
Request == [version : {VERSION, VERSION + 1}, repo_id : RepoId, service : Service]

RepoPaths(g, id) == {p \in Path : g[p].id = id}

\* The caller's rights on the repository that `id` names: none if no such
\* repository is shared or the caller is not one of its members.
resolve_member(g, id, caller) == UNION {g[p].members[caller] : p \in RepoPaths(g, id)}

authorize(g, req, caller) ==
  /\ req.version = VERSION
  /\ "read" \in resolve_member(g, req.repo_id, caller)
  /\ req.service = "ReceivePack" => "push" \in resolve_member(g, req.repo_id, caller)

\* One object transfer on an LFS connection; the object is left out.
LFS_VERSION == 0
LfsOp == {"Download", "Upload"}
LfsRequest == [version : {LFS_VERSION, LFS_VERSION + 1}, repo_id : RepoId, op : LfsOp]

authorize_lfs(g, req, caller) ==
  /\ req.version = LFS_VERSION
  /\ \E p \in RepoPaths(g, req.repo_id) :
       /\ g[p].lfs_enabled
       /\ "lfs" \in g[p].members[caller]
       /\ req.op = "Upload" => "push" \in g[p].members[caller]

\* What keeps an LFS connection open: the right to either operation.
lfs_session_authorized(g, id, caller) ==
  \E p \in RepoPaths(g, id) : g[p].lfs_enabled /\ "lfs" \in g[p].members[caller]
=============================================================================
