--------------------------- MODULE Grants_proofs ---------------------------
(***************************************************************************)
(* Lemmas about the edits of the grants table: every command turns a       *)
(* grants table into a grants table and moves no repo id.                  *)
(***************************************************************************)
EXTENDS Grants, TLAPS

\* Taking rights away, or adding the rights of a grant, leaves well-formed rights.
LEMMA RightsClosed ==
  ASSUME NEW r \in Rights, NEW what \in RevokeWhat, NEW write \in BOOLEAN, NEW lfs \in BOOLEAN
  PROVE  /\ r \ Withdrawn[what] \in Rights
         /\ r \cup {"read"} \cup (IF write THEN {"push"} ELSE {}) \cup (IF lfs THEN {"lfs"} ELSE {})
              \in Rights
<1>1. r \ Withdrawn[what] \in Rights
  <2>1. CASE what = "Member"
    BY <2>1 DEF Rights, Right, Withdrawn
  <2>2. CASE what = "Write"
    BY <2>2 DEF Rights, Right, Withdrawn
  <2>3. CASE what = "Lfs"
    BY <2>3 DEF Rights, Right, Withdrawn
  <2> QED BY <2>1, <2>2, <2>3 DEF RevokeWhat
<1>2. r \cup {"read"} \cup (IF write THEN {"push"} ELSE {}) \cup (IF lfs THEN {"lfs"} ELSE {})
        \in Rights
  BY DEF Rights, Right
<1> QED BY <1>1, <1>2

\* A repository's entry stays one under grant_member and revoke, with its id.
LEMMA EntryClosed ==
  ASSUME NEW r \in RepoGrant, NEW n \in Node, NEW what \in RevokeWhat,
         NEW write \in BOOLEAN, NEW lfs \in BOOLEAN
  PROVE  /\ grant_member(r, n, write, lfs) \in RepoGrant
         /\ grant_member(r, n, write, lfs).id = r.id
         /\ revoke(r, n, what) \in RepoGrant
         /\ revoke(r, n, what).id = r.id
<1>1. r.members[n] \in Rights
  BY DEF RepoGrant
<1>2. r.members[n] \ Withdrawn[what] \in Rights
  BY <1>1, RightsClosed
<1>3. r.members[n] \cup {"read"} \cup (IF write THEN {"push"} ELSE {}) \cup (IF lfs THEN {"lfs"} ELSE {})
        \in Rights
  BY <1>1, RightsClosed
<1> QED BY <1>2, <1>3 DEF RepoGrant, grant_member, revoke

\* Revoking from a repository that is not shared changes nothing.
LEMMA RevokeNotShared ==
  ASSUME NEW n \in Node, NEW what \in RevokeWhat
  PROVE  revoke(NotShared, n, what) = NotShared
<1> DEFINE none == [m \in Node |-> {}]
<1>1. [none EXCEPT ![n] = none[n] \ Withdrawn[what]] = none
  OBVIOUS
<1>2. NotShared.members = none
  BY DEF NotShared
<1> HIDE DEF none
<1>3. revoke(NotShared, n, what) = [NotShared EXCEPT !.members = none]
  BY <1>1, <1>2 DEF revoke
<1> QED BY <1>2, <1>3 DEF NotShared

LEMMA NotSharedType == NotShared \in RepoGrant
BY DEF NotShared, RepoGrant, Rights

\* The repository a command names is one of the instance's.
LEMMA CommandFields ==
  ASSUME NEW cmd \in CommandType
  PROVE  /\ cmd.op = "grant" => cmd.path \in Path /\ cmd.node \in Node
                                /\ cmd.write \in BOOLEAN /\ cmd.lfs \in BOOLEAN
         /\ cmd.op = "revoke_at" => cmd.path \in Path /\ cmd.node \in Node /\ cmd.what \in RevokeWhat
         /\ cmd.op = "revoke_everywhere" => cmd.node \in Node /\ cmd.what \in RevokeWhat
         /\ cmd.op = "set_repo_lfs" => cmd.path \in Path /\ cmd.enabled \in BOOLEAN
         /\ cmd.op = "unshare" => cmd.path \in Path
         /\ cmd.op \in {"grant", "revoke_at", "revoke_everywhere", "set_repo_lfs", "unshare",
                        "unshare_by_id", "unshare_all"}
BY DEF CommandType

\* What an edit may do to the entry of one path: leave its id alone, stop
\* sharing it, or, for a grant of an unshared path, give it the id it drew.
EditEntry(g, h, cmd, id) ==
  \A p \in Path :
    \/ h[p].id = g[p].id
    \/ h[p] = NotShared
    \/ cmd.op = "grant" /\ p = cmd.path /\ ~IsShared(g, p) /\ h[p].id = id

\* Every command edits a grants table into a grants table, entry by entry.
LEMMA EditedType ==
  ASSUME NEW g \in GrantTable, NEW cmd \in CommandType, NEW id \in RepoId \cup {NoId},
         cmd.op = "grant" /\ ~IsShared(g, cmd.path) => id \in RepoId
  PROVE  Edited(g, cmd, id) \in GrantTable /\ EditEntry(g, Edited(g, cmd, id), cmd, id)
<1> USE GrantsAssumption
<1>0. g \in [Path -> RepoGrant] /\ \A p \in Path : g[p].id = NoId => g[p] = NotShared
  BY DEF GrantTable
<1>1. NotShared \in RepoGrant /\ NotShared.id = NoId
  BY NotSharedType DEF NotShared
<1>2. CASE cmd.op = "grant"
  <2> DEFINE h == find_or_create_repo(g, cmd.path, id)
             e == grant_member(h[cmd.path], cmd.node, cmd.write, cmd.lfs)
  <2>1. cmd.path \in Path /\ cmd.node \in Node /\ cmd.write \in BOOLEAN /\ cmd.lfs \in BOOLEAN
    BY <1>2, CommandFields
  <2>2. h \in [Path -> RepoGrant]
    <3>1. CASE IsShared(g, cmd.path)
      BY <3>1, <1>0 DEF find_or_create_repo
    <3>2. CASE ~IsShared(g, cmd.path)
      <4>1. [NotShared EXCEPT !.id = id] \in RepoGrant
        BY <1>1, <3>2, <1>2 DEF RepoGrant
      <4> QED BY <4>1, <3>2, <1>0 DEF find_or_create_repo
    <3> QED BY <3>1, <3>2
  <2>3. /\ \A p \in Path : p # cmd.path => h[p] = g[p]
        /\ h[cmd.path].id = IF IsShared(g, cmd.path) THEN g[cmd.path].id ELSE id
        /\ h[cmd.path].id # NoId
    <3>1. CASE IsShared(g, cmd.path)
      BY <3>1 DEF find_or_create_repo, IsShared
    <3>2. CASE ~IsShared(g, cmd.path)
      <4>1. h = [g EXCEPT ![cmd.path] = [NotShared EXCEPT !.id = id]]
        BY <3>2 DEF find_or_create_repo
      <4>2. [NotShared EXCEPT !.id = id].id = id
        BY DEF NotShared
      <4> QED BY <4>1, <4>2, <3>2, <2>1, <1>0, <1>2
    <3> QED BY <3>1, <3>2
  <2>4. h[cmd.path] \in RepoGrant
    BY <2>1, <2>2
  <2>5. \E what \in RevokeWhat : TRUE
    BY DEF RevokeWhat
  <2> HIDE DEF h
  <2>6. e \in RepoGrant /\ e.id = h[cmd.path].id
    BY <2>1, <2>4, <2>5, EntryClosed
  <2> HIDE DEF e
  <2>7. Edited(g, cmd, id) = [h EXCEPT ![cmd.path] = e]
    BY <1>2 DEF Edited, grant, h, e
  <2> QED BY <2>1, <2>2, <2>3, <2>6, <2>7, <1>0, <1>2 DEF GrantTable, EditEntry
<1>3. CASE cmd.op = "revoke_at"
  <2> DEFINE e == revoke(g[cmd.path], cmd.node, cmd.what)
  <2>1. cmd.path \in Path /\ cmd.node \in Node /\ cmd.what \in RevokeWhat
    BY <1>3, CommandFields
  <2>2. e \in RepoGrant /\ e.id = g[cmd.path].id
    BY <2>1, <1>0, EntryClosed
  <2>3. g[cmd.path].id = NoId => e = NotShared
    BY <2>1, <1>0, RevokeNotShared
  <2> HIDE DEF e
  <2>4. Edited(g, cmd, id) = [g EXCEPT ![cmd.path] = e]
    BY <1>3 DEF Edited, revoke_at, e
  <2> QED BY <2>1, <2>2, <2>3, <2>4, <1>0 DEF GrantTable, EditEntry
<1>4. CASE cmd.op = "revoke_everywhere"
  <2> DEFINE e(p) == revoke(g[p], cmd.node, cmd.what)
  <2>1. cmd.node \in Node /\ cmd.what \in RevokeWhat
    BY <1>4, CommandFields
  <2>2. \A p \in Path : e(p) \in RepoGrant /\ e(p).id = g[p].id
    BY <2>1, <1>0, EntryClosed
  <2>3. \A p \in Path : g[p].id = NoId => e(p) = NotShared
    BY <2>1, <1>0, RevokeNotShared
  <2> HIDE DEF e
  <2>4. Edited(g, cmd, id) = [p \in Path |-> e(p)]
    BY <1>4 DEF Edited, revoke_everywhere, e
  <2> DEFINE h == Edited(g, cmd, id)
  <2>5. h \in [Path -> RepoGrant] /\ \A p \in Path : h[p] = e(p)
    BY <2>2, <2>4
  <2> HIDE DEF h
  <2>6. h \in GrantTable
    BY <2>2, <2>3, <2>5 DEF GrantTable
  <2>7. EditEntry(g, h, cmd, id)
    BY <2>2, <2>5 DEF EditEntry
  <2> QED BY <2>6, <2>7 DEF h
<1>5. CASE cmd.op = "set_repo_lfs"
  <2> DEFINE e == [g[cmd.path] EXCEPT !.lfs_enabled = cmd.enabled]
  <2>1. cmd.path \in Path /\ cmd.enabled \in BOOLEAN
    BY <1>5, CommandFields
  <2>2. g[cmd.path] \in RepoGrant
    BY <2>1, <1>0
  <2>3. e \in RepoGrant /\ e.id = g[cmd.path].id
    BY <2>1, <2>2 DEF RepoGrant
  <2> HIDE DEF e
  <2>4. Edited(g, cmd, id) = IF IsShared(g, cmd.path) THEN [g EXCEPT ![cmd.path] = e] ELSE g
    BY <1>5 DEF Edited, set_repo_lfs, e
  <2> QED BY <2>1, <2>3, <2>4, <1>0 DEF GrantTable, EditEntry, IsShared
<1>6. CASE cmd.op = "unshare"
  <2>1. cmd.path \in Path
    BY <1>6, CommandFields
  <2>2. Edited(g, cmd, id) = [g EXCEPT ![cmd.path] = NotShared]
    BY <1>6 DEF Edited, unshare
  <2> QED BY <2>1, <2>2, <1>0, <1>1 DEF GrantTable, EditEntry
<1>7. CASE cmd.op = "unshare_by_id"
  <2>1. Edited(g, cmd, id) = [p \in Path |-> IF g[p].id = cmd.id THEN NotShared ELSE g[p]]
    BY <1>7 DEF Edited, unshare_by_id
  <2> QED BY <2>1, <1>0, <1>1 DEF GrantTable, EditEntry
<1>8. CASE cmd.op = "unshare_all"
  <2>1. Edited(g, cmd, id) = [p \in Path |-> NotShared]
    BY <1>8 DEF Edited, EmptyGrants
  <2> QED BY <2>1, <1>1 DEF GrantTable, EditEntry
<1> QED
  BY <1>2, <1>3, <1>4, <1>5, <1>6, <1>7, <1>8, CommandFields

\* A repository that starts to be shared differs from one that is not by its id.
LEMMA NewShare ==
  ASSUME NEW id
  PROVE  [NotShared EXCEPT !.id = id]
           = [id |-> id, lfs_enabled |-> FALSE, members |-> NotShared.members]
<1>1. PICK members, lfs_enabled :
        /\ NotShared = [id |-> NoId, lfs_enabled |-> lfs_enabled, members |-> members]
        /\ lfs_enabled = FALSE
  BY DEF NotShared
<1>2. [[id |-> NoId, lfs_enabled |-> lfs_enabled, members |-> members] EXCEPT !.id = id]
        = [id |-> id, lfs_enabled |-> lfs_enabled, members |-> members]
  OBVIOUS
<1>3. [NotShared EXCEPT !.id = id] = [id |-> id, lfs_enabled |-> lfs_enabled, members |-> members]
  BY <1>1, <1>2, Zenon
<1>4. NotShared.members = members
  BY <1>1
<1> QED BY <1>1, <1>3, <1>4, Zenon

\* A grant keeps the id of a shared repository and gives the drawn one to any
\* other, lowers nobody's rights anywhere and changes only those it is about.
LEMMA GrantEdit ==
  ASSUME NEW g \in GrantTable, NEW cmd \in CommandType, cmd.op = "grant",
         NEW id \in RepoId \cup {NoId}
  PROVE  /\ Edited(g, cmd, id)[cmd.path].id = IF IsShared(g, cmd.path) THEN g[cmd.path].id ELSE id
         /\ \A p \in Path, n \in Node : g[p].members[n] \subseteq Edited(g, cmd, id)[p].members[n]
         /\ \A p \in Path, n \in Node :
              p # cmd.path \/ n # cmd.node => Edited(g, cmd, id)[p].members[n] = g[p].members[n]
<1> DEFINE h == find_or_create_repo(g, cmd.path, id)
           added == {"read"} \cup (IF cmd.write THEN {"push"} ELSE {}) \cup (IF cmd.lfs THEN {"lfs"} ELSE {})
           e == grant_member(h[cmd.path], cmd.node, cmd.write, cmd.lfs)
<1>1. cmd.path \in Path /\ cmd.node \in Node
  BY CommandFields
<1>2. g \in [Path -> RepoGrant] /\ \A p \in Path : ~IsShared(g, p) => g[p] = NotShared
  BY DEF GrantTable, IsShared
<1>3. /\ h \in [Path -> [id : RepoId \cup {NoId}, lfs_enabled : BOOLEAN, members : [Node -> SUBSET Right]]]
      /\ h[cmd.path].id = IF IsShared(g, cmd.path) THEN g[cmd.path].id ELSE id
      /\ \A p \in Path : h[p].members = g[p].members
  <2>1. CASE IsShared(g, cmd.path)
    BY <2>1, <1>2 DEF find_or_create_repo, RepoGrant, Rights
  <2>2. CASE ~IsShared(g, cmd.path)
    <3>1. h = [g EXCEPT ![cmd.path] = [NotShared EXCEPT !.id = id]] /\ g[cmd.path] = NotShared
      BY <2>2, <1>1, <1>2 DEF find_or_create_repo
    <3>2. [NotShared EXCEPT !.id = id] = [id |-> id, lfs_enabled |-> FALSE, members |-> NotShared.members]
      BY NewShare
    <3>3. NotShared.members \in [Node -> SUBSET Right]
      BY DEF NotShared
    <3> DEFINE f == [id |-> id, lfs_enabled |-> FALSE, members |-> NotShared.members]
    <3>4. f \in [id : RepoId \cup {NoId}, lfs_enabled : BOOLEAN, members : [Node -> SUBSET Right]]
          /\ f.id = id /\ f.members = g[cmd.path].members
      BY <3>1, <3>3
    <3>5. g \in [Path -> [id : RepoId \cup {NoId}, lfs_enabled : BOOLEAN, members : [Node -> SUBSET Right]]]
      BY <1>2 DEF RepoGrant, Rights
    <3>6. h = [g EXCEPT ![cmd.path] = f]
      BY <3>1, <3>2
    <3> HIDE DEF f, h
    <3> QED BY <3>4, <3>5, <3>6, <2>2, <1>1
  <2> QED BY <2>1, <2>2
<1> HIDE DEF h
<1>4. /\ e.id = h[cmd.path].id
      /\ e.members[cmd.node] = h[cmd.path].members[cmd.node] \cup added
      /\ \A n \in Node : n # cmd.node => e.members[n] = h[cmd.path].members[n]
  BY <1>1, <1>3 DEF grant_member
<1> HIDE DEF e, added
<1>5. Edited(g, cmd, id) = [h EXCEPT ![cmd.path] = e]
  BY DEF Edited, grant, h, e
<1>6. Edited(g, cmd, id)[cmd.path] = e /\ \A p \in Path : p # cmd.path => Edited(g, cmd, id)[p] = h[p]
  BY <1>1, <1>3, <1>5
<1> QED BY <1>1, <1>3, <1>4, <1>6

\* A revoke leaves the node without what it withdraws, and everybody else alone.
LEMMA RevokeEntry ==
  ASSUME NEW r \in RepoGrant, NEW n \in Node, NEW what \in RevokeWhat
  PROVE  /\ revoke(r, n, what).members[n] = r.members[n] \ Withdrawn[what]
         /\ \A m \in Node : m # n => revoke(r, n, what).members[m] = r.members[m]
BY DEF revoke, RepoGrant

\* Whether a table is free of all that command c was to put an end to.
Ended(c, g) ==
  /\ c.op = "revoke_at" => g[c.path].members[c.node] \cap Withdrawn[c.what] = {}
  /\ c.op = "revoke_everywhere" =>
       \A p \in Path : g[p].members[c.node] \cap Withdrawn[c.what] = {}
  /\ c.op = "unshare" => ~IsShared(g, c.path)
  /\ c.op = "unshare_by_id" => \A p \in Path : g[p].id # c.id
  /\ c.op = "unshare_all" => \A p \in Path : ~IsShared(g, p)

\* A command that takes something away has done so in the table it computes.
LEMMA EditEnds ==
  ASSUME NEW g \in GrantTable, NEW cmd \in CommandType, NEW id
  PROVE  Ended(cmd, Edited(g, cmd, id))
<1> USE GrantsAssumption
<1>0. g \in [Path -> RepoGrant] /\ NotShared.id = NoId
  BY DEF GrantTable, NotShared
<1>1. CASE cmd.op = "revoke_at"
  <2> DEFINE e == revoke(g[cmd.path], cmd.node, cmd.what)
  <2>1. cmd.path \in Path /\ cmd.node \in Node /\ cmd.what \in RevokeWhat
    BY <1>1, CommandFields
  <2>2. e.members[cmd.node] \cap Withdrawn[cmd.what] = {}
    BY <2>1, <1>0, RevokeEntry
  <2> HIDE DEF e
  <2>3. Edited(g, cmd, id) = [g EXCEPT ![cmd.path] = e]
    BY <1>1 DEF Edited, revoke_at, e
  <2> QED BY <1>0, <1>1, <2>1, <2>2, <2>3 DEF Ended
<1>2. CASE cmd.op = "revoke_everywhere"
  <2> DEFINE e(p) == revoke(g[p], cmd.node, cmd.what)
  <2>1. cmd.node \in Node /\ cmd.what \in RevokeWhat
    BY <1>2, CommandFields
  <2>2. \A p \in Path : e(p).members[cmd.node] \cap Withdrawn[cmd.what] = {}
    BY <2>1, <1>0, RevokeEntry
  <2> HIDE DEF e
  <2>3. Edited(g, cmd, id) = [p \in Path |-> e(p)]
    BY <1>2 DEF Edited, revoke_everywhere, e
  <2> QED BY <1>2, <2>2, <2>3 DEF Ended
<1>3. CASE cmd.op = "unshare"
  <2>1. cmd.path \in Path /\ Edited(g, cmd, id) = [g EXCEPT ![cmd.path] = NotShared]
    BY <1>3, CommandFields DEF Edited, unshare
  <2> QED BY <1>0, <1>3, <2>1 DEF Ended, IsShared
<1>4. CASE cmd.op = "unshare_by_id"
  <2>1. Edited(g, cmd, id) = [p \in Path |-> IF g[p].id = cmd.id THEN NotShared ELSE g[p]]
    BY <1>4 DEF Edited, unshare_by_id
  <2>2. cmd.id \in RepoId
    BY <1>4 DEF CommandType
  <2> QED BY <1>0, <1>4, <2>1, <2>2 DEF Ended
<1>5. CASE cmd.op = "unshare_all"
  <2>1. Edited(g, cmd, id) = [p \in Path |-> NotShared]
    BY <1>5 DEF Edited, EmptyGrants
  <2> QED BY <1>0, <1>5, <2>1 DEF Ended, IsShared
<1>6. CASE cmd.op \in {"grant", "set_repo_lfs"}
  BY <1>6 DEF Ended
<1> QED BY <1>1, <1>2, <1>3, <1>4, <1>5, <1>6, CommandFields

\* A command changes only the rights it is about, and only a grant raises any.
LEMMA EditTouches ==
  ASSUME NEW g \in GrantTable, NEW cmd \in CommandType, NEW id \in RepoId \cup {NoId},
         NEW p \in Path, NEW n \in Node,
         Edited(g, cmd, id)[p].members[n] # g[p].members[n]
  PROVE  /\ Concerns(cmd, g, p, n)
         /\ cmd.op # "grant" => Edited(g, cmd, id)[p].members[n] \subseteq g[p].members[n]
<1>0. g \in [Path -> RepoGrant] /\ NotShared.members[n] = {}
  BY DEF GrantTable, NotShared
<1>1. CASE cmd.op = "grant"
  BY <1>1, GrantEdit DEF Concerns
<1>2. CASE cmd.op = "revoke_at"
  <2> DEFINE e == revoke(g[cmd.path], cmd.node, cmd.what)
  <2>1. cmd.path \in Path /\ cmd.node \in Node /\ cmd.what \in RevokeWhat
    BY <1>2, CommandFields
  <2>2. /\ e.members[cmd.node] \subseteq g[cmd.path].members[cmd.node]
        /\ n # cmd.node => e.members[n] = g[cmd.path].members[n]
    BY <2>1, <1>0, RevokeEntry
  <2> HIDE DEF e
  <2>3. Edited(g, cmd, id) = [g EXCEPT ![cmd.path] = e]
    BY <1>2 DEF Edited, revoke_at, e
  <2> QED BY <1>0, <1>2, <2>1, <2>2, <2>3 DEF Concerns
<1>3. CASE cmd.op = "revoke_everywhere"
  <2> DEFINE e(q) == revoke(g[q], cmd.node, cmd.what)
  <2>1. cmd.node \in Node /\ cmd.what \in RevokeWhat
    BY <1>3, CommandFields
  <2>2. /\ e(p).members[cmd.node] \subseteq g[p].members[cmd.node]
        /\ n # cmd.node => e(p).members[n] = g[p].members[n]
    BY <2>1, <1>0, RevokeEntry
  <2> HIDE DEF e
  <2>3. Edited(g, cmd, id) = [q \in Path |-> e(q)]
    BY <1>3 DEF Edited, revoke_everywhere, e
  <2> QED BY <1>3, <2>2, <2>3 DEF Concerns
<1>4. CASE cmd.op = "set_repo_lfs"
  <2> DEFINE e == [g[cmd.path] EXCEPT !.lfs_enabled = cmd.enabled]
  <2>1. cmd.path \in Path
    BY <1>4, CommandFields
  <2>2. g[cmd.path] \in RepoGrant
    BY <2>1, <1>0
  <2>3. e.members = g[cmd.path].members
    BY <2>2 DEF RepoGrant
  <2> HIDE DEF e
  <2>4. Edited(g, cmd, id) = IF IsShared(g, cmd.path) THEN [g EXCEPT ![cmd.path] = e] ELSE g
    BY <1>4 DEF Edited, set_repo_lfs, e
  <2> QED BY <1>0, <2>1, <2>3, <2>4
<1>5. CASE cmd.op = "unshare"
  <2>1. cmd.path \in Path /\ Edited(g, cmd, id) = [g EXCEPT ![cmd.path] = NotShared]
    BY <1>5, CommandFields DEF Edited, unshare
  <2> QED BY <1>0, <1>5, <2>1 DEF Concerns
<1>6. CASE cmd.op = "unshare_by_id"
  <2>1. Edited(g, cmd, id) = [q \in Path |-> IF g[q].id = cmd.id THEN NotShared ELSE g[q]]
    BY <1>6 DEF Edited, unshare_by_id
  <2> QED BY <1>0, <1>6, <2>1 DEF Concerns
<1>7. CASE cmd.op = "unshare_all"
  <2>1. Edited(g, cmd, id) = [q \in Path |-> NotShared]
    BY <1>7 DEF Edited, EmptyGrants
  <2> QED BY <1>0, <1>7, <2>1 DEF Concerns
<1> QED BY <1>1, <1>2, <1>3, <1>4, <1>5, <1>6, <1>7, CommandFields

\* In a table whose ids are at home, a request is looked up at the one path its
\* id was drawn for, or nowhere.
LEMMA HomeIsUnique ==
  ASSUME NEW g \in GrantTable, NEW drawn, IdsAtHome(g, drawn), NEW id \in RepoId,
         NEW p \in Path, g[p].id = id
  PROVE  drawn[id] = p
BY GrantsAssumption DEF IdsAtHome, IsShared
=============================================================================
