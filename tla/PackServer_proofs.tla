-------------------------- MODULE PackServer_proofs --------------------------
(***************************************************************************)
(* For any number of connections, commands, repositories and nodes: no     *)
(* session escapes a revoke, no change of grants.toml is missed, git runs  *)
(* in the repository of the ticket, no permit leaks, and the daemon        *)
(* implements AccessControl.                                               *)
(***************************************************************************)
EXTENDS PackServer, Grants_proofs, FiniteSetTheorems

USE GrantsAssumption, WatcherAssumption, PackServerAssumption

LEMMA GrantTableType == EmptyGrants \in GrantTable
BY NotSharedType DEF EmptyGrants, GrantTable

\* An edit of the file writes a grants table, keeps every id at home and moves
\* no id that was drawn before.
LEMMA EditStep ==
  ASSUME StoreTypeOK, IdsAtHome(file, drawn), NEW cmd \in Command, Edit(cmd)
  PROVE  /\ StoreTypeOK'
         /\ IdsAtHome(file, drawn)'
         /\ \A id \in RepoId : drawn[id] # NoPath => drawn'[id] = drawn[id]
<1> USE DEF StoreTypeOK
<1>1. cmd \in CommandType /\ file \in GrantTable
  OBVIOUS
<1>2. PICK id \in IdChoices(file, cmd, drawn) : file' = Edited(file, cmd, id) /\ drawn' = Draw(drawn, cmd, id)
  BY DEF Edit
<1>3. cmd.op = "grant" /\ ~IsShared(file, cmd.path) => id \in RepoId /\ drawn[id] = NoPath
  BY <1>2 DEF IdChoices
<1>4. ~(cmd.op = "grant" /\ ~IsShared(file, cmd.path)) => id = NoId
  BY <1>2 DEF IdChoices
<1>5. file' \in GrantTable /\ EditEntry(file, file', cmd, id)
  BY <1>1, <1>2, <1>3, <1>4, EditedType
<1>6. id # NoId => /\ cmd.path \in Path /\ id \in RepoId /\ drawn[id] = NoPath
                   /\ drawn' = [drawn EXCEPT ![id] = cmd.path]
  BY <1>2, <1>3, <1>4, <1>1, CommandFields DEF Draw
<1>7. id = NoId => drawn' = drawn
  BY <1>2 DEF Draw
<1>8. drawn' \in [RepoId -> Path \cup {NoPath}]
  BY <1>6, <1>7
<1>9. \A i \in RepoId : drawn[i] # NoPath => drawn'[i] = drawn[i]
  BY <1>6, <1>7
<1>10. ASSUME NEW p \in Path, IsShared(file', p) PROVE drawn'[file'[p].id] = p
  <2>1. file'[p].id \in RepoId /\ file'[p] # NotShared
    BY <1>5, <1>10 DEF GrantTable, RepoGrant, IsShared, NotShared
  <2>2. CASE file'[p].id = file[p].id
    BY <2>1, <2>2, <1>9 DEF IdsAtHome, IsShared
  <2>3. CASE cmd.op = "grant" /\ p = cmd.path /\ ~IsShared(file, p) /\ file'[p].id = id
    BY <2>1, <2>3, <1>3, <1>6
  <2> QED BY <2>1, <2>2, <2>3, <1>5 DEF EditEntry
<1> QED BY <1>5, <1>8, <1>9, <1>10 DEF IdsAtHome

\* Ids drawn later do not move those of an older copy of the table.
LEMMA HomeStays ==
  ASSUME NEW g \in GrantTable, IdsAtHome(g, drawn),
         \A id \in RepoId : drawn[id] # NoPath => drawn'[id] = drawn[id]
  PROVE  IdsAtHome(g, drawn')
<1> SUFFICES ASSUME NEW p \in Path, IsShared(g, p) PROVE drawn'[g[p].id] = p
  BY DEF IdsAtHome
<1>1. g[p].id \in RepoId
  BY DEF GrantTable, RepoGrant, IsShared
<1> QED BY <1>1 DEF IdsAtHome

\* An empty table has no ids to misplace.
LEMMA EmptyAtHome == IdsAtHome(EmptyGrants, drawn)
BY DEF IdsAtHome, EmptyGrants, IsShared, NotShared

LEMMA HoldersFinite ==
  /\ IsFiniteSet(Holders) /\ Cardinality(Holders) \in Nat
  /\ Cardinality(Holders') \in Nat
<1>1. Holders \in SUBSET Conn /\ Holders' \in SUBSET Conn
  BY DEF Holders
<1> QED BY <1>1, FS_Subset, FS_CardinalityType

\* How the number of permit holders changes when one task moves.
LEMMA HoldersStep ==
  ASSUME pc \in [Conn -> TaskStep], NEW c \in Conn, NEW step \in TaskStep, Goto(c, step)
  PROVE  /\ pc[c] \notin HoldsPermit /\ step \in HoldsPermit =>
              Cardinality(Holders') = Cardinality(Holders) + 1
         /\ pc[c] \in HoldsPermit /\ step \notin HoldsPermit =>
              Cardinality(Holders') = Cardinality(Holders) - 1
         /\ (pc[c] \in HoldsPermit <=> step \in HoldsPermit) => Holders' = Holders
<1>1. \A d \in Conn : pc'[d] = IF d = c THEN step ELSE pc[d]
  BY DEF Goto
<1>2. CASE pc[c] \notin HoldsPermit /\ step \in HoldsPermit
  <2>1. Holders' = Holders \cup {c} /\ c \notin Holders
    BY <1>1, <1>2 DEF Holders
  <2> QED BY <2>1, <1>2, HoldersFinite, FS_AddElement
<1>3. CASE pc[c] \in HoldsPermit /\ step \notin HoldsPermit
  <2>1. Holders' = Holders \ {c} /\ c \in Holders
    BY <1>1, <1>3 DEF Holders
  <2> QED BY <2>1, <1>3, HoldersFinite, FS_RemoveElement
<1>4. CASE pc[c] \in HoldsPermit <=> step \in HoldsPermit
  BY <1>1, <1>4 DEF Holders
<1> QED BY <1>2, <1>3, <1>4

LEMMA InitIInv == Init => IInv
<1> SUFFICES ASSUME Init PROVE IInv
  OBVIOUS
<1> USE DEF Init, WatcherInit, StoreInit
<1>1. file \in GrantTable /\ IdsAtHome(file, drawn)
  BY InitialGrantsAssumption
<1>2. drawn \in [RepoId -> Path \cup {NoPath}]
  BY <1>1 DEF DrawnFor, RepoPaths
<1>3. Holders = {}
  BY DEF Holders, HoldsPermit
<1>4. TypeOK
  BY <1>1, <1>2, GrantTableType
     DEF TypeOK, WatcherTypeOK, StoreTypeOK, WatcherIdle, NoSessions, TaskStep
<1>5. PermitAccounting
  BY <1>3, FS_EmptySet DEF PermitAccounting
<1>6. Quiet /\ Informed
  BY DEF Quiet, Informed, WatcherIdle, Watching
<1>7. CopiesAtHome
  BY <1>1, EmptyAtHome DEF CopiesAtHome, WatcherIdle
<1>8. AskedExact /\ RegistryExact /\ Unrevoked /\ PathsAtHome
  BY DEF AskedExact, RegistryExact, Unrevoked, PathsAtHome, Admitted, Live, NoSessions, Session
<1> QED BY <1>4, <1>5, <1>6, <1>7, <1>8 DEF IInv

-----------------------------------------------------------------------------
(* The steps of the tasks.                                                 *)

\* A task that holds its permit may return at any of its steps.
LEMMA ReturnStep ==
  ASSUME IInv, NEW c \in Conn, pc[c] \in HoldsPermit,
         Return(c), UNCHANGED git, UnchangedByTask
  PROVE  IInv'
<1> USE DEF IInv, Return, Goto, UnchangedByTask, storevars
<1>1. daemon = "serving"
  BY DEF Quiet, HoldsPermit
<1>2. \A d \in Conn : d # c => pc'[d] = pc[d] /\ asked'[d] = asked[d] /\ path'[d] = path[d]
                               /\ sessions'[d] = sessions[d]
  BY DEF TypeOK, WatcherTypeOK
<1>3. pc'[c] = "done" /\ asked'[c] = NoSession /\ sessions'[c] = NoSession
  BY DEF TypeOK, WatcherTypeOK
<1>4. PermitAccounting'
  <2>1. Cardinality(Holders') = Cardinality(Holders) - 1
    <3>1. "done" \in TaskStep /\ "done" \notin HoldsPermit
      BY DEF TaskStep, HoldsPermit
    <3> QED BY <3>1, HoldersStep DEF TypeOK
  <2> QED BY <2>1, HoldersFinite DEF PermitAccounting, TypeOK
<1>5. permits' \in 0 .. MaxConnections
  BY <1>4, HoldersFinite DEF PermitAccounting, TypeOK
<1>6. TypeOK'
  BY <1>5 DEF TypeOK, WatcherTypeOK, StoreTypeOK, TaskStep
<1>7. Quiet'
  BY <1>1 DEF Quiet, Watching
<1>8. AskedExact' /\ RegistryExact' /\ PathsAtHome'
  BY <1>2, <1>3 DEF AskedExact, RegistryExact, PathsAtHome, Admitted, Session
<1>9. Unrevoked'
  BY <1>2, <1>3 DEF Unrevoked, Live, Allowed
<1>10. CopiesAtHome' /\ Informed'
  BY DEF CopiesAtHome, Informed
<1> QED BY <1>4, <1>6, <1>7, <1>8, <1>9, <1>10

\* A task that is not admitted moves to a step at which it still is not.
LEMMA MoveStep ==
  ASSUME IInv, daemon = "serving", NEW c \in Conn, NEW step \in TaskStep, Goto(c, step),
         pc[c] \notin Admitted, step \notin Admitted,
         permits' \in Nat, PermitAccounting',
         UNCHANGED <<sessions, asked, path, git, waits>>, UnchangedByTask
  PROVE  IInv'
<1> USE DEF IInv, Goto, UnchangedByTask, storevars
<1>1. \A d \in Conn : pc'[d] = IF d = c THEN step ELSE pc[d]
  BY DEF TypeOK
<1>2. permits' \in 0 .. MaxConnections
  BY HoldersFinite DEF PermitAccounting
<1>3. TypeOK'
  BY <1>2 DEF TypeOK, WatcherTypeOK, StoreTypeOK
<1>4. Quiet'
  BY DEF Quiet, Watching
<1>5. AskedExact' /\ RegistryExact' /\ PathsAtHome'
  BY <1>1 DEF AskedExact, RegistryExact, PathsAtHome, Admitted
<1>6. Unrevoked'
  BY <1>1 DEF Unrevoked, Live, Allowed, Admitted
<1>7. CopiesAtHome' /\ Informed'
  BY DEF CopiesAtHome, Informed
<1> QED BY <1>3, <1>4, <1>5, <1>6, <1>7

\* A step that changes neither the permits nor who holds one.
LEMMA PermitsStay ==
  ASSUME IInv, NEW c \in Conn, NEW step \in TaskStep, Goto(c, step),
         pc[c] \in HoldsPermit <=> step \in HoldsPermit, UNCHANGED permits
  PROVE  permits' \in Nat /\ PermitAccounting'
<1>1. Holders' = Holders
  BY HoldersStep DEF IInv, TypeOK
<1> QED BY <1>1 DEF IInv, TypeOK, PermitAccounting

LEMMA AcceptLoopStep ==
  ASSUME IInv, NEW c \in Conn, Accept(c) \/ Refuse(c) PROVE IInv'
<1>1. CASE Accept(c)
  <2>1. "connecting" \in TaskStep /\ "connecting" \in HoldsPermit /\ "none" \notin HoldsPermit
        /\ "none" \notin Admitted /\ "connecting" \notin Admitted
    BY DEF TaskStep, HoldsPermit, Admitted
  <2>2. Cardinality(Holders') = Cardinality(Holders) + 1
    BY <1>1, <2>1, HoldersStep DEF Accept, IInv, TypeOK
  <2>3. permits' \in Nat /\ PermitAccounting'
    BY <1>1, <2>2, HoldersFinite DEF Accept, IInv, TypeOK, PermitAccounting
  <2> QED BY <1>1, <2>1, <2>3, MoveStep DEF Accept
<1>2. CASE Refuse(c)
  <2>1. "done" \in TaskStep /\ "done" \notin HoldsPermit /\ "none" \notin HoldsPermit
        /\ "none" \notin Admitted /\ "done" \notin Admitted
    BY DEF TaskStep, HoldsPermit, Admitted
  <2>2. permits' \in Nat /\ PermitAccounting'
    BY <1>2, <2>1, PermitsStay DEF Refuse
  <2> QED BY <1>2, <2>1, <2>2, MoveStep DEF Refuse
<1> QED BY <1>1, <1>2

\* The steps of a task that is not admitted.
LEMMA UnadmittedStep ==
  ASSUME IInv, NEW c \in Conn,
         \/ Established(c)
         \/ \E caller \in Node, req \in Sent : Deny(c, caller, req)
         \/ SendRejection(c)
         \/ LingerEnds(c)
  PROVE  IInv'
<1>1. pc[c] \in {"connecting", "handshake", "rejecting", "lingering"} => daemon = "serving"
  BY DEF IInv, Quiet
<1>2. CASE Established(c)
  <2>1. /\ "handshake" \in TaskStep /\ {"connecting", "handshake"} \subseteq HoldsPermit
        /\ "connecting" \notin Admitted /\ "handshake" \notin Admitted
    BY DEF TaskStep, HoldsPermit, Admitted
  <2>2. permits' \in Nat /\ PermitAccounting'
    BY <1>2, <2>1, PermitsStay DEF Established
  <2> QED BY <1>1, <1>2, <2>1, <2>2, MoveStep DEF Established
<1>3. ASSUME NEW caller \in Node, NEW req \in Sent, Deny(c, caller, req) PROVE IInv'
  <2>1. /\ "rejecting" \in TaskStep /\ {"rejecting", "handshake"} \subseteq HoldsPermit
        /\ "rejecting" \notin Admitted /\ "handshake" \notin Admitted
    BY DEF TaskStep, HoldsPermit, Admitted
  <2>2. permits' \in Nat /\ PermitAccounting'
    BY <1>3, <2>1, PermitsStay DEF Deny
  <2> QED BY <1>1, <1>3, <2>1, <2>2, MoveStep DEF Deny
<1>4. CASE SendRejection(c)
  <2>1. /\ "lingering" \in TaskStep /\ "lingering" \notin HoldsPermit /\ "rejecting" \in HoldsPermit
        /\ "rejecting" \notin Admitted /\ "lingering" \notin Admitted
    BY DEF TaskStep, HoldsPermit, Admitted
  <2>2. Cardinality(Holders') = Cardinality(Holders) - 1
    BY <1>4, <2>1, HoldersStep DEF SendRejection, IInv, TypeOK
  <2>3. permits' \in Nat /\ PermitAccounting'
    BY <1>4, <2>2, HoldersFinite DEF SendRejection, IInv, TypeOK, PermitAccounting
  <2> QED BY <1>1, <1>4, <2>1, <2>3, MoveStep DEF SendRejection
<1>5. CASE LingerEnds(c)
  <2>1. /\ "done" \in TaskStep /\ "lingering" \notin HoldsPermit /\ "done" \notin HoldsPermit
        /\ "done" \notin Admitted /\ "lingering" \notin Admitted
    BY DEF TaskStep, HoldsPermit, Admitted
  <2>2. permits' \in Nat /\ PermitAccounting'
    BY <1>5, <2>1, PermitsStay DEF LingerEnds
  <2> QED BY <1>1, <1>5, <2>1, <2>2, MoveStep DEF LingerEnds
<1> QED BY <1>2, <1>3, <1>4, <1>5

\* Authorization resolves the path the id was drawn for.
LEMMA AuthorizeStep ==
  ASSUME IInv, NEW c \in Conn, NEW caller \in Node, NEW req \in Sent, Authorize(c, caller, req)
  PROVE  IInv'
<1> USE DEF IInv, Authorize, Goto, UnchangedByTask, storevars
<1> DEFINE s == [kind |-> "pack", caller |-> caller, req |-> req]
<1>1. s \in PackSession /\ s.req = req
  BY DEF PackSession
<1>2. PICK p \in RepoPaths(grants, req.repo_id) : path' = [path EXCEPT ![c] = p]
  OBVIOUS
<1>3. p \in Path /\ p = drawn[req.repo_id]
  BY DEF RepoPaths, CopiesAtHome, IdsAtHome, IsShared, Request
<1>4. daemon = "serving"
  BY DEF Quiet
<1>5. asked' = [asked EXCEPT ![c] = s] /\ pc' = [pc EXCEPT ![c] = "replying"]
  OBVIOUS
<1> HIDE DEF s, Authorize, Goto
<1>6. /\ pc'[c] = "replying" /\ asked'[c] = s /\ path'[c] = p
      /\ \A d \in Conn : d # c => pc'[d] = pc[d] /\ asked'[d] = asked[d] /\ path'[d] = path[d]
  BY <1>2, <1>5 DEF TypeOK
<1> USE DEF Authorize, Goto
<1>7. permits' \in Nat /\ PermitAccounting'
  <2>1. "replying" \in TaskStep /\ {"replying", "handshake"} \subseteq HoldsPermit
    BY DEF TaskStep, HoldsPermit
  <2> QED BY <2>1, PermitsStay
<1>8. TypeOK'
  BY <1>1, <1>2, <1>3, <1>5 DEF TypeOK, WatcherTypeOK, StoreTypeOK, TaskStep, HoldsPermit
<1>9. Quiet'
  BY <1>4 DEF Quiet, Watching
<1>10. AskedExact' /\ PathsAtHome'
  BY <1>1, <1>3, <1>6 DEF AskedExact, PathsAtHome, Admitted
<1>11. RegistryExact'
  BY <1>6 DEF RegistryExact
<1>12. Unrevoked'
  BY <1>6 DEF Unrevoked, Live, Allowed
<1>13. CopiesAtHome' /\ Informed'
  BY DEF CopiesAtHome, Informed
<1> QED BY <1>7, <1>8, <1>9, <1>10, <1>11, <1>12, <1>13

LEMMA RegisterStep ==
  ASSUME IInv, NEW c \in Conn, ReplyAndRegister(c) PROVE IInv'
<1> USE DEF IInv, ReplyAndRegister, Goto, UnchangedByTask, storevars
<1>1. /\ pc'[c] = "registered" /\ sessions'[c] = asked[c]
      /\ \A d \in Conn : d # c => pc'[d] = pc[d] /\ sessions'[d] = sessions[d]
  BY DEF TypeOK, WatcherTypeOK
<1>2. asked[c] \in PackSession /\ daemon = "serving"
  BY DEF AskedExact, Admitted, Quiet
<1>3. permits' \in Nat /\ PermitAccounting'
  <2>1. "registered" \in TaskStep /\ {"replying", "registered"} \subseteq HoldsPermit
    BY DEF TaskStep, HoldsPermit
  <2> QED BY <2>1, PermitsStay
<1>4. TypeOK'
  BY <1>2 DEF TypeOK, WatcherTypeOK, StoreTypeOK, TaskStep, HoldsPermit, Session
<1>5. Quiet'
  BY <1>2 DEF Quiet, Watching
<1>6. AskedExact' /\ PathsAtHome'
  BY <1>1 DEF AskedExact, PathsAtHome, Admitted
<1>7. RegistryExact'
  BY <1>1 DEF RegistryExact
<1>8. Unrevoked'
  BY <1>1 DEF Unrevoked, Live, Allowed
<1>9. CopiesAtHome' /\ Informed'
  BY DEF CopiesAtHome, Informed
<1> QED BY <1>3, <1>4, <1>5, <1>6, <1>7, <1>8, <1>9

\* A session goes live authorized by the published grants.
LEMMA SpawnStep ==
  ASSUME IInv, NEW c \in Conn, RecheckAndSpawn(c) PROVE IInv'
<1> USE DEF IInv, RecheckAndSpawn, Spawn, Wait, Goto, UnchangedByTask, storevars
<1>1. \A d \in Conn : pc'[d] = IF d = c THEN "serving" ELSE pc[d]
  BY DEF TypeOK
<1>2. daemon = "serving"
  BY DEF Quiet
<1>3. permits' \in Nat /\ PermitAccounting'
  <2>1. "serving" \in TaskStep /\ {"serving", "registered"} \subseteq HoldsPermit
    BY DEF TaskStep, HoldsPermit
  <2> QED BY <2>1, PermitsStay
<1>4. TypeOK'
  BY DEF TypeOK, WatcherTypeOK, StoreTypeOK, TaskStep, HoldsPermit
<1>5. Quiet'
  BY <1>2 DEF Quiet, Watching
<1>6. AskedExact' /\ PathsAtHome'
  BY <1>1 DEF AskedExact, PathsAtHome, Admitted
<1>7. RegistryExact'
  BY <1>1 DEF RegistryExact
<1>8. Unrevoked'
  BY <1>1 DEF Unrevoked, Live, Allowed
<1>9. CopiesAtHome' /\ Informed'
  BY DEF CopiesAtHome, Informed
<1> QED BY <1>3, <1>4, <1>5, <1>6, <1>7, <1>8, <1>9

\* The two copies of a serve move nothing but what they wait for.
LEMMA CopyUntouched ==
  ASSUME NEW c \in Conn, CopyStep(c), waits \in [Conn -> SUBSET Wait]
  PROVE  /\ UNCHANGED <<sessions, pc, asked, path, git, permits>> /\ UnchangedByTask
         /\ waits' \in [Conn -> SUBSET Wait]
BY DEF CopyStep, InputRead, InputWritten, InputEnds, OutputRead, OutputSent, Turn, Wait

LEMMA CopyInv ==
  ASSUME IInv, NEW c \in Conn, CopyStep(c) PROVE IInv'
<1>1. /\ UNCHANGED <<sessions, pc, asked, path, git, permits>> /\ UnchangedByTask
      /\ waits' \in [Conn -> SUBSET Wait]
  BY CopyUntouched DEF IInv, TypeOK
<1> USE <1>1 DEF IInv, UnchangedByTask, storevars
<1>2. TypeOK'
  BY DEF TypeOK, WatcherTypeOK, StoreTypeOK
<1>3. PermitAccounting' /\ Quiet' /\ CopiesAtHome' /\ Informed'
  BY DEF PermitAccounting, Holders, Quiet, Watching, CopiesAtHome, Informed
<1>4. AskedExact' /\ RegistryExact' /\ PathsAtHome'
  BY DEF AskedExact, RegistryExact, PathsAtHome
<1>5. Unrevoked'
  BY DEF Unrevoked, Live, Allowed
<1> QED BY <1>2, <1>3, <1>4, <1>5

LEMMA TaskInv ==
  ASSUME IInv, NEW c \in Conn, TaskStepOf(c) PROVE IInv'
<1>1. CASE ConnectFails(c) \/ HandshakeFails(c) \/ ReplyFails(c) \/ RecheckFails(c)
           \/ ServeCompletes(c) \/ ServeAborts(c) \/ SendRejectionFails(c)
  <2>1. pc[c] \in HoldsPermit /\ Return(c) /\ UNCHANGED git /\ UnchangedByTask
    BY <1>1 DEF ConnectFails, HandshakeFails, ReplyFails, RecheckFails, ServeCompletes,
                ServeAborts, SendRejectionFails, HoldsPermit
  <2> QED BY <2>1, ReturnStep
<1> QED BY <1>1, UnadmittedStep, AuthorizeStep, RegisterStep, SpawnStep, CopyInv DEF TaskStepOf

-----------------------------------------------------------------------------
(* The steps of the file, of `run` and of the watcher task.                *)

\* What no step of these can disturb.
LEMMA TasksUntouched ==
  ASSUME IInv, UNCHANGED packvars, UNCHANGED sessions
  PROVE  PermitAccounting' /\ AskedExact' /\ RegistryExact'
BY DEF IInv, packvars, PermitAccounting, AskedExact, RegistryExact, Holders

LEMMA EditInv ==
  ASSUME IInv, PorcelainEdit, UNCHANGED packvars PROVE IInv'
<1> USE DEF IInv, PorcelainEdit, packvars
<1>1. PICK cmd \in Command : Edit(cmd)
  OBVIOUS
<1>2. /\ StoreTypeOK' /\ IdsAtHome(file, drawn)'
      /\ \A id \in RepoId : drawn[id] # NoPath => drawn'[id] = drawn[id]
  BY <1>1, EditStep DEF TypeOK, WatcherTypeOK, CopiesAtHome
<1>3. TypeOK'
  BY <1>2 DEF TypeOK, WatcherTypeOK, Notify
<1>4. Quiet' /\ Unrevoked'
  BY DEF Quiet, Watching, Unrevoked, Live, Allowed
<1>5. IdsAtHome(grants, drawn)' /\ IdsAtHome(watcher.reloaded, drawn)'
  BY <1>2, HomeStays DEF TypeOK, WatcherTypeOK, CopiesAtHome
<1>6. CopiesAtHome'
  BY <1>2, <1>5 DEF CopiesAtHome
<1>7. PathsAtHome'
  <2> SUFFICES ASSUME NEW c \in Conn, pc[c] \in Admitted
               PROVE  path[c] = drawn'[asked[c].req.repo_id] /\ path[c] \in Path
    BY DEF PathsAtHome
  <2>1. asked[c].req.repo_id \in RepoId
    BY DEF AskedExact, PackSession, Request
  <2> QED BY <2>1, <1>2 DEF PathsAtHome
<1>8. Informed'
  BY DEF Informed, Notify, Watching, TypeOK, WatcherTypeOK
<1> QED BY <1>3, <1>4, <1>6, <1>7, <1>8, TasksUntouched

\* The other events, and `run` up to the accept loop.
LEMMA RunInv ==
  ASSUME IInv, OtherFileChanges \/ LoadInitial \/ SpawnWatcher \/ GoOnline, UNCHANGED packvars
  PROVE  IInv'
<1> USE DEF IInv, packvars, storevars
<1>0. PermitAccounting' /\ AskedExact' /\ RegistryExact'
  BY TasksUntouched DEF OtherFileChanges, LoadInitial, SpawnWatcher, GoOnline
<1>1. CASE OtherFileChanges
  <2> USE <1>1 DEF OtherFileChanges, Notify
  <2>1. TypeOK'
    BY DEF TypeOK, WatcherTypeOK, StoreTypeOK
  <2>2. Informed'
    BY DEF Informed, TypeOK, WatcherTypeOK
  <2> QED BY <1>0, <2>1, <2>2
      DEF Quiet, Watching, Unrevoked, Live, Allowed, CopiesAtHome, PathsAtHome
<1>2. CASE LoadInitial
  <2> USE <1>2 DEF LoadInitial
  <2>1. TypeOK'
    BY DEF TypeOK, WatcherTypeOK, StoreTypeOK
  <2>2. Quiet' /\ Unrevoked' /\ Informed'
    BY DEF Quiet, Watching, Unrevoked, Live, Informed
  <2>3. CopiesAtHome' /\ PathsAtHome'
    BY DEF CopiesAtHome, PathsAtHome
  <2> QED BY <1>0, <2>1, <2>2, <2>3
<1>3. CASE SpawnWatcher
  <2> USE <1>3 DEF SpawnWatcher
  <2>1. TypeOK'
    BY DEF TypeOK, WatcherTypeOK, StoreTypeOK
  <2>2. Quiet' /\ Unrevoked' /\ Informed'
    BY DEF Quiet, Watching, Unrevoked, Live, Allowed, Informed
  <2>3. CopiesAtHome' /\ PathsAtHome'
    BY DEF CopiesAtHome, PathsAtHome
  <2> QED BY <1>0, <2>1, <2>2, <2>3
<1>4. CASE GoOnline
  <2> USE <1>4 DEF GoOnline, Notify, Watching
  <2>1. TypeOK'
    BY DEF TypeOK, WatcherTypeOK, StoreTypeOK
  <2>2. Quiet' /\ Unrevoked'
    BY DEF Quiet, Unrevoked, Live, Allowed
  <2>3. Informed'
    BY DEF Informed, TypeOK, WatcherTypeOK
  <2>4. CopiesAtHome' /\ PathsAtHome'
    BY DEF CopiesAtHome, PathsAtHome
  <2> QED BY <1>0, <2>1, <2>2, <2>3, <2>4
<1> QED BY <1>1, <1>2, <1>3, <1>4

LEMMA WatcherInv ==
  ASSUME IInv, WatcherStep \/ ReloadFails, UNCHANGED packvars
  PROVE  IInv'
<1> USE DEF IInv, packvars, storevars
<1>0. PermitAccounting' /\ AskedExact' /\ RegistryExact'
  BY TasksUntouched
  DEF WatcherStep, Reload, ReloadFails, Publish, UpdateStatus, Sweep, CloseRevoked, SweepDone
<1>10. watcher.pc # "idle" => Watching /\ ~watcher.failed
  BY DEF Quiet
<1>11. \A c \in Conn : Live(c) => sessions[c] = asked[c] /\ asked[c] # NoSession
  BY DEF Live, RegistryExact, AskedExact, Admitted, Session
<1>1. CASE Reload
  <2> USE <1>1 DEF Reload, Receive, WatcherIdle
  <2>1. TypeOK'
    <3>1. watcher' = [pc |-> "publish", reloaded |-> file, revoked |-> {}, failed |-> FALSE]
      OBVIOUS
    <3>2. events' \in 0 .. MaxEvents
      BY DEF TypeOK, WatcherTypeOK
    <3> HIDE DEF Receive
    <3> QED BY <3>1, <3>2 DEF TypeOK, WatcherTypeOK, StoreTypeOK
  <2>2. Quiet' /\ Unrevoked' /\ Informed'
    BY DEF Quiet, Watching, Unrevoked, Live, Allowed, Informed
  <2>3. CopiesAtHome' /\ PathsAtHome'
    BY DEF CopiesAtHome, PathsAtHome
  <2> QED BY <1>0, <2>1, <2>2, <2>3
<1>2. CASE ReloadFails
  <2> USE <1>2 DEF ReloadFails, Receive
  <2>1. /\ watcher'.pc = watcher.pc /\ watcher'.reloaded = watcher.reloaded
        /\ watcher'.revoked = watcher.revoked /\ watcher'.failed = TRUE
    BY DEF TypeOK, WatcherTypeOK
  <2>2. TypeOK'
    <3>1. watcher' = [watcher EXCEPT !.failed = TRUE]
      OBVIOUS
    <3>2. events' \in 0 .. MaxEvents
      BY DEF TypeOK, WatcherTypeOK
    <3> HIDE DEF Receive
    <3> QED BY <3>1, <3>2 DEF TypeOK, WatcherTypeOK, StoreTypeOK
  <2>3. Quiet' /\ Unrevoked' /\ Informed'
    BY <2>1 DEF Quiet, Watching, Unrevoked, Live, Allowed, Informed
  <2>4. CopiesAtHome' /\ PathsAtHome'
    BY <2>1 DEF CopiesAtHome, PathsAtHome
  <2> QED BY <1>0, <2>2, <2>3, <2>4
<1>3. CASE Publish
  <2> USE <1>3 DEF Publish, WatcherIdle
  <2>1. TypeOK'
    <3>1. watcher' = [pc |-> "status", reloaded |-> EmptyGrants, revoked |-> {}, failed |-> FALSE]
      OBVIOUS
    <3> QED BY <3>1, GrantTableType DEF TypeOK, WatcherTypeOK, StoreTypeOK
  <2>2. Quiet' /\ Unrevoked' /\ Informed'
    BY <1>10 DEF Quiet, Watching, Unrevoked, Informed
  <2>3. CopiesAtHome' /\ PathsAtHome'
    BY EmptyAtHome DEF CopiesAtHome, PathsAtHome
  <2> QED BY <1>0, <2>1, <2>2, <2>3
<1>4. CASE UpdateStatus
  <2> USE <1>4 DEF UpdateStatus
  <2>1. watcher'.pc = "sweep" /\ watcher'.reloaded = watcher.reloaded /\ watcher'.revoked = watcher.revoked
    BY DEF TypeOK, WatcherTypeOK
  <2>2. TypeOK'
    <3>1. watcher' = [watcher EXCEPT !.pc = "sweep"]
      OBVIOUS
    <3> QED BY <3>1 DEF TypeOK, WatcherTypeOK, StoreTypeOK
  <2>3. Quiet' /\ Unrevoked' /\ Informed'
    BY <1>10, <2>1 DEF Quiet, Watching, Unrevoked, Informed
  <2>4. CopiesAtHome' /\ PathsAtHome'
    BY <2>1 DEF CopiesAtHome, PathsAtHome
  <2> QED BY <1>0, <2>2, <2>3, <2>4
<1>5. CASE Sweep
  <2> USE <1>5 DEF Sweep, WatcherIdle
  <2>1. TypeOK'
    <3> DEFINE R == {c \in Conn : sessions[c] # NoSession /\ ~still_authorized(grants, sessions[c])}
    <3>1. watcher' = [pc |-> "close", reloaded |-> EmptyGrants, revoked |-> R, failed |-> FALSE]
      OBVIOUS
    <3>2. R \in SUBSET Conn
      OBVIOUS
    <3> HIDE DEF R
    <3> QED BY <3>1, <3>2, GrantTableType DEF TypeOK, WatcherTypeOK, StoreTypeOK
  <2>2. Quiet' /\ Informed'
    BY <1>10 DEF Quiet, Watching, Informed
  <2>3. Unrevoked'
    BY <1>11 DEF Unrevoked, Live, Allowed
  <2>4. CopiesAtHome' /\ PathsAtHome'
    BY EmptyAtHome DEF CopiesAtHome, PathsAtHome
  <2> QED BY <1>0, <2>1, <2>2, <2>3, <2>4
<1>6. CASE CloseRevoked
  <2> USE <1>6 DEF CloseRevoked
  <2>1. PICK c \in watcher.revoked :
          closed' = closed \cup {c} /\ watcher' = [watcher EXCEPT !.revoked = @ \ {c}]
    OBVIOUS
  <2>2. /\ watcher'.pc = watcher.pc /\ watcher'.reloaded = watcher.reloaded
        /\ watcher'.revoked = watcher.revoked \ {c}
    BY <2>1 DEF TypeOK, WatcherTypeOK
  <2>3. TypeOK'
    BY <2>1 DEF TypeOK, WatcherTypeOK, StoreTypeOK
  <2>4. Quiet' /\ Informed'
    BY <2>2 DEF Quiet, Watching, Informed
  <2>5. Unrevoked'
    BY <2>1, <2>2 DEF Unrevoked, Live, Allowed
  <2>6. CopiesAtHome' /\ PathsAtHome'
    BY <2>2 DEF CopiesAtHome, PathsAtHome
  <2> QED BY <1>0, <2>3, <2>4, <2>5, <2>6
<1>7. CASE SweepDone
  <2> USE <1>7 DEF SweepDone, WatcherIdle
  <2>1. TypeOK'
    <3>1. watcher' = [pc |-> "idle", reloaded |-> EmptyGrants, revoked |-> {}, failed |-> FALSE]
      OBVIOUS
    <3> QED BY <3>1, GrantTableType DEF TypeOK, WatcherTypeOK, StoreTypeOK
  <2>2. Quiet' /\ Unrevoked' /\ Informed'
    BY <1>10 DEF Quiet, Watching, Unrevoked, Live, Allowed, Informed
  <2>3. CopiesAtHome' /\ PathsAtHome'
    BY EmptyAtHome DEF CopiesAtHome, PathsAtHome
  <2> QED BY <1>0, <2>1, <2>2, <2>3
<1> QED BY <1>1, <1>2, <1>3, <1>4, <1>5, <1>6, <1>7 DEF WatcherStep

LEMMA StopInv == ASSUME IInv, StopAll PROVE IInv'
<1> USE DEF IInv, StopAll, Stop, storevars, WatcherIdle, NoSessions
<1>1. \A c \in Conn : pc'[c] \in {"none", "done"}
  OBVIOUS
<1>2. PermitAccounting'
  <2>1. Holders' = {}
    BY <1>1 DEF Holders, HoldsPermit
  <2> QED BY <2>1, FS_EmptySet DEF PermitAccounting
<1>3. TypeOK'
  BY GrantTableType DEF TypeOK, WatcherTypeOK, StoreTypeOK, TaskStep
<1>4. Quiet' /\ Informed'
  BY <1>1 DEF Quiet, Informed
<1>5. AskedExact' /\ RegistryExact' /\ Unrevoked' /\ PathsAtHome'
  BY <1>1 DEF AskedExact, RegistryExact, Unrevoked, PathsAtHome, Admitted, Live, Session
<1>6. CopiesAtHome'
  BY EmptyAtHome DEF CopiesAtHome
<1> QED BY <1>2, <1>3, <1>4, <1>5, <1>6

LEMMA GitExitsInv == ASSUME IInv, NEW c \in Conn, GitExits(c) PROVE IInv'
<1> USE DEF IInv, GitExits, UnchangedByTask, storevars
<1>1. TypeOK'
  BY DEF TypeOK, WatcherTypeOK, StoreTypeOK
<1>2. PermitAccounting' /\ AskedExact' /\ RegistryExact' /\ PathsAtHome'
  BY DEF PermitAccounting, Holders, AskedExact, RegistryExact, PathsAtHome
<1>3. Quiet' /\ Unrevoked' /\ CopiesAtHome' /\ Informed'
  BY DEF Quiet, Watching, Unrevoked, Live, Allowed, CopiesAtHome, Informed
<1> QED BY <1>1, <1>2, <1>3

LEMMA StutterInv == ASSUME IInv, UNCHANGED vars PROVE IInv'
<1> USE DEF IInv, vars, storevars, watchervars, packvars
<1>1. TypeOK'
  BY DEF TypeOK, WatcherTypeOK, StoreTypeOK
<1>2. PermitAccounting' /\ AskedExact' /\ RegistryExact' /\ PathsAtHome'
  BY DEF PermitAccounting, Holders, AskedExact, RegistryExact, PathsAtHome
<1>3. Quiet' /\ Unrevoked' /\ CopiesAtHome' /\ Informed'
  BY DEF Quiet, Watching, Unrevoked, Live, Allowed, CopiesAtHome, Informed
<1> QED BY <1>1, <1>2, <1>3

LEMMA NextIInv == IInv /\ [Next]_vars => IInv'
<1> SUFFICES ASSUME IInv, [Next]_vars PROVE IInv'
  OBVIOUS
<1>1. CASE DaemonStep
  BY <1>1, EditInv, RunInv, WatcherInv DEF DaemonStep
<1>2. ASSUME NEW c \in Conn, Accept(c) \/ Refuse(c) \/ TaskStepOf(c) \/ GitExits(c) PROVE IInv'
  BY <1>2, AcceptLoopStep, TaskInv, GitExitsInv
<1>3. CASE StopAll
  BY <1>3, StopInv
<1>4. CASE UNCHANGED vars
  BY <1>4, StutterInv
<1> QED BY <1>1, <1>2, <1>3, <1>4 DEF Next

LEMMA Invariance == Spec => []IInv
BY InitIInv, NextIInv, PTL DEF Spec

-----------------------------------------------------------------------------

\* Every state the daemon reaches is well-typed.
THEOREM TypeCorrect == Spec => []TypeOK
BY Invariance, PTL DEF IInv

\* Whenever the watcher task rests, every live session is one the published
\* grants authorize.
THEOREM NoSessionEscapes == Spec => []NoEscape
<1>1. IInv => NoEscape
  BY DEF IInv, Unrevoked, NoEscape
<1> QED BY <1>1, Invariance, PTL

\* A serving daemon with no event left has published the file's content.
THEOREM NoChangeMissed == Spec => []UpToDate
<1>1. IInv => UpToDate
  BY DEF IInv, Informed, UpToDate
<1> QED BY <1>1, Invariance, PTL

\* Git runs in the repository the ticket was made for.
THEOREM RightRepository == Spec => []ServesTicketRepo
<1>1. IInv => ServesTicketRepo
  BY DEF IInv, PathsAtHome, Admitted, ServesTicketRepo
<1> QED BY <1>1, Invariance, PTL

\* No permit leaks and none is released twice.
THEOREM PermitsAccounted == Spec => []PermitAccounting
BY Invariance, PTL DEF IInv

\* The registry holds exactly the sessions a sweep has to look at.
THEOREM RegistryIsExact == Spec => []RegistryExact
BY Invariance, PTL DEF IInv

-----------------------------------------------------------------------------
(* A reload closes only what it forbids.                                   *)

\* While the watcher holds the grants mutex to close its victims, each is still
\* the session the sweep found forbidden, or has ended.
Victims ==
  watcher.pc = "close" =>
    \A c \in watcher.revoked : /\ pc[c] \in {"registered", "serving", "done"}
                               /\ pc[c] # "done" => ~Allowed(c)

\* A task that is a victim cannot pass its recheck, and none becomes one.
LEMMA TaskKeepsVictims ==
  ASSUME IInv, Victims, NEW c \in Conn,
         Accept(c) \/ Refuse(c) \/ TaskStepOf(c) \/ GitExits(c)
  PROVE  Victims'
<1> USE DEF UnchangedByTask, storevars
<1>0. pc \in [Conn -> TaskStep] /\ asked \in [Conn -> PackSession \cup {NoSession}]
      /\ (watcher.pc = "close" => watcher.revoked \subseteq Conn)
  BY DEF IInv, TypeOK, WatcherTypeOK
<1>1. CASE UNCHANGED <<watcher, grants, pc, asked>>
  BY <1>1 DEF Victims, Allowed
<1>2. CASE /\ UNCHANGED <<watcher, grants>>
           /\ \A d \in Conn : d # c => pc'[d] = pc[d] /\ asked'[d] = asked[d]
           /\ pc'[c] = "done" \/ pc[c] \notin {"registered", "serving", "done"}
  BY <1>0, <1>2 DEF Victims, Allowed
<1>3. CASE RecheckAndSpawn(c)
  <2>1. watcher' = watcher /\ watcher.pc # "close"
    BY <1>3 DEF RecheckAndSpawn, GrantsUnlocked
  <2> QED BY <2>1 DEF Victims
<1>4. CASE Return(c) /\ UnchangedByTask
  <2>1. UNCHANGED <<watcher, grants>>
        /\ pc'[c] = "done"
        /\ \A d \in Conn : d # c => pc'[d] = pc[d] /\ asked'[d] = asked[d]
    BY <1>0, <1>4 DEF Return, Goto
  <2> QED BY <2>1, <1>2
<1>5. CASE /\ \E step \in TaskStep : Goto(c, step)
           /\ \A d \in Conn : d # c => asked'[d] = asked[d]
           /\ UnchangedByTask
           /\ pc[c] \notin {"registered", "serving", "done"}
  <2>1. UNCHANGED <<watcher, grants>>
        /\ \A d \in Conn : d # c => pc'[d] = pc[d] /\ asked'[d] = asked[d]
    BY <1>0, <1>5 DEF Goto
  <2> QED BY <2>1, <1>5, <1>2
<1>6. {"connecting", "handshake", "replying", "registered", "rejecting", "lingering", "done"}
        \subseteq TaskStep
  BY DEF TaskStep, HoldsPermit
<1>7. CASE Accept(c) \/ Refuse(c) \/ Established(c) \/ ReplyAndRegister(c) \/ SendRejection(c)
           \/ LingerEnds(c) \/ \E caller \in Node, req \in Sent : Deny(c, caller, req)
  BY <1>5, <1>6, <1>7
  DEF Accept, Refuse, Established, ReplyAndRegister, SendRejection, LingerEnds, Deny
<1>8. ASSUME NEW caller \in Node, NEW req \in Sent, Authorize(c, caller, req) PROVE Victims'
  <2>1. \A d \in Conn : d # c => asked'[d] = asked[d]
    BY <1>0, <1>8 DEF Authorize
  <2> QED BY <1>5, <1>6, <1>8, <2>1 DEF Authorize
<1>9. CASE ConnectFails(c) \/ HandshakeFails(c) \/ ReplyFails(c) \/ RecheckFails(c)
           \/ ServeCompletes(c) \/ ServeAborts(c) \/ SendRejectionFails(c)
  BY <1>4, <1>9 DEF ConnectFails, HandshakeFails, ReplyFails, RecheckFails, ServeCompletes,
                    ServeAborts, SendRejectionFails
<1>10. CASE GitExits(c) \/ CopyStep(c)
  <2>1. CopyStep(c) => UNCHANGED <<watcher, grants, pc, asked>>
    BY CopyUntouched DEF IInv, TypeOK
  <2> QED BY <1>1, <1>10, <2>1 DEF GitExits
<1> QED BY <1>3, <1>7, <1>8, <1>9, <1>10 DEF TaskStepOf

\* The sweep picks its victims from an exact registry; closing one drops it.
LEMMA DaemonKeepsVictims ==
  ASSUME IInv, Victims, DaemonStep PROVE Victims'
<1>0. UNCHANGED <<pc, asked>> /\ WatcherTypeOK /\ Quiet /\ RegistryExact
  BY DEF DaemonStep, packvars, IInv, TypeOK
<1>1. CASE PorcelainEdit \/ OtherFileChanges \/ SpawnWatcher \/ GoOnline
  BY <1>0, <1>1 DEF Victims, Allowed, PorcelainEdit, OtherFileChanges, SpawnWatcher, GoOnline
<1>2. CASE LoadInitial
  BY <1>0, <1>2 DEF Victims, LoadInitial, Quiet, Watching
<1>3. CASE Reload \/ ReloadFails \/ Publish \/ UpdateStatus \/ SweepDone
  <2>1. CASE Reload \/ Publish \/ SweepDone
    <3>1. Reload => watcher'.pc = "publish"
      BY DEF Reload, WatcherIdle
    <3>2. Publish => watcher'.pc = "status"
      BY DEF Publish, WatcherIdle
    <3>3. SweepDone => watcher'.pc = "idle"
      BY DEF SweepDone, WatcherIdle
    <3> QED BY <2>1, <3>1, <3>2, <3>3 DEF Victims
  <2>2. CASE ReloadFails
    <3>1. watcher'.pc = "idle"
      BY <1>0, <2>2 DEF ReloadFails, Receive, WatcherTypeOK
    <3> QED BY <3>1 DEF Victims
  <2>3. CASE UpdateStatus
    <3>1. watcher'.pc = "sweep"
      BY <1>0, <2>3 DEF UpdateStatus, WatcherTypeOK
    <3> QED BY <3>1 DEF Victims
  <2> QED BY <1>3, <2>1, <2>2, <2>3
<1>4. CASE Sweep
  <2>1. /\ grants' = grants
        /\ watcher'.revoked = {c \in Conn : /\ sessions[c] # NoSession
                                            /\ ~still_authorized(grants, sessions[c])}
    BY <1>4 DEF Sweep, WatcherIdle
  <2>2. ASSUME NEW c \in watcher'.revoked
        PROVE  pc[c] \in {"registered", "serving"} /\ ~still_authorized(grants, asked[c])
    BY <1>0, <2>1 DEF RegistryExact
  <2> QED BY <1>0, <2>1, <2>2 DEF Victims, Allowed
<1>5. CASE CloseRevoked
  <2>1. PICK c \in watcher.revoked : watcher' = [watcher EXCEPT !.revoked = @ \ {c}]
    BY <1>5 DEF CloseRevoked
  <2>2. watcher'.pc = watcher.pc /\ watcher'.revoked \subseteq watcher.revoked /\ grants' = grants
    BY <1>0, <1>5, <2>1 DEF CloseRevoked, WatcherTypeOK
  <2> QED BY <1>0, <2>2 DEF Victims, Allowed
<1> QED BY <1>1, <1>2, <1>3, <1>4, <1>5 DEF DaemonStep, WatcherStep

LEMMA NextVictims == IInv /\ Victims /\ [Next]_vars => Victims'
<1> SUFFICES ASSUME IInv, Victims, [Next]_vars PROVE Victims'
  OBVIOUS
<1>1. CASE StopAll
  <2>1. watcher'.pc = "idle"
    BY <1>1 DEF StopAll, Stop, WatcherIdle
  <2> QED BY <2>1 DEF Victims
<1>2. CASE UNCHANGED vars
  BY <1>2 DEF Victims, Allowed, vars, watchervars, packvars
<1> QED BY <1>1, <1>2, DaemonKeepsVictims, TaskKeepsVictims DEF Next

\* What a step closes is one of the victims.
LEMMA CloseStep ==
  IInv /\ Victims /\ [Next]_vars => \A c \in closed' \ closed : Live(c) => ~Allowed(c)
<1> SUFFICES ASSUME IInv, Victims, [Next]_vars, NEW c \in closed' \ closed, Live(c)
             PROVE  ~Allowed(c)
  OBVIOUS
<1>1. CASE CloseRevoked
  <2>1. watcher.pc = "close" /\ c \in watcher.revoked
    BY <1>1 DEF CloseRevoked
  <2> QED BY <2>1 DEF Victims, Live
<1>2. closed' = closed \/ CloseRevoked
  <2>1. ASSUME DaemonStep PROVE closed' = closed \/ CloseRevoked
    BY <2>1 DEF DaemonStep, WatcherStep, PorcelainEdit, OtherFileChanges, LoadInitial, SpawnWatcher,
                GoOnline, Reload, ReloadFails, Publish, UpdateStatus, Sweep, SweepDone
  <2>2. ASSUME NEW d \in Conn, Accept(d) \/ Refuse(d) \/ TaskStepOf(d) \/ GitExits(d)
        PROVE  closed' = closed
    BY <2>2 DEF UnchangedByTask, Accept, Refuse, TaskStepOf, GitExits, Established, ConnectFails,
                HandshakeFails, Authorize, Deny, ReplyAndRegister, ReplyFails, RecheckAndSpawn,
                RecheckFails, CopyStep, InputRead, InputWritten, InputEnds, OutputRead, OutputSent,
                Turn, ServeCompletes, ServeAborts, SendRejection, SendRejectionFails, LingerEnds
  <2> QED BY <2>1, <2>2 DEF Next, StopAll, Stop, vars, watchervars
<1> QED BY <1>1, <1>2

\* A reload ends no session that the new grants still allow.
THEOREM ClosesOnlyForbidden == Spec => OnlyForbiddenClosed
<1>1. Init => Victims
  BY DEF Init, WatcherInit, WatcherIdle, Victims
<1>2. IInv /\ Victims /\ [Next]_vars => [\A c \in closed' \ closed : Live(c) => ~Allowed(c)]_vars
  BY CloseStep
<1> QED BY <1>1, <1>2, NextVictims, Invariance, PTL DEF Spec, OnlyForbiddenClosed

-----------------------------------------------------------------------------
(* The daemon implements AccessControl.                                    *)

\* The abstract state the refinement mapping gives.
liveSession == [c \in Conn |-> IF Live(c) THEN asked[c] ELSE NoSession]
isEnforcing == watcher.pc \in {"status", "sweep", "close"}

\* Both specifications speak of the same tables.
LEMMA SameTables == AC!EmptyGrants = EmptyGrants /\ AC!GrantTable = GrantTable
BY DEF AC!EmptyGrants, EmptyGrants, AC!GrantTable, GrantTable, AC!NotShared, NotShared,
       AC!RepoGrant, RepoGrant, AC!Rights, Rights, AC!Right, Right

LEMMA InitImplements == Init => AC!Init
<1> SUFFICES ASSUME Init PROVE AC!Init
  OBVIOUS
<1>1. \A c \in Conn : ~Live(c)
  BY DEF Init, Live
<1>2. liveSession = [c \in Conn |-> NoSession]
  BY <1>1 DEF liveSession
<1> QED BY <1>2, SameTables DEF AC!Init, AC!NoneLive, Init, WatcherInit, WatcherIdle, liveSession

\* A step that leaves the abstract state alone.
LEMMA Stutter ==
  ASSUME grants' = grants, isEnforcing' = isEnforcing, liveSession' = liveSession
  PROVE  UNCHANGED AC!acvars
BY DEF AC!acvars, isEnforcing, liveSession

\* A task that is not live, or no longer, is one whose session has ended.
LEMMA EndImplements ==
  ASSUME NEW c \in Conn, grants' = grants, isEnforcing' = isEnforcing,
         ~Live(c)', \A d \in Conn : d # c => Live(d)' = Live(d) /\ asked'[d] = asked[d]
  PROVE  AC!Next
<1>1. liveSession' = [d \in Conn |-> IF d \in {c} THEN NoSession ELSE liveSession[d]]
  BY DEF liveSession
<1>2. AC!End({c})
  BY <1>1 DEF AC!End, liveSession, isEnforcing
<1> QED BY <1>2 DEF AC!Next

\* No session starts but by RecheckAndSpawn, which the published grants authorize.
LEMMA SpawnImplements ==
  ASSUME IInv, NEW c \in Conn, RecheckAndSpawn(c)
  PROVE  [AC!Next]_AC!acvars
<1> USE DEF RecheckAndSpawn, Goto, UnchangedByTask
<1>1. /\ pc'[c] = "serving" /\ asked' = asked /\ closed' = closed
      /\ \A d \in Conn : d # c => pc'[d] = pc[d]
  BY DEF IInv, TypeOK
<1>2. ~Live(c) /\ asked[c] \in PackSession
  BY DEF Live, IInv, AskedExact, Admitted
<1>3. CASE c \in closed
  <2>1. \A d \in Conn : Live(d)' = Live(d)
    BY <1>1, <1>2, <1>3 DEF Live
  <2> QED BY <1>1, <2>1, Stutter DEF liveSession, isEnforcing
<1>4. CASE c \notin closed
  <2>1. liveSession' = [liveSession EXCEPT ![c] = asked[c]]
    BY <1>1, <1>4 DEF liveSession, Live
  <2>2. liveSession[c] = NoSession
    BY <1>2 DEF liveSession
  <2>3. PICK s \in Session : s = asked[c]
    BY <1>2 DEF Session
  <2>4. AC!Admit(c, s)
    BY <2>1, <2>2, <2>3 DEF AC!Admit, liveSession, isEnforcing
  <2> QED BY <2>4 DEF AC!Next
<1> QED BY <1>3, <1>4

LEMMA TaskImplements ==
  ASSUME IInv, NEW c \in Conn, Accept(c) \/ Refuse(c) \/ TaskStepOf(c) \/ GitExits(c)
  PROVE  [AC!Next]_AC!acvars
<1> USE DEF UnchangedByTask
<1>1. CASE RecheckAndSpawn(c)
  BY <1>1, SpawnImplements
<1>2. CASE /\ Return(c) /\ UnchangedByTask
  <2>1. /\ ~Live(c)'
        /\ \A d \in Conn : d # c => Live(d)' = Live(d) /\ asked'[d] = asked[d]
    BY <1>2 DEF Return, Goto, Live, IInv, TypeOK
  <2>2. grants' = grants /\ isEnforcing' = isEnforcing
    BY <1>2 DEF isEnforcing
  <2> QED BY <2>1, <2>2, EndImplements
<1>3. ASSUME NEW step \in TaskStep \ {"serving"}, Goto(c, step), pc[c] # "serving", UnchangedByTask,
             \A d \in Conn : d # c => asked'[d] = asked[d]
      PROVE  AC!Next
  <2>1. /\ ~Live(c)'
        /\ \A d \in Conn : d # c => Live(d)' = Live(d) /\ asked'[d] = asked[d]
    BY <1>3 DEF Goto, Live, IInv, TypeOK
  <2>2. grants' = grants /\ isEnforcing' = isEnforcing
    BY <1>3 DEF isEnforcing
  <2> QED BY <2>1, <2>2, EndImplements
<1>4. CASE GitExits(c) \/ CopyStep(c)
  <2>1. UNCHANGED <<watcher, grants, closed, pc, asked>>
    BY <1>4, CopyUntouched DEF IInv, TypeOK, GitExits
  <2> QED BY <2>1, Stutter DEF liveSession, Live, isEnforcing
<1>5. {"connecting", "handshake", "replying", "registered", "rejecting", "lingering", "done"}
        \subseteq TaskStep \ {"serving"}
  BY DEF TaskStep, HoldsPermit
<1>6. CASE Accept(c) \/ Refuse(c) \/ Established(c) \/ ReplyAndRegister(c) \/ SendRejection(c)
           \/ LingerEnds(c) \/ \E caller \in Node, req \in Sent : Deny(c, caller, req)
  BY <1>3, <1>5, <1>6
  DEF Accept, Refuse, Established, ReplyAndRegister, SendRejection, LingerEnds, Deny
<1>7. ASSUME NEW caller \in Node, NEW req \in Sent, Authorize(c, caller, req) PROVE AC!Next
  <2>1. \A d \in Conn : d # c => asked'[d] = asked[d]
    BY <1>7 DEF Authorize, IInv, TypeOK
  <2> QED BY <1>3, <1>5, <1>7, <2>1 DEF Authorize
<1>8. CASE ConnectFails(c) \/ HandshakeFails(c) \/ ReplyFails(c) \/ RecheckFails(c)
           \/ ServeCompletes(c) \/ ServeAborts(c) \/ SendRejectionFails(c)
  BY <1>2, <1>8 DEF ConnectFails, HandshakeFails, ReplyFails, RecheckFails, ServeCompletes,
                    ServeAborts, SendRejectionFails
<1> QED BY <1>1, <1>4, <1>6, <1>7, <1>8 DEF TaskStepOf

LEMMA DaemonImplements ==
  ASSUME IInv, DaemonStep PROVE [AC!Next]_AC!acvars
<1> USE DEF packvars, storevars
<1>0. UNCHANGED packvars
  BY DEF DaemonStep
<1>1. CASE PorcelainEdit \/ OtherFileChanges \/ SpawnWatcher \/ GoOnline \/ ReloadFails
           \/ UpdateStatus \/ Sweep \/ Reload
  <2>1. liveSession' = liveSession /\ grants' = grants
    BY <1>0, <1>1 DEF liveSession, Live, PorcelainEdit, OtherFileChanges, SpawnWatcher, GoOnline,
                      ReloadFails, UpdateStatus, Sweep, Reload
  <2>2. isEnforcing' = isEnforcing
    <3>1. CASE PorcelainEdit \/ OtherFileChanges \/ SpawnWatcher \/ GoOnline
      BY <3>1 DEF isEnforcing, PorcelainEdit, OtherFileChanges, SpawnWatcher, GoOnline
    <3>5. CASE ReloadFails
      <4>1. watcher'.pc = watcher.pc
        BY <3>5 DEF ReloadFails, IInv, TypeOK, WatcherTypeOK
      <4> QED BY <4>1 DEF isEnforcing
    <3>2. CASE UpdateStatus
      <4>1. watcher.pc = "status" /\ watcher'.pc = "sweep"
        BY <3>2 DEF UpdateStatus, IInv, TypeOK, WatcherTypeOK
      <4> QED BY <4>1 DEF isEnforcing
    <3>3. CASE Sweep
      <4>1. watcher.pc = "sweep" /\ watcher'.pc = "close"
        BY <3>3 DEF Sweep, WatcherIdle
      <4> QED BY <4>1 DEF isEnforcing
    <3>4. CASE Reload
      <4>1. watcher.pc = "idle" /\ watcher'.pc = "publish"
        BY <3>4 DEF Reload, Receive, WatcherIdle
      <4> QED BY <4>1 DEF isEnforcing
    <3> QED BY <1>1, <3>1, <3>2, <3>3, <3>4, <3>5
  <2> QED BY <2>1, <2>2, Stutter
<1>2. CASE LoadInitial
  <2> USE <1>2 DEF LoadInitial
  <2>1. \A c \in Conn : ~Live(c)'
    BY <1>0 DEF Live, IInv, Quiet
  <2>2. liveSession' = [c \in Conn |-> NoSession]
    BY <2>1 DEF liveSession
  <2>3. isEnforcing' = FALSE /\ grants' \in GrantTable
    BY DEF isEnforcing, IInv, Quiet, Watching, TypeOK, WatcherTypeOK, StoreTypeOK
  <2>4. AC!Restart
    BY <2>2, <2>3, SameTables DEF AC!Restart, AC!NoneLive, isEnforcing, liveSession
  <2> QED BY <2>4 DEF AC!Next
<1>3. CASE Publish
  <2> USE <1>3 DEF Publish, WatcherIdle
  <2>1. liveSession' = liveSession
    BY <1>0 DEF liveSession, Live
  <2>2. ~isEnforcing /\ isEnforcing' = TRUE /\ grants' \in GrantTable
    BY DEF isEnforcing, IInv, TypeOK, WatcherTypeOK
  <2>3. AC!Publish
    BY <2>1, <2>2, SameTables DEF AC!Publish, isEnforcing, liveSession
  <2> QED BY <2>3 DEF AC!Next
<1>4. CASE CloseRevoked
  <2>1. PICK c \in watcher.revoked :
          closed' = closed \cup {c} /\ watcher' = [watcher EXCEPT !.revoked = @ \ {c}]
    BY <1>4 DEF CloseRevoked
  <2>2. c \in Conn /\ watcher'.pc = watcher.pc
    BY <2>1 DEF IInv, TypeOK, WatcherTypeOK
  <2>3. ~Live(c)' /\ \A d \in Conn : d # c => Live(d)' = Live(d) /\ asked'[d] = asked[d]
    BY <1>0, <2>1 DEF Live
  <2>4. grants' = grants /\ isEnforcing' = isEnforcing
    BY <1>4, <2>2 DEF CloseRevoked, isEnforcing
  <2> QED BY <2>2, <2>3, <2>4, EndImplements
<1>5. CASE SweepDone
  <2> USE <1>5 DEF SweepDone, WatcherIdle
  <2>1. liveSession' = liveSession
    BY <1>0 DEF liveSession, Live
  <2>2. isEnforcing = TRUE /\ isEnforcing' = FALSE
    BY DEF isEnforcing
  <2>3. \A c \in Conn : Live(c) => still_authorized(grants, asked[c])
    BY DEF IInv, Unrevoked, Allowed
  <2>4. \A c \in Conn : liveSession[c] # NoSession => still_authorized(grants, liveSession[c])
    BY <2>3 DEF liveSession
  <2>5. AC!Enforced
    BY <2>1, <2>2, <2>4 DEF AC!Enforced, AC!Compliant, isEnforcing, liveSession
  <2> QED BY <2>5 DEF AC!Next
<1> QED BY <1>1, <1>2, <1>3, <1>4, <1>5 DEF DaemonStep, WatcherStep

LEMMA NextImplements == IInv /\ [Next]_vars => [AC!Next]_AC!acvars
<1> SUFFICES ASSUME IInv, [Next]_vars PROVE [AC!Next]_AC!acvars
  OBVIOUS
<1>1. CASE DaemonStep
  BY <1>1, DaemonImplements
<1>2. ASSUME NEW c \in Conn, Accept(c) \/ Refuse(c) \/ TaskStepOf(c) \/ GitExits(c)
      PROVE  [AC!Next]_AC!acvars
  BY <1>2, TaskImplements
<1>3. CASE StopAll
  <2>1. \A c \in Conn : ~Live(c)'
    BY <1>3 DEF StopAll, Live
  <2>2. liveSession' = [c \in Conn |-> NoSession]
    BY <2>1 DEF liveSession
  <2>3. isEnforcing' = FALSE /\ grants' \in GrantTable
    BY <1>3, GrantTableType DEF StopAll, Stop, isEnforcing, WatcherIdle
  <2>4. AC!Restart
    BY <2>2, <2>3, SameTables DEF AC!Restart, AC!NoneLive, isEnforcing, liveSession
  <2> QED BY <2>4 DEF AC!Next
<1>4. CASE UNCHANGED vars
  BY <1>4, Stutter
  DEF vars, watchervars, packvars, storevars, liveSession, Live, isEnforcing
<1> QED BY <1>1, <1>2, <1>3, <1>4 DEF Next

\* The daemon implements AccessControl: every table it publishes is enforced
\* before the next, and only sessions the table in force authorizes start.
THEOREM Implements == Spec => ImplementsAccessControl
BY InitImplements, NextImplements, Invariance, PTL DEF Spec, AC!Spec, ImplementsAccessControl
=============================================================================
