-------------------------- MODULE Porcelain_proofs --------------------------
(***************************************************************************)
(* Any number of concurrent commands, crashing or failing at any step,     *)
(* leave grants.toml whole and every repo id at its repository.            *)
(***************************************************************************)
EXTENDS Porcelain, Grants_proofs

LEMMA GrantTableType == EmptyGrants \in GrantTable
BY NotSharedType DEF EmptyGrants, GrantTable

\* The draws of a table that is found at the start are those of its own ids.
LEMMA DrawnForType ==
  ASSUME NEW g \in GrantTable
  PROVE  DrawnFor(g) \in [RepoId -> Path \cup {NoPath}]
BY DEF DrawnFor, RepoPaths

LEMMA InitIInv == Init => IInv
<1> SUFFICES ASSUME Init PROVE IInv
  OBVIOUS
<1> USE DEF Init, StoreInit
<1>1. file \in GrantTable /\ IdsAtHome(file, drawn)
  BY InitialGrantsAssumption
<1>2. drawn \in [RepoId -> Path \cup {NoPath}]
  BY <1>1, DrawnForType
<1>3. TypeOK
  BY <1>1, <1>2, GrantTableType DEF TypeOK, FileContent, Step
<1>4. Pending = {}
  BY DEF Pending
<1>5. TmpWhole
  BY DEF TmpWhole
<1> QED BY <1>1, <1>3, <1>4, <1>5
    DEF IInv, NoTornFile, TicketsKeepTheirRepo, PendingAtHome, DrawsApart, Solo

\* What a command loads and edits: a grants table whose ids are at home, except
\* for the fresh id of a grant.
LEMMA LoadTable ==
  ASSUME IInv, NEW p \in Proc, NEW c \in Command, Load(p, c)
  PROVE  /\ new'[p] \in GrantTable
         /\ \A q \in Proc : q # p => new'[q] = new[q]
         /\ \A path \in Path : IsShared(new'[p], path) =>
              \/ drawn[new'[p][path].id] = path
              \/ /\ drawn[new'[p][path].id] = NoPath
                 /\ c.op = "grant" /\ c.path = path
                 /\ \A q \in Pending, b \in Path : new[q][b].id # new'[p][path].id
<1>1. file \in GrantTable /\ IdsAtHome(file, drawn) /\ c \in CommandType /\ new \in [Proc -> GrantTable]
  BY GrantsAssumption DEF IInv, NoTornFile, TicketsKeepTheirRepo, TypeOK
<1>2. PICK id \in IF c.op = "grant" /\ ~IsShared(file, c.path) THEN FreshIds(c) ELSE {NoId} :
        new' = [new EXCEPT ![p] = Edited(file, c, id)]
  BY DEF Load
<1>3. c.op = "grant" /\ ~IsShared(file, c.path) => id \in FreshIds(c)
  BY <1>2
<1>4. id \in FreshIds(c) /\ c.op = "grant" /\ ~IsShared(file, c.path) =>
        id \in RepoId /\ drawn[id] = NoPath /\ \A q \in Pending, b \in Path : new[q][b].id # id
  BY DEF FreshIds, IdChoices
<1>5. id \in RepoId \cup {NoId}
  BY <1>2, <1>4
<1> DEFINE h == Edited(file, c, id)
<1>6. h \in GrantTable /\ EditEntry(file, h, c, id)
  BY <1>1, <1>3, <1>4, <1>5, EditedType
<1> HIDE DEF h
<1>7. new'[p] = h /\ \A q \in Proc : q # p => new'[q] = new[q]
  BY <1>1, <1>2 DEF h
<1>8. ASSUME NEW path \in Path, IsShared(h, path)
      PROVE  \/ drawn[h[path].id] = path
             \/ /\ drawn[h[path].id] = NoPath
                /\ c.op = "grant" /\ c.path = path
                /\ \A q \in Pending, b \in Path : new[q][b].id # h[path].id
  <2>1. h[path].id \in RepoId
    BY <1>6, <1>8 DEF GrantTable, RepoGrant, IsShared
  <2>2. h[path] # NotShared
    BY <1>8 DEF IsShared, NotShared
  <2>3. CASE h[path].id = file[path].id
    BY <1>1, <1>8, <2>1, <2>3 DEF IdsAtHome, IsShared
  <2>4. CASE c.op = "grant" /\ path = c.path /\ ~IsShared(file, path) /\ h[path].id = id
    BY <1>3, <1>4, <2>1, <2>4
  <2> QED BY <1>6, <2>2, <2>3, <2>4 DEF EditEntry
<1> QED BY <1>6, <1>7, <1>8

LEMMA NextIInv == IInv /\ [Next]_vars => IInv'
<1> SUFFICES ASSUME IInv, [Next]_vars PROVE IInv'
  OBVIOUS
<1> USE DEF IInv
<1>0. EmptyGrants \in GrantTable /\ NoCommand \in Command \cup {NoCommand}
  BY GrantTableType
<1>1. ASSUME NEW p \in Proc, NEW c \in Command, Load(p, c) PROVE IInv'
  <2>1. new'[p] \in GrantTable /\ \A q \in Proc : q # p => new'[q] = new[q]
    BY <1>1, LoadTable
  <2>2. \A path \in Path : IsShared(new'[p], path) =>
          \/ drawn[new'[p][path].id] = path
          \/ /\ drawn[new'[p][path].id] = NoPath
             /\ c.op = "grant" /\ c.path = path
             /\ \A q \in Pending, b \in Path : new[q][b].id # new'[p][path].id
    BY <1>1, LoadTable
  <2> USE <1>1 DEF Load
  <2>3. new' \in [Proc -> GrantTable]
    <3>1. new' = [new EXCEPT ![p] = new'[p]]
      BY <2>1 DEF TypeOK
    <3> QED BY <2>1, <3>1 DEF TypeOK
  <2>4. TypeOK'
    BY <2>3 DEF TypeOK, Step
  <2>5. Pending' = Pending \cup {p} /\ p \notin Pending
    BY DEF TypeOK, Pending
  <2>6. TmpWhole'
    BY <2>1 DEF TmpWhole, TypeOK
  <2>7. PendingAtHome'
    <3> SUFFICES ASSUME NEW q \in Pending', NEW path \in Path, IsShared(new'[q], path)
                 PROVE  \/ drawn[new'[q][path].id] = path
                        \/ drawn[new'[q][path].id] = NoPath /\ cmd'[q].op = "grant" /\ cmd'[q].path = path
      BY DEF PendingAtHome, IsShared
    <3>1. CASE q = p
      <4>1. cmd'[p] = c
        BY DEF TypeOK
      <4> QED BY <3>1, <4>1, <2>2
    <3>2. CASE q # p
      <4>1. q \in Pending /\ new'[q] = new[q] /\ cmd'[q] = cmd[q]
        BY <3>2, <2>1, <2>5 DEF Pending, TypeOK
      <4> QED BY <4>1 DEF PendingAtHome
    <3> QED BY <3>1, <3>2
  <2>8. DrawsApart'
    <3> SUFFICES ASSUME NEW r \in Pending', NEW q \in Pending', NEW a \in Path, NEW b \in Path,
                        r # q, new'[r][a].id = new'[q][b].id, IsShared(new'[r], a),
                        drawn[new'[r][a].id] = NoPath
                 PROVE  FALSE
      BY DEF DrawsApart
    <3>1. a # NoPath /\ b # NoPath
      BY GrantsAssumption
    <3>2. IsShared(new'[q], b) /\ r \in Proc /\ q \in Proc
      BY DEF IsShared, Pending
    <3>3. CASE r = p
      <4>1. q \in Pending /\ new'[q] = new[q]
        BY <3>2, <3>3, <2>1, <2>5
      <4> QED BY <3>1, <3>3, <4>1, <2>2
    <3>4. CASE q = p
      <4>1. r \in Pending /\ new'[r] = new[r]
        BY <3>2, <3>4, <2>1, <2>5
      <4> QED BY <3>1, <3>2, <3>4, <4>1, <2>2
    <3>5. CASE r # p /\ q # p
      BY <3>2, <3>5, <2>1, <2>5 DEF DrawsApart
    <3> QED BY <3>3, <3>4, <3>5
  <2>9. NoTornFile' /\ TicketsKeepTheirRepo'
    BY DEF NoTornFile, TicketsKeepTheirRepo, IdsAtHome, IsShared
  <2>10. Solo'
    <3> SUFFICES ASSUME Pending = {}
                 PROVE  /\ Saves(file, c)
                        /\ \E id \in IdChoices(file, c, drawn) : new'[p] = Edited(file, c, id)
      BY <2>5 DEF Solo, TypeOK
    <3>1. PICK id \in IF c.op = "grant" /\ ~IsShared(file, c.path) THEN FreshIds(c) ELSE {NoId} :
            new' = [new EXCEPT ![p] = Edited(file, c, id)]
      OBVIOUS
    <3>2. id \in IdChoices(file, c, drawn)
      BY <3>1 DEF FreshIds, IdChoices
    <3>3. new'[p] = Edited(file, c, id)
      BY <3>1 DEF TypeOK
    <3> QED BY <3>2, <3>3
  <2> QED BY <2>4, <2>6, <2>7, <2>8, <2>9, <2>10
<1>2. ASSUME NEW p \in Proc, WriteBegin(p) \/ WriteEnd(p) PROVE IInv'
  <2> USE <1>2 DEF WriteBegin, WriteEnd, tmp_name
  <2>1. TypeOK'
    BY DEF TypeOK, Step, FileContent
  <2>2. TmpWhole'
    BY DEF TmpWhole, TypeOK
  <2>3. Pending' = Pending
    BY DEF TypeOK, Pending
  <2> QED BY <2>1, <2>2, <2>3
    DEF NoTornFile, TicketsKeepTheirRepo, IdsAtHome, IsShared, PendingAtHome, DrawsApart, Solo
<1>3. ASSUME NEW p \in Proc, Exit(p), UNCHANGED <<file, drawn, overlapped>>,
             tmp' = tmp \/ tmp' = [tmp EXCEPT ![p] = Absent]
      PROVE IInv'
  <2> USE <1>3 DEF Exit
  <2>1. TypeOK'
    BY <1>0 DEF TypeOK, Step, FileContent
  <2>2. TmpWhole'
    BY DEF TmpWhole, TypeOK
  <2>3. Pending' = Pending \ {p}
    BY DEF TypeOK, Pending
  <2>4. \A q \in Proc : q # p => new'[q] = new[q] /\ cmd'[q] = cmd[q]
    BY DEF TypeOK
  <2>5. PendingAtHome' /\ DrawsApart'
    BY <2>3, <2>4 DEF PendingAtHome, DrawsApart, IsShared, Pending
  <2>6. Solo'
    BY <2>3, <2>4 DEF Solo, Pending
  <2> QED BY <2>1, <2>2, <2>5, <2>6 DEF NoTornFile, TicketsKeepTheirRepo, IdsAtHome, IsShared
<1>4. ASSUME NEW p \in Proc, Rename(p) PROVE IInv'
  <2> DEFINE fresh(id) == drawn[id] = NoPath /\ cmd[p].op = "grant" /\ new[p][cmd[p].path].id = id
  <2>1. p \in Pending /\ file' = new[p] /\ new[p] \in GrantTable
    BY <1>4 DEF Rename, TmpWhole, Pending, TypeOK, tmp_name
  <2>2. cmd[p].op = "grant" => cmd[p].path \in Path
    BY CommandFields, GrantsAssumption DEF TypeOK, NoCommand
  <2>3. \A id \in RepoId : drawn'[id] = IF fresh(id) THEN cmd[p].path ELSE drawn[id]
    BY <1>4 DEF Rename
  <2>4. drawn' \in [RepoId -> Path \cup {NoPath}]
    BY <1>4, <2>2 DEF Rename, TypeOK
  <2>5. TypeOK'
    BY <1>0, <1>4, <2>1, <2>4 DEF Rename, Exit, TypeOK, Step, FileContent, tmp_name
  <2>6. TmpWhole'
    BY <1>4 DEF Rename, Exit, TmpWhole, TypeOK, tmp_name
  <2>7. Pending' = Pending \ {p} /\ \A q \in Proc : q # p => new'[q] = new[q] /\ cmd'[q] = cmd[q]
    BY <1>4 DEF Rename, Exit, TypeOK, Pending
  <2>8. \A q \in Proc, path \in Path :
          IsShared(new[q], path) => new[q][path].id \in RepoId
    BY DEF TypeOK, GrantTable, RepoGrant, IsShared
  <2>9. TicketsKeepTheirRepo'
    <3> SUFFICES ASSUME NEW path \in Path, IsShared(new[p], path)
                 PROVE  drawn'[new[p][path].id] = path
      BY <2>1 DEF TicketsKeepTheirRepo, IdsAtHome
    <3> QED BY <2>1, <2>3, <2>8, GrantsAssumption DEF PendingAtHome
  <2>10. \A q \in Pending, path \in Path :
           q # p /\ IsShared(new[q], path) => drawn'[new[q][path].id] = drawn[new[q][path].id]
    <3> SUFFICES ASSUME NEW q \in Pending, NEW path \in Path, q # p, IsShared(new[q], path),
                        fresh(new[q][path].id)
                 PROVE  FALSE
      BY <2>3, <2>8 DEF Pending
    <3> QED BY <2>1, <2>2 DEF DrawsApart
  <2>11. PendingAtHome'
    BY <2>7, <2>10 DEF PendingAtHome, IsShared, Pending
  <2>12. DrawsApart'
    BY <2>7, <2>10 DEF DrawsApart, IsShared, Pending
  <2>13. Solo'
    BY <1>4, <2>1, <2>7 DEF Rename, Solo
  <2> QED BY <2>1, <2>5, <2>6, <2>9, <2>11, <2>12, <2>13 DEF NoTornFile
<1>5. CASE UNCHANGED vars
  BY <1>5 DEF vars, TypeOK, NoTornFile, TmpWhole, TicketsKeepTheirRepo, PendingAtHome, DrawsApart,
              Solo, IdsAtHome, IsShared, Pending
<1> QED
  BY <1>1, <1>2, <1>3, <1>4, <1>5
  DEF Next, WriteFails, RenameFails, BuildTicket, Crash, tmp_name

LEMMA Invariance == Spec => []IInv
BY InitIInv, NextIInv, PTL DEF Spec

\* Whatever number of commands run at once and wherever they die, whoever reads
\* grants.toml finds a whole table.
THEOREM FileNeverTorn == Spec => []NoTornFile
BY Invariance, PTL DEF IInv

\* Whatever number of commands run at once, a repo id names the repository it
\* was drawn for as long as it is in the file.
THEOREM IdsNeverMove == Spec => []TicketsKeepTheirRepo
BY Invariance, PTL DEF IInv

\* Every state the commands reach is well-typed.
THEOREM TypeCorrect == Spec => []TypeOK
BY Invariance, PTL DEF IInv

-----------------------------------------------------------------------------
(* A command that runs alone.                                              *)

\* The steps that change the file are renames.
LEMMA OnlyRenames ==
  ASSUME [Next]_vars, storevars' # storevars
  PROVE  \E p \in Proc : Rename(p)
BY DEF Next, Load, WriteBegin, WriteEnd, WriteFails, RenameFails, BuildTicket, Crash, vars, storevars

\* A lone rename makes an edit of the file and records its draw.
LEMMA LoneRename ==
  ASSUME IInv, ~overlapped, NEW p \in Proc, Rename(p)
  PROVE  /\ cmd[p] \in Command
         /\ Saves(file, cmd[p])
         /\ \E id \in IdChoices(file, cmd[p], drawn) :
              file' = Edited(file, cmd[p], id) /\ drawn' = Draw(drawn, cmd[p], id)
<1> USE GrantsAssumption
<1>1. p \in Pending /\ file' = new[p] /\ file \in GrantTable /\ IdsAtHome(file, drawn)
  BY DEF IInv, Rename, TmpWhole, Pending, tmp_name, NoTornFile, TicketsKeepTheirRepo
<1>2. Saves(file, cmd[p])
  BY <1>1 DEF IInv, Solo
<1>3. PICK id \in IdChoices(file, cmd[p], drawn) : new[p] = Edited(file, cmd[p], id)
  BY <1>1 DEF IInv, Solo
<1>5. cmd[p] \in Command /\ cmd[p] \in CommandType
  BY <1>1 DEF IInv, Solo
<1>6. drawn \in [RepoId -> Path \cup {NoPath}]
  BY DEF IInv, TypeOK
<1> DEFINE fresh(i) == drawn[i] = NoPath /\ cmd[p].op = "grant" /\ new[p][cmd[p].path].id = i
<1>7. drawn' = [i \in RepoId |-> IF fresh(i) THEN cmd[p].path ELSE drawn[i]]
  BY DEF Rename
<1>8. drawn' = Draw(drawn, cmd[p], id)
  <2>1. CASE cmd[p].op = "grant" /\ ~IsShared(file, cmd[p].path)
    <3>1. id \in RepoId /\ drawn[id] = NoPath /\ id # NoId
      BY <1>3, <2>1 DEF IdChoices
    <3>2. new[p][cmd[p].path].id = id
      BY <1>1, <1>3, <1>5, <2>1, <3>1, GrantEdit
    <3> QED BY <1>6, <1>7, <2>1, <3>1, <3>2 DEF Draw
  <2>2. CASE cmd[p].op = "grant" /\ IsShared(file, cmd[p].path)
    <3>1. id = NoId /\ cmd[p].path \in Path
      BY <1>3, <1>5, <2>2, CommandFields DEF IdChoices
    <3>2. new[p][cmd[p].path].id = file[cmd[p].path].id
      BY <1>1, <1>3, <1>5, <2>2, <3>1, GrantEdit
    <3>3. drawn[file[cmd[p].path].id] = cmd[p].path
      BY <1>1, <2>2, <3>1 DEF IdsAtHome
    <3>4. \A i \in RepoId : ~fresh(i)
      BY <3>1, <3>2, <3>3
    <3> HIDE DEF fresh
    <3> QED BY <1>6, <1>7, <3>1, <3>4 DEF Draw
  <2>3. CASE cmd[p].op # "grant"
    BY <1>3, <1>6, <1>7, <2>3 DEF Draw, IdChoices
  <2> QED BY <2>1, <2>2, <2>3
<1> QED BY <1>1, <1>2, <1>3, <1>5, <1>8

\* A command that meets no other between load and rename is an atomic edit,
\* whatever failed or died before it.
THEOREM LoneCommandIsAtomic == Spec => OneAtATimeIsAtomic
<1>1. Init => StoreInit
  BY DEF Init
<1>2. IInv /\ [Next]_vars => [~overlapped => StoreNext]_storevars
  BY OnlyRenames, LoneRename DEF StoreNext, Edit
<1> QED BY <1>1, <1>2, Invariance, PTL DEF Spec, OneAtATimeIsAtomic

\* A grant that meets no other command lowers nobody's rights.
THEOREM LoneGrantAdds == Spec => LoneGrantNeverLowers
<1>1. ASSUME IInv, [Next]_vars, ~overlapped PROVE GrantLowersNobody
  <2> SUFFICES ASSUME NEW p \in Proc, pc[p] = "rename", pc'[p] = "ticket"
               PROVE  \A path \in Path, n \in Node :
                        file[path].members[n] \subseteq file'[path].members[n]
    BY DEF GrantLowersNobody
  <2>1. Rename(p) /\ cmd[p].op = "grant"
    BY <1>1 DEF Next, Load, WriteBegin, WriteEnd, WriteFails, Rename, RenameFails, BuildTicket,
                Crash, Exit, vars, IInv, TypeOK
  <2>2. cmd[p] \in CommandType /\ file \in GrantTable
    BY <1>1, <2>1, LoneRename, GrantsAssumption DEF IInv, NoTornFile
  <2>3. PICK id \in RepoId \cup {NoId} : file' = Edited(file, cmd[p], id)
    BY <1>1, <2>1, LoneRename DEF IdChoices
  <2> QED BY <2>1, <2>2, <2>3, GrantEdit
<1> QED BY <1>1, Invariance, PTL DEF Spec, LoneGrantNeverLowers

\* A command that meets no other changes only the rights it is about, and nothing
\* but a grant raises any.
THEOREM LoneCommandIsContained == Spec => LoneCommandKeepsToItsSubject
<1> DEFINE Contained ==
      \A path \in Path, n \in Node :
        file'[path].members[n] # file[path].members[n] =>
          \E p \in Proc :
            /\ pc[p] = "rename" /\ Concerns(cmd[p], file, path, n)
            /\ cmd[p].op # "grant" => file'[path].members[n] \subseteq file[path].members[n]
<1>1. ASSUME IInv, [Next]_vars, ~overlapped PROVE Contained
  <2> SUFFICES ASSUME NEW path \in Path, NEW n \in Node,
                      file'[path].members[n] # file[path].members[n]
               PROVE  \E p \in Proc :
                        /\ pc[p] = "rename" /\ Concerns(cmd[p], file, path, n)
                        /\ cmd[p].op # "grant" =>
                             file'[path].members[n] \subseteq file[path].members[n]
    OBVIOUS
  <2>1. PICK p \in Proc : Rename(p)
    BY <1>1, OnlyRenames DEF storevars
  <2>2. cmd[p] \in CommandType /\ file \in GrantTable
    BY <1>1, <2>1, LoneRename, GrantsAssumption DEF IInv, NoTornFile
  <2>3. PICK id \in RepoId \cup {NoId} : file' = Edited(file, cmd[p], id)
    BY <1>1, <2>1, LoneRename DEF IdChoices
  <2>4. /\ Concerns(cmd[p], file, path, n)
        /\ cmd[p].op # "grant" => file'[path].members[n] \subseteq file[path].members[n]
    BY <2>2, <2>3, EditTouches
  <2> QED BY <2>1, <2>4 DEF Rename
<1>2. IInv /\ [Next]_vars => [~overlapped => Contained]_vars
  BY <1>1
<1> QED BY <1>2, Invariance, PTL DEF Spec, LoneCommandKeepsToItsSubject

-----------------------------------------------------------------------------
(* A revoke, whatever runs beside it.                                      *)

\* The table a running revoke will save is already free of what it withdraws.
RevokesPending == \A p \in Pending : Ended(cmd[p], new[p])

LEMMA NextRevokes == IInv /\ RevokesPending /\ [Next]_vars => RevokesPending'
<1> SUFFICES ASSUME IInv, RevokesPending, [Next]_vars PROVE RevokesPending'
  OBVIOUS
<1>0. /\ pc \in [Proc -> Step] /\ cmd \in [Proc -> Command \cup {NoCommand}]
      /\ new \in [Proc -> GrantTable] /\ file \in GrantTable
  BY DEF IInv, TypeOK, NoTornFile
<1>1. ASSUME NEW p \in Proc, NEW c \in Command, Load(p, c) PROVE RevokesPending'
  <2>1. PICK id \in IF c.op = "grant" /\ ~IsShared(file, c.path) THEN FreshIds(c) ELSE {NoId} :
          new' = [new EXCEPT ![p] = Edited(file, c, id)]
    BY <1>1 DEF Load
  <2>2. Ended(c, Edited(file, c, id))
    BY <1>0, EditEnds, GrantsAssumption
  <2>3. \A q \in Pending' : q = p \/ q \in Pending
    BY <1>0, <1>1 DEF Load, Pending
  <2>4. /\ cmd'[p] = c /\ new'[p] = Edited(file, c, id)
        /\ \A q \in Proc : q # p => cmd'[q] = cmd[q] /\ new'[q] = new[q]
    BY <1>0, <1>1, <2>1 DEF Load
  <2> QED BY <2>2, <2>3, <2>4 DEF RevokesPending, Pending
<1>2. CASE Pending' \subseteq Pending /\ \A q \in Pending' : cmd'[q] = cmd[q] /\ new'[q] = new[q]
  BY <1>2 DEF RevokesPending
<1>3. ASSUME NEW p \in Proc, Exit(p)
      PROVE  Pending' \subseteq Pending /\ \A q \in Pending' : cmd'[q] = cmd[q] /\ new'[q] = new[q]
  BY <1>0, <1>3 DEF Exit, Pending
<1>4. ASSUME NEW p \in Proc, WriteBegin(p) \/ WriteEnd(p)
      PROVE  Pending' \subseteq Pending /\ \A q \in Pending' : cmd'[q] = cmd[q] /\ new'[q] = new[q]
  BY <1>0, <1>4 DEF WriteBegin, WriteEnd, Pending
<1>5. ASSUME NEW p \in Proc, Rename(p)
      PROVE  Pending' \subseteq Pending /\ \A q \in Pending' : cmd'[q] = cmd[q] /\ new'[q] = new[q]
  <2>1. CASE Exit(p)
    BY <2>1, <1>3
  <2>2. CASE pc' = [pc EXCEPT ![p] = "ticket"] /\ UNCHANGED <<cmd, new>>
    BY <1>0, <2>2 DEF Pending
  <2> QED BY <1>5, <2>1, <2>2 DEF Rename
<1>6. CASE UNCHANGED vars
  BY <1>2, <1>6 DEF vars, Pending
<1> QED BY <1>1, <1>2, <1>3, <1>4, <1>5, <1>6
    DEF Next, WriteFails, RenameFails, BuildTicket, Crash

\* Who has none of the rights that were withdrawn is shut out.
LEMMA ShutOutWithout ==
  ASSUME NEW g \in GrantTable, NEW id \in RepoId, NEW n \in Node, NEW what \in RevokeWhat,
         \A q \in Path : g[q].id = id => g[q].members[n] \cap Withdrawn[what] = {}
  PROVE  ShutOut(g, id, n, what)
<1>1. /\ "push" \in Withdrawn["Member"] /\ "read" \in Withdrawn["Member"] /\ "lfs" \in Withdrawn["Member"]
      /\ "push" \in Withdrawn["Write"] /\ "lfs" \in Withdrawn["Lfs"]
  BY DEF Withdrawn, Right
<1>2. ASSUME NEW req \in Request, req.repo_id = id, what # "Lfs",
             what = "Write" => req.service = "ReceivePack"
      PROVE  ~authorize(g, req, n)
  <2>1. \A r \in Withdrawn[what] : r \notin resolve_member(g, id, n)
    BY DEF resolve_member, RepoPaths
  <2> QED BY <1>1, <1>2, <2>1 DEF authorize, RevokeWhat
<1>3. ASSUME NEW req \in LfsRequest, req.repo_id = id, what = "Write" => req.op = "Upload"
      PROVE  ~authorize_lfs(g, req, n)
  BY <1>1, <1>3 DEF authorize_lfs, RepoPaths, RevokeWhat
<1> QED BY <1>2, <1>3 DEF ShutOut

\* The table a revoke or a stop leaves authorizes none of the requests it was to
\* end, with any ticket ever made, however many commands run beside it.
THEOREM RevokesShutOut == Spec => RevokeShutsOut
<1> DEFINE Effect(p) ==
      \A id \in RepoId, n \in Node :
        LET c == cmd[p] IN
          /\ c.op = "revoke_at" /\ c.path = drawn'[id] => ShutOut(file', id, c.node, c.what)
          /\ c.op = "revoke_everywhere" => ShutOut(file', id, c.node, c.what)
          /\ \/ c.op = "unshare" /\ c.path = drawn'[id]
             \/ c.op = "unshare_by_id" /\ c.id = id
             \/ c.op = "unshare_all"
             => ShutOut(file', id, n, "Member")
<1>1. ASSUME IInv, IInv', RevokesPending, [Next]_vars,
             NEW p \in Proc, pc[p] = "rename", pc'[p] = "idle", file' # file
      PROVE  Effect(p)
  <2>1. PICK q \in Proc : Rename(q)
    BY <1>1, OnlyRenames DEF storevars
  <2>2. q = p
    BY <1>1, <2>1 DEF Rename, Exit, IInv, TypeOK
  <2>3. p \in Pending /\ file' = new[p]
    BY <1>1, <2>1, <2>2 DEF Rename, IInv, TmpWhole, Pending, tmp_name
  <2>4. Ended(cmd[p], file') /\ file' \in GrantTable /\ IdsAtHome(file', drawn')
    BY <1>1, <2>3 DEF RevokesPending, IInv, NoTornFile, TicketsKeepTheirRepo
  <2> SUFFICES ASSUME NEW id \in RepoId, NEW n \in Node
               PROVE  LET c == cmd[p] IN
                        /\ c.op = "revoke_at" /\ c.path = drawn'[id] =>
                             ShutOut(file', id, c.node, c.what)
                        /\ c.op = "revoke_everywhere" => ShutOut(file', id, c.node, c.what)
                        /\ \/ c.op = "unshare" /\ c.path = drawn'[id]
                           \/ c.op = "unshare_by_id" /\ c.id = id
                           \/ c.op = "unshare_all"
                           => ShutOut(file', id, n, "Member")
    OBVIOUS
  <2> DEFINE c == cmd[p]
  <2>5. \A path \in Path : file'[path].id = id => drawn'[id] = path /\ IsShared(file', path)
    BY <2>4, HomeIsUnique, GrantsAssumption DEF IsShared
  <2>6. c \in CommandType \/ c = NoCommand
    BY <1>1, GrantsAssumption DEF IInv, TypeOK
  <2>7. "Member" \in RevokeWhat
    BY DEF RevokeWhat
  <2>8. ASSUME c.op = "revoke_at", c.path = drawn'[id] PROVE ShutOut(file', id, c.node, c.what)
    <3>1. c.node \in Node /\ c.what \in RevokeWhat
      BY <2>6, <2>8, CommandFields DEF NoCommand
    <3> QED BY <2>4, <2>5, <2>8, <3>1, ShutOutWithout DEF Ended
  <2>9. ASSUME c.op = "revoke_everywhere" PROVE ShutOut(file', id, c.node, c.what)
    <3>1. c.node \in Node /\ c.what \in RevokeWhat
      BY <2>6, <2>9, CommandFields DEF NoCommand
    <3> QED BY <2>4, <2>9, <3>1, ShutOutWithout DEF Ended
  <2>10. ASSUME \/ c.op = "unshare" /\ c.path = drawn'[id]
                \/ c.op = "unshare_by_id" /\ c.id = id
                \/ c.op = "unshare_all"
         PROVE  ShutOut(file', id, n, "Member")
    <3>1. \A path \in Path : file'[path].id # id
      BY <2>4, <2>5, <2>10 DEF Ended
    <3> QED BY <2>4, <2>7, <3>1, ShutOutWithout
  <2> QED BY <2>8, <2>9, <2>10
<1>2. IInv /\ IInv' /\ RevokesPending /\ [Next]_vars =>
        [\A p \in Proc : pc[p] = "rename" /\ pc'[p] = "idle" /\ file' # file => Effect(p)]_vars
  BY <1>1
<1>3. Init => RevokesPending
  BY DEF Init, RevokesPending, Pending
<1> QED BY <1>2, <1>3, NextRevokes, Invariance, PTL DEF Spec, RevokeShutsOut
=============================================================================
