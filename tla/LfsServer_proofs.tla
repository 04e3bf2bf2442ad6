-------------------------- MODULE LfsServer_proofs --------------------------
(***************************************************************************)
(* For any number of connections, objects, repositories and nodes, and any *)
(* limits: no object transfer escapes a revoke, the registry covers every  *)
(* object, no slot leaks, and the LFS server implements AccessControl with *)
(* a session per object.  IInv is split into a part for each connection    *)
(* and one for each object, so that a step needs an argument about its own *)
(* connection and object only.                                             *)
(***************************************************************************)
EXTENDS LfsServer, Grants_proofs, FiniteSetTheorems

USE GrantsAssumption, WatcherAssumption, LfsServerAssumption

LEMMA GrantTableType == EmptyGrants \in GrantTable
BY NotSharedType DEF EmptyGrants, GrantTable

\* An edit of the file writes a grants table.
LEMMA EditTyped ==
  ASSUME StoreTypeOK, NEW cmd \in Command, Edit(cmd) PROVE StoreTypeOK'
<1> USE DEF StoreTypeOK
<1>1. cmd \in CommandType
  OBVIOUS
<1>2. PICK id \in IdChoices(file, cmd, drawn) : file' = Edited(file, cmd, id) /\ drawn' = Draw(drawn, cmd, id)
  BY DEF Edit
<1>3. cmd.op = "grant" /\ ~IsShared(file, cmd.path) => id \in RepoId
  BY <1>2 DEF IdChoices
<1>4. ~(cmd.op = "grant" /\ ~IsShared(file, cmd.path)) => id = NoId
  BY <1>2 DEF IdChoices
<1>5. file' \in GrantTable
  BY <1>1, <1>2, <1>3, <1>4, EditedType
<1>6. id # NoId => cmd.path \in Path /\ drawn' = [drawn EXCEPT ![id] = cmd.path]
  BY <1>2, <1>4, <1>1, CommandFields DEF Draw
<1>7. id = NoId => drawn' = drawn
  BY <1>2 DEF Draw
<1> QED BY <1>5, <1>6, <1>7

\* An object is a connection and the number of its stream.
LEMMA Objects ==
  /\ \A o \in Object : o[1] \in Conn /\ o[2] \in 1 .. MaxObjects[o[1]] /\ o = <<o[1], o[2]>>
  /\ \A c \in Conn : \A k \in 1 .. MaxObjects[c] : <<c, k>> \in Object
BY DEF Object

LEMMA InFlightFinite ==
  ASSUME NEW c \in Conn
  PROVE  /\ IsFiniteSet(InFlight(c)) /\ Cardinality(InFlight(c)) \in Nat
         /\ IsFiniteSet(InFlight(c)') /\ Cardinality(InFlight(c)') \in Nat
<1> DEFINE S == {c} \X (1 .. MaxObjects[c])
<1>1. MaxObjects[c] \in Nat
  OBVIOUS
<1>2. IsFiniteSet({c})
  BY FS_Singleton
<1>5. 1 \in Int /\ MaxObjects[c] \in Int
  BY <1>1
<1>6. IsFiniteSet(1 .. MaxObjects[c])
  BY <1>5, FS_Interval
<1>3. IsFiniteSet(S)
  BY <1>2, <1>6, FS_Product
<1>4. InFlight(c) \in SUBSET S /\ InFlight(c)' \in SUBSET S
  BY Objects DEF InFlight, Running
<1> HIDE DEF S
<1> QED BY <1>3, <1>4, FS_Subset, FS_CardinalityType

LEMMA FewerInFlight ==
  ASSUME NEW c \in Conn, Cardinality(InFlight(c)) <= MaxStreams, InFlight(c)' \subseteq InFlight(c)
  PROVE  Cardinality(InFlight(c)') <= MaxStreams
<1>1. Cardinality(InFlight(c)') <= Cardinality(InFlight(c))
  BY InFlightFinite, FS_Subset
<1> QED BY <1>1, InFlightFinite

LEMMA HoldersFinite ==
  /\ IsFiniteSet(Holders) /\ Cardinality(Holders) \in Nat
  /\ Cardinality(Holders') \in Nat
<1>1. Holders \in SUBSET Conn /\ Holders' \in SUBSET Conn
  BY DEF Holders
<1> QED BY <1>1, FS_Subset, FS_CardinalityType

LoopStep == HoldsPermit \cup {"none", "done"}
Balanced == permits + Cardinality(Holders) = MaxConnections

\* A loop that moves keeps, takes or gives back its permit.
LEMMA PermitsMove ==
  ASSUME loop \in [Conn -> LoopStep], permits \in 0 .. MaxConnections, Balanced,
         NEW c \in Conn, NEW at \in LoopStep, Goto(c, at),
         \/ (loop[c] \in HoldsPermit <=> at \in HoldsPermit) /\ permits' = permits
         \/ loop[c] \notin HoldsPermit /\ at \in HoldsPermit /\ permits > 0 /\ permits' = permits - 1
         \/ loop[c] \in HoldsPermit /\ at \notin HoldsPermit /\ permits' = permits + 1
  PROVE  permits' \in 0 .. MaxConnections /\ Balanced'
<1>1. \A d \in Conn : loop'[d] = IF d = c THEN at ELSE loop[d]
  BY DEF Goto
<1>2. CASE (loop[c] \in HoldsPermit <=> at \in HoldsPermit) /\ permits' = permits
  <2>1. Holders' = Holders
    BY <1>1, <1>2 DEF Holders
  <2> QED BY <1>2, <2>1 DEF Balanced
<1>3. CASE loop[c] \notin HoldsPermit /\ at \in HoldsPermit /\ permits > 0 /\ permits' = permits - 1
  <2>1. Holders' = Holders \cup {c} /\ c \notin Holders
    BY <1>1, <1>3 DEF Holders
  <2>2. Cardinality(Holders') = Cardinality(Holders) + 1
    BY <2>1, HoldersFinite, FS_AddElement
  <2> QED BY <1>3, <2>2, HoldersFinite DEF Balanced
<1>4. CASE loop[c] \in HoldsPermit /\ at \notin HoldsPermit /\ permits' = permits + 1
  <2>1. Holders' = Holders \ {c} /\ c \in Holders
    BY <1>1, <1>4 DEF Holders
  <2>2. Cardinality(Holders') = Cardinality(Holders) - 1
    BY <2>1, HoldersFinite, FS_RemoveElement
  <2> QED BY <1>4, <2>2, HoldersFinite DEF Balanced
<1> QED BY <1>2, <1>3, <1>4

-----------------------------------------------------------------------------
(* The parts of IInv.                                                      *)

LoopSound(c) ==
  /\ sessions[c] = IF loop[c] \in Looping THEN pinned[c] ELSE NoSession
  /\ loop[c] \in {"none", "connecting"} => pinned[c] = NoSession
  /\ loop[c] = "acquire" => pinned[c] # NoSession
  /\ loop[c] \in {"read", "acquire"} => opened[c] > 0
  /\ Cardinality(InFlight(c)) <= MaxStreams

ObjectSound(o) ==
  /\ step[o] # "none" =>
       /\ o[2] <= opened[o[1]] /\ pinned[o[1]] # NoSession
       /\ asked[o] \in LfsRequest /\ asked[o].repo_id = pinned[o[1]].repo_id
  /\ step[o] = "queued" <=> loop[o[1]] = "acquire" /\ o = Latest(o[1])
  /\ loop[o[1]] = "read" /\ o = Latest(o[1]) => step[o] = "none"
  /\ step[o] \in {"spawned", "serving", "refusing"} /\ loop[o[1]] = "done" => o[1] \in closed \cup left

Covered(o) ==
  \/ still_authorized(grants, SessionOf(o))
  \/ watcher.pc \in {"status", "sweep"}
  \/ watcher.pc = "close" /\ o[1] \in watcher.revoked

LEMMA IInvParts ==
  IInv <=> /\ TypeOK /\ Quiet /\ Balanced
           /\ \A c \in Conn : LoopSound(c)
           /\ \A o \in Object : ObjectSound(o) /\ (Live(o) => Covered(o))
BY DEF IInv, PermitAccounting, PinRegistered, InOrder, NoneLeftBehind, Unrevoked, Running,
       Balanced, LoopSound, ObjectSound, Covered

LEMMA IInvPartsNext ==
  IInv' <=> /\ TypeOK' /\ Quiet' /\ Balanced'
            /\ \A c \in Conn : LoopSound(c)'
            /\ \A o \in Object : ObjectSound(o)' /\ (Live(o)' => Covered(o)')
BY DEF IInv, PermitAccounting, PinRegistered, InOrder, NoneLeftBehind, Unrevoked, Running,
       Balanced, LoopSound, ObjectSound, Covered

\* Nothing happens on connection d.
Untouched(d) ==
  /\ sessions'[d] = sessions[d] /\ loop'[d] = loop[d]
  /\ pinned'[d] = pinned[d] /\ opened'[d] = opened[d]

LEMMA OtherConnection ==
  ASSUME NEW d \in Conn, LoopSound(d), Untouched(d), \A o \in Object : o[1] = d => step'[o] = step[o]
  PROVE  LoopSound(d)'
<1>1. InFlight(d)' = InFlight(d)
  BY DEF InFlight, Running
<1> QED BY <1>1 DEF LoopSound, Untouched

LEMMA OtherObject ==
  ASSUME NEW o \in Object, ObjectSound(o), Live(o) => Covered(o),
         Untouched(o[1]), step'[o] = step[o], asked'[o] = asked[o],
         closed \subseteq closed', left \subseteq left', UNCHANGED <<grants, watcher>>
  PROVE  ObjectSound(o)' /\ (Live(o)' => Covered(o)')
<1>1. ObjectSound(o)'
  BY DEF ObjectSound, Untouched, Latest
<1>2. Live(o)' => Covered(o)'
  BY DEF Live, Covered, SessionOf, Caller, Untouched
<1> QED BY <1>1, <1>2

\* The session of an object is what its connection has pinned.
LEMMA SessionIsPinned ==
  ASSUME TypeOK, NEW o \in Object, ObjectSound(o), step[o] # "none"
  PROVE  SessionOf(o) = pinned[o[1]] /\ pinned[o[1]] \in LfsSession
<1>1. o[1] \in Conn
  BY Objects
<1>2. pinned[o[1]] \in LfsSession /\ asked[o].repo_id = pinned[o[1]].repo_id
  BY <1>1 DEF TypeOK, ObjectSound
<1> QED BY <1>2 DEF SessionOf, Caller, LfsSession

\* The request of an object is the latest of its connection while the loop has it.
LEMMA LatestIsObject ==
  ASSUME TypeOK, NEW c \in Conn, opened[c] > 0
  PROVE  Latest(c) \in Object /\ Latest(c)[1] = c /\ Latest(c)[2] = opened[c]
<1>1. opened[c] \in 1 .. MaxObjects[c]
  BY DEF TypeOK
<1> QED BY <1>1, Objects DEF Latest

\* A step on connection c must keep its parts of IInv, and the counters.
LEMMA OneConnection ==
  ASSUME IInv, NEW c \in Conn, TypeOK', Quiet', Balanced',
         \A d \in Conn : d # c => Untouched(d),
         \A o \in Object : o[1] # c => step'[o] = step[o] /\ asked'[o] = asked[o],
         closed \subseteq closed', left \subseteq left', UNCHANGED <<grants, watcher>>,
         LoopSound(c)',
         \A o \in Object : o[1] = c => ObjectSound(o)' /\ (Live(o)' => Covered(o)')
  PROVE  IInv'
<1>0. /\ \A d \in Conn : LoopSound(d)
      /\ \A o \in Object : ObjectSound(o) /\ (Live(o) => Covered(o))
  BY IInvParts
<1>1. ASSUME NEW d \in Conn, d # c PROVE LoopSound(d)'
  BY <1>0, <1>1, OtherConnection
<1>2. ASSUME NEW o \in Object, o[1] # c PROVE ObjectSound(o)' /\ (Live(o)' => Covered(o)')
  <2>1. o[1] \in Conn
    BY Objects
  <2> QED BY <1>0, <1>2, <2>1, OtherObject
<1>3. /\ \A d \in Conn : LoopSound(d)'
      /\ \A o \in Object : ObjectSound(o)' /\ (Live(o)' => Covered(o)')
  BY <1>1, <1>2
<1> QED BY <1>3, IInvPartsNext

-----------------------------------------------------------------------------
(* The steps of the loop.                                                  *)

\* A step of the loop that touches no object.
LEMMA LoopOnly ==
  ASSUME IInv, NEW c \in Conn, NEW at \in LoopStep \ {"acquire"}, daemon = "serving",
         loop[c] # "acquire", loop' = [loop EXCEPT ![c] = at],
         UNCHANGED <<pinned, objectvars>>, UnchangedByLoop,
         permits' \in 0 .. MaxConnections, Balanced',
         timer' \in [Conn -> 0 .. IdleTimeout],
         \/ sessions' = sessions /\ (at \in Looping => loop[c] \in HoldsPermit)
                               /\ (at \notin Looping => loop[c] = "none")
         \/ sessions' = [sessions EXCEPT ![c] = NoSession] /\ at = "done",
         \/ opened' = opened /\ at # "read"
         \/ opened' = [opened EXCEPT ![c] = @ + 1] /\ opened[c] < MaxObjects[c] /\ at = "read",
         at = "done" => c \in closed \cup left \/ InFlight(c) = {}
  PROVE  IInv'
<1>0. /\ TypeOK /\ LoopSound(c) /\ Quiet
      /\ \A o \in Object : ObjectSound(o) /\ (Live(o) => Covered(o))
  BY IInvParts
<1>1. sessions' \in [Conn -> Session \cup {NoSession}]
  BY <1>0 DEF TypeOK, WatcherTypeOK
<1>2. opened' \in [Conn -> Nat] /\ \A d \in Conn : opened'[d] <= MaxObjects[d]
  BY <1>0 DEF TypeOK
<1>3. TypeOK'
  BY <1>0, <1>1, <1>2
  DEF TypeOK, WatcherTypeOK, StoreTypeOK, UnchangedByLoop, storevars, objectvars, LoopStep
<1>4. Quiet'
  BY <1>0 DEF Quiet, UnchangedByLoop, Watching
<1>5. \A d \in Conn : d # c => Untouched(d)
  BY <1>0 DEF TypeOK, WatcherTypeOK, Untouched
<1>6. loop'[c] = at /\ pinned'[c] = pinned[c] /\ opened'[c] \in {opened[c], opened[c] + 1}
  BY <1>0 DEF TypeOK
<1>7. LoopSound(c)'
  <2>1. InFlight(c)' = InFlight(c)
    BY DEF InFlight, Running, objectvars
  <2>2. sessions'[c] = IF at \in Looping THEN pinned[c] ELSE NoSession
    BY <1>0 DEF LoopSound, TypeOK, WatcherTypeOK, Looping, HoldsPermit
  <2>3. at = "read" => opened'[c] > 0
    BY <1>0 DEF TypeOK
  <2>4. at = "connecting" => pinned[c] = NoSession
    BY <1>0 DEF LoopSound, LoopStep, Looping
  <2>5. at # "none" \/ loop[c] = "none"
    BY DEF Looping
  <2> QED BY <1>0, <1>6, <2>1, <2>2, <2>3, <2>4, <2>5 DEF LoopSound
<1>8. ASSUME NEW o \in Object, o[1] = c PROVE ObjectSound(o)' /\ (Live(o)' => Covered(o)')
  <2>1. step'[o] = step[o] /\ asked'[o] = asked[o]
    BY DEF objectvars
  <2>2. Live(o)' => Covered(o)'
    BY <1>0, <1>6, <1>8, <2>1 DEF UnchangedByLoop, Live, Covered, SessionOf, Caller
  <2>3. step[o] # "none" => o[2] <= opened[c] /\ o[2] \in Nat /\ opened[c] \in Nat
    BY <1>0, <1>8, Objects DEF ObjectSound, TypeOK
  <2>4. at = "read" => opened'[c] = opened[c] + 1
    BY <1>0 DEF TypeOK
  <2>5. at = "read" /\ o = Latest(c)' => step[o] = "none"
    BY <2>3, <2>4 DEF Latest
  <2>6. step[o] # "queued"
    BY <1>0, <1>8 DEF ObjectSound
  <2>7. step[o] \in {"spawned", "serving", "refusing"} /\ at = "done" => c \in closed \cup left
    BY <1>8 DEF InFlight, Running
  <2>8. step[o] # "none" => o[2] <= opened'[c]
    BY <1>6, <2>3
  <2> QED BY <1>0, <1>6, <1>8, <2>1, <2>2, <2>5, <2>6, <2>7, <2>8
      DEF ObjectSound, UnchangedByLoop
<1> QED BY <1>3, <1>4, <1>5, <1>7, <1>8, OneConnection DEF UnchangedByLoop, objectvars

LEMMA PlainLoopSteps ==
  ASSUME IInv, NEW c \in Conn,
         \/ Accept(c) \/ Refuse(c) \/ Established(c) \/ ConnectFails(c)
         \/ AcceptStream(c) \/ AcceptFails(c) \/ Tick(c)
         \/ IdleTimerReturns(c) \/ IdleTimerContinues(c) \/ RequestUnreadable(c)
         \/ RejectionWritten(c) \/ \E req \in Sent : RejectOther(c, req)
  PROVE  IInv'
<1>0. TypeOK /\ LoopSound(c) /\ Quiet /\ Balanced /\ \A o \in Object : ObjectSound(o)
  BY IInvParts
<1>1. loop \in [Conn -> LoopStep] /\ permits \in 0 .. MaxConnections /\ permits \in Nat
  BY <1>0 DEF TypeOK, LoopStep
<1>2. loop[c] \notin {"none", "done"} => daemon = "serving"
  BY <1>0 DEF Quiet
<1>3. /\ {"connecting", "accept", "read", "rejecting", "acquire"} = HoldsPermit
      /\ {"accept", "read", "rejecting", "acquire"} = Looping
      /\ {"none", "done", "connecting", "accept", "read", "rejecting"} \subseteq LoopStep \ {"acquire"}
  BY DEF HoldsPermit, Looping, LoopStep
<1>4. timer \in [Conn -> 0 .. IdleTimeout] /\ [timer EXCEPT ![c] = 0] \in [Conn -> 0 .. IdleTimeout]
  BY <1>0 DEF TypeOK
<1>5. loop[c] = "connecting" => InFlight(c) = {}
  BY <1>0 DEF LoopSound, ObjectSound, InFlight, Running
<1>6. CASE Accept(c)
  <2> USE <1>6 DEF Accept
  <2>1. loop' = [loop EXCEPT ![c] = "connecting"]
    BY DEF Goto
  <2>2. permits' \in 0 .. MaxConnections /\ Balanced'
    BY <1>0, <1>1, <1>3, PermitsMove
  <2> QED BY <1>3, <1>4, <2>1, <2>2, LoopOnly
<1>7. CASE Refuse(c)
  <2> USE <1>7 DEF Refuse
  <2>1. loop' = [loop EXCEPT ![c] = "done"]
    BY DEF Goto
  <2>2. permits' \in 0 .. MaxConnections /\ Balanced'
    BY <1>0, <1>1, <1>3, PermitsMove
  <2>3. InFlight(c) = {}
    BY <1>0 DEF LoopSound, ObjectSound, InFlight, Running
  <2> QED BY <1>3, <1>4, <2>1, <2>2, <2>3, LoopOnly
<1>8. CASE Established(c) \/ IdleTimerContinues(c) \/ RequestUnreadable(c) \/ RejectionWritten(c)
  <2>1. /\ NextTurn(c) /\ loop[c] \in {"connecting", "accept", "read", "rejecting"}
        /\ UNCHANGED <<sessions, pinned, opened, permits, objectvars>> /\ UnchangedByLoop
    BY <1>8 DEF Established, IdleTimerContinues, RequestUnreadable, RejectionWritten, TimerFired
  <2>2. loop' = [loop EXCEPT ![c] = "accept"] /\ Goto(c, "accept") /\ timer' = [timer EXCEPT ![c] = 0]
    BY <2>1 DEF NextTurn, Goto
  <2>3. permits' \in 0 .. MaxConnections /\ Balanced'
    BY <1>0, <1>1, <1>3, <2>1, <2>2, PermitsMove
  <2> QED BY <1>2, <1>3, <1>4, <2>1, <2>2, <2>3, LoopOnly
<1>9. CASE ConnectFails(c) \/ AcceptFails(c) \/ IdleTimerReturns(c)
  <2>1. /\ Return(c) /\ UnchangedByLoop /\ loop[c] \in {"connecting", "accept"}
        /\ c \in closed \cup left \/ InFlight(c) = {}
    BY <1>5, <1>9 DEF ConnectFails, AcceptFails, IdleTimerReturns, TimerFired
  <2>2. /\ loop' = [loop EXCEPT ![c] = "done"] /\ Goto(c, "done")
        /\ sessions' = [sessions EXCEPT ![c] = NoSession] /\ permits' = permits + 1
        /\ UNCHANGED <<pinned, opened, timer, objectvars>>
    BY <2>1 DEF Return, Goto, objectvars
  <2>3. permits' \in 0 .. MaxConnections /\ Balanced'
    BY <1>0, <1>1, <1>3, <2>1, <2>2, PermitsMove
  <2> QED BY <1>2, <1>3, <1>4, <2>1, <2>2, <2>3, LoopOnly
<1>10. CASE AcceptStream(c)
  <2> USE <1>10 DEF AcceptStream
  <2>1. loop' = [loop EXCEPT ![c] = "read"]
    BY DEF Goto
  <2>2. permits' \in 0 .. MaxConnections /\ Balanced'
    BY <1>0, <1>1, <1>3, PermitsMove
  <2> QED BY <1>2, <1>3, <1>4, <2>1, <2>2, LoopOnly
<1>11. CASE Tick(c)
  <2> USE <1>11 DEF Tick
  <2>1. loop' = [loop EXCEPT ![c] = "accept"] /\ Goto(c, "accept")
    BY <1>1 DEF Goto
  <2>2. permits' \in 0 .. MaxConnections /\ Balanced'
    BY <1>0, <1>1, <1>3, <2>1, PermitsMove
  <2>3. timer' \in [Conn -> 0 .. IdleTimeout]
    BY <1>4
  <2> QED BY <1>2, <1>3, <2>1, <2>2, <2>3, LoopOnly
<1>12. ASSUME NEW req \in Sent, RejectOther(c, req) PROVE IInv'
  <2> USE <1>12 DEF RejectOther
  <2>1. loop' = [loop EXCEPT ![c] = "rejecting"] /\ Goto(c, "rejecting")
    BY DEF Goto
  <2>2. permits' \in 0 .. MaxConnections /\ Balanced'
    BY <1>0, <1>1, <1>3, <2>1, PermitsMove
  <2> QED BY <1>2, <1>3, <1>4, <2>1, <2>2, LoopOnly
<1> QED BY <1>6, <1>7, <1>8, <1>9, <1>10, <1>11, <1>12

\* A request is read: the latest object of the connection is queued under its pin.
LEMMA QueueStep ==
  ASSUME IInv, NEW c \in Conn, NEW req \in LfsRequest, NEW s \in LfsSession,
         loop[c] = "read", Queue(c, req), s.repo_id = req.repo_id,
         pinned[c] \in {NoSession, s},
         pinned' = [pinned EXCEPT ![c] = s], sessions' = [sessions EXCEPT ![c] = s],
         UNCHANGED <<opened, timer, permits>>, UnchangedByLoop
  PROVE  IInv'
<1> DEFINE x == Latest(c)
<1>0. /\ TypeOK /\ LoopSound(c) /\ Quiet /\ Balanced
      /\ \A o \in Object : ObjectSound(o) /\ (Live(o) => Covered(o))
  BY IInvParts
<1>1. x \in Object /\ x[1] = c /\ x[2] = opened[c] /\ daemon = "serving"
  BY <1>0, LatestIsObject DEF LoopSound, Quiet
<1>2. /\ asked' = [asked EXCEPT ![x] = req] /\ step' = [step EXCEPT ![x] = "queued"]
      /\ loop' = [loop EXCEPT ![c] = "acquire"] /\ Goto(c, "acquire")
  BY DEF Queue, Goto
<1>3. step[x] = "none"
  BY <1>0, <1>1 DEF ObjectSound
<1>4. Latest(c)' = x
  BY DEF Latest
<1> HIDE DEF x
<1>5. permits' \in 0 .. MaxConnections /\ Balanced'
  <2>1. loop \in [Conn -> LoopStep] /\ permits \in 0 .. MaxConnections /\ "acquire" \in LoopStep
        /\ "acquire" \in HoldsPermit /\ "read" \in HoldsPermit
    BY <1>0 DEF TypeOK, LoopStep, HoldsPermit
  <2> QED BY <1>0, <1>2, <2>1, PermitsMove
<1>6. TypeOK'
  <2>1. sessions' \in [Conn -> Session \cup {NoSession}] /\ pinned' \in [Conn -> LfsSession \cup {NoSession}]
    BY <1>0 DEF TypeOK, WatcherTypeOK, Session
  <2> QED BY <1>0, <1>2, <1>5, <2>1
      DEF TypeOK, WatcherTypeOK, StoreTypeOK, UnchangedByLoop, storevars, HoldsPermit
<1>7. Quiet'
  BY <1>0, <1>1 DEF Quiet, UnchangedByLoop, Watching
<1>8. \A d \in Conn : d # c => Untouched(d)
  BY <1>0, <1>2 DEF TypeOK, WatcherTypeOK, Untouched
<1>9. \A o \in Object : o # x => step'[o] = step[o] /\ asked'[o] = asked[o]
  BY <1>0, <1>2 DEF TypeOK
<1>10. /\ step'[x] = "queued" /\ asked'[x] = req /\ pinned'[c] = s /\ sessions'[c] = s
       /\ loop'[c] = "acquire" /\ s # NoSession
  BY <1>0, <1>1, <1>2 DEF TypeOK, WatcherTypeOK, Session
<1>11. LoopSound(c)'
  <2>1. InFlight(c)' \subseteq InFlight(c)
    BY <1>9, <1>10 DEF InFlight, Running
  <2>2. Cardinality(InFlight(c)') <= MaxStreams
    BY <1>0, <2>1, FewerInFlight DEF LoopSound
  <2> QED BY <1>0, <1>10, <2>2 DEF LoopSound, Looping
<1>12. ASSUME NEW o \in Object, o[1] = c, o # x PROVE ObjectSound(o)' /\ (Live(o)' => Covered(o)')
  <2>1. step'[o] = step[o] /\ asked'[o] = asked[o] /\ step[o] # "queued"
    BY <1>0, <1>9, <1>12 DEF ObjectSound
  <2>2. step[o] # "none" => pinned'[c] = pinned[c]
    BY <1>0, <1>10, <1>12 DEF ObjectSound
  <2>3. ObjectSound(o)'
    BY <1>0, <1>4, <1>10, <1>12, <2>1, <2>2 DEF ObjectSound
  <2>4. Live(o)' => Live(o) /\ step[o] # "none"
    BY <2>1 DEF Live, UnchangedByLoop
  <2>5. step[o] # "none" => SessionOf(o)' = SessionOf(o)
    BY <1>12, <2>1, <2>2 DEF SessionOf, Caller
  <2> QED BY <1>0, <2>3, <2>4, <2>5 DEF Covered, UnchangedByLoop
<1>13. ASSUME NEW o \in Object, o = x PROVE ObjectSound(o)' /\ ~Live(o)'
  <2>1. /\ o[1] = c /\ o[2] <= opened'[c] /\ o = Latest(o[1])'
        /\ step'[o] = "queued" /\ asked'[o] = req
    BY <1>0, <1>1, <1>4, <1>10, <1>13 DEF TypeOK
  <2> QED BY <1>10, <2>1 DEF ObjectSound, Live
<1>14. /\ \A o \in Object : o[1] = c => ObjectSound(o)' /\ (Live(o)' => Covered(o)')
       /\ \A o \in Object : o[1] # c => step'[o] = step[o] /\ asked'[o] = asked[o]
  BY <1>1, <1>9, <1>12, <1>13
<1> QED BY <1>5, <1>6, <1>7, <1>8, <1>11, <1>14, OneConnection DEF UnchangedByLoop

LEMMA ReadSteps ==
  ASSUME IInv, NEW c \in Conn, NEW req \in Sent,
         ReadNext(c, req) \/ \E caller \in Node : ReadFirst(c, caller, req)
  PROVE  IInv'
<1>0. TypeOK /\ LoopSound(c) /\ req \in LfsRequest
  BY IInvParts
<1>1. CASE ReadNext(c, req)
  <2>1. pinned[c] \in LfsSession
    BY <1>0, <1>1 DEF ReadNext, TypeOK
  <2>2. sessions[c] = pinned[c]
    BY <1>0, <1>1 DEF ReadNext, LoopSound, Looping
  <2>3. pinned' = [pinned EXCEPT ![c] = pinned[c]] /\ sessions' = [sessions EXCEPT ![c] = pinned[c]]
    BY <1>0, <1>1, <2>2 DEF ReadNext, TypeOK, WatcherTypeOK
  <2> QED BY <1>0, <1>1, <2>1, <2>3, QueueStep DEF ReadNext
<1>2. ASSUME NEW caller \in Node, ReadFirst(c, caller, req) PROVE IInv'
  <2> DEFINE s == [kind |-> "lfs", caller |-> caller, repo_id |-> req.repo_id]
  <2>1. s \in LfsSession /\ s.repo_id = req.repo_id
    BY <1>0 DEF LfsSession, LfsRequest
  <2>2. pinned' = [pinned EXCEPT ![c] = s] /\ sessions' = [sessions EXCEPT ![c] = s]
    BY <1>0, <1>2 DEF ReadFirst, TypeOK
  <2> HIDE DEF s
  <2> QED BY <1>0, <1>2, <2>1, <2>2, QueueStep DEF ReadFirst
<1> QED BY <1>1, <1>2

LEMMA SpawnStep ==
  ASSUME IInv, NEW c \in Conn, AcquireAndSpawn(c) PROVE IInv'
<1> DEFINE x == Latest(c)
<1> USE DEF AcquireAndSpawn
<1>0. /\ TypeOK /\ LoopSound(c) /\ Quiet /\ Balanced
      /\ \A o \in Object : ObjectSound(o) /\ (Live(o) => Covered(o))
  BY IInvParts
<1>1. x \in Object /\ x[1] = c /\ x[2] = opened[c] /\ daemon = "serving"
  BY <1>0, LatestIsObject DEF LoopSound, Quiet
<1>2. /\ step' = [step EXCEPT ![x] = "spawned"] /\ timer' = [timer EXCEPT ![c] = 0]
      /\ loop' = [loop EXCEPT ![c] = "accept"] /\ Goto(c, "accept")
  BY DEF NextTurn, Goto
<1>3. step[x] = "queued"
  BY <1>0, <1>1 DEF ObjectSound
<1> HIDE DEF x
<1>5. permits' \in 0 .. MaxConnections /\ Balanced'
  <2>1. loop \in [Conn -> LoopStep] /\ permits \in 0 .. MaxConnections /\ "accept" \in LoopStep
        /\ "acquire" \in HoldsPermit /\ "accept" \in HoldsPermit
    BY <1>0 DEF TypeOK, LoopStep, HoldsPermit
  <2> QED BY <1>0, <1>2, <2>1, PermitsMove
<1>6. TypeOK'
  <2>1. step' \in [Object -> {"none", "queued", "spawned", "serving", "refusing", "done"}]
    BY <1>0, <1>2 DEF TypeOK
  <2>2. loop' \in [Conn -> HoldsPermit \cup {"none", "done"}]
    BY <1>0, <1>2 DEF TypeOK, HoldsPermit
  <2>3. timer' \in [Conn -> 0 .. IdleTimeout]
    <3>1. timer \in [Conn -> 0 .. IdleTimeout] /\ 0 \in 0 .. IdleTimeout
      BY <1>0 DEF TypeOK
    <3> QED BY <1>2, <3>1
  <2> HIDE <1>2
  <2> QED BY <1>0, <1>5, <2>1, <2>2, <2>3
      DEF TypeOK, WatcherTypeOK, StoreTypeOK, UnchangedByLoop, storevars
<1>7. Quiet'
  BY <1>0, <1>1 DEF Quiet, UnchangedByLoop, Watching
<1>8. \A d \in Conn : d # c => Untouched(d)
  BY <1>0, <1>2 DEF TypeOK, WatcherTypeOK, Untouched
<1>9. /\ \A o \in Object : o # x => step'[o] = step[o]
      /\ step'[x] = "spawned" /\ loop'[c] = "accept" /\ asked' = asked
  BY <1>0, <1>1, <1>2 DEF TypeOK
<1>11. LoopSound(c)'
  <2>1. InFlight(c)' = InFlight(c) \cup {x}
    BY <1>1, <1>9 DEF InFlight, Running
  <2>2. Cardinality(InFlight(c) \cup {x}) =
          IF x \in InFlight(c) THEN Cardinality(InFlight(c)) ELSE Cardinality(InFlight(c)) + 1
    BY InFlightFinite, FS_AddElement
  <2>3. Cardinality(InFlight(c)) \in Nat /\ Cardinality(InFlight(c)) < MaxStreams
    BY InFlightFinite
  <2>4. Cardinality(InFlight(c)') <= MaxStreams
    BY <2>1, <2>2, <2>3
  <2> QED BY <1>0, <1>9, <2>4 DEF LoopSound, Looping
<1>12. ASSUME NEW o \in Object, o[1] = c, o # x PROVE ObjectSound(o)' /\ (Live(o)' => Covered(o)')
  <2>1. step'[o] = step[o] /\ asked'[o] = asked[o] /\ step[o] # "queued"
    BY <1>0, <1>9, <1>12 DEF ObjectSound, x
  <2>2. ObjectSound(o)'
    BY <1>0, <1>9, <1>12, <2>1 DEF ObjectSound
  <2> QED BY <1>0, <2>1, <2>2 DEF Live, Covered, SessionOf, Caller, UnchangedByLoop
<1>13. ASSUME NEW o \in Object, o = x PROVE ObjectSound(o)' /\ ~Live(o)'
  <2>1. o[1] = c /\ step'[o] = "spawned" /\ step[o] = "queued" /\ asked'[o] = asked[o]
    BY <1>1, <1>3, <1>9, <1>13
  <2> QED BY <1>0, <1>9, <2>1 DEF ObjectSound, Live
<1>14. /\ \A o \in Object : o[1] = c => ObjectSound(o)' /\ (Live(o)' => Covered(o)')
       /\ \A o \in Object : o[1] # c => step'[o] = step[o] /\ asked'[o] = asked[o]
  BY <1>1, <1>9, <1>12, <1>13
<1> QED BY <1>5, <1>6, <1>7, <1>8, <1>11, <1>14, OneConnection DEF UnchangedByLoop

-----------------------------------------------------------------------------
(* The steps of the objects, and the ends.                                 *)

InService == {"spawned", "serving", "refusing"}

\* A task that moves on, to be served only if the published grants allow it.
LEMMA OneObject ==
  ASSUME IInv, NEW o \in Object, NEW at \in {"serving", "refusing", "done"},
         step[o] \in InService, ObjectGoto(o, at),
         at = "serving" => still_authorized(grants, SessionOf(o))
  PROVE  IInv'
<1> DEFINE c == o[1]
<1> USE DEF ObjectGoto
<1>0. /\ TypeOK /\ Quiet /\ Balanced /\ \A d \in Conn : LoopSound(d)
      /\ \A x \in Object : ObjectSound(x) /\ (Live(x) => Covered(x))
  BY IInvParts
<1>1. c \in Conn /\ daemon = "serving"
  BY <1>0, Objects DEF Quiet, InService
<1>2. /\ step'[o] = at /\ \A x \in Object : x # o => step'[x] = step[x]
  BY <1>0 DEF TypeOK
<1>3. TypeOK'
  BY <1>0 DEF TypeOK, WatcherTypeOK, StoreTypeOK, storevars, watchervars
<1>4. Quiet' /\ Balanced'
  BY <1>0, <1>1 DEF Quiet, Balanced, Holders, Watching, watchervars
<1>5. \A d \in Conn : Untouched(d)
  BY DEF Untouched, watchervars
<1>6. LoopSound(c)'
  <2>1. InFlight(c)' \subseteq InFlight(c)
    BY <1>2 DEF InFlight, Running, InService
  <2>2. Cardinality(InFlight(c)') <= MaxStreams
    BY <1>0, <1>1, <2>1, FewerInFlight DEF LoopSound
  <2> QED BY <1>0, <1>1, <2>2 DEF LoopSound, watchervars
<1>7. ASSUME NEW x \in Object, x # o PROVE ObjectSound(x)' /\ (Live(x)' => Covered(x)')
  <2>1. x[1] \in Conn
    BY Objects
  <2> QED BY <1>0, <1>2, <1>5, <1>7, <2>1, OtherObject DEF watchervars
<1>8. ObjectSound(o)' /\ (Live(o)' => Covered(o)')
  <2>1. ObjectSound(o)'
    BY <1>0, <1>2 DEF ObjectSound, InService, Latest, watchervars
  <2>2. Live(o)' => at = "serving"
    BY <1>2 DEF Live
  <2>3. SessionOf(o)' = SessionOf(o)
    BY DEF SessionOf, Caller
  <2> QED BY <2>1, <2>2, <2>3 DEF Covered, watchervars
<1>9. \A x \in Object : ObjectSound(x)' /\ (Live(x)' => Covered(x)')
  BY <1>7, <1>8
<1>10. \A x \in Object : x[1] # c => step'[x] = step[x] /\ asked'[x] = asked[x]
  BY <1>2
<1> HIDE DEF c
<1> QED BY <1>1, <1>3, <1>4, <1>5, <1>6, <1>9, <1>10, OneConnection DEF watchervars

LEMMA ObjectSteps ==
  ASSUME IInv, NEW o \in Object, Authorize(o) \/ Deny(o) \/ ObjectEnds(o) PROVE IInv'
<1>1. CASE Authorize(o)
  <2>1. still_authorized(grants, SessionOf(o))
    BY <1>1 DEF Authorize, authorize_lfs, still_authorized, lfs_session_authorized, SessionOf, Caller
  <2> QED BY <1>1, <2>1, OneObject DEF Authorize, InService
<1>2. CASE Deny(o)
  BY <1>2, OneObject DEF Deny, InService
<1>3. CASE ObjectEnds(o)
  BY <1>3, OneObject DEF ObjectEnds, InService
<1> QED BY <1>1, <1>2, <1>3

LEMMA LeaveStep == ASSUME IInv, NEW c \in Conn, Leave(c) PROVE IInv'
<1> USE DEF Leave
<1>0. /\ TypeOK /\ Quiet /\ Balanced /\ LoopSound(c)
      /\ \A x \in Object : ObjectSound(x) /\ (Live(x) => Covered(x))
  BY IInvParts
<1>1. TypeOK'
  BY <1>0 DEF TypeOK, WatcherTypeOK, StoreTypeOK, storevars, watchervars, objectvars
<1>2. Quiet' /\ Balanced'
  BY <1>0 DEF Quiet, Balanced, Holders, Watching, watchervars, objectvars
<1>3. \A d \in Conn : Untouched(d)
  BY DEF Untouched, watchervars
<1>4. \A x \in Object : step'[x] = step[x] /\ asked'[x] = asked[x]
  BY DEF objectvars
<1>5. LoopSound(c)'
  BY <1>0, <1>3, <1>4, OtherConnection
<1>6. \A x \in Object : ObjectSound(x)' /\ (Live(x)' => Covered(x)')
  BY <1>0, <1>3, <1>4, Objects, OtherObject DEF watchervars
<1> QED BY <1>1, <1>2, <1>3, <1>4, <1>5, <1>6, OneConnection DEF watchervars

LEMMA StopInv == ASSUME IInv, StopAll PROVE IInv'
<1> USE DEF StopAll, Stop, WatcherIdle, NoSessions
<1>0. /\ TypeOK /\ \A d \in Conn : LoopSound(d)
      /\ \A x \in Object : ObjectSound(x)
  BY IInvParts
<1>1. /\ \A d \in Conn : loop'[d] \in {"none", "done"} /\ (loop'[d] = "none" <=> loop[d] = "none")
      /\ \A x \in Object : step'[x] \in {"none", "done"} /\ (step'[x] = "none" <=> step[x] = "none")
  OBVIOUS
<1>2. Balanced'
  <2>1. Holders' = {}
    BY <1>1 DEF Holders, HoldsPermit
  <2> QED BY <2>1, FS_EmptySet DEF Balanced
<1>3. TypeOK'
  BY <1>0, GrantTableType DEF TypeOK, WatcherTypeOK, StoreTypeOK, storevars
<1>4. Quiet'
  BY <1>1 DEF Quiet
<1>5. ASSUME NEW c \in Conn PROVE LoopSound(c)'
  <2>1. InFlight(c)' = {}
    BY <1>1 DEF InFlight, Running
  <2>2. Cardinality(InFlight(c)') <= MaxStreams
    BY <2>1, FS_EmptySet
  <2>3. sessions'[c] = NoSession /\ pinned'[c] = pinned[c]
    OBVIOUS
  <2> QED BY <1>0, <1>1, <2>2, <2>3 DEF LoopSound, Looping
<1>6. ASSUME NEW x \in Object PROVE ObjectSound(x)' /\ ~Live(x)'
  <2>1. x[1] \in Conn /\ step'[x] \in {"none", "done"} /\ loop'[x[1]] \in {"none", "done"}
    BY <1>1, Objects
  <2>2. asked'[x] = asked[x] /\ pinned'[x[1]] = pinned[x[1]] /\ opened'[x[1]] = opened[x[1]]
    OBVIOUS
  <2>3. step'[x] # "none" => step[x] # "none"
    BY <1>1
  <2> HIDE DEF StopAll, Stop
  <2> QED BY <1>0, <2>1, <2>2, <2>3 DEF ObjectSound, Live
<1> QED BY <1>2, <1>3, <1>4, <1>5, <1>6, IInvPartsNext

-----------------------------------------------------------------------------
(* The steps of the file, of `run` and of the watcher task.                *)

\* What such a step has to keep.
LEMMA DaemonFrame ==
  ASSUME IInv, UNCHANGED lfsvars, sessions' = sessions, closed \subseteq closed',
         WatcherTypeOK', daemon = "serving" => daemon' = "serving", ~Watching' => watcher'.pc = "idle",
         \A o \in Object : Live(o)' => Covered(o)'
  PROVE  IInv'
<1>0. /\ TypeOK /\ Quiet /\ Balanced /\ \A c \in Conn : LoopSound(c)
      /\ \A o \in Object : ObjectSound(o)
  BY IInvParts
<1>1. UNCHANGED <<loop, pinned, opened, timer, left, permits, step, asked>>
  BY DEF lfsvars, loopvars, objectvars
<1>2. TypeOK'
  BY <1>0, <1>1 DEF TypeOK
<1>3. Quiet' /\ Balanced'
  BY <1>0, <1>1 DEF Quiet, Balanced, Holders
<1>4. ASSUME NEW c \in Conn PROVE LoopSound(c)'
  BY <1>0, <1>1, OtherConnection DEF Untouched
<1>5. ASSUME NEW o \in Object PROVE ObjectSound(o)'
  BY <1>0, <1>1 DEF ObjectSound, Latest
<1> QED BY <1>2, <1>3, <1>4, <1>5, IInvPartsNext

\* A live object is one the registry covers.
LEMMA LiveIsRegistered ==
  ASSUME IInv, NEW o \in Object, Live(o)
  PROVE  /\ sessions[o[1]] = SessionOf(o) /\ sessions[o[1]] # NoSession /\ o[1] \in Conn
         /\ daemon = "serving"
<1>0. TypeOK /\ Quiet /\ LoopSound(o[1]) /\ ObjectSound(o) /\ o[1] \in Conn
  BY IInvParts, Objects
<1>1. step[o] = "serving" /\ o[1] \notin closed \cup left
  BY DEF Live
<1>2. SessionOf(o) = pinned[o[1]] /\ pinned[o[1]] \in LfsSession
  BY <1>0, <1>1, SessionIsPinned
<1>3. loop[o[1]] \in Looping
  BY <1>0, <1>1 DEF TypeOK, LoopSound, ObjectSound, Looping, HoldsPermit
<1>4. daemon = "serving"
  BY <1>0, <1>1 DEF Quiet
<1> QED BY <1>0, <1>2, <1>3, <1>4 DEF LoopSound, Session

\* Steps that do not touch the objects leave them what they are.
LEMMA SameObjects ==
  ASSUME UNCHANGED lfsvars, NEW o \in Object
  PROVE  SessionOf(o)' = SessionOf(o) /\ (closed \subseteq closed' => (Live(o)' => Live(o)))
BY DEF lfsvars, loopvars, objectvars, SessionOf, Caller, Live

LEMMA RunInv ==
  ASSUME IInv, PorcelainEdit \/ OtherFileChanges \/ LoadInitial \/ SpawnWatcher \/ GoOnline,
         UNCHANGED lfsvars
  PROVE  IInv'
<1>0. /\ TypeOK /\ Quiet /\ WatcherTypeOK /\ \A o \in Object : Live(o) => Covered(o)
  BY IInvParts DEF TypeOK
<1>1. sessions' = sessions /\ closed' = closed /\ watcher' = watcher
  BY DEF PorcelainEdit, OtherFileChanges, LoadInitial, SpawnWatcher, GoOnline
<1>2. WatcherTypeOK'
  <2>1. CASE PorcelainEdit
    <3>1. PICK cmd \in Command : Edit(cmd)
      BY <2>1 DEF PorcelainEdit
    <3>2. StoreTypeOK'
      BY <1>0, <3>1, EditTyped DEF WatcherTypeOK
    <3> QED BY <1>0, <2>1, <3>2 DEF PorcelainEdit, WatcherTypeOK, Notify
  <2>2. CASE OtherFileChanges
    BY <1>0, <2>2 DEF OtherFileChanges, WatcherTypeOK, StoreTypeOK, Notify, storevars
  <2>3. CASE LoadInitial
    BY <1>0, <2>3 DEF LoadInitial, WatcherTypeOK, StoreTypeOK, storevars
  <2>4. CASE SpawnWatcher
    BY <1>0, <2>4 DEF SpawnWatcher, WatcherTypeOK, StoreTypeOK, storevars
  <2>5. CASE GoOnline
    BY <1>0, <2>5 DEF GoOnline, WatcherTypeOK, StoreTypeOK, Notify, storevars
  <2> QED BY <2>1, <2>2, <2>3, <2>4, <2>5
<1>3. ASSUME NEW o \in Object, Live(o)' PROVE Covered(o)'
  <2>1. Live(o) /\ SessionOf(o)' = SessionOf(o)
    BY <1>1, <1>3, SameObjects
  <2>2. grants' = grants
    <3>1. daemon # "down"
      BY <2>1, LiveIsRegistered
    <3> QED BY <3>1 DEF PorcelainEdit, OtherFileChanges, LoadInitial, SpawnWatcher, GoOnline
  <2> QED BY <1>0, <1>1, <2>1, <2>2 DEF Covered
<1>4. ~Watching' => watcher'.pc = "idle"
  BY <1>0, <1>1
  DEF Quiet, Watching, PorcelainEdit, OtherFileChanges, LoadInitial, SpawnWatcher, GoOnline
<1> QED BY <1>1, <1>2, <1>3, <1>4, DaemonFrame
    DEF PorcelainEdit, OtherFileChanges, LoadInitial, SpawnWatcher, GoOnline

LEMMA WatcherInv ==
  ASSUME IInv, WatcherStep \/ ReloadFails, UNCHANGED lfsvars
  PROVE  IInv'
<1>0. /\ Quiet /\ WatcherTypeOK /\ \A o \in Object : Live(o) => Covered(o)
  BY IInvParts DEF TypeOK
<1>1. daemon' = daemon /\ sessions' = sessions /\ closed \subseteq closed'
  BY DEF WatcherStep, Reload, ReloadFails, Publish, UpdateStatus, Sweep, CloseRevoked, SweepDone
<1>2. \A o \in Object : Live(o)' =>
        Live(o) /\ SessionOf(o)' = SessionOf(o) /\ Covered(o) /\ sessions[o[1]] = SessionOf(o)
          /\ sessions[o[1]] # NoSession /\ o[1] \in Conn
  BY <1>0, <1>1, SameObjects, LiveIsRegistered
<1>3. watcher.pc # "idle" => Watching
  BY <1>0 DEF Quiet
<1> DEFINE Kept == /\ WatcherTypeOK' /\ (~Watching' => watcher'.pc = "idle")
                   /\ \A o \in Object : Live(o)' => Covered(o)'
<1>4. CASE Reload
  <2> USE <1>4 DEF Reload, Receive, WatcherIdle
  <2>1. watcher' = [pc |-> "publish", reloaded |-> file, revoked |-> {}, failed |-> FALSE]
    OBVIOUS
  <2>2. WatcherTypeOK'
    <3>1. events' \in 0 .. MaxEvents
      BY <1>0 DEF WatcherTypeOK
    <3> HIDE DEF Receive
    <3> QED BY <1>0, <2>1, <3>1 DEF WatcherTypeOK, StoreTypeOK, storevars
  <2>3. \A o \in Object : Live(o)' => Covered(o)'
    BY <1>2 DEF Covered
  <2> QED BY <1>1, <2>2, <2>3, DaemonFrame DEF Watching
<1>5. CASE ReloadFails
  <2> USE <1>5 DEF ReloadFails, Receive
  <2>1. watcher' = [watcher EXCEPT !.failed = TRUE]
    OBVIOUS
  <2>2. watcher'.pc = "idle" /\ watcher'.revoked = watcher.revoked
    BY <1>0, <2>1 DEF WatcherTypeOK
  <2>3. WatcherTypeOK'
    <3>1. events' \in 0 .. MaxEvents
      BY <1>0 DEF WatcherTypeOK
    <3> HIDE DEF Receive
    <3> QED BY <1>0, <2>1, <3>1 DEF WatcherTypeOK, StoreTypeOK, storevars
  <2>4. \A o \in Object : Live(o)' => Covered(o)'
    BY <1>2, <2>2 DEF Covered
  <2> QED BY <1>1, <2>2, <2>3, <2>4, DaemonFrame
<1>6. CASE Publish
  <2> USE <1>6 DEF Publish, WatcherIdle
  <2>1. watcher' = [pc |-> "status", reloaded |-> EmptyGrants, revoked |-> {}, failed |-> FALSE]
    OBVIOUS
  <2>2. WatcherTypeOK'
    BY <1>0, <2>1, GrantTableType DEF WatcherTypeOK, StoreTypeOK, storevars
  <2>3. \A o \in Object : Live(o)' => Covered(o)'
    BY DEF Covered
  <2> QED BY <1>1, <1>3, <2>2, <2>3, DaemonFrame DEF Watching
<1>7. CASE UpdateStatus
  <2> USE <1>7 DEF UpdateStatus
  <2>1. watcher' = [watcher EXCEPT !.pc = "sweep"]
    OBVIOUS
  <2>2. watcher'.pc = "sweep"
    BY <1>0, <2>1 DEF WatcherTypeOK
  <2>3. WatcherTypeOK'
    BY <1>0, <2>1 DEF WatcherTypeOK, StoreTypeOK, storevars
  <2>4. \A o \in Object : Live(o)' => Covered(o)'
    BY <2>2 DEF Covered
  <2> QED BY <1>1, <1>3, <2>3, <2>4, DaemonFrame DEF Watching
<1>8. CASE Sweep
  <2> DEFINE R == {c \in Conn : sessions[c] # NoSession /\ ~still_authorized(grants, sessions[c])}
  <2>1. watcher' = [pc |-> "close", reloaded |-> EmptyGrants, revoked |-> R, failed |-> FALSE]
    BY <1>8 DEF Sweep, WatcherIdle
  <2>2. R \in SUBSET Conn /\ grants' = grants /\ UNCHANGED <<storevars, daemon, events, grants, sessions, closed>>
    BY <1>8 DEF Sweep
  <2>3. \A o \in Object : Live(o)' => still_authorized(grants, SessionOf(o)) \/ o[1] \in R
    BY <1>2
  <2> HIDE DEF R
  <2>4. WatcherTypeOK'
    BY <1>0, <2>1, <2>2, GrantTableType DEF WatcherTypeOK, StoreTypeOK, storevars
  <2>5. \A o \in Object : Live(o)' => Covered(o)'
    BY <1>2, <2>1, <2>2, <2>3 DEF Covered
  <2>6. watcher.pc # "idle"
    BY <1>8 DEF Sweep
  <2> QED BY <1>1, <1>3, <2>4, <2>5, <2>6, DaemonFrame DEF Watching
<1>9. CASE CloseRevoked
  <2>1. PICK c \in watcher.revoked :
          closed' = closed \cup {c} /\ watcher' = [watcher EXCEPT !.revoked = @ \ {c}]
    BY <1>9 DEF CloseRevoked
  <2>2. /\ watcher'.pc = "close" /\ watcher.pc = "close" /\ watcher'.revoked = watcher.revoked \ {c}
        /\ grants' = grants
    BY <1>0, <1>9, <2>1 DEF WatcherTypeOK, CloseRevoked
  <2>3. WatcherTypeOK'
    BY <1>0, <1>9, <2>1 DEF CloseRevoked, WatcherTypeOK, StoreTypeOK, storevars
  <2>4. \A o \in Object : Live(o)' => Covered(o)'
    <3>1. \A o \in Object : Live(o)' => o[1] # c
      BY <2>1 DEF Live
    <3> QED BY <1>2, <2>2, <3>1 DEF Covered
  <2> QED BY <1>1, <1>3, <2>2, <2>3, <2>4, DaemonFrame DEF Watching
<1>10. CASE SweepDone
  <2> USE <1>10 DEF SweepDone, WatcherIdle
  <2>1. watcher' = [pc |-> "idle", reloaded |-> EmptyGrants, revoked |-> {}, failed |-> FALSE]
    OBVIOUS
  <2>2. WatcherTypeOK'
    BY <1>0, <2>1, GrantTableType DEF WatcherTypeOK, StoreTypeOK, storevars
  <2>3. \A o \in Object : Live(o)' => Covered(o)'
    BY <1>2 DEF Covered
  <2> QED BY <1>1, <2>1, <2>2, <2>3, DaemonFrame
<1> QED BY <1>4, <1>5, <1>6, <1>7, <1>8, <1>9, <1>10 DEF WatcherStep

LEMMA StutterInv == ASSUME IInv, UNCHANGED vars PROVE IInv'
<1>0. WatcherTypeOK /\ Quiet /\ \A o \in Object : Live(o) => Covered(o)
  BY IInvParts DEF TypeOK
<1>1. UNCHANGED lfsvars /\ UNCHANGED watchervars /\ UNCHANGED storevars
  BY DEF vars
<1>2. WatcherTypeOK' /\ (~Watching' => watcher'.pc = "idle")
  BY <1>0, <1>1 DEF watchervars, storevars, WatcherTypeOK, StoreTypeOK, Quiet, Watching
<1>3. \A o \in Object : Live(o)' => Covered(o)'
  BY <1>0, <1>1, SameObjects DEF watchervars, Covered
<1> QED BY <1>1, <1>2, <1>3, DaemonFrame DEF watchervars

LEMMA InitIInv == Init => IInv
<1> SUFFICES ASSUME Init PROVE IInv
  OBVIOUS
<1> USE DEF Init, WatcherInit, StoreInit
<1>1. file \in GrantTable
  BY InitialGrantsAssumption
<1>2. drawn \in [RepoId -> Path \cup {NoPath}]
  BY <1>1 DEF DrawnFor, RepoPaths
<1>3. TypeOK
  BY <1>1, <1>2, GrantTableType
  DEF TypeOK, WatcherTypeOK, StoreTypeOK, WatcherIdle, NoSessions
<1>4. Balanced
  <2>1. Holders = {}
    BY DEF Holders, HoldsPermit
  <2> QED BY <2>1, FS_EmptySet DEF Balanced
<1>5. Quiet
  BY DEF Quiet, WatcherIdle
<1>6. ASSUME NEW c \in Conn PROVE LoopSound(c)
  <2>1. InFlight(c) = {}
    BY DEF InFlight, Running
  <2>2. Cardinality(InFlight(c)) <= MaxStreams
    BY <2>1, FS_EmptySet
  <2> QED BY <2>2 DEF LoopSound, Looping, NoSessions
<1>7. ASSUME NEW o \in Object PROVE ObjectSound(o) /\ ~Live(o)
  <2>1. o[1] \in Conn
    BY Objects
  <2> QED BY <2>1 DEF ObjectSound, Live
<1> QED BY <1>3, <1>4, <1>5, <1>6, <1>7, IInvParts

LEMMA NextIInv == IInv /\ [Next]_vars => IInv'
<1> SUFFICES ASSUME IInv, [Next]_vars PROVE IInv'
  OBVIOUS
<1>1. CASE DaemonStep
  BY <1>1, RunInv, WatcherInv DEF DaemonStep
<1>2. ASSUME NEW c \in Conn,
             \/ Accept(c) \/ Refuse(c) \/ AcceptStream(c) \/ Tick(c)
             \/ LoopStepOf(c) \/ RejectionWritten(c) \/ Leave(c)
      PROVE  IInv'
  BY <1>2, PlainLoopSteps, ReadSteps, SpawnStep, LeaveStep DEF LoopStepOf, ReadRequest
<1>3. CASE StopAll
  BY <1>3, StopInv
<1>4. CASE UNCHANGED vars
  BY <1>4, StutterInv
<1> QED BY <1>1, <1>2, <1>3, <1>4, ObjectSteps DEF Next

LEMMA Invariance == Spec => []IInv
BY InitIInv, NextIInv, PTL DEF Spec

-----------------------------------------------------------------------------

\* Every state the LFS server reaches is well-typed.
THEOREM TypeCorrect == Spec => []TypeOK
BY Invariance, PTL DEF IInv

\* Whenever the watcher task rests, every object in transfer is of a repository
\* its caller has LFS access to (handle_lfs, close_revoked_sessions).
THEOREM NoTransferEscapes == Spec => []NoEscape
<1>1. IInv => NoEscape
  BY DEF IInv, Unrevoked, NoEscape
<1> QED BY <1>1, Invariance, PTL

\* The registry has every connection with an object in transfer, under the one
\* repository of its objects (Sessions::register, the pin of handle_lfs).
THEOREM RegistryCovers == Spec => []RegistryCoversObjects
<1>1. IInv => RegistryCoversObjects
  <2> SUFFICES ASSUME IInv, NEW o \in Object,
                      step[o] \in {"queued", "spawned", "serving"}, loop[o[1]] # "done"
               PROVE  sessions[o[1]] = SessionOf(o)
    BY DEF RegistryCoversObjects
  <2>1. TypeOK /\ LoopSound(o[1]) /\ ObjectSound(o) /\ o[1] \in Conn
    BY IInvParts, Objects
  <2>2. SessionOf(o) = pinned[o[1]]
    BY <2>1, SessionIsPinned
  <2> QED BY <2>1, <2>2 DEF TypeOK, LoopSound, ObjectSound, Looping, HoldsPermit
<1> QED BY <1>1, Invariance, PTL

\* No slot leaks and none is given back twice, and no connection has more
\* transfers than stream permits.
THEOREM PermitsAccounted == Spec => []PermitAccounting
BY Invariance, PTL DEF IInv

-----------------------------------------------------------------------------
(* A reload closes only what it forbids.                                   *)

\* While the watcher holds the grants mutex to close its victims, each is still
\* pinned to the session the sweep found forbidden, even if its loop is over.
Victims ==
  watcher.pc = "close" =>
    \A c \in watcher.revoked :
      pinned[c] # NoSession /\ ~still_authorized(grants, pinned[c])

\* No step of a connection changes a pin.
LEMMA PinsStay ==
  ASSUME IInv, NEW c \in Conn, pinned[c] # NoSession,
         UNCHANGED pinned \/ \E d \in Conn, caller \in Node, req \in Sent : ReadFirst(d, caller, req)
  PROVE  pinned'[c] = pinned[c]
BY DEF ReadFirst, IInv, TypeOK

\* A task changes neither the watcher's tables nor the connections it has closed.
LEMMA TasksUntouched ==
  ASSUME \/ \E c \in Conn : \/ Accept(c) \/ Refuse(c) \/ AcceptStream(c) \/ Tick(c)
                            \/ LoopStepOf(c) \/ RejectionWritten(c) \/ Leave(c)
         \/ \E o \in Object : Authorize(o) \/ Deny(o) \/ ObjectEnds(o)
  PROVE  /\ UNCHANGED <<watcher, grants, closed>>
         /\ UNCHANGED pinned
            \/ \E d \in Conn, caller \in Node, req \in Sent : ReadFirst(d, caller, req)
<1> USE DEF UnchangedByLoop, watchervars
<1>1. ASSUME NEW c \in Conn, Accept(c) \/ Refuse(c) \/ AcceptStream(c) \/ Tick(c)
                             \/ RejectionWritten(c) \/ Leave(c)
      PROVE  UNCHANGED <<watcher, grants, closed, pinned>>
  BY <1>1 DEF Accept, Refuse, AcceptStream, Tick, RejectionWritten, Leave
<1>2. ASSUME NEW c \in Conn, LoopStepOf(c), ~ReadRequest(c)
      PROVE  UNCHANGED <<watcher, grants, closed, pinned>>
  BY <1>2 DEF LoopStepOf, Return, Established, ConnectFails, AcceptFails, IdleTimerReturns,
              IdleTimerContinues, RequestUnreadable, AcquireAndSpawn
<1>3. ASSUME NEW c \in Conn, ReadRequest(c)
      PROVE  /\ UNCHANGED <<watcher, grants, closed>>
             /\ UNCHANGED pinned \/ \E caller \in Node, req \in Sent : ReadFirst(c, caller, req)
  BY <1>3 DEF ReadRequest, ReadFirst, ReadNext, RejectOther
<1>4. ASSUME NEW o \in Object, Authorize(o) \/ Deny(o) \/ ObjectEnds(o)
      PROVE  UNCHANGED <<watcher, grants, closed, pinned>>
  BY <1>4 DEF Authorize, Deny, ObjectEnds, ObjectGoto
<1> QED BY <1>1, <1>2, <1>3, <1>4

\* The sweep picks its victims from a registry of pins; closing one drops it.
LEMMA DaemonKeepsVictims ==
  ASSUME IInv, Victims, DaemonStep PROVE Victims'
<1>0. /\ UNCHANGED <<loop, pinned>> /\ WatcherTypeOK /\ Quiet
      /\ \A c \in Conn : sessions[c] = IF loop[c] \in Looping THEN pinned[c] ELSE NoSession
  BY IInvParts DEF DaemonStep, lfsvars, loopvars, TypeOK, LoopSound
<1>1. CASE PorcelainEdit \/ OtherFileChanges \/ SpawnWatcher \/ GoOnline
  BY <1>0, <1>1 DEF Victims, PorcelainEdit, OtherFileChanges, SpawnWatcher, GoOnline
<1>2. CASE LoadInitial
  BY <1>0, <1>2 DEF Victims, LoadInitial, Quiet, Watching
<1>3. CASE Reload \/ Publish \/ SweepDone
  <2>1. Reload => watcher'.pc = "publish"
    BY DEF Reload, WatcherIdle
  <2>2. Publish => watcher'.pc = "status"
    BY DEF Publish, WatcherIdle
  <2>3. SweepDone => watcher'.pc = "idle"
    BY DEF SweepDone, WatcherIdle
  <2> QED BY <1>3, <2>1, <2>2, <2>3 DEF Victims
<1>4. CASE ReloadFails
  <2>1. watcher'.pc = "idle"
    BY <1>0, <1>4 DEF ReloadFails, Receive, WatcherTypeOK
  <2> QED BY <2>1 DEF Victims
<1>5. CASE UpdateStatus
  <2>1. watcher'.pc = "sweep"
    BY <1>0, <1>5 DEF UpdateStatus, WatcherTypeOK
  <2> QED BY <2>1 DEF Victims
<1>6. CASE Sweep
  <2>1. /\ grants' = grants
        /\ watcher'.revoked = {c \in Conn : /\ sessions[c] # NoSession
                                            /\ ~still_authorized(grants, sessions[c])}
    BY <1>6 DEF Sweep, WatcherIdle
  <2> QED BY <1>0, <2>1 DEF Victims
<1>7. CASE CloseRevoked
  <2>1. PICK c \in watcher.revoked : watcher' = [watcher EXCEPT !.revoked = @ \ {c}]
    BY <1>7 DEF CloseRevoked
  <2>2. watcher'.pc = watcher.pc /\ watcher'.revoked \subseteq watcher.revoked /\ grants' = grants
    BY <1>0, <1>7, <2>1 DEF CloseRevoked, WatcherTypeOK
  <2> QED BY <1>0, <2>2 DEF Victims
<1> QED BY <1>1, <1>2, <1>3, <1>4, <1>5, <1>6, <1>7 DEF DaemonStep, WatcherStep

LEMMA NextVictims == IInv /\ Victims /\ [Next]_vars => Victims'
<1> SUFFICES ASSUME IInv, Victims, [Next]_vars PROVE Victims'
  OBVIOUS
<1>1. CASE StopAll
  <2>1. watcher'.pc = "idle"
    BY <1>1 DEF StopAll, Stop, WatcherIdle
  <2> QED BY <2>1 DEF Victims
<1>2. CASE UNCHANGED vars
  BY <1>2 DEF Victims, vars, watchervars, lfsvars, loopvars
<1>3. CASE /\ UNCHANGED <<watcher, grants, closed>>
           /\ UNCHANGED pinned
              \/ \E d \in Conn, caller \in Node, req \in Sent : ReadFirst(d, caller, req)
  <2>1. watcher.pc = "close" => watcher.revoked \subseteq Conn
    BY DEF IInv, TypeOK, WatcherTypeOK
  <2>2. \A c \in Conn : pinned[c] # NoSession => pinned'[c] = pinned[c]
    BY <1>3, PinsStay
  <2> QED BY <1>3, <2>1, <2>2 DEF Victims
<1> QED BY <1>1, <1>2, <1>3, DaemonKeepsVictims, TasksUntouched DEF Next

\* What a step closes is one of the victims, and so is every object on it.
LEMMA CloseStep ==
  IInv /\ Victims /\ [Next]_vars =>
    \A c \in closed' \ closed : \A o \in Object :
      o[1] = c /\ Live(o) => ~still_authorized(grants, SessionOf(o))
<1> SUFFICES ASSUME IInv, Victims, [Next]_vars, NEW c \in closed' \ closed,
                    NEW o \in Object, o[1] = c, Live(o)
             PROVE  ~still_authorized(grants, SessionOf(o))
  OBVIOUS
<1>1. CASE CloseRevoked
  <2>1. watcher.pc = "close" /\ c \in watcher.revoked
    BY <1>1 DEF CloseRevoked
  <2>2. SessionOf(o) = pinned[o[1]]
    BY IInvParts, SessionIsPinned DEF Live
  <2> QED BY <2>1, <2>2 DEF Victims
<1>2. closed' = closed \/ CloseRevoked
  <2>1. ASSUME DaemonStep PROVE closed' = closed \/ CloseRevoked
    BY <2>1 DEF DaemonStep, WatcherStep, PorcelainEdit, OtherFileChanges, LoadInitial, SpawnWatcher,
                GoOnline, Reload, ReloadFails, Publish, UpdateStatus, Sweep, SweepDone
  <2> QED BY <2>1, TasksUntouched DEF Next, StopAll, Stop, vars, watchervars
<1> QED BY <1>1, <1>2

\* A reload that closes a connection ends no transfer that it still allows.
THEOREM ClosesOnlyForbidden == Spec => OnlyForbiddenClosed
<1>1. Init => Victims
  BY DEF Init, WatcherInit, WatcherIdle, Victims
<1>2. IInv /\ Victims /\ [Next]_vars =>
        [\A c \in closed' \ closed : \A o \in Object :
           o[1] = c /\ Live(o) => ~still_authorized(grants, SessionOf(o))]_vars
  BY CloseStep
<1> QED BY <1>1, <1>2, NextVictims, Invariance, PTL DEF Spec, OnlyForbiddenClosed

-----------------------------------------------------------------------------
(* The LFS server implements AccessControl, with a session per object.     *)

\* The abstract state the refinement mapping gives.
liveSession == [o \in Object |-> IF Live(o) THEN SessionOf(o) ELSE NoSession]
isEnforcing == watcher.pc \in {"status", "sweep", "close"}

\* Both specifications speak of the same tables.
LEMMA SameTables == AC!EmptyGrants = EmptyGrants /\ AC!GrantTable = GrantTable
BY DEF AC!EmptyGrants, EmptyGrants, AC!GrantTable, GrantTable, AC!NotShared, NotShared,
       AC!RepoGrant, RepoGrant, AC!Rights, Rights, AC!Right, Right

LEMMA InitImplements == Init => AC!Init
<1> SUFFICES ASSUME Init PROVE AC!Init
  OBVIOUS
<1>1. \A o \in Object : ~Live(o)
  BY DEF Init, Live
<1>2. liveSession = [o \in Object |-> NoSession]
  BY <1>1 DEF liveSession
<1> QED BY <1>2, SameTables DEF AC!Init, AC!NoneLive, Init, WatcherInit, WatcherIdle, liveSession

\* Objects that are live after a step were so before, under the same session.
NoneStarts == \A o \in Object : Live(o)' => Live(o) /\ SessionOf(o)' = SessionOf(o)

\* A step that starts none at most ends some.
LEMMA EndImplements ==
  ASSUME grants' = grants, isEnforcing' = isEnforcing, NoneStarts PROVE AC!Next
<1> DEFINE cs == {o \in Object : ~Live(o)'}
<1>1. liveSession' = [o \in Object |-> IF o \in cs THEN NoSession ELSE liveSession[o]]
  BY DEF liveSession, NoneStarts
<1>2. cs \in SUBSET Object
  OBVIOUS
<1> HIDE DEF cs
<1>3. AC!End(cs)
  BY <1>1 DEF AC!End, liveSession, isEnforcing
<1> QED BY <1>2, <1>3 DEF AC!Next

\* An object starts only by Authorize, as the published grants allow.
LEMMA AuthorizeImplements ==
  ASSUME IInv, NEW o \in Object, Authorize(o) PROVE AC!Next
<1> USE DEF Authorize, ObjectGoto, watchervars
<1>0. TypeOK /\ ObjectSound(o)
  BY IInvParts
<1>1. step'[o] = "serving" /\ \A x \in Object : x # o => step'[x] = step[x]
  BY <1>0 DEF TypeOK
<1>2. \A x \in Object : SessionOf(x)' = SessionOf(x)
  BY DEF SessionOf, Caller
<1>3. isEnforcing' = isEnforcing /\ grants' = grants /\ closed' = closed /\ left' = left
  BY DEF isEnforcing
<1>4. CASE o[1] \in closed \cup left
  <2>1. NoneStarts
    BY <1>1, <1>2, <1>3, <1>4 DEF NoneStarts, Live
  <2> QED BY <1>3, <2>1, EndImplements
<1>5. CASE o[1] \notin closed \cup left
  <2>1. /\ ~Live(o) /\ Live(o)' /\ \A x \in Object : x # o => Live(x)' = Live(x)
    BY <1>1, <1>3, <1>5 DEF Live
  <2>2. PICK s \in LfsSession : s = SessionOf(o)
    BY <1>0, SessionIsPinned
  <2>3. liveSession' = [liveSession EXCEPT ![o] = s]
    BY <1>2, <2>1, <2>2 DEF liveSession
  <2>4. liveSession[o] = NoSession
    BY <2>1 DEF liveSession
  <2>5. still_authorized(grants, s)
    BY <2>2 DEF authorize_lfs, still_authorized, lfs_session_authorized, SessionOf, Caller
  <2>6. AC!Admit(o, s)
    BY <1>3, <2>3, <2>4, <2>5 DEF AC!Admit, liveSession, isEnforcing
  <2> QED BY <2>6 DEF AC!Next
<1> QED BY <1>4, <1>5

\* No step of the loop starts or disturbs an object that is served.
LEMMA LoopImplements ==
  ASSUME IInv, NEW c \in Conn,
         \/ Accept(c) \/ Refuse(c) \/ AcceptStream(c) \/ Tick(c)
         \/ LoopStepOf(c) \/ RejectionWritten(c) \/ Leave(c)
  PROVE  AC!Next
<1>0. /\ TypeOK /\ \A o \in Object : ObjectSound(o) /\ o[1] \in Conn
  BY IInvParts, Objects
<1>1. grants' = grants /\ watcher' = watcher /\ closed' = closed /\ left \subseteq left'
  BY DEF Accept, Refuse, AcceptStream, Tick, LoopStepOf, Leave, Established, ConnectFails,
         AcceptFails, IdleTimerReturns, IdleTimerContinues, RequestUnreadable, ReadRequest,
         ReadFirst, ReadNext, RejectOther, RejectionWritten, AcquireAndSpawn, UnchangedByLoop,
         watchervars
<1>2. CASE UNCHANGED <<pinned, objectvars>>
  BY <1>1, <1>2, EndImplements DEF NoneStarts, Live, SessionOf, Caller, objectvars, isEnforcing
<1>3. ASSUME NEW req \in Sent, NEW s \in LfsSession, Queue(c, req),
             pinned' = [pinned EXCEPT ![c] = s], pinned[c] \in {NoSession, s}
      PROVE  AC!Next
  <2>1. ASSUME NEW o \in Object, Live(o)' PROVE Live(o) /\ SessionOf(o)' = SessionOf(o)
    <3>1. o # Latest(c)
      BY <1>0, <1>3, <2>1 DEF Queue, Live, TypeOK
    <3>2. step'[o] = step[o] /\ asked'[o] = asked[o]
      BY <1>0, <1>3, <3>1 DEF Queue, TypeOK
    <3>3. Live(o)
      BY <1>1, <2>1, <3>2 DEF Live
    <3>4. pinned[o[1]] # NoSession
      BY <1>0, <3>3 DEF ObjectSound, Live
    <3>5. pinned'[o[1]] = pinned[o[1]]
      BY <1>0, <1>3, <3>4 DEF TypeOK
    <3> QED BY <3>2, <3>3, <3>5 DEF SessionOf, Caller
  <2> QED BY <1>1, <2>1, EndImplements DEF NoneStarts, isEnforcing
<1>4. ASSUME NEW req \in Sent, ReadNext(c, req) PROVE AC!Next
  <2>1. pinned[c] \in LfsSession /\ pinned' = [pinned EXCEPT ![c] = pinned[c]]
    BY <1>0, <1>4 DEF ReadNext, TypeOK
  <2> QED BY <1>3, <1>4, <2>1 DEF ReadNext
<1>5. ASSUME NEW req \in Sent, NEW caller \in Node, ReadFirst(c, caller, req) PROVE AC!Next
  <2> DEFINE s == [kind |-> "lfs", caller |-> caller, repo_id |-> req.repo_id]
  <2>1. s \in LfsSession /\ pinned' = [pinned EXCEPT ![c] = s]
    BY <1>5 DEF ReadFirst, LfsSession, LfsRequest
  <2> HIDE DEF s
  <2> QED BY <1>3, <1>5, <2>1 DEF ReadFirst
<1>6. CASE AcquireAndSpawn(c)
  <2>1. \A o \in Object : step'[o] \in {step[o], "spawned"} /\ asked' = asked /\ pinned' = pinned
    BY <1>0, <1>6 DEF AcquireAndSpawn, TypeOK
  <2> QED BY <1>1, <2>1, EndImplements DEF NoneStarts, Live, SessionOf, Caller, isEnforcing
<1>7. CASE \/ Accept(c) \/ Refuse(c) \/ AcceptStream(c) \/ Tick(c) \/ Leave(c)
           \/ Established(c) \/ ConnectFails(c) \/ AcceptFails(c) \/ IdleTimerReturns(c)
           \/ IdleTimerContinues(c) \/ RequestUnreadable(c) \/ RejectionWritten(c)
           \/ \E req \in Sent : RejectOther(c, req)
  <2>1. UNCHANGED <<pinned, objectvars>>
    BY <1>7 DEF Accept, Refuse, AcceptStream, Tick, Leave, Established, ConnectFails, AcceptFails,
                IdleTimerReturns, IdleTimerContinues, RequestUnreadable, RejectOther, RejectionWritten,
                Return, objectvars
  <2> QED BY <1>2, <2>1
<1> QED BY <1>4, <1>5, <1>6, <1>7 DEF LoopStepOf, ReadRequest

LEMMA ObjectImplements ==
  ASSUME IInv, NEW o \in Object, Authorize(o) \/ Deny(o) \/ ObjectEnds(o) PROVE AC!Next
<1>1. ASSUME NEW at \in {"refusing", "done"}, ObjectGoto(o, at) PROVE AC!Next
  <2>1. \A x \in Object : step'[x] \in {step[x], at}
    BY <1>1 DEF ObjectGoto, IInv, TypeOK
  <2> QED BY <1>1, <2>1, EndImplements
      DEF ObjectGoto, watchervars, NoneStarts, Live, SessionOf, Caller, isEnforcing
<1> QED BY <1>1, AuthorizeImplements DEF Deny, ObjectEnds

LEMMA DaemonImplements ==
  ASSUME IInv, DaemonStep PROVE AC!Next
<1>0. UNCHANGED lfsvars /\ TypeOK /\ WatcherTypeOK /\ Quiet
  BY IInvParts DEF DaemonStep, TypeOK
<1>1. \A o \in Object : SessionOf(o)' = SessionOf(o) /\ (closed \subseteq closed' => (Live(o)' => Live(o)))
  BY <1>0, SameObjects
<1>2. CASE PorcelainEdit \/ OtherFileChanges \/ SpawnWatcher \/ GoOnline \/ ReloadFails
           \/ UpdateStatus \/ Sweep \/ Reload \/ CloseRevoked
  <2>1. grants' = grants /\ closed \subseteq closed'
    BY <1>2 DEF PorcelainEdit, OtherFileChanges, SpawnWatcher, GoOnline,
                ReloadFails, UpdateStatus, Sweep, Reload, CloseRevoked
  <2>2. isEnforcing' = isEnforcing
    <3>1. CASE PorcelainEdit \/ OtherFileChanges \/ SpawnWatcher \/ GoOnline
      BY <3>1 DEF isEnforcing, PorcelainEdit, OtherFileChanges, SpawnWatcher, GoOnline
    <3>2. CASE ReloadFails
      <4>1. watcher'.pc = watcher.pc
        BY <1>0, <3>2 DEF ReloadFails, WatcherTypeOK
      <4> QED BY <4>1 DEF isEnforcing
    <3>3. CASE UpdateStatus
      <4>1. watcher.pc = "status" /\ watcher'.pc = "sweep"
        BY <1>0, <3>3 DEF UpdateStatus, WatcherTypeOK
      <4> QED BY <4>1 DEF isEnforcing
    <3>4. CASE Sweep
      <4>1. watcher.pc = "sweep" /\ watcher'.pc = "close"
        BY <3>4 DEF Sweep, WatcherIdle
      <4> QED BY <4>1 DEF isEnforcing
    <3>5. CASE Reload
      <4>1. watcher.pc = "idle" /\ watcher'.pc = "publish"
        BY <3>5 DEF Reload, Receive, WatcherIdle
      <4> QED BY <4>1 DEF isEnforcing
    <3>6. CASE CloseRevoked
      <4>1. watcher'.pc = watcher.pc
        BY <1>0, <3>6 DEF CloseRevoked, WatcherTypeOK
      <4> QED BY <4>1 DEF isEnforcing
    <3> QED BY <1>2, <3>1, <3>2, <3>3, <3>4, <3>5, <3>6
  <2> QED BY <1>1, <2>1, <2>2, EndImplements DEF NoneStarts
<1>3. CASE LoadInitial
  <2>1. \A o \in Object : ~Live(o)'
    BY <1>0, <1>1, <1>3 DEF LoadInitial, Live, Quiet
  <2>2. liveSession' = [o \in Object |-> NoSession]
    BY <2>1 DEF liveSession
  <2>3. isEnforcing' = FALSE /\ grants' \in GrantTable
    BY <1>0, <1>3 DEF LoadInitial, isEnforcing, Quiet, Watching, WatcherTypeOK, StoreTypeOK
  <2>4. AC!Restart
    BY <2>2, <2>3, SameTables DEF AC!Restart, AC!NoneLive, isEnforcing, liveSession
  <2> QED BY <2>4 DEF AC!Next
<1>4. CASE Publish
  <2> USE <1>4 DEF Publish, WatcherIdle
  <2>1. \A o \in Object : Live(o)' = Live(o)
    BY <1>0 DEF Live, lfsvars, loopvars, objectvars
  <2>2. liveSession' = liveSession
    BY <1>1, <2>1 DEF liveSession
  <2>3. ~isEnforcing /\ isEnforcing' = TRUE /\ grants' \in GrantTable
    BY <1>0 DEF isEnforcing, WatcherTypeOK
  <2>4. AC!Publish
    BY <2>2, <2>3, SameTables DEF AC!Publish, isEnforcing, liveSession
  <2> QED BY <2>4 DEF AC!Next
<1>5. CASE SweepDone
  <2> USE <1>5 DEF SweepDone, WatcherIdle
  <2>1. \A o \in Object : Live(o)' = Live(o)
    BY <1>0 DEF Live, lfsvars, loopvars, objectvars
  <2>2. liveSession' = liveSession
    BY <1>1, <2>1 DEF liveSession
  <2>3. isEnforcing = TRUE /\ isEnforcing' = FALSE
    BY DEF isEnforcing
  <2>4. \A o \in Object : Live(o) => still_authorized(grants, SessionOf(o))
    BY IInvParts DEF Covered
  <2>5. \A o \in Object : liveSession[o] # NoSession => still_authorized(grants, liveSession[o])
    BY <2>4 DEF liveSession
  <2>6. AC!Enforced
    BY <2>2, <2>3, <2>5 DEF AC!Enforced, AC!Compliant, isEnforcing, liveSession
  <2> QED BY <2>6 DEF AC!Next
<1> QED BY <1>2, <1>3, <1>4, <1>5 DEF DaemonStep, WatcherStep

LEMMA NextImplements == IInv /\ [Next]_vars => [AC!Next]_AC!acvars
<1> SUFFICES ASSUME IInv, [Next]_vars PROVE [AC!Next]_AC!acvars
  OBVIOUS
<1>1. CASE StopAll
  <2>1. \A o \in Object : ~Live(o)'
    BY <1>1 DEF StopAll, Live
  <2>2. liveSession' = [o \in Object |-> NoSession]
    BY <2>1 DEF liveSession
  <2>3. isEnforcing' = FALSE /\ grants' \in GrantTable
    BY <1>1, GrantTableType DEF StopAll, Stop, isEnforcing, WatcherIdle
  <2>4. AC!Restart
    BY <2>2, <2>3, SameTables DEF AC!Restart, AC!NoneLive, isEnforcing, liveSession
  <2> QED BY <2>4 DEF AC!Next
<1>2. CASE UNCHANGED vars
  <2>1. grants' = grants /\ isEnforcing' = isEnforcing /\ UNCHANGED lfsvars /\ closed' = closed
    BY <1>2 DEF vars, watchervars, isEnforcing
  <2> QED BY <2>1, SameObjects, EndImplements DEF NoneStarts
<1> QED BY <1>1, <1>2, DaemonImplements, LoopImplements, ObjectImplements DEF Next

\* The LFS server implements AccessControl: an object starts only if the table in
\* force allows it, and a table is enforced on all of them before the next.
THEOREM Implements == Spec => ImplementsAccessControl
BY InitImplements, NextImplements, Invariance, PTL DEF Spec, AC!Spec, ImplementsAccessControl
=============================================================================
