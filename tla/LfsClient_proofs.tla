-------------------------- MODULE LfsClient_proofs --------------------------
(***************************************************************************)
(* Proofs about LfsClient: the safety properties hold for any number of    *)
(* commands, agents and objects and any PARALLEL.  IInv is inductive; it   *)
(* is a conjunction over the commands, so that a step of one command needs *)
(* an argument about that command only.                                    *)
(***************************************************************************)
EXTENDS LfsClient, FiniteSetTheorems, TLAPS

\* The part of IInv that is about one command.
Sound(p) ==
  /\ pc[p] = "done" => IF kind[p] = "pull" THEN refs[p] \subseteq store ELSE oids[p] \subseteq remote
  /\ (\E o \in oids[p] : task[p][o] \in {"spawned", "running"}) => session[p] # "closed"
  /\ Cardinality(InFlight(p)) <= PARALLEL
  /\ pc[p] \in {"idle", "connect"} => task[p] = NoTasks
  /\ pc[p] = "fan_out" => session[p] # "closed" /\ \A o \in oids[p] : task[p][o] # "none"
  /\ pc[p] # "fan_out" => \A o \in Oid : task[p][o] \in {"none", "done", "failure"}
  /\ pc[p] = "close" => \A o \in oids[p] : task[p][o] \in {"done", "failure"}
  /\ pc[p] = "checkout" => kind[p] = "pull"
  /\ \A o \in Oid :
       task[p][o] \in {"ok", "done"} => IF kind[p] = "pull" THEN o \in store ELSE o \in remote
  /\ kind[p] = "pull" => refs[p] \subseteq store \cup oids[p]
  /\ pc[p] = "checkout" => refs[p] \subseteq store

LEMMA IInvByCommand == IInv <=> TypeOK /\ ReportedIsThere /\ \A p \in Process : Sound(p)
  BY DEF IInv, Complete, FanOutContained, TasksInPlace, TransfersDeliver, Sound

LEMMA IInvByCommandNext ==
  IInv' <=> TypeOK' /\ ReportedIsThere' /\ \A p \in Process : Sound(p)'
  BY DEF IInv, Complete, FanOutContained, TasksInPlace, TransfersDeliver, Sound

LEMMA InFlightFinite ==
  ASSUME TypeOK, NEW p \in Process
  PROVE  IsFiniteSet(InFlight(p)) /\ Cardinality(InFlight(p)) \in Nat
<1>1. InFlight(p) \subseteq Oid  BY DEF InFlight, TypeOK
<1> QED  BY <1>1, LfsClientAssumption, FS_Subset, FS_CardinalityType

\* What goes on in a command needs no more permits if no more of its tasks run.
LEMMA FewerInFlight ==
  ASSUME TypeOK, NEW p \in Process, Cardinality(InFlight(p)) <= PARALLEL,
         InFlight(p)' \subseteq InFlight(p)
  PROVE  Cardinality(InFlight(p)') <= PARALLEL
<1>2. IsFiniteSet(InFlight(p))  BY InFlightFinite
<1>3. Cardinality(InFlight(p)') <= Cardinality(InFlight(p))  BY <1>2, FS_Subset
<1>4. IsFiniteSet(InFlight(p)')  BY <1>2, FS_Subset
<1> QED  BY <1>2, <1>3, <1>4, FS_CardinalityType, LfsClientAssumption

\* A command on which nothing happens but the loss of its session stays sound
\* while others add to the stores.
LEMMA OtherCommands ==
  ASSUME TypeOK, NEW p \in Process, Sound(p),
         pc'[p] = pc[p], kind'[p] = kind[p], refs'[p] = refs[p], oids'[p] = oids[p],
         task'[p] = task[p], session'[p] \in {session[p], "lost"},
         store \subseteq store', remote \subseteq remote'
  PROVE  Sound(p)'
<1>1. InFlight(p)' = InFlight(p)  BY DEF InFlight
<1> QED  BY <1>1 DEF Sound

\* A step of one task leaves every other task alone.
LEMMA TaskMoves ==
  ASSUME TypeOK, NEW p \in Process, NEW o \in Oid, NEW at \in Status, Task(p, o, at)
  PROVE  /\ task' \in [Process -> [Oid -> Status]]
         /\ task'[p][o] = at
         /\ \A x \in Oid : x # o => task'[p][x] = task[p][x]
         /\ \A q \in Process : q # p => task'[q] = task[q]
<1>1. task \in [Process -> [Oid -> Status]]  BY DEF TypeOK, Status
<1>2. task' = [task EXCEPT ![p] = [task[p] EXCEPT ![o] = at]]  BY DEF Task
<1>3. [task[p] EXCEPT ![o] = at] \in [Oid -> Status]  BY <1>1
<1> QED  BY <1>1, <1>2, <1>3

\* The common part of the steps of the tasks: the command stays where it is.
LEMMA TaskStepSound ==
  ASSUME IInv, NEW p \in Process, NEW o \in Oid, NEW at \in Status \ {"none"}, Task(p, o, at),
         task[p][o] \in Status \ {"none", "done", "failure"},
         UNCHANGED <<stage, pc, kind, refs, oids, session, agentvars>>,
         store \subseteq store', remote \subseteq remote', store' \subseteq Oid, remote' \subseteq Oid,
         at = "running" => Cardinality(InFlight(p)) < PARALLEL,
         at \in {"ok", "done"} => IF kind[p] = "pull" THEN o \in store' ELSE o \in remote',
         at # "spawned"
  PROVE  IInv'
<1>t. TypeOK /\ ReportedIsThere /\ \A q \in Process : Sound(q)  BY IInvByCommand
<1>1. /\ task' \in [Process -> [Oid -> Status]]
      /\ task'[p][o] = at
      /\ \A x \in Oid : x # o => task'[p][x] = task[p][x]
      /\ \A q \in Process : q # p => task'[q] = task[q]
  BY TaskMoves, <1>t
<1>2. o \in oids[p]  BY <1>t DEF TypeOK
<1>3. TypeOK'  BY <1>1, <1>2, <1>t DEF TypeOK, agentvars, Status
<1>4. ReportedIsThere'  BY <1>t DEF ReportedIsThere, agentvars
<1>5. pc[p] = "fan_out"  BY <1>t DEF Sound, Status
<1>6. Cardinality(InFlight(p)') <= PARALLEL
  <2>f. IsFiniteSet(InFlight(p)) /\ Cardinality(InFlight(p)) \in Nat
    BY <1>t, InFlightFinite
  <2>o. oids[p] \subseteq Oid /\ oids'[p] = oids[p]  BY <1>t DEF TypeOK
  <2>1. CASE at = "running"
    <3>1. InFlight(p)' = InFlight(p) \cup {o}  BY <1>1, <1>2, <2>1, <2>o DEF InFlight
    <3>2. Cardinality(InFlight(p) \cup {o}) =
            IF o \in InFlight(p) THEN Cardinality(InFlight(p)) ELSE Cardinality(InFlight(p)) + 1
      BY <2>f, FS_AddElement
    <3>3. PARALLEL \in Nat /\ Cardinality(InFlight(p)) < PARALLEL
      BY <2>1, LfsClientAssumption
    <3> QED  BY <2>f, <3>1, <3>2, <3>3
  <2>2. CASE at # "running"
    <3>1. InFlight(p)' \subseteq InFlight(p)  BY <1>1, <2>2, <2>o DEF InFlight
    <3>2. Cardinality(InFlight(p)) <= PARALLEL  BY <1>t DEF Sound
    <3> QED  BY <1>t, <3>1, <3>2, FewerInFlight
  <2> QED  BY <2>1, <2>2
<1>7. Sound(p)'
  <2>1. Sound(p)  BY <1>t
  <2>2. oids[p] \subseteq Oid  BY <1>t DEF TypeOK
  <2>3. \A x \in Oid :
          task'[p][x] \in {"ok", "done"} => IF kind[p] = "pull" THEN x \in store' ELSE x \in remote'
    BY <1>1, <2>1 DEF Sound
  <2>4. session'[p] # "closed" /\ \A x \in oids[p] : task'[p][x] # "none"
    BY <1>1, <1>5, <2>1, <2>2 DEF Sound
  <2> HIDE <1>t
  <2> QED  BY <2>1, <2>2, <2>3, <2>4, <1>5, <1>6 DEF Sound
<1>8. ASSUME NEW q \in Process, q # p PROVE Sound(q)'
  BY <1>1, <1>t, <1>8, OtherCommands
<1>9. \A q \in Process : Sound(q)'  BY <1>7, <1>8
<1> QED  BY <1>3, <1>4, <1>9, IInvByCommandNext

\* A step that touches nothing of the commands but the state of their sessions.
LEMMA CommandsRest ==
  ASSUME IInv, TypeOK', ReportedIsThere', UNCHANGED commandvars,
         \A p \in Process : session'[p] \in {session[p], "lost"},
         store \subseteq store', remote \subseteq remote'
  PROVE  IInv'
<1>1. TypeOK /\ \A p \in Process : Sound(p)  BY IInvByCommand
<1>2. ASSUME NEW p \in Process PROVE Sound(p)'  BY <1>1, OtherCommands DEF commandvars
<1> QED  BY <1>2, IInvByCommandNext

\* A step of one command, which must stay sound itself.
LEMMA OneCommand ==
  ASSUME IInv, NEW p \in Process, TypeOK', Sound(p)', UNCHANGED agentvars,
         stage' = stage, store' = store, remote' = remote, kind' = kind,
         \A q \in Process : q # p =>
           /\ pc'[q] = pc[q] /\ refs'[q] = refs[q] /\ oids'[q] = oids[q]
           /\ task'[q] = task[q] /\ session'[q] = session[q]
  PROVE  IInv'
<1>1. TypeOK /\ ReportedIsThere /\ \A q \in Process : Sound(q)  BY IInvByCommand
<1>2. ReportedIsThere'  BY <1>1 DEF ReportedIsThere, agentvars
<1>3. ASSUME NEW q \in Process, q # p PROVE Sound(q)'  BY <1>1, <1>3, OtherCommands
<1>4. \A q \in Process : Sound(q)'  BY <1>3
<1> QED  BY <1>2, <1>4, IInvByCommandNext

LEMMA InitIInv == Init => IInv
<1> SUFFICES ASSUME Init PROVE IInv  OBVIOUS
<1>1. TypeOK  BY DEF Init, TypeOK, NoTasks, Ended, Answering, Status
<1>2. ReportedIsThere  BY DEF Init, ReportedIsThere
<1>3. ASSUME NEW p \in Process PROVE Sound(p)
  <2>1. InFlight(p) = {}  BY DEF Init, InFlight, NoTasks
  <2>2. Cardinality(InFlight(p)) <= PARALLEL  BY <2>1, FS_EmptySet, LfsClientAssumption
  <2> QED  BY <2>2 DEF Init, Sound, NoTasks
<1> QED  BY <1>1, <1>2, <1>3, IInvByCommand

LEMMA CommandSteps ==
  ASSUME IInv, NEW p \in Process, CommandStep(p) \/ Killed(p) \/ \E rs \in Refs : Start(p, rs)
  PROVE  IInv'
<1>t. TypeOK  BY DEF IInv
<1>s. Sound(p)  BY IInvByCommand
<1>n. UNCHANGED agentvars /\ stage' = stage /\ store' = store /\ remote' = remote /\ kind' = kind
  BY DEF CommandStep, Connect, ConnectFails, FanOutReturns, Report, Checkout, Killed, Start
<1> DEFINE Others == \A q \in Process : q # p =>
                       /\ pc'[q] = pc[q] /\ refs'[q] = refs[q] /\ oids'[q] = oids[q]
                       /\ task'[q] = task[q] /\ session'[q] = session[q]
<1>1. ASSUME Connect(p) PROVE TypeOK' /\ Others /\ Sound(p)'
  <2>1. Others  BY <1>1, <1>t DEF Connect, Goto, Session, TypeOK
  <2>2. TypeOK'  BY <1>1, <1>t, <1>n DEF Connect, Goto, Session, TypeOK, agentvars, NoTasks, Ended, Status
  <2>3. InFlight(p)' \subseteq InFlight(p)
    BY <1>1, <1>t DEF Connect, Goto, Session, InFlight, TypeOK, NoTasks
  <2>4. Cardinality(InFlight(p)') <= PARALLEL  BY <1>t, <1>s, <2>3, FewerInFlight DEF Sound
  <2>5. Sound(p)'  BY <1>1, <1>t, <1>s, <1>n, <2>4 DEF Connect, Goto, Session, Sound, TypeOK, NoTasks
  <2> QED  BY <2>1, <2>2, <2>5
<1>2. ASSUME ConnectFails(p) PROVE TypeOK' /\ Others /\ Sound(p)'
  <2>1. Others  BY <1>2, <1>t DEF ConnectFails, Goto, TypeOK
  <2>2. TypeOK'  BY <1>2, <1>t, <1>n DEF ConnectFails, Goto, TypeOK, agentvars, NoTasks, Ended
  <2>3. InFlight(p)' \subseteq InFlight(p)
    BY <1>2, <1>t DEF ConnectFails, Goto, InFlight, TypeOK, NoTasks
  <2>4. Cardinality(InFlight(p)') <= PARALLEL  BY <1>t, <1>s, <2>3, FewerInFlight DEF Sound
  <2>5. Sound(p)'  BY <1>2, <1>t, <1>s, <1>n, <2>4 DEF ConnectFails, Goto, Sound, TypeOK, NoTasks
  <2> QED  BY <2>1, <2>2, <2>5
<1>3. ASSUME FanOutReturns(p) PROVE TypeOK' /\ Others /\ Sound(p)'
  <2>1. Others  BY <1>3, <1>t DEF FanOutReturns, Goto, Session, TypeOK
  <2>2. TypeOK'  BY <1>3, <1>t, <1>n DEF FanOutReturns, Goto, Session, TypeOK, agentvars, NoTasks, Ended
  <2>3. InFlight(p)' \subseteq InFlight(p)
    BY <1>3, <1>t DEF FanOutReturns, Goto, Session, InFlight, TypeOK, NoTasks
  <2>4. Cardinality(InFlight(p)') <= PARALLEL  BY <1>t, <1>s, <2>3, FewerInFlight DEF Sound
  <2>5. Sound(p)'  BY <1>3, <1>t, <1>s, <1>n, <2>4 DEF FanOutReturns, Goto, Session, Sound, TypeOK, NoTasks
  <2> QED  BY <2>1, <2>2, <2>5
<1>4. ASSUME Report(p) PROVE TypeOK' /\ Others /\ Sound(p)'
  <2>1. Others  BY <1>4, <1>t DEF Report, Goto, Finish, TypeOK
  <2>2. TypeOK'  BY <1>4, <1>t, <1>n DEF Report, Goto, Finish, TypeOK, agentvars, NoTasks, Ended
  <2>3. InFlight(p)' \subseteq InFlight(p)
    BY <1>4, <1>t DEF Report, Goto, Finish, InFlight, TypeOK, NoTasks
  <2>4. Cardinality(InFlight(p)') <= PARALLEL  BY <1>t, <1>s, <2>3, FewerInFlight DEF Sound
  <2>5. Sound(p)'  BY <1>4, <1>t, <1>s, <1>n, <2>4 DEF Report, Goto, Finish, Sound, TypeOK, NoTasks
  <2> QED  BY <2>1, <2>2, <2>5
<1>5. ASSUME Checkout(p) PROVE TypeOK' /\ Others /\ Sound(p)'
  <2>1. Others  BY <1>5, <1>t DEF Checkout, Goto, TypeOK
  <2>2. TypeOK'  BY <1>5, <1>t, <1>n DEF Checkout, Goto, TypeOK, agentvars, NoTasks, Ended
  <2>3. InFlight(p)' \subseteq InFlight(p)
    BY <1>5, <1>t DEF Checkout, Goto, InFlight, TypeOK, NoTasks
  <2>4. Cardinality(InFlight(p)') <= PARALLEL  BY <1>t, <1>s, <2>3, FewerInFlight DEF Sound
  <2>5. Sound(p)'  BY <1>5, <1>t, <1>s, <1>n, <2>4 DEF Checkout, Goto, Sound, TypeOK, NoTasks
  <2> QED  BY <2>1, <2>2, <2>5
<1>6. ASSUME Killed(p) PROVE TypeOK' /\ Others /\ Sound(p)'
  <2>1. Others  BY <1>6, <1>t DEF Killed, Goto, Session, Ended, TypeOK
  <2>2. TypeOK'  BY <1>6, <1>t, <1>n DEF Killed, Goto, Session, Ended, TypeOK, agentvars, NoTasks, Status
  <2>3. InFlight(p)' \subseteq InFlight(p)
    BY <1>6, <1>t DEF Killed, Goto, Session, Ended, InFlight, TypeOK, NoTasks
  <2>4. Cardinality(InFlight(p)') <= PARALLEL  BY <1>t, <1>s, <2>3, FewerInFlight DEF Sound
  <2>5. Sound(p)'  BY <1>6, <1>t, <1>s, <1>n, <2>4 DEF Killed, Goto, Session, Ended, Sound, TypeOK, NoTasks
  <2> QED  BY <2>1, <2>2, <2>5
<1>7. ASSUME NEW rs \in Refs, Start(p, rs) PROVE TypeOK' /\ Others /\ Sound(p)'
  <2>0. rs \subseteq Oid /\ ToTransfer(p, rs) \subseteq Oid
    BY LfsClientAssumption, <1>t DEF ToTransfer, TypeOK
  <2>1. Others  BY <1>7, <1>t DEF Start, Goto, Finish, TypeOK
  <2>2. TypeOK'  BY <1>7, <1>t, <1>s, <1>n, <2>0 DEF Start, Goto, Finish, TypeOK, agentvars, NoTasks, Ended, Status, Sound
  <2>3. InFlight(p)' = {}  BY <1>7, <1>t, <1>s, <2>0 DEF Start, InFlight, TypeOK, NoTasks, Sound
  <2>4. Cardinality(InFlight(p)') <= PARALLEL  BY <2>3, FS_EmptySet, LfsClientAssumption
  <2>5. Sound(p)'  BY <1>7, <1>t, <1>s, <1>n, <2>0, <2>4 DEF Start, Goto, Finish, ToTransfer, Sound, TypeOK, NoTasks
  <2> QED  BY <2>1, <2>2, <2>5
<1> HIDE DEF Others
<1>8. TypeOK' /\ Others /\ Sound(p)'  BY <1>1, <1>2, <1>3, <1>4, <1>5, <1>6, <1>7 DEF CommandStep
<1> QED  BY <1>n, <1>8, OneCommand DEF Others

LEMMA TaskSteps ==
  ASSUME IInv, NEW p \in Process, NEW o \in Oid, TaskStep(p, o)
  PROVE  IInv'
<1>t. TypeOK  BY DEF IInv
<1>s. Sound(p)  BY IInvByCommand
<1>k. kind[p] \in {"pull", "push"} /\ store \subseteq Oid /\ remote \subseteq Oid  BY <1>t DEF TypeOK
<1>1. CASE AcquirePermit(p, o)
  BY <1>1, <1>k, TaskStepSound DEF AcquirePermit, Status
<1>2. CASE TransferSucceeds(p, o)
  BY <1>2, <1>k, TaskStepSound DEF TransferSucceeds, Status
<1>3. CASE TransferFails(p, o)
  BY <1>3, <1>k, TaskStepSound DEF TransferFails, Status
<1>4. CASE JoinNext(p, o)
  <2>1. CASE task[p][o] = "ok"
    <3>1. Task(p, o, "done")  BY <1>4, <2>1 DEF JoinNext
    <3>2. IF kind[p] = "pull" THEN o \in store ELSE o \in remote  BY <1>s, <2>1 DEF Sound
    <3> QED  BY <1>4, <1>k, <2>1, <3>1, <3>2, TaskStepSound DEF JoinNext, Status
  <2>2. CASE task[p][o] = "err"
    <3>1. Task(p, o, "failure")  BY <1>4, <2>2 DEF JoinNext
    <3> QED  BY <1>4, <1>k, <2>2, <3>1, TaskStepSound DEF JoinNext, Status
  <2> QED  BY <1>4, <2>1, <2>2 DEF JoinNext
<1> QED  BY <1>1, <1>2, <1>3, <1>4 DEF TaskStep

LEMMA AgentSteps ==
  ASSUME IInv, NEW a \in Agent,
         \/ AgentStep(a) \/ GitLfsMoves(a) \/ AgentExits(a)
         \/ \E event \in Answering, o \in Wanted \cup {NoOid} : Event(a, event, o)
  PROVE  IInv'
<1>t. TypeOK /\ ReportedIsThere  BY DEF IInv
<1>a. a \notin Process  BY LfsClientAssumption
<1> DEFINE Rest == /\ UNCHANGED commandvars
                   /\ \A p \in Process : session'[p] \in {session[p], "lost"}
                   /\ store \subseteq store' /\ remote \subseteq remote'
<1>1. CASE Initialised(a)
  <2>1. Rest  BY <1>1, <1>t, <1>a DEF Initialised, Replies, AgentGoto, Session, UnchangedByAgent, TypeOK
  <2>2. TypeOK'
    BY <1>1, <1>t DEF Initialised, Replies, AgentGoto, Session, UnchangedByAgent, commandvars, TypeOK, Answering
  <2>3. ReportedIsThere'
    BY <1>1, <1>t DEF Initialised, Replies, AgentGoto, ReportedIsThere, Answering, TypeOK
  <2> QED  BY <2>1, <2>2, <2>3, CommandsRest
<1>2. CASE InitFails(a)
  <2>1. Rest  BY <1>2, <1>t, <1>a DEF InitFails, Replies, AgentGoto, Session, UnchangedByAgent, TypeOK
  <2>2. TypeOK'
    BY <1>2, <1>t DEF InitFails, Replies, AgentGoto, Session, UnchangedByAgent, commandvars, TypeOK, Answering
  <2>3. ReportedIsThere'
    BY <1>2, <1>t DEF InitFails, Replies, AgentGoto, ReportedIsThere, Answering, TypeOK
  <2> QED  BY <2>1, <2>2, <2>3, CommandsRest
<1>3. CASE Downloaded(a)
  <2>1. Rest  BY <1>3, <1>t, <1>a DEF Downloaded, Replies, AgentGoto, Session, UnchangedByAgent, TypeOK
  <2>2. TypeOK'
    BY <1>3, <1>t DEF Downloaded, Replies, AgentGoto, Session, UnchangedByAgent, commandvars, TypeOK, Answering
  <2>3. ReportedIsThere'
    BY <1>3, <1>t DEF Downloaded, Replies, AgentGoto, ReportedIsThere, Answering, TypeOK
  <2> QED  BY <2>1, <2>2, <2>3, CommandsRest
<1>4. CASE Uploaded(a)
  <2>1. Rest  BY <1>4, <1>t, <1>a DEF Uploaded, Replies, AgentGoto, Session, UnchangedByAgent, TypeOK
  <2>2. TypeOK'
    BY <1>4, <1>t DEF Uploaded, Replies, AgentGoto, Session, UnchangedByAgent, commandvars, TypeOK, Answering
  <2>3. ReportedIsThere'
    BY <1>4, <1>t DEF Uploaded, Replies, AgentGoto, ReportedIsThere, Answering, TypeOK
  <2> QED  BY <2>1, <2>2, <2>3, CommandsRest
<1>5. CASE TransferRefused(a)
  <2>1. Rest  BY <1>5, <1>t, <1>a DEF TransferRefused, Replies, AgentGoto, Session, UnchangedByAgent, TypeOK
  <2>2. TypeOK'
    BY <1>5, <1>t DEF TransferRefused, Replies, AgentGoto, Session, UnchangedByAgent, commandvars, TypeOK, Answering
  <2>3. ReportedIsThere'
    BY <1>5, <1>t DEF TransferRefused, Replies, AgentGoto, ReportedIsThere, Answering, TypeOK
  <2> QED  BY <2>1, <2>2, <2>3, CommandsRest
<1>6. CASE GitLfsMoves(a)
  <2>1. Rest  BY <1>6, <1>t, <1>a DEF GitLfsMoves, Replies, AgentGoto, Session, UnchangedByAgent, TypeOK
  <2>2. TypeOK'
    BY <1>6, <1>t DEF GitLfsMoves, Replies, AgentGoto, Session, UnchangedByAgent, commandvars, TypeOK, Answering
  <2>3. ReportedIsThere'
    BY <1>6, <1>t DEF GitLfsMoves, Replies, AgentGoto, ReportedIsThere, Answering, TypeOK
  <2> QED  BY <2>1, <2>2, <2>3, CommandsRest
<1>7. CASE AgentExits(a)
  <2>1. Rest  BY <1>7, <1>t, <1>a DEF AgentExits, Replies, AgentGoto, Session, UnchangedByAgent, TypeOK
  <2>2. TypeOK'
    BY <1>7, <1>t DEF AgentExits, Replies, AgentGoto, Session, UnchangedByAgent, commandvars, TypeOK, Answering
  <2>3. ReportedIsThere'
    BY <1>7, <1>t DEF AgentExits, Replies, AgentGoto, ReportedIsThere, Answering, TypeOK
  <2> QED  BY <2>1, <2>2, <2>3, CommandsRest
<1>8. ASSUME NEW event \in Answering, NEW o \in Wanted \cup {NoOid}, Event(a, event, o) PROVE IInv'
  <2>0. o \in Oid \cup {NoOid}  BY LfsClientAssumption
  <2>1. Rest  BY <1>8, <1>t DEF Event, AgentGoto, UnchangedByAgent, TypeOK
  <2>2. TypeOK'
    BY <1>8, <1>t, <2>0 DEF Event, AgentGoto, UnchangedByAgent, commandvars, TypeOK
  <2>3. ReportedIsThere'  BY <1>8, <1>t DEF Event, ReportedIsThere
  <2> QED  BY <2>1, <2>2, <2>3, CommandsRest
<1> QED  BY <1>1, <1>2, <1>3, <1>4, <1>5, <1>6, <1>7, <1>8 DEF AgentStep

\* IInv is inductive.
LEMMA NextIInv == IInv /\ [Next]_vars => IInv'
<1> SUFFICES ASSUME IInv, [Next]_vars PROVE IInv'  OBVIOUS
<1>t. TypeOK /\ ReportedIsThere  BY DEF IInv
<1>1. ASSUME NEW s \in Process \cup Agent, Lost(s) PROVE IInv'
  <2>1. TypeOK'  BY <1>1, <1>t DEF Lost, Session, TypeOK, commandvars, agentvars
  <2>2. ReportedIsThere'  BY <1>1, <1>t DEF Lost, ReportedIsThere, agentvars
  <2>3. \A p \in Process : session'[p] \in {session[p], "lost"}
    BY <1>1, <1>t DEF Lost, Session, TypeOK
  <2> QED  BY <1>1, <2>1, <2>2, <2>3, CommandsRest DEF Lost
<1>2. CASE UNCHANGED vars
  <2>1. TypeOK'  BY <1>2, <1>t DEF vars, TypeOK, commandvars, agentvars
  <2>2. ReportedIsThere'  BY <1>2, <1>t DEF vars, ReportedIsThere, agentvars
  <2> QED  BY <1>2, <2>1, <2>2, CommandsRest DEF vars
<1> QED  BY <1>1, <1>2, CommandSteps, TaskSteps, AgentSteps DEF Next

LEMMA Invariant == Spec => []IInv
  BY InitIInv, NextIInv, PTL DEF Spec

-----------------------------------------------------------------------------
(* LfsClient implements ObjectExchange: the task of an object of a command *)
(* is a job.                                                               *)

\* What a job is, for the pair of a command and an object.
LEMMA JobOf ==
  ASSUME NEW p \in Process, NEW o \in Oid
  PROVE  job[<<p, o>>] = Errand(p, o) /\ job'[<<p, o>>] = Errand(p, o)'
BY DEF job

\* Two functions on the jobs are equal if they agree on every command and object.
LEMMA JobsAgree ==
  ASSUME NEW f, \A p \in Process, o \in Oid : Errand(p, o)' = f[<<p, o>>]
  PROVE  job' = [j \in Process \X Oid |-> f[j]]
<1>1. ASSUME NEW j \in Process \X Oid PROVE Errand(j[1], j[2])' = f[j]
  <2>1. j[1] \in Process /\ j[2] \in Oid /\ j = <<j[1], j[2]>>
    OBVIOUS
  <2> QED BY <2>1
<1> QED BY <1>1 DEF job

LEMMA InitImplements == Init => OE!Init
<1> SUFFICES ASSUME Init PROVE OE!Init
  OBVIOUS
<1>1. \A side \in OE!Side : objects[side] \in SUBSET Oid
  BY DEF Init, objects, OE!Side
<1>2. objects \in [OE!Side -> SUBSET Oid]
  BY <1>1 DEF objects, OE!Side
<1>3. job = [j \in Process \X Oid |-> OE!NoJob]
  BY DEF Init, job, Errand, NoTasks, OE!NoJob
<1> QED BY <1>2, <1>3 DEF OE!Init

\* Jobs rest when the tasks do.
LEMMA JobsRest ==
  ASSUME kind' = kind,
         \A p \in Process, o \in Oid :
           \/ task'[p][o] = task[p][o]
           \/ task[p][o] = "spawned" /\ task'[p][o] = "running"
           \/ task[p][o] = "ok" /\ task'[p][o] = "done"
           \/ task[p][o] = "err" /\ task'[p][o] = "failure"
  PROVE  UNCHANGED job
<1>1. ASSUME NEW p \in Process, NEW o \in Oid PROVE Errand(p, o)' = job[<<p, o>>]
  BY JobOf DEF Errand, JobState
<1>2. job' = [j \in Process \X Oid |-> job[j]]
  BY <1>1, JobsAgree
<1> QED BY <1>2 DEF job

\* The stores look the same when no object comes or goes.
LEMMA StoresRest ==
  ASSUME store' \cup stage' = store \cup stage, remote' = remote
  PROVE  UNCHANGED objects
BY DEF objects

\* A transfer adds its object to the end that it is for.
LEMMA StoreReceives ==
  ASSUME NEW o \in Oid, NEW to \in {"client", "server"},
         IF to = "client" THEN /\ o \in remote /\ remote' = remote
                               /\ store' \cup stage' = (store \cup stage) \cup {o}
                          ELSE /\ o \in store \cup stage /\ remote' = remote \cup {o}
                               /\ store' \cup stage' = store \cup stage
  PROVE  OE!Bringing /\ o \in objects'[to]
<1>1. objects' = [objects EXCEPT ![to] = @ \cup {o}]
  BY DEF objects
<1>2. o \in objects[OE!Peer(to)]
  BY DEF objects, OE!Peer
<1>3. OE!Bring(o, to)
  BY <1>1, <1>2 DEF OE!Bring
<1> QED BY <1>1, <1>3 DEF OE!Bringing, OE!Side, objects

\* A task in flight is an open job.
LEMMA RunningJob ==
  ASSUME NEW p \in Process, NEW o \in Oid, task[p][o] = "running"
  PROVE  job[<<p, o>>] = [oid |-> o, to |-> IF kind[p] = "pull" THEN "client" ELSE "server",
                          state |-> "open"]
<1>1. job[<<p, o>>] = Errand(p, o)
  BY JobOf
<1> QED BY <1>1 DEF Errand, JobState

\* A task that ends takes its job to an outcome.
LEMMA JobBecomes ==
  ASSUME IInv, NEW p \in Process, NEW o \in Oid, kind' = kind, task[p][o] = "running",
         NEW at \in {"ok", "err"}, Task(p, o, at)
  PROVE  OE!Become({<<p, o>>}, IF at = "ok" THEN "delivered" ELSE "failed")
<1>0. job[<<p, o>>] = Errand(p, o) /\ <<p, o>> \in Process \X Oid
  BY JobOf
<1>1. TypeOK
  BY DEF IInv
<1>2. /\ task'[p][o] = at
      /\ \A x \in Oid : x # o => task'[p][x] = task[p][x]
      /\ \A q \in Process : q # p => task'[q] = task[q]
  BY <1>1, TaskMoves DEF Status
<1> DEFINE state == IF at = "ok" THEN "delivered" ELSE "failed"
           f == [j \in Process \X Oid |->
                   IF j \in {<<p, o>>} THEN [job[j] EXCEPT !.state = state] ELSE job[j]]
<1>3. ASSUME NEW q \in Process, NEW x \in Oid PROVE Errand(q, x)' = f[<<q, x>>]
  <2>1. CASE q = p /\ x = o
    <3>1. f[<<q, x>>] = [job[<<p, o>>] EXCEPT !.state = state]
      BY <1>0, <2>1
    <3> QED BY <1>0, <1>2, <2>1, <3>1 DEF Errand, JobState
  <2>2. CASE ~(q = p /\ x = o)
    <3>1. task'[q][x] = task[q][x]
      BY <1>2, <2>2
    <3>2. f[<<q, x>>] = job[<<q, x>>]
      BY <2>2
    <3> QED BY <3>1, <3>2, JobOf DEF Errand
  <2> QED BY <2>1, <2>2
<1> HIDE DEF f
<1>4. job' = [j \in Process \X Oid |-> f[j]]
  BY <1>3, JobsAgree
<1> QED BY <1>4 DEF f, OE!Become

\* What the tasks of a command do.
LEMMA TaskStepImplements ==
  ASSUME IInv, NEW p \in Process, NEW o \in Oid, TaskStep(p, o)
  PROVE  [OE!Next]_OE!oevars
<1>1. TypeOK /\ kind' = kind /\ <<p, o>> \in Process \X Oid
  BY DEF IInv, TaskStep, AcquirePermit, TransferSucceeds, TransferFails, JoinNext
<1>2. CASE TransferSucceeds(p, o)
  <2> DEFINE dest == IF kind[p] = "pull" THEN "client" ELSE "server"
  <2>1. task[p][o] = "running" /\ Task(p, o, "ok")
    BY <1>2 DEF TransferSucceeds
  <2>2. OE!Become({<<p, o>>}, "delivered")
    BY <1>1, <2>1, JobBecomes
  <2>3. job[<<p, o>>] = [oid |-> o, to |-> dest, state |-> "open"]
    BY <2>1, RunningJob
  <2>4. OE!Bringing /\ o \in objects'[dest]
    <3>1. IF dest = "client" THEN /\ o \in remote /\ remote' = remote
                                /\ store' \cup stage' = (store \cup stage) \cup {o}
                           ELSE /\ o \in store \cup stage /\ remote' = remote \cup {o}
                                /\ store' \cup stage' = store \cup stage
      BY <1>2 DEF TransferSucceeds
    <3> QED BY <3>1, StoreReceives
  <2>5. OE!Delivered(<<p, o>>)
    BY <2>2, <2>4, <2>3 DEF OE!Delivered
  <2> QED BY <1>1, <2>4, <2>5 DEF OE!Next
<1>3. CASE TransferFails(p, o)
  <2>1. task[p][o] = "running" /\ Task(p, o, "err")
    BY <1>3 DEF TransferFails
  <2>2. OE!Become({<<p, o>>}, "failed")
    BY <1>1, <2>1, JobBecomes
  <2>3. job[<<p, o>>] = [oid |-> o, to |-> IF kind[p] = "pull" THEN "client" ELSE "server",
                         state |-> "open"]
    BY <2>1, RunningJob
  <2>4. OE!Fail({<<p, o>>}) /\ {<<p, o>>} \in SUBSET (Process \X Oid)
    BY <1>1, <2>2, <2>3 DEF OE!Fail
  <2>5. UNCHANGED objects
    BY <1>3, StoresRest DEF TransferFails
  <2> QED BY <2>4, <2>5 DEF OE!Next
<1>4. CASE AcquirePermit(p, o) \/ JoinNext(p, o)
  <2>1. UNCHANGED objects
    BY <1>4, StoresRest DEF AcquirePermit, JoinNext
  <2>2. PICK at \in Status :
          /\ Task(p, o, at)
          /\ \/ task[p][o] = "spawned" /\ at = "running"
             \/ task[p][o] = "ok" /\ at = "done"
             \/ task[p][o] = "err" /\ at = "failure"
    BY <1>4 DEF AcquirePermit, JoinNext, Status
  <2>3. /\ task'[p][o] = at
        /\ \A x \in Oid : x # o => task'[p][x] = task[p][x]
        /\ \A q \in Process : q # p => task'[q] = task[q]
    BY <1>1, <2>2, TaskMoves
  <2>4. UNCHANGED job
    BY <1>1, <2>2, <2>3, JobsRest
  <2> QED BY <2>1, <2>4 DEF OE!oevars
<1> QED BY <1>2, <1>3, <1>4 DEF TaskStep

\* The fan-out of a command takes its jobs on, all at once.
LEMMA ConnectImplements ==
  ASSUME IInv, NEW p \in Process, Connect(p)
  PROVE  OE!Next
<1>1. /\ TypeOK /\ task[p] = NoTasks /\ oids[p] \subseteq Oid /\ kind' = kind
  BY IInvByCommand DEF TypeOK, Sound, Connect
<1>2. UNCHANGED objects
  BY StoresRest DEF Connect
<1>3. /\ \A o \in Oid : task'[p][o] = IF o \in oids[p] THEN "spawned" ELSE "none"
      /\ \A q \in Process : q # p => task'[q] = task[q]
  BY <1>1 DEF Connect, TypeOK
<1> DEFINE js == {<<p, o>> : o \in oids[p]}
           to == IF kind[p] = "pull" THEN "client" ELSE "server"
           errand == [j \in js |-> [oid |-> j[2], to |-> to, state |-> "open"]]
           f == [j \in Process \X Oid |-> IF j \in js THEN errand[j] ELSE job[j]]
<1>4. js \in SUBSET (Process \X Oid)
  BY <1>1
<1>5. errand \in [js -> OE!Errand]
  BY <1>1 DEF OE!Errand, OE!Side
<1>6. \A j \in js : job[j].state = "idle"
  <2>1. ASSUME NEW o \in oids[p] PROVE job[<<p, o>>].state = "idle"
    <3>1. o \in Oid /\ task[p][o] = "none"
      BY <1>1 DEF NoTasks
    <3>2. job[<<p, o>>] = Errand(p, o)
      BY <3>1, JobOf
    <3> QED BY <3>1, <3>2 DEF Errand
  <2> QED BY <2>1
<1>7. ASSUME NEW q \in Process, NEW o \in Oid PROVE Errand(q, o)' = f[<<q, o>>]
  <2>1. CASE q = p /\ o \in oids[p]
    <3>1. <<q, o>> \in js
      BY <2>1
    <3>2. f[<<q, o>>] = [oid |-> o, to |-> to, state |-> "open"]
      BY <3>1
    <3>3. task'[q][o] = "spawned" /\ kind'[q] = kind[p]
      BY <1>1, <1>3, <2>1
    <3> QED BY <3>2, <3>3 DEF Errand, JobState
  <2>2. CASE ~(q = p /\ o \in oids[p])
    <3>1. f[<<q, o>>] = job[<<q, o>>]
      BY <2>2
    <3>2. task'[q][o] = task[q][o]
      BY <1>1, <1>3, <2>2 DEF NoTasks
    <3> QED BY <1>1, <3>1, <3>2, JobOf DEF Errand
  <2> QED BY <2>1, <2>2
<1> HIDE DEF f
<1>8. job' = [j \in Process \X Oid |-> f[j]]
  BY <1>7, JobsAgree
<1>9. job' = [j \in Process \X Oid |-> IF j \in js THEN errand[j] ELSE job[j]]
  BY <1>8 DEF f
<1> HIDE DEF js, errand
<1>10. OE!Open(js)
  BY <1>5, <1>6, <1>9 DEF OE!Open
<1> QED BY <1>2, <1>4, <1>10 DEF OE!Next

\* A killed command takes its jobs with it.
LEMMA KilledImplements ==
  ASSUME IInv, NEW p \in Process, Killed(p)
  PROVE  OE!Next
<1>1. TypeOK /\ kind' = kind
  BY DEF IInv, Killed
<1>2. UNCHANGED objects
  BY StoresRest DEF Killed
<1>3. \A q \in Process : task'[q] = IF q = p THEN NoTasks ELSE task[q]
  BY <1>1 DEF Killed, TypeOK
<1> DEFINE js == {p} \X Oid
           f == [j \in Process \X Oid |-> IF j \in js THEN OE!NoJob ELSE job[j]]
<1>4. js \in SUBSET (Process \X Oid)
  OBVIOUS
<1>5. ASSUME NEW q \in Process, NEW o \in Oid PROVE Errand(q, o)' = f[<<q, o>>]
  BY <1>1, <1>3, JobOf DEF Errand, NoTasks, OE!NoJob
<1> HIDE DEF f
<1>6. job' = [j \in Process \X Oid |-> f[j]]
  BY <1>5, JobsAgree
<1>7. OE!Forget(js)
  BY <1>6 DEF f, OE!Forget
<1> HIDE DEF js
<1> QED BY <1>2, <1>4, <1>7 DEF OE!Next

\* An agent that stages or sends an object brings it; git-lfs moves it within
\* the clone.
LEMMA AgentsImplement ==
  ASSUME IInv, NEW a \in Agent,
         \/ AgentStep(a) \/ GitLfsMoves(a) \/ AgentExits(a)
         \/ \E event \in Answering, o \in Wanted \cup {NoOid} : Event(a, event, o)
  PROVE  [OE!Next]_OE!oevars
<1>1. TypeOK
  BY DEF IInv
<1>2. kind' = kind /\ task' = task
  BY DEF AgentStep, Initialised, InitFails, Downloaded, Uploaded, TransferRefused, GitLfsMoves,
         AgentExits, Event, UnchangedByAgent, commandvars
<1>3. UNCHANGED job
  BY <1>2, JobsRest
<1>4. CASE Downloaded(a)
  <2>1. asked[a] \in Oid
    BY <1>1, <1>4 DEF Downloaded, TypeOK
  <2>2. /\ asked[a] \in remote /\ remote' = remote
        /\ store' \cup stage' = (store \cup stage) \cup {asked[a]}
    BY <1>4 DEF Downloaded, UnchangedByAgent
  <2>3. OE!Bringing
    BY <2>1, <2>2, StoreReceives
  <2> QED BY <1>3, <2>3 DEF OE!Next
<1>5. CASE Uploaded(a)
  <2>1. asked[a] \in Oid
    BY <1>1, <1>5 DEF Uploaded, TypeOK
  <2>2. /\ asked[a] \in store \cup stage /\ remote' = remote \cup {asked[a]}
        /\ store' \cup stage' = store \cup stage
    BY <1>5 DEF Uploaded
  <2>3. OE!Bringing
    BY <2>1, <2>2, StoreReceives
  <2> QED BY <1>3, <2>3 DEF OE!Next
<1>6. CASE \/ Initialised(a) \/ InitFails(a) \/ TransferRefused(a) \/ GitLfsMoves(a) \/ AgentExits(a)
           \/ \E event \in Answering, o \in Wanted \cup {NoOid} : Event(a, event, o)
  <2>1. remote' = remote /\ store' \cup stage' = store \cup stage
    BY <1>6 DEF Initialised, InitFails, TransferRefused, GitLfsMoves, AgentExits, Event,
                UnchangedByAgent
  <2> QED BY <1>3, <2>1, StoresRest DEF OE!oevars
<1> QED BY <1>4, <1>5, <1>6 DEF AgentStep

LEMMA NextImplements == IInv /\ [Next]_vars => [OE!Next]_OE!oevars
<1> SUFFICES ASSUME IInv, [Next]_vars PROVE [OE!Next]_OE!oevars
  OBVIOUS
<1> DEFINE Rests == UNCHANGED <<store, stage, remote, kind, task>>
<1>1. ASSUME Rests PROVE UNCHANGED OE!oevars
  <2>1. UNCHANGED objects
    BY <1>1, StoresRest
  <2>2. UNCHANGED job
    BY <1>1, JobsRest
  <2> QED BY <2>1, <2>2 DEF OE!oevars
<1>2. ASSUME NEW p \in Process,
             \/ \E rs \in Refs : Start(p, rs)
             \/ ConnectFails(p) \/ FanOutReturns(p) \/ Report(p) \/ Checkout(p)
      PROVE  UNCHANGED OE!oevars
  BY <1>1, <1>2 DEF Start, ConnectFails, FanOutReturns, Report, Checkout
<1>3. ASSUME NEW s \in Process \cup Agent, Lost(s) PROVE UNCHANGED OE!oevars
  BY <1>1, <1>3 DEF Lost, commandvars
<1>4. CASE UNCHANGED vars
  BY <1>1, <1>4 DEF vars, commandvars
<1> HIDE DEF Rests
<1> QED BY <1>2, <1>3, <1>4, ConnectImplements, KilledImplements, TaskStepImplements,
           AgentsImplement
        DEF Next, CommandStep

\* Commands and agents together implement ObjectExchange, so that what a command
\* counts as done is done, whoever else works on the stores (fan_out, Agent::run).
THEOREM Implements == Spec => ImplementsObjectExchange
BY InitImplements, NextImplements, Invariant, PTL DEF Spec, OE!Spec, ImplementsObjectExchange

\* Every variable of the clients stays in its type.
THEOREM TypeCorrect == Spec => []TypeOK
<1>1. IInv => TypeOK  BY DEF IInv
<1> QED  BY <1>1, Invariant, PTL

\* A pull or a push that ends well is complete, whatever other commands and
\* agents work on the same store (lfs_pull, lfs_push).
THEOREM SuccessIsComplete == Spec => []Complete
<1>1. IInv => Complete  BY DEF IInv
<1> QED  BY <1>1, Invariant, PTL

\* A command never closes its session under a transfer, and PARALLEL bounds
\* what it has in flight (fan_out).
THEOREM SessionOutlivesTransfers == Spec => []FanOutContained
<1>1. IInv => FanOutContained  BY DEF IInv
<1> QED  BY <1>1, Invariant, PTL

\* No object that an agent has reported is lost between two agents that share
\* a staging path (Agent::stage_dir).
THEOREM NoReportedObjectIsLost == Spec => []ReportedIsThere
<1>1. IInv => ReportedIsThere  BY DEF IInv
<1> QED  BY <1>1, Invariant, PTL
=============================================================================
