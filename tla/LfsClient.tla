----------------------------- MODULE LfsClient -----------------------------
(***************************************************************************)
(* The two clients that move LFS objects in a clone: `git iroh lfs-pull`   *)
(* and `lfs-push`, which fan a set of objects out over one session         *)
(* (git-iroh/src/main.rs), and the transfer agent that git-lfs drives      *)
(* object by object (git-lfs-iroh/src/main.rs).  Any number of them work   *)
(* on the one object store of the clone.                                   *)
(*                                                                         *)
(* A transfer is one step here, with the outcomes ObjectExchange allows    *)
(* and LfsTransfer is shown to have: the object is brought whole to its    *)
(* destination, or the transfer fails and changes nothing.  A file in a    *)
(* store is taken to be the object it is named for: LfsTransfer has the    *)
(* damaged ones.  git-lfs itself is modelled as the agent uses it: one     *)
(* message at a time, and it moves a file it is told of into the store     *)
(* before the next.  Nothing here removes an object of a store.            *)
(***************************************************************************)
EXTENDS FiniteSets, Naturals

CONSTANTS
  Oid,       \* the objects
  Process,   \* the lfs-pull and lfs-push commands
  Agent,     \* the transfer agents
  PARALLEL,  \* transfers a command has in flight at most
  Refs,      \* bound: what the refs given to a command may reference
  Wanted,    \* bound: the objects git-lfs asks the agents for
  NoOid      \* no object

ASSUME LfsClientAssumption ==
  /\ IsFiniteSet(Oid) /\ NoOid \notin Oid
  /\ PARALLEL \in Nat \ {0}
  /\ Refs \subseteq SUBSET Oid /\ Wanted \subseteq Oid
  /\ Process \cap Agent = {}

VARIABLES
  store,    \* objects in the clone's store, <git-dir>/lfs/objects
  stage,    \* objects in the agents' staging directory, <git-dir>/lfs/tmp
  remote,   \* objects in the daemon's store
  pc,       \* where each command is in lfs_pull or lfs_push
  kind,     \* which of the two it is
  refs,     \* the objects its refs reference
  oids,     \* those it has to transfer
  session,  \* the session of each command and each agent
  task,     \* the task fan_out spawned for each object of each command
  agent,    \* what each agent is doing
  asked,    \* the object git-lfs asked it for
  reported  \* the object it last reported a path for, until git-lfs moves it

commandvars == <<pc, kind, refs, oids, task>>
agentvars == <<agent, asked, reported>>
vars == <<store, stage, remote, session, commandvars, agentvars>>

Ended == {"idle", "done", "failed"}
Answering == {"init", "download", "upload"}
Status == {"none", "spawned", "running", "ok", "err", "done", "failure"}

TypeOK ==
  /\ store \subseteq Oid /\ stage \subseteq Oid /\ remote \subseteq Oid
  /\ pc \in [Process -> Ended \cup {"connect", "fan_out", "close", "checkout"}]
  /\ kind \in [Process -> {"pull", "push"}]
  /\ refs \in [Process -> SUBSET Oid] /\ oids \in [Process -> SUBSET Oid]
  /\ session \in [Process \cup Agent -> {"none", "open", "lost", "closed"}]
  /\ task \in [Process -> [Oid -> Status]]
  /\ agent \in [Agent -> Answering \cup {"waiting", "exited"}]
  /\ asked \in [Agent -> Oid \cup {NoOid}] /\ reported \in [Agent -> Oid \cup {NoOid}]
  /\ \A p \in Process, o \in Oid : task[p][o] # "none" => o \in oids[p]

NoTasks == [o \in Oid |-> "none"]

Init ==
  /\ store \in SUBSET Oid /\ stage = {} /\ remote \in SUBSET Oid
  /\ pc = [p \in Process |-> "idle"]
  /\ kind \in [Process -> {"pull", "push"}]
  /\ refs = [p \in Process |-> {}] /\ oids = [p \in Process |-> {}]
  /\ session = [s \in Process \cup Agent |-> "none"]
  /\ task = [p \in Process |-> NoTasks]
  /\ agent = [a \in Agent |-> "waiting"]
  /\ asked = [a \in Agent |-> NoOid] /\ reported = [a \in Agent |-> NoOid]

Goto(p, at) == pc' = [pc EXCEPT ![p] = at]
Task(p, o, at) == task' = [task EXCEPT ![p][o] = at]
Session(s, to) == session' = [session EXCEPT ![s] = to]

-----------------------------------------------------------------------------
(* lfs_pull and lfs_push.                                                  *)

\* A pull fetches what the store lacks, a push sends what it has.
ToTransfer(p, rs) == IF kind[p] = "pull" THEN rs \ store ELSE rs \cap store

\* What is left to do once there is nothing (more) to transfer.
Finish(p) == Goto(p, IF kind[p] = "pull" THEN "checkout" ELSE "done")

Start(p, rs) ==
  /\ pc[p] = "idle"
  /\ refs' = [refs EXCEPT ![p] = rs]
  /\ oids' = [oids EXCEPT ![p] = ToTransfer(p, rs)]
  /\ IF ToTransfer(p, rs) = {} THEN Finish(p) ELSE Goto(p, "connect")
  /\ UNCHANGED <<store, stage, remote, kind, session, task, agentvars>>

\* The session is open: fan_out spawns a task for each object at once.
Connect(p) ==
  /\ pc[p] = "connect"
  /\ Session(p, "open")
  /\ task' = [task EXCEPT ![p] = [o \in Oid |-> IF o \in oids[p] THEN "spawned" ELSE "none"]]
  /\ Goto(p, "fan_out")
  /\ UNCHANGED <<store, stage, remote, kind, refs, oids, agentvars>>

ConnectFails(p) ==
  /\ pc[p] = "connect"
  /\ Goto(p, "failed")
  /\ UNCHANGED <<store, stage, remote, kind, refs, oids, session, task, agentvars>>

\* Mutant of InFlight: a transfer that fails keeps its permit.
InFlightOrFailed(p) == {o \in oids[p] : task[p][o] \in {"running", "err", "failure"}}

\* The tasks that own a permit of the semaphore.
InFlight(p) == {o \in oids[p] : task[p][o] = "running"}

AcquirePermit(p, o) ==
  /\ task[p][o] = "spawned"
  /\ Cardinality(InFlight(p)) < PARALLEL
  /\ Task(p, o, "running")
  /\ UNCHANGED <<store, stage, remote, pc, kind, refs, oids, session, agentvars>>

\* The object is in place at the other end, or it was there already.
TransferSucceeds(p, o) ==
  /\ task[p][o] = "running" /\ session[p] = "open"
  /\ Task(p, o, "ok")
  /\ IF kind[p] = "pull" THEN o \in remote /\ store' = store \cup {o} /\ UNCHANGED remote
                         ELSE o \in store /\ remote' = remote \cup {o} /\ UNCHANGED store
  /\ UNCHANGED <<stage, pc, kind, refs, oids, session, agentvars>>

\* The transfer fails, or its task panics.
TransferFails(p, o) ==
  /\ task[p][o] = "running"
  /\ Task(p, o, "err")
  /\ UNCHANGED <<store, stage, remote, pc, kind, refs, oids, session, agentvars>>

\* Mutant of JoinNext: a failure is logged and forgotten.
JoinNextForgiving(p, o) ==
  /\ task[p][o] \in {"ok", "err"}
  /\ Task(p, o, "done")
  /\ UNCHANGED <<store, stage, remote, pc, kind, refs, oids, session, agentvars>>

JoinNext(p, o) ==
  /\ task[p][o] \in {"ok", "err"}
  /\ Task(p, o, IF task[p][o] = "ok" THEN "done" ELSE "failure")
  /\ UNCHANGED <<store, stage, remote, pc, kind, refs, oids, session, agentvars>>

\* Mutant of FanOutReturns: the first failure ends it.
FanOutReturnsEarly(p) ==
  /\ pc[p] = "fan_out"
  /\ \/ \E o \in oids[p] : task[p][o] = "failure"
     \/ \A o \in oids[p] : task[p][o] \in {"done", "failure"}
  /\ Session(p, "closed")
  /\ Goto(p, "close")
  /\ UNCHANGED <<store, stage, remote, kind, refs, oids, task, agentvars>>

\* Every task is joined: the session is closed.
FanOutReturns(p) ==
  /\ pc[p] = "fan_out"
  /\ \A o \in oids[p] : task[p][o] \in {"done", "failure"}
  /\ Session(p, "closed")
  /\ Goto(p, "close")
  /\ UNCHANGED <<store, stage, remote, kind, refs, oids, task, agentvars>>

Report(p) ==
  /\ pc[p] = "close"
  /\ IF \E o \in oids[p] : task[p][o] = "failure" THEN Goto(p, "failed") ELSE Finish(p)
  /\ UNCHANGED <<store, stage, remote, kind, refs, oids, session, task, agentvars>>

\* `git lfs checkout` replaces the pointers of the working tree, or fails.
Checkout(p) ==
  /\ pc[p] = "checkout"
  /\ Goto(p, "done") \/ Goto(p, "failed")
  /\ UNCHANGED <<store, stage, remote, kind, refs, oids, session, task, agentvars>>

\* The command is killed, with its tasks.
Killed(p) ==
  /\ pc[p] \notin Ended
  /\ Goto(p, "failed")
  /\ task' = [task EXCEPT ![p] = NoTasks]
  /\ Session(p, "closed")
  /\ UNCHANGED <<store, stage, remote, kind, refs, oids, agentvars>>

\* The daemon closes the connection (a revoke, LFS_IDLE_TIMEOUT, its end), or
\* the network loses it.  Neither a command nor an agent dials again.
Lost(s) ==
  /\ session[s] = "open"
  /\ Session(s, "lost")
  /\ UNCHANGED <<store, stage, remote, commandvars, agentvars>>

-----------------------------------------------------------------------------
(* The agent: `run`.                                                       *)

AgentGoto(a, at) == agent' = [agent EXCEPT ![a] = at]

\* It has replied, and waits for the next line.
Replies(a) ==
  /\ AgentGoto(a, "waiting")
  /\ asked' = [asked EXCEPT ![a] = NoOid]

UnchangedByAgent == UNCHANGED <<remote, commandvars>>

\* git-lfs sends an event; blank, unparseable and unknown lines are skipped.
Event(a, event, o) ==
  /\ agent[a] = "waiting" /\ reported[a] = NoOid
  /\ event = "init" <=> o = NoOid
  /\ AgentGoto(a, event)
  /\ asked' = [asked EXCEPT ![a] = o]
  /\ UNCHANGED <<store, stage, session, reported>> /\ UnchangedByAgent

\* Agent::init: a later init replaces the agent, a failed one leaves it.
Initialised(a) ==
  /\ agent[a] = "init"
  /\ Replies(a)
  /\ Session(a, "open")
  /\ UNCHANGED <<store, stage, reported>> /\ UnchangedByAgent

InitFails(a) ==
  /\ agent[a] = "init"
  /\ Replies(a)
  /\ UNCHANGED <<store, stage, session, reported>> /\ UnchangedByAgent

\* Mutant of Downloaded: what came before the end of the stream is staged, also
\* where the daemon had no object to send.
DownloadedUnverified(a) ==
  /\ agent[a] = "download" /\ session[a] = "open"
  /\ stage' = stage \cup {asked[a]}
  /\ reported' = [reported EXCEPT ![a] = asked[a]]
  /\ Replies(a)
  /\ UNCHANGED <<store, session>> /\ UnchangedByAgent

\* `complete` with the path of the staged object.
Downloaded(a) ==
  /\ agent[a] = "download" /\ session[a] = "open" /\ asked[a] \in remote
  /\ stage' = stage \cup {asked[a]}
  /\ reported' = [reported EXCEPT ![a] = asked[a]]
  /\ Replies(a)
  /\ UNCHANGED <<store, session>> /\ UnchangedByAgent

Uploaded(a) ==
  /\ agent[a] = "upload" /\ session[a] = "open" /\ asked[a] \in store
  /\ remote' = remote \cup {asked[a]}
  /\ Replies(a)
  /\ UNCHANGED <<store, stage, session, reported, commandvars>>

\* Mutant of TransferRefused: a transfer before init gets no reply.
TransferRefusedAfterInit(a) ==
  /\ agent[a] \in {"download", "upload"} /\ session[a] # "none"
  /\ Replies(a)
  /\ UNCHANGED <<store, stage, session, reported>> /\ UnchangedByAgent

\* Mutant of TransferRefused: the reply names the path all the same.
TransferRefusedWithPath(a) ==
  /\ agent[a] \in {"download", "upload"}
  /\ Replies(a)
  /\ reported' = [reported EXCEPT ![a] = asked[a]]
  /\ UNCHANGED <<store, stage, session>> /\ UnchangedByAgent

\* `complete` with an error: the transfer failed, or there was no init before.
\* The agent goes on with the next object.
TransferRefused(a) ==
  /\ agent[a] \in {"download", "upload"}
  /\ Replies(a)
  /\ UNCHANGED <<store, stage, session, reported>> /\ UnchangedByAgent

\* git-lfs moves the file it was told of; if another has moved it before, that
\* object fails.
GitLfsMoves(a) ==
  /\ reported[a] # NoOid
  /\ reported' = [reported EXCEPT ![a] = NoOid]
  /\ IF reported[a] \in stage
     THEN stage' = stage \ {reported[a]} /\ store' = store \cup {reported[a]}
     ELSE UNCHANGED <<store, stage>>
  /\ UNCHANGED <<session, agent, asked>> /\ UnchangedByAgent

\* "terminate" or the end of its input closes the session; a broken pipe or a
\* kill ends the agent where it is.
AgentExits(a) ==
  /\ agent[a] # "exited"
  /\ AgentGoto(a, "exited")
  /\ asked' = [asked EXCEPT ![a] = NoOid]
  /\ Session(a, "closed")
  /\ UNCHANGED <<store, stage, reported>> /\ UnchangedByAgent

-----------------------------------------------------------------------------

CommandStep(p) ==
  Connect(p) \/ ConnectFails(p) \/ FanOutReturns(p) \/ Report(p) \/ Checkout(p)

TaskStep(p, o) ==
  AcquirePermit(p, o) \/ TransferSucceeds(p, o) \/ TransferFails(p, o) \/ JoinNext(p, o)

AgentStep(a) ==
  Initialised(a) \/ InitFails(a) \/ Downloaded(a) \/ Uploaded(a) \/ TransferRefused(a)

Next ==
  \/ \E p \in Process :
       \/ \E rs \in Refs : Start(p, rs)
       \/ CommandStep(p) \/ Killed(p)
       \/ \E o \in Oid : TaskStep(p, o)
  \/ \E a \in Agent :
       \/ \E event \in Answering, o \in Wanted \cup {NoOid} : Event(a, event, o)
       \/ AgentStep(a) \/ GitLfsMoves(a) \/ AgentExits(a)
  \/ \E s \in Process \cup Agent : Lost(s)

Spec == Init /\ [][Next]_vars

\* Every process runs, and every transfer and every dial ends, one way or the
\* other (LfsTransfer: EveryTransferEnds).  Nothing is assumed of git-lfs.
Fairness ==
  /\ \A p \in Process : WF_vars(CommandStep(p)) /\ \A o \in Oid : WF_vars(TaskStep(p, o))
  /\ \A a \in Agent : WF_vars(AgentStep(a))

FairSpec == Spec /\ Fairness

-----------------------------------------------------------------------------
(* Properties *)

\* A pull that ends well has every object its refs need in the store, also one
\* it left to another process; a push that ends well has brought every object it
\* set out to send to the daemon (main.rs: "the now-complete local store").
Complete ==
  \A p \in Process : pc[p] = "done" =>
    IF kind[p] = "pull" THEN refs[p] \subseteq store ELSE oids[p] \subseteq remote

\* The session of a command outlives every transfer on it, and at no time are
\* more than PARALLEL of them in flight (fan_out: "with at most PARALLEL
\* transfers in flight").
FanOutContained ==
  \A p \in Process :
    /\ (\E o \in oids[p] : task[p][o] \in {"spawned", "running"}) => session[p] # "closed"
    /\ Cardinality(InFlight(p)) <= PARALLEL

\* An object an agent reports a path for is never lost: it is at that path until
\* it is in the store, even if another agent stages and moves the same object.
ReportedIsThere ==
  \A a \in Agent : reported[a] # NoOid => reported[a] \in stage \cup store

\* Where each task of a command may be, and what has been seen to of its objects.
TasksInPlace ==
  \A p \in Process :
    /\ pc[p] \in {"idle", "connect"} => task[p] = NoTasks
    /\ pc[p] = "fan_out" => session[p] # "closed" /\ \A o \in oids[p] : task[p][o] # "none"
    /\ pc[p] \notin {"fan_out"} => \A o \in Oid : task[p][o] \in {"none", "done", "failure"}
    /\ pc[p] = "close" => \A o \in oids[p] : task[p][o] \in {"done", "failure"}
    /\ pc[p] = "checkout" => kind[p] = "pull"

\* A transfer that went well has its object at the other end, and a pull has
\* taken on every object the store lacks.
TransfersDeliver ==
  \A p \in Process :
    /\ \A o \in Oid :
         task[p][o] \in {"ok", "done"} => IF kind[p] = "pull" THEN o \in store ELSE o \in remote
    /\ kind[p] = "pull" => refs[p] \subseteq store \cup oids[p]
    /\ pc[p] = "checkout" => refs[p] \subseteq store

\* Where the task of an object stands, as ObjectExchange has it.
JobState(status) ==
  CASE status = "none" -> "idle"
    [] status \in {"spawned", "running"} -> "open"
    [] status \in {"ok", "done"} -> "delivered"
    [] OTHER -> "failed"

Errand(p, o) ==
  IF task[p][o] = "none"
  THEN [oid |-> NoOid, to |-> "client", state |-> "idle"]
  ELSE [oid |-> o, to |-> IF kind[p] = "pull" THEN "client" ELSE "server",
        state |-> JobState(task[p][o])]

objects ==
  [side \in {"client", "server"} |-> IF side = "client" THEN store \cup stage ELSE remote]
job == [j \in Process \X Oid |-> Errand(j[1], j[2])]

\* The commands implement the specification that the transfers of LfsTransfer
\* implement, with the agents as others that use the stores: a command never
\* counts as done what it has not brought, a failure it has joined stays one, and
\* neither agents nor git-lfs lose an object between the staging directory and the
\* store, or have one that the daemon did not.
OE == INSTANCE ObjectExchange WITH
        Job <- Process \X Oid,
        held <- objects, whole <- objects, job <- job

ImplementsObjectExchange == OE!Spec

\* The inductive invariant behind the safety properties.
IInv ==
  TypeOK /\ Complete /\ FanOutContained /\ ReportedIsThere /\ TasksInPlace /\ TransfersDeliver

\* A command ends, however many of its transfers fail, and whether or not its
\* connection is lost.
CommandEnds == \A p \in Process : pc[p] \notin Ended ~> pc[p] \in Ended

\* Every request of git-lfs is answered, before init and after the loss of the
\* session as well (git-lfs-iroh: "killing the process here would fail every
\* remaining object in the batch").
RequestAnswered == \A a \in Agent : agent[a] \in Answering ~> agent[a] \notin Answering
=============================================================================
