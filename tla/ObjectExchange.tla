--------------------------- MODULE ObjectExchange ---------------------------
(***************************************************************************)
(* What LFS promises about the objects of one repository, without streams, *)
(* staging files, sessions or processes: an object comes to one end only   *)
(* from the other, where it is whole, and stays; a job that is reported    *)
(* done is done, and stays so.                                             *)
(***************************************************************************)

CONSTANTS
  Job,     \* errands: one object to bring to one end
  Oid,     \* the objects
  NoOid    \* no object

VARIABLES
  held,   \* the objects each end has a file for
  whole,  \* those of which the file is the object
  job     \* what each job is to bring where, and what became of it

oevars == <<held, whole, job>>

Side == {"client", "server"}
Peer(side) == IF side = "client" THEN "server" ELSE "client"

NoJob == [oid |-> NoOid, to |-> "client", state |-> "idle"]
Errand == [oid : Oid, to : Side, state : {"open"}]

Init ==
  /\ held \in [Side -> SUBSET Oid]
  /\ whole \in [Side -> SUBSET Oid]
  /\ \A side \in Side : whole[side] \subseteq held[side]
  /\ job = [j \in Job |-> NoJob]

\* An object is brought from the end that has it; it may replace a damaged file.
Bring(o, to) ==
  /\ o \in whole[Peer(to)]
  /\ held' = [held EXCEPT ![to] = @ \cup {o}]
  /\ whole' = [whole EXCEPT ![to] = @ \cup {o}]

Bringing == UNCHANGED <<held, whole>> \/ \E o \in Oid, to \in Side : Bring(o, to)

\* Jobs are taken on, several at once if one command has them.
Open(js) ==
  /\ \A j \in js : job[j].state = "idle"
  /\ \E errand \in [js -> Errand] : job' = [j \in Job |-> IF j \in js THEN errand[j] ELSE job[j]]

Become(js, state) ==
  job' = [j \in Job |-> IF j \in js THEN [job[j] EXCEPT !.state = state] ELSE job[j]]

\* The object is whole where the job was to bring it.
Delivered(j) ==
  /\ job[j].state = "open"
  /\ job[j].oid \in whole'[job[j].to]
  /\ Become({j}, "delivered")

\* There is a file for the object already, and it is left alone.
Found(j) ==
  /\ job[j].state = "open"
  /\ job[j].oid \in held[job[j].to]
  /\ Become({j}, "found")

\* Jobs fail, those of several transfers at once if they share a process.
Fail(js) ==
  /\ \A j \in js : job[j].state = "open"
  /\ Become(js, "failed")

\* A command is killed and its jobs with it, those reported to it as well.
Forget(js) == job' = [j \in Job |-> IF j \in js THEN NoJob ELSE job[j]]

Next ==
  \/ Bringing /\ (UNCHANGED job \/ \E j \in Job : Delivered(j))
  \/ /\ UNCHANGED <<held, whole>>
     /\ \/ \E j \in Job : Found(j)
        \/ \E js \in SUBSET Job : Open(js) \/ Fail(js) \/ Forget(js)

Spec == Init /\ [][Next]_oevars
=============================================================================
