----------------------------- MODULE PackRelay -----------------------------
(***************************************************************************)
(* One git session end to end: the friend's git, the remote helper that it *)
(* talks to (git-remote-iroh), the stream, the daemon's task (handle and   *)
(* serve_git) and the git it spawns.  Each direction is a pipe, a copy, a  *)
(* stream, a copy and a pipe, and what is passed along is counted: the     *)
(* daemon's git advertises and answers, the friend's git asks.             *)
(*                                                                         *)
(* A connection closes when either end drops it, and then what had not     *)
(* arrived is lost (iroh's, hence QUIC's, close).                          *)
(***************************************************************************)
EXTENDS Naturals

CONSTANT Session  \* the kinds of session: the service, and what the gits agree on

\* "UploadPack" is a fetch or clone and "ReceivePack" a push; `waits` says
\* whether the daemon's git waits for the end of its input before it exits.
ASSUME PackRelayAssumption ==
  Session \subseteq [service : {"UploadPack", "ReceivePack"}, waits : BOOLEAN]

VARIABLES
  session,  \* the kind of session
  caller,   \* the friend's git
  helper,   \* git-remote-iroh
  up,       \* the direction from the friend's git to the daemon's
  down,     \* the direction from the daemon's git to the friend's
  conn,     \* the connection
  task,     \* the daemon's task for the connection
  git,      \* the daemon's git
  faulted   \* history: something other than the relay has gone wrong

vars == <<session, caller, helper, up, down, conn, task, git, faulted>>

\* A direction: how many messages the source wrote, the near copy put on the
\* stream, and the far copy handed over; whether the source closed its pipe,
\* the near copy finished the stream, and the far copy saw that.
Count == 0 .. 2
Direction == [wrote : Count, sent : Count, got : Count, eof : BOOLEAN, fin : BOOLEAN, end : BOOLEAN]
Empty == [wrote |-> 0, sent |-> 0, got |-> 0, eof |-> FALSE, fin |-> FALSE, end |-> FALSE]

\* How much of each direction arrives, and whether its end does: everything, as
\* long as the connection is open.
Connected == [open |-> TRUE, up |-> 2, down |-> 2, upfin |-> TRUE, downfin |-> TRUE]

InOrder(d) ==
  /\ d.got <= d.sent /\ d.sent <= d.wrote
  /\ d.fin => d.eof /\ d.sent = d.wrote
  /\ d.end => d.fin /\ d.got = d.sent

TypeOK ==
  /\ session \in Session
  /\ caller \in {"running", "ok", "error"}
  /\ helper \in {"commands", "asking", "relaying", "rejected", "ok", "failed"}
  /\ up \in Direction /\ down \in Direction
  /\ conn \in [open : BOOLEAN, up : Count, down : Count, upfin : BOOLEAN, downfin : BOOLEAN]
  /\ task \in {"handshake", "accepted", "refused", "serving", "done"}
  /\ git \in {"none", "running", "ok", "failed"}
  /\ faulted \in BOOLEAN
  /\ InOrder(up) /\ InOrder(down)

Init ==
  /\ session \in Session
  /\ caller = "running"
  /\ helper = "commands"
  /\ up = Empty /\ down = Empty
  /\ conn = Connected
  /\ task = "handshake"
  /\ git = "none"
  /\ faulted = FALSE

\* The connection is closed: some of what each end had sent has arrived, and the
\* end of a stream only with all of it.  (A connection that is closed stays so.)
Close ==
  \/ ~conn.open /\ UNCHANGED conn
  \/ /\ conn.open
     /\ \E u \in up.got .. up.sent, d \in down.got .. down.sent, uf \in {up.fin, up.end}, df \in {down.fin, down.end} :
          /\ uf => u = up.sent
          /\ df => d = down.sent
          /\ conn' = [open |-> FALSE, up |-> u, down |-> d, upfin |-> uf, downfin |-> df]

-----------------------------------------------------------------------------
(* The friend's git.                                                       *)

Ask ==
  /\ caller = "running" /\ helper = "relaying"
  /\ down.got >= 1 /\ up.wrote = 0
  /\ up' = [up EXCEPT !.wrote = 1, !.eof = (session.service = "ReceivePack")]
  /\ UNCHANGED <<caller, helper, down, conn, task, git, faulted>>

\* It has its answer and closes what it had left open.
Answered ==
  /\ caller = "running"
  /\ down.got = 2
  /\ caller' = "ok"
  /\ up' = [up EXCEPT !.eof = TRUE]
  /\ UNCHANGED <<helper, down, conn, task, git, faulted>>

\* The helper's output ends without the answer, with or without an ERR packet.
Disappointed ==
  /\ caller = "running"
  /\ down.got < 2
  /\ down.end \/ helper \in {"rejected", "failed"}
  /\ caller' = "error"
  /\ up' = [up EXCEPT !.eof = TRUE]
  /\ UNCHANGED <<helper, down, conn, task, git, faulted>>

\* The user interrupts it.
Interrupted ==
  /\ caller = "running"
  /\ caller' = "error"
  /\ up' = [up EXCEPT !.eof = TRUE]
  /\ faulted' = TRUE
  /\ UNCHANGED <<helper, down, conn, task, git>>

-----------------------------------------------------------------------------
(* The helper.                                                             *)

\* git asks for capabilities and then to connect: the helper dials and sends
\* its request.
Connect ==
  /\ helper = "commands"
  /\ helper' = "asking"
  /\ UNCHANGED <<caller, up, down, conn, task, git, faulted>>

\* git goes away without asking to connect.
NotAsked ==
  /\ helper = "commands" /\ up.eof
  /\ helper' = "ok"
  /\ Close
  /\ UNCHANGED <<caller, up, down, task, git, faulted>>

\* Response::Ok, and the helper becomes a pipe.
Accepted ==
  /\ helper = "asking" /\ task \in {"accepted", "serving"}
  /\ helper' = "relaying"
  /\ UNCHANGED <<caller, up, down, conn, task, git, faulted>>

\* Response::Error is passed on to git as an ERR packet, and the helper exits 0.
Rejected ==
  /\ helper = "asking" /\ task = "refused" /\ conn.open
  /\ helper' = "rejected"
  /\ Close
  /\ UNCHANGED <<caller, up, down, task, git, faulted>>

Fail ==
  /\ helper' = "failed"
  /\ Close
  /\ UNCHANGED <<caller, up, down, task, git, faulted>>

\* No reply comes.
AskFails == helper = "asking" /\ ~conn.open /\ Fail

UpCopies ==
  /\ helper = "relaying" /\ conn.open
  /\ up.sent < up.wrote
  /\ up' = [up EXCEPT !.sent = @ + 1]
  /\ UNCHANGED <<caller, helper, down, conn, task, git, faulted>>

\* Mutant of UpFinishes: one half is relayed to its end and then the other.
UpFinishesAfterDown ==
  /\ helper = "relaying" /\ conn.open
  /\ up.eof /\ up.sent = up.wrote /\ ~up.fin
  /\ down.end
  /\ up' = [up EXCEPT !.fin = TRUE]
  /\ UNCHANGED <<caller, helper, down, conn, task, git, faulted>>

UpFinishes ==
  /\ helper = "relaying" /\ conn.open
  /\ up.eof /\ up.sent = up.wrote /\ ~up.fin
  /\ up' = [up EXCEPT !.fin = TRUE]
  /\ UNCHANGED <<caller, helper, down, conn, task, git, faulted>>

DownCopies ==
  /\ helper = "relaying" /\ caller = "running"
  /\ down.got < down.sent /\ down.got < conn.down
  /\ down' = [down EXCEPT !.got = @ + 1]
  /\ UNCHANGED <<caller, helper, up, conn, task, git, faulted>>

\* Mutant of DownEnds: a closed connection is taken for the end of the stream.
DownEndsWithConnection ==
  /\ helper = "relaying"
  /\ ~down.end
  /\ conn.open => down.fin /\ down.got = down.sent
  /\ down' = [down EXCEPT !.end = TRUE]
  /\ UNCHANGED <<caller, helper, up, conn, task, git, faulted>>

DownEnds ==
  /\ helper = "relaying"
  /\ down.fin /\ conn.downfin /\ down.got = down.sent /\ ~down.end
  /\ down' = [down EXCEPT !.end = TRUE]
  /\ UNCHANGED <<caller, helper, up, conn, task, git, faulted>>

\* try_join! has both halves: the helper exits, and drops the connection.
RelayEnds ==
  /\ helper = "relaying"
  /\ up.fin /\ down.end
  /\ helper' = "ok"
  /\ Close
  /\ UNCHANGED <<caller, up, down, task, git, faulted>>

\* One half fails: the stream of a closed connection has no more to read, or
\* cannot be written; or git does not read any more.
RelayFails ==
  /\ helper = "relaying"
  /\ \/ ~conn.open /\ down.got >= conn.down /\ ~down.end /\ ~(conn.downfin /\ down.fin)
     \/ ~conn.open /\ ~up.fin /\ (up.sent < up.wrote \/ up.eof)
     \/ caller # "running" /\ down.got < down.sent /\ down.got < conn.down
  /\ Fail

-----------------------------------------------------------------------------
(* The daemon's task: handle and serve_git.                                *)

\* Authorized, registered, checked again, and git spawned.
Serve ==
  /\ task = "handshake" /\ helper = "asking" /\ conn.open
  /\ task' = "accepted"
  /\ UNCHANGED <<caller, helper, up, down, conn, git, faulted>>

Spawn ==
  /\ task = "accepted"
  /\ task' = "serving"
  /\ git' = "running"
  /\ UNCHANGED <<caller, helper, up, down, conn, faulted>>

\* Denied: the task lingers until the client has gone or five seconds are over.
Reject ==
  /\ task = "handshake" /\ helper = "asking" /\ conn.open
  /\ task' = "refused"
  /\ faulted' = TRUE
  /\ UNCHANGED <<caller, helper, up, down, conn, git>>

LingerEnds ==
  /\ task = "refused"
  /\ task' = "done"
  /\ Close
  /\ UNCHANGED <<caller, helper, up, down, git, faulted>>

ToChildCopies ==
  /\ task = "serving" /\ git = "running"
  /\ up.got < up.sent /\ up.got < conn.up
  /\ up' = [up EXCEPT !.got = @ + 1]
  /\ UNCHANGED <<caller, helper, down, conn, task, git, faulted>>

\* The end of the stream; git's stdin is dropped.
ToChildEnds ==
  /\ task = "serving"
  /\ up.fin /\ conn.upfin /\ up.got = up.sent /\ ~up.end
  /\ up' = [up EXCEPT !.end = TRUE]
  /\ UNCHANGED <<caller, helper, down, conn, task, git, faulted>>

FromChildCopies ==
  /\ task = "serving" /\ conn.open
  /\ down.sent < down.wrote
  /\ down' = [down EXCEPT !.sent = @ + 1]
  /\ UNCHANGED <<caller, helper, up, conn, task, git, faulted>>

\* Mutant of FromChildFinishes: the stream is finished when git exits.
FromChildFinishesEarly ==
  /\ task = "serving" /\ conn.open
  /\ down.eof /\ ~down.fin
  /\ down' = [down EXCEPT !.fin = TRUE]
  /\ UNCHANGED <<caller, helper, up, conn, task, git, faulted>>

FromChildFinishes ==
  /\ task = "serving" /\ conn.open
  /\ down.eof /\ down.sent = down.wrote /\ ~down.fin
  /\ down' = [down EXCEPT !.fin = TRUE]
  /\ UNCHANGED <<caller, helper, up, conn, task, git, faulted>>

\* The task returns and drops the connection.
TaskDone ==
  /\ task' = "done"
  /\ Close
  /\ UNCHANGED <<caller, helper, up, down, git, faulted>>

\* Mutant of ServeEnds: either half ends the serve.
ServeEndsWithGit ==
  /\ task = "serving"
  /\ up.end \/ down.fin
  /\ git \in {"ok", "failed"}
  /\ TaskDone

\* Mutant of ServeEnds: a git that failed is waited for again.
ServeEndsOnSuccess ==
  /\ task = "serving"
  /\ up.end /\ down.fin
  /\ git = "ok"
  /\ TaskDone

\* Mutant of ServeEnds: select! in place of try_join!, and git is not waited for.
ServeEndsWithEitherHalf ==
  /\ task = "serving"
  /\ up.end \/ down.fin
  /\ TaskDone

\* try_join! has both halves and git has exited, one way or the other.
ServeEnds ==
  /\ task = "serving"
  /\ up.end /\ down.fin
  /\ git \in {"ok", "failed"}
  /\ TaskDone

\* One half fails: git does not take its input, or the connection is closed.
ServeFails ==
  /\ task = "serving"
  /\ \/ git # "running" /\ up.got < up.sent /\ up.got < conn.up
     \/ ~conn.open /\ up.got >= conn.up /\ ~up.end /\ ~(conn.upfin /\ up.fin)
     \/ ~conn.open /\ ~down.fin /\ (down.sent < down.wrote \/ down.eof)
  /\ TaskDone

HandshakeFails ==
  /\ task = "handshake" /\ ~conn.open
  /\ TaskDone

\* The second authorization fails, or git cannot be spawned.
SpawnFails ==
  /\ task = "accepted"
  /\ task' = "done"
  /\ faulted' = TRUE
  /\ Close
  /\ UNCHANGED <<caller, helper, up, down, git>>

-----------------------------------------------------------------------------
(* The daemon's git.                                                       *)

Advertise ==
  /\ git = "running" /\ task = "serving" /\ down.wrote = 0
  /\ down' = [down EXCEPT !.wrote = 1]
  /\ UNCHANGED <<caller, helper, up, conn, task, git, faulted>>

\* The pack of a fetch, the report of a push: the refs have changed.
Answer ==
  /\ git = "running" /\ task = "serving" /\ down.wrote = 1 /\ up.got = 1
  /\ down' = [down EXCEPT !.wrote = 2]
  /\ UNCHANGED <<caller, helper, up, conn, task, git, faulted>>

Exits ==
  /\ git = "running"
  /\ \/ down.wrote = 2 /\ (session.waits => up.end)
     \/ up.end /\ up.got = 0
  /\ git' = "ok"
  /\ down' = [down EXCEPT !.eof = TRUE]
  /\ UNCHANGED <<caller, helper, up, conn, task, faulted>>

\* git fails, as it does when nobody reads its output any more.
Dies ==
  /\ git = "running"
  /\ git' = "failed"
  /\ down' = [down EXCEPT !.eof = TRUE]
  /\ faulted' = TRUE
  /\ UNCHANGED <<caller, helper, up, conn, task>>

-----------------------------------------------------------------------------

\* The connection is lost, or closed by a revoke.
ConnectionLost ==
  /\ conn.open
  /\ Close
  /\ faulted' = TRUE
  /\ UNCHANGED <<caller, helper, up, down, task, git>>

CallerStep == Ask \/ Answered \/ Disappointed
HelperStep ==
  \/ Connect \/ NotAsked \/ Accepted \/ Rejected \/ AskFails
  \/ UpCopies \/ UpFinishes \/ DownCopies \/ DownEnds \/ RelayEnds \/ RelayFails
TaskStep ==
  \/ HandshakeFails \/ Spawn \/ SpawnFails \/ LingerEnds
  \/ ToChildCopies \/ ToChildEnds \/ FromChildCopies \/ FromChildFinishes
  \/ ServeEnds \/ ServeFails
Decide == Serve \/ Reject
GitStep == Advertise \/ Answer \/ Exits \/ (git = "running" /\ task = "done" /\ Dies)

Next ==
  /\ \/ CallerStep \/ HelperStep \/ Decide \/ TaskStep \/ GitStep
     \/ Interrupted \/ Dies \/ ConnectionLost
  /\ UNCHANGED session

Spec == Init /\ [][Next]_vars

\* Every process runs, and so does every task of the daemon.
Fairness ==
  /\ WF_vars(Next /\ CallerStep) /\ WF_vars(Next /\ HelperStep)
  /\ WF_vars(Next /\ Decide) /\ WF_vars(Next /\ TaskStep) /\ WF_vars(Next /\ GitStep)

FairSpec == Spec /\ Fairness

-----------------------------------------------------------------------------
(* Properties *)

\* A helper that exits with success after relaying has handed over everything
\* the daemon's git wrote: a session cut short is never taken for a whole one
\* (git-remote-iroh, connect_and_relay).
SuccessIsComplete ==
  helper = "ok" /\ down.end => git \in {"ok", "failed"} /\ down.eof /\ down.got = down.wrote

\* "Relay git's native protocol byte-for-byte" (git-remote-iroh, main.rs): a
\* session in which no git fails, nobody interrupts and the connection is not
\* lost gives the friend's git its answer.
FaultlessSessionsSucceed == caller = "error" => faulted

\* The fetches among them do: the daemon's task ends, and its connection with
\* it, only when the helper has passed on the end of git's output and the end of
\* git's input has come back.
FaultlessFetchesSucceed == session.service = "UploadPack" => FaultlessSessionsSucceed

\* A push that fails although nothing did is one whose report was lost, not the
\* push: the daemon's git has taken it and written its report, so that a second
\* attempt finds the refs where it wants them (serve_git, whose task drops the
\* connection behind the report).
FaultlessPushesTakeEffect ==
  session.service = "ReceivePack" /\ caller = "error" /\ ~faulted => down.wrote = 2

\* Whatever fails wherever, the session comes to an end at both ends: no half of
\* a relay waits for ever for the other.
SessionEnds ==
  <>(caller # "running" /\ helper \in {"ok", "failed", "rejected"} /\ task = "done" /\ git # "running")
=============================================================================
