-------------------------- MODULE PackRelay_proofs --------------------------
(***************************************************************************)
(* Proofs about PackRelay, for any kinds of session.                       *)
(***************************************************************************)
EXTENDS PackRelay, TLAPS

\* The daemon's git is spawned once, has closed its output only when it has
\* exited, and the friend's git writes nothing after it has closed its own.
Closed ==
  /\ task \in {"handshake", "accepted"} => git = "none"
  /\ down.eof => git \in {"ok", "failed"}
  /\ up.eof => caller # "running" \/ up.wrote = 1

IInv == TypeOK /\ Closed

\* The relay hands on in order: the invariant gives the property.
LEMMA InvImplies == IInv => SuccessIsComplete
BY DEF IInv, TypeOK, Closed, InOrder, SuccessIsComplete

LEMMA InitInv == Init => IInv
<1> SUFFICES ASSUME Init PROVE IInv
  OBVIOUS
<1>1. Empty \in Direction /\ InOrder(Empty) /\ ~Empty.eof
  BY DEF Empty, Direction, Count, InOrder
<1>2. conn \in [open : BOOLEAN, up : Count, down : Count, upfin : BOOLEAN, downfin : BOOLEAN]
  BY DEF Init, Connected, Count
<1>3. up = Empty /\ down = Empty
  BY DEF Init
<1>4. TypeOK
  BY <1>1, <1>2, <1>3 DEF Init, TypeOK
<1>5. Closed
  BY <1>1, <1>3 DEF Closed, Init
<1> QED BY <1>4, <1>5 DEF IInv

-----------------------------------------------------------------------------
(* What may be done to a direction.                                        *)

\* A source that is still open may write.
LEMMA Writes ==
  ASSUME NEW d \in Direction, InOrder(d), ~d.eof, NEW n \in Count, d.wrote <= n
  PROVE  LET e == [d EXCEPT !.wrote = n]
         IN  e \in Direction /\ InOrder(e) /\ e.eof = d.eof /\ e.wrote = n
<1> DEFINE e == [d EXCEPT !.wrote = n]
<1>1. e \in Direction
  BY DEF Direction
<1>2. /\ e.wrote = n /\ e.sent = d.sent /\ e.got = d.got
      /\ e.eof = d.eof /\ e.fin = d.fin /\ e.end = d.end
  BY DEF Direction
<1>3. InOrder(e)
  BY <1>2 DEF InOrder, Direction, Count
<1> QED BY <1>1, <1>2, <1>3

\* A source may close its pipe.
LEMMA Closes ==
  ASSUME NEW d \in Direction, InOrder(d)
  PROVE  LET e == [d EXCEPT !.eof = TRUE]
         IN  e \in Direction /\ InOrder(e) /\ e.wrote = d.wrote
<1> DEFINE e == [d EXCEPT !.eof = TRUE]
<1>1. e \in Direction
  BY DEF Direction
<1>2. /\ e.wrote = d.wrote /\ e.sent = d.sent /\ e.got = d.got
      /\ e.eof /\ e.fin = d.fin /\ e.end = d.end
  BY DEF Direction
<1>3. InOrder(e)
  BY <1>2 DEF InOrder, Direction, Count
<1> QED BY <1>1, <1>2, <1>3

\* The near copy may put a message on the stream, or finish it behind the last.
LEMMA Finishes ==
  ASSUME NEW d \in Direction, InOrder(d), d.eof, d.sent = d.wrote
  PROVE  LET e == [d EXCEPT !.fin = TRUE]
         IN  e \in Direction /\ InOrder(e) /\ e.eof = d.eof /\ e.wrote = d.wrote
<1> DEFINE e == [d EXCEPT !.fin = TRUE]
<1>1. e \in Direction
  BY DEF Direction
<1>2. /\ e.wrote = d.wrote /\ e.sent = d.sent /\ e.got = d.got
      /\ e.eof = d.eof /\ e.fin /\ e.end = d.end
  BY DEF Direction
<1>3. InOrder(e)
  BY <1>2 DEF InOrder, Direction, Count
<1> QED BY <1>1, <1>2, <1>3

LEMMA Sends ==
  ASSUME NEW d \in Direction, InOrder(d), d.sent < d.wrote
  PROVE  LET e == [d EXCEPT !.sent = @ + 1]
         IN  e \in Direction /\ InOrder(e) /\ e.eof = d.eof /\ e.wrote = d.wrote
<1> DEFINE e == [d EXCEPT !.sent = @ + 1]
<1>1. d.sent + 1 \in Count
  BY DEF Direction, Count
<1>2. e \in Direction
  BY <1>1 DEF Direction
<1>3. /\ e.wrote = d.wrote /\ e.sent = d.sent + 1 /\ e.got = d.got
      /\ e.eof = d.eof /\ e.fin = d.fin /\ e.end = d.end
  BY DEF Direction
<1>4. InOrder(e)
  BY <1>3 DEF InOrder, Direction, Count
<1> QED BY <1>2, <1>3, <1>4

\* The far copy may hand over a message that was sent, and see the end.
LEMMA HandsOver ==
  ASSUME NEW d \in Direction, InOrder(d), d.got < d.sent
  PROVE  LET e == [d EXCEPT !.got = @ + 1]
         IN  e \in Direction /\ InOrder(e) /\ e.eof = d.eof /\ e.wrote = d.wrote
<1> DEFINE e == [d EXCEPT !.got = @ + 1]
<1>1. d.got + 1 \in Count
  BY DEF Direction, Count, InOrder
<1>2. e \in Direction
  BY <1>1 DEF Direction
<1>3. /\ e.wrote = d.wrote /\ e.sent = d.sent /\ e.got = d.got + 1
      /\ e.eof = d.eof /\ e.fin = d.fin /\ e.end = d.end
  BY DEF Direction
<1>4. InOrder(e)
  BY <1>3 DEF InOrder, Direction, Count
<1> QED BY <1>2, <1>3, <1>4

LEMMA SeesEnd ==
  ASSUME NEW d \in Direction, InOrder(d), d.fin, d.got = d.sent
  PROVE  LET e == [d EXCEPT !.end = TRUE]
         IN  e \in Direction /\ InOrder(e) /\ e.eof = d.eof /\ e.wrote = d.wrote
<1> DEFINE e == [d EXCEPT !.end = TRUE]
<1>1. e \in Direction
  BY DEF Direction
<1>2. /\ e.wrote = d.wrote /\ e.sent = d.sent /\ e.got = d.got
      /\ e.eof = d.eof /\ e.fin = d.fin /\ e.end
  BY DEF Direction
<1>3. InOrder(e)
  BY <1>2 DEF InOrder, Direction, Count
<1> QED BY <1>1, <1>2, <1>3

-----------------------------------------------------------------------------

\* A closed connection is a connection.
LEMMA CloseType ==
  ASSUME TypeOK, Close
  PROVE  conn' \in [open : BOOLEAN, up : Count, down : Count, upfin : BOOLEAN, downfin : BOOLEAN]
<1>1. CASE UNCHANGED conn
  BY <1>1 DEF TypeOK
<1>2. ASSUME NEW u \in up.got .. up.sent, NEW d \in down.got .. down.sent,
             NEW uf \in {up.fin, up.end}, NEW df \in {down.fin, down.end},
             conn' = [open |-> FALSE, up |-> u, down |-> d, upfin |-> uf, downfin |-> df]
      PROVE  conn' \in [open : BOOLEAN, up : Count, down : Count, upfin : BOOLEAN, downfin : BOOLEAN]
  <2>1. u \in Count /\ d \in Count
    BY <1>2 DEF TypeOK, Direction, Count
  <2>2. uf \in BOOLEAN /\ df \in BOOLEAN
    BY <1>2 DEF TypeOK, Direction
  <2> QED BY <1>2, <2>1, <2>2
<1> QED BY <1>1, <1>2 DEF Close

-----------------------------------------------------------------------------
(* The steps, by who takes them.                                           *)

\* The friend's git keeps the invariant, interrupted or not.
LEMMA CallerKeepsInv ==
  ASSUME IInv, UNCHANGED session, CallerStep \/ Interrupted
  PROVE  IInv'
<1> USE DEF IInv, TypeOK, Closed
<1>1. CASE Ask
  <2> DEFINE asked == [up EXCEPT !.wrote = 1]
  <2>1. asked \in Direction /\ InOrder(asked) /\ asked.eof = up.eof /\ asked.wrote = 1
    <3>1. ~up.eof /\ up.wrote <= 1 /\ 1 \in Count
      BY <1>1 DEF Ask, Count
    <3> QED BY <3>1, Writes
  <2>2. up' = asked \/ up' = [asked EXCEPT !.eof = TRUE]
    <3>1. ~up.eof
      BY <1>1 DEF Ask
    <3>2. CASE session.service = "ReceivePack"
      BY <1>1, <3>2 DEF Ask, Direction
    <3>3. CASE session.service # "ReceivePack"
      <4>1. up' = [[up EXCEPT !.wrote = 1] EXCEPT !.eof = FALSE]
        BY <1>1, <3>3 DEF Ask, Direction
      <4> QED BY <4>1, <3>1 DEF Direction
    <3> QED BY <3>2, <3>3
  <2> HIDE DEF asked
  <2>3. up' \in Direction /\ InOrder(up') /\ up'.wrote = 1
    BY <2>1, <2>2, Closes
  <2> QED BY <1>1, <2>3 DEF Ask
<1>2. CASE Answered \/ Disappointed \/ Interrupted
  <2>1. /\ caller' \in {"ok", "error"}
        /\ up' = [up EXCEPT !.eof = TRUE]
        /\ faulted' \in BOOLEAN
        /\ UNCHANGED <<helper, down, conn, task, git>>
    BY <1>2 DEF Answered, Disappointed, Interrupted
  <2>2. up' \in Direction /\ InOrder(up')
    BY <2>1, Closes
  <2> QED BY <2>1, <2>2
<1> QED BY <1>1, <1>2 DEF CallerStep

\* So does the helper, however it ends.
LEMMA HelperKeepsInv ==
  ASSUME IInv, UNCHANGED session, HelperStep
  PROVE  IInv'
<1>1. CASE Connect \/ Accepted
  BY <1>1 DEF IInv, TypeOK, Closed, InOrder, Connect, Accepted
<1>2. CASE UpCopies
  <2>1. up' \in Direction /\ InOrder(up') /\ up'.eof = up.eof /\ up'.wrote = up.wrote
    BY <1>2, Sends DEF IInv, TypeOK, UpCopies
  <2> QED BY <1>2, <2>1 DEF IInv, TypeOK, Closed, UpCopies
<1>3. CASE UpFinishes
  <2>1. up' \in Direction /\ InOrder(up') /\ up'.eof = up.eof /\ up'.wrote = up.wrote
    BY <1>3, Finishes DEF IInv, TypeOK, UpFinishes
  <2> QED BY <1>3, <2>1 DEF IInv, TypeOK, Closed, UpFinishes
<1>4. CASE DownCopies
  <2>1. down' \in Direction /\ InOrder(down') /\ down'.eof = down.eof /\ down'.wrote = down.wrote
    BY <1>4, HandsOver DEF IInv, TypeOK, DownCopies
  <2> QED BY <1>4, <2>1 DEF IInv, TypeOK, Closed, DownCopies
<1>5. CASE DownEnds
  <2>1. down' \in Direction /\ InOrder(down') /\ down'.eof = down.eof /\ down'.wrote = down.wrote
    BY <1>5, SeesEnd DEF IInv, TypeOK, DownEnds
  <2> QED BY <1>5, <2>1 DEF IInv, TypeOK, Closed, DownEnds
<1>6. CASE NotAsked \/ Rejected \/ AskFails \/ RelayEnds \/ RelayFails
  <2>1. /\ Close
        /\ helper' \in {"ok", "rejected", "failed"}
        /\ UNCHANGED <<caller, up, down, task, git, faulted>>
    BY <1>6 DEF NotAsked, Rejected, AskFails, RelayEnds, RelayFails, Fail
  <2> QED BY <2>1, CloseType DEF IInv, TypeOK, Closed, InOrder
<1> QED BY <1>1, <1>2, <1>3, <1>4, <1>5, <1>6 DEF HelperStep

\* So does the daemon's task.
LEMMA TaskKeepsInv ==
  ASSUME IInv, UNCHANGED session, TaskStep \/ Decide
  PROVE  IInv'
<1>1. CASE Serve \/ Reject
  BY <1>1 DEF IInv, TypeOK, Closed, InOrder, Serve, Reject
<1>2. CASE Spawn
  BY <1>2 DEF IInv, TypeOK, Closed, InOrder, Spawn
<1>3. CASE ToChildCopies
  <2>1. up' \in Direction /\ InOrder(up') /\ up'.eof = up.eof /\ up'.wrote = up.wrote
    BY <1>3, HandsOver DEF IInv, TypeOK, ToChildCopies
  <2> QED BY <1>3, <2>1 DEF IInv, TypeOK, Closed, ToChildCopies
<1>4. CASE ToChildEnds
  <2>1. up' \in Direction /\ InOrder(up') /\ up'.eof = up.eof /\ up'.wrote = up.wrote
    BY <1>4, SeesEnd DEF IInv, TypeOK, ToChildEnds
  <2> QED BY <1>4, <2>1 DEF IInv, TypeOK, Closed, ToChildEnds
<1>5. CASE FromChildCopies
  <2>1. down' \in Direction /\ InOrder(down') /\ down'.eof = down.eof /\ down'.wrote = down.wrote
    BY <1>5, Sends DEF IInv, TypeOK, FromChildCopies
  <2> QED BY <1>5, <2>1 DEF IInv, TypeOK, Closed, FromChildCopies
<1>6. CASE FromChildFinishes
  <2>1. down' \in Direction /\ InOrder(down') /\ down'.eof = down.eof /\ down'.wrote = down.wrote
    BY <1>6, Finishes DEF IInv, TypeOK, FromChildFinishes
  <2> QED BY <1>6, <2>1 DEF IInv, TypeOK, Closed, FromChildFinishes
<1>7. CASE HandshakeFails \/ SpawnFails \/ LingerEnds \/ ServeEnds \/ ServeFails
  <2>1. /\ Close
        /\ task' = "done"
        /\ UNCHANGED <<caller, helper, up, down, git>>
        /\ faulted' \in BOOLEAN
    BY <1>7 DEF IInv, TypeOK, HandshakeFails, SpawnFails, LingerEnds, ServeEnds, ServeFails, TaskDone
  <2> QED BY <2>1, CloseType DEF IInv, TypeOK, Closed, InOrder
<1> QED BY <1>1, <1>2, <1>3, <1>4, <1>5, <1>6, <1>7 DEF TaskStep, Decide

\* So does the daemon's git, and the loss of the connection.
LEMMA GitKeepsInv ==
  ASSUME IInv, UNCHANGED session, GitStep \/ Dies \/ ConnectionLost
  PROVE  IInv'
<1> USE DEF IInv, TypeOK, Closed
<1>1. CASE Advertise \/ Answer
  <2>1. /\ git = "running" /\ \E n \in 1 .. 2 : down.wrote <= n /\ down' = [down EXCEPT !.wrote = n]
        /\ UNCHANGED <<caller, helper, up, conn, task, git, faulted>>
    BY <1>1 DEF Advertise, Answer
  <2>2. ~down.eof
    BY <2>1
  <2>3. PICK n \in Count : down.wrote <= n /\ down' = [down EXCEPT !.wrote = n]
    BY <2>1 DEF Count
  <2>4. down' \in Direction /\ InOrder(down') /\ down'.eof = down.eof
    BY <2>2, <2>3, Writes
  <2> QED BY <2>1, <2>2, <2>4
<1>2. CASE Exits \/ Dies
  <2>1. /\ git = "running" /\ git' \in {"ok", "failed"}
        /\ down' = [down EXCEPT !.eof = TRUE]
        /\ faulted' \in BOOLEAN
        /\ UNCHANGED <<caller, helper, up, conn, task>>
    BY <1>2 DEF Exits, Dies
  <2>2. down' \in Direction /\ InOrder(down')
    BY <2>1, Closes
  <2> QED BY <2>1, <2>2
<1>3. CASE ConnectionLost
  BY <1>3, CloseType DEF ConnectionLost
<1> QED BY <1>1, <1>2, <1>3 DEF GitStep

LEMMA NextInv == IInv /\ [Next]_vars => IInv'
<1> SUFFICES ASSUME IInv, [Next]_vars PROVE IInv'
  OBVIOUS
<1>1. CASE UNCHANGED vars
  BY <1>1 DEF IInv, TypeOK, Closed, InOrder, vars
<1>2. CASE Next
  BY <1>2, CallerKeepsInv, HelperKeepsInv, TaskKeepsInv, GitKeepsInv DEF Next
<1> QED BY <1>1, <1>2

\* Whatever goes wrong in the session, a helper that reports success has handed
\* over all that the daemon's git wrote before it exited.
THEOREM SuccessMeansComplete == Spec => [](TypeOK /\ SuccessIsComplete)
<1>1. IInv => TypeOK
  BY DEF IInv
<1> QED BY <1>1, InitInv, NextInv, InvImplies, PTL DEF Spec

-----------------------------------------------------------------------------
(* Every variable keeps its type.                                          *)

\* The typing the run checks, for any kinds of session: it holds the order of
\* each direction, a message being sent before it is got and the end last.
THEOREM TypeCorrect == Spec => []TypeOK
<1>1. IInv => TypeOK
  BY DEF IInv
<1> QED BY <1>1, InitInv, NextInv, PTL DEF Spec

-----------------------------------------------------------------------------
(* A fetch without a fault succeeds: what the invariant adds for it.       *)

\* The daemon's git answers what it was asked, and only then or for want of a
\* question exits by itself.
Asked ==
  /\ up.wrote <= 1
  /\ down.wrote = 2 => up.got >= 1
  /\ task = "serving" => git # "none"
  /\ git = "failed" => faulted

\* In a fetch nothing is closed, neither input nor connection, before the answer
\* has been handed over.
Fetched ==
  session.service = "UploadPack" /\ ~faulted =>
    /\ caller # "error" /\ helper # "rejected" /\ task # "refused"
    /\ up.eof => caller = "ok"
    /\ down.eof => git = "ok"
    /\ git = "ok" => down.wrote = 2
    /\ helper \in {"commands", "asking"} => down.got = 0
    /\ caller = "ok" \/ helper \in {"ok", "failed"} \/ task = "done" \/ ~conn.open => down.got = 2

FetchInv == IInv /\ Asked /\ Fetched

LEMMA FetchInit == Init => FetchInv
<1> SUFFICES ASSUME Init PROVE Asked /\ Fetched
  BY InitInv DEF FetchInv
<1> QED BY DEF Init, Asked, Fetched, Empty, Connected

\* The parts of the two directions and what their order says, for the steps that
\* change one.
LEMMA Parts ==
  ASSUME IInv
  PROVE  /\ up \in Direction /\ down \in Direction
         /\ up.wrote \in Count /\ up.sent \in Count /\ up.got \in Count
         /\ down.wrote \in Count /\ down.sent \in Count /\ down.got \in Count
         /\ up.got <= up.sent /\ up.sent <= up.wrote
         /\ down.got <= down.sent /\ down.sent <= down.wrote
         /\ up.end => up.eof /\ up.got = up.wrote
         /\ down.end => down.eof /\ down.got = down.wrote
         /\ up.fin => up.eof
         /\ down.fin => down.eof
         /\ down.eof => git \in {"ok", "failed"}
         /\ task \in {"handshake", "accepted"} => git = "none"
<1>1. up \in Direction /\ down \in Direction /\ InOrder(up) /\ InOrder(down) /\ Closed
  BY DEF IInv, TypeOK
<1> QED BY <1>1 DEF Direction, InOrder, Closed

\* The answer is complete once the far copy has seen the end.
LEMMA EndedIsAnswered ==
  ASSUME FetchInv, session.service = "UploadPack", ~faulted
  PROVE  /\ down.end => down.got = 2
         /\ up.end \/ up.eof => down.got = 2
         /\ down.got <= 2
         /\ git # "failed"
BY Parts DEF FetchInv, Asked, Fetched, Count

LEMMA CallerKeepsFetch ==
  ASSUME FetchInv, UNCHANGED session, CallerStep \/ Interrupted
  PROVE  Asked' /\ Fetched'
<1>1. CASE Ask
  <2>1. /\ up'.wrote = 1 /\ up'.got = up.got
        /\ session.service = "UploadPack" => ~up'.eof
    BY <1>1, Parts DEF Ask, Direction, FetchInv
  <2> QED BY <1>1, <2>1 DEF Ask, FetchInv, Asked, Fetched
<1>2. CASE Answered
  <2>1. up'.wrote = up.wrote /\ up'.got = up.got
    BY <1>2, Parts DEF Answered, Direction, FetchInv
  <2> QED BY <1>2, <2>1 DEF Answered, FetchInv, Asked, Fetched
<1>3. CASE Disappointed
  <2>1. up'.wrote = up.wrote /\ up'.got = up.got
    BY <1>3, Parts DEF Disappointed, Direction, FetchInv
  <2>2. ~(session.service = "UploadPack" /\ ~faulted)
    BY <1>3, EndedIsAnswered DEF Disappointed, FetchInv, Fetched
  <2> QED BY <1>3, <2>1, <2>2 DEF Disappointed, FetchInv, Asked, Fetched
<1>4. CASE Interrupted
  <2>1. up'.wrote = up.wrote /\ up'.got = up.got
    BY <1>4, Parts DEF Interrupted, Direction, FetchInv
  <2> QED BY <1>4, <2>1 DEF Interrupted, FetchInv, Asked, Fetched
<1> QED BY <1>1, <1>2, <1>3, <1>4 DEF CallerStep

LEMMA HelperKeepsFetch ==
  ASSUME FetchInv, UNCHANGED session, HelperStep
  PROVE  Asked' /\ Fetched'
<1>1. CASE Connect \/ Accepted
  BY <1>1 DEF Connect, Accepted, FetchInv, Asked, Fetched
<1>2. CASE UpCopies \/ UpFinishes
  <2>1. /\ up'.wrote = up.wrote /\ up'.got = up.got /\ up'.eof = up.eof
        /\ UNCHANGED <<caller, helper, down, conn, task, git, faulted>>
    BY <1>2, Parts DEF UpCopies, UpFinishes, Direction, FetchInv
  <2> QED BY <2>1 DEF FetchInv, Asked, Fetched
<1>3. CASE DownCopies
  <2>1. down'.wrote = down.wrote /\ down'.eof = down.eof
    BY <1>3, Parts DEF DownCopies, Direction, FetchInv
  <2>2. down.got < 2
    BY <1>3, Parts DEF DownCopies, FetchInv, Count
  <2> QED BY <1>3, <2>1, <2>2 DEF DownCopies, FetchInv, Asked, Fetched
<1>4. CASE DownEnds
  <2>1. down'.wrote = down.wrote /\ down'.eof = down.eof /\ down'.got = down.got
    BY <1>4, Parts DEF DownEnds, Direction, FetchInv
  <2> QED BY <1>4, <2>1 DEF DownEnds, FetchInv, Asked, Fetched
<1>5. CASE NotAsked \/ Rejected \/ AskFails \/ RelayEnds \/ RelayFails
  <2>1. /\ helper' \in {"ok", "rejected", "failed"}
        /\ UNCHANGED <<caller, up, down, task, git, faulted>>
    BY <1>5 DEF NotAsked, Rejected, AskFails, RelayEnds, RelayFails, Fail
  <2>2. ASSUME session.service = "UploadPack", ~faulted
        PROVE  down.got = 2 /\ helper' # "rejected"
    <3>1. CASE NotAsked \/ RelayEnds
      BY <2>2, <3>1, EndedIsAnswered DEF NotAsked, RelayEnds
    <3>2. CASE Rejected \/ AskFails
      BY <2>2, <3>2 DEF Rejected, AskFails, FetchInv, Fetched
    <3>3. CASE RelayFails
      <4>1. down.got < down.sent => down.got # 2
        BY Parts DEF FetchInv, Count
      <4>2. caller \in {"running", "ok", "error"}
        BY DEF FetchInv, IInv, TypeOK
      <4>3. ~conn.open \/ (caller # "running" /\ down.got < down.sent)
        BY <3>3 DEF RelayFails
      <4> QED BY <2>2, <3>3, <4>1, <4>2, <4>3 DEF RelayFails, Fail, FetchInv, Fetched
    <3> QED BY <1>5, <3>1, <3>2, <3>3
  <2> QED BY <2>1, <2>2 DEF FetchInv, Asked, Fetched
<1> QED BY <1>1, <1>2, <1>3, <1>4, <1>5 DEF HelperStep

LEMMA TaskKeepsFetch ==
  ASSUME FetchInv, UNCHANGED session, TaskStep \/ Decide
  PROVE  Asked' /\ Fetched'
<1>1. CASE Serve \/ Reject
  BY <1>1 DEF Serve, Reject, FetchInv, Asked, Fetched
<1>2. CASE Spawn
  BY <1>2, Parts DEF Spawn, FetchInv, Asked, Fetched
<1>3. CASE ToChildCopies
  <2>1. up'.wrote = up.wrote /\ up'.got = up.got + 1 /\ up'.eof = up.eof
    BY <1>3, Parts DEF ToChildCopies, Direction, FetchInv
  <2>2. up.got \in Count
    BY Parts DEF FetchInv
  <2> QED BY <1>3, <2>1, <2>2 DEF ToChildCopies, FetchInv, Asked, Fetched, Count
<1>4. CASE ToChildEnds
  <2>1. up'.wrote = up.wrote /\ up'.got = up.got /\ up'.eof = up.eof
    BY <1>4, Parts DEF ToChildEnds, Direction, FetchInv
  <2> QED BY <1>4, <2>1 DEF ToChildEnds, FetchInv, Asked, Fetched
<1>5. CASE FromChildCopies \/ FromChildFinishes
  <2>1. /\ down'.wrote = down.wrote /\ down'.got = down.got /\ down'.eof = down.eof
        /\ UNCHANGED <<caller, helper, up, conn, task, git, faulted>>
    BY <1>5, Parts DEF FromChildCopies, FromChildFinishes, Direction, FetchInv
  <2> QED BY <2>1 DEF FetchInv, Asked, Fetched
<1>6. CASE HandshakeFails \/ LingerEnds \/ ServeEnds \/ ServeFails
  <2>1. task' = "done" /\ UNCHANGED <<caller, helper, up, down, git, faulted>>
    BY <1>6 DEF HandshakeFails, LingerEnds, ServeEnds, ServeFails, TaskDone
  <2>2. ASSUME session.service = "UploadPack", ~faulted PROVE down.got = 2
    <3>1. CASE HandshakeFails \/ LingerEnds \/ ServeEnds
      BY <2>2, <3>1, EndedIsAnswered DEF HandshakeFails, LingerEnds, ServeEnds, FetchInv, Fetched
    <3>2. CASE ServeFails
      <4>1. ~(git # "running" /\ up.got < up.sent)
        <5>1. git \in {"none", "running", "ok", "failed"}
          BY DEF FetchInv, IInv, TypeOK
        <5>2. git \in {"running", "ok"}
          BY <2>2, <3>2, <5>1, EndedIsAnswered DEF ServeFails, FetchInv, Asked
        <5> QED BY <2>2, <5>2, Parts DEF FetchInv, Asked, Fetched, Count
      <4>2. ~conn.open
        BY <3>2, <4>1 DEF ServeFails
      <4> QED BY <2>2, <4>2 DEF FetchInv, Fetched
    <3> QED BY <1>6, <3>1, <3>2
  <2> QED BY <2>1, <2>2 DEF FetchInv, Asked, Fetched
<1>7. CASE SpawnFails
  BY <1>7 DEF SpawnFails, FetchInv, Asked, Fetched
<1> QED BY <1>1, <1>2, <1>3, <1>4, <1>5, <1>6, <1>7 DEF TaskStep, Decide

LEMMA GitKeepsFetch ==
  ASSUME FetchInv, UNCHANGED session, GitStep \/ Dies \/ ConnectionLost
  PROVE  Asked' /\ Fetched'
<1>1. CASE Advertise
  <2>1. down'.wrote = 1 /\ down'.got = down.got /\ down'.eof = down.eof
    BY <1>1, Parts DEF Advertise, Direction, FetchInv
  <2> QED BY <1>1, <2>1 DEF Advertise, FetchInv, Asked, Fetched
<1>2. CASE Answer
  <2>1. down'.wrote = 2 /\ down'.got = down.got /\ down'.eof = down.eof
    BY <1>2, Parts DEF Answer, Direction, FetchInv
  <2> QED BY <1>2, <2>1 DEF Answer, FetchInv, Asked, Fetched
<1>3. CASE Exits
  <2>1. down'.wrote = down.wrote /\ down'.got = down.got
    BY <1>3, Parts DEF Exits, Direction, FetchInv
  <2>2. ASSUME session.service = "UploadPack", ~faulted PROVE down.wrote = 2
    BY <1>3, <2>2, EndedIsAnswered, Parts DEF Exits, FetchInv, Count
  <2> QED BY <1>3, <2>1, <2>2 DEF Exits, FetchInv, Asked, Fetched
<1>4. CASE Dies
  <2>1. down'.wrote = down.wrote
    BY <1>4, Parts DEF Dies, Direction, FetchInv
  <2> QED BY <1>4, <2>1 DEF Dies, FetchInv, Asked, Fetched
<1>5. CASE ConnectionLost
  BY <1>5 DEF ConnectionLost, FetchInv, Asked, Fetched
<1> QED BY <1>1, <1>2, <1>3, <1>4, <1>5 DEF GitStep

LEMMA FetchNext == FetchInv /\ [Next]_vars => FetchInv'
<1> SUFFICES ASSUME FetchInv, [Next]_vars PROVE Asked' /\ Fetched'
  BY NextInv DEF FetchInv
<1>1. CASE UNCHANGED vars
  BY <1>1 DEF FetchInv, Asked, Fetched, vars
<1>2. CASE Next
  BY <1>2, CallerKeepsFetch, HelperKeepsFetch, TaskKeepsFetch, GitKeepsFetch DEF Next
<1> QED BY <1>1, <1>2

\* A fetch in which nothing but the relay could go wrong succeeds: neither the
\* helper nor the daemon closes the connection before the answer is handed over.
THEOREM FaultlessFetches == Spec => []FaultlessFetchesSucceed
<1>1. FetchInv => FaultlessFetchesSucceed
  BY DEF FetchInv, IInv, TypeOK, Fetched, FaultlessFetchesSucceed, FaultlessSessionsSucceed
<1> QED BY <1>1, FetchInit, FetchNext, PTL DEF Spec

-----------------------------------------------------------------------------
(* A push without a fault takes effect.                                    *)

\* Of any session: nothing fails or is closed before the daemon's git has written
\* its answer, and the friend's git closes its pipe only behind its question.
Effected ==
  ~faulted =>
    /\ helper # "rejected" /\ task # "refused"
    /\ helper \in {"commands", "asking"} => up.wrote = 0
    /\ up.eof => up.wrote = 1 \/ down.wrote = 2
    /\ git = "ok" => down.wrote = 2
    /\ caller # "running" \/ helper \in {"ok", "failed"} \/ task = "done" \/ ~conn.open
         => down.wrote = 2

PushInv == IInv /\ Asked /\ Effected

LEMMA PushInit == Init => PushInv
<1> SUFFICES ASSUME Init PROVE Asked /\ Effected
  BY InitInv DEF PushInv
<1> QED BY DEF Init, Asked, Effected, Empty, Connected

\* Asked is kept by every step on its own.
LEMMA AskedNext == IInv /\ Asked /\ [Next]_vars => Asked'
<1> SUFFICES ASSUME IInv, Asked, [Next]_vars PROVE Asked'
  OBVIOUS
<1>0. faulted \in BOOLEAN
  BY DEF IInv, TypeOK
<1>1. CASE CallerStep \/ Interrupted
  <2>1. UNCHANGED <<down, task, git>> /\ (UNCHANGED faulted \/ faulted')
    BY <1>1 DEF CallerStep, Ask, Answered, Disappointed, Interrupted
  <2>2. Ask => up'.got = up.got /\ up'.wrote = 1
    BY Parts DEF Ask, Direction
  <2>3. Answered \/ Disappointed \/ Interrupted => up'.got = up.got /\ up'.wrote = up.wrote
    BY Parts DEF Answered, Disappointed, Interrupted, Direction
  <2>4. up'.got = up.got /\ up'.wrote <= 1
    BY <1>1, <2>2, <2>3 DEF CallerStep, Asked
  <2> QED BY <2>1, <2>4 DEF Asked
<1>2. CASE UpCopies \/ UpFinishes \/ FromChildCopies \/ FromChildFinishes \/ DownCopies \/ DownEnds
           \/ ToChildEnds
  <2>1. /\ up'.wrote = up.wrote /\ up'.got = up.got /\ down'.wrote = down.wrote
        /\ UNCHANGED <<task, git, faulted>>
    BY <1>2, Parts DEF UpCopies, UpFinishes, FromChildCopies, FromChildFinishes, DownCopies, DownEnds,
                       ToChildEnds, Direction
  <2> QED BY <2>1 DEF Asked
<1>3. CASE Connect \/ Accepted \/ NotAsked \/ Rejected \/ AskFails \/ RelayEnds \/ RelayFails
  BY <1>3 DEF Connect, Accepted, NotAsked, Rejected, AskFails, RelayEnds, RelayFails, Fail, Asked
<1>4. CASE Decide \/ ConnectionLost \/ HandshakeFails \/ LingerEnds \/ ServeEnds \/ ServeFails \/ SpawnFails
           \/ Spawn
  BY <1>4, Parts DEF Decide, Serve, Reject, ConnectionLost, HandshakeFails, LingerEnds, ServeEnds,
                     ServeFails, TaskDone, SpawnFails, Spawn, Asked
<1>5. CASE ToChildCopies
  <2>1. up'.wrote = up.wrote /\ up'.got = up.got + 1
    BY <1>5, Parts DEF ToChildCopies, Direction
  <2>2. up.got \in Count
    BY Parts
  <2> QED BY <1>5, <2>1, <2>2 DEF ToChildCopies, Asked, Count
<1>6. CASE Advertise \/ Answer
  <2>1. down'.wrote \in {1, 2} /\ (down'.wrote = 2 => up.got = 1) /\ UNCHANGED <<up, task, git, faulted>>
    BY <1>6, Parts DEF Advertise, Answer, Direction
  <2> QED BY <1>6, <2>1 DEF Advertise, Answer, Asked
<1>7. CASE Exits \/ Dies
  <2>1. down'.wrote = down.wrote
    BY <1>7, Parts DEF Exits, Dies, Direction
  <2> QED BY <1>7, <2>1 DEF Exits, Dies, Asked
<1>8. CASE UNCHANGED vars
  BY <1>8 DEF vars, Asked
<1> QED BY <1>1, <1>2, <1>3, <1>4, <1>5, <1>6, <1>7, <1>8 DEF Next, HelperStep, TaskStep, GitStep

\* What a session without a fault leaves to happen.
LEMMA StillOpen ==
  ASSUME PushInv, ~faulted
  PROVE  /\ down.got = 2 => down.wrote = 2
         /\ down.end => down.wrote = 2
         /\ git # "failed"
         /\ down.wrote # 2 =>
              /\ conn.open /\ task # "done" /\ caller = "running"
              /\ helper \in {"commands", "asking", "relaying"}
              /\ ~down.eof /\ git \in {"none", "running"}
              /\ up.eof => up.wrote = 1
<1>1. git \in {"none", "running", "ok", "failed"}
      /\ caller \in {"running", "ok", "error"}
      /\ helper \in {"commands", "asking", "relaying", "rejected", "ok", "failed"}
      /\ conn.open \in BOOLEAN
  BY DEF PushInv, IInv, TypeOK
<1>2. git # "failed"
  BY DEF PushInv, Asked
<1>3. down.got = 2 => down.wrote = 2
  BY Parts DEF PushInv, Count
<1>4. down.end => down.wrote = 2
  BY <1>2, Parts DEF PushInv, Effected
<1>5. git = "ok" => down.wrote = 2
  BY DEF PushInv, Effected
<1>6. down.eof => git = "ok"
  BY <1>2, Parts DEF PushInv
<1> QED BY <1>1, <1>2, <1>3, <1>4, <1>5, <1>6 DEF PushInv, Effected

\* A fault is not forgotten.
LEMMA FaultsLast == [Next]_vars /\ faulted => faulted'
<1>1. CallerStep \/ HelperStep => UNCHANGED faulted
  BY DEF CallerStep, Ask, Answered, Disappointed, HelperStep, Connect, NotAsked, Accepted,
         Rejected, AskFails, Fail, UpCopies, UpFinishes, DownCopies, DownEnds, RelayEnds, RelayFails
<1>2. TaskStep => UNCHANGED faulted \/ faulted'
  BY DEF TaskStep, HandshakeFails, Spawn, SpawnFails, LingerEnds, ToChildCopies, ToChildEnds,
         FromChildCopies, FromChildFinishes, ServeEnds, ServeFails, TaskDone
<1>3. Decide \/ GitStep \/ Interrupted \/ Dies \/ ConnectionLost => UNCHANGED faulted \/ faulted'
  BY DEF Decide, Serve, Reject, GitStep, Advertise, Answer, Exits, Dies, Interrupted, ConnectionLost
<1> QED BY <1>1, <1>2, <1>3 DEF Next, vars

LEMMA EffectedNext == PushInv /\ [Next]_vars => Effected'
<1> SUFFICES ASSUME PushInv, [Next]_vars, ~faulted' PROVE Effected'
  BY DEF Effected
<1> ~faulted
  BY FaultsLast
<1>0. Effected /\ up \in Direction /\ down \in Direction
  BY Parts DEF PushInv
<1>1. CASE Ask
  <2>1. up'.wrote = 1
    BY <1>0, <1>1 DEF Ask, Direction
  <2> QED BY <1>0, <1>1, <2>1 DEF Ask, Effected
<1>2. CASE Answered \/ Disappointed
  <2>1. up'.wrote = up.wrote /\ UNCHANGED <<helper, down, conn, task, git>>
    BY <1>0, <1>2 DEF Answered, Disappointed, Direction
  <2>2. down.wrote = 2
    BY <1>2, StillOpen DEF Answered, Disappointed
  <2> QED BY <1>0, <2>1, <2>2 DEF Effected
<1>3. CASE UpCopies \/ UpFinishes \/ ToChildCopies \/ ToChildEnds
  <2>1. up'.wrote = up.wrote /\ up'.eof = up.eof /\ UNCHANGED <<caller, helper, down, conn, task, git>>
    BY <1>0, <1>3 DEF UpCopies, UpFinishes, ToChildCopies, ToChildEnds, Direction
  <2> QED BY <1>0, <2>1 DEF Effected
<1>4. CASE DownCopies \/ DownEnds \/ FromChildCopies \/ FromChildFinishes
  <2>1. down'.wrote = down.wrote /\ UNCHANGED <<caller, helper, up, conn, task, git>>
    BY <1>0, <1>4 DEF DownCopies, DownEnds, FromChildCopies, FromChildFinishes, Direction
  <2> QED BY <1>0, <2>1 DEF Effected
<1>5. CASE Connect \/ Accepted \/ Serve \/ Spawn
  BY <1>0, <1>5 DEF Connect, Accepted, Serve, Spawn, Effected
<1>6. CASE NotAsked \/ Rejected \/ AskFails \/ RelayEnds \/ RelayFails
  <2>1. /\ helper' \in {"ok", "failed"} \/ Rejected
        /\ UNCHANGED <<caller, up, down, task, git>>
    BY <1>6 DEF NotAsked, Rejected, AskFails, RelayEnds, RelayFails, Fail
  <2>2. ~Rejected
    BY <1>0 DEF Rejected, Effected
  <2>3. down.wrote = 2
    <3>1. CASE NotAsked
      BY <1>0, <3>1, StillOpen DEF NotAsked, Effected
    <3>2. CASE AskFails \/ RelayEnds \/ RelayFails
      BY <3>2, StillOpen DEF AskFails, RelayEnds, RelayFails
    <3> QED BY <1>6, <2>2, <3>1, <3>2
  <2> QED BY <1>0, <2>1, <2>2, <2>3 DEF Effected
<1>7. CASE HandshakeFails \/ LingerEnds \/ ServeEnds \/ ServeFails
  <2>1. task' = "done" /\ UNCHANGED <<caller, helper, up, down, git>>
    BY <1>7 DEF HandshakeFails, LingerEnds, ServeEnds, ServeFails, TaskDone
  <2>2. ~LingerEnds
    BY <1>0 DEF LingerEnds, Effected
  <2>3. task = "serving" => git # "none"
    BY DEF PushInv, Asked
  <2>4. down.wrote = 2
    BY <1>7, <2>2, <2>3, StillOpen DEF HandshakeFails, ServeEnds, ServeFails
  <2> QED BY <1>0, <2>1, <2>4 DEF Effected
<1>8. CASE Advertise \/ Answer
  <2>1. (down.wrote = 0 \/ down'.wrote = 2) /\ UNCHANGED <<caller, helper, up, conn, task, git>>
    BY <1>0, <1>8 DEF Advertise, Answer, Direction
  <2> QED BY <1>0, <2>1 DEF Effected
<1>9. CASE Exits
  <2>1. down'.wrote = down.wrote /\ UNCHANGED <<caller, helper, up, conn, task>>
    BY <1>0, <1>9 DEF Exits, Direction
  <2>2. down.wrote = 2
    BY <1>9, StillOpen, Parts DEF Exits, PushInv
  <2> QED BY <1>0, <2>1, <2>2 DEF Effected
<1>10. CASE UNCHANGED vars
  BY <1>0, <1>10 DEF vars, Effected
<1>11. ~Reject /\ ~SpawnFails /\ ~Interrupted /\ ~Dies /\ ~ConnectionLost
  BY DEF Reject, SpawnFails, Interrupted, Dies, ConnectionLost
<1> QED BY <1>1, <1>2, <1>3, <1>4, <1>5, <1>6, <1>7, <1>8, <1>9, <1>10, <1>11
    DEF Next, CallerStep, HelperStep, Decide, TaskStep, GitStep

\* A push in which nothing but the relay could go wrong takes effect, even if the
\* friend's git does not get its report.
THEOREM FaultlessPushes == Spec => []FaultlessPushesTakeEffect
<1>1. PushInv => FaultlessPushesTakeEffect
  BY DEF PushInv, Effected, FaultlessPushesTakeEffect
<1>2. PushInv /\ [Next]_vars => PushInv'
  BY NextInv, AskedNext, EffectedNext DEF PushInv
<1> QED BY <1>1, <1>2, PushInit, PTL DEF Spec
=============================================================================
