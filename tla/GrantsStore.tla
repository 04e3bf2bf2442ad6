---------------------------- MODULE GrantsStore ----------------------------
(***************************************************************************)
(* What grants.toml promises its readers: the file always holds a whole    *)
(* table, and a porcelain command replaces it by the edited table in one   *)
(* step.  Porcelain.tla refines this specification when one command runs   *)
(* at a time; Watcher.tla takes it as the file the daemon reloads.         *)
(***************************************************************************)
EXTENDS Grants

CONSTANT InitialGrants  \* the tables the file may hold at first

VARIABLES
  file,   \* the content of grants.toml
  drawn   \* history: the path each repo id was drawn for

storevars == <<file, drawn>>

\* A table read back from an earlier run: its ids were drawn for its paths.
DrawnFor(g) == [id \in RepoId |-> IF RepoPaths(g, id) = {} THEN NoPath ELSE CHOOSE p \in RepoPaths(g, id) : TRUE]

ASSUME InitialGrantsAssumption ==
  InitialGrants \subseteq {g \in GrantTable : IdsAtHome(g, DrawnFor(g))}

StoreTypeOK == file \in GrantTable /\ drawn \in [RepoId -> Path \cup {NoPath}]

StoreInit == file \in InitialGrants /\ drawn = DrawnFor(file)

Edit(cmd) ==
  /\ Saves(file, cmd)
  /\ \E id \in IdChoices(file, cmd, drawn) :
       /\ file' = Edited(file, cmd, id)
       /\ drawn' = Draw(drawn, cmd, id)

StoreNext == \E cmd \in Command : Edit(cmd)

StoreSpec == StoreInit /\ [][StoreNext]_storevars
=============================================================================
