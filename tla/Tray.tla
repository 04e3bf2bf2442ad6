-------------------------------- MODULE Tray --------------------------------
(***************************************************************************)
(* The tray app (iroh-git-tray/src/app.rs): one process with the daemon in *)
(* a thread of its own (start_daemon, Watcher.tla) and a UI thread that    *)
(* dispatches window messages.  A menu, a message box or the grant dialog  *)
(* runs a message loop of its own until the user is done with it, so that  *)
(* handlers nest: what waits on the UI thread is a stack.                  *)
(*                                                                         *)
(* The two share the Status behind a mutex.  Windows is modelled as the    *)
(* code uses it: posted messages are dispatched by the innermost loop,     *)
(* also to a window that a modal box has disabled.                         *)
(***************************************************************************)
EXTENDS Watcher, SequencesExt

CONSTANTS
  MaxPosted,  \* bound: messages posted and not yet dispatched
  MaxNested   \* bound: menus, boxes and dialogs open at once

VARIABLES
  posted,        \* the message queue of the UI thread
  loops,         \* the open menus, boxes and dialogs, the innermost last
  menu_actions,  \* MENU_ACTIONS: what the dynamic items of the last menu do
  dialog_open,   \* DIALOG_OPEN
  waiting        \* the UI thread waits for the status mutex

trayvars == <<posted, loops, menu_actions, dialog_open, waiting>>
vars == <<storevars, watchervars, trayvars>>

\* The ids of the menu's items; those from ID_DYN_BASE on index MENU_ACTIONS.
ID_COPY == 101
ID_QUIT == 103
ID_GRANT == 105
ID_DYN_BASE == 2000

\* What may be open: `holds` says whether its handler holds the status mutex,
\* `cmd` what the handler does next if the user says yes.
NoAction == [op |-> "none"]
Open(what, holds, cmd) == [what |-> what, holds |-> holds, cmd |-> cmd]

Init ==
  /\ WatcherInit
  /\ posted = <<>> /\ loops = <<>> /\ menu_actions = <<>>
  /\ dialog_open = FALSE /\ waiting = FALSE

\* Only the UI thread holds the status mutex for longer than a step.
StatusLocked == \E i \in DOMAIN loops : loops[i].holds

UIRuns == ~waiting
Inner == Last(loops)
Enter(what, holds, cmd) == loops' = Append(loops, Open(what, holds, cmd))
Leave == loops' = Front(loops)
Replace(what, cmd) == loops' = Append(Front(loops), Open(what, FALSE, cmd))

DaemonUnchanged == UNCHANGED <<storevars, watchervars>>

-----------------------------------------------------------------------------
(* The window procedure.                                                   *)

\* The user clicks the icon.
Click ==
  /\ Len(posted) < MaxPosted
  /\ posted' = Append(posted, [msg |-> "WM_TRAYICON"])
  /\ UNCHANGED <<loops, menu_actions, dialog_open, waiting>> /\ DaemonUnchanged

\* A handler that opens something gets to it only within the bound.
Dispatch(msg) ==
  /\ UIRuns /\ Len(loops) < MaxNested
  /\ posted # <<>> /\ Head(posted).msg = msg
  /\ posted' = Tail(posted)

\* The dynamic items of the menu, one group per shared repository (those that
\* only open the Explorer or copy a ticket are left out).
ActionsOf(g) ==
  LET shared == {p \in Path : IsShared(g, p)} IN
       {[op |-> "add_member", path |-> p] : p \in shared}
  \cup {[op |-> "set_repo_lfs", path |-> p, enabled |-> ~g[p].lfs_enabled] : p \in shared}
  \cup {[op |-> "unshare", path |-> p] : p \in shared}
  \cup {[op |-> "revoke_at", path |-> q[1], node |-> q[2], what |-> "Member"] :
          q \in {r \in shared \X Node : g[r[1]].members[r[2]] # {}}}

\* show_menu reads the status, then builds the menu from grants.toml.  Windows
\* tracks one menu of a thread at a time: a second one is not shown.
ShowMenu ==
  /\ Dispatch("WM_TRAYICON")
  /\ ~dialog_open /\ ~StatusLocked
  /\ menu_actions' = SetToSeq(ActionsOf(file))
  /\ IF \E i \in DOMAIN loops : loops[i].what = "menu"
     THEN UNCHANGED loops ELSE Enter("menu", FALSE, NoAction)
  /\ UNCHANGED <<dialog_open, waiting>> /\ DaemonUnchanged

\* The mutex is held further down this thread's own stack.
ShowMenuWaits ==
  /\ Dispatch("WM_TRAYICON")
  /\ ~dialog_open /\ StatusLocked
  /\ menu_actions' = <<>>
  /\ waiting' = TRUE
  /\ UNCHANGED <<loops, dialog_open>> /\ DaemonUnchanged

ClickIgnored ==
  /\ Dispatch("WM_TRAYICON")
  /\ dialog_open
  /\ UNCHANGED <<loops, menu_actions, dialog_open, waiting>> /\ DaemonUnchanged

\* The user picks an item or dismisses the menu: the command is posted.
Pick(id) ==
  /\ UIRuns /\ loops # <<>> /\ Inner.what = "menu" /\ Len(posted) < MaxPosted
  /\ posted' = Append(posted, [msg |-> "WM_COMMAND", id |-> id])
  /\ Leave
  /\ UNCHANGED <<menu_actions, dialog_open, waiting>> /\ DaemonUnchanged

Dismiss ==
  /\ UIRuns /\ loops # <<>> /\ Inner.what = "menu"
  /\ Leave
  /\ UNCHANGED <<posted, menu_actions, dialog_open, waiting>> /\ DaemonUnchanged

-----------------------------------------------------------------------------
(* handle_command, run_action.                                             *)

Chosen(id) == Dispatch("WM_COMMAND") /\ Head(posted).id = id

\* copy_my_id: the guard in the scrutinee of the match lives until the end of
\* the match, so the box opens with the status mutex held.
CopyMyId ==
  /\ Chosen(ID_COPY)
  /\ IF StatusLocked THEN waiting' = TRUE /\ UNCHANGED loops
                     ELSE Enter("box", TRUE, NoAction) /\ UNCHANGED waiting
  /\ UNCHANGED <<menu_actions, dialog_open>> /\ DaemonUnchanged

PromptGrant(path) ==
  /\ dialog_open' = TRUE
  /\ Enter("dialog", FALSE, [op |-> "add_member", path |-> path])
  /\ UNCHANGED <<menu_actions, waiting>> /\ DaemonUnchanged

GrantAccess == Chosen(ID_GRANT) /\ \E p \in Path : PromptGrant(p)

\* share.rs saves the edit, or has nothing to save.
Run(cmd) ==
  IF Saves(file, cmd) THEN Edit(cmd) /\ Notify ELSE UNCHANGED <<storevars, events>>

RunAction(i) ==
  /\ Chosen(ID_DYN_BASE + i - 1)
  /\ LET cmd == menu_actions[i] IN
       \/ cmd.op = "add_member" /\ PromptGrant(cmd.path)
       \/ /\ cmd.op \in {"revoke_at", "unshare"}
          /\ Enter("confirm", FALSE, cmd)
          /\ UNCHANGED <<menu_actions, dialog_open, waiting>> /\ DaemonUnchanged
       \/ /\ cmd.op = "set_repo_lfs"
          /\ Run(cmd)
          /\ Enter("box", FALSE, NoAction)
          /\ UNCHANGED <<daemon, grants, watcher, sessions, closed, menu_actions, dialog_open, waiting>>

\* An item of a menu that was built anew since may have no action any more.
NoSuchAction ==
  /\ Dispatch("WM_COMMAND")
  /\ Head(posted).id >= ID_DYN_BASE + Len(menu_actions)
  /\ UNCHANGED <<loops, menu_actions, dialog_open, waiting>> /\ DaemonUnchanged

\* The window is destroyed, the loops unwind as if every answer were no, and the
\* process ends; it starts again at the next login.
Quit ==
  /\ Chosen(ID_QUIT)
  /\ loops' = <<>> /\ menu_actions' = <<>> /\ dialog_open' = FALSE
  /\ IF daemon = "down" THEN DaemonUnchanged ELSE Stop
  /\ UNCHANGED waiting

-----------------------------------------------------------------------------
(* The user answers what is open.                                          *)

BoxClosed ==
  /\ UIRuns /\ loops # <<>> /\ Inner.what = "box"
  /\ Leave
  /\ UNCHANGED <<posted, menu_actions, dialog_open, waiting>> /\ DaemonUnchanged

Confirmed ==
  /\ UIRuns /\ loops # <<>> /\ Inner.what = "confirm"
  /\ Run(Inner.cmd)
  /\ Replace("box", NoAction)
  /\ UNCHANGED <<posted, menu_actions, dialog_open, waiting, daemon, grants, watcher, sessions, closed>>

NotConfirmed ==
  /\ UIRuns /\ loops # <<>> /\ Inner.what = "confirm"
  /\ Leave
  /\ UNCHANGED <<posted, menu_actions, dialog_open, waiting>> /\ DaemonUnchanged

\* do_grant, whether or not it succeeds, ends with a box.
DialogAccepted ==
  /\ UIRuns /\ loops # <<>> /\ Inner.what = "dialog"
  /\ dialog_open' = FALSE
  /\ \/ UNCHANGED <<storevars, events>>
     \/ \E n \in Node, write, lfs \in BOOLEAN :
          Run([op |-> "grant", path |-> Inner.cmd.path, node |-> n, write |-> write, lfs |-> lfs])
  /\ Replace("box", NoAction)
  /\ UNCHANGED <<posted, menu_actions, waiting, daemon, grants, watcher, sessions, closed>>

DialogCancelled ==
  /\ UIRuns /\ loops # <<>> /\ Inner.what = "dialog"
  /\ dialog_open' = FALSE
  /\ Leave
  /\ UNCHANGED <<posted, menu_actions, waiting>> /\ DaemonUnchanged

-----------------------------------------------------------------------------
(* The daemon's thread, which takes the status mutex as well.              *)

DaemonStarts ==
  /\ SpawnWatcher \/ (~StatusLocked /\ (LoadInitial \/ GoOnline))
  /\ UNCHANGED trayvars

TrayWatcherStep ==
  /\ WatcherStep
  /\ watcher.pc = "status" => ~StatusLocked
  /\ UNCHANGED trayvars

OthersEdit == (PorcelainEdit \/ OtherFileChanges \/ ReloadFails) /\ UNCHANGED trayvars

UserAnswers == Dismiss \/ BoxClosed \/ NotConfirmed \/ DialogCancelled

Handler ==
  \/ ShowMenu \/ ShowMenuWaits \/ ClickIgnored
  \/ CopyMyId \/ GrantAccess \/ NoSuchAction \/ Quit
  \/ \E i \in DOMAIN menu_actions : RunAction(i)

MenuIds == {ID_GRANT, ID_COPY, ID_QUIT} \cup {ID_DYN_BASE + i - 1 : i \in DOMAIN menu_actions}

Next ==
  \/ Click \/ Handler \/ UserAnswers \/ Confirmed \/ DialogAccepted
  \/ \E id \in MenuIds : Pick(id)
  \/ DaemonStarts \/ TrayWatcherStep \/ OthersEdit

Spec == Init /\ [][Next]_vars

\* Both threads run, and the user answers whatever is open.
Fairness ==
  WF_vars(Handler) /\ WF_vars(UserAnswers) /\ WF_vars(DaemonStarts) /\ WF_vars(TrayWatcherStep)

FairSpec == Spec /\ Fairness

-----------------------------------------------------------------------------
(* Properties *)

\* The status can be read at any time (lib.rs, run: "so a caller (e.g. the tray)
\* can read it at any time") and the watcher, which updates it between the
\* publication of a table and the sweep, always gets to the sweep.
StatusAvailable ==
  /\ waiting ~> ~waiting
  /\ watcher.pc = "status" ~> watcher.pc # "status"
=============================================================================
