----------------------------- MODULE HookGuard -----------------------------
(***************************************************************************)
(* `git iroh guard-lfs-hook` (git-iroh/src/lfs_hook.rs): reads the clone's *)
(* pre-push hook and, if it runs git-lfs unguarded, stages a guarded copy  *)
(* beside it and renames that into place.  Several may run at once, and    *)
(* each may fail or be killed at any step.                                 *)
(*                                                                         *)
(* A name in the hooks directory refers to a file, which a process that    *)
(* has it open keeps writing to whatever becomes of the name.              *)
(***************************************************************************)
CONSTANTS
  Guard,     \* the commands; the file one creates, at most one, has its name
  Original,  \* the file the pre-push hook is at first
  NoFile     \* no file has the name, or none is open

VARIABLES
  hook,     \* the file called pre-push
  tmp,      \* the file called pre-push.iroh-guard.tmp
  content,  \* what each file holds; "Part" is less than was meant to be written
  mode,     \* whether each file is executable
  pc,       \* where each command is in `guard`
  open      \* the file each command has open for writing

vars == <<hook, tmp, content, mode, pc, open>>

File == Guard \cup {Original}

\* What `classify` makes of a content: a part of a hook does not run git-lfs.
classify(c) ==
  CASE c = "GitLfs" -> "UnguardedGitLfs" [] c = "Guarded" -> "GuardedGitLfs" [] OTHER -> "Other"

Init ==
  /\ hook = Original /\ tmp = NoFile
  /\ content \in [File -> {"GitLfs", "Guarded", "Foreign"}]
  /\ \A g \in Guard : content[g] = "Foreign"
  /\ mode = [f \in File |-> f = Original]
  /\ pc = [g \in Guard |-> "start"]
  /\ open = [g \in Guard |-> NoFile]

Goto(g, at) == pc' = [pc EXCEPT ![g] = at]

\* The hook, if there is one, is read and classified; only one that runs git-lfs
\* unguarded is touched.
Read(g) ==
  /\ pc[g] = "start"
  /\ Goto(g, IF classify(content[hook]) = "UnguardedGitLfs" THEN "create" ELSE "end")
  /\ UNCHANGED <<hook, tmp, content, mode, open>>

\* fs::write opens the staging file and empties it, creating it if it must ...
Create(g) ==
  /\ pc[g] = "create"
  /\ tmp' = IF tmp = NoFile THEN g ELSE tmp
  /\ content' = [content EXCEPT ![tmp'] = "Part"]
  /\ open' = [open EXCEPT ![g] = tmp']
  /\ Goto(g, "write")
  /\ UNCHANGED <<hook, mode>>

\* ... and fills the file it opened.
Write(g) ==
  /\ pc[g] = "write"
  /\ content' = [content EXCEPT ![open[g]] = "Guarded"]
  /\ Goto(g, "copy_mode")
  /\ UNCHANGED <<hook, tmp, mode, open>>

\* An error if the staging file is no longer there.
CopyMode(g) ==
  /\ pc[g] = "copy_mode"
  /\ IF tmp # NoFile
     THEN mode' = [mode EXCEPT ![tmp] = mode[hook]] /\ Goto(g, "rename")
     ELSE Goto(g, "end") /\ UNCHANGED mode
  /\ UNCHANGED <<hook, tmp, content, open>>

Rename(g) ==
  /\ pc[g] = "rename"
  /\ hook' = IF tmp # NoFile THEN tmp ELSE hook
  /\ tmp' = NoFile
  /\ Goto(g, "end")
  /\ UNCHANGED <<content, mode, open>>

\* The rename fails: the staging file, whoever's it is, is removed.
RenameFails(g) ==
  /\ pc[g] = "rename"
  /\ tmp' = NoFile
  /\ Goto(g, "end")
  /\ UNCHANGED <<hook, content, mode, open>>

\* Another step fails, or the command is interrupted: nothing is cleaned up.
Interrupted(g) ==
  /\ pc[g] # "end"
  /\ Goto(g, "end")
  /\ UNCHANGED <<hook, tmp, content, mode, open>>

Next ==
  \E g \in Guard :
    Read(g) \/ Create(g) \/ Write(g) \/ CopyMode(g) \/ Rename(g) \/ RenameFails(g) \/ Interrupted(g)

Spec == Init /\ [][Next]_vars

-----------------------------------------------------------------------------
(* Properties *)

\* Once every command has ended, well or not, the hook is a whole file that git
\* can execute (lfs_hook.rs, write_guarded: "an interrupted write can never
\* leave a half-written - and therefore broken - pre-push hook").
HookLeftWhole ==
  (\A g \in Guard : pc[g] = "end") => content[hook] # "Part" /\ mode[hook]
=============================================================================
