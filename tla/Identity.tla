------------------------------ MODULE Identity ------------------------------
(***************************************************************************)
(* The key file of one role (server.key or client.key) and the processes   *)
(* that load, create and regenerate it (iroh-git/src/identity.rs,          *)
(* git-iroh's keygen).  The two roles have a file each and share nothing.  *)
(***************************************************************************)

CONSTANTS
  Proc,      \* processes: the daemon, the helper, porcelain commands
  Key,       \* secret keys; a mint never draws one twice
  NoFile,    \* there is no key file
  Torn,      \* a key file that is not 32 bytes
  NoKey      \* a process has no key

ASSUME IdentityAssumption ==
  /\ NoFile \notin Key /\ Torn \notin Key /\ NoKey \notin Key
  /\ NoFile # Torn

VARIABLES
  keyfile,  \* the content of the key file
  pc,       \* where each process is
  forced,   \* whether it is keygen --force
  key,      \* the key it has read or drawn
  drawn,    \* the keys drawn so far
  settled   \* history: the content of the file the last time no process ran

vars == <<keyfile, pc, forced, key, drawn, settled>>

Step == {"idle", "probe", "check", "read", "mint", "open", "write"}

TypeOK ==
  /\ keyfile \in Key \cup {NoFile, Torn}
  /\ pc \in [Proc -> Step]
  /\ forced \in [Proc -> BOOLEAN]
  /\ key \in [Proc -> Key \cup {NoKey}]
  /\ drawn \subseteq Key
  /\ settled \in Key \cup {NoFile, Torn}

Init ==
  /\ keyfile = NoFile
  /\ pc = [p \in Proc |-> "idle"]
  /\ forced = [p \in Proc |-> FALSE]
  /\ key = [p \in Proc |-> NoKey]
  /\ drawn = {}
  /\ settled = NoFile

Goto(p, step) == pc' = [pc EXCEPT ![p] = step]

Start(p, step, force) ==
  /\ pc[p] = "idle"
  /\ Goto(p, step)
  /\ forced' = [forced EXCEPT ![p] = force]
  /\ key' = [key EXCEPT ![p] = NoKey]
  /\ UNCHANGED <<keyfile, drawn>>

\* Mutant of LoadOrCreate: a key is minted without a look at the file.
LoadByMinting(p) == Start(p, "mint", FALSE)

LoadOrCreate(p) == Start(p, "check", FALSE)

\* keygen creates what is missing; with --force it always generates.
Keygen(p) == Start(p, "probe", FALSE)
KeygenForce(p) == Start(p, "mint", TRUE)

\* keygen's own look at the file, before it loads or generates.
Probe(p) ==
  /\ pc[p] = "probe"
  /\ Goto(p, IF keyfile = NoFile THEN "mint" ELSE "check")
  /\ UNCHANGED <<keyfile, forced, key, drawn>>

\* load_or_create's path.exists().
Check(p) ==
  /\ pc[p] = "check"
  /\ Goto(p, IF keyfile = NoFile THEN "mint" ELSE "read")
  /\ UNCHANGED <<keyfile, forced, key, drawn>>

Read(p) ==
  /\ pc[p] = "read"
  /\ keyfile \in Key
  /\ key' = [key EXCEPT ![p] = keyfile]
  /\ Goto(p, "idle")
  /\ UNCHANGED <<keyfile, forced, drawn>>

\* The file is not 32 bytes: an error, whoever left it so.
ReadTorn(p) ==
  /\ pc[p] = "read"
  /\ keyfile = Torn
  /\ Goto(p, "idle")
  /\ UNCHANGED <<keyfile, forced, key, drawn>>

Mint(p) ==
  /\ pc[p] = "mint"
  /\ \E k \in Key \ drawn :
       /\ key' = [key EXCEPT ![p] = k]
       /\ drawn' = drawn \cup {k}
  /\ Goto(p, "open")
  /\ UNCHANGED <<keyfile, forced>>

\* write_secret creates or truncates the file ...
Open(p) ==
  /\ pc[p] = "open"
  /\ keyfile' = Torn
  /\ Goto(p, "write")
  /\ UNCHANGED <<forced, key, drawn>>

\* ... and writes the key into it.
Write(p) ==
  /\ pc[p] = "write"
  /\ keyfile' = key[p]
  /\ Goto(p, "idle")
  /\ UNCHANGED <<forced, key, drawn>>

\* The process dies, or the file cannot be opened or written.
Fail(p) ==
  /\ pc[p] # "idle"
  /\ Goto(p, "idle")
  /\ key' = [key EXCEPT ![p] = NoKey]
  /\ UNCHANGED <<keyfile, forced, drawn>>

ProcessStep(p) ==
  \/ LoadOrCreate(p) \/ Keygen(p) \/ KeygenForce(p)
  \/ Probe(p) \/ Check(p) \/ Read(p) \/ ReadTorn(p) \/ Mint(p)
  \/ Open(p) \/ Write(p) \/ Fail(p)

\* What the file holds is settled when all processes have ended, and it is
\* unsettled by keygen --force.
Settle ==
  settled' =
    IF \A p \in Proc : pc'[p] = "idle" THEN keyfile'
    ELSE IF \E p \in Proc : pc'[p] # "idle" /\ forced'[p] THEN NoFile
    ELSE settled

Next == (\E p \in Proc : ProcessStep(p)) /\ Settle

Spec == Init /\ [][Next]_vars

-----------------------------------------------------------------------------
(* Properties *)

\* "A machine keeps two stable keys" (identity.rs), and keygen without --force
\* only creates a missing key ("refusing to overwrite both keys implicitly",
\* git-iroh main.rs): a key that was there when the first of the processes now
\* running started is still there, whole, whatever they do and however many they
\* are, unless one of them is keygen --force.  (Processes that start before there
\* is a key may each mint one, and replace each other's.)
SettledKeyStays == settled \in Key => keyfile = settled
=============================================================================
