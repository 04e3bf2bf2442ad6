-------------------------- MODULE Identity_proofs --------------------------
(***************************************************************************)
(* Proofs about Identity, for any processes and keys.                      *)
(***************************************************************************)
EXTENDS Identity, TLAPS

\* Processes that draw, open or write a key.
Writing == {"mint", "open", "write"}

\* While a key is settled nobody is on the way to write one: whoever looks finds
\* the file, and keygen --force unsettles it.
NobodyWrites == settled \in Key => \A p \in Proc : pc[p] \notin Writing

\* Who opens or writes the file has drawn a key.
WritersHaveKeys == \A p \in Proc : pc[p] \in {"open", "write"} => key[p] \in Key

IInv == TypeOK /\ WritersHaveKeys /\ SettledKeyStays /\ NobodyWrites

\* The invariant holds before the first process starts.
LEMMA InitInv == Init => IInv
BY IdentityAssumption
   DEF Init, IInv, TypeOK, WritersHaveKeys, SettledKeyStays, NobodyWrites, Writing, Step

\* Each step of a process keeps the types, and gives it a key before it writes.
LEMMA StepType ==
  ASSUME TypeOK, WritersHaveKeys, NEW p \in Proc, ProcessStep(p), Settle
  PROVE  TypeOK' /\ WritersHaveKeys'
<1>1. /\ keyfile' \in Key \cup {NoFile, Torn}
      /\ pc' \in [Proc -> Step]
      /\ forced' \in [Proc -> BOOLEAN]
      /\ key' \in [Proc -> Key \cup {NoKey}]
      /\ drawn' \subseteq Key
      /\ WritersHaveKeys'
  <2> USE DEF TypeOK, WritersHaveKeys, Step, Goto
  <2>1. CASE LoadOrCreate(p) \/ Keygen(p) \/ KeygenForce(p)
    BY <2>1 DEF LoadOrCreate, Keygen, KeygenForce, Start
  <2>2. CASE Probe(p) \/ Check(p)
    BY <2>2 DEF Probe, Check
  <2>3. CASE Read(p) \/ ReadTorn(p)
    BY <2>3 DEF Read, ReadTorn
  <2>4. CASE Mint(p)
    BY <2>4 DEF Mint
  <2>5. CASE Open(p)
    BY <2>5 DEF Open
  <2>6. CASE Write(p)
    BY <2>6 DEF Write
  <2>7. CASE Fail(p)
    BY <2>7 DEF Fail
  <2> QED BY <2>1, <2>2, <2>3, <2>4, <2>5, <2>6, <2>7 DEF ProcessStep
<1>2. settled' \in Key \cup {NoFile, Torn}
  BY <1>1 DEF Settle, TypeOK
<1> QED BY <1>1, <1>2 DEF TypeOK

\* With a key in the file and nobody writing, no process but keygen --force gets
\* to write, and the file stays.
LEMMA NobodyStartsToWrite ==
  ASSUME TypeOK, NEW p \in Proc, ProcessStep(p),
         keyfile \in Key, \A q \in Proc : pc[q] \notin Writing,
         ~(forced'[p] /\ pc'[p] # "idle")
  PROVE  keyfile' = keyfile /\ \A q \in Proc : pc'[q] \notin Writing
<1> USE IdentityAssumption DEF TypeOK, Writing, Goto
<1>1. CASE LoadOrCreate(p) \/ Keygen(p)
  BY <1>1 DEF LoadOrCreate, Keygen, Start
<1>2. CASE KeygenForce(p)
  BY <1>2 DEF KeygenForce, Start
<1>3. CASE Probe(p) \/ Check(p)
  BY <1>3 DEF Probe, Check
<1>4. CASE Read(p) \/ ReadTorn(p) \/ Fail(p)
  BY <1>4 DEF Read, ReadTorn, Fail
<1>5. CASE Mint(p) \/ Open(p) \/ Write(p)
  BY <1>5 DEF Mint, Open, Write
<1> QED BY <1>1, <1>2, <1>3, <1>4, <1>5 DEF ProcessStep

\* Every step keeps the invariant.
LEMMA NextInv == IInv /\ [Next]_vars => IInv'
<1> SUFFICES ASSUME IInv, [Next]_vars PROVE IInv'
  OBVIOUS
<1>1. CASE UNCHANGED vars
  BY <1>1 DEF IInv, TypeOK, WritersHaveKeys, SettledKeyStays, NobodyWrites, vars
<1>2. ASSUME NEW p \in Proc, ProcessStep(p), Settle PROVE IInv'
  <2>1. TypeOK' /\ WritersHaveKeys'
    BY <1>2, StepType DEF IInv
  <2>2. SettledKeyStays' /\ NobodyWrites'
    <3>1. CASE \A q \in Proc : pc'[q] = "idle"
      BY <1>2, <3>1 DEF Settle, SettledKeyStays, NobodyWrites, Writing
    <3>2. CASE /\ ~(\A q \in Proc : pc'[q] = "idle")
               /\ \E q \in Proc : pc'[q] # "idle" /\ forced'[q]
      BY <1>2, <3>2, IdentityAssumption DEF Settle, SettledKeyStays, NobodyWrites
    <3>3. CASE /\ ~(\A q \in Proc : pc'[q] = "idle")
               /\ ~(\E q \in Proc : pc'[q] # "idle" /\ forced'[q])
      <4>1. settled' = settled /\ ~(forced'[p] /\ pc'[p] # "idle")
        BY <1>2, <3>3 DEF Settle
      <4>2. CASE settled \notin Key
        BY <4>1, <4>2 DEF SettledKeyStays, NobodyWrites
      <4>3. CASE settled \in Key
        <5>1. keyfile = settled /\ \A q \in Proc : pc[q] \notin Writing
          BY <4>3 DEF IInv, SettledKeyStays, NobodyWrites
        <5>2. keyfile' = keyfile /\ \A q \in Proc : pc'[q] \notin Writing
          BY <1>2, <4>1, <4>3, <5>1, NobodyStartsToWrite DEF IInv
        <5> QED BY <4>1, <5>1, <5>2 DEF SettledKeyStays, NobodyWrites
      <4> QED BY <4>2, <4>3
    <3> QED BY <3>1, <3>2, <3>3
  <2> QED BY <2>1, <2>2 DEF IInv
<1> QED BY <1>1, <1>2 DEF Next

\* However many programs use the key file at once and wherever they die, a key
\* that was there before them stays unless keygen --force is among them.
THEOREM SettledKeyIsStable == Spec => [](TypeOK /\ SettledKeyStays)
<1>1. IInv => TypeOK /\ SettledKeyStays
  BY DEF IInv
<1> QED BY <1>1, InitInv, NextInv, PTL DEF Spec

\* Every variable keeps its type: the file is a key, missing or torn, and what a
\* process has in hand is a key or nothing.
THEOREM TypeCorrect == Spec => []TypeOK
<1>1. IInv => TypeOK
  BY DEF IInv
<1> QED BY <1>1, InitInv, NextInv, PTL DEF Spec
=============================================================================
