--------------------------- MODULE RunStore_proofs ---------------------------
(***************************************************************************)
(* Proofs about module RunStore for any number of processes, slugs and run *)
(* IDs: the variables keep their types, the store implements RunLog, the   *)
(* order in which a removal deletes its files leaves no history without an *)
(* owner, and pages of the history skip no record.                         *)
(***************************************************************************)
EXTENDS RunStore, Ordering_proofs

------------------------------------------------------------------------------
(* Type correctness.                                                       *)

LEMMA NoRegistration ==
    /\ NoReg \notin Registrations /\ Empty \notin Registrations /\ Garbled \notin Registrations
    /\ NoRun \notin Records
    /\ Seconds \subseteq Nat /\ MaxSecond \in Nat /\ NoSlug \notin Slugs
BY RunStoreAssumption DEF RunStoreAssumption, Registrations, Seconds, Records

(* Moving one process.                                                     *)
LEMMA GotoTyped ==
    ASSUME TypeOK, NEW p \in Procs, NEW from, NEW to \in States, Goto(p, from, to)
    PROVE  /\ pc' \in [Procs -> States] /\ pc[p] = from /\ pc'[p] = to
           /\ \A q \in Procs : q # p => pc'[q] = pc[q]
BY DEF TypeOK, Goto

LEMMA DoneTyped ==
    ASSUME TypeOK, NEW p \in Procs, NEW from, Done(p, from)
    PROVE  /\ pc' \in [Procs -> States] /\ pc[p] = from /\ pc'[p] = "idle"
           /\ \A q \in Procs : q # p => /\ pc'[q] = pc[q] /\ slug'[q] = slug[q]
                                        /\ reg'[q] = reg[q] /\ run'[q] = run[q]
           /\ slug' \in [Procs -> Slugs \cup {NoSlug}] /\ slug'[p] = NoSlug
           /\ reg' \in [Procs -> Registrations \cup {NoReg}]
           /\ run' \in [Procs -> Records \cup {NoRun}] /\ run'[p] = NoRun
           /\ linked' = linked \ {p} /\ stale' = stale \ {p}
<1>1. Goto(p, from, "idle") /\ "idle" \in States
  BY DEF Done, States
<1>2. QED
  BY <1>1, GotoTyped DEF Done, TypeOK

(* The part of TypeOK about the processes.                                 *)
ProcsOK ==
    /\ pc \in [Procs -> States]
    /\ slug \in [Procs -> Slugs \cup {NoSlug}]
    /\ \A p \in Procs : slug[p] = NoSlug => pc[p] \in Global
    /\ reg \in [Procs -> Registrations \cup {NoReg}]
    /\ \A p \in Procs : pc[p] \in {"adding", "updating", "writingReg"} => reg[p] # NoReg
    /\ run \in [Procs -> Records \cup {NoRun}]
    /\ \A p \in Procs : run[p] = NoRun <=> pc[p] \notin {"running", "recording", "writingRun"}
    /\ linked \subseteq Procs
    /\ stale \subseteq Procs

(* The part about the disk, the clock and the run IDs.                     *)
DiskOK ==
    /\ second \in Seconds
    /\ used \subseteq RunIDs
    /\ regDir \in BOOLEAN
    /\ regs \in [Slugs -> Contents]
    /\ dirs \subseteq Slugs
    /\ history \in [Slugs -> SUBSET Records]
    /\ spared \subseteq RunIDs
    /\ \A s \in Slugs : s \notin dirs => history[s] = {}

(* What TypeOK needs to be inductive: a run file that is open, and has not *)
(* been unlinked, is in its directory, which therefore is not removed.     *)
OpenLinked == \A p \in Procs : pc[p] = "writingRun" /\ p \in linked => run[p] \in history[slug[p]]

LEMMA TypeParts == TypeOK <=> ProcsOK /\ DiskOK
BY DEF TypeOK, ProcsOK, DiskOK

LEMMA TypeInit == Init => TypeOK
BY NoRegistration, RunStoreAssumption DEF RunStoreAssumption, Init, TypeOK, States, Contents, Seconds, Global

(* A done operation leaves the processes in their types.                   *)
LEMMA DoneProcsOK ==
    ASSUME TypeOK, NEW p \in Procs, NEW from, Done(p, from)
    PROVE  ProcsOK'
BY DoneTyped DEF TypeOK, ProcsOK, Global

LEMMA RegisterTyped == ASSUME TypeOK, NEW p \in Procs, Register(p) PROVE TypeOK'
<1>1. ASSUME NEW s \in Slugs, NEW path \in Paths, Add(p, s, path) PROVE TypeOK'
  <2>1. Goto(p, "idle", "adding") /\ "adding" \in States
    BY <1>1 DEF Add, States
  <2>2. [path |-> path, at |-> second] \in Registrations
    BY DEF TypeOK, Registrations
  <2>3. ProcsOK'
    BY <1>1, <2>1, <2>2, GotoTyped, NoRegistration DEF Add, TypeOK, ProcsOK, Global
  <2>4. DiskOK'
    BY <1>1 DEF Add, TypeOK, DiskOK, registry, runs
  <2>5. QED
    BY <2>3, <2>4, TypeParts DEF TypeOK, ProcsOK, DiskOK
<1>2. ASSUME NEW s \in Slugs, NEW path \in Paths, Update(p, s, path) PROVE TypeOK'
  <2>1. Goto(p, "idle", "updating") /\ "updating" \in States
    BY <1>2 DEF Update, States
  <2>2. [path |-> path, at |-> regs[s].at] \in Registrations
    BY <1>2 DEF Update, Readable, Registrations
  <2>3. ProcsOK'
    BY <1>2, <2>1, <2>2, GotoTyped, NoRegistration DEF Update, TypeOK, ProcsOK, Global
  <2>4. DiskOK'
    BY <1>2 DEF Update, TypeOK, DiskOK, registry, runs
  <2>5. QED
    BY <2>3, <2>4 DEF TypeOK, ProcsOK, DiskOK
<1>3. ASSUME TruncateReg(p) PROVE TypeOK'
  <2>1. PICK from \in {"adding", "updating"} : Goto(p, from, "writingReg")
    BY <1>3 DEF TruncateReg
  <2>2. "writingReg" \in States
    BY DEF States
  <2>3. ProcsOK'
    BY <1>3, <2>1, <2>2, GotoTyped DEF TruncateReg, TypeOK, ProcsOK, Global
  <2>4. DiskOK'
    BY <1>3 DEF TruncateReg, TypeOK, DiskOK, runs, Contents
  <2>5. QED
    BY <2>3, <2>4 DEF TypeOK, ProcsOK, DiskOK
<1>4. ASSUME FailReg(p) PROVE TypeOK'
  <2>1. ProcsOK'
    BY <1>4, DoneProcsOK DEF FailReg
  <2>2. DiskOK'
    BY <1>4 DEF FailReg, TypeOK, DiskOK, registry, runs
  <2>3. QED
    BY <2>1, <2>2 DEF TypeOK, ProcsOK, DiskOK
<1>5. ASSUME WriteReg(p) PROVE TypeOK'
  <2>1. Done(p, "writingReg")
    BY <1>5 DEF WriteReg
  <2>2. ProcsOK'
    BY <2>1, DoneProcsOK
  <2>3. pc[p] = "writingReg" /\ reg[p] \in Registrations
    BY <2>1, DoneTyped DEF TypeOK
  <2>4. Overwrite(regs[slug[p]], reg[p]) \in Contents
    BY <2>3 DEF Overwrite, Contents
  <2>5. regs' \in [Slugs -> Contents]
    BY <1>5, <2>4 DEF WriteReg, TypeOK
  <2>6. DiskOK'
    BY <1>5, <2>5 DEF WriteReg, TypeOK, DiskOK, runs
  <2>7. QED
    BY <2>2, <2>6 DEF TypeOK, ProcsOK, DiskOK
<1>6. QED
  BY <1>1, <1>2, <1>3, <1>4, <1>5 DEF Register

(* The states of a process that deletes, and of one that has not begun.    *)
Removers == Global \cup {"removing"}

(* What a deletion does to the processes ...                               *)
LEMMA DeleteProcs ==
    ASSUME TypeOK, NEW p \in Procs, Delete(p)
    PROVE  /\ pc' \in [Procs -> States] /\ pc[p] \in Removers /\ pc'[p] \in Removers
           /\ slug' \in [Procs -> Slugs \cup {NoSlug}] /\ (slug'[p] = NoSlug => pc'[p] \in Global)
           /\ \A q \in Procs : q # p => pc'[q] = pc[q] /\ slug'[q] = slug[q]
           /\ UNCHANGED <<second, used, reg, run>>
<1> USE DEF TypeOK, Goto, Removers, Global, States
<1>1. CASE Rm(p)
  <2>1. CASE \E s \in Slugs : RemoveReg(p, s)
    BY <2>1, NoRegistration DEF RemoveReg
  <2>2. CASE RemoveRuns(p) \/ KeepRuns(p)
    BY <2>2 DEF RemoveRuns, KeepRuns, Return
  <2>3. QED
    BY <1>1, <2>1, <2>2 DEF Rm
<1>2. CASE Wipe(p)
  BY <1>2 DEF Wipe, PurgeAll, WipeReg, WipedRegs, RemakeRegDir, WipedRuns, FailPurgeAll, Return
<1>3. CASE \/ \E s \in Slugs \cup {NoSlug} : Purge(p, s)
           \/ PurgeRuns(p) \/ FailPurge(p) \/ RemakeRunDir(p)
  BY <1>3 DEF Purge, PurgeRuns, FailPurge, RemakeRunDir, Return
<1>4. CASE \E s \in Slugs : UnlinkRun(p, s) \/ RemoveDir(p, s)
  BY <1>4 DEF UnlinkRun, RemoveDir, Deletes
<1>5. QED
  BY <1>1, <1>2, <1>3, <1>4 DEF Delete

(* ... to the registrations and who holds or writes them ...               *)
LEMMA DeleteRegs ==
    ASSUME TypeOK, NEW p \in Procs, Delete(p)
    PROVE  /\ linked' \subseteq linked /\ stale \subseteq stale' /\ stale' \subseteq Procs
           /\ regDir' \in BOOLEAN /\ regs' \in [Slugs -> Contents]
           /\ \/ UNCHANGED <<regs, stale>> /\ \A q \in linked : pc[q] # "writingRun" => q \in linked'
              \/ \E s \in Slugs : UnlinkReg(s)
<1> USE DEF TypeOK
<1>1. ASSUME NEW s \in Slugs, UnlinkReg(s)
      PROVE  /\ linked' \subseteq linked /\ stale \subseteq stale' /\ stale' \subseteq Procs
             /\ regs' \in [Slugs -> Contents]
  BY <1>1 DEF UnlinkReg, Contents
<1>2. CASE (\E s \in Slugs : RemoveReg(p, s)) \/ (\E s \in Slugs : WipeReg(p, s))
  BY <1>1, <1>2 DEF RemoveReg, WipeReg
<1>3. CASE Wipe(p) /\ ~\E s \in Slugs : WipeReg(p, s)
  BY <1>3 DEF Wipe, PurgeAll, WipedRegs, RemakeRegDir, WipedRuns, FailPurgeAll, registry
<1>4. CASE RemoveRuns(p) \/ KeepRuns(p)
  BY <1>4 DEF RemoveRuns, KeepRuns, registry
<1>5. CASE \/ \E s \in Slugs \cup {NoSlug} : Purge(p, s)
           \/ PurgeRuns(p) \/ FailPurge(p) \/ RemakeRunDir(p)
  BY <1>5 DEF Purge, PurgeRuns, FailPurge, RemakeRunDir, registry
<1>6. CASE \E s \in Slugs : UnlinkRun(p, s) \/ RemoveDir(p, s)
  BY <1>6 DEF UnlinkRun, RemoveDir, registry
<1>7. QED
  BY <1>2, <1>3, <1>4, <1>5, <1>6 DEF Delete, Rm, Wipe

(* ... and to the histories: one file goes, or none.                       *)
Unlinks(p, s, r) ==
    /\ Deletes(p, s)
    /\ r \in history[s]
    /\ history' = [history EXCEPT ![s] = @ \ {r}]
    /\ linked' = linked \ {q \in Procs : pc[q] = "writingRun" /\ slug[q] = s /\ run[q] = r}
    /\ UNCHANGED <<registry, pc, slug, spared>>

LEMMA DeleteRuns ==
    ASSUME TypeOK, NEW p \in Procs, Delete(p)
    PROVE  /\ dirs' \subseteq Slugs /\ spared' \subseteq RunIDs /\ history' \in [Slugs -> SUBSET Records]
           /\ \A s \in Slugs : s \notin dirs' => history'[s] = {}
           /\ \/ UNCHANGED history
              \/ \E s \in Slugs : \E r \in history[s] : Unlinks(p, s, r)
<1> USE DEF TypeOK
<1>1. ASSUME RemovedRuns(p) PROVE \A s \in Slugs : s \notin dirs' => history[s] = {}
  BY <1>1, NoRegistration DEF RemovedRuns, Emptied
<1>2. ASSUME NEW S \in SUBSET Slugs, Spare(S) PROVE spared' \subseteq RunIDs
  BY <1>2 DEF Spare, Records
<1>3. CASE RemoveRuns(p) \/ PurgeRuns(p) \/ WipedRuns(p)
  <2>1. RemovedRuns(p) /\ UNCHANGED <<history, spared>>
    BY <1>3 DEF RemoveRuns, PurgeRuns, WipedRuns
  <2>2. dirs' \subseteq Slugs
    BY <2>1 DEF RemovedRuns
  <2>3. QED
    BY <1>1, <2>1, <2>2
<1>4. CASE KeepRuns(p) \/ FailPurgeAll(p)
  <2>1. UNCHANGED <<history, dirs>> /\ \E S \in SUBSET (Slugs \cup {NoSlug}) : Spare(S)
    BY <1>4 DEF KeepRuns, FailPurgeAll, runs
  <2>2. slug[p] \in Slugs \/ FailPurgeAll(p)
    BY <1>4 DEF KeepRuns, Return, Goto, Global
  <2>3. \E S \in SUBSET Slugs : Spare(S)
    BY <1>4, <2>2 DEF KeepRuns, FailPurgeAll
  <2>4. QED
    BY <1>2, <2>1, <2>3
<1>5. CASE \E s \in Slugs : UnlinkRun(p, s)
  <2>1. PICK s \in Slugs : UnlinkRun(p, s)
    BY <1>5
  <2>2. PICK r \in history[s] : Unlinks(p, s, r)
    BY <2>1 DEF UnlinkRun, Unlinks
  <2>3. history' \in [Slugs -> SUBSET Records] /\ \A t \in Slugs : history'[t] \subseteq history[t]
    BY <2>2 DEF Unlinks
  <2>4. UNCHANGED <<dirs, spared>>
    BY <2>1 DEF UnlinkRun
  <2>5. QED
    BY <2>2, <2>3, <2>4
<1>6. CASE \E s \in Slugs : RemoveDir(p, s)
  BY <1>6 DEF RemoveDir
<1>7. CASE RemakeRunDir(p)
  BY <1>7 DEF RemakeRunDir
<1>8. CASE \/ \E s \in Slugs \cup {NoSlug} : Purge(p, s)
           \/ FailPurge(p) \/ PurgeAll(p) \/ WipedRegs(p) \/ RemakeRegDir(p)
           \/ \E s \in Slugs : WipeReg(p, s) \/ RemoveReg(p, s)
  BY <1>8 DEF Purge, FailPurge, PurgeAll, WipedRegs, RemakeRegDir, WipeReg, RemoveReg, runs
<1>9. QED
  BY <1>3, <1>4, <1>5, <1>6, <1>7, <1>8 DEF Delete, Rm, Wipe

LEMMA FewerFiles ==
    ASSUME TypeOK, NEW p \in Procs, Delete(p), NEW s \in Slugs
    PROVE  history'[s] \subseteq history[s]
<1>1. CASE UNCHANGED history
  BY <1>1
<1>2. ASSUME NEW t \in Slugs, NEW r \in history[t], Unlinks(p, t, r) PROVE history'[s] \subseteq history[s]
  BY <1>2 DEF Unlinks, TypeOK
<1>3. QED
  BY <1>1, <1>2, DeleteRuns

LEMMA DeleteTyped == ASSUME TypeOK, NEW p \in Procs, Delete(p) PROVE TypeOK'
<1>1. ProcsOK'
  <2>1. pc[p] \in Removers /\ pc'[p] \in Removers
    BY DeleteProcs
  <2>2. \A q \in Procs : slug'[q] = NoSlug => pc'[q] \in Global
    BY DeleteProcs DEF TypeOK
  <2>3. /\ pc' \in [Procs -> States] /\ slug' \in [Procs -> Slugs \cup {NoSlug}]
        /\ linked' \subseteq Procs /\ stale' \subseteq Procs /\ UNCHANGED <<reg, run>>
        /\ \A q \in Procs : q # p => pc'[q] = pc[q]
    BY DeleteProcs, DeleteRegs DEF TypeOK
  <2>4. QED
    BY <2>1, <2>2, <2>3 DEF TypeOK, ProcsOK, Removers, Global
<1>2. DiskOK'
  <2>1. UNCHANGED <<second, used>>
    BY DeleteProcs
  <2>2. regDir' \in BOOLEAN /\ regs' \in [Slugs -> Contents]
    BY DeleteRegs
  <2>3. /\ dirs' \subseteq Slugs /\ spared' \subseteq RunIDs /\ history' \in [Slugs -> SUBSET Records]
        /\ \A s \in Slugs : s \notin dirs' => history'[s] = {}
    BY DeleteRuns
  <2>4. QED
    BY <2>1, <2>2, <2>3 DEF TypeOK, DiskOK
<1>3. QED
  BY <1>1, <1>2 DEF TypeOK, ProcsOK, DiskOK

(* The fields of a run file that an operation sets.                        *)
LEMMA FieldsTyped ==
    ASSUME NEW r \in Records, NEW b \in BOOLEAN
    PROVE  /\ [r EXCEPT !.orphan = b] \in Records /\ [r EXCEPT !.orphan = b].orphan = b
           /\ [r EXCEPT !.complete = b] \in Records /\ [r EXCEPT !.complete = b].orphan = r.orphan
BY DEF Records

LEMMA RecordTyped == ASSUME TypeOK, OpenLinked, NEW p \in Procs, Record(p) PROVE TypeOK'
<1>1. {"ready", "running", "recording", "writingRun"} \subseteq States
  BY DEF States
<1>2. ASSUME NEW s \in Slugs, Get(p, s) PROVE TypeOK'
  <2>1. regs[s] \in Registrations
    BY <1>2 DEF Get, Readable
  <2>2. ProcsOK'
    BY <1>1, <1>2, <2>1, GotoTyped, NoRegistration DEF Get, TypeOK, ProcsOK, Global
  <2>3. DiskOK'
    BY <1>2 DEF Get, TypeOK, DiskOK, registry, runs
  <2>4. QED
    BY <2>2, <2>3 DEF TypeOK, ProcsOK, DiskOK
<1>3. ASSUME Leave(p) PROVE TypeOK'
  <2>1. ProcsOK'
    BY <1>3, DoneProcsOK DEF Leave
  <2>2. DiskOK'
    BY <1>3 DEF Leave, TypeOK, DiskOK, registry, runs
  <2>3. QED
    BY <2>1, <2>2 DEF TypeOK, ProcsOK, DiskOK
<1>4. ASSUME StartRun(p) PROVE TypeOK'
  <2>1. Cardinality(used) \in Nat
    BY RunStoreAssumption, FS_Subset, FS_CardinalityType DEF RunStoreAssumption, TypeOK
  <2>2. PICK id \in RunIDs \ used :
          /\ used' = used \cup {id}
          /\ run' = [run EXCEPT ![p] = [id |-> id, second |-> second, order |-> Cardinality(used),
                                        complete |-> FALSE, orphan |-> FALSE]]
    BY <1>4 DEF StartRun
  <2>3. [id |-> id, second |-> second, order |-> Cardinality(used),
         complete |-> FALSE, orphan |-> FALSE] \in Records
    BY <2>1, <2>2 DEF Records, TypeOK
  <2>4. ProcsOK'
    <3> DEFINE r == [id |-> id, second |-> second, order |-> Cardinality(used),
                     complete |-> FALSE, orphan |-> FALSE]
    <3>1. r \in Records /\ r # NoRun /\ run' = [run EXCEPT ![p] = r]
      BY <2>2, <2>3, NoRegistration
    <3> HIDE DEF r
    <3>2. Goto(p, "ready", "running") /\ UNCHANGED <<slug, reg, linked, stale>>
      BY <1>4 DEF StartRun
    <3>3. QED
      BY <1>1, <3>1, <3>2, GotoTyped DEF TypeOK, ProcsOK, Global
  <2>5. DiskOK'
    BY <1>4, <2>2 DEF StartRun, TypeOK, DiskOK, registry, runs
  <2>6. QED
    BY <2>4, <2>5 DEF TypeOK, ProcsOK, DiskOK
<1>5. ASSUME MakeRunDir(p) PROVE TypeOK'
  <2>1. pc[p] = "running" /\ slug[p] \in Slugs
    BY <1>5, <1>1, GotoTyped DEF MakeRunDir, TypeOK, Global
  <2>2. ProcsOK'
    BY <1>1, <1>5, GotoTyped DEF MakeRunDir, TypeOK, ProcsOK, Global
  <2>3. DiskOK'
    BY <1>5, <2>1 DEF MakeRunDir, TypeOK, DiskOK, registry
  <2>4. QED
    BY <2>2, <2>3 DEF TypeOK, ProcsOK, DiskOK
<1>6. ASSUME CreateRunFile(p) PROVE TypeOK'
  <2>1. pc[p] = "recording" /\ slug[p] \in Slugs /\ run[p] \in Records
    BY <1>6, <1>1, GotoTyped DEF CreateRunFile, TypeOK
  <2>2. [run[p] EXCEPT !.orphan = p \in stale] \in Records
    <3>1. (p \in stale) \in BOOLEAN
      OBVIOUS
    <3>2. QED
      BY <2>1, <3>1, FieldsTyped, Zenon
  <2>3. run' = [run EXCEPT ![p] = [run[p] EXCEPT !.orphan = p \in stale]]
    BY <1>6 DEF CreateRunFile
  <2>4. run'[p] \in Records
    BY <2>2, <2>3 DEF TypeOK
  <2>5. ProcsOK'
    BY <1>1, <1>6, <2>1, <2>2, <2>3, NoRegistration, GotoTyped DEF CreateRunFile, TypeOK, ProcsOK, Global
  <2>6. history' = [history EXCEPT ![slug[p]] =
                      {r \in history[slug[p]] : FileName(r) # FileName(run[p])} \cup {run'[p]}]
    BY <1>6 DEF CreateRunFile
  <2>7. DiskOK'
    BY <1>6, <2>1, <2>4, <2>6 DEF CreateRunFile, TypeOK, DiskOK, registry
  <2>8. QED
    BY <2>5, <2>7 DEF TypeOK, ProcsOK, DiskOK
<1>7. ASSUME LoseRun(p) PROVE TypeOK'
  <2>1. ProcsOK'
    BY <1>1, <1>7, GotoTyped DEF LoseRun, TypeOK, ProcsOK, Global
  <2>2. DiskOK'
    BY <1>7 DEF LoseRun, TypeOK, DiskOK, registry, runs
  <2>3. QED
    BY <2>1, <2>2 DEF TypeOK, ProcsOK, DiskOK
<1>8. ASSUME WriteRunFile(p) PROVE TypeOK'
  <2>1. pc[p] = "writingRun" /\ slug[p] \in Slugs /\ run[p] \in Records
    BY <1>8, <1>1, GotoTyped DEF WriteRunFile, TypeOK, Global
  <2>2. [run[p] EXCEPT !.complete = TRUE] \in Records
    BY <2>1 DEF Records
  <2>3. ProcsOK'
    BY <1>1, <1>8, GotoTyped DEF WriteRunFile, TypeOK, ProcsOK, Global
  <2>4. p \in linked => slug[p] \in dirs
    BY <2>1 DEF OpenLinked, TypeOK
  <2>5. DiskOK'
    BY <1>8, <2>1, <2>2, <2>4 DEF WriteRunFile, TypeOK, DiskOK, registry
  <2>6. QED
    BY <2>3, <2>5 DEF TypeOK, ProcsOK, DiskOK
<1>9. QED
  BY <1>2, <1>3, <1>4, <1>5, <1>6, <1>7, <1>8 DEF Record

LEMMA TypeStep == TypeOK /\ OpenLinked /\ [Next]_vars => TypeOK'
<1> SUFFICES ASSUME TypeOK, OpenLinked, [Next]_vars PROVE TypeOK'
  OBVIOUS
<1>1. CASE ClockTick
  <2>1. second' \in Seconds
    BY <1>1, NoRegistration DEF ClockTick, TypeOK, Seconds
  <2>2. QED
    BY <1>1, <2>1 DEF ClockTick, TypeOK, registry, runs
<1>2. CASE OpenStore
  BY <1>2 DEF OpenStore, TypeOK, runs
<1>3. CASE UNCHANGED vars
  BY <1>3 DEF vars, TypeOK, registry, runs
<1>4. QED
  BY <1>1, <1>2, <1>3, RegisterTyped, DeleteTyped, RecordTyped DEF Next

------------------------------------------------------------------------------
(* The files of runs.                                                      *)

(* Why no run overwrites another: the ID of a run that is being executed   *)
(* has been drawn, and is that of no file but its own open one.            *)
OwnFile ==
    /\ \A s \in Slugs : \A r \in history[s] : r.id \in used
    /\ \A p \in Procs : pc[p] \in {"running", "recording", "writingRun"} =>
          /\ run[p].id \in used /\ ~run[p].complete
          /\ \A q \in Procs : q # p /\ pc[q] \in {"running", "recording", "writingRun"} =>
                run[q].id # run[p].id
          /\ pc[p] # "writingRun" => \A s \in Slugs : \A r \in history[s] : r.id # run[p].id

LEMMA OwnFileStep == TypeOK /\ TypeOK' /\ OwnFile /\ [Next]_vars => OwnFile'
<1> SUFFICES ASSUME TypeOK, TypeOK', OwnFile, [Next]_vars PROVE OwnFile'
  OBVIOUS
<1> DEFINE Executing == {"running", "recording", "writingRun"}
<1>1. ASSUME NEW p \in Procs, StartRun(p) PROVE OwnFile'
  <2>1. PICK id \in RunIDs \ used :
          /\ used' = used \cup {id}
          /\ run' = [run EXCEPT ![p] = [id |-> id, second |-> second, order |-> Cardinality(used),
                                        complete |-> FALSE, orphan |-> FALSE]]
    BY <1>1 DEF StartRun
  <2>2. /\ run'[p].id = id /\ ~run'[p].complete
        /\ \A q \in Procs : q # p => run'[q] = run[q] /\ pc'[q] = pc[q]
        /\ pc[p] = "ready" /\ pc'[p] = "running" /\ UNCHANGED history
    BY <1>1, <2>1 DEF StartRun, Goto, runs, TypeOK
  <2>3. QED
    BY <2>1, <2>2 DEF OwnFile
<1>2. ASSUME NEW p \in Procs, CreateRunFile(p) PROVE OwnFile'
  <2>1. /\ pc[p] = "recording" /\ pc'[p] = "writingRun" /\ slug[p] \in Slugs /\ run[p] \in Records
        /\ \A q \in Procs : q # p => run'[q] = run[q] /\ pc'[q] = pc[q]
        /\ UNCHANGED used
    BY <1>2 DEF CreateRunFile, Goto, TypeOK
  <2>2. run' = [run EXCEPT ![p] = [run[p] EXCEPT !.orphan = p \in stale]]
    BY <1>2 DEF CreateRunFile
  <2>3. run'[p].id = run[p].id /\ run'[p].complete = run[p].complete
    BY <2>1, <2>2 DEF TypeOK, Records
  <2>4. history' = [history EXCEPT ![slug[p]] =
                      {r \in history[slug[p]] : FileName(r) # FileName(run[p])} \cup {run'[p]}]
    BY <1>2 DEF CreateRunFile
  <2>5. \A s \in Slugs : \A r \in history'[s] : r \in history[s] \/ r = run'[p]
    BY <2>1, <2>4 DEF TypeOK
  <2>6. QED
    BY <2>1, <2>3, <2>5 DEF OwnFile
<1>3. ASSUME NEW p \in Procs, WriteRunFile(p) PROVE OwnFile'
  <2> DEFINE r1 == [run[p] EXCEPT !.complete = TRUE]
  <2>1. /\ pc[p] = "writingRun" /\ pc'[p] = "ready" /\ slug[p] \in Slugs /\ run[p] \in Records
        /\ \A q \in Procs : q # p => run'[q] = run[q] /\ pc'[q] = pc[q]
        /\ UNCHANGED used
    BY <1>3 DEF WriteRunFile, Goto, TypeOK, Global
  <2>2. r1.id = run[p].id
    BY <2>1 DEF Records
  <2>3. history' = history \/ history' = [history EXCEPT ![slug[p]] = (@ \ {run[p]}) \cup {r1}]
    BY <1>3 DEF WriteRunFile
  <2> HIDE DEF r1
  <2>4. \A s \in Slugs : \A r \in history'[s] : r \in history[s] \/ r = r1
    BY <2>1, <2>3 DEF TypeOK
  <2>5. QED
    BY <2>1, <2>2, <2>4 DEF OwnFile
<1>4. ASSUME NEW p \in Procs,
             (\E s \in Slugs : Get(p, s)) \/ Leave(p) \/ MakeRunDir(p) \/ LoseRun(p)
             \/ Register(p) \/ Delete(p)
      PROVE  OwnFile'
  <2>1. /\ \A q \in Procs : q # p => run'[q] = run[q] /\ pc'[q] = pc[q]
        /\ pc'[p] \in Executing => pc[p] = "running" /\ pc'[p] = "recording" /\ run'[p] = run[p]
    <3>1. CASE (\E s \in Slugs : Get(p, s)) \/ Leave(p) \/ MakeRunDir(p) \/ LoseRun(p)
      BY <3>1 DEF Get, Leave, MakeRunDir, LoseRun, Done, Goto, TypeOK
    <3>2. CASE Register(p)
      BY <3>2 DEF Register, Add, Update, TruncateReg, FailReg, WriteReg, Done, Goto, TypeOK
    <3>3. CASE Delete(p)
      BY <3>3, DeleteProcs DEF Removers, Global
    <3>4. QED
      BY <1>4, <3>1, <3>2, <3>3
  <2>2. UNCHANGED used /\ \A s \in Slugs : history'[s] \subseteq history[s]
    <3>1. CASE Delete(p)
      BY <3>1, DeleteProcs, FewerFiles
    <3>2. CASE ~Delete(p)
      BY <1>4, <3>2
      DEF Get, Leave, MakeRunDir, LoseRun, Done, Register, Add, Update, TruncateReg, FailReg, WriteReg, runs
    <3>3. QED
      BY <3>1, <3>2
  <2>3. QED
    BY <2>1, <2>2 DEF OwnFile
<1>5. CASE ClockTick \/ OpenStore \/ UNCHANGED vars
  <2>1. UNCHANGED <<used, history, pc, run>>
    BY <1>5 DEF ClockTick, OpenStore, vars, runs
  <2>2. QED
    BY <2>1 DEF OwnFile
<1>6. QED
  BY <1>1, <1>2, <1>3, <1>4, <1>5 DEF Next, Record

(* What makes the order of the names total: no two files of a directory    *)
(* are of the same run, and an open one is its writer's.                   *)
OneFileEach ==
    /\ \A s \in Slugs : \A r, q \in history[s] : r.id = q.id => r = q
    /\ \A p \in Procs : pc[p] = "writingRun" =>
          \A s \in Slugs : \A r \in history[s] : r.id = run[p].id => r = run[p]

LEMMA OneFileStep ==
    TypeOK /\ TypeOK' /\ OwnFile /\ OwnFile' /\ OneFileEach /\ [Next]_vars => OneFileEach'
<1> SUFFICES ASSUME TypeOK, TypeOK', OwnFile, OwnFile', OneFileEach, [Next]_vars PROVE OneFileEach'
  OBVIOUS
<1>1. ASSUME NEW p \in Procs, CreateRunFile(p) PROVE OneFileEach'
  <2>1. /\ pc[p] = "recording" /\ pc'[p] = "writingRun" /\ slug[p] \in Slugs /\ run[p] \in Records
        /\ \A q \in Procs : q # p => run'[q] = run[q] /\ pc'[q] = pc[q]
        /\ run' = [run EXCEPT ![p] = [run[p] EXCEPT !.orphan = p \in stale]]
    BY <1>1 DEF CreateRunFile, Goto, TypeOK
  <2>2. run'[p].id = run[p].id
    BY <2>1 DEF TypeOK, Records
  <2>3. history' = [history EXCEPT ![slug[p]] =
                      {r \in history[slug[p]] : FileName(r) # FileName(run[p])} \cup {run'[p]}]
    BY <1>1 DEF CreateRunFile
  <2>4. \A s \in Slugs : \A r \in history'[s] : r \in history[s] \/ r = run'[p]
    BY <2>1, <2>3 DEF TypeOK
  <2>5. \A s \in Slugs : \A r \in history[s] : r.id # run'[p].id
    BY <2>1, <2>2 DEF OwnFile
  <2>6. ASSUME NEW q \in Procs, pc'[q] = "writingRun", q # p PROVE run'[q].id # run'[p].id
    BY <2>1, <2>6 DEF OwnFile
  <2>7. ASSUME NEW s \in Slugs, NEW r \in history'[s], NEW q \in history'[s], r.id = q.id PROVE r = q
    BY <2>4, <2>5, <2>7 DEF OneFileEach
  <2>8. ASSUME NEW q \in Procs, pc'[q] = "writingRun", NEW s \in Slugs, NEW r \in history'[s],
               r.id = run'[q].id
        PROVE  r = run'[q]
    <3>1. CASE q = p
      BY <2>4, <2>5, <2>8, <3>1
    <3>2. CASE q # p
      <4>1. r \in history[s] /\ run'[q] = run[q] /\ pc[q] = "writingRun"
        BY <2>1, <2>4, <2>6, <2>8, <3>2
      <4>2. QED
        BY <2>8, <4>1 DEF OneFileEach
    <3>3. QED
      BY <3>1, <3>2
  <2>9. QED
    BY <2>7, <2>8 DEF OneFileEach
<1>2. ASSUME NEW p \in Procs, WriteRunFile(p) PROVE OneFileEach'
  <2> DEFINE r1 == [run[p] EXCEPT !.complete = TRUE]
  <2>1. /\ pc[p] = "writingRun" /\ pc'[p] = "ready" /\ slug[p] \in Slugs /\ run[p] \in Records
        /\ \A q \in Procs : q # p => run'[q] = run[q] /\ pc'[q] = pc[q]
    BY <1>2 DEF WriteRunFile, Goto, TypeOK, Global
  <2>2. r1.id = run[p].id
    BY <2>1 DEF Records
  <2>3. history' = history \/ history' = [history EXCEPT ![slug[p]] = (@ \ {run[p]}) \cup {r1}]
    BY <1>2 DEF WriteRunFile
  <2> HIDE DEF r1
  <2>4. CASE history' = history
    BY <2>1, <2>4 DEF OneFileEach
  <2>5. CASE history' = [history EXCEPT ![slug[p]] = (@ \ {run[p]}) \cup {r1}]
    <3>1. \A s \in Slugs : \A r \in history'[s] :
            (r \in history[s] /\ (s = slug[p] => r # run[p])) \/ (s = slug[p] /\ r = r1)
      BY <2>1, <2>5 DEF TypeOK
    <3>2. \A r \in history[slug[p]] : r # run[p] => r.id # r1.id
      BY <2>1, <2>2 DEF OneFileEach
    <3>3. \A q \in Procs : pc'[q] = "writingRun" => q # p /\ pc[q] = "writingRun" /\ run[q].id # r1.id
      BY <2>1, <2>2 DEF OwnFile
    <3>4. QED
      BY <2>1, <3>1, <3>2, <3>3 DEF OneFileEach
  <2>6. QED
    BY <2>3, <2>4, <2>5
<1>3. ASSUME NEW p \in Procs,
             (\E s \in Slugs : Get(p, s)) \/ Leave(p) \/ StartRun(p) \/ MakeRunDir(p) \/ LoseRun(p)
             \/ Register(p) \/ Delete(p)
      PROVE  OneFileEach'
  <2>1. /\ \A q \in Procs : q # p => run'[q] = run[q] /\ pc'[q] = pc[q]
        /\ pc'[p] # "writingRun"
    <3>1. CASE (\E s \in Slugs : Get(p, s)) \/ Leave(p) \/ StartRun(p) \/ MakeRunDir(p) \/ LoseRun(p)
      BY <3>1 DEF Get, Leave, StartRun, MakeRunDir, LoseRun, Done, Goto, TypeOK
    <3>2. CASE Register(p)
      BY <3>2 DEF Register, Add, Update, TruncateReg, FailReg, WriteReg, Done, Goto, TypeOK
    <3>3. CASE Delete(p)
      BY <3>3, DeleteProcs DEF Removers, Global
    <3>4. QED
      BY <1>3, <3>1, <3>2, <3>3
  <2>2. \A s \in Slugs : history'[s] \subseteq history[s]
    <3>1. CASE Delete(p)
      BY <3>1, FewerFiles
    <3>2. CASE ~Delete(p)
      BY <1>3, <3>2
      DEF Get, Leave, StartRun, MakeRunDir, LoseRun, Done, Register, Add, Update, TruncateReg, FailReg,
          WriteReg, runs
    <3>3. QED
      BY <3>1, <3>2
  <2>3. QED
    BY <2>1, <2>2 DEF OneFileEach
<1>4. CASE ClockTick \/ OpenStore \/ UNCHANGED vars
  <2>1. UNCHANGED <<history, pc, run>>
    BY <1>4 DEF ClockTick, OpenStore, vars, runs
  <2>2. QED
    BY <2>1 DEF OneFileEach
<1>5. QED
  BY <1>1, <1>2, <1>3, <1>4 DEF Next, Record

LogInv == TypeOK /\ OwnFile /\ OneFileEach /\ OpenLinked

(* What CreateRunFile and WriteRunFile do to the history.                  *)
LEMMA Created ==
    ASSUME LogInv, NEW p \in Procs, CreateRunFile(p)
    PROVE  /\ pc[p] = "recording" /\ pc'[p] = "writingRun" /\ slug[p] \in Slugs /\ run[p] \in Records
           /\ \A q \in Procs : q # p => run'[q] = run[q] /\ pc'[q] = pc[q]
           /\ UNCHANGED <<slug, used>> /\ linked' = linked \cup {p}
           /\ run'[p] \in Records
           /\ run'[p].id = run[p].id /\ run'[p].second = run[p].second /\ run'[p].complete = FALSE
           /\ history' = [history EXCEPT ![slug[p]] = @ \cup {run'[p]}]
<1>1. /\ pc[p] = "recording" /\ pc'[p] = "writingRun" /\ slug[p] \in Slugs /\ run[p] \in Records
      /\ run' = [run EXCEPT ![p] = [run[p] EXCEPT !.orphan = p \in stale]]
      /\ \A q \in Procs : q # p => run'[q] = run[q] /\ pc'[q] = pc[q]
      /\ UNCHANGED <<slug, used>> /\ linked' = linked \cup {p}
  BY DEF CreateRunFile, Goto, LogInv, TypeOK
<1>2. /\ run'[p] \in Records
      /\ run'[p].id = run[p].id /\ run'[p].second = run[p].second /\ run'[p].complete = run[p].complete
  <2> DEFINE o == p \in stale
  <2>1. run'[p] = [run[p] EXCEPT !.orphan = o]
    BY <1>1 DEF LogInv, TypeOK
  <2>2. o \in BOOLEAN
    OBVIOUS
  <2> HIDE DEF o
  <2>3. QED
    BY <1>1, <2>1, <2>2 DEF Records
<1>3. run[p].complete = FALSE
  BY <1>1 DEF LogInv, OwnFile, Records
<1>4. \A r \in history[slug[p]] : FileName(r) # FileName(run[p])
  BY <1>1 DEF LogInv, OwnFile, FileName
<1>5. history' = [history EXCEPT ![slug[p]] =
                    {r \in history[slug[p]] : FileName(r) # FileName(run[p])} \cup {run'[p]}]
  BY DEF CreateRunFile
<1>6. {r \in history[slug[p]] : FileName(r) # FileName(run[p])} = history[slug[p]]
  BY <1>4
<1>7. QED
  BY <1>1, <1>2, <1>3, <1>5, <1>6

LEMMA Written ==
    ASSUME LogInv, NEW p \in Procs, WriteRunFile(p)
    PROVE  /\ pc[p] = "writingRun" /\ pc'[p] = "ready" /\ slug[p] \in Slugs /\ run[p] \in Records
           /\ \A q \in Procs : q # p => run'[q] = run[q] /\ pc'[q] = pc[q]
           /\ UNCHANGED <<slug, used>> /\ linked' = linked \ {p}
           /\ run[p].complete = FALSE
           /\ p \notin linked => history' = history
           /\ p \in linked =>
                /\ run[p] \in history[slug[p]]
                /\ history' = [history EXCEPT ![slug[p]] =
                                 (@ \ {run[p]}) \cup {[run[p] EXCEPT !.complete = TRUE]}]
<1>1. /\ pc[p] = "writingRun" /\ pc'[p] = "ready" /\ slug[p] \in Slugs /\ run[p] \in Records
      /\ \A q \in Procs : q # p => run'[q] = run[q] /\ pc'[q] = pc[q]
      /\ UNCHANGED <<slug, used>> /\ linked' = linked \ {p}
  BY DEF WriteRunFile, Goto, LogInv, TypeOK, Global
<1>2. run[p].complete = FALSE
  BY <1>1 DEF LogInv, OwnFile, Records
<1>3. p \in linked => run[p] \in history[slug[p]]
  BY <1>1 DEF LogInv, OpenLinked
<1>4. QED
  BY <1>1, <1>2, <1>3 DEF WriteRunFile

(* The other actions of a run, and those on registrations, leave the       *)
(* history alone.                                                          *)
LEMMA Aside ==
    ASSUME TypeOK, NEW p \in Procs,
           Register(p) \/ (\E s \in Slugs : Get(p, s)) \/ Leave(p) \/ StartRun(p) \/ MakeRunDir(p) \/ LoseRun(p)
    PROVE  /\ UNCHANGED history
           /\ pc[p] # "writingRun" /\ pc'[p] # "writingRun" /\ linked' \ {p} \subseteq linked
           /\ \A q \in Procs : q # p => run'[q] = run[q] /\ pc'[q] = pc[q] /\ slug'[q] = slug[q]
<1>1. CASE (\E s \in Slugs : Get(p, s)) \/ Leave(p) \/ StartRun(p) \/ MakeRunDir(p) \/ LoseRun(p)
  BY <1>1 DEF Get, Leave, StartRun, MakeRunDir, LoseRun, Done, Goto, runs, TypeOK
<1>2. CASE FailReg(p) \/ TruncateReg(p)
  BY <1>2 DEF FailReg, TruncateReg, Done, Goto, runs, TypeOK
<1>3. CASE \E s \in Slugs, path \in Paths : Add(p, s, path) \/ Update(p, s, path)
  BY <1>3 DEF Add, Update, Goto, runs, TypeOK
<1>4. CASE WriteReg(p)
  <2>1. pc[p] = "writingReg" /\ Done(p, "writingReg")
    BY <1>4 DEF WriteReg, Done, Goto
  <2>2. QED
    BY <1>4, <2>1, DoneTyped DEF WriteReg, runs
<1>5. QED
  BY <1>1, <1>2, <1>3, <1>4 DEF Register

LEMMA OpenLinkedStep == LogInv /\ [Next]_vars => OpenLinked'
<1> SUFFICES ASSUME LogInv, [Next]_vars, NEW q \in Procs, pc'[q] = "writingRun", q \in linked'
             PROVE  run'[q] \in history'[slug'[q]]
  BY DEF OpenLinked
<1> /\ TypeOK /\ OwnFile /\ OpenLinked
    /\ \A p \in Procs : pc[p] = "writingRun" => slug[p] \in Slugs
    /\ history \in [Slugs -> SUBSET Records]
  BY DEF LogInv, TypeOK, Global
<1>1. ASSUME NEW p \in Procs, CreateRunFile(p) PROVE run'[q] \in history'[slug'[q]]
  <2> /\ pc[p] = "recording" /\ slug[p] \in Slugs /\ slug' = slug /\ linked' = linked \cup {p}
      /\ \A i \in Procs : i # p => run'[i] = run[i] /\ pc'[i] = pc[i]
      /\ history' = [history EXCEPT ![slug[p]] = @ \cup {run'[p]}]
    BY <1>1, Created
  <2>1. CASE q = p
    BY <2>1
  <2>2. CASE q # p
    <3>1. pc[q] = "writingRun" /\ q \in linked /\ run'[q] = run[q] /\ slug'[q] = slug[q]
      BY <2>2
    <3>2. run[q] \in history[slug[q]] /\ slug[q] \in Slugs
      BY <3>1 DEF OpenLinked
    <3>3. QED
      BY <3>1, <3>2
  <2>3. QED
    BY <2>1, <2>2
<1>2. ASSUME NEW p \in Procs, WriteRunFile(p) PROVE run'[q] \in history'[slug'[q]]
  <2> /\ pc[p] = "writingRun" /\ pc'[p] = "ready" /\ slug' = slug /\ linked' = linked \ {p}
      /\ \A i \in Procs : i # p => run'[i] = run[i] /\ pc'[i] = pc[i]
    BY <1>2, Written
  <2>1. q # p /\ pc[q] = "writingRun" /\ q \in linked /\ run'[q] = run[q] /\ slug'[q] = slug[q]
    OBVIOUS
  <2>2. run[q] \in history[slug[q]] /\ slug[q] \in Slugs
    BY <2>1 DEF OpenLinked
  <2>3. run[q] # run[p]
    BY <2>1 DEF OwnFile
  <2>4. QED
    <3> DEFINE r1 == [run[p] EXCEPT !.complete = TRUE]
    <3>1. history' = history \/ history' = [history EXCEPT ![slug[p]] = (@ \ {run[p]}) \cup {r1}]
      BY <1>2, Written
    <3> HIDE DEF r1
    <3>2. QED
      BY <2>1, <2>2, <2>3, <3>1
<1>3. ASSUME NEW p \in Procs, Delete(p) PROVE run'[q] \in history'[slug'[q]]
  <2>1. q # p /\ pc[q] = "writingRun" /\ q \in linked /\ run'[q] = run[q] /\ slug'[q] = slug[q]
    BY <1>3, DeleteProcs, DeleteRegs DEF Removers, Global
  <2>2. run[q] \in history[slug[q]] /\ slug[q] \in Slugs
    BY <2>1 DEF OpenLinked
  <2>3. ASSUME NEW s \in Slugs, NEW r \in history[s], Unlinks(p, s, r) PROVE run[q] \in history'[slug[q]]
    BY <2>1, <2>2, <2>3 DEF Unlinks
  <2>4. QED
    BY <1>3, <2>1, <2>2, <2>3, DeleteRuns
<1>4. ASSUME NEW p \in Procs,
             Register(p) \/ (\E s \in Slugs : Get(p, s)) \/ Leave(p) \/ StartRun(p) \/ MakeRunDir(p) \/ LoseRun(p)
      PROVE  run'[q] \in history'[slug'[q]]
  <2>1. /\ q # p /\ pc[q] = "writingRun" /\ q \in linked /\ run'[q] = run[q] /\ slug'[q] = slug[q]
        /\ UNCHANGED history
    BY <1>4, Aside
  <2>2. QED
    BY <2>1 DEF OpenLinked
<1>5. CASE ClockTick \/ OpenStore \/ UNCHANGED vars
  BY <1>5 DEF ClockTick, OpenStore, vars, runs, OpenLinked
<1>6. QED
  BY <1>1, <1>2, <1>3, <1>4, <1>5 DEF Next, Record

LEMMA LogInvariant == Spec => []LogInv
<1>1. Init => LogInv
  BY TypeInit DEF Init, LogInv, OwnFile, OneFileEach, OpenLinked
<1>2. LogInv /\ [Next]_vars => LogInv'
  <2>1. LogInv /\ [Next]_vars => TypeOK'
    BY TypeStep DEF LogInv
  <2>2. LogInv /\ [Next]_vars => OwnFile'
    BY <2>1, OwnFileStep DEF LogInv
  <2>3. LogInv /\ [Next]_vars => OneFileEach'
    BY <2>1, <2>2, OneFileStep DEF LogInv
  <2>4. QED
    BY <2>1, <2>2, <2>3, OpenLinkedStep DEF LogInv
<1>3. QED
  BY <1>1, <1>2, PTL DEF Spec

(* The store keeps its variables in their types, however the calls of the  *)
(* processes interleave and wherever one of them stops.                    *)
THEOREM TypeCorrect == Spec => []TypeOK
<1>1. LogInv => TypeOK
  BY DEF LogInv
<1>2. QED
  BY <1>1, LogInvariant, PTL


------------------------------------------------------------------------------
(* Who owns the history of a pipeline.                                     *)

(* What each step does to the processes that hold a pipeline.              *)

Holding == {"ready", "running", "recording", "writingRun"}

(* HistoryHasOwner alone is not inductive: who holds the copy of a         *)
(* registration that is gone is known to be stale, and an open file that   *)
(* has not been unlinked is in the history.                                *)
HoldersStale == \A p \in Procs : pc[p] \in Holding /\ regs[slug[p]] = NoReg => p \in stale

(* A process that is idle, or in PurgeAll, works on no slug in particular. *)
NoSlugInMind ==
    \A p \in Procs : pc[p] \in {"idle", "wipingRegs", "remakingRegs", "wipingRuns"} => slug[p] = NoSlug

OwnerInv == LogInv /\ NoSlugInMind /\ HoldersStale /\ HistoryHasOwner

LEMMA OwnerInit == Init => NoSlugInMind /\ HoldersStale /\ HistoryHasOwner
BY DEF Init, NoSlugInMind, HoldersStale, HistoryHasOwner, Holding

LEMMA NoSlugInMindStep == TypeOK /\ NoSlugInMind /\ [Next]_vars => NoSlugInMind'
<1> SUFFICES ASSUME TypeOK, NoSlugInMind, [Next]_vars PROVE NoSlugInMind'
  OBVIOUS
<1> USE DEF NoSlugInMind, Goto, TypeOK
<1>1. ASSUME NEW p \in Procs, Register(p) PROVE NoSlugInMind'
  BY <1>1 DEF Register, Add, Update, TruncateReg, FailReg, WriteReg, Done
<1>2. ASSUME NEW p \in Procs, Record(p) PROVE NoSlugInMind'
  BY <1>2 DEF Record, Get, Leave, StartRun, MakeRunDir, CreateRunFile, LoseRun, WriteRunFile, Done
<1>3. ASSUME NEW p \in Procs, Rm(p) PROVE NoSlugInMind'
  BY <1>3 DEF Rm, RemoveReg, RemoveRuns, KeepRuns, Return
<1>4. ASSUME NEW p \in Procs, Wipe(p) PROVE NoSlugInMind'
  BY <1>4 DEF Wipe, PurgeAll, WipeReg, WipedRegs, RemakeRegDir, WipedRuns, FailPurgeAll, Return
<1>5. ASSUME NEW p \in Procs,
             \/ \E s \in Slugs \cup {NoSlug} : Purge(p, s)
             \/ PurgeRuns(p) \/ FailPurge(p) \/ RemakeRunDir(p)
             \/ \E s \in Slugs : UnlinkRun(p, s) \/ RemoveDir(p, s)
      PROVE  NoSlugInMind'
  BY <1>5 DEF Purge, PurgeRuns, FailPurge, RemakeRunDir, Return, UnlinkRun, RemoveDir
<1>6. CASE ClockTick \/ OpenStore \/ UNCHANGED vars
  BY <1>6 DEF ClockTick, OpenStore, vars
<1>7. QED
  BY <1>1, <1>2, <1>3, <1>4, <1>5, <1>6 DEF Next, Delete

(* A step of p that is no part of a removal leaves Removing as it is.      *)
LEMMA SameRemovals ==
    ASSUME TypeOK, NEW p \in Procs,
           pc[p] \notin {"removing", "wipingRegs", "remakingRegs", "wipingRuns"},
           pc'[p] \notin {"removing", "wipingRegs", "remakingRegs", "wipingRuns"},
           \A q \in Procs : q # p => pc'[q] = pc[q] /\ slug'[q] = slug[q],
           NEW s \in Slugs
    PROVE  Removing(s)' <=> Removing(s)
BY DEF Removing

LEMMA OwnerRegister == ASSUME OwnerInv, NEW p \in Procs, Register(p) PROVE (HoldersStale /\ HistoryHasOwner)'
<1> TypeOK /\ HoldersStale /\ HistoryHasOwner
  BY DEF OwnerInv, LogInv
<1>1. TypeOK'
  BY RegisterTyped
<1>2. /\ \A q \in Procs : q # p => pc'[q] = pc[q] /\ slug'[q] = slug[q] /\ run'[q] = run[q]
      /\ pc[p] \in {"idle", "adding", "updating", "writingReg"}
      /\ pc'[p] \in {"idle", "adding", "updating", "writingReg"}
      /\ UNCHANGED <<history, spared>>
      /\ stale \ {p} \subseteq stale'
  BY DEF Register, Add, Update, TruncateReg, FailReg, WriteReg, Done, Goto, runs, TypeOK
<1>3. \A s \in Slugs : regs'[s] = NoReg => regs[s] = NoReg
  <2>1. ASSUME WriteReg(p) PROVE Overwrite(regs[slug[p]], reg[p]) # NoReg
    <3>1. pc[p] = "writingReg" /\ reg[p] # NoReg
      BY <2>1, DoneTyped DEF WriteReg, TypeOK
    <3>2. QED
      BY <3>1, RunStoreAssumption DEF RunStoreAssumption, Overwrite
  <2>2. WriteReg(p) => \A s \in Slugs : regs'[s] = NoReg => regs[s] = NoReg
    BY <2>1 DEF WriteReg, TypeOK
  <2>3. TruncateReg(p) => \A s \in Slugs : regs'[s] = NoReg => regs[s] = NoReg
    BY RunStoreAssumption DEF RunStoreAssumption, TruncateReg, TypeOK
  <2>4. QED
    BY <2>2, <2>3 DEF Register, Add, Update, FailReg, registry
<1>4. \A s \in Slugs : Removing(s)' <=> Removing(s)
  BY <1>2, SameRemovals
<1>5. \A q \in Procs : pc'[q] \in Holding => q # p /\ slug[q] \in Slugs
  BY <1>2 DEF Holding, TypeOK, Global
<1>6. HoldersStale'
  BY <1>2, <1>3, <1>5 DEF HoldersStale
<1>7. HistoryHasOwner'
  BY <1>2, <1>3, <1>4 DEF HistoryHasOwner
<1>8. QED
  BY <1>6, <1>7

LEMMA OwnerRecord == ASSUME OwnerInv, NEW p \in Procs, Record(p) PROVE (HoldersStale /\ HistoryHasOwner)'
<1> TypeOK /\ HoldersStale /\ HistoryHasOwner /\ LogInv
  BY DEF OwnerInv, LogInv
<1>1. /\ \A q \in Procs : q # p => pc'[q] = pc[q] /\ slug'[q] = slug[q]
      /\ pc[p] \in Holding \cup {"idle"}
      /\ pc'[p] \in Holding \cup {"idle"}
      /\ UNCHANGED <<regs, spared>>
  BY DEF Record, Get, Leave, StartRun, MakeRunDir, CreateRunFile, LoseRun, WriteRunFile, Done, Goto,
         registry, TypeOK, Holding
<1>2. \A s \in Slugs : Removing(s)' <=> Removing(s)
  BY <1>1, SameRemovals DEF Holding
<1>3. \A q \in Procs : q # p => (q \in stale' <=> q \in stale)
  BY DEF Record, Get, Leave, StartRun, MakeRunDir, CreateRunFile, LoseRun, WriteRunFile, Done
<1>4. CASE CreateRunFile(p)
  <2>1. /\ pc[p] = "recording" /\ slug[p] \in Slugs /\ run[p] \in Records
        /\ history' = [history EXCEPT ![slug[p]] = @ \cup {run'[p]}]
    BY <1>4, Created
  <2>2. run' = [run EXCEPT ![p] = [run[p] EXCEPT !.orphan = p \in stale]] /\ UNCHANGED <<slug, stale>>
    BY <1>4 DEF CreateRunFile
  <2>3. [run[p] EXCEPT !.orphan = p \in stale].orphan = (p \in stale)
    <3>1. (p \in stale) \in BOOLEAN
      OBVIOUS
    <3>2. QED
      BY <2>1, <3>1, FieldsTyped, Zenon
  <2>4. run'[p].orphan <=> p \in stale
    BY <2>2, <2>3 DEF TypeOK
  <2>5. regs[slug[p]] = NoReg => run'[p].orphan
    BY <2>1, <2>4 DEF HoldersStale, Holding
  <2>6. HoldersStale'
    BY <1>1, <2>1, <2>2 DEF HoldersStale, Holding
  <2>7. HistoryHasOwner'
    BY <1>1, <1>2, <2>1, <2>5 DEF HistoryHasOwner, TypeOK
  <2>8. QED
    BY <2>6, <2>7
<1>5. CASE WriteRunFile(p)
  <2> DEFINE r == [run[p] EXCEPT !.complete = TRUE]
  <2>1. /\ pc[p] = "writingRun" /\ slug[p] \in Slugs /\ run[p] \in Records
        /\ p \notin linked => history' = history
        /\ p \in linked => /\ run[p] \in history[slug[p]]
                           /\ history' = [history EXCEPT ![slug[p]] = (@ \ {run[p]}) \cup {r}]
    BY <1>5, Written
  <2>2. UNCHANGED <<slug, stale>>
    BY <1>5 DEF WriteRunFile
  <2>3. r.orphan = run[p].orphan /\ r.id = run[p].id
    BY <2>1 DEF Records
  <2> HIDE DEF r
  <2>4. HoldersStale'
    BY <1>1, <2>1, <2>2 DEF HoldersStale, Holding
  <2>5. HistoryHasOwner'
    BY <1>1, <1>2, <2>1, <2>3 DEF HistoryHasOwner, TypeOK
  <2>6. QED
    BY <2>4, <2>5
<1>6. CASE \/ \E s \in Slugs : Get(p, s)
           \/ Leave(p) \/ StartRun(p) \/ MakeRunDir(p) \/ LoseRun(p)
  <2>1. UNCHANGED history
    BY <1>6, Aside
  <2>2. pc'[p] \in Holding => (p \in stale => p \in stale')
    BY <1>6 DEF Get, Leave, StartRun, MakeRunDir, LoseRun, Done, Goto, TypeOK, Holding
  <2>3. pc'[p] \in Holding /\ regs[slug'[p]] = NoReg => pc[p] \in Holding /\ slug'[p] = slug[p]
    BY <1>6, NoRegistration
    DEF Get, Leave, StartRun, MakeRunDir, LoseRun, Done, Goto, TypeOK, Holding, Readable
  <2>4. HoldersStale'
    BY <1>1, <1>3, <2>2, <2>3 DEF HoldersStale
  <2>5. HistoryHasOwner'
    BY <1>1, <1>2, <2>1 DEF HistoryHasOwner
  <2>6. QED
    BY <2>4, <2>5
<1>7. QED
  BY <1>4, <1>5, <1>6 DEF Record

(* When a removal of s ends, its history is empty or what is left of it is *)
(* accounted for.                                                          *)
LEMMA RemovalEnds ==
    ASSUME TypeOK, NoSlugInMind, NEW p \in Procs, Delete(p),
           NEW s \in Slugs, regs'[s] = NoReg, ~Removing(s)'
    PROVE  /\ spared \subseteq spared'
           /\ \/ regs[s] = NoReg /\ ~Removing(s)
              \/ \A r \in history[s] : r.id \in spared'
<1> USE DEF Removing, TypeOK
<1>0. \A q \in Procs : q # p => pc'[q] = pc[q] /\ slug'[q] = slug[q]
  BY DeleteProcs
<1>1. CASE \E t \in Slugs : RemoveReg(p, t)
  <2>1. PICK t \in Slugs : RemoveReg(p, t)
    BY <1>1
  <2>2. pc[p] = "idle" /\ pc'[p] = "removing" /\ slug'[p] = t /\ UNCHANGED spared
    BY <2>1 DEF RemoveReg, Goto
  <2>3. s # t
    BY <2>2
  <2>4. regs'[s] = regs[s]
    BY <2>1, <2>3 DEF RemoveReg, UnlinkReg
  <2>5. QED
    BY <1>0, <2>2, <2>4
<1>2. CASE RemoveRuns(p) \/ KeepRuns(p)
  <2>1. /\ pc[p] = "removing" /\ pc'[p] = "idle" /\ UNCHANGED <<regs, history>>
        /\ spared \subseteq spared'
    BY <1>2 DEF RemoveRuns, KeepRuns, Return, Goto, Spare, registry, runs
  <2>2. CASE slug[p] = s
    <3>1. RemoveRuns(p) => history[s] = {}
      BY <2>2, NoRegistration DEF RemoveRuns, RemovedRuns, Emptied
    <3>2. KeepRuns(p) => \A r \in history[s] : r.id \in spared'
      BY <2>1, <2>2 DEF KeepRuns, Spare
    <3>3. QED
      BY <1>2, <2>1, <3>1, <3>2
  <2>3. CASE slug[p] # s
    BY <1>0, <2>1, <2>3
  <2>4. QED
    BY <2>2, <2>3
<1>3. CASE PurgeAll(p) \/ WipedRegs(p) \/ RemakeRegDir(p) \/ \E t \in Slugs : WipeReg(p, t)
  <2>1. pc'[p] \in {"wipingRegs", "remakingRegs", "wipingRuns"}
    BY <1>3 DEF PurgeAll, WipedRegs, RemakeRegDir, WipeReg, Goto
  <2>2. QED
    BY <2>1
<1>4. CASE WipedRuns(p)
  <2>1. slug[p] = NoSlug /\ UNCHANGED spared
    BY <1>4 DEF WipedRuns, Return, Goto, NoSlugInMind
  <2>2. history[s] = {}
    BY <1>4, <2>1 DEF WipedRuns, RemovedRuns, Emptied
  <2>3. QED
    BY <2>1, <2>2
<1>5. CASE FailPurgeAll(p)
  BY <1>5 DEF FailPurgeAll, Spare, registry
<1>6. CASE \/ \E t \in Slugs \cup {NoSlug} : Purge(p, t)
           \/ PurgeRuns(p) \/ FailPurge(p) \/ RemakeRunDir(p)
           \/ \E t \in Slugs : UnlinkRun(p, t) \/ RemoveDir(p, t)
  <2>1. UNCHANGED <<regs, spared>>
    BY <1>6 DEF Purge, PurgeRuns, FailPurge, RemakeRunDir, UnlinkRun, RemoveDir, registry
  <2>2. \/ UNCHANGED <<pc, slug>>
        \/ pc[p] \in {"idle", "purging", "remaking"} /\ pc'[p] \in {"idle", "purging", "remaking"}
    BY <1>6 DEF Purge, PurgeRuns, FailPurge, RemakeRunDir, Return, UnlinkRun, RemoveDir, Goto
  <2>3. Removing(s)' <=> Removing(s)
    BY <1>0, <2>2
  <2>4. QED
    BY <2>1, <2>3
<1>7. QED
  BY <1>1, <1>2, <1>3, <1>4, <1>5, <1>6 DEF Delete, Rm, Wipe

LEMMA OwnerDelete == ASSUME OwnerInv, NEW p \in Procs, Delete(p) PROVE (HoldersStale /\ HistoryHasOwner)'
<1> TypeOK /\ NoSlugInMind /\ HoldersStale /\ HistoryHasOwner
  BY DEF OwnerInv, LogInv
<1>1. /\ \A q \in Procs : q # p => pc'[q] = pc[q] /\ slug'[q] = slug[q]
      /\ pc'[p] \notin Holding
  BY DeleteProcs DEF Holding, Removers, Global
<1>2. ASSUME NEW q \in Procs, pc'[q] \in Holding, regs'[slug'[q]] = NoReg PROVE q \in stale'
  <2>1. q # p /\ slug[q] \in Slugs /\ pc[q] \in Holding /\ slug'[q] = slug[q]
    BY <1>1, <1>2 DEF Holding, TypeOK, Global
  <2>2. CASE UNCHANGED <<regs, stale>>
    BY <1>2, <2>1, <2>2 DEF HoldersStale
  <2>3. ASSUME NEW s \in Slugs, UnlinkReg(s) PROVE q \in stale'
    <3>1. CASE slug[q] = s
      BY <2>1, <2>3, <3>1 DEF UnlinkReg, Holding
    <3>2. CASE slug[q] # s
      BY <1>2, <2>1, <2>3, <3>2 DEF UnlinkReg, HoldersStale
    <3>3. QED
      BY <3>1, <3>2
  <2>4. QED
    BY <2>2, <2>3, DeleteRegs
<1>3. HoldersStale'
  BY <1>2 DEF HoldersStale
<1>4. ASSUME NEW s \in Slugs, regs'[s] = NoReg, ~Removing(s)', NEW r \in history'[s]
      PROVE  r.orphan \/ r.id \in spared'
  <2>1. r \in history[s]
    BY FewerFiles
  <2>2. spared \subseteq spared' /\ ((regs[s] = NoReg /\ ~Removing(s)) \/ r.id \in spared')
    BY <1>4, <2>1, RemovalEnds
  <2>3. QED
    BY <2>1, <2>2 DEF HistoryHasOwner
<1>5. HistoryHasOwner'
  BY <1>4 DEF HistoryHasOwner
<1>6. QED
  BY <1>3, <1>5

LEMMA OwnerStep == OwnerInv /\ [Next]_vars => (HoldersStale /\ HistoryHasOwner)'
<1> SUFFICES ASSUME OwnerInv, [Next]_vars PROVE (HoldersStale /\ HistoryHasOwner)'
  OBVIOUS
<1>1. CASE ClockTick \/ OpenStore \/ UNCHANGED vars
  <2>1. UNCHANGED <<regs, history, pc, slug, stale, spared>>
    BY <1>1 DEF ClockTick, OpenStore, vars, registry, runs
  <2>2. \A s \in Slugs : Removing(s)' <=> Removing(s)
    BY <2>1 DEF Removing
  <2>3. QED
    BY <2>1, <2>2 DEF OwnerInv, HoldersStale, HistoryHasOwner
<1>2. QED
  BY <1>1, OwnerRegister, OwnerDelete, OwnerRecord DEF Next

(* Removing the registration before the history leaves, for a pipeline     *)
(* that is not registered, no runs but those of processes that had read    *)
(* its registration before it was removed, and those that a removal left   *)
(* behind when a deletion failed.                                          *)
THEOREM HistoryOwned == Spec => []HistoryHasOwner
<1>1. TypeOK /\ NoSlugInMind /\ [Next]_vars => NoSlugInMind'
  BY NoSlugInMindStep
<1>2. LogInv /\ NoSlugInMind /\ HoldersStale /\ HistoryHasOwner /\ [Next]_vars
        => (HoldersStale /\ HistoryHasOwner)'
  BY OwnerStep DEF OwnerInv
<1>3. Spec => []NoSlugInMind
  BY <1>1, OwnerInit, TypeCorrect, PTL DEF Spec
<1>4. QED
  BY <1>2, <1>3, OwnerInit, LogInvariant, PTL DEF Spec

------------------------------------------------------------------------------
(* Registrations under concurrent writers.                                 *)

LEMMA TornStep == TypeOK /\ TornOnlyWhileWriting /\ [Next]_vars => TornOnlyWhileWriting'
<1> SUFFICES ASSUME TypeOK, TornOnlyWhileWriting, [Next]_vars, NEW s \in Slugs, regs'[s] = Empty
             PROVE  \E p \in linked' : pc'[p] = "writingReg" /\ slug'[p] = s
  BY DEF TornOnlyWhileWriting
<1>1. CASE UNCHANGED <<regs, pc, slug, linked>>
  BY <1>1 DEF TornOnlyWhileWriting
<1>2. ASSUME NEW p \in Procs, TruncateReg(p)
      PROVE  \E q \in linked' : pc'[q] = "writingReg" /\ slug'[q] = s
  <2>1. /\ linked' = linked \cup {p} /\ UNCHANGED slug /\ pc'[p] = "writingReg"
        /\ \A q \in Procs : q # p => pc'[q] = pc[q]
    BY <1>2 DEF TruncateReg, Goto, TypeOK
  <2>2. CASE slug[p] = s
    BY <2>1, <2>2
  <2>3. CASE slug[p] # s
    BY <1>2, <2>1, <2>3 DEF TruncateReg, TornOnlyWhileWriting, TypeOK
  <2>4. QED
    BY <2>2, <2>3
<1>3. ASSUME NEW p \in Procs, WriteReg(p)
      PROVE  \E q \in linked' : pc'[q] = "writingReg" /\ slug'[q] = s
  <2>1. /\ pc[p] = "writingReg" /\ linked' = linked \ {p}
        /\ \A q \in Procs : q # p => pc'[q] = pc[q] /\ slug'[q] = slug[q]
    BY <1>3, DoneTyped DEF WriteReg
  <2>2. slug[p] \in Slugs /\ Overwrite(regs[slug[p]], reg[p]) # Empty
    BY <2>1, NoRegistration, RunStoreAssumption DEF RunStoreAssumption, Overwrite, TypeOK, Global
  <2>3. regs[s] = Empty /\ (p \in linked => slug[p] # s)
    BY <1>3, <2>2 DEF WriteReg, TypeOK
  <2>4. QED
    BY <2>1, <2>3 DEF TornOnlyWhileWriting, TypeOK
<1>4. ASSUME NEW t \in Slugs, UnlinkReg(t)
      PROVE  /\ regs[s] = Empty /\ s # t
             /\ \A q \in linked : pc[q] = "writingReg" /\ slug[q] = s => q \in linked'
  <2>1. s # t
    BY <1>4, RunStoreAssumption DEF RunStoreAssumption, UnlinkReg, TypeOK
  <2>2. QED
    BY <1>4, <2>1 DEF UnlinkReg, TypeOK
<1>5. ASSUME NEW p \in Procs, Register(p) \/ Delete(p) \/ Record(p), ~TruncateReg(p), ~WriteReg(p)
      PROVE  \E q \in linked' : pc'[q] = "writingReg" /\ slug'[q] = s
  <2>1. /\ pc[p] # "writingReg"
        /\ \A q \in Procs : q # p => pc'[q] = pc[q] /\ slug'[q] = slug[q]
    <3>1. CASE Register(p)
      BY <1>5, <3>1 DEF Register, Add, Update, FailReg, Done, Goto, TypeOK
    <3>2. CASE Delete(p)
      BY <3>2, DeleteProcs DEF Removers, Global
    <3>3. CASE Record(p)
      BY <3>3 DEF Record, Get, Leave, StartRun, MakeRunDir, CreateRunFile, LoseRun, WriteRunFile,
                  Done, Goto, TypeOK
    <3>4. QED
      BY <1>5, <3>1, <3>2, <3>3
  <2>2. \/ \E t \in Slugs : UnlinkReg(t)
        \/ UNCHANGED regs /\ \A q \in linked : q \in linked' \/ q = p \/ pc[q] = "writingRun"
    <3>1. CASE Delete(p)
      <4>1. \/ UNCHANGED <<regs, stale>> /\ \A q \in linked : pc[q] # "writingRun" => q \in linked'
            \/ \E t \in Slugs : UnlinkReg(t)
        BY <3>1, DeleteRegs
      <4>2. QED
        BY <4>1
    <3>2. CASE Register(p) \/ Record(p)
      BY <1>5, <3>2
      DEF Register, Add, Update, FailReg, Record, Get, Leave, StartRun, MakeRunDir, CreateRunFile,
          LoseRun, WriteRunFile, Done, registry
    <3>3. QED
      BY <1>5, <3>1, <3>2
  <2>3. regs[s] = Empty /\ \A q \in linked : pc[q] = "writingReg" /\ slug[q] = s => q \in linked'
    BY <1>4, <2>1, <2>2
  <2>4. PICK q \in linked : pc[q] = "writingReg" /\ slug[q] = s
    BY <2>3 DEF TornOnlyWhileWriting
  <2>5. QED
    BY <2>1, <2>3, <2>4 DEF TypeOK
<1>6. QED
  BY <1>1, <1>2, <1>3, <1>5 DEF Next, ClockTick, OpenStore, vars, registry

(* A registration is found truncated only while a process is at it: a      *)
(* pipeline never becomes unreadable by the end of an add, an update, a    *)
(* removal or a purge.                                                     *)
THEOREM TornWritten == Spec => []TornOnlyWhileWriting
<1>1. Init => TornOnlyWhileWriting
  BY RunStoreAssumption DEF RunStoreAssumption, Init, TornOnlyWhileWriting
<1>2. QED
  BY <1>1, TornStep, TypeCorrect, PTL DEF Spec


(* A recorded run disappears only while its history is being deleted: file *)
(* names hold the run ID, so runs of the same second do not collide.       *)
THEOREM RunsSurvive == Spec => RecordsSurvive
<1> DEFINE Survives ==
      \A s \in Slugs :
        \A r \in history[s] : r.complete => r \in history'[s] \/ \E p \in Procs : Deletes(p, s)
<1>1. Init => OwnFile
  BY DEF Init, OwnFile
<1>2. TypeOK /\ OwnFile /\ [Next]_vars => [Survives]_vars
  <2> SUFFICES ASSUME TypeOK, OwnFile, Next, NEW s \in Slugs, NEW r \in history[s], r.complete
               PROVE  r \in history'[s] \/ \E p \in Procs : Deletes(p, s)
    BY DEF vars
  <2>1. ASSUME NEW p \in Procs, CreateRunFile(p) PROVE r \in history'[s]
    <3>1. pc[p] = "recording" /\ slug[p] \in Slugs
      BY <2>1 DEF CreateRunFile, Goto, TypeOK
    <3>2. r.id # run[p].id
      BY <3>1 DEF OwnFile
    <3>3. FileName(r) # FileName(run[p])
      BY <3>2 DEF FileName
    <3>4. history' = [history EXCEPT ![slug[p]] =
                        {q \in history[slug[p]] : FileName(q) # FileName(run[p])} \cup {run'[p]}]
      BY <2>1 DEF CreateRunFile
    <3>5. QED
      BY <3>1, <3>3, <3>4 DEF TypeOK
  <2>2. ASSUME NEW p \in Procs, WriteRunFile(p) PROVE r \in history'[s]
    <3>1. pc[p] = "writingRun"
      BY <2>2 DEF WriteRunFile, Goto
    <3>2. r # run[p]
      BY <3>1 DEF OwnFile
    <3>3. QED
      BY <2>2, <3>2 DEF WriteRunFile, TypeOK
  <2>3. ASSUME NEW p \in Procs, Delete(p) PROVE r \in history'[s] \/ Deletes(p, s)
    <3>1. ASSUME NEW t \in Slugs, NEW q \in history[t], Unlinks(p, t, q)
          PROVE  r \in history'[s] \/ Deletes(p, s)
      BY <3>1 DEF Unlinks, TypeOK
    <3>2. QED
      BY <2>3, <3>1, DeleteRuns
  <2>4. ASSUME NEW p \in Procs,
               (\E t \in Slugs : Get(p, t)) \/ Leave(p) \/ StartRun(p) \/ MakeRunDir(p) \/ LoseRun(p)
               \/ Register(p)
        PROVE  history' = history
    BY <2>4, Aside
  <2>5. ClockTick \/ OpenStore => history' = history
    BY DEF ClockTick, OpenStore, runs
  <2>6. QED
    BY <2>1, <2>2, <2>3, <2>4, <2>5 DEF Next, Record
<1>3. Spec => [](TypeOK /\ OwnFile)
  BY <1>1, TypeCorrect, OwnFileStep, PTL DEF Spec
<1>4. QED
  BY <1>2, <1>3, PTL DEF Spec, RecordsSurvive

------------------------------------------------------------------------------
(* The names of a directory are finitely many, in a total order.           *)
LEMMA NamesOrdered ==
    ASSUME TypeOK, OneFileEach, NEW s \in Slugs
    PROVE  IsFiniteSet(history[s]) /\ Orders(NewerName(history[s]), history[s])
<1> DEFINE H == history[s]
           idOf == [r \in H |-> r.id]
<1>1. H \subseteq Records
  BY DEF TypeOK
<1>2. \A r \in H : r.id \in RunIDs /\ r.id \in Nat /\ r.second \in Nat
  BY <1>1, NoRegistration, RunStoreAssumption DEF RunStoreAssumption, Records
<1>3. idOf \in Injection(H, RunIDs)
  BY <1>2 DEF OneFileEach, Injection, IsInjective
<1>4. IsFiniteSet(H)
  BY <1>3, FS_Injection, RunStoreAssumption DEF RunStoreAssumption
<1>5. \A a, b \in H : <<a, b>> \in NewerName(H) <=> NameBefore(b, a)
  BY DEF NewerName
<1>6. \A a, b \in H : a # b => a.id # b.id
  BY DEF OneFileEach
<1> HIDE DEF H
<1>7. /\ \A a \in H : ~NameBefore(a, a)
      /\ \A a, b \in H : a # b => NameBefore(a, b) \/ NameBefore(b, a)
      /\ \A a, b, c \in H : NameBefore(b, a) /\ NameBefore(c, b) => NameBefore(c, a)
  BY <1>2, <1>6 DEF NameBefore
<1>8. Orders(NewerName(H), H)
  BY <1>5, <1>7 DEF Orders
<1>9. QED
  BY <1>4, <1>8 DEF H

LEMMA Prefix ==
    ASSUME NEW S, NEW s \in Seq(S), NEW limit \in Nat
    PROVE  LET page == IF limit > 0 /\ Len(s) > limit THEN SubSeq(s, 1, limit) ELSE s
               n    == IF limit > 0 /\ Len(s) > limit THEN limit ELSE Len(s)
           IN  n \in Nat /\ n <= Len(s) /\ ToSet(page) = {s[k] : k \in 1..n}
<1>1. CASE limit > 0 /\ Len(s) > limit
  <2>1. SubSeq(s, 1, limit) = [k \in 1..limit |-> s[k]]
    BY <1>1
  <2>2. DOMAIN SubSeq(s, 1, limit) = 1..limit
    BY <2>1
  <2>3. ToSet(SubSeq(s, 1, limit)) = {s[k] : k \in 1..limit}
    BY <2>1, <2>2 DEF ToSet
  <2>4. QED
    BY <1>1, <2>3
<1>2. CASE ~(limit > 0 /\ Len(s) > limit)
  BY <1>2 DEF ToSet
<1>3. QED
  BY <1>1, <1>2

LEMMA ToSetOfList ==
    ASSUME NEW s, NEW S, NEW before, Lists(s, S, before)
    PROVE  ToSet(s) = S
BY DEF Lists, ToSet

(* Whatever the limit and whatever the other processes have done to the    *)
(* directory, store.Runs returns no record twice, skips none in favour of  *)
(* one that started in an earlier second, and leaves one out only if as    *)
(* many files, torn ones included, have newer names as the limit allows.   *)
THEOREM PagesSound == Spec => []PageSound
<1>1. TypeOK /\ OneFileEach => PageSound
  <2> SUFFICES ASSUME TypeOK, OneFileEach, NEW s \in Slugs, NEW limit \in 0..Cardinality(RunIDs)
               PROVE  LET page    == Runs(s, limit)
                          leftOut == {r \in history[s] : r.complete} \ ToSet(page)
                      IN  /\ Cardinality(ToSet(page)) = Len(page)
                          /\ \A r \in leftOut, q \in ToSet(page) : r.second <= q.second
                          /\ \A r \in leftOut :
                               limit > 0 /\ Cardinality({f \in history[s] : NameBefore(r, f)}) >= limit
    BY DEF PageSound
  <2> DEFINE H == history[s]
             before == NewerName(H)
             names == InOrder(H, before)
             page == IF limit > 0 /\ Len(names) > limit THEN SubSeq(names, 1, limit) ELSE names
             n == IF limit > 0 /\ Len(names) > limit THEN limit ELSE Len(names)
             C == {r \in ToSet(page) : r.complete}
  <2>1. IsFiniteSet(H) /\ Orders(before, H)
    BY NamesOrdered
  <2>2. Lists(names, H, before)
    BY <2>1, Sorted
  <2>3. limit \in Nat
    BY FS_CardinalityType, RunStoreAssumption DEF RunStoreAssumption
  <2>4. names \in Seq(H) /\ Len(names) = Cardinality(H) /\ DOMAIN names = 1..Len(names) /\ Len(names) \in Nat
    BY <2>2 DEF Lists
  <2>5. n \in Nat /\ n <= Len(names) /\ ToSet(page) = {names[k] : k \in 1..n}
    BY <2>3, <2>4, Prefix
  <2>6. C \subseteq H
    BY <2>4, <2>5
  <2>7. IsFiniteSet(C) /\ Orders(before, C)
    BY <2>1, <2>6, FS_Subset DEF Orders
  <2>8. Lists(InOrder(C, before), C, before)
    BY <2>7, Sorted
  <2>9. Runs(s, limit) = InOrder(C, before)
    BY DEF Runs
  <2>10. ToSet(Runs(s, limit)) = C /\ Len(Runs(s, limit)) = Cardinality(C)
    <3> HIDE DEF C, before
    <3>1. ToSet(InOrder(C, before)) = C
      BY <2>8, ToSetOfList
    <3>2. Len(InOrder(C, before)) = Cardinality(C)
      BY <2>8 DEF Lists
    <3>3. QED
      BY <2>9, <3>1, <3>2
  <2>11. ASSUME NEW r \in {x \in H : x.complete} \ C, NEW q \in C PROVE r.second <= q.second
    <3>1. PICK i \in DOMAIN names : names[i] = r
      BY <2>2 DEF Lists
    <3>2. PICK j \in 1..n : names[j] = q
      BY <2>5
    <3>3. i \notin 1..n
      BY <2>5, <2>11, <3>1
    <3>4. j \in DOMAIN names /\ j < i
      BY <2>4, <2>5, <3>1, <3>2, <3>3
    <3>5. <<q, r>> \in before
      BY <2>2, <3>1, <3>2, <3>4 DEF Lists
    <3>6. NameBefore(r, q) /\ r \in Records /\ q \in Records
      BY <2>6, <3>5 DEF NewerName, TypeOK
    <3>7. r.second \in Nat /\ q.second \in Nat
      BY <3>6, NoRegistration DEF Records
    <3>8. QED
      BY <3>6, <3>7 DEF NameBefore
(* The first limit names are all newer than that of a file further back.   *)
  <2>12. ASSUME NEW r \in {x \in H : x.complete} \ C
         PROVE  limit > 0 /\ Cardinality({f \in H : NameBefore(r, f)}) >= limit
    <3> DEFINE newer == {f \in H : NameBefore(r, f)}
               first == [k \in 1..limit |-> names[k]]
    <3>1. PICK i \in DOMAIN names : names[i] = r
      BY <2>2 DEF Lists
    <3>2. i \notin 1..n
      BY <2>5, <2>12, <3>1
    <3>3. limit > 0 /\ n = limit /\ limit < i /\ i <= Len(names)
      BY <2>3, <2>4, <3>1, <3>2
    <3>4. ASSUME NEW k \in 1..limit PROVE names[k] \in newer
      <4>1. k \in DOMAIN names /\ k < i
        BY <2>3, <2>4, <3>1, <3>3
      <4>2. <<names[k], r>> \in before
        BY <2>2, <3>1, <4>1 DEF Lists
      <4>3. QED
        BY <2>4, <4>1, <4>2 DEF NewerName
    <3>5. \A k, l \in 1..limit : names[k] = names[l] => k = l
      <4>1. \A k \in 1..limit : k \in DOMAIN names
        BY <2>3, <2>4, <3>3
      <4> HIDE DEF names, before, H
      <4>2. \A k, l \in DOMAIN names : names[k] = names[l] => k = l
        BY <2>2 DEF Lists
      <4>3. QED
        BY <4>1, <4>2
    <3>6. IsFiniteSet(newer)
      BY <2>1, FS_Subset
    <3> HIDE DEF newer, names
    <3>7. first \in Injection(1..limit, newer)
      BY <3>4, <3>5 DEF Injection, IsInjective
    <3>8. Cardinality(1..limit) <= Cardinality(newer)
      BY <3>6, <3>7, FS_Injection
    <3>9. Cardinality(1..limit) = limit
      BY <2>3, <3>3, FS_Interval
    <3>10. QED
      BY <3>3, <3>8, <3>9, <2>3, <3>6, FS_CardinalityType DEF newer
  <2> HIDE DEF C
  <2>13. QED
    BY <2>10, <2>11, <2>12
<1>2. Init => OwnFile /\ OneFileEach
  BY DEF Init, OwnFile, OneFileEach
<1>3. Spec => [](TypeOK /\ OwnFile)
  BY <1>2, TypeCorrect, OwnFileStep, PTL DEF Spec
<1>4. Spec => []OneFileEach
  BY <1>2, <1>3, OneFileStep, PTL DEF Spec
<1>5. QED
  BY <1>1, <1>4, TypeCorrect, PTL

------------------------------------------------------------------------------
(* The runs in flight other than p stay as they are.                       *)
OthersPending(p) == Pending' \ {p} = Pending \ {p} /\ \A q \in Pending \ {p} : run'[q] = run[q]

(* A run that p has in flight gets its file, or is lost.                   *)
LEMMA Settled ==
    ASSUME LogInv, NEW p \in Procs, p \in Pending, p \notin Pending', OthersPending(p), UNCHANGED used
    PROVE  /\ run[p].id \in RunIDs /\ run[p].id \notin Seen
           /\ Seen' = Seen \cup {run[p].id}
<1>1. \A q \in Pending : /\ run[q].id \in used
                         /\ \A o \in Pending : o # q => run[o].id # run[q].id
  BY DEF LogInv, OwnFile, Pending
<1>2. Pending' = Pending \ {p}
  BY DEF OthersPending
<1>3. {run'[q].id : q \in Pending'} = {run[q].id : q \in Pending} \ {run[p].id}
  BY <1>1, <1>2 DEF OthersPending
<1>4. run[p].id \in RunIDs
  BY <1>1 DEF LogInv, TypeOK
<1>5. QED
  BY <1>1, <1>3, <1>4 DEF Seen

LEMMA FileValue ==
    ASSUME NEW r
    PROVE  File(r) = [id |-> r.id, second |-> r.second, complete |-> r.complete]
BY DEF File

LEMMA FileCompleted ==
    ASSUME NEW r \in Records
    PROVE  File([r EXCEPT !.complete = TRUE]) = [id |-> File(r).id, second |-> File(r).second, complete |-> TRUE]
<1> DEFINE r1 == [r EXCEPT !.complete = TRUE]
<1>1. r1.id = r.id /\ r1.second = r.second
  BY DEF Records
<1>2. r1.complete = TRUE
  BY Zenon DEF Records
<1> HIDE DEF r1
<1>3. File(r1) = [id |-> r.id, second |-> r.second, complete |-> TRUE]
  BY <1>1, <1>2 DEF File
<1>4. QED
  BY <1>3 DEF r1, File

(* Only the steps of a deletion change which histories are being deleted.  *)
LEMMA SameDeleting ==
    ASSUME TypeOK, NEW p \in Procs, Register(p) \/ Record(p)
    PROVE  Deleting' = Deleting
<1>1. /\ pc[p] \notin {"removing", "purging", "wipingRuns"}
      /\ pc'[p] \notin {"removing", "purging", "wipingRuns"}
      /\ \A q \in Procs : q # p => pc'[q] = pc[q] /\ slug'[q] = slug[q]
  <2>1. CASE Register(p)
    BY <2>1 DEF Register, Add, Update, TruncateReg, FailReg, WriteReg, Done, Goto, TypeOK
  <2>2. CASE Record(p)
    BY <2>2 DEF Record, Get, Leave, StartRun, MakeRunDir, CreateRunFile, LoseRun, WriteRunFile,
                Done, Goto, TypeOK
  <2>3. QED
    BY <2>1, <2>2
<1>2. \A q \in Procs, s \in Slugs : Deletes(q, s)' <=> Deletes(q, s)
  BY <1>1 DEF Deletes
<1>3. QED
  BY <1>2 DEF Deleting

LEMMA CreateSimulated ==
    ASSUME LogInv, NEW p \in Procs, CreateRunFile(p)
    PROVE  \E s \in Slugs, i \in RunIDs, t \in Seconds : Log!Create(s, i, t)
<1> /\ pc[p] = "recording" /\ pc'[p] = "writingRun" /\ slug[p] \in Slugs /\ run[p] \in Records
    /\ \A q \in Procs : q # p => run'[q] = run[q] /\ pc'[q] = pc[q]
    /\ used' = used
    /\ run'[p].id = run[p].id /\ run'[p].second = run[p].second /\ run'[p].complete = FALSE
    /\ history' = [history EXCEPT ![slug[p]] = @ \cup {run'[p]}]
  BY Created
<1>1. p \in Pending /\ p \notin Pending' /\ OthersPending(p)
  BY DEF Pending, OthersPending
<1>2. /\ run[p].id \in RunIDs /\ run[p].id \notin Seen
      /\ Seen' = Seen \cup {run[p].id}
  BY <1>1, Settled
<1> DEFINE f == [id |-> run[p].id, second |-> run[p].second, complete |-> FALSE]
<1>3. File(run'[p]) = f
  BY FileValue
<1>4. history \in [Slugs -> SUBSET Records]
  BY DEF LogInv, TypeOK
<1> HIDE DEF f
<1>5. Files' = [Files EXCEPT ![slug[p]] = @ \cup {f}]
  BY <1>3, <1>4 DEF Files
<1>6. run[p].second \in Seconds
  BY DEF Records
<1>7. Deleting' = Deleting
  BY SameDeleting DEF LogInv, Record
<1>8. Log!Create(slug[p], run[p].id, run[p].second)
  BY <1>2, <1>5, <1>7 DEF Log!Create, f
<1>9. QED
  BY <1>2, <1>6, <1>8

LEMMA CompleteSimulated ==
    ASSUME LogInv, NEW p \in Procs, WriteRunFile(p)
    PROVE  UNCHANGED <<Files, Seen, Deleting>> \/ \E s \in Slugs : \E f \in Files[s] : Log!Complete(s, f)
<1> DEFINE s  == slug[p]
           r1 == [run[p] EXCEPT !.complete = TRUE]
           f1 == [id |-> File(run[p]).id, second |-> File(run[p]).second, complete |-> TRUE]
<1> /\ pc[p] = "writingRun" /\ pc'[p] = "ready" /\ s \in Slugs /\ run[p] \in Records
    /\ \A q \in Procs : q # p => run'[q] = run[q] /\ pc'[q] = pc[q]
    /\ used' = used /\ run[p].complete = FALSE
    /\ p \notin linked => history' = history
    /\ p \in linked => run[p] \in history[s] /\ history' = [history EXCEPT ![s] = (@ \ {run[p]}) \cup {r1}]
  BY Written
<1>1. Seen' = Seen /\ Deleting' = Deleting
  BY SameDeleting DEF LogInv, Record, Pending, Seen
<1>2. CASE p \notin linked
  BY <1>1, <1>2 DEF Files
<1>3. CASE p \in linked
  <2>1. history \in [Slugs -> SUBSET Records]
    BY DEF LogInv, TypeOK
  <2>2. File(r1) = f1
    BY FileCompleted
  <2>3. \A r \in history[s] : File(r) = File(run[p]) => r = run[p]
    <3>1. \A r \in history[s] : r.id = run[p].id => r = run[p]
      BY DEF LogInv, OneFileEach
    <3>2. QED
      BY <3>1, FileValue
  <2> HIDE DEF r1, f1
  <2>4. {File(r) : r \in (history[s] \ {run[p]}) \cup {r1}} = (Files[s] \ {File(run[p])}) \cup {f1}
    BY <1>3, <2>2, <2>3 DEF Files
  <2>5. Files' = [Files EXCEPT ![s] = (@ \ {File(run[p])}) \cup {f1}]
    BY <1>3, <2>1, <2>4 DEF Files
  <2>6. File(run[p]) \in Files[s] /\ ~File(run[p]).complete
    BY <1>3, FileValue DEF Files
  <2>7. Log!Complete(s, File(run[p]))
    BY <1>1, <2>5, <2>6 DEF Log!Complete, f1
  <2>8. QED
    BY <2>6, <2>7
<1>4. QED
  BY <1>2, <1>3

LEMMA DeleteSimulated ==
    ASSUME LogInv, NEW p \in Procs, Delete(p)
    PROVE  Log!Next
<1>1. TypeOK /\ OneFileEach
  BY DEF LogInv
<1>2. Seen' = Seen
  <2>1. \A q \in Procs : q # p => pc'[q] = pc[q]
    BY <1>1, DeleteProcs
  <2>2. pc[p] \in Removers /\ pc'[p] \in Removers /\ UNCHANGED <<used, run>>
    BY <1>1, DeleteProcs
  <2>3. QED
    BY <2>1, <2>2 DEF Seen, Pending, Removers, Global
<1>3. CASE UNCHANGED history
  <2>1. Files' = Files /\ Deleting' \in SUBSET Slugs
    BY <1>3 DEF Files, Deleting
  <2>2. Log!Turn(Deleting')
    BY <1>2, <2>1 DEF Log!Turn
  <2>3. QED
    BY <2>1, <2>2 DEF Log!Next
<1>4. ASSUME NEW s \in Slugs, NEW r \in history[s], Unlinks(p, s, r) PROVE Log!Next
  <2>1. s \in Deleting /\ Deleting' = Deleting
    BY <1>4 DEF Unlinks, Deleting, Deletes
  <2>2. history \in [Slugs -> SUBSET Records] /\ history' = [history EXCEPT ![s] = @ \ {r}]
    BY <1>1, <1>4 DEF TypeOK, Unlinks
  <2>3. \A q \in history[s] : File(q) = File(r) => q = r
    <3>1. \A q \in history[s] : q.id = r.id => q = r
      BY <1>1 DEF OneFileEach
    <3>2. QED
      BY <3>1, FileValue
  <2>4. {File(q) : q \in history[s] \ {r}} = Files[s] \ {File(r)}
    BY <2>3 DEF Files
  <2>5. Files' = [Files EXCEPT ![s] = @ \ {File(r)}]
    BY <2>2, <2>4 DEF Files
  <2>6. File(r) \in Files[s]
    BY DEF Files
  <2>7. Log!Delete(s, File(r))
    BY <1>2, <2>1, <2>5, <2>6 DEF Log!Delete
  <2>8. QED
    BY <2>6, <2>7 DEF Log!Next
<1>5. QED
  BY <1>1, <1>3, <1>4, DeleteRuns

LEMMA StepSimulated == LogInv /\ [Next]_vars => [Log!Next]_<<Files, Seen, Deleting>>
<1> SUFFICES ASSUME LogInv, [Next]_vars PROVE Log!Next \/ UNCHANGED <<Files, Seen, Deleting>>
  OBVIOUS
<1>0. TypeOK
  BY DEF LogInv
<1>1. ASSUME NEW p \in Procs, CreateRunFile(p) PROVE Log!Next
  BY <1>1, CreateSimulated DEF Log!Next
<1>2. ASSUME NEW p \in Procs, WriteRunFile(p) PROVE Log!Next \/ UNCHANGED <<Files, Seen, Deleting>>
  BY <1>2, CompleteSimulated DEF Log!Next
<1>3. ASSUME NEW p \in Procs, Delete(p) PROVE Log!Next
  BY <1>3, DeleteSimulated DEF Log!Next
<1>4. ASSUME NEW p \in Procs, LoseRun(p) PROVE Log!Next
  <2>1. /\ pc[p] \in {"running", "recording"} /\ pc'[p] = "ready" /\ UNCHANGED <<history, used>>
        /\ \A q \in Procs : q # p => run'[q] = run[q] /\ pc'[q] = pc[q]
    BY <1>0, <1>4 DEF LoseRun, Goto, TypeOK, runs
  <2>2. p \in Pending /\ p \notin Pending' /\ OthersPending(p)
    BY <2>1 DEF Pending, OthersPending
  <2>3. run[p].id \in RunIDs /\ Seen' = Seen \cup {run[p].id}
    BY <2>1, <2>2, Settled
  <2>4. Files' = Files /\ Deleting' = Deleting
    BY <1>0, <1>4, <2>1, SameDeleting DEF Files, Record
  <2>5. QED
    BY <2>3, <2>4 DEF Log!Lose, Log!Next
<1>5. ASSUME NEW p \in Procs, StartRun(p) PROVE UNCHANGED <<Files, Seen, Deleting>>
  <2>1. PICK id \in RunIDs \ used :
          /\ used' = used \cup {id}
          /\ run' = [run EXCEPT ![p] = [id |-> id, second |-> second, order |-> Cardinality(used),
                                        complete |-> FALSE, orphan |-> FALSE]]
    BY <1>5 DEF StartRun
  <2>2. /\ pc[p] = "ready" /\ pc'[p] = "running" /\ UNCHANGED history
        /\ \A q \in Procs : q # p => run'[q] = run[q] /\ pc'[q] = pc[q]
        /\ run'[p].id = id
    BY <1>0, <1>5, <2>1 DEF StartRun, Goto, TypeOK, runs
  <2>3. {run'[q].id : q \in Pending'} = {run[q].id : q \in Pending} \cup {id}
    BY <2>2 DEF Pending
  <2>4. Deleting' = Deleting
    BY <1>0, <1>5, SameDeleting DEF Record
  <2>5. QED
    BY <2>1, <2>2, <2>3, <2>4 DEF Files, Seen
<1>6. ASSUME NEW p \in Procs, MakeRunDir(p) PROVE UNCHANGED <<Files, Seen, Deleting>>
  <2>1. /\ pc[p] = "running" /\ pc'[p] = "recording" /\ UNCHANGED <<history, used, run>>
        /\ \A q \in Procs : q # p => pc'[q] = pc[q]
    BY <1>0, <1>6 DEF MakeRunDir, Goto, TypeOK
  <2>2. Deleting' = Deleting
    BY <1>0, <1>6, SameDeleting DEF Record
  <2>3. QED
    BY <2>1, <2>2 DEF Files, Pending, Seen
<1>7. ASSUME NEW p \in Procs, Register(p) \/ (\E s \in Slugs : Get(p, s)) \/ Leave(p)
      PROVE  UNCHANGED <<Files, Seen, Deleting>>
  <2>1. /\ UNCHANGED history
        /\ \A q \in Procs : q # p => run'[q] = run[q] /\ pc'[q] = pc[q]
    BY <1>0, <1>7, Aside
  <2>2. /\ p \notin Pending /\ p \notin Pending' /\ UNCHANGED used
    <3>1. CASE Register(p)
      BY <1>0, <3>1 DEF Register, Add, Update, TruncateReg, FailReg, WriteReg, Done, Goto, Pending, TypeOK
    <3>2. CASE (\E s \in Slugs : Get(p, s)) \/ Leave(p)
      BY <1>0, <3>2 DEF Get, Leave, Done, Goto, Pending, TypeOK
    <3>3. QED
      BY <1>7, <3>1, <3>2
  <2>3. Deleting' = Deleting
    BY <1>0, <1>7, SameDeleting DEF Record
  <2>4. QED
    BY <2>1, <2>2, <2>3 DEF Files, Pending, Seen
<1>8. CASE ClockTick \/ OpenStore \/ UNCHANGED vars
  BY <1>8 DEF ClockTick, OpenStore, vars, runs, Files, Pending, Seen, Deleting, Deletes
<1>9. QED
  BY <1>1, <1>2, <1>3, <1>4, <1>5, <1>6, <1>7, <1>8 DEF Next, Record

(* The store implements RunLog: whatever its processes do at once and      *)
(* wherever they stop, a run gets one file, which is completed once, goes  *)
(* only while its history is being deleted, and is then gone for good.     *)
THEOREM Refinement == Spec => ImplementsRunLog
<1>1. Init => Log!Init
  <2> HAVE Init
  <2>1. \A q \in Procs, s \in Slugs : ~Deletes(q, s)
    BY DEF Init, Deletes
  <2>2. Files = [s \in Slugs |-> {}] /\ Seen = {} /\ Deleting = {}
    BY <2>1 DEF Init, Files, Seen, Pending, Deleting
  <2>3. QED
    BY <2>2 DEF Log!Init
<1>2. QED
  BY <1>1, LogInvariant, StepSimulated, PTL DEF Spec, ImplementsRunLog, Log!Spec, Log!vars

==============================================================================
