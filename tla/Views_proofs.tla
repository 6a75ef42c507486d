----------------------------- MODULE Views_proofs -----------------------------
(***************************************************************************)
(* Proofs about module Views, for any number of pipelines, runs, readers   *)
(* and requests: the TUI runs one pipeline at a time, what a view shows    *)
(* belongs under its banner, and what store.Runs returns is right although *)
(* files come and go while it reads them.                                  *)
(***************************************************************************)
EXTENDS Views, Ordering_proofs, SequenceTheorems

USE ViewsAssumption DEF ViewsAssumption

(* A file in runs/<s>/ is of a run of s.                                   *)
HistoryOK ==
    /\ history \in [Slugs -> SUBSET RunIDs]
    /\ slugOf \in [RunIDs -> Slugs \cup {NoSlug}]
    /\ \A s \in Slugs : \A i \in history[s] : slugOf[i] = s

(* What has been read is of the pipeline that is read.                     *)
ReadOK(r) ==
    read[r] # NoRead =>
        /\ {"slug", "left", "got"} \subseteq DOMAIN read[r]
        /\ read[r].slug \in Slugs
        /\ read[r].got \in Seq(RunIDs)
        /\ \A i \in ToSet(read[r].got) : slugOf[i] = read[r].slug

ReadsOK ==
    /\ DOMAIN read = Readers
    /\ \A r \in Readers : ReadOK(r)

(* loadRuns reads for the pipeline that the selection and the banner name, *)
(* in the view of the pipelines or of the runs.                            *)
LoadOK ==
    read["tui"] # NoRead =>
        mode \in {"list", "runs"} /\ selReg = read["tui"].slug /\ lastPip = read["tui"].slug

(* The command reads for the pipeline that it runs, when it has run it.    *)
CommandOK ==
    /\ read["job"] # NoRead => job \in {"last", "done"} /\ read["job"].slug = jobSlug
    /\ job # "none" => jobSlug \in Slugs
    /\ job \in {"run", "write"} => jobRun \in RunIDs /\ slugOf[jobRun] = jobSlug

TablesOK ==
    /\ regs \in Seq(Slugs) /\ cursor \in Nat /\ (regs # <<>> => cursor \in DOMAIN regs)
    /\ runs \in Seq(RunIDs) /\ runCursor \in Nat /\ (runs # <<>> => runCursor \in DOMAIN runs)
    /\ detail \in RunIDs \cup {NoRun}

(* A view of runs names a pipeline: ViewMatches is not about nothing.      *)
ViewOK ==
    /\ ViewMatches
    /\ mode \in {"runs", "detail"} => selReg \in Slugs
    /\ mode = "result" => jobSlug \in Slugs

Inv == HistoryOK /\ ReadsOK /\ LoadOK /\ CommandOK /\ TablesOK /\ OneJob /\ ViewOK

------------------------------------------------------------------------------
(* Sequences.                                                              *)

LEMMA ToSetType ==
    ASSUME NEW S, NEW s \in Seq(S)
    PROVE  ToSet(s) \subseteq S
BY DEF ToSet

LEMMA ToSetAppend ==
    ASSUME NEW S, NEW s \in Seq(S), NEW e
    PROVE  ToSet(Append(s, e)) \subseteq ToSet(s) \cup {e}
BY DEF ToSet

LEMMA NothingLeft ==
    ASSUME NEW S, NEW s \in Seq(S), Len(s) = 0
    PROVE  s = <<>> /\ ToSet(s) = {}
<1>1. s = <<>>
  BY EmptySeq
<1>2. QED
  BY <1>1 DEF ToSet

LEMMA SeqOfSubset ==
    ASSUME NEW T, NEW S \in SUBSET T, NEW s \in Seq(S)
    PROVE  s \in Seq(T)
<1>1. s \in [1..Len(s) -> S] /\ Len(s) \in Nat
  OBVIOUS
<1>2. s \in [1..Len(s) -> T]
  BY <1>1
<1>3. QED
  BY <1>1, <1>2

LEMMA FirstInPage ==
    ASSUME NEW page \in Seq(RunIDs)
    PROVE  FirstOf(page) = NoRun \/ FirstOf(page) \in ToSet(page)
BY DEF FirstOf, ToSet

LEMMA RegistrationsAreSlugs ==
    ASSUME NEW r \in Registrations
    PROVE  r \in Seq(Slugs) /\ (r # <<>> => 1 \in DOMAIN r)
BY DEF Registrations

------------------------------------------------------------------------------
(* Runs are added to the history, and run IDs given to pipelines.          *)

(* What is read or shown of a pipeline keeps belonging to it: a run that   *)
(* gets a pipeline had none.                                               *)
LEMMA NewRun ==
    ASSUME Inv, slugOf' \in [RunIDs -> Slugs \cup {NoSlug}],
           \A i \in RunIDs : slugOf[i] # NoSlug => slugOf'[i] = slugOf[i],
           UNCHANGED <<read, tui, jobSlug>>
    PROVE  ReadsOK' /\ LoadOK' /\ TablesOK' /\ (UNCHANGED job => OneJob') /\ ViewOK'
<1> USE DEF Inv, HistoryOK, tui
<1>1. ReadsOK'
  <2>1. ASSUME NEW r \in Readers PROVE ReadOK(r)'
    <3>1. SUFFICES ASSUME read[r] # NoRead, NEW i \in ToSet(read[r].got)
                   PROVE  slugOf'[i] = read[r].slug
      BY DEF ReadOK, ReadsOK
    <3>2. /\ read[r].got \in Seq(RunIDs) /\ read[r].slug \in Slugs
          /\ slugOf[i] = read[r].slug
      BY <3>1 DEF ReadOK, ReadsOK
    <3>3. i \in RunIDs
      BY <3>1, <3>2, ToSetType
    <3>4. QED
      BY <3>2, <3>3
  <2>2. QED
    BY <2>1 DEF ReadsOK
<1>2. LoadOK' /\ TablesOK' /\ (UNCHANGED job => OneJob')
  BY DEF LoadOK, TablesOK, OneJob
<1>3. ViewOK'
  <2>1. ASSUME NEW i \in ToSet(runs) PROVE i \in RunIDs
    BY <2>1 DEF TablesOK, ToSet
  <2>2. mode = "result" /\ detail # NoRun => detail \in RunIDs
    BY DEF TablesOK
  <2>3. QED
    BY <2>1, <2>2 DEF ViewOK, ViewMatches
<1>4. QED
  BY <1>1, <1>2, <1>3

LEMMA OthersStep == Inv /\ Others => Inv'
<1> SUFFICES ASSUME Inv, Others PROVE Inv'
  OBVIOUS
<1>1. ASSUME NEW s \in Slugs, PurgeRuns(s) PROVE Inv'
  <2>1. HistoryOK'
    BY <1>1 DEF PurgeRuns, Inv, HistoryOK
  <2>2. UNCHANGED <<slugOf, read, tui, jobVars>>
    BY <1>1 DEF PurgeRuns
  <2>3. QED
    BY <2>1, <2>2 DEF Inv, ReadsOK, ReadOK, LoadOK, CommandOK, TablesOK, OneJob, ViewOK, ViewMatches, tui, jobVars
<1>2. ASSUME NEW s \in Slugs, NEW i \in RunIDs, CreateFile(s, i) PROVE Inv'
  <2>1. HistoryOK'
    BY <1>2 DEF CreateFile, Inv, HistoryOK
  <2>2. /\ UNCHANGED <<read, tui, jobVars>>
        /\ \A j \in RunIDs : slugOf[j] # NoSlug => slugOf'[j] = slugOf[j]
    BY <1>2 DEF CreateFile, Inv, HistoryOK
  <2>3. CommandOK'
    BY <2>2 DEF Inv, CommandOK, HistoryOK, jobVars
  <2>4. QED
    BY <2>1, <2>2, <2>3, NewRun DEF Inv, HistoryOK, jobVars
<1>3. ASSUME NEW i \in RunIDs, CompleteFile(i) PROVE Inv'
  <2>1. UNCHANGED <<history, slugOf, read, tui, jobVars>>
    BY <1>3 DEF CompleteFile
  <2>2. QED
    BY <2>1 DEF Inv, HistoryOK, ReadsOK, ReadOK, LoadOK, CommandOK, TablesOK, OneJob, ViewOK, ViewMatches, tui, jobVars
<1>4. QED
  BY <1>1, <1>2, <1>3 DEF Others

------------------------------------------------------------------------------
(* Reading.                                                                *)

LEMMA ReadFileStep == Inv /\ (\E r \in Readers : ReadFile(r)) => Inv'
<1> SUFFICES ASSUME Inv, NEW q \in Readers, ReadFile(q) PROVE Inv'
  OBVIOUS
<1>0. {"slug", "left", "got"} \subseteq DOMAIN read[q] /\ DOMAIN read = Readers /\ read[q] # NoRead
  BY DEF ReadFile, Inv, ReadsOK, ReadOK
<1>1. /\ UNCHANGED <<history, slugOf, tui, jobVars>>
      /\ read[q] # NoRead
      /\ \A r \in Readers \ {q} : read'[r] = read[r]
      /\ read'[q].slug = read[q].slug
      /\ \/ read'[q].got = read[q].got
         \/ \E i \in history[read[q].slug] : read'[q].got = Append(read[q].got, i)
      /\ {"slug", "left", "got"} \subseteq DOMAIN read'[q]
      /\ DOMAIN read' = Readers
  BY <1>0 DEF ReadFile, store
<1>2. ReadOK(q)'
  <2>1. /\ read[q].got \in Seq(RunIDs) /\ read[q].slug \in Slugs
        /\ \A i \in ToSet(read[q].got) : slugOf[i] = read[q].slug
    BY <1>1 DEF Inv, ReadsOK, ReadOK
  <2>2. CASE read'[q].got = read[q].got
    BY <1>1, <2>1, <2>2 DEF ReadOK
  <2>3. ASSUME NEW i \in history[read[q].slug], read'[q].got = Append(read[q].got, i)
        PROVE  ReadOK(q)'
    <3>1. i \in RunIDs /\ slugOf[i] = read[q].slug
      BY <2>1 DEF Inv, HistoryOK
    <3>2. read'[q].got \in Seq(RunIDs) /\ ToSet(read'[q].got) \subseteq ToSet(read[q].got) \cup {i}
      BY <2>1, <2>3, <3>1, ToSetAppend
    <3>3. QED
      BY <1>1, <2>1, <3>1, <3>2 DEF ReadOK
  <2>4. QED
    BY <1>1, <2>2, <2>3
<1>3. ReadsOK'
  <2>1. ASSUME NEW r \in Readers \ {q} PROVE ReadOK(r)'
    BY <1>1 DEF Inv, ReadsOK, ReadOK
  <2>2. QED
    BY <1>1, <1>2, <2>1 DEF ReadsOK
<1>4. "tui" \in Readers /\ "job" \in Readers
  BY DEF Readers
<1>5. LoadOK' /\ CommandOK'
  BY <1>1, <1>4 DEF Inv, LoadOK, CommandOK, tui, jobVars
<1>6. HistoryOK' /\ TablesOK' /\ OneJob' /\ ViewOK'
  BY <1>1 DEF Inv, HistoryOK, TablesOK, OneJob, ViewOK, ViewMatches, tui, jobVars
<1>7. QED
  BY <1>3, <1>5, <1>6 DEF Inv

(* A reader starts, or is done.                                            *)
LEMMA ReadDirOK ==
    ASSUME ReadsOK, NEW q \in Readers, NEW s \in Slugs, NEW limit,
           read' = [read EXCEPT ![q] = ReadDir(s, limit)], UNCHANGED slugOf
    PROVE  /\ ReadsOK' /\ read'[q].slug = s
           /\ \A r \in Readers \ {q} : read'[r] = read[r]
<1>1. /\ read'[q] = ReadDir(s, limit)
      /\ \A r \in Readers \ {q} : read'[r] = read[r]
      /\ DOMAIN read' = Readers
  BY DEF ReadsOK
<1>2. ReadOK(q)'
  <2>1. ToSet(<<>>) = {}
    BY DEF ToSet
  <2>2. QED
    BY <1>1, <2>1 DEF ReadOK, ReadDir
<1>3. \A r \in Readers \ {q} : ReadOK(r)'
  BY <1>1 DEF ReadsOK, ReadOK
<1>4. QED
  BY <1>1, <1>2, <1>3 DEF ReadsOK, ReadDir

LEMMA NoReadOK ==
    ASSUME ReadsOK, NEW q \in Readers, read' = [read EXCEPT ![q] = NoRead], UNCHANGED slugOf
    PROVE  /\ ReadsOK' /\ read'[q] = NoRead
           /\ \A r \in Readers \ {q} : read'[r] = read[r]
<1>1. /\ read'[q] = NoRead
      /\ \A r \in Readers \ {q} : read'[r] = read[r]
      /\ DOMAIN read' = Readers
  BY DEF ReadsOK
<1>2. \A r \in Readers : ReadOK(r)'
  BY <1>1 DEF ReadsOK, ReadOK
<1>3. QED
  BY <1>1, <1>2 DEF ReadsOK

(* A reader that is neither the TUI nor its command does not concern them. *)
LEMMA OtherReader ==
    ASSUME Inv, ReadsOK', NEW q \in Readers \ {"tui", "job"},
           \A r \in Readers \ {q} : read'[r] = read[r],
           UNCHANGED <<history, slugOf, tui, jobVars>>
    PROVE  Inv'
<1>1. read'["tui"] = read["tui"] /\ read'["job"] = read["job"]
  BY DEF Readers
<1>2. LoadOK' /\ CommandOK'
  BY <1>1 DEF Inv, LoadOK, CommandOK, tui, jobVars
<1>3. HistoryOK' /\ TablesOK' /\ OneJob' /\ ViewOK'
  BY DEF Inv, HistoryOK, TablesOK, OneJob, ViewOK, ViewMatches, tui, jobVars
<1>4. QED
  BY <1>2, <1>3 DEF Inv

LEMMA OtherReadersStep ==
    Inv /\ (PrintRuns \/ (\E s \in Slugs, limit \in {1, PageSize} : Ask(s, limit))
            \/ (\E p \in Polls : Poll(p) \/ Mount(p) \/ PollFails(p))) => Inv'
<1> USE DEF store, tui, jobVars
<1>1. "command" \in Readers \ {"tui", "job"} /\ Polls \subseteq Readers \ {"tui", "job"}
  BY DEF Readers
<1>2. ASSUME Inv, PrintRuns PROVE Inv'
  <2>1. read' = [read EXCEPT !["command"] = NoRead] /\ UNCHANGED <<history, slugOf, tui, jobVars>>
    BY <1>2 DEF PrintRuns
  <2>2. ReadsOK' /\ \A r \in Readers \ {"command"} : read'[r] = read[r]
    BY <1>1, <1>2, <2>1, NoReadOK DEF Inv
  <2>3. QED
    BY <1>1, <1>2, <2>1, <2>2, OtherReader
<1>3. ASSUME Inv, NEW s \in Slugs, NEW limit \in {1, PageSize}, Ask(s, limit) PROVE Inv'
  <2>1. read' = [read EXCEPT !["command"] = ReadDir(s, limit)] /\ UNCHANGED <<history, slugOf, tui, jobVars>>
    BY <1>3 DEF Ask
  <2>2. ReadsOK' /\ \A r \in Readers \ {"command"} : read'[r] = read[r]
    BY <1>1, <1>3, <2>1, ReadDirOK DEF Inv
  <2>3. QED
    BY <1>1, <1>3, <2>1, <2>2, OtherReader
<1>4. ASSUME Inv, NEW p \in Polls, Poll(p) PROVE Inv'
  <2>1. read' = [read EXCEPT ![p] = ReadDir(WidgetSlug, PageSize)] /\ UNCHANGED <<history, slugOf, tui, jobVars>>
    BY <1>4 DEF Poll
  <2>2. ReadsOK' /\ \A r \in Readers \ {p} : read'[r] = read[r]
    BY <1>1, <1>4, <2>1, ReadDirOK DEF Inv
  <2>3. QED
    BY <1>1, <1>4, <2>1, <2>2, OtherReader
<1>5. ASSUME Inv, NEW p \in Polls, Mount(p) \/ PollFails(p) PROVE Inv'
  <2>1. read' = [read EXCEPT ![p] = NoRead] /\ UNCHANGED <<history, slugOf, tui, jobVars>>
    BY <1>5 DEF Mount, PollFails
  <2>2. ReadsOK' /\ \A r \in Readers \ {p} : read'[r] = read[r]
    BY <1>1, <1>5, <2>1, NoReadOK DEF Inv
  <2>3. QED
    BY <1>1, <1>5, <2>1, <2>2, OtherReader
<1>6. QED
  BY <1>2, <1>3, <1>4, <1>5

------------------------------------------------------------------------------
(* The command of the TUI.                                                 *)

(* A command that goes on without a read, a run ID or a file.              *)
LEMMA CommandGoesOn ==
    ASSUME Inv, job # "none", job' \in {"last", "done"}, read["job"] # NoRead => job = "last",
           UNCHANGED <<history, slugOf, read, tui, jobSlug, jobRun>>
    PROVE  Inv'
<1>1. OneJob' /\ CommandOK'
  BY DEF Inv, OneJob, CommandOK, tui
<1>2. HistoryOK' /\ ReadsOK' /\ LoadOK' /\ TablesOK' /\ ViewOK'
  BY DEF Inv, HistoryOK, ReadsOK, ReadOK, LoadOK, TablesOK, ViewOK, ViewMatches, tui
<1>3. QED
  BY <1>1, <1>2 DEF Inv

LEMMA JobStep == Inv /\ Job => Inv'
<1> SUFFICES ASSUME Inv, Job PROVE Inv'
  OBVIOUS
<1> USE DEF Aside, NextJob
<1>0. read["job"] # NoRead => job \in {"last", "done"}
  BY DEF Inv, CommandOK
<1>1. CASE LoadFails
  BY <1>0, <1>1, CommandGoesOn DEF LoadFails, tui
<1>2. CASE Execute
  <2>1. PICK i \in RunIDs : slugOf[i] = NoSlug /\ jobRun' = i /\ slugOf' = [slugOf EXCEPT ![i] = jobSlug]
    BY <1>2 DEF Execute
  <2>2. /\ job = "load" /\ job' = "run" /\ jobSlug \in Slugs
        /\ UNCHANGED <<history, read, tui, jobSlug>>
    BY <1>2 DEF Execute, Inv, CommandOK
  <2>3. /\ HistoryOK' /\ slugOf'[i] = jobSlug
        /\ \A j \in RunIDs : slugOf[j] # NoSlug => slugOf'[j] = slugOf[j]
    BY <2>1, <2>2 DEF Inv, HistoryOK
  <2>4. ReadsOK' /\ LoadOK' /\ TablesOK' /\ ViewOK'
    BY <2>2, <2>3, NewRun DEF HistoryOK
  <2>5. CommandOK' /\ OneJob'
    BY <1>0, <2>1, <2>2, <2>3 DEF Inv, CommandOK, OneJob, tui
  <2>6. QED
    BY <2>3, <2>4, <2>5 DEF Inv
<1>3. CASE RecordRun
  <2>1. CASE job' = "last"
    BY <1>0, <1>3, <2>1, CommandGoesOn DEF RecordRun, tui
  <2>2. CASE job' # "last"
    <3>1. /\ job = "run" /\ job' = "write" /\ history' = [history EXCEPT ![jobSlug] = @ \cup {jobRun}]
          /\ UNCHANGED <<slugOf, read, tui, jobSlug, jobRun>>
      BY <1>3, <2>2 DEF RecordRun
    <3>2. jobRun \in RunIDs /\ slugOf[jobRun] = jobSlug /\ jobSlug \in Slugs
      BY <3>1 DEF Inv, CommandOK
    <3>3. HistoryOK'
      BY <3>1, <3>2 DEF Inv, HistoryOK
    <3>4. ReadsOK' /\ LoadOK' /\ TablesOK' /\ ViewOK'
      BY <3>1 DEF Inv, ReadsOK, ReadOK, LoadOK, TablesOK, ViewOK, ViewMatches, tui
    <3>5. CommandOK' /\ OneJob'
      BY <1>0, <3>1, <3>2 DEF Inv, CommandOK, OneJob, tui
    <3>6. QED
      BY <3>3, <3>4, <3>5 DEF Inv
  <2>3. QED
    BY <2>1, <2>2
<1>4. CASE WriteRun
  BY <1>0, <1>4, CommandGoesOn DEF WriteRun, tui
<1>5. CASE LastRun
  <2>1. /\ job = "last" /\ read' = [read EXCEPT !["job"] = ReadDir(jobSlug, 1)]
        /\ UNCHANGED <<history, slugOf, tui, jobVars>>
    BY <1>5 DEF LastRun, jobVars
  <2>2. jobSlug \in Slugs /\ "job" \in Readers /\ "tui" \in Readers \ {"job"}
    BY <2>1 DEF Inv, CommandOK, Readers
  <2>3. ReadsOK' /\ read'["job"].slug = jobSlug /\ read'["tui"] = read["tui"]
    BY <2>1, <2>2, ReadDirOK DEF Inv
  <2>4. CommandOK' /\ LoadOK' /\ OneJob'
    BY <2>1, <2>3 DEF Inv, CommandOK, LoadOK, OneJob, tui, jobVars
  <2>5. HistoryOK' /\ TablesOK' /\ ViewOK'
    BY <2>1 DEF Inv, HistoryOK, TablesOK, ViewOK, ViewMatches, tui, jobVars
  <2>6. QED
    BY <2>3, <2>4, <2>5 DEF Inv
<1>6. CASE SendDone
  BY <1>0, <1>6, CommandGoesOn DEF SendDone, tui
<1>7. QED
  BY <1>1, <1>2, <1>3, <1>4, <1>5, <1>6 DEF Job

------------------------------------------------------------------------------
(* The TUI.                                                                *)

(* A key that changes neither a reader nor the command.                    *)
LEMMA KeyStep ==
    ASSUME Inv, Idle \/ mode = "off", UNCHANGED <<history, slugOf, read, jobVars>>,
           TablesOK', ViewOK', mode' = "running" <=> mode = "running"
    PROVE  Inv'
<1>1. HistoryOK' /\ ReadsOK' /\ CommandOK' /\ OneJob'
  BY DEF Inv, HistoryOK, ReadsOK, ReadOK, CommandOK, OneJob, jobVars
<1>2. LoadOK'
  BY DEF Inv, Idle, LoadOK
<1>3. QED
  BY <1>1, <1>2 DEF Inv

LEMMA ReloadTypes ==
    ASSUME TablesOK, Reload, UNCHANGED <<runs, runCursor>>, detail' \in RunIDs \cup {NoRun}
    PROVE  TablesOK'
BY RegistrationsAreSlugs DEF TablesOK, Reload

LEMMA ClampInRange ==
    ASSUME NEW len \in Nat, NEW n \in Int
    PROVE  /\ Clamp(n, len) \in Nat
           /\ len > 0 => Clamp(n, len) \in 1..len
BY DEF Clamp

LEMMA QuietKeys == Inv /\ (RunTUI \/ Move \/ ReloadKey \/ EnterRuns \/ Back) => Inv'
<1> SUFFICES ASSUME Inv, RunTUI \/ Move \/ ReloadKey \/ EnterRuns \/ Back PROVE Inv'
  OBVIOUS
<1> USE DEF Stay, store
<1>1. UNCHANGED <<history, slugOf, read, jobVars>> /\ (Idle \/ mode = "off")
  BY DEF RunTUI, Move, ReloadKey, EnterRuns, Back
<1>2. CASE RunTUI
  <2>1. TablesOK' /\ ViewOK'
    BY <1>2, RegistrationsAreSlugs DEF RunTUI, Inv, TablesOK, ViewOK, ViewMatches
  <2>2. QED
    BY <1>1, <1>2, <2>1, KeyStep DEF RunTUI
<1>3. CASE Move
  <2>1. UNCHANGED <<mode, regs, selReg, lastPip, runs, detail>>
    BY <1>3 DEF Move
  <2>2. PICK step \in {-1, 1} :
          \/ cursor' = Clamp(cursor + step, Len(regs)) /\ UNCHANGED runCursor
          \/ runCursor' = Clamp(runCursor + step, Len(runs)) /\ UNCHANGED cursor
    BY <1>3 DEF Move
  <2>3. /\ Len(regs) \in Nat /\ DOMAIN regs = 1..Len(regs) /\ (regs # <<>> => Len(regs) > 0)
        /\ Len(runs) \in Nat /\ DOMAIN runs = 1..Len(runs) /\ (runs # <<>> => Len(runs) > 0)
        /\ cursor + step \in Int /\ runCursor + step \in Int
    BY <2>2 DEF Inv, TablesOK
  <2>4. TablesOK'
    BY <2>1, <2>2, <2>3, ClampInRange DEF Inv, TablesOK
  <2>5. ViewOK'
    BY <1>1, <2>1 DEF Inv, ViewOK, ViewMatches, jobVars
  <2>6. QED
    BY <1>1, <2>1, <2>4, <2>5, KeyStep
<1>4. CASE ReloadKey
  <2>1. TablesOK'
    BY <1>4, ReloadTypes DEF ReloadKey, Inv, TablesOK
  <2>2. ViewOK' /\ UNCHANGED mode
    BY <1>4 DEF ReloadKey, Inv, ViewOK, ViewMatches
  <2>3. QED
    BY <1>1, <2>1, <2>2, KeyStep
<1>5. CASE EnterRuns
  <2>1. runs[runCursor] \in RunIDs /\ runs[runCursor] \in ToSet(runs)
    BY <1>5 DEF EnterRuns, Inv, TablesOK, ToSet
  <2>2. TablesOK' /\ ViewOK'
    BY <1>1, <1>5, <2>1 DEF EnterRuns, Inv, TablesOK, ViewOK, ViewMatches
  <2>3. QED
    BY <1>1, <1>5, <2>2, KeyStep DEF EnterRuns
<1>6. CASE Back
  <2>1. TablesOK' /\ ViewOK'
    BY <1>1, <1>6 DEF Back, Inv, TablesOK, ViewOK, ViewMatches
  <2>2. QED
    BY <1>1, <1>6, <2>1, KeyStep DEF Back
<1>7. QED
  BY <1>2, <1>3, <1>4, <1>5, <1>6

(* The keys and messages that begin or end a read of the runs.             *)
LEMMA LoadingKeys == Inv /\ (EnterList \/ ReloadRuns \/ LoadRuns) => Inv'
<1> SUFFICES ASSUME Inv, EnterList \/ ReloadRuns \/ LoadRuns PROVE Inv'
  OBVIOUS
<1> USE DEF Stay, store
<1>1. /\ UNCHANGED <<history, slugOf, jobVars>>
      /\ "tui" \in Readers /\ "job" \in Readers \ {"tui"}
  BY DEF EnterList, ReloadRuns, LoadRuns, Readers
<1>2. CASE EnterList
  <2>1. /\ Idle /\ mode = "list" /\ selReg' = regs[cursor] /\ lastPip' = regs[cursor]
        /\ UNCHANGED <<mode, regs, cursor, runs, runCursor, detail>>
    BY <1>2 DEF EnterList
  <2>2. regs[cursor] \in Slugs
    BY <1>2 DEF EnterList, Inv, TablesOK
  <2>3. ReadsOK' /\ read'["job"] = read["job"] /\ LoadOK'
    <3>1. CASE read' = [read EXCEPT !["tui"] = ReadDir(regs[cursor], PageSize)]
      <4>1. ReadsOK' /\ read'["tui"].slug = regs[cursor] /\ read'["job"] = read["job"]
        BY <1>1, <2>2, <3>1, ReadDirOK DEF Inv
      <4>2. QED
        BY <2>1, <4>1 DEF LoadOK
    <3>2. CASE UNCHANGED read
      BY <1>1, <2>1, <3>2 DEF Inv, ReadsOK, ReadOK, LoadOK, Idle
    <3>3. QED
      BY <1>2, <3>1, <3>2 DEF EnterList
  <2>4. HistoryOK' /\ CommandOK' /\ TablesOK' /\ OneJob' /\ ViewOK'
    BY <1>1, <2>1, <2>3 DEF Inv, HistoryOK, CommandOK, TablesOK, OneJob, ViewOK, ViewMatches, jobVars
  <2>5. QED
    BY <2>3, <2>4 DEF Inv
<1>3. CASE ReloadRuns
  <2>1. /\ mode = "runs" /\ read' = [read EXCEPT !["tui"] = ReadDir(selReg, PageSize)]
        /\ UNCHANGED tui
    BY <1>3 DEF ReloadRuns
  <2>2. selReg \in Slugs /\ lastPip = selReg
    BY <2>1 DEF Inv, ViewOK, ViewMatches
  <2>3. ReadsOK' /\ read'["tui"].slug = selReg /\ read'["job"] = read["job"]
    BY <1>1, <2>1, <2>2, ReadDirOK DEF Inv
  <2>4. LoadOK' /\ CommandOK' /\ OneJob'
    BY <1>1, <2>1, <2>2, <2>3 DEF Inv, LoadOK, CommandOK, OneJob, tui, jobVars
  <2>5. HistoryOK' /\ TablesOK' /\ ViewOK'
    BY <1>1, <2>1 DEF Inv, HistoryOK, TablesOK, ViewOK, ViewMatches, tui, jobVars
  <2>6. QED
    BY <2>3, <2>4, <2>5 DEF Inv
<1>4. CASE LoadRuns
  <2>1. /\ read["tui"] # NoRead /\ read' = [read EXCEPT !["tui"] = NoRead]
        /\ runs' = read["tui"].got /\ runCursor' = 1 /\ mode' = "runs"
        /\ UNCHANGED <<regs, cursor, selReg, lastPip, detail>>
    BY <1>4 DEF LoadRuns, HasRead
  <2>2. /\ mode \in {"list", "runs"} /\ selReg = read["tui"].slug /\ lastPip = selReg
        /\ read["tui"].slug \in Slugs /\ read["tui"].got \in Seq(RunIDs)
        /\ \A i \in ToSet(read["tui"].got) : slugOf[i] = read["tui"].slug
    BY <1>1, <2>1 DEF Inv, LoadOK, ReadsOK, ReadOK
  <2>3. ReadsOK' /\ read'["tui"] = NoRead /\ read'["job"] = read["job"]
    BY <1>1, <2>1, NoReadOK DEF Inv
  <2>4. LoadOK' /\ CommandOK' /\ OneJob' /\ HistoryOK'
    BY <1>1, <2>1, <2>2, <2>3 DEF Inv, LoadOK, CommandOK, OneJob, HistoryOK, jobVars
  <2>5. TablesOK' /\ ViewOK'
    BY <1>1, <2>1, <2>2 DEF Inv, TablesOK, ViewOK, ViewMatches
  <2>6. QED
    BY <2>3, <2>4, <2>5 DEF Inv
<1>5. QED
  BY <1>2, <1>3, <1>4

(* The keys and messages that begin or end a command.                      *)
LEMMA CommandKeys == Inv /\ (RunKey \/ RunDone \/ Quit) => Inv'
<1> SUFFICES ASSUME Inv, RunKey \/ RunDone \/ Quit PROVE Inv'
  OBVIOUS
<1> USE DEF store
<1>1. /\ UNCHANGED <<history, slugOf>> /\ HistoryOK' /\ read["tui"] = NoRead
      /\ "job" \in Readers /\ "tui" \in Readers \ {"job"}
  BY DEF RunKey, RunDone, Quit, Idle, Inv, HistoryOK, Readers
<1>2. CASE RunKey
  <2>1. /\ mode = "list" /\ mode' = "running" /\ job' = "load" /\ jobSlug' = regs[cursor]
        /\ UNCHANGED <<read, regs, cursor, selReg, lastPip, runs, runCursor, detail>>
    BY <1>2 DEF RunKey
  <2>2. regs[cursor] \in Slugs
    BY <1>2 DEF RunKey, Inv, TablesOK
  <2>3. read["job"] = NoRead
    BY <2>1 DEF Inv, OneJob, CommandOK
  <2>4. ReadsOK' /\ LoadOK' /\ CommandOK' /\ OneJob'
    BY <1>1, <2>1, <2>2, <2>3 DEF Inv, ReadsOK, ReadOK, LoadOK, CommandOK, OneJob
  <2>5. TablesOK' /\ ViewOK'
    BY <1>1, <2>1 DEF Inv, TablesOK, ViewOK, ViewMatches
  <2>6. QED
    BY <1>1, <2>4, <2>5 DEF Inv
<1>3. CASE RunDone
  <2>1. /\ job = "done" /\ job' = "none" /\ mode' = "result" /\ lastPip' = jobSlug
        /\ read' = [read EXCEPT !["job"] = NoRead]
        /\ detail' = IF HasRead("job") THEN FirstOf(read["job"].got) ELSE NoRun
        /\ Reload /\ UNCHANGED <<jobSlug, jobRun, selReg, runs, runCursor>>
    BY <1>3 DEF RunDone
  <2>2. jobSlug \in Slugs
    BY <2>1 DEF Inv, CommandOK
  <2>3. detail' = NoRun \/ (detail' \in RunIDs /\ slugOf[detail'] = jobSlug)
    <3>1. CASE HasRead("job")
      <4>1. /\ read["job"].slug = jobSlug /\ read["job"].got \in Seq(RunIDs)
            /\ \A i \in ToSet(read["job"].got) : slugOf[i] = jobSlug
        BY <1>1, <3>1 DEF HasRead, Inv, CommandOK, ReadsOK, ReadOK
      <4>2. QED
        BY <2>1, <3>1, <4>1, FirstInPage, ToSetType
    <3>2. CASE ~HasRead("job")
      BY <2>1, <3>2
    <3>3. QED
      BY <3>1, <3>2
  <2>4. ReadsOK' /\ read'["job"] = NoRead /\ read'["tui"] = NoRead
    BY <1>1, <2>1, NoReadOK DEF Inv
  <2>5. LoadOK' /\ CommandOK' /\ OneJob'
    BY <2>1, <2>4 DEF LoadOK, CommandOK, OneJob
  <2>6. TablesOK'
    BY <2>1, <2>3, ReloadTypes DEF Inv
  <2>7. ViewOK'
    BY <1>1, <2>1, <2>2, <2>3 DEF ViewOK, ViewMatches
  <2>8. QED
    BY <1>1, <2>4, <2>5, <2>6, <2>7 DEF Inv
<1>4. CASE Quit
  <2>1. /\ mode' = "off" /\ job' = "none" /\ regs' = <<>> /\ cursor' = 1 /\ runCursor' = 1
        /\ runs' = <<>> /\ detail' = NoRun /\ read' = [read EXCEPT !["job"] = NoRead]
    BY <1>4 DEF Quit
  <2>2. ReadsOK' /\ read'["job"] = NoRead /\ read'["tui"] = NoRead
    BY <1>1, <2>1, NoReadOK DEF Inv
  <2>3. LoadOK' /\ CommandOK' /\ OneJob' /\ TablesOK' /\ ViewOK'
    BY <2>1, <2>2 DEF LoadOK, CommandOK, OneJob, TablesOK, ViewOK, ViewMatches
  <2>4. QED
    BY <1>1, <2>2, <2>3 DEF Inv
<1>5. QED
  BY <1>2, <1>3, <1>4

------------------------------------------------------------------------------
(* The theorems.                                                           *)

LEMMA InitInv == Init => Inv
<1> SUFFICES ASSUME Init PROVE Inv
  OBVIOUS
<1>1. \A r \in Readers : read[r] = NoRead
  BY DEF Init
<1>2. HistoryOK /\ ReadsOK /\ TablesOK
  BY <1>1 DEF Init, HistoryOK, ReadsOK, ReadOK, TablesOK
<1>3. LoadOK /\ CommandOK /\ OneJob /\ ViewOK
  BY <1>1 DEF Init, LoadOK, CommandOK, OneJob, ViewOK, ViewMatches, Readers
<1>4. QED
  BY <1>2, <1>3 DEF Inv

LEMMA NextInv == Inv /\ [Next]_vars => Inv'
<1>1. Inv /\ Next => Inv'
  BY OthersStep, ReadFileStep, OtherReadersStep, JobStep, QuietKeys, LoadingKeys, CommandKeys
     DEF Next, Keys
<1>2. Inv /\ UNCHANGED vars => Inv'
  <2> SUFFICES ASSUME Inv, UNCHANGED vars PROVE Inv'
    OBVIOUS
  <2>1. UNCHANGED <<history, slugOf, read, tui, jobVars>>
    BY DEF vars, store
  <2>2. QED
    BY <2>1 DEF Inv, HistoryOK, ReadsOK, ReadOK, LoadOK, CommandOK, TablesOK, OneJob,
                ViewOK, ViewMatches, tui, jobVars
<1>3. QED
  BY <1>1, <1>2

(* Whatever keys are pressed while commands and reads are under way, the   *)
(* TUI is in the running view exactly while a command of its is there.     *)
THEOREM OneCommand == Spec => []OneJob
<1>1. Inv => OneJob
  BY DEF Inv
<1>2. QED
  BY InitInv, NextInv, <1>1, PTL DEF Spec

(* The runs, the run and the result that the TUI shows are of the pipeline *)
(* that its banner names, however the store changes under it.              *)
THEOREM ViewsMatchBanner == Spec => []ViewMatches
<1>1. Inv => ViewMatches
  BY DEF Inv, ViewOK
<1>2. QED
  BY InitInv, NextInv, <1>1, PTL DEF Spec
------------------------------------------------------------------------------
(* The order of the names, and the page that store.Runs makes of them.     *)

LEMMA NameOrder ==
    /\ \A i \in RunIDs : ~NameBefore(i, i)
    /\ \A i, j \in RunIDs : i # j => NameBefore(i, j) \/ NameBefore(j, i)
    /\ \A i, j, k \in RunIDs : NameBefore(i, j) /\ NameBefore(j, k) => NameBefore(i, k)
<1>1. \A i \in RunIDs : i \in Nat /\ StartOf[i] \div 2 \in Nat
  BY DEF ViewsAssumption
<1>2. QED
  BY <1>1 DEF NameBefore

Descending(names) == \A k, n \in DOMAIN names : k < n => NameBefore(names[n], names[k])

LEMMA DirectoryInOrder ==
    ASSUME HistoryOK, NEW s \in Slugs
    PROVE  IsFiniteSet(history[s]) /\ Lists(InOrder(history[s], NewerName), history[s], NewerName)
<1>1. history[s] \in SUBSET RunIDs
  BY DEF HistoryOK
<1>2. IsFiniteSet(history[s])
  BY <1>1, FS_Subset
<1>3. \A i, j \in history[s] : <<i, j>> \in NewerName <=> NameBefore(j, i)
  BY <1>1 DEF NewerName
<1>4. Orders(NewerName, history[s])
  BY <1>1, <1>3, NameOrder DEF Orders
<1>5. QED
  BY <1>2, <1>4, Sorted

LEMMA FirstOfSeq ==
    ASSUME NEW S, NEW s \in Seq(S), NEW n \in Nat, n < Len(s)
    PROVE  /\ SubSeq(s, 1, n) \in Seq(S) /\ Len(SubSeq(s, 1, n)) = n
           /\ DOMAIN SubSeq(s, 1, n) = 1..n
           /\ \A k \in 1..n : SubSeq(s, 1, n)[k] = s[k]
OBVIOUS

(* The page: the newest names, in order; what is left out is older.        *)
LEMMA NewestPage ==
    ASSUME HistoryOK, NEW s \in Slugs, NEW limit \in Nat \ {0}
    PROVE  /\ NewestNames(s, limit) \in Seq(RunIDs) /\ Len(NewestNames(s, limit)) <= limit
           /\ ToSet(NewestNames(s, limit)) \subseteq history[s]
           /\ Descending(NewestNames(s, limit))
           /\ \A i \in history[s] \ ToSet(NewestNames(s, limit)) :
                /\ Cardinality(history[s]) > limit
                /\ \A j \in ToSet(NewestNames(s, limit)) : NameBefore(i, j)
           /\ history[s] # {} => ToSet(NewestNames(s, limit)) # {}
<1> DEFINE H == history[s]
           names == InOrder(H, NewerName)
           page == NewestNames(s, limit)
           m == IF Len(names) > limit THEN limit ELSE Len(names)
<1>1. H \subseteq RunIDs
  BY DEF HistoryOK
<1>2. Lists(names, H, NewerName)
  BY DirectoryInOrder
<1>3. names \in Seq(H) /\ Len(names) = Cardinality(H) /\ DOMAIN names = 1..Len(names) /\ Len(names) \in Nat
  BY <1>2 DEF Lists
<1>4. page = IF Len(names) > limit THEN SubSeq(names, 1, limit) ELSE names
  BY DEF NewestNames
<1> HIDE DEF names, page
<1>5. /\ page \in Seq(H) /\ Len(page) = m /\ DOMAIN page = 1..m /\ m \in Nat /\ m <= Len(names)
      /\ \A k \in 1..m : page[k] = names[k]
  <2>1. CASE Len(names) > limit
    <3> HIDE DEF H
    <3>1. limit \in Nat /\ limit < Len(names) /\ m = limit /\ page = SubSeq(names, 1, limit)
      BY <1>3, <1>4, <2>1
    <3>2. /\ page \in Seq(H) /\ Len(page) = limit /\ DOMAIN page = 1..limit
          /\ \A k \in 1..limit : page[k] = names[k]
      <4> HIDE DEF m
      <4>1. names \in Seq(H) /\ limit \in Nat /\ limit < Len(names)
        BY <1>3, <3>1
      <4>2. QED
        BY <3>1, <4>1, FirstOfSeq
    <3>3. QED
      BY <3>1, <3>2
  <2>2. CASE ~(Len(names) > limit)
    BY <1>3, <1>4, <2>2
  <2>3. QED
    BY <2>1, <2>2
<1>6. ToSet(page) = {names[k] : k \in 1..m}
  BY <1>5 DEF ToSet
<1>7. ToSet(page) \subseteq H
  BY <1>3, <1>5, <1>6
<1>8. ASSUME NEW i \in DOMAIN names, NEW j \in DOMAIN names, i < j PROVE NameBefore(names[j], names[i])
  BY <1>2, <1>8 DEF Lists, NewerName
<1>9. Descending(page)
  <2>1. SUFFICES ASSUME NEW k \in 1..m, NEW n \in 1..m, k < n PROVE NameBefore(names[n], names[k])
    BY <1>5 DEF Descending
  <2>2. k \in DOMAIN names /\ n \in DOMAIN names
    BY <1>3, <1>5, <2>1
  <2>3. QED
    BY <1>8, <2>1, <2>2
<1>10. ASSUME NEW i \in H \ ToSet(page)
       PROVE  Cardinality(H) > limit /\ \A j \in ToSet(page) : NameBefore(i, j)
  <2>1. PICK k \in DOMAIN names : names[k] = i
    BY <1>2 DEF Lists
  <2>2. k \notin 1..m
    BY <1>6, <1>10, <2>1
  <2>3. k \in Nat /\ k > m /\ Cardinality(H) > limit
    BY <1>3, <1>5, <2>2
  <2>4. ASSUME NEW j \in ToSet(page) PROVE NameBefore(i, j)
    <3>1. PICK n \in 1..m : names[n] = j
      BY <1>6
    <3>2. n \in DOMAIN names /\ n < k
      BY <1>3, <1>5, <2>3
    <3>3. QED
      BY <1>8, <2>1, <3>1, <3>2
  <2>5. QED
    BY <2>3, <2>4
<1>11. H # {} => ToSet(page) # {}
  <2>1. SUFFICES ASSUME NEW i \in H PROVE ToSet(page) # {}
    OBVIOUS
  <2>2. PICK k \in DOMAIN names : names[k] = i
    BY <1>2 DEF Lists
  <2>3. 1 \in 1..m
    BY <1>3
  <2>4. names[1] \in ToSet(page)
    <3> HIDE DEF m
    <3>1. QED
      BY <1>6, <2>3
  <2>5. QED
    BY <2>4
<1>12. page \in Seq(RunIDs)
  BY <1>1, <1>5
<1> HIDE DEF H, m
<1>13. Len(page) <= limit
  BY <1>3, <1>5 DEF m
<1>14. QED
  BY <1>7, <1>9, <1>10, <1>11, <1>12, <1>13 DEF H, page

(* The points of a widget.                                                 *)
LEMMA SeriesSorted ==
    ASSUME NEW page \in Seq(RunIDs)
    PROVE  /\ Series(page) \in Seq(RunIDs)
           /\ \A k \in 1..(Len(Series(page)) - 1) : StartOf[Series(page)[k]] < StartOf[Series(page)[k + 1]]
<1> DEFINE points == {page[k] : k \in {n \in DOMAIN page : value[page[n]] # "none"}}
           s == InOrder(points, EarlierStart)
<1>1. points \in SUBSET RunIDs
  OBVIOUS
<1>2. IsFiniteSet(points)
  BY <1>1, FS_Subset
<1> HIDE DEF points
<1>3. \A i, j \in points : <<i, j>> \in EarlierStart <=> StartOf[i] < StartOf[j]
  BY <1>1 DEF EarlierStart
<1>4. /\ \A i \in points : StartOf[i] \in Nat
      /\ \A i, j \in points : i # j => StartOf[i] # StartOf[j]
  BY <1>1 DEF ViewsAssumption, IsInjective
<1>5. Orders(EarlierStart, points)
  BY <1>3, <1>4 DEF Orders
<1>6. Lists(s, points, EarlierStart)
  BY <1>2, <1>5, Sorted
<1> HIDE DEF s
<1>7. s \in Seq(RunIDs) /\ DOMAIN s = 1..Len(s) /\ Len(s) \in Nat /\ \A k \in DOMAIN s : s[k] \in points
  <2>1. s \in Seq(points)
    BY <1>6 DEF Lists
  <2>2. s \in Seq(RunIDs)
    BY <1>1, <2>1, SeqOfSubset
  <2>3. QED
    BY <2>1, <2>2
<1>8. ASSUME NEW k \in 1..(Len(s) - 1) PROVE StartOf[s[k]] < StartOf[s[k + 1]]
  <2>1. k \in DOMAIN s /\ k + 1 \in DOMAIN s /\ k < k + 1
    BY <1>7
  <2>2. QED
    BY <1>3, <1>6, <1>7, <2>1 DEF Lists
<1>9. Series(page) \in {<<>>, s}
  BY DEF Series, s, points
<1>10. CASE Series(page) = s
  BY <1>7, <1>8, <1>10
<1>11. CASE Series(page) = <<>>
  BY <1>11
<1>12. QED
  BY <1>9, <1>10, <1>11
------------------------------------------------------------------------------
(* What a step does to the store and to the readers.                       *)

LEMMA StoreSteps ==
    ASSUME Next
    PROVE  \/ UNCHANGED store
           \/ UNCHANGED <<read, viewer, value, tui, jobVars, printed, shown>> /\ Others
           \/ Execute \/ RecordRun \/ WriteRun
<1> USE DEF store
<1>1. CASE Others
  BY <1>1 DEF Others, PurgeRuns, CreateFile, CompleteFile
<1>2. CASE RunTUI \/ Keys \/ LoadRuns \/ RunDone
  BY <1>2 DEF Keys, RunTUI, Move, ReloadKey, EnterList, ReloadRuns, EnterRuns, Back, RunKey, Quit, LoadRuns,
              RunDone, Stay
<1>3. CASE (\E r \in Readers : ReadFile(r)) \/ PrintRuns \/ (\E s \in Slugs, limit \in {1, PageSize} : Ask(s, limit))
           \/ (\E p \in Polls : Poll(p) \/ Mount(p) \/ PollFails(p))
  BY <1>3 DEF ReadFile, PrintRuns, Ask, Poll, Mount, PollFails
<1>4. CASE Job
  BY <1>4 DEF Job, LoadFails, LastRun, SendDone
<1>5. QED
  BY <1>1, <1>2, <1>3, <1>4 DEF Next

Stops(q) == read' = [read EXCEPT ![q] = NoRead]
Starts(q) == \E s \in Slugs, limit \in {1, PageSize} : read' = [read EXCEPT ![q] = ReadDir(s, limit)] /\ UNCHANGED store

LEMMA ReadSteps ==
    ASSUME Inv, Next
    PROVE  UNCHANGED read \/ \E q \in Readers : Stops(q) \/ Starts(q) \/ ReadFile(q)
<1> USE DEF Stops, Starts
<1>0. {"tui", "job", "command"} \subseteq Readers /\ Polls \subseteq Readers
  BY DEF Readers
<1>1. CASE Others \/ RunTUI \/ Move \/ ReloadKey \/ EnterRuns \/ Back \/ RunKey
           \/ LoadFails \/ Execute \/ RecordRun \/ WriteRun \/ SendDone
  BY <1>1 DEF Others, PurgeRuns, CreateFile, CompleteFile, RunTUI, Move, ReloadKey, EnterRuns, Back, RunKey,
              LoadFails, Execute, RecordRun, WriteRun, SendDone
<1>2. CASE LoadRuns \/ Quit \/ RunDone \/ PrintRuns \/ (\E p \in Polls : Mount(p) \/ PollFails(p))
  BY <1>0, <1>2 DEF LoadRuns, Quit, RunDone, PrintRuns, Mount, PollFails
<1>3. CASE EnterList
  <2>1. regs[cursor] \in Slugs
    BY <1>3 DEF EnterList, Inv, TablesOK
  <2>2. QED
    BY <1>0, <1>3, <2>1 DEF EnterList, Stay
<1>4. CASE ReloadRuns
  <2>1. selReg \in Slugs
    BY <1>4 DEF ReloadRuns, Inv, ViewOK
  <2>2. QED
    BY <1>0, <1>4, <2>1 DEF ReloadRuns, Stay
<1>5. CASE LastRun
  <2>1. jobSlug \in Slugs
    BY <1>5 DEF LastRun, Inv, CommandOK
  <2>2. QED
    BY <1>0, <1>5, <2>1 DEF LastRun, Aside, store
<1>6. CASE (\E s \in Slugs, limit \in {1, PageSize} : Ask(s, limit)) \/ (\E p \in Polls : Poll(p))
  BY <1>0, <1>6 DEF Ask, Poll, ViewsAssumption
<1>7. CASE \E q \in Readers : ReadFile(q)
  BY <1>7
<1>8. QED
  BY <1>1, <1>2, <1>3, <1>4, <1>5, <1>6, <1>7 DEF Next, Keys, Job

------------------------------------------------------------------------------
(* Type correctness.                                                       *)

(* What TypeOK says beyond Inv.                                            *)
StoreTyped == complete \subseteq RunIDs /\ writing \subseteq RunIDs \ complete

ReadsTyped == read \in [Readers -> Reads \cup {NoRead}]

ViewerTyped ==
    /\ mode \in Modes /\ selReg \in Slugs \cup {NoSlug} /\ lastPip \in Slugs \cup {NoSlug}
    /\ viewer \in {"tui", "widget", "command"} /\ (viewer # "tui" => mode = "off")

JobTyped ==
    /\ job \in {"none", "load", "run", "write", "last", "done"}
    /\ jobSlug \in Slugs \cup {NoSlug} /\ jobRun \in RunIDs \cup {NoRun}

AnswersTyped ==
    /\ printed \in Seq(RunIDs) /\ value \in [RunIDs -> Values]
    /\ shown \in Seq(RunIDs) /\ SeriesInOrder

(* Why no run is both written and being written: only a run that has no    *)
(* pipeline yet gets a file, and the TUI's own run is nobody else's.       *)
RunsApart ==
    /\ \A i \in writing \cup complete : slugOf[i] # NoSlug
    /\ jobRun # NoRun => slugOf[jobRun] = jobSlug /\ jobSlug \in Slugs /\ jobRun \notin writing
    /\ job = "load" => jobRun = NoRun
    /\ job \in {"run", "write"} => jobRun # NoRun
    /\ job = "run" => jobRun \notin complete
    /\ job = "done" /\ jobRun # NoRun => HasRead("job")

Typed == StoreTyped /\ ReadsTyped /\ ViewerTyped /\ JobTyped /\ AnswersTyped /\ RunsApart

LEMMA TypeParts == Inv /\ Typed => TypeOK
BY DEF Inv, HistoryOK, TablesOK, Typed, StoreTyped, ReadsTyped, ViewerTyped, JobTyped, AnswersTyped, TypeOK

LEMMA ReadDirTyped ==
    ASSUME HistoryOK, NEW s \in Slugs, NEW limit \in {1, PageSize}
    PROVE  ReadDir(s, limit) \in Reads
<1>1. limit \in Nat \ {0}
  BY DEF ViewsAssumption
<1>2. NewestNames(s, limit) \in Seq(RunIDs)
  BY <1>1, NewestPage
<1>3. history[s] \cap complete \in SUBSET RunIDs /\ <<>> \in Seq(RunIDs)
  BY DEF HistoryOK
<1>4. (Cardinality(history[s]) > limit) \in BOOLEAN
  OBVIOUS
<1>5. QED
  BY <1>2, <1>3, <1>4 DEF ReadDir, Reads

(* One file is read.                                                       *)
LEMMA ReadFileEffect ==
    ASSUME ReadsTyped, NEW q \in Readers, ReadFile(q)
    PROVE  /\ read[q] \in Reads /\ read[q].left # <<>> /\ read' \in [Readers -> Reads \cup {NoRead}]
           /\ \A r \in Readers \ {q} : read'[r] = read[r]
           /\ read'[q] \in Reads /\ read'[q].slug = read[q].slug
           /\ read'[q].limited = read[q].limited /\ read'[q].before = read[q].before
           /\ read'[q].left = Tail(read[q].left)
           /\ read'[q].got = IF Head(read[q].left) \in history[read[q].slug] \cap complete
                             THEN Append(read[q].got, Head(read[q].left)) ELSE read[q].got
           /\ UNCHANGED <<viewer, value, store, tui, jobVars, printed, shown>>
<1> DEFINE i == Head(read[q].left)
           got == IF i \in history[read[q].slug] \cap complete THEN Append(read[q].got, i) ELSE read[q].got
<1>1. read[q] \in Reads /\ read[q].left # <<>> /\ read[q].left \in Seq(RunIDs) /\ read[q].got \in Seq(RunIDs)
  BY DEF ReadFile, ReadsTyped, Reads
<1>2. i \in RunIDs /\ Tail(read[q].left) \in Seq(RunIDs)
  BY <1>1
<1>3. got \in Seq(RunIDs)
  BY <1>1, <1>2
<1>4. read' = [read EXCEPT ![q] = [read[q] EXCEPT !.left = Tail(read[q].left), !.got = got]]
  BY <1>1 DEF ReadFile, ReadsTyped, Reads
<1> HIDE DEF i, got
<1>5. [read[q] EXCEPT !.left = Tail(read[q].left), !.got = got] \in Reads
  BY <1>1, <1>2, <1>3 DEF Reads
<1>6. /\ [read[q] EXCEPT !.left = Tail(read[q].left), !.got = got].slug = read[q].slug
      /\ [read[q] EXCEPT !.left = Tail(read[q].left), !.got = got].limited = read[q].limited
      /\ [read[q] EXCEPT !.left = Tail(read[q].left), !.got = got].before = read[q].before
      /\ [read[q] EXCEPT !.left = Tail(read[q].left), !.got = got].left = Tail(read[q].left)
      /\ [read[q] EXCEPT !.left = Tail(read[q].left), !.got = got].got = got
  BY <1>1 DEF Reads
<1>7. /\ read'[q] = [read[q] EXCEPT !.left = Tail(read[q].left), !.got = got]
      /\ \A r \in Readers \ {q} : read'[r] = read[r]
      /\ read' \in [Readers -> Reads \cup {NoRead}]
  BY <1>4, <1>5 DEF ReadsTyped
<1>8. UNCHANGED <<viewer, value, store, tui, jobVars, printed, shown>>
  BY DEF ReadFile
<1>9. QED
  BY <1>1, <1>5, <1>6, <1>7, <1>8 DEF i, got

LEMMA ReadsTypedStep == ASSUME Inv, Typed, Next PROVE ReadsTyped'
<1> USE DEF Typed, ReadsTyped
<1>1. CASE UNCHANGED read
  BY <1>1
<1>2. ASSUME NEW q \in Readers, Stops(q) PROVE ReadsTyped'
  BY <1>2 DEF Stops
<1>3. ASSUME NEW q \in Readers, Starts(q) PROVE ReadsTyped'
  <2>1. PICK s \in Slugs, limit \in {1, PageSize} : read' = [read EXCEPT ![q] = ReadDir(s, limit)]
    BY <1>3 DEF Starts
  <2>2. ReadDir(s, limit) \in Reads
    BY ReadDirTyped DEF Inv
  <2>3. QED
    BY <2>1, <2>2
<1>4. ASSUME NEW q \in Readers, ReadFile(q) PROVE ReadsTyped'
  BY <1>4, ReadFileEffect
<1>5. QED
  BY <1>1, <1>2, <1>3, <1>4, ReadSteps

LEMMA StoreTypedStep == ASSUME Inv, Typed, Next PROVE StoreTyped'
<1> USE DEF Typed, StoreTyped
<1>1. CASE UNCHANGED store
  BY <1>1 DEF store
<1>2. CASE Others
  <2>1. ASSUME NEW s \in Slugs, PurgeRuns(s) PROVE StoreTyped'
    BY <2>1 DEF PurgeRuns
  <2>2. ASSUME NEW s \in Slugs, NEW i \in RunIDs, CreateFile(s, i) PROVE StoreTyped'
    BY <2>2 DEF CreateFile, RunsApart
  <2>3. ASSUME NEW i \in RunIDs, CompleteFile(i) PROVE StoreTyped'
    BY <2>3 DEF CompleteFile
  <2>4. QED
    BY <1>2, <2>1, <2>2, <2>3 DEF Others
<1>3. CASE Execute \/ RecordRun
  BY <1>3 DEF Execute, RecordRun
<1>4. CASE WriteRun
  <2>1. job = "write" /\ UNCHANGED writing /\ complete' \subseteq complete \cup {jobRun}
    BY <1>4 DEF WriteRun, NextJob
  <2>2. jobRun \in RunIDs \ writing
    BY <2>1 DEF RunsApart, JobTyped
  <2>3. complete' \subseteq RunIDs
    BY <2>1, <2>2
  <2>4. QED
    BY <2>1, <2>2, <2>3
<1>5. QED
  BY <1>1, <1>2, <1>3, <1>4, StoreSteps

LEMMA ViewerTypedStep == ASSUME Inv, Typed, Next PROVE ViewerTyped'
<1> USE DEF Typed, ViewerTyped, Modes
<1>1. CASE UNCHANGED <<viewer, tui>>
  BY <1>1 DEF tui
<1>2. CASE RunTUI \/ Move \/ ReloadKey \/ EnterRuns \/ Back
  BY <1>2 DEF RunTUI, Move, ReloadKey, EnterRuns, Back, Idle, Stay
<1>3. CASE EnterList
  <2>1. regs[cursor] \in Slugs
    BY <1>3 DEF EnterList, Inv, TablesOK
  <2>2. QED
    BY <1>3, <2>1 DEF EnterList, Stay
<1>4. CASE LoadRuns
  BY <1>4 DEF LoadRuns, HasRead, Inv, LoadOK, Stay
<1>5. CASE RunDone
  BY <1>5 DEF RunDone, Idle, JobTyped
<1>6. CASE RunKey \/ Quit
  BY <1>6 DEF RunKey, Quit, Idle
<1>7. QED
  <2>1. CASE Others \/ ReloadRuns \/ Job
    BY <1>1, <2>1 DEF Others, PurgeRuns, CreateFile, CompleteFile, ReloadRuns, Stay, Job, LoadFails, Execute,
                      RecordRun, WriteRun, LastRun, SendDone, Aside
  <2>2. CASE (\E r \in Readers : ReadFile(r)) \/ PrintRuns \/ (\E s \in Slugs, limit \in {1, PageSize} : Ask(s, limit))
             \/ (\E p \in Polls : Poll(p) \/ Mount(p) \/ PollFails(p))
    BY <1>1, <2>2 DEF ReadFile, PrintRuns, Ask, Poll, Mount, PollFails
  <2>3. QED
    BY <1>2, <1>3, <1>4, <1>5, <1>6, <2>1, <2>2 DEF Next, Keys

LEMMA JobTypedStep == ASSUME Inv, Typed, Next PROVE JobTyped'
<1> USE DEF Typed, JobTyped
<1>1. CASE UNCHANGED jobVars
  BY <1>1 DEF jobVars
<1>2. CASE RunKey
  <2>1. regs[cursor] \in Slugs
    BY <1>2 DEF RunKey, Inv, TablesOK
  <2>2. QED
    BY <1>2, <2>1 DEF RunKey
<1>3. CASE Quit \/ RunDone
  BY <1>3 DEF Quit, RunDone
<1>4. CASE Job
  BY <1>4 DEF Job, LoadFails, Execute, RecordRun, WriteRun, LastRun, SendDone, NextJob, Aside
<1>5. QED
  <2>1. CASE Others \/ RunTUI \/ Move \/ ReloadKey \/ EnterList \/ ReloadRuns \/ EnterRuns \/ Back \/ LoadRuns
    BY <1>1, <2>1 DEF Others, PurgeRuns, CreateFile, CompleteFile, RunTUI, Move, ReloadKey, EnterList, ReloadRuns,
                      EnterRuns, Back, LoadRuns, Stay
  <2>2. CASE (\E r \in Readers : ReadFile(r)) \/ PrintRuns \/ (\E s \in Slugs, limit \in {1, PageSize} : Ask(s, limit))
             \/ (\E p \in Polls : Poll(p) \/ Mount(p) \/ PollFails(p))
    BY <1>1, <2>2 DEF ReadFile, PrintRuns, Ask, Poll, Mount, PollFails
  <2>3. QED
    BY <1>2, <1>3, <1>4, <2>1, <2>2 DEF Next, Keys

LEMMA AnswersTypedStep == ASSUME Inv, Typed, Next PROVE AnswersTyped'
<1> USE DEF Typed, AnswersTyped
<1>1. ASSUME UNCHANGED <<value, shown>>, printed' \in Seq(RunIDs) PROVE AnswersTyped'
  BY <1>1 DEF SeriesInOrder
<1>2. ASSUME NEW q \in Readers, HasRead(q) PROVE read[q].got \in Seq(RunIDs)
  BY <1>2 DEF HasRead, ReadsTyped, Reads
<1>3. CASE PrintRuns
  BY <1>1, <1>2, <1>3 DEF PrintRuns, Readers
<1>4. ASSUME NEW p \in Polls, Mount(p) PROVE AnswersTyped'
  <2>1. shown' = Series(read[p].got) /\ UNCHANGED <<value, printed>> /\ read[p].got \in Seq(RunIDs)
    BY <1>2, <1>4 DEF Mount, Readers
  <2>2. QED
    BY <2>1, SeriesSorted DEF SeriesInOrder
<1>5. ASSUME NEW p \in Polls, PollFails(p) PROVE AnswersTyped'
  <2>1. UNCHANGED <<value, printed>> /\ shown' \in {<<>>, shown}
    BY <1>5 DEF PollFails
  <2>2. CASE shown' = <<>>
    <3>1. <<>> \in Seq(RunIDs) /\ Len(<<>>) = 0
      OBVIOUS
    <3>2. QED
      BY <2>1, <2>2, <3>1 DEF SeriesInOrder
  <2>3. CASE shown' = shown
    BY <1>1, <2>1, <2>3
  <2>4. QED
    BY <2>1, <2>2, <2>3
<1>6. CASE UNCHANGED <<value, shown, printed>>
  BY <1>1, <1>6
<1>7. QED
  <2>1. CASE Others \/ Job
    BY <1>6, <2>1 DEF Others, PurgeRuns, CreateFile, CompleteFile, Job, LoadFails, Execute, RecordRun, WriteRun,
                      LastRun, SendDone, Aside
  <2>2. CASE RunTUI \/ Keys \/ LoadRuns \/ RunDone
    BY <1>6, <2>2 DEF Keys, RunTUI, Move, ReloadKey, EnterList, ReloadRuns, EnterRuns, Back, RunKey, Quit,
                      LoadRuns, RunDone, Stay
  <2>3. CASE (\E r \in Readers : ReadFile(r)) \/ (\E s \in Slugs, limit \in {1, PageSize} : Ask(s, limit))
             \/ (\E p \in Polls : Poll(p))
    BY <1>6, <2>3 DEF ReadFile, Ask, Poll
  <2>4. QED
    BY <1>3, <1>4, <1>5, <2>1, <2>2, <2>3 DEF Next
LEMMA RunsApartStep == ASSUME Inv, Inv', Typed, Next PROVE RunsApart'
<1> USE DEF Typed, RunsApart
<1>0. "job" \in Readers
  BY DEF Readers
<1>1. ASSUME UNCHANGED <<store, jobVars>>, read'["job"] = read["job"] PROVE RunsApart'
  BY <1>1 DEF store, jobVars, HasRead
<1>2. CASE Others
  <2>1. UNCHANGED <<read, jobVars>>
    BY <1>2 DEF Others, PurgeRuns, CreateFile, CompleteFile
  <2>2. ASSUME NEW s \in Slugs, PurgeRuns(s) PROVE RunsApart'
    BY <2>1, <2>2 DEF PurgeRuns, jobVars, HasRead
  <2>3. ASSUME NEW s \in Slugs, NEW i \in RunIDs, CreateFile(s, i) PROVE RunsApart'
    <3>1. /\ slugOf[i] = NoSlug /\ slugOf'[i] = s /\ s # NoSlug
          /\ \A j \in RunIDs : j # i => slugOf'[j] = slugOf[j]
          /\ writing' = writing \cup {i} /\ complete' = complete
      BY <2>3 DEF CreateFile, Inv, HistoryOK, ViewsAssumption
    <3>2. writing \cup complete \subseteq RunIDs /\ jobRun \in RunIDs \cup {NoRun}
      BY DEF StoreTyped, JobTyped
    <3>3. jobRun # NoRun => jobRun # i
      BY <3>1, <3>2 DEF ViewsAssumption
    <3>4. QED
      BY <2>1, <3>1, <3>2, <3>3 DEF jobVars, HasRead
  <2>4. ASSUME NEW i \in RunIDs, CompleteFile(i) PROVE RunsApart'
    <3>1. i \in writing /\ writing' = writing \ {i} /\ complete' = complete \cup {i} /\ UNCHANGED slugOf
      BY <2>4 DEF CompleteFile
    <3>2. job = "run" => jobRun # i
      BY <3>1
    <3>3. QED
      BY <2>1, <3>1, <3>2 DEF jobVars, HasRead
  <2>5. QED
    BY <1>2, <2>2, <2>3, <2>4 DEF Others
<1>3. ASSUME NEW q \in Readers, ReadFile(q) PROVE RunsApart'
  <2>1. read[q].left # <<>> /\ UNCHANGED <<store, jobVars>> /\ \A r \in Readers \ {q} : read'[r] = read[r]
    BY <1>3, ReadFileEffect
  <2>2. CASE q # "job"
    BY <1>0, <1>1, <2>1, <2>2
  <2>3. CASE q = "job"
    BY <2>1, <2>3 DEF store, jobVars, HasRead
  <2>4. QED
    BY <2>2, <2>3
<1>4. CASE RunTUI \/ Move \/ ReloadKey \/ EnterRuns \/ Back
  BY <1>1, <1>4 DEF RunTUI, Move, ReloadKey, EnterRuns, Back, Stay
<1>5. CASE EnterList \/ ReloadRuns \/ LoadRuns
  <2>1. UNCHANGED read \/ \E v : read' = [read EXCEPT !["tui"] = v]
    BY <1>5 DEF EnterList, ReloadRuns, LoadRuns
  <2>2. read'["job"] = read["job"]
    BY <1>0, <2>1 DEF ReadsTyped
  <2>3. QED
    BY <1>1, <1>5, <2>2 DEF EnterList, ReloadRuns, LoadRuns, Stay
<1>6. CASE PrintRuns \/ (\E s \in Slugs, limit \in {1, PageSize} : Ask(s, limit))
           \/ (\E p \in Polls : Poll(p) \/ Mount(p) \/ PollFails(p))
  <2>1. \E q \in {"command"} \cup Polls : \E v : read' = [read EXCEPT ![q] = v]
    <3>1. CASE PrintRuns \/ (\E s \in Slugs, limit \in {1, PageSize} : Ask(s, limit))
      BY <3>1 DEF PrintRuns, Ask
    <3>2. CASE \E p \in Polls : Poll(p) \/ Mount(p) \/ PollFails(p)
      BY <3>2 DEF Poll, Mount, PollFails
    <3>3. QED
      BY <1>6, <3>1, <3>2
  <2>2. read'["job"] = read["job"]
    BY <1>0, <2>1 DEF ReadsTyped, ViewsAssumption
  <2>3. QED
    BY <1>1, <1>6, <2>2 DEF PrintRuns, Ask, Poll, Mount, PollFails
<1>7. CASE RunKey \/ Quit
  BY <1>7 DEF RunKey, Quit, store
<1>8. CASE RunDone
  BY <1>8 DEF RunDone, store
<1>9. CASE LoadFails
  BY <1>9 DEF LoadFails, NextJob, Aside
<1>10. CASE Execute
  <2>1. PICK i \in RunIDs : slugOf[i] = NoSlug /\ jobRun' = i /\ slugOf' = [slugOf EXCEPT ![i] = jobSlug]
    BY <1>10 DEF Execute
  <2>2. /\ job' = "run" /\ jobSlug \in Slugs /\ UNCHANGED <<complete, writing, jobSlug>>
    BY <1>10 DEF Execute, NextJob, Aside, Inv, CommandOK
  <2>3. slugOf'[i] = jobSlug /\ (\A j \in RunIDs : j # i => slugOf'[j] = slugOf[j]) /\ i \notin writing \cup complete
    BY <2>1 DEF Inv, HistoryOK
  <2>4. writing \cup complete \subseteq RunIDs
    BY DEF StoreTyped
  <2>5. QED
    BY <2>1, <2>2, <2>3, <2>4
<1>11. CASE RecordRun
  BY <1>11 DEF RecordRun, NextJob, Aside
<1>12. CASE WriteRun
  <2>1. /\ job = "write" /\ job' = "last" /\ UNCHANGED <<writing, slugOf, jobRun, jobSlug>>
        /\ complete' \subseteq complete \cup {jobRun}
    BY <1>12 DEF WriteRun, NextJob, Aside
  <2>2. QED
    BY <2>1 DEF ViewsAssumption
<1>13. CASE LastRun
  BY <1>13 DEF LastRun, Aside
<1>14. CASE SendDone
  BY <1>14 DEF SendDone, NextJob, Aside, HasRead
<1>15. QED
  BY <1>2, <1>3, <1>4, <1>5, <1>6, <1>7, <1>8, <1>9, <1>10, <1>11, <1>12, <1>13, <1>14 DEF Next, Keys, Job

LEMMA TypedStep == Inv /\ Inv' /\ Typed /\ [Next]_vars => Typed'
<1>1. Inv /\ Inv' /\ Typed /\ Next => Typed'
  BY StoreTypedStep, ReadsTypedStep, ViewerTypedStep, JobTypedStep, AnswersTypedStep, RunsApartStep DEF Typed
<1>2. Typed /\ UNCHANGED vars => Typed'
  BY DEF vars, store, tui, jobVars, Typed, StoreTyped, ReadsTyped, ViewerTyped, JobTyped, AnswersTyped,
         SeriesInOrder, RunsApart, HasRead
<1>3. QED
  BY <1>1, <1>2

LEMMA TypedInit == Init => Typed
BY DEF Init, Typed, StoreTyped, ReadsTyped, ViewerTyped, JobTyped, AnswersTyped, SeriesInOrder, RunsApart,
       Modes, Values, ViewsAssumption

LEMMA AlwaysTyped == Spec => [](Inv /\ Typed)
BY InitInv, NextInv, TypedInit, TypedStep, PTL DEF Spec

(* The variables keep their types: the cursors stay within their tables    *)
(* through every reload, a run in the history is of one pipeline, and no   *)
(* run is both written and being written.                                  *)
THEOREM TypeCorrect == Spec => []TypeOK
BY AlwaysTyped, TypeParts, PTL

(* The points of a widget are in the order of the starts, whatever order   *)
(* the names of a second's files have.                                     *)
THEOREM PointsInOrder == Spec => []SeriesInOrder
<1>1. Typed => SeriesInOrder
  BY DEF Typed, AnswersTyped
<1>2. QED
  BY AlwaysTyped, <1>1, PTL
------------------------------------------------------------------------------
(* The pages.                                                              *)

LEMMA Behead ==
    ASSUME NEW s \in Seq(RunIDs), s # <<>>
    PROVE  /\ Head(s) \in RunIDs /\ Tail(s) \in Seq(RunIDs) /\ ToSet(s) = {Head(s)} \cup ToSet(Tail(s))
           /\ Len(s) = Len(Tail(s)) + 1
           /\ Descending(s) => Descending(Tail(s)) /\ \A j \in ToSet(Tail(s)) : NameBefore(j, Head(s))
<1>1. /\ Len(s) \in Nat /\ Len(s) >= 1 /\ Head(s) = s[1] /\ Tail(s) \in Seq(RunIDs)
      /\ DOMAIN s = 1..Len(s) /\ DOMAIN Tail(s) = 1..(Len(s) - 1) /\ Len(s) = Len(Tail(s)) + 1
      /\ \A k \in 1..(Len(s) - 1) : Tail(s)[k] = s[k + 1]
      /\ Head(s) \in RunIDs
  OBVIOUS
<1>2. ToSet(s) = {Head(s)} \cup ToSet(Tail(s))
  <2>1. ASSUME NEW k \in 1..Len(s) PROVE s[k] \in {Head(s)} \cup {Tail(s)[n] : n \in 1..(Len(s) - 1)}
    <3>1. CASE k = 1
      BY <1>1, <3>1
    <3>2. CASE k # 1
      <4>1. k - 1 \in 1..(Len(s) - 1) /\ s[(k - 1) + 1] = s[k]
        BY <1>1, <3>2
      <4>2. QED
        BY <1>1, <4>1
    <3>3. QED
      BY <3>1, <3>2
  <2>2. ASSUME NEW n \in 1..(Len(s) - 1) PROVE Tail(s)[n] \in {s[k] : k \in 1..Len(s)}
    <3>1. n + 1 \in 1..Len(s)
      BY <1>1
    <3>2. QED
      BY <1>1, <3>1
  <2>3. Head(s) \in {s[k] : k \in 1..Len(s)}
    BY <1>1
  <2>4. /\ ToSet(s) = {s[k] : k \in 1..Len(s)}
        /\ ToSet(Tail(s)) = {Tail(s)[n] : n \in 1..(Len(s) - 1)}
    BY <1>1 DEF ToSet
  <2>5. ToSet(s) \subseteq {Head(s)} \cup ToSet(Tail(s))
    BY <2>1, <2>4
  <2>6. {Head(s)} \cup ToSet(Tail(s)) \subseteq ToSet(s)
    BY <2>2, <2>3, <2>4
  <2>7. QED
    BY <2>5, <2>6
<1>3. ASSUME Descending(s)
      PROVE  Descending(Tail(s)) /\ \A j \in ToSet(Tail(s)) : NameBefore(j, Head(s))
  <2>1. ASSUME NEW k \in 1..(Len(s) - 1), NEW n \in 1..(Len(s) - 1), k < n
        PROVE  NameBefore(Tail(s)[n], Tail(s)[k])
    <3>1. k + 1 \in DOMAIN s /\ n + 1 \in DOMAIN s /\ k + 1 < n + 1
      BY <1>1, <2>1
    <3>2. QED
      BY <1>1, <1>3, <3>1 DEF Descending
  <2>2. ASSUME NEW n \in 1..(Len(s) - 1) PROVE NameBefore(Tail(s)[n], Head(s))
    <3>1. n + 1 \in DOMAIN s /\ 1 \in DOMAIN s /\ 1 < n + 1
      BY <1>1
    <3>2. QED
      BY <1>1, <1>3, <3>1 DEF Descending
  <2>3. Descending(Tail(s))
    BY <1>1, <2>1 DEF Descending
  <2>4. QED
    BY <1>1, <2>2, <2>3 DEF ToSet
<1>4. QED
  BY <1>1, <1>2, <1>3

LEMMA AppendOlder ==
    ASSUME NEW s \in Seq(RunIDs), NEW i \in RunIDs
    PROVE  /\ Append(s, i) \in Seq(RunIDs) /\ ToSet(Append(s, i)) = ToSet(s) \cup {i}
           /\ Len(Append(s, i)) = Len(s) + 1
           /\ Descending(s) /\ (\A j \in ToSet(s) : NameBefore(i, j)) => Descending(Append(s, i))
<1> DEFINE t == Append(s, i)
<1>1. /\ Len(s) \in Nat /\ DOMAIN s = 1..Len(s) /\ DOMAIN t = 1..(Len(s) + 1) /\ t \in Seq(RunIDs)
      /\ \A k \in 1..Len(s) : t[k] = s[k]
      /\ t[Len(s) + 1] = i /\ Len(t) = Len(s) + 1
  OBVIOUS
<1> HIDE DEF t
<1>2. ToSet(t) = ToSet(s) \cup {i}
  <2>1. \A k \in 1..(Len(s) + 1) : k \in 1..Len(s) \/ k = Len(s) + 1
    BY <1>1
  <2>2. 1..Len(s) \subseteq 1..(Len(s) + 1) /\ Len(s) + 1 \in 1..(Len(s) + 1)
    BY <1>1
  <2>3. QED
    BY <1>1, <2>1, <2>2 DEF ToSet
<1>3. ASSUME Descending(s), \A j \in ToSet(s) : NameBefore(i, j) PROVE Descending(t)
  <2>1. SUFFICES ASSUME NEW k \in 1..(Len(s) + 1), NEW n \in 1..(Len(s) + 1), k < n
                 PROVE  NameBefore(t[n], t[k])
    BY <1>1 DEF Descending
  <2>2. k \in DOMAIN s /\ s[k] \in ToSet(s) /\ t[k] = s[k]
    BY <1>1, <2>1 DEF ToSet
  <2>3. CASE n = Len(s) + 1
    BY <1>1, <1>3, <2>2, <2>3
  <2>4. CASE n # Len(s) + 1
    <3>1. n \in DOMAIN s /\ t[n] = s[n]
      BY <1>1, <2>4
    <3>2. QED
      BY <1>3, <2>1, <2>2, <3>1 DEF Descending
  <2>5. QED
    BY <2>3, <2>4
<1>4. QED
  BY <1>1, <1>2, <1>3 DEF t

(* Files that were complete stay so, and none of them enters the history.  *)
LEMMA StoreGrows ==
    ASSUME Inv, Typed, Next
    PROVE  /\ complete \subseteq complete'
           /\ \A i \in RunIDs : slugOf[i] # NoSlug => slugOf'[i] = slugOf[i]
           /\ \A s \in Slugs : history'[s] \cap complete \subseteq history[s]
<1> USE DEF Inv, HistoryOK, Typed, StoreTyped, RunsApart
<1>1. CASE UNCHANGED store
  BY <1>1 DEF store
<1>2. CASE Others
  <2>1. ASSUME NEW s \in Slugs, PurgeRuns(s)
        PROVE  complete' = complete /\ slugOf' = slugOf /\ \A t \in Slugs : history'[t] \subseteq history[t]
    BY <2>1 DEF PurgeRuns
  <2>2. ASSUME NEW s \in Slugs, NEW i \in RunIDs, CreateFile(s, i)
        PROVE  /\ complete' = complete /\ i \notin complete
               /\ \A j \in RunIDs : slugOf[j] # NoSlug => slugOf'[j] = slugOf[j]
               /\ \A t \in Slugs : history'[t] \subseteq history[t] \cup {i}
    BY <2>2 DEF CreateFile
  <2>3. ASSUME NEW i \in RunIDs, CompleteFile(i)
        PROVE  complete \subseteq complete' /\ slugOf' = slugOf /\ history' = history
    BY <2>3 DEF CompleteFile
  <2>4. QED
    BY <1>2, <2>1, <2>2, <2>3 DEF Others
<1>3. CASE Execute
  BY <1>3 DEF Execute, Aside
<1>4. CASE RecordRun
  <2>1. /\ UNCHANGED <<complete, slugOf>> /\ job = "run"
        /\ \A t \in Slugs : history'[t] \subseteq history[t] \cup {jobRun}
    BY <1>4 DEF RecordRun, NextJob
  <2>2. QED
    BY <2>1
<1>5. CASE WriteRun
  BY <1>5 DEF WriteRun
<1>6. QED
  BY <1>1, <1>2, <1>3, <1>4, <1>5, StoreSteps

(* A page on its way: the records read and the names left are in order,    *)
(* and a run that was there all the time is among them, or the limit has   *)
(* left it out for newer names.                                            *)
Names(r) == ToSet(read[r].got) \cup ToSet(read[r].left)

PageOK(r) ==
    /\ Descending(read[r].got) /\ Descending(read[r].left)
    /\ \A i \in ToSet(read[r].got), j \in ToSet(read[r].left) : NameBefore(j, i)
    /\ ToSet(read[r].got) \subseteq complete /\ read[r].before \subseteq complete
    /\ \A i \in ToSet(read[r].left) : slugOf[i] = read[r].slug
    /\ \A i \in (read[r].before \cap history[read[r].slug]) \ Names(r) :
         read[r].limited /\ \A j \in Names(r) : NameBefore(i, j)

PagesOK == \A r \in Readers : read[r] # NoRead => PageOK(r)

LEMMA PageStays ==
    ASSUME Inv, Typed, Next, NEW r \in Readers, read[r] # NoRead, PageOK(r), read'[r] = read[r]
    PROVE  PageOK(r)'
<1>1. read[r] \in Reads
  BY DEF Typed, ReadsTyped
<1>2. ToSet(read[r].left) \subseteq RunIDs /\ read[r].slug \in Slugs
  BY <1>1, ToSetType DEF Reads
<1>3. \A i \in ToSet(read[r].left) : slugOf'[i] = read[r].slug
  BY <1>2, StoreGrows DEF PageOK, ViewsAssumption
<1>4. read[r].before \cap history'[read[r].slug] \subseteq read[r].before \cap history[read[r].slug]
  BY <1>2, StoreGrows DEF PageOK
<1>5. ToSet(read[r].got) \subseteq complete' /\ read[r].before \subseteq complete'
  BY StoreGrows DEF PageOK
<1>6. QED
  BY <1>3, <1>4, <1>5 DEF PageOK, Names

LEMMA PageStarts ==
    ASSUME Inv, NEW r \in Readers, NEW s \in Slugs, NEW limit \in {1, PageSize},
           read'[r] = ReadDir(s, limit), UNCHANGED store
    PROVE  PageOK(r)'
<1>1. limit \in Nat \ {0} /\ HistoryOK
  BY DEF ViewsAssumption, Inv
<1>2. /\ read'[r].slug = s /\ read'[r].left = NewestNames(s, limit) /\ read'[r].got = <<>>
      /\ read'[r].limited = (Cardinality(history[s]) > limit) /\ read'[r].before = history[s] \cap complete
  BY DEF ReadDir
<1>3. ToSet(<<>>) = {} /\ Descending(<<>>)
  BY DEF ToSet, Descending
<1>4. UNCHANGED <<history, complete, slugOf>>
  BY DEF store
<1>5. \A i \in ToSet(NewestNames(s, limit)) : slugOf[i] = s
  BY <1>1, NewestPage DEF HistoryOK
<1>6. Names(r)' = ToSet(NewestNames(s, limit))
  BY <1>2, <1>3 DEF Names
<1>7. /\ Descending(NewestNames(s, limit))
      /\ \A i \in history[s] \ ToSet(NewestNames(s, limit)) :
           Cardinality(history[s]) > limit /\ \A j \in ToSet(NewestNames(s, limit)) : NameBefore(i, j)
  BY <1>1, NewestPage
<1>8. \A i \in (read'[r].before \cap history[s]) \ Names(r)' :
        read'[r].limited /\ \A j \in Names(r)' : NameBefore(i, j)
  BY <1>2, <1>6, <1>7
<1>9. /\ Descending(read'[r].got) /\ Descending(read'[r].left)
      /\ ToSet(read'[r].got) = {} /\ read'[r].before \subseteq complete
      /\ \A i \in ToSet(read'[r].left) : slugOf[i] = s
  BY <1>2, <1>3, <1>5, <1>7
<1>10. QED
  BY <1>2, <1>4, <1>8, <1>9 DEF PageOK

LEMMA PageGoesOn ==
    ASSUME Inv, Typed, NEW r \in Readers, ReadFile(r), PageOK(r)
    PROVE  PageOK(r)'
<1> DEFINE left == read[r].left
           got == read[r].got
           i == Head(left)
           there == i \in history[read[r].slug] \cap complete
<1>1. /\ read[r] \in Reads /\ left # <<>> /\ read'[r].slug = read[r].slug
      /\ read'[r].limited = read[r].limited /\ read'[r].before = read[r].before
      /\ read'[r].left = Tail(left) /\ read'[r].got = IF there THEN Append(got, i) ELSE got
      /\ UNCHANGED <<history, complete, slugOf>>
  BY ReadFileEffect DEF Typed, store
<1>2. left \in Seq(RunIDs) /\ got \in Seq(RunIDs)
  BY <1>1 DEF Reads
<1>3. Descending(left) /\ Descending(got) /\ \A j \in ToSet(got), k \in ToSet(left) : NameBefore(k, j)
  BY DEF PageOK
<1> HIDE DEF left, got, i
<1>4. /\ i \in RunIDs /\ ToSet(left) = {i} \cup ToSet(Tail(left))
      /\ Descending(Tail(left)) /\ \A j \in ToSet(Tail(left)) : NameBefore(j, i)
  BY <1>1, <1>2, <1>3, Behead DEF i
<1>5. /\ Descending(read'[r].got)
      /\ \A j \in ToSet(read'[r].got), k \in ToSet(Tail(left)) : NameBefore(k, j)
      /\ ToSet(read'[r].got) = IF there THEN ToSet(got) \cup {i} ELSE ToSet(got)
  <2>1. CASE there
    <3>1. \A j \in ToSet(got) : NameBefore(i, j)
      BY <1>3, <1>4
    <3>2. Descending(Append(got, i)) /\ ToSet(Append(got, i)) = ToSet(got) \cup {i}
      BY <1>2, <1>3, <1>4, <3>1, AppendOlder
    <3>3. QED
      BY <1>1, <1>3, <1>4, <2>1, <3>2
  <2>2. CASE ~there
    BY <1>1, <1>3, <1>4, <2>2
  <2>3. QED
    BY <2>1, <2>2
<1>6. /\ ToSet(got) \subseteq complete /\ read[r].before \subseteq complete
      /\ \A k \in ToSet(left) : slugOf[k] = read[r].slug
      /\ \A x \in (read[r].before \cap history[read[r].slug]) \ (ToSet(got) \cup ToSet(left)) :
           read[r].limited /\ \A j \in ToSet(got) \cup ToSet(left) : NameBefore(x, j)
  BY DEF PageOK, Names, got, left
<1>7. Names(r)' = IF there THEN ToSet(got) \cup ToSet(left) ELSE (ToSet(got) \cup ToSet(Tail(left)))
  BY <1>1, <1>4, <1>5 DEF Names
<1>8. Names(r)' \subseteq ToSet(got) \cup ToSet(left)
  BY <1>4, <1>7
<1>9. ASSUME NEW x \in (read[r].before \cap history[read[r].slug]) \ Names(r)'
      PROVE  read[r].limited /\ \A j \in Names(r)' : NameBefore(x, j)
  <2>1. x \notin ToSet(got) \cup ToSet(left)
    BY <1>4, <1>6, <1>7, <1>9
  <2>2. QED
    BY <1>6, <1>8, <1>9, <2>1
<1>10. ToSet(read'[r].got) \subseteq complete /\ \A k \in ToSet(Tail(left)) : slugOf[k] = read[r].slug
  BY <1>4, <1>5, <1>6
<1> HIDE DEF there
<1>11. QED
  BY <1>1, <1>4, <1>5, <1>6, <1>9, <1>10 DEF PageOK

LEMMA PagesStep == Inv /\ Typed /\ PagesOK /\ [Next]_vars => PagesOK'
<1> SUFFICES ASSUME Inv, Typed, PagesOK, [Next]_vars PROVE PagesOK'
  OBVIOUS
<1>1. CASE UNCHANGED vars
  BY <1>1 DEF vars, store, PagesOK, PageOK, Names
<1>2. CASE Next
  <2>1. SUFFICES ASSUME NEW r \in Readers, read'[r] # NoRead PROVE PageOK(r)'
    BY DEF PagesOK
  <2>2. CASE read'[r] = read[r]
    BY <1>2, <2>1, <2>2, PageStays DEF PagesOK
  <2>3. CASE read'[r] # read[r]
    <3>1. PICK q \in Readers : Stops(q) \/ Starts(q) \/ ReadFile(q)
      BY <1>2, <2>3, ReadSteps
    <3>2. CASE Stops(q)
      BY <2>1, <2>3, <3>2 DEF Stops, Typed, ReadsTyped
    <3>3. CASE Starts(q)
      <4>1. PICK s \in Slugs, limit \in {1, PageSize} :
              read' = [read EXCEPT ![q] = ReadDir(s, limit)] /\ UNCHANGED store
        BY <3>3 DEF Starts
      <4>2. q = r /\ read'[r] = ReadDir(s, limit)
        BY <2>3, <4>1 DEF Typed, ReadsTyped
      <4>3. QED
        BY <4>1, <4>2, PageStarts
    <3>4. CASE ReadFile(q)
      <4>1. q = r
        BY <2>3, <3>4, ReadFileEffect DEF Typed
      <4>2. QED
        BY <3>4, <4>1, PageGoesOn DEF PagesOK, ReadFile
    <3>5. QED
      BY <3>1, <3>2, <3>3, <3>4
  <2>4. QED
    BY <2>2, <2>3
<1>3. QED
  BY <1>1, <1>2

LEMMA AlwaysPages == Spec => [](Inv /\ Typed /\ PagesOK)
<1>1. Init => PagesOK
  BY DEF Init, PagesOK
<1>2. QED
  BY <1>1, PagesStep, AlwaysTyped, PTL DEF Spec

(* Whatever other processes write and delete while store.Runs reads the    *)
(* files, it leaves out a run that was there all the time only for the     *)
(* limit, and then for runs with later names; it returns complete records  *)
(* only, in the order of the names.                                        *)
THEOREM ReadsRegular == Spec => []RegularRead
<1>1. Typed /\ PagesOK => RegularRead
  <2> SUFFICES ASSUME Typed, PagesOK, NEW r \in Readers, HasRead(r)
               PROVE  LET page   == read[r].got
                          stayed == read[r].before \cap history[read[r].slug]
                      IN  /\ \A k \in 1..(Len(page) - 1) : NameBefore(page[k + 1], page[k])
                          /\ ToSet(page) \subseteq complete
                          /\ \A i \in stayed \ ToSet(page) :
                               /\ read[r].limited
                               /\ \A j \in ToSet(page) : NameBefore(i, j)
    BY DEF RegularRead
  <2> DEFINE page == read[r].got
  <2>1. PageOK(r) /\ read[r].left = <<>> /\ page \in Seq(RunIDs)
    BY DEF HasRead, PagesOK, Typed, ReadsTyped, Reads
  <2>2. Names(r) = ToSet(page)
    BY <2>1 DEF Names, ToSet
  <2>3. ASSUME NEW k \in 1..(Len(page) - 1) PROVE NameBefore(page[k + 1], page[k])
    <3>1. k \in DOMAIN page /\ k + 1 \in DOMAIN page /\ k < k + 1
      BY <2>1
    <3>2. QED
      BY <2>1, <3>1 DEF PageOK, Descending
  <2>4. QED
    BY <2>1, <2>2, <2>3 DEF PageOK
<1>2. QED
  BY <1>1, AlwaysPages, PTL
------------------------------------------------------------------------------
(* The result of the TUI's own run.                                        *)

LEMMA JobReads ==
    ASSUME Inv, Typed, Next
    PROVE  \/ read'["job"] \in {read["job"], NoRead}
           \/ LastRun \/ ReadFile("job")
<1>0. "job" \in Readers
  BY DEF Readers
<1>1. CASE \E q \in Readers \ {"job"} : \E v : read' = [read EXCEPT ![q] = v]
  BY <1>0, <1>1 DEF Typed, ReadsTyped
<1>2. CASE UNCHANGED read \/ read' = [read EXCEPT !["job"] = NoRead]
  BY <1>0, <1>2 DEF Typed, ReadsTyped
<1>3. {"tui", "command"} \cup Polls \subseteq Readers \ {"job"}
  BY DEF Readers, ViewsAssumption
<1>4. CASE Others \/ Job
  BY <1>2, <1>4 DEF Others, PurgeRuns, CreateFile, CompleteFile, Job, LoadFails, Execute, RecordRun, WriteRun, SendDone
<1>5. CASE RunTUI \/ Move \/ ReloadKey \/ EnterRuns \/ Back \/ RunKey \/ Quit \/ RunDone
  BY <1>2, <1>5 DEF RunTUI, Move, ReloadKey, EnterRuns, Back, RunKey, Quit, RunDone
<1>6. CASE EnterList \/ ReloadRuns \/ LoadRuns
  <2>1. UNCHANGED read \/ \E v : read' = [read EXCEPT !["tui"] = v]
    BY <1>6 DEF EnterList, ReloadRuns, LoadRuns
  <2>2. QED
    BY <1>1, <1>2, <1>3, <2>1
<1>7. CASE PrintRuns \/ (\E s \in Slugs, limit \in {1, PageSize} : Ask(s, limit))
  <2>1. \E v : read' = [read EXCEPT !["command"] = v]
    BY <1>7 DEF PrintRuns, Ask
  <2>2. QED
    BY <1>1, <1>3, <2>1
<1>8. CASE \E p \in Polls : Poll(p) \/ Mount(p) \/ PollFails(p)
  <2>1. \E p \in Polls : \E v : read' = [read EXCEPT ![p] = v]
    BY <1>8 DEF Poll, Mount, PollFails
  <2>2. QED
    BY <1>1, <1>3, <2>1
<1>9. ASSUME NEW q \in Readers, ReadFile(q), q # "job" PROVE read'["job"] = read["job"]
  BY <1>0, <1>9, ReadFileEffect DEF Typed
<1>10. QED
  BY <1>4, <1>5, <1>6, <1>7, <1>8, <1>9 DEF Next, Keys

LEMMA JobKeys ==
    ASSUME Inv, Next
    PROVE  UNCHANGED <<jobRun, jobSlug>> \/ RunKey \/ Quit \/ Execute
<1>1. CASE Others \/ Job
  BY <1>1 DEF Others, PurgeRuns, CreateFile, CompleteFile, Job, LoadFails, RecordRun, WriteRun, LastRun, SendDone,
              Aside, jobVars
<1>2. CASE RunTUI \/ Keys \/ LoadRuns \/ RunDone
  BY <1>2 DEF Keys, RunTUI, Move, ReloadKey, EnterList, ReloadRuns, EnterRuns, Back, LoadRuns, RunDone, Stay, jobVars
<1>3. CASE (\E r \in Readers : ReadFile(r)) \/ PrintRuns \/ (\E s \in Slugs, limit \in {1, PageSize} : Ask(s, limit))
           \/ (\E p \in Polls : Poll(p) \/ Mount(p) \/ PollFails(p))
  BY <1>3 DEF ReadFile, PrintRuns, Ask, Poll, Mount, PollFails, jobVars
<1>4. QED
  BY <1>1, <1>2, <1>3 DEF Next

Recorded == jobRun # NoRun /\ jobRun \in history[jobSlug] \cap complete

(* When the command is past its record, nobody makes the record for it.    *)
LEMMA NotRecordedLate ==
    ASSUME Inv, Typed, Next, UNCHANGED <<jobRun, jobSlug>>, job \notin {"run", "write"}, Recorded'
    PROVE  Recorded
<1> USE DEF Inv, HistoryOK, Typed, RunsApart, JobTyped, Recorded
<1>0. jobRun \in RunIDs /\ slugOf[jobRun] = jobSlug /\ jobSlug \in Slugs /\ jobRun \notin writing
  OBVIOUS
<1>1. CASE UNCHANGED store
  BY <1>1 DEF store
<1>2. ASSUME NEW s \in Slugs, PurgeRuns(s) PROVE Recorded
  BY <1>0, <1>2 DEF PurgeRuns
<1>3. ASSUME NEW s \in Slugs, NEW i \in RunIDs, CreateFile(s, i) PROVE Recorded
  BY <1>0, <1>3 DEF CreateFile, ViewsAssumption
<1>4. ASSUME NEW i \in RunIDs, CompleteFile(i) PROVE Recorded
  BY <1>0, <1>4 DEF CompleteFile
<1>5. ~Execute /\ ~RecordRun /\ ~WriteRun
  BY DEF Execute, RecordRun, WriteRun, NextJob
<1>6. QED
  BY <1>1, <1>2, <1>3, <1>4, <1>5, StoreSteps DEF Others

(* LastRun asks for one name: that of the command's own run, if it is      *)
(* recorded, or of a later one.                                            *)
Later(i) == i = jobRun \/ NameBefore(jobRun, i)

OwnRunRead ==
    read["job"] # NoRead =>
        /\ Len(read["job"].got) + Len(read["job"].left) <= 1
        /\ Recorded => \/ \E i \in Names("job") : Later(i)
                       \/ Names("job") = {} /\ \E i \in RunIDs : slugOf[i] = jobSlug /\ NameBefore(jobRun, i)

ResultOK == OwnRunRead /\ ResultNotOlder

LEMMA OwnRunReadStep ==
    ASSUME Inv, Inv', Typed, PagesOK, OwnRunRead, Next
    PROVE  OwnRunRead'
<1> SUFFICES ASSUME read'["job"] # NoRead PROVE OwnRunRead'
  BY DEF OwnRunRead
<1>0. "job" \in Readers
  BY DEF Readers
<1>1. ASSUME read["job"] # NoRead
      PROVE  /\ job \in {"last", "done"} /\ UNCHANGED <<jobRun, jobSlug>> /\ (Recorded' => Recorded)
             /\ read["job"] \in Reads /\ read["job"].slug = jobSlug
  <2>1. job \in {"last", "done"} /\ mode = "running" /\ read["job"].slug = jobSlug
    BY <1>1 DEF Inv, CommandOK, OneJob
  <2>2. ~RunKey /\ ~Execute
    BY <2>1 DEF RunKey, Execute, NextJob
  <2>3. ~Quit
    BY <1>0 DEF Quit, Typed, ReadsTyped
  <2>4. UNCHANGED <<jobRun, jobSlug>>
    BY <2>2, <2>3, JobKeys
  <2>5. QED
    BY <1>0, <1>1, <2>1, <2>4, NotRecordedLate DEF Typed, ReadsTyped
<1>2. CASE read'["job"] = read["job"]
  <2>1. /\ Names("job")' = Names("job") /\ UNCHANGED <<jobRun, jobSlug>> /\ (Recorded' => Recorded)
        /\ jobSlug \in Slugs
    BY <1>1, <1>2 DEF Names, Inv, CommandOK
  <2>2. \A i \in RunIDs : slugOf[i] = jobSlug => slugOf'[i] = jobSlug
    BY <2>1, StoreGrows DEF ViewsAssumption
  <2>3. QED
    BY <1>2, <2>1, <2>2 DEF OwnRunRead, Later
<1>3. CASE LastRun
  <2>1. /\ read'["job"] = ReadDir(jobSlug, 1) /\ UNCHANGED <<history, complete, jobRun, jobSlug>>
        /\ jobSlug \in Slugs
    BY <1>0, <1>3 DEF LastRun, Aside, Typed, ReadsTyped, Inv, CommandOK
  <2>2. /\ read'["job"].got = <<>> /\ read'["job"].left = NewestNames(jobSlug, 1)
    BY <2>1 DEF ReadDir
  <2>3. /\ NewestNames(jobSlug, 1) \in Seq(RunIDs) /\ Len(NewestNames(jobSlug, 1)) <= 1
        /\ \A i \in history[jobSlug] \ ToSet(NewestNames(jobSlug, 1)) :
             \A j \in ToSet(NewestNames(jobSlug, 1)) : NameBefore(i, j)
        /\ history[jobSlug] # {} => ToSet(NewestNames(jobSlug, 1)) # {}
    BY <2>1, NewestPage DEF Inv
  <2>4. Len(<<>>) = 0 /\ ToSet(<<>>) = {} /\ Len(NewestNames(jobSlug, 1)) \in Nat
    BY <2>3 DEF ToSet
  <2>5. Names("job")' = ToSet(NewestNames(jobSlug, 1))
    BY <2>2, <2>4 DEF Names
  <2>6. Recorded' => \E i \in Names("job")' : Later(i)'
    BY <2>1, <2>3, <2>5 DEF Recorded, Later
  <2>7. Len(read'["job"].got) + Len(read'["job"].left) <= 1
    BY <2>2, <2>3, <2>4
  <2>8. QED
    BY <2>6, <2>7 DEF OwnRunRead
<1>4. CASE ReadFile("job")
  <2> DEFINE left == read["job"].left
             got == read["job"].got
             i == Head(left)
  <2>1. /\ read["job"] # NoRead /\ read["job"] \in Reads /\ left # <<>>
        /\ read'["job"].left = Tail(left)
        /\ read'["job"].got = IF i \in history[read["job"].slug] \cap complete THEN Append(got, i) ELSE got
        /\ UNCHANGED <<history, complete, slugOf, jobRun, jobSlug>>
    BY <1>0, <1>4, ReadFileEffect DEF Typed, store, jobVars, ReadFile
  <2>2. left \in Seq(RunIDs) /\ got \in Seq(RunIDs)
    BY <2>1 DEF Reads
  <2>3. Len(got) + Len(left) <= 1
    BY <2>1 DEF OwnRunRead
  <2>4. \A k \in ToSet(left) : slugOf[k] = read["job"].slug
    BY <1>0, <2>1 DEF PagesOK, PageOK
  <2>5. Names("job") = ToSet(got) \cup ToSet(left)
    BY DEF Names
  <2> HIDE DEF left, got, i
  <2>6. /\ i \in RunIDs /\ Tail(left) \in Seq(RunIDs) /\ ToSet(left) = {i} \cup ToSet(Tail(left))
        /\ Len(left) = Len(Tail(left)) + 1
    BY <2>1, <2>2, Behead DEF i
  <2>7. Len(Tail(left)) = 0 /\ Len(got) = 0
    BY <2>2, <2>3, <2>6
  <2>8. ToSet(Tail(left)) = {} /\ ToSet(got) = {}
    BY <2>2, <2>6, <2>7, NothingLeft
  <2>10. Names("job") = {i} /\ slugOf[i] = jobSlug
    BY <1>1, <2>1, <2>4, <2>5, <2>6, <2>8
  <2>11. CASE i \in history[jobSlug] \cap complete
    <3>1. read'["job"].got = Append(got, i)
      BY <1>1, <2>1, <2>11
    <3>2. ToSet(Append(got, i)) = {i} /\ Len(Append(got, i)) = 1
      <4>1. ToSet(Append(got, i)) = ToSet(got) \cup {i} /\ Len(Append(got, i)) = Len(got) + 1
        BY <2>2, <2>6, AppendOlder
      <4>2. QED
        BY <2>7, <2>8, <4>1
    <3>3. Names("job")' = {i}
      BY <2>1, <2>8, <3>1, <3>2 DEF Names
    <3>4. Len(read'["job"].got) + Len(read'["job"].left) <= 1
      <4>1. Len(read'["job"].got) = 1
        BY <3>1, <3>2
      <4>2. Len(read'["job"].left) = 0
        BY <2>1, <2>7
      <4>3. QED
        BY <4>1, <4>2
    <3>5. QED
      BY <1>1, <2>1, <2>10, <3>3, <3>4 DEF OwnRunRead, Later
  <2>12. CASE i \notin history[jobSlug] \cap complete
    <3>1. read'["job"].got = got
      BY <1>1, <2>1, <2>12
    <3>2. Names("job")' = {} /\ Len(read'["job"].got) + Len(read'["job"].left) <= 1
      BY <2>1, <2>7, <2>8, <3>1 DEF Names
    <3>3. Recorded' => i # jobRun
      BY <2>1, <2>12 DEF Recorded
    <3>4. Recorded' => NameBefore(jobRun, i)
      BY <1>1, <2>1, <2>10, <3>3 DEF OwnRunRead, Later
    <3>5. QED
      BY <2>1, <2>6, <2>10, <3>2, <3>4 DEF OwnRunRead
  <2>13. QED
    BY <2>11, <2>12
<1>5. QED
  BY <1>2, <1>3, <1>4, JobReads

LEMMA ResultStep ==
    ASSUME Inv, Typed, PagesOK, OwnRunRead, ResultNotOlder, Next
    PROVE  ResultNotOlder'
<1> SUFFICES ASSUME mode' = "result", Recorded'
             PROVE  \/ detail' = jobRun'
                    \/ detail' # NoRun /\ NameBefore(jobRun', detail')
                    \/ /\ detail' = NoRun
                       /\ \E i \in RunIDs : slugOf'[i] = jobSlug' /\ NameBefore(jobRun', i)
  BY DEF ResultNotOlder, Recorded
<1>1. RunDone \/ (mode = "result" /\ UNCHANGED <<detail, jobRun, jobSlug>>)
  <2>1. CASE Others \/ Job
    BY <2>1, JobKeys DEF Others, PurgeRuns, CreateFile, CompleteFile, Job, LoadFails, Execute, RecordRun, WriteRun,
                      LastRun, SendDone, Aside, NextJob, jobVars, tui, Inv, OneJob
  <2>2. CASE RunTUI \/ Keys \/ LoadRuns
    BY <2>2 DEF Keys, RunTUI, Move, ReloadKey, EnterList, ReloadRuns, EnterRuns, Back, RunKey, Quit, LoadRuns,
                Stay, jobVars, tui
  <2>3. CASE (\E r \in Readers : ReadFile(r)) \/ PrintRuns \/ (\E s \in Slugs, limit \in {1, PageSize} : Ask(s, limit))
             \/ (\E p \in Polls : Poll(p) \/ Mount(p) \/ PollFails(p))
    BY <2>3 DEF ReadFile, PrintRuns, Ask, Poll, Mount, PollFails, jobVars, tui
  <2>4. QED
    BY <2>1, <2>2, <2>3 DEF Next
<1>2. CASE mode = "result" /\ UNCHANGED <<detail, jobRun, jobSlug>>
  <2>1. job \notin {"run", "write"}
    BY <1>2 DEF Inv, OneJob
  <2>2. Recorded
    BY <1>2, <2>1, NotRecordedLate
  <2>3. jobSlug \in Slugs /\ \A i \in RunIDs : slugOf[i] = jobSlug => slugOf'[i] = jobSlug
    BY <2>2, StoreGrows DEF Recorded, Typed, RunsApart, ViewsAssumption
  <2>4. QED
    BY <1>2, <2>2, <2>3 DEF ResultNotOlder, Recorded
<1>3. CASE RunDone
  <2>1. /\ job = "done" /\ UNCHANGED <<history, complete, slugOf, jobRun, jobSlug>>
        /\ detail' = IF HasRead("job") THEN FirstOf(read["job"].got) ELSE NoRun
    BY <1>3 DEF RunDone, store
  <2>2. Recorded
    BY <2>1 DEF Recorded
  <2>3. HasRead("job")
    BY <2>1, <2>2 DEF Recorded, Typed, RunsApart
  <2>4. "job" \in Readers
    BY DEF Readers
  <2>5. read["job"] # NoRead /\ read["job"].left = <<>> /\ read["job"].got \in Seq(RunIDs)
    BY <2>3, <2>4 DEF HasRead, Typed, ReadsTyped, Reads
  <2>6. /\ Len(read["job"].got) <= 1 /\ Names("job") = ToSet(read["job"].got)
        /\ Len(read["job"].got) \in Nat
    <3>1. ToSet(<<>>) = {} /\ Len(<<>>) = 0
      BY DEF ToSet
    <3>2. QED
      BY <2>5, <3>1 DEF OwnRunRead, Names
  <2>7. CASE read["job"].got = <<>>
    <3>1. detail' = NoRun /\ Names("job") = {}
      BY <2>1, <2>3, <2>6, <2>7 DEF FirstOf, ToSet
    <3>2. QED
      BY <2>1, <2>2, <2>5, <3>1 DEF OwnRunRead
  <2>8. CASE read["job"].got # <<>>
    <3>1. detail' = Head(read["job"].got) /\ Names("job") = {Head(read["job"].got)}
      <4>1. /\ Tail(read["job"].got) \in Seq(RunIDs) /\ Len(read["job"].got) = Len(Tail(read["job"].got)) + 1
            /\ ToSet(read["job"].got) = {Head(read["job"].got)} \cup ToSet(Tail(read["job"].got))
        BY <2>5, <2>8, Behead
      <4>2. ToSet(read["job"].got) = {Head(read["job"].got)}
        <5> DEFINE rest == Tail(read["job"].got)
        <5>1. rest \in Seq(RunIDs) /\ Len(read["job"].got) = Len(rest) + 1
          BY <4>1
        <5> HIDE DEF rest
        <5>2. Len(rest) = 0
          BY <2>6, <5>1
        <5>3. ToSet(rest) = {}
          BY <5>1, <5>2, NothingLeft
        <5>4. QED
          BY <4>1, <5>3 DEF rest
      <4>3. QED
        BY <2>1, <2>3, <2>6, <2>8, <4>2 DEF FirstOf
    <3>2. Head(read["job"].got) \in RunIDs
      BY <2>5, <2>8
    <3>3. QED
      BY <2>1, <2>2, <2>5, <3>1, <3>2 DEF OwnRunRead, Later, ViewsAssumption
  <2>9. QED
    BY <2>7, <2>8
<1>4. QED
  BY <1>1, <1>2, <1>3

LEMMA ResultOKStep == Inv /\ Inv' /\ Typed /\ PagesOK /\ ResultOK /\ [Next]_vars => ResultOK'
<1>1. Inv /\ Inv' /\ Typed /\ PagesOK /\ ResultOK /\ Next => ResultOK'
  BY OwnRunReadStep, ResultStep DEF ResultOK
<1>2. ResultOK /\ UNCHANGED vars => ResultOK'
  BY DEF vars, store, tui, jobVars, ResultOK, OwnRunRead, ResultNotOlder, Recorded, Later, Names
<1>3. QED
  BY <1>1, <1>2

(* The result view does not fall back behind the TUI's own run: if it was  *)
(* recorded and is still there, the view shows it or one with a later      *)
(* name, or nothing because a later one was purged or torn.                *)
THEOREM ResultIsFresh == Spec => []ResultNotOlder
<1>1. Init => ResultOK
  BY DEF Init, ResultOK, OwnRunRead, ResultNotOlder, Readers
<1>2. ResultOK => ResultNotOlder
  BY DEF ResultOK
<1>3. QED
  BY <1>1, <1>2, ResultOKStep, AlwaysPages, PTL DEF Spec
==============================================================================
