------------------------------ MODULE RunStore ------------------------------
(***************************************************************************)
(* The store directory (internal/store) as several processes use it at     *)
(* once: the daemon, the TUI and CLI commands, with no lock between them.  *)
(*                                                                         *)
(*   pipelines/<slug>.json           one file per registration             *)
(*   runs/<slug>/<second>_<id>.json  one file per recorded run             *)
(*                                                                         *)
(* Each file-system call of an operation is an action of its own.          *)
(* os.WriteFile is two: it opens the file, which creates or truncates it,  *)
(* and then writes.  os.RemoveAll unlinks one file after the other and     *)
(* then removes the directory, which fails if it is not empty: a file      *)
(* could not be unlinked or has been created meanwhile.  A process that    *)
(* crashes between two calls is one that takes no further step.            *)
(***************************************************************************)
EXTENDS Integers, FiniteSets, Sequences, SequencesExt, Ordering

CONSTANTS
    Procs,      \* processes using the store
    Slugs,      \* slugs of pipelines
    Paths,      \* YAML paths a registration can hold
    Long,       \* the registrations whose text is longer than the others': by the
                \* path, or the fraction of a second in which the time ends
    RunIDs,     \* run IDs, in their lexicographic order
    MaxSecond,  \* bound on the wall clock, in seconds
    NoReg,      \* pipelines/<slug>.json does not exist
    Empty,      \* it has been truncated and not written
    Garbled,    \* two writers have overlapped: it is not JSON
    NoSlug,
    NoRun

ASSUME RunStoreAssumption ==
    /\ NoReg # Empty /\ NoReg # Garbled /\ Empty # Garbled
    /\ {NoReg, Empty, Garbled} \cap [path : Paths, at : Nat] = {}
    /\ RunIDs \subseteq Nat /\ IsFiniteSet(RunIDs)
    /\ MaxSecond \in Nat
    /\ Long \subseteq [path : Paths, at : Nat]
    /\ NoSlug \notin Slugs
    /\ NoRun \notin [id : RunIDs, second : Nat, order : Nat, complete : BOOLEAN, orphan : BOOLEAN]

VARIABLES
    second,   \* the clock, in the resolution of a run's file name
    used,     \* run IDs drawn so far; their number orders the starts
    regDir,   \* does pipelines/ exist
    regs,     \* regs[s]: content of pipelines/<s>.json
    dirs,     \* the slugs whose runs/<slug>/ exists
    history,  \* history[s]: the files of runs/<s>/
    pc,       \* pc[p]: the operation p is in and how far it is
    slug,     \* slug[p]: the slug p works on
    reg,      \* reg[p]: the registration p has read or is writing
    run,      \* run[p]: the run p is executing or recording
    linked,   \* the processes whose open file is still in its directory
    stale,    \* the processes whose registration has been removed since
    spared    \* history variable: the runs left by a removal that gave up

registry == <<regDir, regs>>
runs == <<dirs, history>>
vars == <<second, used, registry, runs, pc, slug, reg, run, linked, stale, spared>>

Seconds == 0..MaxSecond
Registrations == [path : Paths, at : Seconds]
Contents == Registrations \cup {NoReg, Empty, Garbled}

(* A run file.  order is the true order of starting, which nothing on disk *)
(* records more finely than the second; orphan marks a file that a process *)
(* created although its registration had been removed.                     *)
Records == [id : RunIDs, second : Seconds, order : Nat, complete : BOOLEAN, orphan : BOOLEAN]

States == {"idle", "adding", "updating", "writingReg", "removing", "purging", "remaking",
           "wipingRegs", "remakingRegs", "wipingRuns", "ready", "running", "recording", "writingRun"}

(* The states of a process that may work on all the slugs.                 *)
Global == {"idle", "purging", "remaking", "wipingRegs", "remakingRegs", "wipingRuns"}

(* The variables stay in their types, and an order is drawn once.          *)
TypeOK ==
    /\ second \in Seconds
    /\ used \subseteq RunIDs
    /\ regDir \in BOOLEAN
    /\ regs \in [Slugs -> Contents]
    /\ dirs \subseteq Slugs
    /\ history \in [Slugs -> SUBSET Records]
    /\ pc \in [Procs -> States]
    /\ slug \in [Procs -> Slugs \cup {NoSlug}]
    /\ \A p \in Procs : slug[p] = NoSlug => pc[p] \in Global
    /\ reg \in [Procs -> Registrations \cup {NoReg}]
    /\ \A p \in Procs : pc[p] \in {"adding", "updating", "writingReg"} => reg[p] # NoReg
    /\ run \in [Procs -> Records \cup {NoRun}]
    /\ \A p \in Procs : run[p] = NoRun <=> pc[p] \notin {"running", "recording", "writingRun"}
    /\ linked \subseteq Procs
    /\ stale \subseteq Procs
    /\ spared \subseteq RunIDs
    /\ \A s \in Slugs : s \notin dirs => history[s] = {}

Init ==
    /\ second = 0
    /\ used = {}
    /\ regDir = TRUE
    /\ regs = [s \in Slugs |-> NoReg]
    /\ dirs = {}
    /\ history = [s \in Slugs |-> {}]
    /\ pc = [p \in Procs |-> "idle"]
    /\ slug = [p \in Procs |-> NoSlug]
    /\ reg = [p \in Procs |-> NoReg]
    /\ run = [p \in Procs |-> NoRun]
    /\ linked = {}
    /\ stale = {}
    /\ spared = {}

Readable(s) == regs[s] \in Registrations

Goto(p, from, to) ==
    /\ pc[p] = from
    /\ pc' = [pc EXCEPT ![p] = to]

(* p's operation is over.                                                  *)
Done(p, from) ==
    /\ Goto(p, from, "idle")
    /\ slug' = [slug EXCEPT ![p] = NoSlug]
    /\ reg' = [reg EXCEPT ![p] = NoReg]
    /\ run' = [run EXCEPT ![p] = NoRun]
    /\ linked' = linked \ {p}
    /\ stale' = stale \ {p}

ClockTick ==
    /\ second < MaxSecond
    /\ second' = second + 1
    /\ UNCHANGED <<used, registry, runs, pc, slug, reg, run, linked, stale, spared>>

(* NewAt: every command makes sure that pipelines/ exists.                 *)
OpenStore ==
    /\ ~regDir
    /\ regDir' = TRUE
    /\ UNCHANGED <<second, used, regs, runs, pc, slug, reg, run, linked, stale, spared>>

------------------------------------------------------------------------------
(* Registrations: Add, Update and writeRegistration.                       *)

Add(p, s, path) ==
    /\ Goto(p, "idle", "adding")
    /\ slug' = [slug EXCEPT ![p] = s]
    /\ reg' = [reg EXCEPT ![p] = [path |-> path, at |-> second]]
    /\ UNCHANGED <<second, used, registry, runs, run, linked, stale, spared>>

(* Update starts with Get and keeps RegisteredAt.                          *)
Update(p, s, path) ==
    /\ Goto(p, "idle", "updating")
    /\ Readable(s)
    /\ slug' = [slug EXCEPT ![p] = s]
    /\ reg' = [reg EXCEPT ![p] = [path |-> path, at |-> regs[s].at]]
    /\ UNCHANGED <<second, used, registry, runs, run, linked, stale, spared>>

(* os.WriteFile opens the file, whether or not it is still there: an       *)
(* Update does not notice that the registration is gone.                   *)
TruncateReg(p) ==
    /\ \/ Goto(p, "adding", "writingReg")
       \/ Goto(p, "updating", "writingReg")
    /\ regDir
    /\ regs' = [regs EXCEPT ![slug[p]] = Empty]
    /\ linked' = linked \cup {p}
    /\ UNCHANGED <<second, used, regDir, runs, slug, reg, run, stale, spared>>

(* os.WriteFile fails: pipelines/ is being purged.                         *)
FailReg(p) ==
    /\ ~regDir
    /\ Done(p, "adding") \/ Done(p, "updating")
    /\ UNCHANGED <<second, used, registry, runs, spared>>

(* A write at offset zero; the tail of a longer text written since the     *)
(* truncation stays.                                                       *)
Overwrite(old, new) ==
    IF new \notin Long /\ (old = Garbled \/ old \in Long)
    THEN Garbled
    ELSE new

(* Variant: an encoding error is found with the file already truncated.    *)
WriteNothing(p) ==
    /\ Done(p, "writingReg")
    /\ UNCHANGED <<second, used, registry, runs, spared>>

WriteReg(p) ==
    /\ Done(p, "writingReg")
    /\ regs' = IF p \in linked
               THEN [regs EXCEPT ![slug[p]] = Overwrite(regs[slug[p]], reg[p])]
               ELSE regs
    /\ UNCHANGED <<second, used, regDir, runs, spared>>

Register(p) ==
    \/ \E s \in Slugs, path \in Paths : Add(p, s, path) \/ Update(p, s, path)
    \/ TruncateReg(p) \/ FailReg(p) \/ WriteReg(p)

------------------------------------------------------------------------------
(* Removal: Remove, PurgeRuns and PurgeAll.                                *)

(* Deleting the registration of s: who has read it holds a stale copy, and *)
(* who has it open writes to a file that is gone.                          *)
UnlinkReg(s) ==
    /\ regs' = [regs EXCEPT ![s] = NoReg]
    /\ linked' = linked \ {q \in Procs : pc[q] = "writingReg" /\ slug[q] = s}
    /\ stale' = stale \cup {q \in Procs : pc[q] \in {"ready", "running", "recording", "writingRun"} /\ slug[q] = s}

(* p is in os.RemoveAll of runs/<s>/, or of runs/.                         *)
Deletes(p, s) == pc[p] \in {"removing", "purging", "wipingRuns"} /\ slug[p] \in {s, NoSlug}

(* os.RemoveAll of a history: a file is unlinked ...                       *)
UnlinkRun(p, s) ==
    /\ Deletes(p, s)
    /\ \E r \in history[s] :
         /\ history' = [history EXCEPT ![s] = @ \ {r}]
         /\ linked' = linked \ {q \in Procs : pc[q] = "writingRun" /\ slug[q] = s /\ run[q] = r}
    /\ UNCHANGED <<second, used, registry, dirs, pc, slug, reg, run, stale, spared>>

(* ... an empty directory in runs/ is removed ...                          *)
RemoveDir(p, s) ==
    /\ Deletes(p, s) /\ slug[p] = NoSlug
    /\ history[s] = {}
    /\ dirs' = dirs \ {s}
    /\ UNCHANGED <<second, used, registry, history, pc, slug, reg, run, linked, stale, spared>>

(* ... and in the end the directory itself, if it is empty.                *)
Emptied(p) == IF slug[p] = NoSlug THEN dirs = {} ELSE history[slug[p]] = {}

RemovedRuns(p) ==
    /\ Emptied(p)
    /\ dirs' = dirs \ {slug[p]}

(* The operation returns, or runs into an error.                           *)
Return(p, from) ==
    /\ Goto(p, from, "idle")
    /\ slug' = [slug EXCEPT ![p] = NoSlug]

(* The histories of slugs without a registration among S stay.             *)
Spare(S) == spared' = spared \cup UNION {{r.id : r \in history[s]} : s \in {t \in S : regs[t] = NoReg}}

(* Remove: os.Remove of the registration, an error if there is none ...    *)
RemoveReg(p, s) ==
    /\ Goto(p, "idle", "removing")
    /\ regs[s] # NoReg
    /\ slug' = [slug EXCEPT ![p] = s]
    /\ UnlinkReg(s)
    /\ UNCHANGED <<second, used, regDir, runs, reg, run, spared>>

(* ... then the best-effort os.RemoveAll of its history, whose error is    *)
(* dropped.                                                                *)
RemoveRuns(p) ==
    /\ Return(p, "removing")
    /\ RemovedRuns(p)
    /\ UNCHANGED <<second, used, registry, history, reg, run, linked, stale, spared>>

KeepRuns(p) ==
    /\ Return(p, "removing")
    /\ ~Emptied(p)
    /\ Spare({slug[p]})
    /\ UNCHANGED <<second, used, registry, runs, reg, run, linked, stale>>

(* Variant: the history, empty or not any more, goes first and the         *)
(* registration afterwards.                                                *)
RemoveRunsFirst(p) ==
    \/ /\ Goto(p, "idle", "removing")
       /\ \E s \in Slugs :
            /\ regs[s] # NoReg /\ history[s] = {}
            /\ slug' = [slug EXCEPT ![p] = s]
            /\ dirs' = dirs \ {s}
       /\ UNCHANGED <<second, used, registry, history, reg, run, linked, stale, spared>>
    \/ /\ Return(p, "removing")
       /\ UnlinkReg(slug[p])
       /\ UNCHANGED <<second, used, regDir, runs, reg, run, spared>>

Rm(p) == RemoveRuns(p) \/ KeepRuns(p) \/ \E s \in Slugs : RemoveReg(p, s)

(* cmdPurge without -all: one slug, which has to be registered, or all;    *)
(* the user confirms between Get and PurgeRuns.                            *)
Purge(p, s) ==
    /\ Goto(p, "idle", "purging")
    /\ s # NoSlug => Readable(s)
    /\ slug' = [slug EXCEPT ![p] = s]
    /\ UNCHANGED <<second, used, registry, runs, reg, run, linked, stale, spared>>

(* PurgeRuns: os.RemoveAll ...                                             *)
PurgeRuns(p) ==
    /\ Goto(p, "purging", "remaking")
    /\ RemovedRuns(p)
    /\ UNCHANGED <<second, used, registry, history, slug, reg, run, linked, stale, spared>>

FailPurge(p) ==
    /\ Return(p, "purging")
    /\ ~Emptied(p)
    /\ UNCHANGED <<second, used, registry, runs, reg, run, linked, stale, spared>>

(* os.MkdirAll below runs/ fails if runs/ itself goes meanwhile.           *)
RunsGoing(p) == \E q \in Procs \ {p} : pc[q] \in {"purging", "wipingRuns"} /\ slug[q] = NoSlug

(* ... then os.MkdirAll of the same directory.                             *)
RemakeRunDir(p) ==
    /\ Return(p, "remaking")
    /\ dirs' = dirs \cup ({slug[p]} \cap Slugs) \/ (RunsGoing(p) /\ UNCHANGED dirs)
    /\ UNCHANGED <<second, used, registry, history, reg, run, linked, stale, spared>>

(* PurgeAll: os.RemoveAll of pipelines/ ...                                *)
PurgeAll(p) ==
    /\ Goto(p, "idle", "wipingRegs")
    /\ UNCHANGED <<second, used, registry, runs, slug, reg, run, linked, stale, spared>>

WipeReg(p, s) ==
    /\ pc[p] = "wipingRegs"
    /\ regs[s] # NoReg
    /\ UnlinkReg(s)
    /\ UNCHANGED <<second, used, regDir, runs, pc, slug, reg, run, spared>>

WipedRegs(p) ==
    /\ Goto(p, "wipingRegs", "remakingRegs")
    /\ \A s \in Slugs : regs[s] = NoReg
    /\ regDir' = FALSE
    /\ UNCHANGED <<second, used, regs, runs, slug, reg, run, linked, stale, spared>>

(* ... which is made again ...                                             *)
RemakeRegDir(p) ==
    /\ Goto(p, "remakingRegs", "wipingRuns")
    /\ regDir' = TRUE
    /\ UNCHANGED <<second, used, regs, runs, slug, reg, run, linked, stale, spared>>

(* ... and os.RemoveAll of runs/, which is made again too.                 *)
WipedRuns(p) ==
    /\ Return(p, "wipingRuns")
    /\ RemovedRuns(p)
    /\ UNCHANGED <<second, used, registry, history, reg, run, linked, stale, spared>>

(* An error ends PurgeAll: after one in pipelines/, where a registration   *)
(* may have been added meanwhile, runs/ is not touched.                    *)
FailPurgeAll(p) ==
    /\ \/ Return(p, "wipingRegs") /\ \E s \in Slugs : regs[s] # NoReg
       \/ Return(p, "wipingRuns") /\ ~Emptied(p)
    /\ Spare(Slugs)
    /\ UNCHANGED <<second, used, registry, runs, reg, run, linked, stale>>

Wipe(p) ==
    \/ PurgeAll(p) \/ WipedRegs(p) \/ RemakeRegDir(p) \/ WipedRuns(p) \/ FailPurgeAll(p)
    \/ \E s \in Slugs : WipeReg(p, s)

Delete(p) ==
    \/ Rm(p) \/ Wipe(p)
    \/ \E s \in Slugs \cup {NoSlug} : Purge(p, s)
    \/ PurgeRuns(p) \/ FailPurge(p) \/ RemakeRunDir(p)
    \/ \E s \in Slugs : UnlinkRun(p, s) \/ RemoveDir(p, s)

------------------------------------------------------------------------------
(* Runs: Get, runner.Execute and RecordRun.                                *)

(* A process reads the registration: once for a CLI run, the TUI or a      *)
(* request, once and for all for a loop of the daemon.                     *)
Get(p, s) ==
    /\ Goto(p, "idle", "ready")
    /\ Readable(s)
    /\ slug' = [slug EXCEPT ![p] = s]
    /\ reg' = [reg EXCEPT ![p] = regs[s]]
    /\ UNCHANGED <<second, used, registry, runs, run, linked, stale, spared>>

Leave(p) == Done(p, "ready") /\ UNCHANGED <<second, used, registry, runs, spared>>

(* runner.Execute draws a random run ID and reads the clock.               *)
StartRun(p) ==
    /\ Goto(p, "ready", "running")
    /\ \E id \in RunIDs \ used :
         /\ used' = used \cup {id}
         /\ run' = [run EXCEPT ![p] = [id |-> id, second |-> second, order |-> Cardinality(used),
                                       complete |-> FALSE, orphan |-> FALSE]]
    /\ UNCHANGED <<second, registry, runs, slug, reg, linked, stale, spared>>

(* The run is over; RecordRun creates runs/<slug>/ if need be.             *)
MakeRunDir(p) ==
    /\ Goto(p, "running", "recording")
    /\ dirs' = dirs \cup {slug[p]}
    /\ UNCHANGED <<second, used, registry, history, slug, reg, run, linked, stale, spared>>

(* The name of a run's file.                                               *)
FileName(r) == <<r.second, r.id>>

(* Variant: os.WriteFile is expected to make the directory.                *)
CreateWithoutDir(p) ==
    /\ Goto(p, "recording", "writingRun")
    /\ run' = [run EXCEPT ![p].orphan = p \in stale]
    /\ history' = [history EXCEPT ![slug[p]] = @ \cup {run'[p]}]
    /\ linked' = linked \cup {p}
    /\ UNCHANGED <<second, used, registry, dirs, slug, reg, stale, spared>>

(* os.WriteFile creates the file, or truncates one of the same name.       *)
CreateRunFile(p) ==
    /\ Goto(p, "recording", "writingRun")
    /\ slug[p] \in dirs
    /\ run' = [run EXCEPT ![p].orphan = p \in stale]
    /\ history' = [history EXCEPT ![slug[p]] =
                     {r \in @ : FileName(r) # FileName(run[p])} \cup {run'[p]}]
    /\ linked' = linked \cup {p}
    /\ UNCHANGED <<second, used, registry, dirs, slug, reg, stale, spared>>

(* The directory has been removed since, or cannot be made, or the record  *)
(* cannot be encoded, as with an infinity or a NaN in an output: the run   *)
(* is not recorded, and runner drops the error.                            *)
LoseRun(p) ==
    /\ \/ Goto(p, "recording", "ready")
       \/ Goto(p, "running", "ready") /\ RunsGoing(p)
    /\ run' = [run EXCEPT ![p] = NoRun]
    /\ UNCHANGED <<second, used, registry, runs, slug, reg, linked, stale, spared>>

(* Variant: a file that has been unlinked meanwhile is made again, as when *)
(* the record is written under another name and renamed.                   *)
RenameRunFile(p) ==
    /\ Goto(p, "writingRun", "ready")
    /\ history' = [history EXCEPT ![slug[p]] =
                     (@ \ {run[p]}) \cup {[run[p] EXCEPT !.complete = TRUE]}]
    /\ dirs' = dirs \cup {slug[p]}
    /\ run' = [run EXCEPT ![p] = NoRun]
    /\ linked' = linked \ {p}
    /\ UNCHANGED <<second, used, registry, slug, reg, stale, spared>>

WriteRunFile(p) ==
    /\ Goto(p, "writingRun", "ready")
    /\ history' = IF p \in linked
                  THEN [history EXCEPT ![slug[p]] =
                          (@ \ {run[p]}) \cup {[run[p] EXCEPT !.complete = TRUE]}]
                  ELSE history
    /\ run' = [run EXCEPT ![p] = NoRun]
    /\ linked' = linked \ {p}
    /\ UNCHANGED <<second, used, registry, dirs, slug, reg, stale, spared>>

Record(p) ==
    \/ \E s \in Slugs : Get(p, s)
    \/ Leave(p) \/ StartRun(p) \/ MakeRunDir(p) \/ CreateRunFile(p) \/ LoseRun(p) \/ WriteRunFile(p)

------------------------------------------------------------------------------
(* Reading the history: Runs and LastRun.                                  *)

(* Variant: names start with the run ID.                                   *)
IdBefore(a, b) == a.id < b.id

(* The order of sort.StringSlice on the file names.                        *)
NameBefore(a, b) == a.second < b.second \/ (a.second = b.second /\ a.id < b.id)

NewerName(files) == {p \in files \X files : NameBefore(p[2], p[1])}

(* Runs(s, limit): the names, newest first and at most limit of them, then *)
(* the files that hold a record.                                           *)
Runs(s, limit) ==
    LET names == InOrder(history[s], NewerName(history[s]))
        page  == IF limit > 0 /\ Len(names) > limit THEN SubSeq(names, 1, limit) ELSE names
    IN  InOrder({r \in ToSet(page) : r.complete}, NewerName(history[s]))

LastRun(s) == Runs(s, 1)

------------------------------------------------------------------------------
Next ==
    \/ ClockTick
    \/ OpenStore
    \/ \E p \in Procs : Register(p) \/ Delete(p) \/ Record(p)

Spec == Init /\ [][Next]_vars

------------------------------------------------------------------------------
(* Properties.                                                             *)

Removing(s) ==
    \E p \in Procs : \/ pc[p] = "removing" /\ slug[p] = s
                    \/ pc[p] \in {"wipingRegs", "remakingRegs", "wipingRuns"}

(* "rm: unregister (drops run history)", as far as the order of its two    *)
(* deletions can ensure it: once a removal is over, a pipeline that is not *)
(* registered has no history but what processes recorded that had read the *)
(* registration before it was removed, and what a removal left behind that *)
(* ran into an error, as purge -all may in pipelines/ already.             *)
HistoryHasOwner ==
    \A s \in Slugs : regs[s] = NoReg /\ ~Removing(s) =>
        \A r \in history[s] : r.orphan \/ r.id \in spared

(* A recorded run disappears only while its history is being deleted: no   *)
(* registration and no other run, be it in the same second, overwrites it. *)
(* TLC checks ImplementsRunLog, which says more.                           *)
RecordsSurvive ==
    [][\A s \in Slugs :
         \A r \in history[s] : r.complete => r \in history'[s] \/ \E p \in Procs : Deletes(p, s)]_vars

(* What a run file comes down to for who lists the history.                *)
File(r) == [id |-> r.id, second |-> r.second, complete |-> r.complete]

Files == [s \in Slugs |-> {File(r) : r \in history[s]}]

(* The IDs drawn, but for those of runs that may still get a file.         *)
Pending == {q \in Procs : pc[q] \in {"running", "recording"}}
Seen == used \ {run[q].id : q \in Pending}

Deleting == {s \in Slugs : \E p \in Procs : Deletes(p, s)}

Log == INSTANCE RunLog WITH files <- Files, seen <- Seen, deleting <- Deleting

(* The store implements RunLog: whatever its processes do at once and      *)
(* wherever they stop, a run gets one file, which is completed once, goes  *)
(* only while its history is being deleted, and is then gone for good.     *)
ImplementsRunLog == Log!Spec

(* Whatever the limit, Runs returns no record twice, skips none in favour  *)
(* of one that started in an earlier second, and leaves one out only if as *)
(* many files as the limit allows have newer names, torn ones included.    *)
PageSound ==
    \A s \in Slugs, limit \in 0..Cardinality(RunIDs) :
        LET page    == Runs(s, limit)
            leftOut == {r \in history[s] : r.complete} \ ToSet(page)
        IN  /\ Cardinality(ToSet(page)) = Len(page)
            /\ \A r \in leftOut, q \in ToSet(page) : r.second <= q.second
            /\ \A r \in leftOut :
                 limit > 0 /\ Cardinality({f \in history[s] : NameBefore(r, f)}) >= limit

(* A registration nobody is writing is readable, unless two writers were   *)
(* at it at once or one stopped half-way.                                  *)
TornOnlyWhileWriting ==
    \A s \in Slugs :
        regs[s] = Empty => \E p \in linked : pc[p] = "writingReg" /\ slug[p] = s

(* Contradicted by the code, see README: "rm [...] drops run history", if  *)
(* it runs into no error.                                                  *)
RmDropsHistory ==
    \A s \in Slugs : regs[s] = NoReg /\ ~Removing(s) => \A r \in history[s] : r.id \in spared

(* Contradicted by the code, see README: "newest first [...] lexicographic *)
(* = chronological with our ts prefix".                                    *)
NewestFirst ==
    \A s \in Slugs :
        LET page == Runs(s, 0)
        IN  \A i, j \in DOMAIN page : i < j => page[i].order > page[j].order

(* Contradicted by the code, see README: Runs returns "the most recent run *)
(* records [...] up to limit", so as many as there are if that is fewer.   *)
PageFull ==
    \A s \in Slugs, limit \in 1..Cardinality(RunIDs) :
        LET records == Cardinality({r \in history[s] : r.complete})
        IN  Len(Runs(s, limit)) = IF records < limit THEN records ELSE limit
==============================================================================
