-------------------------------- MODULE Views --------------------------------
(***************************************************************************)
(* Who looks at the run history while other processes write and purge it:  *)
(* the TUI (internal/tui), the commands logs and log, the pages and the    *)
(* read API of the daemon (internal/server), and a widget of a dashboard   *)
(* in a browser, which polls that API (internal/viz).                      *)
(*                                                                         *)
(* They all read with store.Runs, which lists the directory and then reads *)
(* the files one by one.  The writers, of which RunStore has the details,  *)
(* are the environment here.  Who looks does not disturb who else looks,   *)
(* so that a behaviour has one viewer.                                     *)
(***************************************************************************)
EXTENDS Integers, FiniteSets, SequencesExt, Ordering

CONSTANTS
    Slugs,     \* slugs of pipelines
    RunIDs,    \* run IDs, in their lexicographic order
    StartOf,   \* StartOf[i]: when run i starts, in half seconds
    PageSize,  \* the limit of a list of runs: 50 in the TUI, 20 elsewhere
    WidgetSlug, \* the pipeline that a widget shows
    Polls,     \* bound: requests that a widget can have under way
    NoSlug,
    NoRun,
    NoRead

ASSUME ViewsAssumption ==
    /\ Slugs \subseteq Nat /\ RunIDs \subseteq Nat
    /\ IsFiniteSet(Slugs) /\ IsFiniteSet(RunIDs)
    /\ StartOf \in [RunIDs -> Nat] /\ IsInjective(StartOf)
    /\ PageSize \in Nat \ {0} /\ WidgetSlug \in Slugs
    /\ NoSlug \notin Slugs /\ NoRun \notin RunIDs
    /\ {"tui", "job", "command"} \cap Polls = {}

VARIABLES
    viewer,      \* "tui", "widget" or "command"
    history,     \* history[s]: the runs that have a file in runs/<s>/
    complete,    \* the runs whose file is completely written
    writing,     \* those whose file another process is writing
    slugOf,      \* slugOf[i]: the pipeline of run i, NoSlug before it starts
    read,        \* read[r]: where reader r is in store.Runs
    mode,        \* the view of the TUI, "off" if it does not run
    regs,        \* model.regs
    cursor,      \* of the table of regs, counted from 1
    selReg,      \* model.selReg
    lastPip,     \* model.lastPip, the banner
    runs,        \* model.runs
    runCursor,   \* of runsTable
    detail,      \* model.detail
    job,         \* the command of the last "r": where it is
    jobSlug,     \* the pipeline that it runs
    jobRun,      \* its run
    printed,     \* what the last command or request got
    value,       \* value[i]: the field of run i's output that the widget shows
    shown        \* the runs whose points the widget shows

store == <<history, complete, writing, slugOf>>
tui == <<mode, regs, cursor, selReg, lastPip, runs, runCursor, detail>>
jobVars == <<job, jobSlug, jobRun>>
vars == <<viewer, value, store, read, tui, jobVars, printed, shown>>

Readers == {"tui", "job", "command"} \cup Polls
Values == {"number", "NaN", "none"}
Modes == {"off", "list", "runs", "detail", "running", "result"}

(* left: the files still to be read; got: the records read; limited: the   *)
(* limit has left out files; before: history variable, the runs that were  *)
(* completely written when the directory was listed.                       *)
Reads == [slug : Slugs, left : Seq(RunIDs), got : Seq(RunIDs), limited : BOOLEAN, before : SUBSET RunIDs]

TypeOK ==
    /\ history \in [Slugs -> SUBSET RunIDs]
    /\ complete \subseteq RunIDs /\ writing \subseteq RunIDs \ complete
    /\ slugOf \in [RunIDs -> Slugs \cup {NoSlug}]
    /\ \A s \in Slugs : \A i \in history[s] : slugOf[i] = s
    /\ read \in [Readers -> Reads \cup {NoRead}]
    /\ mode \in Modes
    /\ regs \in Seq(Slugs)
    /\ cursor \in Nat /\ (regs # <<>> => cursor \in DOMAIN regs)
    /\ selReg \in Slugs \cup {NoSlug} /\ lastPip \in Slugs \cup {NoSlug}
    /\ runs \in Seq(RunIDs)
    /\ runCursor \in Nat /\ (runs # <<>> => runCursor \in DOMAIN runs)
    /\ detail \in RunIDs \cup {NoRun}
    /\ job \in {"none", "load", "run", "write", "last", "done"}
    /\ jobSlug \in Slugs \cup {NoSlug} /\ jobRun \in RunIDs \cup {NoRun}
    /\ printed \in Seq(RunIDs)
    /\ value \in [RunIDs -> Values] /\ shown \in Seq(RunIDs)
    /\ viewer \in {"tui", "widget", "command"} /\ (viewer # "tui" => mode = "off")

(* What List may return, sorted by slug: other processes register and      *)
(* remove pipelines.                                                       *)
Registrations ==
    {r \in UNION {[1..n -> Slugs] : n \in 0..Cardinality(Slugs)} :
        \A i, j \in DOMAIN r : i < j => r[i] < r[j]}

Init ==
    /\ history = [s \in Slugs |-> {}]
    /\ complete = {} /\ writing = {} /\ slugOf = [i \in RunIDs |-> NoSlug]
    /\ read = [r \in Readers |-> NoRead]
    /\ viewer \in {"tui", "widget", "command"}
    /\ mode = "off" /\ regs = <<>>
    /\ cursor = 1 /\ runCursor = 1
    /\ selReg = NoSlug /\ lastPip = NoSlug /\ runs = <<>> /\ detail = NoRun
    /\ job = "none" /\ jobSlug = NoSlug /\ jobRun = NoRun
    /\ printed = <<>> /\ shown = <<>>
    /\ value \in [RunIDs -> IF viewer = "widget" THEN Values ELSE {"none"}]

------------------------------------------------------------------------------
(* The other processes.                                                    *)

CreateFile(s, i) ==
    /\ slugOf[i] = NoSlug
    /\ slugOf' = [slugOf EXCEPT ![i] = s]
    /\ history' = [history EXCEPT ![s] = @ \cup {i}]
    /\ writing' = writing \cup {i}
    /\ UNCHANGED <<viewer, value, complete, read, tui, jobVars, printed, shown>>

CompleteFile(i) ==
    /\ i \in writing
    /\ writing' = writing \ {i}
    /\ complete' = complete \cup {i}
    /\ UNCHANGED <<viewer, value, history, slugOf, read, tui, jobVars, printed, shown>>

PurgeRuns(s) ==
    /\ history[s] # {}
    /\ history' = [history EXCEPT ![s] = {}]
    /\ writing' = writing \ history[s]
    /\ UNCHANGED <<viewer, value, complete, slugOf, read, tui, jobVars, printed, shown>>

Others ==
    \/ \E s \in Slugs : PurgeRuns(s) \/ \E i \in RunIDs : CreateFile(s, i)
    \/ \E i \in RunIDs : CompleteFile(i)

------------------------------------------------------------------------------
(* store.Runs and LastRun.                                                 *)

(* A file name is the second of the start and the ID.                      *)
NameBefore(i, j) ==
    LET a == StartOf[i] \div 2
        b == StartOf[j] \div 2
    IN  a < b \/ (a = b /\ i < j)

(* The orders of sort.Reverse in store.Runs and of handleAPISeries.        *)
NewerName == {p \in RunIDs \X RunIDs : NameBefore(p[2], p[1])}
EarlierStart == {p \in RunIDs \X RunIDs : StartOf[p[1]] < StartOf[p[2]]}

(* Variant: the limit takes the other end of the names.                    *)
OldestNames(s, limit) ==
    LET names == InOrder(history[s], NewerName)
    IN  IF Len(names) > limit THEN SubSeq(names, Len(names) - limit + 1, Len(names)) ELSE names

(* The names, newest first, at most limit of them.                         *)
NewestNames(s, limit) ==
    LET names == InOrder(history[s], NewerName)
    IN  IF Len(names) > limit THEN SubSeq(names, 1, limit) ELSE names

(* os.ReadDir                                                              *)
ReadDir(s, limit) ==
    [slug |-> s, left |-> NewestNames(s, limit), got |-> <<>>,
     limited |-> Cardinality(history[s]) > limit, before |-> history[s] \cap complete]

(* Variant: what does not unmarshal is returned as it is.                  *)
ReadTorn(r) ==
    /\ read[r] # NoRead /\ read[r].left # <<>>
    /\ LET i == Head(read[r].left)
       IN  read' = [read EXCEPT ![r].left = Tail(@),
                                ![r].got = IF i \in history[read[r].slug] THEN Append(@, i) ELSE @]
    /\ UNCHANGED <<viewer, value, store, tui, jobVars, printed, shown>>

(* os.ReadFile and json.Unmarshal of the next name: a file that is gone or *)
(* not complete is passed over.                                            *)
ReadFile(r) ==
    /\ read[r] # NoRead /\ read[r].left # <<>>
    /\ LET i == Head(read[r].left)
       IN  read' = [read EXCEPT ![r].left = Tail(@),
                                ![r].got = IF i \in history[read[r].slug] \cap complete
                                           THEN Append(@, i) ELSE @]
    /\ UNCHANGED <<viewer, value, store, tui, jobVars, printed, shown>>

HasRead(r) == read[r] # NoRead /\ read[r].left = <<>>

(* &runs[0], or nil                                                        *)
FirstOf(page) == IF page = <<>> THEN NoRun ELSE Head(page)

------------------------------------------------------------------------------
(* The TUI: one message at a time, the next when Update has returned.      *)

Idle == mode # "off" /\ read["tui"] = NoRead

Stay == UNCHANGED <<viewer, value, store, jobVars, printed, shown>>

(* Variant: the new rows are given to the table that is there.             *)
ReloadRows ==
    \/ regs' \in Registrations /\ UNCHANGED cursor
    \/ UNCHANGED <<regs, cursor>>

(* reload: List, and a new table, or both as they were if List fails.  The *)
(* columns with the last run of each pipeline are left out.                *)
Reload ==
    \/ regs' \in Registrations /\ cursor' = 1
    \/ UNCHANGED <<regs, cursor>>

(* Run and initialModel.                                                   *)
RunTUI ==
    /\ viewer = "tui" /\ mode = "off"
    /\ mode' = "list"
    /\ regs' \in Registrations /\ cursor' = 1
    /\ Stay /\ UNCHANGED <<read, selReg, lastPip, runs, runCursor, detail>>

(* The keys that a table of the bubbles library handles itself.            *)
Clamp(n, len) == IF n < 1 THEN 1 ELSE IF n > len THEN len ELSE n

Move ==
    /\ Idle
    /\ \E step \in {-1, 1} :
         \/ /\ mode = "list" /\ cursor' = Clamp(cursor + step, Len(regs)) /\ UNCHANGED runCursor
         \/ /\ mode = "runs" /\ runCursor' = Clamp(runCursor + step, Len(runs)) /\ UNCHANGED cursor
    /\ Stay /\ UNCHANGED <<read, mode, regs, selReg, lastPip, runs, detail>>

ReloadKey ==
    /\ Idle /\ mode = "list"
    /\ Reload
    /\ Stay /\ UNCHANGED <<read, mode, selReg, lastPip, runs, runCursor, detail>>

(* enter: the selection and the banner change before loadRuns, which fails *)
(* if the directory cannot be read.                                        *)
EnterList ==
    /\ Idle /\ mode = "list" /\ regs # <<>>
    /\ selReg' = regs[cursor] /\ lastPip' = regs[cursor]
    /\ \/ read' = [read EXCEPT !["tui"] = ReadDir(regs[cursor], PageSize)]
       \/ UNCHANGED read
    /\ Stay /\ UNCHANGED <<mode, regs, cursor, runs, runCursor, detail>>

ReloadRuns ==
    /\ Idle /\ mode = "runs" /\ selReg # NoSlug
    /\ read' = [read EXCEPT !["tui"] = ReadDir(selReg, PageSize)]
    /\ Stay /\ UNCHANGED tui

(* loadRuns has read the page: a new table, and the view of the runs.      *)
LoadRuns ==
    /\ HasRead("tui")
    /\ runs' = read["tui"].got /\ runCursor' = 1
    /\ mode' = "runs"
    /\ read' = [read EXCEPT !["tui"] = NoRead]
    /\ Stay /\ UNCHANGED <<regs, cursor, selReg, lastPip, detail>>

EnterRuns ==
    /\ Idle /\ mode = "runs" /\ runs # <<>>
    /\ detail' = runs[runCursor]
    /\ mode' = "detail"
    /\ Stay /\ UNCHANGED <<read, regs, cursor, selReg, lastPip, runs, runCursor>>

(* Variant: esc in the result goes where it goes in the detail view.       *)
BackToRuns ==
    /\ Idle /\ mode \in {"runs", "detail", "result"}
    /\ mode' = IF mode = "runs" THEN "list" ELSE "runs"
    /\ Stay /\ UNCHANGED <<read, regs, cursor, selReg, lastPip, runs, runCursor, detail>>

(* esc                                                                     *)
Back ==
    /\ Idle /\ mode \in {"runs", "detail", "result"}
    /\ mode' = IF mode = "detail" THEN "runs" ELSE "list"
    /\ Stay /\ UNCHANGED <<read, regs, cursor, selReg, lastPip, runs, runCursor, detail>>

(* r: runSelectedCmd captures the registration; only ctrl+c is heard until *)
(* the command is done.                                                    *)
RunKey ==
    /\ Idle /\ mode = "list" /\ regs # <<>>
    /\ mode' = "running"
    /\ job' = "load" /\ jobSlug' = regs[cursor] /\ jobRun' = NoRun
    /\ UNCHANGED <<viewer, value, store, read, regs, cursor, selReg, lastPip, runs, runCursor, detail, printed, shown>>

(* Variant: q is heard everywhere, and the TUI goes on with the command.   *)
QuitToList ==
    /\ Idle
    /\ mode' = "list"
    /\ UNCHANGED <<viewer, value, store, jobVars, read, regs, cursor, selReg, lastPip, runs, runCursor, detail, printed, shown>>

(* q, or ctrl+c while a pipeline runs: the process ends, and the command   *)
(* with it, wherever it is.                                                *)
Quit ==
    /\ Idle
    /\ mode' = "off" /\ regs' = <<>> /\ cursor' = 1 /\ runCursor' = 1
    /\ selReg' = NoSlug /\ lastPip' = NoSlug /\ runs' = <<>> /\ detail' = NoRun
    /\ job' = "none" /\ jobSlug' = NoSlug /\ jobRun' = NoRun
    /\ read' = [read EXCEPT !["job"] = NoRead]
    /\ UNCHANGED <<viewer, value, store, printed, shown>>

(* Variant: the command's answer is shown under the selected pipeline.     *)
ResultOfSelected ==
    /\ Idle /\ job = "done"
    /\ detail' = IF HasRead("job") THEN FirstOf(read["job"].got) ELSE NoRun
    /\ mode' = "result"
    /\ job' = "none" /\ read' = [read EXCEPT !["job"] = NoRead]
    /\ Reload
    /\ UNCHANGED <<viewer, value, store, jobSlug, jobRun, selReg, lastPip, runs, runCursor, printed, shown>>

(* runDoneMsg                                                              *)
RunDone ==
    /\ Idle /\ job = "done"
    /\ detail' = IF HasRead("job") THEN FirstOf(read["job"].got) ELSE NoRun
    /\ lastPip' = jobSlug /\ mode' = "result"
    /\ job' = "none" /\ read' = [read EXCEPT !["job"] = NoRead]
    /\ Reload
    /\ UNCHANGED <<viewer, value, store, jobSlug, jobRun, selReg, runs, runCursor, printed, shown>>

Keys ==
    \/ Move \/ ReloadKey \/ EnterList \/ ReloadRuns \/ EnterRuns \/ Back \/ RunKey \/ Quit

------------------------------------------------------------------------------
(* The command of runSelectedCmd, a goroutine of its own.                  *)

NextJob(from, to) == job = from /\ job' = to

Aside == UNCHANGED <<viewer, value, tui, jobSlug, printed, shown>>

(* config.Load                                                             *)
LoadFails == NextJob("load", "done") /\ Aside /\ UNCHANGED <<history, complete, writing, slugOf, read, jobRun>>

(* runner.Execute draws an ID ...                                          *)
Execute ==
    /\ NextJob("load", "run")
    /\ \E i \in RunIDs : slugOf[i] = NoSlug /\ jobRun' = i /\ slugOf' = [slugOf EXCEPT ![i] = jobSlug]
    /\ Aside /\ UNCHANGED <<history, complete, writing, read>>

(* ... and records the run, or does not: the error is dropped.             *)
RecordRun ==
    /\ \/ NextJob("run", "write") /\ history' = [history EXCEPT ![jobSlug] = @ \cup {jobRun}]
       \/ NextJob("run", "last") /\ UNCHANGED history
    /\ Aside /\ UNCHANGED <<complete, writing, slugOf, read, jobRun>>

WriteRun ==
    /\ NextJob("write", "last")
    /\ complete' = IF jobRun \in history[jobSlug] THEN complete \cup {jobRun} ELSE complete
    /\ Aside /\ UNCHANGED <<history, writing, slugOf, read, jobRun>>

LastRun ==
    /\ job = "last" /\ read["job"] = NoRead
    /\ read' = [read EXCEPT !["job"] = ReadDir(jobSlug, 1)]
    /\ Aside /\ UNCHANGED <<history, complete, writing, slugOf, job, jobRun>>

SendDone ==
    /\ HasRead("job") /\ NextJob("last", "done")
    /\ Aside /\ UNCHANGED <<history, complete, writing, slugOf, read, jobRun>>

Job == LoadFails \/ Execute \/ RecordRun \/ WriteRun \/ LastRun \/ SendDone

------------------------------------------------------------------------------
(* logs and log, /p/<slug> and /api/pipelines/<slug>/runs: Get, Runs, and  *)
(* what was read is the answer.                                            *)

Ask(s, limit) ==
    /\ viewer = "command" /\ read["command"] = NoRead
    /\ read' = [read EXCEPT !["command"] = ReadDir(s, limit)]
    /\ UNCHANGED <<viewer, value, store, tui, jobVars, printed, shown>>

PrintRuns ==
    /\ HasRead("command")
    /\ printed' = read["command"].got
    /\ read' = [read EXCEPT !["command"] = NoRead]
    /\ UNCHANGED <<viewer, value, store, tui, jobVars, shown>>

------------------------------------------------------------------------------
(* The widget.  Its page polls the dashboard server, whose PipelineProxy   *)
(* asks /api/pipelines/<slug>/series.                                      *)

(* setInterval: also while earlier requests are under way.                 *)
Poll(p) ==
    /\ viewer = "widget" /\ read[p] = NoRead
    /\ read' = [read EXCEPT ![p] = ReadDir(WidgetSlug, PageSize)]
    /\ UNCHANGED <<viewer, value, store, tui, jobVars, printed, shown>>

(* Variant: the order of the file names is taken for that of the starts.   *)
SeriesByName(page) == Reverse(SelectSeq(page, LAMBDA i : value[i] # "none"))

(* handleAPISeries: the runs that have a number, oldest first.  toFloat    *)
(* lets the string "NaN" through, which JSON cannot encode: the body is    *)
(* empty and PipelineProxy.Series makes it an empty series.                *)
Series(page) ==
    LET points == {page[k] : k \in {n \in DOMAIN page : value[page[n]] # "none"}}
    IN  IF \E i \in points : value[i] = "NaN" THEN <<>>
        ELSE InOrder(points, EarlierStart)

(* Variant: a widget that shows something is left as it is.                *)
MountOnce(p) ==
    /\ HasRead(p)
    /\ shown' = IF shown = <<>> THEN Series(read[p].got) ELSE shown
    /\ read' = [read EXCEPT ![p] = NoRead]
    /\ UNCHANGED <<viewer, value, store, tui, jobVars, printed>>

(* The answer arrives: refresh mounts it, whichever request it answers.    *)
Mount(p) ==
    /\ HasRead(p)
    /\ shown' = Series(read[p].got)
    /\ read' = [read EXCEPT ![p] = NoRead]
    /\ UNCHANGED <<viewer, value, store, tui, jobVars, printed>>

(* The daemon does not answer: errSeries is mounted.  The dashboard server *)
(* does not: refresh leaves the widget as it is.                           *)
PollFails(p) ==
    /\ HasRead(p)
    /\ shown' \in {<<>>, shown}
    /\ read' = [read EXCEPT ![p] = NoRead]
    /\ UNCHANGED <<viewer, value, store, tui, jobVars, printed>>

------------------------------------------------------------------------------
Next ==
    \/ Others
    \/ \E r \in Readers : ReadFile(r)
    \/ RunTUI \/ Keys \/ LoadRuns \/ RunDone \/ Job
    \/ PrintRuns \/ \E s \in Slugs, limit \in {1, PageSize} : Ask(s, limit)
    \/ \E p \in Polls : Poll(p) \/ Mount(p) \/ PollFails(p)

Spec == Init /\ [][Next]_vars

(* The browser's timer and the servers go on, and a widget that is asked   *)
(* for again and again is answered now and then.                           *)
Fairness ==
    \A p \in Polls : WF_vars(Poll(p)) /\ WF_vars(ReadFile(p)) /\ SF_vars(Mount(p))

FairSpec == Spec /\ Fairness

------------------------------------------------------------------------------
(* Properties.                                                             *)

(* Whatever is written and deleted meanwhile, store.Runs leaves out a run  *)
(* that was there all the time only for the limit, and then for runs with  *)
(* later names; what it returns is in the order of the names, each once.   *)
RegularRead ==
    \A r \in Readers : HasRead(r) =>
        LET page   == read[r].got
            stayed == read[r].before \cap history[read[r].slug]
        IN  /\ \A k \in 1..(Len(page) - 1) : NameBefore(page[k + 1], page[k])
            /\ ToSet(page) \subseteq complete
            /\ \A i \in stayed \ ToSet(page) :
                 /\ read[r].limited
                 /\ \A j \in ToSet(page) : NameBefore(i, j)

(* model.mode and the command: the TUI runs one pipeline at a time, and    *)
(* waits for a command that is there.                                      *)
OneJob == mode = "running" <=> job # "none"

(* Through any sequence of keys, failed reloads and changes of the         *)
(* registrations, what a view shows (View) belongs under its banner        *)
(* lastPip: the list of runs, the run selected from it, and the result.    *)
ViewMatches ==
    /\ mode \in {"runs", "detail"} =>
         lastPip = selReg /\ \A i \in ToSet(runs) : slugOf[i] = lastPip
    /\ mode = "detail" => detail \in ToSet(runs)
    /\ mode = "result" =>
         lastPip = jobSlug /\ (detail # NoRun => slugOf[detail] = lastPip)

(* The result view shows LastRun, which other processes may have got ahead *)
(* of: if the TUI's own run was recorded and is still there, it is that    *)
(* run or one with a later name, or nothing because of one.                *)
ResultNotOlder ==
    mode = "result" /\ jobRun # NoRun /\ jobRun \in history[jobSlug] \cap complete =>
        \/ detail = jobRun
        \/ detail # NoRun /\ NameBefore(jobRun, detail)
        \/ /\ detail = NoRun
           /\ \E i \in RunIDs : slugOf[i] = jobSlug /\ NameBefore(jobRun, i)

(* The points of a widget are in the order of the starts although those of *)
(* a second have names in any order ("sort by real timestamp", api.go).    *)
SeriesInOrder ==
    \A k \in 1..(Len(shown) - 1) : StartOf[shown[k]] < StartOf[shown[k + 1]]

Current ==
    Series(SelectSeq(NewestNames(WidgetSlug, PageSize), LAMBDA i : i \in complete))

(* Although requests overlap, an older answer may replace a newer one and  *)
(* some fail: once the store has come to rest, a page that stays open      *)
(* shows its state again and again.                                        *)
WidgetSettles ==
    <>[][UNCHANGED <<history, complete>>]_vars => []<>(viewer = "widget" => shown = Current)
==============================================================================
