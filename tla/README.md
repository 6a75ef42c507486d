# A verification project for Shelby

Shelby runs *pipelines*: YAML files that list steps (HTTP requests, shell
commands, scripts, conditionals, aggregations). They are registered in a store
directory, run by hand or by a daemon at their interval, and their runs are
recorded as JSON files which a CLI, a TUI, an HTTP API and dashboards show.

This directory holds TLA+ models of the parts of Shelby in which order matters,
the TLC runs that check them on small instances, and proofs, checked by TLAPS,
that hold for every value of the constants. Line numbers are those of the
sources under `src/`; `PROJECT.json` maps every definition to its lines.

## 1. Inventory

| Part | State | Operations | Talks to |
|---|---|---|---|
| **Scheduler daemon** `internal/server/scheduler.go`, `cmdServe` in `internal/cli/root.go` | `mu`, `locks` (slug to mutex), `wg`, a ticker and a cached pipeline per loop | `Start`, `loop`, `tickOnce`, `RunOnce`, `lockFor`, `Wait` | reads store and YAML, calls the runner, cancelled by `cmdServe` |
| **HTTP API** `internal/server/server.go`, `api.go` | none of its own | `POST .../run`; read-only index, detail, runs, series | `Scheduler.RunOnce`, store |
| **Store** `internal/store/store.go` | `pipelines/<slug>.json`, `runs/<slug>/<second>_<id>.json` | `Add`, `Update`, `Get`, `List`, `Remove`, `PurgeRuns`, `PurgeAll`, `RecordRun`, `Runs`, `LastRun`, `Run` | shared, without a lock, by the daemon, the TUI and every CLI command |
| **Runner, engine** `internal/runner`, `internal/engine` | `rc.Steps` (ID to output), contexts with deadlines | `ExecuteWithObserver`, `Run`, `RunStep`, `Resolve`, `FinalOutput`, `BuildRunRecord` | executors, store |
| **Conditional** `internal/executors/conditional.go` | none | `Execute`: condition, then a branch through `RunStep` | engine, recursively |
| **Script, shell** `executors/script.go`, `collectors/shell.go` | a child process and the goroutines of `os/exec` | start, wait, SIGTERM, SIGKILL after 2 s, parse output | operating system |
| **Aggregator**, **parsers** `executors/aggregator.go`, `collectors/parse.go` | none | pure: `collect` and the operations; lines, regex, JSON, TextFSM | shell executor, engine |
| **Collectors** `collectors/http.go`, `sys.go` | none | one request, one reading | network, operating system |
| **Loader** `internal/config` | none | `Load` | file system |
| **Lint** `internal/lint` | none | `Validate`, `Lint` | loader |
| **TUI** `internal/tui` | current view, two tables, the selected pipeline, the banner, the last result | key handlers, a run in the background | store, runner (not the daemon's locks) |
| **Dashboard server** `internal/viz/server.go`, page `shell/base.html` | the hub's SSE clients, a file watcher; in the page, one connection | serve page, add, remove, broadcast, notify; reload, retry | files, browser |
| **Widgets** `shell/runtime.js`, `viz/data.go` | in the page, one timer per widget | poll, mount | dashboard server, daemon's API |

What makes each of them hard, and what it means for it to be correct:

* **Daemon.** One goroutine per pipeline, one per request, the main goroutine,
  and other processes that edit files underneath. Never two runs of a pipeline
  at a time within the daemon; no mutex left locked; a loop survives an
  unreadable file and takes up edits; requests get an answer and shutdown comes
  to an end although runs may hang.
* **Store.** Several processes, no lock, and two file-system calls where a
  reader would like one (`os.WriteFile` truncates and then writes; `Remove` and
  `PurgeAll` delete in two places, each file by file, and give up when somebody
  has put a new file where they were). A process may die between any two of them.
  Records must not overwrite each other, a removal must not leave history
  without an owner, a page of the newest runs must not skip any.
* **Engine.** Steps nest; the output of a failed step is stored where
  references find it; deadlines of enclosing steps pass in the middle of inner
  ones; the record is built after the fact from `rc.Steps`. A failure must stop
  everything around it, nothing may work on a failed step's output, and the
  record must say what happened.
* **Executors.** Four goroutines, a process and its descendants: cancellation
  against completion. A success must be one; nothing may be left behind;
  `Execute` returns although a process ignores SIGTERM or a descendant keeps the
  pipes open. The parsers and the aggregator compute with whatever a command
  printed.
* **Lint.** What it accepts should be what runs: order, branches, shared IDs and
  the several ways to write a reference decide.
* **TUI.** Views are set by keys, by reloads that may fail and by the answer of a
  goroutine; what is shown must belong under the name above it.
* **Readers of the history** (TUI, `logs`, the API). `Runs` reads a directory
  file by file that others write and purge.
* **Dashboards.** Notifications pass through a channel of one place, a connection
  that may break and a server that may restart; requests of a widget overlap.

`PROJECT.json` lists these hazards one by one, each at the line where it bites,
with the properties that would catch it going wrong.

## 2. Modules

| Module | What it is |
|---|---|
| `ExclusiveRuns` | the abstract specification of the scheduler: per slug, somebody begins a run, the same ends it |
| `Scheduler` | the daemon in detail; implements `ExclusiveRuns` |
| `Scheduler_proofs` | type correctness, mutual exclusion, no leaked mutex, the refinement |
| `RunLog` | the abstract specification of the history of runs: files are created, completed once, and deleted one by one while somebody is deleting their history |
| `Ordering` | sorting, as `RunStore` and `Views` use it |
| `Ordering_proofs` | what is sorted has every element once, in order; induction and recursion over numbers |
| `RunStore` | the store directory, one action per file-system call, any number of processes; implements `RunLog` |
| `RunStore_proofs` | type correctness, `HistoryHasOwner`, `TornOnlyWhileWriting`, `RecordsSurvive`, `PageSound`, the refinement |
| `Engine` | one run of a pipeline, as a stack of step lists |
| `Engine_proofs` | type correctness, `NoReadOfFailed`, `FailFast`, `RecordTruthful` |
| `Lint` | `Validate` and the timeouts of `Lint`, as operators on the pipelines that `Engine` runs |
| `Lint_proofs` | `ValidatedRefsFound`, `LintedBounded` |
| `Values` | the aggregator and the output parsers, as operators |
| `Executors` | one call of an executor: a command in detail, the others in a step or two; uses `Values` |
| `Executors_proofs` | type correctness, `OkTrusted`, `NothingLeftBehind`, `RecordsPrinted`, `AggregateSound` |
| `LiveReload` | watcher, hub, SSE handlers and the page that reloads itself |
| `LiveReload_proofs` | type correctness, `OutdatedIsNotified` |
| `Views` | who reads the history while others write it: the TUI, a command, a widget |
| `Views_proofs` | type correctness, `OneJob`, `ViewMatches`, `RegularRead`, `ResultNotOlder`, `SeriesInOrder` |
| `MCScheduler`, `MCRunStore`, `MCEngine`, `MCExecutors`, `MCLiveReload`, `MCViews` | model values, symmetry, trees, pipelines and values for TLC |

`Scheduler` treats a run as the interval between `TryLock` and `Unlock`.
`Engine` is what happens within that interval, `Executors` what happens within
`Engine!LeafReturns`, and `RunStore` what the last step of a run writes;
`Views` reads it. They meet in `runner.ExecuteWithObserver`: `Engine!Record`
builds the record that `RunStore!MakeRunDir`, `CreateRunFile` and `WriteRunFile`
put on disk. `Lint` extends `Engine`, `Executors` extends `Values`, and `RunStore`
and `Views` extend `Ordering`; the others are not composed into one state space.

### Scheduler

A goroutine is a process with a program counter `pc[p]`. Loops are named after
their slug. Each action is one stretch of code between two points at which
another goroutine can interfere:

* `cmdServe`: `Start` (the registrations are listed once), `Signal`, `Cancel`
  (`hs.Shutdown` returns when the handlers are done or after five seconds, so
  nothing is required of the handlers), `Exit` (after `Wait`).
* `loop`: `Load`, then `lockFor` and so on; `ReceiveTick`, `Reload`, `Stop`.
  `Fire` is the ticker, whose channel holds one tick and drops the rest.
* `RunOnce`: `Accept`, `Get`, `LoadOnce`; `Expire` is the end of its context.
* both: `EnterLockFor` and `ExitLockFor` (the critical section of `mu`, with the
  lookup and the allocation of the mutex apart), `TryLock`, `Skip`, `FinishRun`.
* other processes: `EditYaml`, `EditRegistration`, at any time.

A mutex is identified by who allocated it, so that two goroutines holding
different mutexes for one slug is a state the model can express. A pipeline is
one of a few values: with an interval or not (`Periodic`), ending by itself or
only when cancelled (`Hanging`); `NoPipeline` is an error of `config.Load`. When
the process exits, handlers still running are cut off wherever they are.

### RunStore

`pc[p]` says which operation a process is in and which file-system calls it has
made. `os.WriteFile` is an open that truncates (`TruncateReg`, `CreateRunFile`)
and a write (`WriteReg`, `WriteRunFile`); a file unlinked in between is written
to in vain (`linked`). Two overlapping writes of one registration leave the
longer tail behind the shorter text (`Overwrite`). A crash needs no action of
its own: nothing obliges a process to take its next step, so every state after a
crash is a reachable one. The clock moves in seconds, as file names do, and run
IDs are drawn in any order, as random ones are. A record carries its true order
of starting and whether its writer's registration had been removed; these are
history variables that no guard reads.

`os.RemoveAll` unlinks one file after the other, in any order (`UnlinkRun`,
`RemoveDir`, `WipeReg`), and removes the directory in the end, which is an error
if a file has been created there meanwhile. `Remove` drops that error (`KeepRuns`),
`PurgeRuns` returns it (`FailPurge`), and so does `PurgeAll` (`FailPurgeAll`): if
`pipelines/` cannot be removed, because another pipeline is just being registered,
`runs/` is not touched, and histories stay whose registrations are gone. The
history variable `spared` collects the runs that are left like that. While `runs/`
itself is being removed, making a directory in it may fail. A run may also be lost
because its record cannot be encoded (an infinity or a NaN in an output).

`Runs` and `LastRun` are
operators on the state, evaluated in every state by `PageSound`; they sort with
`Ordering!InOrder`, which puts each name at the place given by the number of names
before it. A daemon's loop, a manual run, a CLI run and the TUI are all "a process
that has read the registration" (`Get`) and then runs any number of times (`StartRun`).

`RunLog` says what all this amounts to for the history: a run gets one file, empty
at first, which is completed once or never, goes only while somebody is deleting
its history, and is then gone for good. A deletion may leave any part of a history,
when it gives up and when its process dies. The refinement mapping (`Files`, `Seen`,
`Deleting`) reduces a file to its ID, its second and whether it is complete, takes
a run for seen when its ID is drawn and it is not, or no longer, going to get a
file, and a history for being deleted when a process is in `os.RemoveAll` of it.

### Engine

The recursion `Run` - `RunStep` - `Conditional.Execute` - `RunStep` is a stack
`frames` of step lists; the head of a list is the step in progress while a list
above it exists, so "the step that has just returned" is the head of the top
list. `Return` is the end of `RunStep` including the observer; `StoreOutput`,
`FailBranch` and `FailRun` are what the two loops around `RunStep` do with its
result. An output is reduced to its OK flag and to whether its data has the
fields that references ask for; a reference resolves exactly if the step has
stored such an output, whatever its OK flag (`lookup`). References differ by
where they stand and how they are written (`Ref`), because `Resolve`, the
conditional, the aggregator and `lint` do not see the same ones: a shell command
is never resolved, a bare ID in an `over` list is plain text to `Resolve`, and
`${steps.id.output}` without a field resolves nowhere. A condition's value is a
choice. Contexts: `expired` are the steps whose deadline has passed; a leaf's
context is done if that of any enclosing step is, or if the run was cancelled.
An executor whose context is done need not fail. A timeout is missing, positive or
negative; only a positive one is a deadline (`Timed`, `engine.go:63`).

### Lint

No state: `Validate(p)` is the set of errors and `TimeoutWarnings(p)` the steps
warned of, for a pipeline `p` of `Engine!Programs`. The recursive walks over the
tree are the sets of nodes they visit: `Below[n]` is the least set that has the
children of `n` and of its own elements. Only `lintSteps` depends on the order of
its walk (`WalkedBefore`), since it passes over a step whose ID it has seen, with
all its branches: whether a step is linted depends on the steps walked before it,
and that determines the set of those that are (`IsLinted`, `Linted`).
A timeout is warned of only if it is zero (`lint.go:125`), so that of a negative one
nobody hears.
The runs of `MCEngine` evaluate them along with the run of the same
pipeline, which is what the properties compare.

### Values

`Aggregate(op, over, field)` and `ParseOutput(text, p)`. A value is a tuple with a
tag: a number, NaN, an infinity, another string, nil, a list or a map. A text is a
sequence of lines, of which only matters whether they are empty, only space or a
JSON document; parsers count lines by their places, and `JsonDescend` goes down a
path one segment at a time. `parseLines` passes over lines of space, `parseRegex`
only over empty ones (`parse.go:229`), and a pattern may match any of the others.
NaN matters because `strconv.ParseFloat` accepts the word; no comparison with it is
true. `Leaves` descends into lists of any depth.

A finite float64 is a multiple of the least positive one and is written as the
multiplier, so that `Floats` is a set of integers that are unevenly spread. `Add`
takes the exact sum and rounds it to the nearest of them, or to an infinity from
`Huge` on; `Divide` rounds likewise. Nothing is assumed of `Floats` but that it has
zero and lies within `Huge` on both sides. So sums lose what is small, depend on the
order of their terms and overflow, and an average may be infinite although every
number is finite, or lie beyond the greatest by a rounding. What `AggregateSound`
says of them is what remains true of that arithmetic.

### Executors

One call of `Execute`. For a command, `pc` says where `Execute` is in `cmd.Run`,
`child` and `exit` what the process has come to, `watcher` where the goroutine of
`os/exec` is that waits for the context, `timer` is `WaitDelay`. The order is that
of `os/exec` in Go 1.26, which is external: `Process.Wait`, then the watcher's
result, then the copying goroutine or the rest of `WaitDelay`; the first error is
reported. A process may print, fork, end with any status on SIGTERM or not; a
descendant holds the pipes as long as it likes. `Shell` and `Script` are what the
two executors make of the result, line by line; `HTTPGet`, `SysStat` and
`Aggregator` are the others.

### LiveReload

`events` are file changes that `fsnotify` has and the watcher's goroutine has
not handled; `full[c]` is the one place of the channel of connection `c`; `wire`
and `cut` are what is on its way to the page, and connections that broke. A page
is a set `read` of files that were read for it, one by one, of which those in
`old` have changed since. A restarted server has an empty hub; the pages notice
by their broken connections, and reload.

### Views

`read[r]` is where reader `r` is in `store.Runs`: the names still to be read after
`os.ReadDir`, and the records read. Writing and purging by other processes are
reduced to what a reader can see of them (`CreateFile`, `CompleteFile`,
`PurgeRuns`); `RunStore` has them in detail. The TUI is bubbletea's loop: one
message at a time, so that a key is heard only when the last has been dealt with,
and a command of its own goroutine (`job`) whose answer is a message. A widget
polls whether or not earlier requests are answered. Readers do not disturb each
other, so a behaviour has one viewer.

## 3. What TLC checks

| Run | Instance | Distinct states | Question |
|---|---|---|---|
| `SchedulerSafety` | one slug, two handlers, one file, pipelines with and without interval; handlers interchangeable | 325,734 | `NoOverlap`, `LockDiscipline`, `LockedIffRunning`; implements `ExclusiveRuns` |
| `SchedulerLive` | one slug, one handler, one file, a pipeline that ends and one that hangs | 25,146 | `KeepsTrying`, `ShutdownCompletes`, `RequestAnswered`, `EditTakesEffect` |
| `RunStoreSafety` | two processes, two slugs, two run IDs, two seconds, registrations of different length; processes and slugs interchangeable | 2,026,570 | `HistoryHasOwner`, `PageSound`, `TornOnlyWhileWriting`; implements `RunLog` |
| `EngineRun` | six steps, a conditional within a conditional, 1,934 pipelines over that tree | 580,216 | `NoReadOfFailed`, `RecordTruthful`, `FailFast`, `RunEnds`, `ValidatedRefsFound`, `LintedBounded` |
| `Executors` | a step of every kind, seven parser configurations, aggregations of every one and two of 24 values, 15 finite floats; two lines of output | 237,320 | `OkTrusted`, `NothingLeftBehind`, `RecordsPrinted`, `AggregateSound`, `CancelReturns`, `ExitReturns`, `RequestReturns` |
| `LiveReload` | one tab, two connections, the dashboard, a template and a file that is not watched | 27,174 | `OutdatedIsNotified`, `OutdatedReloads`, `ClientsLeave` |
| `Views` | two pipelines, two runs of one second whose names are in the wrong order, pages of two, two requests of a widget | 209,461 | `RegularRead`, `OneJob`, `ViewMatches`, `ResultNotOlder`, `SeriesInOrder`, `WidgetSettles` |
| `SchedulerManual`, `RunStoreRm`, `RunStoreOrder`, `RunStoreTorn`, `LintOver` | as above, with one slug for the store | | the five disagreements of section 5 |

Why these bounds are enough. In the scheduler, slugs share nothing but `mu`,
which is free again after two steps; the contention for one slug by its loop and
two handlers is every kind of contention there is (loop against handler, handler
against handler), and the proofs cover the rest for any number of slugs,
handlers and files. The liveness run leaves out the second handler, not the
interesting case: its handler can hang in its run while the loop skips, and the
other way round. In the store, the second slug is there because a purge of
everything is stopped by the registration of another pipeline. Every property
speaks of one slug and of what one or two processes have done to it: one that
records, removes or purges and one that stands in its way, in any order and again
and again. Two runs are the least that have an order, take each other's place on a
page or make one history stay in part, and two seconds make runs that share one and
runs that do not. The proofs cover any number of processes, slugs and runs.
In the engine, each pipeline has at most one unusual step, one reference and one step
with a timeout, in all combinations, plus one shared ID; depth two is the first at which a
failure has to unwind more than one list; for validation, a reference of every
form stands in a top-level step or in a branch and points before, after, into a
branch, at its own step or nowhere. For the executors, two lines are enough for
every text that the parsers and `extractPayload` tell apart, and let output be cut
short after some of it was read; aggregation is a fold, and two values make every
pair of a kind with a kind. The floats of the instance have two bits and three
exponents (0, 1, 2, 3, 4, 6, 8, 12 and their negatives), few enough that a sum of
two or three of them is rounded, absorbed or infinite. For live reload, tabs share only the hub, whose
`broadcast` treats each client alike; a tab has its last connection and the one
before it, which the server may not have taken off yet. In `Views`, two runs in
the wrong order are the least that tells the order of names from that of starts, a
page of one is what `LastRun` asks for, and two requests are the least that overtake
each other; two pipelines make a view under the wrong name possible.

Bounds in the models are the constants only: `MaxSecond` bounds the clock and
`RunIDs` the runs of a behaviour.

Deadlock is checked in all runs; `Terminated`, `Finished` and `Returned` are the
states in which the program is over, and a store, a page or a TUI can always be
used. Other bounds: `MaxLines` the output of a command, `Conns` and `Polls` the
connections and requests of a page at a time.

### Fairness

`Scheduler!Fairness` says that a goroutine which can take a step is eventually
scheduled (weak fairness), that the ticker fires and that requests time out.
Two assumptions are strong:

* `EnterLockFor`: Go's `sync.Mutex` hands the lock to a waiter that has waited
  for more than a millisecond (starvation mode), so a goroutine in `lockFor` is
  not overtaken for ever.
* `Stop`: `select` picks at random among the cases that are ready, so a loop
  that finds both a tick and `ctx.Done()` again and again takes the latter
  eventually.

Nobody has to edit a file, send a request or send a signal. `Engine!FairSpec`
assumes that the goroutine of a run is scheduled and that timers fire; not that
anybody cancels. `RunStore` has no fairness: any process may stop anywhere.

`Executors!Fairness`: the goroutines of a command are scheduled, timers fire, SIGKILL
kills and the HTTP client's timeout ends a request; a process need never end and
a server never answer. `LiveReload!Fairness`: handlers, the watcher and the
page's script go on. `LeaveHub` is strongly fair, since `select` picks at random
when a client has both a notification and a context that is done. Nobody has to
keep a server running, or a page open. `Views!Fairness`: the timer of a page that
stays open goes on asking and its requests are read; `Mount` is strongly fair: of
requests that are made again and again, not all fail.

Each property of a passing run has a mutant in `PROJECT.json`: a change of one
definition, of the kind a slip in the code would be, under which TLC finds the
property violated. The mutated forms stand before the definitions they replace
and are called variants there.

## 4. What is proved

TLAPS checks the following for all values of the constants that satisfy the
named assumptions (`SchedulerAssumption`, `RunStoreAssumption`,
`EngineAssumption`, `ProgramsAssumption`, `TreeAssumption`, `StepShape`,
`DataAssumption`, `FloatsAssumption`, `LiveReloadAssumption`, `ViewsAssumption`). These say that special
values such as `NoFile` are no ordinary ones and that sets are sets of the right
things; in `TreeAssumption`, that a node of the tree of steps is one place in the
file, so that none is listed twice (two steps may well share an ID); in
`DataAssumption`, that a list is nested to a finite depth, as what a decoder has
made is: of any values, one is not made of others of them; and in
`FloatsAssumption`, that zero is a float and that overflow begins beyond the finite
ones. None bounds the number
of pipelines, handlers, processes, runs, steps, tabs, connections or lines, except
that the sets of run IDs and slugs are finite.

**Scheduler_proofs.** `TypeCorrect` (no goroutine runs a nil pipeline or uses a
nil mutex, whatever is done to the files), `LockForAgrees`, `MutualExclusion`,
`NoLeakedLock` and `Refinement`. Mutual exclusion is not inductive: a second
goroutine at `TryLock` is kept out only because its mutex is the one the first
has locked, and that follows from `LockDiscipline` (what was looked up is still
what the map holds, which rests on `mu`) together with `LockedIffRunning`
(locked means somebody runs) and with the fact that mutexes of different slugs
differ. The inductive invariant is the conjunction of these with the types. The
refinement maps a slug to the goroutine running it; mutual exclusion makes that
mapping a function, and every step to a `Begin`, an `End` or a stutter.

**Ordering_proofs.** `Sorted`: in a strict total order of a finite set, `InOrder`
lists every element once, in that order. The element with `k` others before it is
found by counting: places are distinct, there are as many as elements, so each
number is somebody's place. The library's induction theorems take a predicate as a
parameter, which the installed provers cannot instantiate; `LeastNumber` (from the
well-foundedness of the numbers), `Upward` and `Recursion` say the same with sets
and functions in the place of predicates, and the other proofs use them.

**RunStore_proofs.** `TypeCorrect`, `HistoryOwned`, `TornWritten`,
`RunsSurvive`, `PagesSound`, `Refinement`.
`HistoryHasOwner` needs two companions: whoever holds a copy of a registration that
is gone is known to be stale (`HoldersStale`), so that the files it creates are
excused, and a process that works on all slugs has none in mind (`NoSlugInMind`),
so that it is no such holder. The order of the two deletions in `Remove` and
`PurgeAll` enters in `RemovalEnds`: a history whose registration is gone has its
remover in the middle of the deletion, and when that returns, the history is empty
or what is left of it is in `spared`. `RunsSurvive`
(no record is overwritten, which `ImplementsRunLog` includes, so that no run checks
it separately) rests on `OwnFile`: the ID of a run in progress is in no file but its
own. `PagesSound` needs `OneFileEach` besides (no two files of a directory are of one run), which
makes the order of names total and finite, so that `Sorted` applies; the limit cuts
a list of which the rest has earlier names. `Refinement` uses both, to know that
`CreateRunFile` overwrites nothing and that `WriteRunFile` changes one file, and
`OpenLinked`: a file that is open and was not unlinked is still in its history, so
that completing it brings back nothing that a purge has deleted.

**Engine_proofs.** `TypeCorrect`, `ReadsOnlySuccesses`, `StopsAtFirstFailure`,
`RecordsWhatHappened`, for any tree of steps, any depth and any set of pipelines.
Types need `Nested` (only the outermost list has no owner, and no list around
another is empty). The next two rest on `FInv`: while a run is going on, every stored output
and every report to the observer is a success. `RecordTruthful` speaks of the end
only, so `RInv` follows the run: `OnTree` says where the step lists stand in the
tree (the outermost is what is left of `Top`, a branch never holds a step of it),
`Told` that the observer has been told of the success of exactly the steps that are
done, `Stored` the same of the stored outputs when IDs are unique, and `Recorded`
that the record is made from them. That a branch cannot overwrite the output of a
step of the pipeline is where unique IDs are needed.

**Lint_proofs.** `ReferencesFound`, `HangingIsBounded`, for any tree of steps.
`Listed` says that each frame of a run is the end of a list of the tree and that
what has been passed in that list has an output. The heads of the frames are the
ancestors of the step at hand, so that every step before it (`Earlier`) has been
passed in one of these lists; a reference that validation accepts and that points
backwards is to one of them. `HangingIsBounded` needs that accepted pipelines have
unique IDs and that lint then passes over no head of a frame (`HeadsLinted`): the
first one that it did would have to stand in the branches of an earlier one. The
theorem excepts a step whose own timeout is negative, which the code lets pass.

**Executors_proofs.** `TypeCorrect`, `SuccessTrusted`, `CleanReturn`,
`RecordsAreLines`, `AggregatesAreSound`. That a
command which counts as a success exited with 0 is seen only at the end, from an
error that one of three goroutines may have found before. `Presence` says who can
still be there by how far `Wait` is; `Errors` follows an error from where it
arises (a status, a signal, a pipe that is closed) through the watcher to
`cmd.Run`: `First` may replace it, but by another error. `RecordsAreLines` follows
the output: what was copied is the beginning of what was printed (`Copied`), and a
beginning has no more lines of a kind (`LinesGrow`), so that what each engine makes
of it (`RecordsOfText`) is bounded by what was printed.
`AggregatesAreSound` is about values of any depth. `Leaves` is a recursive function
over them, and that there is such a function has to be proved first: solutions for
sets that are closed under elements agree where they meet, and a value without a
solution, minimal by `DataAssumption`, would get one from those of its elements.
The rest is about rounding: no float lies between a number and the float nearest to
it (`NearestKeeps`), and a float is its own (`NearestSelf`). So adding a number of
one sign never takes a sum back beyond what it was, nor below that number
(`AddNumber`); by `Upward`, a sum of numbers on one side of zero stays there, at
least as far out as each of them, and is never NaN (`FiniteSum`). Dividing by
how many there are keeps the side (`DivideNumber`).

**LiveReload_proofs.** `TypeCorrect`, `ChangesReachThePage`. The strengthening
`Noticed` is `OutdatedIsNotified` for pages in any state, also one that is still
being rendered; it needs the types' account of who is a client of the hub.

**Views_proofs.** `TypeCorrect`, `OneCommand`, `ViewsMatchBanner`, `ReadsRegular`,
`ResultIsFresh`, `PointsInOrder`. A list belongs under the
banner because `LoadOK` holds while it is read (the selection and the banner name
the pipeline that is read, and no key is heard), and a result because
`CommandOK` ties the command's reading to its pipeline; `HistoryOK` and `ReadsOK`
say that what is in a pipeline's directory, and what was read there, is of that
pipeline, although it is written and deleted meanwhile. Types need `RunsApart`: a
run gets a file only if it has none, and the TUI's own is written by nobody else.
`ReadsRegular` rests on `PagesOK`, which says at every step of a reading what will
be true of its result: names are in order, those read are of complete files, and
what was there from the beginning and is in neither part was left out for the limit
(by `Sorted`, when the directory was listed). `ResultIsFresh` follows the reading
of the TUI's command from there (`OwnRunRead`): it is of one name, that of its own
run or a later one.

Only model-checked: liveness (`KeepsTrying`, `ShutdownCompletes`,
`RequestAnswered`, `EditTakesEffect`, `RunEnds`, `CancelReturns`, `ExitReturns`,
`RequestReturns`, `OutdatedReloads`, `ClientsLeave`, `WidgetSettles`), since the
proof system has no rules for fairness and ENABLED. Every other property of a
passing run is a theorem.

## 5. Where code and documentation disagree

Each is a run whose single property TLC finds violated.

1. `SchedulerManual` - README.md:120, "0 = manual only". The interval is looked
   at when the daemon starts; a pipeline edited to 0 afterwards goes on being
   run at its old interval (`scheduler.go:93-107`).
2. `RunStoreRm` - README.md:104, "unregister (drops run history)". A run in
   flight, or the loop of a daemon that was not restarted, makes the directory
   again (`store.go:227`), and a later registration of that slug inherits it.
   What does hold is `HistoryHasOwner`.
3. `RunStoreTorn` - `store.go:239`, "the most recent run records (newest first), up
   to limit". The limit is applied to file names (`store.go:257`), and files without
   a complete record are passed over afterwards: with a limit of 1 and a run that is
   just being written, or whose writer has died, the page is empty although there is
   a record, and `LastRun` says that there is none. What does hold is `PageSound`: a
   record is left out only for as many files, complete or not, with later names as
   the limit allows.
4. `RunStoreOrder` - `store.go:239` and `256`, "newest first", "lexicographic =
   chronological". Two runs of one second are ordered by their random IDs. What
   does hold is `PageSound`.
5. `LintOver` - README.md:78, `over: ["${steps.df.output.records}"]`. `validate`
   compares the elements of `over` with the step IDs as they stand
   (`lint.go:200`) and rejects the documented form.

Without a run of their own: `scheduler.go:16-17` says overlapping runs are
"skipped (TryLock) rather than queued", but a tick that fires while a loop runs
its own pipeline waits in the ticker's channel (`scheduler.go:93`).
doc.md:209 gives `step.timeout` a default of 30 s, which there is not
(`engine.go:63`); a negative timeout is accepted by the loader, not warned of by
lint, which asks for zero (`lint.go:125`), and no deadline - what does hold is
`RunEnds` and `LintedBounded`. llms.txt:191 says that validated references "point
to steps that exist before them", but `validate` accepts a reference to any step of
the pipeline, earlier or later (`lint.go:251`) - what does hold is
`ValidatedRefsFound`: if references do point backwards, none is ever to a step that
has not run.

## 6. What is not modelled

* Formatting, printing, HTML, templates, flags, prompts, the TUI's status line.
* `store.Run` (one run by its ID), which is a read of one file without order or
  limit; a directory that exists and cannot be read.
* The decoding of YAML, the expression language, TextFSM: libraries and
  conversions; a JSON document is one line of output, which of two equally near
  floats a sum is rounded to is left open. `Slugify` is a text conversion; what colliding slugs do is in
  `RunStore`, where `Add` replaces whatever is there.
* Of `lint`: `checkParse`, files on disk, the style of IDs and intervals, outputs
  that are never referenced. Of the HTTP collector: `Extract`.
* Sandbox data and the statistics of `SeriesData` (`Max`, `Avg`, ...);
  `viz build`, `viz validate`, `viz init`.
* Directories made after a dashboard server has started, which its watcher does
  not see; heartbeats of the SSE connection.
* Failures of the disk (a full or read-only file system): a deletion fails only
  because a directory is not empty in the end.
* `doc.md` describes exports and versioning that the code does not have.

## 7. Plan

The modules of the plan are written: `ExclusiveRuns`, `Scheduler`, `RunLog`,
`Ordering`, `RunStore`, `Engine`, `Lint`, `Values`, `Executors`, `LiveReload`,
`Views`, their runs and proofs. What could come next, in the order of importance:

1. A composition of `Scheduler` and `RunStore` through `runner.Execute`, for what
   crosses both: loops whose registration is gone, runs cut off by exit.
2. `RunLog` in place of the three actions that stand in `Views` for the writers of
   the history, so that readers and writers share one specification.
3. `Executors` as a refinement of `Engine!LeafReturns`, with the results that a
   cancelled leaf can have tied to its kind.
