------------------------------ MODULE Scheduler ------------------------------
(***************************************************************************)
(* The daemon of `shelby serve`: one goroutine per registered pipeline     *)
(* (Scheduler.loop), the HTTP handlers that trigger a run by hand          *)
(* (handleAPIPipeline -> RunOnce), and the main goroutine that starts both *)
(* and shuts them down (cmdServe).  Other processes edit the YAML files    *)
(* and the registrations while the daemon runs.                            *)
(*                                                                         *)
(* A loop goroutine is named after its slug; a handler goroutine is a      *)
(* member of Handlers and works on the slug of its request.  Both go       *)
(* through lockFor, TryLock, runner.Execute and Unlock.  A run is the      *)
(* interval between TryLock and Unlock: what happens inside it is module   *)
(* Engine, and the history it writes is module RunStore.                   *)
(***************************************************************************)
CONSTANTS
    Slugs,      \* pipeline slugs
    Handlers,   \* goroutines serving POST /api/pipelines/<slug>/run
    Files,      \* paths of YAML files
    Pipelines,  \* contents of a YAML file that config.Load accepts
    Periodic,   \* the pipelines with interval > 0
    Hanging,    \* the pipelines with a step that ends only when cancelled
    NoPipeline, \* what config.Load returns with an error
    NoFile,     \* no registration
    NoMutex,    \* nil *sync.Mutex
    Nobody      \* no goroutine, no slug

ASSUME SchedulerAssumption ==
    /\ Slugs \cap Handlers = {}
    /\ Nobody \notin Slugs \cup Handlers
    /\ NoPipeline \notin Pipelines
    /\ Periodic \subseteq Pipelines
    /\ Hanging \subseteq Pipelines
    /\ NoFile \notin Files
    /\ NoMutex \notin (Slugs \cup Handlers) \X Slugs

Procs == Slugs \cup Handlers

(* A mutex is named by the goroutine that allocated it and by its slug.    *)
Mutexes == Procs \X Slugs

VARIABLES
    main,     \* where cmdServe is
    reg,      \* reg[s]: Path of the registration of s, NoFile if there is none
    yaml,     \* yaml[f]: what config.Load(f) returns now
    pc,       \* pc[p]: where goroutine p is
    target,   \* target[p]: the slug p works on
    path,     \* path[p]: reg.Path as p read it
    pipe,     \* pipe[p]: the pipeline p loaded last
    mu,       \* the goroutine that holds Scheduler.mu
    locks,    \* Scheduler.locks
    mutex,    \* mutex[p]: p's local variable m, then lock
    held,     \* the locked mutexes
    ticker,   \* ticker[s]: the time.Ticker of loop s and its channel of one
    expired   \* the handlers whose request context is done

file == <<reg, yaml>>
vars == <<main, file, pc, target, path, pipe, mu, locks, mutex, held, ticker, expired>>

LoopStates == {"none", "load", "lockFor", "inLockFor", "tryLock", "run", "select", "reload", "done"}
HandlerStates == {"idle", "get", "load", "lockFor", "inLockFor", "tryLock", "run"}

(* A goroutine here has a pipeline: runner.Execute would dereference nil.  *)
Loaded == {"lockFor", "inLockFor", "tryLock", "run", "select", "reload"}

(* The variables hold what their Go counterparts can hold, and the pipeline *)
(* and the mutex a goroutine uses are not nil.                             *)
TypeOK ==
    /\ main \in {"starting", "serving", "draining", "waiting", "exited"}
    /\ reg \in [Slugs -> Files \cup {NoFile}]
    /\ yaml \in [Files -> Pipelines \cup {NoPipeline}]
    /\ pc \in [Procs -> LoopStates \cup HandlerStates]
    /\ \A s \in Slugs : pc[s] \in LoopStates /\ (main = "starting" => pc[s] = "none")
    /\ \A h \in Handlers : pc[h] \in HandlerStates
    /\ target \in [Procs -> Slugs \cup {Nobody}]
    /\ \A s \in Slugs : target[s] = s
    /\ \A h \in Handlers : pc[h] = "idle" <=> target[h] = Nobody
    /\ path \in [Procs -> Files \cup {NoFile}]
    /\ \A p \in Procs : pc[p] \in Loaded \cup {"load"} => path[p] # NoFile
    /\ pipe \in [Procs -> Pipelines \cup {NoPipeline}]
    /\ \A p \in Procs : pc[p] \in Loaded => pipe[p] # NoPipeline
    /\ mu \in Procs \cup {Nobody}
    /\ locks \in [Slugs -> Mutexes \cup {NoMutex}]
    /\ mutex \in [Procs -> Mutexes \cup {NoMutex}]
    /\ \A p \in Procs : pc[p] \in {"tryLock", "run"} => mutex[p] # NoMutex
    /\ held \in SUBSET Mutexes
    /\ ticker \in [Slugs -> {"off", "empty", "full"}]
    /\ expired \in SUBSET Handlers

Init ==
    /\ main = "starting"
    /\ reg \in [Slugs -> Files \cup {NoFile}]
    /\ yaml \in [Files -> Pipelines \cup {NoPipeline}]
    /\ pc = [p \in Procs |-> IF p \in Slugs THEN "none" ELSE "idle"]
    /\ target = [p \in Procs |-> IF p \in Slugs THEN p ELSE Nobody]
    /\ path = [p \in Procs |-> NoFile]
    /\ pipe = [p \in Procs |-> NoPipeline]
    /\ mu = Nobody
    /\ locks = [s \in Slugs |-> NoMutex]
    /\ mutex = [p \in Procs |-> NoMutex]
    /\ held = {}
    /\ ticker = [s \in Slugs |-> "off"]
    /\ expired = {}

(* Variant: the loops get a context nobody cancels.                        *)
LoopsUncancelled(p) == p \in expired

(* The context that Start hands to the loops is cancelled by cmdServe just *)
(* before it waits; a handler's is done after five minutes or when the     *)
(* client hangs up.                                                        *)
CtxDone(p) == IF p \in Slugs THEN main \in {"waiting", "exited"} ELSE p \in expired

(* A goroutine takes a step only while the process exists.                 *)
Goto(p, from, to) ==
    /\ main # "exited"
    /\ pc[p] = from
    /\ pc' = [pc EXCEPT ![p] = to]

------------------------------------------------------------------------------
(* Other processes: the user's editor, and `shelby add|update|rm`.         *)

EditYaml(f, p) ==
    /\ main # "exited"
    /\ yaml' = [yaml EXCEPT ![f] = p]
    /\ UNCHANGED <<main, reg, pc, target, path, pipe, mu, locks, mutex, held, ticker, expired>>

EditRegistration(s, f) ==
    /\ main # "exited"
    /\ reg' = [reg EXCEPT ![s] = f]
    /\ UNCHANGED <<main, yaml, pc, target, path, pipe, mu, locks, mutex, held, ticker, expired>>

------------------------------------------------------------------------------
(* The main goroutine, cmdServe.                                           *)

(* Start lists the store once; a slug registered later gets no loop.       *)
Start ==
    /\ main = "starting"
    /\ main' = "serving"
    /\ pc' = [p \in Procs |-> IF p \in Slugs /\ reg[p] # NoFile THEN "load" ELSE pc[p]]
    /\ path' = [p \in Procs |-> IF p \in Slugs THEN reg[p] ELSE path[p]]
    /\ UNCHANGED <<file, target, pipe, mu, locks, mutex, held, ticker, expired>>

(* SIGINT or SIGTERM: hs.Shutdown closes the listener.                     *)
Signal ==
    /\ main = "serving"
    /\ main' = "draining"
    /\ UNCHANGED <<file, pc, target, path, pipe, mu, locks, mutex, held, ticker, expired>>

(* Shutdown returns when no handler is active or after five seconds, so a  *)
(* handler may outlive it; cancel() follows at once.                       *)
Cancel ==
    /\ main = "draining"
    /\ main' = "waiting"
    /\ UNCHANGED <<file, pc, target, path, pipe, mu, locks, mutex, held, ticker, expired>>

(* Scheduler.Wait waits for the loops; the handlers are not in wg and end  *)
(* with the process.                                                       *)
Exit ==
    /\ main = "waiting"
    /\ \A s \in Slugs : pc[s] \in {"none", "done"}
    /\ main' = "exited"
    /\ UNCHANGED <<file, pc, target, path, pipe, mu, locks, mutex, held, ticker, expired>>

Main == Start \/ Signal \/ Cancel \/ Exit

------------------------------------------------------------------------------
(* lockFor, TryLock, Execute, Unlock: shared by loops and handlers.        *)

(* After tickOnce a loop is at its select, where NewTicker has been called *)
(* the first time; after RunOnce a handler replies and is gone.            *)
Leave(p, from) ==
    IF p \in Slugs
    THEN /\ Goto(p, from, "select")
         /\ ticker' = IF ticker[p] = "off" THEN [ticker EXCEPT ![p] = "empty"] ELSE ticker
         /\ mutex' = [mutex EXCEPT ![p] = NoMutex]
         /\ UNCHANGED <<target, path, pipe, expired>>
    ELSE /\ Goto(p, from, "idle")
         /\ target' = [target EXCEPT ![p] = Nobody]
         /\ path' = [path EXCEPT ![p] = NoFile]
         /\ pipe' = [pipe EXCEPT ![p] = NoPipeline]
         /\ mutex' = [mutex EXCEPT ![p] = NoMutex]
         /\ expired' = expired \ {p}
         /\ UNCHANGED ticker

(* Variant: lockFor does not take s.mu.                                    *)
LookupUnguarded(p) ==
    /\ Goto(p, "lockFor", "inLockFor")
    /\ mutex' = [mutex EXCEPT ![p] = locks[target[p]]]
    /\ UNCHANGED <<main, file, target, path, pipe, mu, locks, held, ticker, expired>>

(* lockFor: s.mu.Lock() and the lookup m, ok := s.locks[slug].             *)
EnterLockFor(p) ==
    /\ Goto(p, "lockFor", "inLockFor")
    /\ mu = Nobody
    /\ mu' = p
    /\ mutex' = [mutex EXCEPT ![p] = locks[target[p]]]
    /\ UNCHANGED <<main, file, target, path, pipe, locks, held, ticker, expired>>

(* Variant: the new mutex is returned and not stored.                      *)
ExitWithoutStore(p) ==
    /\ Goto(p, "inLockFor", "tryLock")
    /\ mu' = Nobody
    /\ mutex' = IF mutex[p] = NoMutex THEN [mutex EXCEPT ![p] = <<p, target[p]>>] ELSE mutex
    /\ UNCHANGED <<main, file, target, path, pipe, locks, held, ticker, expired>>

(* lockFor: a missing mutex is allocated and stored, then s.mu.Unlock().   *)
ExitLockFor(p) ==
    /\ Goto(p, "inLockFor", "tryLock")
    /\ mu' = Nobody
    /\ IF mutex[p] = NoMutex
       THEN /\ mutex' = [mutex EXCEPT ![p] = <<p, target[p]>>]
            /\ locks' = [locks EXCEPT ![target[p]] = <<p, target[p]>>]
       ELSE UNCHANGED <<mutex, locks>>
    /\ UNCHANGED <<main, file, target, path, pipe, held, ticker, expired>>

(* Variant: the result of TryLock is ignored.                              *)
TryLockIgnored(p) ==
    /\ Goto(p, "tryLock", "run")
    /\ held' = held \cup {mutex[p]}
    /\ UNCHANGED <<main, file, target, path, pipe, mu, locks, mutex, ticker, expired>>

TryLock(p) ==
    /\ Goto(p, "tryLock", "run")
    /\ mutex[p] \notin held
    /\ held' = held \cup {mutex[p]}
    /\ UNCHANGED <<main, file, target, path, pipe, mu, locks, mutex, ticker, expired>>

(* Variant: Lock instead of TryLock, which waits for the run in progress.  *)
WaitForRun(p) == mutex[p] \notin held /\ Goto(p, "tryLock", "tryLock") /\ UNCHANGED vars

(* TryLock fails: the tick, or the request, is skipped.                    *)
Skip(p) ==
    /\ mutex[p] \in held
    /\ Leave(p, "tryLock")
    /\ UNCHANGED <<main, file, mu, locks, held>>

(* Variant: a run that ends by cancellation leaves the mutex locked.       *)
FinishWithoutUnlock(p) ==
    /\ pipe[p] \in Hanging => CtxDone(p)
    /\ Leave(p, "run")
    /\ held' = IF CtxDone(p) THEN held ELSE held \ {mutex[p]}
    /\ UNCHANGED <<main, file, mu, locks>>

(* runner.Execute returns and the deferred Unlock runs.  A hanging         *)
(* pipeline returns only once its context is done.                         *)
FinishRun(p) ==
    /\ pipe[p] \in Hanging => CtxDone(p)
    /\ Leave(p, "run")
    /\ held' = held \ {mutex[p]}
    /\ UNCHANGED <<main, file, mu, locks>>

Run(p) == EnterLockFor(p) \/ ExitLockFor(p) \/ TryLock(p) \/ Skip(p) \/ FinishRun(p)

------------------------------------------------------------------------------
(* Scheduler.loop.                                                         *)

(* The first config.Load: the goroutine ends if it fails or if the         *)
(* interval is zero.                                                       *)
Load(s) ==
    /\ Goto(s, "load", IF yaml[path[s]] \in Periodic THEN "lockFor" ELSE "done")
    /\ pipe' = [pipe EXCEPT ![s] = yaml[path[s]]]
    /\ UNCHANGED <<main, file, target, path, mu, locks, mutex, held, ticker, expired>>

(* The ticker fires whatever the loop is doing; a tick that finds the      *)
(* channel full is dropped.                                                *)
Fire(s) ==
    /\ main # "exited"
    /\ ticker[s] = "empty"
    /\ ticker' = [ticker EXCEPT ![s] = "full"]
    /\ UNCHANGED <<main, file, pc, target, path, pipe, mu, locks, mutex, held, expired>>

(* select, case <-t.C.                                                     *)
ReceiveTick(s) ==
    /\ Goto(s, "select", "reload")
    /\ ticker[s] = "full"
    /\ ticker' = [ticker EXCEPT ![s] = "empty"]
    /\ UNCHANGED <<main, file, target, path, pipe, mu, locks, mutex, held, expired>>

(* Variants of Reload: a read error replaces the pipeline, ends the loop;  *)
(* a successful read is dropped.                                           *)
ReloadUnchecked(s) ==
    /\ Goto(s, "reload", "lockFor")
    /\ pipe' = [pipe EXCEPT ![s] = yaml[path[s]]]
    /\ UNCHANGED <<main, file, target, path, mu, locks, mutex, held, ticker, expired>>

ReloadOrReturn(s) ==
    /\ Goto(s, "reload", IF yaml[path[s]] = NoPipeline THEN "done" ELSE "lockFor")
    /\ pipe' = [pipe EXCEPT ![s] = yaml[path[s]]]
    /\ UNCHANGED <<main, file, target, path, mu, locks, mutex, held, ticker, expired>>

ReloadCached(s) ==
    /\ Goto(s, "reload", "lockFor")
    /\ UNCHANGED <<main, file, target, path, pipe, mu, locks, mutex, held, ticker, expired>>

(* The YAML is read again; on an error the loop keeps the cached pipeline. *)
Reload(s) ==
    /\ Goto(s, "reload", "lockFor")
    /\ pipe' = IF yaml[path[s]] = NoPipeline THEN pipe ELSE [pipe EXCEPT ![s] = yaml[path[s]]]
    /\ UNCHANGED <<main, file, target, path, mu, locks, mutex, held, ticker, expired>>

(* select, case <-ctx.Done(): the deferred t.Stop() and wg.Done() run.     *)
Stop(s) ==
    /\ Goto(s, "select", "done")
    /\ CtxDone(s)
    /\ ticker' = [ticker EXCEPT ![s] = "off"]
    /\ UNCHANGED <<main, file, target, path, pipe, mu, locks, mutex, held, expired>>

Loop(s) == Load(s) \/ Fire(s) \/ ReceiveTick(s) \/ Reload(s) \/ Stop(s)

------------------------------------------------------------------------------
(* handleAPIPipeline and Scheduler.RunOnce.                                *)

(* The listener accepts requests until Shutdown closes it.                 *)
Accept(h, s) ==
    /\ main = "serving"
    /\ Goto(h, "idle", "get")
    /\ target' = [target EXCEPT ![h] = s]
    /\ UNCHANGED <<main, file, path, pipe, mu, locks, mutex, held, ticker, expired>>

(* Store.Get: an unregistered slug is answered with an error.              *)
Get(h) ==
    \/ /\ Goto(h, "get", "load")
       /\ reg[target[h]] # NoFile
       /\ path' = [path EXCEPT ![h] = reg[target[h]]]
       /\ UNCHANGED <<main, file, target, pipe, mu, locks, mutex, held, ticker, expired>>
    \/ /\ Leave(h, "get")
       /\ reg[target[h]] = NoFile
       /\ UNCHANGED <<main, file, mu, locks, held>>

(* config.Load: RunOnce ignores the interval.                              *)
LoadOnce(h) ==
    \/ /\ Goto(h, "load", "lockFor")
       /\ yaml[path[h]] # NoPipeline
       /\ pipe' = [pipe EXCEPT ![h] = yaml[path[h]]]
       /\ UNCHANGED <<main, file, target, path, mu, locks, mutex, held, ticker, expired>>
    \/ /\ Leave(h, "load")
       /\ yaml[path[h]] = NoPipeline
       /\ UNCHANGED <<main, file, mu, locks, held>>

(* The client disconnects, or context.WithTimeout reaches five minutes.    *)
Expire(h) ==
    /\ main # "exited"
    /\ pc[h] # "idle"
    /\ h \notin expired
    /\ expired' = expired \cup {h}
    /\ UNCHANGED <<main, file, pc, target, path, pipe, mu, locks, mutex, held, ticker>>

Handle(h) == (\E s \in Slugs : Accept(h, s)) \/ Get(h) \/ LoadOnce(h) \/ Expire(h)

------------------------------------------------------------------------------
(* The process is gone.                                                    *)
Terminated == main = "exited" /\ UNCHANGED vars

Next ==
    \/ \E f \in Files, p \in Pipelines \cup {NoPipeline} : EditYaml(f, p)
    \/ \E s \in Slugs, f \in Files \cup {NoFile} : EditRegistration(s, f)
    \/ Main
    \/ \E p \in Procs : Run(p)
    \/ \E s \in Slugs : Loop(s)
    \/ \E h \in Handlers : Handle(h)
    \/ Terminated

Spec == Init /\ [][Next]_vars

(* Every goroutine that can run is eventually run, tickers fire and        *)
(* requests time out.  A sync.Mutex does not starve a waiter (its          *)
(* starvation mode): strong fairness of EnterLockFor.  select picks among  *)
(* the ready cases at random, so a loop that keeps finding ctx.Done()      *)
(* ready takes it: strong fairness of Stop.  Nobody is obliged to edit, to *)
(* send a request or to send SIGTERM.                                      *)
Fairness ==
    /\ WF_vars(Start) /\ WF_vars(Cancel) /\ WF_vars(Exit)
    /\ \A p \in Procs : WF_vars(Run(p)) /\ SF_vars(EnterLockFor(p))
    /\ \A s \in Slugs : WF_vars(Load(s) \/ ReceiveTick(s) \/ Reload(s)) /\ WF_vars(Fire(s)) /\ SF_vars(Stop(s))
    /\ \A h \in Handlers : WF_vars(Get(h) \/ LoadOnce(h)) /\ WF_vars(Expire(h))

FairSpec == Spec /\ Fairness
------------------------------------------------------------------------------
(* Properties.                                                             *)

Running(s) == {p \in Procs : pc[p] = "run" /\ target[p] = s}

(* Inside the daemon a pipeline never has two runs at a time, whoever      *)
(* triggered them: "Overlapping runs are skipped" (tickOnce, RunOnce).     *)
NoOverlap == \A s \in Slugs : \A p, q \in Running(s) : p = q

(* lockFor hands every goroutine the same mutex for a slug, also when      *)
(* several ask for a slug nobody has asked for before: what it looked up   *)
(* is still what the map holds when it uses it, and two slugs never share. *)
LockDiscipline ==
    /\ \A p \in Procs : pc[p] = "inLockFor" <=> mu = p
    /\ \A p \in Procs :
          /\ pc[p] = "inLockFor" => mutex[p] = locks[target[p]]
          /\ pc[p] \in {"tryLock", "run"} => mutex[p] = locks[target[p]]
    /\ \A s \in Slugs : locks[s] # NoMutex => locks[s][2] = s

(* A mutex is locked exactly while a run goes on: neither a failed run nor *)
(* a skipped tick, an expired request or a shutdown leaks one, which would *)
(* silence the pipeline for good.                                          *)
LockedIffRunning == held = {mutex[p] : p \in {q \in Procs : pc[q] = "run"}}

(* The scheduler implements ExclusiveRuns.                                 *)
Runner == [s \in Slugs |-> IF Running(s) = {} THEN Nobody ELSE CHOOSE p \in Running(s) : TRUE]

Abstract == INSTANCE ExclusiveRuns WITH runner <- Runner

ImplementsExclusiveRuns == Abstract!Spec

(* A registered file that becomes unreadable, or whose interval is edited, *)
(* does not end its loop: once scheduled, a pipeline is tried at every     *)
(* tick until the daemon is told to stop, unless its own run hangs.        *)
KeepsTrying ==
    \A s \in Slugs :
        pc[s] = "select" ~> (pc[s] = "tryLock" \/ main \in {"waiting", "exited"})

(* cmdServe always gets out of Shutdown, cancel and Wait, even when runs   *)
(* that never end by themselves hold their locks and ticks are pending.    *)
ShutdownCompletes == main = "draining" ~> main = "exited"

(* A request to run a pipeline is always answered: it does not wait for a  *)
(* run in progress, and its own run ends with its context.                 *)
RequestAnswered ==
    \A h \in Handlers : pc[h] # "idle" ~> (pc[h] = "idle" \/ main = "exited")

(* "reload YAML so edits to the registered file take effect" (loop): a     *)
(* file that stays as it is becomes what a live loop runs, unless a        *)
(* hanging run keeps the loop from its select.                             *)
EditTakesEffect ==
    \A s \in Slugs, p \in Pipelines :
        <>[](/\ pc[s] \notin {"none", "load", "done"}
             /\ yaml[path[s]] = p
             /\ pipe[s] \notin Hanging)
        => <>[](pipe[s] = p)

(* Contradicted by the code, see README: "interval: [...] 0 = manual       *)
(* only".  The loop reloads the file but neither its ticker nor its        *)
(* decision to schedule, so a pipeline edited to manual-only goes on.      *)
ManualOnlyNotScheduled ==
    [][\A s \in Slugs : pc[s] = "tryLock" /\ pc'[s] = "run" => pipe[s] \in Periodic]_vars
==============================================================================
