----------------------------- MODULE Executors -----------------------------
(***************************************************************************)
(* One call of Execute of a step that is not a conditional.                *)
(*                                                                         *)
(* The shell and the script executor run a process with exec.CommandContext *)
(* (os/exec of Go 1.26, external): its context, the goroutine that watches *)
(* the context, the goroutine that copies the output and Wait are each an  *)
(* actor, and so are the process and a descendant of it that keeps the     *)
(* pipes open.  What a process prints is a sequence of lines, see Values.  *)
(***************************************************************************)
EXTENDS Values

CONSTANTS
    Steps,     \* the configurations of a step, see StepShape
    MaxLines   \* bound: lines that a process prints

Kinds == {"shell", "script", "aggregator", "http_get", "sys_stat"}

(* parse: the parse section of a shell step, <<>> if there is none; over,  *)
(* field and op: what an aggregator step reduces; source: is the source of *)
(* a sys_stat step one of those it knows.                                  *)
ASSUME StepShape ==
    /\ MaxLines \in Nat
    /\ \A s \in Steps :
        /\ s.kind \in Kinds
        /\ s.kind = "shell" /\ s.parse # <<>> =>
             /\ s.parse[1].skip \in Nat /\ s.parse[1].most \in Nat /\ s.parse[1].root \in Data
             /\ s.parse[1].path \in Seq({"key"} \X Fields \cup {"index"} \X Int)
        /\ s.kind = "aggregator" => s.over \in Seq(Data)

VARIABLES
    step,     \* the step
    pc,       \* of Execute: "call", "wait", "watch", "drain", "judge" of a command,
              \* "do" of a request, "returned"
    ctxDone,  \* the context is done: deadline or cancellation
    child,    \* the process: "none", "alive", "zombie", "reaped"
    exit,     \* how it ended: "none", "zero", "nonzero", "signal"
    holder,   \* a descendant has the pipes open
    sent,     \* the signals that it has been sent
    watcher,  \* goroutine of watchCtx: "off", "watching", "grace", "report", "gone"
    watchErr, \* the error that the watcher has to report
    timer,    \* WaitDelay: "off", "running", "expired"
    written,  \* the lines printed into the pipe
    stdout,   \* those copied
    pipes,    \* "open", or "cut" when our ends are closed early
    runErr,   \* the error of cmd.Run
    verdict,  \* of Execute: "none", "ok", "failed"
    value     \* of the output: records, aggregate or body; <<>> if it has none

cmdVars == <<child, exit, holder, sent, watcher, watchErr, timer, written, stdout, pipes, runErr>>
vars == <<step, pc, ctxDone, cmdVars, verdict, value>>

Lines == {"row", "junk", "space", "empty", "block"}
RunErrors == {"nil", "exit", "ctx", "delay", "start"}

TypeOK ==
    /\ step \in Steps
    /\ pc \in {"call", "wait", "watch", "drain", "judge", "do", "returned"}
    /\ ctxDone \in BOOLEAN /\ holder \in BOOLEAN
    /\ child \in {"none", "alive", "zombie", "reaped"}
    /\ exit \in {"none", "zero", "nonzero", "signal"}
    /\ sent \subseteq {"term", "kill"}
    /\ watcher \in {"off", "watching", "grace", "report", "gone"}
    /\ watchErr \in {"nil", "ctx", "delay"} /\ runErr \in RunErrors
    /\ timer \in {"off", "running", "expired"}
    /\ written \in Seq(Lines) /\ stdout \in Seq(Lines)
    /\ pipes \in {"open", "cut"}
    /\ verdict \in {"none", "ok", "failed"}
    /\ verdict = "none" <=> pc # "returned"
    /\ child = "none" <=> watcher = "off"
    /\ exit = "none" <=> child \in {"none", "alive"}
    /\ pc = "wait" => child \in {"alive", "zombie"}
    /\ pc \in {"watch", "drain"} => child = "reaped"
    /\ pc = "drain" => watcher = "gone"

Init ==
    /\ step \in Steps
    /\ pc = "call" /\ ctxDone = FALSE
    /\ child = "none" /\ exit = "none" /\ holder = FALSE /\ sent = {}
    /\ watcher = "off" /\ watchErr = "nil" /\ timer = "off"
    /\ written = <<>> /\ stdout = <<>> /\ pipes = "open"
    /\ runErr = "nil" /\ verdict = "none" /\ value = <<>>

Return(v, x) == pc' = "returned" /\ verdict' = v /\ value' = x

(* The first error is the one that is reported.                            *)
First(err, other) == IF err = "nil" THEN other ELSE err

IsCommand == step.kind \in {"shell", "script"}

------------------------------------------------------------------------------
(* The environment.                                                        *)

(* The deadline of the step or its run passes, or the run is cancelled.    *)
CtxDone ==
    /\ ~ctxDone /\ pc # "returned"
    /\ ctxDone' = TRUE
    /\ UNCHANGED <<step, pc, cmdVars, verdict, value>>

(* The process, or a descendant, prints a line.                            *)
PrintLine ==
    /\ child = "alive" \/ holder
    /\ pipes = "open" /\ pc # "returned" /\ Len(written) < MaxLines
    /\ \E line \in Lines : written' = Append(written, line)
    /\ UNCHANGED <<step, pc, ctxDone, child, exit, holder, sent, watcher, watchErr, timer, stdout, pipes, runErr, verdict, value>>

(* A descendant inherits the pipes, and closes them by ending.             *)
Fork ==
    /\ child = "alive" /\ ~holder
    /\ holder' = TRUE
    /\ UNCHANGED <<step, pc, ctxDone, child, exit, sent, watcher, watchErr, timer, written, stdout, pipes, runErr, verdict, value>>

Release ==
    /\ holder
    /\ holder' = FALSE
    /\ UNCHANGED <<step, pc, ctxDone, child, exit, sent, watcher, watchErr, timer, written, stdout, pipes, runErr, verdict, value>>

(* The process ends by itself, on SIGTERM or not.                          *)
ExitChild ==
    /\ child = "alive"
    /\ child' = "zombie"
    /\ exit' \in {"zero", "nonzero", "signal"}
    /\ UNCHANGED <<step, pc, ctxDone, holder, sent, watcher, watchErr, timer, written, stdout, pipes, runErr, verdict, value>>

(* It cannot do anything about SIGKILL.                                    *)
Killed ==
    /\ child = "alive" /\ "kill" \in sent
    /\ child' = "zombie"
    /\ exit' = "signal"
    /\ UNCHANGED <<step, pc, ctxDone, holder, sent, watcher, watchErr, timer, written, stdout, pipes, runErr, verdict, value>>

------------------------------------------------------------------------------
(* os/exec.                                                                *)

(* Variant: the context is watched before the process is there.            *)
WatchThenStart ==
    /\ pc = "call" /\ IsCommand
    /\ watcher' = "watching"
    /\ \/ runErr' = "start" /\ pc' = "judge" /\ UNCHANGED child
       \/ pc' = "wait" /\ child' = "alive" /\ UNCHANGED runErr
    /\ UNCHANGED <<step, ctxDone, exit, holder, sent, watchErr, timer, written, stdout, pipes, verdict, value>>

(* cmd.Start: it does not start with a context that is done, nor, which is *)
(* the same to the caller, from a step that has no command or file.        *)
Start ==
    /\ pc = "call" /\ IsCommand
    /\ IF ctxDone
       THEN runErr' = "ctx" /\ pc' = "judge" /\ UNCHANGED <<child, watcher>>
       ELSE \/ runErr' = "start" /\ pc' = "judge" /\ UNCHANGED <<child, watcher>>
            \/ pc' = "wait" /\ child' = "alive" /\ watcher' = "watching" /\ UNCHANGED runErr
    /\ UNCHANGED <<step, ctxDone, exit, holder, sent, watchErr, timer, written, stdout, pipes, verdict, value>>

(* Variant: without WaitDelay, SIGTERM is all there is.                    *)
InterruptOnly ==
    /\ watcher = "watching" /\ ctxDone
    /\ IF child = "reaped" THEN UNCHANGED <<sent, watchErr>>
       ELSE sent' = sent \cup {"term"} /\ watchErr' = "ctx"
    /\ watcher' = "report"
    /\ UNCHANGED <<step, pc, ctxDone, child, exit, holder, timer, written, stdout, pipes, runErr, verdict, value>>

(* cmd.Cancel, in the goroutine of watchCtx: Signal fails only if the      *)
(* process has been reaped.                                                *)
Interrupt ==
    /\ watcher = "watching" /\ ctxDone
    /\ IF child = "reaped" THEN UNCHANGED <<sent, watchErr>>
       ELSE sent' = sent \cup {"term"} /\ watchErr' = "ctx"
    /\ watcher' = "grace"
    /\ timer' = "running"
    /\ UNCHANGED <<step, pc, ctxDone, child, exit, holder, written, stdout, pipes, runErr, verdict, value>>

TimerExpires ==
    /\ timer = "running"
    /\ timer' = "expired"
    /\ UNCHANGED <<step, pc, ctxDone, child, exit, holder, sent, watcher, watchErr, written, stdout, pipes, runErr, verdict, value>>

(* All that has been printed is copied and nobody can print any more.      *)
Eof == stdout = written /\ child # "alive" /\ ~holder

(* WaitDelay is over: SIGKILL, and the pipes are closed unless their       *)
(* copying is done.                                                        *)
Kill ==
    /\ watcher = "grace" /\ timer = "expired"
    /\ sent' = IF child = "reaped" THEN sent ELSE sent \cup {"kill"}
    /\ IF Eof \/ pipes = "cut" THEN UNCHANGED <<pipes, watchErr>>
       ELSE pipes' = "cut" /\ watchErr' = First(watchErr, "delay")
    /\ watcher' = "report"
    /\ timer' = "off"
    /\ UNCHANGED <<step, pc, ctxDone, child, exit, holder, written, stdout, runErr, verdict, value>>

Copy ==
    /\ pipes = "open" /\ stdout # written
    /\ stdout' = written
    /\ UNCHANGED <<step, pc, ctxDone, child, exit, holder, sent, watcher, watchErr, timer, written, pipes, runErr, verdict, value>>

(* Process.Wait in cmd.Wait.                                               *)
Reap ==
    /\ pc = "wait" /\ child = "zombie"
    /\ child' = "reaped"
    /\ runErr' = IF exit = "zero" THEN "nil" ELSE "exit"
    /\ pc' = "watch"
    /\ UNCHANGED <<step, ctxDone, exit, holder, sent, watcher, watchErr, timer, written, stdout, pipes, verdict, value>>

(* Variant: the watcher is left alone.                                     *)
LeaveWatcher ==
    /\ pc = "watch" /\ watcher \in {"watching", "grace", "report"}
    /\ pc' = "drain"
    /\ UNCHANGED <<step, ctxDone, cmdVars, verdict, value>>

(* The result of the watcher, which is always ready to give it or comes to *)
(* be: the exit status goes before its error.                              *)
HearWatcher ==
    /\ pc = "watch" /\ watcher \in {"watching", "grace", "report"}
    /\ runErr' = First(runErr, watchErr)
    /\ watcher' = "gone"
    /\ pc' = "drain"
    /\ UNCHANGED <<step, ctxDone, child, exit, holder, sent, watchErr, timer, written, stdout, pipes, verdict, value>>

(* Variant: without WaitDelay, the copying may take for ever.              *)
NoTimer == pc = "drain" /\ timer = "running" /\ UNCHANGED vars

(* awaitGoroutines: the copying ends, or WaitDelay does, counted from the  *)
(* cancellation if there was one and from now if not.                      *)
StartTimer ==
    /\ pc = "drain" /\ ~Eof /\ pipes = "open" /\ timer = "off"
    /\ timer' = "running"
    /\ UNCHANGED <<step, pc, ctxDone, child, exit, holder, sent, watcher, watchErr, written, stdout, pipes, runErr, verdict, value>>

Drained ==
    /\ pc = "drain" /\ (Eof \/ pipes = "cut")
    /\ pc' = "judge"
    /\ UNCHANGED <<step, ctxDone, cmdVars, verdict, value>>

GiveUp ==
    /\ pc = "drain" /\ pipes = "open" /\ ~Eof /\ timer = "expired"
    /\ pipes' = "cut"
    /\ runErr' = First(runErr, "delay")
    /\ pc' = "judge"
    /\ UNCHANGED <<step, ctxDone, child, exit, holder, sent, watcher, watchErr, timer, written, stdout, verdict, value>>

Command ==
    \/ Start \/ Reap \/ HearWatcher \/ StartTimer \/ Drained \/ GiveUp
    \/ Interrupt \/ Kill \/ Copy \/ TimerExpires

------------------------------------------------------------------------------
(* Shell.Execute after cmd.Run.                                            *)

(* exit_code: -1 without a process or after a signal.                      *)
ExitCode == CASE exit = "zero" -> 0 [] exit = "nonzero" -> 1 [] OTHER -> -1

(* Variant: the sign of the exit status is taken for the error.            *)
NoStatus == runErr # "nil" /\ ExitCode < 0 /\ stdout = <<>>

(* An error counts by itself only if nothing was printed.                  *)
RunFailed == runErr # "nil" /\ ExitCode <= 0 /\ stdout = <<>>

Shell ==
    /\ pc = "judge" /\ step.kind = "shell"
    /\ CASE RunFailed \/ ExitCode # 0 -> Return("failed", <<>>)
         [] ~RunFailed /\ ExitCode = 0 /\ step.parse = <<>> -> Return("ok", <<>>)
         [] OTHER -> \E n \in ParseOutput(stdout, step.parse[1]) :
                        IF n = Error THEN Return("failed", <<>>) ELSE Return("ok", <<n>>)
    /\ UNCHANGED <<step, ctxDone, cmdVars>>

(* Script.Execute after cmd.Run.                                           *)

(* extractPayload: the first marked block, which holds a response, or all  *)
(* of the output, which is one if it is a JSON document.                   *)
Payload ==
    CASE \E k \in DOMAIN stdout : stdout[k] = "block" -> "response"
      [] ~(\E k \in DOMAIN stdout : stdout[k] = "block") /\ IsJSON(stdout) -> "response"
      [] OTHER -> "invalid"

(* The response may say ok: false.                                         *)
Script ==
    /\ pc = "judge" /\ step.kind = "script"
    /\ IF runErr # "nil" \/ Payload = "invalid" THEN Return("failed", <<>>)
       ELSE \E v \in {"ok", "failed"} : Return(v, <<>>)
    /\ UNCHANGED <<step, ctxDone, cmdVars>>

------------------------------------------------------------------------------
(* The other executors.                                                    *)

Aggregator ==
    /\ pc = "call" /\ step.kind = "aggregator"
    /\ \E x \in {Aggregate(step.op, step.over, step.field)} :
          Return(IF x = <<>> THEN "failed" ELSE "ok", x)
    /\ UNCHANGED <<step, ctxDone, cmdVars>>

(* SysStat.Execute: a read of the system fails or gives data.              *)
SysStat ==
    /\ pc = "call" /\ step.kind = "sys_stat"
    /\ \E v \in {"ok", "failed"} : (v = "ok" => step.source) /\ Return(v, <<>>)
    /\ UNCHANGED <<step, ctxDone, cmdVars>>

(* HTTPGet.Execute: references and the URL are good, or it fails.          *)
NewRequest ==
    /\ pc = "call" /\ step.kind = "http_get"
    /\ \/ Return("failed", <<>>)
       \/ pc' = "do" /\ UNCHANGED <<verdict, value>>
    /\ UNCHANGED <<step, ctxDone, cmdVars>>

(* The answer is read: JSON, or text if it is not JSON or longer than      *)
(* httpMaxBody; a status of 400 and more fails the step.                   *)
Answer ==
    /\ pc = "do"
    /\ \E v \in {"ok", "failed"}, body \in {"json", "text"} : Return(v, <<body>>)
    /\ UNCHANGED <<step, ctxDone, cmdVars>>

(* Variant: a client without a timeout.                                    *)
RequestCancelled ==
    /\ pc = "do" /\ ctxDone
    /\ Return("failed", <<>>)
    /\ UNCHANGED <<step, ctxDone, cmdVars>>

(* client.Do or reading the body fails: connection, context, or the 30     *)
(* seconds of defaultHTTPClient.                                           *)
RequestFails ==
    /\ pc = "do"
    /\ Return("failed", <<>>)
    /\ UNCHANGED <<step, ctxDone, cmdVars>>

HTTPGet == NewRequest \/ Answer \/ RequestFails

------------------------------------------------------------------------------
Execute == Command \/ Shell \/ Script \/ Aggregator \/ SysStat \/ HTTPGet

Environment == CtxDone \/ PrintLine \/ Fork \/ Release \/ ExitChild \/ Killed

Returned == pc = "returned" /\ UNCHANGED vars

Next == Execute \/ Environment \/ Returned

Spec == Init /\ [][Next]_vars

(* Goroutines are scheduled, timers fire and SIGKILL kills; a server may   *)
(* never answer and a process may never end.                               *)
Fairness ==
    /\ WF_vars(Command \/ Shell \/ Script) /\ WF_vars(Killed)
    /\ WF_vars(NewRequest) /\ WF_vars(RequestFails)

FairSpec == Spec /\ Fairness

------------------------------------------------------------------------------
(* Properties.                                                             *)

(* What a command that counts as a success has printed is all there is,    *)
(* and it exited with status 0 without having been interrupted.  A shell   *)
(* step may count as a success after a cancellation or an output cut short *)
(* too (shell.go:62), but only if it exited with 0 and printed something.  *)
OkTrusted ==
    verdict = "ok" /\ IsCommand =>
        /\ exit = "zero"
        /\ \/ stdout = written /\ sent = {}
           \/ step.kind = "shell" /\ runErr # "nil" /\ stdout # <<>>

(* What the records of a shell step were made of.  The lines parser passes *)
(* over skip lines of those that are not blank and has no record of what   *)
(* was not printed, and of a run without an error none is missing; a       *)
(* pattern matches lines that are not empty; and no JSON is in a text of   *)
(* space.  The other parsers may make more records than there are lines.   *)
RecordsPrinted ==
    verdict = "ok" /\ step.kind = "shell" /\ value # <<>> =>
        LET p == step.parse[1]
            lines == Cardinality(Nonblank(written))
        IN  /\ p.engine = "lines" => /\ value[1] = 0 \/ value[1] + p.skip <= lines
                                     /\ runErr = "nil" => value[1] + p.skip >= lines
            /\ p.engine = "regex" => value[1] <= Cardinality(Nonempty(written))
            /\ p.engine = "json" => lines > 0

(* Execute leaves no process to be reaped, no goroutine and no pipe that   *)
(* is still copied from.                                                   *)
NothingLeftBehind ==
    pc = "returned" /\ IsCommand =>
        /\ child \in {"none", "reaped"} /\ watcher \in {"off", "gone"}
        /\ stdout = written \/ pipes = "cut"

(* What an aggregator with step s may make of finite numbers.              *)
Sound(s, v) ==
    LET nums == Numbers(Collect(s.over), s.field)
        finite == \A k \in DOMAIN nums : IsFinite(nums[k])
        positive == \A k \in DOMAIN nums : nums[k][2] >= 0
        negative == \A k \in DOMAIN nums : nums[k][2] <= 0
    IN  finite =>
          /\ s.op = "count" => v[2] >= Len(nums)
          /\ s.op \in {"min", "max"} => \E k \in DOMAIN nums : v = nums[k]
          /\ s.op = "min" => \A k \in DOMAIN nums : ~Less(nums[k], v)
          /\ s.op = "max" => \A k \in DOMAIN nums : ~Less(v, nums[k])
          /\ s.op \in {"sum", "avg"} => v # NaN /\ (Len(nums) = 1 => v = nums[1])
          /\ s.op = "sum" => /\ positive => \A k \in DOMAIN nums : ~Less(v, nums[k])
                             /\ negative => \A k \in DOMAIN nums : ~Less(nums[k], v)
          /\ s.op = "avg" => /\ positive => ~Less(v, Zero)
                             /\ negative => ~Less(Zero, v)

(* Whatever rounding and overflow do to finite numbers: minimum and        *)
(* maximum are among them and bound them; a sum or an average is a number  *)
(* or an infinity, the number itself if there is one, and on the side of   *)
(* zero where all of them are, a sum at least as far as each.  An average  *)
(* is not always between the least and the greatest.                       *)
AggregateSound == step.kind = "aggregator" /\ verdict = "ok" => Sound(step, value[1])

(* A command ends after its context is done, whatever it does about        *)
(* SIGTERM and whoever holds its pipes.                                    *)
CancelReturns == ctxDone /\ IsCommand ~> pc = "returned"

(* A command ends after its process has, whoever holds its pipes.          *)
ExitReturns == child = "zombie" ~> pc = "returned"

(* A request ends also in a step without a timeout.                        *)
RequestReturns == step.kind = "http_get" => <>(pc = "returned")
==============================================================================
