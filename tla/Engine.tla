------------------------------- MODULE Engine -------------------------------
(***************************************************************************)
(* One run of a pipeline: runner.Execute, Engine.Run and RunStep, the      *)
(* Conditional executor that runs a branch through RunStep, FinalOutput    *)
(* and BuildRunRecord.                                                     *)
(*                                                                         *)
(* A step is a node of a tree: Top lists the steps of the pipeline, Then   *)
(* and Else those of a conditional's branches.  The engine is sequential;  *)
(* what happens beside it are deadlines and the cancellation of the run.   *)
(* An output is reduced to its OK flag and to whether its data has the     *)
(* fields that references ask for.                                         *)
(***************************************************************************)
EXTENDS Naturals, Sequences

CONSTANTS
    Nodes,      \* the steps
    Conds,      \* the conditionals among them
    Top,        \* the steps of the pipeline
    Then, Else, \* Then[c], Else[c]: the branches of conditional c
    IDs,        \* step IDs
    Programs,   \* the pipelines with this tree, see Program
    NoStep,     \* no step is executing
    NotRun      \* no output under this ID

ASSUME EngineAssumption ==
    /\ Conds \subseteq Nodes
    /\ Top \in Seq(Nodes)
    /\ Then \in [Conds -> Seq(Nodes)]
    /\ Else \in [Conds -> Seq(Nodes)]
    /\ NoStep \notin Nodes
    /\ NotRun \notin [ok : BOOLEAN, data : BOOLEAN]

TopSteps == {Top[k] : k \in DOMAIN Top}

(* A node is one place in the file: no step is listed twice, in the        *)
(* pipeline or in a branch.                                                *)
ASSUME TreeAssumption ==
    /\ \A j, k \in DOMAIN Top : Top[j] = Top[k] => j = k
    /\ \A c \in Conds : \A branch \in {Then[c], Else[c]} :
          \A k \in DOMAIN branch : branch[k] \notin TopSteps
    /\ \A c, d \in Conds : \A s \in {Then[c], Else[c]}, t \in {Then[d], Else[d]} :
          \A j \in DOMAIN s, k \in DOMAIN t : s[j] = t[k] => c = d /\ s = t /\ j = k
    /\ \A c \in Conds : \A j \in DOMAIN Then[c], k \in DOMAIN Else[c] : Then[c][j] # Else[c][k]

(* A reference to a field of another step's output, by where it stands:    *)
(*   "ref"      ${steps.id.output.f} in an input, a source, a header or a  *)
(*              condition;                                                 *)
(*   "native"   steps.id.output.f in a condition;                          *)
(*   "over"     ${steps.id.output.f} in the over list of an aggregator;    *)
(*   "bare"     the ID alone in an over list: a string without a number;   *)
(*   "short"    ${steps.id.output}: lookup wants a field;                  *)
(*   "command"  in a shell command, which is never resolved.               *)
Ref == [id : IDs, form : {"ref", "native", "over", "bare", "short", "command"}]

(* id: the step's ID; type: how its executor behaves ("hanging": returns   *)
(* only when cancelled; "missing": a required field is empty; "log_read"   *)
(* and "unknown": there is none); refs: its references; timeout: its sign, *)
(* which the loader does not look at; output: the IDs the output section   *)
(* refers to; periodic: is the interval positive.                          *)
Program == [id : [Nodes -> IDs],
            type : [Nodes -> {"quick", "hanging", "missing", "log_read", "unknown"}],
            refs : [Nodes -> SUBSET Ref],
            timeout : [Nodes -> {"none", "positive", "negative"}],
            output : SUBSET IDs,
            periodic : BOOLEAN]

ASSUME ProgramsAssumption == Programs \subseteq Program

VARIABLES
    prog,      \* the pipeline
    pc,        \* "next": at the head of a step list; "exec": in a leaf's executor;
               \* "return": a step has returned; "final": Run is over; "done"
    frames,    \* the step lists being run, innermost last
    cur,       \* the leaf being executed
    out,       \* the output that is being returned
    steps,     \* rc.Steps
    expired,   \* the steps whose deadline has passed
    cancelled, \* is the context of the run done
    seen,      \* what the observer has been told: steps with their OK flag
    record     \* the run record

vars == <<prog, pc, frames, cur, out, steps, expired, cancelled, seen, record>>

Outputs == [ok : BOOLEAN, data : BOOLEAN]

(* A frame: the steps still to run, and the step that owns the list.       *)
Frames == [todo : Seq(Nodes), owner : Conds \cup {NoStep}]

(* The variables stay in their types and the frames follow the tree.       *)
TypeOK ==
    /\ prog \in Programs
    /\ pc \in {"next", "exec", "return", "final", "done"}
    /\ frames \in Seq(Frames)
    /\ cur \in Nodes \cup {NoStep}
    /\ cur # NoStep <=> pc = "exec"
    /\ out \in Outputs
    /\ steps \in [IDs -> Outputs \cup {NotRun}]
    /\ expired \subseteq Nodes
    /\ cancelled \in BOOLEAN
    /\ seen \in Seq([node : Nodes, ok : BOOLEAN])
    /\ pc \in {"next", "exec", "return"} => frames # <<>> /\ frames[1].owner = NoStep
    /\ pc \in {"exec", "return"} => frames[Len(frames)].todo # <<>>

Ok(data) == [ok |-> TRUE, data |-> data]
Failed(data) == [ok |-> FALSE, data |-> data]

Init ==
    /\ prog \in Programs
    /\ pc = "next"
    /\ frames = <<[todo |-> Top, owner |-> NoStep]>>
    /\ cur = NoStep
    /\ out = Ok(FALSE)
    /\ steps = [i \in IDs |-> NotRun]
    /\ expired = {}
    /\ cancelled = FALSE
    /\ seen = <<>>
    /\ record = NotRun

Frame == frames[Len(frames)]
Step == Head(Frame.todo)
Above == SubSeq(frames, 1, Len(frames) - 1)

(* The steps whose context the leaf being executed inherits, and itself.   *)
Enclosing == {frames[i].owner : i \in DOMAIN frames} \cup {cur}

(* The steps that run under a deadline of their own.                       *)
Timed == {n \in Nodes : prog.timeout[n] = "positive"}

CtxDone == cancelled \/ expired \cap Enclosing # {}

(* lookup: the step is in rc.Steps and its data has the field.             *)
Resolved(ids) == \A i \in ids : steps[i] # NotRun /\ steps[i].data

(* The IDs that step n looks up when it runs.                              *)
Needed(n) == {r.id : r \in {q \in prog.refs[n] : q.form \in {"ref", "native", "over"}}}

(* A step that its executor refuses whatever has run before.               *)
Malformed(n) == prog.type[n] = "missing" \/ \E r \in prog.refs[n] : r.form = "short"

HasExecutor(n) == prog.type[n] \notin {"unknown", "log_read"}

(* A step that starts to work.  To a condition a missing field is nil,     *)
(* with which it may evaluate.                                             *)
Runnable(n) ==
    /\ HasExecutor(n) /\ ~Malformed(n)
    /\ IF n \in Conds THEN \A i \in Needed(n) : steps[i] # NotRun ELSE Resolved(Needed(n))

(* A step returns o; obs says whether its observer is called.              *)
Return(n, o, obs) ==
    /\ pc' = "return"
    /\ out' = o
    /\ seen' = IF obs THEN Append(seen, [node |-> n, ok |-> o.ok]) ELSE seen
    /\ expired' = expired \ {n}

------------------------------------------------------------------------------
(* Engine.RunStep.                                                         *)

(* No executor: RunStep returns before it gets to the observer.            *)
UnknownType ==
    /\ pc = "next" /\ Frame.todo # <<>>
    /\ ~HasExecutor(Step)
    /\ Return(Step, Failed(FALSE), FALSE)
    /\ UNCHANGED <<prog, frames, cur, steps, cancelled, record>>

(* Resolve fails on the input, or the executor at once: on what it         *)
(* resolves itself, on its condition, on a required field.                 *)
Refuse ==
    /\ pc = "next" /\ Frame.todo # <<>>
    /\ HasExecutor(Step)
    /\ Malformed(Step) \/ ~Resolved(Needed(Step))
    /\ Return(Step, Failed(FALSE), TRUE)
    /\ UNCHANGED <<prog, frames, cur, steps, cancelled, record>>

(* The executor of a leaf is called.                                       *)
StartLeaf ==
    /\ pc = "next" /\ Frame.todo # <<>>
    /\ Step \notin Conds /\ Runnable(Step)
    /\ pc' = "exec"
    /\ cur' = Step
    /\ UNCHANGED <<prog, frames, out, steps, expired, cancelled, seen, record>>

(* It returns; a cancelled one may still succeed, and a failed one may     *)
(* have data.                                                              *)
LeafReturns ==
    /\ pc = "exec"
    /\ prog.type[cur] = "hanging" => CtxDone
    /\ cur' = NoStep
    /\ \E o \in Outputs : Return(cur, o, TRUE)
    /\ UNCHANGED <<prog, frames, steps, cancelled, record>>

------------------------------------------------------------------------------
(* Conditional.Execute.                                                    *)

(* evalBool chooses the branch.                                            *)
EnterBranch ==
    /\ pc = "next" /\ Frame.todo # <<>>
    /\ Step \in Conds /\ Runnable(Step)
    /\ \E branch \in {Then[Step], Else[Step]} :
         frames' = Append(frames, [todo |-> branch, owner |-> Step])
    /\ UNCHANGED <<prog, pc, cur, out, steps, expired, cancelled, seen, record>>

(* Variant: the list that holds the conditional is advanced here already.  *)
LeaveAndAdvance ==
    /\ pc = "next" /\ Frame.todo = <<>> /\ Frame.owner # NoStep
    /\ frames' = [Above EXCEPT ![Len(Above)].todo = Tail(@)]
    /\ Return(Frame.owner, Ok(TRUE), TRUE)
    /\ UNCHANGED <<prog, cur, steps, cancelled, record>>

(* All steps of the branch are done: the conditional succeeds.             *)
LeaveBranch ==
    /\ pc = "next" /\ Frame.todo = <<>> /\ Frame.owner # NoStep
    /\ frames' = Above
    /\ Return(Frame.owner, Ok(TRUE), TRUE)
    /\ UNCHANGED <<prog, cur, steps, cancelled, record>>

(* Variant: the error of a branch step is recorded and ignored.            *)
KeepGoing ==
    /\ pc = "return" /\ ~out.ok /\ Frame.owner # NoStep
    /\ steps' = [steps EXCEPT ![prog.id[Step]] = out]
    /\ frames' = Append(Above, [Frame EXCEPT !.todo = Tail(@)])
    /\ pc' = "next"
    /\ UNCHANGED <<prog, cur, out, expired, cancelled, seen, record>>

(* A step of the branch fails: its output is stored and the conditional    *)
(* fails with it.                                                          *)
FailBranch ==
    /\ pc = "return" /\ ~out.ok /\ Frame.owner # NoStep
    /\ steps' = [steps EXCEPT ![prog.id[Step]] = out]
    /\ frames' = Above
    /\ Return(Frame.owner, Failed(TRUE), TRUE)
    /\ UNCHANGED <<prog, cur, cancelled, record>>

------------------------------------------------------------------------------
(* Engine.Run, and the loop over a branch: rc.Steps[id] = out.             *)

(* A step succeeded: its output is stored and the next one starts.         *)
StoreOutput ==
    /\ pc = "return" /\ out.ok
    /\ steps' = [steps EXCEPT ![prog.id[Step]] = out]
    /\ frames' = Append(Above, [Frame EXCEPT !.todo = Tail(@)])
    /\ pc' = "next"
    /\ UNCHANGED <<prog, cur, out, expired, cancelled, seen, record>>

(* A top-level step failed: its output is stored and Run returns.          *)
FailRun ==
    /\ pc = "return" /\ ~out.ok /\ Frame.owner = NoStep
    /\ steps' = [steps EXCEPT ![prog.id[Step]] = out]
    /\ pc' = "final"
    /\ UNCHANGED <<prog, frames, cur, out, expired, cancelled, seen, record>>

FinishRun ==
    /\ pc = "next" /\ Frame.todo = <<>> /\ Frame.owner = NoStep
    /\ pc' = "final"
    /\ UNCHANGED <<prog, frames, cur, out, steps, expired, cancelled, seen, record>>

(* Run returned an error: a step of Top is still on the list.              *)
RunFailed == Frame.todo # <<>>

(* FinalOutput: the output section has to resolve, also after a failed     *)
(* Run; without one the data of every step that ran is captured.           *)
FinalOutput ==
    [ok |-> Resolved(prog.output),
     data |-> CASE prog.output = {} -> {i \in IDs : steps[i] # NotRun /\ steps[i].data}
                [] prog.output # {} /\ Resolved(prog.output) -> prog.output
                [] OTHER -> {}]

(* A step of Top that did not run gets the record of the zero Output.      *)
StepRecords ==
    [k \in DOMAIN Top |-> steps[prog.id[Top[k]]] # NotRun /\ steps[prog.id[Top[k]]].ok]

(* Variant: a failing output section does not fail the run.                *)
RecordStepsOnly == [ok |-> ~RunFailed, steps |-> StepRecords, output |-> FinalOutput.data]

(* ExecuteWithObserver and BuildRunRecord: the run fails if Run or         *)
(* FinalOutput does.                                                       *)
BuildRunRecord ==
    [ok |-> ~RunFailed /\ FinalOutput.ok, steps |-> StepRecords, output |-> FinalOutput.data]

Record ==
    /\ pc = "final"
    /\ pc' = "done"
    /\ record' = BuildRunRecord
    /\ UNCHANGED <<prog, frames, cur, out, steps, expired, cancelled, seen>>

------------------------------------------------------------------------------
(* Contexts.                                                               *)

(* Variant: a timeout bounds the step's own executor only, not the steps   *)
(* of its branch.                                                          *)
LeafDeadline(n) ==
    /\ pc = "exec" /\ n = cur
    /\ n \in Timed \ expired
    /\ expired' = expired \cup {n}
    /\ UNCHANGED <<prog, pc, frames, cur, out, steps, cancelled, seen, record>>

(* context.WithTimeout of a step that is executing.                        *)
Deadline(n) ==
    /\ pc \in {"next", "exec", "return"} /\ n \in Enclosing
    /\ n \in Timed \ expired
    /\ expired' = expired \cup {n}
    /\ UNCHANGED <<prog, pc, frames, cur, out, steps, cancelled, seen, record>>

(* The daemon stops, or the request of a manual run ends.                  *)
Cancel ==
    /\ pc \in {"next", "exec", "return"} /\ ~cancelled
    /\ cancelled' = TRUE
    /\ UNCHANGED <<prog, pc, frames, cur, out, steps, expired, seen, record>>

RunStep == UnknownType \/ Refuse \/ StartLeaf \/ LeafReturns
Conditional == EnterBranch \/ LeaveBranch \/ FailBranch
Run == RunStep \/ Conditional \/ StoreOutput \/ FailRun \/ FinishRun \/ Record

Finished == pc = "done" /\ UNCHANGED vars

Next == Run \/ (\E n \in Nodes : Deadline(n)) \/ Cancel \/ Finished

Spec == Init /\ [][Next]_vars

(* The goroutine is scheduled and timers fire; nobody has to cancel.       *)
FairSpec == Spec /\ WF_vars(Run) /\ \A n \in Nodes : WF_vars(Deadline(n))

------------------------------------------------------------------------------
(* Properties.                                                             *)

(* Fail-fast: after a step has failed, at any depth, no other executor is  *)
(* called; what is left is to unwind the conditionals around it.           *)
FailFast ==
    [][(\E k \in DOMAIN seen : ~seen[k].ok) \/ (pc = "return" /\ ~out.ok) => cur' = NoStep]_vars

(* No executor ever works on the output of a step that failed, although    *)
(* such outputs are stored, with data, where references find them.         *)
NoReadOfFailed == cur # NoStep => \A i \in Needed(cur) : steps[i].ok

(* Step IDs are unique (what `shelby validate` asks for).                  *)
UniqueIDs == \A m, n \in Nodes : prog.id[m] = prog.id[n] => m = n

(* The observer has been told that step n succeeded.                       *)
Succeeded(n) == \E k \in DOMAIN seen : seen[k].node = n /\ seen[k].ok

(* The record agrees with what happened: it is ok exactly if every         *)
(* top-level step ran and succeeded and the output section resolved, and   *)
(* with unique IDs its step entries tell which of them did.                *)
RecordTruthful ==
    pc = "done" =>
      /\ record.ok <=> (\A k \in DOMAIN Top : Succeeded(Top[k])) /\ Resolved(prog.output)
      /\ UniqueIDs => \A k \in DOMAIN Top : record.steps[k] <=> Succeeded(Top[k])

(* The step being executed does not hang for ever.                         *)
Bounded == cur # NoStep => prog.type[cur] # "hanging" \/ Enclosing \cap Timed # {}

(* A hanging step under a timeout, its own or that of a conditional around *)
(* it, does not keep the run from ending.                                  *)
RunEnds == []Bounded => <>(pc = "done")
==============================================================================
