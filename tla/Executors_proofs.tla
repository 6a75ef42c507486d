--------------------------- MODULE Executors_proofs ---------------------------
(***************************************************************************)
(* Proofs about module Executors for any steps and any output: what a      *)
(* command that counts as a success has been through, and what it leaves   *)
(* behind, in every interleaving of Wait, the goroutine that watches the   *)
(* context, the goroutine that copies, the process and its descendants;    *)
(* what records and aggregates are made of, for any values.                *)
(***************************************************************************)
EXTENDS Executors, Ordering_proofs, SequenceTheorems

(* The command is over for os/exec.                                        *)
Over == pc \in {"judge", "returned"} /\ IsCommand

(* Who is still there, by how far Wait is.                                 *)
Presence ==
    /\ child = "none" =>
         stdout = <<>> /\ written = <<>> /\ ~holder /\ sent = {} /\ timer = "off" /\ pipes = "open"
    /\ pc = "call" => child = "none" /\ runErr = "nil"
    /\ pc = "wait" => runErr = "nil" /\ watcher # "gone"
    /\ pc = "watch" => watcher # "gone"
    /\ Over => child \in {"none", "reaped"} /\ watcher \in {"off", "gone"}
    /\ pc = "judge" /\ IsCommand => Eof \/ pipes = "cut"
    /\ pc = "returned" /\ IsCommand => stdout = written \/ pipes = "cut"
    /\ pc = "do" => ~IsCommand
    /\ pc \in {"wait", "watch", "drain"} => IsCommand
    /\ ~IsCommand => child = "none"

(* A status that is not 0, a signal that was sent and an output that was   *)
(* cut leave an error: of Wait, or of the watcher until Wait has heard it. *)
Errors ==
    /\ child = "reaped" /\ exit # "zero" => runErr # "nil"
    /\ Over /\ child = "none" => runErr # "nil"
    /\ watcher = "grace" /\ child # "reaped" => watchErr # "nil"
    /\ sent # {} \/ pipes = "cut" => watchErr # "nil" \/ runErr # "nil"
    /\ watcher = "gone" /\ watchErr # "nil" => runErr # "nil"

Inv == TypeOK /\ Presence /\ Errors /\ OkTrusted

------------------------------------------------------------------------------
LEMMA InitInv == Init => Inv
<1> SUFFICES ASSUME Init PROVE Inv
  OBVIOUS
<1>1. TypeOK
  <2>1. ctxDone \in BOOLEAN /\ holder \in BOOLEAN
    BY Zenon DEF Init
  <2>2. QED
    BY <2>1 DEF Init, TypeOK, RunErrors
<1>2. Presence
  BY DEF Init, Presence, Over
<1>3. Errors /\ OkTrusted
  BY DEF Init, Errors, Over, OkTrusted
<1>4. QED
  BY <1>1, <1>2, <1>3 DEF Inv

LEMMA Stutter == Inv /\ UNCHANGED vars => Inv'
<1> SUFFICES ASSUME Inv, UNCHANGED vars PROVE Inv'
  OBVIOUS
<1>1. UNCHANGED <<step, pc, ctxDone, cmdVars, verdict, value>>
  BY DEF vars
<1>2. QED
  BY <1>1 DEF Inv, TypeOK, Presence, Errors, OkTrusted, Over, IsCommand, Eof, cmdVars

(* The environment.                                                        *)
LEMMA EnvironmentStep == Inv /\ Environment => Inv'
<1> SUFFICES ASSUME Inv, Environment PROVE Inv'
  OBVIOUS
<1> USE DEF Inv, TypeOK, Presence, Errors, OkTrusted, Over, IsCommand, Eof, cmdVars
<1>1. CASE CtxDone
  BY <1>1 DEF CtxDone
<1>2. CASE PrintLine
  <2>1. PICK line \in Lines : written' = Append(written, line)
    BY <1>2 DEF PrintLine
  <2>2. written' \in Seq(Lines)
    BY <2>1
  <2>3. pc # "returned" /\ (child = "alive" \/ holder) /\ pipes = "open"
    BY <1>2 DEF PrintLine
  <2>4. QED
    BY <1>2, <2>2, <2>3 DEF PrintLine
<1>3. CASE Fork
  BY <1>3 DEF Fork
<1>4. CASE Release
  <2>1. holder' = FALSE /\ UNCHANGED <<step, pc, ctxDone, child, exit, sent, watcher, watchErr,
                                      timer, written, stdout, pipes, runErr, verdict, value>>
    BY <1>4 DEF Release
  <2>2. TypeOK'
    <3>1. holder' \in BOOLEAN
      BY <2>1, Zenon
    <3>2. QED
      BY <2>1, <3>1
  <2>3. Presence'
    BY <2>1
  <2>4. Errors' /\ OkTrusted'
    BY <2>1
  <2>5. QED
    BY <2>2, <2>3, <2>4
<1>5. CASE ExitChild
  BY <1>5 DEF ExitChild
<1>6. CASE Killed
  BY <1>6 DEF Killed
<1>7. QED
  BY <1>1, <1>2, <1>3, <1>4, <1>5, <1>6 DEF Environment

(* os/exec.                                                                *)
LEMMA CommandStep == Inv /\ Command => Inv'
<1> SUFFICES ASSUME Inv, Command PROVE Inv'
  OBVIOUS
<1> USE DEF Inv, TypeOK, Presence, Errors, OkTrusted, Over, IsCommand, Eof, RunErrors, First, cmdVars
<1>1. CASE Start
  BY <1>1 DEF Start
<1>2. CASE Reap
  BY <1>2 DEF Reap
<1>3. CASE HearWatcher
  BY <1>3 DEF HearWatcher
<1>4. CASE StartTimer
  BY <1>4 DEF StartTimer
<1>5. CASE Drained
  BY <1>5 DEF Drained
<1>6. CASE GiveUp
  BY <1>6 DEF GiveUp
<1>7. CASE Interrupt
  BY <1>7 DEF Interrupt
<1>8. CASE Kill
  BY <1>8 DEF Kill
<1>9. CASE Copy
  BY <1>9 DEF Copy
<1>10. CASE TimerExpires
  BY <1>10 DEF TimerExpires
<1>11. QED
  BY <1>1, <1>2, <1>3, <1>4, <1>5, <1>6, <1>7, <1>8, <1>9, <1>10 DEF Command

(* What Execute makes of the result.                                       *)
LEMMA JudgeStep == Inv /\ (Shell \/ Script) => Inv'
<1> SUFFICES ASSUME Inv, Shell \/ Script PROVE Inv'
  OBVIOUS
<1> USE DEF Inv, TypeOK, Presence, Errors, Over, IsCommand, Eof, cmdVars
<1>1. /\ pc = "judge" /\ pc' = "returned" /\ verdict' \in {"ok", "failed"}
      /\ UNCHANGED <<step, ctxDone, cmdVars>>
  BY DEF Shell, Script, Return
<1>2. verdict' = "ok" /\ step.kind = "shell" => exit = "zero" /\ (runErr # "nil" => stdout # <<>>)
  <2>1. SUFFICES ASSUME verdict' = "ok", step.kind = "shell"
                 PROVE  exit = "zero" /\ (runErr # "nil" => stdout # <<>>)
    OBVIOUS
  <2>2. Shell
    BY <2>1 DEF Script
  <2>3. CASE RunFailed \/ ExitCode # 0
    <3>1. Return("failed", <<>>)
      BY <2>2, <2>3 DEF Shell
    <3>2. QED
      BY <2>1, <3>1 DEF Return
  <2>4. CASE ~RunFailed /\ ExitCode = 0
    <3>1. exit = "zero"
      BY <2>4 DEF ExitCode
    <3>2. QED
      BY <2>4, <3>1 DEF RunFailed
  <2>5. QED
    BY <2>3, <2>4
<1>3. verdict' = "ok" /\ step.kind = "script" => runErr = "nil"
  <2>1. SUFFICES ASSUME step.kind = "script", runErr # "nil"
                 PROVE  verdict' # "ok"
    OBVIOUS
  <2>2. Return("failed", <<>>)
    BY <2>1 DEF Shell, Script
  <2>3. QED
    BY <2>2 DEF Return
<1>4. TypeOK' /\ Presence' /\ Errors'
  BY <1>1
<1>5. OkTrusted'
  <2>1. SUFFICES ASSUME verdict' = "ok", IsCommand
                 PROVE  /\ exit = "zero"
                        /\ \/ stdout = written /\ sent = {}
                           \/ step.kind = "shell" /\ runErr # "nil" /\ stdout # <<>>
    BY <1>1 DEF OkTrusted
  <2>2. CASE runErr = "nil"
    <3>1. child = "reaped" /\ exit = "zero" /\ watcher = "gone"
      BY <1>1, <2>1, <2>2
    <3>2. sent = {} /\ pipes = "open"
      BY <2>2, <3>1
    <3>3. QED
      BY <1>1, <2>1, <3>1, <3>2
  <2>3. CASE runErr # "nil"
    BY <1>2, <1>3, <2>1, <2>3
  <2>4. QED
    BY <2>2, <2>3
<1>6. QED
  BY <1>4, <1>5

(* The executors without a process.                                        *)
LEMMA OtherStep == Inv /\ (Aggregator \/ SysStat \/ HTTPGet) => Inv'
<1> SUFFICES ASSUME Inv, Aggregator \/ SysStat \/ HTTPGet PROVE Inv'
  OBVIOUS
<1>1. /\ ~IsCommand /\ UNCHANGED <<step, ctxDone, cmdVars>>
      /\ pc \in {"call", "do"}
      /\ \/ pc' = "returned" /\ verdict' \in {"ok", "failed"}
         \/ pc' = "do" /\ UNCHANGED verdict
  BY DEF Aggregator, SysStat, HTTPGet, NewRequest, Answer, RequestFails, Return, IsCommand, Inv, Presence
<1>2. QED
  BY <1>1 DEF Inv, TypeOK, Presence, Errors, OkTrusted, Over, IsCommand, Eof, cmdVars

LEMMA NextInv == Inv /\ [Next]_vars => Inv'
<1>1. Inv /\ Next => Inv'
  <2> SUFFICES ASSUME Inv, Returned PROVE Inv'
    BY EnvironmentStep, CommandStep, JudgeStep, OtherStep DEF Next, Execute
  <2>1. UNCHANGED vars
    BY DEF Returned
  <2>2. QED
    BY <2>1, Stutter
<1>2. QED
  BY <1>1, Stutter

------------------------------------------------------------------------------
(* What the parsers make of a text.                                        *)

(* jsonDescend lands on a value, or nowhere.                               *)
LEMMA DescendLands ==
    ASSUME NEW v, v = <<>> \/ v \in Data, NEW seg
    PROVE  JsonDescend(v, seg) = <<>> \/ JsonDescend(v, seg) \in Data
<1>1. CASE v # <<>> /\ v[1] = "map" /\ seg[1] = "key" /\ seg[2] \in DOMAIN v[2]
  <2>1. v \in Data /\ JsonDescend(v, seg) = v[2][seg[2]]
    BY <1>1 DEF JsonDescend
  <2>2. QED
    BY <1>1, <2>1, DataAssumption
<1>2. CASE v # <<>> /\ v[1] = "list" /\ seg[1] = "index" /\ seg[2] \in 0..Len(v[2]) - 1
  <2>1. v \in Data /\ v[2] \in Seq(Data)
    BY <1>2, DataAssumption
  <2>2. seg[2] + 1 \in 1..Len(v[2])
    BY <1>2, <2>1
  <2>3. JsonDescend(v, seg) = v[2][seg[2] + 1]
    BY <1>2 DEF JsonDescend
  <2>4. QED
    BY <2>1, <2>2, <2>3
<1>3. CASE /\ ~(v # <<>> /\ v[1] = "map" /\ seg[1] = "key" /\ seg[2] \in DOMAIN v[2])
           /\ ~(v # <<>> /\ v[1] = "list" /\ seg[1] = "index" /\ seg[2] \in 0..Len(v[2]) - 1)
  <2>1. JsonDescend(v, seg) = <<>>
    BY <1>3 DEF JsonDescend
  <2>2. QED
    BY <2>1
<1>4. QED
  BY <1>1, <1>2, <1>3

(* A path from a value lands on a value, or nowhere: there is a function   *)
(* from the prefixes of the path to where they land, and it has no value   *)
(* outside of Data.                                                        *)
LEMMA PathLands ==
    ASSUME NEW root \in Data, NEW path, Len(path) \in Nat
    PROVE  Landed(root, path) = <<>> \/ Landed(root, path) \in Data
<1> DEFINE n == Len(path)
           S == Data \cup {<<>>}
           Lands(f) == [k \in 0..n |-> IF k = 0 THEN root ELSE JsonDescend(f[k - 1], path[k])]
           c == CHOOSE f : f = Lands(f)
<1>1. \E f : f = Lands(f)
  <2> DEFINE next == [p \in (1..n) \X S |-> JsonDescend(p[2], path[p[1]])]
  <2>1. next \in [(1..n) \X S -> S] /\ root \in S
    BY DescendLands
  <2>2. PICK f \in [0..n -> S] : Recursive(f, n, root, next)
    <3> HIDE DEF next, n, S
    <3>1. n \in Nat
      BY DEF n
    <3>2. QED
      BY <2>1, <3>1, Recursion
  <2>3. f = [k \in 0..n |-> IF k = 0 THEN root ELSE next[<<k, f[k - 1]>>]]
    BY <2>2 DEF Recursive
  <2>4. ASSUME NEW k \in 0..n PROVE f[k] = IF k = 0 THEN root ELSE JsonDescend(f[k - 1], path[k])
    <3>1. CASE k = 0
      BY <2>3, <3>1
    <3>2. CASE k # 0
      <4>1. k \in 1..n /\ f[k - 1] \in S
        BY <3>2
      <4>2. f[k] = next[<<k, f[k - 1]>>]
        BY <2>3, <3>2, Zenon
      <4>3. next[<<k, f[k - 1]>>] = JsonDescend(f[k - 1], path[k])
        BY <4>1
      <4> HIDE DEF next
      <4>4. QED
        BY <3>2, <4>2, <4>3
    <3>3. QED
      BY <3>1, <3>2
  <2> HIDE DEF next
  <2>5. f = Lands(f)
    BY <2>4
  <2>6. QED
    BY <2>5
<1>2. c = Lands(c)
  BY <1>1
<1>3. Landed(root, path) = c[n]
  BY DEF Landed
<1> HIDE DEF c
<1>4. c[0] = root /\ \A k \in 1..n : c[k] = JsonDescend(c[k - 1], path[k])
  BY <1>2
<1> DEFINE P == {k \in 0..n : c[k] \in S}
<1>5. 0 \in P /\ \A k \in 1..n : k - 1 \in P => k \in P
  BY <1>4, DescendLands
<1>6. n \in P
  <2> HIDE DEF P
  <2>1. \A k \in 0..n : k \in P
    BY <1>5, Upward
  <2>2. QED
    BY <2>1
<1>7. QED
  BY <1>3, <1>6

(* The lines that are not blank, and those that are not empty, are finitely *)
(* many and stay what they are when the text grows.                        *)
Begins(text, longer) ==
    /\ Len(text) <= Len(longer)
    /\ \A k \in DOMAIN text : longer[k] = text[k]

LEMMA LinesGrow ==
    ASSUME NEW text \in Seq(Lines), NEW longer \in Seq(Lines), Begins(text, longer)
    PROVE  /\ Cardinality(Nonblank(text)) <= Cardinality(Nonblank(longer))
           /\ Cardinality(Nonempty(text)) <= Cardinality(Nonempty(longer))
           /\ Cardinality(Nonblank(text)) \in Nat /\ Cardinality(Nonblank(longer)) \in Nat
           /\ Cardinality(Nonempty(text)) \in Nat /\ Cardinality(Nonempty(longer)) \in Nat
           /\ IsFiniteSet(Nonempty(longer)) /\ IsFiniteSet(Nonblank(longer))
<1>1. /\ Nonblank(text) \subseteq Nonblank(longer) /\ Nonblank(longer) \subseteq 1..Len(longer)
      /\ Nonempty(text) \subseteq Nonempty(longer) /\ Nonempty(longer) \subseteq 1..Len(longer)
      /\ Len(longer) \in Nat
  BY DEF Nonblank, Nonempty, Begins
<1>2. IsFiniteSet(1..Len(longer))
  BY <1>1, FS_Interval
<1>3. IsFiniteSet(Nonblank(longer)) /\ IsFiniteSet(Nonempty(longer))
  BY <1>1, <1>2, FS_Subset
<1>4. QED
  BY <1>1, <1>3, FS_Subset, FS_CardinalityType

(* The records of a text, for every parser.                                *)
LEMMA RecordsOfText ==
    ASSUME NEW text \in Seq(Lines),
           NEW p, p.skip \in Nat, p.most \in Nat, p.root \in Data, Len(p.path) \in Nat,
           NEW n \in ParseOutput(text, p), n # Error
    PROVE  /\ n \in Nat
           /\ p.engine = "lines" => /\ n = 0 \/ n + p.skip <= Cardinality(Nonblank(text))
                                    /\ n + p.skip >= Cardinality(Nonblank(text))
           /\ p.engine = "regex" => n <= Cardinality(Nonempty(text))
           /\ p.engine = "json" => Cardinality(Nonblank(text)) > 0
<1> DEFINE lines == Cardinality(Nonblank(text))
<1>1. Begins(text, text)
  BY DEF Begins
<1>2. /\ lines \in Nat /\ IsFiniteSet(Nonblank(text))
      /\ Cardinality(Nonempty(text)) \in Nat /\ IsFiniteSet(Nonempty(text))
  BY <1>1, LinesGrow
<1> HIDE DEF lines
<1>4. CASE p.engine = "lines"
  <2>1. n = ParseLines(text, p.skip)
    BY <1>4 DEF ParseOutput
  <2>2. ParseLines(text, p.skip) = IF lines > p.skip THEN lines - p.skip ELSE 0
    BY DEF ParseLines, lines
  <2>3. n \in Nat /\ (n = 0 \/ n + p.skip <= lines) /\ n + p.skip >= lines
    BY <1>2, <2>1, <2>2
  <2>4. QED
    BY <1>4, <2>3 DEF lines
<1>5. CASE p.engine = "regex"
  <2>1. n \in ParseRegex(text)
    BY <1>5 DEF ParseOutput
  <2>2. PICK matches \in SUBSET Nonempty(text) : n = Cardinality(matches)
    BY <2>1 DEF ParseRegex
  <2>3. n \in Nat /\ n <= Cardinality(Nonempty(text))
    BY <1>2, <2>2, FS_Subset, FS_CardinalityType
  <2>4. QED
    BY <1>5, <2>3
<1>6. CASE p.engine = "json"
  <2>1. n = ParseJSON(text, p.root, p.path)
    BY <1>6 DEF ParseOutput
  <2> DEFINE v == Landed(p.root, p.path)
  <2>2. v = <<>> \/ v \in Data
    BY PathLands
  <2> HIDE DEF v
  <2>3. ParseJSON(text, p.root, p.path) =
          IF ~IsJSON(text) \/ v = <<>> THEN Error ELSE IF v[1] = "list" THEN Len(v[2]) ELSE 1
    BY DEF ParseJSON, v
  <2>4. IsJSON(text) /\ v # <<>>
    BY <2>1, <2>3
  <2>5. n = IF v[1] = "list" THEN Len(v[2]) ELSE 1
    BY <2>1, <2>3, <2>4
  <2>6. v[1] = "list" => v[2] \in Seq(Data)
    BY <2>2, <2>4, DataAssumption
  <2>7. n \in Nat
    BY <2>5, <2>6
  <2>8. Cardinality(Nonblank(text)) > 0
    <3>1. PICK k : Nonblank(text) = {k}
      BY <2>4 DEF IsJSON
    <3>2. Cardinality({k}) = 1
      BY FS_Singleton
    <3>3. QED
      BY <3>1, <3>2
  <2>9. QED
    BY <1>6, <2>7, <2>8
<1>7. CASE p.engine = "textfsm"
  <2>1. n \in 0..p.most
    BY <1>7 DEF ParseOutput
  <2>2. QED
    BY <1>7, <2>1
<1>8. CASE p.engine \notin {"lines", "regex", "json", "textfsm"}
  <2>1. n = Error
    BY <1>8 DEF ParseOutput
  <2>2. QED
    BY <2>1
<1>9. QED
  BY <1>4, <1>5, <1>6, <1>7, <1>8

------------------------------------------------------------------------------
(* What was copied is the beginning of what was printed, and the records   *)
(* of a shell step are those of what was copied.                           *)
Copied == Begins(stdout, written)

Counted == verdict = "ok" /\ step.kind = "shell" /\ value # <<>> => value[1] \in Nat

Records == Inv /\ Copied /\ Counted /\ RecordsPrinted

LEMMA InitRecords == Init => Records
<1> SUFFICES ASSUME Init PROVE Records
  OBVIOUS
<1>1. Inv
  BY InitInv
<1>2. Copied /\ Counted /\ RecordsPrinted
  BY DEF Init, Copied, Begins, Counted, RecordsPrinted
<1>3. QED
  BY <1>1, <1>2 DEF Records

LEMMA NextRecords == Records /\ [Next]_vars => Records'
<1> SUFFICES ASSUME Records, [Next]_vars PROVE Records'
  OBVIOUS
<1>1. Inv'
  BY NextInv DEF Records
<1>2. /\ stdout \in Seq(Lines) /\ written \in Seq(Lines)
      /\ stdout' \in Seq(Lines) /\ written' \in Seq(Lines)
      /\ Begins(stdout, written)
  BY <1>1 DEF Records, Copied, Inv, TypeOK
<1>3. Begins(written, written') /\ (UNCHANGED stdout \/ stdout' = written')
  <2>1. CASE PrintLine
    <3>1. PICK line \in Lines : written' = Append(written, line)
      BY <2>1 DEF PrintLine
    <3>2. UNCHANGED stdout
      BY <2>1 DEF PrintLine
    <3>3. QED
      BY <1>2, <3>1, <3>2 DEF Begins
  <2>2. CASE UNCHANGED <<stdout, written>>
    BY <1>2, <2>2 DEF Begins
  <2>3. CASE Copy
    BY <1>2, <2>3 DEF Copy, Begins
  <2>4. PrintLine \/ UNCHANGED <<stdout, written>> \/ Copy
    <3>1. CASE Environment
      BY <3>1 DEF Environment, CtxDone, Fork, Release, ExitChild, Killed, cmdVars
    <3>2. CASE Command
      BY <3>2 DEF Command, Start, Reap, HearWatcher, StartTimer, Drained, GiveUp, Interrupt, Kill,
                  TimerExpires, cmdVars
    <3>3. CASE Shell \/ Script \/ Aggregator \/ SysStat \/ HTTPGet
      BY <3>3 DEF Shell, Script, Aggregator, SysStat, HTTPGet, NewRequest, Answer, RequestFails, cmdVars
    <3>4. CASE Returned \/ UNCHANGED vars
      BY <3>4 DEF Returned, vars, cmdVars
    <3>5. QED
      BY <3>1, <3>2, <3>3, <3>4 DEF Next, Execute
  <2>5. QED
    BY <2>1, <2>2, <2>3, <2>4
<1>4. Copied'
  BY <1>2, <1>3 DEF Copied, Begins
<1>5. Counted' /\ RecordsPrinted'
  <2>1. CASE Shell
    <3>1. /\ pc = "judge" /\ step.kind = "shell" /\ UNCHANGED <<step, stdout, written>>
          /\ step \in Steps
      BY <2>1 DEF Shell, cmdVars, Records, Inv, TypeOK
    <3>2. CASE value' = <<>> \/ verdict' # "ok"
      BY <3>1, <3>2 DEF Counted, RecordsPrinted
    <3>3. CASE verdict' = "ok" /\ value' # <<>>
      <4> DEFINE p == step.parse[1]
      <4>1. /\ step.parse # <<>>
            /\ \E n \in ParseOutput(stdout, p) : n # Error /\ value' = <<n>>
        BY <2>1, <3>3 DEF Shell, Return
      <4>2. PICK n \in ParseOutput(stdout, p) : n # Error /\ value' = <<n>>
        BY <4>1
      <4>3. p.skip \in Nat /\ p.most \in Nat /\ p.root \in Data /\ Len(p.path) \in Nat
        BY <3>1, <4>1, StepShape
      <4>4. /\ n \in Nat
            /\ p.engine = "lines" => /\ n = 0 \/ n + p.skip <= Cardinality(Nonblank(stdout))
                                     /\ n + p.skip >= Cardinality(Nonblank(stdout))
            /\ p.engine = "regex" => n <= Cardinality(Nonempty(stdout))
            /\ p.engine = "json" => Cardinality(Nonblank(stdout)) > 0
        BY <1>2, <4>2, <4>3, RecordsOfText
      <4>5. /\ Cardinality(Nonblank(stdout)) <= Cardinality(Nonblank(written))
            /\ Cardinality(Nonempty(stdout)) <= Cardinality(Nonempty(written))
            /\ Cardinality(Nonblank(stdout)) \in Nat /\ Cardinality(Nonblank(written)) \in Nat
            /\ Cardinality(Nonempty(stdout)) \in Nat /\ Cardinality(Nonempty(written)) \in Nat
        BY <1>2, LinesGrow
      <4>6. runErr = "nil" => stdout = written
        <5>1. pipes = "cut" => runErr # "nil"
          BY <3>1 DEF Records, Inv, TypeOK, Errors, Presence, Over, IsCommand
        <5>2. Eof \/ pipes = "cut"
          BY <3>1 DEF Records, Inv, Presence, IsCommand
        <5>3. QED
          BY <5>1, <5>2 DEF Eof
      <4>7. value'[1] = n /\ UNCHANGED runErr
        BY <2>1, <4>2 DEF Shell, cmdVars
      <4>8. /\ value'[1] \in Nat
            /\ p.engine = "lines" => /\ value'[1] = 0 \/ value'[1] + p.skip <= Cardinality(Nonblank(written))
                                     /\ runErr = "nil" => value'[1] + p.skip >= Cardinality(Nonblank(written))
            /\ p.engine = "regex" => value'[1] <= Cardinality(Nonempty(written))
            /\ p.engine = "json" => Cardinality(Nonblank(written)) > 0
        BY <4>3, <4>4, <4>5, <4>6, <4>7
      <4>9. QED
        BY <3>1, <4>7, <4>8 DEF Counted, RecordsPrinted
    <3>4. QED
      BY <3>2, <3>3
  <2>2. CASE ~Shell
    <3>1. UNCHANGED step
      BY DEF Next, Execute, Environment, Returned, vars, cmdVars, CtxDone, PrintLine, Fork, Release, ExitChild,
             Killed, Command, Start, Reap, HearWatcher, StartTimer, Drained, GiveUp, Interrupt, Kill,
             TimerExpires, Copy, Shell, Script, Aggregator, SysStat, HTTPGet, NewRequest, Answer, RequestFails
    <3>2. CASE Script \/ Aggregator \/ SysStat \/ HTTPGet
      <4>1. step.kind # "shell"
        BY <3>2 DEF Script, Aggregator, SysStat, HTTPGet, NewRequest, Answer, RequestFails,
                    Records, Inv, Presence, IsCommand
      <4>2. QED
        BY <3>1, <4>1 DEF Counted, RecordsPrinted
    <3>3. CASE Environment \/ Command \/ Returned \/ UNCHANGED vars
      <4>1. UNCHANGED <<verdict, value>> /\ (pc = "returned" => UNCHANGED <<written, runErr>>)
        BY <3>3 DEF Environment, Returned, vars, cmdVars, CtxDone, PrintLine, Fork, Release, ExitChild,
             Killed, Command, Start, Reap, HearWatcher, StartTimer, Drained, GiveUp, Interrupt, Kill,
             TimerExpires, Copy
      <4>2. verdict = "ok" => pc = "returned"
        BY DEF Records, Inv, TypeOK
      <4>3. QED
        BY <3>1, <4>1, <4>2 DEF Records, Counted, RecordsPrinted
    <3>4. QED
      BY <2>2, <3>2, <3>3 DEF Next, Execute
  <2>3. QED
    BY <2>1, <2>2
<1>6. QED
  BY <1>1, <1>4, <1>5 DEF Records

------------------------------------------------------------------------------
(* What the aggregator makes of values.                                    *)

(* FlattenSeq concatenates: nothing new is in the result, and it is no     *)
(* longer than its parts.                                                  *)
LEMMA Flattened ==
    ASSUME NEW S, NEW seqs \in Seq(Seq(S))
    PROVE  /\ FlattenSeq(seqs) \in Seq(S)
           /\ (\A k \in DOMAIN seqs : Len(seqs[k]) <= 1) => Len(FlattenSeq(seqs)) <= Len(seqs)
<1> DEFINE n == Len(seqs)
           Joined(f) == [i \in 1..n |-> IF i = 1 THEN seqs[i] ELSE f[i - 1] \o seqs[i]]
           c == CHOOSE f : f = Joined(f)
<1>0. n \in Nat /\ DOMAIN seqs = 1..n /\ \A k \in 1..n : seqs[k] \in Seq(S)
  OBVIOUS
<1>1. CASE n = 0
  <2>1. FlattenSeq(seqs) = seqs /\ seqs = <<>>
    BY <1>1 DEF FlattenSeq
  <2>2. QED
    BY <1>1, <2>1
<1>2. CASE n # 0
  <2>1. \E f : f = Joined(f)
    <3>0. n \in Nat
      BY <1>0
    <3> DEFINE next == [p \in (1..n) \X Seq(S) |-> p[2] \o seqs[p[1]]]
    <3>1. next \in [(1..n) \X Seq(S) -> Seq(S)]
      BY <1>0
    <3>2. <<>> \in Seq(S)
      OBVIOUS
    <3>3. PICK f \in [0..n -> Seq(S)] : f = [k \in 0..n |-> IF k = 0 THEN <<>> ELSE next[<<k, f[k - 1]>>]]
      <4>1. \E f \in [0..n -> Seq(S)] : Recursive(f, n, <<>>, next)
        <5> HIDE DEF next, n
        <5>1. QED
          BY <3>0, <3>1, <3>2, Recursion
      <4>2. QED
        BY <4>1 DEF Recursive
    <3>4. \A k \in 1..n : f[k - 1] \in Seq(S) /\ f[k] = f[k - 1] \o seqs[k]
      <4>1. ASSUME NEW k \in 1..n PROVE f[k - 1] \in Seq(S) /\ f[k] = f[k - 1] \o seqs[k]
        <5>1. k \in 0..n /\ k - 1 \in 0..n /\ k # 0
          BY <1>0
        <5>2. f[k] = next[<<k, f[k - 1]>>]
          BY <3>3, <5>1, Zenon
        <5>3. QED
          BY <5>1, <5>2
      <4>2. QED
        BY <4>1
    <3> DEFINE g == [i \in 1..n |-> f[i]]
    <3>5. ASSUME NEW i \in 1..n PROVE g[i] = IF i = 1 THEN seqs[i] ELSE g[i - 1] \o seqs[i]
      <4>1. CASE i = 1
        <5>1. 0 \in 0..n
          BY <1>0
        <5>2. f[0] = <<>>
          BY <3>3, <5>1, Zenon
        <5>3. f[1] = <<>> \o seqs[1] /\ seqs[1] \in Seq(S)
          <6>1. f[i] = f[i - 1] \o seqs[i] /\ seqs[i] \in Seq(S) /\ i - 1 = 0
            BY <1>0, <3>4, <4>1
          <6>2. QED
            BY <4>1, <5>2, <6>1
        <5>4. <<>> \o seqs[1] = seqs[1]
          BY <5>3, ConcatEmptySeq
        <5>5. QED
          <6>1. g[i] = seqs[i]
            BY <4>1, <5>3, <5>4
          <6> HIDE DEF g
          <6>2. QED
            BY <4>1, <6>1
      <4>2. CASE i # 1
        BY <1>0, <3>4, <4>2
      <4>3. QED
        BY <4>1, <4>2
    <3>6. g = Joined(g)
      BY <3>5
    <3>7. QED
      BY <3>6
  <2>2. c = Joined(c)
    BY <2>1
  <2>3. FlattenSeq(seqs) = c[n]
    BY <1>2 DEF FlattenSeq
  <2>4. \A i \in 1..n : c[i] = IF i = 1 THEN seqs[i] ELSE c[i - 1] \o seqs[i]
    BY <2>2
  <2> HIDE DEF c
  <2> DEFINE Short(i) == (\A k \in DOMAIN seqs : Len(seqs[k]) <= 1) => Len(c[i]) <= i
             P == {0} \cup {i \in 1..n : c[i] \in Seq(S) /\ Short(i)}
  <2>5. ASSUME NEW i \in 1..n, i - 1 \in P PROVE i \in P
    <3>1. CASE i = 1
      <4>1. c[i] = seqs[i] /\ i \in DOMAIN seqs /\ c[i] \in Seq(S)
        BY <1>0, <2>4, <3>1
      <4>2. Short(i)
        BY <3>1, <4>1
      <4>3. QED
        BY <4>1, <4>2
    <3>2. CASE i # 1
      <4>1. i - 1 \in 1..n /\ c[i - 1] \in Seq(S) /\ Short(i - 1)
        BY <1>0, <2>5, <3>2
      <4>2. c[i] = c[i - 1] \o seqs[i] /\ seqs[i] \in Seq(S)
        BY <1>0, <2>4, <3>2
      <4>3. c[i] \in Seq(S) /\ Len(c[i]) = Len(c[i - 1]) + Len(seqs[i])
        BY <4>1, <4>2
      <4>4. Len(c[i - 1]) \in Nat /\ Len(seqs[i]) \in Nat
        BY <4>1, <4>2
      <4>5. Short(i)
        <5>1. SUFFICES ASSUME \A k \in DOMAIN seqs : Len(seqs[k]) <= 1 PROVE Len(c[i]) <= i
          OBVIOUS
        <5>2. Len(c[i - 1]) <= i - 1 /\ Len(seqs[i]) <= 1
          BY <1>0, <4>1, <5>1
        <5>3. PICK x \in Nat, y \in Nat : x = Len(c[i - 1]) /\ y = Len(seqs[i])
          BY <4>4
        <5>4. Len(c[i]) = x + y /\ x <= i - 1 /\ y <= 1 /\ i \in Nat
          BY <1>0, <4>3, <5>2, <5>3
        <5> HIDE DEF P, Short
        <5>5. x + y <= i
          BY <5>4
        <5>6. QED
          BY <5>4, <5>5
      <4>6. QED
        BY <4>3, <4>5
    <3>3. QED
      BY <3>1, <3>2
  <2>6. n \in P
    <3> HIDE DEF P, n
    <3>1. 0 \in P
      BY DEF P
    <3>2. \A k \in 0..n : k \in P
      BY <1>0, <2>5, <3>1, Upward
    <3>3. QED
      BY <1>0, <3>2
  <2>7. QED
    BY <1>2, <2>3, <2>6
<1>3. QED
  BY <1>1, <1>2
(* Values are nested to a finite depth, so a set without the values that   *)
(* have all their elements in it is empty.                                 *)
Elements(v) == IF v[1] = "list" THEN ToSet(v[2]) ELSE {}

LEMMA ElementsTyped ==
    ASSUME NEW v \in Data
    PROVE  /\ Elements(v) \subseteq Data
           /\ v[1] = "list" => /\ v[2] \in Seq(Data) /\ DOMAIN v[2] = 1..Len(v[2]) /\ Len(v[2]) \in Nat
                              /\ \A k \in DOMAIN v[2] : v[2][k] \in Elements(v)
<1>1. v[1] = "list" => v[2] \in Seq(Data)
  BY DataAssumption
<1>2. QED
  BY <1>1 DEF Elements, ToSet

LEMMA Innermost ==
    ASSUME NEW T \in SUBSET Data, T # {}
    PROVE  \E v \in T : Elements(v) \cap T = {}
<1>1. PICK v \in T : v[1] = "list" => ToSet(v[2]) \cap T = {}
  BY DataAssumption
<1>2. QED
  BY <1>1 DEF Elements

(* The equation of Leaves, for a set D of values that has their elements.  *)
Closed(D) == \A v \in D : Elements(v) \subseteq D

LeavesOf(v, f) ==
    CASE v[1] = "list" -> FlattenSeq([k \in DOMAIN v[2] |-> f[v[2][k]]])
      [] v[1] = "nil" -> <<>>
      [] OTHER -> <<v>>

Solves(f, D) == f = [v \in D |-> LeavesOf(v, f)]

LEMMA LeavesLocal ==
    ASSUME NEW v \in Data, NEW f, NEW g, \A w \in Elements(v) : f[w] = g[w]
    PROVE  LeavesOf(v, f) = LeavesOf(v, g)
<1>1. CASE v[1] = "list"
  <2>1. [k \in DOMAIN v[2] |-> f[v[2][k]]] = [k \in DOMAIN v[2] |-> g[v[2][k]]]
    BY <1>1, ElementsTyped
  <2>2. QED
    BY <1>1, <2>1 DEF LeavesOf
<1>2. CASE v[1] # "list"
  BY <1>2 DEF LeavesOf
<1>3. QED
  BY <1>1, <1>2

LEMMA SolutionsAgree ==
    ASSUME NEW D \in SUBSET Data, NEW E \in SUBSET Data, Closed(D), Closed(E),
           NEW f, NEW g, Solves(f, D), Solves(g, E), NEW x \in D \cap E
    PROVE  f[x] = g[x]
<1> DEFINE Apart == {v \in D \cap E : f[v] # g[v]}
<1>1. SUFFICES ASSUME Apart # {} PROVE FALSE
  OBVIOUS
<1>2. PICK v \in Apart : Elements(v) \cap Apart = {}
  <2>1. Apart \in SUBSET Data
    OBVIOUS
  <2> HIDE DEF Apart
  <2>2. QED
    BY <1>1, <2>1, Innermost
<1>3. \A w \in Elements(v) : f[w] = g[w]
  BY <1>2 DEF Closed
<1>4. f[v] = LeavesOf(v, f) /\ g[v] = LeavesOf(v, g) /\ v \in Data
  BY <1>2 DEF Solves
<1>5. f[v] = g[v]
  BY <1>3, <1>4, LeavesLocal
<1>6. QED
  BY <1>2, <1>5

LEMMA SolutionExists == \E f : Solves(f, Data)
<1> DEFINE Partial(D, f) == D \in SUBSET Data /\ Closed(D) /\ Solves(f, D)
           Good == {v \in Data : \E D, f : Partial(D, f) /\ v \in D}
           F == [v \in Good |-> CHOOSE y : \E D, f : Partial(D, f) /\ v \in D /\ y = f[v]]
<1>1. ASSUME NEW D, NEW f, Partial(D, f), NEW v \in D PROVE v \in Good /\ F[v] = f[v]
  <2>1. v \in Good
    BY <1>1, Zenon
  <2> DEFINE Is(y) == \E E, g : Partial(E, g) /\ v \in E /\ y = g[v]
  <2>2. Is(f[v])
    BY <1>1, Zenon
  <2>3. F[v] = CHOOSE y : Is(y)
    BY <2>1
  <2> HIDE DEF Is, F, Good
  <2>4. Is(F[v])
    BY <2>2, <2>3
  <2>5. PICK E, g : Partial(E, g) /\ v \in E /\ F[v] = g[v]
    BY <2>4 DEF Is
  <2>6. f[v] = g[v]
    BY <1>1, <2>5, SolutionsAgree
  <2>7. QED
    BY <2>1, <2>5, <2>6
<1>2. Closed(Good)
  <2> SUFFICES ASSUME NEW v \in Good, NEW w \in Elements(v) PROVE w \in Good
    BY DEF Closed
  <2>1. PICK D, f : Partial(D, f) /\ v \in D
    OBVIOUS
  <2>2. w \in D
    BY <2>1 DEF Closed
  <2> HIDE DEF Good
  <2>3. QED
    BY <1>1, <2>1, <2>2
<1>3. Solves(F, Good)
  <2>1. ASSUME NEW v \in Good PROVE F[v] = LeavesOf(v, F)
    <3>1. PICK D, f : Partial(D, f) /\ v \in D
      OBVIOUS
    <3> HIDE DEF Good, F
    <3>2. F[v] = f[v] /\ f[v] = LeavesOf(v, f) /\ v \in Data
      BY <1>1, <3>1 DEF Solves
    <3>3. \A w \in Elements(v) : f[w] = F[w]
      BY <1>1, <3>1 DEF Closed
    <3>4. QED
      BY <3>2, <3>3, LeavesLocal
  <2>2. F = [v \in Good |-> F[v]]
    OBVIOUS
  <2> HIDE DEF Good, F
  <2>3. QED
    BY <2>1, <2>2 DEF Solves
<1>4. Good = Data
  <2>1. SUFFICES ASSUME Data \ Good # {} PROVE FALSE
    OBVIOUS
  <2>2. PICK v \in Data \ Good : Elements(v) \cap (Data \ Good) = {}
    <3> HIDE DEF Good
    <3>1. QED
      BY <2>1, Innermost
  <2> DEFINE D == Good \cup {v}
             g == [w \in D |-> IF w = v THEN LeavesOf(v, F) ELSE F[w]]
  <2>3. Good \subseteq Data
    OBVIOUS
  <2> HIDE DEF Good, F
  <2>4. Elements(v) \subseteq Good /\ D \in SUBSET Data /\ v \notin Good
    BY <2>2, <2>3, ElementsTyped
  <2>5. \A w \in D : Elements(w) \subseteq Good
    BY <1>2, <2>4 DEF Closed
  <2>6. \A w \in Good : g[w] = F[w]
    BY <2>4
  <2>7. ASSUME NEW w \in D PROVE g[w] = LeavesOf(w, g)
    <3>1. g[w] = LeavesOf(w, F)
      <4>1. CASE w = v
        BY <4>1
      <4>2. CASE w # v
        <5>1. w \in Good
          BY <4>2
        <5>2. QED
          BY <1>3, <2>6, <5>1 DEF Solves
      <4>3. QED
        BY <4>1, <4>2
    <3>2. \A u \in Elements(w) : F[u] = g[u]
      BY <2>5, <2>6
    <3>3. w \in Data
      BY <2>4
    <3> HIDE DEF g, D
    <3>4. QED
      BY <3>1, <3>2, <3>3, LeavesLocal
  <2>8. g = [w \in D |-> g[w]]
    OBVIOUS
  <2> HIDE DEF g
  <2>9. Solves(g, D)
    BY <2>7, <2>8 DEF Solves
  <2>10. Partial(D, g)
    BY <2>4, <2>5, <2>9 DEF Closed
  <2>11. v \in Good
    BY <1>1, <2>10
  <2>12. QED
    BY <2>4, <2>11
<1>5. QED
  BY <1>3, <1>4

(* collect gives leaves, which are values.                                 *)
LEMMA LeavesTyped == \A v \in Data : Leaves[v] \in Seq(Data)
<1>1. Solves(Leaves, Data)
  <2>1. Leaves = CHOOSE f : Solves(f, Data)
    BY DEF Leaves, Solves, LeavesOf
  <2>2. QED
    BY <2>1, SolutionExists
<1> DEFINE Odd == {v \in Data : Leaves[v] \notin Seq(Data)}
<1>2. SUFFICES ASSUME Odd # {} PROVE FALSE
  OBVIOUS
<1>3. PICK v \in Odd : Elements(v) \cap Odd = {}
  <2>1. Odd \in SUBSET Data
    OBVIOUS
  <2> HIDE DEF Odd
  <2>2. QED
    BY <1>2, <2>1, Innermost
<1>4. Leaves[v] = LeavesOf(v, Leaves) /\ v \in Data
  BY <1>1, <1>3 DEF Solves
<1>5. \A w \in Elements(v) : Leaves[w] \in Seq(Data)
  BY <1>3, <1>4, ElementsTyped
<1>6. CASE v[1] = "list"
  <2> DEFINE parts == [k \in DOMAIN v[2] |-> Leaves[v[2][k]]]
  <2>1. parts \in Seq(Seq(Data))
    BY <1>4, <1>5, <1>6, ElementsTyped
  <2>2. Leaves[v] = FlattenSeq(parts)
    BY <1>4, <1>6 DEF LeavesOf
  <2> HIDE DEF parts
  <2>3. QED
    BY <1>3, <2>1, <2>2, Flattened
<1>7. CASE v[1] # "list"
  <2>1. Leaves[v] = <<>> \/ Leaves[v] = <<v>>
    BY <1>4, <1>7 DEF LeavesOf
  <2>2. <<>> \in Seq(Data) /\ <<v>> \in Seq(Data)
    BY <1>4
  <2>3. Leaves[v] \notin Seq(Data)
    BY <1>3
  <2>4. QED
    BY <2>1, <2>2, <2>3
<1>8. QED
  BY <1>6, <1>7

LEMMA CollectTyped ==
    ASSUME NEW over \in Seq(Data)
    PROVE  Collect(over) \in Seq(Data)
<1> DEFINE parts == [k \in DOMAIN over |-> Leaves[over[k]]]
<1>1. \A k \in 1..Len(over) : over[k] \in Data
  OBVIOUS
<1>2. parts \in Seq(Seq(Data))
  <2>1. \A k \in 1..Len(over) : Leaves[over[k]] \in Seq(Data)
    BY <1>1, LeavesTyped
  <2>2. parts = [k \in 1..Len(over) |-> Leaves[over[k]]] /\ Len(over) \in Nat
    OBVIOUS
  <2> HIDE DEF parts
  <2>3. QED
    BY <2>1, <2>2
<1> HIDE DEF parts
<1>3. FlattenSeq(parts) \in Seq(Data)
  BY <1>2, Flattened
<1>4. QED
  BY <1>3 DEF Collect, parts

(* The numbers are leaves or fields of leaves, at most one of each leaf.   *)
LEMMA NumbersTyped ==
    ASSUME NEW leaves \in Seq(Data), NEW field, ~FieldMissing(leaves, field)
    PROVE  /\ Numbers(leaves, field) \in Seq({v \in Data : IsFloat(v)})
           /\ Len(Numbers(leaves, field)) <= Len(leaves)
<1> DEFINE number(v) == IF IsFloat(Inner(v, field)) THEN <<Inner(v, field)>> ELSE <<>>
           parts == [k \in DOMAIN leaves |-> number(leaves[k])]
           InnerFloats == {v \in Data : IsFloat(v)}
<1>1. ASSUME NEW k \in 1..Len(leaves)
      PROVE  number(leaves[k]) \in Seq(InnerFloats) /\ Len(number(leaves[k])) <= 1
  <2>1. PICK v \in Data : v = leaves[k]
    OBVIOUS
  <2>2. v[1] = "map" /\ field # NoField => v[2][field] \in Data
    BY <2>1, DataAssumption DEF FieldMissing, ToSet
  <2>3. Inner(v, field) \in Data \/ Inner(v, field) = <<"nil">>
    BY <2>2 DEF Inner
  <2>4. IsFloat(Inner(v, field)) => Inner(v, field) \in InnerFloats
    BY <2>3 DEF IsFloat
  <2> HIDE DEF InnerFloats
  <2>5. QED
    BY <2>1, <2>4
<1>2. /\ Len(leaves) \in Nat /\ DOMAIN leaves = 1..Len(leaves)
      /\ parts = [k \in 1..Len(leaves) |-> number(leaves[k])]
  OBVIOUS
<1> HIDE DEF number, InnerFloats
<1>3. parts \in Seq(Seq(InnerFloats)) /\ Len(parts) = Len(leaves)
  BY <1>1, <1>2
<1>4. \A k \in DOMAIN parts : Len(parts[k]) <= 1
  BY <1>1, <1>2
<1>5. Numbers(leaves, field) = FlattenSeq(parts)
  BY DEF Numbers, number
<1> HIDE DEF parts
<1>6. QED
  BY <1>3, <1>4, <1>5, Flattened DEF InnerFloats

(* One of finitely many numbers is the least, and one the greatest.        *)
LEMMA LeastOf ==
    ASSUME NEW n \in Nat \ {0}, NEW x \in [1..n -> Int]
    PROVE  \E j \in 1..n : \A i \in 1..n : x[j] <= x[i]
<1> DEFINE P == {0} \cup {m \in 1..n : \E j \in 1..m : \A i \in 1..m : x[j] <= x[i]}
<1>1. ASSUME NEW m \in 1..n, m - 1 \in P PROVE m \in P
  <2>1. CASE m = 1
    BY <2>1
  <2>2. CASE m # 1
    <3>1. PICK j \in 1..(m - 1) : \A i \in 1..(m - 1) : x[j] <= x[i]
      BY <1>1, <2>2
    <3>2. x[j] \in Int /\ x[m] \in Int /\ j \in 1..m /\ m \in 1..m /\ \A i \in 1..m : i = m \/ i \in 1..(m - 1)
      OBVIOUS
    <3>3. \A i \in 1..m : x[i] \in Int
      OBVIOUS
    <3>4. CASE x[j] <= x[m]
      <4>1. \A i \in 1..m : x[j] <= x[i]
        BY <3>1, <3>2, <3>4
      <4>2. QED
        BY <3>2, <4>1
    <3>5. CASE x[m] < x[j]
      <4>1. \A i \in 1..m : x[m] <= x[i]
        BY <3>1, <3>2, <3>3, <3>5
      <4>2. QED
        BY <3>2, <4>1
    <3>6. QED
      BY <3>2, <3>4, <3>5
  <2>3. QED
    BY <2>1, <2>2
<1>2. n \in P
  <2> HIDE DEF P
  <2>1. 0 \in P
    BY DEF P
  <2>2. \A k \in 0..n : k \in P
    BY <1>1, <2>1, Upward
  <2>3. QED
    BY <2>2
<1>3. QED
  BY <1>2

LEMMA GreatestOf ==
    ASSUME NEW n \in Nat \ {0}, NEW x \in [1..n -> Int]
    PROVE  \E j \in 1..n : \A i \in 1..n : x[i] <= x[j]
<1>1. PICK y \in [1..n -> Int] : \A k \in 1..n : y[k] = -x[k]
  <2> DEFINE z == [k \in 1..n |-> -x[k]]
  <2>1. z \in [1..n -> Int] /\ \A k \in 1..n : z[k] = -x[k]
    OBVIOUS
  <2> HIDE DEF z
  <2>2. QED
    BY <2>1
<1>2. PICK j \in 1..n : \A i \in 1..n : y[j] <= y[i]
  BY LeastOf
<1>3. \A i \in 1..n : x[i] <= x[j]
  BY <1>1, <1>2
<1>4. QED
  BY <1>3

(* The finite floats.                                                      *)
Finite(nums) == nums \in Seq(Data) /\ \A k \in DOMAIN nums : IsFinite(nums[k])

LEMMA FiniteNumbers ==
    ASSUME NEW nums, Finite(nums)
    PROVE  /\ Len(nums) \in Nat /\ DOMAIN nums = 1..Len(nums)
           /\ \A k \in 1..Len(nums) : /\ nums[k] \in Data /\ nums[k][1] = "num"
                                      /\ nums[k][2] \in Floats /\ nums[k][2] \in Int
                                      /\ nums[k] = <<"num", nums[k][2]>>
           /\ [k \in 1..Len(nums) |-> nums[k][2]] \in [1..Len(nums) -> Int]
           /\ ToSet(nums) = {nums[k] : k \in 1..Len(nums)}
<1>1. /\ Len(nums) \in Nat /\ DOMAIN nums = 1..Len(nums)
      /\ \A k \in 1..Len(nums) : nums[k] \in Data
  BY DEF Finite
<1>2. \A k \in 1..Len(nums) : nums[k][1] = "num" /\ nums[k] \in {"num"} \X Floats
  BY <1>1, DataAssumption DEF Finite, IsFinite
<1>3. \A k \in 1..Len(nums) : nums[k][2] \in Floats /\ nums[k] = <<"num", nums[k][2]>>
  BY <1>2
<1>4. Floats \subseteq Int
  BY FloatsAssumption
<1>5. QED
  BY <1>1, <1>2, <1>3, <1>4 DEF ToSet

(* A multiple keeps the order.                                             *)
LEMMA Scales ==
    ASSUME NEW k \in Nat \ {0}, NEW y \in Int, NEW z \in Int, y < z
    PROVE  k * y < k * z
<1>1. PICK d \in Nat : z = y + 1 + d
  <2>1. z - y - 1 \in Nat /\ z = y + 1 + (z - y - 1)
    OBVIOUS
  <2>2. QED
    BY <2>1
<1>2. k * z = k * y + k + k * d
  BY <1>1
<1>3. k * y \in Int /\ k * d \in Nat
  OBVIOUS
<1>4. QED
  BY <1>2, <1>3

(* There is a nearest float, the float itself if it is one, and no float   *)
(* comes between it and the number that is rounded.                        *)
LEMMA NearestIs ==
    ASSUME NEW x \in Int, NEW k \in Nat \ {0}
    PROVE  /\ Nearest(x, k) \in Floats
           /\ \A z \in Floats : Distance(x, k * Nearest(x, k)) <= Distance(x, k * z)
<1> DEFINE T == {Distance(x, k * z) : z \in Floats}
<1>1. T \in SUBSET Nat /\ T # {}
  <2>1. ASSUME NEW z \in Floats PROVE Distance(x, k * z) \in Nat
    <3>1. PICK m \in Int : m = k * z
      BY FloatsAssumption
    <3>2. Distance(x, m) \in Nat
      BY DEF Distance
    <3>3. QED
      BY <3>1, <3>2
  <2>2. QED
    BY <2>1, FloatsAssumption
<1>2. PICK n \in T : \A m \in T : n <= m
  <2> HIDE DEF T
  <2>1. QED
    BY <1>1, LeastNumber
<1>3. PICK y \in Floats : n = Distance(x, k * y)
  OBVIOUS
<1>4. \A z \in Floats : Distance(x, k * y) <= Distance(x, k * z)
  BY <1>2, <1>3
<1>5. QED
  BY <1>4 DEF Nearest

LEMMA NearestKeeps ==
    ASSUME NEW x \in Int, NEW k \in Nat \ {0}, NEW z \in Floats
    PROVE  /\ k * z <= x => z <= Nearest(x, k)
           /\ x <= k * z => Nearest(x, k) <= z
<1>1. PICK y \in Floats : y = Nearest(x, k) /\ Distance(x, k * y) <= Distance(x, k * z)
  BY NearestIs
<1>2. y \in Int /\ z \in Int
  BY FloatsAssumption
<1>3. PICK p \in Int, q \in Int : p = k * y /\ q = k * z
  BY <1>2
<1>4. (y < z => p < q) /\ (z < y => q < p)
  BY <1>2, <1>3, Scales
<1>5. Distance(x, p) <= Distance(x, q)
  BY <1>1, <1>3
<1>6. (q <= x => z <= y) /\ (x <= q => y <= z)
  BY <1>2, <1>4, <1>5 DEF Distance
<1>7. QED
  BY <1>1, <1>3, <1>6

LEMMA NearestSelf ==
    ASSUME NEW x \in Floats
    PROVE  Nearest(x, 1) = x
<1>1. x \in Int /\ 1 * x = x /\ 1 \in Nat \ {0}
  BY FloatsAssumption
<1>2. Nearest(x, 1) \in Floats /\ x <= Nearest(x, 1) /\ Nearest(x, 1) <= x
  BY <1>1, NearestIs, NearestKeeps
<1>3. Nearest(x, 1) \in Int
  BY <1>2, FloatsAssumption
<1>4. QED
  BY <1>1, <1>2, <1>3

(* The sums of finite numbers.                                             *)
Sums == {Inf(1), Inf(-1)} \cup {<<"num", f>> : f \in Floats}

LEMMA SumForms ==
    /\ Zero \in Sums
    /\ \A a \in Sums : /\ a # NaN
                       /\ \/ a[1] = "num" /\ a[2] \in Floats /\ a[2] \in Int /\ a = <<"num", a[2]>>
                          \/ a[1] = "inf" /\ a[2] \in {1, -1} /\ a = Inf(a[2])
BY FloatsAssumption DEF Sums, Zero, NaN, Inf

LEMMA NotLessTransitive ==
    ASSUME NEW a \in Sums, NEW b \in Sums, NEW c \in Sums, ~Less(a, b), ~Less(b, c)
    PROVE  ~Less(a, c)
<1>1. /\ (a[1] = "num" /\ a[2] \in Int) \/ (a[1] = "inf" /\ a[2] \in {1, -1})
      /\ (b[1] = "num" /\ b[2] \in Int) \/ (b[1] = "inf" /\ b[2] \in {1, -1})
      /\ (c[1] = "num" /\ c[2] \in Int) \/ (c[1] = "inf" /\ c[2] \in {1, -1})
  BY SumForms
<1>2. QED
  BY <1>1 DEF Less

(* One addition: what is added, if it is not negative, does not lessen the *)
(* sum, however it is rounded, and a sum that is not negative becomes no   *)
(* less than what is added; and the other way round.                       *)
LEMMA AddNumber ==
    ASSUME NEW a \in Sums, NEW f \in Floats
    PROVE  LET b == <<"num", f>>
               s == Add(a, b)
           IN  /\ b \in Sums /\ s \in Sums
               /\ f >= 0 => ~Less(s, a)
               /\ ~Less(a, Zero) => ~Less(s, b)
               /\ f <= 0 => ~Less(a, s)
               /\ ~Less(Zero, a) => ~Less(b, s)
<1> DEFINE b == <<"num", f>>
           s == Add(a, b)
<1>1. f \in Int /\ b \in Sums /\ IsFinite(b) /\ b[2] = f /\ b[1] = "num"
  BY FloatsAssumption DEF Sums, IsFinite
<1>2. CASE a[1] = "inf" /\ a[2] \in {1, -1}
  <2>1. ~IsFinite(a)
    BY <1>2 DEF IsFinite
  <2>2. s = a
    BY <1>1, <2>1 DEF Add
  <2>3. /\ ~Less(a, a)
        /\ ~Less(a, Zero) => ~Less(a, b)
        /\ ~Less(Zero, a) => ~Less(b, a)
    BY <1>1, <1>2 DEF Less, Zero
  <2>4. QED
    BY <1>1, <2>2, <2>3
<1>3. CASE a[1] = "num" /\ a[2] \in Floats /\ a[2] \in Int
  <2>1. PICK x \in Int : x = a[2] + f
    BY <1>1, <1>3
  <2>2. s = Round(x)
    BY <1>1, <1>3, <2>1 DEF Add, IsFinite
  <2>3. Huge \in Int /\ 0 < Huge /\ 1 \in Nat \ {0}
    BY FloatsAssumption
  <2>4. CASE x >= Huge
    <3>1. s = Inf(1)
      BY <2>2, <2>3, <2>4 DEF Round
    <3>2. Inf(1) \in Sums /\ Inf(1)[1] = "inf" /\ Inf(1)[2] = 1
      BY DEF Sums, Inf
    <3>3. ~Less(s, a) /\ ~Less(s, b)
      BY <1>1, <1>3, <3>1, <3>2 DEF Less
    <3>4. ~(f <= 0) /\ ~(a[2] <= 0)
      <4>1. a[2] < Huge /\ f < Huge
        BY <1>3, FloatsAssumption
      <4>2. QED
        BY <1>1, <1>3, <2>1, <2>3, <2>4, <4>1
    <3>5. Less(Zero, a)
      BY <1>3, <3>4 DEF Less, Zero
    <3>6. QED
      BY <1>1, <3>1, <3>2, <3>3, <3>4, <3>5
  <2>5. CASE x <= -Huge
    <3>1. s = Inf(-1)
      BY <2>2, <2>3, <2>5 DEF Round
    <3>2. Inf(-1) \in Sums /\ Inf(-1)[1] = "inf" /\ Inf(-1)[2] = -1
      BY DEF Sums, Inf
    <3>3. ~Less(a, s) /\ ~Less(b, s)
      BY <1>1, <1>3, <3>1, <3>2 DEF Less
    <3>4. ~(f >= 0) /\ ~(a[2] >= 0)
      <4>1. -Huge < a[2] /\ -Huge < f
        BY <1>3, FloatsAssumption
      <4>2. QED
        BY <1>1, <1>3, <2>1, <2>3, <2>5, <4>1
    <3>5. Less(a, Zero)
      BY <1>3, <3>4 DEF Less, Zero
    <3>6. QED
      BY <1>1, <3>1, <3>2, <3>3, <3>4, <3>5
  <2>6. CASE ~(x >= Huge) /\ ~(x <= -Huge)
    <3>1. PICK y \in Floats : y = Nearest(x, 1) /\ y \in Int
      BY <2>3, NearestIs, FloatsAssumption
    <3>2. s = <<"num", y>>
      BY <2>2, <2>6, <3>1 DEF Round
    <3>3. s \in Sums /\ s[1] = "num" /\ s[2] = y
      BY <3>2 DEF Sums
    <3>4. \A z \in Floats : (z <= x => z <= y) /\ (x <= z => y <= z)
      <4>1. SUFFICES ASSUME NEW z \in Floats PROVE (z <= x => z <= y) /\ (x <= z => y <= z)
        OBVIOUS
      <4>2. z \in Int /\ 1 * z = z
        BY FloatsAssumption
      <4>3. QED
        BY <3>1, <4>2, NearestKeeps
    <3>5. /\ f >= 0 => a[2] <= y
          /\ a[2] >= 0 => f <= y
          /\ f <= 0 => y <= a[2]
          /\ a[2] <= 0 => y <= f
      BY <1>1, <1>3, <2>1, <3>4
    <3>6. /\ f >= 0 => ~Less(s, a)
          /\ a[2] >= 0 => ~Less(s, b)
          /\ f <= 0 => ~Less(a, s)
          /\ a[2] <= 0 => ~Less(b, s)
      BY <1>1, <1>3, <3>1, <3>3, <3>5 DEF Less
    <3>7. (~Less(a, Zero) => a[2] >= 0) /\ (~Less(Zero, a) => a[2] <= 0)
      BY <1>3 DEF Less, Zero
    <3>8. QED
      BY <1>1, <3>3, <3>6, <3>7
  <2>7. QED
    BY <2>4, <2>5, <2>6
<1>4. QED
  BY <1>2, <1>3, SumForms

(* One division by how many numbers there are.                             *)
LEMMA DivideNumber ==
    ASSUME NEW a \in Sums, NEW k \in Nat \ {0}
    PROVE  /\ Divide(a, k) \in Sums
           /\ ~Less(a, Zero) => ~Less(Divide(a, k), Zero)
           /\ ~Less(Zero, a) => ~Less(Zero, Divide(a, k))
           /\ k = 1 => Divide(a, k) = a
<1>1. CASE a[1] = "inf" /\ a[2] \in {1, -1}
  <2>1. Divide(a, k) = a
    BY <1>1 DEF Divide, IsFinite
  <2>2. QED
    BY <2>1
<1>2. CASE a[1] = "num" /\ a[2] \in Floats /\ a[2] \in Int /\ a = <<"num", a[2]>>
  <2>1. PICK y \in Floats : y = Nearest(a[2], k) /\ y \in Int
    BY <1>2, NearestIs, FloatsAssumption
  <2>2. Divide(a, k) = <<"num", y>>
    BY <1>2, <2>1 DEF Divide, IsFinite
  <2>3. 0 \in Floats /\ k * 0 = 0
    BY FloatsAssumption
  <2>4. (0 <= a[2] => 0 <= y) /\ (a[2] <= 0 => y <= 0)
    BY <1>2, <2>1, <2>3, NearestKeeps
  <2>5. (~Less(a, Zero) => 0 <= a[2]) /\ (~Less(Zero, a) => a[2] <= 0)
    BY <1>2 DEF Less, Zero
  <2>6. k = 1 => y = a[2]
    BY <1>2, <2>1, NearestSelf
  <2>7. Divide(a, k)[1] = "num" /\ Divide(a, k)[2] = y /\ Divide(a, k) \in Sums
    BY <2>2 DEF Sums
  <2>8. (0 <= y => ~Less(Divide(a, k), Zero)) /\ (y <= 0 => ~Less(Zero, Divide(a, k)))
    BY <2>1, <2>7 DEF Less, Zero
  <2>9. QED
    BY <1>2, <2>2, <2>4, <2>5, <2>6, <2>7, <2>8
<1>3. QED
  BY <1>1, <1>2, SumForms

LEMMA FiniteMinimum ==
    ASSUME NEW nums, Finite(nums), nums # <<>>
    PROVE  /\ \E k \in DOMAIN nums : Minimum(nums) = nums[k]
           /\ \A k \in DOMAIN nums : ~Less(nums[k], Minimum(nums))
<1> DEFINE n == Len(nums)
           x == [k \in 1..n |-> nums[k][2]]
           Least(m) == m \in (ToSet(nums) \cup {Inf(1)}) \ {NaN} /\ \A y \in ToSet(nums) : ~Less(y, m)
<1>1. /\ n \in Nat \ {0} /\ DOMAIN nums = 1..n /\ x \in [1..n -> Int]
      /\ ToSet(nums) = {nums[k] : k \in 1..n}
  BY FiniteNumbers DEF Finite
<1>2. \A k \in 1..n : nums[k][1] = "num" /\ nums[k][2] \in Int /\ nums[k] # NaN /\ x[k] = nums[k][2]
  BY FiniteNumbers DEF NaN
<1>3. \E m : Least(m)
  <2>1. PICK j \in 1..n : \A i \in 1..n : x[j] <= x[i]
    <3> HIDE DEF x, n
    <3>1. QED
      BY <1>1, LeastOf
  <2>2. ASSUME NEW y \in ToSet(nums) PROVE ~Less(y, nums[j])
    <3>1. PICK i \in 1..n : y = nums[i]
      BY <1>1
    <3>2. x[j] <= x[i]
      BY <2>1
    <3> HIDE DEF x, n
    <3>3. QED
      BY <1>2, <3>1, <3>2 DEF Less
  <2>3. nums[j] \in (ToSet(nums) \cup {Inf(1)}) \ {NaN}
    BY <1>1, <1>2
  <2>4. QED
    BY <2>2, <2>3
<1>4. Minimum(nums) = CHOOSE m : Least(m)
  BY DEF Minimum
<1>5. PICK m : m = Minimum(nums) /\ Least(m)
  <2> HIDE DEF Least
  <2>1. QED
    BY <1>3, <1>4
<1>6. m # Inf(1)
  <2>1. SUFFICES ASSUME m = Inf(1) PROVE FALSE
    OBVIOUS
  <2>2. nums[1] \in ToSet(nums) /\ nums[1][1] = "num"
    BY <1>1, <1>2
  <2>3. Less(nums[1], m)
    BY <2>1, <2>2 DEF Less, Inf
  <2>4. QED
    BY <1>5, <2>2, <2>3
<1>7. PICK j \in 1..n : m = nums[j]
  BY <1>1, <1>5, <1>6
<1>8. \A k \in 1..n : ~Less(nums[k], m)
  BY <1>1, <1>5
<1>9. QED
  BY <1>1, <1>5, <1>7, <1>8

LEMMA FiniteMaximum ==
    ASSUME NEW nums, Finite(nums), nums # <<>>
    PROVE  /\ \E k \in DOMAIN nums : Maximum(nums) = nums[k]
           /\ \A k \in DOMAIN nums : ~Less(Maximum(nums), nums[k])
<1> DEFINE n == Len(nums)
           x == [k \in 1..n |-> nums[k][2]]
           Greatest(m) == m \in (ToSet(nums) \cup {Inf(-1)}) \ {NaN} /\ \A y \in ToSet(nums) : ~Less(m, y)
<1>1. /\ n \in Nat \ {0} /\ DOMAIN nums = 1..n /\ x \in [1..n -> Int]
      /\ ToSet(nums) = {nums[k] : k \in 1..n}
  BY FiniteNumbers DEF Finite
<1>2. \A k \in 1..n : nums[k][1] = "num" /\ nums[k][2] \in Int /\ nums[k] # NaN /\ x[k] = nums[k][2]
  BY FiniteNumbers DEF NaN
<1>3. \E m : Greatest(m)
  <2>1. PICK j \in 1..n : \A i \in 1..n : x[i] <= x[j]
    <3> HIDE DEF x, n
    <3>1. QED
      BY <1>1, GreatestOf
  <2>2. ASSUME NEW y \in ToSet(nums) PROVE ~Less(nums[j], y)
    <3>1. PICK i \in 1..n : y = nums[i]
      BY <1>1
    <3>2. x[i] <= x[j]
      BY <2>1
    <3> HIDE DEF x, n
    <3>3. QED
      BY <1>2, <3>1, <3>2 DEF Less
  <2>3. nums[j] \in (ToSet(nums) \cup {Inf(-1)}) \ {NaN}
    BY <1>1, <1>2
  <2>4. QED
    BY <2>2, <2>3
<1>4. Maximum(nums) = CHOOSE m : Greatest(m)
  BY DEF Maximum
<1>5. PICK m : m = Maximum(nums) /\ Greatest(m)
  <2> HIDE DEF Greatest
  <2>1. QED
    BY <1>3, <1>4
<1>6. m # Inf(-1)
  <2>1. SUFFICES ASSUME m = Inf(-1) PROVE FALSE
    OBVIOUS
  <2>2. nums[1] \in ToSet(nums) /\ nums[1][1] = "num"
    BY <1>1, <1>2
  <2>3. Less(m, nums[1])
    BY <2>1, <2>2 DEF Less, Inf
  <2>4. QED
    BY <1>5, <2>2, <2>3
<1>7. PICK j \in 1..n : m = nums[j]
  BY <1>1, <1>5, <1>6
<1>8. \A k \in 1..n : ~Less(m, nums[k])
  BY <1>1, <1>5
<1>9. QED
  BY <1>1, <1>5, <1>7, <1>8

(* A sum of finite numbers is what one addition after the other makes.     *)
Adds(total, nums) ==
    total = [k \in 0..Len(nums) |-> IF k = 0 THEN Zero ELSE Add(total[k - 1], nums[k])]

LEMMA SumExists ==
    ASSUME NEW nums, Finite(nums)
    PROVE  \E total : /\ SumOf(nums) = total[Len(nums)]
                      /\ total[0] = Zero
                      /\ \A k \in 1..Len(nums) : total[k] = Add(total[k - 1], nums[k])
<1> DEFINE n == Len(nums)
           next == [p \in (1..n) \X Sums |-> Add(p[2], nums[p[1]])]
<1>1. n \in Nat /\ \A k \in 1..n : nums[k][2] \in Floats /\ nums[k] = <<"num", nums[k][2]>>
  BY FiniteNumbers
<1>2. next \in [(1..n) \X Sums -> Sums]
  <2>1. ASSUME NEW k \in 1..n, NEW a \in Sums PROVE Add(a, nums[k]) \in Sums
    BY <1>1, AddNumber
  <2>2. QED
    BY <2>1
<1>3. PICK f \in [0..n -> Sums] : Recursive(f, n, Zero, next)
  <2> HIDE DEF next, n
  <2>1. QED
    BY <1>1, <1>2, SumForms, Recursion
<1>4. f = [k \in 0..n |-> IF k = 0 THEN Zero ELSE next[<<k, f[k - 1]>>]]
  BY <1>3 DEF Recursive
<1>5. ASSUME NEW k \in 0..n PROVE f[k] = IF k = 0 THEN Zero ELSE Add(f[k - 1], nums[k])
  <2>1. CASE k = 0
    BY <1>4, <2>1
  <2>2. CASE k # 0
    <3>1. k \in 1..n /\ f[k - 1] \in Sums
      BY <1>1, <2>2
    <3>2. f[k] = next[<<k, f[k - 1]>>]
      BY <1>4, <2>2, Zenon
    <3>3. next[<<k, f[k - 1]>>] = Add(f[k - 1], nums[k])
      BY <3>1
    <3> HIDE DEF next
    <3>4. QED
      BY <2>2, <3>2, <3>3
  <2>3. QED
    BY <2>1, <2>2
<1> HIDE DEF next
<1>6. Adds(f, nums)
  BY <1>5 DEF Adds
<1>7. PICK total : total = (CHOOSE g : Adds(g, nums)) /\ Adds(total, nums)
  BY <1>6
<1>8. SumOf(nums) = total[Len(nums)]
  BY <1>7 DEF SumOf, Adds
<1>9. total[0] = Zero /\ \A k \in 1..n : total[k] = Add(total[k - 1], nums[k])
  BY <1>1, <1>7 DEF Adds
<1>10. QED
  BY <1>8, <1>9

(* It is a finite number or an infinity, beyond each of the numbers if     *)
(* they are all on one side of zero, and the number itself if there is one.*)
LEMMA FiniteSum ==
    ASSUME NEW nums, Finite(nums)
    PROVE  /\ SumOf(nums) \in Sums
           /\ (\A k \in DOMAIN nums : nums[k][2] >= 0) =>
                ~Less(SumOf(nums), Zero) /\ \A k \in DOMAIN nums : ~Less(SumOf(nums), nums[k])
           /\ (\A k \in DOMAIN nums : nums[k][2] <= 0) =>
                ~Less(Zero, SumOf(nums)) /\ \A k \in DOMAIN nums : ~Less(nums[k], SumOf(nums))
           /\ Len(nums) = 1 => SumOf(nums) = nums[1]
<1> DEFINE n == Len(nums)
           positive == \A k \in 1..n : nums[k][2] >= 0
           negative == \A k \in 1..n : nums[k][2] <= 0
<1>1. /\ n \in Nat /\ DOMAIN nums = 1..n
      /\ \A k \in 1..n : nums[k][2] \in Floats /\ nums[k] = <<"num", nums[k][2]>> /\ nums[k] \in Sums
  BY FiniteNumbers DEF Sums
<1>2. PICK total : /\ SumOf(nums) = total[n] /\ total[0] = Zero
                   /\ \A k \in 1..n : total[k] = Add(total[k - 1], nums[k])
  BY SumExists
<1> DEFINE Up(k) == positive => ~Less(total[k], Zero) /\ \A i \in 1..k : ~Less(total[k], nums[i])
           Down(k) == negative => ~Less(Zero, total[k]) /\ \A i \in 1..k : ~Less(nums[i], total[k])
           P == {k \in 0..n : total[k] \in Sums /\ Up(k) /\ Down(k)}
<1> HIDE DEF n
<1>3. 0 \in P
  <2>1. total[0] \in Sums /\ ~Less(total[0], Zero) /\ ~Less(Zero, total[0])
    BY <1>2, SumForms DEF Less, Zero
  <2>2. QED
    BY <1>1, <2>1
<1>4. ASSUME NEW k \in 1..n, k - 1 \in P PROVE k \in P
  <2>0. /\ total[k - 1] \in Sums /\ nums[k][2] \in Floats /\ nums[k] \in Sums
        /\ nums[k] = <<"num", nums[k][2]>> /\ total[k] = Add(total[k - 1], nums[k])
    BY <1>1, <1>2, <1>4
  <2>1. PICK a \in Sums, f \in Floats, b \in Sums, s \in Sums :
          /\ a = total[k - 1] /\ f = nums[k][2] /\ b = nums[k] /\ s = total[k]
          /\ b = <<"num", f>> /\ s = Add(a, b)
    <3>1. PICK f : f = nums[k][2]
      OBVIOUS
    <3>2. f \in Floats /\ nums[k] = <<"num", f>>
      BY <2>0, <3>1
    <3>3. total[k] \in Sums
      BY <2>0, <3>2, AddNumber
    <3>4. QED
      BY <2>0, <3>1, <3>2, <3>3
  <2>2. /\ f >= 0 => ~Less(s, a)
        /\ ~Less(a, Zero) => ~Less(s, b)
        /\ f <= 0 => ~Less(a, s)
        /\ ~Less(Zero, a) => ~Less(b, s)
    BY <2>1, AddNumber
  <2>3. k \in Nat \ {0} /\ k <= n /\ \A i \in 1..k : i = k \/ i \in 1..(k - 1)
    BY <1>1
  <2>4. Up(k - 1) /\ Down(k - 1)
    BY <1>4
  <2>5. Zero \in Sums /\ \A i \in 1..k : nums[i] \in Sums
    BY <1>1, <2>3, SumForms
  <2>6. Up(k)
    <3>1. SUFFICES ASSUME positive PROVE ~Less(s, Zero) /\ \A i \in 1..k : ~Less(s, nums[i])
      BY <2>1
    <3>2. /\ ~Less(a, Zero) /\ ~Less(s, a) /\ ~Less(s, b)
          /\ \A i \in 1..(k - 1) : ~Less(a, nums[i])
      BY <2>1, <2>2, <2>4, <3>1
    <3>3. ~Less(s, Zero)
      BY <2>5, <3>2, NotLessTransitive
    <3>4. ASSUME NEW i \in 1..k PROVE ~Less(s, nums[i])
      BY <2>1, <2>3, <2>5, <3>2, NotLessTransitive
    <3>5. QED
      BY <3>3, <3>4
  <2>7. Down(k)
    <3>1. SUFFICES ASSUME negative PROVE ~Less(Zero, s) /\ \A i \in 1..k : ~Less(nums[i], s)
      BY <2>1
    <3>2. /\ ~Less(Zero, a) /\ ~Less(a, s) /\ ~Less(b, s)
          /\ \A i \in 1..(k - 1) : ~Less(nums[i], a)
      BY <2>1, <2>2, <2>4, <3>1
    <3>3. ~Less(Zero, s)
      BY <2>5, <3>2, NotLessTransitive
    <3>4. ASSUME NEW i \in 1..k PROVE ~Less(nums[i], s)
      BY <2>1, <2>3, <2>5, <3>2, NotLessTransitive
    <3>5. QED
      BY <3>3, <3>4
  <2>8. k \in 0..n /\ total[k] \in Sums
    BY <1>1, <2>1
  <2> HIDE DEF Up, Down
  <2>9. QED
    BY <2>6, <2>7, <2>8
<1>5. n \in P
  <2> HIDE DEF P
  <2>1. \A k \in 0..n : k \in P
    BY <1>1, <1>3, <1>4, Upward
  <2>2. QED
    BY <1>1, <2>1
<1>6. n = 1 => total[1] = nums[1]
  <2>1. SUFFICES ASSUME n = 1 PROVE total[1] = nums[1]
    OBVIOUS
  <2>0. PICK f : f = nums[1][2]
    OBVIOUS
  <2>2. /\ f \in Floats /\ nums[1] = <<"num", f>>
        /\ f \in Int /\ -Huge < f /\ f < Huge /\ Huge \in Int
    <3>1. f \in Floats /\ nums[1] = <<"num", f>>
      BY <1>1, <2>0, <2>1
    <3>2. QED
      BY <3>1, FloatsAssumption
  <2>3. total[1] = Add(Zero, nums[1])
    BY <1>1, <1>2, <2>1
  <2>4. total[1] = Round(f)
    BY <2>2, <2>3 DEF Add, Zero, IsFinite
  <2>5. total[1] = <<"num", Nearest(f, 1)>>
    BY <2>2, <2>4 DEF Round
  <2>6. QED
    BY <2>2, <2>5, NearestSelf
<1>7. QED
  BY <1>1, <1>2, <1>5, <1>6 DEF n

(* What an aggregator makes of finite numbers is sound, whatever it looks  *)
(* up and whichever operation it has.                                      *)
LEMMA AggregateMakes ==
    ASSUME NEW s \in Steps, s.kind = "aggregator", Aggregate(s.op, s.over, s.field) # <<>>
    PROVE  Sound(s, Aggregate(s.op, s.over, s.field)[1])
<1> DEFINE leaves == Collect(s.over)
           nums == Numbers(leaves, s.field)
           v == Aggregate(s.op, s.over, s.field)[1]
           positive == \A k \in DOMAIN nums : nums[k][2] >= 0
           negative == \A k \in DOMAIN nums : nums[k][2] <= 0
<1>1. s.over \in Seq(Data)
  BY StepShape
<1>2. leaves \in Seq(Data) /\ Len(leaves) \in Nat
  BY <1>1, CollectTyped
<1>3. /\ ~FieldMissing(leaves, s.field) /\ ~EmptyInput(s.op, nums)
      /\ s.op \in {"count", "sum", "avg", "min", "max"}
      /\ v = Reduce(s.op, leaves, nums)
  BY DEF Aggregate
<1> HIDE DEF leaves, v
<1>4. nums \in Seq({x \in Data : IsFloat(x)}) /\ Len(nums) <= Len(leaves)
  BY <1>2, <1>3, NumbersTyped
<1> HIDE DEF nums
<1>5. SUFFICES ASSUME \A k \in DOMAIN nums : IsFinite(nums[k])
               PROVE  /\ s.op = "count" => v[2] >= Len(nums)
                      /\ s.op \in {"min", "max"} => \E k \in DOMAIN nums : v = nums[k]
                      /\ s.op = "min" => \A k \in DOMAIN nums : ~Less(nums[k], v)
                      /\ s.op = "max" => \A k \in DOMAIN nums : ~Less(v, nums[k])
                      /\ s.op \in {"sum", "avg"} => v # NaN /\ (Len(nums) = 1 => v = nums[1])
                      /\ s.op = "sum" => /\ positive => \A k \in DOMAIN nums : ~Less(v, nums[k])
                                         /\ negative => \A k \in DOMAIN nums : ~Less(nums[k], v)
                      /\ s.op = "avg" => /\ positive => ~Less(v, Zero)
                                         /\ negative => ~Less(Zero, v)
  BY DEF Sound, leaves, nums, v
<1>6. Finite(nums)
  BY <1>4, <1>5 DEF Finite
<1>7. CASE s.op = "count"
  <2>1. v = <<"int", Len(leaves)>>
    BY <1>3, <1>7 DEF Reduce
  <2>2. QED
    BY <1>2, <1>4, <1>7, <2>1
<1>8. /\ SumOf(nums) \in Sums /\ SumOf(nums) # NaN
      /\ positive => ~Less(SumOf(nums), Zero) /\ \A k \in DOMAIN nums : ~Less(SumOf(nums), nums[k])
      /\ negative => ~Less(Zero, SumOf(nums)) /\ \A k \in DOMAIN nums : ~Less(nums[k], SumOf(nums))
      /\ Len(nums) = 1 => SumOf(nums) = nums[1]
  <2>1. SumOf(nums) \in Sums
    BY <1>6, FiniteSum
  <2>2. SumOf(nums) # NaN
    BY <2>1, SumForms
  <2>3. QED
    BY <1>6, <2>1, <2>2, FiniteSum
<1>9. CASE s.op = "sum"
  <2>1. v = SumOf(nums)
    BY <1>3, <1>9 DEF Reduce
  <2> HIDE DEF positive, negative
  <2>2. QED
    BY <1>8, <1>9, <2>1
<1>10. CASE s.op = "avg"
  <2>1. v = Divide(SumOf(nums), Len(nums)) /\ nums # <<>>
    BY <1>3, <1>10 DEF Reduce, EmptyInput
  <2>2. Len(nums) \in Nat \ {0}
    BY <1>6, <2>1 DEF Finite
  <2> HIDE DEF positive, negative
  <2>3. /\ v \in Sums
        /\ ~Less(SumOf(nums), Zero) => ~Less(v, Zero)
        /\ ~Less(Zero, SumOf(nums)) => ~Less(Zero, v)
        /\ Len(nums) = 1 => v = SumOf(nums)
    BY <1>8, <2>1, <2>2, DivideNumber
  <2>4. v # NaN
    BY <2>3, SumForms
  <2>5. QED
    BY <1>8, <1>10, <2>3, <2>4
<1>11. CASE s.op = "min"
  <2>1. v = Minimum(nums) /\ nums # <<>>
    BY <1>3, <1>11 DEF Reduce, EmptyInput
  <2>2. QED
    BY <1>6, <1>11, <2>1, FiniteMinimum
<1>12. CASE s.op = "max"
  <2>1. v = Maximum(nums) /\ nums # <<>>
    BY <1>3, <1>12 DEF Reduce, EmptyInput
  <2>2. QED
    BY <1>6, <1>12, <2>1, FiniteMaximum
<1>13. QED
  BY <1>3, <1>7, <1>9, <1>10, <1>11, <1>12

(* Only a request waits for an answer.                                     *)
Asking == pc = "do" => step.kind = "http_get"

LEMMA NextAggregates == Asking /\ AggregateSound /\ [Next]_vars /\ Inv => Asking' /\ AggregateSound'
<1> SUFFICES ASSUME Asking, AggregateSound, [Next]_vars, Inv PROVE Asking' /\ AggregateSound'
  OBVIOUS
<1>1. CASE Aggregator
  <2> DEFINE x == Aggregate(step.op, step.over, step.field)
  <2>1. /\ step \in Steps /\ step.kind = "aggregator" /\ step' = step /\ pc' = "returned"
        /\ value' = x /\ (verdict' = "ok" => x # <<>>)
    BY <1>1 DEF Aggregator, Return, Inv, TypeOK
  <2>2. verdict' = "ok" => Sound(step, value'[1])
    BY <2>1, AggregateMakes
  <2>3. QED
    BY <2>1, <2>2 DEF Asking, AggregateSound
<1>2. CASE UNCHANGED <<step, verdict, value>> /\ (pc' = "do" => pc = "do")
  BY <1>2 DEF Asking, AggregateSound
<1>3. CASE Shell \/ Script \/ SysStat \/ HTTPGet
  <2>1. UNCHANGED step /\ step.kind # "aggregator" /\ (pc' = "do" => step.kind = "http_get")
    BY <1>3 DEF Shell, Script, SysStat, HTTPGet, NewRequest, Answer, RequestFails, Return, Asking
  <2>2. QED
    BY <2>1 DEF Asking, AggregateSound
<1>4. Aggregator \/ Shell \/ Script \/ SysStat \/ HTTPGet
        \/ (UNCHANGED <<step, verdict, value>> /\ (pc' = "do" => pc = "do"))
  <2>1. CASE Environment
    BY <2>1 DEF Environment, CtxDone, PrintLine, Fork, Release, ExitChild, Killed, cmdVars
  <2>2. CASE Command
    BY <2>2 DEF Command, Start, Reap, HearWatcher, StartTimer, Drained, GiveUp, Interrupt, Kill,
                TimerExpires, Copy, cmdVars
  <2>3. CASE Returned \/ UNCHANGED vars
    BY <2>3 DEF Returned, vars
  <2>4. QED
    BY <2>1, <2>2, <2>3 DEF Next, Execute
<1>5. QED
  BY <1>1, <1>2, <1>3, <1>4

------------------------------------------------------------------------------
(* The theorems.                                                           *)

(* Execute, Wait, the watcher, the timer and the process are where the     *)
(* types say, and a call has a verdict exactly if it has returned, for any *)
(* step and any output.                                                    *)
THEOREM TypeCorrect == Spec => []TypeOK
<1>1. Inv => TypeOK
  BY DEF Inv
<1>2. QED
  BY InitInv, NextInv, <1>1, PTL DEF Spec

(* A step counts as a success only if its process exited with status 0,    *)
(* and either was not interrupted and all that it printed was read, or is  *)
(* a shell step that printed something: whatever the order in which Wait   *)
(* hears of the end of the process, the cancellation and the output.       *)
THEOREM SuccessTrusted == Spec => []OkTrusted
<1>1. Inv => OkTrusted
  BY DEF Inv
<1>2. QED
  BY InitInv, NextInv, <1>1, PTL DEF Spec

(* An Execute that has returned has reaped its process, has no watching    *)
(* goroutine left and nothing to copy.                                     *)
THEOREM CleanReturn == Spec => []NothingLeftBehind
<1>1. Inv => NothingLeftBehind
  BY DEF Inv, Presence, Over, NothingLeftBehind
<1>2. QED
  BY InitInv, NextInv, <1>1, PTL DEF Spec

(* Whatever a command prints and however it is interrupted: the lines      *)
(* parser has no record of a line that was not printed, and of a run       *)
(* without an error it misses none; a pattern, whatever it matches, has no *)
(* more records than lines that are not empty; and a text of space is not  *)
(* JSON.                                                                   *)
THEOREM RecordsAreLines == Spec => []RecordsPrinted
<1>1. Records => RecordsPrinted
  BY DEF Records
<1>2. QED
  BY InitRecords, NextRecords, <1>1, PTL DEF Spec

(* Whatever an aggregator looks up, lists within lists and rows without    *)
(* numbers included, and whichever the floats are that sums are rounded to *)
(* and overflow from: the minimum and the maximum of finite numbers are    *)
(* among them and bound them; a sum and an average are not NaN and on      *)
(* their side of zero, a sum at least as far as each of them.              *)
THEOREM AggregatesAreSound == Spec => []AggregateSound
<1>1. Init => Asking /\ AggregateSound
  BY DEF Init, Asking, AggregateSound
<1>2. QED
  BY InitInv, NextInv, <1>1, NextAggregates, PTL DEF Spec
==============================================================================
