---------------------------- MODULE Engine_proofs ----------------------------
(***************************************************************************)
(* Proofs about module Engine for any tree of steps and any set of         *)
(* programs: a run stops at its first failure, no step reads the output of *)
(* a failed one, and the record tells what happened.                       *)
(***************************************************************************)
EXTENDS Engine, SequenceTheorems, TLAPS

------------------------------------------------------------------------------
(* A sequence without its last element.                                    *)
LEMMA AllButLast ==
    ASSUME NEW S, NEW s \in Seq(S), Len(s) >= 1
    PROVE  LET t == SubSeq(s, 1, Len(s) - 1)
           IN  t \in Seq(S) /\ Len(t) = Len(s) - 1 /\ \A i \in 1..Len(s) - 1 : t[i] = s[i]
<1> DEFINE n == Len(s) - 1
           t == SubSeq(s, 1, n)
<1>1. n \in Int /\ n >= 0 /\ \A i \in 1..n : s[i] \in S
  OBVIOUS
<1>2. /\ t \in Seq(S)
      /\ Len(t) = IF 1 <= n THEN n - 1 + 1 ELSE 0
      /\ \A i \in 1..n - 1 + 1 : t[i] = s[1 + i - 1]
  <2> HIDE DEF n
  <2> QED BY <1>1, SubSeqProperties
<1> HIDE DEF n, t
<1>3. Len(t) = n
  BY <1>1, <1>2
<1>4. \A i \in 1..n : t[i] = s[i]
  BY <1>1, <1>2
<1>5. QED
  BY <1>2, <1>3, <1>4 DEF n, t

USE EngineAssumption, ProgramsAssumption DEF EngineAssumption, ProgramsAssumption

------------------------------------------------------------------------------
(* Type correctness.                                                       *)

(* TypeOK alone does not say that a list whose conditional returns has the *)
(* conditional at its head, or that the outermost list is the pipeline's.  *)
Nested ==
    /\ Len(frames) >= 1
    /\ \A i \in 1..Len(frames) :
          /\ i = 1 <=> frames[i].owner = NoStep
          /\ i < Len(frames) => frames[i].todo # <<>>

TInv == TypeOK /\ Nested

LEMMA TopFrame ==
    ASSUME TInv
    PROVE  /\ Len(frames) \in Nat /\ Len(frames) >= 1
           /\ Frame \in Frames /\ Frame.todo \in Seq(Nodes) /\ Frame.owner \in Conds \cup {NoStep}
           /\ Frame.todo # <<>> => Step \in Nodes /\ Tail(Frame.todo) \in Seq(Nodes)
           /\ Frame.owner # NoStep => Len(frames) >= 2
<1>1. frames \in Seq(Frames) /\ Len(frames) \in Nat /\ Len(frames) >= 1
  BY DEF TInv, TypeOK, Nested
<1>2. Frame \in Frames
  BY <1>1 DEF Frame
<1>3. Frame.todo \in Seq(Nodes) /\ Frame.owner \in Conds \cup {NoStep}
  BY <1>2 DEF Frames
<1>4. Frame.todo # <<>> => Head(Frame.todo) \in Nodes /\ Tail(Frame.todo) \in Seq(Nodes)
  BY <1>3, HeadTailProperties
<1>5. Frame.owner # NoStep => Len(frames) >= 2
  BY <1>1 DEF TInv, Nested, Frame
<1>6. QED
  BY <1>1, <1>2, <1>3, <1>4, <1>5 DEF Step

LEMMA Outermost ==
    ASSUME TInv
    PROVE  Len(frames) = 1 <=> Frame.owner = NoStep
<1>1. Len(frames) \in 1..Len(frames)
  BY TopFrame
<1>2. Len(frames) = 1 <=> frames[Len(frames)].owner = NoStep
  BY <1>1 DEF TInv, Nested
<1>3. QED
  BY <1>2 DEF Frame

LEMMA LowerFrames ==
    ASSUME TInv
    PROVE  /\ Above \in Seq(Frames) /\ Len(Above) = Len(frames) - 1
           /\ \A i \in 1..Len(frames) - 1 : Above[i] = frames[i]
BY TopFrame, AllButLast DEF TInv, TypeOK, Above

(* Replacing the innermost list by what is left of it.                     *)
LEMMA AdvanceFrame ==
    ASSUME TInv, NEW f \in Frames, f.owner = Frame.owner
    PROVE  LET fs == Append(Above, f)
           IN  /\ fs \in Seq(Frames) /\ Len(fs) = Len(frames) /\ fs[Len(fs)] = f
               /\ \A i \in 1..Len(fs) : /\ i = 1 <=> fs[i].owner = NoStep
                                        /\ i < Len(fs) => fs[i].todo # <<>>
<1>1. /\ Append(Above, f) \in Seq(Frames)
      /\ Len(Append(Above, f)) = Len(frames)
      /\ Append(Above, f)[Len(frames)] = f
      /\ \A i \in 1..Len(frames) - 1 : Append(Above, f)[i] = frames[i]
  BY TopFrame, LowerFrames
<1>2. QED
  BY <1>1, TopFrame DEF TInv, Nested, Frame

(* Storing the output of a step.                                           *)
LEMMA StoreTyped ==
    ASSUME TInv, NEW n \in Nodes, NEW o \in Outputs
    PROVE  /\ prog \in Program /\ prog.id[n] \in IDs
           /\ [steps EXCEPT ![prog.id[n]] = o] \in [IDs -> Outputs \cup {NotRun}]
<1>1. prog \in Program /\ steps \in [IDs -> Outputs \cup {NotRun}]
  BY DEF TInv, TypeOK
<1>2. prog.id \in [Nodes -> IDs]
  BY <1>1 DEF Program
<1>3. QED
  BY <1>1, <1>2

(* Returning from a step.                                                  *)
LEMMA ReturnTyped ==
    ASSUME TInv, NEW n \in Nodes, NEW o \in Outputs, NEW obs \in BOOLEAN, Return(n, o, obs)
    PROVE  /\ pc' = "return" /\ out' = o /\ expired' \subseteq Nodes
           /\ seen' \in Seq([node : Nodes, ok : BOOLEAN])
<1>1. [node |-> n, ok |-> o.ok] \in [node : Nodes, ok : BOOLEAN]
  BY DEF Outputs
<1>2. seen \in Seq([node : Nodes, ok : BOOLEAN]) /\ expired \subseteq Nodes
  BY DEF TInv, TypeOK
<1>3. Append(seen, [node |-> n, ok |-> o.ok]) \in Seq([node : Nodes, ok : BOOLEAN])
  BY <1>1, <1>2, AppendProperties
<1>4. QED
  BY <1>2, <1>3 DEF Return

LEMMA OutputKinds ==
    ASSUME NEW d \in BOOLEAN
    PROVE  Ok(d) \in Outputs /\ Failed(d) \in Outputs /\ Ok(d).ok /\ ~Failed(d).ok
BY DEF Ok, Failed, Outputs

LEMMA TypeInit == Init => TInv
<1> SUFFICES ASSUME Init PROVE TInv
  OBVIOUS
<1>1. [todo |-> Top, owner |-> NoStep] \in Frames
  BY DEF Frames
<1>2. frames \in Seq(Frames) /\ Len(frames) = 1 /\ frames[1].owner = NoStep
  BY <1>1 DEF Init
<1>3. Nested
  BY <1>2 DEF Nested
<1>4. /\ cur = NoStep /\ pc = "next" /\ prog \in Programs /\ steps \in [IDs -> Outputs \cup {NotRun}]
      /\ expired \subseteq Nodes /\ cancelled \in BOOLEAN /\ frames # <<>>
      /\ seen \in Seq([node : Nodes, ok : BOOLEAN])
  <2>1. seen = <<>> /\ steps = [i \in IDs |-> NotRun] /\ expired = {} /\ cancelled = FALSE
        /\ cur = NoStep /\ pc = "next" /\ prog \in Programs
    BY DEF Init
  <2>2. seen \in Seq([node : Nodes, ok : BOOLEAN])
    BY <2>1, EmptySeq
  <2>3. steps \in [IDs -> Outputs \cup {NotRun}]
    BY <2>1
  <2>4. frames # <<>>
    BY <1>1, EmptySeq DEF Init
  <2>5. QED
    BY <2>1, <2>2, <2>3, <2>4
<1>5. out \in Outputs
  BY OutputKinds DEF Init
<1>6. QED
  BY <1>2, <1>3, <1>4, <1>5 DEF TInv, TypeOK

LEMMA TypeStep == TInv /\ [Next]_vars => TInv'
<1> SUFFICES ASSUME TInv, [Next]_vars PROVE TInv'
  OBVIOUS
<1>1. CASE UnknownType \/ Refuse
  <2>1. Step \in Nodes
    BY <1>1, TopFrame DEF UnknownType, Refuse
  <2>2. Return(Step, Failed(FALSE), FALSE) \/ Return(Step, Failed(FALSE), TRUE)
    BY <1>1 DEF UnknownType, Refuse
  <2>3. /\ pc' = "return" /\ out' \in Outputs /\ expired' \subseteq Nodes
        /\ seen' \in Seq([node : Nodes, ok : BOOLEAN])
    BY <2>1, <2>2, ReturnTyped, OutputKinds
  <2>4. pc = "next" /\ Frame.todo # <<>> /\ UNCHANGED <<prog, frames, cur, steps, cancelled>>
    BY <1>1 DEF UnknownType, Refuse
  <2>5. QED
    BY <2>3, <2>4 DEF TInv, TypeOK, Nested, Frame
<1>2. CASE StartLeaf
  <2>1. Step \in Nodes /\ Step # NoStep
    BY <1>2, TopFrame DEF StartLeaf
  <2>2. /\ pc = "next" /\ pc' = "exec" /\ cur' = Step /\ Frame.todo # <<>>
        /\ UNCHANGED <<prog, frames, out, steps, expired, cancelled, seen>>
    BY <1>2 DEF StartLeaf
  <2>3. QED
    BY <2>1, <2>2 DEF TInv, TypeOK, Nested, Frame
<1>3. CASE LeafReturns
  <2>1. pc = "exec" /\ cur \in Nodes
    BY <1>3 DEF LeafReturns, TInv, TypeOK
  <2>2. PICK o \in Outputs : Return(cur, o, TRUE)
    BY <1>3 DEF LeafReturns
  <2>3. /\ pc' = "return" /\ out' \in Outputs /\ expired' \subseteq Nodes
        /\ seen' \in Seq([node : Nodes, ok : BOOLEAN])
    BY <2>1, <2>2, ReturnTyped
  <2>4. cur' = NoStep /\ UNCHANGED <<prog, frames, steps, cancelled>>
    BY <1>3 DEF LeafReturns
  <2>5. QED
    BY <2>1, <2>3, <2>4 DEF TInv, TypeOK, Nested
<1>4. CASE EnterBranch
  <2>1. PICK branch \in {Then[Step], Else[Step]} :
           frames' = Append(frames, [todo |-> branch, owner |-> Step])
    BY <1>4 DEF EnterBranch
  <2>2. Step \in Conds /\ branch \in Seq(Nodes)
    BY <1>4, <2>1 DEF EnterBranch
  <2> DEFINE f == [todo |-> branch, owner |-> Step]
  <2>3. f \in Frames /\ f.owner # NoStep
    BY <2>2 DEF Frames
  <2>4. /\ frames' \in Seq(Frames) /\ Len(frames') = Len(frames) + 1
        /\ frames'[Len(frames) + 1] = f
        /\ \A i \in 1..Len(frames) : frames'[i] = frames[i]
    BY <2>1, <2>3, TopFrame DEF TInv, TypeOK
  <2>5. Frame.todo # <<>> /\ pc = "next" /\ UNCHANGED <<prog, pc, cur, out, steps, expired, cancelled, seen>>
    BY <1>4 DEF EnterBranch
  <2>6. Nested'
    <3> HIDE DEF f
    <3>1. Len(frames) \in Nat /\ Len(frames) >= 1 /\ Nested /\ frames[Len(frames)].todo # <<>>
      BY <2>5, TopFrame DEF TInv, Frame
    <3>2. ASSUME NEW i \in 1..Len(frames')
          PROVE  /\ i = 1 <=> frames'[i].owner = NoStep
                 /\ i < Len(frames') => frames'[i].todo # <<>>
      <4>1. CASE i = Len(frames) + 1
        BY <4>1, <2>3, <2>4, <3>1
      <4>2. CASE i \in 1..Len(frames)
        <5>1. frames'[i] = frames[i]
          BY <4>2, <2>4
        <5>2. i = 1 <=> frames[i].owner = NoStep
          BY <4>2, <3>1 DEF Nested
        <5>3. frames[i].todo # <<>>
          <6>1. CASE i = Len(frames)
            BY <6>1, <3>1
          <6>2. CASE i < Len(frames)
            BY <6>2, <4>2, <3>1 DEF Nested
          <6>3. QED
            BY <6>1, <6>2, <4>2, <3>1
        <5>4. QED
          BY <5>1, <5>2, <5>3
      <4>3. QED
        BY <4>1, <4>2, <2>4, <3>1
    <3>3. QED
      BY <2>4, <3>1, <3>2 DEF Nested
  <2>7. QED
    BY <2>4, <2>5, <2>6, TopFrame DEF TInv, TypeOK, Nested
<1>5. CASE LeaveBranch \/ FailBranch
  <2>1. frames' = Above /\ Frame.owner # NoStep /\ UNCHANGED <<prog, cur, cancelled>>
    BY <1>5 DEF LeaveBranch, FailBranch
  <2>2. /\ frames' \in Seq(Frames) /\ Len(frames') = Len(frames) - 1 /\ Len(frames) >= 2
        /\ Len(frames) \in Nat /\ \A i \in 1..Len(frames') : frames'[i] = frames[i]
    BY <2>1, LowerFrames, TopFrame
  <2>3. Nested' /\ frames'[Len(frames')].todo # <<>> /\ frames' # <<>>
    BY <2>2 DEF Nested, TInv
  <2>4. Frame.owner \in Nodes
    BY <2>1, TopFrame
  <2>5. Return(Frame.owner, Ok(TRUE), TRUE) \/ Return(Frame.owner, Failed(TRUE), TRUE)
    BY <1>5 DEF LeaveBranch, FailBranch
  <2>6. /\ pc' = "return" /\ out' \in Outputs /\ expired' \subseteq Nodes
        /\ seen' \in Seq([node : Nodes, ok : BOOLEAN])
    BY <2>4, <2>5, ReturnTyped, OutputKinds
  <2>7. steps' \in [IDs -> Outputs \cup {NotRun}]
    <3>1. CASE LeaveBranch
      BY <3>1 DEF LeaveBranch, TInv, TypeOK
    <3>2. CASE FailBranch
      <4>1. pc = "return" /\ out \in Outputs
        BY <3>2 DEF FailBranch, TInv, TypeOK
      <4>2. Step \in Nodes
        BY <4>1, TopFrame DEF TInv, TypeOK, Frame
      <4>3. QED
        BY <3>2, <4>1, <4>2, StoreTyped DEF FailBranch
    <3>3. QED
      BY <1>5, <3>1, <3>2
  <2>8. pc \in {"next", "return"}
    BY <1>5 DEF LeaveBranch, FailBranch
  <2>9. cur = NoStep
    BY <2>8 DEF TInv, TypeOK
  <2>10. QED
    BY <2>1, <2>2, <2>3, <2>6, <2>7, <2>9 DEF TInv, TypeOK, Nested
<1>6. CASE StoreOutput
  <2> DEFINE f == [Frame EXCEPT !.todo = Tail(@)]
  <2>1. pc = "return" /\ out \in Outputs /\ Frame.todo # <<>>
    BY <1>6 DEF StoreOutput, TInv, TypeOK, Frame
  <2>2. f \in Frames /\ f.owner = Frame.owner
    BY <2>1, TopFrame DEF Frames
  <2>3. frames' = Append(Above, f)
    BY <1>6 DEF StoreOutput
  <2>4. /\ frames' \in Seq(Frames) /\ Nested' /\ Len(frames') >= 1 /\ Len(frames') \in Nat
    <3> HIDE DEF f
    <3> QED BY <2>2, <2>3, AdvanceFrame, TopFrame DEF Nested
  <2>5. steps' \in [IDs -> Outputs \cup {NotRun}]
    BY <1>6, <2>1, TopFrame, StoreTyped DEF StoreOutput
  <2>6. pc' = "next" /\ UNCHANGED <<prog, cur, out, expired, cancelled, seen>>
    BY <1>6 DEF StoreOutput
  <2>7. QED
    BY <2>1, <2>4, <2>5, <2>6 DEF TInv, TypeOK, Nested
<1>7. CASE FailRun
  <2>1. pc = "return" /\ out \in Outputs /\ Frame.todo # <<>>
    BY <1>7 DEF FailRun, TInv, TypeOK, Frame
  <2>2. steps' \in [IDs -> Outputs \cup {NotRun}]
    BY <1>7, <2>1, TopFrame, StoreTyped DEF FailRun
  <2>3. QED
    BY <1>7, <2>1, <2>2 DEF FailRun, TInv, TypeOK, Nested
<1>8. CASE FinishRun \/ Record
  BY <1>8 DEF FinishRun, Record, TInv, TypeOK, Nested
<1>9. CASE (\E n \in Nodes : Deadline(n)) \/ Cancel \/ UNCHANGED vars
  BY <1>9 DEF Deadline, Cancel, vars, TInv, TypeOK, Nested
<1>10. QED
  BY <1>1, <1>2, <1>3, <1>4, <1>5, <1>6, <1>7, <1>8, <1>9 DEF Next, Run, RunStep, Conditional, Finished

(* A run keeps its variables in their types: in particular a returning     *)
(* step is at the head of the list it was started from, however deep the   *)
(* conditionals are nested.                                                *)
THEOREM TypeCorrect == Spec => []TypeOK
<1>1. TInv => TypeOK
  BY DEF TInv
<1>2. QED
  BY <1>1, TypeInit, TypeStep, PTL DEF Spec

------------------------------------------------------------------------------
(* What a run reads.                                                       *)

(* No step has failed so far.                                              *)
Going == pc \in {"next", "exec"} \/ (pc = "return" /\ out.ok)

(* The strengthening of NoReadOfFailed: Resolved asks only whether an      *)
(* output has the field, so it must be known that, while the run is going, *)
(* no output of a failed step has been stored.                             *)
FInv ==
    /\ Going => \A i \in IDs : steps[i] # NotRun => steps[i].ok
    /\ Going => \A k \in DOMAIN seen : seen[k].ok
    /\ cur # NoStep => Resolved(Needed(cur))

LEMMA FailInit == Init => FInv
BY DEF Init, FInv

(* Returning with success keeps all reports positive.                      *)
LEMMA SeenGrows ==
    ASSUME TInv, NEW n \in Nodes, NEW o \in Outputs, o.ok, Return(n, o, TRUE),
           \A k \in DOMAIN seen : seen[k].ok
    PROVE  \A k \in DOMAIN seen' : seen'[k].ok
<1>1. seen' = Append(seen, [node |-> n, ok |-> o.ok])
  BY DEF Return
<1>2. seen \in Seq([node : Nodes, ok : BOOLEAN]) /\ [node |-> n, ok |-> o.ok].ok
  BY DEF TInv, TypeOK
<1>3. QED
  <2> DEFINE e == [node |-> n, ok |-> o.ok]
  <2>1. e.ok /\ seen' = Append(seen, e) /\ Len(seen) \in Nat /\ DOMAIN seen = 1..Len(seen)
    BY <1>1, <1>2
  <2> HIDE DEF e
  <2>2. QED
    BY <1>2, <2>1

LEMMA FailStep == TInv /\ FInv /\ [Next]_vars => FInv'
<1> SUFFICES ASSUME TInv, FInv, [Next]_vars PROVE FInv'
  OBVIOUS
<1> USE DEF FInv, Going
<1>1. CASE UnknownType \/ Refuse
  <2>1. pc' = "return" /\ ~out'.ok /\ cur' = cur /\ pc = "next"
    BY <1>1, OutputKinds DEF UnknownType, Refuse, Return
  <2>2. cur' = NoStep
    BY <2>1 DEF TInv, TypeOK
  <2>3. QED
    BY <2>1, <2>2
<1>2. CASE StartLeaf
  BY <1>2 DEF StartLeaf, Runnable, Resolved, Needed
<1>3. CASE LeafReturns
  <2>1. pc = "exec" /\ cur \in Nodes /\ cur' = NoStep /\ UNCHANGED steps
    BY <1>3 DEF LeafReturns, TInv, TypeOK
  <2>2. PICK o \in Outputs : Return(cur, o, TRUE)
    BY <1>3 DEF LeafReturns
  <2>3. pc' = "return" /\ out' = o
    BY <2>2 DEF Return
  <2>4. o.ok => \A k \in DOMAIN seen' : seen'[k].ok
    BY <2>1, <2>2, SeenGrows
  <2>5. QED
    BY <2>1, <2>3, <2>4
<1>4. CASE EnterBranch
  <2>1. pc = "next" /\ UNCHANGED <<pc, cur, out, steps, seen>>
    BY <1>4 DEF EnterBranch
  <2>2. cur' = NoStep
    BY <2>1 DEF TInv, TypeOK
  <2>3. QED
    BY <2>1, <2>2
<1>5. CASE LeaveBranch
  <2>1. /\ pc = "next" /\ UNCHANGED <<prog, cur, steps>> /\ Return(Frame.owner, Ok(TRUE), TRUE)
        /\ Frame.owner # NoStep
    BY <1>5 DEF LeaveBranch
  <2>2. Frame.owner \in Nodes /\ cur' = NoStep
    BY <2>1, TopFrame DEF TInv, TypeOK
  <2>3. pc' = "return" /\ \A k \in DOMAIN seen' : seen'[k].ok
    BY <2>1, <2>2, OutputKinds, SeenGrows DEF Return
  <2>4. QED
    BY <2>1, <2>2, <2>3
<1>6. CASE FailBranch
  <2>1. pc = "return" /\ pc' = "return" /\ ~out'.ok /\ UNCHANGED cur
    BY <1>6, OutputKinds DEF FailBranch, Return
  <2>2. cur' = NoStep
    BY <2>1 DEF TInv, TypeOK
  <2>3. QED
    BY <2>1, <2>2
<1>7. CASE StoreOutput
  <2>1. /\ pc = "return" /\ out.ok /\ pc' = "next" /\ UNCHANGED <<cur, seen>>
        /\ steps' = [steps EXCEPT ![prog.id[Step]] = out]
    BY <1>7 DEF StoreOutput
  <2>2. cur' = NoStep
    BY <2>1 DEF TInv, TypeOK
  <2>3. \A i \in IDs : steps'[i] # NotRun => steps'[i].ok
    BY <2>1 DEF TInv, TypeOK
  <2>4. QED
    BY <2>1, <2>2, <2>3
<1>8. CASE FailRun
  <2>1. pc = "return" /\ pc' = "final" /\ UNCHANGED cur
    BY <1>8 DEF FailRun
  <2>2. QED
    BY <2>1 DEF TInv, TypeOK
<1>9. CASE FinishRun \/ Record
  <2>1. pc \in {"next", "final"} /\ pc' \in {"final", "done"} /\ UNCHANGED cur
    BY <1>9 DEF FinishRun, Record
  <2>2. QED
    BY <2>1 DEF TInv, TypeOK
<1>10. CASE (\E n \in Nodes : Deadline(n)) \/ Cancel \/ UNCHANGED vars
  BY <1>10 DEF Deadline, Cancel, vars, Resolved, Needed
<1>11. QED
  BY <1>1, <1>2, <1>3, <1>4, <1>5, <1>6, <1>7, <1>8, <1>9, <1>10
  DEF Next, Run, RunStep, Conditional, Finished

LEMMA Invariant == Spec => [](TInv /\ FInv)
BY TypeInit, TypeStep, FailInit, FailStep, PTL DEF Spec

(* No executor works on the output of a step that failed, in any pipeline: *)
(* fail-fast is what keeps the stored output of a failed step from being   *)
(* read, since lookup itself does not look at OK.                          *)
THEOREM ReadsOnlySuccesses == Spec => []NoReadOfFailed
<1>1. TInv /\ FInv => NoReadOfFailed
  <2> SUFFICES ASSUME TInv, FInv, cur # NoStep, NEW i \in Needed(cur) PROVE steps[i].ok
    BY DEF NoReadOfFailed
  <2>1. pc = "exec" /\ cur \in Nodes /\ prog \in Program
    BY DEF TInv, TypeOK
  <2>2. i \in IDs
    BY <2>1 DEF Program, Needed, Ref
  <2>3. QED
    BY <2>1, <2>2 DEF FInv, Going, Resolved
<1>2. QED
  BY <1>1, Invariant, PTL

(* Once a step has failed no executor is called again, at any depth of     *)
(* nesting and in any pipeline.                                            *)
THEOREM StopsAtFirstFailure == Spec => FailFast
<1>1. TInv /\ FInv /\ [Next]_vars =>
        [(\E k \in DOMAIN seen : ~seen[k].ok) \/ (pc = "return" /\ ~out.ok) => cur' = NoStep]_vars
  <2> SUFFICES ASSUME TInv, FInv, Next,
                      (\E k \in DOMAIN seen : ~seen[k].ok) \/ (pc = "return" /\ ~out.ok)
               PROVE  cur' = NoStep
    BY DEF vars
  <2>1. pc \in {"return", "final", "done"}
    BY DEF FInv, Going, TInv, TypeOK
  <2>2. cur = NoStep
    BY <2>1 DEF TInv, TypeOK
  <2>3. ~StartLeaf
    BY <2>1 DEF StartLeaf
  <2>4. QED
    BY <2>2, <2>3 DEF Next, Run, RunStep, Conditional, Finished, UnknownType, Refuse, LeafReturns,
         EnterBranch, LeaveBranch, FailBranch, StoreOutput, FailRun, FinishRun, Record, Deadline, Cancel, vars
<1>2. QED
  BY <1>1, Invariant, PTL DEF Spec, FailFast

------------------------------------------------------------------------------
(* What a run records.                                                     *)

(* How many steps of the pipeline are done.                                *)
Passed == Len(Top) - Len(frames[1].todo)

(* The step lists follow the tree: the outermost is what is left of the    *)
(* pipeline, the others hold steps of branches, and each belongs to the    *)
(* step at the head of the one around it.                                  *)
OnTree ==
    /\ Len(frames[1].todo) <= Len(Top)
    /\ \A k \in 1..Len(frames[1].todo) : frames[1].todo[k] = Top[Passed + k]
    /\ \A i \in 2..Len(frames) :
          /\ frames[i].owner = frames[i - 1].todo[1]
          /\ \A k \in DOMAIN frames[i].todo : frames[i].todo[k] \notin TopSteps
    /\ cur # NoStep => cur = Step

(* A step of the pipeline has just succeeded.                              *)
Succeeding == pc = "return" /\ out.ok /\ Len(frames) = 1

(* The steps of the pipeline that have succeeded are those that are done,  *)
(* and the one that is returning success.                                  *)
Told == \A j \in DOMAIN Top :
          Succeeded(Top[j]) <=> j <= Passed \/ (Succeeding /\ j = Passed + 1)

StoredOk(n) == steps[prog.id[n]] # NotRun /\ steps[prog.id[n]].ok

(* With unique IDs they are also those with a stored success.              *)
Stored == UniqueIDs => \A j \in DOMAIN Top : StoredOk(Top[j]) <=> j <= Passed

(* After Run the outermost list is the only one, and the record is made    *)
(* from what it has left.                                                  *)
Recorded ==
    /\ pc \in {"final", "done"} => Len(frames) = 1
    /\ pc = "done" => record = BuildRunRecord

(* The strengthening of RecordTruthful, which speaks of the end only.      *)
RInv == OnTree /\ Told /\ Stored /\ Recorded

LEMMA TopTyped ==
    /\ Len(Top) \in Nat /\ DOMAIN Top = 1..Len(Top)
    /\ \A k \in 1..Len(Top) : Top[k] \in Nodes /\ Top[k] \in TopSteps
BY DEF TopSteps

LEMMA FirstFrame ==
    ASSUME TInv
    PROVE  /\ frames[1] \in Frames /\ frames[1].todo \in Seq(Nodes) /\ Len(frames[1].todo) \in Nat
           /\ Passed \in Int
<1>1. frames[1] \in Frames
  BY TopFrame DEF TInv, TypeOK
<1>2. QED
  BY <1>1, TopTyped DEF Frames, Passed

(* Where the head of a step list stands.                                   *)
LEMMA FirstHead ==
    ASSUME TInv, OnTree, frames[1].todo # <<>>
    PROVE  Passed + 1 \in DOMAIN Top /\ frames[1].todo[1] = Top[Passed + 1]
<1> DEFINE n == Len(frames[1].todo)
<1>1. n \in Nat /\ n # 0
  BY FirstFrame
<1>2. n <= Len(Top) /\ Passed = Len(Top) - n
  BY DEF OnTree, Passed
<1>3. frames[1].todo[1] = Top[Passed + 1]
  <2>1. \A k \in 1..n : frames[1].todo[k] = Top[Passed + k]
    BY DEF OnTree
  <2> HIDE DEF n
  <2>2. 1 \in 1..n
    BY <1>1
  <2>3. QED
    BY <2>1, <2>2
<1>4. Passed + 1 \in 1..Len(Top)
  <2> HIDE DEF n
  <2>1. QED
    BY <1>1, <1>2, TopTyped
<1>5. QED
  BY <1>3, <1>4, TopTyped

LEMMA OtherHead ==
    ASSUME TInv, OnTree, NEW i \in 2..Len(frames), frames[i].todo # <<>>
    PROVE  frames[i].todo[1] \notin TopSteps
<1>1. i \in 1..Len(frames)
  BY TopFrame
<1>2. frames[i] \in Frames
  BY <1>1 DEF TInv, TypeOK
<1>3. frames[i].todo \in Seq(Nodes)
  BY <1>2 DEF Frames
<1>4. 1 \in DOMAIN frames[i].todo
  BY <1>3
<1>5. QED
  BY <1>4 DEF OnTree

LEMMA Inner ==
    ASSUME NEW n \in Nat, n >= 1
    PROVE  /\ n # 1 => n \in 2..n /\ 1 \in 1..n - 1
           /\ n >= 2 /\ n # 2 => n - 1 \in 2..n
OBVIOUS

LEMMA HeadPlace ==
    ASSUME TInv, OnTree, Frame.todo # <<>>
    PROVE  /\ Len(frames) = 1 => Passed + 1 \in DOMAIN Top /\ Step = Top[Passed + 1]
           /\ Len(frames) # 1 => Step \notin TopSteps
<1>1. Step = frames[Len(frames)].todo[1] /\ frames[Len(frames)].todo # <<>>
  BY TopFrame DEF Frame, Step
<1>2. CASE Len(frames) = 1
  BY <1>1, <1>2, FirstHead
<1>3. CASE Len(frames) # 1
  <2>1. Len(frames) \in 2..Len(frames)
    BY <1>3, TopFrame, Inner
  <2>2. QED
    BY <1>1, <1>3, <2>1, OtherHead
<1>4. QED
  BY <1>2, <1>3

(* Where the conditional stands whose branch is the innermost list.        *)
LEMMA OwnerPlace ==
    ASSUME TInv, OnTree, Frame.owner # NoStep
    PROVE  /\ Len(frames) >= 2
           /\ Len(frames) = 2 => Passed + 1 \in DOMAIN Top /\ Frame.owner = Top[Passed + 1]
           /\ Len(frames) # 2 => Frame.owner \notin TopSteps
<1>1. Len(frames) \in Nat /\ Len(frames) >= 2
  BY TopFrame
<1>2. Frame.owner = frames[Len(frames) - 1].todo[1]
  <2>1. Len(frames) \in 2..Len(frames)
    BY <1>1
  <2>2. QED
    BY <2>1 DEF OnTree, Frame
<1>3. frames[Len(frames) - 1].todo # <<>>
  <2>1. Len(frames) - 1 \in 1..Len(frames) /\ Len(frames) - 1 < Len(frames)
    BY <1>1
  <2>2. QED
    BY <2>1 DEF TInv, Nested
<1>4. CASE Len(frames) = 2
  <2>1. Len(frames) - 1 = 1
    BY <1>4
  <2>2. Frame.owner = frames[1].todo[1] /\ frames[1].todo # <<>>
    BY <1>2, <1>3, <2>1
  <2>3. QED
    BY <1>4, <2>2, FirstHead
<1>5. CASE Len(frames) # 2
  <2>1. Len(frames) - 1 \in 2..Len(frames)
    BY <1>1, <1>5, TopFrame, Inner
  <2>2. QED
    BY <1>1, <1>2, <1>3, <1>5, <2>1, OtherHead
<1>6. QED
  BY <1>1, <1>4, <1>5

(* What a return adds to the successes the observer knows of.              *)
LEMMA ReturnTells ==
    ASSUME TInv, NEW n \in Nodes, NEW o \in Outputs, NEW obs \in BOOLEAN, Return(n, o, obs)
    PROVE  \A x \in Nodes : Succeeded(x)' <=> Succeeded(x) \/ (obs /\ o.ok /\ x = n)
<1> DEFINE e == [node |-> n, ok |-> o.ok]
<1>1. seen \in Seq([node : Nodes, ok : BOOLEAN]) /\ e \in [node : Nodes, ok : BOOLEAN]
      /\ e.node = n /\ e.ok = o.ok
  BY DEF TInv, TypeOK, Outputs
<1>2. CASE obs
  <2>1. seen' = Append(seen, e)
    BY <1>2 DEF Return
  <2> HIDE DEF e
  <2>2. /\ DOMAIN seen = 1..Len(seen) /\ Len(seen) \in Nat /\ DOMAIN seen' = 1..Len(seen) + 1
        /\ \A k \in 1..Len(seen) : seen'[k] = seen[k]
        /\ seen'[Len(seen) + 1] = e
    BY <1>1, <2>1
  <2>3. /\ \A k \in 1..Len(seen) + 1 : k \in 1..Len(seen) \/ k = Len(seen) + 1
        /\ \A k \in 1..Len(seen) : k \in 1..Len(seen) + 1
        /\ Len(seen) + 1 \in 1..Len(seen) + 1
    BY <2>2
  <2>4. TAKE x \in Nodes
  <2>5. ASSUME Succeeded(x) PROVE Succeeded(x)'
    BY <2>2, <2>3, <2>5 DEF Succeeded
  <2>6. ASSUME o.ok, x = n PROVE Succeeded(x)'
    BY <1>1, <2>2, <2>3, <2>6 DEF Succeeded
  <2>7. ASSUME Succeeded(x)' PROVE Succeeded(x) \/ (o.ok /\ x = n)
    <3>1. PICK k \in DOMAIN seen' : seen'[k].node = x /\ seen'[k].ok
      BY <2>7 DEF Succeeded
    <3>2. CASE k \in 1..Len(seen)
      BY <2>2, <3>1, <3>2 DEF Succeeded
    <3>3. CASE k = Len(seen) + 1
      BY <1>1, <2>2, <3>1, <3>3
    <3>4. QED
      BY <2>2, <2>3, <3>1, <3>2, <3>3
  <2>8. QED
    BY <1>2, <2>5, <2>6, <2>7
<1>3. CASE ~obs
  BY <1>3 DEF Return, Succeeded
<1>4. QED
  BY <1>2, <1>3

(* Storing the output of one step tells nothing of the others.             *)
LEMMA StoreTells ==
    ASSUME TInv, NEW n \in Nodes, NEW o \in Outputs, UniqueIDs, prog' = prog,
           steps' = [steps EXCEPT ![prog.id[n]] = o]
    PROVE  \A x \in Nodes : StoredOk(x)' <=> IF x = n THEN o.ok ELSE StoredOk(x)
<1>1. prog.id \in [Nodes -> IDs] /\ steps \in [IDs -> Outputs \cup {NotRun}] /\ o # NotRun
  BY DEF TInv, TypeOK, Program, Outputs
<1>2. TAKE x \in Nodes
<1>3. prog.id[x] = prog.id[n] <=> x = n
  BY DEF UniqueIDs
<1>4. QED
  BY <1>1, <1>3 DEF StoredOk

LEMMA RecordInit == Init => RInv
<1> SUFFICES ASSUME Init PROVE RInv
  OBVIOUS
<1>1. /\ Len(frames) = 1 /\ frames[1].todo = Top /\ cur = NoStep /\ pc = "next" /\ seen = <<>>
      /\ steps = [i \in IDs |-> NotRun] /\ prog \in Program
  BY DEF Init
<1>2. Passed = 0
  BY <1>1, TopTyped DEF Passed
<1>3. OnTree
  BY <1>1, <1>2, TopTyped DEF OnTree
<1>4. Told
  BY <1>1, <1>2, TopTyped DEF Told, Succeeding, Succeeded
<1>5. Stored
  <2>1. \A n \in Nodes : steps[prog.id[n]] = NotRun
    BY <1>1 DEF Program
  <2>2. QED
    BY <1>2, <2>1, TopTyped DEF Stored, StoredOk
<1>6. Recorded
  BY <1>1 DEF Recorded
<1>7. QED
  BY <1>3, <1>4, <1>5, <1>6 DEF RInv

(* Told and Stored survive a step that leaves what they speak of alone.    *)
LEMMA ToldKept ==
    ASSUME Told, Passed' = Passed, Succeeding' = Succeeding,
           \A x \in TopSteps : Succeeded(x)' <=> Succeeded(x)
    PROVE  Told'
BY TopTyped DEF Told

LEMMA StoredKept ==
    ASSUME TInv, Stored, Passed' = Passed, prog' = prog,
           UniqueIDs => \A x \in TopSteps : StoredOk(x)' <=> StoredOk(x)
    PROVE  Stored'
BY TopTyped DEF Stored, UniqueIDs

LEMMA OnTreeStep == TInv /\ OnTree /\ [Next]_vars => OnTree'
<1> SUFFICES ASSUME TInv, OnTree, [Next]_vars PROVE OnTree'
  OBVIOUS
<1>1. CASE UnknownType \/ Refuse
  BY <1>1 DEF UnknownType, Refuse, OnTree, Passed, Step, Frame
<1>2. CASE StartLeaf
  BY <1>2 DEF StartLeaf, OnTree, Passed, Step, Frame
<1>3. CASE LeafReturns
  BY <1>3 DEF LeafReturns, OnTree, Passed, Step, Frame
<1>4. CASE EnterBranch
  <2> DEFINE n == Len(frames)
  <2>1. PICK branch \in {Then[Step], Else[Step]} :
           frames' = Append(frames, [todo |-> branch, owner |-> Step])
    BY <1>4 DEF EnterBranch
  <2> DEFINE f == [todo |-> branch, owner |-> Step]
  <2>2. pc = "next" /\ Frame.todo # <<>> /\ Step \in Conds /\ UNCHANGED cur
    BY <1>4 DEF EnterBranch
  <2>3. f \in Frames /\ \A k \in DOMAIN f.todo : f.todo[k] \notin TopSteps
    BY <2>2, TreeAssumption DEF Frames
  <2>4. f.owner = frames[n].todo[1]
    BY <2>2, TopFrame DEF Step, Frame
  <2> HIDE DEF f
  <2>5. /\ n \in Nat /\ n >= 1 /\ Len(frames') = n + 1 /\ frames'[n + 1] = f
        /\ \A i \in 1..n : frames'[i] = frames[i]
    BY <2>1, <2>3, TopFrame DEF TInv, TypeOK, f
  <2> HIDE DEF n
  <2>6. frames'[1] = frames[1]
    BY <2>5
  <2>7. cur' = NoStep
    BY <2>2 DEF TInv, TypeOK
  <2>8. ASSUME NEW i \in 2..Len(frames')
        PROVE  /\ frames'[i].owner = frames'[i - 1].todo[1]
               /\ \A k \in DOMAIN frames'[i].todo : frames'[i].todo[k] \notin TopSteps
    <3>1. CASE i = n + 1
      <4>0. (n + 1) - 1 = n /\ n \in 1..n
        BY <2>5
      <4>1. frames'[i] = f /\ i - 1 = n /\ frames'[n] = frames[n]
        BY <2>5, <3>1, <4>0
      <4>2. QED
        BY <2>3, <2>4, <4>1
    <3>2. CASE i \in 2..n
      <4>1. frames'[i] = frames[i] /\ frames'[i - 1] = frames[i - 1]
        BY <2>5, <3>2
      <4>2. QED
        BY <3>2, <4>1 DEF OnTree, n
    <3>3. QED
      BY <2>5, <3>1, <3>2
  <2>9. QED
    BY <2>6, <2>7, <2>8 DEF OnTree, Passed
<1>5. CASE LeaveBranch \/ FailBranch
  <2>1. frames' = Above /\ Frame.owner # NoStep /\ UNCHANGED cur /\ pc \in {"next", "return"}
    BY <1>5 DEF LeaveBranch, FailBranch
  <2>2. /\ Len(frames) \in Nat /\ Len(frames) >= 2 /\ Len(frames') = Len(frames) - 1
        /\ \A i \in 1..Len(frames) - 1 : frames'[i] = frames[i]
    BY <2>1, TopFrame, LowerFrames
  <2>3. frames'[1] = frames[1]
    BY <2>2
  <2>4. cur' = NoStep
    BY <2>1 DEF TInv, TypeOK
  <2>5. ASSUME NEW i \in 2..Len(frames')
        PROVE  i \in 2..Len(frames) /\ frames'[i] = frames[i] /\ frames'[i - 1] = frames[i - 1]
    BY <2>2
  <2>6. QED
    BY <2>3, <2>4, <2>5 DEF OnTree, Passed
<1>6. CASE StoreOutput
  <2> DEFINE f == [Frame EXCEPT !.todo = Tail(@)]
             n == Len(frames)
  <2>1. pc = "return" /\ frames' = Append(Above, f) /\ UNCHANGED cur
    BY <1>6 DEF StoreOutput
  <2>2. Frame.todo # <<>>
    BY <2>1 DEF TInv, TypeOK, Frame
  <2>3. cur' = NoStep
    BY <2>1 DEF TInv, TypeOK
  <2>4. /\ f \in Frames /\ f.owner = Frame.owner /\ f.todo \in Seq(Nodes)
        /\ Len(f.todo) = Len(Frame.todo) - 1
        /\ \A k \in 1..Len(f.todo) : f.todo[k] = Frame.todo[k + 1]
    <3>1. Frame \in Frames /\ Frame.todo \in Seq(Nodes) /\ Tail(Frame.todo) \in Seq(Nodes)
      BY <2>2, TopFrame
    <3>2. f \in Frames /\ f.owner = Frame.owner /\ f.todo = Tail(Frame.todo)
      BY <3>1 DEF Frames
    <3> HIDE DEF f
    <3>3. /\ Len(Tail(Frame.todo)) = Len(Frame.todo) - 1
          /\ \A k \in 1..Len(Tail(Frame.todo)) : Tail(Frame.todo)[k] = Frame.todo[k + 1]
      BY <2>2, <3>1
    <3>4. QED
      BY <3>1, <3>2, <3>3
  <2> HIDE DEF f
  <2>5. /\ n \in Nat /\ n >= 1 /\ Len(frames') = n /\ frames'[n] = f
        /\ \A i \in 1..n - 1 : frames'[i] = frames[i]
    BY <2>1, <2>4, TopFrame, LowerFrames
  <2>6. Frame = frames[n]
    BY DEF Frame
  <2> HIDE DEF n
  <2>7. CASE n = 1
    <3>1. frames'[1] = f /\ Frame = frames[1] /\ Len(frames') = 1
      BY <2>5, <2>6, <2>7
    <3>2. Len(frames[1].todo) <= Len(Top)
      BY DEF OnTree
    <3>3. Len(f.todo) = Len(frames[1].todo) - 1 /\ Len(f.todo) \in Nat /\ Len(frames[1].todo) \in Nat
      BY <2>4, <3>1, FirstFrame
    <3>4. Passed' = Passed + 1
      BY <3>1, <3>3, TopTyped DEF Passed
    <3>5. ASSUME NEW k \in 1..Len(f.todo) PROVE f.todo[k] = Top[Passed' + k]
      <4>1. k + 1 \in 1..Len(frames[1].todo) /\ Passed' + k = Passed + (k + 1)
        BY <3>3, <3>4, FirstFrame
      <4>2. f.todo[k] = frames[1].todo[k + 1]
        BY <2>4, <3>1
      <4>3. QED
        BY <4>1, <4>2 DEF OnTree
    <3>6. Len(f.todo) <= Len(Top)
      BY <3>2, <3>3, TopTyped
    <3>7. QED
      BY <2>3, <3>1, <3>5, <3>6 DEF OnTree
  <2>8. CASE n # 1
    <3>1. n \in 2..n /\ frames'[1] = frames[1]
      BY <2>5, <2>8
    <3>2. Frame.owner = frames[n - 1].todo[1]
          /\ \A k \in DOMAIN Frame.todo : Frame.todo[k] \notin TopSteps
      BY <2>6, <3>1 DEF OnTree, n
    <3>3. \A k \in DOMAIN f.todo : f.todo[k] \notin TopSteps
      <4>1. TAKE k \in DOMAIN f.todo
      <4>2. k \in 1..Len(f.todo) /\ k + 1 \in DOMAIN Frame.todo
        BY <2>4, TopFrame
      <4>3. QED
        BY <2>4, <3>2, <4>2
    <3>4. ASSUME NEW i \in 2..n
          PROVE  /\ frames'[i].owner = frames'[i - 1].todo[1]
                 /\ \A k \in DOMAIN frames'[i].todo : frames'[i].todo[k] \notin TopSteps
      <4>1. frames'[i - 1] = frames[i - 1]
        BY <2>5
      <4>2. CASE i = n
        BY <2>4, <2>5, <3>2, <3>3, <4>1, <4>2
      <4>3. CASE i # n
        <5>1. frames'[i] = frames[i]
          BY <2>5, <4>3
        <5>2. QED
          BY <4>1, <5>1 DEF OnTree, n
      <4>4. QED
        BY <4>2, <4>3
    <3>5. QED
      BY <2>3, <2>5, <3>1, <3>4 DEF OnTree, Passed
  <2>9. QED
    BY <2>7, <2>8
<1>7. CASE FailRun \/ FinishRun \/ Record
  BY <1>7 DEF FailRun, FinishRun, Record, OnTree, Passed, Step, Frame
<1>8. CASE (\E n \in Nodes : Deadline(n)) \/ Cancel \/ UNCHANGED vars
  BY <1>8 DEF Deadline, Cancel, vars, OnTree, Passed, Step, Frame
<1>9. QED
  BY <1>1, <1>2, <1>3, <1>4, <1>5, <1>6, <1>7, <1>8 DEF Next, Run, RunStep, Conditional, Finished

(* Branches add and remove step lists, never the outermost one.            *)
LEMMA OuterKept ==
    ASSUME TInv, [Next]_vars, ~StoreOutput
    PROVE  Passed' = Passed
<1>1. CASE EnterBranch
  <2>1. PICK branch \in {Then[Step], Else[Step]} :
           frames' = Append(frames, [todo |-> branch, owner |-> Step])
    BY <1>1 DEF EnterBranch
  <2>2. Step \in Conds /\ branch \in Seq(Nodes)
    BY <1>1, <2>1 DEF EnterBranch
  <2>3. [todo |-> branch, owner |-> Step] \in Frames
    BY <2>2 DEF Frames
  <2>4. frames'[1] = frames[1]
    BY <2>1, <2>3, TopFrame DEF TInv, TypeOK
  <2>5. QED
    BY <2>4 DEF Passed
<1>2. CASE LeaveBranch \/ FailBranch
  <2>1. frames' = Above /\ Frame.owner # NoStep
    BY <1>2 DEF LeaveBranch, FailBranch
  <2>2. frames'[1] = frames[1]
    BY <2>1, TopFrame, LowerFrames
  <2>3. QED
    BY <2>2 DEF Passed
<1>3. CASE UNCHANGED frames
  BY <1>3 DEF Passed
<1>4. QED
  BY <1>1, <1>2, <1>3 DEF Next, Run, RunStep, Conditional, Finished, UnknownType, Refuse, StartLeaf,
     LeafReturns, FailRun, FinishRun, Record, Deadline, Cancel, vars

(* Storing an output passes a step of the pipeline, or one of a branch.    *)
LEMMA StorePasses ==
    ASSUME TInv, StoreOutput
    PROVE  Passed' = IF Len(frames) = 1 THEN Passed + 1 ELSE Passed
<1> DEFINE f == [Frame EXCEPT !.todo = Tail(@)]
<1>1. pc = "return" /\ frames' = Append(Above, f)
  BY DEF StoreOutput
<1>2. Frame.todo # <<>> /\ Frame = frames[Len(frames)]
  BY <1>1 DEF TInv, TypeOK, Frame
<1>3. f \in Frames /\ Len(f.todo) = Len(Frame.todo) - 1
  <2>1. Frame \in Frames /\ Frame.todo \in Seq(Nodes) /\ Tail(Frame.todo) \in Seq(Nodes)
    BY <1>2, TopFrame
  <2>2. f \in Frames /\ f.todo = Tail(Frame.todo)
    BY <2>1 DEF Frames
  <2> HIDE DEF f
  <2>3. QED
    BY <1>2, <2>1, <2>2
<1> HIDE DEF f
<1>4. /\ frames'[Len(frames)] = f
      /\ \A i \in 1..Len(frames) - 1 : frames'[i] = frames[i]
  BY <1>1, <1>3, TopFrame, LowerFrames
<1>5. QED
  <2>1. CASE Len(frames) = 1
    <3>1. frames'[1] = f /\ Frame = frames[1]
      BY <1>2, <1>4, <2>1
    <3>2. /\ Len(f.todo) = Len(frames[1].todo) - 1 /\ Len(frames[1].todo) \in Nat
          /\ Len(Top) \in Nat
      BY <1>3, <3>1, FirstFrame, TopTyped
    <3>3. Passed' = Len(Top) - Len(f.todo) /\ Passed = Len(Top) - Len(frames[1].todo)
      BY <3>1 DEF Passed
    <3>4. Passed' = Passed + 1
      BY <3>2, <3>3
    <3>5. QED
      BY <2>1, <3>4
  <2>2. CASE Len(frames) # 1
    <3>0. 1 \in 1..Len(frames) - 1
      BY <2>2, TopFrame, Inner
    <3>1. frames'[1] = frames[1]
      BY <1>4, <3>0
    <3>2. QED
      BY <2>2, <3>1 DEF Passed
  <2>3. QED
    BY <2>1, <2>2

LEMMA ToldStep == TInv /\ OnTree /\ Told /\ [Next]_vars => Told'
<1> SUFFICES ASSUME TInv, OnTree, Told, [Next]_vars PROVE Told'
  OBVIOUS
<1>1. TopSteps \subseteq Nodes
  BY TopTyped DEF TopSteps
<1>2. ~StoreOutput => Passed' = Passed
  BY OuterKept
<1>3. CASE UnknownType \/ Refuse
  <2>1. Step \in Nodes /\ pc = "next" /\ UNCHANGED frames
    BY <1>3, TopFrame DEF UnknownType, Refuse
  <2>2. Return(Step, Failed(FALSE), FALSE) \/ Return(Step, Failed(FALSE), TRUE)
    BY <1>3 DEF UnknownType, Refuse
  <2>3. pc' = "return" /\ ~out'.ok /\ \A x \in Nodes : Succeeded(x)' <=> Succeeded(x)
    BY <2>1, <2>2, OutputKinds, ReturnTells, ReturnTyped
  <2>4. Passed' = Passed
    BY <2>1 DEF Passed
  <2>5. Succeeding' = Succeeding
    BY <2>1, <2>3 DEF Succeeding
  <2>6. QED
    BY <1>1, <2>3, <2>4, <2>5, ToldKept
<1>4. CASE LeafReturns
  <2>1. /\ pc = "exec" /\ cur \in Nodes /\ cur = Step /\ UNCHANGED frames
        /\ Frame.todo # <<>> /\ Passed' = Passed
    BY <1>4 DEF LeafReturns, TInv, TypeOK, OnTree, Frame, Passed
  <2>2. PICK o \in Outputs : Return(cur, o, TRUE)
    BY <1>4 DEF LeafReturns
  <2>3. /\ pc' = "return" /\ out' = o
        /\ \A x \in Nodes : Succeeded(x)' <=> Succeeded(x) \/ (o.ok /\ x = Step)
    BY <2>1, <2>2, ReturnTells, ReturnTyped
  <2>4. ~Succeeding /\ (Succeeding' <=> o.ok /\ Len(frames) = 1)
    BY <2>1, <2>3 DEF Succeeding
  <2>5. ASSUME NEW j \in DOMAIN Top
        PROVE  Succeeded(Top[j])' <=> j <= Passed' \/ (Succeeding' /\ j = Passed' + 1)
    <3>1. Top[j] \in Nodes /\ Top[j] \in TopSteps
      BY TopTyped
    <3>2. Succeeded(Top[j]) <=> j <= Passed
      BY <2>4 DEF Told
    <3>3. CASE Len(frames) = 1
      <4>1. Top[j] = Step <=> j = Passed + 1
        BY <2>1, <3>3, HeadPlace, TreeAssumption
      <4>2. QED
        BY <2>1, <2>3, <2>4, <3>1, <3>2, <3>3, <4>1
    <3>4. CASE Len(frames) # 1
      <4>1. Top[j] # Step
        BY <2>1, <3>1, <3>4, HeadPlace
      <4>2. QED
        BY <2>1, <2>3, <2>4, <3>1, <3>2, <3>4, <4>1
    <3>5. QED
      BY <3>3, <3>4
  <2>6. QED
    BY <2>5 DEF Told
<1>5. CASE LeaveBranch
  <2>1. /\ pc = "next" /\ frames' = Above /\ Frame.owner # NoStep
        /\ Return(Frame.owner, Ok(TRUE), TRUE)
    BY <1>5 DEF LeaveBranch
  <2>2. Frame.owner \in Nodes /\ Len(frames') = Len(frames) - 1 /\ Len(frames) \in Nat
    BY <2>1, TopFrame, LowerFrames
  <2>3. /\ pc' = "return" /\ out'.ok
        /\ \A x \in Nodes : Succeeded(x)' <=> Succeeded(x) \/ x = Frame.owner
    BY <2>1, <2>2, OutputKinds, ReturnTells, ReturnTyped
  <2>4. Passed' = Passed
    BY <1>2, <2>1 DEF StoreOutput
  <2>5. ~Succeeding /\ (Succeeding' <=> Len(frames) = 2)
    BY <2>1, <2>2, <2>3 DEF Succeeding
  <2>6. ASSUME NEW j \in DOMAIN Top
        PROVE  Succeeded(Top[j])' <=> j <= Passed' \/ (Succeeding' /\ j = Passed' + 1)
    <3>1. Top[j] \in Nodes /\ Top[j] \in TopSteps
      BY TopTyped
    <3>2. Succeeded(Top[j]) <=> j <= Passed
      BY <2>5 DEF Told
    <3>3. CASE Len(frames) = 2
      <4>1. Top[j] = Frame.owner <=> j = Passed + 1
        BY <2>1, <3>3, OwnerPlace, TreeAssumption
      <4>2. QED
        BY <2>3, <2>4, <2>5, <3>1, <3>2, <3>3, <4>1
    <3>4. CASE Len(frames) # 2
      <4>1. Top[j] # Frame.owner
        BY <2>1, <3>1, <3>4, OwnerPlace
      <4>2. QED
        BY <2>3, <2>4, <2>5, <3>1, <3>2, <3>4, <4>1
    <3>5. QED
      BY <3>3, <3>4
  <2>7. QED
    BY <2>6 DEF Told
<1>6. CASE FailBranch
  <2>1. pc = "return" /\ ~out.ok /\ Frame.owner # NoStep /\ Return(Frame.owner, Failed(TRUE), TRUE)
    BY <1>6 DEF FailBranch
  <2>2. Frame.owner \in Nodes
    BY <2>1, TopFrame
  <2>3. pc' = "return" /\ ~out'.ok /\ \A x \in Nodes : Succeeded(x)' <=> Succeeded(x)
    BY <2>1, <2>2, OutputKinds, ReturnTells, ReturnTyped
  <2>4. Passed' = Passed
    BY <1>2, <2>1 DEF StoreOutput
  <2>5. Succeeding' = Succeeding
    BY <2>1, <2>3 DEF Succeeding
  <2>6. QED
    BY <1>1, <2>3, <2>4, <2>5, ToldKept
<1>7. CASE StoreOutput
  <2>1. pc = "return" /\ out.ok /\ pc' = "next" /\ seen' = seen
    BY <1>7 DEF StoreOutput
  <2>2. Passed' = IF Len(frames) = 1 THEN Passed + 1 ELSE Passed
    BY <1>7, StorePasses
  <2>3. ~Succeeding' /\ (Succeeding <=> Len(frames) = 1)
    BY <2>1 DEF Succeeding
  <2>4. \A x : Succeeded(x)' <=> Succeeded(x)
    BY <2>1 DEF Succeeded
  <2>5. ASSUME NEW j \in DOMAIN Top
        PROVE  Succeeded(Top[j])' <=> j <= Passed'
    <3>1. Succeeded(Top[j])' <=> j <= Passed \/ (Len(frames) = 1 /\ j = Passed + 1)
      BY <2>3, <2>4 DEF Told
    <3>2. j \in Nat /\ Passed \in Int
      BY TopTyped, FirstFrame
    <3>3. QED
      BY <2>2, <3>1, <3>2
  <2>6. QED
    BY <2>3, <2>5 DEF Told
<1>8. CASE StartLeaf \/ EnterBranch \/ FinishRun \/ Record
  <2>1. pc # "return" /\ pc' # "return" /\ seen' = seen
    BY <1>8 DEF StartLeaf, EnterBranch, FinishRun, Record
  <2>2. Passed' = Passed
    BY <1>2, <2>1 DEF StoreOutput
  <2>3. QED
    BY <2>1, <2>2, ToldKept DEF Succeeding, Succeeded
<1>9. CASE FailRun
  <2>1. pc = "return" /\ ~out.ok /\ pc' = "final" /\ UNCHANGED <<frames, seen>>
    BY <1>9 DEF FailRun
  <2>2. QED
    BY <2>1, ToldKept DEF Succeeding, Succeeded, Passed
<1>10. CASE (\E n \in Nodes : Deadline(n)) \/ Cancel \/ UNCHANGED vars
  <2>1. UNCHANGED <<pc, out, frames, seen>>
    BY <1>10 DEF Deadline, Cancel, vars
  <2>2. QED
    BY <2>1, ToldKept DEF Succeeding, Succeeded, Passed
<1>11. QED
  BY <1>3, <1>4, <1>5, <1>6, <1>7, <1>8, <1>9, <1>10 DEF Next, Run, RunStep, Conditional, Finished

(* The output of a step of a branch is not one of the pipeline's.          *)
LEMMA StoredBelow ==
    ASSUME TInv, OnTree, Stored, pc = "return", Len(frames) # 1, prog' = prog,
           Passed' = Passed, steps' = [steps EXCEPT ![prog.id[Step]] = out]
    PROVE  Stored'
<1>1. Frame.todo # <<>> /\ out \in Outputs
  BY DEF TInv, TypeOK, Frame
<1>2. Step \in Nodes /\ Step \notin TopSteps /\ TopSteps \subseteq Nodes
  BY <1>1, TopFrame, HeadPlace, TopTyped DEF TopSteps
<1>3. UniqueIDs => \A x \in TopSteps : StoredOk(x)' <=> StoredOk(x)
  BY <1>1, <1>2, StoreTells
<1>4. QED
  BY <1>3, StoredKept

(* At the outermost list the output stored is that of the first step that  *)
(* is not done.                                                            *)
LEMMA StoredAtTop ==
    ASSUME TInv, OnTree, Stored, UniqueIDs, pc = "return", Len(frames) = 1, prog' = prog,
           steps' = [steps EXCEPT ![prog.id[Step]] = out], NEW j \in DOMAIN Top
    PROVE  StoredOk(Top[j])' <=> j <= Passed \/ (out.ok /\ j = Passed + 1)
<1>1. Frame.todo # <<>> /\ out \in Outputs
  BY DEF TInv, TypeOK, Frame
<1>2. Step \in Nodes /\ Passed + 1 \in DOMAIN Top /\ Step = Top[Passed + 1]
  BY <1>1, TopFrame, HeadPlace
<1>3. Top[j] \in Nodes /\ (Top[j] = Step <=> j = Passed + 1)
  BY <1>2, TopTyped, TreeAssumption
<1>4. StoredOk(Top[j])' <=> IF j = Passed + 1 THEN out.ok ELSE StoredOk(Top[j])
  BY <1>1, <1>2, <1>3, StoreTells
<1>5. StoredOk(Top[j]) <=> j <= Passed
  BY DEF Stored
<1>6. ~(Passed + 1 <= Passed)
  BY FirstFrame
<1>7. QED
  BY <1>4, <1>5, <1>6

LEMMA StoredStep == TInv /\ OnTree /\ Stored /\ [Next]_vars => Stored'
<1> SUFFICES ASSUME TInv, OnTree, Stored, [Next]_vars PROVE Stored'
  OBVIOUS
<1>1. ~StoreOutput => Passed' = Passed
  BY OuterKept
<1>2. CASE UNCHANGED steps /\ ~StoreOutput
  <2>1. UNCHANGED prog
    BY DEF Next, Run, RunStep, Conditional, Finished, UnknownType, Refuse, StartLeaf, LeafReturns,
       EnterBranch, LeaveBranch, FailBranch, StoreOutput, FailRun, FinishRun, Record, Deadline, Cancel, vars
  <2>2. QED
    BY <1>1, <1>2, <2>1, StoredKept DEF StoredOk
<1>3. CASE FailBranch
  <2>1. /\ pc = "return" /\ Frame.owner # NoStep /\ UNCHANGED prog /\ frames' = Above
        /\ steps' = [steps EXCEPT ![prog.id[Step]] = out]
    BY <1>3 DEF FailBranch
  <2>2. Len(frames) # 1
    BY <2>1, Outermost
  <2>3. Passed' = Passed
    <3>1. Above[1] = frames[1]
      BY <2>2, TopFrame, LowerFrames, Inner
    <3>2. QED
      BY <2>1, <3>1 DEF Passed
  <2>4. QED
    BY <2>1, <2>2, <2>3, StoredBelow
<1>4. CASE StoreOutput
  <2>1. /\ pc = "return" /\ out.ok /\ UNCHANGED prog
        /\ steps' = [steps EXCEPT ![prog.id[Step]] = out]
    BY <1>4 DEF StoreOutput
  <2>2. Passed' = IF Len(frames) = 1 THEN Passed + 1 ELSE Passed
    BY <1>4, StorePasses
  <2>3. CASE Len(frames) = 1
    <3>1. SUFFICES ASSUME UniqueIDs', NEW j \in DOMAIN Top
                   PROVE  StoredOk(Top[j])' <=> j <= Passed'
      BY DEF Stored
    <3>2. UniqueIDs
      BY <2>1, <3>1 DEF UniqueIDs
    <3>3. StoredOk(Top[j])' <=> j <= Passed \/ j = Passed + 1
      BY <2>1, <2>3, <3>2, StoredAtTop
    <3>4. j \in Nat /\ Passed \in Int
      BY TopTyped, FirstFrame
    <3>5. QED
      BY <2>2, <2>3, <3>3, <3>4
  <2>4. CASE Len(frames) # 1
    BY <2>1, <2>2, <2>4, StoredBelow
  <2>5. QED
    BY <2>3, <2>4
<1>5. CASE FailRun
  <2>1. /\ pc = "return" /\ ~out.ok /\ Frame.owner = NoStep /\ UNCHANGED <<prog, frames>>
        /\ steps' = [steps EXCEPT ![prog.id[Step]] = out]
    BY <1>5 DEF FailRun
  <2>2. Len(frames) = 1
    BY <2>1, Outermost
  <2>3. Passed' = Passed
    BY <2>1 DEF Passed
  <2>4. SUFFICES ASSUME UniqueIDs', NEW j \in DOMAIN Top
                 PROVE  StoredOk(Top[j])' <=> j <= Passed'
    BY DEF Stored
  <2>5. UniqueIDs
    BY <2>1, <2>4 DEF UniqueIDs
  <2>6. QED
    BY <2>1, <2>2, <2>3, <2>5, StoredAtTop
<1>6. QED
  BY <1>2, <1>3, <1>4, <1>5 DEF Next, Run, RunStep, Conditional, Finished, UnknownType, Refuse, StartLeaf,
     LeafReturns, EnterBranch, LeaveBranch, FinishRun, Record, Deadline, Cancel, vars, StoreOutput

(* After Run the step lists and the stored outputs do not change, so the   *)
(* record stays the one made from them.                                    *)
LEMMA RecordedStep == TInv /\ Recorded /\ [Next]_vars => Recorded'
<1> SUFFICES ASSUME TInv, Recorded, [Next]_vars PROVE Recorded'
  OBVIOUS
<1>1. CASE FailRun \/ FinishRun
  <2>1. Frame.owner = NoStep /\ pc' = "final" /\ UNCHANGED frames
    BY <1>1 DEF FailRun, FinishRun
  <2>2. Len(frames) = 1
    BY <2>1, Outermost
  <2>3. QED
    BY <2>1, <2>2 DEF Recorded
<1>2. CASE Record
  <2>1. /\ pc = "final" /\ UNCHANGED <<prog, frames, steps>> /\ record' = BuildRunRecord
    BY <1>2 DEF Record
  <2>2. BuildRunRecord' = BuildRunRecord
    BY <2>1 DEF BuildRunRecord, RunFailed, FinalOutput, StepRecords, Resolved, Frame
  <2>3. QED
    BY <2>1, <2>2 DEF Recorded
<1>3. CASE UNCHANGED vars
  BY <1>3 DEF vars, Recorded, BuildRunRecord, RunFailed, FinalOutput, StepRecords, Resolved, Frame
<1>4. CASE pc \in {"next", "exec", "return"} /\ pc' \in {"next", "exec", "return"}
  BY <1>4 DEF Recorded
<1>5. QED
  BY <1>1, <1>2, <1>3, <1>4 DEF Next, Run, RunStep, Conditional, Finished, UnknownType, Refuse, StartLeaf,
     LeafReturns, EnterBranch, LeaveBranch, FailBranch, StoreOutput, Deadline, Cancel, Return

LEMMA RecordInvariant == Spec => [](TInv /\ RInv)
<1>1. TInv /\ RInv /\ [Next]_vars => RInv'
  BY OnTreeStep, ToldStep, StoredStep, RecordedStep DEF RInv
<1>2. QED
  BY <1>1, TypeInit, TypeStep, RecordInit, PTL DEF Spec

(* A step that is not done has no success to show, so the record of a run  *)
(* is ok exactly if every step of the pipeline ran and succeeded and the   *)
(* output section resolved, and with unique IDs it names those that did,   *)
(* in any pipeline and whatever the branches do.                           *)
THEOREM RecordsWhatHappened == Spec => []RecordTruthful
<1>1. TInv /\ RInv => RecordTruthful
  <2> SUFFICES ASSUME TInv, RInv, pc = "done" PROVE RecordTruthful
    BY DEF RecordTruthful
  <2>1. Len(frames) = 1 /\ record = BuildRunRecord
    BY DEF RInv, Recorded
  <2>2. \A j \in DOMAIN Top : Succeeded(Top[j]) <=> j <= Passed
    BY DEF RInv, Told, Succeeding
  <2>3. /\ Frame = frames[1] /\ frames[1].todo \in Seq(Nodes) /\ Len(frames[1].todo) \in Nat
        /\ Passed = Len(Top) - Len(frames[1].todo)
    BY <2>1, FirstFrame DEF Frame, Passed
  <2>4. RunFailed <=> Len(frames[1].todo) # 0
    BY <2>3 DEF RunFailed
  <2>5. (\A j \in DOMAIN Top : j <= Passed) <=> Len(frames[1].todo) = 0
    <3>1. CASE Len(frames[1].todo) = 0
      BY <2>3, <3>1, TopTyped
    <3>2. CASE Len(frames[1].todo) # 0
      <4>1. Passed + 1 \in DOMAIN Top
        <5>1. frames[1].todo # <<>>
          BY <2>3, <3>2
        <5>2. QED
          BY <5>1, FirstHead DEF RInv
      <4>2. ~(Passed + 1 <= Passed)
        BY FirstFrame
      <4>3. QED
        BY <3>2, <4>1, <4>2
    <3>3. QED
      BY <3>1, <3>2
  <2>6. record.ok <=> (\A k \in DOMAIN Top : Succeeded(Top[k])) /\ Resolved(prog.output)
    <3>1. record.ok <=> ~RunFailed /\ Resolved(prog.output)
      BY <2>1 DEF BuildRunRecord, FinalOutput
    <3>2. QED
      BY <2>2, <2>4, <2>5, <3>1
  <2>7. UniqueIDs => \A k \in DOMAIN Top : record.steps[k] <=> Succeeded(Top[k])
    <3>1. \A k \in DOMAIN Top : record.steps[k] <=> StoredOk(Top[k])
      BY <2>1 DEF BuildRunRecord, StepRecords, StoredOk
    <3>2. QED
      BY <2>2, <3>1 DEF RInv, Stored
  <2>8. QED
    BY <2>6, <2>7 DEF RecordTruthful
<1>2. QED
  BY <1>1, RecordInvariant, PTL
==============================================================================
