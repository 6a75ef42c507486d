----------------------------- MODULE Lint_proofs -----------------------------
(***************************************************************************)
(* Proofs about module Lint for any tree of steps and any set of programs: *)
(* what validation and lint say of a pipeline is true of its run.          *)
(***************************************************************************)
EXTENDS Lint, Engine_proofs, Ordering_proofs

USE EngineAssumption, ProgramsAssumption DEF EngineAssumption, ProgramsAssumption

------------------------------------------------------------------------------
(* Where a run stands in the lists of the tree.                            *)

(* The list whose owner is o.                                              *)
ListsOf(o) == IF o = NoStep THEN {Top} ELSE {Then[o], Else[o]}

(* What frame f has still to do is the end of its list, and what it has    *)
(* done has an output among those given, in program p.                     *)
Left(f, p, given) ==
    \E list \in ListsOf(f.owner), k \in Nat :
        /\ Len(list) = k + Len(f.todo)
        /\ \A j \in 1..Len(f.todo) : f.todo[j] = list[k + j]
        /\ \A j \in 1..k : given[p.id[list[j]]] # NotRun

Listed == \A i \in 1..Len(frames) : Left(frames[i], prog, steps)

(* The head of a step list.                                                *)
First(i) == frames[i].todo[1]

LEMMA ListTyped ==
    ASSUME NEW o \in Conds \cup {NoStep}, NEW list \in ListsOf(o)
    PROVE  /\ list \in Seq(Nodes) /\ Len(list) \in Nat /\ DOMAIN list = 1..Len(list)
           /\ \A j \in 1..Len(list) : list[j] \in Nodes
<1>1. list \in Seq(Nodes)
  BY DEF ListsOf
<1>2. QED
  BY <1>1

LEMMA FrameTyped ==
    ASSUME TInv, NEW i \in 1..Len(frames)
    PROVE  /\ frames[i] \in Frames /\ frames[i].todo \in Seq(Nodes) /\ Len(frames[i].todo) \in Nat
           /\ frames[i].owner \in Conds \cup {NoStep}
           /\ i = 1 <=> frames[i].owner = NoStep
           /\ frames[i].todo # <<>> => Len(frames[i].todo) >= 1 /\ First(i) \in Nodes
<1>1. frames[i] \in Frames
  BY DEF TInv, TypeOK
<1>2. frames[i].todo \in Seq(Nodes) /\ frames[i].owner \in Conds \cup {NoStep}
  BY <1>1 DEF Frames
<1>3. i = 1 <=> frames[i].owner = NoStep
  BY DEF TInv, Nested
<1>4. frames[i].todo # <<>> => Len(frames[i].todo) >= 1 /\ frames[i].todo[1] \in Nodes
  BY <1>2
<1>5. QED
  BY <1>1, <1>2, <1>3, <1>4 DEF First

(* Outputs that are stored are replaced, never removed.                    *)
LEMMA OutputsStay ==
    ASSUME TInv, [Next]_vars
    PROVE  prog' = prog /\ \A i \in IDs : steps[i] # NotRun => steps'[i] # NotRun
<1>1. prog' = prog
  BY DEF Next, Run, RunStep, Conditional, Finished, vars, UnknownType, Refuse, StartLeaf, LeafReturns,
         EnterBranch, LeaveBranch, FailBranch, StoreOutput, FailRun, FinishRun, Record, Deadline, Cancel
<1>2. CASE StoreOutput \/ FailBranch \/ FailRun
  <2>1. steps' = [steps EXCEPT ![prog.id[Step]] = out]
    BY <1>2 DEF StoreOutput, FailBranch, FailRun
  <2>2. out # NotRun /\ steps \in [IDs -> Outputs \cup {NotRun}]
    BY DEF TInv, TypeOK, Outputs
  <2>3. QED
    BY <1>1, <2>1, <2>2
<1>3. CASE ~(StoreOutput \/ FailBranch \/ FailRun)
  <2>1. steps' = steps
    BY <1>3 DEF Next, Run, RunStep, Conditional, Finished, vars, UnknownType, Refuse, StartLeaf, LeafReturns,
         EnterBranch, LeaveBranch, FinishRun, Record, Deadline, Cancel
  <2>2. QED
    BY <1>1, <2>1
<1>4. QED
  BY <1>2, <1>3

LEMMA LeftStays ==
    ASSUME TInv, [Next]_vars, NEW f \in Frames, Left(f, prog, steps)
    PROVE  Left(f, prog', steps')
<1>1. f.owner \in Conds \cup {NoStep} /\ f.todo \in Seq(Nodes)
  BY DEF Frames
<1>2. PICK list \in ListsOf(f.owner), k \in Nat :
        /\ Len(list) = k + Len(f.todo)
        /\ \A j \in 1..Len(f.todo) : f.todo[j] = list[k + j]
        /\ \A j \in 1..k : steps[prog.id[list[j]]] # NotRun
  BY DEF Left
<1>3. \A j \in 1..k : list[j] \in Nodes
  <2>1. Len(f.todo) \in Nat /\ Len(list) \in Nat
    BY <1>1, <1>2, ListTyped
  <2>2. k <= Len(list)
    BY <1>2, <2>1
  <2>3. QED
    BY <1>1, <2>1, <2>2, ListTyped
<1>4. prog.id \in [Nodes -> IDs]
  BY DEF TInv, TypeOK, Program
<1>5. \A j \in 1..k : steps'[prog'.id[list[j]]] # NotRun
  <2>1. TAKE j \in 1..k
  <2>2. prog.id[list[j]] \in IDs
    BY <1>3, <1>4
  <2>3. QED
    BY <1>2, <2>2, OutputsStay
<1>6. QED
  BY <1>2, <1>5 DEF Left

LEMMA ListedInit == Init => Listed
<1> SUFFICES ASSUME Init PROVE Listed
  OBVIOUS
<1>1. PICK f : f = [todo |-> Top, owner |-> NoStep]
  OBVIOUS
<1>2. f.todo = Top /\ f.owner = NoStep /\ frames = <<f>>
  BY <1>1 DEF Init
<1>3. Left(f, prog, steps)
  <2>1. Top \in ListsOf(f.owner) /\ Len(Top) = 0 + Len(f.todo)
    BY <1>2, TopTyped DEF ListsOf
  <2>2. \A j \in 1..Len(f.todo) : f.todo[j] = Top[0 + j]
    BY <1>2, TopTyped
  <2>3. \A j \in 1..0 : steps[prog.id[Top[j]]] # NotRun
    OBVIOUS
  <2> HIDE <1>2
  <2>4. QED
    BY <2>1, <2>2, <2>3 DEF Left
<1>4. Len(frames) = 1 /\ frames[1] = f
  BY <1>2
<1>5. QED
  BY <1>3, <1>4 DEF Listed

(* A list whose first step is done.                                        *)
LEMMA LeftAdvances ==
    ASSUME TInv, Listed, StoreOutput
    PROVE  LET f == [Frame EXCEPT !.todo = Tail(@)]
           IN  f \in Frames /\ f.owner = Frame.owner /\ Left(f, prog', steps')
<1> DEFINE n == Len(frames)
<1>1. n \in 1..n /\ Frame = frames[n]
  BY TopFrame DEF Frame
<1>2. Frame.todo # <<>> /\ frames' = Append(Above, [Frame EXCEPT !.todo = Tail(@)])
  BY <1>1 DEF StoreOutput, TInv, TypeOK
<1>3. PICK f : f = [Frame EXCEPT !.todo = Tail(@)]
  OBVIOUS
<1>4. PICK g : g = Frame
  OBVIOUS
<1>5. /\ g \in Frames /\ g.todo \in Seq(Nodes) /\ g.todo # <<>> /\ Left(g, prog, steps) /\ Step = g.todo[1]
      /\ g.owner \in Conds \cup {NoStep}
  BY <1>1, <1>2, <1>4, FrameTyped DEF Listed, Step
<1>6. f \in Frames /\ f.owner = g.owner /\ f.todo = Tail(g.todo)
  <2>1. Tail(g.todo) \in Seq(Nodes)
    BY <1>5
  <2>2. f = [g EXCEPT !.todo = Tail(@)]
    BY <1>3, <1>4
  <2>3. QED
    BY <1>5, <2>1, <2>2 DEF Frames
<1>7. /\ Len(f.todo) \in Nat /\ Len(g.todo) = Len(f.todo) + 1
      /\ \A j \in 1..Len(f.todo) : f.todo[j] = g.todo[j + 1]
  BY <1>5, <1>6
<1>8. PICK list \in ListsOf(g.owner), k \in Nat :
        /\ Len(list) = k + Len(g.todo)
        /\ \A j \in 1..Len(g.todo) : g.todo[j] = list[k + j]
        /\ \A j \in 1..k : steps[prog.id[list[j]]] # NotRun
  BY <1>5 DEF Left
<1>9. Len(list) = (k + 1) + Len(f.todo) /\ Step = list[k + 1] /\ k + 1 \in 1..Len(list)
  <2>1. 1 \in 1..Len(g.todo)
    BY <1>7
  <2>2. PICK m \in Nat : m = Len(f.todo)
    BY <1>7
  <2>3. Len(list) = k + (m + 1)
    BY <1>7, <1>8, <2>2
  <2>4. g.todo[1] = list[k + 1]
    BY <1>8, <2>1
  <2>5. PICK l : l = Len(list)
    OBVIOUS
  <2>6. l = (k + 1) + m /\ k + 1 \in 1..l
    <3>1. l = k + (m + 1)
      BY <2>3, <2>5
    <3> HIDE <2>2, <2>3, <2>5
    <3>2. QED
      BY <3>1
  <2>7. QED
    BY <1>5, <2>2, <2>4, <2>5, <2>6
<1>10. \A j \in 1..Len(f.todo) : f.todo[j] = list[(k + 1) + j]
  <2>1. TAKE j \in 1..Len(f.todo)
  <2>2. j + 1 \in 1..Len(g.todo) /\ k + (j + 1) = (k + 1) + j
    BY <1>7
  <2>3. QED
    BY <1>7, <1>8, <2>2
<1>11. \A j \in 1..(k + 1) : steps'[prog'.id[list[j]]] # NotRun
  <2>1. TAKE j \in 1..(k + 1)
  <2>2. j \in 1..Len(list)
    <3>1. PICK l \in Nat : l = Len(list)
      BY <1>5, ListTyped
    <3>2. k + 1 \in 1..l
      BY <1>9, <3>1
    <3>3. j \in 1..l
      BY <3>2
    <3>4. QED
      BY <3>1, <3>3
  <2>3. list[j] \in Nodes
    BY <1>5, <2>2, ListTyped
  <2>4. /\ prog.id[list[j]] \in IDs /\ out # NotRun /\ steps \in [IDs -> Outputs \cup {NotRun}]
        /\ steps' = [steps EXCEPT ![prog.id[Step]] = out] /\ prog' = prog
    BY <2>3 DEF TInv, TypeOK, Program, Outputs, StoreOutput
  <2>5. CASE j = k + 1
    BY <1>9, <2>4, <2>5
  <2>6. CASE j \in 1..k
    BY <1>8, <2>4, <2>6
  <2>7. QED
    BY <2>5, <2>6
<1>12. Left(f, prog', steps')
  <2>1. k + 1 \in Nat
    OBVIOUS
  <2>2. QED
    BY <1>6, <1>8, <1>9, <1>10, <1>11, <2>1 DEF Left
<1>13. QED
  BY <1>3, <1>4, <1>6, <1>12

LEMMA ListedStep == TInv /\ Listed /\ [Next]_vars => Listed'
<1> SUFFICES ASSUME TInv, Listed, [Next]_vars PROVE Listed'
  OBVIOUS
<1>1. Len(frames) \in Nat /\ Len(frames) >= 1 /\ Len(frames) \in 1..Len(frames)
  BY TopFrame
<1>2. ASSUME NEW i \in 1..Len(frames), frames'[i] = frames[i] PROVE Left(frames'[i], prog', steps')
  <2>1. PICK f : f = frames[i]
    OBVIOUS
  <2>2. f \in Frames /\ Left(f, prog, steps)
    BY <2>1, FrameTyped DEF Listed
  <2>3. Left(f, prog', steps')
    BY <2>2, LeftStays
  <2>4. QED
    BY <1>2, <2>1, <2>3
<1>3. CASE EnterBranch
  <2>1. PICK branch \in {Then[Step], Else[Step]} :
           frames' = Append(frames, [todo |-> branch, owner |-> Step])
    BY <1>3 DEF EnterBranch
  <2>2. PICK f : f = [todo |-> branch, owner |-> Step]
    OBVIOUS
  <2>3. Step \in Conds /\ f \in Frames /\ f.todo = branch /\ f.owner = Step /\ Step # NoStep
    BY <1>3, <2>1, <2>2 DEF EnterBranch, Frames
  <2>4. Left(f, prog, steps)
    <3>1. branch \in ListsOf(f.owner) /\ branch \in Seq(Nodes)
      BY <2>1, <2>3 DEF ListsOf
    <3>2. Len(branch) = 0 + Len(f.todo) /\ \A j \in 1..Len(f.todo) : f.todo[j] = branch[0 + j]
      BY <2>3, <3>1
    <3>3. \A j \in 1..0 : steps[prog.id[branch[j]]] # NotRun
      OBVIOUS
    <3>4. QED
      BY <3>1, <3>2, <3>3 DEF Left
  <2>5. /\ Len(frames') = Len(frames) + 1 /\ frames'[Len(frames) + 1] = f
        /\ \A i \in 1..Len(frames) : frames'[i] = frames[i]
    BY <1>1, <2>1, <2>2, <2>3 DEF TInv, TypeOK
  <2>6. ASSUME NEW i \in 1..Len(frames') PROVE Left(frames'[i], prog', steps')
    <3>1. CASE i = Len(frames) + 1
      BY <2>3, <2>4, <2>5, <3>1, LeftStays
    <3>2. CASE i \in 1..Len(frames)
      BY <1>2, <2>5, <3>2
    <3>3. QED
      BY <1>1, <2>5, <3>1, <3>2
  <2>7. QED
    BY <2>6 DEF Listed
<1>4. CASE LeaveBranch \/ FailBranch
  <2>1. frames' = Above
    BY <1>4 DEF LeaveBranch, FailBranch
  <2>2. ASSUME NEW i \in 1..Len(frames') PROVE Left(frames'[i], prog', steps')
    <3>1. i \in 1..Len(frames) /\ frames'[i] = frames[i]
      BY <1>1, <2>1, LowerFrames
    <3>2. QED
      BY <1>2, <3>1
  <2>3. QED
    BY <2>2 DEF Listed
<1>5. CASE StoreOutput
  <2> DEFINE f == [Frame EXCEPT !.todo = Tail(@)]
  <2>1. f \in Frames /\ Left(f, prog', steps') /\ frames' = Append(Above, f)
    BY <1>5, LeftAdvances DEF StoreOutput
  <2> HIDE DEF f
  <2>2. Len(frames') = Len(frames) /\ \A i \in 1..Len(frames) - 1 : frames'[i] = frames[i]
    BY <1>1, <2>1, LowerFrames
  <2>3. PICK n : n = Len(frames)
    OBVIOUS
  <2>4. Left(frames'[n], prog', steps')
    BY <1>1, <2>1, <2>3, LowerFrames
  <2>5. ASSUME NEW i \in 1..n PROVE Left(frames'[i], prog', steps')
    <3>1. CASE i = n
      BY <2>4, <3>1
    <3>2. CASE i # n
      <4>1. i \in 1..Len(frames) /\ i \in 1..Len(frames) - 1
        BY <1>1, <2>3, <3>2
      <4>2. QED
        BY <1>2, <2>2, <4>1
    <3>3. QED
      BY <3>1, <3>2
  <2>6. QED
    BY <2>2, <2>3, <2>5 DEF Listed
<1>6. CASE UNCHANGED frames
  <2>1. ASSUME NEW i \in 1..Len(frames') PROVE Left(frames'[i], prog', steps')
    BY <1>2, <1>6
  <2>2. QED
    BY <2>1 DEF Listed
<1>7. QED
  BY <1>3, <1>4, <1>5, <1>6
  DEF Next, Run, RunStep, Conditional, Finished, vars, UnknownType, Refuse, StartLeaf, LeafReturns,
      FailRun, FinishRun, Record, Deadline, Cancel

LEMMA ListedInvariant == Spec => [](TInv /\ OnTree /\ Listed)
<1>1. Init => Listed
  BY ListedInit
<1>2. (TInv /\ RInv) /\ Listed /\ [Next]_vars => Listed'
  BY ListedStep
<1>3. TInv /\ RInv /\ Listed => TInv /\ OnTree /\ Listed
  BY DEF RInv
<1>4. QED
  BY <1>1, <1>2, <1>3, RecordInvariant, PTL DEF Spec

------------------------------------------------------------------------------
(* Where a step stands in the tree.                                        *)

(* The heads of the frames are a path from the pipeline to the innermost   *)
(* list: each is a step of a branch of the one before.                     *)
LEMMA HeadListed ==
    ASSUME TInv, OnTree, Listed, NEW i \in 1..Len(frames), frames[i].todo # <<>>
    PROVE  \E list \in ListsOf(frames[i].owner), k \in Nat :
             /\ k + 1 \in DOMAIN list /\ list[k + 1] = First(i)
             /\ \A j \in 1..k : steps[prog.id[list[j]]] # NotRun
<1>1. PICK list \in ListsOf(frames[i].owner), k \in Nat :
        /\ Len(list) = k + Len(frames[i].todo)
        /\ \A j \in 1..Len(frames[i].todo) : frames[i].todo[j] = list[k + j]
        /\ \A j \in 1..k : steps[prog.id[list[j]]] # NotRun
  BY DEF Listed, Left
<1>2. PICK m \in Nat : m = Len(frames[i].todo) /\ m >= 1
  BY FrameTyped
<1>3. list[k + 1] = First(i)
  <2>1. 1 \in 1..Len(frames[i].todo)
    BY <1>2
  <2>2. QED
    BY <1>1, <2>1 DEF First
<1>4. PICK l : l = Len(list) /\ DOMAIN list = 1..l
  BY ListTyped, FrameTyped
<1>5. k + 1 \in 1..l
  <2>1. l = k + m
    BY <1>1, <1>2, <1>4
  <2>2. QED
    BY <1>2, <2>1
<1>6. QED
  BY <1>1, <1>3, <1>4, <1>5

LEMMA OwnerOfInner ==
    ASSUME TInv, OnTree, NEW i \in 1..Len(frames), i # 1
    PROVE  /\ i - 1 \in 1..Len(frames) /\ frames[i - 1].todo # <<>>
           /\ frames[i].owner = First(i - 1) /\ frames[i].owner \in Conds
           /\ ListsOf(frames[i].owner) = {Then[First(i - 1)], Else[First(i - 1)]}
<1>1. Len(frames) \in Nat
  BY TopFrame
<1>2. i \in 2..Len(frames) /\ i - 1 \in 1..Len(frames) /\ i - 1 < Len(frames)
  BY <1>1
<1>3. frames[i].owner = First(i - 1)
  BY <1>2 DEF OnTree, First
<1>4. frames[i].owner \in Conds /\ frames[i].owner # NoStep
  BY FrameTyped
<1>5. frames[i - 1].todo # <<>>
  BY <1>2 DEF TInv, Nested
<1>6. QED
  BY <1>2, <1>3, <1>4, <1>5 DEF ListsOf

(* Children stand in branches, which share no step with each other or with *)
(* the pipeline.                                                           *)
LEMMA ChildPlace ==
    ASSUME NEW n \in Nodes, NEW m \in Children(n)
    PROVE  /\ n \in Conds /\ m \in Nodes /\ m \notin TopSteps
           /\ \E list \in {Then[n], Else[n]} : \E j \in DOMAIN list : list[j] = m
<1>1. n \in Conds /\ m \in ToSet(Then[n]) \cup ToSet(Else[n]) /\ m \in Nodes
  BY DEF Children
<1>2. PICK list \in {Then[n], Else[n]} : \E j \in DOMAIN list : list[j] = m
  BY <1>1 DEF ToSet
<1>3. QED
  BY <1>1, <1>2, TreeAssumption

(* The parent of a head is the head before it.                             *)
LEMMA ParentOfHead ==
    ASSUME TInv, OnTree, Listed, NEW i \in 1..Len(frames), frames[i].todo # <<>>,
           NEW n \in Nodes, First(i) \in Children(n)
    PROVE  i # 1 /\ n = First(i - 1)
<1>1. PICK list \in {Then[n], Else[n]} : \E j \in DOMAIN list : list[j] = First(i)
  BY ChildPlace
<1>2. n \in Conds /\ First(i) \notin TopSteps
  BY ChildPlace
<1>3. PICK own \in ListsOf(frames[i].owner), k \in Nat : k + 1 \in DOMAIN own /\ own[k + 1] = First(i)
  BY HeadListed
<1>4. i # 1
  <2>1. SUFFICES ASSUME i = 1 PROVE FALSE
    OBVIOUS
  <2>2. own = Top
    BY <1>3, <2>1, FrameTyped DEF ListsOf
  <2>3. QED
    BY <1>2, <1>3, <2>2 DEF TopSteps
<1>5. First(i - 1) \in Conds /\ own \in {Then[First(i - 1)], Else[First(i - 1)]}
  BY <1>3, <1>4, OwnerOfInner
<1>6. QED
  BY <1>1, <1>2, <1>3, <1>4, <1>5, TreeAssumption

(* Whatever has a head below it is a head before it: the steps that are no *)
(* heads are closed under children.                                        *)
LEMMA Ancestors ==
    ASSUME TInv, OnTree, Listed, NEW i \in 1..Len(frames), frames[i].todo # <<>>,
           NEW n \in Nodes, First(i) \in Below[n]
    PROVE  \E e \in 1..i - 1 : n = First(e)
<1> SUFFICES ASSUME \A e \in 1..i - 1 : n # First(e)
             PROVE  FALSE
  OBVIOUS
<1> DEFINE S == Nodes \ {First(e) : e \in 1..i}
<1>1. Len(frames) \in Nat /\ i \in Nat /\ \A e \in 1..i : e \in 1..Len(frames)
  BY TopFrame
<1>2. \A e \in 1..i : frames[e].todo # <<>>
  <2>1. TAKE e \in 1..i
  <2>2. CASE e = i
    BY <2>2
  <2>3. CASE e # i
    <3>1. e \in 1..Len(frames) /\ e < Len(frames)
      BY <1>1, <2>3
    <3>2. QED
      BY <3>1 DEF TInv, Nested
  <2>4. QED
    BY <2>2, <2>3
<1>3. ASSUME NEW k \in Nodes, \A e \in 1..i - 1 : k # First(e)
      PROVE  Children(k) \subseteq S
  <2>1. SUFFICES ASSUME NEW m \in Children(k), NEW e \in 1..i, m = First(e)
                 PROVE  FALSE
    BY ChildPlace
  <2>2. e # 1 /\ k = First(e - 1)
    BY <1>1, <1>2, <2>1, ParentOfHead
  <2>3. e - 1 \in 1..i - 1
    BY <1>1, <2>2
  <2>4. QED
    BY <1>3, <2>2, <2>3
<1>4. Children(n) \subseteq S
  BY <1>3
<1>5. \A k \in S : Children(k) \subseteq S
  <2>1. TAKE k \in S
  <2>2. k \in Nodes /\ \A e \in 1..i - 1 : k # First(e)
    BY <1>1
  <2>3. QED
    BY <1>3, <2>2
<1>6. First(i) \in S
  <2>1. S \in SUBSET Nodes
    OBVIOUS
  <2> HIDE DEF S
  <2>2. Below[n] = {m \in Nodes : \A T \in SUBSET Nodes :
                      Children(n) \subseteq T /\ (\A k \in T : Children(k) \subseteq T) => m \in T}
    BY DEF Below
  <2>3. QED
    BY <1>4, <1>5, <2>1, <2>2
<1>7. QED
  BY <1>1, <1>6

(* A head stands at one place of one list, and what stands before it there *)
(* has an output.                                                          *)
AllLists == {Top} \cup {Then[c] : c \in Conds} \cup {Else[c] : c \in Conds}

LEMMA BeforeHead ==
    ASSUME TInv, OnTree, Listed, NEW i \in 1..Len(frames), frames[i].todo # <<>>,
           NEW list \in AllLists, NEW j \in DOMAIN list, list[j] = First(i), NEW h \in DOMAIN list, h < j
    PROVE  steps[prog.id[list[h]]] # NotRun
<1>1. PICK own \in ListsOf(frames[i].owner), k \in Nat :
        /\ k + 1 \in DOMAIN own /\ own[k + 1] = First(i)
        /\ \A l \in 1..k : steps[prog.id[own[l]]] # NotRun
  BY HeadListed
<1>2. own = list /\ k + 1 = j
  <2>1. CASE i = 1
    <3>1. own = Top
      BY <1>1, <2>1, FrameTyped DEF ListsOf
    <3>2. First(i) \in TopSteps
      BY <1>1, <3>1 DEF TopSteps
    <3>3. list = Top
      BY <3>2, TreeAssumption DEF AllLists
    <3>4. QED
      BY <1>1, <3>1, <3>3, TreeAssumption
  <2>2. CASE i # 1
    <3>1. First(i - 1) \in Conds /\ own \in {Then[First(i - 1)], Else[First(i - 1)]}
      BY <1>1, <2>2, OwnerOfInner
    <3>2. First(i) \notin TopSteps
      BY <1>1, <3>1, TreeAssumption
    <3>3. list # Top
      BY <3>2 DEF TopSteps
    <3>4. PICK c \in Conds : list \in {Then[c], Else[c]}
      BY <3>3 DEF AllLists
    <3>5. QED
      BY <1>1, <3>1, <3>4, TreeAssumption
  <2>3. QED
    BY <2>1, <2>2
<1>3. DOMAIN list = 1..Len(list) /\ Len(list) \in Nat
  BY DEF AllLists
<1>4. h \in 1..k
  BY <1>2, <1>3
<1>5. QED
  BY <1>1, <1>2, <1>4

------------------------------------------------------------------------------
(* References.                                                             *)

LEMMA RefsFound == TInv /\ OnTree /\ Listed => ValidatedRefsFound
<1> SUFFICES ASSUME TInv, OnTree, Listed, RefNotFound, prog \in Accepted, Backward(prog, {"ref"})
             PROVE  FALSE
  BY DEF ValidatedRefsFound
<1> DEFINE n == Len(frames)
<1>1. n \in 1..n /\ frames[n].todo # <<>> /\ Step = First(n) /\ Step \in Nodes
  BY TopFrame DEF RefNotFound, Frame, Step, First
<1>2. PICK r \in prog.refs[Step] : r.form = "ref" /\ steps[r.id] = NotRun
  BY DEF RefNotFound
<1>3. prog \in Program
  BY DEF TInv, TypeOK
<1>4. r.id \in CollectIDs(prog)
  <2>1. CheckRefs(prog) = {}
    BY DEF Accepted, Validate
  <2>2. Visible(prog, Step) \subseteq CollectIDs(prog)
    <3>1. SUFFICES ASSUME ~(Visible(prog, Step) \subseteq CollectIDs(prog)) PROVE FALSE
      OBVIOUS
    <3>2. <<Step, "unknown step ref">> \in CheckRefs(prog)
      BY <1>1, <3>1, Zenon DEF CheckRefs
    <3>3. QED
      BY <2>1, <3>2
  <2>3. r.id \in Visible(prog, Step)
    BY <1>2 DEF Visible
  <2>4. QED
    BY <2>2, <2>3
<1>5. PICK m \in Nodes : prog.id[m] = r.id /\ Earlier(m, Step)
  <2>1. r \in UNION {prog.refs[k] : k \in Nodes}
    BY <1>1, <1>2
  <2>2. QED
    BY <1>1, <1>2, <1>4, <2>1 DEF Backward
<1>6. PICK list \in AllLists : \E h, j \in DOMAIN list :
         h < j /\ list[h] = m /\ Step \in {list[j]} \cup Below[list[j]]
  BY <1>5 DEF Earlier, AllLists
<1>7. PICK h \in DOMAIN list, j \in DOMAIN list :
         h < j /\ list[h] = m /\ Step \in {list[j]} \cup Below[list[j]]
  BY <1>6
<1>8. PICK i \in 1..n : list[j] = First(i) /\ frames[i].todo # <<>>
  <2>1. CASE Step = list[j]
    BY <1>1, <2>1
  <2>2. CASE Step \in Below[list[j]]
    <3>1. list[j] \in Nodes
      BY DEF AllLists
    <3>2. PICK e \in 1..n - 1 : list[j] = First(e)
      BY <1>1, <2>2, <3>1, Ancestors
    <3>3. e \in 1..n /\ frames[e].todo # <<>>
      BY <1>1 DEF TInv, Nested
    <3>4. QED
      BY <3>2, <3>3
  <2>3. QED
    BY <1>7, <2>1, <2>2
<1>9. steps[prog.id[list[h]]] # NotRun
  BY <1>7, <1>8, BeforeHead
<1>10. QED
  BY <1>2, <1>5, <1>7, <1>9

(* A pipeline that validate accepts and whose references point backwards   *)
(* never comes to a reference whose step has not run, at any depth of      *)
(* conditionals, for any IDs, also ambiguous ones.                         *)
THEOREM ReferencesFound == Spec => []ValidatedRefsFound
BY ListedInvariant, RefsFound, PTL

------------------------------------------------------------------------------
(* Timeouts.                                                               *)

LEMMA AcceptedUnique == ASSUME TInv, prog \in Accepted PROVE UniqueIDs
<1>1. DuplicatesPass(prog) = {}
  BY DEF Accepted, Validate
<1>2. SUFFICES ASSUME NEW m \in Nodes, NEW n \in Nodes, prog.id[m] = prog.id[n], m # n
               PROVE  FALSE
  BY DEF UniqueIDs
<1>3. n \in {k \in Nodes : \E l \in Nodes \ {k} : prog.id[l] = prog.id[k]}
  BY <1>2
<1>4. <<prog.id[n], "duplicate step id">> \in DuplicatesPass(prog)
  BY <1>3, Zenon DEF DuplicatesPass
<1>5. QED
  BY <1>1, <1>4

(* With unique IDs lintSteps passes over no step around the one that is    *)
(* executed: one that it did would stand below another that it did.        *)
LEMMA HeadsLinted ==
    ASSUME TInv, OnTree, Listed, UniqueIDs, NEW L \in SUBSET Nodes, IsLinted(prog, L),
           NEW n \in 1..Len(frames), frames[n].todo # <<>>
    PROVE  First(n) \in L
<1> DEFINE Missed == {i \in 1..Len(frames) : frames[i].todo # <<>> /\ First(i) \notin L}
<1>1. SUFFICES ASSUME Missed # {} PROVE FALSE
  OBVIOUS
<1>2. Missed \in SUBSET Nat
  BY TopFrame
<1>3. PICK i \in Missed : \A e \in Missed : i <= e
  <2> HIDE DEF Missed
  <2>1. QED
    BY <1>1, <1>2, LeastNumber
<1>4. First(i) \in Nodes /\ First(i) \notin L /\ frames[i].todo # <<>> /\ i \in 1..Len(frames)
  BY FrameTyped
<1>5. PICK m \in Nodes : IF m \in L THEN prog.id[m] = prog.id[First(i)] ELSE First(i) \in Below[m]
  BY <1>4 DEF IsLinted
<1>6. CASE m \in L
  BY <1>4, <1>5, <1>6 DEF UniqueIDs
<1>7. CASE m \notin L
  <2>1. PICK e \in 1..i - 1 : m = First(e)
    BY <1>4, <1>5, <1>7, Ancestors
  <2>2. e \in 1..Len(frames) /\ e < i /\ e < Len(frames) /\ Len(frames) \in Nat
    BY <1>4, TopFrame
  <2>3. frames[e].todo # <<>>
    BY <2>2 DEF TInv, Nested
  <2>4. e \in Missed
    BY <1>7, <2>1, <2>2, <2>3
  <2>5. QED
    BY <1>3, <2>2, <2>4
<1>8. QED
  BY <1>6, <1>7

LEMMA TimeoutsSet == TInv /\ OnTree /\ Listed => LintedBounded
<1> SUFFICES ASSUME TInv, OnTree, Listed, prog \in Accepted, prog \in Unwarned, cur # NoStep,
                    prog.type[cur] = "hanging", prog.timeout[cur] # "negative"
             PROVE  Enclosing \cap Timed # {}
  BY DEF LintedBounded, Bounded
<1>1. Len(frames) \in 1..Len(frames) /\ frames[Len(frames)].todo # <<>>
  BY TopFrame DEF TInv, TypeOK
<1>2. cur = First(Len(frames)) /\ cur \in Nodes
  BY DEF OnTree, Step, Frame, First, TInv, TypeOK
<1>3. UniqueIDs
  BY AcceptedUnique
<1>4. cur \in Linted(prog)
  <2>1. ASSUME NEW L \in SUBSET Nodes, IsLinted(prog, L) PROVE cur \in L
    BY <1>1, <1>2, <1>3, <2>1, HeadsLinted
  <2>2. QED
    BY <1>2, <2>1 DEF Linted
<1>5. cur \in Timed
  <2>1. TimeoutWarnings(prog) = {}
    BY DEF Unwarned
  <2>2. prog.timeout[cur] # "none"
    BY <1>4, <2>1 DEF TimeoutWarnings
  <2>3. prog.timeout \in [Nodes -> {"none", "positive", "negative"}]
    BY DEF TInv, TypeOK, Program
  <2>4. QED
    BY <1>2, <2>2, <2>3 DEF Timed
<1>6. QED
  BY <1>5 DEF Enclosing

(* In a pipeline that validate accepts and that lint warns of no missing   *)
(* timeout in, whatever executor may hang is under a deadline, unless its  *)
(* timeout is negative.                                                    *)
THEOREM HangingIsBounded == Spec => []LintedBounded
BY ListedInvariant, TimeoutsSet, PTL
==============================================================================
