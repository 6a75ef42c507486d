-------------------------- MODULE Scheduler_proofs --------------------------
(***************************************************************************)
(* Proofs about module Scheduler for any sets of slugs, handlers, files    *)
(* and pipelines.                                                          *)
(***************************************************************************)
EXTENDS Scheduler, TLAPS

USE SchedulerAssumption DEF SchedulerAssumption, Procs, file

------------------------------------------------------------------------------
(* Type correctness, one lemma per group of actions.                       *)

LEMMA TypeInit == Init => TypeOK
<1> SUFFICES ASSUME Init PROVE TypeOK
  OBVIOUS
<1> USE DEF Init
<1>1. pc \in [Procs -> LoopStates \cup HandlerStates]
  BY DEF LoopStates, HandlerStates
<1>2. \A s \in Slugs : pc[s] = "none" /\ target[s] = s
  OBVIOUS
<1>3. \A h \in Handlers : pc[h] = "idle" /\ target[h] = Nobody
  OBVIOUS
<1>4. \A p \in Procs : pc[p] \in {"none", "idle"}
  OBVIOUS
<1>5. QED
  BY <1>1, <1>2, <1>3, <1>4 DEF TypeOK, LoopStates, HandlerStates, Loaded

LEMMA TypeMain == TypeOK /\ Main => TypeOK'
BY DEF Main, Start, Signal, Cancel, Exit, TypeOK, LoopStates, HandlerStates, Loaded

(* A loop ends tickOnce at its select with its pipeline; a handler ends    *)
(* idle with nothing.                                                      *)
LEMMA TypeLeave ==
    ASSUME TypeOK, NEW p \in Procs, NEW from \in {"get", "load", "tryLock", "run"},
           Leave(p, from), p \in Slugs => from \in Loaded,
           UNCHANGED <<main, file, mu, locks>>, held' \in SUBSET Mutexes
    PROVE  TypeOK'
<1>1. CASE p \in Slugs
  BY <1>1 DEF Leave, Goto, TypeOK, LoopStates, HandlerStates, Loaded
<1>2. CASE p \in Handlers
  BY <1>2 DEF Leave, Goto, TypeOK, LoopStates, HandlerStates, Loaded
<1>3. QED
  BY <1>1, <1>2

LEMMA TypeRun == ASSUME TypeOK, NEW p \in Procs, Run(p) PROVE TypeOK'
<1>1. CASE EnterLockFor(p)
  BY <1>1 DEF EnterLockFor, Goto, TypeOK, LoopStates, HandlerStates, Loaded
<1>2. CASE ExitLockFor(p)
  <2>1. target[p] \in Slugs
    BY <1>2 DEF ExitLockFor, Goto, TypeOK
  <2>2. <<p, target[p]>> \in Mutexes /\ <<p, target[p]>> # NoMutex
    BY <2>1 DEF Mutexes
  <2>3. QED
    BY <1>2, <2>1, <2>2 DEF ExitLockFor, Goto, TypeOK, LoopStates, HandlerStates, Loaded
<1>3. CASE TryLock(p)
  BY <1>3 DEF TryLock, Goto, TypeOK, LoopStates, HandlerStates, Loaded
<1>4. CASE Skip(p)
  BY <1>4, TypeLeave DEF Skip, Loaded, TypeOK
<1>5. CASE FinishRun(p)
  BY <1>5, TypeLeave DEF FinishRun, Loaded, TypeOK
<1>6. QED
  BY <1>1, <1>2, <1>3, <1>4, <1>5 DEF Run

LEMMA TypeLoop == ASSUME TypeOK, NEW s \in Slugs, Loop(s) PROVE TypeOK'
<1>1. CASE Load(s)
  BY <1>1 DEF Load, Goto, TypeOK, LoopStates, HandlerStates, Loaded
<1>2. CASE Fire(s) \/ ReceiveTick(s) \/ Stop(s)
  BY <1>2 DEF Fire, ReceiveTick, Stop, Goto, TypeOK, LoopStates, HandlerStates, Loaded
<1>3. CASE Reload(s)
  BY <1>3 DEF Reload, Goto, TypeOK, LoopStates, HandlerStates, Loaded
<1>4. QED
  BY <1>1, <1>2, <1>3 DEF Loop

LEMMA TypeHandle == ASSUME TypeOK, NEW h \in Handlers, Handle(h) PROVE TypeOK'
<1>1. CASE \E s \in Slugs : Accept(h, s)
  BY <1>1 DEF Accept, Goto, TypeOK, LoopStates, HandlerStates, Loaded
<1>2. CASE Get(h)
  BY <1>2, TypeLeave DEF Get, Goto, TypeOK, LoopStates, HandlerStates, Loaded
<1>3. CASE LoadOnce(h)
  BY <1>3, TypeLeave DEF LoadOnce, Goto, TypeOK, LoopStates, HandlerStates, Loaded
<1>4. CASE Expire(h)
  BY <1>4 DEF Expire, TypeOK, LoopStates, HandlerStates, Loaded
<1>5. QED
  BY <1>1, <1>2, <1>3, <1>4 DEF Handle

LEMMA TypeStep == TypeOK /\ [Next]_vars => TypeOK'
<1> SUFFICES ASSUME TypeOK, [Next]_vars PROVE TypeOK'
  OBVIOUS
<1>1. CASE \E f \in Files, p \in Pipelines \cup {NoPipeline} : EditYaml(f, p)
  BY <1>1 DEF EditYaml, TypeOK, Loaded
<1>2. CASE \E s \in Slugs, f \in Files \cup {NoFile} : EditRegistration(s, f)
  BY <1>2 DEF EditRegistration, TypeOK, Loaded
<1>3. CASE UNCHANGED vars
  BY <1>3 DEF vars, TypeOK
<1>4. QED
  BY <1>1, <1>2, <1>3, TypeMain, TypeRun, TypeLoop, TypeHandle DEF Next, Terminated

(* The variables always have their types; no nil pipeline is executed and  *)
(* no nil mutex is locked.                                                 *)
THEOREM TypeCorrect == Spec => []TypeOK
BY TypeInit, TypeStep, PTL DEF Spec

------------------------------------------------------------------------------
(* Mutual exclusion.                                                       *)

(* NoOverlap is not inductive by itself: two goroutines past TryLock are   *)
(* told apart because they locked the same mutex (LockDiscipline) and that *)
(* mutex is locked as long as the first of them runs (LockedIffRunning).   *)
IInv == TypeOK /\ LockDiscipline /\ LockedIffRunning /\ NoOverlap

(* A step outside lockFor, TryLock and Unlock: nobody enters or leaves a   *)
(* critical place, and whoever stays in one keeps its mutex and its slug.  *)
Quiet ==
    /\ UNCHANGED <<mu, locks, held>>
    /\ \A p \in Procs :
          pc'[p] \in {"inLockFor", "tryLock", "run"} \/ pc[p] \in {"inLockFor", "run"}
          => pc'[p] = pc[p] /\ mutex'[p] = mutex[p] /\ target'[p] = target[p]

LEMMA QuietStep == ASSUME IInv, TypeOK', Quiet PROVE IInv'
<1> USE DEF IInv
<1>1. LockDiscipline'
  BY DEF Quiet, LockDiscipline, TypeOK
<1>2. LockedIffRunning'
  BY DEF Quiet, LockedIffRunning
<1>3. NoOverlap'
  BY DEF Quiet, NoOverlap, Running
<1>4. QED
  BY <1>1, <1>2, <1>3

LEMMA LeaveQuiet ==
    ASSUME TypeOK, NEW p \in Procs, NEW from \in {"get", "load", "tryLock"},
           Leave(p, from), UNCHANGED <<mu, locks, held>>
    PROVE  Quiet
<1>1. CASE p \in Slugs
  BY <1>1 DEF Leave, Goto, TypeOK, Quiet
<1>2. CASE p \in Handlers
  BY <1>2 DEF Leave, Goto, TypeOK, Quiet
<1>3. QED
  BY <1>1, <1>2

LEMMA MainQuiet == TypeOK /\ Main => Quiet
BY DEF Main, Start, Signal, Cancel, Exit, TypeOK, Quiet

LEMMA LoopQuiet == ASSUME TypeOK, NEW s \in Slugs, Loop(s) PROVE Quiet
BY DEF Loop, Load, Fire, ReceiveTick, Reload, Stop, Goto, TypeOK, Quiet

LEMMA HandleQuiet == ASSUME TypeOK, NEW h \in Handlers, Handle(h) PROVE Quiet
<1>1. CASE \E s \in Slugs : Accept(h, s)
  BY <1>1 DEF Accept, Goto, TypeOK, Quiet
<1>2. CASE Get(h)
  BY <1>2, LeaveQuiet DEF Get, Goto, TypeOK, Quiet
<1>3. CASE LoadOnce(h)
  BY <1>3, LeaveQuiet DEF LoadOnce, Goto, TypeOK, Quiet
<1>4. CASE Expire(h)
  BY <1>4 DEF Expire, Quiet
<1>5. QED
  BY <1>1, <1>2, <1>3, <1>4 DEF Handle

(* Entering lockFor: mu is free, so nobody else is between its lookup and  *)
(* its store.                                                              *)
LEMMA EnterLockForStep == ASSUME IInv, TypeOK', NEW p \in Procs, EnterLockFor(p) PROVE IInv'
<1> USE DEF IInv, EnterLockFor, Goto
<1>1. /\ pc[p] = "lockFor" /\ pc'[p] = "inLockFor"
      /\ mutex'[p] = locks[target[p]]
      /\ \A q \in Procs \ {p} : pc'[q] = pc[q] /\ mutex'[q] = mutex[q] /\ pc[q] # "inLockFor"
  BY DEF TypeOK, LockDiscipline
<1>2. LockDiscipline'
  BY <1>1 DEF LockDiscipline, TypeOK
<1>3. LockedIffRunning'
  BY <1>1 DEF LockedIffRunning
<1>4. NoOverlap'
  BY <1>1 DEF NoOverlap, Running
<1>5. QED
  BY <1>2, <1>3, <1>4

(* Leaving lockFor: if the slug had no mutex, nobody holds a reference to  *)
(* one, so storing a new one contradicts no goroutine.                     *)
LEMMA ExitLockForStep == ASSUME IInv, TypeOK', NEW p \in Procs, ExitLockFor(p) PROVE IInv'
<1> USE DEF IInv, ExitLockFor, Goto
<1>1. /\ pc[p] = "inLockFor" /\ pc'[p] = "tryLock" /\ mutex[p] = locks[target[p]]
      /\ \A q \in Procs \ {p} : pc'[q] = pc[q] /\ mutex'[q] = mutex[q] /\ pc[q] # "inLockFor"
  BY DEF TypeOK, LockDiscipline
<1>2. target[p] \in Slugs
  BY <1>1 DEF TypeOK
<1>3. LockDiscipline'
  <2>1. mutex'[p] = locks'[target[p]]
    BY <1>1, <1>2 DEF TypeOK
  <2>2. \A q \in Procs \ {p} : pc[q] \in {"tryLock", "run"} => locks'[target[q]] = locks[target[q]]
    BY <1>1, <1>2 DEF TypeOK, LockDiscipline
  <2>3. \A s \in Slugs : locks'[s] # NoMutex => locks'[s][2] = s
    BY <1>2 DEF TypeOK, LockDiscipline
  <2>4. QED
    BY <1>1, <2>1, <2>2, <2>3 DEF LockDiscipline, TypeOK
<1>4. LockedIffRunning'
  BY <1>1 DEF LockedIffRunning
<1>5. NoOverlap'
  BY <1>1 DEF NoOverlap, Running
<1>6. QED
  BY <1>3, <1>4, <1>5

(* A successful TryLock: a run of the same slug would hold the same mutex. *)
LEMMA TryLockStep == ASSUME IInv, TypeOK', NEW p \in Procs, TryLock(p) PROVE IInv'
<1> USE DEF IInv, TryLock, Goto
<1>1. /\ pc[p] = "tryLock" /\ pc'[p] = "run"
      /\ \A q \in Procs \ {p} : pc'[q] = pc[q]
  BY DEF TypeOK
<1>2. LockDiscipline'
  BY <1>1 DEF LockDiscipline, TypeOK
<1>3. LockedIffRunning'
  BY <1>1 DEF LockedIffRunning
<1>4. \A q \in Procs : pc[q] = "run" => target[q] # target[p]
  BY <1>1 DEF LockDiscipline, LockedIffRunning
<1>5. NoOverlap'
  BY <1>1, <1>4 DEF NoOverlap, Running
<1>6. QED
  BY <1>2, <1>3, <1>5

(* Unlock: a run that goes on holds another mutex, since it has another    *)
(* slug and mutexes of two slugs differ.                                   *)
LEMMA FinishRunStep == ASSUME IInv, TypeOK', NEW p \in Procs, FinishRun(p) PROVE IInv'
<1> USE DEF IInv
<1>1. /\ pc[p] = "run" /\ pc'[p] \notin {"inLockFor", "tryLock", "run"}
      /\ held' = held \ {mutex[p]} /\ UNCHANGED <<mu, locks>>
      /\ \A q \in Procs \ {p} : pc'[q] = pc[q] /\ mutex'[q] = mutex[q] /\ target'[q] = target[q]
  BY DEF FinishRun, Leave, Goto, TypeOK
<1>2. \A q \in Procs \ {p} : pc[q] = "run" => mutex[q] # mutex[p]
  <2> SUFFICES ASSUME NEW q \in Procs \ {p}, pc[q] = "run", mutex[q] = mutex[p] PROVE FALSE
    OBVIOUS
  <2>1. target[p] \in Slugs /\ target[q] \in Slugs
    BY <1>1 DEF TypeOK
  <2>2. target[p] = target[q]
    BY <1>1, <2>1 DEF LockDiscipline, TypeOK
  <2>3. QED
    BY <1>1, <2>1, <2>2 DEF NoOverlap, Running
<1>3. LockDiscipline'
  BY <1>1 DEF LockDiscipline, TypeOK
<1>4. LockedIffRunning'
  BY <1>1, <1>2 DEF LockedIffRunning
<1>5. NoOverlap'
  BY <1>1 DEF NoOverlap, Running
<1>6. QED
  BY <1>3, <1>4, <1>5

LEMMA IInvInit == Init => IInv
<1> SUFFICES ASSUME Init PROVE IInv
  OBVIOUS
<1>1. \A p \in Procs : pc[p] \in {"none", "idle"}
  BY DEF Init
<1>2. mu \notin Procs /\ \A s \in Slugs : locks[s] = NoMutex
  BY DEF Init
<1>3. LockDiscipline /\ NoOverlap
  BY <1>1, <1>2 DEF LockDiscipline, NoOverlap, Running
<1>4. LockedIffRunning
  BY <1>1 DEF Init, LockedIffRunning
<1>5. QED
  BY TypeInit, <1>3, <1>4 DEF IInv

LEMMA IInvStep == IInv /\ [Next]_vars => IInv'
<1> SUFFICES ASSUME IInv, [Next]_vars PROVE IInv'
  OBVIOUS
<1>1. TypeOK /\ TypeOK'
  BY TypeStep DEF IInv
<1>2. CASE \E f \in Files, p \in Pipelines \cup {NoPipeline} : EditYaml(f, p)
  BY <1>1, <1>2, QuietStep DEF EditYaml, Quiet
<1>3. CASE \E s \in Slugs, f \in Files \cup {NoFile} : EditRegistration(s, f)
  BY <1>1, <1>3, QuietStep DEF EditRegistration, Quiet
<1>4. CASE Main
  BY <1>1, <1>4, QuietStep, MainQuiet
<1>5. ASSUME NEW p \in Procs, Run(p) PROVE IInv'
  <2>1. CASE Skip(p)
    BY <1>1, <2>1, QuietStep, LeaveQuiet DEF Skip
  <2>2. QED
    BY <1>1, <1>5, <2>1, EnterLockForStep, ExitLockForStep, TryLockStep, FinishRunStep DEF Run
<1>6. CASE \E s \in Slugs : Loop(s)
  BY <1>1, <1>6, QuietStep, LoopQuiet
<1>7. CASE \E h \in Handlers : Handle(h)
  BY <1>1, <1>7, QuietStep, HandleQuiet
<1>8. CASE UNCHANGED vars
  BY <1>1, <1>8, QuietStep DEF vars, Quiet
<1>9. QED
  BY <1>2, <1>3, <1>4, <1>5, <1>6, <1>7, <1>8 DEF Next, Terminated

(* Whatever the registrations, the edits and the requests, the daemon      *)
(* never executes two runs of a pipeline at a time.                        *)
THEOREM MutualExclusion == Spec => []NoOverlap
<1>1. Spec => []IInv
  BY IInvInit, IInvStep, PTL DEF Spec
<1>2. IInv => NoOverlap
  BY DEF IInv
<1>3. QED
  BY <1>1, <1>2, PTL

(* No run leaks a mutex and no mutex is locked without a run.              *)
THEOREM NoLeakedLock == Spec => []LockedIffRunning
<1>1. Spec => []IInv
  BY IInvInit, IInvStep, PTL DEF Spec
<1>2. IInv => LockedIffRunning
  BY DEF IInv
<1>3. QED
  BY <1>1, <1>2, PTL

(* All callers of lockFor for one slug agree on its mutex.                 *)
THEOREM LockForAgrees == Spec => []LockDiscipline
<1>1. Spec => []IInv
  BY IInvInit, IInvStep, PTL DEF Spec
<1>2. IInv => LockDiscipline
  BY DEF IInv
<1>3. QED
  BY <1>1, <1>2, PTL

------------------------------------------------------------------------------
(* Refinement of ExclusiveRuns.                                            *)

LEMMA RunnerValue ==
    ASSUME NoOverlap, NEW s \in Slugs
    PROVE  /\ Running(s) = {} => Runner[s] = Nobody
           /\ \A p \in Running(s) : Runner[s] = p
BY DEF Runner, NoOverlap

LEMMA RunnerNextValue ==
    ASSUME NoOverlap', NEW s \in Slugs
    PROVE  /\ Running(s)' = {} => Runner'[s] = Nobody
           /\ \A p \in Running(s)' : Runner'[s] = p
BY DEF Runner, NoOverlap

LEMMA RunnerFunction ==
    /\ Runner = [s \in Slugs |-> Runner[s]]
    /\ Runner' = [s \in Slugs |-> Runner'[s]]
BY DEF Runner

(* A step that changes no Running(s) is a stuttering step of the abstract  *)
(* specification.                                                          *)
LEMMA RunnerStutter ==
    ASSUME NoOverlap, NoOverlap', \A s \in Slugs : Running(s)' = Running(s)
    PROVE  Runner' = Runner
<1>1. \A s \in Slugs : Runner[s] = Runner'[s]
  <2> TAKE s \in Slugs
  <2>1. CASE Running(s) = {}
    BY <2>1 DEF Runner
  <2>2. CASE Running(s) # {}
    <3>1. PICK p \in Running(s) : TRUE
      BY <2>2
    <3>2. Runner[s] = p
      BY <3>1 DEF NoOverlap, Runner
    <3>3. Runner'[s] = p
      BY <3>1 DEF NoOverlap, Runner
    <3>4. QED
      BY <3>2, <3>3
  <2>3. QED
    BY <2>1, <2>2
<1>2. QED
  BY <1>1 DEF Runner

LEMMA QuietStutter ==
    ASSUME IInv, IInv', Quiet PROVE UNCHANGED Runner
<1>1. \A s \in Slugs : Running(s)' = Running(s)
  BY DEF Running, Quiet
<1>2. QED
  BY <1>1, RunnerStutter DEF IInv

LEMMA BeginStep ==
    ASSUME IInv, IInv', NEW p \in Procs, TryLock(p)
    PROVE  target[p] \in Slugs /\ Abstract!Begin(target[p], p)
<1>1. /\ pc[p] = "tryLock" /\ pc'[p] = "run" /\ target' = target
      /\ \A q \in Procs \ {p} : pc'[q] = pc[q]
  BY DEF TryLock, Goto, IInv, TypeOK
<1>2. PICK t \in Slugs : t = target[p]
  BY <1>1 DEF IInv, TypeOK
<1>3. Running(t) = {}
  BY <1>1, <1>2 DEF IInv, LockDiscipline, LockedIffRunning, Running, TryLock
<1>4. p \in Running(t)'
  BY <1>1, <1>2 DEF Running
<1>5. Runner[t] = Nobody /\ Runner'[t] = p
  BY <1>2, <1>3, <1>4, RunnerValue, RunnerNextValue DEF IInv
<1>6. \A s \in Slugs \ {t} : Runner'[s] = Runner[s]
  <2> TAKE s \in Slugs \ {t}
  <2>1. Running(s)' = Running(s)
    BY <1>1, <1>2 DEF Running
  <2>2. CASE Running(s) = {}
    BY <2>1, <2>2 DEF Runner
  <2>3. CASE Running(s) # {}
    BY <2>1, <2>3, RunnerValue DEF Runner, IInv, NoOverlap
  <2>4. QED
    BY <2>2, <2>3
<1>7. Runner' = [Runner EXCEPT ![t] = p]
  BY <1>2, <1>5, <1>6, RunnerFunction
<1>8. QED
  BY <1>2, <1>5, <1>7 DEF Abstract!Begin

LEMMA EndStep ==
    ASSUME IInv, IInv', NEW p \in Procs, FinishRun(p)
    PROVE  target[p] \in Slugs /\ Abstract!End(target[p])
<1>1. /\ pc[p] = "run" /\ pc'[p] # "run"
      /\ \A q \in Procs \ {p} : pc'[q] = pc[q] /\ target'[q] = target[q]
  BY DEF FinishRun, Leave, Goto, IInv, TypeOK
<1>2. PICK t \in Slugs : t = target[p]
  BY <1>1 DEF IInv, TypeOK
<1>3. p \in Running(t)
  BY <1>1, <1>2 DEF Running
<1>4. Running(t)' = {}
  <2> SUFFICES ASSUME NEW q \in Running(t)' PROVE FALSE
    OBVIOUS
  <2>1. q \in Procs \ {p} /\ pc'[q] = "run" /\ target'[q] = t
    BY <1>1 DEF Running
  <2>2. q \in Running(t)
    BY <1>1, <2>1 DEF Running
  <2>3. QED
    BY <1>2, <1>3, <2>1, <2>2 DEF IInv, NoOverlap
<1>5. Runner[t] = p /\ Runner'[t] = Nobody
  BY <1>2, <1>3, <1>4, RunnerValue, RunnerNextValue DEF IInv
<1>6. \A s \in Slugs \ {t} : Runner'[s] = Runner[s]
  <2> TAKE s \in Slugs \ {t}
  <2>1. Running(s)' = Running(s)
    BY <1>1, <1>2 DEF Running
  <2>2. CASE Running(s) = {}
    BY <2>1, <2>2 DEF Runner
  <2>3. CASE Running(s) # {}
    BY <2>1, <2>3, RunnerValue DEF Runner, IInv, NoOverlap
  <2>4. QED
    BY <2>2, <2>3
<1>7. Runner' = [Runner EXCEPT ![t] = Nobody]
  BY <1>2, <1>5, <1>6, RunnerFunction
<1>8. Runner[t] # Nobody
  BY <1>5
<1>9. QED
  BY <1>2, <1>7, <1>8 DEF Abstract!End

LEMMA StepSimulation ==
    ASSUME IInv, IInv', [Next]_vars PROVE [Abstract!Next]_Runner
<1>1. TypeOK
  BY DEF IInv
<1>2. CASE \E f \in Files, p \in Pipelines \cup {NoPipeline} : EditYaml(f, p)
  BY <1>2, QuietStutter DEF EditYaml, Quiet
<1>3. CASE \E s \in Slugs, f \in Files \cup {NoFile} : EditRegistration(s, f)
  BY <1>3, QuietStutter DEF EditRegistration, Quiet
<1>4. CASE Main
  BY <1>1, <1>4, QuietStutter, MainQuiet
<1>5. ASSUME NEW p \in Procs, Run(p) PROVE [Abstract!Next]_Runner
  <2>1. CASE EnterLockFor(p) \/ ExitLockFor(p)
    <3>1. \A s \in Slugs : Running(s)' = Running(s)
      BY <1>1, <2>1 DEF EnterLockFor, ExitLockFor, Goto, Running, TypeOK
    <3>2. QED
      BY <3>1, RunnerStutter DEF IInv
  <2>2. CASE TryLock(p)
    BY <2>2, BeginStep DEF Abstract!Next
  <2>3. CASE Skip(p)
    BY <1>1, <2>3, QuietStutter, LeaveQuiet DEF Skip
  <2>4. CASE FinishRun(p)
    BY <2>4, EndStep DEF Abstract!Next
  <2>5. QED
    BY <1>5, <2>1, <2>2, <2>3, <2>4 DEF Run
<1>6. CASE \E s \in Slugs : Loop(s)
  BY <1>1, <1>6, QuietStutter, LoopQuiet
<1>7. CASE \E h \in Handlers : Handle(h)
  BY <1>1, <1>7, QuietStutter, HandleQuiet
<1>8. CASE UNCHANGED vars
  BY <1>8, QuietStutter DEF vars, Quiet
<1>9. QED
  BY <1>2, <1>3, <1>4, <1>5, <1>6, <1>7, <1>8 DEF Next, Terminated

(* The daemon implements ExclusiveRuns: runs begin on a free slug only and *)
(* end before the next one begins.                                         *)
THEOREM Refinement == Spec => ImplementsExclusiveRuns
<1>1. Init => Abstract!Init
  <2> SUFFICES ASSUME Init PROVE Abstract!Init
    OBVIOUS
  <2>1. \A s \in Slugs : Running(s) = {}
    BY DEF Init, Running
  <2>2. QED
    BY <2>1 DEF Runner, Abstract!Init
<1>2. IInv /\ IInv' /\ [Next]_vars => [Abstract!Next]_Runner
  BY StepSimulation
<1>3. Spec => []IInv
  BY IInvInit, IInvStep, PTL DEF Spec
<1>4. QED
  BY <1>1, <1>2, <1>3, PTL DEF Spec, ImplementsExclusiveRuns, Abstract!Spec
==============================================================================
