----------------------------- MODULE MCScheduler -----------------------------
(* Model values and symmetry for the runs of Scheduler.                    *)
EXTENDS Scheduler, TLC

(* Handlers are interchangeable; used by the safety run alone.             *)
HandlerSymmetry == Permutations(Handlers)
==============================================================================
