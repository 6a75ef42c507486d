---------------------------- MODULE ExclusiveRuns ----------------------------
(***************************************************************************)
(* What the scheduler promises (comment of type Scheduler): the runs of a  *)
(* pipeline do not overlap.  A slug is either free or being run by one     *)
(* goroutine, and a run that ends leaves it free: the next one has to be   *)
(* triggered afterwards, none is handed the slot.                          *)
(***************************************************************************)
CONSTANTS Slugs, Procs, Nobody

VARIABLE runner    \* runner[s]: the goroutine that runs s, or Nobody

Init == runner = [s \in Slugs |-> Nobody]

Begin(s, p) ==
    /\ runner[s] = Nobody
    /\ runner' = [runner EXCEPT ![s] = p]

End(s) ==
    /\ runner[s] # Nobody
    /\ runner' = [runner EXCEPT ![s] = Nobody]

Next == \E s \in Slugs : End(s) \/ \E p \in Procs : Begin(s, p)

Spec == Init /\ [][Next]_runner
==============================================================================
