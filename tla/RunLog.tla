------------------------------- MODULE RunLog -------------------------------
(***************************************************************************)
(* What the store promises about the history of runs ("RecordRun appends a *)
(* run history entry", store.go), however many processes use it and        *)
(* wherever they stop: a run gets a file once, in the history of one       *)
(* pipeline; the file is completed once, if at all, and stays as it is as  *)
(* long as nobody deletes that history; and a run whose file is gone is    *)
(* never seen again.  A deletion takes the files one by one and may stop   *)
(* anywhere.                                                               *)
(***************************************************************************)
CONSTANTS Slugs, RunIDs, Seconds

VARIABLES
    files,    \* files[s]: the files in the history of s
    seen,     \* the runs that have, have had or will never get a file
    deleting  \* the slugs whose history somebody is deleting

vars == <<files, seen, deleting>>

Init ==
    /\ files = [s \in Slugs |-> {}]
    /\ seen = {}
    /\ deleting = {}

(* The file of a new run is there, and empty.                              *)
Create(s, i, t) ==
    /\ i \notin seen
    /\ seen' = seen \cup {i}
    /\ files' = [files EXCEPT ![s] = @ \cup {[id |-> i, second |-> t, complete |-> FALSE]}]
    /\ UNCHANGED deleting

Complete(s, f) ==
    /\ f \in files[s] /\ ~f.complete
    /\ files' = [files EXCEPT ![s] = (@ \ {f}) \cup {[id |-> f.id, second |-> f.second, complete |-> TRUE]}]
    /\ UNCHANGED <<seen, deleting>>

(* A run is over without having been recorded.                             *)
Lose(i) ==
    /\ seen' = seen \cup {i}
    /\ UNCHANGED <<files, deleting>>

(* Deletions begin, end or give up.                                        *)
Turn(S) ==
    /\ deleting' = S
    /\ UNCHANGED <<files, seen>>

Delete(s, f) ==
    /\ s \in deleting
    /\ f \in files[s]
    /\ files' = [files EXCEPT ![s] = @ \ {f}]
    /\ UNCHANGED <<seen, deleting>>

Next ==
    \/ \E s \in Slugs, i \in RunIDs, t \in Seconds : Create(s, i, t)
    \/ \E s \in Slugs : \E f \in files[s] : Complete(s, f)
    \/ \E i \in RunIDs : Lose(i)
    \/ \E S \in SUBSET Slugs : Turn(S)
    \/ \E s \in Slugs : \E f \in files[s] : Delete(s, f)

Spec == Init /\ [][Next]_vars
==============================================================================
