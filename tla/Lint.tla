-------------------------------- MODULE Lint --------------------------------
(***************************************************************************)
(* What shelby validate and shelby lint say of a pipeline before it runs,  *)
(* against what module Engine then does with it.                           *)
(*                                                                         *)
(* An issue is a pair of the step (or Pipeline) and what is wrong with it. *)
(* The walks over the tree of steps are sets of nodes; only lintSteps      *)
(* depends on the order of its walk.  Names, parsers, files on disk and    *)
(* the style of IDs are left out.                                          *)
(***************************************************************************)
EXTENDS Engine, SequencesExt

Pipeline == "pipeline"

Children(n) == {m \in Nodes : n \in Conds /\ m \in ToSet(Then[n]) \cup ToSet(Else[n])}

(* The steps in the branches of n, at any depth: the least set with the    *)
(* children of n and of its elements.                                      *)
Below ==
    [n \in Nodes |-> {m \in Nodes : \A S \in SUBSET Nodes :
        Children(n) \subseteq S /\ (\A k \in S : Children(k) \subseteq S) => m \in S}]

------------------------------------------------------------------------------
(* Validate.                                                               *)

CollectIDs(p) == {p.id[n] : n \in Nodes}

(* Variant: the branches of a conditional have names of their own.         *)
DuplicatesInTop(p) ==
    {<<p.id[n], "duplicate step id">> :
        n \in {k \in ToSet(Top) : \E m \in ToSet(Top) \ {k} : p.id[m] = p.id[k]}}

DuplicatesPass(p) ==
    {<<p.id[n], "duplicate step id">> : n \in {k \in Nodes : \E m \in Nodes \ {k} : p.id[m] = p.id[k]}}

(* An element of over is compared as it stands with the IDs: the reference *)
(* ${steps.id.output.f} is never one of them.                              *)
CheckSteps(p) ==
    LET badOver(n) == {r \in p.refs[n] : r.form = "over" \/ (r.form = "bare" /\ r.id \notin CollectIDs(p))}
    IN  {<<n, "invalid type">> : n \in {m \in Nodes : p.type[m] = "unknown"}}
        \cup {<<n, "required">> : n \in {m \in Nodes : p.type[m] = "missing"}}
        \cup {<<n, "over references unknown step">> : n \in {m \in Nodes : badOver(m) # {}}}

(* extractStepRefs: the references of stringFields that lint can see.      *)
Visible(p, n) == {r.id : r \in {q \in p.refs[n] : q.form \in {"ref", "command"}}}

(* Variant: walkRefs does not descend into the branches.                   *)
CheckTopRefs(p) ==
    {<<n, "unknown step ref">> : n \in {m \in ToSet(Top) : ~(Visible(p, m) \subseteq CollectIDs(p))}}

CheckRefs(p) ==
    {<<n, "unknown step ref">> : n \in {m \in Nodes : ~(Visible(p, m) \subseteq CollectIDs(p))}}
    \cup {<<i, "unknown step ref in output">> : i \in p.output \ CollectIDs(p)}

Validate(p) ==
    {<<Pipeline, "interval required">> : x \in {p.periodic} \ {TRUE}}
    \cup {<<Pipeline, "at least one step required">> : x \in {Len(Top)} \cap {0}}
    \cup DuplicatesPass(p) \cup CheckSteps(p) \cup CheckRefs(p)

------------------------------------------------------------------------------
(* Lint.                                                                   *)

(* m comes before n in the walk of lintSteps: n is in a branch of it, or   *)
(* stands later in a list; the then branch goes before the else branch.    *)
WalkedBefore(m, n) ==
    \/ n \in Below[m]
    \/ \E list \in {Top} \cup {Then[c] \o Else[c] : c \in Conds} : \E i, j \in DOMAIN list :
          i < j /\ m \in {list[i]} \cup Below[list[i]] /\ n \in {list[j]} \cup Below[list[j]]

(* A step is passed over if its ID has been seen, with all its branches.   *)
(* That determines which steps L are linted.                               *)
IsLinted(p, L) ==
    \A n \in Nodes : n \in L <=>
        \A m \in Nodes : WalkedBefore(m, n) => IF m \in L THEN p.id[m] # p.id[n] ELSE n \notin Below[m]

Linted(p) == {n \in Nodes : \A L \in SUBSET Nodes : IsLinted(p, L) => n \in L}

(* "timeout not set": it is zero.  Only the kinds of steps that need a     *)
(* timeout hang.                                                           *)
TimeoutWarnings(p) ==
    {n \in Linted(p) : p.type[n] = "hanging" /\ p.timeout[n] = "none"}

------------------------------------------------------------------------------
(* Properties.                                                             *)

(* m stands before n: in the list of n or in the list of a conditional     *)
(* around n.                                                               *)
Earlier(m, n) ==
    \E list \in {Top} \cup {Then[c] : c \in Conds} \cup {Else[c] : c \in Conds} :
        \E i, j \in DOMAIN list : i < j /\ list[i] = m /\ n \in {list[j]} \cup Below[list[j]]

(* References to steps point backwards, and not into branches.             *)
Backward(p, forms) ==
    \A n \in Nodes, r \in UNION {p.refs[m] : m \in Nodes} :
        r \in p.refs[n] /\ r.form \in forms /\ r.id \in CollectIDs(p) =>
            \E m \in Nodes : p.id[m] = r.id /\ Earlier(m, n)

(* The pipelines that validate accepts, and those that lint warns of no    *)
(* missing timeout in.                                                     *)
Accepted == {p \in Programs : Validate(p) = {}}
Unwarned == {p \in Programs : TimeoutWarnings(p) = {}}

(* The next step refers to an output that is not stored.                   *)
RefNotFound ==
    /\ pc = "next" /\ Frame.todo # <<>>
    /\ \E r \in prog.refs[Step] : r.form = "ref" /\ steps[r.id] = NotRun

(* A validated pipeline whose references point backwards never gets to a   *)
(* step before the steps it refers to are stored, whatever branches are    *)
(* taken and whatever fails on the way.                                    *)
ValidatedRefsFound == RefNotFound => prog \notin Accepted \/ ~Backward(prog, {"ref"})

(* In a pipeline that validate accepts and that lint warns of no missing   *)
(* timeout in, every hanging step is bounded by one, so the run ends (by   *)
(* RunEnds), unless its timeout is negative: neither lint nor the engine   *)
(* takes that for one.                                                     *)
LintedBounded ==
    ~Bounded => prog \notin Accepted \/ prog \notin Unwarned \/ prog.timeout[cur] = "negative"

(* llms.txt:187-193, the rules that shelby validate enforces.              *)
Documented(p) ==
    /\ p.periodic /\ DuplicatesPass(p) = {}
    /\ \A n \in Nodes : p.type[n] \notin {"unknown", "missing"}
    /\ p.output \subseteq CollectIDs(p)
    /\ \A n \in Nodes : {r.id : r \in p.refs[n]} \subseteq CollectIDs(p)
    /\ Backward(p, {"ref", "over", "short", "command"})

(* Contradicted by the code, see README: a pipeline within the documented  *)
(* rules, like the quick start's (README.md:78), is accepted.              *)
DocumentedAccepted == Documented(prog) => prog \in Accepted
==============================================================================
