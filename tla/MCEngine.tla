------------------------------ MODULE MCEngine ------------------------------
(***************************************************************************)
(* Runs of Engine and Lint: three steps, the second a conditional whose    *)
(* then branch holds a step and another conditional.                       *)
(*                                                                         *)
(* In each of RunPrograms at most one step is unusual, at most one refers  *)
(* to another and at most one has a timeout, which is enough for every     *)
(* pair of those to meet.  LintPrograms have what validation looks at:     *)
(* every form of reference, to any step or to none.                        *)
(***************************************************************************)
EXTENDS Lint, FiniteSets

MCNodes == {"a", "c", "t", "d", "u", "b"}
MCConds == {"c", "d"}
MCTop == <<"a", "c", "b">>
MCThen == [c |-> <<"t", "d">>, d |-> <<>>]
MCElse == [c |-> <<>>, d |-> <<"u">>]
MCIDs == MCNodes \cup {"ghost"}

AtMostOne(S) == {T \in SUBSET S : Cardinality(T) <= 1}

(* IDs are the nodes' names, or u shares the ID of a.                      *)
Naming == {[n \in MCNodes |-> n], [n \in MCNodes |-> IF n = "u" THEN "a" ELSE n]}

(* At most one step of N is of a type in T, the others are quick.          *)
Types(N, T) == {[n \in MCNodes |-> IF n \in M THEN t ELSE "quick"] : M \in AtMostOne(N), t \in T}

(* At most one step of N has a reference of R.                             *)
References(N, R) == {[n \in MCNodes |-> IF n = m THEN S ELSE {}] : m \in N, S \in AtMostOne(R)}

Refs(ids, forms) == [id : ids, form : forms]

(* At most one step of N has a timeout, of a sign in T.                    *)
Timeouts(N, T) == {[n \in MCNodes |-> IF n \in M THEN t ELSE "none"] : M \in AtMostOne(N), t \in T}

RunPrograms == [id : Naming, type : Types(MCNodes \ MCConds, {"hanging", "unknown"}),
                refs : References({"b", "u"}, Refs({"a", "c", "t", "u"}, {"ref"})),
                timeout : Timeouts({"c", "t", "u"}, {"positive"}) \cup Timeouts({"u"}, {"negative"}),
                output : {{}, {"u"}}, periodic : {TRUE}]

LintPrograms ==
    [id : Naming, type : Types({"t"}, {"missing", "log_read"}),
     refs : References({"b", "u"}, Refs({"a", "b", "t", "ghost"}, {"ref", "over", "bare", "short", "command"}))
            \cup References({"c", "d"}, Refs({"a", "t", "ghost"}, {"ref", "native"})),
     timeout : Timeouts({}, {"none"}), output : {{}}, periodic : {TRUE}]
    \cup [id : Naming, type : Types({}, {"quick"}), refs : References({"b"}, {}),
          timeout : Timeouts({}, {"none"}), output : {{}, {"ghost"}}, periodic : BOOLEAN]

MCPrograms == RunPrograms \cup LintPrograms
==============================================================================
