------------------------------- MODULE Values -------------------------------
(***************************************************************************)
(* The values that steps compute with: what parseOutput makes of the       *)
(* output of a command, and what the aggregator makes of the values that   *)
(* it looks up.                                                            *)
(*                                                                         *)
(* A value is a tuple with a tag: <<"num", n>>, <<"nan">> and <<"inf", s>> *)
(* for a number, a bool or a string that toFloat takes for a float64,      *)
(* <<"text">> for any other string, <<"nil">>, <<"list", s>> and           *)
(* <<"map", f>>.  A finite float64 is a multiple of the least one that is  *)
(* positive, and n is which; <<"int", n>> is a Go int.                     *)
(***************************************************************************)
EXTENDS Integers, SequencesExt

CONSTANTS
    Floats, \* the finite floats
    Huge,   \* the least number that is rounded to +Inf
    Data,   \* the values that occur, closed under elements
    Fields  \* the keys of maps

ASSUME FloatsAssumption ==
    /\ Floats \subseteq Int /\ 0 \in Floats
    /\ Huge \in Int /\ \A x \in Floats : -Huge < x /\ x < Huge

(* Lists are nested to a finite depth: in any set of values there is one   *)
(* with no element in the set.                                             *)
ASSUME DataAssumption ==
    /\ \A v \in Data :
        /\ v[1] \in {"num", "nan", "inf", "text", "nil", "list", "map"}
        /\ v[1] = "num" => v \in {"num"} \X Floats
        /\ v[1] = "inf" => v[2] \in {1, -1}
        /\ v[1] = "list" => v[2] \in Seq(Data)
        /\ v[1] = "map" => DOMAIN v[2] \subseteq Fields /\ \A f \in DOMAIN v[2] : v[2][f] \in Data
    /\ \A S \in (SUBSET Data) \ {{}} : \E v \in S : v[1] = "list" => ToSet(v[2]) \cap S = {}

NaN == <<"nan">>
Inf(sign) == <<"inf", sign>>

IsFinite(v) == v[1] = "num"

(* toFloat succeeds.                                                       *)
IsFloat(v) == v[1] \in {"num", "nan", "inf"}

Less(a, b) ==
    CASE a[1] = "num" /\ b[1] = "num" -> a[2] < b[2]
      [] a[1] = "inf" /\ b[1] = "inf" -> a[2] < b[2]
      [] a[1] = "inf" /\ b[1] = "num" -> a[2] < 0
      [] a[1] = "num" /\ b[1] = "inf" -> b[2] > 0
      [] OTHER -> FALSE

(* The float64 nearest to x / k; of two, the same one every time.          *)
Distance(x, y) == IF x < y THEN y - x ELSE x - y
Nearest(x, k) == CHOOSE y \in Floats : \A z \in Floats : Distance(x, k * y) <= Distance(x, k * z)

Round(x) ==
    CASE x >= Huge -> Inf(1)
      [] x <= -Huge -> Inf(-1)
      [] OTHER -> <<"num", Nearest(x, 1)>>

(* A sum of finite numbers is rounded and may overflow; an infinity stays, *)
(* a NaN too, and opposite infinities make one.                            *)
Add(a, b) ==
    CASE IsFinite(a) /\ IsFinite(b) -> Round(a[2] + b[2])
      [] IsFinite(a) /\ ~IsFinite(b) -> b
      [] ~IsFinite(a) /\ (IsFinite(b) \/ a = b) -> a
      [] OTHER -> NaN

Divide(a, k) == IF IsFinite(a) THEN <<"num", Nearest(a[2], k)>> ELSE a

------------------------------------------------------------------------------
(* Aggregator.Execute, after its references have been resolved.            *)

(* collect walks lists and passes over nil; everything else is a leaf.     *)
Leaves[v \in Data] ==
    CASE v[1] = "list" -> FlattenSeq([k \in DOMAIN v[2] |-> Leaves[v[2][k]]])
      [] v[1] = "nil" -> <<>>
      [] OTHER -> <<v>>

Collect(over) == FlattenSeq([k \in DOMAIN over |-> Leaves[over[k]]])

(* The leaf that a number is read from; NoField is a step without field.   *)
NoField == "no field"
Inner(v, field) == IF v[1] # "map" THEN v ELSE IF field = NoField THEN <<"nil">> ELSE v[2][field]

FieldMissing(leaves, field) ==
    field # NoField /\ \E v \in ToSet(leaves) : v[1] = "map" /\ field \notin DOMAIN v[2]

Numbers(leaves, field) ==
    LET number(v) == IF IsFloat(Inner(v, field)) THEN <<Inner(v, field)>> ELSE <<>>
    IN  FlattenSeq([k \in DOMAIN leaves |-> number(leaves[k])])

Zero == <<"num", 0>>

(* From left to right.                                                     *)
SumOf(nums) ==
    LET total[k \in 0..Len(nums)] == IF k = 0 THEN Zero ELSE Add(total[k - 1], nums[k])
    IN  total[Len(nums)]

(* The loops start from an infinity, and no comparison with NaN is true.   *)
Minimum(nums) == CHOOSE m \in (ToSet(nums) \cup {Inf(1)}) \ {NaN} :
                    \A n \in ToSet(nums) : ~Less(n, m)
Maximum(nums) == CHOOSE m \in (ToSet(nums) \cup {Inf(-1)}) \ {NaN} :
                    \A n \in ToSet(nums) : ~Less(m, n)

(* Variant: only the division by zero is refused.                          *)
EmptyAverage(op, nums) == op = "avg" /\ nums = <<>>

EmptyInput(op, nums) == op \in {"avg", "min", "max"} /\ nums = <<>>

Reduce(op, leaves, nums) ==
    CASE op = "count" -> <<"int", Len(leaves)>>
      [] op = "sum" -> SumOf(nums)
      [] op = "avg" -> Divide(SumOf(nums), Len(nums))
      [] op = "min" -> Minimum(nums)
      [] op = "max" -> Maximum(nums)

(* <<>> is an error.                                                       *)
Aggregate(op, over, field) ==
    LET leaves == Collect(over)
        nums == Numbers(leaves, field)
    IN  IF \/ over = <<>> \/ FieldMissing(leaves, field)
           \/ op \notin {"count", "sum", "avg", "min", "max"}
           \/ EmptyInput(op, nums)
        THEN <<>>
        ELSE <<Reduce(op, leaves, nums)>>

------------------------------------------------------------------------------
(* parseOutput: the number of records, or Error, from a text that is a     *)
(* sequence of lines.  A "row" is a line that is a JSON document on its    *)
(* own, and no document takes more; "space" is a line with only space, and *)
(* "empty" one without any.                                                *)

Error == -1

(* The lines that are not empty, and those that are not only space, by     *)
(* their places.                                                           *)
Nonempty(text) == {k \in DOMAIN text : text[k] # "empty"}
Nonblank(text) == {k \in DOMAIN text : text[k] \notin {"empty", "space"}}

(* The text without the space around it is a JSON document.                *)
IsJSON(text) == \E k \in DOMAIN text : text[k] = "row" /\ Nonblank(text) = {k}

(* Variant: blank lines are records too.                                   *)
SplitLines(text, skip) == IF Len(text) > skip THEN Len(text) - skip ELSE 0

(* parseLines: skip drops nonblank lines.                                  *)
ParseLines(text, skip) ==
    LET lines == Cardinality(Nonblank(text))
    IN  IF lines > skip THEN lines - skip ELSE 0

(* parseRegex: one record for each line that matches, and a pattern may    *)
(* match any that is not empty.  It fails if the pattern is no good.       *)
ParseRegex(text) == {Error} \cup {Cardinality(matches) : matches \in SUBSET Nonempty(text)}

(* jsonDescend: a segment of a path is a key or an index; <<>> is an error. *)
JsonDescend(v, seg) ==
    CASE v # <<>> /\ v[1] = "map" /\ seg[1] = "key" /\ seg[2] \in DOMAIN v[2] -> v[2][seg[2]]
      [] v # <<>> /\ v[1] = "list" /\ seg[1] = "index" /\ seg[2] \in 0..Len(v[2]) - 1 -> v[2][seg[2] + 1]
      [] OTHER -> <<>>

Landed(root, path) ==
    LET cur[k \in 0..Len(path)] == IF k = 0 THEN root ELSE JsonDescend(cur[k - 1], path[k])
    IN  cur[Len(path)]

(* parseJSON: a list has a record for each element, all else is one.       *)
ParseJSON(text, root, path) ==
    LET v == Landed(root, path)
    IN  IF ~IsJSON(text) \/ v = <<>> THEN Error
        ELSE IF v[1] = "list" THEN Len(v[2]) ELSE 1

(* The number of records that the engine of p may make; gotextfsm is a     *)
(* library, whose templates make any number: p.most is a bound.  p.types   *)
(* is "bad" if the records have a field that coerce rejects.               *)
ParseOutput(text, p) ==
    LET parsed == CASE p.engine = "lines" -> {ParseLines(text, p.skip)}
                    [] p.engine = "regex" -> ParseRegex(text)
                    [] p.engine = "json" -> {ParseJSON(text, p.root, p.path)}
                    [] p.engine = "textfsm" -> {Error} \cup 0..p.most
                    [] OTHER -> {Error}
    IN  {IF n > 0 /\ p.types = "bad" THEN Error ELSE n : n \in parsed}
==============================================================================
