---------------------------- MODULE MCExecutors ----------------------------
(***************************************************************************)
(* Steps of every kind: commands without and with a parser, and the        *)
(* aggregation of every sequence of at most two values.  The floats are    *)
(* those with two bits and an exponent up to 2, which are rounded and      *)
(* overflow as soon as a few are added.                                    *)
(***************************************************************************)
EXTENDS Executors

MCFloats == {m * e : m \in -3..3, e \in {1, 2, 4}}
MCHuge == 14

N(k) == <<"num", k>>
Text == <<"text">>
Nil == <<"nil">>
Row(v) == <<"map", [PCT |-> v]>>

Scalars == {N(-12), N(-2), N(1), N(3), N(8), N(12), NaN, Inf(-1), Text, Nil}
Rows == {Row(N(1)), Row(N(3)), Row(Text), <<"map", [MOUNT |-> Text]>>}
Lists == {<<"list", <<>>>>, <<"list", <<N(3), Nil, Text>>>>, <<"list", <<NaN, N(-2)>>>>, <<"list", <<N(12), N(3), N(-12)>>>>,
          <<"list", <<Row(N(1)), Row(N(3))>>>>}
MCData == Scalars \cup Rows \cup Lists \cup {<<"list", <<L, N(1)>>>> : L \in Lists}
MCFields == {"PCT", "MOUNT"}

Parse(engine, skip, types, root, path) ==
    [engine |-> engine, skip |-> skip, types |-> types, root |-> root, path |-> path, most |-> 3]

Records == <<"list", <<Row(N(1)), Row(N(3))>>>>

Parses == {Parse("lines", 1, "good", Nil, <<>>), Parse("regex", 0, "bad", Nil, <<>>), Parse("regex", 0, "good", Nil, <<>>),
           Parse("textfsm", 0, "good", Nil, <<>>),
           Parse("json", 0, "good", Records, <<>>),
           Parse("json", 0, "good", Records, <<<<"index", 1>>, <<"key", "PCT">>>>),
           Parse("json", 0, "good", Records, <<<<"index", 2>>>>)}

Commands == [kind : {"script"}] \cup [kind : {"shell"}, parse : {<<>>} \cup {<<p>> : p \in Parses}]

Aggregators == [kind : {"aggregator"}, op : {"sum", "avg", "min", "max", "count", "merge"},
                field : {NoField, "PCT"},
                over : {<<v>> : v \in MCData} \cup {<<v, w>> : v, w \in MCData}]

MCSteps == Commands \cup Aggregators \cup [kind : {"http_get"}] \cup [kind : {"sys_stat"}, source : BOOLEAN]
==============================================================================
