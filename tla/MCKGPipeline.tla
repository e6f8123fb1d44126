---------------------------- MODULE MCKGPipeline ----------------------------
(***************************************************************************)
(* KGPipeline for the model checker.  The author's graph has a rule on a   *)
(* checkable obligation, tiered low and scoped to EU, and a rule on a      *)
(* qualitative one, tiered high; France is in the EU and Brittany in       *)
(* France.  The edits reach shared obligations, lost edges, cycles of      *)
(* parents, ids used twice in one array and in two.                        *)
(***************************************************************************)
EXTENDS KGPipeline

MCLower == [EU |-> "eu", T1 |-> "t1", X |-> "x", Low |-> "low"]
MCGuess == [t1 |-> "must_not_exceed", T1 |-> "must_not_exceed", t2 |-> "discretionary",
            blank |-> "must"]
MCSubjectOf == [t1 |-> <<"s">>, T1 |-> <<"s">>, t2 |-> <<"t">>, blank |-> <<"unknown">>]

Node(id, data) == [id |-> <<id>>, data |-> data]
Edge(type, from, to) == [type |-> type, from |-> <<from>>, to |-> <<to>>]
Ob(type, until) == [type |-> type, from |-> 1, until |-> until]

Graph == [nodes |-> [k \in ToSet(Kinds) |->
            CASE k = "rules" -> <<Node("r1", "low"), Node("r2", "high")>>
              [] k = "obligations" -> <<Node("o1", Ob("must_not_exceed", None)),
                                        Node("o2", Ob("discretionary", None))>>
              [] k = "jurisdictions" -> <<Node("EU", None), Node("fr", <<"EU">>), Node("br", <<"fr">>)>>
              [] k = "subjects" -> <<Node("s", None)>>
              [] OTHER -> <<>>],
          edges |-> {Edge("consists_of", "r1", "o1"), Edge("consists_of", "r2", "o2"),
                     Edge("scoped_to", "o1", "EU"), Edge("applies_to", "r2", "s")}]

FlatRules(id, type, tiers, places, until) ==
  [id : {<<id>>}, type : {type}, tier : tiers, jurisdiction : places, from : {None}, until : until]
Flats == {[rules |-> <<r1, r2>>, registry |-> reg] :
            r1 \in FlatRules("a", "must_not_exceed", {None, "Low", "critical"},
                  {{}, {<<"global">>}, {<<"EU">>}, {<<"global">>, <<"EU">>}, {<<"fr">>, <<"EU">>}}, {None}),
            r2 \in FlatRules("b", "discretionary", {"standard", "Low"},
                  {{<<"global">>}, {<<"fr">>}}, {None, 1}),
            reg \in {[s |-> <<"a">>], [s |-> <<"a">>, t |-> <<"b">>], [s |-> <<"c">>]}}
\* The registry is keyed by subject ids.
Registry(reg) == [i \in {<<s>> : s \in DOMAIN reg} |-> reg[i[1]]]

MCDrafts == {[shape |-> "graph", kg |-> Graph]}
              \cup {[shape |-> "flat", kg |-> [f EXCEPT !.registry = Registry(@)]] : f \in Flats}

Found(ids, triples, qualities, from, until) ==
  [id : ids, triple : triples, quality : qualities, from : {from}, until : {until}]
Plain == Found({None, <<"x">>, <<"X">>}, {"t1", "T1", "t2"}, {"EXPLICIT"}, None, None)
Odd == Found({None}, {"t2", "blank"}, {"EXPLICIT", "IMPLIED", "unknown"}, None, None)
         \cup Found({None}, {"t2"}, {"EXPLICIT", "IMPLIED"}, 2, 2)
One == {<<i>> : i \in Plain \cup Odd}
\* Two chunks: at most one item in each, or two plain items in the first.
MCAnswers == {<<a, b>> : a \in One \cup {<<>>, None}, b \in One \cup {None}}
               \cup {<<<<i, j>>, None>> : i, j \in Plain}

MCPlaces == {<<"EU">>, <<"fr">>, <<"br">>, <<"global">>}
MCMaxEdits == [graph |-> 2, flat |-> 0, extracted |-> 0]
MCSubjects == {<<"s">>, <<"t">>}

MCNodeEdits == {<<"rules", Node("r1", "low")>>, <<"rules", Node("r1", None)>>, <<"rules", Node("r1", "medium")>>,
                <<"obligations", Node("o2", Ob("discretionary", 1))>>,
                <<"obligations", Node("o2", Ob("discretionary", None))>>,
                <<"jurisdictions", Node("EU", None)>>, <<"jurisdictions", Node("EU", <<"br">>)>>,
                <<"jurisdictions", Node("fr", <<"EU">>)>>, <<"jurisdictions", Node("global", None)>>,
                <<"citations", Node("o1", None)>>}
MCEdgeEdits == {Edge("consists_of", "r1", "o2"), Edge("consists_of", "r2", "o1"),
                Edge("consists_of", "r2", "o2"), Edge("consists_of", "r1", "s"), Edge("scoped_to", "r1", "s"),
                Edge("scoped_to", "o1", "EU"), Edge("scoped_to", "r2", "fr"),
                Edge("scoped_to", "o2", "global"), Edge("applies_to", "r2", "s"),
                Edge("applies_to", "r1", "s")}
=============================================================================
