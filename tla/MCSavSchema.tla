-------------------------------- MODULE MCSavSchema -------------------------------
(* The schema over dictionaries of two variables, a very long string of two segments    *)
(* among them, and every choice of two records:   names mapped twice, to one another    *)
(* and to nothing, entries for variables there are and are not.                          *)
EXTENDS SavSchema

Variable(name, numeric, units, raw) ==
  [name |-> name, numeric |-> numeric, units |-> units, raw |-> raw]

NoRaw   == Raw("None", << >>)
UpToOne == Raw("Range", <<Lowest, 1, 3>>)
X       == <<"x">>
XSpace  == <<"x", Space>>
Y       == <<"y", Nul>>

MCDictionaries ==
  {<<Variable("A", FALSE, <<3, 2>>, NoRaw), Variable("B", TRUE, <<1>>, UpToOne)>>,
   <<Variable("A", TRUE, <<1>>, UpToOne), Variable("B", FALSE, <<1>>, Raw("Discrete", <<XSpace>>))>>,
   <<Variable("A", FALSE, <<2>>, NoRaw), Variable("B", FALSE, <<3, 1>>, NoRaw)>>}

Pairs(S) == {<<x>>: x \in S} \cup {<<x, y>>: x, y \in S}

MCLongNames ==
  Pairs({[short |-> "A", long |-> "B"], [short |-> "A", long |-> "X"], [short |-> "B", long |-> "A"],
         [short |-> "B", long |-> "X"], [short |-> "X", long |-> "Y"]})
Named == {"A", "B", "X"}
MCKeySets == {{X}, {Y}}
MCLongMissing == Pairs([name: Named, keys: MCKeySets])
MCLabelSets ==
  {[segments |-> <<0>>, labels |-> 1], [segments |-> <<2, 0>>, labels |-> 2],
   [segments |-> <<1>>, labels |-> 3], [segments |-> <<0, 1>>, labels |-> 4]}
MCLongLabels == Pairs([name: {"A", "X"}, labels: {5, 6}])
MCDisplay ==
  {<<1, 8, 0, 2, 8, 1>>, <<1, 0, 257, 1, 3, 2>>, <<1, 8, 0, 257, 8, 1, 3, 9, 2>>, <<1, 0, 2, 1>>, <<1, 0, 2>>}
MCAttributes == Pairs([name: Named, attributes: {<<1>>, <<2>>}])

MCContents(numeric) ==
  IF numeric THEN {SysMis, Lowest, Highest, 1, 2, 3}
  ELSE {<<"x", Space, Nul>>, <<"y", Space>>, <<"x", "y">>}
===================================================================================
