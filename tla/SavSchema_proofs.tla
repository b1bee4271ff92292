----------------------------- MODULE SavSchema_proofs -----------------------------
(* The schema, for every dictionary and every record: what the loops of build have made of   *)
(* the entries dealt with so far, and, where names are used once, that the layout reads the    *)
(* same missing values out of the same records.                                                 *)
EXTENDS SavSchema, SequenceLemmas

-----------------------------------------------------------------------------------
(* The first and the last of some places *)

LEMMA FirstOfFacts ==
  ASSUME NEW n \in Nat, NEW S \in SUBSET (1..n)
  PROVE  /\ FirstOf(S) \in 0..n
         /\ FirstOf(S) = 0 <=> S = {}
         /\ S # {} => FirstOf(S) \in S /\ \A j \in S: FirstOf(S) <= j
<1>1. CASE S = {}
  BY <1>1 DEF FirstOf
<1>2. CASE S # {}
  <2>1. S \in SUBSET Nat
    OBVIOUS
  <2>2. \E i \in S: \A j \in S: i <= j
    BY <1>2, <2>1, LeastNumber
  <2>3. Least(S) \in S /\ \A j \in S: Least(S) <= j
    BY <2>2, Zenon DEF Least
  <2>4. Least(S) \in 0..n /\ Least(S) # 0
    <3>1. \A j \in S: j \in 0..n /\ j # 0
      OBVIOUS
    <3> QED
      BY <2>3, <3>1
  <2>5. FirstOf(S) = Least(S)
    BY <1>2 DEF FirstOf
  <2> QED
    BY <1>2, <2>3, <2>4, <2>5
<1> QED
  BY <1>1, <1>2

(* The greatest of numbers up to n + 1, one of which is n + 1. *)
LEMMA GreatestGrows ==
  ASSUME NEW n \in Nat, NEW S \in SUBSET (1..(n + 1)), n + 1 \in S
  PROVE  Max(S) = n + 1
<1>1. n + 1 \in Nat /\ S # {}
  OBVIOUS
<1>2. Max(S) \in S /\ \A y \in S: y <= Max(S)
  BY <1>1, GreatestNumber
<1>3. \A y \in S: y \in Nat /\ y <= n + 1
  OBVIOUS
<1>4. Max(S) \in Nat /\ Max(S) <= n + 1 /\ n + 1 <= Max(S)
  BY <1>2, <1>3
<1> QED
  BY <1>4

-----------------------------------------------------------------------------------
(* Where build is, and its types *)

Loops == {"longNames", "valueLabels", "attributes", "longValueLabels", "longMissing"}

(* How many entries a loop has dealt with: none before it began, all once it is through. *)
Handled(loop, before, entries) ==
  IF building \in before THEN 0 ELSE IF building = loop THEN turn ELSE Len(entries)

LongNamesDone  == Handled("longNames", {"feeding"}, longNames)
LabelSetsDone  == Handled("valueLabels", {"feeding", "longNames", "display"}, valueLabelSets)
AttributesDone ==
  Handled("attributes", {"feeding", "longNames", "display", "valueLabels"}, attributes)
LongLabelsDone ==
  Handled("longValueLabels", {"feeding", "longNames", "display", "valueLabels", "attributes"}, longValueLabels)
LongMissingDone ==
  IF building = "longMissing" THEN turn ELSE IF building = "built" THEN Len(longMissing) ELSE 0

PayloadsTyped ==
  /\ longNames \in Seq([short: Names, long: Names])
  /\ longMissing \in Seq([name: Names, keys: KeySets])
  /\ valueLabelSets \in Seq([segments: Seq(Nat), labels: Nat])
  /\ longValueLabels \in Seq([name: Names, labels: Nat])
  /\ display \in Seq(Nat)
  /\ attributes \in Seq([name: Names, attributes: Seq(Nat)])

TurnInRange ==
  /\ building \in {"feeding", "display", "built"} \cup Loops
  /\ turn \in Nat
  /\ building \in {"feeding", "display", "built"} => turn = 0
  /\ building = "longNames" => turn <= Len(longNames)
  /\ building = "valueLabels" => turn <= Len(valueLabelSets)
  /\ building = "attributes" => turn <= Len(attributes)
  /\ building = "longValueLabels" => turn <= Len(longValueLabels)
  /\ building = "longMissing" => turn <= Len(longMissing)

IsVariable(x) ==
  x = [short |-> x.short, long |-> x.long, numeric |-> x.numeric, index |-> x.index,
       missing |-> x.missing, labels |-> x.labels, display |-> x.display,
       attributes |-> x.attributes]

(* One description to a variable of the layout, with its name and its kind. *)
AllDescribed ==
  IF building = "feeding" THEN variables = << >>
  ELSE /\ DOMAIN variables = DOMAIN layout
       /\ \A v \in DOMAIN variables:
            /\ IsVariable(variables[v])
            /\ variables[v].short = layout[v].name /\ variables[v].numeric = layout[v].numeric

BuildInv ==
  /\ layout \in Dictionaries
  /\ PayloadsTyped
  /\ attributes = carried
  /\ TurnInRange
  /\ AllDescribed
  /\ building \notin {"feeding", "longNames"} => names = NameIndex

LEMMA LayoutFacts ==
  ASSUME layout \in Dictionaries
  PROVE  /\ Len(layout) \in Nat /\ DOMAIN layout = 1..Len(layout)
         /\ \A v \in 1..Len(layout):
              /\ layout[v].name \in Names /\ layout[v].numeric \in BOOLEAN
              /\ layout[v].units \in Seq(Nat \ {0}) /\ layout[v].units # << >>
BY DictionariesAssumption

LEMMA PlacesOfVariables ==
  ASSUME BuildInv
  PROVE  DOMAIN variables \subseteq 1..Len(layout) /\ Len(layout) \in Nat
<1>1. Len(layout) \in Nat /\ DOMAIN layout = 1..Len(layout)
  BY LayoutFacts DEF BuildInv
<1> QED
  BY <1>1 DEF BuildInv, AllDescribed

(* What an entry's name finds is a variable of that name, the first one, or none. *)
LEMMA IndexFacts ==
  ASSUME BuildInv, NEW name
  PROVE  /\ VariableIndex(name) \in 0..Len(layout) /\ VariableIndex(name) \in DOMAIN variables \cup {0}
         /\ VariableIndex(name) = 0 <=> \A v \in DOMAIN variables: FullName(variables[v]) # name
         /\ VariableIndex(name) # 0 => FullName(variables[VariableIndex(name)]) = name
<1> DEFINE S == {v \in DOMAIN variables: FullName(variables[v]) = name}
<1>1. S \in SUBSET (1..Len(layout)) /\ Len(layout) \in Nat
  BY PlacesOfVariables
<1>2. VariableIndex(name) = FirstOf(S)
  BY DEF VariableIndex
<1>3. S = {} <=> \A v \in DOMAIN variables: FullName(variables[v]) # name
  OBVIOUS
<1>4. \A v \in S: v \in DOMAIN variables /\ FullName(variables[v]) = name
  OBVIOUS
<1> HIDE DEF S
<1> QED
  BY <1>1, <1>2, <1>3, <1>4, FirstOfFacts

LEMMA ShortNameFacts ==
  ASSUME BuildInv, NEW name
  PROVE  /\ ByShortName(name) \in 0..Len(layout) /\ ByShortName(name) \in DOMAIN layout \cup {0}
         /\ ByShortName(name) = 0 <=> \A v \in DOMAIN layout: layout[v].name # name
         /\ ByShortName(name) # 0 => layout[ByShortName(name)].name = name
<1> DEFINE S == {v \in DOMAIN layout: layout[v].name = name}
<1>1. S \in SUBSET (1..Len(layout)) /\ Len(layout) \in Nat
  BY LayoutFacts DEF BuildInv
<1>2. ByShortName(name) = FirstOf(S)
  BY DEF ByShortName
<1>3. S = {} <=> \A v \in DOMAIN layout: layout[v].name # name
  OBVIOUS
<1>4. \A v \in S: v \in DOMAIN layout /\ layout[v].name = name
  OBVIOUS
<1> HIDE DEF S
<1> QED
  BY <1>1, <1>2, <1>3, <1>4, FirstOfFacts

(* The name index finds what the schema finds. *)
LEMMA LookupIsIndex ==
  ASSUME BuildInv, building \notin {"feeding", "longNames"}, NEW name
  PROVE  Lookup(name) = VariableIndex(name)
<1>1. names = NameIndex
  BY DEF BuildInv
<1>2. DOMAIN names = {FullName(variables[v]): v \in DOMAIN variables}
  BY <1>1 DEF NameIndex
<1>3. CASE name \in DOMAIN names
  BY <1>1, <1>3 DEF NameIndex, Lookup
<1>4. CASE name \notin DOMAIN names
  <2>1. \A v \in DOMAIN variables: FullName(variables[v]) # name
    BY <1>2, <1>4
  <2> QED
    BY <1>4, <2>1, IndexFacts DEF Lookup
<1> QED
  BY <1>3, <1>4
-----------------------------------------------------------------------------------
(* The setters of a description *)

LEMMA LongNameSet ==
  ASSUME NEW x, IsVariable(x), NEW y, NEW z, z = WithLongName(x, y)
  PROVE  /\ IsVariable(z) /\ z.short = x.short /\ z.numeric = x.numeric
         /\ z.long = y /\ z.missing = x.missing /\ z.labels = x.labels
         /\ z.display = x.display /\ z.attributes = x.attributes
BY DEF WithLongName, IsVariable

LEMMA MissingSet ==
  ASSUME NEW x, IsVariable(x), NEW y, NEW z, z = WithMissing(x, y)
  PROVE  /\ IsVariable(z) /\ z.short = x.short /\ z.numeric = x.numeric
         /\ z.long = x.long /\ z.missing = y /\ z.labels = x.labels
         /\ z.display = x.display /\ z.attributes = x.attributes
BY DEF WithMissing, IsVariable

LEMMA LabelsSet ==
  ASSUME NEW x, IsVariable(x), NEW y, NEW z, z = WithLabels(x, y)
  PROVE  /\ IsVariable(z) /\ z.short = x.short /\ z.numeric = x.numeric
         /\ z.long = x.long /\ z.missing = x.missing /\ z.labels = y
         /\ z.display = x.display /\ z.attributes = x.attributes
BY DEF WithLabels, IsVariable

LEMMA DisplaySet ==
  ASSUME NEW x, IsVariable(x), NEW y, NEW z, z = WithDisplay(x, y)
  PROVE  /\ IsVariable(z) /\ z.short = x.short /\ z.numeric = x.numeric
         /\ z.long = x.long /\ z.missing = x.missing /\ z.labels = x.labels
         /\ z.display = y /\ z.attributes = x.attributes
BY DEF WithDisplay, IsVariable

LEMMA AttributesSet ==
  ASSUME NEW x, IsVariable(x), NEW y, NEW z, z = [x EXCEPT !.attributes = y]
  PROVE  /\ IsVariable(z) /\ z.short = x.short /\ z.numeric = x.numeric
         /\ z.long = x.long /\ z.missing = x.missing /\ z.labels = x.labels
         /\ z.display = x.display /\ z.attributes = y
BY DEF IsVariable

-----------------------------------------------------------------------------------
(* What a step of build leaves alone *)

KeepsShape ==
  /\ DOMAIN variables' = DOMAIN variables
  /\ \A w \in DOMAIN variables:
       /\ IsVariable(variables'[w])
       /\ variables'[w].short = variables[w].short /\ variables'[w].numeric = variables[w].numeric
KeepsLong       == \A w \in DOMAIN variables: variables'[w].long = variables[w].long
KeepsMissing    == \A w \in DOMAIN variables: variables'[w].missing = variables[w].missing
KeepsLabels     == \A w \in DOMAIN variables: variables'[w].labels = variables[w].labels
KeepsDisplay    == \A w \in DOMAIN variables: variables'[w].display = variables[w].display
KeepsAttributes == \A w \in DOMAIN variables: variables'[w].attributes = variables[w].attributes

KeepsFed == UNCHANGED <<layout, format, fed>>

(* The loop that dealt with one entry more, if any did. *)
Progress(loop) ==
  /\ LongNamesDone' = LongNamesDone + (IF loop = "longNames" THEN 1 ELSE 0)
  /\ LabelSetsDone' = LabelSetsDone + (IF loop = "valueLabels" THEN 1 ELSE 0)
  /\ AttributesDone' = AttributesDone + (IF loop = "attributes" THEN 1 ELSE 0)
  /\ LongLabelsDone' = LongLabelsDone + (IF loop = "longValueLabels" THEN 1 ELSE 0)
  /\ LongMissingDone' = LongMissingDone + (IF loop = "longMissing" THEN 1 ELSE 0)

LEMMA NothingChanges ==
  ASSUME BuildInv, building # "feeding", UNCHANGED variables
  PROVE  KeepsShape /\ KeepsLong /\ KeepsMissing /\ KeepsLabels /\ KeepsDisplay /\ KeepsAttributes
<1>1. \A w \in DOMAIN variables: IsVariable(variables[w])
  BY DEF BuildInv, AllDescribed
<1> QED
  BY <1>1 DEF KeepsShape, KeepsLong, KeepsMissing, KeepsLabels, KeepsDisplay, KeepsAttributes

(* Where the names stay, so does what they find. *)
LEMMA IndexStays ==
  ASSUME KeepsShape, KeepsLong, NEW name
  PROVE  VariableIndex(name)' = VariableIndex(name)
<1>1. \A w \in DOMAIN variables: FullName(variables'[w]) = FullName(variables[w])
  BY DEF KeepsShape, KeepsLong, FullName
<1>2. {w \in DOMAIN variables': FullName(variables'[w]) = name}
        = {w \in DOMAIN variables: FullName(variables[w]) = name}
  BY <1>1 DEF KeepsShape
<1> QED
  BY <1>2 DEF VariableIndex

LEMMA NameIndexStays ==
  ASSUME KeepsShape, KeepsLong
  PROVE  NameIndex' = NameIndex
<1>1. \A w \in DOMAIN variables: FullName(variables'[w]) = FullName(variables[w])
  BY DEF KeepsShape, KeepsLong, FullName
<1>2. {FullName(variables'[w]): w \in DOMAIN variables'} = {FullName(variables[w]): w \in DOMAIN variables}
  BY <1>1 DEF KeepsShape
<1>3. \A name: VariableIndex(name)' = VariableIndex(name)
  BY IndexStays
<1> QED
  BY <1>2, <1>3 DEF NameIndex

(* What an entry does to the variable it finds. *)
LEMMA Patches ==
  ASSUME BuildInv, building # "feeding", NEW subtype, NEW name, NEW v \in DOMAIN variables \cup {0},
         NEW patched, PatchOrWarn(subtype, name, v, patched)
  PROVE  /\ DOMAIN variables' = DOMAIN variables
         /\ \A w \in DOMAIN variables: variables'[w] = IF w = v THEN patched ELSE variables[w]
         /\ v # 0 <=> v \in DOMAIN variables
         /\ \A w \in DOMAIN variables: IsVariable(variables[w])
<1>1. 0 \notin DOMAIN variables
  BY PlacesOfVariables
<1>2. \A w \in DOMAIN variables: IsVariable(variables[w])
  BY DEF BuildInv, AllDescribed
<1>3. CASE v = 0
  BY <1>1, <1>2, <1>3 DEF PatchOrWarn
<1>4. CASE v # 0
  BY <1>1, <1>2, <1>4 DEF PatchOrWarn
<1> QED
  BY <1>3, <1>4

-----------------------------------------------------------------------------------
(* The records come *)

Feeds ==
  \/ \E mappings \in LongNamePayloads: SetLongNames(mappings)
  \/ \E values \in DisplayPayloads: SetDisplayParameters(values)
  \/ \E set \in LabelSets: AddValueLabels(set)
  \/ \E entries \in AttributePayloads: AddVariableAttributes(entries)
  \/ \E entries \in LongLabelPayloads: SetLongValueLabels(entries)
  \/ \E entries \in LongMissingPayloads: SetLongMissingValues(entries)

LEMMA InitBuildInv == Init => BuildInv
<1> SUFFICES ASSUME Init PROVE BuildInv
  OBVIOUS
<1>1. layout \in Dictionaries /\ building = "feeding" /\ variables = << >> /\ turn = 0
  BY DEF Init
<1>2. PayloadsTyped /\ attributes = carried
  BY DEF Init, PayloadsTyped
<1>3. TurnInRange
  BY <1>1 DEF TurnInRange
<1>4. AllDescribed
  BY <1>1 DEF AllDescribed
<1> QED
  BY <1>1, <1>2, <1>3, <1>4 DEF BuildInv

LEMMA FeedingTypes ==
  ASSUME PayloadsTyped, attributes = carried, Feeds
  PROVE  PayloadsTyped' /\ (attributes = carried)'
<1>1. ASSUME NEW mappings \in LongNamePayloads, SetLongNames(mappings)
      PROVE  PayloadsTyped' /\ (attributes = carried)'
  BY <1>1, PayloadsAssumption DEF SetLongNames, PayloadsTyped
<1>2. ASSUME NEW values \in DisplayPayloads, SetDisplayParameters(values)
      PROVE  PayloadsTyped' /\ (attributes = carried)'
  BY <1>2, PayloadsAssumption DEF SetDisplayParameters, PayloadsTyped
<1>3. ASSUME NEW set \in LabelSets, AddValueLabels(set)
      PROVE  PayloadsTyped' /\ (attributes = carried)'
  <2>1. set \in [segments: Seq(Nat), labels: Nat]
    BY PayloadsAssumption
  <2> DEFINE S == [segments: Seq(Nat), labels: Nat]
  <2> HIDE DEF S
  <2>2. valueLabelSets \in Seq(S) /\ set \in S
    BY <2>1 DEF PayloadsTyped, S
  <2>3. Append(valueLabelSets, set) \in Seq(S)
    BY <2>2
  <2> QED
    BY <1>3, <2>3 DEF AddValueLabels, PayloadsTyped, S
<1>4. ASSUME NEW entries \in AttributePayloads, AddVariableAttributes(entries)
      PROVE  PayloadsTyped' /\ (attributes = carried)'
  <2> DEFINE S == [name: Names, attributes: Seq(Nat)]
  <2>1. attributes \in Seq(S) /\ entries \in Seq(S)
    BY PayloadsAssumption DEF PayloadsTyped
  <2> HIDE DEF S
  <2>2. attributes \o entries \in Seq(S)
    BY <2>1, ConcatProperties
  <2> QED
    BY <1>4, <2>2 DEF AddVariableAttributes, PayloadsTyped, S
<1>5. ASSUME NEW entries \in LongLabelPayloads, SetLongValueLabels(entries)
      PROVE  PayloadsTyped' /\ (attributes = carried)'
  BY <1>5, PayloadsAssumption DEF SetLongValueLabels, PayloadsTyped
<1>6. ASSUME NEW entries \in LongMissingPayloads, SetLongMissingValues(entries)
      PROVE  PayloadsTyped' /\ (attributes = carried)'
  BY <1>6, PayloadsAssumption DEF SetLongMissingValues, PayloadsTyped
<1> QED
  BY <1>1, <1>2, <1>3, <1>4, <1>5, <1>6 DEF Feeds

LEMMA FeedsKeep ==
  ASSUME BuildInv, Feeds
  PROVE  BuildInv' /\ building = "feeding" /\ building' = "feeding" /\ variables' = << >>
         /\ UNCHANGED <<layout, format, warnings>>
<1>1. Feeding
  BY DEF Feeds, SetLongNames, SetDisplayParameters, AddValueLabels, AddVariableAttributes,
         SetLongValueLabels, SetLongMissingValues
<1>2. /\ building = "feeding" /\ building' = "feeding"
      /\ UNCHANGED <<layout, format, turn, variables, names, warnings>>
  BY <1>1 DEF Feeding
<1>3. variables = << >> /\ variables' = << >>
  BY <1>2 DEF BuildInv, AllDescribed
<1>4. PayloadsTyped' /\ (attributes = carried)'
  BY FeedingTypes DEF BuildInv
<1>5. TurnInRange'
  BY <1>2 DEF BuildInv, TurnInRange, Loops
<1>6. AllDescribed'
  BY <1>2, <1>3 DEF AllDescribed
<1> QED
  BY <1>2, <1>3, <1>4, <1>5, <1>6 DEF BuildInv

LEMMA BuildDescribes ==
  ASSUME BuildInv, Build
  PROVE  /\ BuildInv' /\ KeepsFed /\ UNCHANGED warnings
         /\ building = "feeding" /\ building' = "longNames" /\ turn' = 0
         /\ DOMAIN variables' = DOMAIN layout
         /\ \A v \in DOMAIN layout:
              /\ variables'[v].long = Unset /\ variables'[v].labels = [kind |-> Unset]
              /\ variables'[v].display = << >> /\ variables'[v].attributes = << >>
              /\ variables'[v].missing =
                   DecodeMissing(layout[v].raw, layout[v].numeric, format, SpssDefaults)
<1>1. /\ building = "feeding" /\ building' = "longNames"
      /\ variables' = [v \in DOMAIN layout |-> Described(layout[v], v, format)]
      /\ UNCHANGED <<layout, format, fed, turn, names, warnings>>
  BY DEF Build
<1>2. turn = 0 /\ turn' = 0
  BY <1>1 DEF BuildInv, TurnInRange
<1>3. PayloadsTyped' /\ (attributes = carried)'
  BY <1>1 DEF fed, BuildInv, PayloadsTyped
<1>4. DOMAIN variables' = DOMAIN layout
  BY <1>1
<1>5. ASSUME NEW v \in DOMAIN layout
      PROVE  /\ IsVariable(variables'[v])
             /\ variables'[v].short = layout[v].name /\ variables'[v].numeric = layout[v].numeric
             /\ variables'[v].long = Unset /\ variables'[v].labels = [kind |-> Unset]
             /\ variables'[v].display = << >> /\ variables'[v].attributes = << >>
             /\ variables'[v].missing =
                  DecodeMissing(layout[v].raw, layout[v].numeric, format, SpssDefaults)
  <2> DEFINE missing == DecodeMissing(layout[v].raw, layout[v].numeric, format, SpssDefaults)
  <2>1. variables'[v] = SavVariable(layout[v].name, layout[v].numeric, v, missing)
    BY <1>1, <1>5 DEF Described
  <2> HIDE DEF missing
  <2>2. /\ IsVariable(variables'[v])
        /\ variables'[v].short = layout[v].name /\ variables'[v].numeric = layout[v].numeric
        /\ variables'[v].long = Unset /\ variables'[v].labels = [kind |-> Unset]
        /\ variables'[v].display = << >> /\ variables'[v].attributes = << >>
        /\ variables'[v].missing = missing
    BY <2>1 DEF SavVariable, IsVariable
  <2> QED
    BY <2>2 DEF missing
<1>6. AllDescribed'
  BY <1>1, <1>4, <1>5 DEF AllDescribed
<1>7. Len(longNames) \in Nat
  BY DEF BuildInv, PayloadsTyped
<1>8. TurnInRange'
  BY <1>1, <1>2, <1>7 DEF TurnInRange, Loops, fed
<1> QED
  BY <1>1, <1>2, <1>3, <1>4, <1>5, <1>6, <1>8 DEF BuildInv, KeepsFed

-----------------------------------------------------------------------------------
(* The loops *)

RunsOver(loop, entries) ==
  \/ loop = "longNames" /\ entries = longNames
  \/ loop = "valueLabels" /\ entries = valueLabelSets
  \/ loop = "attributes" /\ entries = attributes
  \/ loop = "longValueLabels" /\ entries = longValueLabels
  \/ loop = "longMissing" /\ entries = longMissing

LEMMA LengthsAreNumbers ==
  ASSUME PayloadsTyped
  PROVE  /\ Len(longNames) \in Nat /\ Len(valueLabelSets) \in Nat /\ Len(attributes) \in Nat
         /\ Len(longValueLabels) \in Nat /\ Len(longMissing) \in Nat /\ Len(display) \in Nat
BY DEF PayloadsTyped

LEMMA PayloadsStay ==
  ASSUME PayloadsTyped, attributes = carried, KeepsFed
  PROVE  PayloadsTyped' /\ (attributes = carried)'
BY DEF PayloadsTyped, KeepsFed, fed

LEMMA TurnMoves ==
  ASSUME BuildInv, NEW loop, NEW entries, RunsOver(loop, entries), Turn(loop, entries)
  PROVE  /\ PayloadsTyped' /\ (attributes = carried)' /\ TurnInRange'
         /\ KeepsFed /\ Progress(loop) /\ UNCHANGED names
         /\ building = loop /\ building' = loop /\ loop \in Loops
         /\ turn + 1 \in 1..Len(entries)
<1>1. /\ building = loop /\ building' = building /\ turn' = turn + 1 /\ turn < Len(entries)
      /\ UNCHANGED <<layout, format, fed, names>>
  BY DEF Turn
<1>2. KeepsFed /\ loop \in Loops
  BY <1>1 DEF KeepsFed, RunsOver, Loops
<1>3. PayloadsTyped' /\ (attributes = carried)'
  BY <1>2, PayloadsStay DEF BuildInv
<1>4. turn \in Nat /\ Len(entries) \in Nat
  BY LengthsAreNumbers DEF BuildInv, TurnInRange, RunsOver
<1>5. TurnInRange'
  BY <1>1, <1>2, <1>4 DEF BuildInv, TurnInRange, Loops, RunsOver, fed
<1>6. Progress(loop)
  <2>1. /\ Len(longNames) \in Nat /\ Len(valueLabelSets) \in Nat /\ Len(attributes) \in Nat
        /\ Len(longValueLabels) \in Nat /\ Len(longMissing) \in Nat
    BY LengthsAreNumbers DEF BuildInv
  <2>2. UNCHANGED <<longNames, valueLabelSets, attributes, longValueLabels, longMissing>>
    BY <1>1 DEF fed
  <2>3. LongNamesDone' = LongNamesDone + (IF loop = "longNames" THEN 1 ELSE 0)
    <3>1. CASE loop = "longNames"
      BY <1>1, <1>4, <2>2, <3>1 DEF LongNamesDone, Handled
    <3>2. CASE loop # "longNames"
      <4>1. LongNamesDone' = LongNamesDone
        BY <1>1, <1>2, <2>2, <3>2 DEF LongNamesDone, Handled, Loops
      <4>2. LongNamesDone \in Nat
        BY <1>4, <2>1 DEF LongNamesDone, Handled
      <4> QED
        BY <3>2, <4>1, <4>2
    <3> QED
      BY <3>1, <3>2
  <2>4. LabelSetsDone' = LabelSetsDone + (IF loop = "valueLabels" THEN 1 ELSE 0)
    <3>1. CASE loop = "valueLabels"
      BY <1>1, <1>4, <2>2, <3>1 DEF LabelSetsDone, Handled
    <3>2. CASE loop # "valueLabels"
      <4>1. LabelSetsDone' = LabelSetsDone
        BY <1>1, <1>2, <2>2, <3>2 DEF LabelSetsDone, Handled, Loops
      <4>2. LabelSetsDone \in Nat
        BY <1>4, <2>1 DEF LabelSetsDone, Handled
      <4> QED
        BY <3>2, <4>1, <4>2
    <3> QED
      BY <3>1, <3>2
  <2>5. AttributesDone' = AttributesDone + (IF loop = "attributes" THEN 1 ELSE 0)
    <3>1. CASE loop = "attributes"
      BY <1>1, <1>4, <2>2, <3>1 DEF AttributesDone, Handled
    <3>2. CASE loop # "attributes"
      <4>1. AttributesDone' = AttributesDone
        BY <1>1, <1>2, <2>2, <3>2 DEF AttributesDone, Handled, Loops
      <4>2. AttributesDone \in Nat
        BY <1>4, <2>1 DEF AttributesDone, Handled
      <4> QED
        BY <3>2, <4>1, <4>2
    <3> QED
      BY <3>1, <3>2
  <2>6. LongLabelsDone' = LongLabelsDone + (IF loop = "longValueLabels" THEN 1 ELSE 0)
    <3>1. CASE loop = "longValueLabels"
      BY <1>1, <1>4, <2>2, <3>1 DEF LongLabelsDone, Handled
    <3>2. CASE loop # "longValueLabels"
      <4>1. LongLabelsDone' = LongLabelsDone
        BY <1>1, <1>2, <2>2, <3>2 DEF LongLabelsDone, Handled, Loops
      <4>2. LongLabelsDone \in Nat
        BY <1>4, <2>1 DEF LongLabelsDone, Handled
      <4> QED
        BY <3>2, <4>1, <4>2
    <3> QED
      BY <3>1, <3>2
  <2>7. LongMissingDone' = LongMissingDone + (IF loop = "longMissing" THEN 1 ELSE 0)
    <3>1. CASE loop = "longMissing"
      BY <1>1, <1>4, <2>2, <3>1 DEF LongMissingDone
    <3>2. CASE loop # "longMissing"
      <4>1. LongMissingDone' = LongMissingDone
        BY <1>1, <1>2, <2>2, <3>2 DEF LongMissingDone, Loops
      <4>2. LongMissingDone \in Nat
        BY <1>4, <2>1 DEF LongMissingDone
      <4> QED
        BY <3>2, <4>1, <4>2
    <3> QED
      BY <3>1, <3>2
  <2> QED
    BY <2>3, <2>4, <2>5, <2>6, <2>7 DEF Progress
<1>7. turn + 1 \in 1..Len(entries)
  BY <1>1, <1>4
<1> QED
  BY <1>1, <1>2, <1>3, <1>5, <1>6, <1>7

(* From one loop to the next. *)
Follows(before, after) ==
  \/ before = "longNames" /\ after = "display" /\ turn = Len(longNames)
  \/ before = "display" /\ after = "valueLabels"
  \/ before = "valueLabels" /\ after = "attributes" /\ turn = Len(valueLabelSets)
  \/ before = "attributes" /\ after = "longValueLabels" /\ turn = Len(attributes)
  \/ before = "longValueLabels" /\ after = "longMissing" /\ turn = Len(longValueLabels)
  \/ before = "longMissing" /\ after = "built" /\ turn = Len(longMissing)

LEMMA LoopEnds ==
  ASSUME BuildInv, KeepsFed, turn' = 0, Follows(building, building')
  PROVE  /\ PayloadsTyped' /\ (attributes = carried)' /\ TurnInRange' /\ Progress("none")
         /\ building # "feeding" /\ building' \notin {"feeding", "longNames"}
<1>1. PayloadsTyped' /\ (attributes = carried)'
  BY PayloadsStay DEF BuildInv
<1>2. building # "feeding" /\ building' \notin {"feeding", "longNames"}
  BY DEF Follows
<1>3. turn \in Nat /\ (building = "display" => turn = 0)
  BY DEF BuildInv, TurnInRange
<1>4. UNCHANGED <<longNames, valueLabelSets, attributes, longValueLabels, longMissing>>
  BY DEF KeepsFed, fed
<1>5. /\ Len(longNames) \in Nat /\ Len(valueLabelSets) \in Nat /\ Len(attributes) \in Nat
      /\ Len(longValueLabels) \in Nat /\ Len(longMissing) \in Nat
  BY LengthsAreNumbers DEF BuildInv
<1>6. TurnInRange'
  BY <1>4, <1>5 DEF TurnInRange, Follows, Loops
<1>7. Progress("none")
  <2>1. LongNamesDone' = LongNamesDone
    BY <1>3, <1>4, <1>5 DEF LongNamesDone, Handled, Follows
  <2>2. LabelSetsDone' = LabelSetsDone
    BY <1>3, <1>4, <1>5 DEF LabelSetsDone, Handled, Follows
  <2>3. AttributesDone' = AttributesDone
    BY <1>3, <1>4, <1>5 DEF AttributesDone, Handled, Follows
  <2>4. LongLabelsDone' = LongLabelsDone
    BY <1>3, <1>4, <1>5 DEF LongLabelsDone, Handled, Follows
  <2>5. LongMissingDone' = LongMissingDone
    BY <1>3, <1>4, <1>5 DEF LongMissingDone, Follows
  <2>6. /\ LongNamesDone \in Nat /\ LabelSetsDone \in Nat /\ AttributesDone \in Nat
        /\ LongLabelsDone \in Nat /\ LongMissingDone \in Nat
    BY <1>3, <1>5 DEF LongNamesDone, LabelSetsDone, AttributesDone, LongLabelsDone, LongMissingDone, Handled
  <2> QED
    BY <2>1, <2>2, <2>3, <2>4, <2>5, <2>6 DEF Progress
<1> QED
  BY <1>1, <1>2, <1>6, <1>7

(* A step of build that leaves names and kinds of the variables keeps the invariant. *)
LEMMA BuildInvKept ==
  ASSUME BuildInv, KeepsFed, KeepsShape, building # "feeding", building' # "feeding",
         PayloadsTyped', (attributes = carried)', TurnInRange',
         (building \notin {"feeding", "longNames"} => names = NameIndex)'
  PROVE  BuildInv'
<1>1. AllDescribed'
  BY DEF BuildInv, AllDescribed, KeepsFed, KeepsShape
<1>2. (layout \in Dictionaries)'
  BY DEF BuildInv, KeepsFed
<1> QED
  BY <1>1, <1>2 DEF BuildInv

-----------------------------------------------------------------------------------
(* The steps, one by one *)

LEMMA LongNameApplied ==
  ASSUME BuildInv, ApplyLongName
  PROVE  /\ BuildInv' /\ KeepsFed /\ Progress("longNames") /\ KeepsShape
         /\ building = "longNames" /\ building' = "longNames" /\ turn + 1 \in 1..Len(longNames)
         /\ KeepsMissing /\ KeepsLabels /\ KeepsDisplay /\ KeepsAttributes
         /\ \A w \in DOMAIN variables: variables'[w].long =
              IF ByShortName(longNames[turn + 1].short) = w THEN longNames[turn + 1].long
              ELSE variables[w].long
<1> DEFINE mapping == longNames[turn + 1]
           v == ByShortName(mapping.short)
           patched == WithLongName(variables[v], mapping.long)
<1>1. Turn("longNames", longNames) /\ PatchOrWarn("LongVariableNames", mapping.short, v, patched)
  BY Zenon DEF ApplyLongName
<1>2. /\ PayloadsTyped' /\ (attributes = carried)' /\ TurnInRange'
      /\ KeepsFed /\ Progress("longNames")
      /\ building = "longNames" /\ building' = "longNames" /\ turn + 1 \in 1..Len(longNames)
  <2>1. RunsOver("longNames", longNames)
    BY DEF RunsOver
  <2> QED
    BY <1>1, <2>1, TurnMoves
<1>3. v \in DOMAIN variables \cup {0}
  BY <1>2, ShortNameFacts DEF BuildInv, AllDescribed
<1> HIDE DEF mapping, v, patched
<1>4. /\ DOMAIN variables' = DOMAIN variables
      /\ \A w \in DOMAIN variables: variables'[w] = IF w = v THEN patched ELSE variables[w]
      /\ v # 0 <=> v \in DOMAIN variables
      /\ \A w \in DOMAIN variables: IsVariable(variables[w])
  BY <1>1, <1>2, <1>3, Patches
<1>5. v \in DOMAIN variables =>
        /\ IsVariable(patched) /\ patched.short = variables[v].short
        /\ patched.numeric = variables[v].numeric /\ patched.long = mapping.long
        /\ patched.missing = variables[v].missing /\ patched.labels = variables[v].labels
        /\ patched.display = variables[v].display /\ patched.attributes = variables[v].attributes
  BY <1>4, LongNameSet DEF patched
<1>6. KeepsShape
  BY <1>4, <1>5 DEF KeepsShape
<1>7. KeepsMissing /\ KeepsLabels
  BY <1>4, <1>5 DEF KeepsMissing, KeepsLabels
<1>8. KeepsDisplay /\ KeepsAttributes
  BY <1>4, <1>5 DEF KeepsDisplay, KeepsAttributes
<1>9. \A w \in DOMAIN variables: variables'[w].long = IF v = w THEN mapping.long ELSE variables[w].long
  BY <1>4, <1>5
<1>10. BuildInv'
  BY <1>2, <1>6, BuildInvKept
<1> QED
  BY <1>2, <1>6, <1>7, <1>8, <1>9, <1>10 DEF v, mapping

LEMMA AttributesApplied ==
  ASSUME BuildInv, ApplyAttributes
  PROVE  /\ BuildInv' /\ KeepsFed /\ Progress("attributes") /\ KeepsShape
         /\ building = "attributes" /\ building' = "attributes" /\ turn + 1 \in 1..Len(attributes)
         /\ KeepsLong /\ KeepsMissing /\ KeepsLabels /\ KeepsDisplay
         /\ \A w \in DOMAIN variables: variables'[w].attributes =
              IF VariableIndex(attributes[turn + 1].name) = w
              THEN variables[w].attributes \o attributes[turn + 1].attributes
              ELSE variables[w].attributes
<1> DEFINE entry == attributes[turn + 1]
           v == Lookup(entry.name)
           patched == WithAttributes(variables[v], entry.attributes)
<1>1. Turn("attributes", attributes) /\ PatchOrWarn("VariableAttributes", entry.name, v, patched)
  BY Zenon DEF ApplyAttributes
<1>2. /\ PayloadsTyped' /\ (attributes = carried)' /\ TurnInRange' /\ UNCHANGED names
      /\ KeepsFed /\ Progress("attributes")
      /\ building = "attributes" /\ building' = "attributes" /\ turn + 1 \in 1..Len(attributes)
  <2>1. RunsOver("attributes", attributes)
    BY DEF RunsOver
  <2> QED
    BY <1>1, <2>1, TurnMoves
<1>3. v = VariableIndex(entry.name)
  BY <1>2, LookupIsIndex
<1>4. v \in DOMAIN variables \cup {0}
  BY <1>3, IndexFacts
<1> HIDE DEF entry, v, patched
<1>5. /\ DOMAIN variables' = DOMAIN variables
      /\ \A w \in DOMAIN variables: variables'[w] = IF w = v THEN patched ELSE variables[w]
      /\ v # 0 <=> v \in DOMAIN variables
      /\ \A w \in DOMAIN variables: IsVariable(variables[w])
  BY <1>1, <1>2, <1>4, Patches
<1>6. v \in DOMAIN variables =>
        /\ IsVariable(patched) /\ patched.short = variables[v].short
        /\ patched.numeric = variables[v].numeric /\ patched.long = variables[v].long
        /\ patched.missing = variables[v].missing /\ patched.labels = variables[v].labels
        /\ patched.display = variables[v].display
        /\ patched.attributes = variables[v].attributes \o entry.attributes
  <2>1. patched = WithAttributes(variables[v], entry.attributes)
    BY DEF patched
  <2> DEFINE x == variables[v]
             more == x.attributes \o entry.attributes
  <2>2. v \in DOMAIN variables => IsVariable(x)
    BY <1>5
  <2>3. patched = [x EXCEPT !.attributes = more]
    BY <2>1, Zenon DEF WithAttributes
  <2> HIDE DEF x, more
  <2>4. v \in DOMAIN variables =>
        /\ IsVariable(patched) /\ patched.short = x.short
        /\ patched.numeric = x.numeric /\ patched.long = x.long
        /\ patched.missing = x.missing /\ patched.labels = x.labels
        /\ patched.display = x.display
        /\ patched.attributes = more
    BY <2>2, <2>3, AttributesSet
  <2> QED
    BY <2>4, Zenon DEF x, more
<1>7. KeepsShape
  BY <1>5, <1>6 DEF KeepsShape
<1>8. KeepsLong /\ KeepsMissing
  BY <1>5, <1>6 DEF KeepsLong, KeepsMissing
<1>9. KeepsLabels /\ KeepsDisplay
  BY <1>5, <1>6 DEF KeepsLabels, KeepsDisplay
<1>10. \A w \in DOMAIN variables: variables'[w].attributes =
         IF v = w THEN variables[w].attributes \o entry.attributes ELSE variables[w].attributes
  BY <1>5, <1>6
<1>11. BuildInv'
  <2>1. names' = NameIndex'
    BY <1>2, <1>7, <1>8, NameIndexStays DEF BuildInv
  <2> QED
    BY <1>2, <1>7, <2>1, BuildInvKept
<1> QED
  BY <1>2, <1>3, <1>7, <1>8, <1>9, <1>10, <1>11 DEF entry

LEMMA LongValueLabelsApplied ==
  ASSUME BuildInv, ApplyLongValueLabels
  PROVE  /\ BuildInv' /\ KeepsFed /\ Progress("longValueLabels") /\ KeepsShape
         /\ building = "longValueLabels" /\ building' = "longValueLabels"
         /\ turn + 1 \in 1..Len(longValueLabels)
         /\ KeepsLong /\ KeepsMissing /\ KeepsDisplay /\ KeepsAttributes
         /\ \A w \in DOMAIN variables: variables'[w].labels =
              IF VariableIndex(longValueLabels[turn + 1].name) = w
              THEN ValueLabelSet("LongString", longValueLabels[turn + 1].labels)
              ELSE variables[w].labels
<1> DEFINE entry == longValueLabels[turn + 1]
           v == Lookup(entry.name)
           labels == ValueLabelSet("LongString", entry.labels)
           patched == WithLabels(variables[v], labels)
<1>1. Turn("longValueLabels", longValueLabels) /\ PatchOrWarn("LongValueLabels", entry.name, v, patched)
  BY Zenon DEF ApplyLongValueLabels
<1>2. /\ PayloadsTyped' /\ (attributes = carried)' /\ TurnInRange' /\ UNCHANGED names
      /\ KeepsFed /\ Progress("longValueLabels")
      /\ building = "longValueLabels" /\ building' = "longValueLabels"
      /\ turn + 1 \in 1..Len(longValueLabels)
  <2>1. RunsOver("longValueLabels", longValueLabels)
    BY DEF RunsOver
  <2> QED
    BY <1>1, <2>1, TurnMoves
<1>3. v = VariableIndex(entry.name)
  BY <1>2, LookupIsIndex
<1>4. v \in DOMAIN variables \cup {0}
  BY <1>3, IndexFacts
<1> HIDE DEF entry, v, patched, labels
<1>5. /\ DOMAIN variables' = DOMAIN variables
      /\ \A w \in DOMAIN variables: variables'[w] = IF w = v THEN patched ELSE variables[w]
      /\ v # 0 <=> v \in DOMAIN variables
      /\ \A w \in DOMAIN variables: IsVariable(variables[w])
  BY <1>1, <1>2, <1>4, Patches
<1>6. v \in DOMAIN variables =>
        /\ IsVariable(patched) /\ patched.short = variables[v].short
        /\ patched.numeric = variables[v].numeric /\ patched.long = variables[v].long
        /\ patched.missing = variables[v].missing /\ patched.labels = labels
        /\ patched.display = variables[v].display /\ patched.attributes = variables[v].attributes
  BY <1>5, LabelsSet DEF patched
<1>7. KeepsShape
  BY <1>5, <1>6 DEF KeepsShape
<1>8. KeepsLong /\ KeepsMissing
  BY <1>5, <1>6 DEF KeepsLong, KeepsMissing
<1>9. KeepsAttributes /\ KeepsDisplay
  BY <1>5, <1>6 DEF KeepsAttributes, KeepsDisplay
<1>10. \A w \in DOMAIN variables: variables'[w].labels = IF v = w THEN labels ELSE variables[w].labels
  BY <1>5, <1>6
<1>11. BuildInv'
  <2>1. names' = NameIndex'
    BY <1>2, <1>7, <1>8, NameIndexStays DEF BuildInv
  <2> QED
    BY <1>2, <1>7, <2>1, BuildInvKept
<1> QED
  BY <1>2, <1>3, <1>7, <1>8, <1>9, <1>10, <1>11 DEF entry, labels

LEMMA LongMissingApplied ==
  ASSUME BuildInv, ApplyLongMissing
  PROVE  /\ BuildInv' /\ KeepsFed /\ Progress("longMissing") /\ KeepsShape
         /\ building = "longMissing" /\ building' = "longMissing" /\ turn + 1 \in 1..Len(longMissing)
         /\ KeepsLong /\ KeepsLabels /\ KeepsDisplay /\ KeepsAttributes
         /\ \A w \in DOMAIN variables: variables'[w].missing =
              IF VariableIndex(longMissing[turn + 1].name) = w THEN Keys(longMissing[turn + 1])
              ELSE variables[w].missing
<1> DEFINE entry == longMissing[turn + 1]
           v == Lookup(entry.name)
           missing == Keys(entry)
           patched == WithMissing(variables[v], missing)
<1>1. Turn("longMissing", longMissing) /\ PatchOrWarn("LongMissingValues", entry.name, v, patched)
  BY Zenon DEF ApplyLongMissing
<1>2. /\ PayloadsTyped' /\ (attributes = carried)' /\ TurnInRange' /\ UNCHANGED names
      /\ KeepsFed /\ Progress("longMissing")
      /\ building = "longMissing" /\ building' = "longMissing" /\ turn + 1 \in 1..Len(longMissing)
  <2>1. RunsOver("longMissing", longMissing)
    BY DEF RunsOver
  <2> QED
    BY <1>1, <2>1, TurnMoves
<1>3. v = VariableIndex(entry.name)
  BY <1>2, LookupIsIndex
<1>4. v \in DOMAIN variables \cup {0}
  BY <1>3, IndexFacts
<1> HIDE DEF entry, v, patched, missing
<1>5. /\ DOMAIN variables' = DOMAIN variables
      /\ \A w \in DOMAIN variables: variables'[w] = IF w = v THEN patched ELSE variables[w]
      /\ v # 0 <=> v \in DOMAIN variables
      /\ \A w \in DOMAIN variables: IsVariable(variables[w])
  BY <1>1, <1>2, <1>4, Patches
<1>6. v \in DOMAIN variables =>
        /\ IsVariable(patched) /\ patched.short = variables[v].short
        /\ patched.numeric = variables[v].numeric /\ patched.long = variables[v].long
        /\ patched.missing = missing /\ patched.labels = variables[v].labels
        /\ patched.display = variables[v].display /\ patched.attributes = variables[v].attributes
  BY <1>5, MissingSet DEF patched
<1>7. KeepsShape
  BY <1>5, <1>6 DEF KeepsShape
<1>8. KeepsLong /\ KeepsLabels
  BY <1>5, <1>6 DEF KeepsLong, KeepsLabels
<1>9. KeepsAttributes /\ KeepsDisplay
  BY <1>5, <1>6 DEF KeepsAttributes, KeepsDisplay
<1>10. \A w \in DOMAIN variables: variables'[w].missing = IF v = w THEN missing ELSE variables[w].missing
  BY <1>5, <1>6
<1>11. BuildInv'
  <2>1. names' = NameIndex'
    BY <1>2, <1>7, <1>8, NameIndexStays DEF BuildInv
  <2> QED
    BY <1>2, <1>7, <2>1, BuildInvKept
<1> QED
  BY <1>2, <1>3, <1>7, <1>8, <1>9, <1>10, <1>11 DEF entry, missing

(* The variables a set of labels is for. *)
Targets(set) == {VariableStartingAt(s): s \in ToSet(set.segments)} \ {0}

LEMMA ValueLabelsApplied ==
  ASSUME BuildInv, ApplyValueLabels
  PROVE  /\ BuildInv' /\ KeepsFed /\ Progress("valueLabels") /\ KeepsShape
         /\ building = "valueLabels" /\ building' = "valueLabels"
         /\ turn + 1 \in 1..Len(valueLabelSets)
         /\ KeepsLong /\ KeepsMissing /\ KeepsDisplay /\ KeepsAttributes
         /\ \A w \in DOMAIN variables: variables'[w].labels =
              IF w \in Targets(valueLabelSets[turn + 1])
              THEN TypedSet(valueLabelSets[turn + 1], Targets(valueLabelSets[turn + 1]))
              ELSE variables[w].labels
<1> DEFINE set     == valueLabelSets[turn + 1]
           targets == Targets(set)
           labels  == TypedSet(set, targets)
<1>1. /\ Turn("valueLabels", valueLabelSets)
      /\ variables' = [v \in DOMAIN variables |->
           IF v \in targets THEN WithLabels(variables[v], labels) ELSE variables[v]]
  BY Zenon DEF ApplyValueLabels, Targets
<1>2. /\ PayloadsTyped' /\ (attributes = carried)' /\ TurnInRange' /\ UNCHANGED names
      /\ KeepsFed /\ Progress("valueLabels")
      /\ building = "valueLabels" /\ building' = "valueLabels"
      /\ turn + 1 \in 1..Len(valueLabelSets)
  <2>1. RunsOver("valueLabels", valueLabelSets)
    BY DEF RunsOver
  <2> QED
    BY <1>1, <2>1, TurnMoves
<1> HIDE DEF set, targets, labels
<1>3. \A w \in DOMAIN variables: IsVariable(variables[w])
  BY <1>2 DEF BuildInv, AllDescribed
<1>4. DOMAIN variables' = DOMAIN variables
  BY <1>1
<1>5. ASSUME NEW w \in DOMAIN variables
      PROVE  /\ IsVariable(variables'[w])
             /\ variables'[w].short = variables[w].short /\ variables'[w].numeric = variables[w].numeric
             /\ variables'[w].long = variables[w].long /\ variables'[w].missing = variables[w].missing
             /\ variables'[w].display = variables[w].display
             /\ variables'[w].attributes = variables[w].attributes
             /\ variables'[w].labels = IF w \in targets THEN labels ELSE variables[w].labels
  <2>1. CASE w \in targets
    <3>1. variables'[w] = WithLabels(variables[w], labels)
      BY <1>1, <2>1
    <3> QED
      BY <1>3, <2>1, <3>1, LabelsSet
  <2>2. CASE w \notin targets
    <3>1. variables'[w] = variables[w]
      BY <1>1, <2>2
    <3> QED
      BY <1>3, <2>2, <3>1
  <2> QED
    BY <2>1, <2>2
<1>6. KeepsShape
  BY <1>4, <1>5 DEF KeepsShape
<1>7. KeepsLong /\ KeepsMissing
  BY <1>5 DEF KeepsLong, KeepsMissing
<1>8. KeepsAttributes /\ KeepsDisplay
  BY <1>5 DEF KeepsAttributes, KeepsDisplay
<1>9. BuildInv'
  <2>1. names' = NameIndex'
    BY <1>2, <1>6, <1>7, NameIndexStays DEF BuildInv
  <2> QED
    BY <1>2, <1>6, <2>1, BuildInvKept
<1> QED
  BY <1>2, <1>5, <1>6, <1>7, <1>8, <1>9 DEF set, targets, labels

(* Whether and in what the display parameters are told. *)
Displayed == display # << >> /\ TupleStride # 0

LEMMA DisplayApplied ==
  ASSUME BuildInv, ApplyDisplay
  PROVE  /\ BuildInv' /\ KeepsFed /\ Progress("none") /\ KeepsShape
         /\ building = "display" /\ building' = "valueLabels"
         /\ KeepsLong /\ KeepsMissing /\ KeepsLabels /\ KeepsAttributes
         /\ \A w \in DOMAIN variables: variables'[w].display =
              IF Displayed THEN DisplayFrom(FirstTuple(w)) ELSE variables[w].display
<1>1. /\ building = "display" /\ building' = "valueLabels"
      /\ UNCHANGED <<layout, format, fed, turn, names>>
  BY DEF ApplyDisplay
<1>2. turn' = 0 /\ KeepsFed
  BY <1>1 DEF BuildInv, TurnInRange, KeepsFed
<1>3. /\ PayloadsTyped' /\ (attributes = carried)' /\ TurnInRange' /\ Progress("none")
      /\ building # "feeding" /\ building' \notin {"feeding", "longNames"}
  <2>1. Follows(building, building')
    BY <1>1 DEF Follows
  <2> QED
    BY <1>2, <2>1, LoopEnds
<1>4. \A w \in DOMAIN variables: IsVariable(variables[w])
  BY <1>1 DEF BuildInv, AllDescribed
<1>5. CASE ~Displayed
  <2>1. UNCHANGED variables
    BY <1>5 DEF ApplyDisplay, Displayed
  <2>2. KeepsShape /\ KeepsLong /\ KeepsMissing /\ KeepsLabels /\ KeepsDisplay /\ KeepsAttributes
    BY <1>3, <2>1, NothingChanges
  <2>3. BuildInv'
    <3>1. names' = NameIndex'
      BY <1>1, <2>2, NameIndexStays DEF BuildInv
    <3> QED
      BY <1>2, <1>3, <2>2, <3>1, BuildInvKept
  <2> QED
    BY <1>1, <1>2, <1>3, <1>5, <2>2, <2>3 DEF KeepsDisplay
<1>6. CASE Displayed
  <2>1. variables' = [v \in DOMAIN variables |-> WithDisplay(variables[v], DisplayFrom(FirstTuple(v)))]
    BY <1>6 DEF ApplyDisplay, Displayed
  <2>2. DOMAIN variables' = DOMAIN variables
    BY <2>1
  <2>3. ASSUME NEW w \in DOMAIN variables
        PROVE  /\ IsVariable(variables'[w])
               /\ variables'[w].short = variables[w].short /\ variables'[w].numeric = variables[w].numeric
               /\ variables'[w].long = variables[w].long /\ variables'[w].missing = variables[w].missing
               /\ variables'[w].labels = variables[w].labels
               /\ variables'[w].attributes = variables[w].attributes
               /\ variables'[w].display = DisplayFrom(FirstTuple(w))
    <3>1. variables'[w] = WithDisplay(variables[w], DisplayFrom(FirstTuple(w)))
      BY <2>1
    <3> QED
      BY <1>4, <3>1, DisplaySet
  <2>4. KeepsShape
    BY <2>2, <2>3 DEF KeepsShape
  <2>5. KeepsLong /\ KeepsMissing
    BY <2>3 DEF KeepsLong, KeepsMissing
  <2>6. KeepsLabels /\ KeepsAttributes
    BY <2>3 DEF KeepsLabels, KeepsAttributes
  <2>7. BuildInv'
    <3>1. names' = NameIndex'
      BY <1>1, <2>4, <2>5, NameIndexStays DEF BuildInv
    <3> QED
      BY <1>2, <1>3, <2>4, <3>1, BuildInvKept
  <2> QED
    BY <1>1, <1>2, <1>3, <1>6, <2>3, <2>4, <2>5, <2>6, <2>7
<1> QED
  BY <1>5, <1>6

(* The steps that only go on to the next loop. *)
GoesOn ==
  \/ IndexNames
  \/ EndLoop("valueLabels", valueLabelSets, "attributes")
  \/ EndLoop("attributes", attributes, "longValueLabels")
  \/ EndLoop("longValueLabels", longValueLabels, "longMissing")
  \/ EndLoop("longMissing", longMissing, "built")

LEMMA GoingOn ==
  ASSUME BuildInv, GoesOn
  PROVE  /\ BuildInv' /\ KeepsFed /\ Progress("none") /\ KeepsShape /\ UNCHANGED warnings
         /\ building # "feeding" /\ building' \notin {"feeding", "longNames"}
         /\ building' # "valueLabels"
         /\ building \in {"longNames", "display"} <=> building' = "display"
         /\ KeepsLong /\ KeepsMissing /\ KeepsLabels /\ KeepsDisplay /\ KeepsAttributes
<1>1. /\ Follows(building, building') /\ building # "display" /\ turn' = 0
      /\ UNCHANGED <<layout, format, fed, variables, warnings>>
      /\ names' = IF building = "longNames" THEN NameIndex ELSE names
  BY DEF GoesOn, IndexNames, EndLoop, Follows
<1>2. KeepsFed
  BY <1>1 DEF KeepsFed
<1>3. /\ PayloadsTyped' /\ (attributes = carried)' /\ TurnInRange' /\ Progress("none")
      /\ building # "feeding" /\ building' \notin {"feeding", "longNames"}
  BY <1>1, <1>2, LoopEnds
<1>4. KeepsShape /\ KeepsLong /\ KeepsMissing /\ KeepsLabels /\ KeepsDisplay /\ KeepsAttributes
  BY <1>1, <1>3, NothingChanges
<1>5. BuildInv'
  <2>1. names' = NameIndex'
    <3>1. names' = NameIndex
      BY <1>1, <1>3 DEF BuildInv
    <3> QED
      BY <1>4, <3>1, NameIndexStays
  <2> QED
    BY <1>2, <1>3, <1>4, <2>1, BuildInvKept
<1>6. building' # "valueLabels" /\ (building \in {"longNames", "display"} <=> building' = "display")
  BY <1>1 DEF Follows
<1> QED
  BY <1>1, <1>2, <1>3, <1>4, <1>5, <1>6

(* A step is one of these. *)
LEMMA StepKinds ==
  ASSUME Next
  PROVE  \/ Feeds \/ Build \/ ApplyLongName \/ ApplyDisplay \/ ApplyValueLabels
         \/ ApplyAttributes \/ ApplyLongValueLabels \/ ApplyLongMissing \/ GoesOn
BY Zenon DEF Next, Feeds, GoesOn

LEMMA BuildInvHolds == BuildInv /\ [Next]_vars => BuildInv'
<1> SUFFICES ASSUME BuildInv, [Next]_vars PROVE BuildInv'
  OBVIOUS
<1>1. CASE UNCHANGED vars
  <2>1. UNCHANGED <<building, layout, format, turn, variables, names, warnings>>
    BY <1>1 DEF vars
  <2>2. UNCHANGED <<longNames, display, valueLabelSets, attributes, carried, longValueLabels, longMissing>>
    BY <1>1 DEF vars, fed
  <2>3. PayloadsTyped' /\ (attributes = carried)'
    BY <2>2 DEF BuildInv, PayloadsTyped
  <2>4. TurnInRange'
    BY <2>1, <2>2 DEF BuildInv, TurnInRange
  <2>5. AllDescribed'
    BY <2>1 DEF BuildInv, AllDescribed
  <2>6. (building \notin {"feeding", "longNames"} => names = NameIndex)'
    BY <2>1 DEF BuildInv, NameIndex, VariableIndex
  <2> QED
    BY <2>1, <2>3, <2>4, <2>5, <2>6 DEF BuildInv
<1>2. CASE Next
  BY <1>2, StepKinds, FeedsKeep, BuildDescribes, LongNameApplied, DisplayApplied, ValueLabelsApplied,
     AttributesApplied, LongValueLabelsApplied, LongMissingApplied, GoingOn
<1> QED
  BY <1>1, <1>2

-----------------------------------------------------------------------------------
(* What the entries dealt with have made of a variable: the last that finds it counts *)

Finding(finds, v, n) == {i \in 1..n: finds[i] = v}

LEMMA FindingGrows ==
  ASSUME NEW n \in Nat, NEW finds, NEW v
  PROVE  /\ finds[n + 1] = v => Finding(finds, v, n + 1) # {} /\ Max(Finding(finds, v, n + 1)) = n + 1
         /\ finds[n + 1] # v => Finding(finds, v, n + 1) = Finding(finds, v, n)
<1> DEFINE new == Finding(finds, v, n + 1)
<1>1. CASE finds[n + 1] = v
  <2>1. n + 1 \in new /\ new \in SUBSET (1..(n + 1))
    BY <1>1 DEF Finding
  <2> HIDE DEF new
  <2>2. Max(new) = n + 1
    BY <2>1, GreatestGrows
  <2> QED
    BY <1>1, <2>1, <2>2 DEF new
<1>2. CASE finds[n + 1] # v
  <2>1. \A i \in 1..(n + 1): i \in 1..n \/ i = n + 1
    OBVIOUS
  <2>2. \A i \in 1..n: i \in 1..(n + 1)
    OBVIOUS
  <2> QED
    BY <1>2, <2>1, <2>2 DEF Finding
<1> QED
  BY <1>1, <1>2

LEMMA FindingInRange ==
  ASSUME NEW n \in Nat, NEW finds, NEW v
  PROVE  /\ Finding(finds, v, n) \in SUBSET (1..n)
         /\ Finding(finds, v, n) # {} => Max(Finding(finds, v, n)) \in Finding(finds, v, n)
<1>1. Finding(finds, v, n) \in SUBSET (1..n)
  BY DEF Finding
<1> QED
  BY <1>1, GreatestNumber

LongNameFinds  == [i \in DOMAIN longNames |-> ByShortName(longNames[i].short)]
MissingFinds   == [i \in DOMAIN longMissing |-> VariableIndex(longMissing[i].name)]
LongLabelFinds == [i \in DOMAIN longValueLabels |-> VariableIndex(longValueLabels[i].name)]
AttributeFinds == [i \in DOMAIN attributes |-> VariableIndex(attributes[i].name)]

LongSoFar(v) ==
  LET found == Finding(LongNameFinds, v, LongNamesDone)
  IN  IF found = {} THEN Unset ELSE longNames[Max(found)].long

MissingSoFar(v) ==
  LET found == Finding(MissingFinds, v, LongMissingDone)
  IN  IF found = {} THEN DecodeMissing(layout[v].raw, layout[v].numeric, format, SpssDefaults)
      ELSE Keys(longMissing[Max(found)])

LongInv    == \A v \in DOMAIN variables: variables[v].long = LongSoFar(v)
MissingInv == \A v \in DOMAIN variables: variables[v].missing = MissingSoFar(v)

LEMMA DoneAreNumbers ==
  ASSUME BuildInv
  PROVE  /\ LongNamesDone \in Nat /\ LabelSetsDone \in Nat /\ AttributesDone \in Nat
         /\ LongLabelsDone \in Nat /\ LongMissingDone \in Nat
<1>1. /\ Len(longNames) \in Nat /\ Len(valueLabelSets) \in Nat /\ Len(attributes) \in Nat
      /\ Len(longValueLabels) \in Nat /\ Len(longMissing) \in Nat
  BY LengthsAreNumbers DEF BuildInv
<1>2. turn \in Nat
  BY DEF BuildInv, TurnInRange
<1> QED
  BY <1>1, <1>2 DEF LongNamesDone, LabelSetsDone, AttributesDone, LongLabelsDone, LongMissingDone, Handled

(* What the entries find stays where the names do. *)
LEMMA FindsStay ==
  ASSUME KeepsFed, KeepsShape, KeepsLong
  PROVE  /\ MissingFinds' = MissingFinds /\ LongLabelFinds' = LongLabelFinds
         /\ AttributeFinds' = AttributeFinds
<1>1. \A name: VariableIndex(name)' = VariableIndex(name)
  BY IndexStays
<1>2. UNCHANGED <<longMissing, longValueLabels, attributes>>
  BY DEF KeepsFed, fed
<1>3. ASSUME NEW i PROVE (VariableIndex(longMissing[i].name))' = VariableIndex(longMissing[i].name)
  <2> PICK name: name = longMissing[i].name
    OBVIOUS
  <2>1. VariableIndex(name)' = VariableIndex(name) /\ name = longMissing'[i].name
    BY <1>1, <1>2
  <2> QED
    BY <2>1
<1>4. ASSUME NEW i PROVE (VariableIndex(longValueLabels[i].name))' = VariableIndex(longValueLabels[i].name)
  <2> PICK name: name = longValueLabels[i].name
    OBVIOUS
  <2>1. VariableIndex(name)' = VariableIndex(name) /\ name = longValueLabels'[i].name
    BY <1>1, <1>2
  <2> QED
    BY <2>1
<1>5. ASSUME NEW i PROVE (VariableIndex(attributes[i].name))' = VariableIndex(attributes[i].name)
  <2> PICK name: name = attributes[i].name
    OBVIOUS
  <2>1. VariableIndex(name)' = VariableIndex(name) /\ name = attributes'[i].name
    BY <1>1, <1>2
  <2> QED
    BY <2>1
<1>6. MissingFinds' = MissingFinds
  BY <1>2, <1>3 DEF MissingFinds
<1>7. LongLabelFinds' = LongLabelFinds
  BY <1>2, <1>4 DEF LongLabelFinds
<1>8. AttributeFinds' = AttributeFinds
  BY <1>2, <1>5 DEF AttributeFinds
<1> QED
  BY <1>6, <1>7, <1>8

LEMMA LongNameFindsStay ==
  ASSUME KeepsFed
  PROVE  LongNameFinds' = LongNameFinds /\ UNCHANGED <<layout, format, longNames>>
<1>1. UNCHANGED <<layout, format, longNames>>
  BY DEF KeepsFed, fed
<1> QED
  BY <1>1 DEF LongNameFinds, ByShortName

LEMMA NoneYet == \A finds, v: Finding(finds, v, 0) = {}
BY DEF Finding


LEMMA LongInvHolds == BuildInv /\ LongInv /\ [Next]_vars => LongInv'
<1> SUFFICES ASSUME BuildInv, LongInv, [Next]_vars PROVE LongInv'
  OBVIOUS
<1>1. CASE Feeds
  <2>1. variables' = << >>
    BY <1>1, FeedsKeep
  <2> QED
    BY <2>1 DEF LongInv
<1>2. CASE Build
  <2>1. /\ building' = "longNames" /\ turn' = 0 /\ DOMAIN variables' = DOMAIN layout
        /\ \A v \in DOMAIN layout: variables'[v].long = Unset
    BY <1>2, BuildDescribes
  <2>2. LongNamesDone' = 0
    BY <2>1 DEF LongNamesDone, Handled
  <2>3. \A v: LongSoFar(v)' = Unset
    BY <2>2, NoneYet DEF LongSoFar
  <2> QED
    BY <2>1, <2>3 DEF LongInv
<1>3. CASE ApplyLongName
  <2>1. /\ KeepsFed /\ KeepsShape /\ Progress("longNames") /\ turn + 1 \in 1..Len(longNames)
        /\ building = "longNames"
        /\ \A w \in DOMAIN variables: variables'[w].long =
             IF ByShortName(longNames[turn + 1].short) = w THEN longNames[turn + 1].long
             ELSE variables[w].long
    BY <1>3, LongNameApplied
  <2>2. LongNameFinds' = LongNameFinds /\ UNCHANGED <<layout, format, longNames>>
    BY <2>1, LongNameFindsStay
  <2>3. LongNamesDone = turn /\ LongNamesDone' = turn + 1 /\ turn \in Nat
    BY <2>1, DoneAreNumbers DEF Progress, LongNamesDone, Handled
  <2>4. DOMAIN longNames = 1..Len(longNames)
    BY DEF BuildInv, PayloadsTyped
  <2>5. LongNameFinds[turn + 1] = ByShortName(longNames[turn + 1].short)
    BY <2>1, <2>4 DEF LongNameFinds
  <2>6. ASSUME NEW w \in DOMAIN variables
        PROVE  variables'[w].long = LongSoFar(w)'
    <3>1. /\ LongNameFinds[turn + 1] = w =>
               Finding(LongNameFinds, w, turn + 1) # {} /\ Max(Finding(LongNameFinds, w, turn + 1)) = turn + 1
          /\ LongNameFinds[turn + 1] # w => Finding(LongNameFinds, w, turn + 1) = Finding(LongNameFinds, w, turn)
      BY <2>3, FindingGrows
    <3>2. variables[w].long = LongSoFar(w)
      BY DEF LongInv
    <3> QED
      BY <2>1, <2>2, <2>3, <2>5, <3>1, <3>2 DEF LongSoFar
  <2> QED
    BY <2>1, <2>6 DEF LongInv, KeepsShape
<1>4. CASE UNCHANGED vars
  BY <1>4 DEF vars, fed, LongInv, LongSoFar, LongNameFinds, ByShortName, LongNamesDone, Handled
<1>5. CASE \/ ApplyDisplay \/ ApplyValueLabels \/ ApplyAttributes \/ ApplyLongValueLabels
           \/ ApplyLongMissing \/ GoesOn
  <2>1. KeepsFed /\ KeepsShape /\ KeepsLong /\ LongNamesDone' = LongNamesDone + 0
    BY <1>5, DisplayApplied, ValueLabelsApplied, AttributesApplied, LongValueLabelsApplied,
       LongMissingApplied, GoingOn DEF Progress
  <2>2. LongNameFinds' = LongNameFinds /\ UNCHANGED <<layout, format, longNames>>
    BY <2>1, LongNameFindsStay
  <2>3. LongNamesDone' = LongNamesDone
    BY <2>1, DoneAreNumbers
  <2>4. \A v: LongSoFar(v)' = LongSoFar(v)
    BY <2>2, <2>3 DEF LongSoFar
  <2> QED
    BY <2>1, <2>4 DEF LongInv, KeepsShape, KeepsLong
<1> QED
  BY <1>1, <1>2, <1>3, <1>4, <1>5, StepKinds

LEMMA MissingInvHolds == BuildInv /\ MissingInv /\ [Next]_vars => MissingInv'
<1> SUFFICES ASSUME BuildInv, MissingInv, [Next]_vars PROVE MissingInv'
  OBVIOUS
<1>1. CASE Feeds
  <2>1. variables' = << >>
    BY <1>1, FeedsKeep
  <2> QED
    BY <2>1 DEF MissingInv
<1>2. CASE Build
  <2>1. /\ building' = "longNames" /\ DOMAIN variables' = DOMAIN layout /\ KeepsFed
        /\ \A v \in DOMAIN layout: variables'[v].missing =
             DecodeMissing(layout[v].raw, layout[v].numeric, format, SpssDefaults)
    BY <1>2, BuildDescribes
  <2>2. LongMissingDone' = 0
    BY <2>1 DEF LongMissingDone
  <2>3. UNCHANGED <<layout, format>>
    BY <2>1 DEF KeepsFed
  <2>4. \A v: MissingSoFar(v)' = DecodeMissing(layout[v].raw, layout[v].numeric, format, SpssDefaults)
    BY <2>2, <2>3, NoneYet DEF MissingSoFar
  <2> QED
    BY <2>1, <2>4 DEF MissingInv
<1>3. CASE ApplyLongMissing
  <2>1. /\ KeepsFed /\ KeepsShape /\ KeepsLong /\ Progress("longMissing")
        /\ turn + 1 \in 1..Len(longMissing) /\ building = "longMissing"
        /\ \A w \in DOMAIN variables: variables'[w].missing =
             IF VariableIndex(longMissing[turn + 1].name) = w THEN Keys(longMissing[turn + 1])
             ELSE variables[w].missing
    BY <1>3, LongMissingApplied
  <2>2. MissingFinds' = MissingFinds /\ UNCHANGED <<layout, format, longMissing>>
    BY <2>1, FindsStay DEF KeepsFed, fed
  <2>3. LongMissingDone = turn /\ LongMissingDone' = turn + 1 /\ turn \in Nat
    BY <2>1, DoneAreNumbers DEF Progress, LongMissingDone
  <2>4. DOMAIN longMissing = 1..Len(longMissing)
    BY DEF BuildInv, PayloadsTyped
  <2>5. MissingFinds[turn + 1] = VariableIndex(longMissing[turn + 1].name)
    BY <2>1, <2>4 DEF MissingFinds
  <2>6. ASSUME NEW w \in DOMAIN variables
        PROVE  variables'[w].missing = MissingSoFar(w)'
    <3>1. /\ MissingFinds[turn + 1] = w =>
               Finding(MissingFinds, w, turn + 1) # {} /\ Max(Finding(MissingFinds, w, turn + 1)) = turn + 1
          /\ MissingFinds[turn + 1] # w => Finding(MissingFinds, w, turn + 1) = Finding(MissingFinds, w, turn)
      BY <2>3, FindingGrows
    <3>2. variables[w].missing = MissingSoFar(w)
      BY DEF MissingInv
    <3> QED
      BY <2>1, <2>2, <2>3, <2>5, <3>1, <3>2 DEF MissingSoFar, Keys
  <2> QED
    BY <2>1, <2>6 DEF MissingInv, KeepsShape
<1>4. CASE UNCHANGED vars
  BY <1>4 DEF vars, fed, MissingInv, MissingSoFar, MissingFinds, VariableIndex, LongMissingDone
<1>5. CASE \/ ApplyDisplay \/ ApplyValueLabels \/ ApplyAttributes \/ ApplyLongValueLabels \/ GoesOn
  <2>1. KeepsFed /\ KeepsShape /\ KeepsLong /\ KeepsMissing /\ LongMissingDone' = LongMissingDone + 0
    BY <1>5, DisplayApplied, ValueLabelsApplied, AttributesApplied, LongValueLabelsApplied, GoingOn
       DEF Progress
  <2>2. MissingFinds' = MissingFinds /\ UNCHANGED <<layout, format, longMissing>>
    BY <2>1, FindsStay DEF KeepsFed, fed
  <2>3. LongMissingDone' = LongMissingDone
    BY <2>1, DoneAreNumbers
  <2>4. \A v: MissingSoFar(v)' = MissingSoFar(v)
    BY <2>2, <2>3 DEF MissingSoFar, Keys
  <2> QED
    BY <2>1, <2>4 DEF MissingInv, KeepsShape, KeepsMissing
<1>6. CASE ApplyLongName
  <2>1. /\ KeepsFed /\ KeepsShape /\ KeepsMissing /\ LongMissingDone' = LongMissingDone + 0
        /\ building = "longNames"
    BY <1>6, LongNameApplied DEF Progress
  <2>2. LongMissingDone' = 0 /\ LongMissingDone = 0
    BY <2>1 DEF LongMissingDone
  <2>3. UNCHANGED <<layout, format>>
    BY <2>1 DEF KeepsFed
  <2>4. \A v: MissingSoFar(v)' = MissingSoFar(v)
    BY <2>2, <2>3, NoneYet DEF MissingSoFar
  <2> QED
    BY <2>1, <2>4 DEF MissingInv, KeepsShape, KeepsMissing
<1> QED
  BY <1>1, <1>2, <1>3, <1>4, <1>5, <1>6, StepKinds

-----------------------------------------------------------------------------------
(* Where variables start *)

(* A segment starts the variable it finds. *)
LEMMA StartingAt ==
  ASSUME BuildInv, NEW segment
  PROVE  /\ VariableStartingAt(segment) \in DOMAIN layout \cup {0}
         /\ VariableStartingAt(segment) = 0 <=> \A v \in DOMAIN layout: Start(v) # segment
         /\ VariableStartingAt(segment) # 0 => Start(VariableStartingAt(segment)) = segment
<1> DEFINE S == {v \in DOMAIN layout: Start(v) = segment}
<1>1. S \in SUBSET (1..Len(layout)) /\ Len(layout) \in Nat
  BY LayoutFacts DEF BuildInv
<1>2. VariableStartingAt(segment) = FirstOf(S)
  BY DEF VariableStartingAt
<1>3. S = {} <=> \A v \in DOMAIN layout: Start(v) # segment
  OBVIOUS
<1>4. \A v \in S: v \in DOMAIN layout /\ Start(v) = segment
  OBVIOUS
<1> HIDE DEF S
<1>5. FirstOf(S) \in 0..Len(layout) /\ (FirstOf(S) = 0 <=> S = {}) /\ (S # {} => FirstOf(S) \in S)
  BY <1>1, FirstOfFacts
<1> QED
  BY <1>2, <1>3, <1>4, <1>5

LEMMA StartsStay ==
  ASSUME KeepsFed
  PROVE  /\ \A v: Start(v)' = Start(v)
         /\ \A segment: VariableStartingAt(segment)' = VariableStartingAt(segment)
<1>1. layout' = layout
  BY DEF KeepsFed
<1> QED
  BY <1>1 DEF Start, VariableStartingAt

(* The sets that are for a variable, and what a set gives. *)
SetsFor(v, n) == {i \in 1..n: v \in Targets(valueLabelSets[i])}
LabelsOfSet(set) == TypedSet(set, Targets(set))

(* What the labels of a variable are. *)
LabelsOf(v) ==
  LET found == Finding(LongLabelFinds, v, LongLabelsDone)
      sets  == SetsFor(v, LabelSetsDone)
  IN  variables[v].labels =
        IF found # {} THEN ValueLabelSet("LongString", longValueLabels[Max(found)].labels)
        ELSE IF sets # {} THEN LabelsOfSet(valueLabelSets[Max(sets)])
        ELSE [kind |-> Unset]

LabelInv == \A v \in DOMAIN variables: LabelsOf(v)

LEMMA SetsGrow ==
  ASSUME NEW n \in Nat, NEW v
  PROVE  /\ v \in Targets(valueLabelSets[n + 1]) => SetsFor(v, n + 1) # {} /\ Max(SetsFor(v, n + 1)) = n + 1
         /\ v \notin Targets(valueLabelSets[n + 1]) => SetsFor(v, n + 1) = SetsFor(v, n)
<1> DEFINE new == SetsFor(v, n + 1)
<1> HIDE DEF Targets
<1>1. CASE v \in Targets(valueLabelSets[n + 1])
  <2>1. n + 1 \in new /\ new \in SUBSET (1..(n + 1))
    BY <1>1 DEF SetsFor
  <2> HIDE DEF new
  <2>2. Max(new) = n + 1
    BY <2>1, GreatestGrows
  <2> QED
    BY <1>1, <2>1, <2>2 DEF new
<1>2. CASE v \notin Targets(valueLabelSets[n + 1])
  <2>1. \A i \in 1..(n + 1): i \in 1..n \/ i = n + 1
    OBVIOUS
  <2>2. \A i \in 1..n: i \in 1..(n + 1)
    OBVIOUS
  <2> QED
    BY <1>2, <2>1, <2>2 DEF SetsFor
<1> QED
  BY <1>1, <1>2

LEMMA NoSetYet == \A v: SetsFor(v, 0) = {}
BY DEF SetsFor

LEMMA SetsStay ==
  ASSUME KeepsFed
  PROVE  /\ \A v, n: SetsFor(v, n)' = SetsFor(v, n)
         /\ \A i: LabelsOfSet(valueLabelSets[i])' = LabelsOfSet(valueLabelSets[i])
         /\ \A i: Targets(valueLabelSets[i])' = Targets(valueLabelSets[i])
<1>1. layout' = layout /\ valueLabelSets' = valueLabelSets
  BY DEF KeepsFed, fed
<1>2. \A segment: VariableStartingAt(segment)' = VariableStartingAt(segment)
  BY StartsStay
<1> HIDE DEF VariableStartingAt
<1>3. ASSUME NEW i PROVE Targets(valueLabelSets[i])' = Targets(valueLabelSets[i])
  BY <1>1, <1>2 DEF Targets, ToSet
<1>4. \A i: Targets(valueLabelSets[i])' = Targets(valueLabelSets[i])
  BY <1>3
<1> HIDE DEF Targets
<1>5. \A v, n: SetsFor(v, n)' = SetsFor(v, n)
  BY <1>4 DEF SetsFor
<1>6. ASSUME NEW i PROVE LabelsOfSet(valueLabelSets[i])' = LabelsOfSet(valueLabelSets[i])
  BY <1>1, <1>3 DEF LabelsOfSet, TypedSet, ValueLabelSet
<1> QED
  BY <1>4, <1>5, <1>6

(* The labels of a variable stay what they are where no set and no entry is dealt with. *)
LEMMA LabelsOfStay ==
  ASSUME KeepsFed, NEW v, LabelsOf(v), variables'[v].labels = variables[v].labels,
         LabelSetsDone' = LabelSetsDone, UNCHANGED longValueLabels,
         Finding(LongLabelFinds, v, LongLabelsDone)' = Finding(LongLabelFinds, v, LongLabelsDone)
  PROVE  LabelsOf(v)'
<1> HIDE DEF LabelSetsDone, LongLabelFinds, LongLabelsDone
<1>1. /\ SetsFor(v, LabelSetsDone)' = SetsFor(v, LabelSetsDone)
      /\ \A i: LabelsOfSet(valueLabelSets[i])' = LabelsOfSet(valueLabelSets[i])
  BY SetsStay
<1> HIDE DEF SetsFor, LabelsOfSet
<1> QED
  BY <1>1 DEF LabelsOf, ValueLabelSet

LEMMA LabelsStay ==
  ASSUME BuildInv, LabelInv, KeepsFed, KeepsShape, KeepsLabels,
         LabelSetsDone' = LabelSetsDone + 0, LongLabelsDone' = LongLabelsDone + 0,
         LongLabelFinds' = LongLabelFinds \/ LongLabelsDone = 0
  PROVE  LabelInv'
<1>1. LabelSetsDone' = LabelSetsDone /\ LongLabelsDone' = LongLabelsDone
  BY DoneAreNumbers
<1>2. longValueLabels' = longValueLabels
  BY DEF KeepsFed, fed
<1>3. \A v: Finding(LongLabelFinds, v, LongLabelsDone)' = Finding(LongLabelFinds, v, LongLabelsDone)
  <2>1. CASE LongLabelFinds' = LongLabelFinds
    BY <1>1, <2>1
  <2>2. CASE LongLabelsDone = 0
    BY <1>1, <2>2, NoneYet
  <2> QED
    BY <2>1, <2>2
<1>4. ASSUME NEW v \in DOMAIN variables
      PROVE  LabelsOf(v)'
  <2>1. variables'[v].labels = variables[v].labels
    BY DEF KeepsLabels
  <2>2. LabelsOf(v)
    BY DEF LabelInv
  <2> QED
    BY <1>1, <1>2, <1>3, <2>1, <2>2, LabelsOfStay
<1> QED
  BY <1>4 DEF LabelInv, KeepsShape

LEMMA LabelInvHolds == BuildInv /\ LabelInv /\ [Next]_vars => LabelInv'
<1> SUFFICES ASSUME BuildInv, LabelInv, [Next]_vars PROVE LabelInv'
  OBVIOUS
<1>1. CASE Feeds
  <2>1. variables' = << >>
    BY <1>1, FeedsKeep
  <2> QED
    BY <2>1 DEF LabelInv
<1>2. CASE Build
  <2>1. /\ building' = "longNames" /\ DOMAIN variables' = DOMAIN layout
        /\ \A v \in DOMAIN layout: variables'[v].labels = [kind |-> Unset]
    BY <1>2, BuildDescribes
  <2>2. LongLabelsDone' = 0 /\ LabelSetsDone' = 0
    BY <2>1 DEF LongLabelsDone, LabelSetsDone, Handled
  <2>3. \A v: SetsFor(v, LabelSetsDone)' = {} /\ Finding(LongLabelFinds, v, LongLabelsDone)' = {}
    BY <2>2, NoneYet DEF SetsFor
  <2>4. \A v \in DOMAIN layout: LabelsOf(v)'
    BY <2>1, <2>3 DEF LabelsOf
  <2> QED
    BY <2>1, <2>4 DEF LabelInv
<1>3. CASE ApplyValueLabels
  <2> DEFINE set == valueLabelSets[turn + 1]
  <2>1. /\ KeepsFed /\ KeepsShape /\ KeepsLong /\ Progress("valueLabels") /\ building = "valueLabels"
        /\ building' = "valueLabels"
        /\ turn + 1 \in 1..Len(valueLabelSets)
        /\ \A w \in DOMAIN variables: variables'[w].labels =
             IF w \in Targets(set) THEN LabelsOfSet(set) ELSE variables[w].labels
    BY <1>3, ValueLabelsApplied DEF LabelsOfSet
  <2>2. LabelSetsDone = turn /\ LabelSetsDone' = turn + 1 /\ turn \in Nat
    BY <2>1, DoneAreNumbers DEF Progress, LabelSetsDone, Handled
  <2>3. LongLabelsDone' = 0 /\ LongLabelsDone = 0
    BY <2>1 DEF LongLabelsDone, Handled
  <2>4. /\ \A i: LabelsOfSet(valueLabelSets[i])' = LabelsOfSet(valueLabelSets[i])
        /\ \A i: Targets(valueLabelSets[i])' = Targets(valueLabelSets[i])
    BY <2>1, SetsStay
  <2>5. PICK k \in Nat: k = turn + 1
    BY <2>2
  <2>6. ASSUME NEW v \in DOMAIN variables
        PROVE  LabelsOf(v)'
    <3>1. /\ v \in Targets(set) => SetsFor(v, k) # {} /\ Max(SetsFor(v, k)) = k
          /\ v \notin Targets(set) => SetsFor(v, k) = SetsFor(v, LabelSetsDone)
      BY <2>2, <2>5, SetsGrow
    <3>2. SetsFor(v, LabelSetsDone)' = SetsFor(v, k)
      <4>1. LabelSetsDone' = k
        BY <2>2, <2>5
      <4> QED
        BY <2>4, <4>1 DEF SetsFor
    <3>3. Finding(LongLabelFinds, v, LongLabelsDone)' = {} /\ Finding(LongLabelFinds, v, LongLabelsDone) = {}
      BY <2>3, NoneYet
    <3>4. LabelsOf(v)
      BY DEF LabelInv
    <3>5. CASE v \in Targets(set)
      <4>1. variables'[v].labels = LabelsOfSet(valueLabelSets[k])
        BY <2>1, <2>5, <3>5
      <4>2. variables'[v].labels = LabelsOfSet(valueLabelSets[k])'
        BY <2>4, <4>1
      <4>3. SetsFor(v, LabelSetsDone)' # {} /\ Max(SetsFor(v, LabelSetsDone))' = k
        BY <3>1, <3>2, <3>5
      <4> QED
        BY <3>3, <4>2, <4>3 DEF LabelsOf
    <3>6. CASE v \notin Targets(set)
      <4>1. variables'[v].labels = variables[v].labels
        BY <2>1, <3>6
      <4>2. SetsFor(v, LabelSetsDone)' = SetsFor(v, LabelSetsDone)
        BY <3>1, <3>2, <3>6
      <4> QED
        BY <2>4, <3>3, <3>4, <4>1, <4>2 DEF LabelsOf
    <3> QED
      BY <3>5, <3>6
  <2> QED
    BY <2>1, <2>6 DEF LabelInv, KeepsShape
<1>4. CASE ApplyLongValueLabels
  <2>1. /\ KeepsFed /\ KeepsShape /\ KeepsLong /\ Progress("longValueLabels")
        /\ turn + 1 \in 1..Len(longValueLabels) /\ building = "longValueLabels"
        /\ \A w \in DOMAIN variables: variables'[w].labels =
             IF VariableIndex(longValueLabels[turn + 1].name) = w
             THEN ValueLabelSet("LongString", longValueLabels[turn + 1].labels)
             ELSE variables[w].labels
    BY <1>4, LongValueLabelsApplied
  <2>2. LongLabelFinds' = LongLabelFinds /\ UNCHANGED <<valueLabelSets, longValueLabels>>
    BY <2>1, FindsStay DEF KeepsFed, fed
  <2>3. /\ LongLabelsDone = turn /\ LongLabelsDone' = turn + 1 /\ turn \in Nat
        /\ LabelSetsDone' = LabelSetsDone
    BY <2>1, DoneAreNumbers DEF Progress, LongLabelsDone, Handled
  <2>4. LongLabelFinds[turn + 1] = VariableIndex(longValueLabels[turn + 1].name)
    <3>1. DOMAIN longValueLabels = 1..Len(longValueLabels)
      BY DEF BuildInv, PayloadsTyped
    <3> QED
      BY <2>1, <3>1 DEF LongLabelFinds
  <2>5. ASSUME NEW w \in DOMAIN variables
        PROVE  LabelsOf(w)'
    <3>1. /\ LongLabelFinds[turn + 1] = w =>
               Finding(LongLabelFinds, w, turn + 1) # {} /\ Max(Finding(LongLabelFinds, w, turn + 1)) = turn + 1
          /\ LongLabelFinds[turn + 1] # w =>
               Finding(LongLabelFinds, w, turn + 1) = Finding(LongLabelFinds, w, turn)
      BY <2>3, FindingGrows
    <3>2. Finding(LongLabelFinds, w, LongLabelsDone)' = Finding(LongLabelFinds, w, turn + 1)
      BY <2>2, <2>3
    <3>3. LabelsOf(w)
      BY <2>1 DEF LabelInv
    <3>4. CASE LongLabelFinds[turn + 1] = w
      <4>1. variables'[w].labels = ValueLabelSet("LongString", longValueLabels[turn + 1].labels)
        BY <2>1, <2>4, <3>4
      <4> HIDE DEF Finding, LongLabelFinds, LongLabelsDone, SetsFor, LabelsOfSet
      <4> QED
        BY <2>2, <3>1, <3>2, <3>4, <4>1 DEF LabelsOf, ValueLabelSet
    <3>5. CASE LongLabelFinds[turn + 1] # w
      <4>1. variables'[w].labels = variables[w].labels
        BY <2>1, <2>4, <3>5
      <4>2. Finding(LongLabelFinds, w, LongLabelsDone)' = Finding(LongLabelFinds, w, LongLabelsDone)
        BY <2>3, <3>1, <3>2, <3>5
      <4> QED
        BY <2>1, <2>2, <2>3, <3>3, <4>1, <4>2, LabelsOfStay
    <3> QED
      BY <3>4, <3>5
  <2> QED
    BY <2>1, <2>5 DEF LabelInv, KeepsShape
<1>5. CASE UNCHANGED vars
  <2>1. /\ UNCHANGED <<building, layout, turn, variables, valueLabelSets, longValueLabels>> /\ KeepsFed
    BY <1>5 DEF vars, fed, KeepsFed
  <2>2. LongLabelFinds' = LongLabelFinds
    BY <2>1 DEF LongLabelFinds, VariableIndex
  <2>3. LongLabelsDone' = LongLabelsDone /\ LabelSetsDone' = LabelSetsDone
    BY <2>1 DEF LongLabelsDone, LabelSetsDone, Handled
  <2>4. ASSUME NEW v, LabelsOf(v) PROVE LabelsOf(v)'
    <3>1. Finding(LongLabelFinds, v, LongLabelsDone)' = Finding(LongLabelFinds, v, LongLabelsDone)
      BY <2>2, <2>3
    <3> QED
      BY <2>1, <2>3, <2>4, <3>1, LabelsOfStay
  <2> QED
    BY <2>1, <2>4 DEF LabelInv
<1>6. CASE ApplyDisplay \/ ApplyAttributes \/ ApplyLongMissing \/ GoesOn
  <2>1. /\ KeepsFed /\ KeepsShape /\ KeepsLong /\ KeepsLabels
        /\ LabelSetsDone' = LabelSetsDone + 0 /\ LongLabelsDone' = LongLabelsDone + 0
    BY <1>6, DisplayApplied, AttributesApplied, LongMissingApplied, GoingOn DEF Progress
  <2> QED
    BY <2>1, FindsStay, LabelsStay
<1>7. CASE ApplyLongName
  <2>1. /\ KeepsFed /\ KeepsShape /\ KeepsLabels /\ building = "longNames"
        /\ LabelSetsDone' = LabelSetsDone + 0 /\ LongLabelsDone' = LongLabelsDone + 0
    BY <1>7, LongNameApplied DEF Progress
  <2>2. LongLabelsDone = 0
    BY <2>1 DEF LongLabelsDone, Handled
  <2> QED
    BY <2>1, <2>2, LabelsStay
<1> QED
  BY <1>1, <1>2, <1>3, <1>4, <1>5, <1>6, <1>7, StepKinds

-----------------------------------------------------------------------------------
(* The attributes of a variable add up *)

AttributeParts(v, n) ==
  [i \in 1..n |-> IF AttributeFinds[i] = v THEN attributes[i].attributes ELSE << >>]

AttributeInv ==
  \A v \in DOMAIN variables: variables[v].attributes = FlattenSeq(AttributeParts(v, AttributesDone))

LEMMA PartsGrow ==
  ASSUME PayloadsTyped, NEW n \in Nat, n + 1 \in 1..Len(attributes), NEW v
  PROVE  FlattenSeq(AttributeParts(v, n + 1)) =
           IF AttributeFinds[n + 1] = v
           THEN FlattenSeq(AttributeParts(v, n)) \o attributes[n + 1].attributes
           ELSE FlattenSeq(AttributeParts(v, n))
<1> DEFINE T == Seq(Nat)
           Part(i) == IF AttributeFinds[i] = v THEN attributes[i].attributes ELSE << >>
           old == AttributeParts(v, n)
           new == AttributeParts(v, n + 1)
<1>1. \A i \in 1..Len(attributes): Part(i) \in T
  <2>1. \A i \in 1..Len(attributes): attributes[i].attributes \in T
    <3> DEFINE R == [name: Names, attributes: T]
    <3>1. attributes \in Seq(R)
      BY DEF PayloadsTyped
    <3> HIDE DEF T
    <3>2. \A r \in R: r.attributes \in T
      OBVIOUS
    <3> HIDE DEF R
    <3>3. \A i \in 1..Len(attributes): attributes[i] \in R
      BY <3>1
    <3> QED
      BY <3>2, <3>3
  <2>2. << >> \in T
    OBVIOUS
  <2> HIDE DEF T
  <2> QED
    BY <2>1, <2>2
<1>2. Len(attributes) \in Nat
  BY LengthsAreNumbers
<1>3. old = [i \in 1..n |-> Part(i)] /\ new = [i \in 1..(n + 1) |-> Part(i)]
  BY DEF AttributeParts
<1>4. Part(n + 1) = IF AttributeFinds[n + 1] = v THEN attributes[n + 1].attributes ELSE << >>
  OBVIOUS
<1> HIDE DEF T, Part, old, new
<1>5. \A i \in 1..n: Part(i) \in T
  BY <1>1, <1>2
<1>6. old \in Seq(T) /\ Len(old) = n /\ Part(n + 1) \in T
  BY <1>1, <1>3, <1>5
<1>7. /\ DOMAIN new = 1..(Len(old) + 1) /\ new = [i \in DOMAIN new |-> new[i]]
      /\ \A i \in 1..Len(old): new[i] = old[i]
      /\ new[Len(old) + 1] = Part(n + 1)
  BY <1>3, <1>6
<1>8. new = Append(old, Part(n + 1))
  BY <1>6, <1>7, OneMore
<1>9. old \in Seq(Seq(Nat)) /\ Part(n + 1) \in Seq(Nat)
  BY <1>6 DEF T
<1>10. FlattenSeq(new) = FlattenSeq(old) \o Part(n + 1)
  BY <1>8, <1>9, FlattenAppend
<1>11. FlattenSeq(old) \o << >> = FlattenSeq(old)
  <2>1. FlattenSeq(old) \in Seq(Nat)
    BY <1>9, FlattenTyped
  <2> QED
    BY <2>1, ConcatEmptySeq
<1>12. CASE AttributeFinds[n + 1] = v
  BY <1>4, <1>10, <1>12 DEF old, new
<1>13. CASE AttributeFinds[n + 1] # v
  BY <1>4, <1>10, <1>11, <1>13 DEF old, new
<1> QED
  BY <1>12, <1>13

LEMMA AttributesStay ==
  ASSUME BuildInv, AttributeInv, KeepsFed, KeepsShape, KeepsAttributes,
         AttributesDone' = AttributesDone + 0, AttributeFinds' = AttributeFinds \/ AttributesDone = 0
  PROVE  AttributeInv'
<1>1. AttributesDone' = AttributesDone
  BY DoneAreNumbers
<1>2. attributes' = attributes
  BY DEF KeepsFed, fed
<1>3. \A v: AttributeParts(v, AttributesDone)' = AttributeParts(v, AttributesDone)
  <2>1. CASE AttributeFinds' = AttributeFinds
    BY <1>1, <1>2, <2>1 DEF AttributeParts
  <2>2. CASE AttributesDone = 0
    BY <1>1, <2>2 DEF AttributeParts
  <2> QED
    BY <2>1, <2>2
<1> QED
  BY <1>3 DEF AttributeInv, KeepsShape, KeepsAttributes

LEMMA AttributeInvHolds == BuildInv /\ AttributeInv /\ [Next]_vars => AttributeInv'
<1> SUFFICES ASSUME BuildInv, AttributeInv, [Next]_vars PROVE AttributeInv'
  OBVIOUS
<1>1. CASE Feeds
  <2>1. variables' = << >>
    BY <1>1, FeedsKeep
  <2> QED
    BY <2>1 DEF AttributeInv
<1>2. CASE Build
  <2>1. /\ building' = "longNames" /\ DOMAIN variables' = DOMAIN layout
        /\ \A v \in DOMAIN layout: variables'[v].attributes = << >>
    BY <1>2, BuildDescribes
  <2>2. AttributesDone' = 0
    BY <2>1 DEF AttributesDone, Handled
  <2>3. \A v: AttributeParts(v, AttributesDone)' = << >>
    BY <2>2 DEF AttributeParts
  <2> QED
    BY <2>1, <2>3, FlattenEmpty DEF AttributeInv
<1>3. CASE ApplyAttributes
  <2>1. /\ KeepsFed /\ KeepsShape /\ KeepsLong /\ Progress("attributes")
        /\ turn + 1 \in 1..Len(attributes) /\ building = "attributes"
        /\ \A w \in DOMAIN variables: variables'[w].attributes =
              IF VariableIndex(attributes[turn + 1].name) = w
              THEN variables[w].attributes \o attributes[turn + 1].attributes
              ELSE variables[w].attributes
    BY <1>3, AttributesApplied
  <2>2. AttributeFinds' = AttributeFinds /\ attributes' = attributes
    BY <2>1, FindsStay DEF KeepsFed, fed
  <2>3. AttributesDone = turn /\ AttributesDone' = turn + 1 /\ turn \in Nat
    BY <2>1, DoneAreNumbers DEF Progress, AttributesDone, Handled
  <2>4. AttributeFinds[turn + 1] = VariableIndex(attributes[turn + 1].name)
    <3>1. DOMAIN attributes = 1..Len(attributes)
      BY DEF BuildInv, PayloadsTyped
    <3> QED
      BY <2>1, <3>1 DEF AttributeFinds
  <2>5. ASSUME NEW w \in DOMAIN variables
        PROVE  variables'[w].attributes = FlattenSeq(AttributeParts(w, AttributesDone))'
    <3>1. FlattenSeq(AttributeParts(w, turn + 1)) =
            IF AttributeFinds[turn + 1] = w
            THEN FlattenSeq(AttributeParts(w, turn)) \o attributes[turn + 1].attributes
            ELSE FlattenSeq(AttributeParts(w, turn))
      BY <2>1, <2>3, PartsGrow DEF BuildInv
    <3>2. variables[w].attributes = FlattenSeq(AttributeParts(w, turn))
      BY <2>3 DEF AttributeInv
    <3>3. AttributeParts(w, AttributesDone)' = AttributeParts(w, turn + 1)
      BY <2>2, <2>3 DEF AttributeParts
    <3> QED
      BY <2>1, <2>4, <3>1, <3>2, <3>3
  <2> QED
    BY <2>1, <2>5 DEF AttributeInv, KeepsShape
<1>4. CASE UNCHANGED vars
  <2>1. UNCHANGED <<building, turn, variables, attributes>>
    BY <1>4 DEF vars, fed
  <2>2. AttributeFinds' = AttributeFinds
    BY <2>1 DEF AttributeFinds, VariableIndex
  <2>3. AttributesDone' = AttributesDone
    BY <2>1 DEF AttributesDone, Handled
  <2>4. \A v: AttributeParts(v, AttributesDone)' = AttributeParts(v, AttributesDone)
    BY <2>1, <2>2, <2>3 DEF AttributeParts
  <2> QED
    BY <2>1, <2>4 DEF AttributeInv
<1>5. CASE ApplyDisplay \/ ApplyValueLabels \/ ApplyLongValueLabels \/ ApplyLongMissing \/ GoesOn
  <2>1. /\ KeepsFed /\ KeepsShape /\ KeepsLong /\ KeepsAttributes
        /\ AttributesDone' = AttributesDone + 0
    BY <1>5, DisplayApplied, ValueLabelsApplied, LongValueLabelsApplied, LongMissingApplied, GoingOn
       DEF Progress
  <2> QED
    BY <2>1, FindsStay, AttributesStay
<1>6. CASE ApplyLongName
  <2>1. /\ KeepsFed /\ KeepsShape /\ KeepsAttributes /\ building = "longNames"
        /\ AttributesDone' = AttributesDone + 0
    BY <1>6, LongNameApplied DEF Progress
  <2>2. AttributesDone = 0
    BY <2>1 DEF AttributesDone, Handled
  <2> QED
    BY <2>1, <2>2, AttributesStay
<1> QED
  BY <1>1, <1>2, <1>3, <1>4, <1>5, <1>6, StepKinds

-----------------------------------------------------------------------------------
(* What warnings there are *)

LEMMA SetOfConcat ==
  ASSUME NEW C, NEW s \in Seq(C), NEW D, NEW t \in Seq(D)
  PROVE  s \o t \in Seq(C \cup D) /\ ToSet(s \o t) = ToSet(s) \cup ToSet(t)
<1>1. /\ Len(s) \in Nat /\ DOMAIN s = 1..Len(s) /\ \A i \in 1..Len(s): s[i] \in C
      /\ Len(t) \in Nat /\ DOMAIN t = 1..Len(t) /\ \A i \in 1..Len(t): t[i] \in D
  OBVIOUS
<1> DEFINE T == C \cup D
<1>2. s \in Seq(T) /\ t \in Seq(T)
  <2>1. (\A i \in 1..Len(s): s[i] \in T) /\ (\A i \in 1..Len(t): t[i] \in T)
    BY <1>1
  <2> HIDE DEF T
  <2> QED
    BY <1>1, <2>1
<1> HIDE DEF T
<1> DEFINE all == s \o t
<1>3. /\ all \in Seq(T) /\ Len(all) = Len(s) + Len(t) /\ DOMAIN all = 1..(Len(s) + Len(t))
      /\ \A i \in 1..(Len(s) + Len(t)): all[i] = IF i <= Len(s) THEN s[i] ELSE t[i - Len(s)]
  BY <1>2, ConcatProperties
<1> HIDE DEF all
<1>4. ASSUME NEW x \in ToSet(all)
      PROVE  x \in ToSet(s) \cup ToSet(t)
  <2>1. PICK i \in 1..(Len(s) + Len(t)): x = all[i]
    BY <1>3 DEF ToSet
  <2>2. CASE i <= Len(s)
    <3>1. i \in 1..Len(s) /\ x = s[i]
      BY <1>1, <1>3, <2>1, <2>2
    <3> QED
      BY <1>1, <3>1 DEF ToSet
  <2>3. CASE ~(i <= Len(s))
    <3>1. i - Len(s) \in 1..Len(t) /\ x = t[i - Len(s)]
      BY <1>1, <1>3, <2>1, <2>3
    <3> QED
      BY <1>1, <3>1 DEF ToSet
  <2> QED
    BY <2>2, <2>3
<1>5. ASSUME NEW x \in ToSet(s)
      PROVE  x \in ToSet(all)
  <2>1. PICK i \in 1..Len(s): x = s[i]
    BY <1>1 DEF ToSet
  <2>2. i \in 1..(Len(s) + Len(t)) /\ all[i] = x
    BY <1>1, <1>3, <2>1
  <2> QED
    BY <1>3, <2>2 DEF ToSet
<1>6. ASSUME NEW x \in ToSet(t)
      PROVE  x \in ToSet(all)
  <2>1. PICK i \in 1..Len(t): x = t[i]
    BY <1>1 DEF ToSet
  <2>2. /\ Len(s) + i \in 1..(Len(s) + Len(t)) /\ ~(Len(s) + i <= Len(s))
        /\ (Len(s) + i) - Len(s) = i
    BY <1>1, <2>1
  <2>3. all[Len(s) + i] = x
    BY <1>3, <2>1, <2>2
  <2> QED
    BY <1>3, <2>2, <2>3 DEF ToSet
<1>7. ToSet(all) = ToSet(s) \cup ToSet(t)
  BY <1>4, <1>5, <1>6
<1> QED
  BY <1>3, <1>7 DEF all, T

LEMMA SetOfAppend ==
  ASSUME NEW C, NEW s \in Seq(C), NEW e
  PROVE  Append(s, e) \in Seq(C \cup {e}) /\ ToSet(Append(s, e)) = ToSet(s) \cup {e}
<1>1. <<e>> \in Seq({e}) /\ ToSet(<<e>>) = {e}
  <2>1. /\ <<e>> \in Seq({e}) /\ DOMAIN <<e>> = {1} /\ <<e>>[1] = e
    OBVIOUS
  <2> QED
    BY <2>1 DEF ToSet
<1>2. Append(s, e) = s \o <<e>>
  <2> DEFINE T == C \cup {e}
  <2>1. /\ Len(s) \in Nat /\ \A i \in 1..Len(s): s[i] \in T
    OBVIOUS
  <2>2. e \in T
    OBVIOUS
  <2> HIDE DEF T
  <2>3. s \in Seq(T) /\ <<e>> \in Seq(T)
    BY <2>1, <2>2
  <2> QED
    BY <2>2, <2>3, AppendIsConcat
<1> DEFINE one == <<e>>
           D   == {e}
<1> HIDE DEF one, D
<1>3. one \in Seq(D) /\ ToSet(one) = D /\ Append(s, e) = s \o one
  BY <1>1, <1>2 DEF one, D
<1>4. s \o one \in Seq(C \cup D) /\ ToSet(s \o one) = ToSet(s) \cup ToSet(one)
  BY <1>3, SetOfConcat, ZenonT(60)
<1>5. Append(s, e) \in Seq(C \cup D) /\ ToSet(Append(s, e)) = ToSet(s) \cup D
  BY <1>3, <1>4
<1> QED
  BY <1>5 DEF D

LEMMA SetOfFlattened ==
  ASSUME NEW S, NEW parts \in Seq(Seq(S))
  PROVE  ToSet(FlattenSeq(parts)) = UNION {ToSet(parts[k]): k \in DOMAIN parts}
<1> DEFINE All(rr) == UNION {ToSet(rr[k]): k \in 1..Len(rr)}
           N == {n \in Nat: \A rr \in Seq(Seq(S)): Len(rr) = n => ToSet(FlattenSeq(rr)) = All(rr)}
<1>1. 0 \in N
  <2> SUFFICES ASSUME NEW rr \in Seq(Seq(S)), Len(rr) = 0
               PROVE  ToSet(FlattenSeq(rr)) = All(rr)
    OBVIOUS
  <2>1. rr = << >>
    BY EmptySeq
  <2>2. ToSet(<< >>) = {}
    BY DEF ToSet
  <2>3. All(rr) = {}
    OBVIOUS
  <2> QED
    BY <2>1, <2>2, <2>3, FlattenEmpty
<1>2. ASSUME NEW n \in N, NEW rr \in Seq(Seq(S)), Len(rr) = n + 1
      PROVE  ToSet(FlattenSeq(rr)) = All(rr)
  <2> DEFINE front == SubSeq(rr, 1, n)
  <2>1. /\ n \in Nat /\ front \in Seq(Seq(S)) /\ Len(front) = n
        /\ rr[n + 1] \in Seq(S) /\ rr = Append(front, rr[n + 1])
    BY <1>2, SeqIsAppend
  <2>2. \A i \in 1..n: front[i] = rr[i]
    BY <1>2, SubSeqProperties
  <2> HIDE DEF front
  <2>3. ToSet(FlattenSeq(front)) = All(front)
    BY <2>1
  <2> HIDE DEF N
  <2>4. FlattenSeq(rr) = FlattenSeq(front) \o rr[n + 1]
    BY <2>1, FlattenAppend
  <2>5. ToSet(FlattenSeq(rr)) = ToSet(FlattenSeq(front)) \cup ToSet(rr[n + 1])
    <3>1. FlattenSeq(front) \in Seq(S)
      BY <2>1, FlattenTyped
    <3> QED
      BY <2>1, <2>4, <3>1, SetOfConcat
  <2>6. \A i \in 1..(n + 1): i \in 1..n \/ i = n + 1
    BY <2>1
  <2>7. (\A i \in 1..n: i \in 1..(n + 1)) /\ n + 1 \in 1..(n + 1)
    BY <2>1
  <2>8. All(rr) = All(front) \cup ToSet(rr[n + 1])
    BY <1>2, <2>1, <2>2, <2>6, <2>7
  <2> QED
    BY <2>3, <2>5, <2>8
<1>3. N \in SUBSET Nat /\ \A n \in N: n + 1 \in N
  <2> HIDE DEF All
  <2>1. \A n \in N: n \in Nat /\ n + 1 \in Nat
    OBVIOUS
  <2> QED
    BY <1>2, <2>1
<1> HIDE DEF N
<1>4. N = Nat
  BY <1>1, <1>3, SetInduction
<1>5. Len(parts) \in N /\ DOMAIN parts = 1..Len(parts)
  BY <1>4, LenProperties
<1>6. ToSet(FlattenSeq(parts)) = All(parts)
  BY <1>5 DEF N
<1> QED
  BY <1>5, <1>6

(* One warning to each of some places. *)
OneEach(n, told, warned) == [k \in 1..n |-> IF k \in told THEN <<warned[k]>> ELSE << >>]

LEMMA SetOfOneEach ==
  ASSUME NEW n \in Nat, NEW told, NEW warned
  PROVE  /\ \E D: FlattenSeq(OneEach(n, told, warned)) \in Seq(D)
         /\ ToSet(FlattenSeq(OneEach(n, told, warned))) = {warned[k]: k \in told \cap 1..n}
<1> DEFINE D == {warned[k]: k \in 1..n}
           parts == OneEach(n, told, warned)
<1>1. DOMAIN parts = 1..n /\ \A k \in 1..n: parts[k] = IF k \in told THEN <<warned[k]>> ELSE << >>
  BY DEF OneEach
<1>2. \A k \in 1..n: warned[k] \in D
  OBVIOUS
<1>3. parts \in Seq(Seq(D))
  <2> HIDE DEF D
  <2> DEFINE E == Seq(D)
  <2>1. \A k \in 1..n: <<warned[k]>> \in E
    BY <1>2
  <2>2. << >> \in E
    OBVIOUS
  <2> HIDE DEF E
  <2>3. \A k \in 1..n: (IF k \in told THEN <<warned[k]>> ELSE << >>) \in E
    BY <2>1, <2>2
  <2>4. parts \in Seq(E)
    BY <2>3 DEF OneEach
  <2> QED
    BY <2>4 DEF E
<1> HIDE DEF parts, D
<1>4. FlattenSeq(parts) \in Seq(D)
  BY <1>3, FlattenTyped
<1>5. ToSet(FlattenSeq(parts)) = UNION {ToSet(parts[k]): k \in 1..n}
  BY <1>1, <1>3, SetOfFlattened
<1>6. \A x: ToSet(<<x>>) = {x}
  <2>1. \A x: DOMAIN <<x>> = {1} /\ <<x>>[1] = x
    OBVIOUS
  <2> QED
    BY <2>1 DEF ToSet
<1>7. ToSet(<< >>) = {}
  BY DEF ToSet
<1>8. \A k \in 1..n: ToSet(parts[k]) = IF k \in told THEN {warned[k]} ELSE {}
  BY <1>1, <1>6, <1>7
<1>9. ASSUME NEW x
      PROVE  x \in ToSet(FlattenSeq(parts)) <=> x \in {warned[k]: k \in told \cap 1..n}
  <2>1. x \in ToSet(FlattenSeq(parts)) <=> \E k \in 1..n: x \in ToSet(parts[k])
    BY <1>5
  <2>2. \A k \in 1..n: x \in ToSet(parts[k]) <=> (k \in told /\ x = warned[k])
    BY <1>8
  <2> QED
    BY <2>1, <2>2
<1> QED
  BY <1>4, <1>9, Zenon DEF parts

WarningsTyped == \E C: warnings \in Seq(C)

(* The step adds just the warnings of W. *)
WarningsGrow(W) == WarningsTyped' /\ ToSet(warnings') = ToSet(warnings) \cup W

UnknownName(subtype, name) == [why |-> "UnknownVariableInExtension", subject |-> <<subtype, name>>]
StraySegment(segment)      == [why |-> "ValueLabelOnVeryLongString", subject |-> segment]
UnknownLevel(v)            == [why |-> "UnknownMeasurementLevel", subject |-> v]

LEMMA PatchWarns ==
  ASSUME WarningsTyped, NEW subtype, NEW name, NEW v, NEW patched,
         PatchOrWarn(subtype, name, v, patched)
  PROVE  WarningsGrow(IF v = 0 THEN {UnknownName(subtype, name)} ELSE {})
<1>1. PICK C: warnings \in Seq(C)
  BY DEF WarningsTyped
<1>2. CASE v = 0
  <2> DEFINE w == UnknownName(subtype, name)
  <2>1. warnings' = Append(warnings, w)
    BY <1>2 DEF PatchOrWarn, Unknown, Warn, UnknownName
  <2> HIDE DEF w
  <2>2. Append(warnings, w) \in Seq(C \cup {w}) /\ ToSet(Append(warnings, w)) = ToSet(warnings) \cup {w}
    BY <1>1, SetOfAppend
  <2>3. WarningsGrow({w})
    BY <2>1, <2>2 DEF WarningsGrow, WarningsTyped
  <2> QED
    BY <1>2, <2>3 DEF w
<1>3. CASE v # 0
  <2>1. warnings' = warnings
    BY <1>3 DEF PatchOrWarn
  <2>2. WarningsGrow({})
    BY <1>1, <2>1 DEF WarningsGrow, WarningsTyped
  <2> QED
    BY <1>3, <2>2
<1> QED
  BY <1>2, <1>3

(* One warning to each of the places that are not in order. *)
LEMMA EachWarns ==
  ASSUME WarningsTyped, NEW n \in Nat, NEW told, NEW warned,
         warnings' = warnings \o FlattenSeq(OneEach(n, told, warned))
  PROVE  WarningsGrow({warned[k]: k \in told \cap 1..n})
<1> DEFINE more == FlattenSeq(OneEach(n, told, warned))
           W    == {warned[k]: k \in told \cap 1..n}
<1>1. PICK C: warnings \in Seq(C)
  BY DEF WarningsTyped
<1>2. (\E D: more \in Seq(D)) /\ ToSet(more) = W
  BY SetOfOneEach
<1> HIDE DEF W, more
<1>3. PICK D: more \in Seq(D)
  BY <1>2
<1>4. warnings \o more \in Seq(C \cup D) /\ ToSet(warnings \o more) = ToSet(warnings) \cup ToSet(more)
  BY <1>1, <1>3, SetOfConcat, ZenonT(60)
<1>5. warnings' = warnings \o more
  BY DEF more
<1>6. WarningsGrow(W)
  BY <1>2, <1>4, <1>5 DEF WarningsGrow, WarningsTyped
<1> QED
  BY <1>6 DEF W

LEMMA SegmentsWarn ==
  ASSUME BuildInv, WarningsTyped, ApplyValueLabels, NEW set, set = valueLabelSets[turn + 1]
  PROVE  WarningsGrow({StraySegment(s): s \in {r \in ToSet(set.segments): VariableStartingAt(r) = 0}})
<1> DEFINE segments == set.segments
           n      == Len(segments)
           told   == {k \in DOMAIN segments: VariableStartingAt(segments[k]) = 0}
           warned == [k \in DOMAIN segments |-> StraySegment(segments[k])]
           astray == [k \in DOMAIN segments |->
                        IF VariableStartingAt(segments[k]) # 0 THEN << >>
                        ELSE <<[why |-> "ValueLabelOnVeryLongString", subject |-> segments[k]]>>]
<1>1. n \in Nat /\ DOMAIN segments = 1..n
  <2>1. turn + 1 \in 1..Len(valueLabelSets)
    BY ValueLabelsApplied
  <2> DEFINE R == [segments: Seq(Nat), labels: Nat]
  <2>2. valueLabelSets \in Seq(R)
    BY DEF BuildInv, PayloadsTyped
  <2>3. \A r \in R: Len(r.segments) \in Nat /\ DOMAIN r.segments = 1..Len(r.segments)
    OBVIOUS
  <2> HIDE DEF R
  <2>4. set \in R
    BY <2>1, <2>2
  <2> QED
    BY <2>3, <2>4
<1>2. warnings' = warnings \o FlattenSeq(astray)
  BY Zenon DEF ApplyValueLabels
<1>3. astray = OneEach(n, told, warned)
  <2>1. \A k \in 1..n: k \in told <=> VariableStartingAt(segments[k]) = 0
    BY <1>1
  <2>2. \A k \in 1..n: warned[k] = [why |-> "ValueLabelOnVeryLongString", subject |-> segments[k]]
    BY <1>1 DEF StraySegment
  <2> HIDE DEF told, warned, segments, n
  <2> QED
    BY <1>1, <2>1, <2>2 DEF OneEach
<1> HIDE DEF astray
<1>4. WarningsGrow({warned[k]: k \in told \cap 1..n})
  <2>1. n \in Nat
    BY <1>1
  <2> HIDE DEF segments, n, told, warned
  <2> QED
    BY <1>2, <1>3, <2>1, EachWarns
<1>5. ASSUME NEW x
      PROVE  x \in {warned[k]: k \in told \cap 1..n}
               <=> x \in {StraySegment(s): s \in {r \in ToSet(segments): VariableStartingAt(r) = 0}}
  <2>1. ToSet(segments) = {segments[k]: k \in 1..n}
    BY <1>1 DEF ToSet
  <2>2. x \in {warned[k]: k \in told \cap 1..n} <=>
          \E k \in 1..n: VariableStartingAt(segments[k]) = 0 /\ x = StraySegment(segments[k])
    <3>1. \A k \in 1..n: warned[k] = StraySegment(segments[k])
      BY <1>1
    <3> HIDE DEF warned
    <3> QED
      BY <1>1, <3>1
  <2> HIDE DEF segments, n, told, warned
  <2> QED
    BY <2>1, <2>2
<1>6. {warned[k]: k \in told \cap 1..n}
        = {StraySegment(s): s \in {r \in ToSet(segments): VariableStartingAt(r) = 0}}
  <2> HIDE DEF segments, n, told, warned
  <2> QED
    BY <1>5, Zenon
<1> QED
  BY <1>4, <1>6

StrangeLevels == {v \in DOMAIN variables: NarrowToByte(FirstTuple(v)[1]) \notin MeasurementLevels}

LEMMA LevelsWarn ==
  ASSUME BuildInv, WarningsTyped, ApplyDisplay
  PROVE  WarningsGrow(IF display = << >> THEN {}
                      ELSE IF TupleStride = 0
                      THEN {[why |-> "DisplayParameterCountMismatch", subject |-> <<Len(display), SegmentCount>>]}
                      ELSE {UnknownLevel(v): v \in StrangeLevels})
<1>1. PICK C: warnings \in Seq(C)
  BY DEF WarningsTyped
<1>2. CASE display = << >>
  <2>1. warnings' = warnings
    BY <1>2 DEF ApplyDisplay
  <2>2. WarningsGrow({})
    BY <1>1, <2>1 DEF WarningsGrow, WarningsTyped
  <2> QED
    BY <1>2, <2>2
<1>3. CASE display # << >> /\ TupleStride = 0
  <2> DEFINE w == [why |-> "DisplayParameterCountMismatch", subject |-> <<Len(display), SegmentCount>>]
  <2>1. warnings' = Append(warnings, w)
    BY <1>3 DEF ApplyDisplay, Warn
  <2> HIDE DEF w
  <2>2. Append(warnings, w) \in Seq(C \cup {w}) /\ ToSet(Append(warnings, w)) = ToSet(warnings) \cup {w}
    BY <1>1, SetOfAppend
  <2>3. WarningsGrow({w})
    BY <2>1, <2>2 DEF WarningsGrow, WarningsTyped
  <2> QED
    BY <1>3, <2>3 DEF w
<1>4. CASE display # << >> /\ TupleStride # 0
  <2> DEFINE n == Len(layout)
             warned == [v \in 1..n |-> UnknownLevel(v)]
  <2>1. warnings' = warnings \o UnknownLevels
    BY <1>4 DEF ApplyDisplay
  <2>2. n \in Nat /\ DOMAIN variables = 1..n
    <3>1. building = "display"
      BY DEF ApplyDisplay
    <3> QED
      BY <3>1, LayoutFacts DEF BuildInv, AllDescribed
  <2>3. UnknownLevels = FlattenSeq(OneEach(n, StrangeLevels, warned))
    <3>1. \A v \in 1..n: v \in StrangeLevels <=> NarrowToByte(FirstTuple(v)[1]) \notin MeasurementLevels
      BY <2>2 DEF StrangeLevels
    <3>2. \A v \in 1..n: warned[v] = [why |-> "UnknownMeasurementLevel", subject |-> v]
      BY DEF UnknownLevel
    <3> HIDE DEF n, warned
    <3>3. [v \in 1..n |-> IF NarrowToByte(FirstTuple(v)[1]) \in MeasurementLevels THEN << >>
                          ELSE <<[why |-> "UnknownMeasurementLevel", subject |-> v]>>]
            = OneEach(n, StrangeLevels, warned)
      BY <3>1, <3>2 DEF OneEach
    <3> QED
      BY <2>2, <3>3 DEF UnknownLevels
  <2>4. WarningsGrow({warned[v]: v \in StrangeLevels \cap 1..n})
    BY <2>1, <2>2, <2>3, EachWarns
  <2>5. {warned[v]: v \in StrangeLevels \cap 1..n} = {UnknownLevel(v): v \in StrangeLevels}
    <3>1. StrangeLevels \cap 1..n = StrangeLevels
      BY <2>2 DEF StrangeLevels
    <3> QED
      BY <3>1
  <2>6. WarningsGrow({UnknownLevel(v): v \in StrangeLevels})
    BY <2>4, <2>5
  <2> QED
    BY <1>4, <2>6
<1> QED
  BY <1>2, <1>3, <1>4

(* Every attribute entry dealt with that finds no variable is warned about, and no other name. *)
AttributesWarned ==
  \A name: UnknownName("VariableAttributes", name) \in ToSet(warnings) <=>
             \E i \in 1..AttributesDone: attributes[i].name = name /\ VariableIndex(name) = 0
SegmentsWarned ==
  \A i \in 1..LabelSetsDone: \A segment \in ToSet(valueLabelSets[i].segments):
    VariableStartingAt(segment) = 0 => StraySegment(segment) \in ToSet(warnings)
LevelsWarned ==
  building \notin {"feeding", "longNames", "display"} /\ Displayed =>
    \A v \in StrangeLevels: UnknownLevel(v) \in ToSet(warnings)

WarningInv == WarningsTyped /\ AttributesWarned /\ SegmentsWarned /\ LevelsWarned

LEMMA DisplayStays ==
  ASSUME KeepsFed
  PROVE  /\ Displayed' = Displayed /\ \A v: FirstTuple(v)' = FirstTuple(v)
         /\ TupleStride' = TupleStride /\ SegmentCount' = SegmentCount
<1>1. layout' = layout /\ display' = display
  BY DEF KeepsFed, fed
<1>2. SegmentCount' = SegmentCount /\ \A v: Start(v)' = Start(v)
  BY <1>1, StartsStay DEF SegmentCount, Start
<1>3. TupleStride' = TupleStride
  BY <1>1, <1>2 DEF TupleStride
<1> QED
  BY <1>1, <1>2, <1>3 DEF Displayed, FirstTuple

(* Warnings of other kinds change none of the three. *)
LEMMA OtherWarnings ==
  ASSUME BuildInv, WarningInv, KeepsFed, KeepsShape, NEW W, WarningsGrow(W),
         \A name: UnknownName("VariableAttributes", name) \notin W,
         AttributesDone' = AttributesDone + 0, LabelSetsDone' = LabelSetsDone + 0,
         KeepsLong \/ AttributesDone = 0,
         building' \in {"feeding", "longNames", "display"}
           \/ building \notin {"feeding", "longNames", "display"}
  PROVE  WarningInv'
<1>1. ToSet(warnings') = ToSet(warnings) \cup W /\ WarningsTyped'
  BY DEF WarningsGrow
<1>2. AttributesDone' = AttributesDone /\ LabelSetsDone' = LabelSetsDone
  BY DoneAreNumbers
<1>3. UNCHANGED <<attributes, valueLabelSets>>
  BY DEF KeepsFed, fed
<1>4. AttributesWarned'
  <2>1. CASE KeepsLong
    <3>1. \A name: VariableIndex(name)' = VariableIndex(name)
      BY <2>1, IndexStays
    <3> QED
      BY <1>1, <1>2, <1>3, <3>1 DEF WarningInv, AttributesWarned
  <2>2. CASE AttributesDone = 0
    BY <1>1, <1>2, <2>2 DEF WarningInv, AttributesWarned
  <2> QED
    BY <2>1, <2>2
<1>5. SegmentsWarned'
  <2>1. \A segment: VariableStartingAt(segment)' = VariableStartingAt(segment)
    BY StartsStay
  <2> QED
    BY <1>1, <1>2, <1>3, <2>1 DEF WarningInv, SegmentsWarned
<1>6. LevelsWarned'
  <2>1. StrangeLevels' = StrangeLevels
    BY DisplayStays DEF StrangeLevels, KeepsShape
  <2> QED
    BY <1>1, <2>1, DisplayStays DEF WarningInv, LevelsWarned
<1> QED
  BY <1>1, <1>4, <1>5, <1>6 DEF WarningInv

LEMMA NoWarning ==
  ASSUME WarningsTyped, UNCHANGED warnings
  PROVE  WarningsGrow({})
BY DEF WarningsTyped, WarningsGrow

LEMMA AttributeWarns ==
  ASSUME BuildInv, WarningInv, ApplyAttributes
  PROVE  WarningInv'
<1> DEFINE entry == attributes[turn + 1]
           W == IF VariableIndex(entry.name) = 0 THEN {UnknownName("VariableAttributes", entry.name)} ELSE {}
<1>1. /\ KeepsFed /\ KeepsShape /\ KeepsLong /\ Progress("attributes")
      /\ turn + 1 \in 1..Len(attributes) /\ building = "attributes" /\ building' = "attributes"
  BY AttributesApplied
<1>2. WarningsGrow(W)
  <2> DEFINE name    == entry.name
             v       == Lookup(entry.name)
             patched == WithAttributes(variables[v], entry.attributes)
  <2>1. v = VariableIndex(name)
    BY <1>1, LookupIsIndex
  <2>2. PatchOrWarn("VariableAttributes", name, v, patched)
    BY Zenon DEF ApplyAttributes
  <2>3. W = IF VariableIndex(name) = 0 THEN {UnknownName("VariableAttributes", name)} ELSE {}
    OBVIOUS
  <2> HIDE DEF entry, name, v, patched, W
  <2>4. WarningsGrow(IF v = 0 THEN {UnknownName("VariableAttributes", name)} ELSE {})
    BY <2>2, PatchWarns DEF WarningInv
  <2> QED
    BY <2>1, <2>3, <2>4
<1>3. AttributesDone = turn /\ AttributesDone' = turn + 1 /\ turn \in Nat
  BY <1>1, DoneAreNumbers DEF Progress, AttributesDone, Handled
<1>4. LabelSetsDone' = LabelSetsDone
  BY <1>1, DoneAreNumbers DEF Progress
<1>5. ToSet(warnings') = ToSet(warnings) \cup W /\ WarningsTyped'
  BY <1>2 DEF WarningsGrow
<1>6. UNCHANGED <<attributes, valueLabelSets>>
  BY <1>1 DEF KeepsFed, fed
<1>7. AttributesWarned'
  <2>1. \A name: VariableIndex(name)' = VariableIndex(name)
    BY <1>1, IndexStays
  <2>2. ASSUME NEW name
        PROVE  UnknownName("VariableAttributes", name) \in ToSet(warnings') <=>
                 \E i \in 1..(turn + 1): attributes[i].name = name /\ VariableIndex(name) = 0
    <3>1. UnknownName("VariableAttributes", name) \in ToSet(warnings) <=>
            \E i \in 1..turn: attributes[i].name = name /\ VariableIndex(name) = 0
      BY <1>3 DEF WarningInv, AttributesWarned
    <3>2. UnknownName("VariableAttributes", name) \in W <=>
            attributes[turn + 1].name = name /\ VariableIndex(name) = 0
      BY DEF UnknownName
    <3>3. (\A i \in 1..(turn + 1): i \in 1..turn \/ i = turn + 1) /\ (\A i \in 1..turn: i \in 1..(turn + 1))
          /\ turn + 1 \in 1..(turn + 1)
      BY <1>3
    <3> HIDE DEF W, entry
    <3> QED
      BY <1>5, <3>1, <3>2, <3>3
  <2> QED
    BY <1>3, <1>6, <2>1, <2>2 DEF AttributesWarned
<1> HIDE DEF W
<1>8. SegmentsWarned'
  <2>1. \A segment: VariableStartingAt(segment)' = VariableStartingAt(segment)
    BY <1>1, StartsStay
  <2> QED
    BY <1>4, <1>5, <1>6, <2>1 DEF WarningInv, SegmentsWarned
<1>9. LevelsWarned'
  <2>1. StrangeLevels' = StrangeLevels
    BY <1>1, DisplayStays DEF StrangeLevels, KeepsShape
  <2>2. Displayed' = Displayed
    BY <1>1, DisplayStays
  <2>3. building \notin {"feeding", "longNames", "display"}
    BY <1>1
  <2> QED
    BY <1>5, <2>1, <2>2, <2>3 DEF WarningInv, LevelsWarned
<1> QED
  BY <1>5, <1>7, <1>8, <1>9 DEF WarningInv

LEMMA SegmentWarns ==
  ASSUME BuildInv, WarningInv, ApplyValueLabels
  PROVE  WarningInv'
<1> DEFINE set == valueLabelSets[turn + 1]
           W == {StraySegment(s): s \in {r \in ToSet(set.segments): VariableStartingAt(r) = 0}}
<1>1. /\ KeepsFed /\ KeepsShape /\ KeepsLong /\ Progress("valueLabels")
      /\ turn + 1 \in 1..Len(valueLabelSets) /\ building = "valueLabels" /\ building' = "valueLabels"
  BY ValueLabelsApplied
<1>2. WarningsGrow(W)
  BY SegmentsWarn DEF WarningInv
<1>3. LabelSetsDone = turn /\ LabelSetsDone' = turn + 1 /\ turn \in Nat
  BY <1>1, DoneAreNumbers DEF Progress, LabelSetsDone, Handled
<1>4. AttributesDone' = 0 /\ AttributesDone = 0
  BY <1>1 DEF AttributesDone, Handled
<1>5. ToSet(warnings') = ToSet(warnings) \cup W /\ WarningsTyped'
  BY <1>2 DEF WarningsGrow
<1>6. UNCHANGED <<attributes, valueLabelSets>>
  BY <1>1 DEF KeepsFed, fed
<1>7. AttributesWarned'
  <2>1. \A name: UnknownName("VariableAttributes", name) \notin W
    BY DEF UnknownName, StraySegment
  <2>2. \A name: UnknownName("VariableAttributes", name) \notin ToSet(warnings)
    BY <1>4 DEF WarningInv, AttributesWarned
  <2> HIDE DEF W
  <2> QED
    BY <1>4, <1>5, <2>1, <2>2 DEF AttributesWarned
<1>8. SegmentsWarned'
  <2>1. \A segment: VariableStartingAt(segment)' = VariableStartingAt(segment)
    BY <1>1, StartsStay
  <2>2. \A i \in 1..(turn + 1): i \in 1..turn \/ i = turn + 1
    BY <1>3
  <2>3. \A segment \in ToSet(valueLabelSets[turn + 1].segments):
          VariableStartingAt(segment) = 0 => StraySegment(segment) \in W
    OBVIOUS
  <2>4. \A i \in 1..turn: \A segment \in ToSet(valueLabelSets[i].segments):
          VariableStartingAt(segment) = 0 => StraySegment(segment) \in ToSet(warnings)
    BY <1>3 DEF WarningInv, SegmentsWarned
  <2> HIDE DEF W, set
  <2> QED
    BY <1>3, <1>5, <1>6, <2>1, <2>2, <2>3, <2>4 DEF SegmentsWarned
<1> HIDE DEF W
<1>9. LevelsWarned'
  <2>1. StrangeLevels' = StrangeLevels
    BY <1>1, DisplayStays DEF StrangeLevels, KeepsShape
  <2>2. Displayed' = Displayed
    BY <1>1, DisplayStays
  <2>3. building \notin {"feeding", "longNames", "display"}
    BY <1>1
  <2> QED
    BY <1>5, <2>1, <2>2, <2>3 DEF WarningInv, LevelsWarned
<1> QED
  BY <1>5, <1>7, <1>8, <1>9 DEF WarningInv

LEMMA LevelWarns ==
  ASSUME BuildInv, WarningInv, ApplyDisplay
  PROVE  WarningInv'
<1> DEFINE W == IF display = << >> THEN {}
                ELSE IF TupleStride = 0
                THEN {[why |-> "DisplayParameterCountMismatch", subject |-> <<Len(display), SegmentCount>>]}
                ELSE {UnknownLevel(v): v \in StrangeLevels}
<1>1. /\ KeepsFed /\ KeepsShape /\ KeepsLong /\ Progress("none")
      /\ building = "display" /\ building' = "valueLabels"
  BY DisplayApplied
<1>2. WarningsGrow(W)
  BY LevelsWarn DEF WarningInv
<1>3. LabelSetsDone' = 0 /\ AttributesDone' = 0 /\ AttributesDone = 0
  <2>1. LabelSetsDone = 0 /\ AttributesDone = 0
    BY <1>1 DEF LabelSetsDone, AttributesDone, Handled
  <2> QED
    BY <1>1, <2>1 DEF Progress
<1>4. ToSet(warnings') = ToSet(warnings) \cup W /\ WarningsTyped'
  BY <1>2 DEF WarningsGrow
<1>5. AttributesWarned'
  <2>1. \A name: UnknownName("VariableAttributes", name) \notin W
    BY DEF UnknownName, UnknownLevel
  <2>2. \A name: UnknownName("VariableAttributes", name) \notin ToSet(warnings)
    BY <1>3 DEF WarningInv, AttributesWarned
  <2> HIDE DEF W
  <2> QED
    BY <1>3, <1>4, <2>1, <2>2 DEF AttributesWarned
<1>6. SegmentsWarned'
  BY <1>3 DEF SegmentsWarned
<1>7. LevelsWarned'
  <2>1. StrangeLevels' = StrangeLevels /\ Displayed' = Displayed
    BY <1>1, DisplayStays DEF StrangeLevels, KeepsShape
  <2>2. Displayed => \A v \in StrangeLevels: UnknownLevel(v) \in W
    BY DEF Displayed
  <2> HIDE DEF W
  <2> QED
    BY <1>4, <2>1, <2>2 DEF LevelsWarned
<1> QED
  BY <1>4, <1>5, <1>6, <1>7 DEF WarningInv

LEMMA OtherSubtypes ==
  ASSUME NEW subtype, subtype # "VariableAttributes", NEW name, NEW other
  PROVE  UnknownName("VariableAttributes", other) # UnknownName(subtype, name)
BY DEF UnknownName

(* An entry of another subtype. *)
LEMMA EntryWarns ==
  ASSUME WarningsTyped, NEW subtype, subtype # "VariableAttributes", NEW name, NEW v, NEW patched,
         PatchOrWarn(subtype, name, v, patched)
  PROVE  \E W: WarningsGrow(W) /\ \A other: UnknownName("VariableAttributes", other) \notin W
<1> DEFINE W == IF v = 0 THEN {UnknownName(subtype, name)} ELSE {}
<1>1. WarningsGrow(W)
  BY PatchWarns
<1>2. \A other: UnknownName("VariableAttributes", other) \notin W
  BY OtherSubtypes
<1> HIDE DEF W
<1> QED
  BY <1>1, <1>2

LEMMA StillSilent ==
  ASSUME WarningInv, UNCHANGED warnings, AttributesDone = 0,
         building' \in {"feeding", "longNames"}
  PROVE  WarningInv'
<1>1. AttributesDone' = 0 /\ LabelSetsDone' = 0
  BY DEF AttributesDone, LabelSetsDone, Handled
<1>2. AttributesWarned'
  <2>1. \A name: UnknownName("VariableAttributes", name) \notin ToSet(warnings)
    BY DEF WarningInv, AttributesWarned
  <2> QED
    BY <1>1, <2>1 DEF AttributesWarned
<1>3. SegmentsWarned'
  BY <1>1 DEF SegmentsWarned
<1>4. LevelsWarned'
  BY DEF LevelsWarned
<1>5. WarningsTyped'
  BY DEF WarningInv, WarningsTyped
<1> QED
  BY <1>2, <1>3, <1>4, <1>5 DEF WarningInv

LEMMA WarningInvHolds == BuildInv /\ WarningInv /\ [Next]_vars => WarningInv'
<1> SUFFICES ASSUME BuildInv, WarningInv, [Next]_vars PROVE WarningInv'
  OBVIOUS
<1>0. WarningsTyped
  BY DEF WarningInv
<1>1. CASE Feeds
  <2>1. building = "feeding" /\ building' = "feeding" /\ UNCHANGED warnings
    BY <1>1, FeedsKeep
  <2>2. AttributesDone = 0
    BY <2>1 DEF AttributesDone, Handled
  <2> QED
    BY <2>1, <2>2, StillSilent
<1>2. CASE Build
  <2>1. building = "feeding" /\ building' = "longNames" /\ UNCHANGED warnings
    BY <1>2, BuildDescribes
  <2>2. AttributesDone = 0
    BY <2>1 DEF AttributesDone, Handled
  <2> QED
    BY <2>1, <2>2, StillSilent
<1>3. CASE ApplyLongName
  <2>1. /\ KeepsFed /\ KeepsShape /\ building = "longNames" /\ building' = "longNames"
        /\ AttributesDone' = AttributesDone + 0 /\ LabelSetsDone' = LabelSetsDone + 0
    BY <1>3, LongNameApplied DEF Progress
  <2>2. AttributesDone = 0
    BY <2>1 DEF AttributesDone, Handled
  <2>3. \E name, v, patched: PatchOrWarn("LongVariableNames", name, v, patched)
    BY <1>3, Zenon DEF ApplyLongName
  <2>4. PICK W: WarningsGrow(W) /\ \A other: UnknownName("VariableAttributes", other) \notin W
    BY <1>0, <2>3, EntryWarns
  <2> QED
    BY <2>1, <2>2, <2>4, OtherWarnings
<1>4. CASE ApplyLongValueLabels
  <2>1. /\ KeepsFed /\ KeepsShape /\ KeepsLong /\ building = "longValueLabels"
        /\ AttributesDone' = AttributesDone + 0 /\ LabelSetsDone' = LabelSetsDone + 0
    BY <1>4, LongValueLabelsApplied DEF Progress
  <2>2. \E name, v, patched: PatchOrWarn("LongValueLabels", name, v, patched)
    BY <1>4, Zenon DEF ApplyLongValueLabels
  <2>3. PICK W: WarningsGrow(W) /\ \A other: UnknownName("VariableAttributes", other) \notin W
    BY <1>0, <2>2, EntryWarns
  <2> QED
    BY <2>1, <2>3, OtherWarnings
<1>5. CASE ApplyLongMissing
  <2>1. /\ KeepsFed /\ KeepsShape /\ KeepsLong /\ building = "longMissing"
        /\ AttributesDone' = AttributesDone + 0 /\ LabelSetsDone' = LabelSetsDone + 0
    BY <1>5, LongMissingApplied DEF Progress
  <2>2. \E name, v, patched: PatchOrWarn("LongMissingValues", name, v, patched)
    BY <1>5, Zenon DEF ApplyLongMissing
  <2>3. PICK W: WarningsGrow(W) /\ \A other: UnknownName("VariableAttributes", other) \notin W
    BY <1>0, <2>2, EntryWarns
  <2> QED
    BY <2>1, <2>3, OtherWarnings
<1>6. CASE GoesOn
  <2>1. /\ KeepsFed /\ KeepsShape /\ KeepsLong /\ UNCHANGED warnings
        /\ AttributesDone' = AttributesDone + 0 /\ LabelSetsDone' = LabelSetsDone + 0
        /\ building # "feeding" /\ (building \in {"longNames", "display"} <=> building' = "display")
    BY <1>6, GoingOn DEF Progress
  <2>2. WarningsGrow({}) /\ \A other: UnknownName("VariableAttributes", other) \notin {}
    BY <1>0, <2>1, NoWarning
  <2>3. building' \in {"feeding", "longNames", "display"}
          \/ building \notin {"feeding", "longNames", "display"}
    BY <2>1
  <2> QED
    BY <2>1, <2>2, <2>3, OtherWarnings
<1>7. CASE UNCHANGED vars
  <2>1. /\ KeepsFed
        /\ UNCHANGED <<building, turn, variables, warnings, attributes, valueLabelSets>>
    BY <1>7 DEF vars, fed, KeepsFed
  <2>2. AttributesDone' = AttributesDone /\ LabelSetsDone' = LabelSetsDone
    BY <2>1 DEF AttributesDone, LabelSetsDone, Handled
  <2>3. /\ \A name: VariableIndex(name)' = VariableIndex(name)
        /\ \A segment: VariableStartingAt(segment)' = VariableStartingAt(segment)
        /\ StrangeLevels' = StrangeLevels /\ Displayed' = Displayed
    BY <2>1, StartsStay, DisplayStays DEF VariableIndex, StrangeLevels
  <2>4. AttributesWarned'
    BY <2>1, <2>2, <2>3 DEF WarningInv, AttributesWarned
  <2>5. SegmentsWarned'
    BY <2>1, <2>2, <2>3 DEF WarningInv, SegmentsWarned
  <2>6. LevelsWarned'
    BY <2>1, <2>3 DEF WarningInv, LevelsWarned
  <2>7. WarningsTyped'
    BY <1>0, <2>1 DEF WarningsTyped
  <2> QED
    BY <2>4, <2>5, <2>6, <2>7 DEF WarningInv
<1> QED
  BY <1>1, <1>2, <1>3, <1>4, <1>5, <1>6, <1>7, AttributeWarns, SegmentWarns, LevelWarns, StepKinds

-----------------------------------------------------------------------------------
(* The display parameters come once and stay *)

DisplayInv ==
  \A v \in DOMAIN variables: variables[v].display =
    IF building \notin {"feeding", "longNames", "display"} /\ Displayed
    THEN DisplayFrom(FirstTuple(v)) ELSE << >>

LEMMA DisplayInvHolds == BuildInv /\ DisplayInv /\ [Next]_vars => DisplayInv'
<1> SUFFICES ASSUME BuildInv, DisplayInv, [Next]_vars PROVE DisplayInv'
  OBVIOUS
<1>1. CASE Feeds
  <2>1. variables' = << >>
    BY <1>1, FeedsKeep
  <2> QED
    BY <2>1 DEF DisplayInv
<1>2. CASE Build
  <2>1. /\ building' = "longNames" /\ DOMAIN variables' = DOMAIN layout
        /\ \A v \in DOMAIN layout: variables'[v].display = << >>
    BY <1>2, BuildDescribes
  <2> QED
    BY <2>1 DEF DisplayInv
<1>3. CASE ApplyDisplay
  <2>1. /\ KeepsFed /\ KeepsShape /\ building = "display" /\ building' = "valueLabels"
        /\ \A w \in DOMAIN variables: variables'[w].display =
             IF Displayed THEN DisplayFrom(FirstTuple(w)) ELSE variables[w].display
    BY <1>3, DisplayApplied
  <2>2. \A w \in DOMAIN variables: variables[w].display = << >>
    BY <2>1 DEF DisplayInv
  <2>3. Displayed' = Displayed /\ \A v: FirstTuple(v)' = FirstTuple(v)
    BY <2>1, DisplayStays
  <2>4. \A w: DisplayFrom(FirstTuple(w))' = DisplayFrom(FirstTuple(w))
    BY <2>3 DEF DisplayFrom
  <2> QED
    BY <2>1, <2>2, <2>3, <2>4 DEF DisplayInv, KeepsShape
<1>4. CASE \/ ApplyLongName \/ ApplyValueLabels \/ ApplyAttributes \/ ApplyLongValueLabels
           \/ ApplyLongMissing \/ GoesOn
  <2>1. KeepsFed /\ KeepsShape /\ KeepsDisplay
    BY <1>4, LongNameApplied, ValueLabelsApplied, AttributesApplied, LongValueLabelsApplied,
       LongMissingApplied, GoingOn
  <2>2. building \in {"feeding", "longNames", "display"} <=> building' \in {"feeding", "longNames", "display"}
    <3>1. CASE GoesOn
      BY <3>1, GoingOn
    <3>2. CASE ~GoesOn
      BY <1>4, <3>2, LongNameApplied, ValueLabelsApplied, AttributesApplied, LongValueLabelsApplied,
         LongMissingApplied
    <3> QED
      BY <3>1, <3>2
  <2>3. Displayed' = Displayed /\ \A v: FirstTuple(v)' = FirstTuple(v)
    BY <2>1, DisplayStays
  <2>4. \A w: DisplayFrom(FirstTuple(w))' = DisplayFrom(FirstTuple(w))
    BY <2>3 DEF DisplayFrom
  <2> QED
    BY <2>1, <2>2, <2>3, <2>4 DEF DisplayInv, KeepsShape, KeepsDisplay
<1>5. CASE UNCHANGED vars
  <2>1. KeepsFed /\ UNCHANGED <<building, variables>>
    BY <1>5 DEF vars, KeepsFed
  <2>2. Displayed' = Displayed /\ \A v: FirstTuple(v)' = FirstTuple(v)
    BY <2>1, DisplayStays
  <2>3. \A w: DisplayFrom(FirstTuple(w))' = DisplayFrom(FirstTuple(w))
    BY <2>2 DEF DisplayFrom
  <2> QED
    BY <2>1, <2>2, <2>3 DEF DisplayInv
<1> QED
  BY <1>1, <1>2, <1>3, <1>4, <1>5, StepKinds

(* Everything together, from the beginning. *)
SchemaInv ==
  BuildInv /\ LongInv /\ MissingInv /\ LabelInv /\ AttributeInv /\ WarningInv /\ DisplayInv

LEMMA SchemaStarts == Init => SchemaInv
<1> SUFFICES ASSUME Init PROVE SchemaInv
  OBVIOUS
<1>1. BuildInv
  BY InitBuildInv
<1>2. building = "feeding" /\ variables = << >> /\ warnings = << >>
  BY DEF Init
<1>3. LongInv /\ MissingInv /\ LabelInv /\ AttributeInv /\ DisplayInv
  BY <1>2 DEF LongInv, MissingInv, LabelInv, AttributeInv, DisplayInv
<1>4. AttributesDone = 0 /\ LabelSetsDone = 0
  BY <1>2 DEF AttributesDone, LabelSetsDone, Handled
<1>5. warnings \in Seq({}) /\ ToSet(warnings) = {}
  BY <1>2 DEF ToSet
<1>6. WarningInv
  BY <1>2, <1>4, <1>5 DEF WarningInv, WarningsTyped, AttributesWarned, SegmentsWarned, LevelsWarned
<1> QED
  BY <1>1, <1>3, <1>6 DEF SchemaInv

LEMMA SchemaInvHolds == Spec => []SchemaInv
<1>1. SchemaInv /\ [Next]_vars => SchemaInv'
  <2> SUFFICES ASSUME SchemaInv, [Next]_vars PROVE SchemaInv'
    OBVIOUS
  <2>1. /\ BuildInv /\ LongInv /\ MissingInv /\ LabelInv
        /\ AttributeInv /\ WarningInv /\ DisplayInv
    BY DEF SchemaInv
  <2>2. BuildInv' /\ LongInv' /\ MissingInv' /\ LabelInv'
    BY <2>1, BuildInvHolds, LongInvHolds, MissingInvHolds, LabelInvHolds
  <2>3. AttributeInv' /\ WarningInv' /\ DisplayInv'
    BY <2>1, AttributeInvHolds, WarningInvHolds, DisplayInvHolds
  <2> QED
    BY <2>2, <2>3 DEF SchemaInv
<1> QED
  BY <1>1, SchemaStarts, PTL DEF Spec

-----------------------------------------------------------------------------------
(* Segments and units in their order *)

(* What rises from each place to the next rises. *)
LEMMA Rises ==
  ASSUME NEW n \in Nat, NEW f, \A i \in 0..n: f[i] \in Nat, \A i \in 0..(n - 1): f[i] < f[i + 1]
  PROVE  \A i, j \in 0..n: i < j => f[i] < f[j]
<1> DEFINE D == {d \in Nat: \A i \in 0..n: i + 1 + d <= n => f[i] < f[i + 1 + d]}
<1>1. 0 \in D
  <2>1. \A i \in 0..n: i + 1 + 0 <= n => i \in 0..(n - 1) /\ i + 1 + 0 = i + 1
    OBVIOUS
  <2> QED
    BY <2>1
<1>2. ASSUME NEW d \in D PROVE d + 1 \in D
  <2>1. d \in Nat
    OBVIOUS
  <2>2. ASSUME NEW i \in 0..n, i + 1 + (d + 1) <= n
        PROVE  f[i] < f[i + 1 + (d + 1)]
    <3>1. /\ i + 1 + d <= n /\ i + 1 + d \in 0..(n - 1) /\ (i + 1 + d) + 1 = i + 1 + (d + 1)
          /\ i + 1 + d \in 0..n /\ (i + 1 + d) + 1 \in 0..n
      BY <2>1, <2>2
    <3>2. f[i] < f[i + 1 + d]
      BY <3>1
    <3>3. f[i + 1 + d] < f[(i + 1 + d) + 1]
      BY <3>1
    <3>4. f[i] \in Nat /\ f[i + 1 + d] \in Nat /\ f[(i + 1 + d) + 1] \in Nat
      BY <3>1
    <3>5. f[i] < f[(i + 1 + d) + 1]
      BY <3>2, <3>3, <3>4
    <3> QED
      BY <3>1, <3>5
  <2>3. d + 1 \in Nat
    BY <2>1
  <2> QED
    BY <2>2, <2>3
<1>3. D \in SUBSET Nat
  OBVIOUS
<1> HIDE DEF D
<1>4. D = Nat
  BY <1>1, <1>2, <1>3, SetInduction
<1>5. ASSUME NEW i \in 0..n, NEW j \in 0..n, i < j
      PROVE  f[i] < f[j]
  <2>1. j - i - 1 \in Nat /\ i + 1 + (j - i - 1) = j /\ i + 1 + (j - i - 1) <= n
    BY <1>5
  <2>2. j - i - 1 \in D
    BY <1>4, <2>1
  <2>3. f[i] < f[i + 1 + (j - i - 1)]
    BY <2>1, <2>2 DEF D
  <2> QED
    BY <2>1, <2>3
<1> QED
  BY <1>5

UnitParts(n) == [u \in 1..n |-> layout[u].units]

LEMMA UnitPartsTyped ==
  ASSUME layout \in Dictionaries, NEW n \in 0..Len(layout)
  PROVE  UnitParts(n) \in Seq(Seq(Nat \ {0})) /\ Len(UnitParts(n)) = n
<1> DEFINE T == Seq(Nat \ {0})
<1>1. Len(layout) \in Nat /\ \A v \in 1..Len(layout): layout[v].units \in T
  BY LayoutFacts
<1>2. n \in Nat /\ \A v \in 1..n: v \in 1..Len(layout)
  BY <1>1
<1> HIDE DEF T
<1>3. \A v \in 1..n: layout[v].units \in T
  BY <1>1, <1>2
<1>4. UnitParts(n) \in Seq(T) /\ Len(UnitParts(n)) = n
  BY <1>2, <1>3 DEF UnitParts
<1> QED
  BY <1>4 DEF T

LEMMA StartIsParts ==
  ASSUME NEW n \in Nat
  PROVE  Start(n + 1) = Len(FlattenSeq(UnitParts(n)))
<1>1. (n + 1) - 1 = n
  OBVIOUS
<1> QED
  BY <1>1 DEF Start, UnitParts

LEMMA NextStart ==
  ASSUME layout \in Dictionaries, NEW v \in 1..Len(layout)
  PROVE  /\ Start(v) \in Nat /\ Len(layout[v].units) \in Nat \ {0}
         /\ Start(v + 1) = Start(v) + Len(layout[v].units)
<1> DEFINE T == Nat \ {0}
           n == v - 1
           old == UnitParts(n)
           new == UnitParts(v)
           last == layout[v].units
<1>1. /\ Len(layout) \in Nat /\ n \in 0..Len(layout) /\ v \in 0..Len(layout)
      /\ n \in Nat /\ v \in Nat /\ n + 1 = v
  BY LayoutFacts
<1>2. last \in Seq(T) /\ last # << >>
  BY LayoutFacts
<1>3. old \in Seq(Seq(T)) /\ Len(old) = n /\ new \in Seq(Seq(T)) /\ Len(new) = v
  BY <1>1, UnitPartsTyped
<1>4. new = Append(old, last)
  <2>1. /\ DOMAIN new = 1..(n + 1) /\ new = [i \in DOMAIN new |-> new[i]]
        /\ \A i \in 1..n: new[i] = old[i]
        /\ new[n + 1] = last
    BY <1>1 DEF UnitParts
  <2> DEFINE S == Seq(T)
  <2>2. old \in Seq(S) /\ Len(old) = n /\ last \in S
    BY <1>2, <1>3
  <2> HIDE DEF S, old, new, last, n
  <2> QED
    BY <2>1, <2>2, OneMore
<1>5. Start(v) = Len(FlattenSeq(old)) /\ Start(v + 1) = Len(FlattenSeq(new))
  BY <1>1, StartIsParts
<1> HIDE DEF T, old, new, last, n
<1>6. FlattenSeq(new) = FlattenSeq(old) \o last /\ FlattenSeq(old) \in Seq(T)
  BY <1>2, <1>3, <1>4, FlattenAppend, FlattenTyped
<1>7. Len(FlattenSeq(old) \o last) = Len(FlattenSeq(old)) + Len(last)
  BY <1>2, <1>6, ConcatProperties
<1>8. Len(FlattenSeq(old)) \in Nat /\ Len(last) \in Nat /\ Len(last) # 0
  BY <1>2, <1>6, EmptySeq
<1> QED
  BY <1>5, <1>6, <1>7, <1>8 DEF last

LEMMA StartsRise ==
  ASSUME layout \in Dictionaries
  PROVE  /\ Len(layout) \in Nat /\ Start(1) = 0
         /\ \A v \in 1..(Len(layout) + 1): Start(v) \in Nat
         /\ \A u, v \in 1..(Len(layout) + 1): u < v => Start(u) < Start(v)
<1> DEFINE n == Len(layout)
           f == [i \in 0..n |-> Start(i + 1)]
<1>1. n \in Nat
  BY LayoutFacts
<1>2. Start(1) = 0
  <2>1. UnitParts(0) = << >>
    BY DEF UnitParts
  <2>2. Start(0 + 1) = Len(FlattenSeq(UnitParts(0)))
    BY StartIsParts
  <2>3. FlattenSeq(UnitParts(0)) = << >>
    BY <2>1, FlattenEmpty
  <2> QED
    BY <2>2, <2>3
<1>3. ASSUME NEW v \in 1..n
      PROVE  Start(v) \in Nat /\ Start(v + 1) \in Nat /\ Start(v) < Start(v + 1)
  <2>1. /\ Start(v) \in Nat /\ Len(layout[v].units) \in Nat \ {0}
        /\ Start(v + 1) = Start(v) + Len(layout[v].units)
    BY NextStart
  <2> QED
    BY <2>1
<1> HIDE DEF n
<1>4. \A v \in 1..(n + 1): Start(v) \in Nat
  <2>1. \A v \in 1..(n + 1): v = 1 \/ (v - 1 \in 1..n /\ (v - 1) + 1 = v)
    BY <1>1
  <2> QED
    BY <1>2, <1>3, <2>1
<1>5. \A i \in 0..n: f[i] \in Nat
  BY <1>1, <1>4
<1>6. \A i \in 0..(n - 1): f[i] < f[i + 1]
  <2>1. \A i \in 0..(n - 1): i + 1 \in 1..n /\ i \in 0..n /\ i + 1 \in 0..n
    BY <1>1
  <2> QED
    BY <1>3, <2>1
<1>7. \A u \in 1..(n + 1): u - 1 \in 0..n /\ f[u - 1] = Start(u)
  <2>1. \A u \in 1..(n + 1): u - 1 \in 0..n /\ (u - 1) + 1 = u
    BY <1>1
  <2> QED
    BY <2>1
<1> HIDE DEF f
<1>8. \A i, j \in 0..n: i < j => f[i] < f[j]
  BY <1>1, <1>5, <1>6, Rises
<1>9. ASSUME NEW u \in 1..(n + 1), NEW v \in 1..(n + 1), u < v
      PROVE  Start(u) < Start(v)
  <2>1. u - 1 < v - 1 /\ u - 1 \in 0..n /\ v - 1 \in 0..n
    BY <1>1, <1>9
  <2> QED
    BY <1>7, <1>8, <2>1
<1> QED
  BY <1>1, <1>2, <1>4, <1>9 DEF n

LEMMA UnitsAreUnits ==
  ASSUME layout \in Dictionaries
  PROVE  Units \in Seq(Nat \ {0}) /\ Len(Units) = SegmentCount
<1> DEFINE n == Len(layout)
<1>1. n \in Nat /\ DOMAIN layout = 1..n /\ n \in 0..n
  BY LayoutFacts
<1>2. Units = FlattenSeq(UnitParts(n))
  BY <1>1 DEF Units, UnitParts
<1>3. UnitParts(n) \in Seq(Seq(Nat \ {0}))
  BY <1>1, UnitPartsTyped
<1>4. SegmentCount = Len(FlattenSeq(UnitParts(n)))
  BY <1>1, StartIsParts DEF SegmentCount
<1> QED
  BY <1>2, <1>3, <1>4, FlattenTyped

LEMMA PhysicalRises ==
  ASSUME layout \in Dictionaries
  PROVE  /\ SegmentCount \in Nat
         /\ \A s \in 0..SegmentCount: Physical(s) \in Nat
         /\ \A r, s \in 0..SegmentCount: r < s => Physical(r) < Physical(s)
<1> DEFINE n == SegmentCount
           T == Nat \ {0}
           f == [i \in 0..n |-> Physical(i)]
<1>1. Units \in Seq(T) /\ Len(Units) = n /\ n \in Nat
  BY UnitsAreUnits
<1> HIDE DEF n
<1>2. \A s: Physical(s) = Total(SubSeq(Units, 1, s))
  BY Zenon DEF Physical, Total
<1>3. ASSUME NEW s \in 0..n
      PROVE  SubSeq(Units, 1, s) \in Seq(T) /\ SubSeq(Units, 1, s) \in Seq(Nat) /\ Physical(s) \in Nat
  <2>1. s \in Nat /\ s <= Len(Units)
    BY <1>1
  <2>2. SubSeq(Units, 1, s) \in Seq(T)
    BY <1>1, <2>1, TwoSlices
  <2>3. SubSeq(Units, 1, s) \in Seq(Nat)
    <3> DEFINE t == SubSeq(Units, 1, s)
    <3>1. t \in Seq(T)
      BY <2>2
    <3> HIDE DEF t
    <3>2. t \in Seq(Nat)
      BY <3>1
    <3> QED
      BY <3>2 DEF t
  <2> QED
    BY <1>2, <2>2, <2>3, TotalTyped
<1>4. ASSUME NEW s \in 0..(n - 1)
      PROVE  Physical(s) < Physical(s + 1)
  <2>1. s \in Nat /\ s < Len(Units) /\ s \in 0..n /\ s + 1 \in 0..n
    BY <1>1
  <2>2. Units[s + 1] \in T /\ SubSeq(Units, 1, s + 1) = Append(SubSeq(Units, 1, s), Units[s + 1])
    BY <1>1, <2>1, NextSlice
  <2>3. SubSeq(Units, 1, s) \in Seq(T) /\ Physical(s) \in Nat
    BY <1>3, <2>1
  <2>4. Total(Append(SubSeq(Units, 1, s), Units[s + 1])) = Total(SubSeq(Units, 1, s)) + Units[s + 1]
    BY <2>2, <2>3, TotalAppend
  <2>5. Physical(s + 1) = Physical(s) + Units[s + 1]
    BY <1>2, <2>2, <2>4
  <2> QED
    BY <2>2, <2>3, <2>5
<1>5. \A i \in 0..n: f[i] = Physical(i) /\ f[i] \in Nat
  BY <1>3
<1>6. \A i \in 0..(n - 1): f[i] < f[i + 1]
  <2>1. \A i \in 0..(n - 1): i \in 0..n /\ i + 1 \in 0..n
    BY <1>1
  <2> QED
    BY <1>4, <1>5, <2>1
<1> HIDE DEF f
<1>7. \A i, j \in 0..n: i < j => f[i] < f[j]
  BY <1>1, <1>5, <1>6, Rises
<1> QED
  BY <1>1, <1>3, <1>5, <1>7 DEF n

-----------------------------------------------------------------------------------
(* The four properties of what build makes *)

LEMMA WhenBuilt ==
  ASSUME SchemaInv, building = "built"
  PROVE  /\ layout \in Dictionaries /\ DOMAIN variables = DOMAIN layout
         /\ DOMAIN layout = 1..Len(layout) /\ Len(layout) \in Nat
         /\ LongNamesDone = Len(longNames) /\ LabelSetsDone = Len(valueLabelSets)
         /\ AttributesDone = Len(attributes) /\ LongLabelsDone = Len(longValueLabels)
         /\ LongMissingDone = Len(longMissing)
         /\ DOMAIN longNames = 1..Len(longNames) /\ DOMAIN valueLabelSets = 1..Len(valueLabelSets)
         /\ DOMAIN attributes = 1..Len(attributes) /\ DOMAIN longMissing = 1..Len(longMissing)
         /\ DOMAIN longValueLabels = 1..Len(longValueLabels)
         /\ attributes = carried /\ names = NameIndex
<1>1. /\ layout \in Dictionaries /\ attributes = carried /\ names = NameIndex
      /\ DOMAIN variables = DOMAIN layout /\ PayloadsTyped
  BY DEF SchemaInv, BuildInv, AllDescribed
<1>2. DOMAIN layout = 1..Len(layout) /\ Len(layout) \in Nat
  BY <1>1, LayoutFacts
<1>3. /\ DOMAIN longNames = 1..Len(longNames) /\ DOMAIN longMissing = 1..Len(longMissing)
      /\ DOMAIN longValueLabels = 1..Len(longValueLabels)
  BY <1>1 DEF PayloadsTyped
<1>4. DOMAIN valueLabelSets = 1..Len(valueLabelSets) /\ DOMAIN attributes = 1..Len(attributes)
  BY <1>1 DEF PayloadsTyped
<1>5. /\ LongNamesDone = Len(longNames) /\ LabelSetsDone = Len(valueLabelSets)
      /\ AttributesDone = Len(attributes) /\ LongLabelsDone = Len(longValueLabels)
      /\ LongMissingDone = Len(longMissing)
  BY DEF LongNamesDone, LabelSetsDone, AttributesDone, LongLabelsDone, LongMissingDone, Handled
<1> QED
  BY <1>1, <1>2, <1>3, <1>4, <1>5

LEMMA AttributesHaveAddedUp == SchemaInv => AttributesAddUp
<1> SUFFICES ASSUME SchemaInv, building = "built"
             PROVE  /\ DOMAIN names = {FullName(variables[v]): v \in DOMAIN variables}
                    /\ \A v \in DOMAIN variables:
                         variables[v].attributes =
                           FlattenSeq([i \in DOMAIN carried |->
                             IF i \in EntriesFor(v, carried) THEN carried[i].attributes ELSE << >>])
                    /\ \A i \in DOMAIN carried:
                         VariableIndex(carried[i].name) = 0 <=>
                           Warnings("UnknownVariableInExtension", <<"VariableAttributes", carried[i].name>>)
  BY DEF AttributesAddUp
<1>1. /\ AttributesDone = Len(attributes) /\ DOMAIN attributes = 1..Len(attributes)
      /\ attributes = carried /\ names = NameIndex
  BY WhenBuilt
<1>2. DOMAIN names = {FullName(variables[v]): v \in DOMAIN variables}
  BY <1>1 DEF NameIndex
<1>3. ASSUME NEW v \in DOMAIN variables
      PROVE  variables[v].attributes =
               FlattenSeq([i \in DOMAIN carried |->
                 IF i \in EntriesFor(v, carried) THEN carried[i].attributes ELSE << >>])
  <2>1. variables[v].attributes = FlattenSeq(AttributeParts(v, Len(attributes)))
    BY <1>1 DEF SchemaInv, AttributeInv
  <2>2. \A i \in 1..Len(attributes): AttributeFinds[i] = v <=> i \in EntriesFor(v, carried)
    BY <1>1 DEF AttributeFinds, EntriesFor
  <2>3. AttributeParts(v, Len(attributes)) =
          [i \in DOMAIN carried |->
             IF i \in EntriesFor(v, carried) THEN carried[i].attributes ELSE << >>]
    BY <1>1, <2>2 DEF AttributeParts
  <2> QED
    BY <2>1, <2>3
<1>4. ASSUME NEW i \in DOMAIN carried
      PROVE  VariableIndex(carried[i].name) = 0 <=>
               Warnings("UnknownVariableInExtension", <<"VariableAttributes", carried[i].name>>)
  <2> DEFINE name == carried[i].name
  <2>1. Warnings("UnknownVariableInExtension", <<"VariableAttributes", name>>)
          <=> UnknownName("VariableAttributes", name) \in ToSet(warnings)
    BY DEF Warnings, UnknownName
  <2>2. UnknownName("VariableAttributes", name) \in ToSet(warnings) <=>
          \E k \in 1..AttributesDone: attributes[k].name = name /\ VariableIndex(name) = 0
    BY DEF SchemaInv, WarningInv, AttributesWarned
  <2>3. i \in 1..AttributesDone /\ attributes[i].name = name
    BY <1>1, <1>4
  <2> HIDE DEF name
  <2>4. VariableIndex(name) = 0 <=> Warnings("UnknownVariableInExtension", <<"VariableAttributes", name>>)
    BY <2>1, <2>2, <2>3
  <2> QED
    BY <2>4 DEF name
<1> QED
  BY <1>2, <1>3, <1>4

(* An interior segment starts no variable. *)
LEMMA InteriorStartsNothing ==
  ASSUME SchemaInv, building = "built", NEW v \in DOMAIN layout,
         NEW segment \in (Start(v) + 1)..(Start(v + 1) - 1)
  PROVE  VariableStartingAt(segment) = 0
<1>1. v \in 1..Len(layout) /\ Len(layout) \in Nat /\ layout \in Dictionaries /\ DOMAIN layout = 1..Len(layout)
  BY WhenBuilt
<1>2. /\ \A u \in 1..(Len(layout) + 1): Start(u) \in Nat
      /\ \A u, w \in 1..(Len(layout) + 1): u < w => Start(u) < Start(w)
  BY <1>1, StartsRise
<1>3. v \in 1..(Len(layout) + 1) /\ v + 1 \in 1..(Len(layout) + 1)
  BY <1>1
<1>4. Start(v) \in Nat /\ Start(v + 1) \in Nat
  BY <1>2, <1>3
<1>5. segment \in Int /\ Start(v) < segment /\ segment < Start(v + 1)
  BY <1>4
<1>6. ASSUME NEW u \in DOMAIN layout
      PROVE  Start(u) # segment
  <2>1. u \in 1..(Len(layout) + 1) /\ u \in Nat /\ v \in Nat
    BY <1>1
  <2>2. CASE u <= v
    <3>1. u = v \/ u < v
      BY <2>1, <2>2
    <3>2. Start(u) = Start(v) \/ Start(u) < Start(v)
      BY <1>2, <1>3, <2>1, <3>1
    <3>3. Start(u) \in Nat
      BY <1>2, <2>1
    <3> QED
      BY <1>4, <1>5, <3>2, <3>3
  <2>3. CASE ~(u <= v)
    <3>1. u = v + 1 \/ v + 1 < u
      BY <2>1, <2>3
    <3>2. Start(u) = Start(v + 1) \/ Start(v + 1) < Start(u)
      BY <1>2, <1>3, <2>1, <3>1
    <3>3. Start(u) \in Nat
      BY <1>2, <2>1
    <3> QED
      BY <1>4, <1>5, <3>2, <3>3
  <2> QED
    BY <2>2, <2>3
<1> QED
  BY <1>6, StartingAt DEF SchemaInv

(* A set is for the variables whose first segment it names. *)
LEMMA TargetsAreNamed ==
  ASSUME SchemaInv, building = "built", NEW set, NEW v \in DOMAIN layout
  PROVE  v \in Targets(set) <=> Start(v) \in ToSet(set.segments)
<1>1. Len(layout) \in Nat /\ layout \in Dictionaries /\ DOMAIN layout = 1..Len(layout)
  BY WhenBuilt
<1>2. /\ \A u \in 1..(Len(layout) + 1): Start(u) \in Nat
      /\ \A u, w \in 1..(Len(layout) + 1): u < w => Start(u) < Start(w)
  BY <1>1, StartsRise
<1>3. ASSUME v \in Targets(set) PROVE Start(v) \in ToSet(set.segments)
  <2>1. PICK segment \in ToSet(set.segments): v = VariableStartingAt(segment) /\ v # 0
    BY <1>3 DEF Targets
  <2>2. Start(v) = segment
    BY <2>1, StartingAt DEF SchemaInv
  <2> QED
    BY <2>1, <2>2
<1>4. ASSUME Start(v) \in ToSet(set.segments) PROVE v \in Targets(set)
  <2> DEFINE found == VariableStartingAt(Start(v))
  <2>1. found \in DOMAIN layout /\ Start(found) = Start(v)
    BY StartingAt DEF SchemaInv
  <2> HIDE DEF found
  <2>2. found = v
    <3>1. /\ found \in 1..(Len(layout) + 1) /\ v \in 1..(Len(layout) + 1)
          /\ found < v \/ found = v \/ v < found
      BY <1>1, <2>1
    <3> QED
      BY <1>2, <2>1, <3>1
  <2>3. v # 0
    BY <1>1
  <2> QED
    BY <1>4, <2>2, <2>3 DEF Targets, found
<1> QED
  BY <1>3, <1>4

LEMMA KindOfASet ==
  ASSUME SchemaInv, building = "built", NEW set
  PROVE  LabelsOfSet(set) = [kind |-> IF KeysAreNumbers(set) THEN "Numeric" ELSE "String", labels |-> set.labels]
<1>1. Targets(set) \subseteq DOMAIN layout
  BY StartingAt DEF SchemaInv, Targets
<1>2. \A v \in DOMAIN layout: v \in Targets(set) <=> Start(v) \in ToSet(set.segments)
  BY TargetsAreNamed
<1> HIDE DEF Targets
<1>3. KeysAreNumbers(set) <=> \A v \in Targets(set): layout[v].numeric
  BY <1>1, <1>2 DEF KeysAreNumbers
<1> HIDE DEF KeysAreNumbers
<1> QED
  BY <1>3 DEF LabelsOfSet, TypedSet, ValueLabelSet

LEMMA LabelsHaveReached == SchemaInv => LabelsReachTheirVariables
<1> DEFINE Naming(segment) == {i \in DOMAIN valueLabelSets: segment \in ToSet(valueLabelSets[i].segments)}
           NamesIt(v) == valueLabelSets[Max(Naming(Start(v)))]
           entries(v) == EntriesFor(v, longValueLabels)
<1> SUFFICES ASSUME SchemaInv, building = "built", NEW v \in DOMAIN variables
             PROVE  /\ variables[v].labels =
                         IF entries(v) # {}
                         THEN [kind |-> "LongString", labels |-> longValueLabels[Max(entries(v))].labels]
                         ELSE IF Naming(Start(v)) # {}
                         THEN [kind |-> IF KeysAreNumbers(NamesIt(v)) THEN "Numeric" ELSE "String",
                               labels |-> NamesIt(v).labels]
                         ELSE [kind |-> Unset]
                    /\ \A segment \in (Start(v) + 1)..(Start(v + 1) - 1):
                         Naming(segment) # {} => Warnings("ValueLabelOnVeryLongString", segment)
  BY DEF LabelsReachTheirVariables
<1>1. /\ LabelSetsDone = Len(valueLabelSets) /\ LongLabelsDone = Len(longValueLabels)
      /\ DOMAIN valueLabelSets = 1..Len(valueLabelSets)
      /\ DOMAIN longValueLabels = 1..Len(longValueLabels)
      /\ DOMAIN variables = DOMAIN layout
  BY WhenBuilt
<1>2. LabelsOf(v)
  BY DEF SchemaInv, LabelInv
<1>3. Naming(Start(v)) = SetsFor(v, LabelSetsDone)
  BY <1>1, TargetsAreNamed DEF SetsFor
<1>4. ASSUME NEW segment \in (Start(v) + 1)..(Start(v + 1) - 1), Naming(segment) # {}
      PROVE  Warnings("ValueLabelOnVeryLongString", segment)
  <2>1. PICK i \in 1..LabelSetsDone: segment \in ToSet(valueLabelSets[i].segments)
    BY <1>1, <1>4
  <2>2. VariableStartingAt(segment) = 0
    BY <1>1, InteriorStartsNothing
  <2>3. StraySegment(segment) \in ToSet(warnings)
    BY <2>1, <2>2 DEF SchemaInv, WarningInv, SegmentsWarned
  <2> QED
    BY <2>3 DEF Warnings, StraySegment
<1>5. entries(v) = Finding(LongLabelFinds, v, LongLabelsDone)
  <2>1. \A i \in 1..Len(longValueLabels): LongLabelFinds[i] = VariableIndex(longValueLabels[i].name)
    BY <1>1 DEF LongLabelFinds
  <2> QED
    BY <1>1, <2>1 DEF EntriesFor, Finding
<1>6. LabelsOfSet(NamesIt(v)) =
        [kind |-> IF KeysAreNumbers(NamesIt(v)) THEN "Numeric" ELSE "String", labels |-> NamesIt(v).labels]
  BY KindOfASet
<1>7. variables[v].labels =
        IF entries(v) # {} THEN [kind |-> "LongString", labels |-> longValueLabels[Max(entries(v))].labels]
        ELSE IF Naming(Start(v)) # {} THEN LabelsOfSet(NamesIt(v))
        ELSE [kind |-> Unset]
  <2> HIDE DEF Naming, entries, LabelsOfSet, SetsFor, Finding
  <2> QED
    BY <1>2, <1>3, <1>5 DEF LabelsOf, ValueLabelSet
<1> HIDE DEF Naming, entries, LabelsOfSet, KeysAreNumbers, NamesIt
<1> QED
  BY <1>4, <1>6, <1>7

(* Where only one place is found, the last is the first. *)
LEMMA OnlyOne ==
  ASSUME NEW n \in Nat, NEW S \in SUBSET (1..n), \A i, j \in S: i = j, S # {}
  PROVE  Max(S) = FirstOf(S) /\ FirstOf(S) \in S
<1>1. Max(S) \in S
  BY GreatestNumber
<1>2. FirstOf(S) \in S
  BY FirstOfFacts
<1> QED
  BY <1>1, <1>2

(* Where names are used once, a variable is found by its names and by no other. *)
LEMMA UniqueShortNames ==
  ASSUME SchemaInv, building = "built", NamesAreUnique, NEW v \in DOMAIN layout, NEW name
  PROVE  ByShortName(name) = v <=> name = layout[v].name
<1>1. \A i, j \in DOMAIN layout: layout[i].name = layout[j].name => i = j
  BY Zenon DEF NamesAreUnique, NoTwo
<1>2. /\ ByShortName(name) \in DOMAIN layout \cup {0}
      /\ ByShortName(name) = 0 <=> \A u \in DOMAIN layout: layout[u].name # name
      /\ ByShortName(name) # 0 => layout[ByShortName(name)].name = name
  BY ShortNameFacts DEF SchemaInv
<1>3. v # 0
  BY WhenBuilt
<1> QED
  BY <1>1, <1>2, <1>3

LEMMA UniqueFullNames ==
  ASSUME SchemaInv, building = "built", NamesAreUnique, NEW v \in DOMAIN variables, NEW name
  PROVE  VariableIndex(name) = v <=> name = FullName(variables[v])
<1>1. \A i, j \in DOMAIN variables: FullName(variables[i]) = FullName(variables[j]) => i = j
  BY Zenon DEF NamesAreUnique, NoTwo
<1>2. /\ VariableIndex(name) \in DOMAIN variables \cup {0}
      /\ VariableIndex(name) = 0 <=> \A u \in DOMAIN variables: FullName(variables[u]) # name
      /\ VariableIndex(name) # 0 => FullName(variables[VariableIndex(name)]) = name
  BY IndexFacts DEF SchemaInv
<1>3. v # 0
  BY WhenBuilt
<1> QED
  BY <1>1, <1>2, <1>3

(* The name the layout looks entries of subtype 22 up by is the full name of the variable. *)
LEMMA TranslatedName ==
  ASSUME SchemaInv, building = "built", NamesAreUnique, NEW v \in DOMAIN variables,
         NEW mapping, mapping = FirstOf({i \in DOMAIN longNames: longNames[i].short = layout[v].name})
  PROVE  FullName(variables[v]) = IF mapping = 0 THEN layout[v].name ELSE longNames[mapping].long
<1> DEFINE n == Len(longNames)
           S == {i \in DOMAIN longNames: longNames[i].short = layout[v].name}
<1>1. /\ DOMAIN longNames = 1..n /\ n \in Nat /\ DOMAIN variables = DOMAIN layout
      /\ LongNamesDone = n
      /\ longNames \in Seq([short: Names, long: Names])
  <2>1. PayloadsTyped
    BY DEF SchemaInv, BuildInv
  <2> QED
    BY <2>1, WhenBuilt, LengthsAreNumbers DEF PayloadsTyped
<1>2. variables[v].short = layout[v].name
  BY <1>1 DEF SchemaInv, BuildInv, AllDescribed
<1>3. S \in SUBSET (1..n)
  BY <1>1
<1>4. \A i, j \in S: i = j
  <2>1. \A i, j \in DOMAIN longNames: longNames[i].short = longNames[j].short => i = j
    BY Zenon DEF NamesAreUnique, NoTwo
  <2> QED
    BY <2>1
<1>5. \A i \in S: longNames[i].long \in Names
  <2> DEFINE R == [short: Names, long: Names]
  <2>1. longNames \in Seq(R) /\ \A r \in R: r.long \in Names
    BY <1>1
  <2>2. \A i \in S: i \in 1..n
    BY <1>3
  <2> HIDE DEF R, S
  <2>3. \A i \in 1..n: longNames[i] \in R
    BY <2>1
  <2> QED
    BY <2>1, <2>2, <2>3
<1>6. Finding(LongNameFinds, v, n) = S
  <2>1. \A i \in 1..n: LongNameFinds[i] = v <=> longNames[i].short = layout[v].name
    <3>1. \A i \in 1..n: LongNameFinds[i] = ByShortName(longNames[i].short)
      BY <1>1 DEF LongNameFinds
    <3> QED
      BY <1>1, <3>1, UniqueShortNames
  <2> QED
    BY <1>1, <2>1 DEF Finding
<1>7. variables[v].long = IF S = {} THEN Unset ELSE longNames[Max(S)].long
  BY <1>1, <1>6 DEF SchemaInv, LongInv, LongSoFar
<1>8. mapping = FirstOf(S)
  OBVIOUS
<1> HIDE DEF S, n
<1>9. CASE S = {}
  BY <1>2, <1>7, <1>8, <1>9 DEF FullName, FirstOf
<1>10. CASE S # {}
  <2>1. Max(S) = FirstOf(S) /\ FirstOf(S) \in S
    BY <1>1, <1>3, <1>4, <1>10, OnlyOne
  <2>2. mapping # 0
    BY <1>3, <1>8, <2>1
  <2>3. longNames[mapping].long # Unset
    BY <1>5, <1>8, <2>1, NamesAssumption
  <2> QED
    BY <1>7, <1>8, <1>10, <2>1, <2>2, <2>3 DEF FullName
<1> QED
  BY <1>9, <1>10

LEMMA MissingAgrees == SchemaInv => RowsAndSchemaAgreeOnMissing
<1> SUFFICES ASSUME SchemaInv, building = "built", NamesAreUnique, NEW v \in DOMAIN variables
             PROVE  LayoutMissing(v) = variables[v].missing
  BY DEF RowsAndSchemaAgreeOnMissing
<1> DEFINE name    == FullName(variables[v])
           mapping == FirstOf({i \in DOMAIN longNames: longNames[i].short = layout[v].name})
           n       == Len(longMissing)
           S       == {i \in DOMAIN longMissing: longMissing[i].name = name}
<1>1. DOMAIN longMissing = 1..n /\ n \in Nat /\ LongMissingDone = n
  <2>1. PayloadsTyped
    BY DEF SchemaInv, BuildInv
  <2> QED
    BY <2>1, WhenBuilt, LengthsAreNumbers
<1>2. LongMissingFor(layout[v].name) = FirstOf(S)
  <2>1. name = IF mapping = 0 THEN layout[v].name ELSE longNames[mapping].long
    BY TranslatedName
  <2> QED
    BY <2>1, Zenon DEF LongMissingFor
<1>3. S \in SUBSET (1..n)
  BY <1>1
<1>4. \A i, j \in S: i = j
  <2>1. \A i, j \in DOMAIN longMissing: longMissing[i].name = longMissing[j].name => i = j
    BY Zenon DEF NamesAreUnique, NoTwo
  <2> QED
    BY <2>1
<1>5. Finding(MissingFinds, v, n) = S
  <2>1. \A i \in 1..n: MissingFinds[i] = v <=> longMissing[i].name = name
    <3>1. \A i \in 1..n: MissingFinds[i] = VariableIndex(longMissing[i].name)
      BY <1>1 DEF MissingFinds
    <3> QED
      BY <3>1, UniqueFullNames
  <2> HIDE DEF name
  <2> QED
    BY <1>1, <2>1 DEF Finding
<1>6. variables[v].missing =
        IF S = {} THEN DecodeMissing(layout[v].raw, layout[v].numeric, format, SpssDefaults)
        ELSE Keys(longMissing[Max(S)])
  BY <1>1, <1>5 DEF SchemaInv, MissingInv, MissingSoFar
<1> HIDE DEF S, n, name, mapping
<1>7. CASE S = {}
  BY <1>2, <1>6, <1>7 DEF LayoutMissing, FirstOf
<1>8. CASE S # {}
  <2>1. Max(S) = FirstOf(S) /\ FirstOf(S) \in S
    BY <1>1, <1>3, <1>4, <1>8, OnlyOne
  <2>2. FirstOf(S) # 0
    BY <1>3, <2>1
  <2> QED
    BY <1>2, <1>6, <1>8, <2>1, <2>2 DEF LayoutMissing
<1> QED
  BY <1>7, <1>8

-----------------------------------------------------------------------------------
(* Display parameters and the weight *)

LEMMA NarrowLevels ==
  ASSUME NEW level \in Nat
  PROVE  /\ level \in MeasurementLevels => NarrowToByte(level) = level
         /\ NarrowToByte(level) \in MeasurementLevels <=> level \in MeasurementLevels
BY DEF NarrowToByte, MeasurementLevels

(* Where each segment has a tuple, the one of a variable begins where its first segment is. *)
LEMMA FirstOfTuple ==
  ASSUME NEW stride \in {2, 3}, NEW count \in Nat, NEW s \in Seq(Nat), Len(s) = stride * count,
         NEW start \in Nat, start < count
  PROVE  LET tuple == SubSeq(s, start * stride + 1, (start + 1) * stride)
         IN  tuple[1] = s[start * stride + 1] /\ tuple[1] \in Nat /\ Len(tuple) = stride
<1> DEFINE lo == start * stride + 1
           hi == (start + 1) * stride
<1>1. lo \in 1..Len(s) /\ hi \in 1..Len(s) /\ hi - lo + 1 = stride /\ lo <= hi
  <2>1. CASE stride = 2
    BY <2>1
  <2>2. CASE stride = 3
    BY <2>2
  <2> QED
    BY <2>1, <2>2
<1>2. \A i \in lo..hi: s[i] \in Nat
  <2> HIDE DEF lo, hi
  <2>1. \A i \in lo..hi: i \in 1..Len(s)
    BY <1>1
  <2> QED
    BY <2>1
<1> HIDE DEF lo, hi
<1>3. lo \in Int /\ hi \in Int
  BY <1>1
<1>4. /\ Len(SubSeq(s, lo, hi)) = hi - lo + 1
      /\ \A i \in 1..(hi - lo + 1): SubSeq(s, lo, hi)[i] = s[lo + i - 1]
  <2>1. /\ SubSeq(s, lo, hi) \in Seq(Nat)
        /\ Len(SubSeq(s, lo, hi)) = IF lo <= hi THEN hi - lo + 1 ELSE 0
        /\ \A i \in 1..(hi - lo + 1): SubSeq(s, lo, hi)[i] = s[lo + i - 1]
    BY <1>2, <1>3, SubSeqProperties, SMTT(60)
  <2> QED
    BY <1>1, <2>1
<1>5. 1 \in 1..(hi - lo + 1) /\ lo + 1 - 1 = lo
  BY <1>1, <1>3
<1>6. SubSeq(s, lo, hi)[1] = s[lo]
  <2> DEFINE t == SubSeq(s, lo, hi)
             m == hi - lo + 1
  <2>1. (\A i \in 1..m: t[i] = s[lo + i - 1]) /\ 1 \in 1..m
    BY <1>4, <1>5
  <2> HIDE DEF t, m
  <2>2. t[1] = s[lo + 1 - 1]
    BY <2>1, Zenon
  <2> QED
    BY <1>5, <2>2 DEF t
<1>7. s[lo] \in Nat
  BY <1>1
<1> QED
  BY <1>1, <1>4, <1>6, <1>7 DEF lo, hi

LEMMA DisplayHolds == SchemaInv => DisplayIsOfTheFirstSegment
<1> DEFINE shown  == {v \in DOMAIN variables: variables[v].display # << >>}
           stride == IF Len(display) = 3 * SegmentCount THEN 3 ELSE 2
           level(v) == display[Start(v) * stride + 1]
<1> SUFFICES ASSUME SchemaInv, building = "built"
             PROVE  /\ shown \in {{}, DOMAIN variables}
                    /\ shown = {} <=>
                         display = << >> \/ Len(display) \notin {2 * SegmentCount, 3 * SegmentCount}
                    /\ \A v \in shown:
                         /\ level(v) \in MeasurementLevels => variables[v].display[1] = level(v)
                         /\ level(v) \notin MeasurementLevels =>
                              /\ variables[v].display[1] \notin MeasurementLevels
                              /\ Warnings("UnknownMeasurementLevel", v)
  BY DEF DisplayIsOfTheFirstSegment
<1>1. /\ layout \in Dictionaries /\ DOMAIN variables = 1..Len(layout) /\ Len(layout) \in Nat
      /\ DOMAIN layout = 1..Len(layout)
  BY WhenBuilt
<1>2. /\ Start(1) = 0 /\ \A v \in 1..(Len(layout) + 1): Start(v) \in Nat
      /\ \A u, v \in 1..(Len(layout) + 1): u < v => Start(u) < Start(v)
  BY <1>1, StartsRise
<1>3. SegmentCount \in Nat /\ (SegmentCount = 0 <=> DOMAIN variables = {})
  <2>1. Len(layout) + 1 \in 1..(Len(layout) + 1) /\ 1 \in 1..(Len(layout) + 1)
    BY <1>1
  <2>2. SegmentCount = Start(Len(layout) + 1) /\ SegmentCount \in Nat
    BY <1>2, <2>1 DEF SegmentCount
  <2>3. CASE Len(layout) = 0
    BY <1>1, <1>2, <2>2, <2>3
  <2>4. CASE Len(layout) # 0
    <3>1. 1 < Len(layout) + 1 /\ 1 \in 1..Len(layout)
      BY <1>1, <2>4
    <3>2. Start(1) < Start(Len(layout) + 1)
      BY <1>2, <2>1, <3>1
    <3> QED
      BY <1>1, <1>2, <2>2, <3>1, <3>2
  <2> QED
    BY <2>3, <2>4
<1>4. display \in Seq(Nat)
  BY DEF SchemaInv, BuildInv, PayloadsTyped
<1>5. Displayed <=> ~(display = << >> \/ Len(display) \notin {2 * SegmentCount, 3 * SegmentCount})
  <2>1. Len(display) \in Nat /\ (display = << >> <=> Len(display) = 0)
    BY <1>4, EmptySeq
  <2> QED
    BY <1>3, <2>1 DEF Displayed, TupleStride
<1>6. \A v \in DOMAIN variables: variables[v].display = IF Displayed THEN DisplayFrom(FirstTuple(v)) ELSE << >>
  BY DEF SchemaInv, DisplayInv
<1>7. CASE ~Displayed
  <2>1. shown = {}
    BY <1>6, <1>7
  <2> HIDE DEF shown
  <2> QED
    BY <1>5, <1>7, <2>1
<1>8. CASE Displayed
  <2>1. TupleStride = stride /\ stride \in {2, 3} /\ Len(display) = stride * SegmentCount /\ SegmentCount # 0
    <3>1. TupleStride # 0
      BY <1>8 DEF Displayed
    <3> QED
      BY <1>3, <3>1 DEF TupleStride
  <2>2. ASSUME NEW v \in DOMAIN variables
        PROVE  /\ FirstTuple(v)[1] = level(v) /\ level(v) \in Nat
               /\ variables[v].display # << >>
               /\ variables[v].display[1] = NarrowToByte(level(v))
    <3>1. Start(v) \in Nat /\ Start(v) < SegmentCount
      <4>1. /\ v \in 1..(Len(layout) + 1) /\ Len(layout) + 1 \in 1..(Len(layout) + 1)
            /\ v < Len(layout) + 1
        BY <1>1
      <4> QED
        BY <1>2, <4>1 DEF SegmentCount
    <3> HIDE DEF stride, level
    <3>2. /\ FirstTuple(v)[1] = display[Start(v) * stride + 1] /\ FirstTuple(v)[1] \in Nat
      BY <1>3, <1>4, <2>1, <3>1, FirstOfTuple DEF FirstTuple
    <3>3. variables[v].display = DisplayFrom(FirstTuple(v))
      BY <1>6, <1>8
    <3>4. variables[v].display # << >> /\ variables[v].display[1] = NarrowToByte(FirstTuple(v)[1])
      BY <3>3 DEF DisplayFrom, VariableDisplay
    <3> QED
      BY <3>2, <3>4 DEF level
  <2>3. shown = DOMAIN variables /\ shown # {}
    BY <1>3, <2>1, <2>2
  <2>4. ASSUME NEW v \in DOMAIN variables
        PROVE  /\ level(v) \in MeasurementLevels => variables[v].display[1] = level(v)
               /\ level(v) \notin MeasurementLevels =>
                    /\ variables[v].display[1] \notin MeasurementLevels
                    /\ Warnings("UnknownMeasurementLevel", v)
    <3>1. /\ FirstTuple(v)[1] = level(v) /\ level(v) \in Nat
          /\ variables[v].display[1] = NarrowToByte(level(v))
      BY <2>2
    <3> HIDE DEF level
    <3>2. /\ level(v) \in MeasurementLevels => NarrowToByte(level(v)) = level(v)
          /\ NarrowToByte(level(v)) \in MeasurementLevels <=> level(v) \in MeasurementLevels
      BY <3>1, NarrowLevels
    <3>3. level(v) \notin MeasurementLevels => UnknownLevel(v) \in ToSet(warnings)
      <4>1. level(v) \notin MeasurementLevels => v \in StrangeLevels
        BY <3>1, <3>2 DEF StrangeLevels
      <4> QED
        BY <1>8, <4>1 DEF SchemaInv, WarningInv, LevelsWarned
    <3> QED
      BY <3>1, <3>2, <3>3 DEF Warnings, UnknownLevel
  <2> HIDE DEF shown, level, stride
  <2> QED
    BY <1>5, <1>8, <2>3, <2>4
<1> QED
  BY <1>7, <1>8

(* The owner of a segment is the variable whose segments it is among. *)
LEMMA OwnerFacts ==
  ASSUME SchemaInv, building = "built", NEW segment \in Nat, segment < SegmentCount
  PROVE  LET v == OwnerOf(segment)
         IN  /\ v \in DOMAIN layout /\ v # 0
             /\ Start(v) \in Nat /\ Start(v + 1) \in Nat /\ Start(v + 1) <= SegmentCount
             /\ Start(v) <= segment /\ segment < Start(v + 1)
<1> DEFINE S == {v \in DOMAIN layout: segment < Start(v + 1)}
           n == Len(layout)
<1>1. layout \in Dictionaries /\ DOMAIN layout = 1..n /\ n \in Nat
  BY WhenBuilt
<1>2. /\ Start(1) = 0 /\ \A v \in 1..(n + 1): Start(v) \in Nat
      /\ \A u, v \in 1..(n + 1): u < v => Start(u) < Start(v)
  BY <1>1, StartsRise
<1>3. SegmentCount = Start(n + 1)
  BY DEF SegmentCount
<1> HIDE DEF n
<1>4. n \in S
  <2>1. n # 0
    BY <1>2, <1>3
  <2> QED
    BY <1>1, <1>3, <2>1
<1>5. S \in SUBSET Nat /\ \A u \in S: u \in 1..n /\ segment < Start(u + 1)
  BY <1>1
<1>6. OwnerOf(segment) = Least(S)
  BY DEF OwnerOf
<1>7. \A u \in 1..n: u \notin S => Start(u + 1) <= segment
  <2>1. \A u \in 1..n: u + 1 \in 1..(n + 1)
    BY <1>1
  <2>2. \A u \in 1..n: Start(u + 1) \in Nat
    BY <1>2, <2>1
  <2> QED
    BY <1>1, <2>2
<1> HIDE DEF S
<1>8. Least(S) \in S /\ \A u \in S: Least(S) <= u
  <2>1. \E i \in S: \A j \in S: i <= j
    BY <1>4, <1>5, LeastNumber
  <2> QED
    BY <2>1, Zenon DEF Least
<1> DEFINE v == Least(S)
<1>9. v \in 1..n /\ segment < Start(v + 1) /\ v \in Nat /\ \A u \in S: v <= u
  BY <1>5, <1>8
<1> HIDE DEF v
<1>10. v \in 1..(n + 1) /\ v + 1 \in 1..(n + 1) /\ n + 1 \in 1..(n + 1)
  BY <1>1, <1>9
<1>11. Start(v) \in Nat /\ Start(v + 1) \in Nat /\ Start(v + 1) <= SegmentCount
  <2>1. v + 1 = n + 1 \/ v + 1 < n + 1
    BY <1>1, <1>9
  <2>2. Start(v) \in Nat /\ Start(v + 1) \in Nat /\ Start(n + 1) \in Nat
    BY <1>2, <1>10
  <2>3. Start(v + 1) = Start(n + 1) \/ Start(v + 1) < Start(n + 1)
    BY <1>2, <1>10, <2>1
  <2> QED
    BY <1>3, <2>2, <2>3
<1>12. Start(v) <= segment
  <2>1. CASE v = 1
    BY <1>2, <2>1
  <2>2. CASE v # 1
    <3>1. v - 1 \in 1..n /\ (v - 1) + 1 = v /\ ~(v <= v - 1)
      BY <1>1, <1>9, <2>2
    <3>2. v - 1 \notin S
      BY <1>9, <3>1
    <3> QED
      BY <1>7, <3>1, <3>2
  <2> QED
    BY <2>1, <2>2
<1>13. OwnerOf(segment) = v
  BY <1>6 DEF v
<1> QED
  BY <1>1, <1>9, <1>11, <1>12, <1>13

LEMMA WeightHolds == SchemaInv => WeightIsWhereTheHeaderSays
<1> SUFFICES ASSUME SchemaInv, building = "built", NEW offset \in 0..Physical(SegmentCount)
             PROVE  LET v == WeightVariable(offset)
                    IN  /\ v = 0 <=> offset \notin {Physical(s): s \in 0..SegmentCount - 1}
                        /\ v # 0 => offset \in Physical(Start(v))..Physical(Start(v + 1)) - 1
  BY DEF WeightIsWhereTheHeaderSays
<1>1. /\ SegmentCount \in Nat
      /\ \A s \in 0..SegmentCount: Physical(s) \in Nat
      /\ \A r, s \in 0..SegmentCount: r < s => Physical(r) < Physical(s)
  BY PhysicalRises, WhenBuilt
<1>2. SegmentsAt(offset) = {} <=> offset \notin {Physical(s): s \in 0..SegmentCount - 1}
  BY DEF SegmentsAt
<1>3. CASE SegmentsAt(offset) = {}
  BY <1>2, <1>3 DEF WeightVariable
<1>4. CASE SegmentsAt(offset) # {}
  <2> DEFINE segment == Least(SegmentsAt(offset))
             v       == OwnerOf(segment)
  <2>1. WeightVariable(offset) = v
    BY <1>4 DEF WeightVariable
  <2>2. segment \in Nat /\ segment < SegmentCount /\ Physical(segment) = offset
    <3>1. SegmentsAt(offset) \in SUBSET Nat
      BY <1>1 DEF SegmentsAt
    <3>2. \E i \in SegmentsAt(offset): \A j \in SegmentsAt(offset): i <= j
      BY <1>4, <3>1, LeastNumber
    <3>3. segment \in SegmentsAt(offset)
      BY <3>2, Zenon DEF Least
    <3>4. \A s \in SegmentsAt(offset): s \in Nat /\ s < SegmentCount /\ Physical(s) = offset
      BY <1>1 DEF SegmentsAt
    <3> HIDE DEF segment
    <3> QED
      BY <3>3, <3>4
  <2> HIDE DEF segment
  <2>3. /\ v \in DOMAIN layout /\ v # 0
        /\ Start(v) \in Nat /\ Start(v + 1) \in Nat /\ Start(v + 1) <= SegmentCount
        /\ Start(v) <= segment /\ segment < Start(v + 1)
    BY <2>2, OwnerFacts
  <2> HIDE DEF v
  <2>4. /\ Start(v) \in 0..SegmentCount /\ Start(v + 1) \in 0..SegmentCount
        /\ segment \in 0..SegmentCount
    BY <1>1, <2>2, <2>3
  <2>5. /\ Physical(Start(v)) \in Nat /\ Physical(Start(v + 1)) \in Nat /\ Physical(segment) \in Nat
        /\ Physical(segment) < Physical(Start(v + 1))
    BY <1>1, <2>3, <2>4
  <2>6. Physical(Start(v)) <= Physical(segment)
    <3>1. Start(v) = segment \/ Start(v) < segment
      BY <2>2, <2>3
    <3>2. Physical(Start(v)) = Physical(segment) \/ Physical(Start(v)) < Physical(segment)
      BY <1>1, <2>4, <3>1
    <3> QED
      BY <2>5, <3>2
  <2>7. offset \in Physical(Start(v))..Physical(Start(v + 1)) - 1
    BY <2>2, <2>5, <2>6
  <2> QED
    BY <1>2, <1>4, <2>1, <2>3, <2>7
<1> QED
  BY <1>3, <1>4

(* Every attribute record of the file counts, and each entry that finds no variable of the      *)
(* finished schema, and only such an entry, is warned about (add_variable_attributes,            *)
(* apply_attributes, NameIndex).                                                                  *)
THEOREM SchemaAttributesAddUp == Spec => []AttributesAddUp
<1>1. SchemaInv => AttributesAddUp
  BY AttributesHaveAddedUp
<1> QED
  BY <1>1, SchemaInvHolds, PTL

(* Every variable has the labels of the last entry or set that is for it, typed as the variables *)
(* of the set hold them, and none where there is none, in whatever order the records of the three  *)
(* kinds came (apply_value_labels, typed_set, apply_long_value_labels).                             *)
THEOREM SchemaLabelsReachTheirVariables == Spec => []LabelsReachTheirVariables
<1>1. SchemaInv => LabelsReachTheirVariables
  BY LabelsHaveReached
<1> QED
  BY <1>1, SchemaInvHolds, PTL

(* What a record gives per segment and what the header gives per unit of the row reach the       *)
(* variable that owns them (apply_display, narrow_to_byte, weight_variable_index).                *)
THEOREM SchemaSegmentsStandForTheirVariable == Spec => []SegmentsStandForTheirVariable
<1>1. SchemaInv => SegmentsStandForTheirVariable
  BY DisplayHolds, WeightHolds DEF SegmentsStandForTheirVariable
<1> QED
  BY <1>1, SchemaInvHolds, PTL

(* Where no name is used twice, the cells of a row are matched against the missing values the    *)
(* schema reports for their variable (long_missing_values_for, apply_long_missing_values).        *)
THEOREM SchemaRowsAndSchemaAgreeOnMissing == Spec => []RowsAndSchemaAgreeOnMissing
<1>1. SchemaInv => RowsAndSchemaAgreeOnMissing
  BY MissingAgrees
<1> QED
  BY <1>1, SchemaInvHolds, PTL
===================================================================================
