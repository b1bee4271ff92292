----------------------------- MODULE AttributeCollapse ----------------------------
(* variable_attribute_reconcile: the entries fred[1], fred[2] of a variable, as the     *)
(* record spells them, folded into one attribute of two values.                          *)
EXTENDS TextPayloads

CONSTANT Lower(_)  \* the small letter of a byte, and the byte itself for any other

LowerName(name) == [i \in DOMAIN name |-> Lower(name[i])]

(* split_index: the digits between the last [ and a ] at the end, if they are a number. *)
SplitIndex(name) ==
  LET open   == Max({0} \cup {i \in DOMAIN name: name[i] = "["})
      closed == name # << >> /\ Last(name) = "]"
      index  == Decimal(SubSeq(name, open + 1, Len(name) - 1))
  IN  IF closed /\ open # 0 /\ index # NotANumber
      THEN [base |-> Before(name, open), index |-> index]
      ELSE [base |-> name, index |-> NotANumber]

(* Group::new *)
Group(name) == [name |-> name, indexed |-> << >>, unindexed |-> << >>]

GroupOf(groups, base) == {g \in DOMAIN groups: LowerName(groups[g].name) = LowerName(base)}

Gather(groups, entry) ==
  LET split == SplitIndex(entry.name)
      found == GroupOf(groups, split.base)
      all   == IF found = {} THEN Append(groups, Group(split.base)) ELSE groups
      g     == IF found = {} THEN Len(all) ELSE Min(found)
      tagged == [i \in DOMAIN entry.values |-> [index |-> split.index, value |-> entry.values[i]]]
  IN  IF split.index = NotANumber
      THEN [all EXCEPT ![g].unindexed = @ \o entry.values]
      ELSE [all EXCEPT ![g].indexed = @ \o tagged]

(* Mutant: the values stay as they were declared. *)
IntoAttributeUnsorted(group) ==
  Attribute(group.name, [k \in DOMAIN group.indexed |-> group.indexed[k].value] \o group.unindexed)

(* Group::into_attribute: a stable sort by index, then the values without one. *)
IntoAttribute(group) ==
  LET earlier(i, j) == \/ group.indexed[i].index < group.indexed[j].index
                       \/ group.indexed[i].index = group.indexed[j].index /\ i < j
      order == SetToSortSeq(DOMAIN group.indexed, earlier)
  IN  Attribute(group.name, [k \in DOMAIN order |-> group.indexed[order[k]].value] \o group.unindexed)

(* collapse *)
Collapse(entries) ==
  LET groups == FoldLeft(Gather, << >>, entries)
  IN  [g \in DOMAIN groups |-> IntoAttribute(groups[g])]
===================================================================================
