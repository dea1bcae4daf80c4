---------------------------- MODULE ConditionLists ----------------------------
(* The conditions of a request in LoginovaIrene/struct.cpp.  comand keeps a    *)
(* list of them for each column; analyze puts new ones in front and gr_sort,   *)
(* rat_sort and name_sort bring each list into the order that do_select,       *)
(* sub_select_list and sel_gr, sel_rat, sel_name expect: a lower bound, an     *)
(* upper bound, and the excluded values upwards; or a single equality.         *)
(* The three sorts are copies of one function, each with a difference.         *)
EXTENDS Positions, SequencesExt

CONSTANTS Lowest,  \* the bounds every sort starts from: 0 and 1000, or a blank
          Highest  \* and a tilde for names

ASSUME BoundsAssumption == Lowest \in Int /\ Highest \in Int /\ Lowest < Highest

Columns == {"group", "rating", "name"}

Conds == {"EQ", "NE", "LT", "GT", "LE", "GE"}

Condition(cond, value) == [cond |-> cond, value |-> value]

(* What a condition promises of a value. *)
Holds(c, v) == CASE c.cond = "EQ" -> v = c.value
                 [] c.cond = "NE" -> v # c.value
                 [] c.cond = "LT" -> v < c.value
                 [] c.cond = "GT" -> v > c.value
                 [] c.cond = "LE" -> v <= c.value
                 [] c.cond = "GE" -> v >= c.value

Meaning(list, v) == \A i \in DOMAIN list : Holds(list[i], v)

-------------------------------------------------------------------------------
(* The loop of a sort: the bounds that are left, with the conditions that set  *)
(* them (sequences of at most one), the equality and the excluded values.      *)
Bounds == [min |-> Lowest, max |-> Highest, eqMin |-> TRUE, eqMax |-> TRUE,
           great |-> << >>, less |-> << >>, equal |-> << >>, excluded |-> {}, ok |-> TRUE]

TightenUpper(b, c) ==
  IF c.value < b.max \/ (c.value = b.max /\ c.cond = "LT")
  THEN [b EXCEPT !.max = c.value, !.eqMax = c.cond = "LE", !.less = << c >>]
  ELSE b

(* Mutant: > is ignored where >= has set the same bound.                       *)
TightenLowerBeyond(b, c) ==
  IF c.value > b.min
  THEN [b EXCEPT !.min = c.value, !.eqMin = c.cond = "GE", !.great = << c >>]
  ELSE b

TightenLower(b, c) ==
  IF c.value > b.min \/ (c.value = b.min /\ c.cond = "GT")
  THEN [b EXCEPT !.min = c.value, !.eqMin = c.cond = "GE", !.great = << c >>]
  ELSE b

Equate(b, c) == IF b.equal = << >> THEN [b EXCEPT !.equal = << c >>]
                ELSE [b EXCEPT !.ok = @ /\ b.equal[1].value = c.value]

Tighten(b, c) == CASE c.cond \in {"LT", "LE"} -> TightenUpper(b, c)
                   [] c.cond \in {"GT", "GE"} -> TightenLower(b, c)
                   [] c.cond = "NE" -> [b EXCEPT !.excluded = @ \cup {c.value}]
                   [] c.cond = "EQ" -> Equate(b, c)

Tightened(list) ==
  LET upTo[n \in 0 .. Len(list)] == IF n = 0 THEN Bounds ELSE Tighten(upTo[n - 1], list[n])
  IN upTo[Len(list)]

(* The excluded values are cut to the bounds, and a bound that is excluded     *)
(* becomes strict.  name_sort tests the opposite, and looks at the first value *)
(* above the upper bound where there is none within.                           *)
SetCond(cs, cond) == [i \in DOMAIN cs |-> Condition(cond, cs[i].value)]

AboveMin(b) == { v \in b.excluded : v >= b.min }

Cut(b) == { v \in AboveMin(b) : v <= b.max }

Excluding(col, b) ==
  LET above == AboveMin(b)
      within == Cut(b)
      first == IF within = {} THEN {} ELSE {CHOOSE v \in within : \A w \in within : v <= w}
      last == IF within = {} THEN { v \in above : \A w \in above : v <= w }
              ELSE {CHOOSE v \in within : \A w \in within : w <= v}
      hitsMin == IF col = "name" THEN \E v \in first : v # b.min ELSE b.min \in first
      hitsMax == IF col = "name" THEN \E v \in last : v # b.max ELSE b.max \in last
  IN [b EXCEPT !.excluded = within,
               !.eqMin = @ /\ ~hitsMin,
               !.great = IF hitsMin THEN SetCond(@, "GT") ELSE @,
               !.eqMax = @ /\ ~hitsMax,
               !.less = IF hitsMax THEN SetCond(@, "LT") ELSE @]

(* Where the bounds meet, the upper one becomes an equality; name_sort takes   *)
(* the lower one if there is no upper one, the others follow a null pointer.   *)
(* In rat_sort the else belongs to the inner if: without an equality of its    *)
(* own the list keeps both bounds.                                             *)
Crashes(col, b) == /\ b.min = b.max /\ b.eqMin /\ b.eqMax
                   /\ b.less = << >> /\ col # "name"

Pinched(col, b) ==
  LET point == << Condition("EQ", b.max) >> IN
  IF b.min # b.max THEN b
  ELSE [b EXCEPT !.less = point,
                 !.equal = IF @ = << >> /\ col # "rating" THEN point ELSE @,
                 !.ok = @ /\ b.eqMin /\ b.eqMax /\ (b.equal = << >> \/ b.equal[1].value = b.min)]

Upwards(values) == Arranged(values, {p \in values \X values : p[1] < p[2]})

Excluded(b) == LET sorted == Upwards(b.excluded)
               IN [i \in DOMAIN sorted |-> Condition("NE", sorted[i])]

Joined(b) == b.great \o b.less \o Excluded(b)

InBounds(b, v) == /\ v < b.max \/ (b.eqMax /\ v = b.max)
                  /\ v > b.min \/ (b.eqMin /\ v = b.min)

Settled(b) ==
  IF b.equal = << >> THEN [ok |-> TRUE, list |-> Joined(b)]
  ELSE LET v == b.equal[1].value
       IN [ok |-> InBounds(b, v) /\ v \notin b.excluded, list |-> IF InBounds(b, v) THEN b.equal ELSE << >>]

Refused == [ok |-> FALSE, list |-> << >>]

Sort(col, list) ==
  LET b == Tightened(list)
      pinched == Pinched(col, Excluding(col, b))
  IN IF list = << >> THEN [ok |-> TRUE, list |-> << >>]
     ELSE IF ~b.ok \/ b.min > b.max \/ ~pinched.ok THEN Refused
     ELSE Settled(pinched)

SortCrashes(col, list) ==
  LET b == Tightened(list)
  IN list # << >> /\ b.ok /\ b.min <= b.max /\ Crashes(col, Excluding(col, b))

-------------------------------------------------------------------------------
(* A list is read from its head: an equality decides alone; then at most one   *)
(* lower and one upper bound, and the rest are taken for excluded values.      *)
StartsWith(list, conds) == list # << >> /\ Head(list).cond \in conds

Past(list, conds) == IF StartsWith(list, conds) THEN Tail(list) ELSE list

Meets(list, conds, v) == StartsWith(list, conds) => Holds(Head(list), v)

Skip(list, v) ==
  LET i == SelectInSeq(list, LAMBDA c : ~(v > c.value))
  IN IF i = 0 THEN << >> ELSE SubSeq(list, i, Len(list))

NotExcluded(list, v) == LET rest == Skip(list, v) IN rest = << >> \/ Head(rest).value # v

(* sel_gr, sel_rat, sel_name.                                                  *)
Admits(list, v) ==
  IF StartsWith(list, {"EQ"}) THEN v = Head(list).value
  ELSE LET afterGT == Past(list, {"GT"})
           afterGE == Past(afterGT, {"GE"})
           afterLT == Past(afterGE, {"LT"})
       IN /\ Meets(list, {"GT"}, v) /\ Meets(afterGT, {"GE"}, v)
          /\ Meets(afterGE, {"LT"}, v) /\ Meets(afterLT, {"LE"}, v)
          /\ NotExcluded(Past(afterLT, {"LE"}), v)

(* The beginning of do_select, sub_select_tree and sub_select_list: the        *)
(* interval to walk through, with the defaults min and max, both exclusive.    *)
Interval(list, min, max) ==
  LET lower == StartsWith(list, {"GT", "GE"})
      rest == Past(list, {"GT", "GE"})
      upper == StartsWith(rest, {"LT", "LE"})
  IN [min |-> IF lower THEN Head(list).value ELSE min,
      max |-> IF upper THEN Head(rest).value ELSE max,
      signMin |-> StartsWith(list, {"GE"}), signMax |-> StartsWith(rest, {"LE"}),
      excluded |-> Past(rest, {"LT", "LE"})]

Below(r, v) == v < r.min \/ (v = r.min /\ ~r.signMin)

Above(r, v) == v > r.max \/ (v = r.max /\ ~r.signMax)
===============================================================================
