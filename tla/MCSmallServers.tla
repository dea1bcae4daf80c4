----------------------------- MODULE MCSmallServers -----------------------------
(* SmallServers for TLC: what clients send and what files hold.                *)
EXTENDS SmallServers, TLC

CONSTANTS ann, ann2, bob

(* A square-free ring of three widths, and a matrix of the other orientation.  *)
Mat(n, m, elems) == [n |-> n, m |-> m, elems |-> elems]
MCMatrix == {Mat(1, 2, << << 0, 7 >> >>), Mat(2, 3, << << 1, 0, 2 >>, << 0, 1, 0 >> >>), Mat(3, 1, << << 2 >>, << 1 >>, << 5 >> >>), Mat(2, 1, << << 3 >>, << 4 >> >>)}

(* A line that two fgets just take, in front of others, and in the other file  *)
(* one of three pieces at the end, with the string across a cut and behind it. *)
P(id, length, found) == [id |-> id, length |-> length, found |-> found]
MCDrafts == { << P("a", 5, {0, 2, 4}), P("b", 2, {1}) >>, << P("b", 2, {1}), P("c", 6, {5}), P("a", 5, {0}) >>,
              << P("a", 5, {0}), P("d", 13, {1, 6, 12}) >> }
MCParagraph == { P("n", 3, {0, 2}), P("m", 0, {}) }
MCDepths == 0 .. 5
MCNumbers == 0 .. 4

(* Two students of equal ratings, and the same one twice with another between. *)
S(n, g, r, i) == [name |-> n, group |-> g, rating |-> r, info |-> i]
MCInserted == { S("a", 1, 1, ""), S("b", 1, 1, ""), S("a", 2, 2, "") }
MCStudent == MCInserted \cup { S("b", 1, 2, "x") , S("a", 1, 1, "x") }
MCTables == { "db" :> << S("b", 1, 2, "x"), S("a", 1, 1, "x"), S("a", 2, 2, "") >>,
              "db" :> << S("a", 1, 1, ""), S("b", 1, 1, ""), S("a", 1, 1, "") >> }
MCCriteria == { [field |-> "name", names |-> {"b"}], [field |-> "group", more |-> 1, less |-> 100],
                [field |-> "rating", more |-> 2, less |-> 100], [field |-> "rating", more |-> 0, less |-> 1] }

(* Two clients of one name.                                                    *)
MCTalker == {ann, ann2, bob}
MCNameOf == [c \in MCTalker |-> IF c = bob THEN "bob" ELSE "ann"]

(* The empty word, one that is ASCII, and one of two letters of two bytes each *)
(* of which half a letter is lost.                                             *)
MCWords == { [id |-> "", size |-> 0, extra |-> 0], [id |-> "a", size |-> 2, extra |-> 0], [id |-> "r", size |-> 4, extra |-> 2] }

(* A block where the first overlaps itself, one of it alone, and one that is   *)
(* not ASCII, has the read part of the other once more, and ends in the first. *)
Str(id, size) == [id |-> id, size |-> size]
Found(a, beginning, r) == (Str("", 0) :> {}) @@ (Str("a", 2) :> a) @@ (Str("r", 3) :> beginning) @@ (Str("r", 4) :> r)
T(id, size, found, more) == [id |-> id, size |-> size, found |-> found, extra |-> more]
MCBlock == { T("t", 7, Found({1, 2, 3, 5}, {}, {}), 0), T("w", 2, Found({0}, {}, {}), 0), T("u", 12, Found({9, 10}, {0, 5}, {5}), 4) }
MCTexts == { << >>, << T("u", 12, Found({9, 10}, {0, 5}, {5}), 4), T("w", 2, Found({0}, {}, {}), 0), T("t", 7, Found({1, 2, 3, 5}, {}, {}), 0) >> }
MCSizes == {-6, 0, 3}
MCBlocks == 0 .. 4
================================================================================
