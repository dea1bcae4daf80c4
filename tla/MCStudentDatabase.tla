------------------------- MODULE MCStudentDatabase -------------------------
(* Small instances of StudentDatabase: three keys per column, a few        *)
(* students and one query of every kind.                                   *)
EXTENDS StudentDatabase

MCValue == 0 .. 2

Stud(n, g, r) == [c \in Column |-> IF c = "name" THEN n ELSE IF c = "group" THEN g ELSE r]

(* Two students of one group.                                              *)
TwoStudents == {Stud(0, 1, 1), Stud(2, 1, 2)}

(* The second list names an id that no record has.                         *)
MCRemoveLists == {{0}, {1, 7}}

L(c, o, v, t) == [col |-> c, cmp |-> o, val |-> v, to |-> t]
One(l) == [op |-> "ONE", lhs |-> l, rhs |-> l]

EmptyQuery == [One(L("name", "==", 0, 0)) EXCEPT !.op = "EMPTY"]

(* Enough to select nothing, one student or all of them, and, once the     *)
(* second student was added, to break the index.                           *)
FewQueries ==
  { EmptyQuery, One(L("name", "==", 0, 0)), One(L("group", ">=", 1, 1)),
    One(L("rating", "!=", 2, 2)) }

(* With both logical operations, a range and a comparison from below.      *)
SomeQueries ==
  FewQueries \cup
  { [op |-> "AND", lhs |-> L("group", ">=", 1, 1), rhs |-> L("name", "==*", 1, 2)],
    [op |-> "OR", lhs |-> L("rating", "<", 2, 2), rhs |-> L("name", "==", 2, 2)] }
=============================================================================
