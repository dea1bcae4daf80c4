--------------------------- MODULE MCStudentGroups ----------------------------
(* Three names in one group, so that its tree takes several shapes of three    *)
(* nodes, with a tie of ratings and a name that is taken; another group in the *)
(* same chain, one in another, and the group 100.                              *)
EXTENDS StudentGroups

S(n, r, g) == [name |-> n, rating |-> r, group |-> g]

MCPupil == { S(1, 3, 150), S(2, 5, 150), S(3, 3, 150), S(2, 4, 150), S(2, 4, 120), S(1, 4, 100) }

MCFiles == { << S(2, 5, 150), S(3, 3, 150), S(1, 3, 150) >>, << S(3, 3, 150), S(1, 3, 150), S(2, 4, 120) >>,
             << S(1, 3, 150), S(2, 5, 150), S(1, 4, 100) >> }

G(col, conds) == [c \in Columns |-> IF c = col THEN conds ELSE << >>]

MCGiven ==
  { G("group", << Condition("EQ", 150) >>), G("group", << Condition("NE", 150), Condition("GE", 120) >>),
    G("rating", << Condition("GE", 4) >>), G("rating", << Condition("LE", 4) >>),
    G("name", << Condition("NE", 1), Condition("GE", 1) >>), G("name", << Condition("EQ", 2) >>) }
===============================================================================
