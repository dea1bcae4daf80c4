-------------------------------- MODULE Matrices --------------------------------
(* matrix.cpp of Vylegzhanin_FE: a matrix is its numbers of rows and columns   *)
(* and its rows.  The elements are small: no product leaves an int.            *)
EXTENDS Positions, FiniteSets, Functions

(* What CheckDimensions lets pass.                                             *)
Dimensions(n, m) == n > 0 /\ m > 0

MatrixOf(n, m) == [n : {n}, m : {m}, elems : [1 .. n -> [1 .. m -> Int]]]
IsMatrix(a) == a.n \in Nat /\ a.m \in Nat /\ Dimensions(a.n, a.m) /\ a \in MatrixOf(a.n, a.m)

(* WriteToOstream: the elements, row by row.                                   *)
WriteToOstream(mat) ==
  [p \in 1 .. mat.n * mat.m |-> mat.elems[((p - 1) \div mat.m) + 1][((p - 1) % mat.m) + 1]]

(* A matrix of the elements that come from a stream.                           *)
FromStream(n, m, ints) ==
  [n |-> n, m |-> m, elems |-> [i \in 1 .. n |-> [j \in 1 .. m |-> ints[(i - 1) * m + j]]]]

(* From the buffer, in which only the first came elements have come: the rest  *)
(* of it is zero.                                                              *)
FromBuffer(mat, came) ==
  FromStream(mat.n, mat.m, [p \in 1 .. mat.n * mat.m |-> IF p <= came THEN WriteToOstream(mat)[p] ELSE 0])

(* operator* throws where the sizes are not consistent.                        *)
Consistent(lhs, rhs) == lhs.m = rhs.n

Product(lhs, rhs) ==
  LET Elem(i, j) == Total([k \in 1 .. lhs.m |-> lhs.elems[i][k] * rhs.elems[k][j]])
  IN [n |-> lhs.n, m |-> rhs.m, elems |-> [i \in 1 .. lhs.n |-> [j \in 1 .. rhs.m |-> Elem(i, j)]]]

(* operator<, by which a set keeps its matrices.                               *)
Less(lhs, rhs) ==
  \/ lhs.n < rhs.n
  \/ lhs.n = rhs.n /\ lhs.m < rhs.m
  \/ /\ lhs.n = rhs.n /\ lhs.m = rhs.m
     /\ LET le == WriteToOstream(lhs)
            re == WriteToOstream(rhs)
        IN \E p \in DOMAIN le : le[p] < re[p] /\ \A q \in 1 .. p - 1 : le[q] = re[q]

(* insert of a set: a matrix that is neither less nor greater is there.        *)
InsertMatrix(set, mat) ==
  IF \E a \in set : ~Less(a, mat) /\ ~Less(mat, a) THEN set ELSE set \cup {mat}

(* From the least on.                                                          *)
Least(set) == CHOOSE a \in set : \A b \in set \ {a} : Less(a, b)

InOrder(set) ==
  LET upTo[k \in 0 .. Cardinality(set)] ==
        IF k = 0 THEN << >> ELSE Append(upTo[k - 1], Least(set \ Range(upTo[k - 1])))
  IN upTo[Cardinality(set)]
================================================================================
