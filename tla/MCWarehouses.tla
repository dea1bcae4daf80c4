------------------------------ MODULE MCWarehouses ------------------------------
(* The two warehouses and the lists of both, one after the other: a behaviour  *)
(* is one program's.                                                           *)
EXTENDS Warehouses, TLC

VARIABLE program

mvars == << mup, avalableitems, recipe, file, msaid, handled >>
lvars == << front, node, live, held >>

(* Names of which two meet in one of two buckets: a, b, ab.                    *)
MCNames == {<< 97 >>, << 98 >>, << 97, 98 >>}

(* The program that does not run starts with a file of its own all the same.   *)
MCInit ==
  /\ Init /\ M!Init /\ K!Init /\ program \in {"KutuzovOO", "Menshikh_DA", "lists"}
  /\ program = "KutuzovOO" \/ data = << >>
  /\ program = "Menshikh_DA" \/ file = CHOOSE f \in MFiles : TRUE

MCNext ==
  /\ program' = program
  /\ \/ program = "KutuzovOO" /\ Next /\ UNCHANGED << mvars, lvars >>
     \/ program = "Menshikh_DA" /\ M!Next /\ UNCHANGED << vars, lvars >>
     \/ program = "lists" /\ K!Next /\ UNCHANGED << vars, mvars >>

MCSpec == MCInit /\ [][MCNext]_<< vars, mvars, lvars, program >>

-------------------------------------------------------------------------------
R(zapros, name, quant) ==
  [zapros |-> zapros, wellFormed |-> TRUE, name |-> name, quant |-> quant, recipe |-> << >>, details |-> {}]

MCStocks == { << >>, ("plank" :> 4) @@ ("stick" :> 2) }
MCRecipes == { ("stick" :> ("plank" :> 2)) @@ ("ladder" :> (("stick" :> 2) @@ ("plank" :> 1))) }

(* Four of the second recipe of a stick take more planks than an int holds.    *)
MCRequests ==
  { R("adddetail", "plank", 3), R("adddetail", "stick", 2), R("deletedetail", "plank", 1), R("deletedetail", "ladder", 2),
    R("make", "stick", 2), R("make", "ladder", 1), R("make", "stick", 4), R("canmake", "ladder", 2),
    R("getquant", "stick", 1), R("show", "stick", 0), R("exit", "stick", 0),
    [R("makefrom", "stick", 0) EXCEPT !.details = {"plank", "stick"}],
    [R("addrecipe", "ladder", 0) EXCEPT !.recipe = ("stick" :> 1) @@ ("ladder" :> 1)],
    [R("addrecipe", "stick", 0) EXCEPT !.recipe = ("plank" :> 4)],
    [R("show", "stick", 0) EXCEPT !.wellFormed = FALSE] }

MR(zapros, name, kolv) == [zapros |-> zapros, wellFormed |-> TRUE, name |-> name, kolv |-> kolv, card |-> << >>]
L(name, quant) == [name |-> name, quant |-> quant]
Line(name, card) == [name |-> name, card |-> card]

(* The recipes of 4 and 2 make the tree turn.                                  *)
MCFiles ==
  { [items |-> 1 :> 3, recipes |-> << Line(1, << >>), Line(3, << L(1, 2) >>) >>],
    [items |-> (1 :> 6) @@ (5 :> 2),
     recipes |-> << Line(3, << L(5, 2), L(1, 1) >>), Line(5, << >>) >>],
    [items |-> << >>, recipes |-> << Line(5, << >>) >>] }

MCMRequests ==
  { MR("additem", 1, 2), MR("additem", 4, 3), MR("deleteitem", 1, 1), MR("deleteitem", 4, 4),
    MR("make", 3, 1), MR("make", 2, 2), MR("make", 3, 2), MR("canmake", 3, 2), MR("hmake", 3, 0), MR("hmake", 2, 0),
    MR("save", 1, 0), MR("items", 1, 0), MR("exit1979", 1, 0),
    [MR("addrecipe", 2, 0) EXCEPT !.card = << L(1, 1), L(2, 1), L(1, 1) >>],
    [MR("addrecipe", 4, 0) EXCEPT !.card = << L(3, 1), L(2, 1) >>],
    [MR("addrecipe", 3, 0) EXCEPT !.card = << L(4, 0) >>],
    [MR("addrecipe", 2, 0) EXCEPT !.card = << L(4, 1) >>, !.wellFormed = FALSE],
    [MR("save", 1, 0) EXCEPT !.wellFormed = FALSE] }
================================================================================
