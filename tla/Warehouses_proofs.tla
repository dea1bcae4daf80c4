--------------------------- MODULE Warehouses_proofs ---------------------------
(* Proofs about Warehouses: what the counter of KutuzovOO's table counts, what *)
(* a make takes and adds, for any names, recipes, requests and width of an     *)
(* int; that the lists of both warehouses hold what was put into them, for any *)
(* number of lists and of nodes; and what Menshikh_DA's tree of recipes finds, *)
(* removes and copies, what its hmake counts and what comes back of its files, *)
(* for trees of any size.                                                      *)
EXTENDS Warehouses, Positions_proofs

Ints == (-MaxInt - 1) .. MaxInt

(* As long as no int has overflowed a node holds no less than nothing.         *)
TypeOK ==
  /\ DOMAIN data \subseteq Name /\ data \in [DOMAIN data -> Int]
  /\ ~wrapped => \A n \in DOMAIN data : data[n] \in 0 .. MaxInt
  /\ IsRecipes(known_recipes)
  /\ owed \in [Client -> Int] /\ merged \in Nat /\ numOfItems \in Int /\ wrapped \in BOOLEAN

Inv == TypeOK /\ CountsMerges

-------------------------------------------------------------------------------
(* Arithmetic of an int. *)
LEMMA WrapOfInt ==
  /\ \A n \in Int : Wrap(n) \in Ints
  /\ \A n \in Ints : Wrap(n) = n
<1>1. ASSUME NEW n \in Nat, NEW m \in Nat, n < m PROVE n % m = n
  BY <1>1
<1>2. ASSUME NEW n \in Int, NEW m \in Nat \ {0} PROVE n % m \in 0 .. m - 1
  OBVIOUS
<1>3. MaxInt \in Nat \ {0} /\ 2 * (MaxInt + 1) \in Nat \ {0}
  BY WarehouseAssumption
<1>4. ASSUME NEW n \in Int PROVE Wrap(n) \in Ints
  <2>1. (n + MaxInt + 1) % (2 * (MaxInt + 1)) \in 0 .. 2 * (MaxInt + 1) - 1
    BY <1>2, <1>3
  <2> QED BY <2>1, <1>3 DEF Wrap, Ints
<1>5. ASSUME NEW n \in Ints PROVE Wrap(n) = n
  <2>1. n + MaxInt + 1 \in Nat /\ n + MaxInt + 1 < 2 * (MaxInt + 1) /\ n \in Int
    BY <1>3 DEF Ints
  <2>2. (n + MaxInt + 1) % (2 * (MaxInt + 1)) = n + MaxInt + 1
    BY <1>1, <1>3, <2>1
  <2> QED BY <2>1, <2>2, <1>3 DEF Wrap
<1> QED BY <1>4, <1>5

LEMMA Product == \A a, b \in Nat : a * b \in Nat
OBVIOUS

-------------------------------------------------------------------------------
(* The hash table. *)
LEMMA Finite ==
  ASSUME NEW S \in SUBSET Name
  PROVE  IsFiniteSet(S) /\ Cardinality(S) \in Nat
BY WarehouseAssumption, FS_Subset, FS_CardinalityType

(* Nodes that are unlinked leave the others, and so many fewer. *)
LEMMA RemovepartsNodes ==
  ASSUME TypeOK, NEW parts, parts \in [DOMAIN parts -> Int]
  PROVE  LET left == ListRemoveparts(parts) IN
         /\ DOMAIN left = DOMAIN data \ Emptied(parts) /\ DOMAIN left \subseteq Name
         /\ left \in [DOMAIN left -> Int]
         /\ Unlinked(parts) \in Nat
         /\ Cardinality(DOMAIN left) = Cardinality(DOMAIN data) - Unlinked(parts)
         /\ ~wrapped /\ (\A n \in DOMAIN parts : parts[n] >= 0) =>
              \A n \in DOMAIN left : left[n] \in 0 .. MaxInt
<1> DEFINE left == ListRemoveparts(parts)
<1>1. DOMAIN left = DOMAIN data \ Emptied(parts) /\ Emptied(parts) \subseteq DOMAIN data
  BY DEF ListRemoveparts, Emptied
<1>2. DOMAIN data \subseteq Name /\ data \in [DOMAIN data -> Int]
  BY DEF TypeOK
<1>3. left \in [DOMAIN left -> Int]
  BY <1>1, <1>2, WrapOfInt DEF ListRemoveparts, Ints
<1>4. Cardinality(DOMAIN left) = Cardinality(DOMAIN data) - Cardinality(Emptied(parts))
  <2>1. IsFiniteSet(DOMAIN data) /\ IsFiniteSet(Emptied(parts))
    BY <1>1, <1>2, Finite
  <2>2. DOMAIN data \cap Emptied(parts) = Emptied(parts)
    BY <1>1
  <2> QED BY <1>1, <2>1, <2>2, FS_Difference
<1>5. ASSUME ~wrapped, \A n \in DOMAIN parts : parts[n] >= 0, NEW n \in DOMAIN left
      PROVE  left[n] \in 0 .. MaxInt
  <2>1. n \in DOMAIN data /\ data[n] \in 0 .. MaxInt
    BY <1>1, <1>5 DEF TypeOK
  <2>2. CASE n \in DOMAIN parts /\ parts[n] <= data[n]
    <3>1. data[n] - parts[n] \in 0 .. MaxInt
      BY <1>5, <2>1, <2>2, WarehouseAssumption
    <3>2. Wrap(data[n] - parts[n]) = data[n] - parts[n]
      BY <3>1, WrapOfInt, WarehouseAssumption DEF Ints
    <3>3. left[n] = Wrap(data[n] - parts[n])
      BY <1>1, <2>1, <2>2 DEF ListRemoveparts
    <3> QED BY <3>1, <3>2, <3>3
  <2>3. CASE ~(n \in DOMAIN parts /\ parts[n] <= data[n])
    BY <1>1, <2>1, <2>3 DEF ListRemoveparts
  <2> QED BY <2>2, <2>3
<1> QED BY <1>1, <1>2, <1>3, <1>4, <1>5, Finite DEF Unlinked

(* An insert makes a node, or merges and is counted all the same.              *)
LEMMA InsertCounts ==
  ASSUME TypeOK, CountsMerges,
         NEW d, DOMAIN d \subseteq Name, d \in [DOMAIN d -> Int],
         NEW name \in Name, NEW quant \in 0 .. MaxInt, NEW unlinked \in Nat,
         Cardinality(DOMAIN d) = Cardinality(DOMAIN data) - unlinked,
         Insert(d, name, quant, unlinked)
  PROVE  /\ DOMAIN data' = DOMAIN d \cup {name} /\ data' \in [DOMAIN data' -> Int]
         /\ numOfItems' \in Int /\ merged' \in Nat /\ merged' >= merged
         /\ numOfItems' = Cardinality(DOMAIN data') + merged'
         /\ (\A n \in DOMAIN d : d[n] \in 0 .. MaxInt) /\ ~Overflows(d, name, quant) =>
              \A n \in DOMAIN data' : data'[n] \in 0 .. MaxInt
<1>1. data' = ListInsert(d, name, quant) /\ DOMAIN data' = DOMAIN d \cup {name}
  BY DEF Insert, ListInsert
<1>2. Cardinality(DOMAIN data') = IF name \in DOMAIN d THEN Cardinality(DOMAIN d) ELSE Cardinality(DOMAIN d) + 1
  BY <1>1, Finite, FS_AddElement
<1>3. data' \in [DOMAIN data' -> Int]
  <2>1. quant \in Int /\ \A n \in Int : Wrap(n) \in Int
    BY WrapOfInt, WarehouseAssumption DEF Ints
  <2> QED BY <1>1, <2>1 DEF ListInsert
<1>4. /\ numOfItems' \in Int /\ merged' \in Nat /\ merged' >= merged
      /\ numOfItems' = Cardinality(DOMAIN data') + merged'
  <2>1. numOfItems \in Int /\ merged \in Nat /\ numOfItems = Cardinality(DOMAIN data) + merged
    BY DEF TypeOK, CountsMerges
  <2>2. Cardinality(DOMAIN data) \in Nat
    BY Finite DEF TypeOK
  <2> QED BY <1>2, <2>1, <2>2 DEF Insert
<1>5. ASSUME \A n \in DOMAIN d : d[n] \in 0 .. MaxInt, ~Overflows(d, name, quant), NEW n \in DOMAIN data'
      PROVE  data'[n] \in 0 .. MaxInt
  <2>1. CASE n # name
    BY <1>1, <1>5, <2>1 DEF ListInsert
  <2>2. CASE n = name /\ n \notin DOMAIN d
    BY <1>1, <2>2 DEF ListInsert
  <2>3. CASE n = name /\ n \in DOMAIN d
    <3>1. d[n] + quant \in 0 .. MaxInt
      BY <1>5, <2>3, WarehouseAssumption DEF Overflows
    <3> QED BY <1>1, <2>3, <3>1, WrapOfInt, WarehouseAssumption DEF ListInsert, Ints
  <2> QED BY <2>1, <2>2, <2>3
<1> QED BY <1>1, <1>3, <1>4, <1>5

-------------------------------------------------------------------------------
(* The actions. *)
LEMMA RequestTypes ==
  ASSUME NEW r \in Requests
  PROVE  /\ r.name \in Name /\ r.quant \in 0 .. MaxInt /\ r.quant \in Nat
         /\ IsQuants(r.recipe)
BY WarehouseAssumption

LEMMA NeedsTypes ==
  ASSUME TypeOK, NEW name \in DOMAIN known_recipes, NEW quant \in 0 .. MaxInt
  PROVE  /\ Needs(name, quant) \in [DOMAIN Needs(name, quant) -> Ints]
         /\ DOMAIN Needs(name, quant) = DOMAIN known_recipes[name]
         /\ \A n \in DOMAIN known_recipes[name] : known_recipes[name][n] \in Nat
         /\ \A n \in DOMAIN known_recipes[name] : quant * known_recipes[name][n] \in Nat
<1>1. \A n \in DOMAIN known_recipes[name] : known_recipes[name][n] \in Nat
  BY WarehouseAssumption DEF TypeOK, IsRecipes, IsQuants
<1>2. quant \in Nat
  BY WarehouseAssumption
<1>3. \A n \in DOMAIN known_recipes[name] : quant * known_recipes[name][n] \in Nat
  BY <1>1, <1>2, Product
<1> QED BY <1>1, <1>3, WrapOfInt DEF Needs

LEMMA KutuzovInit == Init => Inv
<1> SUFFICES ASSUME Init PROVE Inv
  OBVIOUS
<1>1. IsQuants(data) /\ DOMAIN data \subseteq Name
  BY WarehouseAssumption DEF Init, IsQuants
<1>2. data \in [DOMAIN data -> Int] /\ \A n \in DOMAIN data : data[n] \in 0 .. MaxInt
  BY <1>1, WarehouseAssumption DEF IsQuants
<1>3. Cardinality(DOMAIN data) \in Nat
  BY <1>1, Finite
<1>4. IsRecipes(known_recipes)
  BY WarehouseAssumption DEF Init
<1>5. TypeOK
  <2>1. owed \in [Client -> Int]
    BY DEF Init
  <2>2. merged \in Nat /\ wrapped \in BOOLEAN
    BY DEF Init
  <2>3. numOfItems \in Int
    BY <1>3 DEF Init
  <2> QED BY <1>1, <1>2, <1>4, <2>1, <2>2, <2>3 DEF TypeOK
<1>6. CountsMerges
  <2>1. numOfItems = Cardinality(DOMAIN data) /\ merged = 0
    BY DEF Init
  <2>2. \A c \in Client : owed[c] = 0
    BY DEF Init
  <2>3. numOfItems = Cardinality(DOMAIN data) + merged
    BY <1>3, <2>1
  <2>4. \A c \in Client : owed[c] \in 0 .. merged
    BY <2>1, <2>2
  <2> QED BY <2>3, <2>4 DEF CountsMerges
<1> QED BY <1>5, <1>6 DEF Inv

(* The answers that only read. *)
LEMMA ReadInv ==
  ASSUME Inv, Read, owed' = owed
  PROVE  Inv'
BY DEF Inv, Read, TypeOK, CountsMerges

LEMMA MakeInv ==
  ASSUME Inv, NEW c \in Client, NEW r \in Requests, Make(c, r)
  PROVE  Inv'
<1>1. CASE CanMake(r.name, r.quant) # "all_right"
  BY <1>1, ReadInv DEF Make, Answer
<1>2. CASE CanMake(r.name, r.quant) = "all_right"
  <2> DEFINE needs == Needs(r.name, r.quant)
             left == ListRemoveparts(needs)
  <2>1. r.name \in DOMAIN known_recipes /\ r.name \in Name /\ r.quant \in 0 .. MaxInt
    BY <1>2, RequestTypes DEF CanMake
  <2>2. needs \in [DOMAIN needs -> Ints] /\ DOMAIN needs = DOMAIN known_recipes[r.name]
        /\ \A n \in DOMAIN needs : r.quant * known_recipes[r.name][n] \in Nat
    BY <2>1, NeedsTypes DEF Inv
  <2>3. needs \in [DOMAIN needs -> Int]
    BY <2>2 DEF Ints
  <2>4. /\ MakeDetail(r.name, r.quant) /\ owed' = owed
        /\ UNCHANGED << up, known_recipes >>
    BY <1>2 DEF Make, Answer
  <2>5. Insert(left, r.name, r.quant, Unlinked(needs))
    BY <2>4 DEF MakeDetail
  <2>6. TypeOK /\ CountsMerges
    BY DEF Inv
  <2>7. /\ DOMAIN left \subseteq Name /\ left \in [DOMAIN left -> Int] /\ Unlinked(needs) \in Nat
        /\ Cardinality(DOMAIN left) = Cardinality(DOMAIN data) - Unlinked(needs)
        /\ ~wrapped /\ (\A n \in DOMAIN needs : needs[n] >= 0) =>
             \A n \in DOMAIN left : left[n] \in 0 .. MaxInt
    BY <2>3, <2>6, RemovepartsNodes
  <2>8. /\ DOMAIN data' = DOMAIN left \cup {r.name} /\ data' \in [DOMAIN data' -> Int]
        /\ numOfItems' \in Int /\ merged' \in Nat /\ merged' >= merged
        /\ numOfItems' = Cardinality(DOMAIN data') + merged'
        /\ (\A n \in DOMAIN left : left[n] \in 0 .. MaxInt) /\ ~Overflows(left, r.name, r.quant) =>
             \A n \in DOMAIN data' : data'[n] \in 0 .. MaxInt
    <3> HIDE DEF left, needs
    <3> QED BY <2>1, <2>5, <2>6, <2>7, InsertCounts
  <2>9. wrapped' = (\/ wrapped \/ Overflows(left, r.name, r.quant)
                    \/ \E n \in DOMAIN needs : needs[n] # r.quant * known_recipes[r.name][n])
    BY <2>4 DEF MakeDetail
  <2>10. ~wrapped' => \A n \in DOMAIN data' : data'[n] \in 0 .. MaxInt
    <3> SUFFICES ASSUME ~wrapped' PROVE \A n \in DOMAIN data' : data'[n] \in 0 .. MaxInt
      OBVIOUS
    <3>1. ~wrapped /\ ~Overflows(left, r.name, r.quant)
          /\ \A n \in DOMAIN needs : needs[n] = r.quant * known_recipes[r.name][n]
      BY <2>9
    <3>2. \A n \in DOMAIN needs : needs[n] >= 0
      BY <2>2, <3>1
    <3> QED BY <2>7, <2>8, <3>1, <3>2
  <2>11. wrapped' \in BOOLEAN
    BY <2>9
  <2>12. DOMAIN data' \subseteq Name
    BY <2>1, <2>7, <2>8
  <2>13. \A d \in Client : owed'[d] \in 0 .. merged'
    BY <2>4, <2>6, <2>8 DEF CountsMerges, TypeOK
  <2> QED BY <2>4, <2>6, <2>8, <2>10, <2>11, <2>12, <2>13 DEF Inv, TypeOK, CountsMerges
<1> QED BY <1>1, <1>2

LEMMA AdddetailInv ==
  ASSUME Inv, NEW c \in Client, NEW r \in Requests, Adddetail(c, r)
  PROVE  Inv'
<1>1. /\ Insert(data, r.name, r.quant, 0) /\ owed' = owed /\ UNCHANGED << up, known_recipes >>
      /\ wrapped' = (wrapped \/ Overflows(data, r.name, r.quant))
  BY DEF Adddetail, Answer
<1>2. r.name \in Name /\ r.quant \in 0 .. MaxInt
  BY RequestTypes
<1>3. TypeOK /\ CountsMerges
  BY DEF Inv
<1>4. /\ DOMAIN data' = DOMAIN data \cup {r.name} /\ data' \in [DOMAIN data' -> Int]
      /\ numOfItems' \in Int /\ merged' \in Nat /\ merged' >= merged
      /\ numOfItems' = Cardinality(DOMAIN data') + merged'
      /\ (\A n \in DOMAIN data : data[n] \in 0 .. MaxInt) /\ ~Overflows(data, r.name, r.quant) =>
           \A n \in DOMAIN data' : data'[n] \in 0 .. MaxInt
  <2>1. DOMAIN data \subseteq Name /\ data \in [DOMAIN data -> Int] /\ Cardinality(DOMAIN data) \in Nat
    BY <1>3, Finite DEF TypeOK
  <2>2. Cardinality(DOMAIN data) = Cardinality(DOMAIN data) - 0
    BY <2>1
  <2> QED BY <1>1, <1>2, <1>3, <2>1, <2>2, InsertCounts
<1>5. \A d \in Client : owed'[d] \in 0 .. merged'
  BY <1>1, <1>3, <1>4 DEF CountsMerges, TypeOK
<1> QED BY <1>1, <1>2, <1>3, <1>4, <1>5 DEF Inv, TypeOK, CountsMerges

LEMMA DeletedetailInv ==
  ASSUME Inv, NEW c \in Client, NEW r \in Requests, Deletedetail(c, r)
  PROVE  Inv'
<1> DEFINE parts == [n \in {r.name} |-> r.quant]
           left == ListRemoveparts(parts)
<1>1. /\ data' = left /\ numOfItems' = numOfItems - Unlinked(parts) /\ owed' = owed
      /\ UNCHANGED << up, known_recipes, merged, wrapped >>
  BY DEF Deletedetail, Answer
<1>2. parts \in [DOMAIN parts -> Int] /\ \A n \in DOMAIN parts : parts[n] >= 0
  BY RequestTypes
<1>3. TypeOK /\ CountsMerges
  BY DEF Inv
<1>4. /\ DOMAIN left \subseteq Name /\ left \in [DOMAIN left -> Int] /\ Unlinked(parts) \in Nat
      /\ Cardinality(DOMAIN left) = Cardinality(DOMAIN data) - Unlinked(parts)
      /\ ~wrapped => \A n \in DOMAIN left : left[n] \in 0 .. MaxInt
  BY <1>2, <1>3, RemovepartsNodes
<1>5. Cardinality(DOMAIN data) \in Nat
  BY <1>3, Finite DEF TypeOK
<1> HIDE DEF left, parts
<1> QED BY <1>1, <1>3, <1>4, <1>5 DEF Inv, TypeOK, CountsMerges

LEMMA AddrecipeInv ==
  ASSUME Inv, NEW c \in Client, NEW r \in Requests, Addrecipe(c, r)
  PROVE  Inv'
<1>1. /\ known_recipes' = [n \in DOMAIN known_recipes \cup {r.name} |->
                             IF n = r.name THEN r.recipe ELSE known_recipes[n]]
      /\ owed' = owed /\ UNCHANGED << up, data, numOfItems, merged, wrapped >>
  BY DEF Addrecipe, Answer
<1>2. IsRecipes(known_recipes)'
  <2>1. IsRecipes(known_recipes) /\ r.name \in Name /\ IsQuants(r.recipe)
    BY RequestTypes DEF Inv, TypeOK
  <2>2. ASSUME NEW n \in DOMAIN known_recipes' PROVE IsQuants(known_recipes'[n])
    BY <1>1, <2>1 DEF IsRecipes
  <2>3. DOMAIN known_recipes' \subseteq Name
    BY <1>1, <2>1 DEF IsRecipes
  <2> QED BY <2>2, <2>3 DEF IsRecipes
<1> QED BY <1>1, <1>2 DEF Inv, TypeOK, CountsMerges

(* A client is promised the merges there were, whatever the recipes are.       *)
LEMMA ShowInv ==
  ASSUME Inv, NEW c \in Client, NEW r \in Requests, Show(c, r)
  PROVE  Inv'
<1>1. TypeOK /\ CountsMerges
  BY DEF Inv
<1>2. Cardinality(DOMAIN data) \in Nat /\ Cardinality(DOMAIN known_recipes) \in Nat
  BY <1>1, Finite DEF TypeOK, IsRecipes
<1>3. owed' = [owed EXCEPT ![c] = merged]
  <2>1. Promised - Sent = merged
    <3>1. numOfItems = Cardinality(DOMAIN data) + merged /\ merged \in Nat
      BY <1>1 DEF TypeOK, CountsMerges
    <3> QED BY <1>2, <3>1 DEF Promised, Sent
  <2> QED BY <2>1 DEF Show, send_to_client
<1>4. UNCHANGED << up, data, numOfItems, known_recipes, merged, wrapped >>
  BY DEF Show, Read
<1>5. merged \in Nat /\ owed \in [Client -> Int]
  BY <1>1 DEF TypeOK
<1>6. owed' \in [Client -> Int]
  BY <1>3, <1>5
<1>7. ASSUME NEW d \in Client PROVE owed'[d] \in 0 .. merged
  <2>1. owed[d] \in 0 .. merged
    BY <1>1 DEF CountsMerges
  <2> QED BY <1>3, <1>5, <2>1
<1>8. TypeOK'
  BY <1>1, <1>4, <1>6 DEF TypeOK
<1>9. CountsMerges'
  BY <1>1, <1>4, <1>7 DEF CountsMerges
<1> QED BY <1>8, <1>9 DEF Inv

LEMMA KutuzovStep == Inv /\ [Next]_vars => Inv'
<1> SUFFICES ASSUME Inv, [Next]_vars PROVE Inv'
  OBVIOUS
<1>1. CASE UNCHANGED vars
  BY <1>1 DEF Inv, vars, TypeOK, CountsMerges
<1>2. ASSUME NEW c \in Client, Killed(c) PROVE Inv'
  BY <1>2 DEF Killed, Inv, TypeOK, CountsMerges
<1>3. ASSUME NEW c \in Client, NEW r \in Requests, Handle(c, r) PROVE Inv'
  <2>1. CASE InputError(c, r) \/ Canmake(c, r) \/ Getquant(c, r) \/ Makefrom(c, r)
    BY <2>1, ReadInv DEF InputError, Canmake, Getquant, Makefrom, Answer
  <2>2. CASE Make(c, r)
    BY <2>2, MakeInv
  <2>3. CASE Adddetail(c, r)
    BY <2>3, AdddetailInv
  <2>4. CASE Deletedetail(c, r)
    BY <2>4, DeletedetailInv
  <2>5. CASE Addrecipe(c, r)
    BY <2>5, AddrecipeInv
  <2>6. CASE Show(c, r)
    BY <2>6, ShowInv
  <2>7. CASE Exit(c, r)
    BY <2>7 DEF Exit, Inv, TypeOK, CountsMerges
  <2> QED BY <1>3, <2>1, <2>2, <2>3, <2>4, <2>5, <2>6, <2>7 DEF Handle
<1> QED BY <1>1, <1>2, <1>3 DEF Next

(* The counter of the hash table exceeds its nodes by the merges, and no       *)
(* client waits for more messages than those.                                  *)
THEOREM KutuzovCountsMerges == Spec => []CountsMerges
<1>1. Inv => CountsMerges
  BY DEF Inv
<1> QED BY <1>1, KutuzovInit, KutuzovStep, PTL DEF Spec

-------------------------------------------------------------------------------
(* What so many parts leave of a name, if there are as many.                    *)
LEMMA RemovepartsIsExact ==
  ASSUME NEW parts, NEW n,
         n \in DOMAIN data => data[n] \in 0 .. MaxInt,
         n \in DOMAIN parts => parts[n] \in 0 .. MaxInt,
         n \in DOMAIN parts => IF n \in DOMAIN data THEN parts[n] <= data[n] ELSE parts[n] = 0
  PROVE  LET left == ListRemoveparts(parts)
             rest == search(n) - (IF n \in DOMAIN parts THEN parts[n] ELSE 0)
         IN IF n \in DOMAIN left THEN left[n] = rest /\ rest \in 0 .. MaxInt ELSE rest = 0
<1> DEFINE left == ListRemoveparts(parts)
<1>1. n \in DOMAIN left <=> n \in DOMAIN data /\ ~(n \in DOMAIN parts /\ data[n] = parts[n])
  BY DEF ListRemoveparts, Emptied
<1>2. n \in DOMAIN left => left[n] = IF n \in DOMAIN parts /\ parts[n] <= data[n]
                                       THEN Wrap(data[n] - parts[n]) ELSE data[n]
  BY DEF ListRemoveparts
<1> HIDE DEF left
<1>3. MaxInt \in Nat
  BY WarehouseAssumption
<1>4. CASE n \in DOMAIN data /\ n \in DOMAIN parts
  <2>1. data[n] \in 0 .. MaxInt /\ parts[n] \in 0 .. MaxInt /\ parts[n] <= data[n]
    BY <1>4
  <2>2. data[n] - parts[n] \in Ints /\ data[n] - parts[n] \in 0 .. MaxInt
    BY <1>3, <2>1 DEF Ints
  <2>3. Wrap(data[n] - parts[n]) = data[n] - parts[n]
    BY <2>2, WrapOfInt
  <2>4. n \in DOMAIN left => left[n] = data[n] - parts[n]
    BY <1>2, <1>4, <2>1, <2>3
  <2>5. n \notin DOMAIN left => data[n] - parts[n] = 0
    BY <1>1, <1>4, <2>1
  <2>6. search(n) - (IF n \in DOMAIN parts THEN parts[n] ELSE 0) = data[n] - parts[n]
    BY <1>4 DEF search
  <2> QED BY <2>2, <2>4, <2>5, <2>6 DEF left
<1>5. CASE n \in DOMAIN data /\ n \notin DOMAIN parts
  <2>1. n \in DOMAIN left /\ left[n] = data[n]
    BY <1>1, <1>2, <1>5
  <2>2. search(n) - (IF n \in DOMAIN parts THEN parts[n] ELSE 0) = data[n]
    BY <1>3, <1>5 DEF search
  <2> QED BY <1>5, <2>1, <2>2 DEF left
<1>6. CASE n \notin DOMAIN data
  <2>1. n \notin DOMAIN left
    BY <1>1, <1>6
  <2>2. search(n) - (IF n \in DOMAIN parts THEN parts[n] ELSE 0) = 0
    BY <1>6 DEF search
  <2> QED BY <2>1, <2>2 DEF left
<1> QED BY <1>4, <1>5, <1>6

(* What an insert without overflow makes of the names.                          *)
LEMMA InsertIsExact ==
  ASSUME NEW d, NEW name, NEW quant \in 0 .. MaxInt, NEW n,
         data' = ListInsert(d, name, quant), ~Overflows(d, name, quant),
         n \in DOMAIN d => d[n] \in 0 .. MaxInt
  PROVE  search(n)' = (IF n \in DOMAIN d THEN d[n] ELSE 0) + (IF n = name THEN quant ELSE 0)
<1>1. DOMAIN data' = DOMAIN d \cup {name}
  BY DEF ListInsert
<1>2. search(n)' = IF n \in DOMAIN data' THEN data'[n] ELSE 0
  BY DEF search
<1>3. MaxInt \in Nat /\ quant \in Nat /\ quant <= MaxInt
  BY WarehouseAssumption
<1>4. CASE n # name
  <2>1. n \in DOMAIN d => data'[n] = d[n]
    BY <1>1, <1>4 DEF ListInsert
  <2>2. n \in DOMAIN d => d[n] + 0 = d[n]
    OBVIOUS
  <2> QED BY <1>1, <1>2, <1>4, <2>1, <2>2
<1>5. CASE n = name /\ n \notin DOMAIN d
  <2>1. data'[n] = quant
    BY <1>1, <1>5 DEF ListInsert
  <2> QED BY <1>1, <1>2, <1>3, <1>5, <2>1
<1>6. CASE n = name /\ n \in DOMAIN d
  <2>1. data'[n] = Wrap(d[n] + quant)
    BY <1>1, <1>6 DEF ListInsert
  <2>2. d[n] + quant \in Ints
    BY <1>3, <1>6 DEF Overflows, Ints
  <2>3. Wrap(d[n] + quant) = d[n] + quant
    BY <2>2, WrapOfInt
  <2> QED BY <1>1, <1>2, <1>6, <2>1, <2>3
<1> QED BY <1>4, <1>5, <1>6

(* The answer of CanMake, as long as nothing wraps: every part is there.        *)
LEMMA NothingMissing ==
  ASSUME NEW n, NEW q \in 0 .. MaxInt, n \in DOMAIN data => data[n] \in 0 .. MaxInt,
         ~(searchP(n, q) > 0)
  PROVE  IF n \in DOMAIN data THEN q <= data[n] ELSE q = 0
<1>1. MaxInt \in Nat /\ q \in Nat /\ q <= MaxInt
  BY WarehouseAssumption
<1>2. CASE n \notin DOMAIN data
  BY <1>1, <1>2 DEF searchP
<1>3. CASE n \in DOMAIN data /\ data[n] < q
  <2>1. q - data[n] \in Ints /\ q - data[n] > 0
    BY <1>1, <1>3 DEF Ints
  <2>2. Wrap(q - data[n]) = q - data[n]
    BY <2>1, WrapOfInt
  <2>3. searchP(n, q) = q - data[n]
    BY <1>3, <2>2 DEF searchP
  <2> QED BY <2>1, <2>3
<1>4. CASE n \in DOMAIN data /\ ~(data[n] < q)
  <2>1. data[n] \in Int /\ q \in Int
    BY <1>1, <1>4
  <2> QED BY <1>4, <2>1
<1> QED BY <1>2, <1>3, <1>4

(* A confirmed make without overflow: nothing was missing, and nothing wraps.  *)
LEMMA MakeIsExact ==
  ASSUME Inv, NEW c \in Client, NEW r \in Requests, Make(c, r), ~wrapped', said' = "you_make",
         NEW n \in Name
  PROVE  search(n)' = search(n) + (IF n = r.name THEN r.quant ELSE 0)
           - (IF n \in DOMAIN known_recipes[r.name] THEN r.quant * known_recipes[r.name][n] ELSE 0)
<1> DEFINE needs == Needs(r.name, r.quant)
           left == ListRemoveparts(needs)
           Need == IF n \in DOMAIN needs THEN needs[n] ELSE 0
<1>1. CanMake(r.name, r.quant) = "all_right"
  BY DEF Make, Answer
<1>2. /\ r.name \in DOMAIN known_recipes /\ r.name \in Name /\ r.quant \in 0 .. MaxInt
      /\ Deficit(r.name, r.quant) = {}
  BY <1>1, RequestTypes DEF CanMake
<1>3. TypeOK
  BY DEF Inv
<1>4. /\ needs \in [DOMAIN needs -> Ints] /\ DOMAIN needs = DOMAIN known_recipes[r.name]
      /\ \A m \in DOMAIN needs : r.quant * known_recipes[r.name][m] \in Nat
  BY <1>2, <1>3, NeedsTypes
<1>5. MakeDetail(r.name, r.quant)
  BY <1>1 DEF Make
<1>6. /\ ~wrapped /\ ~Overflows(left, r.name, r.quant)
      /\ \A m \in DOMAIN needs : needs[m] = r.quant * known_recipes[r.name][m]
  BY <1>5 DEF MakeDetail
<1>7. data' = ListInsert(left, r.name, r.quant)
  BY <1>5 DEF MakeDetail, Insert
<1>8. n \in DOMAIN needs => ~(searchP(n, needs[n]) > 0)
  BY <1>2 DEF Deficit
<1> HIDE DEF needs
<1>9. \A m \in DOMAIN needs : needs[m] \in 0 .. MaxInt
  <2> SUFFICES ASSUME NEW m \in DOMAIN needs PROVE needs[m] \in 0 .. MaxInt
    OBVIOUS
  <2>1. needs[m] \in Ints
    BY <1>4
  <2>2. needs[m] \in Nat
    BY <1>4, <1>6
  <2> QED BY <2>1, <2>2, WarehouseAssumption DEF Ints
<1>10. n \in DOMAIN data => data[n] \in 0 .. MaxInt
  BY <1>3, <1>6 DEF TypeOK
<1>11. n \in DOMAIN needs => IF n \in DOMAIN data THEN needs[n] <= data[n] ELSE needs[n] = 0
  BY <1>8, <1>9, <1>10, NothingMissing
<1>12. IF n \in DOMAIN left THEN left[n] = search(n) - Need /\ search(n) - Need \in 0 .. MaxInt
       ELSE search(n) - Need = 0
  BY <1>9, <1>10, <1>11, RemovepartsIsExact
<1> HIDE DEF left
<1>13. search(n)' = (IF n \in DOMAIN left THEN left[n] ELSE 0) + (IF n = r.name THEN r.quant ELSE 0)
  <2>1. n \in DOMAIN left => left[n] \in 0 .. MaxInt
    BY <1>12
  <2> QED BY <1>2, <1>6, <1>7, <2>1, InsertIsExact DEF search
<1>14. Need = IF n \in DOMAIN known_recipes[r.name] THEN r.quant * known_recipes[r.name][n] ELSE 0
  BY <1>4, <1>6
<1>15. search(n) \in Int /\ Need \in Int /\ r.quant \in Int
  <2>1. MaxInt \in Nat
    BY WarehouseAssumption
  <2>2. search(n) \in Int
    BY <1>10, <2>1 DEF search
  <2>3. Need \in Int
    BY <1>9, <2>1
  <2>4. r.quant \in Int
    BY <1>2, <2>1
  <2> QED BY <2>2, <2>3, <2>4
<1>16. (IF n \in DOMAIN left THEN left[n] ELSE 0) = search(n) - Need
  BY <1>12
<1> HIDE DEF Need
<1>17. search(n)' = (search(n) - Need) + (IF n = r.name THEN r.quant ELSE 0)
  BY <1>13, <1>16
<1>18. search(n)' = search(n) + (IF n = r.name THEN r.quant ELSE 0) - Need
  <2> DEFINE Add == IF n = r.name THEN r.quant ELSE 0
  <2>1. Add \in Int
    BY <1>15
  <2> HIDE DEF Add
  <2>2. (search(n) - Need) + Add = search(n) + Add - Need
    BY <1>15, <2>1
  <2> QED BY <1>17, <2>2 DEF Add
<1> QED BY <1>14, <1>18

(* README "MAKE": a make that is confirmed takes what the recipe says and adds *)
(* the devices, to whatever nodes there are, as long as no int has overflowed. *)
THEOREM KutuzovMakeConserves == Spec => MakeConserves
<1> DEFINE A == \A c \in Client : \A r \in Requests :
                  Make(c, r) /\ ~wrapped' /\ said' = "you_make" =>
                    \A n \in Name :
                      search(n)' = search(n) + (IF n = r.name THEN r.quant ELSE 0)
                        - (IF n \in DOMAIN known_recipes[r.name] THEN r.quant * known_recipes[r.name][n] ELSE 0)
<1>1. Inv /\ [Next]_vars => [A]_vars
  BY MakeIsExact
<1>2. Spec => [][A]_vars
  BY <1>1, KutuzovInit, KutuzovStep, PTL DEF Spec
<1> QED BY <1>2 DEF MakeConserves

-------------------------------------------------------------------------------
(* The lists: the memory of nodes, a list's nodes in their order, and what     *)
(* stands in them.                                                             *)
Memory == [Node -> [name : Word \cup {<< >>}, quant : Int, next : Node \cup {NoNode}]]
Lists == Seq([name : Word, quant : Int])

NodesOf(c) == {c[i] : i \in 1 .. Len(c)}

(* c is what a walk from first meets.                                          *)
Linked(c, first, mem) ==
  /\ \A i, j \in 1 .. Len(c) : c[i] = c[j] => i = j
  /\ first = IF Len(c) = 0 THEN NoNode ELSE c[1]
  /\ \A i \in 1 .. Len(c) : mem[c[i]].next = IF i = Len(c) THEN NoNode ELSE c[i + 1]

Shows(c, mem, lines) ==
  /\ Len(lines) = Len(c)
  /\ \A i \in 1 .. Len(c) : lines[i].name = mem[c[i]].name /\ lines[i].quant = mem[c[i]].quant

(* The lists are chains of nodes, each living node in one of them.             *)
Chains(c) ==
  /\ \A l \in List : Linked(c[l], front[l], node) /\ Shows(c[l], node, held[l])
  /\ \A l, k \in List : l # k => NodesOf(c[l]) \cap NodesOf(c[k]) = {}
  /\ live = UNION {NodesOf(c[l]) : l \in List}

ListsType ==
  /\ front \in [List -> Node \cup {NoNode}] /\ node \in Memory /\ live \subseteq Node
  /\ held \in [List -> Lists]

ListsInv == ListsType /\ \E c \in [List -> Seq(Node)] : Chains(c)

(* A walk along a chain: where it stands and what it has seen.                 *)
Walks == [at : Node \cup {NoNode}, seen : Seq(Node)]

ChainSoFar(l, f) ==
  [n \in 0 .. K!Cardinality(Node) |-> IF n = 0 THEN [at |-> front[l], seen |-> << >>] ELSE K!Step(f[n - 1])]

LEMMA ChainRule ==
  ASSUME IsFiniteSet(Node), NEW l, front[l] \in Node \cup {NoNode}, node \in Memory
  PROVE  \E f \in [0 .. K!Cardinality(Node) -> Walks] :
           /\ f[0] = [at |-> front[l], seen |-> << >>] /\ K!Chain(l) = f[K!Cardinality(Node)].seen
           /\ \A i \in 1 .. K!Cardinality(Node) : f[i] = K!Step(f[i - 1])
<1> DEFINE N == K!Cardinality(Node)
           W == Walks
           first == [at |-> front[l], seen |-> << >>]
           Step(m, i) == K!Step(m)
           step == [x \in (1 .. N) \X W |-> Step(x[2], x[1])]
           F == CHOOSE f : f = ChainSoFar(l, f)
<1>1. N \in Nat /\ first \in W /\ \A i \in 1 .. N : \A m \in W : Step(m, i) \in W
  <2>1. ASSUME NEW m \in Walks PROVE K!Step(m) \in Walks
    <3>1. CASE m.at = NoNode
      BY <3>1 DEF K!Step
    <3>2. CASE m.at # NoNode
      <4>1. m.at \in Node /\ m.seen \in Seq(Node)
        BY <3>2 DEF Walks
      <4>2. node[m.at].next \in Node \cup {NoNode}
        BY <4>1 DEF Memory
      <4>3. Append(m.seen, m.at) \in Seq(Node)
        BY <4>1
      <4>4. K!Step(m) = [at |-> node[m.at].next, seen |-> Append(m.seen, m.at)]
        BY <3>2 DEF K!Step
      <4> QED BY <4>2, <4>3, <4>4 DEF Walks
    <3> QED BY <3>1, <3>2
  <2>2. [at |-> front[l], seen |-> << >>] \in Walks
    BY DEF Walks
  <2>3. K!Cardinality(Node) \in Nat
    <3>1. K!Cardinality(Node) = Cardinality(Node)
      BY DEF K!Cardinality, Cardinality
    <3> QED BY <3>1, FS_CardinalityType
  <2> QED BY <2>1, <2>2, <2>3
<1>2. K!Chain(l) = F[N].seen
  BY DEF K!Chain, ChainSoFar
<1>3. ASSUME NEW f PROVE ChainSoFar(l, f) = [n \in 0 .. N |-> IF n = 0 THEN first ELSE Step(f[n - 1], n)]
  BY DEF ChainSoFar
<1> HIDE DEF N, W, F, first, Step
<1>4. step \in [(1 .. N) \X W -> W] /\ \A i \in 1 .. N : \A m \in W : step[<< i, m >>] = Step(m, i)
  BY <1>1
<1> HIDE DEF step
<1>5. PICK g : Defined(g, N, W, first, step)
  BY <1>1, <1>4, Recursion, Zenon
<1>6. g = ChainSoFar(l, g)
  <2>1. g \in [0 .. N -> W] /\ g[0] = first /\ \A i \in 1 .. N : g[i] = step[<< i, g[i - 1] >>]
    BY <1>5 DEF Defined
  <2>2. \A i \in 1 .. N : g[i] = Step(g[i - 1], i)
    <3> TAKE i \in 1 .. N
    <3>1. i - 1 \in 0 .. N
      BY <1>1
    <3> QED BY <1>4, <2>1, <3>1
  <2>3. \A i \in 0 .. N : g[i] = IF i = 0 THEN first ELSE Step(g[i - 1], i)
    BY <1>1, <2>1, <2>2
  <2> DEFINE G == [n \in 0 .. N |-> IF n = 0 THEN first ELSE Step(g[n - 1], n)]
  <2>4. g = G
    BY <2>1, <2>3
  <2>5. ChainSoFar(l, g) = G
    BY <1>3
  <2> QED BY <2>4, <2>5
<1>7. F = ChainSoFar(l, F)
  BY <1>6 DEF F
<1> DEFINE R == [k \in 1 .. N |-> Step(F[k - 1], k)]
<1>8. F = [k \in 0 .. N |-> IF k = 0 THEN first ELSE R[k]]
  <2>1. \A k \in 0 .. N : k # 0 => k \in 1 .. N
    BY <1>1
  <2> QED BY <1>3, <1>7, <2>1
<1>9. \A k \in 1 .. N : F[k - 1] \in W => R[k] = step[<< k, F[k - 1] >>]
  BY <1>4
<1> HIDE DEF R
<1>10. Defined(F, N, W, first, step)
  BY <1>1, <1>4, <1>8, <1>9, RuleFollowed
<1>11. F \in [0 .. N -> W] /\ F[0] = first /\ \A i \in 1 .. N : F[i] = step[<< i, F[i - 1] >>]
  BY <1>10 DEF Defined
<1>12. \A i \in 1 .. N : F[i] = Step(F[i - 1], i)
  <2> TAKE i \in 1 .. N
  <2>1. i - 1 \in 0 .. N
    BY <1>1
  <2> QED BY <1>4, <1>11, <2>1
<1> QED BY <1>2, <1>11, <1>12 DEF N, W, first, Step

LEMMA NoLongerThanNodes ==
  ASSUME IsFiniteSet(Node), NEW c \in Seq(Node), \A i, j \in 1 .. Len(c) : c[i] = c[j] => i = j
  PROVE  Len(c) <= K!Cardinality(Node) /\ K!Cardinality(Node) \in Nat
<1>1. c \in Injection(1 .. Len(c), Node)
  BY DEF Injection, IsInjective
<1>2. Cardinality(1 .. Len(c)) <= Cardinality(Node)
  BY <1>1, FS_Injection
<1>3. Cardinality(1 .. Len(c)) = Len(c)
  BY FS_Interval
<1>4. K!Cardinality(Node) = Cardinality(Node)
  BY DEF K!Cardinality, Cardinality
<1> QED BY <1>2, <1>3, <1>4, FS_CardinalityType

(* A walk meets the nodes of its chain.                                        *)
LEMMA ChainIs ==
  ASSUME IsFiniteSet(Node), NoNode \notin Node, node \in Memory, NEW l, NEW c \in Seq(Node), Linked(c, front[l], node)
  PROVE  K!Chain(l) = c
<1> DEFINE N == K!Cardinality(Node)
           n == Len(c)
<1>1. n \in Nat /\ N \in Nat /\ n <= N
  BY NoLongerThanNodes DEF Linked
<1>2. front[l] \in Node \cup {NoNode}
  BY DEF Linked
<1>3. PICK f \in [0 .. N -> Walks] :
        /\ f[0] = [at |-> front[l], seen |-> << >>] /\ K!Chain(l) = f[N].seen
        /\ \A i \in 1 .. N : f[i] = K!Step(f[i - 1])
  BY <1>2, ChainRule
<1> DEFINE Far(k) == IF k <= n THEN k ELSE n
           Good(k) == /\ f[k].at = IF k < n THEN c[k + 1] ELSE NoNode
                      /\ Len(f[k].seen) = Far(k) /\ \A i \in 1 .. Far(k) : f[k].seen[i] = c[i]
           S == {k \in Nat : k <= N => Good(k)}
<1> HIDE DEF N
<1>4. 0 \in S
  <2>1. f[0].at = front[l] /\ f[0].seen = << >>
    BY <1>3
  <2>2. front[l] = IF 0 < n THEN c[1] ELSE NoNode
    BY <1>1 DEF Linked
  <2> QED BY <1>1, <2>1, <2>2
<1>5. ASSUME NEW k \in Nat, k \in S PROVE k + 1 \in S
  <2> SUFFICES ASSUME k + 1 <= N PROVE Good(k + 1)
    OBVIOUS
  <2> DEFINE w == f[k]
             v == f[k + 1]
  <2>1. k + 1 \in 1 .. N /\ k \in 0 .. N /\ (k + 1) - 1 = k /\ Good(k)
    BY <1>1, <1>5
  <2>2. w \in Walks /\ v = K!Step(w)
    BY <1>3, <2>1
  <2>3. /\ w.at = IF k < n THEN c[k + 1] ELSE NoNode
        /\ Len(w.seen) = Far(k) /\ \A i \in 1 .. Far(k) : w.seen[i] = c[i]
    BY <2>1
  <2> HIDE DEF w
  <2>4. CASE ~(k < n)
    <3>1. v = w
      BY <2>2, <2>3, <2>4 DEF K!Step
    <3>2. Far(k + 1) = Far(k) /\ ~(k + 1 < n)
      BY <1>1, <2>4
    <3> QED BY <2>3, <2>4, <3>1, <3>2
  <2>5. CASE k < n
    <3>1. w.at = c[k + 1] /\ k + 1 \in 1 .. n /\ c[k + 1] \in Node
      BY <1>1, <2>3, <2>5
    <3>2. v = [at |-> node[w.at].next, seen |-> Append(w.seen, w.at)]
      BY <2>2, <3>1 DEF K!Step
    <3>3. v.at = node[c[k + 1]].next /\ v.seen = Append(w.seen, c[k + 1])
      BY <3>1, <3>2
    <3>4. node[c[k + 1]].next = IF k + 1 = n THEN NoNode ELSE c[(k + 1) + 1]
      BY <3>1 DEF Linked
    <3>5. w.seen \in Seq(Node) /\ Len(w.seen) = k /\ Far(k + 1) = k + 1 /\ \A i \in 1 .. k : w.seen[i] = c[i]
      BY <1>1, <2>2, <2>3, <2>5 DEF Walks
    <3> DEFINE s == w.seen
               x == c[k + 1]
    <3>6. Len(v.seen) = k + 1 /\ \A i \in 1 .. k + 1 : v.seen[i] = c[i]
      <4>1. s \in Seq(Node) /\ Len(s) = k /\ x \in Node /\ v.seen = Append(s, x)
        BY <3>1, <3>3, <3>5
      <4> HIDE DEF s, v
      <4>2. Len(v.seen) = k + 1 /\ v.seen[k + 1] = x /\ \A i \in 1 .. k : v.seen[i] = s[i]
        <5> HIDE DEF x
        <5> QED BY <4>1
      <4>3. \A i \in 1 .. k + 1 : i \in 1 .. k \/ i = k + 1
        OBVIOUS
      <4> QED BY <3>5, <4>2, <4>3 DEF s
    <3>7. v.at = IF k + 1 < n THEN c[(k + 1) + 1] ELSE NoNode
      BY <1>1, <2>5, <3>3, <3>4
    <3> HIDE DEF v, Far
    <3> QED BY <3>5, <3>6, <3>7 DEF v
  <2> QED BY <2>4, <2>5
<1> HIDE DEF S, Good
<1>6. \A k \in Nat : k \in S
  BY <1>4, <1>5, Induction
<1>7. Good(N)
  BY <1>1, <1>6 DEF S
<1> DEFINE seen == f[N].seen
<1>8. seen \in Seq(Node)
  <2>1. N \in 0 .. N
    BY <1>1
  <2> QED BY <1>3, <2>1 DEF Walks
<1>9. Len(seen) = n /\ \A i \in 1 .. n : seen[i] = c[i]
  BY <1>1, <1>7 DEF Good
<1> HIDE DEF seen
<1>10. seen = [i \in 1 .. n |-> seen[i]] /\ c = [i \in 1 .. n |-> c[i]]
  BY <1>8, <1>9
<1>11. seen = c
  BY <1>9, <1>10
<1> QED BY <1>3, <1>11 DEF seen

(* A search stops in the list where it would in the lines.                     *)
LEMMA AtIs ==
  ASSUME NEW l, NEW name, NEW c \in Seq(Node), NEW lines \in Lists, K!Chain(l) = c, Shows(c, node, lines)
  PROVE  LET i == K!At(l, name)
         IN i = K!LineAt(lines, name) /\ (i = 0 \/ (i \in 1 .. Len(c) /\ node[c[i]].name = name /\ lines[i].name = name))
<1> DEFINE I == {i \in 1 .. Len(c) : node[c[i]].name = name}
<1>1. K!At(l, name) = IF I # {} THEN Min(I) ELSE 0
  BY DEF K!At, K!SelectInSeq, K!Min, Min
<1> DEFINE J == {i \in 1 .. Len(lines) : lines[i].name = name}
<1>2. K!LineAt(lines, name) = IF J # {} THEN Min(J) ELSE 0
  BY DEF K!LineAt, K!SelectInSeq, K!Min, Min
<1>3. I = J
  BY DEF Shows
<1>4. I \in SUBSET Nat
  OBVIOUS
<1>5. I # {} => Min(I) \in I
  <2> HIDE DEF I
  <2> QED BY <1>4, MinOfNaturals
<1>6. \A i \in I : i \in 1 .. Len(c) /\ node[c[i]].name = name /\ lines[i].name = name
  BY DEF Shows
<1> HIDE DEF I, J
<1> QED BY <1>1, <1>2, <1>3, <1>5, <1>6

LEMMA GetIs ==
  ASSUME NEW l, NEW c \in Seq(Node), NEW lines \in Lists, K!Chain(l) = c, Shows(c, node, lines)
  PROVE  K!get(l) = lines
<1>1. K!get(l) = [i \in 1 .. Len(c) |-> [name |-> node[c[i]].name, quant |-> node[c[i]].quant]]
  BY DEF K!get
<1>2. ASSUME NEW i \in 1 .. Len(c) PROVE lines[i] = [name |-> node[c[i]].name, quant |-> node[c[i]].quant]
  <2>1. i \in 1 .. Len(lines)
    BY DEF Shows
  <2> DEFINE R == [name : Word, quant : Int]
  <2>2. lines[i] \in R
    <3>1. lines \in Seq(R)
      BY DEF Lists
    <3> HIDE DEF R
    <3> QED BY <2>1, <3>1
  <2>3. lines[i].name = node[c[i]].name /\ lines[i].quant = node[c[i]].quant
    BY DEF Shows
  <2> QED BY <2>2, <2>3
<1>3. lines = [i \in 1 .. Len(c) |-> lines[i]]
  BY DEF Shows, Lists
<1> QED BY <1>1, <1>2, <1>3

LEMMA SearchIs ==
  ASSUME NEW l, NEW name, NEW c \in Seq(Node), NEW lines \in Lists, K!Chain(l) = c, Shows(c, node, lines)
  PROVE  K!search(l, name) = K!QuantIn(lines, name)
<1> DEFINE i == K!At(l, name)
<1>1. i = K!LineAt(lines, name) /\ (i = 0 \/ i \in 1 .. Len(c))
  BY AtIs
<1>2. K!search(l, name) = IF i = 0 THEN 0 ELSE node[c[i]].quant
  BY DEF K!search
<1> HIDE DEF i
<1>3. K!QuantIn(lines, name) = IF i = 0 THEN 0 ELSE lines[i].quant
  BY <1>1 DEF K!QuantIn
<1> QED BY <1>1, <1>2, <1>3 DEF Shows

LEMMA RangeIs == ASSUME NEW c \in Seq(Node) PROVE K!Range(c) = NodesOf(c)
BY DEF K!Range, NodesOf

LEMMA ChainsAre ==
  ASSUME K!ListsAssumption, ListsType, NEW c \in [List -> Seq(Node)], Chains(c)
  PROVE  \A l \in List : K!Chain(l) = c[l] /\ K!Range(K!Chain(l)) = NodesOf(c[l])
<1> SUFFICES ASSUME NEW l \in List PROVE K!Chain(l) = c[l] /\ K!Range(K!Chain(l)) = NodesOf(c[l])
  OBVIOUS
<1>1. IsFiniteSet(Node) /\ NoNode \notin Node
  BY DEF K!ListsAssumption, K!IsFiniteSet, IsFiniteSet
<1>2. c[l] \in Seq(Node) /\ Linked(c[l], front[l], node) /\ node \in Memory
  BY DEF Chains, ListsType
<1>3. K!Chain(l) = c[l]
  BY <1>1, <1>2, ChainIs
<1> QED BY <1>2, <1>3, RangeIs

LEMMA InvShowsLines == ASSUME K!ListsAssumption, ListsInv PROVE LinesHeld
<1>1. PICK c \in [List -> Seq(Node)] : Chains(c)
  BY DEF ListsInv
<1>2. \A l \in List : K!Chain(l) = c[l] /\ K!Range(K!Chain(l)) = NodesOf(c[l])
  BY <1>1, ChainsAre DEF ListsInv
<1>3. ASSUME NEW l \in List
      PROVE  /\ K!get(l) = held[l]
             /\ \A s \in K!Lines : LET q == K!QuantIn(held[l], s.name)
                                   IN K!search(l, s.name) = q /\ K!searchP(l, s) = IF q < s.quant THEN s.quant - q ELSE 0
  <2>1. c[l] \in Seq(Node) /\ held[l] \in Lists /\ K!Chain(l) = c[l] /\ Shows(c[l], node, held[l])
    BY <1>1, <1>2 DEF ListsInv, ListsType, Chains
  <2>2. \A name : K!search(l, name) = K!QuantIn(held[l], name)
    BY <2>1, SearchIs
  <2>3. K!get(l) = held[l]
    BY <2>1, GetIs
  <2> QED BY <2>2, <2>3 DEF K!searchP
<1>4. \A l, k \in List : l # k => K!Range(K!Chain(l)) \cap K!Range(K!Chain(k)) = {}
  BY <1>1, <1>2 DEF Chains
<1>5. live = UNION {K!Range(K!Chain(l)) : l \in List}
  BY <1>1, <1>2 DEF Chains
<1> QED BY <1>3, <1>4, <1>5 DEF LinesHeld, K!LinesHeld

(* One list is changed: d is its chain then, of nodes of its own or new ones,  *)
(* and no other node that lives is written.                                    *)
LEMMA OneListChanged ==
  ASSUME ListsType, NEW c \in [List -> Seq(Node)], Chains(c), NEW l \in List,
         NEW d \in Seq(Node), NEW lines \in Lists,
         front' \in [List -> Node \cup {NoNode}], node' \in Memory,
         \A k \in List : k # l => front'[k] = front[k],
         \A n \in live : n \notin NodesOf(c[l]) => node'[n] = node[n] /\ n \notin NodesOf(d),
         Linked(d, front'[l], node'), Shows(d, node', lines),
         live' = (live \ NodesOf(c[l])) \cup NodesOf(d),
         held' = [held EXCEPT ![l] = lines]
  PROVE  ListsInv'
<1> DEFINE e == [c EXCEPT ![l] = d]
<1>1. e \in [List -> Seq(Node)] /\ e[l] = d /\ \A k \in List : k # l => e[k] = c[k]
  OBVIOUS
<1> HIDE DEF e
<1>2. NodesOf(d) \subseteq Node /\ \A k \in List : NodesOf(c[k]) \subseteq live
  BY DEF NodesOf, Chains
<1>3. held' \in [List -> Lists] /\ held'[l] = lines /\ \A k \in List : k # l => held'[k] = held[k]
  BY DEF ListsType
<1>4. ListsType'
  BY <1>2, <1>3 DEF ListsType
<1>5. ASSUME NEW k \in List, k # l PROVE \A i \in 1 .. Len(c[k]) : node'[c[k][i]] = node[c[k][i]] /\ c[k][i] \notin NodesOf(d)
  <2> SUFFICES ASSUME NEW i \in 1 .. Len(c[k]) PROVE node'[c[k][i]] = node[c[k][i]] /\ c[k][i] \notin NodesOf(d)
    OBVIOUS
  <2>1. c[k][i] \in NodesOf(c[k])
    BY DEF NodesOf
  <2>2. c[k][i] \in live /\ c[k][i] \notin NodesOf(c[l])
    BY <1>2, <1>5, <2>1 DEF Chains
  <2> QED BY <2>2
<1>6. ASSUME NEW k \in List PROVE Linked(e[k], front'[k], node') /\ Shows(e[k], node', held'[k])
  <2>1. CASE k = l
    BY <1>1, <1>3, <2>1
  <2>2. CASE k # l
    <3>1. Linked(c[k], front[k], node) /\ Shows(c[k], node, held[k])
      BY DEF Chains
    <3>2. Linked(c[k], front[k], node') /\ Shows(c[k], node', held[k])
      BY <1>5, <2>2, <3>1 DEF Linked, Shows
    <3> QED BY <1>1, <1>3, <2>2, <3>2
  <2> QED BY <2>1, <2>2
<1>7. \A k, m \in List : k # m => NodesOf(e[k]) \cap NodesOf(e[m]) = {}
  <2> SUFFICES ASSUME NEW k \in List, NEW m \in List, k # m PROVE NodesOf(e[k]) \cap NodesOf(e[m]) = {}
    OBVIOUS
  <2>1. \A j \in List : j # l => NodesOf(c[j]) \cap NodesOf(d) = {}
    BY <1>5 DEF NodesOf
  <2>2. NodesOf(c[k]) \cap NodesOf(c[m]) = {}
    BY DEF Chains
  <2> QED BY <1>1, <2>1, <2>2
<1>8. live' = UNION {NodesOf(e[k]) : k \in List}
  <2>1. ASSUME NEW n \in live' PROVE \E k \in List : n \in NodesOf(e[k])
    <3>1. CASE n \in NodesOf(d)
      BY <1>1, <3>1
    <3>2. CASE n \in live /\ n \notin NodesOf(c[l])
      <4>1. PICK k \in List : n \in NodesOf(c[k])
        BY <3>2 DEF Chains
      <4>2. k # l
        BY <3>2, <4>1
      <4> QED BY <1>1, <4>1, <4>2
    <3> QED BY <2>1, <3>1, <3>2
  <2>2. ASSUME NEW k \in List, NEW n \in NodesOf(e[k]) PROVE n \in live'
    <3>1. CASE k = l
      BY <1>1, <3>1
    <3>2. CASE k # l
      <4>1. n \in NodesOf(c[k]) /\ n \notin NodesOf(c[l])
        BY <1>1, <3>2 DEF Chains
      <4> QED BY <1>2, <4>1
    <3> QED BY <3>1, <3>2
  <2> QED BY <2>1, <2>2
<1>9. Chains(e)'
  BY <1>6, <1>7, <1>8 DEF Chains
<1> QED BY <1>1, <1>4, <1>9 DEF ListsInv

(* The quantity of a node, and of its line, is changed.                        *)
LEMMA QuantChanged ==
  ASSUME ListsType, NEW c \in [List -> Seq(Node)], Chains(c), NEW l \in List, NEW i \in 1 .. Len(c[l]), NEW q \in Int,
         node' = [node EXCEPT ![c[l][i]].quant = q], front' = front, live' = live,
         held' = [held EXCEPT ![l] = [held[l] EXCEPT ![i].quant = q]]
  PROVE  ListsInv'
<1> DEFINE d == c[l]
           n == d[i]
           lines == [held[l] EXCEPT ![i].quant = q]
           R == [name : Word, quant : Int]
<1>1. d \in Seq(Node) /\ i \in 1 .. Len(d) /\ n \in Node /\ Linked(d, front[l], node) /\ Shows(d, node, held[l])
  BY DEF Chains
<1>2. node' \in Memory /\ node' = [node EXCEPT ![n] = [node[n] EXCEPT !.quant = q]]
  <2>1. node[n] \in [name : Word \cup {<< >>}, quant : Int, next : Node \cup {NoNode}]
    BY <1>1 DEF ListsType, Memory
  <2>2. [node[n] EXCEPT !.quant = q] \in [name : Word \cup {<< >>}, quant : Int, next : Node \cup {NoNode}]
    BY <2>1
  <2> HIDE DEF n
  <2>3. node' = [node EXCEPT ![n] = [node[n] EXCEPT !.quant = q]]
    BY DEF n
  <2> QED BY <1>1, <2>2, <2>3 DEF ListsType, Memory
<1>3. /\ \A m \in Node : m # n => node'[m] = node[m]
      /\ node'[n].name = node[n].name /\ node'[n].next = node[n].next /\ node'[n].quant = q
  <2> HIDE DEF n
  <2> QED BY <1>1, <1>2 DEF ListsType, Memory
<1>4. /\ lines \in Lists /\ Len(lines) = Len(d) /\ lines[i].name = held[l][i].name /\ lines[i].quant = q
      /\ \A j \in 1 .. Len(d) : j # i => lines[j] = held[l][j]
  <2> DEFINE old == held[l]
             r == [old[i] EXCEPT !.quant = q]
  <2>1. old \in Seq(R) /\ Len(old) = Len(d) /\ i \in 1 .. Len(old)
    BY <1>1 DEF Shows, ListsType, Lists
  <2>2. lines = [old EXCEPT ![i] = r]
    OBVIOUS
  <2>3. old[i] \in R
    <3> HIDE DEF R, old
    <3> QED BY <2>1
  <2>4. r \in R /\ r.name = old[i].name /\ r.quant = q
    BY <2>3
  <2> HIDE DEF lines, old, r, R, d
  <2>5. lines \in Seq(R) /\ Len(lines) = Len(old) /\ lines[i] = r /\ \A j \in 1 .. Len(old) : j # i => lines[j] = old[j]
    BY <2>1, <2>2, <2>4
  <2> QED BY <2>1, <2>4, <2>5 DEF Lists, R, old
<1>5. held' = [held EXCEPT ![l] = lines]
  OBVIOUS
<1> HIDE DEF lines, n
<1>6. Linked(d, front'[l], node') /\ Shows(d, node', lines)
  <2>1. \A j \in 1 .. Len(d) : d[j] \in Node /\ (j # i => d[j] # n) /\ d[i] = n
    BY <1>1 DEF Linked, n
  <2>2. Linked(d, front[l], node')
    BY <1>1, <1>3, <2>1 DEF Linked
  <2>3. Shows(d, node', lines)
    BY <1>1, <1>3, <1>4, <2>1 DEF Shows
  <2> QED BY <2>2, <2>3
<1>7. NodesOf(d) \subseteq live /\ n \in NodesOf(d)
  BY <1>1 DEF Chains, NodesOf, n
<1>8. live' = (live \ NodesOf(d)) \cup NodesOf(d)
  BY <1>7
<1>9. \A m \in live : m \notin NodesOf(d) => node'[m] = node[m] /\ m \notin NodesOf(d)
  BY <1>3, <1>7 DEF ListsType
<1>10. front' \in [List -> Node \cup {NoNode}] /\ \A k \in List : k # l => front'[k] = front[k]
  BY DEF ListsType
<1> QED BY <1>1, <1>2, <1>4, <1>5, <1>6, <1>8, <1>9, <1>10, OneListChanged

(* A node is put in front.                                                     *)
LEMMA PutInFront ==
  ASSUME ListsType, NoNode \notin Node, NEW c \in [List -> Seq(Node)], Chains(c), NEW l \in List,
         NEW s \in [name : Word, quant : Int], NEW n \in Node \ live,
         node' = [node EXCEPT ![n] = [name |-> s.name, quant |-> s.quant, next |-> front[l]]],
         front' = [front EXCEPT ![l] = n], live' = live \cup {n},
         held' = [held EXCEPT ![l] = << s >> \o held[l]]
  PROVE  ListsInv'
<1> DEFINE old == c[l]
           d == << n >> \o old
           lines == << s >> \o held[l]
           R == [name : Word, quant : Int]
<1>1. old \in Seq(Node) /\ Linked(old, front[l], node) /\ Shows(old, node, held[l])
  BY DEF Chains
<1>2. /\ d \in Seq(Node) /\ Len(d) = Len(old) + 1 /\ d[1] = n
      /\ \A j \in 2 .. Len(old) + 1 : d[j] = old[j - 1]
  <2> HIDE DEF old
  <2> QED BY <1>1
<1>3. /\ lines \in Lists /\ Len(lines) = Len(old) + 1 /\ lines[1] = s
      /\ \A j \in 2 .. Len(old) + 1 : lines[j] = held[l][j - 1]
  <2> DEFINE h == held[l]
  <2>1. h \in Seq(R) /\ Len(h) = Len(old) /\ s \in R /\ lines = << s >> \o h
    BY <1>1 DEF Shows, ListsType, Lists
  <2> HIDE DEF R, h, lines, old
  <2>2. /\ lines \in Seq(R) /\ Len(lines) = Len(h) + 1 /\ lines[1] = s
        /\ \A j \in 2 .. Len(h) + 1 : lines[j] = h[j - 1]
    BY <2>1
  <2> QED BY <2>1, <2>2 DEF Lists, R, h
<1>4. held' = [held EXCEPT ![l] = lines]
  OBVIOUS
<1>5. /\ node' \in Memory /\ node'[n].name = s.name /\ node'[n].quant = s.quant /\ node'[n].next = front[l]
      /\ \A m \in Node : m # n => node'[m] = node[m]
  BY DEF ListsType, Memory
<1>6. n \notin NodesOf(old) /\ NodesOf(old) \subseteq live
  BY DEF Chains
<1> HIDE DEF lines, d
<1>7. NodesOf(d) = NodesOf(old) \cup {n}
  <2>1. ASSUME NEW j \in 1 .. Len(d) PROVE d[j] \in NodesOf(old) \cup {n}
    <3>1. j = 1 \/ (j \in 2 .. Len(old) + 1 /\ j - 1 \in 1 .. Len(old))
      BY <1>1, <1>2
    <3> QED BY <1>2, <3>1 DEF NodesOf
  <2>2. ASSUME NEW j \in 1 .. Len(old) PROVE j + 1 \in 1 .. Len(d) /\ d[j + 1] = old[j]
    <3>1. Len(old) \in Nat
      BY <1>1
    <3> HIDE DEF old
    <3>2. j + 1 \in 2 .. Len(old) + 1 /\ j + 1 \in 1 .. Len(old) + 1 /\ (j + 1) - 1 = j
      BY <3>1
    <3>3. d[j + 1] = old[(j + 1) - 1]
      BY <1>2, <3>2
    <3> QED BY <1>2, <3>2, <3>3
  <2>3. 1 \in 1 .. Len(d)
    BY <1>1, <1>2
  <2>4. NodesOf(d) \subseteq NodesOf(old) \cup {n}
    BY <2>1 DEF NodesOf
  <2>5. n \in NodesOf(d)
    BY <1>2, <2>3 DEF NodesOf
  <2>6. NodesOf(old) \subseteq NodesOf(d)
    BY <2>2 DEF NodesOf
  <2> QED BY <2>4, <2>5, <2>6
<1>8. Linked(d, front'[l], node')
  <2>1. front'[l] = n /\ Len(d) # 0 /\ front'[l] = d[1]
    BY <1>1, <1>2 DEF ListsType
  <2>2. ASSUME NEW j \in 1 .. Len(d) PROVE node'[d[j]].next = IF j = Len(d) THEN NoNode ELSE d[j + 1]
    <3>1. CASE j = 1
      <4>1. front[l] = IF Len(old) = 0 THEN NoNode ELSE old[1]
        BY <1>1 DEF Linked
      <4>2. Len(old) # 0 => 2 \in 2 .. Len(old) + 1 /\ d[2] = old[1]
        <5>1. Len(old) \in Nat
          BY <1>1
        <5>2. Len(old) # 0 => 2 \in 2 .. Len(old) + 1 /\ 2 - 1 = 1
          BY <5>1
        <5> QED BY <1>2, <5>2
      <4> QED BY <1>1, <1>2, <1>5, <3>1, <4>1, <4>2
    <3>2. CASE j # 1
      <4>1. j \in 2 .. Len(old) + 1 /\ j - 1 \in 1 .. Len(old) /\ d[j] = old[j - 1]
        BY <1>1, <1>2, <3>2
      <4>2. d[j] \in NodesOf(old)
        BY <4>1 DEF NodesOf
      <4>3. node'[d[j]] = node[old[j - 1]]
        BY <1>1, <1>5, <1>6, <4>1, <4>2
      <4>4. node[old[j - 1]].next = IF j - 1 = Len(old) THEN NoNode ELSE old[(j - 1) + 1]
        BY <1>1, <4>1 DEF Linked
      <4>5. j # Len(d) => j + 1 \in 2 .. Len(old) + 1 /\ (j + 1) - 1 = (j - 1) + 1
        BY <1>1, <1>2, <4>1
      <4>6. j - 1 = Len(old) <=> j = Len(d)
        BY <1>1, <1>2, <4>1
      <4> QED BY <1>2, <4>3, <4>4, <4>5, <4>6
    <3> QED BY <3>1, <3>2
  <2>3. ASSUME NEW j \in 1 .. Len(d), NEW k \in 1 .. Len(d), d[j] = d[k] PROVE j = k
    <3>1. \A x \in 1 .. Len(d) : x = 1 \/ (x \in 2 .. Len(old) + 1 /\ x - 1 \in 1 .. Len(old) /\ d[x] = old[x - 1] /\ d[x] # n)
      <4> SUFFICES ASSUME NEW x \in 1 .. Len(d), x # 1
                   PROVE  x \in 2 .. Len(old) + 1 /\ x - 1 \in 1 .. Len(old) /\ d[x] = old[x - 1] /\ d[x] # n
        OBVIOUS
      <4>1. x \in 2 .. Len(old) + 1 /\ x - 1 \in 1 .. Len(old) /\ d[x] = old[x - 1]
        BY <1>1, <1>2
      <4> QED BY <1>6, <4>1 DEF NodesOf
    <3>2. CASE j = 1 \/ k = 1
      BY <1>2, <2>3, <3>1, <3>2
    <3>3. CASE j # 1 /\ k # 1
      <4>1. old[j - 1] = old[k - 1] /\ j - 1 \in 1 .. Len(old) /\ k - 1 \in 1 .. Len(old)
        BY <2>3, <3>1, <3>3
      <4>2. j - 1 = k - 1
        BY <1>1, <4>1 DEF Linked
      <4> QED BY <4>2
    <3> QED BY <3>2, <3>3
  <2> QED BY <2>1, <2>2, <2>3 DEF Linked
<1>9. Shows(d, node', lines)
  <2>1. ASSUME NEW j \in 1 .. Len(d) PROVE lines[j].name = node'[d[j]].name /\ lines[j].quant = node'[d[j]].quant
    <3>1. CASE j = 1
      BY <1>2, <1>3, <1>5, <3>1
    <3>2. CASE j # 1
      <4>1. j \in 2 .. Len(old) + 1 /\ j - 1 \in 1 .. Len(old) /\ d[j] = old[j - 1] /\ lines[j] = held[l][j - 1]
        BY <1>1, <1>2, <1>3, <3>2
      <4>2. d[j] # n /\ d[j] \in Node
        BY <1>1, <1>6, <4>1 DEF NodesOf
      <4> QED BY <1>1, <1>5, <4>1, <4>2 DEF Shows
    <3> QED BY <3>1, <3>2
  <2> QED BY <1>2, <1>3, <2>1 DEF Shows
<1>10. live' = (live \ NodesOf(old)) \cup NodesOf(d)
  BY <1>6, <1>7
<1>11. \A m \in live : m \notin NodesOf(old) => node'[m] = node[m] /\ m \notin NodesOf(d)
  BY <1>5, <1>7 DEF ListsType
<1>12. front' \in [List -> Node \cup {NoNode}] /\ \A k \in List : k # l => front'[k] = front[k]
  BY DEF ListsType
<1> QED BY <1>2, <1>3, <1>4, <1>5, <1>8, <1>9, <1>10, <1>11, <1>12, OneListChanged

(* The node at i is unlinked and deleted.                                      *)
LEMMA NodeTakenOut ==
  ASSUME ListsType, NoNode \notin Node, NEW c \in [List -> Seq(Node)], Chains(c), NEW l \in List, NEW i \in 1 .. Len(c[l]),
         K!Chain(l) = c[l], K!Unlink(l, i), held' = [held EXCEPT ![l] = K!RemoveAt(held[l], i)]
  PROVE  ListsInv'
<1> DEFINE old == c[l]
           n == old[i]
           m == Len(old)
           d == SubSeq(old, 1, i - 1) \o SubSeq(old, i + 1, Len(old))
           h == held[l]
           lines == SubSeq(h, 1, i - 1) \o SubSeq(h, i + 1, Len(h))
           R == [name : Word, quant : Int]
           Nodes == [name : Word \cup {<< >>}, quant : Int, next : Node \cup {NoNode}]
<1>1. old \in Seq(Node) /\ Linked(old, front[l], node) /\ Shows(old, node, h) /\ m \in Nat
  BY DEF Chains
<1>2. i \in 1 .. m /\ i \in Nat /\ 1 <= i /\ i <= i + 1 /\ i <= m /\ i - (i - 1) = 1 /\ n \in Node
  BY <1>1
<1>3. d \in Seq(Node) /\ Len(d) = m - 1 /\ \A j \in 1 .. Len(d) : d[j] = IF j < i THEN old[j] ELSE old[j + 1]
  <2> HIDE DEF old
  <2>1. d \in Seq(Node) /\ Len(d) = Len(old) - (i - (i - 1)) /\ \A j \in 1 .. Len(d) : d[j] = IF j < i THEN old[j] ELSE old[j + (i - (i - 1))]
    BY <1>1, <1>2, CutOut
  <2> HIDE DEF d
  <2> QED BY <1>1, <1>2, <2>1
<1>4. lines \in Lists /\ Len(lines) = m - 1 /\ \A j \in 1 .. Len(lines) : lines[j] = IF j < i THEN h[j] ELSE h[j + 1]
  <2>1. h \in Seq(R) /\ Len(h) = m
    BY <1>1 DEF Shows, ListsType, Lists
  <2> HIDE DEF h, R, m
  <2>2. lines \in Seq(R) /\ Len(lines) = Len(h) - (i - (i - 1)) /\ \A j \in 1 .. Len(lines) : lines[j] = IF j < i THEN h[j] ELSE h[j + (i - (i - 1))]
    BY <1>2, <2>1, CutOut
  <2> HIDE DEF lines
  <2> QED BY <1>2, <2>1, <2>2 DEF Lists, R
<1>5. held' = [held EXCEPT ![l] = lines]
  BY DEF K!RemoveAt
<1>6. /\ front' = IF i = 1 THEN [front EXCEPT ![l] = node[n].next] ELSE front
      /\ node' = IF i = 1 THEN [node EXCEPT ![n] = K!Unused]
                 ELSE [[node EXCEPT ![old[i - 1]].next = node[n].next] EXCEPT ![n] = K!Unused]
      /\ live' = live \ {n}
  BY DEF K!Unlink
<1>7. node[n] \in Nodes /\ K!Unused \in Nodes /\ node \in [Node -> Nodes]
  <2>1. K!Unused \in Nodes
    BY DEF K!Unused
  <2> QED BY <1>2, <2>1 DEF ListsType, Memory
<1>8. ASSUME i # 1
      PROVE  /\ old[i - 1] \in Node /\ old[i - 1] # n /\ i - 1 \in 1 .. m
             /\ [node[old[i - 1]] EXCEPT !.next = node[n].next] \in Nodes
  <2>1. i - 1 \in 1 .. m /\ old[i - 1] \in Node /\ old[i - 1] # n
    BY <1>1, <1>2, <1>8 DEF Linked
  <2>2. node[old[i - 1]] \in Nodes /\ node[n].next \in Node \cup {NoNode}
    BY <1>7, <2>1
  <2> QED BY <2>1, <2>2
<1> DEFINE p == old[i - 1]
<1> HIDE DEF n, d, lines, h, Nodes, p
<1>9. /\ node' \in [Node -> Nodes]
      /\ \A x \in Node : x # n => node'[x] = IF i # 1 /\ x = p THEN [node[x] EXCEPT !.next = node[n].next] ELSE node[x]
  <2>1. CASE i = 1
    BY <1>2, <1>6, <1>7, <2>1
  <2>2. CASE i # 1
    <3>1. p \in Node /\ p # n /\ [node[p] EXCEPT !.next = node[n].next] \in Nodes
      BY <1>8, <2>2 DEF p
    <3>2. node' = [[node EXCEPT ![p] = [node[p] EXCEPT !.next = node[n].next]] EXCEPT ![n] = K!Unused]
      BY <1>6, <2>2 DEF p
    <3> QED BY <1>2, <1>7, <2>2, <3>1, <3>2
  <2> QED BY <2>1, <2>2
<1>10. ASSUME NEW x \in Node, x # n
       PROVE  /\ node'[x].name = node[x].name /\ node'[x].quant = node[x].quant
              /\ node'[x].next = IF i # 1 /\ x = p THEN node[n].next ELSE node[x].next
  <2>1. node[x] \in Nodes
    BY <1>7
  <2>2. node'[x] = IF i # 1 /\ x = p THEN [node[x] EXCEPT !.next = node[n].next] ELSE node[x]
    BY <1>9, <1>10
  <2> QED BY <2>1, <2>2 DEF Nodes
<1>11. node' \in Memory
  BY <1>9 DEF Memory, Nodes
<1> DEFINE Was(j) == IF j < i THEN j ELSE j + 1
<1>12. ASSUME NEW j \in 1 .. Len(d)
       PROVE  Was(j) \in 1 .. m /\ Was(j) # i /\ d[j] = old[Was(j)] /\ lines[j] = h[Was(j)] /\ d[j] \in Node /\ d[j] # n
  <2>1. Was(j) \in 1 .. m /\ Was(j) # i /\ d[j] = old[Was(j)] /\ lines[j] = h[Was(j)]
    BY <1>1, <1>2, <1>3, <1>4
  <2>2. old[Was(j)] # old[i]
    BY <1>1, <1>2, <2>1 DEF Linked
  <2> HIDE DEF Was
  <2> QED BY <1>1, <2>1, <2>2 DEF n
<1>13. ASSUME NEW j \in 1 .. m PROVE old[j] = p => i = 1 \/ j = i - 1
  <2>1. CASE i # 1
    BY <1>1, <1>8, <2>1 DEF Linked, p
  <2> QED BY <2>1
<1>14. \A j \in 1 .. m : node[old[j]].next = IF j = m THEN NoNode ELSE old[j + 1]
  BY <1>1 DEF Linked
<1>15. Linked(d, front'[l], node')
  <2>1. front'[l] = IF Len(d) = 0 THEN NoNode ELSE d[1]
    <3>1. CASE i = 1
      <4>1. front'[l] = node[n].next
        BY <1>6, <3>1 DEF ListsType
      <4>2. node[n].next = IF 1 = m THEN NoNode ELSE old[2]
        <5>1. node[n].next = IF i = m THEN NoNode ELSE old[i + 1]
          BY <1>2, <1>14 DEF n
        <5>2. i + 1 = 2
          BY <3>1
        <5> QED BY <3>1, <5>1, <5>2
      <4>3. Len(d) # 0 => d[1] = old[2]
        BY <1>1, <1>3, <3>1
      <4> QED BY <1>1, <1>3, <4>1, <4>2, <4>3
    <3>2. CASE i # 1
      <4>1. front'[l] = old[1]
        BY <1>1, <1>2, <1>6, <3>2 DEF Linked
      <4>2. Len(d) # 0 /\ 1 \in 1 .. Len(d) /\ d[1] = old[1]
        BY <1>1, <1>2, <1>3, <3>2
      <4> QED BY <4>1, <4>2
    <3> QED BY <3>1, <3>2
  <2>2. ASSUME NEW j \in 1 .. Len(d) PROVE node'[d[j]].next = IF j = Len(d) THEN NoNode ELSE d[j + 1]
    <3> DEFINE k == Was(j)
    <3>1. k \in 1 .. m /\ d[j] = old[k] /\ d[j] \in Node /\ d[j] # n
      BY <1>12
    <3>2. node'[d[j]].next = IF i # 1 /\ d[j] = p THEN node[n].next ELSE node[old[k]].next
      BY <1>10, <3>1
    <3>3. CASE i # 1 /\ j = i - 1
      <4>1. d[j] = p
        BY <1>2, <3>1, <3>3 DEF p
      <4>2. node[n].next = IF i = m THEN NoNode ELSE old[i + 1]
        BY <1>2, <1>14 DEF n
      <4>3. j = Len(d) <=> i = m
        BY <1>1, <1>2, <1>3, <3>3
      <4>4. j # Len(d) => d[j + 1] = old[i + 1]
        <5>1. j # Len(d) => j + 1 \in 1 .. Len(d) /\ j + 1 = i
          BY <1>1, <1>2, <1>3, <3>3
        <5>2. j # Len(d) => ~(j + 1 < i)
          BY <1>2, <5>1
        <5>3. j # Len(d) => d[j + 1] = old[(j + 1) + 1]
          BY <1>3, <5>1, <5>2
        <5> QED BY <5>1, <5>3
      <4> QED BY <3>2, <3>3, <4>1, <4>2, <4>3, <4>4
    <3>4. CASE i = 1 \/ j # i - 1
      <4>1. ~(i # 1 /\ d[j] = p)
        BY <1>2, <1>13, <3>1, <3>4
      <4>2. node'[d[j]].next = IF k = m THEN NoNode ELSE old[k + 1]
        BY <1>14, <3>1, <3>2, <4>1
      <4>3. (k = m <=> j = Len(d)) /\ (j # Len(d) => d[j + 1] = old[k + 1])
        <5>1. CASE j < i
          <6>1. j + 1 < i /\ j + 1 \in 1 .. Len(d) /\ k = j
            BY <1>1, <1>2, <1>3, <3>4, <5>1
          <6> QED BY <1>1, <1>2, <1>3, <6>1
        <5>2. CASE ~(j < i)
          <6>1. k = j + 1 /\ (k = m <=> j = Len(d))
            BY <1>1, <1>2, <1>3, <5>2
          <6>2. j # Len(d) => j + 1 \in 1 .. Len(d) /\ ~(j + 1 < i)
            BY <1>1, <1>2, <1>3, <5>2
          <6> QED BY <1>3, <6>1, <6>2
        <5> QED BY <5>1, <5>2
      <4> QED BY <4>2, <4>3
    <3> QED BY <3>3, <3>4
  <2>3. ASSUME NEW j \in 1 .. Len(d), NEW k \in 1 .. Len(d), d[j] = d[k] PROVE j = k
    <3>1. Was(j) \in 1 .. m /\ Was(k) \in 1 .. m /\ old[Was(j)] = old[Was(k)]
      BY <1>12, <2>3
    <3>2. Was(j) = Was(k)
      BY <1>1, <3>1 DEF Linked
    <3> QED BY <1>2, <3>2
  <2> QED BY <2>1, <2>2, <2>3 DEF Linked
<1>16. Shows(d, node', lines)
  <2>1. ASSUME NEW j \in 1 .. Len(d) PROVE lines[j].name = node'[d[j]].name /\ lines[j].quant = node'[d[j]].quant
    <3>1. Was(j) \in 1 .. m /\ d[j] = old[Was(j)] /\ lines[j] = h[Was(j)] /\ d[j] \in Node /\ d[j] # n
      BY <1>12
    <3> HIDE DEF Was
    <3>2. h[Was(j)].name = node[old[Was(j)]].name /\ h[Was(j)].quant = node[old[Was(j)]].quant
      BY <1>1, <3>1 DEF Shows
    <3> QED BY <1>10, <3>1, <3>2
  <2> QED BY <1>3, <1>4, <2>1 DEF Shows
<1>17. NodesOf(d) = NodesOf(old) \ {n}
  <2>1. NodesOf(d) \subseteq NodesOf(old) \ {n}
    BY <1>12 DEF NodesOf
  <2>2. ASSUME NEW k \in 1 .. m, old[k] # n PROVE \E j \in 1 .. Len(d) : d[j] = old[k]
    <3> DEFINE j == IF k < i THEN k ELSE k - 1
    <3>1. k # i
      BY <2>2 DEF n
    <3>2. j \in 1 .. Len(d) /\ d[j] = old[k]
      BY <1>1, <1>2, <1>3, <3>1
    <3> HIDE DEF j
    <3> QED BY <3>2
  <2> QED BY <2>1, <2>2 DEF NodesOf
<1>18. n \in NodesOf(old) /\ NodesOf(old) \subseteq live
  BY <1>1, <1>2 DEF Chains, NodesOf, n
<1>19. live' = (live \ NodesOf(old)) \cup NodesOf(d)
  BY <1>6, <1>17, <1>18
<1>20. \A x \in live : x \notin NodesOf(old) => node'[x] = node[x] /\ x \notin NodesOf(d)
  <2> SUFFICES ASSUME NEW x \in live, x \notin NodesOf(old) PROVE node'[x] = node[x] /\ x \notin NodesOf(d)
    OBVIOUS
  <2>1. x \in Node /\ x # n
    BY <1>18 DEF ListsType
  <2>2. i # 1 => x # p
    BY <1>8 DEF NodesOf, p
  <2> QED BY <1>9, <1>17, <2>1, <2>2
<1>21. front' \in [List -> Node \cup {NoNode}] /\ \A k \in List : k # l => front'[k] = front[k]
  <2>1. node[n].next \in Node \cup {NoNode}
    BY <1>7 DEF Nodes
  <2> QED BY <1>6, <2>1 DEF ListsType
<1> HIDE DEF Was
<1> QED BY <1>3, <1>4, <1>5, <1>11, <1>15, <1>16, <1>19, <1>20, <1>21, OneListChanged

(* A list becomes the copy of another in new nodes.                            *)
LEMMA CopyMade ==
  ASSUME ListsType, NoNode \notin Node, NEW c \in [List -> Seq(Node)], Chains(c), NEW l \in List, NEW from \in List,
         K!Chain(l) = c[l], K!get(from) = held[from], K!deepCopy(l, from),
         held' = [held EXCEPT ![l] = held[from]]
  PROVE  ListsInv'
<1> DEFINE L == K!get(from)
           R == [name : Word, quant : Int]
           Nodes == [name : Word \cup {<< >>}, quant : Int, next : Node \cup {NoNode}]
           old == c[l]
           m == Len(L)
<1>1. L \in Seq(R) /\ m \in Nat /\ DOMAIN L = 1 .. m /\ L \in Lists
  <2>1. L \in Seq(R) /\ L \in Lists
    BY DEF ListsType, Lists
  <2> HIDE DEF L
  <2> QED BY <2>1
<1>2. K!Range(K!Chain(l)) = NodesOf(old)
  BY RangeIs
<1>3. PICK copy \in [DOMAIN L -> Node \ K!Living(l)] :
        /\ K!IsInjective(copy)
        /\ live' = K!Living(l) \cup K!Range(copy)
        /\ front' = [front EXCEPT ![l] = IF L = << >> THEN NoNode ELSE copy[1]]
        /\ node' = [x \in Node |-> IF x \in K!Range(copy) THEN K!CopyOf(L, copy, x) ELSE K!deleteList(l)[x]]
  BY DEF K!deepCopy
<1>4. K!Living(l) = live \ NodesOf(old)
  BY <1>2 DEF K!Living
<1>5. copy \in Seq(Node) /\ Len(copy) = m /\ copy \in [1 .. m -> Node]
  <2>1. copy \in [DOMAIN L -> Node] /\ DOMAIN L = 1 .. m /\ m \in Nat
    BY <1>1, <1>3
  <2> HIDE DEF L, m
  <2>2. copy \in [1 .. m -> Node]
    BY <2>1
  <2> QED BY <2>1, <2>2, SMTT(30)
<1>6. K!Range(copy) = NodesOf(copy) /\ NodesOf(copy) \subseteq Node \ K!Living(l)
  <2> DEFINE Free == Node \ K!Living(l)
  <2>1. DOMAIN copy = 1 .. m /\ Len(copy) = m
    BY <1>5
  <2>2. copy \in [DOMAIN copy -> Free]
    BY <1>3
  <2> HIDE DEF Free, L, m
  <2>3. \A j \in 1 .. m : copy[j] \in Free
    BY <2>1, <2>2
  <2>4. K!Range(copy) = NodesOf(copy)
    BY <2>1 DEF K!Range, NodesOf
  <2>5. NodesOf(copy) \subseteq Free
    BY <2>1, <2>3 DEF NodesOf
  <2> QED BY <2>4, <2>5 DEF Free
<1>7. \A i, j \in 1 .. m : copy[i] = copy[j] => i = j
  BY <1>3, <1>5 DEF K!IsInjective
<1> HIDE DEF L, R, m
<1>8. ASSUME NEW j \in 1 .. m
      PROVE  node'[copy[j]] = [name |-> L[j].name, quant |-> L[j].quant, next |-> IF j = m THEN NoNode ELSE copy[j + 1]]
  <2> DEFINE x == copy[j]
             i == CHOOSE k \in DOMAIN L : copy[k] = x
  <2>1. x \in Node /\ x \in K!Range(copy)
    BY <1>5, <1>6 DEF NodesOf
  <2>2. i = j
    <3>1. i \in 1 .. m /\ copy[i] = x
      BY <1>1
    <3> HIDE DEF i
    <3> QED BY <1>7, <3>1
  <2>3. node'[x] = K!CopyOf(L, copy, x)
    BY <1>3, <2>1
  <2>4. K!CopyOf(L, copy, x) = [name |-> L[i].name, quant |-> L[i].quant, next |-> IF i = Len(L) THEN NoNode ELSE copy[i + 1]]
    BY DEF K!CopyOf
  <2> HIDE DEF i, x
  <2>5. node'[x] = [name |-> L[j].name, quant |-> L[j].quant, next |-> IF j = m THEN NoNode ELSE copy[j + 1]]
    BY <2>2, <2>3, <2>4 DEF m
  <2> QED BY <2>5 DEF x
<1>9. ASSUME NEW x \in Node, x \notin NodesOf(copy)
      PROVE  node'[x] = IF x \in NodesOf(old) THEN K!Unused ELSE node[x]
  BY <1>2, <1>3, <1>6, <1>9 DEF K!deleteList
<1>10. node' \in Memory
  <2>1. DOMAIN node' = Node /\ node' = [x \in Node |-> node'[x]]
    BY <1>3
  <2>2. ASSUME NEW x \in Node PROVE node'[x] \in Nodes
    <3>1. CASE x \in NodesOf(copy)
      <4>1. PICK j \in 1 .. m : x = copy[j]
        BY <1>5, <3>1 DEF NodesOf
      <4>2. L[j] \in R
        BY <1>1
      <4>3. j # m => j + 1 \in 1 .. m
        BY <1>1
      <4>4. (IF j = m THEN NoNode ELSE copy[j + 1]) \in Node \cup {NoNode}
        BY <1>5, <4>3
      <4>5. node'[x] = [name |-> L[j].name, quant |-> L[j].quant, next |-> IF j = m THEN NoNode ELSE copy[j + 1]]
        BY <1>8, <4>1
      <4>6. L[j].name \in Word /\ L[j].quant \in Int
        BY <4>2 DEF R
      <4> QED BY <4>4, <4>5, <4>6
    <3>2. CASE x \notin NodesOf(copy)
      <4>1. K!Unused \in Nodes
        BY DEF K!Unused
      <4> QED BY <1>9, <3>2, <4>1 DEF ListsType, Memory
    <3> QED BY <3>1, <3>2
  <2> HIDE DEF Nodes
  <2>3. node' \in [Node -> Nodes]
    BY <2>1, <2>2
  <2> QED BY <2>3 DEF Memory, Nodes
<1>11. Linked(copy, front'[l], node')
  <2>1. front'[l] = IF Len(copy) = 0 THEN NoNode ELSE copy[1]
    <3>1. L = << >> <=> m = 0
      BY <1>1 DEF m
    <3> QED BY <1>3, <1>5, <3>1 DEF ListsType
  <2>2. \A j \in 1 .. m : node'[copy[j]].next = IF j = m THEN NoNode ELSE copy[j + 1]
    <3> TAKE j \in 1 .. m
    <3>1. node'[copy[j]] = [name |-> L[j].name, quant |-> L[j].quant, next |-> IF j = m THEN NoNode ELSE copy[j + 1]]
      BY <1>8
    <3> QED BY <3>1
  <2> QED BY <1>5, <1>7, <2>1, <2>2 DEF Linked
<1>12. Shows(copy, node', L)
  <2>1. \A j \in 1 .. m : L[j].name = node'[copy[j]].name /\ L[j].quant = node'[copy[j]].quant
    <3> TAKE j \in 1 .. m
    <3>1. node'[copy[j]] = [name |-> L[j].name, quant |-> L[j].quant, next |-> IF j = m THEN NoNode ELSE copy[j + 1]]
      BY <1>8
    <3> QED BY <3>1
  <2> QED BY <1>5, <2>1 DEF Shows, m
<1>13. live' = (live \ NodesOf(old)) \cup NodesOf(copy)
  BY <1>3, <1>4, <1>6
<1>14. \A x \in live : x \notin NodesOf(old) => node'[x] = node[x] /\ x \notin NodesOf(copy)
  BY <1>4, <1>6, <1>9 DEF ListsType
<1>15. front' \in [List -> Node \cup {NoNode}] /\ \A k \in List : k # l => front'[k] = front[k]
  <2>1. L # << >> => copy[1] \in Node
    <3>1. L # << >> => 1 \in 1 .. m
      BY <1>1 DEF m
    <3> QED BY <1>5, <3>1
  <2> QED BY <1>3, <2>1 DEF ListsType
<1>16. held' = [held EXCEPT ![l] = L]
  BY DEF L
<1> QED BY <1>1, <1>5, <1>10, <1>11, <1>12, <1>13, <1>14, <1>15, <1>16, OneListChanged

LEMMA ListDestroyed ==
  ASSUME ListsType, NEW c \in [List -> Seq(Node)], Chains(c), NEW l \in List,
         K!Chain(l) = c[l], live' = K!Living(l), front' = [front EXCEPT ![l] = NoNode], node' = K!deleteList(l),
         held' = [held EXCEPT ![l] = << >>]
  PROVE  ListsInv'
<1>1. K!Range(K!Chain(l)) = NodesOf(c[l])
  BY RangeIs
<1>2. << >> \in Seq(Node) /\ << >> \in Lists /\ Len(<< >>) = 0 /\ NodesOf(<< >>) = {}
  BY DEF Lists, NodesOf
<1>3. node' = [x \in Node |-> IF x \in NodesOf(c[l]) THEN K!Unused ELSE node[x]]
  BY <1>1 DEF K!deleteList
<1>4. node' \in Memory
  <2> DEFINE Nodes == [name : Word \cup {<< >>}, quant : Int, next : Node \cup {NoNode}]
  <2>1. K!Unused \in Nodes /\ node \in [Node -> Nodes]
    BY DEF K!Unused, ListsType, Memory
  <2> HIDE DEF Nodes
  <2>2. node' \in [Node -> Nodes]
    BY <1>3, <2>1
  <2> QED BY <2>2 DEF Memory, Nodes
<1>5. Linked(<< >>, front'[l], node') /\ Shows(<< >>, node', << >>)
  BY <1>2 DEF Linked, Shows, ListsType
<1>6. live' = (live \ NodesOf(c[l])) \cup NodesOf(<< >>)
  BY <1>1, <1>2 DEF K!Living
<1>7. \A x \in live : x \notin NodesOf(c[l]) => node'[x] = node[x] /\ x \notin NodesOf(<< >>)
  BY <1>2, <1>3 DEF ListsType
<1>8. front' \in [List -> Node \cup {NoNode}] /\ \A k \in List : k # l => front'[k] = front[k]
  BY DEF ListsType
<1> QED BY <1>2, <1>4, <1>5, <1>6, <1>7, <1>8, OneListChanged

LEMMA ListsInitInv == ASSUME K!ListsAssumption PROVE K!Init => ListsInv
<1> SUFFICES ASSUME K!Init PROVE ListsInv
  OBVIOUS
<1> DEFINE c == [l \in List |-> << >>]
<1>1. /\ front = [l \in List |-> NoNode] /\ node = [n \in Node |-> K!Unused] /\ live = {}
      /\ held = [l \in List |-> << >>]
  BY DEF K!Init
<1>2. << >> \in Seq(Node) /\ << >> \in Lists /\ Len(<< >>) = 0 /\ NodesOf(<< >>) = {}
  BY DEF Lists, NodesOf
<1>3. c \in [List -> Seq(Node)] /\ \A l \in List : c[l] = << >>
  BY <1>2
<1> HIDE DEF c
<1>4. ListsType
  <2> DEFINE Nodes == [name : Word \cup {<< >>}, quant : Int, next : Node \cup {NoNode}]
  <2>1. K!Unused \in Nodes
    BY DEF K!Unused
  <2> HIDE DEF Nodes
  <2>2. node \in [Node -> Nodes]
    BY <1>1, <2>1
  <2> QED BY <1>1, <1>2, <2>2 DEF ListsType, Memory, Nodes
<1>5. Chains(c)
  <2>1. \A l \in List : Linked(c[l], front[l], node) /\ Shows(c[l], node, held[l])
    BY <1>1, <1>2, <1>3 DEF Linked, Shows
  <2> QED BY <1>1, <1>2, <1>3, <2>1 DEF Chains
<1> QED BY <1>3, <1>4, <1>5 DEF ListsInv

LEMMA ListsNextInv ==
  ASSUME K!ListsAssumption, ListsInv, [K!Next]_(K!vars)
  PROVE  ListsInv'
<1>1. NoNode \notin Node /\ Quants \subseteq Int
  BY DEF K!ListsAssumption
<1>2. PICK c \in [List -> Seq(Node)] : Chains(c)
  BY DEF ListsInv
<1>3. \A l \in List : /\ K!Chain(l) = c[l] /\ c[l] \in Seq(Node) /\ held[l] \in Lists /\ Shows(c[l], node, held[l])
                      /\ K!get(l) = held[l]
  <2>1. \A l \in List : K!Chain(l) = c[l]
    BY <1>2, ChainsAre DEF ListsInv
  <2>2. ASSUME NEW l \in List PROVE c[l] \in Seq(Node) /\ held[l] \in Lists /\ Shows(c[l], node, held[l])
    BY <1>2 DEF ListsInv, ListsType, Chains
  <2>3. ASSUME NEW l \in List PROVE K!get(l) = held[l]
    BY <2>1, <2>2, GetIs
  <2> QED BY <2>1, <2>2, <2>3
<1>4. ListsType
  BY DEF ListsInv
<1>5. ASSUME UNCHANGED << front, node, live, held >> PROVE ListsInv'
  <2>1. ListsType' /\ Chains(c)'
    BY <1>2, <1>4, <1>5 DEF ListsType, Chains
  <2> QED BY <2>1 DEF ListsInv
<1>6. ASSUME NEW l \in List, held' = [held EXCEPT ![l] = held[l]] PROVE held' = held
  BY <1>4, <1>6 DEF ListsType
<1>7. ASSUME NEW l \in List, NEW s \in K!Lines
      PROVE  LET i == K!At(l, s.name)
             IN /\ s \in [name : Word, quant : Int]
                /\ i = K!LineAt(held[l], s.name)
                /\ i # 0 => i \in 1 .. Len(c[l]) /\ held[l][i].quant = node[c[l][i]].quant /\ node[c[l][i]].quant \in Int
  <2> DEFINE i == K!At(l, s.name)
  <2>1. s \in [name : Word, quant : Int]
    BY <1>1 DEF K!Lines
  <2>2. i = K!LineAt(held[l], s.name) /\ (i = 0 \/ i \in 1 .. Len(c[l]))
    <3>1. c[l] \in Seq(Node) /\ held[l] \in Lists /\ K!Chain(l) = c[l] /\ Shows(c[l], node, held[l])
      BY <1>3
    <3> HIDE DEF i
    <3>2. LET k == K!At(l, s.name)
          IN k = K!LineAt(held[l], s.name)
             /\ (k = 0 \/ (k \in 1 .. Len(c[l]) /\ node[c[l][k]].name = s.name /\ held[l][k].name = s.name))
      BY <3>1, AtIs, ZenonT(40)
    <3> QED BY <3>2 DEF i
  <2> HIDE DEF i
  <2>3. ASSUME i # 0 PROVE i \in 1 .. Len(c[l]) /\ held[l][i].quant = node[c[l][i]].quant /\ node[c[l][i]].quant \in Int
    <3>1. i \in 1 .. Len(c[l]) /\ held[l][i].quant = node[c[l][i]].quant
      BY <1>3, <2>2, <2>3 DEF Shows
    <3>2. c[l][i] \in Node
      BY <1>3, <3>1
    <3> QED BY <1>4, <3>1, <3>2 DEF ListsType, Memory
  <2> QED BY <2>1, <2>2, <2>3 DEF i
<1>8. ASSUME NEW l \in List, NEW s \in K!Lines, K!Insert(l, s) PROVE ListsInv'
  <2> DEFINE i == K!At(l, s.name)
             q == node[c[l][i]].quant + s.quant
  <2>1. /\ s \in [name : Word, quant : Int] /\ i = K!LineAt(held[l], s.name)
        /\ i # 0 => i \in 1 .. Len(c[l]) /\ held[l][i].quant = node[c[l][i]].quant /\ node[c[l][i]].quant \in Int
    BY <1>7
  <2>2. K!insert(l, s) /\ held' = [held EXCEPT ![l] = IF i = 0 THEN << s >> \o held[l] ELSE [held[l] EXCEPT ![i].quant = @ + s.quant]]
    BY <1>8, <2>1 DEF K!Insert, K!Holds
  <2>3. IF i # 0
        THEN node' = [node EXCEPT ![c[l][i]].quant = @ + s.quant] /\ UNCHANGED << front, live >>
        ELSE \E n \in Node \ live :
               /\ live' = live \cup {n} /\ front' = [front EXCEPT ![l] = n]
               /\ node' = [node EXCEPT ![n] = [name |-> s.name, quant |-> s.quant, next |-> front[l]]]
    BY <1>3, <2>2 DEF K!insert
  <2> HIDE DEF i
  <2>4. CASE i = 0
    BY <1>1, <1>2, <1>4, <2>1, <2>2, <2>3, <2>4, PutInFront
  <2>5. CASE i # 0
    <3>1. q \in Int /\ i \in 1 .. Len(c[l]) /\ held[l][i].quant + s.quant = q
      BY <2>1, <2>5
    <3>2. /\ node' = [node EXCEPT ![c[l][i]].quant = q] /\ front' = front /\ live' = live
          /\ held' = [held EXCEPT ![l] = [held[l] EXCEPT ![i].quant = q]]
      BY <2>2, <2>3, <2>5, <3>1
    <3> HIDE DEF q
    <3> QED BY <1>2, <1>4, <3>1, <3>2, QuantChanged
  <2> QED BY <2>4, <2>5
<1>9. ASSUME NEW l \in List, NEW s \in K!Lines, K!Removepart(l, s) PROVE ListsInv'
  <2> DEFINE i == K!At(l, s.name)
             q == node[c[l][i]].quant - s.quant
  <2>1. /\ s \in [name : Word, quant : Int] /\ i = K!LineAt(held[l], s.name)
        /\ i # 0 => i \in 1 .. Len(c[l]) /\ held[l][i].quant = node[c[l][i]].quant /\ node[c[l][i]].quant \in Int
    BY <1>7
  <2>2. /\ K!removepart(l, s)
        /\ held' = [held EXCEPT ![l] = IF i = 0 \/ held[l][i].quant < s.quant THEN held[l]
                                       ELSE IF held[l][i].quant = s.quant THEN K!RemoveAt(held[l], i)
                                       ELSE [held[l] EXCEPT ![i].quant = @ - s.quant]]
    BY <1>9, <2>1 DEF K!Removepart, K!Holds
  <2>3. K!Removal(l, s) = IF i = 0 THEN "none"
                          ELSE IF node[c[l][i]].quant < s.quant THEN "too few"
                          ELSE IF node[c[l][i]].quant = s.quant THEN "unlinked" ELSE "less"
    BY <1>3 DEF K!Removal
  <2>4. /\ K!Removal(l, s) = "unlinked" => K!Unlink(l, i)
        /\ K!Removal(l, s) = "less" => node' = [node EXCEPT ![c[l][i]].quant = @ - s.quant] /\ UNCHANGED << front, live >>
        /\ K!Removal(l, s) \in {"none", "too few"} => UNCHANGED << front, node, live >>
    BY <1>3, <2>2, <2>3 DEF K!removepart
  <2> HIDE DEF i
  <2>5. CASE i = 0 \/ node[c[l][i]].quant < s.quant
    <3>1. held' = [held EXCEPT ![l] = held[l]] /\ UNCHANGED << front, node, live >>
      BY <2>1, <2>2, <2>3, <2>4, <2>5
    <3> QED BY <1>5, <1>6, <3>1
  <2>6. CASE i # 0 /\ ~(node[c[l][i]].quant < s.quant) /\ node[c[l][i]].quant = s.quant
    <3>1. i \in 1 .. Len(c[l]) /\ K!Unlink(l, i) /\ held' = [held EXCEPT ![l] = K!RemoveAt(held[l], i)]
      BY <2>1, <2>2, <2>3, <2>4, <2>6
    <3> QED BY <1>1, <1>2, <1>3, <1>4, <3>1, NodeTakenOut
  <2>7. CASE i # 0 /\ ~(node[c[l][i]].quant < s.quant) /\ node[c[l][i]].quant # s.quant
    <3>1. q \in Int /\ i \in 1 .. Len(c[l]) /\ held[l][i].quant - s.quant = q /\ K!Removal(l, s) = "less"
      BY <2>1, <2>3, <2>7
    <3>2. /\ node' = [node EXCEPT ![c[l][i]].quant = q] /\ front' = front /\ live' = live
          /\ held' = [held EXCEPT ![l] = [held[l] EXCEPT ![i].quant = q]]
      BY <2>1, <2>2, <2>4, <2>7, <3>1
    <3> HIDE DEF q
    <3> QED BY <1>2, <1>4, <3>1, <3>2, QuantChanged
  <2> QED BY <2>5, <2>6, <2>7
<1>10. ASSUME NEW l \in List, NEW s \in K!Lines, K!RemoveLine(l, s) PROVE ListsInv'
  <2> DEFINE i == K!At(l, s.name)
  <2>1. i = K!LineAt(held[l], s.name) /\ (i # 0 => i \in 1 .. Len(c[l]))
    BY <1>7
  <2>2. /\ IF i # 0 THEN K!Unlink(l, i) ELSE UNCHANGED << front, node, live >>
        /\ held' = [held EXCEPT ![l] = IF i # 0 THEN K!RemoveAt(held[l], i) ELSE held[l]]
    BY <1>10, <2>1 DEF K!RemoveLine, K!Holds
  <2> HIDE DEF i
  <2>3. CASE i = 0
    BY <1>5, <1>6, <2>2, <2>3
  <2>4. CASE i # 0
    BY <1>1, <1>2, <1>3, <1>4, <2>1, <2>2, <2>4, NodeTakenOut
  <2> QED BY <2>3, <2>4
<1>11. ASSUME NEW l \in List, NEW from \in List, K!Assign(l, from) PROVE ListsInv'
  <2>1. /\ held' = [held EXCEPT ![l] = held[from]]
        /\ IF l = from THEN UNCHANGED << front, node, live >> ELSE K!deepCopy(l, from)
    BY <1>11 DEF K!Assign, K!Holds
  <2>2. CASE l = from
    BY <1>5, <1>6, <2>1, <2>2
  <2>3. CASE l # from
    BY <1>1, <1>2, <1>3, <1>4, <2>1, <2>3, CopyMade
  <2> QED BY <2>2, <2>3
<1>12. ASSUME NEW l \in List, K!Destroy(l) PROVE ListsInv'
  BY <1>2, <1>3, <1>4, <1>12, ListDestroyed DEF K!Destroy, K!Holds
<1>13. UNCHANGED K!vars => UNCHANGED << front, node, live, held >>
  BY DEF K!vars
<1> QED BY <1>5, <1>8, <1>9, <1>10, <1>11, <1>12, <1>13 DEF K!Next

(* Whatever is inserted, removed, copied and destroyed, in whatever nodes new  *)
(* gives, every list holds the lines it should, and no node is in two lists,   *)
(* is reached after its delete, or is lost.                                    *)
THEOREM WarehouseLinesHeld == K!Spec => []LinesHeld
<1>1. K!ListsAssumption
  BY LinesAssumption
<1>2. K!Init => ListsInv
  BY <1>1, ListsInitInv
<1>3. ListsInv /\ [K!Next]_(K!vars) => ListsInv'
  BY <1>1, ListsNextInv
<1>4. ListsInv => LinesHeld
  BY <1>1, InvShowsLines
<1> QED BY <1>2, <1>3, <1>4, PTL DEF K!Spec

-------------------------------------------------------------------------------
(* Menshikh_DA's tree of recipes. *)
(* A set of nodes that has what hangs below them, and the trees: what is in one. *)
Grove(A) ==
  \A s \in A : \/ s = M!NULL
               \/ /\ s.data \in Int /\ s.height \in Nat /\ s.left \in A /\ s.right \in A
                  /\ s = M!NodeOf(s.data, s.card, s.left, s.right)

IsTree(t) == \E A : Grove(A) /\ t \in A

LEMMA NodeParts ==
  ASSUME NEW d, NEW c, NEW l, NEW r
  PROVE  LET s == M!NodeOf(d, c, l, r) IN
         /\ s.data = d /\ s.card = c /\ s.left = l /\ s.right = r
         /\ s.height = (IF l.height > r.height THEN l.height ELSE r.height) + 1
BY DEF M!NodeOf, M!Larger

LEMMA GroveHeights ==
  ASSUME NEW A, Grove(A), NEW s \in A
  PROVE  /\ s.height \in Int /\ s.height >= -1
         /\ s = M!NULL => s.height = -1
         /\ s # M!NULL => /\ s.height \in Nat /\ s.data \in Int /\ s.left \in A /\ s.right \in A
                          /\ s = M!NodeOf(s.data, s.card, s.left, s.right)
                          /\ s.left.height \in Int /\ s.left.height < s.height
                          /\ s.right.height \in Int /\ s.right.height < s.height
                          /\ \/ s.height = s.left.height + 1 \/ s.height = s.right.height + 1
<1>0. M!NULL.height = -1
  BY DEF M!NULL
<1>1. \A u \in A : u.height \in Int /\ u.height >= -1
  BY <1>0 DEF Grove
<1>2. ASSUME s # M!NULL
      PROVE  /\ s.height \in Nat /\ s.data \in Int /\ s.left \in A /\ s.right \in A
             /\ s = M!NodeOf(s.data, s.card, s.left, s.right)
  BY <1>2 DEF Grove
<1>3. ASSUME s # M!NULL
      PROVE  s.height = (IF s.left.height > s.right.height THEN s.left.height ELSE s.right.height) + 1
  <2> DEFINE n == M!NodeOf(s.data, s.card, s.left, s.right)
  <2>1. n.height = (IF s.left.height > s.right.height THEN s.left.height ELSE s.right.height) + 1
    BY NodeParts
  <2>2. n = s
    BY <1>2, <1>3
  <2> HIDE DEF n
  <2> QED BY <2>1, <2>2
<1> QED BY <1>0, <1>1, <1>2, <1>3

(* What holds of the empty tree, and of a node when of those below, holds of all. *)
LEMMA TreeInduction ==
  ASSUME NEW A, Grove(A), NEW G, M!NULL \in A => M!NULL \in G,
         \A s \in A : s # M!NULL /\ s.left \in G /\ s.right \in G => s \in G
  PROVE  \A s \in A : s \in G
<1> DEFINE S == {n \in Nat : \A s \in A : s.height < n => s \in G}
<1>1. 0 \in S
  <2>1. ASSUME NEW s \in A, s.height < 0 PROVE s \in G
    <3>1. s = M!NULL
      BY GroveHeights, <2>1
    <3> QED BY <3>1
  <2> QED BY <2>1
<1>2. ASSUME NEW n \in Nat, n \in S PROVE n + 1 \in S
  <2>1. ASSUME NEW s \in A, s.height < n + 1, s # M!NULL PROVE s \in G
    <3>1. /\ s.height \in Nat /\ s.left \in A /\ s.right \in A
          /\ s.left.height \in Int /\ s.left.height < s.height
          /\ s.right.height \in Int /\ s.right.height < s.height
      BY GroveHeights, <2>1
    <3>2. s.left.height < n /\ s.right.height < n
      BY <2>1, <3>1
    <3>3. s.left \in G /\ s.right \in G
      BY <1>2, <3>1, <3>2
    <3> QED BY <2>1, <3>3
  <2> QED BY <2>1
<1> HIDE DEF S
<1>3. \A n \in Nat : n \in S
  BY <1>1, <1>2, Induction
<1>4. ASSUME NEW s \in A PROVE s \in G
  <2>1. s.height \in Int /\ s.height >= -1
    BY GroveHeights
  <2>2. s.height + 1 \in S /\ s.height < s.height + 1
    BY <1>3, <2>1
  <2> QED BY <2>2 DEF S
<1> QED BY <1>4

LEMMA GroveUnion ==
  ASSUME NEW A, NEW B, Grove(A), Grove(B)
  PROVE  Grove(A \cup B) /\ Grove(A \cap B)
BY DEF Grove

LEMMA NullTree == IsTree(M!NULL)
<1>1. Grove({M!NULL})
  BY DEF Grove
<1> QED BY <1>1 DEF IsTree

LEMMA TreeParts ==
  ASSUME NEW s, IsTree(s)
  PROVE  /\ s.height \in Int /\ s.height >= -1
         /\ s = M!NULL => s.height = -1
         /\ s # M!NULL => /\ s.height \in Nat /\ s.data \in Int /\ IsTree(s.left) /\ IsTree(s.right)
                          /\ s = M!NodeOf(s.data, s.card, s.left, s.right)
                          /\ s.left.height \in Int /\ s.left.height < s.height
                          /\ s.right.height \in Int /\ s.right.height < s.height
                          /\ \/ s.height = s.left.height + 1 \/ s.height = s.right.height + 1
<1>1. PICK A : Grove(A) /\ s \in A
  BY DEF IsTree
<1>2. s # M!NULL => IsTree(s.left) /\ IsTree(s.right)
  BY <1>1, GroveHeights DEF IsTree
<1> QED BY <1>1, <1>2, GroveHeights

LEMMA NodeTree ==
  ASSUME NEW d \in Int, NEW c, NEW l, NEW r, IsTree(l), IsTree(r)
  PROVE  LET s == M!NodeOf(d, c, l, r) IN
         /\ IsTree(s) /\ s # M!NULL /\ s.data = d /\ s.card = c /\ s.left = l /\ s.right = r
         /\ s.height = (IF l.height > r.height THEN l.height ELSE r.height) + 1
<1> DEFINE s == M!NodeOf(d, c, l, r)
<1>1. PICK A : Grove(A) /\ l \in A
  BY DEF IsTree
<1>2. PICK B : Grove(B) /\ r \in B
  BY DEF IsTree
<1>3. Grove(A \cup B)
  BY <1>1, <1>2, GroveUnion
<1>4. /\ s.data = d /\ s.card = c /\ s.left = l /\ s.right = r
      /\ s.height = (IF l.height > r.height THEN l.height ELSE r.height) + 1
  BY NodeParts
<1>5. s = M!NodeOf(s.data, s.card, s.left, s.right)
  BY <1>4
<1> HIDE DEF s
<1>6. l.height \in Int /\ r.height \in Int /\ l.height >= -1 /\ r.height >= -1
  BY TreeParts
<1>7. s.height \in Nat
  BY <1>4, <1>6
<1>8. Grove((A \cup B) \cup {s})
  BY <1>1, <1>2, <1>3, <1>4, <1>5, <1>7 DEF Grove
<1>9. IsTree(s)
  BY <1>8 DEF IsTree
<1>10. s # M!NULL
  BY <1>7 DEF M!NULL
<1> QED BY <1>4, <1>9, <1>10 DEF s

-------------------------------------------------------------------------------
(* The nodes that a recursion of AvlTree goes down to. *)
LevelSoFar(t, f) ==
  [n \in 0 .. t.height + 1 |->
     IF n = 0 THEN {t} ELSE UNION {{s.left, s.right} : s \in f[n - 1] \ {M!NULL}}]

Levels(f, t, A) ==
  /\ f \in [0 .. t.height + 1 -> SUBSET A]
  /\ M!NodesBelow(t) = UNION {f[n] : n \in 0 .. t.height + 1}
  /\ f[0] = {t}
  /\ \A n \in 1 .. t.height + 1 : f[n] = UNION {{s.left, s.right} : s \in f[n - 1] \ {M!NULL}}

LEMMA LevelRule ==
  ASSUME NEW A, Grove(A), NEW t \in A
  PROVE  \E f : Levels(f, t, A)
<1> DEFINE N == t.height + 1
           W == SUBSET A
           first == {t}
           Step(m, n) == UNION {{s.left, s.right} : s \in m \ {M!NULL}}
           step == [x \in (1 .. N) \X W |-> Step(x[2], x[1])]
           F == CHOOSE f : f = LevelSoFar(t, f)
<1>1. N \in Nat /\ first \in W /\ \A m \in W : \A i \in 1 .. N : Step(m, i) \in W
  <2>1. t.height \in Int /\ t.height >= -1
    BY GroveHeights
  <2>2. ASSUME NEW m \in W, NEW i \in 1 .. N PROVE Step(m, i) \in W
    <3>1. \A s \in m \ {M!NULL} : s.left \in A /\ s.right \in A
      BY GroveHeights
    <3> QED BY <3>1
  <2> QED BY <2>1, <2>2
<1>2. M!NodesBelow(t) = UNION {F[n] : n \in 0 .. N}
  BY DEF M!NodesBelow, LevelSoFar
<1>3. ASSUME NEW f PROVE LevelSoFar(t, f) = [n \in 0 .. N |-> IF n = 0 THEN first ELSE Step(f[n - 1], n)]
  BY DEF LevelSoFar
<1> HIDE DEF N, W, F, first, Step
<1>4. step \in [(1 .. N) \X W -> W] /\ \A i \in 1 .. N : \A m \in W : step[<< i, m >>] = Step(m, i)
  BY <1>1
<1> HIDE DEF step
<1>5. PICK g : Defined(g, N, W, first, step)
  BY <1>1, <1>4, Recursion, Zenon
<1>6. g = LevelSoFar(t, g)
  <2>1. g \in [0 .. N -> W] /\ g[0] = first /\ \A i \in 1 .. N : g[i] = step[<< i, g[i - 1] >>]
    BY <1>5 DEF Defined
  <2>2. \A i \in 1 .. N : g[i] = Step(g[i - 1], i)
    <3> TAKE i \in 1 .. N
    <3>1. i - 1 \in 0 .. N
      BY <1>1
    <3> QED BY <1>4, <2>1, <3>1
  <2>3. \A i \in 0 .. N : g[i] = IF i = 0 THEN first ELSE Step(g[i - 1], i)
    BY <1>1, <2>1, <2>2
  <2> DEFINE G == [n \in 0 .. N |-> IF n = 0 THEN first ELSE Step(g[n - 1], n)]
  <2>4. g = G
    BY <2>1, <2>3
  <2>5. LevelSoFar(t, g) = G
    BY <1>3
  <2> QED BY <2>4, <2>5
<1>7. F = LevelSoFar(t, F)
  BY <1>6 DEF F
<1> DEFINE R == [k \in 1 .. N |-> Step(F[k - 1], k)]
<1>8. F = [k \in 0 .. N |-> IF k = 0 THEN first ELSE R[k]]
  <2>1. \A k \in 0 .. N : k # 0 => k \in 1 .. N
    BY <1>1
  <2> QED BY <1>3, <1>7, <2>1
<1>9. \A k \in 1 .. N : F[k - 1] \in W => R[k] = step[<< k, F[k - 1] >>]
  BY <1>4
<1> HIDE DEF R
<1>10. Defined(F, N, W, first, step)
  BY <1>1, <1>4, <1>8, <1>9, RuleFollowed
<1>11. F \in [0 .. N -> W] /\ F[0] = first /\ \A i \in 1 .. N : F[i] = step[<< i, F[i - 1] >>]
  BY <1>10 DEF Defined
<1>12. \A i \in 1 .. N : F[i] = Step(F[i - 1], i)
  <2> TAKE i \in 1 .. N
  <2>1. i - 1 \in 0 .. N
    BY <1>1
  <2> QED BY <1>4, <1>11, <2>1
<1> QED BY <1>2, <1>11, <1>12 DEF Levels, N, W, first, Step


(* The nodes below a tree are a grove, and none is higher than the tree.       *)
LEMMA NodesOfTree ==
  ASSUME NEW t, IsTree(t)
  PROVE  /\ Grove(M!NodesBelow(t)) /\ t \in M!NodesBelow(t)
         /\ \A s \in M!NodesBelow(t) : s.height <= t.height
<1>1. PICK A : Grove(A) /\ t \in A
  BY DEF IsTree
<1>0. PICK f : Levels(f, t, A)
  BY <1>1, LevelRule
<1> DEFINE h == t.height
           B == M!NodesBelow(t)
<1>2. h \in Int /\ h + 1 \in Nat
  BY <1>1, GroveHeights
<1>3. /\ f \in [0 .. h + 1 -> SUBSET A]
      /\ B = UNION {f[n] : n \in 0 .. h + 1}
      /\ f[0] = {t}
      /\ \A n \in 1 .. h + 1 : f[n] = UNION {{s.left, s.right} : s \in f[n - 1] \ {M!NULL}}
  BY <1>0 DEF Levels
<1> HIDE DEF B
<1>4. ASSUME NEW n \in 0 .. h + 1, n + 1 \in 0 .. h + 1
      PROVE  f[n + 1] = UNION {{s.left, s.right} : s \in f[n] \ {M!NULL}}
  <2>1. n + 1 \in 1 .. h + 1 /\ (n + 1) - 1 = n
    BY <1>2, <1>4
  <2> QED BY <1>3, <2>1
<1> DEFINE S == {n \in Nat : n <= h + 1 => \A s \in f[n] : s.height <= h - n}
<1>5. 0 \in S
  BY <1>2, <1>3
<1>6. ASSUME NEW n \in Nat, n \in S PROVE n + 1 \in S
  <2> SUFFICES ASSUME n + 1 <= h + 1, NEW s \in f[n + 1] PROVE s.height <= h - (n + 1)
    BY DEF S
  <2>1. n \in 0 .. h + 1 /\ n + 1 \in 0 .. h + 1
    BY <1>2
  <2>2. PICK u \in f[n] \ {M!NULL} : s \in {u.left, u.right}
    BY <1>4, <2>1
  <2>3. u \in A /\ u.height <= h - n
    BY <1>3, <1>6, <2>1, <1>2
  <2>4. /\ u.height \in Nat
        /\ u.left.height \in Int /\ u.left.height < u.height
        /\ u.right.height \in Int /\ u.right.height < u.height
    BY <1>1, <2>2, <2>3, GroveHeights
  <2>5. s.height \in Int /\ s.height < u.height
    BY <2>2, <2>4
  <2> QED BY <1>2, <2>3, <2>4, <2>5
<1>7. \A n \in 0 .. h + 1 : \A s \in f[n] : s.height <= h - n
  <2>1. \A n \in Nat : n \in S
    <3> HIDE DEF S
    <3> QED BY <1>5, <1>6, Induction
  <2> QED BY <2>1
<1> HIDE DEF S
<1>8. \A s \in B : \E n \in 0 .. h + 1 : s \in f[n]
  BY <1>3
<1>9. \A n \in 0 .. h + 1 : \A s \in f[n] : s \in B /\ s \in A
  BY <1>3
<1>10. ASSUME NEW s \in B, s # M!NULL PROVE s.left \in B /\ s.right \in B
  <2>1. PICK n \in 0 .. h + 1 : s \in f[n]
    BY <1>8
  <2>2. s.height \in Nat /\ s.height <= h - n
    BY <1>1, <1>7, <1>9, <1>10, <2>1, GroveHeights
  <2>3. n + 1 \in 0 .. h + 1
    BY <1>2, <2>1, <2>2
  <2>4. s.left \in f[n + 1] /\ s.right \in f[n + 1]
    BY <1>4, <1>10, <2>1, <2>3
  <2> QED BY <1>9, <2>3, <2>4
<1>11. B \subseteq A
  BY <1>8, <1>9
<1>12. Grove(B)
  BY <1>1, <1>10, <1>11 DEF Grove
<1>13. t \in B
  BY <1>2, <1>3, <1>9
<1>14. ASSUME NEW s \in B PROVE s.height <= h
  <2>1. PICK n \in 0 .. h + 1 : s \in f[n]
    BY <1>8
  <2>2. s.height \in Int /\ s.height <= h - n
    BY <1>1, <1>7, <1>9, <2>1, GroveHeights
  <2> QED BY <1>2, <2>1, <2>2
<1> QED BY <1>12, <1>13, <1>14 DEF B

-------------------------------------------------------------------------------
(* What each recursion computes of a node, from what it computes of the two below it: such a
   function exists, two of them agree where both are defined, and the operator is its value. *)
SearchRule(A, x, f) ==
  [s \in A |-> IF s = M!NULL \/ x = s.data THEN s ELSE IF x < s.data THEN f[s.left] ELSE f[s.right]]

LEMMA SearchExists ==
  ASSUME NEW x, NEW A, Grove(A), NEW h \in Nat, \A s \in A : s.height < h
  PROVE  \E f : f = SearchRule(A, x, f)
<1> DEFINE low(n) == {s \in A : s.height < n}
           S == {n \in Nat : \E f : f = SearchRule(low(n), x, f)}
<1>1. 0 \in S
  <2>1. \A s \in low(0) : s = M!NULL
    BY GroveHeights
  <2> DEFINE g == SearchRule(low(0), x, << >>)
  <2>2. g = SearchRule(low(0), x, g)
    BY <2>1 DEF SearchRule
  <2> QED BY <2>2
<1>2. ASSUME NEW n \in Nat, n \in S PROVE n + 1 \in S
  <2>1. PICK f : f = SearchRule(low(n), x, f)
    BY <1>2
  <2> DEFINE g == SearchRule(low(n + 1), x, f)
  <2>2. ASSUME NEW u \in low(n) PROVE g[u] = f[u]
    <3>1. u \in low(n + 1)
      BY GroveHeights
    <3>2. SearchRule(low(n), x, f)[u] = SearchRule(low(n + 1), x, f)[u]
      BY <3>1, Zenon DEF SearchRule
    <3> QED BY <2>1, <3>2, Zenon
  <2>3. ASSUME NEW s \in low(n + 1), s # M!NULL PROVE g[s.left] = f[s.left] /\ g[s.right] = f[s.right]
    <3>1. s.left \in low(n) /\ s.right \in low(n)
      BY <2>3, GroveHeights
    <3> HIDE DEF g, low
    <3> QED BY <2>2, <3>1
  <2> HIDE DEF low
  <2>4. SearchRule(low(n + 1), x, f) = SearchRule(low(n + 1), x, g)
    <3> HIDE DEF g
    <3> QED BY <2>3 DEF SearchRule
  <2>5. g = SearchRule(low(n + 1), x, g)
    BY <2>4, Zenon
  <2> HIDE DEF g
  <2> QED BY <2>5
<1>3. h \in S
  <2> HIDE DEF S
  <2> QED BY <1>1, <1>2, Induction
<1>4. low(h) = A
  OBVIOUS
<1> HIDE DEF low
<1> QED BY <1>3, <1>4

LEMMA SearchUnique ==
  ASSUME NEW x, NEW A, Grove(A), NEW B, Grove(B), NEW f, f = SearchRule(A, x, f), NEW g, g = SearchRule(B, x, g)
  PROVE  \A s \in A \cap B : f[s] = g[s]
<1> DEFINE G == {s \in A \cap B : f[s] = g[s]}
<1>1. \A s \in A \cap B : f[s] = SearchRule(A, x, f)[s] /\ g[s] = SearchRule(B, x, g)[s]
  BY Zenon
<1>2. M!NULL \in A \cap B => M!NULL \in G
  BY <1>1 DEF SearchRule
<1>3. ASSUME NEW s \in A \cap B, s # M!NULL, s.left \in G, s.right \in G PROVE s \in G
  <2>1. f[s.left] = g[s.left] /\ f[s.right] = g[s.right]
    BY <1>3
  <2> HIDE DEF G
  <2>2. SearchRule(A, x, f)[s] = SearchRule(B, x, g)[s]
    BY <1>3, <2>1 DEF SearchRule
  <2> QED BY <1>1, <2>2 DEF G
<1> HIDE DEF G
<1>4. \A s \in A \cap B : s \in G
  BY <1>2, <1>3, GroveUnion, TreeInduction
<1> QED BY <1>4 DEF G

LEMMA SearchOfNodes ==
  ASSUME NEW x, NEW t, IsTree(t)
  PROVE  \E f : f = SearchRule(M!NodesBelow(t), x, f) /\ M!searchh(x, t) = f[t]
<1> DEFINE B == M!NodesBelow(t)
           F == CHOOSE f : f = SearchRule(B, x, f)
<1>1. M!searchh(x, t) = F[t]
  BY DEF M!searchh, SearchRule
<1> HIDE DEF F
<1>2. Grove(B) /\ t \in B /\ (\A s \in B : s.height <= t.height) /\ t.height \in Int /\ t.height >= -1
  BY NodesOfTree, TreeParts
<1> HIDE DEF B
<1>3. t.height + 1 \in Nat /\ \A s \in B : s.height < t.height + 1
  BY <1>2, GroveHeights
<1>4. \E f : f = SearchRule(B, x, f)
  BY <1>2, <1>3, SearchExists
<1>5. F = SearchRule(B, x, F)
  BY <1>4 DEF F
<1> QED BY <1>1, <1>5 DEF B

LEMMA SearchOf ==
  ASSUME NEW x, NEW t, IsTree(t)
  PROVE  /\ t = M!NULL => M!searchh(x, t) = M!NULL
         /\ t # M!NULL => M!searchh(x, t) = (IF x = t.data THEN t ELSE IF x < t.data THEN M!searchh(x, t.left) ELSE M!searchh(x, t.right))
<1> DEFINE B == M!NodesBelow(t)
<1>1. PICK f : f = SearchRule(B, x, f) /\ M!searchh(x, t) = f[t]
  BY SearchOfNodes
<1>2. Grove(B) /\ t \in B
  BY NodesOfTree
<1>3. M!searchh(x, t) = SearchRule(B, x, f)[t]
  BY <1>1, Zenon
<1> HIDE DEF B
<1>4. ASSUME NEW u \in B, IsTree(u) PROVE M!searchh(x, u) = f[u]
  <2>1. PICK g : g = SearchRule(M!NodesBelow(u), x, g) /\ M!searchh(x, u) = g[u]
    BY <1>4, SearchOfNodes
  <2>2. Grove(M!NodesBelow(u)) /\ u \in M!NodesBelow(u)
    BY <1>4, NodesOfTree
  <2>3. f = SearchRule(B, x, f)
    BY <1>1, Zenon
  <2>4. u \in B \cap M!NodesBelow(u)
    BY <2>2
  <2>5. f[u] = g[u]
    BY <1>2, <2>1, <2>2, <2>3, <2>4, SearchUnique
  <2> QED BY <2>1, <2>5
<1>5. t # M!NULL => /\ M!searchh(x, t.left) = f[t.left] /\ M!searchh(x, t.right) = f[t.right]
  BY <1>2, <1>4, TreeParts, GroveHeights
<1> QED BY <1>2, <1>3, <1>5 DEF SearchRule

FindminRule(A, f) ==
  [s \in A |-> IF s = M!NULL \/ s.left = M!NULL THEN s ELSE f[s.left]]

LEMMA FindminExists ==
  ASSUME NEW A, Grove(A), NEW h \in Nat, \A s \in A : s.height < h
  PROVE  \E f : f = FindminRule(A, f)
<1> DEFINE low(n) == {s \in A : s.height < n}
           S == {n \in Nat : \E f : f = FindminRule(low(n), f)}
<1>1. 0 \in S
  <2>1. \A s \in low(0) : s = M!NULL
    BY GroveHeights
  <2> DEFINE g == FindminRule(low(0), << >>)
  <2>2. g = FindminRule(low(0), g)
    BY <2>1 DEF FindminRule
  <2> QED BY <2>2
<1>2. ASSUME NEW n \in Nat, n \in S PROVE n + 1 \in S
  <2>1. PICK f : f = FindminRule(low(n), f)
    BY <1>2
  <2> DEFINE g == FindminRule(low(n + 1), f)
  <2>2. ASSUME NEW u \in low(n) PROVE g[u] = f[u]
    <3>1. u \in low(n + 1)
      BY GroveHeights
    <3>2. FindminRule(low(n), f)[u] = FindminRule(low(n + 1), f)[u]
      BY <3>1, Zenon DEF FindminRule
    <3> QED BY <2>1, <3>2, Zenon
  <2>3. ASSUME NEW s \in low(n + 1), s # M!NULL PROVE g[s.left] = f[s.left] /\ g[s.right] = f[s.right]
    <3>1. s.left \in low(n) /\ s.right \in low(n)
      BY <2>3, GroveHeights
    <3> HIDE DEF g, low
    <3> QED BY <2>2, <3>1
  <2> HIDE DEF low
  <2>4. FindminRule(low(n + 1), f) = FindminRule(low(n + 1), g)
    <3> HIDE DEF g
    <3> QED BY <2>3 DEF FindminRule
  <2>5. g = FindminRule(low(n + 1), g)
    BY <2>4, Zenon
  <2> HIDE DEF g
  <2> QED BY <2>5
<1>3. h \in S
  <2> HIDE DEF S
  <2> QED BY <1>1, <1>2, Induction
<1>4. low(h) = A
  OBVIOUS
<1> HIDE DEF low
<1> QED BY <1>3, <1>4

LEMMA FindminUnique ==
  ASSUME NEW A, Grove(A), NEW B, Grove(B), NEW f, f = FindminRule(A, f), NEW g, g = FindminRule(B, g)
  PROVE  \A s \in A \cap B : f[s] = g[s]
<1> DEFINE G == {s \in A \cap B : f[s] = g[s]}
<1>1. \A s \in A \cap B : f[s] = FindminRule(A, f)[s] /\ g[s] = FindminRule(B, g)[s]
  BY Zenon
<1>2. M!NULL \in A \cap B => M!NULL \in G
  BY <1>1 DEF FindminRule
<1>3. ASSUME NEW s \in A \cap B, s # M!NULL, s.left \in G, s.right \in G PROVE s \in G
  <2>1. f[s.left] = g[s.left] /\ f[s.right] = g[s.right]
    BY <1>3
  <2> HIDE DEF G
  <2>2. FindminRule(A, f)[s] = FindminRule(B, g)[s]
    BY <1>3, <2>1 DEF FindminRule
  <2> QED BY <1>1, <2>2 DEF G
<1> HIDE DEF G
<1>4. \A s \in A \cap B : s \in G
  BY <1>2, <1>3, GroveUnion, TreeInduction
<1> QED BY <1>4 DEF G

LEMMA FindminOfNodes ==
  ASSUME NEW t, IsTree(t)
  PROVE  \E f : f = FindminRule(M!NodesBelow(t), f) /\ M!findmin(t) = f[t]
<1> DEFINE B == M!NodesBelow(t)
           F == CHOOSE f : f = FindminRule(B, f)
<1>1. M!findmin(t) = F[t]
  BY DEF M!findmin, FindminRule
<1> HIDE DEF F
<1>2. Grove(B) /\ t \in B /\ (\A s \in B : s.height <= t.height) /\ t.height \in Int /\ t.height >= -1
  BY NodesOfTree, TreeParts
<1> HIDE DEF B
<1>3. t.height + 1 \in Nat /\ \A s \in B : s.height < t.height + 1
  BY <1>2, GroveHeights
<1>4. \E f : f = FindminRule(B, f)
  BY <1>2, <1>3, FindminExists
<1>5. F = FindminRule(B, F)
  BY <1>4 DEF F
<1> QED BY <1>1, <1>5 DEF B

LEMMA FindminOf ==
  ASSUME NEW t, IsTree(t)
  PROVE  /\ t = M!NULL => M!findmin(t) = M!NULL
         /\ t # M!NULL => M!findmin(t) = (IF t.left = M!NULL THEN t ELSE M!findmin(t.left))
<1> DEFINE B == M!NodesBelow(t)
<1>1. PICK f : f = FindminRule(B, f) /\ M!findmin(t) = f[t]
  BY FindminOfNodes
<1>2. Grove(B) /\ t \in B
  BY NodesOfTree
<1>3. M!findmin(t) = FindminRule(B, f)[t]
  BY <1>1, Zenon
<1> HIDE DEF B
<1>4. ASSUME NEW u \in B, IsTree(u) PROVE M!findmin(u) = f[u]
  <2>1. PICK g : g = FindminRule(M!NodesBelow(u), g) /\ M!findmin(u) = g[u]
    BY <1>4, FindminOfNodes
  <2>2. Grove(M!NodesBelow(u)) /\ u \in M!NodesBelow(u)
    BY <1>4, NodesOfTree
  <2>3. f = FindminRule(B, f)
    BY <1>1, Zenon
  <2>4. u \in B \cap M!NodesBelow(u)
    BY <2>2
  <2>5. f[u] = g[u]
    BY <1>2, <2>1, <2>2, <2>3, <2>4, FindminUnique
  <2> QED BY <2>1, <2>5
<1>5. t # M!NULL => /\ M!findmin(t.left) = f[t.left] /\ M!findmin(t.right) = f[t.right]
  BY <1>2, <1>4, TreeParts, GroveHeights
<1> QED BY <1>2, <1>3, <1>5 DEF FindminRule

WrittenRule(A, f) ==
  [s \in A |-> IF s = M!NULL THEN << >> ELSE f[s.left] \o << s >> \o f[s.right]]

LEMMA WrittenExists ==
  ASSUME NEW A, Grove(A), NEW h \in Nat, \A s \in A : s.height < h
  PROVE  \E f : f = WrittenRule(A, f)
<1> DEFINE low(n) == {s \in A : s.height < n}
           S == {n \in Nat : \E f : f = WrittenRule(low(n), f)}
<1>1. 0 \in S
  <2>1. \A s \in low(0) : s = M!NULL
    BY GroveHeights
  <2> DEFINE g == WrittenRule(low(0), << >>)
  <2>2. g = WrittenRule(low(0), g)
    BY <2>1 DEF WrittenRule
  <2> QED BY <2>2
<1>2. ASSUME NEW n \in Nat, n \in S PROVE n + 1 \in S
  <2>1. PICK f : f = WrittenRule(low(n), f)
    BY <1>2
  <2> DEFINE g == WrittenRule(low(n + 1), f)
  <2>2. ASSUME NEW u \in low(n) PROVE g[u] = f[u]
    <3>1. u \in low(n + 1)
      BY GroveHeights
    <3>2. WrittenRule(low(n), f)[u] = WrittenRule(low(n + 1), f)[u]
      BY <3>1, Zenon DEF WrittenRule
    <3> QED BY <2>1, <3>2, Zenon
  <2>3. ASSUME NEW s \in low(n + 1), s # M!NULL PROVE g[s.left] = f[s.left] /\ g[s.right] = f[s.right]
    <3>1. s.left \in low(n) /\ s.right \in low(n)
      BY <2>3, GroveHeights
    <3> HIDE DEF g, low
    <3> QED BY <2>2, <3>1
  <2> HIDE DEF low
  <2>4. WrittenRule(low(n + 1), f) = WrittenRule(low(n + 1), g)
    <3> HIDE DEF g
    <3> QED BY <2>3 DEF WrittenRule
  <2>5. g = WrittenRule(low(n + 1), g)
    BY <2>4, Zenon
  <2> HIDE DEF g
  <2> QED BY <2>5
<1>3. h \in S
  <2> HIDE DEF S
  <2> QED BY <1>1, <1>2, Induction
<1>4. low(h) = A
  OBVIOUS
<1> HIDE DEF low
<1> QED BY <1>3, <1>4

LEMMA WrittenUnique ==
  ASSUME NEW A, Grove(A), NEW B, Grove(B), NEW f, f = WrittenRule(A, f), NEW g, g = WrittenRule(B, g)
  PROVE  \A s \in A \cap B : f[s] = g[s]
<1> DEFINE G == {s \in A \cap B : f[s] = g[s]}
<1>1. \A s \in A \cap B : f[s] = WrittenRule(A, f)[s] /\ g[s] = WrittenRule(B, g)[s]
  BY Zenon
<1>2. M!NULL \in A \cap B => M!NULL \in G
  BY <1>1 DEF WrittenRule
<1>3. ASSUME NEW s \in A \cap B, s # M!NULL, s.left \in G, s.right \in G PROVE s \in G
  <2>1. f[s.left] = g[s.left] /\ f[s.right] = g[s.right]
    BY <1>3
  <2> HIDE DEF G
  <2>2. WrittenRule(A, f)[s] = WrittenRule(B, g)[s]
    BY <1>3, <2>1 DEF WrittenRule
  <2> QED BY <1>1, <2>2 DEF G
<1> HIDE DEF G
<1>4. \A s \in A \cap B : s \in G
  BY <1>2, <1>3, GroveUnion, TreeInduction
<1> QED BY <1>4 DEF G

LEMMA WrittenOfNodes ==
  ASSUME NEW t, IsTree(t)
  PROVE  \E f : f = WrittenRule(M!NodesBelow(t), f) /\ M!Written(t) = f[t]
<1> DEFINE B == M!NodesBelow(t)
           F == CHOOSE f : f = WrittenRule(B, f)
<1>1. M!Written(t) = F[t]
  BY DEF M!Written, WrittenRule
<1> HIDE DEF F
<1>2. Grove(B) /\ t \in B /\ (\A s \in B : s.height <= t.height) /\ t.height \in Int /\ t.height >= -1
  BY NodesOfTree, TreeParts
<1> HIDE DEF B
<1>3. t.height + 1 \in Nat /\ \A s \in B : s.height < t.height + 1
  BY <1>2, GroveHeights
<1>4. \E f : f = WrittenRule(B, f)
  BY <1>2, <1>3, WrittenExists
<1>5. F = WrittenRule(B, F)
  BY <1>4 DEF F
<1> QED BY <1>1, <1>5 DEF B

LEMMA WrittenOf ==
  ASSUME NEW t, IsTree(t)
  PROVE  /\ t = M!NULL => M!Written(t) = << >>
         /\ t # M!NULL => M!Written(t) = M!Written(t.left) \o << t >> \o M!Written(t.right)
<1> DEFINE B == M!NodesBelow(t)
<1>1. PICK f : f = WrittenRule(B, f) /\ M!Written(t) = f[t]
  BY WrittenOfNodes
<1>2. Grove(B) /\ t \in B
  BY NodesOfTree
<1>3. M!Written(t) = WrittenRule(B, f)[t]
  BY <1>1, Zenon
<1> HIDE DEF B
<1>4. ASSUME NEW u \in B, IsTree(u) PROVE M!Written(u) = f[u]
  <2>1. PICK g : g = WrittenRule(M!NodesBelow(u), g) /\ M!Written(u) = g[u]
    BY <1>4, WrittenOfNodes
  <2>2. Grove(M!NodesBelow(u)) /\ u \in M!NodesBelow(u)
    BY <1>4, NodesOfTree
  <2>3. f = WrittenRule(B, f)
    BY <1>1, Zenon
  <2>4. u \in B \cap M!NodesBelow(u)
    BY <2>2
  <2>5. f[u] = g[u]
    BY <1>2, <2>1, <2>2, <2>3, <2>4, WrittenUnique
  <2> QED BY <2>1, <2>5
<1>5. t # M!NULL => /\ M!Written(t.left) = f[t.left] /\ M!Written(t.right) = f[t.right]
  BY <1>2, <1>4, TreeParts, GroveHeights
<1> QED BY <1>2, <1>3, <1>5 DEF WrittenRule

PreorderRule(A, f) ==
  [s \in A |-> IF s = M!NULL THEN << >> ELSE << s >> \o f[s.left] \o f[s.right]]

LEMMA PreorderExists ==
  ASSUME NEW A, Grove(A), NEW h \in Nat, \A s \in A : s.height < h
  PROVE  \E f : f = PreorderRule(A, f)
<1> DEFINE low(n) == {s \in A : s.height < n}
           S == {n \in Nat : \E f : f = PreorderRule(low(n), f)}
<1>1. 0 \in S
  <2>1. \A s \in low(0) : s = M!NULL
    BY GroveHeights
  <2> DEFINE g == PreorderRule(low(0), << >>)
  <2>2. g = PreorderRule(low(0), g)
    BY <2>1 DEF PreorderRule
  <2> QED BY <2>2
<1>2. ASSUME NEW n \in Nat, n \in S PROVE n + 1 \in S
  <2>1. PICK f : f = PreorderRule(low(n), f)
    BY <1>2
  <2> DEFINE g == PreorderRule(low(n + 1), f)
  <2>2. ASSUME NEW u \in low(n) PROVE g[u] = f[u]
    <3>1. u \in low(n + 1)
      BY GroveHeights
    <3>2. PreorderRule(low(n), f)[u] = PreorderRule(low(n + 1), f)[u]
      BY <3>1, Zenon DEF PreorderRule
    <3> QED BY <2>1, <3>2, Zenon
  <2>3. ASSUME NEW s \in low(n + 1), s # M!NULL PROVE g[s.left] = f[s.left] /\ g[s.right] = f[s.right]
    <3>1. s.left \in low(n) /\ s.right \in low(n)
      BY <2>3, GroveHeights
    <3> HIDE DEF g, low
    <3> QED BY <2>2, <3>1
  <2> HIDE DEF low
  <2>4. PreorderRule(low(n + 1), f) = PreorderRule(low(n + 1), g)
    <3> HIDE DEF g
    <3> QED BY <2>3 DEF PreorderRule
  <2>5. g = PreorderRule(low(n + 1), g)
    BY <2>4, Zenon
  <2> HIDE DEF g
  <2> QED BY <2>5
<1>3. h \in S
  <2> HIDE DEF S
  <2> QED BY <1>1, <1>2, Induction
<1>4. low(h) = A
  OBVIOUS
<1> HIDE DEF low
<1> QED BY <1>3, <1>4

LEMMA PreorderUnique ==
  ASSUME NEW A, Grove(A), NEW B, Grove(B), NEW f, f = PreorderRule(A, f), NEW g, g = PreorderRule(B, g)
  PROVE  \A s \in A \cap B : f[s] = g[s]
<1> DEFINE G == {s \in A \cap B : f[s] = g[s]}
<1>1. \A s \in A \cap B : f[s] = PreorderRule(A, f)[s] /\ g[s] = PreorderRule(B, g)[s]
  BY Zenon
<1>2. M!NULL \in A \cap B => M!NULL \in G
  BY <1>1 DEF PreorderRule
<1>3. ASSUME NEW s \in A \cap B, s # M!NULL, s.left \in G, s.right \in G PROVE s \in G
  <2>1. f[s.left] = g[s.left] /\ f[s.right] = g[s.right]
    BY <1>3
  <2> HIDE DEF G
  <2>2. PreorderRule(A, f)[s] = PreorderRule(B, g)[s]
    BY <1>3, <2>1 DEF PreorderRule
  <2> QED BY <1>1, <2>2 DEF G
<1> HIDE DEF G
<1>4. \A s \in A \cap B : s \in G
  BY <1>2, <1>3, GroveUnion, TreeInduction
<1> QED BY <1>4 DEF G

LEMMA PreorderOfNodes ==
  ASSUME NEW t, IsTree(t)
  PROVE  \E f : f = PreorderRule(M!NodesBelow(t), f) /\ M!Preorder(t) = f[t]
<1> DEFINE B == M!NodesBelow(t)
           F == CHOOSE f : f = PreorderRule(B, f)
<1>1. M!Preorder(t) = F[t]
  BY DEF M!Preorder, PreorderRule
<1> HIDE DEF F
<1>2. Grove(B) /\ t \in B /\ (\A s \in B : s.height <= t.height) /\ t.height \in Int /\ t.height >= -1
  BY NodesOfTree, TreeParts
<1> HIDE DEF B
<1>3. t.height + 1 \in Nat /\ \A s \in B : s.height < t.height + 1
  BY <1>2, GroveHeights
<1>4. \E f : f = PreorderRule(B, f)
  BY <1>2, <1>3, PreorderExists
<1>5. F = PreorderRule(B, F)
  BY <1>4 DEF F
<1> QED BY <1>1, <1>5 DEF B

LEMMA PreorderOf ==
  ASSUME NEW t, IsTree(t)
  PROVE  /\ t = M!NULL => M!Preorder(t) = << >>
         /\ t # M!NULL => M!Preorder(t) = << t >> \o M!Preorder(t.left) \o M!Preorder(t.right)
<1> DEFINE B == M!NodesBelow(t)
<1>1. PICK f : f = PreorderRule(B, f) /\ M!Preorder(t) = f[t]
  BY PreorderOfNodes
<1>2. Grove(B) /\ t \in B
  BY NodesOfTree
<1>3. M!Preorder(t) = PreorderRule(B, f)[t]
  BY <1>1, Zenon
<1> HIDE DEF B
<1>4. ASSUME NEW u \in B, IsTree(u) PROVE M!Preorder(u) = f[u]
  <2>1. PICK g : g = PreorderRule(M!NodesBelow(u), g) /\ M!Preorder(u) = g[u]
    BY <1>4, PreorderOfNodes
  <2>2. Grove(M!NodesBelow(u)) /\ u \in M!NodesBelow(u)
    BY <1>4, NodesOfTree
  <2>3. f = PreorderRule(B, f)
    BY <1>1, Zenon
  <2>4. u \in B \cap M!NodesBelow(u)
    BY <2>2
  <2>5. f[u] = g[u]
    BY <1>2, <2>1, <2>2, <2>3, <2>4, PreorderUnique
  <2> QED BY <2>1, <2>5
<1>5. t # M!NULL => /\ M!Preorder(t.left) = f[t.left] /\ M!Preorder(t.right) = f[t.right]
  BY <1>2, <1>4, TreeParts, GroveHeights
<1> QED BY <1>2, <1>3, <1>5 DEF PreorderRule

InsertRule(A, x, card, f) ==
  [s \in A |-> IF s = M!NULL THEN M!NodeOf(x, card, M!NULL, M!NULL)
                ELSE IF x = s.data THEN s
                ELSE IF x < s.data THEN M!GrownLeft(x, M!With(s, f[s.left], s.right))
                ELSE M!GrownRight(x, M!With(s, s.left, f[s.right]))]

LEMMA InsertExists ==
  ASSUME NEW x, NEW card, NEW A, Grove(A), NEW h \in Nat, \A s \in A : s.height < h
  PROVE  \E f : f = InsertRule(A, x, card, f)
<1> DEFINE low(n) == {s \in A : s.height < n}
           S == {n \in Nat : \E f : f = InsertRule(low(n), x, card, f)}
<1>1. 0 \in S
  <2>1. \A s \in low(0) : s = M!NULL
    BY GroveHeights
  <2> DEFINE g == InsertRule(low(0), x, card, << >>)
  <2>2. g = InsertRule(low(0), x, card, g)
    BY <2>1 DEF InsertRule
  <2> QED BY <2>2
<1>2. ASSUME NEW n \in Nat, n \in S PROVE n + 1 \in S
  <2>1. PICK f : f = InsertRule(low(n), x, card, f)
    BY <1>2
  <2> DEFINE g == InsertRule(low(n + 1), x, card, f)
  <2>2. ASSUME NEW u \in low(n) PROVE g[u] = f[u]
    <3>1. u \in low(n + 1)
      BY GroveHeights
    <3>2. InsertRule(low(n), x, card, f)[u] = InsertRule(low(n + 1), x, card, f)[u]
      BY <3>1, Zenon DEF InsertRule
    <3> QED BY <2>1, <3>2, Zenon
  <2>3. ASSUME NEW s \in low(n + 1), s # M!NULL PROVE g[s.left] = f[s.left] /\ g[s.right] = f[s.right]
    <3>1. s.left \in low(n) /\ s.right \in low(n)
      BY <2>3, GroveHeights
    <3> HIDE DEF g, low
    <3> QED BY <2>2, <3>1
  <2> HIDE DEF low
  <2>4. InsertRule(low(n + 1), x, card, f) = InsertRule(low(n + 1), x, card, g)
    <3> HIDE DEF g
    <3> QED BY <2>3 DEF InsertRule
  <2>5. g = InsertRule(low(n + 1), x, card, g)
    BY <2>4, Zenon
  <2> HIDE DEF g
  <2> QED BY <2>5
<1>3. h \in S
  <2> HIDE DEF S
  <2> QED BY <1>1, <1>2, Induction
<1>4. low(h) = A
  OBVIOUS
<1> HIDE DEF low
<1> QED BY <1>3, <1>4

LEMMA InsertUnique ==
  ASSUME NEW x, NEW card, NEW A, Grove(A), NEW B, Grove(B), NEW f, f = InsertRule(A, x, card, f), NEW g, g = InsertRule(B, x, card, g)
  PROVE  \A s \in A \cap B : f[s] = g[s]
<1> DEFINE G == {s \in A \cap B : f[s] = g[s]}
<1>1. \A s \in A \cap B : f[s] = InsertRule(A, x, card, f)[s] /\ g[s] = InsertRule(B, x, card, g)[s]
  BY Zenon
<1>2. M!NULL \in A \cap B => M!NULL \in G
  BY <1>1 DEF InsertRule
<1>3. ASSUME NEW s \in A \cap B, s # M!NULL, s.left \in G, s.right \in G PROVE s \in G
  <2>1. f[s.left] = g[s.left] /\ f[s.right] = g[s.right]
    BY <1>3
  <2> HIDE DEF G
  <2>2. InsertRule(A, x, card, f)[s] = InsertRule(B, x, card, g)[s]
    BY <1>3, <2>1 DEF InsertRule
  <2> QED BY <1>1, <2>2 DEF G
<1> HIDE DEF G
<1>4. \A s \in A \cap B : s \in G
  BY <1>2, <1>3, GroveUnion, TreeInduction
<1> QED BY <1>4 DEF G

LEMMA InsertOfNodes ==
  ASSUME NEW x, NEW card, NEW t, IsTree(t)
  PROVE  \E f : f = InsertRule(M!NodesBelow(t), x, card, f) /\ M!insert(x, card, t) = f[t]
<1> DEFINE B == M!NodesBelow(t)
           F == CHOOSE f : f = InsertRule(B, x, card, f)
<1>1. M!insert(x, card, t) = F[t]
  BY DEF M!insert, InsertRule
<1> HIDE DEF F
<1>2. Grove(B) /\ t \in B /\ (\A s \in B : s.height <= t.height) /\ t.height \in Int /\ t.height >= -1
  BY NodesOfTree, TreeParts
<1> HIDE DEF B
<1>3. t.height + 1 \in Nat /\ \A s \in B : s.height < t.height + 1
  BY <1>2, GroveHeights
<1>4. \E f : f = InsertRule(B, x, card, f)
  BY <1>2, <1>3, InsertExists
<1>5. F = InsertRule(B, x, card, F)
  BY <1>4 DEF F
<1> QED BY <1>1, <1>5 DEF B

LEMMA InsertOf ==
  ASSUME NEW x, NEW card, NEW t, IsTree(t)
  PROVE  /\ t = M!NULL => M!insert(x, card, t) = M!NodeOf(x, card, M!NULL, M!NULL)
         /\ t # M!NULL => M!insert(x, card, t) = (IF x = t.data THEN t
                ELSE IF x < t.data THEN M!GrownLeft(x, M!With(t, M!insert(x, card, t.left), t.right))
                ELSE M!GrownRight(x, M!With(t, t.left, M!insert(x, card, t.right))))
<1> DEFINE B == M!NodesBelow(t)
<1>1. PICK f : f = InsertRule(B, x, card, f) /\ M!insert(x, card, t) = f[t]
  BY InsertOfNodes
<1>2. Grove(B) /\ t \in B
  BY NodesOfTree
<1>3. M!insert(x, card, t) = InsertRule(B, x, card, f)[t]
  BY <1>1, Zenon
<1> HIDE DEF B
<1>4. ASSUME NEW u \in B, IsTree(u) PROVE M!insert(x, card, u) = f[u]
  <2>1. PICK g : g = InsertRule(M!NodesBelow(u), x, card, g) /\ M!insert(x, card, u) = g[u]
    BY <1>4, InsertOfNodes
  <2>2. Grove(M!NodesBelow(u)) /\ u \in M!NodesBelow(u)
    BY <1>4, NodesOfTree
  <2>3. f = InsertRule(B, x, card, f)
    BY <1>1, Zenon
  <2>4. u \in B \cap M!NodesBelow(u)
    BY <2>2
  <2>5. f[u] = g[u]
    BY <1>2, <2>1, <2>2, <2>3, <2>4, InsertUnique
  <2> QED BY <2>1, <2>5
<1>5. t # M!NULL => /\ M!insert(x, card, t.left) = f[t.left] /\ M!insert(x, card, t.right) = f[t.right]
  BY <1>2, <1>4, TreeParts, GroveHeights
<1> QED BY <1>2, <1>3, <1>5 DEF InsertRule

-------------------------------------------------------------------------------
(* The tree as a sequence of nodes. *)
(* A sequence, an element, and another sequence.                               *)
LEMMA ThreeJoined ==
  ASSUME NEW V, NEW p \in Seq(V), NEW e \in V, NEW q \in Seq(V)
  PROVE  LET w == p \o << e >> \o q IN
         /\ w \in Seq(V) /\ Len(w) = Len(p) + 1 + Len(q)
         /\ \A i \in 1 .. Len(p) : w[i] = p[i]
         /\ w[Len(p) + 1] = e
         /\ \A i \in 1 .. Len(q) : w[Len(p) + 1 + i] = q[i]
<1>1. << e >> \in Seq(V) /\ Len(<< e >>) = 1 /\ << e >>[1] = e
  OBVIOUS
<1> DEFINE v == p \o << e >>
<1>2. v \in Seq(V) /\ Len(v) = Len(p) + 1 /\ (\A i \in 1 .. Len(p) : v[i] = p[i]) /\ v[Len(p) + 1] = e
  BY <1>1
<1> HIDE DEF v
<1> DEFINE w == v \o q
<1>3. w \in Seq(V) /\ Len(w) = Len(v) + Len(q) /\ (\A i \in 1 .. Len(v) : w[i] = v[i])
      /\ \A i \in 1 .. Len(q) : w[Len(v) + i] = q[i]
  BY <1>2
<1>4. p \o << e >> \o q = w
  BY DEF v
<1> HIDE DEF w
<1> QED BY <1>2, <1>3, <1>4

Members(w) == {w[i] : i \in 1 .. Len(w)}
Ascends(w) == \A i, j \in 1 .. Len(w) : i < j => w[i].data < w[j].data

LEMMA ThreeAscend ==
  ASSUME NEW V, NEW p \in Seq(V), NEW e \in V, NEW q \in Seq(V), \A v \in V : v.data \in Int
  PROVE  LET w == p \o << e >> \o q IN
         /\ Members(w) = Members(p) \cup {e} \cup Members(q)
         /\ Ascends(w) <=> /\ Ascends(p) /\ Ascends(q)
                           /\ \A u \in Members(p) : u.data < e.data
                           /\ \A u \in Members(q) : e.data < u.data
<1> DEFINE w == p \o << e >> \o q
           m == Len(p)
           n == Len(q)
<1>1. /\ w \in Seq(V) /\ Len(w) = m + 1 + n /\ m \in Nat /\ n \in Nat
      /\ \A i \in 1 .. m : w[i] = p[i]
      /\ w[m + 1] = e
      /\ \A i \in 1 .. n : w[m + 1 + i] = q[i]
  BY ThreeJoined
<1>2. \A i \in 1 .. m : p[i] \in V
  OBVIOUS
<1>3. \A i \in 1 .. n : q[i] \in V
  OBVIOUS
<1>4. Members(p) = {p[i] : i \in 1 .. m} /\ Members(q) = {q[i] : i \in 1 .. n}
      /\ Members(w) = {w[i] : i \in 1 .. m + 1 + n}
  BY <1>1 DEF Members
<1>5. /\ Ascends(p) <=> \A i, j \in 1 .. m : i < j => p[i].data < p[j].data
      /\ Ascends(q) <=> \A i, j \in 1 .. n : i < j => q[i].data < q[j].data
      /\ Ascends(w) <=> \A i, j \in 1 .. m + 1 + n : i < j => w[i].data < w[j].data
  BY <1>1 DEF Ascends
<1> HIDE DEF w, m, n
<1>6. \A k \in 1 .. m + 1 + n : k \in 1 .. m \/ k = m + 1 \/ \E i \in 1 .. n : k = m + 1 + i
  <2> TAKE k \in 1 .. m + 1 + n
  <2>1. CASE k > m + 1
    <3>1. k - (m + 1) \in 1 .. n /\ k = m + 1 + (k - (m + 1))
      BY <1>1, <2>1
    <3> QED BY <3>1
  <2> QED BY <1>1, <2>1
<1>7. (\A i \in 1 .. m : i \in 1 .. m + 1 + n) /\ m + 1 \in 1 .. m + 1 + n
      /\ \A i \in 1 .. n : m + 1 + i \in 1 .. m + 1 + n
  BY <1>1
<1>8. Members(w) = Members(p) \cup {e} \cup Members(q)
  <2>1. ASSUME NEW k \in 1 .. m + 1 + n PROVE w[k] \in Members(p) \cup {e} \cup Members(q)
    <3>1. CASE k \in 1 .. m
      BY <1>1, <1>4, <3>1
    <3>2. CASE k = m + 1
      BY <1>1, <3>2
    <3>3. ASSUME NEW i \in 1 .. n, k = m + 1 + i PROVE w[k] \in Members(q)
      BY <1>1, <1>4, <3>3
    <3> QED BY <1>6, <3>1, <3>2, <3>3
  <2>2. \A i \in 1 .. m : p[i] \in Members(w)
    BY <1>1, <1>4, <1>7
  <2>3. e \in Members(w)
    BY <1>1, <1>4, <1>7
  <2>4. \A i \in 1 .. n : q[i] \in Members(w)
    BY <1>1, <1>4, <1>7
  <2> QED BY <1>4, <2>1, <2>2, <2>3, <2>4
<1>9. ASSUME Ascends(w)
      PROVE  /\ Ascends(p) /\ Ascends(q)
             /\ \A u \in Members(p) : u.data < e.data
             /\ \A u \in Members(q) : e.data < u.data
  <2>1. Ascends(p)
    BY <1>1, <1>5, <1>7, <1>9
  <2>2. ASSUME NEW i \in 1 .. n, NEW j \in 1 .. n, i < j PROVE q[i].data < q[j].data
    <3>1. m + 1 + i < m + 1 + j
      BY <1>1, <2>2
    <3> QED BY <1>1, <1>5, <1>7, <1>9, <3>1
  <2>3. ASSUME NEW i \in 1 .. m PROVE p[i].data < e.data
    <3>1. i < m + 1
      BY <1>1
    <3> QED BY <1>1, <1>5, <1>7, <1>9, <3>1
  <2>4. ASSUME NEW i \in 1 .. n PROVE e.data < q[i].data
    <3>1. m + 1 < m + 1 + i
      BY <1>1
    <3> QED BY <1>1, <1>5, <1>7, <1>9, <3>1
  <2> QED BY <1>4, <1>5, <2>1, <2>2, <2>3, <2>4
<1>10. ASSUME /\ Ascends(p) /\ Ascends(q)
              /\ \A u \in Members(p) : u.data < e.data
              /\ \A u \in Members(q) : e.data < u.data
       PROVE  Ascends(w)
  <2>1. (\A i \in 1 .. m : p[i].data < e.data) /\ (\A i \in 1 .. n : e.data < q[i].data)
    BY <1>4, <1>10
  <2>2. \A i \in 1 .. m : \A j \in 1 .. n : p[i].data < q[j].data
    <3> TAKE i \in 1 .. m
    <3> TAKE j \in 1 .. n
    <3>1. p[i].data \in Int /\ q[j].data \in Int /\ e.data \in Int
      BY <1>2, <1>3
    <3> QED BY <2>1, <3>1
  <2>3. ASSUME NEW k \in 1 .. m + 1 + n, NEW l \in 1 .. m + 1 + n, k < l PROVE w[k].data < w[l].data
    <3>1. CASE k \in 1 .. m
      <4>1. CASE l \in 1 .. m
        BY <1>1, <1>5, <1>10, <2>3, <3>1, <4>1
      <4>2. CASE l = m + 1
        BY <1>1, <2>1, <3>1, <4>2
      <4>3. ASSUME NEW j \in 1 .. n, l = m + 1 + j PROVE w[k].data < w[l].data
        BY <1>1, <2>2, <3>1, <4>3
      <4> QED BY <1>6, <4>1, <4>2, <4>3
    <3>2. CASE k = m + 1
      <4>1. ~(l \in 1 .. m) /\ l # m + 1
        BY <1>1, <2>3, <3>2
      <4>2. PICK j \in 1 .. n : l = m + 1 + j
        BY <1>6, <4>1
      <4> QED BY <1>1, <2>1, <3>2, <4>2
    <3>3. ASSUME NEW i \in 1 .. n, k = m + 1 + i PROVE w[k].data < w[l].data
      <4>1. ~(l \in 1 .. m) /\ l # m + 1
        BY <1>1, <2>3, <3>3
      <4>2. PICK j \in 1 .. n : l = m + 1 + j
        BY <1>6, <4>1
      <4>3. i < j
        BY <1>1, <2>3, <3>3, <4>2
      <4> QED BY <1>1, <1>5, <1>10, <3>3, <4>2, <4>3
    <3> QED BY <1>6, <3>1, <3>2, <3>3
  <2> QED BY <1>5, <2>3
<1> QED BY <1>8, <1>9, <1>10 DEF w

-------------------------------------------------------------------------------
(* What a tree holds: its nodes in order, and the pairs of a name and a card.  *)
Nodes(t) == Members(M!Written(t))
Pairs(t) == {<< u.data, u.card >> : u \in Nodes(t)}
Asc(t) == Ascends(M!Written(t))

LEMMA WrittenType ==
  ASSUME NEW A, Grove(A), NEW t \in A
  PROVE  M!Written(t) \in Seq({u \in A : u # M!NULL})
<1> DEFINE V == {u \in A : u # M!NULL}
           G == {s \in A : M!Written(s) \in Seq(V)}
<1>1. \A s \in A : IsTree(s)
  BY DEF IsTree
<1>2. M!NULL \in A => M!NULL \in G
  <2>1. M!Written(M!NULL) = << >>
    BY NullTree, WrittenOf
  <2>2. << >> \in Seq(V)
    OBVIOUS
  <2> QED BY <2>1, <2>2
<1>3. ASSUME NEW s \in A, s # M!NULL, s.left \in G, s.right \in G PROVE s \in G
  <2>1. M!Written(s) = M!Written(s.left) \o << s >> \o M!Written(s.right)
    BY <1>1, <1>3, WrittenOf
  <2>2. s \in V
    BY <1>3
  <2>3. M!Written(s.left) \in Seq(V) /\ M!Written(s.right) \in Seq(V)
    BY <1>3
  <2> HIDE DEF V
  <2>4. M!Written(s) \in Seq(V)
    BY <2>1, <2>2, <2>3, ThreeJoined
  <2> QED BY <2>4
<1> HIDE DEF G
<1>4. t \in G
  BY <1>2, <1>3, TreeInduction
<1> QED BY <1>4 DEF G

LEMMA WrittenNodes ==
  ASSUME NEW t, IsTree(t)
  PROVE  /\ M!Written(t) \in Seq(Nodes(t))
         /\ \A u \in Nodes(t) : IsTree(u) /\ u # M!NULL /\ u.data \in Int
<1>1. PICK A : Grove(A) /\ t \in A
  BY DEF IsTree
<1> DEFINE w == M!Written(t)
           V == {u \in A : u # M!NULL}
<1>2. w \in Seq(V)
  BY <1>1, WrittenType
<1> HIDE DEF w, V
<1>3. w \in Seq(Members(w)) /\ Members(w) \subseteq V
  BY <1>2 DEF Members
<1>4. \A u \in V : IsTree(u) /\ u # M!NULL /\ u.data \in Int
  BY <1>1, GroveHeights DEF V, IsTree
<1> QED BY <1>3, <1>4 DEF Nodes, w

LEMMA NodesJoined ==
  ASSUME NEW t, IsTree(t)
  PROVE  /\ t = M!NULL => Nodes(t) = {} /\ Asc(t)
         /\ t # M!NULL => /\ Nodes(t) = Nodes(t.left) \cup {t} \cup Nodes(t.right)
                          /\ Asc(t) <=> /\ Asc(t.left) /\ Asc(t.right)
                                        /\ \A u \in Nodes(t.left) : u.data < t.data
                                        /\ \A u \in Nodes(t.right) : t.data < u.data
<1>1. ASSUME t = M!NULL PROVE Nodes(t) = {} /\ Asc(t)
  <2>1. M!Written(t) = << >>
    BY <1>1, WrittenOf
  <2> QED BY <2>1 DEF Nodes, Asc, Members, Ascends
<1>2. ASSUME t # M!NULL
      PROVE  /\ Nodes(t) = Nodes(t.left) \cup {t} \cup Nodes(t.right)
             /\ Asc(t) <=> /\ Asc(t.left) /\ Asc(t.right)
                           /\ \A u \in Nodes(t.left) : u.data < t.data
                           /\ \A u \in Nodes(t.right) : t.data < u.data
  <2>1. PICK A : Grove(A) /\ t \in A
    BY DEF IsTree
  <2> DEFINE V == {u \in A : u # M!NULL}
  <2>2. t \in V /\ t.left \in A /\ t.right \in A
    BY <1>2, <2>1, GroveHeights
  <2>3. M!Written(t.left) \in Seq(V) /\ M!Written(t.right) \in Seq(V)
    BY <2>1, <2>2, WrittenType
  <2>4. \A v \in V : v.data \in Int
    BY <2>1, GroveHeights
  <2>5. M!Written(t) = M!Written(t.left) \o << t >> \o M!Written(t.right)
    BY <1>2, WrittenOf
  <2> HIDE DEF V
  <2> QED BY <2>2, <2>3, <2>4, <2>5, ThreeAscend DEF Nodes, Asc
<1> QED BY <1>1, <1>2

-------------------------------------------------------------------------------
(* Rotations. *)
(* A tree in order, that holds these pairs.                                    *)
Holds(t, P) == IsTree(t) /\ Asc(t) /\ Pairs(t) = P

LEMMA PairsOf ==
  ASSUME NEW t, IsTree(t)
  PROVE  /\ \A p \in Pairs(t) : p[1] \in Int
         /\ \A u \in Nodes(t) : << u.data, u.card >> \in Pairs(t)
         /\ t = M!NULL => Pairs(t) = {} /\ Asc(t)
         /\ t # M!NULL => /\ t.data \in Int /\ IsTree(t.left) /\ IsTree(t.right)
                          /\ Pairs(t) = Pairs(t.left) \cup {<< t.data, t.card >>} \cup Pairs(t.right)
                          /\ Asc(t) <=> /\ Asc(t.left) /\ Asc(t.right)
                                        /\ \A p \in Pairs(t.left) : p[1] < t.data
                                        /\ \A p \in Pairs(t.right) : t.data < p[1]
<1>1. \A u \in Nodes(t) : u.data \in Int
  BY WrittenNodes
<1>2. (\A p \in Pairs(t) : p[1] \in Int) /\ \A u \in Nodes(t) : << u.data, u.card >> \in Pairs(t)
  BY <1>1 DEF Pairs
<1>3. t = M!NULL => Pairs(t) = {} /\ Asc(t)
  BY NodesJoined DEF Pairs
<1>4. ASSUME t # M!NULL
      PROVE  /\ t.data \in Int /\ IsTree(t.left) /\ IsTree(t.right)
             /\ Pairs(t) = Pairs(t.left) \cup {<< t.data, t.card >>} \cup Pairs(t.right)
             /\ Asc(t) <=> /\ Asc(t.left) /\ Asc(t.right)
                           /\ \A p \in Pairs(t.left) : p[1] < t.data
                           /\ \A p \in Pairs(t.right) : t.data < p[1]
  <2>1. /\ Nodes(t) = Nodes(t.left) \cup {t} \cup Nodes(t.right)
        /\ Asc(t) <=> /\ Asc(t.left) /\ Asc(t.right)
                      /\ \A u \in Nodes(t.left) : u.data < t.data
                      /\ \A u \in Nodes(t.right) : t.data < u.data
    BY <1>4, NodesJoined
  <2>2. Pairs(t) = Pairs(t.left) \cup {<< t.data, t.card >>} \cup Pairs(t.right)
    BY <2>1 DEF Pairs
  <2>3. /\ (\A u \in Nodes(t.left) : u.data < t.data) <=> (\A p \in Pairs(t.left) : p[1] < t.data)
        /\ (\A u \in Nodes(t.right) : t.data < u.data) <=> (\A p \in Pairs(t.right) : t.data < p[1])
    <3>1. \A u : << u.data, u.card >>[1] = u.data
      OBVIOUS
    <3>2. \A s : \A u \in Nodes(s) : << u.data, u.card >> \in Pairs(s)
      BY DEF Pairs
    <3>3. \A s : \A p \in Pairs(s) : \E u \in Nodes(s) : p = << u.data, u.card >>
      BY DEF Pairs
    <3>4. \A s : \A p \in Pairs(s) : \E u \in Nodes(s) : p[1] = u.data
      <4> TAKE s
      <4> TAKE p \in Pairs(s)
      <4>1. PICK u \in Nodes(s) : p = << u.data, u.card >>
        BY <3>3
      <4>2. p[1] = u.data
        BY <3>1, <4>1
      <4> QED BY <4>2
    <3>5. \A s : \A u \in Nodes(s) : \E p \in Pairs(s) : p[1] = u.data
      <4> TAKE s
      <4> TAKE u \in Nodes(s)
      <4>1. << u.data, u.card >> \in Pairs(s) /\ << u.data, u.card >>[1] = u.data
        BY <3>1, <3>2
      <4> QED BY <4>1
    <3>6. /\ (\A u \in Nodes(t.left) : u.data < t.data) => (\A p \in Pairs(t.left) : p[1] < t.data)
          /\ (\A u \in Nodes(t.right) : t.data < u.data) => (\A p \in Pairs(t.right) : t.data < p[1])
      BY <3>4
    <3>7. /\ (\A p \in Pairs(t.left) : p[1] < t.data) => (\A u \in Nodes(t.left) : u.data < t.data)
          /\ (\A p \in Pairs(t.right) : t.data < p[1]) => (\A u \in Nodes(t.right) : t.data < u.data)
      BY <3>5
    <3> QED BY <3>6, <3>7
  <2> QED BY <1>4, <2>1, <2>2, <2>3, TreeParts
<1> QED BY <1>2, <1>3, <1>4

LEMMA NodePairs ==
  ASSUME NEW d \in Int, NEW c, NEW l, NEW r, IsTree(l), IsTree(r)
  PROVE  LET s == M!NodeOf(d, c, l, r) IN
         /\ IsTree(s) /\ s # M!NULL /\ s.data = d /\ s.card = c /\ s.left = l /\ s.right = r
         /\ Pairs(s) = Pairs(l) \cup {<< d, c >>} \cup Pairs(r)
         /\ Asc(s) <=> /\ Asc(l) /\ Asc(r)
                       /\ \A p \in Pairs(l) : p[1] < d
                       /\ \A p \in Pairs(r) : d < p[1]
<1> DEFINE s == M!NodeOf(d, c, l, r)
<1>1. IsTree(s) /\ s # M!NULL /\ s.data = d /\ s.card = c /\ s.left = l /\ s.right = r
  BY NodeTree
<1> HIDE DEF s
<1>2. /\ Pairs(s) = Pairs(s.left) \cup {<< s.data, s.card >>} \cup Pairs(s.right)
      /\ Asc(s) <=> /\ Asc(s.left) /\ Asc(s.right)
                    /\ \A p \in Pairs(s.left) : p[1] < s.data
                    /\ \A p \in Pairs(s.right) : s.data < p[1]
  BY <1>1, PairsOf
<1> QED BY <1>1, <1>2 DEF s

LEMMA WithPairs ==
  ASSUME NEW t, IsTree(t), t # M!NULL, NEW l, NEW r, IsTree(l), IsTree(r)
  PROVE  LET s == M!With(t, l, r) IN
         /\ IsTree(s) /\ s # M!NULL /\ s.data = t.data /\ s.card = t.card /\ s.left = l /\ s.right = r
         /\ Pairs(s) = Pairs(l) \cup {<< t.data, t.card >>} \cup Pairs(r)
         /\ Asc(s) <=> /\ Asc(l) /\ Asc(r)
                       /\ \A p \in Pairs(l) : p[1] < t.data
                       /\ \A p \in Pairs(r) : t.data < p[1]
<1>1. t.data \in Int
  BY TreeParts
<1> QED BY <1>1, NodePairs DEF M!With

(* The rotations change neither the order nor what is there.                   *)
Kept(s, t) == IsTree(s) /\ (s = M!NULL <=> t = M!NULL) /\ Pairs(s) = Pairs(t) /\ (Asc(t) => Asc(s))

LEMMA KeptInside ==
  ASSUME NEW t, IsTree(t), t # M!NULL, NEW l, NEW r, Kept(l, t.left), Kept(r, t.right)
  PROVE  Kept(M!With(t, l, r), t)
<1>1. IsTree(l) /\ IsTree(r) /\ Pairs(l) = Pairs(t.left) /\ Pairs(r) = Pairs(t.right)
      /\ (Asc(t.left) => Asc(l)) /\ (Asc(t.right) => Asc(r))
  BY DEF Kept
<1> DEFINE s == M!With(t, l, r)
<1>2. /\ IsTree(s) /\ s # M!NULL
      /\ Pairs(s) = Pairs(l) \cup {<< t.data, t.card >>} \cup Pairs(r)
      /\ Asc(s) <=> /\ Asc(l) /\ Asc(r)
                    /\ \A p \in Pairs(l) : p[1] < t.data
                    /\ \A p \in Pairs(r) : t.data < p[1]
  BY <1>1, WithPairs
<1> HIDE DEF s
<1>3. /\ Pairs(t) = Pairs(t.left) \cup {<< t.data, t.card >>} \cup Pairs(t.right)
      /\ Asc(t) <=> /\ Asc(t.left) /\ Asc(t.right)
                    /\ \A p \in Pairs(t.left) : p[1] < t.data
                    /\ \A p \in Pairs(t.right) : t.data < p[1]
  BY PairsOf
<1>4. Pairs(s) = Pairs(t) /\ (Asc(t) => Asc(s))
  BY <1>1, <1>2, <1>3
<1> QED BY <1>2, <1>4 DEF Kept, s

LEMMA KeptSelf == ASSUME NEW t, IsTree(t) PROVE Kept(t, t)
BY DEF Kept

LEMMA KeptThen ==
  ASSUME NEW s, NEW t, NEW u, Kept(s, t), Kept(t, u)
  PROVE  Kept(s, u)
BY DEF Kept

LEMMA SrrKeeps ==
  ASSUME NEW t, IsTree(t), t # M!NULL
  PROVE  Kept(M!srr(t), t)
<1>1. CASE t.left = M!NULL
  BY <1>1, KeptSelf DEF M!srr
<1>2. CASE t.left # M!NULL
  <2> DEFINE l == t.left
             b == M!With(t, l.right, t.right)
             s == M!With(l, l.left, b)
  <2>1. M!srr(t) = s
    BY <1>2 DEF M!srr
  <2>2. /\ t.data \in Int /\ IsTree(l) /\ IsTree(t.right)
        /\ Pairs(t) = Pairs(l) \cup {<< t.data, t.card >>} \cup Pairs(t.right)
        /\ Asc(t) <=> /\ Asc(l) /\ Asc(t.right)
                      /\ \A p \in Pairs(l) : p[1] < t.data
                      /\ \A p \in Pairs(t.right) : t.data < p[1]
    BY PairsOf
  <2> HIDE DEF l
  <2>3. /\ l # M!NULL /\ l.data \in Int /\ IsTree(l.left) /\ IsTree(l.right)
        /\ Pairs(l) = Pairs(l.left) \cup {<< l.data, l.card >>} \cup Pairs(l.right)
        /\ Asc(l) <=> /\ Asc(l.left) /\ Asc(l.right)
                      /\ \A p \in Pairs(l.left) : p[1] < l.data
                      /\ \A p \in Pairs(l.right) : l.data < p[1]
    BY <1>2, <2>2, PairsOf DEF l
  <2>4. /\ IsTree(b) /\ b # M!NULL
        /\ Pairs(b) = Pairs(l.right) \cup {<< t.data, t.card >>} \cup Pairs(t.right)
        /\ Asc(b) <=> /\ Asc(l.right) /\ Asc(t.right)
                      /\ \A p \in Pairs(l.right) : p[1] < t.data
                      /\ \A p \in Pairs(t.right) : t.data < p[1]
    BY <2>2, <2>3, WithPairs
  <2> HIDE DEF b
  <2>5. /\ IsTree(s) /\ s # M!NULL
        /\ Pairs(s) = Pairs(l.left) \cup {<< l.data, l.card >>} \cup Pairs(b)
        /\ Asc(s) <=> /\ Asc(l.left) /\ Asc(b)
                      /\ \A p \in Pairs(l.left) : p[1] < l.data
                      /\ \A p \in Pairs(b) : l.data < p[1]
    BY <2>2, <2>3, <2>4, WithPairs
  <2> HIDE DEF s
  <2>6. Pairs(s) = Pairs(t)
    BY <2>2, <2>3, <2>4, <2>5
  <2>7. ASSUME Asc(t) PROVE Asc(s)
    <3>1. /\ Asc(l.left) /\ Asc(l.right) /\ Asc(t.right)
          /\ \A p \in Pairs(l.left) : p[1] < l.data
          /\ \A p \in Pairs(l.right) : l.data < p[1]
          /\ \A p \in Pairs(l) : p[1] < t.data
          /\ \A p \in Pairs(t.right) : t.data < p[1]
      BY <2>2, <2>3, <2>7
    <3>2. << l.data, l.card >> \in Pairs(l) /\ << l.data, l.card >>[1] = l.data
          /\ << t.data, t.card >>[1] = t.data
      BY <2>3
    <3>3. l.data < t.data
      BY <3>1, <3>2
    <3>4. \A p \in Pairs(t.right) : p[1] \in Int
      BY <2>2, PairsOf
    <3>5. \A p \in Pairs(t.right) : l.data < p[1]
      BY <2>2, <2>3, <3>1, <3>3, <3>4
    <3>6. Asc(b)
      BY <2>3, <2>4, <3>1
    <3> QED BY <2>4, <2>5, <3>1, <3>2, <3>3, <3>5, <3>6
  <2> QED BY <2>1, <2>5, <2>6, <2>7 DEF Kept
<1> QED BY <1>1, <1>2
LEMMA SlrKeeps ==
  ASSUME NEW t, IsTree(t), t # M!NULL
  PROVE  Kept(M!slr(t), t)
<1>1. CASE t.right = M!NULL
  BY <1>1, KeptSelf DEF M!slr
<1>2. CASE t.right # M!NULL
  <2> DEFINE r == t.right
             a == M!With(t, t.left, r.left)
             s == M!With(r, a, r.right)
  <2>1. M!slr(t) = s
    BY <1>2 DEF M!slr
  <2>2. /\ t.data \in Int /\ IsTree(t.left) /\ IsTree(r)
        /\ Pairs(t) = Pairs(t.left) \cup {<< t.data, t.card >>} \cup Pairs(r)
        /\ Asc(t) <=> /\ Asc(t.left) /\ Asc(r)
                      /\ \A p \in Pairs(t.left) : p[1] < t.data
                      /\ \A p \in Pairs(r) : t.data < p[1]
    BY PairsOf
  <2> HIDE DEF r
  <2>3. /\ r # M!NULL /\ r.data \in Int /\ IsTree(r.left) /\ IsTree(r.right)
        /\ Pairs(r) = Pairs(r.left) \cup {<< r.data, r.card >>} \cup Pairs(r.right)
        /\ Asc(r) <=> /\ Asc(r.left) /\ Asc(r.right)
                      /\ \A p \in Pairs(r.left) : p[1] < r.data
                      /\ \A p \in Pairs(r.right) : r.data < p[1]
    BY <1>2, <2>2, PairsOf DEF r
  <2>4. /\ IsTree(a) /\ a # M!NULL
        /\ Pairs(a) = Pairs(t.left) \cup {<< t.data, t.card >>} \cup Pairs(r.left)
        /\ Asc(a) <=> /\ Asc(t.left) /\ Asc(r.left)
                      /\ \A p \in Pairs(t.left) : p[1] < t.data
                      /\ \A p \in Pairs(r.left) : t.data < p[1]
    BY <2>2, <2>3, WithPairs
  <2> HIDE DEF a
  <2>5. /\ IsTree(s) /\ s # M!NULL
        /\ Pairs(s) = Pairs(a) \cup {<< r.data, r.card >>} \cup Pairs(r.right)
        /\ Asc(s) <=> /\ Asc(a) /\ Asc(r.right)
                      /\ \A p \in Pairs(a) : p[1] < r.data
                      /\ \A p \in Pairs(r.right) : r.data < p[1]
    BY <2>2, <2>3, <2>4, WithPairs
  <2> HIDE DEF s
  <2>6. Pairs(s) = Pairs(t)
    BY <2>2, <2>3, <2>4, <2>5
  <2>7. ASSUME Asc(t) PROVE Asc(s)
    <3>1. /\ Asc(r.left) /\ Asc(r.right) /\ Asc(t.left)
          /\ \A p \in Pairs(r.left) : p[1] < r.data
          /\ \A p \in Pairs(r.right) : r.data < p[1]
          /\ \A p \in Pairs(r) : t.data < p[1]
          /\ \A p \in Pairs(t.left) : p[1] < t.data
      BY <2>2, <2>3, <2>7
    <3>2. << r.data, r.card >> \in Pairs(r) /\ << r.data, r.card >>[1] = r.data
          /\ << t.data, t.card >>[1] = t.data
      BY <2>3
    <3>3. t.data < r.data
      BY <3>1, <3>2
    <3>4. \A p \in Pairs(t.left) : p[1] \in Int
      BY <2>2, PairsOf
    <3>5. \A p \in Pairs(t.left) : p[1] < r.data
      BY <2>2, <2>3, <3>1, <3>3, <3>4
    <3>6. Asc(a)
      BY <2>3, <2>4, <3>1
    <3> QED BY <2>4, <2>5, <3>1, <3>2, <3>3, <3>5, <3>6
  <2> QED BY <2>1, <2>5, <2>6, <2>7 DEF Kept
<1> QED BY <1>1, <1>2

LEMMA RotationsKeep ==
  ASSUME NEW t, IsTree(t), t # M!NULL
  PROVE  Kept(M!srr(t), t) /\ Kept(M!slr(t), t) /\ Kept(M!lrr(t), t) /\ Kept(M!llr(t), t)
<1>1. Kept(M!srr(t), t) /\ Kept(M!slr(t), t)
  BY SrrKeeps, SlrKeeps
<1>2. IsTree(t.left) /\ IsTree(t.right) /\ Kept(t.left, t.left) /\ Kept(t.right, t.right)
  BY TreeParts, KeptSelf
<1>3. Kept(M!lrr(t), t)
  <2> DEFINE u == IF t.left = M!NULL THEN t ELSE M!With(t, M!slr(t.left), t.right)
  <2>1. Kept(u, t)
    BY <1>2, KeptSelf, KeptInside, SlrKeeps
  <2>2. M!lrr(t) = M!srr(u)
    BY DEF M!lrr
  <2> HIDE DEF u
  <2>3. Kept(M!srr(u), u)
    BY <2>1, SrrKeeps DEF Kept
  <2> QED BY <2>1, <2>2, <2>3, KeptThen
<1>4. Kept(M!llr(t), t)
  <2> DEFINE u == IF t.right = M!NULL THEN t ELSE M!With(t, t.left, M!srr(t.right))
  <2>1. Kept(u, t)
    BY <1>2, KeptSelf, KeptInside, SrrKeeps
  <2>2. M!llr(t) = M!slr(u)
    BY DEF M!llr
  <2> HIDE DEF u
  <2>3. Kept(M!slr(u), u)
    BY <2>1, SlrKeeps DEF Kept
  <2> QED BY <2>1, <2>2, <2>3, KeptThen
<1> QED BY <1>1, <1>3, <1>4

LEMMA TurnsKeep ==
  ASSUME NEW t, IsTree(t), t # M!NULL
  PROVE  /\ \A x : Kept(M!GrownLeft(x, t), t) /\ Kept(M!GrownRight(x, t), t)
         /\ Kept(M!Leaning(t), t)
<1>1. Kept(M!srr(t), t) /\ Kept(M!slr(t), t) /\ Kept(M!lrr(t), t) /\ Kept(M!llr(t), t) /\ Kept(t, t)
  BY RotationsKeep, KeptSelf
<1>2. \A x : Kept(M!GrownLeft(x, t), t) /\ Kept(M!GrownRight(x, t), t)
  BY <1>1 DEF M!GrownLeft, M!GrownRight
<1>3. Kept(M!Leaning(t), t)
  BY <1>1 DEF M!Leaning
<1> QED BY <1>2, <1>3

-------------------------------------------------------------------------------
(* insert, searchh and findmin. *)
Named(x, P) == \E p \in P : p[1] = x

(* What insert makes of a tree.                                                *)
Inserted(s, t, x, c) ==
  /\ IsTree(s) /\ Asc(s) /\ s # M!NULL
  /\ Named(x, Pairs(t)) => Pairs(s) = Pairs(t)
  /\ ~Named(x, Pairs(t)) => Pairs(s) = Pairs(t) \cup {<< x, c >>}

LEMMA InsertLeft ==
  ASSUME NEW t, IsTree(t), t # M!NULL, Asc(t), NEW x \in Int, x < t.data, NEW c, NEW l,
         Inserted(l, t.left, x, c)
  PROVE  Inserted(M!GrownLeft(x, M!With(t, l, t.right)), t, x, c)
<1> DEFINE u == M!With(t, l, t.right)
<1>1. /\ IsTree(t.left) /\ IsTree(t.right) /\ t.data \in Int
      /\ Pairs(t) = Pairs(t.left) \cup {<< t.data, t.card >>} \cup Pairs(t.right)
      /\ Asc(t.left) /\ Asc(t.right)
      /\ \A p \in Pairs(t.left) : p[1] < t.data
      /\ \A p \in Pairs(t.right) : t.data < p[1]
  BY PairsOf
<1>2. /\ IsTree(l) /\ Asc(l)
      /\ Named(x, Pairs(t.left)) => Pairs(l) = Pairs(t.left)
      /\ ~Named(x, Pairs(t.left)) => Pairs(l) = Pairs(t.left) \cup {<< x, c >>}
  BY DEF Inserted
<1>3. /\ IsTree(u) /\ u # M!NULL
      /\ Pairs(u) = Pairs(l) \cup {<< t.data, t.card >>} \cup Pairs(t.right)
      /\ Asc(u) <=> /\ Asc(l) /\ Asc(t.right)
                    /\ \A p \in Pairs(l) : p[1] < t.data
                    /\ \A p \in Pairs(t.right) : t.data < p[1]
  BY <1>1, <1>2, WithPairs
<1> HIDE DEF u
<1>4. << x, c >>[1] = x /\ << t.data, t.card >>[1] = t.data
  OBVIOUS
<1>5. \A p \in Pairs(l) : p[1] < t.data
  BY <1>1, <1>2, <1>4
<1>6. \A p \in Pairs(t.right) : p[1] # x
  <2>1. \A p \in Pairs(t.right) : p[1] \in Int
    BY <1>1, PairsOf
  <2> QED BY <1>1, <2>1
<1>7. Named(x, Pairs(t)) <=> Named(x, Pairs(t.left))
  BY <1>1, <1>4, <1>6 DEF Named
<1>8. Inserted(u, t, x, c)
  BY <1>1, <1>2, <1>3, <1>5, <1>7 DEF Inserted
<1>9. Kept(M!GrownLeft(x, u), u)
  BY <1>3, TurnsKeep
<1> QED BY <1>8, <1>9 DEF Kept, Inserted, u

LEMMA InsertRight ==
  ASSUME NEW t, IsTree(t), t # M!NULL, Asc(t), NEW x \in Int, t.data < x, NEW c, NEW r,
         Inserted(r, t.right, x, c)
  PROVE  Inserted(M!GrownRight(x, M!With(t, t.left, r)), t, x, c)
<1> DEFINE u == M!With(t, t.left, r)
<1>1. /\ IsTree(t.left) /\ IsTree(t.right) /\ t.data \in Int
      /\ Pairs(t) = Pairs(t.left) \cup {<< t.data, t.card >>} \cup Pairs(t.right)
      /\ Asc(t.left) /\ Asc(t.right)
      /\ \A p \in Pairs(t.left) : p[1] < t.data
      /\ \A p \in Pairs(t.right) : t.data < p[1]
  BY PairsOf
<1>2. /\ IsTree(r) /\ Asc(r)
      /\ Named(x, Pairs(t.right)) => Pairs(r) = Pairs(t.right)
      /\ ~Named(x, Pairs(t.right)) => Pairs(r) = Pairs(t.right) \cup {<< x, c >>}
  BY DEF Inserted
<1>3. /\ IsTree(u) /\ u # M!NULL
      /\ Pairs(u) = Pairs(t.left) \cup {<< t.data, t.card >>} \cup Pairs(r)
      /\ Asc(u) <=> /\ Asc(t.left) /\ Asc(r)
                    /\ \A p \in Pairs(t.left) : p[1] < t.data
                    /\ \A p \in Pairs(r) : t.data < p[1]
  BY <1>1, <1>2, WithPairs
<1> HIDE DEF u
<1>4. << x, c >>[1] = x /\ << t.data, t.card >>[1] = t.data
  OBVIOUS
<1>5. \A p \in Pairs(r) : t.data < p[1]
  BY <1>1, <1>2, <1>4
<1>6. \A p \in Pairs(t.left) : p[1] # x
  <2>1. \A p \in Pairs(t.left) : p[1] \in Int
    BY <1>1, PairsOf
  <2> QED BY <1>1, <2>1
<1>7. Named(x, Pairs(t)) <=> Named(x, Pairs(t.right))
  BY <1>1, <1>4, <1>6 DEF Named
<1>8. Inserted(u, t, x, c)
  BY <1>1, <1>2, <1>3, <1>5, <1>7 DEF Inserted
<1>9. Kept(M!GrownRight(x, u), u)
  BY <1>3, TurnsKeep
<1> QED BY <1>8, <1>9 DEF Kept, Inserted, u

LEMMA InsertInserts ==
  ASSUME NEW t, IsTree(t), Asc(t), NEW x \in Int, NEW c
  PROVE  Inserted(M!insert(x, c, t), t, x, c)
<1>0. PICK A : Grove(A) /\ t \in A
  BY DEF IsTree
<1> DEFINE G == {s \in A : Asc(s) => Inserted(M!insert(x, c, s), s, x, c)}
<1>1. \A s \in A : IsTree(s)
  BY <1>0 DEF IsTree
<1>2. Inserted(M!insert(x, c, M!NULL), M!NULL, x, c)
  <2> DEFINE s == M!NodeOf(x, c, M!NULL, M!NULL)
  <2>1. M!insert(x, c, M!NULL) = s
    BY NullTree, InsertOf
  <2>2. Pairs(M!NULL) = {} /\ Asc(M!NULL)
    BY NullTree, PairsOf
  <2>3. IsTree(s) /\ s # M!NULL /\ Pairs(s) = {<< x, c >>} /\ Asc(s)
    BY <2>2, NullTree, NodePairs
  <2> QED BY <2>1, <2>2, <2>3 DEF Inserted, Named
<1>3. ASSUME NEW s \in A, s # M!NULL, s.left \in G, s.right \in G PROVE s \in G
  <2> SUFFICES ASSUME Asc(s) PROVE Inserted(M!insert(x, c, s), s, x, c)
    BY DEF G
  <2>1. IsTree(s) /\ Asc(s.left) /\ Asc(s.right) /\ s.data \in Int
        /\ << s.data, s.card >> \in Pairs(s)
    BY <1>1, <1>3, PairsOf
  <2>2. /\ Inserted(M!insert(x, c, s.left), s.left, x, c)
        /\ Inserted(M!insert(x, c, s.right), s.right, x, c)
    BY <1>3, <2>1
  <2>3. CASE x = s.data
    <3>1. M!insert(x, c, s) = s
      BY <1>3, <2>1, <2>3, InsertOf
    <3>2. Named(x, Pairs(s))
      BY <2>1, <2>3 DEF Named
    <3> QED BY <1>3, <2>1, <3>1, <3>2 DEF Inserted
  <2>4. CASE x < s.data
    <3>1. x # s.data
      BY <2>1, <2>4
    <3>2. M!insert(x, c, s) = M!GrownLeft(x, M!With(s, M!insert(x, c, s.left), s.right))
      BY <1>3, <2>1, <2>4, <3>1, InsertOf
    <3> QED BY <1>3, <2>1, <2>2, <2>4, <3>2, InsertLeft
  <2>5. CASE s.data < x
    <3>1. x # s.data /\ ~(x < s.data)
      BY <2>1, <2>5
    <3>2. M!insert(x, c, s) = M!GrownRight(x, M!With(s, s.left, M!insert(x, c, s.right)))
      BY <1>3, <2>1, <3>1, InsertOf
    <3> QED BY <1>3, <2>1, <2>2, <2>5, <3>2, InsertRight
  <2> QED BY <2>1, <2>3, <2>4, <2>5
<1>4. M!NULL \in A => M!NULL \in G
  BY <1>2
<1> HIDE DEF G
<1>5. t \in G
  BY <1>0, <1>3, <1>4, TreeInduction
<1> QED BY <1>5 DEF G

(* Search finds every node, and nothing where there is none.                   *)
LEMMA SearchFinds ==
  ASSUME NEW t, IsTree(t), Asc(t), NEW x \in Int
  PROVE  /\ \A u \in Nodes(t) : u.data = x => M!searchh(x, t) = u
         /\ (\A u \in Nodes(t) : u.data # x) => M!searchh(x, t) = M!NULL
<1>0. PICK A : Grove(A) /\ t \in A
  BY DEF IsTree
<1> DEFINE Found(s) == /\ \A u \in Nodes(s) : u.data = x => M!searchh(x, s) = u
                       /\ (\A u \in Nodes(s) : u.data # x) => M!searchh(x, s) = M!NULL
           G == {s \in A : Asc(s) => Found(s)}
<1>1. \A s \in A : IsTree(s)
  BY <1>0 DEF IsTree
<1>2. Found(M!NULL)
  BY NullTree, NodesJoined, SearchOf
<1>3. ASSUME NEW s \in A, s # M!NULL, s.left \in G, s.right \in G PROVE s \in G
  <2> SUFFICES ASSUME Asc(s) PROVE Found(s)
    BY DEF G
  <2>1. /\ IsTree(s) /\ IsTree(s.left) /\ IsTree(s.right) /\ s.data \in Int
        /\ Nodes(s) = Nodes(s.left) \cup {s} \cup Nodes(s.right)
        /\ Asc(s.left) /\ Asc(s.right)
        /\ \A u \in Nodes(s.left) : u.data < s.data
        /\ \A u \in Nodes(s.right) : s.data < u.data
    BY <1>1, <1>3, NodesJoined, TreeParts
  <2>2. Found(s.left) /\ Found(s.right)
    BY <1>3, <2>1
  <2>3. (\A u \in Nodes(s.left) : u.data \in Int) /\ (\A u \in Nodes(s.right) : u.data \in Int)
    BY <2>1, WrittenNodes
  <2>4. M!searchh(x, s) = IF x = s.data THEN s ELSE IF x < s.data THEN M!searchh(x, s.left) ELSE M!searchh(x, s.right)
    BY <1>3, <2>1, SearchOf
  <2>5. CASE x = s.data
    <3>1. \A u \in Nodes(s) : u.data = x => u = s
      BY <2>1, <2>3, <2>5
    <3> QED BY <2>1, <2>4, <2>5, <3>1
  <2>6. CASE x < s.data
    <3>1. x # s.data /\ \A u \in Nodes(s.right) : u.data # x
      BY <2>1, <2>3, <2>6
    <3>2. M!searchh(x, s) = M!searchh(x, s.left)
      BY <2>4, <2>6, <3>1
    <3> QED BY <2>1, <2>2, <3>1, <3>2
  <2>7. CASE s.data < x
    <3>1. x # s.data /\ ~(x < s.data) /\ \A u \in Nodes(s.left) : u.data # x
      BY <2>1, <2>3, <2>7
    <3>2. M!searchh(x, s) = M!searchh(x, s.right)
      BY <2>4, <3>1
    <3> QED BY <2>1, <2>2, <3>1, <3>2
  <2> QED BY <2>1, <2>5, <2>6, <2>7
<1>4. M!NULL \in A => M!NULL \in G
  BY <1>2
<1> HIDE DEF G
<1>5. t \in G
  BY <1>0, <1>3, <1>4, TreeInduction
<1> QED BY <1>5 DEF G

(* The first node of a tree.                                                   *)
LEMMA FindminFinds ==
  ASSUME NEW t, IsTree(t), t # M!NULL
  PROVE  /\ M!findmin(t) \in Nodes(t)
         /\ Asc(t) => \A u \in Nodes(t) : u = M!findmin(t) \/ M!findmin(t).data < u.data
<1>0. PICK A : Grove(A) /\ t \in A
  BY DEF IsTree
<1> DEFINE First(s) == /\ M!findmin(s) \in Nodes(s)
                       /\ Asc(s) => \A u \in Nodes(s) : u = M!findmin(s) \/ M!findmin(s).data < u.data
           G == {s \in A : s # M!NULL => First(s)}
<1>1. \A s \in A : IsTree(s)
  BY <1>0 DEF IsTree
<1>2. M!NULL \in A => M!NULL \in G
  OBVIOUS
<1>3. ASSUME NEW s \in A, s # M!NULL, s.left \in G, s.right \in G PROVE First(s)
  <2>1. /\ IsTree(s) /\ IsTree(s.left) /\ IsTree(s.right) /\ s.data \in Int
        /\ Nodes(s) = Nodes(s.left) \cup {s} \cup Nodes(s.right)
        /\ Asc(s) => /\ Asc(s.left)
                     /\ \A u \in Nodes(s.left) : u.data < s.data
                     /\ \A u \in Nodes(s.right) : s.data < u.data
    BY <1>1, <1>3, NodesJoined, TreeParts
  <2>2. M!findmin(s) = IF s.left = M!NULL THEN s ELSE M!findmin(s.left)
    BY <1>3, <2>1, FindminOf
  <2>3. CASE s.left = M!NULL
    <3>1. Nodes(s.left) = {}
      BY <2>1, <2>3, NodesJoined
    <3> QED BY <2>1, <2>2, <2>3, <3>1
  <2>4. CASE s.left # M!NULL
    <3> DEFINE m == M!findmin(s.left)
    <3>1. M!findmin(s) = m
      BY <2>2, <2>4
    <3>2. m \in Nodes(s.left) /\ (Asc(s.left) => \A u \in Nodes(s.left) : u = m \/ m.data < u.data)
      BY <1>3, <2>4
    <3>3. (\A u \in Nodes(s.left) : u.data \in Int) /\ (\A u \in Nodes(s.right) : u.data \in Int)
      BY <2>1, WrittenNodes
    <3> HIDE DEF m
    <3>4. ASSUME Asc(s), NEW u \in Nodes(s) PROVE u = m \/ m.data < u.data
      <4>1. m.data < s.data /\ m.data \in Int
        BY <2>1, <3>2, <3>3, <3>4
      <4>2. u \in Nodes(s.right) => m.data < u.data
        BY <2>1, <3>3, <3>4, <4>1
      <4> QED BY <2>1, <3>2, <3>4, <4>1, <4>2
    <3> QED BY <2>1, <3>1, <3>2, <3>4
  <2> QED BY <2>3, <2>4
<1>4. \A s \in A : s # M!NULL /\ s.left \in G /\ s.right \in G => s \in G
  <2> HIDE DEF First
  <2> QED BY <1>3
<1> HIDE DEF G
<1>5. t \in G
  BY <1>0, <1>2, <1>4, TreeInduction
<1> QED BY <1>5 DEF G

-------------------------------------------------------------------------------
(* remove. *)
LEMMA WithoutNull == \A y, l, r : M!Without(M!NULL, y, l, r) = M!NULL
BY DEF M!Without

RemoveRule(A, names, f) ==
  [s \in A |-> [y \in names |-> M!Without(s, y, f[s.left], f[s.right])]]

LEMMA RemoveExists ==
  ASSUME NEW names, NEW A, Grove(A), NEW h \in Nat, \A s \in A : s.height < h
  PROVE  \E f : f = RemoveRule(A, names, f)
<1> DEFINE low(n) == {s \in A : s.height < n}
           S == {n \in Nat : \E f : f = RemoveRule(low(n), names, f)}
<1>1. 0 \in S
  <2>1. \A s \in low(0) : s = M!NULL
    BY GroveHeights
  <2> DEFINE g == RemoveRule(low(0), names, << >>)
  <2>2. g = RemoveRule(low(0), names, g)
    BY <2>1, WithoutNull DEF RemoveRule
  <2> QED BY <2>2
<1>2. ASSUME NEW n \in Nat, n \in S PROVE n + 1 \in S
  <2>1. PICK f : f = RemoveRule(low(n), names, f)
    BY <1>2
  <2> DEFINE g == RemoveRule(low(n + 1), names, f)
  <2>2. ASSUME NEW u \in low(n) PROVE g[u] = f[u]
    <3>1. u \in low(n + 1)
      BY GroveHeights
    <3>2. RemoveRule(low(n), names, f)[u] = RemoveRule(low(n + 1), names, f)[u]
      BY <3>1, Zenon DEF RemoveRule
    <3> QED BY <2>1, <3>2, Zenon
  <2>3. ASSUME NEW s \in low(n + 1), s # M!NULL PROVE g[s.left] = f[s.left] /\ g[s.right] = f[s.right]
    <3>1. s.left \in low(n) /\ s.right \in low(n)
      BY <2>3, GroveHeights
    <3> HIDE DEF g, low
    <3> QED BY <2>2, <3>1
  <2> HIDE DEF low
  <2>4. RemoveRule(low(n + 1), names, f) = RemoveRule(low(n + 1), names, g)
    <3> HIDE DEF g
    <3>1. ASSUME NEW s \in low(n + 1), NEW y \in names
          PROVE  M!Without(s, y, f[s.left], f[s.right]) = M!Without(s, y, g[s.left], g[s.right])
      <4>1. CASE s = M!NULL
        BY <4>1, WithoutNull
      <4>2. CASE s # M!NULL
        BY <2>3, <4>2
      <4> QED BY <4>1, <4>2
    <3> QED BY <3>1 DEF RemoveRule
  <2>5. g = RemoveRule(low(n + 1), names, g)
    BY <2>4, Zenon
  <2> HIDE DEF g
  <2> QED BY <2>5
<1>3. h \in S
  <2> HIDE DEF S
  <2> QED BY <1>1, <1>2, Induction
<1>4. low(h) = A
  OBVIOUS
<1> HIDE DEF low
<1> QED BY <1>3, <1>4


LEMMA WithoutSame ==
  ASSUME NEW s, NEW y, NEW l, NEW r, NEW m, NEW q, l[y] = m[y], r[y] = q[y],
         s.right # M!NULL => r[M!findmin(s.right).data] = q[M!findmin(s.right).data]
  PROVE  M!Without(s, y, l, r) = M!Without(s, y, m, q)
BY DEF M!Without

DataOf(A) == {s.data : s \in {u \in A : u # M!NULL}}

LEMMA NodesInGrove ==
  ASSUME NEW A, Grove(A), NEW t \in A
  PROVE  Nodes(t) \subseteq {u \in A : u # M!NULL}
<1> DEFINE w == M!Written(t)
           V == {u \in A : u # M!NULL}
<1>1. w \in Seq(V)
  BY WrittenType
<1> HIDE DEF w, V
<1>2. \A i \in 1 .. Len(w) : w[i] \in V
  BY <1>1
<1> QED BY <1>2 DEF Nodes, Members, w, V

LEMMA FindminInGrove ==
  ASSUME NEW A, Grove(A), NEW t \in A, t # M!NULL
  PROVE  M!findmin(t).data \in DataOf(A)
<1>1. IsTree(t)
  BY DEF IsTree
<1>2. M!findmin(t) \in Nodes(t)
  BY <1>1, FindminFinds
<1> QED BY <1>2, NodesInGrove DEF DataOf

LEMMA RemoveUnique ==
  ASSUME NEW A, Grove(A), NEW B, Grove(B), NEW N, DataOf(A) \subseteq N, NEW O, DataOf(B) \subseteq O,
         NEW f, f = RemoveRule(A, N, f), NEW g, g = RemoveRule(B, O, g)
  PROVE  \A s \in A \cap B : \A y \in N \cap O : f[s][y] = g[s][y]
<1> DEFINE G == {s \in A \cap B : \A y \in N \cap O : f[s][y] = g[s][y]}
<1>1. \A s \in A \cap B : f[s] = RemoveRule(A, N, f)[s] /\ g[s] = RemoveRule(B, O, g)[s]
  BY Zenon
<1>2. \A s \in A \cap B : \A y \in N \cap O :
        /\ f[s][y] = M!Without(s, y, f[s.left], f[s.right])
        /\ g[s][y] = M!Without(s, y, g[s.left], g[s.right])
  <2> TAKE s \in A \cap B
  <2> TAKE y \in N \cap O
  <2>1. RemoveRule(A, N, f)[s][y] = M!Without(s, y, f[s.left], f[s.right])
    BY DEF RemoveRule
  <2>2. RemoveRule(B, O, g)[s][y] = M!Without(s, y, g[s.left], g[s.right])
    BY DEF RemoveRule
  <2> QED BY <1>1, <2>1, <2>2, Zenon
<1>3. M!NULL \in A \cap B => M!NULL \in G
  BY <1>2, WithoutNull
<1>4. ASSUME NEW s \in A \cap B, s # M!NULL, s.left \in G, s.right \in G PROVE s \in G
  <2> SUFFICES ASSUME NEW y \in N \cap O
               PROVE  M!Without(s, y, f[s.left], f[s.right]) = M!Without(s, y, g[s.left], g[s.right])
    BY <1>2 DEF G
  <2>1. f[s.left][y] = g[s.left][y] /\ \A z \in N \cap O : f[s.right][z] = g[s.right][z]
    BY <1>4
  <2>2. s.right \in A \cap B
    BY <1>4
  <2> HIDE DEF G
  <2>3. s.right # M!NULL => M!findmin(s.right).data \in N \cap O
    BY <2>2, FindminInGrove
  <2> QED BY <2>1, <2>3, WithoutSame
<1> HIDE DEF G
<1>5. \A s \in A \cap B : s \in G
  BY <1>3, <1>4, GroveUnion, TreeInduction
<1> QED BY <1>5 DEF G

NamesFor(x, t) == {x} \cup {s.data : s \in M!NodesBelow(t) \ {M!NULL}}

LEMMA RemoveOfNodes ==
  ASSUME NEW x, NEW t, IsTree(t)
  PROVE  \E f : f = RemoveRule(M!NodesBelow(t), NamesFor(x, t), f) /\ M!remove(x, t) = f[t][x]
<1> DEFINE B == M!NodesBelow(t)
           N == NamesFor(x, t)
           F == CHOOSE f : f = RemoveRule(B, N, f)
<1>1. M!remove(x, t) = F[t][x]
  BY DEF M!remove, RemoveRule, NamesFor
<1> HIDE DEF F
<1>2. Grove(B) /\ t \in B /\ (\A s \in B : s.height <= t.height) /\ t.height \in Int /\ t.height >= -1
  BY NodesOfTree, TreeParts
<1> HIDE DEF B, N
<1>3. t.height + 1 \in Nat /\ \A s \in B : s.height < t.height + 1
  BY <1>2, GroveHeights
<1>4. \E f : f = RemoveRule(B, N, f)
  BY <1>2, <1>3, RemoveExists
<1>5. F = RemoveRule(B, N, F)
  BY <1>4 DEF F
<1> QED BY <1>1, <1>5 DEF B, N

(* What a function of the whole tree has for a node below is what remove makes of that node. *)
LEMMA RemoveBelow ==
  ASSUME NEW x, NEW t, IsTree(t), NEW f, f = RemoveRule(M!NodesBelow(t), NamesFor(x, t), f),
         NEW u \in M!NodesBelow(t), NEW y \in NamesFor(x, t)
  PROVE  M!remove(y, u) = f[u][y]
<1> DEFINE A == M!NodesBelow(t)
           N == NamesFor(x, t)
           B == M!NodesBelow(u)
           O == NamesFor(y, u)
<1>1. Grove(A) /\ t \in A
  BY NodesOfTree
<1>2. IsTree(u)
  BY <1>1 DEF IsTree
<1>3. PICK g : g = RemoveRule(B, O, g) /\ M!remove(y, u) = g[u][y]
  BY <1>2, RemoveOfNodes
<1>4. Grove(B) /\ u \in B
  BY <1>2, NodesOfTree
<1>5. DataOf(A) \subseteq N /\ DataOf(B) \subseteq O /\ y \in O /\ y \in N
  BY DEF NamesFor, DataOf
<1>6. f = RemoveRule(A, N, f) /\ u \in A
  OBVIOUS
<1> HIDE DEF A, B, N, O
<1>7. u \in A \cap B /\ y \in N \cap O
  BY <1>4, <1>5, <1>6
<1>8. \A s \in A \cap B : \A z \in N \cap O : f[s][z] = g[s][z]
  BY <1>1, <1>3, <1>4, <1>5, <1>6, RemoveUnique
<1> QED BY <1>3, <1>7, <1>8

LEMMA RemoveOf ==
  ASSUME NEW x, NEW t, IsTree(t)
  PROVE  /\ t = M!NULL => M!remove(x, t) = M!NULL
         /\ t # M!NULL =>
              M!remove(x, t) =
                IF x < t.data THEN M!Leaning(M!With(t, M!remove(x, t.left), t.right))
                ELSE IF x > t.data THEN M!Leaning(M!With(t, t.left, M!remove(x, t.right)))
                ELSE IF t.left = M!NULL /\ t.right = M!NULL THEN M!NULL
                ELSE IF t.left = M!NULL THEN M!Leaning(t.right)
                ELSE IF t.right = M!NULL THEN M!Leaning(t.left)
                ELSE LET least == M!findmin(t.right)
                     IN M!Leaning(M!NodeOf(least.data, least.card, t.left, M!remove(least.data, t.right)))
<1> DEFINE B == M!NodesBelow(t)
           N == NamesFor(x, t)
<1>1. PICK f : f = RemoveRule(B, N, f) /\ M!remove(x, t) = f[t][x]
  BY RemoveOfNodes
<1>2. Grove(B) /\ t \in B /\ x \in N /\ DataOf(B) \subseteq N
  BY NodesOfTree DEF NamesFor, DataOf
<1>3. \A u \in B : \A y \in N : M!remove(y, u) = f[u][y]
  BY <1>1, RemoveBelow
<1> HIDE DEF B, N
<1>4. f[t] = RemoveRule(B, N, f)[t]
  BY <1>1, Zenon
<1>5. M!remove(x, t) = M!Without(t, x, f[t.left], f[t.right])
  BY <1>1, <1>2, <1>4 DEF RemoveRule
<1>6. ASSUME t # M!NULL
      PROVE  /\ f[t.left][x] = M!remove(x, t.left) /\ f[t.right][x] = M!remove(x, t.right)
             /\ t.right # M!NULL =>
                  f[t.right][M!findmin(t.right).data] = M!remove(M!findmin(t.right).data, t.right)
  <2>1. t.left \in B /\ t.right \in B
    BY <1>2, <1>6, GroveHeights
  <2>2. t.right # M!NULL => M!findmin(t.right).data \in N
    BY <1>2, <2>1, FindminInGrove
  <2> QED BY <1>2, <1>3, <2>1, <2>2
<1>7. t # M!NULL =>
        M!Without(t, x, f[t.left], f[t.right]) =
          IF x < t.data THEN M!Leaning(M!With(t, f[t.left][x], t.right))
          ELSE IF x > t.data THEN M!Leaning(M!With(t, t.left, f[t.right][x]))
          ELSE IF t.left = M!NULL /\ t.right = M!NULL THEN M!NULL
          ELSE IF t.left = M!NULL THEN M!Leaning(t.right)
          ELSE IF t.right = M!NULL THEN M!Leaning(t.left)
          ELSE LET least == M!findmin(t.right)
               IN M!Leaning(M!NodeOf(least.data, least.card, t.left, f[t.right][least.data]))
  BY DEF M!Without
<1> QED BY <1>5, <1>6, <1>7, WithoutNull

(* What remove makes of a tree.                                                *)
Removed(s, t, x) == IsTree(s) /\ Asc(s) /\ Pairs(s) = {p \in Pairs(t) : p[1] # x}

LEMMA RemoveLeaning ==
  ASSUME NEW s, NEW t, NEW x, Removed(s, t, x), s # M!NULL
  PROVE  Removed(M!Leaning(s), t, x)
<1>1. Kept(M!Leaning(s), s)
  BY TurnsKeep DEF Removed
<1> QED BY <1>1 DEF Kept, Removed

(* A node with two children: its successor takes its place.                    *)
LEMMA RemoveJoins ==
  ASSUME NEW t, IsTree(t), Asc(t), t # M!NULL, t.right # M!NULL, NEW s,
         Removed(s, t.right, M!findmin(t.right).data)
  PROVE  LET least == M!findmin(t.right)
             u == M!NodeOf(least.data, least.card, t.left, s)
         IN Removed(u, t, t.data) /\ u # M!NULL
<1> DEFINE least == M!findmin(t.right)
           u == M!NodeOf(least.data, least.card, t.left, s)
<1>1. /\ IsTree(t.left) /\ IsTree(t.right) /\ t.data \in Int
      /\ Pairs(t) = Pairs(t.left) \cup {<< t.data, t.card >>} \cup Pairs(t.right)
      /\ Asc(t.left) /\ Asc(t.right)
      /\ \A p \in Pairs(t.left) : p[1] < t.data
      /\ \A p \in Pairs(t.right) : t.data < p[1]
  BY PairsOf
<1>2. /\ least \in Nodes(t.right)
      /\ \A n \in Nodes(t.right) : n = least \/ least.data < n.data
  BY <1>1, FindminFinds
<1>3. IsTree(s) /\ Asc(s) /\ Pairs(s) = {p \in Pairs(t.right) : p[1] # least.data}
  BY DEF Removed
<1> HIDE DEF least
<1>4. /\ least.data \in Int /\ << least.data, least.card >> \in Pairs(t.right)
      /\ << least.data, least.card >>[1] = least.data /\ << t.data, t.card >>[1] = t.data
  BY <1>1, <1>2, WrittenNodes, PairsOf
<1>5. \A p \in Pairs(t.right) : p = << least.data, least.card >> \/ least.data < p[1]
  <2> TAKE p \in Pairs(t.right)
  <2>1. PICK n \in Nodes(t.right) : p = << n.data, n.card >>
    BY DEF Pairs
  <2>2. p[1] = n.data
    BY <2>1
  <2> QED BY <1>2, <2>1, <2>2
<1>6. /\ (\A p \in Pairs(t.left) : p[1] \in Int) /\ (\A p \in Pairs(t.right) : p[1] \in Int)
  BY <1>1, PairsOf
<1>7. t.data < least.data
  BY <1>1, <1>4
<1>8. \A p \in Pairs(t.left) : p[1] < least.data
  BY <1>1, <1>4, <1>6, <1>7
<1>9. \A p \in Pairs(s) : least.data < p[1]
  BY <1>3, <1>4, <1>5
<1>10. /\ IsTree(u) /\ u # M!NULL
       /\ Pairs(u) = Pairs(t.left) \cup {<< least.data, least.card >>} \cup Pairs(s)
       /\ Asc(u)
  BY <1>1, <1>3, <1>4, <1>8, <1>9, NodePairs
<1> HIDE DEF u
<1>11. Pairs(s) \cup {<< least.data, least.card >>} = Pairs(t.right)
  <2>1. \A p \in Pairs(t.right) : p[1] = least.data => p = << least.data, least.card >>
    BY <1>4, <1>5, <1>6
  <2> QED BY <1>3, <1>4, <2>1
<1>12. Pairs(u) = Pairs(t.left) \cup Pairs(t.right)
  BY <1>10, <1>11
<1>13. {p \in Pairs(t) : p[1] # t.data} = Pairs(t.left) \cup Pairs(t.right)
  <2>1. \A p \in Pairs(t.left) \cup Pairs(t.right) : p[1] # t.data
    BY <1>1, <1>6
  <2> QED BY <1>1, <1>4, <2>1
<1> QED BY <1>10, <1>12, <1>13 DEF Removed, u, least

LEMMA RemoveRemoves ==
  ASSUME NEW t, IsTree(t), Asc(t), NEW x \in Int
  PROVE  Removed(M!remove(x, t), t, x)
<1>0. PICK A : Grove(A) /\ t \in A
  BY DEF IsTree
<1> DEFINE G == {s \in A : Asc(s) => \A y \in Int : Removed(M!remove(y, s), s, y)}
<1>1. \A s \in A : IsTree(s)
  BY <1>0 DEF IsTree
<1>2. M!NULL \in A => M!NULL \in G
  <2>1. Pairs(M!NULL) = {} /\ Asc(M!NULL) /\ \A y \in Int : M!remove(y, M!NULL) = M!NULL
    BY NullTree, PairsOf, RemoveOf
  <2> QED BY <2>1, NullTree DEF Removed
<1>3. ASSUME NEW s \in A, s # M!NULL, s.left \in G, s.right \in G PROVE s \in G
  <2> SUFFICES ASSUME Asc(s), NEW y \in Int PROVE Removed(M!remove(y, s), s, y)
    BY DEF G
  <2>1. /\ IsTree(s) /\ IsTree(s.left) /\ IsTree(s.right) /\ s.data \in Int
        /\ Pairs(s) = Pairs(s.left) \cup {<< s.data, s.card >>} \cup Pairs(s.right)
        /\ Asc(s.left) /\ Asc(s.right)
        /\ \A p \in Pairs(s.left) : p[1] < s.data
        /\ \A p \in Pairs(s.right) : s.data < p[1]
    BY <1>1, <1>3, PairsOf
  <2>2. /\ \A z \in Int : Removed(M!remove(z, s.left), s.left, z)
        /\ \A z \in Int : Removed(M!remove(z, s.right), s.right, z)
    BY <1>3, <2>1
  <2>3. (\A p \in Pairs(s.left) : p[1] \in Int) /\ (\A p \in Pairs(s.right) : p[1] \in Int)
        /\ << s.data, s.card >>[1] = s.data
    BY <2>1, PairsOf
  <2>4. CASE y < s.data
    <3> DEFINE l == M!remove(y, s.left)
               u == M!With(s, l, s.right)
    <3>1. M!remove(y, s) = M!Leaning(u)
      BY <1>3, <2>1, <2>4, RemoveOf
    <3>2. IsTree(l) /\ Asc(l) /\ Pairs(l) = {p \in Pairs(s.left) : p[1] # y}
      BY <2>2 DEF Removed
    <3> HIDE DEF l
    <3>3. IsTree(u) /\ u # M!NULL /\ Asc(u) /\ Pairs(u) = Pairs(l) \cup {<< s.data, s.card >>} \cup Pairs(s.right)
      BY <1>3, <2>1, <3>2, WithPairs
    <3> HIDE DEF u
    <3>4. s.data # y /\ \A p \in Pairs(s.right) : p[1] # y
      BY <2>1, <2>3, <2>4
    <3>5. Pairs(u) = {p \in Pairs(s) : p[1] # y}
      BY <2>1, <2>3, <3>2, <3>3, <3>4
    <3>6. Removed(u, s, y)
      BY <3>3, <3>5 DEF Removed
    <3> QED BY <3>1, <3>3, <3>6, RemoveLeaning
  <2>5. CASE s.data < y
    <3> DEFINE r == M!remove(y, s.right)
               u == M!With(s, s.left, r)
    <3>0. ~(y < s.data) /\ y > s.data
      BY <2>1, <2>5
    <3>1. M!remove(y, s) = M!Leaning(u)
      BY <1>3, <2>1, <3>0, RemoveOf
    <3>2. IsTree(r) /\ Asc(r) /\ Pairs(r) = {p \in Pairs(s.right) : p[1] # y}
      BY <2>2 DEF Removed
    <3> HIDE DEF r
    <3>3. IsTree(u) /\ u # M!NULL /\ Asc(u) /\ Pairs(u) = Pairs(s.left) \cup {<< s.data, s.card >>} \cup Pairs(r)
      BY <1>3, <2>1, <3>2, WithPairs
    <3> HIDE DEF u
    <3>4. s.data # y /\ \A p \in Pairs(s.left) : p[1] # y
      BY <2>1, <2>3, <2>5
    <3>5. Pairs(u) = {p \in Pairs(s) : p[1] # y}
      BY <2>1, <2>3, <3>2, <3>3, <3>4
    <3>6. Removed(u, s, y)
      BY <3>3, <3>5 DEF Removed
    <3> QED BY <3>1, <3>3, <3>6, RemoveLeaning
  <2>6. CASE y = s.data
    <3>0. ~(y < s.data) /\ ~(y > s.data)
      BY <2>1, <2>6
    <3>1. M!remove(y, s) =
            IF s.left = M!NULL /\ s.right = M!NULL THEN M!NULL
            ELSE IF s.left = M!NULL THEN M!Leaning(s.right)
            ELSE IF s.right = M!NULL THEN M!Leaning(s.left)
            ELSE LET least == M!findmin(s.right)
                 IN M!Leaning(M!NodeOf(least.data, least.card, s.left, M!remove(least.data, s.right)))
      BY <1>3, <2>1, <3>0, RemoveOf
    <3>2. {p \in Pairs(s) : p[1] # y} = Pairs(s.left) \cup Pairs(s.right)
      <4>1. \A p \in Pairs(s.left) \cup Pairs(s.right) : p[1] # s.data
        BY <2>1, <2>3
      <4> QED BY <2>1, <2>3, <2>6, <4>1
    <3>3. Pairs(M!NULL) = {} /\ Asc(M!NULL) /\ IsTree(M!NULL)
      BY NullTree, PairsOf
    <3>4. CASE s.left = M!NULL /\ s.right = M!NULL
      BY <3>1, <3>2, <3>3, <3>4 DEF Removed
    <3>5. CASE s.left = M!NULL /\ s.right # M!NULL
      <4>1. Removed(s.right, s, y)
        BY <2>1, <3>2, <3>3, <3>5 DEF Removed
      <4> QED BY <3>1, <3>5, <4>1, RemoveLeaning
    <3>6. CASE s.left # M!NULL /\ s.right = M!NULL
      <4>1. Removed(s.left, s, y)
        BY <2>1, <3>2, <3>3, <3>6 DEF Removed
      <4> QED BY <3>1, <3>6, <4>1, RemoveLeaning
    <3>7. CASE s.left # M!NULL /\ s.right # M!NULL
      <4> DEFINE least == M!findmin(s.right)
                 u == M!NodeOf(least.data, least.card, s.left, M!remove(least.data, s.right))
      <4>1. M!remove(y, s) = M!Leaning(u)
        BY <3>1, <3>7
      <4>2. least \in Nodes(s.right)
        BY <2>1, <3>7, FindminFinds
      <4>3. least.data \in Int
        BY <2>1, <4>2, WrittenNodes
      <4>4. Removed(M!remove(least.data, s.right), s.right, least.data)
        BY <2>2, <4>3
      <4>5. Removed(u, s, s.data) /\ u # M!NULL
        BY <1>1, <1>3, <3>7, <4>4, RemoveJoins
      <4> HIDE DEF u
      <4> QED BY <2>6, <4>1, <4>5, RemoveLeaning
    <3> QED BY <3>4, <3>5, <3>6, <3>7
  <2> QED BY <2>1, <2>4, <2>5, <2>6
<1> HIDE DEF G
<1>5. t \in G
  BY <1>0, <1>2, <1>3, TreeInduction
<1> QED BY <1>5 DEF G

-------------------------------------------------------------------------------
(* The loops over a sequence, a step at a time. *)
CopySoFar(a, b, k, f) ==
  [n \in 0 .. k |-> IF n = 0 THEN a ELSE M!insert(M!Preorder(b)[n].data, M!Preorder(b)[n].card, f[n - 1])]

CopyUpTo(a, b, k, f) ==
  /\ f[0] = a
  /\ \A n \in 1 .. k : f[n] = M!insert(M!Preorder(b)[n].data, M!Preorder(b)[n].card, f[n - 1])

LEMMA CopyRule ==
  ASSUME NEW a, NEW b, Len(M!Preorder(b)) \in Nat
  PROVE  \E f : CopyUpTo(a, b, Len(M!Preorder(b)), f) /\ M!copy(a, b) = f[Len(M!Preorder(b))]
<1> DEFINE S == {k \in Nat : \E f : f = CopySoFar(a, b, k, f)}
<1>1. 0 \in S
  <2> DEFINE g == CopySoFar(a, b, 0, << >>)
  <2>1. g = CopySoFar(a, b, 0, g)
    BY DEF CopySoFar
  <2> QED BY <2>1
<1>2. ASSUME NEW k \in Nat, k \in S PROVE k + 1 \in S
  <2>1. PICK f : f = CopySoFar(a, b, k, f)
    BY <1>2
  <2> DEFINE g == CopySoFar(a, b, k + 1, f)
  <2>2. ASSUME NEW n \in 0 .. k PROVE g[n] = f[n]
    <3>1. n \in 0 .. k + 1
      OBVIOUS
    <3>2. CopySoFar(a, b, k, f)[n] = CopySoFar(a, b, k + 1, f)[n]
      BY <3>1, Zenon DEF CopySoFar
    <3> QED BY <2>1, <3>2, Zenon
  <2>3. ASSUME NEW n \in 0 .. k + 1, n # 0 PROVE g[n - 1] = f[n - 1]
    <3>1. n - 1 \in 0 .. k
      BY <2>3
    <3> HIDE DEF g
    <3> QED BY <2>2, <3>1
  <2>4. CopySoFar(a, b, k + 1, f) = CopySoFar(a, b, k + 1, g)
    <3> HIDE DEF g
    <3> QED BY <2>3 DEF CopySoFar
  <2>5. g = CopySoFar(a, b, k + 1, g)
    BY <2>4, Zenon
  <2> HIDE DEF g
  <2> QED BY <2>5
<1>3. Len(M!Preorder(b)) \in S
  <2> HIDE DEF S
  <2> QED BY <1>1, <1>2, Induction
<1> DEFINE F == CHOOSE f : f = CopySoFar(a, b, Len(M!Preorder(b)), f)
<1>4. M!copy(a, b) = F[Len(M!Preorder(b))]
  BY DEF M!copy, CopySoFar
<1>5. F = CopySoFar(a, b, Len(M!Preorder(b)), F)
  <2>1. \E f : f = CopySoFar(a, b, Len(M!Preorder(b)), f)
    BY <1>3
  <2> QED BY <2>1
<1> HIDE DEF F
<1>6. \A n \in 0 .. Len(M!Preorder(b)) : F[n] = CopySoFar(a, b, Len(M!Preorder(b)), F)[n]
  BY <1>5, Zenon
<1>7. CopyUpTo(a, b, Len(M!Preorder(b)), F)
  <2>1. 0 \in 0 .. Len(M!Preorder(b)) /\ \A n \in 1 .. Len(M!Preorder(b)) : n \in 0 .. Len(M!Preorder(b)) /\ n # 0
    OBVIOUS
  <2>2. \A n \in 0 .. Len(M!Preorder(b)) :
          CopySoFar(a, b, Len(M!Preorder(b)), F)[n] = IF n = 0 THEN a ELSE M!insert(M!Preorder(b)[n].data, M!Preorder(b)[n].card, F[n - 1])
    BY DEF CopySoFar
  <2> QED BY <1>6, <2>1, <2>2 DEF CopyUpTo
<1> QED BY <1>4, <1>7

ReadSoFar(recipes, k, f) ==
  [n \in 0 .. k |-> IF n = 0 THEN M!NULL ELSE M!insert(recipes[n].name, M!Listed(recipes[n].card), f[n - 1])]

ReadUpTo(recipes, k, f) ==
  /\ f[0] = M!NULL
  /\ \A n \in 1 .. k : f[n] = M!insert(recipes[n].name, M!Listed(recipes[n].card), f[n - 1])

LEMMA ReadRule ==
  ASSUME NEW recipes, Len(recipes) \in Nat
  PROVE  \E f : ReadUpTo(recipes, Len(recipes), f) /\ M!ReadRecipes(recipes) = f[Len(recipes)]
<1> DEFINE S == {k \in Nat : \E f : f = ReadSoFar(recipes, k, f)}
<1>1. 0 \in S
  <2> DEFINE g == ReadSoFar(recipes, 0, << >>)
  <2>1. g = ReadSoFar(recipes, 0, g)
    BY DEF ReadSoFar
  <2> QED BY <2>1
<1>2. ASSUME NEW k \in Nat, k \in S PROVE k + 1 \in S
  <2>1. PICK f : f = ReadSoFar(recipes, k, f)
    BY <1>2
  <2> DEFINE g == ReadSoFar(recipes, k + 1, f)
  <2>2. ASSUME NEW n \in 0 .. k PROVE g[n] = f[n]
    <3>1. n \in 0 .. k + 1
      OBVIOUS
    <3>2. ReadSoFar(recipes, k, f)[n] = ReadSoFar(recipes, k + 1, f)[n]
      BY <3>1, Zenon DEF ReadSoFar
    <3> QED BY <2>1, <3>2, Zenon
  <2>3. ASSUME NEW n \in 0 .. k + 1, n # 0 PROVE g[n - 1] = f[n - 1]
    <3>1. n - 1 \in 0 .. k
      BY <2>3
    <3> HIDE DEF g
    <3> QED BY <2>2, <3>1
  <2>4. ReadSoFar(recipes, k + 1, f) = ReadSoFar(recipes, k + 1, g)
    <3> HIDE DEF g
    <3> QED BY <2>3 DEF ReadSoFar
  <2>5. g = ReadSoFar(recipes, k + 1, g)
    BY <2>4, Zenon
  <2> HIDE DEF g
  <2> QED BY <2>5
<1>3. Len(recipes) \in S
  <2> HIDE DEF S
  <2> QED BY <1>1, <1>2, Induction
<1> DEFINE F == CHOOSE f : f = ReadSoFar(recipes, Len(recipes), f)
<1>4. M!ReadRecipes(recipes) = F[Len(recipes)]
  BY DEF M!ReadRecipes, ReadSoFar
<1>5. F = ReadSoFar(recipes, Len(recipes), F)
  <2>1. \E f : f = ReadSoFar(recipes, Len(recipes), f)
    BY <1>3
  <2> QED BY <2>1
<1> HIDE DEF F
<1>6. \A n \in 0 .. Len(recipes) : F[n] = ReadSoFar(recipes, Len(recipes), F)[n]
  BY <1>5, Zenon
<1>7. ReadUpTo(recipes, Len(recipes), F)
  <2>1. 0 \in 0 .. Len(recipes) /\ \A n \in 1 .. Len(recipes) : n \in 0 .. Len(recipes) /\ n # 0
    OBVIOUS
  <2>2. \A n \in 0 .. Len(recipes) :
          ReadSoFar(recipes, Len(recipes), F)[n] = IF n = 0 THEN M!NULL ELSE M!insert(recipes[n].name, M!Listed(recipes[n].card), F[n - 1])
    BY DEF ReadSoFar
  <2> QED BY <1>6, <2>1, <2>2 DEF ReadUpTo
<1> QED BY <1>4, <1>7

PartsSoFar(s, card, k, f) ==
  [n \in 0 .. k |-> IF n = 0 THEN s ELSE M!add_detail(f[n - 1], card[n].name, 0)]

PartsUpTo(s, card, k, f) ==
  /\ f[0] = s
  /\ \A n \in 1 .. k : f[n] = M!add_detail(f[n - 1], card[n].name, 0)

LEMMA PartsRule ==
  ASSUME NEW s, NEW card, Len(card) \in Nat
  PROVE  \E f : PartsUpTo(s, card, Len(card), f) /\ M!WithParts(s, card) = f[Len(card)]
<1> DEFINE S == {k \in Nat : \E f : f = PartsSoFar(s, card, k, f)}
<1>1. 0 \in S
  <2> DEFINE g == PartsSoFar(s, card, 0, << >>)
  <2>1. g = PartsSoFar(s, card, 0, g)
    BY DEF PartsSoFar
  <2> QED BY <2>1
<1>2. ASSUME NEW k \in Nat, k \in S PROVE k + 1 \in S
  <2>1. PICK f : f = PartsSoFar(s, card, k, f)
    BY <1>2
  <2> DEFINE g == PartsSoFar(s, card, k + 1, f)
  <2>2. ASSUME NEW n \in 0 .. k PROVE g[n] = f[n]
    <3>1. n \in 0 .. k + 1
      OBVIOUS
    <3>2. PartsSoFar(s, card, k, f)[n] = PartsSoFar(s, card, k + 1, f)[n]
      BY <3>1, Zenon DEF PartsSoFar
    <3> QED BY <2>1, <3>2, Zenon
  <2>3. ASSUME NEW n \in 0 .. k + 1, n # 0 PROVE g[n - 1] = f[n - 1]
    <3>1. n - 1 \in 0 .. k
      BY <2>3
    <3> HIDE DEF g
    <3> QED BY <2>2, <3>1
  <2>4. PartsSoFar(s, card, k + 1, f) = PartsSoFar(s, card, k + 1, g)
    <3> HIDE DEF g
    <3> QED BY <2>3 DEF PartsSoFar
  <2>5. g = PartsSoFar(s, card, k + 1, g)
    BY <2>4, Zenon
  <2> HIDE DEF g
  <2> QED BY <2>5
<1>3. Len(card) \in S
  <2> HIDE DEF S
  <2> QED BY <1>1, <1>2, Induction
<1> DEFINE F == CHOOSE f : f = PartsSoFar(s, card, Len(card), f)
<1>4. M!WithParts(s, card) = F[Len(card)]
  BY DEF M!WithParts, PartsSoFar
<1>5. F = PartsSoFar(s, card, Len(card), F)
  <2>1. \E f : f = PartsSoFar(s, card, Len(card), f)
    BY <1>3
  <2> QED BY <2>1
<1> HIDE DEF F
<1>6. \A n \in 0 .. Len(card) : F[n] = PartsSoFar(s, card, Len(card), F)[n]
  BY <1>5, Zenon
<1>7. PartsUpTo(s, card, Len(card), F)
  <2>1. 0 \in 0 .. Len(card) /\ \A n \in 1 .. Len(card) : n \in 0 .. Len(card) /\ n # 0
    OBVIOUS
  <2>2. \A n \in 0 .. Len(card) :
          PartsSoFar(s, card, Len(card), F)[n] = IF n = 0 THEN s ELSE M!add_detail(F[n - 1], card[n].name, 0)
    BY DEF PartsSoFar
  <2> QED BY <1>6, <2>1, <2>2 DEF PartsUpTo
<1> QED BY <1>4, <1>7

ListedSoFar(lines, k, f) ==
  [n \in 0 .. k |-> IF n = 0 THEN << >> ELSE M!ListInsert(f[n - 1], lines[n])]

ListedUpTo(lines, k, f) ==
  /\ f[0] = << >>
  /\ \A n \in 1 .. k : f[n] = M!ListInsert(f[n - 1], lines[n])

LEMMA ListedRule ==
  ASSUME NEW lines, Len(lines) \in Nat
  PROVE  \E f : ListedUpTo(lines, Len(lines), f) /\ M!Listed(lines) = f[Len(lines)]
<1> DEFINE S == {k \in Nat : \E f : f = ListedSoFar(lines, k, f)}
<1>1. 0 \in S
  <2> DEFINE g == ListedSoFar(lines, 0, << >>)
  <2>1. g = ListedSoFar(lines, 0, g)
    BY DEF ListedSoFar
  <2> QED BY <2>1
<1>2. ASSUME NEW k \in Nat, k \in S PROVE k + 1 \in S
  <2>1. PICK f : f = ListedSoFar(lines, k, f)
    BY <1>2
  <2> DEFINE g == ListedSoFar(lines, k + 1, f)
  <2>2. ASSUME NEW n \in 0 .. k PROVE g[n] = f[n]
    <3>1. n \in 0 .. k + 1
      OBVIOUS
    <3>2. ListedSoFar(lines, k, f)[n] = ListedSoFar(lines, k + 1, f)[n]
      BY <3>1, Zenon DEF ListedSoFar
    <3> QED BY <2>1, <3>2, Zenon
  <2>3. ASSUME NEW n \in 0 .. k + 1, n # 0 PROVE g[n - 1] = f[n - 1]
    <3>1. n - 1 \in 0 .. k
      BY <2>3
    <3> HIDE DEF g
    <3> QED BY <2>2, <3>1
  <2>4. ListedSoFar(lines, k + 1, f) = ListedSoFar(lines, k + 1, g)
    <3> HIDE DEF g
    <3> QED BY <2>3 DEF ListedSoFar
  <2>5. g = ListedSoFar(lines, k + 1, g)
    BY <2>4, Zenon
  <2> HIDE DEF g
  <2> QED BY <2>5
<1>3. Len(lines) \in S
  <2> HIDE DEF S
  <2> QED BY <1>1, <1>2, Induction
<1> DEFINE F == CHOOSE f : f = ListedSoFar(lines, Len(lines), f)
<1>4. M!Listed(lines) = F[Len(lines)]
  BY DEF M!Listed, ListedSoFar
<1>5. F = ListedSoFar(lines, Len(lines), F)
  <2>1. \E f : f = ListedSoFar(lines, Len(lines), f)
    BY <1>3
  <2> QED BY <2>1
<1> HIDE DEF F
<1>6. \A n \in 0 .. Len(lines) : F[n] = ListedSoFar(lines, Len(lines), F)[n]
  BY <1>5, Zenon
<1>7. ListedUpTo(lines, Len(lines), F)
  <2>1. 0 \in 0 .. Len(lines) /\ \A n \in 1 .. Len(lines) : n \in 0 .. Len(lines) /\ n # 0
    OBVIOUS
  <2>2. \A n \in 0 .. Len(lines) :
          ListedSoFar(lines, Len(lines), F)[n] = IF n = 0 THEN << >> ELSE M!ListInsert(F[n - 1], lines[n])
    BY DEF ListedSoFar
  <2> QED BY <1>6, <2>1, <2>2 DEF ListedUpTo
<1> QED BY <1>4, <1>7

-------------------------------------------------------------------------------
(* copy. *)
LEMMA MembersJoined ==
  ASSUME NEW V, NEW p \in Seq(V), NEW q \in Seq(V)
  PROVE  p \o q \in Seq(V) /\ Members(p \o q) = Members(p) \cup Members(q)
<1> DEFINE w == p \o q
           m == Len(p)
           n == Len(q)
<1>1. /\ w \in Seq(V) /\ Len(w) = m + n /\ m \in Nat /\ n \in Nat
      /\ (\A i \in 1 .. m : w[i] = p[i]) /\ \A i \in 1 .. n : w[m + i] = q[i]
  OBVIOUS
<1>2. /\ Members(p) = {p[i] : i \in 1 .. m} /\ Members(q) = {q[i] : i \in 1 .. n}
      /\ Members(w) = {w[i] : i \in 1 .. m + n}
  BY <1>1 DEF Members
<1> HIDE DEF w, m, n
<1>3. ASSUME NEW k \in 1 .. m + n PROVE w[k] \in Members(p) \cup Members(q)
  <2>1. CASE k \in 1 .. m
    BY <1>1, <1>2, <2>1
  <2>2. CASE ~(k \in 1 .. m)
    <3>1. k - m \in 1 .. n /\ k = m + (k - m)
      BY <1>1, <2>2
    <3>2. w[k] = q[k - m]
      BY <1>1, <3>1
    <3> QED BY <1>2, <3>1, <3>2
  <2> QED BY <2>1, <2>2
<1>4. \A i \in 1 .. m : p[i] \in Members(w)
  <2> TAKE i \in 1 .. m
  <2>1. i \in 1 .. m + n /\ w[i] = p[i]
    BY <1>1
  <2> QED BY <1>2, <2>1
<1>5. \A i \in 1 .. n : q[i] \in Members(w)
  <2> TAKE i \in 1 .. n
  <2>1. m + i \in 1 .. m + n /\ w[m + i] = q[i]
    BY <1>1
  <2> QED BY <1>2, <2>1
<1>6. Members(w) = Members(p) \cup Members(q)
  BY <1>2, <1>3, <1>4, <1>5
<1> QED BY <1>1, <1>6 DEF w

(* copy comes by every node.                                                   *)
LEMMA PreorderNodes ==
  ASSUME NEW t, IsTree(t)
  PROVE  Len(M!Preorder(t)) \in Nat /\ Members(M!Preorder(t)) = Nodes(t)
<1>0. PICK A : Grove(A) /\ t \in A
  BY DEF IsTree
<1> DEFINE G == {s \in A : M!Preorder(s) \in Seq(A) /\ Members(M!Preorder(s)) = Nodes(s)}
<1>1. \A s \in A : IsTree(s)
  BY <1>0 DEF IsTree
<1>2. M!NULL \in A => M!NULL \in G
  <2>1. M!Preorder(M!NULL) = << >> /\ Nodes(M!NULL) = {}
    BY NullTree, PreorderOf, NodesJoined
  <2>2. << >> \in Seq(A) /\ Members(<< >>) = {}
    BY DEF Members
  <2> QED BY <2>1, <2>2
<1>3. ASSUME NEW s \in A, s # M!NULL, s.left \in G, s.right \in G PROVE s \in G
  <2> DEFINE p == M!Preorder(s.left)
             q == M!Preorder(s.right)
             o == << s >>
  <2>1. M!Preorder(s) = o \o p \o q
    BY <1>1, <1>3, PreorderOf
  <2>2. p \in Seq(A) /\ q \in Seq(A) /\ Members(p) = Nodes(s.left) /\ Members(q) = Nodes(s.right)
    BY <1>3
  <2>3. o \in Seq(A) /\ Members(o) = {s}
    BY DEF Members
  <2> HIDE DEF p, q, o
  <2> DEFINE op == o \o p
  <2>4. op \in Seq(A) /\ Members(op) = {s} \cup Nodes(s.left)
    BY <2>2, <2>3, MembersJoined
  <2>5. M!Preorder(s) = op \o q
    BY <2>1
  <2> HIDE DEF op
  <2>6. op \o q \in Seq(A) /\ Members(op \o q) = {s} \cup Nodes(s.left) \cup Nodes(s.right)
    BY <2>2, <2>4, MembersJoined
  <2>7. Nodes(s) = Nodes(s.left) \cup {s} \cup Nodes(s.right)
    BY <1>1, <1>3, NodesJoined
  <2> QED BY <2>5, <2>6, <2>7
<1> HIDE DEF G
<1>4. t \in G
  BY <1>0, <1>2, <1>3, TreeInduction
<1>5. M!Preorder(t) \in Seq(A) /\ Members(M!Preorder(t)) = Nodes(t)
  BY <1>4 DEF G
<1>6. \A z \in Seq(A) : Len(z) \in Nat
  OBVIOUS
<1> QED BY <1>5, <1>6

LEMMA OneNode ==
  ASSUME NEW t, IsTree(t), Asc(t), NEW u \in Nodes(t), NEW v \in Nodes(t), u.data = v.data
  PROVE  u = v
<1>1. u.data \in Int
  BY WrittenNodes
<1> QED BY <1>1, SearchFinds

(* A copy has all there is.                                                    *)
LEMMA CopyCopies ==
  ASSUME NEW t, IsTree(t), Asc(t)
  PROVE  LET c == M!copy(M!NULL, t) IN IsTree(c) /\ Asc(c) /\ Pairs(c) = Pairs(t)
<1> DEFINE q == M!Preorder(t)
           m == Len(q)
           Of(n) == {<< q[i].data, q[i].card >> : i \in 1 .. n}
<1>1. m \in Nat /\ Members(q) = Nodes(t)
  BY PreorderNodes
<1>2. PICK f : CopyUpTo(M!NULL, t, m, f) /\ M!copy(M!NULL, t) = f[m]
  BY <1>1, CopyRule
<1>3. f[0] = M!NULL /\ \A n \in 1 .. m : f[n] = M!insert(q[n].data, q[n].card, f[n - 1])
  BY <1>2 DEF CopyUpTo
<1>4. \A i \in 1 .. m : q[i] \in Nodes(t) /\ q[i].data \in Int
  BY <1>1, WrittenNodes DEF Members
<1> HIDE DEF q, m
<1>5. \A i, j \in 1 .. m : q[i].data = q[j].data => q[i] = q[j]
  BY <1>4, OneNode
<1> DEFINE Good(n) == IsTree(f[n]) /\ Asc(f[n]) /\ Pairs(f[n]) = Of(n)
           S == {n \in Nat : n <= m => Good(n)}
<1>6. 0 \in S
  <2>1. IsTree(f[0]) /\ Asc(f[0]) /\ Pairs(f[0]) = {}
    BY <1>3, NullTree, PairsOf
  <2>2. Of(0) = {}
    OBVIOUS
  <2> QED BY <2>1, <2>2
<1>7. ASSUME NEW n \in Nat, n \in S PROVE n + 1 \in S
  <2> SUFFICES ASSUME n + 1 <= m PROVE Good(n + 1)
    OBVIOUS
  <2>1. n + 1 \in 1 .. m /\ (n + 1) - 1 = n /\ n <= m /\ \A i \in 1 .. n : i \in 1 .. m
    BY <1>1
  <2>2. Good(n)
    BY <1>7, <2>1
  <2> DEFINE x == q[n + 1].data
             c == q[n + 1].card
  <2>3. f[n + 1] = M!insert(x, c, f[n])
    BY <1>3, <2>1
  <2>4. x \in Int
    BY <1>4, <2>1
  <2>5. Inserted(f[n + 1], f[n], x, c)
    BY <2>2, <2>3, <2>4, InsertInserts
  <2>6. Of(n + 1) = Of(n) \cup {<< x, c >>}
    <3>1. \A i \in 1 .. n + 1 : i \in 1 .. n \/ i = n + 1
      OBVIOUS
    <3>2. (\A i \in 1 .. n : i \in 1 .. n + 1) /\ n + 1 \in 1 .. n + 1
      OBVIOUS
    <3> QED BY <3>1, <3>2
  <2>7. Named(x, Of(n)) => << x, c >> \in Of(n)
    <3> SUFFICES ASSUME Named(x, Of(n)) PROVE << x, c >> \in Of(n)
      OBVIOUS
    <3>1. PICK i \in 1 .. n : << q[i].data, q[i].card >>[1] = x
      BY DEF Named
    <3>2. q[i].data = x
      BY <3>1
    <3>3. q[i] = q[n + 1]
      BY <1>5, <2>1, <3>2
    <3> QED BY <3>3
  <2> HIDE DEF x, c, Of
  <2>8. IsTree(f[n + 1]) /\ Asc(f[n + 1])
    BY <2>5 DEF Inserted
  <2>9. Pairs(f[n + 1]) = Of(n + 1)
    BY <2>2, <2>5, <2>6, <2>7 DEF Inserted
  <2> QED BY <2>8, <2>9
<1> HIDE DEF S
<1>8. m \in S
  BY <1>1, <1>6, <1>7, Induction
<1>9. Good(m)
  BY <1>1, <1>8 DEF S
<1>10. Of(m) = Pairs(t)
  <2>1. Members(q) = {q[i] : i \in 1 .. m}
    BY DEF Members, m
  <2>2. \A u \in Nodes(t) : \E i \in 1 .. m : u = q[i]
    BY <1>1, <2>1
  <2> QED BY <1>4, <2>2 DEF Pairs
<1> QED BY <1>2, <1>9, <1>10

-------------------------------------------------------------------------------
(* Lines in the order of their names: what they are says which sequence it is. *)
InOrder(w) == \A i, j \in 1 .. Len(w) : i < j => w[i][1] < w[j][1]

LEMMA SameLines ==
  ASSUME NEW V, \A p \in V : p[1] \in Nat, NEW w \in Seq(V), NEW v \in Seq(V),
         InOrder(w), InOrder(v), Members(w) = Members(v)
  PROVE  w = v
<1> DEFINE a == [i \in 1 .. Len(w) |-> w[i][1]]
           b == [i \in 1 .. Len(v) |-> v[i][1]]
           m == Len(w)
           n == Len(v)
<1>1. /\ m \in Nat /\ n \in Nat /\ w \in [1 .. m -> V] /\ v \in [1 .. n -> V]
  BY SeqFunction
<1>2. (\A i \in 1 .. m : w[i][1] \in Nat) /\ (\A i \in 1 .. n : v[i][1] \in Nat)
  BY <1>1
<1>3. a \in Seq(Nat) /\ Len(a) = m /\ (\A i \in 1 .. m : a[i] = w[i][1])
  BY <1>1, <1>2
<1>4. b \in Seq(Nat) /\ Len(b) = n /\ (\A i \in 1 .. n : b[i] = v[i][1])
  BY <1>1, <1>2
<1> HIDE DEF a, b
<1>5. /\ \A i, j \in 1 .. m : i < j => w[i][1] < w[j][1]
      /\ \A i, j \in 1 .. n : i < j => v[i][1] < v[j][1]
  BY DEF InOrder
<1>6. /\ \A i \in 1 .. m : \E j \in 1 .. n : w[i] = v[j]
      /\ \A j \in 1 .. n : \E i \in 1 .. m : v[j] = w[i]
  BY DEF Members
<1> HIDE DEF m, n
<1>7. Rising(a) /\ Rising(b) /\ Among(a, Len(a), b, Len(b)) /\ Among(b, Len(b), a, Len(a))
  <2>1. \A i, j \in 1 .. m : i < j => a[i] < a[j]
    BY <1>3, <1>5
  <2>2. \A i, j \in 1 .. n : i < j => b[i] < b[j]
    BY <1>4, <1>5
  <2>3. \A i \in 1 .. m : \E j \in 1 .. n : a[i] = b[j]
    <3> TAKE i \in 1 .. m
    <3>1. PICK j \in 1 .. n : w[i] = v[j]
      BY <1>6
    <3> QED BY <1>3, <1>4, <3>1
  <2>4. \A j \in 1 .. n : \E i \in 1 .. m : b[j] = a[i]
    <3> TAKE j \in 1 .. n
    <3>1. PICK i \in 1 .. m : v[j] = w[i]
      BY <1>6
    <3> QED BY <1>3, <1>4, <3>1
  <2>5. Len(a) = m /\ Len(b) = n
    BY <1>3, <1>4
  <2> QED BY <2>1, <2>2, <2>3, <2>4, <2>5, Zenon DEF Rising, RisesTo, Among
<1>8. a = b
  BY <1>3, <1>4, <1>7, SameRising
<1>9. m = n
  BY <1>3, <1>4, <1>8
<1>10. \A i \in 1 .. m : w[i] = v[i]
  <2> TAKE i \in 1 .. m
  <2>1. PICK j \in 1 .. n : w[i] = v[j]
    BY <1>6
  <2>2. w[i][1] = v[i][1] /\ i \in 1 .. n
    BY <1>3, <1>4, <1>8, <1>9
  <2>3. v[i][1] = v[j][1] /\ v[i][1] \in Nat
    BY <1>2, <2>1, <2>2
  <2>4. ~(i < j) /\ ~(j < i)
    BY <1>5, <2>2, <2>3
  <2>5. i = j
    BY <1>1, <2>2, <2>4
  <2> QED BY <2>1, <2>5
<1> QED BY <1>1, <1>9, <1>10

LinesOf(t) == LET w == M!Written(t) IN [i \in DOMAIN w |-> << w[i].data, w[i].card >>]

LEMMA LinesOfTree ==
  ASSUME NEW t, IsTree(t), Asc(t)
  PROVE  /\ LinesOf(t) \in Seq(Pairs(t)) /\ Len(LinesOf(t)) = Len(M!Written(t))
         /\ Members(LinesOf(t)) = Pairs(t) /\ InOrder(LinesOf(t))
         /\ \A i \in 1 .. Len(M!Written(t)) : LinesOf(t)[i][1] = M!Written(t)[i].data
<1> DEFINE w == M!Written(t)
           l == LinesOf(t)
           m == Len(w)
<1>1. w \in Seq(Nodes(t)) /\ Members(w) = Nodes(t) /\ Ascends(w) /\ m \in Nat /\ DOMAIN w = 1 .. m
  BY WrittenNodes DEF Nodes, Asc
<1>2. \A i \in 1 .. m : w[i] \in Nodes(t)
  BY <1>1
<1>3. l = [i \in 1 .. m |-> << w[i].data, w[i].card >>]
  BY <1>1 DEF LinesOf
<1> HIDE DEF w, l, m
<1>4. \A i \in 1 .. m : << w[i].data, w[i].card >> \in Pairs(t)
  BY <1>2 DEF Pairs
<1>5. l \in Seq(Pairs(t)) /\ Len(l) = m /\ \A i \in 1 .. m : l[i] = << w[i].data, w[i].card >>
  BY <1>1, <1>3, <1>4
<1>6. \A i \in 1 .. m : l[i][1] = w[i].data
  BY <1>5
<1>7. InOrder(l)
  BY <1>1, <1>5, <1>6 DEF InOrder, Ascends, m
<1>8. Members(l) = Pairs(t)
  <2>1. Members(l) = {l[i] : i \in 1 .. m} /\ Nodes(t) = {w[i] : i \in 1 .. m}
    BY <1>1, <1>5 DEF Members, m
  <2>2. ASSUME NEW p \in Pairs(t) PROVE p \in Members(l)
    <3>1. PICK u \in Nodes(t) : p = << u.data, u.card >>
      BY DEF Pairs
    <3>2. PICK i \in 1 .. m : u = w[i]
      BY <2>1
    <3>3. p = l[i]
      BY <1>5, <3>1, <3>2
    <3> QED BY <2>1, <3>3
  <2>3. \A i \in 1 .. m : l[i] \in Pairs(t)
    BY <1>4, <1>5
  <2> QED BY <2>1, <2>2, <2>3
<1> QED BY <1>5, <1>6, <1>7, <1>8 DEF w, l, m

-------------------------------------------------------------------------------
(* What TreeFinds says of a tree in order. *)
LEMMA PickedHere == \A s, at : M!Picked(s, at) = Picked(s, at)
BY DEF M!Picked, Picked

LEMMA PickedLines ==
  ASSUME NEW V, \A p \in V : p[1] \in Nat, NEW w \in Seq(V), InOrder(w), NEW at \in SUBSET (1 .. Len(w))
  PROVE  /\ M!Picked(w, at) \in Seq(V) /\ InOrder(M!Picked(w, at))
         /\ Members(M!Picked(w, at)) = {w[k] : k \in at}
<1> DEFINE p == Picked(w, at)
<1>1. p \in Seq(V) /\ \E h : Tells(h, w, at, p)
  BY PickedTells
<1> HIDE DEF p
<1>2. PICK h : Tells(h, w, at, p)
  BY <1>1
<1>3. /\ \A i \in 1 .. Len(p) : h[i] \in at /\ p[i] = w[h[i]]
      /\ \A i, j \in 1 .. Len(p) : i < j => h[i] < h[j]
      /\ \A k \in at : \E i \in 1 .. Len(p) : h[i] = k
  BY <1>2 DEF Tells
<1>4. InOrder(p)
  <2>1. \A i, j \in 1 .. Len(p) : i < j => w[h[i]][1] < w[h[j]][1]
    BY <1>3 DEF InOrder
  <2> QED BY <1>3, <2>1 DEF InOrder
<1>5. Members(p) = {w[k] : k \in at}
  <2>1. Members(p) = {p[i] : i \in 1 .. Len(p)}
    BY DEF Members
  <2>2. \A k \in at : w[k] \in Members(p)
    BY <1>3, <2>1
  <2>3. ASSUME NEW e \in Members(p) PROVE \E k \in at : e = w[k]
    <3>1. PICK i \in 1 .. Len(p) : e = p[i]
      BY <2>1
    <3> QED BY <1>3, <3>1
  <2> QED BY <2>2, <2>3
<1> QED BY <1>1, <1>4, <1>5, PickedHere DEF p

(* A tree in the order of its names.                                           *)
Sorted(t) == IsTree(t) /\ Asc(t) /\ \A p \in Pairs(t) : p[1] \in Nat

LEMMA SortedLines ==
  ASSUME NEW t, Sorted(t), NEW s, Sorted(s), Pairs(s) = Pairs(t)
  PROVE  LinesOf(s) = LinesOf(t)
<1>1. /\ LinesOf(t) \in Seq(Pairs(t)) /\ Members(LinesOf(t)) = Pairs(t) /\ InOrder(LinesOf(t))
      /\ LinesOf(s) \in Seq(Pairs(t)) /\ Members(LinesOf(s)) = Pairs(t) /\ InOrder(LinesOf(s))
  BY LinesOfTree DEF Sorted
<1> QED BY <1>1, SameLines DEF Sorted

LEMMA RemoveTwo ==
  ASSUME NEW t, Sorted(t), NEW x \in Int, NEW y \in Int
  PROVE  LinesOf(M!remove(y, M!remove(x, t)))
           = M!Picked(LinesOf(t), {i \in DOMAIN M!Written(t) : M!Written(t)[i].data \notin {x, y}})
<1> DEFINE s == M!remove(x, t)
           u == M!remove(y, s)
           w == M!Written(t)
           l == LinesOf(t)
           at == {i \in DOMAIN w : w[i].data \notin {x, y}}
<1>1. IsTree(s) /\ Asc(s) /\ Pairs(s) = {p \in Pairs(t) : p[1] # x}
  BY RemoveRemoves DEF Sorted, Removed
<1> HIDE DEF s
<1>2. IsTree(u) /\ Asc(u) /\ Pairs(u) = {p \in Pairs(s) : p[1] # y}
  BY <1>1, RemoveRemoves DEF Removed
<1> HIDE DEF u
<1>3. /\ l \in Seq(Pairs(t)) /\ Len(l) = Len(w) /\ InOrder(l) /\ Members(l) = Pairs(t)
      /\ \A i \in 1 .. Len(w) : l[i][1] = w[i].data
  BY LinesOfTree DEF Sorted
<1>4. DOMAIN w = 1 .. Len(w)
  <2>1. w \in Seq(Nodes(t))
    BY WrittenNodes DEF Sorted
  <2> QED BY <2>1
<1> HIDE DEF w, l
<1>5. at = {i \in 1 .. Len(w) : l[i][1] \notin {x, y}} /\ at \in SUBSET (1 .. Len(l))
  BY <1>3, <1>4
<1> HIDE DEF at
<1> DEFINE p == M!Picked(l, at)
<1>6. p \in Seq(Pairs(t)) /\ InOrder(p) /\ Members(p) = {l[k] : k \in at}
  <2>1. \A q \in Pairs(t) : q[1] \in Nat
    BY DEF Sorted
  <2>2. at \in SUBSET (1 .. Len(l)) /\ l \in Seq(Pairs(t)) /\ InOrder(l)
    BY <1>3, <1>5
  <2> QED BY <2>1, <2>2, PickedLines, Zenon
<1>7. /\ LinesOf(u) \in Seq(Pairs(u)) /\ Members(LinesOf(u)) = Pairs(u) /\ InOrder(LinesOf(u))
  BY <1>2, LinesOfTree
<1> HIDE DEF p
<1>8. Pairs(u) = Members(p)
  <2>1. Pairs(u) = {q \in Pairs(t) : q[1] \notin {x, y}}
    BY <1>1, <1>2
  <2>2. Pairs(t) = {l[i] : i \in 1 .. Len(w)}
    BY <1>3 DEF Members
  <2>3. ASSUME NEW q \in Pairs(u) PROVE q \in Members(p)
    <3>1. PICK i \in 1 .. Len(w) : q = l[i]
      BY <2>1, <2>2
    <3>2. i \in at
      BY <1>5, <2>1, <3>1
    <3> QED BY <1>6, <3>1, <3>2
  <2>4. ASSUME NEW k \in at PROVE l[k] \in Pairs(u)
    BY <1>5, <2>1, <2>2
  <2> QED BY <1>6, <2>3, <2>4
<1>9. Pairs(u) \subseteq Pairs(t)
  BY <1>1, <1>2
<1>10. LinesOf(u) \in Seq(Pairs(t))
  BY <1>7, <1>9
<1>11. LinesOf(u) = p
  BY <1>6, <1>7, <1>8, <1>10, SameLines DEF Sorted
<1> QED BY <1>11 DEF u, s, p, at, w, l

LEMMA SortedFinds ==
  ASSUME Sorted(recipe)
  PROVE  TreeFinds
<1> DEFINE w == M!Written(recipe)
<1>1. MName \subseteq Nat
  BY ItemsAssumption DEF M!ItemsAssumption
<1>2. /\ IsTree(recipe) /\ Asc(recipe) /\ w \in Seq(Nodes(recipe)) /\ DOMAIN w = 1 .. Len(w) /\ Len(w) \in Nat
      /\ \A u \in Nodes(recipe) : u.data \in Int
  BY WrittenNodes DEF Sorted
<1>3. \A i \in DOMAIN w : /\ i > 1 => w[i - 1].data < w[i].data
                          /\ M!searchh(w[i].data, recipe) = w[i]
  <2> TAKE i \in DOMAIN w
  <2>1. \A k, j \in 1 .. Len(w) : k < j => w[k].data < w[j].data
    BY <1>2 DEF Asc, Ascends
  <2>2. w[i] \in Nodes(recipe)
    BY <1>2
  <2>3. M!searchh(w[i].data, recipe) = w[i]
    BY <1>2, <2>2, SearchFinds
  <2> HIDE DEF w
  <2>4. i > 1 => i - 1 \in 1 .. Len(w) /\ i - 1 < i /\ i \in 1 .. Len(w)
    BY <1>2
  <2>5. i > 1 => w[i - 1].data < w[i].data
    BY <2>1, <2>4
  <2> QED BY <2>3, <2>5 DEF w
<1>4. \A x, y \in MName :
        LinesOf(M!remove(y, M!remove(x, recipe)))
          = M!Picked(LinesOf(recipe), {i \in DOMAIN w : w[i].data \notin {x, y}})
  BY <1>1, RemoveTwo
<1>5. LinesOf(M!copy(M!NULL, recipe)) = LinesOf(recipe)
  BY CopyCopies, SortedLines DEF Sorted
<1> QED BY <1>3, <1>4, <1>5 DEF TreeFinds, M!TreeFinds, LinesOf

-------------------------------------------------------------------------------
(* Cards. *)
ACard == [name : MName, quant : Nat]

DistinctNames(c) == \A i, j \in 1 .. Len(c) : c[i].name = c[j].name => i = j

LEMMA CardsSavedIs ==
  \A c : c \in M!CardsSaved <=> c \in Seq(ACard) /\ DistinctNames(c)
<1> TAKE c
<1>1. M!Lines = Seq(ACard)
  BY DEF M!Lines, ACard
<1>2. c \in Seq(ACard) => DOMAIN c = 1 .. Len(c)
  OBVIOUS
<1> QED BY <1>1, <1>2 DEF M!CardsSaved, DistinctNames

(* A line comes to stand before the others, or makes the one of its name grow. *)
LEMMA ListInsertIs ==
  ASSUME NEW c \in Seq(ACard), DistinctNames(c), NEW l \in ACard
  PROVE  LET d == M!ListInsert(c, l) IN
         /\ d \in Seq(ACard) /\ DistinctNames(d)
         /\ (\A i \in 1 .. Len(c) : c[i].name # l.name) => d = << l >> \o c
<1> DEFINE I == {i \in 1 .. Len(c) : c[i].name = l.name}
           k == M!SelectInSeq(c, LAMBDA m : m.name = l.name)
           d == M!ListInsert(c, l)
<1>1. k = IF I # {} THEN Min(I) ELSE 0
  BY DEF M!SelectInSeq, M!Min, Min
<1>2. d = IF k = 0 THEN << l >> \o c ELSE [c EXCEPT ![k].quant = @ + l.quant]
  BY DEF M!ListInsert
<1>3. I \in SUBSET Nat
  OBVIOUS
<1>4. Len(c) \in Nat /\ \A i \in 1 .. Len(c) : c[i] \in ACard
  OBVIOUS
<1> HIDE DEF d, k
<1>5. CASE I = {}
  <2>1. d = << l >> \o c
    BY <1>1, <1>2, <1>5
  <2>2. d \in Seq(ACard) /\ Len(d) = Len(c) + 1 /\ d[1] = l /\ \A i \in 1 .. Len(c) : d[i + 1] = c[i]
    BY <2>1
  <2>3. DistinctNames(d)
    <3> SUFFICES ASSUME NEW i \in 1 .. Len(d), NEW j \in 1 .. Len(d), d[i].name = d[j].name PROVE i = j
      BY DEF DistinctNames
    <3>1. \A h \in 1 .. Len(d) : h = 1 \/ (h - 1 \in 1 .. Len(c) /\ d[h] = c[h - 1])
      <4> TAKE h \in 1 .. Len(d)
      <4>1. CASE h # 1
        <5>1. h - 1 \in 1 .. Len(c) /\ (h - 1) + 1 = h
          BY <1>4, <2>2, <4>1
        <5> QED BY <2>2, <5>1
      <4> QED BY <4>1
    <3>2. \A h \in 1 .. Len(c) : c[h].name # l.name
      BY <1>5
    <3>3. CASE i = 1 /\ j = 1
      BY <3>3
    <3>4. CASE i = 1 /\ j # 1
      BY <2>2, <3>1, <3>2, <3>4
    <3>5. CASE i # 1 /\ j = 1
      BY <2>2, <3>1, <3>2, <3>5
    <3>6. CASE i # 1 /\ j # 1
      <4>1. i - 1 = j - 1
        BY <3>1, <3>6 DEF DistinctNames
      <4> QED BY <4>1
    <3> QED BY <3>3, <3>4, <3>5, <3>6
  <2> QED BY <2>1, <2>2, <2>3 DEF d
<1>6. CASE I # {}
  <2>1. k \in I
    BY <1>1, <1>3, <1>6, MinOfNaturals
  <2>2. k \in 1 .. Len(c) /\ k # 0 /\ c[k].name = l.name
    BY <2>1
  <2>3. d = [c EXCEPT ![k].quant = @ + l.quant]
    BY <1>2, <2>2
  <2>4. d = [c EXCEPT ![k] = [c[k] EXCEPT !.quant = @ + l.quant]]
    BY <2>3
  <2> DEFINE e == [c[k] EXCEPT !.quant = @ + l.quant]
  <2>5. e \in ACard /\ e.name = c[k].name
    <3>1. c[k] \in ACard
      BY <1>4, <2>2
    <3>2. c[k].quant + l.quant \in Nat
      BY <3>1 DEF ACard
    <3> HIDE DEF I, k
    <3> QED BY <3>1, <3>2 DEF ACard
  <2> HIDE DEF e
  <2>6. d = [c EXCEPT ![k] = e]
    BY <2>4 DEF e
  <2>7. d \in Seq(ACard) /\ Len(d) = Len(c) /\ \A i \in 1 .. Len(c) : d[i] = IF i = k THEN e ELSE c[i]
    BY <2>2, <2>5, <2>6
  <2>8. \A i \in 1 .. Len(c) : d[i].name = c[i].name
    BY <2>5, <2>7
  <2>9. DistinctNames(d)
    BY <2>7, <2>8 DEF DistinctNames
  <2> QED BY <2>2, <2>7, <2>9 DEF d
<1> QED BY <1>5, <1>6

LEMMA ListedType ==
  ASSUME NEW c \in Seq(ACard)
  PROVE  M!Listed(c) \in M!CardsSaved
<1>1. Len(c) \in Nat /\ \A i \in 1 .. Len(c) : c[i] \in ACard
  OBVIOUS
<1>2. PICK f : ListedUpTo(c, Len(c), f) /\ M!Listed(c) = f[Len(c)]
  BY <1>1, ListedRule
<1>3. f[0] = << >> /\ \A n \in 1 .. Len(c) : f[n] = M!ListInsert(f[n - 1], c[n])
  BY <1>2 DEF ListedUpTo
<1> DEFINE S == {n \in Nat : n <= Len(c) => f[n] \in Seq(ACard) /\ DistinctNames(f[n])}
<1>4. 0 \in S
  <2>1. << >> \in Seq(ACard) /\ Len(<< >>) = 0
    OBVIOUS
  <2>2. DistinctNames(<< >>)
    BY <2>1 DEF DistinctNames
  <2> QED BY <1>3, <2>1, <2>2
<1>5. ASSUME NEW n \in Nat, n \in S PROVE n + 1 \in S
  <2> SUFFICES ASSUME n + 1 <= Len(c) PROVE f[n + 1] \in Seq(ACard) /\ DistinctNames(f[n + 1])
    OBVIOUS
  <2>1. n + 1 \in 1 .. Len(c) /\ (n + 1) - 1 = n /\ f[n] \in Seq(ACard) /\ DistinctNames(f[n])
    BY <1>1, <1>5
  <2>2. f[n + 1] = M!ListInsert(f[n], c[n + 1])
    BY <1>3, <2>1
  <2> QED BY <1>1, <2>1, <2>2, ListInsertIs
<1> HIDE DEF S
<1>6. Len(c) \in S
  BY <1>1, <1>4, <1>5, Induction
<1> QED BY <1>2, <1>6, CardsSavedIs DEF S

(* A card that names each part once comes to stand the other way round.        *)
LEMMA ListedTurns ==
  ASSUME NEW c \in M!CardsSaved
  PROVE  M!Listed(c) = M!Reverse(c)
<1>0. c \in Seq(ACard) /\ DistinctNames(c)
  BY CardsSavedIs
<1>1. Len(c) \in Nat /\ \A i \in 1 .. Len(c) : c[i] \in ACard
  BY <1>0
<1>2. PICK f : ListedUpTo(c, Len(c), f) /\ M!Listed(c) = f[Len(c)]
  BY <1>1, ListedRule
<1>3. f[0] = << >> /\ \A n \in 1 .. Len(c) : f[n] = M!ListInsert(f[n - 1], c[n])
  BY <1>2 DEF ListedUpTo
<1> DEFINE Turned(n) == [i \in 1 .. n |-> c[n + 1 - i]]
           S == {n \in Nat : n <= Len(c) => f[n] = Turned(n)}
<1>4. 0 \in S
  <2>1. Turned(0) = << >>
    OBVIOUS
  <2> QED BY <1>3, <2>1
<1>5. ASSUME NEW n \in Nat, n \in S PROVE n + 1 \in S
  <2> SUFFICES ASSUME n + 1 <= Len(c) PROVE f[n + 1] = Turned(n + 1)
    OBVIOUS
  <2>1. n + 1 \in 1 .. Len(c) /\ (n + 1) - 1 = n /\ f[n] = Turned(n)
    BY <1>1, <1>5
  <2>2. f[n + 1] = M!ListInsert(f[n], c[n + 1])
    BY <1>3, <2>1
  <2> DEFINE t == Turned(n)
  <2>3. \A i \in 1 .. n : n + 1 - i \in 1 .. n /\ n + 1 - i \in 1 .. Len(c) /\ n + 1 - i # n + 1
    BY <1>1
  <2>4. t \in Seq(ACard) /\ Len(t) = n /\ \A i \in 1 .. n : t[i] = c[n + 1 - i]
    BY <1>1, <2>3
  <2> HIDE DEF t
  <2>5. DistinctNames(t)
    <3> SUFFICES ASSUME NEW i \in 1 .. n, NEW j \in 1 .. n, t[i].name = t[j].name PROVE i = j
      BY <2>4 DEF DistinctNames
    <3>1. n + 1 - i = n + 1 - j
      BY <1>0, <2>3, <2>4 DEF DistinctNames
    <3> QED BY <3>1
  <2>6. \A i \in 1 .. Len(t) : t[i].name # c[n + 1].name
    BY <1>0, <2>1, <2>3, <2>4 DEF DistinctNames
  <2>7. f[n + 1] = << c[n + 1] >> \o t
    BY <1>1, <2>1, <2>2, <2>4, <2>5, <2>6, ListInsertIs DEF t
  <2> DEFINE q == << c[n + 1] >> \o t
             e == c[n + 1]
  <2>8. e \in ACard
    BY <1>1, <2>1
  <2>9. q \in Seq(ACard) /\ Len(q) = n + 1 /\ q[1] = e /\ \A i \in 1 .. n : q[i + 1] = t[i]
    <3> HIDE DEF e
    <3> SUFFICES << e >> \o t \in Seq(ACard) /\ Len(<< e >> \o t) = n + 1 /\ (<< e >> \o t)[1] = e
                 /\ \A i \in 1 .. n : (<< e >> \o t)[i + 1] = t[i]
      BY DEF e
    <3> QED BY <2>4, <2>8
  <2> HIDE DEF q
  <2>10. \A i \in 1 .. n + 1 : q[i] = c[n + 1 + 1 - i]
    <3> TAKE i \in 1 .. n + 1
    <3>1. CASE i = 1
      BY <2>9, <3>1
    <3>2. CASE i # 1
      <4>1. i - 1 \in 1 .. n /\ (i - 1) + 1 = i /\ n + 1 - (i - 1) = n + 1 + 1 - i
        BY <3>2
      <4> QED BY <2>4, <2>9, <4>1
    <3> QED BY <3>1, <3>2
  <2>11. q \in [1 .. n + 1 -> ACard]
    BY <2>9, SeqFunction
  <2>12. q = Turned(n + 1)
    BY <2>10, <2>11
  <2> QED BY <2>7, <2>12 DEF q
<1> HIDE DEF S
<1>6. Len(c) \in S
  BY <1>1, <1>4, <1>5, Induction
<1>7. M!Listed(c) = Turned(Len(c))
  BY <1>2, <1>6 DEF S
<1>8. Turned(Len(c)) = M!Reverse(c)
  <2>1. \A i \in 1 .. Len(c) : Len(c) + 1 - i = (Len(c) - i) + 1
    BY <1>1
  <2> QED BY <2>1 DEF M!Reverse
<1> QED BY <1>7, <1>8

-------------------------------------------------------------------------------
(* The quantities and the recipes, as the requests change them. *)
TakenSoFar(name, kolv, k, f) ==
  [n \in 0 .. k |-> IF n = 0 THEN avalableitems ELSE M!Put(f[n - 1], M!Card(name)[n].name, M!Stock(f[n - 1], M!Card(name)[n].name) - kolv * M!Card(name)[n].quant)]

TakenUpTo(name, kolv, k, f) ==
  /\ f[0] = avalableitems
  /\ \A n \in 1 .. k : f[n] = M!Put(f[n - 1], M!Card(name)[n].name, M!Stock(f[n - 1], M!Card(name)[n].name) - kolv * M!Card(name)[n].quant)

LEMMA TakenRule ==
  ASSUME NEW name, NEW kolv, Len(M!Card(name)) \in Nat
  PROVE  \E f : TakenUpTo(name, kolv, Len(M!Card(name)), f) /\ M!Taken(name, kolv) = f[Len(M!Card(name))]
<1> DEFINE S == {k \in Nat : \E f : f = TakenSoFar(name, kolv, k, f)}
<1>1. 0 \in S
  <2> DEFINE g == TakenSoFar(name, kolv, 0, << >>)
  <2>1. g = TakenSoFar(name, kolv, 0, g)
    BY DEF TakenSoFar
  <2> QED BY <2>1
<1>2. ASSUME NEW k \in Nat, k \in S PROVE k + 1 \in S
  <2>1. PICK f : f = TakenSoFar(name, kolv, k, f)
    BY <1>2
  <2> DEFINE g == TakenSoFar(name, kolv, k + 1, f)
  <2>2. ASSUME NEW n \in 0 .. k PROVE g[n] = f[n]
    <3>1. n \in 0 .. k + 1
      OBVIOUS
    <3>2. TakenSoFar(name, kolv, k, f)[n] = TakenSoFar(name, kolv, k + 1, f)[n]
      BY <3>1, Zenon DEF TakenSoFar
    <3> QED BY <2>1, <3>2, Zenon
  <2>3. ASSUME NEW n \in 0 .. k + 1, n # 0 PROVE g[n - 1] = f[n - 1]
    <3>1. n - 1 \in 0 .. k
      BY <2>3
    <3> HIDE DEF g
    <3> QED BY <2>2, <3>1
  <2>4. TakenSoFar(name, kolv, k + 1, f) = TakenSoFar(name, kolv, k + 1, g)
    <3> HIDE DEF g
    <3> QED BY <2>3 DEF TakenSoFar
  <2>5. g = TakenSoFar(name, kolv, k + 1, g)
    BY <2>4, Zenon
  <2> HIDE DEF g
  <2> QED BY <2>5
<1>3. Len(M!Card(name)) \in S
  <2> HIDE DEF S
  <2> QED BY <1>1, <1>2, Induction
<1> DEFINE F == CHOOSE f : f = TakenSoFar(name, kolv, Len(M!Card(name)), f)
<1>4. M!Taken(name, kolv) = F[Len(M!Card(name))]
  BY DEF M!Taken, TakenSoFar
<1>5. F = TakenSoFar(name, kolv, Len(M!Card(name)), F)
  <2>1. \E f : f = TakenSoFar(name, kolv, Len(M!Card(name)), f)
    BY <1>3
  <2> QED BY <2>1
<1> HIDE DEF F
<1>6. \A n \in 0 .. Len(M!Card(name)) : F[n] = TakenSoFar(name, kolv, Len(M!Card(name)), F)[n]
  BY <1>5, Zenon
<1>7. TakenUpTo(name, kolv, Len(M!Card(name)), F)
  <2>1. 0 \in 0 .. Len(M!Card(name)) /\ \A n \in 1 .. Len(M!Card(name)) : n \in 0 .. Len(M!Card(name)) /\ n # 0
    OBVIOUS
  <2>2. \A n \in 0 .. Len(M!Card(name)) :
          TakenSoFar(name, kolv, Len(M!Card(name)), F)[n] = IF n = 0 THEN avalableitems ELSE M!Put(F[n - 1], M!Card(name)[n].name, M!Stock(F[n - 1], M!Card(name)[n].name) - kolv * M!Card(name)[n].quant)
    BY DEF TakenSoFar
  <2> QED BY <1>6, <2>1, <2>2 DEF TakenUpTo
<1> QED BY <1>4, <1>7

IsStock(a) == a \in [DOMAIN a -> Int]
IsBook(t) == IsTree(t) /\ Asc(t) /\ \A p \in Pairs(t) : p[1] \in MName /\ p[2] \in M!CardsSaved
IsShelf(s) == s = [a |-> s.a, t |-> s.t] /\ IsStock(s.a) /\ IsBook(s.t)

LEMMA ItemsFacts ==
  /\ MaxInt \in Nat \ {0} /\ MName \subseteq Nat
  /\ \A f \in MFiles : M!IsSaved(f)
  /\ \A r \in MRequests : r.name \in MName /\ r.kolv \in Nat /\ r.card \in Seq(ACard)
<1>1. M!Lines = Seq(ACard)
  BY DEF M!Lines, ACard
<1> QED BY <1>1, ItemsAssumption DEF M!ItemsAssumption

LEMMA NumberWraps == \A n \in Int : M!Wrap(n) \in Int
<1>1. ASSUME NEW n \in Int, NEW m \in Nat \ {0} PROVE n % m \in Int
  OBVIOUS
<1>2. 2 * (MaxInt + 1) \in Nat \ {0}
  BY ItemsFacts
<1> QED BY <1>1, <1>2, ItemsFacts DEF M!Wrap

LEMMA EmptyCard == << >> \in M!CardsSaved
<1>1. << >> \in Seq(ACard) /\ Len(<< >>) = 0
  OBVIOUS
<1>2. DistinctNames(<< >>)
  BY <1>1 DEF DistinctNames
<1> QED BY <1>1, <1>2, CardsSavedIs

LEMMA StockPut ==
  ASSUME NEW a, IsStock(a), NEW name
  PROVE  /\ M!Stock(a, name) \in Int
         /\ \A n \in Int : IsStock(M!Put(a, name, n))
BY DEF IsStock, M!Stock, M!Put

LEMMA BookInserts ==
  ASSUME NEW t, IsBook(t), NEW x \in MName, NEW c \in M!CardsSaved
  PROVE  IsBook(M!insert(x, c, t))
<1>1. x \in Int
  BY ItemsFacts
<1>2. Inserted(M!insert(x, c, t), t, x, c)
  BY <1>1, InsertInserts DEF IsBook
<1>3. << x, c >>[1] = x /\ << x, c >>[2] = c
  OBVIOUS
<1> QED BY <1>2, <1>3 DEF Inserted, IsBook

LEMMA BookKnown ==
  ASSUME IsBook(recipe), NEW x \in MName, M!Known(x)
  PROVE  M!Card(x) \in Seq(ACard) /\ Len(M!Card(x)) \in Nat /\ DOMAIN M!Card(x) = 1 .. Len(M!Card(x))
<1>1. x \in Int /\ IsTree(recipe) /\ Asc(recipe)
  BY ItemsFacts DEF IsBook
<1>2. PICK u \in Nodes(recipe) : u.data = x
  BY <1>1, SearchFinds DEF M!Known
<1>3. M!searchh(x, recipe) = u
  BY <1>1, <1>2, SearchFinds
<1>4. << u.data, u.card >> \in Pairs(recipe) /\ << u.data, u.card >>[2] = u.card
  BY DEF Pairs
<1>5. M!Card(x) \in M!CardsSaved
  BY <1>3, <1>4 DEF IsBook, M!Card
<1>6. M!Card(x) \in Seq(ACard)
  BY <1>5, CardsSavedIs
<1>7. \A c \in Seq(ACard) : Len(c) \in Nat /\ DOMAIN c = 1 .. Len(c)
  OBVIOUS
<1> QED BY <1>6, <1>7

LEMMA ShelfGrows ==
  ASSUME NEW s, IsShelf(s), NEW name \in MName
  PROVE  /\ \A c \in M!CardsSaved : IsShelf(M!add_recipe(s, name, c))
         /\ \A n \in Int : IsShelf(M!add_detail(s, name, n))
<1>1. ASSUME NEW u, IsShelf(u), NEW c \in M!CardsSaved PROVE IsShelf(M!add_recipe(u, name, c))
  <2>1. IsStock(M!Put(u.a, name, 0)) /\ IsBook(M!insert(name, c, u.t))
    <3>1. IsStock(u.a) /\ IsBook(u.t)
      BY <1>1 DEF IsShelf
    <3>2. IsStock(M!Put(u.a, name, 0))
      BY <3>1, StockPut
    <3>3. IsBook(M!insert(name, c, u.t))
      BY <1>1, <3>1, BookInserts
    <3> QED BY <3>2, <3>3
  <2> QED BY <2>1 DEF IsShelf, M!add_recipe
<1>2. ASSUME NEW n \in Int PROVE IsShelf(M!add_detail(s, name, n))
  <2> DEFINE u == IF M!searchh(name, s.t) = M!NULL THEN M!add_recipe(s, name, << >>) ELSE s
             b == M!Put(u.a, name, M!Wrap(M!Stock(u.a, name) + n))
  <2>1. IsShelf(u)
    BY <1>1, EmptyCard
  <2>2. M!add_detail(s, name, n) = [u EXCEPT !.a = b]
    BY DEF M!add_detail
  <2> HIDE DEF u
  <2>3. M!Stock(u.a, name) \in Int
    BY <2>1, StockPut DEF IsShelf
  <2>4. M!Wrap(M!Stock(u.a, name) + n) \in Int
    BY <2>3, NumberWraps
  <2>5. IsStock(b)
    BY <2>1, <2>4, StockPut DEF IsShelf
  <2> HIDE DEF b
  <2>6. [u EXCEPT !.a = b] = [a |-> b, t |-> u.t]
    <3>1. u = [a |-> u.a, t |-> u.t]
      BY <2>1 DEF IsShelf
    <3>2. \A x, y : [[a |-> x, t |-> y] EXCEPT !.a = b] = [a |-> b, t |-> y]
      OBVIOUS
    <3>3. [[a |-> u.a, t |-> u.t] EXCEPT !.a = b] = [a |-> b, t |-> u.t]
      BY <3>2
    <3> QED BY <3>1, <3>3, Zenon
  <2> QED BY <2>1, <2>2, <2>5, <2>6 DEF IsShelf
<1> QED BY <1>1, <1>2

LEMMA PartsShelf ==
  ASSUME NEW s, IsShelf(s), NEW c \in Seq(ACard)
  PROVE  IsShelf(M!WithParts(s, c))
<1>1. Len(c) \in Nat /\ \A i \in 1 .. Len(c) : c[i] \in ACard
  OBVIOUS
<1>2. PICK f : PartsUpTo(s, c, Len(c), f) /\ M!WithParts(s, c) = f[Len(c)]
  BY <1>1, PartsRule
<1>3. f[0] = s /\ \A n \in 1 .. Len(c) : f[n] = M!add_detail(f[n - 1], c[n].name, 0)
  BY <1>2 DEF PartsUpTo
<1> DEFINE S == {n \in Nat : n <= Len(c) => IsShelf(f[n])}
<1>4. 0 \in S
  BY <1>3
<1>5. ASSUME NEW n \in Nat, n \in S PROVE n + 1 \in S
  <2> SUFFICES ASSUME n + 1 <= Len(c) PROVE IsShelf(f[n + 1])
    OBVIOUS
  <2>1. n + 1 \in 1 .. Len(c) /\ (n + 1) - 1 = n /\ IsShelf(f[n])
    BY <1>1, <1>5
  <2>2. f[n + 1] = M!add_detail(f[n], c[n + 1].name, 0) /\ c[n + 1].name \in MName
    BY <1>1, <1>3, <2>1 DEF ACard
  <2> QED BY <2>1, <2>2, ShelfGrows
<1> HIDE DEF S
<1>6. Len(c) \in S
  BY <1>1, <1>4, <1>5, Induction
<1> QED BY <1>2, <1>6 DEF S

LEMMA TakenStock ==
  ASSUME IsStock(avalableitems), IsBook(recipe), NEW name \in MName, M!Known(name), NEW kolv \in Nat
  PROVE  IsStock(M!MakeDetail(name, kolv))
<1> DEFINE c == M!Card(name)
<1>1. c \in Seq(ACard) /\ Len(c) \in Nat
  BY BookKnown
<1>2. PICK f : TakenUpTo(name, kolv, Len(c), f) /\ M!Taken(name, kolv) = f[Len(c)]
  BY <1>1, TakenRule
<1>3. f[0] = avalableitems
      /\ \A n \in 1 .. Len(c) :
           f[n] = M!Put(f[n - 1], c[n].name, M!Stock(f[n - 1], c[n].name) - kolv * c[n].quant)
  BY <1>2 DEF TakenUpTo
<1> HIDE DEF c
<1>4. \A i \in 1 .. Len(c) : c[i].quant \in Nat
  <2>1. \A i \in 1 .. Len(c) : c[i] \in ACard
    BY <1>1
  <2> QED BY <2>1 DEF ACard
<1> DEFINE S == {n \in Nat : n <= Len(c) => IsStock(f[n])}
<1>5. 0 \in S
  BY <1>3
<1>6. ASSUME NEW n \in Nat, n \in S PROVE n + 1 \in S
  <2> SUFFICES ASSUME n + 1 <= Len(c) PROVE IsStock(f[n + 1])
    OBVIOUS
  <2>1. n + 1 \in 1 .. Len(c) /\ (n + 1) - 1 = n /\ IsStock(f[n])
    BY <1>1, <1>6
  <2> DEFINE m == M!Stock(f[n], c[n + 1].name)
             p == kolv * c[n + 1].quant
  <2>2. f[n + 1] = M!Put(f[n], c[n + 1].name, m - p)
    BY <1>3, <2>1
  <2>3. m \in Int
    BY <2>1, StockPut
  <2>4. p \in Int
    <3>1. \A x, y \in Nat : x * y \in Int
      OBVIOUS
    <3> QED BY <1>4, <2>1, <3>1
  <2> HIDE DEF m, p
  <2>5. m - p \in Int
    BY <2>3, <2>4
  <2> QED BY <2>1, <2>2, <2>5, StockPut
<1> HIDE DEF S
<1>7. Len(c) \in S
  BY <1>1, <1>5, <1>6, Induction
<1>8. IsStock(M!Taken(name, kolv))
  BY <1>1, <1>2, <1>7 DEF S, c
<1> DEFINE a == M!Taken(name, kolv)
<1>9. M!MakeDetail(name, kolv) = M!Put(a, name, M!Wrap(M!Stock(a, name) + kolv))
  BY DEF M!MakeDetail
<1> HIDE DEF a
<1>10. M!Stock(a, name) \in Int
  BY <1>8, StockPut DEF a
<1>11. M!Wrap(M!Stock(a, name) + kolv) \in Int
  BY <1>10, NumberWraps
<1> QED BY <1>8, <1>9, <1>11, StockPut DEF a

LEMMA LookedStock ==
  ASSUME IsStock(avalableitems), NEW name
  PROVE  IsStock(M!Looked(name))
<1>1. \A n : M!Stock(avalableitems, n) \in Int
  BY StockPut
<1> QED BY <1>1 DEF IsStock, M!Looked

-------------------------------------------------------------------------------
SavedLine == [name : MName, card : M!CardsSaved]

LEMMA SavedIs ==
  ASSUME NEW f, M!IsSaved(f)
  PROVE  /\ IsStock(f.items) /\ f.recipes \in Seq(SavedLine)
         /\ \A i, j \in 1 .. Len(f.recipes) : i < j => f.recipes[i].name < f.recipes[j].name
<1>1. f.recipes \in Seq(SavedLine)
  BY DEF M!IsSaved, SavedLine
<1>2. DOMAIN f.recipes = 1 .. Len(f.recipes)
  BY <1>1
<1> QED BY <1>1, <1>2 DEF M!IsSaved, IsStock

(* What is read of a file in the order of its names.                           *)
LEMMA ReadReads ==
  ASSUME NEW q \in Seq(SavedLine), \A i, j \in 1 .. Len(q) : i < j => q[i].name < q[j].name
  PROVE  LET t == M!ReadRecipes(q) IN
         IsBook(t) /\ Pairs(t) = {<< q[i].name, M!Listed(q[i].card) >> : i \in 1 .. Len(q)}
<1> DEFINE m == Len(q)
           Of(n) == {<< q[i].name, M!Listed(q[i].card) >> : i \in 1 .. n}
<1>1. m \in Nat /\ \A i \in 1 .. m : q[i] \in SavedLine
  OBVIOUS
<1>2. PICK f : ReadUpTo(q, m, f) /\ M!ReadRecipes(q) = f[m]
  BY <1>1, ReadRule
<1>3. f[0] = M!NULL /\ \A n \in 1 .. m : f[n] = M!insert(q[n].name, M!Listed(q[n].card), f[n - 1])
  BY <1>2 DEF ReadUpTo
<1>4. \A i \in 1 .. m : q[i].name \in MName /\ q[i].name \in Int /\ M!Listed(q[i].card) \in M!CardsSaved
  <2> TAKE i \in 1 .. m
  <2>1. q[i].name \in MName /\ q[i].card \in M!CardsSaved
    BY <1>1 DEF SavedLine
  <2>2. q[i].card \in Seq(ACard)
    BY <2>1, CardsSavedIs
  <2>3. M!Listed(q[i].card) \in M!CardsSaved
    BY <2>2, ListedType
  <2>4. MName \subseteq Nat /\ \A x \in Nat : x \in Int
    BY ItemsFacts
  <2> QED BY <2>1, <2>3, <2>4, Zenon
<1> HIDE DEF m
<1>5. \A i, j \in 1 .. m : q[i].name = q[j].name => i = j
  <2> SUFFICES ASSUME NEW i \in 1 .. m, NEW j \in 1 .. m, q[i].name = q[j].name PROVE i = j
    OBVIOUS
  <2>1. ~(i < j) /\ ~(j < i)
    BY <1>4 DEF m
  <2> QED BY <1>1, <2>1
<1> DEFINE Good(n) == IsBook(f[n]) /\ Pairs(f[n]) = Of(n)
           S == {n \in Nat : n <= m => Good(n)}
<1>6. 0 \in S
  <2>1. IsTree(f[0]) /\ Asc(f[0]) /\ Pairs(f[0]) = {}
    BY <1>3, NullTree, PairsOf
  <2>2. Of(0) = {}
    OBVIOUS
  <2> QED BY <2>1, <2>2 DEF IsBook
<1>7. ASSUME NEW n \in Nat, n \in S PROVE n + 1 \in S
  <2> SUFFICES ASSUME n + 1 <= m PROVE Good(n + 1)
    OBVIOUS
  <2>1. n + 1 \in 1 .. m /\ (n + 1) - 1 = n /\ n <= m /\ \A i \in 1 .. n : i \in 1 .. m /\ i # n + 1
    BY <1>1
  <2>2. Good(n)
    BY <1>7, <2>1
  <2> DEFINE x == q[n + 1].name
             c == M!Listed(q[n + 1].card)
  <2>3. f[n + 1] = M!insert(x, c, f[n])
    BY <1>3, <2>1
  <2>4. x \in MName /\ x \in Int /\ c \in M!CardsSaved
    BY <1>4, <2>1
  <2>5. Inserted(f[n + 1], f[n], x, c)
    BY <2>2, <2>3, <2>4, InsertInserts DEF IsBook
  <2>6. Of(n + 1) = Of(n) \cup {<< x, c >>}
    <3>1. \A i \in 1 .. n + 1 : i \in 1 .. n \/ i = n + 1
      OBVIOUS
    <3>2. (\A i \in 1 .. n : i \in 1 .. n + 1) /\ n + 1 \in 1 .. n + 1
      OBVIOUS
    <3> QED BY <3>1, <3>2
  <2>7. ~Named(x, Of(n))
    <3> SUFFICES ASSUME Named(x, Of(n)) PROVE FALSE
      OBVIOUS
    <3>1. PICK i \in 1 .. n : << q[i].name, M!Listed(q[i].card) >>[1] = x
      BY DEF Named
    <3>2. q[i].name = q[n + 1].name
      BY <3>1
    <3> QED BY <1>5, <2>1, <3>2
  <2>8. IsBook(f[n + 1])
    BY <2>2, <2>3, <2>4, BookInserts
  <2> HIDE DEF x, c, Of
  <2>9. Pairs(f[n + 1]) = Of(n + 1)
    BY <2>2, <2>5, <2>6, <2>7 DEF Inserted
  <2> QED BY <2>8, <2>9
<1> HIDE DEF S
<1>8. m \in S
  BY <1>1, <1>6, <1>7, Induction
<1>9. Good(m)
  BY <1>1, <1>8 DEF S
<1> QED BY <1>2, <1>9 DEF m

(* What is saved of a tree can be read again.                                  *)
LEMMA SaveSaves ==
  ASSUME IsStock(avalableitems), IsBook(recipe)
  PROVE  M!IsSaved(M!Database_to_file)
<1> DEFINE w == M!Written(recipe)
           q == [i \in DOMAIN w |-> [name |-> w[i].data, card |-> w[i].card]]
<1>1. w \in Seq(Nodes(recipe)) /\ Asc(recipe)
  BY WrittenNodes DEF IsBook
<1>2. /\ DOMAIN w = 1 .. Len(w) /\ Len(w) \in Nat /\ \A i \in 1 .. Len(w) : w[i] \in Nodes(recipe)
  BY <1>1
<1>3. M!Database_to_file = [items |-> avalableitems, recipes |-> q]
  BY DEF M!Database_to_file
<1>4. \A i, j \in 1 .. Len(w) : i < j => w[i].data < w[j].data
  BY <1>1 DEF Asc, Ascends
<1>5. \A u \in Nodes(recipe) : u.data \in MName /\ u.card \in M!CardsSaved
  <2> TAKE u \in Nodes(recipe)
  <2>1. /\ << u.data, u.card >> \in Pairs(recipe)
        /\ << u.data, u.card >>[1] = u.data /\ << u.data, u.card >>[2] = u.card
    BY DEF Pairs
  <2> QED BY <2>1 DEF IsBook
<1> HIDE DEF w
<1>6. /\ q \in Seq([name : MName, card : M!CardsSaved]) /\ DOMAIN q = 1 .. Len(w)
      /\ \A i \in 1 .. Len(w) : q[i].name = w[i].data
  BY <1>2, <1>5
<1> HIDE DEF q
<1>7. \A i, j \in DOMAIN q : i < j => q[i].name < q[j].name
  BY <1>4, <1>6
<1>8. M!Database_to_file.items = avalableitems /\ M!Database_to_file.recipes = q
  BY <1>3
<1> QED BY <1>6, <1>7, <1>8 DEF M!IsSaved, IsStock

-------------------------------------------------------------------------------
(* Menshikh_DA's server. *)
MInv == IsStock(avalableitems) /\ IsBook(recipe) /\ M!IsSaved(file)

LEMMA NothingThere == IsStock(<< >>) /\ IsBook(M!NULL)
<1>1. IsStock(<< >>)
  BY DEF IsStock
<1>2. IsBook(M!NULL)
  BY NullTree, PairsOf DEF IsBook
<1> QED BY <1>1, <1>2

LEMMA MStarts == M!Init => MInv
BY NothingThere, ItemsFacts DEF M!Init, MInv

LEMMA StartReads == MInv /\ M!Start => MInv'
<1> SUFFICES ASSUME MInv, M!Start PROVE MInv'
  OBVIOUS
<1>1. avalableitems' = file.items /\ recipe' = M!ReadRecipes(file.recipes) /\ file' = file
  BY DEF M!Start
<1>2. M!IsSaved(file)
  BY DEF MInv
<1>3. IsStock(file.items) /\ IsBook(M!ReadRecipes(file.recipes))
  BY <1>2, SavedIs, ReadReads
<1>4. IsStock(avalableitems') /\ IsBook(recipe') /\ M!IsSaved(file')
  BY <1>1, <1>2, <1>3
<1> QED BY <1>4 DEF MInv

LEMMA EndsInv == MInv /\ M!Ends => MInv'
<1> SUFFICES ASSUME MInv, M!Ends PROVE MInv'
  OBVIOUS
<1>1. avalableitems' = << >> /\ recipe' = M!NULL /\ file' = file /\ M!IsSaved(file)
  BY DEF M!Ends, MInv
<1>2. IsStock(avalableitems') /\ IsBook(recipe') /\ M!IsSaved(file')
  BY <1>1, NothingThere
<1> QED BY <1>2 DEF MInv

LEMMA StockKept ==
  ASSUME MInv, IsStock(avalableitems'), recipe' = recipe, file' = file
  PROVE  MInv'
BY DEF MInv

LEMMA HandleInv ==
  ASSUME MInv, NEW r \in MRequests, M!Handle(r)
  PROVE  MInv'
<1>0. r.name \in MName /\ r.kolv \in Nat /\ r.card \in Seq(ACard)
  BY ItemsFacts
<1>1. IsStock(avalableitems) /\ IsBook(recipe) /\ M!IsSaved(file)
  BY DEF MInv
<1>2. IsStock(M!Looked(r.name))
  BY <1>1, LookedStock
<1>3. CASE M!InputError(r)
  <2>1. avalableitems' = avalableitems /\ recipe' = recipe /\ file' = file
    BY <1>3 DEF M!InputError
  <2> QED BY <1>1, <2>1, StockKept
<1>4. CASE M!Canmake(r)
  <2>1. M!Ends \/ (avalableitems' = M!Looked(r.name) /\ recipe' = recipe /\ file' = file)
    BY <1>4 DEF M!Canmake
  <2> QED BY <1>2, <2>1, EndsInv, StockKept
<1>5. CASE M!Hmake(r)
  <2>1. M!Ends \/ (avalableitems' = M!Looked(r.name) /\ recipe' = recipe /\ file' = file)
    BY <1>5 DEF M!Hmake
  <2> QED BY <1>2, <2>1, EndsInv, StockKept
<1>6. CASE M!Show(r)
  <2>1. avalableitems' = avalableitems /\ recipe' = recipe /\ file' = file
    BY <1>6 DEF M!Show
  <2> QED BY <1>1, <2>1, StockKept
<1>7. CASE M!Make(r)
  <2>1. \/ M!Ends
        \/ recipe' = recipe /\ file' = file /\ avalableitems' = M!Looked(r.name)
        \/ recipe' = recipe /\ file' = file /\ M!can_make(r.name, r.kolv) = 0
           /\ avalableitems' = M!MakeDetail(r.name, r.kolv)
    BY <1>7 DEF M!Make
  <2>2. M!can_make(r.name, r.kolv) = 0 => M!Known(r.name)
    BY DEF M!can_make
  <2>3. M!Known(r.name) => IsStock(M!MakeDetail(r.name, r.kolv))
    BY <1>0, <1>1, TakenStock
  <2>4. CASE M!Ends
    BY <2>4, EndsInv
  <2>5. CASE recipe' = recipe /\ file' = file /\ avalableitems' = M!Looked(r.name)
    BY <1>2, <2>5, StockKept
  <2>6. CASE recipe' = recipe /\ file' = file /\ M!can_make(r.name, r.kolv) = 0
             /\ avalableitems' = M!MakeDetail(r.name, r.kolv)
    BY <2>2, <2>3, <2>6, StockKept
  <2> QED BY <2>1, <2>4, <2>5, <2>6
<1>8. CASE M!Additem(r)
  <2> DEFINE s == M!add_detail(M!Here, r.name, r.kolv)
  <2>1. avalableitems' = s.a /\ recipe' = s.t /\ file' = file
    BY <1>8 DEF M!Additem, M!Becomes
  <2>2. IsShelf(M!Here)
    BY <1>1 DEF M!Here, IsShelf
  <2>3. IsShelf(s)
    BY <1>0, <2>2, ShelfGrows
  <2> HIDE DEF s
  <2>4. IsStock(avalableitems') /\ IsBook(recipe') /\ M!IsSaved(file')
    BY <1>1, <2>1, <2>3 DEF IsShelf
  <2> QED BY <2>4 DEF MInv
<1>9. CASE M!Save(r)
  <2>1. avalableitems' = avalableitems /\ recipe' = recipe /\ file' = M!Database_to_file
    BY <1>9 DEF M!Save
  <2>2. IsStock(avalableitems') /\ IsBook(recipe') /\ M!IsSaved(file')
    BY <1>1, <2>1, SaveSaves
  <2> QED BY <2>2 DEF MInv
<1>10. CASE M!Addrecipe(r)
  <2> DEFINE p == M!WithParts(M!Here, r.card)
             s == M!add_recipe(p, r.name, M!Listed(r.card))
  <2>1. /\ file' = file
        /\ \/ avalableitems' = s.a /\ recipe' = s.t
           \/ avalableitems' = p.a /\ recipe' = p.t
    BY <1>10 DEF M!Addrecipe, M!Becomes
  <2>2. IsShelf(M!Here)
    BY <1>1 DEF M!Here, IsShelf
  <2>3. IsShelf(p)
    BY <1>0, <2>2, PartsShelf
  <2> HIDE DEF p
  <2>4. IsShelf(s)
    BY <1>0, <2>3, ListedType, ShelfGrows
  <2> HIDE DEF s
  <2>5. IsStock(avalableitems') /\ IsBook(recipe') /\ M!IsSaved(file')
    BY <1>1, <2>1, <2>3, <2>4 DEF IsShelf
  <2> QED BY <2>5 DEF MInv
<1>11. CASE M!Deleteitem(r)
  <2> DEFINE n == M!Stock(avalableitems, r.name)
             h == M!Wrap(n - r.kolv)
  <2>1. /\ recipe' = recipe /\ file' = file
        /\ \/ avalableitems' = avalableitems
           \/ avalableitems' = M!Put(avalableitems, r.name, n)
           \/ avalableitems' = M!Put(avalableitems, r.name, h)
    BY <1>11 DEF M!Deleteitem
  <2>2. n \in Int
    BY <1>1, StockPut
  <2>3. n - r.kolv \in Int
    <3> HIDE DEF n
    <3> QED BY <1>0, <2>2
  <2>4. h \in Int
    BY <2>3, NumberWraps
  <2> HIDE DEF n, h
  <2>5. IsStock(avalableitems')
    BY <1>1, <2>1, <2>2, <2>4, StockPut
  <2> QED BY <2>1, <2>5, StockKept
<1>12. CASE M!Exit1979(r)
  BY <1>12, EndsInv DEF M!Exit1979
<1> QED BY <1>3, <1>4, <1>5, <1>6, <1>7, <1>8, <1>9, <1>10, <1>11, <1>12 DEF M!Handle

LEMMA MStep == MInv /\ [M!Next]_M!vars => MInv'
<1> SUFFICES ASSUME MInv, [M!Next]_M!vars PROVE MInv'
  OBVIOUS
<1>1. CASE M!Start
  BY <1>1, StartReads
<1>2. CASE M!Killed
  BY <1>2, EndsInv DEF M!Killed
<1>3. CASE M!Serve
  BY <1>3, HandleInv DEF M!Serve
<1>4. CASE UNCHANGED M!vars
  BY <1>4 DEF M!vars, MInv
<1> QED BY <1>1, <1>2, <1>3, <1>4 DEF M!Next

(* Whatever is asked of Menshikh_DA's server, saved or read at a start: the    *)
(* quantities are ints, the tree holds the recipes in the order of their       *)
(* names, every part of one a card and each once, and the files hold what a    *)
(* save writes.  The balance of the tree is not kept (the rotations of the     *)
(* right side are swapped), so that the proof never asks for it.               *)
THEOREM RecipesKept == M!Spec => []MInv
<1> QED BY MStarts, MStep, PTL DEF M!Spec

LEMMA BookFinds == MInv => TreeFinds
<1>1. IsBook(recipe) => Sorted(recipe)
  BY ItemsFacts DEF IsBook, Sorted
<1> QED BY <1>1, SortedFinds DEF MInv

(* search finds each recipe of the tree and no other, two removes take just    *)
(* their names from it, and copy gives the same lines again, whatever the      *)
(* rotations of insert and remove have turned.                                 *)
THEOREM RecipesFound == M!Spec => []TreeFinds
<1> QED BY RecipesKept, BookFinds, PTL

-------------------------------------------------------------------------------
(* Of some numbers one is the least.                                           *)
LEMMA LeastOfMany ==
  ASSUME NEW m \in Nat, m # 0, NEW g, \A i \in 1 .. m : g[i] \in Int
  PROVE  \E i \in 1 .. m : \A j \in 1 .. m : g[i] <= g[j]
<1> DEFINE S == {n \in Nat : n + 1 <= m => \E i \in 1 .. n + 1 : \A j \in 1 .. n + 1 : g[i] <= g[j]}
<1>1. 0 \in S
  BY DEF S
<1>2. ASSUME NEW n \in Nat, n \in S PROVE n + 1 \in S
  <2> SUFFICES ASSUME n + 1 + 1 <= m
               PROVE  \E i \in 1 .. n + 1 + 1 : \A j \in 1 .. n + 1 + 1 : g[i] <= g[j]
    BY DEF S
  <2>1. PICK i \in 1 .. n + 1 : \A j \in 1 .. n + 1 : g[i] <= g[j]
    BY <1>2
  <2> DEFINE k == n + 1 + 1
  <2>2. k \in 1 .. k /\ (\A j \in 1 .. k : j = k \/ j \in 1 .. n + 1) /\ i \in 1 .. k
        /\ (\A j \in 1 .. k : j \in 1 .. m)
    OBVIOUS
  <2> HIDE DEF k
  <2>3. g[i] \in Int /\ g[k] \in Int /\ \A j \in 1 .. k : g[j] \in Int
    BY <2>2
  <2>4. CASE g[i] <= g[k]
    <3>1. \A j \in 1 .. k : g[i] <= g[j]
      BY <2>1, <2>2, <2>4
    <3> QED BY <2>2, <3>1 DEF k
  <2>5. CASE ~(g[i] <= g[k])
    <3>1. \A j \in 1 .. k : g[k] <= g[j]
      <4> TAKE j \in 1 .. k
      <4>1. CASE j = k
        BY <2>3, <4>1
      <4>2. CASE j # k
        <5>1. g[i] <= g[j]
          BY <2>1, <2>2, <4>2
        <5> QED BY <2>3, <2>5, <5>1
      <4> QED BY <4>1, <4>2
    <3> QED BY <2>2, <3>1 DEF k
  <2> QED BY <2>4, <2>5
<1> HIDE DEF S
<1>3. m - 1 \in S /\ (m - 1) + 1 = m
  BY <1>1, <1>2, Induction
<1> QED BY <1>3 DEF S

LEMMA SufficesInt ==
  ASSUME IsStock(avalableitems), NEW l \in ACard, l.quant # 0
  PROVE  M!Suffices(l) \in Int
<1>1. \A a \in Int : \A b \in Nat \ {0} : a \div b \in Int
  OBVIOUS
<1> DEFINE n == M!Stock(avalableitems, l.name)
<1>2. n \in Int /\ l.quant \in Nat \ {0}
  BY StockPut DEF ACard
<1>3. M!Suffices(l) = M!Quotient(n, l.quant)
  BY DEF M!Suffices
<1> HIDE DEF n
<1>4. -n \in Int
  BY <1>2
<1>5. n \div l.quant \in Int /\ (-n) \div l.quant \in Int
  BY <1>1, <1>2, <1>4
<1>6. \A a \in Int : -a \in Int
  OBVIOUS
<1> QED BY <1>3, <1>5, <1>6 DEF M!Quotient

LEMMA SayingFirst ==
  /\ \A words, k : M!Say(words, k) => msaid'.words = words /\ msaid'.number = k
  /\ M!Ends => msaid'.words = "nothing"
<1>1. \A words, k : [words |-> words, number |-> k].words = words /\ [words |-> words, number |-> k].number = k
  OBVIOUS
<1> QED BY <1>1, Zenon DEF M!Say, M!Ends

LEMMA HmakeSays ==
  ASSUME NEW r, M!Hmake(r), msaid'.words = "items can be made"
  PROVE  /\ M!Known(r.name) /\ ~M!DividesByZero(r.name) /\ M!Card(r.name) # << >>
         /\ msaid'.number = M!hm_make(r.name)
<1>1. ~M!Ends /\ ~M!Say("It's simple detail", 0) /\ ~M!Say("nothing", 0)
  <2>1. "nothing" # "items can be made" /\ "It's simple detail" # "items can be made"
    BY Zenon
  <2> QED BY <2>1, SayingFirst, Zenon
<1>2. /\ M!Known(r.name) /\ ~M!DividesByZero(r.name) /\ M!Card(r.name) # << >>
      /\ M!Say("items can be made", M!hm_make(r.name))
  BY <1>1, Zenon DEF M!Hmake
<1> QED BY <1>2, SayingFirst, Zenon

LEMMA HmakeCounts ==
  ASSUME MInv, NEW r \in MRequests, NEW n \in 0 .. MaxInt,
         M!Known(r.name), ~M!DividesByZero(r.name), M!Card(r.name) # << >>
  PROVE  M!can_make(r.name, n) = 0 <=> n <= M!hm_make(r.name)
<1> DEFINE c == M!Card(r.name)
           h == M!hm_make(r.name)
           m == Len(c)
           g == [i \in 1 .. m |-> M!Suffices(c[i])]
<1>0. r.name \in MName
  BY ItemsFacts
<1>1. M!Known(r.name) /\ ~M!DividesByZero(r.name) /\ c # << >>
  OBVIOUS
<1>2. c \in Seq(ACard) /\ m \in Nat /\ DOMAIN c = 1 .. m
  BY <1>0, <1>1, BookKnown DEF MInv
<1>3. m # 0
  <2>1. \A s \in Seq(ACard) : Len(s) = 0 => s = << >>
    OBVIOUS
  <2> HIDE DEF c
  <2> QED BY <1>1, <1>2, <2>1
<1>4. \A i \in 1 .. m : c[i] \in ACard /\ c[i].quant # 0
  <2>1. \A i \in DOMAIN c : c[i].quant # 0
    BY <1>1, Zenon DEF M!DividesByZero
  <2> HIDE DEF c
  <2> QED BY <1>2, <2>1
<1>5. h = M!Min({M!Suffices(c[i]) : i \in DOMAIN c})
  BY DEF M!hm_make
<1>6. M!can_make(r.name, n) = 0 <=> \A i \in DOMAIN c : ~(M!Suffices(c[i]) < n)
  <2>1. M!can_make(r.name, n) = IF M!Lacking(c, n) # {} THEN 1 ELSE 0
    BY <1>1 DEF M!can_make
  <2>2. M!Lacking(c, n) = {i \in DOMAIN c : M!Suffices(c[i]) < n}
    BY DEF M!Lacking
  <2> HIDE DEF c
  <2> QED BY <2>1, <2>2
<1> HIDE DEF c, m, h
<1>7. \A i \in 1 .. m : g[i] = M!Suffices(c[i]) /\ g[i] \in Int
  BY <1>4, SufficesInt DEF MInv
<1> HIDE DEF g
<1>8. PICK i \in 1 .. m : \A j \in 1 .. m : g[i] <= g[j]
  BY <1>2, <1>3, <1>7, LeastOfMany
<1>9. {M!Suffices(c[j]) : j \in DOMAIN c} = {g[j] : j \in 1 .. m}
  BY <1>2, <1>7
<1> DEFINE T == {g[j] : j \in 1 .. m}
<1>10. \E x \in T : \A y \in T : x <= y
  BY <1>8
<1>11. h \in T /\ \A y \in T : h <= y
  BY <1>5, <1>9, <1>10 DEF M!Min
<1>12. h \in Int /\ n \in Int
  BY <1>7, <1>11, ItemsFacts
<1>13. (\A j \in 1 .. m : ~(g[j] < n)) <=> n <= h
  <2>1. PICK k \in 1 .. m : h = g[k]
    BY <1>11
  <2>2. \A j \in 1 .. m : h <= g[j]
    BY <1>11
  <2> HIDE DEF T
  <2> QED BY <1>7, <1>12, <2>1, <2>2
<1> QED BY <1>2, <1>6, <1>7, <1>13 DEF h

(* When hmake answers with a number, can_make says yes to every smaller one    *)
(* and to that one, and no to any above it that fits in an int: the loop over  *)
(* the card keeps the least of the quotients.                                  *)
THEOREM HmakeIsExact == M!Spec => HmakeExact
<1>1. MInv /\ [M!Next]_M!vars =>
        [\A r \in MRequests : M!Hmake(r) /\ msaid'.words = "items can be made" =>
           \A n \in 0 .. MaxInt : (M!can_make(r.name, n) = 0) <=> (n <= msaid'.number)]_M!vars
  BY HmakeSays, HmakeCounts, Zenon
<1> QED BY <1>1, RecipesKept, PTL DEF M!Spec, HmakeExact, M!HmakeExact

-------------------------------------------------------------------------------
LEMMA StartComesBack ==
  ASSUME MInv, M!Start
  PROVE  /\ avalableitems' = file.items
         /\ LET w == M!Written(recipe')
            IN /\ Len(w) = Len(file.recipes)
               /\ \A i \in DOMAIN w : w[i].data = file.recipes[i].name
                                     /\ w[i].card = M!Reverse(file.recipes[i].card)
<1> DEFINE q == file.recipes
           m == Len(q)
           t == M!ReadRecipes(q)
           v == [i \in 1 .. m |-> << q[i].name, M!Listed(q[i].card) >>]
           w == M!Written(t)
<1>1. avalableitems' = file.items /\ recipe' = t
  BY DEF M!Start
<1>2. q \in Seq(SavedLine) /\ \A i, j \in 1 .. m : i < j => q[i].name < q[j].name
  BY SavedIs DEF MInv
<1>3. IsBook(t) /\ Pairs(t) = {<< q[i].name, M!Listed(q[i].card) >> : i \in 1 .. m}
  BY <1>2, ReadReads
<1>4. IsTree(t) /\ Asc(t) /\ MName \subseteq Nat /\ \A p \in Pairs(t) : p[1] \in MName
  BY <1>3, ItemsFacts DEF IsBook
<1>5. m \in Nat /\ \A i \in 1 .. m : q[i].card \in M!CardsSaved
  <2>1. m \in Nat /\ \A i \in 1 .. m : q[i] \in SavedLine
    <3> HIDE DEF q
    <3> QED BY <1>2
  <2> QED BY <2>1 DEF SavedLine
<1>6. /\ LinesOf(t) \in Seq(Pairs(t)) /\ Len(LinesOf(t)) = Len(w)
      /\ Members(LinesOf(t)) = Pairs(t) /\ InOrder(LinesOf(t))
  BY <1>4, LinesOfTree
<1>7. w \in Seq(Nodes(t))
  BY <1>4, WrittenNodes
<1> HIDE DEF q, t
<1>8. DOMAIN w = 1 .. Len(w) /\ LinesOf(t) = [i \in DOMAIN w |-> << w[i].data, w[i].card >>]
  BY <1>7 DEF LinesOf
<1> HIDE DEF m, w
<1>9. \A i \in 1 .. m : << q[i].name, M!Listed(q[i].card) >> \in Pairs(t)
  BY <1>3
<1>10. v \in Seq(Pairs(t)) /\ Len(v) = m /\ \A i \in 1 .. m : v[i] = << q[i].name, M!Listed(q[i].card) >>
  BY <1>5, <1>9
<1> HIDE DEF v
<1>11. \A i \in 1 .. m : v[i][1] = q[i].name /\ v[i][2] = M!Listed(q[i].card)
  BY <1>10
<1>12. InOrder(v)
  BY <1>2, <1>10, <1>11 DEF InOrder
<1>13. Members(v) = Pairs(t)
  BY <1>3, <1>10 DEF Members
<1>14. \A p \in Pairs(t) : p[1] \in Nat
  BY <1>4
<1>15. LinesOf(t) = v
  BY <1>6, <1>10, <1>12, <1>13, <1>14, SameLines
<1>16. Len(w) = m
  BY <1>6, <1>10, <1>15
<1>17. \A i \in 1 .. m : v[i] = << w[i].data, w[i].card >>
  BY <1>8, <1>15, <1>16
<1>18. \A i \in DOMAIN w : w[i].data = q[i].name /\ w[i].card = M!Reverse(q[i].card)
  <2> TAKE i \in DOMAIN w
  <2>1. i \in 1 .. m
    BY <1>8, <1>16
  <2>2. v[i][1] = w[i].data /\ v[i][2] = w[i].card
    BY <1>17, <2>1
  <2>3. M!Listed(q[i].card) = M!Reverse(q[i].card)
    BY <1>5, <2>1, ListedTurns
  <2> QED BY <1>11, <2>1, <2>2, <2>3
<1> QED BY <1>1, <1>16, <1>18 DEF q, m, w

(* A start after a save finds the quantities and the recipes that were saved:  *)
(* the tree it grows line by line writes them in the same order, and each card *)
(* comes back turned round, for its list grows at the front.                   *)
THEOREM SavedIsRead == M!Spec => SavedComesBack
<1>1. MInv /\ [M!Next]_M!vars =>
        [M!Start =>
           /\ avalableitems' = file.items
           /\ LET w == M!Written(recipe')
              IN /\ Len(w) = Len(file.recipes)
                 /\ \A i \in DOMAIN w : w[i].data = file.recipes[i].name
                                       /\ w[i].card = M!Reverse(file.recipes[i].card)]_M!vars
  BY StartComesBack
<1> QED BY <1>1, RecipesKept, PTL DEF M!Spec, SavedComesBack, M!SavedComesBack
================================================================================
