--------------------------- MODULE KutuzovWarehouse ---------------------------
(* KutuzovOO's server: parts in a hash table of lists, recipes in a map, both  *)
(* loaded once and kept in memory.  The poll loop handles one request at a     *)
(* time (its slots are the module PollLoop); what a client waits for is here:  *)
(* client.py reads a number and then as many messages.                         *)
EXTENDS Integers, FiniteSets

CONSTANTS Name,      \* of parts and devices
          Client,
          Requests,  \* what the clients may send
          Stocks, Recipes, \* contents of test_data.txt and of test_recipe.txt
          MaxInt,    \* of a C int; the next one is -MaxInt - 1
          MaxMerged  \* bounds the merges that the counter counts

IsQuants(f) == DOMAIN f \subseteq Name /\ f \in [DOMAIN f -> 0 .. MaxInt]

IsRecipes(f) == DOMAIN f \subseteq Name /\ \A n \in DOMAIN f : IsQuants(f[n])

ASSUME WarehouseAssumption ==
  /\ MaxInt \in Nat \ {0} /\ IsFiniteSet(Name)
  /\ (\A f \in Stocks : IsQuants(f)) /\ (\A f \in Recipes : IsRecipes(f))
  /\ \A r \in Requests : /\ r.name \in Name /\ r.quant \in 0 .. MaxInt
                         /\ IsQuants(r.recipe) /\ r.details \subseteq Name

VARIABLES up,
          data,          \* of the lists: the names that have a node, with their quantity
          numOfItems,    \* HashTable
          known_recipes,
          owed,          \* messages a client has been promised and does not get
          said,          \* the last answer
          merged,        \* inserts that met a node of their name
          wrapped        \* an int has overflowed

vars == << up, data, numOfItems, known_recipes, owed, said, merged, wrapped >>

(* The build adds and multiplies modulo the width.                             *)
Wrap(n) == ((n + MaxInt + 1) % (2 * (MaxInt + 1))) - MaxInt - 1

-------------------------------------------------------------------------------
(* The hash table and its lists: a name has at most one node.                  *)
search(name) == IF name \in DOMAIN data THEN data[name] ELSE 0

(* How much is missing.  g++ -O2 makes data < quant of data - quant < 0.       *)
searchP(name, quant) ==
  IF name \notin DOMAIN data THEN quant
  ELSE IF data[name] < quant THEN Wrap(quant - data[name]) ELSE 0

ListInsert(d, name, quant) ==
  [n \in DOMAIN d \cup {name} |->
     IF n # name THEN d[n] ELSE IF n \in DOMAIN d THEN Wrap(d[n] + quant) ELSE quant]

(* Nodes that parts[name] empties exactly are unlinked; one that holds less is *)
(* left as it is, and so is a name without a node.                             *)
Emptied(parts) == {n \in DOMAIN data \cap DOMAIN parts : data[n] = parts[n]}

(* Mutant: removepart answers 1 for a node that it unlinks.                    *)
UnlinkedNone(parts) == 0

(* What the counter goes down by.                                              *)
Unlinked(parts) == Cardinality(Emptied(parts))

ListRemoveparts(parts) ==
  [n \in DOMAIN data \ Emptied(parts) |->
     IF n \in DOMAIN parts /\ parts[n] <= data[n] THEN Wrap(data[n] - parts[n]) ELSE data[n]]

(* The counter follows: one up for every insert, one down for a node unlinked. *)
Insert(d, name, quant, unlinked) ==
  /\ data' = ListInsert(d, name, quant)
  /\ numOfItems' = numOfItems - unlinked + 1
  /\ merged' = merged + (IF name \in DOMAIN d THEN 1 ELSE 0)
  /\ merged' <= MaxMerged

Overflows(d, name, quant) == name \in DOMAIN d /\ d[name] + quant > MaxInt

-------------------------------------------------------------------------------
(* What a recipe needs for so many devices, and the answer of CanMake: its     *)
(* deficit.                                                                    *)
Needs(name, quant) == [n \in DOMAIN known_recipes[name] |-> Wrap(quant * known_recipes[name][n])]

Deficit(name, quant) == {n \in DOMAIN Needs(name, quant) : searchP(n, Needs(name, quant)[n]) > 0}

(* Mutant: the number of devices is left out.                                  *)
CanMakeOne(name, quant) ==
  IF name \notin DOMAIN known_recipes THEN "no_recipe"
  ELSE IF Deficit(name, 1) # {} THEN "no_details" ELSE "all_right"

CanMake(name, quant) ==
  IF name \notin DOMAIN known_recipes THEN "no_recipe"
  ELSE IF Deficit(name, quant) # {} THEN "no_details" ELSE "all_right"

(* What MakeFrom proposes: more of every part than the recipe takes, and only  *)
(* parts that were named.                                                      *)
Makes(details) ==
  {d \in DOMAIN known_recipes :
     \A n \in DOMAIN known_recipes[d] : n \in details /\ search(n) > known_recipes[d][n]}

-------------------------------------------------------------------------------
Init ==
  /\ up = TRUE
  /\ data \in Stocks /\ numOfItems = Cardinality(DOMAIN data) /\ known_recipes \in Recipes
  /\ owed = [c \in Client |-> 0] /\ said = "nothing"
  /\ merged = 0 /\ wrapped = FALSE

(* A client sends when it has read what it was promised.  A request is well    *)
(* formed or answered with "Input error".                                      *)
Asks(c, zapros, r) == up /\ owed[c] = 0 /\ r.zapros = zapros

Answer(words) == said' = words /\ owed' = owed

Read == UNCHANGED << up, data, numOfItems, known_recipes, merged, wrapped >>

InputError(c, r) == up /\ owed[c] = 0 /\ ~r.wellFormed /\ Answer("input_error") /\ Read

Canmake(c, r) == Asks(c, "canmake", r) /\ r.wellFormed /\ Answer(CanMake(r.name, r.quant)) /\ Read

Getquant(c, r) == Asks(c, "getquant", r) /\ r.wellFormed /\ Answer("in_stock") /\ Read

Makefrom(c, r) ==
  /\ Asks(c, "makefrom", r) /\ r.wellFormed /\ Read
  /\ Answer(IF \E n \in r.details : search(n) = 0 THEN "not_in_stock"
               ELSE IF Makes(r.details) = {} THEN "cannot_do_anything" ELSE "can_make")

MakeDetail(name, quant) ==
  LET needs == Needs(name, quant)
      left == ListRemoveparts(needs)
  IN /\ Insert(left, name, quant, Unlinked(needs))
     /\ wrapped' = (\/ wrapped \/ Overflows(left, name, quant)
                    \/ \E n \in DOMAIN needs : needs[n] # quant * known_recipes[name][n])

Make(c, r) ==
  /\ Asks(c, "make", r) /\ r.wellFormed
  /\ IF CanMake(r.name, r.quant) # "all_right" THEN Answer("exception") /\ Read
     ELSE /\ MakeDetail(r.name, r.quant) /\ Answer("you_make")
          /\ UNCHANGED << up, known_recipes >>

Adddetail(c, r) ==
  /\ Asks(c, "adddetail", r) /\ r.wellFormed
  /\ Insert(data, r.name, r.quant, 0) /\ Answer("you_add")
  /\ wrapped' = (wrapped \/ Overflows(data, r.name, r.quant))
  /\ UNCHANGED << up, known_recipes >>

Deletedetail(c, r) ==
  LET parts == [n \in {r.name} |-> r.quant]
  IN /\ Asks(c, "deletedetail", r) /\ r.wellFormed
     /\ data' = ListRemoveparts(parts)
     /\ numOfItems' = numOfItems - Unlinked(parts)
     /\ Answer(IF r.name \in DOMAIN data /\ data[r.name] < r.quant THEN "not_found" ELSE "you_delete")
     /\ UNCHANGED << up, known_recipes, merged, wrapped >>

Addrecipe(c, r) ==
  /\ Asks(c, "addrecipe", r) /\ r.wellFormed
  /\ known_recipes' = [n \in DOMAIN known_recipes \cup {r.name} |->
                         IF n = r.name THEN r.recipe ELSE known_recipes[n]]
  /\ Answer("recipe_added")
  /\ UNCHANGED << up, data, numOfItems, merged, wrapped >>

(* As many messages are promised as the counter says, and a node has one.      *)
Promised == numOfItems + Cardinality(DOMAIN known_recipes)
Sent == Cardinality(DOMAIN data) + Cardinality(DOMAIN known_recipes)

send_to_client(c) == owed' = [owed EXCEPT ![c] = Promised - Sent]

Show(c, r) ==
  /\ Asks(c, "show", r) /\ r.wellFormed /\ send_to_client(c)
  /\ said' = "all" /\ Read

(* exit closes every connection and ends the process.                          *)
Exit(c, r) ==
  /\ Asks(c, "exit", r) /\ r.wellFormed
  /\ up' = FALSE /\ owed' = [d \in Client |-> 0]
  /\ UNCHANGED << data, numOfItems, known_recipes, said, merged, wrapped >>

(* A client that waits is killed, and another one comes.                       *)
Killed(c) ==
  /\ up /\ owed[c] # 0 /\ owed' = [owed EXCEPT ![c] = 0]
  /\ UNCHANGED << up, data, numOfItems, known_recipes, said, merged, wrapped >>

Handle(c, r) ==
  \/ InputError(c, r) \/ Canmake(c, r) \/ Getquant(c, r) \/ Makefrom(c, r) \/ Make(c, r)
  \/ Adddetail(c, r) \/ Deletedetail(c, r) \/ Addrecipe(c, r) \/ Show(c, r) \/ Exit(c, r)

Next == \E c \in Client : Killed(c) \/ \E r \in Requests : Handle(c, r)

Spec == Init /\ [][Next]_vars

-------------------------------------------------------------------------------
(* HashTable's counter counts every insert: it exceeds the number of the nodes *)
(* by the merges there were, and a client of show waits for just that many     *)
(* messages that never come.                                                   *)
CountsMerges ==
  /\ numOfItems = Cardinality(DOMAIN data) + merged
  /\ \A c \in Client : owed[c] \in 0 .. merged

(* README "MAKE": a make that is confirmed takes just what the recipe says and *)
(* adds the devices, whichever of the nodes it empties or creates.             *)
MakeConserves ==
  [][\A c \in Client : \A r \in Requests :
       Make(c, r) /\ ~wrapped' /\ said' = "you_make" =>
         \A n \in Name :
           search(n)' = search(n) + (IF n = r.name THEN r.quant ELSE 0)
             - (IF n \in DOMAIN known_recipes[r.name] THEN r.quant * known_recipes[r.name][n] ELSE 0)]_vars
================================================================================
