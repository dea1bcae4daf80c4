--------------------------- MODULE MenshikhWarehouse ---------------------------
(* Menshikh_DA's server: quantities in a map, recipes in a tree of their own,  *)
(* both written by save and read at the start.  One request is handled at a    *)
(* time, and one that divides by zero or looks at no node ends the process.    *)
EXTENDS AvlTree, Positions, SequencesExt, FiniteSetsExt

CONSTANTS Name,     \* of items, ordered as their strings are
          Requests, \* what the clients may send
          Files,    \* contents of ii.txt and rr.txt
          MaxInt,   \* of a C int; the next one is -MaxInt - 1
          MaxHandled \* bounds the requests, those before a restart included

Lines == Seq([name : Name, quant : Nat])

(* What save writes: the recipes in the order of their names, each name once,  *)
(* and in a card, too, each name once.                                         *)
CardsSaved == {c \in Lines : \A i, j \in DOMAIN c : c[i].name = c[j].name => i = j}

IsSaved(f) ==
  /\ f.items \in [DOMAIN f.items -> Int]
  /\ f.recipes \in Seq([name : Name, card : CardsSaved])
  /\ \A i, j \in DOMAIN f.recipes : i < j => f.recipes[i].name < f.recipes[j].name

(* What the constants must satisfy.  The main loop takes digits only for a     *)
(* quantity, and a card's sums stay within an int.                             *)
ItemsAssumption ==
  /\ MaxInt \in Nat \ {0} /\ Name \subseteq Nat
  /\ \A f \in Files : IsSaved(f)
  /\ \A r \in Requests : /\ r.name \in Name /\ r.kolv \in Nat /\ r.card \in Lines
                          /\ Total([i \in DOMAIN r.card |-> r.card[i].quant]) \in 0 .. MaxInt

VARIABLES up, avalableitems, recipe, file,
          said,    \* the last answer: its words, and the number in it
          handled

vars == << up, avalableitems, recipe, file, said, handled >>

Wrap(n) == ((n + MaxInt + 1) % (2 * (MaxInt + 1))) - MaxInt - 1

(* Division rounds towards zero.                                               *)
Quotient(a, b) == IF a >= 0 THEN a \div b ELSE -((-a) \div b)

-------------------------------------------------------------------------------
(* A card lists pairs of a name and a quantity; a name it has grows.           *)
ListInsert(list, line) ==
  LET i == SelectInSeq(list, LAMBDA l : l.name = line.name)
  IN IF i = 0 THEN << line >> \o list ELSE [list EXCEPT ![i].quant = @ + line.quant]

Listed(lines) ==
  LET upTo[n \in 0 .. Len(lines)] == IF n = 0 THEN << >> ELSE ListInsert(upTo[n - 1], lines[n])
  IN upTo[Len(lines)]

Card(name) == searchh(name, recipe).card
Known(name) == searchh(name, recipe) # NULL

(* operator[] of the map.                                                      *)
Stock(a, name) == IF name \in DOMAIN a THEN a[name] ELSE 0
Put(a, name, n) == [m \in DOMAIN a \cup {name} |-> IF m = name THEN n ELSE a[m]]

(* add_recipe loses the quantity of an item that has one, and a recipe that is *)
(* there already stays.  Here calls follow each other: the state between them  *)
(* is [a : avalableitems, t : recipe].                                         *)
add_recipe(s, name, card) == [a |-> Put(s.a, name, 0), t |-> insert(name, card, s.t)]

add_detail(s, name, kolv) ==
  LET known == IF searchh(name, s.t) = NULL THEN add_recipe(s, name, << >>) ELSE s
  IN [known EXCEPT !.a = Put(@, name, Wrap(Stock(@, name) + kolv))]

Here == [a |-> avalableitems, t |-> recipe]
(* The parts of a recipe become items as they are read.                        *)
WithParts(s, card) ==
  LET upTo[n \in 0 .. Len(card)] == IF n = 0 THEN s ELSE add_detail(upTo[n - 1], card[n].name, 0)
  IN upTo[Len(card)]

Becomes(s) == avalableitems' = s.a /\ recipe' = s.t

-------------------------------------------------------------------------------
(* can_make: how many devices each line suffices for, and its deficit.         *)
Suffices(line) == Quotient(Stock(avalableitems, line.name), line.quant)

Lacking(card, kolv) == {i \in DOMAIN card : Suffices(card[i]) < kolv}

can_make(name, kolv) ==
  IF ~Known(name) THEN -1 ELSE IF Card(name) = << >> THEN -2
  ELSE IF Lacking(Card(name), kolv) # {} THEN 1 ELSE 0

(* The look at every line puts names that were missing into the map.           *)
Looked(name) ==
  LET names == IF Known(name) THEN {Card(name)[i].name : i \in DOMAIN Card(name)} ELSE {}
  IN [n \in DOMAIN avalableitems \cup names |-> Stock(avalableitems, n)]

DividesByZero(name) ==
  Known(name) /\ \E i \in DOMAIN Card(name) : Card(name)[i].quant = 0

(* Mutant: the loop after the first line is left out.                          *)
hm_makeFirst(name) == Suffices(Card(name)[1])

(* How many can be made, as hm_make has it.                                    *)
hm_make(name) == Min({Suffices(Card(name)[i]) : i \in DOMAIN Card(name)})

Taken(name, kolv) ==
  LET card == Card(name)
      TakenBy(a, l) == Put(a, l.name, Stock(a, l.name) - kolv * l.quant)
      upTo[n \in 0 .. Len(card)] == IF n = 0 THEN avalableitems ELSE TakenBy(upTo[n - 1], card[n])
  IN upTo[Len(card)]

MakeDetail(name, kolv) ==
  LET a == Taken(name, kolv) IN Put(a, name, Wrap(Stock(a, name) + kolv))

-------------------------------------------------------------------------------
(* A line of rr.txt is read from its first pair on, so that the list comes to  *)
(* stand the other way round.                                                  *)
Database_to_file == [items |-> avalableitems,
                 recipes |-> LET w == Written(recipe)
                             IN [i \in DOMAIN w |-> [name |-> w[i].data, card |-> w[i].card]]]

(* Mutant: the first line of the recipes is skipped.                           *)
ReadTail(recipes) ==
  LET upTo[n \in 0 .. Len(recipes)] ==
        IF n < 2 THEN NULL ELSE insert(recipes[n].name, Listed(recipes[n].card), upTo[n - 1])
  IN upTo[Len(recipes)]

ReadRecipes(recipes) ==
  LET upTo[n \in 0 .. Len(recipes)] ==
        IF n = 0 THEN NULL ELSE insert(recipes[n].name, Listed(recipes[n].card), upTo[n - 1])
  IN upTo[Len(recipes)]

Nothing == [words |-> "nothing", number |-> 0]

Init ==
  /\ up = FALSE /\ file \in Files /\ avalableitems = << >> /\ recipe = NULL
  /\ said = Nothing /\ handled = 0

Start ==
  /\ ~up /\ up' = TRUE
  /\ avalableitems' = file.items /\ recipe' = ReadRecipes(file.recipes)
  /\ UNCHANGED << file, said, handled >>

(* What was not saved is gone.                                                 *)
Ends ==
  /\ up' = FALSE /\ avalableitems' = << >> /\ recipe' = NULL
  /\ said' = [words |-> "nothing", number |-> 0] /\ UNCHANGED file

Killed == up /\ Ends /\ UNCHANGED handled

Say(words, number) == said' = [words |-> words, number |-> number]

Asks(zapros, r) == up /\ r.zapros = zapros /\ r.wellFormed

InputError(r) ==
  /\ up /\ ~r.wellFormed /\ r.zapros # "addrecipe" /\ Say("Invalid sintaxis", 0)
  /\ UNCHANGED << up, avalableitems, recipe, file >>

Canmake(r) ==
  /\ Asks("canmake", r)
  /\ IF DividesByZero(r.name) THEN Ends
     ELSE /\ Say("can_make", can_make(r.name, r.kolv)) /\ avalableitems' = Looked(r.name)
          /\ UNCHANGED << up, recipe, file >>

(* A name without a node: its card is read through NULL.  When the number      *)
(* after the answer overflows, can_make has nothing against it and main        *)
(* answers nothing.                                                            *)
Hmake(r) ==
  LET h == hm_make(r.name)
  IN /\ Asks("hmake", r)
     /\ IF ~Known(r.name) \/ DividesByZero(r.name) THEN Ends
        ELSE /\ IF Card(r.name) = << >> THEN Say("It's simple detail", 0)
                ELSE IF can_make(r.name, Wrap(h + 1)) = 1 THEN Say("items can be made", h)
                ELSE Say("nothing", 0)
             /\ avalableitems' = Looked(r.name)
             /\ UNCHANGED << up, recipe, file >>

(* show, items and recipes send what save would write.                         *)
Show(r) ==
  /\ \/ Asks("show", r) \/ Asks("items", r) \/ Asks("recipes", r)
  /\ Say(r.zapros, 0) /\ UNCHANGED << up, avalableitems, recipe, file >>

Make(r) ==
  /\ Asks("make", r)
  /\ IF DividesByZero(r.name) THEN Ends
     ELSE /\ IF can_make(r.name, r.kolv) = 0
             THEN Say("Made", 0) /\ avalableitems' = MakeDetail(r.name, r.kolv)
             ELSE Say("I can't make it", 0) /\ avalableitems' = Looked(r.name)
          /\ UNCHANGED << up, recipe, file >>

Additem(r) ==
  /\ Asks("additem", r) /\ Say("Detail added", 0)
  /\ Becomes(add_detail(Here, r.name, r.kolv)) /\ UNCHANGED << up, file >>

Save(r) ==
  /\ Asks("save", r) /\ Say("Data saved", 0) /\ file' = Database_to_file
  /\ UNCHANGED << up, avalableitems, recipe >>

(* The parts become items whether the line ends or not.                        *)
Addrecipe(r) ==
  LET parts == WithParts(Here, r.card)
  IN /\ up /\ r.zapros = "addrecipe" /\ UNCHANGED << up, file >>
     /\ IF r.wellFormed
        THEN Say("The recipe was added successfully", 0) /\ Becomes(add_recipe(parts, r.name, Listed(r.card)))
        ELSE Say("Input error", 0) /\ Becomes(parts)

Deleteitem(r) ==
  LET h == Wrap(Stock(avalableitems, r.name) - r.kolv)
  IN /\ Asks("deleteitem", r)
     /\ IF ~Known(r.name) THEN Say("I can't find this detail", 0) /\ UNCHANGED avalableitems
        ELSE IF h < 0 THEN Say("Invalid sintaxis", 0) /\ avalableitems' = Put(avalableitems, r.name, Stock(avalableitems, r.name))
        ELSE Say("Detail deleted", 0) /\ avalableitems' = Put(avalableitems, r.name, h)
     /\ UNCHANGED << up, recipe, file >>

Exit1979(r) == Asks("exit1979", r) /\ Ends

Handle(r) ==
  \/ InputError(r) \/ Canmake(r) \/ Hmake(r) \/ Show(r) \/ Make(r) \/ Additem(r) \/ Save(r)
  \/ Addrecipe(r) \/ Deleteitem(r) \/ Exit1979(r)

Serve == handled < MaxHandled /\ handled' = handled + 1 /\ \E r \in Requests : Handle(r)

Next == Start \/ Killed \/ Serve

Spec == Init /\ [][Next]_vars

-------------------------------------------------------------------------------
(* The recipes stand in the tree in the order of their names, each once, and   *)
(* search finds every one, whatever the rotations did.  (Balanced the tree is  *)
(* not: see insert.)  Two removes would take their two and leave the others    *)
(* with their cards, and a copy would have them all.                           *)
TreeFinds ==
  LET InLines(t) == LET w == Written(t) IN [i \in DOMAIN w |-> << w[i].data, w[i].card >>]
      w == Written(recipe)
  IN /\ \A i \in DOMAIN w : /\ i > 1 => w[i - 1].data < w[i].data
                            /\ searchh(w[i].data, recipe) = w[i]
     /\ \A x, y \in Name : InLines(remove(y, remove(x, recipe)))
                             = Picked(InLines(recipe), {i \in DOMAIN w : w[i].data \notin {x, y}})
     /\ InLines(copy(NULL, recipe)) = InLines(recipe)

(* README "HMAKE": as many as it says can be made, and no more.                *)
HmakeExact ==
  [][\A r \in Requests : Hmake(r) /\ said'.words = "items can be made" =>
       \A n \in 0 .. MaxInt : (can_make(r.name, n) = 0) <=> (n <= said'.number)]_vars

(* README "SAVE": what a start reads is what the last save found: the same     *)
(* quantities, and for every name the same card up to the order of its lines.  *)
SavedComesBack ==
  [][Start =>
       /\ avalableitems' = file.items
       /\ LET w == Written(recipe')
          IN /\ Len(w) = Len(file.recipes)
             /\ \A i \in DOMAIN w : w[i].data = file.recipes[i].name
                                   /\ w[i].card = Reverse(file.recipes[i].card)]_vars

(* README "ADDRECIPE": the recipe of the item is added.                        *)
RecipeIsAdded ==
  [][\A r \in Requests : Addrecipe(r) /\ said'.words = "The recipe was added successfully" =>
       searchh(r.name, recipe').card = Listed(r.card)]_vars
================================================================================
