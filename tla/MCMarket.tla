-------------------------------- MODULE MCMarket --------------------------------
(* Small instances of Market, of its tree and of its linked lists: a behaviour *)
(* is one part's.  With Word = 16 the first buy order is all the money of a    *)
(* player, and the second one's product overflows to 2, at a price that        *)
(* std::stoi cannot read back.                                                 *)
EXTENDS Market, UtilityLists

CONSTANT MaxKey
VARIABLES part, tree

MCOffer(type, amount, price) == [type |-> type, amount |-> amount, price |-> price]

MCOffers == { MCOffer("BUY_BOUNDED", 1, 5), MCOffer("BUY_BOUNDED", 2, 9),
              MCOffer("SELL_BOUNDED", 2, 1),
              MCOffer("BUY_MARKET", 1, 1) }

-------------------------------------------------------------------------------
T == INSTANCE RBTree

ASSUME T!KeyAssumption

(* A part that does not run has one initial state.                             *)
MCInit == /\ Init /\ T!Init /\ ListsInit
          /\ part \in {"market", "tree", "lists"}
          /\ part = "lists" \/ kind = "queue"

MCNext ==
  /\ part' = part
  /\ \/ part = "market" /\ Next /\ UNCHANGED << tree, lvars >>
     \/ part = "tree" /\ T!Next /\ UNCHANGED << vars, lvars >>
     \/ part = "lists" /\ ListsNext /\ UNCHANGED << vars, tree >>

MCSpec == MCInit /\ [][MCNext]_<< vars, part, tree, lvars >>

-------------------------------------------------------------------------------
(* put and remove of the tree do what they promise (PutAdds, RemoveDrops).     *)
KeysAsAsked == [][part = "tree" => \A k \in 1 .. MaxKey : T!PutAdds(k) /\ T!RemoveDrops(k)]_tree

(* The iterator of the tree and its destructor reach every node.               *)
WalkIsComplete == T!WalkIsComplete
================================================================================
