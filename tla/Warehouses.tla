------------------------------- MODULE Warehouses -------------------------------
(* The two warehouse servers and the lists of both, which MCWarehouses runs    *)
(* one after the other.                                                        *)
EXTENDS KutuzovWarehouse

CONSTANTS List, Bucket, Node, NoNode, Word, Quants, MaxQuant, \* of LineLists
          MName, MRequests, MFiles, MaxHandled                \* of MenshikhWarehouse

VARIABLES front, node, live, held,
          mup, avalableitems, recipe, file, msaid, handled

K == INSTANCE LineLists WITH Name <- Word

M == INSTANCE MenshikhWarehouse WITH up <- mup, said <- msaid, Name <- MName, Requests <- MRequests, Files <- MFiles

ASSUME LinesAssumption == K!ListsAssumption

ASSUME ItemsAssumption == M!ItemsAssumption

(* No list loses a line or a node, and none has one that is not its own.       *)
LinesHeld == K!LinesHeld

(* Menshikh_DA's tree holds the recipes in order, each where search finds it.  *)
TreeFinds == M!TreeFinds

(* hmake says how many can be made, and no more.                               *)
HmakeExact == M!HmakeExact

(* What a start reads is what the last save found.                             *)
SavedComesBack == M!SavedComesBack

(* The recipe that addrecipe is given is there afterwards.                     *)
RecipeIsAdded == M!RecipeIsAdded
================================================================================
