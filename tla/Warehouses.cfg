SPECIFICATION MCSpec
CONSTANTS
  Name = {"plank", "stick", "ladder"}
  Client = {c1, c2}
  Requests <- MCRequests
  Stocks <- MCStocks
  Recipes <- MCRecipes
  MaxInt = 7
  MaxMerged = 2
  MName = {1, 2, 3, 4, 5}
  MRequests <- MCMRequests
  MFiles <- MCFiles
  MaxHandled = 5
  List = {0, 1, card}
  Bucket = {0, 1}
  Node = {n1, n2, n3}
  NoNode = NoNode
  Quants = {1, 2}
  Word <- MCNames
  MaxQuant = 3
INVARIANTS CountsMerges TreeFinds LinesHeld
PROPERTIES MakeConserves HmakeExact SavedComesBack
CHECK_DEADLOCK FALSE
