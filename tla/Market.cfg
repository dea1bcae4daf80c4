SPECIFICATION MCSpec
CONSTANTS
  MaxKey = 7
  MaxId = 3
  Word = 16
  Money = {5}
  Shares = {3}
  Offers <- MCOffers
  PlayerLimit = 2
  QueueLimit = 2
  None = None
  Node = {n1, n2, n3, n4}
  Null = Null
INVARIANTS PlayerIdsUnique OrderIdsUnique WalkIsComplete ListIsSequence
PROPERTIES OnlyOwnerRemoves WorthChangesOnlyByRepeat KeysAsAsked
CHECK_DEADLOCK FALSE
