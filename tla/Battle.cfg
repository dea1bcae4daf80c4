SPECIFICATION MCSpec
CONSTANTS
  Fd = {4, 5, 6}
  Listener = 3
  MaxSlots = 4
  MaxUnread = 1
  Cell = {0, 1, 2, 3}
  Fleets <- MCFleets
  NShips = 2
  NoGame = NoGame
  MaxSent = 6
  Leavers = {5}
INVARIANTS BlockedByTwin OneTurn
PROPERTIES HitsKeepTurn ReadAtLast
CHECK_DEADLOCK FALSE
