CONSTANTS
  Lowest = 0
  Highest = 4
  Compared = {0, 1, 2, 3, 4}
  MaxUnread = 1
  TypedWords <- MCWords
  OddWords <- MCOddWords
  NumberText = {"4"}
  MaxWords = 7
SPECIFICATION MCSpec
INVARIANTS ParserIsGrammar KeepsMeaning
CHECK_DEADLOCK FALSE
