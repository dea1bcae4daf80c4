SPECIFICATION Spec
CONSTANTS
  Fd = {4, 5}
  Listener = 3
  MaxHandled = 4
  Matrix <- MCMatrix
  Writer = {w1, w2}
  Paragraph <- MCParagraph
  Drafts <- MCDrafts
  PatLen = 1
  MaxLine = 6
  Depths <- MCDepths
  Numbers <- MCNumbers
  MaxEdits = 4
  User = {u1, u2}
  Student <- MCStudent
  Inserted <- MCInserted
  FileName = {"db"}
  Database = "db"
  Tables <- MCTables
  Criteria <- MCCriteria
  MaxUser = 2
  MaxQueries = 3
  ann = ann
  ann2 = ann2
  bob = bob
  Talker <- MCTalker
  Name = {"ann", "bob"}
  NameOf <- MCNameOf
  MaxSent = 3
  Editor = {c1, c2}
  Nobody = Nobody
  Block <- MCBlock
  Texts <- MCTexts
  Words <- MCWords
  Sizes <- MCSizes
  Blocks <- MCBlocks
  MaxAsked = 2
INVARIANTS MatricesKept InStep OneOfEachName
PROPERTIES QuitComesBack SelectIsFilter AsAsked
CHECK_DEADLOCK FALSE
