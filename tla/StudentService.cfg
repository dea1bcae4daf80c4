CONSTANTS
  Value <- MCValue
  Students <- TwoStudents
  Queries <- SomeQueries
  RemoveLists <- MCRemoveLists
  CommaName = {2}
  MaxRecords = 2
  MaxUsers = 1
SPECIFICATION ServiceSpec
INVARIANTS BaseAgrees SelectionsAgree
PROPERTIES NoResurrection ImplementsStore
