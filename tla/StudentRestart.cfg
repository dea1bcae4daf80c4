CONSTANTS
  Value <- MCValue
  Students <- TwoStudents
  Queries <- FewQueries
  RemoveLists <- MCRemoveLists
  CommaName = {0}
  MaxRecords = 2
  MaxUsers = 0
SPECIFICATION Spec
PROPERTY StartLoadsAll
