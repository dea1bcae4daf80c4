SPECIFICATION GroupsSpec
CONSTANTS
  Lowest = 0
  Highest = 1000
  Pupil <- MCPupil
  Files <- MCFiles
  Given <- MCGiven
  Fd = {4, 5}
  MaxConditions = 1
INVARIANTS StructuresAgree SelectedIsAdmitted
CHECK_DEADLOCK FALSE
