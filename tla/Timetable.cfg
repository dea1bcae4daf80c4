SPECIFICATION Spec
CONSTANTS
  Value = {0, 1, 2}
  Lesson <- MCLesson
  Files <- MCFiles
  Requests <- MCRequests
  Fd = {4, 5}
  NoFd = 0
  MaxIndex = 3
  MaxSessions = 2
  MaxCommands = 3
INVARIANTS MapsAgree SelectionsKnown SessionsPrivate RunsOnce
PROPERTY SelectsSuitable
