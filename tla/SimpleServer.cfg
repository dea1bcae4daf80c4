CONSTANTS
  Conn = {c1, c2, c3}
  Fd = {4, 5}
  BadKey = {c1}
  Mortal = {c2}
  Exiting = {c3}
  Backlog = 1
  MaxRequests = 1
SPECIFICATION FairSpec
INVARIANT NotAnothersPid
PROPERTIES NoCut Answered ClosureSeen
CHECK_DEADLOCK FALSE
