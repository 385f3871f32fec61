SPECIFICATION Spec
CONSTANTS
  MaxId = 2
  Fds = {s1, s2}
  DbMayFail = TRUE
  Registered = 2
  Befriended <- OneFriendship
  Menu = {1, 3, 4, 41, 5, 6, 7, 8, 9, 14, 16, 18, 20}
  MayMistype = TRUE
  MayReset = TRUE
  MaxEvents = 7
SYMMETRY FdSymmetry
INVARIANT ChatQueueExact
