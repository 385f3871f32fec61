SPECIFICATION Spec
CONSTANTS
  MaxId = 2
  Fds = {s1, s2}
  DbMayFail = TRUE
  Registered = 1
  Befriended <- NoFriends
  Menu = {1, 2, 4, 41, 10, 11, 12, 13, 15, 17, 20, 21}
  MayMistype = TRUE
  MayReset = TRUE
  MaxEvents = 7
SYMMETRY FdSymmetry
INVARIANT CachedFd
INVARIANT MembersOfGroups
INVARIANT FriendsAnswered
