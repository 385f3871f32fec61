SPECIFICATION Spec
CONSTANTS
  Names = {a, b}
  Groups = {g}
  Socks = {s1, s2}
  Passwords = {p}
  None = None
  DbMayFail = TRUE
  Registered = {a, b}
  Menu = {0, 1, 2, 5, 6, 11, 12, 13, 14, 15, 21, 22, 23, 24, 251, 252, 253}
  MayReset = TRUE
  MaxInflight = 1
  MaxEvents = 7
SYMMETRY Symmetry
INVARIANT TypeOK
INVARIANT MembersInList
INVARIANT FriendListMirrorsTable
INVARIANT RowsHaveConsent
INVARIANT ConsentKept
PROPERTY ChatOnlyBetweenConsenting
