SPECIFICATION Spec
CONSTANTS
  Names = {a, b}
  Groups = {g}
  Socks = {s1, s2, s3}
  Passwords = {p}
  None = None
  DbMayFail = FALSE
  Registered = {a, b}
  Menu = {2, 5, 6, 23, 24, 252, 253}
  MayReset = TRUE
  MaxInflight = 2
  MaxEvents = 7
SYMMETRY Symmetry
INVARIANT OnlineNodesLive
INVARIANT OwnerIsMember
INVARIANT TypeOneIsOwner
