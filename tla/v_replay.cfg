SPECIFICATION Spec
CONSTANTS
  Names = {a, b}
  Groups = {}
  Socks = {s1, s2}
  Passwords = {p}
  None = None
  DbMayFail = FALSE
  Registered = {a}
  Menu = {0, 2}
  MayReset = FALSE
  MaxInflight = 2
  MaxEvents = 5
SYMMETRY SockSymmetry
PROPERTY OnlyClientData
