SPECIFICATION FairSpec
CONSTANTS
  Names = {a, b}
  Groups = {}
  Socks = {s1, s2}
  Passwords = {p}
  None = None
  DbMayFail = TRUE
  Registered = {a}
  Menu = {1, 2, 6}
  MayReset = TRUE
  MaxInflight = 2
  MaxEvents = 5
PROPERTY RequestServed
PROPERTY DisconnectNoticed
INVARIANT OneAccountPerName
