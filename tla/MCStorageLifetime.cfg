SPECIFICATION Spec
CONSTANTS
  e1 = e1
  e2 = e2
  a1 = a1
  a2 = a2
  a3 = a3
  a4 = a4
  a5 = a5
  five = five
  seven = seven
  blob = blob
  s = s
  c = c
  d = d
  u = u
  f = f
  g = g
  p = p
  q = q
  x = x
  y = y
  poison = poison
  missing = missing
  Engine = {e1, e2}
  Addr = {a1, a2, a3, a4}
  Source = {s}
  Pure = {f, g, y}
  Operand <- LifetimeOperand
  Name <- OwnName
  Makes <- LifetimeMakes
  Constant = {c, d}
  AttrOf <- LifetimeAttr
  Attr = {poison, missing}
  Converts <- LifetimeConverts
  Births = 3
  Content = {five, seven, blob}
  Opaque = {blob}
  Null = Null
SYMMETRY AnyAddr
INVARIANTS
  TypeOK
  HeldLive
  NoLeak
  SlotsLive
  OneCopy
