SPECIFICATION Spec
CONSTANTS
  e1 = e1
  e2 = e2
  a1 = a1
  a2 = a2
  a3 = a3
  a4 = a4
  a5 = a5
  five = five
  seven = seven
  blob = blob
  s = s
  c = c
  d = d
  u = u
  f = f
  g = g
  p = p
  q = q
  x = x
  y = y
  poison = poison
  missing = missing
  Engine = {e1}
  Addr = {a1, a2, a3, a4, a5}
  Source = {s}
  Pure = {p, q, x, y}
  Operand <- KeysOperand
  Name <- KeysName
  Makes <- KeysMakes
  Constant = {}
  AttrOf <- NoConstants
  Attr = {}
  Converts <- NoConstants
  Births = 4
  Content = {five, seven, blob}
  Opaque = {blob}
  Null = Null
SYMMETRY AnyAddr
INVARIANTS
  KeysHold
