SPECIFICATION ISpec
CONSTANTS
  v3 = v3
  tri = tri
  inner = inner
  n = n
  copy = copy
  s = s
  u = u
  triBody = triBody
  innerBody = innerBody
  signed = signed
  negative = negative
  idle = idle
  wraps = wraps
  still = still
  loop = loop
  again = again
  short = short
  open = open
  seven = seven
  given = given
  b1 = b1
  b2 = b2
  b3 = b3
  b4 = b4
  b5 = b5
  b6 = b6
  b7 = b7
  b8 = b8
  b9 = b9
  sum = sum
  z = z
  prod = prod
  use = use
  sumBody = sumBody
  l = l
  g = g
  h = h
  k = k
  y = y
  lBody = lBody
  w = w
  last = last
  loopBody = loopBody
  c0 = c0
  c1 = c1
  c2 = c2
  c3 = c3
  c4 = c4
  c7 = c7
  Null = Null
  Op <- SharedOp
  Arity <- AllOnce
  Pure = {v3, copy, w, last}
  Uses <- AllUses
  Block = {loopBody}
  Owner <- BodyOwner
  NumArgs <- TwoArgs
  Plain = {}
  Constant = {c0, c1, c3}
  AttrOf <- SelfAttr
  Attr = {c0, c1, c3}
  AttrValue <- ConstantAttr
  CachedAttr = {c0, c1, c3}
  Scope <- SharedScope
  Key <- CoarseKey
  Val = {0, 1, 2, 3, 4, 5, 6, 7, 8, 9, 10, 11, 12, 13, 14, 15}
  Signal = {"Exhausted", "Cycle"}
  Budgets = {30}
  Kind <- SharedKind
  Operands <- SharedOperands
  Body <- SharedBody
  Yields <- SharedYields
  Unsigned = {}
  Alike = {}
  Width = 4
  Hash <- CoarseHash
INVARIANTS EquivalentShareEntry
