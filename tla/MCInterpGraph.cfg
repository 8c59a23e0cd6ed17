SPECIFICATION ISpec
CONSTANTS
  v3 = v3
  tri = tri
  inner = inner
  n = n
  copy = copy
  s = s
  u = u
  triBody = triBody
  innerBody = innerBody
  signed = signed
  negative = negative
  idle = idle
  wraps = wraps
  still = still
  loop = loop
  again = again
  short = short
  open = open
  seven = seven
  given = given
  b1 = b1
  b2 = b2
  b3 = b3
  b4 = b4
  b5 = b5
  b6 = b6
  b7 = b7
  b8 = b8
  b9 = b9
  sum = sum
  z = z
  prod = prod
  use = use
  sumBody = sumBody
  l = l
  g = g
  h = h
  k = k
  y = y
  lBody = lBody
  w = w
  last = last
  loopBody = loopBody
  c0 = c0
  c1 = c1
  c2 = c2
  c3 = c3
  c4 = c4
  c7 = c7
  Null = Null
  Op <- GraphOp
  Arity <- AllOnce
  Pure = {signed, negative, idle, wraps, still, loop, again, short, open, g, h, k, y}
  Uses <- AllUses
  Block = {b1, b2, b3, b4, b5, b6, b7, b8, b9, lBody}
  Owner <- BodyOwner
  NumArgs <- TwoArgs
  Plain = {given}
  Constant = {c0, c1, c2, c3, c4, c7, seven}
  AttrOf <- SelfAttr
  Attr = {c0, c1, c2, c3, c4, c7, seven}
  AttrValue <- ConstantAttr
  CachedAttr = {seven}
  Scope <- GraphScope
  Key <- FineKey
  Val = {0, 1, 2, 3, 4, 5, 6, 7}
  Signal = {"Exhausted", "Cycle"}
  Budgets = {3, 30}
  Kind <- GraphKind
  Operands <- GraphOperands
  Body <- GraphBody
  Yields <- GraphYields
  Unsigned <- GraphUnsigned
  Alike <- GraphAlike
  Width = 3
  Hash <- KindHash
INVARIANTS IterationsPaid CyclicNeverKnown
PROPERTIES ServesQueries ImplementsService
