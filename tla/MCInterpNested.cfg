SPECIFICATION ISpec
CONSTANTS
  v3 = v3
  tri = tri
  inner = inner
  n = n
  copy = copy
  s = s
  u = u
  triBody = triBody
  innerBody = innerBody
  signed = signed
  negative = negative
  idle = idle
  wraps = wraps
  still = still
  loop = loop
  again = again
  short = short
  open = open
  seven = seven
  given = given
  b1 = b1
  b2 = b2
  b3 = b3
  b4 = b4
  b5 = b5
  b6 = b6
  b7 = b7
  b8 = b8
  b9 = b9
  sum = sum
  z = z
  prod = prod
  use = use
  sumBody = sumBody
  l = l
  g = g
  h = h
  k = k
  y = y
  lBody = lBody
  w = w
  last = last
  loopBody = loopBody
  c0 = c0
  c1 = c1
  c2 = c2
  c3 = c3
  c4 = c4
  c7 = c7
  Null = Null
  Op <- NestedOp
  Arity <- AllOnce
  Pure = {v3, inner, n, copy, s, u}
  Uses <- AllUses
  Block = {triBody, innerBody}
  Owner <- BodyOwner
  NumArgs <- TwoArgs
  Plain = {}
  Constant = {c0, c1, c3}
  AttrOf <- SelfAttr
  Attr = {c0, c1, c3}
  AttrValue <- ConstantAttr
  CachedAttr = {c0, c1, c3}
  Scope <- NestedScope
  Key <- FineKey
  Val = {0, 1, 2, 3, 4, 5, 6, 7}
  Signal = {"Exhausted", "Cycle"}
  Budgets = {3, 6, 30}
  Kind <- NestedKind
  Operands <- NestedOperands
  Body <- NestedBody
  Yields <- NestedYields
  Unsigned = {}
  Alike = {}
  Width = 3
  Hash <- ApartHash
INVARIANTS Sound MemoSound CacheSound ExhaustedMeansSpent NoSpuriousCycle
PROPERTIES IsEngine Terminates
