SPECIFICATION Spec
CONSTANTS
  a = a
  b = b
  d = d
  c = c
  attr = attr
  key = key
  val = val
  outer = outer
  inner = inner
  m = m
  outerBody = outerBody
  innerBody = innerBody
  Op <- CacheOp
  Arity <- CacheArity
  Pure = {a, b, d}
  Uses <- CacheUses
  Block = {}
  Owner <- NoFunction
  NumArgs <- NoFunction
  Plain = {}
  Constant = {c}
  AttrOf <- OneAttr
  Attr = {attr}
  AttrValue <- OneValue
  CachedAttr = {attr}
  Scope <- NoScope
  Key = {key}
  Val = {val}
  Null = Null
  Signal = {"Exhausted", "Cycle"}
  Budgets = {0, 2}
INVARIANTS TypeOK CycleGuard HandlesFit OneEntryPerOp
PROPERTIES CacheGrows
