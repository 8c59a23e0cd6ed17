SPECIFICATION Spec
CONSTANTS
  a = a
  b = b
  d = d
  c = c
  attr = attr
  key = key
  val = val
  outer = outer
  inner = inner
  m = m
  outerBody = outerBody
  innerBody = innerBody
  Op <- LoopOp
  Arity <- LoopArity
  Pure = {inner, m}
  Uses <- LoopUses
  Block <- LoopBlock
  Owner <- LoopOwner
  NumArgs <- LoopNumArgs
  Plain = {}
  Constant = {}
  AttrOf <- NoFunction
  Attr = {}
  AttrValue <- NoFunction
  CachedAttr = {}
  Scope <- LoopScope
  Key = {key}
  Val = {val}
  Null = Null
  Signal = {"Exhausted", "Cycle"}
  Budgets = {4}
INVARIANTS BoundOnce BindingsFollowFrames QueryEndsClean StackDiscipline MemoNeverOutlives ReportedOutcome
PROPERTIES FrozenCacheKept MemoStable
