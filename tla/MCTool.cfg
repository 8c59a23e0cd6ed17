SPECIFICATION Spec
CONSTANTS
  small = small
  large = large
  garbled = garbled
  empty = empty
  external = external
  main1 = main1
  pair = pair
  flag = flag
  region = region
  deep = deep
  yielded = yielded
  far = far
  main2 = main2
  pair2 = pair2
  graph = graph
  cyclic = cyclic
  Inputs <- ToolInputs
  Chunk = {small, large, garbled, empty, external}
  Main <- ToolMain
  Fault = {"syntax", "no main", "no body"}
  Expected <- ToolExpected
  Op = {main1, pair, flag, region, deep, yielded, far, main2, pair2, graph, cyclic}
  Nested <- ToolNested
  Arity <- ToolArity
  Starts <- ToolStarts
  Query <- EngineQuery
  Operands <- ToolOperands
  Reads <- ToolReads
  Cacheable = {pair, flag, region, deep, yielded, pair2, graph, cyclic}
  Like <- ToolLike
  Given <- ToolGiven
  Budget = 2
  Before <- ToolBefore
  Through <- ToolThrough
  Null = Null
  Other = Other
CHECK_DEADLOCK FALSE
INVARIANTS ReportsAlone NamesResolve ExitStatus
