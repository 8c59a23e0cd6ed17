SPECIFICATION Spec
CONSTANTS
  number2 = number2
  number3 = number3
  Op <- AllOps
  Block <- AllBlocks
  Root <- Roots
  Label <- LabelOf
  Commutative = {"add"}
  Operands <- OperandsOf
  Regions <- RegionsOf
  Successors <- SuccessorsOf
  Body <- BodyOf
  NumResults <- ResultsOf
  NumArgs <- ArgsOf
  Type <- TypeOf
  Meaning <- MeaningOf
  Signal = {"Exhausted", "Cycle"}
  Null = Null
INVARIANTS TypeOK Agrees Symmetric EqualHashes MapsAreTwins AsksOutside FixedOperandsFirst
