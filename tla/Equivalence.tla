---------------------------- MODULE Equivalence ----------------------------
(***************************************************************************)
(* Whether two operations compute the same results: the default            *)
(* isEquivalentTo (lib/EvalOperationEquivalence.cpp) and the callback it is *)
(* given (lib/Interfaces/EvaluableOpInterface.cpp), on operations given by *)
(* the constants.  A comparison walks both operations and their regions in *)
(* step, and only then has operands evaluated, each of which may end the   *)
(* comparison with a signal.                                               *)
(***************************************************************************)
EXTENDS Integers, Sequences, FiniteSets, SequencesExt

CONSTANTS
  Op, Block,
  Root,        \* the operations the host compares
  Label,       \* of an operation: its name, attributes and properties
  Commutative, \* the labels of commutative operations
  Operands,    \* [Op -> Seq(Value)]
  Regions,     \* [Op -> Seq(Seq(Block))]
  Successors,  \* [Op -> Seq(Block)]
  Body,        \* [Block -> Seq(Op)]
  NumResults,  \* [Op -> Nat]
  NumArgs,     \* [Block -> Nat]
  Type,        \* [Value -> types]
  Meaning,     \* [Value -> what it is known to be, or Null]
  Signal, Null

Result == UNION {{o} \X (1..NumResults[o]) : o \in Op}
Arg == UNION {{b} \X (1..NumArgs[b]) : b \in Block}
Value == Result \cup Arg

ASSUME EquivalenceAssumption ==
  /\ Root \subseteq Op
  /\ NumResults \in [Op -> Nat] /\ NumArgs \in [Block -> Nat]
  /\ Operands \in [Op -> Seq(Value)] /\ Successors \in [Op -> Seq(Block)]
  /\ Regions \in [Op -> Seq(Seq(Block))] /\ Body \in [Block -> Seq(Op)]
  /\ DOMAIN Label = Op /\ DOMAIN Type = Value /\ DOMAIN Meaning = Value
  /\ ({Null} \cup Signal) \cap {"equal", "different", "ask"} = {}

VARIABLES
  phase,     \* "idle", "structure" or "operands"
  lhs, rhs,  \* the operations compared, or compared last
  todo,      \* what is left to match: pairs of operations, regions, blocks
  ops,       \* the pairs of operations matched, in the order of their operands
  blocks,    \* from blocks inside lhs to their counterparts inside rhs
  values,    \* the same of block arguments and results
  cursor,    \* where compareOperands or compareCommutative is
  asked,     \* history: the pairs of operands the callback was asked about
  verdict,   \* of the last comparison
  earlier    \* history: that of the one before, if it was the converse

checker == <<todo, ops, blocks, values, cursor>>
vars == <<phase, lhs, rhs, checker, asked, verdict, earlier>>

NoMap == [v \in {} |-> Null]
AtOp(k) == [op |-> k, operand |-> 1, other |-> 1, used |-> {}]
ClearChecker ==
  todo' = <<>> /\ ops' = <<>> /\ blocks' = NoMap /\ values' = NoMap
  /\ cursor' = AtOp(1)

Init ==
  /\ phase = "idle" /\ lhs = Null /\ rhs = Null
  /\ todo = <<>> /\ ops = <<>> /\ blocks = NoMap /\ values = NoMap
  /\ cursor = AtOp(1) /\ asked = {} /\ verdict = Null /\ earlier = Null

-----------------------------------------------------------------------------
(* The checker is a local of isEquivalentTo.                               *)

Finish(outcome) ==
  /\ phase' = "idle" /\ verdict' = outcome
  /\ ClearChecker
  /\ UNCHANGED <<lhs, rhs, asked, earlier>>

Pairs(kind, ls, rs) ==
  [i \in DOMAIN ls |-> [kind |-> kind, l |-> ls[i], r |-> rs[i]]]

(* isEquivalentTo of the default interface: an operation is equivalent to  *)
(* itself.                                                                 *)
Start(l, r) ==
  /\ phase = "idle"
  /\ lhs' = l /\ rhs' = r /\ asked' = {}
  /\ earlier' = IF l = rhs /\ r = lhs THEN verdict ELSE Null
  /\ IF l = r
     THEN phase' = "idle" /\ verdict' = "equal" /\ UNCHANGED checker
     ELSE /\ phase' = "structure" /\ verdict' = Null
          /\ todo' = Pairs("operation", <<l>>, <<r>>)
          /\ UNCHANGED <<ops, blocks, values, cursor>>

-----------------------------------------------------------------------------
(* First pass.  Regions are sequences of blocks, and everything in them    *)
(* corresponds by position.                                                *)

Types(owner, n) == [i \in 1..n |-> Type[<<owner, i>>]]
ResultTypes(o) == Types(o, NumResults[o])
ArgTypes(b) == Types(b, NumArgs[b])

SameOperation(l, r) ==
  /\ Label[l] = Label[r] /\ ResultTypes(l) = ResultTypes(r)
  /\ Len(Operands[l]) = Len(Operands[r]) /\ Len(Regions[l]) = Len(Regions[r])
  /\ Len(Successors[l]) = Len(Successors[r])

(* A successor outside the compared regions must be the same block.        *)
SameSuccessors(l, r) ==
  \A i \in DOMAIN Successors[l] :
    LET b == Successors[l][i]
    IN Successors[r][i] = IF b \in DOMAIN blocks THEN blocks[b] ELSE b

MapOnlyFirst(l, r, n) ==
  [v \in DOMAIN values \cup ({l} \X (1..n)) |->
     IF v \in DOMAIN values THEN values[v] ELSE <<r, 1>>]
MapFromZero(l, r, n) ==
  [v \in DOMAIN values \cup ({l} \X (0..n)) |->
     IF v \in DOMAIN values THEN values[v] ELSE <<r, v[2]>>]
MapValues(l, r, n) ==
  [v \in DOMAIN values \cup ({l} \X (1..n)) |->
     IF v \in DOMAIN values THEN values[v] ELSE <<r, v[2]>>]

MapBlocks(l, r) ==
  [b \in DOMAIN blocks \cup ToSet(l) |->
     IF b \in DOMAIN blocks THEN blocks[b]
     ELSE r[CHOOSE i \in DOMAIN l : l[i] = b]]

Matching(kind) == phase = "structure" /\ todo # <<>> /\ Head(todo).kind = kind
Left == Head(todo).l
Right == Head(todo).r
Then(tasks) == todo' = tasks \o Tail(todo)

MatchOperation ==
  /\ Matching("operation")
  /\ IF SameOperation(Left, Right) /\ SameSuccessors(Left, Right)
     THEN /\ values' = MapValues(Left, Right, NumResults[Left])
          /\ ops' = Append(ops, <<Left, Right>>)
          /\ Then(Pairs("region", Regions[Left], Regions[Right]))
          /\ UNCHANGED <<phase, lhs, rhs, blocks, cursor, asked, verdict, earlier>>
     ELSE Finish("different")

(* All blocks are mapped first: a terminator may name a later one.         *)
MatchRegion ==
  /\ Matching("region")
  /\ IF Len(Left) = Len(Right)
     THEN /\ blocks' = MapBlocks(Left, Right)
          /\ Then(Pairs("block", Left, Right))
          /\ UNCHANGED <<phase, lhs, rhs, ops, values, cursor, asked, verdict, earlier>>
     ELSE Finish("different")

(* The code notices a different number of operations after the common ones,*)
(* which changes nothing but the checker.                                  *)
MatchBlock ==
  /\ Matching("block")
  /\ IF ArgTypes(Left) = ArgTypes(Right) /\ Len(Body[Left]) = Len(Body[Right])
     THEN /\ values' = MapValues(Left, Right, NumArgs[Left])
          /\ Then(Pairs("operation", Body[Left], Body[Right]))
          /\ UNCHANGED <<phase, lhs, rhs, ops, blocks, cursor, asked, verdict, earlier>>
     ELSE Finish("different")

-----------------------------------------------------------------------------
(* Second pass, once every value inside is mapped.                         *)

IsCommutative(o) == Label[o] \in Commutative

MatchWithin(l, r) ==
  CASE l \in DOMAIN values /\ values[l] = r -> "equal"
    [] l \in DOMAIN values /\ values[l] # r -> "different"
    [] OTHER -> IF l = r THEN "equal"
                ELSE IF Type[l] = Type[r] THEN "ask" ELSE "different"
MatchAnyType(l, r) ==
  CASE l \in DOMAIN values /\ values[l] = r -> "equal"
    [] l \in DOMAIN values /\ values[l] # r -> "different"
    [] OTHER -> IF r \in Range(values) THEN "different"
                ELSE IF l = r THEN "equal" ELSE "ask"

(* "ask" when both are distinct values from outside the operations.        *)
MatchValues(l, r) ==
  CASE l \in DOMAIN values /\ values[l] = r -> "equal"
    [] l \in DOMAIN values /\ values[l] # r -> "different"
    [] OTHER -> IF r \in Range(values) THEN "different"
                ELSE IF l = r THEN "equal"
                ELSE IF Type[l] = Type[r] THEN "ask" ELSE "different"

AlwaysMatches == TRUE
OperandsMatch ==
  \A k \in DOMAIN ops :
    LET l == ops[k][1]
        r == ops[k][2]
    IN IsCommutative(l) \/ \A i \in DOMAIN Operands[l] :
         MatchValues(Operands[l][i], Operands[r][i]) # "different"

CheckOperands ==
  /\ phase = "structure" /\ todo = <<>>
  /\ IF OperandsMatch
     THEN /\ phase' = "operands"
          /\ UNCHANGED <<lhs, rhs, checker, asked, verdict, earlier>>
     ELSE Finish("different")

-----------------------------------------------------------------------------
(* Third pass.  isEvaluatedValueEqual queries both values, the right one   *)
(* only when the left one is known; either query may answer a signal.      *)

EvaluatedValueEqual(l, r) ==
  IF l = r \/ (Meaning[l] # Null /\ Meaning[l] = Meaning[r])
  THEN "equal" ELSE "different"

CompareValues(l, r) ==
  IF MatchValues(l, r) = "ask" THEN {EvaluatedValueEqual(l, r)} \cup Signal
  ELSE {MatchValues(l, r)}

LeftOp == ops[cursor.op][1]
RightOp == ops[cursor.op][2]

(* The operands of the right operation still to be compared with the       *)
(* current one of the left.                                                *)
ReusedCandidates ==
  {j \in DOMAIN Operands[RightOp] :
     j >= cursor.other /\ (IsCommutative(LeftOp) \/ j = cursor.operand)}
Candidates ==
  {j \in DOMAIN Operands[RightOp] :
     /\ j >= cursor.other
     /\ IF IsCommutative(LeftOp) THEN j \notin cursor.used ELSE j = cursor.operand}

InOperands(more) ==
  /\ phase = "operands" /\ cursor.op <= Len(ops)
  /\ (cursor.operand <= Len(Operands[LeftOp])) = more

(* A signal is returned at once; an unequal operand is followed by the next*)
(* candidate, if there is one.                                             *)
CompareOperand ==
  /\ InOperands(TRUE) /\ Candidates # {}
  /\ LET j == Min(Candidates)
         l == Operands[LeftOp][cursor.operand]
         r == Operands[RightOp][j]
     IN /\ \E outcome \in CompareValues(l, r) :
             IF outcome \in Signal
             THEN phase' = "idle" /\ verdict' = outcome /\ ClearChecker
             ELSE /\ cursor' =
                       IF outcome = "different"
                       THEN [cursor EXCEPT !.other = j + 1]
                       ELSE [cursor EXCEPT !.operand = @ + 1, !.other = 1,
                                           !.used = @ \cup {j}]
                  /\ UNCHANGED <<phase, verdict, todo, ops, blocks, values>>
        /\ asked' = IF MatchValues(l, r) = "ask" THEN asked \cup {<<l, r>>}
                    ELSE asked
        /\ UNCHANGED <<lhs, rhs, earlier>>

NotFound == InOperands(TRUE) /\ Candidates = {} /\ Finish("different")

NextOperation ==
  /\ InOperands(FALSE)
  /\ cursor' = AtOp(cursor.op + 1)
  /\ UNCHANGED <<phase, lhs, rhs, todo, ops, blocks, values, asked, verdict, earlier>>

AllEquivalent ==
  phase = "operands" /\ cursor.op > Len(ops) /\ Finish("equal")

Compare == \/ MatchOperation \/ MatchRegion \/ MatchBlock \/ CheckOperands
           \/ CompareOperand \/ NotFound \/ NextOperation \/ AllEquivalent
Next == Compare \/ \E l, r \in Root : Start(l, r)
Spec == Init /\ [][Next]_vars

-----------------------------------------------------------------------------
(* computeHash with hashEvaluatedValue, when no operand signals.  The sum  *)
(* of a commutative operation's operand hashes is their bag.               *)

HashEvaluatedValue(v) == IF Meaning[v] = Null THEN v ELSE Meaning[v]
OperandHashes(o) ==
  [i \in DOMAIN Operands[o] |-> HashEvaluatedValue(Operands[o][i])]
OrderedHash(o) == <<Label[o], ResultTypes(o), OperandHashes(o)>>
ComputeHash(o) ==
  <<Label[o], ResultTypes(o),
    IF IsCommutative(o) THEN ToBag(OperandHashes(o)) ELSE OperandHashes(o)>>

-----------------------------------------------------------------------------
(* What the variables range over; the cursor stays at an operand, or just   *)
(* behind the last one, and an operand taken is one of the right operation. *)
TypeOK ==
  /\ phase \in {"idle", "structure", "operands"}
  /\ {lhs, rhs} \subseteq Root \cup {Null}
  /\ \A i \in DOMAIN todo : todo[i].kind \in {"operation", "region", "block"}
  /\ ops \in Seq(Op \X Op)
  /\ DOMAIN blocks \cup Range(blocks) \subseteq Block
  /\ DOMAIN values \cup Range(values) \subseteq Value
  /\ cursor.op \in 1..(Len(ops) + 1)
  /\ InOperands(TRUE) => cursor.used \subseteq DOMAIN Operands[RightOp]
  /\ InOperands(FALSE) => cursor.operand = Len(Operands[LeftOp]) + 1
  /\ asked \subseteq Value \X Value
  /\ {verdict, earlier} \subseteq {"equal", "different", Null} \cup Signal
=============================================================================
