------------------------- MODULE EquivalenceProofs -------------------------
(***************************************************************************)
(* For every program that MLIR verifies, a comparison keeps its maps, tasks*)
(* and cursor in range, and operations it finds equal hash equally; the    *)
(* walk divides both operations into what is matched and what is left, so  *)
(* what it matched in the end is the one twin there is; and the choice of  *)
(* operands misses no matching, so its answers are right, and symmetric.   *)
(***************************************************************************)
EXTENDS Correspondence, FiniteSetTheorems, FunctionTheorems, SequenceTheorems,
        WellFoundedInduction, TLAPS

(* What is left to match has parts of one kind, and operations matched have*)
(* as many operands, so zip_equal in check never fails.                    *)
Task ==
  [kind : {"operation"}, l : Op, r : Op]
  \cup [kind : {"region"}, l : Seq(Block), r : Seq(Block)]
  \cup [kind : {"block"}, l : Block, r : Block]

CursorFits ==
  /\ cursor \in [op : Nat \ {0}, operand : Nat \ {0}, other : Nat, used : SUBSET Nat]
  /\ cursor.op <= Len(ops) + 1
  /\ cursor.op <= Len(ops) => /\ cursor.operand <= Len(Operands[LeftOp]) + 1
                              /\ cursor.used \subseteq DOMAIN Operands[RightOp]

(* A checker begins with nothing, and the cursor moves in the third pass.  *)
Fresh ==
  /\ phase # "operands" => cursor = AtOp(1)
  /\ phase = "idle" => todo = <<>> /\ ops = <<>> /\ blocks = NoMap /\ values = NoMap
  /\ phase # "idle" => lhs \in Root /\ rhs \in Root

CheckInv ==
  /\ phase \in {"idle", "structure", "operands"}
  /\ {lhs, rhs} \subseteq Root \cup {Null}
  /\ todo \in Seq(Task)
  /\ ops \in Seq(Op \X Op)
  /\ \A k \in DOMAIN ops : SameOperation(ops[k][1], ops[k][2])
  /\ DOMAIN blocks \cup Range(blocks) \subseteq Block
  /\ DOMAIN values \cup Range(values) \subseteq Value
  /\ CursorFits
  /\ asked \subseteq Value \X Value
  /\ {verdict, earlier} \subseteq {"equal", "different", Null} \cup Signal
  /\ Fresh

-----------------------------------------------------------------------------
LEMMA ProgramFacts ==
  /\ Root \subseteq Op
  /\ \A o \in Op : /\ Operands[o] \in Seq(Value) /\ Successors[o] \in Seq(Block)
                   /\ Regions[o] \in Seq(Seq(Block)) /\ NumResults[o] \in Nat
  /\ \A b \in Block : Body[b] \in Seq(Op) /\ NumArgs[b] \in Nat
BY EquivalenceAssumption

(* A set of numbers has a least one: of the intervals from zero to them, one*)
(* has no other inside.                                                    *)
LEMMA LeastExists ==
  ASSUME NEW S \in SUBSET Nat, S # {}
  PROVE  Min(S) \in S /\ \A y \in S : Min(S) <= y
<1> DEFINE R == StrictSubsetOrdering(Nat)
           T == {0..x : x \in S}
<1>1. T \subseteq FiniteSubsetsOf(Nat) /\ T # {}
  <2>1. \A x \in S : 0..x \in SUBSET Nat /\ IsFiniteSet(0..x)
    BY FS_Interval
  <2> QED BY <2>1 DEF FiniteSubsetsOf
<1>2. IsWellFoundedOn(R, FiniteSubsetsOf(Nat))
  BY FS_StrictSubsetOrderingWellFounded
<1>3. \E t \in T : \A u \in T : ~ (<<u, t>> \in R)
  <2> HIDE DEF R, T
  <2> QED BY <1>1, <1>2, WFMin
<1>4. PICK x \in S : \A y \in S : ~ (<<0..y, 0..x>> \in R)
  BY <1>3
<1>5. \A y \in S : x <= y
  <2> SUFFICES ASSUME NEW y \in S, y < x  PROVE FALSE
    OBVIOUS
  <2>1. 0..y \subseteq 0..x /\ x \in 0..x /\ x \notin 0..y
    OBVIOUS
  <2>2. 0..y \in SUBSET Nat /\ 0..x \in SUBSET Nat
    OBVIOUS
  <2>3. <<0..y, 0..x>> \in R
    BY <2>1, <2>2 DEF StrictSubsetOrdering
  <2> QED BY <1>4, <2>3
<1> QED BY <1>5 DEF Min

(* Tasks for parts that are as many on both sides.                         *)
LEMMA PairsWithin ==
  ASSUME NEW kind, NEW S, NEW ls \in Seq(S), NEW rs \in Seq(S), Len(ls) = Len(rs),
         NEW T, \A i \in 1..Len(ls) : [kind |-> kind, l |-> ls[i], r |-> rs[i]] \in T
  PROVE  Pairs(kind, ls, rs) \in Seq(T)
<1>1. Pairs(kind, ls, rs) = [i \in 1..Len(ls) |-> [kind |-> kind, l |-> ls[i], r |-> rs[i]]]
  BY LenProperties DEF Pairs
<1> QED BY <1>1, IsASeq, LenProperties

LEMMA PairsFit ==
  ASSUME NEW kind, NEW S, NEW ls \in Seq(S), NEW rs \in Seq(S), Len(ls) = Len(rs),
         [kind : {kind}, l : S, r : S] \subseteq Task
  PROVE  Pairs(kind, ls, rs) \in Seq(Task)
<1>1. \A i \in 1..Len(ls) : ls[i] \in S /\ rs[i] \in S
  BY ElementOfSeq
<1>2. \A i \in 1..Len(ls) : [kind |-> kind, l |-> ls[i], r |-> rs[i]] \in Task
  BY <1>1
<1> QED BY <1>2, PairsWithin

LEMMA ThenFits ==
  ASSUME NEW T, todo \in Seq(T), todo # <<>>, NEW tasks \in Seq(T), Then(tasks)
  PROVE  todo' \in Seq(T)
BY HeadTailProperties, ConcatProperties DEF Then

LEMMA ValuesMapped ==
  ASSUME NEW l, NEW r, NEW n, {l} \X (1..n) \subseteq Value,
         {r} \X (1..n) \subseteq Value,
         DOMAIN values \cup Range(values) \subseteq Value,
         values' = MapValues(l, r, n)
  PROVE  /\ DOMAIN values' \cup Range(values') \subseteq Value
         /\ DOMAIN values' = DOMAIN values \cup ({l} \X (1..n))
BY DEF MapValues, Range

LEMMA BlocksMapped ==
  ASSUME NEW l \in Seq(Block), NEW r \in Seq(Block), Len(l) = Len(r),
         DOMAIN blocks \cup Range(blocks) \subseteq Block,
         blocks' = MapBlocks(l, r)
  PROVE  DOMAIN blocks' \cup Range(blocks') \subseteq Block
<1>1. \A i \in DOMAIN l : l[i] \in Block /\ r[i] \in Block
  BY ElementOfSeq, LenProperties
<1>2. \A b \in ToSet(l) : r[CHOOSE i \in DOMAIN l : l[i] = b] \in Block
  <2> SUFFICES ASSUME NEW b \in ToSet(l)
               PROVE  r[CHOOSE i \in DOMAIN l : l[i] = b] \in Block
    OBVIOUS
  <2>1. \E i \in DOMAIN l : l[i] = b  BY DEF ToSet
  <2> QED BY <1>1, <2>1
<1>3. ToSet(l) \subseteq Block
  BY <1>1 DEF ToSet
<1>4. DOMAIN blocks' = DOMAIN blocks \cup ToSet(l)
  BY DEF MapBlocks
<1>5. \A b \in DOMAIN blocks' : blocks'[b] \in Block
  <2>1. \A b \in DOMAIN blocks : blocks[b] \in Block
    BY DEF Range
  <2> QED BY <1>2, <1>4, <2>1 DEF MapBlocks
<1> QED BY <1>3, <1>4, <1>5 DEF Range

LEMMA SameTypesSameNumber ==
  ASSUME NEW l, NEW r, NEW m \in Nat, NEW n \in Nat, Types(l, m) = Types(r, n)
  PROVE  m = n
<1>1. DOMAIN Types(l, m) = 1..m /\ DOMAIN Types(r, n) = 1..n
  BY DEF Types
<1> QED BY <1>1

-----------------------------------------------------------------------------
LEMMA FinishFits ==
  ASSUME CheckInv, Finish("different") \/ Finish("equal")
  PROVE  CheckInv'
<1>1. phase' = "idle" /\ todo' = <<>> /\ ops' = <<>> /\ cursor' = AtOp(1)
      /\ blocks' = NoMap /\ values' = NoMap /\ verdict' \in {"equal", "different"}
      /\ UNCHANGED <<lhs, rhs, asked, earlier>>
  BY DEF Finish, ClearChecker
<1>2. Len(<<>>) = 0 /\ <<>> \in Seq(Task) /\ <<>> \in Seq(Op \X Op) /\ DOMAIN <<>> = {}
  BY EmptySeq, LenProperties
<1>3. DOMAIN NoMap = {} /\ Range(NoMap) = {}
  BY DEF NoMap, Range
<1>4. CursorFits'
  BY <1>1, <1>2 DEF CursorFits, AtOp
<1> QED BY <1>1, <1>2, <1>3, <1>4 DEF CheckInv, Fresh

LEMMA StartFits ==
  ASSUME CheckInv, NEW l \in Root, NEW r \in Root, Start(l, r)
  PROVE  CheckInv'
<1>1. phase = "idle" /\ lhs' = l /\ rhs' = r /\ asked' = {}
      /\ earlier' \in {verdict, Null}
  BY DEF Start
<1>2. CASE l = r
  <2>1. phase' = "idle" /\ verdict' = "equal" /\ UNCHANGED checker
    BY <1>2 DEF Start
  <2> QED BY <1>1, <2>1 DEF CheckInv, Fresh, CursorFits, LeftOp, RightOp, checker
<1>3. CASE l # r
  <2>1. /\ phase' = "structure" /\ verdict' = Null
        /\ todo' = Pairs("operation", <<l>>, <<r>>)
        /\ UNCHANGED <<ops, blocks, values, cursor>>
    BY <1>3 DEF Start
  <2>2. <<l>> \in Seq(Op) /\ <<r>> \in Seq(Op) /\ Len(<<l>>) = Len(<<r>>)
    BY ProgramFacts
  <2>3. todo' \in Seq(Task)
    <3>1. [kind : {"operation"}, l : Op, r : Op] \subseteq Task  BY DEF Task
    <3> HIDE DEF Task
    <3> QED BY <2>1, <2>2, <3>1, PairsFit
  <2>4. cursor = AtOp(1)
    BY <1>1 DEF CheckInv, Fresh
  <2> QED BY <1>1, <2>1, <2>3, <2>4 DEF CheckInv, Fresh, CursorFits, LeftOp, RightOp
<1> QED BY <1>2, <1>3

(* The first pass leaves the cursor alone.                                 *)
LEMMA TaskOf ==
  ASSUME CheckInv, NEW kind, Matching(kind)
  PROVE  /\ phase = "structure" /\ todo \in Seq(Task) /\ todo # <<>>
         /\ Head(todo) \in Task /\ Head(todo).kind = kind /\ cursor = AtOp(1)
BY HeadTailProperties DEF CheckInv, Matching, Fresh

LEMMA MatchOperationFits ==
  ASSUME CheckInv, MatchOperation
  PROVE  CheckInv'
<1>1. /\ phase = "structure" /\ todo \in Seq(Task) /\ todo # <<>>
      /\ Left \in Op /\ Right \in Op /\ cursor = AtOp(1)
  BY TaskOf DEF MatchOperation, Task, Left, Right
<1>2. CASE SameOperation(Left, Right) /\ SameSuccessors(Left, Right)
  <2>1. /\ values' = MapValues(Left, Right, NumResults[Left])
        /\ ops' = Append(ops, <<Left, Right>>)
        /\ Then(Pairs("region", Regions[Left], Regions[Right]))
        /\ UNCHANGED <<phase, lhs, rhs, blocks, cursor, asked, verdict, earlier>>
    BY <1>2 DEF MatchOperation
  <2>2. Len(Regions[Left]) = Len(Regions[Right]) /\ NumResults[Left] = NumResults[Right]
    <3>1. Types(Left, NumResults[Left]) = Types(Right, NumResults[Right])
      BY <1>2 DEF SameOperation, ResultTypes
    <3>2. NumResults[Left] = NumResults[Right]
      BY <1>1, <3>1, ProgramFacts, SameTypesSameNumber
    <3> QED BY <1>2, <3>2 DEF SameOperation
  <2>3. todo' \in Seq(Task)
    <3>1. [kind : {"region"}, l : Seq(Block), r : Seq(Block)] \subseteq Task
      BY DEF Task
    <3>2. Pairs("region", Regions[Left], Regions[Right]) \in Seq(Task)
      BY <1>1, <2>2, <3>1, ProgramFacts, PairsFit
    <3> QED BY <1>1, <2>1, <3>2, ThenFits
  <2>4. DOMAIN values' \cup Range(values') \subseteq Value
    <3>1. /\ {Left} \X (1..NumResults[Left]) \subseteq Value
          /\ {Right} \X (1..NumResults[Left]) \subseteq Value
      BY <1>1, <2>2 DEF Value, Result
    <3> QED BY <2>1, <3>1, ValuesMapped DEF CheckInv
  <2>5. /\ ops' \in Seq(Op \X Op) /\ Len(ops') = Len(ops) + 1
        /\ \A k \in DOMAIN ops' : SameOperation(ops'[k][1], ops'[k][2])
    BY <1>1, <1>2, <2>1, AppendProperties, LenProperties DEF CheckInv
  <2>6. CursorFits'
    BY <1>1, <2>1, <2>5, ElementOfSeq, ProgramFacts, LenProperties
       DEF CursorFits, AtOp, LeftOp, RightOp, CheckInv
  <2> QED BY <1>1, <2>1, <2>3, <2>4, <2>5, <2>6 DEF CheckInv, Fresh
<1>3. CASE ~(SameOperation(Left, Right) /\ SameSuccessors(Left, Right))
  BY <1>3, FinishFits DEF MatchOperation
<1> QED BY <1>2, <1>3

LEMMA MatchRegionFits ==
  ASSUME CheckInv, MatchRegion
  PROVE  CheckInv'
<1>1. /\ phase = "structure" /\ todo \in Seq(Task) /\ todo # <<>>
      /\ Left \in Seq(Block) /\ Right \in Seq(Block) /\ cursor = AtOp(1)
  BY TaskOf DEF MatchRegion, Task, Left, Right
<1>2. CASE Len(Left) = Len(Right)
  <2>1. /\ blocks' = MapBlocks(Left, Right) /\ Then(Pairs("block", Left, Right))
        /\ UNCHANGED <<phase, lhs, rhs, ops, values, cursor, asked, verdict, earlier>>
    BY <1>2 DEF MatchRegion
  <2>2. todo' \in Seq(Task)
    <3>1. [kind : {"block"}, l : Block, r : Block] \subseteq Task  BY DEF Task
    <3>2. Pairs("block", Left, Right) \in Seq(Task)
      BY <1>1, <1>2, <3>1, PairsFit
    <3> QED BY <1>1, <2>1, <3>2, ThenFits
  <2>3. DOMAIN blocks' \cup Range(blocks') \subseteq Block
    BY <1>1, <1>2, <2>1, BlocksMapped DEF CheckInv
  <2> QED BY <1>1, <2>1, <2>2, <2>3 DEF CheckInv, Fresh, CursorFits, LeftOp, RightOp
<1>3. CASE Len(Left) # Len(Right)
  BY <1>3, FinishFits DEF MatchRegion
<1> QED BY <1>2, <1>3

LEMMA MatchBlockFits ==
  ASSUME CheckInv, MatchBlock
  PROVE  CheckInv'
<1>1. /\ phase = "structure" /\ todo \in Seq(Task) /\ todo # <<>>
      /\ Left \in Block /\ Right \in Block /\ cursor = AtOp(1)
  BY TaskOf DEF MatchBlock, Task, Left, Right
<1>2. CASE ArgTypes(Left) = ArgTypes(Right) /\ Len(Body[Left]) = Len(Body[Right])
  <2>1. /\ values' = MapValues(Left, Right, NumArgs[Left])
        /\ Then(Pairs("operation", Body[Left], Body[Right]))
        /\ UNCHANGED <<phase, lhs, rhs, ops, blocks, cursor, asked, verdict, earlier>>
    BY <1>2 DEF MatchBlock
  <2>2. NumArgs[Left] = NumArgs[Right]
    BY <1>1, <1>2, ProgramFacts, SameTypesSameNumber DEF ArgTypes
  <2>3. todo' \in Seq(Task)
    <3>1. [kind : {"operation"}, l : Op, r : Op] \subseteq Task  BY DEF Task
    <3>2. Pairs("operation", Body[Left], Body[Right]) \in Seq(Task)
      BY <1>1, <1>2, <3>1, ProgramFacts, PairsFit
    <3> QED BY <1>1, <2>1, <3>2, ThenFits
  <2>4. DOMAIN values' \cup Range(values') \subseteq Value
    <3>1. /\ {Left} \X (1..NumArgs[Left]) \subseteq Value
          /\ {Right} \X (1..NumArgs[Left]) \subseteq Value
      BY <1>1, <2>2 DEF Value, Arg
    <3> QED BY <2>1, <3>1, ValuesMapped DEF CheckInv
  <2> QED BY <1>1, <2>1, <2>3, <2>4 DEF CheckInv, Fresh, CursorFits, LeftOp, RightOp
<1>3. CASE ~(ArgTypes(Left) = ArgTypes(Right) /\ Len(Body[Left]) = Len(Body[Right]))
  BY <1>3, FinishFits DEF MatchBlock
<1> QED BY <1>2, <1>3

LEMMA CheckOperandsFits ==
  ASSUME CheckInv, CheckOperands
  PROVE  CheckInv'
<1>1. CASE OperandsMatch
  <2>1. phase = "structure" /\ phase' = "operands"
        /\ UNCHANGED <<lhs, rhs, todo, ops, blocks, values, cursor, asked, verdict, earlier>>
    BY <1>1 DEF CheckOperands, checker
  <2> QED BY <2>1 DEF CheckInv, Fresh, CursorFits, LeftOp, RightOp
<1>2. CASE ~OperandsMatch
  BY <1>2, FinishFits DEF CheckOperands
<1> QED BY <1>1, <1>2

(* The operations the cursor is at.                                        *)
LEMMA AtOperands ==
  ASSUME CheckInv, phase = "operands", cursor.op <= Len(ops)
  PROVE  /\ cursor.op \in DOMAIN ops /\ LeftOp \in Op /\ RightOp \in Op
         /\ SameOperation(LeftOp, RightOp)
         /\ Len(Operands[LeftOp]) = Len(Operands[RightOp])
         /\ DOMAIN Operands[LeftOp] = 1..Len(Operands[LeftOp])
         /\ DOMAIN Operands[RightOp] = 1..Len(Operands[RightOp])
         /\ Len(Operands[LeftOp]) \in Nat
         /\ \A i \in DOMAIN Operands[LeftOp] : Operands[LeftOp][i] \in Value
         /\ \A i \in DOMAIN Operands[RightOp] : Operands[RightOp][i] \in Value
         /\ cursor.operand \in 1..(Len(Operands[LeftOp]) + 1)
<1>1. cursor.op \in DOMAIN ops /\ Len(ops) \in Nat
  BY LenProperties DEF CheckInv, CursorFits
<1>2. ops[cursor.op] \in Op \X Op /\ SameOperation(LeftOp, RightOp)
  BY <1>1, ElementOfSeq, LenProperties DEF CheckInv, LeftOp, RightOp
<1>3. Operands[LeftOp] \in Seq(Value) /\ Operands[RightOp] \in Seq(Value)
  BY <1>2, ProgramFacts DEF LeftOp, RightOp
<1> QED BY <1>1, <1>2, <1>3, ElementOfSeq, LenProperties
        DEF CheckInv, CursorFits, SameOperation, LeftOp, RightOp

LEMMA NextOperationFits ==
  ASSUME CheckInv, NextOperation
  PROVE  CheckInv'
<1>1. /\ phase = "operands" /\ cursor.op <= Len(ops) /\ cursor' = AtOp(cursor.op + 1)
      /\ UNCHANGED <<phase, lhs, rhs, todo, ops, blocks, values, asked, verdict, earlier>>
  BY DEF NextOperation, InOperands
<1>2. ops \in Seq(Op \X Op) /\ Len(ops) \in Nat /\ cursor.op \in Nat \ {0}
  BY LenProperties DEF CheckInv, CursorFits
<1>3. cursor.op + 1 <= Len(ops) => Len(Operands[ops[cursor.op + 1][1]]) \in Nat
  BY <1>2, ElementOfSeq, ProgramFacts, LenProperties
<1>4. CursorFits'
  BY <1>1, <1>2, <1>3 DEF CursorFits, AtOp, LeftOp, RightOp
<1> QED BY <1>1, <1>4 DEF CheckInv, Fresh

(* The candidate that is compared next.                                    *)
LEMMA CandidateFits ==
  ASSUME CheckInv, CompareOperand
  PROVE  LET j == Min(Candidates)
         IN /\ phase = "operands" /\ cursor.op <= Len(ops)
            /\ j \in Candidates /\ j \in DOMAIN Operands[RightOp] /\ j \in Nat
            /\ cursor.operand \in DOMAIN Operands[LeftOp]
<1>1. /\ phase = "operands" /\ cursor.op <= Len(ops) /\ Candidates # {}
      /\ cursor.operand <= Len(Operands[LeftOp])
  BY DEF CompareOperand, InOperands
<1>2. Candidates \subseteq DOMAIN Operands[RightOp] /\ Candidates \in SUBSET Nat
  BY <1>1, AtOperands DEF Candidates
<1>3. Min(Candidates) \in Candidates
  BY <1>1, <1>2, LeastExists
<1>4. cursor.operand \in DOMAIN Operands[LeftOp]
  BY <1>1, AtOperands
<1>5. PICK j : j = Min(Candidates)
  OBVIOUS
<1>6. j \in Candidates /\ j \in DOMAIN Operands[RightOp] /\ j \in Nat
  BY <1>2, <1>3, <1>5
<1> QED BY <1>1, <1>4, <1>5, <1>6

(* What a comparison of operands does.                                     *)
LEMMA CompareOperandCases ==
  ASSUME CheckInv, CompareOperand
  PROVE  LET j == Min(Candidates)
             l == Operands[LeftOp][cursor.operand]
             r == Operands[RightOp][j]
         IN /\ UNCHANGED <<lhs, rhs, earlier>>
            /\ asked' \in {asked, asked \cup {<<l, r>>}}
            /\ \/ /\ phase' = "idle" /\ verdict' \in Signal
                  /\ ClearChecker
               \/ /\ cursor' = [cursor EXCEPT !.other = j + 1]
                  /\ UNCHANGED <<phase, verdict, todo, ops, blocks, values>>
               \/ /\ "equal" \in CompareValues(l, r)
                  /\ cursor' = [cursor EXCEPT !.operand = @ + 1, !.other = 1,
                                              !.used = @ \cup {j}]
                  /\ UNCHANGED <<phase, verdict, todo, ops, blocks, values>>
<1> DEFINE j == Min(Candidates)
           l == Operands[LeftOp][cursor.operand]
           r == Operands[RightOp][j]
<1>1. UNCHANGED <<lhs, rhs, earlier>> /\ asked' \in {asked, asked \cup {<<l, r>>}}
  BY DEF CompareOperand
<1>2. PICK outcome \in CompareValues(l, r) :
        IF outcome \in Signal
        THEN phase' = "idle" /\ verdict' = outcome /\ ClearChecker
        ELSE /\ cursor' =
                  IF outcome = "different"
                  THEN [cursor EXCEPT !.other = j + 1]
                  ELSE [cursor EXCEPT !.operand = @ + 1, !.other = 1,
                                      !.used = @ \cup {j}]
             /\ UNCHANGED <<phase, verdict, todo, ops, blocks, values>>
  BY DEF CompareOperand
<1>3. outcome \in {"equal", "different"} \cup Signal
  BY DEF CompareValues, EvaluatedValueEqual, MatchValues
<1> QED BY <1>1, <1>2, <1>3

LEMMA CompareOperandFits ==
  ASSUME CheckInv, CompareOperand
  PROVE  CheckInv'
<1> DEFINE j == Min(Candidates)
           l == Operands[LeftOp][cursor.operand]
           r == Operands[RightOp][j]
<1>1. /\ phase = "operands" /\ cursor.op <= Len(ops) /\ j \in DOMAIN Operands[RightOp]
      /\ j \in Nat /\ cursor.operand \in DOMAIN Operands[LeftOp]
  BY CandidateFits
<1>2. l \in Value /\ r \in Value
  BY <1>1, AtOperands
<1> HIDE DEF j
<1>3. UNCHANGED <<lhs, rhs, earlier>> /\ asked' \subseteq Value \X Value
  <2>1. UNCHANGED <<lhs, rhs, earlier>> /\ asked' \in {asked, asked \cup {<<l, r>>}}
    BY CompareOperandCases DEF j
  <2> QED BY <1>2, <2>1 DEF CheckInv
<1>4. CASE phase' = "idle" /\ verdict' \in Signal /\ ClearChecker
  <2>1. todo' = <<>> /\ ops' = <<>> /\ cursor' = AtOp(1) /\ blocks' = NoMap
        /\ values' = NoMap
    BY <1>4 DEF ClearChecker
  <2>2. Len(<<>>) = 0 /\ <<>> \in Seq(Task) /\ <<>> \in Seq(Op \X Op)
        /\ DOMAIN <<>> = {}
    BY EmptySeq, LenProperties
  <2>3. DOMAIN NoMap = {} /\ Range(NoMap) = {}
    BY DEF NoMap, Range
  <2>4. CursorFits'
    BY <2>1, <2>2 DEF CursorFits, AtOp
  <2> QED BY <1>3, <1>4, <2>1, <2>2, <2>3, <2>4 DEF CheckInv, Fresh
<1>5. CASE /\ cursor' \in {[cursor EXCEPT !.other = j + 1],
                          [cursor EXCEPT !.operand = @ + 1, !.other = 1,
                                         !.used = @ \cup {j}]}
           /\ UNCHANGED <<phase, verdict, todo, ops, blocks, values>>
  <2>1. Len(Operands[LeftOp]) \in Nat
        /\ DOMAIN Operands[LeftOp] = 1..Len(Operands[LeftOp])
        /\ cursor.used \subseteq DOMAIN Operands[RightOp]
    BY <1>1, AtOperands DEF CheckInv, CursorFits
  <2>2. /\ cursor'.op = cursor.op
        /\ cursor' \in [op : Nat \ {0}, operand : Nat \ {0}, other : Nat,
                       used : SUBSET Nat]
        /\ cursor'.operand <= Len(Operands[LeftOp]) + 1
        /\ cursor'.used \subseteq DOMAIN Operands[RightOp]
    <3>1. cursor \in [op : Nat \ {0}, operand : Nat \ {0}, other : Nat,
                     used : SUBSET Nat]
      BY DEF CheckInv, CursorFits
    <3>2. cursor.operand \in 1..Len(Operands[LeftOp])
      BY <1>1, <2>1
    <3>3. CASE cursor' = [cursor EXCEPT !.other = j + 1]
      BY <1>1, <2>1, <3>1, <3>2, <3>3
    <3>4. CASE cursor' = [cursor EXCEPT !.operand = @ + 1, !.other = 1,
                                        !.used = @ \cup {j}]
      <4>1. cursor' = [op |-> cursor.op, operand |-> cursor.operand + 1, other |-> 1,
                       used |-> cursor.used \cup {j}]
        BY <3>1, <3>4
      <4> QED BY <1>1, <2>1, <3>1, <3>2, <4>1
    <3> QED BY <1>5, <3>3, <3>4
  <2>3. CursorFits'
    BY <1>1, <1>5, <2>2 DEF CursorFits, LeftOp, RightOp
  <2> QED BY <1>1, <1>3, <1>5, <2>3 DEF CheckInv, Fresh
<1> QED BY <1>4, <1>5, CompareOperandCases DEF j

LEMMA CheckStep ==
  ASSUME CheckInv, [Next]_vars
  PROVE  CheckInv'
<1>1. CASE Compare
  <2>1. ASSUME NotFound \/ AllEquivalent  PROVE CheckInv'
    BY <2>1, FinishFits DEF NotFound, AllEquivalent
  <2> QED BY <1>1, <2>1, MatchOperationFits, MatchRegionFits, MatchBlockFits,
             CheckOperandsFits, CompareOperandFits, NextOperationFits DEF Compare
<1>2. CASE \E l, r \in Root : Start(l, r)
  BY <1>2, StartFits
<1>3. CASE UNCHANGED vars
  BY <1>3 DEF vars, checker, CheckInv, Fresh, CursorFits, LeftOp, RightOp
<1> QED BY <1>1, <1>2, <1>3 DEF Next

LEMMA CheckInit == Init => CheckInv
<1> SUFFICES ASSUME Init PROVE CheckInv
  OBVIOUS
<1>1. Len(<<>>) = 0 /\ <<>> \in Seq(Task) /\ <<>> \in Seq(Op \X Op) /\ DOMAIN <<>> = {}
  BY EmptySeq, LenProperties
<1>2. DOMAIN NoMap = {} /\ Range(NoMap) = {}
  BY DEF NoMap, Range
<1>3. CursorFits
  BY <1>1 DEF Init, CursorFits, AtOp
<1> QED BY <1>1, <1>2, <1>3 DEF Init, CheckInv, Fresh

LEMMA CheckTypes ==
  ASSUME CheckInv
  PROVE  TypeOK
<1>1. \A i \in DOMAIN todo : todo[i].kind \in {"operation", "region", "block"}
  <2>1. \A i \in DOMAIN todo : todo[i] \in Task
    BY ElementOfSeq, LenProperties DEF CheckInv
  <2> QED BY <2>1 DEF Task
<1>2. InOperands(TRUE) => cursor.used \subseteq DOMAIN Operands[RightOp]
  BY DEF CheckInv, CursorFits, InOperands
<1>3. ASSUME InOperands(FALSE)  PROVE cursor.operand = Len(Operands[LeftOp]) + 1
  <2>1. phase = "operands" /\ cursor.op <= Len(ops)
        /\ ~(cursor.operand <= Len(Operands[LeftOp]))
    BY <1>3 DEF InOperands
  <2> QED BY <2>1, AtOperands
<1>4. cursor.op \in 1..(Len(ops) + 1)
  BY LenProperties DEF CheckInv, CursorFits
<1> QED BY <1>1, <1>2, <1>3, <1>4 DEF CheckInv, TypeOK

(* A comparison's maps are of values and blocks of the program, its tasks  *)
(* pair like with like, and its cursor never leaves the operands of        *)
(* operations that have as many: matchOperation's checks are enough for the*)
(* zip_equal of every later pass.                                          *)
THEOREM ComparisonsFit == Spec => []CheckInv
<1>1. CheckInv /\ [Next]_vars => CheckInv'  BY CheckStep
<1> QED BY <1>1, CheckInit, PTL DEF Spec

(* What every variable of a comparison ranges over.                        *)
THEOREM ComparisonTypes == Spec => []TypeOK
<1>1. CheckInv => TypeOK  BY CheckTypes
<1> QED BY <1>1, ComparisonsFit, PTL

-----------------------------------------------------------------------------
(* A set that has all that is inside an operation.  What is defined in its *)
(* regions is out of its own scope, but in a graph region an operation may *)
(* use its own result.  Such a one is left aside: its hash has the engine  *)
(* evaluate it while it is active, so it is Cycle, and no key.             *)
Encloses(o, S) ==
  /\ o \in S
  /\ \A p \in S \cap Op : \A k \in DOMAIN Regions[p] : ToSet(Regions[p][k]) \subseteq S
  /\ \A b \in S \cap Block : ToSet(Body[b]) \subseteq S
Apt(o, S) == /\ Encloses(o, S)
             /\ \A i \in DOMAIN Operands[o] : Operands[o][i][1] \notin S
OperandsOutside == \A o \in Root : \E S \in SUBSET (Op \cup Block) : Apt(o, S)
Inside(o) == CHOOSE S \in SUBSET (Op \cup Block) : Apt(o, S)

(* The walk stays inside the left operation.                               *)
InsideTask(o) ==
  {t \in Task : IF t.kind = "region" THEN ToSet(t.l) \subseteq Inside(o)
                                     ELSE t.l \in Inside(o)}
LeftInside ==
  phase # "idle" => /\ todo \in Seq(InsideTask(lhs))
                    /\ \A v \in DOMAIN values : v[1] \in Inside(lhs)

(* The operations compared are the first whose operands are.               *)
RootFirst ==
  /\ phase = "structure" /\ ops = <<>> =>
       todo = <<[kind |-> "operation", l |-> lhs, r |-> rhs]>>
  /\ phase # "idle" /\ ops # <<>> => ops[1] = <<lhs, rhs>>
  /\ phase = "operands" => ops # <<>>

(* The first n operands of the left have counterparts among those of the   *)
(* right, one each, that hash equally.                                     *)
Pairing(n, used, f) ==
  /\ f \in Bijection(1..n, used)
  /\ \A i \in 1..n :
       /\ HashEvaluatedValue(Operands[lhs][i]) = HashEvaluatedValue(Operands[rhs][f[i]])
       /\ ~IsCommutative(lhs) => f[i] = i
RootPaired ==
  phase = "operands" =>
    IF cursor.op = 1 THEN \E f : Pairing(cursor.operand - 1, cursor.used, f)
    ELSE ComputeHash(lhs) = ComputeHash(rhs)

HashInv == CheckInv /\ LeftInside /\ RootFirst /\ RootPaired /\ EqualHashes

-----------------------------------------------------------------------------
LEMMA InsideApt ==
  ASSUME OperandsOutside, NEW o \in Root
  PROVE  Apt(o, Inside(o))
BY DEF OperandsOutside, Inside

LEMMA PairingExtends ==
  ASSUME NEW n \in Nat, NEW used \in SUBSET Nat, NEW f, Pairing(n, used, f),
         NEW j \in Nat,
         IF IsCommutative(lhs) THEN j \notin used ELSE j = n + 1,
         HashEvaluatedValue(Operands[lhs][n + 1]) = HashEvaluatedValue(Operands[rhs][j])
  PROVE  \E g : Pairing(n + 1, used \cup {j}, g)
<1> DEFINE g == [i \in 1..(n + 1) |-> IF i = n + 1 THEN j ELSE f[i]]
<1>1. /\ f \in [1..n -> used] /\ \A a, b \in 1..n : f[a] = f[b] => a = b
      /\ \A t \in used : \E a \in 1..n : f[a] = t
  BY Fun_BijectionProperties DEF Pairing
<1>2. j \notin used
  BY <1>1 DEF Pairing
<1>3. g \in [1..(n + 1) -> used \cup {j}]
  BY <1>1
<1>4. \A a, b \in 1..(n + 1) : g[a] = g[b] => a = b
  BY <1>1, <1>2
<1>5. \A t \in used \cup {j} : \E a \in 1..(n + 1) : g[a] = t
  <2>1. ASSUME NEW t \in used  PROVE \E a \in 1..(n + 1) : g[a] = t
    <3>1. PICK a \in 1..n : f[a] = t  BY <1>1
    <3> QED BY <3>1
  <2>2. g[n + 1] = j  OBVIOUS
  <2> QED BY <2>1, <2>2
<1>6. g \in Bijection(1..(n + 1), used \cup {j})
  BY <1>3, <1>4, <1>5, Fun_IsBij
<1>7. \A i \in 1..(n + 1) :
        /\ HashEvaluatedValue(Operands[lhs][i]) = HashEvaluatedValue(Operands[rhs][g[i]])
        /\ ~IsCommutative(lhs) => g[i] = i
  BY DEF Pairing
<1> HIDE DEF g
<1> QED BY <1>6, <1>7 DEF Pairing

(* Sequences with the same elements, in another order, are the same bag.   *)
LEMMA SameBag ==
  ASSUME NEW D, IsFiniteSet(D), NEW f \in Bijection(D, D), NEW s, NEW t,
         DOMAIN s = D, DOMAIN t = D, \A i \in D : s[i] = t[f[i]]
  PROVE  ToBag(s) = ToBag(t)
<1>1. /\ f \in [D -> D] /\ \A a, b \in D : f[a] = f[b] => a = b
      /\ \A k \in D : \E a \in D : f[a] = k
  BY Fun_BijectionProperties
<1>2. Range(s) = Range(t)
  <2>1. \A k \in D : \E a \in D : s[a] = t[k]
    BY <1>1
  <2> QED BY <1>1, <2>1 DEF Range
<1>3. ASSUME NEW x
      PROVE  Cardinality({i \in DOMAIN s : s[i] = x})
             = Cardinality({i \in DOMAIN t : t[i] = x})
  <2> DEFINE S == {i \in D : s[i] = x}
             T == {i \in D : t[i] = x}
             g == [i \in S |-> f[i]]
  <2>1. g \in [S -> T] /\ \A a, b \in S : g[a] = g[b] => a = b
    BY <1>1
  <2>2. \A k \in T : \E a \in S : g[a] = k
    <3> SUFFICES ASSUME NEW k \in T  PROVE \E a \in S : g[a] = k
      OBVIOUS
    <3>1. PICK a \in D : f[a] = k  BY <1>1
    <3>2. a \in S  BY <3>1
    <3> QED BY <3>1, <3>2
  <2>3. g \in Bijection(S, T)
    <3> HIDE DEF g, S, T
    <3> QED BY <2>1, <2>2, Fun_IsBij
  <2>4. IsFiniteSet(S)
    BY FS_Subset
  <2>5. Cardinality(T) = Cardinality(S)
    <3> HIDE DEF g, S, T
    <3> QED BY <2>3, <2>4, FS_Bijection DEF ExistsBijection
  <2> QED BY <2>5
<1> QED BY <1>2, <1>3 DEF ToBag

LEMMA PairingHashes ==
  ASSUME lhs \in Op, rhs \in Op, SameOperation(lhs, rhs),
         NEW used, used \subseteq DOMAIN Operands[rhs],
         NEW f, Pairing(Len(Operands[lhs]), used, f)
  PROVE  ComputeHash(lhs) = ComputeHash(rhs)
<1> DEFINE n == Len(Operands[lhs])
<1>1. n \in Nat /\ DOMAIN Operands[lhs] = 1..n /\ DOMAIN Operands[rhs] = 1..n
  BY ProgramFacts, LenProperties DEF SameOperation
<1>2. Label[lhs] = Label[rhs] /\ ResultTypes(lhs) = ResultTypes(rhs)
      /\ (IsCommutative(lhs) <=> IsCommutative(rhs))
  BY DEF SameOperation, IsCommutative
<1> HIDE DEF n
<1>3. f \in Bijection(1..n, used) /\ used \subseteq 1..n
  BY <1>1 DEF Pairing, n
<1>4. used = 1..n
  <2>1. IsFiniteSet(1..n)
    BY <1>1, FS_Interval
  <2>2. Cardinality(used) = Cardinality(1..n)
    BY <1>3, <2>1, FS_Bijection DEF ExistsBijection
  <2> QED BY <1>3, <2>1, <2>2, FS_Subset
<1>5. /\ DOMAIN OperandHashes(lhs) = 1..n /\ DOMAIN OperandHashes(rhs) = 1..n
      /\ \A i \in 1..n : OperandHashes(lhs)[i] = HashEvaluatedValue(Operands[lhs][i])
      /\ \A i \in 1..n : OperandHashes(rhs)[i] = HashEvaluatedValue(Operands[rhs][i])
  BY <1>1 DEF OperandHashes
<1>6. \A i \in 1..n : f[i] \in used
  <2>1. f \in [1..n -> used]
    BY <1>3, Fun_BijectionProperties
  <2> QED BY <2>1
<1>7. CASE IsCommutative(lhs)
  <2>1. \A i \in 1..n : OperandHashes(lhs)[i] = OperandHashes(rhs)[f[i]]
    BY <1>3, <1>5, <1>6 DEF Pairing, n
  <2>2. ToBag(OperandHashes(lhs)) = ToBag(OperandHashes(rhs))
    <3>1. IsFiniteSet(1..n)
      BY <1>1, FS_Interval
    <3>2. PICK D : D = 1..n
      OBVIOUS
    <3>3. /\ IsFiniteSet(D) /\ f \in Bijection(D, D)
          /\ DOMAIN OperandHashes(lhs) = D /\ DOMAIN OperandHashes(rhs) = D
          /\ \A i \in D : OperandHashes(lhs)[i] = OperandHashes(rhs)[f[i]]
      BY <1>3, <1>4, <1>5, <2>1, <3>1, <3>2
    <3> QED BY <3>3, SameBag
  <2> QED BY <1>2, <1>7, <2>2 DEF ComputeHash
<1>8. CASE ~IsCommutative(lhs)
  <2>1. \A i \in 1..n : HashEvaluatedValue(Operands[lhs][i])
                         = HashEvaluatedValue(Operands[rhs][i])
    BY <1>6, <1>8 DEF Pairing, n
  <2>2. OperandHashes(lhs) = OperandHashes(rhs)
    BY <1>1, <2>1 DEF OperandHashes
  <2> QED BY <1>2, <1>8, <2>2 DEF ComputeHash
<1> QED BY <1>7, <1>8

(* A value from outside that matches another one hashes like it.           *)
LEMMA EqualHash ==
  ASSUME NEW l, NEW r, l \notin DOMAIN values, "equal" \in CompareValues(l, r)
  PROVE  HashEvaluatedValue(l) = HashEvaluatedValue(r)
<1>1. "equal" \notin Signal
  BY EquivalenceAssumption
<1>2. MatchValues(l, r) = IF r \in Range(values) THEN "different"
                         ELSE IF l = r THEN "equal"
                         ELSE IF Type[l] = Type[r] THEN "ask" ELSE "different"
  BY DEF MatchValues
<1>3. CASE MatchValues(l, r) = "ask"
  <2>1. EvaluatedValueEqual(l, r) = "equal"
    BY <1>1, <1>3 DEF CompareValues
  <2> QED BY <2>1 DEF EvaluatedValueEqual, HashEvaluatedValue
<1>4. CASE MatchValues(l, r) # "ask"
  <2>1. MatchValues(l, r) = "equal"
    BY <1>4 DEF CompareValues
  <2> QED BY <1>2, <2>1
<1> QED BY <1>3, <1>4

(* Ends without a match.                                                   *)
LEMMA EndsHash ==
  ASSUME HashInv, phase' = "idle", verdict' # "equal"
  PROVE  LeftInside' /\ RootFirst' /\ RootPaired' /\ EqualHashes'
BY DEF LeftInside, RootFirst, RootPaired, EqualHashes

LEMMA DifferentHash ==
  ASSUME HashInv, Finish("different")
  PROVE  LeftInside' /\ RootFirst' /\ RootPaired' /\ EqualHashes'
<1>1. phase' = "idle" /\ verdict' # "equal"
  BY DEF Finish
<1> QED BY <1>1, EndsHash

LEMMA SameEqualHashes ==
  ASSUME EqualHashes, UNCHANGED <<lhs, rhs, verdict>>
  PROVE  EqualHashes'
BY DEF EqualHashes

LEMMA StartHash ==
  ASSUME OperandsOutside, HashInv, NEW l \in Root, NEW r \in Root, Start(l, r)
  PROVE  LeftInside' /\ RootFirst' /\ RootPaired' /\ EqualHashes'
<1>1. phase = "idle" /\ lhs' = l /\ rhs' = r
  BY DEF Start
<1>2. CASE l = r
  BY <1>1, <1>2 DEF Start, LeftInside, RootFirst, RootPaired, EqualHashes
<1>3. CASE l # r
  <2>1. /\ phase' = "structure" /\ verdict' = Null
        /\ todo' = Pairs("operation", <<l>>, <<r>>)
        /\ UNCHANGED <<ops, blocks, values, cursor>>
    BY <1>3 DEF Start
  <2>2. Null # "equal"
    BY EquivalenceAssumption
  <2>3. todo' = <<[kind |-> "operation", l |-> l, r |-> r]>>
    BY <2>1 DEF Pairs
  <2>4. [kind |-> "operation", l |-> l, r |-> r] \in InsideTask(l)
    <3>1. l \in Inside(l)
      BY InsideApt DEF Apt, Encloses
    <3> QED BY <3>1, ProgramFacts DEF InsideTask, Task
  <2>5. todo' \in Seq(InsideTask(lhs'))
    BY <1>1, <2>3, <2>4
  <2>6. ops' = <<>> /\ DOMAIN values' = {}
    BY <1>1, <2>1 DEF HashInv, CheckInv, Fresh, NoMap
  <2> QED BY <1>1, <2>1, <2>2, <2>3, <2>5, <2>6
          DEF LeftInside, RootFirst, RootPaired, EqualHashes
<1> QED BY <1>2, <1>3

(* What a step of the first pass finds.                                    *)
LEMMA InsideOf ==
  ASSUME OperandsOutside, HashInv, NEW kind, Matching(kind)
  PROVE  /\ phase = "structure" /\ lhs \in Root /\ Encloses(lhs, Inside(lhs))
         /\ todo \in Seq(InsideTask(lhs)) /\ todo # <<>>
         /\ Head(todo) \in InsideTask(lhs) /\ Head(todo).kind = kind
         /\ \A v \in DOMAIN values : v[1] \in Inside(lhs)
<1>1. phase = "structure" /\ todo # <<>> /\ Head(todo).kind = kind
  BY DEF Matching
<1>2. lhs \in Root /\ todo \in Seq(InsideTask(lhs))
      /\ \A v \in DOMAIN values : v[1] \in Inside(lhs)
  BY <1>1 DEF HashInv, CheckInv, Fresh, LeftInside
<1> QED BY <1>1, <1>2, InsideApt, HeadTailProperties DEF Apt

LEMMA MatchOperationHash ==
  ASSUME OperandsOutside, HashInv, MatchOperation
  PROVE  LeftInside' /\ RootFirst' /\ RootPaired' /\ EqualHashes'
<1>1. CASE SameOperation(Left, Right) /\ SameSuccessors(Left, Right)
  <2>1. /\ values' = MapValues(Left, Right, NumResults[Left])
        /\ ops' = Append(ops, <<Left, Right>>)
        /\ Then(Pairs("region", Regions[Left], Regions[Right]))
        /\ UNCHANGED <<phase, lhs, rhs, blocks, cursor, asked, verdict, earlier>>
    BY <1>1 DEF MatchOperation
  <2>2. /\ phase = "structure" /\ Encloses(lhs, Inside(lhs))
        /\ todo \in Seq(InsideTask(lhs)) /\ todo # <<>>
        /\ Left \in Op /\ Right \in Op /\ Left \in Inside(lhs)
        /\ \A v \in DOMAIN values : v[1] \in Inside(lhs)
    <3>1. Matching("operation")
      BY DEF MatchOperation
    <3>2. PICK t : t = Head(todo)
      OBVIOUS
    <3>3. t \in InsideTask(lhs) /\ t.kind = "operation"
      BY <3>1, <3>2, InsideOf
    <3>4. t \in Task /\ t.l \in Inside(lhs)
      BY <3>3 DEF InsideTask
    <3>5. t.l \in Op /\ t.r \in Op
      BY <3>3, <3>4 DEF Task
    <3> QED BY <3>1, <3>2, <3>4, <3>5, InsideOf DEF Left, Right
  <2>3. \A i \in 1..Len(Regions[Left]) :
          [kind |-> "region", l |-> Regions[Left][i], r |-> Regions[Right][i]]
            \in InsideTask(lhs)
    <3>1. /\ Regions[Left] \in Seq(Seq(Block)) /\ Regions[Right] \in Seq(Seq(Block))
          /\ Len(Regions[Left]) = Len(Regions[Right])
      BY <1>1, <2>2, ProgramFacts DEF SameOperation
    <3>2. \A i \in 1..Len(Regions[Left]) :
            /\ Regions[Left][i] \in Seq(Block) /\ Regions[Right][i] \in Seq(Block)
            /\ ToSet(Regions[Left][i]) \subseteq Inside(lhs)
      BY <2>2, <3>1, ElementOfSeq, LenProperties DEF Encloses
    <3> QED BY <3>2 DEF InsideTask, Task
  <2>4. todo' \in Seq(InsideTask(lhs))
    <3>1. Pairs("region", Regions[Left], Regions[Right]) \in Seq(InsideTask(lhs))
      BY <1>1, <2>2, <2>3, ProgramFacts, PairsWithin DEF SameOperation
    <3> QED BY <2>1, <2>2, <3>1, ThenFits
  <2>5. \A v \in DOMAIN values' : v[1] \in Inside(lhs)
    BY <2>1, <2>2 DEF MapValues
  <2>6. ops' # <<>> /\ ops'[1] = <<lhs, rhs>>
    <3>1. ops \in Seq(Op \X Op) /\ <<Left, Right>> \in Op \X Op
      BY <2>2 DEF HashInv, CheckInv
    <3>2. CASE ops = <<>>
      <4>1. Left = lhs /\ Right = rhs
        BY <2>2, <3>2 DEF HashInv, RootFirst, Left, Right
      <4> QED BY <2>1, <3>1, <3>2, <4>1, AppendProperties, EmptySeq
    <3>3. CASE ops # <<>>
      <4>1. Len(ops) \in Nat /\ Len(ops) >= 1 /\ ops[1] = <<lhs, rhs>>
        BY <2>2, <3>1, <3>3, LenProperties, EmptySeq DEF HashInv, RootFirst
      <4> QED BY <2>1, <3>1, <4>1, AppendProperties
    <3> QED BY <3>2, <3>3
  <2>7. LeftInside'
    BY <2>1, <2>4, <2>5 DEF LeftInside
  <2>8. RootFirst' /\ RootPaired'
    BY <2>1, <2>2, <2>6 DEF RootFirst, RootPaired
  <2> QED BY <2>1, <2>7, <2>8, SameEqualHashes DEF HashInv
<1>2. CASE ~(SameOperation(Left, Right) /\ SameSuccessors(Left, Right))
  BY <1>2, DifferentHash DEF MatchOperation
<1> QED BY <1>1, <1>2

(* A region or block is not the first task.                                *)
LEMMA RootMatched ==
  ASSUME HashInv, NEW kind, Matching(kind), kind # "operation"
  PROVE  ops # <<>> /\ ops[1] = <<lhs, rhs>>
<1>1. phase = "structure" /\ Head(todo).kind # "operation"
  BY DEF Matching
<1> QED BY <1>1 DEF HashInv, RootFirst

LEMMA MatchRegionHash ==
  ASSUME OperandsOutside, HashInv, MatchRegion
  PROVE  LeftInside' /\ RootFirst' /\ RootPaired' /\ EqualHashes'
<1>1. CASE Len(Left) = Len(Right)
  <2>1. /\ blocks' = MapBlocks(Left, Right) /\ Then(Pairs("block", Left, Right))
        /\ UNCHANGED <<phase, lhs, rhs, ops, values, cursor, asked, verdict, earlier>>
    BY <1>1 DEF MatchRegion
  <2>2. /\ phase = "structure" /\ todo \in Seq(InsideTask(lhs)) /\ todo # <<>>
        /\ Left \in Seq(Block) /\ Right \in Seq(Block)
        /\ ToSet(Left) \subseteq Inside(lhs)
        /\ \A v \in DOMAIN values : v[1] \in Inside(lhs)
    BY InsideOf DEF MatchRegion, InsideTask, Task, Left, Right
  <2>3. \A i \in 1..Len(Left) :
          [kind |-> "block", l |-> Left[i], r |-> Right[i]] \in InsideTask(lhs)
    <3>1. \A i \in 1..Len(Left) :
            Left[i] \in Block /\ Right[i] \in Block /\ Left[i] \in Inside(lhs)
      BY <1>1, <2>2, ElementOfSeq, LenProperties DEF ToSet
    <3> QED BY <3>1 DEF InsideTask, Task
  <2>4. todo' \in Seq(InsideTask(lhs))
    <3>1. Pairs("block", Left, Right) \in Seq(InsideTask(lhs))
      BY <1>1, <2>2, <2>3, PairsWithin
    <3> QED BY <2>1, <2>2, <3>1, ThenFits
  <2>5. ops # <<>> /\ ops[1] = <<lhs, rhs>>
    BY RootMatched DEF MatchRegion
  <2>6. LeftInside' /\ RootFirst' /\ RootPaired'
    BY <2>1, <2>2, <2>4, <2>5 DEF LeftInside, RootFirst, RootPaired
  <2> QED BY <2>1, <2>6, SameEqualHashes DEF HashInv
<1>2. CASE Len(Left) # Len(Right)
  BY <1>2, DifferentHash DEF MatchRegion
<1> QED BY <1>1, <1>2

LEMMA MatchBlockHash ==
  ASSUME OperandsOutside, HashInv, MatchBlock
  PROVE  LeftInside' /\ RootFirst' /\ RootPaired' /\ EqualHashes'
<1>1. CASE ArgTypes(Left) = ArgTypes(Right) /\ Len(Body[Left]) = Len(Body[Right])
  <2>1. /\ values' = MapValues(Left, Right, NumArgs[Left])
        /\ Then(Pairs("operation", Body[Left], Body[Right]))
        /\ UNCHANGED <<phase, lhs, rhs, ops, blocks, cursor, asked, verdict, earlier>>
    BY <1>1 DEF MatchBlock
  <2>2. /\ phase = "structure" /\ Encloses(lhs, Inside(lhs))
        /\ todo \in Seq(InsideTask(lhs)) /\ todo # <<>>
        /\ Left \in Block /\ Right \in Block /\ Left \in Inside(lhs)
        /\ \A v \in DOMAIN values : v[1] \in Inside(lhs)
    <3>1. Matching("block")
      BY DEF MatchBlock
    <3>2. PICK t : t = Head(todo)
      OBVIOUS
    <3>3. t \in InsideTask(lhs) /\ t.kind = "block"
      BY <3>1, <3>2, InsideOf
    <3>4. t \in Task /\ t.l \in Inside(lhs)
      BY <3>3 DEF InsideTask
    <3>5. t.l \in Block /\ t.r \in Block
      BY <3>3, <3>4 DEF Task
    <3> QED BY <3>1, <3>2, <3>4, <3>5, InsideOf DEF Left, Right
  <2>3. \A i \in 1..Len(Body[Left]) :
          [kind |-> "operation", l |-> Body[Left][i], r |-> Body[Right][i]]
            \in InsideTask(lhs)
    <3>1. Body[Left] \in Seq(Op) /\ Body[Right] \in Seq(Op)
          /\ ToSet(Body[Left]) \subseteq Inside(lhs)
      BY <2>2, ProgramFacts DEF Encloses
    <3>2. \A i \in 1..Len(Body[Left]) :
            Body[Left][i] \in Op /\ Body[Right][i] \in Op /\ Body[Left][i] \in Inside(lhs)
      BY <1>1, <3>1, ElementOfSeq, LenProperties DEF ToSet
    <3> QED BY <3>2 DEF InsideTask, Task
  <2>4. todo' \in Seq(InsideTask(lhs))
    <3>1. Pairs("operation", Body[Left], Body[Right]) \in Seq(InsideTask(lhs))
      BY <1>1, <2>2, <2>3, ProgramFacts, PairsWithin
    <3> QED BY <2>1, <2>2, <3>1, ThenFits
  <2>5. \A v \in DOMAIN values' : v[1] \in Inside(lhs)
    BY <2>1, <2>2 DEF MapValues
  <2>6. ops # <<>> /\ ops[1] = <<lhs, rhs>>
    BY RootMatched DEF MatchBlock
  <2>7. LeftInside' /\ RootFirst' /\ RootPaired'
    BY <2>1, <2>2, <2>4, <2>5, <2>6 DEF LeftInside, RootFirst, RootPaired
  <2> QED BY <2>1, <2>7, SameEqualHashes DEF HashInv
<1>2. CASE ~(ArgTypes(Left) = ArgTypes(Right) /\ Len(Body[Left]) = Len(Body[Right]))
  BY <1>2, DifferentHash DEF MatchBlock
<1> QED BY <1>1, <1>2

(* The third pass begins at the operations compared.                       *)
LEMMA CheckOperandsHash ==
  ASSUME OperandsOutside, HashInv, CheckOperands
  PROVE  LeftInside' /\ RootFirst' /\ RootPaired' /\ EqualHashes'
<1>1. CASE OperandsMatch
  <2>1. phase = "structure" /\ todo = <<>> /\ phase' = "operands"
        /\ UNCHANGED <<lhs, rhs, todo, ops, blocks, values, cursor, asked, verdict, earlier>>
    BY <1>1 DEF CheckOperands, checker
  <2>2. ops # <<>> /\ ops[1] = <<lhs, rhs>>
    BY <2>1 DEF HashInv, RootFirst
  <2>3. cursor = AtOp(1)
    BY <2>1 DEF HashInv, CheckInv, Fresh
  <2>4. \E f : Pairing(0, {}, f)
    <3> DEFINE f == [i \in {} |-> 0]
    <3>1. 1..0 = {}
      OBVIOUS
    <3>2. f \in [{} -> {}] /\ (\A a, b \in {} : f[a] = f[b] => a = b)
          /\ \A t \in {} : \E a \in {} : f[a] = t
      OBVIOUS
    <3>3. f \in Bijection({}, {})
      <4> HIDE DEF f
      <4> QED BY <3>2, Fun_IsBij
    <3> HIDE DEF f
    <3>4. Pairing(0, {}, f)
      BY <3>1, <3>3 DEF Pairing
    <3> QED BY <3>4
  <2>5. RootPaired'
    <3> PICK f : Pairing(0, {}, f)
      BY <2>4
    <3>1. Pairing(0, {}, f)'
      BY <2>1 DEF Pairing
    <3>2. cursor'.op = 1 /\ cursor'.operand - 1 = 0 /\ cursor'.used = {}
      BY <2>1, <2>3 DEF AtOp
    <3> QED BY <3>1, <3>2 DEF RootPaired
  <2>6. LeftInside' /\ RootFirst'
    BY <2>1, <2>2 DEF HashInv, LeftInside, RootFirst
  <2> QED BY <2>1, <2>5, <2>6, SameEqualHashes DEF HashInv
<1>2. CASE ~OperandsMatch
  BY <1>2, DifferentHash DEF CheckOperands
<1> QED BY <1>1, <1>2

(* Behind the operands of the operations compared, all are paired.         *)
LEMMA NextOperationHash ==
  ASSUME OperandsOutside, HashInv, NextOperation
  PROVE  LeftInside' /\ RootFirst' /\ RootPaired' /\ EqualHashes'
<1>1. /\ phase = "operands" /\ cursor.op <= Len(ops) /\ cursor' = AtOp(cursor.op + 1)
      /\ ~(cursor.operand <= Len(Operands[LeftOp]))
      /\ UNCHANGED <<phase, lhs, rhs, todo, ops, blocks, values, asked, verdict, earlier>>
  BY DEF NextOperation, InOperands
<1>2. CheckInv
  BY DEF HashInv
<1>3. ComputeHash(lhs) = ComputeHash(rhs)
  <2>1. CASE cursor.op = 1
    <3>1. LeftOp = lhs /\ RightOp = rhs
      BY <1>1, <2>1 DEF HashInv, RootFirst, LeftOp, RightOp
    <3>2. /\ lhs \in Op /\ rhs \in Op /\ SameOperation(lhs, rhs)
          /\ cursor.operand - 1 = Len(Operands[lhs])
      BY <1>1, <1>2, <3>1, AtOperands
    <3>3. cursor.used \subseteq DOMAIN Operands[rhs]
      BY <1>1, <1>2, <3>1 DEF CheckInv, CursorFits
    <3>4. PICK f : Pairing(cursor.operand - 1, cursor.used, f)
      BY <1>1, <2>1 DEF HashInv, RootPaired
    <3> QED BY <3>2, <3>3, <3>4, PairingHashes
  <2>2. CASE cursor.op # 1
    BY <1>1, <2>2 DEF HashInv, RootPaired
  <2> QED BY <2>1, <2>2
<1>4. cursor'.op # 1
  BY <1>1, <1>2 DEF AtOp, CheckInv, CursorFits
<1>5. RootPaired'
  BY <1>1, <1>3, <1>4 DEF RootPaired, ComputeHash, OperandHashes
<1>6. LeftInside' /\ RootFirst'
  BY <1>1 DEF HashInv, LeftInside, RootFirst
<1> QED BY <1>1, <1>5, <1>6, SameEqualHashes DEF HashInv

(* A match of two operands of the operations compared is from outside.     *)
LEMMA OperandPairs ==
  ASSUME OperandsOutside, HashInv, CompareOperand, cursor.op = 1,
         NEW j \in Nat, j = Min(Candidates),
         "equal" \in CompareValues(Operands[LeftOp][cursor.operand], Operands[RightOp][j])
  PROVE  \E g : Pairing(cursor.operand, cursor.used \cup {j}, g)
<1>1. /\ phase = "operands" /\ cursor.op <= Len(ops)
      /\ j \in Candidates /\ cursor.operand \in DOMAIN Operands[LeftOp]
  BY CandidateFits DEF HashInv
<1>2. LeftOp = lhs /\ RightOp = rhs
  BY <1>1 DEF HashInv, RootFirst, LeftOp, RightOp
<1>3. lhs \in Root /\ \A v \in DOMAIN values : v[1] \in Inside(lhs)
  BY <1>1 DEF HashInv, CheckInv, Fresh, LeftInside
<1>4. Operands[lhs][cursor.operand] \notin DOMAIN values
  BY <1>1, <1>2, <1>3, InsideApt DEF Apt
<1>5. HashEvaluatedValue(Operands[lhs][cursor.operand])
      = HashEvaluatedValue(Operands[rhs][j])
  BY <1>2, <1>4, EqualHash
<1>6. /\ cursor.operand \in Nat \ {0} /\ cursor.used \in SUBSET Nat
      /\ cursor.operand - 1 \in Nat /\ (cursor.operand - 1) + 1 = cursor.operand
  BY DEF HashInv, CheckInv, CursorFits
<1>7. IF IsCommutative(lhs) THEN j \notin cursor.used ELSE j = (cursor.operand - 1) + 1
  BY <1>1, <1>2, <1>6 DEF Candidates
<1>8. PICK f : Pairing(cursor.operand - 1, cursor.used, f)
  BY <1>1 DEF HashInv, RootPaired
<1>9. PICK n \in Nat : n = cursor.operand - 1
  BY <1>6
<1>10. \E g : Pairing(n + 1, cursor.used \cup {j}, g)
  BY <1>5, <1>6, <1>7, <1>8, <1>9, PairingExtends
<1> QED BY <1>6, <1>9, <1>10

LEMMA CompareOperandHash ==
  ASSUME OperandsOutside, HashInv, CompareOperand
  PROVE  LeftInside' /\ RootFirst' /\ RootPaired' /\ EqualHashes'
<1>1. PICK j : j = Min(Candidates)
  OBVIOUS
<1>2. CheckInv /\ cursor \in [op : Nat \ {0}, operand : Nat \ {0}, other : Nat,
                            used : SUBSET Nat]
  BY DEF HashInv, CheckInv, CursorFits
<1>3. phase = "operands" /\ j \in Nat
  BY <1>1, <1>2, CandidateFits
<1>4. UNCHANGED <<lhs, rhs>>
  BY <1>2, CompareOperandCases
<1>5. CASE phase' = "idle" /\ verdict' \in Signal
  <2>1. verdict' # "equal"
    BY <1>5, EquivalenceAssumption
  <2> QED BY <1>5, <2>1, EndsHash
<1>6. ASSUME UNCHANGED <<phase, verdict, todo, ops, blocks, values>>,
             cursor'.op = cursor.op,
             cursor.op = 1 =>
               \E f : Pairing(cursor'.operand - 1, cursor'.used, f)
      PROVE  LeftInside' /\ RootFirst' /\ RootPaired' /\ EqualHashes'
  <2>1. LeftInside' /\ RootFirst'
    BY <1>4, <1>6 DEF HashInv, LeftInside, RootFirst
  <2>2. CASE cursor.op = 1
    <3>1. PICK f : Pairing(cursor'.operand - 1, cursor'.used, f)
      BY <1>6, <2>2
    <3>2. lhs' = lhs /\ rhs' = rhs
      BY <1>4
    <3>3. RootPaired'
      BY <1>6, <2>2, <3>1, <3>2
         DEF RootPaired, Pairing
    <3> QED BY <1>4, <1>6, <2>1, <3>3, SameEqualHashes DEF HashInv
  <2>3. CASE cursor.op # 1
    <3>1. ComputeHash(lhs) = ComputeHash(rhs)
      BY <1>3, <2>3 DEF HashInv, RootPaired
    <3>2. RootPaired'
      BY <1>4, <1>6, <2>3, <3>1 DEF RootPaired, ComputeHash, OperandHashes
    <3> QED BY <1>4, <1>6, <2>1, <3>2, SameEqualHashes DEF HashInv
  <2> QED BY <2>2, <2>3
<1>7. CASE /\ cursor' = [cursor EXCEPT !.other = j + 1]
           /\ UNCHANGED <<phase, verdict, todo, ops, blocks, values>>
  <2>1. /\ cursor'.op = cursor.op /\ cursor'.operand = cursor.operand
        /\ cursor'.used = cursor.used
    BY <1>2, <1>7
  <2>2. cursor.op = 1 => \E f : Pairing(cursor.operand - 1, cursor.used, f)
    BY <1>3 DEF HashInv, RootPaired
  <2>3. cursor.op = 1 => \E f : Pairing(cursor'.operand - 1, cursor'.used, f)
    BY <2>1, <2>2
  <2> QED BY <1>6, <1>7, <2>1, <2>3
<1>8. CASE /\ "equal" \in CompareValues(Operands[LeftOp][cursor.operand],
                                        Operands[RightOp][j])
           /\ cursor' = [cursor EXCEPT !.operand = @ + 1, !.other = 1,
                                       !.used = @ \cup {j}]
           /\ UNCHANGED <<phase, verdict, todo, ops, blocks, values>>
  <2>1. /\ cursor'.op = cursor.op /\ cursor'.operand - 1 = cursor.operand
        /\ cursor'.used = cursor.used \cup {j}
    BY <1>2, <1>8
  <2>2. cursor.op = 1 => \E f : Pairing(cursor.operand, cursor.used \cup {j}, f)
    BY <1>1, <1>3, <1>8, OperandPairs
  <2>3. cursor.op = 1 => \E f : Pairing(cursor'.operand - 1, cursor'.used, f)
    BY <2>1, <2>2
  <2> QED BY <1>6, <1>8, <2>1, <2>3
<1> QED BY <1>1, <1>2, <1>5, <1>7, <1>8, CompareOperandCases

LEMMA AllEquivalentHash ==
  ASSUME HashInv, AllEquivalent
  PROVE  LeftInside' /\ RootFirst' /\ RootPaired' /\ EqualHashes'
<1>1. /\ phase = "operands" /\ cursor.op > Len(ops)
      /\ phase' = "idle" /\ UNCHANGED <<lhs, rhs>>
  BY DEF AllEquivalent, Finish
<1>2. cursor.op # 1
  <2>1. ops \in Seq(Op \X Op) /\ ops # <<>>
    BY <1>1 DEF HashInv, CheckInv, RootFirst
  <2>2. Len(ops) \in Nat /\ Len(ops) # 0
    BY <2>1, EmptySeq, LenProperties
  <2> QED BY <1>1, <2>2
<1>3. ComputeHash(lhs) = ComputeHash(rhs)
  BY <1>1, <1>2 DEF HashInv, RootPaired
<1>4. EqualHashes'
  BY <1>1, <1>3 DEF EqualHashes, ComputeHash, OperandHashes
<1> QED BY <1>1, <1>4 DEF LeftInside, RootFirst, RootPaired

LEMMA HashStep ==
  ASSUME OperandsOutside, HashInv, [Next]_vars
  PROVE  HashInv'
<1>1. CheckInv'
  BY CheckStep DEF HashInv
<1>2. LeftInside' /\ RootFirst' /\ RootPaired' /\ EqualHashes'
  <2>1. ASSUME NotFound  PROVE LeftInside' /\ RootFirst' /\ RootPaired' /\ EqualHashes'
    BY <2>1, DifferentHash DEF NotFound
  <2>2. CASE Compare
    BY <2>1, <2>2, MatchOperationHash, MatchRegionHash, MatchBlockHash,
       CheckOperandsHash, CompareOperandHash, NextOperationHash, AllEquivalentHash
       DEF Compare
  <2>3. CASE \E l, r \in Root : Start(l, r)
    BY <2>3, StartHash
  <2>4. CASE UNCHANGED vars
    <3>1. UNCHANGED <<phase, lhs, rhs, todo, ops, values, cursor, verdict>>
      BY <2>4 DEF vars, checker
    <3>2. LeftInside' /\ RootFirst' /\ EqualHashes'
      BY <3>1 DEF HashInv, LeftInside, RootFirst, EqualHashes
    <3>3. RootPaired'
      BY <3>1 DEF HashInv, RootPaired, Pairing, ComputeHash, OperandHashes
    <3> QED BY <3>2, <3>3
  <2> QED BY <2>2, <2>3, <2>4 DEF Next
<1> QED BY <1>1, <1>2 DEF HashInv

LEMMA HashInit ==
  ASSUME Init  PROVE HashInv
<1>1. CheckInv
  BY CheckInit
<1>2. phase = "idle" /\ verdict # "equal"
  BY EquivalenceAssumption DEF Init
<1> QED BY <1>1, <1>2 DEF HashInv, LeftInside, RootFirst, RootPaired, EqualHashes

(* Operations that a comparison finds equal hash equally                   *)
(* (EvaluableOpInterface.td:16), whatever the program, the order of the    *)
(* operands of commutative operations and the signals of the callback, as  *)
(* long as no operation compared uses a value from inside it.              *)
THEOREM EqualOperationsHashEqually ==
  ASSUME OperandsOutside  PROVE Spec => []EqualHashes
<1>1. Init => HashInv
  BY HashInit
<1>2. HashInv /\ [Next]_vars => HashInv'
  BY HashStep
<1>3. HashInv => EqualHashes
  BY DEF HashInv
<1> QED BY <1>1, <1>2, <1>3, PTL DEF Spec

(* A set with zero and the successor of each of its members is all of Nat. *)
LEMMA Counting ==
  ASSUME NEW S, 0 \in S, \A n \in Nat : n \in S => n + 1 \in S
  PROVE  Nat \subseteq S
<1> SUFFICES ASSUME Nat \ S # {} PROVE FALSE  OBVIOUS
<1> PICK x : x = Min(Nat \ S)  OBVIOUS
<1>1. x \in Nat \ S /\ \A y \in Nat \ S : x <= y
  <2> PICK T : T = Nat \ S  OBVIOUS
  <2>1. T \in SUBSET Nat /\ T # {}  OBVIOUS
  <2>2. Min(T) \in T /\ \A y \in T : Min(T) <= y  BY <2>1, LeastExists
  <2> QED  BY <2>2
<1>2. x # 0 /\ x - 1 \in Nat  BY <1>1
<1>3. x - 1 \in S  BY <1>1, <1>2
<1>4. (x - 1) + 1 = x  BY <1>1
<1> QED  BY <1>1, <1>2, <1>3, <1>4

-----------------------------------------------------------------------------
(* What is inside an operation.                                            *)

Deeper(S) == S \cup UNION {Nested(p) : p \in S}
Within(w, o, n) ==
  w = [d \in 0..n |-> IF d = 0 THEN {o} ELSE Deeper(w[d - 1])]

LEMMA NestedFacts ==
  ASSUME NEW o \in Op
  PROVE  /\ Nested(o) \subseteq Op
         /\ \A p : p \in Nested(o) <=>
              \E k \in DOMAIN Regions[o] : \E i \in DOMAIN Regions[o][k] :
                /\ Regions[o][k][i] \in Block
                /\ \E j \in DOMAIN Body[Regions[o][k][i]] : p = Body[Regions[o][k][i]][j]
<1>1. Regions[o] \in Seq(Seq(Block))  BY ProgramFacts
<1>2. \A k \in DOMAIN Regions[o] : Regions[o][k] \in Seq(Block)
  BY <1>1, ElementOfSeq, LenProperties
<1>3. \A k \in DOMAIN Regions[o] : \A i \in DOMAIN Regions[o][k] : Regions[o][k][i] \in Block
  BY <1>2, ElementOfSeq, LenProperties
<1>4. \A b \in Block : \A j \in DOMAIN Body[b] : Body[b][j] \in Op
  BY ProgramFacts, ElementOfSeq, LenProperties
<1>5. \A p : p \in Nested(o) <=>
        \E k \in DOMAIN Regions[o] : \E i \in DOMAIN Regions[o][k] :
          \E j \in DOMAIN Body[Regions[o][k][i]] : p = Body[Regions[o][k][i]][j]
  BY DEF Nested, ToSet
<1>6. Nested(o) \subseteq Op  BY <1>3, <1>4, <1>5
<1> HIDE DEF Nested
<1> QED  BY <1>3, <1>5, <1>6, Zenon

LEMMA WithinExists ==
  ASSUME NEW o, NEW n \in Nat
  PROVE  \E w : Within(w, o, n)
<1> DEFINE K == {m \in Nat : \E w : Within(w, o, m)}
<1>1. 0 \in K
  <2>1. Within([d \in 0..0 |-> {o}], o, 0)
    <3> DEFINE w == [d \in 0..0 |-> {o}]
    <3>1. \A d \in 0..0 : d = 0  OBVIOUS
    <3>2. w = [d \in 0..0 |-> IF d = 0 THEN {o} ELSE Deeper(w[d - 1])]  BY <3>1
    <3> QED  BY <3>2 DEF Within
  <2> QED  BY <2>1
<1>2. ASSUME NEW m \in Nat, m \in K PROVE m + 1 \in K
  <2>1. PICK w : Within(w, o, m)  BY <1>2
  <2> DEFINE u == [d \in 0..(m + 1) |-> IF d = m + 1 THEN Deeper(w[m]) ELSE w[d]]
  <2>2. ASSUME NEW d \in 0..(m + 1)
        PROVE  u[d] = IF d = 0 THEN {o} ELSE Deeper(u[d - 1])
    <3>1. CASE d = 0
      <4>1. d # m + 1 /\ 0 \in 0..m  BY <3>1
      <4>2. u[d] = w[0]  BY <3>1, <4>1
      <4>3. w[0] = {o}  BY <2>1, <4>1 DEF Within
      <4> QED  BY <3>1, <4>2, <4>3
    <3>2. CASE d = m + 1
      <4>1. d # 0 /\ d - 1 = m /\ m \in 0..(m + 1) /\ m # m + 1  BY <3>2
      <4>2. u[d - 1] = w[m]  BY <4>1
      <4> HIDE DEF Deeper
      <4>3. u[d] = Deeper(w[m])  BY <3>2
      <4> QED  BY <4>1, <4>2, <4>3
    <3>3. CASE d # 0 /\ d # m + 1
      <4>1. d \in 0..m /\ d - 1 \in 0..(m + 1) /\ d - 1 # m + 1  BY <3>3
      <4>2. u[d] = w[d] /\ u[d - 1] = w[d - 1]  BY <3>3, <4>1
      <4>3. w[d] = Deeper(w[d - 1])  BY <2>1, <3>3, <4>1 DEF Within
      <4> QED  BY <3>3, <4>2, <4>3
    <3> QED  BY <3>1, <3>2, <3>3
  <2>3. Within(u, o, m + 1)
    <3>1. u = [d \in 0..(m + 1) |-> u[d]]  OBVIOUS
    <3> HIDE DEF u
    <3>2. [d \in 0..(m + 1) |-> u[d]] =
            [d \in 0..(m + 1) |-> IF d = 0 THEN {o} ELSE Deeper(u[d - 1])]
      BY <2>2
    <3> QED  BY <3>1, <3>2 DEF Within
  <2> HIDE DEF u
  <2> QED  BY <2>3
<1> HIDE DEF K
<1>3. n \in K  BY <1>1, <1>2, Counting
<1> QED  BY <1>3 DEF K

Deepens(w, o, n) ==
  /\ n = Cardinality(Op) /\ OpsIn(o) = w[n] /\ w[0] = {o}
  /\ \A d \in Nat : d < n => w[d + 1] = Deeper(w[d])

LEMMA OpsInWithin ==
  ASSUME NEW o
  PROVE  \E n \in Nat : \E w : Deepens(w, o, n)
<1> PICK n : n = Cardinality(Op)  OBVIOUS
<1>1. n \in Nat  BY NestingAssumption, FS_CardinalityType
<1> DEFINE W == CHOOSE w : Within(w, o, n)
<1>2. OpsIn(o) = W[n]  BY Zenon DEF OpsIn, Within, Deeper
<1>3. Within(W, o, n)  BY <1>1, WithinExists
<1> PICK w : w = W  OBVIOUS
<1>4. w[0] = {o}
  <2>1. Within(w, o, n) /\ 0 \in 0..n  BY <1>1, <1>3
  <2> HIDE DEF W
  <2> QED  BY <2>1 DEF Within
<1>5. ASSUME NEW d \in Nat, d < n PROVE w[d + 1] = Deeper(w[d])
  <2>1. d + 1 \in 0..n /\ d + 1 # 0 /\ (d + 1) - 1 = d  BY <1>1, <1>5
  <2>2. Within(w, o, n)  BY <1>3
  <2>3. w[d + 1] = IF d + 1 = 0 THEN {o} ELSE Deeper(w[(d + 1) - 1])
    BY <2>1, <2>2 DEF Within
  <2> QED  BY <2>1, <2>3
<1>6. OpsIn(o) = w[n]  BY <1>2
<1> HIDE DEF W
<1>7. Deepens(w, o, n)  BY <1>4, <1>5, <1>6 DEF Deepens
<1> QED  BY <1>1, <1>7

Closed(S) == \A p \in S : Nested(p) \subseteq S

(* All that is inside is the least set that has the operation and what is  *)
(* nested in its members: the depth of a program is bounded by its size.   *)
LEMMA OpsInLeast ==
  ASSUME NEW o, NEW S, o \in S, Closed(S)
  PROVE  OpsIn(o) \subseteq S
<1>1. PICK n \in Nat : \E w : Deepens(w, o, n)  BY OpsInWithin
<1>2. PICK w : /\ OpsIn(o) = w[n] /\ w[0] = {o}
               /\ \A d \in Nat : d < n => w[d + 1] = Deeper(w[d])
  BY <1>1 DEF Deepens
<1> DEFINE K == {d \in Nat : d <= n => w[d] \subseteq S}
<1>3. 0 \in K  BY <1>2
<1>4. ASSUME NEW d \in Nat, d \in K PROVE d + 1 \in K
  <2>1. SUFFICES ASSUME d + 1 <= n PROVE w[d + 1] \subseteq S  OBVIOUS
  <2>2. d < n /\ d <= n  BY <1>1, <2>1
  <2>3. w[d + 1] = Deeper(w[d])  BY <1>2, <2>2
  <2>4. w[d] \subseteq S  BY <1>4, <2>2
  <2> QED  BY <2>3, <2>4 DEF Deeper, Closed
<1> HIDE DEF K
<1>5. n \in K  BY <1>1, <1>3, <1>4, Counting
<1> QED  BY <1>1, <1>2, <1>5 DEF K

LEMMA OpsInFacts ==
  ASSUME NEW o \in Op
  PROVE  o \in OpsIn(o) /\ OpsIn(o) \subseteq Op /\ Closed(OpsIn(o))
<1>0. PICK n \in Nat : \E w : Deepens(w, o, n)  BY OpsInWithin
<1>1. n = Cardinality(Op) /\ n \in Nat /\ IsFiniteSet(Op)
  BY <1>0, NestingAssumption DEF Deepens
<1>2. PICK w : /\ OpsIn(o) = w[n] /\ w[0] = {o}
               /\ \A d \in Nat : d < n => w[d + 1] = Deeper(w[d])
  BY <1>0 DEF Deepens
<1>3. OpsIn(o) \subseteq Op
  <2>1. Closed(Op)  BY NestedFacts DEF Closed
  <2> QED  BY <2>1, OpsInLeast
<1> DEFINE Grown(d) == o \in w[d] /\ w[d] \subseteq Op
           K == {d \in Nat : d <= n => Grown(d)}
<1>4. \A d \in Nat : d <= n => Grown(d)
  <2>1. 0 \in K  BY <1>2
  <2>2. ASSUME NEW d \in Nat, d \in K PROVE d + 1 \in K
    <3>1. SUFFICES ASSUME d + 1 <= n PROVE Grown(d + 1)  OBVIOUS
    <3>2. d < n /\ d <= n  BY <1>1, <3>1
    <3>3. w[d + 1] = Deeper(w[d])  BY <1>2, <3>2
    <3>4. o \in w[d] /\ w[d] \subseteq Op  BY <2>2, <3>2
    <3> QED  BY <3>3, <3>4, NestedFacts DEF Deeper
  <2>3. Nat \subseteq K
    <3> HIDE DEF K
    <3> QED  BY <2>1, <2>2, Counting
  <2> QED  BY <2>3
<1>5. \E d \in Nat : d <= n /\ Closed(w[d])
  <2> SUFFICES ASSUME \A d \in Nat : d <= n => ~Closed(w[d]) PROVE FALSE  OBVIOUS
  <2> DEFINE L == {d \in Nat : d <= n => Cardinality(w[d]) >= d + 1}
  <2>1. 0 \in L
    <3>1. Cardinality({o}) = 1  BY FS_Singleton
    <3> QED  BY <1>2, <3>1
  <2>2. ASSUME NEW d \in Nat, d \in L PROVE d + 1 \in L
    <3>1. SUFFICES ASSUME d + 1 <= n PROVE Cardinality(w[d + 1]) >= (d + 1) + 1  OBVIOUS
    <3>2. d < n /\ d <= n  BY <1>1, <3>1
    <3>3. w[d + 1] = Deeper(w[d])  BY <1>2, <3>2
    <3>4. w[d] \subseteq w[d + 1] /\ w[d] # w[d + 1]
      <4>1. PICK p \in w[d] : ~(Nested(p) \subseteq w[d])  BY <3>2 DEF Closed
      <4>2. Nested(p) \subseteq w[d + 1]  BY <3>3, <4>1 DEF Deeper
      <4>3. w[d] \subseteq w[d + 1]  BY <3>3 DEF Deeper
      <4> QED  BY <4>1, <4>2, <4>3
    <3>5. IsFiniteSet(w[d + 1])  BY <1>1, <1>4, <3>1, FS_Subset
    <3> PICK x, y : x = Cardinality(w[d]) /\ y = Cardinality(w[d + 1])  OBVIOUS
    <3>6. x < y /\ x \in Nat /\ y \in Nat
      <4>1. IsFiniteSet(w[d])  BY <3>4, <3>5, FS_Subset
      <4> QED  BY <3>4, <3>5, <4>1, FS_Subset, FS_CardinalityType
    <3>7. x >= d + 1  BY <2>2, <3>2
    <3> QED  BY <3>6, <3>7
  <2>3. Nat \subseteq L
    <3> HIDE DEF L
    <3> QED  BY <2>1, <2>2, Counting
  <2>4. Cardinality(w[n]) >= n + 1  BY <1>1, <2>3
  <2>5. Cardinality(w[n]) <= n  BY <1>1, <1>4, FS_Subset
  <2>6. Cardinality(w[n]) \in Nat  BY <1>1, <1>4, FS_Subset, FS_CardinalityType
  <2> QED  BY <1>1, <2>4, <2>5, <2>6
<1>6. PICK m \in Nat : m <= n /\ Closed(w[m])  BY <1>5
<1> DEFINE J == {d \in Nat : m <= d /\ d <= n => w[d] = w[m]}
<1>7. Nat \subseteq J
  <2>1. 0 \in J
    <3>1. m <= 0 => m = 0  BY <1>6
    <3> QED  BY <3>1
  <2>2. ASSUME NEW d \in Nat, d \in J PROVE d + 1 \in J
    <3>1. SUFFICES ASSUME m <= d + 1, d + 1 <= n PROVE w[d + 1] = w[m]  OBVIOUS
    <3>2. CASE m = d + 1  BY <3>2
    <3>3. CASE m # d + 1
      <4>1. m <= d /\ d <= n /\ d < n  BY <1>1, <1>6, <3>1, <3>3
      <4>2. w[d] = w[m]  BY <2>2, <4>1
      <4>3. w[d + 1] = Deeper(w[m])  BY <1>2, <4>1, <4>2
      <4> QED  BY <1>6, <4>3 DEF Closed, Deeper
    <3> QED  BY <3>2, <3>3
  <2> HIDE DEF J
  <2> QED  BY <2>1, <2>2, Counting
<1>8. w[n] = w[m]  BY <1>1, <1>6, <1>7
<1> QED  BY <1>1, <1>2, <1>3, <1>4, <1>6, <1>8
-----------------------------------------------------------------------------
(* The parts of an operation: what is inside of its regions, their blocks  *)
(* and the operations of these is apart from each other.                   *)

OpPart(o) == OpsIn(o) \cup BlocksIn(o)
BlockPart(b) == {b} \cup UNION {OpPart(p) : p \in ToSet(Body[b])}
RegionPart(r) == UNION {BlockPart(b) : b \in ToSet(r)}

IsBlockOf(b, o) ==
  \E k \in DOMAIN Regions[o] : \E i \in DOMAIN Regions[o][k] : b = Regions[o][k][i]

LEMMA BlockFacts ==
  ASSUME NEW o \in Op
  PROVE  /\ \A k \in DOMAIN Regions[o] : \A i \in DOMAIN Regions[o][k] :
              Regions[o][k][i] \in Block
         /\ \A b : IsBlockOf(b, o) => b \in Block
         /\ \A b : b \in BlocksIn(o) <=> \E p \in OpsIn(o) : IsBlockOf(b, p)
         /\ \A p : p \in Nested(o) <=>
              \E b : IsBlockOf(b, o) /\ \E j \in DOMAIN Body[b] : p = Body[b][j]
<1>1. \A k \in DOMAIN Regions[o] : Regions[o][k] \in Seq(Block)
  BY ProgramFacts, ElementOfSeq, LenProperties
<1>2. \A k \in DOMAIN Regions[o] : \A i \in DOMAIN Regions[o][k] : Regions[o][k][i] \in Block
  BY <1>1, ElementOfSeq, LenProperties
<1>3. \A b : IsBlockOf(b, o) => b \in Block  BY <1>2 DEF IsBlockOf
<1>4. \A b : b \in BlocksIn(o) <=> \E p \in OpsIn(o) : IsBlockOf(b, p)
  BY DEF BlocksIn, ToSet, IsBlockOf
<1>5. \A p : p \in Nested(o) <=>
        \E b : IsBlockOf(b, o) /\ \E j \in DOMAIN Body[b] : p = Body[b][j]
  BY DEF Nested, ToSet, IsBlockOf
<1> QED  BY <1>2, <1>3, <1>4, <1>5

(* A block is of one operation, and an operation nested in one.            *)
LEMMA OneParent ==
  ASSUME NEW o \in Op, NEW p \in Op
  PROVE  /\ \A b : IsBlockOf(b, o) /\ IsBlockOf(b, p) => o = p
         /\ Nested(o) \cap Nested(p) # {} => o = p
<1>1. NestsOnce  BY NestingAssumption
<1>2. ASSUME NEW b, IsBlockOf(b, o), IsBlockOf(b, p) PROVE o = p
  <2>1. PICK k \in DOMAIN Regions[o] : \E i \in DOMAIN Regions[o][k] : b = Regions[o][k][i]
    BY <1>2 DEF IsBlockOf
  <2>2. PICK m \in DOMAIN Regions[p] : \E j \in DOMAIN Regions[p][m] : b = Regions[p][m][j]
    BY <1>2 DEF IsBlockOf
  <2>3. PICK i \in DOMAIN Regions[o][k] : b = Regions[o][k][i]  BY <2>1
  <2>4. PICK j \in DOMAIN Regions[p][m] : b = Regions[p][m][j]  BY <2>2
  <2>5. Regions[o][k][i] = Regions[p][m][j]  BY <2>3, <2>4
  <2> QED  BY <1>1, <2>5 DEF NestsOnce
<1>3. ASSUME NEW q, q \in Nested(o), q \in Nested(p) PROVE o = p
  <2>1. PICK b : IsBlockOf(b, o) /\ \E j \in DOMAIN Body[b] : q = Body[b][j]
    BY <1>3, BlockFacts
  <2>2. PICK c : IsBlockOf(c, p) /\ \E j \in DOMAIN Body[c] : q = Body[c][j]
    BY <1>3, BlockFacts
  <2>3. b \in Block /\ c \in Block  BY <2>1, <2>2, BlockFacts
  <2>4. b = c  BY <1>1, <2>1, <2>2, <2>3 DEF NestsOnce
  <2> QED  BY <1>2, <2>1, <2>2, <2>4
<1> QED  BY <1>2, <1>3

LEMMA OpsInUnfold ==
  ASSUME NEW o \in Op
  PROVE  /\ OpsIn(o) = {o} \cup UNION {OpsIn(p) : p \in Nested(o)}
         /\ \A y \in OpsIn(o) : y # o => \E z \in OpsIn(o) : y \in Nested(z)
<1> DEFINE S == {o} \cup UNION {OpsIn(p) : p \in Nested(o)}
           T == {y \in OpsIn(o) : y = o \/ \E z \in OpsIn(o) : y \in Nested(z)}
<1>1. o \in OpsIn(o) /\ OpsIn(o) \subseteq Op /\ Closed(OpsIn(o))  BY OpsInFacts
<1>2. Nested(o) \subseteq Op  BY NestedFacts
<1>3. \A p \in Nested(o) : p \in OpsIn(p) /\ Closed(OpsIn(p))  BY <1>2, OpsInFacts
<1>4. OpsIn(o) \subseteq S
  <2>1. Closed(S)  BY <1>3 DEF Closed
  <2> QED  BY <2>1, OpsInLeast
<1>5. S \subseteq OpsIn(o)
  <2>1. \A p \in Nested(o) : OpsIn(p) \subseteq OpsIn(o)
    BY <1>1, OpsInLeast DEF Closed
  <2> QED  BY <1>1, <2>1
<1>6. OpsIn(o) \subseteq T
  <2>1. Closed(T)  BY <1>1 DEF Closed
  <2> QED  BY <1>1, <2>1, OpsInLeast
<1> QED  BY <1>4, <1>5, <1>6

(* Two operations of which neither is inside the other have nothing inside *)
(* of both.                                                                *)
LEMMA NeitherInside ==
  ASSUME NEW p \in Op, NEW q \in Op, p \notin OpsIn(q), q \notin OpsIn(p)
  PROVE  OpPart(p) \cap OpPart(q) = {}
<1>1. /\ p \in OpsIn(p) /\ OpsIn(p) \subseteq Op /\ Closed(OpsIn(p))
      /\ q \in OpsIn(q) /\ OpsIn(q) \subseteq Op
  BY OpsInFacts
<1> DEFINE S == OpsIn(p) \ OpsIn(q)
<1>2. Closed(S)
  <2> SUFFICES ASSUME NEW x \in S, NEW y \in Nested(x) PROVE y \in S  BY DEF Closed
  <2>1. x \in OpsIn(p) /\ x \in Op /\ y \in OpsIn(p)  BY <1>1 DEF Closed
  <2>2. ASSUME y \in OpsIn(q) PROVE FALSE
    <3>1. y # q  BY <2>1
    <3>2. PICK z \in OpsIn(q) : y \in Nested(z)  BY <2>2, <3>1, OpsInUnfold
    <3>3. z = x  BY <1>1, <2>1, <3>2, OneParent
    <3> QED  BY <3>2, <3>3
  <2> QED  BY <2>1, <2>2
<1>3. OpsIn(p) \subseteq S  BY <1>1, <1>2, OpsInLeast
<1>4. OpsIn(p) \cap OpsIn(q) = {}  BY <1>3
<1>5. ASSUME NEW b, b \in BlocksIn(p), b \in BlocksIn(q) PROVE FALSE
  <2>1. PICK x \in OpsIn(p) : IsBlockOf(b, x)  BY <1>5, BlockFacts
  <2>2. PICK y \in OpsIn(q) : IsBlockOf(b, y)  BY <1>5, BlockFacts
  <2>3. x = y  BY <1>1, <2>1, <2>2, OneParent
  <2> QED  BY <1>4, <2>1, <2>2, <2>3
<1>6. BlocksIn(p) \subseteq Block /\ BlocksIn(q) \subseteq Block
  BY <1>1, BlockFacts
<1>7. Op \cap Block = {}  BY NestingAssumption
<1> QED  BY <1>1, <1>4, <1>5, <1>6, <1>7 DEF OpPart

LEMMA NestedApart ==
  ASSUME NEW o \in Op, NEW p \in Nested(o)
  PROVE  /\ p \in Op /\ o \notin OpPart(p)
         /\ \A b : IsBlockOf(b, o) => b \notin OpPart(p)
         /\ \A q \in Nested(o) : q # p => OpPart(p) \cap OpPart(q) = {}
<1>1. Nested(o) \subseteq Op  BY NestedFacts
<1>2. \A q \in Nested(o) : o \notin OpsIn(q)  BY NestingAssumption DEF NestsOnce
<1>3. Op \cap Block = {}  BY NestingAssumption
<1>4. \A b \in BlocksIn(p) : b \in Block
  BY <1>1, BlockFacts, OpsInFacts
<1>5. \A b : IsBlockOf(b, o) => b \notin OpPart(p)
  <2> SUFFICES ASSUME NEW b, IsBlockOf(b, o), b \in OpPart(p) PROVE FALSE  OBVIOUS
  <2>1. b \in Block  BY BlockFacts
  <2>2. b \in BlocksIn(p)  BY <1>1, <1>3, <2>1, OpsInFacts DEF OpPart
  <2>3. PICK x \in OpsIn(p) : IsBlockOf(b, x)  BY <1>1, <2>2, BlockFacts
  <2>4. x = o  BY <1>1, <2>3, OneParent, OpsInFacts
  <2> QED  BY <1>2, <2>3, <2>4
<1>6. ASSUME NEW q \in Nested(o), NEW r \in Nested(o), q # r PROVE q \notin OpsIn(r)
  <2> SUFFICES ASSUME q \in OpsIn(r) PROVE FALSE  OBVIOUS
  <2>1. PICK z \in OpsIn(r) : q \in Nested(z)  BY <1>1, <1>6, OpsInUnfold
  <2>2. z = o  BY <1>1, <2>1, OneParent, OpsInFacts
  <2> QED  BY <1>2, <2>1, <2>2
<1>7. \A q \in Nested(o) : q # p => OpPart(p) \cap OpPart(q) = {}
  BY <1>1, <1>6, NeitherInside
<1> QED  BY <1>1, <1>2, <1>3, <1>4, <1>5, <1>7 DEF OpPart

LEMMA BlocksApart ==
  ASSUME NEW o \in Op, NEW k \in DOMAIN Regions[o], NEW m \in DOMAIN Regions[o],
         NEW i \in DOMAIN Regions[o][k], NEW j \in DOMAIN Regions[o][m],
         k # m \/ i # j
  PROVE  BlockPart(Regions[o][k][i]) \cap BlockPart(Regions[o][m][j]) = {}
<1> PICK b, c : b = Regions[o][k][i] /\ c = Regions[o][m][j]  OBVIOUS
<1>1. IsBlockOf(b, o) /\ IsBlockOf(c, o) /\ b \in Block /\ c \in Block
  BY BlockFacts DEF IsBlockOf
<1>2. b # c  BY NestingAssumption DEF NestsOnce
<1>3. /\ \A p \in ToSet(Body[b]) : p \in Nested(o)
      /\ \A p \in ToSet(Body[c]) : p \in Nested(o)
  BY <1>1, BlockFacts DEF ToSet
<1>4. ToSet(Body[b]) \cap ToSet(Body[c]) = {}
  BY <1>1, <1>2, NestingAssumption DEF NestsOnce, ToSet
<1>5. \A p \in ToSet(Body[b]) : \A q \in ToSet(Body[c]) : OpPart(p) \cap OpPart(q) = {}
  <2> SUFFICES ASSUME NEW p \in ToSet(Body[b]), NEW q \in ToSet(Body[c])
               PROVE  OpPart(p) \cap OpPart(q) = {}
    OBVIOUS
  <2>1. p # q  BY <1>4
  <2> QED  BY <1>3, <2>1, NestedApart
<1>6. /\ \A p \in ToSet(Body[b]) : c \notin OpPart(p)
      /\ \A p \in ToSet(Body[c]) : b \notin OpPart(p)
  BY <1>1, <1>3, NestedApart
<1> QED  BY <1>2, <1>5, <1>6 DEF BlockPart

(* An operation and its regions, a block and its operations.               *)
LEMMA OpDivides ==
  ASSUME NEW o \in Op
  PROVE  /\ OpPart(o) = {o} \cup UNION {RegionPart(Regions[o][k]) : k \in DOMAIN Regions[o]}
         /\ \A k \in DOMAIN Regions[o] : o \notin RegionPart(Regions[o][k])
         /\ \A k, m \in DOMAIN Regions[o] :
              k # m => RegionPart(Regions[o][k]) \cap RegionPart(Regions[o][m]) = {}
<1>1. \A x : x \in OpPart(o) <=>
        x = o \/ \E k \in DOMAIN Regions[o] : x \in RegionPart(Regions[o][k])
  <2>1. \A x : x \in OpsIn(o) <=>
          x = o \/ \E b : IsBlockOf(b, o) /\ \E p \in ToSet(Body[b]) : x \in OpsIn(p)
    BY OpsInUnfold, BlockFacts DEF ToSet
  <2>2. \A b : IsBlockOf(b, o) => \A p \in ToSet(Body[b]) : p \in Op
    BY BlockFacts, NestedFacts DEF ToSet
  <2>3. \A x : x \in BlocksIn(o) <=>
          \/ IsBlockOf(x, o)
          \/ \E b : IsBlockOf(b, o) /\ \E p \in ToSet(Body[b]) : x \in BlocksIn(p)
    BY <2>1, <2>2, BlockFacts
  <2>4. \A x : x \in OpPart(o) <=>
          x = o \/ \E b : IsBlockOf(b, o) /\ x \in BlockPart(b)
    BY <2>1, <2>3 DEF OpPart, BlockPart
  <2>5. \A x : (\E b : IsBlockOf(b, o) /\ x \in BlockPart(b)) <=>
               \E k \in DOMAIN Regions[o] : x \in RegionPart(Regions[o][k])
    BY DEF IsBlockOf, RegionPart, ToSet
  <2> QED  BY <2>4, <2>5
<1>2. ASSUME NEW k \in DOMAIN Regions[o], o \in RegionPart(Regions[o][k]) PROVE FALSE
  <2>1. PICK b : IsBlockOf(b, o) /\ o \in BlockPart(b)
    BY <1>2 DEF IsBlockOf, RegionPart, ToSet
  <2>2. b # o  BY <2>1, BlockFacts, NestingAssumption
  <2>3. PICK p \in ToSet(Body[b]) : o \in OpPart(p)  BY <2>1, <2>2 DEF BlockPart
  <2>4. p \in Nested(o)  BY <2>1, BlockFacts DEF ToSet
  <2> QED  BY <2>3, <2>4, NestedApart
<1>3. \A k, m \in DOMAIN Regions[o] :
        k # m => RegionPart(Regions[o][k]) \cap RegionPart(Regions[o][m]) = {}
  BY BlocksApart DEF RegionPart, ToSet
<1>4. OpPart(o) = {o} \cup UNION {RegionPart(Regions[o][k]) : k \in DOMAIN Regions[o]}
  BY <1>1
<1> QED  BY <1>2, <1>3, <1>4

LEMMA BlockDivides ==
  ASSUME NEW o \in Op, NEW b, IsBlockOf(b, o)
  PROVE  /\ BlockPart(b) = {b} \cup UNION {OpPart(Body[b][j]) : j \in DOMAIN Body[b]}
         /\ \A j \in DOMAIN Body[b] : b \notin OpPart(Body[b][j])
         /\ \A i, j \in DOMAIN Body[b] :
              i # j => OpPart(Body[b][i]) \cap OpPart(Body[b][j]) = {}
<1>1. b \in Block /\ \A j \in DOMAIN Body[b] : Body[b][j] \in Nested(o)
  BY BlockFacts
<1>2. \A i, j \in DOMAIN Body[b] : i # j => Body[b][i] # Body[b][j]
  BY <1>1, NestingAssumption DEF NestsOnce
<1>3. \A i, j \in DOMAIN Body[b] :
        i # j => OpPart(Body[b][i]) \cap OpPart(Body[b][j]) = {}
  BY <1>1, <1>2, NestedApart
<1>4. \A j \in DOMAIN Body[b] : b \notin OpPart(Body[b][j])
  BY <1>1, NestedApart
<1> QED  BY <1>3, <1>4 DEF BlockPart, ToSet

LEMMA RegionDivides ==
  ASSUME NEW o \in Op, NEW k \in DOMAIN Regions[o]
  PROVE  /\ RegionPart(Regions[o][k]) =
              UNION {BlockPart(Regions[o][k][i]) : i \in DOMAIN Regions[o][k]}
         /\ \A i, j \in DOMAIN Regions[o][k] :
              i # j => BlockPart(Regions[o][k][i]) \cap BlockPart(Regions[o][k][j]) = {}
BY BlocksApart DEF RegionPart, ToSet

-----------------------------------------------------------------------------
(* Sets listed in a sequence, apart from each other and from what is done. *)
Divides(s, done, whole) ==
  /\ whole = done \cup UNION {s[i] : i \in DOMAIN s}
  /\ \A i \in DOMAIN s : s[i] \cap done = {}
  /\ \A i, j \in DOMAIN s : i # j => s[i] \cap s[j] = {}

(* When the first of them is divided, its part e is done and the rest left.*)
LEMMA DivideFirst ==
  ASSUME NEW T, NEW s \in Seq(T), s # <<>>, NEW done, NEW whole, Divides(s, done, whole),
         NEW e, NEW new \in Seq(T), Divides(new, e, Head(s))
  PROVE  Divides(new \o Tail(s), done \cup e, whole)
<1> DEFINE u == new \o Tail(s)
<1>1. /\ Len(s) \in Nat \ {0} /\ Len(new) \in Nat /\ Head(s) = s[1]
      /\ Len(Tail(s)) = Len(s) - 1 /\ Tail(s) \in Seq(T)
      /\ \A i \in 1..(Len(s) - 1) : Tail(s)[i] = s[i + 1]
      /\ DOMAIN s = 1..Len(s) /\ DOMAIN new = 1..Len(new)
  BY HeadTailProperties, LenProperties, EmptySeq
<1>2. /\ DOMAIN u = 1..(Len(new) + Len(s) - 1)
      /\ \A i \in DOMAIN new : i \in DOMAIN u /\ u[i] = new[i]
      /\ \A i \in DOMAIN u : i \notin DOMAIN new =>
           /\ i - Len(new) + 1 \in DOMAIN s /\ i - Len(new) + 1 # 1
           /\ u[i] = s[i - Len(new) + 1]
      /\ \A i \in DOMAIN s : i # 1 =>
           Len(new) + i - 1 \in DOMAIN u /\ u[Len(new) + i - 1] = s[i]
  <2>1. /\ u \in Seq(T) /\ Len(u) = Len(new) + Len(s) - 1
        /\ \A i \in 1..Len(u) : u[i] = IF i <= Len(new) THEN new[i]
                                       ELSE Tail(s)[i - Len(new)]
    BY <1>1, ConcatProperties
  <2>2. DOMAIN u = 1..(Len(new) + Len(s) - 1)  BY <2>1, LenProperties
  <2> HIDE DEF u
  <2>3. ASSUME NEW i \in DOMAIN new PROVE i \in DOMAIN u /\ u[i] = new[i]
    <3>1. i \in 1..Len(u) /\ i <= Len(new)  BY <1>1, <2>1, <2>3
    <3> QED  BY <2>1, <3>1, <2>2
  <2>4. ASSUME NEW i \in DOMAIN u, i \notin DOMAIN new
        PROVE  /\ i - Len(new) + 1 \in DOMAIN s /\ i - Len(new) + 1 # 1
               /\ u[i] = s[i - Len(new) + 1]
    <3>1. i \in 1..Len(u) /\ ~(i <= Len(new)) /\ i - Len(new) \in 1..(Len(s) - 1)
      BY <1>1, <2>1, <2>2, <2>4
    <3>2. u[i] = Tail(s)[i - Len(new)]  BY <2>1, <3>1
    <3> QED  BY <1>1, <3>1, <3>2
  <2>5. ASSUME NEW i \in DOMAIN s, i # 1
        PROVE  Len(new) + i - 1 \in DOMAIN u /\ u[Len(new) + i - 1] = s[i]
    <3> PICK n : n = Len(new) + i - 1  OBVIOUS
    <3>1. /\ n \in 1..Len(u) /\ ~(n <= Len(new)) /\ n - Len(new) = i - 1
          /\ i - 1 \in 1..(Len(s) - 1) /\ (i - 1) + 1 = i
      BY <1>1, <2>1, <2>5
    <3>2. u[n] = Tail(s)[i - 1]  BY <2>1, <3>1
    <3> QED  BY <1>1, <2>1, <2>2, <3>1, <3>2
  <2> QED  BY <2>2, <2>3, <2>4, <2>5
<1> HIDE DEF u
<1>3. /\ s[1] = e \cup UNION {new[i] : i \in DOMAIN new}
      /\ \A i \in DOMAIN new : new[i] \cap e = {} /\ new[i] \subseteq s[1]
      /\ e \subseteq s[1]
      /\ \A i, j \in DOMAIN new : i # j => new[i] \cap new[j] = {}
  BY <1>1 DEF Divides
<1>4. /\ whole = done \cup UNION {s[i] : i \in DOMAIN s}
      /\ \A i \in DOMAIN s : s[i] \cap done = {}
      /\ \A i, j \in DOMAIN s : i # j => s[i] \cap s[j] = {}
      /\ 1 \in DOMAIN s
  BY <1>1 DEF Divides
<1>5. \A x : x \in whole <=> x \in done \cup e \/ \E i \in DOMAIN u : x \in u[i]
  <2>1. ASSUME NEW x, NEW i \in DOMAIN s, x \in s[i]
        PROVE  x \in e \/ \E n \in DOMAIN u : x \in u[n]
    <3>1. CASE i = 1  BY <1>2, <1>3, <2>1, <3>1
    <3>2. CASE i # 1  BY <1>2, <2>1, <3>2
    <3> QED  BY <3>1, <3>2
  <2>2. ASSUME NEW x, NEW i \in DOMAIN u, x \in u[i]
        PROVE  \E n \in DOMAIN s : x \in s[n]
    <3>1. CASE i \in DOMAIN new  BY <1>2, <1>3, <1>4, <2>2, <3>1
    <3>2. CASE i \notin DOMAIN new  BY <1>2, <2>2, <3>2
    <3> QED  BY <3>1, <3>2
  <2>3. \A x \in e : \E n \in DOMAIN s : x \in s[n]  BY <1>3, <1>4
  <2> QED  BY <1>4, <2>1, <2>2, <2>3
<1>6. \A i \in DOMAIN u : u[i] \cap (done \cup e) = {}
  <2> SUFFICES ASSUME NEW i \in DOMAIN u PROVE u[i] \cap (done \cup e) = {}  OBVIOUS
  <2>1. CASE i \in DOMAIN new
    <3>1. u[i] = new[i] /\ new[i] \subseteq s[1] /\ new[i] \cap e = {}  BY <1>2, <1>3, <2>1
    <3> QED  BY <1>4, <3>1
  <2>2. CASE i \notin DOMAIN new
    <3>1. PICK n \in DOMAIN s : n # 1 /\ u[i] = s[n]  BY <1>2, <2>2
    <3>2. s[n] \cap done = {} /\ s[n] \cap s[1] = {}  BY <1>4, <3>1
    <3> QED  BY <1>3, <3>1, <3>2
  <2> QED  BY <2>1, <2>2
<1>7. ASSUME NEW i \in DOMAIN u, NEW j \in DOMAIN u, i # j PROVE u[i] \cap u[j] = {}
  <2>1. CASE i \in DOMAIN new /\ j \in DOMAIN new  BY <1>2, <1>3, <1>7, <2>1
  <2>2. CASE i \in DOMAIN new /\ j \notin DOMAIN new
    <3>1. u[i] \subseteq s[1]  BY <1>2, <1>3, <2>2
    <3>2. PICK n \in DOMAIN s : n # 1 /\ u[j] = s[n]  BY <1>2, <2>2
    <3> QED  BY <1>4, <3>1, <3>2
  <2>3. CASE i \notin DOMAIN new /\ j \in DOMAIN new
    <3>1. u[j] \subseteq s[1]  BY <1>2, <1>3, <2>3
    <3>2. PICK n \in DOMAIN s : n # 1 /\ u[i] = s[n]  BY <1>2, <2>3
    <3> QED  BY <1>4, <3>1, <3>2
  <2>4. CASE i \notin DOMAIN new /\ j \notin DOMAIN new
    <3> PICK n, m : n = i - Len(new) + 1 /\ m = j - Len(new) + 1  OBVIOUS
    <3>1. n \in DOMAIN s /\ m \in DOMAIN s /\ u[i] = s[n] /\ u[j] = s[m]
      BY <1>2, <2>4
    <3>2. n # m
      <4>1. i \in Nat /\ j \in Nat  BY <1>1, <1>2
      <4> QED  BY <1>1, <1>7, <4>1
    <3> QED  BY <1>4, <3>1, <3>2
  <2> QED  BY <2>1, <2>2, <2>3, <2>4
<1>8. whole = (done \cup e) \cup UNION {u[i] : i \in DOMAIN u}  BY <1>5
<1>9. Divides(u, done \cup e, whole)  BY <1>6, <1>7, <1>8 DEF Divides
<1> QED  BY <1>9 DEF u

-----------------------------------------------------------------------------
(* What the tasks are about, on either side.                               *)

PartOf(kind, x) ==
  CASE kind = "operation" -> OpPart(x)
    [] kind = "region" -> RegionPart(x)
    [] kind = "block" -> BlockPart(x)
Side(side, t) == IF side = "l" THEN t.l ELSE t.r
TaskPart(side, t) == PartOf(t.kind, Side(side, t))
Parts(side, s) == [i \in DOMAIN s |-> TaskPart(side, s[i])]

LEMMA PartsSeq ==
  ASSUME NEW side \in {"l", "r"}, NEW s \in Seq(Task)
  PROVE  \E T : /\ Parts(side, s) \in Seq(T) /\ Len(Parts(side, s)) = Len(s)
                /\ \A t \in Task : TaskPart(side, t) \in T
<1> DEFINE T == {TaskPart(side, t) : t \in Task}
<1>1. \A i \in 1..Len(s) : s[i] \in Task  BY ElementOfSeq
<1>2. \A i \in 1..Len(s) : TaskPart(side, s[i]) \in T  BY <1>1
<1>3. Parts(side, s) = [i \in 1..Len(s) |-> TaskPart(side, s[i])]
  BY LenProperties DEF Parts
<1>4. \A t \in Task : TaskPart(side, t) \in T  OBVIOUS
<1> HIDE DEF T
<1> QED  BY <1>2, <1>3, <1>4, IsASeq, LenProperties

LEMMA ConcatFacts ==
  ASSUME NEW T, NEW x \in Seq(T), NEW y \in Seq(T)
  PROVE  /\ x \o y \in Seq(T) /\ Len(x \o y) = Len(x) + Len(y)
         /\ DOMAIN (x \o y) = 1..(Len(x) + Len(y))
         /\ \A i \in 1..(Len(x) + Len(y)) :
              (x \o y)[i] = IF i <= Len(x) THEN x[i] ELSE y[i - Len(x)]
BY ConcatProperties, LenProperties

LEMMA SplitStep ==
  ASSUME NEW side \in {"l", "r"}, NEW s \in Seq(Task), s # <<>>, NEW tasks \in Seq(Task),
         NEW done, NEW whole, Divides(Parts(side, s), done, whole),
         NEW e, Divides(Parts(side, tasks), e, TaskPart(side, Head(s)))
  PROVE  Divides(Parts(side, tasks \o Tail(s)), done \cup e, whole)
<1>1. PICK T : \A t \in Task : TaskPart(side, t) \in T
  BY PartsSeq
<1>2. /\ \A i \in 1..Len(s) : s[i] \in Task
      /\ \A i \in 1..Len(tasks) : tasks[i] \in Task
      /\ Len(s) \in Nat \ {0} /\ Len(tasks) \in Nat /\ Head(s) = s[1]
      /\ Len(Tail(s)) = Len(s) - 1 /\ Tail(s) \in Seq(Task)
      /\ \A i \in 1..(Len(s) - 1) : Tail(s)[i] = s[i + 1]
      /\ DOMAIN s = 1..Len(s) /\ DOMAIN tasks = 1..Len(tasks)
      /\ DOMAIN Tail(s) = 1..(Len(s) - 1)
  BY HeadTailProperties, LenProperties, EmptySeq, ElementOfSeq
<1> DEFINE a == Parts(side, s)
           b == Parts(side, tasks)
<1>3. /\ a \in Seq(T) /\ Len(a) = Len(s) /\ b \in Seq(T) /\ Len(b) = Len(tasks)
  <2>1. a = [i \in 1..Len(s) |-> TaskPart(side, s[i])]  BY <1>2 DEF Parts
  <2>2. b = [i \in 1..Len(tasks) |-> TaskPart(side, tasks[i])]  BY <1>2 DEF Parts
  <2> HIDE DEF a, b
  <2> QED  BY <1>1, <1>2, <2>1, <2>2, IsASeq, LenProperties
<1>4. a # <<>> /\ Head(a) = TaskPart(side, Head(s))
  <2>1. a # <<>>  BY <1>2, <1>3, EmptySeq
  <2>2. Head(a) = a[1]  BY <1>3, <2>1, HeadTailProperties
  <2> QED  BY <1>2, <2>1, <2>2 DEF Parts
<1>5. Divides(b \o Tail(a), done \cup e, whole)
  <2> HIDE DEF a, b
  <2>1. Divides(a, done, whole) /\ Divides(b, e, Head(a))  BY <1>4 DEF a, b
  <2> QED  BY <1>3, <1>4, <2>1, DivideFirst
<1>6. b \o Tail(a) = Parts(side, tasks \o Tail(s))
  <2> DEFINE u == tasks \o Tail(s)
  <2>1. u \in Seq(Task) /\ Len(u) = Len(tasks) + (Len(s) - 1) /\ DOMAIN u = 1..Len(u)
        /\ \A i \in 1..Len(u) : u[i] = IF i <= Len(tasks) THEN tasks[i]
                                       ELSE Tail(s)[i - Len(tasks)]
    BY <1>2, ConcatProperties, LenProperties
  <2> HIDE DEF u
  <2>2. /\ Tail(a) \in Seq(T) /\ Len(Tail(a)) = Len(s) - 1
        /\ \A i \in 1..(Len(s) - 1) : Tail(a)[i] = a[i + 1]
    BY <1>3, <1>4, HeadTailProperties
  <2>3. /\ DOMAIN (b \o Tail(a)) = 1..Len(u)
        /\ \A i \in 1..Len(u) : (b \o Tail(a))[i] = IF i <= Len(tasks) THEN b[i]
                                                    ELSE Tail(a)[i - Len(tasks)]
        /\ b \o Tail(a) \in Seq(T) /\ Len(b \o Tail(a)) = Len(u)
    <3> HIDE DEF a, b
    <3> PICK c, d : c = b /\ d = Tail(a)  OBVIOUS
    <3>1. c \in Seq(T) /\ Len(c) = Len(tasks) /\ d \in Seq(T) /\ Len(d) = Len(s) - 1
      BY <1>3, <2>2
    <3>2. /\ c \o d \in Seq(T) /\ Len(c \o d) = Len(c) + Len(d)
          /\ DOMAIN (c \o d) = 1..(Len(c) + Len(d))
          /\ \A i \in 1..(Len(c) + Len(d)) : (c \o d)[i] = IF i <= Len(c) THEN c[i]
                                                           ELSE d[i - Len(c)]
      <4>1. c \in Seq(T) /\ d \in Seq(T)  BY <3>1
      <4>2. c \o d \in Seq(T)  BY <4>1, ConcatFacts
      <4>3. Len(c \o d) = Len(c) + Len(d)  BY <4>1, ConcatFacts
      <4>4. DOMAIN (c \o d) = 1..(Len(c) + Len(d))  BY <4>1, ConcatFacts
      <4>5. \A i \in 1..(Len(c) + Len(d)) :
              (c \o d)[i] = IF i <= Len(c) THEN c[i] ELSE d[i - Len(c)]
        BY <4>1, ConcatFacts
      <4> QED  BY <4>2, <4>3, <4>4, <4>5
    <3>3. Len(u) = Len(c) + Len(d)  BY <2>1, <3>1
    <3> QED  BY <3>1, <3>2, <3>3
  <2>4. \A i \in 1..Len(s) : a[i] = TaskPart(side, s[i])
    BY <1>2 DEF Parts
  <2>5. \A i \in 1..Len(tasks) : b[i] = TaskPart(side, tasks[i])
    BY <1>2 DEF Parts
  <2> HIDE DEF a, b
  <2>6. ASSUME NEW i \in 1..Len(u)
        PROVE  (b \o Tail(a))[i] = TaskPart(side, u[i])
    <3>1. CASE i <= Len(tasks)
      <4>1. i \in 1..Len(tasks)  BY <1>2, <2>1, <3>1
      <4> QED  BY <2>1, <2>3, <2>5, <3>1, <4>1
    <3>2. CASE ~(i <= Len(tasks))
      <4> PICK n : n = i - Len(tasks)  OBVIOUS
      <4>1. n \in 1..(Len(s) - 1) /\ n + 1 \in 1..Len(s)  BY <1>2, <2>1, <3>2
      <4>2. u[i] = s[n + 1]  BY <1>2, <2>1, <3>2, <4>1
      <4>3. (b \o Tail(a))[i] = a[n + 1]  BY <2>2, <2>3, <3>2, <4>1
      <4> QED  BY <2>4, <4>1, <4>2, <4>3
    <3> QED  BY <3>1, <3>2
  <2>7. Parts(side, u) = [i \in 1..Len(u) |-> TaskPart(side, u[i])]
    BY <2>1 DEF Parts
  <2>8. b \o Tail(a) = [i \in 1..Len(u) |-> (b \o Tail(a))[i]]
    BY <2>3, LenProperties
  <2>9. b \o Tail(a) = Parts(side, u)  BY <2>6, <2>7, <2>8
  <2> QED  BY <2>9 DEF u
<1> QED  BY <1>5, <1>6

(* A pair of operations has as tasks its regions.                          *)
LEMMA PairsAt ==
  ASSUME NEW kind, NEW ls, NEW rs, NEW side \in {"l", "r"}
  PROVE  /\ DOMAIN Pairs(kind, ls, rs) = DOMAIN ls
         /\ Parts(side, Pairs(kind, ls, rs)) =
              [i \in DOMAIN ls |-> PartOf(kind, IF side = "l" THEN ls[i] ELSE rs[i])]
<1>1. CASE side = "l"  BY <1>1 DEF Pairs, Parts, TaskPart, Side
<1>2. CASE side = "r"  BY <1>2 DEF Pairs, Parts, TaskPart, Side
<1> QED  BY <1>1, <1>2

LEMMA OperationSplits ==
  ASSUME NEW side \in {"l", "r"}, NEW x \in Op, NEW y \in Op, Len(Regions[x]) = Len(Regions[y])
  PROVE  LET o == IF side = "l" THEN x ELSE y
         IN Divides(Parts(side, Pairs("region", Regions[x], Regions[y])), {o}, OpPart(o))
<1> PICK o \in Op : o = IF side = "l" THEN x ELSE y  OBVIOUS
<1>1. DOMAIN Regions[x] = DOMAIN Regions[o]
  BY ProgramFacts, LenProperties
<1>2. Parts(side, Pairs("region", Regions[x], Regions[y])) =
        [k \in DOMAIN Regions[o] |-> RegionPart(Regions[o][k])]
  BY <1>1, PairsAt DEF PartOf
<1>3. Divides([k \in DOMAIN Regions[o] |-> RegionPart(Regions[o][k])], {o}, OpPart(o))
  <2> DEFINE f == [k \in DOMAIN Regions[o] |-> RegionPart(Regions[o][k])]
  <2>1. DOMAIN f = DOMAIN Regions[o] /\ \A k \in DOMAIN f : f[k] = RegionPart(Regions[o][k])
    OBVIOUS
  <2> HIDE DEF f
  <2>2. UNION {f[k] : k \in DOMAIN f} = UNION {RegionPart(Regions[o][k]) : k \in DOMAIN Regions[o]}
    BY <2>1
  <2>3. Divides(f, {o}, OpPart(o))
    <3>1. OpPart(o) = {o} \cup UNION {f[k] : k \in DOMAIN f}  BY <2>2, OpDivides
    <3>2. \A k \in DOMAIN f : f[k] \cap {o} = {}  BY <2>1, OpDivides
    <3>3. \A k, m \in DOMAIN f : k # m => f[k] \cap f[m] = {}
      <4>1. \A k, m \in DOMAIN Regions[o] :
              k # m => RegionPart(Regions[o][k]) \cap RegionPart(Regions[o][m]) = {}
        BY OpDivides, Zenon
      <4> SUFFICES ASSUME NEW k \in DOMAIN f, NEW m \in DOMAIN f, k # m
                   PROVE  f[k] \cap f[m] = {}
        OBVIOUS
      <4>2. f[k] = RegionPart(Regions[o][k]) /\ f[m] = RegionPart(Regions[o][m])
        BY <2>1
      <4> QED  BY <2>1, <4>1, <4>2, Zenon
    <3> QED  BY <3>1, <3>2, <3>3 DEF Divides
  <2> QED  BY <2>3 DEF f
<1> QED  BY <1>2, <1>3

LEMMA RegionSplits ==
  ASSUME NEW side \in {"l", "r"}, NEW x \in Op, NEW k \in DOMAIN Regions[x],
         NEW l \in Seq(Block), NEW r \in Seq(Block), Len(l) = Len(r),
         Regions[x][k] = IF side = "l" THEN l ELSE r
  PROVE  Divides(Parts(side, Pairs("block", l, r)), {}, RegionPart(Regions[x][k]))
<1> PICK s : s = Regions[x][k]  OBVIOUS
<1>1. DOMAIN l = DOMAIN s  BY LenProperties
<1>2. Parts(side, Pairs("block", l, r)) = [i \in DOMAIN s |-> BlockPart(s[i])]
  BY <1>1, PairsAt DEF PartOf
<1>3. Divides([i \in DOMAIN s |-> BlockPart(s[i])], {}, RegionPart(s))
  <2> DEFINE f == [i \in DOMAIN s |-> BlockPart(s[i])]
  <2>1. DOMAIN f = DOMAIN s /\ \A i \in DOMAIN f : f[i] = BlockPart(s[i])  OBVIOUS
  <2>2. /\ RegionPart(s) = UNION {BlockPart(s[i]) : i \in DOMAIN s}
        /\ \A i, j \in DOMAIN s : i # j => BlockPart(s[i]) \cap BlockPart(s[j]) = {}
    <3>1. /\ RegionPart(Regions[x][k]) =
                UNION {BlockPart(Regions[x][k][i]) : i \in DOMAIN Regions[x][k]}
          /\ \A i, j \in DOMAIN Regions[x][k] :
               i # j => BlockPart(Regions[x][k][i]) \cap BlockPart(Regions[x][k][j]) = {}
      BY RegionDivides, Zenon
    <3> QED  BY <3>1
  <2> HIDE DEF f
  <2>4. UNION {f[i] : i \in DOMAIN f} = UNION {BlockPart(s[i]) : i \in DOMAIN s}
    BY <2>1
  <2>3. Divides(f, {}, RegionPart(s))
    <3>1. RegionPart(s) = {} \cup UNION {f[i] : i \in DOMAIN f}  BY <2>2, <2>4
    <3>2. \A i, j \in DOMAIN f : i # j => f[i] \cap f[j] = {}  BY <2>1, <2>2
    <3> QED  BY <3>1, <3>2 DEF Divides
  <2> QED  BY <2>3 DEF f
<1> QED  BY <1>2, <1>3

LEMMA BlockSplits ==
  ASSUME NEW side \in {"l", "r"}, NEW l \in Block, NEW r \in Block,
         Len(Body[l]) = Len(Body[r]), NEW o \in Op, IsBlockOf(IF side = "l" THEN l ELSE r, o)
  PROVE  LET b == IF side = "l" THEN l ELSE r
         IN Divides(Parts(side, Pairs("operation", Body[l], Body[r])), {b}, BlockPart(b))
<1> PICK b \in Block : b = IF side = "l" THEN l ELSE r  OBVIOUS
<1>1. DOMAIN Body[l] = DOMAIN Body[b]  BY ProgramFacts, LenProperties
<1>2. Parts(side, Pairs("operation", Body[l], Body[r])) =
        [j \in DOMAIN Body[b] |-> OpPart(Body[b][j])]
  BY <1>1, PairsAt DEF PartOf
<1>3. Divides([j \in DOMAIN Body[b] |-> OpPart(Body[b][j])], {b}, BlockPart(b))
  <2> DEFINE f == [j \in DOMAIN Body[b] |-> OpPart(Body[b][j])]
  <2>1. DOMAIN f = DOMAIN Body[b] /\ \A j \in DOMAIN f : f[j] = OpPart(Body[b][j])
    OBVIOUS
  <2> HIDE DEF f
  <2>2. UNION {f[j] : j \in DOMAIN f} = UNION {OpPart(Body[b][j]) : j \in DOMAIN Body[b]}
    BY <2>1
  <2>3. Divides(f, {b}, BlockPart(b))
    <3> IsBlockOf(b, o)  OBVIOUS
    <3>1. BlockPart(b) = {b} \cup UNION {f[j] : j \in DOMAIN f}
      <4>1. BlockPart(b) = {b} \cup UNION {OpPart(Body[b][j]) : j \in DOMAIN Body[b]}
        BY BlockDivides
      <4> QED  BY <2>2, <4>1
    <3>2. \A j \in DOMAIN f : f[j] \cap {b} = {}  BY <2>1, BlockDivides
    <3>3. \A i, j \in DOMAIN f : i # j => f[i] \cap f[j] = {}  BY <2>1, BlockDivides
    <3> QED  BY <3>1, <3>2, <3>3 DEF Divides
  <2> QED  BY <2>3 DEF f
<1> QED  BY <1>2, <1>3
-----------------------------------------------------------------------------
(* How far the walk is: h has what is matched, on the left, with its        *)
(* counterpart on the right; s is what is left to match, bs the blocks.    *)

PairTask(kind, x, y) == [kind |-> kind, l |-> x, r |-> y]
Met(h, s, kind, x, y) == PairTask(kind, x, y) \in ToSet(s) \/ (x \in DOMAIN h /\ h[x] = y)
RegionMet(h, s, x, y) ==
  \/ PairTask("region", x, y) \in ToSet(s)
  \/ Len(x) = Len(y) /\ \A i \in DOMAIN x : Met(h, s, "block", x[i], y[i])
RegionsMet(h, s, x, y) ==
  Len(Regions[x]) = Len(Regions[y])
  /\ \A k \in DOMAIN Regions[x] : RegionMet(h, s, Regions[x][k], Regions[y][k])
BodyMet(h, s, b, c) ==
  Len(Body[b]) = Len(Body[c])
  /\ \A j \in DOMAIN Body[b] : Met(h, s, "operation", Body[b][j], Body[c][j])

(* A successor inside the operation compared was mapped before its uses.   *)
SuccessorsMet(l, bs, x, y) ==
  Len(Successors[x]) = Len(Successors[y])
  /\ \A i \in DOMAIN Successors[x] :
       LET b == Successors[x][i]
       IN IF b \in BlocksIn(l) THEN b \in DOMAIN bs /\ Successors[y][i] = bs[b]
          ELSE Successors[y][i] = b
OpMet(l, h, s, bs, x, y) ==
  x \in Op /\ y \in Op /\ SameSignature(x, y) /\ RegionsMet(h, s, x, y)
  /\ SuccessorsMet(l, bs, x, y)

(* All blocks of its region are mapped when a block is matched.            *)
Placed(B, b) ==
  \E p \in Op : \E k \in DOMAIN Regions[p] :
    b \in ToSet(Regions[p][k]) /\ ToSet(Regions[p][k]) \subseteq B
BlockMet(h, s, bs, b, c) ==
  b \in Block /\ c \in Block /\ ArgTypes(b) = ArgTypes(c) /\ BodyMet(h, s, b, c)
  /\ Placed(DOMAIN bs, b)
TaskPlaced(l, h, bs, t) ==
  \/ t.kind = "operation" /\ (t.l = l \/ \E b \in Block \cap DOMAIN h : t.l \in ToSet(Body[b]))
  \/ t.kind = "region" /\ \E x, y \in Op : \E k \in DOMAIN Regions[x] \cap DOMAIN Regions[y] :
       t.l = Regions[x][k] /\ t.r = Regions[y][k]
  \/ t.kind = "block" /\ Placed(DOMAIN bs, t.l) /\ \E p \in Op : IsBlockOf(t.r, p)

Walk(l, r, h, s, bs) ==
  /\ Divides(Parts("l", s), DOMAIN h, OpPart(l))
  /\ Divides(Parts("r", s), Range(h), OpPart(r))
  /\ IsInjective(h)
  /\ \A x \in DOMAIN h : OpMet(l, h, s, bs, x, h[x]) \/ BlockMet(h, s, bs, x, h[x])
  /\ \A t \in ToSet(s) : TaskPlaced(l, h, bs, t)
  /\ \A b \in DOMAIN bs : Met(h, s, "block", b, bs[b])
  /\ Met(h, s, "operation", l, r)

LEMMA ThenSet ==
  ASSUME NEW s \in Seq(Task), s # <<>>, NEW tasks \in Seq(Task)
  PROVE  /\ ToSet(s) \subseteq {Head(s)} \cup ToSet(tasks \o Tail(s))
         /\ ToSet(tasks) \subseteq ToSet(tasks \o Tail(s))
         /\ ToSet(tasks \o Tail(s)) \subseteq ToSet(tasks) \cup ToSet(s)
         /\ Head(s) \in ToSet(s)
<1>1. /\ Len(s) \in Nat \ {0} /\ Len(tasks) \in Nat /\ Head(s) = s[1]
      /\ Len(Tail(s)) = Len(s) - 1 /\ Tail(s) \in Seq(Task)
      /\ \A i \in 1..(Len(s) - 1) : Tail(s)[i] = s[i + 1]
      /\ DOMAIN s = 1..Len(s) /\ DOMAIN tasks = 1..Len(tasks)
  BY HeadTailProperties, LenProperties, EmptySeq
<1> PICK t : t = Tail(s)  OBVIOUS
<1> PICK u : u = tasks \o t  OBVIOUS
<1>2. /\ DOMAIN u = 1..(Len(tasks) + (Len(s) - 1))
      /\ \A i \in DOMAIN u : u[i] = IF i <= Len(tasks) THEN tasks[i] ELSE t[i - Len(tasks)]
  <2>1. t \in Seq(Task) /\ Len(t) = Len(s) - 1  BY <1>1
  <2>2. DOMAIN u = 1..(Len(tasks) + Len(t))  BY <2>1, ConcatFacts
  <2>3. \A i \in 1..(Len(tasks) + Len(t)) :
          u[i] = IF i <= Len(tasks) THEN tasks[i] ELSE t[i - Len(tasks)]
    BY <2>1, ConcatFacts
  <2> QED  BY <2>1, <2>2, <2>3
<1>3. ASSUME NEW i \in DOMAIN s, i # 1 PROVE \E n \in DOMAIN u : u[n] = s[i]
  <2> PICK n : n = Len(tasks) + i - 1  OBVIOUS
  <2>1. n \in DOMAIN u /\ ~(n <= Len(tasks)) /\ n - Len(tasks) \in 1..(Len(s) - 1)
        /\ (n - Len(tasks)) + 1 = i
    BY <1>1, <1>2, <1>3
  <2> QED  BY <1>1, <1>2, <2>1
<1>4. ASSUME NEW i \in DOMAIN tasks PROVE \E n \in DOMAIN u : u[n] = tasks[i]
  <2>1. i \in DOMAIN u /\ i <= Len(tasks)  BY <1>1, <1>2
  <2> QED  BY <1>2, <2>1
<1>5. ASSUME NEW n \in DOMAIN u
      PROVE  (\E i \in DOMAIN tasks : u[n] = tasks[i]) \/ \E i \in DOMAIN s : u[n] = s[i]
  <2>1. CASE n <= Len(tasks)
    <3>1. n \in DOMAIN tasks  BY <1>1, <1>2, <2>1
    <3> QED  BY <1>2, <2>1, <3>1
  <2>2. CASE ~(n <= Len(tasks))
    <3>1. n - Len(tasks) \in 1..(Len(s) - 1) /\ (n - Len(tasks)) + 1 \in DOMAIN s
      BY <1>1, <1>2, <2>2
    <3> QED  BY <1>1, <1>2, <2>2, <3>1
  <2> QED  BY <2>1, <2>2
<1>6. 1 \in DOMAIN s /\ Head(s) = s[1]  BY <1>1
<1>7. ToSet(s) \subseteq {Head(s)} \cup ToSet(u)
  <2> SUFFICES ASSUME NEW i \in DOMAIN s PROVE s[i] = Head(s) \/ s[i] \in ToSet(u)
    BY DEF ToSet
  <2>1. CASE i = 1  BY <1>6, <2>1
  <2>2. CASE i # 1
    <3>1. PICK n \in DOMAIN u : u[n] = s[i]  BY <1>3, <2>2
    <3> QED  BY <3>1 DEF ToSet
  <2> QED  BY <2>1, <2>2
<1>8. ToSet(tasks) \subseteq ToSet(u)  BY <1>4 DEF ToSet
<1>9. ToSet(u) \subseteq ToSet(tasks) \cup ToSet(s)  BY <1>5 DEF ToSet
<1>10. Head(s) \in ToSet(s)  BY <1>6 DEF ToSet
<1> QED  BY <1>7, <1>8, <1>9, <1>10

Extend(h, x, y) == [z \in DOMAIN h \cup {x} |-> IF z = x THEN y ELSE h[z]]

LEMMA ExtendInjective ==
  ASSUME NEW h, NEW x, NEW y, y \notin Range(h), IsInjective(h)
  PROVE  IsInjective(Extend(h, x, y))
BY DEF Extend, Range, IsInjective

(* A task taken, and what is matched stays so.                             *)
Grows(h, s, bs, e, u, cs) ==
  /\ \A kind \in {"operation", "block"} : \A x, y :
       Met(h, s, kind, x, y) => Met(e, u, kind, x, y)
  /\ \A x, y : RegionMet(h, s, x, y) => RegionMet(e, u, x, y)
  /\ \A b \in DOMAIN bs : b \in DOMAIN cs /\ cs[b] = bs[b]
  /\ \A x \in DOMAIN h : x \in DOMAIN e /\ e[x] = h[x]

LEMMA GrowsMet ==
  ASSUME NEW l, NEW h, NEW s, NEW bs, NEW e, NEW u, NEW cs, Grows(h, s, bs, e, u, cs)
  PROVE  /\ \A x, y : OpMet(l, h, s, bs, x, y) => OpMet(l, e, u, cs, x, y)
         /\ \A x, y : BlockMet(h, s, bs, x, y) => BlockMet(e, u, cs, x, y)
         /\ \A t : TaskPlaced(l, h, bs, t) => TaskPlaced(l, e, cs, t)
<1>1. \A x, y : RegionsMet(h, s, x, y) => RegionsMet(e, u, x, y)
  BY DEF RegionsMet, Grows
<1>2. \A x, y : BodyMet(h, s, x, y) => BodyMet(e, u, x, y)
  BY DEF BodyMet, Grows
<1>3. \A x, y : SuccessorsMet(l, bs, x, y) => SuccessorsMet(l, cs, x, y)
  BY DEF SuccessorsMet, Grows
<1>4. \A b : Placed(DOMAIN bs, b) => Placed(DOMAIN cs, b)
  <2>1. DOMAIN bs \subseteq DOMAIN cs  BY DEF Grows
  <2> QED  BY <2>1 DEF Placed
<1>5. Block \cap DOMAIN h \subseteq Block \cap DOMAIN e  BY DEF Grows
<1>6. \A t : TaskPlaced(l, h, bs, t) => TaskPlaced(l, e, cs, t)
  BY <1>4, <1>5 DEF TaskPlaced
<1>7. \A x, y : OpMet(l, h, s, bs, x, y) => OpMet(l, e, u, cs, x, y)
  BY <1>1, <1>3 DEF OpMet
<1>8. \A x, y : BlockMet(h, s, bs, x, y) => BlockMet(e, u, cs, x, y)
  BY <1>2, <1>4 DEF BlockMet
<1> QED  BY <1>6, <1>7, <1>8

(* The first task is matched: what remains to show of a step.              *)
LEMMA WalkGrows ==
  ASSUME NEW h, NEW s \in Seq(Task), s # <<>>, NEW bs, NEW e, NEW tasks \in Seq(Task), NEW cs,
         \A x \in DOMAIN h : x \in DOMAIN e /\ e[x] = h[x],
         \A b \in DOMAIN bs : b \in DOMAIN cs /\ cs[b] = bs[b],
         Head(s).kind # "region" => /\ Head(s).l \in DOMAIN e /\ e[Head(s).l] = Head(s).r,
         Head(s).kind = "region" =>
           RegionMet(e, tasks \o Tail(s), Head(s).l, Head(s).r)
  PROVE  Grows(h, s, bs, e, tasks \o Tail(s), cs)
<1> PICK u : u = tasks \o Tail(s)  OBVIOUS
<1>1. ToSet(s) \subseteq {Head(s)} \cup ToSet(u)  BY ThenSet
<1>2. ASSUME NEW kind \in {"operation", "block"}, NEW x, NEW y,
             PairTask(kind, x, y) \in ToSet(s)
      PROVE  Met(e, u, kind, x, y)
  <2>1. CASE PairTask(kind, x, y) \in ToSet(u)  BY <2>1 DEF Met
  <2>2. CASE PairTask(kind, x, y) = Head(s)
    <3>1. Head(s).kind = kind /\ Head(s).l = x /\ Head(s).r = y
      BY <2>2 DEF PairTask
    <3> QED  BY <3>1 DEF Met
  <2> QED  BY <1>1, <1>2, <2>1, <2>2
<1>3. \A kind \in {"operation", "block"} : \A x, y :
        Met(h, s, kind, x, y) => Met(e, u, kind, x, y)
  BY <1>2 DEF Met
<1>4. ASSUME NEW x, NEW y, RegionMet(h, s, x, y) PROVE RegionMet(e, u, x, y)
  <2>1. CASE PairTask("region", x, y) \in ToSet(u)  BY <2>1 DEF RegionMet
  <2>2. CASE PairTask("region", x, y) = Head(s)
    <3>1. Head(s).kind = "region" /\ Head(s).l = x /\ Head(s).r = y
      BY <2>2 DEF PairTask
    <3> QED  BY <3>1
  <2>3. CASE PairTask("region", x, y) \notin ToSet(s)
    <3>1. Len(x) = Len(y) /\ \A i \in DOMAIN x : Met(h, s, "block", x[i], y[i])
      BY <1>4, <2>3 DEF RegionMet
    <3> QED  BY <1>3, <3>1 DEF RegionMet
  <2> QED  BY <1>1, <2>1, <2>2, <2>3
<1> QED  BY <1>3, <1>4 DEF Grows
LEMMA PartsApart ==
  ASSUME NEW side \in {"l", "r"}, NEW s \in Seq(Task), NEW done, NEW whole,
         Divides(Parts(side, s), done, whole)
  PROVE  /\ \A t \in ToSet(s) :
              TaskPart(side, t) \subseteq whole /\ TaskPart(side, t) \cap done = {}
         /\ done \subseteq whole
<1>1. DOMAIN Parts(side, s) = DOMAIN s /\ \A i \in DOMAIN s : Parts(side, s)[i] = TaskPart(side, s[i])
  BY DEF Parts
<1> QED  BY <1>1 DEF Divides, ToSet

LEMMA OwnPart ==
  /\ \A o \in Op : o \in OpPart(o)
  /\ \A b \in Block : b \in BlockPart(b)
BY OpsInFacts DEF OpPart, BlockPart

LEMMA PairsSet ==
  ASSUME NEW kind, NEW ls, NEW rs
  PROVE  ToSet(Pairs(kind, ls, rs)) = {PairTask(kind, ls[i], rs[i]) : i \in DOMAIN ls}
BY DEF Pairs, ToSet, PairTask

(* The blocks mapped are inside the left operation, and a successor of one *)
(* of its operations that is inside has been mapped before the operation.  *)
LEMMA SuccessorsPlaced ==
  ASSUME NEW l \in Op, NEW r, NEW h, NEW s \in Seq(Task), NEW bs,
         Walk(l, r, h, s, bs), NEW x \in Op,
         x = l \/ \E b \in Block \cap DOMAIN h : x \in ToSet(Body[b]),
         NEW b \in ToSet(Successors[x])
  PROVE  b \in BlocksIn(l) <=> b \in DOMAIN bs
<1>1. b \in Block
  BY ProgramFacts, ElementOfSeq, LenProperties DEF ToSet
<1>2. ASSUME b \in DOMAIN bs PROVE b \in BlocksIn(l)
  <2>1. b \in OpPart(l)
    <3>1. Met(h, s, "block", b, bs[b]) /\ Divides(Parts("l", s), DOMAIN h, OpPart(l))
      BY <1>2 DEF Walk
    <3>2. CASE b \in DOMAIN h  BY <3>1, <3>2, PartsApart
    <3>3. CASE PairTask("block", b, bs[b]) \in ToSet(s)
      <4>1. TaskPart("l", PairTask("block", b, bs[b])) = BlockPart(b)
        BY DEF TaskPart, PairTask, Side, PartOf
      <4>2. BlockPart(b) \subseteq OpPart(l)  BY <3>1, <3>3, <4>1, PartsApart
      <4> QED  BY <1>1, <4>2, OwnPart
    <3> QED  BY <3>1, <3>2, <3>3 DEF Met
  <2>2. b \notin OpsIn(l)  BY <1>1, OpsInFacts, NestingAssumption
  <2> QED  BY <2>1, <2>2 DEF OpPart
<1>3. ASSUME b \in BlocksIn(l) PROVE b \in DOMAIN bs
  <2>1. PICK q \in OpsIn(l) : IsBlockOf(b, q)  BY <1>3, BlockFacts
  <2>2. q \in Op  BY OpsInFacts
  <2>3. PICK p \in Op : \E k \in DOMAIN Regions[p] :
               /\ b \in ToSet(Regions[p][k])
               /\ \E c \in ToSet(Regions[p][k]) : x \in ToSet(Body[c])
    BY NestingAssumption DEF Siblings
  <2>4. PICK k \in DOMAIN Regions[p] :
               /\ b \in ToSet(Regions[p][k])
               /\ \E c \in ToSet(Regions[p][k]) : x \in ToSet(Body[c])
    BY <2>3
  <2>5. PICK c \in ToSet(Regions[p][k]) : x \in ToSet(Body[c])  BY <2>4
  <2>6. IsBlockOf(b, p) /\ IsBlockOf(c, p) /\ c \in Block
    <3>1. IsBlockOf(b, p) /\ IsBlockOf(c, p)  BY <2>4, <2>5 DEF IsBlockOf, ToSet
    <3> QED  BY <3>1, BlockFacts
  <2>7. p = q  BY <2>1, <2>2, <2>6, OneParent
  <2>8. x \in Nested(p)  BY <2>5, <2>6, BlockFacts DEF ToSet
  <2>9. x # l
    <3>1. p \notin OpsIn(x)  BY <2>8, NestingAssumption DEF NestsOnce
    <3> QED  BY <2>1, <2>7, <3>1
  <2>10. PICK d \in Block \cap DOMAIN h : x \in ToSet(Body[d])  BY <2>9
  <2>11. c = d
    <3>1. PICK i \in DOMAIN Body[c] : Body[c][i] = x  BY <2>5 DEF ToSet
    <3>2. PICK j \in DOMAIN Body[d] : Body[d][j] = x  BY <2>10 DEF ToSet
    <3> QED  BY <2>6, <2>10, <3>1, <3>2, NestingAssumption DEF NestsOnce
  <2>12. Placed(DOMAIN bs, c)
    <3>1. c \notin Op  BY <2>6, NestingAssumption
    <3> QED  BY <2>10, <2>11, <3>1 DEF Walk, OpMet, BlockMet
  <2>13. PICK o \in Op : \E m \in DOMAIN Regions[o] :
                c \in ToSet(Regions[o][m]) /\ ToSet(Regions[o][m]) \subseteq DOMAIN bs
    BY <2>12 DEF Placed
  <2>14. PICK m \in DOMAIN Regions[o] :
                c \in ToSet(Regions[o][m]) /\ ToSet(Regions[o][m]) \subseteq DOMAIN bs
    BY <2>13
  <2>15. PICK i \in DOMAIN Regions[p][k] : Regions[p][k][i] = c  BY <2>5 DEF ToSet
  <2>16. PICK j \in DOMAIN Regions[o][m] : Regions[o][m][j] = c  BY <2>14 DEF ToSet
  <2>17. p = o /\ k = m
    BY <2>15, <2>16, NestingAssumption DEF NestsOnce
  <2> QED  BY <2>4, <2>14, <2>17
<1> QED  BY <1>2, <1>3

LEMMA WalkStart ==
  ASSUME NEW l \in Op, NEW r \in Op
  PROVE  Walk(l, r, NoMap, Pairs("operation", <<l>>, <<r>>), NoMap)
<1> PICK s : s = Pairs("operation", <<l>>, <<r>>)  OBVIOUS
<1> PICK t : t = PairTask("operation", l, r)  OBVIOUS
<1>1. DOMAIN s = {1} /\ s[1] = t  BY DEF Pairs, PairTask
<1>2. ToSet(s) = {t}  BY <1>1 DEF ToSet
<1>3. DOMAIN NoMap = {} /\ Range(NoMap) = {} /\ IsInjective(NoMap)
  BY DEF NoMap, Range, IsInjective
<1>4. t.kind = "operation" /\ t.l = l /\ t.r = r  BY DEF PairTask
<1>5. DOMAIN Parts("l", s) = {1} /\ Parts("l", s)[1] = OpPart(l)
  BY <1>1, <1>4 DEF Parts, TaskPart, Side, PartOf
<1>6. DOMAIN Parts("r", s) = {1} /\ Parts("r", s)[1] = OpPart(r)
  BY <1>1, <1>4 DEF Parts, TaskPart, Side, PartOf
<1>7. Divides(Parts("l", s), DOMAIN NoMap, OpPart(l))  BY <1>3, <1>5 DEF Divides
<1>8. Divides(Parts("r", s), Range(NoMap), OpPart(r))  BY <1>3, <1>6 DEF Divides
<1>9. TaskPlaced(l, NoMap, NoMap, t)  BY <1>4 DEF TaskPlaced
<1>10. Met(NoMap, s, "operation", l, r)  BY <1>2 DEF Met
<1> QED  BY <1>2, <1>3, <1>7, <1>8, <1>9, <1>10 DEF Walk

SuccessorsThrough(bs, x, y) ==
  \A i \in DOMAIN Successors[x] : Successors[y][i] = Apart(bs, Successors[x][i])

LEMMA WalkOperation ==
  ASSUME NEW l \in Op, NEW r \in Op, NEW h, NEW s \in Seq(Task), s # <<>>, NEW bs,
         Walk(l, r, h, s, bs), NEW x \in Op, NEW y \in Op,
         Head(s) = PairTask("operation", x, y), SameOperation(x, y),
         SuccessorsThrough(bs, x, y)
  PROVE  /\ x \notin DOMAIN h /\ y \notin Range(h)
         /\ Walk(l, r, Extend(h, x, y),
                 Pairs("region", Regions[x], Regions[y]) \o Tail(s), bs)
<1> PICK t : t = Head(s)  OBVIOUS
<1>1. t.kind = "operation" /\ t.l = x /\ t.r = y  BY DEF PairTask
<1>2. TaskPart("l", t) = OpPart(x) /\ TaskPart("r", t) = OpPart(y)
  BY <1>1 DEF TaskPart, Side, PartOf
<1>3. t \in ToSet(s)  BY ThenSet, EmptySeq
<1>4. /\ Divides(Parts("l", s), DOMAIN h, OpPart(l))
      /\ Divides(Parts("r", s), Range(h), OpPart(r))
      /\ IsInjective(h) /\ TaskPlaced(l, h, bs, t)
  BY <1>3 DEF Walk
<1>5. x \notin DOMAIN h /\ y \notin Range(h)
  BY <1>2, <1>3, <1>4, PartsApart, OwnPart
<1> PICK e : e = Extend(h, x, y)  OBVIOUS
<1>6. /\ DOMAIN e = DOMAIN h \cup {x} /\ Range(e) = Range(h) \cup {y}
      /\ e[x] = y /\ \A z \in DOMAIN h : e[z] = h[z]
      /\ IsInjective(e)
  <2>1. DOMAIN e = DOMAIN h \cup {x}  BY DEF Extend
  <2>2. e[x] = y  BY DEF Extend
  <2>3. \A z \in DOMAIN h : e[z] = h[z]  BY <1>5 DEF Extend
  <2>4. Range(e) = Range(h) \cup {y}  BY <2>1, <2>2, <2>3 DEF Range
  <2>5. IsInjective(e)  BY <1>4, <1>5, ExtendInjective
  <2> QED  BY <2>1, <2>2, <2>3, <2>4, <2>5
<1>7. Len(Regions[x]) = Len(Regions[y])  BY DEF SameOperation
<1> PICK tasks : tasks = Pairs("region", Regions[x], Regions[y])  OBVIOUS
<1>8. tasks \in Seq(Task)
  <2>1. [kind : {"region"}, l : Seq(Block), r : Seq(Block)] \subseteq Task  BY DEF Task
  <2>2. Regions[x] \in Seq(Seq(Block)) /\ Regions[y] \in Seq(Seq(Block))
    BY ProgramFacts
  <2> QED  BY <1>7, <2>1, <2>2, PairsFit
<1> PICK u : u = tasks \o Tail(s)  OBVIOUS
<1>9. Grows(h, s, bs, e, u, bs)  BY <1>1, <1>6, <1>8, WalkGrows
<1>10. ToSet(tasks) \subseteq ToSet(u) /\ ToSet(u) \subseteq ToSet(tasks) \cup ToSet(s)
  BY <1>8, ThenSet
<1>11. ToSet(tasks) = {PairTask("region", Regions[x][k], Regions[y][k]) : k \in DOMAIN Regions[x]}
  BY PairsSet
<1>12. Divides(Parts("l", u), DOMAIN e, OpPart(l))
  <2>1. Divides(Parts("l", tasks), {x}, OpPart(x))  BY <1>7, OperationSplits
  <2>2. Divides(Parts("l", tasks), {x}, TaskPart("l", Head(s)))  BY <1>2, <2>1
  <2>3. Divides(Parts("l", s), DOMAIN h, OpPart(l))  BY <1>4
  <2>4. Divides(Parts("l", tasks \o Tail(s)), DOMAIN h \cup {x}, OpPart(l))
    BY <1>8, <2>2, <2>3, SplitStep, Zenon
  <2> QED  BY <1>6, <2>4
<1>13. Divides(Parts("r", u), Range(e), OpPart(r))
  <2>1. Divides(Parts("r", tasks), {y}, OpPart(y))  BY <1>7, OperationSplits
  <2>2. Divides(Parts("r", tasks), {y}, TaskPart("r", Head(s)))  BY <1>2, <2>1
  <2>3. Divides(Parts("r", s), Range(h), OpPart(r))  BY <1>4
  <2>4. Divides(Parts("r", tasks \o Tail(s)), Range(h) \cup {y}, OpPart(r))
    BY <1>8, <2>2, <2>3, SplitStep, Zenon
  <2> QED  BY <1>6, <2>4
<1>14. OpMet(l, e, u, bs, x, y)
  <2>1. SameSignature(x, y)  BY DEF SameOperation, SameSignature
  <2>2. RegionsMet(e, u, x, y)  BY <1>7, <1>10, <1>11 DEF RegionsMet, RegionMet
  <2>3. SuccessorsMet(l, bs, x, y)
    <3>1. Len(Successors[x]) = Len(Successors[y])  BY DEF SameOperation
    <3>2. x = l \/ \E b \in Block \cap DOMAIN h : x \in ToSet(Body[b])
      BY <1>1, <1>4 DEF TaskPlaced
    <3>3. \A i \in DOMAIN Successors[x] :
            Successors[x][i] \in BlocksIn(l) <=> Successors[x][i] \in DOMAIN bs
      <4> SUFFICES ASSUME NEW i \in DOMAIN Successors[x]
                   PROVE  Successors[x][i] \in BlocksIn(l) <=> Successors[x][i] \in DOMAIN bs
        OBVIOUS
      <4>1. Successors[x][i] \in ToSet(Successors[x])  BY DEF ToSet
      <4> QED  BY <3>2, <4>1, SuccessorsPlaced
    <3> QED  BY <3>1, <3>3 DEF SuccessorsMet, SuccessorsThrough, Apart
  <2> QED  BY <2>1, <2>2, <2>3 DEF OpMet
<1>15. \A z \in DOMAIN e : OpMet(l, e, u, bs, z, e[z]) \/ BlockMet(e, u, bs, z, e[z])
  BY <1>6, <1>9, <1>14, GrowsMet DEF Walk
<1>16. \A q \in ToSet(u) : TaskPlaced(l, e, bs, q)
  <2>1. \A q \in ToSet(s) : TaskPlaced(l, e, bs, q)  BY <1>9, GrowsMet DEF Walk
  <2>2. ASSUME NEW k \in DOMAIN Regions[x]
        PROVE  TaskPlaced(l, e, bs, PairTask("region", Regions[x][k], Regions[y][k]))
    <3>1. k \in DOMAIN Regions[y]  BY <1>7, ProgramFacts, LenProperties
    <3> QED  BY <3>1 DEF TaskPlaced, PairTask
  <2> QED  BY <1>10, <1>11, <2>1, <2>2
<1>17. \A b \in DOMAIN bs : Met(e, u, "block", b, bs[b])  BY <1>9 DEF Walk, Grows
<1>18. Met(e, u, "operation", l, r)  BY <1>9 DEF Walk, Grows
<1>19. Walk(l, r, e, u, bs)
  BY <1>6, <1>12, <1>13, <1>15, <1>16, <1>17, <1>18 DEF Walk
<1> QED  BY <1>5, <1>19
BlocksGrow(bs, cs, x, y) ==
  /\ DOMAIN cs = DOMAIN bs \cup ToSet(x)
  /\ \A b \in DOMAIN bs : cs[b] = bs[b]
  /\ \A b \in ToSet(x) \ DOMAIN bs : cs[b] = y[CHOOSE i \in DOMAIN x : x[i] = b]

LEMMA WalkRegion ==
  ASSUME NEW l \in Op, NEW r \in Op, NEW h, NEW s \in Seq(Task), s # <<>>, NEW bs,
         Walk(l, r, h, s, bs), NEW x \in Seq(Block), NEW y \in Seq(Block),
         Head(s) = PairTask("region", x, y), Len(x) = Len(y),
         NEW cs, BlocksGrow(bs, cs, x, y)
  PROVE  Walk(l, r, h, Pairs("block", x, y) \o Tail(s), cs)
<1>0. /\ DOMAIN cs = DOMAIN bs \cup ToSet(x)
      /\ \A b \in DOMAIN bs : b \in DOMAIN cs /\ cs[b] = bs[b]
      /\ \A b \in ToSet(x) \ DOMAIN bs : cs[b] = y[CHOOSE i \in DOMAIN x : x[i] = b]
  BY DEF BlocksGrow
<1> PICK t : t = Head(s)  OBVIOUS
<1>1. t.kind = "region" /\ t.l = x /\ t.r = y  BY DEF PairTask
<1>2. TaskPart("l", t) = RegionPart(x) /\ TaskPart("r", t) = RegionPart(y)
  BY <1>1 DEF TaskPart, Side, PartOf
<1>3. t \in ToSet(s)  BY ThenSet, EmptySeq
<1>4. /\ Divides(Parts("l", s), DOMAIN h, OpPart(l))
      /\ Divides(Parts("r", s), Range(h), OpPart(r))
      /\ IsInjective(h) /\ TaskPlaced(l, h, bs, t)
  BY <1>3 DEF Walk
<1>5. PICK p \in Op, q \in Op : \E k \in DOMAIN Regions[p] \cap DOMAIN Regions[q] :
        x = Regions[p][k] /\ y = Regions[q][k]
  BY <1>1, <1>4 DEF TaskPlaced
<1>6. PICK k \in DOMAIN Regions[p] \cap DOMAIN Regions[q] :
        x = Regions[p][k] /\ y = Regions[q][k]
  BY <1>5
<1> PICK tasks : tasks = Pairs("block", x, y)  OBVIOUS
<1>7. tasks \in Seq(Task)
  <2>1. [kind : {"block"}, l : Block, r : Block] \subseteq Task  BY DEF Task
  <2> QED  BY <2>1, PairsFit
<1> PICK u : u = tasks \o Tail(s)  OBVIOUS
<1>8. ToSet(tasks) \subseteq ToSet(u) /\ ToSet(u) \subseteq ToSet(tasks) \cup ToSet(s)
  BY <1>7, ThenSet
<1>9. ToSet(tasks) = {PairTask("block", x[i], y[i]) : i \in DOMAIN x}
  BY DEF Pairs, ToSet, PairTask
<1>10. \A i \in DOMAIN x : Met(h, u, "block", x[i], y[i])  BY <1>8, <1>9 DEF Met
<1>11. RegionMet(h, u, x, y)  BY <1>10 DEF RegionMet
<1>12. Grows(h, s, bs, h, u, cs)  BY <1>0, <1>1, <1>7, <1>11, WalkGrows
<1>13. Divides(Parts("l", u), DOMAIN h, OpPart(l))
  <2>1. Divides(Parts("l", tasks), {}, TaskPart("l", Head(s)))
    BY <1>2, <1>6, RegionSplits
  <2>2. Divides(Parts("l", tasks \o Tail(s)), DOMAIN h \cup {}, OpPart(l))
    BY <1>4, <1>7, <2>1, SplitStep, Zenon
  <2> QED  BY <2>2
<1>14. Divides(Parts("r", u), Range(h), OpPart(r))
  <2>1. Divides(Parts("r", tasks), {}, TaskPart("r", Head(s)))
    BY <1>2, <1>6, RegionSplits
  <2>2. Divides(Parts("r", tasks \o Tail(s)), Range(h) \cup {}, OpPart(r))
    BY <1>4, <1>7, <2>1, SplitStep, Zenon
  <2> QED  BY <2>2
<1>15. \A z \in DOMAIN h : OpMet(l, h, u, cs, z, h[z]) \/ BlockMet(h, u, cs, z, h[z])
  BY <1>12, GrowsMet DEF Walk
<1>16. \A w \in ToSet(u) : TaskPlaced(l, h, cs, w)
  <2>1. \A w \in ToSet(s) : TaskPlaced(l, h, cs, w)  BY <1>12, GrowsMet DEF Walk
  <2>2. ASSUME NEW i \in DOMAIN x
        PROVE  TaskPlaced(l, h, cs, PairTask("block", x[i], y[i]))
    <3>1. i \in DOMAIN y  BY LenProperties
    <3>2. IsBlockOf(y[i], q)  BY <1>6, <3>1 DEF IsBlockOf
    <3>3. x[i] \in ToSet(x) /\ ToSet(x) \subseteq DOMAIN cs  BY <1>0 DEF ToSet
    <3>4. Placed(DOMAIN cs, x[i])  BY <1>6, <3>3 DEF Placed
    <3> QED  BY <3>2, <3>4 DEF TaskPlaced, PairTask
  <2> QED  BY <1>8, <1>9, <2>1, <2>2
<1>17. ASSUME NEW b \in DOMAIN cs PROVE Met(h, u, "block", b, cs[b])
  <2>1. CASE b \in DOMAIN bs  BY <1>0, <1>12, <2>1 DEF Walk, Grows
  <2>2. CASE b \notin DOMAIN bs
    <3> PICK i : i = CHOOSE j \in DOMAIN x : x[j] = b  OBVIOUS
    <3>1. b \in ToSet(x) /\ cs[b] = y[i]  BY <1>0, <2>2
    <3>2. i \in DOMAIN x /\ x[i] = b  BY <3>1 DEF ToSet
    <3> QED  BY <1>10, <3>1, <3>2
  <2> QED  BY <2>1, <2>2
<1>18. Met(h, u, "operation", l, r)  BY <1>12 DEF Walk, Grows
<1>19. Walk(l, r, h, u, cs)
  BY <1>4, <1>13, <1>14, <1>15, <1>16, <1>17, <1>18 DEF Walk
<1> QED  BY <1>19

LEMMA WalkBlock ==
  ASSUME NEW l \in Op, NEW r \in Op, NEW h, NEW s \in Seq(Task), s # <<>>, NEW bs,
         Walk(l, r, h, s, bs), NEW x \in Block, NEW y \in Block,
         Head(s) = PairTask("block", x, y),
         ArgTypes(x) = ArgTypes(y), Len(Body[x]) = Len(Body[y])
  PROVE  /\ x \notin DOMAIN h /\ y \notin Range(h)
         /\ Walk(l, r, Extend(h, x, y),
                 Pairs("operation", Body[x], Body[y]) \o Tail(s), bs)
<1> PICK t : t = Head(s)  OBVIOUS
<1>1. t.kind = "block" /\ t.l = x /\ t.r = y  BY DEF PairTask
<1>2. TaskPart("l", t) = BlockPart(x) /\ TaskPart("r", t) = BlockPart(y)
  BY <1>1 DEF TaskPart, Side, PartOf
<1>3. t \in ToSet(s)  BY ThenSet, EmptySeq
<1>4. /\ Divides(Parts("l", s), DOMAIN h, OpPart(l))
      /\ Divides(Parts("r", s), Range(h), OpPart(r))
      /\ IsInjective(h) /\ TaskPlaced(l, h, bs, t)
  BY <1>3 DEF Walk
<1>5. x \notin DOMAIN h /\ y \notin Range(h)
  BY <1>2, <1>3, <1>4, PartsApart, OwnPart
<1> PICK e : e = Extend(h, x, y)  OBVIOUS
<1>6. /\ DOMAIN e = DOMAIN h \cup {x} /\ Range(e) = Range(h) \cup {y}
      /\ e[x] = y /\ \A z \in DOMAIN h : e[z] = h[z]
      /\ IsInjective(e)
  <2>1. DOMAIN e = DOMAIN h \cup {x}  BY DEF Extend
  <2>2. e[x] = y  BY DEF Extend
  <2>3. \A z \in DOMAIN h : e[z] = h[z]  BY <1>5 DEF Extend
  <2>4. Range(e) = Range(h) \cup {y}  BY <2>1, <2>2, <2>3 DEF Range
  <2>5. IsInjective(e)  BY <1>4, <1>5, ExtendInjective
  <2> QED  BY <2>1, <2>2, <2>3, <2>4, <2>5
<1>7. Placed(DOMAIN bs, x) /\ \E q \in Op : IsBlockOf(y, q)
  BY <1>1, <1>4 DEF TaskPlaced
<1>8. \E p \in Op : IsBlockOf(x, p)  BY <1>7 DEF Placed, IsBlockOf, ToSet
<1> PICK tasks : tasks = Pairs("operation", Body[x], Body[y])  OBVIOUS
<1>9. tasks \in Seq(Task)
  <2>1. [kind : {"operation"}, l : Op, r : Op] \subseteq Task  BY DEF Task
  <2>2. Body[x] \in Seq(Op) /\ Body[y] \in Seq(Op)  BY ProgramFacts
  <2> QED  BY <2>1, <2>2, PairsFit
<1> PICK u : u = tasks \o Tail(s)  OBVIOUS
<1>10. Grows(h, s, bs, e, u, bs)  BY <1>1, <1>6, <1>9, WalkGrows
<1>11. ToSet(tasks) \subseteq ToSet(u) /\ ToSet(u) \subseteq ToSet(tasks) \cup ToSet(s)
  BY <1>9, ThenSet
<1>12. ToSet(tasks) = {PairTask("operation", Body[x][j], Body[y][j]) : j \in DOMAIN Body[x]}
  BY PairsSet
<1>13. Divides(Parts("l", u), DOMAIN e, OpPart(l))
  <2>1. Divides(Parts("l", tasks), {x}, BlockPart(x))  BY <1>8, BlockSplits
  <2>2. Divides(Parts("l", tasks), {x}, TaskPart("l", Head(s)))  BY <1>2, <2>1
  <2>3. Divides(Parts("l", tasks \o Tail(s)), DOMAIN h \cup {x}, OpPart(l))
    BY <1>4, <1>9, <2>2, SplitStep, Zenon
  <2> QED  BY <1>6, <2>3
<1>14. Divides(Parts("r", u), Range(e), OpPart(r))
  <2>1. Divides(Parts("r", tasks), {y}, BlockPart(y))  BY <1>7, BlockSplits
  <2>2. Divides(Parts("r", tasks), {y}, TaskPart("r", Head(s)))  BY <1>2, <2>1
  <2>3. Divides(Parts("r", tasks \o Tail(s)), Range(h) \cup {y}, OpPart(r))
    BY <1>4, <1>9, <2>2, SplitStep, Zenon
  <2> QED  BY <1>6, <2>3
<1>15. BlockMet(e, u, bs, x, y)
  <2>1. BodyMet(e, u, x, y)  BY <1>11, <1>12 DEF BodyMet, Met
  <2> QED  BY <1>7, <2>1 DEF BlockMet
<1>16. \A z \in DOMAIN e : OpMet(l, e, u, bs, z, e[z]) \/ BlockMet(e, u, bs, z, e[z])
  BY <1>6, <1>10, <1>15, GrowsMet DEF Walk
<1>17. \A w \in ToSet(u) : TaskPlaced(l, e, bs, w)
  <2>1. \A w \in ToSet(s) : TaskPlaced(l, e, bs, w)  BY <1>10, GrowsMet DEF Walk
  <2>2. ASSUME NEW j \in DOMAIN Body[x]
        PROVE  TaskPlaced(l, e, bs, PairTask("operation", Body[x][j], Body[y][j]))
    <3>1. x \in Block \cap DOMAIN e /\ Body[x][j] \in ToSet(Body[x])  BY <1>6 DEF ToSet
    <3> QED  BY <3>1 DEF TaskPlaced, PairTask
  <2> QED  BY <1>11, <1>12, <2>1, <2>2
<1>18. \A b \in DOMAIN bs : Met(e, u, "block", b, bs[b])  BY <1>10 DEF Walk, Grows
<1>19. Met(e, u, "operation", l, r)  BY <1>10 DEF Walk, Grows
<1>20. Walk(l, r, e, u, bs)
  BY <1>6, <1>13, <1>14, <1>16, <1>17, <1>18, <1>19 DEF Walk
<1> QED  BY <1>5, <1>20
-----------------------------------------------------------------------------
(* What the checker keeps of the pairs matched.                            *)

ValuesOf(h, vs) ==
  /\ DOMAIN vs = {v \in Value : v[1] \in DOMAIN h}
  /\ \A v \in DOMAIN vs : vs[v] = <<h[v[1]], v[2]>>
OpsOf(h, os) ==
  /\ \A k \in DOMAIN os : os[k][1] \in Op \cap DOMAIN h /\ os[k][2] = h[os[k][1]]
  /\ \A x \in Op \cap DOMAIN h : \E k \in DOMAIN os : os[k] = <<x, h[x]>>

Walked(l, r, s, bs, vs, os) ==
  \E h : Walk(l, r, h, s, bs) /\ ValuesOf(h, vs) /\ OpsOf(h, os)
WalkInv ==
  phase # "idle" => /\ phase = "operands" => todo = <<>>
                    /\ Walked(lhs, rhs, todo, blocks, values, ops)

LEMMA ValueFacts ==
  /\ \A v \in Value : \/ v[1] \in Op /\ v[2] \in 1..NumResults[v[1]]
                      \/ v[1] \in Block /\ v[2] \in 1..NumArgs[v[1]]
  /\ \A v \in Value : v = <<v[1], v[2]>>
  /\ \A o \in Op : {v \in Value : v[1] = o} = {o} \X (1..NumResults[o])
  /\ \A b \in Block : {v \in Value : v[1] = b} = {b} \X (1..NumArgs[b])
<1>1. Op \cap Block = {}  BY NestingAssumption
<1>2. \A v : v \in Value <=>
        \/ \E o \in Op : v \in {o} \X (1..NumResults[o])
        \/ \E b \in Block : v \in {b} \X (1..NumArgs[b])
  BY DEF Value, Result, Arg
<1>3. \A v \in Value : \/ v[1] \in Op /\ v[2] \in 1..NumResults[v[1]]
                       \/ v[1] \in Block /\ v[2] \in 1..NumArgs[v[1]]
  BY <1>2
<1>4. \A v \in Value : v = <<v[1], v[2]>>  BY <1>2
<1>5. ASSUME NEW o \in Op
      PROVE  {v \in Value : v[1] = o} = {o} \X (1..NumResults[o])
  BY <1>1, <1>2
<1>6. ASSUME NEW b \in Block
      PROVE  {v \in Value : v[1] = b} = {b} \X (1..NumArgs[b])
  BY <1>1, <1>2
<1> QED  BY <1>3, <1>4, <1>5, <1>6

ValuesAdded(vs, l, r, n) ==
  [v \in DOMAIN vs \cup ({l} \X (1..n)) |->
     IF v \in DOMAIN vs THEN vs[v] ELSE <<r, v[2]>>]

LEMMA ValuesGrow ==
  ASSUME NEW h, NEW vs, ValuesOf(h, vs), NEW l, NEW r, l \notin DOMAIN h, NEW n,
         {v \in Value : v[1] = l} = {l} \X (1..n)
  PROVE  ValuesOf(Extend(h, l, r), ValuesAdded(vs, l, r, n))
<1> PICK ws : ws = ValuesAdded(vs, l, r, n)  OBVIOUS
<1> PICK e : e = Extend(h, l, r)  OBVIOUS
<1>1. DOMAIN e = DOMAIN h \cup {l}  BY DEF Extend
<1>2. e[l] = r  BY DEF Extend
<1>3. \A z \in DOMAIN h : e[z] = h[z]  BY DEF Extend
<1>4. DOMAIN ws = DOMAIN vs \cup {v \in Value : v[1] = l}  BY DEF ValuesAdded
<1>5. DOMAIN ws = {v \in Value : v[1] \in DOMAIN e}  BY <1>1, <1>4 DEF ValuesOf
<1>6. ASSUME NEW v \in DOMAIN ws PROVE ws[v] = <<e[v[1]], v[2]>>
  <2>1. CASE v \in DOMAIN vs
    <3>1. ws[v] = vs[v] /\ v[1] \in DOMAIN h /\ vs[v] = <<h[v[1]], v[2]>>
      BY <2>1 DEF ValuesOf, ValuesAdded
    <3> QED  BY <1>3, <3>1
  <2>2. CASE v \notin DOMAIN vs
    <3>1. v[1] = l  BY <1>4, <2>2
    <3>2. ws[v] = <<r, v[2]>>  BY <2>2 DEF ValuesAdded
    <3> QED  BY <1>2, <3>1, <3>2
  <2> QED  BY <2>1, <2>2
<1>7. ValuesOf(e, ws)  BY <1>5, <1>6 DEF ValuesOf
<1> QED  BY <1>7

LEMMA OpsGrow ==
  ASSUME NEW h, NEW os \in Seq(Op \X Op), OpsOf(h, os), NEW x \in Op, NEW y \in Op,
         x \notin DOMAIN h
  PROVE  OpsOf(Extend(h, x, y), Append(os, <<x, y>>))
<1> PICK e : e = Extend(h, x, y)  OBVIOUS
<1>1. DOMAIN e = DOMAIN h \cup {x}  BY DEF Extend
<1>2. e[x] = y  BY DEF Extend
<1>3. \A z \in DOMAIN h : e[z] = h[z]  BY DEF Extend
<1> PICK p : p = Append(os, <<x, y>>)  OBVIOUS
<1>4. /\ DOMAIN os = 1..Len(os) /\ Len(os) \in Nat /\ DOMAIN p = 1..(Len(os) + 1)
      /\ p[Len(os) + 1] = <<x, y>> /\ \A k \in DOMAIN os : p[k] = os[k]
  <2>1. <<x, y>> \in Op \X Op  OBVIOUS
  <2> QED  BY <2>1, AppendProperties, LenProperties
<1>5. ASSUME NEW k \in DOMAIN p
      PROVE  p[k][1] \in Op \cap DOMAIN e /\ p[k][2] = e[p[k][1]]
  <2>1. CASE k = Len(os) + 1  BY <1>1, <1>2, <1>4, <2>1
  <2>2. CASE k # Len(os) + 1
    <3>1. k \in DOMAIN os /\ p[k] = os[k]  BY <1>4, <2>2
    <3>2. os[k][1] \in Op \cap DOMAIN h /\ os[k][2] = h[os[k][1]]  BY <3>1 DEF OpsOf
    <3> QED  BY <1>1, <1>3, <3>1, <3>2
  <2> QED  BY <2>1, <2>2
<1>6. ASSUME NEW z \in Op \cap DOMAIN e PROVE \E k \in DOMAIN p : p[k] = <<z, e[z]>>
  <2>1. CASE z = x
    <3>1. Len(os) + 1 \in DOMAIN p  BY <1>4
    <3> QED  BY <1>2, <1>4, <2>1, <3>1
  <2>2. CASE z # x
    <3>1. z \in Op \cap DOMAIN h /\ e[z] = h[z]  BY <1>1, <1>3, <2>2
    <3>2. PICK k \in DOMAIN os : os[k] = <<z, h[z]>>  BY <3>1 DEF OpsOf
    <3>3. k \in DOMAIN p /\ p[k] = os[k]  BY <1>4
    <3> QED  BY <3>1, <3>2, <3>3
  <2> QED  BY <2>1, <2>2
<1>7. OpsOf(e, p)  BY <1>5, <1>6 DEF OpsOf
<1> QED  BY <1>7

(* A block matched adds no operation.                                      *)
LEMMA OpsStay ==
  ASSUME NEW h, NEW os, OpsOf(h, os), NEW x \in Block, NEW y, x \notin DOMAIN h
  PROVE  OpsOf(Extend(h, x, y), os)
<1> PICK e : e = Extend(h, x, y)  OBVIOUS
<1>1. DOMAIN e = DOMAIN h \cup {x}  BY DEF Extend
<1>2. \A z \in DOMAIN h : e[z] = h[z]  BY DEF Extend
<1>3. x \notin Op  BY NestingAssumption
<1>4. Op \cap DOMAIN e = Op \cap DOMAIN h  BY <1>1, <1>3
<1>5. OpsOf(e, os)  BY <1>2, <1>4 DEF OpsOf
<1> QED  BY <1>5

-----------------------------------------------------------------------------
(* When all is matched.                                                    *)

LEMMA WalkDone ==
  ASSUME NEW l \in Op, NEW r \in Op, NEW h, NEW bs, Walk(l, r, h, <<>>, bs)
  PROVE  /\ DOMAIN h = OpPart(l) /\ Range(h) = OpPart(r) /\ IsInjective(h)
         /\ h[l] = r
         /\ \A b \in DOMAIN bs : b \in DOMAIN h /\ h[b] = bs[b]
         /\ \A x \in DOMAIN h : \/ OpMet(l, h, <<>>, bs, x, h[x])
                                \/ BlockMet(h, <<>>, bs, x, h[x])
<1>1. ToSet(<<>>) = {} /\ DOMAIN Parts("l", <<>>) = {} /\ DOMAIN Parts("r", <<>>) = {}
  BY DEF ToSet, Parts
<1>2. DOMAIN h = OpPart(l) /\ Range(h) = OpPart(r)
  <2>1. /\ Divides(Parts("l", <<>>), DOMAIN h, OpPart(l))
        /\ Divides(Parts("r", <<>>), Range(h), OpPart(r))
    BY DEF Walk
  <2> PICK p, q : p = Parts("l", <<>>) /\ q = Parts("r", <<>>)  OBVIOUS
  <2>2. DOMAIN p = {} /\ DOMAIN q = {}  BY <1>1
  <2>3. OpPart(l) = DOMAIN h \cup UNION {p[i] : i \in DOMAIN p}  BY <2>1 DEF Divides
  <2>4. OpPart(r) = Range(h) \cup UNION {q[i] : i \in DOMAIN q}  BY <2>1 DEF Divides
  <2> QED  BY <2>2, <2>3, <2>4
<1>3. h[l] = r  BY <1>1 DEF Walk, Met
<1>4. \A b \in DOMAIN bs : b \in DOMAIN h /\ h[b] = bs[b]  BY <1>1 DEF Walk, Met
<1> QED  BY <1>2, <1>3, <1>4 DEF Walk

LEMMA SameCounts ==
  ASSUME NEW l \in Op, NEW r \in Op, NEW h, NEW bs, Walk(l, r, h, <<>>, bs),
         NEW x \in DOMAIN h
  PROVE  \/ x \in Op /\ h[x] \in Op /\ NumResults[x] = NumResults[h[x]]
         \/ x \in Block /\ h[x] \in Block /\ NumArgs[x] = NumArgs[h[x]]
<1>1. CASE OpMet(l, h, <<>>, bs, x, h[x])
  <2>1. x \in Op /\ h[x] \in Op /\ ResultTypes(x) = ResultTypes(h[x])
    BY <1>1 DEF OpMet, SameSignature
  <2> QED  BY <2>1, ProgramFacts, SameTypesSameNumber DEF ResultTypes
<1>2. CASE BlockMet(h, <<>>, bs, x, h[x])
  <2>1. x \in Block /\ h[x] \in Block /\ ArgTypes(x) = ArgTypes(h[x])
    BY <1>2 DEF BlockMet
  <2> QED  BY <2>1, ProgramFacts, SameTypesSameNumber DEF ArgTypes
<1> QED  BY <1>1, <1>2, WalkDone

LEMMA ValuesDone ==
  ASSUME NEW l \in Op, NEW r \in Op, NEW h, NEW bs, Walk(l, r, h, <<>>, bs),
         NEW vs, ValuesOf(h, vs)
  PROVE  DOMAIN vs = ValuesIn(l) /\ Range(vs) = ValuesIn(r) /\ IsInjective(vs)
<1>1. DOMAIN h = OpPart(l) /\ Range(h) = OpPart(r) /\ IsInjective(h)  BY WalkDone
<1>2. DOMAIN vs = ValuesIn(l)  BY <1>1 DEF ValuesOf, ValuesIn, OpPart
<1>3. \A w : w \in ValuesIn(r) <=> w \in Value /\ w[1] \in Range(h)
  BY <1>1 DEF ValuesIn, OpPart
<1>4. \A x \in DOMAIN h : \A n : <<x, n>> \in Value <=> <<h[x], n>> \in Value
  <2> SUFFICES ASSUME NEW x \in DOMAIN h, NEW n
               PROVE  <<x, n>> \in Value <=> <<h[x], n>> \in Value
    OBVIOUS
  <2>1. CASE x \in Op /\ h[x] \in Op /\ NumResults[x] = NumResults[h[x]]
    <3>1. <<x, n>> \in Value <=> <<x, n>> \in {x} \X (1..NumResults[x])
      BY <2>1, ValueFacts
    <3>2. <<h[x], n>> \in Value <=> <<h[x], n>> \in {h[x]} \X (1..NumResults[h[x]])
      BY <2>1, ValueFacts
    <3> QED  BY <2>1, <3>1, <3>2
  <2>2. CASE x \in Block /\ h[x] \in Block /\ NumArgs[x] = NumArgs[h[x]]
    <3>1. <<x, n>> \in Value <=> <<x, n>> \in {x} \X (1..NumArgs[x])
      BY <2>2, ValueFacts
    <3>2. <<h[x], n>> \in Value <=> <<h[x], n>> \in {h[x]} \X (1..NumArgs[h[x]])
      BY <2>2, ValueFacts
    <3> QED  BY <2>2, <3>1, <3>2
  <2> QED  BY <2>1, <2>2, SameCounts
<1>5. ASSUME NEW w \in Range(vs) PROVE w \in ValuesIn(r)
  <2>1. PICK v \in DOMAIN vs : w = vs[v]  BY <1>5 DEF Range
  <2>2. v \in Value /\ v[1] \in DOMAIN h /\ w = <<h[v[1]], v[2]>>
    BY <2>1 DEF ValuesOf
  <2>3. <<v[1], v[2]>> \in Value  BY <2>2, ValueFacts
  <2>4. w \in Value  BY <1>4, <2>2, <2>3
  <2>5. w[1] \in Range(h)  BY <2>2 DEF Range
  <2> QED  BY <1>3, <2>4, <2>5
<1>6. ASSUME NEW w \in ValuesIn(r) PROVE w \in Range(vs)
  <2>1. w \in Value /\ w[1] \in Range(h)  BY <1>3
  <2>2. PICK x \in DOMAIN h : w[1] = h[x]  BY <2>1 DEF Range
  <2> PICK v : v = <<x, w[2]>>  OBVIOUS
  <2>3. w = <<h[x], w[2]>>  BY <2>1, <2>2, ValueFacts
  <2>4. v \in Value  BY <1>4, <2>1, <2>3
  <2>5. v \in DOMAIN vs /\ vs[v] = w  BY <2>3, <2>4 DEF ValuesOf
  <2> QED  BY <2>5 DEF Range
<1>7. IsInjective(vs)
  <2> SUFFICES ASSUME NEW v \in DOMAIN vs, NEW w \in DOMAIN vs, vs[v] = vs[w]
               PROVE  v = w
    BY DEF IsInjective
  <2>1. /\ v \in Value /\ v[1] \in DOMAIN h /\ vs[v] = <<h[v[1]], v[2]>>
        /\ w \in Value /\ w[1] \in DOMAIN h /\ vs[w] = <<h[w[1]], w[2]>>
    BY DEF ValuesOf
  <2>2. h[v[1]] = h[w[1]] /\ v[2] = w[2]
    <3> PICK a, b, c, d : a = h[v[1]] /\ b = v[2] /\ c = h[w[1]] /\ d = w[2]  OBVIOUS
    <3>1. <<a, b>> = <<c, d>>  BY <2>1
    <3> QED  BY <3>1
  <2>3. v[1] = w[1]  BY <1>1, <2>1, <2>2 DEF IsInjective
  <2> QED  BY <2>1, <2>2, <2>3, ValueFacts
<1> QED  BY <1>2, <1>5, <1>6, <1>7
-----------------------------------------------------------------------------
(* The steps of a comparison.                                              *)

LEMMA HeadTask ==
  ASSUME CheckInv, NEW kind, Matching(kind)
  PROVE  /\ todo \in Seq(Task) /\ todo # <<>> /\ Head(todo) \in Task
         /\ Head(todo) = PairTask(kind, Left, Right)
<1>1. todo \in Seq(Task) /\ todo # <<>> /\ Head(todo) \in Task
  BY HeadTailProperties DEF CheckInv, Matching
<1>2. Head(todo) = PairTask(kind, Left, Right)
  BY <1>1 DEF Matching, Task, PairTask, Left, Right
<1> QED  BY <1>1, <1>2

LEMMA StartWalk ==
  ASSUME CheckInv, NEW l \in Root, NEW r \in Root, Start(l, r)
  PROVE  WalkInv'
<1>1. CASE l = r  BY <1>1 DEF Start, WalkInv
<1>2. CASE l # r
  <2>1. ops = <<>> /\ blocks = NoMap /\ values = NoMap
    BY DEF CheckInv, Fresh, Start
  <2>2. /\ phase' = "structure" /\ lhs' = l /\ rhs' = r
        /\ todo' = Pairs("operation", <<l>>, <<r>>)
        /\ ops' = <<>> /\ blocks' = NoMap /\ values' = NoMap
    BY <1>2, <2>1 DEF Start
  <2>3. Walk(l, r, NoMap, Pairs("operation", <<l>>, <<r>>), NoMap)
    BY ProgramFacts, WalkStart
  <2>4. ValuesOf(NoMap, NoMap)  BY DEF ValuesOf, NoMap
  <2>5. OpsOf(NoMap, <<>>)  BY DEF OpsOf, NoMap
  <2>6. Walked(l, r, Pairs("operation", <<l>>, <<r>>), NoMap, NoMap, <<>>)
    BY <2>3, <2>4, <2>5 DEF Walked
  <2> QED  BY <2>2, <2>6 DEF WalkInv
<1> QED  BY <1>1, <1>2

LEMMA MatchOperationWalk ==
  ASSUME CheckInv, WalkInv, MatchOperation
  PROVE  WalkInv'
<1>1. CASE SameOperation(Left, Right) /\ SameSuccessors(Left, Right)
  <2> PICK x, y : x = Left /\ y = Right  OBVIOUS
  <2>1. /\ todo \in Seq(Task) /\ todo # <<>> /\ Head(todo) \in Task
        /\ Head(todo) = PairTask("operation", x, y) /\ phase = "structure"
    BY HeadTask DEF MatchOperation, Matching
  <2>2. x \in Op /\ y \in Op  BY <2>1 DEF PairTask, Task
  <2>3. lhs \in Op /\ rhs \in Op /\ ops \in Seq(Op \X Op)
    BY <2>1, ProgramFacts DEF CheckInv, Fresh
  <2>4. PICK h : /\ Walk(lhs, rhs, h, todo, blocks) /\ ValuesOf(h, values)
                 /\ OpsOf(h, ops)
    BY <2>1 DEF WalkInv, Walked
  <2>5. SameOperation(x, y) /\ SameSuccessors(x, y)  BY <1>1
  <2>6. SuccessorsThrough(blocks, x, y)
    BY <2>5 DEF SameSuccessors, SuccessorsThrough, Apart
  <2>7. /\ x \notin DOMAIN h
        /\ Walk(lhs, rhs, Extend(h, x, y),
                Pairs("region", Regions[x], Regions[y]) \o Tail(todo), blocks)
    BY <2>1, <2>2, <2>3, <2>4, <2>5, <2>6, WalkOperation
  <2>8. /\ phase' = "structure" /\ UNCHANGED <<lhs, rhs, blocks>>
        /\ todo' = Pairs("region", Regions[x], Regions[y]) \o Tail(todo)
        /\ ops' = Append(ops, <<x, y>>) /\ values' = MapValues(x, y, NumResults[x])
    BY <1>1, <2>1 DEF MatchOperation, Then
  <2>9. ValuesOf(Extend(h, x, y), MapValues(x, y, NumResults[x]))
    <3>1. {v \in Value : v[1] = x} = {x} \X (1..NumResults[x])  BY <2>2, ValueFacts
    <3>2. MapValues(x, y, NumResults[x]) = ValuesAdded(values, x, y, NumResults[x])
      BY DEF MapValues, ValuesAdded
    <3> QED  BY <2>4, <2>7, <3>1, <3>2, ValuesGrow
  <2>10. OpsOf(Extend(h, x, y), Append(ops, <<x, y>>))
    BY <2>2, <2>3, <2>4, <2>7, OpsGrow
  <2>11. Walked(lhs, rhs, Pairs("region", Regions[x], Regions[y]) \o Tail(todo),
                blocks, MapValues(x, y, NumResults[x]), Append(ops, <<x, y>>))
    BY <2>7, <2>9, <2>10 DEF Walked
  <2> QED  BY <2>8, <2>11 DEF WalkInv
<1>2. CASE ~(SameOperation(Left, Right) /\ SameSuccessors(Left, Right))
  BY <1>2 DEF MatchOperation, Finish, WalkInv
<1> QED  BY <1>1, <1>2

LEMMA MatchRegionWalk ==
  ASSUME CheckInv, WalkInv, MatchRegion
  PROVE  WalkInv'
<1>1. CASE Len(Left) = Len(Right)
  <2> PICK x, y : x = Left /\ y = Right  OBVIOUS
  <2>1. /\ todo \in Seq(Task) /\ todo # <<>> /\ Head(todo) \in Task
        /\ Head(todo) = PairTask("region", x, y) /\ phase = "structure"
    BY HeadTask DEF MatchRegion, Matching
  <2>2. x \in Seq(Block) /\ y \in Seq(Block)  BY <2>1 DEF PairTask, Task
  <2>3. lhs \in Op /\ rhs \in Op  BY <2>1, ProgramFacts DEF CheckInv, Fresh
  <2>4. PICK h : /\ Walk(lhs, rhs, h, todo, blocks) /\ ValuesOf(h, values)
                 /\ OpsOf(h, ops)
    BY <2>1 DEF WalkInv, Walked
  <2> PICK cs : cs = MapBlocks(x, y)  OBVIOUS
  <2>5. BlocksGrow(blocks, cs, x, y)  BY DEF MapBlocks, BlocksGrow
  <2>6. Len(x) = Len(y)  BY <1>1
  <2>7. Walk(lhs, rhs, h, Pairs("block", x, y) \o Tail(todo), cs)
    BY <2>1, <2>2, <2>3, <2>4, <2>5, <2>6, WalkRegion
  <2>8. /\ phase' = "structure" /\ UNCHANGED <<lhs, rhs, ops, values>>
        /\ todo' = Pairs("block", x, y) \o Tail(todo) /\ blocks' = cs
    BY <1>1, <2>1 DEF MatchRegion, Then
  <2>9. Walked(lhs, rhs, Pairs("block", x, y) \o Tail(todo), cs, values, ops)
    BY <2>4, <2>7 DEF Walked
  <2> QED  BY <2>8, <2>9 DEF WalkInv
<1>2. CASE Len(Left) # Len(Right)
  BY <1>2 DEF MatchRegion, Finish, WalkInv
<1> QED  BY <1>1, <1>2

LEMMA MatchBlockWalk ==
  ASSUME CheckInv, WalkInv, MatchBlock
  PROVE  WalkInv'
<1>1. CASE ArgTypes(Left) = ArgTypes(Right) /\ Len(Body[Left]) = Len(Body[Right])
  <2> PICK x, y : x = Left /\ y = Right  OBVIOUS
  <2>1. /\ todo \in Seq(Task) /\ todo # <<>> /\ Head(todo) \in Task
        /\ Head(todo) = PairTask("block", x, y) /\ phase = "structure"
    BY HeadTask DEF MatchBlock, Matching
  <2>2. x \in Block /\ y \in Block  BY <2>1 DEF PairTask, Task
  <2>3. lhs \in Op /\ rhs \in Op  BY <2>1, ProgramFacts DEF CheckInv, Fresh
  <2>4. PICK h : /\ Walk(lhs, rhs, h, todo, blocks) /\ ValuesOf(h, values)
                 /\ OpsOf(h, ops)
    BY <2>1 DEF WalkInv, Walked
  <2>5. ArgTypes(x) = ArgTypes(y) /\ Len(Body[x]) = Len(Body[y])  BY <1>1
  <2>6. /\ x \notin DOMAIN h
        /\ Walk(lhs, rhs, Extend(h, x, y),
                Pairs("operation", Body[x], Body[y]) \o Tail(todo), blocks)
    BY <2>1, <2>2, <2>3, <2>4, <2>5, WalkBlock
  <2>7. /\ phase' = "structure" /\ UNCHANGED <<lhs, rhs, ops, blocks>>
        /\ todo' = Pairs("operation", Body[x], Body[y]) \o Tail(todo)
        /\ values' = MapValues(x, y, NumArgs[x])
    BY <1>1, <2>1 DEF MatchBlock, Then
  <2>8. ValuesOf(Extend(h, x, y), MapValues(x, y, NumArgs[x]))
    <3>1. {v \in Value : v[1] = x} = {x} \X (1..NumArgs[x])  BY <2>2, ValueFacts
    <3>2. MapValues(x, y, NumArgs[x]) = ValuesAdded(values, x, y, NumArgs[x])
      BY DEF MapValues, ValuesAdded
    <3> QED  BY <2>4, <2>6, <3>1, <3>2, ValuesGrow
  <2>9. OpsOf(Extend(h, x, y), ops)  BY <2>2, <2>4, <2>6, OpsStay
  <2>10. Walked(lhs, rhs, Pairs("operation", Body[x], Body[y]) \o Tail(todo), blocks,
                MapValues(x, y, NumArgs[x]), ops)
    BY <2>6, <2>8, <2>9 DEF Walked
  <2> QED  BY <2>7, <2>10 DEF WalkInv
<1>2. CASE ~(ArgTypes(Left) = ArgTypes(Right) /\ Len(Body[Left]) = Len(Body[Right]))
  BY <1>2 DEF MatchBlock, Finish, WalkInv
<1> QED  BY <1>1, <1>2

(* The second and third pass leave the maps as they are.                   *)
LEMMA WalkStep ==
  ASSUME CheckInv, WalkInv, [Next]_vars
  PROVE  WalkInv'
<1>1. ASSUME UNCHANGED <<lhs, rhs, todo, ops, blocks, values>>, phase' # "idle",
             phase # "idle", phase' = "operands" => todo = <<>>
      PROVE  WalkInv'
  <2>1. Walked(lhs, rhs, todo, blocks, values, ops)  BY <1>1 DEF WalkInv
  <2> QED  BY <1>1, <2>1 DEF WalkInv
<1>2. CASE UNCHANGED vars  BY <1>1, <1>2 DEF vars, checker, WalkInv
<1>3. ASSUME NEW l \in Root, NEW r \in Root, Start(l, r) PROVE WalkInv'
  BY <1>3, StartWalk
<1>4. CASE CheckOperands  BY <1>1, <1>4 DEF CheckOperands, checker, Finish, WalkInv
<1>5. CASE CompareOperand
  <2>1. phase = "operands" /\ todo = <<>>
    BY <1>5 DEF CompareOperand, InOperands, WalkInv
  <2>2. CASE phase' = "idle"  BY <2>2 DEF WalkInv
  <2>3. CASE phase' # "idle"
    <3>1. UNCHANGED <<lhs, rhs, phase, todo, ops, blocks, values>>
      BY <1>5, <2>3 DEF CompareOperand
    <3> QED  BY <1>1, <2>1, <3>1
  <2> QED  BY <2>2, <2>3
<1>6. CASE NotFound  BY <1>6 DEF NotFound, Finish, WalkInv
<1>7. CASE NextOperation
  <2>1. phase = "operands" /\ todo = <<>>
    BY <1>7 DEF NextOperation, InOperands, WalkInv
  <2> QED  BY <1>1, <1>7, <2>1 DEF NextOperation
<1>8. CASE AllEquivalent  BY <1>8 DEF AllEquivalent, Finish, WalkInv
<1> QED
  BY <1>2, <1>3, <1>4, <1>5, <1>6, <1>7, <1>8, MatchOperationWalk, MatchRegionWalk,
     MatchBlockWalk DEF Next, Compare

LEMMA WalkMaps ==
  ASSUME CheckInv, WalkInv
  PROVE  /\ phase = "operands" => todo = <<>>
         /\ MapsAreTwins
<1>1. SUFFICES ASSUME phase # "idle", todo = <<>> PROVE MapsAreTwins
  BY DEF WalkInv, MapsAreTwins
<1>2. PICK h : Walk(lhs, rhs, h, <<>>, blocks) /\ ValuesOf(h, values)
  BY <1>1 DEF WalkInv, Walked
<1>3. lhs \in Op /\ rhs \in Op  BY <1>1, ProgramFacts DEF CheckInv, Fresh
<1>4. /\ DOMAIN values = ValuesIn(lhs) /\ Range(values) = ValuesIn(rhs)
      /\ IsInjective(values)
  BY <1>2, <1>3, ValuesDone
<1> QED  BY <1>4 DEF MapsAreTwins

LEMMA AsksStep ==
  ASSUME CheckInv, WalkInv, AsksOutside, [Next]_vars
  PROVE  AsksOutside'
<1>1. CASE UNCHANGED <<lhs, rhs, asked>>  BY <1>1 DEF AsksOutside
<1>2. ASSUME NEW l \in Root, NEW r \in Root, Start(l, r) PROVE AsksOutside'
  BY <1>2 DEF Start, AsksOutside
<1>3. CASE CompareOperand
  <2>1. MapsAreTwins /\ phase = "operands"
    BY <1>3, WalkMaps DEF CompareOperand, InOperands
  <2>2. DOMAIN values = ValuesIn(lhs) /\ Range(values) = ValuesIn(rhs)
    BY <2>1 DEF MapsAreTwins
  <2>3. UNCHANGED <<lhs, rhs>>  BY <1>3 DEF CompareOperand
  <2>4. PICK l, r : asked' = IF MatchValues(l, r) = "ask" THEN asked \cup {<<l, r>>}
                             ELSE asked
    BY <1>3 DEF CompareOperand
  <2>5. MatchValues(l, r) = "ask" =>
          l \notin DOMAIN values /\ r \notin Range(values) /\ l # r /\ Type[l] = Type[r]
    BY DEF MatchValues
  <2> QED  BY <2>2, <2>3, <2>4, <2>5 DEF AsksOutside
<1> QED
  BY <1>1, <1>2, <1>3 DEF Next, Compare, vars, MatchOperation, MatchRegion, MatchBlock,
     CheckOperands, NotFound, NextOperation, AllEquivalent, Finish

(* Once structure is matched, the map pairs all values inside one operation*)
(* with all inside the other, one to one: the walk goes through the parts  *)
(* of both, which nest without overlapping.                                *)
THEOREM MapsPairAllInside == Spec => []MapsAreTwins
<1>1. Init => WalkInv  BY DEF Init, WalkInv
<1>2. CheckInv /\ WalkInv /\ [Next]_vars => WalkInv'  BY WalkStep
<1>3. CheckInv /\ WalkInv => MapsAreTwins  BY WalkMaps
<1> QED  BY <1>1, <1>2, <1>3, ComparisonsFit, PTL DEF Spec

(* Only distinct values from outside the operations, of one type, are      *)
(* evaluated.                                                              *)
THEOREM AsksOnlyOutside == Spec => []AsksOutside
<1>1. Init => WalkInv /\ AsksOutside  BY DEF Init, WalkInv, AsksOutside
<1>2. CheckInv /\ WalkInv /\ AsksOutside /\ [Next]_vars => WalkInv' /\ AsksOutside'
  BY WalkStep, AsksStep
<1> QED  BY <1>1, <1>2, ComparisonsFit, PTL DEF Spec
-----------------------------------------------------------------------------
(* What the walk matched is a twin.                                        *)

IsTwin(l, r, f, g) ==
  /\ f \in Bijection(OpsIn(l), OpsIn(r)) /\ f[l] = r
  /\ g \in Bijection(BlocksIn(l), BlocksIn(r))
  /\ \A o \in OpsIn(l) : SameSignature(o, f[o]) /\ Respects(f, g, o)
  /\ \A b \in BlocksIn(l) : RespectsBlock(f, g, b)

LEMMA TwinIff ==
  ASSUME NEW l, NEW r
  PROVE  /\ \A f, g : IsTwin(l, r, f, g) => <<f, g>> \in Twins(l, r)
         /\ \A t \in Twins(l, r) : IsTwin(l, r, t[1], t[2])
<1>1. ASSUME NEW f, NEW g, IsTwin(l, r, f, g) PROVE <<f, g>> \in Twins(l, r)
  BY <1>1 DEF IsTwin, Twins
<1>2. ASSUME NEW t \in Twins(l, r) PROVE IsTwin(l, r, t[1], t[2])
  BY DEF IsTwin, Twins
<1> QED  BY <1>1, <1>2

LEMMA PartKinds ==
  ASSUME NEW o \in Op
  PROVE  /\ OpsIn(o) = Op \cap OpPart(o) /\ BlocksIn(o) = Block \cap OpPart(o)
         /\ \A p \in OpsIn(o) : p \in Op
         /\ \A b \in BlocksIn(o) : b \in Block
<1>1. OpsIn(o) \subseteq Op  BY OpsInFacts
<1>2. BlocksIn(o) \subseteq Block  BY <1>1, BlockFacts
<1>3. Op \cap Block = {}  BY NestingAssumption
<1> QED  BY <1>1, <1>2, <1>3 DEF OpPart

LEMMA MatchedKinds ==
  ASSUME NEW l \in Op, NEW r \in Op, NEW h, NEW bs, Walk(l, r, h, <<>>, bs)
  PROVE  /\ \A o \in OpsIn(l) : o \in DOMAIN h /\ OpMet(l, h, <<>>, bs, o, h[o])
         /\ \A b \in BlocksIn(l) : b \in DOMAIN h /\ BlockMet(h, <<>>, bs, b, h[b])
<1>1. /\ DOMAIN h = OpPart(l)
      /\ \A x \in DOMAIN h : \/ OpMet(l, h, <<>>, bs, x, h[x])
                             \/ BlockMet(h, <<>>, bs, x, h[x])
  BY WalkDone
<1>2. \A o \in OpsIn(l) : o \in DOMAIN h /\ o \notin Block
  BY <1>1, PartKinds, NestingAssumption
<1>3. \A b \in BlocksIn(l) : b \in DOMAIN h /\ b \notin Op
  BY <1>1, PartKinds, NestingAssumption
<1> QED  BY <1>1, <1>2, <1>3 DEF OpMet, BlockMet


LEMMA TwinBijections ==
  ASSUME NEW l \in Op, NEW r \in Op, NEW h, NEW bs, Walk(l, r, h, <<>>, bs)
  PROVE  /\ [o \in OpsIn(l) |-> h[o]] \in Bijection(OpsIn(l), OpsIn(r))
         /\ [b \in BlocksIn(l) |-> h[b]] \in Bijection(BlocksIn(l), BlocksIn(r))
<1>1. DOMAIN h = OpPart(l) /\ Range(h) = OpPart(r) /\ IsInjective(h)  BY WalkDone
<1>2. \A o \in OpsIn(l) : o \in DOMAIN h /\ h[o] \in Op
  BY MatchedKinds DEF OpMet
<1>3. \A b \in BlocksIn(l) : b \in DOMAIN h /\ h[b] \in Block
  BY MatchedKinds DEF BlockMet
<1>4. \A x \in DOMAIN h : x \in OpsIn(l) \/ x \in BlocksIn(l)
  BY <1>1 DEF OpPart
<1>5. Op \cap Block = {}  BY NestingAssumption
<1>6. \A o \in OpsIn(l) : h[o] \in OpsIn(r)
  BY <1>1, <1>2, PartKinds DEF Range
<1>7. \A b \in BlocksIn(l) : h[b] \in BlocksIn(r)
  BY <1>1, <1>3, PartKinds DEF Range
<1>8. \A p \in OpsIn(r) : \E o \in OpsIn(l) : h[o] = p
  <2> SUFFICES ASSUME NEW p \in OpsIn(r) PROVE \E o \in OpsIn(l) : h[o] = p  OBVIOUS
  <2>1. p \in Op /\ p \in Range(h)  BY <1>1, PartKinds
  <2>2. PICK x \in DOMAIN h : h[x] = p  BY <2>1 DEF Range
  <2>3. x \notin BlocksIn(l)  BY <1>3, <1>5, <2>1, <2>2
  <2> QED  BY <1>4, <2>2, <2>3
<1>9. \A c \in BlocksIn(r) : \E b \in BlocksIn(l) : h[b] = c
  <2> SUFFICES ASSUME NEW c \in BlocksIn(r) PROVE \E b \in BlocksIn(l) : h[b] = c  OBVIOUS
  <2>1. c \in Block /\ c \in Range(h)  BY <1>1, PartKinds
  <2>2. PICK x \in DOMAIN h : h[x] = c  BY <2>1 DEF Range
  <2>3. x \notin OpsIn(l)  BY <1>2, <1>5, <2>1, <2>2
  <2> QED  BY <1>4, <2>2, <2>3
<1>10. \A x, y \in DOMAIN h : h[x] = h[y] => x = y  BY <1>1 DEF IsInjective
<1> DEFINE f == [o \in OpsIn(l) |-> h[o]]
           g == [b \in BlocksIn(l) |-> h[b]]
<1>11. f \in Bijection(OpsIn(l), OpsIn(r))
  <2>1. f \in [OpsIn(l) -> OpsIn(r)]  BY <1>6
  <2>2. \A x, y \in OpsIn(l) : f[x] = f[y] => x = y  BY <1>2, <1>10
  <2>3. \A p \in OpsIn(r) : \E o \in OpsIn(l) : f[o] = p  BY <1>8
  <2> HIDE DEF f
  <2> QED  BY <2>1, <2>2, <2>3, Fun_IsBij
<1>12. g \in Bijection(BlocksIn(l), BlocksIn(r))
  <2>1. g \in [BlocksIn(l) -> BlocksIn(r)]  BY <1>7
  <2>2. \A x, y \in BlocksIn(l) : g[x] = g[y] => x = y  BY <1>3, <1>10
  <2>3. \A c \in BlocksIn(r) : \E b \in BlocksIn(l) : g[b] = c  BY <1>9
  <2> HIDE DEF g
  <2> QED  BY <2>1, <2>2, <2>3, Fun_IsBij
<1> QED  BY <1>11, <1>12

LEMMA TwinFound ==
  ASSUME NEW l \in Op, NEW r \in Op, NEW h, NEW bs, Walk(l, r, h, <<>>, bs)
  PROVE  IsTwin(l, r, [o \in OpsIn(l) |-> h[o]], [b \in BlocksIn(l) |-> h[b]])
<1> PICK f, g : f = [o \in OpsIn(l) |-> h[o]] /\ g = [b \in BlocksIn(l) |-> h[b]]
  OBVIOUS
<1>1. f \in Bijection(OpsIn(l), OpsIn(r)) /\ g \in Bijection(BlocksIn(l), BlocksIn(r))
  BY TwinBijections
<1>2. /\ DOMAIN f = OpsIn(l) /\ \A o \in OpsIn(l) : f[o] = h[o]
      /\ DOMAIN g = BlocksIn(l) /\ \A b \in BlocksIn(l) : g[b] = h[b]
  OBVIOUS
<1>3. f[l] = r
  <2>1. h[l] = r  BY WalkDone
  <2> QED  BY <1>2, <2>1, OpsInFacts
<1>4. ToSet(<<>>) = {}  BY DEF ToSet
<1>5. \A b \in DOMAIN bs : h[b] = bs[b]  BY WalkDone
<1>6. ASSUME NEW o \in OpsIn(l)
      PROVE  SameSignature(o, f[o]) /\ Respects(f, g, o)
  <2>0. OpMet(l, h, <<>>, bs, o, h[o])  BY MatchedKinds
  <2>1. /\ o \in Op /\ h[o] \in Op /\ SameSignature(o, h[o])
        /\ RegionsMet(h, <<>>, o, h[o]) /\ SuccessorsMet(l, bs, o, h[o])
    BY <2>0 DEF OpMet
  <2> PICK p \in Op : p = h[o]  BY <2>1
  <2>2. /\ Successors[o] \in Seq(Block) /\ Successors[p] \in Seq(Block)
        /\ Regions[o] \in Seq(Seq(Block)) /\ Regions[p] \in Seq(Seq(Block))
    BY <2>1, ProgramFacts
  <2>3. Successors[p] = Through(g, Successors[o])
    <3>1. Len(Successors[o]) = Len(Successors[p])  BY <2>1 DEF SuccessorsMet
    <3>2. /\ DOMAIN Successors[p] = DOMAIN Successors[o]
          /\ Successors[p] = [i \in DOMAIN Successors[p] |-> Successors[p][i]]
      BY <2>2, <3>1, LenProperties
    <3>3. ASSUME NEW i \in DOMAIN Successors[o]
          PROVE  Successors[p][i] = Apart(g, Successors[o][i])
      <4> PICK b : b = Successors[o][i]  OBVIOUS
      <4>1. IF b \in BlocksIn(l) THEN b \in DOMAIN bs /\ Successors[p][i] = bs[b]
            ELSE Successors[p][i] = b
        BY <2>1 DEF SuccessorsMet
      <4>2. b \in BlocksIn(l) => bs[b] = g[b]  BY <1>2, <1>5, <4>1
      <4> QED  BY <1>2, <4>1, <4>2 DEF Apart
    <3> QED  BY <3>2, <3>3 DEF Through
  <2>4. Regions[p] = [k \in DOMAIN Regions[o] |-> Through(g, Regions[o][k])]
    <3>1. Len(Regions[o]) = Len(Regions[p])  BY <2>1 DEF RegionsMet
    <3>2. /\ DOMAIN Regions[p] = DOMAIN Regions[o]
          /\ Regions[p] = [k \in DOMAIN Regions[p] |-> Regions[p][k]]
      BY <2>2, <3>1, LenProperties
    <3>3. ASSUME NEW k \in DOMAIN Regions[o]
          PROVE  Regions[p][k] = Through(g, Regions[o][k])
      <4> PICK s, t : s = Regions[o][k] /\ t = Regions[p][k]  OBVIOUS
      <4>1. s \in Seq(Block) /\ t \in Seq(Block)
        BY <2>2, <3>2, ElementOfSeq, LenProperties
      <4>2. Len(s) = Len(t) /\ \A i \in DOMAIN s : Met(h, <<>>, "block", s[i], t[i])
        BY <1>4, <2>1 DEF RegionsMet, RegionMet
      <4>3. DOMAIN t = DOMAIN s /\ t = [i \in DOMAIN t |-> t[i]]
        BY <4>1, <4>2, LenProperties
      <4>4. ASSUME NEW i \in DOMAIN s PROVE t[i] = Apart(g, s[i])
        <5>1. h[s[i]] = t[i]  BY <1>4, <4>2 DEF Met
        <5>2. IsBlockOf(s[i], o)  BY DEF IsBlockOf
        <5>3. s[i] \in BlocksIn(l)  BY <5>2, BlockFacts
        <5> QED  BY <1>2, <5>1, <5>3 DEF Apart
      <4> QED  BY <4>3, <4>4 DEF Through
    <3> QED  BY <3>2, <3>3
  <2> QED  BY <1>2, <2>1, <2>3, <2>4 DEF Respects
<1>7. ASSUME NEW b \in BlocksIn(l) PROVE RespectsBlock(f, g, b)
  <2>1. BlockMet(h, <<>>, bs, b, h[b])  BY MatchedKinds
  <2> PICK c : c = h[b]  OBVIOUS
  <2>2. b \in Block /\ c \in Block /\ ArgTypes(b) = ArgTypes(c) /\ BodyMet(h, <<>>, b, c)
    BY <2>1 DEF BlockMet
  <2>3. Body[c] = Through(f, Body[b])
    <3>1. /\ Len(Body[b]) = Len(Body[c])
          /\ \A j \in DOMAIN Body[b] : h[Body[b][j]] = Body[c][j]
      BY <1>4, <2>2 DEF BodyMet, Met
    <3>2. Body[b] \in Seq(Op) /\ Body[c] \in Seq(Op)  BY <2>2, ProgramFacts
    <3>3. DOMAIN Body[c] = DOMAIN Body[b] /\ Body[c] = [j \in DOMAIN Body[c] |-> Body[c][j]]
      BY <3>1, <3>2, LenProperties
    <3>4. ASSUME NEW j \in DOMAIN Body[b] PROVE Body[c][j] = Apart(f, Body[b][j])
      <4>1. PICK q \in OpsIn(l) : IsBlockOf(b, q)  BY BlockFacts
      <4>2. Body[b][j] \in Nested(q)  BY <4>1, PartKinds, BlockFacts
      <4>3. Body[b][j] \in OpsIn(l)  BY <4>1, <4>2, OpsInFacts DEF Closed
      <4> QED  BY <1>2, <3>1, <4>3 DEF Apart
    <3> QED  BY <3>3, <3>4 DEF Through
  <2> QED  BY <1>2, <2>2, <2>3 DEF RespectsBlock
<1> QED  BY <1>1, <1>3, <1>6, <1>7 DEF IsTwin
-----------------------------------------------------------------------------
(* What the maps say of operands, once they are complete.                  *)

Complete(h) ==
  /\ lhs \in Op /\ rhs \in Op
  /\ Walk(lhs, rhs, h, <<>>, blocks) /\ ValuesOf(h, values) /\ OpsOf(h, ops)
OpMap(h) == [o \in OpsIn(lhs) |-> h[o]]
BlockMap(h) == [b \in BlocksIn(lhs) |-> h[b]]

LEMMA MatchMeans ==
  ASSUME NEW h, Complete(h), NEW v \in Value, NEW w \in Value
  PROVE  /\ MatchValues(v, w) # "different" <=>
              MayCorrespond(lhs, rhs, OpMap(h), BlockMap(h), v, w)
         /\ "equal" \in CompareValues(v, w) <=>
              Corresponds(lhs, rhs, OpMap(h), BlockMap(h), v, w)
<1> PICK f, g : f = OpMap(h) /\ g = BlockMap(h)  OBVIOUS
<1>1. DOMAIN values = ValuesIn(lhs) /\ Range(values) = ValuesIn(rhs)
  BY ValuesDone DEF Complete
<1>2. v \in ValuesIn(lhs) => values[v] = Image(f, g, v)
  <2> SUFFICES ASSUME v \in ValuesIn(lhs) PROVE values[v] = Image(f, g, v)  OBVIOUS
  <2>1. values[v] = <<h[v[1]], v[2]>>  BY <1>1 DEF Complete, ValuesOf
  <2>2. v[1] \in OpsIn(lhs) \/ v[1] \in BlocksIn(lhs)  BY DEF ValuesIn
  <2>3. DOMAIN f = OpsIn(lhs) /\ \A o \in OpsIn(lhs) : f[o] = h[o]  BY DEF OpMap
  <2>4. \A b \in BlocksIn(lhs) : g[b] = h[b]  BY DEF BlockMap
  <2> QED  BY <2>1, <2>2, <2>3, <2>4 DEF Image
<1>3. v \in ValuesIn(lhs) => values[v] \in ValuesIn(rhs)  BY <1>1 DEF Range
<1>4. "equal" \notin Signal /\ "different" \notin Signal /\ "ask" \notin Signal
  BY EquivalenceAssumption
<1>5. CASE v \in ValuesIn(lhs)
  <2>1. MatchValues(v, w) = IF w = Image(f, g, v) THEN "equal" ELSE "different"
    BY <1>1, <1>2, <1>5 DEF MatchValues
  <2>2. CompareValues(v, w) = {IF w = Image(f, g, v) THEN "equal" ELSE "different"}
    BY <2>1 DEF CompareValues
  <2> QED  BY <1>5, <2>1, <2>2 DEF MayCorrespond, Corresponds
<1>6. CASE v \notin ValuesIn(lhs)
  <2>1. MatchValues(v, w) =
          IF w \in ValuesIn(rhs) THEN "different"
          ELSE IF v = w THEN "equal"
               ELSE IF Type[v] = Type[w] THEN "ask" ELSE "different"
    BY <1>1, <1>6 DEF MatchValues
  <2>2. MatchValues(v, w) # "different" <=> MayCorrespond(lhs, rhs, f, g, v, w)
    BY <1>6, <2>1 DEF MayCorrespond
  <2>3. "equal" \in CompareValues(v, w) <=>
          MayCorrespond(lhs, rhs, f, g, v, w) /\ EvaluatedValueEqual(v, w) = "equal"
    <3>1. CASE v = w
      <4>1. EvaluatedValueEqual(v, w) = "equal"  BY <3>1 DEF EvaluatedValueEqual
      <4>2. MatchValues(v, w) = IF w \in ValuesIn(rhs) THEN "different" ELSE "equal"
        BY <2>1, <3>1
      <4>3. CompareValues(v, w) = {MatchValues(v, w)}  BY <4>2 DEF CompareValues
      <4> QED  BY <1>6, <3>1, <4>1, <4>2, <4>3 DEF MayCorrespond
    <3>2. CASE v # w
      <4>1. CASE MatchValues(v, w) = "ask"
        <5>1. CompareValues(v, w) = {EvaluatedValueEqual(v, w)} \cup Signal
          BY <4>1 DEF CompareValues
        <5> QED  BY <1>4, <2>2, <4>1, <5>1
      <4>2. CASE MatchValues(v, w) # "ask"
        <5>1. MatchValues(v, w) = "different"  BY <2>1, <3>2, <4>2
        <5>2. CompareValues(v, w) = {"different"}  BY <5>1 DEF CompareValues
        <5> QED  BY <2>2, <5>1, <5>2
      <4> QED  BY <4>1, <4>2
    <3> QED  BY <3>1, <3>2
  <2> QED  BY <1>6, <2>2, <2>3 DEF Corresponds
<1> QED  BY <1>5, <1>6

LEMMA CompleteWhen ==
  ASSUME CheckInv, WalkInv, phase # "idle", todo = <<>>
  PROVE  \E h : Complete(h)
<1>1. PICK h : /\ Walk(lhs, rhs, h, <<>>, blocks) /\ ValuesOf(h, values)
               /\ OpsOf(h, ops)
  BY DEF WalkInv, Walked
<1>2. lhs \in Op /\ rhs \in Op  BY ProgramFacts DEF CheckInv, Fresh
<1> QED  BY <1>1, <1>2 DEF Complete

LEMMA CompleteTwin ==
  ASSUME NEW h, Complete(h)
  PROVE  IsTwin(lhs, rhs, OpMap(h), BlockMap(h))
BY TwinFound DEF Complete, OpMap, BlockMap

(* The operations recorded are those inside, and their operands are values.*)
LEMMA CompleteOps ==
  ASSUME NEW h, Complete(h)
  PROVE  /\ \A k \in DOMAIN ops :
              ops[k][1] \in OpsIn(lhs) /\ ops[k][2] = OpMap(h)[ops[k][1]]
         /\ \A o \in OpsIn(lhs) : \E k \in DOMAIN ops :
              ops[k][1] = o /\ ops[k][2] = OpMap(h)[o]
         /\ \A o \in OpsIn(lhs) :
              /\ o \in Op /\ OpMap(h)[o] \in Op
              /\ Operands[o] \in Seq(Value) /\ Operands[OpMap(h)[o]] \in Seq(Value)
              /\ Len(Operands[o]) = Len(Operands[OpMap(h)[o]])
              /\ IsCommutative(o) = IsCommutative(OpMap(h)[o])
<1>1. \A o \in OpsIn(lhs) : OpMap(h)[o] = h[o] /\ OpMet(lhs, h, <<>>, blocks, o, h[o])
  BY MatchedKinds DEF Complete, OpMap
<1>2. \A o \in OpsIn(lhs) : o \in Op /\ h[o] \in Op /\ SameSignature(o, h[o])
  BY <1>1 DEF OpMet
<1>3. \A k \in DOMAIN ops : ops[k][1] \in OpsIn(lhs) /\ ops[k][2] = h[ops[k][1]]
  <2>1. DOMAIN h = OpPart(lhs)  BY WalkDone DEF Complete
  <2> QED  BY <2>1, PartKinds DEF Complete, OpsOf
<1>4. \A o \in OpsIn(lhs) : \E k \in DOMAIN ops : ops[k][1] = o /\ ops[k][2] = h[o]
  <2>1. DOMAIN h = OpPart(lhs)  BY WalkDone DEF Complete
  <2>2. \A o \in OpsIn(lhs) : o \in Op \cap DOMAIN h  BY <2>1, PartKinds DEF Complete
  <2>3. \A o \in OpsIn(lhs) : \E k \in DOMAIN ops : ops[k] = <<o, h[o]>>
    BY <2>2 DEF Complete, OpsOf
  <2> QED  BY <2>3
<1>5. ASSUME NEW o \in OpsIn(lhs)
      PROVE  /\ Operands[o] \in Seq(Value) /\ Operands[h[o]] \in Seq(Value)
             /\ Len(Operands[o]) = Len(Operands[h[o]])
             /\ IsCommutative(o) = IsCommutative(h[o])
  BY <1>2, ProgramFacts DEF SameSignature, IsCommutative
<1> QED  BY <1>1, <1>2, <1>3, <1>4, <1>5

-----------------------------------------------------------------------------
(* Nothing is asked before the second pass has found the operands it looks *)
(* at in their place.                                                      *)

InPlace(l, r) ==
  \E t \in Twins(l, r) :
    \A o \in OpsIn(l) : IsCommutative(o) \/ \A i \in DOMAIN Operands[o] :
      MayCorrespond(l, r, t[1], t[2], Operands[o][i], Operands[t[1][o]][i])
FirstInv == (asked # {} \/ phase = "operands") => InPlace(lhs, rhs)

LEMMA CheckOperandsFirst ==
  ASSUME CheckInv, WalkInv, CheckOperands, phase' = "operands"
  PROVE  InPlace(lhs, rhs)
<1>1. phase = "structure" /\ todo = <<>> /\ OperandsMatch
  BY DEF CheckOperands, Finish
<1>2. PICK h : Complete(h)  BY <1>1, CompleteWhen
<1> PICK t : t = <<OpMap(h), BlockMap(h)>>  OBVIOUS
<1>3. t \in Twins(lhs, rhs)  BY <1>2, CompleteTwin, TwinIff
<1>4. ASSUME NEW o \in OpsIn(lhs), ~IsCommutative(o), NEW i \in DOMAIN Operands[o]
      PROVE  MayCorrespond(lhs, rhs, OpMap(h), BlockMap(h),
                           Operands[o][i], Operands[OpMap(h)[o]][i])
  <2>1. PICK k \in DOMAIN ops : ops[k][1] = o /\ ops[k][2] = OpMap(h)[o]
    BY <1>2, CompleteOps
  <2>2. MatchValues(Operands[o][i], Operands[OpMap(h)[o]][i]) # "different"
    BY <1>1, <1>4, <2>1 DEF OperandsMatch
  <2>3. Operands[o][i] \in Value /\ Operands[OpMap(h)[o]][i] \in Value
    <3>1. /\ Operands[o] \in Seq(Value) /\ Operands[OpMap(h)[o]] \in Seq(Value)
          /\ Len(Operands[o]) = Len(Operands[OpMap(h)[o]])
      BY <1>2, CompleteOps
    <3> QED  BY <3>1, ElementOfSeq, LenProperties
  <2> QED  BY <1>2, <2>2, <2>3, MatchMeans
<1>5. t[1] = OpMap(h) /\ t[2] = BlockMap(h)  OBVIOUS
<1>6. \A o \in OpsIn(lhs) : IsCommutative(o) \/ \A i \in DOMAIN Operands[o] :
        MayCorrespond(lhs, rhs, t[1], t[2], Operands[o][i], Operands[t[1][o]][i])
  BY <1>4, <1>5
<1> QED  BY <1>3, <1>6 DEF InPlace

LEMMA FirstStep ==
  ASSUME CheckInv, WalkInv, FirstInv, [Next]_vars
  PROVE  FirstInv'
<1>1. ASSUME NEW l \in Root, NEW r \in Root, Start(l, r) PROVE FirstInv'
  BY <1>1 DEF Start, FirstInv
<1>2. CASE CheckOperands
  <2>1. UNCHANGED <<lhs, rhs, asked>> /\ phase' \in {"operands", "idle"}
    BY <1>2 DEF CheckOperands, Finish
  <2>2. CASE phase' = "operands"
    BY <1>2, <2>1, <2>2, CheckOperandsFirst DEF FirstInv
  <2>3. CASE phase' = "idle"  BY <2>1, <2>3 DEF FirstInv
  <2> QED  BY <2>1, <2>2, <2>3
<1>3. CASE CompareOperand
  <2>1. phase = "operands" /\ UNCHANGED <<lhs, rhs>>
    BY <1>3 DEF CompareOperand, InOperands
  <2> QED  BY <2>1 DEF FirstInv
<1>4. CASE UNCHANGED <<lhs, rhs, asked>> /\ (phase' = "operands" => phase = "operands")
  BY <1>4 DEF FirstInv
<1> QED
  BY <1>1, <1>2, <1>3, <1>4 DEF Next, Compare, vars, MatchOperation, MatchRegion,
     MatchBlock, Matching, NotFound, NextOperation, AllEquivalent, InOperands, Finish

(* When a first operand is evaluated, the operations inside are matched,   *)
(* and the operands of all that are not commutative are in their place:    *)
(* those of commutative ones may yet turn out not to be.                   *)
THEOREM FixedBeforeAsked == Spec => []FixedOperandsFirst
<1>1. Init => WalkInv /\ FirstInv  BY DEF Init, WalkInv, FirstInv
<1>2. CheckInv /\ WalkInv /\ FirstInv /\ [Next]_vars => WalkInv' /\ FirstInv'
  BY WalkStep, FirstStep
<1>3. FirstInv => FixedOperandsFirst
  BY DEF FirstInv, FixedOperandsFirst, InPlace
<1> QED  BY <1>1, <1>2, <1>3, ComparisonsFit, PTL DEF Spec
-----------------------------------------------------------------------------
(* A twin is determined by the two operations, and the walk follows it.    *)

LEMMA TwinParts ==
  ASSUME NEW l \in Op, NEW r, NEW f, NEW g, IsTwin(l, r, f, g)
  PROVE  /\ DOMAIN f = OpsIn(l) /\ DOMAIN g = BlocksIn(l)
         /\ \A o \in OpsIn(l) : \A k \in DOMAIN Regions[o] :
              /\ ToSet(Regions[o][k]) \subseteq BlocksIn(l)
              /\ k \in DOMAIN Regions[f[o]]
              /\ Regions[f[o]][k] = Through(g, Regions[o][k])
         /\ \A b \in BlocksIn(l) : \A j \in DOMAIN Body[b] :
              /\ Body[b][j] \in OpsIn(l)
              /\ f[Body[b][j]] = Body[g[b]][j]
<1>1. DOMAIN f = OpsIn(l) /\ DOMAIN g = BlocksIn(l)
  BY Fun_BijectionProperties DEF IsTwin
<1>2. ASSUME NEW o \in OpsIn(l), NEW k \in DOMAIN Regions[o]
      PROVE  /\ ToSet(Regions[o][k]) \subseteq BlocksIn(l)
             /\ k \in DOMAIN Regions[f[o]]
             /\ Regions[f[o]][k] = Through(g, Regions[o][k])
  <2>1. \A b \in ToSet(Regions[o][k]) : IsBlockOf(b, o)  BY DEF IsBlockOf, ToSet
  <2>2. ToSet(Regions[o][k]) \subseteq BlocksIn(l)  BY <2>1, BlockFacts
  <2>3. Regions[f[o]] = [m \in DOMAIN Regions[o] |-> Through(g, Regions[o][m])]
    BY DEF IsTwin, Respects
  <2> QED  BY <2>2, <2>3
<1>3. ASSUME NEW b \in BlocksIn(l), NEW j \in DOMAIN Body[b]
      PROVE  Body[b][j] \in OpsIn(l) /\ f[Body[b][j]] = Body[g[b]][j]
  <2>1. PICK q \in OpsIn(l) : IsBlockOf(b, q)  BY BlockFacts
  <2>2. Body[b][j] \in Nested(q)  BY <2>1, PartKinds, BlockFacts
  <2>3. Body[b][j] \in OpsIn(l)  BY <2>1, <2>2, OpsInFacts DEF Closed
  <2>4. Body[g[b]] = Through(f, Body[b])  BY DEF IsTwin, RespectsBlock
  <2>5. Body[g[b]][j] = Apart(f, Body[b][j])  BY <2>4 DEF Through
  <2> QED  BY <1>1, <2>3, <2>5 DEF Apart
<1> QED  BY <1>1, <1>2, <1>3

LEMMA ThroughAt ==
  ASSUME NEW g, NEW s, ToSet(s) \subseteq DOMAIN g
  PROVE  /\ DOMAIN Through(g, s) = DOMAIN s
         /\ \A i \in DOMAIN s : Through(g, s)[i] = g[s[i]]
BY DEF Through, Apart, ToSet

LEMMA OneTwin ==
  ASSUME NEW l \in Op, NEW r, NEW f, NEW g, IsTwin(l, r, f, g),
         NEW d, NEW e, IsTwin(l, r, d, e)
  PROVE  f = d /\ g = e
<1>1. /\ DOMAIN f = OpsIn(l) /\ DOMAIN g = BlocksIn(l)
      /\ DOMAIN d = OpsIn(l) /\ DOMAIN e = BlocksIn(l)
  BY TwinParts
<1>2. ASSUME NEW o \in OpsIn(l), f[o] = d[o], NEW k \in DOMAIN Regions[o],
             NEW i \in DOMAIN Regions[o][k]
      PROVE  g[Regions[o][k][i]] = e[Regions[o][k][i]]
  <2> PICK s : s = Regions[o][k]  OBVIOUS
  <2>1. ToSet(s) \subseteq BlocksIn(l) /\ Regions[f[o]][k] = Through(g, s)
    BY TwinParts
  <2>2. Regions[d[o]][k] = Through(e, s)  BY TwinParts
  <2>3. Through(g, s)[i] = g[s[i]] /\ Through(e, s)[i] = e[s[i]]
    BY <1>1, <2>1, ThroughAt
  <2> QED  BY <1>2, <2>1, <2>2, <2>3
<1> DEFINE S == {o \in OpsIn(l) : f[o] = d[o]}
<1>3. Closed(S)
  <2> SUFFICES ASSUME NEW o \in S, NEW p \in Nested(o) PROVE p \in S  BY DEF Closed
  <2>1. o \in OpsIn(l) /\ f[o] = d[o] /\ o \in Op  BY PartKinds
  <2>2. PICK b : IsBlockOf(b, o) /\ \E j \in DOMAIN Body[b] : p = Body[b][j]
    BY <2>1, BlockFacts
  <2>3. PICK j \in DOMAIN Body[b] : p = Body[b][j]  BY <2>2
  <2>4. b \in BlocksIn(l)  BY <2>1, <2>2, BlockFacts
  <2>5. g[b] = e[b]
    <3>1. PICK k \in DOMAIN Regions[o] : \E i \in DOMAIN Regions[o][k] : b = Regions[o][k][i]
      BY <2>2 DEF IsBlockOf
    <3> QED  BY <1>2, <2>1, <3>1
  <2>6. p \in OpsIn(l) /\ f[p] = Body[g[b]][j]  BY <2>3, <2>4, TwinParts
  <2>7. d[p] = Body[e[b]][j]  BY <2>3, <2>4, TwinParts
  <2> QED  BY <2>5, <2>6, <2>7
<1>4. l \in S  BY OpsInFacts DEF IsTwin
<1>5. OpsIn(l) \subseteq S
  <2> HIDE DEF S
  <2> QED  BY <1>3, <1>4, OpsInLeast
<1>6. \A o \in OpsIn(l) : f[o] = d[o]  BY <1>5
<1>7. ASSUME NEW b \in BlocksIn(l) PROVE g[b] = e[b]
  <2>1. PICK o \in OpsIn(l) : IsBlockOf(b, o)  BY BlockFacts
  <2>2. PICK k \in DOMAIN Regions[o] : \E i \in DOMAIN Regions[o][k] : b = Regions[o][k][i]
    BY <2>1 DEF IsBlockOf
  <2> QED  BY <1>2, <1>6, <2>2
<1>8. /\ f = [o \in OpsIn(l) |-> f[o]] /\ d = [o \in OpsIn(l) |-> d[o]]
      /\ g = [b \in BlocksIn(l) |-> g[b]] /\ e = [b \in BlocksIn(l) |-> e[b]]
  BY Fun_BijectionProperties DEF IsTwin
<1>9. [o \in OpsIn(l) |-> f[o]] = [o \in OpsIn(l) |-> d[o]]  BY <1>6
<1>10. [b \in BlocksIn(l) |-> g[b]] = [b \in BlocksIn(l) |-> e[b]]  BY <1>7
<1> QED  BY <1>8, <1>9, <1>10

ForcedTask(l, f, g, t) ==
  \/ t.kind = "operation" /\ t.l \in OpsIn(l) /\ t.r = f[t.l]
  \/ t.kind = "region" /\ ToSet(t.l) \subseteq BlocksIn(l) /\ t.r = Through(g, t.l)
  \/ t.kind = "block" /\ t.l \in BlocksIn(l) /\ t.r = g[t.l]
Forced(l, f, g, s, bs) ==
  /\ \A t \in ToSet(s) : ForcedTask(l, f, g, t)
  /\ \A b \in DOMAIN bs : b \in BlocksIn(l) /\ bs[b] = g[b]

LEMMA ForcedStart ==
  ASSUME NEW l \in Op, NEW r, NEW f, NEW g, IsTwin(l, r, f, g)
  PROVE  Forced(l, f, g, Pairs("operation", <<l>>, <<r>>), NoMap)
<1>1. ToSet(Pairs("operation", <<l>>, <<r>>)) = {PairTask("operation", l, r)}
  BY DEF Pairs, ToSet, PairTask
<1>2. ForcedTask(l, f, g, PairTask("operation", l, r))
  BY OpsInFacts DEF ForcedTask, PairTask, IsTwin
<1>3. DOMAIN NoMap = {}  BY DEF NoMap
<1> QED  BY <1>1, <1>2, <1>3 DEF Forced

LEMMA ForcedThen ==
  ASSUME NEW l, NEW f, NEW g, NEW s \in Seq(Task), s # <<>>, NEW bs,
         Forced(l, f, g, s, bs), NEW tasks \in Seq(Task),
         \A t \in ToSet(tasks) : ForcedTask(l, f, g, t)
  PROVE  \A t \in ToSet(tasks \o Tail(s)) : ForcedTask(l, f, g, t)
<1>1. ToSet(tasks \o Tail(s)) \subseteq ToSet(tasks) \cup ToSet(s)  BY ThenSet
<1> QED  BY <1>1 DEF Forced

LEMMA ForcedOperation ==
  ASSUME NEW l \in Op, NEW r \in Op, NEW h, NEW s \in Seq(Task), s # <<>>, NEW bs,
         Walk(l, r, h, s, bs), NEW x \in Op, NEW y \in Op,
         Head(s) = PairTask("operation", x, y),
         NEW f, NEW g, IsTwin(l, r, f, g), Forced(l, f, g, s, bs)
  PROVE  /\ SameOperation(x, y) /\ SuccessorsThrough(bs, x, y)
         /\ Forced(l, f, g, Pairs("region", Regions[x], Regions[y]) \o Tail(s), bs)
<1>1. Head(s) \in ToSet(s)  BY ThenSet, EmptySeq
<1>2. ForcedTask(l, f, g, Head(s)) /\ TaskPlaced(l, h, bs, Head(s))
  BY <1>1 DEF Forced, Walk
<1>3. x \in OpsIn(l) /\ y = f[x]  BY <1>2 DEF ForcedTask, PairTask
<1>4. SameSignature(x, y) /\ Respects(f, g, x)  BY <1>3 DEF IsTwin
<1>5. /\ Successors[y] = Through(g, Successors[x])
      /\ Regions[y] = [k \in DOMAIN Regions[x] |-> Through(g, Regions[x][k])]
  BY <1>3, <1>4 DEF Respects
<1>6. /\ Successors[x] \in Seq(Block) /\ Successors[y] \in Seq(Block)
      /\ Regions[x] \in Seq(Seq(Block)) /\ Regions[y] \in Seq(Seq(Block))
  BY ProgramFacts
<1>7. Len(Regions[x]) = Len(Regions[y])
  <2>1. DOMAIN Regions[y] = DOMAIN Regions[x]  BY <1>5
  <2> QED  BY <1>6, <2>1, LenProperties
<1>8. DOMAIN Successors[y] = DOMAIN Successors[x]
      /\ Len(Successors[x]) = Len(Successors[y])
  <2>1. DOMAIN Successors[y] = DOMAIN Successors[x]  BY <1>5 DEF Through
  <2> QED  BY <1>6, <2>1, LenProperties
<1>9. SameOperation(x, y)  BY <1>4, <1>7, <1>8 DEF SameOperation, SameSignature
<1>10. SuccessorsThrough(bs, x, y)
  <2> SUFFICES ASSUME NEW i \in DOMAIN Successors[x]
               PROVE  Successors[y][i] = Apart(bs, Successors[x][i])
    BY DEF SuccessorsThrough
  <2> PICK b : b = Successors[x][i]  OBVIOUS
  <2>1. Successors[y][i] = Apart(g, b)  BY <1>5 DEF Through
  <2>2. b \in ToSet(Successors[x])  BY DEF ToSet
  <2>3. x = l \/ \E c \in Block \cap DOMAIN h : x \in ToSet(Body[c])
    BY <1>2 DEF TaskPlaced, PairTask
  <2>4. b \in BlocksIn(l) <=> b \in DOMAIN bs  BY <2>2, <2>3, SuccessorsPlaced
  <2>5. DOMAIN g = BlocksIn(l)  BY TwinParts
  <2>6. b \in DOMAIN bs => bs[b] = g[b]  BY DEF Forced
  <2> QED  BY <2>1, <2>4, <2>5, <2>6 DEF Apart
<1> PICK tasks : tasks = Pairs("region", Regions[x], Regions[y])  OBVIOUS
<1>11. tasks \in Seq(Task)
  <2>1. [kind : {"region"}, l : Seq(Block), r : Seq(Block)] \subseteq Task  BY DEF Task
  <2> QED  BY <1>6, <1>7, <2>1, PairsFit
<1>12. ToSet(tasks) = {PairTask("region", Regions[x][k], Regions[y][k]) : k \in DOMAIN Regions[x]}
  BY DEF Pairs, ToSet, PairTask
<1>13. \A t \in ToSet(tasks) : ForcedTask(l, f, g, t)
  <2>1. ASSUME NEW k \in DOMAIN Regions[x]
        PROVE  ForcedTask(l, f, g, PairTask("region", Regions[x][k], Regions[y][k]))
    <3>1. ToSet(Regions[x][k]) \subseteq BlocksIn(l) /\ Regions[y][k] = Through(g, Regions[x][k])
      BY <1>3, TwinParts
    <3> QED  BY <3>1 DEF ForcedTask, PairTask
  <2> QED  BY <1>12, <2>1
<1>14. Forced(l, f, g, tasks \o Tail(s), bs)
  BY <1>11, <1>13, ForcedThen DEF Forced
<1> QED  BY <1>9, <1>10, <1>14

LEMMA ForcedRegion ==
  ASSUME NEW l \in Op, NEW r \in Op, NEW s \in Seq(Task), s # <<>>, NEW bs,
         NEW x \in Seq(Block), NEW y \in Seq(Block),
         Head(s) = PairTask("region", x, y),
         NEW f, NEW g, IsTwin(l, r, f, g), Forced(l, f, g, s, bs)
  PROVE  /\ Len(x) = Len(y)
         /\ \A cs : BlocksGrow(bs, cs, x, y) =>
              Forced(l, f, g, Pairs("block", x, y) \o Tail(s), cs)
<1>1. Head(s) \in ToSet(s)  BY ThenSet, EmptySeq
<1>2. ForcedTask(l, f, g, Head(s))  BY <1>1 DEF Forced
<1>3. ToSet(x) \subseteq BlocksIn(l) /\ y = Through(g, x)
  BY <1>2 DEF ForcedTask, PairTask
<1>4. DOMAIN g = BlocksIn(l)  BY TwinParts
<1>5. DOMAIN y = DOMAIN x /\ \A i \in DOMAIN x : y[i] = g[x[i]]
  BY <1>3, <1>4, ThroughAt
<1>6. Len(x) = Len(y)  BY <1>5, LenProperties
<1> PICK tasks : tasks = Pairs("block", x, y)  OBVIOUS
<1>7. tasks \in Seq(Task)
  <2>1. [kind : {"block"}, l : Block, r : Block] \subseteq Task  BY DEF Task
  <2> QED  BY <1>6, <2>1, PairsFit
<1>8. ToSet(tasks) = {PairTask("block", x[i], y[i]) : i \in DOMAIN x}
  BY DEF Pairs, ToSet, PairTask
<1>9. \A t \in ToSet(tasks) : ForcedTask(l, f, g, t)
  <2>1. ASSUME NEW i \in DOMAIN x PROVE ForcedTask(l, f, g, PairTask("block", x[i], y[i]))
    <3>1. x[i] \in BlocksIn(l) /\ y[i] = g[x[i]]  BY <1>3, <1>5 DEF ToSet
    <3> QED  BY <3>1 DEF ForcedTask, PairTask
  <2> QED  BY <1>8, <2>1
<1>10. ASSUME NEW cs, BlocksGrow(bs, cs, x, y)
       PROVE  Forced(l, f, g, tasks \o Tail(s), cs)
  <2>1. /\ DOMAIN cs = DOMAIN bs \cup ToSet(x)
        /\ \A b \in DOMAIN bs : cs[b] = bs[b]
        /\ \A b \in ToSet(x) \ DOMAIN bs : cs[b] = y[CHOOSE i \in DOMAIN x : x[i] = b]
    BY <1>10 DEF BlocksGrow
  <2>2. ASSUME NEW b \in DOMAIN cs PROVE b \in BlocksIn(l) /\ cs[b] = g[b]
    <3>1. CASE b \in DOMAIN bs  BY <2>1, <3>1 DEF Forced
    <3>2. CASE b \notin DOMAIN bs
      <4> PICK i : i = CHOOSE j \in DOMAIN x : x[j] = b  OBVIOUS
      <4>1. b \in ToSet(x) /\ cs[b] = y[i]  BY <2>1, <3>2
      <4>2. i \in DOMAIN x /\ x[i] = b  BY <4>1 DEF ToSet
      <4> QED  BY <1>3, <1>5, <4>1, <4>2
    <3> QED  BY <3>1, <3>2
  <2>3. \A t \in ToSet(tasks \o Tail(s)) : ForcedTask(l, f, g, t)
    BY <1>7, <1>9, ForcedThen
  <2> QED  BY <2>2, <2>3 DEF Forced
<1> QED  BY <1>6, <1>10

LEMMA ForcedBlock ==
  ASSUME NEW l \in Op, NEW r \in Op, NEW s \in Seq(Task), s # <<>>, NEW bs,
         NEW x \in Block, NEW y \in Block, Head(s) = PairTask("block", x, y),
         NEW f, NEW g, IsTwin(l, r, f, g), Forced(l, f, g, s, bs)
  PROVE  /\ ArgTypes(x) = ArgTypes(y) /\ Len(Body[x]) = Len(Body[y])
         /\ Forced(l, f, g, Pairs("operation", Body[x], Body[y]) \o Tail(s), bs)
<1>1. Head(s) \in ToSet(s)  BY ThenSet, EmptySeq
<1>2. ForcedTask(l, f, g, Head(s))  BY <1>1 DEF Forced
<1>3. x \in BlocksIn(l) /\ y = g[x]  BY <1>2 DEF ForcedTask, PairTask
<1>4. ArgTypes(y) = ArgTypes(x) /\ Body[y] = Through(f, Body[x])
  BY <1>3 DEF IsTwin, RespectsBlock
<1>5. Body[x] \in Seq(Op) /\ Body[y] \in Seq(Op)  BY ProgramFacts
<1>6. Len(Body[x]) = Len(Body[y])
  <2>1. DOMAIN Body[y] = DOMAIN Body[x]  BY <1>4 DEF Through
  <2> QED  BY <1>5, <2>1, LenProperties
<1> PICK tasks : tasks = Pairs("operation", Body[x], Body[y])  OBVIOUS
<1>7. tasks \in Seq(Task)
  <2>1. [kind : {"operation"}, l : Op, r : Op] \subseteq Task  BY DEF Task
  <2> QED  BY <1>5, <1>6, <2>1, PairsFit
<1>8. ToSet(tasks) = {PairTask("operation", Body[x][j], Body[y][j]) : j \in DOMAIN Body[x]}
  BY DEF Pairs, ToSet, PairTask
<1>9. \A t \in ToSet(tasks) : ForcedTask(l, f, g, t)
  <2>1. ASSUME NEW j \in DOMAIN Body[x]
        PROVE  ForcedTask(l, f, g, PairTask("operation", Body[x][j], Body[y][j]))
    <3>1. Body[x][j] \in OpsIn(l) /\ f[Body[x][j]] = Body[y][j]  BY <1>3, TwinParts
    <3> QED  BY <3>1 DEF ForcedTask, PairTask
  <2> QED  BY <1>8, <2>1
<1>10. Forced(l, f, g, tasks \o Tail(s), bs)
  BY <1>7, <1>9, ForcedThen DEF Forced
<1> QED  BY <1>4, <1>6, <1>10

-----------------------------------------------------------------------------
(* The greedy choice of a counterpart for each operand: R is which operands *)
(* go together, and f the choice for the first n of the left operation.    *)
Chosen(R, o, p, n, used, f) ==
  /\ f \in [1..n -> DOMAIN Operands[p]]
  /\ \A a, b \in 1..n : f[a] = f[b] => a = b
  /\ used = {f[i] : i \in 1..n}
  /\ \A i \in 1..n : <<Operands[o][i], Operands[p][f[i]]>> \in R
  /\ ~IsCommutative(o) => \A i \in 1..n : f[i] = i
OperandsAgree(R, o, p) ==
  \E order \in Orders(o) : \A i \in DOMAIN Operands[o] :
    <<Operands[o][i], Operands[p][order[i]]>> \in R
Free(o, n, used, j) == IF IsCommutative(o) THEN j \notin used ELSE j = n + 1
(* Two that go with one go with the same ones.                             *)
Difunctional(R) ==
  \A a, b, c, d : <<a, c>> \in R /\ <<b, c>> \in R /\ <<a, d>> \in R => <<b, d>> \in R

LEMMA ChosenNone ==
  ASSUME NEW R, NEW o, NEW p
  PROVE  \E f : Chosen(R, o, p, 0, {}, f)
<1> PICK f : f = [i \in 1..0 |-> 0]  OBVIOUS
<1>1. Chosen(R, o, p, 0, {}, f)  BY DEF Chosen
<1> QED  BY <1>1

LEMMA ChosenMore ==
  ASSUME NEW R, NEW o, NEW p, NEW n \in Nat, NEW used, NEW f, Chosen(R, o, p, n, used, f),
         NEW j \in DOMAIN Operands[p], Free(o, n, used, j),
         <<Operands[o][n + 1], Operands[p][j]>> \in R
  PROVE  \E e : Chosen(R, o, p, n + 1, used \cup {j}, e)
<1> PICK e : e = [i \in 1..(n + 1) |-> IF i = n + 1 THEN j ELSE f[i]]  OBVIOUS
<1>1. /\ DOMAIN e = 1..(n + 1) /\ e[n + 1] = j
      /\ \A i \in 1..n : e[i] = f[i] /\ i \in 1..(n + 1)
      /\ \A i \in 1..(n + 1) : i = n + 1 \/ i \in 1..n
      /\ n + 1 \in 1..(n + 1)
  OBVIOUS
<1>2. e \in [1..(n + 1) -> DOMAIN Operands[p]]  BY DEF Chosen
<1>3. \A i \in 1..n : f[i] # j
  <2>1. CASE IsCommutative(o)  BY <2>1 DEF Free, Chosen
  <2>2. CASE ~IsCommutative(o)  BY <2>2 DEF Free, Chosen
  <2> QED  BY <2>1, <2>2
<1>4. \A a, b \in 1..(n + 1) : e[a] = e[b] => a = b
  <2> SUFFICES ASSUME NEW a \in 1..(n + 1), NEW b \in 1..(n + 1), e[a] = e[b] PROVE a = b
    OBVIOUS
  <2>1. CASE a = n + 1  BY <1>1, <1>3, <2>1
  <2>2. CASE b = n + 1  BY <1>1, <1>3, <2>2
  <2>3. CASE a \in 1..n /\ b \in 1..n  BY <1>1, <2>3 DEF Chosen
  <2> QED  BY <1>1, <2>1, <2>2, <2>3
<1>5. used \cup {j} = {e[i] : i \in 1..(n + 1)}  BY <1>1 DEF Chosen
<1>6. \A i \in 1..(n + 1) : <<Operands[o][i], Operands[p][e[i]]>> \in R
  BY <1>1 DEF Chosen
<1>7. ~IsCommutative(o) => \A i \in 1..(n + 1) : e[i] = i  BY <1>1 DEF Chosen, Free
<1>8. Chosen(R, o, p, n + 1, used \cup {j}, e)
  BY <1>2, <1>4, <1>5, <1>6, <1>7 DEF Chosen
<1> QED  BY <1>8

(* A complete choice is an order.                                          *)
LEMMA ChosenAll ==
  ASSUME NEW R, NEW o, NEW p, NEW n \in Nat, NEW used, NEW f, Chosen(R, o, p, n, used, f),
         DOMAIN Operands[o] = 1..n, DOMAIN Operands[p] = 1..n
  PROVE  OperandsAgree(R, o, p)
<1> PICK D : D = 1..n  OBVIOUS
<1>1. /\ DOMAIN Operands[o] = D /\ DOMAIN Operands[p] = D
      /\ f \in [D -> D] /\ \A a, b \in D : f[a] = f[b] => a = b
      /\ \A i \in D : <<Operands[o][i], Operands[p][f[i]]>> \in R
  BY DEF Chosen
<1>2. f \in Orders(o)
  <2>1. CASE IsCommutative(o)
    <3>1. IsFiniteSet(D)  BY FS_Interval
    <3>2. f \in Injection(D, D)  BY <1>1, Fun_IsInj
    <3>3. f \in Surjection(D, D)  BY <3>1, <3>2, FS_Injection
    <3>4. f \in Bijection(D, D)  BY <3>2, <3>3, Fun_IsBij
    <3> QED  BY <1>1, <2>1, <3>4 DEF Orders
  <2>2. CASE ~IsCommutative(o)
    <3>1. \A i \in D : f[i] = i  BY <2>2 DEF Chosen
    <3>2. f = [i \in D |-> i]  BY <1>1, <3>1
    <3> QED  BY <1>1, <2>2, <3>2 DEF Orders
  <2> QED  BY <2>1, <2>2
<1> QED  BY <1>1, <1>2 DEF OperandsAgree

OneToOne(s, S) == \A a, b \in S : s[a] = s[b] => a = b

LEMMA Permutes ==
  ASSUME NEW S, NEW T, NEW s \in Bijection(S, T)
  PROVE  s \in [S -> T] /\ OneToOne(s, S)
BY Fun_BijectionProperties DEF OneToOne

(* Those that go with operand n + 1 are all taken, by as many operands     *)
(* before it, and an order would have to find one more.                    *)
LEMMA ChosenPigeonhole ==
  ASSUME NEW R, Difunctional(R), NEW o, NEW p, NEW n \in Nat, NEW N \in Nat, n < N,
         DOMAIN Operands[o] = 1..N, DOMAIN Operands[p] = 1..N,
         NEW used, NEW f, Chosen(R, o, p, n, used, f),
         \A j \in 1..N : <<Operands[o][n + 1], Operands[p][j]>> \in R => j \in used,
         NEW s \in Bijection(1..N, 1..N),
         \A i \in 1..N : <<Operands[o][i], Operands[p][s[i]]>> \in R
  PROVE  FALSE
<1> DEFINE K == {j \in 1..N : <<Operands[o][n + 1], Operands[p][j]>> \in R}
           I == {i \in 1..n : f[i] \in K}
           M == I \cup {n + 1}
<1>1. n + 1 \in 1..N /\ n + 1 \notin 1..n /\ 1..n \subseteq 1..N  OBVIOUS
<1>2. s \in [1..N -> 1..N] /\ \A a, b \in 1..N : s[a] = s[b] => a = b
  <2>1. s \in [1..N -> 1..N]  BY Permutes, Zenon
  <2>2. OneToOne(s, 1..N)  BY Permutes, Zenon
  <2> QED  BY <2>1, <2>2 DEF OneToOne
<1>3. \A i \in I : s[i] \in K
  <2> SUFFICES ASSUME NEW i \in I PROVE s[i] \in K  OBVIOUS
  <2>1. i \in 1..n /\ i \in 1..N /\ s[i] \in 1..N  BY <1>1, <1>2
  <2>2. <<Operands[o][i], Operands[p][f[i]]>> \in R  BY <2>1 DEF Chosen
  <2>3. <<Operands[o][n + 1], Operands[p][f[i]]>> \in R  OBVIOUS
  <2>4. <<Operands[o][i], Operands[p][s[i]]>> \in R  BY <2>1
  <2>5. <<Operands[o][n + 1], Operands[p][s[i]]>> \in R
    BY <2>2, <2>3, <2>4 DEF Difunctional
  <2> QED  BY <2>1, <2>5
<1>4. s[n + 1] \in K  BY <1>1, <1>2
<1>5. IsFiniteSet(I) /\ IsFiniteSet(K) /\ Cardinality(I) \in Nat
  <2>1. IsFiniteSet(1..n) /\ IsFiniteSet(1..N)  BY FS_Interval
  <2>2. I \in SUBSET (1..n) /\ K \in SUBSET (1..N)  OBVIOUS
  <2>3. IsFiniteSet(I) /\ IsFiniteSet(K)  BY <2>1, <2>2, FS_Subset
  <2> QED  BY <2>3, FS_CardinalityType
<1>6. Cardinality(K) <= Cardinality(I)
  <2> DEFINE e == [i \in I |-> f[i]]
  <2>1. e \in [I -> K]  OBVIOUS
  <2>2. \A j \in K : \E i \in I : e[i] = j
    <3> SUFFICES ASSUME NEW j \in K PROVE \E i \in I : e[i] = j  OBVIOUS
    <3>1. j \in used  OBVIOUS
    <3>2. PICK i \in 1..n : f[i] = j  BY <3>1 DEF Chosen
    <3>3. i \in I  BY <3>2
    <3> QED  BY <3>2, <3>3
  <2>3. e \in Surjection(I, K)
    <3> HIDE DEF e, I, K
    <3> QED  BY <2>1, <2>2, Fun_IsSurj
  <2> HIDE DEF e, I, K
  <2> QED  BY <1>5, <2>3, FS_Surjection
<1>7. Cardinality(M) <= Cardinality(K)
  <2> DEFINE e == [i \in M |-> s[i]]
  <2>1. e \in [M -> K]  BY <1>3, <1>4
  <2>2. \A a, b \in M : e[a] = e[b] => a = b
    <3>1. M \subseteq 1..N  BY <1>1
    <3> QED  BY <1>2, <3>1
  <2>3. e \in Injection(M, K)
    <3> HIDE DEF e, M, K
    <3> QED  BY <2>1, <2>2, Fun_IsInj
  <2> HIDE DEF e, M, K
  <2> QED  BY <1>5, <2>3, FS_Injection
<1>8. Cardinality(M) = Cardinality(I) + 1
  <2>1. n + 1 \notin I  BY <1>1
  <2> HIDE DEF I
  <2> QED  BY <1>5, <2>1, FS_AddElement
<1>9. Cardinality(K) \in Nat
  <2> HIDE DEF K
  <2> QED  BY <1>5, FS_CardinalityType
<1> HIDE DEF K, I, M
<1> QED  BY <1>5, <1>6, <1>7, <1>8, <1>9

LEMMA ChosenStuck ==
  ASSUME NEW R, Difunctional(R), NEW o, NEW p, NEW n \in Nat, NEW N \in Nat, n < N,
         DOMAIN Operands[o] = 1..N, DOMAIN Operands[p] = 1..N,
         NEW used, NEW f, Chosen(R, o, p, n, used, f),
         \A j \in 1..N : Free(o, n, used, j) => <<Operands[o][n + 1], Operands[p][j]>> \notin R
  PROVE  ~OperandsAgree(R, o, p)
<1> SUFFICES ASSUME NEW s \in Orders(o),
                    \A i \in 1..N : <<Operands[o][i], Operands[p][s[i]]>> \in R
             PROVE  FALSE
  BY DEF OperandsAgree
<1>1. n + 1 \in 1..N  OBVIOUS
<1>2. CASE IsCommutative(o)
  <2>1. s \in Bijection(1..N, 1..N)  BY <1>2 DEF Orders
  <2>2. \A j \in 1..N : <<Operands[o][n + 1], Operands[p][j]>> \in R => j \in used
    BY <1>2 DEF Free
  <2> QED  BY <2>1, <2>2, ChosenPigeonhole
<1>3. CASE ~IsCommutative(o)
  <2>1. s = [i \in 1..N |-> i]  BY <1>3 DEF Orders
  <2>2. s[n + 1] = n + 1  BY <1>1, <2>1
  <2>3. Free(o, n, used, n + 1)  BY <1>3 DEF Free
  <2> QED  BY <1>1, <2>2, <2>3
<1> QED  BY <1>2, <1>3
-----------------------------------------------------------------------------
(* What the third pass finds to go together.                               *)
Agreed == {p \in Value \X Value : "equal" \in CompareValues(p[1], p[2])}
Known(v, w) ==
  v = w \/ (Type[v] = Type[w] /\ Meaning[v] # Null /\ Meaning[v] = Meaning[w])

LEMMA CompareAnswers ==
  ASSUME NEW v, NEW w
  PROVE  /\ "equal" \in CompareValues(v, w) <=>
              IF v \in DOMAIN values THEN values[v] = w
              ELSE w \notin Range(values) /\ Known(v, w)
         /\ "different" \in CompareValues(v, w) => "equal" \notin CompareValues(v, w)
         /\ MatchValues(v, w) = "different" => "equal" \notin CompareValues(v, w)
<1>1. "equal" \notin Signal /\ "different" \notin Signal /\ "ask" \notin Signal
  BY EquivalenceAssumption
<1>2. CASE v \in DOMAIN values
  <2>1. MatchValues(v, w) = IF values[v] = w THEN "equal" ELSE "different"
    BY <1>2 DEF MatchValues
  <2>2. CompareValues(v, w) = {IF values[v] = w THEN "equal" ELSE "different"}
    BY <2>1 DEF CompareValues
  <2> QED  BY <1>2, <2>1, <2>2
<1>3. CASE v \notin DOMAIN values
  <2>1. MatchValues(v, w) =
          IF w \in Range(values) THEN "different"
          ELSE IF v = w THEN "equal"
               ELSE IF Type[v] = Type[w] THEN "ask" ELSE "different"
    BY <1>3 DEF MatchValues
  <2>2. CASE MatchValues(v, w) = "ask"
    <3>1. w \notin Range(values) /\ v # w /\ Type[v] = Type[w]  BY <2>1, <2>2
    <3>2. CompareValues(v, w) = {EvaluatedValueEqual(v, w)} \cup Signal
      BY <2>2 DEF CompareValues
    <3>3. EvaluatedValueEqual(v, w) = IF Known(v, w) THEN "equal" ELSE "different"
      BY <3>1 DEF EvaluatedValueEqual, Known
    <3> QED  BY <1>1, <1>3, <2>2, <3>1, <3>2, <3>3
  <2>3. CASE MatchValues(v, w) # "ask"
    <3>1. CompareValues(v, w) = {MatchValues(v, w)}  BY <2>3 DEF CompareValues
    <3>2. MatchValues(v, w) = "equal" <=> w \notin Range(values) /\ Known(v, w)
      BY <2>1, <2>3 DEF Known
    <3> QED  BY <1>3, <3>1, <3>2
  <2> QED  BY <2>2, <2>3
<1> QED  BY <1>2, <1>3

LEMMA AgreedTwoWays ==
  ASSUME IsInjective(values)
  PROVE  Difunctional(Agreed)
<1> SUFFICES ASSUME NEW a, NEW b, NEW c, NEW d,
                    <<a, c>> \in Agreed, <<b, c>> \in Agreed, <<a, d>> \in Agreed
             PROVE  <<b, d>> \in Agreed
  BY DEF Difunctional
<1>1. a \in Value /\ b \in Value /\ c \in Value /\ d \in Value
  BY DEF Agreed
<1>2. \A v, w : <<v, w>> \in Agreed => "equal" \in CompareValues(v, w)
  BY DEF Agreed
<1>3. /\ IF a \in DOMAIN values THEN values[a] = c ELSE c \notin Range(values) /\ Known(a, c)
      /\ IF b \in DOMAIN values THEN values[b] = c ELSE c \notin Range(values) /\ Known(b, c)
      /\ IF a \in DOMAIN values THEN values[a] = d ELSE d \notin Range(values) /\ Known(a, d)
  BY <1>2, CompareAnswers
<1>4. \A v \in DOMAIN values : values[v] \in Range(values)  BY DEF Range
<1>5. CASE c \in Range(values)
  <2>1. a \in DOMAIN values /\ b \in DOMAIN values /\ values[a] = values[b]
    BY <1>3, <1>5
  <2>2. a = b  BY <2>1 DEF IsInjective
  <2> QED  BY <2>2
<1>6. CASE c \notin Range(values)
  <2>1. /\ b \notin DOMAIN values /\ d \notin Range(values)
        /\ Known(a, c) /\ Known(b, c) /\ Known(a, d)
    BY <1>3, <1>4, <1>6
  <2>2. Known(b, d)  BY <2>1 DEF Known
  <2>3. "equal" \in CompareValues(b, d)  BY <2>1, <2>2, CompareAnswers
  <2> QED  BY <1>1, <2>3 DEF Agreed
<1> QED  BY <1>5, <1>6

(* Once all is matched, the operations are equivalent exactly if the       *)
(* operands of each pair recorded agree: there is no other twin.           *)
LEMMA AgreedMeans ==
  ASSUME NEW h, Complete(h), lhs # rhs
  PROVE  Equivalent(lhs, rhs) <=>
           \A k \in DOMAIN ops : OperandsAgree(Agreed, ops[k][1], ops[k][2])
<1> PICK f, g : f = OpMap(h) /\ g = BlockMap(h)  OBVIOUS
<1>1. IsTwin(lhs, rhs, f, g)  BY CompleteTwin
<1>2. Equivalent(lhs, rhs) <=> OperandsCorrespond(lhs, rhs, f, g)
  <2>1. ASSUME Equivalent(lhs, rhs) PROVE OperandsCorrespond(lhs, rhs, f, g)
    <3>1. PICK t \in Twins(lhs, rhs) : OperandsCorrespond(lhs, rhs, t[1], t[2])
      BY <2>1 DEF Equivalent
    <3>2. IsTwin(lhs, rhs, t[1], t[2])  BY TwinIff
    <3>3. t[1] = f /\ t[2] = g  BY <1>1, <3>2, OneTwin DEF Complete
    <3> QED  BY <3>1, <3>3
  <2>2. ASSUME OperandsCorrespond(lhs, rhs, f, g) PROVE Equivalent(lhs, rhs)
    <3> PICK t : t = <<f, g>>  OBVIOUS
    <3>1. t \in Twins(lhs, rhs)  BY <1>1, TwinIff
    <3>2. OperandsCorrespond(lhs, rhs, t[1], t[2])  BY <2>2
    <3> QED  BY <3>1, <3>2 DEF Equivalent
  <2> QED  BY <2>1, <2>2
<1>3. ASSUME NEW o \in OpsIn(lhs), NEW order \in Orders(o), NEW i \in DOMAIN Operands[o]
      PROVE  <<Operands[o][i], Operands[f[o]][order[i]]>> \in Agreed <=>
               Corresponds(lhs, rhs, f, g, Operands[o][i], Operands[f[o]][order[i]])
  <2>1. /\ o \in Op /\ Operands[o] \in Seq(Value) /\ Operands[f[o]] \in Seq(Value)
        /\ Len(Operands[o]) = Len(Operands[f[o]])
    BY CompleteOps
  <2>2. DOMAIN Operands[o] = DOMAIN Operands[f[o]]  BY <2>1, LenProperties
  <2>3. order[i] \in DOMAIN Operands[o]
    <3>1. CASE IsCommutative(o)
      <4>1. order \in Bijection(DOMAIN Operands[o], DOMAIN Operands[o])
        BY <3>1 DEF Orders
      <4>2. order \in [DOMAIN Operands[o] -> DOMAIN Operands[o]]  BY <4>1, Permutes
      <4> QED  BY <4>2
    <3>2. CASE ~IsCommutative(o)  BY <3>2 DEF Orders
    <3> QED  BY <3>1, <3>2
  <2> PICK v, w : v = Operands[o][i] /\ w = Operands[f[o]][order[i]]  OBVIOUS
  <2>4. v \in Value  BY <2>1, ElementOfSeq, LenProperties
  <2>5. w \in Value  BY <2>1, <2>2, <2>3, ElementOfSeq, LenProperties
  <2>6. "equal" \in CompareValues(v, w) <=> Corresponds(lhs, rhs, f, g, v, w)
    BY <2>4, <2>5, MatchMeans
  <2>7. <<v, w>> \in Agreed <=> "equal" \in CompareValues(v, w)
    BY <2>4, <2>5 DEF Agreed
  <2> QED  BY <2>6, <2>7
<1>4. \A o \in OpsIn(lhs) :
        OperandsAgree(Agreed, o, f[o]) <=>
          \E order \in Orders(o) : \A i \in DOMAIN Operands[o] :
            Corresponds(lhs, rhs, f, g, Operands[o][i], Operands[f[o]][order[i]])
  <2> SUFFICES ASSUME NEW o \in OpsIn(lhs)
               PROVE  OperandsAgree(Agreed, o, f[o]) <=>
                        \E order \in Orders(o) : \A i \in DOMAIN Operands[o] :
                          Corresponds(lhs, rhs, f, g, Operands[o][i],
                                      Operands[f[o]][order[i]])
    OBVIOUS
  <2>1. ASSUME OperandsAgree(Agreed, o, f[o])
        PROVE  \E order \in Orders(o) : \A i \in DOMAIN Operands[o] :
                 Corresponds(lhs, rhs, f, g, Operands[o][i], Operands[f[o]][order[i]])
    <3>1. PICK order \in Orders(o) : \A i \in DOMAIN Operands[o] :
            <<Operands[o][i], Operands[f[o]][order[i]]>> \in Agreed
      BY <2>1 DEF OperandsAgree
    <3>2. \A i \in DOMAIN Operands[o] :
            Corresponds(lhs, rhs, f, g, Operands[o][i], Operands[f[o]][order[i]])
      BY <1>3, <3>1
    <3> QED  BY <3>2
  <2>2. ASSUME NEW order \in Orders(o), \A i \in DOMAIN Operands[o] :
                 Corresponds(lhs, rhs, f, g, Operands[o][i], Operands[f[o]][order[i]])
        PROVE  OperandsAgree(Agreed, o, f[o])
    <3>1. \A i \in DOMAIN Operands[o] :
            <<Operands[o][i], Operands[f[o]][order[i]]>> \in Agreed
      BY <1>3, <2>2
    <3> QED  BY <3>1 DEF OperandsAgree
  <2> QED  BY <2>1, <2>2
<1>5. OperandsCorrespond(lhs, rhs, f, g) <=>
        \A o \in OpsIn(lhs) : OperandsAgree(Agreed, o, f[o])
  BY <1>4 DEF OperandsCorrespond
<1>6. (\A o \in OpsIn(lhs) : OperandsAgree(Agreed, o, f[o])) <=>
        \A k \in DOMAIN ops : OperandsAgree(Agreed, ops[k][1], ops[k][2])
  <2>1. ASSUME \A o \in OpsIn(lhs) : OperandsAgree(Agreed, o, f[o]), NEW k \in DOMAIN ops
        PROVE  OperandsAgree(Agreed, ops[k][1], ops[k][2])
    <3>1. ops[k][1] \in OpsIn(lhs) /\ ops[k][2] = f[ops[k][1]]  BY CompleteOps
    <3> QED  BY <2>1, <3>1
  <2>2. ASSUME \A k \in DOMAIN ops : OperandsAgree(Agreed, ops[k][1], ops[k][2]),
               NEW o \in OpsIn(lhs)
        PROVE  OperandsAgree(Agreed, o, f[o])
    <3>1. PICK k \in DOMAIN ops : ops[k][1] = o /\ ops[k][2] = f[o]  BY CompleteOps
    <3> QED  BY <2>2, <3>1
  <2> QED  BY <2>1, <2>2
<1> QED  BY <1>2, <1>5, <1>6
-----------------------------------------------------------------------------
(* While structure is matched, every twin has what is matched and what is  *)
(* to be matched; in the third pass, what is chosen is right so far.       *)
Pending ==
  phase # "idle" => lhs # rhs /\ verdict = Null
ForcedInv ==
  phase = "structure" =>
    \A f, g : IsTwin(lhs, rhs, f, g) => Forced(lhs, f, g, todo, blocks)
ChosenSoFar ==
  /\ \E f : Chosen(Agreed, LeftOp, RightOp, cursor.operand - 1, cursor.used, f)
  /\ \A j \in DOMAIN Operands[RightOp] :
       /\ cursor.operand \in DOMAIN Operands[LeftOp]
       /\ j < cursor.other /\ Free(LeftOp, cursor.operand - 1, cursor.used, j)
       => <<Operands[LeftOp][cursor.operand], Operands[RightOp][j]>> \notin Agreed
PairedInv ==
  phase = "operands" =>
    /\ \A k \in DOMAIN ops :
         k < cursor.op => OperandsAgree(Agreed, ops[k][1], ops[k][2])
    /\ cursor.op <= Len(ops) => ChosenSoFar
TruthInv == Pending /\ ForcedInv /\ PairedInv /\ Agrees

(* A comparison that ends, as it should.                                   *)
EndsTruly ==
  phase' = "idle" /\ UNCHANGED <<lhs, rhs>>
  /\ (verdict' \in Completed => (verdict' = "equal") = Equivalent(lhs, rhs))

LEMMA EndsTruth ==
  ASSUME EndsTruly
  PROVE  TruthInv'
BY DEF EndsTruly, TruthInv, Pending, ForcedInv, PairedInv, Agrees, Equivalent, Twins,
       OperandsCorrespond, Orders, Corresponds, MayCorrespond, EvaluatedValueEqual,
       ValuesIn, IsCommutative

LEMMA NoTwin ==
  ASSUME lhs # rhs, \A f, g : ~IsTwin(lhs, rhs, f, g), Finish("different")
  PROVE  EndsTruly
<1>1. ~Equivalent(lhs, rhs)
  <2>1. \A t \in Twins(lhs, rhs) : FALSE  BY TwinIff
  <2> QED  BY <2>1 DEF Equivalent
<1>2. Equivalent(lhs, rhs) \in BOOLEAN  BY DEF Equivalent
<1>3. phase' = "idle" /\ UNCHANGED <<lhs, rhs>> /\ verdict' = "different"  BY DEF Finish
<1> QED  BY <1>1, <1>2, <1>3 DEF EndsTruly

LEMMA StartTruth ==
  ASSUME CheckInv, NEW l \in Root, NEW r \in Root, Start(l, r)
  PROVE  TruthInv'
<1>1. CASE l = r
  <2>1. phase' = "idle" /\ lhs' = l /\ rhs' = r /\ verdict' = "equal"
    BY <1>1 DEF Start
  <2>2. Equivalent(l, r)  BY <1>1 DEF Equivalent
  <2>3. Agrees'  BY <1>1, <2>1 DEF Agrees, Equivalent
  <2> QED  BY <2>1, <2>3 DEF TruthInv, Pending, ForcedInv, PairedInv
<1>2. CASE l # r
  <2>1. blocks = NoMap  BY DEF CheckInv, Fresh, Start
  <2>2. /\ phase' = "structure" /\ lhs' = l /\ rhs' = r /\ verdict' = Null
        /\ todo' = Pairs("operation", <<l>>, <<r>>) /\ blocks' = NoMap
    BY <1>2, <2>1 DEF Start
  <2>3. \A f, g : IsTwin(l, r, f, g) =>
          Forced(l, f, g, Pairs("operation", <<l>>, <<r>>), NoMap)
    BY ProgramFacts, ForcedStart
  <2>4. ForcedInv'  BY <2>2, <2>3 DEF ForcedInv
  <2>5. verdict' \notin Completed  BY <2>2, EquivalenceAssumption DEF Completed
  <2> QED  BY <1>2, <2>2, <2>4, <2>5 DEF TruthInv, Pending, PairedInv, Agrees
<1> QED  BY <1>1, <1>2

(* What is left to show when structure goes on.                            *)
LEMMA StructureTruth ==
  ASSUME TruthInv, phase = "structure", phase' = "structure",
         UNCHANGED <<lhs, rhs, verdict>>, ForcedInv'
  PROVE  TruthInv'
<1>1. verdict' \notin Completed
  BY EquivalenceAssumption DEF TruthInv, Pending, Completed
<1>2. Agrees'  BY <1>1 DEF Agrees
<1>3. Pending'  BY DEF TruthInv, Pending
<1>4. PairedInv'  BY DEF PairedInv
<1> QED  BY <1>2, <1>3, <1>4 DEF TruthInv

LEMMA MatchOperationTruth ==
  ASSUME CheckInv, WalkInv, TruthInv, MatchOperation
  PROVE  TruthInv'
<1> PICK x, y : x = Left /\ y = Right  OBVIOUS
<1>1. /\ todo \in Seq(Task) /\ todo # <<>> /\ Head(todo) \in Task
      /\ Head(todo) = PairTask("operation", x, y) /\ phase = "structure"
  BY HeadTask DEF MatchOperation, Matching
<1>2. x \in Op /\ y \in Op  BY <1>1 DEF PairTask, Task
<1>3. lhs \in Op /\ rhs \in Op /\ lhs # rhs
  BY <1>1, ProgramFacts DEF CheckInv, Fresh, TruthInv, Pending
<1>4. PICK h : Walk(lhs, rhs, h, todo, blocks)  BY <1>1 DEF WalkInv, Walked
<1>5. ASSUME NEW f, NEW g, IsTwin(lhs, rhs, f, g)
      PROVE  /\ SameOperation(x, y) /\ SuccessorsThrough(blocks, x, y)
             /\ Forced(lhs, f, g, Pairs("region", Regions[x], Regions[y]) \o Tail(todo), blocks)
  <2>1. Forced(lhs, f, g, todo, blocks)  BY <1>1, <1>5 DEF TruthInv, ForcedInv
  <2> QED  BY <1>1, <1>2, <1>3, <1>4, <1>5, <2>1, ForcedOperation
<1>6. CASE SameOperation(x, y) /\ SameSuccessors(x, y)
  <2>1. /\ phase' = "structure" /\ UNCHANGED <<lhs, rhs, blocks, verdict>>
        /\ todo' = Pairs("region", Regions[x], Regions[y]) \o Tail(todo)
    BY <1>1, <1>6 DEF MatchOperation, Then
  <2>2. ForcedInv'  BY <1>5, <2>1 DEF ForcedInv
  <2> QED  BY <1>1, <2>1, <2>2, StructureTruth
<1>7. CASE ~(SameOperation(x, y) /\ SameSuccessors(x, y))
  <2>1. Finish("different")  BY <1>7 DEF MatchOperation
  <2>2. SuccessorsThrough(blocks, x, y) => SameSuccessors(x, y)
    BY DEF SuccessorsThrough, SameSuccessors, Apart
  <2>3. \A f, g : ~IsTwin(lhs, rhs, f, g)  BY <1>5, <1>7, <2>2
  <2> QED  BY <1>3, <2>1, <2>3, NoTwin, EndsTruth
<1> QED  BY <1>6, <1>7

LEMMA MatchRegionTruth ==
  ASSUME CheckInv, WalkInv, TruthInv, MatchRegion
  PROVE  TruthInv'
<1> PICK x, y : x = Left /\ y = Right  OBVIOUS
<1>1. /\ todo \in Seq(Task) /\ todo # <<>> /\ Head(todo) \in Task
      /\ Head(todo) = PairTask("region", x, y) /\ phase = "structure"
  BY HeadTask DEF MatchRegion, Matching
<1>2. x \in Seq(Block) /\ y \in Seq(Block)  BY <1>1 DEF PairTask, Task
<1>3. lhs \in Op /\ rhs \in Op /\ lhs # rhs
  BY <1>1, ProgramFacts DEF CheckInv, Fresh, TruthInv, Pending
<1> PICK cs : cs = MapBlocks(x, y)  OBVIOUS
<1>4. BlocksGrow(blocks, cs, x, y)  BY DEF MapBlocks, BlocksGrow
<1>5. ASSUME NEW f, NEW g, IsTwin(lhs, rhs, f, g)
      PROVE  /\ Len(x) = Len(y)
             /\ Forced(lhs, f, g, Pairs("block", x, y) \o Tail(todo), cs)
  <2>1. Forced(lhs, f, g, todo, blocks)  BY <1>1, <1>5 DEF TruthInv, ForcedInv
  <2> QED  BY <1>1, <1>2, <1>3, <1>4, <1>5, <2>1, ForcedRegion
<1>6. CASE Len(x) = Len(y)
  <2>1. /\ phase' = "structure" /\ UNCHANGED <<lhs, rhs, verdict>> /\ blocks' = cs
        /\ todo' = Pairs("block", x, y) \o Tail(todo)
    BY <1>1, <1>6 DEF MatchRegion, Then
  <2>2. ForcedInv'  BY <1>5, <2>1 DEF ForcedInv
  <2> QED  BY <1>1, <2>1, <2>2, StructureTruth
<1>7. CASE Len(x) # Len(y)
  <2>1. Finish("different")  BY <1>7 DEF MatchRegion
  <2>2. \A f, g : ~IsTwin(lhs, rhs, f, g)  BY <1>5, <1>7
  <2> QED  BY <1>3, <2>1, <2>2, NoTwin, EndsTruth
<1> QED  BY <1>6, <1>7

LEMMA MatchBlockTruth ==
  ASSUME CheckInv, WalkInv, TruthInv, MatchBlock
  PROVE  TruthInv'
<1> PICK x, y : x = Left /\ y = Right  OBVIOUS
<1>1. /\ todo \in Seq(Task) /\ todo # <<>> /\ Head(todo) \in Task
      /\ Head(todo) = PairTask("block", x, y) /\ phase = "structure"
  BY HeadTask DEF MatchBlock, Matching
<1>2. x \in Block /\ y \in Block  BY <1>1 DEF PairTask, Task
<1>3. lhs \in Op /\ rhs \in Op /\ lhs # rhs
  BY <1>1, ProgramFacts DEF CheckInv, Fresh, TruthInv, Pending
<1>4. ASSUME NEW f, NEW g, IsTwin(lhs, rhs, f, g)
      PROVE  /\ ArgTypes(x) = ArgTypes(y) /\ Len(Body[x]) = Len(Body[y])
             /\ Forced(lhs, f, g, Pairs("operation", Body[x], Body[y]) \o Tail(todo), blocks)
  <2>1. Forced(lhs, f, g, todo, blocks)  BY <1>1, <1>4 DEF TruthInv, ForcedInv
  <2> QED  BY <1>1, <1>2, <1>3, <1>4, <2>1, ForcedBlock
<1>5. CASE ArgTypes(x) = ArgTypes(y) /\ Len(Body[x]) = Len(Body[y])
  <2>1. /\ phase' = "structure" /\ UNCHANGED <<lhs, rhs, blocks, verdict>>
        /\ todo' = Pairs("operation", Body[x], Body[y]) \o Tail(todo)
    BY <1>1, <1>5 DEF MatchBlock, Then
  <2>2. ForcedInv'  BY <1>4, <2>1 DEF ForcedInv
  <2> QED  BY <1>1, <2>1, <2>2, StructureTruth
<1>6. CASE ~(ArgTypes(x) = ArgTypes(y) /\ Len(Body[x]) = Len(Body[y]))
  <2>1. Finish("different")  BY <1>6 DEF MatchBlock
  <2>2. \A f, g : ~IsTwin(lhs, rhs, f, g)  BY <1>4, <1>6
  <2> QED  BY <1>3, <2>1, <2>2, NoTwin, EndsTruth
<1> QED  BY <1>5, <1>6
-----------------------------------------------------------------------------
LEMMA EquivalentBoolean ==
  ASSUME NEW l, NEW r
  PROVE  Equivalent(l, r) \in BOOLEAN
BY DEF Equivalent

(* An operand without a counterpart decides the comparison.                *)
LEMMA OperandsDiffer ==
  ASSUME CheckInv, WalkInv, Pending, phase # "idle", todo = <<>>,
         NEW k \in DOMAIN ops, ~OperandsAgree(Agreed, ops[k][1], ops[k][2]),
         Finish("different")
  PROVE  EndsTruly
<1>1. PICK h : Complete(h)  BY CompleteWhen
<1>2. lhs # rhs  BY DEF Pending
<1>3. ~Equivalent(lhs, rhs)  BY <1>1, <1>2, AgreedMeans
<1>4. phase' = "idle" /\ UNCHANGED <<lhs, rhs>> /\ verdict' = "different"  BY DEF Finish
<1> QED  BY <1>3, <1>4, EquivalentBoolean DEF EndsTruly

LEMMA AgreedStays ==
  ASSUME UNCHANGED values
  PROVE  Agreed' = Agreed
BY DEF Agreed, CompareValues, MatchValues, EvaluatedValueEqual

LEMMA ChosenStays ==
  ASSUME UNCHANGED <<ops, values, cursor>>, ChosenSoFar
  PROVE  ChosenSoFar'
<1>1. Agreed' = Agreed  BY AgreedStays
<1>2. LeftOp' = LeftOp /\ RightOp' = RightOp  BY DEF LeftOp, RightOp
<1> QED  BY <1>1, <1>2 DEF ChosenSoFar

LEMMA CheckOperandsTruth ==
  ASSUME CheckInv, WalkInv, TruthInv, CheckOperands
  PROVE  TruthInv'
<1>1. phase = "structure" /\ todo = <<>> /\ cursor = AtOp(1)
  BY DEF CheckOperands, CheckInv, Fresh
<1>2. CASE OperandsMatch
  <2>1. /\ phase' = "operands"
        /\ UNCHANGED <<lhs, rhs, ops, values, cursor, verdict>>
    BY <1>2 DEF CheckOperands, checker
  <2>2. verdict' \notin Completed
    BY <1>1, <2>1, EquivalenceAssumption DEF TruthInv, Pending, Completed
  <2>3. Agrees' /\ Pending' /\ ForcedInv'
    BY <1>1, <2>1, <2>2 DEF Agrees, TruthInv, Pending, ForcedInv
  <2>4. /\ cursor.op = 1 /\ cursor.operand = 1 /\ cursor.other = 1 /\ cursor.used = {}
    BY <1>1 DEF AtOp
  <2>5. \A k \in DOMAIN ops : k >= 1
    BY LenProperties DEF CheckInv
  <2>6. ASSUME cursor.op <= Len(ops) PROVE ChosenSoFar
    <3>1. \E f : Chosen(Agreed, LeftOp, RightOp, 0, {}, f)  BY ChosenNone
    <3>2. Operands[RightOp] \in Seq(Value)
      <4>1. 1 \in DOMAIN ops  BY <2>4, <2>6, LenProperties DEF CheckInv
      <4>2. ops[1] \in Op \X Op  BY <4>1, ElementOfSeq, LenProperties DEF CheckInv
      <4> QED  BY <2>4, <4>2, ProgramFacts DEF RightOp
    <3>3. \A j \in DOMAIN Operands[RightOp] : ~(j < 1)  BY <3>2, LenProperties
    <3> QED  BY <2>4, <3>1, <3>3 DEF ChosenSoFar
  <2>7. PairedInv'
    <3>1. \A k \in DOMAIN ops : ~(k < cursor.op)
      BY <2>4, LenProperties DEF CheckInv
    <3>2. \A k \in DOMAIN ops' : ~(k < cursor'.op)  BY <2>1, <3>1
    <3>3. cursor'.op <= Len(ops') => ChosenSoFar'
      BY <2>1, <2>6, ChosenStays
    <3> QED  BY <3>2, <3>3 DEF PairedInv
  <2> QED  BY <2>3, <2>7 DEF TruthInv
<1>3. CASE ~OperandsMatch
  <2>1. PICK k \in DOMAIN ops :
          /\ ~IsCommutative(ops[k][1])
          /\ \E i \in DOMAIN Operands[ops[k][1]] :
               MatchValues(Operands[ops[k][1]][i], Operands[ops[k][2]][i]) = "different"
    BY <1>3 DEF OperandsMatch
  <2> PICK o, p : o = ops[k][1] /\ p = ops[k][2]  OBVIOUS
  <2>2. PICK i \in DOMAIN Operands[o] :
          MatchValues(Operands[o][i], Operands[p][i]) = "different"
    BY <2>1
  <2>3. "equal" \notin CompareValues(Operands[o][i], Operands[p][i])
    BY <2>2, CompareAnswers
  <2>4. <<Operands[o][i], Operands[p][i]>> \notin Agreed  BY <2>3 DEF Agreed
  <2>5. ~OperandsAgree(Agreed, o, p)
    <3>1. \A order \in Orders(o) : order[i] = i  BY <2>1 DEF Orders
    <3> QED  BY <2>4, <3>1 DEF OperandsAgree
  <2>6. Finish("different")  BY <1>3 DEF CheckOperands
  <2>7. EndsTruly  BY <1>1, <2>5, <2>6, OperandsDiffer DEF TruthInv
  <2> QED  BY <2>7, EndsTruth
<1> QED  BY <1>2, <1>3

LEMMA NotFoundTruth ==
  ASSUME CheckInv, WalkInv, TruthInv, NotFound
  PROVE  TruthInv'
<1>1. /\ phase = "operands" /\ cursor.op <= Len(ops) /\ Candidates = {}
      /\ cursor.operand <= Len(Operands[LeftOp]) /\ todo = <<>>
  BY DEF NotFound, InOperands, WalkInv
<1> PICK o, p : o = LeftOp /\ p = RightOp  OBVIOUS
<1> PICK n, N : n = cursor.operand - 1 /\ N = Len(Operands[o])  OBVIOUS
<1>2. /\ n \in Nat /\ N \in Nat /\ n < N /\ n + 1 = cursor.operand
      /\ DOMAIN Operands[o] = 1..N /\ DOMAIN Operands[p] = 1..N
      /\ cursor.op \in DOMAIN ops
  BY <1>1, AtOperands
<1>3. PICK f : Chosen(Agreed, o, p, n, cursor.used, f)
  BY <1>1 DEF TruthInv, PairedInv, ChosenSoFar
<1>4. ASSUME NEW j \in 1..N, Free(o, n, cursor.used, j)
      PROVE  <<Operands[o][n + 1], Operands[p][j]>> \notin Agreed
  <2>1. j < cursor.other
    <3>1. j \notin Candidates /\ j \in DOMAIN Operands[RightOp]  BY <1>1, <1>2
    <3>2. IF IsCommutative(LeftOp) THEN j \notin cursor.used ELSE j = cursor.operand
      BY <1>2, <1>4 DEF Free
    <3>3. ~(j >= cursor.other)  BY <3>1, <3>2 DEF Candidates
    <3>4. cursor.other \in Nat  BY DEF CheckInv, CursorFits
    <3> QED  BY <3>3, <3>4
  <2>2. cursor.operand \in DOMAIN Operands[LeftOp]  BY <1>2
  <2> QED  BY <1>1, <1>2, <1>4, <2>1, <2>2 DEF TruthInv, PairedInv, ChosenSoFar
<1>5. Difunctional(Agreed)
  <2>1. IsInjective(values)  BY <1>1, WalkMaps DEF MapsAreTwins
  <2> QED  BY <2>1, AgreedTwoWays
<1>6. ~OperandsAgree(Agreed, o, p)  BY <1>2, <1>3, <1>4, <1>5, ChosenStuck
<1>7. EndsTruly
  <2>1. o = ops[cursor.op][1] /\ p = ops[cursor.op][2]  BY DEF LeftOp, RightOp
  <2>2. Finish("different")  BY DEF NotFound
  <2> QED  BY <1>1, <1>2, <1>6, <2>1, <2>2, OperandsDiffer DEF TruthInv
<1> QED  BY <1>7, EndsTruth

LEMMA AllEquivalentTruth ==
  ASSUME CheckInv, WalkInv, TruthInv, AllEquivalent
  PROVE  TruthInv'
<1>1. phase = "operands" /\ cursor.op > Len(ops) /\ todo = <<>> /\ lhs # rhs
  BY DEF AllEquivalent, WalkInv, TruthInv, Pending
<1>2. PICK h : Complete(h)  BY <1>1, CompleteWhen
<1>3. \A k \in DOMAIN ops : k < cursor.op
  BY <1>1, LenProperties DEF CheckInv, CursorFits
<1>4. \A k \in DOMAIN ops : OperandsAgree(Agreed, ops[k][1], ops[k][2])
  BY <1>1, <1>3 DEF TruthInv, PairedInv
<1>5. Equivalent(lhs, rhs)  BY <1>1, <1>2, <1>4, AgreedMeans
<1>6. phase' = "idle" /\ UNCHANGED <<lhs, rhs>> /\ verdict' = "equal"
  BY DEF AllEquivalent, Finish
<1>7. EndsTruly  BY <1>5, <1>6, EquivalentBoolean DEF EndsTruly
<1> QED  BY <1>7, EndsTruth
(* What remains to show when the third pass goes on.                       *)
LEMMA OperandsTruth ==
  ASSUME TruthInv, phase = "operands", phase' = "operands",
         UNCHANGED <<lhs, rhs, verdict>>, PairedInv'
  PROVE  TruthInv'
<1>1. verdict' \notin Completed
  BY EquivalenceAssumption DEF TruthInv, Pending, Completed
<1>2. Agrees'  BY <1>1 DEF Agrees
<1>3. Pending'  BY DEF TruthInv, Pending
<1>4. ForcedInv'  BY DEF ForcedInv
<1> QED  BY <1>2, <1>3, <1>4 DEF TruthInv

LEMMA NextOperationTruth ==
  ASSUME CheckInv, WalkInv, TruthInv, NextOperation
  PROVE  TruthInv'
<1>1. /\ phase = "operands" /\ cursor.op <= Len(ops)
      /\ ~(cursor.operand <= Len(Operands[LeftOp]))
      /\ cursor' = AtOp(cursor.op + 1)
      /\ UNCHANGED <<phase, lhs, rhs, ops, values, verdict>>
  BY DEF NextOperation, InOperands
<1>2. /\ cursor'.op = cursor.op + 1 /\ cursor'.operand = 1 /\ cursor'.other = 1
      /\ cursor'.used = {}
  BY <1>1 DEF AtOp
<1>3. OperandsAgree(Agreed, LeftOp, RightOp)
  <2> PICK o, p : o = LeftOp /\ p = RightOp  OBVIOUS
  <2> PICK n : n = Len(Operands[o])  OBVIOUS
  <2>1. /\ n \in Nat /\ cursor.operand - 1 = n
        /\ DOMAIN Operands[o] = 1..n /\ DOMAIN Operands[p] = 1..n
    BY <1>1, AtOperands
  <2>2. PICK f : Chosen(Agreed, o, p, n, cursor.used, f)
    BY <1>1, <2>1 DEF TruthInv, PairedInv, ChosenSoFar
  <2> QED  BY <2>1, <2>2, ChosenAll
<1>4. Agreed' = Agreed  BY <1>1, AgreedStays
<1>5. \A k \in DOMAIN ops : k < cursor.op + 1 => OperandsAgree(Agreed, ops[k][1], ops[k][2])
  <2> SUFFICES ASSUME NEW k \in DOMAIN ops, k < cursor.op + 1
               PROVE  OperandsAgree(Agreed, ops[k][1], ops[k][2])
    OBVIOUS
  <2>1. k \in Nat /\ cursor.op \in Nat  BY LenProperties DEF CheckInv, CursorFits
  <2>2. CASE k < cursor.op  BY <1>1, <2>2 DEF TruthInv, PairedInv
  <2>3. CASE k = cursor.op  BY <1>3, <2>3 DEF LeftOp, RightOp
  <2> QED  BY <2>1, <2>2, <2>3
<1>6. ASSUME cursor'.op <= Len(ops') PROVE ChosenSoFar'
  <2>1. \E f : Chosen(Agreed', LeftOp', RightOp', cursor'.operand - 1, cursor'.used, f)
    <3>1. \E f : Chosen(Agreed', LeftOp', RightOp', 0, {}, f)  BY ChosenNone
    <3> QED  BY <1>2, <3>1
  <2>2. \A j \in DOMAIN Operands[RightOp'] : ~(j < cursor'.other)
    <3>1. RightOp' = ops[cursor.op + 1][2]  BY <1>1, <1>2 DEF RightOp
    <3>2. cursor.op + 1 \in DOMAIN ops
      BY <1>1, <1>2, <1>6, LenProperties DEF CheckInv, CursorFits
    <3>3. ops[cursor.op + 1] \in Op \X Op
      BY <3>2, ElementOfSeq, LenProperties DEF CheckInv
    <3>4. Operands[RightOp'] \in Seq(Value)  BY <3>1, <3>3, ProgramFacts
    <3> QED  BY <1>2, <3>4, LenProperties
  <2> QED  BY <2>1, <2>2 DEF ChosenSoFar
<1>7. PairedInv'  BY <1>1, <1>2, <1>4, <1>5, <1>6 DEF PairedInv
<1> QED  BY <1>1, <1>7, OperandsTruth

(* A value that was compared, and where the cursor goes.                   *)
LEMMA CompareOperandOutcome ==
  ASSUME CheckInv, CompareOperand
  PROVE  LET j == Min(Candidates)
             v == Operands[LeftOp][cursor.operand]
             w == Operands[RightOp][j]
         IN /\ UNCHANGED <<lhs, rhs>>
            /\ \/ phase' = "idle" /\ verdict' \in Signal
               \/ /\ "equal" \notin CompareValues(v, w)
                  /\ cursor' = [cursor EXCEPT !.other = j + 1]
                  /\ UNCHANGED <<phase, verdict, ops, values>>
               \/ /\ "equal" \in CompareValues(v, w)
                  /\ cursor' = [cursor EXCEPT !.operand = @ + 1, !.other = 1,
                                              !.used = @ \cup {j}]
                  /\ UNCHANGED <<phase, verdict, ops, values>>
<1> DEFINE j == Min(Candidates)
           v == Operands[LeftOp][cursor.operand]
           w == Operands[RightOp][j]
<1>1. UNCHANGED <<lhs, rhs>>  BY DEF CompareOperand
<1>2. PICK outcome \in CompareValues(v, w) :
        IF outcome \in Signal
        THEN phase' = "idle" /\ verdict' = outcome /\ ClearChecker
        ELSE /\ cursor' =
                  IF outcome = "different"
                  THEN [cursor EXCEPT !.other = j + 1]
                  ELSE [cursor EXCEPT !.operand = @ + 1, !.other = 1,
                                      !.used = @ \cup {j}]
             /\ UNCHANGED <<phase, verdict, todo, ops, blocks, values>>
  BY DEF CompareOperand
<1>3. outcome \in {"equal", "different"} \cup Signal
  BY DEF CompareValues, EvaluatedValueEqual, MatchValues
<1>4. "different" \in CompareValues(v, w) => "equal" \notin CompareValues(v, w)
  BY CompareAnswers
<1> HIDE DEF j, v, w
<1>5. CASE outcome \in Signal  BY <1>1, <1>2, <1>5 DEF j, v, w
<1>6. CASE outcome \notin Signal /\ outcome = "different"
  <2>1. /\ "equal" \notin CompareValues(v, w)
        /\ cursor' = [cursor EXCEPT !.other = j + 1]
        /\ UNCHANGED <<phase, verdict, ops, values>>
    BY <1>2, <1>4, <1>6
  <2> QED  BY <1>1, <2>1 DEF j, v, w
<1>7. CASE outcome \notin Signal /\ outcome = "equal"
  <2>1. /\ "equal" \in CompareValues(v, w)
        /\ cursor' = [cursor EXCEPT !.operand = @ + 1, !.other = 1, !.used = @ \cup {j}]
        /\ UNCHANGED <<phase, verdict, ops, values>>
    BY <1>2, <1>7
  <2> QED  BY <1>1, <2>1 DEF j, v, w
<1> QED  BY <1>3, <1>5, <1>6, <1>7

LEMMA CompareOperandTruth ==
  ASSUME CheckInv, WalkInv, TruthInv, CompareOperand
  PROVE  TruthInv'
<1> PICK j : j = Min(Candidates)  OBVIOUS
<1> PICK o, p : o = LeftOp /\ p = RightOp  OBVIOUS
<1> PICK n, N : n = cursor.operand - 1 /\ N = Len(Operands[o])  OBVIOUS
<1> PICK used : used = cursor.used  OBVIOUS
<1> PICK v, w : v = Operands[o][cursor.operand] /\ w = Operands[p][j]  OBVIOUS
<1>1. /\ phase = "operands" /\ cursor.op <= Len(ops) /\ j \in Candidates /\ j \in Nat
      /\ cursor.operand \in DOMAIN Operands[o]
  BY CandidateFits
<1>2. /\ n \in Nat /\ N \in Nat /\ n < N /\ n + 1 = cursor.operand
      /\ DOMAIN Operands[o] = 1..N /\ DOMAIN Operands[p] = 1..N
      /\ v \in Value /\ \A i \in 1..N : Operands[p][i] \in Value
  BY <1>1, AtOperands
<1>3. /\ j \in 1..N /\ Free(o, n, used, j) /\ w \in Value
  BY <1>1, <1>2 DEF Candidates, Free
<1>4. /\ \E f : Chosen(Agreed, o, p, n, used, f)
      /\ \A i \in 1..N : i < cursor.other /\ Free(o, n, used, i)
           => <<v, Operands[p][i]>> \notin Agreed
      /\ \A k \in DOMAIN ops : k < cursor.op => OperandsAgree(Agreed, ops[k][1], ops[k][2])
  BY <1>1, <1>2 DEF TruthInv, PairedInv, ChosenSoFar
<1>5. <<v, w>> \in Agreed <=> "equal" \in CompareValues(v, w)
  BY <1>2, <1>3 DEF Agreed
<1>6. /\ cursor \in [op : Nat \ {0}, operand : Nat \ {0}, other : Nat, used : SUBSET Nat]
  BY DEF CheckInv, CursorFits
<1>7. CASE phase' = "idle" /\ verdict' \in Signal /\ UNCHANGED <<lhs, rhs>>
  <2>1. verdict' \notin Completed  BY <1>7, EquivalenceAssumption DEF Completed
  <2>2. EndsTruly  BY <1>7, <2>1 DEF EndsTruly
  <2> QED  BY <2>2, EndsTruth
<1>8. ASSUME UNCHANGED <<phase, lhs, rhs, verdict, ops, values>>, cursor'.op = cursor.op,
             ChosenSoFar'
      PROVE  TruthInv'
  <2>1. Agreed' = Agreed  BY <1>8, AgreedStays
  <2>2. PairedInv'  BY <1>4, <1>8, <2>1 DEF PairedInv
  <2> QED  BY <1>1, <1>8, <2>2, OperandsTruth
<1>9. CASE /\ "equal" \notin CompareValues(v, w)
           /\ cursor' = [cursor EXCEPT !.other = j + 1]
           /\ UNCHANGED <<phase, verdict, ops, values, lhs, rhs>>
  <2>1. /\ cursor'.op = cursor.op /\ cursor'.operand = cursor.operand
        /\ cursor'.used = used /\ cursor'.other = j + 1
    BY <1>6, <1>9
  <2>2. Agreed' = Agreed /\ LeftOp' = o /\ RightOp' = p
    BY <1>9, <2>1, AgreedStays DEF LeftOp, RightOp
  <2>3. ASSUME NEW i \in 1..N, i < j + 1, Free(o, n, used, i)
        PROVE  <<v, Operands[p][i]>> \notin Agreed
    <3>1. CASE i < cursor.other  BY <1>4, <2>3, <3>1
    <3>2. CASE i = j  BY <1>5, <1>9, <3>2
    <3>3. CASE ~(i < cursor.other) /\ i # j
      <4>1. i \in Candidates
        <5>1. i >= cursor.other  BY <1>6, <3>3
        <5>2. IF IsCommutative(o) THEN i \notin used ELSE i = cursor.operand
          BY <1>2, <2>3 DEF Free
        <5> QED  BY <1>2, <5>1, <5>2 DEF Candidates
      <4>2. Candidates \in SUBSET Nat  BY <1>2 DEF Candidates
      <4>3. j <= i  BY <4>1, <4>2, LeastExists
      <4> QED  BY <1>1, <2>3, <3>3, <4>3
    <3> QED  BY <3>1, <3>2, <3>3
  <2>4. ChosenSoFar'
    <3>1. cursor'.operand - 1 = n  BY <2>1
    <3>2. \E f : Chosen(Agreed', LeftOp', RightOp', cursor'.operand - 1, cursor'.used, f)
      BY <1>4, <2>1, <2>2, <3>1
    <3>3. \A i \in DOMAIN Operands[RightOp'] :
            i < cursor'.other /\ Free(LeftOp', cursor'.operand - 1, cursor'.used, i)
            => <<Operands[LeftOp'][cursor'.operand], Operands[RightOp'][i]>> \notin Agreed'
      BY <1>2, <2>1, <2>2, <2>3, <3>1
    <3> QED  BY <3>2, <3>3 DEF ChosenSoFar
  <2> QED  BY <1>8, <1>9, <2>1, <2>4
<1>10. CASE /\ "equal" \in CompareValues(v, w)
            /\ cursor' = [cursor EXCEPT !.operand = @ + 1, !.other = 1, !.used = @ \cup {j}]
            /\ UNCHANGED <<phase, verdict, ops, values, lhs, rhs>>
  <2>1. /\ cursor'.op = cursor.op /\ cursor'.operand = cursor.operand + 1
        /\ cursor'.used = used \cup {j} /\ cursor'.other = 1
    BY <1>6, <1>10
  <2>2. Agreed' = Agreed /\ LeftOp' = o /\ RightOp' = p
    BY <1>10, <2>1, AgreedStays DEF LeftOp, RightOp
  <2>3. PICK f : Chosen(Agreed, o, p, n, used, f)  BY <1>4
  <2>4. <<Operands[o][n + 1], Operands[p][j]>> \in Agreed  BY <1>2, <1>5, <1>10
  <2>5. \E e : Chosen(Agreed, o, p, n + 1, used \cup {j}, e)
    BY <1>2, <1>3, <2>3, <2>4, ChosenMore
  <2>6. ChosenSoFar'
    <3>1. cursor'.operand - 1 = n + 1  BY <1>2, <2>1
    <3>2. \E e : Chosen(Agreed', LeftOp', RightOp', cursor'.operand - 1, cursor'.used, e)
      BY <2>1, <2>2, <2>5, <3>1
    <3>3. \A i \in DOMAIN Operands[RightOp'] : ~(i < cursor'.other)
      BY <1>2, <2>1, <2>2
    <3> QED  BY <3>2, <3>3 DEF ChosenSoFar
  <2> QED  BY <1>8, <1>10, <2>1, <2>6
<1> QED  BY <1>7, <1>9, <1>10, CompareOperandOutcome

LEMMA TruthStep ==
  ASSUME CheckInv, WalkInv, TruthInv, [Next]_vars
  PROVE  TruthInv'
<1>1. CASE UNCHANGED vars
  <2>1. UNCHANGED <<phase, lhs, rhs, todo, ops, blocks, values, cursor, verdict>>
    BY <1>1 DEF vars, checker
  <2>2. Pending' /\ ForcedInv'  BY <2>1 DEF TruthInv, Pending, ForcedInv
  <2>3. Agreed' = Agreed  BY <2>1, AgreedStays
  <2>4. PairedInv'
    BY <2>1, <2>3, ChosenStays DEF TruthInv, PairedInv
  <2>5. Agrees'  BY <2>1 DEF TruthInv, Agrees
  <2> QED  BY <2>2, <2>4, <2>5 DEF TruthInv
<1>2. ASSUME NEW l \in Root, NEW r \in Root, Start(l, r) PROVE TruthInv'
  BY <1>2, StartTruth
<1> QED
  BY <1>1, <1>2, MatchOperationTruth, MatchRegionTruth, MatchBlockTruth,
     CheckOperandsTruth, CompareOperandTruth, NotFoundTruth, NextOperationTruth,
     AllEquivalentTruth DEF Next, Compare

LEMMA TruthInit == Init => TruthInv
<1>1. Init => phase = "idle" /\ verdict = Null  BY DEF Init
<1>2. Null \notin Completed  BY EquivalenceAssumption DEF Completed
<1> QED  BY <1>1, <1>2 DEF TruthInv, Pending, ForcedInv, PairedInv, Agrees

(* A comparison that completes answers whether the operations correspond:  *)
(* the walk is forced, and the greedy choice of compareCommutative misses  *)
(* no matching, since values that go with one value go with the same ones. *)
THEOREM ComparisonsAgree == Spec => []Agrees
<1>1. Init => WalkInv  BY DEF Init, WalkInv
<1>2. CheckInv /\ WalkInv /\ TruthInv /\ [Next]_vars => WalkInv' /\ TruthInv'
  BY WalkStep, TruthStep
<1>3. TruthInv => Agrees  BY DEF TruthInv
<1> QED  BY <1>1, <1>2, <1>3, TruthInit, ComparisonsFit, PTL DEF Spec

-----------------------------------------------------------------------------
(* The inverse of a twin is one.                                           *)
Back(f, S, T) == [y \in T |-> CHOOSE x \in S : f[x] = y]

LEMMA BackFacts ==
  ASSUME NEW S, NEW T, NEW f \in Bijection(S, T)
  PROVE  /\ \A x \in S : f[x] \in T /\ Back(f, S, T)[f[x]] = x
         /\ \A y \in T : Back(f, S, T)[y] \in S /\ f[Back(f, S, T)[y]] = y
         /\ Back(f, S, T) \in Bijection(T, S) /\ DOMAIN Back(f, S, T) = T
<1>1. /\ f \in [S -> T] /\ \A a, b \in S : f[a] = f[b] => a = b
      /\ \A y \in T : \E x \in S : f[x] = y
  BY Fun_BijectionProperties
<1> PICK e : e = Back(f, S, T)  OBVIOUS
<1>2. DOMAIN e = T /\ \A y \in T : e[y] \in S /\ f[e[y]] = y
  <2>1. \A y \in T : e[y] = CHOOSE x \in S : f[x] = y  BY DEF Back
  <2>2. DOMAIN e = T  BY DEF Back
  <2>3. ASSUME NEW y \in T PROVE e[y] \in S /\ f[e[y]] = y
    <3>1. \E x \in S : f[x] = y  BY <1>1
    <3>2. e[y] = CHOOSE x \in S : f[x] = y  BY <2>1
    <3> QED  BY <3>1, <3>2
  <2> QED  BY <2>2, <2>3
<1>3. \A x \in S : f[x] \in T /\ e[f[x]] = x  BY <1>1, <1>2
<1>4. e \in [T -> S]
  <2>1. e = [y \in T |-> e[y]]  BY DEF Back
  <2> QED  BY <1>2, <2>1
<1>5. \A a, b \in T : e[a] = e[b] => a = b  BY <1>2
<1>6. \A x \in S : \E y \in T : e[y] = x  BY <1>3
<1>7. e \in Bijection(T, S)  BY <1>4, <1>5, <1>6, Fun_IsBij
<1> QED  BY <1>2, <1>3, <1>7

LEMMA SequenceIs ==
  ASSUME NEW S, NEW s \in Seq(S)
  PROVE  s = [i \in DOMAIN s |-> s[i]]
OBVIOUS

LEMMA ThroughBack ==
  ASSUME NEW S, NEW T, NEW g \in Bijection(S, T), NEW s, s = [i \in DOMAIN s |-> s[i]],
         \A i \in DOMAIN s : s[i] \in S \/ (s[i] \notin S /\ s[i] \notin T)
  PROVE  Through(Back(g, S, T), Through(g, s)) = s
<1> PICK e : e = Back(g, S, T)  OBVIOUS
<1>1. DOMAIN g = S  BY Fun_BijectionProperties
<1>2. DOMAIN e = T /\ \A x \in S : g[x] \in T /\ e[g[x]] = x  BY BackFacts
<1> PICK u : u = Through(g, s)  OBVIOUS
<1>3. DOMAIN u = DOMAIN s /\ \A i \in DOMAIN s : u[i] = Apart(g, s[i])  BY DEF Through
<1>4. \A i \in DOMAIN s : Apart(e, u[i]) = s[i]
  <2> SUFFICES ASSUME NEW i \in DOMAIN s PROVE Apart(e, u[i]) = s[i]  OBVIOUS
  <2>1. CASE s[i] \in S  BY <1>1, <1>2, <1>3, <2>1 DEF Apart
  <2>2. CASE s[i] \notin S /\ s[i] \notin T  BY <1>1, <1>2, <1>3, <2>2 DEF Apart
  <2> QED  BY <2>1, <2>2
<1>5. Through(e, u) = [i \in DOMAIN s |-> Apart(e, u[i])]  BY <1>3 DEF Through
<1>6. [i \in DOMAIN s |-> Apart(e, u[i])] = [i \in DOMAIN s |-> s[i]]  BY <1>4
<1> QED  BY <1>5, <1>6

(* A successor that is not inside the one is not inside its twin.          *)
LEMMA SuccessorsApart ==
  ASSUME NEW l \in Op, NEW r \in Op, NEW f, NEW g, IsTwin(l, r, f, g),
         NEW p \in OpsIn(l), NEW b \in ToSet(Successors[p]), b \notin BlocksIn(l),
         b \in ToSet(Successors[f[p]])
  PROVE  b \notin BlocksIn(r)
<1>1. p \in Op /\ Siblings(p, b)  BY PartKinds, NestingAssumption
<1>2. PICK q \in Op : IsBlockOf(b, q) /\ p \in Nested(q)
  <2>1. PICK q \in Op : \E k \in DOMAIN Regions[q] :
          /\ b \in ToSet(Regions[q][k])
          /\ \E c \in ToSet(Regions[q][k]) : p \in ToSet(Body[c])
    BY <1>1 DEF Siblings
  <2>2. PICK k \in DOMAIN Regions[q] :
          /\ b \in ToSet(Regions[q][k])
          /\ \E c \in ToSet(Regions[q][k]) : p \in ToSet(Body[c])
    BY <2>1
  <2>3. PICK c \in ToSet(Regions[q][k]) : p \in ToSet(Body[c])  BY <2>2
  <2>4. IsBlockOf(b, q) /\ IsBlockOf(c, q)  BY <2>2, <2>3 DEF IsBlockOf, ToSet
  <2>5. \E j \in DOMAIN Body[c] : p = Body[c][j]  BY <2>3 DEF ToSet
  <2>6. p \in Nested(q)  BY <2>4, <2>5, BlockFacts
  <2> QED  BY <2>4, <2>6
<1>3. p = l
  <2> SUFFICES ASSUME p # l PROVE FALSE  OBVIOUS
  <2>1. PICK z \in OpsIn(l) : p \in Nested(z)  BY OpsInUnfold
  <2>2. z \in Op  BY PartKinds
  <2>3. z = q  BY <1>2, <2>1, <2>2, OneParent
  <2> QED  BY <1>2, <2>1, <2>3, BlockFacts
<1>4. f[p] = r  BY <1>3 DEF IsTwin
<1>5. b \in ToSet(Successors[r])  BY <1>4
<1>6. Siblings(r, b)  BY <1>5, NestingAssumption
<1>7. PICK z \in Op : IsBlockOf(b, z) /\ r \in Nested(z)
  <2>1. PICK z \in Op : \E k \in DOMAIN Regions[z] :
          /\ b \in ToSet(Regions[z][k])
          /\ \E c \in ToSet(Regions[z][k]) : r \in ToSet(Body[c])
    BY <1>6 DEF Siblings
  <2>2. PICK k \in DOMAIN Regions[z] :
          /\ b \in ToSet(Regions[z][k])
          /\ \E c \in ToSet(Regions[z][k]) : r \in ToSet(Body[c])
    BY <2>1
  <2>3. PICK c \in ToSet(Regions[z][k]) : r \in ToSet(Body[c])  BY <2>2
  <2>4. IsBlockOf(b, z) /\ IsBlockOf(c, z)  BY <2>2, <2>3 DEF IsBlockOf, ToSet
  <2>5. \E j \in DOMAIN Body[c] : r = Body[c][j]  BY <2>3 DEF ToSet
  <2>6. r \in Nested(z)  BY <2>4, <2>5, BlockFacts
  <2> QED  BY <2>4, <2>6
<1>8. z \notin OpsIn(r)  BY <1>7, NestingAssumption DEF NestsOnce
<1> SUFFICES ASSUME b \in BlocksIn(r) PROVE FALSE  OBVIOUS
<1>9. PICK y \in OpsIn(r) : IsBlockOf(b, y)  BY BlockFacts
<1>10. y = z  BY <1>7, <1>9, PartKinds, OneParent
<1> QED  BY <1>8, <1>9, <1>10

LEMMA TwinBack ==
  ASSUME NEW l \in Op, NEW r \in Op, NEW f, NEW g, IsTwin(l, r, f, g)
  PROVE  IsTwin(r, l, Back(f, OpsIn(l), OpsIn(r)), Back(g, BlocksIn(l), BlocksIn(r)))
<1> PICK d, e : d = Back(f, OpsIn(l), OpsIn(r)) /\ e = Back(g, BlocksIn(l), BlocksIn(r))
  OBVIOUS
<1>1. f \in Bijection(OpsIn(l), OpsIn(r)) /\ g \in Bijection(BlocksIn(l), BlocksIn(r))
  BY DEF IsTwin
<1>2. /\ d \in Bijection(OpsIn(r), OpsIn(l)) /\ DOMAIN d = OpsIn(r)
      /\ \A x \in OpsIn(l) : f[x] \in OpsIn(r) /\ d[f[x]] = x
      /\ \A y \in OpsIn(r) : d[y] \in OpsIn(l) /\ f[d[y]] = y
  BY <1>1, BackFacts
<1>3. /\ e \in Bijection(BlocksIn(r), BlocksIn(l)) /\ DOMAIN e = BlocksIn(r)
      /\ \A x \in BlocksIn(l) : g[x] \in BlocksIn(r) /\ e[g[x]] = x
      /\ \A y \in BlocksIn(r) : e[y] \in BlocksIn(l) /\ g[e[y]] = y
  BY <1>1, BackFacts
<1>4. d[r] = l
  <2>1. l \in OpsIn(l) /\ f[l] = r  BY OpsInFacts DEF IsTwin
  <2> QED  BY <1>2, <2>1
<1>5. ASSUME NEW o \in OpsIn(r) PROVE SameSignature(o, d[o]) /\ Respects(d, e, o)
  <2> PICK p : p = d[o]  OBVIOUS
  <2>1. p \in OpsIn(l) /\ f[p] = o /\ p \in Op /\ o \in Op  BY <1>2, PartKinds
  <2>2. SameSignature(p, o) /\ Respects(f, g, p)  BY <2>1 DEF IsTwin
  <2>3. SameSignature(o, p)  BY <2>2 DEF SameSignature
  <2>4. /\ Successors[o] = Through(g, Successors[p])
        /\ Regions[o] = [k \in DOMAIN Regions[p] |-> Through(g, Regions[p][k])]
    BY <2>1, <2>2 DEF Respects
  <2>5. /\ Successors[p] \in Seq(Block) /\ Regions[p] \in Seq(Seq(Block))
    BY <2>1, ProgramFacts
  <2>6. Successors[p] = Through(e, Successors[o])
    <3> PICK s : s = Successors[p]  OBVIOUS
    <3>1. s = [i \in DOMAIN s |-> s[i]]
      <4>1. s \in Seq(Block)  BY <2>5
      <4> QED  BY <4>1, SequenceIs
    <3>2. ASSUME NEW i \in DOMAIN s
          PROVE  s[i] \in BlocksIn(l) \/ (s[i] \notin BlocksIn(l) /\ s[i] \notin BlocksIn(r))
      <4> SUFFICES ASSUME s[i] \notin BlocksIn(l) PROVE s[i] \notin BlocksIn(r)  OBVIOUS
      <4> PICK b : b = s[i]  OBVIOUS
      <4>1. b \in ToSet(Successors[p])  BY DEF ToSet
      <4>2. DOMAIN g = BlocksIn(l)  BY TwinParts
      <4>3. i \in DOMAIN Successors[o] /\ Successors[o][i] = b
        BY <2>4, <4>2 DEF Through, Apart
      <4>4. b \in ToSet(Successors[f[p]])  BY <2>1, <4>3 DEF ToSet
      <4> QED  BY <2>1, <4>1, <4>4, SuccessorsApart
    <3>3. Through(e, Through(g, s)) = s  BY <1>1, <3>1, <3>2, ThroughBack
    <3> QED  BY <2>4, <3>3
  <2>7. Regions[p] = [k \in DOMAIN Regions[o] |-> Through(e, Regions[o][k])]
    <3>1. ASSUME NEW k \in DOMAIN Regions[p]
          PROVE  Through(e, Regions[o][k]) = Regions[p][k]
      <4> PICK s : s = Regions[p][k]  OBVIOUS
      <4>1. ToSet(s) \subseteq BlocksIn(l)  BY <2>1, TwinParts
      <4>2. s \in Seq(Block)  BY <2>5, ElementOfSeq, LenProperties
      <4>3. s = [i \in DOMAIN s |-> s[i]]  BY <4>2
      <4>4. \A i \in DOMAIN s : s[i] \in BlocksIn(l)  BY <4>1 DEF ToSet
      <4>5. Through(e, Through(g, s)) = s  BY <1>1, <4>3, <4>4, ThroughBack
      <4> QED  BY <2>4, <4>5
    <3>2. DOMAIN Regions[o] = DOMAIN Regions[p]  BY <2>4
    <3>3. Regions[p] = [k \in DOMAIN Regions[p] |-> Regions[p][k]]
      <4> PICK s : s = Regions[p]  OBVIOUS
      <4>1. s \in Seq(Seq(Block))  BY <2>5
      <4>2. s = [k \in DOMAIN s |-> s[k]]  BY <4>1, SequenceIs
      <4> QED  BY <4>2
    <3>4. [k \in DOMAIN Regions[p] |-> Regions[p][k]]
          = [k \in DOMAIN Regions[p] |-> Through(e, Regions[o][k])]
      BY <3>1
    <3> QED  BY <3>2, <3>3, <3>4
  <2> QED  BY <2>3, <2>6, <2>7 DEF Respects
<1>6. ASSUME NEW c \in BlocksIn(r) PROVE RespectsBlock(d, e, c)
  <2> PICK b : b = e[c]  OBVIOUS
  <2>1. b \in BlocksIn(l) /\ g[b] = c /\ b \in Block  BY <1>3, PartKinds
  <2>2. ArgTypes(c) = ArgTypes(b) /\ Body[c] = Through(f, Body[b])
    BY <2>1 DEF IsTwin, RespectsBlock
  <2> PICK s : s = Body[b]  OBVIOUS
  <2>3. s \in Seq(Op)  BY <2>1, ProgramFacts
  <2>4. s = [i \in DOMAIN s |-> s[i]]  BY <2>3
  <2>5. \A i \in DOMAIN s : s[i] \in OpsIn(l)  BY <2>1, TwinParts
  <2>6. Through(d, Through(f, s)) = s  BY <1>1, <2>4, <2>5, ThroughBack
  <2> QED  BY <2>2, <2>6 DEF RespectsBlock
<1> QED  BY <1>2, <1>3, <1>4, <1>5, <1>6 DEF IsTwin
LEMMA CorrespondsBack ==
  ASSUME NEW l \in Op, NEW r \in Op, NEW f, NEW g, IsTwin(l, r, f, g),
         NEW v \in Value, NEW w \in Value, Corresponds(l, r, f, g, v, w)
  PROVE  Corresponds(r, l, Back(f, OpsIn(l), OpsIn(r)),
                     Back(g, BlocksIn(l), BlocksIn(r)), w, v)
<1> PICK d, e : d = Back(f, OpsIn(l), OpsIn(r)) /\ e = Back(g, BlocksIn(l), BlocksIn(r))
  OBVIOUS
<1>1. f \in Bijection(OpsIn(l), OpsIn(r)) /\ g \in Bijection(BlocksIn(l), BlocksIn(r))
  BY DEF IsTwin
<1>2. /\ DOMAIN d = OpsIn(r) /\ DOMAIN f = OpsIn(l)
      /\ \A x \in OpsIn(l) : f[x] \in OpsIn(r) /\ d[f[x]] = x
  BY <1>1, BackFacts, TwinParts
<1>3. \A x \in BlocksIn(l) : g[x] \in BlocksIn(r) /\ e[g[x]] = x
  BY <1>1, BackFacts
<1>4. v = <<v[1], v[2]>>  BY ValueFacts
<1>5. CASE v \in ValuesIn(l)
  <2>1. w = Image(f, g, v)  BY <1>5 DEF Corresponds, MayCorrespond
  <2>2. v[1] \in OpsIn(l) \/ v[1] \in BlocksIn(l)  BY <1>5 DEF ValuesIn
  <2>3. CASE v[1] \in OpsIn(l)
    <3>1. w = <<f[v[1]], v[2]>>  BY <1>2, <2>1, <2>3 DEF Image
    <3>2. w[1] \in OpsIn(r) /\ d[w[1]] = v[1] /\ w[2] = v[2]  BY <1>2, <2>3, <3>1
    <3>3. w \in ValuesIn(r)  BY <3>2 DEF ValuesIn
    <3>4. v = Image(d, e, w)  BY <1>2, <1>4, <3>2 DEF Image
    <3> QED  BY <3>3, <3>4 DEF Corresponds, MayCorrespond
  <2>4. CASE v[1] \in BlocksIn(l)
    <3>1. v[1] \notin OpsIn(l)  BY <2>4, PartKinds, NestingAssumption
    <3>2. w = <<g[v[1]], v[2]>>  BY <1>2, <2>1, <3>1 DEF Image
    <3>3. w[1] \in BlocksIn(r) /\ e[w[1]] = v[1] /\ w[2] = v[2]  BY <1>3, <2>4, <3>2
    <3>4. w[1] \notin OpsIn(r)  BY <3>3, PartKinds, NestingAssumption
    <3>5. w \in ValuesIn(r)  BY <3>3 DEF ValuesIn
    <3>6. v = Image(d, e, w)  BY <1>2, <1>4, <3>3, <3>4 DEF Image
    <3> QED  BY <3>5, <3>6 DEF Corresponds, MayCorrespond
  <2> QED  BY <2>2, <2>3, <2>4
<1>6. CASE v \notin ValuesIn(l)
  <2>1. /\ w \notin ValuesIn(r) /\ (v = w \/ Type[v] = Type[w])
        /\ EvaluatedValueEqual(v, w) = "equal"
    BY <1>6 DEF Corresponds, MayCorrespond
  <2>2. EvaluatedValueEqual(w, v) = "equal"  BY <2>1 DEF EvaluatedValueEqual
  <2> QED  BY <1>6, <2>1, <2>2 DEF Corresponds, MayCorrespond
<1> QED  BY <1>5, <1>6

Undoes(back, order, D) == \A i \in D : back[i] \in D /\ order[back[i]] = i

LEMMA OrderBack ==
  ASSUME NEW o, NEW p, DOMAIN Operands[o] = DOMAIN Operands[p], Label[o] = Label[p],
         NEW order \in Orders(o)
  PROVE  \E back \in Orders(p) : Undoes(back, order, DOMAIN Operands[p])
<1> PICK D : D = DOMAIN Operands[o]  OBVIOUS
<1>0. IsCommutative(o) <=> IsCommutative(p)  BY DEF IsCommutative
<1>1. CASE IsCommutative(o)
  <2> PICK back : back = Back(order, D, D)  OBVIOUS
  <2>1. order \in Bijection(D, D)  BY <1>1 DEF Orders
  <2>2. back \in Bijection(D, D) /\ \A i \in D : back[i] \in D /\ order[back[i]] = i
    BY <2>1, BackFacts
  <2>3. back \in Orders(p)  BY <1>0, <1>1, <2>2 DEF Orders
  <2>4. Undoes(back, order, D)  BY <2>2 DEF Undoes
  <2> QED  BY <2>3, <2>4
<1>2. CASE ~IsCommutative(o)
  <2>1. order \in Orders(p) /\ Undoes(order, order, D)
    BY <1>0, <1>2 DEF Orders, Undoes
  <2> QED  BY <2>1
<1> QED  BY <1>1, <1>2

LEMMA EquivalentBack ==
  ASSUME NEW l \in Op, NEW r \in Op, Equivalent(l, r)
  PROVE  Equivalent(r, l)
<1>1. CASE l = r  BY <1>1 DEF Equivalent
<1>2. CASE l # r
  <2>1. PICK t \in Twins(l, r) : OperandsCorrespond(l, r, t[1], t[2])
    BY <1>2 DEF Equivalent
  <2> PICK f, g : f = t[1] /\ g = t[2]  OBVIOUS
  <2>2. IsTwin(l, r, f, g) /\ OperandsCorrespond(l, r, f, g)  BY <2>1, TwinIff
  <2> PICK d, e : d = Back(f, OpsIn(l), OpsIn(r)) /\ e = Back(g, BlocksIn(l), BlocksIn(r))
    OBVIOUS
  <2>3. IsTwin(r, l, d, e)  BY <2>2, TwinBack
  <2>4. ASSUME NEW o \in OpsIn(r)
        PROVE  \E back \in Orders(o) : \A i \in DOMAIN Operands[o] :
                 Corresponds(r, l, d, e, Operands[o][i], Operands[d[o]][back[i]])
    <3> PICK p : p = d[o]  OBVIOUS
    <3>1. p \in OpsIn(l) /\ f[p] = o
      <4>1. f \in Bijection(OpsIn(l), OpsIn(r))  BY <2>2 DEF IsTwin
      <4> QED  BY <4>1, BackFacts
    <3>2. p \in Op /\ o \in Op  BY <3>1, PartKinds
    <3>3. SameSignature(p, o)  BY <2>2, <3>1 DEF IsTwin
    <3>4. /\ Operands[p] \in Seq(Value) /\ Operands[o] \in Seq(Value)
          /\ Len(Operands[p]) = Len(Operands[o]) /\ Label[p] = Label[o]
      BY <3>2, <3>3, ProgramFacts DEF SameSignature
    <3>5. DOMAIN Operands[p] = DOMAIN Operands[o]  BY <3>4, LenProperties
    <3>6. PICK order \in Orders(p) : \A i \in DOMAIN Operands[p] :
            Corresponds(l, r, f, g, Operands[p][i], Operands[o][order[i]])
      BY <2>2, <3>1 DEF OperandsCorrespond
    <3>7. PICK back \in Orders(o) : Undoes(back, order, DOMAIN Operands[o])
      BY <3>4, <3>5, OrderBack
    <3>8. ASSUME NEW i \in DOMAIN Operands[o]
          PROVE  Corresponds(r, l, d, e, Operands[o][i], Operands[p][back[i]])
      <4> PICK v, w : v = Operands[p][back[i]] /\ w = Operands[o][i]  OBVIOUS
      <4>1. back[i] \in DOMAIN Operands[p] /\ order[back[i]] = i
        BY <3>5, <3>7 DEF Undoes
      <4>2. Corresponds(l, r, f, g, v, w)  BY <3>6, <4>1
      <4>3. v \in Value /\ w \in Value  BY <3>4, <4>1, ElementOfSeq, LenProperties
      <4> QED  BY <2>2, <4>2, <4>3, CorrespondsBack
    <3>9. \A i \in DOMAIN Operands[o] :
            Corresponds(r, l, d, e, Operands[o][i], Operands[d[o]][back[i]])
      BY <3>8
    <3> QED  BY <3>9
  <2>5. OperandsCorrespond(r, l, d, e)  BY <2>4 DEF OperandsCorrespond
  <2> PICK u : u = <<d, e>>  OBVIOUS
  <2>6. u \in Twins(r, l) /\ u[1] = d /\ u[2] = e  BY <2>3, TwinIff
  <2>7. OperandsCorrespond(r, l, u[1], u[2])  BY <2>5, <2>6
  <2> QED  BY <2>6, <2>7 DEF Equivalent
<1> QED  BY <1>1, <1>2

(* The verdict before is of the converse of the comparison.                *)
Answered == verdict \in Completed => lhs \in Op /\ rhs \in Op
EarlierInv ==
  earlier \in Completed => /\ lhs \in Op /\ rhs \in Op
                           /\ (earlier = "equal") = Equivalent(rhs, lhs)

LEMMA AnsweredStep ==
  ASSUME CheckInv, Answered, [Next]_vars
  PROVE  Answered'
<1>1. ASSUME NEW l \in Root, NEW r \in Root, Start(l, r) PROVE Answered'
  BY <1>1, ProgramFacts DEF Start, Answered
<1>2. CASE UNCHANGED vars  BY <1>2 DEF vars, Answered
<1>3. CASE Compare
  <2>1. phase # "idle" /\ UNCHANGED <<lhs, rhs>>
    BY <1>3 DEF Compare, MatchOperation, MatchRegion, MatchBlock, Matching,
       CheckOperands, CompareOperand, NotFound, NextOperation, AllEquivalent,
       InOperands, Finish
  <2> QED  BY <2>1, ProgramFacts DEF CheckInv, Fresh, Answered
<1> QED  BY <1>1, <1>2, <1>3 DEF Next

LEMMA EarlierStep ==
  ASSUME CheckInv, Answered, Agrees, EarlierInv, [Next]_vars
  PROVE  EarlierInv'
<1>1. ASSUME NEW l \in Root, NEW r \in Root, Start(l, r) PROVE EarlierInv'
  <2>1. lhs' = l /\ rhs' = r /\ l \in Op /\ r \in Op  BY <1>1, ProgramFacts DEF Start
  <2>2. CASE l = rhs /\ r = lhs
    <3>1. earlier' = verdict  BY <1>1, <2>2 DEF Start
    <3>2. ASSUME verdict \in Completed PROVE (verdict = "equal") = Equivalent(r, l)
      BY <2>2, <3>2 DEF Agrees
    <3> QED  BY <2>1, <3>1, <3>2 DEF EarlierInv
  <2>3. CASE ~(l = rhs /\ r = lhs)
    <3>1. earlier' = Null  BY <1>1, <2>3 DEF Start
    <3> QED  BY <3>1, EquivalenceAssumption DEF EarlierInv, Completed
  <2> QED  BY <2>2, <2>3
<1>2. CASE UNCHANGED <<lhs, rhs, earlier>>  BY <1>2 DEF EarlierInv
<1>3. CASE Compare
  <2>1. UNCHANGED <<lhs, rhs, earlier>>
    BY <1>3 DEF Compare, MatchOperation, MatchRegion, MatchBlock,
       CheckOperands, CompareOperand, NotFound, NextOperation, AllEquivalent,
       Finish
  <2> QED  BY <1>2, <2>1
<1> QED  BY <1>1, <1>2, <1>3 DEF Next, vars

(* Comparisons that complete, in either direction, answer the same: a twin *)
(* has an inverse, and what is outside of the one is outside of the other. *)
THEOREM ComparisonsSymmetric == Spec => []Symmetric
<1>1. Init => Answered /\ EarlierInv
  BY EquivalenceAssumption DEF Init, Answered, EarlierInv, Completed
<1>2. CheckInv /\ Answered /\ Agrees /\ EarlierInv /\ [Next]_vars => Answered' /\ EarlierInv'
  BY AnsweredStep, EarlierStep
<1>3. ASSUME Agrees, Answered, EarlierInv PROVE Symmetric
  <2> SUFFICES ASSUME verdict \in Completed, earlier \in Completed PROVE verdict = earlier
    BY DEF Symmetric
  <2>1. lhs \in Op /\ rhs \in Op  BY <1>3 DEF Answered
  <2>2. (verdict = "equal") = Equivalent(lhs, rhs)
        /\ (earlier = "equal") = Equivalent(rhs, lhs)
    BY <1>3 DEF Agrees, EarlierInv
  <2>3. Equivalent(lhs, rhs) <=> Equivalent(rhs, lhs)  BY <2>1, EquivalentBack
  <2>4. verdict = "equal" <=> earlier = "equal"  BY <2>2, <2>3
  <2> QED  BY <2>4 DEF Completed
<1>4. Agrees /\ Answered /\ EarlierInv => Symmetric  BY <1>3
<1> QED  BY <1>1, <1>2, <1>4, ComparisonsFit, ComparisonsAgree, PTL DEF Spec
=============================================================================
