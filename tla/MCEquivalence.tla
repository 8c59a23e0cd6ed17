--------------------------- MODULE MCEquivalence ---------------------------
(***************************************************************************)
(* Operations to compare, most of them after test/EvalOperationEquivalence.*)
(* cpp.  An operation or a block is named by the operation the host        *)
(* compares and its part of it.                                            *)
(***************************************************************************)
EXTENDS Correspondence

CONSTANTS number2, number3

(* The arguments of the function around them: two and deux are known to be *)
(* equal, x and y are unknown, far is of another type.                     *)
main == <<"main", "block">>
two == <<main, 1>>
deux == <<main, 2>>
three == <<main, 3>>
x == <<main, 4>>
y == <<main, 5>>
far == <<main, 6>>
Of(name, part) == <<<<name, part>>, 1>>

Add ==
  [two_x |-> <<two, x>>, x_deux |-> <<x, deux>>, two_y |-> <<two, y>>,
   two_two |-> <<two, deux>>, two_three |-> <<two, three>>,
   x_far |-> <<x, far>>, of_sub1 |-> <<Of("sub1", "op"), two>>,
   of_sub2 |-> <<deux, Of("sub2", "op")>>,
   max1 |-> <<two, deux, three>>, max2 |-> <<three, deux, two>>,
   max3 |-> <<two, three, three>>]
Sub == [sub1 |-> <<x, two>>, sub2 |-> <<x, deux>>, sub3 |-> <<two, x>>,
        sub4 |-> <<Of("sub1", "op"), two>>]

(* Loops with a sum and a yield in the body, in another order, of captured *)
(* values, or with another yield; for6 has an argument of another type.    *)
LoopOperand ==
  [for1 |-> two, for2 |-> deux, for3 |-> deux, for4 |-> two, for5 |-> deux,
   for6 |-> deux]
BodyArg(name, i) == <<<<name, "body">>, i>>
Summands ==
  [for1 |-> <<BodyArg("for1", 1), BodyArg("for1", 2)>>,
   for2 |-> <<BodyArg("for2", 2), BodyArg("for2", 1)>>,
   for3 |-> <<BodyArg("for3", 1), BodyArg("for3", 2)>>,
   for4 |-> <<BodyArg("for4", 1), two>>, for5 |-> <<deux, BodyArg("for5", 1)>>,
   for6 |-> <<BodyArg("for6", 1), BodyArg("for6", 2)>>]

(* Regions with a constant known to be two: inner yields it, outer the two  *)
(* of main.                                                                *)
Given == [inner |-> Of("inner", "const"), outer |-> two]

(* Graphs of blocks: entry to late, late to early, and early uses what late*)
(* defines, although it is listed before late; cfg3 never leaves late.     *)
Minuend == [cfg1 |-> two, cfg2 |-> deux, cfg3 |-> deux]

Loops == DOMAIN LoopOperand
Graphs == DOMAIN Minuend
Opaque == DOMAIN Given
Names == DOMAIN Add \cup DOMAIN Sub \cup Loops \cup Opaque \cup Graphs
Roots == {<<n, "op">> : n \in Names}
AllOps ==
  Roots \cup (Loops \X {"sum", "yield"}) \cup (Opaque \X {"const", "yield"})
        \cup (Graphs \X {"to", "yield", "def", "back"})
AllBlocks ==
  {main} \cup (Loops \X {"body"}) \cup (Opaque \X {"body"})
         \cup (Graphs \X {"entry", "early", "late"})

LabelOf ==
  [o \in AllOps |->
     CASE o[1] \in DOMAIN Add \/ o[2] = "sum" -> "add"
       [] o[1] \in DOMAIN Sub \/ o[2] = "def" -> "sub"
       [] o[2] = "op" /\ o[1] \in Loops -> "for"
       [] o[2] = "op" /\ o[1] \in Opaque \cup Graphs -> "region"
       [] o[2] \in {"to", "back"} -> "br"
       [] o[2] \in {"yield", "const"} -> o[2]]
OperandsOf ==
  [<<n, part>> \in AllOps |->
     CASE n \in DOMAIN Add -> Add[n]
       [] n \in DOMAIN Sub -> Sub[n]
       [] n \in Loops /\ part = "op" -> <<LoopOperand[n]>>
       [] n \in Loops /\ part = "sum" -> Summands[n]
       [] n \in Loops /\ part = "yield" ->
            <<IF n = "for3" THEN BodyArg(n, 2) ELSE Of(n, "sum")>>
       [] n \in Opaque /\ part = "yield" -> <<Given[n]>>
       [] n \in Graphs /\ part = "def" -> <<Minuend[n], three>>
       [] n \in Graphs /\ part = "yield" -> <<Of(n, "def")>>
       [] OTHER -> <<>>]
RegionsOf ==
  [<<n, part>> \in AllOps |->
     CASE part = "op" /\ n \in Loops \cup Opaque -> <<<<<<n, "body">>>>>>
       [] part = "op" /\ n \in Graphs ->
            <<<<<<n, "entry">>, <<n, "early">>, <<n, "late">>>>>>
       [] OTHER -> <<>>]
SuccessorsOf ==
  [<<n, part>> \in AllOps |->
     CASE part = "to" \/ (part = "back" /\ n = "cfg3") -> <<<<n, "late">>>>
       [] part = "back" /\ n # "cfg3" -> <<<<n, "early">>>>
       [] OTHER -> <<>>]
BodyOf ==
  [<<n, part>> \in AllBlocks |->
     CASE n \in Loops -> <<<<n, "sum">>, <<n, "yield">>>>
       [] n \in Opaque -> <<<<n, "const">>, <<n, "yield">>>>
       [] part = "entry" -> <<<<n, "to">>>>
       [] part = "early" -> <<<<n, "yield">>>>
       [] part = "late" -> <<<<n, "def">>, <<n, "back">>>>
       [] part = "block" -> <<>>]
ResultsOf ==
  [o \in AllOps |-> IF o[2] \in {"yield", "to", "back"} THEN 0 ELSE 1]
ArgsOf ==
  [b \in AllBlocks |-> IF b = main THEN 6 ELSE IF b[1] \in Loops THEN 2 ELSE 0]
AllValues == UNION {{o} \X (1..ResultsOf[o]) : o \in AllOps} \cup
             UNION {{b} \X (1..ArgsOf[b]) : b \in AllBlocks}
TypeOf ==
  [v \in AllValues |-> IF v \in {far, BodyArg("for6", 1)} THEN "index" ELSE "i32"]
MeaningOf ==
  [v \in AllValues |->
     CASE v \in {two, deux, far} \/ v[1][2] = "const" -> number2
       [] v \in {three, Of("sub1", "op"), Of("sub2", "op")} -> number3
       [] OTHER -> Null]
=============================================================================
