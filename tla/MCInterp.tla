------------------------------ MODULE MCInterp ------------------------------
(***************************************************************************)
(* Four programs for Interp; a value is written as in MLIR.                *)
(***************************************************************************)
EXTENDS Denotation, TLC

CONSTANTS v3, tri, inner, n, copy, s, u, triBody, innerBody,
          signed, negative, idle, wraps, still, loop, again, short, open,
          seven, given, b1, b2, b3, b4, b5, b6, b7, b8, b9,
          sum, z, prod, use, sumBody, l, g, h, k, y, lBody,
          w, last, loopBody, c0, c1, c2, c3, c4, c7

R(o) == <<o, 1>>

ConstantValue == (c0 :> 0) @@ (c1 :> 1) @@ (c2 :> 2) @@ (c3 :> 3)
                 @@ (c4 :> 4) @@ (c7 :> 7) @@ (seven :> 7)
SelfAttr == [c \in Constant |-> c]
ConstantAttr == [c \in Attr |-> ConstantValue[c]]
AllOnce == [o \in Op |-> 1]
TwoArgs == [b \in Block |-> 2]
BodyOwner == [b \in Block |-> CHOOSE o \in DOMAIN Body : Body[o] = b]

(* A callback on an operation asks for its operands, its yields, and, of an*)
(* operation it is compared with, the operands of that one.                *)
AllUses ==
  [o \in Op |-> {Operands[o][i] : i \in DOMAIN Operands[o]} \cup
                (IF o \in DOMAIN Yields
                 THEN {Yields[o][i] : i \in DOMAIN Yields[o]} ELSE {})]

(* Two keys, so that equal and different operations share buckets.         *)
CoarseHash(x) == IF x.kind = "zero" THEN 0 ELSE 1
CoarseKey == {0, 1}

(* One more, so that what depends on an unbound argument is compared with  *)
(* nothing: interp_stale asks what such a comparison does.                 *)
ApartHash(x) == IF x.kind = "identity" THEN 2 ELSE CoarseHash(x)

(* One more, so that loops share a bucket among themselves.                *)
KindHash(x) == IF x.kind = "for" THEN 2 ELSE CoarseHash(x)
FineKey == {0, 1, 2}

(* %v3 = addi 1, 0                                                         *)
(* %tri = for %i = 0 to 3 step 1 iter_args(%a = 0) {   (has effects)       *)
(*   %inner = for %j = 0 to %i step 1 iter_args(%b = %a) {                 *)
(*     %n = addi %b, %v3;  yield %n }                                      *)
(*   yield %inner }                                                        *)
(* %copy = addi %tri, 0;  %s = addi 0, 1;  %u = subi %copy, %s             *)
NestedOp == {v3, tri, inner, n, copy, s, u}
NestedKind == (tri :> "for") @@ (inner :> "for") @@ (u :> "subi")
              @@ [o \in {v3, n, copy, s} |-> "addi"]
NestedOperands ==
  (tri :> <<c0, c3, c1, c0>>)
  @@ (inner :> <<c0, <<triBody, 1>>, c1, <<triBody, 2>>>>)
  @@ (v3 :> <<c1, c0>>) @@ (n :> <<<<innerBody, 2>>, R(v3)>>)
  @@ (copy :> <<R(tri), c0>>) @@ (s :> <<c0, c1>>) @@ (u :> <<R(copy), R(s)>>)
NestedBody == (tri :> triBody) @@ (inner :> innerBody)
NestedYields == (tri :> <<R(inner)>>) @@ (inner :> <<R(n)>>)
NestedScope ==
  [v \in Value |->
     IF v \in {R(n)} \cup ArgsOf(innerBody) THEN {triBody, innerBody}
     ELSE IF v \in {R(inner)} \cup ArgsOf(triBody) THEN {triBody} ELSE {}]

(* Loops whose yield is %i; with a type of 3 bits, where 7 is -1 when      *)
(* signed and 3 the largest:                                               *)
(* %signed = for 0 to 3 step 2;  %negative = for 0 to 3 step 7;            *)
(* %idle = for 0 to 3 step 1;                                              *)
(* and unsigned %wraps = for 3 to 7 step 7;  %still = for 3 to 3 step 0;   *)
(* %loop = for 1 to 7 step 3;  %again = for 1 to %seven step 3;            *)
(* %short = for 1 to 4 step 3;                                             *)
(* %open = for 1 to 7 step 3 iter_args(%a = %given)                        *)
(* %seven is another constant 7, and %given is unknown.  And, in the same  *)
(* graph region,                                                           *)
(* %g = addi %l, 1;  %h = muli 0, %g;  %k = addi %h, 1                     *)
(* %l = for 0 to 3 step 1 iter_args(%a = %g) {   (has effects)             *)
(*   %y = addi %a, 1;  yield %y }                                          *)
IdleBody ==
  (signed :> b1) @@ (negative :> b2) @@ (idle :> b3) @@ (wraps :> b4)
  @@ (still :> b5) @@ (loop :> b6) @@ (again :> b7) @@ (short :> b8) @@ (open :> b9)
IdleLoop == DOMAIN IdleBody
GraphOp == IdleLoop \cup {g, h, k, l, y}
GraphKind == (l :> "for") @@ (h :> "muli")
             @@ [o \in GraphOp |-> IF o \in IdleLoop THEN "for" ELSE "addi"]
GraphOperands ==
  (signed :> <<c0, c3, c2, c0>>) @@ (negative :> <<c0, c3, c7, c0>>)
  @@ (idle :> <<c0, c3, c1, c0>>) @@ (wraps :> <<c3, c7, c7, c0>>)
  @@ (still :> <<c3, c3, c0, c0>>) @@ (loop :> <<c1, c7, c3, c0>>)
  @@ (again :> <<c1, seven, c3, c0>>) @@ (short :> <<c1, c4, c3, c0>>)
  @@ (open :> <<c1, c7, c3, given>>)
  @@ (g :> <<R(l), c1>>) @@ (h :> <<c0, R(g)>>) @@ (k :> <<R(h), c1>>)
  @@ (l :> <<c0, c3, c1, R(g)>>) @@ (y :> <<<<lBody, 2>>, c1>>)
GraphBody == (l :> lBody) @@ IdleBody
GraphYields == (l :> <<R(y)>>) @@ [o \in IdleLoop |-> <<<<IdleBody[o], 1>>>>]
GraphUnsigned == IdleLoop \ {signed, negative, idle}
GraphAlike ==
  {pair \in IdleLoop \X IdleLoop :
     pair[1] # pair[2] /\ (pair[1] \in GraphUnsigned) = (pair[2] \in GraphUnsigned)}
GraphScope ==
  [v \in Value |-> {b \in Block : v \in ArgsOf(b) \cup {Yields[Owner[b]][1]}}]

(* What pairs the bodies of two of the alike.                              *)
Twins(o, p) == {<<<<Body[o], i>>, <<Body[p], i>>>> : i \in 1..2}
ASSUME TwinsAssumption == \A p \in Alike : AlikeBodies(Twins(p[1], p[2]), p[1], p[2])

(* %sum = for %i = 0 to 3 step 1 iter_args(%acc = 0) {   (has effects)     *)
(*   %z = muli %i, 0;  %n = addi %acc, %i;  yield %n }                     *)
(* %prod = muli 0, 7;  %use = addi %prod, %sum                             *)
StaleOp == {sum, z, n, prod, use}
StaleKind == (sum :> "for") @@ (z :> "muli") @@ (n :> "addi") @@ (prod :> "muli")
             @@ (use :> "addi")
StaleOperands ==
  (sum :> <<c0, c3, c1, c0>>) @@ (z :> <<<<sumBody, 1>>, c0>>)
  @@ (n :> <<<<sumBody, 2>>, <<sumBody, 1>>>>) @@ (prod :> <<c0, c7>>)
  @@ (use :> <<R(prod), R(sum)>>)
StaleBody == (sum :> sumBody)
StaleYields == (sum :> <<R(n)>>)
StaleScope ==
  [v \in Value |->
     IF v \in {R(z), R(n)} \cup ArgsOf(sumBody) THEN {sumBody} ELSE {}]

(* %v3 = addi 3, 0;  %copy = addi %v3, 0;  %last = addi %loop, %copy       *)
(* %loop = for %i = 0 to 3 step 1 iter_args(%a = 0) {   (has effects)      *)
(*   %w = addi %a, %v3;  yield %w }                                        *)
SharedOp == {v3, copy, w, loop, last}
SharedKind == [o \in SharedOp |-> IF o = loop THEN "for" ELSE "addi"]
SharedOperands ==
  (v3 :> <<c3, c0>>) @@ (copy :> <<R(v3), c0>>) @@ (last :> <<R(loop), R(copy)>>)
  @@ (loop :> <<c0, c3, c1, c0>>) @@ (w :> <<<<loopBody, 2>>, R(v3)>>)
SharedBody == (loop :> loopBody)
SharedYields == (loop :> <<R(w)>>)
SharedScope ==
  [v \in Value |->
     IF v \in {R(w)} \cup ArgsOf(loopBody) THEN {loopBody} ELSE {}]
=============================================================================
