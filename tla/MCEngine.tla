------------------------------ MODULE MCEngine ------------------------------
(***************************************************************************)
(* Small programs for the engine.  CacheProgram has no loop: a is cheap,   *)
(* b uses a and is compared with it, d has two results and re-enters       *)
(* itself.  LoopProgram nests the loop inner in the body*)
(* of outer.                                                               *)
(***************************************************************************)
EXTENDS Engine, TLC

CONSTANTS a, b, d, c, attr, key, val, outer, inner, m, outerBody, innerBody

CacheOp == {a, b, d}
CacheArity == (a :> 1) @@ (b :> 1) @@ (d :> 2)
CacheUses == (a :> {c}) @@ (b :> {<<a, 1>>}) @@ (d :> {<<b, 1>>, <<d, 2>>})

NoFunction == [x \in {} |-> 0]
OneAttr == [x \in {c} |-> attr]
OneValue == [x \in {attr} |-> val]
NoScope == [v \in Value |-> {}]

LoopOp == {outer, inner, m}
LoopArity == [o \in LoopOp |-> 1]
LoopUses == (outer :> {<<inner, 1>>}) @@ (inner :> {<<m, 1>>})
            @@ (m :> {<<innerBody, 1>>, <<outerBody, 1>>, <<outer, 1>>})
LoopBlock == {outerBody, innerBody}
LoopOwner == (outerBody :> outer) @@ (innerBody :> inner)
LoopNumArgs == [x \in LoopBlock |-> 1]
LoopScope ==
  [v \in Value |->
     IF v \in {<<m, 1>>, <<innerBody, 1>>} THEN LoopBlock
     ELSE IF v \in {<<inner, 1>>, <<outerBody, 1>>} THEN {outerBody} ELSE {}]
=============================================================================
