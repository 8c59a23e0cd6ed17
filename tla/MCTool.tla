------------------------------- MODULE MCTool -------------------------------
(***************************************************************************)
(* Five chunks for Tool: two that run and three that can't.                *)
(***************************************************************************)
EXTENDS Reports, Evaluation, TLC

CONSTANTS small, large, garbled, empty, external,
          main1, pair, flag, region, deep, yielded, far, main2, pair2, graph, cyclic

(* func.func @main() {                                                     *)
(*   %p:2, %q = "pair"()                                                   *)
(*   %f = "flag"()                                                         *)
(*   %r = "region"() ({ %d = "deep"(%p#0, %f)  %y:2 = "yielded"(%d) })     *)
(*   %far = "far"(%r) }                                                    *)
(* func.func @main() {                                                     *)
(*   %p:2, %q = "pair"()                                                   *)
(*   %g = "graph"() ({ %c = "cyclic"(%c) }) }                              *)
(* The regions' operations read what is yielded last in them.              *)
ToolMain == (small :> main1) @@ (large :> main2) @@ (garbled :> "syntax")
            @@ (empty :> "no main") @@ (external :> "no body")
ToolExpected == (small :> {}) @@ (large :> {"syntax"}) @@ (garbled :> {"syntax"})
                @@ (empty :> {"no body"}) @@ (external :> {})
ToolInputs == UNION {[1..n -> Chunk] : n \in 1..3}

ToolNested ==
  (main1 :> <<pair, flag, region, far>>) @@ (region :> <<deep, yielded>>)
  @@ (main2 :> <<pair2, graph>>) @@ (graph :> <<cyclic>>)
  @@ [o \in Op |-> <<>>]
ToolArity ==
  [o \in {main1, main2} |-> 0] @@ [o \in {pair, pair2} |-> 3] @@ (yielded :> 2)
  @@ [o \in Op |-> 1]
ToolStarts ==
  [o \in {main1, main2} |-> <<>>] @@ [o \in {pair, pair2} |-> <<0, 2>>]
  @@ [o \in Op |-> <<0>>]

(* The places of the results: the first chunk's, then the second's.        *)
ToolBefore ==
  (main1 :> 0) @@ (pair :> 0) @@ (flag :> 3) @@ (region :> 4) @@ (deep :> 5)
  @@ (yielded :> 6) @@ (far :> 8)
  @@ (main2 :> 9) @@ (pair2 :> 9) @@ (graph :> 12) @@ (cyclic :> 13)
ToolThrough ==
  (main1 :> 9) @@ (pair :> 3) @@ (flag :> 4) @@ (region :> 8) @@ (deep :> 6)
  @@ (yielded :> 8) @@ (far :> 9)
  @@ (main2 :> 14) @@ (pair2 :> 12) @@ (graph :> 14) @@ (cyclic :> 14)

(* With a budget of 2 the query of the region ends exhausted, but leaves   *)
(* deep cached, so that those of what it yields complete, and then far's.  *)
ToolOperands ==
  (deep :> <<<<pair, 0>>, <<flag, 0>>>>) @@ (yielded :> <<<<deep, 0>>>>)
  @@ (cyclic :> <<<<cyclic, 0>>>>) @@ [o \in Op |-> <<>>]
ToolReads ==
  (region :> <<<<yielded, 1>>>>) @@ (far :> <<<<region, 0>>>>)
  @@ (graph :> <<<<cyclic, 0>>>>) @@ ToolOperands
ToolLike == (pair2 :> pair) @@ [o \in Op |-> o]
ToolGiven ==
  [r \in {pair, pair2} \X {0} |-> Completed([bits |-> 2, width |-> 3])]
  @@ [r \in {pair, pair2} \X {1} |-> Completed([bits |-> 4, width |-> 3])]
  @@ [r \in {pair, pair2} \X {2} |-> Completed(Other)]
  @@ (<<flag, 0>> :> Completed([bits |-> 1, width |-> 1]))
  @@ (<<yielded, 0>> :> Completed(Null))
  @@ [r \in Result |-> Completed([bits |-> 7, width |-> 3])]
=============================================================================
