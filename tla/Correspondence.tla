-------------------------- MODULE Correspondence ---------------------------
(***************************************************************************)
(* When two operations correspond, without the walk of Equivalence: there  *)
(* is a one-to-one map of what is inside one to what is inside the other   *)
(* that respects labels, regions, successors and operands.  The properties *)
(* compare the walk with it.                                               *)
(***************************************************************************)
EXTENDS Equivalence

(* What is inside an operation, itself included.                           *)
Nested(o) == UNION {ToSet(Body[b]) : b \in UNION {ToSet(r) : r \in ToSet(Regions[o])}}
OpsIn(o) ==
  LET within[depth \in 0..Cardinality(Op)] ==
        IF depth = 0 THEN {o}
        ELSE LET S == within[depth - 1] IN S \cup UNION {Nested(p) : p \in S}
  IN within[Cardinality(Op)]
BlocksIn(o) ==
  UNION {UNION {ToSet(r) : r \in ToSet(Regions[p])} : p \in OpsIn(o)}
ValuesIn(o) == {v \in Value : v[1] \in OpsIn(o) \cup BlocksIn(o)}

(* What MLIR verifies: an operation or block is at one place, not inside   *)
(* itself, and a successor is in the region of the operation's own block.  *)
NestsOnce ==
  /\ \A a, b \in Block : \A i \in DOMAIN Body[a], j \in DOMAIN Body[b] :
       Body[a][i] = Body[b][j] => a = b /\ i = j
  /\ \A o, p \in Op : \A k \in DOMAIN Regions[o], m \in DOMAIN Regions[p] :
       \A i \in DOMAIN Regions[o][k], j \in DOMAIN Regions[p][m] :
         Regions[o][k][i] = Regions[p][m][j] => o = p /\ k = m /\ i = j
  /\ \A o \in Op : \A p \in Nested(o) : o \notin OpsIn(p)
Siblings(o, b) ==
  \E p \in Op : \E k \in DOMAIN Regions[p] :
    /\ b \in ToSet(Regions[p][k])
    /\ \E c \in ToSet(Regions[p][k]) : o \in ToSet(Body[c])
ASSUME NestingAssumption ==
  /\ IsFiniteSet(Op) /\ Op \cap Block = {} /\ NestsOnce
  /\ \A o \in Op : \A b \in ToSet(Successors[o]) : Siblings(o, b)

(* A twin is the pair of the maps of operations and of blocks.             *)
SameSignature(l, r) ==
  /\ Label[l] = Label[r] /\ ResultTypes(l) = ResultTypes(r)
  /\ Len(Operands[l]) = Len(Operands[r])
Apart(f, b) == IF b \in DOMAIN f THEN f[b] ELSE b
Through(f, s) == [i \in DOMAIN s |-> Apart(f, s[i])]
Respects(f, g, o) ==
  /\ Successors[f[o]] = Through(g, Successors[o])
  /\ Regions[f[o]] = [k \in DOMAIN Regions[o] |-> Through(g, Regions[o][k])]
RespectsBlock(f, g, b) ==
  ArgTypes(g[b]) = ArgTypes(b) /\ Body[g[b]] = Through(f, Body[b])

Twins(l, r) ==
  {t \in
     {f \in Bijection(OpsIn(l), OpsIn(r)) :
        f[l] = r /\ \A o \in OpsIn(l) : SameSignature(o, f[o])}
     \X Bijection(BlocksIn(l), BlocksIn(r)) :
   /\ \A o \in OpsIn(l) : Respects(t[1], t[2], o)
   /\ \A b \in BlocksIn(l) : RespectsBlock(t[1], t[2], b)}

Image(f, g, v) ==
  IF v[1] \in DOMAIN f THEN <<f[v[1]], v[2]>> ELSE <<g[v[1]], v[2]>>

(* Inside, the one is the other's image; outside, both are the same value, *)
(* or known to be equal and of one type.                                   *)
MayCorrespond(l, r, f, g, v, w) ==
  IF v \in ValuesIn(l) THEN w = Image(f, g, v)
  ELSE w \notin ValuesIn(r) /\ (v = w \/ Type[v] = Type[w])
Corresponds(l, r, f, g, v, w) ==
  /\ MayCorrespond(l, r, f, g, v, w)
  /\ v \in ValuesIn(l) \/ EvaluatedValueEqual(v, w) = "equal"

(* The operands of commutative operations correspond in some order.        *)
Orders(o) == LET D == DOMAIN Operands[o]
             IN IF IsCommutative(o) THEN Bijection(D, D) ELSE {[i \in D |-> i]}
OperandsCorrespond(l, r, f, g) ==
  \A o \in OpsIn(l) : \E order \in Orders(o) : \A i \in DOMAIN Operands[o] :
    Corresponds(l, r, f, g, Operands[o][i], Operands[f[o]][order[i]])

Equivalent(l, r) ==
  l = r \/ \E t \in Twins(l, r) : OperandsCorrespond(l, r, t[1], t[2])

-----------------------------------------------------------------------------
Completed == {"equal", "different"}

(* A comparison that completes answers whether the operations correspond,  *)
(* whatever the order of regions, blocks and operands: the greedy choice of*)
(* compareCommutative misses no matching.                                  *)
Agrees ==
  verdict \in Completed => (verdict = "equal") = Equivalent(lhs, rhs)

(* "Must be symmetric" (EvaluableOpInterface.td:27): two comparisons that  *)
(* complete, in either direction, answer the same.                         *)
Symmetric ==
  {verdict, earlier} \subseteq Completed => verdict = earlier

(* Operations that isEquivalentTo matches hash equally                     *)
(* (EvaluableOpInterface.td:16), so a cache entry is found in the bucket of*)
(* any operation it serves.                                                *)
EqualHashes == verdict = "equal" => ComputeHash(lhs) = ComputeHash(rhs)

(* Once structure is matched, the map pairs all values inside one operation*)
(* with all values inside the other, one to one, even if a use precedes its*)
(* definition.                                                             *)
MapsAreTwins ==
  phase = "operands" \/ (phase = "structure" /\ todo = <<>>) =>
    <<DOMAIN values, Range(values)>> = <<ValuesIn(lhs), ValuesIn(rhs)>>
    /\ IsInjective(values)

(* Only distinct values from outside the operations, of one type, are      *)
(* evaluated: evaluating one from inside would do so outside its iteration.*)
AsksOutside ==
  \A pair \in asked :
    /\ pair[1] \notin ValuesIn(lhs) /\ pair[2] \notin ValuesIn(rhs)
    /\ pair[1] # pair[2] /\ Type[pair[1]] = Type[pair[2]]

(* Before an operand is evaluated, all operations inside have been matched *)
(* and the operands of those that are not commutative are in their place:  *)
(* the second pass (EvalOperationEquivalence.cpp:39-48) leaves commutative *)
(* operations to the third.                                                *)
FixedOperandsFirst ==
  asked # {} => \E t \in Twins(lhs, rhs) :
    \A o \in OpsIn(lhs) : IsCommutative(o) \/ \A i \in DOMAIN Operands[o] :
      MayCorrespond(lhs, rhs, t[1], t[2], Operands[o][i], Operands[t[1][o]][i])

(* What the class comment says of them all: "operands defined inside the   *)
(* compared operations correspond.  Only then does the third pass call     *)
(* `checkEquivalent` on the remaining operands, so a structural mismatch is*)
(* found before any operand is evaluated" (cpp:22-25).  Of a commutative   *)
(* operation those inside can correspond in some order.                    *)
InsideCorrespond(l, r, f, g, v, w) ==
  v \in ValuesIn(l) \/ w \in ValuesIn(r) =>
    v \in ValuesIn(l) /\ w = Image(f, g, v)
StructureFirst ==
  asked # {} => \E t \in Twins(lhs, rhs) :
    \A o \in OpsIn(lhs) : \E order \in Orders(o) : \A i \in DOMAIN Operands[o] :
      InsideCorrespond(lhs, rhs, t[1], t[2],
                       Operands[o][i], Operands[t[1][o]][order[i]])
=============================================================================
