------------------------------ MODULE Signals ------------------------------
(***************************************************************************)
(* When a query ends with a signal: only with its budget spent, or at a    *)
(* value that needs itself; and always at one that does, however much the  *)
(* cache holds.                                                            *)
(***************************************************************************)
EXTENDS Interp

Answered == running /\ stack = <<>>

(* A query answers Exhausted only when its budget is spent, and Cycle only *)
(* when the value depends on itself: in a program where none does, a Cycle *)
(* between two operations whose keys are compared stays between them.      *)
ExhaustedMeansSpent == Answered /\ answer.status = "Exhausted" => remaining = 0
NoSpuriousCycle == Answered => answer.status # "Cycle"

(* Operands that answer at once, and not so that the next is not asked     *)
(* for: known constants, other than a zero factor.                         *)
FoldsTo(v) == Completed(AttrValue[AttrOf[v]])
PassedOver(o, v) ==
  /\ HasConstant(v)
  /\ IF o \in Loops THEN ~IsUnknown(FoldsTo(v)) ELSE ~Decides(o, FoldsTo(v))

(* Every operation of S needs one of S: its first operand that is not      *)
(* passed over is a result of S.                                           *)
NeedsOneOf(o, S) ==
  \E i \in DOMAIN Operands[o] :
    /\ Operands[o][i] \in Result /\ Operands[o][i][1] \in S
    /\ \A j \in 1..(i - 1) : PassedOver(o, Operands[o][j])
SelfNeeding(S) == \A o \in S : NeedsOneOf(o, S)
Cyclic == {o \in Op : \E S \in SUBSET Op : o \in S /\ SelfNeeding(S)}

(* Such an operation never completes, is never memoized and never enters   *)
(* the cache: a query of it answers a signal, from whichever operation of  *)
(* its cycle, or outside it, the query entered.                            *)
CyclicNeverKnown ==
  /\ Answered /\ asked \in Result /\ asked[1] \in Cyclic =>
       answer.status \in {"Cycle", "Exhausted"}
  /\ \A v \in Result : v[1] \in Cyclic => memo[v] = NotMemoized
  /\ \A k \in Key : \A n \in DOMAIN entries[k] : entries[k][n].op \notin Cyclic
=============================================================================
