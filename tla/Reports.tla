------------------------------- MODULE Reports -------------------------------
(***************************************************************************)
(* What the tool must report of a chunk, from the chunk alone.  The order  *)
(* of the source is told by places: the operations nested in another are   *)
(* laid out after its results, one after the other.                        *)
(***************************************************************************)
EXTENDS Tool

CONSTANTS
  Before,   \* [Op -> Nat]: the place of its first result
  Through   \* [Op -> Nat]: the place after the results in it, nested or not

Place(r) == Before[r[1]] + r[2]

(* The operations take up the places from "at" to before "end", in order.  *)
Laid(ops, at, end) ==
  /\ \A i \in DOMAIN ops :
       Before[ops[i]] = IF i = 1 THEN at ELSE Through[ops[i - 1]]
  /\ end = IF ops = <<>> THEN at ELSE Through[ops[Len(ops)]]

(* The results of a chunk in the order of the source.                     *)
Results(c) == IF Main[c] \in Fault THEN 0 ELSE Through[Main[c]] - Before[Main[c]]
Source(c) ==
  [k \in 1..Results(c) |-> CHOOSE r \in Result : Place(r) = Before[Main[c]] + k - 1]

(* What a query gives of the k-th of these results when it follows those   *)
(* of the results before it, and nothing else.                             *)
QueryInTurn(source, k) == Query([j \in 1..(k - 1) |-> source[j]], source[k])

(* An integer has its bits.                                                *)
IsAnswer(answer) ==
  \/ IsSignal(answer)
  \/ answer \in {Completed(Null), Completed(Other)}
  \/ /\ 2^answer.value.width \in Nat \ {0}
     /\ answer.value.bits \in 0..(2^answer.value.width - 1)

(* Places are a numbering of the results, those in an operation within its *)
(* own.                                                                    *)
ASSUME ReportsAssumption ==
  /\ Null # Other
  /\ Before \in [Op -> Nat] /\ Through \in [Op -> Nat]
  /\ \A o \in Op :
       /\ Laid(Nested[o], Before[o] + Arity[o], Through[o])
       /\ Before[o] + Arity[o] <= Through[o]
       /\ \A i \in DOMAIN Nested[o] : Through[Nested[o][i]] <= Through[o]
  /\ \A r, s \in Result : Place(r) = Place(s) => r = s
  /\ \A c \in Chunk : \A k \in 1..Results(c) :
       IsAnswer(QueryInTurn(Source(c), k).answer)

(* What a row must say of the answer: the number of the type's range that  *)
(* has its bits.                                                           *)
Says(row, answer) ==
  /\ row.status = answer.status
  /\ \/ IsSignal(answer) /\ row.evaluated = Word("-")
     \/ answer = Completed(Null) /\ row.evaluated = Word("unknown")
     \/ answer = Completed(Other) /\ row.evaluated = Word("known")
     \/ /\ ~IsSignal(answer) /\ answer \notin {Completed(Null), Completed(Other)}
        /\ LET value == answer.value
               modulus == 2^value.width
           IN IF value.width = 1
              THEN row.evaluated = Word(IF value.bits = 1 THEN "true" ELSE "false")
              ELSE \E k \in (-modulus)..modulus :
                     /\ -modulus <= 2 * k /\ 2 * k < modulus
                     /\ k % modulus = value.bits /\ row.evaluated = Number(k)

(* A chunk's report has its results in source order, and in each row what  *)
(* an engine says that has been asked for the rows before it in a context  *)
(* of its own, and for nothing else: "Runs one chunk of the input in its   *)
(* own context".                                                           *)
RowAlone(source, row, k) ==
  /\ row.result = source[k]
  /\ Says(row, QueryInTurn(source, k).answer)
  /\ row.cache = QueryInTurn(source, k).outcome
Alone(c, rows) ==
  /\ Len(rows) = Results(c)
  /\ \A k \in DOMAIN rows : RowAlone(Source(c), rows[k], k)
ReportsAlone == \A i \in DOMAIN reports : Alone(input[i], reports[i])
=============================================================================
