-------------------------------- MODULE Tool --------------------------------
(***************************************************************************)
(* The command-line tool (tools/interpreter/interpreter.cpp): the input is *)
(* split into chunks, @main of each is run in a context of its own, and    *)
(* every result in it is queried and reported, in source order.            *)
(*                                                                         *)
(* What a query answers is the engine's business (Engine, Interp).  All the*)
(* tool relies on is that it depends on the queries made in the context so *)
(* far and on nothing else, so that the tool can spoil it only by asking in*)
(* another order, or in a context used before: here the context is the     *)
(* sequence of those queries, and Query any function of it.                *)
(***************************************************************************)
EXTENDS Integers, Sequences, FiniteSets

CONSTANTS
  Inputs,      \* the sequences of chunks an input file may be split into
  Chunk,
  Main,        \* [Chunk -> Op \cup Fault]: @main, or why there is none to run
  Fault,       \* "syntax", "no main", "no body"
  Expected,    \* [Chunk -> SUBSET Fault]: its expected-* comments
  Op,
  Nested,      \* [Op -> Seq(Op)]: the operations directly in its regions
  Arity,       \* [Op -> number of results]
  Starts,      \* [Op -> Seq(Nat)]: where each of its result groups starts
  Query(_, _), \* [answer, outcome] of a query of a result after these others
  Null,
  Other        \* a value of a class that is not printed

Result == UNION {{o} \X (0..(Arity[o] - 1)) : o \in Op}

(* A value is Null, Other or an integer: [bits, width].                    *)
Completed(value) == [status |-> "Completed", value |-> value]
Signaled(s) == [status |-> s, value |-> Null]
IsSignal(answer) == answer.status # "Completed"

ASSUME ToolAssumption ==
  /\ Inputs \subseteq Seq(Chunk) /\ Main \in [Chunk -> Op \cup Fault]
  /\ Expected \in [Chunk -> SUBSET Fault] /\ Op \cap Fault = {}
  /\ Nested \in [Op -> Seq(Op)] /\ Arity \in [Op -> Nat]
  /\ Starts \in [Op -> Seq(Nat)]
  /\ \A o \in Op :
       /\ Arity[o] > 0 => Starts[o] # <<>> /\ Starts[o][1] = 0
       /\ \A i \in DOMAIN Starts[o] :
            /\ Starts[o][i] < Arity[o]
            /\ \A j \in DOMAIN Starts[o] : i < j => Starts[o][i] < Starts[o][j]

VARIABLES
  verify,   \* --verify-diagnostics
  input,    \* the chunks of the input file; Null when it can't be opened
  done,     \* number of chunks run
  phase,    \* "split" between chunks, "walk" and "end" within one, "exit"
  context,  \* the results queried in the current context, in order
  work,     \* the operations the walk has yet to visit
  number,   \* the next result of the first of them
  report,   \* the rows of the current chunk
  emitted,  \* the errors it emitted
  reports,  \* the reports of the chunks run
  failed,   \* some chunk failed
  status    \* of the process
vars == <<verify, input, done, phase, context, work, number, report, emitted,
          reports, failed, status>>

-----------------------------------------------------------------------------
(* A row.                                                                  *)

(* The last group that starts at or before the result has it; it is        *)
(* numbered where its group has another one.                               *)
GroupBefore(o, n) == CHOOSE g \in DOMAIN Starts[o] :
  /\ Starts[o][g] < n \/ g = 1
  /\ \A i \in DOMAIN Starts[o] : i > g => Starts[o][i] >= n
GroupOf(o, n) == CHOOSE g \in DOMAIN Starts[o] :
  /\ Starts[o][g] <= n
  /\ \A i \in DOMAIN Starts[o] : i > g => Starts[o][i] > n
GroupEnd(o, g) == IF g = Len(Starts[o]) THEN Arity[o] ELSE Starts[o][g + 1]
SourceName(o, n) ==
  LET g == GroupOf(o, n)
  IN IF GroupEnd(o, g) - Starts[o][g] > 1 THEN <<g, n - Starts[o][g]>> ELSE <<g>>

(* Words and numbers.                                                      *)
Word(w) == <<w>>
Number(k) == <<"number", k>>
PrintSigned(value) ==
  Number(IF 2 * value.bits >= 2^value.width THEN value.bits - 2^value.width
         ELSE value.bits)
PrintEvaluated(answer) ==
  CASE IsSignal(answer) -> Word("-")
    [] answer = Completed(Null) -> Word("unknown")
    [] answer = Completed(Other) -> Word("known")
    [] OTHER -> IF answer.value.width # 1 THEN PrintSigned(answer.value)
                ELSE Word(IF answer.value.bits = 1 THEN "true" ELSE "false")

(* The row of a result and of what the query of it gave.                   *)
Row(r, query) ==
  [result |-> r, name |-> SourceName(r[1], r[2]),
   evaluated |-> PrintEvaluated(query.answer),
   cache |-> query.outcome, status |-> query.answer.status]

-----------------------------------------------------------------------------
(* The contexts of chunks have nothing in common.                          *)
SharedContext == context
FreshContext == <<>>

StartChunk ==
  /\ phase = "split" /\ input # Null /\ done < Len(input)
  /\ context' = FreshContext /\ report' = <<>> /\ number' = 0
  /\ LET main == Main[input[done + 1]]
     IN \/ /\ main \in Fault
           /\ emitted' = {main} /\ work' = <<>> /\ phase' = "end"
        \/ /\ main \in Op
           /\ emitted' = {} /\ work' = <<main>> /\ phase' = "walk"
  /\ UNCHANGED <<verify, input, done, reports, failed, status>>

ReportResult ==
  /\ phase = "walk" /\ work # <<>> /\ number < Arity[Head(work)]
  /\ LET r == <<Head(work), number>>
     IN /\ report' = Append(report, Row(r, Query(context, r)))
        /\ context' = Append(context, r)
  /\ number' = number + 1
  /\ UNCHANGED <<verify, input, done, phase, work, emitted, reports, failed, status>>

(* Before what comes after it, the walk visits what is in an operation.    *)
PreOrder(o, rest) == Nested[o] \o rest

Descend ==
  /\ phase = "walk" /\ work # <<>> /\ number = Arity[Head(work)]
  /\ work' = PreOrder(Head(work), Tail(work)) /\ number' = 0
  /\ UNCHANGED <<verify, input, done, phase, context, report, emitted, reports,
                 failed, status>>

(* run's result counts, or, when diagnostics are verified, only these.     *)
RunsAndMatches(c) == emitted = {} /\ emitted = Expected[c]
Succeeds(c) == IF verify THEN emitted = Expected[c] ELSE emitted = {}

EndChunk ==
  /\ phase = "end" \/ (phase = "walk" /\ work = <<>>)
  /\ phase' = "split" /\ done' = done + 1
  /\ failed' = (failed \/ ~Succeeds(input[done + 1]))
  /\ reports' = Append(reports, report)
  /\ UNCHANGED <<verify, input, context, work, number, report, emitted, status>>

Exit ==
  /\ phase = "split"
  /\ \/ input = Null /\ status' = 1
     \/ /\ input # Null /\ done = Len(input)
        /\ status' = IF failed THEN 1 ELSE 0
  /\ phase' = "exit"
  /\ UNCHANGED <<verify, input, done, context, work, number, report, emitted,
                 reports, failed>>

Init ==
  /\ verify \in BOOLEAN /\ input \in Inputs \cup {Null}
  /\ done = 0 /\ phase = "split" /\ context = <<>> /\ work = <<>> /\ number = 0
  /\ report = <<>> /\ emitted = {} /\ reports = <<>> /\ failed = FALSE
  /\ status = Null

Next == StartChunk \/ ReportResult \/ Descend \/ EndChunk \/ Exit
Spec == Init /\ [][Next]_vars

-----------------------------------------------------------------------------
(* The results of an operation that are in its g-th group.                 *)
Span(o, g) ==
  {n \in 0..(Arity[o] - 1) :
     Cardinality({i \in DOMAIN Starts[o] : Starts[o][i] <= n}) = g}
Resolves(o, n, name) ==
  /\ name[1] \in DOMAIN Starts[o] /\ n \in Span(o, name[1])
  /\ n = Starts[o][name[1]] + (IF Len(name) = 2 THEN name[2] ELSE 0)
  /\ Len(name) = 1 <=> Cardinality(Span(o, name[1])) = 1

(* The name of a row, read as MLIR reads it at the row's operation, is the *)
(* row's result: %g#i is the i-th of the group, and %g its first, written  *)
(* so only where it is the only one.                                       *)
NamesResolve ==
  \A k \in DOMAIN report :
    Resolves(report[k].result[1], report[k].result[2], report[k].name)

(* The process fails if and only if a chunk does not do what is wanted of  *)
(* it, whichever chunks come after it: run, or emit what it expects.       *)
ExitStatus ==
  phase = "exit" =>
    (status = 0 <=>
       /\ input # Null
       /\ \A i \in DOMAIN input :
            IF verify THEN {Main[input[i]]} \cap Fault = Expected[input[i]]
            ELSE Main[input[i]] \in Op)
=============================================================================
