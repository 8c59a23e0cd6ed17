----------------------------- MODULE ToolProofs -----------------------------
(***************************************************************************)
(* The tool, for every input: names resolve to the results they stand for, *)
(* a report is its chunk's alone, and the exit status tells whether a chunk*)
(* failed.                                                                 *)
(***************************************************************************)
EXTENDS Reports, FiniteSetTheorems, WellFoundedInduction, TLAPS

(* What is wanted of the i-th chunk of the input.                          *)
Fits(i) == IF verify THEN {Main[input[i]]} \cap Fault = Expected[input[i]]
           ELSE Main[input[i]] \in Op

(* Where the run of the input is, and that the failure it keeps is that of *)
(* the chunks it has run, whatever came after the one that failed.         *)
InChunk ==
  /\ input # Null /\ done < Len(input)
  /\ emitted = {Main[input[done + 1]]} \cap Fault
RunInv ==
  /\ input \in Inputs \cup {Null} /\ done \in Nat
  /\ input # Null => done <= Len(input)
  /\ failed \in BOOLEAN /\ (failed <=> \E i \in 1..done : ~Fits(i))
  /\ phase \in {"split", "walk", "end", "exit"}
  /\ phase \in {"walk", "end"} => InChunk
  /\ phase = "exit" =>
       IF input = Null THEN status = 1
       ELSE done = Len(input) /\ status = IF failed THEN 1 ELSE 0

LEMMA ChunkFacts ==
  ASSUME RunInv, NEW i \in Nat, input # Null, 1 <= i, i <= Len(input)
  PROVE  /\ input \in Seq(Chunk) /\ input[i] \in Chunk
         /\ Main[input[i]] \in Op \cup Fault
         /\ (Main[input[i]] \in Op) = ({Main[input[i]]} \cap Fault = {})
<1>1. input \in Seq(Chunk)  BY ToolAssumption DEF RunInv
<1>2. i \in 1..Len(input)  BY <1>1
<1>3. input[i] \in Chunk  BY <1>1, <1>2
<1>4. Main[input[i]] \in Op \cup Fault /\ Op \cap Fault = {}
  BY <1>3, ToolAssumption
<1> QED  BY <1>1, <1>3, <1>4

LEMMA RunInit == Init => RunInv
<1> SUFFICES ASSUME Init PROVE RunInv  OBVIOUS
<1>1. input # Null => input \in Seq(Chunk)  BY ToolAssumption DEF Init
<1>2. input # Null => 0 <= Len(input)  BY <1>1
<1>3. failed = FALSE /\ done = 0 /\ ~\E i \in 1..done : ~Fits(i)  BY DEF Init
<1>4. phase = "split" /\ input \in Inputs \cup {Null}  BY DEF Init
<1> QED  BY <1>2, <1>3, <1>4 DEF RunInv

LEMMA RunStep == RunInv /\ [Next]_vars => RunInv'
<1> SUFFICES ASSUME RunInv, [Next]_vars PROVE RunInv'  OBVIOUS
<1> USE DEF RunInv
<1>1. CASE StartChunk
  <2>1. /\ phase = "split" /\ input # Null /\ done < Len(input)
        /\ UNCHANGED <<verify, input, done, failed, status>>
        /\ \/ /\ Main[input[done + 1]] \in Fault
              /\ emitted' = {Main[input[done + 1]]} /\ phase' = "end"
           \/ /\ Main[input[done + 1]] \in Op /\ emitted' = {} /\ phase' = "walk"
    BY <1>1 DEF StartChunk
  <2>2. input \in Seq(Chunk)  BY <2>1, ToolAssumption
  <2>3. done + 1 \in Nat /\ 1 <= done + 1 /\ done + 1 <= Len(input)
    BY <2>1, <2>2
  <2>4. (Main[input[done + 1]] \in Op) = ({Main[input[done + 1]]} \cap Fault = {})
    BY <2>1, <2>3, ChunkFacts
  <2>5. emitted' = {Main[input[done + 1]]} \cap Fault /\ phase' \in {"walk", "end"}
    BY <2>1, <2>4
  <2> QED  BY <2>1, <2>5 DEF InChunk, Fits
<1>2. CASE ReportResult
  BY <1>2 DEF ReportResult, InChunk, Fits
<1>3. CASE Descend
  BY <1>3 DEF Descend, InChunk, Fits
<1>4. CASE EndChunk
  <2>1. /\ InChunk /\ phase' = "split" /\ done' = done + 1
        /\ failed' = (failed \/ ~Succeeds(input[done + 1]))
        /\ UNCHANGED <<verify, input, emitted, status>>
    BY <1>4 DEF EndChunk
  <2>2. input \in Seq(Chunk)  BY <2>1, ToolAssumption DEF InChunk
  <2>3. done + 1 \in Nat /\ 1 <= done + 1 /\ done + 1 <= Len(input)
    BY <2>1, <2>2 DEF InChunk
  <2>4. (Main[input[done + 1]] \in Op) = ({Main[input[done + 1]]} \cap Fault = {})
    BY <2>1, <2>3, ChunkFacts DEF InChunk
  <2>5. Succeeds(input[done + 1]) <=> Fits(done + 1)
    BY <2>1, <2>4 DEF Succeeds, InChunk, Fits
  <2>6. failed' <=> (\E i \in 1..done : ~Fits(i)) \/ ~Fits(done + 1)
    BY <2>1, <2>5
  <2>7. (\E i \in 1..(done + 1) : ~Fits(i))
          <=> (\E i \in 1..done : ~Fits(i)) \/ ~Fits(done + 1)
    <3>1. \A i \in 1..(done + 1) : i \in 1..done \/ i = done + 1  OBVIOUS
    <3>2. done + 1 \in 1..(done + 1) /\ \A i \in 1..done : i \in 1..(done + 1)
      OBVIOUS
    <3> QED  BY <3>1, <3>2
  <2>8. failed' <=> \E i \in 1..(done + 1) : ~Fits(i)  BY <2>6, <2>7
  <2>9. \A i : Fits(i)' = Fits(i)  BY <2>1 DEF Fits
  <2>10. failed' <=> \E i \in 1..done' : ~Fits(i)'  BY <2>1, <2>8, <2>9
  <2>11. failed' \in BOOLEAN  BY <2>1
  <2> QED  BY <2>1, <2>3, <2>10, <2>11 DEF InChunk, Fits
<1>5. CASE Exit
  BY <1>5 DEF Exit, InChunk, Fits
<1>6. CASE UNCHANGED vars
  BY <1>6 DEF vars, InChunk, Fits
<1> QED  BY <1>1, <1>2, <1>3, <1>4, <1>5, <1>6 DEF Next

(* The process exits with 0 if and only if there was an input and all its  *)
(* chunks did what was wanted of them: ran, or emitted what they expect.   *)
THEOREM ExitTells == Spec => []ExitStatus
<1>1. RunInv => ExitStatus
  <2> SUFFICES ASSUME RunInv, phase = "exit"
               PROVE  status = 0 <=> input # Null /\ \A i \in DOMAIN input : Fits(i)
    BY DEF ExitStatus, Fits
  <2>1. CASE input = Null  BY <2>1 DEF RunInv
  <2>2. CASE input # Null
    <3>1. input \in Seq(Chunk) /\ done = Len(input)
          /\ status = (IF failed THEN 1 ELSE 0)
      BY <2>2, ToolAssumption DEF RunInv
    <3>2. DOMAIN input = 1..done  BY <3>1
    <3>3. status = 0 <=> ~failed  BY <3>1 DEF RunInv
    <3> QED  BY <2>2, <3>2, <3>3 DEF RunInv
  <2> QED  BY <2>1, <2>2
<1> QED  BY <1>1, RunInit, RunStep, PTL DEF Spec

-----------------------------------------------------------------------------
(* The last of some numbers between 1 and n is a boundary: it is where a    *)
(* condition on what comes after it starts to hold.                        *)
LEMMA LeastNatural ==
  ASSUME NEW S \in SUBSET Nat, S # {}
  PROVE  \E x \in S : \A y \in S : x <= y
<1>1. IsWellFoundedOn(OpToRel(<, Nat), Nat)  BY NatLessThanWellFounded
<1>2. PICK x \in S : \A y \in S : ~(<<y, x>> \in OpToRel(<, Nat))
  BY <1>1, WFMin
<1>3. \A y \in S : ~(y < x)  BY <1>2 DEF OpToRel
<1> QED  BY <1>3

(* The group of a result: the last that starts at or before it.            *)
LEMMA GroupFacts ==
  ASSUME NEW o \in Op, NEW n \in 0..(Arity[o] - 1)
  PROVE  /\ GroupOf(o, n) \in DOMAIN Starts[o]
         /\ Starts[o][GroupOf(o, n)] <= n
         /\ \A i \in DOMAIN Starts[o] : i > GroupOf(o, n) => Starts[o][i] > n
<1> DEFINE s == Starts[o]
           Past(g) == \A i \in DOMAIN s : i > g => s[i] > n
           S == {g \in 1..Len(s) : Past(g)}
<1>1. s \in Seq(Nat) /\ s # <<>> /\ s[1] = 0 /\ DOMAIN s = 1..Len(s)
  BY ToolAssumption
<1>2. Len(s) \in Nat /\ 1 <= Len(s)  BY <1>1
<1>3. Len(s) \in S  BY <1>1, <1>2
<1>4. PICK g \in S : \A h \in S : g <= h
  <2>1. S \in SUBSET Nat /\ S # {}  BY <1>3
  <2> HIDE DEF S
  <2> QED  BY <2>1, LeastNatural
<1>5. s[g] <= n
  <2>1. CASE g = 1  BY <1>1, <2>1
  <2>2. CASE g # 1
    <3>1. g - 1 \in 1..Len(s) /\ ~(g <= g - 1)  BY <2>2
    <3>2. ~Past(g - 1)  BY <3>1, <1>4
    <3>3. PICK i \in DOMAIN s : i > g - 1 /\ ~(s[i] > n)  BY <3>2
    <3>4. ~(i > g)  BY <1>4, <3>3
    <3>5. i = g  BY <1>1, <1>4, <3>3, <3>4
    <3> QED  BY <1>1, <3>3, <3>5
  <2> QED  BY <2>1, <2>2
<1>6. \E h \in DOMAIN Starts[o] :
        /\ Starts[o][h] <= n
        /\ \A i \in DOMAIN Starts[o] : i > h => Starts[o][i] > n
  BY <1>1, <1>4, <1>5
<1> QED  BY <1>6 DEF GroupOf

LEMMA StartFacts ==
  ASSUME NEW o \in Op, NEW i \in DOMAIN Starts[o]
  PROVE  /\ i \in 1..Len(Starts[o]) /\ Len(Starts[o]) \in Nat
         /\ DOMAIN Starts[o] = 1..Len(Starts[o])
         /\ Starts[o][i] \in Nat /\ Starts[o][i] < Arity[o] /\ Arity[o] \in Nat
         /\ \A j \in DOMAIN Starts[o] : i < j => Starts[o][i] < Starts[o][j]
<1>1. Starts[o] \in Seq(Nat) /\ Arity[o] \in Nat  BY ToolAssumption
<1> QED  BY <1>1, ToolAssumption

(* As MLIR counts: as many groups start at or before a result as its is.   *)
LEMMA GroupCounts ==
  ASSUME NEW o \in Op, NEW n \in 0..(Arity[o] - 1)
  PROVE  Cardinality({i \in DOMAIN Starts[o] : Starts[o][i] <= n}) = GroupOf(o, n)
<1> PICK g : g = GroupOf(o, n)  OBVIOUS
<1>1. /\ g \in DOMAIN Starts[o] /\ Starts[o][g] <= n
      /\ \A i \in DOMAIN Starts[o] : i > g => Starts[o][i] > n
  BY GroupFacts
<1>2. g \in 1..Len(Starts[o]) /\ DOMAIN Starts[o] = 1..Len(Starts[o])
      /\ Len(Starts[o]) \in Nat
  BY <1>1, StartFacts
<1>3. ASSUME NEW i \in DOMAIN Starts[o] PROVE (Starts[o][i] <= n) = (i <= g)
  <2>1. Starts[o][i] \in Nat /\ Starts[o][g] \in Nat /\ n \in Nat  BY <1>1, StartFacts
  <2>2. i < g => Starts[o][i] < Starts[o][g]  BY <1>1, StartFacts
  <2>3. i \in Nat /\ g \in Nat  BY <1>2
  <2> QED  BY <1>1, <2>1, <2>2, <2>3
<1>4. {i \in DOMAIN Starts[o] : Starts[o][i] <= n} = 1..g
  BY <1>2, <1>3
<1>5. Cardinality(1..g) = g  BY <1>2, FS_Interval
<1> QED  BY <1>4, <1>5

(* A group has the results from its start to the next one.                 *)
LEMMA GroupSpans ==
  ASSUME NEW o \in Op, NEW g \in DOMAIN Starts[o], NEW n \in 0..(Arity[o] - 1)
  PROVE  (GroupOf(o, n) = g) = (n \in Starts[o][g]..(GroupEnd(o, g) - 1))
<1> PICK h : h = GroupOf(o, n)  OBVIOUS
<1>1. /\ h \in DOMAIN Starts[o] /\ Starts[o][h] <= n
      /\ \A i \in DOMAIN Starts[o] : i > h => Starts[o][i] > n
  BY GroupFacts
<1>2. /\ g \in 1..Len(Starts[o]) /\ h \in 1..Len(Starts[o])
      /\ DOMAIN Starts[o] = 1..Len(Starts[o]) /\ Len(Starts[o]) \in Nat
      /\ Arity[o] \in Nat /\ n \in Nat /\ n < Arity[o]
  BY <1>1, StartFacts
<1>3. \A i \in DOMAIN Starts[o] : Starts[o][i] \in Nat  BY StartFacts
<1>4. ASSUME h = g PROVE n \in Starts[o][g]..(GroupEnd(o, g) - 1)
  <2>1. CASE g = Len(Starts[o])  BY <1>1, <1>2, <1>3, <1>4, <2>1 DEF GroupEnd
  <2>2. CASE g # Len(Starts[o])
    <3>1. g + 1 \in DOMAIN Starts[o] /\ g + 1 > h  BY <1>2, <1>4, <2>2
    <3>2. Starts[o][g + 1] > n  BY <1>1, <3>1
    <3> QED  BY <1>1, <1>2, <1>3, <1>4, <2>2, <3>1, <3>2 DEF GroupEnd
  <2> QED  BY <2>1, <2>2
<1>5. ASSUME n \in Starts[o][g]..(GroupEnd(o, g) - 1) PROVE h = g
  <2>1. Starts[o][g] \in Nat /\ Starts[o][g] <= n  BY <1>3, <1>5
  <2>2. ~(g > h)  BY <1>1, <2>1, <1>2
  <2>3. ASSUME h > g PROVE FALSE
    <3>1. g # Len(Starts[o]) /\ g + 1 \in DOMAIN Starts[o]  BY <1>2, <2>3
    <3>2. n < Starts[o][g + 1]  BY <1>2, <1>3, <1>5, <3>1 DEF GroupEnd
    <3>3. g + 1 < h => Starts[o][g + 1] < Starts[o][h]  BY <1>1, <3>1, StartFacts
    <3>4. g + 1 = h \/ g + 1 < h  BY <1>2, <2>3
    <3> QED  BY <1>1, <1>2, <1>3, <3>1, <3>2, <3>3, <3>4
  <2> QED  BY <1>2, <2>2, <2>3
<1> QED  BY <1>4, <1>5

(* The name of a result, read as MLIR reads it, is that result.            *)
LEMMA NameResolves ==
  ASSUME NEW o \in Op, NEW n \in 0..(Arity[o] - 1)
  PROVE  Resolves(o, n, SourceName(o, n))
<1> PICK g : g = GroupOf(o, n)  OBVIOUS
<1> DEFINE span == Span(o, g)
           start == Starts[o][g]
           end == GroupEnd(o, g)
<1>1. /\ g \in DOMAIN Starts[o]
      /\ g \in 1..Len(Starts[o]) /\ DOMAIN Starts[o] = 1..Len(Starts[o])
      /\ Len(Starts[o]) \in Nat /\ start \in Nat /\ Arity[o] \in Nat
  BY GroupFacts, StartFacts
<1>2. end \in Nat /\ end <= Arity[o]
  <2>1. CASE g = Len(Starts[o])  BY <1>1, <2>1 DEF GroupEnd
  <2>2. CASE g # Len(Starts[o])
    <3>1. g + 1 \in DOMAIN Starts[o]  BY <1>1, <2>2
    <3>2. Starts[o][g + 1] \in Nat /\ Starts[o][g + 1] < Arity[o]
      BY <3>1, StartFacts
    <3> QED  BY <1>1, <2>2, <3>2 DEF GroupEnd
  <2> QED  BY <2>1, <2>2
<1>3. n \in start..(end - 1)  BY <1>1, GroupSpans
<1>4. span = start..(end - 1)
  <2>1. \A m \in 0..(Arity[o] - 1) : (GroupOf(o, m) = g) = (m \in start..(end - 1))
    BY <1>1, GroupSpans
  <2>2. start..(end - 1) \subseteq 0..(Arity[o] - 1)  BY <1>1, <1>2
  <2>3. span = {m \in 0..(Arity[o] - 1) : GroupOf(o, m) = g}
    BY GroupCounts DEF Span
  <2> QED  BY <2>1, <2>2, <2>3
<1>5. Cardinality(span) = end - start
  <2>1. start \in Int /\ end - 1 \in Int /\ ~(start > end - 1)
    BY <1>1, <1>2, <1>3
  <2>2. Cardinality(start..(end - 1)) = (end - 1) - start + 1
    BY <2>1, FS_Interval
  <2>3. Cardinality(span) = (end - 1) - start + 1  BY <1>4, <2>2
  <2> HIDE DEF span, start, end
  <2> QED  BY <1>1, <1>2, <2>3
<1> HIDE DEF span, start, end
<1>6. CASE end - start > 1
  <2>1. SourceName(o, n) = <<g, n - start>>  BY <1>6 DEF SourceName, start, end
  <2>2. <<g, n - start>>[1] = g /\ <<g, n - start>>[2] = n - start
        /\ Len(<<g, n - start>>) = 2
    OBVIOUS
  <2>3. start + (n - start) = n  BY <1>1, <1>3
  <2>4. n \in span  BY <1>3, <1>4
  <2> QED  BY <1>1, <1>5, <1>6, <2>1, <2>2, <2>3, <2>4 DEF span, start, Resolves
<1>7. CASE ~(end - start > 1)
  <2>1. SourceName(o, n) = <<g>>  BY <1>7 DEF SourceName, start, end
  <2>2. <<g>>[1] = g /\ Len(<<g>>) = 1  OBVIOUS
  <2>3. end - start = 1 /\ n = start  BY <1>1, <1>2, <1>3, <1>7
  <2>4. n \in span  BY <1>3, <1>4
  <2> QED  BY <1>1, <1>5, <2>1, <2>2, <2>3, <2>4 DEF span, start, Resolves
<1> QED  BY <1>6, <1>7

-----------------------------------------------------------------------------
(* Every row is one of a result of the program.                            *)
Rows == {Row(t[1], Query(t[2], t[1])) : t \in Result \X Seq(Result)}
WalkInv ==
  /\ report \in Seq(Rows) /\ context \in Seq(Result)
  /\ work \in Seq(Op) /\ number \in Nat

LEMMA WalkInit == Init => WalkInv
BY DEF Init, WalkInv

LEMMA WalkStep == RunInv /\ WalkInv /\ [Next]_vars => WalkInv'
<1> SUFFICES ASSUME RunInv, WalkInv, [Next]_vars PROVE WalkInv'  OBVIOUS
<1> USE DEF WalkInv
<1>1. CASE StartChunk
  <2>1. /\ report' = <<>> /\ number' = 0 /\ context' = <<>>
        /\ work' = <<>> \/ \E main \in Op : work' = <<main>>
    BY <1>1 DEF StartChunk, FreshContext
  <2>2. work' \in Seq(Op)
    <3>1. \A main \in Op : <<main>> \in Seq(Op)  OBVIOUS
    <3>2. <<>> \in Seq(Op)  OBVIOUS
    <3> QED  BY <2>1, <3>1, <3>2
  <2>3. report' \in Seq(Rows) /\ context' \in Seq(Result)  BY <2>1
  <2> QED  BY <2>1, <2>2, <2>3
<1>2. CASE ReportResult
  <2> DEFINE o == Head(work)
  <2> PICK r, row : r = <<o, number>> /\ row = Row(r, Query(context, r))  OBVIOUS
  <2>1. /\ work # <<>> /\ number < Arity[o]
        /\ report' = Append(report, row) /\ context' = Append(context, r)
        /\ number' = number + 1 /\ UNCHANGED work
    BY <1>2 DEF ReportResult
  <2>2. o \in Op /\ Arity[o] \in Nat  BY <2>1, ToolAssumption
  <2>3. number \in 0..(Arity[o] - 1)  BY <2>1, <2>2
  <2>4. r \in Result  BY <2>2, <2>3 DEF Result
  <2>5. PICK t \in Result \X Seq(Result) : t[1] = r /\ t[2] = context
    <3>1. <<r, context>> \in Result \X Seq(Result)  BY <2>4
    <3> QED  BY <3>1
  <2>6. row \in Rows  BY <2>5 DEF Rows
  <2>7. report' \in Seq(Rows)  BY <2>1, <2>6
  <2>8. context' \in Seq(Result)  BY <2>1, <2>4
  <2>9. work' \in Seq(Op) /\ number' \in Nat
    <3>1. work' = work /\ number' = number + 1  BY <2>1
    <3> QED  BY <3>1
  <2> QED  BY <2>7, <2>8, <2>9
<1>3. CASE Descend
  <2>1. work # <<>> /\ work' = Nested[Head(work)] \o Tail(work) /\ number' = 0
        /\ UNCHANGED <<report, context>>
    BY <1>3 DEF Descend, PreOrder
  <2>2. Nested[Head(work)] \in Seq(Op) /\ Tail(work) \in Seq(Op)
    BY <2>1, ToolAssumption
  <2> QED  BY <2>1, <2>2
<1>4. CASE EndChunk  BY <1>4 DEF EndChunk
<1>5. CASE Exit  BY <1>5 DEF Exit
<1>6. CASE UNCHANGED vars  BY <1>6 DEF vars
<1> QED  BY <1>1, <1>2, <1>3, <1>4, <1>5, <1>6 DEF Next

(* The name printed in a row is the name MLIR gives the row's result, for  *)
(* every way in which results may be grouped: of two results of an         *)
(* operation no two rows have the same name.                               *)
THEOREM RowsNameResults == Spec => []NamesResolve
<1>1. WalkInv => NamesResolve
  <2> SUFFICES ASSUME WalkInv, NEW k \in DOMAIN report
               PROVE  Resolves(report[k].result[1], report[k].result[2], report[k].name)
    BY DEF NamesResolve
  <2>1. report[k] \in Rows  BY DEF WalkInv
  <2>2. PICK v \in Result : report[k].result = <<v[1], v[2]>>
                            /\ report[k].name = SourceName(v[1], v[2])
    <3>1. PICK t \in Result \X Seq(Result) : report[k] = Row(t[1], Query(t[2], t[1]))
      BY <2>1 DEF Rows
    <3>2. t[1] \in Result /\ t[1] = <<t[1][1], t[1][2]>>  BY DEF Result
    <3> QED  BY <3>1, <3>2 DEF Row
  <2>3. v[1] \in Op /\ v[2] \in 0..(Arity[v[1]] - 1)  BY DEF Result
  <2>4. Resolves(v[1], v[2], SourceName(v[1], v[2]))  BY <2>3, NameResolves
  <2> QED  BY <2>2, <2>4
<1> QED  BY <1>1, RunInit, RunStep, WalkInit, WalkStep, PTL DEF Spec

-----------------------------------------------------------------------------
(* The walk keeps to the places: what it has yet to visit is laid out from *)
(* where the operation it is at began to where the chunk ends.             *)
Current == input[done + 1]
At == Before[Main[Current]] + Len(report) - number
Within(ops, end) == \A i \in DOMAIN ops : Through[ops[i]] <= end
OrderInv ==
  /\ phase = "walk" =>
       /\ Main[Current] \in Op
       /\ Laid(work, At, Through[Main[Current]])
       /\ Within(work, Through[Main[Current]])
       /\ work = <<>> => number = 0
  /\ phase = "end" => Main[Current] \in Fault /\ report = <<>>
  /\ phase \in {"walk", "end"} =>
       /\ context = [j \in 1..Len(report) |-> Source(Current)[j]]
       /\ \A k \in DOMAIN report : RowAlone(Source(Current), report[k], k)

(* The reports of the chunks that have been run are theirs alone.          *)
ReportedInv ==
  /\ reports \in Seq(Seq(Rows)) /\ Len(reports) = done
  /\ \A i \in 1..done : Alone(input[i], reports[i])

LEMMA LaidJoins ==
  ASSUME NEW s \in Seq(Op), NEW t \in Seq(Op), NEW a, NEW b, NEW c,
         Laid(s, a, b), Laid(t, b, c)
  PROVE  Laid(s \o t, a, c)
<1> DEFINE st == s \o t
<1>1. /\ st \in Seq(Op) /\ Len(st) = Len(s) + Len(t)
      /\ Len(s) \in Nat /\ Len(t) \in Nat
      /\ \A i \in 1..Len(st) : st[i] = IF i <= Len(s) THEN s[i] ELSE t[i - Len(s)]
  OBVIOUS
<1> HIDE DEF st
<1>2. ASSUME NEW i \in DOMAIN st
      PROVE  Before[st[i]] = IF i = 1 THEN a ELSE Through[st[i - 1]]
  <2>1. i \in 1..Len(st)  BY <1>1
  <2>2. CASE i <= Len(s)
    <3>1. i \in DOMAIN s /\ st[i] = s[i]  BY <1>1, <2>1, <2>2
    <3>2. i # 1 => st[i - 1] = s[i - 1]  BY <1>1, <2>1, <2>2
    <3> QED  BY <3>1, <3>2 DEF Laid
  <2>3. CASE i > Len(s)
    <3>1. i - Len(s) \in DOMAIN t /\ st[i] = t[i - Len(s)]  BY <1>1, <2>1, <2>3
    <3>2. Before[st[i]] = IF i - Len(s) = 1 THEN b ELSE Through[t[i - Len(s) - 1]]
      BY <3>1 DEF Laid
    <3>3. CASE i - Len(s) = 1
      <4>1. CASE s = <<>>  BY <1>1, <3>2, <3>3, <4>1 DEF Laid
      <4>2. CASE s # <<>>
        <5>1. i # 1 /\ st[i - 1] = s[Len(s)]  BY <1>1, <2>1, <3>3, <4>2
        <5> QED  BY <3>2, <3>3, <4>2, <5>1 DEF Laid
      <4> QED  BY <4>1, <4>2
    <3>4. CASE i - Len(s) # 1
      <4>1. i # 1 /\ st[i - 1] = t[i - 1 - Len(s)]  BY <1>1, <2>1, <2>3, <3>4
      <4>2. i - 1 - Len(s) = i - Len(s) - 1  BY <1>1, <2>1
      <4> QED  BY <3>2, <3>4, <4>1, <4>2
    <3> QED  BY <3>3, <3>4
  <2> QED  BY <1>1, <2>1, <2>2, <2>3
<1>3. c = IF st = <<>> THEN a ELSE Through[st[Len(st)]]
  <2>1. CASE t = <<>>
    <3>1. st = s  BY <2>1 DEF st
    <3> QED  BY <2>1, <3>1 DEF Laid
  <2>2. CASE t # <<>>
    <3>1. Len(st) >= 1 /\ Len(st) > Len(s) /\ st[Len(st)] = t[Len(t)]
      BY <1>1, <2>2
    <3>2. st # <<>>  BY <3>1
    <3> QED  BY <2>2, <3>1, <3>2 DEF Laid
  <2> QED  BY <2>1, <2>2
<1> QED  BY <1>2, <1>3 DEF Laid, st

LEMMA LaidRest ==
  ASSUME NEW s \in Seq(Op), s # <<>>, NEW a, NEW c, Laid(s, a, c)
  PROVE  Before[Head(s)] = a /\ Laid(Tail(s), Through[Head(s)], c)
<1> DEFINE t == Tail(s)
<1>1. /\ t \in Seq(Op) /\ Len(t) = Len(s) - 1 /\ Len(s) \in Nat /\ Len(s) >= 1
      /\ Head(s) = s[1] /\ \A i \in 1..Len(t) : t[i] = s[i + 1]
  OBVIOUS
<1> HIDE DEF t
<1>2. Before[Head(s)] = a
  <2>1. 1 \in DOMAIN s  BY <1>1
  <2> QED  BY <1>1, <2>1 DEF Laid
<1>3. ASSUME NEW i \in DOMAIN t
      PROVE  Before[t[i]] = IF i = 1 THEN Through[Head(s)] ELSE Through[t[i - 1]]
  <2>1. i \in 1..Len(t)  BY <1>1
  <2>2. i + 1 \in DOMAIN s /\ i + 1 # 1 /\ (i + 1) - 1 = i /\ t[i] = s[i + 1]
    BY <1>1, <2>1
  <2>3. Before[t[i]] = Through[s[i]]  BY <2>2 DEF Laid
  <2>4. i # 1 => t[i - 1] = s[i]  BY <1>1, <2>1
  <2> QED  BY <1>1, <2>3, <2>4
<1>4. c = IF t = <<>> THEN Through[Head(s)] ELSE Through[t[Len(t)]]
  <2>1. c = Through[s[Len(s)]]  BY DEF Laid
  <2>2. CASE t = <<>>
    <3>1. Len(s) = 1  BY <1>1, <2>2
    <3> QED  BY <1>1, <2>1, <2>2, <3>1
  <2>3. CASE t # <<>>
    <3>1. t[Len(t)] = s[Len(s)]  BY <1>1, <2>3
    <3> QED  BY <2>1, <2>3, <3>1
  <2> QED  BY <2>2, <2>3
<1> QED  BY <1>2, <1>3, <1>4 DEF Laid, t

LEMMA WithinJoins ==
  ASSUME NEW s \in Seq(Op), NEW t \in Seq(Op), NEW end,
         \A i \in DOMAIN s : Through[s[i]] <= end,
         \A i \in DOMAIN t : Through[t[i]] <= end
  PROVE  Within(s \o t, end)
<1> DEFINE st == s \o t
<1>1. /\ st \in Seq(Op) /\ Len(st) = Len(s) + Len(t)
      /\ Len(s) \in Nat /\ Len(t) \in Nat
      /\ \A i \in 1..Len(st) : st[i] = IF i <= Len(s) THEN s[i] ELSE t[i - Len(s)]
  OBVIOUS
<1> HIDE DEF st
<1>2. ASSUME NEW i \in DOMAIN st PROVE Through[st[i]] <= end
  <2>1. i \in 1..Len(st)  BY <1>1
  <2>2. CASE i <= Len(s)
    <3>1. i \in DOMAIN s  BY <1>1, <2>1, <2>2
    <3> QED  BY <1>1, <2>1, <2>2, <3>1
  <2>3. CASE i > Len(s)
    <3>1. i - Len(s) \in DOMAIN t /\ st[i] = t[i - Len(s)]  BY <1>1, <2>1, <2>3
    <3> QED  BY <3>1
  <2> QED  BY <1>1, <2>1, <2>2, <2>3
<1> QED  BY <1>2 DEF Within, st

(* What is printed of an answer says it.                                   *)
LEMMA RowSays ==
  ASSUME NEW r, NEW query, IsAnswer(query.answer)
  PROVE  Says(Row(r, query), query.answer)
<1> PICK row, answer : row = Row(r, query) /\ answer = query.answer  OBVIOUS
<1> SUFFICES Says(row, answer)  OBVIOUS
<1>0. Null # Other  BY ReportsAssumption
<1>1. row.status = answer.status /\ row.evaluated = PrintEvaluated(answer)
  BY DEF Row
<1>2. \/ IsSignal(answer)
      \/ answer \in {Completed(Null), Completed(Other)}
      \/ /\ 2^answer.value.width \in Nat \ {0}
         /\ answer.value.bits \in 0..(2^answer.value.width - 1)
  BY DEF IsAnswer
<1>3. CASE IsSignal(answer)
  <2>1. answer # Completed(Null) /\ answer # Completed(Other)
    BY <1>3 DEF IsSignal, Completed
  <2>2. PrintEvaluated(answer) = Word("-")  BY <1>3, <2>1 DEF PrintEvaluated
  <2> QED  BY <1>1, <1>3, <2>2 DEF Says
<1>4. CASE answer = Completed(Null)
  <2>1. ~IsSignal(answer) /\ answer # Completed(Other)
    <3>1. answer.status = "Completed" /\ answer.value = Null  BY <1>4 DEF Completed
    <3>2. Completed(Other).value = Other  BY DEF Completed
    <3> QED  BY <1>0, <3>1, <3>2 DEF IsSignal
  <2>2. PrintEvaluated(answer) = Word("unknown")
    BY <1>4, <2>1 DEF PrintEvaluated
  <2> QED  BY <1>1, <1>4, <2>2 DEF Says
<1>5. CASE answer = Completed(Other)
  <2>1. ~IsSignal(answer) /\ answer # Completed(Null)
    <3>1. answer.status = "Completed" /\ answer.value = Other  BY <1>5 DEF Completed
    <3>2. Completed(Null).value = Null  BY DEF Completed
    <3> QED  BY <1>0, <3>1, <3>2 DEF IsSignal
  <2>2. PrintEvaluated(answer) = Word("known")
    BY <1>5, <2>1 DEF PrintEvaluated
  <2> QED  BY <1>1, <1>5, <2>2 DEF Says
<1>6. CASE ~IsSignal(answer) /\ answer \notin {Completed(Null), Completed(Other)}
  <2> DEFINE value == answer.value
             m == 2^value.width
             k == IF 2 * value.bits >= m THEN value.bits - m ELSE value.bits
  <2>1. row.evaluated = (IF value.width # 1 THEN PrintSigned(value)
                         ELSE Word(IF value.bits = 1 THEN "true" ELSE "false"))
    BY <1>1, <1>6 DEF PrintEvaluated
  <2>2. PrintSigned(value) = Number(k)  BY DEF PrintSigned
  <2>3. m \in Nat \ {0} /\ value.bits \in 0..(m - 1)  BY <1>2, <1>6
  <2>4. /\ k \in (-m)..m /\ -m <= 2 * k /\ 2 * k < m /\ k % m = value.bits
    <3> PICK mm, b : mm = m /\ b = value.bits  OBVIOUS
    <3>1. mm \in Nat \ {0} /\ b \in 0..(mm - 1)  BY <2>3
    <3>2. b % mm = b /\ (b - mm) % mm = b  BY <3>1
    <3> PICK kk : kk = IF 2 * b >= mm THEN b - mm ELSE b  OBVIOUS
    <3>3. kk \in (-mm)..mm /\ -mm <= 2 * kk /\ 2 * kk < mm /\ kk % mm = b
      BY <3>1, <3>2
    <3>4. kk = k  OBVIOUS
    <3> QED  BY <3>3, <3>4
  <2> HIDE DEF k, m
  <2>5. value.width # 1 =>
          \E j \in (-m)..m : -m <= 2 * j /\ 2 * j < m /\ j % m = value.bits
                             /\ row.evaluated = Number(j)
    BY <2>1, <2>2, <2>4
  <2>6. value.width = 1 =>
          row.evaluated = Word(IF value.bits = 1 THEN "true" ELSE "false")
    BY <2>1
  <2> QED  BY <1>1, <1>6, <2>5, <2>6 DEF Says, m
<1> QED  BY <1>3, <1>4, <1>5, <1>6

(* The result at the k-th place of a chunk is the k-th of its source.      *)
LEMMA SourceAt ==
  ASSUME NEW c, NEW k \in 1..Results(c), NEW r \in Result,
         Place(r) = Before[Main[c]] + k - 1
  PROVE  Source(c)[k] = r
<1>1. Source(c)[k] = CHOOSE v \in Result : Place(v) = Before[Main[c]] + k - 1
  BY DEF Source
<1>2. \A v \in Result : Place(v) = Before[Main[c]] + k - 1 => v = r
  BY ReportsAssumption
<1> QED  BY <1>1, <1>2

LEMMA OrderInit == Init => OrderInv /\ ReportedInv
<1> SUFFICES ASSUME Init PROVE OrderInv /\ ReportedInv  OBVIOUS
<1>1. phase = "split" /\ reports = <<>> /\ done = 0  BY DEF Init
<1>2. OrderInv  BY <1>1 DEF OrderInv
<1>3. ReportedInv
  <2>1. reports \in Seq(Seq(Rows)) /\ Len(reports) = 0  BY <1>1
  <2> QED  BY <1>1, <2>1 DEF ReportedInv
<1> QED  BY <1>2, <1>3

LEMMA StartOrder ==
  ASSUME RunInv, WalkInv, OrderInv, StartChunk
  PROVE  OrderInv'
<1> DEFINE main == Main[input[done + 1]]
<1>1. /\ input # Null /\ done < Len(input)
      /\ report' = <<>> /\ context' = <<>> /\ number' = 0
      /\ UNCHANGED <<input, done>>
      /\ \/ main \in Fault /\ phase' = "end"
         \/ main \in Op /\ work' = <<main>> /\ phase' = "walk"
  BY DEF StartChunk, FreshContext
<1>2. Current' = Current /\ Main[Current] = main  BY <1>1 DEF Current
<1>3. context' = [j \in 1..Len(report') |-> Source(Current)[j]]
  <2>1. Len(report') = 0  BY <1>1
  <2> QED  BY <1>1, <2>1
<1>4. DOMAIN report' = {}  BY <1>1
<1>5. phase' = "walk" =>
        /\ main \in Op /\ Laid(work', At', Through[main])
        /\ Within(work', Through[main]) /\ work' # <<>>
  <2> SUFFICES ASSUME phase' = "walk"
               PROVE /\ main \in Op /\ Laid(work', At', Through[main])
                     /\ Within(work', Through[main]) /\ work' # <<>>
    OBVIOUS
  <2>1. main \in Op /\ work' = <<main>>  BY <1>1
  <2>2. Before[main] \in Nat /\ Through[main] \in Nat  BY <2>1, ReportsAssumption
  <2>3. At' = Before[main]  BY <1>1, <1>2, <2>2 DEF At
  <2>4. Len(<<main>>) = 1 /\ <<main>>[1] = main /\ DOMAIN <<main>> = {1}
        /\ <<main>> # <<>>
    OBVIOUS
  <2>5. Laid(<<main>>, Before[main], Through[main])  BY <2>4 DEF Laid
  <2>6. Within(<<main>>, Through[main])  BY <2>2, <2>4 DEF Within
  <2> QED  BY <2>1, <2>3, <2>4, <2>5, <2>6
<1> QED  BY <1>1, <1>2, <1>3, <1>4, <1>5 DEF OrderInv

LEMMA PlaceWithin ==
  ASSUME NEW arity \in Nat, NEW before \in Nat, NEW through \in Nat,
         NEW first \in Nat, NEW end \in Nat, NEW n \in Nat, NEW len \in Nat,
         before + n = first + len, n < arity, before + arity <= through,
         through <= end
  PROVE  len + 1 \in 1..(end - first)
OBVIOUS

LEMMA ReportOrder ==
  ASSUME RunInv, WalkInv, OrderInv, ReportResult
  PROVE  OrderInv'
<1> DEFINE o == Head(work)
           main == Main[Current]
           source == Source(Current)
<1> PICK r, row : r = <<o, number>> /\ row = Row(r, Query(context, r))  OBVIOUS
<1>1. /\ phase = "walk" /\ work # <<>> /\ number < Arity[o]
      /\ report' = Append(report, row) /\ context' = Append(context, r)
      /\ number' = number + 1 /\ UNCHANGED <<input, done, phase, work>>
  BY DEF ReportResult
<1> PICK len : len = Len(report)  OBVIOUS
<1>2. /\ main \in Op /\ Laid(work, At, Through[main]) /\ Within(work, Through[main])
      /\ context = [j \in 1..len |-> source[j]]
      /\ \A k \in DOMAIN report : RowAlone(source, report[k], k)
  BY <1>1 DEF OrderInv
<1>3. Current' = Current  BY <1>1 DEF Current
<1>4. /\ len \in Nat /\ Len(report') = len + 1 /\ DOMAIN report' = 1..(len + 1)
      /\ \A k \in 1..len : report'[k] = report[k]
      /\ report'[len + 1] = row /\ DOMAIN report = 1..len
  BY <1>1 DEF WalkInv
<1>5. /\ number \in Nat /\ o \in Op /\ Arity[o] \in Nat
      /\ Before[main] \in Nat /\ Through[main] \in Nat
      /\ Before[o] \in Nat /\ Through[o] \in Nat
  <2>1. number \in Nat /\ o \in Op  BY <1>1 DEF WalkInv
  <2>2. Arity[o] \in Nat  BY <2>1, ToolAssumption
  <2> HIDE DEF o
  <2> QED  BY <1>2, <2>1, <2>2, ReportsAssumption
<1>6. At' = At
  BY <1>1, <1>3, <1>4, <1>5 DEF At
<1>7. r \in Result
  <2>1. number \in 0..(Arity[o] - 1)  BY <1>1, <1>5
  <2> QED  BY <1>5, <2>1 DEF Result
<1>8. Before[o] + number = Before[main] + len
  <2>1. Before[o] = At  BY <1>1, <1>2, LaidRest DEF WalkInv
  <2>2. At = Before[main] + len - number  BY DEF At
  <2> HIDE DEF o, main
  <2> QED  BY <1>4, <1>5, <2>1, <2>2
<1>9. len + 1 \in 1..Results(Current)
  <2>1. Through[o] <= Through[main]
    <3>1. 1 \in DOMAIN work /\ o = work[1]  BY <1>1 DEF WalkInv
    <3> QED  BY <1>2, <3>1 DEF Within
  <2>2. Before[o] + Arity[o] <= Through[o]  BY <1>5, ReportsAssumption
  <2>3. Results(Current) = Through[main] - Before[main]
    BY <1>2, ToolAssumption DEF Results
  <2>4. number < Arity[o]  BY <1>1
  <2>5. Arity[o] \in Nat /\ Before[o] \in Nat /\ Through[o] \in Nat /\ len \in Nat
        /\ Before[main] \in Nat /\ Through[main] \in Nat /\ number \in Nat
    BY <1>4, <1>5
  <2> HIDE DEF o, main
  <2>6. len + 1 \in 1..(Through[main] - Before[main])
    BY <1>8, <2>1, <2>2, <2>4, <2>5, PlaceWithin
  <2> QED  BY <2>3, <2>6
<1>10. source[len + 1] = r
  <2>1. Place(r) = Before[main] + (len + 1) - 1  BY <1>4, <1>5, <1>8 DEF Place
  <2> QED  BY <1>7, <1>9, <2>1, SourceAt
<1>11. QueryInTurn(source, len + 1) = Query(context, r)
  <2>1. (len + 1) - 1 = len  BY <1>4
  <2>2. [j \in 1..((len + 1) - 1) |-> source[j]] = context  BY <1>2, <2>1
  <2> HIDE DEF source
  <2> QED  BY <1>10, <2>2 DEF QueryInTurn
<1>12. RowAlone(source, row, len + 1)
  <2>1. Current \in Chunk
    <3>1. InChunk /\ done \in Nat  BY <1>1 DEF RunInv
    <3>2. input \in Seq(Chunk)  BY <3>1, ToolAssumption DEF InChunk, RunInv
    <3> QED  BY <3>1, <3>2 DEF InChunk, Current
  <2>2. IsAnswer(Query(context, r).answer)
    BY <1>9, <1>11, <2>1, ReportsAssumption
  <2>3. Says(row, Query(context, r).answer)  BY <2>2, RowSays
  <2>4. row.result = r /\ row.cache = Query(context, r).outcome  BY DEF Row
  <2> QED  BY <1>10, <1>11, <2>3, <2>4 DEF RowAlone
<1>13. \A k \in DOMAIN report' : RowAlone(source, report'[k], k)
  <2> SUFFICES ASSUME NEW k \in 1..(len + 1) PROVE RowAlone(source, report'[k], k)
    BY <1>4
  <2>1. CASE k = len + 1  BY <1>4, <1>12, <2>1
  <2>2. CASE k # len + 1
    <3>1. k \in 1..len  BY <1>4, <2>2
    <3> QED  BY <1>2, <1>4, <3>1
  <2> QED  BY <2>1, <2>2
<1>14. context' = [j \in 1..Len(report') |-> source[j]]
  <2>1. context \in Seq(Result) /\ Len(context) = len  BY <1>2, <1>4 DEF WalkInv
  <2>2. context' \in Seq(Result) /\ Len(context') = len + 1
        /\ \A j \in 1..(len + 1) : context'[j] = IF j = len + 1 THEN r ELSE context[j]
    BY <1>1, <1>7, <2>1
  <2>3. \A j \in 1..(len + 1) : context'[j] = source[j]
    <3> SUFFICES ASSUME NEW j \in 1..(len + 1) PROVE context'[j] = source[j]
      OBVIOUS
    <3>1. CASE j = len + 1  BY <1>10, <2>2, <3>1
    <3>2. CASE j # len + 1
      <4>1. j \in 1..len  BY <1>4, <3>2
      <4> QED  BY <1>2, <2>2, <3>2, <4>1
    <3> QED  BY <3>1, <3>2
  <2>4. context' = [j \in 1..(len + 1) |-> context'[j]]  BY <2>2
  <2> QED  BY <1>4, <2>3, <2>4
<1>15. Source(Current') = source  BY <1>3
<1> QED  BY <1>1, <1>2, <1>3, <1>6, <1>13, <1>14, <1>15 DEF OrderInv

LEMMA DescendOrder ==
  ASSUME RunInv, WalkInv, OrderInv, Descend
  PROVE  OrderInv'
<1> DEFINE o == Head(work)
           main == Main[Current]
<1>1. /\ phase = "walk" /\ work # <<>> /\ number = Arity[o]
      /\ work' = Nested[o] \o Tail(work) /\ number' = 0
      /\ UNCHANGED <<input, done, phase, context, report>>
  BY DEF Descend, PreOrder
<1>2. /\ main \in Op /\ Laid(work, At, Through[main]) /\ Within(work, Through[main])
      /\ context = [j \in 1..Len(report) |-> Source(Current)[j]]
      /\ \A k \in DOMAIN report : RowAlone(Source(Current), report[k], k)
  BY <1>1 DEF OrderInv
<1>3. Current' = Current  BY <1>1 DEF Current
<1>4. o \in Op /\ Tail(work) \in Seq(Op) /\ work \in Seq(Op)
  BY <1>1 DEF WalkInv
<1>5. Before[o] = At /\ Laid(Tail(work), Through[o], Through[main])
  BY <1>1, <1>2, <1>4, LaidRest
<1>6. Laid(Nested[o], Before[o] + Arity[o], Through[o]) /\ Nested[o] \in Seq(Op)
  BY <1>4, ReportsAssumption, ToolAssumption
<1>7. Laid(work', Before[o] + Arity[o], Through[main])
  BY <1>1, <1>4, <1>5, <1>6, LaidJoins
<1>8. At' = Before[o] + Arity[o]
  <2>1. Len(report) \in Nat /\ number \in Nat /\ Before[main] \in Nat
    BY <1>2, ReportsAssumption DEF WalkInv
  <2>2. At' = Before[main] + Len(report) - 0  BY <1>1, <1>3 DEF At
  <2>3. Before[o] = Before[main] + Len(report) - number  BY <1>5 DEF At
  <2> QED  BY <1>1, <2>1, <2>2, <2>3
<1>9. Within(work', Through[main])
  <2>1. \A i \in DOMAIN Nested[o] : Through[Nested[o][i]] <= Through[main]
    <3>1. Through[o] <= Through[main]
      <4>1. 1 \in DOMAIN work /\ o = work[1]  BY <1>1, <1>4
      <4> QED  BY <1>2, <4>1 DEF Within
    <3> SUFFICES ASSUME NEW i \in DOMAIN Nested[o]
                 PROVE  Through[Nested[o][i]] <= Through[main]
      OBVIOUS
    <3>2. Nested[o][i] \in Op  BY <1>6
    <3>3. Through[Nested[o][i]] <= Through[o]  BY <1>4, ReportsAssumption
    <3>4. /\ Through[Nested[o][i]] \in Nat /\ Through[o] \in Nat
          /\ Through[main] \in Nat
      BY <1>2, <1>4, <3>2, ReportsAssumption
    <3> QED  BY <3>1, <3>3, <3>4
  <2>2. \A i \in DOMAIN Tail(work) : Through[Tail(work)[i]] <= Through[main]
    <3> SUFFICES ASSUME NEW i \in DOMAIN Tail(work)
                 PROVE  Through[Tail(work)[i]] <= Through[main]
      OBVIOUS
    <3>1. i + 1 \in DOMAIN work /\ Tail(work)[i] = work[i + 1]  BY <1>1, <1>4
    <3> QED  BY <1>2, <3>1 DEF Within
  <2> QED  BY <1>1, <1>4, <1>6, <2>1, <2>2, WithinJoins
<1> QED  BY <1>1, <1>2, <1>3, <1>7, <1>8, <1>9 DEF OrderInv

LEMMA OrderStep == RunInv /\ WalkInv /\ OrderInv /\ [Next]_vars => OrderInv'
<1> SUFFICES ASSUME RunInv, WalkInv, OrderInv, [Next]_vars PROVE OrderInv'
  OBVIOUS
<1>1. CASE EndChunk
  <2>1. phase' = "split"  BY <1>1 DEF EndChunk
  <2> QED  BY <2>1 DEF OrderInv
<1>2. CASE Exit
  <2>1. phase' = "exit"  BY <1>2 DEF Exit
  <2> QED  BY <2>1 DEF OrderInv
<1>3. CASE UNCHANGED vars
  BY <1>3 DEF vars, OrderInv, Current, At
<1> QED  BY <1>1, <1>2, <1>3, StartOrder, ReportOrder, DescendOrder DEF Next

(* A chunk ends once the places of its results have been gone through.     *)
LEMMA EndReports ==
  ASSUME RunInv, WalkInv, OrderInv, ReportedInv, EndChunk
  PROVE  ReportedInv'
<1>1. /\ phase = "end" \/ (phase = "walk" /\ work = <<>>)
      /\ done' = done + 1 /\ reports' = Append(reports, report)
      /\ UNCHANGED input
  BY DEF EndChunk
<1>2. /\ done \in Nat /\ report \in Seq(Rows)
      /\ reports \in Seq(Seq(Rows)) /\ Len(reports) = done
  BY DEF RunInv, WalkInv, ReportedInv
<1>3. \A k \in DOMAIN report : RowAlone(Source(Current), report[k], k)
  BY <1>1 DEF OrderInv
<1>4. Len(report) = Results(Current)
  <2>1. CASE phase = "end"
    <3>1. Main[Current] \in Fault /\ report = <<>>  BY <2>1 DEF OrderInv
    <3> QED  BY <3>1 DEF Results
  <2>2. CASE phase = "walk" /\ work = <<>>
    <3>1. /\ Main[Current] \in Op /\ Laid(work, At, Through[Main[Current]])
          /\ number = 0
      BY <2>2 DEF OrderInv
    <3>2. Through[Main[Current]] = At  BY <2>2, <3>1 DEF Laid
    <3>3. /\ Main[Current] \notin Fault /\ Before[Main[Current]] \in Nat
          /\ Len(report) \in Nat
      BY <1>2, <3>1, ToolAssumption, ReportsAssumption
    <3> QED  BY <3>1, <3>2, <3>3 DEF At, Results
  <2> QED  BY <1>1, <2>1, <2>2
<1>5. Alone(Current, report)  BY <1>3, <1>4 DEF Alone
<1>6. /\ reports' \in Seq(Seq(Rows)) /\ Len(reports') = done + 1
      /\ \A i \in 1..done : reports'[i] = reports[i]
      /\ reports'[done + 1] = report
  BY <1>1, <1>2
<1>7. \A i \in 1..(done + 1) : Alone(input[i], reports'[i])
  <2> SUFFICES ASSUME NEW i \in 1..(done + 1) PROVE Alone(input[i], reports'[i])
    OBVIOUS
  <2>1. CASE i = done + 1  BY <1>5, <1>6, <2>1 DEF Current
  <2>2. CASE i # done + 1
    <3>1. i \in 1..done  BY <1>2, <2>2
    <3> QED  BY <1>6, <3>1 DEF ReportedInv
  <2> QED  BY <2>1, <2>2
<1> QED  BY <1>1, <1>6, <1>7 DEF ReportedInv

LEMMA ReportedStep ==
  RunInv /\ WalkInv /\ OrderInv /\ ReportedInv /\ [Next]_vars => ReportedInv'
<1> SUFFICES ASSUME RunInv, WalkInv, OrderInv, ReportedInv, [Next]_vars
             PROVE  ReportedInv'
  OBVIOUS
<1>1. ASSUME UNCHANGED <<input, done, reports>> PROVE ReportedInv'
  BY <1>1 DEF ReportedInv
<1>2. StartChunk \/ ReportResult \/ Descend \/ Exit \/ UNCHANGED vars
        => UNCHANGED <<input, done, reports>>
  BY DEF StartChunk, ReportResult, Descend, Exit, vars
<1> QED  BY <1>1, <1>2, EndReports DEF Next

(* A chunk's report has its results in the order of the source, each once, *)
(* and in each row the answer and the cache outcome of an engine that was  *)
(* asked for the rows before it and nothing else, whatever chunks were run *)
(* before: for every answer and outcome as a function of what was asked.   *)
THEOREM ReportsAreAlone == Spec => []ReportsAlone
<1>1. ReportedInv => ReportsAlone
  <2> SUFFICES ASSUME ReportedInv PROVE ReportsAlone  OBVIOUS
  <2>1. DOMAIN reports = 1..done  BY DEF ReportedInv
  <2> QED  BY <2>1 DEF ReportedInv, Alone, ReportsAlone
<1> QED
  BY <1>1, RunInit, RunStep, WalkInit, WalkStep, OrderInit, OrderStep, ReportedStep,
     PTL DEF Spec
=============================================================================
