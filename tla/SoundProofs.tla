---------------------------- MODULE SoundProofs ----------------------------
(***************************************************************************)
(* What the engine memoizes, caches and answers is what the values mean,   *)
(* in a program whose values do not need themselves, for a host that asks  *)
(* for values outside of every loop.                                       *)
(***************************************************************************)
EXTENDS DenotationProofs

-----------------------------------------------------------------------------
(* What the comparison of two loops asks for: the operands that are not    *)
(* the same value, in pairs.                                               *)

PairAt(q, o, p, j, i) == q[2 * j - 1] = Operands[o][i] /\ q[2 * j] = Operands[p][i]
PairsTo(q, o, p, n, m) ==
  /\ Len(q) = 2 * m
  /\ \A j \in 1..m : \E i \in 1..n : PairAt(q, o, p, j, i)
  /\ \A i \in 1..n : \/ Operands[o][i] = Operands[p][i]
                     \/ \E j \in 1..m : PairAt(q, o, p, j, i)
Paired(q, o, p, n) == q \in Seq(Value) /\ \E m \in Nat : PairsTo(q, o, p, n, m)

(* Recursion with the pairs met so far.                                    *)
PairsUp(f, o, p) ==
  /\ f[0] = <<>>
  /\ \A n \in Nat :
       f[n + 1] = IF Operands[o][n + 1] = Operands[p][n + 1] THEN f[n]
                  ELSE f[n] \o <<Operands[o][n + 1], Operands[p][n + 1]>>

LEMMA QueriesUnfold ==
  ASSUME NEW o, NEW p
  PROVE  \E f : PairsUp(f, o, p) /\ LoopQueries(o, p) = f[Len(Operands[o])]
<1> DEFINE Seen == {Operands[o][n] : n \in Nat} \cup {Operands[p][n] : n \in Nat}
           More(s, n) == IF Operands[o][n] = Operands[p][n] THEN s
                         ELSE s \o <<Operands[o][n], Operands[p][n]>>
           G == [t \in Nat \X Seq(Seen) |-> More(t[2], t[1] + 1)]
           IsQ(f) == f = [n \in Nat |-> IF n = 0 THEN <<>>
                            ELSE IF Operands[o][n] = Operands[p][n] THEN f[n - 1]
                            ELSE f[n - 1] \o <<Operands[o][n], Operands[p][n]>>]
<1>1. \A s \in Seq(Seen), n \in Nat : More(s, n) \in Seq(Seen)
  <2> TAKE s \in Seq(Seen), n \in Nat
  <2>1. Operands[o][n] \in Seen /\ Operands[p][n] \in Seen  OBVIOUS
  <2> HIDE DEF Seen
  <2>2. <<Operands[o][n], Operands[p][n]>> \in Seq(Seen)  BY <2>1
  <2>3. s \o <<Operands[o][n], Operands[p][n]>> \in Seq(Seen)  BY <2>2
  <2> QED  BY <2>3
<1>2. G \in [Nat \X Seq(Seen) -> Seq(Seen)]
  <2> HIDE DEF Seen, More
  <2> QED  BY <1>1
<1>3. PICK f \in [Nat -> Seq(Seen)] : Iterates(f, <<>>, G)
  <2> HIDE DEF Seen, G
  <2>1. <<>> \in Seq(Seen)  OBVIOUS
  <2> QED  BY <1>2, <2>1, Recursion
<1>4. f[0] = <<>> /\ \A n \in Nat : f[n + 1] = More(f[n], n + 1)
  <2>1. f[0] = <<>> /\ \A n \in Nat : f[n + 1] = G[<<n, f[n]>>]
    BY <1>3 DEF Iterates
  <2>2. \A n \in Nat : f[n] \in Seq(Seen)  BY <1>3
  <2>3. \A n \in Nat : \A s \in Seq(Seen) : G[<<n, s>>] = More(s, n + 1)
    <3> HIDE DEF Seen, More
    <3> QED  OBVIOUS
  <2> HIDE DEF Seen, More, G
  <2> QED  BY <2>1, <2>2, <2>3
<1>5. IsQ(f)
  <2>1. \A n \in Nat \ {0} : n - 1 \in Nat /\ (n - 1) + 1 = n  OBVIOUS
  <2>2. \A n \in Nat \ {0} : f[n] = More(f[n - 1], n)  BY <1>4, <2>1
  <2>3. \A n \in Nat : f[n] = IF n = 0 THEN <<>> ELSE More(f[n - 1], n)  BY <1>4, <2>2
  <2>4. f = [n \in Nat |-> f[n]]  BY <1>3
  <2> HIDE DEF Seen, G
  <2> QED  BY <2>3, <2>4
<1>6. LoopQueries(o, p) = (CHOOSE g : IsQ(g))[Len(Operands[o])]
  BY DEF LoopQueries
<1>7. PICK g : g = (CHOOSE h : IsQ(h)) /\ IsQ(g)
  <2> HIDE DEF IsQ
  <2> QED  BY <1>5
<1>8. PairsUp(g, o, p)
  <2>1. \A n \in Nat : g[n] = IF n = 0 THEN <<>> ELSE More(g[n - 1], n)  BY <1>7
  <2>2. \A n \in Nat : n + 1 \in Nat /\ n + 1 # 0 /\ (n + 1) - 1 = n  OBVIOUS
  <2> HIDE DEF IsQ
  <2>3. g[0] = <<>>  BY <2>1
  <2>4. \A n \in Nat : g[n + 1] = More(g[n], n + 1)
    <3> HIDE DEF More
    <3> QED  BY <2>1, <2>2
  <2> QED  BY <2>3, <2>4 DEF PairsUp
<1> HIDE DEF IsQ
<1> QED  BY <1>6, <1>7, <1>8

LEMMA PairsGrow ==
  ASSUME NEW o, NEW p, NEW n \in Nat, NEW q \in Seq(Value), NEW m \in Nat,
         PairsTo(q, o, p, n, m),
         Operands[o][n + 1] \in Value, Operands[p][n + 1] \in Value
  PROVE  /\ Operands[o][n + 1] = Operands[p][n + 1] => PairsTo(q, o, p, n + 1, m)
         /\ PairsTo(q \o <<Operands[o][n + 1], Operands[p][n + 1]>>, o, p, n + 1, m + 1)
<1> PICK x, y : x = Operands[o][n + 1] /\ y = Operands[p][n + 1]  OBVIOUS
<1> PICK t : t = q \o <<x, y>>  OBVIOUS
<1>1. Len(q) = 2 * m  BY DEF PairsTo
<1>2. /\ Len(t) = 2 * (m + 1)
      /\ \A k \in 1..(2 * m) : t[k] = q[k]
      /\ t[2 * m + 1] = x /\ t[2 * m + 2] = y
  <2>1. /\ <<x, y>> \in Seq(Value) /\ Len(<<x, y>>) = 2
        /\ <<x, y>>[1] = x /\ <<x, y>>[2] = y
    OBVIOUS
  <2> PICK u : u = <<x, y>>  OBVIOUS
  <2>2. /\ Len(t) = Len(q) + Len(u)
        /\ \A k \in 1..(Len(q) + Len(u)) :
             t[k] = IF k <= Len(q) THEN q[k] ELSE u[k - Len(q)]
    BY <2>1
  <2> PICK w \in Nat : w = 2 * m  OBVIOUS
  <2>3. Len(t) = w + 2 /\ \A k \in 1..(w + 2) : t[k] = IF k <= w THEN q[k] ELSE u[k - w]
    BY <1>1, <2>1, <2>2
  <2>4. w + 1 \in 1..(w + 2) /\ w + 2 \in 1..(w + 2) /\ (w + 1) - w = 1
        /\ (w + 2) - w = 2 /\ ~(w + 1 <= w) /\ ~(w + 2 <= w)
    OBVIOUS
  <2>5. t[w + 1] = x /\ t[w + 2] = y  BY <2>1, <2>3, <2>4
  <2>6. \A k \in 1..w : t[k] = q[k]  BY <2>3
  <2> QED  BY <2>3, <2>5, <2>6
<1>3. \A j \in 1..m : 2 * j - 1 \in 1..(2 * m) /\ 2 * j \in 1..(2 * m)  OBVIOUS
<1>4. \A j \in 1..m : \A i : PairAt(q, o, p, j, i) => PairAt(t, o, p, j, i)
  BY <1>2, <1>3 DEF PairAt
<1>5. PairAt(t, o, p, m + 1, n + 1)
  <2>1. 2 * (m + 1) - 1 = 2 * m + 1 /\ 2 * (m + 1) = 2 * m + 2  OBVIOUS
  <2> QED  BY <1>2, <2>1 DEF PairAt
<1>6. \A i \in 1..(n + 1) : i \in 1..n \/ i = n + 1  OBVIOUS
<1>7. \A j \in 1..(m + 1) : j \in 1..m \/ j = m + 1  OBVIOUS
<1>8. 1..n \subseteq 1..(n + 1) /\ 1..m \subseteq 1..(m + 1)
      /\ n + 1 \in 1..(n + 1) /\ m + 1 \in 1..(m + 1)
  OBVIOUS
<1>9. PairsTo(t, o, p, n + 1, m + 1)
  <2>1. \A j \in 1..(m + 1) : \E i \in 1..(n + 1) : PairAt(t, o, p, j, i)
    <3> TAKE j \in 1..(m + 1)
    <3>1. CASE j \in 1..m
      <4> PICK i \in 1..n : PairAt(q, o, p, j, i)  BY <3>1 DEF PairsTo
      <4> QED  BY <1>4, <1>8, <3>1
    <3> QED  BY <1>5, <1>7, <1>8, <3>1
  <2>2. \A i \in 1..(n + 1) : \/ Operands[o][i] = Operands[p][i]
                              \/ \E j \in 1..(m + 1) : PairAt(t, o, p, j, i)
    BY <1>4, <1>5, <1>6, <1>8 DEF PairsTo
  <2> QED  BY <1>2, <2>1, <2>2 DEF PairsTo
<1>10. x = y => PairsTo(q, o, p, n + 1, m)
  <2>1. \A j \in 1..m : \E i \in 1..(n + 1) : PairAt(q, o, p, j, i)
    BY <1>8 DEF PairsTo
  <2>2. x = y => \A i \in 1..(n + 1) : \/ Operands[o][i] = Operands[p][i]
                                       \/ \E j \in 1..m : PairAt(q, o, p, j, i)
    BY <1>6 DEF PairsTo
  <2> QED  BY <1>1, <2>1, <2>2 DEF PairsTo
<1> QED  BY <1>9, <1>10

LEMMA HalfFacts ==
  ASSUME NEW m \in Nat, NEW k \in 1..(2 * m)
  PROVE  \E j \in 1..m : k = 2 * j - 1 \/ k = 2 * j
<1> DEFINE j == (k + 1) \div 2
<1>1. j \in Nat /\ (k = 2 * j - 1 \/ k = 2 * j)  OBVIOUS
<1>2. j \in 1..m  BY <1>1
<1> QED  BY <1>1, <1>2


LEMMA QueriesFacts ==
  ASSUME NEW o \in Loops, NEW p \in Loops, Arity[o] = Arity[p]
  PROVE  Paired(LoopQueries(o, p), o, p, Len(Operands[o]))
<1> PICK f : PairsUp(f, o, p) /\ LoopQueries(o, p) = f[Len(Operands[o])]
  BY QueriesUnfold
<1>1. PICK len \in Nat : len = Len(Operands[o])  BY ProgramFacts
<1>2. \A i \in 1..len : Operands[o][i] \in Value /\ Operands[p][i] \in Value
  <2>1. DOMAIN Operands[o] = 1..(3 + Arity[o]) /\ DOMAIN Operands[p] = 1..(3 + Arity[p])
    BY OperandFacts, ProgramFacts
  <2>2. len = 3 + Arity[o]  BY <1>1, ProgramFacts
  <2>3. o \in Op /\ p \in Op  BY DEF Loops
  <2> QED  BY <2>1, <2>2, <2>3, OperandFacts
<1> DEFINE K == {n \in Nat : n <= len => Paired(f[n], o, p, n)}
<1>3. 0 \in K
  <2>1. f[0] = <<>> /\ <<>> \in Seq(Value) /\ Len(<<>>) = 2 * 0  BY DEF PairsUp
  <2>2. \A j \in 1..0 : FALSE  OBVIOUS
  <2>3. PairsTo(f[0], o, p, 0, 0)  BY <2>1, <2>2 DEF PairsTo
  <2> QED  BY <2>1, <2>3 DEF Paired
<1>4. ASSUME NEW n \in Nat, n \in K PROVE n + 1 \in K
  <2> SUFFICES ASSUME n + 1 <= len PROVE Paired(f[n + 1], o, p, n + 1)  OBVIOUS
  <2>1. n <= len /\ n + 1 \in 1..len  BY <1>1
  <2>2. PICK m \in Nat : PairsTo(f[n], o, p, n, m)  BY <1>4, <2>1 DEF Paired
  <2>3. f[n] \in Seq(Value)  BY <1>4, <2>1 DEF Paired
  <2>4. Operands[o][n + 1] \in Value /\ Operands[p][n + 1] \in Value  BY <1>2, <2>1
  <2>5. /\ Operands[o][n + 1] = Operands[p][n + 1] => PairsTo(f[n], o, p, n + 1, m)
        /\ PairsTo(f[n] \o <<Operands[o][n + 1], Operands[p][n + 1]>>, o, p, n + 1, m + 1)
    BY <2>2, <2>3, <2>4, PairsGrow
  <2>6. <<Operands[o][n + 1], Operands[p][n + 1]>> \in Seq(Value)  BY <2>4
  <2>7. f[n] \o <<Operands[o][n + 1], Operands[p][n + 1]>> \in Seq(Value)
    BY <2>3, <2>6
  <2>8. f[n + 1] = IF Operands[o][n + 1] = Operands[p][n + 1] THEN f[n]
                   ELSE f[n] \o <<Operands[o][n + 1], Operands[p][n + 1]>>
    BY DEF PairsUp
  <2> QED  BY <2>3, <2>5, <2>7, <2>8 DEF Paired
<1>5. len \in K
  <2> HIDE DEF K
  <2> QED  BY <1>1, <1>3, <1>4, Induction
<1> QED  BY <1>1, <1>5

-----------------------------------------------------------------------------
(* What the running callback asks for, by callback.                        *)

NextOf(v, vs, h) == Len(h) + 1 \in DOMAIN vs /\ v = vs[Len(h) + 1]

OwnOperand(v) ==
  /\ Top.pc # "compare" /\ (InLoop(Top) => Local.at = "begin")
  /\ NextOf(v, Operands[TopOp], Heard)
OwnYield(v) == /\ InLoop(Top) /\ Local.at = "body"
               /\ NextOf(v, Yields[TopOp], Heard)
ComparesBinary(v) ==
  LET o == TopOp
      p == Candidate.op
  IN /\ Top.pc = "compare" /\ o \notin Loops /\ p \notin Loops /\ Kind[o] = Kind[p]
     /\ \/ /\ BinaryPending(o, OwnHeard(o, Heard))
           /\ NextOf(v, Operands[o], OwnHeard(o, Heard))
        \/ /\ ~BinaryPending(o, OwnHeard(o, Heard)) /\ ~Has(Heard, IsSignal)
           /\ BinaryPending(p, OtherHeard(o, Heard))
           /\ NextOf(v, Operands[p], OtherHeard(o, Heard))
ComparesLoops(v) ==
  /\ Top.pc = "compare" /\ <<TopOp, Candidate.op>> \in Alike
  /\ NextOf(v, LoopQueries(TopOp, Candidate.op), Heard)

LEMMA ComparedOp ==
  ASSUME TypeInv, stack # <<>>, Top.pc = "compare"
  PROVE  /\ Top.key \in Key /\ Top.next \in DOMAIN entries[Top.key]
         /\ Candidate = entries[Top.key][Top.next] /\ Candidate.op \in Op
         /\ Len(Candidate.results) = Arity[TopOp]
<1>1. Fits(Top, entries) /\ Shaped(Top) /\ Top \in Activation  BY TopFacts
<1>2. Top.key \in Key /\ Top.key # Null
  BY <1>1 DEF Shaped, Searching, Activation
<1>3. FitsAt(Top, Top.next, entries) /\ Bucket(Top, entries) = entries[Top.key]
  BY <1>1, <1>2 DEF Fits, Bucket
<1>4. Top.next \in DOMAIN entries[Top.key] /\ Len(Candidate.results) = Arity[TopOp]
  BY <1>3 DEF FitsAt, Candidate, TopOp
<1>5. entries[Top.key] \in Seq(Entry)  BY <1>2 DEF TypeInv, TypeOK
<1>6. Candidate \in Entry  BY <1>4, <1>5, LenProperties, ElementOfSeq DEF Candidate
<1> QED  BY <1>2, <1>4, <1>6 DEF Entry, Candidate

LEMMA SplitHeard ==
  ASSUME NEW o, NEW h \in Seq(Answer)
  PROVE  /\ OwnHeard(o, h) \in Seq(Answer) /\ OtherHeard(o, h) \in Seq(Answer)
         /\ Len(OwnHeard(o, h)) <= Len(h) /\ Len(OwnHeard(o, h)) <= 2
         /\ Len(h) = Len(OwnHeard(o, h)) + Len(OtherHeard(o, h))
         /\ \A i \in 1..Len(OwnHeard(o, h)) : OwnHeard(o, h)[i] = h[i]
         /\ \A i \in 1..Len(OtherHeard(o, h)) :
              OtherHeard(o, h)[i] = h[Len(OwnHeard(o, h)) + i]
<1> PICK g : g = OwnHeard(o, h)  OBVIOUS
<1>1. Len(h) \in Nat /\ DOMAIN h = 1..Len(h) /\ \A i \in 1..Len(h) : h[i] \in Answer
  BY HeardFacts
<1>2. /\ g \in Seq(Answer) /\ Len(g) <= Len(h) /\ Len(g) <= 2
      /\ \A i \in 1..Len(g) : g[i] = h[i]
  <2>1. CASE h # <<>> /\ ~BinaryPending(o, <<h[1]>>)
    <3>1. g = <<h[1]>>  BY <2>1 DEF OwnHeard
    <3>2. 1 \in 1..Len(h) /\ 1 <= Len(h)  BY <1>1, <2>1
    <3> QED  BY <1>1, <3>1, <3>2
  <2>2. CASE ~(h # <<>> /\ ~BinaryPending(o, <<h[1]>>))
    <3> PICK m : m = IF Len(h) < 2 THEN Len(h) ELSE 2  OBVIOUS
    <3>1. g = SubSeq(h, 1, m)  BY <2>2 DEF OwnHeard
    <3> PICK b \in Nat : b = Len(h)  BY <1>1
    <3>2. m \in Nat /\ m <= b /\ m <= 2 /\ 1 <= m + 1  OBVIOUS
    <3>3. \A i \in 1..m : i \in 1..b  BY <3>2
    <3>4. \A i \in 1..m : h[i] \in Answer  BY <1>1, <3>3
    <3>5. /\ g \in Seq(Answer)
          /\ Len(g) = IF 1 <= m + 1 THEN m + 1 - 1 ELSE 0
          /\ \A i \in 1..(m + 1 - 1) : g[i] = h[1 + i - 1]
      BY <3>1, <3>2, <3>4, SubSeqProperties
    <3>6. Len(g) = m /\ m + 1 - 1 = m /\ \A i \in 1..m : 1 + i - 1 = i  BY <3>2, <3>5
    <3>7. \A i \in 1..m : g[i] = h[i]  BY <3>5, <3>6
    <3> QED  BY <3>2, <3>5, <3>6, <3>7
  <2> QED  BY <2>1, <2>2
<1>3. Len(g) \in Nat  BY <1>2
<1> PICK t : t = OtherHeard(o, h)  OBVIOUS
<1>4. t = SubSeq(h, Len(g) + 1, Len(h))  BY DEF OtherHeard
<1>5. /\ t \in Seq(Answer) /\ Len(h) = Len(g) + Len(t)
      /\ \A i \in 1..Len(t) : t[i] = h[Len(g) + i]
  <2> PICK a, b : a = Len(g) /\ b = Len(h)  OBVIOUS
  <2>1. a \in Nat /\ b \in Nat /\ a <= b  BY <1>1, <1>2, <1>3
  <2>2. \A i \in (a + 1)..b : i \in 1..b  BY <2>1
  <2>3. \A i \in (a + 1)..b : h[i] \in Answer  BY <1>1, <2>2
  <2>4. t = SubSeq(h, a + 1, b)  BY <1>4
  <2>5. /\ t \in Seq(Answer)
        /\ Len(t) = IF a + 1 <= b + 1 THEN b + 1 - (a + 1) ELSE 0
        /\ \A i \in 1..(b + 1 - (a + 1)) : t[i] = h[(a + 1) + i - 1]
    BY <2>1, <2>3, <2>4, SubSeqProperties
  <2>6. Len(t) = b - a  BY <2>1, <2>5
  <2>7. \A i \in 1..Len(t) : t[i] = h[a + i]
    <3> TAKE i \in 1..Len(t)
    <3>1. (a + 1) + i - 1 = a + i /\ i \in 1..(b + 1 - (a + 1))  BY <2>1, <2>6
    <3> QED  BY <2>5, <3>1
  <2> QED  BY <2>1, <2>5, <2>6, <2>7
<1> QED  BY <1>2, <1>5

LEMMA PendingNext ==
  ASSUME NEW o \in Op \ Loops, NEW h \in Seq(Answer), NEW v \in BinaryWants(o, h)
  PROVE  BinaryPending(o, h) /\ NextOf(v, Operands[o], h)
<1>1. v = Operands[o][Len(h) + 1] /\ BinaryPending(o, h)  BY DEF BinaryWants
<1>2. Len(h) = 0 \/ Len(h) = 1  BY <1>1, EmptySeq DEF BinaryPending
<1>3. DOMAIN Operands[o] = 1..2  BY OperandFacts
<1>4. 0 + 1 \in 1..2 /\ 1 + 1 \in 1..2  OBVIOUS
<1> QED  BY <1>1, <1>2, <1>3, <1>4 DEF NextOf

LEMMA WantsShape ==
  ASSUME InterpInv, stack # <<>>, NEW v \in Wants
  PROVE  OwnOperand(v) \/ OwnYield(v) \/ ComparesBinary(v) \/ ComparesLoops(v)
<1>1. TopOp \in Op /\ Heard \in Seq(Answer) /\ Len(Heard) \in Nat
  BY TopFacts, HeardType DEF InterpInv
<1>2. Top.pc = "getHash" \/ Top.pc = "evaluate" \/ Top.pc = "compare"  BY DEF Wants
<1>3. TopOp \in Loops => /\ DOMAIN Operands[TopOp] = 1..Len(Operands[TopOp])
                         /\ Len(Operands[TopOp]) \in Nat
                         /\ DOMAIN Yields[TopOp] = 1..Len(Yields[TopOp])
                         /\ Len(Yields[TopOp]) \in Nat
  BY <1>1, ProgramFacts, LenProperties
<1>4. CASE Top.pc = "getHash"
  <2>1. v \in HashWants(TopOp) /\ ~InLoop(Top)  BY <1>4 DEF Wants, InLoop
  <2>2. CASE TopOp \notin Loops
    BY <1>1, <1>4, <2>1, <2>2, PendingNext DEF HashWants, OwnOperand
  <2>3. CASE TopOp \in Loops
    <3>1. Len(Heard) < Len(Operands[TopOp]) /\ v = Operands[TopOp][Len(Heard) + 1]
      BY <2>1, <2>3 DEF HashWants, ForHashPending
    <3> QED  BY <1>1, <1>3, <1>4, <2>1, <2>3, <3>1 DEF OwnOperand, NextOf
  <2> QED  BY <2>2, <2>3
<1>5. CASE Top.pc = "evaluate"
  <2>1. v \in EvaluateWants(TopOp) /\ (InLoop(Top) <=> TopOp \in Loops)
    BY <1>5 DEF Wants, InLoop, TopOp
  <2>2. CASE TopOp \notin Loops
    BY <1>1, <1>5, <2>1, <2>2, PendingNext DEF EvaluateWants, OwnOperand
  <2>3. CASE TopOp \in Loops
    <3>1. \/ /\ Local.at = "begin" /\ Len(Heard) < Len(Operands[TopOp])
             /\ v = Operands[TopOp][Len(Heard) + 1]
          \/ /\ Local.at = "body" /\ Len(Heard) < Len(Yields[TopOp])
             /\ v = Yields[TopOp][Len(Heard) + 1]
      BY <2>1, <2>3 DEF EvaluateWants, ForPending, ForHashPending, MoreYields
    <3> QED
      BY <1>1, <1>3, <1>5, <2>1, <2>3, <3>1 DEF OwnOperand, OwnYield, NextOf
  <2> QED  BY <2>2, <2>3
<1>6. CASE Top.pc = "compare"
  <2> PICK p : p = Candidate.op  OBVIOUS
  <2>1. v \in CompareWants(TopOp, p)  BY <1>6 DEF Wants
  <2>2. p \in Op  BY <1>6, ComparedOp DEF InterpInv
  <2>3. CASE TopOp \in Loops
    <3>1. /\ <<TopOp, p>> \in Alike /\ Len(Heard) < Len(LoopQueries(TopOp, p))
          /\ v = LoopQueries(TopOp, p)[Len(Heard) + 1]
      BY <2>1, <2>3 DEF CompareWants, LoopWants, EqualSoFar
    <3>2. p \in Loops /\ Arity[TopOp] = Arity[p]  BY <3>1, InterpAssumption
    <3>3. LoopQueries(TopOp, p) \in Seq(Value)
      BY <2>3, <3>2, QueriesFacts DEF Paired
    <3>4. DOMAIN LoopQueries(TopOp, p) = 1..Len(LoopQueries(TopOp, p))
          /\ Len(LoopQueries(TopOp, p)) \in Nat
      BY <3>3, LenProperties
    <3> QED  BY <1>1, <1>6, <3>1, <3>4 DEF ComparesLoops, NextOf
  <2>4. CASE TopOp \notin Loops
    <3>1. Comparable(TopOp, p)  BY <2>1, <2>4 DEF CompareWants
    <3>2. Kind[TopOp] = Kind[p] /\ p \notin Loops
      BY <1>1, <2>2, <2>4, <3>1 DEF Comparable, Loops
    <3> PICK g, t : g = OwnHeard(TopOp, Heard) /\ t = OtherHeard(TopOp, Heard)
      OBVIOUS
    <3>3. g \in Seq(Answer) /\ t \in Seq(Answer)  BY <1>1, SplitHeard
    <3>4. \/ BinaryPending(TopOp, g) /\ v \in BinaryWants(TopOp, g)
          \/ /\ ~BinaryPending(TopOp, g) /\ ~Has(Heard, IsSignal)
             /\ v \in BinaryWants(p, t)
      BY <2>1, <2>4, <3>1 DEF CompareWants
    <3> QED
      BY <1>1, <1>6, <2>2, <2>4, <3>2, <3>3, <3>4, PendingNext DEF ComparesBinary
  <2> QED  BY <2>3, <2>4
<1> QED  BY <1>2, <1>4, <1>5, <1>6

-----------------------------------------------------------------------------
(* What is evaluated, memoized and cached is in the scope of what is bound,*)
(* if the host asks for values outside of every region a loop binds.       *)

TopLevel == running => Scope[asked] = {}

BlocksTo(m) == {frames[j] : j \in 1..m}

(* n frames and f freezes are those of r and of what it holds: a loop      *)
(* holds a freeze as long as it iterates, and a frame in its body only.    *)
Placed(r, l, n, f) ==
  /\ Scope[r.val] \subseteq BlocksTo(r.framesAt)
  /\ r.framesAt <= r.freezesAt
  /\ InLoop(r) =>
       /\ Iterating(l) => r.freezesAt < f
       /\ l.at = "body" => n = r.framesAt + 1 /\ frames[n] = Body[r.val[1]]
       /\ l.at # "body" => n = r.framesAt

InScope ==
  \A i \in 1..Len(stack) : Placed(stack[i], locals[i], FramesAbove(i), FreezesAbove(i))
MemoScoped ==
  \A v \in Value : memo[v] # NotMemoized => Scope[v] \subseteq BlocksTo(memo[v].frame)
EntriesTop ==
  \A k \in Key : \A n \in DOMAIN entries[k] : Scope[<<entries[k][n].op, 1>>] = {}
FramesFrozen == Len(frames) <= freezes
ScopedInv == InScope /\ MemoScoped /\ EntriesTop /\ FramesFrozen

(* The invariants of the modules before, which the rest rests on.          *)
BaseInv == InterpInv /\ StackInv /\ ScopeInv

LEMMA AboveFacts ==
  ASSUME BaseInv
  PROVE  /\ Len(stack) \in Nat /\ Len(locals) = Len(stack) /\ Len(frames) \in Nat
         /\ freezes \in Nat
         /\ \A i \in 1..Len(stack) :
              /\ stack[i] \in Activation /\ stack[i].framesAt \in Nat
              /\ stack[i].freezesAt \in Nat /\ stack[i].val \in Result
              /\ locals[i] \in LocalRecord
              /\ FramesAbove(i) \in Nat /\ stack[i].framesAt <= FramesAbove(i)
              /\ FreezesAbove(i) \in Nat /\ stack[i].freezesAt <= FreezesAbove(i)
         /\ \A i \in 1..(Len(stack) - 1) : /\ FramesAbove(i) = stack[i + 1].framesAt
                                           /\ FreezesAbove(i) = stack[i + 1].freezesAt
         /\ FramesAbove(Len(stack)) = Len(frames) /\ FreezesAbove(Len(stack)) = freezes
<1>1. /\ Len(stack) \in Nat /\ DOMAIN stack = 1..Len(stack)
      /\ Len(frames) \in Nat /\ freezes \in Nat
      /\ \A i \in 1..Len(stack) :
           /\ stack[i] \in Activation
           /\ stack[i].freezesAt \in Nat /\ stack[i].framesAt \in Nat
  BY Sizes DEF BaseInv, InterpInv
<1>2. locals \in Seq(LocalRecord) /\ Len(locals) = Len(stack)
  BY DEF BaseInv, InterpInv, LocalsInv
<1>3. \A i \in 1..Len(stack) : locals[i] \in LocalRecord  BY <1>2
<1>4. \A i \in 1..(Len(stack) - 1) : /\ FramesAbove(i) = stack[i + 1].framesAt
                                     /\ FreezesAbove(i) = stack[i + 1].freezesAt
  <2> PICK n \in Nat : n = Len(stack)  BY <1>1
  <2>1. \A i \in 1..(n - 1) : i # n  OBVIOUS
  <2> QED  BY <2>1 DEF FramesAbove, FreezesAbove
<1>5. FramesAbove(Len(stack)) = Len(frames) /\ FreezesAbove(Len(stack)) = freezes
  BY DEF FramesAbove, FreezesAbove
<1>6. ASSUME NEW i \in 1..Len(stack)
      PROVE  /\ FramesAbove(i) \in Nat /\ stack[i].framesAt <= FramesAbove(i)
             /\ FreezesAbove(i) \in Nat /\ stack[i].freezesAt <= FreezesAbove(i)
             /\ stack[i].val \in Result
  <2>1. i = Len(stack) \/ (i \in 1..(Len(stack) - 1) /\ i + 1 \in 1..Len(stack))
    <3> PICK n \in Nat : n = Len(stack)  BY <1>1
    <3>1. i \in 1..n  OBVIOUS
    <3>2. i = n \/ (i \in 1..(n - 1) /\ i + 1 \in 1..n)  BY <3>1
    <3> QED  BY <3>2
  <2>2. FramesAbove(i) \in Nat /\ FreezesAbove(i) \in Nat
    BY <1>1, <1>4, <1>5, <2>1
  <2>3. stack[i].framesAt <= FramesAbove(i) /\ stack[i].freezesAt <= FreezesAbove(i)
    BY <1>1 DEF BaseInv, StackInv, StackDiscipline
  <2>4. stack[i].val \in Result  BY <1>1 DEF Activation
  <2> QED  BY <2>2, <2>3, <2>4
<1> QED  BY <1>1, <1>2, <1>3, <1>4, <1>5, <1>6

(* The frames an activation entered with are among those of the ones above.*)
LEMMA FramesAscend ==
  ASSUME BaseInv
  PROVE  \A i, j \in 1..Len(stack) : i <= j => stack[i].framesAt <= stack[j].framesAt
<1> DEFINE Up(d) == \A i \in 1..Len(stack) :
                      i + d <= Len(stack) => stack[i].framesAt <= stack[i + d].framesAt
           K == {d \in Nat : Up(d)}
<1>1. Len(stack) \in Nat  BY AboveFacts
<1>2. 0 \in K
  <2>1. \A i \in 1..Len(stack) : stack[i].framesAt \in Nat /\ i + 0 = i  BY AboveFacts
  <2> QED  BY <2>1
<1>3. ASSUME NEW d \in Nat, d \in K PROVE d + 1 \in K
  <2>1. ASSUME NEW i \in 1..Len(stack), i + (d + 1) <= Len(stack)
        PROVE  stack[i].framesAt <= stack[i + (d + 1)].framesAt
    <3> PICK j : j = i + d  OBVIOUS
    <3>1. /\ j \in 1..(Len(stack) - 1) /\ j \in 1..Len(stack) /\ i + (d + 1) = j + 1
          /\ j + 1 \in 1..Len(stack) /\ j <= Len(stack)
      BY <1>1, <2>1
    <3>2. stack[i].framesAt <= stack[j].framesAt  BY <1>3, <3>1
    <3>3. stack[j].framesAt <= stack[j + 1].framesAt  BY <3>1, AboveFacts
    <3>4. /\ stack[i].framesAt \in Nat /\ stack[j].framesAt \in Nat
          /\ stack[j + 1].framesAt \in Nat
      BY <3>1, AboveFacts
    <3> QED  BY <3>1, <3>2, <3>3, <3>4
  <2> QED  BY <2>1
<1>4. Nat \subseteq K
  <2> HIDE DEF K
  <2> QED  BY <1>2, <1>3, Induction
<1>5. ASSUME NEW i \in 1..Len(stack), NEW j \in 1..Len(stack), i <= j
      PROVE  stack[i].framesAt <= stack[j].framesAt
  <2>1. j - i \in Nat /\ i + (j - i) = j /\ j <= Len(stack)  BY <1>1, <1>5
  <2>2. Up(j - i)  BY <1>4, <2>1
  <2> QED  BY <2>1, <2>2
<1> QED  BY <1>5

(* An activation is placed as long as the frames below the one above are.  *)
LEMMA LowerPlaced ==
  ASSUME BaseInv, NEW i \in 1..Len(stack),
         Placed(stack[i], locals[i], FramesAbove(i), FreezesAbove(i)),
         stack'[i] = stack[i], locals'[i].at = locals[i].at,
         FramesAbove(i)' = FramesAbove(i), FreezesAbove(i)' = FreezesAbove(i),
         \A j \in 1..FramesAbove(i) : frames'[j] = frames[j]
  PROVE  Placed(stack[i], locals[i], FramesAbove(i), FreezesAbove(i))'
<1> PICK r, l, n, f : r = stack[i] /\ l = locals[i] /\ n = FramesAbove(i)
                      /\ f = FreezesAbove(i)
  OBVIOUS
<1> PICK m : m = locals'[i]  OBVIOUS
<1>1. /\ r.framesAt \in Nat /\ n \in Nat /\ r.framesAt <= n /\ Placed(r, l, n, f)
      /\ m.at = l.at
  BY AboveFacts
<1>2. BlocksTo(r.framesAt)' = BlocksTo(r.framesAt)
  <2>1. \A j \in 1..r.framesAt : frames'[j] = frames[j]  BY <1>1
  <2> QED  BY <2>1 DEF BlocksTo
<1>3. l.at = "body" /\ InLoop(r) => frames'[n] = frames[n]
  <2>1. l.at = "body" /\ InLoop(r) => n \in 1..n  BY <1>1 DEF Placed
  <2> QED  BY <2>1
<1>4. Iterating(m) <=> Iterating(l)  BY <1>1 DEF Iterating
<1>5. /\ Scope[r.val] \subseteq {frames'[j] : j \in 1..r.framesAt}
      /\ r.framesAt <= r.freezesAt
      /\ InLoop(r) =>
           /\ Iterating(m) => r.freezesAt < f
           /\ m.at = "body" => n = r.framesAt + 1 /\ frames'[n] = Body[r.val[1]]
           /\ m.at # "body" => n = r.framesAt
  BY <1>1, <1>2, <1>3, <1>4 DEF Placed, BlocksTo
<1>6. stack'[i] = r /\ m = locals'[i] /\ FramesAbove(i)' = n /\ FreezesAbove(i)' = f
  OBVIOUS
<1> QED  BY <1>5, <1>6 DEF Placed, BlocksTo, InLoop, Iterating

LEMMA BlocksGrow ==
  ASSUME NEW m \in Nat, NEW n \in Nat, m <= n
  PROVE  BlocksTo(m) \subseteq BlocksTo(n)
<1>1. 1..m \subseteq 1..n  OBVIOUS
<1> QED  BY <1>1 DEF BlocksTo

LEMMA TopPlaced ==
  ASSUME BaseInv, InScope, Visible, stack # <<>>
  PROVE  /\ Placed(Top, Local, Len(frames), freezes)
         /\ Len(stack) \in 1..Len(stack) /\ Top = stack[Len(stack)]
         /\ Local = locals[Len(stack)]
         /\ Top.framesAt \in Nat /\ Top.freezesAt \in Nat /\ Len(frames) \in Nat
         /\ freezes \in Nat /\ Top.framesAt <= Len(frames) /\ Top.freezesAt <= freezes
         /\ Top.val \in Result /\ TopOp \in Op
         /\ \A i \in 1..Arity[TopOp] : Scope[<<TopOp, i>>] = Scope[Top.val]
         /\ Scope[<<TopOp, 1>>] = Scope[Top.val]
<1>1. InterpInv /\ TypeInv  BY DEF BaseInv, InterpInv
<1>2. /\ Len(stack) \in Nat \ {0} /\ Len(stack) \in 1..Len(stack)
      /\ Top = stack[Len(stack)] /\ Local = locals[Len(stack)]
  BY <1>1, StackSizes
<1>3. /\ Top.framesAt \in Nat /\ Top.freezesAt \in Nat /\ Len(frames) \in Nat
      /\ freezes \in Nat /\ Top.framesAt <= Len(frames) /\ Top.freezesAt <= freezes
      /\ FramesAbove(Len(stack)) = Len(frames) /\ FreezesAbove(Len(stack)) = freezes
  BY <1>2, AboveFacts
<1>4. Placed(Top, Local, Len(frames), freezes)
  <2>1. Placed(stack[Len(stack)], locals[Len(stack)], FramesAbove(Len(stack)),
               FreezesAbove(Len(stack)))
    BY <1>2 DEF InScope
  <2> QED  BY <1>2, <1>3, <2>1
<1>5. Top.val \in Result /\ TopOp \in Op  BY <1>1, TopFacts
<1>6. Top.val = <<TopOp, Top.val[2]>> /\ Top.val[2] \in 1..Arity[TopOp]
  BY <1>5, ValueFacts DEF TopOp
<1>7. \A i \in 1..Arity[TopOp] : Scope[<<TopOp, i>>] = Scope[<<TopOp, 1>>]
  BY <1>5 DEF Visible
<1>8. Scope[Top.val] = Scope[<<TopOp, 1>>]  BY <1>6, <1>7
<1> QED  BY <1>2, <1>3, <1>4, <1>5, <1>7, <1>8

(* What a callback asks for is in scope where it asks.                     *)
LEMMA WantsInScope ==
  ASSUME BaseInv, InScope, EntriesTop, Visible, stack # <<>>, NEW v \in Wants
  PROVE  Scope[v] \subseteq BlocksTo(Len(frames))
<1>1. InterpInv /\ TypeInv  BY DEF BaseInv, InterpInv
<1>2. Scope[<<TopOp, 1>>] \subseteq BlocksTo(Len(frames))
  <2>1. Scope[Top.val] \subseteq BlocksTo(Top.framesAt)  BY TopPlaced DEF Placed
  <2> QED  BY <2>1, TopPlaced, BlocksGrow
<1>3. TopOp \in Op  BY TopPlaced
<1>4. \A o \in Op : \A h : NextOf(v, Operands[o], h) => Scope[v] \subseteq Scope[<<o, 1>>]
  BY DEF NextOf, Visible
<1>5. Top.pc = "compare" => Candidate.op \in Op /\ Scope[<<Candidate.op, 1>>] = {}
  BY <1>1, ComparedOp DEF EntriesTop
<1>6. CASE OwnOperand(v)
  BY <1>2, <1>3, <1>4, <1>6 DEF OwnOperand
<1>7. CASE OwnYield(v)
  <2>1. TopOp \in Loops  BY <1>7 DEF OwnYield, InLoop, TopOp
  <2>2. Scope[v] \subseteq Scope[<<TopOp, 1>>] \cup {Body[TopOp]}
    BY <1>7, <2>1 DEF OwnYield, NextOf, Visible
  <2>3. Len(frames) = Top.framesAt + 1 /\ frames[Len(frames)] = Body[TopOp]
    BY <1>7, TopPlaced DEF OwnYield, Placed, TopOp
  <2>4. Body[TopOp] \in BlocksTo(Len(frames))
    <3>1. Len(frames) \in 1..Len(frames)  BY <2>3, TopPlaced
    <3> QED  BY <2>3, <3>1 DEF BlocksTo
  <2> QED  BY <1>2, <2>2, <2>4
<1>8. CASE ComparesBinary(v)
  BY <1>2, <1>3, <1>4, <1>5, <1>8 DEF ComparesBinary
<1>9. CASE ComparesLoops(v)
  <2> PICK o, p : o = TopOp /\ p = Candidate.op  OBVIOUS
  <2>1. o \in Loops /\ p \in Loops /\ Arity[o] = Arity[p]
    BY <1>9, InterpAssumption DEF ComparesLoops
  <2> PICK q : q = LoopQueries(o, p)  OBVIOUS
  <2> PICK len : len = Len(Operands[o])  OBVIOUS
  <2>2. len \in Nat /\ DOMAIN Operands[o] = 1..len /\ DOMAIN Operands[p] = 1..len
    BY <2>1, OperandFacts, ProgramFacts
  <2>3. q \in Seq(Value)  BY <2>1, QueriesFacts DEF Paired
  <2>4. PICK m \in Nat : PairsTo(q, o, p, len, m)  BY <2>1, QueriesFacts DEF Paired
  <2>5. PICK k \in DOMAIN q : v = q[k]  BY <1>9 DEF ComparesLoops, NextOf
  <2>6. k \in 1..(2 * m)  BY <2>3, <2>4, <2>5 DEF PairsTo
  <2>7. PICK j \in 1..m : k = 2 * j - 1 \/ k = 2 * j
    BY <2>6, HalfFacts
  <2>8. PICK i \in 1..len : PairAt(q, o, p, j, i)  BY <2>4 DEF PairsTo
  <2>9. v = Operands[o][i] \/ v = Operands[p][i]  BY <2>5, <2>7, <2>8 DEF PairAt
  <2>10. p \in Op /\ o \in Op /\ i \in DOMAIN Operands[o] /\ i \in DOMAIN Operands[p]
    BY <2>1, <2>2 DEF Loops
  <2>11. Scope[v] \subseteq Scope[<<o, 1>>] \/ Scope[v] \subseteq Scope[<<p, 1>>]
    BY <2>9, <2>10 DEF Visible
  <2> QED  BY <1>2, <1>5, <1>9, <2>11 DEF ComparesLoops
<1> QED  BY <1>1, <1>6, <1>7, <1>8, <1>9, WantsShape

(* The activations below position m keep what is above them.               *)
LEMMA AboveKept ==
  ASSUME BaseInv, NEW m \in Nat, m <= Len(stack), Len(stack') \in Nat,
         m <= Len(stack'),
         \A i \in 1..m : /\ stack'[i].framesAt = stack[i].framesAt
                         /\ stack'[i].freezesAt = stack[i].freezesAt
  PROVE  \A i \in 1..(m - 1) : /\ FramesAbove(i)' = FramesAbove(i)
                               /\ FreezesAbove(i)' = FreezesAbove(i)
<1> TAKE i \in 1..(m - 1)
<1> PICK n : n = Len(stack)  OBVIOUS
<1> PICK k : k = Len(stack')  OBVIOUS
<1>1. n \in Nat  BY AboveFacts
<1>2. i # n /\ i # k /\ i + 1 \in 1..m  BY <1>1
<1>3. /\ FramesAbove(i) = stack[i + 1].framesAt
      /\ FreezesAbove(i) = stack[i + 1].freezesAt
  BY <1>2 DEF FramesAbove, FreezesAbove
<1>4. /\ FramesAbove(i)' = stack'[i + 1].framesAt
      /\ FreezesAbove(i)' = stack'[i + 1].freezesAt
  BY <1>2 DEF FramesAbove, FreezesAbove
<1> QED  BY <1>2, <1>3, <1>4

(* Below the top nothing changes place, whatever the top does above the    *)
(* frames it entered with.                                                 *)
LEMMA LowersPlaced ==
  ASSUME BaseInv, InScope, stack # <<>>, Len(stack') \in Nat,
         Len(stack) <= Len(stack'),
         stack'[Len(stack)].framesAt = Top.framesAt,
         stack'[Len(stack)].freezesAt = Top.freezesAt,
         \A i \in 1..(Len(stack) - 1) :
           stack'[i] = stack[i] /\ locals'[i].at = locals[i].at,
         \A j \in 1..Top.framesAt : frames'[j] = frames[j],
         NEW i \in 1..(Len(stack) - 1)
  PROVE  Placed(stack[i], locals[i], FramesAbove(i), FreezesAbove(i))'
<1> PICK n : n = Len(stack)  OBVIOUS
<1>1. n \in Nat \ {0} /\ Top = stack[n]
  BY StackSizes DEF BaseInv
<1>2. \A k \in 1..n : /\ stack'[k].framesAt = stack[k].framesAt
                      /\ stack'[k].freezesAt = stack[k].freezesAt
  BY <1>1
<1>3. FramesAbove(i)' = FramesAbove(i) /\ FreezesAbove(i)' = FreezesAbove(i)
  BY <1>1, <1>2, AboveKept
<1>4. i \in 1..n /\ i + 1 \in 1..n /\ n \in 1..n /\ i + 1 <= n  BY <1>1
<1>5. FramesAbove(i) = stack[i + 1].framesAt  BY AboveFacts
<1>6. stack[i + 1].framesAt <= Top.framesAt  BY <1>1, <1>4, FramesAscend
<1>7. FramesAbove(i) \in Nat /\ Top.framesAt \in Nat  BY <1>1, <1>4, AboveFacts
<1>8. \A j \in 1..FramesAbove(i) : j \in 1..Top.framesAt  BY <1>5, <1>6, <1>7
<1>9. Placed(stack[i], locals[i], FramesAbove(i), FreezesAbove(i))
  BY <1>4 DEF InScope
<1>10. stack'[i] = stack[i] /\ locals'[i].at = locals[i].at  OBVIOUS
<1> QED  BY <1>3, <1>4, <1>8, <1>9, <1>10, LowerPlaced

(* The top activation takes a step of its own.                             *)
LEMMA SetInScope ==
  ASSUME BaseInv, InScope, stack # <<>>, Len(stack') = Len(stack),
         stack'[Len(stack)].framesAt = Top.framesAt,
         stack'[Len(stack)].freezesAt = Top.freezesAt,
         \A i \in 1..(Len(stack) - 1) :
           stack'[i] = stack[i] /\ locals'[i].at = locals[i].at,
         \A j \in 1..Top.framesAt : frames'[j] = frames[j],
         Placed(stack[Len(stack)], locals[Len(stack)], Len(frames), freezes)'
  PROVE  InScope'
<1> PICK n : n = Len(stack)  OBVIOUS
<1>1. n \in Nat \ {0} /\ Top = stack[n]
  BY StackSizes DEF BaseInv
<1>2. \A i \in 1..(n - 1) :
        Placed(stack[i], locals[i], FramesAbove(i), FreezesAbove(i))'
  BY <1>1, LowersPlaced
<1>3. FramesAbove(n)' = Len(frames') /\ FreezesAbove(n)' = freezes'
  BY DEF FramesAbove, FreezesAbove
<1>4. Placed(stack[n], locals[n], Len(frames), freezes)'  BY DEF Placed, BlocksTo
<1>5. Placed(stack[n], locals[n], FramesAbove(n), FreezesAbove(n))'
  BY <1>3, <1>4
<1>6. \A i \in 1..n : i \in 1..(n - 1) \/ i = n  BY <1>1
<1>7. \A i \in 1..n : Placed(stack[i], locals[i], FramesAbove(i), FreezesAbove(i))'
  BY <1>2, <1>5, <1>6
<1> QED  BY <1>7 DEF InScope

LEMMA HearInScope ==
  ASSUME BaseInv, InScope, UNCHANGED <<stack, scopes>>,
         \A i \in 1..Len(stack) : locals'[i].at = locals[i].at
  PROVE  InScope'
<1>1. UNCHANGED <<frames, freezes>>  BY DEF scopes
<1>2. ASSUME NEW i \in 1..Len(stack)
      PROVE  Placed(stack[i], locals[i], FramesAbove(i), FreezesAbove(i))'
  <2>1. FramesAbove(i)' = FramesAbove(i) /\ FreezesAbove(i)' = FreezesAbove(i)
    BY <1>1 DEF FramesAbove, FreezesAbove
  <2>2. Placed(stack[i], locals[i], FramesAbove(i), FreezesAbove(i))
    BY DEF InScope
  <2> QED  BY <1>1, <2>1, <2>2, LowerPlaced
<1> QED  BY <1>2 DEF InScope

LEMMA PushInScope ==
  ASSUME BaseInv, InScope, FramesFrozen, NEW v \in Result, Activate(v),
         locals' = Append(locals, Fresh), UNCHANGED scopes,
         Scope[v] \subseteq BlocksTo(Len(frames))
  PROVE  InScope'
<1>1. InterpInv /\ TypeInv  BY DEF BaseInv, InterpInv
<1> PICK n : n = Len(stack)  OBVIOUS
<1>2. n \in Nat /\ Len(frames) \in Nat /\ freezes \in Nat  BY AboveFacts
<1>3. UNCHANGED <<frames, freezes>>  BY DEF scopes
<1>4. /\ Len(stack') = n + 1
      /\ \A i \in 1..n : stack'[i] = stack[i] /\ locals'[i] = locals[i]
      /\ locals'[n + 1] = Fresh
  BY <1>1, PushedFacts
<1>5. /\ stack'[n + 1].val = v /\ stack'[n + 1].pc = "isCacheable"
      /\ stack'[n + 1].freezesAt = freezes /\ stack'[n + 1].framesAt = Len(frames)
  <2> PICK f : f = Len(frames)  OBVIOUS
  <2>1. stack'[n + 1] = [val |-> v, pc |-> "isCacheable", key |-> Null, next |-> 1,
                         entry |-> 0, results |-> <<>>, freezesAt |-> freezes,
                         framesAt |-> f]
    BY <1>1, PushFacts
  <2> QED  BY <2>1
<1>6. ASSUME NEW i \in 1..n
      PROVE  Placed(stack[i], locals[i], FramesAbove(i), FreezesAbove(i))'
  <2>1. /\ FramesAbove(i)' = stack'[i + 1].framesAt
        /\ FreezesAbove(i)' = stack'[i + 1].freezesAt
    <3>1. i # n + 1  BY <1>2
    <3> QED  BY <1>4, <3>1 DEF FramesAbove, FreezesAbove
  <2>2. FramesAbove(i)' = FramesAbove(i) /\ FreezesAbove(i)' = FreezesAbove(i)
    <3>1. CASE i = n
      BY <1>5, <2>1, <3>1 DEF FramesAbove, FreezesAbove
    <3>2. CASE i # n
      <4>1. i \in 1..(n - 1) /\ i + 1 \in 1..n  BY <1>2, <3>2
      <4> QED  BY <1>4, <2>1, <4>1, AboveFacts
    <3> QED  BY <3>1, <3>2
  <2>3. Placed(stack[i], locals[i], FramesAbove(i), FreezesAbove(i))
    BY DEF InScope
  <2>4. stack'[i] = stack[i] /\ locals'[i].at = locals[i].at  BY <1>4
  <2> QED  BY <1>3, <2>2, <2>3, <2>4, LowerPlaced
<1>7. Placed(stack[n + 1], locals[n + 1], FramesAbove(n + 1), FreezesAbove(n + 1))'
  <2>1. BlocksTo(Len(frames))' = BlocksTo(Len(frames))  BY <1>3 DEF BlocksTo
  <2>2. ~InLoop(stack'[n + 1])  BY <1>5 DEF InLoop
  <2>3. Scope[stack'[n + 1].val] \subseteq {frames'[j] : j \in 1..stack'[n + 1].framesAt}
    BY <1>3, <1>5 DEF BlocksTo
  <2>4. stack'[n + 1].framesAt <= stack'[n + 1].freezesAt
    BY <1>5 DEF FramesFrozen
  <2> QED  BY <2>2, <2>3, <2>4 DEF Placed, BlocksTo, InLoop
<1>8. \A i \in 1..(n + 1) : i \in 1..n \/ i = n + 1  BY <1>2
<1>9. \A i \in 1..(n + 1) :
        Placed(stack[i], locals[i], FramesAbove(i), FreezesAbove(i))'
  BY <1>6, <1>7, <1>8
<1> QED  BY <1>4, <1>9 DEF InScope

(* A callback that returns has ended the freezes and frames of its own.    *)
LEMMA TopBalanced ==
  ASSUME BaseInv, stack # <<>>, Top.pc = "evaluate" => Balanced
  PROVE  Len(frames) = Top.framesAt /\ freezes = Top.freezesAt
<1>1. Len(stack) \in DOMAIN stack /\ Top = stack[Len(stack)]
  BY StackSizes, Sizes DEF BaseInv, InterpInv
<1>2. Top.pc # "evaluate" => /\ Top.freezesAt = FreezesAbove(Len(stack))
                             /\ Top.framesAt = FramesAbove(Len(stack))
  BY <1>1 DEF BaseInv, StackInv, StackDiscipline
<1> QED  BY <1>2 DEF Balanced, FreezesAbove, FramesAbove

LEMMA PopInScope ==
  ASSUME BaseInv, InScope, Pops, answer' \in Answer,
         locals' = Hears(SubSeq(locals, 1, Len(locals) - 1), answer')
  PROVE  InScope'
<1>1. /\ InterpInv /\ stack # <<>> /\ UNCHANGED <<frames, freezes>>
      /\ stack' = SubSeq(stack, 1, Len(stack) - 1)
      /\ Top.pc = "evaluate" => Balanced
  BY DEF BaseInv, Pops, scopes
<1> PICK n : n = Len(stack)  OBVIOUS
<1>2. n \in Nat \ {0} /\ Top = stack[n]  BY <1>1, StackSizes
<1>3. /\ Len(stack') = n - 1
      /\ \A i \in 1..(n - 1) :
           /\ stack'[i] = stack[i]
           /\ locals'[i] = IF i = n - 1 THEN [locals[i] EXCEPT !.heard = Append(@, answer')]
                           ELSE locals[i]
  BY <1>1, PoppedFacts
<1>4. Len(frames) = Top.framesAt /\ freezes = Top.freezesAt
  BY <1>1, TopBalanced
<1>5. ASSUME NEW i \in 1..(n - 1)
      PROVE  Placed(stack[i], locals[i], FramesAbove(i), FreezesAbove(i))'
  <2>1. i \in 1..n /\ i + 1 \in 1..n  BY <1>2
  <2>2. FramesAbove(i) = stack[i + 1].framesAt /\ FreezesAbove(i) = stack[i + 1].freezesAt
    BY AboveFacts
  <2>3. FramesAbove(i)' = FramesAbove(i) /\ FreezesAbove(i)' = FreezesAbove(i)
    <3>1. CASE i = n - 1
      <4>1. i + 1 = n  BY <1>2, <3>1
      <4>2. FramesAbove(i)' = Len(frames') /\ FreezesAbove(i)' = freezes'
        BY <1>3, <3>1 DEF FramesAbove, FreezesAbove
      <4> QED  BY <1>1, <1>2, <1>4, <2>2, <4>1, <4>2
    <3>2. CASE i # n - 1
      <4>1. i + 1 \in 1..(n - 1)  BY <1>2, <3>2
      <4>2. /\ FramesAbove(i)' = stack'[i + 1].framesAt
            /\ FreezesAbove(i)' = stack'[i + 1].freezesAt
        BY <1>3, <3>2 DEF FramesAbove, FreezesAbove
      <4> QED  BY <1>3, <2>2, <4>1, <4>2
    <3> QED  BY <3>1, <3>2
  <2>4. Placed(stack[i], locals[i], FramesAbove(i), FreezesAbove(i))
    BY <2>1 DEF InScope
  <2>5. locals[i] \in LocalRecord  BY <2>1, AboveFacts
  <2>6. stack'[i] = stack[i] /\ locals'[i].at = locals[i].at
    BY <1>3, <2>5 DEF LocalRecord
  <2> QED  BY <1>1, <2>1, <2>3, <2>4, <2>6, LowerPlaced
<1> QED  BY <1>3, <1>5 DEF InScope

LEMMA MoveInScope ==
  ASSUME BaseInv, InScope, Moves, SetLocal(Fresh), Visible
  PROVE  InScope'
<1>1. /\ InterpInv /\ TypeInv /\ stack # <<>> /\ UNCHANGED <<frames, freezes>>
      /\ Top.pc = "evaluate" => Balanced
  BY DEF BaseInv, InterpInv, Moves, scopes
<1> PICK r : MovesTo(r)  BY DEF Moves
<1> PICK n : n = Len(stack)  OBVIOUS
<1>2. n \in Nat \ {0} /\ Top = stack[n] /\ Len(locals) = n /\ DOMAIN locals = 1..n
  BY <1>1, StackSizes, LenProperties
<1>3. Len(stack') = n /\ \A i \in 1..(n - 1) : stack'[i] = stack[i]
  BY <1>1, BecomeLength DEF MovesTo
<1>4. stack'[n] = r
  <2>1. DOMAIN stack = 1..n  BY <1>1, TopFacts
  <2>2. n \in 1..n  BY <1>2
  <2> QED  BY <2>1, <2>2 DEF MovesTo, Become
<1>5. /\ locals'[n] = Fresh /\ \A i \in 1..(n - 1) : locals'[i] = locals[i]
  <2>1. \A i \in 1..(n - 1) : i \in 1..n /\ i # n  BY <1>2
  <2>2. n \in 1..n  BY <1>2
  <2> QED  BY <1>2, <2>1, <2>2 DEF SetLocal
<1>6. Len(frames) = Top.framesAt /\ freezes = Top.freezesAt
  BY <1>1, TopBalanced
<1>7. Placed(Top, Local, Len(frames), freezes)  BY <1>1, TopPlaced
<1>8. Placed(stack[Len(stack)], locals[Len(stack)], Len(frames), freezes)'
  <2>1. r.val = Top.val /\ r.framesAt = Top.framesAt /\ r.freezesAt = Top.freezesAt
    BY DEF MovesTo
  <2>2. Scope[r.val] \subseteq {frames'[j] : j \in 1..r.framesAt}
        /\ r.framesAt <= r.freezesAt
    BY <1>1, <1>7, <2>1 DEF Placed, BlocksTo
  <2>3. Fresh.at = "begin" /\ Len(frames') = r.framesAt
    BY <1>1, <1>6, <2>1 DEF Fresh
  <2> QED  BY <1>3, <1>4, <1>5, <2>2, <2>3 DEF Placed, BlocksTo, Iterating
<1> QED
  BY <1>1, <1>2, <1>3, <1>4, <1>5, <1>8, SetInScope DEF MovesTo

(* A loop that goes on: n frames and f freezes are those it goes on with.  *)
LEMMA LoopInScope ==
  ASSUME BaseInv, InScope, Visible, NEW at, InFor(at), UNCHANGED stack,
         NEW l, SetLocal(l), NEW n, n = Len(frames'), NEW f, f = freezes',
         \A j \in 1..Top.framesAt : frames'[j] = frames[j],
         Iterating(l) => Top.freezesAt < f,
         l.at = "body" => n = Top.framesAt + 1 /\ frames'[n] = Body[TopOp],
         l.at # "body" => n = Top.framesAt
  PROVE  InScope'
<1>1. InterpInv /\ stack # <<>>  BY InForFacts DEF BaseInv
<1> PICK m : m = Len(stack)  OBVIOUS
<1>2. m \in Nat \ {0} /\ Top = stack[m] /\ Len(locals) = m /\ DOMAIN locals = 1..m
  BY <1>1, StackSizes, LenProperties
<1>3. locals'[m] = l /\ \A i \in 1..(m - 1) : locals'[i] = locals[i]
  <2>1. \A i \in 1..(m - 1) : i \in 1..m /\ i # m  BY <1>2
  <2>2. m \in 1..m  BY <1>2
  <2> QED  BY <1>2, <2>1, <2>2 DEF SetLocal
<1>4. Placed(Top, Local, Len(frames), freezes)  BY <1>1, TopPlaced
<1>5. /\ Scope[Top.val] \subseteq {frames'[j] : j \in 1..Top.framesAt}
      /\ Top.framesAt <= Top.freezesAt
  BY <1>4 DEF Placed, BlocksTo
<1>6. stack'[m] = Top /\ Len(stack') = m /\ TopOp = Top.val[1]  BY <1>2 DEF TopOp
<1>7. Placed(stack[Len(stack)], locals[Len(stack)], Len(frames), freezes)'
  BY <1>3, <1>5, <1>6 DEF Placed, BlocksTo, Iterating
<1> QED  BY <1>1, <1>2, <1>3, <1>6, <1>7, SetInScope

LEMMA ForInScope ==
  ASSUME BaseInv, InScope, FramesFrozen, Visible,
         ForStarts \/ ForPays \/ ForBinds \/ ForIterates \/ ForThaws
  PROVE  InScope' /\ FramesFrozen'
<1> DEFINE N == Len(frames)
<1>1. ASSUME NEW at, InFor(at)
      PROVE  /\ InterpInv /\ TypeInv /\ stack # <<>> /\ TopOp \in Loops /\ InLoop(Top)
             /\ Local \in LocalRecord /\ Local.at = at
             /\ Top.framesAt \in Nat /\ Top.freezesAt \in Nat /\ N \in Nat
             /\ freezes \in Nat /\ Top.framesAt <= Top.freezesAt
             /\ Iterating(Local) => Top.freezesAt < freezes
             /\ at = "body" => N = Top.framesAt + 1
             /\ at # "body" => N = Top.framesAt
  <2>1. InterpInv /\ TypeInv  BY DEF BaseInv, InterpInv
  <2>2. /\ stack # <<>> /\ TopOp \in Loops /\ InLoop(Top) /\ Local.at = at
        /\ Local \in LocalRecord
    BY <1>1, <2>1, InForFacts
  <2>3. Placed(Top, Local, N, freezes)  BY <2>2, TopPlaced
  <2> QED  BY <2>1, <2>2, <2>3, TopPlaced DEF Placed
<1>2. CASE ForStarts
  <2> PICK l : /\ SetLocal(l) /\ l.at = "head"
    <3>1. \A x, y, z, w : [Fresh EXCEPT !.at = "head", !.iv = x, !.ub = y, !.step = z,
                                        !.carried = w].at = "head"
      BY DEF Fresh
    <3>2. PICK x, y, z, w :
            SetLocal([Fresh EXCEPT !.at = "head", !.iv = x, !.ub = y, !.step = z,
                                   !.carried = w])
      BY <1>2 DEF ForStarts
    <3> WITNESS [Fresh EXCEPT !.at = "head", !.iv = x, !.ub = y, !.step = z, !.carried = w]
    <3> QED  BY <3>1, <3>2
  <2>1. InFor("begin") /\ Freeze  BY <1>2 DEF ForStarts
  <2>2. UNCHANGED <<stack, frames>> /\ freezes' = freezes + 1 /\ freezes = Top.freezesAt
    BY <2>1 DEF Freeze
  <2> PICK n, f : n = Len(frames') /\ f = freezes'  OBVIOUS
  <2>3. n = Top.framesAt /\ Top.freezesAt < f /\ Len(frames') <= freezes'
    BY <1>1, <2>1, <2>2
  <2>4. InScope'
    BY <1>1, <2>1, <2>2, <2>3, LoopInScope
  <2> QED  BY <2>3, <2>4 DEF FramesFrozen
<1>3. CASE ForPays
  <2>1. InFor("head") /\ UNCHANGED <<stack, frames, freezes>>
    BY <1>3 DEF ForPays, DeclareCost, scopes
  <2> PICK l : /\ SetLocal(l) /\ l.at = "paid"
    <3>1. [Local EXCEPT !.at = "paid"].at = "paid"  BY <1>1, <2>1 DEF LocalRecord
    <3> QED  BY <1>3, <3>1 DEF ForPays
  <2> PICK n, f : n = Len(frames') /\ f = freezes'  OBVIOUS
  <2>2. n = Top.framesAt /\ Top.freezesAt < f
    BY <1>1, <2>1 DEF Iterating
  <2>3. InScope'
    BY <1>1, <2>1, <2>2, LoopInScope
  <2> QED  BY <2>1, <2>3 DEF FramesFrozen
<1>4. CASE ForBinds
  <2>1. InFor("paid") /\ Bind(Body[TopOp], <<Completed(Local.iv)>> \o Local.carried)
    BY <1>4 DEF ForBinds
  <2>2. UNCHANGED <<stack, freezes>> /\ frames' = Append(frames, Body[TopOp])
    BY <2>1 DEF Bind
  <2> PICK l : /\ SetLocal(l) /\ l.at = "body"
    <3>1. [Local EXCEPT !.at = "body", !.heard = <<>>].at = "body"
      BY <1>1, <2>1 DEF LocalRecord
    <3> QED  BY <1>4, <3>1 DEF ForBinds
  <2>3. frames \in Seq(Block) /\ Body[TopOp] \in Block
    BY <1>1, <2>1, ProgramFacts DEF TypeInv, TypeOK
  <2>4. /\ Len(frames') = N + 1 /\ frames'[N + 1] = Body[TopOp]
        /\ \A j \in 1..N : frames'[j] = frames[j]
    BY <2>2, <2>3
  <2> PICK n, f : n = Len(frames') /\ f = freezes'  OBVIOUS
  <2>5. N = Top.framesAt /\ Top.freezesAt < f /\ Len(frames') <= freezes'
        /\ n = Top.framesAt + 1
    BY <1>1, <2>1, <2>2, <2>4 DEF Iterating
  <2>6. InScope'
    <3> HIDE DEF N
    <3> QED  BY <1>1, <2>1, <2>2, <2>4, <2>5, LoopInScope
  <2> QED  BY <2>5, <2>6 DEF FramesFrozen
<1>5. CASE ForIterates
  <2>1. InFor("body") /\ Unbind  BY <1>5 DEF ForIterates
  <2>2. UNCHANGED <<stack, freezes>>  BY <2>1 DEF Unbind
  <2>3. /\ Len(frames') = N - 1 /\ \A j \in 1..(N - 1) : frames'[j] = frames[j]
    BY <1>1, <2>1, UnbindShrinks
  <2> PICK l : SetLocal(l) /\ l.at \in {"leaving", "head"}
    <3>1. \A x, y, z : /\ [Local EXCEPT !.at = "leaving", !.results = x].at = "leaving"
                       /\ [Local EXCEPT !.at = "head", !.carried = x, !.heard = y,
                                        !.iv = z].at = "head"
      BY <1>1, <2>1 DEF LocalRecord
    <3>2. \E x, y, z :
            \/ SetLocal([Local EXCEPT !.at = "leaving", !.results = x])
            \/ SetLocal([Local EXCEPT !.at = "head", !.carried = x, !.heard = y, !.iv = z])
      <4>1. CASE Has(Heard, IsSignal)
        BY <1>5, <4>1 DEF ForIterates
      <4>2. CASE ~Has(Heard, IsSignal) /\ Overflows(TopOp, Local.iv, Local.step)
        BY <1>5, <4>2 DEF ForIterates
      <4>3. CASE ~Has(Heard, IsSignal) /\ ~Overflows(TopOp, Local.iv, Local.step)
        BY <1>5, <4>3 DEF ForIterates
      <4> QED  BY <4>1, <4>2, <4>3
    <3> PICK x, y, z :
          \/ SetLocal([Local EXCEPT !.at = "leaving", !.results = x])
          \/ SetLocal([Local EXCEPT !.at = "head", !.carried = x, !.heard = y, !.iv = z])
      BY <3>2
    <3>3. CASE SetLocal([Local EXCEPT !.at = "leaving", !.results = x])
      <4> WITNESS [Local EXCEPT !.at = "leaving", !.results = x]
      <4> QED  BY <3>1, <3>3
    <3>4. CASE SetLocal([Local EXCEPT !.at = "head", !.carried = x, !.heard = y, !.iv = z])
      <4> WITNESS [Local EXCEPT !.at = "head", !.carried = x, !.heard = y, !.iv = z]
      <4> QED  BY <3>1, <3>4
    <3> QED  BY <3>3, <3>4
  <2> PICK n, f : n = Len(frames') /\ f = freezes'  OBVIOUS
  <2>4. N = Top.framesAt + 1 /\ Top.freezesAt < f /\ n = Top.framesAt
        /\ N - 1 = Top.framesAt
    BY <1>1, <2>1, <2>2, <2>3 DEF Iterating
  <2>5. InScope'
    <3> HIDE DEF N
    <3> QED  BY <1>1, <2>1, <2>2, <2>3, <2>4, LoopInScope
  <2>6. Len(frames') <= freezes'  BY <1>1, <2>1, <2>2, <2>3 DEF FramesFrozen
  <2> QED  BY <2>5, <2>6 DEF FramesFrozen
<1>6. CASE ForThaws
  <2>1. UNCHANGED <<stack, frames>> /\ freezes' = freezes - 1 /\ freezes > Top.freezesAt
    BY <1>6 DEF ForThaws, Unfreeze
  <2>2. PICK at : InFor(at) /\ at # "body"  BY <1>6 DEF ForThaws
  <2> PICK l : SetLocal(l) /\ l.at = "done"
    <3>1. \A x : [Local EXCEPT !.at = "done", !.results = x].at = "done"
      BY <1>1, <2>2 DEF LocalRecord
    <3> QED  BY <1>6, <3>1 DEF ForThaws
  <2> PICK n, f : n = Len(frames') /\ f = freezes'  OBVIOUS
  <2>3. n = Top.framesAt /\ Len(frames') <= freezes' /\ ~Iterating(l)
    BY <1>1, <2>1, <2>2 DEF Iterating
  <2>4. InScope'
    BY <1>1, <2>1, <2>2, <2>3, LoopInScope
  <2> QED  BY <2>3, <2>4 DEF FramesFrozen
<1> QED  BY <1>2, <1>3, <1>4, <1>5, <1>6

(* What is memoized anew is in scope of a frame at most its holder.        *)
LEMMA MemoizesScoped ==
  ASSUME TypeInv, MemoScoped, Memoizes,
         \A v \in Value : memo'[v] = memo[v] \/ Scope[v] \subseteq BlocksTo(Len(frames))
  PROVE  MemoScoped'
<1>1. UNCHANGED frames /\ MemoGrows  BY DEF Memoizes
<1>2. \A n : BlocksTo(n)' = BlocksTo(n)  BY <1>1 DEF BlocksTo
<1>3. ASSUME NEW v \in Value, memo'[v] # NotMemoized
      PROVE  Scope[v] \subseteq {frames'[j] : j \in 1..memo'[v].frame}
  <2>1. CASE memo'[v] = memo[v]
    BY <1>1, <1>3, <2>1 DEF MemoScoped, BlocksTo
  <2>2. CASE memo'[v] # memo[v]
    <3>1. memo'[v].frame = Holder(v) /\ Scope[v] \subseteq BlocksTo(Len(frames))
      BY <1>1, <2>2 DEF MemoGrows
    <3>2. /\ Containing(v) \subseteq 1..Len(frames) /\ Holder(v) \in 0..Len(frames)
          /\ \A j \in Containing(v) : j <= Holder(v)
      BY HolderFacts DEF TypeInv, TypeOK
    <3>3. DOMAIN frames = 1..Len(frames)  BY Sizes
    <3>4. ASSUME NEW b \in Scope[v]
          PROVE  b \in {frames[j] : j \in 1..Holder(v)}
      <4>1. PICK j \in 1..Len(frames) : b = frames[j]  BY <3>1 DEF BlocksTo
      <4>2. j \in Containing(v)  BY <3>3, <4>1 DEF Containing
      <4>3. j \in 1..Holder(v)  BY <3>2, <4>2
      <4> QED  BY <4>1, <4>3
    <3> QED  BY <1>1, <3>1, <3>4
  <2> QED  BY <2>1, <2>2
<1> QED  BY <1>3 DEF MemoScoped, BlocksTo

LEMMA UnbindScoped ==
  ASSUME TypeInv, MemoHeld, MemoScoped, Unbind
  PROVE  MemoScoped'
<1> PICK n : n = Len(frames)  OBVIOUS
<1>1. n \in Nat \ {0} /\ \A j \in 1..(n - 1) : frames'[j] = frames[j]
  BY UnbindShrinks
<1>2. ASSUME NEW v \in Value, memo'[v] # NotMemoized
      PROVE  Scope[v] \subseteq {frames'[j] : j \in 1..memo'[v].frame}
  <2>1. memo'[v] = memo[v] /\ memo[v] # NotMemoized /\ memo[v].frame # n
    BY <1>2 DEF Unbind, ForgetIteration, Forgets
  <2>2. memo[v].frame \in Nat /\ memo[v].frame <= n
    <3>1. memo[v] \in Memo  BY <2>1 DEF TypeInv, TypeOK
    <3> QED  BY <3>1 DEF Memo, MemoHeld
  <2>3. \A j \in 1..memo[v].frame : frames'[j] = frames[j]
    BY <1>1, <2>1, <2>2
  <2> QED  BY <2>1, <2>3 DEF MemoScoped, BlocksTo
<1> QED  BY <1>2 DEF MemoScoped, BlocksTo

LEMMA BindScoped ==
  ASSUME TypeInv, MemoHeld, MemoScoped, NEW b \in Block, NEW args, Bind(b, args)
  PROVE  MemoScoped'
<1> PICK n : n = Len(frames)  OBVIOUS
<1>1. n \in Nat /\ frames \in Seq(Block)  BY Sizes DEF TypeInv, TypeOK
<1>2. frames' = Append(frames, b) /\ UNCHANGED memo  BY DEF Bind
<1>3. \A j \in 1..n : frames'[j] = frames[j]  BY <1>1, <1>2
<1>4. ASSUME NEW v \in Value, memo'[v] # NotMemoized
      PROVE  Scope[v] \subseteq {frames'[j] : j \in 1..memo'[v].frame}
  <2>1. memo[v] \in Memo  BY <1>2, <1>4 DEF TypeInv, TypeOK
  <2>2. memo[v].frame \in Nat /\ memo[v].frame <= n  BY <2>1 DEF Memo, MemoHeld
  <2>3. \A j \in 1..memo[v].frame : frames'[j] = frames[j]  BY <1>1, <1>3, <2>2
  <2> QED  BY <1>2, <1>4, <2>3 DEF MemoScoped, BlocksTo
<1> QED  BY <1>4 DEF MemoScoped, BlocksTo

LEMMA MemoScopedStep ==
  ASSUME BaseInv, ScopedInv, Visible, HashesToKeys, INext
  PROVE  MemoScoped'
<1>0. /\ InterpInv /\ TypeInv /\ MemoHeld /\ MemoScoped /\ InScope /\ EntriesTop
      /\ [Next]_vars
  BY InterpStep DEF BaseInv, InterpInv, ScopeInv, ScopedInv
<1>1. CASE HostStep
  <2>1. CASE EndQuery
    BY <2>1 DEF EndQuery, MemoScoped, BlocksTo
  <2>2. CASE UNCHANGED <<memo, frames>>
    BY <1>0, <2>2 DEF MemoScoped, BlocksTo
  <2> QED  BY <1>1, <2>1, <2>2 DEF HostStep, Host, Query, ClearCache, scopes
<1>2. CASE AskStep
  <2>1. PICK v : v \in Wants /\ Ask(v)  BY <1>2 DEF AskStep
  <2>2. stack # <<>> /\ v \in Value /\ UNCHANGED <<frames, bindings>>
    BY <1>0, <1>2, <2>1, AskedValue
    DEF AskStep, InCallback, Ask, QueryMemoized, QueryLeaf, QueryCycle, QueryEnter, scopes
  <2>3. Scope[v] \subseteq BlocksTo(Len(frames))
    BY <1>0, <2>1, <2>2, WantsInScope
  <2>4. CASE QueryLeaf(v)
    <3>1. MemoizeAll([x \in {v} |-> LeafAnswer(v)])  BY <2>4 DEF QueryLeaf
    <3>2. Memoizes  BY <2>2, <3>1, MemoizeAllGrows DEF Memoizes
    <3>3. \A w \in Value : memo'[w] = memo[w] \/ w = v  BY <3>1 DEF MemoizeAll
    <3> QED  BY <1>0, <2>3, <3>2, <3>3, MemoizesScoped
  <2>5. CASE UNCHANGED memo
    BY <1>0, <2>2, <2>5 DEF MemoScoped, BlocksTo
  <2> QED
    BY <2>1, <2>4, <2>5 DEF Ask, QueryMemoized, QueryCycle, QueryEnter
<1>3. ASSUME CallbackReturn \/ Internal PROVE MemoScoped'
  <2>1. OthersKept /\ stack # <<>>  BY <1>0, <1>3, ReturnKeepsOthers, ReturnAnswers
  <2>2. Memoizes
    <3>1. Memoizes \/ EndQuery \/ Unbind \/ Binds  BY <1>0, MemoKinds
    <3>2. UNCHANGED <<frames, bindings>>
      BY <1>3 DEF CallbackReturn, Internal, Eligible, CompareReturn, HashReturn,
         KeySignal, SearchMiss, SearchOwn, SearchSkip, SearchCompare, Charge,
         SearchEnds, EvaluateReturn, scopes
    <3>3. ~EndQuery  BY <2>1 DEF EndQuery
    <3>4. ~Unbind
      BY <1>0, <3>2, UnbindShrinks
    <3>5. ~Binds
      <4> SUFFICES ASSUME NEW b \in Block, NEW args, Bind(b, args) PROVE FALSE
        BY DEF Binds
      <4>1. frames' = Append(frames, b) /\ frames \in Seq(Block)
        BY <1>0 DEF Bind, TypeInv, TypeOK
      <4>2. Len(frames') = Len(frames) + 1 /\ Len(frames) \in Nat  BY <4>1
      <4> QED  BY <3>2, <4>2
    <3> QED  BY <3>1, <3>3, <3>4, <3>5
  <2>3. \A v \in Value : memo'[v] = memo[v] \/ Scope[v] \subseteq BlocksTo(Len(frames))
    <3> SUFFICES ASSUME NEW v \in Result, v[1] = TopOp
                 PROVE  Scope[v] \subseteq BlocksTo(Len(frames))
      BY <2>1 DEF OthersKept
    <3>1. v = <<TopOp, v[2]>> /\ v[2] \in 1..Arity[TopOp]  BY ValueFacts
    <3>2. Scope[v] = Scope[Top.val]  BY <1>0, <2>1, <3>1, TopPlaced
    <3>3. Scope[Top.val] \subseteq BlocksTo(Top.framesAt)
      BY <1>0, <2>1, TopPlaced DEF Placed
    <3> QED  BY <1>0, <2>1, <3>2, <3>3, TopPlaced, BlocksGrow
  <2> QED  BY <1>0, <2>2, <2>3, MemoizesScoped
<1>4. CASE CallbackStep  BY <1>0, <1>3, <1>4, CallbackReturns
<1>5. CASE ForStep
  <2>1. CASE ForRefused \/ ForReturns  BY <1>0, <1>3, <2>1, ForCallbackReturns
  <2>2. CASE ForStarts \/ ForPays \/ ForThaws
    <3>1. UNCHANGED <<memo, frames>>
      BY <2>2 DEF ForStarts, ForPays, ForThaws, Freeze, Unfreeze, DeclareCost, scopes
    <3> QED  BY <1>0, <3>1 DEF MemoScoped, BlocksTo
  <2>3. CASE ForBinds
    <3>1. TopOp \in Loops  BY <2>3 DEF ForBinds, InFor
    <3>2. Body[TopOp] \in Block  BY <3>1, ProgramFacts
    <3> QED  BY <1>0, <2>3, <3>2, BindScoped DEF ForBinds
  <2>4. CASE ForIterates  BY <1>0, <2>4, UnbindScoped DEF ForIterates
  <2> QED  BY <1>5, <2>1, <2>2, <2>3, <2>4 DEF ForStep
<1> QED  BY <1>1, <1>2, <1>4, <1>5 DEF INext, EngineStep

(* Nothing is stored while a block is bound.                               *)
LEMMA EntriesTopStep ==
  ASSUME BaseInv, ScopedInv, Visible, [Next]_vars
  PROVE  EntriesTop'
<1>0. TypeInv /\ EntriesTop /\ InScope /\ StackInv
  BY DEF BaseInv, InterpInv, ScopedInv
<1>1. CASE entries' = entries  BY <1>0, <1>1 DEF EntriesTop
<1>2. CASE Fills  BY <1>0, <1>2 DEF EntriesTop, Fills, Extends
<1>3. CASE ClearCache
  BY <1>3 DEF ClearCache, EntriesTop
<1>4. CASE Adds
  <2>1. stack # <<>> /\ Top.key \in Key  BY <1>4 DEF Adds
  <2>2. PICK e \in Entry : /\ e.op = TopOp
                           /\ entries' = [entries EXCEPT ![Top.key] = Append(@, e)]
    BY <1>4 DEF Adds
  <2>3. entries[Top.key] \in Seq(Entry)  BY <1>0, <2>1 DEF TypeInv, TypeOK
  <2>4. CASE freezes > 0  BY <1>0, <1>1, <2>4, FrozenStep
  <2>5. CASE freezes = 0
    <3>1. /\ Top.framesAt <= Top.freezesAt /\ Scope[Top.val] \subseteq BlocksTo(Top.framesAt)
      BY <1>0, <2>1, TopPlaced DEF Placed
    <3>2. Top.framesAt = 0  BY <1>0, <2>1, <2>5, <3>1, TopPlaced
    <3>3. Scope[<<e.op, 1>>] = {}
      <4>1. BlocksTo(0) = {}  BY DEF BlocksTo
      <4> QED  BY <1>0, <2>1, <2>2, <3>1, <3>2, <4>1, TopPlaced
    <3>4. ASSUME NEW k \in Key, NEW n \in DOMAIN entries'[k]
          PROVE  Scope[<<entries'[k][n].op, 1>>] = {}
      <4>1. CASE k # Top.key
        <5>1. entries'[k] = entries[k]  BY <2>2, <4>1 DEF TypeInv, TypeOK
        <5> QED  BY <1>0, <5>1 DEF EntriesTop
      <4>2. CASE k = Top.key
        <5>1. entries'[k] = Append(entries[k], e)
          BY <1>0, <2>1, <2>2, <4>2 DEF TypeInv, TypeOK
        <5>2. \/ n \in DOMAIN entries[k] /\ entries'[k][n] = entries[k][n]
              \/ entries'[k][n] = e
          BY <2>3, <4>2, <5>1
        <5> QED  BY <1>0, <3>3, <5>2 DEF EntriesTop
      <4> QED  BY <4>1, <4>2
    <3> QED  BY <3>4 DEF EntriesTop
  <2> QED  BY <1>0, <2>1, <2>4, <2>5, TopPlaced
<1> QED  BY <1>0, <1>1, <1>2, <1>3, <1>4, EntryKinds

LEMMA HostInScope ==
  ASSUME BaseInv, ScopedInv, Visible, TopLevel', HostStep
  PROVE  InScope' /\ FramesFrozen'
<1>1. /\ InterpInv /\ TypeInv /\ stack = <<>> /\ InScope /\ FramesFrozen
      /\ UNCHANGED scopes
  <2>1. stack = <<>>
    BY DEF HostStep, Host, Query, EndQuery, ClearCache, BaseInv, InterpInv, TypeInv, Idle
  <2>2. UNCHANGED scopes  BY DEF HostStep, Host, Query, EndQuery, ClearCache
  <2> QED  BY <2>1, <2>2 DEF BaseInv, InterpInv, ScopedInv
<1>2. FramesFrozen'  BY <1>1 DEF FramesFrozen, scopes
<1>3. ASSUME stack' = <<>> PROVE InScope'
  <2>1. \A i \in 1..0 : FALSE  OBVIOUS
  <2>2. Len(stack') = 0  BY <1>3
  <2> QED  BY <2>1, <2>2 DEF InScope
<1>4. ASSUME NEW v \in Result, NEW b, Query(v, b), Activate(v), stack' # <<>>
      PROVE  InScope'
  <2>1. locals' = Append(locals, Fresh)
    <3>1. locals = <<>>
      <4>1. Len(locals) = 0 /\ locals \in Seq(LocalRecord)
        BY <1>1 DEF InterpInv, LocalsInv
      <4> QED  BY <4>1, EmptySeq
    <3>2. locals' = <<Fresh>>  BY <1>4 DEF HostStep
    <3> QED  BY <3>1, <3>2
  <2>2. Scope[v] = {}  BY <1>4 DEF Query, TopLevel
  <2> QED  BY <1>1, <1>4, <2>1, <2>2, PushInScope
<1>5. stack' = <<>> \/ \E v \in Result, b \in Budgets : Query(v, b) /\ Activate(v)
  BY <1>1 DEF HostStep, Host, Query, EndQuery, ClearCache
<1> QED  BY <1>2, <1>3, <1>4, <1>5

LEMMA HearsKeepsAt ==
  ASSUME InterpInv, stack # <<>>, NEW a \in Answer, locals' = Hears(locals, a)
  PROVE  \A i \in 1..Len(stack) : locals'[i].at = locals[i].at
<1>1. \A i \in 1..Len(stack) :
        locals'[i] = IF i = Len(stack) THEN [locals[i] EXCEPT !.heard = Append(@, a)]
                     ELSE locals[i]
  BY HearFacts
<1>2. \A i \in 1..Len(stack) : locals[i] \in LocalRecord
  BY DEF InterpInv, LocalsInv
<1> QED  BY <1>1, <1>2 DEF LocalRecord

LEMMA AskInScope ==
  ASSUME BaseInv, ScopedInv, Visible, AskStep
  PROVE  InScope' /\ FramesFrozen'
<1>0. /\ InterpInv /\ TypeInv /\ StackInv /\ InScope /\ EntriesTop /\ FramesFrozen
  BY DEF BaseInv, InterpInv, ScopedInv
<1>1. PICK v : v \in Wants /\ Ask(v)  BY DEF AskStep
<1>2. /\ stack # <<>> /\ AskLocals /\ v \in Value /\ UNCHANGED scopes
  BY <1>0, <1>1, AskedValue
  DEF AskStep, InCallback, Ask, QueryMemoized, QueryLeaf, QueryCycle, QueryEnter
<1>3. FramesFrozen'  BY <1>0, <1>2 DEF FramesFrozen, scopes
<1>4. Len(stack) \in Nat  BY AboveFacts
<1>5. ASSUME UNCHANGED stack, answer' \in Answer PROVE InScope'
  <2>1. locals' = Hears(locals, answer')  BY <1>2, <1>4, <1>5 DEF AskLocals
  <2>2. \A i \in 1..Len(stack) : locals'[i].at = locals[i].at
    BY <1>0, <1>2, <1>5, <2>1, HearsKeepsAt
  <2> QED  BY <1>0, <1>2, <1>5, <2>2, HearInScope
<1>6. CASE QueryEnter(v)
  <2>1. v \in Result /\ Activate(v)  BY <1>6 DEF QueryEnter
  <2>2. Len(stack') = Len(stack) + 1  BY <1>0, <2>1, PushFacts
  <2>3. locals' = Append(locals, Fresh)  BY <1>2, <1>4, <2>2 DEF AskLocals
  <2>4. Scope[v] \subseteq BlocksTo(Len(frames))  BY <1>0, <1>1, <1>2, WantsInScope
  <2> QED  BY <1>0, <1>2, <1>3, <2>1, <2>3, <2>4, PushInScope
<1>7. CASE QueryMemoized(v) \/ QueryLeaf(v) \/ QueryCycle(v)
  <2>1. UNCHANGED stack  BY <1>7 DEF QueryMemoized, QueryLeaf, QueryCycle
  <2>2. answer' \in Answer
    <3>1. CASE QueryMemoized(v)
      <4>1. memo[v] \in Memo  BY <1>0, <1>2, <3>1 DEF QueryMemoized, TypeInv, TypeOK
      <4> QED  BY <3>1, <4>1, AnswerFacts DEF QueryMemoized, Memo
    <3>2. CASE QueryLeaf(v)
      BY <1>0, <1>2, <3>2, LeafType, AnswerFacts DEF QueryLeaf
    <3>3. CASE QueryCycle(v)
      BY <3>3, AnswerFacts, AnswerAssumption DEF QueryCycle, Reenters
    <3> QED  BY <1>7, <3>1, <3>2, <3>3
  <2> QED  BY <1>3, <1>5, <2>1, <2>2
<1> QED  BY <1>1, <1>6, <1>7 DEF Ask

(* A callback that returns, and one that goes on.                          *)
LEMMA ReturnInScope ==
  ASSUME BaseInv, ScopedInv, Visible, TypeInv', CallbackReturn \/ Internal, NextLocals
  PROVE  InScope' /\ FramesFrozen'
<1>0. /\ InterpInv /\ TypeInv /\ InScope /\ FramesFrozen
  BY DEF BaseInv, InterpInv, ScopedInv
<1>1. /\ stack # <<>> /\ (Pops \/ Moves)
      /\ stack' = SubSeq(stack, 1, Len(stack) - 1) => answer' # NoAnswer
  BY <1>0, ReturnAnswers
<1>2. FramesFrozen'  BY <1>0, <1>1 DEF FramesFrozen, Pops, Moves, scopes
<1>3. Len(stack) \in Nat  BY AboveFacts
<1>4. CASE Pops
  <2>1. stack' = SubSeq(stack, 1, Len(stack) - 1)  BY <1>4 DEF Pops
  <2>2. answer' \in Answer  BY <1>1, <2>1 DEF TypeInv, TypeOK
  <2>3. Len(stack') = Len(stack) - 1  BY <1>0, <1>1, <2>1, PopFacts
  <2>4. locals' = Hears(SubSeq(locals, 1, Len(locals) - 1), answer')
    BY <1>3, <2>3 DEF NextLocals
  <2> QED  BY <1>0, <1>2, <1>4, <2>2, <2>4, PopInScope
<1>5. CASE Moves
  <2>1. PICK r : Become(r)  BY <1>5 DEF Moves, MovesTo
  <2>2. Len(stack') = Len(stack)  BY <1>0, <1>1, <2>1, BecomeLength
  <2>3. SetLocal(Fresh)  BY <1>3, <2>2 DEF NextLocals
  <2> QED  BY <1>0, <1>2, <1>5, <2>3, MoveInScope
<1> QED  BY <1>1, <1>4, <1>5

LEMMA ScopedStep ==
  ASSUME BaseInv, ScopedInv, Visible, HashesToKeys, TopLevel', [INext]_ivars
  PROVE  ScopedInv'
<1>0. InterpInv /\ TypeInv /\ [Next]_vars /\ TypeInv'
  BY InterpStep DEF BaseInv, InterpInv
<1>1. CASE UNCHANGED ivars
  <2>1. UNCHANGED <<stack, locals, frames, freezes, memo, entries>>
    BY <1>1 DEF ivars, vars, scopes, cache
  <2>2. \A i : FramesAbove(i)' = FramesAbove(i) /\ FreezesAbove(i)' = FreezesAbove(i)
    BY <2>1 DEF FramesAbove, FreezesAbove
  <2>3. InScope'
    BY <2>1, <2>2 DEF ScopedInv, InScope, Placed, BlocksTo
  <2> QED
    BY <2>1, <2>3 DEF ScopedInv, MemoScoped, EntriesTop, FramesFrozen, BlocksTo
<1>2. CASE INext
  <2>1. InScope' /\ FramesFrozen'
    <3>1. CASE HostStep  BY <3>1, HostInScope
    <3>2. CASE AskStep  BY <3>2, AskInScope
    <3>3. CASE CallbackStep
      BY <1>0, <3>3, CallbackReturns, ReturnInScope DEF CallbackStep
    <3>4. CASE ForRefused \/ ForReturns
      BY <1>0, <3>4, ForCallbackReturns, ReturnInScope
    <3>5. CASE ForStarts \/ ForPays \/ ForBinds \/ ForIterates \/ ForThaws
      BY <3>5, ForInScope DEF ScopedInv
    <3> QED  BY <1>2, <3>1, <3>2, <3>3, <3>4, <3>5 DEF INext, EngineStep, ForStep
  <2> QED  BY <1>0, <1>2, <2>1, MemoScopedStep, EntriesTopStep DEF ScopedInv
<1> QED  BY <1>1, <1>2

LEMMA ScopedInit ==
  ASSUME IInit
  PROVE  ScopedInv
<1>1. stack = <<>> /\ frames = <<>> /\ freezes = 0
      /\ memo = [v \in Value |-> NotMemoized] /\ entries = [k \in Key |-> <<>>]
  BY DEF IInit, Init
<1>2. Len(<<>>) = 0 /\ DOMAIN <<>> = {}  OBVIOUS
<1> QED  BY <1>1, <1>2 DEF ScopedInv, InScope, MemoScoped, EntriesTop, FramesFrozen

LEMMA BaseInvariant ==
  ASSUME HashesToKeys
  PROVE  ISpec => []BaseInv
<1>1. ISpec => IsEngine  BY OperationsKeepToEngine
<1> QED  BY <1>1, LocalsFollowStack, StackFollows, ScopeInvariant, PTL DEF IsEngine, BaseInv

LEMMA ScopedInvariant ==
  ASSUME HashesToKeys, Visible
  PROVE  ISpec /\ []TopLevel => []ScopedInv
<1>1. IInit => ScopedInv  BY ScopedInit
<1>2. BaseInv /\ ScopedInv /\ TopLevel' /\ [INext]_ivars => ScopedInv'
  BY ScopedStep
<1> QED  BY <1>1, <1>2, BaseInvariant, PTL DEF ISpec

-----------------------------------------------------------------------------
(* What the activations hold is right: a completed answer is what the value*)
(* it answers for means under the current bindings.                        *)

Grounded == Meaningful /\ ScopeDecides /\ Visible /\ AlikeMeansEqual

Right(v, a, env) == a \in CompletedAnswer => a = Completed(Denote(v, env))
AllRight(answers, vs, env) ==
  \A j \in DOMAIN answers : j \in DOMAIN vs /\ Right(vs[j], answers[j], env)

ResultsOf(o) == [i \in 1..Arity[o] |-> <<o, i>>]
SameResults(o, p, env) ==
  /\ Arity[o] = Arity[p]
  /\ \A i \in 1..Arity[o] : Denote(<<o, i>>, env) = Denote(<<p, i>>, env)

ComparedRight(o, p, heard, env) ==
  IF o \in Loops THEN /\ heard # <<>> => <<o, p>> \in Alike
                      /\ AllRight(heard, LoopQueries(o, p), env)
  ELSE /\ AllRight(OwnHeard(o, heard), Operands[o], env)
       /\ AllRight(OtherHeard(o, heard), Operands[p], env)

(* The loop o is in its iteration k, or before it.                         *)
LoopAt(o, l, k, env) ==
  /\ AsInt(o, l.iv) = InductionVariable(Denotes, o, env, k)
  /\ l.carried = [i \in 1..Arity[o] |-> Completed(After(Denotes, o, env)[k][i])]
  /\ l.at \in {"paid", "body"} => k < Trips(Denotes, o, env)
  /\ l.at = "body" => env = InBody(o, env, l.iv, After(Denotes, o, env)[k])
LoopRight(o, l, env) ==
  /\ OperandsKnown(Denotes, o, env) /\ Stride(Denotes, o, env) > 0
  /\ AsInt(o, l.step) = Stride(Denotes, o, env)
  /\ AsInt(o, l.ub) = Upper(Denotes, o, env)
  /\ \E k \in 0..Trips(Denotes, o, env) : LoopAt(o, l, k, env)

EntryRight(r, env) ==
  r.entry # 0 => SameResults(r.val[1], entries[r.key][r.entry].op, env)
ComparesRight(r, l, env) ==
  r.pc = "compare" =>
    ComparedRight(r.val[1], entries[r.key][r.next].op, l.heard, env)
OperandsRight(r, l, env) ==
  r.pc # "compare" /\ (InLoop(r) => l.at = "begin") =>
    AllRight(l.heard, Operands[r.val[1]], env)
ForRight(r, l, env) ==
  InLoop(r) =>
    /\ Iterating(l) => LoopRight(r.val[1], l, env)
    /\ l.at = "body" => AllRight(l.heard, Yields[r.val[1]], env)
    /\ Leaving(l) => AllRight(l.results, ResultsOf(r.val[1]), env)
HoldsRight(r, l, env) ==
  /\ AllRight(r.results, ResultsOf(r.val[1]), env) /\ EntryRight(r, env)
  /\ ComparesRight(r, l, env) /\ OperandsRight(r, l, env) /\ ForRight(r, l, env)

(* The right answer to v is one the callback may hear.                     *)
Expects(r, l, v, env) ==
  \A a \in Answer :
    Right(v, a, env) => HoldsRight(r, [l EXCEPT !.heard = Append(@, a)], env)

StackRight ==
  \A i \in 1..Len(stack) :
    /\ HoldsRight(stack[i], locals[i], bindings)
    /\ i # Len(stack) => Expects(stack[i], locals[i], stack[i + 1].val, bindings)
AnswerRight == Answered => Right(asked, answer, bindings)
RightInv == StackRight /\ MemoSound /\ CacheSound /\ AnswerRight

LEMMA RightFacts ==
  /\ \A v, env : \A s \in Signal : Right(v, Signaled(s), env)
  /\ \A v, a, env : IsSignal(a) => Right(v, a, env)
  /\ \A v, env : Right(v, Completed(Denote(v, env)), env)
  /\ \A vs, env : AllRight(<<>>, vs, env)
<1>1. \A a : IsSignal(a) => a \notin CompletedAnswer
  BY AnswerFacts DEF IsSignal
<1>2. \A s \in Signal : IsSignal(Signaled(s))
  BY AnswerAssumption DEF IsSignal, Signaled
<1> QED  BY <1>1, <1>2 DEF Right, AllRight

LEMMA MeaningFacts ==
  ASSUME Meaningful
  PROVE  /\ \A v \in Value, env \in Environment :
              /\ Denote(v, env) \in Denoted
              /\ Completed(Denote(v, env)) \in CompletedAnswer
              /\ Completed(Denote(v, env)).value = Denote(v, env)
         /\ \A o \in Op, env \in Environment : Defined(Denotes, o, env)
         /\ Denotes \in Meanings
<1>1. \A v \in Value, env \in Environment : Denote(v, env) \in Denoted
  BY DEF Meaningful, Meanings, Questions, Denote
<1> QED  BY <1>1, CompletedFacts, MeaningsDefine DEF Meaningful

LEMMA RightValue ==
  ASSUME Meaningful, NEW v \in Value, NEW env \in Environment, NEW a \in Answer,
         Right(v, a, env), ~IsSignal(a)
  PROVE  /\ a = Completed(Denote(v, env)) /\ a.value = Denote(v, env)
         /\ IsUnknown(a) <=> Denote(v, env) = Null
<1>1. a \in CompletedAnswer  BY AnswerFacts DEF IsSignal
<1>2. a = Completed(Denote(v, env)) /\ a.value = Denote(v, env)
  BY <1>1, MeaningFacts DEF Right
<1> QED  BY <1>2 DEF IsUnknown, Unknown, Completed

LEMMA AppendRight ==
  ASSUME NEW h \in Seq(Answer), NEW vs, NEW env, NEW v, NEW a \in Answer,
         AllRight(h, vs, env), NextOf(v, vs, h), Right(v, a, env)
  PROVE  AllRight(Append(h, a), vs, env)
<1>1. \A j \in DOMAIN Append(h, a) :
        \/ j = Len(h) + 1 /\ Append(h, a)[j] = a
        \/ j \in DOMAIN h /\ Append(h, a)[j] = h[j]
  BY AppendElements
<1> QED  BY <1>1 DEF AllRight, NextOf

(* What a result means, by its operation.                                  *)
LEMMA DenoteResult ==
  ASSUME Meaningful, NEW o \in Op, NEW i \in 1..Arity[o], NEW env \in Environment
  PROVE  Denote(<<o, i>>, env) =
           IF o \in Loops THEN DenoteFor(Denotes, o, env)[i]
           ELSE DenoteBinary(Kind[o], Denote(Operands[o][1], env),
                             Denote(Operands[o][2], env))
<1>1. <<o, i>> \in Value  BY ValueFacts
<1>2. Denote(<<o, i>>, env) = DenoteIn(Denotes, <<o, i>>, env)
  BY <1>1 DEF Meaningful
<1> QED  BY <1>2, ResultMeaning DEF DenoteOperand, Denote

-----------------------------------------------------------------------------
(* Values with no operation, and integer operations.                       *)

LEMMA LeafRight ==
  ASSUME TypeInv, ConstantsFold, Meaningful, NEW v \in Value, v \notin Result
  PROVE  LeafAnswer(v) = Completed(Denote(v, bindings))
<1>1. bindings \in Environment  BY DEF TypeInv, TypeOK, Environment
<1>2. Denote(v, bindings) = DenoteIn(Denotes, v, bindings)
  BY <1>1 DEF Meaningful
<1>3. CASE v \in Arg
  <2>1. v \notin Plain /\ v \notin Constant /\ ~HasConstant(v)
    BY <1>3, KindAssumption DEF HasConstant
  <2>2. Denote(v, bindings) = bindings[v].value
    BY <1>2, <1>3, <2>1 DEF DenoteIn
  <2>3. LeafAnswer(v) = IF bindings[v] = NoAnswer THEN Unknown ELSE bindings[v]
    BY <1>3, <2>1 DEF LeafAnswer
  <2>4. bindings[v] \in CompletedAnswer \cup {NoAnswer}
    BY <1>3 DEF TypeInv, TypeOK
  <2>5. NoAnswer.value = Null  BY DEF NoAnswer
  <2> QED  BY <2>2, <2>3, <2>4, <2>5, CompletedFacts DEF Unknown
<1>4. CASE v \in Plain
  <2>1. v \notin Arg /\ v \notin Constant /\ ~HasConstant(v)
    BY <1>4, KindAssumption DEF HasConstant
  <2>2. Denote(v, bindings) = Null  BY <1>2, <1>4, <2>1 DEF DenoteIn
  <2>3. LeafAnswer(v) = Unknown  BY <2>1 DEF LeafAnswer
  <2> QED  BY <2>2, <2>3 DEF Unknown
<1>5. CASE v \in Constant
  <2>1. v \notin Arg /\ v \notin Plain  BY <1>5, KindAssumption
  <2>2. Denote(v, bindings) = IF AttrOf[v] = Null THEN Null ELSE AttrValue[AttrOf[v]]
    BY <1>2, <1>5, <2>1 DEF DenoteIn
  <2>3. CASE HasConstant(v)
    <3>1. LeafAnswer(v) = FoldsTo(v)  BY <2>3, FoldFacts
    <3> QED  BY <2>2, <2>3, <3>1 DEF HasConstant, FoldsTo
  <2>4. CASE ~HasConstant(v)
    <3>1. LeafAnswer(v) = Unknown  BY <2>1, <2>4 DEF LeafAnswer
    <3>2. AttrOf[v] = Null  BY <1>5, <2>4 DEF HasConstant
    <3> QED  BY <2>2, <3>1, <3>2 DEF Unknown
  <2> QED  BY <2>3, <2>4
<1> QED  BY <1>3, <1>4, <1>5 DEF Value

LEMMA BinaryMeans ==
  ASSUME NEW k \in {"addi", "subi", "muli"}, NEW x, NEW y
  PROVE  /\ k = "muli" /\ (x = 0 \/ y = 0) => DenoteBinary(k, x, y) = 0
         /\ Null \in {x, y} /\ ~(k = "muli" /\ (x = 0 \/ y = 0)) =>
              DenoteBinary(k, x, y) = Null
         /\ Null \notin {x, y} /\ ~(k = "muli" /\ (x = 0 \/ y = 0)) =>
              DenoteBinary(k, x, y) = CASE k = "addi" -> (x + y) % 2^Width
                                        [] k = "subi" -> (x - y) % 2^Width
                                        [] k = "muli" -> (x * y) % 2^Width
  BY DEF DenoteBinary

LEMMA BinaryRight ==
  ASSUME Meaningful, NEW o \in Op \ Loops, NEW h \in Seq(Answer),
         NEW env \in Environment, AllRight(h, Operands[o], env),
         ~BinaryPending(o, h), ~Has(h, IsSignal)
  PROVE  BinaryResult(o, h) = Completed(Denote(<<o, 1>>, env))
<1> PICK x, y : x = Denote(Operands[o][1], env) /\ y = Denote(Operands[o][2], env)
  OBVIOUS
<1>1. /\ DOMAIN Operands[o] = 1..2 /\ Arity[o] = 1
      /\ Operands[o][1] \in Value /\ Operands[o][2] \in Value
      /\ Kind[o] \in {"addi", "subi", "muli"}
  BY OperandFacts, InterpAssumption DEF Loops
<1>2. Denote(<<o, 1>>, env) = DenoteBinary(Kind[o], x, y)
  BY <1>1, DenoteResult
<1>3. /\ Len(h) \in Nat /\ DOMAIN h = 1..Len(h)
      /\ \A j \in 1..Len(h) : h[j] \in Answer /\ ~IsSignal(h[j])
  BY HeardFacts DEF Has
<1>4. \A j \in DOMAIN h : /\ j = 1 \/ j = 2
                          /\ j = 1 => h[j] = Completed(x) /\ (IsUnknown(h[j]) <=> x = Null)
                                      /\ h[j].value = x
                          /\ j = 2 => h[j] = Completed(y) /\ (IsUnknown(h[j]) <=> y = Null)
                                      /\ h[j].value = y
  <2> TAKE j \in DOMAIN h
  <2>1. j \in 1..2 /\ Right(Operands[o][j], h[j], env)  BY <1>1 DEF AllRight
  <2>2. Operands[o][j] \in Value  BY <1>1, <2>1
  <2>3. h[j] \in Answer /\ ~IsSignal(h[j])  BY <1>3
  <2> QED  BY <2>1, <2>2, <2>3, RightValue
<1>5. h # <<>> /\ (Len(h) = 1 => Decides(o, h[1]))  BY DEF BinaryPending
<1>6. 1 \in DOMAIN h
  <2>1. Len(h) # 0  BY <1>5, EmptySeq
  <2> QED  BY <1>3, <2>1
<1>7. \A j \in DOMAIN h : IsZero(h[j]) <=> (j = 1 /\ x = 0) \/ (j = 2 /\ y = 0)
  BY <1>4 DEF IsZero, Completed
<1>8. ~Decides(o, h[1]) => 2 \in DOMAIN h
  BY <1>3, <1>5, <1>6
<1>9. CASE IsProduct(o) /\ Has(h, IsZero)
  <2>1. BinaryResult(o, h) = Completed(0)  BY <1>9 DEF BinaryResult
  <2>2. Kind[o] = "muli" /\ (x = 0 \/ y = 0)  BY <1>7, <1>9 DEF IsProduct, Has
  <2> QED  BY <1>1, <1>2, <2>1, <2>2, BinaryMeans
<1>10. ASSUME ~(IsProduct(o) /\ Has(h, IsZero))
       PROVE  ~(Kind[o] = "muli" /\ (x = 0 \/ y = 0))
  <2> SUFFICES ASSUME IsProduct(o), x = 0 \/ y = 0 PROVE FALSE
    BY DEF IsProduct
  <2>1. \A j \in DOMAIN h : ~IsZero(h[j])  BY <1>10 DEF Has
  <2>2. ~Decides(o, h[1])  BY <1>3, <1>6, <2>1 DEF Decides
  <2> QED  BY <1>6, <1>7, <1>8, <2>1, <2>2
<1>11. CASE Has(h, IsUnknown) /\ ~(IsProduct(o) /\ Has(h, IsZero))
  <2>1. BinaryResult(o, h) = Unknown  BY <1>11 DEF BinaryResult
  <2>2. x = Null \/ y = Null  BY <1>4, <1>11 DEF Has
  <2> QED  BY <1>1, <1>2, <1>10, <1>11, <2>1, <2>2, BinaryMeans DEF Unknown
<1>12. CASE ~Has(h, IsUnknown) /\ ~(IsProduct(o) /\ Has(h, IsZero))
  <2>1. BinaryResult(o, h) = Completed(Apply(o, h[1].value, h[2].value))
    BY <1>12 DEF BinaryResult
  <2>2. 1 \in DOMAIN h /\ 2 \in DOMAIN h
    BY <1>3, <1>12, BinaryDecided
  <2>3. x # Null /\ y # Null /\ h[1].value = x /\ h[2].value = y
    BY <1>4, <1>12, <2>2 DEF Has
  <2>4. DenoteBinary(Kind[o], x, y) = Apply(o, x, y)
    <3>1. 2^Width = Modulus  BY DEF Modulus
    <3>2. DenoteBinary(Kind[o], x, y) = CASE Kind[o] = "addi" -> (x + y) % 2^Width
                                          [] Kind[o] = "subi" -> (x - y) % 2^Width
                                          [] Kind[o] = "muli" -> (x * y) % 2^Width
      BY <1>1, <1>10, <1>12, <2>3, BinaryMeans
    <3> QED  BY <3>1, <3>2 DEF Apply
  <2> QED  BY <1>2, <2>1, <2>3, <2>4
<1> QED  BY <1>9, <1>11, <1>12

-----------------------------------------------------------------------------
(* A right answer keeps what a callback holds right.                       *)

LEMMA AppendFacts ==
  ASSUME NEW h \in Seq(Answer), NEW a \in Answer
  PROVE  /\ Append(h, a) \in Seq(Answer) /\ Len(Append(h, a)) = Len(h) + 1
         /\ \A i \in 1..Len(h) : Append(h, a)[i] = h[i]
         /\ Append(h, a)[Len(h) + 1] = a
         /\ h # <<>> => Append(h, a) # <<>> /\ Append(h, a)[1] = h[1]
         /\ Append(h, a) # <<>>
<1>1. Len(h) \in Nat /\ (h # <<>> => Len(h) # 0)  BY HeardFacts, EmptySeq
<1>2. /\ Append(h, a) \in Seq(Answer) /\ Len(Append(h, a)) = Len(h) + 1
      /\ \A i \in 1..Len(h) : Append(h, a)[i] = h[i]
      /\ Append(h, a)[Len(h) + 1] = a
  OBVIOUS
<1>3. Append(h, a) # <<>>  BY <1>1, <1>2
<1>4. h # <<>> => 1 \in 1..Len(h)  BY <1>1
<1> QED  BY <1>2, <1>3, <1>4

LEMMA SameSequence ==
  ASSUME NEW g \in Seq(Answer), NEW h \in Seq(Answer), Len(g) = Len(h),
         \A i \in 1..Len(g) : g[i] = h[i]
  PROVE  g = h
  OBVIOUS

(* The answer belongs to the operation that still waits for one.           *)
LEMMA SplitAppend ==
  ASSUME NEW o, NEW h \in Seq(Answer), NEW a \in Answer
  PROVE  IF BinaryPending(o, OwnHeard(o, h))
         THEN /\ OwnHeard(o, Append(h, a)) = Append(OwnHeard(o, h), a)
              /\ OtherHeard(o, Append(h, a)) = <<>>
         ELSE /\ OwnHeard(o, Append(h, a)) = OwnHeard(o, h)
              /\ OtherHeard(o, Append(h, a)) = Append(OtherHeard(o, h), a)
<1> PICK g, t : g = OwnHeard(o, h) /\ t = OtherHeard(o, h)  OBVIOUS
<1> PICK u : u = Append(h, a)  OBVIOUS
<1> PICK m : m = Len(h)  OBVIOUS
<1>1. /\ m \in Nat /\ (h = <<>> <=> m = 0) /\ u \in Seq(Answer) /\ Len(u) = m + 1
      /\ \A i \in 1..m : u[i] = h[i]
      /\ u[m + 1] = a /\ u # <<>> /\ (h # <<>> => u[1] = h[1])
      /\ h \in Seq(Answer) /\ Len(h) = m
  BY HeardFacts, AppendFacts, EmptySeq
<1>2. /\ g \in Seq(Answer) /\ t \in Seq(Answer) /\ Len(g) <= m /\ Len(g) <= 2
      /\ m = Len(g) + Len(t) /\ Len(g) \in Nat /\ Len(t) \in Nat
      /\ \A i \in 1..Len(g) : g[i] = h[i]
      /\ \A i \in 1..Len(t) : t[i] = h[Len(g) + i]
  BY SplitHeard, LenProperties
<1> PICK ug, ut : ug = OwnHeard(o, u) /\ ut = OtherHeard(o, u)  OBVIOUS
<1>3. /\ ug \in Seq(Answer) /\ ut \in Seq(Answer)
      /\ Len(u) = Len(ug) + Len(ut) /\ Len(ug) \in Nat /\ Len(ut) \in Nat
      /\ \A i \in 1..Len(ug) : ug[i] = u[i]
      /\ \A i \in 1..Len(ut) : ut[i] = u[Len(ug) + i]
  <2>1. u \in Seq(Answer)  BY <1>1
  <2>2. /\ OwnHeard(o, u) \in Seq(Answer) /\ OtherHeard(o, u) \in Seq(Answer)
        /\ Len(u) = Len(OwnHeard(o, u)) + Len(OtherHeard(o, u))
        /\ \A i \in 1..Len(OwnHeard(o, u)) : OwnHeard(o, u)[i] = u[i]
        /\ \A i \in 1..Len(OtherHeard(o, u)) :
             OtherHeard(o, u)[i] = u[Len(OwnHeard(o, u)) + i]
    BY <2>1, SplitHeard
  <2>3. /\ ug \in Seq(Answer) /\ ut \in Seq(Answer)
        /\ Len(u) = Len(ug) + Len(ut)
        /\ \A i \in 1..Len(ug) : ug[i] = u[i]
        /\ \A i \in 1..Len(ut) : ut[i] = u[Len(ug) + i]
    BY <2>2, Zenon
  <2> QED  BY <2>3, LenProperties
<1>4. \A s \in Seq(Answer) :
        Len(OwnHeard(o, s)) = IF s # <<>> /\ ~BinaryPending(o, <<s[1]>>) THEN 1
                              ELSE IF Len(s) < 2 THEN Len(s) ELSE 2
  <2> TAKE s \in Seq(Answer)
  <2>1. CASE s # <<>> /\ ~BinaryPending(o, <<s[1]>>)
    <3>1. OwnHeard(o, s) = <<s[1]>>  BY <2>1 DEF OwnHeard
    <3> QED  BY <2>1, <3>1
  <2>2. CASE ~(s # <<>> /\ ~BinaryPending(o, <<s[1]>>))
    <3> PICK w, z : w = Len(s) /\ z = IF w < 2 THEN w ELSE 2  OBVIOUS
    <3>1. w \in Nat /\ z \in Nat /\ z <= w /\ \A i \in 1..w : s[i] \in Answer
      BY HeardFacts
    <3>2. OwnHeard(o, s) = SubSeq(s, 1, z)  BY <2>2 DEF OwnHeard
    <3>3. \A i \in 1..z : s[i] \in Answer  BY <3>1
    <3>4. Len(SubSeq(s, 1, z)) = IF 1 <= z THEN z - 1 + 1 ELSE 0
      BY <3>1, <3>3, SubSeqProperties
    <3>5. Len(SubSeq(s, 1, z)) = z  BY <3>1, <3>4
    <3> QED  BY <2>2, <3>2, <3>5
  <2> QED  BY <2>1, <2>2
<1>5. g = <<>> <=> Len(g) = 0  BY <1>2, EmptySeq
<1>6. Len(g) = 1 => g = <<h[1]>>
  BY <1>2
<1>7. BinaryPending(o, g) <=> Len(g) = 0 \/ (Len(g) = 1 /\ ~Decides(o, h[1]))
  <2>1. Len(g) = 1 => g[1] = h[1]  BY <1>2
  <2> QED  BY <1>5, <2>1 DEF BinaryPending
<1>8. h # <<>> => (BinaryPending(o, <<h[1]>>) <=> ~Decides(o, h[1]))
  BY DEF BinaryPending
<1>9. BinaryPending(o, <<u[1]>>) <=> ~Decides(o, u[1])
  BY DEF BinaryPending
<1>10. CASE BinaryPending(o, g)
  <2>1. /\ m = 0 \/ (m = 1 /\ ~Decides(o, h[1]))
        /\ Len(g) = m
    <3>1. CASE h = <<>>
      <4>1. m = 0  BY <1>1, <3>1
      <4> QED  BY <1>2, <4>1
    <3>2. CASE h # <<>> /\ Decides(o, h[1])
      <4>1. Len(g) = 1  BY <1>1, <1>4, <1>8, <3>2
      <4> QED  BY <1>7, <1>10, <3>2, <4>1
    <3>3. CASE h # <<>> /\ ~Decides(o, h[1])
      <4>1. Len(g) = IF m < 2 THEN m ELSE 2  BY <1>1, <1>4, <1>8, <3>3
      <4>2. Len(g) = 0 \/ Len(g) = 1  BY <1>7, <1>10
      <4>3. m < 2 /\ Len(g) = m  BY <1>1, <4>1, <4>2
      <4> QED  BY <1>1, <3>3, <4>3
    <3> QED  BY <3>1, <3>2, <3>3
  <2>2. Len(g) = m /\ Len(t) = 0  BY <1>1, <1>2, <2>1
  <2>3. g = h  BY <1>1, <1>2, <2>2, SameSequence
  <2>4. Len(ug) = m + 1
    <3>1. Len(ug) = IF u # <<>> /\ ~BinaryPending(o, <<u[1]>>) THEN 1
                    ELSE IF Len(u) < 2 THEN Len(u) ELSE 2
      BY <1>1, <1>4
    <3>2. CASE m = 0
      <4>1. Len(u) = 1 /\ 1 < 2 /\ m + 1 = 1  BY <1>1, <3>2
      <4> QED  BY <3>1, <4>1
    <3>3. CASE m = 1 /\ ~Decides(o, h[1])
      <4>1. u[1] = h[1] /\ Len(u) = 2  BY <1>1, <3>3
      <4>2. m + 1 = 2 /\ ~(2 < 2)  BY <3>3
      <4> QED  BY <1>9, <3>1, <3>3, <4>1, <4>2
    <3> QED  BY <2>1, <3>2, <3>3
  <2>5. ug = u  BY <1>1, <1>3, <2>4, SameSequence
  <2>6. Len(ut) = 0  BY <1>1, <1>3, <2>4
  <2>7. ut = <<>>  BY <1>3, <2>6, EmptySeq
  <2> QED  BY <1>10, <2>3, <2>5, <2>7
<1>11. CASE ~BinaryPending(o, g)
  <2>1. m # 0 /\ h # <<>> /\ Len(g) # 0  BY <1>1, <1>2, <1>7, <1>11
  <2>2. u[1] = h[1]  BY <1>1, <2>1
  <2>3. Len(ug) = Len(g)
    <3>1. CASE Decides(o, h[1])
      BY <1>1, <1>4, <1>8, <1>9, <2>1, <2>2, <3>1
    <3>2. CASE ~Decides(o, h[1])
      <4>1. Len(g) = IF m < 2 THEN m ELSE 2  BY <1>1, <1>4, <1>8, <2>1, <3>2
      <4>2. m >= 2  BY <1>1, <1>7, <1>11, <2>1, <3>2, <4>1
      <4>3. ~(m + 1 < 2)  BY <1>1, <4>2
      <4>4. Len(ug) = 2  BY <1>1, <1>4, <1>9, <2>2, <3>2, <4>3
      <4> QED  BY <1>1, <4>1, <4>2, <4>4
    <3> QED  BY <3>1, <3>2
  <2>4. \A i \in 1..Len(g) : i \in 1..m  BY <1>1, <1>2
  <2>5. ug = g  BY <1>1, <1>2, <1>3, <2>3, <2>4, SameSequence
  <2> PICK w : w = Append(t, a)  OBVIOUS
  <2>6. /\ w \in Seq(Answer) /\ Len(w) = Len(t) + 1 /\ w[Len(t) + 1] = a
        /\ \A i \in 1..Len(t) : w[i] = t[i]
    BY <1>2, AppendFacts
  <2>7. Len(ut) = Len(t) + 1  BY <1>1, <1>2, <1>3, <2>3
  <2>8. ASSUME NEW i \in 1..Len(ut) PROVE ut[i] = w[i]
    <3>1. ut[i] = u[Len(g) + i]  BY <1>3, <2>3
    <3>2. CASE i \in 1..Len(t)
      <4>1. Len(g) + i \in 1..m  BY <1>1, <1>2, <3>2
      <4> QED  BY <1>1, <1>2, <2>6, <3>1, <3>2, <4>1
    <3>3. CASE i = Len(t) + 1
      <4>1. Len(g) + i = m + 1  BY <1>1, <1>2, <3>3
      <4> QED  BY <1>1, <2>6, <3>1, <3>3, <4>1
    <3> QED  BY <1>2, <2>7, <3>2, <3>3
  <2>9. ut = w  BY <1>3, <2>6, <2>7, <2>8, SameSequence
  <2> QED  BY <1>11, <2>5, <2>9
<1> QED  BY <1>10, <1>11

LEMMA LoopDepends ==
  ASSUME NEW o, NEW l, NEW m, NEW env, LoopRight(o, l, env), m.at = l.at,
         m.iv = l.iv, m.ub = l.ub, m.step = l.step, m.carried = l.carried
  PROVE  LoopRight(o, m, env)
  BY DEF LoopRight, LoopAt

(* What the running callback asks next, answered right, keeps what it holds*)
(* right.                                                                  *)
LEMMA HearsRight ==
  ASSUME InterpInv, stack # <<>>, NEW v \in Wants, HoldsRight(Top, Local, bindings)
  PROVE  Expects(Top, Local, v, bindings)
<1> PICK l, h : l = Local /\ h = Heard  OBVIOUS
<1>1. l \in LocalRecord /\ h \in Seq(Answer) /\ l.heard = h
  BY LocalsFacts, HeardType DEF Heard
<1> SUFFICES ASSUME NEW a \in Answer, Right(v, a, bindings)
             PROVE  HoldsRight(Top, [l EXCEPT !.heard = Append(@, a)], bindings)
  BY DEF Expects
<1> PICK m : m = [l EXCEPT !.heard = Append(@, a)]  OBVIOUS
<1>2. /\ m.heard = Append(h, a) /\ m.at = l.at /\ m.iv = l.iv /\ m.ub = l.ub
      /\ m.step = l.step /\ m.carried = l.carried /\ m.results = l.results
  BY <1>1 DEF LocalRecord
<1>3. HoldsRight(Top, l, bindings)  OBVIOUS
<1>4. /\ AllRight(Top.results, ResultsOf(TopOp), bindings) /\ EntryRight(Top, bindings)
  BY <1>3 DEF HoldsRight, TopOp
<1>5. InLoop(Top) => /\ Iterating(m) => LoopRight(TopOp, m, bindings)
                     /\ Leaving(m) => AllRight(m.results, ResultsOf(TopOp), bindings)
  <2>1. InLoop(Top) => /\ Iterating(l) => LoopRight(TopOp, l, bindings)
                       /\ Leaving(l) => AllRight(l.results, ResultsOf(TopOp), bindings)
    BY <1>3 DEF HoldsRight, ForRight, TopOp
  <2>2. LoopRight(TopOp, l, bindings) => LoopRight(TopOp, m, bindings)
    BY <1>2, Zenon DEF LoopRight, LoopAt
  <2>3. (Iterating(m) <=> Iterating(l)) /\ (Leaving(m) <=> Leaving(l))
    BY <1>2 DEF Iterating, Leaving
  <2> QED  BY <1>2, <2>1, <2>2, <2>3
<1> SUFFICES ComparesRight(Top, m, bindings) /\ OperandsRight(Top, m, bindings)
             /\ (InLoop(Top) /\ m.at = "body" => AllRight(m.heard, Yields[TopOp], bindings))
  BY <1>4, <1>5 DEF HoldsRight, ForRight, TopOp
<1>6. CASE OwnOperand(v)
  <2>1. AllRight(h, Operands[TopOp], bindings)
    BY <1>1, <1>3, <1>6 DEF OwnOperand, HoldsRight, OperandsRight, TopOp
  <2>2. AllRight(m.heard, Operands[TopOp], bindings)
    BY <1>1, <1>2, <1>6, <2>1, AppendRight DEF OwnOperand
  <2> QED  BY <1>2, <1>6, <2>2 DEF OwnOperand, ComparesRight, OperandsRight, TopOp
<1>7. CASE OwnYield(v)
  <2>1. AllRight(h, Yields[TopOp], bindings)
    BY <1>1, <1>3, <1>7 DEF OwnYield, HoldsRight, ForRight, TopOp
  <2>2. AllRight(m.heard, Yields[TopOp], bindings)
    BY <1>1, <1>2, <1>7, <2>1, AppendRight DEF OwnYield
  <2> QED
    BY <1>2, <1>7, <2>2 DEF OwnYield, ComparesRight, OperandsRight, InLoop, TopOp
<1> PICK o, p : o = TopOp /\ p = Candidate.op  OBVIOUS
<1>8. ASSUME Top.pc = "compare", ComparedRight(o, p, m.heard, bindings)
      PROVE  ComparesRight(Top, m, bindings) /\ OperandsRight(Top, m, bindings)
             /\ (InLoop(Top) /\ m.at = "body" => AllRight(m.heard, Yields[TopOp], bindings))
  BY <1>8 DEF ComparesRight, OperandsRight, InLoop, TopOp, Candidate
<1>9. Top.pc = "compare" => ComparedRight(o, p, h, bindings)
  BY <1>1, <1>3 DEF HoldsRight, ComparesRight, TopOp, Candidate
<1>10. CASE ComparesBinary(v)
  <2>1. /\ Top.pc = "compare" /\ o \notin Loops /\ p \notin Loops /\ Kind[o] = Kind[p]
        /\ \/ /\ BinaryPending(o, OwnHeard(o, h))
              /\ NextOf(v, Operands[o], OwnHeard(o, h))
           \/ /\ ~BinaryPending(o, OwnHeard(o, h))
              /\ NextOf(v, Operands[p], OtherHeard(o, h))
    BY <1>10 DEF ComparesBinary
  <2>2. /\ AllRight(OwnHeard(o, h), Operands[o], bindings)
        /\ AllRight(OtherHeard(o, h), Operands[p], bindings)
    BY <1>9, <2>1 DEF ComparedRight
  <2>3. OwnHeard(o, h) \in Seq(Answer) /\ OtherHeard(o, h) \in Seq(Answer)
    BY <1>1, SplitHeard
  <2>4. CASE BinaryPending(o, OwnHeard(o, h))
    <3>1. /\ OwnHeard(o, m.heard) = Append(OwnHeard(o, h), a)
          /\ OtherHeard(o, m.heard) = <<>>
      BY <1>1, <1>2, <2>4, SplitAppend
    <3>2. AllRight(Append(OwnHeard(o, h), a), Operands[o], bindings)
      BY <2>1, <2>2, <2>3, <2>4, AppendRight
    <3>3. ComparedRight(o, p, m.heard, bindings)
      BY <2>1, <3>1, <3>2, RightFacts DEF ComparedRight
    <3> QED  BY <1>8, <2>1, <3>3
  <2>5. CASE ~BinaryPending(o, OwnHeard(o, h))
    <3>1. /\ OwnHeard(o, m.heard) = OwnHeard(o, h)
          /\ OtherHeard(o, m.heard) = Append(OtherHeard(o, h), a)
      BY <1>1, <1>2, <2>5, SplitAppend
    <3>2. AllRight(Append(OtherHeard(o, h), a), Operands[p], bindings)
      BY <2>1, <2>2, <2>3, <2>5, AppendRight
    <3>3. ComparedRight(o, p, m.heard, bindings)
      BY <2>1, <2>2, <3>1, <3>2 DEF ComparedRight
    <3> QED  BY <1>8, <2>1, <3>3
  <2> QED  BY <2>4, <2>5
<1>11. CASE ComparesLoops(v)
  <2>1. /\ Top.pc = "compare" /\ <<o, p>> \in Alike /\ o \in Loops
        /\ NextOf(v, LoopQueries(o, p), h)
    BY <1>11, InterpAssumption DEF ComparesLoops
  <2>2. AllRight(h, LoopQueries(o, p), bindings)  BY <1>9, <2>1 DEF ComparedRight
  <2>3. AllRight(m.heard, LoopQueries(o, p), bindings)
    BY <1>1, <1>2, <2>1, <2>2, AppendRight
  <2>4. ComparedRight(o, p, m.heard, bindings)  BY <2>1, <2>3 DEF ComparedRight
  <2> QED  BY <1>8, <2>1, <2>4
<1> QED  BY <1>6, <1>7, <1>10, <1>11, WantsShape

LEMMA FreshRight ==
  ASSUME NEW r, NEW env, AllRight(r.results, ResultsOf(r.val[1]), env),
         EntryRight(r, env)
  PROVE  HoldsRight(r, Fresh, env)
<1>1. Fresh.heard = <<>> /\ Fresh.at = "begin"  BY DEF Fresh
<1>2. \A h, vs : h = <<>> => AllRight(h, vs, env)  BY RightFacts
<1>3. \A o, p : ComparedRight(o, p, <<>>, env)
  <2> TAKE o, p
  <2>1. OwnHeard(o, <<>>) = <<>> /\ OtherHeard(o, <<>>) = <<>>
    <3>1. <<>> \in Seq(Answer) /\ Len(<<>>) = 0  OBVIOUS
    <3>2. /\ OwnHeard(o, <<>>) \in Seq(Answer) /\ OtherHeard(o, <<>>) \in Seq(Answer)
          /\ 0 = Len(OwnHeard(o, <<>>)) + Len(OtherHeard(o, <<>>))
      BY <3>1, SplitHeard
    <3>3. Len(OwnHeard(o, <<>>)) = 0 /\ Len(OtherHeard(o, <<>>)) = 0
      BY <3>2, LenProperties
    <3> QED  BY <3>2, <3>3, EmptySeq
  <2> QED  BY <2>1, RightFacts DEF ComparedRight
<1>4. ComparesRight(r, Fresh, env) /\ OperandsRight(r, Fresh, env)
  BY <1>1, <1>2, <1>3 DEF ComparesRight, OperandsRight
<1>5. ForRight(r, Fresh, env)
  BY <1>1 DEF ForRight, Iterating, Leaving
<1> QED  BY <1>4, <1>5 DEF HoldsRight

-----------------------------------------------------------------------------
(* What an activation holds depends on the bindings its value sees only,   *)
(* and, in the body of a loop, on the loop's own.                          *)

LEMMA RightAgrees ==
  ASSUME ScopeDecides, NEW v \in Value, NEW e \in Environment, NEW f \in Environment,
         NEW blocks, Scope[v] \subseteq blocks, Agree(e, f, blocks)
  PROVE  Denote(v, e) = Denote(v, f) /\ \A a : Right(v, a, e) => Right(v, a, f)
<1>1. Agree(e, f, Scope[v])  BY DEF Agree
<1>2. Denote(v, e) = Denote(v, f)  BY <1>1 DEF ScopeDecides
<1> QED  BY <1>2 DEF Right

Sees(vs, blocks) == \A j \in DOMAIN vs : vs[j] \in Value /\ Scope[vs[j]] \subseteq blocks

LEMMA AllRightAgrees ==
  ASSUME ScopeDecides, NEW e \in Environment, NEW f \in Environment, NEW blocks,
         Agree(e, f, blocks), NEW vs, Sees(vs, blocks), NEW h, AllRight(h, vs, e)
  PROVE  AllRight(h, vs, f)
  BY RightAgrees DEF AllRight, Sees

LEMMA QueryMember ==
  ASSUME NEW o, NEW p, <<o, p>> \in Alike, NEW k \in DOMAIN LoopQueries(o, p)
  PROVE  \E i \in DOMAIN Operands[o] :
           /\ i \in DOMAIN Operands[p]
           /\ LoopQueries(o, p)[k] \in {Operands[o][i], Operands[p][i]}
<1>1. o \in Loops /\ p \in Loops /\ Arity[o] = Arity[p]  BY InterpAssumption
<1>2. PICK q : q = LoopQueries(o, p)  OBVIOUS
<1>3. PICK n : n = Len(Operands[o])  OBVIOUS
<1>4. n \in Nat /\ DOMAIN Operands[o] = 1..n /\ DOMAIN Operands[p] = 1..n
  BY <1>1, <1>3, OperandFacts, ProgramFacts
<1>5. Paired(q, o, p, n)  BY <1>1, <1>2, <1>3, QueriesFacts
<1>6. PICK m \in Nat : PairsTo(q, o, p, n, m)  BY <1>5 DEF Paired
<1>7. k \in 1..(2 * m)
  <2>1. q \in Seq(Value) /\ Len(q) = 2 * m  BY <1>5, <1>6 DEF Paired, PairsTo
  <2> QED  BY <1>2, <2>1
<1>8. PICK j \in 1..m : k = 2 * j - 1 \/ k = 2 * j  BY <1>6, <1>7, HalfFacts
<1>9. PICK i \in 1..n : PairAt(q, o, p, j, i)  BY <1>6, <1>8 DEF PairsTo
<1>10. q[k] \in {Operands[o][i], Operands[p][i]}  BY <1>8, <1>9 DEF PairAt
<1> QED  BY <1>2, <1>4, <1>10

LEMMA ProgramSees ==
  ASSUME Visible, NEW o \in Op
  PROVE  /\ Sees(Operands[o], Scope[<<o, 1>>]) /\ Sees(ResultsOf(o), Scope[<<o, 1>>])
         /\ o \in Loops => Sees(Yields[o], Scope[<<o, 1>>] \cup {Body[o]})
         /\ \A p : <<o, p>> \in Alike =>
              Sees(LoopQueries(o, p), Scope[<<o, 1>>] \cup Scope[<<p, 1>>])
<1>1. /\ \A i \in DOMAIN Operands[o] : Operands[o][i] \in Value
      /\ o \in Loops => DOMAIN Yields[o] = 1..Arity[o]
                        /\ \A i \in 1..Arity[o] : Yields[o][i] \in Value
  BY OperandFacts
<1>2. Sees(Operands[o], Scope[<<o, 1>>])  BY <1>1 DEF Sees, Visible
<1>3. Sees(ResultsOf(o), Scope[<<o, 1>>])
  <2>1. \A i \in 1..Arity[o] : <<o, i>> \in Value  BY ValueFacts
  <2> QED  BY <2>1 DEF Sees, ResultsOf, Visible
<1>4. o \in Loops => Sees(Yields[o], Scope[<<o, 1>>] \cup {Body[o]})
  BY <1>1 DEF Sees, Visible
<1>5. ASSUME NEW p, <<o, p>> \in Alike
      PROVE  Sees(LoopQueries(o, p), Scope[<<o, 1>>] \cup Scope[<<p, 1>>])
  <2>1. p \in Op  BY <1>5, InterpAssumption DEF Loops
  <2>2. \A i \in DOMAIN Operands[p] :
          Operands[p][i] \in Value /\ Scope[Operands[p][i]] \subseteq Scope[<<p, 1>>]
    BY <2>1, OperandFacts DEF Visible
  <2>3. \A i \in DOMAIN Operands[o] :
          Operands[o][i] \in Value /\ Scope[Operands[o][i]] \subseteq Scope[<<o, 1>>]
    BY <1>1 DEF Visible
  <2> SUFFICES ASSUME NEW k \in DOMAIN LoopQueries(o, p)
               PROVE  /\ LoopQueries(o, p)[k] \in Value
                      /\ Scope[LoopQueries(o, p)[k]]
                           \subseteq Scope[<<o, 1>>] \cup Scope[<<p, 1>>]
    BY DEF Sees
  <2>4. PICK i \in DOMAIN Operands[o] :
           /\ i \in DOMAIN Operands[p]
           /\ LoopQueries(o, p)[k] \in {Operands[o][i], Operands[p][i]}
    BY <1>5, QueryMember
  <2> QED  BY <2>2, <2>3, <2>4
<1> QED  BY <1>2, <1>3, <1>4, <1>5

LEMMA LoopAgrees ==
  ASSUME Grounded, NEW o \in Loops, NEW l, NEW e \in Environment,
         NEW f \in Environment, Agree(e, f, Scope[<<o, 1>>]),
         l.at = "body" => Agree(e, f, {Body[o]}), LoopRight(o, l, e)
  PROVE  LoopRight(o, l, f)
<1>1. o \in Op /\ Visible /\ ScopeDecides /\ Meaningful
  BY DEF Loops, Grounded
<1>2. Defined(Denotes, o, e)  BY <1>1, MeaningFacts
<1>3. Mirrors(Denotes, o, e, Denotes, o, f)
  <2>1. \A i \in DOMAIN Operands[o] :
          Agree(e, f, Scope[Operands[o][i]]) =>
            DenoteOperand(Denotes, o, e, i) = DenoteOperand(Denotes, o, f, i)
    BY <1>1, OperandFacts DEF ScopeDecides, Denote, DenoteOperand
  <2>2. \A i \in 1..Arity[o] : \A c, d \in Environment :
          Agree(c, d, Scope[Yields[o][i]]) =>
            Denotes[<<Yields[o][i], c>>] = Denotes[<<Yields[o][i], d>>]
    BY <1>1, OperandFacts DEF ScopeDecides, Denote
  <2> QED  BY <1>1, <2>1, <2>2, ScopesMirror
<1>4. SameLoop(Denotes, o, e, Denotes, o, f)  BY <1>2, <1>3, SameFor
<1>5. /\ OperandsKnown(Denotes, o, f) /\ Stride(Denotes, o, f) > 0
      /\ AsInt(o, l.step) = Stride(Denotes, o, f)
      /\ AsInt(o, l.ub) = Upper(Denotes, o, f)
      /\ Trips(Denotes, o, e) = Trips(Denotes, o, f) /\ Trips(Denotes, o, e) \in Nat
  BY <1>2, <1>4, BoundFacts DEF SameLoop, LoopRight
<1>6. PICK k \in 0..Trips(Denotes, o, e) : LoopAt(o, l, k, e)  BY DEF LoopRight
<1>7. LoopAt(o, l, k, f)
  <2>1. After(Denotes, o, e)[k] = After(Denotes, o, f)[k] /\ k \in Nat
    BY <1>4, <1>5, <1>6 DEF SameLoop, LoopRight
  <2>2. /\ AsInt(o, l.iv) = InductionVariable(Denotes, o, f, k)
        /\ l.carried = [i \in 1..Arity[o] |-> Completed(After(Denotes, o, f)[k][i])]
        /\ l.at \in {"paid", "body"} => k < Trips(Denotes, o, f)
    BY <1>4, <1>5, <1>6, <2>1 DEF SameLoop, LoopAt
  <2>3. ASSUME l.at = "body" PROVE f = InBody(o, f, l.iv, After(Denotes, o, f)[k])
    <3> PICK c : c = After(Denotes, o, f)[k]  OBVIOUS
    <3>1. e = InBody(o, e, l.iv, c)  BY <1>6, <2>1, <2>3 DEF LoopAt
    <3>2. \A a \in ArgsOf(Body[o]) : e[a] = f[a] /\ a \in Arg
      BY <2>3, ProgramFacts, ArgsOfFacts DEF Agree
    <3>3. \A a \in Arg : e[a] = InBody(o, e, l.iv, c)[a]  BY <3>1
    <3>4. <<Body[o], 1>> \in ArgsOf(Body[o])
      BY ProgramFacts, OperandFacts, <1>1 DEF ArgsOf
    <3>5. \A a \in Arg : f[a] = InBody(o, f, l.iv, c)[a]
      <4> TAKE a \in Arg
      <4>1. CASE a \in ArgsOf(Body[o])
        <5>1. e[a] = f[a] /\ e[a] = InBody(o, e, l.iv, c)[a]  BY <3>2, <3>3, <4>1
        <5>2. InBody(o, e, l.iv, c)[a] = InBody(o, f, l.iv, c)[a]
          BY <4>1, <5>1 DEF InBody
        <5> QED  BY <5>1, <5>2
      <4>2. CASE a \notin ArgsOf(Body[o])
        BY <3>4, <4>2 DEF InBody
      <4> QED  BY <4>1, <4>2
    <3>6. f \in [Arg -> CompletedAnswer \cup {NoAnswer}]  BY DEF Environment
    <3> QED  BY <3>5, <3>6 DEF InBody
  <2> QED  BY <2>2, <2>3 DEF LoopAt
<1> QED  BY <1>5, <1>6, <1>7 DEF LoopRight

LEMMA HandleFacts ==
  ASSUME TypeInv, NEW r \in Activation, Fits(r, entries)
  PROVE  /\ r.val \in Result /\ r.val[1] \in Op /\ r.val = <<r.val[1], r.val[2]>>
         /\ r.val[2] \in 1..Arity[r.val[1]]
         /\ r.pc = "compare" =>
              /\ r.key \in Key /\ r.next \in DOMAIN entries[r.key]
              /\ entries[r.key][r.next].op \in Op
         /\ r.entry # 0 =>
              /\ r.key \in Key /\ r.entry \in DOMAIN entries[r.key]
              /\ entries[r.key][r.entry].op \in Op
<1>1. entries \in [Key -> Seq(Entry)]  BY DEF TypeInv, TypeOK
<1>2. r.val \in Result /\ r.key \in Key \cup {Null}  BY DEF Activation
<1>3. ASSUME NEW n, FitsAt(r, n, entries)
      PROVE  r.key \in Key /\ n \in DOMAIN entries[r.key] /\ entries[r.key][n].op \in Op
  <2>1. r.key # Null  BY <1>3 DEF FitsAt, Bucket
  <2>2. r.key \in Key /\ n \in DOMAIN entries[r.key]
    BY <1>2, <1>3, <2>1 DEF FitsAt, Bucket
  <2>3. entries[r.key] \in Seq(Entry)  BY <1>1, <2>2
  <2>4. entries[r.key][n] \in Entry  BY <2>2, <2>3
  <2> QED  BY <2>2, <2>4 DEF Entry
<1>4. r.pc = "compare" => FitsAt(r, r.next, entries)  BY DEF Fits
<1>5. r.entry # 0 => FitsAt(r, r.entry, entries)  BY DEF Fits
<1> QED  BY <1>2, <1>3, <1>4, <1>5, ValueFacts

LEMMA HoldsAgree ==
  ASSUME TypeInv, Grounded, EntriesTop, NEW r \in Activation, Fits(r, entries),
         NEW l, NEW e \in Environment, NEW f \in Environment,
         Agree(e, f, Scope[r.val]),
         InLoop(r) /\ l.at = "body" => Agree(e, f, {Body[r.val[1]]}),
         HoldsRight(r, l, e)
  PROVE  HoldsRight(r, l, f)
<1> PICK o : o = r.val[1]  OBVIOUS
<1> PICK blocks : blocks = Scope[<<o, 1>>]  OBVIOUS
<1>1. Visible /\ ScopeDecides /\ Meaningful  BY DEF Grounded
<1>2. o \in Op /\ Scope[r.val] = blocks /\ Agree(e, f, blocks)
  BY <1>1, HandleFacts DEF Visible
<1>3. /\ Sees(Operands[o], blocks) /\ Sees(ResultsOf(o), blocks)
      /\ o \in Loops => Sees(Yields[o], blocks \cup {Body[o]})
      /\ \A p : <<o, p>> \in Alike => Sees(LoopQueries(o, p), blocks \cup Scope[<<p, 1>>])
  BY <1>1, <1>2, ProgramSees
<1>4. /\ AllRight(r.results, ResultsOf(o), e) /\ EntryRight(r, e)
      /\ ComparesRight(r, l, e) /\ OperandsRight(r, l, e) /\ ForRight(r, l, e)
  BY DEF HoldsRight
<1>5. \A h : AllRight(h, Operands[o], e) => AllRight(h, Operands[o], f)
  BY <1>1, <1>2, <1>3, AllRightAgrees
<1>6. \A h : AllRight(h, ResultsOf(o), e) => AllRight(h, ResultsOf(o), f)
  BY <1>1, <1>2, <1>3, AllRightAgrees
<1>7. EntryRight(r, f)
  <2> SUFFICES ASSUME r.entry # 0 PROVE SameResults(o, entries[r.key][r.entry].op, f)
    BY DEF EntryRight
  <2> PICK p : p = entries[r.key][r.entry].op  OBVIOUS
  <2>1. SameResults(o, p, e)  BY <1>4 DEF EntryRight
  <2>2. p \in Op /\ Scope[<<p, 1>>] = {}  BY HandleFacts DEF EntriesTop
  <2>3. \A i \in 1..Arity[o] : <<o, i>> \in Value /\ <<p, i>> \in Value
                               /\ Scope[<<o, i>>] = blocks /\ Scope[<<p, i>>] = {}
    BY <1>1, <1>2, <2>1, <2>2, ValueFacts DEF SameResults, Visible
  <2>4. \A i \in 1..Arity[o] : /\ Denote(<<o, i>>, e) = Denote(<<o, i>>, f)
                               /\ Denote(<<p, i>>, e) = Denote(<<p, i>>, f)
    BY <1>1, <1>2, <2>3, RightAgrees
  <2> QED  BY <2>1, <2>4 DEF SameResults
<1>8. ComparesRight(r, l, f)
  <2> SUFFICES ASSUME r.pc = "compare"
               PROVE  ComparedRight(o, entries[r.key][r.next].op, l.heard, f)
    BY DEF ComparesRight
  <2> PICK p : p = entries[r.key][r.next].op  OBVIOUS
  <2>1. ComparedRight(o, p, l.heard, e)  BY <1>4 DEF ComparesRight
  <2>2. p \in Op /\ Scope[<<p, 1>>] = {}  BY HandleFacts DEF EntriesTop
  <2>3. CASE o \notin Loops
    <3>1. Sees(Operands[p], {}) /\ Agree(e, f, {})
      BY <1>1, <2>2, ProgramSees DEF Agree
    <3>2. \A h : AllRight(h, Operands[p], e) => AllRight(h, Operands[p], f)
      BY <1>1, <3>1, AllRightAgrees
    <3> QED  BY <1>5, <2>1, <2>3, <3>2 DEF ComparedRight
  <2>4. CASE o \in Loops /\ l.heard = <<>>
    BY <2>4, RightFacts DEF ComparedRight
  <2>5. CASE o \in Loops /\ l.heard # <<>>
    <3>1. <<o, p>> \in Alike /\ AllRight(l.heard, LoopQueries(o, p), e)
      BY <2>1, <2>5 DEF ComparedRight
    <3>2. Sees(LoopQueries(o, p), blocks)
      <4>1. blocks \cup Scope[<<p, 1>>] = blocks  BY <2>2
      <4> QED  BY <1>3, <3>1, <4>1
    <3>3. AllRight(l.heard, LoopQueries(o, p), f)
      BY <1>1, <1>2, <3>1, <3>2, AllRightAgrees
    <3> QED  BY <2>5, <3>1, <3>3 DEF ComparedRight
  <2> QED  BY <2>3, <2>4, <2>5
<1>9. OperandsRight(r, l, f)  BY <1>4, <1>5 DEF OperandsRight
<1>10. ForRight(r, l, f)
  <2> SUFFICES ASSUME InLoop(r)
               PROVE  /\ Iterating(l) => LoopRight(o, l, f)
                      /\ l.at = "body" => AllRight(l.heard, Yields[o], f)
                      /\ Leaving(l) => AllRight(l.results, ResultsOf(o), f)
    BY DEF ForRight
  <2>1. o \in Loops  BY DEF InLoop
  <2>2. Iterating(l) => LoopRight(o, l, f)
    BY <1>2, <1>4, <2>1, LoopAgrees DEF ForRight
  <2>3. ASSUME l.at = "body" PROVE AllRight(l.heard, Yields[o], f)
    <3>1. Agree(e, f, blocks \cup {Body[o]})  BY <1>2, <2>3 DEF Agree
    <3>2. AllRight(l.heard, Yields[o], e)  BY <1>4, <2>3 DEF ForRight
    <3>3. Sees(Yields[o], blocks \cup {Body[o]})  BY <1>3, <2>1
    <3> QED  BY <1>1, <3>1, <3>2, <3>3, AllRightAgrees
  <2> QED  BY <1>4, <1>6, <2>2, <2>3 DEF ForRight
<1> QED  BY <1>4, <1>6, <1>7, <1>8, <1>9, <1>10 DEF HoldsRight

(* Entries are only added to, so what an activation holds of them stays.   *)
LEMMA HoldsKept ==
  ASSUME TypeInv, NEW r \in Activation, Fits(r, entries),
         \A k \in Key : Extends(entries'[k], entries[k]),
         NEW l, NEW env, HoldsRight(r, l, env)
  PROVE  /\ r.entry # 0 =>
              SameResults(r.val[1], entries'[r.key][r.entry].op, env)
         /\ r.pc = "compare" =>
              ComparedRight(r.val[1], entries'[r.key][r.next].op, l.heard, env)
<1>1. r.entry # 0 => entries'[r.key][r.entry].op = entries[r.key][r.entry].op
  BY HandleFacts DEF Extends
<1>2. r.pc = "compare" => entries'[r.key][r.next].op = entries[r.key][r.next].op
  BY HandleFacts DEF Extends
<1> QED  BY <1>1, <1>2 DEF HoldsRight, EntryRight, ComparesRight

LEMMA KeptRight ==
  ASSUME TypeInv, TypeInv', Grounded, EntriesTop,
         \A k \in Key : Extends(entries'[k], entries[k]),
         NEW r \in Activation, Fits(r, entries), Fits(r, entries)', EntriesTop',
         NEW l, Agree(bindings, bindings', Scope[r.val]),
         InLoop(r) /\ l.at = "body" => Agree(bindings, bindings', {Body[r.val[1]]}),
         HoldsRight(r, l, bindings)
  PROVE  HoldsRight(r, l, bindings)'
<1> PICK e, f : e = bindings /\ f = bindings'  OBVIOUS
<1>1. e \in Environment /\ f \in Environment
  BY DEF TypeInv, TypeOK, Environment
<1>2. HoldsRight(r, l, f)  BY <1>1, HoldsAgree
<1>3. /\ r.entry # 0 =>
           SameResults(r.val[1], entries'[r.key][r.entry].op, f)
      /\ r.pc = "compare" =>
           ComparedRight(r.val[1], entries'[r.key][r.next].op, l.heard, f)
  BY <1>2, HoldsKept
<1>4. /\ AllRight(r.results, ResultsOf(r.val[1]), f)
      /\ OperandsRight(r, l, f) /\ ForRight(r, l, f)
  BY <1>2 DEF HoldsRight
<1>5. EntryRight(r, f)' /\ ComparesRight(r, l, f)'
  BY <1>3 DEF EntryRight, ComparesRight
<1> QED  BY <1>4, <1>5 DEF HoldsRight

LEMMA KeptExpects ==
  ASSUME TypeInv, TypeInv', Grounded, EntriesTop,
         \A k \in Key : Extends(entries'[k], entries[k]),
         NEW r \in Activation, Fits(r, entries), Fits(r, entries)', EntriesTop',
         NEW l \in LocalRecord, Agree(bindings, bindings', Scope[r.val]),
         InLoop(r) /\ l.at = "body" => Agree(bindings, bindings', {Body[r.val[1]]}),
         NEW v \in Value, Agree(bindings, bindings', Scope[v]),
         Expects(r, l, v, bindings)
  PROVE  Expects(r, l, v, bindings)'
<1> PICK e, f : e = bindings /\ f = bindings'  OBVIOUS
<1>1. e \in Environment /\ f \in Environment
  BY DEF TypeInv, TypeOK, Environment
<1>2. Agree(f, e, Scope[v])  BY DEF Agree
<1> SUFFICES ASSUME NEW a \in Answer, Right(v, a, f)
             PROVE  HoldsRight(r, [l EXCEPT !.heard = Append(@, a)], bindings)'
  BY DEF Expects
<1>3. Right(v, a, e)  BY <1>1, <1>2, RightAgrees DEF Grounded
<1> PICK m : m = [l EXCEPT !.heard = Append(@, a)]  OBVIOUS
<1>4. m.at = l.at  BY DEF LocalRecord
<1>5. HoldsRight(r, m, bindings)  BY <1>3 DEF Expects
<1>6. HoldsRight(r, m, bindings)'  BY <1>4, <1>5, KeptRight
<1> QED  BY <1>6

-----------------------------------------------------------------------------
(* The steps, by what they do to the stack.                                *)

SoundBase == BaseInv /\ ScopedInv /\ Grounded
EntriesExtend == \A k \in Key : Extends(entries'[k], entries[k])

(* The blocks a suspended activation sees stay bound while the activations *)
(* above it bind theirs.                                                   *)
LEMMA SeenBelow ==
  ASSUME SoundBase, stack # <<>>, NEW i \in 1..(Len(stack) - 1)
  PROVE  /\ Scope[stack[i].val] \subseteq BlocksTo(Top.framesAt)
         /\ Scope[stack[i + 1].val] \subseteq BlocksTo(Top.framesAt)
         /\ InLoop(stack[i]) /\ locals[i].at = "body" =>
              Body[stack[i].val[1]] \in BlocksTo(Top.framesAt)
<1>1. BaseInv /\ InScope  BY DEF SoundBase, ScopedInv
<1> PICK n : n = Len(stack)  OBVIOUS
<1>2. n \in Nat /\ i \in 1..n /\ i + 1 \in 1..n /\ n \in 1..n /\ i <= n /\ i + 1 <= n
  BY <1>1, AboveFacts
<1>3. /\ stack[i].framesAt \in Nat /\ stack[i + 1].framesAt \in Nat
      /\ stack[n].framesAt \in Nat /\ FramesAbove(i) = stack[i + 1].framesAt
  BY <1>1, <1>2, AboveFacts
<1>4. stack[i].framesAt <= stack[n].framesAt /\ stack[i + 1].framesAt <= stack[n].framesAt
  BY <1>1, <1>2, FramesAscend
<1>5. /\ BlocksTo(stack[i].framesAt) \subseteq BlocksTo(Top.framesAt)
      /\ BlocksTo(stack[i + 1].framesAt) \subseteq BlocksTo(Top.framesAt)
  BY <1>3, <1>4, BlocksGrow DEF Top
<1>6. /\ Placed(stack[i], locals[i], FramesAbove(i), FreezesAbove(i))
      /\ Placed(stack[i + 1], locals[i + 1], FramesAbove(i + 1), FreezesAbove(i + 1))
  BY <1>1, <1>2 DEF InScope
<1>7. /\ Scope[stack[i].val] \subseteq BlocksTo(Top.framesAt)
      /\ Scope[stack[i + 1].val] \subseteq BlocksTo(Top.framesAt)
  BY <1>5, <1>6 DEF Placed
<1>8. ASSUME InLoop(stack[i]), locals[i].at = "body"
      PROVE  Body[stack[i].val[1]] \in BlocksTo(Top.framesAt)
  <2>1. /\ FramesAbove(i) = stack[i].framesAt + 1
        /\ frames[FramesAbove(i)] = Body[stack[i].val[1]]
    BY <1>6, <1>8 DEF Placed
  <2>2. FramesAbove(i) \in 1..stack[i + 1].framesAt  BY <1>3, <2>1
  <2>3. Body[stack[i].val[1]] \in BlocksTo(stack[i + 1].framesAt)
    BY <2>1, <2>2 DEF BlocksTo
  <2> QED  BY <1>5, <2>3
<1> QED  BY <1>7, <1>8

LEMMA LowersRight ==
  ASSUME SoundBase, TypeInv', EntriesTop', StackRight, stack # <<>>, EntriesExtend,
         Agree(bindings, bindings', BlocksTo(Top.framesAt)),
         NEW i \in 1..(Len(stack) - 1), NEW r, r = stack[i], NEW l, l = locals[i],
         NEW v, v = stack[i + 1].val
  PROVE  HoldsRight(r, l, bindings)' /\ Expects(r, l, v, bindings)'
<1>1. /\ BaseInv /\ Grounded /\ InterpInv /\ TypeInv /\ EntriesTop
  BY DEF SoundBase, BaseInv, ScopedInv, InterpInv
<1>2. /\ Len(stack) \in Nat /\ i \in 1..Len(stack) /\ i + 1 \in 1..Len(stack)
      /\ i # Len(stack) /\ r \in Activation /\ l \in LocalRecord /\ v \in Value
  BY <1>1, AboveFacts, ValueFacts
<1>3. Fits(r, entries)  BY <1>1, <1>2, Sizes DEF TypeInv, HandlesFit
<1>4. Fits(r, entries')
  <2>1. Keeps(entries, entries')
    <3>1. \A k \in Key : \A n \in DOMAIN entries[k] :
            n \in DOMAIN entries'[k] /\ entries'[k][n].op = entries[k][n].op
      BY DEF EntriesExtend, Extends
    <3>2. EntriesShaped /\ EntriesShaped'  BY <1>1 DEF TypeInv
    <3> QED  BY <3>1, <3>2 DEF Keeps, EntriesShaped
  <2>2. entries \in [Key -> Seq(Entry)] /\ entries' \in [Key -> Seq(Entry)]
    BY <1>1 DEF TypeInv, TypeOK
  <2> QED  BY <1>2, <1>3, <2>1, <2>2, FitsMono
<1>5. /\ Agree(bindings, bindings', Scope[r.val])
      /\ Agree(bindings, bindings', Scope[v])
      /\ InLoop(r) /\ l.at = "body" => Agree(bindings, bindings', {Body[r.val[1]]})
  BY SeenBelow DEF Agree
<1>6. HoldsRight(r, l, bindings) /\ Expects(r, l, v, bindings)
  BY <1>2 DEF StackRight
<1>7. HoldsRight(r, l, bindings)'
  BY <1>1, <1>2, <1>3, <1>4, <1>5, <1>6, KeptRight DEF EntriesExtend
<1>8. Expects(r, l, v, bindings)'
  BY <1>1, <1>2, <1>3, <1>4, <1>5, <1>6, KeptExpects DEF EntriesExtend
<1> QED  BY <1>7, <1>8

LEMMA SetRight ==
  ASSUME SoundBase, TypeInv', EntriesTop', StackRight, stack # <<>>, EntriesExtend,
         Agree(bindings, bindings', BlocksTo(Top.framesAt)),
         Len(stack') = Len(stack), stack'[Len(stack)].val = Top.val,
         \A i \in 1..(Len(stack) - 1) : stack'[i] = stack[i],
         NEW l, SetLocal(l), NEW r, r = stack'[Len(stack)], HoldsRight(r, l, bindings)'
  PROVE  StackRight'
<1> PICK n : n = Len(stack)  OBVIOUS
<1>1. InterpInv  BY DEF SoundBase, BaseInv
<1>2. n \in Nat \ {0} /\ Len(locals) = n /\ locals \in Seq(LocalRecord)
  BY <1>1, StackSizes
<1>3. /\ locals'[n] = l
      /\ \A i \in 1..(n - 1) : locals'[i] = locals[i]
  BY <1>2 DEF SetLocal
<1> SUFFICES ASSUME NEW i \in 1..n
             PROVE  /\ HoldsRight(stack[i], locals[i], bindings)'
                    /\ i # n => Expects(stack[i], locals[i], stack[i + 1].val, bindings)'
  BY DEF StackRight
<1>4. CASE i = n  BY <1>3, <1>4
<1>5. CASE i # n
  <2>1. i \in 1..(n - 1)  BY <1>2, <1>5
  <2> PICK q, m, v : q = stack[i] /\ m = locals[i] /\ v = stack[i + 1].val  OBVIOUS
  <2>2. HoldsRight(q, m, bindings)' /\ Expects(q, m, v, bindings)'
    BY <2>1, LowersRight
  <2>3. stack'[i] = q /\ locals'[i] = m  BY <1>3, <2>1
  <2>4. stack'[i + 1].val = v
    <3>1. CASE i + 1 = n  BY <3>1 DEF Top
    <3>2. CASE i + 1 # n
      <4>1. i + 1 \in 1..(n - 1)  BY <1>2, <2>1, <3>2
      <4> QED  BY <4>1
    <3> QED  BY <3>1, <3>2
  <2> QED  BY <2>2, <2>3, <2>4
<1> QED  BY <1>4, <1>5

(* Nothing but locals changes, and the bindings and entries do not.        *)
LEMMA HearRight ==
  ASSUME SoundBase, StackRight, stack # <<>>, UNCHANGED <<stack, bindings, entries>>,
         NEW a \in Answer, locals' = Hears(locals, a), NEW v \in Wants,
         Right(v, a, bindings)
  PROVE  StackRight'
<1> PICK n : n = Len(stack)  OBVIOUS
<1>1. InterpInv  BY DEF SoundBase, BaseInv
<1>2. n \in Nat \ {0} /\ Local = locals[n] /\ Top = stack[n]  BY <1>1, StackSizes
<1>3. /\ Len(locals') = n
      /\ \A i \in 1..n :
           locals'[i] = IF i = n THEN [locals[i] EXCEPT !.heard = Append(@, a)]
                        ELSE locals[i]
  BY <1>1, HearFacts
<1>4. HoldsRight(Top, Local, bindings)  BY <1>2 DEF StackRight
<1>5. HoldsRight(Top, [Local EXCEPT !.heard = Append(@, a)], bindings)
  BY <1>1, <1>4, HearsRight DEF Expects
<1>6. HoldsRight(stack[n], locals'[n], bindings)
  <2>1. n \in 1..n  BY <1>2
  <2>2. locals'[n] = [Local EXCEPT !.heard = Append(@, a)]  BY <1>2, <1>3, <2>1, Zenon
  <2> QED  BY <1>2, <1>5, <2>2, Zenon
<1> SUFFICES ASSUME NEW i \in 1..n
             PROVE  /\ HoldsRight(stack[i], locals[i], bindings)'
                    /\ i # n => Expects(stack[i], locals[i], stack[i + 1].val, bindings)'
  BY DEF StackRight
<1>7. \A r, l, env : HoldsRight(r, l, env) => HoldsRight(r, l, env)'
  BY DEF HoldsRight, EntryRight, ComparesRight
<1>8. \A r, l, x, env : Expects(r, l, x, env) => Expects(r, l, x, env)'
  BY <1>7 DEF Expects
<1> PICK r, l, e, x : r = stack[i] /\ l = locals'[i] /\ e = bindings /\ x = stack[i + 1].val
  OBVIOUS
<1>9. HoldsRight(r, l, e)
  <2>1. CASE i = n  BY <1>6, <2>1
  <2>2. CASE i # n  BY <1>3, <2>2 DEF StackRight
  <2> QED  BY <2>1, <2>2
<1>10. i # n => Expects(r, l, x, e)
  <2> SUFFICES ASSUME i # n PROVE Expects(r, l, x, e)  OBVIOUS
  <2> QED  BY <1>3 DEF StackRight
<1>11. HoldsRight(r, l, e)' /\ (i # n => Expects(r, l, x, e)')
  BY <1>7, <1>8, <1>9, <1>10
<1>12. stack'[i] = r /\ locals'[i] = l /\ bindings' = e /\ stack'[i + 1].val = x
  OBVIOUS
<1> QED  BY <1>11, <1>12

LEMMA PushRight ==
  ASSUME SoundBase, StackRight, UNCHANGED <<bindings, entries>>,
         NEW v \in Result, Activate(v), locals' = Append(locals, Fresh),
         stack # <<>> => v \in Wants
  PROVE  StackRight'
<1> PICK n : n = Len(stack)  OBVIOUS
<1>1. InterpInv  BY DEF SoundBase, BaseInv
<1>2. n \in Nat /\ (stack # <<>> => n # 0)
  BY <1>1, Sizes DEF InterpInv
<1>3. /\ Len(stack') = n + 1
      /\ \A i \in 1..n : stack'[i] = stack[i] /\ locals'[i] = locals[i]
      /\ locals'[n + 1] = Fresh
      /\ stack'[n + 1].val = v /\ stack'[n + 1].results = <<>>
      /\ stack'[n + 1].entry = 0
  <2>1. stack'[n + 1] =
          [val |-> v, pc |-> "isCacheable", key |-> Null, next |-> 1, entry |-> 0,
           results |-> <<>>, freezesAt |-> freezes, framesAt |-> Len(frames)]
    BY <1>1, PushFacts DEF InterpInv
  <2>2. stack'[n + 1].entry = 0  BY <2>1
  <2> QED  BY <1>1, <2>2, PushedFacts
<1>4. \A r, l, env : HoldsRight(r, l, env) => HoldsRight(r, l, env)'
  BY DEF HoldsRight, EntryRight, ComparesRight
<1>5. \A r, l, x, env : Expects(r, l, x, env) => Expects(r, l, x, env)'
  BY <1>4 DEF Expects
<1> SUFFICES ASSUME NEW i \in 1..(n + 1)
             PROVE  /\ HoldsRight(stack[i], locals[i], bindings)'
                    /\ i # n + 1 =>
                         Expects(stack[i], locals[i], stack[i + 1].val, bindings)'
  BY <1>3 DEF StackRight
<1> PICK r, l, e, x : r = stack'[i] /\ l = locals'[i] /\ e = bindings
                      /\ x = stack'[i + 1].val
  OBVIOUS
<1>6. HoldsRight(r, l, e)
  <2>1. CASE i = n + 1
    <3>1. r.results = <<>> /\ EntryRight(r, e)  BY <1>3, <2>1 DEF EntryRight
    <3> QED  BY <1>3, <2>1, <3>1, FreshRight, RightFacts
  <2>2. CASE i # n + 1
    <3>1. i \in 1..n  BY <1>2, <2>2
    <3> QED  BY <1>3, <3>1 DEF StackRight
  <2> QED  BY <2>1, <2>2
<1>7. ASSUME i # n + 1 PROVE Expects(r, l, x, e)
  <2>1. i \in 1..n  BY <1>2, <1>7
  <2>2. r = stack[i] /\ l = locals[i]  BY <1>3, <2>1
  <2>3. CASE i = n
    <3>1. stack # <<>>
      <4>1. stack = <<>> <=> Len(stack) = 0  BY <1>1, Sizes DEF InterpInv
      <4> QED  BY <2>1, <2>3, <4>1
    <3>2. x = v /\ v \in Wants  BY <1>3, <2>3, <3>1
    <3>3. r = Top /\ l = Local /\ HoldsRight(r, l, e)
      BY <1>1, <1>6, <2>2, <2>3, <3>1, StackSizes
    <3> QED  BY <1>1, <3>1, <3>2, <3>3, HearsRight
  <2>4. CASE i # n
    <3>1. i + 1 \in 1..n  BY <1>2, <2>1, <2>4
    <3>2. x = stack[i + 1].val  BY <1>3, <3>1
    <3> QED  BY <2>1, <2>2, <2>4, <3>2 DEF StackRight
  <2> QED  BY <2>3, <2>4
<1>8. HoldsRight(r, l, e)' /\ (i # n + 1 => Expects(r, l, x, e)')
  BY <1>4, <1>5, <1>6, <1>7
<1> QED  BY <1>8

LEMMA PopRight ==
  ASSUME SoundBase, TypeInv', EntriesTop', StackRight, stack # <<>>, EntriesExtend,
         UNCHANGED bindings, stack' = SubSeq(stack, 1, Len(stack) - 1),
         NEW a \in Answer, locals' = Hears(SubSeq(locals, 1, Len(locals) - 1), a),
         Right(Top.val, a, bindings)
  PROVE  StackRight'
<1> PICK n : n = Len(stack)  OBVIOUS
<1>1. InterpInv  BY DEF SoundBase, BaseInv
<1>2. n \in Nat \ {0} /\ Top = stack[n]  BY <1>1, StackSizes
<1>3. /\ Len(stack') = n - 1
      /\ \A i \in 1..(n - 1) :
           /\ stack'[i] = stack[i]
           /\ locals'[i] = IF i = n - 1
                           THEN [locals[i] EXCEPT !.heard = Append(@, a)]
                           ELSE locals[i]
  BY <1>1, PoppedFacts
<1>4. Agree(bindings, bindings', BlocksTo(Top.framesAt))  BY DEF Agree
<1> SUFFICES ASSUME NEW i \in 1..(n - 1)
             PROVE  /\ HoldsRight(stack[i], locals[i], bindings)'
                    /\ i # n - 1 =>
                         Expects(stack[i], locals[i], stack[i + 1].val, bindings)'
  BY <1>3 DEF StackRight
<1> PICK r, l, v : r = stack[i] /\ l = locals[i] /\ v = stack[i + 1].val  OBVIOUS
<1>5. HoldsRight(r, l, bindings)' /\ Expects(r, l, v, bindings)'
  BY <1>4, LowersRight
<1>6. CASE i # n - 1
  <2>1. i + 1 \in 1..(n - 1)  BY <1>2, <1>6
  <2>2. stack'[i] = r /\ locals'[i] = l /\ stack'[i + 1].val = v
    BY <1>3, <1>6, <2>1
  <2> QED  BY <1>5, <2>2
<1>7. CASE i = n - 1
  <2>1. v = Top.val  BY <1>2, <1>7
  <2>2. HoldsRight(r, [l EXCEPT !.heard = Append(@, a)], bindings)'
    BY <1>5, <2>1 DEF Expects
  <2>3. stack'[i] = r /\ locals'[i] = [l EXCEPT !.heard = Append(@, a)]
    BY <1>3, <1>7
  <2> QED  BY <1>7, <2>2, <2>3
<1> QED  BY <1>6, <1>7

-----------------------------------------------------------------------------
(* What is memoized and what is stored.                                    *)

EntrySound(e) ==
  \A i \in DOMAIN e.results :
    e.results[i] # NoAnswer =>
      e.results[i] = Completed(Denote(<<e.op, i>>, NoBindings))
Serves(e, o, env) ==
  \A i \in 1..Arity[o] :
    e.results[i] # NoAnswer => e.results[i] = Completed(Denote(<<o, i>>, env))

LEMMA CacheSoundParts ==
  CacheSound <=> \A k \in Key : \A n \in DOMAIN entries[k] : EntrySound(entries[k][n])
  BY DEF CacheSound, EntrySound

LEMMA MemoizesRight ==
  ASSUME TypeInv, MemoSound, UNCHANGED bindings, NEW f, MemoizeAll(f),
         \A v \in DOMAIN f : f[v] \in Answer /\ Right(v, f[v], bindings)
  PROVE  MemoSound'
<1> SUFFICES ASSUME NEW v \in Value, memo'[v] # NotMemoized
             PROVE  memo'[v].answer = Completed(Denote(v, bindings))
  BY DEF MemoSound
<1>1. CASE v \in DOMAIN f /\ Memoizable(v, f[v])
  <2>1. memo'[v].answer = f[v]  BY <1>1 DEF MemoizeAll
  <2>2. f[v] \in CompletedAnswer  BY <1>1, AnswerFacts DEF Memoizable
  <2> QED  BY <1>1, <2>1, <2>2 DEF Right
<1>2. CASE ~(v \in DOMAIN f /\ Memoizable(v, f[v]))
  <2>1. memo'[v] = memo[v]  BY <1>2 DEF MemoizeAll
  <2> QED  BY <2>1 DEF MemoSound
<1> QED  BY <1>1, <1>2

LEMMA ReturnsRight ==
  ASSUME TypeInv, MemoSound, UNCHANGED bindings, NEW a \in Answer,
         Right(Top.val, a, bindings), Return(a)
  PROVE  MemoSound'
<1>1. CASE Len(stack) > 1
  <2>1. MemoizeAll([x \in {Top.val} |-> a])  BY <1>1 DEF Return
  <2> PICK f : f = [x \in {Top.val} |-> a]  OBVIOUS
  <2>2. \A v \in DOMAIN f : f[v] \in Answer /\ Right(v, f[v], bindings)  OBVIOUS
  <2> QED  BY <2>1, <2>2, MemoizesRight
<1>2. CASE ~(Len(stack) > 1)
  <2>1. UNCHANGED memo  BY <1>2 DEF Return
  <2> QED  BY <2>1 DEF MemoSound
<1> QED  BY <1>1, <1>2

LEMMA EvaluatedRight ==
  ASSUME TypeInv, MemoSound, stack # <<>>, UNCHANGED bindings,
         NEW results \in Answers(TopOp),
         AllRight(results, ResultsOf(TopOp), bindings), NEW e,
         e.results \in Seq(Known \cup {NoAnswer}), Len(e.results) = Arity[TopOp],
         Serves(e, TopOp, bindings), ReturnEvaluated(results, e)
  PROVE  MemoSound' /\ \E a \in Answer : Leave(a) /\ Right(Top.val, a, bindings)
<1> PICK o, n : o = TopOp /\ n = Arity[TopOp]  OBVIOUS
<1>1. /\ o \in Op /\ Top.val \in {o} \X (1..n) /\ n \in Nat
  BY TopFacts, ValueFacts DEF TopOp
<1>2. \A i \in 1..n : results[i] \in Answer /\ Right(<<o, i>>, results[i], bindings)
  <2>1. \A i \in 1..n : results[i] \in Answer /\ i \in DOMAIN results  BY DEF Answers
  <2>2. \A i \in 1..n : ResultsOf(o)[i] = <<o, i>>  BY DEF ResultsOf
  <2> QED  BY <2>1, <2>2 DEF AllRight
<1>3. \A i \in 1..n : e.results[i] # NoAnswer =>
        e.results[i] \in Answer /\ Right(<<o, i>>, e.results[i], bindings)
  <2>1. \A i \in 1..n : e.results[i] \in Known \cup {NoAnswer}  OBVIOUS
  <2>2. Known \subseteq Answer  BY AnswerFacts
  <2> QED  BY <2>1, <2>2 DEF Serves, Right
<1> PICK f : f = [x \in {o} \X (1..n) |-> IF e.results[x[2]] # NoAnswer
                                          THEN e.results[x[2]] ELSE results[x[2]]]
  OBVIOUS
<1>4. Leave(f[Top.val]) /\ MemoizeAll(f)  BY DEF ReturnEvaluated
<1>5. \A v \in DOMAIN f : f[v] \in Answer /\ Right(v, f[v], bindings)
  <2> TAKE v \in DOMAIN f
  <2>1. v \in {o} \X (1..n)  OBVIOUS
  <2>2. v = <<o, v[2]>> /\ v[2] \in 1..n  BY <2>1
  <2>3. f[v] = IF e.results[v[2]] # NoAnswer THEN e.results[v[2]] ELSE results[v[2]]
    BY <2>1
  <2> QED  BY <1>2, <1>3, <2>2, <2>3
<1>6. MemoSound'  BY <1>4, <1>5, MemoizesRight
<1>7. Top.val \in DOMAIN f  BY <1>1
<1> QED  BY <1>4, <1>5, <1>6, <1>7

LEMMA NoBindingsFacts == NoBindings \in Environment
  BY DEF NoBindings, Environment

LEMMA TopMeaning ==
  ASSUME Grounded, NEW o \in Op, Scope[<<o, 1>>] = {}, NEW i \in 1..Arity[o],
         NEW env \in Environment
  PROVE  Denote(<<o, i>>, env) = Denote(<<o, i>>, NoBindings)
<1>1. <<o, i>> \in Value /\ Scope[<<o, i>>] = {}
  BY ValueFacts DEF Grounded, Visible
<1>2. Agree(env, NoBindings, {})  BY DEF Agree
<1> QED  BY <1>1, <1>2, NoBindingsFacts, RightAgrees DEF Grounded

LEMMA ServesFacts ==
  ASSUME Grounded, NEW e \in Entry, Len(e.results) = Arity[e.op],
         Scope[<<e.op, 1>>] = {}, EntrySound(e), NEW o \in Op,
         NEW env \in Environment, SameResults(o, e.op, env)
  PROVE  Serves(e, o, env)
<1> SUFFICES ASSUME NEW i \in 1..Arity[o], e.results[i] # NoAnswer
             PROVE  e.results[i] = Completed(Denote(<<o, i>>, env))
  BY DEF Serves
<1>1. i \in 1..Arity[e.op] /\ e.op \in Op
      /\ Denote(<<o, i>>, env) = Denote(<<e.op, i>>, env)
  BY DEF SameResults, Entry
<1>2. i \in DOMAIN e.results  BY <1>1 DEF Entry
<1>3. e.results[i] = Completed(Denote(<<e.op, i>>, NoBindings))
  BY <1>2 DEF EntrySound
<1> QED  BY <1>1, <1>3, TopMeaning

LEMMA FilledSound ==
  ASSUME Grounded, NEW e \in Entry, Len(e.results) = Arity[e.op],
         Scope[<<e.op, 1>>] = {}, EntrySound(e), NEW o \in Op,
         NEW env \in Environment, SameResults(o, e.op, env),
         NEW answers \in Answers(o), AllRight(answers, ResultsOf(o), env)
  PROVE  EntrySound(Filled(e, answers)) /\ Serves(Filled(e, answers), o, env)
<1> PICK f : f = Filled(e, answers)  OBVIOUS
<1>1. /\ f \in Entry /\ f.op = e.op /\ Len(f.results) = Len(e.results)
      /\ e.op \in Op /\ Arity[o] = Arity[e.op] /\ Arity[o] \in Nat
  BY FilledType, ValueFacts DEF Entry, SameResults
<1>2. DOMAIN f.results = 1..Arity[o] /\ DOMAIN e.results = 1..Arity[o]
  BY <1>1 DEF Entry
<1>3. \A i \in 1..Arity[o] :
        f.results[i] = IF Storable(e.results[i], answers[i]) THEN answers[i]
                       ELSE e.results[i]
  BY <1>2 DEF Filled, Entry
<1>4. EntrySound(f)
  <2> SUFFICES ASSUME NEW i \in 1..Arity[o], f.results[i] # NoAnswer
               PROVE  f.results[i] = Completed(Denote(<<e.op, i>>, NoBindings))
    BY <1>1, <1>2 DEF EntrySound
  <2>1. CASE Storable(e.results[i], answers[i])
    <3>1. f.results[i] = answers[i] /\ answers[i] \in CompletedAnswer
      BY <1>3, <2>1, AnswerFacts DEF Storable
    <3>2. i \in DOMAIN answers /\ ResultsOf(o)[i] = <<o, i>>  BY DEF Answers, ResultsOf
    <3>3. answers[i] = Completed(Denote(<<o, i>>, env))
      BY <3>1, <3>2 DEF AllRight, Right
    <3>4. Denote(<<o, i>>, env) = Denote(<<e.op, i>>, NoBindings)
      BY <1>1, TopMeaning DEF SameResults
    <3> QED  BY <3>1, <3>3, <3>4
  <2>2. CASE ~Storable(e.results[i], answers[i])
    BY <1>2, <1>3, <2>2 DEF EntrySound
  <2> QED  BY <2>1, <2>2
<1> QED  BY <1>1, <1>4, ServesFacts

LeavesRight ==
  /\ \E a \in Answer : Leave(a) /\ Right(Top.val, a, bindings)
  /\ UNCHANGED bindings
MovesRight ==
  /\ \E r : /\ Become(r) /\ r.val = Top.val
            /\ AllRight(r.results, ResultsOf(TopOp), bindings) /\ EntryRight(r, bindings)
  /\ UNCHANGED <<bindings, entries, memo>>

LEMMA FittingEntry ==
  ASSUME SoundBase, CacheSound, stack # <<>>, Top.key \in Key, NEW n,
         FitsAt(Top, n, entries)
  PROVE  /\ n \in DOMAIN entries[Top.key] /\ entries[Top.key][n] \in Entry
         /\ Len(entries[Top.key][n].results) = Arity[entries[Top.key][n].op]
         /\ Len(entries[Top.key][n].results) = Arity[TopOp]
         /\ Scope[<<entries[Top.key][n].op, 1>>] = {}
         /\ EntrySound(entries[Top.key][n])
         /\ entries \in [Key -> Seq(Entry)] /\ Top.key # Null
<1>1. TypeInv /\ EntriesTop  BY DEF SoundBase, BaseInv, InterpInv, ScopedInv
<1>2. entries \in [Key -> Seq(Entry)] /\ EntriesShaped  BY <1>1 DEF TypeInv, TypeOK
<1>3. Top.key # Null  BY AnswerAssumption
<1>4. n \in DOMAIN entries[Top.key] /\ Len(entries[Top.key][n].results) = Arity[TopOp]
  BY <1>3 DEF FitsAt, Bucket, TopOp
<1>5. entries[Top.key] \in Seq(Entry)  BY <1>2
<1>6. entries[Top.key][n] \in Entry  BY <1>4, <1>5
<1>7. EntrySound(entries[Top.key][n])  BY <1>4, CacheSoundParts
<1> QED  BY <1>1, <1>2, <1>3, <1>4, <1>6, <1>7 DEF EntriesTop, EntriesShaped

LEMMA StoreInRight ==
  ASSUME SoundBase, MemoSound, CacheSound, stack # <<>>, Top.key \in Key, NEW n,
         FitsAt(Top, n, entries),
         SameResults(TopOp, entries[Top.key][n].op, bindings), UNCHANGED bindings,
         NEW answers \in Answers(TopOp),
         AllRight(answers, ResultsOf(TopOp), bindings), StoreIn(n, answers)
  PROVE  MemoSound' /\ CacheSound' /\ LeavesRight
<1> PICK k, e : k = Top.key /\ e = entries[Top.key][n]  OBVIOUS
<1> PICK f : f = Filled(e, answers)  OBVIOUS
<1>1. TypeInv /\ Grounded /\ bindings \in Environment /\ TopOp \in Op
  BY TopFacts DEF SoundBase, BaseInv, InterpInv, TypeInv, TypeOK, Environment
<1>2. /\ n \in DOMAIN entries[k] /\ e \in Entry /\ Len(e.results) = Arity[e.op]
      /\ Len(e.results) = Arity[TopOp] /\ Scope[<<e.op, 1>>] = {} /\ EntrySound(e)
      /\ entries \in [Key -> Seq(Entry)] /\ k \in Key
  BY FittingEntry
<1>3. EntrySound(f) /\ Serves(f, TopOp, bindings)
  BY <1>1, <1>2, FilledSound
<1>4. f \in Entry /\ Len(f.results) = Arity[TopOp] /\ f.results \in Seq(Known \cup {NoAnswer})
  BY <1>2, FilledType DEF Entry
<1>5. entries' = [entries EXCEPT ![k][n] = f] /\ ReturnEvaluated(answers, f)
  BY DEF StoreIn
<1>6. MemoSound' /\ LeavesRight
  BY <1>1, <1>3, <1>4, <1>5, EvaluatedRight DEF LeavesRight
<1>7. ASSUME NEW m \in Key, NEW i \in DOMAIN entries'[m]
      PROVE  EntrySound(entries'[m][i])
  <2>1. CASE m = k /\ i = n
    <3>1. entries'[m][i] = f  BY <1>2, <1>5, <2>1
    <3> QED  BY <1>3, <3>1
  <2>2. CASE ~(m = k /\ i = n)
    <3>1. i \in DOMAIN entries[m] /\ entries'[m][i] = entries[m][i]
      BY <1>2, <1>5, <2>2
    <3> QED  BY <3>1, CacheSoundParts
  <2> QED  BY <2>1, <2>2
<1>8. CacheSound'  BY <1>7 DEF CacheSound, EntrySound
<1> QED  BY <1>6, <1>8

LEMMA StoreNewRight ==
  ASSUME SoundBase, MemoSound, CacheSound, EntriesTop', stack # <<>>, Top.key \in Key,
         UNCHANGED bindings, NEW answers \in Answers(TopOp),
         AllRight(answers, ResultsOf(TopOp), bindings), StoreNew(answers)
  PROVE  MemoSound' /\ CacheSound' /\ LeavesRight
<1> PICK k, e, o : k = Top.key /\ e = NoEntry(TopOp) /\ o = TopOp  OBVIOUS
<1> PICK f : f = Filled(e, answers)  OBVIOUS
<1>1. /\ TypeInv /\ Grounded /\ bindings \in Environment /\ o \in Op
      /\ entries \in [Key -> Seq(Entry)] /\ k \in Key
  BY TopFacts DEF SoundBase, BaseInv, InterpInv, TypeInv, TypeOK, Environment
<1>2. e \in Entry /\ Len(e.results) = Arity[o] /\ e.op = o
  BY <1>1, NoEntryType
<1>3. entries' = [entries EXCEPT ![k] = Append(@, f)] /\ ReturnEvaluated(answers, f)
  BY DEF StoreNew
<1>4. f \in Entry /\ f.op = o /\ Len(f.results) = Arity[o]
      /\ f.results \in Seq(Known \cup {NoAnswer})
  BY <1>2, FilledType DEF Entry
<1> PICK b : b = entries[k]  OBVIOUS
<1>5. b \in Seq(Entry) /\ Len(b) \in Nat /\ entries'[k] = Append(b, f)
      /\ DOMAIN Append(b, f) = 1..(Len(b) + 1) /\ Append(b, f)[Len(b) + 1] = f
      /\ \A i \in 1..Len(b) : Append(b, f)[i] = b[i] /\ i \in DOMAIN b
  BY <1>1, <1>3, <1>4
<1>6. Scope[<<o, 1>>] = {}
  <2>1. Len(b) + 1 \in DOMAIN entries'[k] /\ entries'[k][Len(b) + 1] = f
    BY <1>5
  <2> QED  BY <1>1, <1>4, <2>1 DEF EntriesTop
<1>7. EntrySound(e)
  <2>1. \A i \in DOMAIN e.results : e.results[i] = NoAnswer  BY DEF NoEntry
  <2> QED  BY <2>1 DEF EntrySound
<1>8. SameResults(o, e.op, bindings)  BY <1>2 DEF SameResults
<1>9. EntrySound(f) /\ Serves(f, o, bindings)
  BY <1>1, <1>2, <1>6, <1>7, <1>8, FilledSound
<1>10. MemoSound' /\ LeavesRight
  BY <1>1, <1>3, <1>4, <1>9, EvaluatedRight DEF LeavesRight
<1>11. ASSUME NEW m \in Key, NEW i \in DOMAIN entries'[m]
       PROVE  EntrySound(entries'[m][i])
  <2>1. CASE m # k
    <3>1. entries'[m] = entries[m]  BY <1>1, <1>3, <2>1
    <3> QED  BY <3>1, CacheSoundParts
  <2>2. CASE m = k /\ i = Len(b) + 1
    <3>1. entries'[m][i] = f  BY <1>5, <2>2
    <3> QED  BY <1>9, <3>1
  <2>3. CASE m = k /\ i # Len(b) + 1
    <3>1. i \in DOMAIN entries[m] /\ entries'[m][i] = entries[m][i]
      BY <1>5, <2>3
    <3> QED  BY <3>1, CacheSoundParts
  <2> QED  BY <2>1, <2>2, <2>3
<1>12. CacheSound'  BY <1>11 DEF CacheSound, EntrySound
<1> QED  BY <1>10, <1>12

LEMMA SearchEndsRight ==
  ASSUME SoundBase, MemoSound, CacheSound, EntriesTop', stack # <<>>, Searching(Top),
         HoldsRight(Top, Local, bindings), NEW n \in Nat,
         n # 0 => /\ FitsAt(Top, n, entries)
                  /\ SameResults(TopOp, entries[Top.key][n].op, bindings),
         SearchEnds(n)
  PROVE  MemoSound' /\ CacheSound' /\ (LeavesRight \/ MovesRight)
<1>1. /\ TypeInv /\ Grounded /\ bindings \in Environment /\ TopOp \in Op
      /\ Top \in Activation /\ Top.val \in Result /\ Shaped(Top)
  BY TopFacts DEF SoundBase, BaseInv, InterpInv, TypeInv, TypeOK, Environment
<1>2. Top.key \in Key  BY <1>1 DEF Shaped, Activation
<1>3. UNCHANGED bindings  BY DEF SearchEnds, scopes
<1>4. AllRight(Top.results, ResultsOf(TopOp), bindings)
  BY DEF HoldsRight, TopOp
<1>5. CASE Top.results = <<>> /\ LookupEnds(n)
  <2> PICK slot : slot = IF n = 0 THEN NoAnswer
                         ELSE entries[Top.key][n].results[Top.val[2]]
    OBVIOUS
  <2>1. \/ slot # NoAnswer /\ Return(slot)
        \/ slot = NoAnswer
           /\ Become([Top EXCEPT !.pc = "charge", !.entry = n]) /\ UNCHANGED memo
    BY <1>5 DEF LookupEnds
  <2>2. UNCHANGED entries  BY <1>5 DEF LookupEnds
  <2>3. CacheSound'  BY <2>2 DEF CacheSound
  <2>4. CASE slot # NoAnswer /\ Return(slot)
    <3>1. n # 0 /\ slot = entries[Top.key][n].results[Top.val[2]]  BY <2>4
    <3> PICK e : e = entries[Top.key][n]  OBVIOUS
    <3>2. /\ e \in Entry /\ Len(e.results) = Arity[e.op] /\ Len(e.results) = Arity[TopOp]
          /\ Scope[<<e.op, 1>>] = {} /\ EntrySound(e)
      BY <1>2, <3>1, FittingEntry
    <3>3. Serves(e, TopOp, bindings)  BY <1>1, <3>1, <3>2, ServesFacts
    <3>4. Top.val[2] \in 1..Arity[TopOp] /\ Top.val = <<TopOp, Top.val[2]>>
      BY <1>1, ValueFacts DEF TopOp
    <3>5. Right(Top.val, slot, bindings)
      BY <2>4, <3>1, <3>3, <3>4 DEF Serves, Right
    <3>6. slot \in Answer
      <4>1. e.results \in Seq(Known \cup {NoAnswer}) /\ Arity[TopOp] \in Nat
        BY <1>1, <3>2, ValueFacts DEF Entry
      <4>2. slot \in Known \cup {NoAnswer}  BY <3>1, <3>2, <3>4, <4>1
      <4> QED  BY <2>4, <4>2, AnswerFacts
    <3>7. MemoSound'  BY <1>1, <1>3, <2>4, <3>5, <3>6, ReturnsRight
    <3>8. Leave(slot)  BY <2>4 DEF Return
    <3> QED  BY <1>3, <2>3, <3>5, <3>6, <3>7, <3>8 DEF LeavesRight
  <2>5. CASE Become([Top EXCEPT !.pc = "charge", !.entry = n]) /\ UNCHANGED memo
    <3> PICK r : r = [Top EXCEPT !.pc = "charge", !.entry = n]  OBVIOUS
    <3>1. /\ r.val = Top.val /\ r.results = Top.results /\ r.entry = n
          /\ r.key = Top.key
      BY <1>1 DEF Activation
    <3>2. EntryRight(r, bindings)  BY <3>1 DEF EntryRight, TopOp
    <3>3. MemoSound'  BY <1>3, <2>5 DEF MemoSound
    <3>4. Become(r)  BY <2>5
    <3>5. MovesRight
      BY <1>3, <1>4, <2>2, <2>5, <3>1, <3>2, <3>4 DEF MovesRight
    <3> QED  BY <2>3, <3>3, <3>5
  <2> QED  BY <2>1, <2>4, <2>5
<1>6. CASE Top.results # <<>> /\ InsertEnds(n)
  <2>1. Top.results \in Answers(TopOp)
    <3>1. Top.results \in Seq(Answer) /\ Len(Top.results) = Arity[TopOp]
      BY <1>1, <1>6 DEF Shaped, Activation, TopOp
    <3> QED  BY <3>1 DEF Answers
  <2>2. CASE n = 0
    <3>1. StoreNew(Top.results)  BY <1>6, <2>2 DEF InsertEnds
    <3> QED  BY <1>2, <1>3, <1>4, <2>1, <3>1, StoreNewRight
  <2>3. CASE n # 0
    <3>1. StoreIn(n, Top.results)  BY <1>6, <2>3 DEF InsertEnds
    <3> QED  BY <1>2, <1>3, <1>4, <2>1, <2>3, <3>1, StoreInRight
  <2> QED  BY <2>2, <2>3
<1> QED  BY <1>5, <1>6 DEF SearchEnds

-----------------------------------------------------------------------------
(* The comparison: operations it finds equivalent mean the same.           *)

LEMMA AlikeEqual ==
  ASSUME Grounded, NEW o, NEW p, NEW env \in Environment, NEW h \in Seq(Answer),
         AllRight(h, LoopQueries(o, p), env), EqualSoFar(o, p, h),
         ~(Len(h) < Len(LoopQueries(o, p)))
  PROVE  SameResults(o, p, env)
<1> PICK q, n : q = LoopQueries(o, p) /\ n = Len(Operands[o])  OBVIOUS
<1>1. /\ <<o, p>> \in Alike /\ o \in Loops /\ p \in Loops /\ Arity[o] = Arity[p]
      /\ o \in Op /\ p \in Op
  BY InterpAssumption DEF EqualSoFar, Loops
<1>2. Paired(q, o, p, n)  BY <1>1, QueriesFacts
<1>3. PICK m \in Nat : PairsTo(q, o, p, n, m)  BY <1>2 DEF Paired
<1>4. q \in Seq(Value) /\ Len(q) = 2 * m  BY <1>2, <1>3 DEF Paired, PairsTo
<1>5. DOMAIN Operands[o] = 1..n /\ DOMAIN Operands[p] = 1..n
  BY <1>1, OperandFacts, ProgramFacts
<1>6. DOMAIN h = 1..Len(h) /\ Len(h) \in Nat /\ ~(Len(h) < 2 * m)
  BY <1>4, HeardFacts
<1>7. \A k \in 1..(2 * m) : /\ k \in DOMAIN h /\ h[k] \in Answer /\ ~IsSignal(h[k])
                            /\ Right(q[k], h[k], env) /\ q[k] \in Value
  <2> TAKE k \in 1..(2 * m)
  <2>1. k \in DOMAIN h  BY <1>6
  <2>2. h[k] \in Answer /\ Right(q[k], h[k], env)  BY <2>1, HeardFacts DEF AllRight
  <2>3. ~IsSignal(h[k])  BY <2>1 DEF EqualSoFar, Has
  <2> QED  BY <1>4, <2>1, <2>2, <2>3
<1>8. \A i \in 1..n : Denote(Operands[o][i], env) = Denote(Operands[p][i], env)
  <2> TAKE i \in 1..n
  <2>1. CASE Operands[o][i] = Operands[p][i]  BY <2>1
  <2>2. CASE Operands[o][i] # Operands[p][i]
    <3>1. PICK j \in 1..m : PairAt(q, o, p, j, i)  BY <1>3, <2>2 DEF PairsTo
    <3> PICK a, b : a = 2 * j - 1 /\ b = 2 * j  OBVIOUS
    <3>2. /\ a \in 1..(2 * m) /\ b \in 1..(2 * m) /\ a = b - 1 /\ b % 2 # 1
      BY <1>3
    <3>3. q[a] = Operands[o][i] /\ q[b] = Operands[p][i]  BY <3>1 DEF PairAt
    <3>4. h[b] = h[a]  BY <1>7, <3>2 DEF EqualSoFar, SomeUnequal
    <3>5. /\ h[a].value = Denote(q[a], env) /\ h[b].value = Denote(q[b], env)
      BY <1>7, <3>2, RightValue DEF Grounded
    <3> QED  BY <3>3, <3>4, <3>5
  <2> QED  BY <2>1, <2>2
<1>9. \A i \in 1..Arity[o] : Denote(<<o, i>>, env) = Denote(<<p, i>>, env)
  <2> PICK t : t = <<o, p>>  OBVIOUS
  <2>1. t \in Alike /\ t[1] = o /\ t[2] = p  BY <1>1
  <2>2. \A i \in DOMAIN Operands[t[1]] :
          Denote(Operands[t[1]][i], env) = Denote(Operands[t[2]][i], env)
    BY <1>5, <1>8, <2>1
  <2>3. \A i \in 1..Arity[t[1]] : Denote(<<t[1], i>>, env) = Denote(<<t[2], i>>, env)
    BY <2>1, <2>2 DEF Grounded, AlikeMeansEqual
  <2> QED  BY <2>1, <2>3
<1> QED  BY <1>1, <1>9 DEF SameResults

LEMMA KeysEqual ==
  ASSUME Grounded, NEW o \in Op, NEW p \in Op, NEW env \in Environment,
         Comparable(o, p), NEW g \in Seq(Answer), NEW h \in Seq(Answer),
         AllRight(g, Operands[o], env), AllRight(h, Operands[p], env),
         ~BinaryPending(o, g), ~Has(g, IsSignal),
         ~BinaryPending(p, h), ~Has(h, IsSignal),
         SameKey(o, BinaryKey(o, g), BinaryKey(p, h))
  PROVE  SameResults(o, p, env)
<1>1. /\ o \in Op \ Loops /\ p \in Op \ Loops /\ Kind[o] = Kind[p]
      /\ Arity[o] = 1 /\ Arity[p] = 1
  BY OperandFacts DEF Comparable, Loops
<1>2. BinaryResult(o, g) = BinaryResult(p, h)  BY <1>1, EqualKeysEqualResults
<1>3. BinaryResult(o, g) = Completed(Denote(<<o, 1>>, env))
  BY <1>1, BinaryRight DEF Grounded
<1>4. BinaryResult(p, h) = Completed(Denote(<<p, 1>>, env))
  BY <1>1, BinaryRight DEF Grounded
<1>5. Denote(<<o, 1>>, env) = Denote(<<p, 1>>, env)
  <2>1. \A x : Completed(x).value = x  BY DEF Completed
  <2>2. Completed(Denote(<<o, 1>>, env)) = Completed(Denote(<<p, 1>>, env))
    BY <1>2, <1>3, <1>4
  <2>3. Completed(Denote(<<o, 1>>, env)).value = Completed(Denote(<<p, 1>>, env)).value
    BY <2>2
  <2> QED  BY <2>1, <2>3
<1> QED  BY <1>1, <1>5 DEF SameResults

LEMMA ComparedEqual ==
  ASSUME SoundBase, stack # <<>>, Top.pc = "compare", Wants = {},
         HoldsRight(Top, Local, bindings),
         \/ EqualSoFar(TopOp, Candidate.op, Heard)
         \/ /\ Comparable(TopOp, Candidate.op) /\ ~Has(Heard, IsSignal)
            /\ SameKey(TopOp, BinaryKey(TopOp, OwnHeard(TopOp, Heard)),
                       BinaryKey(Candidate.op, OtherHeard(TopOp, Heard)))
  PROVE  SameResults(TopOp, Candidate.op, bindings)
<1> PICK o, p, h : o = TopOp /\ p = Candidate.op /\ h = Heard  OBVIOUS
<1>1. /\ InterpInv /\ TypeInv /\ Grounded /\ bindings \in Environment
  BY DEF SoundBase, BaseInv, InterpInv, TypeInv, TypeOK, Environment
<1>2. o \in Op /\ p \in Op /\ h \in Seq(Answer)
  BY <1>1, TopFacts, ComparedOp, HeardType
<1>3. ComparedRight(o, p, h, bindings)
  BY DEF HoldsRight, ComparesRight, TopOp, Candidate, Heard
<1>4. CompareWants(o, p) = {}  BY DEF Wants
<1>5. CASE EqualSoFar(o, p, h)
  <2>1. o \in Loops  BY <1>5, InterpAssumption DEF EqualSoFar
  <2>2. LoopWants(o, p) = {}  BY <1>4, <2>1 DEF CompareWants
  <2>3. ~(Len(h) < Len(LoopQueries(o, p)))  BY <1>5, <2>2 DEF LoopWants
  <2>4. AllRight(h, LoopQueries(o, p), bindings)  BY <1>3, <2>1 DEF ComparedRight
  <2> QED  BY <1>1, <1>2, <1>5, <2>3, <2>4, AlikeEqual
<1>6. CASE /\ Comparable(o, p) /\ ~Has(h, IsSignal)
           /\ SameKey(o, BinaryKey(o, OwnHeard(o, h)), BinaryKey(p, OtherHeard(o, h)))
  <2>1. o \notin Loops  BY <1>6 DEF Comparable
  <2> PICK g, t : g = OwnHeard(o, h) /\ t = OtherHeard(o, h)  OBVIOUS
  <2>2. AllRight(g, Operands[o], bindings) /\ AllRight(t, Operands[p], bindings)
    BY <1>3, <2>1 DEF ComparedRight
  <2>3. /\ g \in Seq(Answer) /\ t \in Seq(Answer)
        /\ Len(g) <= Len(h) /\ Len(h) = Len(g) + Len(t)
        /\ \A i \in 1..Len(g) : g[i] = h[i]
        /\ \A i \in 1..Len(t) : t[i] = h[Len(g) + i]
    BY <1>2, SplitHeard
  <2>4. /\ DOMAIN g = 1..Len(g) /\ DOMAIN t = 1..Len(t) /\ DOMAIN h = 1..Len(h)
        /\ Len(g) \in Nat /\ Len(t) \in Nat /\ Len(h) \in Nat
    BY <1>2, <2>3, HeardFacts
  <2>5. \A i \in DOMAIN h : ~IsSignal(h[i])  BY <1>6 DEF Has
  <2>6. ~Has(g, IsSignal)
    <3>1. \A i \in DOMAIN g : i \in DOMAIN h /\ g[i] = h[i]  BY <2>3, <2>4
    <3> QED  BY <2>5, <3>1 DEF Has
  <2>7. ~Has(t, IsSignal)
    <3> PICK x, y, z : x = Len(g) /\ y = Len(t) /\ z = Len(h)  OBVIOUS
    <3>1. \A i \in DOMAIN t : x + i \in DOMAIN h /\ t[i] = h[x + i]
      <4> TAKE i \in DOMAIN t
      <4>1. i \in 1..y /\ x \in Nat /\ y \in Nat /\ z = x + y  BY <2>3, <2>4
      <4>2. x + i \in 1..z  BY <4>1
      <4> QED  BY <2>3, <2>4, <4>1, <4>2
    <3> QED  BY <2>5, <3>1 DEF Has
  <2>8. ~BinaryPending(o, g)
    BY <1>4, <1>6, <2>1 DEF CompareWants, BinaryWants
  <2>9. ~BinaryPending(p, t)
    BY <1>4, <1>6, <2>1, <2>8 DEF CompareWants, BinaryWants
  <2> QED
    BY <1>1, <1>2, <1>6, <2>2, <2>3, <2>6, <2>7, <2>8, <2>9, KeysEqual
<1> QED  BY <1>5, <1>6

-----------------------------------------------------------------------------
(* The callbacks return.                                                   *)

LEMMA MovesOnRight ==
  ASSUME SoundBase, MemoSound, CacheSound, HoldsRight(Top, Local, bindings),
         NEW r, Become(r), r.val = Top.val, r.results = Top.results,
         r.entry = 0 \/ (r.entry = Top.entry /\ r.key = Top.key),
         UNCHANGED <<bindings, entries, memo>>
  PROVE  MemoSound' /\ CacheSound' /\ MovesRight
<1>1. AllRight(r.results, ResultsOf(TopOp), bindings)  BY DEF HoldsRight, TopOp
<1>2. EntryRight(Top, bindings)  BY DEF HoldsRight
<1>3. EntryRight(r, bindings)  BY <1>2 DEF EntryRight
<1>4. MemoSound' /\ CacheSound'  BY DEF MemoSound, CacheSound
<1> QED  BY <1>1, <1>3, <1>4 DEF MovesRight

LEMMA SignalLeavesRight ==
  ASSUME SoundBase, MemoSound, CacheSound, NEW s \in Signal, Return(Signaled(s)),
         UNCHANGED <<bindings, entries>>
  PROVE  MemoSound' /\ CacheSound' /\ LeavesRight
<1>1. Signaled(s) \in Answer /\ Right(Top.val, Signaled(s), bindings)
  BY AnswerFacts, RightFacts
<1>2. MemoSound'  BY <1>1, ReturnsRight DEF SoundBase, BaseInv, InterpInv
<1>3. LeavesRight  BY <1>1 DEF LeavesRight, Return
<1> QED  BY <1>2, <1>3 DEF CacheSound

LEMMA EvaluateReturnRight ==
  ASSUME SoundBase, MemoSound, CacheSound, stack # <<>>,
         HoldsRight(Top, Local, bindings), NEW results \in Answers(TopOp),
         AllRight(results, ResultsOf(TopOp), bindings), EvaluateReturn(results)
  PROVE  MemoSound' /\ CacheSound' /\ (LeavesRight \/ MovesRight)
<1>1. /\ TypeInv /\ bindings \in Environment /\ TopOp \in Op
      /\ Top \in Activation /\ Fits(Top, entries)
  BY TopFacts DEF SoundBase, BaseInv, InterpInv, TypeInv, TypeOK, Environment
<1>2. UNCHANGED bindings  BY DEF EvaluateReturn, scopes
<1>3. CASE ReturnEvaluated(results, NoEntry(TopOp)) /\ UNCHANGED entries
  <2> PICK e : e = NoEntry(TopOp)  OBVIOUS
  <2>1. e.results \in Seq(Known \cup {NoAnswer}) /\ Len(e.results) = Arity[TopOp]
    BY <1>1, NoEntryType DEF Entry
  <2>2. Serves(e, TopOp, bindings)
    <3>1. \A i \in 1..Arity[TopOp] : e.results[i] = NoAnswer  BY DEF NoEntry
    <3> QED  BY <3>1 DEF Serves
  <2>3. MemoSound' /\ LeavesRight
    BY <1>1, <1>2, <1>3, <2>1, <2>2, EvaluatedRight DEF LeavesRight
  <2> QED  BY <1>3, <2>3 DEF CacheSound
<1>4. CASE Stores(results) /\ Top.entry # 0 /\ StoreIn(Top.entry, results)
  <2>1. Top.key \in Key /\ FitsAt(Top, Top.entry, entries)
    BY <1>1, <1>4 DEF Stores, Activation, Fits
  <2>2. SameResults(TopOp, entries[Top.key][Top.entry].op, bindings)
    BY <1>4 DEF HoldsRight, EntryRight, TopOp
  <2> QED  BY <1>2, <1>4, <2>1, <2>2, StoreInRight
<1>5. CASE /\ Become([Top EXCEPT !.pc = "search", !.results = results])
           /\ UNCHANGED <<memo, entries>>
  <2> PICK r : r = [Top EXCEPT !.pc = "search", !.results = results]  OBVIOUS
  <2>1. /\ r.val = Top.val /\ r.results = results /\ r.entry = Top.entry
        /\ r.key = Top.key
    BY <1>1 DEF Activation
  <2>2. EntryRight(Top, bindings)  BY DEF HoldsRight
  <2>3. EntryRight(r, bindings)  BY <2>1, <2>2 DEF EntryRight
  <2>4. Become(r)  BY <1>5
  <2>5. MovesRight  BY <1>2, <1>5, <2>1, <2>3, <2>4 DEF MovesRight
  <2>6. MemoSound' /\ CacheSound'  BY <1>2, <1>5 DEF MemoSound, CacheSound
  <2> QED  BY <2>5, <2>6
<1> QED  BY <1>3, <1>4, <1>5 DEF EvaluateReturn

LEMMA CallbackRight ==
  ASSUME SoundBase, HashesToKeys, MemoSound, CacheSound, EntriesTop', StackRight,
         CallbackStep
  PROVE  stack # <<>> /\ MemoSound' /\ CacheSound' /\ (LeavesRight \/ MovesRight)
<1>1. /\ InterpInv /\ TypeInv /\ Grounded
  BY DEF SoundBase, BaseInv, InterpInv
<1>2. stack # <<>>
  <2>1. CallbackReturn \/ Internal  BY <1>1, CallbackReturns
  <2> QED  BY <1>1, <2>1, ReturnAnswers
<1>3. /\ Top \in Activation /\ Shaped(Top) /\ Fits(Top, entries) /\ TopOp \in Op
      /\ Heard \in Seq(Answer)
  BY <1>1, <1>2, TopFacts, HeardType
<1>4. HoldsRight(Top, Local, bindings)
  <2>1. /\ Len(stack) \in 1..Len(stack) /\ Top = stack[Len(stack)]
        /\ Local = locals[Len(stack)]
    BY <1>1, <1>2, StackSizes
  <2> QED  BY <2>1 DEF StackRight
<1>5. \A p : LET r == [Top EXCEPT !.pc = p]
             IN /\ r.val = Top.val /\ r.results = Top.results
                /\ r.entry = Top.entry /\ r.key = Top.key
  BY <1>3 DEF Activation
<1>6. ASSUME NEW p, Become([Top EXCEPT !.pc = p]), UNCHANGED <<bindings, entries, memo>>
      PROVE  MemoSound' /\ CacheSound' /\ MovesRight
  <2> PICK r : r = [Top EXCEPT !.pc = p]  OBVIOUS
  <2>1. Become(r)  BY <1>6
  <2>2. /\ r.val = Top.val /\ r.results = Top.results
        /\ r.entry = Top.entry /\ r.key = Top.key
    BY <1>5
  <2> QED  BY <1>4, <1>6, <2>1, <2>2, MovesOnRight
<1>7. ASSUME NextCandidate, UNCHANGED <<bindings, entries, memo>>
      PROVE  MemoSound' /\ CacheSound' /\ MovesRight
  <2> PICK r : r = [Top EXCEPT !.pc = "search", !.next = @ + 1]  OBVIOUS
  <2>1. Become(r)  BY <1>7 DEF NextCandidate
  <2>2. /\ r.val = Top.val /\ r.results = Top.results
        /\ r.entry = Top.entry /\ r.key = Top.key
    BY <1>3 DEF Activation
  <2> QED  BY <1>4, <1>7, <2>1, <2>2, MovesOnRight
<1>8. CASE \E e : Eligible(e)
  <2>1. UNCHANGED <<bindings, entries, memo>>  BY <1>8 DEF Eligible, scopes, cache
  <2>2. \E p : Become([Top EXCEPT !.pc = p])  BY <1>8 DEF Eligible
  <2> QED  BY <1>2, <1>6, <2>1, <2>2
<1>9. CASE \E k : HashReturn(k)
  <2> PICK k : HashReturn(k)  BY <1>9
  <2>1. UNCHANGED <<bindings, entries, memo>>  BY DEF HashReturn, scopes, cache
  <2>2. Top.pc = "getHash" /\ Become([Top EXCEPT !.pc = "search", !.key = k])
    BY DEF HashReturn, At
  <2>3. Top.entry = 0
    <3>1. Top.key = Null  BY <1>3, <2>2 DEF Shaped
    <3>2. ~FitsAt(Top, Top.entry, entries)  BY <3>1 DEF FitsAt, Bucket
    <3> QED  BY <1>3, <3>2 DEF Fits
  <2> PICK r : r = [Top EXCEPT !.pc = "search", !.key = k]  OBVIOUS
  <2>4. Become(r)  BY <2>2
  <2>5. r.val = Top.val /\ r.results = Top.results /\ r.entry = 0
    BY <1>3, <2>3 DEF Activation
  <2> QED  BY <1>2, <1>4, <2>1, <2>4, <2>5, MovesOnRight
<1>10. CASE \E s \in Signal : KeySignal(s)
  <2> PICK s \in Signal : KeySignal(s)  BY <1>10
  <2>1. Return(Signaled(s)) /\ UNCHANGED <<bindings, entries>>
    BY DEF KeySignal, scopes, cache
  <2> QED  BY <1>2, <2>1, SignalLeavesRight
<1>11. CASE Charge
  <2>1. UNCHANGED <<bindings, entries>>  BY <1>11 DEF Charge, scopes, cache
  <2>2. CASE Return(Signaled("Exhausted"))
    <3>1. "Exhausted" \in Signal  BY AnswerAssumption
    <3> QED  BY <1>2, <2>1, <2>2, <3>1, SignalLeavesRight
  <2>3. CASE Become([Top EXCEPT !.pc = "evaluate"]) /\ UNCHANGED memo
    BY <1>2, <1>6, <2>1, <2>3
  <2> QED  BY <1>11, <2>2, <2>3 DEF Charge
<1>12. CASE SearchMiss
  <2>1. Top.pc = "search" /\ SearchEnds(0)  BY <1>12 DEF SearchMiss, At
  <2> QED  BY <1>2, <1>4, <2>1, SearchEndsRight DEF Searching
<1>13. CASE SearchOwn
  <2>1. /\ Top.pc = "search" /\ MoreCandidates /\ IsOwn(Candidate) /\ SearchEnds(Top.next)
    BY <1>13 DEF SearchOwn, At
  <2>2. Searching(Top)  BY <2>1 DEF Searching
  <2>3. Top.next \in Nat /\ FitsAt(Top, Top.next, entries)
    BY <1>1, <1>2, <2>1, <2>2, CandidateFits
  <2>4. SameResults(TopOp, entries[Top.key][Top.next].op, bindings)
    BY <2>1 DEF IsOwn, Candidate, SameResults
  <2> QED  BY <1>2, <1>4, <2>1, <2>2, <2>3, <2>4, SearchEndsRight
<1>14. CASE SearchSkip
  <2>1. NextCandidate /\ UNCHANGED <<bindings, entries, memo>>
    BY <1>14 DEF SearchSkip, scopes, cache
  <2> QED  BY <1>2, <1>7, <2>1
<1>15. CASE SearchCompare
  <2>1. Become([Top EXCEPT !.pc = "compare"]) /\ UNCHANGED <<bindings, entries, memo>>
    BY <1>15 DEF SearchCompare, scopes, cache
  <2> QED  BY <1>2, <1>6, <2>1
<1>16. CASE IsEquivalentTo
  <2> PICK q : q = (\/ EqualSoFar(TopOp, Candidate.op, Heard)
                    \/ /\ Comparable(TopOp, Candidate.op) /\ ~Has(Heard, IsSignal)
                       /\ SameKey(TopOp, BinaryKey(TopOp, OwnHeard(TopOp, Heard)),
                                  BinaryKey(Candidate.op, OtherHeard(TopOp, Heard))))
    OBVIOUS
  <2>1. CompareReturn(q) /\ Wants = {} /\ Top.pc = "compare"
    BY <1>16 DEF IsEquivalentTo, Equivalent, Decided, At
  <2>2. CASE q = TRUE /\ SearchEnds(Top.next)
    <3>1. SameResults(TopOp, Candidate.op, bindings)
      BY <1>2, <1>4, <2>1, <2>2, ComparedEqual
    <3>2. Top.next \in Nat /\ FitsAt(Top, Top.next, entries)
      BY <1>3, <2>1 DEF Activation, Fits
    <3> QED
      BY <1>2, <1>4, <2>1, <2>2, <3>1, <3>2, SearchEndsRight DEF Searching, Candidate
  <2>3. CASE NextCandidate /\ UNCHANGED <<bindings, entries, memo>>
    BY <1>2, <1>7, <2>3
  <2> QED  BY <2>1, <2>2, <2>3 DEF CompareReturn, scopes, cache
<1>17. CASE BinaryEvaluate
  <2>1. /\ Top.pc = "evaluate" /\ Wants = {} /\ TopOp \notin Loops
        /\ EvaluateReturn(<<BinaryResult(TopOp, Heard)>>)
    BY <1>17 DEF BinaryEvaluate, Decided, At
  <2> PICK o, h : o = TopOp /\ h = Heard  OBVIOUS
  <2>2. ~BinaryPending(o, h)
    BY <2>1 DEF Wants, EvaluateWants, BinaryWants
  <2>3. AllRight(h, Operands[o], bindings)
    BY <1>4, <2>1 DEF HoldsRight, OperandsRight, InLoop, TopOp, Heard
  <2>4. BinaryResult(o, h) \in Answer /\ Right(<<o, 1>>, BinaryResult(o, h), bindings)
    <3>1. BinaryResult(o, h) \in Answer  BY <1>3, <2>1, <2>2, BinaryType
    <3>2. CASE Has(h, IsSignal)
      <4>1. BinaryResult(o, h) = SignalIn(h) /\ IsSignal(SignalIn(h))
        BY <3>2, SignalHeard DEF BinaryResult, SignalIn, Has
      <4> QED  BY <3>1, <4>1, RightFacts
    <3>3. CASE ~Has(h, IsSignal)
      <4>1. bindings \in Environment  BY <1>1 DEF TypeInv, TypeOK, Environment
      <4>2. BinaryResult(o, h) = Completed(Denote(<<o, 1>>, bindings))
        BY <1>1, <1>3, <2>1, <2>2, <2>3, <3>3, <4>1, BinaryRight DEF Grounded
      <4> QED  BY <3>1, <4>2, RightFacts
    <3> QED  BY <3>2, <3>3
  <2> PICK rs : rs = <<BinaryResult(o, h)>>  OBVIOUS
  <2>5. Arity[o] = 1 /\ rs \in Answers(o) /\ AllRight(rs, ResultsOf(o), bindings)
    <3>1. Arity[o] = 1  BY <1>3, <2>1, OperandFacts
    <3>2. rs \in Answers(o)  BY <2>4, <3>1 DEF Answers
    <3>3. DOMAIN rs = {1} /\ rs[1] = BinaryResult(o, h)  OBVIOUS
    <3>4. 1 \in DOMAIN ResultsOf(o) /\ ResultsOf(o)[1] = <<o, 1>>
      BY <3>1 DEF ResultsOf
    <3> QED  BY <2>4, <3>1, <3>2, <3>3, <3>4 DEF AllRight
  <2> QED  BY <1>2, <1>4, <2>1, <2>5, EvaluateReturnRight
<1>18. \/ \E e : Eligible(e)
       \/ \E k : HashReturn(k)
       \/ \E s \in Signal : KeySignal(s)
       \/ Charge \/ SearchMiss \/ SearchOwn \/ SearchSkip \/ SearchCompare
       \/ IsEquivalentTo \/ BinaryEvaluate
  <2>1. CASE GetHash
    <3>1. Has(Heard, IsSignal) => SignalIn(Heard).status \in Signal
      BY <1>3, HeardFacts
    <3> QED  BY <2>1, <3>1 DEF GetHash
  <2> QED  BY <2>1 DEF CallbackStep, IsCacheable, Internal
<1> QED
  BY <1>8, <1>9, <1>10, <1>11, <1>12, <1>13, <1>14, <1>15, <1>16, <1>17, <1>18

-----------------------------------------------------------------------------
(* The integers of a loop's type.                                          *)

LEMMA SmallMultiple ==
  ASSUME NEW m \in Nat \ {0}, NEW t \in Int, m * t < m, -m < m * t
  PROVE  t = 0
<1>1. CASE t >= 1
  <2>1. m * t = m * (t - 1) + m  OBVIOUS
  <2>2. m * (t - 1) >= 0  BY <1>1
  <2> QED  BY <2>1, <2>2
<1>2. CASE t <= -1
  <2>1. m * t = m * (t + 1) - m  OBVIOUS
  <2>2. m * (t + 1) <= 0  BY <1>2
  <2> QED  BY <2>1, <2>2
<1> QED  BY <1>1, <1>2

LEMMA Divided ==
  ASSUME NEW m \in Nat \ {0}, NEW x \in Int
  PROVE  x = m * (x \div m) + (x % m) /\ x % m \in 0..(m - 1) /\ x \div m \in Int
<1>1. x = m * (x \div m) + (x % m)  OBVIOUS
<1>2. x % m \in 0..(m - 1)  OBVIOUS
<1> QED  BY <1>1, <1>2

LEMMA Remainder ==
  ASSUME NEW m \in Nat \ {0}, NEW x \in 0..(m - 1), NEW t \in Int
  PROVE  (x + m * t) % m = x
<1> PICK y \in Int : y = x + m * t  OBVIOUS
<1>1. PICK q \in Int : y = m * q + (y % m) /\ y % m \in 0..(m - 1)  BY Divided
<1>2. m * (q - t) = x - (y % m)  BY <1>1
<1>3. m * (q - t) < m /\ -m < m * (q - t)  BY <1>1, <1>2
<1>4. q - t = 0  BY <1>3, SmallMultiple
<1> QED  BY <1>1, <1>2, <1>4

LEMMA ModulusFacts ==
  2^Width = Modulus /\ Modulus \in Nat \ {0} /\ Val = 0..(Modulus - 1)
  BY ProgramFacts DEF Modulus

(* What x reads as differs from x by a multiple of the modulus.            *)
LEMMA ReadsFacts ==
  ASSUME NEW o \in Loops, NEW x \in Val
  PROVE  /\ AsInt(o, x) = Reads(o, x) /\ AsInt(o, x) \in Int
         /\ Representable(o, AsInt(o, x))
         /\ AsInt(o, x) % 2^Width = x
         /\ \E t \in Int : AsInt(o, x) = x + Modulus * t
<1> PICK m : m = Modulus  OBVIOUS
<1>1. 2^Width = m /\ m \in Nat \ {0} /\ x \in 0..(m - 1) /\ x \in Int /\ m \in Int
  BY ModulusFacts
<1>2. AsInt(o, x) = IF o \in Unsigned \/ 2 * x < m THEN x ELSE x - m
  BY <1>1 DEF AsInt, Signed
<1>3. AsInt(o, x) = Reads(o, x)  BY <1>1, <1>2 DEF Reads
<1>4. Representable(o, AsInt(o, x))  BY <1>1, <1>2 DEF Representable
<1>5. \E t \in Int : AsInt(o, x) = x + m * t
  <2>1. x = x + m * 0 /\ x - m = x + m * (-1)  BY <1>1
  <2>2. 0 \in Int /\ -1 \in Int  OBVIOUS
  <2> QED  BY <1>2, <2>1, <2>2
<1>6. AsInt(o, x) % m = x  BY <1>1, <1>5, Remainder
<1>7. AsInt(o, x) \in Int  BY <1>1, <1>2
<1> QED  BY <1>1, <1>3, <1>4, <1>5, <1>6, <1>7

LEMMA RepresentableFacts ==
  ASSUME NEW o \in Loops
  PROVE  /\ \A i \in Int : Representable(o, i) <=> i \in {AsInt(o, z) : z \in Val}
         /\ \A i, j, x \in Int :
              Representable(o, i) /\ Representable(o, j) /\ i <= x /\ x <= j =>
                Representable(o, x)
<1> PICK m : m = Modulus  OBVIOUS
<1>1. 2^Width = m /\ m \in Nat \ {0} /\ Val = 0..(m - 1)  BY ModulusFacts
<1>2. \A i, j, x \in Int :
        Representable(o, i) /\ Representable(o, j) /\ i <= x /\ x <= j =>
          Representable(o, x)
  BY <1>1 DEF Representable
<1>3. ASSUME NEW i \in Int, Representable(o, i)
      PROVE  \E z \in Val : AsInt(o, z) = i
  <2>1. CASE i >= 0
    <3>1. i \in Val /\ (o \in Unsigned \/ 2 * i < m)
      BY <1>1, <1>3, <2>1 DEF Representable
    <3>2. AsInt(o, i) = i  BY <1>1, <2>1, <3>1 DEF AsInt, Signed
    <3> QED  BY <3>1, <3>2
  <2>2. CASE i < 0
    <3>1. i + m \in Val /\ o \notin Unsigned /\ 2 * (i + m) >= m
      BY <1>1, <1>3, <2>2 DEF Representable
    <3>2. AsInt(o, i + m) = i  BY <1>1, <3>1 DEF AsInt, Signed
    <3> QED  BY <3>1, <3>2
  <2> QED  BY <2>1, <2>2
<1>4. \A z \in Val : Representable(o, AsInt(o, z))  BY ReadsFacts
<1> QED  BY <1>2, <1>3, <1>4

LEMMA SumReads ==
  ASSUME NEW o \in Loops, NEW x \in Val, NEW y \in Val
  PROVE  /\ Overflows(o, x, y) <=> ~Representable(o, AsInt(o, x) + AsInt(o, y))
         /\ ~Overflows(o, x, y) =>
              AsInt(o, (x + y) % Modulus) = AsInt(o, x) + AsInt(o, y)
         /\ (x + y) % Modulus \in Val
<1> PICK m, i, j : m = Modulus /\ i = AsInt(o, x) /\ j = AsInt(o, y)  OBVIOUS
<1>1. m \in Nat \ {0} /\ Val = 0..(m - 1) /\ i \in Int /\ j \in Int
  BY ModulusFacts, ReadsFacts
<1>2. Overflows(o, x, y) <=> ~Representable(o, i + j)
  BY <1>1, RepresentableFacts DEF Overflows
<1>3. ASSUME ~Overflows(o, x, y) PROVE AsInt(o, (x + y) % m) = i + j
  <2>1. PICK z \in Val : AsInt(o, z) = i + j  BY <1>3 DEF Overflows
  <2>2. PICK a \in Int : i = x + m * a  BY ReadsFacts
  <2>3. PICK b \in Int : j = y + m * b  BY ReadsFacts
  <2>4. PICK c \in Int : i + j = z + m * c
    <3>1. \E t \in Int : AsInt(o, z) = z + Modulus * t  BY <2>1, ReadsFacts
    <3> QED  BY <2>1, <3>1
  <2> PICK t \in Int : t = c - a - b  OBVIOUS
  <2>5. x \in Int /\ y \in Int /\ z \in Int /\ z \in 0..(m - 1)  BY <1>1, <2>1
  <2>6. x + y = z + m * t
    <3>1. m * t = m * c - m * a - m * b  BY <1>1
    <3> QED  BY <1>1, <2>2, <2>3, <2>4, <2>5, <3>1
  <2>7. (z + m * t) % m = z  BY <1>1, <2>5, Remainder
  <2>8. (x + y) % m = z  BY <2>6, <2>7
  <2> QED  BY <2>1, <2>8
<1> QED  BY <1>2, <1>3, SumFacts

LEMMA CeilingFacts ==
  ASSUME NEW d \in Int, NEW s \in Nat \ {0}, NEW t,
         t = IF d <= 0 THEN 0 ELSE (d + s - 1) \div s
  PROVE  /\ t \in Nat
         /\ \A k \in 0..t : (k < t <=> k * s < d) /\ k * s <= t * s
<1>1. CASE d <= 0
  <2>1. t = 0  BY <1>1
  <2>2. \A k \in 0..t : k = 0 /\ k * s = 0  BY <2>1
  <2> QED  BY <1>1, <2>1, <2>2
<1>2. CASE d > 0
  <2> PICK r \in Int : r = (d + s - 1) % s  OBVIOUS
  <2>1. t \in Int /\ d + s - 1 = s * t + r /\ r \in 0..(s - 1)
    <3>1. d + s - 1 \in Int /\ t = (d + s - 1) \div s  BY <1>2
    <3> QED  BY <3>1, Divided
  <2>2. t >= 0
    <3>1. CASE t < 0
      <4>1. s * t <= -s
        <5>1. s * t = s * (t + 1) - s  BY <2>1
        <5>2. s * (t + 1) <= 0  BY <2>1, <3>1
        <5> QED  BY <2>1, <5>1, <5>2
      <4> QED  BY <1>2, <2>1, <4>1
    <3> QED  BY <2>1, <3>1
  <2>3. t * s = s * t /\ d <= t * s /\ t * s - s < d
    BY <2>1
  <2>4. ASSUME NEW k \in 0..t PROVE (k < t <=> k * s < d) /\ k * s <= t * s
    <3>1. k * s \in Int /\ t * s \in Int  BY <2>1
    <3>2. CASE k = t  BY <2>1, <2>3, <3>1, <3>2
    <3>3. CASE k < t
      <4>1. t * s - k * s = s * (t - k)  BY <2>1
      <4>2. s * (t - k) = s + s * (t - k - 1) /\ t - k - 1 >= 0  BY <2>1, <3>3
      <4>3. s * (t - k - 1) >= 0  BY <2>1, <4>2
      <4>4. k * s <= t * s - s  BY <2>1, <3>1, <4>1, <4>2, <4>3
      <4> QED  BY <2>1, <2>3, <3>1, <3>3, <4>4
    <3> QED  BY <2>1, <3>2, <3>3
  <2> QED  BY <2>1, <2>2, <2>4
<1> QED  BY <1>1, <1>2

-----------------------------------------------------------------------------
(* A loop's steps, against its closed form.                                *)

LEMMA TripsFacts ==
  ASSUME NEW D, NEW o \in Loops, NEW env \in Environment,
         Defined(D, o, env), OperandsKnown(D, o, env), Stride(D, o, env) > 0
  PROVE  /\ Trips(D, o, env) \in Nat
         /\ InductionVariable(D, o, env, 0) = Lower(D, o, env)
         /\ \A k \in 0..Trips(D, o, env) :
              /\ InductionVariable(D, o, env, k) \in Int
              /\ k < Trips(D, o, env) <=>
                   InductionVariable(D, o, env, k) < Upper(D, o, env)
              /\ InductionVariable(D, o, env, k)
                   <= InductionVariable(D, o, env, Trips(D, o, env))
              /\ InductionVariable(D, o, env, k + 1)
                   = InductionVariable(D, o, env, k) + Stride(D, o, env)
<1> PICK l, u, s, d, t : /\ l = Lower(D, o, env) /\ u = Upper(D, o, env)
                         /\ s = Stride(D, o, env) /\ d = u - l
                         /\ t = Trips(D, o, env)
  OBVIOUS
<1>1. l \in Int /\ u \in Int /\ s \in Nat \ {0} /\ d \in Int
  BY BoundFacts
<1>2. t = IF d <= 0 THEN 0 ELSE (d + s - 1) \div s  BY DEF Trips
<1>3. /\ t \in Nat
      /\ \A k \in 0..t : (k < t <=> k * s < d) /\ k * s <= t * s
  BY <1>1, <1>2, CeilingFacts
<1>4. \A k : InductionVariable(D, o, env, k) = l + k * s
  BY DEF InductionVariable
<1>5. \A k \in 0..t : /\ k \in Nat /\ k * s \in Int /\ t * s \in Int
                      /\ (k + 1) * s = k * s + s
  BY <1>1, <1>3
<1>6. l + 0 * s = l  BY <1>1
<1>7. ASSUME NEW k \in 0..t
      PROVE  /\ l + k * s \in Int /\ (k < t <=> l + k * s < u)
             /\ l + k * s <= l + t * s /\ l + (k + 1) * s = (l + k * s) + s
  <2> PICK x, y, z : x = k * s /\ y = t * s /\ z = (k + 1) * s  OBVIOUS
  <2>1. x \in Int /\ y \in Int /\ z = x + s /\ (k < t <=> x < d) /\ x <= y
    BY <1>3, <1>5
  <2> QED  BY <1>1, <2>1
<1> QED  BY <1>3, <1>4, <1>6, <1>7

LEMMA LoopFacts ==
  ASSUME Meaningful, NEW o \in Loops, NEW env \in Environment, NEW l, LoopRight(o, l, env)
  PROVE  /\ Defined(Denotes, o, env) /\ OperandsKnown(Denotes, o, env)
         /\ Stride(Denotes, o, env) > 0 /\ Trips(Denotes, o, env) \in Nat
         /\ Unfolds(After(Denotes, o, env), Denotes, o, env)
         /\ Upper(Denotes, o, env) \in Int /\ Stride(Denotes, o, env) \in Int
         /\ o \in Op /\ Arity[o] \in Nat
<1>1. o \in Op /\ Arity[o] \in Nat  BY OperandFacts DEF Loops
<1>2. /\ Defined(Denotes, o, env) /\ OperandsKnown(Denotes, o, env)
      /\ Stride(Denotes, o, env) > 0
  BY <1>1, MeaningFacts DEF LoopRight
<1> QED  BY <1>1, <1>2, BoundFacts, AfterFacts

LEMMA NothingMeant ==
  ASSUME Meaningful, NEW o \in Loops, NEW env \in Environment,
         ~(/\ OperandsKnown(Denotes, o, env) /\ Stride(Denotes, o, env) > 0
           /\ Representable(o, InductionVariable(Denotes, o, env, Trips(Denotes, o, env))))
  PROVE  AllRight(Propagated(o, Unknown), ResultsOf(o), env)
<1>1. o \in Op  BY DEF Loops
<1>2. DenoteFor(Denotes, o, env) = [i \in 1..Arity[o] |-> Null]  BY DEF DenoteFor
<1>3. ASSUME NEW i \in 1..Arity[o] PROVE Denote(<<o, i>>, env) = Null
  BY <1>1, <1>2, DenoteResult
<1>4. /\ DOMAIN Propagated(o, Unknown) = 1..Arity[o] /\ DOMAIN ResultsOf(o) = 1..Arity[o]
      /\ \A i \in 1..Arity[o] : /\ Propagated(o, Unknown)[i] = Unknown
                                /\ ResultsOf(o)[i] = <<o, i>>
  BY DEF Propagated, ResultsOf
<1>5. Unknown = Completed(Null)  BY DEF Unknown
<1> QED  BY <1>3, <1>4, <1>5, Zenon DEF AllRight, Right

LEMMA SignalsPropagate ==
  ASSUME NEW o, NEW env, NEW a, IsSignal(a)
  PROVE  AllRight(Propagated(o, a), ResultsOf(o), env)
<1>1. /\ DOMAIN Propagated(o, a) = 1..Arity[o] /\ DOMAIN ResultsOf(o) = 1..Arity[o]
      /\ \A i \in 1..Arity[o] : Propagated(o, a)[i] = a
  BY DEF Propagated, ResultsOf
<1>2. \A v : Right(v, a, env)  BY RightFacts
<1> QED  BY <1>1, <1>2 DEF AllRight

(* A loop that ends without leaving its body early carries its results.    *)
LEMMA LoopEnds ==
  ASSUME Meaningful, NEW o \in Loops, NEW env \in Environment, NEW l,
         LoopRight(o, l, env), l.iv \in Val, l.ub \in Val, ~Below(o, l.iv, l.ub)
  PROVE  AllRight(l.carried, ResultsOf(o), env)
<1> PICK t : t = Trips(Denotes, o, env)  OBVIOUS
<1>1. /\ Defined(Denotes, o, env) /\ OperandsKnown(Denotes, o, env)
      /\ Stride(Denotes, o, env) > 0 /\ t \in Nat /\ o \in Op
  BY LoopFacts
<1>2. PICK k \in 0..t : LoopAt(o, l, k, env)  BY DEF LoopRight
<1>3. /\ AsInt(o, l.iv) = InductionVariable(Denotes, o, env, k)
      /\ l.carried = [i \in 1..Arity[o] |-> Completed(After(Denotes, o, env)[k][i])]
      /\ AsInt(o, l.ub) = Upper(Denotes, o, env)
  BY <1>2 DEF LoopAt, LoopRight
<1>4. k = t
  <2>1. ~(InductionVariable(Denotes, o, env, k) < Upper(Denotes, o, env))
    BY <1>3 DEF Below
  <2>2. ~(k < t)  BY <1>1, <1>2, <2>1, TripsFacts
  <2> QED  BY <1>1, <1>2, <2>2
<1>5. Representable(o, InductionVariable(Denotes, o, env, t))
  BY <1>3, <1>4, ReadsFacts
<1>6. DenoteFor(Denotes, o, env) = After(Denotes, o, env)[t]
  BY <1>1, <1>5 DEF DenoteFor
<1>7. ASSUME NEW i \in 1..Arity[o] PROVE Right(<<o, i>>, l.carried[i], env)
  <2>1. Denote(<<o, i>>, env) = After(Denotes, o, env)[t][i]
    BY <1>1, <1>6, DenoteResult
  <2>2. l.carried[i] = Completed(After(Denotes, o, env)[t][i])  BY <1>3, <1>4
  <2> QED  BY <2>1, <2>2, RightFacts
<1>8. /\ DOMAIN l.carried = 1..Arity[o] /\ DOMAIN ResultsOf(o) = 1..Arity[o]
      /\ \A i \in 1..Arity[o] : ResultsOf(o)[i] = <<o, i>>
  BY <1>3 DEF ResultsOf
<1> QED  BY <1>7, <1>8, Zenon DEF AllRight

LEMMA LoopPays ==
  ASSUME Meaningful, NEW o \in Loops, NEW env \in Environment, NEW l, NEW m,
         LoopRight(o, l, env), Below(o, l.iv, l.ub),
         m.at = "paid", m.iv = l.iv, m.ub = l.ub, m.step = l.step, m.carried = l.carried
  PROVE  LoopRight(o, m, env)
<1> PICK t : t = Trips(Denotes, o, env)  OBVIOUS
<1>1. /\ Defined(Denotes, o, env) /\ OperandsKnown(Denotes, o, env)
      /\ Stride(Denotes, o, env) > 0 /\ t \in Nat
  BY LoopFacts
<1>2. PICK k \in 0..t : LoopAt(o, l, k, env)  BY DEF LoopRight
<1>3. InductionVariable(Denotes, o, env, k) < Upper(Denotes, o, env)
  BY <1>2 DEF LoopAt, LoopRight, Below
<1>4. k < t  BY <1>1, <1>2, <1>3, TripsFacts
<1>5. LoopAt(o, m, k, env)  BY <1>2, <1>4 DEF LoopAt
<1> QED  BY <1>2, <1>5 DEF LoopRight

(* A loop whose operands are all known and whose step is positive starts at*)
(* its first iteration.                                                    *)
LEMMA LoopOperands ==
  ASSUME Meaningful, NEW o \in Loops, NEW env \in Environment, NEW h \in Seq(Answer),
         AllRight(h, Operands[o], env), ~Has(h, IsSignal), ~Has(h, IsUnknown)
  PROVE  \A i \in DOMAIN h :
           /\ i \in DOMAIN Operands[o] /\ h[i].value = DenoteOperand(Denotes, o, env, i)
           /\ h[i] = Completed(DenoteOperand(Denotes, o, env, i))
           /\ h[i].value \in Val /\ DenoteOperand(Denotes, o, env, i) # Null
<1> TAKE i \in DOMAIN h
<1>1. o \in Op  BY DEF Loops
<1>2. i \in DOMAIN Operands[o] /\ Right(Operands[o][i], h[i], env)  BY DEF AllRight
<1>3. Operands[o][i] \in Value  BY <1>1, <1>2, OperandFacts
<1>4. h[i] \in Answer /\ ~IsSignal(h[i]) /\ ~IsUnknown(h[i])
  BY HeardFacts DEF Has
<1>5. h[i].value \in Val  BY <1>4, HeardFacts
<1>6. /\ h[i] = Completed(Denote(Operands[o][i], env))
      /\ h[i].value = Denote(Operands[o][i], env)
  BY <1>2, <1>3, <1>4, RightValue
<1>7. Null \notin Val  BY CompletedFacts
<1> QED  BY <1>2, <1>5, <1>6, <1>7 DEF DenoteOperand, Denote

LEMMA AllHeard ==
  ASSUME NEW o \in Loops, NEW h \in Seq(Answer), Len(h) <= Len(Operands[o]),
         ~ForPending(o, h), ~Has(h, IsSignal), ~Has(h, IsUnknown)
  PROVE  /\ Len(h) = 3 + Arity[o] /\ DOMAIN h = 1..(3 + Arity[o])
         /\ DOMAIN Operands[o] = DOMAIN h /\ Arity[o] \in Nat \ {0}
         /\ 1 \in DOMAIN h /\ 2 \in DOMAIN h /\ 3 \in DOMAIN h
<1>1. o \in Op  BY DEF Loops
<1>2. /\ Len(Operands[o]) = 3 + Arity[o] /\ Arity[o] \in Nat \ {0}
      /\ DOMAIN Operands[o] = 1..(3 + Arity[o])
  BY <1>1, ProgramFacts, OperandFacts
<1>3. ~(Len(h) < Len(Operands[o]))  BY DEF ForPending, ForHashPending
<1>4. Len(h) \in Nat /\ DOMAIN h = 1..Len(h)  BY HeardFacts
<1>5. Len(h) = 3 + Arity[o]  BY <1>2, <1>3, <1>4
<1> QED  BY <1>2, <1>4, <1>5

LEMMA LoopStarts ==
  ASSUME Meaningful, NEW o \in Loops, NEW env \in Environment, NEW h \in Seq(Answer),
         Len(h) <= Len(Operands[o]), ~ForPending(o, h), ForRuns(o, h),
         AllRight(h, Operands[o], env), NEW l, l.at = "head",
         l.iv = h[1].value, l.ub = h[2].value, l.step = h[3].value,
         l.carried = SubSeq(h, 4, Len(h))
  PROVE  LoopRight(o, l, env)
<1>0. ~Has(h, IsSignal) /\ ~Has(h, IsUnknown) /\ StepDefined(o, h[3].value)
  BY DEF ForRuns
<1> PICK n : n = Arity[o]  OBVIOUS
<1>1. /\ Len(h) = 3 + n /\ DOMAIN h = 1..(3 + n) /\ n \in Nat \ {0}
      /\ DOMAIN Operands[o] = DOMAIN h
      /\ 1 \in DOMAIN h /\ 2 \in DOMAIN h /\ 3 \in DOMAIN h
  BY <1>0, AllHeard
<1>2. \A i \in DOMAIN h :
        /\ h[i].value = DenoteOperand(Denotes, o, env, i)
        /\ h[i] = Completed(DenoteOperand(Denotes, o, env, i))
        /\ h[i].value \in Val /\ DenoteOperand(Denotes, o, env, i) # Null
  BY <1>0, LoopOperands
<1>3. OperandsKnown(Denotes, o, env)  BY <1>1, <1>2 DEF OperandsKnown
<1>4. /\ AsInt(o, l.iv) = Lower(Denotes, o, env)
      /\ AsInt(o, l.ub) = Upper(Denotes, o, env)
      /\ AsInt(o, l.step) = Stride(Denotes, o, env)
  BY <1>1, <1>2, ReadsFacts DEF Lower, Upper, Stride
<1>5. Stride(Denotes, o, env) > 0  BY <1>0, <1>4 DEF StepDefined
<1>6. o \in Op /\ Defined(Denotes, o, env)  BY MeaningFacts DEF Loops
<1>7. /\ Trips(Denotes, o, env) \in Nat
      /\ InductionVariable(Denotes, o, env, 0) = Lower(Denotes, o, env)
      /\ Unfolds(After(Denotes, o, env), Denotes, o, env)
  BY <1>3, <1>5, <1>6, TripsFacts, AfterFacts
<1>8. SubSeq(h, 4, Len(h)) = [i \in 1..n |-> h[i + 3]]
  <2> PICK g : g = SubSeq(h, 4, Len(h))  OBVIOUS
  <2>1. g \in Seq(CompletedAnswer) /\ Len(g) = n
    BY <1>0, ForRunsFacts
  <2>2. DOMAIN g = 1..n /\ g = [i \in DOMAIN g |-> g[i]]
    BY <1>1, <2>1
  <2>3. ASSUME NEW i \in 1..n PROVE g[i] = h[i + 3]
    <3>1. \A j \in 4..Len(h) : h[j] \in Answer  BY <1>1, HeardFacts
    <3>2. \A j \in 1..Len(g) : SubSeq(h, 4, Len(h))[j] = h[4 + j - 1]
      BY <1>1, <2>1, <3>1, SubSeqProperties
    <3>3. g[i] = h[4 + i - 1]  BY <2>1, <3>2
    <3> QED  BY <1>1, <3>3
  <2> QED  BY <2>2, <2>3
<1>9. \A i \in 1..n : h[i + 3] = Completed(After(Denotes, o, env)[0][i])
  <2> TAKE i \in 1..n
  <2>1. i + 3 \in DOMAIN h  BY <1>1
  <2>2. After(Denotes, o, env)[0][i] = DenoteOperand(Denotes, o, env, i + 3)
    BY <1>7 DEF Unfolds
  <2> QED  BY <1>2, <2>1, <2>2
<1>10. l.carried = [i \in 1..n |-> Completed(After(Denotes, o, env)[0][i])]
  BY <1>8, <1>9
<1>11. LoopAt(o, l, 0, env)  BY <1>4, <1>7, <1>10 DEF LoopAt
<1>12. 0 \in 0..Trips(Denotes, o, env)  BY <1>7
<1> QED  BY <1>3, <1>4, <1>5, <1>11, <1>12 DEF LoopRight

(* A loop refused for a signal answers it; refused for an unknown operand  *)
(* or its step, it means nothing.                                          *)
LEMMA LoopRefuses ==
  ASSUME Meaningful, NEW o \in Loops, NEW env \in Environment, NEW h \in Seq(Answer),
         Len(h) <= Len(Operands[o]), ~ForPending(o, h), ~ForRuns(o, h),
         AllRight(h, Operands[o], env)
  PROVE  ForRefusal(o, h) \in Answers(o) /\ AllRight(ForRefusal(o, h), ResultsOf(o), env)
<1>1. o \in Op /\ Unknown \in Answer  BY AnswerFacts DEF Loops
<1>2. CASE Has(h, IsSignal)
  <2>1. ForRefusal(o, h) = Propagated(o, SignalIn(h))  BY <1>2 DEF ForRefusal
  <2>2. IsSignal(SignalIn(h))  BY <1>2, SignalHeard DEF Has, SignalIn
  <2>3. SignalIn(h) \in Answer  BY <1>2, HeardFacts
  <2> QED  BY <1>1, <2>1, <2>2, <2>3, SignalsPropagate, PropagatedType
<1>3. CASE ~Has(h, IsSignal)
  <2>1. ForRefusal(o, h) = Propagated(o, Unknown)  BY <1>3 DEF ForRefusal
  <2>2. ~(OperandsKnown(Denotes, o, env) /\ Stride(Denotes, o, env) > 0)
    <3>1. CASE Has(h, IsUnknown)
      <4>1. PICK i \in DOMAIN h : IsUnknown(h[i])  BY <3>1 DEF Has
      <4>2. i \in DOMAIN Operands[o] /\ Right(Operands[o][i], h[i], env)
        BY DEF AllRight
      <4>3. Operands[o][i] \in Value /\ h[i] \in Answer /\ ~IsSignal(h[i])
        BY <1>1, <1>3, <4>2, OperandFacts, HeardFacts DEF Has
      <4>4. Denote(Operands[o][i], env) = Null
        BY <4>1, <4>2, <4>3, RightValue
      <4> QED  BY <4>2, <4>4 DEF OperandsKnown, DenoteOperand, Denote
    <3>2. CASE ~Has(h, IsUnknown)
      <4>1. 3 \in DOMAIN h  BY <1>3, <3>2, AllHeard
      <4>2. h[3].value \in Val /\ h[3].value = DenoteOperand(Denotes, o, env, 3)
        BY <1>3, <3>2, <4>1, LoopOperands
      <4>3. AsInt(o, h[3].value) = Stride(Denotes, o, env)
        BY <4>2, ReadsFacts DEF Stride
      <4>4. ~StepDefined(o, h[3].value)  BY <1>3, <3>2 DEF ForRuns
      <4> QED  BY <4>3, <4>4 DEF StepDefined
    <3> QED  BY <3>1, <3>2
  <2>3. AllRight(Propagated(o, Unknown), ResultsOf(o), env)
    BY <2>2, NothingMeant
  <2> QED  BY <1>1, <2>1, <2>3, PropagatedType
<1> QED  BY <1>2, <1>3


-----------------------------------------------------------------------------
(* An iteration: its arguments are bound, and it yields what is carried to *)
(* the next one.                                                           *)

LEMMA LoopBinds ==
  ASSUME Grounded, NEW o \in Loops, NEW e \in Environment, NEW f \in Environment,
         NEW l, LoopRight(o, l, e), l.at = "paid",
         l.carried \in Seq(CompletedAnswer), Len(l.carried) = Arity[o],
         \A a \in ArgsOf(Body[o]) : e[a] = NoAnswer,
         f = [a \in Arg |-> IF a \in ArgsOf(Body[o]) /\ e[a] = NoAnswer
                            THEN (<<Completed(l.iv)>> \o l.carried)[a[2]] ELSE e[a]],
         NEW m, m.at = "body", m.iv = l.iv, m.ub = l.ub, m.step = l.step,
         m.carried = l.carried
  PROVE  LoopRight(o, m, f)
<1> PICK args, c, b : args = <<Completed(l.iv)>> \o c /\ c = l.carried /\ b = Body[o]
  OBVIOUS
<1>0. /\ Meaningful /\ o \in Op /\ b \in Block /\ NumArgs[b] = 1 + Arity[o]
      /\ Arity[o] \in Nat \ {0} /\ b \notin Scope[<<o, 1>>]
  BY ProgramFacts, OperandFacts DEF Grounded, Loops, Visible
<1>1. \A a \in Arg : a[1] # b => f[a] = e[a]
  <2>1. \A a \in ArgsOf(b) : a[1] = b  BY DEF ArgsOf
  <2> QED  BY <2>1
<1>2. Agree(e, f, Scope[<<o, 1>>])  BY <1>0, <1>1 DEF Agree
<1>3. LoopRight(o, l, f)  BY <1>2, LoopAgrees
<1> PICK t : t = Trips(Denotes, o, f)  OBVIOUS
<1>4. PICK k \in 0..t : LoopAt(o, l, k, f)  BY <1>3 DEF LoopRight
<1> PICK after : after = After(Denotes, o, f)[k]  OBVIOUS
<1>5. c = [i \in 1..Arity[o] |-> Completed(after[i])]  BY <1>4 DEF LoopAt
<1>6. args[1] = Completed(l.iv) /\ \A n \in 2..(1 + Arity[o]) : args[n] = c[n - 1]
  <2>1. c \in Seq(CompletedAnswer) /\ Len(c) = Arity[o]  OBVIOUS
  <2>2. <<Completed(l.iv)>> \in Seq({Completed(l.iv)}) /\ Len(<<Completed(l.iv)>>) = 1
        /\ <<Completed(l.iv)>>[1] = Completed(l.iv)
    OBVIOUS
  <2>3. \A n \in 1..(1 + Len(c)) :
          args[n] = IF n <= 1 THEN <<Completed(l.iv)>>[n] ELSE c[n - 1]
    BY <2>1, <2>2
  <2> QED  BY <1>0, <2>1, <2>2, <2>3
<1>7. \A a \in ArgsOf(b) : /\ a \in Arg /\ f[a] = args[a[2]] /\ a[2] \in 1..(1 + Arity[o])
                           /\ a = <<b, a[2]>>
  <2> TAKE a \in ArgsOf(b)
  <2>1. a \in Arg /\ a[2] \in 1..(1 + Arity[o]) /\ a = <<b, a[2]>>
    BY <1>0, ArgsOfFacts DEF ArgsOf, Arg
  <2> QED  BY <2>1
<1>8. f = InBody(o, f, l.iv, after)
  <2>1. \A a \in Arg : f[a] = InBody(o, f, l.iv, after)[a]
    <3> TAKE a \in Arg
    <3>1. CASE a = <<b, 1>>
      <4>1. a \in ArgsOf(b)  BY <1>0, <3>1 DEF ArgsOf
      <4>2. f[a] = Completed(l.iv)  BY <1>6, <1>7, <3>1, <4>1
      <4> QED  BY <3>1, <4>2 DEF InBody
    <3>2. CASE a # <<b, 1>> /\ a \in ArgsOf(b)
      <4>1. a[2] \in 2..(1 + Arity[o])  BY <1>0, <1>7, <3>2
      <4> PICK n : n = a[2]  OBVIOUS
      <4>4. n > 1 /\ n - 1 \in 1..Arity[o]  BY <1>0, <4>1
      <4>5. f[a] = args[n] /\ args[n] = c[n - 1]  BY <1>6, <1>7, <3>2, <4>1
      <4>2. f[a] = c[a[2] - 1] /\ a[2] > 1 /\ a[2] - 1 \in 1..Arity[o]
        BY <4>4, <4>5
      <4>3. f[a] = Completed(after[a[2] - 1])  BY <1>5, <4>2
      <4> QED  BY <3>2, <4>2, <4>3 DEF InBody
    <3>3. CASE a # <<b, 1>> /\ a \notin ArgsOf(b)
      BY <3>3 DEF InBody
    <3> QED  BY <3>1, <3>2, <3>3
  <2> QED  BY <2>1 DEF InBody, Environment
<1>9. LoopAt(o, m, k, f)  BY <1>4, <1>8 DEF LoopAt
<1> QED  BY <1>3, <1>9 DEF LoopRight

LEMMA LoopIterates ==
  ASSUME Meaningful, NEW o \in Loops, NEW env \in Environment, NEW l,
         LoopRight(o, l, env), l.at = "body", l.iv \in Val, l.step \in Val,
         NEW h \in Seq(Answer), Len(h) = Arity[o], ~Has(h, IsSignal),
         AllRight(h, Yields[o], env)
  PROVE  /\ Overflows(o, l.iv, l.step) =>
              AllRight(Propagated(o, Unknown), ResultsOf(o), env)
         /\ ~Overflows(o, l.iv, l.step) =>
              \A m : /\ m.at = "head" /\ m.iv = (l.iv + l.step) % Modulus
                     /\ m.ub = l.ub /\ m.step = l.step /\ m.carried = h
                     => LoopRight(o, m, env)
<1> PICK t, n : t = Trips(Denotes, o, env) /\ n = Arity[o]  OBVIOUS
<1>1. /\ Defined(Denotes, o, env) /\ OperandsKnown(Denotes, o, env)
      /\ Stride(Denotes, o, env) > 0 /\ t \in Nat /\ o \in Op /\ n \in Nat
      /\ Unfolds(After(Denotes, o, env), Denotes, o, env)
  BY LoopFacts
<1>2. PICK k \in 0..t : LoopAt(o, l, k, env)  BY DEF LoopRight
<1> PICK i : i = AsInt(o, l.iv)  OBVIOUS
<1>3. /\ i = InductionVariable(Denotes, o, env, k)
      /\ env = InBody(o, env, l.iv, After(Denotes, o, env)[k])
      /\ k < t /\ k \in Nat /\ k + 1 \in 0..t
      /\ AsInt(o, l.step) = Stride(Denotes, o, env)
  BY <1>1, <1>2 DEF LoopAt, LoopRight
<1>4. /\ i \in Int /\ Representable(o, i) /\ i % 2^Width = l.iv
      /\ AsInt(o, l.step) \in Int
  BY ReadsFacts
<1>5. InductionVariable(Denotes, o, env, k + 1) = i + AsInt(o, l.step)
  BY <1>1, <1>3, TripsFacts
<1>6. ASSUME NEW j \in 1..n
      PROVE  h[j] = Completed(After(Denotes, o, env)[k + 1][j])
  <2>1. j \in DOMAIN h /\ h[j] \in Answer /\ ~IsSignal(h[j])
    BY <1>1, HeardFacts DEF Has
  <2>2. Yields[o][j] \in Value /\ Right(Yields[o][j], h[j], env)
    BY <1>1, <2>1, OperandFacts DEF AllRight
  <2>3. h[j] = Completed(Denote(Yields[o][j], env))
    BY <2>1, <2>2, RightValue
  <2>4. After(Denotes, o, env)[k + 1][j]
          = Denotes[<<Yields[o][j],
                      InBody(o, env, InductionVariable(Denotes, o, env, k) % 2^Width,
                             After(Denotes, o, env)[k])>>]
    BY <1>1, <1>3 DEF Unfolds
  <2>5. InductionVariable(Denotes, o, env, k) % 2^Width = l.iv  BY <1>3, <1>4
  <2>6. After(Denotes, o, env)[k + 1][j]
          = Denotes[<<Yields[o][j],
                      InBody(o, env, l.iv, After(Denotes, o, env)[k])>>]
    BY <2>4, <2>5
  <2>7. After(Denotes, o, env)[k + 1][j] = Denotes[<<Yields[o][j], env>>]
    BY <1>3, <2>6
  <2> QED  BY <2>3, <2>7 DEF Denote
<1>7. ASSUME Overflows(o, l.iv, l.step)
      PROVE  AllRight(Propagated(o, Unknown), ResultsOf(o), env)
  <2>1. ~Representable(o, i + AsInt(o, l.step))  BY <1>7, SumReads
  <2> PICK j, x : /\ j = InductionVariable(Denotes, o, env, t)
                  /\ x = InductionVariable(Denotes, o, env, k + 1)
    OBVIOUS
  <2>2. j \in Int /\ x \in Int /\ x <= j  BY <1>1, <1>3, TripsFacts
  <2>3. i <= x  BY <1>1, <1>3, <1>4, <1>5, <2>2
  <2>4. ~Representable(o, x)  BY <1>5, <2>1
  <2>5. ~Representable(o, j)  BY <1>4, <2>2, <2>3, <2>4, RepresentableFacts
  <2> QED  BY <2>5, NothingMeant
<1>8. ASSUME ~Overflows(o, l.iv, l.step), NEW m, m.at = "head",
             m.iv = (l.iv + l.step) % Modulus, m.ub = l.ub, m.step = l.step,
             m.carried = h
      PROVE  LoopRight(o, m, env)
  <2>1. AsInt(o, m.iv) = InductionVariable(Denotes, o, env, k + 1)
    BY <1>5, <1>8, SumReads
  <2>2. h = [j \in 1..n |-> Completed(After(Denotes, o, env)[k + 1][j])]
    <3>1. DOMAIN h = 1..n /\ h = [j \in DOMAIN h |-> h[j]]  BY <1>1, HeardFacts
    <3> QED  BY <1>6, <3>1
  <2>3. LoopAt(o, m, k + 1, env)  BY <1>8, <2>1, <2>2 DEF LoopAt
  <2> QED  BY <1>3, <1>8, <2>3 DEF LoopRight
<1> QED  BY <1>7, <1>8

-----------------------------------------------------------------------------
(* The steps of a loop.                                                    *)

LEMMA InForRight ==
  ASSUME SoundBase, StackRight, NEW at, InFor(at)
  PROVE  /\ InterpInv /\ TypeInv /\ Grounded /\ stack # <<>>
         /\ TopOp \in Loops /\ TopOp \in Op /\ TopOp = Top.val[1] /\ InLoop(Top)
         /\ Top \in Activation /\ Top.pc = "evaluate" /\ Fits(Top, entries)
         /\ Local \in LocalRecord /\ Local.at = at /\ LocalFits(Top, Local)
         /\ Heard = Local.heard /\ Heard \in Seq(Answer) /\ Len(Heard) \in Nat
         /\ HoldsRight(Top, Local, bindings) /\ bindings \in Environment
         /\ Scope[Top.val] = Scope[<<TopOp, 1>>]
         /\ Scope[<<TopOp, 1>>] \subseteq BlocksTo(Top.framesAt)
         /\ Top.framesAt \in Nat /\ Len(frames) \in Nat /\ Top.framesAt <= Len(frames)
         /\ at = "body" => /\ Len(frames) = Top.framesAt + 1
                           /\ frames[Len(frames)] = Body[TopOp]
         /\ at # "body" => Len(frames) = Top.framesAt
<1>1. /\ BaseInv /\ InScope /\ Visible /\ InterpInv /\ TypeInv /\ Grounded
      /\ bindings \in Environment
  BY DEF SoundBase, BaseInv, InterpInv, ScopedInv, Grounded, TypeInv, TypeOK, Environment
<1>2. /\ stack # <<>> /\ TopOp \in Loops /\ TopOp = Top.val[1] /\ InLoop(Top)
      /\ Top \in Activation /\ Top.pc = "evaluate"
      /\ Local \in LocalRecord /\ Local.at = at /\ LocalFits(Top, Local)
      /\ Heard \in Seq(Answer) /\ Len(Heard) \in Nat
  BY <1>1, InForFacts
<1>3. TopOp \in Op /\ Fits(Top, entries)  BY <1>1, <1>2, TopFacts
<1>4. /\ Placed(Top, Local, Len(frames), freezes)
      /\ Len(stack) \in 1..Len(stack) /\ Top = stack[Len(stack)]
      /\ Local = locals[Len(stack)]
      /\ Top.framesAt \in Nat /\ Len(frames) \in Nat /\ Top.framesAt <= Len(frames)
      /\ \A i \in 1..Arity[TopOp] : Scope[<<TopOp, i>>] = Scope[Top.val]
      /\ Scope[<<TopOp, 1>>] = Scope[Top.val]
  BY <1>1, <1>2, TopPlaced
<1>5. HoldsRight(Top, Local, bindings)  BY <1>4 DEF StackRight
<1>6. /\ Scope[Top.val] \subseteq BlocksTo(Top.framesAt)
      /\ at = "body" => /\ Len(frames) = Top.framesAt + 1
                        /\ frames[Len(frames)] = Body[TopOp]
      /\ at # "body" => Len(frames) = Top.framesAt
  BY <1>2, <1>4 DEF Placed
<1> QED  BY <1>1, <1>2, <1>3, <1>4, <1>5, <1>6 DEF Heard

LEMMA ForSets ==
  ASSUME SoundBase, TypeInv', EntriesTop', StackRight, NEW at, InFor(at),
         UNCHANGED <<stack, entries>>,
         Agree(bindings, bindings', BlocksTo(Top.framesAt)),
         NEW l, SetLocal(l), l.at # "begin",
         Iterating(l) => LoopRight(TopOp, l, bindings'),
         l.at = "body" => AllRight(l.heard, Yields[TopOp], bindings'),
         Leaving(l) => AllRight(l.results, ResultsOf(TopOp), bindings')
  PROVE  StackRight'
<1> PICK r : r = Top  OBVIOUS
<1>1. /\ TypeInv /\ Grounded /\ EntriesTop /\ InLoop(r) /\ r \in Activation
      /\ Fits(r, entries) /\ HoldsRight(r, Local, bindings)
      /\ Scope[r.val] \subseteq BlocksTo(r.framesAt)
      /\ stack # <<>> /\ r.val[1] = TopOp /\ r.pc = "evaluate" /\ InterpInv
  BY InForRight DEF SoundBase, ScopedInv
<1>2. EntriesExtend  BY DEF EntriesExtend, Extends
<1>3. Fits(r, entries)'  BY <1>1 DEF Fits, FitsAt, Bucket
<1>4. HoldsRight(r, Fresh, bindings)
  <2>1. AllRight(r.results, ResultsOf(r.val[1]), bindings) /\ EntryRight(r, bindings)
    BY <1>1 DEF HoldsRight
  <2> QED  BY <2>1, FreshRight
<1>5. Agree(bindings, bindings', Scope[r.val])  BY <1>1 DEF Agree
<1>6. Fresh.at # "body"  BY DEF Fresh
<1>7. HoldsRight(r, Fresh, bindings)'
  BY <1>1, <1>2, <1>3, <1>4, <1>5, <1>6, KeptRight DEF EntriesExtend
<1>8. HoldsRight(r, l, bindings)'
  <2>1. (AllRight(r.results, ResultsOf(r.val[1]), bindings) /\ EntryRight(r, bindings))'
    BY <1>7 DEF HoldsRight
  <2>2. ComparesRight(r, l, bindings)'  BY <1>1 DEF ComparesRight
  <2>3. OperandsRight(r, l, bindings)'  BY <1>1 DEF OperandsRight
  <2>4. ForRight(r, l, bindings)'  BY <1>1 DEF ForRight
  <2> QED  BY <2>1, <2>2, <2>3, <2>4 DEF HoldsRight
<1>9. /\ Len(stack') = Len(stack) /\ stack'[Len(stack)] = r
      /\ \A i \in 1..(Len(stack) - 1) : stack'[i] = stack[i]
  BY DEF Top
<1> QED  BY <1>1, <1>2, <1>8, <1>9, SetRight

(* The blocks bound when an evaluation entered stay bound as they were when*)
(* it binds its body and when it unbinds it.                               *)
LEMMA BindAgrees ==
  ASSUME TypeInv, BindingsFollowFrames, NEW b \in Block, b \notin BoundBlocks,
         NEW args, Bind(b, args), NEW m \in Nat, m <= Len(frames)
  PROVE  /\ Agree(bindings, bindings', BlocksTo(m))
         /\ \A a \in ArgsOf(b) : bindings[a] = NoAnswer
<1>1. \A a \in ArgsOf(b) : bindings[a] = NoAnswer  BY DEF BindingsFollowFrames
<1>2. b \notin BlocksTo(m)
  <2>1. DOMAIN frames = 1..Len(frames) /\ Len(frames) \in Nat  BY Sizes
  <2> QED  BY <2>1 DEF BlocksTo, BoundBlocks
<1>3. \A a \in Arg : a[1] # b => bindings'[a] = bindings[a]
  BY ArgsOfFacts DEF Bind
<1> QED  BY <1>1, <1>2, <1>3 DEF Agree

LEMMA UnbindAgrees ==
  ASSUME TypeInv, BoundOnce, Unbind
  PROVE  /\ \A m \in Nat : m < Len(frames) => Agree(bindings, bindings', BlocksTo(m))
         /\ \A blocks : frames[Len(frames)] \notin blocks =>
              Agree(bindings, bindings', blocks)
<1> PICK n : n = Len(frames)  OBVIOUS
<1>1. n \in Nat \ {0} /\ DOMAIN frames = 1..n /\ frames[n] \in Block
  BY UnbindShrinks
<1>2. \A a \in Arg : a[1] # frames[n] => bindings'[a] = bindings[a]
  BY <1>1, ArgsOfFacts DEF Unbind, Erased
<1>3. \A m \in Nat : m < n => frames[n] \notin BlocksTo(m)
  BY <1>1 DEF BlocksTo, BoundOnce
<1> QED  BY <1>2, <1>3 DEF Agree

(* What the memo holds is in scope of the frames up to its own.            *)
LEMMA BindKeepsMemo ==
  ASSUME SoundBase, TypeInv', MemoSound, NEW b \in Block, NEW args, Bind(b, args)
  PROVE  MemoSound'
<1>1. /\ TypeInv /\ StackInv /\ ScopeInv /\ Grounded /\ MemoScoped
      /\ bindings \in Environment /\ bindings' \in Environment
  BY DEF SoundBase, BaseInv, InterpInv, ScopedInv, TypeInv, TypeOK, Environment
<1>2. b \notin BoundBlocks  BY <1>1, BindsFresh
<1>3. memo' = memo  BY DEF Bind
<1>4. ASSUME NEW v \in Value, memo[v] # NotMemoized
      PROVE  Denote(v, bindings) = Denote(v, bindings')
  <2>1. memo[v] \in Memo  BY <1>1, <1>4 DEF TypeInv, TypeOK
  <2> PICK m : m = memo[v].frame  OBVIOUS
  <2>2. m \in Nat /\ m <= Len(frames)  BY <1>1, <2>1 DEF Memo, ScopeInv, MemoHeld
  <2>3. Scope[v] \subseteq BlocksTo(m)  BY <1>1, <1>4 DEF MemoScoped
  <2>4. Agree(bindings, bindings', BlocksTo(m))
    BY <1>1, <1>2, <2>2, BindAgrees DEF ScopeInv
  <2> QED  BY <1>1, <2>3, <2>4, RightAgrees DEF Grounded
<1> QED  BY <1>3, <1>4 DEF MemoSound

LEMMA UnbindKeepsMemo ==
  ASSUME SoundBase, TypeInv', MemoSound, Unbind
  PROVE  MemoSound'
<1>1. /\ TypeInv /\ ScopeInv /\ Grounded /\ MemoScoped
      /\ bindings \in Environment /\ bindings' \in Environment
  BY DEF SoundBase, BaseInv, InterpInv, ScopedInv, TypeInv, TypeOK, Environment
<1> PICK n : n = Len(frames)  OBVIOUS
<1>2. n \in Nat \ {0}  BY <1>1, UnbindShrinks
<1>3. ASSUME NEW v \in Value, memo'[v] # NotMemoized
      PROVE  memo'[v] = memo[v] /\ Denote(v, bindings) = Denote(v, bindings')
  <2>1. memo'[v] = IF Forgets(memo[v]) THEN NotMemoized ELSE memo[v]
    BY DEF Unbind, ForgetIteration
  <2>2. memo'[v] = memo[v] /\ ~Forgets(memo[v])  BY <1>3, <2>1
  <2>3. memo[v] \in Memo  BY <1>1, <1>3, <2>2 DEF TypeInv, TypeOK
  <2> PICK m : m = memo[v].frame  OBVIOUS
  <2>4. m \in Nat /\ m <= n /\ m # n
    BY <1>1, <1>3, <2>2, <2>3 DEF Memo, ScopeInv, MemoHeld, Forgets
  <2>5. Scope[v] \subseteq BlocksTo(m)  BY <1>1, <1>3, <2>2 DEF MemoScoped
  <2>6. m < n  BY <1>2, <2>4
  <2>7. Agree(bindings, bindings', BlocksTo(m))
    BY <1>1, <2>4, <2>6, UnbindAgrees DEF ScopeInv
  <2> QED  BY <1>1, <2>2, <2>5, <2>7, RightAgrees DEF Grounded
<1> QED  BY <1>3 DEF MemoSound

LEMMA StartsRight ==
  ASSUME SoundBase, TypeInv', EntriesTop', StackRight, ForStarts
  PROVE  StackRight' /\ UNCHANGED <<bindings, memo, entries>>
<1>1. InFor("begin") /\ ForRuns(TopOp, Heard) /\ Freeze  BY DEF ForStarts
<1>2. UNCHANGED <<stack, bindings, memo, entries>>  BY <1>1 DEF Freeze, cache
<1> PICK o, h : o = TopOp /\ h = Heard  OBVIOUS
<1>3. /\ Meaningful /\ o \in Loops /\ h \in Seq(Answer) /\ bindings \in Environment
      /\ HoldsRight(Top, Local, bindings) /\ LocalFits(Top, Local) /\ InLoop(Top)
      /\ Local.at = "begin" /\ o = Top.val[1] /\ h = Local.heard
      /\ InterpInv
  BY <1>1, InForRight DEF Grounded
<1>4. ~ForPending(o, h)  BY <1>1, <1>3, InForFacts
<1>5. Len(h) <= Len(Operands[o])
  BY <1>3 DEF LocalFits, Awaits, Expected
<1>6. AllRight(h, Operands[o], bindings)
  BY <1>3, Zenon DEF HoldsRight, OperandsRight, InLoop
<1>7. PICK l : /\ SetLocal(l) /\ l.at = "head" /\ l.iv = h[1].value
               /\ l.ub = h[2].value /\ l.step = h[3].value
               /\ l.carried = SubSeq(h, 4, Len(h))
  <2>1. \A x, y, z, w :
          LET l == [Fresh EXCEPT !.at = "head", !.iv = x, !.ub = y, !.step = z,
                                 !.carried = w]
          IN l.at = "head" /\ l.iv = x /\ l.ub = y /\ l.step = z /\ l.carried = w
    BY DEF Fresh
  <2>2. PICK x, y, z, w :
          /\ SetLocal([Fresh EXCEPT !.at = "head", !.iv = x, !.ub = y, !.step = z,
                                    !.carried = w])
          /\ x = h[1].value /\ y = h[2].value /\ z = h[3].value
          /\ w = SubSeq(h, 4, Len(h))
    BY DEF ForStarts
  <2> WITNESS [Fresh EXCEPT !.at = "head", !.iv = x, !.ub = y, !.step = z, !.carried = w]
  <2> QED  BY <2>1, <2>2
<1>8. LoopRight(o, l, bindings)
  BY <1>1, <1>3, <1>4, <1>5, <1>6, <1>7, LoopStarts
<1>9. Agree(bindings, bindings', BlocksTo(Top.framesAt))  BY <1>2 DEF Agree
<1>10. ~Leaving(l) /\ l.at # "body" /\ l.at # "begin"  BY <1>7 DEF Leaving
<1>11. LoopRight(TopOp, l, bindings')  BY <1>2, <1>8
<1> QED  BY <1>1, <1>2, <1>7, <1>9, <1>10, <1>11, ForSets

LEMMA PaysRight ==
  ASSUME SoundBase, TypeInv', EntriesTop', StackRight, ForPays
  PROVE  StackRight' /\ UNCHANGED <<bindings, memo, entries>>
<1>1. InFor("head") /\ Continues /\ DeclareCost  BY DEF ForPays
<1>2. UNCHANGED <<stack, bindings, memo, entries>>
  BY <1>1 DEF DeclareCost, cache, scopes
<1> PICK o, k : o = TopOp /\ k = Local  OBVIOUS
<1>3. /\ Meaningful /\ o \in Loops /\ bindings \in Environment
      /\ HoldsRight(Top, k, bindings) /\ InLoop(Top)
      /\ k.at = "head" /\ k \in LocalRecord /\ o = Top.val[1]
  BY <1>1, InForRight DEF Grounded
<1>4. LoopRight(o, k, bindings)
  BY <1>3 DEF HoldsRight, ForRight, Iterating
<1>5. Below(o, k.iv, k.ub)  BY <1>1 DEF Continues
<1>6. PICK l : /\ SetLocal(l) /\ l.at = "paid" /\ l.iv = k.iv /\ l.ub = k.ub
               /\ l.step = k.step /\ l.carried = k.carried
  <2> PICK l : l = [k EXCEPT !.at = "paid"]  OBVIOUS
  <2>1. /\ l.at = "paid" /\ l.iv = k.iv /\ l.ub = k.ub
        /\ l.step = k.step /\ l.carried = k.carried
    BY <1>3 DEF LocalRecord
  <2>2. SetLocal(l)  BY DEF ForPays
  <2> QED  BY <2>1, <2>2
<1>7. LoopRight(o, l, bindings)  BY <1>3, <1>4, <1>5, <1>6, LoopPays
<1>8. Agree(bindings, bindings', BlocksTo(Top.framesAt))  BY <1>2 DEF Agree
<1>9. ~Leaving(l) /\ l.at # "body" /\ l.at # "begin"  BY <1>6 DEF Leaving
<1>10. LoopRight(TopOp, l, bindings')  BY <1>2, <1>7
<1> QED  BY <1>1, <1>2, <1>6, <1>8, <1>9, <1>10, ForSets

LEMMA BindsRight ==
  ASSUME SoundBase, TypeInv', EntriesTop', StackRight, MemoSound, ForBinds
  PROVE  StackRight' /\ MemoSound' /\ UNCHANGED entries
<1>1. InFor("paid") /\ Bind(Body[TopOp], <<Completed(Local.iv)>> \o Local.carried)
  BY DEF ForBinds
<1> PICK o, k, b, args : /\ o = TopOp /\ k = Local /\ b = Body[o]
                         /\ args = <<Completed(k.iv)>> \o k.carried
  OBVIOUS
<1>2. /\ UNCHANGED <<stack, entries>> /\ Bind(b, args)
      /\ bindings' = [a \in Arg |-> IF a \in ArgsOf(b) /\ bindings[a] = NoAnswer
                                    THEN args[a[2]] ELSE bindings[a]]
  BY <1>1 DEF Bind, cache
<1>3. /\ Grounded /\ o \in Loops /\ bindings \in Environment
      /\ HoldsRight(Top, k, bindings) /\ InLoop(Top) /\ LocalFits(Top, k)
      /\ k.at = "paid" /\ k \in LocalRecord /\ o = Top.val[1] /\ TypeInv
      /\ Top.framesAt \in Nat /\ Top.framesAt <= Len(frames)
  BY <1>1, InForRight
<1>4. /\ StackInv /\ BindingsFollowFrames /\ b \in Block /\ bindings' \in Environment
  BY <1>3, ProgramFacts
     DEF SoundBase, BaseInv, ScopeInv, TypeInv, TypeOK, Environment
<1>5. b \notin BoundBlocks  BY <1>2, <1>3, <1>4, BindsFresh
<1>6. /\ Agree(bindings, bindings', BlocksTo(Top.framesAt))
      /\ \A a \in ArgsOf(b) : bindings[a] = NoAnswer
  BY <1>2, <1>3, <1>4, <1>5, BindAgrees
<1>7. LoopRight(o, k, bindings)
  BY <1>3 DEF HoldsRight, ForRight, Iterating
<1>8. k.carried \in Seq(CompletedAnswer) /\ Len(k.carried) = Arity[o]
  BY <1>3 DEF LocalRecord, LocalFits, Iterating
<1>9. PICK l : /\ SetLocal(l) /\ l.at = "body" /\ l.iv = k.iv /\ l.ub = k.ub
               /\ l.step = k.step /\ l.carried = k.carried /\ l.heard = <<>>
  <2> PICK l : l = [k EXCEPT !.at = "body", !.heard = <<>>]  OBVIOUS
  <2>1. /\ l.at = "body" /\ l.iv = k.iv /\ l.ub = k.ub
        /\ l.step = k.step /\ l.carried = k.carried /\ l.heard = <<>>
    BY <1>3 DEF LocalRecord
  <2>2. SetLocal(l)  BY DEF ForBinds
  <2> QED  BY <2>1, <2>2
<1> PICK f : f = bindings'  OBVIOUS
<1>10. f = [a \in Arg |-> IF a \in ArgsOf(Body[o]) /\ bindings[a] = NoAnswer
                          THEN (<<Completed(k.iv)>> \o k.carried)[a[2]] ELSE bindings[a]]
  BY <1>2
<1>11. LoopRight(o, l, f)
  <2>1. f \in Environment /\ k.at = "paid"  BY <1>3, <1>4
  <2>2. \A a \in ArgsOf(Body[o]) : bindings[a] = NoAnswer  BY <1>6
  <2> QED  BY <1>3, <1>7, <1>8, <1>9, <1>10, <2>1, <2>2, LoopBinds
<1>12. ~Leaving(l) /\ l.at # "begin" /\ AllRight(l.heard, Yields[o], f)
  BY <1>9, RightFacts DEF Leaving
<1>13. StackRight'
  BY <1>1, <1>2, <1>6, <1>9, <1>11, <1>12, ForSets
<1>14. MemoSound'  BY <1>2, <1>4, BindKeepsMemo
<1> QED  BY <1>2, <1>13, <1>14

LEMMA IteratesRight ==
  ASSUME SoundBase, TypeInv', EntriesTop', StackRight, MemoSound, ForIterates
  PROVE  StackRight' /\ MemoSound' /\ UNCHANGED entries
<1>1. InFor("body") /\ Unbind  BY DEF ForIterates
<1>2. UNCHANGED <<stack, entries>>  BY <1>1 DEF Unbind, cache
<1> PICK o, k, h, e, f : /\ o = TopOp /\ k = Local /\ h = Heard
                         /\ e = bindings /\ f = bindings'
  OBVIOUS
<1>3. /\ Grounded /\ Meaningful /\ Visible /\ ScopeDecides /\ InterpInv
      /\ o \in Loops /\ o \in Op /\ e \in Environment /\ f \in Environment
      /\ HoldsRight(Top, k, e) /\ InLoop(Top) /\ LocalFits(Top, k)
      /\ k.at = "body" /\ k \in LocalRecord /\ o = Top.val[1] /\ TypeInv
      /\ h = k.heard /\ h \in Seq(Answer) /\ Len(h) \in Nat
      /\ Top.framesAt \in Nat /\ Top.framesAt < Len(frames)
      /\ Scope[<<o, 1>>] \subseteq BlocksTo(Top.framesAt) /\ BoundOnce
  <2>1. Len(frames) = Top.framesAt + 1 /\ Top.framesAt \in Nat  BY <1>1, InForRight
  <2>2. Top.framesAt < Len(frames)  BY <2>1
  <2>3. BoundOnce  BY DEF SoundBase, BaseInv, ScopeInv
  <2>4. f \in Environment  BY DEF TypeInv, TypeOK, Environment
  <2> QED  BY <1>1, <2>2, <2>3, <2>4, InForRight DEF Grounded
<1>4. LoopRight(o, k, e) /\ AllRight(h, Yields[o], e)
  BY <1>3 DEF HoldsRight, ForRight, Iterating
<1>5. k.iv \in Val /\ k.step \in Val  BY <1>3 DEF LocalFits, Iterating
<1>6. ~Has(h, IsSignal) => Len(h) = Arity[o]
  <2>1. Len(h) <= Len(Yields[o])  BY <1>3 DEF LocalFits, Awaits, Expected
  <2>2. ~MoreYields(o)  BY <1>1, <1>3, InForFacts
  <2>3. Len(Yields[o]) = Arity[o]  BY <1>3, ProgramFacts
  <2>4. Arity[o] \in Nat  BY <1>3, OperandFacts
  <2> QED  BY <1>3, <2>1, <2>2, <2>3, <2>4 DEF MoreYields
<1>7. Agree(e, f, BlocksTo(Top.framesAt)) /\ Agree(e, f, Scope[<<o, 1>>])
  <2>1. Agree(e, f, BlocksTo(Top.framesAt))  BY <1>1, <1>3, UnbindAgrees
  <2> QED  BY <1>3, <2>1 DEF Agree
<1>8. MemoSound'  BY <1>1, UnbindKeepsMemo
<1>9. ASSUME NEW a, NEW l, l = [k EXCEPT !.at = "leaving", !.results = Propagated(o, a)],
             SetLocal(l), AllRight(Propagated(o, a), ResultsOf(o), f)
      PROVE  StackRight'
  <2>1. l.at = "leaving" /\ l.results = Propagated(o, a)
    BY <1>3, <1>9 DEF LocalRecord
  <2>2. l.at # "begin" /\ l.at # "body" /\ ~Iterating(l)  BY <2>1 DEF Iterating
  <2> QED  BY <1>1, <1>2, <1>7, <1>9, <2>1, <2>2, ForSets
<1>10. CASE Has(h, IsSignal)
  <2> PICK a : a = SignalIn(h)  OBVIOUS
  <2> PICK l : l = [k EXCEPT !.at = "leaving", !.results = Propagated(o, a)]  OBVIOUS
  <2>1. SetLocal(l)  BY <1>10 DEF ForIterates
  <2>2. IsSignal(a)  BY <1>10, SignalHeard DEF Has, SignalIn
  <2>3. AllRight(Propagated(o, a), ResultsOf(o), f)  BY <2>2, SignalsPropagate
  <2> QED  BY <1>2, <1>8, <1>9, <2>1, <2>3
<1>11. CASE ~Has(h, IsSignal) /\ Overflows(o, k.iv, k.step)
  <2> PICK l : l = [k EXCEPT !.at = "leaving", !.results = Propagated(o, Unknown)]
    OBVIOUS
  <2>1. SetLocal(l)  BY <1>11 DEF ForIterates
  <2>2. AllRight(Propagated(o, Unknown), ResultsOf(o), e)
    BY <1>3, <1>4, <1>5, <1>6, <1>11, LoopIterates
  <2>3. Sees(ResultsOf(o), Scope[<<o, 1>>])  BY <1>3, ProgramSees
  <2>4. AllRight(Propagated(o, Unknown), ResultsOf(o), f)
    BY <1>3, <1>7, <2>2, <2>3, AllRightAgrees
  <2> QED  BY <1>2, <1>8, <1>9, <2>1, <2>4
<1>12. CASE ~Has(h, IsSignal) /\ ~Overflows(o, k.iv, k.step)
  <2> PICK y : y = (k.iv + k.step) % Modulus  OBVIOUS
  <2> PICK l : l = [k EXCEPT !.at = "head", !.carried = h, !.heard = <<>>, !.iv = y]
    OBVIOUS
  <2>1. SetLocal(l)
    <3>1. SetLocal([k EXCEPT !.at = "head", !.carried = h, !.heard = <<>>,
                             !.iv = (@ + k.step) % Modulus])
      BY <1>12 DEF ForIterates
    <3> QED  BY <3>1
  <2>2. /\ l.at = "head" /\ l.iv = y /\ l.ub = k.ub /\ l.step = k.step /\ l.carried = h
    BY <1>3 DEF LocalRecord
  <2>3. LoopRight(o, l, e)
    <3>1. Len(h) = Arity[o]  BY <1>6, <1>12
    <3>2. \A m : /\ m.at = "head" /\ m.iv = (k.iv + k.step) % Modulus
                 /\ m.ub = k.ub /\ m.step = k.step /\ m.carried = h
                 => LoopRight(o, m, e)
      BY <1>3, <1>4, <1>5, <1>12, <3>1, LoopIterates
    <3> QED  BY <2>2, <3>2
  <2>4. LoopRight(o, l, f)  BY <1>3, <1>7, <2>2, <2>3, LoopAgrees
  <2>5. l.at # "begin" /\ l.at # "body" /\ ~Leaving(l)  BY <2>2 DEF Leaving
  <2>6. StackRight'  BY <1>1, <1>2, <1>7, <2>1, <2>4, <2>5, ForSets
  <2> QED  BY <1>2, <1>8, <2>6
<1> QED  BY <1>10, <1>11, <1>12

LEMMA ThawsRight ==
  ASSUME SoundBase, TypeInv', EntriesTop', StackRight, ForThaws
  PROVE  StackRight' /\ UNCHANGED <<bindings, memo, entries>>
<1>1. UNCHANGED <<stack, bindings, memo, entries>>  BY DEF ForThaws, Unfreeze, cache
<1> PICK o, k : o = TopOp /\ k = Local  OBVIOUS
<1>2. PICK at, results :
        /\ InFor(at) /\ SetLocal([k EXCEPT !.at = "done", !.results = results])
        /\ \/ at = "head" /\ ~Continues /\ results = k.carried
           \/ results = Propagated(o, Signaled("Exhausted"))
           \/ at = "leaving" /\ results = k.results
  BY DEF ForThaws
<1>3. /\ Meaningful /\ o \in Loops /\ bindings \in Environment
      /\ HoldsRight(Top, k, bindings) /\ InLoop(Top) /\ LocalFits(Top, k)
      /\ k.at = at /\ k \in LocalRecord /\ o = Top.val[1]
  BY <1>2, InForRight DEF Grounded
<1>4. AllRight(results, ResultsOf(o), bindings)
  <2>1. CASE at = "head" /\ ~Continues /\ results = k.carried
    <3>1. LoopRight(o, k, bindings)
      BY <1>3, <2>1 DEF HoldsRight, ForRight, Iterating
    <3>2. k.iv \in Val /\ k.ub \in Val /\ ~Below(o, k.iv, k.ub)
      BY <1>3, <2>1 DEF LocalFits, Iterating, Continues
    <3> QED  BY <1>3, <2>1, <3>1, <3>2, LoopEnds
  <2>2. CASE results = Propagated(o, Signaled("Exhausted"))
    <3>1. IsSignal(Signaled("Exhausted"))  BY DEF IsSignal, Signaled
    <3> QED  BY <2>2, <3>1, SignalsPropagate
  <2>3. CASE at = "leaving" /\ results = k.results
    BY <1>3, <2>3 DEF HoldsRight, ForRight, Leaving
  <2> QED  BY <1>2, <2>1, <2>2, <2>3
<1> PICK l : l = [k EXCEPT !.at = "done", !.results = results]  OBVIOUS
<1>5. SetLocal(l) /\ l.at = "done" /\ l.results = results
  BY <1>2, <1>3 DEF LocalRecord
<1>6. l.at # "begin" /\ l.at # "body" /\ ~Iterating(l)  BY <1>5 DEF Iterating
<1>7. Agree(bindings, bindings', BlocksTo(Top.framesAt))  BY <1>1 DEF Agree
<1>8. AllRight(l.results, ResultsOf(TopOp), bindings')  BY <1>1, <1>4, <1>5
<1> QED  BY <1>1, <1>2, <1>5, <1>6, <1>7, <1>8, ForSets

LEMMA ForReturnRight ==
  ASSUME SoundBase, MemoSound, CacheSound, StackRight, ForRefused \/ ForReturns
  PROVE  stack # <<>> /\ MemoSound' /\ CacheSound' /\ (LeavesRight \/ MovesRight)
<1> PICK o, k, h : o = TopOp /\ k = Local /\ h = Heard  OBVIOUS
<1>1. CASE ForRefused
  <2>1. InFor("begin") /\ ~ForRuns(o, h) /\ EvaluateReturn(ForRefusal(o, h))
    BY <1>1 DEF ForRefused
  <2>2. /\ Meaningful /\ o \in Loops /\ h \in Seq(Answer) /\ bindings \in Environment
        /\ HoldsRight(Top, k, bindings) /\ LocalFits(Top, k) /\ InLoop(Top)
        /\ k.at = "begin" /\ o = Top.val[1] /\ h = k.heard /\ InterpInv /\ stack # <<>>
    BY <2>1, InForRight DEF Grounded
  <2>3. ~ForPending(o, h)  BY <2>1, <2>2, InForFacts
  <2>4. Len(h) <= Len(Operands[o])  BY <2>2 DEF LocalFits, Awaits, Expected
  <2>5. AllRight(h, Operands[o], bindings)
    BY <2>2, Zenon DEF HoldsRight, OperandsRight, InLoop
  <2> PICK rs : rs = ForRefusal(o, h)  OBVIOUS
  <2>6. rs \in Answers(o) /\ AllRight(rs, ResultsOf(o), bindings)
    BY <2>1, <2>2, <2>3, <2>4, <2>5, LoopRefuses
  <2> QED  BY <2>1, <2>2, <2>6, EvaluateReturnRight
<1>2. CASE ForReturns
  <2> PICK rs : rs = k.results  OBVIOUS
  <2>1. InFor("done") /\ EvaluateReturn(rs)  BY <1>2 DEF ForReturns
  <2>2. /\ HoldsRight(Top, k, bindings) /\ LocalFits(Top, k) /\ InLoop(Top)
        /\ k.at = "done" /\ o = Top.val[1] /\ k \in LocalRecord /\ stack # <<>>
    BY <2>1, InForRight
  <2>3. AllRight(rs, ResultsOf(o), bindings)
    BY <2>2 DEF HoldsRight, ForRight, Leaving
  <2>4. rs \in Seq(Answer) /\ Len(rs) = Arity[o]
    BY <2>2 DEF LocalRecord, LocalFits, Leaving
  <2>5. rs \in Answers(o)  BY <2>4 DEF Answers
  <2> QED  BY <2>1, <2>2, <2>3, <2>5, EvaluateReturnRight
<1> QED  BY <1>1, <1>2

-----------------------------------------------------------------------------
(* compute goes on with its next callback, or returns an answer.           *)

LEMMA ReturnRight ==
  ASSUME SoundBase, TypeInv', EntriesTop', EntriesExtend, BottomAsked, StackRight,
         stack # <<>>, LeavesRight \/ MovesRight, NextLocals, UNCHANGED asked
  PROVE  StackRight' /\ AnswerRight'
<1> PICK n : n = Len(stack)  OBVIOUS
<1>1. InterpInv /\ TypeInv  BY DEF SoundBase, BaseInv, InterpInv
<1>2. n \in Nat \ {0} /\ Len(locals) = n /\ Top = stack[n] /\ n \in DOMAIN stack
  BY <1>1, StackSizes, TopFacts
<1>3. CASE MovesRight
  <2>1. PICK r : /\ Become(r) /\ r.val = Top.val
                 /\ AllRight(r.results, ResultsOf(TopOp), bindings)
                 /\ EntryRight(r, bindings)
    BY <1>3 DEF MovesRight
  <2>2. UNCHANGED <<bindings, entries>>  BY <1>3 DEF MovesRight
  <2>3. Len(stack') = n /\ \A i \in 1..(n - 1) : stack'[i] = stack[i]
    BY <1>1, <2>1, BecomeLength
  <2>4. stack'[n] = r  BY <1>2, <2>1 DEF Become
  <2>5. SetLocal(Fresh)  BY <1>2, <2>3 DEF NextLocals
  <2>6. HoldsRight(r, Fresh, bindings)
    BY <2>1, FreshRight DEF TopOp
  <2>7. HoldsRight(r, Fresh, bindings)'
    BY <2>2, <2>6 DEF HoldsRight, EntryRight, ComparesRight, OperandsRight, ForRight
  <2>8. Agree(bindings, bindings', BlocksTo(Top.framesAt))  BY <2>2 DEF Agree
  <2>9. StackRight'
    BY <2>1, <2>3, <2>4, <2>5, <2>7, <2>8, SetRight
  <2>10. stack' # <<>>  BY <1>2, <2>3, EmptySeq
  <2> QED  BY <2>9, <2>10 DEF AnswerRight, Answered
<1>4. CASE LeavesRight
  <2>1. PICK a \in Answer : Leave(a) /\ Right(Top.val, a, bindings)
    BY <1>4 DEF LeavesRight
  <2>2. answer' = a /\ stack' = SubSeq(stack, 1, n - 1) /\ UNCHANGED bindings
    BY <1>4, <2>1 DEF Leave, LeavesRight
  <2>3. Len(stack') = n - 1  BY <1>1, <2>2, PopFacts
  <2>4. locals' = Hears(SubSeq(locals, 1, Len(locals) - 1), a)
    BY <1>2, <2>2, <2>3 DEF NextLocals
  <2>5. StackRight'  BY <2>1, <2>2, <2>4, PopRight
  <2>6. ASSUME Answered' PROVE Right(asked', answer', bindings')
    <3>1. stack' = <<>>  BY <2>6 DEF Answered
    <3>4. Len(stack') = 0  BY <3>1, EmptySeq
    <3>5. n - 1 = 0  BY <2>3, <3>4
    <3>6. n \in Nat  BY <1>2
    <3>7. \A x \in Nat : x - 1 = 0 => x = 1  OBVIOUS
    <3>2. n = 1  BY <3>5, <3>6, <3>7, Zenon
    <3>3. asked = Top.val  BY <1>2, <3>2 DEF BottomAsked
    <3> QED  BY <2>1, <2>2, <3>3
  <2> QED  BY <2>5, <2>6 DEF AnswerRight
<1> QED  BY <1>3, <1>4

(* What a callback asks is answered at once, or evaluated.                 *)
LEMMA AskRight ==
  ASSUME SoundBase, ConstantsFold, RightInv, AskStep
  PROVE  RightInv'
<1>1. PICK v : v \in Wants /\ Ask(v)  BY DEF AskStep
<1>2. /\ InterpInv /\ TypeInv /\ Meaningful /\ StackRight /\ MemoSound /\ CacheSound
  BY DEF SoundBase, BaseInv, InterpInv, Grounded, RightInv
<1>3. /\ stack # <<>> /\ AskLocals /\ v \in Value /\ UNCHANGED <<bindings, entries>>
  BY <1>1, <1>2, AskedValue
  DEF AskStep, InCallback, Ask, QueryMemoized, QueryLeaf, QueryCycle, QueryEnter,
      scopes, cache
<1>4. CacheSound'  BY <1>2, <1>3 DEF CacheSound
<1>5. Len(stack) \in Nat  BY <1>2, <1>3, StackSizes
<1>6. ASSUME UNCHANGED stack, MemoSound', NEW a \in Answer, answer' = a,
             Right(v, a, bindings)
      PROVE  RightInv'
  <2>1. locals' = Hears(locals, a)  BY <1>3, <1>5, <1>6 DEF AskLocals
  <2>2. StackRight'  BY <1>1, <1>2, <1>3, <1>6, <2>1, HearRight
  <2>3. AnswerRight'  BY <1>3, <1>6 DEF AnswerRight, Answered
  <2> QED  BY <1>4, <1>6, <2>2, <2>3 DEF RightInv
<1>7. CASE QueryMemoized(v)
  <2>1. memo[v] \in Memo /\ memo[v] # NotMemoized
    BY <1>2, <1>3, <1>7 DEF QueryMemoized, TypeInv, TypeOK
  <2> PICK a : a = memo[v].answer  OBVIOUS
  <2>2. a \in Answer /\ answer' = a /\ UNCHANGED <<stack, memo>>
    BY <1>7, <2>1, AnswerFacts DEF QueryMemoized, Memo
  <2>3. Right(v, a, bindings)  BY <1>2, <1>3, <2>1 DEF MemoSound, Right
  <2>4. MemoSound'  BY <1>2, <1>3, <2>2 DEF MemoSound
  <2> QED  BY <1>6, <2>2, <2>3, <2>4
<1>8. CASE QueryLeaf(v)
  <2> PICK a : a = LeafAnswer(v)  OBVIOUS
  <2>1. v \notin Result /\ answer' = a /\ MemoizeAll([x \in {v} |-> a]) /\ UNCHANGED stack
    BY <1>8 DEF QueryLeaf
  <2>2. a \in Answer  BY <1>2, <1>3, LeafType, AnswerFacts
  <2>3. Right(v, a, bindings)  BY <1>2, <1>3, <2>1, LeafRight, RightFacts
  <2> PICK f : f = [x \in {v} |-> a]  OBVIOUS
  <2>4. MemoizeAll(f) /\ \A x \in DOMAIN f : f[x] \in Answer /\ Right(x, f[x], bindings)
    BY <2>1, <2>2, <2>3
  <2>5. MemoSound'  BY <1>2, <1>3, <2>4, MemoizesRight
  <2> QED  BY <1>6, <2>1, <2>2, <2>3, <2>5
<1>9. CASE QueryCycle(v)
  <2> PICK a : a = Signaled("Cycle")  OBVIOUS
  <2>1. answer' = a /\ UNCHANGED <<stack, memo>>
    BY <1>9 DEF QueryCycle, Reenters
  <2>2. a \in Answer /\ Right(v, a, bindings)
    BY AnswerFacts, AnswerAssumption, RightFacts
  <2>3. MemoSound'  BY <1>2, <1>3, <2>1 DEF MemoSound
  <2> QED  BY <1>6, <2>1, <2>2, <2>3
<1>10. CASE QueryEnter(v)
  <2>1. v \in Result /\ Activate(v) /\ UNCHANGED memo  BY <1>10 DEF QueryEnter
  <2>2. Len(stack') = Len(stack) + 1  BY <1>2, <2>1, PushFacts
  <2>3. locals' = Append(locals, Fresh)  BY <1>3, <1>5, <2>2 DEF AskLocals
  <2>4. StackRight'  BY <1>1, <1>2, <1>3, <2>1, <2>3, PushRight
  <2>5. stack' # <<>>  BY <1>5, <2>2, EmptySeq
  <2>6. MemoSound'  BY <1>2, <1>3, <2>1 DEF MemoSound
  <2> QED  BY <1>4, <2>4, <2>5, <2>6 DEF RightInv, AnswerRight, Answered
<1> QED  BY <1>1, <1>7, <1>8, <1>9, <1>10 DEF Ask

LEMMA HostRight ==
  ASSUME SoundBase, ConstantsFold, RightInv, HostStep
  PROVE  RightInv'
<1>1. /\ InterpInv /\ TypeInv /\ Meaningful /\ StackRight /\ MemoSound /\ CacheSound
  BY DEF SoundBase, BaseInv, InterpInv, Grounded, RightInv
<1>2. stack = <<>> /\ Len(stack) = 0 /\ locals = <<>> /\ UNCHANGED bindings
  <2>1. stack = <<>> /\ UNCHANGED bindings
    BY <1>1 DEF HostStep, Host, Query, EndQuery, ClearCache, TypeInv, Idle, scopes
  <2>2. locals \in Seq(LocalRecord) /\ Len(locals) = Len(stack)
    BY <1>1 DEF InterpInv, LocalsInv
  <2> QED  BY <2>1, <2>2, EmptySeq
<1>3. ASSUME UNCHANGED stack PROVE StackRight'
  <2>1. Len(stack') = 0  BY <1>2, <1>3
  <2>2. 1..0 = {}  OBVIOUS
  <2> QED  BY <2>1, <2>2 DEF StackRight
<1>4. CASE EndQuery
  <2>1. UNCHANGED <<stack, entries>> /\ ~running' /\ memo' = [v \in Value |-> NotMemoized]
    BY <1>4 DEF EndQuery, cache
  <2> QED  BY <1>1, <1>3, <2>1 DEF RightInv, MemoSound, CacheSound, AnswerRight, Answered
<1>5. CASE ClearCache
  <2>1. UNCHANGED <<stack, memo, running>> /\ ~running /\ entries' = [k \in Key |-> <<>>]
    BY <1>5 DEF ClearCache
  <2>2. CacheSound'
    <3>1. DOMAIN <<>> = {}  OBVIOUS
    <3> QED  BY <2>1, <3>1 DEF CacheSound
  <2>3. MemoSound'  BY <1>1, <1>2, <2>1 DEF MemoSound
  <2> QED  BY <1>3, <2>1, <2>2, <2>3 DEF RightInv, AnswerRight, Answered
<1>6. ASSUME NEW v \in Value, NEW b \in Budgets, Query(v, b) PROVE RightInv'
  <2>1. UNCHANGED <<memo, entries>> /\ asked' = v  BY <1>6 DEF Query
  <2>2. MemoSound' /\ CacheSound'  BY <1>1, <1>2, <2>1 DEF MemoSound, CacheSound
  <2>3. CASE v \in Result /\ Activate(v)
    <3>1. stack' # <<>>
      <4>1. Len(stack') = Len(stack) + 1  BY <1>1, <2>3, PushFacts
      <4> QED  BY <1>2, <4>1, EmptySeq
    <3>2. locals' = Append(locals, Fresh)  BY <1>2, <3>1 DEF HostStep
    <3>3. StackRight'  BY <1>1, <1>2, <2>1, <2>3, <3>2, PushRight
    <3> QED  BY <2>2, <3>1, <3>3 DEF RightInv, AnswerRight, Answered
  <2>4. CASE v \notin Result /\ answer' = LeafAnswer(v) /\ UNCHANGED stack
    <3>1. Right(v, LeafAnswer(v), bindings)
      BY <1>1, <2>4, LeafRight, RightFacts
    <3>2. AnswerRight'  BY <1>2, <2>1, <2>4, <3>1 DEF AnswerRight
    <3> QED  BY <1>3, <2>2, <2>4, <3>2 DEF RightInv
  <2> QED  BY <1>6, <2>3, <2>4 DEF Query
<1> QED  BY <1>4, <1>5, <1>6 DEF HostStep, Host

-----------------------------------------------------------------------------
(* The invariant, and what it gives for a host that asks from the outside. *)

LEMMA RightStep ==
  ASSUME SoundBase, BaseInv', ScopedInv', ConstantsFold, BottomAsked, HashesToKeys,
         RightInv, [INext]_ivars
  PROVE  RightInv'
<1>1. /\ InterpInv /\ TypeInv /\ TypeInv' /\ EntriesTop' /\ [Next]_vars
      /\ StackRight /\ MemoSound /\ CacheSound
  BY InterpStep DEF SoundBase, BaseInv, InterpInv, ScopedInv, RightInv
<1>2. CASE UNCHANGED ivars
  <2>1. UNCHANGED <<running, asked, answer, stack, locals, memo, bindings, entries>>
    BY <1>2 DEF ivars, vars, scopes, cache
  <2>2. \A r, l : HoldsRight(r, l, bindings) => HoldsRight(r, l, bindings)'
    BY <2>1 DEF HoldsRight, EntryRight, ComparesRight, OperandsRight, ForRight
  <2>3. ASSUME NEW i \in 1..Len(stack)
        PROVE  /\ HoldsRight(stack[i], locals[i], bindings)'
               /\ i # Len(stack) =>
                    Expects(stack[i], locals[i], stack[i + 1].val, bindings)'
    <3> PICK r, l, v : r = stack[i] /\ l = locals[i] /\ v = stack[i + 1].val  OBVIOUS
    <3>1. /\ HoldsRight(r, l, bindings)
          /\ i # Len(stack) => Expects(r, l, v, bindings)
      BY <1>1 DEF StackRight
    <3>2. Expects(r, l, v, bindings) => Expects(r, l, v, bindings)'
      BY <2>1, <2>2 DEF Expects
    <3> QED  BY <2>1, <2>2, <3>1, <3>2
  <2>4. StackRight'  BY <2>1, <2>3 DEF StackRight
  <2> QED
    BY <2>1, <2>4 DEF RightInv, MemoSound, CacheSound, AnswerRight, Answered
<1>3. CASE HostStep  BY <1>3, HostRight
<1>4. CASE AskStep  BY <1>4, AskRight
<1>5. ASSUME stack # <<>> PROVE EntriesExtend
  <2>1. running  BY <1>1, <1>5 DEF TypeInv, Idle
  <2> QED  BY <1>1, <2>1, GrowsStep DEF EntriesExtend
<1>6. CASE CallbackStep \/ ForRefused \/ ForReturns
  <2>1. stack # <<>> /\ MemoSound' /\ CacheSound' /\ (LeavesRight \/ MovesRight)
    BY <1>1, <1>6, CallbackRight, ForReturnRight
  <2>2. NextLocals  BY <1>6 DEF CallbackStep, ForRefused, ForReturns
  <2>3. UNCHANGED asked
    <3>1. CallbackReturn \/ Internal
      BY <1>1, <1>6, CallbackReturns, ForCallbackReturns
    <3> QED
      BY <3>1 DEF CallbackReturn, Internal, Eligible, CompareReturn, HashReturn,
         KeySignal, SearchMiss, SearchOwn, SearchSkip, SearchCompare, Charge,
         SearchEnds, EvaluateReturn
  <2>4. StackRight' /\ AnswerRight'
    BY <1>1, <1>5, <2>1, <2>2, <2>3, ReturnRight
  <2> QED  BY <2>1, <2>4 DEF RightInv
<1>7. CASE ForStarts \/ ForPays \/ ForBinds \/ ForIterates \/ ForThaws
  <2>1. StackRight' /\ MemoSound' /\ UNCHANGED entries
    <3>1. UNCHANGED <<bindings, memo>> => MemoSound'  BY <1>1 DEF MemoSound
    <3> QED
      BY <1>1, <1>7, <3>1, StartsRight, PaysRight, BindsRight, IteratesRight, ThawsRight
  <2>2. CacheSound'  BY <1>1, <2>1 DEF CacheSound
  <2>3. ~Answered'
    <3>1. \E at : InFor(at)
      BY <1>7 DEF ForStarts, ForPays, ForBinds, ForIterates, ForThaws
    <3>2. stack # <<>>  BY <1>1, <3>1, InForFacts
    <3>3. UNCHANGED stack
      BY <1>7 DEF ForStarts, ForPays, ForBinds, ForIterates, ForThaws, Freeze,
         DeclareCost, Bind, Unbind, Unfreeze
    <3> QED  BY <3>2, <3>3 DEF Answered
  <2> QED  BY <2>1, <2>2, <2>3 DEF RightInv, AnswerRight
<1> QED
  BY <1>2, <1>3, <1>4, <1>6, <1>7 DEF INext, EngineStep, ForStep

LEMMA RightInit ==
  ASSUME IInit
  PROVE  RightInv
<1>1. /\ stack = <<>> /\ ~running /\ memo = [v \in Value |-> NotMemoized]
      /\ entries = [k \in Key |-> <<>>]
  BY DEF IInit, Init
<1>2. Len(stack) = 0 /\ DOMAIN <<>> = {}  BY <1>1, EmptySeq
<1> QED
  BY <1>1, <1>2 DEF RightInv, StackRight, MemoSound, CacheSound, AnswerRight, Answered

LEMMA RightInvariant ==
  ASSUME HashesToKeys, Grounded
  PROVE  ISpec /\ []TopLevel => []RightInv
<1>1. IInit => RightInv  BY RightInit
<1>2. BaseInv /\ ScopedInv /\ BaseInv' /\ ScopedInv' /\ ConstantsFold /\ BottomAsked
      /\ RightInv /\ [INext]_ivars => RightInv'
  BY RightStep DEF SoundBase
<1>3. Visible  BY DEF Grounded
<1> QED
  BY <1>1, <1>2, <1>3, BaseInvariant, ScopedInvariant, ConstantsInvariant,
     OutcomeFollows, PTL DEF ISpec

LEMMA RightSound ==
  ASSUME BaseInv, RightInv
  PROVE  Sound /\ MemoSound /\ CacheSound
<1>1. ASSUME Answered PROVE bindings = NoBindings
  <2>1. /\ stack = <<>> /\ TypeInv /\ BindingsFollowFrames
        /\ DOMAIN frames = {}
    <3>1. stack = <<>> /\ DOMAIN stack = {}  BY <1>1, EmptySeq DEF Answered
    <3>2. TypeInv /\ BindingsFollowFrames /\ FrameOwners /\ NoneFrozen
      BY DEF BaseInv, StackInv, InterpInv, ScopeInv
    <3> QED  BY <3>1, <3>2 DEF NoneFrozen, FrameOwners
  <2>3. BoundBlocks = {}  BY <2>1 DEF BoundBlocks
  <2>4. \A a \in Arg : bindings[a] = NoAnswer
    <3> TAKE a \in Arg
    <3>1. PICK b \in Block : a \in ArgsOf(b)  BY DEF Arg, ArgsOf
    <3> QED  BY <2>1, <2>3, <3>1 DEF BindingsFollowFrames
  <2>5. bindings \in [Arg -> CompletedAnswer \cup {NoAnswer}]
    BY <2>1 DEF TypeInv, TypeOK
  <2> QED  BY <2>4, <2>5 DEF NoBindings
<1>2. Sound  BY <1>1 DEF Sound, RightInv, AnswerRight, Right
<1> QED  BY <1>2 DEF RightInv

LEMMA ProgramGrounded ==
  ASSUME AlikeMatch, NEW rank, Ranks(rank)
  PROVE  Grounded
BY ScopeAssumption, ValuesMean, ScopesDecide, AlikeLoopsEqual DEF Grounded

LEMMA SoundInvariant ==
  ASSUME HashesToKeys, AlikeMatch, NEW rank, Ranks(rank)
  PROVE  ISpec /\ []TopLevel => [](Sound /\ MemoSound /\ CacheSound)
<1>1. Grounded  BY ProgramGrounded
<1>2. BaseInv /\ RightInv => Sound /\ MemoSound /\ CacheSound  BY RightSound
<1> QED  BY <1>1, <1>2, BaseInvariant, RightInvariant, PTL

(* Whatever query, memoize, lookup, insert, bind and unbind of the engine  *)
(* and evaluate of scf.for and the integer operations do with the cache,   *)
(* the memo and the budget: a query that completes answers what the value  *)
(* means, after any history of queries and clearings, in every program.    *)
THEOREM AnswersSound ==
  ASSUME HashesToKeys, AlikeMatch, NEW rank, Ranks(rank)
  PROVE  ISpec /\ []TopLevel => []Sound
<1>1. Sound /\ MemoSound /\ CacheSound => Sound  OBVIOUS
<1> QED  BY <1>1, SoundInvariant, PTL

(* memoize and unbind: an answer in the memo is right under the bindings of*)
(* the moment, at any nesting of loops and in every iteration.             *)
THEOREM MemoIsSound ==
  ASSUME HashesToKeys, AlikeMatch, NEW rank, Ranks(rank)
  PROVE  ISpec /\ []TopLevel => []MemoSound
<1>1. Sound /\ MemoSound /\ CacheSound => MemoSound  OBVIOUS
<1> QED  BY <1>1, SoundInvariant, PTL

(* EvalCache insert and fill: an entry, though computed under a budget and *)
(* inside loops and served to equivalent operations, holds what the results*)
(* of the operation that created it mean with nothing bound.               *)
THEOREM CacheIsSound ==
  ASSUME HashesToKeys, AlikeMatch, NEW rank, Ranks(rank)
  PROVE  ISpec /\ []TopLevel => []CacheSound
<1>1. Sound /\ MemoSound /\ CacheSound => CacheSound  OBVIOUS
<1> QED  BY <1>1, SoundInvariant, PTL

-----------------------------------------------------------------------------
(* What the host sees is what QueryService does.                           *)

LEMMA NoneCyclic ==
  ASSUME NEW rank, Ranks(rank)
  PROVE  Cyclic = {}
<1>1. ASSUME NEW S \in SUBSET Op, SelfNeeding(S), S # {} PROVE FALSE
  <2> PICK N : N = {rank[o] : o \in S}  OBVIOUS
  <2>1. N \in SUBSET Nat /\ N # {}  BY <1>1 DEF Ranks
  <2>2. PICK x \in N : \A y \in N : x <= y  BY <2>1, LeastNatural
  <2>3. PICK o \in S : rank[o] = x  BY <2>2
  <2>4. PICK i \in DOMAIN Operands[o] :
          Operands[o][i] \in Result /\ Operands[o][i][1] \in S
    BY <1>1 DEF SelfNeeding, NeedsOneOf
  <2> PICK p : p = Operands[o][i][1]  OBVIOUS
  <2>5. rank[p] < rank[o]  BY <2>4 DEF Ranks, AsksBelow
  <2> PICK y : y = rank[p]  OBVIOUS
  <2>6. y \in N /\ y \in Nat /\ x \in Nat  BY <2>1, <2>4
  <2>7. y < x  BY <2>3, <2>5
  <2>8. x <= y  BY <2>2, <2>6
  <2> QED  BY <2>6, <2>7, <2>8
<1> QED  BY <1>1 DEF Cyclic

(* What a query may spend in a step, and who ends it.                      *)
LEMMA StepSpends ==
  ASSUME TypeInv, ScopeCall \/ CallbackReturn \/ Internal
  PROVE  /\ stack # <<>> /\ UNCHANGED <<running, asked>>
         /\ \/ UNCHANGED remaining
            \/ remaining > 0 /\ remaining' = remaining - 1 /\ stack' # <<>>
<1>1. CASE \E v \in Value : Ask(v)
  BY <1>1 DEF Ask, QueryMemoized, QueryLeaf, QueryCycle, QueryEnter, Asks, InCallback
<1>2. CASE DeclareCost
  BY <1>2 DEF DeclareCost, At
<1>3. CASE Freeze \/ Unfreeze \/ Unbind
  BY <1>3 DEF Freeze, Unfreeze, Unbind, At
<1>4. ASSUME NEW b \in Block, NEW args, Bind(b, args)
      PROVE  stack # <<>> /\ UNCHANGED <<running, asked, remaining>>
  BY <1>4 DEF Bind, At
<1>5. CASE CallbackReturn
  BY <1>5 DEF CallbackReturn, Eligible, CompareReturn, HashReturn, KeySignal,
     EvaluateReturn, SearchEnds, At
<1>6. CASE SearchMiss \/ SearchOwn \/ SearchSkip \/ SearchCompare
  BY <1>6 DEF SearchMiss, SearchOwn, SearchSkip, SearchCompare, SearchEnds, At
<1>7. CASE Charge
  <2>1. stack # <<>> /\ UNCHANGED <<running, asked>>  BY <1>7 DEF Charge, At
  <2>2. CASE HasStep /\ remaining' = remaining - 1 /\ Become([Top EXCEPT !.pc = "evaluate"])
    <3> PICK r : r = [Top EXCEPT !.pc = "evaluate"]  OBVIOUS
    <3>1. Len(stack') = Len(stack) /\ Len(stack) \in Nat \ {0}
      BY <2>1, <2>2, BecomeLength, StackSizes
    <3>2. stack' # <<>>  BY <3>1, EmptySeq
    <3> QED  BY <2>1, <2>2, <3>2 DEF HasStep
  <2> QED  BY <1>7, <2>1, <2>2 DEF Charge
<1> QED  BY <1>1, <1>2, <1>3, <1>4, <1>5, <1>6, <1>7 DEF ScopeCall, Internal

(* The host asks for a value, and the engine answers for that one.         *)
HostAsks == running => asked \in Value

LEMMA HostAsksStep ==
  ASSUME TypeInv, HostAsks, [Next]_vars
  PROVE  HostAsks'
<1>1. CASE UNCHANGED vars  BY <1>1 DEF vars, HostAsks
<1>2. CASE Host
  BY <1>2 DEF Host, Query, EndQuery, ClearCache, HostAsks
<1>3. CASE ScopeCall \/ CallbackReturn \/ Internal
  BY <1>3, StepSpends DEF HostAsks
<1> QED  BY <1>1, <1>2, <1>3 DEF Next

(* An answer at hand is one the service may give.                          *)
LEMMA AnswerReplies ==
  ASSUME TypeInv, HostAsks, Sound, NEW rank, Ranks(rank), SignalsInv(rank), Answered
  PROVE  answer \in Service!Replies(asked, remaining) /\ answer # Null
<1>1. Cyclic = {}  BY NoneCyclic
<1>3. Justified(answer, 0, rank)  BY DEF SignalsInv
<1>4. ~Comparing(0)  BY DEF Comparing
<1>5. answer \in CompletedAnswer => answer = Completed(Denote(asked, NoBindings))
  BY DEF Sound
<1>6. answer \in Service!Replies(asked, remaining)
  BY <1>1, <1>3, <1>4, <1>5 DEF Justified, Service!Replies
<1>7. answer \in Answer
  BY <1>3, <1>4, AnswerFacts, AnswerAssumption DEF Justified
<1> QED  BY <1>6, <1>7, ServiceAssumption

Replying ==
  Answered => answer \in Service!Replies(asked, remaining) /\ answer # Null

LEMMA ServiceStep ==
  ASSUME TypeInv, HostAsks, HostAsks', Replying, Replying', [Next]_vars
  PROVE  [Service!Next]_(Service!vars)
<1>1. /\ running => Pending = asked /\ Pending # Null
      /\ (running => Pending = asked /\ Pending # Null)'
  BY ServiceAssumption DEF HostAsks, Pending
<1>2. /\ ~running => Pending = Null
      /\ (~running => Pending = Null)'
  BY DEF Pending
<1>3. /\ Answered => Given = answer /\ Given # Null
      /\ Answered' => Given' = answer' /\ Given' # Null
                      /\ Given' \in Service!Replies(asked', remaining')
  BY DEF Given, Replying
<1>4. /\ ~Answered => Given = Null
      /\ (~Answered => Given = Null)'
  BY DEF Given
<1>5. CASE UNCHANGED vars
  BY <1>5 DEF vars, Service!vars, Pending, Given, Answered
<1>6. CASE EndQuery
  <2>1. Answered /\ ~running' /\ ~Answered' /\ UNCHANGED remaining
    BY <1>6 DEF EndQuery, Answered
  <2>2. Service!Take
    BY <1>2, <1>3, <1>4, <2>1 DEF Service!Take
  <2> QED  BY <2>2 DEF Service!Next
<1>7. CASE ClearCache
  BY <1>7 DEF ClearCache, Service!vars, Pending, Given, Answered
<1>8. ASSUME NEW v \in Value, NEW b \in Budgets, Query(v, b)
      PROVE  Service!Next
  <2>1. ~running /\ running' /\ asked' = v /\ remaining' = b
    BY <1>8 DEF Query
  <2>2. Given' \in {Null} \cup Service!Replies(v, b)
    BY <1>3, <1>4, <2>1
  <2>3. Service!Ask
    BY <1>1, <1>2, <2>1, <2>2 DEF Service!Ask
  <2> QED  BY <2>3 DEF Service!Next
<1>9. CASE ScopeCall \/ CallbackReturn \/ Internal
  <2>1. /\ stack # <<>> /\ UNCHANGED <<running, asked>> /\ running
        /\ \/ UNCHANGED remaining
           \/ remaining > 0 /\ remaining' = remaining - 1 /\ stack' # <<>>
    BY <1>9, StepSpends DEF TypeInv, Idle
  <2>2. Given = Null /\ Pending # Null /\ UNCHANGED Pending
    BY <1>1, <1>4, <2>1 DEF Answered
  <2>3. CASE stack' = <<>>
    <3>1. Answered' /\ UNCHANGED remaining  BY <2>1, <2>3 DEF Answered
    <3>2. Given' \in Service!Replies(Pending, remaining)
      BY <1>1, <1>3, <2>1, <3>1
    <3>3. Service!Reply  BY <2>2, <3>1, <3>2 DEF Service!Reply
    <3> QED  BY <3>3 DEF Service!Next
  <2>4. CASE stack' # <<>>
    <3>1. UNCHANGED Given  BY <1>4, <2>2, <2>4 DEF Answered
    <3>2. CASE UNCHANGED remaining
      BY <2>2, <3>1, <3>2 DEF Service!vars
    <3>3. CASE remaining > 0 /\ remaining' = remaining - 1
      <4>1. Service!Spend  BY <2>2, <3>1, <3>3 DEF Service!Spend
      <4> QED  BY <4>1 DEF Service!Next
    <3> QED  BY <2>1, <3>2, <3>3
  <2> QED  BY <2>3, <2>4
<1> QED  BY <1>5, <1>6, <1>7, <1>8, <1>9 DEF Next, Host

LEMMA ServiceInit ==
  ASSUME IInit
  PROVE  Service!Init /\ HostAsks
BY DEF IInit, Init, Service!Init, HostAsks, Pending, Given, Answered

(* The engine, with its cache, memo, loops and comparisons, does for its   *)
(* host what QueryService says, step by step: it replies once, with what   *)
(* the value means, or, with nothing left of the budget, Exhausted.        *)
THEOREM ImplementsQueries ==
  ASSUME HashesToKeys, AlikeMatch, NEW rank, Ranks(rank)
  PROVE  ISpec /\ []TopLevel => ServesQueries
<1>1. IInit => Service!Init /\ HostAsks  BY ServiceInit
<1>2. InterpInv /\ HostAsks /\ [INext]_ivars => HostAsks' /\ [Next]_vars
  BY InterpStep, HostAsksStep DEF InterpInv
<1>3. InterpInv /\ HostAsks /\ Sound /\ SignalsInv(rank) => Replying
  BY AnswerReplies DEF InterpInv, Replying
<1>4. InterpInv /\ HostAsks /\ HostAsks' /\ Replying /\ Replying' /\ [Next]_vars =>
        [Service!Next]_(Service!vars)
  BY ServiceStep DEF InterpInv
<1> QED
  BY <1>1, <1>2, <1>3, <1>4, LocalsFollowStack, AnswersSound, SignalsInvariant, PTL
  DEF ISpec, ServesQueries
=============================================================================
