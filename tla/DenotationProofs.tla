-------------------------- MODULE DenotationProofs --------------------------
(***************************************************************************)
(* In a program whose values do not need themselves every value has a      *)
(* meaning, which depends on nothing but the arguments in its scope, and   *)
(* loops that differ in nothing but their operands mean the same.          *)
(***************************************************************************)
EXTENDS Denotation, SignalsProofs, WellFoundedInduction

LEMMA LeastNatural ==
  ASSUME NEW S \in SUBSET Nat, S # {}
  PROVE  \E x \in S : \A y \in S : x <= y
<1>1. IsWellFoundedOn(OpToRel(<, Nat), Nat)  BY NatLessThanWellFounded
<1>2. PICK x \in S : \A y \in S : ~(<<y, x>> \in OpToRel(<, Nat))
  BY <1>1, WFMin
<1>3. \A y \in S : ~(y < x)  BY <1>2 DEF OpToRel
<1> QED  BY <1>3

(* A set with zero and the successor of each of its members is all of Nat. *)
LEMMA Induction ==
  ASSUME NEW S, 0 \in S, \A n \in Nat : n \in S => n + 1 \in S
  PROVE  Nat \subseteq S
<1> SUFFICES ASSUME Nat \ S # {} PROVE FALSE  OBVIOUS
<1>1. Nat \ S \in SUBSET Nat  OBVIOUS
<1>2. PICK x \in Nat \ S : \A y \in Nat \ S : x <= y  BY <1>1, LeastNatural
<1>3. x # 0  OBVIOUS
<1>4. x - 1 \in Nat  BY <1>3
<1>5. x - 1 \in S  BY <1>2, <1>4
<1>6. (x - 1) + 1 = x  BY <1>2
<1> QED  BY <1>4, <1>5, <1>6

(* A function on the natural numbers can be given by its first value and   *)
(* how each follows from the one before.                                   *)
Iterates(f, s0, G) == f[0] = s0 /\ \A k \in Nat : f[k + 1] = G[<<k, f[k]>>]
LEMMA Recursion ==
  ASSUME NEW S, NEW s0 \in S, NEW G \in [Nat \X S -> S]
  PROVE  \E f \in [Nat -> S] : Iterates(f, s0, G)
<1> DEFINE Starts(g, n) ==
             /\ g \in [0..n -> S] /\ g[0] = s0
             /\ \A k \in 0..(n - 1) : g[k + 1] = G[<<k, g[k]>>]
           N == {n \in Nat : \E g : Starts(g, n)}
           the(n) == CHOOSE g : Starts(g, n)
           f == [n \in Nat |-> the(n)[n]]
<1>1. Nat \subseteq N
  <2>1. 0 \in N
    <3>1. Starts([k \in 0..0 |-> s0], 0)  OBVIOUS
    <3> QED  BY <3>1
  <2>2. ASSUME NEW n \in Nat, n \in N PROVE n + 1 \in N
    <3>1. PICK g : Starts(g, n)  BY <2>2
    <3> DEFINE h == [k \in 0..(n + 1) |-> IF k = n + 1 THEN G[<<n, g[n]>>] ELSE g[k]]
    <3>2. g[n] \in S /\ G[<<n, g[n]>>] \in S  BY <3>1
    <3>3. h \in [0..(n + 1) -> S]  BY <3>1, <3>2
    <3>4. h[0] = s0  BY <3>1
    <3>5. ASSUME NEW k \in 0..((n + 1) - 1) PROVE h[k + 1] = G[<<k, h[k]>>]
      <4>1. h[k] = g[k] /\ k \in 0..n /\ k + 1 \in 0..(n + 1)  OBVIOUS
      <4>2. h[k + 1] = IF k + 1 = n + 1 THEN G[<<n, g[n]>>] ELSE g[k + 1]  BY <4>1
      <4>3. CASE k = n  BY <4>1, <4>2, <4>3
      <4>4. CASE k # n
        <5>1. k \in 0..(n - 1) /\ k + 1 # n + 1  BY <4>1, <4>4
        <5>2. g[k + 1] = G[<<k, g[k]>>]  BY <3>1, <5>1
        <5> HIDE DEF h
        <5> QED  BY <4>1, <4>2, <5>1, <5>2
      <4> QED  BY <4>3, <4>4
    <3>6. Starts(h, n + 1)  BY <3>3, <3>4, <3>5
    <3> HIDE DEF h, Starts
    <3> QED  BY <3>6
  <2> HIDE DEF N
  <2> QED  BY <2>1, <2>2, Induction
<1>2. \A n \in Nat : Starts(the(n), n)
  <2> SUFFICES ASSUME NEW n \in Nat PROVE Starts(the(n), n)  OBVIOUS
  <2>1. \E g : Starts(g, n)  BY <1>1
  <2> HIDE DEF Starts
  <2> QED  BY <2>1
<1>3. ASSUME NEW n \in Nat PROVE \A k \in 0..n : the(n + 1)[k] = the(n)[k]
  <2> PICK g, h : g = the(n) /\ h = the(n + 1)  OBVIOUS
  <2>1. Starts(g, n) /\ Starts(h, n + 1)
    <3>1. n + 1 \in Nat  OBVIOUS
    <3> HIDE DEF the, Starts
    <3> QED  BY <1>2, <3>1
  <2> DEFINE K == {k \in Nat : k <= n => h[k] = g[k]}
  <2>2. 0 \in K  BY <2>1
  <2>3. ASSUME NEW k \in Nat, k \in K PROVE k + 1 \in K
    <3> SUFFICES ASSUME k + 1 <= n PROVE h[k + 1] = g[k + 1]  OBVIOUS
    <3>1. k \in 0..(n - 1) /\ k \in 0..((n + 1) - 1) /\ k <= n  OBVIOUS
    <3>2. h[k] = g[k]  BY <2>3, <3>1
    <3> QED  BY <2>1, <3>1, <3>2
  <2>4. Nat \subseteq K
    <3> HIDE DEF K
    <3> QED  BY <2>2, <2>3, Induction
  <2> HIDE DEF the
  <2> QED  BY <2>4
<1>4. \A n \in Nat : the(n) \in [0..n -> S] /\ the(n)[0] = s0
                     /\ \A k \in 0..(n - 1) : the(n)[k + 1] = G[<<k, the(n)[k]>>]
  BY <1>2
<1> HIDE DEF the
<1>5. f \in [Nat -> S]  BY <1>4
<1>6. f[0] = s0  BY <1>4
<1>7. ASSUME NEW k \in Nat PROVE f[k + 1] = G[<<k, f[k]>>]
  <2>1. k + 1 \in Nat /\ k \in 0..((k + 1) - 1) /\ k \in 0..k  OBVIOUS
  <2>2. the(k + 1)[k + 1] = G[<<k, the(k + 1)[k]>>]  BY <1>4, <2>1
  <2>3. the(k + 1)[k] = the(k)[k]  BY <1>3, <2>1
  <2> QED  BY <2>1, <2>2, <2>3
<1> QED  BY <1>5, <1>6, <1>7 DEF Iterates

-----------------------------------------------------------------------------
(* Meanings.                                                               *)

Denoted == Val \cup {Null}
Questions == Value \X Environment
Meanings == [Questions -> Denoted]
Tuples(o) == [1..Arity[o] -> Denoted]

(* Every value has a meaning in every environment.                         *)
Meaningful ==
  /\ Denotes \in Meanings
  /\ \A v \in Value, env \in Environment : Denote(v, env) = DenoteIn(Denotes, v, env)

LEMMA CompletedFacts ==
  /\ \A x \in Denoted : Completed(x) \in CompletedAnswer /\ Completed(x).value = x
  /\ \A a \in CompletedAnswer \cup {NoAnswer} : a.value \in Denoted
  /\ \A a \in CompletedAnswer : a = Completed(a.value)
  /\ Null \notin Val
  BY AnswerAssumption DEF Denoted, CompletedAnswer, Known, Unknown, Completed, NoAnswer

(* The environment of an iteration differs in the arguments of the body.   *)
LEMMA InBodyFacts ==
  ASSUME NEW o \in Loops, NEW env \in Environment, NEW iv \in Val, NEW c \in Tuples(o)
  PROVE  /\ InBody(o, env, iv, c) \in Environment
         /\ InBody(o, env, iv, c)[<<Body[o], 1>>] = Completed(iv)
         /\ \A i \in 1..Arity[o] :
              InBody(o, env, iv, c)[<<Body[o], i + 1>>] = Completed(c[i])
         /\ \A a \in Arg : a[1] # Body[o] => InBody(o, env, iv, c)[a] = env[a]
<1>1. /\ Body[o] \in Block /\ NumArgs[Body[o]] = 1 + Arity[o]
      /\ o \in Op /\ Arity[o] \in Nat \ {0}
  BY ProgramFacts, ArityAssumption
<1>2. /\ ArgsOf(Body[o]) \subseteq Arg
      /\ \A a \in ArgsOf(Body[o]) : a[1] = Body[o] /\ a[2] \in 1..NumArgs[Body[o]]
  BY <1>1, ArgsOfFacts
<1>3. \A j \in 1..(1 + Arity[o]) : <<Body[o], j>> \in ArgsOf(Body[o])
  BY <1>1 DEF ArgsOf
<1>4. ASSUME NEW a \in Arg
      PROVE  InBody(o, env, iv, c)[a] \in CompletedAnswer \cup {NoAnswer}
  <2>1. CASE a = <<Body[o], 1>>
    BY <2>1, CompletedFacts DEF InBody, Denoted
  <2>2. CASE a # <<Body[o], 1>> /\ a \in ArgsOf(Body[o]) /\ a[2] > 1
    <3>1. a[2] - 1 \in 1..Arity[o]  BY <1>1, <1>2, <2>2
    <3>2. c[a[2] - 1] \in Denoted  BY <3>1 DEF Tuples
    <3>3. InBody(o, env, iv, c)[a] = Completed(c[a[2] - 1])  BY <2>2 DEF InBody
    <3> QED  BY <3>2, <3>3, CompletedFacts
  <2>3. CASE a # <<Body[o], 1>> /\ ~(a \in ArgsOf(Body[o]) /\ a[2] > 1)
    <3>1. InBody(o, env, iv, c)[a] = env[a]  BY <2>3 DEF InBody
    <3> QED  BY <3>1 DEF Environment
  <2> QED  BY <2>1, <2>2, <2>3
<1>5. InBody(o, env, iv, c) \in Environment
  BY <1>4 DEF InBody, Environment
<1>6. InBody(o, env, iv, c)[<<Body[o], 1>>] = Completed(iv)
  BY <1>1, <1>2, <1>3 DEF InBody
<1>7. ASSUME NEW i \in 1..Arity[o]
      PROVE  InBody(o, env, iv, c)[<<Body[o], i + 1>>] = Completed(c[i])
  <2>1. <<Body[o], i + 1>> \in ArgsOf(Body[o]) /\ i + 1 > 1 /\ i + 1 # 1 /\ (i + 1) - 1 = i
    BY <1>1, <1>3
  <2>2. <<Body[o], i + 1>> # <<Body[o], 1>> /\ <<Body[o], i + 1>> \in Arg
    BY <1>2, <2>1
  <2> QED  BY <2>1, <2>2 DEF InBody
<1>8. ASSUME NEW a \in Arg, a[1] # Body[o]
      PROVE  InBody(o, env, iv, c)[a] = env[a]
  <2>1. a # <<Body[o], 1>> /\ a \notin ArgsOf(Body[o])  BY <1>2, <1>8
  <2> QED  BY <2>1 DEF InBody
<1> QED  BY <1>5, <1>6, <1>7, <1>8

LEMMA OperandFacts ==
  ASSUME NEW o \in Op
  PROVE  /\ \A i \in DOMAIN Operands[o] : Operands[o][i] \in Value
         /\ o \notin Loops => DOMAIN Operands[o] = 1..2 /\ Arity[o] = 1
         /\ o \in Loops => /\ DOMAIN Operands[o] = 1..(3 + Arity[o])
                           /\ DOMAIN Yields[o] = 1..Arity[o]
                           /\ \A i \in 1..Arity[o] : Yields[o][i] \in Value
         /\ Arity[o] \in Nat \ {0}
<1>1. Operands[o] \in Seq(Value) /\ Arity[o] \in Nat \ {0}
  BY ProgramFacts, ArityAssumption
<1>2. \A i \in DOMAIN Operands[o] : Operands[o][i] \in Value  BY <1>1
<1>3. o \notin Loops => DOMAIN Operands[o] = 1..2 /\ Arity[o] = 1
  BY <1>1, InterpAssumption
<1>4. o \in Loops => /\ DOMAIN Operands[o] = 1..(3 + Arity[o])
                     /\ DOMAIN Yields[o] = 1..Arity[o]
                     /\ \A i \in 1..Arity[o] : Yields[o][i] \in Value
  BY <1>1, ProgramFacts
<1> QED  BY <1>1, <1>2, <1>3, <1>4

(* D gives what o needs in env a meaning.                                  *)
Defined(D, o, env) ==
  /\ \A i \in DOMAIN Operands[o] : DenoteOperand(D, o, env, i) \in Denoted
  /\ o \in Loops =>
       \A i \in 1..Arity[o] : \A iv \in Val : \A c \in Tuples(o) :
         D[<<Yields[o][i], InBody(o, env, iv, c)>>] \in Denoted

LEMMA MeaningsDefine ==
  ASSUME NEW D \in Meanings, NEW o \in Op, NEW env \in Environment
  PROVE  Defined(D, o, env)
<1>1. \A i \in DOMAIN Operands[o] : DenoteOperand(D, o, env, i) \in Denoted
  BY OperandFacts DEF DenoteOperand, Meanings, Questions
<1>2. ASSUME o \in Loops, NEW i \in 1..Arity[o], NEW iv \in Val, NEW c \in Tuples(o)
      PROVE  D[<<Yields[o][i], InBody(o, env, iv, c)>>] \in Denoted
  <2>1. Yields[o][i] \in Value /\ InBody(o, env, iv, c) \in Environment
    BY <1>2, OperandFacts, InBodyFacts
  <2> QED  BY <2>1 DEF Meanings, Questions
<1> QED  BY <1>1, <1>2 DEF Defined

(* A loop's bounds are integers, and its induction variables have bits.    *)
LEMMA BoundFacts ==
  ASSUME NEW D, NEW o \in Loops, NEW env \in Environment,
         Defined(D, o, env), OperandsKnown(D, o, env)
  PROVE  /\ Lower(D, o, env) \in Int /\ Upper(D, o, env) \in Int
         /\ Stride(D, o, env) \in Int
         /\ \A k \in Nat : /\ InductionVariable(D, o, env, k) \in Int
                           /\ InductionVariable(D, o, env, k) % 2^Width \in Val
         /\ Stride(D, o, env) > 0 => Trips(D, o, env) \in Nat
<1>1. o \in Op  BY ProgramFacts
<1>2. \A i \in 1..3 : DenoteOperand(D, o, env, i) \in Val
  <2>1. \A i \in 1..3 : i \in DOMAIN Operands[o]  BY <1>1, OperandFacts
  <2> QED  BY <2>1 DEF Defined, OperandsKnown, Denoted
<1>3. 2^Width \in Nat \ {0} /\ Val = 0..(2^Width - 1)
  BY InterpAssumption DEF Modulus
<1>4. \A x \in Val : Reads(o, x) \in Int  BY <1>3 DEF Reads
<1>5. Lower(D, o, env) \in Int /\ Upper(D, o, env) \in Int /\ Stride(D, o, env) \in Int
  BY <1>2, <1>4 DEF Lower, Upper, Stride
<1>6. \A k \in Nat : InductionVariable(D, o, env, k) \in Int
  BY <1>5 DEF InductionVariable
<1>7. \A i \in Int : i % 2^Width \in Val  BY <1>3
<1>8. Stride(D, o, env) > 0 => Trips(D, o, env) \in Nat
  BY <1>5 DEF Trips
<1> QED  BY <1>5, <1>6, <1>7, <1>8

(* What a loop carries is given by its initial values and one iteration.   *)
Unfolds(after, D, o, env) ==
  /\ after \in [Nat -> Tuples(o)]
  /\ \A i \in 1..Arity[o] :
       /\ after[0][i] = DenoteOperand(D, o, env, i + 3)
       /\ \A k \in Nat :
            after[k + 1][i] =
              D[<<Yields[o][i],
                  InBody(o, env, InductionVariable(D, o, env, k) % 2^Width, after[k])>>]

LEMMA AfterFacts ==
  ASSUME NEW D, NEW o \in Loops, NEW env \in Environment,
         Defined(D, o, env), OperandsKnown(D, o, env)
  PROVE  Unfolds(After(D, o, env), D, o, env)
<1> DEFINE IV(k) == InductionVariable(D, o, env, k) % 2^Width
           s0 == [i \in 1..Arity[o] |-> DenoteOperand(D, o, env, i + 3)]
           Next1(k, c) == [i \in 1..Arity[o] |-> D[<<Yields[o][i], InBody(o, env, IV(k), c)>>]]
           G == [q \in Nat \X Tuples(o) |-> Next1(q[1], q[2])]
<1>1. o \in Op  BY ProgramFacts
<1>2. s0 \in Tuples(o)
  <2>1. \A i \in 1..Arity[o] : i + 3 \in DOMAIN Operands[o]  BY <1>1, OperandFacts
  <2> QED  BY <2>1 DEF Defined, Tuples
<1>3. ASSUME NEW k \in Nat, NEW c \in Tuples(o) PROVE Next1(k, c) \in Tuples(o)
  <2>1. IV(k) \in Val  BY BoundFacts
  <2> HIDE DEF IV
  <2> QED  BY <2>1 DEF Defined, Tuples
<1>4. G \in [Nat \X Tuples(o) -> Tuples(o)]
  <2> HIDE DEF Next1
  <2> QED  BY <1>3
<1>5. PICK f \in [Nat -> Tuples(o)] : Iterates(f, s0, G)
  <2> HIDE DEF G, s0
  <2> QED  BY <1>2, <1>4, Recursion
<1>6. \A k \in Nat : f[k + 1] = Next1(k, f[k])
  <2>1. \A k \in Nat : f[k + 1] = G[<<k, f[k]>>] /\ <<k, f[k]>> \in Nat \X Tuples(o)
    <3> HIDE DEF G
    <3> QED  BY <1>5 DEF Iterates
  <2> HIDE DEF Next1
  <2> QED  BY <2>1
<1>0. f[0] = s0  BY <1>5 DEF Iterates
<1> DEFINE Step(h, k) ==
             [i \in 1..Arity[o] |->
                IF k = 0 THEN DenoteOperand(D, o, env, i + 3)
                ELSE LET iv == InductionVariable(D, o, env, k - 1) % 2^Width
                     IN D[<<Yields[o][i], InBody(o, env, iv, h[k - 1])>>]]
<1>7. f = [k \in Nat |-> Step(f, k)]
  <2> SUFFICES ASSUME NEW k \in Nat PROVE f[k] = Step(f, k)  BY <1>5
  <2>1. CASE k = 0  BY <1>0, <2>1
  <2>2. CASE k # 0
    <3>1. k - 1 \in Nat /\ (k - 1) + 1 = k  BY <2>2
    <3>2. f[k] = Next1(k - 1, f[k - 1])  BY <1>6, <3>1
    <3> QED  BY <2>2, <3>2
  <2> QED  BY <2>1, <2>2
<1>8. After(D, o, env) = [k \in Nat |-> Step(After(D, o, env), k)]
  BY <1>7 DEF After
<1> PICK A : A = After(D, o, env)  OBVIOUS
<1>9. A[0] = s0  BY <1>8
<1>10. ASSUME NEW k \in Nat PROVE A[k + 1] = Next1(k, A[k])
  <2>1. k + 1 \in Nat /\ k + 1 # 0 /\ (k + 1) - 1 = k  OBVIOUS
  <2>2. A[k + 1] = Step(A, k + 1)  BY <1>8, <2>1
  <2> QED  BY <2>1, <2>2
<1>11. A \in [Nat -> Tuples(o)]
  <2> DEFINE K == {k \in Nat : A[k] \in Tuples(o)}
  <2>1. 0 \in K  BY <1>2, <1>9
  <2>2. \A k \in Nat : k \in K => k + 1 \in K
    <3> HIDE DEF Next1
    <3> QED  BY <1>3, <1>10
  <2>3. Nat \subseteq K
    <3> HIDE DEF K
    <3> QED  BY <2>1, <2>2, Induction
  <2>4. A = [k \in Nat |-> A[k]]  BY <1>8
  <2> QED  BY <2>3, <2>4
<1>12. ASSUME NEW i \in 1..Arity[o]
       PROVE  /\ A[0][i] = DenoteOperand(D, o, env, i + 3)
              /\ \A k \in Nat : A[k + 1][i] = D[<<Yields[o][i], InBody(o, env, IV(k), A[k])>>]
  <2>1. s0[i] = DenoteOperand(D, o, env, i + 3)  OBVIOUS
  <2>2. ASSUME NEW k \in Nat
        PROVE  A[k + 1][i] = D[<<Yields[o][i], InBody(o, env, IV(k), A[k])>>]
    <3>1. A[k + 1] = Next1(k, A[k])  BY <1>10
    <3> PICK c : c = A[k]  OBVIOUS
    <3>2. Next1(k, c)[i] = D[<<Yields[o][i], InBody(o, env, IV(k), c)>>]  OBVIOUS
    <3> HIDE DEF Next1, IV
    <3> QED  BY <3>1, <3>2
  <2> HIDE DEF s0, IV
  <2> QED  BY <1>9, <2>1, <2>2
<1>13. Unfolds(A, D, o, env)
  <2> HIDE DEF s0, Next1, G
  <2> QED  BY <1>11, <1>12 DEF Unfolds
<1> QED  BY <1>13

LEMMA MeaningType ==
  ASSUME NEW D, NEW v \in Value, NEW env \in Environment,
         v \in Result => Defined(D, v[1], env)
  PROVE  DenoteIn(D, v, env) \in Denoted
<1>0. 2^Width \in Nat \ {0} /\ Val = 0..(2^Width - 1)
  BY InterpAssumption DEF Modulus
<1>1. CASE v \in Arg
  <2>1. env[v].value \in Denoted  BY <1>1, CompletedFacts DEF Environment
  <2> QED  BY <1>1, <2>1, KindAssumption DEF DenoteIn
<1>2. CASE v \notin Arg /\ v \in Plain \cup Constant
  BY <1>2, ConstantAssumption, KindAssumption DEF DenoteIn, Denoted
<1>3. CASE v \in Result
  <2>0. v \notin Arg /\ v \notin Plain /\ v \notin Constant  BY <1>3, KindAssumption
  <2>1. v[1] \in Op /\ v[2] \in 1..Arity[v[1]]  BY <1>3, ValueFacts
  <2>2. CASE v[1] \in Loops
    <3>1. DenoteIn(D, v, env) = DenoteFor(D, v[1], env)[v[2]]
      BY <1>3, <2>0, <2>2 DEF DenoteIn
    <3>2. DenoteFor(D, v[1], env) \in Tuples(v[1])
      <4>1. [i \in 1..Arity[v[1]] |-> Null] \in Tuples(v[1])  BY DEF Tuples, Denoted
      <4>2. ASSUME OperandsKnown(D, v[1], env), Stride(D, v[1], env) > 0
            PROVE  After(D, v[1], env)[Trips(D, v[1], env)] \in Tuples(v[1])
        <5> PICK o, A, n : /\ o = v[1] /\ A = After(D, v[1], env)
                           /\ n = Trips(D, v[1], env)
          OBVIOUS
        <5>1. A \in [Nat -> Tuples(o)]  BY <1>3, <2>2, <4>2, AfterFacts DEF Unfolds
        <5>2. n \in Nat  BY <1>3, <2>2, <4>2, BoundFacts
        <5> QED  BY <5>1, <5>2
      <4> QED  BY <4>1, <4>2 DEF DenoteFor
    <3> QED  BY <2>1, <3>1, <3>2 DEF Tuples
  <2>3. CASE v[1] \notin Loops
    <3>1. PICK x, y : /\ x = DenoteOperand(D, v[1], env, 1)
                      /\ y = DenoteOperand(D, v[1], env, 2)
      OBVIOUS
    <3>2. x \in Denoted /\ y \in Denoted
      <4>1. 1 \in DOMAIN Operands[v[1]] /\ 2 \in DOMAIN Operands[v[1]]
        BY <2>1, <2>3, OperandFacts
      <4> QED  BY <1>3, <3>1, <4>1 DEF Defined
    <3>3. DenoteIn(D, v, env) = DenoteBinary(Kind[v[1]], x, y)
      BY <1>3, <2>0, <2>3, <3>1 DEF DenoteIn
    <3>4. Kind[v[1]] \in {"addi", "subi", "muli"}
      BY <2>1, <2>3, InterpAssumption DEF Loops
    <3>5. CASE Kind[v[1]] = "muli" /\ (x = 0 \/ y = 0)
      BY <1>0, <3>3, <3>5 DEF DenoteBinary, Denoted
    <3>6. CASE Null \in {x, y} /\ ~(Kind[v[1]] = "muli" /\ (x = 0 \/ y = 0))
      BY <3>3, <3>6 DEF DenoteBinary, Denoted
    <3>7. CASE Null \notin {x, y} /\ ~(Kind[v[1]] = "muli" /\ (x = 0 \/ y = 0))
      <4>1. x \in Int /\ y \in Int  BY <1>0, <3>2, <3>7 DEF Denoted
      <4>2. \A i \in Int : i % 2^Width \in Val  BY <1>0
      <4>3. x + y \in Int /\ x - y \in Int /\ x * y \in Int  BY <4>1
      <4>4. DenoteBinary(Kind[v[1]], x, y) \in Val
        BY <3>4, <3>7, <4>2, <4>3 DEF DenoteBinary
      <4> QED  BY <3>3, <4>4 DEF Denoted
    <3> QED  BY <3>5, <3>6, <3>7
  <2> QED  BY <2>2, <2>3
<1> QED  BY <1>1, <1>2, <1>3 DEF Value

(* Operations of a kind mean the same where their operands do, and, of     *)
(* loops, their yields do in the same iteration.                           *)
SameYields(D, o, env, E, p, other) ==
  \A i \in 1..Arity[o] : \A iv \in Val : \A c \in Tuples(o) :
    D[<<Yields[o][i], InBody(o, env, iv, c)>>] =
      E[<<Yields[p][i], InBody(p, other, iv, c)>>]
SameOperands(D, o, env, E, p, other) ==
  \A i \in DOMAIN Operands[o] :
    DenoteOperand(D, o, env, i) = DenoteOperand(E, p, other, i)

Mirrors(D, o, env, E, p, other) ==
  /\ Arity[o] = Arity[p] /\ ((o \in Unsigned) <=> (p \in Unsigned))
  /\ SameOperands(D, o, env, E, p, other)
  /\ o \in Loops => SameYields(D, o, env, E, p, other)

SameLoop(D, o, env, E, p, other) ==
  /\ OperandsKnown(D, o, env) <=> OperandsKnown(E, p, other)
  /\ Lower(D, o, env) = Lower(E, p, other)
  /\ Upper(D, o, env) = Upper(E, p, other)
  /\ Stride(D, o, env) = Stride(E, p, other)
  /\ Trips(D, o, env) = Trips(E, p, other)
  /\ \A k : InductionVariable(D, o, env, k) = InductionVariable(E, p, other, k)
  /\ OperandsKnown(D, o, env) =>
       \A k \in Nat : After(D, o, env)[k] = After(E, p, other)[k]
  /\ DenoteFor(D, o, env) = DenoteFor(E, p, other)

LEMMA SameTuples ==
  ASSUME NEW o, NEW c \in Tuples(o), NEW d \in Tuples(o),
         \A i \in 1..Arity[o] : c[i] = d[i]
  PROVE  c = d
<1> PICK S : S = 1..Arity[o]  OBVIOUS
<1>1. c \in [S -> Denoted] /\ d \in [S -> Denoted]  BY DEF Tuples
<1>2. \A i \in S : c[i] = d[i]  OBVIOUS
<1>3. c = [i \in S |-> c[i]] /\ d = [i \in S |-> d[i]]  BY <1>1
<1>4. [i \in S |-> c[i]] = [i \in S |-> d[i]]  BY <1>2
<1> QED  BY <1>3, <1>4

LEMMA SameFor ==
  ASSUME NEW D, NEW E, NEW o \in Loops, NEW p \in Loops, NEW env \in Environment,
         NEW other \in Environment, Defined(D, o, env),
         Mirrors(D, o, env, E, p, other)
  PROVE  SameLoop(D, o, env, E, p, other)
<1> Arity[o] = Arity[p] /\ ((o \in Unsigned) <=> (p \in Unsigned))  BY DEF Mirrors
<1> SameOperands(D, o, env, E, p, other) /\ SameYields(D, o, env, E, p, other)
  BY DEF Mirrors
<1>1. o \in Op /\ p \in Op  BY ProgramFacts
<1>2. /\ DOMAIN Operands[o] = 1..(3 + Arity[o]) /\ DOMAIN Operands[p] = DOMAIN Operands[o]
      /\ Arity[o] \in Nat \ {0}
  BY <1>1, OperandFacts
<1>3. OperandsKnown(D, o, env) <=> OperandsKnown(E, p, other)
  BY <1>2 DEF SameOperands, OperandsKnown
<1>0. Defined(E, p, other)
  <2>1. Tuples(p) = Tuples(o)  BY DEF Tuples
  <2>2. \A i \in DOMAIN Operands[p] : DenoteOperand(E, p, other, i) \in Denoted
    BY <1>2 DEF Defined, SameOperands
  <2>3. ASSUME NEW i \in 1..Arity[p], NEW iv \in Val, NEW c \in Tuples(p)
        PROVE  E[<<Yields[p][i], InBody(p, other, iv, c)>>] \in Denoted
    <3>1. i \in 1..Arity[o] /\ c \in Tuples(o)  BY <2>1
    <3>2. D[<<Yields[o][i], InBody(o, env, iv, c)>>] \in Denoted  BY <3>1 DEF Defined
    <3> QED  BY <3>1, <3>2 DEF SameYields
  <2> QED  BY <2>2, <2>3 DEF Defined
<1>4. \A x : Reads(o, x) = Reads(p, x)  BY DEF Reads
<1>5. \A x : Representable(o, x) <=> Representable(p, x)  BY DEF Representable
<1>6. \A i \in 1..3 : DenoteOperand(D, o, env, i) = DenoteOperand(E, p, other, i)
  <2>1. \A i \in 1..3 : i \in DOMAIN Operands[o]  BY <1>2
  <2> QED  BY <2>1 DEF SameOperands
<1>7. /\ Lower(D, o, env) = Lower(E, p, other)
      /\ Upper(D, o, env) = Upper(E, p, other)
      /\ Stride(D, o, env) = Stride(E, p, other)
  BY <1>4, <1>6 DEF Lower, Upper, Stride
<1>8. Trips(D, o, env) = Trips(E, p, other)  BY <1>7 DEF Trips
<1>9. \A k : InductionVariable(D, o, env, k) = InductionVariable(E, p, other, k)
  BY <1>7 DEF InductionVariable
<1>10. ASSUME OperandsKnown(D, o, env), NEW k \in Nat
       PROVE  After(D, o, env)[k] = After(E, p, other)[k]
  <2> PICK A, B : A = After(D, o, env) /\ B = After(E, p, other)  OBVIOUS
  <2> DEFINE K == {m \in Nat : A[m] = B[m]}
  <2>1. Unfolds(A, D, o, env)  BY <1>10, AfterFacts
  <2>2. Unfolds(B, E, p, other)  BY <1>0, <1>3, <1>10, AfterFacts
  <2>0. A \in [Nat -> Tuples(o)] /\ B \in [Nat -> Tuples(o)]
    BY <2>1, <2>2 DEF Unfolds, Tuples
  <2>3. 0 \in K
    <3>1. ASSUME NEW i \in 1..Arity[o] PROVE A[0][i] = B[0][i]
      <4>1. i + 3 \in DOMAIN Operands[o]  BY <1>2
      <4>2. DenoteOperand(D, o, env, i + 3) = DenoteOperand(E, p, other, i + 3)
        BY <4>1 DEF SameOperands
      <4> QED  BY <2>1, <2>2, <4>2 DEF Unfolds
    <3>2. A[0] \in Tuples(o) /\ B[0] \in Tuples(o)  BY <2>0
    <3>3. A[0] = B[0]  BY <3>1, <3>2, SameTuples
    <3> QED  BY <3>3
  <2>4. ASSUME NEW m \in Nat, m \in K PROVE m + 1 \in K
    <3> PICK iv, c : iv = InductionVariable(D, o, env, m) % 2^Width /\ c = A[m]  OBVIOUS
    <3>1. iv \in Val  BY <1>10, BoundFacts
    <3>2. c \in Tuples(o) /\ B[m] = c  BY <2>0, <2>4
    <3>3. iv = InductionVariable(E, p, other, m) % 2^Width  BY <1>9
    <3>4. ASSUME NEW i \in 1..Arity[o] PROVE A[m + 1][i] = B[m + 1][i]
      <4>1. A[m + 1][i] = D[<<Yields[o][i], InBody(o, env, iv, c)>>]
        BY <2>1 DEF Unfolds
      <4>2. B[m + 1][i] = E[<<Yields[p][i], InBody(p, other, iv, c)>>]
        BY <2>2, <3>2, <3>3 DEF Unfolds
      <4>3. D[<<Yields[o][i], InBody(o, env, iv, c)>>] =
              E[<<Yields[p][i], InBody(p, other, iv, c)>>]
        BY <3>1, <3>2 DEF SameYields
      <4> QED  BY <4>1, <4>2, <4>3
    <3>5. m + 1 \in Nat /\ A[m + 1] \in Tuples(o) /\ B[m + 1] \in Tuples(o)  BY <2>0
    <3>6. A[m + 1] = B[m + 1]  BY <3>4, <3>5, SameTuples
    <3> QED  BY <3>5, <3>6
  <2>5. Nat \subseteq K
    <3> HIDE DEF K
    <3> QED  BY <2>3, <2>4, Induction
  <2> QED  BY <2>5
<1>11. DenoteFor(D, o, env) = DenoteFor(E, p, other)
  <2> PICK n, i, s : /\ n = Trips(D, o, env) /\ i = InductionVariable(D, o, env, n)
                     /\ s = Stride(D, o, env)
    OBVIOUS
  <2>1. /\ n = Trips(E, p, other) /\ i = InductionVariable(E, p, other, n)
        /\ s = Stride(E, p, other)
    BY <1>7, <1>8, <1>9
  <2>2. CASE OperandsKnown(D, o, env) /\ s > 0 /\ Representable(o, i)
    <3>1. n \in Nat  BY <2>2, BoundFacts
    <3>2. After(D, o, env)[n] = After(E, p, other)[n]  BY <1>10, <2>2, <3>1
    <3>3. DenoteFor(D, o, env) = After(D, o, env)[n]  BY <2>2 DEF DenoteFor
    <3>4. DenoteFor(E, p, other) = After(E, p, other)[n]
      BY <1>3, <1>5, <2>1, <2>2 DEF DenoteFor
    <3> QED  BY <3>2, <3>3, <3>4
  <2>3. CASE ~(OperandsKnown(D, o, env) /\ s > 0 /\ Representable(o, i))
    <3>1. DenoteFor(D, o, env) = [j \in 1..Arity[o] |-> Null]  BY <2>3 DEF DenoteFor
    <3>2. DenoteFor(E, p, other) = [j \in 1..Arity[p] |-> Null]
      BY <1>3, <1>5, <2>1, <2>3 DEF DenoteFor
    <3> QED  BY <3>1, <3>2
  <2> QED  BY <2>2, <2>3
<1> QED  BY <1>3, <1>7, <1>8, <1>9, <1>10, <1>11 DEF SameLoop

(* The meaning of a result, without the case distinction of DenoteIn.      *)
LEMMA ResultMeaning ==
  ASSUME NEW D, NEW o \in Op, NEW i \in 1..Arity[o], NEW env
  PROVE  DenoteIn(D, <<o, i>>, env) =
           IF o \in Loops THEN DenoteFor(D, o, env)[i]
           ELSE DenoteBinary(Kind[o], DenoteOperand(D, o, env, 1),
                             DenoteOperand(D, o, env, 2))
<1> PICK v : v = <<o, i>>  OBVIOUS
<1>1. v \in Result /\ v[1] = o /\ v[2] = i
  <2>1. <<o, i>> \in {o} \X (1..Arity[o])  OBVIOUS
  <2> QED  BY <2>1, ValueFacts
<1>2. v \notin Arg /\ v \notin Plain /\ v \notin Constant  BY <1>1, KindAssumption
<1> QED  BY <1>1, <1>2 DEF DenoteIn

LEMMA SameMeaning ==
  ASSUME NEW D, NEW E, NEW o \in Op, NEW p \in Op, NEW env \in Environment,
         NEW other \in Environment, Defined(D, o, env),
         Kind[o] = Kind[p], Mirrors(D, o, env, E, p, other), NEW i \in 1..Arity[o]
  PROVE  DenoteIn(D, <<o, i>>, env) = DenoteIn(E, <<p, i>>, other)
<1>1. p \in Loops <=> o \in Loops  BY DEF Loops
<1>2. CASE o \in Loops
  <2>1. SameLoop(D, o, env, E, p, other)  BY <1>1, <1>2, SameFor
  <2>2. DenoteFor(D, o, env) = DenoteFor(E, p, other)  BY <2>1 DEF SameLoop
  <2>3. i \in 1..Arity[p]  BY DEF Mirrors
  <2> QED  BY <1>1, <1>2, <2>2, <2>3, ResultMeaning
<1>3. CASE o \notin Loops
  <2>1. 1 \in DOMAIN Operands[o] /\ 2 \in DOMAIN Operands[o]  BY <1>3, OperandFacts
  <2>2. /\ DenoteOperand(D, o, env, 1) = DenoteOperand(E, p, other, 1)
        /\ DenoteOperand(D, o, env, 2) = DenoteOperand(E, p, other, 2)
    BY <2>1 DEF Mirrors, SameOperands
  <2>3. i \in 1..Arity[p]  BY DEF Mirrors
  <2> QED  BY <1>1, <1>3, <2>2, <2>3, ResultMeaning
<1> QED  BY <1>2, <1>3

-----------------------------------------------------------------------------
(* In a program whose operations have ranks every value has a meaning.     *)

Level(rank, v) == IF v \in Result THEN rank[v[1]] + 1 ELSE 0

LEMMA LevelFacts ==
  ASSUME NEW rank, Ranks(rank)
  PROVE  /\ \A v \in Value : Level(rank, v) \in Nat
         /\ \A o \in Op : \A n \in 1..Arity[o] :
              /\ <<o, n>> \in Result /\ <<o, n>> \in Value
              /\ \A i \in DOMAIN Operands[o] :
                   Level(rank, Operands[o][i]) < Level(rank, <<o, n>>)
              /\ o \in Loops => \A i \in 1..Arity[o] :
                   Level(rank, Yields[o][i]) < Level(rank, <<o, n>>)
<1>1. \A o \in Op : rank[o] \in Nat  BY DEF Ranks
<1>2. \A v \in Value : Level(rank, v) \in Nat  BY <1>1, ValueFacts DEF Level
<1>3. ASSUME NEW o \in Op, NEW n \in 1..Arity[o]
      PROVE  /\ <<o, n>> \in Result /\ <<o, n>> \in Value
             /\ Level(rank, <<o, n>>) = rank[o] + 1
  <2>1. <<o, n>> \in {o} \X (1..Arity[o])  OBVIOUS
  <2>2. <<o, n>> \in Result /\ <<o, n>>[1] = o  BY <2>1, ValueFacts
  <2> QED  BY <2>2, ValueFacts DEF Level
<1>4. \A v \in Value : v \in Result => v[1] \in Op  BY ValueFacts
<1>5. ASSUME NEW o \in Op, NEW i \in DOMAIN Operands[o]
      PROVE  Level(rank, Operands[o][i]) < rank[o] + 1
  <2>1. Operands[o][i] \in Value  BY OperandFacts
  <2>2. Operands[o][i] \in Result => rank[Operands[o][i][1]] < rank[o]
    BY DEF Ranks, AsksBelow
  <2> QED  BY <1>1, <1>4, <2>1, <2>2 DEF Level
<1>6. ASSUME NEW o \in Loops, NEW i \in 1..Arity[o]
      PROVE  Level(rank, Yields[o][i]) < rank[o] + 1
  <2>1. o \in Op  BY ProgramFacts
  <2>2. Yields[o][i] \in Value /\ i \in DOMAIN Yields[o]  BY <2>1, OperandFacts
  <2>3. Yields[o][i] \in Result => rank[Yields[o][i][1]] < rank[o]
    BY <2>1, <2>2 DEF Ranks, AsksBelow
  <2> QED  BY <1>1, <1>4, <2>1, <2>2, <2>3 DEF Level
<1> QED  BY <1>2, <1>3, <1>5, <1>6

(* What gives a meaning to the values of lower levels gives one to v.      *)
LEMMA LevelDefines ==
  ASSUME NEW rank, Ranks(rank), NEW D, NEW v \in Result, NEW env \in Environment,
         \A w \in Value, e \in Environment :
           Level(rank, w) < Level(rank, v) => D[<<w, e>>] \in Denoted
  PROVE  Defined(D, v[1], env)
<1> PICK o, n : o = v[1] /\ n = v[2]  OBVIOUS
<1>1. o \in Op /\ n \in 1..Arity[o] /\ v = <<o, n>>  BY ValueFacts
<1>2. \A i \in DOMAIN Operands[o] : DenoteOperand(D, o, env, i) \in Denoted
  BY <1>1, LevelFacts, OperandFacts DEF DenoteOperand
<1>3. ASSUME o \in Loops, NEW i \in 1..Arity[o], NEW iv \in Val, NEW c \in Tuples(o)
      PROVE  D[<<Yields[o][i], InBody(o, env, iv, c)>>] \in Denoted
  <2>1. Yields[o][i] \in Value  BY <1>1, <1>3, OperandFacts
  <2>2. InBody(o, env, iv, c) \in Environment  BY <1>3, InBodyFacts
  <2>3. Level(rank, Yields[o][i]) < Level(rank, v)  BY <1>1, <1>3, LevelFacts
  <2> QED  BY <2>1, <2>2, <2>3
<1> QED  BY <1>2, <1>3 DEF Defined

(* And what agrees on those agrees on v.                                   *)
LEMMA LevelAgrees ==
  ASSUME NEW rank, Ranks(rank), NEW D \in Meanings, NEW E \in Meanings,
         NEW v \in Value, NEW env \in Environment,
         \A w \in Value, e \in Environment :
           Level(rank, w) < Level(rank, v) => D[<<w, e>>] = E[<<w, e>>]
  PROVE  DenoteIn(D, v, env) = DenoteIn(E, v, env)
<1>1. CASE v \notin Result
  BY <1>1 DEF DenoteIn
<1>2. CASE v \in Result
  <2> PICK o, n : o = v[1] /\ n = v[2]  OBVIOUS
  <2>1. o \in Op /\ n \in 1..Arity[o] /\ v = <<o, n>>  BY <1>2, ValueFacts
  <2>2. Defined(D, o, env)  BY <2>1, MeaningsDefine
  <2>3. SameOperands(D, o, env, E, o, env)
    BY <2>1, LevelFacts, OperandFacts DEF SameOperands, DenoteOperand
  <2>4. ASSUME o \in Loops, NEW i \in 1..Arity[o], NEW iv \in Val, NEW c \in Tuples(o)
        PROVE  D[<<Yields[o][i], InBody(o, env, iv, c)>>] =
                 E[<<Yields[o][i], InBody(o, env, iv, c)>>]
    <3>1. Yields[o][i] \in Value  BY <2>1, <2>4, OperandFacts
    <3>2. InBody(o, env, iv, c) \in Environment  BY <2>4, InBodyFacts
    <3>3. Level(rank, Yields[o][i]) < Level(rank, v)  BY <2>1, <2>4, LevelFacts
    <3> QED  BY <3>1, <3>2, <3>3
  <2>5. Mirrors(D, o, env, E, o, env)  BY <2>3, <2>4 DEF Mirrors, SameYields
  <2> QED  BY <2>1, <2>2, <2>5, SameMeaning
<1> QED  BY <1>1, <1>2

LEMMA DenotesExists ==
  ASSUME NEW rank, Ranks(rank)
  PROVE  \E D \in Meanings : D = [q \in Questions |-> DenoteIn(D, q[1], q[2])]
<1> DEFINE Better(D) == [q \in Questions |-> DenoteIn(D, q[1], q[2])]
           s0 == [q \in Questions |-> Null]
           G == [p \in Nat \X Meanings |-> Better(p[2])]
<1>1. ASSUME NEW D \in Meanings PROVE Better(D) \in Meanings
  <2>1. ASSUME NEW q \in Questions PROVE DenoteIn(D, q[1], q[2]) \in Denoted
    <3>1. q[1] \in Value /\ q[2] \in Environment  BY DEF Questions
    <3>2. q[1] \in Result => Defined(D, q[1][1], q[2])
      BY <3>1, ValueFacts, MeaningsDefine
    <3> QED  BY <3>1, <3>2, MeaningType
  <2> QED  BY <2>1 DEF Meanings
<1>2. s0 \in Meanings  BY DEF Meanings, Denoted
<1>3. G \in [Nat \X Meanings -> Meanings]
  <2> HIDE DEF Better
  <2> QED  BY <1>1
<1>4. PICK f \in [Nat -> Meanings] : Iterates(f, s0, G)
  <2> HIDE DEF G, s0
  <2> QED  BY <1>2, <1>3, Recursion
<1>5. \A n \in Nat : f[n] \in Meanings /\ f[n + 1] = Better(f[n])
  <2>1. \A n \in Nat : f[n + 1] = G[<<n, f[n]>>] /\ <<n, f[n]>> \in Nat \X Meanings
    <3> HIDE DEF G
    <3> QED  BY <1>4 DEF Iterates
  <2> HIDE DEF Better
  <2> QED  BY <2>1
<1>6. \A n \in Nat, v \in Value, env \in Environment :
        f[n + 1][<<v, env>>] = DenoteIn(f[n], v, env)
  <2> SUFFICES ASSUME NEW n \in Nat, NEW v \in Value, NEW env \in Environment
               PROVE  f[n + 1][<<v, env>>] = DenoteIn(f[n], v, env)
    OBVIOUS
  <2> PICK g : g = f[n]  OBVIOUS
  <2>1. <<v, env>> \in Questions  BY DEF Questions
  <2>2. Better(g)[<<v, env>>] = DenoteIn(g, v, env)  BY <2>1
  <2> HIDE DEF Better
  <2> QED  BY <1>5, <2>2
<1> HIDE DEF Better, G, s0
<1> DEFINE Settled(n) == \A v \in Value, env \in Environment :
                           Level(rank, v) < n => f[n + 1][<<v, env>>] = f[n][<<v, env>>]
           K == {n \in Nat : Settled(n)}
<1>7. Nat \subseteq K
  <2>1. 0 \in K
    <3>1. \A v \in Value : ~(Level(rank, v) < 0)  BY LevelFacts
    <3> QED  BY <3>1
  <2>2. ASSUME NEW n \in Nat, n \in K PROVE n + 1 \in K
    <3>1. ASSUME NEW v \in Value, NEW env \in Environment, Level(rank, v) < n + 1
          PROVE  f[(n + 1) + 1][<<v, env>>] = f[n + 1][<<v, env>>]
      <4> PICK D, E : D = f[n] /\ E = f[n + 1]  OBVIOUS
      <4>1. D \in Meanings /\ E \in Meanings  BY <1>5
      <4>2. ASSUME NEW w \in Value, NEW e \in Environment,
                   Level(rank, w) < Level(rank, v)
            PROVE  D[<<w, e>>] = E[<<w, e>>]
        <5>1. Level(rank, w) < n  BY <3>1, <4>2, LevelFacts
        <5> QED  BY <2>2, <5>1
      <4>3. DenoteIn(D, v, env) = DenoteIn(E, v, env)  BY <4>1, <4>2, LevelAgrees
      <4> QED  BY <1>6, <4>3
    <3> QED  BY <3>1
  <2> HIDE DEF K
  <2> QED  BY <2>1, <2>2, Induction
<1>8. ASSUME NEW v \in Value, NEW env \in Environment, NEW m \in Nat,
             Level(rank, v) < m
      PROVE  f[m][<<v, env>>] = f[Level(rank, v) + 1][<<v, env>>]
  <2> PICK q, r : q = <<v, env>> /\ r = Level(rank, v) + 1  OBVIOUS
  <2>0. r \in Nat /\ Level(rank, v) = r - 1  BY LevelFacts
  <2> DEFINE M == {d \in Nat : f[r + d][q] = f[r][q]}
  <2>1. 0 \in M  BY <2>0
  <2>2. ASSUME NEW d \in Nat, d \in M PROVE d + 1 \in M
    <3>1. r + d \in Nat /\ Level(rank, v) < r + d /\ r + (d + 1) = (r + d) + 1
      BY <2>0
    <3>2. Settled(r + d)  BY <1>7, <3>1
    <3>3. f[(r + d) + 1][q] = f[r + d][q]  BY <3>1, <3>2
    <3> QED  BY <2>2, <3>1, <3>3
  <2>3. Nat \subseteq M
    <3> HIDE DEF M
    <3> QED  BY <2>1, <2>2, Induction
  <2>4. m - r \in Nat /\ r + (m - r) = m  BY <1>8, <2>0
  <2> QED  BY <2>3, <2>4
<1> DEFINE D == [q \in Questions |-> f[Level(rank, q[1]) + 1][q]]
<1>9. D \in Meanings
  <2>1. ASSUME NEW q \in Questions PROVE f[Level(rank, q[1]) + 1][q] \in Denoted
    <3>1. Level(rank, q[1]) + 1 \in Nat  BY LevelFacts DEF Questions
    <3> QED  BY <1>5, <3>1 DEF Meanings
  <2> QED  BY <2>1 DEF Meanings
<1>10. ASSUME NEW v \in Value, NEW env \in Environment
       PROVE  D[<<v, env>>] = DenoteIn(D, v, env)
  <2> PICK n, E : n = Level(rank, v) /\ E = f[n]  OBVIOUS
  <2>1. n \in Nat /\ E \in Meanings  BY <1>5, LevelFacts
  <2>2. D[<<v, env>>] = f[n + 1][<<v, env>>]  BY DEF Questions
  <2>3. f[n + 1][<<v, env>>] = DenoteIn(E, v, env)  BY <1>6, <2>1
  <2>4. ASSUME NEW w \in Value, NEW e \in Environment, Level(rank, w) < Level(rank, v)
        PROVE  E[<<w, e>>] = D[<<w, e>>]
    <3>1. D[<<w, e>>] = f[Level(rank, w) + 1][<<w, e>>]  BY DEF Questions
    <3>2. f[n][<<w, e>>] = f[Level(rank, w) + 1][<<w, e>>]  BY <1>8, <2>1, <2>4
    <3> QED  BY <3>1, <3>2
  <2>5. DenoteIn(E, v, env) = DenoteIn(D, v, env)
    <3> HIDE DEF D
    <3> QED  BY <1>9, <2>1, <2>4, LevelAgrees
  <2> QED  BY <2>2, <2>3, <2>5
<1>11. D = [q \in Questions |-> DenoteIn(D, q[1], q[2])]
  <2> PICK d : d = D  OBVIOUS
  <2>1. ASSUME NEW q \in Questions PROVE d[q] = DenoteIn(d, q[1], q[2])
    <3>1. q[1] \in Value /\ q[2] \in Environment /\ q = <<q[1], q[2]>>  BY DEF Questions
    <3> HIDE DEF D
    <3> QED  BY <1>10, <3>1
  <2>2. d = [q \in Questions |-> d[q]]  BY <1>9 DEF Meanings
  <2> HIDE DEF D
  <2>3. d = [q \in Questions |-> DenoteIn(d, q[1], q[2])]  BY <2>1, <2>2
  <2> QED  BY <2>3
<1> HIDE DEF D
<1> QED  BY <1>9, <1>11

(* The recursion of Denotes has a solution, in every program whose values  *)
(* do not need themselves: every value, also in the bodies of nested loops,*)
(* has a meaning, so there is one for the answers of query to agree with.  *)
THEOREM ValuesMean ==
  ASSUME NEW rank, Ranks(rank)
  PROVE  Meaningful
<1>1. PICK D \in Meanings : D = [q \in Questions |-> DenoteIn(D, q[1], q[2])]
  BY DenotesExists
<1>2. Denotes = [q \in Value \X Environment |-> DenoteIn(Denotes, q[1], q[2])]
  BY <1>1 DEF Denotes, Questions
<1>3. ASSUME NEW v \in Value, NEW env \in Environment
      PROVE  Denotes[<<v, env>>] = DenoteIn(Denotes, v, env)
  BY <1>2
<1> DEFINE Typed(n) == \A v \in Value, env \in Environment :
                         Level(rank, v) < n => Denotes[<<v, env>>] \in Denoted
           K == {n \in Nat : Typed(n)}
<1>4. Nat \subseteq K
  <2>1. 0 \in K
    <3>1. \A v \in Value : ~(Level(rank, v) < 0)  BY LevelFacts
    <3> QED  BY <3>1
  <2>2. ASSUME NEW n \in Nat, n \in K PROVE n + 1 \in K
    <3>1. ASSUME NEW v \in Value, NEW env \in Environment, Level(rank, v) < n + 1
          PROVE  Denotes[<<v, env>>] \in Denoted
      <4>1. ASSUME NEW w \in Value, NEW e \in Environment,
                   Level(rank, w) < Level(rank, v)
            PROVE  Denotes[<<w, e>>] \in Denoted
        <5>1. Level(rank, w) < n  BY <3>1, <4>1, LevelFacts
        <5> QED  BY <2>2, <5>1
      <4>2. v \in Result => Defined(Denotes, v[1], env)  BY <4>1, LevelDefines
      <4> QED  BY <1>3, <4>2, MeaningType
    <3> QED  BY <3>1
  <2> HIDE DEF K
  <2> QED  BY <2>1, <2>2, Induction
<1>5. ASSUME NEW v \in Value, NEW env \in Environment
      PROVE  Denotes[<<v, env>>] \in Denoted
  <2>1. Level(rank, v) + 1 \in Nat /\ Level(rank, v) < Level(rank, v) + 1
    BY LevelFacts
  <2>2. Typed(Level(rank, v) + 1)  BY <1>4, <2>1
  <2> QED  BY <2>1, <2>2
<1>6. Denotes \in Meanings
  <2>1. ASSUME NEW q \in Questions PROVE Denotes[q] \in Denoted
    <3>1. q[1] \in Value /\ q[2] \in Environment /\ q = <<q[1], q[2]>>  BY DEF Questions
    <3> QED  BY <1>5, <3>1
  <2>2. Denotes = [q \in Questions |-> Denotes[q]]  BY <1>2 DEF Questions
  <2> QED  BY <2>1, <2>2 DEF Meanings
<1> QED  BY <1>3, <1>6 DEF Meaningful, Denote

-----------------------------------------------------------------------------
(* A value means the same in environments that agree on its scope.         *)

Agree(env, other, blocks) == \A a \in Arg : a[1] \in blocks => env[a] = other[a]

ScopeDecides ==
  \A v \in Value, env, other \in Environment :
    Agree(env, other, Scope[v]) => Denote(v, env) = Denote(v, other)

LEMMA BodiesAgree ==
  ASSUME NEW o \in Loops, NEW env \in Environment, NEW other \in Environment,
         NEW blocks, Agree(env, other, blocks), NEW iv, NEW c
  PROVE  Agree(InBody(o, env, iv, c), InBody(o, other, iv, c), blocks \cup {Body[o]})
<1> SUFFICES ASSUME NEW a \in Arg, a[1] \in blocks \cup {Body[o]}
             PROVE  InBody(o, env, iv, c)[a] = InBody(o, other, iv, c)[a]
  BY DEF Agree
<1>1. CASE a[1] = Body[o]
  <2>1. a \in ArgsOf(Body[o]) /\ a[2] \in Nat \ {0} /\ a = <<Body[o], a[2]>>
    <3>1. a \in {a[1]} \X (1..NumArgs[a[1]])  BY ValueFacts
    <3>2. NumArgs[Body[o]] \in Nat  BY BlockAssumption, ProgramFacts
    <3> QED  BY <1>1, <3>1, <3>2 DEF ArgsOf
  <2>2. a = <<Body[o], 1>> \/ a[2] > 1  BY <2>1
  <2> QED  BY <2>1, <2>2 DEF InBody
<1>2. CASE a[1] # Body[o]
  <2>1. env[a] = other[a]  BY <1>2 DEF Agree
  <2>2. a # <<Body[o], 1>> /\ a \notin ArgsOf(Body[o])
    BY <1>2, ProgramFacts, ArgsOfFacts
  <2> QED  BY <2>1, <2>2 DEF InBody
<1> QED  BY <1>1, <1>2

(* Where the operands and yields of an operation mean the same.            *)
LEMMA ScopesMirror ==
  ASSUME NEW o \in Op, NEW env \in Environment, NEW other \in Environment,
         Visible, Agree(env, other, Scope[<<o, 1>>]), NEW D,
         \A i \in DOMAIN Operands[o] :
           Agree(env, other, Scope[Operands[o][i]]) =>
             DenoteOperand(D, o, env, i) = DenoteOperand(D, o, other, i),
         o \in Loops =>
           \A i \in 1..Arity[o] : \A e, f \in Environment :
             Agree(e, f, Scope[Yields[o][i]]) => D[<<Yields[o][i], e>>] = D[<<Yields[o][i], f>>]
  PROVE  Mirrors(D, o, env, D, o, other)
<1>1. SameOperands(D, o, env, D, o, other)
  <2> SUFFICES ASSUME NEW i \in DOMAIN Operands[o]
               PROVE  DenoteOperand(D, o, env, i) = DenoteOperand(D, o, other, i)
    BY DEF SameOperands
  <2>1. Scope[Operands[o][i]] \subseteq Scope[<<o, 1>>]  BY DEF Visible
  <2> QED  BY <2>1 DEF Agree
<1>2. ASSUME o \in Loops, NEW i \in 1..Arity[o], NEW iv \in Val, NEW c \in Tuples(o)
      PROVE  D[<<Yields[o][i], InBody(o, env, iv, c)>>] =
               D[<<Yields[o][i], InBody(o, other, iv, c)>>]
  <2> PICK e, f : e = InBody(o, env, iv, c) /\ f = InBody(o, other, iv, c)  OBVIOUS
  <2>1. e \in Environment /\ f \in Environment  BY <1>2, InBodyFacts
  <2>2. Agree(e, f, Scope[<<o, 1>>] \cup {Body[o]})  BY <1>2, BodiesAgree
  <2>3. Scope[Yields[o][i]] \subseteq Scope[<<o, 1>>] \cup {Body[o]}
    BY <1>2, OperandFacts DEF Visible
  <2>4. Agree(e, f, Scope[Yields[o][i]])  BY <2>2, <2>3 DEF Agree
  <2> QED  BY <1>2, <2>1, <2>4
<1> QED  BY <1>1, <1>2 DEF Mirrors, SameYields

LEMMA ScopesDecide ==
  ASSUME NEW rank, Ranks(rank), Visible
  PROVE  ScopeDecides
<1> DEFINE Decides1(n) ==
             \A v \in Value, env, other \in Environment :
               Level(rank, v) < n /\ Agree(env, other, Scope[v]) =>
                 Denote(v, env) = Denote(v, other)
           K == {n \in Nat : Decides1(n)}
<1>1. Meaningful  BY ValuesMean
<1>2. Nat \subseteq K
  <2>1. 0 \in K
    <3>1. \A v \in Value : ~(Level(rank, v) < 0)  BY LevelFacts
    <3> QED  BY <3>1
  <2>2. ASSUME NEW n \in Nat, n \in K PROVE n + 1 \in K
    <3>1. ASSUME NEW v \in Value, NEW env \in Environment, NEW other \in Environment,
                 Level(rank, v) < n + 1, Agree(env, other, Scope[v])
          PROVE  DenoteIn(Denotes, v, env) = DenoteIn(Denotes, v, other)
      <4>1. CASE v \in Arg
        <5>1. v[1] \in Scope[v]
          <6>1. v[1] \in Block /\ v \in ArgsOf(v[1])  BY <4>1, ValueFacts DEF ArgsOf
          <6> QED  BY <6>1 DEF Visible
        <5>2. env[v] = other[v]  BY <3>1, <4>1, <5>1 DEF Agree
        <5> QED  BY <4>1, <5>2, KindAssumption DEF DenoteIn
      <4>2. CASE v \notin Arg /\ v \notin Result
        <5>1. v \in Plain \/ (v \in Constant /\ v \notin Plain)
          BY <4>2, KindAssumption DEF Value
        <5>2. CASE v \in Plain
          BY <4>2, <5>2 DEF DenoteIn
        <5>3. CASE v \in Constant /\ v \notin Plain
          BY <4>2, <5>3 DEF DenoteIn
        <5> QED  BY <5>1, <5>2, <5>3
      <4>3. CASE v \in Result
        <5> PICK o, j : o = v[1] /\ j = v[2]  OBVIOUS
        <5>1. o \in Op /\ j \in 1..Arity[o] /\ v = <<o, j>>  BY <4>3, ValueFacts
        <5>2. Scope[v] = Scope[<<o, 1>>]  BY <5>1 DEF Visible
        <5>3. ASSUME NEW w \in Value, Level(rank, w) < Level(rank, v),
                     NEW e \in Environment, NEW f \in Environment,
                     Agree(e, f, Scope[w])
              PROVE  Denotes[<<w, e>>] = Denotes[<<w, f>>]
          <6>1. Level(rank, w) < n  BY <3>1, <5>3, LevelFacts
          <6> QED  BY <2>2, <5>3, <6>1 DEF Denote
        <5>4. \A i \in DOMAIN Operands[o] :
                Agree(env, other, Scope[Operands[o][i]]) =>
                  DenoteOperand(Denotes, o, env, i) = DenoteOperand(Denotes, o, other, i)
          BY <5>1, <5>3, LevelFacts, OperandFacts DEF DenoteOperand
        <5>5. o \in Loops =>
                \A i \in 1..Arity[o] : \A e, f \in Environment :
                  Agree(e, f, Scope[Yields[o][i]]) =>
                    Denotes[<<Yields[o][i], e>>] = Denotes[<<Yields[o][i], f>>]
          BY <5>1, <5>3, LevelFacts, OperandFacts
        <5>6. Mirrors(Denotes, o, env, Denotes, o, other)
          BY <3>1, <5>1, <5>2, <5>4, <5>5, ScopesMirror
        <5>7. Defined(Denotes, o, env)  BY <1>1, <5>1, MeaningsDefine DEF Meaningful
        <5> QED  BY <5>1, <5>6, <5>7, SameMeaning
      <4> QED  BY <4>1, <4>2, <4>3
    <3>2. Decides1(n + 1)  BY <1>1, <3>1 DEF Meaningful
    <3> QED  BY <3>2
  <2> HIDE DEF K
  <2> QED  BY <2>1, <2>2, Induction
<1>3. ASSUME NEW v \in Value, NEW env \in Environment, NEW other \in Environment,
             Agree(env, other, Scope[v])
      PROVE  Denote(v, env) = Denote(v, other)
  <2>1. Level(rank, v) + 1 \in Nat /\ Level(rank, v) < Level(rank, v) + 1
    BY LevelFacts
  <2>2. Decides1(Level(rank, v) + 1)  BY <1>2, <2>1
  <2> QED  BY <1>3, <2>1, <2>2
<1> QED  BY <1>3 DEF ScopeDecides

-----------------------------------------------------------------------------
(* Values that are paired mean the same where paired arguments do.         *)

Corresponds(M, env, other, blocks) ==
  \A t \in M : t[1] \in Arg /\ t[1][1] \in blocks => env[t[1]] = other[t[2]]

LEMMA AlikeArguments ==
  ASSUME NEW M, NEW v, NEW w, Alikes(M, v, w), v \in Arg
  PROVE  w \in Arg /\ v[2] = w[2]
BY KindAssumption DEF Alikes

LEMMA LeafMeanings ==
  ASSUME NEW D \in Meanings, NEW env \in Environment, NEW v \in Value
  PROVE  /\ v \in Arg => DenoteIn(D, v, env) = env[v].value
         /\ v \in Plain => DenoteIn(D, v, env) = Null
         /\ v \in Constant =>
              DenoteIn(D, v, env) =
                IF AttrOf[v] = Null THEN Null ELSE AttrValue[AttrOf[v]]
<1>1. CASE v \in Arg
  <2>1. v \notin Plain /\ v \notin Constant /\ v \notin Result  BY <1>1, KindAssumption
  <2>2. DenoteIn(D, v, env) = env[v].value  BY <1>1, <2>1 DEF DenoteIn
  <2> QED  BY <2>1, <2>2
<1>2. CASE v \in Plain
  <2>1. v \notin Arg /\ v \notin Constant /\ v \notin Result  BY <1>2, KindAssumption
  <2>2. DenoteIn(D, v, env) = Null  BY <1>2, <2>1 DEF DenoteIn
  <2> QED  BY <2>1, <2>2
<1>3. CASE v \in Constant
  <2>1. v \notin Arg /\ v \notin Plain /\ v \notin Result  BY <1>3, KindAssumption
  <2>2. DenoteIn(D, v, env) = IF AttrOf[v] = Null THEN Null ELSE AttrValue[AttrOf[v]]
    BY <1>3, <2>1 DEF DenoteIn
  <2> QED  BY <2>1, <2>2
<1> QED  BY <1>1, <1>2, <1>3

LEMMA BodiesPair ==
  ASSUME NEW M, \A t \in M : Alikes(M, t[1], t[2]),
         NEW o \in Loops, NEW p \in Loops, PairsBodies(M, o, p),
         NEW env \in Environment, NEW other \in Environment,
         NEW blocks, Corresponds(M, env, other, blocks), NEW iv \in Val, NEW c \in Tuples(o)
  PROVE  /\ c \in Tuples(p)
         /\ Corresponds(M, InBody(o, env, iv, c), InBody(p, other, iv, c), blocks \cup {Body[o]})
<1>1. Arity[o] = Arity[p] /\ c \in Tuples(p)  BY DEF PairsBodies, Tuples
<1> SUFFICES ASSUME NEW t \in M, t[1] \in Arg, t[1][1] \in blocks \cup {Body[o]}
             PROVE  InBody(o, env, iv, c)[t[1]] = InBody(p, other, iv, c)[t[2]]
  BY <1>1 DEF Corresponds
<1> PICK a, b : a = t[1] /\ b = t[2]  OBVIOUS
<1>2. a \in Arg /\ b \in Arg /\ a[2] = b[2]  BY AlikeArguments
<1>3. (a[1] = Body[o]) = (b[1] = Body[p])  BY DEF PairsBodies
<1>4. CASE a[1] = Body[o]
  <2>1. b[1] = Body[p]  BY <1>3, <1>4
  <2>2. a = <<Body[o], a[2]>> /\ b = <<Body[p], a[2]>> /\ a[2] \in 1..(1 + Arity[o])
    <3>1. a \in {a[1]} \X (1..NumArgs[a[1]]) /\ b \in {b[1]} \X (1..NumArgs[b[1]])
      BY <1>2, ValueFacts
    <3>2. NumArgs[Body[o]] = 1 + Arity[o]  BY ProgramFacts
    <3> QED  BY <1>2, <1>4, <2>1, <3>1, <3>2
  <2>3. CASE a[2] = 1
    <3>1. InBody(o, env, iv, c)[<<Body[o], 1>>] = Completed(iv)  BY InBodyFacts
    <3>2. InBody(p, other, iv, c)[<<Body[p], 1>>] = Completed(iv)  BY <1>1, InBodyFacts
    <3> QED  BY <2>2, <2>3, <3>1, <3>2
  <2>4. CASE a[2] # 1
    <3>0. Arity[o] \in Nat \ {0}  BY ProgramFacts, ArityAssumption
    <3>1. PICK i \in 1..Arity[o] : a[2] = i + 1
      <4>1. a[2] - 1 \in 1..Arity[o] /\ a[2] = (a[2] - 1) + 1  BY <2>2, <2>4, <3>0
      <4> QED  BY <4>1
    <3>2. InBody(o, env, iv, c)[<<Body[o], i + 1>>] = Completed(c[i])  BY InBodyFacts
    <3>3. i \in 1..Arity[p]  BY <1>1
    <3>4. InBody(p, other, iv, c)[<<Body[p], i + 1>>] = Completed(c[i])
      BY <1>1, <3>3, InBodyFacts
    <3> QED  BY <2>2, <3>1, <3>2, <3>4
  <2> QED  BY <2>3, <2>4
<1>5. CASE a[1] # Body[o]
  <2>1. b[1] # Body[p]  BY <1>3, <1>5
  <2>2. InBody(o, env, iv, c)[a] = env[a]  BY <1>2, <1>5, InBodyFacts
  <2>3. InBody(p, other, iv, c)[b] = other[b]  BY <1>1, <1>2, <2>1, InBodyFacts
  <2>4. env[a] = other[b]  BY <1>2, <1>5 DEF Corresponds
  <2> QED  BY <2>2, <2>3, <2>4
<1> QED  BY <1>4, <1>5

LEMMA YieldsPair ==
  ASSUME NEW M, \A t \in M : Alikes(M, t[1], t[2]), Visible,
         NEW o \in Loops, NEW p \in Loops, PairsBodies(M, o, p),
         NEW env \in Environment, NEW other \in Environment,
         Corresponds(M, env, other, Scope[<<o, 1>>]), NEW D,
         \A i \in 1..Arity[o] : \A e, f \in Environment :
           Corresponds(M, e, f, Scope[Yields[o][i]]) =>
             D[<<Yields[o][i], e>>] = D[<<Yields[p][i], f>>]
  PROVE  SameYields(D, o, env, D, p, other)
<1> SUFFICES ASSUME NEW i \in 1..Arity[o], NEW iv \in Val, NEW c \in Tuples(o)
             PROVE  D[<<Yields[o][i], InBody(o, env, iv, c)>>] =
                      D[<<Yields[p][i], InBody(p, other, iv, c)>>]
  BY DEF SameYields
<1> PICK e, f : e = InBody(o, env, iv, c) /\ f = InBody(p, other, iv, c)  OBVIOUS
<1>1. c \in Tuples(p) /\ Corresponds(M, e, f, Scope[<<o, 1>>] \cup {Body[o]})
  BY BodiesPair
<1>2. e \in Environment /\ f \in Environment  BY <1>1, InBodyFacts
<1>3. Scope[Yields[o][i]] \subseteq Scope[<<o, 1>>] \cup {Body[o]}
  <2>1. o \in Op  BY ProgramFacts
  <2> QED  BY <2>1, OperandFacts DEF Visible
<1>4. Corresponds(M, e, f, Scope[Yields[o][i]])  BY <1>1, <1>3 DEF Corresponds
<1> QED  BY <1>2, <1>4

LEMMA DenoteSwapped ==
  ASSUME NEW kind \in {"addi", "muli"}, NEW x \in Denoted, NEW y \in Denoted
  PROVE  DenoteBinary(kind, x, y) = DenoteBinary(kind, y, x)
<1>1. {x, y} = {y, x}  OBVIOUS
<1>2. CASE Null \in {x, y}
  BY <1>1, <1>2 DEF DenoteBinary
<1>3. CASE Null \notin {x, y}
  <2>1. x \in Nat /\ y \in Nat  BY <1>3, ProgramFacts DEF Denoted
  <2>2. x + y = y + x /\ x * y = y * x  BY <2>1
  <2> QED  BY <1>1, <1>3, <2>2 DEF DenoteBinary
<1> QED  BY <1>2, <1>3

(* Paired results mean the same if their operands and yields do.           *)
OperandsEqual(M, o, env, other) ==
  \A i \in DOMAIN Operands[o] : \A w :
    <<Operands[o][i], w>> \in M /\ w \in Value
    /\ Corresponds(M, env, other, Scope[Operands[o][i]]) =>
      Denotes[<<Operands[o][i], env>>] = Denotes[<<w, other>>]
YieldsEqual(M, o, p) ==
  \A i \in 1..Arity[o] : \A e, f \in Environment :
    Corresponds(M, e, f, Scope[Yields[o][i]]) =>
      Denotes[<<Yields[o][i], e>>] = Denotes[<<Yields[p][i], f>>]

LEMMA OpsPair ==
  ASSUME NEW M, \A t \in M : Alikes(M, t[1], t[2]), Visible, Meaningful,
         NEW o \in Op, NEW p \in Op, PairsOps(M, o, p), Arity[o] = Arity[p],
         NEW env \in Environment, NEW other \in Environment,
         Corresponds(M, env, other, Scope[<<o, 1>>]),
         OperandsEqual(M, o, env, other), o \in Loops => YieldsEqual(M, o, p),
         NEW j \in 1..Arity[o]
  PROVE  DenoteIn(Denotes, <<o, j>>, env) = DenoteIn(Denotes, <<p, j>>, other)
<1> USE DEF OperandsEqual, YieldsEqual
<1>1. Kind[o] = Kind[p] /\ (o \in Loops <=> p \in Loops)  BY DEF PairsOps, Loops
<1>2. Defined(Denotes, o, env) /\ Defined(Denotes, p, other)
  BY MeaningsDefine DEF Meaningful
<1>3. \A i \in DOMAIN Operands[o] : Corresponds(M, env, other, Scope[Operands[o][i]])
  BY DEF Visible, Corresponds
<1>4. DOMAIN Operands[o] = DOMAIN Operands[p]  BY <1>1, OperandFacts
<1>5. \A i \in DOMAIN Operands[p] : Operands[p][i] \in Value  BY OperandFacts
<1>6. CASE PairsAll(M, Operands[o], Operands[p])
  <2>1. SameOperands(Denotes, o, env, Denotes, p, other)
    BY <1>3, <1>4, <1>5, <1>6 DEF SameOperands, DenoteOperand, PairsAll
  <2>2. o \in Loops => /\ SameYields(Denotes, o, env, Denotes, p, other)
                       /\ (o \in Unsigned <=> p \in Unsigned)
    <3> SUFFICES ASSUME o \in Loops
                 PROVE  /\ SameYields(Denotes, o, env, Denotes, p, other)
                        /\ (o \in Unsigned <=> p \in Unsigned)
      OBVIOUS
    <3>1. PairsBodies(M, o, p) /\ p \in Loops  BY <1>1 DEF PairsOps
    <3>2. SameYields(Denotes, o, env, Denotes, p, other)  BY <3>1, YieldsPair
    <3> QED  BY <3>1, <3>2 DEF PairsBodies
  <2>3. o \notin Loops => (o \in Unsigned <=> p \in Unsigned)
    BY <1>1, InterpAssumption
  <2>4. Mirrors(Denotes, o, env, Denotes, p, other)
    BY <2>1, <2>2, <2>3 DEF Mirrors
  <2> QED  BY <1>1, <1>2, <2>4, SameMeaning
<1>7. CASE IsCommutative(o) /\ PairsAll(M, Operands[o], <<Operands[p][2], Operands[p][1]>>)
  <2>1. o \notin Loops /\ p \notin Loops /\ Kind[o] \in {"addi", "muli"}
    BY <1>1, <1>7 DEF IsCommutative, Loops
  <2>2. DOMAIN Operands[o] = 1..2 /\ DOMAIN Operands[p] = 1..2 /\ Arity[o] = 1
    BY <2>1, OperandFacts
  <2> PICK v, w, x, y : /\ v = Operands[o][1] /\ w = Operands[o][2]
                        /\ x = Operands[p][1] /\ y = Operands[p][2]
    OBVIOUS
  <2>3. <<v, y>> \in M /\ <<w, x>> \in M /\ x \in Value /\ y \in Value
    BY <1>5, <1>7, <2>2 DEF PairsAll
  <2>4. /\ Denotes[<<v, env>>] = Denotes[<<y, other>>]
        /\ Denotes[<<w, env>>] = Denotes[<<x, other>>]
    BY <1>3, <2>2, <2>3
  <2>5. Denotes[<<v, env>>] \in Denoted /\ Denotes[<<w, env>>] \in Denoted
    BY <1>2, <2>2 DEF Defined, DenoteOperand
  <2>6. <<o, j>> \in Result /\ <<p, j>> \in Result
    BY ValueFacts
  <2>7. /\ <<o, j>> \notin Arg \cup Plain \cup Constant
        /\ <<p, j>> \notin Arg \cup Plain \cup Constant
    BY <2>6, KindAssumption
  <2>8. /\ DenoteIn(Denotes, <<o, j>>, env) =
             DenoteBinary(Kind[o], Denotes[<<v, env>>], Denotes[<<w, env>>])
        /\ DenoteIn(Denotes, <<p, j>>, other) =
             DenoteBinary(Kind[p], Denotes[<<x, other>>], Denotes[<<y, other>>])
    BY <2>1, <2>6, <2>7 DEF DenoteIn, DenoteOperand
  <2> QED  BY <1>1, <2>1, <2>4, <2>5, <2>8, DenoteSwapped
<1> QED  BY <1>6, <1>7 DEF PairsOps

LEMMA PairsMeanEqual ==
  ASSUME NEW rank, Ranks(rank), Visible, NEW M, \A t \in M : Alikes(M, t[1], t[2])
  PROVE  \A v, w \in Value, env, other \in Environment :
           <<v, w>> \in M /\ Corresponds(M, env, other, Scope[v]) =>
             Denote(v, env) = Denote(w, other)
<1> DEFINE Equal(n) ==
             \A v, w \in Value, env, other \in Environment :
               Level(rank, v) < n /\ <<v, w>> \in M /\ Corresponds(M, env, other, Scope[v]) =>
                 Denote(v, env) = Denote(w, other)
           K == {n \in Nat : Equal(n)}
<1>1. Meaningful  BY ValuesMean
<1>2. Nat \subseteq K
  <2>1. 0 \in K
    <3>1. \A v \in Value : ~(Level(rank, v) < 0)  BY LevelFacts
    <3> QED  BY <3>1
  <2>2. ASSUME NEW n \in Nat, n \in K PROVE n + 1 \in K
    <3>1. ASSUME NEW v \in Value, NEW w \in Value, NEW env \in Environment,
                 NEW other \in Environment, Level(rank, v) < n + 1, <<v, w>> \in M,
                 Corresponds(M, env, other, Scope[v])
          PROVE  DenoteIn(Denotes, v, env) = DenoteIn(Denotes, w, other)
      <4> PICK t : t = <<v, w>>  OBVIOUS
      <4>0. t \in M /\ t[1] = v /\ t[2] = w /\ Alikes(M, v, w)
        <5>1. t \in M /\ t[1] = v /\ t[2] = w  BY <3>1
        <5> QED  BY <5>1
      <4>1. CASE v \in Arg
        <5>1. w \in Arg  BY <4>0, <4>1, AlikeArguments
        <5>2. v[1] \in Scope[v]
          <6>1. v[1] \in Block /\ v \in ArgsOf(v[1])  BY <4>1, ValueFacts DEF ArgsOf
          <6> QED  BY <6>1 DEF Visible
        <5>3. env[v] = other[w]  BY <3>1, <4>0, <4>1, <5>2 DEF Corresponds
        <5> QED  BY <1>1, <4>1, <5>1, <5>3, LeafMeanings DEF Meaningful
      <4>2. CASE v \in Plain /\ w = v
        BY <1>1, <4>2, LeafMeanings DEF Meaningful
      <4>3. CASE {v, w} \subseteq Constant /\ AttrOf[v] = AttrOf[w]
        BY <1>1, <4>3, LeafMeanings DEF Meaningful
      <4>4. CASE {v, w} \subseteq Result /\ v[2] = w[2] /\ PairsOps(M, v[1], w[1])
        <5> PICK o, p, j : o = v[1] /\ p = w[1] /\ j = v[2]  OBVIOUS
        <5>1. /\ o \in Op /\ j \in 1..Arity[o] /\ v = <<o, j>>
              /\ p \in Op /\ j \in 1..Arity[p] /\ w = <<p, j>>
          BY <4>4, ValueFacts
        <5>2. Scope[v] = Scope[<<o, 1>>]  BY <5>1 DEF Visible
        <5>3. ASSUME NEW x \in Value, Level(rank, x) < Level(rank, v), NEW y \in Value,
                     <<x, y>> \in M, NEW e \in Environment, NEW f \in Environment,
                     Corresponds(M, e, f, Scope[x])
              PROVE  Denotes[<<x, e>>] = Denotes[<<y, f>>]
          <6>1. Level(rank, x) < n  BY <3>1, <5>3, LevelFacts
          <6> QED  BY <2>2, <5>3, <6>1 DEF Denote
        <5>4. OperandsEqual(M, o, env, other)
          BY <5>1, <5>3, LevelFacts, OperandFacts DEF OperandsEqual
        <5>5. o \in Loops => YieldsEqual(M, o, p)
          <6> SUFFICES ASSUME o \in Loops, NEW i \in 1..Arity[o], NEW e \in Environment,
                              NEW f \in Environment, Corresponds(M, e, f, Scope[Yields[o][i]])
                       PROVE  Denotes[<<Yields[o][i], e>>] = Denotes[<<Yields[p][i], f>>]
            BY DEF YieldsEqual
          <6> PICK x, y : x = Yields[o][i] /\ y = Yields[p][i]  OBVIOUS
          <6>1. PairsBodies(M, o, p) /\ p \in Loops
            BY <4>4, <5>1 DEF PairsOps, Loops
          <6>2. x \in Value /\ y \in Value /\ i \in DOMAIN Yields[o]
            BY <5>1, <6>1, OperandFacts DEF PairsBodies
          <6>3. <<x, y>> \in M  BY <6>1, <6>2 DEF PairsBodies, PairsAll
          <6>4. Level(rank, x) < Level(rank, v)  BY <5>1, LevelFacts
          <6> QED  BY <5>3, <6>2, <6>3, <6>4
        <5>6. Arity[o] = Arity[p]
          <6>1. o \in Loops => Arity[o] = Arity[p]  BY <4>4 DEF PairsOps, PairsBodies
          <6>2. o \notin Loops => p \notin Loops  BY <4>4, <5>1 DEF PairsOps, Loops
          <6>3. o \in Op /\ p \in Op  BY <5>1
          <6>4. (o \notin Loops => Arity[o] = 1) /\ (p \notin Loops => Arity[p] = 1)
            BY <6>3, OperandFacts
          <6> QED  BY <6>1, <6>2, <6>4
        <5>7. PairsOps(M, o, p) /\ Corresponds(M, env, other, Scope[<<o, 1>>])
          BY <3>1, <4>4, <5>2
        <5>8. DenoteIn(Denotes, <<o, j>>, env) = DenoteIn(Denotes, <<p, j>>, other)
          <6>1. o \in Op /\ p \in Op /\ j \in 1..Arity[o]  BY <5>1
          <6> QED  BY <1>1, <5>4, <5>5, <5>6, <5>7, <6>1, OpsPair
        <5> QED  BY <5>1, <5>8
      <4> QED
        BY <4>0, <4>1, <4>2, <4>3, <4>4 DEF Alikes
    <3>2. Equal(n + 1)  BY <1>1, <3>1 DEF Meaningful
    <3> QED  BY <3>2
  <2> HIDE DEF K
  <2> QED  BY <2>1, <2>2, Induction
<1>3. ASSUME NEW v \in Value, NEW w \in Value, NEW env \in Environment,
             NEW other \in Environment, <<v, w>> \in M, Corresponds(M, env, other, Scope[v])
      PROVE  Denote(v, env) = Denote(w, other)
  <2>1. Level(rank, v) + 1 \in Nat /\ Level(rank, v) < Level(rank, v) + 1
    BY LevelFacts
  <2>2. Equal(Level(rank, v) + 1)  BY <1>2, <2>1
  <2> QED  BY <1>3, <2>1, <2>2
<1> QED  BY <1>3

(* The loops the comparison finds alike have bodies that pair up.          *)
AlikeMatch == \A t \in Alike : \E M : AlikeBodies(M, t[1], t[2])

(* Loops that differ in nothing but their operands mean the same when these*)
(* do.                                                                     *)
AlikeMeansEqual ==
  \A t \in Alike, env \in Environment :
    (\A i \in DOMAIN Operands[t[1]] :
       Denote(Operands[t[1]][i], env) = Denote(Operands[t[2]][i], env)) =>
    \A i \in 1..Arity[t[1]] : Denote(<<t[1], i>>, env) = Denote(<<t[2], i>>, env)

(* Why isEquivalentTo may find a loop in the entry of another: loops whose *)
(* bodies pair up, with operands commuted and loops nested in them, have   *)
(* equal results in every environment where their operands are equal.      *)
THEOREM AlikeLoopsEqual ==
  ASSUME NEW rank, Ranks(rank), Visible, AlikeMatch
  PROVE  AlikeMeansEqual
<1> SUFFICES ASSUME NEW t \in Alike, NEW env \in Environment,
                    \A i \in DOMAIN Operands[t[1]] :
                      Denote(Operands[t[1]][i], env) = Denote(Operands[t[2]][i], env),
                    NEW j \in 1..Arity[t[1]]
             PROVE  Denote(<<t[1], j>>, env) = Denote(<<t[2], j>>, env)
  BY DEF AlikeMeansEqual
<1> PICK o, p : o = t[1] /\ p = t[2]  OBVIOUS
<1>1. PICK M : AlikeBodies(M, o, p)  BY DEF AlikeMatch
<1>2. o \in Loops /\ p \in Loops /\ o \in Op /\ p \in Op /\ Kind[o] = Kind[p]
  BY InterpAssumption DEF Loops
<1>3. /\ PairsBodies(M, o, p) /\ \A u \in M : Alikes(M, u[1], u[2])
      /\ Arity[o] = Arity[p] /\ (o \in Unsigned <=> p \in Unsigned)
  BY <1>1 DEF AlikeBodies, PairsBodies
<1>4. Corresponds(M, env, env, Scope[<<o, 1>>])
  BY <1>1 DEF AlikeBodies, Corresponds
<1>5. Meaningful  BY ValuesMean
<1>6. \A v, w \in Value, e, f \in Environment :
        <<v, w>> \in M /\ Corresponds(M, e, f, Scope[v]) => Denote(v, e) = Denote(w, f)
  BY <1>3, PairsMeanEqual
<1>7. ASSUME NEW i \in 1..Arity[o], NEW e \in Environment, NEW f \in Environment,
             Corresponds(M, e, f, Scope[Yields[o][i]])
      PROVE  Denotes[<<Yields[o][i], e>>] = Denotes[<<Yields[p][i], f>>]
  <2> PICK x, y : x = Yields[o][i] /\ y = Yields[p][i]  OBVIOUS
  <2>1. x \in Value /\ y \in Value /\ i \in DOMAIN Yields[o]
    BY <1>2, <1>3, OperandFacts
  <2>2. <<x, y>> \in M  BY <1>3, <2>1 DEF PairsBodies, PairsAll
  <2> QED  BY <1>6, <1>7, <2>1, <2>2 DEF Denote
<1>8. SameYields(Denotes, o, env, Denotes, p, env)
  BY <1>2, <1>3, <1>4, <1>7, YieldsPair
<1>9. SameOperands(Denotes, o, env, Denotes, p, env)
  BY DEF SameOperands, DenoteOperand, Denote
<1>10. Mirrors(Denotes, o, env, Denotes, p, env)
  BY <1>3, <1>8, <1>9 DEF Mirrors
<1>11. Defined(Denotes, o, env)  BY <1>2, <1>5, MeaningsDefine DEF Meaningful
<1>12. DenoteIn(Denotes, <<o, j>>, env) = DenoteIn(Denotes, <<p, j>>, env)
  BY <1>2, <1>10, <1>11, SameMeaning
<1>13. <<o, j>> \in Value /\ <<p, j>> \in Value
  BY <1>2, <1>3, ValueFacts
<1> QED  BY <1>5, <1>12, <1>13 DEF Meaningful
=============================================================================
