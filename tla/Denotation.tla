----------------------------- MODULE Denotation -----------------------------
(***************************************************************************)
(* What the values of a program mean, without the engine: no cache, memo,  *)
(* budget, binding stack or callback order, and a loop's number of         *)
(* iterations in closed form.  The properties compare the engine with it.  *)
(* For programs whose values do not depend on themselves.                  *)
(***************************************************************************)
EXTENDS Signals

NoBindings == [a \in Arg |-> NoAnswer]

Environment == [Arg -> CompletedAnswer \cup {NoAnswer}]

DenoteBinary(kind, x, y) ==
  CASE kind = "muli" /\ (x = 0 \/ y = 0) -> 0
    [] Null \in {x, y} /\ ~(kind = "muli" /\ (x = 0 \/ y = 0)) -> Null
    [] OTHER -> CASE kind = "addi" -> (x + y) % 2^Width
                  [] kind = "subi" -> (x - y) % 2^Width
                  [] kind = "muli" -> (x * y) % 2^Width

(* The bits x as an integer, and the integers of the loop's type.          *)
Reads(o, x) == IF o \in Unsigned \/ 2 * x < 2^Width THEN x ELSE x - 2^Width
Representable(o, i) ==
  IF o \in Unsigned THEN 0 <= i /\ i < 2^Width
  ELSE -(2^Width) <= 2 * i /\ 2 * i < 2^Width

(* The environment of an iteration of the loop o.                          *)
InBody(o, env, iv, carried) ==
  [a \in Arg |-> CASE a = <<Body[o], 1>> -> Completed(iv)
                   [] a \in ArgsOf(Body[o]) /\ a[2] > 1 ->
                        Completed(carried[a[2] - 1])
                   [] OTHER -> env[a]]

(* In the following D gives the meaning of a value in an environment.      *)
DenoteOperand(D, o, env, i) == D[<<Operands[o][i], env>>]
OperandsKnown(D, o, env) ==
  \A i \in DOMAIN Operands[o] : DenoteOperand(D, o, env, i) # Null
Lower(D, o, env) == Reads(o, DenoteOperand(D, o, env, 1))
Upper(D, o, env) == Reads(o, DenoteOperand(D, o, env, 2))
Stride(D, o, env) == Reads(o, DenoteOperand(D, o, env, 3))

InductionVariable(D, o, env, k) == Lower(D, o, env) + k * Stride(D, o, env)
Trips(D, o, env) ==
  LET distance == Upper(D, o, env) - Lower(D, o, env)
  IN IF distance <= 0 THEN 0
     ELSE (distance + Stride(D, o, env) - 1) \div Stride(D, o, env)

(* What the loop carries after k iterations.                               *)
After(D, o, env) ==
  LET after[k \in Nat] ==
        [i \in 1..Arity[o] |->
           IF k = 0 THEN DenoteOperand(D, o, env, i + 3)
           ELSE LET iv == InductionVariable(D, o, env, k - 1) % 2^Width
                IN D[<<Yields[o][i], InBody(o, env, iv, after[k - 1])>>]]
  IN after

DenoteFor(D, o, env) ==
  IF /\ OperandsKnown(D, o, env) /\ Stride(D, o, env) > 0
     /\ Representable(o, InductionVariable(D, o, env, Trips(D, o, env)))
  THEN After(D, o, env)[Trips(D, o, env)]
  ELSE [i \in 1..Arity[o] |-> Null]

DenoteIn(D, v, env) ==
  CASE v \in Arg -> env[v].value
    [] v \in Plain -> Null
    [] v \in Constant -> IF AttrOf[v] = Null THEN Null ELSE AttrValue[AttrOf[v]]
    [] v \in Result ->
         IF v[1] \in Loops THEN DenoteFor(D, v[1], env)[v[2]]
         ELSE DenoteBinary(Kind[v[1]], DenoteOperand(D, v[1], env, 1),
                           DenoteOperand(D, v[1], env, 2))

(* Denote(v, env) is a member of Val, or Null when unknown; env is the     *)
(* answers of the bound arguments.                                         *)
Denotes[q \in Value \X Environment] == DenoteIn(Denotes, q[1], q[2])
Denote(v, env) == Denotes[<<v, env>>]

-----------------------------------------------------------------------------
(* What MLIR verifies, and what the comparison of loops finds.             *)

(* Operands are visible where their operation is, and a loop's yields in   *)
(* its body: the regions a value is defined in are those of the operations *)
(* that use it, or contain them.                                           *)
Visible ==
  /\ \A b \in Block : \A a \in ArgsOf(b) : b \in Scope[a]
  /\ \A o \in Op :
       /\ \A i \in 1..Arity[o] : Scope[<<o, i>>] = Scope[<<o, 1>>]
       /\ \A i \in DOMAIN Operands[o] : Scope[Operands[o][i]] \subseteq Scope[<<o, 1>>]
  /\ \A o \in Loops :
       /\ Body[o] \notin Scope[<<o, 1>>]
       /\ \A i \in DOMAIN Yields[o] :
            Scope[Yields[o][i]] \subseteq Scope[<<o, 1>>] \cup {Body[o]}
ASSUME ScopeAssumption == Visible

(* M pairs values that are defined alike, by operations that differ in     *)
(* nothing but the order of the operands of commutative ones.              *)
PairsAll(M, vs, ws) == \A i \in DOMAIN vs : <<vs[i], ws[i]>> \in M
PairsBodies(M, o, p) ==
  /\ Arity[o] = Arity[p] /\ (o \in Unsigned) = (p \in Unsigned)
  /\ PairsAll(M, Yields[o], Yields[p])
  /\ \A t \in M : t[1] \in Arg => (t[1][1] = Body[o]) = (t[2][1] = Body[p])
PairsOps(M, o, p) ==
  /\ Kind[o] = Kind[p]
  /\ \/ PairsAll(M, Operands[o], Operands[p])
     \/ IsCommutative(o) /\ PairsAll(M, Operands[o], <<Operands[p][2], Operands[p][1]>>)
  /\ o \in Loops => PairsBodies(M, o, p)
Alikes(M, v, w) ==
  \/ v \in Plain /\ w = v
  \/ {v, w} \subseteq Constant /\ AttrOf[v] = AttrOf[w]
  \/ {v, w} \subseteq Arg /\ v[2] = w[2]
  \/ {v, w} \subseteq Result /\ v[2] = w[2] /\ PairsOps(M, v[1], w[1])

(* The bodies of o and p are alike, by the pairs of M, and use the same    *)
(* arguments of the loops around them.                                     *)
AlikeBodies(M, o, p) ==
  /\ PairsBodies(M, o, p) /\ \A t \in M : Alikes(M, t[1], t[2])
  /\ \A t \in M : t[1] \in Arg /\ t[1][1] \in Scope[<<o, 1>>] => t[1] = t[2]

-----------------------------------------------------------------------------
(* A query that completes answers what the value means, whatever earlier   *)
(* queries, under whatever budgets, left in the cache.                     *)
Sound ==
  Answered /\ answer \in CompletedAnswer =>
    answer = Completed(Denote(asked, NoBindings))

(* At every moment of a query, inside any nesting of loops, what the memo  *)
(* holds is what the value means under the current bindings.               *)
MemoSound ==
  \A v \in Value : memo[v] # NotMemoized =>
    memo[v].answer = Completed(Denote(v, bindings))

(* An entry of the cache outlives every binding: what it holds is what the *)
(* results of the operation that created it mean with nothing bound.       *)
CacheSound ==
  \A k \in Key : \A n \in DOMAIN entries[k] :
    LET e == entries[k][n]
    IN \A i \in DOMAIN e.results :
         e.results[i] # NoAnswer =>
           e.results[i] = Completed(Denote(<<e.op, i>>, NoBindings))

(* A bound argument holds the current iteration's value: no answer of an   *)
(* earlier iteration, or from before the loop, stands in for it.           *)
BoundArgumentCurrent ==
  \A a \in Arg : bindings[a] # NoAnswer /\ memo[a] # NotMemoized =>
    memo[a].answer = bindings[a]

(* Equivalent operations share one entry: no bucket holds two entries of   *)
(* operations of the same kind whose keys agree with nothing bound.        *)
KeyMeaning(o) ==
  BinaryKey(o, [i \in 1..2 |-> Completed(Denote(Operands[o][i], NoBindings))])
EquivalentShareEntry ==
  \A k \in Key : \A i, j \in DOMAIN entries[k] :
    LET o == entries[k][i].op
        p == entries[k][j].op
    IN i # j /\ Comparable(o, p) => ~SameKey(o, KeyMeaning(o), KeyMeaning(p))

(* "Each iteration costs a step, so a loop whose body costs nothing still  *)
(* ends" (SCFEval.cpp:58): a query that was answered by evaluating a loop  *)
(* has spent a step on it and on each of the iterations it means.          *)
IterationsPaid ==
  Answered /\ outcome = "Miss" /\ answer \in Known /\ asked \in Loops \X Nat =>
    \E b \in Budgets :
      remaining + 1 + Trips(Denotes, asked[1], NoBindings) <= b

Pending == IF running THEN asked ELSE Null
Given == IF Answered THEN answer ELSE Null
ASSUME ServiceAssumption == Null \notin Value \cup Answer

(* The engine, with its cache, memo and loops, does for its host what      *)
(* QueryService says: the history of queries and clearings, the order of   *)
(* evaluation and what is shared can't be told from the answers.           *)
Service ==
  INSTANCE QueryService WITH
    Meaning <- LAMBDA v : Completed(Denote(v, NoBindings)),
    NeedsItself <- {v \in Result : v[1] \in Cyclic},
    Exhausted <- Signaled("Exhausted"), Cycle <- Signaled("Cycle"),
    None <- Null,
    asked <- Pending, reply <- Given
ServesQueries == Service!Init /\ [][Service!Next]_(Service!vars)
ImplementsService == Service!Spec

(* Every query returns.                                                    *)
Terminates == running ~> ~running
=============================================================================
