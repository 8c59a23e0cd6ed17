------------------------------- MODULE Interp -------------------------------
(***************************************************************************)
(* The engine with the callbacks of the operations the repository          *)
(* evaluates: addi, subi and muli (lib/Dialects/Arith/ArithEval.cpp) and   *)
(* scf.for (lib/Dialects/SCF/SCFEval.cpp), on a program given by the       *)
(* constants.  Everything is deterministic but the host: it queries any    *)
(* value, in any order, under any of the budgets, and clears the cache.    *)
(*                                                                         *)
(* A callback is a C++ function; what it knows is the answers it has heard *)
(* since it was called, and, for scf.for, its local variables.  locals     *)
(* holds one record of these for each activation of the stack.             *)
(***************************************************************************)
EXTENDS Engine

CONSTANTS
  Kind,      \* [Op -> {"addi", "subi", "muli", "for"}]
  Operands,  \* [Op -> Seq(Value)]: of a for, its lower bound, upper bound and
             \* step, then its initial values
  Body,      \* [loops -> Block]
  Yields,    \* [loops -> Seq(Value)]
  Unsigned,  \* the loops that compare unsigned
  Alike,     \* the pairs of loops that differ in nothing but their operands, and
             \* whose bodies are compared without evaluating a value
  Width,     \* of the one integer type of the program
  Hash(_)    \* the key of a hash, from what the hash combines

Loops == {o \in Op : Kind[o] = "for"}
Modulus == 2^Width

ASSUME InterpAssumption ==
  /\ Width \in Nat \ {0} /\ Modulus \in Nat \ {0} /\ Val = 0..(Modulus - 1)
  /\ Kind \in [Op -> {"addi", "subi", "muli", "for"}]
  /\ Operands \in [Op -> Seq(Value)]
  /\ \A o \in Op : IF o \in Loops THEN Len(Operands[o]) = 3 + Arity[o]
                   ELSE Len(Operands[o]) = 2 /\ Arity[o] = 1
  /\ Body \in [Loops -> Block] /\ Yields \in [Loops -> Seq(Value)]
  /\ \A o \in Loops : /\ Owner[Body[o]] = o /\ NumArgs[Body[o]] = 1 + Arity[o]
                      /\ Len(Yields[o]) = Arity[o]
  /\ Op \ Loops \subseteq Pure /\ Unsigned \subseteq Loops
  /\ Alike \subseteq Loops \X Loops
  /\ \A t \in Alike : Arity[t[1]] = Arity[t[2]] /\ (t[1] \in Unsigned) = (t[2] \in Unsigned)

VARIABLE locals

Fresh == [at |-> "begin", heard |-> <<>>, iv |-> Null, ub |-> Null,
          step |-> Null, carried |-> <<>>, results |-> <<>>]
Local == locals[Len(locals)]
Heard == Local.heard
SetLocal(l) == locals' = [locals EXCEPT ![Len(locals)] = l]

IsSignal(a) == a.status # "Completed"
IsZero(a) == a = Completed(0)
Has(h, Test(_)) == \E i \in DOMAIN h : Test(h[i])
IsUnknown(a) == a = Unknown

-----------------------------------------------------------------------------
(* Integer binary operations.  h is what has been heard so far.            *)

IsProduct(o) == Kind[o] = "muli"
IsCommutative(o) == Kind[o] \in {"addi", "muli"}
Apply(o, x, y) == CASE Kind[o] = "addi" -> (x + y) % Modulus
                    [] Kind[o] = "subi" -> (x - y) % Modulus
                    [] Kind[o] = "muli" -> (x * y) % Modulus

(* Both getKey and evaluate query the right operand only when the left one *)
(* does not decide: a signal always does, zero does for a product, and     *)
(* unknown does for the others.                                            *)
Decides(o, a) ==
  IsSignal(a) \/ (IF IsProduct(o) THEN IsZero(a) ELSE IsUnknown(a))
BinaryPending(o, h) == h = <<>> \/ (Len(h) = 1 /\ ~Decides(o, h[1]))

SignalIn(h) == h[CHOOSE i \in DOMAIN h : IsSignal(h[i])]

BinaryKey(o, h) ==
  IF IsProduct(o) /\ Has(h, IsZero) THEN [kind |-> "zero", args |-> <<>>]
  ELSE IF Has(h, IsUnknown) THEN [kind |-> "identity", args |-> <<o>>]
  ELSE [kind |-> "pair", args |-> <<h[1].value, h[2].value>>]

BinaryResult(o, h) ==
  IF Has(h, IsSignal) THEN SignalIn(h)
  ELSE IF IsProduct(o) /\ Has(h, IsZero) THEN Completed(0)
  ELSE IF Has(h, IsUnknown) THEN Unknown
  ELSE Completed(Apply(o, h[1].value, h[2].value))

(* The operand hashes of a commutative operation are put in order.         *)
Ordered(o, args) ==
  IF IsCommutative(o) /\ args[2] < args[1] THEN <<args[2], args[1]>> ELSE args

BinaryHash(o, h) ==
  LET key == BinaryKey(o, h)
  IN CASE key.kind = "identity" -> Hash(key)
       [] key.kind = "zero" -> Hash([kind |-> Kind[o], args |-> key.args])
       [] key.kind = "pair" ->
            Hash([kind |-> Kind[o], args |-> Ordered(o, key.args)])

SameKey(o, a, b) ==
  \/ a = b
  \/ /\ IsCommutative(o) /\ a.kind = "pair" /\ b.kind = "pair"
     /\ a.args = <<b.args[2], b.args[1]>>

(* isEquivalentTo computes the key of o, then that of the other operation: *)
(* what it hears splits into what each of them hears.                      *)
OwnHeard(o, h) ==
  IF h # <<>> /\ ~BinaryPending(o, <<h[1]>>) THEN <<h[1]>>
  ELSE SubSeq(h, 1, IF Len(h) < 2 THEN Len(h) ELSE 2)
OtherHeard(o, h) == SubSeq(h, Len(OwnHeard(o, h)) + 1, Len(h))

-----------------------------------------------------------------------------
(* scf.for: the default hash covers its operands, and evaluate first needs *)
(* all of them known.                                                      *)

HashOperand(v, a) == IF IsUnknown(a) THEN v ELSE a.value
ForHashPending(o, h) == Len(h) < Len(Operands[o]) /\ ~Has(h, IsSignal)
ForHash(o, h) ==
  Hash([kind |-> "for",
        args |-> [i \in DOMAIN h |-> HashOperand(Operands[o][i], h[i])]])

ForPending(o, h) == ForHashPending(o, h) /\ ~Has(h, IsUnknown)

Signed(x) == IF 2 * x >= Modulus THEN x - Modulus ELSE x
AsInt(o, x) == IF o \in Unsigned THEN x ELSE Signed(x)
Below(o, x, y) == AsInt(o, x) < AsInt(o, y)
StepNotNegative(o, x) == AsInt(o, x) >= 0
StepDefined(o, x) == AsInt(o, x) > 0
NeverOverflows(o, x, y) == FALSE
Overflows(o, x, y) == AsInt(o, x) + AsInt(o, y) \notin {AsInt(o, z) : z \in Val}

Propagated(o, a) == [i \in 1..Arity[o] |-> a]
ForRuns(o, h) ==
  ~Has(h, IsSignal) /\ ~Has(h, IsUnknown) /\ StepDefined(o, h[3].value)
ForRefusal(o, h) ==
  Propagated(o, IF Has(h, IsSignal) THEN SignalIn(h) ELSE Unknown)

(* The default comparison queries the operands of alike loops that are not *)
(* the same value, the right one of a pair if the left one is known.  It   *)
(* would also query values captured by a commutative operation of the body *)
(* that are not the same: such loops are not among the alike.              *)
LoopQueries(o, p) ==
  LET queries[n \in Nat] ==
        IF n = 0 THEN <<>>
        ELSE IF Operands[o][n] = Operands[p][n] THEN queries[n - 1]
        ELSE queries[n - 1] \o <<Operands[o][n], Operands[p][n]>>
  IN queries[Len(Operands[o])]
SomeUnknown(h) == Has(h, IsUnknown)
SomeUnequal(h) ==
  \E k \in DOMAIN h : IF k % 2 = 1 THEN IsUnknown(h[k]) ELSE h[k] # h[k - 1]
EqualSoFar(o, p, h) ==
  <<o, p>> \in Alike /\ ~Has(h, IsSignal) /\ ~SomeUnequal(h)

-----------------------------------------------------------------------------
(* What the running callback queries next, if anything.                    *)

BinaryWants(o, h) ==
  IF BinaryPending(o, h) THEN {Operands[o][Len(h) + 1]} ELSE {}

HashWants(o) ==
  IF o \notin Loops THEN BinaryWants(o, Heard)
  ELSE IF ForHashPending(o, Heard) THEN {Operands[o][Len(Heard) + 1]} ELSE {}

(* Operations of another kind are told apart before anything is queried,   *)
(* and so are loops that are not alike.                                    *)
Comparable(o, p) == o \notin Loops /\ Kind[o] = Kind[p]

LoopWants(o, p) ==
  IF EqualSoFar(o, p, Heard) /\ Len(Heard) < Len(LoopQueries(o, p))
  THEN {LoopQueries(o, p)[Len(Heard) + 1]} ELSE {}

CompareWants(o, p) ==
  IF o \in Loops THEN LoopWants(o, p)
  ELSE IF ~Comparable(o, p) THEN {}
  ELSE IF BinaryPending(o, OwnHeard(o, Heard))
       THEN BinaryWants(o, OwnHeard(o, Heard))
       ELSE IF Has(Heard, IsSignal) THEN {}
            ELSE BinaryWants(p, OtherHeard(o, Heard))

MoreYields(o) == Len(Heard) < Len(Yields[o]) /\ ~Has(Heard, IsSignal)

EvaluateWants(o) ==
  IF o \notin Loops THEN BinaryWants(o, Heard)
  ELSE CASE Local.at = "begin" /\ ForPending(o, Heard) ->
              {Operands[o][Len(Heard) + 1]}
         [] Local.at = "body" /\ MoreYields(o) -> {Yields[o][Len(Heard) + 1]}
         [] OTHER -> {}

Wants == CASE Top.pc = "getHash" -> HashWants(TopOp)
           [] Top.pc = "compare" -> CompareWants(TopOp, Candidate.op)
           [] Top.pc = "evaluate" -> EvaluateWants(TopOp)
           [] OTHER -> {}

Decided(pc) == At(pc) /\ Wants = {}

-----------------------------------------------------------------------------
(* The locals follow the stack: a nested compute starts with fresh ones and*)
(* hands its answer to the callback below it, and so does one that answers *)
(* at once; a new callback of the same activation starts afresh.           *)

Hears(ls, a) ==
  IF ls = <<>> THEN ls
  ELSE [ls EXCEPT ![Len(ls)].heard = Append(@, a)]

AskLocals ==
  locals' = IF Len(stack') > Len(stack) THEN Append(locals, Fresh)
            ELSE Hears(locals, answer')
NextLocals ==
  IF Len(stack') < Len(stack)
  THEN locals' = Hears(SubSeq(locals, 1, Len(locals) - 1), answer')
  ELSE SetLocal(Fresh)

HostStep ==
  /\ Host
  /\ locals' = IF stack' = <<>> THEN <<>> ELSE <<Fresh>>

AskStep ==
  /\ InCallback
  /\ \E v \in Wants : Ask(v)
  /\ AskLocals

IsCacheable == Eligible(TopOp \in Pure)

GetHash ==
  /\ Decided("getHash")
  /\ IF Has(Heard, IsSignal) THEN KeySignal(SignalIn(Heard).status)
     ELSE HashReturn(IF TopOp \in Loops THEN ForHash(TopOp, Heard)
                     ELSE BinaryHash(TopOp, Heard))

Equivalent(o, p, h) ==
  \/ EqualSoFar(o, p, h)
  \/ /\ Comparable(o, p) /\ ~Has(h, IsSignal)
     /\ SameKey(o, BinaryKey(o, OwnHeard(o, h)), BinaryKey(p, OtherHeard(o, h)))

SignalsOrEquivalent ==
  /\ Decided("compare")
  /\ IF Has(Heard, IsSignal)
     THEN /\ Return(SignalIn(Heard))
          /\ UNCHANGED <<running, asked, outcome, scopes, remaining, cache>>
     ELSE CompareReturn(Equivalent(TopOp, Candidate.op, Heard))

(* A comparison that hears a signal is one that found a difference.        *)
IsEquivalentTo ==
  Decided("compare") /\ CompareReturn(Equivalent(TopOp, Candidate.op, Heard))

BinaryEvaluate ==
  /\ Decided("evaluate") /\ TopOp \notin Loops
  /\ EvaluateReturn(<<BinaryResult(TopOp, Heard)>>)

CallbackStep ==
  /\ \/ At("isCacheable") /\ IsCacheable
     \/ GetHash \/ IsEquivalentTo \/ BinaryEvaluate \/ Internal
  /\ NextLocals

-----------------------------------------------------------------------------
(* ForOpEval::evaluate.  Local.at is where it is: "begin" while it queries  *)
(* its operands, "head" at the condition, "paid" after the step, "body"    *)
(* while it queries the yields, "leaving" on an early return that still    *)
(* holds the freeze, and "done" after the freeze.                          *)

InFor(at) == Decided("evaluate") /\ TopOp \in Loops /\ Local.at = at

ForRefused ==
  /\ InFor("begin") /\ ~ForRuns(TopOp, Heard)
  /\ EvaluateReturn(ForRefusal(TopOp, Heard))
  /\ NextLocals

ForStarts ==
  /\ InFor("begin") /\ ForRuns(TopOp, Heard)
  /\ Freeze
  /\ SetLocal([Fresh EXCEPT !.at = "head", !.iv = Heard[1].value,
                            !.ub = Heard[2].value, !.step = Heard[3].value,
                            !.carried = SubSeq(Heard, 4, Len(Heard))])

Continues == Below(TopOp, Local.iv, Local.ub)

PaysNothing ==
  /\ InFor("head") /\ Continues
  /\ SetLocal([Local EXCEPT !.at = "paid"])
  /\ UNCHANGED vars

ForPays ==
  /\ InFor("head") /\ Continues /\ DeclareCost
  /\ SetLocal([Local EXCEPT !.at = "paid"])

ForBinds ==
  /\ InFor("paid")
  /\ Bind(Body[TopOp], <<Completed(Local.iv)>> \o Local.carried)
  /\ SetLocal([Local EXCEPT !.at = "body", !.heard = <<>>])

IteratesOnSignal ==
  /\ InFor("body") /\ Unbind
  /\ SetLocal(
       IF Overflows(TopOp, Local.iv, Local.step)
       THEN [Local EXCEPT !.at = "leaving", !.results = Propagated(TopOp, Unknown)]
       ELSE [Local EXCEPT !.at = "head", !.carried = Heard, !.heard = <<>>,
                          !.iv = (@ + Local.step) % Modulus])

(* The iteration ends: its binding does, whichever way the loop goes on.   *)
ForIterates ==
  /\ InFor("body") /\ Unbind
  /\ LET leaves(a) == [Local EXCEPT !.at = "leaving",
                                    !.results = Propagated(TopOp, a)]
     IN SetLocal(
          IF Has(Heard, IsSignal) THEN leaves(SignalIn(Heard))
          ELSE IF Overflows(TopOp, Local.iv, Local.step) THEN leaves(Unknown)
          ELSE [Local EXCEPT !.at = "head", !.carried = Heard, !.heard = <<>>,
                             !.iv = (@ + Local.step) % Modulus])

(* The freeze ends: on a loop that ran, one without a step left, or one    *)
(* left from its body.                                                     *)
ForThaws ==
  /\ Unfreeze
  /\ \E results \in {Local.carried, Local.results,
                      Propagated(TopOp, Signaled("Exhausted"))} :
       /\ \/ InFor("head") /\ ~Continues /\ results = Local.carried
          \/ /\ InFor("head") /\ Continues /\ remaining = 0
             /\ results = Propagated(TopOp, Signaled("Exhausted"))
          \/ InFor("leaving") /\ results = Local.results
       /\ SetLocal([Local EXCEPT !.at = "done", !.results = results])

ForReturns ==
  /\ InFor("done") /\ EvaluateReturn(Local.results)
  /\ NextLocals

ForStep == \/ ForRefused \/ ForStarts \/ ForPays \/ ForBinds \/ ForIterates
           \/ ForThaws \/ ForReturns

-----------------------------------------------------------------------------
EngineStep == AskStep \/ CallbackStep \/ ForStep

IInit == Init /\ locals = <<>>
INext == HostStep \/ EngineStep
ivars == <<vars, locals>>

(* A query runs on the host's thread, so it goes on until it returns.      *)
ISpec ==
  /\ IInit /\ [][INext]_ivars
  /\ WF_ivars(EngineStep) /\ WF_ivars(EndQuery /\ HostStep)
-----------------------------------------------------------------------------
(* The callbacks of the repository's operations ask of the engine only     *)
(* what Engine lets a callback ask, and return only what it lets one       *)
(* return: every behaviour is one of the open engine.                      *)
IsEngine == Spec
=============================================================================
