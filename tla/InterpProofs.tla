---------------------------- MODULE InterpProofs ----------------------------
(***************************************************************************)
(* The callbacks of the repository's operations keep to what Engine lets a *)
(* callback do, so that what is proved of the engine with arbitrary        *)
(* callbacks holds of it with these, for every program and width; and the  *)
(* keys by which arithmetic operations share answers decide their results. *)
(***************************************************************************)
EXTENDS Interp, EngineProofs

(* What a callback's locals are.  A loop hears one answer per operand,     *)
(* then, per iteration, one per yield: a callback that waits for an answer *)
(* listens, one that has them all need not.                                *)
LocalRecord ==
  [at : {"begin", "head", "paid", "body", "leaving", "done"},
   heard : Seq(Answer), iv : Val \cup {Null}, ub : Val \cup {Null},
   step : Val \cup {Null}, carried : Seq(CompletedAnswer), results : Seq(Answer)]

InLoop(r) == r.pc = "evaluate" /\ r.val[1] \in Loops
Iterating(l) == l.at \in {"head", "paid", "body"}
Leaving(l) == l.at \in {"leaving", "done"}
Expected(o, l) ==
  CASE l.at = "begin" -> Operands[o] [] l.at = "body" -> Yields[o]
Awaits(l) == l.at \in {"begin", "body"}
Listens(r, l) ==
  InLoop(r) /\ Awaits(l) => Len(l.heard) < Len(Expected(r.val[1], l))
LocalFits(r, l) ==
  InLoop(r) =>
    /\ Awaits(l) => Len(l.heard) <= Len(Expected(r.val[1], l))
    /\ Iterating(l) => /\ l.iv \in Val /\ l.ub \in Val /\ l.step \in Val
                       /\ Len(l.carried) = Arity[r.val[1]]
    /\ Leaving(l) => Len(l.results) = Arity[r.val[1]]

LocalsInv ==
  /\ locals \in Seq(LocalRecord) /\ Len(locals) = Len(stack)
  /\ \A i \in 1..Len(stack) : /\ LocalFits(stack[i], locals[i])
                              /\ i # Len(stack) => Listens(stack[i], locals[i])
InterpInv == TypeInv /\ LocalsInv

-----------------------------------------------------------------------------
LEMMA ProgramFacts ==
  /\ Modulus \in Nat \ {0} /\ Val = 0..(Modulus - 1)
  /\ \A o \in Op : Operands[o] \in Seq(Value) /\ Len(Operands[o]) \in Nat
  /\ \A o \in Op \ Loops : Arity[o] = 1
  /\ \A o \in Loops : /\ o \in Op /\ Len(Operands[o]) = 3 + Arity[o]
                      /\ Body[o] \in Block /\ Yields[o] \in Seq(Value)
                      /\ Owner[Body[o]] = o /\ NumArgs[Body[o]] = 1 + Arity[o]
                      /\ Len(Yields[o]) = Arity[o]
<1>1. Operands \in [Op -> Seq(Value)] /\ Body \in [Loops -> Block]
      /\ Yields \in [Loops -> Seq(Value)]
  BY InterpAssumption
<1>2. \A o \in Op : Operands[o] \in Seq(Value) /\ Len(Operands[o]) \in Nat
  BY <1>1, LenProperties
<1>3. Loops \subseteq Op  BY DEF Loops
<1>4. \A o \in Loops : Body[o] \in Block /\ Yields[o] \in Seq(Value)  BY <1>1
<1> QED  BY <1>2, <1>3, <1>4, InterpAssumption

LEMMA FreshFits ==
  ASSUME NEW r \in Activation
  PROVE  Fresh \in LocalRecord /\ LocalFits(r, Fresh)
<1>1. <<>> \in Seq(Answer) /\ <<>> \in Seq(CompletedAnswer) /\ Len(<<>>) = 0
  BY EmptySeq
<1>2. Fresh \in LocalRecord  BY <1>1 DEF Fresh, LocalRecord
<1>3. r.val[1] \in Op  BY ValueFacts DEF Activation
<1>4. Fresh.at = "begin" /\ Fresh.heard = <<>>  BY DEF Fresh
<1>5. Len(Operands[r.val[1]]) \in Nat  BY <1>3, ProgramFacts
<1> QED  BY <1>1, <1>2, <1>4, <1>5
         DEF LocalFits, Awaits, Iterating, Leaving, Expected

(* A callback that listens may hear an answer.                             *)
LEMMA HearFits ==
  ASSUME NEW l \in LocalRecord, NEW a \in Answer, NEW r \in Activation,
         LocalFits(r, l), Listens(r, l)
  PROVE  /\ [l EXCEPT !.heard = Append(@, a)] \in LocalRecord
         /\ LocalFits(r, [l EXCEPT !.heard = Append(@, a)])
<1> DEFINE h == Append(l.heard, a)
           m == [l EXCEPT !.heard = h]
<1>1. l.heard \in Seq(Answer) /\ Len(l.heard) \in Nat
  BY LenProperties DEF LocalRecord
<1>2. h \in Seq(Answer) /\ Len(h) = Len(l.heard) + 1
  BY <1>1, AppendProperties
<1> HIDE DEF h
<1>3. m \in LocalRecord  BY <1>2 DEF LocalRecord
<1>4. m.heard = h /\ m.at = l.at /\ m.iv = l.iv /\ m.ub = l.ub
      /\ m.step = l.step /\ m.carried = l.carried /\ m.results = l.results
  BY DEF LocalRecord
<1> HIDE DEF m
<1>5. LocalFits(r, m)
  <2> SUFFICES ASSUME InLoop(r) PROVE LocalFits(r, m)  BY DEF LocalFits
  <2>1. Expected(r.val[1], m) = Expected(r.val[1], l)  BY <1>4 DEF Expected
  <2>2. r.val[1] \in Loops  BY DEF InLoop
  <2>3. Awaits(l) => Len(Expected(r.val[1], l)) \in Nat
    BY <2>2, ProgramFacts, ArityAssumption DEF Awaits, Expected
  <2> QED  BY <1>1, <1>2, <1>4, <2>1, <2>3
           DEF LocalFits, Listens, Awaits, Iterating, Leaving
<1> QED  BY <1>3, <1>5 DEF m, h

LEMMA HearsFacts ==
  ASSUME NEW ls \in Seq(LocalRecord), NEW a \in Answer
  PROVE  /\ Hears(ls, a) \in Seq(LocalRecord) /\ Len(Hears(ls, a)) = Len(ls)
         /\ \A i \in 1..Len(ls) :
              Hears(ls, a)[i] = IF i = Len(ls)
                                THEN [ls[i] EXCEPT !.heard = Append(@, a)]
                                ELSE ls[i]
<1>1. CASE ls = <<>>  BY <1>1, EmptySeq DEF Hears
<1>2. CASE ls # <<>>
  <2> DEFINE n == Len(ls)
             m == [ls[n] EXCEPT !.heard = Append(@, a)]
  <2>1. n \in Nat \ {0} /\ n \in 1..n  BY <1>2, EmptySeq
  <2>2. ls[n] \in LocalRecord  BY <2>1, ElementOfSeq
  <2>3. Append(ls[n].heard, a) \in Seq(Answer)
    BY <2>2, AppendProperties DEF LocalRecord
  <2>4. m \in LocalRecord  BY <2>2, <2>3 DEF LocalRecord
  <2>5. Hears(ls, a) = [ls EXCEPT ![n] = m]  BY <1>2 DEF Hears
  <2> HIDE DEF m
  <2>6. /\ [ls EXCEPT ![n] = m] \in Seq(LocalRecord)
        /\ Len([ls EXCEPT ![n] = m]) = n
        /\ \A j \in 1..n : [ls EXCEPT ![n] = m][j] = IF j = n THEN m ELSE ls[j]
    BY <2>1, <2>4, ExceptSeq
  <2> QED  BY <2>5, <2>6 DEF m
<1> QED  BY <1>1, <1>2
-----------------------------------------------------------------------------
(* The locals follow the stack.                                            *)

LEMMA LocalsFacts ==
  ASSUME InterpInv, stack # <<>>
  PROVE  /\ Len(stack) \in Nat \ {0} /\ Len(locals) = Len(stack)
         /\ DOMAIN stack = 1..Len(stack) /\ locals # <<>>
         /\ Local \in LocalRecord /\ Local = locals[Len(stack)]
         /\ LocalFits(Top, Local)
<1>1. Len(stack) \in Nat \ {0} /\ DOMAIN stack = 1..Len(stack)
  BY TopFacts DEF InterpInv
<1>2. locals \in Seq(LocalRecord) /\ Len(locals) = Len(stack)
  BY DEF InterpInv, LocalsInv
<1>3. Local = locals[Len(stack)] /\ Top = stack[Len(stack)]
  BY <1>2 DEF Local, Top
<1>4. Local \in LocalRecord  BY <1>1, <1>2, <1>3, ElementOfSeq
<1>5. LocalFits(Top, Local)  BY <1>1, <1>3 DEF InterpInv, LocalsInv
<1>6. locals # <<>>  BY <1>1, <1>2, EmptySeq
<1> QED  BY <1>1, <1>2, <1>3, <1>4, <1>5, <1>6

(* A step that keeps the activations below the top one, and sets its locals.*)
LEMMA SetKeeps ==
  ASSUME InterpInv, stack # <<>>, Len(stack') = Len(stack),
         \A i \in 1..(Len(stack) - 1) : stack'[i] = stack[i],
         NEW l \in LocalRecord, SetLocal(l), LocalFits(stack'[Len(stack)], l)
  PROVE  LocalsInv'
<1> PICK n : n = Len(stack)  OBVIOUS
<1>1. n \in Nat \ {0} /\ Len(locals) = n /\ n \in 1..n
  BY LocalsFacts
<1>2. locals \in Seq(LocalRecord) /\ locals' = [locals EXCEPT ![n] = l]
  BY <1>1 DEF InterpInv, LocalsInv, SetLocal
<1>3. /\ locals' \in Seq(LocalRecord) /\ Len(locals') = n
      /\ \A i \in 1..n : locals'[i] = IF i = n THEN l ELSE locals[i]
  BY <1>1, <1>2, ExceptSeq
<1>4. ASSUME NEW i \in 1..n
      PROVE  LocalFits(stack'[i], locals'[i])
             /\ (i # n => Listens(stack'[i], locals'[i]))
  <2>1. CASE i = n  BY <1>3, <2>1
  <2>2. CASE i # n
    <3>1. i \in 1..(n - 1)  BY <1>1, <2>2
    <3>2. stack'[i] = stack[i] /\ locals'[i] = locals[i]  BY <1>3, <2>2, <3>1
    <3> QED  BY <2>2, <3>2 DEF InterpInv, LocalsInv
  <2> QED  BY <2>1, <2>2
<1> QED  BY <1>3, <1>4 DEF LocalsInv

(* The top callback hears an answer.                                       *)
LEMMA HearKeeps ==
  ASSUME InterpInv, stack # <<>>, UNCHANGED stack, Listens(Top, Local),
         answer' \in Answer, locals' = Hears(locals, answer')
  PROVE  LocalsInv'
<1> PICK n, a : n = Len(stack) /\ a = answer'  OBVIOUS
<1>1. n \in Nat \ {0} /\ Len(locals) = n /\ n \in 1..n
      /\ Local = locals[n] /\ Local \in LocalRecord /\ LocalFits(Top, Local)
      /\ Top = stack[n] /\ locals \in Seq(LocalRecord)
  BY LocalsFacts DEF InterpInv, LocalsInv, Top
<1>6. a \in Answer /\ locals' = Hears(locals, a)  OBVIOUS
<1>2. /\ locals' \in Seq(LocalRecord) /\ Len(locals') = n
      /\ \A i \in 1..n : locals'[i] = IF i = n
                                      THEN [locals[n] EXCEPT !.heard = Append(@, a)]
                                      ELSE locals[i]
  <2>1. /\ Hears(locals, a) \in Seq(LocalRecord)
        /\ Len(Hears(locals, a)) = Len(locals)
        /\ \A i \in 1..Len(locals) :
             Hears(locals, a)[i] = IF i = Len(locals)
                                   THEN [locals[i] EXCEPT !.heard = Append(@, a)]
                                   ELSE locals[i]
    BY <1>1, <1>6, HearsFacts
  <2> QED  BY <1>1, <1>6, <2>1
<1>3. Top \in Activation  BY TopFacts DEF InterpInv
<1>4. LocalFits(Top, [Local EXCEPT !.heard = Append(@, a)])
  BY <1>1, <1>3, HearFits
<1>5. ASSUME NEW i \in 1..n
      PROVE  LocalFits(stack[i], locals'[i])
             /\ (i # n => Listens(stack[i], locals'[i]))
  <2>1. CASE i = n  BY <1>1, <1>2, <1>4, <2>1
  <2>2. CASE i # n
    <3>1. locals'[i] = locals[i]  BY <1>2, <2>2
    <3> QED  BY <2>2, <3>1 DEF InterpInv, LocalsInv
  <2> QED  BY <2>1, <2>2
<1> QED  BY <1>2, <1>5 DEF LocalsInv

(* compute returns to the callback that asked, or to query.                *)
LEMMA PopKeeps ==
  ASSUME InterpInv, stack # <<>>, stack' = SubSeq(stack, 1, Len(stack) - 1),
         answer' \in Answer,
         locals' = Hears(SubSeq(locals, 1, Len(locals) - 1), answer')
  PROVE  LocalsInv'
<1> PICK n, a : n = Len(stack) /\ a = answer'  OBVIOUS
<1>1. n \in Nat \ {0} /\ Len(locals) = n /\ locals \in Seq(LocalRecord)
  BY LocalsFacts DEF InterpInv, LocalsInv
<1>2. /\ stack' \in Seq(Activation) /\ Len(stack') = n - 1
      /\ \A i \in 1..(n - 1) : stack'[i] = stack[i]
  BY PopFacts DEF InterpInv
<1> DEFINE ls == SubSeq(locals, 1, n - 1)
<1>3. ls \in Seq(LocalRecord) /\ Len(ls) = n - 1
      /\ \A i \in 1..(n - 1) : ls[i] = locals[i]
  <2>1. \A i \in 1..(n - 1) : locals[i] \in LocalRecord
    BY <1>1, ElementOfSeq
  <2>2. /\ ls \in Seq(LocalRecord)
        /\ Len(ls) = IF 1 <= n - 1 THEN (n - 1) - 1 + 1 ELSE 0
        /\ \A i \in 1..((n - 1) - 1 + 1) : ls[i] = locals[1 + i - 1]
    BY <1>1, <2>1, SubSeqProperties
  <2>3. Len(ls) = n - 1
    <3>1. \A m \in Nat \ {0} : (IF 1 <= m - 1 THEN (m - 1) - 1 + 1 ELSE 0) = m - 1
      OBVIOUS
    <3> QED  BY <1>1, <2>2, <3>1
  <2>4. ASSUME NEW i \in 1..(n - 1) PROVE ls[i] = locals[i]
    <3>1. i \in 1..((n - 1) - 1 + 1) /\ 1 + i - 1 = i  BY <1>1
    <3> QED  BY <2>2, <3>1
  <2> QED  BY <2>2, <2>3, <2>4
<1> HIDE DEF ls
<1>4. a \in Answer /\ locals' = Hears(ls, a)  BY <1>1 DEF ls
<1>5. /\ locals' \in Seq(LocalRecord) /\ Len(locals') = n - 1
      /\ \A i \in 1..(n - 1) :
           locals'[i] = IF i = n - 1 THEN [ls[i] EXCEPT !.heard = Append(@, a)]
                        ELSE ls[i]
  <2>1. /\ Hears(ls, a) \in Seq(LocalRecord) /\ Len(Hears(ls, a)) = Len(ls)
        /\ \A i \in 1..Len(ls) :
             Hears(ls, a)[i] = IF i = Len(ls)
                               THEN [ls[i] EXCEPT !.heard = Append(@, a)]
                               ELSE ls[i]
    BY <1>3, <1>4, HearsFacts
  <2> QED  BY <1>1, <1>3, <1>4, <2>1
<1>6. ASSUME NEW i \in 1..(n - 1)
      PROVE  LocalFits(stack'[i], locals'[i])
             /\ (i # n - 1 => Listens(stack'[i], locals'[i]))
  <2>1. i \in 1..n /\ i # n  BY <1>1
  <2>2. LocalFits(stack[i], locals[i]) /\ Listens(stack[i], locals[i])
    BY <2>1 DEF InterpInv, LocalsInv
  <2>3. stack'[i] = stack[i] /\ ls[i] = locals[i]  BY <1>2, <1>3
  <2>4. CASE i = n - 1
    <3>1. locals[i] \in LocalRecord /\ stack[i] \in Activation
      BY <1>1, <2>1, ElementOfSeq DEF InterpInv, TypeInv, TypeOK
    <3>2. LocalFits(stack[i], [locals[i] EXCEPT !.heard = Append(@, a)])
      BY <2>2, <3>1, HearFits
    <3> QED  BY <1>5, <2>3, <2>4, <3>2
  <2>5. CASE i # n - 1  BY <1>5, <2>2, <2>3, <2>5
  <2> QED  BY <2>4, <2>5
<1> QED  BY <1>2, <1>5, <1>6 DEF LocalsInv

LEMMA BecomeLength ==
  ASSUME TypeInv, stack # <<>>, NEW r, Become(r)
  PROVE  /\ Len(stack') = Len(stack)
         /\ \A i \in 1..(Len(stack) - 1) : stack'[i] = stack[i]
<1>1. stack \in Seq(Activation)  BY DEF TypeInv, TypeOK
<1>2. stack \in Seq(Activation \cup {r})  BY <1>1, SeqMonotonic
<1>3. Len(stack) \in 1..Len(stack)  BY TopFacts
<1> QED  BY <1>2, <1>3, ExceptSeq DEF Become

(* What compute answers when it returns.                                   *)
LEMMA EvaluatedAnswers ==
  ASSUME TypeInv, stack # <<>>, NEW results \in Answers(TopOp), NEW e,
         ReturnEvaluated(results, e)
  PROVE  answer' # NoAnswer
<1> DEFINE S == {TopOp} \X (1..Arity[TopOp])
           final == [x \in S |->
                       IF e.results[x[2]] # NoAnswer THEN e.results[x[2]]
                       ELSE results[x[2]]]
<1>1. Top.val \in Result /\ Top.val[1] = TopOp  BY TopFacts DEF TopOp
<1>2. Top.val \in S /\ Top.val[2] \in 1..Arity[TopOp]  BY <1>1, ValueFacts
<1>3. results[Top.val[2]] # NoAnswer  BY <1>2, AnswerFacts DEF Answers
<1>4. answer' = final[Top.val]  BY DEF ReturnEvaluated, Leave
<1> QED  BY <1>2, <1>3, <1>4

LEMMA SearchAnswers ==
  ASSUME TypeInv, stack # <<>>, NEW n, SearchEnds(n),
         stack' = SubSeq(stack, 1, Len(stack) - 1)
  PROVE  answer' # NoAnswer
<1>1. Len(stack) \in Nat \ {0} /\ Len(stack') = Len(stack) - 1
      /\ Top \in Activation /\ Shaped(Top) /\ TopOp \in Op
  BY TopFacts, PopFacts
<1>2. CASE Top.results = <<>> /\ LookupEnds(n)
  <2>1. ASSUME NEW r, Become(r) PROVE FALSE
    <3>1. Len(stack') = Len(stack)
      BY <2>1, BecomeLength
    <3> QED  BY <1>1, <3>1
  <2> QED  BY <1>2, <2>1 DEF LookupEnds, Return, Leave
<1>3. CASE Top.results # <<>> /\ InsertEnds(n)
  <2>1. Top.results \in Answers(TopOp)
    <3>1. Top.results \in Seq(Answer) /\ Len(Top.results) = Arity[TopOp]
      BY <1>1, <1>3 DEF Activation, Shaped, TopOp
    <3> QED  BY <3>1, LenProperties DEF Answers
  <2> QED  BY <1>3, <2>1, EvaluatedAnswers DEF InsertEnds, StoreNew, StoreIn
<1> QED  BY <1>2, <1>3 DEF SearchEnds

(* A callback returns, or the search it is called from goes on.            *)
LEMMA ReturnAnswers ==
  ASSUME TypeInv, CallbackReturn \/ Internal
  PROVE  /\ stack # <<>> /\ (Pops \/ Moves)
         /\ stack' = SubSeq(stack, 1, Len(stack) - 1) => answer' # NoAnswer
<1>1. stack # <<>>
  BY DEF CallbackReturn, Internal, Eligible, CompareReturn, HashReturn, KeySignal,
     SearchMiss, SearchOwn, SearchSkip, SearchCompare, Charge, At
<1>2. Pops \/ Moves
  BY KeyKind, SearchKind, EvaluateKind DEF CallbackReturn, Internal
<1>3. ASSUME stack' = SubSeq(stack, 1, Len(stack) - 1) PROVE answer' # NoAnswer
  <2>1. Len(stack') # Len(stack)
    <3>1. Len(stack') = Len(stack) - 1  BY <1>1, <1>3, PopFacts
    <3>2. Len(stack) \in Nat \ {0}  BY <1>1, TopFacts
    <3> QED  BY <3>1, <3>2
  <2>2. \A r : ~Become(r)  BY <1>1, <2>1, BecomeLength
  <2>3. \A s \in Signal : Signaled(s) # NoAnswer  BY AnswerFacts
  <2>4. CASE \E e \in BOOLEAN : Eligible(e)  BY <2>2, <2>4 DEF Eligible
  <2>5. CASE \E k \in Key : HashReturn(k)  BY <2>2, <2>5 DEF HashReturn
  <2>6. CASE \E s \in Signal : KeySignal(s)
    BY <2>3, <2>6 DEF KeySignal, Return, Leave
  <2>7. CASE \/ SearchMiss \/ SearchOwn \/ SearchSkip \/ SearchCompare
             \/ \E e \in BOOLEAN : CompareReturn(e)
    <3>1. \E n : SearchEnds(n)
      BY <2>2, <2>7 DEF SearchMiss, SearchOwn, SearchSkip, SearchCompare,
         CompareReturn, NextCandidate
    <3> QED  BY <1>1, <1>3, <3>1, SearchAnswers
  <2>8. CASE Charge
    BY <2>2, <2>3, <2>8, AnswerAssumption DEF Charge, Return, Leave
  <2>9. ASSUME NEW results \in Answers(TopOp), EvaluateReturn(results)
        PROVE  answer' # NoAnswer
    BY <1>1, <2>2, <2>9, EvaluatedAnswers DEF EvaluateReturn, StoreIn
  <2> QED  BY <2>4, <2>5, <2>6, <2>7, <2>8, <2>9 DEF CallbackReturn, Internal
<1> QED  BY <1>1, <1>2, <1>3

LEMMA ReturnKeeps ==
  ASSUME InterpInv, CallbackReturn \/ Internal, NextLocals
  PROVE  LocalsInv'
<1>1. /\ stack # <<>> /\ (Pops \/ Moves)
      /\ stack' = SubSeq(stack, 1, Len(stack) - 1) => answer' # NoAnswer
  BY ReturnAnswers DEF InterpInv
<1>2. TypeInv'  BY TypeStep DEF InterpInv, Next
<1>3. Len(stack) \in Nat \ {0} /\ Len(locals) = Len(stack)  BY <1>1, LocalsFacts
<1>4. CASE Pops
  <2>1. stack' = SubSeq(stack, 1, Len(stack) - 1)  BY <1>4 DEF Pops
  <2>2. Len(stack') < Len(stack)  BY <1>1, <1>3, <2>1, PopFacts DEF InterpInv
  <2>3. answer' \in Answer  BY <1>1, <1>2, <2>1 DEF TypeInv, TypeOK
  <2> QED  BY <1>1, <2>1, <2>2, <2>3, PopKeeps DEF NextLocals
<1>5. CASE Moves
  <2>1. PICK r : Become(r)  BY <1>5 DEF Moves, MovesTo
  <2>2. /\ Len(stack') = Len(stack)
        /\ \A i \in 1..(Len(stack) - 1) : stack'[i] = stack[i]
    BY <1>1, <2>1, BecomeLength DEF InterpInv
  <2>3. SetLocal(Fresh)  BY <1>3, <2>2 DEF NextLocals
  <2>4. stack'[Len(stack)] \in Activation
    BY <1>2, <1>3, <2>2, ElementOfSeq DEF TypeInv, TypeOK
  <2> QED  BY <1>1, <2>2, <2>3, <2>4, FreshFits, SetKeeps
<1> QED  BY <1>1, <1>4, <1>5

-----------------------------------------------------------------------------
(* What the callbacks compute from what they have heard.                   *)

LEMMA HeardFacts ==
  ASSUME NEW h \in Seq(Answer)
  PROVE  /\ Len(h) \in Nat /\ DOMAIN h = 1..Len(h)
         /\ Has(h, IsSignal) => /\ SignalIn(h) \in Answer
                                /\ SignalIn(h).status \in Signal
                                /\ SignalIn(h) = Signaled(SignalIn(h).status)
         /\ \A i \in 1..Len(h) : h[i] \in Answer
         /\ \A i \in 1..Len(h) : ~IsSignal(h[i]) => h[i] \in CompletedAnswer
         /\ \A i \in 1..Len(h) :
              ~IsSignal(h[i]) /\ ~IsUnknown(h[i]) =>
                h[i].value \in Val /\ h[i] = Completed(h[i].value)
<1>1. Len(h) \in Nat /\ DOMAIN h = 1..Len(h) /\ \A i \in 1..Len(h) : h[i] \in Answer
  BY LenProperties, ElementOfSeq
<1>2. \A a \in Answer : IsSignal(a) => a.status \in Signal /\ a = Signaled(a.status)
  BY AnswerFacts DEF Answer, IsSignal, Signaled
<1>3. ASSUME Has(h, IsSignal)
      PROVE  SignalIn(h) \in Answer /\ IsSignal(SignalIn(h))
  <2>1. \E i \in DOMAIN h : IsSignal(h[i])  BY <1>3 DEF Has
  <2>2. PICK i : i \in DOMAIN h /\ IsSignal(h[i]) /\ SignalIn(h) = h[i]
    BY <2>1 DEF SignalIn
  <2> QED  BY <1>1, <2>2
<1>4. \A a \in CompletedAnswer : a # Unknown => a.value \in Val /\ a = Completed(a.value)
  BY DEF CompletedAnswer, Known, Completed
<1> QED  BY <1>1, <1>2, <1>3, <1>4, AnswerFacts DEF IsSignal, IsUnknown

LEMMA ApplyFacts ==
  ASSUME NEW o \in Op \ Loops, NEW x \in Val, NEW y \in Val
  PROVE  Apply(o, x, y) \in Val
<1> DEFINE m == Modulus
<1>1. m \in Nat \ {0} /\ Val = 0..(m - 1)  BY ProgramFacts
<1>2. Kind[o] \in {"addi", "subi", "muli"}  BY InterpAssumption DEF Loops
<1> HIDE DEF m
<1>3. x \in Int /\ y \in Int /\ x * y \in Int  BY <1>1
<1>4. \A z \in Int : z % m \in 0..(m - 1)  BY <1>1
<1>5. (x + y) % m \in Val /\ (x - y) % m \in Val /\ (x * y) % m \in Val
  <2>1. x + y \in Int /\ x - y \in Int  BY <1>3
  <2> QED  BY ONLY <1>1, <1>3, <1>4, <2>1, Zenon
<1> QED  BY <1>2, <1>5 DEF Apply, m

(* Neither getKey nor evaluate decides before it has heard enough.         *)
LEMMA BinaryDecided ==
  ASSUME NEW o \in Op \ Loops, NEW h \in Seq(Answer), ~BinaryPending(o, h),
         ~Has(h, IsSignal), ~(IsProduct(o) /\ Has(h, IsZero)), ~Has(h, IsUnknown)
  PROVE  /\ 1 \in 1..Len(h) /\ 2 \in 1..Len(h)
         /\ h[1].value \in Val /\ h[1] = Completed(h[1].value)
         /\ h[2].value \in Val /\ h[2] = Completed(h[2].value)
<1>1. Len(h) \in Nat /\ DOMAIN h = 1..Len(h)  BY HeardFacts
<1>2. Len(h) # 0
  <2>1. h # <<>>  BY DEF BinaryPending
  <2> QED  BY <2>1, EmptySeq
<1>3. 1 \in DOMAIN h  BY <1>1, <1>2
<1>4. ~Decides(o, h[1])  BY <1>3 DEF Decides, Has
<1>5. Len(h) # 1  BY <1>4 DEF BinaryPending
<1>6. 2 \in DOMAIN h  BY <1>1, <1>2, <1>5
<1> QED  BY <1>1, <1>3, <1>6, HeardFacts DEF Has

LEMMA BinaryType ==
  ASSUME NEW o \in Op \ Loops, NEW h \in Seq(Answer), ~BinaryPending(o, h)
  PROVE  BinaryResult(o, h) \in Answer
<1>1. CASE Has(h, IsSignal)  BY <1>1, HeardFacts DEF BinaryResult
<1>2. CASE ~Has(h, IsSignal) /\ IsProduct(o) /\ Has(h, IsZero)
  <2>1. 0 \in Val  BY ProgramFacts
  <2>2. Completed(0) \in Answer  BY <2>1 DEF Answer, CompletedAnswer, Known
  <2> QED  BY <1>2, <2>2 DEF BinaryResult
<1>3. CASE ~Has(h, IsSignal) /\ ~(IsProduct(o) /\ Has(h, IsZero)) /\ Has(h, IsUnknown)
  BY <1>3, AnswerFacts DEF BinaryResult
<1>4. CASE /\ ~Has(h, IsSignal) /\ ~(IsProduct(o) /\ Has(h, IsZero))
           /\ ~Has(h, IsUnknown)
  <2>1. Apply(o, h[1].value, h[2].value) \in Val  BY <1>4, BinaryDecided, ApplyFacts
  <2>2. BinaryResult(o, h) = Completed(Apply(o, h[1].value, h[2].value))
    BY <1>4 DEF BinaryResult
  <2> QED  BY <2>1, <2>2 DEF Answer, CompletedAnswer, Known
<1> QED  BY <1>1, <1>2, <1>3, <1>4

LEMMA ForRunsFacts ==
  ASSUME NEW o \in Loops, NEW h \in Seq(Answer), Len(h) <= Len(Operands[o]),
         ~ForPending(o, h), ForRuns(o, h)
  PROVE  /\ h[1].value \in Val /\ h[2].value \in Val /\ h[3].value \in Val
         /\ SubSeq(h, 4, Len(h)) \in Seq(CompletedAnswer)
         /\ Len(SubSeq(h, 4, Len(h))) = Arity[o]
<1>1. /\ Len(h) \in Nat /\ DOMAIN h = 1..Len(h)
      /\ \A i \in 1..Len(h) : ~IsSignal(h[i]) /\ ~IsUnknown(h[i])
      /\ ~Has(h, IsSignal) /\ ~Has(h, IsUnknown)
  BY HeardFacts DEF ForRuns, Has
<1>2. Arity[o] \in Nat \ {0} /\ Len(Operands[o]) = 3 + Arity[o]
  BY ProgramFacts, ArityAssumption
<1>3. Len(h) = 3 + Arity[o]  BY <1>1, <1>2 DEF ForPending, ForHashPending
<1>4. \A i \in 1..Len(h) : h[i].value \in Val /\ h[i] \in CompletedAnswer
  BY <1>1, HeardFacts
<1>5. h[1].value \in Val /\ h[2].value \in Val /\ h[3].value \in Val
  BY <1>2, <1>3, <1>4
<1>6. \A i \in 4..Len(h) : h[i] \in CompletedAnswer  BY <1>1, <1>4
<1>7. /\ SubSeq(h, 4, Len(h)) \in Seq(CompletedAnswer)
      /\ Len(SubSeq(h, 4, Len(h))) = IF 4 <= Len(h) THEN Len(h) - 4 + 1 ELSE 0
  BY <1>1, <1>6, SubSeqProperties
<1> QED  BY <1>2, <1>3, <1>5, <1>7

LEMMA PropagatedType ==
  ASSUME NEW o \in Op, NEW a \in Answer
  PROVE  /\ Propagated(o, a) \in Answers(o) /\ Propagated(o, a) \in Seq(Answer)
         /\ Len(Propagated(o, a)) = Arity[o]
<1>1. Arity[o] \in Nat  BY ArityAssumption
<1>2. Propagated(o, a) \in [1..Arity[o] -> Answer]  BY DEF Propagated
<1>3. Propagated(o, a) \in Seq(Answer)  BY <1>1, <1>2, SeqDef
<1>4. Len(Propagated(o, a)) = Arity[o]  BY <1>1, <1>2, <1>3, LenProperties
<1> QED  BY <1>2, <1>3, <1>4 DEF Answers

(* The bits of a sum fit the type.                                         *)
LEMMA SumFacts ==
  ASSUME NEW x \in Val, NEW y \in Val
  PROVE  (x + y) % Modulus \in Val
<1> DEFINE m == Modulus
<1>1. m \in Nat \ {0} /\ Val = 0..(m - 1)  BY ProgramFacts
<1> HIDE DEF m
<1>2. x + y \in Int  BY <1>1
<1>3. \A z \in Int : z % m \in 0..(m - 1)  BY <1>1
<1>4. (x + y) % m \in Val  BY ONLY <1>1, <1>2, <1>3, Zenon
<1> QED  BY <1>4 DEF m

-----------------------------------------------------------------------------
(* Every step is one of Engine, and keeps the locals.                      *)

LEMMA HeardType ==
  ASSUME InterpInv, stack # <<>>
  PROVE  Heard \in Seq(Answer) /\ Len(Heard) \in Nat
<1>1. Local.heard \in Seq(Answer)  BY LocalsFacts DEF LocalRecord
<1> QED  BY <1>1, LenProperties DEF Heard

LEMMA HostKeeps ==
  ASSUME InterpInv, HostStep
  PROVE  Next /\ LocalsInv'
<1>1. Next /\ TypeInv'  BY TypeStep DEF HostStep, Next, InterpInv
<1>2. stack = <<>>  BY DEF HostStep, Host, Query, EndQuery, ClearCache, InterpInv,
                         TypeInv, Idle
<1>3. stack' = <<>> \/ Len(stack') = 1
  <2>1. CASE EndQuery \/ ClearCache  BY <1>2, <2>1 DEF EndQuery, ClearCache
  <2>2. ASSUME NEW v \in Value, NEW b \in Budgets, Query(v, b)
        PROVE  stack' = <<>> \/ Len(stack') = 1
    <3>1. CASE v \in Result /\ Activate(v)
      <4>1. Len(stack') = Len(stack) + 1  BY <3>1, PushFacts DEF InterpInv
      <4> QED  BY <1>2, <4>1, EmptySeq
    <3>2. CASE UNCHANGED stack  BY <1>2, <3>2
    <3> QED  BY <2>2, <3>1, <3>2 DEF Query
  <2> QED  BY <2>1, <2>2 DEF HostStep, Host
<1>4. CASE stack' = <<>>
  <2>1. locals' = <<>>  BY <1>4 DEF HostStep
  <2>2. Len(<<>>) = 0 /\ <<>> \in Seq(LocalRecord) /\ 1..0 = {}  BY EmptySeq
  <2> QED  BY <1>1, <1>4, <2>1, <2>2 DEF LocalsInv
<1>5. CASE Len(stack') = 1 /\ stack' # <<>>
  <2>1. locals' = <<Fresh>>  BY <1>5 DEF HostStep
  <2>2. stack'[1] \in Activation
    BY <1>1, <1>5, ElementOfSeq DEF TypeInv, TypeOK
  <2>3. Fresh \in LocalRecord /\ LocalFits(stack'[1], Fresh)  BY <2>2, FreshFits
  <2>4. <<Fresh>> \in Seq(LocalRecord) /\ Len(<<Fresh>>) = 1 /\ <<Fresh>>[1] = Fresh
    BY <2>3
  <2> QED  BY <1>1, <1>5, <2>1, <2>3, <2>4 DEF LocalsInv
<1> QED  BY <1>1, <1>3, <1>4, <1>5

(* A callback asks only when it listens.                                   *)
LEMMA WantsListens ==
  ASSUME InterpInv, stack # <<>>, NEW v \in Wants
  PROVE  Listens(Top, Local)
<1> SUFFICES ASSUME InLoop(Top), Awaits(Local)
             PROVE  Len(Local.heard) < Len(Expected(TopOp, Local))
  BY DEF Listens, TopOp
<1>1. Top.pc = "evaluate" /\ TopOp \in Loops  BY DEF InLoop, TopOp
<1>2. v \in EvaluateWants(TopOp)  BY <1>1 DEF Wants
<1>3. \/ Local.at = "begin" /\ ForPending(TopOp, Heard)
      \/ Local.at = "body" /\ MoreYields(TopOp)
  BY <1>1, <1>2 DEF EvaluateWants
<1> QED  BY <1>3 DEF Expected, ForPending, ForHashPending, MoreYields, Heard

(* What a callback asks for is a value of the program.                     *)
LEMMA AskedValue ==
  ASSUME TypeInv, NEW v, Ask(v)
  PROVE  v \in Value
<1>0. stack # <<>> /\ Asks(v)
  BY DEF Asks, InCallback, Ask, QueryMemoized, QueryLeaf, QueryCycle, QueryEnter
<1>1. \A o \in Op : Uses[o] \subseteq Value  BY ProgramAssumption
<1>2. TopOp \in Op /\ Fits(Top, entries) /\ Shaped(Top) /\ Top \in Activation
  BY <1>0, TopFacts
<1>3. Top.pc = "compare" => Candidate.op \in Op
  <2> SUFFICES ASSUME Top.pc = "compare" PROVE Candidate.op \in Op  OBVIOUS
  <2>1. Top.key \in Key /\ Top.key # Null
    BY <1>2 DEF Shaped, Searching, Activation
  <2>2. Top.next \in DOMAIN entries[Top.key]
    BY <1>2, <2>1 DEF Fits, FitsAt, Bucket
  <2>3. entries[Top.key] \in Seq(Entry)  BY <2>1 DEF TypeInv, TypeOK
  <2>4. Candidate \in Entry  BY <2>2, <2>3, LenProperties, ElementOfSeq DEF Candidate
  <2> QED  BY <2>4 DEF Entry
<1> QED  BY <1>0, <1>1, <1>2, <1>3 DEF Asks, MayQuery

LEMMA AskKeeps ==
  ASSUME InterpInv, AskStep
  PROVE  Next /\ LocalsInv'
<1>1. PICK v : v \in Wants /\ Ask(v)  BY DEF AskStep
<1>2. stack # <<>> /\ Asks(v) /\ AskLocals
  BY <1>1 DEF AskStep, InCallback, Ask, QueryMemoized, QueryLeaf, QueryCycle,
     QueryEnter
<1>3. v \in Value  BY <1>1, AskedValue DEF InterpInv
<1>4. Next  BY <1>1, <1>3 DEF Next, ScopeCall
<1>5. Len(stack) \in Nat \ {0} /\ Len(locals) = Len(stack)
      /\ locals \in Seq(LocalRecord)
  BY <1>2, LocalsFacts DEF InterpInv, LocalsInv
<1>6. Listens(Top, Local)  BY <1>1, <1>2, WantsListens
<1>7. CASE QueryMemoized(v) \/ QueryLeaf(v) \/ QueryCycle(v)
  <2>1. UNCHANGED stack  BY <1>7 DEF QueryMemoized, QueryLeaf, QueryCycle
  <2>2. locals' = Hears(locals, answer')  BY <1>2, <1>5, <2>1 DEF AskLocals
  <2>3. answer' \in Answer
    <3>1. CASE QueryMemoized(v)
      <4>1. memo[v] \in Memo
        BY <1>3, <3>1 DEF QueryMemoized, InterpInv, TypeInv, TypeOK
      <4> QED  BY <3>1, <4>1, AnswerFacts DEF QueryMemoized, Memo
    <3>2. CASE QueryLeaf(v)
      BY <1>3, <3>2, LeafType, AnswerFacts DEF QueryLeaf, InterpInv
    <3>3. CASE QueryCycle(v)
      BY <3>3, AnswerFacts, AnswerAssumption DEF QueryCycle, Reenters
    <3> QED  BY <1>7, <3>1, <3>2, <3>3
  <2> QED  BY <1>2, <1>4, <1>6, <2>1, <2>2, <2>3, HearKeeps
<1>8. CASE QueryEnter(v)
  <2> PICK n : n = Len(stack)  OBVIOUS
  <2>1. v \in Result /\ Activate(v)  BY <1>8 DEF QueryEnter
  <2>2. /\ stack' \in Seq(Activation) /\ Len(stack') = n + 1
        /\ \A i \in 1..n : stack'[i] = stack[i]
    BY <2>1, PushFacts DEF InterpInv
  <2>3. locals' = Append(locals, Fresh)  BY <1>2, <1>5, <2>2 DEF AskLocals
  <2>4. stack'[n + 1] \in Activation  BY <1>5, <2>2, ElementOfSeq
  <2>5. Fresh \in LocalRecord /\ LocalFits(stack'[n + 1], Fresh)
    BY <2>4, FreshFits
  <2>6. /\ locals' \in Seq(LocalRecord) /\ Len(locals') = n + 1
        /\ \A i \in 1..n : locals'[i] = locals[i]
        /\ locals'[n + 1] = Fresh
    BY <1>5, <2>3, <2>5, AppendProperties
  <2>7. ASSUME NEW i \in 1..(n + 1)
        PROVE  LocalFits(stack'[i], locals'[i])
               /\ (i # n + 1 => Listens(stack'[i], locals'[i]))
    <3>1. CASE i = n + 1  BY <2>5, <2>6, <3>1
    <3>2. CASE i = n
      <4>1. Local = locals[n] /\ Top = stack[n] /\ LocalFits(Top, Local)
        BY <1>2, LocalsFacts DEF Top
      <4>2. stack'[i] = stack[n] /\ locals'[i] = locals[n]
        BY <1>5, <2>2, <2>6, <3>2
      <4> QED  BY <1>6, <4>1, <4>2
    <3>3. CASE i # n + 1 /\ i # n
      <4>1. i \in 1..n  BY <1>5, <3>3
      <4> QED  BY <2>2, <2>6, <3>3, <4>1 DEF InterpInv, LocalsInv
    <3> QED  BY <3>1, <3>2, <3>3
  <2> QED  BY <1>4, <2>2, <2>6, <2>7 DEF LocalsInv
<1> QED  BY <1>1, <1>7, <1>8 DEF Ask

(* What Hash combines becomes a key.                                       *)
HashesToKeys == \A x : Hash(x) \in Key

LEMMA CallbackReturns ==
  ASSUME InterpInv, HashesToKeys, CallbackStep
  PROVE  CallbackReturn \/ Internal
<1>1. CASE IsCacheable
  <2>1. (TopOp \in Pure) \in BOOLEAN  OBVIOUS
  <2> QED  BY <1>1, <2>1 DEF IsCacheable, CallbackReturn
<1>2. CASE GetHash
  <2>1. stack # <<>>  BY <1>2 DEF GetHash, Decided, At
  <2>2. CASE Has(Heard, IsSignal)
    <3>1. SignalIn(Heard).status \in Signal  BY <2>1, <2>2, HeardType, HeardFacts
    <3>2. KeySignal(SignalIn(Heard).status)  BY <1>2, <2>2 DEF GetHash
    <3> QED  BY <3>1, <3>2 DEF CallbackReturn
  <2>3. CASE ~Has(Heard, IsSignal)
    <3>1. PICK k : k = (IF TopOp \in Loops THEN ForHash(TopOp, Heard)
                        ELSE BinaryHash(TopOp, Heard))
      OBVIOUS
    <3>2. ForHash(TopOp, Heard) \in Key  BY DEF ForHash, HashesToKeys
    <3>3. BinaryHash(TopOp, Heard) \in Key
      <4> DEFINE key == BinaryKey(TopOp, Heard)
      <4>1. key.kind \in {"zero", "identity", "pair"}  BY DEF BinaryKey
      <4> HIDE DEF key
      <4> QED  BY <4>1 DEF BinaryHash, HashesToKeys, key
    <3>4. HashReturn(k)  BY <1>2, <2>3, <3>1 DEF GetHash
    <3> QED  BY <3>1, <3>2, <3>3, <3>4 DEF CallbackReturn
  <2> QED  BY <2>2, <2>3
<1>3. CASE IsEquivalentTo
  <2>1. PICK e \in BOOLEAN : CompareReturn(e)  BY <1>3 DEF IsEquivalentTo, Equivalent
  <2> QED  BY <2>1 DEF CallbackReturn
<1>4. CASE BinaryEvaluate
  <2>1. stack # <<>> /\ TopOp \in Op \ Loops /\ Wants = {} /\ Top.pc = "evaluate"
    BY <1>4, TopFacts DEF BinaryEvaluate, Decided, At, InterpInv
  <2>2. ~BinaryPending(TopOp, Heard)
    BY <2>1 DEF Wants, EvaluateWants, BinaryWants
  <2>3. BinaryResult(TopOp, Heard) \in Answer
    BY <2>1, <2>2, HeardType, BinaryType
  <2>4. Arity[TopOp] = 1  BY <2>1, ProgramFacts
  <2>5. <<BinaryResult(TopOp, Heard)>> \in Answers(TopOp)
    BY <2>3, <2>4 DEF Answers
  <2> QED  BY <1>4, <2>1, <2>5 DEF BinaryEvaluate, CallbackReturn
<1> QED  BY <1>1, <1>2, <1>3, <1>4 DEF CallbackStep

LEMMA CallbackKeeps ==
  ASSUME InterpInv, HashesToKeys, CallbackStep
  PROVE  Next /\ LocalsInv'
<1>1. CallbackReturn \/ Internal  BY CallbackReturns
<1> QED  BY <1>1, ReturnKeeps DEF CallbackStep, Next

LEMMA InForFacts ==
  ASSUME InterpInv, NEW at, InFor(at)
  PROVE  /\ stack # <<>> /\ Top \in Activation /\ Top.pc = "evaluate"
         /\ TopOp \in Loops /\ TopOp = Top.val[1] /\ InLoop(Top)
         /\ Local \in LocalRecord /\ Local.at = at /\ LocalFits(Top, Local)
         /\ Heard \in Seq(Answer) /\ Len(Heard) \in Nat
         /\ at = "begin" => ~ForPending(TopOp, Heard)
         /\ at = "body" => ~MoreYields(TopOp)
<1>1. stack # <<>> /\ Top.pc = "evaluate" /\ TopOp \in Loops /\ Local.at = at
      /\ Wants = {}
  BY DEF InFor, Decided, At
<1>2. EvaluateWants(TopOp) = {}  BY <1>1 DEF Wants
<1>3. at = "begin" => ~ForPending(TopOp, Heard)  BY <1>1, <1>2 DEF EvaluateWants
<1>4. at = "body" => ~MoreYields(TopOp)  BY <1>1, <1>2 DEF EvaluateWants
<1>5. Top \in Activation  BY <1>1, TopFacts DEF InterpInv
<1> QED  BY <1>1, <1>3, <1>4, <1>5, LocalsFacts, HeardType DEF InLoop, TopOp

(* A step inside evaluate.                                                 *)
LEMMA ScopeKeeps ==
  ASSUME InterpInv, stack # <<>>, UNCHANGED stack, NEW l \in LocalRecord,
         SetLocal(l), LocalFits(Top, l)
  PROVE  LocalsInv'
<1>1. LocalFits(stack'[Len(stack)], l)  BY DEF Top
<1> QED  BY <1>1, SetKeeps

(* A loop returns what it refused to run with, or its results.             *)
LEMMA ForCallbackReturns ==
  ASSUME InterpInv, ForRefused \/ ForReturns
  PROVE  CallbackReturn /\ NextLocals
<1>1. CASE ForRefused
  <2>1. InFor("begin") /\ EvaluateReturn(ForRefusal(TopOp, Heard)) /\ NextLocals
    BY <1>1 DEF ForRefused
  <2>2. stack # <<>> /\ TopOp \in Loops /\ TopOp \in Op /\ Heard \in Seq(Answer)
    BY <2>1, InForFacts, ProgramFacts
  <2>3. ForRefusal(TopOp, Heard) \in Answers(TopOp)
    <3>1. CASE Has(Heard, IsSignal)
      BY <2>2, <3>1, HeardFacts, PropagatedType DEF ForRefusal
    <3>2. CASE ~Has(Heard, IsSignal)
      BY <2>2, <3>2, AnswerFacts, PropagatedType DEF ForRefusal
    <3> QED  BY <3>1, <3>2
  <2> QED  BY <2>1, <2>2, <2>3 DEF CallbackReturn
<1>2. CASE ForReturns
  <2>1. InFor("done") /\ EvaluateReturn(Local.results) /\ NextLocals
    BY <1>2 DEF ForReturns
  <2>2. stack # <<>> /\ TopOp \in Loops /\ Local \in LocalRecord
        /\ Len(Local.results) = Arity[TopOp]
    BY <2>1, InForFacts DEF LocalFits, Leaving
  <2>3. Local.results \in Answers(TopOp)
    <3>1. Local.results \in Seq(Answer)  BY <2>2 DEF LocalRecord
    <3> QED  BY <2>2, <3>1, LenProperties DEF Answers
  <2> QED  BY <2>1, <2>2, <2>3 DEF CallbackReturn
<1> QED  BY <1>1, <1>2

LEMMA ForReturnKeeps ==
  ASSUME InterpInv, ForRefused \/ ForReturns
  PROVE  Next /\ LocalsInv'
BY ForCallbackReturns, ReturnKeeps DEF Next

LEMMA ForStartsKeeps ==
  ASSUME InterpInv, ForStarts
  PROVE  Next /\ LocalsInv'
<1> DEFINE l == [Fresh EXCEPT !.at = "head", !.iv = Heard[1].value,
                              !.ub = Heard[2].value, !.step = Heard[3].value,
                              !.carried = SubSeq(Heard, 4, Len(Heard))]
<1>1. InFor("begin") /\ ForRuns(TopOp, Heard) /\ Freeze /\ SetLocal(l)
  BY DEF ForStarts
<1>2. /\ stack # <<>> /\ TopOp \in Loops /\ TopOp = Top.val[1] /\ InLoop(Top)
      /\ Top \in Activation /\ Local.at = "begin" /\ LocalFits(Top, Local)
      /\ Heard \in Seq(Answer) /\ ~ForPending(TopOp, Heard)
  BY <1>1, InForFacts
<1>3. Len(Heard) <= Len(Operands[TopOp])
  BY <1>2 DEF LocalFits, Awaits, Expected, Heard
<1>4. /\ Heard[1].value \in Val /\ Heard[2].value \in Val /\ Heard[3].value \in Val
      /\ SubSeq(Heard, 4, Len(Heard)) \in Seq(CompletedAnswer)
      /\ Len(SubSeq(Heard, 4, Len(Heard))) = Arity[TopOp]
  BY <1>1, <1>2, <1>3, ForRunsFacts
<1>5. Fresh \in LocalRecord  BY <1>2, FreshFits
<1>6. l \in LocalRecord  BY <1>4, <1>5 DEF LocalRecord
<1>7. l.at = "head" /\ l.iv = Heard[1].value /\ l.ub = Heard[2].value
      /\ l.step = Heard[3].value /\ l.carried = SubSeq(Heard, 4, Len(Heard))
  BY <1>5 DEF LocalRecord
<1> HIDE DEF l
<1>8. LocalFits(Top, l)
  BY <1>2, <1>4, <1>7 DEF LocalFits, Awaits, Iterating, Leaving
<1>9. UNCHANGED stack  BY <1>1 DEF Freeze
<1> QED  BY <1>1, <1>2, <1>6, <1>8, <1>9, ScopeKeeps DEF Next, ScopeCall

LEMMA ForPaysKeeps ==
  ASSUME InterpInv, ForPays
  PROVE  Next /\ LocalsInv'
<1> DEFINE l == [Local EXCEPT !.at = "paid"]
<1>1. InFor("head") /\ DeclareCost /\ SetLocal(l)  BY DEF ForPays
<1>2. stack # <<>> /\ Local \in LocalRecord /\ Local.at = "head"
      /\ LocalFits(Top, Local)
  BY <1>1, InForFacts
<1>3. l \in LocalRecord  BY <1>2 DEF LocalRecord
<1>4. l.at = "paid" /\ l.iv = Local.iv /\ l.ub = Local.ub /\ l.step = Local.step
      /\ l.carried = Local.carried
  BY <1>2 DEF LocalRecord
<1> HIDE DEF l
<1>5. LocalFits(Top, l)
  BY <1>2, <1>4 DEF LocalFits, Awaits, Iterating, Leaving
<1>6. UNCHANGED stack  BY <1>1 DEF DeclareCost
<1> QED  BY <1>1, <1>2, <1>3, <1>5, <1>6, ScopeKeeps DEF Next, ScopeCall

LEMMA ForBindsKeeps ==
  ASSUME InterpInv, ForBinds
  PROVE  Next /\ LocalsInv'
<1> DEFINE l == [Local EXCEPT !.at = "body", !.heard = <<>>]
           args == <<Completed(Local.iv)>> \o Local.carried
<1>1. InFor("paid") /\ Bind(Body[TopOp], args) /\ SetLocal(l)  BY DEF ForBinds
<1>2. stack # <<>> /\ Local \in LocalRecord /\ Local.at = "paid"
      /\ LocalFits(Top, Local) /\ InLoop(Top) /\ TopOp \in Loops
      /\ TopOp = Top.val[1]
  BY <1>1, InForFacts
<1>3. Local.iv \in Val /\ Local.ub \in Val /\ Local.step \in Val
      /\ Local.carried \in Seq(CompletedAnswer)
      /\ Len(Local.carried) = Arity[TopOp]
  BY <1>2 DEF LocalFits, Iterating, LocalRecord
<1>4. Body[TopOp] \in Block /\ NumArgs[Body[TopOp]] = 1 + Arity[TopOp]
      /\ Arity[TopOp] \in Nat /\ Len(Yields[TopOp]) = Arity[TopOp]
  BY <1>2, ProgramFacts, ArityAssumption
<1>5. args \in [1..NumArgs[Body[TopOp]] -> CompletedAnswer]
  <2>1. Completed(Local.iv) \in CompletedAnswer  BY <1>3 DEF CompletedAnswer, Known
  <2>2. <<Completed(Local.iv)>> \in Seq(CompletedAnswer)
        /\ Len(<<Completed(Local.iv)>>) = 1
    BY <2>1
  <2>3. args \in Seq(CompletedAnswer) /\ Len(args) = 1 + Arity[TopOp]
    BY <1>3, <2>2, ConcatProperties
  <2> QED  BY <1>4, <2>3, LenProperties
<1>6. Next  BY <1>1, <1>4, <1>5 DEF Next, ScopeCall
<1>7. l \in LocalRecord  BY <1>2, EmptySeq DEF LocalRecord
<1>8. l.at = "body" /\ l.iv = Local.iv /\ l.ub = Local.ub /\ l.step = Local.step
      /\ l.carried = Local.carried /\ l.heard = <<>> /\ Len(<<>>) = 0
  BY <1>2, EmptySeq DEF LocalRecord
<1> HIDE DEF l
<1>9. LocalFits(Top, l)
  BY <1>2, <1>3, <1>4, <1>8 DEF LocalFits, Awaits, Iterating, Leaving, Expected
<1>10. UNCHANGED stack  BY <1>1 DEF Bind
<1> QED  BY <1>1, <1>2, <1>6, <1>7, <1>9, <1>10, ScopeKeeps

LEMMA ForIteratesKeeps ==
  ASSUME InterpInv, ForIterates
  PROVE  Next /\ LocalsInv'
<1> DEFINE leaves(a) == [Local EXCEPT !.at = "leaving",
                                      !.results = Propagated(TopOp, a)]
           again == [Local EXCEPT !.at = "head", !.carried = Heard, !.heard = <<>>,
                                  !.iv = (@ + Local.step) % Modulus]
<1>1. /\ InFor("body") /\ Unbind
      /\ \/ Has(Heard, IsSignal) /\ SetLocal(leaves(SignalIn(Heard)))
         \/ SetLocal(leaves(Unknown))
         \/ ~Has(Heard, IsSignal) /\ SetLocal(again)
  BY DEF ForIterates
<1>2. stack # <<>> /\ Local \in LocalRecord /\ Local.at = "body"
      /\ LocalFits(Top, Local) /\ InLoop(Top) /\ TopOp \in Loops
      /\ TopOp = Top.val[1] /\ Heard \in Seq(Answer) /\ Len(Heard) \in Nat
      /\ ~MoreYields(TopOp)
  BY <1>1, InForFacts
<1>3. Next /\ UNCHANGED stack  BY <1>1 DEF Next, ScopeCall, Unbind
<1>4. ASSUME NEW a \in Answer, SetLocal(leaves(a)) PROVE LocalsInv'
  <2> DEFINE l == leaves(a)
  <2>1. /\ Propagated(TopOp, a) \in Seq(Answer)
        /\ Len(Propagated(TopOp, a)) = Arity[TopOp]
    BY <1>2, ProgramFacts, PropagatedType
  <2>2. l \in LocalRecord  BY <1>2, <2>1 DEF LocalRecord
  <2>3. l.at = "leaving" /\ l.results = Propagated(TopOp, a)
    BY <1>2 DEF LocalRecord
  <2>4. SetLocal(l)  BY <1>4
  <2> HIDE DEF l
  <2>5. LocalFits(Top, l)
    BY <1>2, <2>1, <2>3 DEF LocalFits, Awaits, Iterating, Leaving
  <2> QED  BY <1>2, <1>3, <2>2, <2>4, <2>5, ScopeKeeps
<1>5. ASSUME ~Has(Heard, IsSignal), SetLocal(again) PROVE LocalsInv'
  <2>1. /\ Local.iv \in Val /\ Local.step \in Val /\ Local.ub \in Val
        /\ Len(Heard) <= Len(Yields[TopOp])
    BY <1>2 DEF LocalFits, Iterating, Awaits, Expected, Heard
  <2>2. Len(Yields[TopOp]) = Arity[TopOp] /\ Arity[TopOp] \in Nat
    BY <1>2, ProgramFacts, ArityAssumption
  <2>3. Len(Heard) = Arity[TopOp]  BY <1>2, <1>5, <2>1, <2>2 DEF MoreYields
  <2>4. Heard \in Seq(CompletedAnswer)
    <3>1. \A i \in 1..Len(Heard) : Heard[i] \in CompletedAnswer
      BY <1>2, <1>5, HeardFacts DEF Has
    <3>2. Heard \in [1..Len(Heard) -> CompletedAnswer]  BY <1>2, <3>1, LenProperties
    <3> QED  BY <1>2, <3>2, SeqDef
  <2>5. (Local.iv + Local.step) % Modulus \in Val  BY <2>1, SumFacts
  <2>6. again \in LocalRecord  BY <1>2, <2>4, <2>5, EmptySeq DEF LocalRecord
  <2>7. again.at = "head" /\ again.iv = (Local.iv + Local.step) % Modulus
        /\ again.ub = Local.ub /\ again.step = Local.step /\ again.carried = Heard
    BY <1>2 DEF LocalRecord
  <2>8. SetLocal(again)  BY <1>5
  <2> HIDE DEF again
  <2>9. LocalFits(Top, again)
    BY <1>2, <2>1, <2>3, <2>5, <2>7 DEF LocalFits, Awaits, Iterating, Leaving
  <2> QED  BY <1>2, <1>3, <2>6, <2>8, <2>9, ScopeKeeps
<1>6. Unknown \in Answer  BY AnswerFacts
<1>7. Has(Heard, IsSignal) => SignalIn(Heard) \in Answer  BY <1>2, HeardFacts
<1> QED  BY <1>1, <1>3, <1>4, <1>5, <1>6, <1>7

LEMMA ForThawsKeeps ==
  ASSUME InterpInv, ForThaws
  PROVE  Next /\ LocalsInv'
<1> DEFINE stopped == Propagated(TopOp, Signaled("Exhausted"))
<1>1. PICK results :
        /\ Unfreeze
        /\ \/ InFor("head") /\ results = Local.carried
           \/ InFor("head") /\ results = stopped
           \/ InFor("leaving") /\ results = Local.results
        /\ SetLocal([Local EXCEPT !.at = "done", !.results = results])
  BY DEF ForThaws
<1> DEFINE l == [Local EXCEPT !.at = "done", !.results = results]
<1>2. /\ stack # <<>> /\ Local \in LocalRecord /\ LocalFits(Top, Local)
      /\ InLoop(Top) /\ TopOp \in Loops /\ TopOp = Top.val[1]
  BY <1>1, InForFacts
<1>3. results \in Seq(Answer) /\ Len(results) = Arity[TopOp]
  <2>1. CASE InFor("head") /\ results = Local.carried
    <3>1. Local.carried \in Seq(CompletedAnswer) /\ Local.at = "head"
      BY <1>2, <2>1, InForFacts DEF LocalRecord
    <3>2. Local.carried \in Seq(Answer)  BY <3>1, AnswerFacts, SeqMonotonic
    <3> QED  BY <1>2, <2>1, <3>1, <3>2 DEF LocalFits, Iterating
  <2>2. CASE InFor("head") /\ results = stopped
    <3>1. Signaled("Exhausted") \in Answer  BY AnswerFacts, AnswerAssumption
    <3> QED  BY <1>2, <2>2, <3>1, ProgramFacts, PropagatedType
  <2>3. CASE InFor("leaving") /\ results = Local.results
    <3>1. Local.at = "leaving"  BY <2>3, InForFacts
    <3> QED  BY <1>2, <2>3, <3>1 DEF LocalFits, Leaving, LocalRecord
  <2> QED  BY <1>1, <2>1, <2>2, <2>3
<1>4. l \in LocalRecord  BY <1>2, <1>3 DEF LocalRecord
<1>5. l.at = "done" /\ l.results = results  BY <1>2 DEF LocalRecord
<1>6. SetLocal(l)  BY <1>1
<1> HIDE DEF l
<1>7. LocalFits(Top, l)
  BY <1>2, <1>3, <1>5 DEF LocalFits, Awaits, Iterating, Leaving
<1>8. UNCHANGED stack  BY <1>1 DEF Unfreeze
<1> QED  BY <1>1, <1>2, <1>4, <1>6, <1>7, <1>8, ScopeKeeps DEF Next, ScopeCall

LEMMA InterpInit == IInit => InterpInv
<1> SUFFICES ASSUME IInit PROVE InterpInv  OBVIOUS
<1>1. TypeInv  BY InitType DEF IInit
<1>2. locals = <<>> /\ stack = <<>>  BY DEF IInit, Init
<1>3. <<>> \in Seq(LocalRecord) /\ Len(<<>>) = 0 /\ 1..0 = {}  BY EmptySeq
<1> QED  BY <1>1, <1>2, <1>3 DEF InterpInv, LocalsInv

LEMMA InterpStep ==
  ASSUME InterpInv, HashesToKeys, [INext]_ivars
  PROVE  [Next]_vars /\ InterpInv'
<1>1. CASE UNCHANGED ivars
  <2>1. UNCHANGED vars /\ UNCHANGED <<stack, locals>>  BY <1>1 DEF ivars, vars
  <2>2. LocalsInv'  BY <2>1 DEF InterpInv, LocalsInv
  <2> QED  BY <2>1, <2>2, TypeStep DEF InterpInv
<1>2. CASE HostStep \/ AskStep \/ CallbackStep
  BY <1>2, HostKeeps, AskKeeps, CallbackKeeps, TypeStep DEF InterpInv
<1>3. CASE ForStep
  <2>1. Next /\ LocalsInv'
    BY <1>3, ForReturnKeeps, ForStartsKeeps, ForPaysKeeps, ForBindsKeeps,
       ForIteratesKeeps, ForThawsKeeps DEF ForStep
  <2> QED  BY <2>1, TypeStep DEF InterpInv
<1> QED  BY <1>1, <1>2, <1>3 DEF INext, EngineStep

(* The locals of every callback in progress keep their types, and one that *)
(* waits for an answer has heard fewer than it has operands, or yields.    *)
THEOREM LocalsFollowStack ==
  ASSUME HashesToKeys
  PROVE  ISpec => []InterpInv
<1>1. InterpInv /\ [INext]_ivars => InterpInv'  BY InterpStep
<1> QED  BY <1>1, InterpInit, PTL DEF ISpec

(* addi, subi, muli and scf.for keep to what a callback may do, so every   *)
(* theorem about Engine holds of the engine with these operations: whatever*)
(* they ask, freeze, bind and return, in whatever program.                 *)
THEOREM OperationsKeepToEngine ==
  ASSUME HashesToKeys
  PROVE  ISpec => IsEngine
<1>1. InterpInv /\ [INext]_ivars => [Next]_vars  BY InterpStep
<1>2. IInit => Init  BY DEF IInit
<1> QED  BY <1>1, <1>2, LocalsFollowStack, PTL DEF ISpec, IsEngine, Spec

-----------------------------------------------------------------------------
(* The keys of arithmetic operations.                                      *)

LEMMA KeyKinds ==
  ASSUME NEW o \in Op \ Loops, NEW h \in Seq(Answer), ~BinaryPending(o, h),
         ~Has(h, IsSignal)
  PROVE  \/ /\ IsProduct(o)
            /\ BinaryKey(o, h) = [kind |-> "zero", args |-> <<>>]
            /\ BinaryResult(o, h) = Completed(0)
         \/ /\ BinaryKey(o, h) = [kind |-> "identity", args |-> <<o>>]
            /\ BinaryResult(o, h) = Unknown
         \/ \E x, y \in Val :
              /\ BinaryKey(o, h) = [kind |-> "pair", args |-> <<x, y>>]
              /\ BinaryResult(o, h) = Completed(Apply(o, x, y))
<1>1. CASE IsProduct(o) /\ Has(h, IsZero)
  BY <1>1 DEF BinaryKey, BinaryResult
<1>2. CASE ~(IsProduct(o) /\ Has(h, IsZero)) /\ Has(h, IsUnknown)
  BY <1>2 DEF BinaryKey, BinaryResult
<1>3. CASE ~(IsProduct(o) /\ Has(h, IsZero)) /\ ~Has(h, IsUnknown)
  <2>1. h[1].value \in Val /\ h[2].value \in Val  BY <1>3, BinaryDecided
  <2> QED  BY <1>3, <2>1 DEF BinaryKey, BinaryResult
<1> QED  BY <1>1, <1>2, <1>3

LEMMA SwappedApply ==
  ASSUME NEW o \in Op \ Loops, IsCommutative(o), NEW x \in Val, NEW y \in Val
  PROVE  /\ Apply(o, x, y) = Apply(o, y, x)
         /\ Ordered(o, <<x, y>>) = Ordered(o, <<y, x>>)
<1>1. x \in Int /\ y \in Int  BY ProgramFacts
<1>2. x + y = y + x /\ x * y = y * x  BY <1>1
<1>3. Apply(o, x, y) = Apply(o, y, x)
  <2>1. CASE Kind[o] = "addi"  BY <1>2, <2>1 DEF Apply
  <2>2. CASE Kind[o] = "muli"  BY <1>2, <2>2 DEF Apply
  <2> QED  BY <2>1, <2>2 DEF IsCommutative
<1>4. x < y \/ y < x \/ x = y  BY <1>1
<1>5. Ordered(o, <<x, y>>) = Ordered(o, <<y, x>>)
  BY <1>1, <1>4 DEF Ordered
<1> QED  BY <1>3, <1>5

(* Two operations of a kind whose keys match have the same result and the  *)
(* same hash, for integers of any width: what isEquivalentTo of            *)
(* ArithEval.cpp accepts may be answered from one entry, and is found in   *)
(* one bucket, with the operands swapped or a product known by one factor. *)
THEOREM EqualKeysEqualResults ==
  ASSUME NEW o \in Op \ Loops, NEW p \in Op \ Loops, Kind[o] = Kind[p],
         NEW g \in Seq(Answer), NEW h \in Seq(Answer),
         ~BinaryPending(o, g), ~Has(g, IsSignal),
         ~BinaryPending(p, h), ~Has(h, IsSignal),
         SameKey(o, BinaryKey(o, g), BinaryKey(p, h))
  PROVE  /\ BinaryResult(o, g) = BinaryResult(p, h)
         /\ BinaryHash(o, g) = BinaryHash(p, h)
<1> DEFINE a == BinaryKey(o, g)
           b == BinaryKey(p, h)
<1>1. \A x, y : /\ Apply(o, x, y) = Apply(p, x, y)
                /\ Ordered(o, <<x, y>>) = Ordered(p, <<x, y>>)
  BY DEF Apply, Ordered, IsCommutative
<1>2. \A k : Ordered(o, k) = Ordered(p, k)  BY DEF Ordered, IsCommutative
<1>3. CASE a = [kind |-> "zero", args |-> <<>>]
  <2>1. a = b  BY <1>3 DEF SameKey
  <2> QED  BY <1>2, <1>3, <2>1, KeyKinds DEF BinaryHash
<1>4. CASE a = [kind |-> "identity", args |-> <<o>>]
  <2>1. a = b  BY <1>4 DEF SameKey
  <2> QED  BY <1>2, <1>4, <2>1, KeyKinds DEF BinaryHash
<1>5. ASSUME NEW x \in Val, NEW y \in Val, a = [kind |-> "pair", args |-> <<x, y>>],
             BinaryResult(o, g) = Completed(Apply(o, x, y))
      PROVE  BinaryResult(o, g) = BinaryResult(p, h)
             /\ BinaryHash(o, g) = BinaryHash(p, h)
  <2>1. b.kind = "pair"  BY <1>5 DEF SameKey
  <2>2. PICK v \in Val, w \in Val :
               /\ b = [kind |-> "pair", args |-> <<v, w>>]
               /\ BinaryResult(p, h) = Completed(Apply(p, v, w))
    BY <2>1, KeyKinds
  <2>3. \/ x = v /\ y = w
        \/ IsCommutative(o) /\ x = w /\ y = v
    BY <1>5, <2>2 DEF SameKey
  <2>4. /\ Apply(o, x, y) = Apply(p, v, w)
        /\ Ordered(o, <<x, y>>) = Ordered(p, <<v, w>>)
    BY <1>1, <2>3, SwappedApply
  <2> QED  BY <1>5, <2>2, <2>4 DEF BinaryHash
<1> QED  BY <1>3, <1>4, <1>5, KeyKinds
=============================================================================
