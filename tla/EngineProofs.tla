---------------------------- MODULE EngineProofs ----------------------------
(***************************************************************************)
(* Type correctness of the engine, for every program, cache and budget.    *)
(***************************************************************************)
EXTENDS Engine, SequenceTheorems, WellFoundedInduction, TLAPS

(* What TypeOK needs to be inductive: a search has a key, which nothing    *)
(* before the return of getHash has, the answers of                        *)
(* evaluate have the operation's shape, the entries the shape of theirs,   *)
(* the handles into the cache fit, and no activation outlives its query.   *)
Searching(r) == r.pc \in {"search", "compare"}
Shaped(r) ==
  /\ Searching(r) => r.key # Null
  /\ r.pc \in {"isCacheable", "getHash"} => r.key = Null
  /\ r.results # <<>> => Len(r.results) = Arity[r.val[1]] /\ r.key # Null
StackShaped == \A i \in DOMAIN stack : Shaped(stack[i])
EntriesShaped ==
  \A k \in Key : \A n \in DOMAIN entries[k] :
    Len(entries[k][n].results) = Arity[entries[k][n].op]
Idle == running \/ stack = <<>>
TypeInv == TypeOK /\ StackShaped /\ EntriesShaped /\ HandlesFit /\ Idle

-----------------------------------------------------------------------------
(* Answers.                                                                *)

LEMMA AnswerFacts ==
  /\ Unknown \in CompletedAnswer /\ Known \subseteq CompletedAnswer
  /\ CompletedAnswer \subseteq Answer
  /\ \A s \in Signal : Signaled(s) \in Answer
  /\ \A a \in Answer : a.status = "Completed" => a \in CompletedAnswer
  /\ \A a \in Known : a.status = "Completed" /\ a # NoAnswer
  /\ \A a \in CompletedAnswer : a.status = "Completed"
  /\ NoAnswer \notin Answer
<1> USE DEF Completed, Signaled
<1>1. Unknown \in CompletedAnswer /\ Known \subseteq CompletedAnswer
  BY DEF CompletedAnswer
<1>2. CompletedAnswer \subseteq Answer /\ \A s \in Signal : Signaled(s) \in Answer
  BY DEF Answer
<1>3. \A a \in CompletedAnswer : a.status = "Completed"
  BY DEF CompletedAnswer, Known, Unknown
<1>4. \A s \in Signal : Signaled(s).status = s /\ s # "Completed" /\ s # "None"
  BY AnswerAssumption
<1>5. \A a \in Answer : a.status = "Completed" => a \in CompletedAnswer
  BY <1>4 DEF Answer
<1>6. \A a \in Answer : a.status # "None"
  BY <1>3, <1>4 DEF Answer
<1>7. NoAnswer \notin Answer
  BY <1>6 DEF NoAnswer
<1> QED  BY <1>1, <1>2, <1>3, <1>5, <1>7

LEMMA ValueFacts ==
  /\ Result \subseteq Value /\ Arg \subseteq Value
  /\ \A v \in Result : v[1] \in Op /\ v[2] \in 1..Arity[v[1]]
                       /\ v = <<v[1], v[2]>>
  /\ \A o \in Op : Arity[o] \in Nat \ {0} /\ {o} \X (1..Arity[o]) \subseteq Result
  /\ \A a \in Arg : a[1] \in Block /\ a \in {a[1]} \X (1..NumArgs[a[1]])
<1>1. Result \subseteq Value /\ Arg \subseteq Value  BY DEF Value
<1>2. \A o \in Op : Arity[o] \in Nat \ {0}  BY ArityAssumption
<1>3. \A o \in Op : {o} \X (1..Arity[o]) \subseteq Result  BY DEF Result
<1>4. \A v \in Result : \E o \in Op : v \in {o} \X (1..Arity[o])  BY DEF Result
<1>5. \A a \in Arg : \E b \in Block : a \in {b} \X (1..NumArgs[b])  BY DEF Arg
<1> QED  BY <1>1, <1>2, <1>3, <1>4, <1>5

-----------------------------------------------------------------------------
(* The stack.                                                              *)

LEMMA TopFacts ==
  ASSUME TypeInv, stack # <<>>
  PROVE  /\ Len(stack) \in Nat \ {0} /\ DOMAIN stack = 1..Len(stack)
         /\ Top \in Activation /\ Top.val \in Result /\ TopOp \in Op
         /\ Shaped(Top) /\ Fits(Top, entries)
<1>1. stack \in Seq(Activation)  BY DEF TypeInv, TypeOK
<1>2. Len(stack) \in Nat \ {0} /\ DOMAIN stack = 1..Len(stack)
  BY <1>1, EmptySeq, LenProperties
<1>3. Top \in Activation  BY <1>1, <1>2, ElementOfSeq DEF Top
<1>4. Top.val \in Result  BY <1>3 DEF Activation
<1>5. TopOp \in Op  BY <1>4, ValueFacts DEF TopOp
<1> QED  BY <1>2, <1>3, <1>4, <1>5 DEF TypeInv, StackShaped, HandlesFit, Top

LEMMA BecomeFacts ==
  ASSUME TypeInv, stack # <<>>, NEW r \in Activation, Become(r)
  PROVE  /\ stack' \in Seq(Activation) /\ Len(stack') = Len(stack)
         /\ DOMAIN stack' = 1..Len(stack)
         /\ \A i \in 1..Len(stack) :
              stack'[i] = IF i = Len(stack) THEN r ELSE stack[i]
<1>1. stack \in Seq(Activation) /\ Len(stack) \in 1..Len(stack)
  BY TopFacts DEF TypeInv, TypeOK
<1>2. stack' = [stack EXCEPT ![Len(stack)] = r]  BY DEF Become
<1> QED  BY <1>1, <1>2, ExceptSeq, LenProperties

LEMMA PopFacts ==
  ASSUME TypeInv, stack # <<>>, stack' = SubSeq(stack, 1, Len(stack) - 1)
  PROVE  /\ stack' \in Seq(Activation) /\ Len(stack') = Len(stack) - 1
         /\ DOMAIN stack' = 1..(Len(stack) - 1)
         /\ \A i \in 1..(Len(stack) - 1) : stack'[i] = stack[i]
<1>1. stack \in Seq(Activation) /\ Len(stack) \in Nat \ {0}
  BY TopFacts DEF TypeInv, TypeOK
<1>2. \A i \in 1..(Len(stack) - 1) : stack[i] \in Activation
  BY <1>1, ElementOfSeq
<1>3. /\ stack' \in Seq(Activation)
      /\ Len(stack') = IF 1 <= Len(stack) - 1 THEN (Len(stack) - 1) - 1 + 1 ELSE 0
      /\ \A i \in 1..((Len(stack) - 1) - 1 + 1) : stack'[i] = stack[1 + i - 1]
  BY <1>1, <1>2, SubSeqProperties
<1>4. Len(stack') = Len(stack) - 1
  <2>1. \A m \in Nat \ {0} : (IF 1 <= m - 1 THEN (m - 1) - 1 + 1 ELSE 0) = m - 1
    OBVIOUS
  <2> QED  BY <1>1, <1>3, <2>1
<1>5. ASSUME NEW i \in 1..(Len(stack) - 1) PROVE stack'[i] = stack[i]
  <2>1. i \in 1..((Len(stack) - 1) - 1 + 1) /\ 1 + i - 1 = i  BY <1>1
  <2> QED  BY <1>3, <2>1
<1> QED  BY <1>3, <1>4, <1>5, LenProperties

LEMMA PushFacts ==
  ASSUME TypeInv, NEW v \in Result, Activate(v)
  PROVE  LET r == [val |-> v, pc |-> "isCacheable", key |-> Null, next |-> 1,
                   entry |-> 0, results |-> <<>>, freezesAt |-> freezes,
                   framesAt |-> Len(frames)]
         IN /\ r \in Activation /\ Shaped(r) /\ Fits(r, entries)
            /\ stack' \in Seq(Activation) /\ Len(stack') = Len(stack) + 1
            /\ DOMAIN stack' = 1..(Len(stack) + 1)
            /\ \A i \in 1..Len(stack) : stack'[i] = stack[i]
            /\ stack'[Len(stack) + 1] = r
            /\ active' \subseteq Op
<1> DEFINE r == [val |-> v, pc |-> "isCacheable", key |-> Null, next |-> 1,
                 entry |-> 0, results |-> <<>>, freezesAt |-> freezes,
                 framesAt |-> Len(frames)]
<1>1. Len(frames) \in Nat /\ freezes \in Nat  BY LenProperties DEF TypeInv, TypeOK
<1>2. <<>> \in Seq(Answer)  BY EmptySeq
<1>3. r \in Activation  BY <1>1, <1>2 DEF Activation, Pc, Callback
<1>4. Shaped(r)  BY DEF Shaped, Searching
<1>5. Fits(r, entries)
  <2>1. Bucket(r, entries) = <<>> /\ Len(<<>>) = 0  BY EmptySeq DEF Bucket
  <2> QED  BY <2>1 DEF Fits
<1>6. stack \in Seq(Activation) /\ stack' = Append(stack, r)
  BY DEF TypeInv, TypeOK, Activate
<1> HIDE DEF r
<1>7. /\ stack' \in Seq(Activation) /\ Len(stack') = Len(stack) + 1
      /\ \A i \in 1..Len(stack) : stack'[i] = stack[i]
      /\ stack'[Len(stack) + 1] = r
  BY <1>3, <1>6, AppendProperties
<1>8. active' \subseteq Op  BY ValueFacts DEF Activate, TypeInv, TypeOK
<1> QED  BY <1>3, <1>4, <1>5, <1>7, <1>8, LenProperties DEF r

-----------------------------------------------------------------------------
(* The memo.                                                               *)

(* Holder is the innermost of the frames that contain a value.             *)
LEMMA HolderFacts ==
  ASSUME frames \in Seq(Block), NEW v
  PROVE  /\ Containing(v) \subseteq 1..Len(frames)
         /\ Holder(v) \in 0..Len(frames)
         /\ \A j \in Containing(v) : j <= Holder(v)
<1> DEFINE n == Len(frames)
<1>1. n \in Nat /\ Containing(v) \subseteq 1..n
  BY LenProperties DEF Containing
<1>2. CASE Containing(v) = {}  BY <1>1, <1>2 DEF Holder
<1>3. CASE Containing(v) # {}
  <2> DEFINE T == {n - i : i \in Containing(v)}
  <2>1. T \subseteq Nat /\ T # {}  BY <1>1, <1>3
  <2>2. \E x \in T : \A y \in T : ~(<<y, x>> \in OpToRel(<, Nat))
    <3> HIDE DEF T
    <3> QED  BY <2>1, WFMin, NatLessThanWellFounded
  <2>3. PICK x \in T : \A y \in T : ~(<<y, x>> \in OpToRel(<, Nat))  BY <2>2
  <2>4. \A y \in T : ~(y < x)  BY <2>1, <2>3 DEF OpToRel
  <2>5. PICK i \in Containing(v) : x = n - i  OBVIOUS
  <2>6. \A j \in Containing(v) : j <= i
    <3> SUFFICES ASSUME NEW j \in Containing(v) PROVE j <= i  OBVIOUS
    <3>1. n - j \in T  OBVIOUS
    <3>2. ~(n - j < n - i)  BY <2>4, <2>5, <3>1
    <3> QED  BY <1>1, <3>2
  <2>7. Holder(v) \in Containing(v) /\ \A j \in Containing(v) : j <= Holder(v)
    BY <1>3, <2>6 DEF Holder
  <2> QED  BY <1>1, <2>7
<1> QED  BY <1>2, <1>3

LEMMA MemoizeAllType ==
  ASSUME TypeInv, NEW f, \A v \in DOMAIN f : f[v] \in Answer, MemoizeAll(f)
  PROVE  memo' \in [Value -> Memo \cup {NotMemoized}]
<1>1. frames \in Seq(Block) /\ memo \in [Value -> Memo \cup {NotMemoized}]
  BY DEF TypeInv, TypeOK
<1>2. \A v : Holder(v) \in Nat /\ Containing(v) \in SUBSET Nat
  BY <1>1, HolderFacts, LenProperties
<1>3. \A v \in DOMAIN f : Memoizable(v, f[v]) => f[v] \in CompletedAnswer
  BY AnswerFacts DEF Memoizable
<1> QED  BY <1>1, <1>2, <1>3 DEF MemoizeAll, Memo

LEMMA ForgetType ==
  ASSUME TypeInv, ForgetIteration
  PROVE  memo' \in [Value -> Memo \cup {NotMemoized}]
BY DEF TypeInv, TypeOK, ForgetIteration

-----------------------------------------------------------------------------
(* Values that are no result of an evaluable operation.                    *)

LEMMA LeafType ==
  ASSUME TypeInv, NEW v \in Value
  PROVE  /\ LeafAnswer(v) \in CompletedAnswer
         /\ StoreConstant(v) =>
              constants' \in [Attr -> CompletedAnswer \cup {NoAnswer}]
<1>1. LeafAnswer(v) \in CompletedAnswer
  <2>1. /\ bindings \in [Arg -> CompletedAnswer \cup {NoAnswer}]
        /\ constants \in [Attr -> CompletedAnswer \cup {NoAnswer}]
    BY DEF TypeInv, TypeOK
  <2>2. HasConstant(v) => AttrOf[v] \in Attr  BY ConstantAssumption DEF HasConstant
  <2>3. HasConstant(v) => Completed(AttrValue[AttrOf[v]]) \in CompletedAnswer
    BY <2>2, ConstantAssumption DEF CompletedAnswer, Known, Unknown
  <2> QED  BY <2>1, <2>2, <2>3, AnswerFacts DEF LeafAnswer, LooksUp
<1>2. ASSUME StoreConstant(v)
      PROVE  constants' \in [Attr -> CompletedAnswer \cup {NoAnswer}]
  BY <1>1, <1>2 DEF StoreConstant, TypeInv, TypeOK
<1> QED  BY <1>1, <1>2

-----------------------------------------------------------------------------
(* The activations keep their shape and their handles when the top one     *)
(* changes, leaves, or the cache grows under them.                         *)

Keeps(old, new) ==
  \A k \in Key : \A n \in DOMAIN old[k] :
    n \in DOMAIN new[k] /\ Len(new[k][n].results) = Len(old[k][n].results)

LEMMA FitsMono ==
  ASSUME NEW old \in [Key -> Seq(Entry)], NEW new \in [Key -> Seq(Entry)],
         Keeps(old, new), NEW r \in Activation, Fits(r, old)
  PROVE  Fits(r, new)
<1>1. CASE r.key = Null  BY <1>1 DEF Fits, FitsAt, Bucket
<1>2. CASE r.key # Null
  <2>1. r.key \in Key  BY <1>2 DEF Activation
  <2>2. Bucket(r, old) = old[r.key] /\ Bucket(r, new) = new[r.key]
    BY <1>2 DEF Bucket
  <2>3. old[r.key] \in Seq(Entry) /\ new[r.key] \in Seq(Entry)  BY <2>1
  <2>4. /\ Len(old[r.key]) \in Nat /\ DOMAIN old[r.key] = 1..Len(old[r.key])
        /\ Len(new[r.key]) \in Nat /\ DOMAIN new[r.key] = 1..Len(new[r.key])
    BY <2>3, LenProperties
  <2>5. \A n : FitsAt(r, n, old) => FitsAt(r, n, new)
    BY <2>1, <2>2 DEF FitsAt, Keeps
  <2>6. Len(old[r.key]) <= Len(new[r.key])
    <3>1. DOMAIN old[r.key] \subseteq DOMAIN new[r.key]  BY <2>1 DEF Keeps
    <3>2. \A m, n \in Nat : 1..m \subseteq 1..n => m <= n
      <4> SUFFICES ASSUME NEW m \in Nat, NEW n \in Nat, 1..m \subseteq 1..n
                   PROVE  m <= n
        OBVIOUS
      <4>1. CASE m = 0  BY <4>1
      <4>2. CASE m # 0
        <5>1. m \in 1..m  BY <4>2
        <5>2. m \in 1..n  BY <5>1, Zenon
        <5> QED  BY <5>2
      <4> QED  BY <4>1, <4>2
    <3>3. 1..Len(old[r.key]) \subseteq 1..Len(new[r.key])  BY <2>4, <3>1
    <3> QED  BY <2>4, <3>2, <3>3
  <2>7. r.next \in 1..(Len(new[r.key]) + 1)
    BY <2>2, <2>4, <2>6 DEF Fits, Activation
  <2> QED  BY <2>2, <2>5, <2>7 DEF Fits
<1> QED  BY <1>1, <1>2

LEMMA BecomeKeeps ==
  ASSUME TypeInv, stack # <<>>, NEW r \in Activation, Become(r),
         Shaped(r), Fits(r, entries), entries' = entries
  PROVE  stack' \in Seq(Activation) /\ StackShaped' /\ HandlesFit'
<1>1. /\ stack' \in Seq(Activation) /\ DOMAIN stack' = 1..Len(stack)
      /\ \A i \in 1..Len(stack) :
           stack'[i] = IF i = Len(stack) THEN r ELSE stack[i]
  BY BecomeFacts
<1>2. \A i \in 1..Len(stack) : Shaped(stack[i]) /\ Fits(stack[i], entries)
  BY TopFacts DEF TypeInv, StackShaped, HandlesFit
<1>3. \A i \in 1..Len(stack) : Shaped(stack'[i]) /\ Fits(stack'[i], entries)
  BY <1>1, <1>2
<1> QED  BY <1>1, <1>3 DEF StackShaped, HandlesFit

LEMMA LeaveKeeps ==
  ASSUME TypeInv, stack # <<>>, NEW a, Leave(a),
         entries' \in [Key -> Seq(Entry)], Keeps(entries, entries')
  PROVE  /\ stack' \in Seq(Activation) /\ StackShaped' /\ HandlesFit'
         /\ active' \subseteq Op
<1>1. /\ stack' \in Seq(Activation) /\ DOMAIN stack' = 1..(Len(stack) - 1)
      /\ \A i \in 1..(Len(stack) - 1) : stack'[i] = stack[i]
  BY PopFacts DEF Leave
<1>2. stack \in Seq(Activation) /\ Len(stack) \in Nat \ {0}
      /\ entries \in [Key -> Seq(Entry)]
  BY TopFacts DEF TypeInv, TypeOK
<1>3. \A i \in 1..(Len(stack) - 1) :
        stack[i] \in Activation /\ Shaped(stack[i]) /\ Fits(stack[i], entries)
  BY <1>2, TopFacts, ElementOfSeq DEF TypeInv, StackShaped, HandlesFit
<1>4. ASSUME NEW i \in 1..(Len(stack) - 1) PROVE Fits(stack[i], entries')
  <2>1. stack[i] \in Activation /\ Fits(stack[i], entries)  BY <1>3
  <2> QED  BY <1>2, <2>1, FitsMono
<1>5. \A i \in 1..(Len(stack) - 1) : Shaped(stack'[i]) /\ Fits(stack'[i], entries')
  BY <1>1, <1>3, <1>4
<1>6. active' \subseteq Op  BY DEF Leave, Release, TypeInv, TypeOK
<1> QED  BY <1>1, <1>5, <1>6 DEF StackShaped, HandlesFit

LEMMA ReturnType ==
  ASSUME TypeInv, stack # <<>>, NEW a \in Answer, Return(a)
  PROVE  /\ answer' \in Answer /\ Leave(a)
         /\ memo' \in [Value -> Memo \cup {NotMemoized}]
<1>1. CASE Len(stack) > 1
  <2> DEFINE f == [x \in {Top.val} |-> a]
  <2>1. MemoizeAll(f) /\ \A v \in DOMAIN f : f[v] \in Answer  BY <1>1 DEF Return
  <2> HIDE DEF f
  <2> QED  BY <2>1, MemoizeAllType DEF Return, Leave
<1>2. CASE ~(Len(stack) > 1)  BY <1>2 DEF Return, Leave, TypeInv, TypeOK
<1> QED  BY <1>1, <1>2

LEMMA ReturnEvaluatedType ==
  ASSUME TypeInv, stack # <<>>, NEW results, NEW e,
         Len(results) = Arity[TopOp], results \in Seq(Answer),
         Len(e.results) = Arity[TopOp], e.results \in Seq(Known \cup {NoAnswer}),
         ReturnEvaluated(results, e)
  PROVE  /\ answer' \in Answer /\ \E a : Leave(a)
         /\ memo' \in [Value -> Memo \cup {NotMemoized}]
<1> DEFINE S == {TopOp} \X (1..Arity[TopOp])
           final == [x \in S |->
                       IF e.results[x[2]] # NoAnswer THEN e.results[x[2]]
                       ELSE results[x[2]]]
<1>1. \A x \in S : x[2] \in 1..Arity[TopOp]  OBVIOUS
<1>2. \A i \in 1..Arity[TopOp] :
        results[i] \in Answer /\ e.results[i] \in Known \cup {NoAnswer}
  BY ElementOfSeq
<1>3. \A x \in S : final[x] \in Answer  BY <1>1, <1>2, AnswerFacts
<1>4. DOMAIN final = S  OBVIOUS
<1>5. Top.val \in S  BY TopFacts, ValueFacts DEF TopOp
<1>6. Leave(final[Top.val]) /\ MemoizeAll(final)  BY DEF ReturnEvaluated
<1> HIDE DEF final, S
<1>7. memo' \in [Value -> Memo \cup {NotMemoized}]
  BY <1>3, <1>4, <1>6, MemoizeAllType
<1> QED  BY <1>3, <1>5, <1>6, <1>7 DEF Leave

-----------------------------------------------------------------------------
(* Storing.                                                                *)

LEMMA FilledType ==
  ASSUME NEW e \in Entry, NEW answers, Len(e.results) = Arity[e.op]
  PROVE  /\ Filled(e, answers) \in Entry
         /\ Len(Filled(e, answers).results) = Len(e.results)
         /\ Filled(e, answers).op = e.op
<1> DEFINE n == Len(e.results)
           g == [i \in 1..n |-> IF Storable(e.results[i], answers[i])
                                 THEN answers[i] ELSE e.results[i]]
<1>1. e.results \in Seq(Known \cup {NoAnswer}) /\ e.op \in Op  BY DEF Entry
<1>2. n \in Nat /\ DOMAIN e.results = 1..n
      /\ \A i \in 1..n : e.results[i] \in Known \cup {NoAnswer}
  BY <1>1, LenProperties, ElementOfSeq
<1>3. g \in [1..n -> Known \cup {NoAnswer}]  BY <1>2 DEF Storable
<1>4. Filled(e, answers) = [e EXCEPT !.results = g]  BY <1>2 DEF Filled
<1>5. Filled(e, answers) = [op |-> e.op, results |-> g]  BY <1>4 DEF Entry
<1> HIDE DEF g
<1>6. g \in Seq(Known \cup {NoAnswer}) /\ Len(g) = n
  <2>1. g \in Seq(Known \cup {NoAnswer})  BY <1>2, <1>3, SeqDef
  <2> QED  BY <1>2, <1>3, <2>1, LenProperties
<1> QED  BY <1>1, <1>5, <1>6 DEF Entry

(* The part of TypeInv that the steps of an activation change.             *)
ActivationsOK ==
  /\ answer \in Answer \cup {NoAnswer}
  /\ stack \in Seq(Activation) /\ StackShaped /\ HandlesFit
  /\ active \subseteq Op
  /\ memo \in [Value -> Memo \cup {NotMemoized}]
  /\ entries \in [Key -> Seq(Entry)] /\ EntriesShaped

LEMMA ReturnOK ==
  ASSUME TypeInv, stack # <<>>, NEW a \in Answer, Return(a), entries' = entries
  PROVE  ActivationsOK'
<1>1. entries \in [Key -> Seq(Entry)] /\ EntriesShaped  BY DEF TypeInv, TypeOK
<1>2. Keeps(entries, entries')  BY DEF Keeps
<1>3. Leave(a)  BY ReturnType
<1>4. /\ stack' \in Seq(Activation) /\ StackShaped' /\ HandlesFit'
      /\ active' \subseteq Op
  BY <1>1, <1>2, <1>3, LeaveKeeps
<1>5. EntriesShaped'  BY <1>1 DEF EntriesShaped
<1> QED  BY <1>1, <1>4, <1>5, ReturnType DEF ActivationsOK

LEMMA BecomeOK ==
  ASSUME TypeInv, stack # <<>>, NEW r \in Activation, Become(r),
         Shaped(r), Fits(r, entries), UNCHANGED <<answer, active, memo, entries>>
  PROVE  ActivationsOK'
<1>1. stack' \in Seq(Activation) /\ StackShaped' /\ HandlesFit'  BY BecomeKeeps
<1>2. EntriesShaped'  BY DEF EntriesShaped, TypeInv
<1> QED  BY <1>1, <1>2 DEF ActivationsOK, TypeInv, TypeOK

LEMMA EvaluatedOK ==
  ASSUME TypeInv, stack # <<>>, NEW results, NEW e,
         Len(results) = Arity[TopOp], results \in Seq(Answer),
         Len(e.results) = Arity[TopOp], e.results \in Seq(Known \cup {NoAnswer}),
         ReturnEvaluated(results, e),
         entries' \in [Key -> Seq(Entry)], EntriesShaped',
         Keeps(entries, entries')
  PROVE  ActivationsOK'
<1>1. /\ answer' \in Answer /\ \E a : Leave(a)
      /\ memo' \in [Value -> Memo \cup {NotMemoized}]
  BY ReturnEvaluatedType
<1>2. PICK a : Leave(a)  BY <1>1
<1>3. /\ stack' \in Seq(Activation) /\ StackShaped' /\ HandlesFit'
      /\ active' \subseteq Op
  BY <1>2, LeaveKeeps
<1> QED  BY <1>1, <1>3 DEF ActivationsOK

LEMMA StoreInOK ==
  ASSUME TypeInv, stack # <<>>, Top.key \in Key, NEW n,
         FitsAt(Top, n, entries), NEW answers \in Seq(Answer),
         Len(answers) = Arity[TopOp], StoreIn(n, answers)
  PROVE  ActivationsOK'
<1> DEFINE old == entries[Top.key]
           e == Filled(old[n], answers)
<1>1. entries \in [Key -> Seq(Entry)] /\ EntriesShaped  BY DEF TypeInv, TypeOK
<1>2. Top.key # Null  BY AnswerAssumption
<1>3. n \in DOMAIN old /\ Len(old[n].results) = Arity[TopOp]
  BY <1>2 DEF FitsAt, Bucket, TopOp
<1>4. old \in Seq(Entry) /\ DOMAIN old = 1..Len(old)  BY <1>1, LenProperties
<1>5. old[n] \in Entry /\ Len(old[n].results) = Arity[old[n].op]
  BY <1>1, <1>3, <1>4, ElementOfSeq DEF EntriesShaped
<1>6. e \in Entry /\ Len(e.results) = Len(old[n].results) /\ e.op = old[n].op
  BY <1>5, FilledType
<1>7. entries' = [entries EXCEPT ![Top.key] = [old EXCEPT ![n] = e]]
      /\ ReturnEvaluated(answers, e)
  BY <1>1 DEF StoreIn
<1> HIDE DEF e
<1>8. /\ [old EXCEPT ![n] = e] \in Seq(Entry)
      /\ Len([old EXCEPT ![n] = e]) = Len(old)
      /\ \A j \in 1..Len(old) :
           [old EXCEPT ![n] = e][j] = IF j = n THEN e ELSE old[j]
  BY <1>3, <1>4, <1>6, ExceptSeq
<1>9. entries' \in [Key -> Seq(Entry)]  BY <1>1, <1>7, <1>8
<1>10. DOMAIN [old EXCEPT ![n] = e] = DOMAIN old  OBVIOUS
<1>11. \A k \in Key : \A m \in DOMAIN entries[k] :
         /\ m \in DOMAIN entries'[k]
         /\ Len(entries'[k][m].results) = Len(entries[k][m].results)
         /\ entries'[k][m].op = entries[k][m].op
         /\ DOMAIN entries'[k] = DOMAIN entries[k]
  <2> SUFFICES ASSUME NEW k \in Key, NEW m \in DOMAIN entries[k]
               PROVE  /\ m \in DOMAIN entries'[k]
                      /\ Len(entries'[k][m].results) = Len(entries[k][m].results)
                      /\ entries'[k][m].op = entries[k][m].op
                      /\ DOMAIN entries'[k] = DOMAIN entries[k]
    OBVIOUS
  <2>1. CASE k # Top.key
    <3>1. entries'[k] = entries[k]  BY <1>1, <1>7, <2>1
    <3> QED  BY <3>1
  <2>2. CASE k = Top.key
    <3>1. entries'[k] = [old EXCEPT ![n] = e]  BY <1>1, <1>7, <2>2
    <3> QED  BY <1>4, <1>6, <1>8, <1>10, <2>2, <3>1
  <2> QED  BY <2>1, <2>2
<1>12. Keeps(entries, entries')  BY <1>11 DEF Keeps
<1>13. EntriesShaped'
  <2> SUFFICES ASSUME NEW k \in Key, NEW m \in DOMAIN entries'[k]
               PROVE  Len(entries'[k][m].results) = Arity[entries'[k][m].op]
    BY DEF EntriesShaped
  <2>1. m \in DOMAIN entries[k]
    <3>1. CASE k # Top.key  BY <1>1, <1>7, <3>1
    <3>2. CASE k = Top.key  BY <1>1, <1>7, <1>10, <3>2
    <3> QED  BY <3>1, <3>2
  <2> QED  BY <1>1, <1>11, <2>1 DEF EntriesShaped
<1>14. e.results \in Seq(Known \cup {NoAnswer})  BY <1>6 DEF Entry
<1> QED  BY <1>3, <1>6, <1>7, <1>9, <1>12, <1>13, <1>14, EvaluatedOK

LEMMA NoEntryType ==
  ASSUME NEW o \in Op
  PROVE  NoEntry(o) \in Entry /\ Len(NoEntry(o).results) = Arity[o]
         /\ NoEntry(o).op = o
<1> DEFINE s == [i \in 1..Arity[o] |-> NoAnswer]
<1>1. Arity[o] \in Nat  BY ValueFacts
<1>2. s \in [1..Arity[o] -> Known \cup {NoAnswer}]  OBVIOUS
<1>3. s \in Seq(Known \cup {NoAnswer})  BY <1>1, <1>2, SeqDef
<1>4. DOMAIN s = 1..Arity[o]  OBVIOUS
<1> HIDE DEF s
<1>5. Len(s) = Arity[o]  BY <1>1, <1>3, <1>4, LenProperties
<1>6. NoEntry(o) = [op |-> o, results |-> s]  BY DEF NoEntry, s
<1> QED  BY <1>3, <1>5, <1>6 DEF Entry

LEMMA StoreNewOK ==
  ASSUME TypeInv, stack # <<>>, Top.key \in Key, NEW answers \in Seq(Answer),
         Len(answers) = Arity[TopOp], StoreNew(answers)
  PROVE  ActivationsOK'
<1> DEFINE old == entries[Top.key]
           e == Filled(NoEntry(TopOp), answers)
<1>1. entries \in [Key -> Seq(Entry)] /\ EntriesShaped  BY DEF TypeInv, TypeOK
<1>2. old \in Seq(Entry) /\ DOMAIN old = 1..Len(old)  BY <1>1, LenProperties
<1>3. e \in Entry /\ Len(e.results) = Arity[TopOp] /\ e.op = TopOp
  BY TopFacts, NoEntryType, FilledType
<1>4. entries' = [entries EXCEPT ![Top.key] = Append(old, e)]
      /\ ReturnEvaluated(answers, e)
  BY <1>1 DEF StoreNew
<1> HIDE DEF e
<1>5. /\ Append(old, e) \in Seq(Entry)
      /\ Len(Append(old, e)) = Len(old) + 1
      /\ \A i \in 1..Len(old) : Append(old, e)[i] = old[i]
      /\ Append(old, e)[Len(old) + 1] = e
  BY <1>2, <1>3, AppendProperties
<1>6. DOMAIN Append(old, e) = 1..(Len(old) + 1) /\ Len(old) \in Nat
  BY <1>2, <1>5, LenProperties
<1>7. entries' \in [Key -> Seq(Entry)]  BY <1>1, <1>4, <1>5
<1>8. Keeps(entries, entries')
  <2> SUFFICES ASSUME NEW k \in Key, NEW m \in DOMAIN entries[k]
               PROVE  /\ m \in DOMAIN entries'[k]
                      /\ Len(entries'[k][m].results) = Len(entries[k][m].results)
    BY DEF Keeps
  <2>1. CASE k # Top.key
    <3>1. entries'[k] = entries[k]  BY <1>1, <1>4, <2>1
    <3> QED  BY <3>1
  <2>2. CASE k = Top.key
    <3>1. entries'[k] = Append(old, e)  BY <1>1, <1>4, <2>2
    <3> QED  BY <1>2, <1>5, <1>6, <2>2, <3>1
  <2> QED  BY <2>1, <2>2
<1>9. EntriesShaped'
  <2> SUFFICES ASSUME NEW k \in Key, NEW m \in DOMAIN entries'[k]
               PROVE  Len(entries'[k][m].results) = Arity[entries'[k][m].op]
    BY DEF EntriesShaped
  <2>1. CASE k # Top.key
    <3>1. entries'[k] = entries[k]  BY <1>1, <1>4, <2>1
    <3> QED  BY <1>1, <3>1 DEF EntriesShaped
  <2>2. CASE k = Top.key
    <3>1. entries'[k] = Append(old, e)  BY <1>1, <1>4, <2>2
    <3>2. CASE m = Len(old) + 1  BY <1>3, <1>5, <3>1, <3>2
    <3>3. CASE m \in 1..Len(old)
      <4>1. entries'[k][m] = entries[k][m] /\ m \in DOMAIN entries[k]
        BY <1>2, <1>5, <2>2, <3>1, <3>3
      <4> QED  BY <1>1, <4>1 DEF EntriesShaped
    <3> QED  BY <1>6, <3>1, <3>2, <3>3
  <2> QED  BY <2>1, <2>2
<1>10. e.results \in Seq(Known \cup {NoAnswer})  BY <1>3 DEF Entry
<1> QED  BY <1>3, <1>4, <1>7, <1>8, <1>9, <1>10, EvaluatedOK

(* The end of a search: n is the position of the match, or 0.              *)
LEMMA SearchEndsOK ==
  ASSUME TypeInv, stack # <<>>, Searching(Top), NEW n \in Nat,
         n # 0 => FitsAt(Top, n, entries), SearchEnds(n)
  PROVE  ActivationsOK' /\ outcome' \in {"None", "Hit", "Miss"}
<1>1. Top \in Activation /\ Top.key \in Key /\ Top.key # Null
      /\ Top.val \in Result /\ Shaped(Top) /\ Fits(Top, entries)
  BY TopFacts DEF Shaped, Activation
<1>2. CASE Top.results = <<>> /\ LookupEnds(n)
  <2> DEFINE slot == IF n = 0 THEN NoAnswer
                     ELSE entries[Top.key][n].results[Top.val[2]]
  <2>1. outcome' \in {"None", "Hit", "Miss"}
    BY <1>2 DEF LookupEnds, TypeInv, TypeOK
  <2>2. /\ entries' = entries
        /\ \/ slot # NoAnswer /\ Return(slot)
           \/ /\ slot = NoAnswer
              /\ Become([Top EXCEPT !.pc = "charge", !.entry = n])
              /\ UNCHANGED <<answer, active, memo>>
    BY <1>2 DEF LookupEnds
  <2>3. slot \in Known \cup {NoAnswer}
    <3>1. CASE n = 0  BY <3>1
    <3>2. CASE n # 0
      <4>1. n \in DOMAIN entries[Top.key]
            /\ Len(entries[Top.key][n].results) = Arity[TopOp]
        BY <1>1, <3>2 DEF FitsAt, Bucket, TopOp
      <4>2. entries[Top.key] \in Seq(Entry)  BY <1>1 DEF TypeInv, TypeOK
      <4>3. entries[Top.key][n] \in Entry  BY <4>1, <4>2, LenProperties, ElementOfSeq
      <4>4. entries[Top.key][n].results \in Seq(Known \cup {NoAnswer})
        BY <4>3 DEF Entry
      <4>5. Top.val[2] \in 1..Arity[TopOp]  BY <1>1, ValueFacts DEF TopOp
      <4>6. entries[Top.key][n].results[Top.val[2]] \in Known \cup {NoAnswer}
        BY <4>1, <4>4, <4>5, ElementOfSeq
      <4> QED  BY <3>2, <4>6
    <3> QED  BY <3>1, <3>2
  <2> HIDE DEF slot
  <2>4. CASE slot # NoAnswer /\ Return(slot)
    <3>1. slot \in Answer  BY <2>3, <2>4, AnswerFacts
    <3> QED  BY <2>1, <2>2, <2>4, <3>1, ReturnOK
  <2>5. CASE Become([Top EXCEPT !.pc = "charge", !.entry = n])
             /\ UNCHANGED <<answer, active, memo>>
    <3> DEFINE r == [Top EXCEPT !.pc = "charge", !.entry = n]
    <3>1. r \in Activation  BY <1>1 DEF Activation, Pc
    <3>2. Shaped(r)  BY <1>1, <1>2 DEF Shaped, Searching, Activation
    <3>3. Bucket(r, entries) = Bucket(Top, entries) /\ r.val = Top.val
          /\ r.next = Top.next /\ r.entry = n /\ r.pc = "charge"
      BY <1>1 DEF Bucket, Activation
    <3>4. Fits(r, entries)  BY <1>1, <3>3 DEF Fits, FitsAt
    <3> HIDE DEF r
    <3>5. Become(r)  BY <2>5 DEF r
    <3> QED  BY <2>1, <2>2, <2>5, <3>1, <3>2, <3>4, <3>5, BecomeOK
  <2> QED  BY <2>2, <2>4, <2>5
<1>3. CASE Top.results # <<>> /\ InsertEnds(n)
  <2>1. outcome' \in {"None", "Hit", "Miss"}
    BY <1>3 DEF InsertEnds, TypeInv, TypeOK
  <2>2. Top.results \in Seq(Answer) /\ Len(Top.results) = Arity[TopOp]
    BY <1>1, <1>3 DEF Shaped, Activation, TopOp
  <2>3. CASE n = 0 /\ StoreNew(Top.results)
    BY <1>1, <2>1, <2>2, <2>3, StoreNewOK
  <2>4. CASE n # 0 /\ StoreIn(n, Top.results)
    BY <1>1, <2>1, <2>2, <2>4, StoreInOK
  <2> QED  BY <1>3, <2>3, <2>4 DEF InsertEnds
<1> QED  BY <1>2, <1>3 DEF SearchEnds

-----------------------------------------------------------------------------
(* The steps.                                                              *)

ScopesOK ==
  /\ frames \in Seq(Block)
  /\ bindings \in [Arg -> CompletedAnswer \cup {NoAnswer}]
  /\ freezes \in Nat
RestOK ==
  /\ running \in BOOLEAN /\ asked \in Value \cup {Null}
  /\ outcome \in {"None", "Hit", "Miss"}
  /\ remaining \in Nat
  /\ constants \in [Attr -> CompletedAnswer \cup {NoAnswer}]
  /\ Idle

LEMMA TypeInvParts == TypeInv <=> ActivationsOK /\ ScopesOK /\ RestOK
BY DEF TypeInv, TypeOK, ActivationsOK, ScopesOK, RestOK

LEMMA TypeInvPartsPrime == TypeInv' <=> ActivationsOK' /\ ScopesOK' /\ RestOK'
BY DEF TypeInv, TypeOK, ActivationsOK, ScopesOK, RestOK

LEMMA InitType == Init => TypeInv
<1> SUFFICES ASSUME Init PROVE TypeInv  OBVIOUS
<1>1. TypeOK
  <2>1. <<>> \in Seq(Activation) /\ <<>> \in Seq(Block) /\ <<>> \in Seq(Entry)
    BY EmptySeq
  <2> QED  BY <2>1 DEF Init, TypeOK
<1>2. StackShaped /\ HandlesFit  BY DEF Init, StackShaped, HandlesFit
<1>3. EntriesShaped /\ Idle  BY DEF Init, EntriesShaped, Idle
<1> QED  BY <1>1, <1>2, <1>3 DEF TypeInv

LEMMA QueryType ==
  ASSUME TypeInv, NEW v \in Value, NEW b \in Budgets, Query(v, b)
  PROVE  TypeInv'
<1>1. RestOK' /\ ScopesOK'
  <2>1. ScopesOK'  BY TypeInvParts DEF Query, scopes, ScopesOK
  <2>2. outcome' \in {"None", "Hit", "Miss"}  BY DEF Query, ConstantOutcome
  <2>3. constants' \in [Attr -> CompletedAnswer \cup {NoAnswer}]
    BY LeafType DEF Query, TypeInv, TypeOK
  <2> QED  BY <2>1, <2>2, <2>3, BudgetAssumption DEF Query, RestOK, Idle
<1>2. CASE v \in Result /\ Activate(v) /\ answer' = NoAnswer
  <2> DEFINE r == [val |-> v, pc |-> "isCacheable", key |-> Null, next |-> 1,
                   entry |-> 0, results |-> <<>>, freezesAt |-> freezes,
                   framesAt |-> Len(frames)]
  <2>1. /\ r \in Activation /\ Shaped(r) /\ Fits(r, entries)
        /\ stack' \in Seq(Activation)
        /\ DOMAIN stack' = 1..(Len(stack) + 1)
        /\ \A i \in 1..Len(stack) : stack'[i] = stack[i]
        /\ stack'[Len(stack) + 1] = r
        /\ active' \subseteq Op
    BY <1>2, PushFacts
  <2> HIDE DEF r
  <2>2. entries' = entries /\ memo' = memo  BY DEF Query
  <2>3. stack \in Seq(Activation) /\ Len(stack) \in Nat
        /\ DOMAIN stack = 1..Len(stack)
    BY LenProperties DEF TypeInv, TypeOK
  <2>4. \A i \in 1..(Len(stack) + 1) : Shaped(stack'[i]) /\ Fits(stack'[i], entries)
    BY <2>1, <2>3 DEF TypeInv, StackShaped, HandlesFit
  <2>5. StackShaped' /\ HandlesFit'
    BY <2>1, <2>2, <2>4 DEF StackShaped, HandlesFit
  <2>6. EntriesShaped'  BY <2>2 DEF TypeInv, EntriesShaped
  <2>7. ActivationsOK'
    BY <1>2, <2>1, <2>2, <2>5, <2>6 DEF ActivationsOK, TypeInv, TypeOK
  <2> QED  BY <1>1, <2>7, TypeInvPartsPrime
<1>3. CASE answer' = LeafAnswer(v) /\ UNCHANGED <<stack, active>>
  <2>1. UNCHANGED <<stack, active, memo, entries>>  BY <1>3 DEF Query
  <2>2. answer' \in Answer  BY <1>3, LeafType, AnswerFacts
  <2>3. StackShaped' /\ HandlesFit' /\ EntriesShaped'
    BY <2>1 DEF StackShaped, HandlesFit, EntriesShaped, TypeInv
  <2>4. ActivationsOK'  BY <2>1, <2>2, <2>3 DEF ActivationsOK, TypeInv, TypeOK
  <2> QED  BY <1>1, <2>4, TypeInvPartsPrime
<1> QED  BY <1>2, <1>3 DEF Query

LEMMA HostType ==
  ASSUME TypeInv, EndQuery \/ ClearCache
  PROVE  TypeInv'
<1>1. CASE EndQuery
  <2>1. memo' \in [Value -> Memo \cup {NotMemoized}]  BY <1>1 DEF EndQuery
  <2>2. StackShaped' /\ HandlesFit' /\ EntriesShaped'
    BY <1>1 DEF EndQuery, cache, StackShaped, HandlesFit, EntriesShaped, TypeInv
  <2>3. ActivationsOK' /\ ScopesOK' /\ RestOK'
    BY <1>1, <2>1, <2>2 DEF EndQuery, cache, scopes, ActivationsOK, ScopesOK,
       RestOK, Idle, TypeInv, TypeOK
  <2> QED  BY <2>3, TypeInvPartsPrime
<1>2. CASE ClearCache
  <2>1. <<>> \in Seq(Entry)  BY EmptySeq
  <2>2. entries' \in [Key -> Seq(Entry)] /\ EntriesShaped'
    BY <1>2, <2>1 DEF ClearCache, EntriesShaped
  <2>3. stack' = <<>>  BY <1>2 DEF ClearCache, TypeInv, Idle
  <2>4. StackShaped' /\ HandlesFit'  BY <2>3 DEF StackShaped, HandlesFit
  <2>5. ActivationsOK' /\ ScopesOK' /\ RestOK'
    BY <1>2, <2>2, <2>4 DEF ClearCache, scopes, ActivationsOK, ScopesOK,
       RestOK, Idle, TypeInv, TypeOK
  <2> QED  BY <2>5, TypeInvPartsPrime
<1> QED  BY <1>1, <1>2

(* What a callback asks: the memo, a leaf, a cycle, or a nested compute.   *)
LEMMA AskType ==
  ASSUME TypeInv, NEW v \in Value, Ask(v)
  PROVE  TypeInv'
<1>1. CASE QueryMemoized(v)
  <2>1. answer' \in Answer
    <3>1. memo[v] \in Memo  BY <1>1 DEF QueryMemoized, TypeInv, TypeOK
    <3> QED  BY <1>1, <3>1, AnswerFacts DEF QueryMemoized, Memo
  <2>2. UNCHANGED <<running, asked, outcome, stack, active, memo, scopes,
                    remaining, cache>>
    BY <1>1 DEF QueryMemoized
  <2> QED  BY <2>1, <2>2 DEF scopes, cache, TypeInv, TypeOK, StackShaped,
              HandlesFit, EntriesShaped, Idle
<1>2. CASE QueryLeaf(v)
  <2> DEFINE f == [x \in {v} |-> LeafAnswer(v)]
  <2>1. LeafAnswer(v) \in Answer
        /\ constants' \in [Attr -> CompletedAnswer \cup {NoAnswer}]
    BY <1>2, LeafType, AnswerFacts DEF QueryLeaf
  <2>2. MemoizeAll(f) /\ \A x \in DOMAIN f : f[x] \in Answer
    BY <1>2, <2>1 DEF QueryLeaf
  <2> HIDE DEF f
  <2>3. memo' \in [Value -> Memo \cup {NotMemoized}]  BY <2>2, MemoizeAllType
  <2> QED  BY <1>2, <2>1, <2>3 DEF QueryLeaf, scopes, TypeInv, TypeOK,
              StackShaped, HandlesFit, EntriesShaped, Idle
<1>3. CASE QueryCycle(v)
  <2>1. answer' \in Answer
    BY <1>3, AnswerFacts, AnswerAssumption DEF QueryCycle, Reenters
  <2> QED  BY <1>3, <2>1 DEF QueryCycle, scopes, cache, TypeInv, TypeOK,
              StackShaped, HandlesFit, EntriesShaped, Idle
<1>4. CASE QueryEnter(v)
  <2> DEFINE r == [val |-> v, pc |-> "isCacheable", key |-> Null, next |-> 1,
                   entry |-> 0, results |-> <<>>, freezesAt |-> freezes,
                   framesAt |-> Len(frames)]
  <2>1. /\ r \in Activation /\ Shaped(r) /\ Fits(r, entries)
        /\ stack' \in Seq(Activation)
        /\ DOMAIN stack' = 1..(Len(stack) + 1)
        /\ \A i \in 1..Len(stack) : stack'[i] = stack[i]
        /\ stack'[Len(stack) + 1] = r
        /\ active' \subseteq Op
    BY <1>4, PushFacts DEF QueryEnter
  <2> HIDE DEF r
  <2>2. entries' = entries /\ memo' = memo  BY <1>4 DEF QueryEnter, cache
  <2>3. Len(stack) \in Nat /\ DOMAIN stack = 1..Len(stack)
    BY LenProperties DEF TypeInv, TypeOK
  <2>4. \A i \in 1..(Len(stack) + 1) : Shaped(stack'[i]) /\ Fits(stack'[i], entries)
    BY <2>1, <2>3 DEF TypeInv, StackShaped, HandlesFit
  <2>5. StackShaped' /\ HandlesFit' /\ EntriesShaped'
    BY <2>1, <2>2, <2>4 DEF StackShaped, HandlesFit, EntriesShaped, TypeInv
  <2>6. ActivationsOK'
    BY <1>4, <2>1, <2>2, <2>5 DEF QueryEnter, ActivationsOK, TypeInv, TypeOK
  <2>7. ScopesOK' /\ RestOK'
    BY <1>4 DEF QueryEnter, Asks, InCallback, scopes, cache, ScopesOK, RestOK,
       Idle, TypeInv, TypeOK
  <2> QED  BY <2>6, <2>7, TypeInvPartsPrime
<1> QED  BY <1>1, <1>2, <1>3, <1>4 DEF Ask

(* Freezes, bindings and declared costs leave the activations alone.       *)
LEMMA ScopeType ==
  ASSUME TypeInv,
         \/ DeclareCost \/ Freeze \/ Unfreeze \/ Unbind
         \/ \E b \in Block :
              \E args \in [1..NumArgs[b] -> CompletedAnswer] : Bind(b, args)
  PROVE  TypeInv'
<1>1. /\ UNCHANGED <<running, asked, answer, outcome, stack, active, cache>>
      /\ stack # <<>>
  BY DEF DeclareCost, Freeze, Unfreeze, Unbind, Bind, At
<1>2. frames' \in Seq(Block)
  <2>1. CASE Unbind
    <3>1. frames \in Seq(Block) /\ Len(frames) \in Nat
      BY LenProperties DEF TypeInv, TypeOK
    <3>2. \A i \in 1..(Len(frames) - 1) : frames[i] \in Block
      BY <3>1, ElementOfSeq
    <3> QED  BY <2>1, <3>1, <3>2, SubSeqProperties DEF Unbind
  <2>2. ASSUME NEW b \in Block, NEW args \in [1..NumArgs[b] -> CompletedAnswer],
               Bind(b, args)
        PROVE  frames' \in Seq(Block)
    BY <2>2, AppendProperties DEF Bind, TypeInv, TypeOK
  <2>3. CASE DeclareCost \/ Freeze \/ Unfreeze
    BY <2>3 DEF DeclareCost, Freeze, Unfreeze, scopes, TypeInv, TypeOK
  <2> QED  BY <2>1, <2>2, <2>3
<1>3. bindings' \in [Arg -> CompletedAnswer \cup {NoAnswer}]
  <2>1. CASE Unbind  BY <2>1 DEF Unbind, TypeInv, TypeOK
  <2>2. ASSUME NEW b \in Block, NEW args \in [1..NumArgs[b] -> CompletedAnswer],
               Bind(b, args)
        PROVE  bindings' \in [Arg -> CompletedAnswer \cup {NoAnswer}]
    <3>1. \A a \in ArgsOf(b) : args[a[2]] \in CompletedAnswer  BY DEF ArgsOf
    <3> QED  BY <2>2, <3>1 DEF Bind, TypeInv, TypeOK
  <2>3. CASE DeclareCost \/ Freeze \/ Unfreeze
    BY <2>3 DEF DeclareCost, Freeze, Unfreeze, scopes, TypeInv, TypeOK
  <2> QED  BY <2>1, <2>2, <2>3
<1>4. freezes' \in Nat /\ remaining' \in Nat
  <2>1. Top.freezesAt \in Nat  BY <1>1, TopFacts DEF Activation
  <2> QED  BY <2>1 DEF DeclareCost, Freeze, Unfreeze, Unbind, Bind, scopes,
              TypeInv, TypeOK
<1>5. memo' \in [Value -> Memo \cup {NotMemoized}]
  <2>1. CASE Unbind  BY <2>1, ForgetType DEF Unbind
  <2>2. CASE ~Unbind
    BY <2>2 DEF DeclareCost, Freeze, Unfreeze, Bind, TypeInv, TypeOK
  <2> QED  BY <2>1, <2>2
<1> QED  BY <1>1, <1>2, <1>3, <1>4, <1>5 DEF cache, TypeInv, TypeOK,
            StackShaped, HandlesFit, EntriesShaped, Idle

(* The step only changes the activations, the budget and the outcome.      *)
LEMMA ActivationStepType ==
  ASSUME TypeInv, stack # <<>>, ActivationsOK',
         UNCHANGED <<running, asked, scopes, constants>>,
         remaining' \in Nat, outcome' \in {"None", "Hit", "Miss"}
  PROVE  TypeInv'
BY TypeInvPartsPrime DEF scopes, ScopesOK, RestOK, TypeInv, TypeOK, Idle

(* A step of the top activation that moves its program counter.            *)
LEMMA MoveOK ==
  ASSUME TypeInv, stack # <<>>, NEW p \in Pc, p # "compare",
         p = "search" => Top.key # Null,
         p \in {"isCacheable", "getHash"} => Top.key = Null,
         Become([Top EXCEPT !.pc = p]), UNCHANGED <<answer, active, memo, entries>>
  PROVE  ActivationsOK'
<1> DEFINE r == [Top EXCEPT !.pc = p]
<1>1. Top \in Activation /\ Shaped(Top) /\ Fits(Top, entries)  BY TopFacts
<1>2. r \in Activation /\ r.key = Top.key /\ r.val = Top.val /\ r.pc = p
      /\ r.next = Top.next /\ r.entry = Top.entry /\ r.results = Top.results
  BY <1>1 DEF Activation
<1> HIDE DEF r
<1>3. Shaped(r)  BY <1>1, <1>2 DEF Shaped, Searching
<1>4. Bucket(r, entries) = Bucket(Top, entries)  BY <1>2 DEF Bucket
<1>5. Fits(r, entries)  BY <1>1, <1>2, <1>4 DEF Fits, FitsAt
<1> QED  BY <1>2, <1>3, <1>5, BecomeOK DEF r

LEMMA KeyStepType ==
  ASSUME TypeInv,
         \/ \E e \in BOOLEAN : Eligible(e)
         \/ \E k \in Key : HashReturn(k)
         \/ \E s \in Signal : KeySignal(s)
  PROVE  TypeInv'
<1>1. ASSUME NEW e \in BOOLEAN, Eligible(e) PROVE TypeInv'
  <2>1. stack # <<>> /\ Top.pc = "isCacheable"
        /\ UNCHANGED <<running, asked, answer, outcome, active, memo, scopes,
                       remaining, cache>>
    BY <1>1 DEF Eligible, At
  <2>2. Top.key = Null  BY <2>1, TopFacts DEF Shaped
  <2>3. ActivationsOK'
    <3>1. CASE Become([Top EXCEPT !.pc = "getHash"])
      BY <2>1, <2>2, <3>1, MoveOK DEF cache, Pc, Callback
    <3>2. CASE Become([Top EXCEPT !.pc = "charge"])
      BY <2>1, <3>2, MoveOK DEF cache, Pc
    <3> QED  BY <1>1, <3>1, <3>2 DEF Eligible
  <2> QED  BY <2>1, <2>3, ActivationStepType DEF cache, TypeInv, TypeOK
<1>2. ASSUME NEW k \in Key, HashReturn(k) PROVE TypeInv'
  <2> DEFINE r == [Top EXCEPT !.pc = "search", !.key = k]
  <2>1. stack # <<>> /\ Top.pc = "getHash" /\ Become(r)
        /\ UNCHANGED <<running, asked, answer, outcome, active, memo, scopes,
                       remaining, cache>>
    BY <1>2 DEF HashReturn, At
  <2>2. Top \in Activation /\ Shaped(Top) /\ Fits(Top, entries)
    BY <2>1, TopFacts
  <2>3. r \in Activation /\ r.key = k /\ r.val = Top.val /\ r.pc = "search"
        /\ r.next = Top.next /\ r.entry = Top.entry /\ r.results = Top.results
    BY <2>2 DEF Activation, Pc
  <2> HIDE DEF r
  <2>4. Shaped(r)  BY <2>2, <2>3, AnswerAssumption DEF Shaped, Searching
  <2>5. Bucket(Top, entries) = <<>> /\ Len(<<>>) = 0 /\ DOMAIN <<>> = {}
    BY <2>1, <2>2, EmptySeq DEF Shaped, Bucket
  <2>6. Top.next = 1 /\ Top.entry = 0
    BY <2>2, <2>5 DEF Fits, FitsAt
  <2>7. Len(Bucket(r, entries)) \in Nat
    BY <2>3, AnswerAssumption, LenProperties DEF Bucket, TypeInv, TypeOK
  <2>8. Fits(r, entries)  BY <2>3, <2>6, <2>7 DEF Fits
  <2>9. ActivationsOK'  BY <2>1, <2>3, <2>4, <2>8, BecomeOK DEF cache
  <2> QED  BY <2>1, <2>9, ActivationStepType DEF cache, TypeInv, TypeOK
<1>3. ASSUME NEW s \in Signal, KeySignal(s) PROVE TypeInv'
  <2>1. stack # <<>> /\ Return(Signaled(s))
        /\ UNCHANGED <<running, asked, outcome, scopes, remaining, cache>>
    BY <1>3 DEF KeySignal, At
  <2>2. ActivationsOK'  BY <2>1, AnswerFacts, ReturnOK DEF cache
  <2> QED  BY <2>1, <2>2, ActivationStepType DEF cache, TypeInv, TypeOK
<1> QED  BY <1>1, <1>2, <1>3

LEMMA NextCandidateOK ==
  ASSUME TypeInv, stack # <<>>, Searching(Top),
         Top.next \in DOMAIN entries[Top.key],
         NextCandidate, UNCHANGED <<answer, active, memo, entries>>
  PROVE  ActivationsOK'
<1> DEFINE m == Top.next + 1
           r == [Top EXCEPT !.pc = "search", !.next = m]
<1>1. Top \in Activation /\ Shaped(Top) /\ Fits(Top, entries) /\ Become(r)
  BY TopFacts DEF NextCandidate
<1>0. m \in Nat  BY <1>1 DEF Activation
<1> HIDE DEF m
<1>2. r \in Activation /\ r.key = Top.key /\ r.val = Top.val /\ r.pc = "search"
      /\ r.next = m /\ r.entry = Top.entry /\ r.results = Top.results
  BY <1>1, <1>0 DEF Activation, Pc
<1> HIDE DEF r
<1>3. Shaped(r)  BY <1>1, <1>2 DEF Shaped, Searching
<1>4. Top.key \in Key /\ Top.key # Null  BY <1>1 DEF Shaped, Activation
<1>5. Bucket(r, entries) = entries[Top.key]
      /\ Bucket(Top, entries) = entries[Top.key]
  BY <1>2, <1>4 DEF Bucket
<1>6. entries[Top.key] \in Seq(Entry)  BY <1>4 DEF TypeInv, TypeOK
<1>7. r.next \in 1..(Len(entries[Top.key]) + 1)  BY <1>2, <1>6, LenProperties DEF m
<1>8. Fits(r, entries)  BY <1>1, <1>2, <1>5, <1>7 DEF Fits, FitsAt
<1> QED  BY <1>1, <1>2, <1>3, <1>8, BecomeOK

LEMMA SearchStepType ==
  ASSUME TypeInv,
         \/ SearchMiss \/ SearchOwn \/ SearchSkip \/ SearchCompare
         \/ \E e \in BOOLEAN : CompareReturn(e)
  PROVE  TypeInv'
<1>1. stack # <<>> /\ Searching(Top)
  BY DEF SearchMiss, SearchOwn, SearchSkip, SearchCompare, CompareReturn, At,
     Searching
<1>2. Top \in Activation /\ Top.key \in Key /\ Top.key # Null /\ Shaped(Top)
      /\ Fits(Top, entries) /\ Top.next \in Nat /\ TopOp \in Op
  BY <1>1, TopFacts DEF Shaped, Activation
<1>3. Bucket(Top, entries) = entries[Top.key]  BY <1>2 DEF Bucket
<1>4. entries[Top.key] \in Seq(Entry)  BY <1>2 DEF TypeInv, TypeOK
<1>5. /\ Len(entries[Top.key]) \in Nat
      /\ DOMAIN entries[Top.key] = 1..Len(entries[Top.key])
  BY <1>4, LenProperties
<1>6. MoreCandidates => Top.next \in DOMAIN entries[Top.key]
  BY <1>2, <1>3, <1>5 DEF MoreCandidates, Fits
<1>7. Top.pc = "compare" => FitsAt(Top, Top.next, entries)  BY <1>2 DEF Fits
<1>8. ASSUME NEW n \in Nat, n # 0 => FitsAt(Top, n, entries), SearchEnds(n)
      PROVE  TypeInv'
  <2>1. ActivationsOK' /\ outcome' \in {"None", "Hit", "Miss"}
    BY <1>1, <1>8, SearchEndsOK
  <2> QED  BY <1>1, <1>8, <2>1, ActivationStepType DEF SearchEnds, TypeInv, TypeOK
<1>9. ASSUME NextCandidate, Top.next \in DOMAIN entries[Top.key],
             UNCHANGED <<running, asked, answer, outcome, active, memo, scopes,
                         remaining, cache>>
      PROVE  TypeInv'
  <2>1. ActivationsOK'  BY <1>1, <1>9, NextCandidateOK DEF cache
  <2> QED  BY <1>1, <1>9, <2>1, ActivationStepType DEF cache, TypeInv, TypeOK
<1>10. CASE SearchMiss  BY <1>8, <1>10 DEF SearchMiss
<1>11. CASE SearchOwn
  <2>1. Top.next \in DOMAIN entries[Top.key] /\ Candidate.op = TopOp
    BY <1>6, <1>11 DEF SearchOwn, IsOwn
  <2>2. FitsAt(Top, Top.next, entries)
    <3>1. Len(Candidate.results) = Arity[Candidate.op]
      BY <1>2, <2>1 DEF Candidate, TypeInv, EntriesShaped
    <3> QED  BY <1>3, <2>1, <3>1 DEF FitsAt, Candidate, TopOp
  <2> QED  BY <1>2, <1>8, <1>11, <2>2 DEF SearchOwn
<1>12. CASE SearchSkip  BY <1>6, <1>9, <1>12 DEF SearchSkip
<1>13. CASE SearchCompare
  <2> DEFINE r == [Top EXCEPT !.pc = "compare"]
  <2>1. Become(r) /\ Top.next \in DOMAIN entries[Top.key]
        /\ Len(Candidate.results) = Arity[TopOp]
        /\ UNCHANGED <<running, asked, answer, outcome, active, memo, scopes,
                       remaining, cache>>
    BY <1>6, <1>13 DEF SearchCompare, SameShape
  <2>2. r \in Activation /\ r.key = Top.key /\ r.val = Top.val
        /\ r.pc = "compare" /\ r.next = Top.next /\ r.entry = Top.entry
        /\ r.results = Top.results
    BY <1>2 DEF Activation, Pc, Callback
  <2> HIDE DEF r
  <2>3. Shaped(r)  BY <1>2, <2>2 DEF Shaped, Searching
  <2>4. Bucket(r, entries) = entries[Top.key]  BY <1>2, <2>2 DEF Bucket
  <2>5. FitsAt(r, r.next, entries)
    BY <2>1, <2>2, <2>4 DEF FitsAt, Candidate, TopOp
  <2>6. Fits(r, entries)  BY <1>2, <1>3, <2>2, <2>4, <2>5 DEF Fits, FitsAt
  <2>7. ActivationsOK'  BY <1>1, <2>1, <2>2, <2>3, <2>6, BecomeOK DEF cache
  <2> QED  BY <1>1, <2>1, <2>7, ActivationStepType DEF cache, TypeInv, TypeOK
<1>14. ASSUME NEW e \in BOOLEAN, CompareReturn(e) PROVE TypeInv'
  <2>1. FitsAt(Top, Top.next, entries)  BY <1>7, <1>14 DEF CompareReturn, At
  <2>2. Top.next \in DOMAIN entries[Top.key]  BY <1>3, <2>1 DEF FitsAt
  <2>3. CASE SearchEnds(Top.next)  BY <1>2, <1>8, <2>1, <2>3
  <2>4. CASE NextCandidate /\ UNCHANGED <<running, asked, answer, outcome, active,
                                          memo, scopes, remaining, cache>>
    BY <1>9, <2>2, <2>4
  <2> QED  BY <1>14, <2>3, <2>4 DEF CompareReturn
<1> QED  BY <1>10, <1>11, <1>12, <1>13, <1>14

LEMMA EvaluateStepType ==
  ASSUME TypeInv,
         \/ Charge
         \/ stack # <<>> /\ \E results \in Answers(TopOp) : EvaluateReturn(results)
  PROVE  TypeInv'
<1>1. CASE Charge
  <2>1. stack # <<>> /\ UNCHANGED <<running, asked, outcome, scopes, cache>>
    BY <1>1 DEF Charge, At
  <2>2. CASE /\ HasStep /\ remaining' = remaining - 1
             /\ Become([Top EXCEPT !.pc = "evaluate"])
             /\ UNCHANGED <<answer, active, memo>>
    <3>1. remaining' \in Nat  BY <2>2 DEF HasStep, TypeInv, TypeOK
    <3>2. ActivationsOK'  BY <2>1, <2>2, MoveOK DEF cache, Pc, Callback
    <3> QED  BY <2>1, <3>1, <3>2, ActivationStepType DEF cache, TypeInv, TypeOK
  <2>3. CASE Return(Signaled("Exhausted")) /\ UNCHANGED remaining
    <3>1. Signaled("Exhausted") \in Answer  BY AnswerFacts, AnswerAssumption
    <3>2. ActivationsOK'  BY <2>1, <2>3, <3>1, ReturnOK DEF cache
    <3> QED  BY <2>1, <2>3, <3>2, ActivationStepType DEF cache, TypeInv, TypeOK
  <2> QED  BY <1>1, <2>2, <2>3 DEF Charge
<1>2. ASSUME stack # <<>>, NEW results \in Answers(TopOp), EvaluateReturn(results)
      PROVE  TypeInv'
  <2>1. Top \in Activation /\ TopOp \in Op /\ Shaped(Top) /\ Fits(Top, entries)
    BY <1>2, TopFacts
  <2>2. results \in Seq(Answer) /\ Len(results) = Arity[TopOp]
    <3>1. Arity[TopOp] \in Nat  BY <2>1, ValueFacts
    <3>2. results \in [1..Arity[TopOp] -> Answer]  BY <1>2 DEF Answers
    <3>3. results \in Seq(Answer)  BY <3>1, <3>2, SeqDef
    <3> QED  BY <3>1, <3>2, <3>3, LenProperties
  <2>3. UNCHANGED <<running, asked, outcome, scopes, remaining, constants>>
        /\ Top.pc = "evaluate"
    BY <1>2 DEF EvaluateReturn, At
  <2>4. ActivationsOK'
    <3>1. CASE ReturnEvaluated(results, NoEntry(TopOp)) /\ UNCHANGED entries
      <4>1. entries' \in [Key -> Seq(Entry)] /\ EntriesShaped'
            /\ Keeps(entries, entries')
        BY <3>1 DEF TypeInv, TypeOK, EntriesShaped, Keeps
      <4>2. NoEntry(TopOp).results \in Seq(Known \cup {NoAnswer})
            /\ Len(NoEntry(TopOp).results) = Arity[TopOp]
        BY <2>1, NoEntryType DEF Entry
      <4> QED  BY <1>2, <2>2, <3>1, <4>1, <4>2, EvaluatedOK
    <3>2. CASE Stores(results) /\ Top.entry # 0 /\ StoreIn(Top.entry, results)
      <4>1. Top.key \in Key  BY <2>1, <3>2 DEF Stores, Activation
      <4>2. FitsAt(Top, Top.entry, entries)  BY <2>1, <3>2 DEF Fits
      <4> QED  BY <1>2, <2>2, <3>2, <4>1, <4>2, StoreInOK
    <3>3. CASE /\ Stores(results) /\ Top.entry = 0
               /\ Become([Top EXCEPT !.pc = "search", !.results = results])
               /\ UNCHANGED <<answer, active, memo, entries>>
      <4> DEFINE r == [Top EXCEPT !.pc = "search", !.results = results]
      <4>1. r \in Activation /\ r.key = Top.key /\ r.val = Top.val
            /\ r.pc = "search" /\ r.next = Top.next /\ r.entry = Top.entry
            /\ r.results = results
        BY <2>1, <2>2 DEF Activation, Pc
      <4> HIDE DEF r
      <4>2. Shaped(r)  BY <2>2, <3>3, <4>1 DEF Shaped, Searching, Stores, TopOp
      <4>3. Bucket(r, entries) = Bucket(Top, entries)  BY <4>1 DEF Bucket
      <4>4. Fits(r, entries)  BY <2>1, <4>1, <4>3 DEF Fits, FitsAt
      <4> QED  BY <1>2, <3>3, <4>1, <4>2, <4>4, BecomeOK DEF r
    <3> QED  BY <1>2, <3>1, <3>2, <3>3 DEF EvaluateReturn
  <2> QED  BY <1>2, <2>3, <2>4, ActivationStepType DEF TypeInv, TypeOK
<1> QED  BY <1>1, <1>2

LEMMA TypeStep == TypeInv /\ [Next]_vars => TypeInv'
<1> SUFFICES ASSUME TypeInv, [Next]_vars PROVE TypeInv'  OBVIOUS
<1>1. CASE Host  BY <1>1, QueryType, HostType DEF Host
<1>2. CASE ScopeCall
  <2>1. ASSUME NEW v \in Value, Ask(v) PROVE TypeInv'  BY <2>1, AskType
  <2> QED  BY <1>2, <2>1, ScopeType DEF ScopeCall
<1>3. CASE CallbackReturn
  <2>1. CASE \E e \in BOOLEAN : Eligible(e)  BY <2>1, KeyStepType
  <2>2. CASE \E e \in BOOLEAN : CompareReturn(e)  BY <2>2, SearchStepType
  <2>3. CASE \E k \in Key : HashReturn(k)  BY <2>3, KeyStepType
  <2>4. CASE \E s \in Signal : KeySignal(s)  BY <2>4, KeyStepType
  <2>5. CASE stack # <<>> /\ \E results \in Answers(TopOp) : EvaluateReturn(results)
    BY <2>5, EvaluateStepType
  <2> QED  BY <1>3, <2>1, <2>2, <2>3, <2>4, <2>5 DEF CallbackReturn
<1>4. CASE Internal  BY <1>4, SearchStepType, EvaluateStepType DEF Internal
<1>5. CASE UNCHANGED vars
  BY <1>5 DEF vars, scopes, cache, TypeInv, TypeOK, StackShaped, HandlesFit,
     EntriesShaped, Idle
<1> QED  BY <1>1, <1>2, <1>3, <1>4, <1>5 DEF Next

(* The inductive invariant holds throughout.                               *)
THEOREM TypeInvariant == Spec => []TypeInv
BY InitType, TypeStep, PTL DEF Spec

(* The types of the state: in particular the cache only ever stores known  *)
(* answers, the memo completed ones, and no step overdraws the budget.     *)
THEOREM TypeCorrect == Spec => []TypeOK
BY TypeInvariant, PTL DEF TypeInv

(* The positions lookup leaves with an activation stay valid, and name     *)
(* entries with a slot for each of its results, whatever the nested queries*)
(* of isEquivalentTo and evaluate insert before they are used again.       *)
THEOREM HandlesStayValid == Spec => []HandlesFit
BY TypeInvariant, PTL DEF TypeInv

-----------------------------------------------------------------------------
(* The engine's call stack, for every program: operations are never        *)
(* evaluated inside themselves, and freezes and bindings nest with the     *)
(* activations that hold them.  Then what follows for bindings, memoized   *)
(* answers and the cache: a block is bound once at a time, an answer that  *)
(* depends on a binding goes with it, and a frozen cache is not written.   *)

(* Every frame lies above the framesAt of the activation that bound it, an *)
(* activation of its owner, and below that of the next.                    *)
Bound(j, i) == stack[i].framesAt < j /\ j <= FramesAbove(i)
FrameOwners ==
  \A j \in DOMAIN frames : \E i \in DOMAIN stack :
    Bound(j, i) /\ Owner[frames[j]] = stack[i].val[1]
NoneFrozen == stack = <<>> => freezes = 0
StackInv == StackDiscipline /\ CycleGuard /\ FrameOwners /\ NoneFrozen

-----------------------------------------------------------------------------
(* What a step does to the stack, the freezes and the frames.              *)

Stays == UNCHANGED <<stack, active, scopes>>
Pushes == \E v \in Result : v[1] \notin active /\ Activate(v) /\ UNCHANGED scopes
Pops ==
  /\ stack # <<>> /\ (Top.pc = "evaluate" => Balanced)
  /\ stack' = SubSeq(stack, 1, Len(stack) - 1) /\ active' = active \ {TopOp}
  /\ UNCHANGED scopes
MovesTo(r) ==
  /\ Become(r) /\ r.val = Top.val
  /\ r.freezesAt = Top.freezesAt /\ r.framesAt = Top.framesAt
  /\ r.results # Top.results => freezes = 0
Moves ==
  /\ stack # <<>> /\ (Top.pc = "evaluate" => Balanced)
  /\ \E r : MovesTo(r)
  /\ UNCHANGED <<active, scopes>>
Binds == \E b \in Block :
           \E args \in [1..NumArgs[b] -> CompletedAnswer] : Bind(b, args)
Nests == Freeze \/ Unfreeze \/ Unbind \/ Binds

LEMMA LeavePops ==
  ASSUME stack # <<>>, Top.pc = "evaluate" => Balanced, NEW a, Leave(a),
         UNCHANGED scopes
  PROVE  Pops
BY DEF Leave, Pops, Release

LEMMA ReturnPops ==
  ASSUME stack # <<>>, Top.pc = "evaluate" => Balanced, NEW a, Return(a),
         UNCHANGED scopes
  PROVE  Pops
BY LeavePops DEF Return

LEMMA EvaluatedPops ==
  ASSUME stack # <<>>, Top.pc = "evaluate" => Balanced, NEW results, NEW e,
         ReturnEvaluated(results, e), UNCHANGED scopes
  PROVE  Pops
BY LeavePops DEF ReturnEvaluated

LEMMA SearchEndsKind ==
  ASSUME TypeInv, stack # <<>>, Top.pc # "evaluate", NEW n, SearchEnds(n)
  PROVE  Pops \/ Moves
<1>1. Top \in Activation  BY TopFacts
<1>2. UNCHANGED scopes  BY DEF SearchEnds
<1>3. CASE LookupEnds(n)
  <2> DEFINE slot == IF n = 0 THEN NoAnswer
                     ELSE entries[Top.key][n].results[Top.val[2]]
             r == [Top EXCEPT !.pc = "charge", !.entry = n]
  <2>1. \/ Return(slot)
        \/ Become(r) /\ UNCHANGED <<answer, active, memo>>
    BY <1>3 DEF LookupEnds
  <2>2. /\ r.val = Top.val /\ r.freezesAt = Top.freezesAt
        /\ r.framesAt = Top.framesAt /\ r.results = Top.results
    BY <1>1 DEF Activation
  <2> HIDE DEF slot, r
  <2>3. CASE Return(slot)  BY <1>2, <2>3, ReturnPops
  <2>4. CASE Become(r) /\ UNCHANGED <<answer, active, memo>>
    BY <1>2, <2>2, <2>4 DEF Moves, MovesTo
  <2> QED  BY <2>1, <2>3, <2>4
<1>4. CASE InsertEnds(n)
  <2>1. CASE StoreNew(Top.results)
    BY <1>2, <2>1, EvaluatedPops DEF StoreNew
  <2>2. CASE StoreIn(n, Top.results)
    BY <1>2, <2>2, EvaluatedPops DEF StoreIn
  <2> QED  BY <1>4, <2>1, <2>2 DEF InsertEnds
<1> QED  BY <1>3, <1>4 DEF SearchEnds

(* A search goes on with the next candidate, or in its comparison.         *)
LEMMA SearchMovesKind ==
  ASSUME TypeInv, stack # <<>>, Top.pc # "evaluate", UNCHANGED <<active, scopes>>,
         NextCandidate \/ Become([Top EXCEPT !.pc = "compare"])
  PROVE  Moves
<1>1. Top \in Activation  BY TopFacts
<1>2. CASE NextCandidate
  <2> DEFINE r == [Top EXCEPT !.pc = "search", !.next = @ + 1]
  <2>1. /\ r.val = Top.val /\ r.freezesAt = Top.freezesAt
        /\ r.framesAt = Top.framesAt /\ r.results = Top.results
    BY <1>1 DEF Activation
  <2>2. Become(r)  BY <1>2 DEF NextCandidate
  <2> HIDE DEF r
  <2> QED  BY <2>1, <2>2 DEF Moves, MovesTo
<1>3. CASE Become([Top EXCEPT !.pc = "compare"])
  <2> DEFINE r == [Top EXCEPT !.pc = "compare"]
  <2>1. /\ r.val = Top.val /\ r.freezesAt = Top.freezesAt
        /\ r.framesAt = Top.framesAt /\ r.results = Top.results
    BY <1>1 DEF Activation
  <2> HIDE DEF r
  <2> QED  BY <1>3, <2>1 DEF Moves, MovesTo, r
<1> QED  BY <1>2, <1>3

LEMMA SearchKind ==
  ASSUME TypeInv,
         \/ SearchMiss \/ SearchOwn \/ SearchSkip \/ SearchCompare
         \/ \E e \in BOOLEAN : CompareReturn(e)
  PROVE  Pops \/ Moves
<1>1. stack # <<>> /\ Top.pc # "evaluate"
  BY DEF SearchMiss, SearchOwn, SearchSkip, SearchCompare, CompareReturn, At
<1>2. \/ \E n : SearchEnds(n)
      \/ /\ NextCandidate \/ Become([Top EXCEPT !.pc = "compare"])
         /\ UNCHANGED <<active, scopes>>
  BY DEF SearchMiss, SearchOwn, SearchSkip, SearchCompare, CompareReturn
<1> QED  BY <1>1, <1>2, SearchEndsKind, SearchMovesKind

LEMMA KeyKind ==
  ASSUME TypeInv,
         \/ \E e \in BOOLEAN : Eligible(e)
         \/ \E k \in Key : HashReturn(k)
         \/ \E s \in Signal : KeySignal(s)
         \/ Charge
  PROVE  Pops \/ Moves
<1>1. stack # <<>> /\ Top.pc # "evaluate" /\ UNCHANGED scopes
  BY DEF Eligible, HashReturn, KeySignal, Charge, At
<1>2. Top \in Activation  BY <1>1, TopFacts
<1>3. ASSUME NEW p, Become([Top EXCEPT !.pc = p]), UNCHANGED active PROVE Moves
  <2> DEFINE r == [Top EXCEPT !.pc = p]
  <2>1. /\ r.val = Top.val /\ r.freezesAt = Top.freezesAt
        /\ r.framesAt = Top.framesAt /\ r.results = Top.results
    BY <1>2 DEF Activation
  <2> HIDE DEF r
  <2> QED  BY <1>1, <1>3, <2>1 DEF Moves, MovesTo, r
<1>4. CASE \E e \in BOOLEAN : Eligible(e)  BY <1>3, <1>4 DEF Eligible
<1>5. ASSUME NEW k \in Key, HashReturn(k) PROVE Moves
  <2> DEFINE r == [Top EXCEPT !.pc = "search", !.key = k]
  <2>1. /\ r.val = Top.val /\ r.freezesAt = Top.freezesAt
        /\ r.framesAt = Top.framesAt /\ r.results = Top.results
    BY <1>2 DEF Activation
  <2>2. Become(r) /\ UNCHANGED active  BY <1>5 DEF HashReturn
  <2> HIDE DEF r
  <2> QED  BY <1>1, <2>1, <2>2 DEF Moves, MovesTo
<1>6. CASE \E s \in Signal : KeySignal(s)
  BY <1>1, <1>6, ReturnPops DEF KeySignal
<1>7. CASE Charge  BY <1>1, <1>3, <1>7, ReturnPops DEF Charge
<1> QED  BY <1>4, <1>5, <1>6, <1>7

LEMMA EvaluateKind ==
  ASSUME TypeInv, stack # <<>>, NEW results, EvaluateReturn(results)
  PROVE  Pops \/ Moves
<1>1. Balanced /\ UNCHANGED scopes /\ Top \in Activation
  BY TopFacts DEF EvaluateReturn
<1>2. CASE ReturnEvaluated(results, NoEntry(TopOp))
  BY <1>1, <1>2, EvaluatedPops
<1>3. CASE StoreIn(Top.entry, results)
  BY <1>1, <1>3, EvaluatedPops DEF StoreIn
<1>4. CASE /\ Stores(results) /\ UNCHANGED active
           /\ Become([Top EXCEPT !.pc = "search", !.results = results])
  <2> DEFINE r == [Top EXCEPT !.pc = "search", !.results = results]
  <2>1. r.val = Top.val /\ r.freezesAt = Top.freezesAt /\ r.framesAt = Top.framesAt
    BY <1>1 DEF Activation
  <2>2. freezes = 0  BY <1>4 DEF Stores, Thawed
  <2> HIDE DEF r
  <2> QED  BY <1>1, <1>4, <2>1, <2>2 DEF Moves, MovesTo, r
<1> QED  BY <1>2, <1>3, <1>4 DEF EvaluateReturn

LEMMA AskKind ==
  ASSUME StackInv, NEW v \in Value, Ask(v)
  PROVE  Stays \/ Pushes
BY DEF Ask, QueryMemoized, QueryLeaf, QueryCycle, QueryEnter, InProgress, Stays,
   Pushes

LEMMA HostKind ==
  ASSUME TypeInv, StackInv, Host
  PROVE  Stays \/ Pushes
<1>1. CASE EndQuery \/ ClearCache  BY <1>1 DEF EndQuery, ClearCache, Stays
<1>2. ASSUME NEW v \in Value, NEW b \in Budgets, Query(v, b)
      PROVE  Stays \/ Pushes
  <2>1. stack = <<>>  BY <1>2 DEF Query, TypeInv, Idle
  <2>2. active = {}  BY <2>1 DEF StackInv, CycleGuard
  <2> QED  BY <1>2, <2>2 DEF Query, Stays, Pushes
<1> QED  BY <1>1, <1>2 DEF Host

LEMMA StepKinds ==
  ASSUME TypeInv, StackInv, [Next]_vars
  PROVE  Stays \/ Pushes \/ Pops \/ Moves \/ Nests
<1>1. CASE Host  BY <1>1, HostKind
<1>2. CASE ScopeCall
  BY <1>2, AskKind DEF ScopeCall, DeclareCost, Stays, Nests, Binds
<1>3. CASE CallbackReturn
  BY <1>3, KeyKind, SearchKind, EvaluateKind DEF CallbackReturn
<1>4. CASE Internal  BY <1>4, KeyKind, SearchKind DEF Internal
<1>5. CASE UNCHANGED vars  BY <1>5 DEF vars, Stays
<1> QED  BY <1>1, <1>2, <1>3, <1>4, <1>5 DEF Next

-----------------------------------------------------------------------------
(* StackInv is inductive, one lemma per kind of step.                      *)

LEMMA Sizes ==
  ASSUME TypeInv
  PROVE  /\ Len(stack) \in Nat /\ DOMAIN stack = 1..Len(stack)
         /\ Len(frames) \in Nat /\ DOMAIN frames = 1..Len(frames)
         /\ freezes \in Nat
         /\ \A i \in 1..Len(stack) :
              /\ stack[i] \in Activation
              /\ stack[i].freezesAt \in Nat /\ stack[i].framesAt \in Nat
         /\ stack = <<>> <=> Len(stack) = 0
<1>1. stack \in Seq(Activation) /\ frames \in Seq(Block) /\ freezes \in Nat
  BY DEF TypeInv, TypeOK
<1>2. \A i \in 1..Len(stack) : stack[i] \in Activation
  BY <1>1, ElementOfSeq
<1> QED  BY <1>1, <1>2, LenProperties, EmptySeq DEF Activation

LEMMA StaysKeeps ==
  ASSUME StackInv, Stays
  PROVE  StackInv'
BY DEF StackInv, Stays, scopes, StackDiscipline, FreezesAbove, FramesAbove,
   CycleGuard, FrameOwners, Bound, NoneFrozen

LEMMA PushesKeeps ==
  ASSUME TypeInv, StackInv, Pushes
  PROVE  StackInv'
<1> PICK v \in Result : v[1] \notin active /\ Activate(v) /\ UNCHANGED scopes
  BY DEF Pushes
<1> PICK n : n = Len(stack)  OBVIOUS
<1>1. n \in Nat /\ DOMAIN stack = 1..n /\ Len(frames) \in Nat /\ freezes \in Nat
      /\ (stack = <<>> <=> n = 0)
  BY Sizes
<1>2. /\ Len(stack') = n + 1 /\ DOMAIN stack' = 1..(n + 1)
      /\ \A i \in 1..n : stack'[i] = stack[i]
      /\ stack'[n + 1].val = v /\ stack'[n + 1].pc = "isCacheable"
      /\ stack'[n + 1].results = <<>>
      /\ stack'[n + 1].freezesAt = freezes
      /\ stack'[n + 1].framesAt = Len(frames)
  <2> DEFINE r == [val |-> v, pc |-> "isCacheable", key |-> Null, next |-> 1,
                   entry |-> 0, results |-> <<>>, freezesAt |-> freezes,
                   framesAt |-> Len(frames)]
  <2>1. /\ Len(stack') = n + 1 /\ DOMAIN stack' = 1..(n + 1)
        /\ \A i \in 1..n : stack'[i] = stack[i]
        /\ stack'[n + 1] = r
    BY PushFacts
  <2> QED  BY <2>1
<1>3. UNCHANGED <<freezes, frames>>  BY DEF scopes
<1>4. /\ \A i \in 1..n : FreezesAbove(i)' = FreezesAbove(i)
                         /\ FramesAbove(i)' = FramesAbove(i)
      /\ FreezesAbove(n + 1)' = freezes /\ FramesAbove(n + 1)' = Len(frames)
  BY <1>1, <1>2, <1>3 DEF FreezesAbove, FramesAbove
<1>5. StackDiscipline'
  <2>1. stack'[1].freezesAt = 0 /\ stack'[1].framesAt = 0
    <3>1. CASE n = 0
      <4>1. freezes = 0  BY <1>1, <3>1 DEF StackInv, NoneFrozen
      <4>2. DOMAIN stack = {}  BY <1>1, <3>1
      <4>3. DOMAIN frames = {}  BY <4>2 DEF StackInv, FrameOwners
      <4>4. Len(frames) = 0  BY <1>1, <4>3, Sizes
      <4> QED  BY <1>2, <3>1, <4>1, <4>4
    <3>2. CASE n # 0
      BY <1>1, <1>2, <3>2 DEF StackInv, StackDiscipline
    <3> QED  BY <3>1, <3>2
  <2>2. ASSUME NEW i \in 1..n
        PROVE  LET r == stack'[i]
               IN /\ r.freezesAt <= FreezesAbove(i)' /\ r.framesAt <= FramesAbove(i)'
                  /\ r.pc # "evaluate" => /\ r.freezesAt = FreezesAbove(i)'
                                          /\ r.framesAt = FramesAbove(i)'
                  /\ r.results # <<>> => r.freezesAt = 0
    BY <1>1, <1>2, <1>4 DEF StackInv, StackDiscipline
  <2> QED  BY <1>1, <1>2, <1>4, <2>1, <2>2 DEF StackDiscipline
<1>6. CycleGuard'
  <2>1. active' = active \cup {v[1]}  BY DEF Activate
  <2>2. \A i \in 1..n : stack[i].val[1] \in active
    BY <1>1 DEF StackInv, CycleGuard
  <2>3. active' = {stack'[i].val[1] : i \in DOMAIN stack'}
    BY <1>1, <1>2, <2>1 DEF StackInv, CycleGuard
  <2>4. \A i, j \in 1..n : stack[i].val[1] = stack[j].val[1] => i = j
    BY <1>1 DEF StackInv, CycleGuard
  <2>5. \A i, j \in 1..(n + 1) : stack'[i].val[1] = stack'[j].val[1] => i = j
    BY <1>1, <1>2, <2>2, <2>4
  <2> QED  BY <1>2, <2>3, <2>5 DEF CycleGuard
<1>7. FrameOwners'
  <2> SUFFICES ASSUME NEW j \in DOMAIN frames
               PROVE  \E i \in DOMAIN stack' : /\ Bound(j, i)'
                                               /\ Owner[frames[j]] = stack'[i].val[1]
    BY <1>3 DEF FrameOwners
  <2>1. PICK i \in DOMAIN stack : Bound(j, i) /\ Owner[frames[j]] = stack[i].val[1]
    BY DEF StackInv, FrameOwners
  <2> QED  BY <1>1, <1>2, <1>4, <2>1 DEF Bound
<1>8. NoneFrozen'  BY <1>1, <1>2, EmptySeq DEF NoneFrozen
<1> QED  BY <1>5, <1>6, <1>7, <1>8 DEF StackInv

LEMMA PopsKeeps ==
  ASSUME TypeInv, StackInv, Pops
  PROVE  StackInv'
<1> PICK n : n = Len(stack)  OBVIOUS
<1>1. n \in Nat \ {0} /\ DOMAIN stack = 1..n /\ Len(frames) \in Nat
      /\ freezes \in Nat /\ Top = stack[n]
      /\ \A i \in 1..n : stack[i].freezesAt \in Nat /\ stack[i].framesAt \in Nat
  BY Sizes DEF Pops, Top
<1>2. Len(stack') = n - 1 /\ DOMAIN stack' = 1..(n - 1)
      /\ \A i \in 1..(n - 1) : stack'[i] = stack[i]
  BY PopFacts DEF Pops
<1>3. UNCHANGED <<freezes, frames>>  BY DEF Pops, scopes
<1>4. Top.freezesAt = freezes /\ Top.framesAt = Len(frames)
  BY <1>1 DEF Pops, Balanced, StackInv, StackDiscipline, FreezesAbove, FramesAbove
<1>5. \A i \in 1..(n - 1) : /\ FreezesAbove(i)' = FreezesAbove(i)
                           /\ FramesAbove(i)' = FramesAbove(i)
  BY <1>1, <1>2, <1>3, <1>4 DEF FreezesAbove, FramesAbove
<1>6. StackDiscipline'
  <2>1. ASSUME stack' # <<>>
        PROVE  stack'[1].freezesAt = 0 /\ stack'[1].framesAt = 0
    <3>1. n - 1 # 0  BY <1>1, <1>2, <2>1, PopFacts, EmptySeq DEF Pops
    <3> QED  BY <1>1, <1>2, <3>1, Sizes DEF StackInv, StackDiscipline, Pops
  <2>2. ASSUME NEW i \in 1..(n - 1)
        PROVE  LET r == stack'[i]
               IN /\ r.freezesAt <= FreezesAbove(i)' /\ r.framesAt <= FramesAbove(i)'
                  /\ r.pc # "evaluate" => /\ r.freezesAt = FreezesAbove(i)'
                                          /\ r.framesAt = FramesAbove(i)'
                  /\ r.results # <<>> => r.freezesAt = 0
    <3>1. i \in DOMAIN stack /\ stack'[i] = stack[i]  BY <1>1, <1>2
    <3> QED  BY <1>5, <3>1 DEF StackInv, StackDiscipline
  <2> QED  BY <1>2, <2>1, <2>2 DEF StackDiscipline
<1>7. CycleGuard'
  <2>1. active' = active \ {stack[n].val[1]}  BY <1>1 DEF Pops, TopOp
  <2>2. \A i, j \in 1..n : stack[i].val[1] = stack[j].val[1] => i = j
    BY <1>1 DEF StackInv, CycleGuard
  <2>3. active = {stack[i].val[1] : i \in 1..n}  BY <1>1 DEF StackInv, CycleGuard
  <2>4. active' = {stack[i].val[1] : i \in 1..(n - 1)}
    BY <1>1, <2>1, <2>2, <2>3
  <2>5. active' = {stack'[i].val[1] : i \in DOMAIN stack'}  BY <1>2, <2>4
  <2>6. \A i, j \in 1..(n - 1) : stack'[i].val[1] = stack'[j].val[1] => i = j
    <3>1. 1..(n - 1) \subseteq 1..n
      <4>1. n \in Nat  BY <1>1
      <4> QED  BY <4>1
    <3>2. \A i \in 1..(n - 1) : stack'[i] = stack[i]  BY <1>2
    <3> QED  BY <2>2, <3>1, <3>2
  <2> QED  BY <1>2, <2>5, <2>6 DEF CycleGuard
<1>8. FrameOwners'
  <2> SUFFICES ASSUME NEW j \in DOMAIN frames
               PROVE  \E i \in DOMAIN stack' : /\ Bound(j, i)'
                                               /\ Owner[frames[j]] = stack'[i].val[1]
    BY <1>3 DEF FrameOwners
  <2>1. PICK i \in DOMAIN stack : Bound(j, i) /\ Owner[frames[j]] = stack[i].val[1]
    BY DEF StackInv, FrameOwners
  <2>2. j \in 1..Len(frames)  BY Sizes
  <2>3. FramesAbove(n) = Len(frames)  BY DEF FramesAbove
  <2>4. i # n  BY <1>1, <1>4, <2>1, <2>2, <2>3 DEF Bound
  <2>5. i \in 1..(n - 1)  BY <1>1, <2>4
  <2>6. stack'[i] = stack[i] /\ FramesAbove(i)' = FramesAbove(i)  BY <1>2, <1>5, <2>5
  <2>7. Bound(j, i)'  BY <2>1, <2>6 DEF Bound
  <2> QED  BY <1>2, <2>1, <2>5, <2>6, <2>7
<1>9. NoneFrozen'
  <2>1. ASSUME stack' = <<>> PROVE freezes' = 0
    <3>1. n - 1 = 0  BY <1>1, <1>2, <2>1, EmptySeq
    <3>2. n = 1
      <4>1. n \in Nat \ {0}  BY <1>1
      <4> QED  BY <3>1, <4>1
    <3>3. stack[1].freezesAt = 0  BY <1>1 DEF StackInv, StackDiscipline, Pops
    <3> QED  BY <1>1, <1>3, <1>4, <3>2, <3>3
  <2> QED  BY <2>1 DEF NoneFrozen
<1> QED  BY <1>6, <1>7, <1>8, <1>9 DEF StackInv

LEMMA MovesKeeps ==
  ASSUME TypeInv, TypeInv', StackInv, Moves
  PROVE  StackInv'
<1> PICK r : MovesTo(r)  BY DEF Moves
<1> PICK n : n = Len(stack)  OBVIOUS
<1>1. n \in Nat \ {0} /\ DOMAIN stack = 1..n /\ Len(frames) \in Nat
      /\ freezes \in Nat /\ Top = stack[n]
  BY Sizes DEF Moves, Top
<1>2. /\ DOMAIN stack' = 1..n
      /\ \A i \in 1..n : stack'[i] = IF i = n THEN r ELSE stack[i]
  BY <1>1 DEF MovesTo, Become
<1>3. Len(stack') = n
  <2>1. stack' \in Seq(Activation)  BY DEF TypeInv, TypeOK
  <2> QED  BY <1>1, <1>2, <2>1, LenProperties
<1>4. UNCHANGED <<freezes, frames, active>>  BY DEF Moves, scopes
<1>5. Top.freezesAt = freezes /\ Top.framesAt = Len(frames)
  BY <1>1 DEF Moves, Balanced, StackInv, StackDiscipline, FreezesAbove, FramesAbove
<1>6. /\ r.val = stack[n].val /\ r.freezesAt = freezes
      /\ r.framesAt = Len(frames)
      /\ r.results # stack[n].results => freezes = 0
      /\ stack[n].freezesAt = freezes /\ stack[n].framesAt = Len(frames)
  BY <1>1, <1>5 DEF MovesTo
<1>7. \A i \in 1..n : /\ FreezesAbove(i)' = FreezesAbove(i)
                     /\ FramesAbove(i)' = FramesAbove(i)
  BY <1>1, <1>2, <1>3, <1>4, <1>6 DEF FreezesAbove, FramesAbove
<1>8. FreezesAbove(n) = freezes /\ FramesAbove(n) = Len(frames)
  BY DEF FreezesAbove, FramesAbove
<1>9. StackDiscipline'
  <2>1. stack'[1].freezesAt = 0 /\ stack'[1].framesAt = 0
    BY <1>1, <1>2, <1>6, Sizes DEF StackInv, StackDiscipline, Moves
  <2>2. ASSUME NEW i \in 1..n
        PROVE  LET q == stack'[i]
               IN /\ q.freezesAt <= FreezesAbove(i)' /\ q.framesAt <= FramesAbove(i)'
                  /\ q.pc # "evaluate" => /\ q.freezesAt = FreezesAbove(i)'
                                          /\ q.framesAt = FramesAbove(i)'
                  /\ q.results # <<>> => q.freezesAt = 0
    <3>1. CASE i = n
      <4>1. r.results # <<>> => freezes = 0
        BY <1>1, <1>6 DEF StackInv, StackDiscipline
      <4> QED  BY <1>1, <1>2, <1>6, <1>7, <1>8, <3>1, <4>1
    <3>2. CASE i # n
      BY <1>1, <1>2, <1>7, <3>2 DEF StackInv, StackDiscipline
    <3> QED  BY <3>1, <3>2
  <2> QED  BY <1>2, <2>1, <2>2 DEF StackDiscipline
<1>10. \A i \in 1..n : stack'[i].val = stack[i].val  BY <1>2, <1>6
<1>11. CycleGuard'
  BY <1>1, <1>2, <1>4, <1>10 DEF StackInv, CycleGuard
<1>12. FrameOwners'
  <2> SUFFICES ASSUME NEW j \in DOMAIN frames
               PROVE  \E i \in DOMAIN stack' : /\ Bound(j, i)'
                                               /\ Owner[frames[j]] = stack'[i].val[1]
    BY <1>4 DEF FrameOwners
  <2>1. PICK i \in DOMAIN stack : Bound(j, i) /\ Owner[frames[j]] = stack[i].val[1]
    BY DEF StackInv, FrameOwners
  <2>2. stack'[i].framesAt = stack[i].framesAt  BY <1>1, <1>2, <1>6
  <2> QED  BY <1>1, <1>2, <1>7, <1>10, <2>1, <2>2 DEF Bound
<1>13. NoneFrozen'  BY <1>1, <1>3, EmptySeq DEF NoneFrozen
<1> QED  BY <1>9, <1>11, <1>12, <1>13 DEF StackInv

(* The freezes and frames above the innermost activation's change.         *)
LEMMA NestsKeeps ==
  ASSUME TypeInv, TypeInv', StackInv, Nests
  PROVE  StackInv'
<1> PICK n : n = Len(stack)  OBVIOUS
<1>1. At("evaluate") /\ UNCHANGED <<stack, active>>
  BY DEF Nests, Freeze, Unfreeze, Unbind, Binds, Bind
<1>2. n \in Nat \ {0} /\ DOMAIN stack = 1..n /\ Top = stack[n]
      /\ Len(frames) \in Nat /\ DOMAIN frames = 1..Len(frames) /\ freezes \in Nat
      /\ \A i \in 1..n : stack[i].freezesAt \in Nat /\ stack[i].framesAt \in Nat
  BY <1>1, Sizes DEF At, Top
<1>3. freezes' \in Nat /\ freezes' >= Top.freezesAt
  <2>1. freezes >= Top.freezesAt
    BY <1>2 DEF StackInv, StackDiscipline, FreezesAbove
  <2> QED  BY <1>2, <2>1 DEF Nests, Freeze, Unfreeze, Unbind, Binds, Bind
<1>4. Len(frames) >= Top.framesAt
  BY <1>2 DEF StackInv, StackDiscipline, FramesAbove
<1>5. /\ Len(frames') \in Nat /\ Len(frames') >= Top.framesAt
      /\ DOMAIN frames' = 1..Len(frames')
      /\ \A j \in 1..Len(frames') :
           \/ j \in 1..Len(frames) /\ frames'[j] = frames[j]
           \/ j = Len(frames) + 1 /\ Owner[frames'[j]] = TopOp
  <2>1. frames \in Seq(Block)  BY DEF TypeInv, TypeOK
  <2>2. CASE UNCHANGED frames  BY <1>2, <1>4, <2>2
  <2>3. CASE Unbind
    <3>1. Len(frames) > Top.framesAt
          /\ frames' = SubSeq(frames, 1, Len(frames) - 1)
      BY <2>3 DEF Unbind
    <3>2. \A i \in 1..(Len(frames) - 1) : frames[i] \in Block
      BY <1>2, <2>1, ElementOfSeq
    <3>3. /\ frames' \in Seq(Block)
          /\ Len(frames') = IF 1 <= Len(frames) - 1
                            THEN (Len(frames) - 1) - 1 + 1 ELSE 0
          /\ \A i \in 1..((Len(frames) - 1) - 1 + 1) : frames'[i] = frames[1 + i - 1]
      BY <1>2, <3>1, <3>2, SubSeqProperties
    <3>4. Len(frames') = Len(frames) - 1  BY <1>2, <3>1, <3>3
    <3>5. DOMAIN frames' = 1..Len(frames')  BY <3>3, LenProperties
    <3> QED  BY <1>2, <3>1, <3>3, <3>4, <3>5
  <2>4. CASE Binds
    <3>1. PICK b \in Block : frames' = Append(frames, b) /\ Owner[b] = TopOp
      BY <2>4 DEF Binds, Bind
    <3>2. /\ frames' \in Seq(Block) /\ Len(frames') = Len(frames) + 1
          /\ \A j \in 1..Len(frames) : frames'[j] = frames[j]
          /\ frames'[Len(frames) + 1] = b
      BY <2>1, <3>1, AppendProperties
    <3>3. DOMAIN frames' = 1..Len(frames')  BY <3>2, LenProperties
    <3>4. stack[n].framesAt \in Nat  BY <1>2
    <3>5. Len(frames') \in Nat /\ Len(frames') >= Top.framesAt
      BY <1>2, <1>4, <3>2, <3>4
    <3>6. ASSUME NEW j \in 1..Len(frames')
          PROVE  \/ j \in 1..Len(frames) /\ frames'[j] = frames[j]
                 \/ j = Len(frames) + 1 /\ Owner[frames'[j]] = TopOp
      <4>1. j \in 1..Len(frames) \/ j = Len(frames) + 1  BY <1>2, <3>2
      <4> QED  BY <3>1, <3>2, <4>1
    <3> QED  BY <3>3, <3>5, <3>6
  <2>5. UNCHANGED frames \/ Unbind \/ Binds  BY DEF Nests, Freeze, Unfreeze
  <2> QED  BY <2>2, <2>3, <2>4, <2>5
<1>6. /\ \A i \in 1..(n - 1) : /\ FreezesAbove(i)' = FreezesAbove(i)
                              /\ FramesAbove(i)' = FramesAbove(i)
      /\ FreezesAbove(n)' = freezes' /\ FramesAbove(n)' = Len(frames')
      /\ FramesAbove(n) = Len(frames)
  BY <1>1, <1>2 DEF FreezesAbove, FramesAbove
<1>7. StackDiscipline'
  <2>1. stack'[1].freezesAt = 0 /\ stack'[1].framesAt = 0
    BY <1>1, <1>2 DEF StackInv, StackDiscipline, At
  <2>2. ASSUME NEW i \in 1..n
        PROVE  LET q == stack'[i]
               IN /\ q.freezesAt <= FreezesAbove(i)' /\ q.framesAt <= FramesAbove(i)'
                  /\ q.pc # "evaluate" => /\ q.freezesAt = FreezesAbove(i)'
                                          /\ q.framesAt = FramesAbove(i)'
                  /\ q.results # <<>> => q.freezesAt = 0
    <3>1. CASE i = n
      <4>1. stack[n].results # <<>> => stack[n].freezesAt = 0
        BY <1>2 DEF StackInv, StackDiscipline
      <4> QED  BY <1>1, <1>2, <1>3, <1>5, <1>6, <3>1, <4>1 DEF At
    <3>2. CASE i # n
      BY <1>1, <1>2, <1>6, <3>2 DEF StackInv, StackDiscipline
    <3> QED  BY <3>1, <3>2
  <2> QED  BY <1>1, <1>2, <2>1, <2>2 DEF StackDiscipline
<1>8. CycleGuard'  BY <1>1 DEF StackInv, CycleGuard
<1>9. FrameOwners'
  <2> SUFFICES ASSUME NEW j \in 1..Len(frames')
               PROVE  \E i \in DOMAIN stack : /\ Bound(j, i)'
                                              /\ Owner[frames'[j]] = stack[i].val[1]
    BY <1>1, <1>5 DEF FrameOwners
  <2>1. CASE j \in 1..Len(frames) /\ frames'[j] = frames[j]
    <3>1. PICK i \in DOMAIN stack : Bound(j, i) /\ Owner[frames[j]] = stack[i].val[1]
      BY <1>2, <2>1 DEF StackInv, FrameOwners
    <3>2. stack[i].framesAt < j /\ j <= FramesAbove(i)  BY <3>1 DEF Bound
    <3>3. j <= FramesAbove(i)'
      <4>1. CASE i = n  BY <1>6, <4>1
      <4>2. CASE i # n
        <5>1. i \in 1..(n - 1)  BY <1>2, <4>2
        <5>2. FramesAbove(i)' = FramesAbove(i)  BY <1>6, <5>1
        <5> QED  BY <3>2, <5>2
      <4> QED  BY <4>1, <4>2
    <3>4. stack'[i] = stack[i]  BY <1>1
    <3> QED  BY <2>1, <3>1, <3>2, <3>3, <3>4 DEF Bound
  <2>2. CASE j = Len(frames) + 1 /\ Owner[frames'[j]] = TopOp
    <3>1. stack[n].framesAt < j /\ j <= Len(frames')  BY <1>2, <1>4, <2>2
    <3> QED  BY <1>1, <1>2, <1>6, <2>2, <3>1 DEF Bound, TopOp
  <2> QED  BY <1>5, <2>1, <2>2
<1>10. NoneFrozen'  BY <1>1 DEF NoneFrozen, At
<1> QED  BY <1>7, <1>8, <1>9, <1>10 DEF StackInv

LEMMA StackStep == TypeInv /\ TypeInv' /\ StackInv /\ [Next]_vars => StackInv'
BY StepKinds, StaysKeeps, PushesKeeps, PopsKeeps, MovesKeeps, NestsKeeps

LEMMA InitStack == Init => StackInv
<1> SUFFICES ASSUME Init PROVE StackInv  OBVIOUS
<1>1. stack = <<>> /\ frames = <<>> /\ freezes = 0 /\ active = {}  BY DEF Init
<1>2. DOMAIN stack = {} /\ DOMAIN frames = {}  BY <1>1, EmptySeq
<1> QED  BY <1>1, <1>2 DEF StackInv, StackDiscipline, CycleGuard, FrameOwners,
            NoneFrozen

THEOREM StackInvariant == Spec => []StackInv
<1>1. TypeInv /\ StackInv /\ [Next]_vars => (TypeInv /\ StackInv)'
  BY TypeStep, StackStep
<1> QED  BY <1>1, InitType, InitStack, PTL DEF Spec

(* The cycle guard of compute: the operations marked active are those on   *)
(* the stack, each once, for whatever callbacks re-enter the engine.       *)
THEOREM NeverInsideItself == Spec => []CycleGuard
BY StackInvariant, PTL DEF StackInv

(* Every activation finds the freezes and frames it entered with, although *)
(* evaluate returns early from inside its loops.                           *)
THEOREM ScopesNest == Spec => []StackDiscipline
BY StackInvariant, PTL DEF StackInv

(* The assertions at the end of query.                                     *)
THEOREM QueriesEndClean == Spec => []QueryEndsClean
<1>1. TypeInv /\ StackInv => QueryEndsClean
  <2> SUFFICES ASSUME TypeInv, StackInv, stack = <<>>
               PROVE  frames = <<>> /\ freezes = 0 /\ active = {}
    BY DEF QueryEndsClean
  <2>1. DOMAIN stack = {}  BY EmptySeq
  <2>2. freezes = 0 /\ active = {} /\ DOMAIN frames = {}
    BY <2>1 DEF StackInv, NoneFrozen, CycleGuard, FrameOwners
  <2>3. frames = <<>>  BY <2>2, EmptySeq, Sizes DEF TypeInv, TypeOK
  <2> QED  BY <2>2, <2>3
<1> QED  BY <1>1, TypeInvariant, StackInvariant, PTL
-----------------------------------------------------------------------------
(* Bindings, memoized answers and freezes.                                 *)


(* A memoized answer is listed by a frame that is still bound, the         *)
(* innermost of those that contained its definition.                       *)
MemoHeld ==
  \A v \in Value : /\ memo[v].frame <= Len(frames)
                   /\ memo[v].under \subseteq 1..memo[v].frame
ScopeInv == BoundOnce /\ BindingsFollowFrames /\ MemoHeld

-----------------------------------------------------------------------------
(* What a step does to the memo and the bindings.                          *)

MemoGrows ==
  \A v \in Value :
    \/ memo'[v] = memo[v]
    \/ /\ memo[v] = NotMemoized
       /\ memo'[v].frame = Holder(v) /\ memo'[v].under = Containing(v)
Memoizes == UNCHANGED <<frames, bindings>> /\ MemoGrows

LEMMA MemoizeAllGrows == ASSUME NEW f, MemoizeAll(f) PROVE MemoGrows
BY DEF MemoizeAll, MemoGrows, Memoizable

LEMMA ReturnGrows == ASSUME NEW a, Return(a) PROVE MemoGrows
BY MemoizeAllGrows DEF Return, MemoGrows

LEMMA EvaluatedGrows ==
  ASSUME NEW results, NEW e, ReturnEvaluated(results, e) PROVE MemoGrows
BY MemoizeAllGrows DEF ReturnEvaluated

LEMMA SearchEndsGrows == ASSUME NEW n, SearchEnds(n) PROVE Memoizes
<1>1. UNCHANGED <<frames, bindings>>  BY DEF SearchEnds, scopes
<1>2. CASE LookupEnds(n)
  <2>1. (\E a : Return(a)) \/ UNCHANGED memo  BY <1>2 DEF LookupEnds
  <2>2. MemoGrows  BY <2>1, ReturnGrows DEF MemoGrows
  <2> QED  BY <1>1, <2>2 DEF Memoizes
<1>3. CASE InsertEnds(n)
  BY <1>1, <1>3, EvaluatedGrows DEF InsertEnds, StoreNew, StoreIn, Memoizes
<1> QED  BY <1>1, <1>2, <1>3 DEF SearchEnds, Memoizes

LEMMA MemoKinds ==
  ASSUME [Next]_vars
  PROVE  Memoizes \/ EndQuery \/ Unbind \/ Binds
<1>1. UNCHANGED <<frames, bindings, memo>> => Memoizes
  BY DEF Memoizes, MemoGrows
<1>2. CASE Host
  BY <1>1, <1>2 DEF Host, Query, ClearCache, scopes
<1>3. CASE ScopeCall
  <2>1. ASSUME NEW v \in Value, Ask(v) PROVE Memoizes
    <3>1. CASE QueryLeaf(v)
      BY <3>1, MemoizeAllGrows DEF QueryLeaf, Memoizes, scopes
    <3> QED
      BY <1>1, <2>1, <3>1 DEF Ask, QueryMemoized, QueryCycle, QueryEnter, scopes
  <2> QED
    BY <1>1, <1>3, <2>1 DEF ScopeCall, DeclareCost, Freeze, Unfreeze, Binds, scopes
<1>4. CASE CallbackReturn
  <2>1. ASSUME NEW e \in BOOLEAN, Eligible(e) \/ CompareReturn(e) PROVE Memoizes
    BY <1>1, <2>1, SearchEndsGrows DEF Eligible, CompareReturn, scopes
  <2>2. ASSUME NEW s \in Signal, KeySignal(s) PROVE Memoizes
    BY <2>2, ReturnGrows DEF KeySignal, Memoizes, scopes
  <2>3. ASSUME NEW results, EvaluateReturn(results) PROVE Memoizes
    <3>1. UNCHANGED <<frames, bindings>>  BY <2>3 DEF EvaluateReturn, scopes
    <3>2. MemoGrows
      BY <2>3, EvaluatedGrows DEF EvaluateReturn, StoreIn, MemoGrows
    <3> QED  BY <3>1, <3>2 DEF Memoizes
  <2> QED
    BY <1>1, <1>4, <2>1, <2>2, <2>3 DEF CallbackReturn, HashReturn, scopes
<1>5. CASE Internal
  <2>1. CASE Charge
    BY <1>1, <2>1, ReturnGrows DEF Charge, Memoizes, scopes
  <2> QED
    BY <1>1, <1>5, <2>1, SearchEndsGrows
    DEF Internal, SearchMiss, SearchOwn, SearchSkip, SearchCompare, scopes
<1>6. CASE UNCHANGED vars  BY <1>1, <1>6 DEF vars, scopes
<1> QED  BY <1>2, <1>3, <1>4, <1>5, <1>6 DEF Next

-----------------------------------------------------------------------------
(* ScopeInv is inductive, one lemma per kind of step.                      *)

LEMMA MemoizesKeeps ==
  ASSUME TypeInv, ScopeInv, Memoizes
  PROVE  ScopeInv'
<1>1. UNCHANGED <<frames, bindings>>  BY DEF Memoizes
<1>2. BoundOnce' /\ BindingsFollowFrames'
  BY <1>1 DEF ScopeInv, BoundOnce, BindingsFollowFrames, BoundBlocks
<1>3. ASSUME NEW v \in Value
      PROVE  memo'[v].frame <= Len(frames) /\ memo'[v].under \subseteq 1..memo'[v].frame
  <2>1. CASE memo'[v] = memo[v]  BY <2>1 DEF ScopeInv, MemoHeld
  <2>2. CASE memo'[v].frame = Holder(v) /\ memo'[v].under = Containing(v)
    <3>1. /\ Containing(v) \subseteq 1..Len(frames)
          /\ Holder(v) \in 0..Len(frames)
          /\ \A j \in Containing(v) : j <= Holder(v)
      BY HolderFacts DEF TypeInv, TypeOK
    <3>2. Len(frames) \in Nat  BY Sizes
    <3> QED  BY <2>2, <3>1, <3>2
  <2> QED  BY <2>1, <2>2 DEF Memoizes, MemoGrows
<1>4. MemoHeld'  BY <1>1, <1>3 DEF MemoHeld
<1> QED  BY <1>2, <1>4 DEF ScopeInv

LEMMA EndQueryKeeps ==
  ASSUME TypeInv, ScopeInv, EndQuery
  PROVE  ScopeInv'
<1>1. UNCHANGED <<frames, bindings>>  BY DEF EndQuery, scopes
<1>2. BoundOnce' /\ BindingsFollowFrames'
  BY <1>1 DEF ScopeInv, BoundOnce, BindingsFollowFrames, BoundBlocks
<1>3. MemoHeld'
  <2>1. \A v \in Value : memo'[v].frame = 0 /\ memo'[v].under = {}
    BY DEF EndQuery, NotMemoized
  <2> QED  BY <1>1, <2>1, Sizes DEF MemoHeld
<1> QED  BY <1>2, <1>3 DEF ScopeInv

LEMMA ArgsOfFacts ==
  ASSUME NEW b \in Block
  PROVE  /\ ArgsOf(b) \subseteq Arg
         /\ \A a \in ArgsOf(b) : a[1] = b /\ a[2] \in 1..NumArgs[b]
BY BlockAssumption DEF ArgsOf, Arg

LEMMA UnbindShrinks ==
  ASSUME TypeInv, Unbind
  PROVE  /\ Len(frames) \in Nat \ {0} /\ DOMAIN frames = 1..Len(frames)
         /\ frames \in Seq(Block)
         /\ Len(frames') = Len(frames) - 1 /\ DOMAIN frames' = 1..(Len(frames) - 1)
         /\ \A j \in 1..(Len(frames) - 1) : frames'[j] = frames[j]
         /\ Len(frames') < Len(frames)
<1> PICK m : m = Len(frames)  OBVIOUS
<1>1. /\ m \in Nat \ {0} /\ DOMAIN frames = 1..m /\ frames \in Seq(Block)
      /\ frames' = SubSeq(frames, 1, m - 1)
  <2>1. At("evaluate") /\ m > Top.framesAt /\ frames' = SubSeq(frames, 1, m - 1)
    BY DEF Unbind
  <2>2. Top.framesAt \in Nat  BY <2>1, TopFacts DEF At, Activation
  <2> QED  BY <2>1, <2>2, Sizes DEF TypeInv, TypeOK
<1>2. Len(frames') = m - 1 /\ DOMAIN frames' = 1..(m - 1)
      /\ \A j \in 1..(m - 1) : frames'[j] = frames[j]
  <2>1. \A j \in 1..(m - 1) : frames[j] \in Block  BY <1>1, ElementOfSeq
  <2>2. /\ frames' \in Seq(Block)
        /\ Len(frames') = IF 1 <= m - 1 THEN (m - 1) - 1 + 1 ELSE 0
        /\ \A i \in 1..((m - 1) - 1 + 1) : frames'[i] = frames[1 + i - 1]
    BY <1>1, <2>1, SubSeqProperties
  <2>3. Len(frames') = m - 1
    <3>1. m \in Nat \ {0}  BY <1>1
    <3> QED  BY <2>2, <3>1
  <2>4. ASSUME NEW j \in 1..(m - 1) PROVE frames'[j] = frames[j]
    <3>1. j \in 1..((m - 1) - 1 + 1) /\ 1 + j - 1 = j  BY <1>1
    <3> QED  BY <2>2, <3>1
  <2> QED  BY <2>2, <2>3, <2>4, LenProperties
<1> QED
  <2>1. m - 1 < m
    <3>1. m \in Nat  BY <1>1
    <3> QED  BY <3>1
  <2> QED  BY <1>1, <1>2, <2>1

LEMMA UnbindKeeps ==
  ASSUME TypeInv, ScopeInv, Unbind
  PROVE  ScopeInv'
<1> PICK m : m = Len(frames)  OBVIOUS
<1>1. m \in Nat \ {0} /\ DOMAIN frames = 1..m /\ frames \in Seq(Block)
  BY UnbindShrinks
<1>2. Len(frames') = m - 1 /\ DOMAIN frames' = 1..(m - 1)
      /\ \A j \in 1..(m - 1) : frames'[j] = frames[j]
  BY UnbindShrinks
<1>3. \A i, j \in 1..m : frames[i] = frames[j] => i = j
  BY <1>1 DEF ScopeInv, BoundOnce
<1>4. \A i \in 1..(m - 1) : i \in 1..m  BY <1>1
<1>5. BoundOnce'  BY <1>2, <1>3, <1>4 DEF BoundOnce
<1>6. BindingsFollowFrames'
  <2> DEFINE last == frames[m]
  <2>1. last \in Block  BY <1>1, ElementOfSeq
  <2>2. m \in 1..m /\ \A i \in 1..m : i = m \/ i \in 1..(m - 1)  BY <1>1
  <2>3. m \notin 1..(m - 1)  BY <1>1
  <2>4. BoundBlocks' = BoundBlocks \ {last}
    <3>1. BoundBlocks' = {frames[i] : i \in 1..(m - 1)}  BY <1>2 DEF BoundBlocks
    <3>2. BoundBlocks = {frames[i] : i \in 1..m}  BY <1>1 DEF BoundBlocks
    <3> QED  BY <1>3, <1>4, <2>2, <2>3, <3>1, <3>2
  <2>5. bindings' = [a \in Arg |-> IF a \in ArgsOf(last) THEN NoAnswer
                                   ELSE bindings[a]]
    BY DEF Unbind, Erased
  <2> HIDE DEF last
  <2> SUFFICES ASSUME NEW b \in Block, NEW a \in ArgsOf(b)
               PROVE  bindings'[a] # NoAnswer <=> b \in BoundBlocks'
    BY DEF BindingsFollowFrames, ArgsOf
  <2>6. a \in Arg /\ a[1] = b  BY ArgsOfFacts
  <2>7. bindings[a] # NoAnswer <=> b \in BoundBlocks
    BY DEF ScopeInv, BindingsFollowFrames
  <2>8. a \in ArgsOf(last) <=> b = last  BY <2>1, <2>6, ArgsOfFacts
  <2> QED  BY <2>4, <2>5, <2>6, <2>7, <2>8
<1>7. MemoHeld'
  <2> SUFFICES ASSUME NEW v \in Value
               PROVE  /\ memo'[v].frame <= m - 1
                      /\ memo'[v].under \subseteq 1..memo'[v].frame
    BY <1>2 DEF MemoHeld
  <2>1. memo'[v] = IF memo[v] # NotMemoized /\ memo[v].frame = m
                   THEN NotMemoized ELSE memo[v]
    BY DEF Unbind, ForgetIteration, Forgets
  <2>2. NotMemoized.frame = 0 /\ NotMemoized.under = {}  BY DEF NotMemoized
  <2>3. memo[v].frame \in Nat
    BY <2>2 DEF TypeInv, TypeOK, Memo
  <2>4. memo[v].frame <= m /\ memo[v].under \subseteq 1..memo[v].frame
    BY DEF ScopeInv, MemoHeld
  <2>5. CASE memo[v] = NotMemoized \/ memo[v].frame = m
    <3>1. memo'[v] = NotMemoized  BY <2>1, <2>5
    <3>2. 0 <= m - 1  BY <1>1
    <3> QED  BY <2>2, <3>1, <3>2
  <2>6. CASE memo[v].frame # m /\ memo[v] # NotMemoized
    <3>1. memo'[v] = memo[v]  BY <2>1, <2>6
    <3>2. memo[v].frame <= m - 1  BY <1>1, <2>3, <2>4, <2>6
    <3> QED  BY <2>4, <3>1, <3>2
  <2> QED  BY <2>5, <2>6
<1> QED  BY <1>5, <1>6, <1>7 DEF ScopeInv

(* An operation on the stack once binds none of its blocks a second time:  *)
(* a bound block is owned by the activation that bound it.                 *)
LEMMA BindsFresh ==
  ASSUME TypeInv, StackInv, NEW b \in Block, NEW args, Bind(b, args)
  PROVE  b \notin BoundBlocks
<1> SUFFICES ASSUME NEW j \in DOMAIN frames, frames[j] = b PROVE FALSE
  BY DEF BoundBlocks
<1>1. stack # <<>> /\ Owner[b] = TopOp /\ ~ (j > Top.framesAt)
  BY DEF Bind, At
<1>2. Len(stack) \in DOMAIN stack  BY <1>1, TopFacts
<1>3. PICK i \in DOMAIN stack : Bound(j, i) /\ Owner[b] = stack[i].val[1]
  BY DEF StackInv, FrameOwners
<1>4. i = Len(stack)
  BY <1>1, <1>2, <1>3 DEF StackInv, CycleGuard, TopOp, Top
<1>5. Top.framesAt < j  BY <1>3, <1>4 DEF Bound, Top
<1>6. Top.framesAt \in Nat /\ j \in Nat
  BY <1>1, TopFacts, Sizes DEF Activation
<1> QED  BY <1>1, <1>5, <1>6

LEMMA BindsKeeps ==
  ASSUME TypeInv, StackInv, ScopeInv, Binds
  PROVE  ScopeInv'
<1> PICK b \in Block : \E args \in [1..NumArgs[b] -> CompletedAnswer] : Bind(b, args)
  BY DEF Binds
<1> PICK args \in [1..NumArgs[b] -> CompletedAnswer] : Bind(b, args)  OBVIOUS
<1> PICK m : m = Len(frames)  OBVIOUS
<1>1. m \in Nat /\ DOMAIN frames = 1..m /\ frames \in Seq(Block)
  BY Sizes DEF TypeInv, TypeOK
<1>2. /\ Len(frames') = m + 1 /\ DOMAIN frames' = 1..(m + 1)
      /\ \A j \in 1..m : frames'[j] = frames[j]
      /\ frames'[m + 1] = b
  <2>1. frames' = Append(frames, b)  BY DEF Bind
  <2>2. /\ frames' \in Seq(Block) /\ Len(frames') = m + 1
        /\ \A j \in 1..m : frames'[j] = frames[j]
        /\ frames'[m + 1] = b
    BY <1>1, <2>1, AppendProperties
  <2> QED  BY <2>2, LenProperties
<1>3. b \notin BoundBlocks  BY BindsFresh
<1>4. \A i \in 1..(m + 1) : i = m + 1 \/ i \in 1..m  BY <1>1
<1>5. m + 1 \in 1..(m + 1) /\ \A i \in 1..m : i \in 1..(m + 1)  BY <1>1
<1>6. \A i \in 1..m : frames[i] # b  BY <1>1, <1>3 DEF BoundBlocks
<1>7. BoundOnce'
  <2>1. \A i, j \in 1..m : frames[i] = frames[j] => i = j
    BY <1>1 DEF ScopeInv, BoundOnce
  <2> QED  BY <1>2, <1>4, <1>6, <2>1 DEF BoundOnce
<1>8. BindingsFollowFrames'
  <2>1. BoundBlocks' = BoundBlocks \cup {b}
    <3>1. BoundBlocks' = {frames'[i] : i \in 1..(m + 1)}  BY <1>2 DEF BoundBlocks
    <3>2. BoundBlocks = {frames[i] : i \in 1..m}  BY <1>1 DEF BoundBlocks
    <3> QED  BY <1>2, <1>4, <1>5, <3>1, <3>2
  <2>2. bindings' = [a \in Arg |-> IF a \in ArgsOf(b) /\ bindings[a] = NoAnswer
                                   THEN args[a[2]] ELSE bindings[a]]
    BY DEF Bind
  <2> SUFFICES ASSUME NEW c \in Block, NEW a \in ArgsOf(c)
               PROVE  bindings'[a] # NoAnswer <=> c \in BoundBlocks'
    BY DEF BindingsFollowFrames, ArgsOf
  <2>3. a \in Arg /\ a[1] = c /\ a[2] \in 1..NumArgs[c]  BY ArgsOfFacts
  <2>4. bindings[a] # NoAnswer <=> c \in BoundBlocks
    BY DEF ScopeInv, BindingsFollowFrames
  <2>5. a \in ArgsOf(b) <=> c = b  BY <2>3, ArgsOfFacts
  <2>6. c = b => args[a[2]] # NoAnswer  BY <2>3, AnswerFacts
  <2> QED  BY <1>3, <2>1, <2>2, <2>3, <2>4, <2>5, <2>6
<1>9. MemoHeld'
  <2>1. memo' = memo  BY DEF Bind
  <2>2. \A v \in Value : memo[v].frame \in Nat
    BY DEF TypeInv, TypeOK, Memo, NotMemoized
  <2> QED  BY <1>1, <1>2, <2>1, <2>2 DEF ScopeInv, MemoHeld
<1> QED  BY <1>7, <1>8, <1>9 DEF ScopeInv

LEMMA ScopeStep ==
  TypeInv /\ StackInv /\ ScopeInv /\ [Next]_vars => ScopeInv'
BY MemoKinds, MemoizesKeeps, EndQueryKeeps, UnbindKeeps, BindsKeeps

LEMMA InitScope == Init => ScopeInv
<1> SUFFICES ASSUME Init PROVE ScopeInv  OBVIOUS
<1>1. frames = <<>> /\ memo = [v \in Value |-> NotMemoized]
      /\ bindings = [a \in Arg |-> NoAnswer]
  BY DEF Init
<1>2. DOMAIN frames = {} /\ Len(frames) = 0  BY <1>1, EmptySeq
<1>3. BoundOnce /\ BindingsFollowFrames
  BY <1>1, <1>2, ArgsOfFacts DEF BoundOnce, BindingsFollowFrames, BoundBlocks
<1>4. MemoHeld  BY <1>1, <1>2 DEF MemoHeld, NotMemoized
<1> QED  BY <1>3, <1>4 DEF ScopeInv

THEOREM ScopeInvariant == Spec => []ScopeInv
<1>1. /\ TypeInv /\ StackInv /\ ScopeInv /\ [Next]_vars
      => (TypeInv /\ StackInv /\ ScopeInv)'
  BY TypeStep, StackStep, ScopeStep
<1> QED  BY <1>1, InitType, InitStack, InitScope, PTL DEF Spec

(* The assertion of bind: no block is bound while it is bound.             *)
THEOREM BlocksBoundOnce == Spec => []BoundOnce
BY ScopeInvariant, PTL DEF ScopeInv

(* An argument has an answer exactly while its block is bound.             *)
THEOREM ArgumentsFollowFrames == Spec => []BindingsFollowFrames
BY ScopeInvariant, PTL DEF ScopeInv

(* unbind forgets enough: no memoized answer survives a frame under which  *)
(* it was computed, though it is listed by one frame only.                 *)
THEOREM MemoDiesWithFrame == Spec => []MemoNeverOutlives
<1>1. TypeInv /\ ScopeInv => MemoNeverOutlives
  <2> SUFFICES ASSUME TypeInv, ScopeInv, NEW v \in Value
               PROVE  memo[v].under \subseteq DOMAIN frames
    BY DEF MemoNeverOutlives
  <2>1. /\ memo[v].frame <= Len(frames) /\ memo[v].under \subseteq 1..memo[v].frame
    BY DEF ScopeInv, MemoHeld
  <2>2. memo[v].frame \in Nat
    BY DEF TypeInv, TypeOK, Memo, NotMemoized
  <2> QED  BY <2>1, <2>2, Sizes
<1> QED  BY <1>1, TypeInvariant, ScopeInvariant, PTL

-----------------------------------------------------------------------------
(* What a step may never do.                                               *)

LEMMA SearchEndsThawed ==
  ASSUME TypeInv, StackInv, stack # <<>>, Top.pc # "evaluate",
         NEW n, SearchEnds(n), freezes > 0
  PROVE  entries' = entries
<1>1. Len(stack) \in DOMAIN stack  BY TopFacts
<1>2. Top.freezesAt = freezes
  BY <1>1 DEF StackInv, StackDiscipline, FreezesAbove, Top
<1>3. Top.results # <<>> => Top.freezesAt = 0
  BY <1>1 DEF StackInv, StackDiscipline, Top
<1>4. Top.results = <<>>  BY <1>2, <1>3, Sizes
<1> QED  BY <1>4 DEF SearchEnds, LookupEnds

LEMMA FrozenStep ==
  ASSUME TypeInv, StackInv, [Next]_vars, freezes > 0
  PROVE  entries' = entries
<1>1. CASE Host
  <2>1. running
    BY Sizes DEF TypeInv, Idle, StackInv, NoneFrozen
  <2> QED  BY <1>1, <2>1 DEF Host, Query, EndQuery, ClearCache, cache
<1>2. CASE ScopeCall
  BY <1>2 DEF ScopeCall, Ask, QueryMemoized, QueryLeaf, QueryCycle, QueryEnter,
     DeclareCost, Freeze, Unfreeze, Unbind, Bind, cache
<1>3. CASE CallbackReturn
  <2>1. ASSUME NEW e \in BOOLEAN, CompareReturn(e) PROVE entries' = entries
    <3>1. stack # <<>> /\ Top.pc # "evaluate"  BY <2>1 DEF CompareReturn, At
    <3> QED  BY <2>1, <3>1, SearchEndsThawed DEF CompareReturn, cache
  <2>2. ASSUME NEW results, EvaluateReturn(results) PROVE entries' = entries
    BY <2>2 DEF EvaluateReturn, Stores, Thawed
  <2> QED
    BY <1>3, <2>1, <2>2 DEF CallbackReturn, Eligible, HashReturn, KeySignal, cache
<1>4. CASE Internal
  <2>1. CASE Charge  BY <2>1 DEF Charge, cache
  <2>2. stack # <<>>
    BY <1>4 DEF Internal, SearchMiss, SearchOwn, SearchSkip, SearchCompare, Charge,
       At
  <2>3. CASE SearchMiss \/ SearchOwn
    BY <2>2, <2>3, SearchEndsThawed DEF SearchMiss, SearchOwn, At
  <2>4. CASE SearchSkip \/ SearchCompare
    BY <2>4 DEF SearchSkip, SearchCompare, cache
  <2> QED  BY <1>4, <2>1, <2>3, <2>4 DEF Internal
<1>5. CASE UNCHANGED vars  BY <1>5 DEF vars, cache
<1> QED  BY <1>1, <1>2, <1>3, <1>4, <1>5 DEF Next

(* A frozen cache is not written, by the callback that froze it or by any  *)
(* query nested in it, not even after the callback's own evaluate returned.*)
THEOREM FrozenCacheUnwritten == Spec => FrozenCacheKept
<1>1. TypeInv /\ StackInv /\ [Next]_vars
      => [freezes > 0 => entries' = entries]_vars
  BY FrozenStep
<1> QED  BY <1>1, TypeInvariant, StackInvariant, PTL DEF Spec, FrozenCacheKept

LEMMA MemoStep ==
  ASSUME TypeInv, [Next]_vars, running', NEW v \in Value, memo[v] # NotMemoized
  PROVE  \/ memo'[v] = memo[v]
         \/ memo'[v] = NotMemoized /\ Len(frames') < memo[v].frame
<1>1. CASE Memoizes  BY <1>1 DEF Memoizes, MemoGrows
<1>2. CASE Unbind
  <2>1. \/ memo'[v] = memo[v]
        \/ memo'[v] = NotMemoized /\ memo[v].frame = Len(frames)
    BY <1>2 DEF Unbind, ForgetIteration, Forgets
  <2>2. Len(frames') < Len(frames)  BY <1>2, UnbindShrinks
  <2> QED  BY <2>1, <2>2
<1>3. CASE Binds  BY <1>3 DEF Binds, Bind
<1> QED  BY <1>1, <1>2, <1>3, MemoKinds DEF EndQuery

(* A memoized answer is what every later query of the value answers, until *)
(* the iteration that holds it ends.                                       *)
THEOREM MemoNeverRewritten == Spec => MemoStable
<1>1. TypeInv /\ [Next]_vars
      => [running' => \A v \in Value :
            memo[v] # NotMemoized =>
              \/ memo'[v] = memo[v]
              \/ memo'[v] = NotMemoized /\ Len(frames') < memo[v].frame]_vars
  BY MemoStep
<1> QED  BY <1>1, TypeInvariant, PTL DEF Spec, MemoStable

-----------------------------------------------------------------------------
(* The answer cache, for every program: what it has handed out it keeps    *)
(* while a query runs, and a bucket holds one entry per operation that     *)
(* created it, although searches resume after nested queries inserted.     *)

(* No candidate a search has passed over, or compares, is the operation's  *)
(* own entry.                                                              *)
Passed(r) ==
  r.key # Null =>
    /\ \A m \in 1..(r.next - 1) : entries[r.key][m].op # r.val[1]
    /\ r.pc = "compare" => entries[r.key][r.next].op # r.val[1]
Searched == \A i \in DOMAIN stack : Passed(stack[i])
EntryInv == OneEntryPerOp /\ Searched

-----------------------------------------------------------------------------
(* What a step does to the entries.                                        *)

Fills ==
  \A k \in Key :
    /\ DOMAIN entries'[k] = DOMAIN entries[k]
    /\ Extends(entries'[k], entries[k])
Adds ==
  /\ stack # <<>> /\ Searching(Top) /\ Top.key \in Key /\ ~MoreCandidates
  /\ \E e \in Entry : /\ e.op = TopOp
                      /\ entries' = [entries EXCEPT ![Top.key] = Append(@, e)]

LEMMA FilledExtends ==
  ASSUME NEW e \in Entry, NEW answers, NEW i \in DOMAIN e.results,
         e.results[i] # NoAnswer
  PROVE  Filled(e, answers).results[i] = e.results[i]
BY DEF Filled, Storable, Entry

LEMMA StoreInFills ==
  ASSUME TypeInv, stack # <<>>, Top.key \in Key, NEW n,
         FitsAt(Top, n, entries), NEW answers, StoreIn(n, answers)
  PROVE  Fills
<1> DEFINE old == entries[Top.key]
           e == Filled(old[n], answers)
<1>1. entries \in [Key -> Seq(Entry)] /\ EntriesShaped  BY DEF TypeInv, TypeOK
<1>2. Top.key # Null  BY AnswerAssumption
<1>3. n \in DOMAIN old  BY <1>2 DEF FitsAt, Bucket
<1>4. old \in Seq(Entry) /\ DOMAIN old = 1..Len(old)  BY <1>1, LenProperties
<1>5. old[n] \in Entry /\ Len(old[n].results) = Arity[old[n].op]
  BY <1>1, <1>3, <1>4, ElementOfSeq DEF EntriesShaped
<1>6. /\ e.op = old[n].op
      /\ \A i \in DOMAIN old[n].results :
           old[n].results[i] # NoAnswer => e.results[i] = old[n].results[i]
  BY <1>5, FilledType, FilledExtends
<1>7. entries' = [entries EXCEPT ![Top.key] = [old EXCEPT ![n] = e]]
  BY <1>1 DEF StoreIn
<1> HIDE DEF e
<1> SUFFICES ASSUME NEW k \in Key
             PROVE  /\ DOMAIN entries'[k] = DOMAIN entries[k]
                    /\ Extends(entries'[k], entries[k])
  BY DEF Fills
<1>8. CASE k # Top.key
  <2>1. entries'[k] = entries[k]  BY <1>1, <1>7, <1>8
  <2> QED  BY <2>1 DEF Extends
<1>9. CASE k = Top.key
  <2>1. entries'[k] = [old EXCEPT ![n] = e]  BY <1>1, <1>7, <1>9
  <2>2. \A m \in DOMAIN old : entries'[k][m] = IF m = n THEN e ELSE old[m]
    BY <2>1
  <2>3. DOMAIN entries'[k] = DOMAIN old  BY <2>1
  <2> QED  BY <1>6, <1>9, <2>2, <2>3 DEF Extends
<1> QED  BY <1>8, <1>9

LEMMA StoreNewAdds ==
  ASSUME TypeInv, stack # <<>>, Searching(Top), Top.key \in Key, ~MoreCandidates,
         NEW answers, StoreNew(answers)
  PROVE  Adds
<1>1. Filled(NoEntry(TopOp), answers) \in Entry
      /\ Filled(NoEntry(TopOp), answers).op = TopOp
  BY TopFacts, NoEntryType, FilledType
<1> QED  BY <1>1 DEF StoreNew, Adds

LEMMA SearchEndsEntries ==
  ASSUME TypeInv, stack # <<>>, Searching(Top), NEW n \in Nat,
         IF n = 0 THEN ~MoreCandidates ELSE FitsAt(Top, n, entries),
         SearchEnds(n)
  PROVE  entries' = entries \/ Fills \/ Adds
<1>1. Top.key \in Key  BY TopFacts DEF Shaped, Activation
<1>2. CASE LookupEnds(n)  BY <1>2 DEF LookupEnds
<1>3. CASE InsertEnds(n)
  BY <1>1, <1>3, StoreInFills, StoreNewAdds DEF InsertEnds
<1> QED  BY <1>2, <1>3 DEF SearchEnds

LEMMA CandidateFits ==
  ASSUME TypeInv, stack # <<>>, Searching(Top), MoreCandidates
  PROVE  /\ Top.next \in Nat \ {0} /\ Top.key \in Key
         /\ Top.next \in DOMAIN entries[Top.key]
         /\ IsOwn(Candidate) => FitsAt(Top, Top.next, entries)
<1>1. Top.key \in Key /\ Top.key # Null /\ Fits(Top, entries) /\ Top.next \in Nat
  BY TopFacts DEF Shaped, Activation
<1>2. entries[Top.key] \in Seq(Entry) /\ EntriesShaped
  BY <1>1 DEF TypeInv, TypeOK
<1>3. /\ Len(entries[Top.key]) \in Nat
      /\ DOMAIN entries[Top.key] = 1..Len(entries[Top.key])
  BY <1>2, LenProperties
<1>4. 1 <= Top.next  BY <1>1, <1>3 DEF Fits, Bucket
<1>5. Top.next \in DOMAIN entries[Top.key]
  BY <1>1, <1>3, <1>4 DEF MoreCandidates
<1>6. IsOwn(Candidate) => FitsAt(Top, Top.next, entries)
  BY <1>1, <1>2, <1>5 DEF EntriesShaped, IsOwn, Candidate, FitsAt, Bucket, TopOp
<1> QED  BY <1>1, <1>4, <1>5, <1>6

LEMMA EntryKinds ==
  ASSUME TypeInv, [Next]_vars
  PROVE  entries' = entries \/ Fills \/ Adds \/ ClearCache
<1>1. CASE Host  BY <1>1 DEF Host, Query, EndQuery, cache
<1>2. CASE ScopeCall
  BY <1>2 DEF ScopeCall, Ask, QueryMemoized, QueryLeaf, QueryCycle, QueryEnter,
     DeclareCost, Freeze, Unfreeze, Unbind, Bind, cache
<1>3. CASE CallbackReturn
  <2>1. ASSUME NEW e \in BOOLEAN, CompareReturn(e)
        PROVE  entries' = entries \/ Fills \/ Adds
    <3>1. stack # <<>> /\ Top.pc = "compare"  BY <2>1 DEF CompareReturn, At
    <3>2. Top \in Activation /\ Fits(Top, entries)  BY <3>1, TopFacts
    <3>3. FitsAt(Top, Top.next, entries)  BY <3>1, <3>2 DEF Fits
    <3>4. Top.key # Null  BY <3>1, TopFacts DEF Shaped, Searching
    <3>5. entries[Top.key] \in Seq(Entry)
      BY <3>2, <3>4 DEF TypeInv, TypeOK, Activation
    <3>6. Top.next \in DOMAIN entries[Top.key]
      BY <3>3, <3>4 DEF FitsAt, Bucket
    <3>7. Top.next \in Nat /\ Top.next # 0  BY <3>5, <3>6, LenProperties
    <3> QED  BY <2>1, <3>1, <3>3, <3>7, SearchEndsEntries
             DEF CompareReturn, Searching, cache
  <2>2. ASSUME stack # <<>>, NEW results, EvaluateReturn(results)
        PROVE  entries' = entries \/ Fills
    <3>1. CASE Stores(results) /\ Top.entry # 0 /\ StoreIn(Top.entry, results)
      <4>1. Top.key \in Key  BY <2>2, <3>1, TopFacts DEF Stores, Activation
      <4>2. FitsAt(Top, Top.entry, entries)  BY <2>2, <3>1, TopFacts DEF Fits
      <4> QED  BY <2>2, <3>1, <4>1, <4>2, StoreInFills
    <3> QED  BY <2>2, <3>1 DEF EvaluateReturn
  <2> QED
    BY <1>3, <2>1, <2>2 DEF CallbackReturn, Eligible, HashReturn, KeySignal, cache
<1>4. CASE Internal
  <2>1. CASE Charge  BY <2>1 DEF Charge, cache
  <2>2. CASE SearchSkip \/ SearchCompare
    BY <2>2 DEF SearchSkip, SearchCompare, cache
  <2>3. CASE SearchMiss
    BY <2>3, SearchEndsEntries DEF SearchMiss, At, Searching
  <2>4. CASE SearchOwn
    <3>1. stack # <<>> /\ Searching(Top) /\ MoreCandidates /\ IsOwn(Candidate)
      BY <2>4 DEF SearchOwn, At, Searching
    <3>2. Top.next \in Nat \ {0} /\ FitsAt(Top, Top.next, entries)
      BY <3>1, CandidateFits
    <3> QED  BY <2>4, <3>1, <3>2, SearchEndsEntries DEF SearchOwn
  <2> QED  BY <1>4, <2>1, <2>2, <2>3, <2>4 DEF Internal
<1>5. CASE UNCHANGED vars  BY <1>5 DEF vars, cache
<1> QED  BY <1>1, <1>2, <1>3, <1>4, <1>5 DEF Next

LEMMA AddsExtends ==
  ASSUME TypeInv, Adds, NEW k \in Key
  PROVE  Extends(entries'[k], entries[k])
<1>1. PICK e \in Entry :
        e.op = TopOp /\ entries' = [entries EXCEPT ![Top.key] = Append(@, e)]
  BY DEF Adds
<1>2. entries \in [Key -> Seq(Entry)]  BY DEF TypeInv, TypeOK
<1>3. CASE k # Top.key
  <2>1. entries'[k] = entries[k]  BY <1>1, <1>2, <1>3
  <2> QED  BY <2>1 DEF Extends
<1>4. CASE k = Top.key
  <2>1. entries'[k] = Append(entries[k], e) /\ entries[k] \in Seq(Entry)
    BY <1>1, <1>2, <1>4
  <2>2. /\ entries'[k] \in Seq(Entry) /\ Len(entries'[k]) = Len(entries[k]) + 1
        /\ \A m \in 1..Len(entries[k]) : entries'[k][m] = entries[k][m]
    BY <2>1, AppendProperties
  <2>3. /\ Len(entries[k]) \in Nat /\ DOMAIN entries[k] = 1..Len(entries[k])
        /\ DOMAIN entries'[k] = 1..Len(entries'[k])
    BY <2>1, <2>2, LenProperties
  <2>4. DOMAIN entries[k] \subseteq DOMAIN entries'[k]  BY <2>2, <2>3
  <2> QED  BY <2>2, <2>3, <2>4 DEF Extends
<1> QED  BY <1>3, <1>4

LEMMA GrowsStep ==
  ASSUME TypeInv, [Next]_vars, running, NEW k \in Key
  PROVE  Extends(entries'[k], entries[k])
<1>1. entries' = entries \/ Fills \/ Adds  BY EntryKinds DEF ClearCache
<1>2. CASE entries' = entries  BY <1>2 DEF Extends
<1> QED  BY <1>1, <1>2, AddsExtends DEF Fills

(* An answer the cache handed out is handed out again, as long as the query*)
(* runs: no insertion, refill or nested query replaces or moves it.        *)
THEOREM CacheOnlyGrows == Spec => CacheGrows
<1>1. TypeInv /\ [Next]_vars
      => [running => \A k \in Key : Extends(entries'[k], entries[k])]_vars
  BY GrowsStep
<1> QED  BY <1>1, TypeInvariant, PTL DEF Spec, CacheGrows

-----------------------------------------------------------------------------
(* What a step does to the positions of the searches.                      *)

Passes == Searching(Top) /\ MoreCandidates /\ ~IsOwn(Candidate)
Advances(r) ==
  /\ r.val = Top.val
  /\ \/ r.next = 1
     \/ r.key = Top.key /\ r.next = Top.next
     \/ /\ r.key = Top.key /\ r.next = Top.next + 1
        /\ Passes
  /\ r.pc = "compare" => r.key = Top.key /\ r.next = Top.next /\ Passes
  /\ r.key = Top.key \/ Top.pc = "getHash"
  /\ r.pc = "getHash" => TopOp \in Pure
Searches ==
  \A i \in DOMAIN stack' :
    \/ i \in DOMAIN stack /\ stack'[i] = stack[i]
    \/ /\ i \notin DOMAIN stack
       /\ stack'[i].key = Null /\ stack'[i].pc = "isCacheable"
    \/ stack # <<>> /\ i = Len(stack) /\ Advances(stack'[i])

LEMMA BecomeSearches ==
  ASSUME stack # <<>>, NEW r, Become(r), Advances(r)
  PROVE  Searches
<1>1. DOMAIN stack' = DOMAIN stack
      /\ \A i \in DOMAIN stack : stack'[i] = IF i = Len(stack) THEN r ELSE stack[i]
  BY DEF Become
<1> QED  BY <1>1 DEF Searches

LEMMA LeaveSearches ==
  ASSUME TypeInv, stack # <<>>, NEW a, Leave(a)
  PROVE  Searches
<1>1. /\ DOMAIN stack' = 1..(Len(stack) - 1)
      /\ \A i \in 1..(Len(stack) - 1) : stack'[i] = stack[i]
  BY PopFacts DEF Leave
<1>2. 1..(Len(stack) - 1) \subseteq DOMAIN stack  BY TopFacts
<1> QED  BY <1>1, <1>2 DEF Searches

LEMMA ActivateSearches ==
  ASSUME TypeInv, NEW v \in Result, Activate(v)
  PROVE  Searches
<1> DEFINE r == [val |-> v, pc |-> "isCacheable", key |-> Null, next |-> 1,
                 entry |-> 0, results |-> <<>>, freezesAt |-> freezes,
                 framesAt |-> Len(frames)]
<1>1. /\ DOMAIN stack' = 1..(Len(stack) + 1)
      /\ \A i \in 1..Len(stack) : stack'[i] = stack[i]
      /\ stack'[Len(stack) + 1] = r
  BY PushFacts
<1>2. r.key = Null /\ r.pc = "isCacheable"  OBVIOUS
<1> HIDE DEF r
<1>3. stack \in Seq(Activation)  BY DEF TypeInv, TypeOK
<1>4. Len(stack) \in Nat /\ DOMAIN stack = 1..Len(stack)  BY <1>3, LenProperties
<1>5. \A i \in 1..(Len(stack) + 1) : i \in 1..Len(stack) \/ i = Len(stack) + 1
  BY <1>4
<1>6. Len(stack) + 1 \notin 1..Len(stack)  BY <1>4
<1> QED  BY <1>1, <1>2, <1>4, <1>5, <1>6 DEF Searches

LEMMA SameSearches == UNCHANGED stack => Searches
BY DEF Searches

(* Every other change of the top activation keeps its position.            *)
LEMMA PcSearches ==
  ASSUME TypeInv, stack # <<>>, NEW p, p = "compare" => Passes,
         p = "getHash" => TopOp \in Pure, Become([Top EXCEPT !.pc = p])
  PROVE  Searches
<1>1. Top \in Activation  BY TopFacts
<1>2. Advances([Top EXCEPT !.pc = p])  BY <1>1 DEF Advances, Activation
<1> QED  BY <1>2, BecomeSearches

LEMMA ChargeSearches ==
  ASSUME TypeInv, stack # <<>>, NEW n,
         Become([Top EXCEPT !.pc = "charge", !.entry = n])
  PROVE  Searches
<1>1. Top \in Activation  BY TopFacts
<1>2. Advances([Top EXCEPT !.pc = "charge", !.entry = n])
  BY <1>1 DEF Advances, Activation
<1> QED  BY <1>2, BecomeSearches

LEMMA ResultsSearches ==
  ASSUME TypeInv, stack # <<>>, NEW results,
         Become([Top EXCEPT !.pc = "search", !.results = results])
  PROVE  Searches
<1>1. Top \in Activation  BY TopFacts
<1>2. Advances([Top EXCEPT !.pc = "search", !.results = results])
  BY <1>1 DEF Advances, Activation
<1> QED  BY <1>2, BecomeSearches

LEMMA ReturnSearches ==
  ASSUME TypeInv, stack # <<>>,
         (\E a : Return(a)) \/ (\E results, e : ReturnEvaluated(results, e))
  PROVE  Searches
BY LeaveSearches DEF Return, ReturnEvaluated

LEMMA SearchEndsSearches ==
  ASSUME TypeInv, stack # <<>>, NEW n, SearchEnds(n)
  PROVE  Searches
<1>1. CASE LookupEnds(n)
  <2>1. (\E a : Return(a)) \/ Become([Top EXCEPT !.pc = "charge", !.entry = n])
    BY <1>1 DEF LookupEnds
  <2> QED  BY <2>1, ReturnSearches, ChargeSearches
<1>2. CASE InsertEnds(n)
  BY <1>2, ReturnSearches DEF InsertEnds, StoreNew, StoreIn
<1> QED  BY <1>1, <1>2 DEF SearchEnds

LEMMA NextCandidateSearches ==
  ASSUME TypeInv, stack # <<>>, Passes, NextCandidate
  PROVE  Searches
<1> DEFINE r == [Top EXCEPT !.pc = "search", !.next = @ + 1]
<1>1. Top \in Activation  BY TopFacts
<1>2. /\ r.val = Top.val /\ r.key = Top.key /\ r.next = Top.next + 1
      /\ r.pc = "search"
  BY <1>1 DEF Activation
<1>3. Become(r)  BY DEF NextCandidate
<1> HIDE DEF r
<1>4. Advances(r)  BY <1>2 DEF Advances
<1> QED  BY <1>3, <1>4, BecomeSearches

LEMMA CompareRejects ==
  ASSUME TypeInv, Searched, At("compare")
  PROVE  stack # <<>> /\ Passes
<1>1. stack # <<>> /\ Searching(Top) /\ Top.pc = "compare"  BY DEF At, Searching
<1>2. Top \in Activation /\ Fits(Top, entries) /\ Top.key \in Key /\ Top.key # Null
  BY <1>1, TopFacts DEF Shaped, Activation
<1>3. Top.next \in DOMAIN entries[Top.key]
  BY <1>1, <1>2 DEF Fits, FitsAt, Bucket
<1>4. entries[Top.key] \in Seq(Entry)  BY <1>2 DEF TypeInv, TypeOK
<1>5. MoreCandidates  BY <1>3, <1>4, LenProperties DEF MoreCandidates
<1>6. Passed(Top)  BY <1>1, TopFacts DEF Searched, Top
<1>7. ~IsOwn(Candidate)  BY <1>1, <1>2, <1>6 DEF Passed, IsOwn, Candidate, TopOp
<1> QED  BY <1>1, <1>5, <1>7 DEF Passes

LEMMA SearchKinds ==
  ASSUME TypeInv, Searched, [Next]_vars
  PROVE  Searches
<1>1. CASE Host
  <2>1. UNCHANGED stack \/ \E v \in Result : Activate(v)
    BY <1>1 DEF Host, Query, EndQuery, ClearCache
  <2> QED  BY <2>1, ActivateSearches, SameSearches
<1>2. CASE ScopeCall
  BY <1>2, ActivateSearches, SameSearches
  DEF ScopeCall, Ask, QueryMemoized, QueryLeaf, QueryCycle, QueryEnter,
      DeclareCost, Freeze, Unfreeze, Unbind, Bind
<1>3. CASE CallbackReturn
  <2>1. ASSUME NEW e \in BOOLEAN, Eligible(e) PROVE Searches
    <3>1. /\ stack # <<>>
          /\ \/ TopOp \in Pure /\ Become([Top EXCEPT !.pc = "getHash"])
             \/ Become([Top EXCEPT !.pc = "charge"])
      BY <2>1 DEF Eligible, At
    <3> QED  BY <3>1, PcSearches
  <2>2. ASSUME NEW e \in BOOLEAN, CompareReturn(e) PROVE Searches
    <3>1. At("compare")  BY <2>2 DEF CompareReturn
    <3> QED  BY <2>2, <3>1, CompareRejects, SearchEndsSearches,
             NextCandidateSearches DEF CompareReturn
  <2>3. ASSUME NEW k \in Key, HashReturn(k) PROVE Searches
    <3> DEFINE r == [Top EXCEPT !.pc = "search", !.key = k]
    <3>1. stack # <<>> /\ Top.pc = "getHash" /\ Become(r)  BY <2>3 DEF HashReturn, At
    <3>2. Top \in Activation /\ Top.key = Null /\ Fits(Top, entries)
      BY <3>1, TopFacts DEF Shaped
    <3>3. r.val = Top.val /\ r.next = Top.next /\ r.pc = "search"
      BY <3>2 DEF Activation
    <3> HIDE DEF r
    <3>4. Top.next \in 1..(Len(<<>>) + 1)  BY <3>2 DEF Fits, Bucket
    <3>5. Top.next = 1  BY <3>4, EmptySeq
    <3>6. Advances(r)  BY <3>1, <3>3, <3>5 DEF Advances
    <3> QED  BY <3>1, <3>6, BecomeSearches
  <2>4. ASSUME NEW s \in Signal, KeySignal(s) PROVE Searches
    BY <2>4, ReturnSearches DEF KeySignal, At
  <2>5. ASSUME stack # <<>>, NEW results, EvaluateReturn(results) PROVE Searches
    BY <2>5, ReturnSearches, ResultsSearches DEF EvaluateReturn, StoreIn
  <2> QED  BY <1>3, <2>1, <2>2, <2>3, <2>4, <2>5 DEF CallbackReturn
<1>4. CASE Internal
  <2>1. CASE Charge
    <3>1. /\ stack # <<>>
          /\ Become([Top EXCEPT !.pc = "evaluate"]) \/ \E a : Return(a)
      BY <2>1 DEF Charge, At
    <3> QED  BY <3>1, ReturnSearches, PcSearches
  <2>2. CASE SearchMiss \/ SearchOwn
    BY <2>2, SearchEndsSearches DEF SearchMiss, SearchOwn, At
  <2>3. CASE SearchSkip
    BY <2>3, NextCandidateSearches DEF SearchSkip, At, Passes, Searching
  <2>4. CASE SearchCompare
    BY <2>4, PcSearches DEF SearchCompare, At, Passes, Searching
  <2> QED  BY <1>4, <2>1, <2>2, <2>3, <2>4 DEF Internal
<1>5. CASE UNCHANGED vars  BY <1>5, SameSearches DEF vars
<1> QED  BY <1>1, <1>2, <1>3, <1>4, <1>5 DEF Next

-----------------------------------------------------------------------------
(* EntryInv is inductive.                                                  *)

(* The bucket of an activation's key, up to the positions it holds.        *)
LEMMA PassedPositions ==
  ASSUME TypeInv, NEW i \in DOMAIN stack, stack[i].key # Null
  PROVE  /\ stack[i].key \in Key /\ stack[i].next \in Nat
         /\ 1..(stack[i].next - 1) \subseteq DOMAIN entries[stack[i].key]
         /\ stack[i].pc = "compare" => stack[i].next \in DOMAIN entries[stack[i].key]
<1>1. stack[i] \in Activation /\ Fits(stack[i], entries)
  BY LenProperties, ElementOfSeq DEF TypeInv, TypeOK, HandlesFit
<1>2. stack[i].key \in Key /\ stack[i].next \in Nat  BY <1>1 DEF Activation
<1>3. entries[stack[i].key] \in Seq(Entry)  BY <1>2 DEF TypeInv, TypeOK
<1>4. /\ Len(entries[stack[i].key]) \in Nat
      /\ DOMAIN entries[stack[i].key] = 1..Len(entries[stack[i].key])
  BY <1>3, LenProperties
<1>5. stack[i].next <= Len(entries[stack[i].key]) + 1
  BY <1>1, <1>4 DEF Fits, Bucket
<1>6. stack[i].pc = "compare" => stack[i].next \in DOMAIN entries[stack[i].key]
  BY <1>1 DEF Fits, FitsAt, Bucket
<1> QED  BY <1>2, <1>4, <1>5, <1>6

LEMMA PassedKept ==
  ASSUME TypeInv, Searched, \A k \in Key : Extends(entries'[k], entries[k]),
         NEW i \in DOMAIN stack, stack[i].key # Null
  PROVE  /\ \A m \in 1..(stack[i].next - 1) :
              entries'[stack[i].key][m].op # stack[i].val[1]
         /\ stack[i].pc = "compare" =>
              entries'[stack[i].key][stack[i].next].op # stack[i].val[1]
<1>1. Passed(stack[i])  BY DEF Searched
<1>2. \A m \in DOMAIN entries[stack[i].key] :
        entries'[stack[i].key][m].op = entries[stack[i].key][m].op
  BY PassedPositions DEF Extends
<1> QED  BY <1>1, <1>2, PassedPositions DEF Passed

LEMMA AdvancesPassed ==
  ASSUME TypeInv, Searched, \A k \in Key : Extends(entries'[k], entries[k]),
         stack # <<>>, NEW r, Advances(r), r.key # Null
  PROVE  /\ \A m \in 1..(r.next - 1) : entries'[r.key][m].op # r.val[1]
         /\ r.pc = "compare" => entries'[r.key][r.next].op # r.val[1]
<1>1. Len(stack) \in DOMAIN stack /\ Top = stack[Len(stack)]
  BY TopFacts DEF Top
<1>2. Top.key # Null =>
        /\ Top.next \in Nat
        /\ \A m \in 1..(Top.next - 1) : entries'[Top.key][m].op # Top.val[1]
  BY <1>1, PassedKept, PassedPositions
<1>3. Passes =>
        /\ Top.next \in Nat /\ Top.key # Null
        /\ entries'[Top.key][Top.next].op # Top.val[1]
  <2> SUFFICES ASSUME Passes
               PROVE  /\ Top.next \in Nat /\ Top.key # Null
                      /\ entries'[Top.key][Top.next].op # Top.val[1]
    OBVIOUS
  <2>1. /\ Top.next \in Nat /\ Top.key \in Key
        /\ Top.next \in DOMAIN entries[Top.key]
    BY CandidateFits DEF Passes
  <2>2. entries'[Top.key][Top.next].op = entries[Top.key][Top.next].op
    BY <2>1 DEF Extends
  <2>3. entries[Top.key][Top.next].op # Top.val[1]
    BY DEF Passes, IsOwn, Candidate, TopOp
  <2> QED  BY <2>1, <2>2, <2>3, AnswerAssumption
<1>4. \A m \in 1..(r.next - 1) : entries'[r.key][m].op # r.val[1]
  <2>1. CASE r.next = 1  BY <2>1
  <2>2. CASE r.key = Top.key /\ r.next = Top.next  BY <1>2, <2>2 DEF Advances
  <2>3. CASE r.key = Top.key /\ r.next = Top.next + 1 /\ Passes
    <3>1. Top.next \in Nat  BY <1>3, <2>3
    <3>2. \A m \in 1..(r.next - 1) : m = Top.next \/ m \in 1..(Top.next - 1)
      BY <2>3, <3>1
    <3> QED  BY <1>2, <1>3, <2>3, <3>2 DEF Advances
  <2> QED  BY <2>1, <2>2, <2>3 DEF Advances
<1>5. r.pc = "compare" => entries'[r.key][r.next].op # r.val[1]
  BY <1>3 DEF Advances
<1> QED  BY <1>4, <1>5

LEMMA SearchedStep ==
  ASSUME TypeInv, TypeInv', Searched, [Next]_vars
  PROVE  Searched'
<1>1. CASE ClearCache
  <2>1. stack' = <<>>
    BY <1>1 DEF ClearCache, TypeInv, Idle
  <2> QED  BY <2>1, EmptySeq DEF Searched
<1>2. CASE ~ClearCache
  <2>1. \A k \in Key : Extends(entries'[k], entries[k])
    BY <1>2, EntryKinds, AddsExtends DEF Fills, Extends
  <2> SUFFICES ASSUME NEW i \in DOMAIN stack', stack'[i].key # Null
               PROVE  Passed(stack[i])'
    BY DEF Searched, Passed
  <2>2. CASE i \in DOMAIN stack /\ stack'[i] = stack[i]
    BY <2>1, <2>2, PassedKept DEF Passed
  <2>3. CASE stack # <<>> /\ i = Len(stack) /\ Advances(stack'[i])
    BY <2>1, <2>3, AdvancesPassed DEF Passed
  <2> QED  BY <2>2, <2>3, SearchKinds DEF Searches
<1> QED  BY <1>1, <1>2

LEMMA OneEntryStep ==
  ASSUME TypeInv, EntryInv, [Next]_vars
  PROVE  OneEntryPerOp'
<1>1. entries' = entries \/ Fills \/ Adds \/ ClearCache  BY EntryKinds
<1>2. CASE entries' = entries  BY <1>2 DEF EntryInv, OneEntryPerOp
<1>3. CASE Fills
  <2>1. \A k \in Key : \A m \in DOMAIN entries'[k] :
          m \in DOMAIN entries[k] /\ entries'[k][m].op = entries[k][m].op
    BY <1>3 DEF Fills, Extends
  <2> QED  BY <2>1 DEF EntryInv, OneEntryPerOp
<1>4. CASE ClearCache  BY <1>4, EmptySeq DEF ClearCache, OneEntryPerOp
<1>5. CASE Adds
  <2>1. PICK e \in Entry :
          e.op = TopOp /\ entries' = [entries EXCEPT ![Top.key] = Append(@, e)]
    BY <1>5 DEF Adds
  <2>2. entries \in [Key -> Seq(Entry)] /\ Top.key \in Key /\ Top.key # Null
        /\ ~MoreCandidates /\ stack # <<>>
    BY <1>5, AnswerAssumption DEF TypeInv, TypeOK, Adds
  <2> PICK n : n = Len(entries[Top.key])  OBVIOUS
  <2>3. /\ n \in Nat /\ DOMAIN entries[Top.key] = 1..n
        /\ entries[Top.key] \in Seq(Entry)
    BY <2>2, LenProperties
  <2>4. Top.next = n + 1
    BY <2>2, <2>3, TopFacts DEF Fits, Bucket, MoreCandidates
  <2>5. \A m \in 1..n : entries[Top.key][m].op # TopOp
    <3>1. Passed(Top)  BY <2>2, TopFacts DEF EntryInv, Searched, Top
    <3>2. Top.next - 1 = n  BY <2>3, <2>4
    <3> QED  BY <2>2, <3>1, <3>2 DEF Passed, TopOp
  <2>6. /\ DOMAIN entries'[Top.key] = 1..(n + 1)
        /\ \A m \in 1..n : entries'[Top.key][m] = entries[Top.key][m]
        /\ entries'[Top.key][n + 1] = e
    <3>1. entries'[Top.key] = Append(entries[Top.key], e)  BY <2>1, <2>2
    <3> QED  BY <2>3, <3>1, AppendProperties, LenProperties
  <2>7. \A m \in 1..(n + 1) : m \in 1..n \/ m = n + 1  BY <2>3
  <2> SUFFICES ASSUME NEW k \in Key
               PROVE  \A i, j \in DOMAIN entries'[k] :
                        entries'[k][i].op = entries'[k][j].op => i = j
    BY DEF OneEntryPerOp
  <2>8. \A i, j \in DOMAIN entries[k] :
          entries[k][i].op = entries[k][j].op => i = j
    BY DEF EntryInv, OneEntryPerOp
  <2>9. CASE k # Top.key
    <3>1. entries'[k] = entries[k]  BY <2>1, <2>2, <2>9
    <3> QED  BY <2>8, <3>1
  <2>10. CASE k = Top.key
    BY <2>1, <2>3, <2>5, <2>6, <2>7, <2>8, <2>10
  <2> QED  BY <2>9, <2>10
<1> QED  BY <1>1, <1>2, <1>3, <1>4, <1>5

LEMMA InitEntry == Init => EntryInv
BY EmptySeq DEF Init, EntryInv, OneEntryPerOp, Searched

THEOREM EntryInvariant == Spec => []EntryInv
<1>1. TypeInv /\ EntryInv /\ [Next]_vars => (TypeInv /\ EntryInv)'
  BY TypeStep, SearchedStep, OneEntryStep DEF EntryInv
<1> QED  BY <1>1, InitType, InitEntry, PTL DEF Spec

(* An insertion never duplicates the operation's own entry, although its   *)
(* search starts where the lookup ended, before evaluate ran queries that  *)
(* may have filled the bucket.                                             *)
THEOREM EntriesStayUnique == Spec => []OneEntryPerOp
BY EntryInvariant, PTL DEF EntryInv

-----------------------------------------------------------------------------
(* What query reports.                                                     *)

(* A key is asked for only of an operation that may be cached; the bottom  *)
(* activation computes the queried value, and none is left after a hit.    *)
PureKeys ==
  \A i \in DOMAIN stack :
    stack[i].pc = "getHash" \/ stack[i].key # Null => stack[i].val[1] \in Pure
BottomAsked == stack # <<>> => stack[1].val = asked /\ outcome # "Hit"
OutcomeInv == Searched /\ PureKeys /\ BottomAsked /\ ReportedOutcome

Looks == /\ stack # <<>> /\ Searching(Top)
         /\ \E n \in Nat : /\ n # 0 => FitsAt(Top, n, entries)
                           /\ LookupEnds(n)
         /\ UNCHANGED <<running, asked>>
Asked == \E v \in Value, b \in Budgets : Query(v, b)
Goes == stack # <<>> /\ UNCHANGED <<running, asked, outcome>>
Rests == /\ stack = <<>> /\ ~running' /\ UNCHANGED <<asked, outcome, stack>>

LEMMA SearchEndsOutcome ==
  ASSUME stack # <<>>, Searching(Top), NEW n \in Nat,
         n # 0 => FitsAt(Top, n, entries), SearchEnds(n)
  PROVE  Looks \/ Goes
BY DEF SearchEnds, Looks, Goes, InsertEnds

LEMMA OutcomeKinds ==
  ASSUME TypeInv, [Next]_vars
  PROVE  Asked \/ Rests \/ Goes \/ Looks \/ UNCHANGED vars
<1>1. CASE Host
  BY <1>1 DEF Host, Asked, EndQuery, ClearCache, Rests, TypeInv, Idle
<1>2. CASE ScopeCall
  BY <1>2 DEF ScopeCall, Ask, Asks, InCallback, QueryMemoized, QueryLeaf,
     QueryCycle, QueryEnter, DeclareCost, Freeze, Unfreeze, Unbind, Bind, At, Goes
<1>3. CASE CallbackReturn
  <2>1. ASSUME NEW e \in BOOLEAN, CompareReturn(e) PROVE Looks \/ Goes
    <3>1. stack # <<>> /\ Searching(Top) /\ Top.pc = "compare"
      BY <2>1 DEF CompareReturn, At, Searching
    <3>2. Top.next \in Nat /\ FitsAt(Top, Top.next, entries)
      BY <3>1, TopFacts DEF Fits, Activation
    <3> QED  BY <2>1, <3>1, <3>2, SearchEndsOutcome DEF CompareReturn, Goes
  <2> QED
    BY <1>3, <2>1
    DEF CallbackReturn, Eligible, HashReturn, KeySignal, EvaluateReturn, At, Goes
<1>4. CASE Internal
  <2>1. CASE Charge \/ SearchSkip \/ SearchCompare
    BY <2>1 DEF Charge, SearchSkip, SearchCompare, At, Goes
  <2>2. CASE SearchMiss
    BY <2>2, SearchEndsOutcome DEF SearchMiss, At, Searching
  <2>3. CASE SearchOwn
    <3>1. stack # <<>> /\ Searching(Top) /\ MoreCandidates /\ IsOwn(Candidate)
      BY <2>3 DEF SearchOwn, At, Searching
    <3>2. Top.next \in Nat /\ FitsAt(Top, Top.next, entries)
      BY <3>1, CandidateFits
    <3> QED  BY <2>3, <3>1, <3>2, SearchEndsOutcome DEF SearchOwn
  <2> QED  BY <1>4, <2>1, <2>2, <2>3 DEF Internal
<1> QED  BY <1>1, <1>2, <1>3, <1>4 DEF Next

LEMMA PureKeysStep ==
  ASSUME TypeInv, Searched, PureKeys, [Next]_vars
  PROVE  PureKeys'
<1> SUFFICES ASSUME NEW i \in DOMAIN stack',
                    stack'[i].pc = "getHash" \/ stack'[i].key # Null
             PROVE  stack'[i].val[1] \in Pure
  BY DEF PureKeys
<1>1. CASE stack # <<>> /\ i = Len(stack) /\ Advances(stack'[i])
  <2>1. Top.pc = "getHash" \/ Top.key # Null => TopOp \in Pure
    BY <1>1, TopFacts DEF PureKeys, TopOp, Top
  <2> QED  BY <1>1, <2>1 DEF Advances, TopOp
<1> QED  BY <1>1, SearchKinds DEF Searches, PureKeys

(* The activation of the queried value stays at the bottom.                *)
LEMMA BottomStays ==
  ASSUME TypeInv, TypeInv', Searched, [Next]_vars, stack # <<>>, stack' # <<>>
  PROVE  stack'[1].val = stack[1].val
<1>1. stack' \in Seq(Activation)  BY DEF TypeInv, TypeOK
<1>2. Len(stack') \in Nat \ {0} /\ DOMAIN stack' = 1..Len(stack')
  BY <1>1, EmptySeq, LenProperties
<1>3. 1 \in DOMAIN stack' /\ 1 \in DOMAIN stack  BY <1>2, TopFacts
<1> QED  BY <1>3, SearchKinds DEF Searches, Advances, Top

LEMMA LooksOutcome ==
  ASSUME TypeInv, TypeInv', OutcomeInv, [Next]_vars, Looks
  PROVE  BottomAsked' /\ ReportedOutcome'
<1>1. PICK n \in Nat : (n # 0 => FitsAt(Top, n, entries)) /\ LookupEnds(n)
  BY DEF Looks
<1> DEFINE slot == IF n = 0 THEN NoAnswer
                   ELSE entries[Top.key][n].results[Top.val[2]]
<1>2. /\ outcome' = IF ~Reports THEN outcome
                    ELSE IF slot # NoAnswer THEN "Hit" ELSE "Miss"
      /\ \/ slot # NoAnswer /\ Leave(slot)
         \/ slot = NoAnswer
      /\ entries' = entries
  BY <1>1 DEF LookupEnds, Return
<1> HIDE DEF slot
<1>3. stack # <<>> /\ Searching(Top) /\ asked' = asked  BY DEF Looks
<1>4. stack[1].val = asked /\ outcome # "Hit"  BY <1>3 DEF OutcomeInv, BottomAsked
<1>5. Reports => Top.val = asked  BY <1>4 DEF Reports, Top
<1>6. Top.key \in Key /\ Top.key # Null /\ TopOp \in Pure
  BY <1>3, TopFacts DEF Shaped, Activation, OutcomeInv, PureKeys, TopOp, Top
<1>7. Reports /\ slot # NoAnswer => stack' = <<>> /\ answer' = slot
  <2> SUFFICES ASSUME Reports, slot # NoAnswer PROVE stack' = <<>> /\ answer' = slot
    OBVIOUS
  <2>1. answer' = slot /\ stack' = SubSeq(stack, 1, Len(stack) - 1)
    BY <1>2 DEF Leave
  <2>2. stack' \in Seq(Activation) /\ Len(stack') = 0
    BY <1>3, <2>1, PopFacts DEF Reports
  <2> QED  BY <2>1, <2>2, EmptySeq
<1>8. slot # NoAnswer =>
        \E k \in Key : \E m \in DOMAIN entries[k] :
          /\ Top.val[2] \in DOMAIN entries[k][m].results
          /\ entries[k][m].results[Top.val[2]] = slot
  <2> SUFFICES ASSUME slot # NoAnswer
               PROVE  \E m \in DOMAIN entries[Top.key] :
                        /\ Top.val[2] \in DOMAIN entries[Top.key][m].results
                        /\ entries[Top.key][m].results[Top.val[2]] = slot
    BY <1>6
  <2>1. n # 0 /\ entries[Top.key][n].results[Top.val[2]] = slot  BY DEF slot
  <2>2. /\ n \in DOMAIN entries[Top.key]
        /\ Len(entries[Top.key][n].results) = Arity[TopOp]
    BY <1>1, <1>6, <2>1 DEF FitsAt, Bucket, TopOp
  <2>3. entries[Top.key] \in Seq(Entry)  BY <1>6 DEF TypeInv, TypeOK
  <2>4. entries[Top.key][n] \in Entry  BY <2>2, <2>3, LenProperties, ElementOfSeq
  <2>5. DOMAIN entries[Top.key][n].results = 1..Arity[TopOp]
    BY <2>2, <2>4, LenProperties DEF Entry
  <2>6. Top.val[2] \in 1..Arity[TopOp]  BY <1>3, TopFacts, ValueFacts DEF TopOp
  <2> QED  BY <2>1, <2>2, <2>5, <2>6
<1>9. BottomAsked'
  BY <1>2, <1>3, <1>4, <1>7, BottomStays DEF BottomAsked, OutcomeInv
<1>10. ReportedOutcome'
  BY <1>2, <1>3, <1>4, <1>5, <1>6, <1>7, <1>8
  DEF ReportedOutcome, OutcomeInv, TopOp
<1> QED  BY <1>9, <1>10

LEMMA OutcomeStep ==
  ASSUME TypeInv, TypeInv', OutcomeInv, [Next]_vars
  PROVE  OutcomeInv'
<1>1. Searched' /\ PureKeys'  BY SearchedStep, PureKeysStep DEF OutcomeInv
<1>2. CASE Asked
  <2>1. PICK v \in Value, b \in Budgets : Query(v, b)  BY <1>2 DEF Asked
  <2>2. stack = <<>> /\ asked' = v  BY <2>1 DEF Query, TypeInv, Idle
  <2>3. CASE v \in Result /\ Activate(v) /\ outcome' = "None"
    <3>1. stack'[Len(stack) + 1].val = v
      <4> DEFINE r == [val |-> v, pc |-> "isCacheable", key |-> Null, next |-> 1,
                       entry |-> 0, results |-> <<>>, freezesAt |-> freezes,
                       framesAt |-> Len(frames)]
      <4>1. stack'[Len(stack) + 1] = r  BY <2>3, PushFacts
      <4> QED  BY <4>1
    <3>2. Len(stack) = 0  BY <2>2, EmptySeq
    <3> QED  BY <1>1, <2>2, <2>3, <3>1, <3>2
             DEF OutcomeInv, BottomAsked, ReportedOutcome
  <2>4. CASE v \notin Result /\ UNCHANGED stack
    BY <1>1, <2>2, <2>4 DEF OutcomeInv, BottomAsked, ReportedOutcome
  <2> QED  BY <2>1, <2>3, <2>4 DEF Query
<1>3. CASE Rests
  BY <1>1, <1>3 DEF Rests, OutcomeInv, BottomAsked, ReportedOutcome
<1>4. CASE Goes
  <2>1. stack[1].val = asked /\ outcome' # "Hit" /\ asked' = asked
        /\ outcome' = outcome /\ stack # <<>>
    BY <1>4 DEF Goes, OutcomeInv, BottomAsked
  <2>2. BottomAsked'  BY <2>1, BottomStays DEF BottomAsked, OutcomeInv
  <2>3. ReportedOutcome'  BY <2>1 DEF ReportedOutcome, OutcomeInv
  <2> QED  BY <1>1, <2>2, <2>3 DEF OutcomeInv
<1>5. CASE Looks  BY <1>1, <1>5, LooksOutcome DEF OutcomeInv
<1>6. CASE UNCHANGED vars
  BY <1>1, <1>6 DEF vars, cache, OutcomeInv, BottomAsked, ReportedOutcome
<1> QED  BY <1>2, <1>3, <1>4, <1>5, <1>6, OutcomeKinds

LEMMA InitOutcome == Init => OutcomeInv
BY EmptySeq DEF Init, OutcomeInv, Searched, PureKeys, BottomAsked, ReportedOutcome

LEMMA OutcomeInvariant == Spec => []OutcomeInv
<1>1. TypeInv /\ OutcomeInv /\ [Next]_vars => (TypeInv /\ OutcomeInv)'
  BY TypeStep, OutcomeStep
<1> QED  BY <1>1, InitType, InitOutcome, PTL DEF Spec

(* The outcome query hands to the host is that of the lookup of the queried*)
(* operation itself, and after a hit the answer is in the cache.           *)
THEOREM OutcomeOfAsked == Spec => []ReportedOutcome
<1>1. OutcomeInv => ReportedOutcome  BY DEF OutcomeInv
<1> QED  BY <1>1, OutcomeInvariant, PTL
=============================================================================
