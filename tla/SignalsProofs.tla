--------------------------- MODULE SignalsProofs ---------------------------
(***************************************************************************)
(* Where signals come from, and where they go, in every program.           *)
(***************************************************************************)
EXTENDS Signals, InterpProofs

(* An order of the operations by which each asks only for operations below *)
(* it: there is one in a program in which nothing needs itself.            *)
AsksBelow(rank, o, vs) ==
  \A k \in DOMAIN vs : vs[k] \in Result => rank[vs[k][1]] < rank[o]
Ranks(rank) ==
  \A o \in Op : /\ rank[o] \in Nat
                /\ AsksBelow(rank, o, Operands[o])
                /\ o \in Loops => AsksBelow(rank, o, Yields[o])

(* Some callback at or below the i-th activation compares two operations:  *)
(* only these callbacks ask for what their operation does not need.        *)
Comparing(i) == \E j \in 1..i : stack[j].pc = "compare"

(* What the i-th activation may have heard.                                *)
Justified(a, i, rank) ==
  \/ a \in CompletedAnswer
  \/ a = Signaled("Exhausted") /\ remaining = 0
  \/ a = Signaled("Cycle") /\ (Ranks(rank) => Comparing(i))
AllJustified(answers, i, rank) ==
  \A k \in DOMAIN answers : Justified(answers[k], i, rank)

(* The answers of a loop are all carried, or all the signal that ended it. *)
Whole(answers) ==
  (\E k \in DOMAIN answers : answers[k] \in Known) =>
    \A k \in DOMAIN answers : answers[k] \in CompletedAnswer
AllCompleted(answers) == \A k \in DOMAIN answers : answers[k] \in CompletedAnswer

HoldsJustified(r, l, i, rank) ==
  /\ AllJustified(l.heard, i, rank)
  /\ AllJustified(l.results, i, rank) /\ Whole(l.results)
  /\ AllCompleted(r.results)

(* Without a comparison in between, an activation is below those it serves.*)
Descends(rank) ==
  Ranks(rank) =>
    \A i, j \in 1..Len(stack) :
      i < j /\ (\A k \in i..(j - 1) : stack[k].pc # "compare") =>
        rank[stack[j].val[1]] < rank[stack[i].val[1]]

SignalsInv(rank) ==
  /\ Answered => Justified(answer, 0, rank)
  /\ \A i \in 1..Len(stack) : HoldsJustified(stack[i], locals[i], i, rank)
  /\ Descends(rank)

-----------------------------------------------------------------------------
LEMMA JustifiedFacts ==
  ASSUME NEW rank
  PROVE  /\ \A i \in Nat, a \in CompletedAnswer : Justified(a, i, rank)
         /\ \A i \in Nat : AllJustified(<<>>, i, rank)
         /\ Whole(<<>>) /\ AllCompleted(<<>>)
         /\ \A i \in Nat : AllJustified(Fresh.heard, i, rank)
                           /\ AllJustified(Fresh.results, i, rank)
         /\ Whole(Fresh.results)
<1>1. DOMAIN <<>> = {}  OBVIOUS
<1>2. Fresh.heard = <<>> /\ Fresh.results = <<>>  BY DEF Fresh
<1>3. /\ \A i \in Nat : AllJustified(<<>>, i, rank)
      /\ Whole(<<>>) /\ AllCompleted(<<>>)
  BY <1>1 DEF AllJustified, Whole, AllCompleted
<1> QED  BY <1>2, <1>3 DEF Justified

(* A step that leaves the first m activations, and gives no step back,     *)
(* leaves what they have heard justified.                                  *)
SameBelow(m) == \A i \in 1..m : stack'[i] = stack[i]
Spends == remaining = 0 => remaining' = 0

LEMMA StaysJustified ==
  ASSUME NEW rank, NEW m \in Nat, SameBelow(m), Spends, NEW i \in 0..m
  PROVE  /\ \A a : Justified(a, i, rank) => Justified(a, i, rank)'
         /\ \A xs : AllJustified(xs, i, rank) => AllJustified(xs, i, rank)'
<1>1. Comparing(i) => Comparing(i)'
  <2> SUFFICES ASSUME NEW j \in 1..i, stack[j].pc = "compare" PROVE Comparing(i)'
    BY DEF Comparing
  <2>1. j \in 1..m  OBVIOUS
  <2> QED  BY <2>1 DEF Comparing, SameBelow
<1>2. \A a : Justified(a, i, rank) => Justified(a, i, rank)'
  BY <1>1 DEF Justified, Spends
<1> QED  BY <1>2 DEF AllJustified

(* An activation whose callback compares keeps the cycles it hears to      *)
(* itself: what it returns its answer with is justified below it.          *)
LEMMA JustifiedBelow ==
  ASSUME NEW rank, NEW n \in Nat \ {0}, SameBelow(n - 1), Spends,
         stack[n].pc # "compare", NEW a, Justified(a, n, rank)
  PROVE  Justified(a, n - 1, rank)'
<1>1. Comparing(n) => Comparing(n - 1)
  <2> SUFFICES ASSUME NEW j \in 1..n, stack[j].pc = "compare" PROVE Comparing(n - 1)
    BY DEF Comparing
  <2>1. j # n  OBVIOUS
  <2>2. j \in 1..(n - 1)  BY <2>1
  <2> QED  BY <2>2 DEF Comparing
<1>2. Justified(a, n - 1, rank)  BY <1>1 DEF Justified
<1>3. n - 1 \in Nat /\ n - 1 \in 0..(n - 1)  OBVIOUS
<1> QED  BY <1>2, <1>3, StaysJustified
-----------------------------------------------------------------------------
(* The ways a step changes the stack and the locals.                       *)

LEMMA StackSizes ==
  ASSUME InterpInv, stack # <<>>
  PROVE  /\ Len(stack) \in Nat \ {0} /\ Len(locals) = Len(stack)
         /\ locals \in Seq(LocalRecord) /\ Local = locals[Len(stack)]
         /\ Top = stack[Len(stack)] /\ Top \in Activation
BY LocalsFacts, TopFacts DEF InterpInv, LocalsInv, Top

(* What the activations and their locals are after a step.                 *)
LEMMA HearFacts ==
  ASSUME InterpInv, stack # <<>>, NEW a \in Answer, locals' = Hears(locals, a)
  PROVE  /\ Len(locals') = Len(stack)
         /\ \A i \in 1..Len(stack) :
              locals'[i] = IF i = Len(stack)
                           THEN [locals[i] EXCEPT !.heard = Append(@, a)]
                           ELSE locals[i]
<1> PICK n : n = Len(stack)  OBVIOUS
<1>1. n \in Nat \ {0} /\ Len(locals) = n /\ locals \in Seq(LocalRecord)
  BY StackSizes
<1>2. /\ Len(Hears(locals, a)) = Len(locals)
      /\ \A i \in 1..Len(locals) :
           Hears(locals, a)[i] = IF i = Len(locals)
                                 THEN [locals[i] EXCEPT !.heard = Append(@, a)]
                                 ELSE locals[i]
  BY <1>1, HearsFacts
<1> QED  BY <1>1, <1>2

LEMMA PoppedFacts ==
  ASSUME InterpInv, stack # <<>>, stack' = SubSeq(stack, 1, Len(stack) - 1),
         NEW a \in Answer, locals' = Hears(SubSeq(locals, 1, Len(locals) - 1), a)
  PROVE  /\ Len(stack') = Len(stack) - 1
         /\ \A i \in 1..(Len(stack) - 1) :
              /\ stack'[i] = stack[i]
              /\ locals'[i] = IF i = Len(stack) - 1
                              THEN [locals[i] EXCEPT !.heard = Append(@, a)]
                              ELSE locals[i]
<1> PICK n : n = Len(stack)  OBVIOUS
<1>1. n \in Nat \ {0} /\ Len(locals) = n /\ locals \in Seq(LocalRecord)
  BY StackSizes
<1>2. Len(stack') = n - 1 /\ \A i \in 1..(n - 1) : stack'[i] = stack[i]
  BY PopFacts DEF InterpInv
<1> DEFINE ls == SubSeq(locals, 1, n - 1)
<1>3. ls \in Seq(LocalRecord) /\ Len(ls) = n - 1
      /\ \A i \in 1..(n - 1) : ls[i] = locals[i]
  <2>1. \A i \in 1..(n - 1) : locals[i] \in LocalRecord  BY <1>1, ElementOfSeq
  <2>2. /\ ls \in Seq(LocalRecord)
        /\ Len(ls) = IF 1 <= n - 1 THEN (n - 1) - 1 + 1 ELSE 0
        /\ \A i \in 1..((n - 1) - 1 + 1) : ls[i] = locals[1 + i - 1]
    BY <1>1, <2>1, SubSeqProperties
  <2>3. \A m \in Nat \ {0} : (IF 1 <= m - 1 THEN (m - 1) - 1 + 1 ELSE 0) = m - 1
    OBVIOUS
  <2>4. ASSUME NEW i \in 1..(n - 1) PROVE ls[i] = locals[i]
    <3>1. i \in 1..((n - 1) - 1 + 1) /\ 1 + i - 1 = i  BY <1>1
    <3> QED  BY <2>2, <3>1
  <2> QED  BY <1>1, <2>2, <2>3, <2>4
<1>4. locals' = Hears(ls, a)  BY <1>1
<1> HIDE DEF ls
<1>5. \A i \in 1..Len(ls) :
        Hears(ls, a)[i] = IF i = Len(ls)
                          THEN [ls[i] EXCEPT !.heard = Append(@, a)]
                          ELSE ls[i]
  BY <1>3, HearsFacts
<1> QED  BY <1>1, <1>2, <1>3, <1>4, <1>5

LEMMA PushedFacts ==
  ASSUME InterpInv, NEW v \in Result, Activate(v), locals' = Append(locals, Fresh)
  PROVE  /\ Len(stack') = Len(stack) + 1
         /\ \A i \in 1..Len(stack) : stack'[i] = stack[i] /\ locals'[i] = locals[i]
         /\ locals'[Len(stack) + 1] = Fresh
         /\ stack'[Len(stack) + 1].val = v
         /\ stack'[Len(stack) + 1].pc = "isCacheable"
         /\ stack'[Len(stack) + 1].results = <<>>
<1> PICK n : n = Len(stack)  OBVIOUS
<1>1. /\ n \in Nat /\ Len(locals) = n /\ locals \in Seq(LocalRecord)
      /\ stack \in Seq(Activation)
  BY LenProperties DEF InterpInv, LocalsInv, TypeInv, TypeOK
<1>2. Len(stack') = n + 1 /\ \A i \in 1..n : stack'[i] = stack[i]
  BY PushFacts DEF InterpInv
<1>3. PICK r : r = [val |-> v, pc |-> "isCacheable", key |-> Null, next |-> 1,
                    entry |-> 0, results |-> <<>>, freezesAt |-> freezes,
                    framesAt |-> Len(frames)]
  OBVIOUS
<1>4. r \in Activation  BY <1>3, PushFacts DEF InterpInv
<1>5. stack' = Append(stack, r)  BY <1>3 DEF Activate
<1>6. stack'[n + 1] = r  BY <1>1, <1>4, <1>5, AppendProperties
<1>7. Fresh \in LocalRecord  BY EmptySeq DEF Fresh, LocalRecord
<1>8. locals'[n + 1] = Fresh /\ \A i \in 1..n : locals'[i] = locals[i]
  BY <1>1, <1>7, AppendProperties
<1>9. r.val = v /\ r.pc = "isCacheable" /\ r.results = <<>>  BY <1>3
<1> QED  BY <1>2, <1>6, <1>8, <1>9

LEMMA LowerHolds ==
  ASSUME InterpInv, NEW rank, SignalsInv(rank), NEW m \in Nat, m <= Len(stack),
         SameBelow(m), Spends, NEW i \in 1..m, locals'[i] = locals[i]
  PROVE  HoldsJustified(stack[i], locals[i], i, rank)'
<1>1. i \in 0..m /\ i \in 1..Len(stack)
  BY Sizes DEF InterpInv
<1>2. HoldsJustified(stack[i], locals[i], i, rank)  BY <1>1 DEF SignalsInv
<1>3. stack'[i] = stack[i]  BY DEF SameBelow
<1>4. \A xs : AllJustified(xs, i, rank) => AllJustified(xs, i, rank)'
  BY <1>1, StaysJustified
<1> QED  BY <1>2, <1>3, <1>4 DEF HoldsJustified

(* The activations that remain serve each other as before.                 *)
LEMMA DescendsBelow ==
  ASSUME InterpInv, NEW rank, Descends(rank), NEW m \in Nat, m <= Len(stack),
         Len(stack') = m, SameBelow(m - 1),
         m # 0 => stack'[m].val = stack[m].val
  PROVE  Descends(rank)'
<1> SUFFICES ASSUME Ranks(rank), NEW i \in 1..m, NEW j \in 1..m, i < j,
                    \A k \in i..(j - 1) : stack'[k].pc # "compare"
             PROVE  rank[stack'[j].val[1]] < rank[stack'[i].val[1]]
  BY DEF Descends, Ranks, AsksBelow
<1>1. Len(stack) \in Nat  BY Sizes DEF InterpInv
<1>2. \A k \in 1..m : stack'[k].val = stack[k].val
  <2> SUFFICES ASSUME NEW k \in 1..m, k # m PROVE stack'[k].val = stack[k].val
    OBVIOUS
  <2>1. k \in 1..(m - 1)  OBVIOUS
  <2> QED  BY <2>1 DEF SameBelow
<1>3. \A k \in i..(j - 1) : stack[k].pc # "compare"
  <2> SUFFICES ASSUME NEW k \in i..(j - 1) PROVE stack[k].pc = stack'[k].pc
    OBVIOUS
  <2>1. k \in 1..(m - 1)  OBVIOUS
  <2> QED  BY <2>1 DEF SameBelow
<1>4. i \in 1..Len(stack) /\ j \in 1..Len(stack)  BY <1>1
<1>5. rank[stack[j].val[1]] < rank[stack[i].val[1]]  BY <1>3, <1>4 DEF Descends
<1> QED  BY <1>2, <1>5

(* The top callback goes on, or the next one begins.                       *)
LEMMA SetSignals ==
  ASSUME InterpInv, stack # <<>>, NEW rank, SignalsInv(rank), Spends,
         Len(stack') = Len(stack), SameBelow(Len(stack) - 1),
         stack'[Len(stack)].val = Top.val,
         AllCompleted(stack'[Len(stack)].results),
         NEW l \in LocalRecord, SetLocal(l),
         AllJustified(l.heard, Len(stack), rank)',
         AllJustified(l.results, Len(stack), rank)', Whole(l.results)
  PROVE  SignalsInv(rank)'
<1> PICK n : n = Len(stack)  OBVIOUS
<1>1. n \in Nat \ {0} /\ Len(locals) = n /\ locals \in Seq(LocalRecord)
      /\ Top = stack[n]
  BY StackSizes
<1>2. /\ locals' \in Seq(LocalRecord) /\ Len(locals') = n
      /\ \A i \in 1..n : locals'[i] = IF i = n THEN l ELSE locals[i]
  BY <1>1, ExceptSeq DEF SetLocal
<1>3. ~Answered'  BY <1>1, EmptySeq DEF Answered
<1>4. ASSUME NEW i \in 1..n
      PROVE  HoldsJustified(stack[i], locals[i], i, rank)'
  <2>1. CASE i = n
    <3>1. locals'[n] = l  BY <1>1, <1>2
    <3>2. HoldsJustified(stack[n], locals[n], n, rank)'
      <4>1. AllJustified(l.heard, n, rank)' /\ AllJustified(l.results, n, rank)'
        BY <1>1
      <4> QED  BY <3>1, <4>1 DEF HoldsJustified
    <3> QED  BY <2>1, <3>2
  <2>2. CASE i # n
    <3>1. n - 1 \in Nat /\ n - 1 <= Len(stack) /\ i \in 1..(n - 1)
      BY <1>1, <2>2
    <3>2. locals'[i] = locals[i] /\ SameBelow(n - 1)  BY <1>2, <2>2
    <3> QED  BY <3>1, <3>2, LowerHolds
  <2> QED  BY <2>1, <2>2
<1>5. Descends(rank)'
  <2>1. Descends(rank)  BY DEF SignalsInv
  <2> QED  BY <1>1, <2>1, DescendsBelow
<1> QED  BY <1>3, <1>4, <1>5 DEF SignalsInv

(* The top callback hears an answer.                                       *)
LEMMA AppendElements ==
  ASSUME NEW xs \in Seq(Answer), NEW a \in Answer
  PROVE  \A k \in DOMAIN Append(xs, a) :
           \/ k = Len(xs) + 1 /\ Append(xs, a)[k] = a
           \/ k \in DOMAIN xs /\ Append(xs, a)[k] = xs[k]
<1> PICK ys : ys = Append(xs, a)  OBVIOUS
<1>1. ys \in Seq(Answer) /\ Len(ys) = Len(xs) + 1  BY AppendProperties
<1>2. ys[Len(xs) + 1] = a  BY AppendProperties
<1>3. \A k \in 1..Len(xs) : ys[k] = xs[k]  BY AppendProperties
<1>4. Len(xs) \in Nat /\ DOMAIN xs = 1..Len(xs)  BY LenProperties
<1>5. DOMAIN ys = 1..(Len(xs) + 1)  BY <1>1, LenProperties
<1>6. \A k \in DOMAIN ys : \/ k = Len(xs) + 1 /\ ys[k] = a
                           \/ k \in DOMAIN xs /\ ys[k] = xs[k]
  BY <1>2, <1>3, <1>4, <1>5
<1> QED  BY <1>6

LEMMA HearsSignal ==
  ASSUME NEW rank, NEW r, NEW l \in LocalRecord, NEW i, NEW a \in Answer,
         HoldsJustified(r, l, i, rank), Justified(a, i, rank)
  PROVE  HoldsJustified(r, [l EXCEPT !.heard = Append(@, a)], i, rank)
<1>1. l.heard \in Seq(Answer)  BY DEF LocalRecord
<1>2. AllJustified(Append(l.heard, a), i, rank)
  BY <1>1, AppendElements DEF HoldsJustified, AllJustified
<1>3. /\ [l EXCEPT !.heard = Append(@, a)].heard = Append(l.heard, a)
      /\ [l EXCEPT !.heard = Append(@, a)].results = l.results
  BY DEF LocalRecord
<1> QED  BY <1>2, <1>3 DEF HoldsJustified

LEMMA HearSignals ==
  ASSUME InterpInv, stack # <<>>, NEW rank, SignalsInv(rank),
         UNCHANGED <<stack, remaining>>, answer' \in Answer,
         locals' = Hears(locals, answer'), Justified(answer', Len(stack), rank)
  PROVE  SignalsInv(rank)'
<1> PICK n, a : n = Len(stack) /\ a = answer'  OBVIOUS
<1>1. n \in Nat \ {0} /\ Len(locals) = n /\ locals \in Seq(LocalRecord)
  BY StackSizes
<1>2. /\ Len(locals') = n
      /\ \A i \in 1..n : locals'[i] = IF i = n
                                      THEN [locals[n] EXCEPT !.heard = Append(@, a)]
                                      ELSE locals[i]
  <2>1. a \in Answer /\ locals' = Hears(locals, a)  OBVIOUS
  <2> QED  BY <1>1, <2>1, HearFacts
<1>3. ~Answered'  BY DEF Answered
<1>4. \A xs, i : AllJustified(xs, i, rank) => AllJustified(xs, i, rank)'
  BY DEF AllJustified, Justified, Comparing
<1>5. ASSUME NEW i \in 1..n
      PROVE  HoldsJustified(stack[i], locals[i], i, rank)'
  <2>1. HoldsJustified(stack[i], locals[i], i, rank)  BY DEF SignalsInv
  <2>2. HoldsJustified(stack[i], locals'[i], i, rank)
    <3>1. CASE i = n
      <4>1. locals[n] \in LocalRecord  BY <1>1, ElementOfSeq
      <4>2. a \in Answer /\ Justified(a, n, rank)  OBVIOUS
      <4>3. HoldsJustified(stack[n], [locals[n] EXCEPT !.heard = Append(@, a)], n, rank)
        BY <2>1, <3>1, <4>1, <4>2, HearsSignal
      <4> QED  BY <1>2, <3>1, <4>3
    <3>2. CASE i # n  BY <1>2, <2>1, <3>2
    <3> QED  BY <3>1, <3>2
  <2> QED  BY <1>4, <2>2 DEF HoldsJustified
<1>6. Descends(rank)'  BY DEF SignalsInv, Descends, Ranks, AsksBelow
<1> QED  BY <1>3, <1>5, <1>6 DEF SignalsInv

(* compute returns to the callback that asked, or to query.                *)
LEMMA PopSignals ==
  ASSUME InterpInv, stack # <<>>, NEW rank, SignalsInv(rank), UNCHANGED remaining,
         stack' = SubSeq(stack, 1, Len(stack) - 1), answer' \in Answer,
         locals' = Hears(SubSeq(locals, 1, Len(locals) - 1), answer'),
         Justified(answer, Len(stack), rank)'
  PROVE  SignalsInv(rank)'
<1> PICK n, a : n = Len(stack) /\ a = answer'  OBVIOUS
<1>1. n \in Nat \ {0} /\ Len(locals) = n /\ locals \in Seq(LocalRecord)
  BY StackSizes
<1>2. /\ Len(stack') = n - 1
      /\ \A i \in 1..(n - 1) :
           /\ stack'[i] = stack[i]
           /\ locals'[i] = IF i = n - 1 THEN [locals[i] EXCEPT !.heard = Append(@, a)]
                           ELSE locals[i]
  <2>1. a \in Answer /\ locals' = Hears(SubSeq(locals, 1, Len(locals) - 1), a)
    OBVIOUS
  <2> QED  BY <2>1, PoppedFacts
<1>3. SameBelow(n - 1) /\ Spends  BY <1>2 DEF SameBelow, Spends
<1>4. a \in Answer /\ Justified(a, n - 1, rank)'
  BY <1>2 DEF Justified, Comparing
<1>5. Answered' => Justified(answer, 0, rank)'
  <2> SUFFICES ASSUME Answered' PROVE Justified(answer, 0, rank)'  OBVIOUS
  <2>1. stack' = <<>>  BY DEF Answered
  <2>2. Len(stack') = 0  BY <2>1, EmptySeq
  <2> QED  BY <2>2 DEF Justified, Comparing
<1>6. ASSUME NEW i \in 1..(n - 1)
      PROVE  HoldsJustified(stack[i], locals[i], i, rank)'
  <2>1. i \in 0..(n - 1) /\ n - 1 \in Nat /\ i \in 1..Len(stack)  BY <1>1
  <2>2. HoldsJustified(stack[i], locals[i], i, rank)  BY <2>1 DEF SignalsInv
  <2>3. \A xs : AllJustified(xs, i, rank) => AllJustified(xs, i, rank)'
    BY <1>3, <2>1, StaysJustified
  <2>4. CASE i = n - 1
    <3> PICK hs, rs : hs = locals[i].heard /\ rs = locals[i].results  OBVIOUS
    <3>1. locals[i] \in LocalRecord  BY <1>1, <2>1, ElementOfSeq
    <3>2. locals'[i].heard = Append(hs, a) /\ locals'[i].results = rs
          /\ hs \in Seq(Answer)
      BY <1>2, <2>4, <3>1 DEF LocalRecord
    <3>3. AllJustified(hs, i, rank)' /\ AllJustified(rs, i, rank)' /\ Whole(rs)
      BY <2>2, <2>3 DEF HoldsJustified
    <3>4. AllJustified(Append(hs, a), i, rank)'
      BY <1>4, <2>4, <3>2, <3>3, AppendElements DEF AllJustified
    <3>5. AllCompleted(stack'[i].results)
      BY <1>2, <2>2 DEF HoldsJustified
    <3> QED  BY <3>2, <3>3, <3>4, <3>5 DEF HoldsJustified
  <2>5. CASE i # n - 1
    <3>1. locals'[i] = locals[i]  BY <1>2, <2>5
    <3>2. n - 1 <= Len(stack)  BY <1>1
    <3> QED  BY <1>3, <2>1, <3>1, <3>2, LowerHolds
  <2> QED  BY <2>4, <2>5
<1>7. Descends(rank)'
  <2>1. Descends(rank) /\ n - 1 \in Nat /\ n - 1 <= Len(stack)
    BY <1>1 DEF SignalsInv
  <2>2. SameBelow((n - 1) - 1) /\ (n - 1 # 0 => stack'[n - 1].val = stack[n - 1].val)
    BY <1>1, <1>2 DEF SameBelow
  <2> QED  BY <1>2, <2>1, <2>2, DescendsBelow
<1> QED  BY <1>2, <1>5, <1>6, <1>7 DEF SignalsInv

(* A nested compute begins, below the operation that asked for its value.  *)
LEMMA PushSignals ==
  ASSUME InterpInv, NEW rank, SignalsInv(rank), stack # <<>> => UNCHANGED remaining,
         NEW v \in Result, Activate(v), locals' = Append(locals, Fresh),
         Ranks(rank) /\ stack # <<>> /\ Top.pc # "compare" => rank[v[1]] < rank[TopOp]
  PROVE  SignalsInv(rank)'
<1> PICK n : n = Len(stack)  OBVIOUS
<1>1. /\ n \in Nat /\ Len(locals) = n /\ locals \in Seq(LocalRecord)
      /\ \A i \in 1..n : stack[i] \in Activation
  BY LenProperties, ElementOfSeq DEF InterpInv, LocalsInv, TypeInv, TypeOK
<1>2. /\ Len(stack') = n + 1 /\ \A i \in 1..n : stack'[i] = stack[i]
      /\ stack'[n + 1].val = v /\ stack'[n + 1].results = <<>>
  BY PushedFacts
<1>3. \A i \in 1..n : locals'[i] = locals[i]  BY PushedFacts
<1>4. locals'[n + 1] = Fresh  BY PushedFacts
<1>5. ~Answered'
  <2>1. stack' # <<>>  BY <1>1, <1>2, EmptySeq
  <2> QED  BY <2>1 DEF Answered
<1>6. ASSUME NEW i \in 1..(n + 1)
      PROVE  HoldsJustified(stack[i], locals[i], i, rank)'
  <2>1. CASE i = n + 1
    <3>1. stack'[i].results = <<>> /\ locals'[i] = Fresh  BY <1>2, <1>4, <2>1
    <3>2. AllCompleted(<<>>) /\ Whole(Fresh.results)  BY JustifiedFacts
    <3>3. Fresh.heard = <<>> /\ Fresh.results = <<>>  BY DEF Fresh
    <3>4. AllJustified(Fresh.heard, i, rank)' /\ AllJustified(Fresh.results, i, rank)'
      BY <3>3 DEF AllJustified
    <3> QED  BY <3>1, <3>2, <3>4 DEF HoldsJustified
  <2>2. CASE i # n + 1
    <3>1. i \in 1..n /\ n <= Len(stack)  BY <1>1, <2>2
    <3>2. SameBelow(n) /\ locals'[i] = locals[i]  BY <1>2, <1>3, <3>1 DEF SameBelow
    <3>3. stack # <<>>  BY <1>1, <3>1, EmptySeq
    <3>4. Spends  BY <3>3 DEF Spends
    <3> QED  BY <1>1, <3>1, <3>2, <3>4, LowerHolds
  <2> QED  BY <2>1, <2>2
<1>7. Descends(rank)'
  <2> SUFFICES ASSUME Ranks(rank), NEW i \in 1..(n + 1), NEW j \in 1..(n + 1), i < j,
                      \A k \in i..(j - 1) : stack'[k].pc # "compare"
               PROVE  rank[stack'[j].val[1]] < rank[stack'[i].val[1]]
    BY <1>2 DEF Descends, Ranks, AsksBelow
  <2>1. \A k \in i..(j - 1) : k \in 1..n  BY <1>1
  <2>2. \A k \in i..(j - 1) : stack[k].pc # "compare"  BY <1>2, <2>1
  <2>3. ASSUME NEW m \in 1..n, i < m, m < j
        PROVE  rank[stack[m].val[1]] < rank[stack[i].val[1]]
    <3>1. \A k \in i..(m - 1) : k \in i..(j - 1)  BY <1>1, <2>3
    <3>2. i \in 1..n  BY <1>1, <2>3
    <3> QED  BY <1>1, <2>2, <2>3, <3>1, <3>2 DEF SignalsInv, Descends
  <2>4. CASE j # n + 1
    <3>1. j \in 1..n /\ i \in 1..n  BY <1>1, <2>4
    <3> QED  BY <1>1, <1>2, <2>2, <3>1 DEF SignalsInv, Descends
  <2>5. CASE j = n + 1
    <3>1. i \in 1..n /\ n \in 1..n /\ n \in i..(j - 1)  BY <1>1, <2>5
    <3>2. stack # <<>> /\ Top = stack[n]  BY <1>1, <3>1, EmptySeq DEF Top
    <3>3. rank[v[1]] < rank[stack[n].val[1]]  BY <2>2, <3>1, <3>2 DEF TopOp
    <3>4. \A k \in 1..n : rank[stack[k].val[1]] \in Nat
      <4>1. \A k \in 1..n : stack[k].val[1] \in Op
        BY <1>1, ValueFacts DEF Activation
      <4> QED  BY <4>1 DEF Ranks
    <3>5. rank[v[1]] \in Nat  BY ValueFacts DEF Ranks
    <3>6. stack'[j].val = v /\ stack'[i] = stack[i]  BY <1>2, <2>5, <3>1
    <3>7. CASE i = n  BY <3>3, <3>6, <3>7
    <3>8. CASE i # n
      <4>1. i < n /\ n < j  BY <1>1, <2>5, <3>1, <3>8
      <4>2. rank[stack[n].val[1]] < rank[stack[i].val[1]]  BY <2>3, <3>1, <4>1
      <4> QED  BY <3>1, <3>3, <3>4, <3>5, <3>6, <4>2
    <3> QED  BY <3>7, <3>8
  <2> QED  BY <2>4, <2>5
<1> QED  BY <1>2, <1>5, <1>6, <1>7 DEF SignalsInv

(* An operation asks for its operands, and a loop for its yields too; only *)
(* a comparison asks for those of the candidate.                           *)
LEMMA AsksLower ==
  ASSUME InterpInv, stack # <<>>, NEW rank, Ranks(rank), Top.pc # "compare",
         NEW v \in Wants, v \in Result
  PROVE  rank[v[1]] < rank[TopOp]
<1>1. TopOp \in Op /\ Heard \in Seq(Answer) /\ Len(Heard) \in Nat
  BY TopFacts, HeardType DEF InterpInv
<1>2. Operands[TopOp] \in Seq(Value) /\ DOMAIN Operands[TopOp] = 1..Len(Operands[TopOp])
      /\ Len(Operands[TopOp]) \in Nat
  BY <1>1, ProgramFacts, LenProperties
<1>3. \A k \in 1..Len(Operands[TopOp]) :
        Operands[TopOp][k] \in Result => rank[Operands[TopOp][k][1]] < rank[TopOp]
  BY <1>1, <1>2 DEF Ranks, AsksBelow
<1>4. CASE v \in BinaryWants(TopOp, Heard) /\ TopOp \notin Loops
  <2>1. v = Operands[TopOp][Len(Heard) + 1] /\ BinaryPending(TopOp, Heard)
    BY <1>4 DEF BinaryWants
  <2>2. Len(Heard) = 0 \/ Len(Heard) = 1  BY <2>1, EmptySeq DEF BinaryPending
  <2>3. Len(Operands[TopOp]) = 2  BY <1>1, <1>4, InterpAssumption
  <2>4. Len(Heard) + 1 \in 1..Len(Operands[TopOp])
    <3>1. 0 + 1 \in 1..2 /\ 1 + 1 \in 1..2  OBVIOUS
    <3> QED  BY <2>2, <2>3, <3>1
  <2> QED  BY <1>3, <2>1, <2>4
<1>5. CASE /\ TopOp \in Loops /\ Len(Heard) < Len(Operands[TopOp])
           /\ v = Operands[TopOp][Len(Heard) + 1]
  BY <1>1, <1>2, <1>3, <1>5
<1>6. CASE /\ TopOp \in Loops /\ Len(Heard) < Len(Yields[TopOp])
           /\ v = Yields[TopOp][Len(Heard) + 1]
  <2>1. Yields[TopOp] \in Seq(Value)  BY <1>6, ProgramFacts
  <2>2. DOMAIN Yields[TopOp] = 1..Len(Yields[TopOp]) /\ Len(Yields[TopOp]) \in Nat
    BY <2>1, LenProperties
  <2>3. \A k \in 1..Len(Yields[TopOp]) :
          Yields[TopOp][k] \in Result => rank[Yields[TopOp][k][1]] < rank[TopOp]
    BY <1>1, <1>6, <2>2 DEF Ranks, AsksBelow
  <2> QED  BY <1>1, <1>6, <2>2, <2>3
<1>7. v \in HashWants(TopOp) \/ v \in EvaluateWants(TopOp)
  BY DEF Wants
<1>8. ASSUME v \in HashWants(TopOp) PROVE rank[v[1]] < rank[TopOp]
  BY <1>4, <1>5, <1>8 DEF HashWants, ForHashPending
<1>9. ASSUME v \in EvaluateWants(TopOp) PROVE rank[v[1]] < rank[TopOp]
  BY <1>4, <1>5, <1>6, <1>9 DEF EvaluateWants, ForPending, ForHashPending, MoreYields
<1> QED  BY <1>7, <1>8, <1>9

(* Asking for an operation in progress: without a comparison in between,   *)
(* none of the activations below can be of what the top needs.             *)
LEMMA CycleJustified ==
  ASSUME InterpInv, CycleGuard, NEW rank, Descends(rank), stack # <<>>,
         NEW v \in Wants, v \in Result, v[1] \in active
  PROVE  Justified(Signaled("Cycle"), Len(stack), rank)
<1> PICK n : n = Len(stack)  OBVIOUS
<1>1. n \in Nat \ {0} /\ Top = stack[n] /\ DOMAIN stack = 1..n
      /\ \A i \in 1..n : stack[i].val[1] \in Op
  <2>1. n \in Nat \ {0} /\ DOMAIN stack = 1..n
    BY TopFacts DEF InterpInv
  <2>2. \A i \in 1..n : stack[i] \in Activation
    BY ElementOfSeq DEF InterpInv, TypeInv, TypeOK
  <2> QED  BY <2>1, <2>2, ValueFacts DEF Top, Activation
<1>2. PICK i \in 1..n : stack[i].val[1] = v[1]  BY <1>1 DEF CycleGuard
<1> SUFFICES ASSUME Ranks(rank), ~Comparing(n) PROVE FALSE
  BY DEF Justified
<1>3. \A k \in 1..n : stack[k].pc # "compare"  BY DEF Comparing
<1>4. rank[v[1]] < rank[TopOp]
  <2>1. Top.pc # "compare"  BY <1>1, <1>3
  <2> QED  BY <2>1, AsksLower
<1>5. TopOp = stack[n].val[1]  BY <1>1 DEF TopOp
<1>6. \A k \in 1..n : rank[stack[k].val[1]] \in Nat  BY <1>1 DEF Ranks
<1>7. CASE i = n
  BY <1>1, <1>2, <1>4, <1>5, <1>6, <1>7
<1>8. CASE i # n
  <2>1. i < n /\ n \in 1..n  BY <1>1, <1>8
  <2>2. \A k \in i..(n - 1) : stack[k].pc # "compare"  BY <1>1, <1>3
  <2>3. rank[stack[n].val[1]] < rank[stack[i].val[1]]
    BY <2>1, <2>2 DEF Descends
  <2> QED  BY <1>1, <1>2, <1>4, <1>5, <1>6, <2>3
<1> QED  BY <1>7, <1>8

LEMMA AskSignals ==
  ASSUME InterpInv, CycleGuard, NEW rank, SignalsInv(rank), AskStep
  PROVE  SignalsInv(rank)'
<1>1. PICK v : v \in Wants /\ Ask(v)  BY DEF AskStep
<1>2. stack # <<>> /\ AskLocals /\ UNCHANGED remaining
  BY <1>1 DEF AskStep, InCallback, Ask, QueryMemoized, QueryLeaf, QueryCycle,
     QueryEnter
<1>3. v \in Value  BY <1>1, AskedValue DEF InterpInv
<1>4. Len(stack) \in Nat  BY <1>2, StackSizes
<1>5. ASSUME UNCHANGED stack, answer' \in Answer,
             Justified(answer', Len(stack), rank)
      PROVE  SignalsInv(rank)'
  <2>1. locals' = Hears(locals, answer')  BY <1>2, <1>4, <1>5 DEF AskLocals
  <2> QED  BY <1>2, <1>5, <2>1, HearSignals
<1>6. CASE QueryMemoized(v)
  <2>1. memo[v] \in Memo
    BY <1>3, <1>6 DEF QueryMemoized, InterpInv, TypeInv, TypeOK
  <2>2. answer' \in CompletedAnswer /\ UNCHANGED stack
    BY <1>6, <2>1 DEF QueryMemoized, Memo
  <2> QED  BY <1>4, <1>5, <2>2, AnswerFacts, JustifiedFacts
<1>7. CASE QueryLeaf(v)
  <2>1. answer' \in CompletedAnswer /\ UNCHANGED stack
    BY <1>3, <1>7, LeafType DEF QueryLeaf, InterpInv
  <2> QED  BY <1>4, <1>5, <2>1, AnswerFacts, JustifiedFacts
<1>8. CASE QueryCycle(v)
  <2>1. /\ answer' = Signaled("Cycle") /\ UNCHANGED stack
        /\ v \in Result /\ v[1] \in active
    BY <1>8 DEF QueryCycle, Reenters, InProgress
  <2>2. Signaled("Cycle") \in Answer  BY AnswerFacts, AnswerAssumption
  <2>3. Justified(Signaled("Cycle"), Len(stack), rank)
    BY <1>1, <1>2, <2>1, CycleJustified DEF SignalsInv
  <2> QED  BY <1>5, <2>1, <2>2, <2>3
<1>9. CASE QueryEnter(v)
  <2>1. v \in Result /\ Activate(v)  BY <1>9 DEF QueryEnter
  <2>2. Len(stack') = Len(stack) + 1  BY <2>1, PushFacts DEF InterpInv
  <2>3. locals' = Append(locals, Fresh)  BY <1>2, <1>4, <2>2 DEF AskLocals
  <2>4. Ranks(rank) /\ Top.pc # "compare" => rank[v[1]] < rank[TopOp]
    BY <1>1, <1>2, <2>1, AsksLower
  <2> QED  BY <1>2, <2>1, <2>3, <2>4, PushSignals
<1> QED  BY <1>1, <1>6, <1>7, <1>8, <1>9 DEF Ask

LEMMA HostSignals ==
  ASSUME InterpInv, NEW rank, SignalsInv(rank), HostStep
  PROVE  SignalsInv(rank)'
<1>1. stack = <<>> /\ Len(stack) = 0 /\ locals = <<>>
  <2>1. stack = <<>>  BY DEF HostStep, Host, Query, EndQuery, ClearCache, InterpInv,
                             TypeInv, Idle
  <2>2. locals \in Seq(LocalRecord) /\ Len(locals) = Len(stack)
    BY DEF InterpInv, LocalsInv
  <2> QED  BY <2>1, <2>2, EmptySeq
<1>2. ASSUME UNCHANGED stack, Answered' => answer' \in CompletedAnswer
      PROVE  SignalsInv(rank)'
  <2>1. Len(stack') = 0  BY <1>1, <1>2
  <2>2. Descends(rank)'  BY <2>1 DEF Descends
  <2>3. Answered' => Justified(answer, 0, rank)'  BY <1>2 DEF Justified
  <2> QED  BY <2>1, <2>2, <2>3 DEF SignalsInv
<1>3. CASE EndQuery  BY <1>2, <1>3 DEF EndQuery, Answered
<1>4. CASE ClearCache  BY <1>2, <1>4 DEF ClearCache, Answered
<1>5. ASSUME NEW v \in Value, NEW b \in Budgets, Query(v, b)
      PROVE  SignalsInv(rank)'
  <2>1. CASE v \in Result /\ Activate(v)
    <3>1. stack' # <<>>
      <4>1. Len(stack') = Len(stack) + 1  BY <2>1, PushFacts DEF InterpInv
      <4> QED  BY <1>1, <4>1, EmptySeq
    <3>2. locals' = Append(locals, Fresh)  BY <1>1, <3>1 DEF HostStep
    <3> QED  BY <1>1, <2>1, <3>2, PushSignals
  <2>2. CASE v \notin Result /\ answer' = LeafAnswer(v) /\ UNCHANGED stack
    <3>1. answer' \in CompletedAnswer  BY <2>2, LeafType DEF InterpInv
    <3> QED  BY <1>2, <2>2, <3>1
  <2> QED  BY <1>5, <2>1, <2>2 DEF Query
<1> QED  BY <1>3, <1>4, <1>5 DEF HostStep, Host
-----------------------------------------------------------------------------
(* compute goes on with its next callback, or returns an answer.           *)

GoesOn == \E r : Become(r) /\ r.val = Top.val /\ AllCompleted(r.results)
Gives(rank) ==
  \E a \in Answer : /\ Leave(a) /\ Justified(a, Len(stack), rank)
                    /\ a \in CompletedAnswer \/ Top.pc # "compare"

LEMMA ReturnSignals ==
  ASSUME InterpInv, stack # <<>>, NEW rank, SignalsInv(rank), Spends, NextLocals,
         GoesOn \/ (Gives(rank) /\ UNCHANGED remaining)
  PROVE  SignalsInv(rank)'
<1> PICK n : n = Len(stack)  OBVIOUS
<1>1. n \in Nat \ {0} /\ Len(locals) = n  BY StackSizes
<1>2. CASE GoesOn
  <2>1. PICK r : Become(r) /\ r.val = Top.val /\ AllCompleted(r.results)
    BY <1>2 DEF GoesOn
  <2>2. Len(stack') = n /\ \A i \in 1..(n - 1) : stack'[i] = stack[i]
    BY <2>1, BecomeLength DEF InterpInv
  <2>3. stack'[n] = r
    <3>1. n \in DOMAIN stack  BY TopFacts DEF InterpInv
    <3> QED  BY <2>1, <3>1 DEF Become
  <2>4. SetLocal(Fresh)  BY <1>1, <2>2 DEF NextLocals
  <2>5. Fresh \in LocalRecord  BY EmptySeq DEF Fresh, LocalRecord
  <2>6. Fresh.heard = <<>> /\ Fresh.results = <<>>  BY DEF Fresh
  <2>7. AllJustified(Fresh.heard, n, rank)' /\ AllJustified(Fresh.results, n, rank)'
    BY <2>6 DEF AllJustified
  <2>8. SameBelow(n - 1)  BY <2>2 DEF SameBelow
  <2>9. AllJustified(Fresh.heard, Len(stack), rank)'
        /\ AllJustified(Fresh.results, Len(stack), rank)'
    BY <2>2, <2>7 DEF AllJustified, Justified, Comparing
  <2> QED  BY <2>1, <2>2, <2>3, <2>4, <2>5, <2>6, <2>7, <2>8, SetSignals, JustifiedFacts
<1>3. CASE Gives(rank) /\ UNCHANGED remaining
  <2>1. PICK a \in Answer : /\ Leave(a) /\ Justified(a, n, rank)
                            /\ a \in CompletedAnswer \/ Top.pc # "compare"
    BY <1>3 DEF Gives
  <2>2. answer' = a /\ stack' = SubSeq(stack, 1, n - 1)  BY <2>1 DEF Leave
  <2>3. /\ Len(stack') = n - 1 /\ \A i \in 1..(n - 1) : stack'[i] = stack[i]
    BY <2>2, PopFacts DEF InterpInv
  <2>4. locals' = Hears(SubSeq(locals, 1, Len(locals) - 1), answer')
    BY <1>1, <2>3 DEF NextLocals
  <2>5. SameBelow(n - 1)  BY <2>3 DEF SameBelow
  <2>6. Justified(a, n - 1, rank)'
    <3>1. CASE a \in CompletedAnswer  BY <3>1 DEF Justified
    <3>2. CASE Top.pc # "compare"
      <4>1. stack[n].pc # "compare"  BY <3>2 DEF Top
      <4> QED  BY <1>1, <2>1, <2>5, <4>1, JustifiedBelow
    <3> QED  BY <2>1, <3>1, <3>2
  <2>7. Justified(answer, Len(stack), rank)'
    BY <2>2, <2>3, <2>6 DEF Justified, Comparing
  <2> QED  BY <1>3, <2>2, <2>4, <2>7, PopSignals
<1> QED  BY <1>2, <1>3

(* What ReturnEvaluated returns: one of evaluate's answers, or a filled    *)
(* slot.                                                                   *)
Evaluated(results) ==
  \E a \in Answer : Leave(a) /\ (a \in CompletedAnswer \/ a = results[Top.val[2]])

LEMMA EvaluatedReturns ==
  ASSUME TypeInv, stack # <<>>, NEW results \in Answers(TopOp), NEW e,
         e.results \in Seq(Known \cup {NoAnswer}), Len(e.results) = Arity[TopOp],
         ReturnEvaluated(results, e)
  PROVE  Evaluated(results)
<1> DEFINE S == {TopOp} \X (1..Arity[TopOp])
           final == [x \in S |->
                       IF e.results[x[2]] # NoAnswer THEN e.results[x[2]]
                       ELSE results[x[2]]]
<1> PICK i : i = Top.val[2]  OBVIOUS
<1>1. Top.val \in Result /\ Top.val[1] = TopOp  BY TopFacts DEF TopOp
<1>2. Top.val \in S /\ i \in 1..Arity[TopOp]  BY <1>1, ValueFacts
<1>3. Leave(final[Top.val])  BY DEF ReturnEvaluated
<1>4. final[Top.val] = IF e.results[i] # NoAnswer THEN e.results[i] ELSE results[i]
  BY <1>2
<1>5. e.results[i] \in Known \cup {NoAnswer}  BY <1>2, ElementOfSeq
<1>6. results[i] \in Answer  BY <1>2 DEF Answers
<1> QED  BY <1>3, <1>4, <1>5, <1>6, AnswerFacts DEF Evaluated

LEMMA StoredReturns ==
  ASSUME TypeInv, stack # <<>>, Top.key \in Key, NEW results \in Answers(TopOp), NEW n,
         StoreNew(results) \/ (FitsAt(Top, n, entries) /\ StoreIn(n, results))
  PROVE  Evaluated(results)
<1>1. TopOp \in Op /\ Top.key # Null  BY TopFacts, AnswerAssumption
<1>2. CASE StoreNew(results)
  <2> DEFINE e == Filled(NoEntry(TopOp), results)
  <2>1. NoEntry(TopOp) \in Entry /\ Len(NoEntry(TopOp).results) = Arity[TopOp]
        /\ NoEntry(TopOp).op = TopOp
    BY <1>1, NoEntryType
  <2>2. e \in Entry /\ Len(e.results) = Arity[TopOp]  BY <2>1, FilledType
  <2>3. ReturnEvaluated(results, e)  BY <1>2 DEF StoreNew
  <2> HIDE DEF e
  <2> QED  BY <2>2, <2>3, EvaluatedReturns DEF Entry
<1>3. CASE FitsAt(Top, n, entries) /\ StoreIn(n, results)
  <2> DEFINE old == entries[Top.key][n]
             e == Filled(old, results)
  <2>1. n \in DOMAIN entries[Top.key] /\ Len(old.results) = Arity[TopOp]
    BY <1>1, <1>3 DEF FitsAt, Bucket, TopOp
  <2>2. entries[Top.key] \in Seq(Entry)  BY DEF TypeInv, TypeOK
  <2>3. old \in Entry /\ Len(old.results) = Arity[old.op]
    BY <2>1, <2>2, LenProperties, ElementOfSeq DEF TypeInv, EntriesShaped
  <2>4. ReturnEvaluated(results, e)  BY <1>3 DEF StoreIn
  <2> HIDE DEF old
  <2>5. e \in Entry /\ Len(e.results) = Arity[TopOp]  BY <2>1, <2>3, FilledType
  <2> HIDE DEF e
  <2> QED  BY <2>4, <2>5, EvaluatedReturns DEF Entry
<1> QED  BY <1>2, <1>3

LEMMA EvaluatedGives ==
  ASSUME TypeInv, stack # <<>>, NEW rank, NEW results \in Answers(TopOp),
         Evaluated(results),
         \/ AllCompleted(results)
         \/ AllJustified(results, Len(stack), rank) /\ Top.pc # "compare"
  PROVE  Gives(rank)
<1> PICK i : i = Top.val[2]  OBVIOUS
<1>1. PICK a \in Answer : Leave(a) /\ (a \in CompletedAnswer \/ a = results[i])
  BY DEF Evaluated
<1>2. Top.val \in Result /\ Top.val[1] = TopOp  BY TopFacts DEF TopOp
<1>3. i \in DOMAIN results  BY <1>2, ValueFacts DEF Answers
<1> QED  BY <1>1, <1>3 DEF Gives, AllCompleted, AllJustified, Justified

(* A search returns a slot of the entry it found, or one of the answers it *)
(* stores, which completed.                                                *)
LEMMA SearchSignals ==
  ASSUME InterpInv, stack # <<>>, NEW rank, AllCompleted(Top.results), Searching(Top),
         NEW n \in Nat, n # 0 => FitsAt(Top, n, entries), SearchEnds(n)
  PROVE  GoesOn \/ Gives(rank)
<1>1. Top \in Activation /\ Top.key \in Key /\ Top.key # Null
      /\ Top.val \in Result /\ Shaped(Top) /\ TopOp \in Op
  BY TopFacts DEF Shaped, Activation, InterpInv
<1>2. CASE Top.results = <<>> /\ LookupEnds(n)
  <2> DEFINE slot == IF n = 0 THEN NoAnswer
                     ELSE entries[Top.key][n].results[Top.val[2]]
             r == [Top EXCEPT !.pc = "charge", !.entry = n]
  <2>1. \/ slot # NoAnswer /\ Return(slot)
        \/ Become(r)
    BY <1>2 DEF LookupEnds
  <2>2. CASE Become(r)
    <3>1. r.val = Top.val /\ r.results = Top.results  BY <1>1 DEF Activation
    <3> HIDE DEF r
    <3> QED  BY <2>2, <3>1 DEF GoesOn
  <2>3. CASE slot # NoAnswer /\ Return(slot)
    <3>1. n \in DOMAIN entries[Top.key]
          /\ Len(entries[Top.key][n].results) = Arity[TopOp]
      BY <1>1, <2>3 DEF FitsAt, Bucket, TopOp
    <3>2. entries[Top.key] \in Seq(Entry)  BY <1>1 DEF InterpInv, TypeInv, TypeOK
    <3>3. entries[Top.key][n] \in Entry  BY <3>1, <3>2, LenProperties, ElementOfSeq
    <3>4. entries[Top.key][n].results \in Seq(Known \cup {NoAnswer})
      BY <3>3 DEF Entry
    <3>5. Top.val[2] \in 1..Arity[TopOp]  BY <1>1, ValueFacts DEF TopOp
    <3>6. entries[Top.key][n].results[Top.val[2]] \in Known \cup {NoAnswer}
      BY <3>1, <3>4, <3>5, ElementOfSeq
    <3>7. slot \in Known  BY <2>3, <3>6
    <3> HIDE DEF slot
    <3>8. slot \in CompletedAnswer /\ slot \in Answer  BY <3>7, AnswerFacts
    <3> QED  BY <2>3, <3>8 DEF Return, Gives, Justified
  <2> QED  BY <2>1, <2>2, <2>3
<1>3. CASE Top.results # <<>> /\ InsertEnds(n)
  <2>1. Top.results \in Answers(TopOp)
    <3>1. Top.results \in Seq(Answer) /\ Len(Top.results) = Arity[TopOp]
      BY <1>1, <1>3 DEF Shaped, Activation, TopOp
    <3> QED  BY <3>1, LenProperties DEF Answers
  <2>2. StoreNew(Top.results) \/ (FitsAt(Top, n, entries) /\ StoreIn(n, Top.results))
    BY <1>3 DEF InsertEnds
  <2>3. Evaluated(Top.results)  BY <1>1, <2>1, <2>2, StoredReturns DEF InterpInv
  <2> QED  BY <2>1, <2>3, EvaluatedGives DEF InterpInv
<1> QED  BY <1>2, <1>3 DEF SearchEnds

LEMMA EvaluateSignals ==
  ASSUME InterpInv, stack # <<>>, NEW rank, NEW results \in Answers(TopOp),
         AllJustified(results, Len(stack), rank), Whole(results),
         EvaluateReturn(results)
  PROVE  (GoesOn \/ Gives(rank)) /\ UNCHANGED remaining
<1>1. Top \in Activation /\ TopOp \in Op /\ Shaped(Top) /\ Fits(Top, entries)
      /\ Top.pc = "evaluate"
  BY TopFacts DEF InterpInv, EvaluateReturn, At
<1>2. CASE ReturnEvaluated(results, NoEntry(TopOp))
  <2> PICK e : e = NoEntry(TopOp)  OBVIOUS
  <2>1. e.results \in Seq(Known \cup {NoAnswer}) /\ Len(e.results) = Arity[TopOp]
    BY <1>1, NoEntryType DEF Entry
  <2>2. Evaluated(results)  BY <1>2, <2>1, EvaluatedReturns DEF InterpInv
  <2> QED  BY <1>1, <2>2, EvaluatedGives DEF InterpInv, EvaluateReturn
<1>3. CASE Stores(results) /\ Top.entry # 0 /\ StoreIn(Top.entry, results)
  <2>1. Top.key \in Key  BY <1>1, <1>3 DEF Stores, Activation
  <2>2. FitsAt(Top, Top.entry, entries)  BY <1>1, <1>3 DEF Fits
  <2>3. Evaluated(results)  BY <1>3, <2>1, <2>2, StoredReturns DEF InterpInv
  <2> QED  BY <1>1, <2>3, EvaluatedGives DEF InterpInv, EvaluateReturn
<1>4. CASE Stores(results) /\ Become([Top EXCEPT !.pc = "search", !.results = results])
  <2> DEFINE r == [Top EXCEPT !.pc = "search", !.results = results]
  <2>1. r.val = Top.val /\ r.results = results  BY <1>1 DEF Activation
  <2> HIDE DEF r
  <2>2. AllCompleted(results)  BY <1>4 DEF Stores, Whole, AllCompleted
  <2> QED  BY <1>4, <2>1, <2>2 DEF GoesOn, r, EvaluateReturn
<1> QED  BY <1>2, <1>3, <1>4 DEF EvaluateReturn

(* The top activation's callback, and what it has heard.                   *)
LEMMA TopJustified ==
  ASSUME InterpInv, stack # <<>>, NEW rank, SignalsInv(rank)
  PROVE  /\ AllCompleted(Top.results) /\ AllJustified(Heard, Len(stack), rank)
         /\ AllJustified(Local.results, Len(stack), rank) /\ Whole(Local.results)
<1>1. Len(stack) \in 1..Len(stack) /\ Local = locals[Len(stack)]
  BY StackSizes
<1>2. HoldsJustified(stack[Len(stack)], locals[Len(stack)], Len(stack), rank)
  BY <1>1 DEF SignalsInv
<1> QED  BY <1>1, <1>2 DEF HoldsJustified, Heard, Top

LEMMA SignalHeard ==
  ASSUME NEW h, Has(h, IsSignal)
  PROVE  \E i \in DOMAIN h : SignalIn(h) = h[i]
BY DEF Has, SignalIn

LEMMA MovesOn ==
  ASSUME InterpInv, stack # <<>>, AllCompleted(Top.results),
         \/ \E p : Become([Top EXCEPT !.pc = p])
         \/ \E k : Become([Top EXCEPT !.pc = "search", !.key = k])
         \/ NextCandidate
  PROVE  GoesOn
<1>1. Top \in Activation  BY TopFacts DEF InterpInv
<1>2. ASSUME NEW p, Become([Top EXCEPT !.pc = p]) PROVE GoesOn
  <2>1. PICK r : r = [Top EXCEPT !.pc = p]  OBVIOUS
  <2>2. r.val = Top.val /\ r.results = Top.results  BY <1>1, <2>1 DEF Activation
  <2> QED  BY <1>2, <2>1, <2>2 DEF GoesOn
<1>3. ASSUME NEW k, Become([Top EXCEPT !.pc = "search", !.key = k]) PROVE GoesOn
  <2>1. PICK r : r = [Top EXCEPT !.pc = "search", !.key = k]  OBVIOUS
  <2>2. r.val = Top.val /\ r.results = Top.results  BY <1>1, <2>1 DEF Activation
  <2> QED  BY <1>3, <2>1, <2>2 DEF GoesOn
<1>4. CASE NextCandidate
  <2>1. PICK r : r = [Top EXCEPT !.pc = "search", !.next = @ + 1]  OBVIOUS
  <2>2. r.val = Top.val /\ r.results = Top.results  BY <1>1, <2>1 DEF Activation
  <2> QED  BY <1>4, <2>1, <2>2 DEF GoesOn, NextCandidate
<1> QED  BY <1>2, <1>3, <1>4

LEMMA SearchesSignal ==
  ASSUME InterpInv, NEW rank, SignalsInv(rank),
         \/ SearchMiss \/ SearchOwn \/ SearchSkip \/ SearchCompare
         \/ \E e \in BOOLEAN : CompareReturn(e)
  PROVE  (GoesOn \/ Gives(rank)) /\ UNCHANGED remaining
<1>1. stack # <<>> /\ Searching(Top)
  BY DEF SearchMiss, SearchOwn, SearchSkip, SearchCompare, CompareReturn, At,
     Searching
<1>2. AllCompleted(Top.results)  BY <1>1, TopJustified
<1>3. Top \in Activation /\ Top.key \in Key /\ Top.key # Null /\ Shaped(Top)
      /\ Fits(Top, entries) /\ Top.next \in Nat /\ TopOp \in Op
  BY <1>1, TopFacts DEF Shaped, Activation, InterpInv
<1>4. ASSUME NEW n \in Nat, n # 0 => FitsAt(Top, n, entries), SearchEnds(n)
      PROVE  (GoesOn \/ Gives(rank)) /\ UNCHANGED remaining
  <2>1. GoesOn \/ Gives(rank)  BY <1>1, <1>2, <1>4, SearchSignals
  <2> QED  BY <1>4, <2>1 DEF SearchEnds
<1>5. CASE SearchMiss  BY <1>4, <1>5 DEF SearchMiss
<1>6. CASE SearchOwn
  <2>1. Bucket(Top, entries) = entries[Top.key]  BY <1>3 DEF Bucket
  <2>2. entries[Top.key] \in Seq(Entry)
    BY <1>3 DEF InterpInv, TypeInv, TypeOK
  <2>3. Top.next \in DOMAIN entries[Top.key] /\ Candidate.op = TopOp
    BY <1>3, <1>6, <2>1, <2>2, LenProperties DEF SearchOwn, IsOwn, MoreCandidates, Fits
  <2>4. Len(Candidate.results) = Arity[TopOp]
    BY <1>3, <2>3 DEF Candidate, InterpInv, TypeInv, EntriesShaped
  <2>5. FitsAt(Top, Top.next, entries)
    BY <2>1, <2>3, <2>4 DEF FitsAt, Candidate, TopOp
  <2> QED  BY <1>3, <1>4, <1>6, <2>5 DEF SearchOwn
<1>7. CASE SearchSkip  BY <1>1, <1>2, <1>7, MovesOn DEF SearchSkip
<1>8. CASE SearchCompare  BY <1>1, <1>2, <1>8, MovesOn DEF SearchCompare
<1>9. ASSUME NEW e \in BOOLEAN, CompareReturn(e)
      PROVE  (GoesOn \/ Gives(rank)) /\ UNCHANGED remaining
  <2>1. CASE SearchEnds(Top.next)
    <3>1. FitsAt(Top, Top.next, entries)  BY <1>3, <1>9 DEF CompareReturn, At, Fits
    <3> QED  BY <1>3, <1>4, <2>1, <3>1
  <2>2. CASE NextCandidate /\ UNCHANGED remaining
    BY <1>1, <1>2, <2>2, MovesOn
  <2> QED  BY <1>9, <2>1, <2>2 DEF CompareReturn
<1> QED  BY <1>5, <1>6, <1>7, <1>8, <1>9

LEMMA CallbackSignals ==
  ASSUME InterpInv, HashesToKeys, NEW rank, SignalsInv(rank), CallbackStep
  PROVE  SignalsInv(rank)'
<1>1. stack # <<>> /\ NextLocals
  BY DEF CallbackStep, IsCacheable, Eligible, GetHash, IsEquivalentTo, BinaryEvaluate,
     Internal, SearchMiss, SearchOwn, SearchSkip, SearchCompare, Charge, Decided, At
<1>2. AllCompleted(Top.results) /\ AllJustified(Heard, Len(stack), rank)
  BY <1>1, TopJustified
<1>3. ASSUME (GoesOn \/ Gives(rank)) /\ UNCHANGED remaining
      PROVE  SignalsInv(rank)'
  <2>1. Spends  BY <1>3 DEF Spends
  <2> QED  BY <1>1, <1>3, <2>1, ReturnSignals
<1>4. CASE IsCacheable
  <2>1. UNCHANGED remaining /\ \E p : Become([Top EXCEPT !.pc = p])
    BY <1>4 DEF IsCacheable, Eligible
  <2> QED  BY <1>1, <1>2, <1>3, <2>1, MovesOn
<1>5. CASE GetHash
  <2>1. Top.pc = "getHash"  BY <1>5 DEF GetHash, Decided, At
  <2>2. CASE Has(Heard, IsSignal)
    <3> PICK a : a = SignalIn(Heard)  OBVIOUS
    <3>1. a \in Answer /\ a = Signaled(a.status)
      BY <1>1, <2>2, HeardType, HeardFacts
    <3>2. Justified(a, Len(stack), rank)
      BY <1>2, <2>2, SignalHeard DEF AllJustified
    <3>3. Leave(a) /\ UNCHANGED remaining
      BY <1>5, <2>2, <3>1 DEF GetHash, KeySignal, Return
    <3>4. Gives(rank)  BY <2>1, <3>1, <3>2, <3>3 DEF Gives
    <3> QED  BY <1>3, <3>3, <3>4
  <2>3. CASE ~Has(Heard, IsSignal)
    <3>1. UNCHANGED remaining
          /\ \E k : Become([Top EXCEPT !.pc = "search", !.key = k])
      BY <1>5, <2>3 DEF GetHash, HashReturn
    <3> QED  BY <1>1, <1>2, <1>3, <3>1, MovesOn
  <2> QED  BY <2>2, <2>3
<1>6. CASE IsEquivalentTo
  <2>1. PICK e \in BOOLEAN : CompareReturn(e)  BY <1>6 DEF IsEquivalentTo, Equivalent
  <2> QED  BY <1>3, <2>1, SearchesSignal
<1>7. CASE SearchMiss \/ SearchOwn \/ SearchSkip \/ SearchCompare
  BY <1>3, <1>7, SearchesSignal
<1>8. CASE BinaryEvaluate
  <2> PICK a : a = BinaryResult(TopOp, Heard)  OBVIOUS
  <2>1. TopOp \in Op \ Loops /\ Wants = {} /\ Top.pc = "evaluate"
        /\ EvaluateReturn(<<a>>)
    BY <1>1, <1>8, TopFacts DEF BinaryEvaluate, Decided, At, InterpInv
  <2>2. ~BinaryPending(TopOp, Heard)
    BY <2>1 DEF Wants, EvaluateWants, BinaryWants
  <2>3. a \in Answer  BY <1>1, <2>1, <2>2, HeardType, BinaryType
  <2>4. Arity[TopOp] = 1  BY <2>1, ProgramFacts
  <2>5. <<a>> \in Answers(TopOp)  BY <2>3, <2>4 DEF Answers
  <2>6. Justified(a, Len(stack), rank)
    <3>1. CASE Has(Heard, IsSignal)
      <4>1. a = SignalIn(Heard)  BY <3>1 DEF BinaryResult
      <4> QED  BY <1>2, <3>1, <4>1, SignalHeard DEF AllJustified
    <3>2. CASE ~Has(Heard, IsSignal)
      <4>1. a.status = "Completed"  BY <3>2 DEF BinaryResult, Completed, Unknown
      <4> QED  BY <2>3, <4>1, AnswerFacts DEF Justified
    <3> QED  BY <3>1, <3>2
  <2>7. DOMAIN <<a>> = {1} /\ <<a>>[1] = a  OBVIOUS
  <2>8. AllJustified(<<a>>, Len(stack), rank) /\ Whole(<<a>>)
    BY <2>6, <2>7, AnswerFacts DEF AllJustified, Whole
  <2> QED  BY <1>1, <1>3, <2>1, <2>5, <2>8, EvaluateSignals
<1>9. CASE Charge
  <2>1. Top.pc = "charge" /\ remaining \in Nat
    BY <1>9 DEF Charge, At, InterpInv, TypeInv, TypeOK
  <2>2. CASE /\ HasStep /\ remaining' = remaining - 1
             /\ Become([Top EXCEPT !.pc = "evaluate"])
    <3>1. Spends  BY <2>1, <2>2 DEF HasStep, Spends
    <3>2. GoesOn  BY <1>1, <1>2, <2>2, MovesOn
    <3> QED  BY <1>1, <3>1, <3>2, ReturnSignals
  <2>3. CASE ~HasStep /\ Return(Signaled("Exhausted")) /\ UNCHANGED remaining
    <3>1. remaining = 0  BY <2>1, <2>3 DEF HasStep
    <3>2. Signaled("Exhausted") \in Answer  BY AnswerFacts, AnswerAssumption
    <3>3. Gives(rank)  BY <2>1, <2>3, <3>1, <3>2 DEF Gives, Return, Justified
    <3> QED  BY <1>3, <2>3, <3>3
  <2> QED  BY <1>9, <2>2, <2>3 DEF Charge
<1> QED  BY <1>4, <1>5, <1>6, <1>7, <1>8, <1>9 DEF CallbackStep, Internal
-----------------------------------------------------------------------------
(* The steps of a loop.                                                    *)

LEMMA ScopeSignals ==
  ASSUME InterpInv, stack # <<>>, NEW rank, SignalsInv(rank), Spends,
         UNCHANGED stack, NEW l \in LocalRecord, SetLocal(l),
         AllJustified(l.heard, Len(stack), rank),
         AllJustified(l.results, Len(stack), rank), Whole(l.results)
  PROVE  SignalsInv(rank)'
<1> PICK n : n = Len(stack)  OBVIOUS
<1>1. n \in Nat \ {0} /\ Top = stack[n]  BY StackSizes
<1>2. SameBelow(n) /\ SameBelow(n - 1)  BY DEF SameBelow
<1>3. n \in 0..n  BY <1>1
<1>4. \A xs : AllJustified(xs, n, rank) => AllJustified(xs, n, rank)'
  BY <1>1, <1>2, <1>3, StaysJustified
<1>5. AllCompleted(stack'[n].results)  BY <1>1, TopJustified
<1>6. AllJustified(l.heard, Len(stack), rank)' /\ AllJustified(l.results, Len(stack), rank)'
  BY <1>4 DEF AllJustified, Justified, Comparing
<1> QED  BY <1>1, <1>2, <1>5, <1>6, SetSignals

LEMMA PropagatedJustified ==
  ASSUME NEW o, NEW a, NEW i, NEW rank, Justified(a, i, rank)
  PROVE  AllJustified(Propagated(o, a), i, rank) /\ Whole(Propagated(o, a))
<1>1. \A k \in DOMAIN Propagated(o, a) : Propagated(o, a)[k] = a  BY DEF Propagated
<1>2. AllJustified(Propagated(o, a), i, rank)  BY <1>1 DEF AllJustified
<1>3. Whole(Propagated(o, a))  BY <1>1, AnswerFacts DEF Whole
<1> QED  BY <1>2, <1>3

LEMMA ForReturnSignals ==
  ASSUME InterpInv, NEW rank, SignalsInv(rank), ForRefused \/ ForReturns
  PROVE  SignalsInv(rank)'
<1>1. ASSUME stack # <<>>, NextLocals, NEW results \in Answers(TopOp),
             EvaluateReturn(results), AllJustified(results, Len(stack), rank),
             Whole(results)
      PROVE  SignalsInv(rank)'
  <2>1. (GoesOn \/ Gives(rank)) /\ UNCHANGED remaining
    BY <1>1, EvaluateSignals
  <2>2. Spends  BY <2>1 DEF Spends
  <2> QED  BY <1>1, <2>1, <2>2, ReturnSignals
<1>2. CASE ForRefused
  <2> PICK a : a = IF Has(Heard, IsSignal) THEN SignalIn(Heard) ELSE Unknown
    OBVIOUS
  <2>1. InFor("begin") /\ EvaluateReturn(Propagated(TopOp, a)) /\ NextLocals
    BY <1>2 DEF ForRefused, ForRefusal
  <2>2. stack # <<>> /\ TopOp \in Loops /\ TopOp \in Op /\ Heard \in Seq(Answer)
    BY <2>1, InForFacts, ProgramFacts
  <2>3. AllJustified(Heard, Len(stack), rank)  BY <2>2, TopJustified
  <2>4. a \in Answer /\ Justified(a, Len(stack), rank)
    <3>1. CASE Has(Heard, IsSignal)
      BY <2>2, <2>3, <3>1, SignalHeard, HeardFacts DEF AllJustified
    <3>2. CASE ~Has(Heard, IsSignal)  BY <3>2, AnswerFacts DEF Justified
    <3> QED  BY <3>1, <3>2
  <2>5. Propagated(TopOp, a) \in Answers(TopOp)  BY <2>2, <2>4, PropagatedType
  <2>6. /\ AllJustified(Propagated(TopOp, a), Len(stack), rank)
        /\ Whole(Propagated(TopOp, a))
    BY <2>4, PropagatedJustified
  <2> QED  BY <1>1, <2>1, <2>2, <2>5, <2>6
<1>3. CASE ForReturns
  <2>1. InFor("done") /\ EvaluateReturn(Local.results) /\ NextLocals
    BY <1>3 DEF ForReturns
  <2>2. stack # <<>> /\ TopOp \in Loops /\ Local \in LocalRecord
        /\ Len(Local.results) = Arity[TopOp]
    BY <2>1, InForFacts DEF LocalFits, Leaving
  <2>3. Local.results \in Answers(TopOp)
    <3>1. Local.results \in Seq(Answer)  BY <2>2 DEF LocalRecord
    <3> QED  BY <2>2, <3>1, LenProperties DEF Answers
  <2>4. AllJustified(Local.results, Len(stack), rank) /\ Whole(Local.results)
    BY <2>2, TopJustified
  <2> QED  BY <1>1, <2>1, <2>2, <2>3, <2>4
<1> QED  BY <1>2, <1>3

LEMMA ForStepSignals ==
  ASSUME InterpInv, NEW rank, SignalsInv(rank),
         ForStarts \/ ForPays \/ ForBinds \/ ForIterates \/ ForThaws
  PROVE  SignalsInv(rank)'
<1>1. /\ stack # <<>> /\ Local \in LocalRecord /\ LocalFits(Top, Local)
      /\ TopOp \in Loops /\ TopOp \in Op /\ Heard \in Seq(Answer)
      /\ UNCHANGED stack
  <2>1. (\E at : InFor(at)) /\ UNCHANGED stack
    BY DEF ForStarts, ForPays, ForBinds, ForIterates, ForThaws, Freeze, DeclareCost,
       Bind, Unbind, Unfreeze
  <2> QED  BY <2>1, InForFacts, ProgramFacts
<1>2. /\ AllJustified(Heard, Len(stack), rank) /\ Heard = Local.heard
      /\ AllJustified(Local.results, Len(stack), rank) /\ Whole(Local.results)
  BY <1>1, TopJustified DEF Heard
<1>3. AllJustified(<<>>, Len(stack), rank) /\ Whole(<<>>)
  BY DEF AllJustified, Whole
<1>4. Spends
  BY DEF ForStarts, ForPays, ForBinds, ForIterates, ForThaws, Freeze, DeclareCost,
     Bind, Unbind, Unfreeze, Spends
<1>5. LocalsInv'
  BY ForStartsKeeps, ForPaysKeeps, ForBindsKeeps, ForIteratesKeeps, ForThawsKeeps
<1>6. ASSUME NEW l, SetLocal(l),
             l.heard = <<>> \/ l.heard = Local.heard,
             \/ l.results = <<>> \/ l.results = Local.results
             \/ AllJustified(l.results, Len(stack), rank) /\ Whole(l.results)
      PROVE  SignalsInv(rank)'
  <2>1. l \in LocalRecord
    <3> PICK n : n = Len(stack)  OBVIOUS
    <3>1. n \in Nat \ {0} /\ Len(locals) = n /\ locals \in Seq(LocalRecord)
      BY <1>1, StackSizes
    <3>2. n \in DOMAIN locals  BY <3>1, LenProperties
    <3>3. locals'[n] = l  BY <1>6, <3>1, <3>2 DEF SetLocal
    <3>4. locals' \in Seq(LocalRecord) /\ Len(locals') = n
      BY <1>1, <1>5 DEF LocalsInv
    <3> QED  BY <3>1, <3>3, <3>4, ElementOfSeq
  <2> QED  BY <1>1, <1>2, <1>3, <1>4, <1>6, <2>1, ScopeSignals
<1>7. CASE ForStarts
  <2>1. PICK l : /\ SetLocal(l)
                 /\ l = [Fresh EXCEPT !.at = "head", !.iv = Heard[1].value,
                             !.ub = Heard[2].value, !.step = Heard[3].value,
                             !.carried = SubSeq(Heard, 4, Len(Heard))]
    BY <1>7 DEF ForStarts
  <2>2. l.heard = <<>> /\ l.results = <<>>  BY <2>1 DEF Fresh
  <2> QED  BY <1>6, <2>1, <2>2
<1>8. CASE ForPays
  <2>1. PICK l : SetLocal(l) /\ l = [Local EXCEPT !.at = "paid"]
    BY <1>8 DEF ForPays
  <2>2. l.heard = Local.heard /\ l.results = Local.results
    BY <1>1, <2>1 DEF LocalRecord
  <2> QED  BY <1>6, <2>1, <2>2
<1>9. CASE ForBinds
  <2>1. PICK l : SetLocal(l) /\ l = [Local EXCEPT !.at = "body", !.heard = <<>>]
    BY <1>9 DEF ForBinds
  <2>2. l.heard = <<>> /\ l.results = Local.results
    BY <1>1, <2>1 DEF LocalRecord
  <2> QED  BY <1>6, <2>1, <2>2
<1>10. CASE ForIterates
  <2>1. \/ \E a : /\ Justified(a, Len(stack), rank)
                  /\ SetLocal([Local EXCEPT !.at = "leaving",
                                            !.results = Propagated(TopOp, a)])
        \/ SetLocal([Local EXCEPT !.at = "head", !.carried = Heard, !.heard = <<>>,
                                  !.iv = (@ + Local.step) % Modulus])
    <3>1. Justified(Unknown, Len(stack), rank)  BY AnswerFacts DEF Justified
    <3>2. Has(Heard, IsSignal) => Justified(SignalIn(Heard), Len(stack), rank)
      BY <1>2, SignalHeard DEF AllJustified
    <3> QED  BY <1>10, <3>1, <3>2 DEF ForIterates
  <2>2. ASSUME NEW a, Justified(a, Len(stack), rank),
               SetLocal([Local EXCEPT !.at = "leaving",
                                      !.results = Propagated(TopOp, a)])
        PROVE  SignalsInv(rank)'
    <3>1. PICK l : SetLocal(l) /\ l = [Local EXCEPT !.at = "leaving",
                                                   !.results = Propagated(TopOp, a)]
      BY <2>2
    <3>2. l.heard = Local.heard /\ l.results = Propagated(TopOp, a)
      BY <1>1, <3>1 DEF LocalRecord
    <3>3. AllJustified(l.results, Len(stack), rank) /\ Whole(l.results)
      BY <2>2, <3>2, PropagatedJustified
    <3> QED  BY <1>6, <3>1, <3>2, <3>3
  <2>3. CASE SetLocal([Local EXCEPT !.at = "head", !.carried = Heard, !.heard = <<>>,
                                    !.iv = (@ + Local.step) % Modulus])
    <3>1. PICK l : SetLocal(l) /\ l = [Local EXCEPT !.at = "head", !.carried = Heard,
                              !.heard = <<>>, !.iv = (@ + Local.step) % Modulus]
      BY <2>3
    <3>2. l.heard = <<>> /\ l.results = Local.results
      BY <1>1, <3>1 DEF LocalRecord
    <3> QED  BY <1>6, <3>1, <3>2
  <2> QED  BY <2>1, <2>2, <2>3
<1>11. CASE ForThaws
  <2>1. PICK results :
          /\ \/ results = Local.carried
             \/ /\ remaining = 0
                /\ results = Propagated(TopOp, Signaled("Exhausted"))
             \/ results = Local.results
          /\ SetLocal([Local EXCEPT !.at = "done", !.results = results])
    BY <1>11 DEF ForThaws
  <2>2. PICK l : SetLocal(l) /\ l = [Local EXCEPT !.at = "done", !.results = results]
    BY <2>1
  <2>3. l.heard = Local.heard /\ l.results = results
    BY <1>1, <2>2 DEF LocalRecord
  <2>4. AllJustified(results, Len(stack), rank) /\ Whole(results)
    <3>1. CASE results = Local.carried
      <4>1. results \in Seq(CompletedAnswer)  BY <1>1, <3>1 DEF LocalRecord
      <4>2. \A k \in DOMAIN results : results[k] \in CompletedAnswer
        BY <4>1, LenProperties, ElementOfSeq
      <4> QED  BY <4>2 DEF AllJustified, Justified, Whole
    <3>2. CASE remaining = 0 /\ results = Propagated(TopOp, Signaled("Exhausted"))
      <4>1. Justified(Signaled("Exhausted"), Len(stack), rank)  BY <3>2 DEF Justified
      <4> QED  BY <3>2, <4>1, PropagatedJustified
    <3>3. CASE results = Local.results  BY <1>2, <3>3
    <3> QED  BY <2>1, <3>1, <3>2, <3>3
  <2> QED  BY <1>6, <2>2, <2>3, <2>4
<1> QED  BY <1>7, <1>8, <1>9, <1>10, <1>11
-----------------------------------------------------------------------------
(* Every program, whatever the host queries.                               *)

LEMMA SignalsStep ==
  ASSUME InterpInv, StackInv, HashesToKeys, NEW rank, SignalsInv(rank), [INext]_ivars
  PROVE  SignalsInv(rank)'
<1>1. CASE UNCHANGED ivars
  <2>1. UNCHANGED <<running, answer, stack, remaining, locals>>
    BY <1>1 DEF ivars, vars
  <2>2. \A a, i : Justified(a, i, rank) <=> Justified(a, i, rank)'
    BY <2>1 DEF Justified, Comparing
  <2>3. Answered' => Justified(answer, 0, rank)'
    BY <2>1, <2>2 DEF SignalsInv, Answered
  <2>4. ASSUME NEW i \in 1..Len(stack) PROVE HoldsJustified(stack[i], locals[i], i, rank)'
    <3>1. HoldsJustified(stack[i], locals[i], i, rank)  BY DEF SignalsInv
    <3> QED  BY <2>1, <2>2, <3>1 DEF HoldsJustified, AllJustified
  <2>5. Descends(rank)'  BY <2>1 DEF SignalsInv, Descends, Ranks, AsksBelow
  <2> QED  BY <2>1, <2>3, <2>4, <2>5 DEF SignalsInv
<1>2. CASE HostStep  BY <1>2, HostSignals
<1>3. CASE AskStep  BY <1>3, AskSignals DEF StackInv
<1>4. CASE CallbackStep  BY <1>4, CallbackSignals
<1>5. CASE ForStep
  BY <1>5, ForReturnSignals, ForStepSignals DEF ForStep
<1> QED  BY <1>1, <1>2, <1>3, <1>4, <1>5 DEF INext, EngineStep

LEMMA SignalsInit ==
  ASSUME IInit, NEW rank
  PROVE  SignalsInv(rank)
<1>1. stack = <<>> /\ Len(stack) = 0 /\ ~Answered
  BY EmptySeq DEF IInit, Init, Answered
<1> QED  BY <1>1 DEF SignalsInv, Descends

LEMMA StackFollows ==
  ASSUME HashesToKeys
  PROVE  ISpec => []StackInv
<1>1. ISpec => IsEngine  BY OperationsKeepToEngine
<1> QED  BY <1>1, StackInvariant, PTL DEF IsEngine

LEMMA SignalsInvariant ==
  ASSUME HashesToKeys, NEW rank
  PROVE  ISpec => []SignalsInv(rank)
<1>1. IInit => SignalsInv(rank)  BY SignalsInit
<1>2. InterpInv /\ StackInv /\ SignalsInv(rank) /\ [INext]_ivars => SignalsInv(rank)'
  BY SignalsStep
<1> QED  BY <1>1, <1>2, LocalsFollowStack, StackFollows, PTL DEF ISpec

(* A query is not cut short: it answers Exhausted only when the loops and  *)
(* the operations it evaluated have spent its whole budget, however the    *)
(* signal travelled through keys, comparisons, yields and results.         *)
THEOREM ExhaustedOnlySpent ==
  ASSUME HashesToKeys
  PROVE  ISpec => []ExhaustedMeansSpent
<1> PICK rank : rank = 0  OBVIOUS
<1>1. SignalsInv(rank) => ExhaustedMeansSpent
  <2> SUFFICES ASSUME SignalsInv(rank), Answered, answer.status = "Exhausted"
               PROVE  remaining = 0
    BY DEF ExhaustedMeansSpent
  <2>1. Justified(answer, 0, rank)  BY DEF SignalsInv
  <2>2. answer \notin CompletedAnswer  BY AnswerFacts
  <2>3. answer # Signaled("Cycle")  BY DEF Signaled
  <2> QED  BY <2>1, <2>2, <2>3 DEF Justified
<1> QED  BY <1>1, SignalsInvariant, PTL

(* Where the operations can be ordered so that each needs only those below *)
(* it, no query answers Cycle: a cycle closed by comparing two operations  *)
(* with equal hashes ends with the comparison, whatever was being compared *)
(* for whom.                                                               *)
THEOREM CyclesAreGenuine ==
  ASSUME HashesToKeys, NEW rank, Ranks(rank)
  PROVE  ISpec => []NoSpuriousCycle
<1>1. SignalsInv(rank) => NoSpuriousCycle
  <2> SUFFICES ASSUME SignalsInv(rank), Answered PROVE answer.status # "Cycle"
    BY DEF NoSpuriousCycle
  <2>1. Justified(answer, 0, rank)  BY DEF SignalsInv
  <2>2. ~Comparing(0)  BY DEF Comparing
  <2>3. \A a \in CompletedAnswer : a.status # "Cycle"  BY AnswerFacts
  <2> QED  BY <2>1, <2>2, <2>3 DEF Justified, Signaled
<1> QED  BY <1>1, SignalsInvariant, PTL
-----------------------------------------------------------------------------
(* Operations that need themselves.                                        *)

(* A constant has one answer, whether folded, looked up or memoized.       *)
ConstantsFold ==
  \A v \in Constant : HasConstant(v) =>
    /\ LooksUp(v) => constants[AttrOf[v]] \in {NoAnswer, FoldsTo(v)}
    /\ memo[v] = NotMemoized \/ memo[v].answer = FoldsTo(v)

(* A callback of an operation of S hears its operands in turn, as long as  *)
(* it passes them over; when it comes to the one it needs it waits for an  *)
(* operation of S, and hears a signal.                                     *)
HeardStuck(o, h) ==
  \A j \in DOMAIN h :
    \/ IsSignal(h[j])
    \/ /\ j \in DOMAIN Operands[o] /\ PassedOver(o, Operands[o][j])
       /\ h[j] = FoldsTo(Operands[o][j])
Stuck(r, l, S) ==
  r.val[1] \in S => /\ r.pc \in {"isCacheable", "getHash", "charge", "evaluate"}
                    /\ l.at = "begin" /\ HeardStuck(r.val[1], l.heard)
StuckInv(S) ==
  \A i \in 1..Len(stack) :
    /\ Stuck(stack[i], locals[i], S)
    /\ i # Len(stack) /\ stack[i].val[1] \in S => stack[i + 1].val[1] \in S

NeverMemoized(S) == \A v \in Result : v[1] \in S => memo[v] = NotMemoized
NeverStored(S) == \A k \in Key : \A n \in DOMAIN entries[k] : entries[k][n].op \notin S
SignalsBack(S) == Answered /\ asked \in Result /\ asked[1] \in S => IsSignal(answer)
CyclicInv(S) ==
  StuckInv(S) /\ NeverMemoized(S) /\ NeverStored(S) /\ SignalsBack(S)

LEMMA FoldFacts ==
  ASSUME TypeInv, ConstantsFold, NEW v \in Value, HasConstant(v)
  PROVE  /\ v \in Constant /\ v \notin Result /\ v \notin Arg /\ AttrOf[v] \in Attr
         /\ LeafAnswer(v) = FoldsTo(v)
<1>1. v \in Constant /\ v \notin Result /\ v \notin Arg /\ AttrOf[v] \in Attr
  BY KindAssumption, ConstantAssumption DEF HasConstant
<1>2. LeafAnswer(v) = FoldsTo(v)
  <2>1. CASE LooksUp(v) /\ constants[AttrOf[v]] # NoAnswer
    BY <1>1, <2>1 DEF LeafAnswer, ConstantsFold
  <2>2. CASE ~(LooksUp(v) /\ constants[AttrOf[v]] # NoAnswer)
    BY <1>1, <2>2 DEF LeafAnswer, FoldsTo
  <2> QED  BY <2>1, <2>2
<1> QED  BY <1>1, <1>2

(* A return memoizes results of the operation it evaluated only.           *)
OthersKept == \A v \in Value : memo'[v] = memo[v] \/ (v \in Result /\ v[1] = TopOp)

LEMMA MemoizesOwn ==
  ASSUME TypeInv, stack # <<>>, NEW f, MemoizeAll(f),
         DOMAIN f \subseteq {TopOp} \X (1..Arity[TopOp])
  PROVE  OthersKept
<1>1. \A v \in DOMAIN f : v \in Result /\ v[1] = TopOp  BY TopFacts, ValueFacts
<1> QED  BY <1>1 DEF MemoizeAll, OthersKept

LEMMA ReturnMemoizes ==
  ASSUME TypeInv, stack # <<>>,
         \/ \E a : Return(a)
         \/ \E results, e : ReturnEvaluated(results, e)
         \/ UNCHANGED memo
  PROVE  OthersKept
<1>1. ASSUME NEW a, Return(a) PROVE OthersKept
  <2>1. CASE Len(stack) > 1
    <3> PICK f : f = [x \in {Top.val} |-> a]  OBVIOUS
    <3>1. MemoizeAll(f)  BY <1>1, <2>1 DEF Return
    <3>2. Top.val \in {TopOp} \X (1..Arity[TopOp])  BY TopFacts, ValueFacts DEF TopOp
    <3> QED  BY <3>1, <3>2, MemoizesOwn
  <2>2. CASE ~(Len(stack) > 1)  BY <1>1, <2>2 DEF Return, OthersKept
  <2> QED  BY <2>1, <2>2
<1>2. ASSUME NEW results, NEW e, ReturnEvaluated(results, e) PROVE OthersKept
  <2>1. PICK f : /\ f = [x \in {TopOp} \X (1..Arity[TopOp]) |->
                           IF e.results[x[2]] # NoAnswer THEN e.results[x[2]]
                           ELSE results[x[2]]]
                 /\ MemoizeAll(f)
    BY <1>2 DEF ReturnEvaluated
  <2> QED  BY <2>1, MemoizesOwn
<1>3. CASE UNCHANGED memo  BY <1>3 DEF OthersKept
<1> QED  BY <1>1, <1>2, <1>3

LEMMA ReturnKeepsOthers ==
  ASSUME TypeInv, CallbackReturn \/ Internal
  PROVE  OthersKept /\ UNCHANGED constants
<1>1. stack # <<>>  BY ReturnAnswers
<1>2. \/ \E a : Return(a)
      \/ \E results, e : ReturnEvaluated(results, e)
      \/ UNCHANGED memo
  BY DEF CallbackReturn, Internal, Eligible, CompareReturn, HashReturn, KeySignal,
     SearchMiss, SearchOwn, SearchSkip, SearchCompare, Charge, SearchEnds,
     LookupEnds, InsertEnds, StoreIn, StoreNew, EvaluateReturn
<1>3. UNCHANGED constants
  BY DEF CallbackReturn, Internal, Eligible, CompareReturn, HashReturn, KeySignal,
     SearchMiss, SearchOwn, SearchSkip, SearchCompare, Charge, SearchEnds,
     EvaluateReturn, cache
<1> QED  BY <1>1, <1>2, <1>3, ReturnMemoizes

LEMMA ConstantsStep ==
  ASSUME TypeInv, ConstantsFold, [Next]_vars
  PROVE  ConstantsFold'
<1> SUFFICES ASSUME NEW v \in Constant, HasConstant(v)
             PROVE  /\ LooksUp(v) => constants'[AttrOf[v]] \in {NoAnswer, FoldsTo(v)}
                    /\ memo'[v] = NotMemoized \/ memo'[v].answer = FoldsTo(v)
  BY DEF ConstantsFold, HasConstant, LooksUp, FoldsTo
<1>1. v \in Value /\ v \notin Result /\ AttrOf[v] \in Attr
  BY FoldFacts DEF Value
<1>2. /\ LooksUp(v) => constants[AttrOf[v]] \in {NoAnswer, FoldsTo(v)}
      /\ memo[v] = NotMemoized \/ memo[v].answer = FoldsTo(v)
  BY DEF ConstantsFold
<1>3. ASSUME NEW x \in Value, StoreConstant(x)
      PROVE  LooksUp(v) => constants'[AttrOf[v]] \in {NoAnswer, FoldsTo(v)}
  <2>1. CASE LooksUp(x)
    <3>1. HasConstant(x)  BY <2>1 DEF LooksUp
    <3>2. LeafAnswer(x) = FoldsTo(x)  BY <3>1, FoldFacts
    <3>3. constants' = [constants EXCEPT ![AttrOf[x]] = FoldsTo(x)]
      BY <1>3, <2>1, <3>2 DEF StoreConstant
    <3>4. CASE AttrOf[x] = AttrOf[v]
      <4>1. FoldsTo(x) = FoldsTo(v)  BY <3>4 DEF FoldsTo
      <4>2. constants \in [Attr -> CompletedAnswer \cup {NoAnswer}]
        BY DEF TypeInv, TypeOK
      <4> QED  BY <1>1, <3>3, <3>4, <4>1, <4>2
    <3>5. CASE AttrOf[x] # AttrOf[v]
      <4>1. constants'[AttrOf[v]] = constants[AttrOf[v]]  BY <3>3, <3>5
      <4> QED  BY <1>2, <4>1
    <3> QED  BY <3>4, <3>5
  <2>2. CASE ~LooksUp(x)  BY <1>2, <1>3, <2>2 DEF StoreConstant
  <2> QED  BY <2>1, <2>2
<1>4. CASE UNCHANGED <<constants, memo>>  BY <1>2, <1>4
<1>5. CASE Host
  <2>1. CASE EndQuery  BY <1>1, <1>2, <2>1 DEF EndQuery, cache
  <2>2. CASE ClearCache  BY <1>1, <1>2, <2>2 DEF ClearCache
  <2>3. ASSUME NEW x \in Value, NEW b \in Budgets, Query(x, b)
        PROVE  /\ LooksUp(v) => constants'[AttrOf[v]] \in {NoAnswer, FoldsTo(v)}
               /\ memo'[v] = NotMemoized \/ memo'[v].answer = FoldsTo(v)
    <3>1. UNCHANGED memo /\ (StoreConstant(x) \/ UNCHANGED constants)
      BY <2>3 DEF Query
    <3> QED  BY <1>2, <1>3, <3>1
  <2> QED  BY <1>5, <2>1, <2>2, <2>3 DEF Host
<1>6. ASSUME NEW x \in Value, Ask(x)
      PROVE  /\ LooksUp(v) => constants'[AttrOf[v]] \in {NoAnswer, FoldsTo(v)}
             /\ memo'[v] = NotMemoized \/ memo'[v].answer = FoldsTo(v)
  <2>1. CASE QueryLeaf(x)
    <3>1. StoreConstant(x)  BY <2>1 DEF QueryLeaf
    <3> PICK f : f = [y \in {x} |-> LeafAnswer(y)]  OBVIOUS
    <3>2. LeafAnswer(v) = FoldsTo(v)  BY <1>1, FoldFacts
    <3>3. memo'[v] = memo[v] \/ (x = v /\ memo'[v].answer = LeafAnswer(x))
      BY <1>1, <2>1 DEF QueryLeaf, MemoizeAll
    <3> QED  BY <1>2, <1>3, <3>1, <3>2, <3>3
  <2>2. CASE QueryMemoized(x) \/ QueryCycle(x) \/ QueryEnter(x)
    BY <1>4, <2>2 DEF QueryMemoized, QueryCycle, QueryEnter, cache
  <2> QED  BY <1>6, <2>1, <2>2 DEF Ask
<1>7. CASE ScopeCall
  <2>1. CASE DeclareCost \/ Freeze \/ Unfreeze \/ Binds
    BY <1>4, <2>1 DEF DeclareCost, Freeze, Unfreeze, Binds, Bind, cache
  <2>2. CASE Unbind
    BY <1>1, <1>2, <2>2 DEF Unbind, ForgetIteration, cache
  <2> QED  BY <1>6, <1>7, <2>1, <2>2 DEF ScopeCall, Binds
<1>8. CASE CallbackReturn \/ Internal
  <2>1. memo'[v] = memo[v] /\ UNCHANGED constants
    BY <1>1, <1>8, ReturnKeepsOthers DEF OthersKept
  <2> QED  BY <1>2, <2>1
<1>9. CASE UNCHANGED vars  BY <1>4, <1>9 DEF vars, cache
<1> QED  BY <1>5, <1>7, <1>8, <1>9 DEF Next

(* Until it hears a signal, such a callback has not come to the operand it *)
(* needs: it asks for one that it will pass over, or for that one.         *)
LEMMA StuckPends ==
  ASSUME NEW S, SelfNeeding(S), NEW o \in S, o \in Op, NEW h \in Seq(Answer),
         HeardStuck(o, h), ~Has(h, IsSignal)
  PROVE  /\ o \notin Loops => BinaryPending(o, h)
         /\ o \in Loops => ForHashPending(o, h) /\ ForPending(o, h)
         /\ Len(h) + 1 \in DOMAIN Operands[o]
         /\ \/ PassedOver(o, Operands[o][Len(h) + 1])
            \/ /\ Operands[o][Len(h) + 1] \in Result
               /\ Operands[o][Len(h) + 1][1] \in S
<1>1. PICK i \in DOMAIN Operands[o] :
        /\ Operands[o][i] \in Result /\ Operands[o][i][1] \in S
        /\ \A j \in 1..(i - 1) : PassedOver(o, Operands[o][j])
  BY DEF SelfNeeding, NeedsOneOf
<1>2. Len(h) \in Nat /\ DOMAIN h = 1..Len(h)  BY LenProperties
<1>3. /\ Operands[o] \in Seq(Value) /\ Len(Operands[o]) \in Nat
      /\ DOMAIN Operands[o] = 1..Len(Operands[o])
  BY ProgramFacts, LenProperties
<1>4. i \in 1..Len(Operands[o])  BY <1>1, <1>3
<1>5. \A j \in 1..Len(h) : /\ j \in DOMAIN Operands[o] /\ PassedOver(o, Operands[o][j])
                           /\ h[j] = FoldsTo(Operands[o][j])
  BY <1>2 DEF HeardStuck, Has
<1>6. ~PassedOver(o, Operands[o][i])
  BY <1>1, KindAssumption DEF PassedOver, HasConstant
<1>7. Len(h) < i
  <2> SUFFICES ASSUME ~(Len(h) < i) PROVE FALSE  OBVIOUS
  <2>1. i \in 1..Len(h)  BY <1>2, <1>4
  <2> QED  BY <1>5, <1>6, <2>1
<1>8. Len(h) + 1 \in 1..i /\ Len(h) + 1 \in DOMAIN Operands[o]
  BY <1>2, <1>3, <1>4, <1>7
<1>9. \/ PassedOver(o, Operands[o][Len(h) + 1])
      \/ /\ Operands[o][Len(h) + 1] \in Result
         /\ Operands[o][Len(h) + 1][1] \in S
  <2>1. CASE Len(h) + 1 = i  BY <1>1, <2>1
  <2>2. CASE Len(h) + 1 # i
    <3>1. Len(h) + 1 \in 1..(i - 1)  BY <1>2, <1>4, <1>8, <2>2
    <3> QED  BY <1>1, <3>1
  <2> QED  BY <2>1, <2>2
<1>10. ASSUME o \notin Loops PROVE BinaryPending(o, h)
  <2>1. Len(Operands[o]) = 2  BY <1>10, InterpAssumption
  <2>2. Len(h) = 0 \/ Len(h) = 1  BY <1>2, <1>4, <1>7, <2>1
  <2>3. CASE Len(h) = 0  BY <2>3, EmptySeq DEF BinaryPending
  <2>4. CASE Len(h) = 1
    <3>1. 1 \in 1..Len(h)  BY <2>4
    <3>2. PassedOver(o, Operands[o][1]) /\ h[1] = FoldsTo(Operands[o][1])
      BY <1>5, <3>1
    <3>3. ~Decides(o, h[1])  BY <1>10, <3>2 DEF PassedOver
    <3> QED  BY <2>4, <3>3 DEF BinaryPending
  <2> QED  BY <2>2, <2>3, <2>4
<1>11. ASSUME o \in Loops PROVE ForHashPending(o, h) /\ ForPending(o, h)
  <2>1. Len(h) < Len(Operands[o])  BY <1>2, <1>3, <1>4, <1>7
  <2>2. ~Has(h, IsUnknown)
    BY <1>2, <1>5, <1>11 DEF Has, PassedOver
  <2> QED  BY <2>1, <2>2 DEF ForHashPending, ForPending
<1> QED  BY <1>8, <1>9, <1>10, <1>11

(* What the top callback does when its operation is in S.                  *)

LEMMA TopStuckFacts ==
  ASSUME InterpInv, stack # <<>>, NEW S, StuckInv(S), TopOp \in S
  PROVE  /\ Top.pc \in {"isCacheable", "getHash", "charge", "evaluate"}
         /\ Local.at = "begin" /\ HeardStuck(TopOp, Heard) /\ Heard \in Seq(Answer)
<1>1. Len(stack) \in 1..Len(stack) /\ Local = locals[Len(stack)]
      /\ Top = stack[Len(stack)]
  BY StackSizes
<1>2. Stuck(Top, Local, S)  BY <1>1 DEF StuckInv
<1> QED  BY <1>2, HeardType DEF Stuck, TopOp, Heard

LEMMA StuckWants ==
  ASSUME InterpInv, stack # <<>>, NEW S, SelfNeeding(S), StuckInv(S), TopOp \in S,
         NEW v \in Wants
  PROVE  /\ Len(Heard) + 1 \in DOMAIN Operands[TopOp]
         /\ v = Operands[TopOp][Len(Heard) + 1]
         /\ PassedOver(TopOp, v) \/ (v \in Result /\ v[1] \in S)
<1>1. /\ Top.pc \in {"isCacheable", "getHash", "charge", "evaluate"}
      /\ Local.at = "begin" /\ HeardStuck(TopOp, Heard) /\ Heard \in Seq(Answer)
      /\ TopOp \in Op
  BY TopStuckFacts, TopFacts DEF InterpInv
<1>2. v \in HashWants(TopOp) \/ v \in EvaluateWants(TopOp)
  BY <1>1 DEF Wants
<1>3. /\ v = Operands[TopOp][Len(Heard) + 1]
      /\ \/ TopOp \notin Loops /\ BinaryPending(TopOp, Heard)
         \/ TopOp \in Loops /\ ForHashPending(TopOp, Heard)
  BY <1>1, <1>2 DEF HashWants, EvaluateWants, BinaryWants, ForPending
<1>4. ~Has(Heard, IsSignal)
  <2>1. CASE TopOp \in Loops  BY <1>3, <2>1 DEF ForHashPending
  <2>2. CASE TopOp \notin Loops /\ BinaryPending(TopOp, Heard)
    <3>1. Len(Heard) \in Nat /\ DOMAIN Heard = 1..Len(Heard)  BY <1>1, LenProperties
    <3>2. Heard = <<>> => Len(Heard) = 0  BY EmptySeq
    <3>3. Len(Heard) = 1 => ~IsSignal(Heard[1])  BY <2>2, <3>2 DEF BinaryPending, Decides
    <3> QED  BY <2>2, <3>1, <3>2, <3>3 DEF BinaryPending, Has
  <2> QED  BY <1>3, <2>1, <2>2
<1> QED  BY <1>1, <1>3, <1>4, StuckPends

LEMMA StuckDecides ==
  ASSUME InterpInv, stack # <<>>, NEW S, SelfNeeding(S), StuckInv(S), TopOp \in S,
         Wants = {}, Top.pc \in {"getHash", "evaluate"}
  PROVE  Has(Heard, IsSignal)
<1>1. /\ Local.at = "begin" /\ HeardStuck(TopOp, Heard) /\ Heard \in Seq(Answer)
      /\ TopOp \in Op
  BY TopStuckFacts, TopFacts DEF InterpInv
<1> SUFFICES ASSUME ~Has(Heard, IsSignal) PROVE FALSE  OBVIOUS
<1>2. /\ TopOp \notin Loops => BinaryPending(TopOp, Heard)
      /\ TopOp \in Loops => ForHashPending(TopOp, Heard) /\ ForPending(TopOp, Heard)
  BY <1>1, StuckPends
<1>3. HashWants(TopOp) = {} \/ EvaluateWants(TopOp) = {}
  BY DEF Wants
<1>4. HashWants(TopOp) # {}  BY <1>2 DEF HashWants, BinaryWants
<1>5. EvaluateWants(TopOp) # {}
  BY <1>1, <1>2 DEF EvaluateWants, BinaryWants
<1> QED  BY <1>3, <1>4, <1>5

(* The activations a step changes stay stuck, and those it leaves.         *)
LEMMA AppendStuck ==
  ASSUME NEW o, NEW h \in Seq(Answer), HeardStuck(o, h), NEW a \in Answer,
         \/ IsSignal(a)
         \/ /\ Len(h) + 1 \in DOMAIN Operands[o]
            /\ PassedOver(o, Operands[o][Len(h) + 1])
            /\ a = FoldsTo(Operands[o][Len(h) + 1])
  PROVE  HeardStuck(o, Append(h, a))
BY AppendElements DEF HeardStuck

LEMMA SetStuck ==
  ASSUME InterpInv, stack # <<>>, NEW S, StuckInv(S), Len(stack') = Len(stack),
         SameBelow(Len(stack) - 1), stack'[Len(stack)].val = Top.val,
         NEW l, SetLocal(l), Stuck(stack'[Len(stack)], l, S)
  PROVE  StuckInv(S)'
<1> PICK n : n = Len(stack)  OBVIOUS
<1>1. n \in Nat \ {0} /\ Len(locals) = n /\ locals \in Seq(LocalRecord)
      /\ Top = stack[n]
  BY StackSizes
<1>2. \A i \in 1..n : locals'[i] = IF i = n THEN l ELSE locals[i]
  <2>1. DOMAIN locals = 1..n  BY <1>1, LenProperties
  <2> QED  BY <1>1, <2>1 DEF SetLocal
<1>3. \A i \in 1..n : stack'[i].val = stack[i].val
  <2>1. \A i \in 1..n : i = n \/ i \in 1..(n - 1)  BY <1>1
  <2> QED  BY <1>1, <2>1 DEF SameBelow
<1>4. ASSUME NEW i \in 1..n
      PROVE  /\ Stuck(stack'[i], locals'[i], S)
             /\ i # n /\ stack'[i].val[1] \in S => stack'[i + 1].val[1] \in S
  <2>1. CASE i = n  BY <1>2, <2>1
  <2>2. CASE i # n
    <3>1. i \in 1..(n - 1) /\ i + 1 \in 1..n  BY <1>1, <2>2
    <3>2. stack'[i] = stack[i] /\ locals'[i] = locals[i]
      BY <1>2, <2>2, <3>1 DEF SameBelow
    <3> QED  BY <1>3, <2>2, <3>1, <3>2 DEF StuckInv
  <2> QED  BY <2>1, <2>2
<1> QED  BY <1>4 DEF StuckInv

LEMMA HearStuck ==
  ASSUME InterpInv, stack # <<>>, NEW S, StuckInv(S), UNCHANGED stack,
         NEW a \in Answer, locals' = Hears(locals, a),
         TopOp \in S => HeardStuck(TopOp, Append(Heard, a))
  PROVE  StuckInv(S)'
<1> PICK n : n = Len(stack)  OBVIOUS
<1>1. n \in Nat \ {0} /\ n \in 1..n /\ Top = stack[n] /\ Local = locals[n]
      /\ Local \in LocalRecord
  BY StackSizes, LocalsFacts
<1>2. \A i \in 1..n : locals'[i] = IF i = n
                                   THEN [locals[i] EXCEPT !.heard = Append(@, a)]
                                   ELSE locals[i]
  BY HearFacts
<1>3. Stuck(stack[n], locals'[n], S)
  <2> SUFFICES ASSUME TopOp \in S PROVE Stuck(stack[n], locals'[n], S)
    BY <1>1 DEF Stuck, TopOp
  <2>1. locals'[n].at = Local.at /\ locals'[n].heard = Append(Heard, a)
    BY <1>1, <1>2 DEF LocalRecord, Heard
  <2>2. Stuck(stack[n], Local, S)  BY <1>1 DEF StuckInv
  <2> QED  BY <1>1, <2>1, <2>2 DEF Stuck, TopOp
<1>4. \A i \in 1..n : Stuck(stack[i], locals'[i], S)
  BY <1>2, <1>3 DEF StuckInv
<1> QED  BY <1>4 DEF StuckInv

LEMMA PopStuck ==
  ASSUME InterpInv, stack # <<>>, NEW S, StuckInv(S),
         stack' = SubSeq(stack, 1, Len(stack) - 1), NEW a \in Answer,
         locals' = Hears(SubSeq(locals, 1, Len(locals) - 1), a),
         TopOp \in S => IsSignal(a)
  PROVE  StuckInv(S)'
<1> PICK n : n = Len(stack)  OBVIOUS
<1>1. n \in Nat \ {0} /\ Top = stack[n] /\ Len(locals) = n
      /\ locals \in Seq(LocalRecord)
  BY StackSizes
<1>2. /\ Len(stack') = n - 1
      /\ \A i \in 1..(n - 1) :
           /\ stack'[i] = stack[i]
           /\ locals'[i] = IF i = n - 1 THEN [locals[i] EXCEPT !.heard = Append(@, a)]
                           ELSE locals[i]
  BY PoppedFacts
<1>3. ASSUME NEW i \in 1..(n - 1)
      PROVE  /\ Stuck(stack'[i], locals'[i], S)
             /\ i # n - 1 /\ stack'[i].val[1] \in S => stack'[i + 1].val[1] \in S
  <2>1. i \in 1..n /\ i # n  BY <1>1
  <2>2. Stuck(stack[i], locals[i], S)  BY <2>1 DEF StuckInv
  <2>3. stack[i].val[1] \in S => stack[i + 1].val[1] \in S
    BY <2>1 DEF StuckInv
  <2>4. CASE i = n - 1
    <3> SUFFICES ASSUME stack[i].val[1] \in S PROVE Stuck(stack'[i], locals'[i], S)
      BY <1>2, <2>4 DEF Stuck
    <3> PICK o, h : o = stack[i].val[1] /\ h = locals[i].heard  OBVIOUS
    <3>1. i + 1 = n  BY <1>1, <2>4
    <3>2. IsSignal(a)  BY <1>1, <2>3, <3>1 DEF TopOp
    <3>3. locals[i] \in LocalRecord  BY <1>1, <2>1, ElementOfSeq
    <3>4. /\ locals'[i].heard = Append(h, a) /\ locals'[i].at = locals[i].at
          /\ h \in Seq(Answer)
      BY <1>2, <2>4, <3>3 DEF LocalRecord
    <3>5. HeardStuck(o, Append(h, a))
      <4>1. HeardStuck(o, h)  BY <2>2 DEF Stuck
      <4> QED  BY <3>2, <3>4, <4>1, AppendStuck
    <3> QED  BY <1>2, <2>2, <3>4, <3>5 DEF Stuck
  <2>5. CASE i # n - 1
    <3>1. i + 1 \in 1..(n - 1)  BY <1>1, <2>5
    <3> QED  BY <1>2, <2>2, <2>3, <2>5, <3>1
  <2> QED  BY <2>4, <2>5
<1> QED  BY <1>2, <1>3 DEF StuckInv

LEMMA PushStuck ==
  ASSUME InterpInv, NEW S, StuckInv(S), NEW v \in Result, Activate(v),
         locals' = Append(locals, Fresh),
         stack # <<>> /\ TopOp \in S => v[1] \in S
  PROVE  StuckInv(S)'
<1> PICK n : n = Len(stack)  OBVIOUS
<1>1. n \in Nat  BY LenProperties DEF InterpInv, TypeInv, TypeOK
<1>2. /\ Len(stack') = n + 1
      /\ \A i \in 1..n : stack'[i] = stack[i] /\ locals'[i] = locals[i]
      /\ locals'[n + 1] = Fresh /\ stack'[n + 1].val = v
      /\ stack'[n + 1].pc = "isCacheable"
  BY PushedFacts
<1>3. ASSUME NEW i \in 1..(n + 1)
      PROVE  /\ Stuck(stack'[i], locals'[i], S)
             /\ i # n + 1 /\ stack'[i].val[1] \in S => stack'[i + 1].val[1] \in S
  <2>1. CASE i = n + 1
    <3>1. Fresh.at = "begin" /\ Fresh.heard = <<>>  BY DEF Fresh
    <3>2. HeardStuck(v[1], <<>>)  BY DEF HeardStuck
    <3> QED  BY <1>2, <2>1, <3>1, <3>2 DEF Stuck
  <2>2. CASE i = n
    <3>1. i \in 1..n /\ stack # <<>> /\ Top = stack[n]
      BY <1>1, <2>2, EmptySeq DEF Top
    <3>2. Stuck(stack[i], locals[i], S)  BY <3>1 DEF StuckInv
    <3>3. stack[i].val[1] \in S => v[1] \in S  BY <2>2, <3>1 DEF TopOp
    <3> QED  BY <1>2, <2>2, <3>1, <3>2, <3>3
  <2>3. CASE i # n /\ i # n + 1
    <3>1. i \in 1..n /\ i + 1 \in 1..n  BY <1>1, <2>3
    <3> QED  BY <1>2, <2>3, <3>1 DEF StuckInv
  <2> QED  BY <2>1, <2>2, <2>3
<1> QED  BY <1>2, <1>3 DEF StuckInv

-----------------------------------------------------------------------------
(* The steps of operations that need themselves, and of the others.        *)

LEMMA SignalsMemoizeNothing ==
  ASSUME TypeInv, NEW f, MemoizeAll(f), \A v \in DOMAIN f : IsSignal(f[v])
  PROVE  UNCHANGED memo
<1>1. memo \in [Value -> Memo \cup {NotMemoized}]  BY DEF TypeInv, TypeOK
<1>2. \A v \in Value : memo'[v] = memo[v]
  BY DEF MemoizeAll, Memoizable, IsSignal
<1>3. DOMAIN memo = Value /\ DOMAIN memo' = Value  BY <1>1 DEF MemoizeAll
<1>4. memo' = [v \in Value |-> memo'[v]] /\ memo = [v \in Value |-> memo[v]]
  BY <1>1 DEF MemoizeAll
<1>5. [v \in Value |-> memo'[v]] = [v \in Value |-> memo[v]]  BY <1>2
<1> QED  BY <1>4, <1>5

(* What stays of a callback of S until it returns, and how it does.        *)
StuckGoesOn == \E r : /\ Become(r) /\ r.val = Top.val
                      /\ r.pc \in {"getHash", "charge", "evaluate"}
SignalLeaves == \E a \in Answer : Leave(a) /\ IsSignal(a)

LEMMA SignalReturns ==
  ASSUME TypeInv, stack # <<>>, NEW a \in Answer, IsSignal(a), Return(a)
  PROVE  SignalLeaves /\ UNCHANGED memo
<1>1. CASE Len(stack) > 1
  <2> PICK f : f = [x \in {Top.val} |-> a]  OBVIOUS
  <2>1. MemoizeAll(f)  BY <1>1 DEF Return
  <2> QED  BY <2>1, SignalsMemoizeNothing DEF Return, SignalLeaves
<1>2. CASE ~(Len(stack) > 1)  BY <1>2 DEF Return, SignalLeaves
<1> QED  BY <1>1, <1>2

(* Signals are neither stored nor memoized.                                *)
LEMMA SignalsReturned ==
  ASSUME TypeInv, stack # <<>>, NEW results \in Answers(TopOp),
         \A i \in DOMAIN results : IsSignal(results[i]), EvaluateReturn(results)
  PROVE  SignalLeaves /\ UNCHANGED <<memo, entries>>
<1>1. \A a \in Known : ~IsSignal(a)  BY AnswerFacts DEF IsSignal
<1>2. ~Stores(results)  BY <1>1 DEF Stores
<1>3. ReturnEvaluated(results, NoEntry(TopOp)) /\ UNCHANGED entries
  BY <1>2 DEF EvaluateReturn
<1>4. \A i \in 1..Arity[TopOp] : NoEntry(TopOp).results[i] = NoAnswer
  BY DEF NoEntry
<1> PICK f : f = [x \in {TopOp} \X (1..Arity[TopOp]) |->
                    IF NoEntry(TopOp).results[x[2]] # NoAnswer
                    THEN NoEntry(TopOp).results[x[2]] ELSE results[x[2]]]
  OBVIOUS
<1>5. Leave(f[Top.val]) /\ MemoizeAll(f)  BY <1>3 DEF ReturnEvaluated
<1>6. \A x \in {TopOp} \X (1..Arity[TopOp]) : x[2] \in 1..Arity[TopOp]  OBVIOUS
<1>7. \A x \in {TopOp} \X (1..Arity[TopOp]) : f[x] = results[x[2]]
  BY <1>4, <1>6
<1>8. \A x \in {TopOp} \X (1..Arity[TopOp]) : f[x] \in Answer /\ IsSignal(f[x])
  BY <1>6, <1>7 DEF Answers
<1>9. Top.val \in {TopOp} \X (1..Arity[TopOp])
  BY TopFacts, ValueFacts DEF TopOp
<1>10. UNCHANGED memo  BY <1>5, <1>8, SignalsMemoizeNothing
<1> QED  BY <1>3, <1>5, <1>8, <1>9, <1>10 DEF SignalLeaves

LEMMA StuckReturns ==
  ASSUME InterpInv, stack # <<>>, NEW S, SelfNeeding(S), StuckInv(S), TopOp \in S,
         CallbackStep \/ ForRefused \/ ForReturns
  PROVE  (StuckGoesOn \/ SignalLeaves) /\ UNCHANGED <<memo, entries>>
<1>1. /\ Top.pc \in {"isCacheable", "getHash", "charge", "evaluate"}
      /\ Local.at = "begin" /\ Heard \in Seq(Answer)
      /\ Top \in Activation /\ TopOp \in Op /\ TypeInv
  BY TopStuckFacts, TopFacts DEF InterpInv
<1>2. ASSUME NEW p, Become([Top EXCEPT !.pc = p]),
             p \in {"getHash", "charge", "evaluate"}
      PROVE  StuckGoesOn
  <2>1. PICK r : r = [Top EXCEPT !.pc = p]  OBVIOUS
  <2>2. r.val = Top.val /\ r.pc = p  BY <1>1, <2>1 DEF Activation
  <2> QED  BY <1>2, <2>1, <2>2 DEF StuckGoesOn
<1>3. CASE IsCacheable
  BY <1>2, <1>3 DEF IsCacheable, Eligible, cache
<1>4. ASSUME Wants = {}, Top.pc \in {"getHash", "evaluate"}
      PROVE  /\ Has(Heard, IsSignal) /\ SignalIn(Heard) \in Answer
             /\ IsSignal(SignalIn(Heard))
             /\ SignalIn(Heard) = Signaled(SignalIn(Heard).status)
  <2>1. Has(Heard, IsSignal)  BY <1>4, StuckDecides
  <2>2. IsSignal(SignalIn(Heard))
    BY <2>1, SignalHeard DEF Has, SignalIn
  <2> QED  BY <1>1, <2>1, <2>2, HeardFacts
<1>5. CASE GetHash
  <2>1. Top.pc = "getHash" /\ Wants = {}  BY <1>5 DEF GetHash, Decided, At
  <2> PICK a : a = SignalIn(Heard)  OBVIOUS
  <2>2. Has(Heard, IsSignal) /\ a \in Answer /\ IsSignal(a) /\ a = Signaled(a.status)
    BY <1>4, <2>1
  <2>3. Return(a) /\ UNCHANGED entries
    BY <1>5, <2>2 DEF GetHash, KeySignal, cache
  <2> QED  BY <1>1, <2>2, <2>3, SignalReturns
<1>6. CASE IsEquivalentTo  BY <1>1, <1>6 DEF IsEquivalentTo, Decided, At
<1>7. CASE SearchMiss \/ SearchOwn \/ SearchSkip \/ SearchCompare
  BY <1>1, <1>7 DEF SearchMiss, SearchOwn, SearchSkip, SearchCompare, At
<1>8. CASE Charge
  <2>1. Signaled("Exhausted") \in Answer /\ IsSignal(Signaled("Exhausted"))
    BY AnswerFacts, AnswerAssumption DEF IsSignal, Signaled
  <2>2. UNCHANGED entries  BY <1>8 DEF Charge, cache
  <2>3. CASE Become([Top EXCEPT !.pc = "evaluate"]) /\ UNCHANGED memo
    BY <1>2, <2>2, <2>3
  <2>4. CASE Return(Signaled("Exhausted"))
    BY <1>1, <2>1, <2>2, <2>4, SignalReturns
  <2> QED  BY <1>8, <2>3, <2>4 DEF Charge
<1>9. CASE BinaryEvaluate
  <2> PICK a : a = BinaryResult(TopOp, Heard)  OBVIOUS
  <2>1. Top.pc = "evaluate" /\ Wants = {} /\ TopOp \notin Loops
        /\ EvaluateReturn(<<a>>)
    BY <1>9 DEF BinaryEvaluate, Decided, At
  <2>2. a \in Answer /\ IsSignal(a)  BY <1>4, <2>1 DEF BinaryResult
  <2>3. Arity[TopOp] = 1  BY <1>1, <2>1, ProgramFacts
  <2>4. <<a>> \in Answers(TopOp)  BY <2>2, <2>3 DEF Answers
  <2>5. \A i \in DOMAIN <<a>> : IsSignal(<<a>>[i])  BY <2>2
  <2> QED  BY <1>1, <2>1, <2>4, <2>5, SignalsReturned
<1>10. CASE ForRefused
  <2> PICK a : a = SignalIn(Heard)  OBVIOUS
  <2>1. InFor("begin") /\ EvaluateReturn(ForRefusal(TopOp, Heard))
    BY <1>10 DEF ForRefused
  <2>2. Top.pc = "evaluate" /\ Wants = {}  BY <2>1 DEF InFor, Decided, At
  <2>3. Has(Heard, IsSignal) /\ a \in Answer /\ IsSignal(a)  BY <1>4, <2>2
  <2>4. EvaluateReturn(Propagated(TopOp, a))  BY <2>1, <2>3 DEF ForRefusal
  <2>5. Propagated(TopOp, a) \in Answers(TopOp)  BY <1>1, <2>3, PropagatedType
  <2>6. \A i \in DOMAIN Propagated(TopOp, a) : IsSignal(Propagated(TopOp, a)[i])
    BY <2>3 DEF Propagated
  <2> QED  BY <1>1, <2>4, <2>5, <2>6, SignalsReturned
<1>11. CASE ForReturns  BY <1>1, <1>11 DEF ForReturns, InFor
<1> QED  BY <1>3, <1>5, <1>6, <1>7, <1>8, <1>9, <1>10, <1>11
         DEF CallbackStep, Internal

(* What the memo and the cache know of S.                                  *)
LEMMA StoresNone ==
  ASSUME TypeInv, NEW S, NeverStored(S), [Next]_vars,
         stack # <<>> /\ Searching(Top) => TopOp \notin S
  PROVE  NeverStored(S)'
<1> SUFFICES ASSUME NEW k \in Key, NEW m \in DOMAIN entries'[k]
             PROVE  entries'[k][m].op \notin S
  BY DEF NeverStored
<1>1. entries \in [Key -> Seq(Entry)]  BY DEF TypeInv, TypeOK
<1>2. CASE entries' = entries  BY <1>2 DEF NeverStored
<1>3. CASE Fills
  <2>1. m \in DOMAIN entries[k] /\ entries'[k][m].op = entries[k][m].op
    BY <1>3 DEF Fills, Extends
  <2> QED  BY <2>1 DEF NeverStored
<1>4. CASE Adds
  <2>1. PICK e \in Entry :
          e.op = TopOp /\ entries' = [entries EXCEPT ![Top.key] = Append(@, e)]
    BY <1>4 DEF Adds
  <2>2. TopOp \notin S  BY <1>4 DEF Adds
  <2>3. CASE k # Top.key
    <3>1. entries'[k] = entries[k]  BY <1>1, <2>1, <2>3
    <3> QED  BY <3>1 DEF NeverStored
  <2>4. CASE k = Top.key
    <3> PICK old : old = entries[k]  OBVIOUS
    <3>1. entries'[k] = Append(old, e) /\ old \in Seq(Entry)
      BY <1>1, <2>1, <2>4
    <3>2. /\ Append(old, e) \in Seq(Entry) /\ Len(Append(old, e)) = Len(old) + 1
          /\ Append(old, e)[Len(old) + 1] = e
          /\ \A i \in 1..Len(old) : Append(old, e)[i] = old[i]
      BY <3>1, AppendProperties
    <3>3. Len(old) \in Nat /\ DOMAIN old = 1..Len(old)
          /\ DOMAIN Append(old, e) = 1..(Len(old) + 1)
      BY <3>1, <3>2, LenProperties
    <3>4. m = Len(old) + 1 \/ m \in DOMAIN old  BY <3>1, <3>3
    <3>5. CASE m = Len(old) + 1  BY <2>1, <2>2, <3>1, <3>2, <3>5
    <3>6. CASE m \in DOMAIN old
      <4>1. entries'[k][m] = old[m]  BY <3>1, <3>2, <3>3, <3>6
      <4> QED  BY <3>6, <4>1 DEF NeverStored
    <3> QED  BY <3>4, <3>5, <3>6
  <2> QED  BY <2>3, <2>4
<1>5. CASE ClearCache  BY <1>5 DEF ClearCache
<1> QED  BY <1>2, <1>3, <1>4, <1>5, EntryKinds

LEMMA HostCyclic ==
  ASSUME InterpInv, NEW S, CyclicInv(S), HostStep
  PROVE  CyclicInv(S)'
<1>1. stack = <<>> /\ Len(stack) = 0 /\ locals = <<>>
  <2>1. stack = <<>>  BY DEF HostStep, Host, Query, EndQuery, ClearCache, InterpInv,
                             TypeInv, Idle
  <2>2. locals \in Seq(LocalRecord) /\ Len(locals) = Len(stack)
    BY DEF InterpInv, LocalsInv
  <2> QED  BY <2>1, <2>2, EmptySeq
<1>2. UNCHANGED stack => StuckInv(S)'  BY <1>1 DEF StuckInv
<1>3. CASE EndQuery
  <2>1. Result \subseteq Value  BY DEF Value
  <2>2. NeverMemoized(S)'  BY <1>3, <2>1 DEF EndQuery, NeverMemoized
  <2>3. NeverStored(S)' /\ SignalsBack(S)'
    BY <1>3 DEF EndQuery, CyclicInv, NeverStored, SignalsBack, Answered, cache
  <2> QED  BY <1>2, <1>3, <2>2, <2>3 DEF EndQuery, CyclicInv
<1>4. CASE ClearCache
  <2>1. NeverStored(S)'  BY <1>4 DEF ClearCache, NeverStored
  <2>2. NeverMemoized(S)' /\ SignalsBack(S)'
    BY <1>4 DEF ClearCache, CyclicInv, NeverMemoized, SignalsBack, Answered
  <2> QED  BY <1>2, <1>4, <2>1, <2>2 DEF ClearCache, CyclicInv
<1>5. ASSUME NEW v \in Value, NEW b \in Budgets, Query(v, b)
      PROVE  CyclicInv(S)'
  <2>1. NeverMemoized(S)' /\ NeverStored(S)'
    BY <1>5 DEF Query, CyclicInv, NeverMemoized, NeverStored
  <2>2. CASE v \in Result /\ Activate(v)
    <3>1. stack' # <<>>
      <4>1. Len(stack') = Len(stack) + 1  BY <2>2, PushFacts DEF InterpInv
      <4> QED  BY <1>1, <4>1, EmptySeq
    <3>2. locals' = Append(locals, Fresh)  BY <1>1, <3>1 DEF HostStep
    <3>3. StuckInv(S)'  BY <1>1, <2>2, <3>2, PushStuck DEF CyclicInv
    <3>4. SignalsBack(S)'  BY <3>1 DEF SignalsBack, Answered
    <3> QED  BY <2>1, <3>3, <3>4 DEF CyclicInv
  <2>3. CASE v \notin Result /\ UNCHANGED stack
    <3>1. SignalsBack(S)'  BY <1>5, <2>3 DEF Query, SignalsBack
    <3> QED  BY <1>2, <2>1, <2>3, <3>1 DEF CyclicInv
  <2> QED  BY <1>5, <2>2, <2>3 DEF Query
<1> QED  BY <1>3, <1>4, <1>5 DEF HostStep, Host

LEMMA AskCyclic ==
  ASSUME InterpInv, ConstantsFold, NEW S, SelfNeeding(S), CyclicInv(S), AskStep
  PROVE  CyclicInv(S)'
<1>1. PICK v : v \in Wants /\ Ask(v)  BY DEF AskStep
<1>2. stack # <<>> /\ AskLocals /\ UNCHANGED entries
  BY <1>1 DEF AskStep, InCallback, Ask, QueryMemoized, QueryLeaf, QueryCycle,
     QueryEnter, cache
<1>3. v \in Value /\ Len(stack) \in Nat \ {0} /\ StuckInv(S) /\ TypeInv
  BY <1>1, <1>2, AskedValue, StackSizes DEF InterpInv, CyclicInv
<1>4. NeverMemoized(S)' /\ NeverStored(S)'
  <2>1. \A x \in Result : memo'[x] = memo[x]
    <3>1. CASE QueryLeaf(v)
      <4>1. \A x \in Result : x \in Value /\ x # v  BY <3>1 DEF QueryLeaf, Value
      <4> QED  BY <3>1, <4>1 DEF QueryLeaf, MemoizeAll
    <3>2. CASE QueryMemoized(v) \/ QueryCycle(v) \/ QueryEnter(v)
      BY <3>2 DEF QueryMemoized, QueryCycle, QueryEnter
    <3> QED  BY <1>1, <3>1, <3>2 DEF Ask
  <2> QED  BY <1>2, <2>1 DEF CyclicInv, NeverMemoized, NeverStored
<1>5. stack' # <<>> => CyclicInv(S)' \/ ~StuckInv(S)'
  BY <1>4 DEF CyclicInv, SignalsBack, Answered
<1>6. ASSUME TopOp \in S
      PROVE  /\ Heard \in Seq(Answer) /\ HeardStuck(TopOp, Heard)
             /\ Len(Heard) + 1 \in DOMAIN Operands[TopOp]
             /\ v = Operands[TopOp][Len(Heard) + 1]
             /\ \/ PassedOver(TopOp, v) /\ v \notin Result
                \/ v \in Result /\ v[1] \in S
  <2>1. PassedOver(TopOp, v) => v \notin Result
    BY KindAssumption DEF PassedOver, HasConstant
  <2> QED  BY <1>1, <1>2, <1>3, <1>6, <2>1, StuckWants, TopStuckFacts
<1>7. ASSUME UNCHANGED stack, NEW a \in Answer, a = answer',
             TopOp \in S => IsSignal(a) \/ (PassedOver(TopOp, v) /\ a = FoldsTo(v))
      PROVE  CyclicInv(S)'
  <2>1. locals' = Hears(locals, a)
    <3>1. ~(Len(stack') > Len(stack))  BY <1>3, <1>7
    <3>2. locals' = Hears(locals, answer')  BY <1>2, <3>1 DEF AskLocals
    <3> QED  BY <1>7, <3>2
  <2>2. TopOp \in S => HeardStuck(TopOp, Append(Heard, a))
    BY <1>6, <1>7, AppendStuck
  <2>3. StuckInv(S)'  BY <1>2, <1>3, <1>7, <2>1, <2>2, HearStuck
  <2> QED  BY <1>2, <1>5, <1>7, <2>3
<1>8. CASE QueryMemoized(v)
  <2>1. memo[v] # NotMemoized /\ answer' = memo[v].answer /\ UNCHANGED stack
    BY <1>8 DEF QueryMemoized
  <2>2. memo[v] \in Memo  BY <1>3, <2>1 DEF TypeInv, TypeOK
  <2>3. memo[v].answer \in Answer  BY <2>2, AnswerFacts DEF Memo
  <2>4. TopOp \in S => PassedOver(TopOp, v) /\ memo[v].answer = FoldsTo(v)
    <3> SUFFICES ASSUME TopOp \in S
                 PROVE  PassedOver(TopOp, v) /\ memo[v].answer = FoldsTo(v)
      OBVIOUS
    <3>1. PassedOver(TopOp, v)
      BY <1>6, <2>1 DEF CyclicInv, NeverMemoized
    <3>2. v \in Constant /\ HasConstant(v)  BY <3>1 DEF PassedOver, HasConstant
    <3> QED  BY <2>1, <3>1, <3>2 DEF ConstantsFold
  <2> QED  BY <1>7, <2>1, <2>3, <2>4
<1>9. CASE QueryLeaf(v)
  <2>1. v \notin Result /\ answer' = LeafAnswer(v) /\ UNCHANGED stack
    BY <1>9 DEF QueryLeaf
  <2>2. LeafAnswer(v) \in Answer  BY <1>3, <2>1, LeafType, AnswerFacts
  <2>3. TopOp \in S => PassedOver(TopOp, v) /\ LeafAnswer(v) = FoldsTo(v)
    BY <1>3, <1>6, <2>1, FoldFacts DEF PassedOver
  <2> QED  BY <1>7, <2>1, <2>2, <2>3
<1>10. CASE QueryCycle(v)
  <2>1. answer' = Signaled("Cycle") /\ UNCHANGED stack
    BY <1>10 DEF QueryCycle, Reenters
  <2>2. Signaled("Cycle") \in Answer /\ IsSignal(Signaled("Cycle"))
    BY AnswerFacts, AnswerAssumption DEF IsSignal, Signaled
  <2> QED  BY <1>7, <2>1, <2>2
<1>11. CASE QueryEnter(v)
  <2>1. v \in Result /\ Activate(v)  BY <1>11 DEF QueryEnter
  <2>2. Len(stack') = Len(stack) + 1  BY <1>3, <2>1, PushFacts
  <2>3. locals' = Append(locals, Fresh)  BY <1>2, <1>3, <2>2 DEF AskLocals
  <2>4. StuckInv(S)'  BY <1>3, <1>6, <2>1, <2>3, PushStuck
  <2>5. stack' # <<>>  BY <1>3, <2>2, EmptySeq
  <2> QED  BY <1>5, <2>4, <2>5
<1> QED  BY <1>1, <1>8, <1>9, <1>10, <1>11 DEF Ask

(* A return into the outermost query is one of the operation asked for.    *)
LEMMA LastReturns ==
  ASSUME InterpInv, BottomAsked, stack # <<>>, stack' = <<>>,
         Len(stack') = Len(stack) - 1
  PROVE  asked[1] = TopOp
<1>1. Len(stack) \in Nat  BY StackSizes
<1>2. Len(stack') = 0  BY EmptySeq
<1>3. Len(stack) = 1  BY <1>1, <1>2
<1> QED  BY <1>3 DEF BottomAsked, TopOp, Top

LEMMA ReturnCyclic ==
  ASSUME InterpInv, InterpInv', BottomAsked, [Next]_vars,
         NEW S, SelfNeeding(S), CyclicInv(S),
         CallbackStep \/ ForRefused \/ ForReturns,
         CallbackReturn \/ Internal
  PROVE  CyclicInv(S)'
<1> PICK n : n = Len(stack)  OBVIOUS
<1>1. stack # <<>> /\ (Pops \/ Moves) /\ TypeInv /\ StuckInv(S)
  BY ReturnAnswers DEF InterpInv, CyclicInv
<1>2. n \in Nat \ {0} /\ Len(locals) = n  BY <1>1, StackSizes
<1>3. NextLocals  BY DEF CallbackStep, ForRefused, ForReturns
<1>4. UNCHANGED <<asked, running>>
  BY DEF CallbackReturn, Internal, Eligible, CompareReturn, HashReturn, KeySignal,
     SearchMiss, SearchOwn, SearchSkip, SearchCompare, Charge, SearchEnds,
     EvaluateReturn
<1>5. NeverStored(S)'
  <2>1. stack # <<>> /\ Searching(Top) => TopOp \notin S
    BY <1>1, TopStuckFacts DEF Searching
  <2> QED  BY <1>1, <2>1, StoresNone DEF CyclicInv
<1>6. NeverMemoized(S)'
  <2>1. CASE TopOp \in S
    <3>1. UNCHANGED memo  BY <1>1, <2>1, StuckReturns
    <3> QED  BY <3>1 DEF CyclicInv, NeverMemoized
  <2>2. CASE TopOp \notin S
    <3>1. OthersKept  BY <1>1, ReturnKeepsOthers
    <3>2. Result \subseteq Value  BY DEF Value
    <3>3. \A v \in Result : v[1] \in S => memo'[v] = memo[v]
      BY <2>2, <3>1, <3>2 DEF OthersKept
    <3> QED  BY <3>3 DEF CyclicInv, NeverMemoized
  <2> QED  BY <2>1, <2>2
<1>7. ASSUME NEW r, Become(r), r.val = Top.val,
             TopOp \in S => r.pc \in {"getHash", "charge", "evaluate"}
      PROVE  StuckInv(S)' /\ SignalsBack(S)'
  <2>1. Len(stack') = n /\ \A i \in 1..(n - 1) : stack'[i] = stack[i]
    BY <1>1, <1>7, BecomeLength
  <2>2. stack'[n] = r
    <3>1. n \in DOMAIN stack  BY <1>1, TopFacts
    <3> QED  BY <1>7, <3>1 DEF Become
  <2>3. SetLocal(Fresh)  BY <1>2, <1>3, <2>1 DEF NextLocals
  <2>4. Stuck(r, Fresh, S)
    <3>1. Fresh.at = "begin" /\ Fresh.heard = <<>>  BY DEF Fresh
    <3>2. HeardStuck(TopOp, <<>>)  BY DEF HeardStuck
    <3> QED  BY <1>7, <3>1, <3>2 DEF Stuck, TopOp
  <2>5. SameBelow(n - 1)  BY <2>1 DEF SameBelow
  <2>6. StuckInv(S)'  BY <1>1, <1>7, <2>1, <2>2, <2>3, <2>4, <2>5, SetStuck
  <2>7. stack' # <<>>  BY <1>2, <2>1, EmptySeq
  <2> QED  BY <2>6, <2>7 DEF SignalsBack, Answered
<1>8. ASSUME stack' = SubSeq(stack, 1, Len(stack) - 1), answer' \in Answer,
             TopOp \in S => IsSignal(answer')
      PROVE  StuckInv(S)' /\ SignalsBack(S)'
  <2> PICK a : a = answer'  OBVIOUS
  <2>1. Len(stack') = n - 1  BY <1>1, <1>8, PopFacts
  <2>2. locals' = Hears(SubSeq(locals, 1, Len(locals) - 1), a)
    BY <1>2, <1>3, <2>1 DEF NextLocals
  <2>3. StuckInv(S)'  BY <1>1, <1>8, <2>2, PopStuck
  <2>4. ASSUME Answered', asked' \in Result, asked'[1] \in S
        PROVE  IsSignal(answer')
    <3>1. stack' = <<>>  BY <2>4 DEF Answered
    <3>2. asked[1] = TopOp  BY <1>1, <2>1, <3>1, LastReturns
    <3> QED  BY <1>4, <1>8, <2>4, <3>2
  <2> QED  BY <2>3, <2>4 DEF SignalsBack
<1>9. StuckInv(S)' /\ SignalsBack(S)'
  <2>1. CASE TopOp \in S
    <3>1. StuckGoesOn \/ SignalLeaves  BY <1>1, <2>1, StuckReturns
    <3>2. CASE StuckGoesOn  BY <1>7, <3>2 DEF StuckGoesOn
    <3>3. CASE SignalLeaves  BY <1>8, <3>3 DEF SignalLeaves, Leave
    <3> QED  BY <3>1, <3>2, <3>3
  <2>2. CASE TopOp \notin S /\ Moves  BY <1>7, <2>2 DEF Moves, MovesTo
  <2>3. CASE TopOp \notin S /\ Pops
    <3>1. stack' = SubSeq(stack, 1, Len(stack) - 1)  BY <2>3 DEF Pops
    <3>2. answer' # NoAnswer  BY <1>1, <3>1, ReturnAnswers
    <3>3. answer' \in Answer  BY <3>2 DEF InterpInv, TypeInv, TypeOK
    <3> QED  BY <1>8, <2>3, <3>1, <3>3
  <2> QED  BY <1>1, <2>1, <2>2, <2>3
<1> QED  BY <1>5, <1>6, <1>9 DEF CyclicInv

(* A loop of S never runs.                                                 *)
LEMMA ForStepCyclic ==
  ASSUME InterpInv, NEW S, SelfNeeding(S), CyclicInv(S),
         ForStarts \/ ForPays \/ ForBinds \/ ForIterates \/ ForThaws
  PROVE  CyclicInv(S)'
<1>1. /\ stack # <<>> /\ UNCHANGED <<stack, entries>> /\ StuckInv(S)
      /\ Top.pc = "evaluate" /\ Wants = {} /\ \E l : SetLocal(l)
  BY DEF ForStarts, ForPays, ForBinds, ForIterates, ForThaws, Freeze, DeclareCost,
     Bind, Unbind, Unfreeze, InFor, Decided, At, cache, CyclicInv
<1>2. TopOp \notin S
  <2> SUFFICES ASSUME TopOp \in S PROVE FALSE  OBVIOUS
  <2>1. Local.at = "begin" /\ Has(Heard, IsSignal)
    BY <1>1, TopStuckFacts, StuckDecides
  <2> QED
    BY <2>1 DEF ForStarts, ForPays, ForBinds, ForIterates, ForThaws, InFor, ForRuns
<1>3. NeverMemoized(S)'
  <2>1. CASE UNCHANGED memo  BY <2>1 DEF CyclicInv, NeverMemoized
  <2>2. CASE ForgetIteration
    <3>1. Result \subseteq Value  BY DEF Value
    <3> QED  BY <2>2, <3>1 DEF ForgetIteration, CyclicInv, NeverMemoized
  <2> QED
    BY <2>1, <2>2 DEF ForStarts, ForPays, ForBinds, ForIterates, ForThaws, Freeze,
       DeclareCost, Bind, Unbind, Unfreeze
<1>4. StuckInv(S)'
  <2>1. PICK l : SetLocal(l)  BY <1>1
  <2>2. SameBelow(Len(stack) - 1) /\ stack'[Len(stack)] = Top
    BY <1>1 DEF SameBelow, Top
  <2>3. Stuck(Top, l, S)  BY <1>2 DEF Stuck, TopOp
  <2> QED  BY <1>1, <2>1, <2>2, <2>3, SetStuck
<1>5. NeverStored(S)' /\ SignalsBack(S)'
  BY <1>1 DEF CyclicInv, NeverStored, SignalsBack, Answered
<1> QED  BY <1>3, <1>4, <1>5 DEF CyclicInv

LEMMA CyclicStep ==
  ASSUME InterpInv, BottomAsked, HashesToKeys, ConstantsFold,
         NEW S, SelfNeeding(S), CyclicInv(S), [INext]_ivars
  PROVE  CyclicInv(S)'
<1>1. [Next]_vars /\ InterpInv'  BY InterpStep
<1>2. CASE UNCHANGED ivars
  <2>1. UNCHANGED <<running, asked, answer, stack, locals, memo, entries>>
    BY <1>2 DEF ivars, vars, cache
  <2> QED
    BY <2>1 DEF CyclicInv, StuckInv, NeverMemoized, NeverStored, SignalsBack, Answered
<1>3. CASE HostStep  BY <1>3, HostCyclic
<1>4. CASE AskStep  BY <1>4, AskCyclic
<1>5. CASE CallbackStep  BY <1>1, <1>5, CallbackReturns, ReturnCyclic
<1>6. CASE ForRefused \/ ForReturns
  <2>1. CallbackReturn  BY <1>6, ForCallbackReturns
  <2> QED  BY <1>1, <1>6, <2>1, ReturnCyclic
<1>7. CASE ForStarts \/ ForPays \/ ForBinds \/ ForIterates \/ ForThaws
  BY <1>7, ForStepCyclic
<1> QED  BY <1>2, <1>3, <1>4, <1>5, <1>6, <1>7 DEF INext, EngineStep, ForStep

LEMMA CyclicInit ==
  ASSUME IInit, NEW S
  PROVE  CyclicInv(S)
<1>1. stack = <<>> /\ Len(stack) = 0 /\ ~running  BY EmptySeq DEF IInit, Init
<1>2. Result \subseteq Value  BY DEF Value
<1>3. \A v \in Result : memo[v] = NotMemoized  BY <1>2 DEF IInit, Init
<1>4. \A k \in Key : entries[k] = <<>>  BY DEF IInit, Init
<1> QED  BY <1>1, <1>3, <1>4 DEF CyclicInv, StuckInv, NeverMemoized, NeverStored,
            SignalsBack, Answered

LEMMA OutcomeFollows ==
  ASSUME HashesToKeys
  PROVE  ISpec => []BottomAsked
<1>1. ISpec => IsEngine  BY OperationsKeepToEngine
<1>2. OutcomeInv => BottomAsked  BY DEF OutcomeInv
<1> QED  BY <1>1, <1>2, OutcomeInvariant, PTL DEF IsEngine

LEMMA ConstantsInvariant ==
  ASSUME HashesToKeys
  PROVE  ISpec => []ConstantsFold
<1>1. IInit => ConstantsFold
  BY ConstantAssumption DEF IInit, Init, ConstantsFold, LooksUp, HasConstant, Value
<1>2. InterpInv /\ ConstantsFold /\ [INext]_ivars => ConstantsFold'
  BY InterpStep, ConstantsStep DEF InterpInv
<1> QED  BY <1>1, <1>2, LocalsFollowStack, PTL DEF ISpec

LEMMA CyclicInvariant ==
  ASSUME HashesToKeys
  PROVE  ISpec => [](\A S \in SUBSET Op : SelfNeeding(S) => CyclicInv(S))
<1> DEFINE Inv == \A S \in SUBSET Op : SelfNeeding(S) => CyclicInv(S)
<1>1. IInit => Inv  BY CyclicInit
<1>2. ASSUME InterpInv, BottomAsked, ConstantsFold, Inv, [INext]_ivars
      PROVE  Inv'
  <2> SUFFICES ASSUME NEW S \in SUBSET Op, SelfNeeding(S) PROVE CyclicInv(S)'
    BY DEF SelfNeeding, NeedsOneOf, PassedOver, HasConstant
  <2> QED  BY <1>2, CyclicStep
<1> HIDE DEF Inv
<1>3. ISpec => []Inv
  BY <1>1, <1>2, LocalsFollowStack, OutcomeFollows, ConstantsInvariant, PTL DEF ISpec
<1> QED  BY <1>3 DEF Inv

(* An operation that needs itself, by whatever cycle of operands, is never *)
(* given a value: not by the query that first runs into the cycle, nor by  *)
(* one that enters it elsewhere, nor from the memo or the cache, in which  *)
(* it leaves nothing for operations equivalent to it.                      *)
THEOREM CyclesNeverAnswered ==
  ASSUME HashesToKeys
  PROVE  ISpec => []CyclicNeverKnown
<1> PICK rank : rank = 0  OBVIOUS
<1> DEFINE Inv == \A S \in SUBSET Op : SelfNeeding(S) => CyclicInv(S)
<1>1. Inv /\ SignalsInv(rank) => CyclicNeverKnown
  <2> SUFFICES ASSUME Inv, SignalsInv(rank) PROVE CyclicNeverKnown  OBVIOUS
  <2>1. \A o \in Cyclic : \E S \in SUBSET Op : o \in S /\ CyclicInv(S)
    BY DEF Cyclic
  <2>2. ASSUME Answered, asked \in Result, asked[1] \in Cyclic
        PROVE  answer.status \in {"Cycle", "Exhausted"}
    <3>1. IsSignal(answer)  BY <2>1, <2>2 DEF CyclicInv, SignalsBack
    <3>2. Justified(answer, 0, rank)  BY <2>2 DEF SignalsInv
    <3>3. answer \notin CompletedAnswer  BY <3>1, AnswerFacts DEF IsSignal
    <3> QED  BY <3>2, <3>3 DEF Justified, Signaled
  <2>3. \A v \in Result : v[1] \in Cyclic => memo[v] = NotMemoized
    BY <2>1 DEF CyclicInv, NeverMemoized
  <2>4. \A k \in Key : \A n \in DOMAIN entries[k] : entries[k][n].op \notin Cyclic
    BY <2>1 DEF CyclicInv, NeverStored
  <2> QED  BY <2>2, <2>3, <2>4 DEF CyclicNeverKnown
<1> HIDE DEF Inv
<1>2. ISpec => []Inv  BY CyclicInvariant DEF Inv
<1> QED  BY <1>1, <1>2, SignalsInvariant, PTL
=============================================================================
