----------------------------- MODULE Evaluation -----------------------------
(***************************************************************************)
(* A query in one step, for the tool's Query: what Engine::query gives of a*)
(* result after others were queried in the same context, each with a budget*)
(* of its own.  Whatever is cached on the way stays, also when the query   *)
(* ends with a signal.                                                     *)
(*                                                                         *)
(* The evaluation of an operation is reduced to the results it reads, in   *)
(* order, and what it gives when they answer (Engine and Interp have the   *)
(* steps of it); operations alike have the same operands, so that comparing*)
(* them asks for nothing new.                                              *)
(***************************************************************************)
EXTENDS Tool, SequencesExt

CONSTANTS
  Operands,  \* [Op -> Seq(Result)]: what the operation's key asks for
  Reads,     \* [Op -> Seq(Result)]: what its evaluation asks for
  Cacheable, \* SUBSET Op
  Like,      \* [Op -> Op]: the one that stands for the operations equal to it
  Given,     \* [Result -> answer]: when what its operation reads answers
  Budget

(* The cache's slots that are filled, the results memoized, the operations *)
(* in evaluation, the steps left, and what the last query came to.         *)
Begin(slots) ==
  [slots |-> slots, memo |-> {}, active |-> {}, left |-> Budget,
   answer |-> Completed(Null), outcome |-> "-"]
Ends(q, answer) == [q EXCEPT !.answer = answer]

(* The results that are known fill the slots of a cacheable operation; all *)
(* are memoized.                                                           *)
Evaluated(q, o) ==
  LET results == {<<o, n>> : n \in 0..(Arity[o] - 1)}
      stored == {r \in results : o \in Cacheable /\ Given[r] # Completed(Null)}
  IN [q EXCEPT !.slots = @ \cup {<<Like[o], r[2]>> : r \in stored},
               !.memo = @ \cup results]

RECURSIVE Compute(_, _)
Evaluate(q, r) ==
  IF r \in q.memo THEN Ends(q, Given[r])
  ELSE LET computed == Compute(q, r)
       IN IF IsSignal(computed.answer) THEN computed
          ELSE [computed EXCEPT !.memo = @ \cup {r}]

(* The results are asked for until one answers a signal.                   *)
AskFor(q, rs) ==
  FoldLeft(LAMBDA p, r : IF IsSignal(p.answer) THEN p ELSE Evaluate(p, r),
           Ends(q, Completed(Null)), rs)

Compute(q, r) ==
  LET o == r[1]
      entered == [q EXCEPT !.active = @ \cup {o}]
      keyed == AskFor(entered, IF o \in Cacheable THEN Operands[o] ELSE <<>>)
      hit == o \in Cacheable /\ <<Like[o], r[2]>> \in keyed.slots
      outcome == CASE IsSignal(keyed.answer) \/ o \notin Cacheable -> "-"
                   [] OTHER -> IF hit THEN "hit" ELSE "miss"
      read == AskFor([keyed EXCEPT !.left = @ - 1], Reads[o])
      left == CASE IsSignal(keyed.answer) -> keyed
                [] hit -> Ends(keyed, Given[r])
                [] keyed.left = 0 -> Ends(keyed, Signaled("Exhausted"))
                [] IsSignal(read.answer) -> read
                [] OTHER -> Ends(Evaluated(read, o), Given[r])
  IN IF o \in q.active THEN [Ends(q, Signaled("Cycle")) EXCEPT !.outcome = "-"]
     ELSE [left EXCEPT !.active = q.active, !.outcome = outcome]

EngineQuery(history, r) ==
  LET slots == FoldLeft(LAMBDA s, h : Compute(Begin(s), h).slots, {}, history)
      query == Compute(Begin(slots), r)
  IN [answer |-> query.answer, outcome |-> query.outcome]
=============================================================================
