------------------------------- MODULE Engine -------------------------------
(***************************************************************************)
(* The query engine (lib/Engine.cpp) and the context cache it fills        *)
(* (lib/EvalCache.cpp): one query at a time, driven demand first through   *)
(* the callbacks of the operations (isCacheable, getHash, isEquivalentTo,  *)
(* evaluate), each of which may re-enter the engine through its EvalScope. *)
(*                                                                         *)
(* The engine is the system; the callbacks are its environment.  A callback*)
(* may ask for any value in its Uses, spend a step, freeze the cache, bind *)
(* a block its operation owns, and return whatever its signature allows.   *)
(* The C++ call stack is the variable stack: one activation of compute per *)
(* operation whose evaluation is in progress.                              *)
(***************************************************************************)
EXTENDS Integers, Sequences, FiniteSets

CONSTANTS
  Op,         \* operations that implement EvaluableOpInterface
  Arity,      \* [Op -> number of results]
  Pure,       \* operations whose isCacheable may answer true
  Uses,       \* [Op -> SUBSET Value]: what callbacks on an operation may query
  Block,      \* blocks a loop binds
  Owner,      \* [Block -> Op]: the operation whose evaluate binds a block
  NumArgs,    \* [Block -> number of arguments]
  Plain,      \* values with no evaluation: other operations' results and the
              \* arguments of blocks nothing binds
  Constant,   \* results of constant-like operations
  AttrOf,     \* [Constant -> Attr \cup {Null}]: its attribute and type; Null
              \* when it folds to none, or to one without an evaluation
  Attr,
  AttrValue,  \* [Attr -> Val \cup {Null}]: what toEvalValue returns
  CachedAttr, \* attributes whose isCacheable holds
  Scope,      \* [Value -> SUBSET Block]: the blocks whose parent region is an
              \* ancestor of the region that defines the value
  Key,        \* the results of getHash
  Val,        \* evaluated values
  Null,       \* no value, no key
  Signal,     \* the statuses other than Completed
  Budgets     \* the step budgets of the engines on this context

Result == UNION {{o} \X (1..Arity[o]) : o \in Op}
Arg == UNION {{b} \X (1..NumArgs[b]) : b \in Block}
Value == Result \cup Arg \cup Plain \cup Constant

ASSUME ArityAssumption == Arity \in [Op -> Nat \ {0}]
ASSUME BlockAssumption == Owner \in [Block -> Op] /\ NumArgs \in [Block -> Nat]
ASSUME ConstantAssumption == /\ AttrOf \in [Constant -> Attr \cup {Null}]
                             /\ AttrValue \in [Attr -> Val \cup {Null}]
                             /\ Null \notin Attr
ASSUME ProgramAssumption == /\ Pure \subseteq Op
                            /\ Uses \in [Op -> SUBSET Value]
                            /\ Scope \in [Value -> SUBSET Block]
ASSUME KindAssumption == /\ Result \cap Arg = {}
                         /\ (Result \cup Arg) \cap (Plain \cup Constant) = {}
                         /\ Plain \cap Constant = {}
ASSUME AnswerAssumption == /\ Null \notin Val /\ Null \notin Key
                           /\ {"Exhausted", "Cycle"} \subseteq Signal
                           /\ Signal \cap {"Completed", "None"} = {}
ASSUME BudgetAssumption == Budgets \subseteq Nat

-----------------------------------------------------------------------------
(* Answers: a signal, or a completed value that is unknown when null.      *)

Completed(v) == [status |-> "Completed", value |-> v]
Signaled(s) == [status |-> s, value |-> Null]
Unknown == Completed(Null)
Known == {Completed(v) : v \in Val}
CompletedAnswer == Known \cup {Unknown}
Answer == CompletedAnswer \cup {Signaled(s) : s \in Signal}
NoAnswer == [status |-> "None", value |-> Null]

(* One answer per result.                                                  *)
Answers(o) == [1..Arity[o] -> Answer]

Entry == [op : Op, results : Seq(Known \cup {NoAnswer})]

(* frame is the position in frames of the frame whose memoized list names  *)
(* the value, 0 for none; under, which no code keeps, is the set of frames *)
(* whose region contained the value's definition when it was memoized.     *)
NotMemoized == [answer |-> NoAnswer, frame |-> 0, under |-> {}]
Memo == [answer : CompletedAnswer, frame : Nat, under : SUBSET Nat]

Callback == {"isCacheable", "getHash", "compare", "evaluate"}
Pc == Callback \cup {"search", "charge"}

(* next and entry are positions in the bucket of key: the candidate being  *)
(* examined, and the matching entry, 0 for none.  A key of Null stands for *)
(* an empty cached, empty results for an evaluate that has not returned,   *)
(* and freezesAt and framesAt for the destructors that end a callback's    *)
(* freezes and bindings before it returns.                                 *)
Activation ==
  [val : Result, pc : Pc, key : Key \cup {Null}, next : Nat, entry : Nat,
   results : Seq(Answer), freezesAt : Nat, framesAt : Nat]

-----------------------------------------------------------------------------
VARIABLES
  running,    \* queryAllocator holds an allocator
  asked,      \* the value passed to query
  answer,     \* the answer returned last, to query or to a callback
  outcome,    \* the CacheOutcome of the query
  stack,      \* the activations of compute, innermost last
  active,     \* operations being evaluated
  memo,       \* queryAnswers
  frames,     \* the bound blocks, most recent last
  bindings,   \* the answers of bound arguments
  freezes,    \* number of live cache freezes
  remaining,  \* steps left of the query's budget
  entries,    \* EvalCache::entries
  constants   \* EvalCache::constants

cache == <<entries, constants>>
scopes == <<frames, bindings, freezes>>
vars == <<running, asked, answer, outcome, stack, active, memo, scopes,
          remaining, cache>>

Top == stack[Len(stack)]
TopOp == Top.val[1]
At(pc) == stack # <<>> /\ Top.pc = pc
Become(r) == stack' = [stack EXCEPT ![Len(stack)] = r]

Candidate == entries[Top.key][Top.next]
MayQuery == Uses[TopOp] \cup
            (IF Top.pc = "compare" THEN Uses[Candidate.op] ELSE {})

Init ==
  /\ running = FALSE /\ asked = Null /\ answer = NoAnswer /\ outcome = "None"
  /\ stack = <<>> /\ active = {}
  /\ memo = [v \in Value |-> NotMemoized]
  /\ frames = <<>> /\ bindings = [a \in Arg |-> NoAnswer] /\ freezes = 0
  /\ remaining = 0
  /\ entries = [k \in Key |-> <<>>]
  /\ constants = [a \in Attr |-> NoAnswer]

-----------------------------------------------------------------------------
(* Memoization.                                                            *)

(* The frames whose region contains the definition of v, and the innermost *)
(* of them.                                                                *)
Containing(v) == {i \in DOMAIN frames : frames[i] \in Scope[v]}
OutermostHolder(v) ==
  IF Containing(v) = {} THEN 0
  ELSE CHOOSE i \in Containing(v) : \A j \in Containing(v) : i <= j
Holder(v) == IF Containing(v) = {} THEN 0
             ELSE CHOOSE i \in Containing(v) : \A j \in Containing(v) : j <= i

Memoizable(v, a) == a.status = "Completed" /\ memo[v] = NotMemoized

(* memo after memoizing the completed answers of f, a function on some of  *)
(* the values.                                                             *)
MemoizeAll(f) ==
  memo' = [v \in Value |->
             IF v \in DOMAIN f /\ Memoizable(v, f[v])
             THEN [answer |-> f[v], frame |-> Holder(v), under |-> Containing(v)]
             ELSE memo[v]]

(* memo without the answers of the innermost frame.                        *)
ForgetsAll(m) == m # NotMemoized
ForgetsNone(m) == FALSE
Forgets(m) == m # NotMemoized /\ m.frame = Len(frames)
ForgetIteration ==
  memo' = [v \in Value |-> IF Forgets(memo[v]) THEN NotMemoized ELSE memo[v]]

-----------------------------------------------------------------------------
(* compute: values that are no result of an evaluable operation.           *)

HasConstant(v) == v \in Constant /\ AttrOf[v] # Null
LooksUp(v) == HasConstant(v) /\ AttrOf[v] \in CachedAttr

LeafAnswer(v) ==
  CASE v \in Arg -> IF bindings[v] = NoAnswer THEN Unknown ELSE bindings[v]
    [] HasConstant(v) -> IF LooksUp(v) /\ constants[AttrOf[v]] # NoAnswer
                         THEN constants[AttrOf[v]]
                         ELSE Completed(AttrValue[AttrOf[v]])
    [] OTHER -> Unknown

(* A constant without a value is stored too.                               *)
StoreConstant(v) ==
  constants' = IF LooksUp(v) THEN [constants EXCEPT ![AttrOf[v]] = LeafAnswer(v)]
               ELSE constants

ConstantOutcome(v) ==
  IF ~LooksUp(v) THEN "None"
  ELSE IF constants[AttrOf[v]] # NoAnswer THEN "Hit" ELSE "Miss"

(* compute on a result enters its operation behind the cycle guard.        *)
Activate(v) ==
  /\ stack' = Append(stack, [val |-> v, pc |-> "isCacheable", key |-> Null,
                             next |-> 1, entry |-> 0, results |-> <<>>,
                             freezesAt |-> freezes, framesAt |-> Len(frames)])
  /\ active' = active \cup {v[1]}

-----------------------------------------------------------------------------
(* Engine::query and EvalContext::clearCache.                              *)

Query(v, b) ==
  /\ ~running
  /\ running' = TRUE /\ asked' = v /\ remaining' = b
  /\ \/ /\ v \in Result
        /\ Activate(v)
        /\ answer' = NoAnswer /\ outcome' = "None"
        /\ UNCHANGED constants
     \/ /\ v \notin Result
        /\ answer' = LeafAnswer(v) /\ outcome' = ConstantOutcome(v)
        /\ StoreConstant(v)
        /\ UNCHANGED <<stack, active>>
  /\ UNCHANGED <<memo, scopes, entries>>

EndQuery ==
  /\ running /\ stack = <<>>
  /\ running' = FALSE
  /\ memo' = [v \in Value |-> NotMemoized]
  /\ UNCHANGED <<asked, answer, outcome, stack, active, scopes, remaining, cache>>

ClearCache ==
  /\ ~running
  /\ entries' = [k \in Key |-> <<>>]
  /\ constants' = [a \in Attr |-> NoAnswer]
  /\ UNCHANGED <<running, asked, answer, outcome, stack, active, memo, scopes,
                 remaining>>

-----------------------------------------------------------------------------
(* The callbacks' side of EvalScope.                                       *)

InCallback == stack # <<>> /\ Top.pc \in Callback
Asks(v) == InCallback /\ v \in MayQuery

QueryMemoized(v) ==
  /\ Asks(v) /\ memo[v] # NotMemoized
  /\ answer' = memo[v].answer
  /\ UNCHANGED <<running, asked, outcome, stack, active, memo, scopes,
                 remaining, cache>>

QueryLeaf(v) ==
  /\ Asks(v) /\ memo[v] = NotMemoized /\ v \notin Result
  /\ answer' = LeafAnswer(v)
  /\ MemoizeAll([x \in {v} |-> LeafAnswer(v)])
  /\ StoreConstant(v)
  /\ UNCHANGED <<running, asked, outcome, stack, active, scopes, remaining,
                 entries>>

NeverInProgress(o) == FALSE
InProgress(o) == o \in active

ReentersUnknown == Unknown
Reenters == Signaled("Cycle")

QueryCycle(v) ==
  /\ Asks(v) /\ memo[v] = NotMemoized /\ v \in Result /\ InProgress(v[1])
  /\ answer' = Reenters
  /\ UNCHANGED <<running, asked, outcome, stack, active, memo, scopes,
                 remaining, cache>>

QueryEnter(v) ==
  /\ Asks(v) /\ memo[v] = NotMemoized /\ v \in Result /\ ~InProgress(v[1])
  /\ Activate(v)
  /\ answer' = NoAnswer
  /\ UNCHANGED <<running, asked, outcome, memo, scopes, remaining, cache>>

(* The operations in the repository use the rest of EvalScope in evaluate  *)
(* only; a call that finds no step left changes nothing.                   *)
DeclareCost ==
  /\ At("evaluate") /\ remaining > 0
  /\ remaining' = remaining - 1
  /\ UNCHANGED <<running, asked, answer, outcome, stack, active, memo, scopes,
                 cache>>

(* A callback holds at most one freeze; those of nested callbacks nest.    *)
Freeze ==
  /\ At("evaluate") /\ freezes = Top.freezesAt
  /\ freezes' = freezes + 1
  /\ UNCHANGED <<running, asked, answer, outcome, stack, active, memo, frames,
                 bindings, remaining, cache>>

Unfreeze ==
  /\ At("evaluate") /\ freezes > Top.freezesAt
  /\ freezes' = freezes - 1
  /\ UNCHANGED <<running, asked, answer, outcome, stack, active, memo, frames,
                 bindings, remaining, cache>>

ArgsOf(b) == {b} \X (1..NumArgs[b])

Bind(b, args) ==
  /\ At("evaluate") /\ Owner[b] = TopOp
  /\ \A i \in DOMAIN frames : i > Top.framesAt => frames[i] # b
  /\ frames' = Append(frames, b)
  /\ bindings' = [a \in Arg |-> IF a \in ArgsOf(b) /\ bindings[a] = NoAnswer
                                THEN args[a[2]] ELSE bindings[a]]
  /\ UNCHANGED <<running, asked, answer, outcome, stack, active, memo, freezes,
                 remaining, cache>>

ErasesNone(b) == {}
Erased(b) == ArgsOf(b)

Unbind ==
  /\ At("evaluate") /\ Len(frames) > Top.framesAt
  /\ ForgetIteration
  /\ bindings' = [a \in Arg |-> IF a \in Erased(frames[Len(frames)])
                                THEN NoAnswer ELSE bindings[a]]
  /\ frames' = SubSeq(frames, 1, Len(frames) - 1)
  /\ UNCHANGED <<running, asked, answer, outcome, stack, active, freezes,
                 remaining, cache>>

-----------------------------------------------------------------------------
(* Leaving compute: the cycle guard ends, and evaluate, which called it    *)
(* unless query did, memoizes a completed answer.                          *)

ReleasesNone(o) == active
Release(o) == active \ {o}

Leave(a) ==
  /\ answer' = a
  /\ stack' = SubSeq(stack, 1, Len(stack) - 1)
  /\ active' = Release(TopOp)

Return(a) ==
  /\ Leave(a)
  /\ IF Len(stack) > 1 THEN MemoizeAll([x \in {Top.val} |-> a])
     ELSE UNCHANGED memo

(* Leaving with the answers evaluate computed: siblings are memoized, and  *)
(* a filled slot of the entry e (NoEntry without one) overrides them.      *)
NoEntry(o) == [op |-> o, results |-> [i \in 1..Arity[o] |-> NoAnswer]]

ReturnEvaluated(results, e) ==
  LET final == [x \in {TopOp} \X (1..Arity[TopOp]) |->
                  IF e.results[x[2]] # NoAnswer THEN e.results[x[2]]
                  ELSE results[x[2]]]
  IN Leave(final[Top.val]) /\ MemoizeAll(final)

-----------------------------------------------------------------------------
(* isCacheable and getHash return.                                         *)

Eligible(e) ==
  /\ At("isCacheable")
  /\ \/ e = TRUE /\ TopOp \in Pure
        /\ Become([Top EXCEPT !.pc = "getHash"])
     \/ e = FALSE
        /\ Become([Top EXCEPT !.pc = "charge"])
  /\ UNCHANGED <<running, asked, answer, outcome, active, memo, scopes,
                 remaining, cache>>

HashReturn(k) ==
  /\ At("getHash")
  /\ Become([Top EXCEPT !.pc = "search", !.key = k])
  /\ UNCHANGED <<running, asked, answer, outcome, active, memo, scopes,
                 remaining, cache>>

(* A signal of either ends compute before the lookup.                      *)
KeySignal(s) ==
  /\ At("isCacheable") \/ At("getHash")
  /\ Return(Signaled(s))
  /\ UNCHANGED <<running, asked, outcome, scopes, remaining, cache>>

-----------------------------------------------------------------------------
(* findEquivalent, for lookup before evaluate and for insert after it.     *)

StorableUnknown(slot, a) == slot = NoAnswer /\ a \in CompletedAnswer
Storable(slot, a) == slot = NoAnswer /\ a \in Known

Refilled(e, answers) ==
  [e EXCEPT !.results = [i \in DOMAIN e.results |->
                           IF answers[i] \in Known THEN answers[i] ELSE NoAnswer]]
Filled(e, answers) ==
  [e EXCEPT !.results = [i \in DOMAIN e.results |->
                           IF Storable(e.results[i], answers[i]) THEN answers[i]
                           ELSE e.results[i]]]

StoreIn(n, answers) ==
  LET e == Filled(entries[Top.key][n], answers)
  IN /\ entries' = [entries EXCEPT ![Top.key][n] = e]
     /\ ReturnEvaluated(answers, e)

StoreNew(answers) ==
  LET e == Filled(NoEntry(TopOp), answers)
  IN /\ entries' = [entries EXCEPT ![Top.key] = Append(@, e)]
     /\ ReturnEvaluated(answers, e)

(* Only the lookup of the queried value's own operation is reported.       *)
ReportsNested == TRUE
Reports == Len(stack) = 1

(* lookup ends with the entry at n, or with none when n = 0.               *)
LookupEnds(n) ==
  LET slot == IF n = 0 THEN NoAnswer ELSE entries[Top.key][n].results[Top.val[2]]
  IN /\ outcome' = IF ~Reports THEN outcome
                   ELSE IF slot # NoAnswer THEN "Hit" ELSE "Miss"
     /\ \/ slot # NoAnswer /\ Return(slot)
        \/ slot = NoAnswer
           /\ Become([Top EXCEPT !.pc = "charge", !.entry = n])
           /\ UNCHANGED <<answer, active, memo>>
     /\ UNCHANGED entries

InsertEnds(n) ==
  /\ IF n = 0 THEN StoreNew(Top.results) ELSE StoreIn(n, Top.results)
  /\ UNCHANGED outcome

SearchEnds(n) ==
  /\ \/ Top.results = <<>> /\ LookupEnds(n)
     \/ Top.results # <<>> /\ InsertEnds(n)
  /\ UNCHANGED <<running, asked, scopes, remaining, constants>>

MoreCandidates == Top.next <= Len(entries[Top.key])
IsNeverOwn(e) == FALSE
IsOwn(e) == e.op = TopOp
AnyShape(e) == TRUE
SameShape(e) == Len(e.results) = Arity[TopOp]
SameCandidate == Become([Top EXCEPT !.pc = "search"])
NextCandidate == Become([Top EXCEPT !.pc = "search", !.next = @ + 1])

SearchMiss == At("search") /\ ~MoreCandidates /\ SearchEnds(0)

SearchOwn ==
  At("search") /\ MoreCandidates /\ IsOwn(Candidate) /\ SearchEnds(Top.next)

SearchSkip ==
  /\ At("search") /\ MoreCandidates /\ ~IsOwn(Candidate) /\ ~SameShape(Candidate)
  /\ NextCandidate
  /\ UNCHANGED <<running, asked, answer, outcome, active, memo, scopes,
                 remaining, cache>>

SearchCompare ==
  /\ At("search") /\ MoreCandidates /\ ~IsOwn(Candidate) /\ SameShape(Candidate)
  /\ Become([Top EXCEPT !.pc = "compare"])
  /\ UNCHANGED <<running, asked, answer, outcome, active, memo, scopes,
                 remaining, cache>>

(* isEquivalentTo returns; a signal passes over the candidate as FALSE does.*)
CompareReturn(equivalent) ==
  /\ At("compare")
  /\ \/ equivalent = TRUE /\ SearchEnds(Top.next)
     \/ equivalent = FALSE
        /\ NextCandidate
        /\ UNCHANGED <<running, asked, answer, outcome, active, memo, scopes,
                       remaining, cache>>

-----------------------------------------------------------------------------
(* The step is charged, evaluate is called, and its answers are stored.    *)

HasSpare == remaining > 1
HasStep == remaining > 0

Charge ==
  /\ At("charge")
  /\ \/ /\ HasStep
        /\ remaining' = remaining - 1
        /\ Become([Top EXCEPT !.pc = "evaluate"])
        /\ UNCHANGED <<answer, active, memo>>
     \/ /\ ~HasStep
        /\ Return(Signaled("Exhausted"))
        /\ UNCHANGED remaining
  /\ UNCHANGED <<running, asked, outcome, scopes, cache>>

BalancedFrames == Len(frames) = Top.framesAt
BalancedFreezes == freezes = Top.freezesAt
Balanced == freezes = Top.freezesAt /\ Len(frames) = Top.framesAt

AlwaysThawed == TRUE
Thawed == freezes = 0
Stores(results) ==
  /\ Top.key # Null /\ Thawed
  /\ \E i \in DOMAIN results : results[i] \in Known

EvaluateReturn(results) ==
  /\ At("evaluate") /\ Balanced
  /\ \/ ~Stores(results) /\ ReturnEvaluated(results, NoEntry(TopOp))
        /\ UNCHANGED entries
     \/ Stores(results) /\ Top.entry # 0 /\ StoreIn(Top.entry, results)
     \/ /\ Stores(results) /\ Top.entry = 0
        /\ Become([Top EXCEPT !.pc = "search", !.results = results])
        /\ UNCHANGED <<answer, active, memo, entries>>
  /\ UNCHANGED <<running, asked, outcome, scopes, remaining, constants>>

-----------------------------------------------------------------------------
Host == \/ \E v \in Value, b \in Budgets : Query(v, b)
        \/ EndQuery
        \/ ClearCache

Ask(v) == QueryMemoized(v) \/ QueryLeaf(v) \/ QueryCycle(v) \/ QueryEnter(v)

ScopeCall == \/ \E v \in Value : Ask(v)
             \/ DeclareCost \/ Freeze \/ Unfreeze \/ Unbind
             \/ \E b \in Block :
                  \E args \in [1..NumArgs[b] -> CompletedAnswer] : Bind(b, args)

CallbackReturn ==
  \/ \E e \in BOOLEAN : Eligible(e) \/ CompareReturn(e)
  \/ \E k \in Key : HashReturn(k)
  \/ \E s \in Signal : KeySignal(s)
  \/ stack # <<>> /\ \E results \in Answers(TopOp) : EvaluateReturn(results)

Internal == SearchMiss \/ SearchOwn \/ SearchSkip \/ SearchCompare \/ Charge

Next == Host \/ ScopeCall \/ CallbackReturn \/ Internal

Spec == Init /\ [][Next]_vars
-----------------------------------------------------------------------------
(* Properties.                                                             *)

BoundBlocks == {frames[i] : i \in DOMAIN frames}

(* The state has its types.  In particular what the cache stores is known, *)
(* what the memo holds completed, and the budget never goes below zero.    *)
TypeOK ==
  /\ running \in BOOLEAN
  /\ asked \in Value \cup {Null}
  /\ answer \in Answer \cup {NoAnswer}
  /\ outcome \in {"None", "Hit", "Miss"}
  /\ stack \in Seq(Activation)
  /\ active \subseteq Op
  /\ memo \in [Value -> Memo \cup {NotMemoized}]
  /\ frames \in Seq(Block)
  /\ bindings \in [Arg -> CompletedAnswer \cup {NoAnswer}]
  /\ freezes \in Nat
  /\ remaining \in Nat
  /\ entries \in [Key -> Seq(Entry)]
  /\ constants \in [Attr -> CompletedAnswer \cup {NoAnswer}]

(* No operation is ever evaluated inside its own evaluation, whichever of  *)
(* its callbacks re-enters it, and the guard leaves none active behind.    *)
CycleGuard ==
  /\ active = {stack[i].val[1] : i \in DOMAIN stack}
  /\ \A i, j \in DOMAIN stack : stack[i].val[1] = stack[j].val[1] => i = j

(* The assertions of query and bind: a block is never bound twice at once, *)
(* an argument has a value exactly while its block is bound, and every     *)
(* binding and freeze has ended when the outermost compute returns.        *)
BoundOnce == \A i, j \in DOMAIN frames : frames[i] = frames[j] => i = j
BindingsFollowFrames ==
  \A b \in Block : \A a \in ArgsOf(b) :
    bindings[a] # NoAnswer <=> b \in BoundBlocks
QueryEndsClean ==
  stack = <<>> => frames = <<>> /\ freezes = 0 /\ active = {}

(* An answer memoized while loops around its definition were bound is gone *)
(* as soon as the iteration of any of them ends, so no iteration reads an  *)
(* answer that depends on the bindings of an earlier one.                  *)
MemoNeverOutlives == \A v \in Value : memo[v].under \subseteq DOMAIN frames

(* The freezes and frames when the next activation entered, or now.        *)
FreezesAbove(i) == IF i = Len(stack) THEN freezes ELSE stack[i + 1].freezesAt
FramesAbove(i) == IF i = Len(stack) THEN Len(frames) ELSE stack[i + 1].framesAt

(* A callback that is not evaluate holds no freeze and no binding, and     *)
(* evaluate releases its own before it returns: each activation finds the  *)
(* freezes and frames it entered with.                                     *)
StackDiscipline ==
  /\ stack # <<>> => stack[1].freezesAt = 0 /\ stack[1].framesAt = 0
  /\ \A i \in DOMAIN stack :
       LET r == stack[i]
       IN /\ r.freezesAt <= FreezesAbove(i) /\ r.framesAt <= FramesAbove(i)
          /\ r.pc # "evaluate" =>
               r.freezesAt = FreezesAbove(i) /\ r.framesAt = FramesAbove(i)
          /\ r.results # <<>> => r.freezesAt = 0

(* The handles an activation keeps across nested queries stay valid while  *)
(* those insert into the same bucket, and name entries of its own shape.   *)
Bucket(r, ents) == IF r.key = Null THEN <<>> ELSE ents[r.key]
FitsAt(r, n, ents) ==
  /\ n \in DOMAIN Bucket(r, ents)
  /\ Len(Bucket(r, ents)[n].results) = Arity[r.val[1]]
Fits(r, ents) ==
  /\ r.next \in 1..(Len(Bucket(r, ents)) + 1)
  /\ r.pc = "compare" => FitsAt(r, r.next, ents)
  /\ r.entry # 0 => FitsAt(r, r.entry, ents)
HandlesFit == \A i \in DOMAIN stack : Fits(stack[i], entries)

(* A bucket has at most one entry an operation created, even when the      *)
(* evaluation of that operation ran queries that filled the bucket.        *)
OneEntryPerOp ==
  \A k \in Key : \A i, j \in DOMAIN entries[k] :
    entries[k][i].op = entries[k][j].op => i = j

(* What query reports is the lookup of the asked value's own operation:    *)
(* none for one that isn't cacheable, whatever nested queries looked up,   *)
(* and a hit on an operation hands out a slot of the cache.                *)
ReportedOutcome ==
  asked \in Result =>
    /\ outcome # "None" => asked[1] \in Pure
    /\ running /\ stack = <<>> /\ outcome = "Hit" =>
         \E k \in Key : \E n \in DOMAIN entries[k] :
           /\ asked[2] \in DOMAIN entries[k][n].results
           /\ entries[k][n].results[asked[2]] = answer

(* While any freeze lives nothing is stored, by the callback that holds it *)
(* or by any query nested in it.                                           *)
FrozenCacheKept == [][freezes > 0 => entries' = entries]_vars

(* Within a query, whatever the nesting, entries are only appended and     *)
(* empty slots filled: an answer handed out once is handed out again.      *)
Extends(new, old) ==
  \A n \in DOMAIN old :
    /\ n \in DOMAIN new /\ new[n].op = old[n].op
    /\ \A i \in DOMAIN old[n].results :
         old[n].results[i] # NoAnswer => new[n].results[i] = old[n].results[i]
CacheGrows ==
  [][running => \A k \in Key : Extends(entries'[k], entries[k])]_vars

(* Within a query a memoized answer never changes, and is dropped only     *)
(* with the frame that holds it.                                           *)
MemoStable ==
  [][running' => \A v \in Value :
       memo[v] # NotMemoized =>
         \/ memo'[v] = memo[v]
         \/ memo'[v] = NotMemoized /\ Len(frames') < memo[v].frame]_vars
=============================================================================
