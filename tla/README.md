# TLA+ models of the MLIR interpreter

The repository evaluates the values of an MLIR program on demand: a host asks
an `Engine` for a value, the engine evaluates the operation that defines it,
and the operation's callbacks ask the engine for the operands they need. Known
results are kept in a cache that outlives the query. These modules model the
engine, its cache, the operations the repository evaluates, the comparison of
operations, the storage of values and the tool, check them with TLC on small
programs, and prove the properties of the engine, its operations, the comparison and
the storage for every program: above all that the answer to a query is what the value
means, and that of a comparison whether the operations correspond.

## The system

| Component | State | Operations | Interacts with |
|---|---|---|---|
| Query engine (`lib/Engine.cpp`) | budget, active operations, memo, bound blocks and their frames, freezes | `query`, `queryNested`, `compute`, `memoize`, `bind`/`unbind`, `evaluateConstant` | calls the operations' callbacks, which call it back; looks up and fills the cache |
| Answer cache (`lib/EvalCache.cpp`) | buckets of entries by hash, constants | `lookup`, `insert`, `fill`, `clear`, `lookupConstant`, `insertConstant` | calls `getHash` and `isEquivalentTo`, which re-enter the engine and, through it, the cache |
| `EvalScope`, `CacheFreeze`, `BlockBinding` (`Engine.h`) | none; destructors unfreeze and unbind | `query`, `declareCost`, `freezeCache`, `bind` (`walk` and `isOrdered` are stubs) | the only way from a callback to the engine |
| `EvaluableOpInterface` | none | `isCacheable`, `getHash`, `isEquivalentTo`, `evaluate` | implemented per operation |
| Arithmetic (`Dialects/Arith/ArithEval.cpp`) | none | the four callbacks for `addi`, `subi`, `muli` | queries operands lazily |
| `scf.for` (`Dialects/SCF/SCFEval.cpp`) | locals of `evaluate` | `evaluate` | freezes the cache, pays, binds its body and queries the yields, per iteration |
| Operation equivalence (`lib/EvalOperationEquivalence.cpp`) | maps of one comparison | default `getHash` and `isEquivalentTo` | calls back for operands |
| Value storage (`EvalValue.h`, `EvalValueStorageAllocator`) | storage of values, what a retention has copied | `allocate`, `retain`, `beginRetaining`, reset and destruction; identity and class equality and hash | an allocator per query, one for an engine's answers, one for the cache |
| Context (`EvalContext`) | registered value classes, the cache | registration, `clearCache` | shared by engines |
| Builtin attributes | none | `isCacheable`, `toEvalValue` | constants |
| Tool (`tools/interpreter`) | context, report and result of a chunk | split the input, find `@main`, query every result, print a row | one context and engine per chunk, one query per row |

Nothing in the repository is concurrent. What is hard is re-entrancy: while an
operation's callback runs, the engine runs other operations' callbacks, which
look up, compare and insert into the same bucket, bind blocks and spend the
budget the outer callback relies on. Any of them may end early with a signal
(`Exhausted`, `Cycle`, `NeedsOrder`). And it is history: the cache carries what
earlier queries, in any order and under any budget, left in it.

What makes each part correct:

- engine: no operation is evaluated inside its own evaluation; a memoized
  answer lives exactly as long as the bindings it depends on; bindings and
  freezes end on every path; the budget is never exceeded and `Exhausted` is
  never answered before it is spent;
- cache: positions kept across re-entrant calls stay valid; slots are filled
  once, with known values; nothing is stored in an iteration; what is stored
  is what the operation means;
- operations: equal keys mean equal results; loops iterate as often as their
  bounds say; signals propagate;
- storage: a handle, whoever has it, points to what it was made for, though
  addresses are used again; what is kept is copied, once, and what is not is freed (but for what a
  cleared cache kept, which stays until its context ends);
- tool: a chunk's report does not depend on the other chunks, and names each result;
- all together: the answer to a query is the meaning of the value, whatever was
  asked before.

`PROJECT.json` lists the hazards behind these properties at their lines.

## Modules

### `Engine`: the engine with arbitrary callbacks

`Engine` is an open model of `Engine.cpp` and `EvalCache.cpp`. The callbacks are
its environment: on an operation `o` they may ask for any value of `Uses[o]` (and
in `isEquivalentTo` also of `Uses` of the candidate), pay a step, freeze, bind a
block that `o` owns, and return anything their signatures allow. A program is
the constants: operations with their number of results, blocks with their owner,
constants with their attributes, and `Scope`, the blocks around each definition.

| TLA+ | Code |
|---|---|
| `stack` | the C++ stack: an activation of `compute` per operation in progress; `pc` is the callback running, or `search` (`findEquivalent`) or `charge` (before `evaluate`) |
| `active`, `memo`, `frames`, `bindings`, `freezes`, `remaining` | `active`, `queryAnswers`, `frames` with their `memoized` lists, `bindings`, `freezes`, `remaining` |
| `entries`, `constants` | `EvalCache::entries`, `EvalCache::constants` |
| `Query`, `EndQuery`, `ClearCache` | `Engine::query` up to the call of `compute`, its end, `EvalContext::clearCache` |
| `QueryMemoized`, `QueryLeaf`, `QueryCycle`, `QueryEnter` | the four ways `Engine::evaluate` and `compute` go on a nested query |
| `DeclareCost`, `Freeze`, `Unfreeze`, `Bind`, `Unbind` | `EvalScope` and the destructors |
| `Eligible`, `HashReturn`, `KeySignal`, `CompareReturn`, `EvaluateReturn` | a callback returns |
| `SearchMiss`, `SearchOwn`, `SearchSkip`, `SearchCompare` | the loop of `findEquivalent`, for `lookup` before `evaluate` and for `insert` after it |
| `Charge` | `declareCost` before `evaluate` |

`findEquivalent` and everything that re-enters the engine is split at the
callback, since other activations run in between; everything between two
callbacks is one action, because the code is sequential. The memo's `under` is
history: the frames around a definition when it was memoized.

The type of a value and its bits are not visible at this level, and a hash is a
`Key`; the hash of a callback is any key, so collisions and unequal hashes of
equivalent operations are included.

### `Interp`: the engine with the repository's operations

`Interp` extends `Engine` with `locals`, what each running callback has heard and
the local variables of `scf.for`, and lets a step be taken only if the code of
the callback takes it: `addi`, `subi` and `muli` with their lazy operands, keys
and hashes, and `ForOpEval::evaluate` with a `pc` of its own (`begin`, `head`,
`paid`, `body`, `leaving`, `done`). Numbers are `Width` bits wide and wrap. Two loops are
compared as the default `isEquivalentTo` does: which loops the structural passes match is
the constant `Alike` (how they do is `Equivalence`), and the pass over their operands is
made of queries of the engine, each of which may add to the memo, spend budget
or signal. Alike loops capture the same values, so their bodies ask for none. That
leaves out one more kind of loops that match: `compareCommutative` may evaluate two values that both bodies
capture, to see whether the first operand of one addition is the second of the other, and
`Alike` has no loops whose commutative operations capture two different values.
Only the host is nondeterministic. Every action of `Interp` is an action of
`Engine` conjoined with what the callback knows. `IsEngine` says that nothing
else happens; it is checked in `interp_nested` and proved in `InterpProofs`, so
what is proved of `Engine` holds of these callbacks.

### `Signals`: when a query ends without a value

The properties of the signals that `Interp` answers, with their reference: which
operations need themselves. An operation needs its first operand that is not a
constant it passes over (`NeedsOneOf`), so a set of operations each of which
needs one of the set (`SelfNeeding`) can never be evaluated, and `Cyclic` is the
union of these sets. There is no recursion in it, so its properties can be proved.

### `Denotation`: reference semantics

What a value means, by recursion on its definition: no cache, memo, budget or
frames, the number of a loop's iterations in closed form. It holds the
properties that compare `Interp` with it, and the refinement of `QueryService`.
Its recursion is a recursive function over the questions (a value and what the
arguments of loops hold), so that it can be proved about.

`Visible` is what MLIR's verifier guarantees of a program: an operand is visible where it is
used, and a yield in the loop's body. TLC evaluates it of every program of `MCInterp`. `AlikeBodies(M, o, p)`
says that the pairs `M` match the bodies of two loops as the structural comparison
matches them: pairs of values are defined by operations of a kind whose operands are pairs,
in either order if the kind is commutative.

### `QueryService`: what an engine promises

The abstract specification: a host asks for a value with a budget and is replied,
once, with what the value means, with `Cycle` if it needs itself, or, only when
nothing is left of the budget, with `Exhausted`. It has no cache, memo or
loop, so an implementation may not let them be seen. `Denotation` instantiates it
with `Meaning` the denotation, `asked` the running query (`Pending`) and `reply` the
answer once the stack is empty (`Given`). `ServesQueries` is its safety, `ImplementsService` all
of it. Its liveness is stated as `Returns` instead of a fairness
condition, since TLC cannot evaluate `ENABLED` under such a substitution.

### `Equivalence`: whether two operations compute the same

The default `isEquivalentTo` and its callback `isEvaluatedValueEqual`. Operations,
blocks, regions and what each value is known to be are constants; a label stands for
an operation's name, attributes and properties. The state is that of one
`EquivalenceChecker`, and of the two last verdicts.

| TLA+ | Code |
|---|---|
| `ops`, `blocks`, `values` | the members of `EquivalenceChecker`; `rhsValues` is the range of `values` |
| `todo` | the recursion of `matchOperation`, `matchRegion`, `matchBlock`: what they have yet to visit, in their order |
| `cursor` | the locals of `compareOperands` and `compareCommutative` |
| `Start` | `isEquivalentTo` |
| `MatchOperation`, `MatchRegion`, `MatchBlock` | the first pass |
| `CheckOperands` | the second pass, which calls nothing, in one step |
| `CompareOperand`, `NotFound`, `NextOperation`, `AllEquivalent` | the third pass, a step per pair of operands, since each may be evaluated and signal |
| `ComputeHash` | `computeHash` without signals; the sum of commutative operands' hashes is their bag |

A callback answers whether the two values are known and equal, or any signal.

### `Correspondence`: when two operations correspond

The reference for `Equivalence`, without a walk: there is a one-to-one map between
the operations and blocks inside one and those inside the other that respects
labels, regions, bodies and successors, and operands correspond under it, those of
a commutative operation in some order.

It also has the two statements of what is matched before an operand is evaluated: `StructureFirst` is
what the class comment says, which the code does not do, and `FixedOperandsFirst` what it does
(see "The late mismatch").

`NestingAssumption` says of programs what MLIR verifies: an operation is in one place of
one block, a block in one place of one region and nothing inside itself (`NestsOnce`), and
an operation's successors are blocks of the region it is in (`Siblings`). TLC evaluates it on
the program of `MCEquivalence`.

### `Storage`: where values live

The owners of storage are a query, every engine (for its answers) and the cache. A
handle is an address and the cached bit; what it was made for (its content and its
`origin`, the instance) is history that the code does not keep and that the
properties compare it with. Addresses are few and reused, which is what an
allocator that is reset in place does.

| TLA+ | Code |
|---|---|
| `heap` | storage with its owner: `queryAllocator`, an engine's `answerAllocator`, the cache's `allocator` |
| `retained` | `retained` of the answer and cache allocators |
| `entries`, `constants`, `memo` | the cache's slots and constants, `queryAnswers` |
| `result` | what `evaluate` returned, before `insert` and `fill` |
| `held` | the answers the host has |
| `IsEqual`, `Hash` | `EvalValue::isEqual` and `hash`, by identity or by class |
| `NeedsCopy`, `Places`, `Copied`, `Remembered`, `Kept` | `retain` |
| `BeginQuery`, `EndQuery`, `EndWithoutValue` | `Engine::query` before and after `compute` |
| `ConstantHit`, `ConstantMiss` | `evaluateConstant` |
| `Hit`, `Evaluate`, `Store`, `Forgo`, `Produce` | `Engine::compute` with `EvalCache::lookup`, `insert` and `fill` |
| `ClearCache`, `Destroy` | `EvalContext::clearCache`, the end of an engine |

Evaluation is big-step: an operation has one result and at most one operand, which is
evaluated before it, since only the moves of values between owners matter; the
nesting is `Engine`'s. Answers that a loop's frame forgets before the query ends
are left out: forgetting a handle moves no storage. Engines take turns (see Not modelled).
`HashAssumption` says that contents, addresses and SSA values do not collide in
a hash; entries match by their own key or by equal operands, as `findEquivalent` does.

### `Tool` and `Reports`: the command-line tool

One action per step of `main`: the next chunk, a row, going into an operation's
regions, the end of a chunk, the exit. What a query gives is the constant `Query`, any
function of a result and of the results queried before it in the context, which is
what the tool relies on: an engine has no other state that an answer depends on (but for the
addresses of "The reused address", which the operating system's allocator gives out). The state keeps these
results as `context`. `SourceName` finds a result's group as `getSourceName` does, `PrintSigned` reads an
integer as its type's signed number.

`Reports` says what a report must be, from its chunk alone.
The order of the source is given by places, a numbering of the results: `Before[o]` is the
place of the first result of `o`, and what is nested in it is laid out behind its own results, up
to `Through[o]`. `Source(c)` is the sequence of a chunk's results by their places, and `ReportsAlone` asks that
the `k`-th row be that of the `k`-th of them, with what `Query` gives after those before it.

### `Evaluation`: a query in one step

The `Query` of the run: `Engine::query` as a function, with the budget, the memo and the
operations in progress within a query, and the cache's filled slots carried from one
query to the next. `Compute` is `Engine::compute`: the key's operands are asked for before
the lookup, a hit costs nothing more, a miss costs a step and evaluates what the operation reads,
and each operation that completes is stored at once, so that a query that ends
with a signal leaves in the cache what it evaluated until then. Left out is what the tool cannot
tell: loops and their freezes, bindings, the constant cache; operations that are alike
(`Like`) have no operands, so that a comparison asks for nothing, and no other hashes collide.
It is recursive, and no theorem depends on it: `ReportsAreAlone` is for every `Query`.

### `MCEngine`, `MCInterp`, `MCEquivalence`, `MCStorage`, `MCTool`

The programs of the runs.

### The modules of proofs

Each extends the one before it: `EngineProofs` holds the theorems about `Engine`, `InterpProofs` those
about the operations, `SignalsProofs` those about the signals they answer, `DenotationProofs`
those about what values mean, `SoundProofs` that the engine answers that. Apart from these,
`StorageProofs` holds the theorems about `Storage`, `EquivalenceProofs` those
about `Equivalence`, and `ToolProofs` those about `Tool`; see Proofs.

## Runs

| Run | Shows |
|---|---|
| `engine_cache` | three operations and one bucket: one with two results, one that re-enters itself. `TypeOK`, `CycleGuard`, `HandlesFit`, `OneEntryPerOp`, `CacheGrows` |
| `engine_loop` | two nested loops, whose inner operation may query both loops' arguments and the outer loop itself. `BoundOnce`, `BindingsFollowFrames`, `QueryEndsClean`, `StackDiscipline`, `MemoNeverOutlives`, `ReportedOutcome`, `FrozenCacheKept`, `MemoStable` |
| `interp_nested` | the nested loops of `test/scf-for.mlir` (shortened), adding a value `%v3` that is 1, a copy of what they compute, an addition that commutes with `%v3`, and a user of both, budgets 3, 6 and 30. Once the copy is cached, `%v3` is compared with it: the comparison runs both loops, which ask for `%v3` and hear `Cycle` for a yield, in an iteration that is not the last. `Sound`, `MemoSound`, `CacheSound`, `ExhaustedMeansSpent`, `NoSpuriousCycle`, `IsEngine`, `Terminates` |
| `interp_graph` | nine loops that yield their induction variable: at the boundaries of the type, two whose induction variable overflows, signed and unsigned, two whose step is -1 or 0 and one that ends at the greatest value, and four that are told apart by their operands alone: one has another's bounds, by another constant, and is answered from its entry (and the other from its), one has another bound, and one an unknown initial value. Next to them, in the same graph region, an operation that needs itself through the initial value of a loop. `IterationsPaid`, `CyclicNeverKnown`, `ServesQueries`, `ImplementsService` |
| `equivalence` | 32 operations, most of them after `test/EvalOperationEquivalence.cpp`, every pair in both directions, with signals. `TypeOK`, `Agrees`, `Symmetric`, `EqualHashes`, `MapsAreTwins`, `AsksOutside`, `FixedOperandsFirst` |
| `equivalence_structure` | a violation, see below. `StructureFirst` |
| `storage_lifetime` | two engines on one context, operations that forward a value and constants that share one. `TypeOK`, `HeldLive`, `NoLeak`, `SlotsLive`, `OneCopy` |
| `storage_keys` | two equivalent producers of instances, and their users. `KeysHold` |
| `tool` | inputs of up to three chunks, of five kinds, with and without `--verify-diagnostics`; a row that ends exhausted and the rows that are answered from what it cached. `ReportsAlone`, `NamesResolve`, `ExitStatus` |
| `interp_stale` | a violation, see below. `BoundArgumentCurrent` |
| `interp_shared` | a violation, see below. `EquivalentShareEntry` |
| `storage_instance` | a violation, see below. `KeyHoldsInstance` |

The programs of `equivalence` hold the cases in which the passes could go wrong: two
operands that are equal against two that are not, three operands in another order
and with other duplicates, an operand that is the result of the operation compared
with, a captured value against one inside that is known to be equal, a yield of
another inner value, block arguments of another type, a block listed before the one
that defines what it uses, and branches to another block. `Agrees` says of a
comparison that completes exactly what `Correspondence` says; of one that signals
only that it is no answer.

Deadlock is checked in all of them but `tool`, whose process exits. In `Interp` it means more than that the
model goes on: the assertions of the code (a block bound twice, results returned
with a binding alive) are guards, so a callback that failed one would be stuck.

Bounds. One key in `engine_cache` puts every operation into one bucket, the
worst case for searches; buckets of three entries are enough for a search to
meet its own entry, one of another shape and one to compare, before and after a
nested insert. The budgets (0 and 2, 4, 3 and 30) are chosen so that a query
ends both with and without enough steps; 4 suffices for two loops to iterate
with an iteration of each abandoned, and in `interp_nested` one of 6 ends in the middle of a yield. `Signal` leaves out `NeedsOrder`, which
no code of the repository produces and the engine treats like `Exhausted`
(every test of a status is `completed()`). In `interp_nested` the keys make different
operations collide; what depends on an unbound argument of a loop has a key to itself, as the host may ask
for it there, and `interp_stale` shows what its comparison may do. In `interp_graph` one constant's
attribute is cacheable and the loops share a key. Three bits are enough for a signed loop to
overflow and for 7 and -1 to differ in their reading. Nothing is cut off:
within its program each run explores the whole state space.

`Births` bounds the values created in the runs of `Storage`: three in
`storage_lifetime`, where a query's value, its cached copy and the copy for the host
occupy three of four addresses and a later query reuses what the first freed, and
four in `storage_keys`, two queries of a producer and what it reads. Addresses are
symmetric; no code orders them. In `tool` three chunks suffice for one that fails
before and after one that runs, and a budget of two makes a row's answer depend
on what the rows before it cached: the query of the operation with a region, whose region takes more than that, ends exhausted and leaves
the operation in it cached, which completes the rows after it.

Fairness. `ISpec` has weak fairness of the engine's steps while a query runs:
`query` is a synchronous call on the host's thread, so its next step is taken.
There is none on the host, which may stop asking. `Engine`'s own `Spec` has no
fairness: an arbitrary callback may iterate forever.

### The stale binding

`interp_stale` finds a query whose answer is wrong. The program is

```mlir
%sum = scf.for %i = %c0 to %c3 step %c1 iter_args(%acc = %c0) -> (index) {
  %z = arith.muli %i, %c0 : index
  %n = arith.addi %acc, %i : index
  "test.effect"() : () -> ()
  scf.yield %n : index
}
%prod = arith.muli %c0, %c7 : index
%use = arith.addi %prod, %sum : index
```

A query of `%z` stores it: a product with a known zero is known. In a later query
of `%use`, the lookup of `%prod` compares it with `%z`, whose key queries `%i`; no
iteration is running, so the answer is unknown, and it is memoized for the rest
of the query. The loop of `%sum` then binds `%i`, but `Engine::evaluate` looks at
the memo first, so `%n` hears unknown. `bind` (`Engine.cpp:76`) does not remove
what was memoized for the block's arguments and for values of its region. The
comment at `Engine.cpp:123` says that a bound argument holds the current
iteration's value. The loop must not be cacheable, or its own cached result
hides this.

### The second entry

`interp_shared` finds two equivalent operations with an entry each, where
`EvalCache.h:63` says that equivalent operations share one. `%copy` adds zero to
`%v3`, and both compute 3 from operands 3 and 0. If `%v3` was evaluated first
inside a loop, it is memoized but, the cache being frozen, not stored; then
`%copy` is stored. In a later query of `%v3`, comparing it with `%copy` asks for
`%v3`, which is active, so the comparison answers `Cycle`, `findEquivalent` goes
on to the next candidate, and `%v3` is stored too. Both entries are right
(`CacheSound`); what is lost is the sharing. An operation still has at most
one entry of its own (`OneEntryPerOp`).

### The late mismatch

The comment of `EquivalenceChecker` (`EvalOperationEquivalence.cpp:20-25`) says that the second pass
checks the operands defined inside the operations, so that "a structural mismatch is
found before any operand is evaluated". The pass skips commutative operations (line 40), which
can be matched only by trying pairs, and the third pass tries them in their turn, behind the operations
around them. `equivalence_structure` compares two loops with different operands, one of which
adds a captured value to an argument, the other an argument to another one. No order of
these matches, whatever the captured value is, but the loops' own operands are evaluated first. The verdict is right
(`Agrees`); the evaluation is paid for, and stays in the memo, in vain.

### The reused address

`storage_instance` has an operation `%x` that may be cached and forwards `%u`, which
may not and makes a new instance of a class that compares by identity in every
query. The hash of `%u` is the address of its storage, and `%x` is keyed by it.
When the query ends that storage is freed, and the next instance of `%u` may get
the address. `findEquivalent` returns an operation's own entry as soon as the hash
is equal (`EvalCache.cpp:20`), so the second query of `%x` answers the first
instance. `test/EvalCache.cpp:46` says of such a class that "a key holding one
matches only the same instance". Only an operation's own entry is
affected, and only if its operand is an uncached instance; `KeysHold` states, and
`StorageProofs` proves, that there is no other case.

## Proofs

### The engine

`EngineProofs` proves, for every program and every callback that `Engine` allows,

- `TypeInvariant`: `Spec => []TypeInv`;
- `TypeCorrect`: `Spec => []TypeOK`;
- `HandlesStayValid`: `Spec => []HandlesFit`.

`TypeOK` is not inductive by itself. That an entry has as many slots as the
operation has results depends on the activation that fills it holding a position
of an entry of its own shape, and that position stays valid only because buckets
never shrink and entries keep their shape while a query runs. `TypeInv`
therefore conjoins:

- `TypeOK`;
- `StackShaped`: what `key`, `entry` and `results` of an activation can be in each
  of its `pc`s, and that all but the innermost activation are in a callback;
- `EntriesShaped`: an entry has one slot per result of its operation;
- `HandlesFit`: every activation's `next` and `entry` fit its bucket;
- `Idle`: no activation without a query, so that clearing the cache when no
  query runs invalidates no position.

The proof has a lemma per helper (`BecomeOK`, `ReturnOK`, `EvaluatedOK`,
`StoreInOK`, `StoreNewOK`, `SearchEndsOK`), each of which shows `TypeInv'` for
the way that helper changes the stack, the memo and the cache; `TypeStep` splits
on the actions and cites them. `FitsMono` is the key lemma: a position that fits
still fits in a bucket that was only extended.

Two more parts build on it. Together with the above they prove every invariant and
every action property of `Engine`.

The part on the stack, frames and freezes proves `StackDiscipline`, `CycleGuard` and `QueryEndsClean` from
`StackInv`, which adds

- `FrameOwners`: every bound block lies above the `framesAt` of an activation of
  its owner and not above that of the next activation. The last frame when `query`
  returns therefore has no owner left, which is why `frames` is empty;
- `NoneFrozen`: an empty stack holds no freeze.

A step keeps the stack, the freezes and the frames (`Stays`), enters an operation
(`Pushes`), leaves one (`Pops`), moves the innermost activation on (`Moves`), or
nests a scope in it (`Nests`). `StepKinds` sorts the actions into these five, and
there is a lemma per kind.

It goes on to prove `BoundOnce`, `BindingsFollowFrames`, `MemoNeverOutlives`,
`MemoStable` and `FrozenCacheKept`. `BindsFresh` is where the parts meet: a block
that is bound already is owned by the activation that bound it (`FrameOwners`),
its owner is on the stack once (`CycleGuard`), so it was bound by the very callback
that binds it now, whose own nesting the guard of `Bind` rules out. `MemoHeld`
strengthens `MemoNeverOutlives`: the frame that lists an answer is the innermost
of those under which it was computed, so forgetting its list is enough. A frozen
cache is not written because an insertion that is still searching began thawed and
`StackDiscipline` says that no freeze has begun since.

The part on the cache proves `CacheGrows`, `OneEntryPerOp` and `ReportedOutcome`.
`OneEntryPerOp` needs `Searched`: no entry a search has passed over, or compares, is
the operation's own. Entries appended by nested queries lie behind its position, so
it survives them, and the insertion that resumes there meets an own entry if
there is one. `ReportedOutcome` needs that only operations that may be cached have
a key (`PureKeys`) and that the bottom activation is the queried value's, with
no hit reported while it is there (`BottomAsked`).

The assumptions are the named ones of `Engine`: the typing of the program's
constants, that results, arguments and other values are distinct, and that
`Null` is neither a value nor a key. TLC evaluates them in every run.

### The operations

`InterpProofs` proves `OperationsKeepToEngine`: `ISpec => IsEngine`. That a step of `Interp` is
one of `Engine` needs that what a callback returns has the types `Engine` gives
it: one answer per result, a block of its own bound with as many answers as it has
arguments. For a loop these are its locals, filled over many steps between which other
callbacks run. `InterpInv` is `TypeInv` of `Engine` and `LocalsInv`: there are locals
for every activation, and (`LocalFits`) a loop that has begun has its bounds and step
in `Val` and carries one answer per result, and one that is done has that many
results; `Listens` says that a callback below the top of the stack still
waits for an answer, so that the answer it hears on a return is not one too many.
There is a lemma per action. `LocalsFollowStack` states the invariant.

`EqualKeysEqualResults` is about the operators alone: two operations of a kind whose keys
match, whatever their operands answered, have the same result and the same hash. It
covers operands that are swapped, unknown, or decided by a zero factor.

`ForCallbackReturns` and `AskedValue` say which of `Engine`'s steps a loop's return is, and
which of the callback's values it asks for; the next section uses them.

The theorems about `ISpec` assume `HashesToKeys`, that every hash is a key: `Hash` is a
constant operator, of which TLC cannot evaluate that it maps everything into a set.
`InterpAssumption` states that the modulus is positive, since the prover has no
facts about `2^Width`; TLC evaluates it.

### The signals

`SignalsProofs` proves, for every program and every width and again assuming `HashesToKeys`,

- `ExhaustedOnlySpent`: `ISpec => []ExhaustedMeansSpent`;
- `CyclesAreGenuine`: `ISpec => []NoSpuriousCycle`, for a program without cycles;
- `CyclesNeverAnswered`: `ISpec => []CyclicNeverKnown`.

A program has no cycle if its operations have a rank (`Ranks`): each asks, for its operands
and its yields, only for values of lower ones. It is a hypothesis of the second theorem
alone, and every program whose values do not depend on themselves has one.

The first two come from `SignalsInv`. What an activation has heard, and what a loop has
carried or is about to return, is `Justified`: a completed answer, `Exhausted` with nothing left of the
budget, or `Cycle`. In a program with ranks a `Cycle` is justified only while some callback at or
below is comparing two operations, since only those ask for what their own operation does
not need: everywhere else ranks fall along the stack (`Descends`), and an operation cannot meet
itself. A comparison that hears a `Cycle` is answered by going on to the next candidate,
so the signal is gone when no comparison is left, and none is left when the query ends. That the
results of a loop are all values or all the one signal (`Whole`) is what keeps
a signal from hiding among values that are stored.

The third is about every set `S` with `SelfNeeding(S)`. `CyclicInv(S)` says that nothing of `S` is
memoized or stored, that an activation of `S` has heard its operands in turn, each passed over up to
the first that signals (`HeardStuck`), and that a query of `S` answers a signal. It needs
that a constant has one answer (`ConstantsFold`), whether folded, looked up or memoized, and
`OutcomeInv` of `EngineProofs`: an operation is served from an entry only after its own
key, which for one of `S` is a signal.

### What values mean

`DenotationProofs` proves of the reference itself

- `ValuesMean`: in a program with ranks the recursion of `Denotes` has a solution, so every value
  has a meaning for the answers to agree with. A definition by recursion says nothing of
  values until a function that satisfies it is shown to exist: it is built by induction on
  the level of a value (`Level`: its operation's rank, and whether it is a result or a leaf), and the
  iterations of a loop by induction within it;
- `ScopesDecide`, a lemma: environments that agree on the arguments of the blocks around a value
  give it the same meaning. It is why an answer outlives bindings it does not depend on;
- `AlikeLoopsEqual`: two loops whose bodies pair up have equal results wherever their operands are
  equal. It is why `isEquivalentTo` may find one loop in the entry of another.

### The answers

`SoundProofs` proves, for every program with ranks, every width, every budget and every history of
queries and clearings,

- `AnswersSound`: `ISpec /\ []TopLevel => []Sound`;
- `MemoIsSound`: `ISpec /\ []TopLevel => []MemoSound`;
- `CacheIsSound`: `ISpec /\ []TopLevel => []CacheSound`;
- `ImplementsQueries`: `ISpec /\ []TopLevel => ServesQueries`.

Their hypotheses are

- `Ranks`: no value needs itself. The meaning of one that does is not defined;
- `TopLevel`: the host asks for values outside of the bodies of loops. It is needed: `interp_stale` is
  a program in which a query of `%z`, inside a loop, makes a later answer wrong;
- `AlikeMatch`: some pairs match the bodies of any two loops in `Alike`, which is what the
  structural comparison builds in its maps. TLC evaluates it on the programs of `MCInterp`
  with the pairs written out (`TwinsAssumption`);
- `HashesToKeys`, as before.

`Sound` alone says nothing between a question and its answer. The inductive invariant has three layers.

- `BaseInv` is what is proved of the engine: types, locals, stack and frames.
- `ScopedInv` says where evaluation is. `InScope`: the blocks around the operation of an
  activation are bound, by the frames below it. `MemoScoped`: what is memoized is in the scope of what is bound.
  `EntriesTop`: the operation of an entry is outside of every loop, because (`FramesFrozen`) there
  are as many freezes as frames and a frozen cache takes nothing. So when a comparison asks for the operands of a
  candidate in the cache, it asks for values whose meaning no binding changes. A host that asks inside a loop
  breaks `EntriesTop` first, and then what `interp_stale` shows happens.
- `RightInv` says that what is held is right. `StackRight`: what each activation has heard, its
  key, the results a loop carries and its induction variable (`LoopAt`: after `k` iterations they are
  `After(k)`, and `k` is at most `Trips`), and what a comparison has found so far, are what they stand
  for under the current bindings, those of the activations above it included. With it `MemoSound`, `CacheSound` and `AnswerRight`.

A step that asks keeps it by the rightness of what is served: from the memo under the same
bindings; from an entry because the results of an entry of an equivalent operation are those of the operation
(`EqualKeysEqualResults` for arithmetic, `AlikeLoopsEqual` for loops); from a constant. `bind` and
`unbind` keep it by `ScopesDecide`: what they change is not among what the memo's values and the
activations below depend on. The step of a loop that finds its bound passed keeps it because the
number of iterations in closed form is the number the wrapping comparison of
`ForOpEval::evaluate` counts, or the loop answers unknown. Both layers were checked with TLC, with a top-level host, before they were proved.

`ImplementsQueries` maps each step of `Interp` to one of `QueryService` or none: a host's query is
`Service`'s query, a step that is paid for is its spending, the step that empties the
stack is its reply, with the meaning by `AnswerRight`, with `Exhausted` only when the budget is
spent by `ExhaustedMeansSpent`, and never with `Cycle` by `NoSpuriousCycle`; all others change
nothing that a host sees.

### The storage

`StorageProofs` proves `StorageTypes`, `AnswersLive`, `NothingLeaks` and `SlotsStayLive` for any
number of engines, addresses and values. None of the properties is inductive alone:
that a copy for the cache is right depends on what `retained` says of the address,
that on when it was last reset, and that on who may free what. `LiveInv` conjoins

- `TypeOK`, `SlotsLive`, `NoLeak`;
- `Idle`: without a query there is no memo and nothing to store;
- `QueryLive`: the handles of the memo, and of the result to be stored, point to
  what they were made for, in the storage of the query or of the cache;
- `HeldOwned`: `HeldLive`, and the owner of an answer that is not cached is
  the engine that gave it;
- `RetainedLive`: while a query runs, what its engine and the cache remember for an
  address is a copy they own of what is there now. This is what resetting `retained`
  in `BeginQuery` is for;
- `ResultPending`: a result that is to be stored is of an operation without an answer,
  whose operand has one.

Its second half proves `OneCopyEach` from `CopyInv` (instances are numbered below
`births`, a query's storage holds an instance once, and a copy in the cache of an
instance that the query still has is remembered in `retained`), and `EqualOperands` from
`KeyInv` (`EntriesFit`: an entry's key is that of its basis; `OperandFirst`: an operation is
answered after its operand; `ResultFits`: a result's key is that of the operand
it was computed from). The assumptions are those of `Storage`, which TLC evaluates.

### The comparison

`EquivalenceProofs` proves `ComparisonsFit` and `ComparisonTypes` from `CheckInv`: tasks pair
operations with operations, regions with regions and blocks with blocks, the maps are
of values and blocks of the program, the operations matched have as many operands, and
the cursor is at an operand or just behind the last. So the checks of `matchOperation`
are all that the `zip_equal` of the later passes needs.

`EqualOperationsHashEqually` proves `EqualHashes` for every program, with the hypothesis
`OperandsOutside`: no operation compared uses a value from inside it. Only an operation
in a graph region that uses its own result does, and its hash is the signal `Cycle`, not a
key. The inductive `HashInv` adds to `CheckInv`

- `LeftInside`: the walk, and the values mapped, stay in a set that encloses the left
  operation. Together with the hypothesis, no operand of the left operation is ever
  mapped, so a match of one says that both are the same value or known to be equal;
- `RootFirst`: the operations compared are the first whose operands are;
- `RootPaired`: the operands passed so far are paired one to one with operands of the
  right operation that hash equally (`Pairing`), by position unless the operation is
  commutative. Behind the last operand the pairing is onto, so the bags
  of operand hashes are the same (`SameBag`).

It does not need that the maps are complete. That they are, and that the answers are
right, is proved under `NestingAssumption`:

- `MapsPairAllInside`: `Spec => []MapsAreTwins`;
- `AsksOnlyOutside`: `Spec => []AsksOutside`;
- `FixedBeforeAsked`: `Spec => []FixedOperandsFirst`, which leaves out commutative operations, as the code does;
- `ComparisonsAgree`: `Spec => []Agrees`;
- `ComparisonsSymmetric`: `Spec => []Symmetric`.

The argument begins with what is inside an operation. `OpsIn` is defined by as many steps as there
are operations, so that it has no recursive operator; `OpsInLeast` shows that it is the least set
that has the operation and what is nested in its members. From it, and since everything is in one
place, `OpDivides`, `RegionDivides` and `BlockDivides` divide an operation into itself and its
regions, a region into its blocks, and a block into itself and its operations, without overlap.

`WalkInv` is the invariant of the first pass. There is a map `h` of what is matched, on the left,
to its counterpart on the right, such that (`Walk`)

- what is matched and the parts of the tasks that are left divide the left operation, and
  the right one likewise; so no operation or block is matched twice, and `h` is one to one;
- of every pair matched, the regions, blocks and operations in it are matched or left to match,
  in the same order; its successors are mapped if they are inside, and the same blocks otherwise.
  That a successor inside is mapped when its operation is matched (`SuccessorsPlaced`) is where
  the code relies on mapping all blocks of a region before it matches one;
- `values`, `blocks` and `ops` are what `h` says.

When nothing is left, `h` is on all that is inside and `values` pairs all values (`ValuesDone`), and
`h` restricted to operations and to blocks is a twin (`TwinFound`); `MatchMeans` translates what
`matchValues` and `compareValues` say into `MayCorrespond` and `Corresponds` under it. This gives the first three
theorems. For `ComparisonsAgree`, `TruthInv` adds

- `ForcedInv`: every twin has what is mapped and what is left to match among its pairs. So a pair
  that does not match leaves no twin, and by `OneTwin` (two twins agree at the operations and, pair by
  pair, at what is in them) the one found is the only one operands can correspond under;
- `PairedInv`: the operands of the operations passed agree in some order, and those passed of the
  current one are paired with operands of the right one that agree with them (`Chosen`), the candidates before
  `cursor.other` having been refused.

That a greedy choice suffices is `ChosenPigeonhole`: values that agree with one value agree with the same ones
(`AgreedTwoWays`: by the map inside, and outside because equality of known values of one type is an
equivalence). If operand `n + 1` finds only operands that are taken, those that took them agree with
the same operands and no others, so any order would need one more of these than there are. For
`ComparisonsSymmetric`, `TwinBack` shows that the inverse of a twin is a twin: a successor that is outside
the left operation is one of the operation itself, hence in the region that the right one is in
too, and not inside it (`SuccessorsApart`).

### The tool

`ToolProofs` proves, for every input and every program,

- `ExitTells`: `Spec => []ExitStatus`, from `RunInv`: the failure that is kept is that of the
  chunks run so far (`Fits`), and what the current chunk emitted is its fault, if it has one;
- `RowsNameResults`: `Spec => []NamesResolve`. `GroupFacts` shows that the group that `SourceName`
  searches exists, by the least position behind which all groups start later; `GroupCounts`
  that it is the group MLIR counts; `GroupSpans` that it holds the results from its start to
  the next one, so that a name without an index is that of a group of one. `WalkInv` says
  that every row is one of a result of the program;
- `ReportsAreAlone`: `Spec => []ReportsAlone`. `OrderInv` says that what the walk has yet to visit is
  laid out from the place where the operation it is at begins to the end of the chunk, that
  what was queried in the context is the results of the rows reported so far, and that each of these is as it
  must be. `LaidRest` and `LaidJoins` show that taking an operation off the work and putting the nested
  ones in its stead leaves the work laid out; when there is none left, the places of the
  chunk have been gone through, each once. `SourceAt` shows that the result the walk is at is
  the next of `Source`, and `RowSays` that the printed number is the one with the answer's bits.

The assumptions are those of `Tool` and `Reports`, which TLC evaluates: the result groups of an
operation start at increasing positions, the first at 0; the places of the results are different,
and those of nested operations follow each other, as in a source, where an operation is in one
place; an integer's bits are below two to its width. Nothing is assumed of what the cache or the
budget does to an answer.

### Model-checked only

- liveness: `Terminates`, and `Returns` as part of `ImplementsService`;
- the answers to a host that asks inside loops, where the answers are not always right
  (`interp_stale`), and the refinement of `QueryService` by programs with cycles (`interp_graph`), of
  which only `CyclicNeverKnown` is proved.

## Plan

1. Done: `Engine`, `Interp`, `Denotation`, `QueryService` and their runs.
2. Done: the proofs of `Engine`'s invariants and action properties, and that `Interp`
   implements `Engine`.
3. Done: `Equivalence` and `Correspondence`, `Storage` and its proofs, `Tool` and the proofs of
   its exit status, names and reports.
4. Done: the types of `Equivalence`, that equal operations hash equally, and that a
   comparison answers what `Correspondence` says.
5. Done: the proofs about signals, that answers are what values mean, and that `Interp`
   implements the safety of `QueryService`.
6. Done: `Interp` with the default comparison of loops. Left: loops alike that capture
   different values, which composes the walk of `Equivalence` with the engine.
7. Left: integers of several types and the overflow flags of the operations.

## Not modelled

- `Engine::specialize`, which returns failure, and `EvalScope::walk` and `isOrdered`, which are
  stubs that change nothing.
- The registry of value classes and their interface maps: filled before any query,
  templates without state.
- More than one integer type in a program, and the overflow flags of arithmetic
  operations, which only distinguish keys.
- Loops that match although commutative operations in their bodies capture different values (see
  `Interp`).
- A query or a `clearCache` from a callback. A callback can reach the context, by its
  allocator, and clearing does not assert that no query runs; none of the repository's
  callbacks does it.
- A change of the program under the cache. Entries are keyed by operations, and an
  erased one would leave an entry behind; no code here changes the IR, and a host that
  does has `clearCache`. The program is a constant of every module.
- Splitting the input file, verifying diagnostics and parsing, which are MLIR's; cache
  statistics, logging, printing of types, option parsing and the build.
- Two engines at once: engines on one context take turns. A callback that made an engine of its
  own on the context would query within a query; none of the repository's does.
- A bound on the depth of the C++ stack, of which the code has none.
