------------------------------ MODULE Storage ------------------------------
(***************************************************************************)
(* Where evaluated values live.  A value is a handle to storage that a     *)
(* query, the context's cache or an engine's answers own                   *)
(* (EvalValue.h, EvalValueStorageAllocator.h).  A query's storage is freed *)
(* when the query ends and its addresses are used again; an answer is      *)
(* copied out for the host, and what is cached is copied into the cache,   *)
(* each copy remembered by the address it was made from.                   *)
(*                                                                         *)
(* Evaluation is reduced to what moves values: an operation has at most    *)
(* one operand, which is evaluated before it is, and one result.  Engine   *)
(* has the nesting of evaluations, the budget and operations with several  *)
(* results.  Several engines share the context and take turns.             *)
(***************************************************************************)
EXTENDS Naturals

CONSTANTS
  Engine,      \* the engines on the context
  Addr,        \* addresses of storage
  Content,     \* what storage holds, with the value's class
  Opaque,      \* contents of the classes that keep identity equality
  Source,      \* what is evaluated anew in every query: operations that are
               \* not cacheable, and constants whose attribute is not
  Pure,        \* cacheable operations
  Operand,     \* [Pure -> Node]
  Name,        \* [Pure -> what the comparison sees besides the operand]
  Makes,       \* [Source \cup Pure -> SUBSET Content]: of the values evaluate
               \* creates; an operation that makes none forwards its operand
  Constant,    \* constants whose attribute is cacheable
  AttrOf,      \* [Constant -> Attr]: attribute and type
  Attr,
  Converts,    \* [Attr -> SUBSET Content]: toEvalValue; none is null
  Births,      \* bound on the number of values created
  Null         \* no storage, no value, nothing

Node == Source \cup Pure \cup Constant
Cache == "cache"
InQuery == "query"
Retainer == Engine \cup {Cache}
Owner == Retainer \cup {InQuery}
Cell == [owner : Owner, content : Content, origin : Nat]

(* A handle is the address and the cached bit.  content and origin, which  *)
(* the code does not keep, say what it was made for: origin numbers the    *)
(* instances, and a copy has the origin of what was copied.                *)
Handle == [at : Addr, cached : BOOLEAN, content : Content, origin : Nat]
Value == Handle \cup {Null}

ASSUME OwnerAssumption == Engine \cap {Cache, InQuery} = {}
ASSUME ContentAssumption == Opaque \subseteq Content /\ Births \in Nat
ASSUME ProgramAssumption ==
  /\ Source \cap Pure = {} /\ Constant \cap (Source \cup Pure) = {}
  /\ Operand \in [Pure -> Node] /\ AttrOf \in [Constant -> Attr]
  /\ Makes \in [Source \cup Pure -> SUBSET Content]
  /\ Converts \in [Attr -> SUBSET Content]
(* Hashes of different contents, addresses and values differ.              *)
ASSUME HashAssumption ==
  /\ Addr \cap Content = {} /\ Addr \cap Node = {} /\ Content \cap Node = {}
ASSUME NullAssumption ==
  /\ Null \notin Addr \cup Engine \cup Node
  /\ Null \notin Cell /\ Null \notin Handle
  /\ Null \notin [value : Value, basis : Value] /\ Null \notin [value : Value]
  /\ \A n \in Pure : Null \notin [op : {n}, key : {Name[n]} \X
                                   (Addr \cup Content \cup Node), value : Value]

VARIABLES
  heap,      \* [Addr -> Cell \cup {Null}]
  retained,  \* [Retainer -> [Addr -> Addr \cup {Null}]]: what was copied where
  entries,   \* the cached answers: operation, key, slot; basis is the operand
             \* they were computed from, which the code does not keep
  constants, \* [Attr -> the value stored, if one is]
  running,   \* the engine that runs a query
  memo,      \* the query's answers, with the basis they were computed from
  result,    \* what evaluate returned and the engine has yet to store
  held,      \* the answers the host has, with their engines
  births
vars == <<heap, retained, entries, constants, running, memo, result, held,
          births>>

Empty == [a \in Addr |-> Null]
NoMemo == [n \in Node |-> Null]

-----------------------------------------------------------------------------
(* Values (EvalValue.h).                                                   *)

Free == {a \in Addr : heap[a] = Null}

New(owner, a, c) ==
  /\ a \in Free /\ births < Births /\ births' = births + 1
  /\ heap' = [heap EXCEPT
                ![a] = [owner |-> owner, content |-> c, origin |-> births]]
HandleTo(owner, a, c) ==
  [at |-> a, cached |-> owner = Cache, content |-> c, origin |-> births]

Stands(h) == heap[h.at].content
DefinesEquality(h) == Stands(h) \notin Opaque
HashByContent(h) == Stands(h)
Hash(h) == IF DefinesEquality(h) THEN Stands(h) ELSE h.at
ClassIsEqual(g, h) == DefinesEquality(g) /\ Stands(g) = Stands(h)
IsEqual(g, h) == g.at = h.at \/ ClassIsEqual(g, h)

-----------------------------------------------------------------------------
(* Retention: retain(h) by r ends at address a.  It copies what is neither *)
(* cached nor copied yet.                                                  *)

NeverCopied(r, h) == FALSE
IsCopied(r, h) == retained[r][h.at] # Null
NeedsCopy(r, h) == ~h.cached /\ ~IsCopied(r, h)
Places(r, h) == IF NeedsCopy(r, h) THEN Free
                ELSE {IF h.cached THEN h.at ELSE retained[r][h.at]}
Kept(r, h, a) == [h EXCEPT !.at = a, !.cached = @ \/ r = Cache]
Clone(r, h) == [heap[h.at] EXCEPT !.owner = r]
Copied(r, h, a) ==
  IF NeedsCopy(r, h) THEN [heap EXCEPT ![a] = Clone(r, h)] ELSE heap
Remembered(r, h, a) ==
  IF NeedsCopy(r, h) THEN [retained EXCEPT ![r][h.at] = a, ![r][a] = a]
  ELSE retained

FreesNone(memory, owner) == memory
FreesOwner(memory, owner) ==
  [a \in Addr |-> IF memory[a] # Null /\ memory[a].owner = owner THEN Null
                  ELSE memory[a]]

BeginRetainingAnswers(e) == [retained EXCEPT ![e] = Empty]
BeginRetainingCached(e) == [retained EXCEPT ![Cache] = Empty]
BeginRetaining(e) == [retained EXCEPT ![Cache] = Empty, ![e] = Empty]

-----------------------------------------------------------------------------
(* A query.                                                                *)

BeginQuery(e) ==
  /\ running = Null
  /\ running' = e /\ retained' = BeginRetaining(e)
  /\ UNCHANGED <<heap, entries, constants, memo, result, held, births>>

Asks(n) == running # Null /\ result = Null /\ memo[n] = Null
Memoize(n, value, basis) ==
  memo' = [memo EXCEPT ![n] = [value |-> value, basis |-> basis]]

Produce(n) ==
  /\ Asks(n)
  /\ \E a \in Addr, c \in Makes[n] :
       New(InQuery, a, c) /\ Memoize(n, HandleTo(InQuery, a, c), Null)
  /\ UNCHANGED <<retained, entries, constants, running, result, held>>

(* evaluateConstant                                                        *)
ConstantHit(n) ==
  /\ Asks(n) /\ constants[AttrOf[n]] # Null
  /\ Memoize(n, constants[AttrOf[n]].value, Null)
  /\ UNCHANGED <<heap, retained, entries, constants, running, result, held, births>>

InsertConstant(n, value) ==
  /\ constants' = [constants EXCEPT ![AttrOf[n]] = [value |-> value]]
  /\ Memoize(n, value, Null)

ConstantMiss(n) ==
  /\ Asks(n) /\ constants[AttrOf[n]] = Null
  /\ \/ Converts[AttrOf[n]] = {} /\ InsertConstant(n, Null) /\ UNCHANGED <<heap, births>>
     \/ \E a \in Addr, c \in Converts[AttrOf[n]] :
          New(Cache, a, c) /\ InsertConstant(n, HandleTo(Cache, a, c))
  /\ UNCHANGED <<retained, entries, running, result, held>>

(* The lookup of a cacheable operation whose operand has been evaluated: an*)
(* unknown operand is hashed, and compared, as the SSA value it is.  A     *)
(* comparison asks for the candidate's operand, and one that can't is      *)
(* passed over.                                                            *)
Basis(n) == memo[Operand[n]].value
KeyOfValue(n) == <<Name[n], IF Basis(n) = Null THEN Null ELSE Hash(Basis(n))>>
Key(n) == <<Name[n], IF Basis(n) = Null THEN Operand[n] ELSE Hash(Basis(n))>>
SameOperand(n, m) ==
  \/ Operand[n] = Operand[m]
  \/ /\ memo[Operand[m]] # Null /\ Basis(n) # Null /\ Basis(m) # Null
     /\ IsEqual(Basis(n), Basis(m))
Matches(n, e) == e.key = Key(n) /\ (e.op = n \/ SameOperand(n, e.op))

Hit(n) ==
  /\ Asks(n) /\ memo[Operand[n]] # Null
  /\ \E e \in entries : Matches(n, e) /\ Memoize(n, e.slot, e.basis)
  /\ UNCHANGED <<heap, retained, entries, constants, running, result, held, births>>

Evaluate(n) ==
  /\ Asks(n) /\ memo[Operand[n]] # Null
  /\ \A e \in entries : ~Matches(n, e)
  /\ LET returns(value) == result' = [op |-> n, key |-> Key(n), value |-> value]
     IN \/ Makes[n] = {} /\ returns(Basis(n)) /\ UNCHANGED <<heap, births>>
        \/ \E a \in Addr, c \in Makes[n] :
             New(InQuery, a, c) /\ returns(HandleTo(InQuery, a, c))
  /\ UNCHANGED <<retained, entries, constants, running, memo, held>>

(* fill, with what evaluate returned                                       *)
Store ==
  /\ result # Null /\ result.value # Null
  /\ \E a \in Places(Cache, result.value) :
       LET slot == Kept(Cache, result.value, a)
           basis == Basis(result.op)
       IN /\ heap' = Copied(Cache, result.value, a)
          /\ retained' = Remembered(Cache, result.value, a)
          /\ entries' = entries \cup {[op |-> result.op, key |-> result.key,
                                       slot |-> slot, basis |-> basis]}
          /\ Memoize(result.op, slot, basis)
  /\ result' = Null
  /\ UNCHANGED <<constants, running, held, births>>

(* The cache is frozen, or the answer unknown.                             *)
Forgo ==
  /\ result # Null
  /\ Memoize(result.op, result.value, Basis(result.op)) /\ result' = Null
  /\ UNCHANGED <<heap, retained, entries, constants, running, held, births>>

EndQuery ==
  /\ running # Null /\ result = Null
  /\ \E n \in Node :
       /\ memo[n] # Null /\ memo[n].value # Null
       /\ \E a \in Places(running, memo[n].value) :
            /\ heap' = FreesOwner(Copied(running, memo[n].value, a), InQuery)
            /\ retained' = Remembered(running, memo[n].value, a)
            /\ held' = held \cup {[engine |-> running,
                                   value |-> Kept(running, memo[n].value, a)]}
  /\ running' = Null /\ memo' = NoMemo
  /\ UNCHANGED <<entries, constants, result, births>>

(* The answer is unknown, or a signal, which may come in the middle.       *)
EndWithoutValue ==
  /\ running # Null
  /\ heap' = FreesOwner(heap, InQuery)
  /\ running' = Null /\ memo' = NoMemo /\ result' = Null
  /\ UNCHANGED <<retained, entries, constants, held, births>>

-----------------------------------------------------------------------------
(* The host.                                                               *)

ClearCache ==
  /\ running = Null
  /\ entries' = {} /\ constants' = [a \in Attr |-> Null]
  /\ retained' = [retained EXCEPT ![Cache] = Empty]
  /\ UNCHANGED <<heap, running, memo, result, held, births>>

(* An engine takes its answers with it, and the host lets go of those it   *)
(* has: cached ones it may keep.  Another engine takes its place.          *)
Destroy(e) ==
  /\ running = Null
  /\ heap' = FreesOwner(heap, e)
  /\ retained' = [retained EXCEPT ![e] = Empty]
  /\ held' = {h \in held : h.engine # e \/ h.value.cached}
  /\ UNCHANGED <<entries, constants, running, memo, result, births>>

Init ==
  /\ heap = Empty /\ retained = [r \in Retainer |-> Empty]
  /\ entries = {} /\ constants = [a \in Attr |-> Null]
  /\ running = Null /\ memo = NoMemo /\ result = Null /\ held = {} /\ births = 0

Next ==
  \/ \E e \in Engine : BeginQuery(e) \/ Destroy(e)
  \/ \E n \in Source : Produce(n)
  \/ \E n \in Constant : ConstantHit(n) \/ ConstantMiss(n)
  \/ \E n \in Pure : Hit(n) \/ Evaluate(n)
  \/ Store \/ Forgo \/ EndQuery \/ EndWithoutValue \/ ClearCache

Spec == Init /\ [][Next]_vars

-----------------------------------------------------------------------------
TypeOK ==
  /\ heap \in [Addr -> Cell \cup {Null}]
  /\ retained \in [Retainer -> [Addr -> Addr \cup {Null}]]
  /\ \A e \in entries : /\ e.op \in Pure /\ e.slot \in Handle /\ e.basis \in Value
                        /\ e.key \in {Name[e.op]} \X (Addr \cup Content \cup Node)
  /\ constants \in [Attr -> [value : Value] \cup {Null}]
  /\ running \in Engine \cup {Null}
  /\ memo \in [Node -> [value : Value, basis : Value] \cup {Null}]
  /\ result # Null =>
       /\ result.op \in Pure /\ result.value \in Value
       /\ result.key \in {Name[result.op]} \X (Addr \cup Content \cup Node)
  /\ \A h \in held : h.engine \in Engine /\ h.value \in Handle
  /\ births \in Nat

(* A handle points to what it was made for, and knows whether the cache    *)
(* owns it.                                                                *)
Points(h) ==
  /\ heap[h.at] # Null
  /\ heap[h.at].content = h.content /\ heap[h.at].origin = h.origin
  /\ h.cached <=> heap[h.at].owner = Cache

(* An answer the host was given stays what it was: through later queries,  *)
(* which use the addresses of earlier ones again, through clearing the     *)
(* cache, and a cached one through the end of the engine that gave it.     *)
(* EvalContext.h: "answers borrowing them never dangle".                   *)
HeldLive == \A h \in held : Points(h.value)

(* Storage lives as long as it is needed: a query's to its end, an engine's*)
(* for exactly the answers it gave (test/EngineLifetime.cpp counts them).  *)
(* That of the cache lives as long as the context, cleared or not.         *)
NoLeak ==
  \A a \in Addr : heap[a] # Null =>
    /\ heap[a].owner = InQuery => running # Null
    /\ heap[a].owner \in Engine =>
         \E h \in held : h.engine = heap[a].owner /\ h.value.at = a

(* What the cache keeps is in its own storage and is what was stored: a    *)
(* retention never takes a value for another one that had its address.     *)
SlotsLive ==
  /\ \A e \in entries : e.slot.cached /\ Points(e.slot)
  /\ \A a \in Attr : constants[a] # Null /\ constants[a].value # Null =>
                       constants[a].value.cached /\ Points(constants[a].value)

(* A value stored in several slots is one cached instance, so identity     *)
(* still tells instances apart after they are copied.                      *)
OneCopy ==
  \A a, b \in Addr :
    /\ heap[a] # Null /\ heap[b] # Null
    /\ heap[a].owner = Cache /\ heap[b].owner = Cache
    /\ heap[a].origin = heap[b].origin
    => a = b

(* Equal as values, now and when the entry was made.                       *)
SameValue(g, h) ==
  IF g = Null \/ h = Null THEN g = h
  ELSE g.content = h.content /\ (g.content \in Opaque => g.origin = h.origin)
Answered(n) == memo[n] # Null /\ memo[Operand[n]] # Null

(* An operation is answered from an entry only if that was computed from an*)
(* operand equal to its own.  The exception is an entry whose operand was  *)
(* an instance of the query's: its address may belong to another one now.  *)
KeysHold ==
  \A n \in Pure : Answered(n) =>
    \/ SameValue(memo[n].basis, Basis(n))
    \/ memo[n].basis # Null /\ memo[n].basis.content \in Opaque
       /\ ~memo[n].basis.cached

(* The same without the exception, as the tests say of a class that keeps  *)
(* the identity hash and isEqual: "a key holding one matches only the same *)
(* instance" (test/EvalCache.cpp:46).                                      *)
KeyHoldsInstance ==
  \A n \in Pure : Answered(n) => SameValue(memo[n].basis, Basis(n))
=============================================================================
