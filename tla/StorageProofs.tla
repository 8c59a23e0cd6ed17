--------------------------- MODULE StorageProofs ---------------------------
(***************************************************************************)
(* No handle of Storage ever dangles, for any number of engines, addresses,*)
(* operations and values.                                                  *)
(***************************************************************************)
EXTENDS Storage, TLAPS

(* Between queries nothing of a query is left.                             *)
Idle == running = Null => memo = NoMemo /\ result = Null

(* What a query works on is the cache's or its own.                        *)
QueryLive ==
  /\ \A n \in Node : memo[n] # Null /\ memo[n].value # Null =>
       /\ Points(memo[n].value)
       /\ ~memo[n].value.cached => heap[memo[n].value.at].owner = InQuery
  /\ result # Null /\ result.value # Null =>
       /\ Points(result.value)
       /\ ~result.value.cached => heap[result.value.at].owner = InQuery

HeldOwned ==
  \A h \in held :
    /\ Points(h.value)
    /\ ~h.value.cached => heap[h.value.at].owner = h.engine

(* What a retention remembers in this query is a copy it made.             *)
IsCopyOf(r, a, b) ==
  /\ heap[a] # Null /\ heap[b] # Null
  /\ heap[b].owner = r
  /\ heap[b].content = heap[a].content /\ heap[b].origin = heap[a].origin
RetainedLive ==
  running # Null =>
    \A r \in {Cache, running} : \A a \in Addr :
      retained[r][a] # Null => IsCopyOf(r, a, retained[r][a])

(* Evaluation finds the operand evaluated and the operation not.           *)
ResultPending ==
  result # Null => memo[result.op] = Null /\ memo[Operand[result.op]] # Null

LiveInv ==
  /\ TypeOK /\ Idle /\ QueryLive /\ HeldOwned /\ SlotsLive /\ RetainedLive
  /\ NoLeak /\ ResultPending

-----------------------------------------------------------------------------
(* Storage that lives is not changed.                                      *)
Grows == \A a \in Addr : heap[a] # Null => heap'[a] = heap[a]

LEMMA PointsGrows ==
  ASSUME NEW h, h.at \in Addr, Points(h), Grows
  PROVE  Points(h)' /\ heap'[h.at] = heap[h.at]
BY DEF Points, Grows

(* The cells New and Copied make, and the handles to them.                 *)
Made(owner, a, c, h) ==
  /\ heap' \in [Addr -> Cell \cup {Null}] /\ births' \in Nat
  /\ Grows
  /\ heap'[a] = [owner |-> owner, content |-> c, origin |-> births]
  /\ \A b \in Addr : b # a => heap'[b] = heap[b]
  /\ heap[a] = Null /\ heap'[a] # Null
  /\ h \in Handle /\ h # Null /\ Points(h)'
  /\ h.at = a /\ heap'[a].owner = owner
  /\ owner = Cache => h.cached

LEMMA NewCell ==
  ASSUME TypeOK, NEW owner \in {Cache, InQuery}, NEW a \in Addr,
         NEW c \in Content, New(owner, a, c),
         NEW h, h = HandleTo(owner, a, c)
  PROVE  Made(owner, a, c, h)
<1> DEFINE cell == [owner |-> owner, content |-> c, origin |-> births]
<1>1. cell \in Cell /\ cell # Null
  BY NullAssumption DEF TypeOK, Cell, Owner, Retainer
<1>2. h \in Handle /\ h # Null
  <2>1. PICK bit \in BOOLEAN : bit = (owner = Cache)
    OBVIOUS
  <2>2. h = [at |-> a, cached |-> bit, content |-> c, origin |-> births]
    BY <2>1, Zenon DEF HandleTo
  <2>3. h \in Handle
    BY <2>2 DEF Handle, TypeOK
  <2> QED BY <2>3, NullAssumption
<1>3. /\ h.at = a /\ h.content = c /\ h.origin = births
      /\ h.cached <=> owner = Cache
  BY DEF HandleTo
<1>4. heap' = [heap EXCEPT ![a] = cell] /\ a \in Free /\ births' = births + 1
  BY DEF New
<1>5. heap' \in [Addr -> Cell \cup {Null}] /\ births' \in Nat /\ heap'[a] = cell
  BY <1>1, <1>4 DEF TypeOK
<1>6. heap[a] = Null /\ \A b \in Addr : b # a => heap'[b] = heap[b]
  BY <1>4 DEF TypeOK, Free
<1>7. Grows
  BY <1>6 DEF Grows
<1>8. Points(h)'
  BY <1>1, <1>3, <1>5 DEF Points
<1>9. heap'[a].owner = owner
  BY <1>5
<1> QED
  BY <1>1, <1>2, <1>3, <1>5, <1>6, <1>7, <1>8, <1>9 DEF Made

LEMMA CopyMade ==
  ASSUME TypeOK, NEW r \in Retainer, NEW h \in Handle, NEW a \in Places(r, h),
         Points(h), \A b \in Addr : retained[r][b] # Null =>
                                      IsCopyOf(r, b, retained[r][b])
  PROVE  /\ a \in Addr
         /\ Copied(r, h, a) \in [Addr -> Cell \cup {Null}]
         /\ Remembered(r, h, a) \in [Retainer -> [Addr -> Addr \cup {Null}]]
         /\ \A b \in Addr : heap[b] # Null => Copied(r, h, a)[b] = heap[b]
         /\ \A b \in Addr : b # a => Copied(r, h, a)[b] = heap[b]
         /\ Copied(r, h, a)[a] # Null
         /\ Copied(r, h, a)[a].content = h.content
         /\ Copied(r, h, a)[a].origin = h.origin
         /\ ~h.cached => Copied(r, h, a)[a].owner = r
         /\ h.cached => Copied(r, h, a)[a].owner = Cache
         /\ Kept(r, h, a) \in Handle
         /\ Kept(r, h, a).at = a /\ Kept(r, h, a).content = h.content
         /\ Kept(r, h, a).origin = h.origin
         /\ Kept(r, h, a).cached <=> h.cached \/ r = Cache
<1>h. h.at \in Addr /\ h.cached \in BOOLEAN
  BY DEF Handle
<1>k. ASSUME a \in Addr
      PROVE  /\ Kept(r, h, a) \in Handle
             /\ Kept(r, h, a).at = a /\ Kept(r, h, a).content = h.content
             /\ Kept(r, h, a).origin = h.origin
             /\ Kept(r, h, a).cached <=> h.cached \/ r = Cache
  BY <1>k DEF Kept, Handle
<1>1. CASE NeedsCopy(r, h)
  <2>1. a \in Addr /\ heap[a] = Null
    BY <1>1 DEF Places, Free
  <2>2. Clone(r, h) \in Cell /\ Clone(r, h) # Null
        /\ Clone(r, h).owner = r /\ Clone(r, h).content = h.content
        /\ Clone(r, h).origin = h.origin
    <3>1. heap[h.at] \in Cell
      BY <1>h DEF TypeOK, Points
    <3> QED BY <3>1, NullAssumption DEF Clone, Cell, Points, Owner
  <2>3. h.cached = FALSE
    BY <1>1, <1>h DEF NeedsCopy
  <2> QED BY <1>1, <1>h, <1>k, <2>1, <2>2, <2>3 DEF Copied, Remembered, TypeOK
<1>2. CASE ~NeedsCopy(r, h) /\ h.cached
  <2>1. a = h.at
    BY <1>2 DEF Places
  <2> QED BY <1>2, <1>h, <1>k, <2>1 DEF Copied, Remembered, TypeOK, Points
<1>3. CASE ~NeedsCopy(r, h) /\ ~h.cached
  <2>1. retained[r][h.at] # Null /\ a = retained[r][h.at]
    BY <1>3 DEF NeedsCopy, IsCopied, Places
  <2>2. a \in Addr
    BY <2>1, <1>h DEF TypeOK
  <2>3. IsCopyOf(r, h.at, a)
    BY <2>1, <1>h
  <2> QED BY <1>3, <1>h, <1>k, <2>1, <2>2, <2>3
          DEF Copied, Remembered, TypeOK, Points, IsCopyOf
<1> QED BY <1>1, <1>2, <1>3

-----------------------------------------------------------------------------
(* What an action that only allocates, or does not touch storage, keeps.   *)
QueryOwned(h) == ~h.cached => heap[h.at].owner = InQuery

LEMMA GrowKeeps ==
  ASSUME LiveInv, Grows
  PROVE  /\ held' = held => HeldOwned'
         /\ UNCHANGED <<entries, constants>> => SlotsLive'
         /\ UNCHANGED <<retained, running>> => RetainedLive'
         /\ \A n \in Node : memo[n] # Null /\ memo[n].value # Null =>
              heap'[memo[n].value.at] = heap[memo[n].value.at]
         /\ result # Null /\ result.value # Null =>
              heap'[result.value.at] = heap[result.value.at]
<1>1. \A h \in Handle : Points(h) => heap'[h.at] = heap[h.at]
  BY DEF Handle, Points, Grows
<1>2. held' = held => HeldOwned'
  BY <1>1 DEF LiveInv, TypeOK, HeldOwned, Points
<1>3. UNCHANGED <<entries, constants>> => SlotsLive'
  <2>1. ASSUME UNCHANGED <<entries, constants>>, NEW e \in entries
        PROVE  e.slot.cached /\ Points(e.slot)'
    BY <1>1, <2>1 DEF LiveInv, TypeOK, SlotsLive, Points
  <2>2. ASSUME UNCHANGED <<entries, constants>>, NEW a \in Attr,
               constants[a] # Null, constants[a].value # Null
        PROVE  constants[a].value.cached /\ Points(constants[a].value)'
    <3>1. constants[a].value \in Handle
      BY <2>2 DEF LiveInv, TypeOK, Value
    <3> QED BY <1>1, <2>2, <3>1 DEF LiveInv, SlotsLive, Points
  <2> QED BY <2>1, <2>2 DEF SlotsLive
<1>4. UNCHANGED <<retained, running>> => RetainedLive'
  BY DEF LiveInv, TypeOK, RetainedLive, IsCopyOf, Grows, Retainer
<1>5. ASSUME NEW n \in Node, memo[n] # Null, memo[n].value # Null
      PROVE  heap'[memo[n].value.at] = heap[memo[n].value.at]
  <2>1. memo[n].value \in Handle
    BY <1>5 DEF LiveInv, TypeOK, Value
  <2> QED BY <1>1, <1>5, <2>1 DEF LiveInv, QueryLive
<1>6. ASSUME result # Null, result.value # Null
      PROVE  heap'[result.value.at] = heap[result.value.at]
  <2>1. result.value \in Handle
    BY <1>6 DEF LiveInv, TypeOK, Value
  <2> QED BY <1>1, <1>6, <2>1 DEF LiveInv, QueryLive
<1> QED BY <1>2, <1>3, <1>4, <1>5, <1>6

LEMMA BeginQueryLive ==
  ASSUME LiveInv, NEW e \in Engine, BeginQuery(e)
  PROVE  LiveInv'
<1> USE DEF LiveInv, BeginQuery
<1>1. e # Null
  BY NullAssumption
<1>2. TypeOK'
  <2>1. retained' \in [Retainer -> [Addr -> Addr \cup {Null}]]
    BY DEF TypeOK, BeginRetaining, Empty
  <2> QED BY <2>1 DEF TypeOK
<1>3. Idle'
  BY <1>1 DEF Idle
<1>4. QueryLive' /\ HeldOwned' /\ SlotsLive' /\ ResultPending'
  BY DEF QueryLive, HeldOwned, SlotsLive, Points, ResultPending
<1>5. RetainedLive'
  BY DEF RetainedLive, BeginRetaining, Empty, TypeOK, Retainer
<1>6. NoLeak'
  BY <1>1 DEF NoLeak
<1> QED BY <1>2, <1>3, <1>4, <1>5, <1>6

(* A query's answer: the memo gains n.                                     *)
LEMMA MemoizeKeeps ==
  ASSUME LiveInv, Grows, running' = running, running # Null,
         NEW n \in Node, memo[n] = Null,
         NEW value \in Value, NEW basis \in Value, Memoize(n, value, basis),
         value # Null => Points(value)' /\ QueryOwned(value)',
         held' = held,
         \/ UNCHANGED <<result>> /\ result = Null
         \/ result' = Null
  PROVE  /\ memo' \in [Node -> [value : Value, basis : Value] \cup {Null}]
         /\ Idle' /\ QueryLive' /\ HeldOwned' /\ ResultPending'
         /\ retained' = retained => RetainedLive'
<1>1. result' = Null
  OBVIOUS
<1>2. [value |-> value, basis |-> basis] \in [value : Value, basis : Value]
  OBVIOUS
<1>3. memo' \in [Node -> [value : Value, basis : Value] \cup {Null}]
  BY <1>2 DEF LiveInv, TypeOK, Memoize
<1>4. QueryLive'
  <2>1. ASSUME NEW m \in Node, memo'[m] # Null, memo'[m].value # Null
        PROVE  (Points(memo[m].value) /\ QueryOwned(memo[m].value))'
    <3>1. CASE m = n
      <4>1. memo'[n].value = value
        BY <1>3 DEF LiveInv, TypeOK, Memoize
      <4> QED BY <2>1, <3>1, <4>1 DEF Points, QueryOwned
    <3>2. CASE m # n
      <4>1. memo'[m] = memo[m]
        BY <3>2 DEF LiveInv, TypeOK, Memoize
      <4>2. heap'[memo[m].value.at] = heap[memo[m].value.at]
        BY <2>1, <4>1, GrowKeeps
      <4> QED BY <2>1, <4>1, <4>2 DEF LiveInv, QueryLive, Points, QueryOwned
    <3> QED BY <3>1, <3>2
  <2> QED BY <1>1, <2>1 DEF QueryLive, Points, QueryOwned
<1>5. HeldOwned' /\ (retained' = retained => RetainedLive')
  BY GrowKeeps
<1> QED BY <1>1, <1>3, <1>4, <1>5 DEF Idle, ResultPending

LEMMA ProduceLive ==
  ASSUME LiveInv, NEW n \in Source, Produce(n)
  PROVE  LiveInv'
<1>1. PICK a \in Addr, c \in Makes[n] :
        New(InQuery, a, c) /\ Memoize(n, HandleTo(InQuery, a, c), Null)
  BY DEF Produce
<1>2. PICK h : h = HandleTo(InQuery, a, c)
  OBVIOUS
<1>3. c \in Content /\ n \in Node
  BY ProgramAssumption DEF Node
<1>4. /\ heap' \in [Addr -> Cell \cup {Null}] /\ births' \in Nat /\ Grows
      /\ heap'[a].owner = InQuery /\ \A b \in Addr : b # a => heap'[b] = heap[b]
      /\ h \in Handle /\ Points(h)'
  <2>1. TypeOK /\ InQuery \in {Cache, InQuery} /\ New(InQuery, a, c)
    BY <1>1 DEF LiveInv
  <2>2. Made(InQuery, a, c, h)
    BY <1>2, <1>3, <2>1, NewCell
  <2> QED BY <2>2 DEF Made
<1>5. QueryOwned(h)'
  BY <1>2, <1>4 DEF QueryOwned, HandleTo
<1>6. h \in Value /\ Null \in Value
  BY <1>4 DEF Value
<1>7. /\ running' = running /\ running # Null /\ memo[n] = Null /\ result = Null
      /\ UNCHANGED <<retained, entries, constants, result, held>>
  BY DEF Produce, Asks
<1>8. /\ memo' \in [Node -> [value : Value, basis : Value] \cup {Null}]
      /\ Idle' /\ QueryLive' /\ HeldOwned' /\ ResultPending' /\ RetainedLive'
  BY <1>1, <1>2, <1>3, <1>4, <1>5, <1>6, <1>7, MemoizeKeeps
<1>9. TypeOK'
  BY <1>4, <1>7, <1>8 DEF LiveInv, TypeOK
<1>10. SlotsLive'
  BY <1>4, <1>7, GrowKeeps
<1>11. NoLeak'
  BY <1>4, <1>7, OwnerAssumption DEF LiveInv, NoLeak
<1> QED BY <1>8, <1>9, <1>10, <1>11 DEF LiveInv

LEMMA ConstantHitLive ==
  ASSUME LiveInv, NEW n \in Constant, ConstantHit(n)
  PROVE  LiveInv'
<1> DEFINE stored == constants[AttrOf[n]]
<1>1. n \in Node /\ AttrOf[n] \in Attr
  BY ProgramAssumption DEF Node
<1>2. PICK h : h = stored.value
  OBVIOUS
<1>3. h \in Value /\ (h # Null => h.cached /\ Points(h)) /\ Null \in Value
  BY <1>1, <1>2 DEF ConstantHit, LiveInv, TypeOK, SlotsLive, Value
<1>4. Grows
  BY DEF Grows, ConstantHit
<1>5. h # Null => Points(h)' /\ QueryOwned(h)'
  BY <1>3 DEF ConstantHit, Points, QueryOwned
<1>6. Memoize(n, h, Null)
  BY <1>2 DEF ConstantHit
<1>7. /\ running' = running /\ running # Null /\ memo[n] = Null /\ result = Null
      /\ UNCHANGED <<heap, births, retained, entries, constants, result, held>>
  BY DEF ConstantHit, Asks
<1>8. /\ memo' \in [Node -> [value : Value, basis : Value] \cup {Null}]
      /\ Idle' /\ QueryLive' /\ HeldOwned' /\ ResultPending' /\ RetainedLive'
  BY <1>1, <1>3, <1>4, <1>5, <1>6, <1>7, MemoizeKeeps
<1>9. TypeOK'
  BY <1>7, <1>8 DEF LiveInv, TypeOK
<1>10. SlotsLive' /\ NoLeak'
  BY <1>7 DEF LiveInv, SlotsLive, NoLeak, Points
<1> QED BY <1>8, <1>9, <1>10 DEF LiveInv

LEMMA ConstantMissLive ==
  ASSUME LiveInv, NEW n \in Constant, ConstantMiss(n)
  PROVE  LiveInv'
<1>1. n \in Node /\ AttrOf[n] \in Attr /\ Null \in Value
  BY ProgramAssumption DEF Node, Value
<1>2. /\ running' = running /\ running # Null /\ memo[n] = Null /\ result = Null
      /\ UNCHANGED <<retained, entries, result, held>>
  BY DEF ConstantMiss, Asks
<1>3. PICK h : /\ InsertConstant(n, h)
               /\ \/ h = Null /\ UNCHANGED <<heap, births>>
                  \/ \E a \in Addr, c \in Converts[AttrOf[n]] :
                       New(Cache, a, c) /\ h = HandleTo(Cache, a, c)
  BY DEF ConstantMiss
<1>4. /\ heap' \in [Addr -> Cell \cup {Null}] /\ births' \in Nat /\ Grows
      /\ h \in Value
      /\ h # Null => h.cached /\ Points(h)'
      /\ \A b \in Addr : heap'[b] = heap[b] \/ heap'[b].owner = Cache
  <2>1. CASE h = Null /\ UNCHANGED <<heap, births>>
    BY <2>1, <1>1 DEF LiveInv, TypeOK, Grows
  <2>2. CASE \E a \in Addr, c \in Converts[AttrOf[n]] :
               New(Cache, a, c) /\ h = HandleTo(Cache, a, c)
    <3>1. PICK a \in Addr, c \in Converts[AttrOf[n]] :
            New(Cache, a, c) /\ h = HandleTo(Cache, a, c)
      BY <2>2
    <3>2. TypeOK /\ Cache \in {Cache, InQuery} /\ c \in Content
      BY <1>1, ProgramAssumption DEF LiveInv
    <3>3. Made(Cache, a, c, h)
      BY <3>1, <3>2, NewCell
    <3> QED BY <3>3 DEF Made, Value
  <2> QED BY <1>3, <2>1, <2>2
<1>5. h # Null => Points(h)' /\ QueryOwned(h)'
  BY <1>4 DEF QueryOwned
<1>6. Memoize(n, h, Null)
  BY <1>3 DEF InsertConstant
<1>7. /\ memo' \in [Node -> [value : Value, basis : Value] \cup {Null}]
      /\ Idle' /\ QueryLive' /\ HeldOwned' /\ ResultPending' /\ RetainedLive'
  <2>1. memo[n] = Null
    BY DEF ConstantMiss, Asks
  <2> QED BY <1>1, <1>2, <1>4, <1>5, <1>6, <2>1, MemoizeKeeps
<1>8. constants' = [constants EXCEPT ![AttrOf[n]] = [value |-> h]]
  BY <1>3 DEF InsertConstant
<1>9. TypeOK'
  <2>1. [value |-> h] \in [value : Value]
    BY <1>4
  <2>2. constants' \in [Attr -> [value : Value] \cup {Null}]
    BY <1>1, <1>8, <2>1 DEF LiveInv, TypeOK
  <2> QED BY <1>2, <1>4, <1>7, <2>2 DEF LiveInv, TypeOK
<1>10. SlotsLive'
  <2>1. ASSUME NEW e \in entries
        PROVE  e.slot.cached /\ Points(e.slot)'
    <3>1. e.slot \in Handle /\ e.slot.at \in Addr /\ Points(e.slot) /\ e.slot.cached
      BY DEF LiveInv, TypeOK, SlotsLive, Handle
    <3> QED BY <3>1, <1>4, PointsGrows
  <2>2. ASSUME NEW x \in Attr, constants'[x] # Null, constants'[x].value # Null
        PROVE  (constants[x].value.cached /\ Points(constants[x].value))'
    <3>1. CASE x = AttrOf[n]
      <4>1. constants'[x].value = h
        BY <1>8, <3>1 DEF LiveInv, TypeOK
      <4> QED BY <4>1, <2>2, <1>4 DEF Points
    <3>2. CASE x # AttrOf[n]
      <4>1. constants'[x] = constants[x]
        BY <1>8, <3>2 DEF LiveInv, TypeOK
      <4>2. PICK g : g = constants[x].value
        OBVIOUS
      <4>3. g \in Handle /\ g.at \in Addr /\ Points(g) /\ g.cached
        BY <2>2, <4>1, <4>2 DEF LiveInv, TypeOK, SlotsLive, Value, Handle
      <4>4. Points(g)'
        BY <4>3, <1>4, PointsGrows
      <4> QED BY <4>1, <4>2, <4>3, <4>4 DEF Points
    <3> QED BY <3>1, <3>2
  <2> QED BY <1>2, <2>1, <2>2 DEF SlotsLive
<1>11. NoLeak'
  BY <1>2, <1>4, OwnerAssumption DEF LiveInv, NoLeak
<1> QED BY <1>7, <1>9, <1>10, <1>11 DEF LiveInv

LEMMA HitLive ==
  ASSUME LiveInv, NEW n \in Pure, Hit(n)
  PROVE  LiveInv'
<1>1. PICK e \in entries : Memoize(n, e.slot, e.basis)
  BY DEF Hit
<1>2. PICK h, g : h = e.slot /\ g = e.basis
  OBVIOUS
<1>3. h \in Value /\ g \in Value /\ h.cached /\ Points(h) /\ n \in Node
  BY <1>2 DEF LiveInv, TypeOK, SlotsLive, Value, Node
<1>4. Grows
  BY DEF Grows, Hit
<1>5. Points(h)' /\ QueryOwned(h)'
  BY <1>3 DEF Hit, Points, QueryOwned
<1>6. Memoize(n, h, g)
  BY <1>1, <1>2
<1>7. /\ running' = running /\ running # Null /\ memo[n] = Null /\ result = Null
      /\ UNCHANGED <<heap, births, retained, entries, constants, result, held>>
  BY DEF Hit, Asks
<1>8. /\ memo' \in [Node -> [value : Value, basis : Value] \cup {Null}]
      /\ Idle' /\ QueryLive' /\ HeldOwned' /\ ResultPending' /\ RetainedLive'
  BY <1>3, <1>4, <1>5, <1>6, <1>7, MemoizeKeeps
<1>9. TypeOK'
  BY <1>7, <1>8 DEF LiveInv, TypeOK
<1>10. SlotsLive' /\ NoLeak'
  BY <1>7 DEF LiveInv, SlotsLive, NoLeak, Points
<1> QED BY <1>8, <1>9, <1>10 DEF LiveInv

LEMMA EvaluateLive ==
  ASSUME LiveInv, NEW n \in Pure, Evaluate(n)
  PROVE  LiveInv'
<1>1. /\ running' = running /\ running # Null /\ memo[n] = Null /\ result = Null
      /\ memo[Operand[n]] # Null
      /\ UNCHANGED <<retained, entries, constants, memo, held>>
  BY DEF Evaluate, Asks
<1>2. n \in Node /\ Operand[n] \in Node
  BY ProgramAssumption DEF Node
<1>3. PICK b : b = Basis(n)
  OBVIOUS
<1>4. /\ b \in Value
      /\ b # Null => b \in Handle /\ b.at \in Addr /\ Points(b) /\ QueryOwned(b)
  BY <1>1, <1>2, <1>3
     DEF LiveInv, TypeOK, QueryLive, Basis, Value, Handle, QueryOwned
<1>5. Key(n) \in {Name[n]} \X (Addr \cup Content \cup Node)
  <2>1. b # Null => Hash(b) \in Addr \cup Content
    <3>1. ASSUME b # Null
          PROVE  heap[b.at] \in Cell /\ b.at \in Addr
      BY <1>4, <3>1 DEF LiveInv, TypeOK, Points
    <3> QED BY <3>1 DEF Hash, Stands, Cell
  <2> QED BY <1>2, <1>3, <2>1 DEF Key
<1>6. PICK h : /\ result' = [op |-> n, key |-> Key(n), value |-> h]
               /\ \/ h = b /\ UNCHANGED <<heap, births>>
                  \/ \E a \in Addr, c \in Makes[n] :
                       New(InQuery, a, c) /\ h = HandleTo(InQuery, a, c)
  BY <1>3 DEF Evaluate
<1>7. /\ heap' \in [Addr -> Cell \cup {Null}] /\ births' \in Nat /\ Grows
      /\ h \in Value
      /\ h # Null => Points(h)' /\ QueryOwned(h)'
      /\ \A x \in Addr : heap'[x] = heap[x] \/ heap'[x].owner = InQuery
  <2>1. CASE h = b /\ UNCHANGED <<heap, births>>
    BY <2>1, <1>4 DEF LiveInv, TypeOK, Grows, Points, QueryOwned
  <2>2. CASE \E a \in Addr, c \in Makes[n] :
               New(InQuery, a, c) /\ h = HandleTo(InQuery, a, c)
    <3>1. PICK a \in Addr, c \in Makes[n] :
            New(InQuery, a, c) /\ h = HandleTo(InQuery, a, c)
      BY <2>2
    <3>2. TypeOK /\ InQuery \in {Cache, InQuery} /\ c \in Content
      BY ProgramAssumption DEF LiveInv
    <3>3. Made(InQuery, a, c, h)
      BY <3>1, <3>2, NewCell
    <3> QED BY <3>3 DEF Made, Value, QueryOwned
  <2> QED BY <1>6, <2>1, <2>2
<1>8. result'.op = n /\ result'.key = Key(n) /\ result'.value = h
  BY <1>6
<1>9. TypeOK'
  BY <1>1, <1>5, <1>7, <1>8 DEF LiveInv, TypeOK
<1>10. QueryLive'
  <2>1. ASSUME NEW m \in Node, memo[m] # Null, memo[m].value # Null
        PROVE  Points(memo[m].value)' /\ QueryOwned(memo[m].value)'
    <3>1. heap'[memo[m].value.at] = heap[memo[m].value.at]
      BY <2>1, <1>7, GrowKeeps
    <3> QED BY <1>1, <2>1, <3>1 DEF LiveInv, QueryLive, Points, QueryOwned
  <2>2. result'.value # Null =>
          (Points(result.value) /\ QueryOwned(result.value))'
    BY <1>7, <1>8 DEF Points, QueryOwned
  <2> QED BY <1>1, <2>1, <2>2 DEF QueryLive, Points, QueryOwned
<1>11. HeldOwned' /\ SlotsLive' /\ RetainedLive'
  BY <1>1, <1>7, GrowKeeps
<1>12. NoLeak'
  BY <1>1, <1>7, OwnerAssumption DEF LiveInv, NoLeak
<1>13. Idle' /\ ResultPending'
  BY <1>1, <1>8 DEF Idle, ResultPending
<1> QED BY <1>9, <1>10, <1>11, <1>12, <1>13 DEF LiveInv

LEMMA ForgoLive ==
  ASSUME LiveInv, Forgo
  PROVE  LiveInv'
<1>1. PICK n, h : n = result.op /\ h = result.value
  OBVIOUS
<1>2. /\ n \in Pure /\ n \in Node /\ Operand[n] \in Node /\ memo[n] = Null
      /\ memo[Operand[n]] # Null /\ result # Null
  BY <1>1, ProgramAssumption DEF LiveInv, TypeOK, Forgo, ResultPending, Node
<1>3. PICK b : b = Basis(n)
  OBVIOUS
<1>4. b \in Value /\ h \in Value /\ Memoize(n, h, b)
  BY <1>1, <1>2, <1>3 DEF LiveInv, TypeOK, Basis, Forgo
<1>5. Grows
  BY DEF Grows, Forgo
<1>6. h # Null => Points(h)' /\ QueryOwned(h)'
  BY <1>1, <1>2 DEF LiveInv, QueryLive, Forgo, Points, QueryOwned
<1>7. /\ UNCHANGED <<heap, births, running, retained, entries, constants, held>>
      /\ running # Null /\ result' = Null
  BY <1>2 DEF Forgo, LiveInv, Idle
<1>8. /\ memo' \in [Node -> [value : Value, basis : Value] \cup {Null}]
      /\ Idle' /\ QueryLive' /\ HeldOwned' /\ ResultPending' /\ RetainedLive'
  BY <1>2, <1>4, <1>5, <1>6, <1>7, MemoizeKeeps
<1>9. TypeOK'
  BY <1>7, <1>8 DEF LiveInv, TypeOK
<1>10. SlotsLive' /\ NoLeak'
  BY <1>7 DEF LiveInv, SlotsLive, NoLeak, Points
<1> QED BY <1>8, <1>9, <1>10 DEF LiveInv

(* What an owner other than the cache frees is in no slot.                 *)
LEMMA FreesSlots ==
  ASSUME LiveInv, NEW owner \in Engine \cup {InQuery},
         \A a \in Addr : heap[a] # Null /\ heap[a].owner # owner =>
           heap'[a] = heap[a],
         UNCHANGED <<entries, constants>>
  PROVE  SlotsLive'
<1>1. owner # Cache
  BY OwnerAssumption DEF Cache, InQuery
<1>2. ASSUME NEW h \in Handle, h.cached, Points(h)
      PROVE  Points(h)'
  <2>1. h.at \in Addr /\ heap'[h.at] = heap[h.at]
    BY <1>1, <1>2 DEF Points, Handle
  <2> QED BY <1>2, <2>1 DEF Points
<1>3. \A e \in entries : e.slot.cached /\ Points(e.slot)'
  BY <1>2 DEF LiveInv, TypeOK, SlotsLive
<1>4. ASSUME NEW x \in Attr, constants[x] # Null, constants[x].value # Null
      PROVE  constants[x].value.cached /\ Points(constants[x].value)'
  <2>1. constants[x].value \in Handle
    BY <1>4 DEF LiveInv, TypeOK, Value
  <2> QED BY <1>2, <1>4, <2>1 DEF LiveInv, SlotsLive
<1> QED BY <1>3, <1>4 DEF SlotsLive, Points

LEMMA EndWithoutValueLive ==
  ASSUME LiveInv, EndWithoutValue
  PROVE  LiveInv'
<1>1. /\ running' = Null /\ memo' = NoMemo /\ result' = Null
      /\ heap' = FreesOwner(heap, InQuery)
      /\ UNCHANGED <<retained, entries, constants, held, births>>
  BY DEF EndWithoutValue
<1>2. /\ heap' \in [Addr -> Cell \cup {Null}]
      /\ \A a \in Addr : heap[a] # Null /\ heap[a].owner # InQuery =>
           heap'[a] = heap[a]
      /\ \A a \in Addr : heap'[a] # Null =>
           heap'[a] = heap[a] /\ heap[a].owner # InQuery
  BY <1>1 DEF FreesOwner, LiveInv, TypeOK
<1>3. TypeOK'
  BY <1>1, <1>2 DEF LiveInv, TypeOK, NoMemo
<1>4. Idle' /\ QueryLive' /\ RetainedLive' /\ ResultPending'
  BY <1>1 DEF Idle, QueryLive, RetainedLive, ResultPending, NoMemo
<1>5. HeldOwned'
  <2>1. ASSUME NEW h \in held
        PROVE  Points(h.value)' /\ (~h.value.cached => heap'[h.value.at].owner = h.engine)
    <3>1. Points(h.value) /\ h.value.at \in Addr /\ heap[h.value.at].owner # InQuery
      BY OwnerAssumption
         DEF LiveInv, TypeOK, HeldOwned, Points, Handle, Cache, InQuery
    <3>2. heap'[h.value.at] = heap[h.value.at]
      BY <1>2, <3>1 DEF Points
    <3> QED BY <3>1, <3>2 DEF LiveInv, HeldOwned, Points
  <2> QED BY <1>1, <2>1 DEF HeldOwned
<1>6. SlotsLive'
  BY <1>1, <1>2, FreesSlots
<1>7. NoLeak'
  BY <1>1, <1>2 DEF LiveInv, NoLeak
<1> QED BY <1>3, <1>4, <1>5, <1>6, <1>7 DEF LiveInv

LEMMA ClearCacheLive ==
  ASSUME LiveInv, ClearCache
  PROVE  LiveInv'
<1> USE DEF LiveInv, ClearCache
<1>1. TypeOK'
  <2>1. retained' \in [Retainer -> [Addr -> Addr \cup {Null}]]
    BY DEF TypeOK, Empty
  <2>2. constants' \in [Attr -> [value : Value] \cup {Null}]
    BY DEF TypeOK
  <2> QED BY <2>1, <2>2 DEF TypeOK
<1>2. Idle' /\ QueryLive' /\ HeldOwned' /\ ResultPending' /\ NoLeak'
  BY DEF Idle, QueryLive, HeldOwned, Points, ResultPending, NoLeak
<1>3. SlotsLive'
  BY DEF SlotsLive
<1>4. RetainedLive'
  BY DEF RetainedLive
<1> QED BY <1>1, <1>2, <1>3, <1>4

LEMMA DestroyLive ==
  ASSUME LiveInv, NEW e \in Engine, Destroy(e)
  PROVE  LiveInv'
<1>1. /\ running = Null /\ running' = Null /\ memo' = NoMemo /\ result' = Null
      /\ heap' = FreesOwner(heap, e)
      /\ retained' = [retained EXCEPT ![e] = Empty]
      /\ held' = {h \in held : h.engine # e \/ h.value.cached}
      /\ UNCHANGED <<entries, constants, births>>
  BY DEF Destroy, LiveInv, Idle
<1>2. /\ heap' \in [Addr -> Cell \cup {Null}]
      /\ \A a \in Addr : heap[a] # Null /\ heap[a].owner # e =>
           heap'[a] = heap[a]
      /\ \A a \in Addr : heap'[a] # Null =>
           heap'[a] = heap[a] /\ heap[a].owner # e
  BY <1>1 DEF FreesOwner, LiveInv, TypeOK
<1>3. TypeOK'
  <2>1. retained' \in [Retainer -> [Addr -> Addr \cup {Null}]]
    BY <1>1 DEF LiveInv, TypeOK, Empty
  <2> QED BY <1>1, <1>2, <2>1 DEF LiveInv, TypeOK, NoMemo
<1>4. Idle' /\ QueryLive' /\ RetainedLive' /\ ResultPending'
  BY <1>1 DEF Idle, QueryLive, RetainedLive, ResultPending, NoMemo
<1>5. HeldOwned'
  <2>1. ASSUME NEW h \in held'
        PROVE  Points(h.value)' /\ (~h.value.cached => heap'[h.value.at].owner = h.engine)
    <3>1. h \in held /\ (h.engine # e \/ h.value.cached)
      BY <1>1, <2>1
    <3>2. Points(h.value) /\ h.value.at \in Addr /\ heap[h.value.at].owner # e
      BY <3>1, OwnerAssumption DEF LiveInv, TypeOK, HeldOwned, Points, Handle
    <3>3. heap'[h.value.at] = heap[h.value.at]
      BY <1>2, <3>2 DEF Points
    <3> QED BY <3>1, <3>2, <3>3 DEF LiveInv, HeldOwned, Points
  <2> QED BY <2>1 DEF HeldOwned
<1>6. SlotsLive'
  BY <1>1, <1>2, FreesSlots
<1>7. NoLeak'
  BY <1>1, <1>2 DEF LiveInv, NoLeak
<1> QED BY <1>3, <1>4, <1>5, <1>6, <1>7 DEF LiveInv

(* A retained value keeps the storage that is there.                       *)
LEMMA StoreLive ==
  ASSUME LiveInv, Store
  PROVE  LiveInv'
<1>1. PICK n, h : n = result.op /\ h = result.value
  OBVIOUS
<1>2. /\ n \in Pure /\ n \in Node /\ Operand[n] \in Node /\ memo[n] = Null
      /\ memo[Operand[n]] # Null /\ result # Null /\ running # Null
      /\ h \in Handle /\ Points(h) /\ h.at \in Addr
  BY <1>1, ProgramAssumption
     DEF LiveInv, TypeOK, Store, ResultPending, Node, Value, QueryLive, Idle, Handle
<1>3. PICK b : b = Basis(n)
  OBVIOUS
<1>4. b \in Value
  BY <1>2, <1>3 DEF LiveInv, TypeOK, Basis
<1>5. PICK a \in Places(Cache, h) :
        /\ heap' = Copied(Cache, h, a) /\ retained' = Remembered(Cache, h, a)
        /\ entries' = entries \cup {[op |-> n, key |-> result.key,
                                     slot |-> Kept(Cache, h, a), basis |-> b]}
        /\ Memoize(n, Kept(Cache, h, a), b)
  BY <1>1, <1>3 DEF Store
<1>6. PICK k : k = Kept(Cache, h, a)
  OBVIOUS
<1>7. /\ a \in Addr
      /\ heap' \in [Addr -> Cell \cup {Null}]
      /\ retained' \in [Retainer -> [Addr -> Addr \cup {Null}]]
      /\ Grows
      /\ \A x \in Addr : x # a => heap'[x] = heap[x]
      /\ heap'[a] # Null /\ heap'[a].content = h.content
      /\ heap'[a].origin = h.origin /\ heap'[a].owner = Cache
      /\ k \in Handle /\ k.at = a /\ k.content = h.content
      /\ k.origin = h.origin /\ k.cached
  <2>1. TypeOK /\ Cache \in Retainer
    BY DEF LiveInv, Retainer
  <2>2. \A x \in Addr : retained[Cache][x] # Null =>
          IsCopyOf(Cache, x, retained[Cache][x])
    BY <1>2 DEF LiveInv, RetainedLive
  <2>3. h.cached \in BOOLEAN
    BY <1>2 DEF Handle
  <2> QED BY <1>2, <1>5, <1>6, <2>1, <2>2, <2>3, CopyMade DEF Grows
<1>8. Points(k)' /\ QueryOwned(k)' /\ k # Null /\ k \in Value
  BY <1>7, NullAssumption DEF Points, QueryOwned, Value
<1>9. /\ UNCHANGED <<births, running, constants, held>>
      /\ result' = Null /\ Memoize(n, k, b)
  BY <1>5, <1>6 DEF Store
<1>10. /\ memo' \in [Node -> [value : Value, basis : Value] \cup {Null}]
       /\ Idle' /\ QueryLive' /\ HeldOwned' /\ ResultPending'
  BY <1>2, <1>4, <1>7, <1>8, <1>9, MemoizeKeeps
<1>11. PICK e : e = [op |-> n, key |-> result.key, slot |-> k, basis |-> b]
  OBVIOUS
<1>12. /\ entries' = entries \cup {e} /\ e.op = n /\ e.slot = k /\ e.basis = b
       /\ e.key = result.key
  BY <1>5, <1>6, <1>11
<1>13. TypeOK'
  <2>1. e.key \in {Name[n]} \X (Addr \cup Content \cup Node)
    BY <1>1, <1>2, <1>12 DEF LiveInv, TypeOK
  <2> QED BY <1>2, <1>4, <1>7, <1>9, <1>10, <1>12, <2>1 DEF LiveInv, TypeOK
<1>14. SlotsLive'
  <2>1. ASSUME NEW g \in entries
        PROVE  g.slot.cached /\ Points(g.slot)'
    <3>1. g.slot.at \in Addr /\ Points(g.slot) /\ g.slot.cached
      BY DEF LiveInv, TypeOK, SlotsLive, Handle
    <3> QED BY <3>1, <1>7, PointsGrows
  <2>2. ASSUME NEW x \in Attr, constants[x] # Null, constants[x].value # Null
        PROVE  constants[x].value.cached /\ Points(constants[x].value)'
    <3>1. /\ constants[x].value.at \in Addr
          /\ Points(constants[x].value) /\ constants[x].value.cached
      <4>1. constants[x].value \in Handle
        BY <2>2 DEF LiveInv, TypeOK, Value
      <4> QED BY <2>2, <4>1 DEF LiveInv, SlotsLive, Handle
    <3>2. PICK s : s = constants[x].value
      OBVIOUS
    <3>3. Points(s)'
      BY <3>1, <3>2, <1>7, PointsGrows
    <3> QED BY <3>1, <3>2, <3>3, <1>9 DEF Points
  <2>3. e.slot.cached /\ Points(e.slot)'
    BY <1>7, <1>8, <1>12
  <2> QED BY <1>9, <1>12, <2>1, <2>2, <2>3 DEF SlotsLive, Points
<1>15. RetainedLive'
  <2>1. ASSUME NEW r \in {Cache, running}, NEW x \in Addr, retained'[r][x] # Null
        PROVE  IsCopyOf(r, x, retained[r][x])'
    <3>1. CASE retained'[r][x] = retained[r][x]
      <4>1. r \in Retainer
        BY <1>2 DEF LiveInv, TypeOK, Retainer
      <4>2. IsCopyOf(r, x, retained[r][x]) /\ retained[r][x] \in Addr
        BY <1>2, <2>1, <3>1, <4>1 DEF LiveInv, RetainedLive, TypeOK
      <4>3. heap'[x] = heap[x] /\ heap'[retained[r][x]] = heap[retained[r][x]]
        BY <1>7, <4>2 DEF Grows, IsCopyOf
      <4> QED BY <3>1, <4>2, <4>3 DEF IsCopyOf
    <3>2. CASE retained'[r][x] # retained[r][x]
      <4>1. /\ NeedsCopy(Cache, h)
            /\ retained' = [retained EXCEPT ![Cache][h.at] = a, ![Cache][a] = a]
        BY <1>5, <3>2 DEF Remembered
      <4>2. r = Cache /\ x \in {h.at, a} /\ retained'[r][x] = a
        BY <1>2, <1>7, <3>2, <4>1 DEF LiveInv, TypeOK, Retainer
      <4>3. heap'[h.at] = heap[h.at] /\ heap[h.at] # Null
            /\ heap[h.at].content = h.content /\ heap[h.at].origin = h.origin
        BY <1>2, <1>7 DEF Grows, Points
      <4> QED BY <1>7, <4>2, <4>3 DEF IsCopyOf
    <3> QED BY <3>1, <3>2
  <2> QED BY <1>9, <2>1 DEF RetainedLive, IsCopyOf
<1>16. NoLeak'
  BY <1>7, <1>9, OwnerAssumption DEF LiveInv, NoLeak, Cache, InQuery
<1> QED BY <1>10, <1>13, <1>14, <1>15, <1>16 DEF LiveInv

LEMMA EndQueryLive ==
  ASSUME LiveInv, EndQuery
  PROVE  LiveInv'
<1>1. PICK n \in Node :
        /\ memo[n] # Null /\ memo[n].value # Null
        /\ \E a \in Places(running, memo[n].value) :
             /\ heap' = FreesOwner(Copied(running, memo[n].value, a), InQuery)
             /\ retained' = Remembered(running, memo[n].value, a)
             /\ held' = held \cup {[engine |-> running,
                                    value |-> Kept(running, memo[n].value, a)]}
  BY DEF EndQuery
<1>2. PICK h, e : h = memo[n].value /\ e = running
  OBVIOUS
<1>3. /\ h \in Handle /\ h.at \in Addr /\ h.cached \in BOOLEAN /\ Points(h)
      /\ e \in Engine /\ e \in Retainer
  BY <1>1, <1>2
     DEF LiveInv, TypeOK, QueryLive, Value, Handle, EndQuery, Retainer
<1>4. PICK a \in Places(e, h) :
        /\ heap' = FreesOwner(Copied(e, h, a), InQuery)
        /\ retained' = Remembered(e, h, a)
        /\ held' = held \cup {[engine |-> e, value |-> Kept(e, h, a)]}
  BY <1>1, <1>2
<1>5. PICK k, grown : k = Kept(e, h, a) /\ grown = Copied(e, h, a)
  OBVIOUS
<1>6. /\ a \in Addr
      /\ grown \in [Addr -> Cell \cup {Null}]
      /\ retained' \in [Retainer -> [Addr -> Addr \cup {Null}]]
      /\ \A x \in Addr : heap[x] # Null => grown[x] = heap[x]
      /\ \A x \in Addr : x # a => grown[x] = heap[x]
      /\ grown[a] # Null /\ grown[a].content = h.content
      /\ grown[a].origin = h.origin
      /\ ~h.cached => grown[a].owner = e
      /\ h.cached => grown[a].owner = Cache
      /\ k \in Handle /\ k.at = a /\ k.content = h.content
      /\ k.origin = h.origin
      /\ k.cached <=> h.cached \/ e = Cache
  <2>1. TypeOK
    BY DEF LiveInv
  <2>2. \A x \in Addr : retained[e][x] # Null => IsCopyOf(e, x, retained[e][x])
    BY <1>2, <1>3, NullAssumption DEF LiveInv, RetainedLive
  <2> QED BY <1>3, <1>4, <1>5, <2>1, <2>2, CopyMade
<1>7. e # Cache /\ e # InQuery /\ Cache # InQuery
  BY <1>3, OwnerAssumption DEF Cache, InQuery
<1>8. /\ heap' \in [Addr -> Cell \cup {Null}]
      /\ \A x \in Addr : grown[x] # Null /\ grown[x].owner # InQuery =>
           heap'[x] = grown[x]
      /\ \A x \in Addr : heap'[x] # Null =>
           heap'[x] = grown[x] /\ grown[x].owner # InQuery
  BY <1>4, <1>5, <1>6 DEF FreesOwner
<1>9. \A x \in Addr : heap[x] # Null /\ heap[x].owner # InQuery =>
        heap'[x] = heap[x]
  BY <1>6, <1>8
<1>10. /\ heap'[a] = grown[a] /\ Points(k)'
       /\ ~k.cached => heap'[a].owner = e
  <2>1. grown[a].owner # InQuery /\ (k.cached <=> h.cached)
    BY <1>3, <1>6, <1>7
  <2>2. heap'[a] = grown[a]
    BY <1>6, <1>8, <2>1
  <2> QED BY <1>3, <1>6, <1>7, <2>1, <2>2 DEF Points
<1>11. /\ running' = Null /\ memo' = NoMemo /\ result' = Null
       /\ UNCHANGED <<entries, constants, births>>
  BY DEF EndQuery
<1>12. PICK g : g = [engine |-> e, value |-> k]
  OBVIOUS
<1>13. held' = held \cup {g} /\ g.engine = e /\ g.value = k
  BY <1>4, <1>5, <1>12
<1>14. TypeOK'
  BY <1>3, <1>6, <1>8, <1>11, <1>13 DEF LiveInv, TypeOK, NoMemo
<1>15. Idle' /\ QueryLive' /\ RetainedLive' /\ ResultPending'
  BY <1>11 DEF Idle, QueryLive, RetainedLive, ResultPending, NoMemo
<1>16. HeldOwned'
  <2>1. ASSUME NEW x \in held
        PROVE  Points(x.value)' /\ (~x.value.cached => heap'[x.value.at].owner = x.engine)
    <3>1. /\ Points(x.value) /\ x.value.at \in Addr /\ heap[x.value.at].owner # InQuery
      BY <1>7, OwnerAssumption DEF LiveInv, TypeOK, HeldOwned, Points, Handle
    <3>2. heap'[x.value.at] = heap[x.value.at]
      BY <1>9, <3>1 DEF Points
    <3> QED BY <3>1, <3>2 DEF LiveInv, HeldOwned, Points
  <2>2. Points(g.value)' /\ (~g.value.cached => heap'[g.value.at].owner = g.engine)
    BY <1>6, <1>10, <1>13
  <2> QED BY <1>13, <2>1, <2>2 DEF HeldOwned, Points
<1>17. SlotsLive'
  BY <1>9, <1>11, FreesSlots
<1>18. NoLeak'
  <2>1. ASSUME NEW x \in Addr, heap'[x] # Null
        PROVE  /\ heap'[x].owner # InQuery
               /\ heap'[x].owner \in Engine =>
                    \E y \in held' : y.engine = heap'[x].owner /\ y.value.at = x
    <3>1. heap'[x] = grown[x] /\ grown[x].owner # InQuery
      BY <1>8, <2>1
    <3>2. CASE x # a
      BY <1>6, <1>13, <2>1, <3>1, <3>2 DEF LiveInv, NoLeak
    <3>3. CASE x = a
      <4>1. heap'[a].owner \in Engine => heap'[a].owner = e
        BY <1>3, <1>6, <1>10, OwnerAssumption
      <4> QED BY <1>6, <1>13, <3>1, <3>3, <4>1
    <3> QED BY <3>2, <3>3
  <2> QED BY <2>1 DEF NoLeak
<1> QED BY <1>14, <1>15, <1>16, <1>17, <1>18 DEF LiveInv

-----------------------------------------------------------------------------
LEMMA InitLive == Init => LiveInv
<1> SUFFICES ASSUME Init PROVE LiveInv
  OBVIOUS
<1> USE DEF Init
<1>1. TypeOK
  BY DEF TypeOK, Empty, NoMemo
<1>2. Idle /\ HeldOwned /\ ResultPending /\ RetainedLive
  BY DEF Idle, HeldOwned, ResultPending, RetainedLive
<1>3. QueryLive /\ SlotsLive /\ NoLeak
  BY DEF QueryLive, SlotsLive, NoLeak, NoMemo, Empty
<1> QED BY <1>1, <1>2, <1>3 DEF LiveInv

LEMMA StepLive == LiveInv /\ [Next]_vars => LiveInv'
<1> SUFFICES ASSUME LiveInv, [Next]_vars PROVE LiveInv'
  OBVIOUS
<1>1. CASE \E e \in Engine : BeginQuery(e) \/ Destroy(e)
  BY <1>1, BeginQueryLive, DestroyLive
<1>2. CASE \E n \in Source : Produce(n)
  BY <1>2, ProduceLive
<1>3. CASE \E n \in Constant : ConstantHit(n) \/ ConstantMiss(n)
  BY <1>3, ConstantHitLive, ConstantMissLive
<1>4. CASE \E n \in Pure : Hit(n) \/ Evaluate(n)
  BY <1>4, HitLive, EvaluateLive
<1>5. CASE Store \/ Forgo
  BY <1>5, StoreLive, ForgoLive
<1>6. CASE EndQuery \/ EndWithoutValue
  BY <1>6, EndQueryLive, EndWithoutValueLive
<1>7. CASE ClearCache
  BY <1>7, ClearCacheLive
<1>8. CASE UNCHANGED vars
  <2> USE <1>8 DEF vars
  <2>1. TypeOK' /\ Idle' /\ NoLeak' /\ ResultPending'
    BY DEF LiveInv, TypeOK, Idle, NoLeak, ResultPending
  <2>2. QueryLive' /\ HeldOwned' /\ SlotsLive'
    BY DEF LiveInv, QueryLive, HeldOwned, SlotsLive, Points
  <2>3. RetainedLive'
    BY DEF LiveInv, RetainedLive, IsCopyOf
  <2> QED BY <2>1, <2>2, <2>3 DEF LiveInv
<1> QED BY <1>1, <1>2, <1>3, <1>4, <1>5, <1>6, <1>7, <1>8 DEF Next

(* The invariant of queries, retention and the host's handles.             *)
THEOREM LiveInvariant == Spec => []LiveInv
<1> QED BY InitLive, StepLive, PTL DEF Spec

(* Every state has the types of the declarations.                          *)
THEOREM StorageTypes == Spec => []TypeOK
<1>1. LiveInv => TypeOK
  BY DEF LiveInv
<1> QED BY <1>1, LiveInvariant, PTL

(* An answer of the host never dangles and never changes under it.         *)
THEOREM AnswersLive == Spec => []HeldLive
<1>1. LiveInv => HeldLive
  BY DEF LiveInv, HeldOwned, HeldLive
<1> QED BY <1>1, LiveInvariant, PTL

(* No cell outlives the query, or the answer, that it was made for.        *)
THEOREM NothingLeaks == Spec => []NoLeak
<1>1. LiveInv => NoLeak
  BY DEF LiveInv
<1> QED BY <1>1, LiveInvariant, PTL

(* What the cache has stored is the cache's own and stays what it was.     *)
THEOREM SlotsStayLive == Spec => []SlotsLive
<1>1. LiveInv => SlotsLive
  BY DEF LiveInv
<1> QED BY <1>1, LiveInvariant, PTL
-----------------------------------------------------------------------------
(* The cache has one copy of an instance, and answers an operation from an *)
(* entry of an equal operand only, whatever addresses the queries use      *)
(* again.                                                                  *)

(* Instances are numbered as they are made.                                *)
Born == \A a \in Addr : heap[a] # Null => heap[a].origin < births

(* A query's storage has an instance once, and the query remembers the copy*)
(* the cache has of it.                                                    *)
QueryUnique ==
  \A a, b \in Addr :
    /\ heap[a] # Null /\ heap[b] # Null
    /\ heap[a].owner = InQuery /\ heap[b].owner = InQuery
    /\ heap[a].origin = heap[b].origin
    => a = b
CopyKnown ==
  running # Null =>
    \A a, b \in Addr :
      /\ heap[a] # Null /\ heap[b] # Null
      /\ heap[a].owner = InQuery /\ heap[b].owner = Cache
      /\ heap[a].origin = heap[b].origin
      => retained[Cache][a] = b

CopyInv == Born /\ OneCopy /\ QueryUnique /\ CopyKnown

-----------------------------------------------------------------------------
LEMMA SameCopies ==
  ASSUME CopyInv, UNCHANGED <<heap, births, retained, running>>
  PROVE  CopyInv'
BY DEF CopyInv, Born, OneCopy, QueryUnique, CopyKnown

(* A new instance is no copy of another.                                   *)
LEMMA NewCopies ==
  ASSUME CopyInv, TypeOK, NEW owner \in {Cache, InQuery}, NEW a \in Addr,
         NEW c \in Content, New(owner, a, c), UNCHANGED <<retained, running>>
  PROVE  CopyInv'
<1> DEFINE cell == [owner |-> owner, content |-> c, origin |-> births]
<1>1. /\ heap'[a] = cell /\ heap[a] = Null /\ births \in Nat
      /\ births' = births + 1
      /\ \A x \in Addr : x # a => heap'[x] = heap[x]
  BY DEF New, TypeOK, Free
<1>2. \A x \in Addr : heap[x] # Null => heap[x].origin \in Nat
  BY DEF TypeOK, Cell
<1>3. cell.origin = births /\ cell.owner = owner
  OBVIOUS
<1> HIDE DEF cell
<1>4. Born'
  BY <1>1, <1>2, <1>3 DEF CopyInv, Born
<1>5. \A x \in Addr : x # a /\ heap'[x] # Null =>
        heap'[x].origin # heap'[a].origin
  BY <1>1, <1>2, <1>3 DEF CopyInv, Born
<1>6. OneCopy'
  BY <1>1, <1>5 DEF CopyInv, OneCopy
<1>7. QueryUnique'
  BY <1>1, <1>5 DEF CopyInv, QueryUnique
<1>8. CopyKnown'
  <2>1. Cache # InQuery
    BY DEF Cache, InQuery
  <2> QED BY <1>1, <1>5, <2>1 DEF CopyInv, CopyKnown
<1> QED BY <1>4, <1>6, <1>7, <1>8 DEF CopyInv

(* A query ends, or an engine: what is new is an answer's.                 *)
LEMMA FreedCopies ==
  ASSUME CopyInv, births' = births, running' = Null,
         \A x \in Addr : heap'[x] # Null /\ heap'[x] # heap[x] =>
           heap'[x].owner \in Engine /\ heap'[x].origin < births
  PROVE  CopyInv'
<1>1. \A x \in Addr : heap'[x] # Null /\ heap'[x].owner \in {Cache, InQuery} =>
        heap'[x] = heap[x]
  BY OwnerAssumption
<1>2. Born'
  BY DEF CopyInv, Born
<1>3. OneCopy' /\ QueryUnique'
  BY <1>1 DEF CopyInv, OneCopy, QueryUnique
<1>4. CopyKnown'
  BY DEF CopyKnown
<1> QED BY <1>2, <1>3, <1>4 DEF CopyInv

LEMMA StoreCopies ==
  ASSUME LiveInv, CopyInv, Store
  PROVE  CopyInv'
<1>1. PICK h : h = result.value
  OBVIOUS
<1>2. /\ h \in Handle /\ h.at \in Addr /\ h.cached \in BOOLEAN /\ Points(h)
      /\ running # Null
      /\ ~h.cached => heap[h.at].owner = InQuery
  BY <1>1 DEF LiveInv, TypeOK, Store, QueryLive, Value, Handle, Idle
<1>3. PICK a \in Places(Cache, h) :
        heap' = Copied(Cache, h, a) /\ retained' = Remembered(Cache, h, a)
  BY <1>1 DEF Store
<1>4. UNCHANGED <<running, births>>
  BY DEF Store
<1>5. CASE ~NeedsCopy(Cache, h)
  <2>1. UNCHANGED <<heap, retained>>
    BY <1>3, <1>5 DEF Copied, Remembered
  <2> QED BY <1>4, <2>1, SameCopies
<1>6. CASE NeedsCopy(Cache, h)
  <2>1. /\ a \in Addr /\ heap[a] = Null
        /\ h.cached = FALSE /\ retained[Cache][h.at] = Null
    BY <1>2, <1>3, <1>6 DEF Places, Free, NeedsCopy, IsCopied
  <2>2. heap[h.at] \in Cell /\ heap[h.at] # Null /\ heap[h.at].owner = InQuery
    BY <1>2, <2>1 DEF LiveInv, TypeOK, Points
  <2>3. PICK cell : cell = Clone(Cache, h)
    OBVIOUS
  <2>4. cell.owner = Cache /\ cell.origin = heap[h.at].origin
    BY <2>2, <2>3 DEF Clone, Cell
  <2>5. heap'[a] = cell /\ \A x \in Addr : x # a => heap'[x] = heap[x]
    BY <1>3, <1>6, <2>1, <2>3 DEF Copied, LiveInv, TypeOK
  <2>6. /\ retained'[Cache][h.at] = a
        /\ \A x \in Addr : x # h.at /\ x # a =>
             retained'[Cache][x] = retained[Cache][x]
    BY <1>2, <1>3, <1>6, <2>1 DEF Remembered, LiveInv, TypeOK, Retainer
  <2>7. \A b \in Addr : heap[b] # Null /\ heap[b].owner = Cache =>
          b # a /\ heap[b].origin # cell.origin
    <3>1. ASSUME NEW b \in Addr, heap[b] # Null, heap[b].owner = Cache,
                 heap[b].origin = heap[h.at].origin
          PROVE  FALSE
      <4>1. retained[Cache][h.at] = b
        BY <1>2, <2>2, <3>1 DEF CopyInv, CopyKnown
      <4> QED BY <2>1, <4>1, NullAssumption
    <3> QED BY <2>1, <2>4, <3>1
  <2>8. Cache # InQuery
    BY DEF Cache, InQuery
  <2>9. Born'
    BY <1>2, <1>4, <2>2, <2>4, <2>5 DEF CopyInv, Born
  <2>10. OneCopy'
    BY <2>5, <2>7 DEF CopyInv, OneCopy
  <2>11. QueryUnique'
    BY <2>4, <2>5, <2>8 DEF CopyInv, QueryUnique
  <2>12. CopyKnown'
    <3>1. ASSUME NEW x \in Addr, NEW b \in Addr,
                 heap'[x] # Null, heap'[b] # Null,
                 heap'[x].owner = InQuery, heap'[b].owner = Cache,
                 heap'[x].origin = heap'[b].origin
          PROVE  retained'[Cache][x] = b
      <4>1. x # a /\ heap'[x] = heap[x]
        BY <2>4, <2>5, <2>8, <3>1
      <4>2. CASE b = a
        <5>1. x = h.at
          BY <1>2, <2>2, <2>4, <2>5, <3>1, <4>1, <4>2 DEF CopyInv, QueryUnique
        <5> QED BY <2>6, <4>2, <5>1
      <4>3. CASE b # a
        <5>1. heap'[b] = heap[b] /\ retained[Cache][x] = b
          BY <1>2, <2>5, <3>1, <4>1, <4>3 DEF CopyInv, CopyKnown
        <5>2. x # h.at
          BY <2>1, <5>1, NullAssumption
        <5> QED BY <2>6, <4>1, <5>1, <5>2
      <4> QED BY <4>2, <4>3
    <3> QED BY <3>1 DEF CopyKnown
  <2> QED BY <2>9, <2>10, <2>11, <2>12 DEF CopyInv
<1> QED BY <1>5, <1>6

LEMMA EndQueryCopies ==
  ASSUME LiveInv, CopyInv, EndQuery
  PROVE  CopyInv'
<1>1. PICK n \in Node :
        /\ memo[n] # Null /\ memo[n].value # Null
        /\ \E a \in Places(running, memo[n].value) :
             heap' = FreesOwner(Copied(running, memo[n].value, a), InQuery)
  BY DEF EndQuery
<1>2. PICK h, e : h = memo[n].value /\ e = running
  OBVIOUS
<1>3. h.at \in Addr /\ Points(h) /\ e \in Engine /\ births' = births /\ running' = Null
  BY <1>1, <1>2 DEF LiveInv, TypeOK, QueryLive, Value, Handle, EndQuery
<1>4. PICK a \in Places(e, h) : heap' = FreesOwner(Copied(e, h, a), InQuery)
  BY <1>1, <1>2
<1>5. heap[h.at] \in Cell /\ heap[h.at] # Null
  BY <1>3 DEF LiveInv, TypeOK, Points
<1>6. PICK cell, grown : cell = Clone(e, h) /\ grown = Copied(e, h, a)
  OBVIOUS
<1>7. cell.owner = e /\ cell.origin < births
  BY <1>3, <1>5, <1>6 DEF Clone, Cell, CopyInv, Born
<1>8. \A x \in Addr : grown[x] = heap[x] \/ grown[x] = cell
  BY <1>6 DEF Copied, LiveInv, TypeOK
<1>9. \A x \in Addr : heap'[x] # Null => heap'[x] = grown[x]
  BY <1>4, <1>6 DEF FreesOwner
<1>10. \A x \in Addr : heap'[x] # Null /\ heap'[x] # heap[x] =>
         heap'[x].owner \in Engine /\ heap'[x].origin < births
  BY <1>3, <1>7, <1>8, <1>9
<1> QED BY <1>3, <1>10, FreedCopies

LEMMA StepCopies ==
  ASSUME LiveInv, CopyInv, [Next]_vars
  PROVE  CopyInv'
<1>1. ASSUME NEW e \in Engine, BeginQuery(e)
      PROVE  CopyInv'
  <2>1. \A a \in Addr : heap[a] # Null => heap[a].owner # InQuery
    BY <1>1 DEF BeginQuery, LiveInv, NoLeak
  <2> QED BY <1>1, <2>1
          DEF BeginQuery, CopyInv, Born, OneCopy, QueryUnique, CopyKnown
<1>2. ASSUME NEW e \in Engine, Destroy(e)
      PROVE  CopyInv'
  <2>1. running' = Null /\ births' = births
    BY <1>2 DEF Destroy
  <2>2. \A x \in Addr : heap'[x] # Null => heap'[x] = heap[x]
    BY <1>2 DEF Destroy, FreesOwner
  <2> QED BY <2>1, <2>2, FreedCopies
<1>3. CASE EndWithoutValue
  <2>1. running' = Null /\ births' = births
    BY <1>3 DEF EndWithoutValue
  <2>2. \A x \in Addr : heap'[x] # Null => heap'[x] = heap[x]
    BY <1>3 DEF EndWithoutValue, FreesOwner
  <2> QED BY <2>1, <2>2, FreedCopies
<1>4. CASE ClearCache
  BY <1>4 DEF ClearCache, CopyInv, Born, OneCopy, QueryUnique, CopyKnown
<1>5. ASSUME NEW n \in Source, Produce(n)
      PROVE  CopyInv'
  <2>1. PICK a \in Addr, c \in Makes[n] : New(InQuery, a, c)
    BY <1>5 DEF Produce
  <2>2. c \in Content /\ UNCHANGED <<retained, running>>
    BY <1>5, <2>1, ProgramAssumption DEF Produce
  <2>3. TypeOK /\ InQuery \in {Cache, InQuery}
    BY DEF LiveInv
  <2> QED BY <2>1, <2>2, <2>3, NewCopies
<1>6. ASSUME NEW n \in Constant, ConstantMiss(n)
      PROVE  CopyInv'
  <2>1. UNCHANGED <<retained, running>>
    BY <1>6 DEF ConstantMiss
  <2>2. CASE UNCHANGED <<heap, births>>
    BY <2>1, <2>2, SameCopies
  <2>3. CASE \E a \in Addr, c \in Converts[AttrOf[n]] : New(Cache, a, c)
    <3>1. PICK a \in Addr, c \in Converts[AttrOf[n]] : New(Cache, a, c)
      BY <2>3
    <3>2. c \in Content /\ TypeOK /\ Cache \in {Cache, InQuery}
      BY <3>1, ProgramAssumption DEF LiveInv
    <3> QED BY <2>1, <3>1, <3>2, NewCopies
  <2> QED BY <1>6, <2>2, <2>3 DEF ConstantMiss
<1>7. ASSUME NEW n \in Pure, Evaluate(n)
      PROVE  CopyInv'
  <2>1. UNCHANGED <<retained, running>>
    BY <1>7 DEF Evaluate
  <2>2. CASE UNCHANGED <<heap, births>>
    BY <2>1, <2>2, SameCopies
  <2>3. CASE \E a \in Addr, c \in Makes[n] : New(InQuery, a, c)
    <3>1. PICK a \in Addr, c \in Makes[n] : New(InQuery, a, c)
      BY <2>3
    <3>2. c \in Content /\ TypeOK /\ InQuery \in {Cache, InQuery}
      BY <3>1, ProgramAssumption DEF LiveInv
    <3> QED BY <2>1, <3>1, <3>2, NewCopies
  <2> QED BY <1>7, <2>2, <2>3 DEF Evaluate
<1>8. ASSUME \/ \E n \in Constant : ConstantHit(n)
             \/ \E n \in Pure : Hit(n)
             \/ Forgo
             \/ UNCHANGED vars
      PROVE  CopyInv'
  <2>1. UNCHANGED <<heap, births, retained, running>>
    BY <1>8 DEF ConstantHit, Hit, Forgo, vars
  <2> QED BY <2>1, SameCopies
<1>9. CASE Store
  BY <1>9, StoreCopies
<1>10. CASE EndQuery
  BY <1>10, EndQueryCopies
<1> QED BY <1>1, <1>2, <1>3, <1>4, <1>5, <1>6, <1>7, <1>8, <1>9, <1>10 DEF Next

LEMMA InitCopies == Init => CopyInv
BY DEF Init, Empty, CopyInv, Born, OneCopy, QueryUnique, CopyKnown

(* The cache has one copy of an instance, so identity compares cached      *)
(* values as it does the instances they were stored from.                  *)
THEOREM OneCopyEach == Spec => []OneCopy
<1>1. LiveInv /\ CopyInv /\ [Next]_vars => CopyInv'
  BY StepCopies
<1>2. CopyInv => OneCopy
  BY DEF CopyInv
<1> QED BY <1>1, <1>2, InitCopies, LiveInvariant, PTL DEF Spec

-----------------------------------------------------------------------------
(* The key of op when its operand is basis: the operand, the content, or   *)
(* the address of an instance.                                             *)
KeyFits(op, key, basis) ==
  /\ basis = Null => key = <<Name[op], Operand[op]>>
  /\ basis # Null /\ basis.content \notin Opaque => key = <<Name[op], basis.content>>
  /\ basis # Null /\ basis.content \in Opaque => key = <<Name[op], basis.at>>

(* An operand that an entry was computed from and the cache owns is what it*)
(* was.                                                                    *)
EntriesFit ==
  \A e \in entries :
    /\ KeyFits(e.op, e.key, e.basis)
    /\ e.basis # Null /\ e.basis.cached => Points(e.basis)

(* Operands are evaluated first.                                           *)
OperandFirst == \A n \in Pure : memo[n] # Null => memo[Operand[n]] # Null

ResultFits ==
  result # Null => KeyFits(result.op, result.key, Basis(result.op))

KeyInv == EntriesFit /\ OperandFirst /\ ResultFits /\ KeysHold

(* A lookup's key fits the operand.                                        *)
LEMMA BasisFits ==
  ASSUME LiveInv, NEW n \in Pure, memo[Operand[n]] # Null
  PROVE  /\ Basis(n) \in Value
         /\ Basis(n) # Null => Points(Basis(n)) /\ Basis(n).at \in Addr
                               /\ Basis(n).content \in Content
         /\ KeyFits(n, Key(n), Basis(n))
<1>1. Operand[n] \in Node
  BY ProgramAssumption
<1>2. PICK b : b = Basis(n)
  OBVIOUS
<1>3. b \in Value /\ (b # Null => Points(b))
  BY <1>1, <1>2 DEF LiveInv, TypeOK, QueryLive, Basis
<1>4. b # Null => b.at \in Addr /\ b.content \in Content
  BY <1>3 DEF Value, Handle
<1>5. KeyFits(n, Key(n), b)
  BY <1>2, <1>3 DEF KeyFits, Key, Hash, DefinesEquality, Stands, Points
<1> QED BY <1>2, <1>3, <1>4, <1>5

(* Two operands whose keys are equal are equal, or the older one was an    *)
(* instance of a query's.                                                  *)
LEMMA SameKeySameValue ==
  ASSUME LiveInv, NEW n \in Pure, NEW m \in Pure, NEW key,
         NEW g \in Value, NEW h \in Value,
         KeyFits(m, key, g), KeyFits(n, key, h),
         g # Null => (g.cached => Points(g)), h # Null => Points(h)
  PROVE  \/ SameValue(g, h)
         \/ g # Null /\ g.content \in Opaque /\ ~g.cached
<1>1. /\ g # Null => g.at \in Addr /\ g.content \in Content
      /\ h # Null => h.at \in Addr /\ h.content \in Content
      /\ Operand[n] \in Node /\ Operand[m] \in Node
  BY ProgramAssumption DEF Value, Handle
<1>2. CASE g = Null
  <2>1. h = Null
    BY <1>1, <1>2, HashAssumption DEF KeyFits
  <2> QED BY <1>2, <2>1 DEF SameValue
<1>3. CASE g # Null /\ g.content \notin Opaque
  <2>1. h # Null /\ h.content = g.content
    BY <1>1, <1>3, HashAssumption DEF KeyFits
  <2> QED BY <1>3, <2>1 DEF SameValue
<1>4. CASE g # Null /\ g.content \in Opaque
  <2>1. h # Null /\ h.at = g.at
    BY <1>1, <1>4, HashAssumption DEF KeyFits
  <2> QED BY <1>4, <2>1 DEF SameValue, Points
<1> QED BY <1>2, <1>3, <1>4

(* The cache's storage, which a basis of an entry may be, is not changed.  *)
LEMMA CacheStays ==
  ASSUME LiveInv, [Next]_vars, NEW h \in Handle, h.cached, Points(h)
  PROVE  Points(h)'
<1>1. h.at \in Addr /\ heap[h.at] # Null /\ heap[h.at].owner = Cache
  BY DEF Points, Handle
<1>2. SUFFICES heap'[h.at] = heap[h.at]
  BY DEF Points
<1>3. Cache # InQuery /\ Cache \notin Engine
  BY OwnerAssumption DEF Cache, InQuery
<1>4. ASSUME NEW owner, NEW a \in Addr, NEW c, New(owner, a, c)
      PROVE  heap'[h.at] = heap[h.at]
  BY <1>1, <1>4 DEF New, Free, LiveInv, TypeOK
<1>5. ASSUME NEW r, NEW g, NEW a \in Places(r, g)
      PROVE  Copied(r, g, a)[h.at] = heap[h.at]
  BY <1>1, <1>5 DEF Copied, Places, Free, LiveInv, TypeOK
<1>6. ASSUME NEW e \in Engine, Destroy(e)
      PROVE  heap'[h.at] = heap[h.at]
  BY <1>1, <1>3, <1>6 DEF Destroy, FreesOwner
<1>7. CASE EndWithoutValue
  BY <1>1, <1>3, <1>7 DEF EndWithoutValue, FreesOwner
<1>8. CASE EndQuery
  <2>1. PICK g, r : \E a \in Places(r, g) :
          heap' = FreesOwner(Copied(r, g, a), InQuery)
    BY <1>8 DEF EndQuery
  <2>2. PICK a \in Places(r, g) : heap' = FreesOwner(Copied(r, g, a), InQuery)
    BY <2>1
  <2> QED BY <1>1, <1>3, <1>5, <2>2 DEF FreesOwner
<1>9. CASE Store
  <2>1. PICK g : \E a \in Places(Cache, g) : heap' = Copied(Cache, g, a)
    BY <1>9 DEF Store
  <2> QED BY <1>5, <2>1
<1>10. ASSUME \/ \E e \in Engine : BeginQuery(e)
              \/ \E n \in Constant : ConstantHit(n)
              \/ \E n \in Pure : Hit(n)
              \/ Forgo \/ ClearCache \/ UNCHANGED vars
       PROVE  heap'[h.at] = heap[h.at]
  BY <1>10 DEF BeginQuery, ConstantHit, Hit, Forgo, ClearCache, vars
<1>11. CASE \E n \in Source : Produce(n)
  BY <1>4, <1>11 DEF Produce
<1>12. CASE \E n \in Constant : ConstantMiss(n)
  BY <1>4, <1>12 DEF ConstantMiss
<1>13. CASE \E n \in Pure : Evaluate(n)
  BY <1>4, <1>13 DEF Evaluate
<1> QED BY <1>6, <1>7, <1>8, <1>9, <1>10, <1>11, <1>12, <1>13 DEF Next

LEMMA EntriesStay ==
  ASSUME LiveInv, EntriesFit, [Next]_vars, entries' \subseteq entries
  PROVE  EntriesFit'
<1>1. ASSUME NEW e \in entries, e.basis # Null, e.basis.cached
      PROVE  Points(e.basis)'
  <2>1. PICK b : b = e.basis
    OBVIOUS
  <2>2. b \in Handle /\ b.cached /\ Points(b)
    BY <1>1, <2>1 DEF LiveInv, TypeOK, Value, EntriesFit
  <2>3. Points(b)'
    BY <2>2, CacheStays
  <2> QED BY <2>1, <2>3
<1> QED BY <1>1 DEF EntriesFit

LEMMA MemoizeFits ==
  ASSUME LiveInv, OperandFirst, KeysHold, NEW n \in Node, memo[n] = Null,
         NEW value \in Value, NEW basis \in Value, Memoize(n, value, basis),
         n \in Pure =>
           /\ memo[Operand[n]] # Null
           /\ \/ SameValue(basis, Basis(n))
              \/ basis # Null /\ basis.content \in Opaque /\ ~basis.cached
  PROVE  OperandFirst' /\ KeysHold'
<1> DEFINE answer == [value |-> value, basis |-> basis]
<1>1. /\ memo' = [memo EXCEPT ![n] = answer] /\ answer # Null
      /\ \A m \in Node : m # n => memo'[m] = memo[m]
      /\ memo'[n] = answer
  <2>1. answer \in [value : Value, basis : Value]
    OBVIOUS
  <2> QED BY <2>1, NullAssumption DEF Memoize, LiveInv, TypeOK
<1>2. answer.basis = basis
  OBVIOUS
<1> HIDE DEF answer
<1>3. \A m \in Pure : m \in Node /\ Operand[m] \in Node
  BY ProgramAssumption DEF Node
<1>4. OperandFirst'
  BY <1>1, <1>3 DEF OperandFirst
<1>5. ASSUME NEW m \in Pure, memo'[m] # Null, memo'[Operand[m]] # Null
      PROVE  \/ SameValue(memo'[m].basis, memo'[Operand[m]].value)
             \/ /\ memo'[m].basis # Null /\ memo'[m].basis.content \in Opaque
                /\ ~memo'[m].basis.cached
  <2>1. CASE m = n
    <3>1. Operand[n] # n /\ memo'[Operand[n]] = memo[Operand[n]]
      BY <1>1, <1>3, <2>1
    <3> QED BY <1>1, <1>2, <2>1, <3>1 DEF Basis
  <2>2. CASE m # n
    <3>1. /\ memo'[m] = memo[m] /\ memo[Operand[m]] # Null
          /\ memo'[Operand[m]] = memo[Operand[m]]
      BY <1>1, <1>3, <1>5, <2>2 DEF OperandFirst
    <3>2. Answered(m)
      BY <1>5, <3>1 DEF Answered
    <3> QED BY <3>1, <3>2 DEF KeysHold, Basis
  <2> QED BY <2>1, <2>2
<1>6. KeysHold'
  BY <1>5 DEF KeysHold, Answered, Basis, SameValue
<1> QED BY <1>4, <1>6

(* Nothing is in a query's memo outside of it.                             *)
LEMMA NoMemoFits ==
  ASSUME memo' = NoMemo
  PROVE  OperandFirst' /\ KeysHold'
<1>1. \A n \in Pure : memo'[n] = Null
  BY DEF NoMemo, Node
<1> QED BY <1>1 DEF OperandFirst, KeysHold, Answered

LEMMA HitFits ==
  ASSUME LiveInv, KeyInv, NEW n \in Pure, Hit(n)
  PROVE  OperandFirst' /\ KeysHold'
<1>1. PICK e \in entries : Matches(n, e) /\ Memoize(n, e.slot, e.basis)
  BY DEF Hit
<1>2. PICK m, key, g, v : m = e.op /\ key = e.key /\ g = e.basis /\ v = e.slot
  OBVIOUS
<1>3. /\ m \in Pure /\ g \in Value /\ v \in Value /\ KeyFits(m, key, g)
      /\ g # Null => (g.cached => Points(g))
      /\ key = Key(n) /\ Memoize(n, v, g)
  BY <1>1, <1>2 DEF LiveInv, TypeOK, Value, KeyInv, EntriesFit, Matches
<1>4. n \in Node /\ memo[n] = Null /\ memo[Operand[n]] # Null
  BY DEF Node, Hit, Asks
<1>5. PICK h : h = Basis(n)
  OBVIOUS
<1>6. h \in Value /\ (h # Null => Points(h)) /\ KeyFits(n, key, h)
  BY <1>3, <1>4, <1>5, BasisFits
<1>7. \/ SameValue(g, h)
      \/ g # Null /\ g.content \in Opaque /\ ~g.cached
  BY <1>3, <1>6, SameKeySameValue
<1> QED BY <1>3, <1>4, <1>5, <1>7, MemoizeFits DEF KeyInv

LEMMA ReturnFits ==
  ASSUME LiveInv, KeyInv, NEW n, n = result.op, result # Null, NEW v \in Value,
         Memoize(n, v, Basis(n))
  PROVE  /\ OperandFirst' /\ KeysHold'
         /\ Basis(n) \in Value /\ (Basis(n) # Null => Points(Basis(n)))
<1>1. n \in Pure /\ n \in Node /\ memo[n] = Null /\ memo[Operand[n]] # Null
  BY DEF LiveInv, TypeOK, ResultPending, Node
<1>2. PICK b : b = Basis(n)
  OBVIOUS
<1>3. b \in Value /\ (b # Null => Points(b))
  BY <1>1, <1>2, BasisFits
<1>4. SameValue(b, Basis(n))
  BY <1>2 DEF SameValue
<1>5. Memoize(n, v, b)
  BY <1>2
<1> QED BY <1>1, <1>2, <1>3, <1>4, <1>5, MemoizeFits DEF KeyInv

LEMMA StoreFits ==
  ASSUME LiveInv, KeyInv, Store
  PROVE  KeyInv'
<1>1. PICK n, key, b : n = result.op /\ key = result.key /\ b = Basis(n)
  OBVIOUS
<1>2. result # Null /\ result.value \in Handle /\ KeyFits(n, key, b) /\ result' = Null
  BY <1>1 DEF Store, LiveInv, TypeOK, Value, KeyInv, ResultFits
<1>3. PICK a \in Places(Cache, result.value) :
        /\ entries' = entries \cup {[op |-> n, key |-> key,
                                     slot |-> Kept(Cache, result.value, a), basis |-> b]}
        /\ Memoize(n, Kept(Cache, result.value, a), b)
  BY <1>1 DEF Store
<1>4. PICK s : s = Kept(Cache, result.value, a)
  OBVIOUS
<1>5. s \in Value
  <2>1. a \in Addr
    <3>1. result.value.at \in Addr
      BY <1>2 DEF Handle
    <3> QED BY <1>3, <3>1
            DEF Places, Free, NeedsCopy, IsCopied, LiveInv, TypeOK, Retainer
  <2> QED BY <1>2, <1>4, <2>1 DEF Kept, Handle, Value
<1>6. Memoize(n, s, Basis(n))
  BY <1>1, <1>3, <1>4
<1>7. OperandFirst' /\ KeysHold' /\ b \in Value /\ (b # Null => Points(b))
  BY <1>1, <1>2, <1>5, <1>6, ReturnFits
<1>8. EntriesFit'
  <2>1. ASSUME NEW c \in Handle, c.cached, Points(c)
        PROVE  Points(c)'
    BY <2>1, CacheStays DEF Next
  <2>2. ASSUME NEW e \in entries
        PROVE  /\ KeyFits(e.op, e.key, e.basis)
               /\ e.basis # Null /\ e.basis.cached => Points(e.basis)'
    BY <2>1 DEF LiveInv, TypeOK, Value, KeyInv, EntriesFit
  <2>3. b # Null /\ b.cached => Points(b)'
    BY <1>7, <2>1 DEF Value
  <2>4. PICK f : f = [op |-> n, key |-> key, slot |-> s, basis |-> b]
    OBVIOUS
  <2>5. entries' = entries \cup {f} /\ f.op = n /\ f.key = key /\ f.basis = b
    BY <1>3, <1>4, <2>4
  <2>6. KeyFits(f.op, f.key, f.basis) /\ (f.basis # Null /\ f.basis.cached => Points(f.basis)')
    BY <1>2, <2>3, <2>5
  <2> QED BY <2>2, <2>5, <2>6 DEF EntriesFit
<1> QED BY <1>2, <1>7, <1>8 DEF KeyInv, ResultFits

LEMMA StepKeys ==
  ASSUME LiveInv, KeyInv, [Next]_vars
  PROVE  KeyInv'
<1>1. ASSUME entries' \subseteq entries, result' = Null, OperandFirst', KeysHold'
      PROVE  KeyInv'
  BY <1>1, EntriesStay DEF KeyInv, ResultFits
<1>2. ASSUME NEW e \in Engine, BeginQuery(e) \/ Destroy(e)
      PROVE  KeyInv'
  <2>1. memo' = NoMemo /\ result' = Null /\ entries' = entries
    BY <1>2 DEF BeginQuery, Destroy, LiveInv, Idle
  <2> QED BY <1>1, <2>1, NoMemoFits
<1>3. CASE EndQuery \/ EndWithoutValue \/ ClearCache
  <2>1. memo' = NoMemo /\ result' = Null /\ entries' \subseteq entries
    BY <1>3 DEF EndQuery, EndWithoutValue, ClearCache, LiveInv, Idle
  <2> QED BY <1>1, <2>1, NoMemoFits
<1>4. ASSUME NEW n \in Node \ Pure, NEW v \in Value, Memoize(n, v, Null),
             memo[n] = Null, result' = Null, entries' = entries
      PROVE  KeyInv'
  <2>1. Null \in Value
    BY DEF Value
  <2>2. OperandFirst' /\ KeysHold'
    BY <1>4, <2>1, MemoizeFits DEF KeyInv
  <2> QED BY <1>1, <1>4, <2>2
<1>5. ASSUME NEW n \in Source, Produce(n)
      PROVE  KeyInv'
  <2>1. PICK a \in Addr, c \in Makes[n] :
          New(InQuery, a, c) /\ Memoize(n, HandleTo(InQuery, a, c), Null)
    BY <1>5 DEF Produce
  <2>2. PICK h : h = HandleTo(InQuery, a, c)
    OBVIOUS
  <2>3. TypeOK /\ InQuery \in {Cache, InQuery} /\ c \in Content
    BY <2>1, ProgramAssumption DEF LiveInv
  <2>4. Made(InQuery, a, c, h)
    BY <2>1, <2>2, <2>3, NewCell
  <2>5. n \in Node \ Pure /\ memo[n] = Null /\ result' = Null /\ entries' = entries
    BY <1>5, ProgramAssumption DEF Node, Produce, Asks
  <2> QED BY <1>4, <2>1, <2>2, <2>4, <2>5 DEF Made, Value
<1>6. ASSUME NEW n \in Constant, ConstantHit(n) \/ ConstantMiss(n)
      PROVE  KeyInv'
  <2>1. /\ n \in Node \ Pure /\ memo[n] = Null /\ result' = Null /\ entries' = entries
        /\ AttrOf[n] \in Attr
    BY <1>6, ProgramAssumption DEF Node, ConstantHit, ConstantMiss, Asks
  <2>2. PICK h \in Value : Memoize(n, h, Null)
    <3>1. CASE ConstantHit(n)
      <4>1. constants[AttrOf[n]].value \in Value
        BY <2>1, <3>1 DEF ConstantHit, LiveInv, TypeOK
      <4> QED BY <3>1, <4>1 DEF ConstantHit
    <3>2. CASE InsertConstant(n, Null)
      BY <3>2 DEF InsertConstant, Value
    <3>3. ASSUME NEW a \in Addr, NEW c \in Converts[AttrOf[n]], New(Cache, a, c),
                 InsertConstant(n, HandleTo(Cache, a, c))
          PROVE  \E h \in Value : Memoize(n, h, Null)
      <4>1. PICK h : h = HandleTo(Cache, a, c)
        OBVIOUS
      <4>2. TypeOK /\ Cache \in {Cache, InQuery} /\ c \in Content
        BY <2>1, ProgramAssumption DEF LiveInv
      <4>3. Made(Cache, a, c, h)
        BY <3>3, <4>1, <4>2, NewCell
      <4> QED BY <3>3, <4>1, <4>3 DEF InsertConstant, Made, Value
    <3> QED BY <1>6, <3>1, <3>2, <3>3 DEF ConstantMiss
  <2> QED BY <1>4, <2>1, <2>2
<1>7. ASSUME NEW n \in Pure, Hit(n)
      PROVE  KeyInv'
  <2>1. result' = Null /\ entries' = entries
    BY <1>7 DEF Hit, Asks
  <2> QED BY <1>1, <1>7, <2>1, HitFits
<1>8. ASSUME NEW n \in Pure, Evaluate(n)
      PROVE  KeyInv'
  <2>1. /\ entries' = entries /\ memo' = memo /\ memo[Operand[n]] # Null
        /\ result'.op = n /\ result'.key = Key(n)
    BY <1>8 DEF Evaluate
  <2>2. KeyFits(n, Key(n), Basis(n))
    BY <2>1, BasisFits
  <2>3. ResultFits'
    BY <2>1, <2>2 DEF ResultFits, Basis
  <2>4. OperandFirst' /\ KeysHold'
    BY <2>1 DEF KeyInv, OperandFirst, KeysHold, Answered, Basis
  <2> QED BY <2>1, <2>3, <2>4, EntriesStay DEF KeyInv
<1>9. CASE Store
  BY <1>9, StoreFits
<1>10. CASE Forgo
  <2>1. PICK n, v : n = result.op /\ v = result.value
    OBVIOUS
  <2>2. /\ result # Null /\ v \in Value /\ Memoize(n, v, Basis(n)) /\ result' = Null
        /\ entries' = entries
    BY <1>10, <2>1 DEF Forgo, LiveInv, TypeOK
  <2>3. OperandFirst' /\ KeysHold'
    BY <2>1, <2>2, ReturnFits
  <2> QED BY <1>1, <2>2, <2>3
<1>11. CASE UNCHANGED vars
  <2>1. ResultFits' /\ OperandFirst' /\ KeysHold'
    BY <1>11 DEF vars, KeyInv, ResultFits, OperandFirst, KeysHold, Answered, Basis
  <2> QED BY <1>11, <2>1, EntriesStay DEF vars, KeyInv
<1> QED BY <1>2, <1>3, <1>5, <1>6, <1>7, <1>8, <1>9, <1>10, <1>11 DEF Next

LEMMA InitKeys == Init => KeyInv
<1> SUFFICES ASSUME Init PROVE KeyInv
  OBVIOUS
<1>1. \A n \in Pure : memo[n] = Null
  BY DEF Init, NoMemo, Node
<1> QED BY <1>1 DEF Init, KeyInv, EntriesFit, OperandFirst, ResultFits, KeysHold,
                    Answered

(* An operation is answered from an entry of an equal operand, except where*)
(* the entry's operand was an instance of a query's own.                   *)
THEOREM EqualOperands == Spec => []KeysHold
<1>1. LiveInv /\ KeyInv /\ [Next]_vars => KeyInv'
  BY StepKeys
<1>2. KeyInv => KeysHold
  BY DEF KeyInv
<1> QED BY <1>1, <1>2, InitKeys, LiveInvariant, PTL DEF Spec
=============================================================================
