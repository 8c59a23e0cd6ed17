---------------------------- MODULE QueryService ----------------------------
(***************************************************************************)
(* What an engine promises its host: a query of a value is answered, once, *)
(* with what the value means, or with a signal.  There is no cache here, no*)
(* memo, no loop and no earlier query: none of them may be seen in an      *)
(* answer.  Interp implements it; see ImplementsService in Denotation.     *)
(***************************************************************************)
EXTENDS Naturals

CONSTANTS
  Value,
  Meaning(_),   \* what a value means, of those with a meaning
  NeedsItself,  \* the values without one
  Budgets,
  Exhausted, Cycle, \* the signals
  None          \* no value, no reply

VARIABLES
  asked,     \* the value asked for
  reply,
  remaining  \* steps left of the query's budget
vars == <<asked, reply, remaining>>

(* A budget only ever ends a query when nothing is left of it.             *)
Replies(v, left) ==
  (IF v \in NeedsItself THEN {Cycle} ELSE {Meaning(v)})
  \cup (IF left = 0 THEN {Exhausted} ELSE {})

Init == asked = None /\ reply = None /\ remaining = 0

(* What needs no evaluation is answered at once.                           *)
Ask ==
  /\ asked = None
  /\ asked' \in Value /\ remaining' \in Budgets
  /\ reply' \in {None} \cup Replies(asked', remaining')

Spend ==
  /\ asked # None /\ reply = None /\ remaining > 0
  /\ remaining' = remaining - 1
  /\ UNCHANGED <<asked, reply>>

Reply ==
  /\ asked # None /\ reply = None
  /\ reply' \in Replies(asked, remaining)
  /\ UNCHANGED <<asked, remaining>>

Take ==
  /\ reply # None
  /\ asked' = None /\ reply' = None
  /\ UNCHANGED remaining

Next == Ask \/ Spend \/ Reply \/ Take

(* Nobody asks in vain.                                                    *)
Returns == asked # None ~> asked = None

Spec == Init /\ [][Next]_vars /\ Returns
=============================================================================
