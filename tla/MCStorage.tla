----------------------------- MODULE MCStorage -----------------------------
(***************************************************************************)
(* Instances of Storage.  Contents: five and seven compare by content,     *)
(* blob and shadow are of a class that keeps identity.                     *)
(***************************************************************************)
EXTENDS Storage, TLC

CONSTANTS e1, e2, a1, a2, a3, a4, a5, five, seven, blob,
          s, c, d, u, f, g, p, q, x, y, poison, missing

(* Addresses are alike.                                                    *)
AnyAddr == Permutations(Addr)

(* s reads something new in every query; f and g forward it, and each is   *)
(* cached.  c is a constant that shares an identity value, d one without.  *)
LifetimeOperand == (f :> s) @@ (g :> s) @@ (y :> d)
LifetimeMakes == (s :> {five}) @@ (f :> {}) @@ (g :> {}) @@ (y :> {five})
LifetimeAttr == (c :> poison) @@ (d :> missing)
LifetimeConverts == (poison :> {blob}) @@ (missing :> {})

(* p and q make an instance from what s reads, and are equivalent; x and y *)
(* forward theirs.                                                         *)
KeysOperand == (p :> s) @@ (q :> s) @@ (x :> p) @@ (y :> q)
KeysMakes == (s :> {five, seven}) @@ (p :> {blob}) @@ (q :> {blob}) @@ (x :> {})
             @@ (y :> {})
KeysName == (p :> "make") @@ (q :> "make") @@ (x :> "use") @@ (y :> "use")

(* u answers with a new instance in every query, and x forwards it.        *)
InstanceOperand == (x :> u)
InstanceMakes == (u :> {blob}) @@ (x :> {})
NoConstants == <<>>

OwnName == [o \in Pure |-> o]
=============================================================================
