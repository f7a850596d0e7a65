------------------------------ MODULE MCJsScope ------------------------------
(***************************************************************************)
(* Instances of JsScope for TLC.                                           *)
(***************************************************************************)
EXTENDS JsScope, TLC

CONSTANTS t1, t2, t3, x, y, sx, sy, f1, f2, f3, f4, c1, c2, c3, c4

SvarOf == (f1 :> c1) @@ (f2 :> c2) @@ (f3 :> c3) @@ (f4 :> c4)
LockOf == (c1 :> f1) @@ (c2 :> f2) @@ (c3 :> f3) @@ (c4 :> f4)

Fats   == <<f1, f2, f3, f4>>
Scopes == (x :> sx) @@ (y :> sy)

Calls(n1, n2, n3) == (t1 :> n1) @@ (t2 :> n2) @@ (t3 :> n3)

\* Two threads lock and mutate two objects; three share the lock of one object.
Separate == {[calls |-> Calls(2, 1, 0), objects |-> {x, y}, writers |-> {t1, t2}],
             [calls |-> Calls(2, 1, 1), objects |-> {x}, writers |-> {}]}

\* Three threads lock an object that the first of them may mutate.
Mixed == {[calls |-> Calls(1, 1, 1), objects |-> {x}, writers |-> {t1}]}
=============================================================================
