------------------------------ MODULE MCPlEvent ------------------------------
(***************************************************************************)
(* Instances of PlEvent for TLC.                                           *)
(***************************************************************************)
EXTENDS PlEvent, TLC

CONSTANTS h, p, q, m1, m2, queueCv, cv1, cv2, e1, e2, owner

CvarOf == (QueueMonitor :> queueCv) @@ (m1 :> cv1) @@ (m2 :> cv2)
LockOf == (queueCv :> QueueMonitor) @@ (cv1 :> m1) @@ (cv2 :> m2)
Cache  == <<m1, m2>>

\* Both events have the owner that q revokes.
Posts      == (p :> e1) @@ (q :> e2)
Owners     == (e1 :> owner) @@ (e2 :> owner)
Revocation == q :> owner
=============================================================================
