------------------------ MODULE MCKiteUserNamespace ------------------------
(***************************************************************************)
(* Instances of KiteUserNamespace for TLC.                                 *)
(***************************************************************************)
EXTENDS KiteUserNamespace, TLC

CONSTANTS u1, u2, n1, n2, f1

OneHome == [u \in {u1} |-> n1]
TwoHomes == (u1 :> n1) @@ (u2 :> n2)
UserAndNs == {"user", "ns"}
UserAndNp == {"user", "np"}

\* Bound: only u2 is updated.
OneMoves == gen[u1] <= 1
=============================================================================
