------------------------------- MODULE MCSELCC -------------------------------
(***************************************************************************)
(* Instances of SELCC for TLC.                                             *)
(***************************************************************************)
EXTENDS SELCC, TLC

CONSTANTS a1, a2, b1, c1

Two == (a1 :> 0) @@ (b1 :> 1)
Three == (a1 :> 0) @@ (b1 :> 1) @@ (c1 :> 2)
TwoPlusOne == (a1 :> 0) @@ (a2 :> 0) @@ (b1 :> 1)

ReadsWrites == [t \in Thread |-> {"read", "write"}]
Mixed == (a1 :> {"write"}) @@ (b1 :> {"write"}) @@ (c1 :> {"read"})
Tries == (a1 :> {"read", "write"}) @@ (b1 :> {"tryread", "trywrite", "upgrade"})
LocalOps == (a1 :> {"write"}) @@ (a2 :> {"read", "write"}) @@ (b1 :> {"write", "upgrade"})
WithUpgrade == [t \in Thread |-> {"read", "write", "upgrade"}]
=============================================================================
