--------------------------- MODULE MCWorldSessions ---------------------------
(* Instances of WorldSessions for TLC: `ann' has two session objects, so that it can
   reconnect, and the other accounts have one. *)
EXTENDS WorldSessions

CONSTANTS ann, bob, cat, a1, a2, b1, c1

Owner == (a1 :> ann) @@ (a2 :> ann) @@ (b1 :> bob) @@ (c1 :> cat)
OwnerOfThree == (a1 :> ann) @@ (a2 :> ann) @@ (b1 :> bob)
=============================================================================
