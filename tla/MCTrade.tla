------------------------------- MODULE MCTrade -------------------------------
(* An instance of Trade for TLC.  At most two relics may be carried: ann has two, bob
   one and a stack of two arrows.  r4 is free for a copy of a relic. *)
EXTENDS Trade

CONSTANTS ann, bob, r1, r2, r3, r4, arrows

Relic == {r1, r2, r3, r4}
Kinds == [i \in Item |-> IF i \in Relic THEN "relic" ELSE "arrow"]
Limits == [relic |-> 2, arrow |-> 0]
Places == (ann :> 2) @@ (bob :> 3)
Start == (r1 :> ann) @@ (r2 :> ann) @@ (r3 :> bob) @@ (arrows :> bob) @@ (r4 :> None)
Sizes == [i \in Item |-> IF i = r4 THEN 0 ELSE IF i = arrows THEN 2 ELSE 1]
Alike == Permutations({r1, r2})
Purse == (ann :> 1) @@ (bob :> 1)
=============================================================================
