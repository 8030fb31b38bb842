---------------------------- MODULE MCInstances ----------------------------
\* Instances for TLC: two players, one dungeon and one raid, two ids.  Players are
\* interchangeable: nothing chooses among them except sets that are folded over
\* with operators whose order does not matter.
EXTENDS Instances, TLC

Players == Permutations(Player)
=============================================================================
