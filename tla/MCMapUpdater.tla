---------------------------- MODULE MCMapUpdater ----------------------------
(* Instances of MapUpdater for TLC. *)
EXTENDS MapUpdater

CONSTANTS dungeon, continent   \* an instanceable base map and another one

\* The instances belong to one of the base maps.
DungeonParent == [i \in Instance |-> dungeon]
=============================================================================
