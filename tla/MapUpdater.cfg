CONSTANTS
  dungeon = dungeon
  continent = continent
  Worker = {w1, w2, w3}
  BaseMap = {dungeon, continent}
  Instance = {i1, i2, i3}
  Parent <- DungeonParent
  NoMap = NoMap
SPECIFICATION Spec
INVARIANTS CountIsExact RequestsAreSound
PROPERTIES AbstractSpec TickEnds ShutdownEnds
