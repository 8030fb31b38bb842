CONSTANTS
  Player = {p1, p2}
  Dungeon = {icecrown}
  Raid = {icecrown}
  IgnoreRaid = FALSE
  MaxId = 1
  MaxDue = 1
  MaxVisits = 3
  MaxGames = 0
  None = None
SPECIFICATION Spec
SYMMETRY Players
PROPERTIES PermanentIsProtected
