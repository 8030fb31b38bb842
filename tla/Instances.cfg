CONSTANTS
  Player = {p1, p2}
  Dungeon = {deadmines, icecrown}
  Raid = {icecrown}
  IgnoreRaid = FALSE
  MaxId = 2
  MaxDue = 1
  MaxVisits = 2
  MaxGames = 2
  None = None
SPECIFICATION Spec
SYMMETRY Players
INVARIANTS NothingIssuedTwice BindsMatchSaves AssertionsHold UnloadsNobody
PROPERTIES NotUnderPlayers
