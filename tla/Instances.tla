------------------------------ MODULE Instances ------------------------------
(***************************************************************************)
(* Instances of dungeons: the maps, the InstanceSaves that remember them,  *)
(* the binds of players and of their group to these saves, the tables      *)
(* instance and character_instance, and the scheduled and global resets.   *)
(* All of it happens on the world thread (or on a map thread for which it  *)
(* waits), one handler at a time; what makes it hard is that a save, its   *)
(* map, its binds, its rows and its id live and die at different times.    *)
(*                                                                         *)
(* world is one record, because a handler is a chain of calls each of      *)
(* which sees what the one before has done.  A call is an operator from a  *)
(* record to a record; an action is one handler.                           *)
(***************************************************************************)
EXTENDS InstanceIds, FiniteSetsExt

CONSTANTS
  Player,         \* characters
  Dungeon,        \* dungeons at one difficulty each
  Raid,           \* those with permanent binds and global resets
  IgnoreRaid,     \* CONFIG_INSTANCE_IGNORE_RAID: raids may be entered without a group
  MaxDue,         \* bound: pending reset events of one instance
  MaxVisits,      \* bound: how often players enter a dungeon
  MaxGames,       \* bound: battlegrounds at a time
  None            \* no save, bind, row, place, leader or pending bind

ASSUME RaidAssumption == Raid \subseteq Dungeon /\ IgnoreRaid \in BOOLEAN

ASSUME FinitenessAssumption == IsFiniteSet(Player) /\ IsFiniteSet(Dungeon)

ASSUME BoundsAssumption == MaxDue \in Nat /\ MaxVisits \in Nat

VARIABLES
  world,          \* see World
  pending,        \* _pendingBindId of each player, or None
  games,          \* the ids of the battlegrounds
  visits          \* entries into dungeons so far, for the bound only

vars == <<world, pending, games, visits, idVars>>

Normal == Dungeon \ Raid
Spot == Dungeon \X Id
Save == [dungeon: Dungeon, players: SUBSET Player, group: BOOLEAN, canReset: BOOLEAN]
Row  == [perm: BOOLEAN, lasts: BOOLEAN]     \* lasts: extendState is not EXPIRED
Bind == [id: Id, perm: BOOLEAN, lasts: BOOLEAN]
GroupBind == [id: Id, perm: BOOLEAN]

Place == [on: {"world", "transit", "offline"}, spot: Spot \cup {None}, valid: BOOLEAN]

World == [save: [Id -> Save \cup {None}],                  \* m_instanceSaveById
          own: [Player -> [Dungeon -> Bind \cup {None}]],  \* Player::m_boundInstances
          grp: [Dungeon -> GroupBind \cup {None}],         \* Group::m_boundInstances
          rows: [Player -> [Id -> Row \cup {None}]],       \* character_instance
          stored: [Id -> Dungeon \cup {None}],             \* instance
          map: [Spot -> {"none", "kept", "unloading"}],    \* m_InstancedMaps, m_unloadTimer
          due: [Normal \X Id -> 0..MaxDue],                \* m_resetTimeQueue
          at: [Player -> Place],
          members: SUBSET Player,                          \* the group, {} if there is none
          leader: Player \cup {None},
          sound: BOOLEAN]                                  \* no ASSERT and no check of binds has failed

ASSUME NoneAssumption ==
  None \notin Save /\ None \notin Bind /\ None \notin GroupBind /\ None \notin Row
  /\ None \notin Spot /\ None \notin Dungeon /\ None \notin Id

TypeOK ==
  /\ world \in World
  /\ pending \in [Player -> Id \cup {None}]
  /\ games \subseteq Id
  /\ visits \in 0..MaxVisits
  /\ IdTypeOK

Init ==
  /\ world = [save |-> [i \in Id |-> None],
              own |-> [p \in Player |-> [d \in Dungeon |-> None]],
              grp |-> [d \in Dungeon |-> None],
              rows |-> [p \in Player |-> [i \in Id |-> None]],
              stored |-> [i \in Id |-> None],
              map |-> [s \in Spot |-> "none"],
              due |-> [s \in Normal \X Id |-> 0],
              at |-> [p \in Player |-> [on |-> "world", spot |-> None, valid |-> TRUE]],
              members |-> {}, leader |-> None, sound |-> TRUE]
  /\ pending = [p \in Player |-> None]
  /\ games = {}
  /\ visits = 0
  /\ InitInstanceIds({})

-----------------------------------------------------------------------------
\* Players in maps

\* m_mapRefManager: a player in transit is linked until the client acknowledges.
Linked(w, s) == {p \in Player : w.at[p].on # "offline" /\ w.at[p].spot = s}

HavePlayers(w, s) == Linked(w, s) # {}

InGroup(w, p) == p \in w.members

\* Player::GetBoundInstance
GetBoundInstance(w, p, d) ==
  IF w.own[p][d] # None /\ w.own[p][d].lasts THEN w.own[p][d] ELSE None

\* Player::GetInstanceSave, as the id of the save
GetInstanceSave(w, p, d) ==
  LET b == GetBoundInstance(w, p, d)
  IN IF (b = None \/ ~b.perm) /\ InGroup(w, p) /\ w.grp[d] # None THEN w.grp[d].id
     ELSE IF b # None THEN b.id ELSE None

\* Player::CheckInstanceValidity
CheckInstanceValidity(w, p) ==
  w.at[p].spot # None =>
    LET d == w.at[p].spot[1]
        i == w.at[p].spot[2]
        b == GetBoundInstance(w, p, d)
    IN IF InGroup(w, p)
       THEN /\ w.grp[d] # None /\ w.grp[d].id = i
            /\ \A q \in Linked(w, w.at[p].spot) : w.at[q].valid => InGroup(w, q)
       ELSE /\ d \in Raid => IgnoreRaid
            /\ Linked(w, w.at[p].spot) = {p}
            /\ b # None /\ b.id = i

-----------------------------------------------------------------------------
\* Saves and binds

\* InstanceSave::UnloadIfEmpty, RemoveInstanceSave and the deletion that follows
UnloadIfEmpty(w, i) ==
  IF /\ w.save[i] # None
     /\ w.save[i].players = {} /\ ~w.save[i].group
     /\ ~HavePlayers(w, <<w.save[i].dungeon, i>>)
  THEN [w EXCEPT !.save[i] = None]
  ELSE w

RemovePlayer(w, p, i) == UnloadIfEmpty([w EXCEPT !.save[i].players = @ \ {p}], i)

RemoveGroup(w, i) == UnloadIfEmpty([w EXCEPT !.save[i].group = FALSE], i)

ScheduleReset(w, d, i) ==
  [w EXCEPT !.due[<<d, i>>] = IF @ < MaxDue THEN @ + 1 ELSE @]

\* InstanceSaveManager::AddInstanceSave for a new instance (load is false).  A row
\* that is already there makes the INSERT fail.
AddInstanceSave(w, d, i) ==
  IF w.save[i] # None THEN w
  ELSE LET w1 == [w EXCEPT
                    !.save[i] = [dungeon |-> d, players |-> {}, group |-> FALSE,
                                 canReset |-> TRUE],
                    !.stored[i] = IF @ = None THEN d ELSE @]
       IN IF d \in Normal THEN ScheduleReset(w1, d, i) ELSE w1

\* InstanceMap::SetResetSchedule(true).  With false it never does anything: the
\* player who enters is linked to the map before it is called.
SetResetSchedule(w, s) ==
  IF ~HavePlayers(w, s) /\ s[1] \in Normal /\ w.save[s[2]] # None
  THEN ScheduleReset(w, s[1], s[2]) ELSE w

\* DeleteInstanceFromDB
DeleteFromDB(w, i) ==
  [w EXCEPT !.stored[i] = None,
            !.rows = [p \in Player |-> [@[p] EXCEPT ![i] = None]]]

\* Player::UnbindInstance with unload = false
UnbindPlayer(w, p, d) ==
  IF w.own[p][d] = None THEN w
  ELSE LET i == w.own[p][d].id
       IN [RemovePlayer([w EXCEPT !.rows[p][i] = None], p, i) EXCEPT !.own[p][d] = None]

\* Mutant: the old save is not told.
BindPlayer_Bug(w, p, i, row, load) ==
  LET d == w.save[i].dungeon
  IN [w EXCEPT !.own[p][d] = [id |-> i, perm |-> row.perm, lasts |-> row.lasts],
               !.rows[p][i] = row,
               !.save[i].players = @ \cup {p},
               !.save[i].canReset = @ /\ ~row.perm]

\* Player::BindToInstance.  An UPDATE moves the row of the old save, if there is
\* one and none for the new save; an INSERT fails if there is one.
BindPlayer(w, p, i, row, load) ==
  LET d == w.save[i].dungeon
      old == w.own[p][d]
      rows == w.rows[p]
      moved == IF old = None
               THEN [rows EXCEPT ![i] = IF @ = None THEN row ELSE @]
               ELSE IF rows[old.id] = None \/ (old.id # i /\ rows[i] # None) THEN rows
                    ELSE [rows EXCEPT ![old.id] = None, ![i] = row]
      w1 == IF load THEN w ELSE [w EXCEPT !.rows[p] = moved]
      w2 == IF old # None /\ old.id # i THEN RemovePlayer(w1, p, old.id) ELSE w1
  IN [w2 EXCEPT !.own[p][d] = [id |-> i, perm |-> row.perm, lasts |-> row.lasts],
                !.save[i].players = @ \cup {p},
                !.save[i].canReset = @ /\ ~row.perm]

SoloRow == [perm |-> FALSE, lasts |-> TRUE]
PermRow == [perm |-> TRUE, lasts |-> TRUE]

\* Group::BindToInstance
BindGroup(w, i, perm) ==
  LET d == w.save[i].dungeon
      old == w.grp[d]
      w1 == IF old # None /\ old.id # i THEN RemoveGroup(w, old.id) ELSE w
  IN [w1 EXCEPT !.grp[d] = [id |-> i, perm |-> perm], !.save[i].group = TRUE]

\* InstanceMap::Reset: a map without players is unloaded soon.  Players inside
\* are told, or (INSTANCE_RESET_GLOBAL) sent home unless their bind lasts.
ResetMap(w, s, global) ==
  IF w.map[s] = "none" THEN w
  ELSE IF ~HavePlayers(w, s) THEN [w EXCEPT !.map[s] = "unloading"]
  ELSE LET Stays(p) == LET b == GetBoundInstance(w, p, s[1])
                       IN b # None /\ b.id = s[2]
       IN [w EXCEPT !.at = [p \in Player |->
             IF global /\ p \in Linked(w, s) /\ ~Stays(p)
             THEN [@[p] EXCEPT !.valid = FALSE] ELSE @[p]]]

-----------------------------------------------------------------------------
\* Entering and leaving

\* Mutant: the player's own bind counts only if it is permanent.
Destination_Bug(w, p, d, login) ==
  LET b == GetBoundInstance(w, p, d)
  IN IF b # None /\ b.perm THEN b.id
     ELSE IF login # None THEN login
     ELSE IF InGroup(w, p) /\ w.grp[d] # None THEN w.grp[d].id ELSE None

\* MapInstanced::CreateInstanceForPlayer, without what it does if nothing tells
\* the instance: then the caller generates an id.
\* The player's permanent bind, the id of the login, the group's bind, the own bind.
Destination(w, p, d, login) ==
  LET b == GetBoundInstance(w, p, d)
  IN IF b # None /\ b.perm THEN b.id
     ELSE IF login # None THEN login
     ELSE IF InGroup(w, p) /\ w.grp[d] # None THEN w.grp[d].id
     ELSE IF b # None THEN b.id ELSE None

\* Solo saves are reset when a group's instance is entered.
UsesGroupBind(w, p, d, login) ==
  LET b == GetBoundInstance(w, p, d)
  IN (b = None \/ ~b.perm) /\ login = None /\ InGroup(w, p) /\ w.grp[d] # None

\* MapInstanced::CreateInstance if the map does not exist: its unload timer runs.
CreateInstance(w, s) == [w EXCEPT !.map[s] = IF @ = "none" THEN "unloading" ELSE @]

\* Where CreateInstanceForPlayer sends the player: to a new instance if nothing tells it.
SpotFor(w, p, d, login) ==
  LET t == Destination(w, p, d, login)
  IN <<d, IF t = None THEN nextId ELSE t>>

\* A new instance takes the next id.
TakesId(w, p, d, login) ==
  IF Destination(w, p, d, login) = None THEN GenerateInstanceId ELSE KeepIds

\* MapInstanced::CreateInstanceForPlayer: a solo bind goes when the group has one.
CreateInstanceForPlayer(w, p, d, login) ==
  CreateInstance(IF UsesGroupBind(w, p, d, login) THEN UnbindPlayer(w, p, d) ELSE w,
                 SpotFor(w, p, d, login))

\* InstanceMap::CannotEnter, the part that depends on binds
BindMismatch(w, p, s) ==
  LET b == GetBoundInstance(w, p, s[1])
  IN b # None /\ b.perm /\ b.id # s[2]

\* Where AddPlayerToMap returns false: the bind that counts is to another save
Rejected(w, p, s) ==
  LET b == GetBoundInstance(w, p, s[1])
  IN \/ b # None /\ b.id # s[2] /\ (b.perm \/ InGroup(w, p))
     \/ /\ b = None \/ ~b.perm
        /\ InGroup(w, p) /\ w.grp[s[1]] # None /\ w.grp[s[1]].id # s[2]

\* Mutant: the unload timer is not stopped.
AddPlayerToMap_Bug(w, p, s) ==
  LET b == GetBoundInstance(w, p, s[1])
      w1 == AddInstanceSave(w, s[1], s[2])
  IN IF b # None /\ b.perm THEN w1
     ELSE IF InGroup(w, p)
          THEN IF w1.grp[s[1]] = None THEN BindGroup(w1, s[2], FALSE) ELSE w1
          ELSE IF b = None THEN BindPlayer(w1, p, s[2], SoloRow, FALSE) ELSE w1

\* InstanceMap::AddPlayerToMap for a player it does not reject
AddPlayerToMap(w, p, s) ==
  LET b == GetBoundInstance(w, p, s[1])
      w1 == AddInstanceSave(w, s[1], s[2])
      w2 == IF b # None /\ b.perm THEN w1
            ELSE IF InGroup(w, p)
                 THEN IF w1.grp[s[1]] = None THEN BindGroup(w1, s[2], FALSE) ELSE w1
                 ELSE IF b = None THEN BindPlayer(w1, p, s[2], SoloRow, FALSE)
                      ELSE [w1 EXCEPT !.sound = @ /\ b.id = s[2]]
  IN [w2 EXCEPT !.map[s] = "kept"]

\* AddPlayerToMap asks a member of a group that is bound permanently to join.
AsksForBind(w, p, s) ==
  LET b == GetBoundInstance(w, p, s[1])
  IN /\ b = None \/ ~b.perm
     /\ InGroup(w, p) /\ w.grp[s[1]] # None /\ w.grp[s[1]].perm

\* InstanceMap::RemovePlayerFromMap; with gone the player object is deleted.
RemovePlayerFromMap(w, p, gone) ==
  LET s == w.at[p].spot
      w1 == IF w.map[s] = "kept" /\ Linked(w, s) = {p}
            THEN [w EXCEPT !.map[s] = "unloading"] ELSE w
      w2 == [w1 EXCEPT !.at[p].on = IF gone THEN "offline" ELSE "transit"]
  IN UnloadIfEmpty(SetResetSchedule(w2, s), s[2])

\* MapManager::PlayerCannotEnter, as far as binds and groups matter
PlayerCannotEnter(w, p, d) ==
  \/ d \in Raid /\ ~IgnoreRaid /\ ~InGroup(w, p)
  \/ /\ InGroup(w, p) /\ w.grp[d] # None
     /\ LET s == <<d, w.grp[d].id>> IN w.map[s] # "none" /\ BindMismatch(w, p, s)

\* TeleportTo from a dungeon: the player is out of the map and linked to it.
TeleportTo(p) ==
  /\ world.at[p].on = "world" /\ world.at[p].spot # None
  /\ world' = RemovePlayerFromMap(world, p, FALSE)
  /\ UNCHANGED <<pending, games, visits>> /\ KeepIds

\* A place that is no dungeon
PutOutside(w, p) == [w EXCEPT !.at[p] = [on |-> "world", spot |-> None, valid |-> TRUE]]

\* HandleMoveWorldportAck at a place that is no dungeon
ArriveOutside(p) ==
  /\ world.at[p].on = "transit"
  /\ world' = PutOutside(world, p)
  /\ UNCHANGED <<pending, games, visits>> /\ KeepIds

\* HandleMoveWorldportAck in a dungeon; from outside the loading screen does not
\* matter here, so TeleportTo is part of the step.  full: the map does not take
\* anybody now.  A player who may not enter is sent home, from the old map.
Arrive(p, d, full) ==
  LET at == world.at[p]
      s == SpotFor(world, p, d, None)
      w1 == CreateInstanceForPlayer(world, p, d, None)
      w2 == [w1 EXCEPT !.at[p].on = "world", !.at[p].spot = s]
      w3 == AddPlayerToMap(w2, p, s)
  IN /\ at.on = "transit" \/ (at.on = "world" /\ at.spot = None)
     /\ at.spot # None => at.spot[1] # d
     /\ ~PlayerCannotEnter(world, p, d)
     /\ TakesId(world, p, d, None)
     /\ IF full \/ BindMismatch(w1, p, s)
        THEN world' = w1 /\ UNCHANGED pending
        ELSE IF Rejected(w2, p, s)
        THEN world' = [AddInstanceSave(w2, d, s[2])
                          EXCEPT !.at[p] = at, !.sound = FALSE] /\ UNCHANGED pending
        ELSE /\ world' = [w3 EXCEPT !.at[p].valid = @ /\ CheckInstanceValidity(w3, p)]
             /\ pending' = IF AsksForBind(w2, p, s) THEN [pending EXCEPT ![p] = s[2]]
                           ELSE pending
     /\ visits < MaxVisits /\ visits' = visits + 1
     /\ UNCHANGED games

\* LogoutPlayer: CleanupsBeforeDelete takes the player off its saves, then it
\* leaves the map.  With a pending bind or in an invalid instance the player is
\* sent out first (Decline or TeleportTo, and ArriveOutside).
LogoutPlayer(p) ==
  LET bound == {d \in Dungeon : world.own[p][d] # None}
      w1 == FoldSet(LAMBDA d, w : RemovePlayer(w, p, w.own[p][d].id), world, bound)
      w2 == IF w1.at[p].spot = None THEN [w1 EXCEPT !.at[p].on = "offline"]
            ELSE RemovePlayerFromMap(w1, p, TRUE)
  IN /\ world.at[p].on = "world" /\ world.at[p].valid /\ pending[p] = None
     /\ world' = [w2 EXCEPT !.own[p] = [d \in Dungeon |-> None]]
     /\ UNCHANGED <<pending, games, visits>> /\ KeepIds

\* One row in _LoadBoundInstances: binds without an instance, and binds of a
\* group's member that are not permanent, are deleted.
LoadRow(w, p, i) ==
  LET row == w.rows[p][i]
      w1 == IF w.save[i] # None THEN w
            ELSE [w EXCEPT !.save[i] = [dungeon |-> w.stored[i], players |-> {},
                                        group |-> FALSE, canReset |-> ~row.perm]]
  IN IF w.stored[i] = None \/ (~row.perm /\ InGroup(w, p))
     THEN [w EXCEPT !.rows[p][i] = None]
     ELSE BindPlayer(w1, p, i, row, TRUE)

\* _LoadBoundInstances
LoadBoundInstances(w, p) ==
  FoldSet(LAMBDA i, v : LoadRow(v, p, i), [w EXCEPT !.at[p].valid = TRUE],
          {i \in Id : w.rows[p][i] # None})

\* The instance that the character was in, unless its bind or its group's says otherwise
LoginId(w, p, spot) ==
  IF GetInstanceSave(w, p, spot[1]) \in {None, spot[2]} THEN spot[2] ELSE None

\* AddPlayerToMap in HandlePlayerLogin; who may not enter comes back outside.
LoginTo(w, p, s, full) ==
  LET w1 == [w EXCEPT !.at[p].on = "world", !.at[p].spot = s]
      w2 == [w1 EXCEPT !.at[p].valid = CheckInstanceValidity(w1, p)]
  IN IF full \/ BindMismatch(w, p, s)
     THEN world' = PutOutside(w, p) /\ UNCHANGED pending
     ELSE IF Rejected(w2, p, s)
     THEN /\ world' = [AddInstanceSave(w2, s[1], s[2])
                       EXCEPT !.at[p].on = "transit", !.sound = FALSE]
          /\ UNCHANGED pending
     ELSE /\ world' = AddPlayerToMap(w2, p, s)
          /\ pending' = IF AsksForBind(w2, p, s) THEN [pending EXCEPT ![p] = s[2]] ELSE pending

\* LoadFromDB: the character comes back where it was, in another instance, or outside
\* if its instance has no map any more.  If the map is there and its save is not, the
\* character comes back at the entrance, which is in the same map.
LoginPlayer(p, full) ==
  LET w == LoadBoundInstances(world, p)
      spot == world.at[p].spot
      d == spot[1]
      login == LoginId(w, p, spot)
      b == GetBoundInstance(w, p, d)
      lost == login # None /\ (b = None \/ ~b.perm) /\ w.map[SpotFor(w, p, d, login)] = "none"
  IN /\ world.at[p].on = "offline"
     /\ IF spot = None \/ lost
        THEN world' = PutOutside(w, p) /\ UNCHANGED <<pending, visits>> /\ KeepIds
        ELSE /\ visits < MaxVisits /\ visits' = visits + 1
             /\ TakesId(w, p, d, login)
             /\ LoginTo(CreateInstanceForPlayer(w, p, d, login), p, SpotFor(w, p, d, login), full)
     /\ UNCHANGED games

\* MapInstanced::Update finds the unload timer run out: DestroyInstance.
DestroyInstance(s) ==
  LET inside == {p \in Linked(world, s) : world.at[p].on = "world"}
  IN /\ world.map[s] = "unloading"
     /\ world' = IF HavePlayers(world, s)
                 THEN FoldSet(LAMBDA p, w : RemovePlayerFromMap(w, p, FALSE), world, inside)
                 ELSE [world EXCEPT !.map[s] = "none"]
     /\ UNCHANGED <<pending, games, visits>> /\ KeepIds

-----------------------------------------------------------------------------
\* Groups.  There is at most one, of two players; it is a raid group, which its
\* members stay in when they log out.

Connected(p) == world.at[p].on # "offline"

\* The group takes over the leader's bind to d, if it has none or is new.
ConvertBind(w, p, d, switch) ==
  LET b == w.own[p][d]
      w1 == IF (~switch \/ w.grp[d] = None) /\ b.lasts THEN BindGroup(w, b.id, b.perm) ELSE w
  IN IF b = None THEN w
     ELSE IF switch /\ ~b.perm THEN UnbindPlayer(w1, p, d) ELSE w1

\* ConvertLeaderInstancesToGroup; switch is switchLeader.  At the end a new group
\* takes over the leader's instance if nobody is bound to it.
ConvertLeaderInstancesToGroup(w, p, switch) ==
  LET w1 == FoldSet(LAMBDA d, v : ConvertBind(v, p, d, switch), w, Dungeon)
      spot == w.at[p].spot
      Unbound(i) == w1.save[i] # None /\ w1.save[i].players = {} /\ ~w1.save[i].group
  IN IF ~switch /\ spot # None /\ spot[1] \in Normal /\ Unbound(spot[2])
     THEN BindGroup(w1, spot[2], FALSE) ELSE w1

\* Mutant: the map is not asked whether it has players.
ResetBind_Bug(w, p, d) ==
  LET i == w.own[p][d].id
  IN IF w.own[p][d] = None \/ ~w.save[i].canReset THEN w
     ELSE RemovePlayer([DeleteFromDB(ResetMap(w, <<d, i>>, FALSE), i)
                          EXCEPT !.own[p][d] = None], p, i)

\* Player::ResetInstances for one bind, and for those to dungeons of D
ResetBind(w, p, d) ==
  LET i == w.own[p][d].id
  IN IF w.own[p][d] = None \/ ~w.save[i].canReset \/ HavePlayers(w, <<d, i>>) THEN w
     ELSE RemovePlayer([DeleteFromDB(ResetMap(w, <<d, i>>, FALSE), i)
                          EXCEPT !.own[p][d] = None], p, i)

ResetInstancesOf(w, p, D) == FoldSet(LAMBDA d, v : ResetBind(v, p, d), w, D)

\* Group::ResetInstances for one bind.  Disbanding, the group lets go of every
\* instance, and changing the difficulty of every one that can be reset.
ResetGroupBind(w, d, disband, change) ==
  LET i == w.grp[d].id
      s == <<d, i>>
      can == w.save[i].canReset
      empty == ~can \/ ~HavePlayers(w, s)
      w1 == IF can THEN ResetMap(w, s, FALSE) ELSE w
      w2 == IF empty /\ can THEN DeleteFromDB(w1, i) ELSE w1
  IN IF w.grp[d] = None \/ (~can /\ ~disband) THEN w
     ELSE IF empty \/ disband \/ change
          THEN RemoveGroup([w2 EXCEPT !.grp[d] = None], i)
          ELSE w1

ResetInstancesOfGroup(w, D, disband, change) ==
  FoldSet(LAMBDA d, v : ResetGroupBind(v, d, disband, change), w, D)

\* Group::AddMember
AddMember(w, p) ==
  LET w1 == [w EXCEPT !.members = @ \cup {p}]
      w2 == [w1 EXCEPT !.at[p].valid = CheckInstanceValidity(w1, p)]
  IN IF p = w.leader THEN w2 ELSE ResetInstancesOf(w2, p, Dungeon)

\* Group::Create with the leader p, and q accepts
CreateGroup(p, q) ==
  /\ world.members = {} /\ p # q
  /\ Connected(p) /\ world.at[q].on = "world"
  /\ LET w1 == ConvertLeaderInstancesToGroup([world EXCEPT !.leader = p], p, FALSE)
     IN world' = AddMember(AddMember(w1, p), q)
  /\ UNCHANGED <<pending, games, visits>> /\ KeepIds

\* Group::ChangeLeader: permanent binds to instances without a map go.
ChangeLeader(p) ==
  LET gone == {d \in Dungeon : /\ world.grp[d] # None /\ world.grp[d].perm
                               /\ world.map[<<d, world.grp[d].id>>] = "none"}
      w1 == FoldSet(LAMBDA d, w : [RemoveGroup(w, w.grp[d].id) EXCEPT !.grp[d] = None],
                    world, gone)
  IN /\ InGroup(world, p) /\ p # world.leader /\ Connected(p)
     /\ world' = [ConvertLeaderInstancesToGroup(w1, p, TRUE) EXCEPT !.leader = p]
     /\ UNCHANGED <<pending, games, visits>> /\ KeepIds

\* RemoveMember of one of two members, who leaves or is removed by the other, and
\* Group::Disband
Disband ==
  LET w1 == [world EXCEPT
               !.members = {}, !.leader = None,
               !.at = [p \in Player |->
                 IF InGroup(world, p) /\ Connected(p) /\ @[p].spot # None
                 THEN [@[p] EXCEPT !.valid = FALSE] ELSE @[p]]]
  IN /\ \E p \in world.members : Connected(p)
     /\ world' = ResetInstancesOfGroup(w1, Dungeon, TRUE, FALSE)
     /\ UNCHANGED <<pending, games, visits>> /\ KeepIds

-----------------------------------------------------------------------------
\* Resets

\* HandleResetInstancesOpcode
HandleResetInstances(p) ==
  /\ world.at[p].on = "world"
  /\ InGroup(world, p) => p = world.leader
  /\ world' = IF InGroup(world, p) THEN ResetInstancesOfGroup(world, Normal, FALSE, FALSE)
              ELSE ResetInstancesOf(world, p, Normal)
  /\ UNCHANGED <<pending, games, visits>> /\ KeepIds

\* HandleSetDungeonDifficulty (D = Normal) and HandleSetRaidDifficulty (D = Raid), to
\* the other difficulty and back: no member is in transit or in a dungeon of D.
HandleSetDifficulty(p, D) ==
  /\ world.at[p].on = "world" /\ world.at[p].spot = None
  /\ InGroup(world, p) =>
       /\ p = world.leader
       /\ \A q \in world.members :
            /\ world.at[q].on # "transit"
            /\ Connected(q) /\ world.at[q].spot # None => world.at[q].spot[1] \notin D
  /\ world' = IF InGroup(world, p) THEN ResetInstancesOfGroup(world, D, FALSE, TRUE)
              ELSE ResetInstancesOf(world, p, D)
  /\ UNCHANGED <<pending, games, visits>> /\ KeepIds

\* InstanceSaveManager::_ResetSave: permanent binds that last expire, all other
\* binds go, and the save unless a bind expired.  The assertion: the player's bind
\* is to this save.
ResetSave(w, i) ==
  LET s == w.save[i]
      d == s.dungeon
      kept == {p \in s.players : LET b == GetBoundInstance(w, p, d) IN b # None /\ b.perm}
  IN [w EXCEPT
        !.own = [p \in Player |-> IF p \in s.players
                                  THEN [@[p] EXCEPT ![d] = IF p \in kept
                                          THEN [w.own[p][d] EXCEPT !.lasts = FALSE]
                                          ELSE None]
                                  ELSE @[p]],
        !.grp[d] = IF s.group THEN None ELSE @,
        !.save[i] = IF kept = {} THEN None ELSE [s EXCEPT !.players = kept, !.group = FALSE],
        !.sound = @ /\ \A p \in s.players :
                         LET b == GetBoundInstance(w, p, d) IN b # None => b.id = i]

\* Update of the reset queue: _ResetInstance for an event of type 0
ResetInstance(d, i) ==
  LET w1 == IF world.save[i] = None THEN world ELSE ResetSave(world, i)
  IN /\ world.due[<<d, i>>] > 0
     /\ world' = [ResetMap(DeleteFromDB(w1, i), <<d, i>>, FALSE)
                    EXCEPT !.due[<<d, i>>] = @ - 1]
     /\ FreeInstanceId(i)
     /\ UNCHANGED <<pending, games, visits>>

\* _ResetOrWarnAll at the global reset of a raid.  In the tables binds that are
\* not permanent or have expired go, then instances that nobody has a lasting bind
\* to, and what is left expires.
ResetAll(d) ==
  LET Mine(i) == world.stored[i] = d
      stays(p, i) == LET r == world.rows[p][i] IN r # None /\ r.perm /\ r.lasts
      w1 == [world EXCEPT
               !.rows = [p \in Player |-> [i \in Id |->
                  IF ~Mine(i) THEN @[p][i]
                  ELSE IF stays(p, i)
                       THEN [@[p][i] EXCEPT !.lasts = FALSE] ELSE None]],
               !.stored = [i \in Id |->
                  IF Mine(i) /\ \A p \in Player : ~stays(p, i) THEN None ELSE @[i]]]
      w2 == FoldSet(LAMBDA i, w : ResetSave(w, i), w1,
                    {i \in Id : world.save[i] # None /\ world.save[i].dungeon = d})
  IN /\ world' = FoldSet(LAMBDA i, w : ResetMap(w, <<d, i>>, TRUE), w2, Id)
     /\ UNCHANGED <<pending, games, visits>> /\ KeepIds

-----------------------------------------------------------------------------
\* Permanent binds

\* PermBindAllPlayers for one player, and for the group if that is the leader
PermBind(w, p, i) ==
  LET b == GetBoundInstance(w, p, w.save[i].dungeon)
      w1 == BindPlayer(w, p, i, PermRow, FALSE)
  IN IF b # None /\ b.perm THEN w
     ELSE IF p = w.leader THEN BindGroup(w1, i, TRUE) ELSE w1

\* Unit::Kill of a boss of a raid, for everybody who is linked to the map, in
\* transit too.
KillBoss(s) ==
  /\ s[1] \in Raid
  /\ \E p \in Linked(world, s) : world.at[p].on = "world"
  /\ world.save[s[2]] # None
  /\ world' = FoldSet(LAMBDA p, w : PermBind(w, p, s[2]), world, Linked(world, s))
  /\ UNCHANGED <<pending, games, visits>> /\ KeepIds

\* Player::BindToInstance(): EXTEND_STATE_KEEP
BindPending(w, p) ==
  LET i == pending[p]
      old == w.own[p][w.save[i].dungeon]
      row == [perm |-> TRUE, lasts |-> old # None /\ old.id = i => old.lasts]
  IN IF w.save[i] = None THEN w ELSE BindPlayer(w, p, i, row, FALSE)

HasPendingBind(p) == pending[p] # None /\ world.at[p].on = "world"

\* HandleInstanceLockResponse, accepted: wherever the player is by now
Accept(p) ==
  /\ HasPendingBind(p)
  /\ world' = BindPending(world, p)
  /\ pending' = [pending EXCEPT ![p] = None]
  /\ UNCHANGED <<games, visits>> /\ KeepIds

\* Declined: RepopAtGraveyard, which is outside
Decline(p) ==
  /\ HasPendingBind(p)
  /\ world' = IF world.at[p].spot = None THEN world ELSE RemovePlayerFromMap(world, p, FALSE)
  /\ pending' = [pending EXCEPT ![p] = None]
  /\ UNCHANGED <<games, visits>> /\ KeepIds

\* The timer in Player::Update: only in an instance with that id
PendingExpires(p) ==
  /\ HasPendingBind(p)
  /\ world' = IF world.at[p].spot # None /\ world.at[p].spot[2] = pending[p]
              THEN BindPending(world, p) ELSE world
  /\ pending' = [pending EXCEPT ![p] = None]
  /\ UNCHANGED <<games, visits>> /\ KeepIds

-----------------------------------------------------------------------------
\* Battlegrounds, as far as they use ids

CreateNewBattleground ==
  /\ Cardinality(games) < MaxGames
  /\ GenerateInstanceId
  /\ games' = games \cup {nextId}
  /\ UNCHANGED <<world, pending, visits>>

\* Map threads destroy the maps of several in one tick.
DestroyBattlegrounds(B) ==
  /\ B # {}
  /\ FreeInstanceIds(B)
  /\ games' = games \ B
  /\ UNCHANGED <<world, pending, visits>>

-----------------------------------------------------------------------------
PlayerStep(p) ==
  \/ TeleportTo(p) \/ ArriveOutside(p) \/ LogoutPlayer(p)
  \/ ChangeLeader(p) \/ HandleResetInstances(p)
  \/ Accept(p) \/ Decline(p) \/ PendingExpires(p)
  \/ \E full \in BOOLEAN : LoginPlayer(p, full) \/ \E d \in Dungeon : Arrive(p, d, full)
  \/ \E q \in Player : CreateGroup(p, q)
  \/ \E D \in {Normal, Raid} : HandleSetDifficulty(p, D)

Next ==
  \/ \E p \in Player : PlayerStep(p)
  \/ Disband
  \/ \E s \in Spot : DestroyInstance(s) \/ KillBoss(s)
  \/ \E s \in Normal \X Id : ResetInstance(s[1], s[2])
  \/ \E d \in Raid : ResetAll(d)
  \/ CreateNewBattleground
  \/ \E B \in SUBSET games : DestroyBattlegrounds(B)

Spec == Init /\ [][Next]_vars

-----------------------------------------------------------------------------
\* Properties

\* Every bind points to a save that exists and lists the player or the group, and
\* every player and group a save lists is bound to it: what ~InstanceSave and
\* _ResetSave assert, and what keeps the raw pointers of the binds alive, through
\* resets, ids that are used again, and logouts during any of it.
BindsMatchSaves ==
  /\ \A p \in Player, d \in Dungeon : LET b == world.own[p][d] IN
       b # None => /\ world.save[b.id] # None
                   /\ world.save[b.id].dungeon = d
                   /\ p \in world.save[b.id].players
  /\ \A d \in Dungeon : LET b == world.grp[d] IN
       b # None => /\ world.save[b.id] # None
                   /\ world.save[b.id].dungeon = d /\ world.save[b.id].group
  /\ \A i \in Id : LET s == world.save[i] IN s # None =>
       /\ \A p \in s.players : world.own[p][s.dungeon] # None /\ world.own[p][s.dungeon].id = i
       /\ s.group => world.grp[s.dungeon] # None /\ world.grp[s.dungeon].id = i

\* No ASSERT fails: a solo player who enters is bound to no other instance of the
\* dungeon (AddPlayerToMap), and a save that is reset lists only players bound to
\* it (_ResetSave).  Nor is the instance that CreateInstanceForPlayer picks ever one
\* that AddPlayerToMap logs as an error and refuses because of the player's or the
\* group's bind.
AssertionsHold == world.sound

\* A map whose unload timer runs has nobody inside, only players on their way out:
\* DestroyInstance never throws anybody out.
UnloadsNobody ==
  \A p \in Player :
    world.at[p].on = "world" /\ world.at[p].spot # None => world.map[world.at[p].spot] = "kept"

\* "instances cannot be reset (except at the global reset time) if there are players
\* permanently bound to it[,] this is cached for the case when those players are
\* offline" (CanReset, InstanceSaveMgr.h): while a player has a permanent bind that
\* lasts, connected or only in the table, the instance is not deleted.
PermanentIsProtected ==
  [][\A p \in Player, i \in Id :
       /\ world.rows[p][i] # None /\ world.rows[p][i].perm /\ world.rows[p][i].lasts
       /\ world.stored[i] # None /\ world'.stored[i] = None
       => \E d \in Raid : ResetAll(d)]_vars

\* What a player or a group does, resets, joining, disbanding, changes of difficulty,
\* never deletes an instance from the tables while players are in its map; the two
\* resets by the clock do.
NotUnderPlayers ==
  [][\A i \in Id :
       /\ world.stored[i] # None /\ world'.stored[i] = None
       /\ world.save[i] # None /\ HavePlayers(world, <<world.save[i].dungeon, i>>)
       => \/ \E d \in Normal : ResetInstance(d, i)
          \/ \E d \in Raid : ResetAll(d)]_vars
=============================================================================
