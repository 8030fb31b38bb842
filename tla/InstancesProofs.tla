--------------------------- MODULE InstancesProofs ---------------------------
(***************************************************************************)
(* What holds of instance ids, saves and binds for any number of players,  *)
(* dungeons and ids.                                                       *)
(***************************************************************************)
EXTENDS Instances, DataLemmas, WellFoundedInduction, TLAPS

\* Least of a set of ids that is not empty is its least element.
LEMMA LeastIsLeast ==
  ASSUME NEW S \in SUBSET Nat, S # {}
  PROVE  Least(S) \in S /\ \A y \in S : Least(S) <= y
<1> DEFINE R == OpToRel(<, Nat)
<1>1. PICK x \in S : \A y \in S : ~(<<y, x>> \in R)
  <2>1. IsWellFoundedOn(R, Nat)
    BY NatLessThanWellFounded
  <2> QED
    BY <2>1, WFMin
<1>2. \A y, z \in Nat : y < z => <<y, z>> \in R
  BY DEF OpToRel
<1>3. \A y \in S : x <= y
  <2> HIDE DEF R
  <2> TAKE y \in S
  <2>1. ~(y < x)
    BY <1>1, <1>2
  <2> QED
    BY <2>1
<1> QED
  BY <1>1, <1>3 DEF Least

\* The largest registered id exists, 0 if there is none.
LEMMA TopExists ==
  ASSUME NEW R \in SUBSET Id
  PROVE  \E n \in 0..MaxId : (n = 0 \/ n \in R) /\ \A r \in R : r <= n
<1> DEFINE Bounds == {n \in Nat : n <= MaxId /\ \A r \in R : r <= n}
<1> DEFINE n == Least(Bounds)
<1>1. MaxId \in Bounds
  BY MaxIdAssumption DEF Id
<1>2. n \in Bounds /\ \A y \in Bounds : n <= y
  <2> HIDE DEF Bounds
  <2>1. Bounds \in SUBSET Nat
    BY DEF Bounds
  <2> QED
    BY <1>1, <2>1, LeastIsLeast
<1> HIDE DEF n
<1>3. n \in 0..MaxId /\ \A r \in R : r <= n
  BY <1>2, MaxIdAssumption
<1>4. n = 0 \/ n \in R
  <2> SUFFICES ASSUME n # 0, n \notin R
               PROVE  FALSE
    OBVIOUS
  <2>1. \A r \in R : r <= n - 1
    BY <1>3, MaxIdAssumption DEF Id
  <2>2. n - 1 \in Bounds
    BY <1>3, <2>1, MaxIdAssumption
  <2> QED
    BY <1>2, <1>3, <2>2
<1> QED
  BY <1>3, <1>4

\* A free bit above the largest id that may be generated stays free: nobody grows
\* the bitset beyond it.
LastIsFree == size = MaxId + 2 => MaxId + 1 \in freeIds

IdInv == IdTypeOK /\ NothingIssuedTwice /\ LastIsFree

\* InitInstanceIds and RegisterInstanceId establish the invariant, whatever ids
\* the instance table has.
LEMMA InitIds ==
  ASSUME NEW R \in SUBSET Id, InitInstanceIds(R)
  PROVE  IdInv
<1> DEFINE P(n) == (n = 0 \/ n \in R) /\ \A r \in R : r <= n
<1> DEFINE top == CHOOSE n \in 0..MaxId : P(n)
<1>1. top \in 0..MaxId /\ \A r \in R : r <= top
  <2>1. \E n \in 0..MaxId : P(n)
    BY TopExists
  <2> HIDE DEF P
  <2>2. top \in 0..MaxId /\ P(top)
    BY <2>1
  <2> QED
    BY <2>2 DEF P
<1> HIDE DEF top
<1> DEFINE F == (1..(top + 1)) \ R
<1>2. size = top + 2 /\ freeIds = F /\ nextId = Least(F) /\ issued = R
  BY DEF InitInstanceIds, top
<1>3. F \in SUBSET Nat /\ top + 1 \in F
  BY <1>1, MaxIdAssumption
<1>4. Least(F) \in F
  <2> HIDE DEF F
  <2> QED
    BY <1>3, LeastIsLeast
<1> HIDE DEF F
<1>5. nextId \in 1..(top + 1) /\ nextId \notin R
  BY <1>2, <1>4 DEF F
<1>6. IdTypeOK
  BY <1>1, <1>2, <1>5, MaxIdAssumption DEF IdTypeOK, Id, F
<1>7. NothingIssuedTwice
  BY <1>1, <1>2, <1>5, MaxIdAssumption DEF NothingIssuedTwice, Id, F
<1>8. LastIsFree
  BY <1>1, <1>2, <1>3, MaxIdAssumption DEF LastIsFree
<1> QED
  BY <1>6, <1>7, <1>8 DEF IdInv

\* Generating an id keeps the invariant.
LEMMA GenerateKeeps ==
  ASSUME IdInv, GenerateInstanceId
  PROVE  IdInv'
<1> DEFINE later == {f \in freeIds : f > nextId}
<1> USE MaxIdAssumption
<1>1. /\ size \in 2..(MaxId + 2) /\ nextId \in 1..MaxId /\ nextId < size
      /\ freeIds \subseteq 1..(MaxId + 1) /\ issued \subseteq 1..MaxId
      /\ freeIds \cap issued = {} /\ nextId \notin issued
      /\ \A i \in freeIds \cup issued : i < size
      /\ size = MaxId + 2 => MaxId + 1 \in freeIds
  BY DEF IdInv, IdTypeOK, NothingIssuedTwice, LastIsFree, GenerateInstanceId, Id
<1>2. issued' = issued \cup {nextId}
  BY DEF GenerateInstanceId
<1>3. CASE later = {}
  <2>1. size' = size + 1 /\ freeIds' = (freeIds \ {nextId}) \cup {size} /\ nextId' = size
    BY <1>3 DEF GenerateInstanceId
  <2>2. size # MaxId + 2
    BY <1>1, <1>3
  <2>3. size \notin freeIds \cup issued
    BY <1>1
  <2>4. IdTypeOK'
    BY <1>1, <1>2, <2>1, <2>2 DEF IdTypeOK, Id
  <2>5. NothingIssuedTwice'
    BY <1>1, <1>2, <2>1, <2>3 DEF NothingIssuedTwice
  <2>6. LastIsFree'
    BY <1>1, <2>1 DEF LastIsFree
  <2> QED
    BY <2>4, <2>5, <2>6 DEF IdInv
<1>4. CASE later # {}
  <2>1. size' = size /\ freeIds' = freeIds \ {nextId} /\ nextId' = Least(later)
    BY <1>4 DEF GenerateInstanceId
  <2>2. nextId' \in later
    <3>1. freeIds \subseteq Nat
      BY <1>1
    <3>2. later \subseteq freeIds
      OBVIOUS
    <3> HIDE DEF later
    <3> QED
      BY <1>4, <2>1, <3>1, <3>2, LeastIsLeast
  <2>3. nextId' \in freeIds /\ nextId' # nextId
    BY <1>1, <2>2
  <2>4. IdTypeOK'
    BY <1>1, <1>2, <2>1, <2>3 DEF IdTypeOK, Id
  <2>5. NothingIssuedTwice'
    BY <1>1, <1>2, <2>1, <2>3 DEF NothingIssuedTwice
  <2>6. LastIsFree'
    BY <1>1, <2>1 DEF LastIsFree
  <2> QED
    BY <2>4, <2>5, <2>6 DEF IdInv
<1> QED
  BY <1>3, <1>4

\* Freeing ids keeps it, whichever writes are lost.
LEMMA FreeKeeps ==
  ASSUME IdInv, NEW B \in SUBSET Id, FreeInstanceIds(B)
  PROVE  IdInv'
<1> USE MaxIdAssumption
<1>1. PICK N, F \in (SUBSET B) \ {{}} :
        nextId' = Least(N \cup {nextId}) /\ freeIds' = freeIds \cup F
  BY DEF FreeInstanceIds
<1>2. issued' = issued \ B /\ size' = size /\ \A i \in B : i < size
  BY DEF FreeInstanceIds
<1>3. /\ size \in 2..(MaxId + 2) /\ nextId \in 1..(MaxId + 1) /\ nextId < size
      /\ freeIds \subseteq 1..(MaxId + 1) /\ issued \subseteq 1..MaxId
      /\ freeIds \cap issued = {} /\ nextId \notin issued
      /\ \A i \in freeIds \cup issued : i < size
      /\ size = MaxId + 2 => MaxId + 1 \in freeIds
  BY DEF IdInv, IdTypeOK, NothingIssuedTwice, LastIsFree, Id
<1>4. nextId' \in N \cup {nextId}
  <2>1. N \cup {nextId} \in SUBSET Nat
    BY <1>1, <1>3 DEF Id
  <2> QED
    BY <1>1, <2>1, LeastIsLeast
<1>5. nextId' \in B \/ nextId' = nextId
  BY <1>1, <1>4
<1>6. IdTypeOK'
  <2>1. nextId' \in 1..(MaxId + 1)
    <3>1. \A i \in B : i \in 1..(MaxId + 1)
      BY DEF Id
    <3> QED
      BY <1>3, <1>5, <3>1
  <2>2. freeIds' \subseteq 1..(MaxId + 1)
    BY <1>1, <1>3 DEF Id
  <2>3. issued' \subseteq Id /\ size' \in 2..(MaxId + 2)
    BY <1>2, <1>3 DEF Id
  <2> QED
    BY <2>1, <2>2, <2>3 DEF IdTypeOK
<1>7. NothingIssuedTwice'
  BY <1>1, <1>2, <1>3, <1>5 DEF NothingIssuedTwice
<1>8. LastIsFree'
  BY <1>1, <1>2, <1>3 DEF LastIsFree
<1> QED
  BY <1>6, <1>7, <1>8 DEF IdInv

\* GenerateInstanceId never gives out an id that is in use and its assertion never
\* fails: for every number of ids, every content of the instance table, and every
\* interleaving of the map threads that free ids without a lock.
THEOREM IdsAreSound == IdSpec => []NothingIssuedTwice
<1>1. IdInit => IdInv
  BY InitIds DEF IdInit
<1>2. IdInv /\ [IdNext]_idVars => IdInv'
  <2> SUFFICES ASSUME IdInv, [IdNext]_idVars
               PROVE  IdInv'
    OBVIOUS
  <2>1. CASE GenerateInstanceId
    BY <2>1, GenerateKeeps
  <2>2. CASE \E B \in (SUBSET Id) \ {{}} : FreeInstanceIds(B)
    BY <2>2, FreeKeeps
  <2>3. CASE UNCHANGED idVars
    BY <2>3 DEF idVars, IdInv, IdTypeOK, NothingIssuedTwice, LastIsFree
  <2> QED
    BY <2>1, <2>2, <2>3 DEF IdNext
<1>3. IdInv => NothingIssuedTwice
  BY DEF IdInv
<1> QED
  BY <1>1, <1>2, <1>3, PTL DEF IdSpec

-----------------------------------------------------------------------------
\* What Instances does with the ids.

\* The battlegrounds' ids are ids, so that freeing several is a step of InstanceIds.
InstInv == IdInv /\ games \subseteq Id

\* A step generates one id, frees ids, or leaves them alone, and only battlegrounds
\* change games.
UsesIds ==
  \/ GenerateInstanceId /\ (games' = games \/ games' = games \cup {nextId})
  \/ UNCHANGED idVars /\ games' = games
  \/ \E i \in Id : FreeInstanceIds({i}) /\ games' = games
  \/ \E B \in (SUBSET games) \ {{}} : FreeInstanceIds(B) /\ games' = games \ B

\* CreateInstanceForPlayer takes an id when no save says which, and leaves them alone
\* otherwise.
LEMMA TakesIdUsesIds ==
  ASSUME NEW w, NEW p, NEW d, NEW login, TakesId(w, p, d, login)
  PROVE  GenerateInstanceId \/ UNCHANGED idVars
BY DEF TakesId, KeepIds

\* Every handler does.
LEMMA NextUsesIds == Next => UsesIds
<1>1. ASSUME NEW p \in Player, TeleportTo(p) PROVE UNCHANGED idVars /\ games' = games
  BY <1>1 DEF TeleportTo, KeepIds
<1>2. ASSUME NEW p \in Player, ArriveOutside(p) PROVE UNCHANGED idVars /\ games' = games
  BY <1>2, Zenon DEF ArriveOutside, KeepIds
<1>3. ASSUME NEW p \in Player, LogoutPlayer(p) PROVE UNCHANGED idVars /\ games' = games
  BY <1>3, Zenon DEF LogoutPlayer, KeepIds
<1>4. ASSUME NEW p \in Player, ChangeLeader(p) PROVE UNCHANGED idVars /\ games' = games
  BY <1>4 DEF ChangeLeader, KeepIds
<1>5. ASSUME NEW p \in Player, HandleResetInstances(p) PROVE UNCHANGED idVars /\ games' = games
  BY <1>5 DEF HandleResetInstances, KeepIds
<1>6. ASSUME NEW p \in Player, Accept(p) PROVE UNCHANGED idVars /\ games' = games
  BY <1>6 DEF Accept, KeepIds
<1>7. ASSUME NEW p \in Player, Decline(p) PROVE UNCHANGED idVars /\ games' = games
  BY <1>7 DEF Decline, KeepIds
<1>8. ASSUME NEW p \in Player, PendingExpires(p) PROVE UNCHANGED idVars /\ games' = games
  BY <1>8 DEF PendingExpires, KeepIds
<1>9. ASSUME NEW p \in Player, NEW full \in BOOLEAN, LoginPlayer(p, full)
      PROVE  (GenerateInstanceId \/ UNCHANGED idVars) /\ games' = games
  <2>1. \/ KeepIds
        \/ \E w, d, login : TakesId(w, p, d, login)
    BY <1>9 DEF LoginPlayer
  <2>2. games' = games
    BY <1>9 DEF LoginPlayer
  <2> QED
    BY <2>1, <2>2, TakesIdUsesIds DEF KeepIds
<1>10. ASSUME NEW p \in Player, NEW d \in Dungeon, NEW full \in BOOLEAN, Arrive(p, d, full)
       PROVE  (GenerateInstanceId \/ UNCHANGED idVars) /\ games' = games
  <2>1. TakesId(world, p, d, None) /\ games' = games
    BY <1>10 DEF Arrive
  <2> QED
    BY <2>1, TakesIdUsesIds
<1>11. ASSUME NEW p \in Player, NEW q \in Player, CreateGroup(p, q)
       PROVE  UNCHANGED idVars /\ games' = games
  BY <1>11 DEF CreateGroup, KeepIds
<1>12. ASSUME NEW p \in Player, NEW D, HandleSetDifficulty(p, D)
       PROVE  UNCHANGED idVars /\ games' = games
  BY <1>12 DEF HandleSetDifficulty, KeepIds
<1>13. ASSUME Disband PROVE UNCHANGED idVars /\ games' = games
  BY <1>13 DEF Disband, KeepIds
<1>14. ASSUME NEW s \in Spot, DestroyInstance(s) PROVE UNCHANGED idVars /\ games' = games
  BY <1>14 DEF DestroyInstance, KeepIds
<1>15. ASSUME NEW s \in Spot, KillBoss(s) PROVE UNCHANGED idVars /\ games' = games
  BY <1>15 DEF KillBoss, KeepIds
<1>16. ASSUME NEW s \in Normal \X Id, ResetInstance(s[1], s[2])
       PROVE  \E i \in Id : FreeInstanceIds({i}) /\ games' = games
  BY <1>16 DEF ResetInstance, FreeInstanceId
<1>17. ASSUME NEW d \in Raid, ResetAll(d) PROVE UNCHANGED idVars /\ games' = games
  BY <1>17 DEF ResetAll, KeepIds
<1>18. ASSUME CreateNewBattleground
       PROVE  GenerateInstanceId /\ games' = games \cup {nextId}
  BY <1>18 DEF CreateNewBattleground
<1>19. ASSUME NEW B \in SUBSET games, DestroyBattlegrounds(B)
       PROVE  B # {} /\ FreeInstanceIds(B) /\ games' = games \ B
  BY <1>19 DEF DestroyBattlegrounds
<1>20. ASSUME NEW p \in Player, PlayerStep(p) PROVE UsesIds
  <2>1. (UNCHANGED idVars \/ GenerateInstanceId) /\ games' = games
    BY <1>20, <1>1, <1>2, <1>3, <1>4, <1>5, <1>6, <1>7, <1>8, <1>9, <1>10, <1>11, <1>12
       DEF PlayerStep
  <2> QED
    BY <2>1 DEF UsesIds
<1>21. Disband => UsesIds
  BY <1>13 DEF UsesIds
<1>22. ASSUME NEW s \in Spot, DestroyInstance(s) \/ KillBoss(s) PROVE UsesIds
  BY <1>22, <1>14, <1>15 DEF UsesIds
<1>23. ASSUME NEW s \in Normal \X Id, ResetInstance(s[1], s[2]) PROVE UsesIds
  BY <1>23, <1>16, Zenon DEF UsesIds
<1>24. ASSUME NEW d \in Raid, ResetAll(d) PROVE UsesIds
  BY <1>24, <1>17 DEF UsesIds
<1>25. CreateNewBattleground => UsesIds
  BY <1>18 DEF UsesIds
<1>26. ASSUME NEW B \in SUBSET games, DestroyBattlegrounds(B) PROVE UsesIds
  BY <1>26, <1>19 DEF UsesIds
<1> QED
  BY <1>20, <1>21, <1>22, <1>23, <1>24, <1>25, <1>26, Zenon DEF Next

\* The invariant holds in Instances.
LEMMA InstancesKeepIds == Spec => []InstInv
<1>1. Init => InstInv
  <2> SUFFICES ASSUME Init
               PROVE  InstInv
    OBVIOUS
  <2>1. InitInstanceIds({}) /\ games = {}
    BY DEF Init
  <2> QED
    BY <2>1, InitIds DEF InstInv
<1>2. InstInv /\ [Next]_vars => InstInv'
  <2> SUFFICES ASSUME InstInv, [Next]_vars
               PROVE  InstInv'
    OBVIOUS
  <2>1. CASE GenerateInstanceId /\ (games' = games \/ games' = games \cup {nextId})
    <3>1. nextId \in Id
      BY <2>1, MaxIdAssumption DEF InstInv, IdInv, IdTypeOK, Id, GenerateInstanceId
    <3> QED
      BY <2>1, <3>1, GenerateKeeps DEF InstInv
  <2>2. CASE UNCHANGED idVars /\ games' = games
    BY <2>2 DEF idVars, InstInv, IdInv, IdTypeOK, NothingIssuedTwice, LastIsFree
  <2>3. CASE \E i \in Id : FreeInstanceIds({i}) /\ games' = games
    BY <2>3, FreeKeeps DEF InstInv
  <2>4. CASE \E B \in (SUBSET games) \ {{}} : FreeInstanceIds(B) /\ games' = games \ B
    BY <2>4, FreeKeeps DEF InstInv
  <2>5. CASE UNCHANGED vars
    BY <2>5, <2>2 DEF vars
  <2> QED
    BY <2>1, <2>2, <2>3, <2>4, <2>5, NextUsesIds DEF UsesIds
<1> QED
  BY <1>1, <1>2, PTL DEF Spec

\* Whatever happens to instances and battlegrounds, and whatever writes map threads
\* lose, no id that was given out and has not been freed is given out again.  It says
\* nothing of ids that were freed: _ResetInstance frees the id of an instance whose map
\* and players may remain, and the next instance may then share it.
THEOREM NoIdBeforeItIsFreed == Spec => []NothingIssuedTwice
<1>1. InstInv => NothingIssuedTwice
  BY DEF InstInv, IdInv
<1> QED
  BY <1>1, InstancesKeepIds, PTL

\* Instances implements the abstract life of ids.
THEOREM InstancesUseIds == Spec => IdSpec
<1>1. Init => IdInit
  BY DEF Init, IdInit
<1>2. InstInv /\ [Next]_vars => [IdNext]_idVars
  <2> SUFFICES ASSUME InstInv, [Next]_vars
               PROVE  [IdNext]_idVars
    OBVIOUS
  <2>1. CASE Next
    <3>1. \A i \in Id : {i} \in (SUBSET Id) \ {{}}
      OBVIOUS
    <3>2. \A B \in (SUBSET games) \ {{}} : B \in (SUBSET Id) \ {{}}
      BY DEF InstInv
    <3> QED
      BY <2>1, <3>1, <3>2, NextUsesIds DEF IdNext, UsesIds
  <2>2. CASE UNCHANGED vars
    BY <2>2 DEF vars
  <2> QED
    BY <2>1, <2>2
<1> QED
  BY <1>1, <1>2, InstancesKeepIds, PTL DEF Spec, IdSpec

-----------------------------------------------------------------------------
(* The binds and the saves of a record *)

\* BindsMatchSaves and ConnectedAreProtected say this of each save s with the id i and
\* of the binds to it: who is bound is listed, and who is listed is bound.
OwnFit(own, s, i) ==
  \A p \in Player, d \in Dungeon : own[p][d] # None /\ own[p][d].id = i =>
    s # None /\ s.dungeon = d /\ p \in s.players /\ (own[p][d].perm => ~s.canReset)

GroupFits(grp, s, i) ==
  \A d \in Dungeon : grp[d] # None /\ grp[d].id = i => s # None /\ s.dungeon = d /\ s.group

Listed(own, grp, s, i) ==
  s # None =>
    /\ \A p \in s.players : own[p][s.dungeon] # None /\ own[p][s.dungeon].id = i
    /\ s.group => grp[s.dungeon] # None /\ grp[s.dungeon].id = i

Fits(own, grp, s, i) == OwnFit(own, s, i) /\ GroupFits(grp, s, i) /\ Listed(own, grp, s, i)

Match(w) == \A i \in Id : Fits(w.own, w.grp, w.save[i], i)

Good(w) == w \in World /\ Match(w)

\* What is neither a save nor a bind.
Elsewhere(w, u) ==
  /\ u.stored = w.stored /\ u.map = w.map /\ u.due = w.due /\ u.at = w.at
  /\ u.members = w.members /\ u.leader = w.leader /\ u.sound = w.sound

\* Saves go, or stay saves of their dungeon.
SavesStay(w, u) ==
  \A i \in Id : u.save[i] # None => w.save[i] # None /\ u.save[i].dungeon = w.save[i].dungeon

\* From w to u nobody moves, only maps without players change, no save is made, and
\* only players of P get binds to dungeons that they had none to.
Frame(w, u, P) ==
  /\ \A p \in Player : u.at[p].on = w.at[p].on /\ u.at[p].spot = w.at[p].spot
  /\ \A s \in Spot : u.map[s] = w.map[s] \/ ~HavePlayers(w, s)
  /\ u.sound = w.sound
  /\ SavesStay(w, u)
  /\ \A q \in Player \ P, d \in Dungeon : w.own[q][d] = None => u.own[q][d] = None

\* Instances are deleted from the tables only when nobody is in their map.
Spared(w, u) ==
  \A i \in Id : w.stored[i] # None /\ u.stored[i] = None =>
    w.save[i] # None /\ ~HavePlayers(w, <<w.save[i].dungeon, i>>)

\* What almost every call does.
Runs(w, u, P) == Good(u) /\ Frame(w, u, P) /\ Spared(w, u)

\* A map is linked to the same players when nobody moves.
LEMMA SameLinks ==
  ASSUME NEW w, NEW u, \A p \in Player : u.at[p].on = w.at[p].on /\ u.at[p].spot = w.at[p].spot
  PROVE  \A s : Linked(u, s) = Linked(w, s) /\ HavePlayers(u, s) = HavePlayers(w, s)
BY DEF Linked, HavePlayers

\* Calls that keep the frame do so one after the other.
LEMMA FrameTransitive ==
  ASSUME NEW w, NEW u, NEW v, NEW P, Frame(w, u, P), Frame(u, v, P)
  PROVE  Frame(w, v, P)
<1>1. \A s : HavePlayers(u, s) = HavePlayers(w, s)
  BY SameLinks DEF Frame
<1> QED
  BY <1>1 DEF Frame, SavesStay

\* Two calls that run in a handler run one after the other.
LEMMA RunsTransitive ==
  ASSUME NEW w \in World, NEW u, NEW v, NEW P, Runs(w, u, P), Runs(u, v, P)
  PROVE  Runs(w, v, P)
<1>1. \A s : HavePlayers(u, s) = HavePlayers(w, s)
  BY SameLinks DEF Frame, Runs
<1>2. Spared(w, v)
  BY <1>1 DEF Runs, Spared, Frame, SavesStay
<1> QED
  BY <1>2, FrameTransitive DEF Runs

\* Who may get binds may be more players.
LEMMA RunsMore ==
  ASSUME NEW w, NEW u, NEW P, NEW Q, P \subseteq Q, Runs(w, u, P)
  PROVE  Runs(w, u, Q)
BY DEF Runs, Frame

\* A call that returns early.
LEMMA RunsNothing ==
  ASSUME NEW w, Good(w), NEW P
  PROVE  Runs(w, w, P)
BY DEF Runs, Frame, SavesStay, Spared

\* A call that touches nothing but saves and binds.
LEMMA ElsewhereRuns ==
  ASSUME NEW w, NEW u, NEW P, Good(u), Elsewhere(w, u), SavesStay(w, u),
         \A q \in Player \ P, d \in Dungeon : w.own[q][d] = None => u.own[q][d] = None
  PROVE  Runs(w, u, P)
BY DEF Runs, Frame, Spared, Elsewhere

\* A change of what is neither a save nor a bind.
LEMMA SameBinds ==
  ASSUME NEW w, NEW u \in World, Match(w), u.own = w.own, u.grp = w.grp, u.save = w.save
  PROVE  Good(u)
BY DEF Good, Match

-----------------------------------------------------------------------------
(* A save loses a player or the group *)

\* The save i is s now.
SaveIs(w, u, i, s) ==
  /\ s \in Save \cup {None}
  /\ u.save = [w.save EXCEPT ![i] = s]

\* Without p, without the group, and deleted when nobody is left.
Less(s, P, g) == [s EXCEPT !.players = @ \ P, !.group = @ /\ ~g]

Lost(w, u, i, P, g) ==
  LET s == Less(w.save[i], P, g)
  IN SaveIs(w, u, i, s) \/ (s.players = {} /\ ~s.group /\ SaveIs(w, u, i, None))

\* Nothing but saves changes.
OnlySave(w, u) ==
  /\ u \in World /\ Elsewhere(w, u)
  /\ u.own = w.own /\ u.grp = w.grp /\ u.rows = w.rows

\* A save is put, or taken out of m_instanceSaveById.
LEMMA SetSave ==
  ASSUME NEW w \in World, NEW i \in Id, NEW s \in Save \cup {None}
  PROVE  OnlySave(w, [w EXCEPT !.save[i] = s]) /\ SaveIs(w, [w EXCEPT !.save[i] = s], i, s)
BY DEF World, Elsewhere, SaveIs, OnlySave

\* UnloadIfEmpty keeps the save, or deletes one that lists nobody.
LEMMA Unload ==
  ASSUME NEW w \in World, NEW i \in Id, w.save[i] # None
  PROVE  /\ OnlySave(w, UnloadIfEmpty(w, i))
         /\ \/ UnloadIfEmpty(w, i) = w
            \/ w.save[i].players = {} /\ ~w.save[i].group /\ SaveIs(w, UnloadIfEmpty(w, i), i, None)
<1>1. \/ UnloadIfEmpty(w, i) = w
      \/ /\ w.save[i].players = {} /\ ~w.save[i].group
         /\ UnloadIfEmpty(w, i) = [w EXCEPT !.save[i] = None]
  BY DEF UnloadIfEmpty
<1>2. OnlySave(w, w)
  BY DEF OnlySave, Elsewhere
<1>3. OnlySave(w, [w EXCEPT !.save[i] = None]) /\ SaveIs(w, [w EXCEPT !.save[i] = None], i, None)
  BY SetSave
<1> QED
  BY <1>1, <1>2, <1>3

\* A save with fewer players is a save of the same dungeon, as open to resets as before.
LEMMA LessIs ==
  ASSUME NEW s \in Save, NEW P, NEW g \in BOOLEAN
  PROVE  /\ Less(s, P, g) \in Save /\ Less(s, P, g) # None
         /\ Less(s, P, g).dungeon = s.dungeon /\ Less(s, P, g).players = s.players \ P
         /\ Less(s, P, g).group = (s.group /\ ~g) /\ Less(s, P, g).canReset = s.canReset
<1> DEFINE x == Less(s, P, g)
<1>1. /\ s.dungeon \in Dungeon /\ s.players \in SUBSET Player
      /\ s.group \in BOOLEAN /\ s.canReset \in BOOLEAN
  BY DEF Save
<1>2. /\ x.dungeon = s.dungeon /\ x.players = s.players \ P
      /\ x.group = (s.group /\ ~g) /\ x.canReset = s.canReset
  BY <1>1 DEF Less, Save
<1> DEFINE y == [s EXCEPT !.players = @ \ P]
<1>3. y \in Save
  BY <1>1 DEF Save
<1>4. x \in Save
  <2>1. x = [y EXCEPT !.group = @ /\ ~g]
    BY DEF Less
  <2> HIDE DEF x, y
  <2>2. y.group \in BOOLEAN
    BY <1>3 DEF Save
  <2> QED
    BY <1>3, <2>1, <2>2 DEF Save
<1> HIDE DEF x
<1>5. x # None
  BY <1>4, NoneAssumption
<1> QED
  BY <1>2, <1>4, <1>5 DEF x

\* What RemovePlayer and RemoveGroup have in common.
LEMMA LessAndUnload ==
  ASSUME NEW w \in World, NEW i \in Id, w.save[i] # None, NEW P \in SUBSET Player, NEW g \in BOOLEAN,
         NEW v, v = [w EXCEPT !.save[i] = Less(w.save[i], P, g)]
  PROVE  OnlySave(w, UnloadIfEmpty(v, i)) /\ Lost(w, UnloadIfEmpty(v, i), i, P, g)
<1> DEFINE s == Less(w.save[i], P, g)
           u == UnloadIfEmpty(v, i)
<1>1. w.save[i] \in Save /\ w.save \in [Id -> Save \cup {None}]
  BY DEF World
<1>2. s \in Save /\ s # None
  BY <1>1, NoneAssumption, LessIs
<1>3. OnlySave(w, v) /\ SaveIs(w, v, i, s)
  BY <1>2, SetSave
<1>4. v.save[i] = s
  BY <1>1, <1>3 DEF SaveIs
<1>5. /\ OnlySave(v, u)
      /\ \/ u = v
         \/ s.players = {} /\ ~s.group /\ SaveIs(v, u, i, None)
  <2>1. v \in World
    BY <1>3 DEF OnlySave
  <2> HIDE DEF s
  <2> QED
    BY <1>2, <1>4, <2>1, Unload
<1>6. SaveIs(v, u, i, None) => SaveIs(w, u, i, None)
  BY <1>1, <1>3 DEF SaveIs
<1> HIDE DEF s, u
<1>7. Lost(w, u, i, P, g)
  BY <1>3, <1>5, <1>6 DEF Lost, s
<1>8. OnlySave(w, u)
  BY <1>3, <1>5 DEF OnlySave, Elsewhere
<1> QED
  BY <1>7, <1>8 DEF u

\* InstanceSave::RemovePlayer takes the player off the save.
LEMMA PlayerRemoved ==
  ASSUME NEW w \in World, NEW i \in Id, NEW p \in Player, w.save[i] # None
  PROVE  OnlySave(w, RemovePlayer(w, p, i)) /\ Lost(w, RemovePlayer(w, p, i), i, {p}, FALSE)
<1>1. w.save[i] \in Save /\ w.save \in [Id -> Save \cup {None}]
  BY DEF World
<1> DEFINE v == [w EXCEPT !.save[i].players = @ \ {p}]
<1>2. v = [w EXCEPT !.save[i] = Less(w.save[i], {p}, FALSE)]
  <2>1. Less(w.save[i], {p}, FALSE) = [w.save[i] EXCEPT !.players = @ \ {p}]
    BY <1>1 DEF Less, Save
  <2> QED
    BY <1>1, <2>1
<1>3. RemovePlayer(w, p, i) = UnloadIfEmpty(v, i)
  BY DEF RemovePlayer
<1> HIDE DEF v
<1>4. {p} \in SUBSET Player
  OBVIOUS
<1> QED
  BY <1>2, <1>3, <1>4, LessAndUnload

\* InstanceSave::RemoveGroup takes the group off the save.
LEMMA GroupRemoved ==
  ASSUME NEW w \in World, NEW i \in Id, w.save[i] # None
  PROVE  OnlySave(w, RemoveGroup(w, i)) /\ Lost(w, RemoveGroup(w, i), i, {}, TRUE)
<1>1. w.save[i] \in Save /\ w.save \in [Id -> Save \cup {None}]
  BY DEF World
<1> DEFINE v == [w EXCEPT !.save[i].group = FALSE]
<1>2. v = [w EXCEPT !.save[i] = Less(w.save[i], {}, TRUE)]
  <2>1. Less(w.save[i], {}, TRUE) = [w.save[i] EXCEPT !.group = FALSE]
    BY <1>1 DEF Less, Save
  <2> QED
    BY <1>1, <2>1
<1>3. RemoveGroup(w, i) = UnloadIfEmpty(v, i)
  BY DEF RemoveGroup
<1> HIDE DEF v
<1>4. {} \in SUBSET Player
  OBVIOUS
<1> QED
  BY <1>2, <1>3, <1>4, LessAndUnload

-----------------------------------------------------------------------------
(* One save changes, and the binds to it *)

\* Where the binds differ, they are binds to i.
OnlyTo(i, b, c) == b = c \/ ((b = None \/ b.id = i) /\ (c = None \/ c.id = i))

\* When a call changes one save and the binds to it, it is enough to look at that save.
LEMMA OneSave ==
  ASSUME NEW w, Good(w), NEW u, NEW i \in Id, \A j \in Id \ {i} : u.save[j] = w.save[j],
         \A q \in Player, e \in Dungeon : OnlyTo(i, w.own[q][e], u.own[q][e]),
         \A e \in Dungeon : OnlyTo(i, w.grp[e], u.grp[e]),
         Fits(u.own, u.grp, u.save[i], i)
  PROVE  Match(u)
<1> DEFINE own == w.own
           grp == w.grp
           own2 == u.own
           grp2 == u.grp
<1>1. ASSUME NEW j \in Id \ {i} PROVE Fits(own2, grp2, w.save[j], j)
  <2> DEFINE s == w.save[j]
  <2>1. Fits(own, grp, s, j) /\ (s # None => s.dungeon \in Dungeon /\ s.players \subseteq Player)
    <3>1. Match(w) /\ w \in World
      BY DEF Good
    <3>2. s \in Save \cup {None}
      BY <3>1 DEF World
    <3> HIDE DEF s
    <3>3. s # None => s.dungeon \in Dungeon /\ s.players \subseteq Player
      BY <3>2 DEF Save
    <3> QED
      BY <3>1, <3>3 DEF Match, s
  <2>2. \A q \in Player, e \in Dungeon : OnlyTo(i, own[q][e], own2[q][e])
    OBVIOUS
  <2>3. \A e \in Dungeon : OnlyTo(i, grp[e], grp2[e])
    OBVIOUS
  <2> HIDE DEF own, grp, own2, grp2, s
  <2>4. OwnFit(own2, s, j)
    BY <1>1, <2>1, <2>2 DEF Fits, OwnFit, OnlyTo
  <2>5. GroupFits(grp2, s, j)
    BY <1>1, <2>1, <2>3 DEF Fits, GroupFits, OnlyTo
  <2>6. Listed(own2, grp2, s, j)
    <3> SUFFICES ASSUME s # None
                 PROVE  /\ \A p \in s.players : own2[p][s.dungeon] # None /\ own2[p][s.dungeon].id = j
                        /\ s.group => grp2[s.dungeon] # None /\ grp2[s.dungeon].id = j
      BY DEF Listed
    <3>1. ASSUME NEW p \in s.players PROVE own2[p][s.dungeon] # None /\ own2[p][s.dungeon].id = j
      <4>1. p \in Player /\ s.dungeon \in Dungeon
        BY <2>1, <3>1
      <4>2. own[p][s.dungeon] # None /\ own[p][s.dungeon].id = j
        BY <2>1, <3>1 DEF Fits, Listed
      <4> QED
        BY <1>1, <2>2, <4>1, <4>2 DEF OnlyTo
    <3>2. s.group => grp2[s.dungeon] # None /\ grp2[s.dungeon].id = j
      <4>1. s.group => grp[s.dungeon] # None /\ grp[s.dungeon].id = j
        BY <2>1 DEF Fits, Listed
      <4> QED
        BY <1>1, <2>1, <2>3, <4>1 DEF OnlyTo
    <3> QED
      BY <3>1, <3>2
  <2> QED
    BY <2>4, <2>5, <2>6 DEF Fits, s
<1>2. ASSUME NEW j \in Id PROVE Fits(own2, grp2, u.save[j], j)
  <2>1. j # i => u.save[j] = w.save[j]
    OBVIOUS
  <2> HIDE DEF own2, grp2
  <2> QED
    BY <1>1, <2>1 DEF own2, grp2
<1> QED
  BY <1>2 DEF Match

\* The parts of a record that binds and saves are about.
Parts(own, grp, save) ==
  /\ own \in [Player -> [Dungeon -> Bind \cup {None}]]
  /\ grp \in [Dungeon -> GroupBind \cup {None}]
  /\ save \in [Id -> Save \cup {None}]

\* Saves and binds of a record have their types.
LEMMA HasParts == ASSUME NEW w \in World PROVE Parts(w.own, w.grp, w.save)
BY DEF World, Parts

\* What the bind of a player to d says of the save.
LEMMA BoundTo ==
  ASSUME NEW w, Good(w), NEW p \in Player, NEW d \in Dungeon, w.own[p][d] # None
  PROVE  LET b == w.own[p][d]
         IN /\ b \in Bind /\ b.id \in Id /\ w.save[b.id] \in Save /\ w.save[b.id] # None
            /\ w.save[b.id].dungeon = d /\ p \in w.save[b.id].players
            /\ b.perm => ~w.save[b.id].canReset
<1> DEFINE own == w.own
           save == w.save
           b == own[p][d]
<1>1. Parts(own, w.grp, save)
  BY HasParts DEF Good
<1> HIDE DEF own, save
<1>2. b \in Bind
  BY <1>1 DEF Parts, own
<1>3. b.id \in Id
  BY <1>2 DEF Bind
<1>4. Fits(own, w.grp, save[b.id], b.id)
  BY <1>3 DEF Good, Match, own, save
<1>5. save[b.id] # None /\ save[b.id].dungeon = d /\ p \in save[b.id].players /\ (b.perm => ~save[b.id].canReset)
  BY <1>4 DEF Fits, OwnFit, own
<1>6. save[b.id] \in Save
  BY <1>1, <1>3, <1>5 DEF Parts
<1> QED
  BY <1>2, <1>3, <1>5, <1>6 DEF own, save

\* The group's bind to a dungeon is to a save of it, which lists the group.
LEMMA GroupBoundTo ==
  ASSUME NEW w, Good(w), NEW d \in Dungeon, w.grp[d] # None
  PROVE  LET b == w.grp[d]
         IN /\ b \in GroupBind /\ b.id \in Id /\ w.save[b.id] \in Save /\ w.save[b.id] # None
            /\ w.save[b.id].dungeon = d /\ w.save[b.id].group
<1> DEFINE grp == w.grp
           save == w.save
           b == grp[d]
<1>1. Parts(w.own, grp, save)
  BY HasParts DEF Good
<1> HIDE DEF grp, save
<1>2. b \in GroupBind
  BY <1>1 DEF Parts, grp
<1>3. b.id \in Id
  BY <1>2 DEF GroupBind
<1>4. Fits(w.own, grp, save[b.id], b.id)
  BY <1>3 DEF Good, Match, grp, save
<1>5. save[b.id] # None /\ save[b.id].dungeon = d /\ save[b.id].group
  BY <1>4 DEF Fits, GroupFits, grp
<1>6. save[b.id] \in Save
  BY <1>1, <1>3, <1>5 DEF Parts
<1> QED
  BY <1>2, <1>3, <1>5, <1>6 DEF grp, save

-----------------------------------------------------------------------------
(* A bind goes, or comes *)

\* A bind goes, and its save is told.
LEMMA PlayerUnbound ==
  ASSUME NEW w, Good(w), NEW u, NEW p \in Player, NEW d \in Dungeon, w.own[p][d] # None,
         u.own = [w.own EXCEPT ![p][d] = None], u.grp = w.grp,
         Lost(w, u, w.own[p][d].id, {p}, FALSE)
  PROVE  Match(u) /\ SavesStay(w, u)
<1> DEFINE own == w.own
           grp == w.grp
           own2 == u.own
           i == w.own[p][d].id
           s == w.save[i]
           s2 == Less(s, {p}, FALSE)
<1>1. /\ i \in Id /\ s \in Save /\ s # None /\ s.dungeon = d
      /\ Fits(own, grp, s, i) /\ Parts(own, grp, w.save)
  <2>1. w \in World /\ Match(w)
    BY DEF Good
  <2>2. i \in Id /\ s \in Save /\ s # None /\ s.dungeon = d
    BY BoundTo
  <2> QED
    BY <2>1, <2>2, HasParts DEF Match
<1>2. SaveIs(w, u, i, s2) \/ (s2.players = {} /\ ~s2.group /\ SaveIs(w, u, i, None))
  BY Zenon DEF Lost
<1>3. own[p][d] # None /\ own[p][d].id = i
  OBVIOUS
<1> DEFINE t == u.save[i]
<1> HIDE DEF i, s, s2, t, own, grp
<1>4. /\ s2.dungeon = d /\ s2.players = s.players \ {p}
      /\ s2.group = s.group
      /\ s2.canReset = s.canReset /\ s2 # None
  <2>1. s.group \in BOOLEAN
    BY <1>1 DEF Save
  <2> QED
    BY <1>1, <2>1, LessIs DEF s2
<1>5. /\ \A j \in Id \ {i} : u.save[j] = w.save[j]
      /\ t = s2 \/ (t = None /\ s2.players = {} /\ ~s2.group)
  <2>1. ASSUME NEW x, SaveIs(w, u, i, x) PROVE t = x /\ \A j \in Id \ {i} : u.save[j] = w.save[j]
    BY <1>1, <2>1 DEF SaveIs, Parts, t
  <2> QED
    BY <1>2, <2>1
<1>6. SavesStay(w, u)
  BY <1>1, <1>4, <1>5 DEF SavesStay, s, t
<1>7. \A q \in Player, e \in Dungeon : own2[q][e] = IF q = p /\ e = d THEN None ELSE own[q][e]
  BY <1>1 DEF Parts, own
<1> HIDE DEF own2
<1>8. OwnFit(own2, t, i)
  <2> SUFFICES ASSUME NEW q \in Player, NEW e \in Dungeon, own2[q][e] # None, own2[q][e].id = i
               PROVE  t # None /\ t.dungeon = e /\ q \in t.players /\ (own2[q][e].perm => ~t.canReset)
    BY DEF OwnFit
  <2>1. own2[q][e] = own[q][e] /\ ~(q = p /\ e = d)
    BY <1>7
  <2>2. s.dungeon = e /\ q \in s.players /\ (own2[q][e].perm => ~s.canReset)
    BY <1>1, <2>1 DEF Fits, OwnFit
  <2>3. q \in s2.players
    BY <1>1, <1>4, <2>1, <2>2
  <2> QED
    BY <1>1, <1>4, <1>5, <2>2, <2>3
<1>9. GroupFits(grp, t, i)
  BY <1>1, <1>4, <1>5 DEF Fits, GroupFits
<1>10. Listed(own2, grp, t, i)
  <2> SUFFICES ASSUME t = s2
               PROVE  /\ \A q \in t.players : own2[q][t.dungeon] # None /\ own2[q][t.dungeon].id = i
                      /\ t.group => grp[t.dungeon] # None /\ grp[t.dungeon].id = i
    BY <1>5 DEF Listed
  <2>1. \A q \in s.players : own[q][d] # None /\ own[q][d].id = i
    BY <1>1 DEF Fits, Listed
  <2>2. ASSUME NEW q \in s2.players PROVE own2[q][d] # None /\ own2[q][d].id = i
    <3>1. q \in s.players /\ q # p /\ q \in Player
      BY <1>1, <1>4, <2>2 DEF Save
    <3> QED
      BY <1>7, <2>1, <3>1
  <2>3. s.group => grp[d] # None /\ grp[d].id = i
    BY <1>1 DEF Fits, Listed
  <2> QED
    BY <1>4, <2>2, <2>3
<1>11. \A q \in Player, e \in Dungeon : OnlyTo(i, own[q][e], own2[q][e])
  BY <1>3, <1>7 DEF OnlyTo
<1>12. \A e \in Dungeon : OnlyTo(i, grp[e], grp[e])
  BY DEF OnlyTo
<1>13. Fits(own2, grp, t, i)
  BY <1>8, <1>9, <1>10 DEF Fits
<1>14. Match(u)
  BY <1>1, <1>5, <1>11, <1>12, <1>13, OneSave DEF own, grp, own2, t
<1> QED
  BY <1>6, <1>14

\* The group's bind goes, and the save no longer lists the group: both agree again.
LEMMA GroupUnbound ==
  ASSUME NEW w, Good(w), NEW u, NEW d \in Dungeon, w.grp[d] # None,
         u.own = w.own, u.grp = [w.grp EXCEPT ![d] = None],
         Lost(w, u, w.grp[d].id, {}, TRUE)
  PROVE  Match(u) /\ SavesStay(w, u)
<1> DEFINE own == w.own
           grp == w.grp
           grp2 == u.grp
           i == w.grp[d].id
           s == w.save[i]
           s2 == Less(s, {}, TRUE)
<1>1. /\ i \in Id /\ s \in Save /\ s # None /\ s.dungeon = d
      /\ Fits(own, grp, s, i) /\ Parts(own, grp, w.save)
  BY GroupBoundTo, HasParts DEF Good, Match
<1>2. SaveIs(w, u, i, s2) \/ (s2.players = {} /\ ~s2.group /\ SaveIs(w, u, i, None))
  BY DEF Lost
<1>3. grp[d] # None /\ grp[d].id = i
  OBVIOUS
<1> DEFINE t == u.save[i]
<1> HIDE DEF i, s, s2, t, own, grp
<1>4. /\ s2.dungeon = d /\ s2.players = s.players
      /\ ~s2.group
      /\ s2.canReset = s.canReset /\ s2 # None
  <2>1. [s EXCEPT !.players = @ \ {}, !.group = @ /\ ~TRUE] # None
    BY <1>1, NoneAssumption DEF Save
  <2> QED
    BY <1>1, <2>1 DEF Less, Save, s2
<1>5. /\ \A j \in Id \ {i} : u.save[j] = w.save[j]
      /\ t = s2 \/ (t = None /\ s2.players = {})
  <2>1. ASSUME NEW x, SaveIs(w, u, i, x) PROVE t = x /\ \A j \in Id \ {i} : u.save[j] = w.save[j]
    BY <1>1, <2>1 DEF SaveIs, Parts, t
  <2> QED
    BY <1>2, <2>1
<1>6. SavesStay(w, u)
  BY <1>1, <1>4, <1>5 DEF SavesStay, s, t
<1>7. \A e \in Dungeon : grp2[e] = IF e = d THEN None ELSE grp[e]
  BY <1>1 DEF Parts, grp
<1> HIDE DEF grp2
<1>8. OwnFit(own, t, i)
  BY <1>1, <1>4, <1>5 DEF Fits, OwnFit
<1>9. GroupFits(grp2, t, i)
  BY <1>1, <1>7 DEF Fits, GroupFits
<1>10. Listed(own, grp2, t, i)
  BY <1>1, <1>4, <1>5 DEF Fits, Listed
<1>11. \A q \in Player, e \in Dungeon : OnlyTo(i, own[q][e], own[q][e])
  BY DEF OnlyTo
<1>12. \A e \in Dungeon : OnlyTo(i, grp[e], grp2[e])
  BY <1>3, <1>7 DEF OnlyTo
<1>13. Fits(own, grp2, t, i)
  BY <1>8, <1>9, <1>10 DEF Fits
<1>14. Match(u)
  BY <1>1, <1>5, <1>11, <1>12, <1>13, OneSave DEF own, grp, grp2, t
<1> QED
  BY <1>6, <1>14

\* A save gains a player, whose bind may be permanent.
Gained(s, p, perm) == [s EXCEPT !.players = @ \cup {p}, !.canReset = @ /\ ~perm]

Gains(w, u, i, p, perm) == SaveIs(w, u, i, Gained(w.save[i], p, perm))

\* What a save that gained a player is.
LEMMA GainsIs ==
  ASSUME NEW s \in Save, NEW p \in Player, NEW perm \in BOOLEAN
  PROVE  /\ Gained(s, p, perm) \in Save
         /\ Gained(s, p, perm).dungeon = s.dungeon
         /\ Gained(s, p, perm).players = s.players \cup {p}
         /\ Gained(s, p, perm).group = s.group
         /\ Gained(s, p, perm).canReset => s.canReset /\ ~perm
<1> DEFINE c == s.canReset /\ ~perm
           t == [s EXCEPT !.players = @ \cup {p}, !.canReset = c]
<1>1. c \in BOOLEAN /\ (c => s.canReset /\ ~perm)
  OBVIOUS
<1>2. Gained(s, p, perm) = t
  BY DEF Save, Gained
<1> HIDE DEF c
<1>3. /\ t \in Save /\ t.dungeon = s.dungeon /\ t.players = s.players \cup {p}
      /\ t.group = s.group /\ t.canReset = c
  BY <1>1 DEF Save
<1> HIDE DEF t
<1> QED
  BY <1>1, <1>2, <1>3

\* A player gets a bind, and its save lists the player: both agree again.
LEMMA PlayerBound ==
  ASSUME NEW w, Good(w), NEW u, NEW p \in Player, NEW i \in Id, w.save[i] # None,
         NEW d, d = w.save[i].dungeon, NEW b \in Bind, b.id = i,
         w.own[p][d] = None \/ w.own[p][d].id = i,
         u.own = [w.own EXCEPT ![p][d] = b], u.grp = w.grp,
         Gains(w, u, i, p, b.perm)
  PROVE  Match(u) /\ SavesStay(w, u)
<1> DEFINE own == w.own
           grp == w.grp
           own2 == u.own
           s == w.save[i]
           t == u.save[i]
<1>1. /\ s \in Save /\ s # None /\ s.dungeon = d /\ d \in Dungeon
      /\ Fits(own, grp, s, i) /\ Parts(own, grp, w.save)
  <2>1. Parts(own, grp, w.save) /\ Fits(own, grp, s, i)
    BY HasParts DEF Good, Match
  <2>2. s \in Save
    BY <2>1 DEF Parts
  <2>3. s.dungeon \in Dungeon
    BY <2>2 DEF Save
  <2> QED
    BY <2>1, <2>2, <2>3
<1>4. own[p][d] = None \/ own[p][d].id = i
  OBVIOUS
<1> HIDE DEF s, t, own, grp
<1>14. t = Gained(s, p, b.perm)
  BY <1>1 DEF Gains, SaveIs, Parts, s, t
<1>2. \A j \in Id \ {i} : u.save[j] = w.save[j]
  BY <1>1 DEF Gains, SaveIs, Parts
<1>3. /\ t \in Save /\ t # None /\ t.dungeon = d /\ t.players = s.players \cup {p}
      /\ t.group = s.group /\ (t.canReset => s.canReset /\ ~b.perm)
  <2>1. b.perm \in BOOLEAN
    BY DEF Bind
  <2>2. /\ t \in Save /\ t.dungeon = s.dungeon /\ t.players = s.players \cup {p}
        /\ t.group = s.group /\ (t.canReset => s.canReset /\ ~b.perm)
    BY <1>1, <1>14, <2>1, GainsIs
  <2> QED
    BY <1>1, <2>2, NoneAssumption
<1>5. SavesStay(w, u)
  BY <1>1, <1>2, <1>3 DEF SavesStay, s, t
<1>6. \A q \in Player, e \in Dungeon : own2[q][e] = IF q = p /\ e = d THEN b ELSE own[q][e]
  BY <1>1 DEF Parts, own
<1> HIDE DEF own2
<1>7. OwnFit(own2, t, i)
  <2> SUFFICES ASSUME NEW q \in Player, NEW e \in Dungeon, own2[q][e] # None, own2[q][e].id = i
               PROVE  t # None /\ t.dungeon = e /\ q \in t.players /\ (own2[q][e].perm => ~t.canReset)
    BY DEF OwnFit
  <2>1. CASE q = p /\ e = d
    BY <1>3, <1>6, <2>1
  <2>2. CASE ~(q = p /\ e = d)
    <3>1. own2[q][e] = own[q][e]
      BY <1>6, <2>2
    <3>2. s.dungeon = e /\ q \in s.players /\ (own2[q][e].perm => ~s.canReset)
      BY <1>1, <3>1 DEF Fits, OwnFit
    <3> QED
      BY <1>1, <1>3, <3>2
  <2> QED
    BY <2>1, <2>2
<1>8. GroupFits(grp, t, i)
  BY <1>1, <1>3 DEF Fits, GroupFits
<1>9. Listed(own2, grp, t, i)
  <2>1. \A q \in s.players : q \in Player /\ own[q][d] # None /\ own[q][d].id = i
    BY <1>1 DEF Fits, Listed, Save
  <2>2. \A q \in t.players : own2[q][d] # None /\ own2[q][d].id = i
    BY <1>1, <1>3, <1>6, <2>1, NoneAssumption
  <2>3. s.group => grp[d] # None /\ grp[d].id = i
    BY <1>1 DEF Fits, Listed
  <2> QED
    BY <1>3, <2>2, <2>3 DEF Listed
<1>10. \A q \in Player, e \in Dungeon : OnlyTo(i, own[q][e], own2[q][e])
  BY <1>4, <1>6 DEF OnlyTo
<1>11. \A e \in Dungeon : OnlyTo(i, grp[e], grp[e])
  BY DEF OnlyTo
<1>12. Fits(own2, grp, t, i)
  BY <1>7, <1>8, <1>9 DEF Fits
<1>13. Match(u)
  BY <1>2, <1>10, <1>11, <1>12, OneSave DEF own, grp, own2, t
<1> QED
  BY <1>5, <1>13

\* A save gains the group.
LEMMA GroupBound ==
  ASSUME NEW w, Good(w), NEW u, NEW i \in Id, w.save[i] # None,
         NEW d, d = w.save[i].dungeon, NEW b \in GroupBind, b.id = i,
         w.grp[d] = None \/ w.grp[d].id = i,
         u.own = w.own, u.grp = [w.grp EXCEPT ![d] = b],
         SaveIs(w, u, i, [w.save[i] EXCEPT !.group = TRUE])
  PROVE  Match(u) /\ SavesStay(w, u)
<1> DEFINE own == w.own
           grp == w.grp
           grp2 == u.grp
           s == w.save[i]
           t == u.save[i]
<1>1. /\ s \in Save /\ s # None /\ s.dungeon = d /\ d \in Dungeon
      /\ Fits(own, grp, s, i) /\ Parts(own, grp, w.save)
  <2>1. Parts(own, grp, w.save) /\ Fits(own, grp, s, i)
    BY HasParts DEF Good, Match
  <2>2. s \in Save
    BY <2>1 DEF Parts
  <2>3. s.dungeon \in Dungeon
    BY <2>2 DEF Save
  <2> QED
    BY <2>1, <2>2, <2>3
<1>4. grp[d] = None \/ grp[d].id = i
  OBVIOUS
<1> HIDE DEF s, t, own, grp
<1>14. t = [s EXCEPT !.group = TRUE]
  BY <1>1 DEF SaveIs, Parts, s, t
<1>2. \A j \in Id \ {i} : u.save[j] = w.save[j]
  BY <1>1 DEF SaveIs, Parts
<1>3. /\ t \in Save /\ t # None /\ t.dungeon = d /\ t.players = s.players
      /\ t.group /\ t.canReset = s.canReset
  <2>1. /\ t \in Save /\ t.dungeon = s.dungeon /\ t.players = s.players
        /\ t.group /\ t.canReset = s.canReset
    BY <1>1, <1>14 DEF Save
  <2> QED
    BY <1>1, <2>1, NoneAssumption
<1>5. SavesStay(w, u)
  BY <1>1, <1>2, <1>3 DEF SavesStay, s, t
<1>6. \A e \in Dungeon : grp2[e] = IF e = d THEN b ELSE grp[e]
  BY <1>1 DEF Parts, grp
<1> HIDE DEF grp2
<1>7. OwnFit(own, t, i)
  BY <1>1, <1>3 DEF Fits, OwnFit
<1>8. GroupFits(grp2, t, i)
  BY <1>1, <1>3, <1>6 DEF Fits, GroupFits
<1>9. Listed(own, grp2, t, i)
  BY <1>1, <1>3, <1>6, NoneAssumption DEF Fits, Listed
<1>10. \A q \in Player, e \in Dungeon : OnlyTo(i, own[q][e], own[q][e])
  BY DEF OnlyTo
<1>11. \A e \in Dungeon : OnlyTo(i, grp[e], grp2[e])
  BY <1>4, <1>6 DEF OnlyTo
<1>12. Fits(own, grp2, t, i)
  BY <1>7, <1>8, <1>9 DEF Fits
<1>13. Match(u)
  BY <1>2, <1>10, <1>11, <1>12, OneSave DEF own, grp, grp2, t
<1> QED
  BY <1>5, <1>13

-----------------------------------------------------------------------------
(* The calls that bind and unbind *)

\* Player::UnbindInstance takes the one bind away, on both sides.
LEMMA UnbindPlayerRuns ==
  ASSUME NEW w, Good(w), NEW p \in Player, NEW d \in Dungeon
  PROVE  LET u == UnbindPlayer(w, p, d)
         IN /\ Good(u) /\ Elsewhere(w, u) /\ SavesStay(w, u)
            /\ u.own = [w.own EXCEPT ![p][d] = None] /\ u.grp = w.grp
<1>1. CASE w.own[p][d] = None
  BY <1>1 DEF UnbindPlayer, Elsewhere, SavesStay, Good, World
<1>2. CASE w.own[p][d] # None
  <2> DEFINE i == w.own[p][d].id
             v == [w EXCEPT !.rows[p][i] = None]
             r == RemovePlayer(v, p, i)
             u == [r EXCEPT !.own[p][d] = None]
  <2>1. UnbindPlayer(w, p, d) = u
    BY <1>2 DEF UnbindPlayer
  <2>2. w \in World /\ i \in Id /\ w.save[i] # None
    BY <1>2, BoundTo DEF Good
  <2>3. v \in World /\ v.save = w.save /\ v.own = w.own /\ v.grp = w.grp /\ Elsewhere(w, v)
    BY <2>2 DEF World, Elsewhere
  <2>4. OnlySave(v, r) /\ Lost(v, r, i, {p}, FALSE)
    <3> HIDE DEF v, i
    <3> QED
      BY <2>2, <2>3, PlayerRemoved
  <2> HIDE DEF v, r
  <2>5. /\ u \in World /\ u.save = r.save /\ u.own = [w.own EXCEPT ![p][d] = None]
        /\ u.grp = w.grp /\ Elsewhere(r, u)
    <3>1. r \in World /\ r.own = w.own /\ r.grp = w.grp
      BY <2>3, <2>4 DEF OnlySave
    <3> QED
      BY <3>1, Zenon DEF World, Elsewhere
  <2>6. Elsewhere(w, u)
    BY <2>3, <2>4, <2>5 DEF OnlySave, Elsewhere
  <2>7. Lost(w, u, i, {p}, FALSE)
    BY <2>3, <2>4, <2>5, Zenon DEF Lost, SaveIs
  <2> HIDE DEF u
  <2>8. Match(u) /\ SavesStay(w, u)
    BY <1>2, <2>5, <2>7, PlayerUnbound
  <2> QED
    BY <2>1, <2>5, <2>6, <2>8 DEF Good
<1> QED
  BY <1>1, <1>2

\* What BindPlayer does: p is bound to i as the row says, and nobody else is.
PlayerBinds(w, u, p, i, row) ==
  /\ Good(u) /\ Elsewhere(w, u) /\ SavesStay(w, u) /\ u.save[i] # None
  /\ u.save[i].dungeon = w.save[i].dungeon
  /\ u.own = [w.own EXCEPT ![p][w.save[i].dungeon] = [id |-> i, perm |-> row.perm, lasts |-> row.lasts]]
  /\ u.grp = w.grp

\* Player::BindToInstance leaves the old save, if any, and enters the new one.
LEMMA BindPlayerRuns ==
  ASSUME NEW w, Good(w), NEW p \in Player, NEW i \in Id, w.save[i] # None,
         NEW row \in Row, NEW load \in BOOLEAN
  PROVE  /\ PlayerBinds(w, BindPlayer(w, p, i, row, load), p, i, row)
         /\ load => BindPlayer(w, p, i, row, load).rows = w.rows
<1> DEFINE d == w.save[i].dungeon
           old == w.own[p][d]
           b == [id |-> i, perm |-> row.perm, lasts |-> row.lasts]
           rows == w.rows[p]
           moved == IF old = None
                    THEN [rows EXCEPT ![i] = IF @ = None THEN row ELSE @]
                    ELSE IF rows[old.id] = None \/ (old.id # i /\ rows[i] # None) THEN rows
                         ELSE [rows EXCEPT ![old.id] = None, ![i] = row]
           w1 == IF load THEN w ELSE [w EXCEPT !.rows[p] = moved]
           w2 == IF old # None /\ old.id # i THEN RemovePlayer(w1, p, old.id) ELSE w1
           x == IF old # None /\ old.id # i THEN None ELSE old
           v == [w2 EXCEPT !.own[p][d] = x]
           u == [w2 EXCEPT !.own[p][d] = b,
                           !.save[i].players = @ \cup {p},
                           !.save[i].canReset = @ /\ ~row.perm]
<1>1. BindPlayer(w, p, i, row, load) = u
  BY DEF BindPlayer
<1>2. /\ w \in World /\ w.save[i] \in Save /\ d \in Dungeon /\ b \in Bind /\ b.id = i /\ b.perm = row.perm
      /\ rows \in [Id -> Row \cup {None}]
      /\ old # None => old \in Bind /\ old.id \in Id /\ w.save[old.id] # None
  <2>1. w \in World /\ w.save[i] \in Save
    BY DEF Good, World
  <2>2. d \in Dungeon
    BY <2>1 DEF Save
  <2>3. old # None => old \in Bind /\ old.id \in Id /\ w.save[old.id] # None
    BY <2>2, BoundTo
  <2>4. b \in Bind /\ b.id = i /\ b.perm = row.perm
    BY DEF Bind, Row
  <2> QED
    BY <2>1, <2>2, <2>3, <2>4 DEF World
<1>3. moved \in [Id -> Row \cup {None}]
  <2> HIDE DEF d, rows
  <2> QED
    BY <1>2
<1> HIDE DEF moved
<1>4. /\ w1 \in World /\ w1.save = w.save /\ w1.own = w.own /\ w1.grp = w.grp /\ Elsewhere(w, w1)
      /\ load => w1.rows = w.rows
  BY <1>2, <1>3 DEF World, Elsewhere
<1> HIDE DEF w1, old, rows
<1>5. old # None /\ old.id # i => OnlySave(w1, w2) /\ Lost(w1, w2, old.id, {p}, FALSE)
  BY <1>2, <1>4, PlayerRemoved
<1>6. old = None \/ old.id = i => w2 = w1
  OBVIOUS
<1> HIDE DEF w2
<1>7. /\ w2 \in World /\ w2.own = w.own /\ w2.grp = w.grp /\ Elsewhere(w, w2)
      /\ load => w2.rows = w.rows
  BY <1>4, <1>5, <1>6 DEF OnlySave, Elsewhere
<1>8. /\ v \in World /\ v.save = w2.save /\ v.grp = w.grp /\ Elsewhere(w, v)
      /\ v.own = [w.own EXCEPT ![p][d] = x] /\ x \in Bind \cup {None}
  <2>1. x \in Bind \cup {None}
    BY <1>2 DEF World
  <2> HIDE DEF d, x
  <2> QED
    BY <1>2, <1>7, <2>1 DEF World, Elsewhere
<1> HIDE DEF b, d
<1>9. Match(v) /\ SavesStay(w, v) /\ v.save[i] = w.save[i]
  <2>1. CASE old # None /\ old.id # i
    <3>1. v.own = [w.own EXCEPT ![p][d] = None]
      BY <1>8, <2>1
    <3>2. Lost(w, v, old.id, {p}, FALSE)
      BY <1>4, <1>5, <1>8, <2>1 DEF Lost, SaveIs
    <3>3. w.own[p][d] # None /\ old = w.own[p][d]
      BY <2>1 DEF old
    <3> HIDE DEF v
    <3>4. Match(v) /\ SavesStay(w, v)
      BY <1>2, <1>8, <3>1, <3>2, <3>3, PlayerUnbound
    <3>5. v.save[i] = w.save[i]
      BY <1>2, <2>1, <3>2 DEF Lost, SaveIs, World
    <3> QED
      BY <3>4, <3>5
  <2>2. CASE old = None \/ old.id = i
    <3>1. v.own = w.own /\ v.save = w.save
      <4>1. x = w.own[p][d]
        BY <2>2 DEF old
      <4> HIDE DEF x, v
      <4> QED
        BY <1>2, <1>4, <1>6, <1>8, <2>2, <4>1 DEF World
    <3> HIDE DEF v
    <3>2. Match(v)
      BY <1>8, <3>1, SameBinds DEF Good
    <3> QED
      BY <3>1, <3>2 DEF SavesStay
  <2> QED
    BY <2>1, <2>2
<1>10. v.own[p][d] = None \/ v.own[p][d].id = i
  <2>1. v.own[p][d] = x
    <3> HIDE DEF x, v
    <3> QED
      BY <1>2, <1>8 DEF World
  <2> QED
    BY <2>1
<1> DEFINE s == Gained(w.save[i], p, b.perm)
<1>11. s \in Save /\ s # None /\ s.dungeon = d
  <2>1. b.perm \in BOOLEAN
    BY <1>2 DEF Bind
  <2>2. s \in Save /\ s.dungeon = w.save[i].dungeon
    BY <1>2, <2>1, GainsIs
  <2> QED
    BY <2>2, NoneAssumption DEF d
<1>12. u = [w2 EXCEPT !.own[p][d] = b, !.save[i] = s]
  <2>1. w2.save[i] = w.save[i]
    BY <1>8, <1>9
  <2>2. w2.save \in [Id -> Save \cup {None}]
    BY <1>7 DEF World
  <2>3. row.perm = b.perm
    BY <1>2
  <2> QED
    BY <1>2, <2>1, <2>2, <2>3 DEF Gained
<1> HIDE DEF s, u
<1>13. /\ u \in World /\ SaveIs(w2, u, i, s) /\ u.grp = w.grp /\ Elsewhere(w, u)
       /\ u.own = [w.own EXCEPT ![p][d] = b] /\ u.rows = w2.rows
  BY <1>2, <1>7, <1>11, <1>12 DEF World, Elsewhere, SaveIs
<1>14. /\ u.own = [v.own EXCEPT ![p][d] = b] /\ u.grp = v.grp
       /\ Gains(v, u, i, p, b.perm)
  <2>1. w.own \in [Player -> [Dungeon -> Bind \cup {None}]]
    BY <1>2 DEF World
  <2>2. u.own = [v.own EXCEPT ![p][d] = b]
    BY <1>2, <1>8, <1>13, <2>1
  <2>3. SaveIs(v, u, i, s)
    BY <1>8, <1>13 DEF SaveIs
  <2> QED
    BY <1>8, <1>9, <1>13, <2>2, <2>3 DEF s, Gains
<1> HIDE DEF v
<1>15. Match(u) /\ SavesStay(v, u)
  <2>1. Good(v) /\ v.save[i] # None /\ d = v.save[i].dungeon
    BY <1>8, <1>9 DEF Good, d
  <2> QED
    BY <1>2, <1>10, <1>13, <1>14, <2>1, PlayerBound
<1>16. SavesStay(w, u) /\ u.save[i] # None /\ u.save[i].dungeon = d
  <2>1. u.save[i] = s
    BY <1>7, <1>13 DEF SaveIs, World
  <2> QED
    BY <1>9, <1>11, <1>15, <2>1 DEF SavesStay
<1> QED
  BY <1>1, <1>7, <1>13, <1>15, <1>16 DEF Good, PlayerBinds, d, b

\* What BindGroup does.
GroupBinds(w, u, i, perm) ==
  /\ Good(u) /\ Elsewhere(w, u) /\ SavesStay(w, u) /\ u.save[i] # None
  /\ u.own = w.own
  /\ u.grp = [w.grp EXCEPT ![w.save[i].dungeon] = [id |-> i, perm |-> perm]]

\* Group::BindToInstance leaves the old save, if any, and enters the new one.
LEMMA BindGroupRuns ==
  ASSUME NEW w, Good(w), NEW i \in Id, w.save[i] # None, NEW perm \in BOOLEAN
  PROVE  GroupBinds(w, BindGroup(w, i, perm), i, perm)
<1> DEFINE d == w.save[i].dungeon
           old == w.grp[d]
           b == [id |-> i, perm |-> perm]
           w1 == IF old # None /\ old.id # i THEN RemoveGroup(w, old.id) ELSE w
           v == [w1 EXCEPT !.grp[d] = IF old # None /\ old.id # i THEN None ELSE @]
           u == [w1 EXCEPT !.grp[d] = b, !.save[i].group = TRUE]
<1>1. BindGroup(w, i, perm) = u
  BY DEF BindGroup
<1>2. /\ w \in World /\ w.save[i] \in Save /\ d \in Dungeon /\ b \in GroupBind /\ b.id = i
      /\ old # None => old \in GroupBind /\ old.id \in Id /\ w.save[old.id] # None
  <2>1. w \in World /\ w.save[i] \in Save
    BY DEF Good, World
  <2>2. d \in Dungeon
    BY <2>1 DEF Save
  <2>3. old # None => old \in GroupBind /\ old.id \in Id /\ w.save[old.id] # None
    BY <2>2, GroupBoundTo
  <2>4. b \in GroupBind /\ b.id = i
    BY DEF GroupBind
  <2> QED
    BY <2>1, <2>2, <2>3, <2>4
<1> HIDE DEF old
<1>5. old # None /\ old.id # i => OnlySave(w, w1) /\ Lost(w, w1, old.id, {}, TRUE)
  BY <1>2, GroupRemoved
<1>6. old = None \/ old.id = i => w1 = w
  OBVIOUS
<1> HIDE DEF w1
<1>7. w1 \in World /\ w1.own = w.own /\ w1.grp = w.grp /\ Elsewhere(w, w1)
  BY <1>2, <1>5, <1>6 DEF OnlySave, Elsewhere
<1>8. /\ v \in World /\ v.save = w1.save /\ v.own = w.own /\ Elsewhere(w, v)
      /\ v.grp = [w.grp EXCEPT ![d] = IF old # None /\ old.id # i THEN None ELSE @]
  <2> HIDE DEF d
  <2> QED
    BY <1>2, <1>7 DEF World, Elsewhere
<1> HIDE DEF b, d
<1>9. Match(v) /\ SavesStay(w, v) /\ v.save[i] = w.save[i]
  <2>1. CASE old # None /\ old.id # i
    <3>1. v.grp = [w.grp EXCEPT ![d] = None]
      BY <1>2, <1>7, <1>8, <2>1 DEF World
    <3>2. Lost(w, v, old.id, {}, TRUE)
      BY <1>5, <1>8, <2>1 DEF Lost, SaveIs
    <3>3. w.grp[d] # None /\ old = w.grp[d]
      BY <2>1 DEF old
    <3> HIDE DEF v
    <3>4. Match(v) /\ SavesStay(w, v)
      BY <1>2, <1>8, <3>1, <3>2, <3>3, GroupUnbound
    <3>5. v.save[i] = w.save[i]
      BY <1>2, <2>1, <3>2 DEF Lost, SaveIs, World
    <3> QED
      BY <3>4, <3>5
  <2>2. CASE old = None \/ old.id = i
    <3>1. v.grp = w.grp /\ v.save = w.save
      BY <1>2, <1>6, <1>7, <1>8, <2>2 DEF World
    <3> HIDE DEF v
    <3>2. Match(v)
      BY <1>8, <3>1, SameBinds DEF Good
    <3> QED
      BY <3>1, <3>2 DEF SavesStay
  <2> QED
    BY <2>1, <2>2
<1>10. v.grp[d] = None \/ v.grp[d].id = i
  BY <1>2, <1>7, <1>8 DEF World, old
<1> DEFINE s == [w.save[i] EXCEPT !.group = TRUE]
<1>11. s \in Save /\ s # None
  BY <1>2, NoneAssumption DEF Save
<1>12. u = [w1 EXCEPT !.grp[d] = b, !.save[i] = s]
  <2>1. w1.save[i] = w.save[i]
    BY <1>8, <1>9
  <2>2. w1.save \in [Id -> Save \cup {None}]
    BY <1>7 DEF World
  <2> QED
    BY <1>2, <2>1, <2>2
<1> HIDE DEF s, u
<1>13. /\ u \in World /\ SaveIs(w1, u, i, s) /\ u.own = w.own /\ Elsewhere(w, u)
       /\ u.grp = [w.grp EXCEPT ![d] = b]
  BY <1>2, <1>7, <1>11, <1>12 DEF World, Elsewhere, SaveIs
<1>14. /\ u.grp = [v.grp EXCEPT ![d] = b] /\ u.own = v.own
       /\ SaveIs(v, u, i, [v.save[i] EXCEPT !.group = TRUE])
  <2>1. w.grp \in [Dungeon -> GroupBind \cup {None}]
    BY <1>2 DEF World
  <2>2. u.grp = [v.grp EXCEPT ![d] = b]
    BY <1>2, <1>8, <1>13, <2>1
  <2>3. SaveIs(v, u, i, s)
    BY <1>8, <1>13 DEF SaveIs
  <2> QED
    BY <1>8, <1>9, <1>13, <2>2, <2>3 DEF s
<1> HIDE DEF v
<1>15. Match(u) /\ SavesStay(v, u)
  <2>1. Good(v) /\ v.save[i] # None /\ d = v.save[i].dungeon
    BY <1>8, <1>9 DEF Good, d
  <2> QED
    BY <1>2, <1>10, <1>13, <1>14, <2>1, GroupBound
<1>16. SavesStay(w, u) /\ u.save[i] # None
  <2>1. u.save[i] = s
    BY <1>7, <1>13 DEF SaveIs, World
  <2> QED
    BY <1>9, <1>11, <1>15, <2>1 DEF SavesStay
<1> QED
  BY <1>1, <1>13, <1>15, <1>16 DEF Good, GroupBinds, d, b

-----------------------------------------------------------------------------
(* The calls that reset *)

\* Nothing that binds and saves are about.
SameParts(w, u) == u.own = w.own /\ u.grp = w.grp /\ u.save = w.save

\* A map without players is unloaded soon, and players may be told to leave.
LEMMA ResetMapRuns ==
  ASSUME NEW w, Good(w), NEW s \in Spot, NEW global \in BOOLEAN, NEW P
  PROVE  /\ Runs(w, ResetMap(w, s, global), P) /\ SameParts(w, ResetMap(w, s, global))
         /\ ResetMap(w, s, global).stored = w.stored
<1> DEFINE u == ResetMap(w, s, global)
           stays(p) == LET b == GetBoundInstance(w, p, s[1]) IN b # None /\ b.id = s[2]
           told == [p \in Player |->
                      IF global /\ p \in Linked(w, s) /\ ~stays(p)
                      THEN [w.at[p] EXCEPT !.valid = FALSE] ELSE w.at[p]]
<1>1. \/ u = w
      \/ ~HavePlayers(w, s) /\ u = [w EXCEPT !.map[s] = "unloading"]
      \/ u = [w EXCEPT !.at = told]
  BY DEF ResetMap
<1>2. w \in World
  BY DEF Good
<1>3. w.at \in [Player -> Place]
  BY <1>2 DEF World
<1>4. /\ told \in [Player -> Place]
      /\ \A p \in Player : told[p].on = w.at[p].on /\ told[p].spot = w.at[p].spot
  <2>1. ASSUME NEW p \in Player PROVE told[p] \in {w.at[p], [w.at[p] EXCEPT !.valid = FALSE]}
    OBVIOUS
  <2> HIDE DEF told
  <2>2. ASSUME NEW x \in Place PROVE [x EXCEPT !.valid = FALSE] \in Place /\ [x EXCEPT !.valid = FALSE].on = x.on /\ [x EXCEPT !.valid = FALSE].spot = x.spot
    BY DEF Place
  <2>3. told = [p \in Player |-> told[p]]
    BY DEF told
  <2>4. \A p \in Player : told[p] \in Place /\ told[p].on = w.at[p].on /\ told[p].spot = w.at[p].spot
    BY <1>3, <2>1, <2>2
  <2> QED
    BY <2>3, <2>4
<1> HIDE DEF told, u
<1>5. CASE u = w
  BY <1>5, RunsNothing DEF SameParts, u
<1>6. CASE ~HavePlayers(w, s) /\ u = [w EXCEPT !.map[s] = "unloading"]
  <2>1. /\ u \in World /\ SameParts(w, u) /\ u.stored = w.stored /\ u.at = w.at /\ u.sound = w.sound
        /\ \A r \in Spot : u.map[r] = w.map[r] \/ r = s
    BY <1>2, <1>6 DEF World, SameParts
  <2>2. Good(u)
    BY <2>1, SameBinds DEF Good, SameParts
  <2> QED
    BY <1>6, <2>1, <2>2 DEF Runs, Frame, Spared, SavesStay, SameParts, u
<1>7. CASE u = [w EXCEPT !.at = told]
  <2>1. /\ u \in World /\ SameParts(w, u) /\ u.stored = w.stored /\ u.at = told /\ u.sound = w.sound
        /\ u.map = w.map
    BY <1>2, <1>4, <1>7 DEF World, SameParts
  <2>2. Good(u)
    BY <2>1, SameBinds DEF Good, SameParts
  <2> QED
    BY <1>4, <2>1, <2>2 DEF Runs, Frame, Spared, SavesStay, SameParts, u
<1> QED
  BY <1>1, <1>5, <1>6, <1>7

\* Instances that nobody is in may be deleted.
LEMMA DeleteFromDBRuns ==
  ASSUME NEW w, Good(w), NEW i \in Id, NEW P
  PROVE  /\ Good(DeleteFromDB(w, i)) /\ Frame(w, DeleteFromDB(w, i), P) /\ SameParts(w, DeleteFromDB(w, i))
         /\ DeleteFromDB(w, i).stored = [w.stored EXCEPT ![i] = None]
         /\ DeleteFromDB(w, i).at = w.at /\ DeleteFromDB(w, i).map = w.map
         /\ w.save[i] # None /\ ~HavePlayers(w, <<w.save[i].dungeon, i>>) => Runs(w, DeleteFromDB(w, i), P)
<1> DEFINE u == DeleteFromDB(w, i)
           gone == [p \in Player |-> [w.rows[p] EXCEPT ![i] = None]]
<1>1. w \in World /\ w.rows \in [Player -> [Id -> Row \cup {None}]] /\ w.stored \in [Id -> Dungeon \cup {None}]
  BY DEF Good, World
<1>2. gone \in [Player -> [Id -> Row \cup {None}]]
  BY <1>1
<1>3. u = [w EXCEPT !.stored[i] = None, !.rows = gone]
  BY DEF DeleteFromDB
<1> HIDE DEF gone, u
<1>4. /\ u \in World /\ SameParts(w, u) /\ u.stored = [w.stored EXCEPT ![i] = None]
      /\ u.at = w.at /\ u.map = w.map /\ u.sound = w.sound
  BY <1>1, <1>2, <1>3 DEF World, SameParts
<1>5. Good(u) /\ Frame(w, u, P)
  <2>1. Good(u)
    BY <1>4, SameBinds DEF Good, SameParts
  <2> QED
    BY <1>4, <2>1 DEF Frame, SavesStay, SameParts
<1>6. w.save[i] # None /\ ~HavePlayers(w, <<w.save[i].dungeon, i>>) => Spared(w, u)
  <2>1. \A j \in Id : j # i => u.stored[j] = w.stored[j]
    BY <1>1, <1>4
  <2> QED
    BY <2>1 DEF Spared
<1> QED
  BY <1>4, <1>5, <1>6 DEF Runs, u

\* Player::ResetInstances deletes only instances that nobody is in.
LEMMA ResetBindRuns ==
  ASSUME NEW w, Good(w), NEW p \in Player, NEW d \in Dungeon, NEW P
  PROVE  Runs(w, ResetBind(w, p, d), P)
<1> DEFINE i == w.own[p][d].id
           s == <<d, i>>
           x == ResetMap(w, s, FALSE)
           y == DeleteFromDB(x, i)
           v == [y EXCEPT !.own[p][d] = None]
           u == RemovePlayer(v, p, i)
           none == w.own[p][d] = None \/ ~w.save[i].canReset \/ HavePlayers(w, s)
<1>1. ResetBind(w, p, d) = IF none THEN w ELSE u
  BY Zenon DEF ResetBind
<1> HIDE DEF u, v, y, x, none
<1>2. CASE none
  BY <1>1, <1>2, RunsNothing
<1>3. CASE ~none
  <2>1. ResetBind(w, p, d) = u
    BY <1>1, <1>3
  <2>14. w.own[p][d] # None /\ ~HavePlayers(w, s)
    BY <1>3 DEF none
  <2>3. w.own[p][d].id = i /\ s = <<d, i>> /\ w \in World
    BY DEF Good
  <2> HIDE DEF s
  <2>15. i \in Id /\ w.save[i] # None /\ w.save[i].dungeon = d
    BY <2>14, BoundTo
  <2> HIDE DEF i
  <2>2. w.own[p][d] # None /\ i \in Id /\ w.save[i] # None /\ w.save[i].dungeon = d /\ ~HavePlayers(w, s) /\ s \in Spot
    BY <2>3, <2>14, <2>15 DEF Spot
  <2>4. Runs(w, x, P) /\ SameParts(w, x)
    BY <2>2, ResetMapRuns DEF x
  <2>5. ~HavePlayers(x, s)
    BY <2>2, <2>4, SameLinks DEF Runs, Frame
  <2>6. Runs(x, y, P) /\ SameParts(x, y)
    <3>1. x.save[i] # None /\ ~HavePlayers(x, <<x.save[i].dungeon, i>>) /\ Good(x)
      BY <2>2, <2>3, <2>4, <2>5 DEF SameParts, Runs
    <3> QED
      BY <2>2, <3>1, DeleteFromDBRuns DEF y
  <2>7. /\ Runs(w, y, P) /\ Good(y) /\ y \in World /\ y.own = w.own /\ y.grp = w.grp /\ y.save = w.save
    BY <2>3, <2>4, <2>6, RunsTransitive DEF Runs, Good, SameParts
  <2>8. /\ v \in World /\ v.own = [y.own EXCEPT ![p][d] = None] /\ v.grp = y.grp /\ v.save = y.save
        /\ Elsewhere(y, v)
    BY <2>7 DEF World, Elsewhere, v
  <2>9. OnlySave(v, u) /\ Lost(v, u, i, {p}, FALSE)
    BY <2>2, <2>7, <2>8, PlayerRemoved DEF u
  <2>10. u \in World /\ Elsewhere(y, u) /\ u.own = v.own /\ u.grp = y.grp
    BY <2>8, <2>9 DEF OnlySave, Elsewhere
  <2>11. Lost(y, u, i, {p}, FALSE)
    BY <2>8, <2>9 DEF Lost, SaveIs
  <2>12. Match(u) /\ SavesStay(y, u)
    <3>1. y.own[p][d] # None /\ y.own[p][d].id = i
      BY <2>2, <2>3, <2>7
    <3> QED
      BY <2>7, <2>8, <2>10, <2>11, <3>1, PlayerUnbound
  <2>13. Runs(y, u, P)
    <3>1. \A q \in Player \ P, e \in Dungeon : y.own[q][e] = None => u.own[q][e] = None
      <4>1. y.own \in [Player -> [Dungeon -> Bind \cup {None}]] /\ u.own = [y.own EXCEPT ![p][d] = None]
        BY <2>7, <2>8, <2>10 DEF World
      <4> QED
        BY <4>1
    <3>2. Good(u)
      BY <2>10, <2>12 DEF Good
    <3> QED
      BY <2>10, <2>12, <3>1, <3>2, ElsewhereRuns
  <2> QED
    BY <2>1, <2>3, <2>7, <2>13, RunsTransitive
<1> QED
  BY <1>2, <1>3

\* Group::ResetInstances deletes only instances that nobody is in.
LEMMA ResetGroupBindRuns ==
  ASSUME NEW w, Good(w), NEW d \in Dungeon, NEW disband \in BOOLEAN, NEW change \in BOOLEAN, NEW P
  PROVE  Runs(w, ResetGroupBind(w, d, disband, change), P)
<1> DEFINE i == w.grp[d].id
           s == <<d, i>>
           can == w.save[i].canReset
           empty == ~can \/ ~HavePlayers(w, s)
           w1 == IF can THEN ResetMap(w, s, FALSE) ELSE w
           w2 == IF empty /\ can THEN DeleteFromDB(w1, i) ELSE w1
           v == [w2 EXCEPT !.grp[d] = None]
           u == RemoveGroup(v, i)
           none == w.grp[d] = None \/ (~can /\ ~disband)
           most == empty \/ disband \/ change
<1>1. ResetGroupBind(w, d, disband, change) = IF none THEN w ELSE IF most THEN u ELSE w1
  BY Zenon DEF ResetGroupBind
<1>2. none => Runs(w, w, P)
  BY RunsNothing
<1>3. w.grp[d].id = i /\ s = <<d, i>> /\ w \in World
  BY DEF Good
<1> HIDE DEF u, v, w2, w1, most, s
<1>4. ~none => w.grp[d] # None
  OBVIOUS
<1> HIDE DEF none
<1>5. ASSUME ~none
      PROVE  /\ i \in Id /\ w.save[i] # None /\ w.save[i].dungeon = d /\ s \in Spot
             /\ w.grp[d] # None
  <2>1. i \in Id /\ w.save[i] # None /\ w.save[i].dungeon = d
    BY <1>4, <1>5, GroupBoundTo
  <2> HIDE DEF i
  <2> QED
    BY <1>3, <1>4, <1>5, <2>1 DEF Spot
<1> HIDE DEF i
<1>6. ASSUME ~none PROVE Runs(w, w1, P) /\ SameParts(w, w1)
  <2>1. Runs(w, w, P) /\ SameParts(w, w)
    BY RunsNothing DEF SameParts
  <2>2. Runs(w, ResetMap(w, s, FALSE), P) /\ SameParts(w, ResetMap(w, s, FALSE))
    BY <1>5, <1>6, ResetMapRuns
  <2> QED
    BY <2>1, <2>2 DEF w1
<1>7. ASSUME ~none PROVE Runs(w, w2, P) /\ SameParts(w, w2)
  <2>1. CASE ~(empty /\ can)
    BY <1>6, <1>7, <2>1 DEF w2
  <2>2. CASE empty /\ can
    <3>1. ~HavePlayers(w1, s)
      BY <1>6, <1>7, <2>2, SameLinks DEF Runs, Frame
    <3>2. w1.save[i] # None /\ ~HavePlayers(w1, <<w1.save[i].dungeon, i>>) /\ Good(w1)
      BY <1>3, <1>5, <1>6, <1>7, <3>1 DEF SameParts, Runs
    <3>3. Runs(w1, DeleteFromDB(w1, i), P) /\ SameParts(w1, DeleteFromDB(w1, i))
      BY <1>5, <1>7, <3>2, DeleteFromDBRuns
    <3>4. w2 = DeleteFromDB(w1, i)
      BY <2>2 DEF w2
    <3>5. Runs(w1, w2, P) /\ SameParts(w1, w2)
      BY <3>3, <3>4
    <3> QED
      BY <1>3, <1>6, <1>7, <3>5, RunsTransitive DEF SameParts
  <2> QED
    BY <2>1, <2>2
<1>8. ASSUME ~none PROVE Runs(w2, u, P)
  <2>1. Good(w2) /\ w2 \in World /\ w2.grp[d] # None /\ w2.grp[d].id = i /\ w2.save[i] # None
    BY <1>3, <1>5, <1>7, <1>8 DEF Runs, Good, SameParts
  <2>2. /\ v \in World /\ v.own = w2.own /\ v.grp = [w2.grp EXCEPT ![d] = None] /\ v.save = w2.save
        /\ Elsewhere(w2, v)
    BY <2>1 DEF World, Elsewhere, v
  <2>3. OnlySave(v, u) /\ Lost(v, u, i, {}, TRUE)
    BY <1>5, <1>8, <2>1, <2>2, GroupRemoved DEF u
  <2>4. u \in World /\ Elsewhere(w2, u) /\ u.own = w2.own /\ u.grp = v.grp
    BY <2>2, <2>3 DEF OnlySave, Elsewhere
  <2>5. Lost(w2, u, i, {}, TRUE)
    BY <2>2, <2>3 DEF Lost, SaveIs
  <2>6. Match(u) /\ SavesStay(w2, u)
    BY <2>1, <2>2, <2>4, <2>5, GroupUnbound
  <2> QED
    BY <2>4, <2>6, ElsewhereRuns DEF Good
<1> QED
  BY <1>1, <1>2, <1>3, <1>6, <1>7, <1>8, RunsTransitive

-----------------------------------------------------------------------------
(* The calls that bind *)

\* Nobody gets a bind from a call that takes one away.
LEMMA UnbindRuns ==
  ASSUME NEW w, Good(w), NEW p \in Player, NEW d \in Dungeon, NEW P
  PROVE  /\ Runs(w, UnbindPlayer(w, p, d), P)
         /\ UnbindPlayer(w, p, d).own = [w.own EXCEPT ![p][d] = None]
         /\ UnbindPlayer(w, p, d).grp = w.grp
         /\ Elsewhere(w, UnbindPlayer(w, p, d))
<1> DEFINE u == UnbindPlayer(w, p, d)
<1>1. /\ Good(u) /\ Elsewhere(w, u) /\ SavesStay(w, u)
      /\ u.own = [w.own EXCEPT ![p][d] = None] /\ u.grp = w.grp
  BY UnbindPlayerRuns
<1>2. w.own \in [Player -> [Dungeon -> Bind \cup {None}]]
  BY DEF Good, World
<1> HIDE DEF u
<1>3. \A q \in Player, e \in Dungeon : w.own[q][e] = None => u.own[q][e] = None
  BY <1>1, <1>2
<1>4. Runs(w, u, P)
  BY <1>1, <1>3, ElsewhereRuns
<1> QED
  BY <1>1, <1>4 DEF u

\* A group's bind is nobody's.
LEMMA GroupBindRuns ==
  ASSUME NEW w, Good(w), NEW i \in Id, w.save[i] # None, NEW perm \in BOOLEAN, NEW P
  PROVE  /\ Runs(w, BindGroup(w, i, perm), P) /\ BindGroup(w, i, perm).own = w.own
         /\ BindGroup(w, i, perm).save[i] # None
<1> DEFINE u == BindGroup(w, i, perm)
<1>1. GroupBinds(w, u, i, perm)
  BY BindGroupRuns
<1> HIDE DEF u
<1>2. Runs(w, u, P)
  BY <1>1, ElsewhereRuns DEF GroupBinds
<1> QED
  BY <1>1, <1>2 DEF u, GroupBinds

\* Only the player gets a bind.
LEMMA PlayerBindRuns ==
  ASSUME NEW w, Good(w), NEW p \in Player, NEW i \in Id, w.save[i] # None,
         NEW row \in Row, NEW load \in BOOLEAN, NEW P, p \in P
  PROVE  /\ Runs(w, BindPlayer(w, p, i, row, load), P) /\ BindPlayer(w, p, i, row, load).save[i] # None
         /\ BindPlayer(w, p, i, row, load).leader = w.leader
<1> DEFINE u == BindPlayer(w, p, i, row, load)
           d == w.save[i].dungeon
           b == [id |-> i, perm |-> row.perm, lasts |-> row.lasts]
<1>1. /\ Good(u) /\ Elsewhere(w, u) /\ SavesStay(w, u) /\ u.save[i] # None
      /\ u.own = [w.own EXCEPT ![p][d] = b]
  <2>1. PlayerBinds(w, u, p, i, row)
    BY BindPlayerRuns
  <2> HIDE DEF u
  <2> QED
    BY <2>1 DEF PlayerBinds
<1>2. w.own \in [Player -> [Dungeon -> Bind \cup {None}]]
  BY DEF Good, World
<1> HIDE DEF u, d, b
<1>3. \A q \in Player \ P, e \in Dungeon : w.own[q][e] = None => u.own[q][e] = None
  BY <1>1, <1>2
<1>4. Runs(w, u, P) /\ u.leader = w.leader
  BY <1>1, <1>3, ElsewhereRuns DEF Elsewhere
<1> QED
  BY <1>1, <1>4 DEF u

\* The group takes over one of the leader's binds.
LEMMA ConvertBindRuns ==
  ASSUME NEW w, Good(w), NEW p \in Player, NEW d \in Dungeon, NEW switch \in BOOLEAN, NEW P
  PROVE  Runs(w, ConvertBind(w, p, d, switch), P)
<1> DEFINE b == w.own[p][d]
           w1 == IF (~switch \/ w.grp[d] = None) /\ b.lasts THEN BindGroup(w, b.id, b.perm) ELSE w
           u == ConvertBind(w, p, d, switch)
<1>1. \/ u = w
      \/ b # None /\ (u = w1 \/ u = UnbindPlayer(w1, p, d))
  BY DEF ConvertBind
<1>2. CASE b # None
  <2>1. b.id \in Id /\ w.save[b.id] # None /\ b.perm \in BOOLEAN
    BY <1>2, BoundTo DEF Bind
  <2> HIDE DEF b
  <2>2. Runs(w, BindGroup(w, b.id, b.perm), P)
    BY <2>1, GroupBindRuns
  <2>3. Runs(w, w1, P)
    BY <2>2, RunsNothing
  <2> HIDE DEF w1
  <2>4. Runs(w1, UnbindPlayer(w1, p, d), P)
    BY <2>3, UnbindRuns DEF Runs
  <2>5. Runs(w, UnbindPlayer(w1, p, d), P) /\ Runs(w, w, P)
    BY <2>3, <2>4, RunsTransitive, RunsNothing DEF Good
  <2> HIDE DEF u
  <2> QED
    BY <1>1, <2>3, <2>5 DEF u
<1>3. CASE b = None
  <2>1. u = w
    BY <1>1, <1>3
  <2> HIDE DEF u
  <2> QED
    BY <2>1, RunsNothing DEF u
<1> QED
  BY <1>2, <1>3

\* A boss dies: one player is bound permanently, and the save stays.
LEMMA PermBindRuns ==
  ASSUME NEW w, Good(w), NEW p \in Player, NEW i \in Id, w.save[i] # None, NEW P, p \in P
  PROVE  Runs(w, PermBind(w, p, i), P) /\ PermBind(w, p, i).save[i] # None
<1> DEFINE w1 == BindPlayer(w, p, i, PermRow, FALSE)
           u == PermBind(w, p, i)
<1>1. u \in {w, w1, BindGroup(w1, i, TRUE)}
  BY DEF PermBind
<1>2. Runs(w, w1, P) /\ w1.save[i] # None
  <2>1. PermRow \in Row
    BY DEF PermRow, Row
  <2> QED
    BY <2>1, PlayerBindRuns
<1>3. Runs(w, w, P) /\ w \in World
  BY RunsNothing DEF Good
<1> HIDE DEF w1, u
<1>4. Runs(w1, BindGroup(w1, i, TRUE), P) /\ BindGroup(w1, i, TRUE).save[i] # None
  BY <1>2, GroupBindRuns DEF Runs
<1>5. Runs(w, BindGroup(w1, i, TRUE), P)
  BY <1>2, <1>3, <1>4, RunsTransitive
<1>6. Runs(w, u, P) /\ u.save[i] # None
  BY <1>1, <1>2, <1>3, <1>4, <1>5
<1> QED
  BY <1>6 DEF u

\* What _ResetSave asserts holds, so nothing but saves and binds changes.
LEMMA ResetSaveRuns ==
  ASSUME NEW w, Good(w), NEW i \in Id, w.save[i] # None, NEW P
  PROVE  /\ Runs(w, ResetSave(w, i), P) /\ Elsewhere(w, ResetSave(w, i))
         /\ \A j \in Id \ {i} : ResetSave(w, i).save[j] = w.save[j]
<1> DEFINE own == w.own
           grp == w.grp
           s == w.save[i]
           d == s.dungeon
           kept == {p \in s.players : LET b == GetBoundInstance(w, p, d) IN b # None /\ b.perm}
           own2 == [p \in Player |-> IF p \in s.players
                                     THEN [own[p] EXCEPT ![d] = IF p \in kept
                                             THEN [@ EXCEPT !.lasts = FALSE] ELSE None]
                                     ELSE own[p]]
           g == IF s.group THEN None ELSE grp[d]
           grp2 == [grp EXCEPT ![d] = g]
           t == IF kept = {} THEN None ELSE [s EXCEPT !.players = kept, !.group = FALSE]
           fine == \A p \in s.players :
                     LET b == GetBoundInstance(w, p, d) IN b # None => b.id = i
           u == [w EXCEPT !.own = own2, !.grp[d] = IF s.group THEN None ELSE @, !.save[i] = t,
                          !.sound = @ /\ fine]
<1>1. ResetSave(w, i) = u
  BY DEF ResetSave
<1>2. w \in World /\ Parts(own, grp, w.save) /\ w.sound \in BOOLEAN
  BY HasParts DEF Good, World
<1>3. /\ s \in Save /\ s # None /\ Fits(own, grp, s, i)
  BY <1>2 DEF Good, Match, Parts
<1>4. d \in Dungeon /\ s.players \subseteq Player /\ s.group \in BOOLEAN
  BY <1>3 DEF Save
<1>5. \A p \in s.players : p \in Player /\ own[p][d] \in Bind /\ own[p][d] # None /\ own[p][d].id = i
  <2> HIDE DEF s, own
  <2>1. \A p \in s.players : p \in Player /\ own[p][d] # None /\ own[p][d].id = i
    BY <1>3, <1>4 DEF Fits, Listed
  <2> HIDE DEF d
  <2> QED
    BY <1>2, <1>4, <2>1 DEF Parts
<1>6. fine
  <2> SUFFICES ASSUME NEW p \in s.players, GetBoundInstance(w, p, d) # None
               PROVE  GetBoundInstance(w, p, d).id = i
    OBVIOUS
  <2>1. GetBoundInstance(w, p, d) = own[p][d]
    BY DEF GetBoundInstance
  <2> HIDE DEF own, s, d
  <2> QED
    BY <1>5, <2>1
<1>7. \A p \in kept : p \in s.players /\ own[p][d].perm
  <2> SUFFICES ASSUME NEW p \in kept PROVE p \in s.players /\ own[p][d].perm
    OBVIOUS
  <2>1. p \in s.players /\ GetBoundInstance(w, p, d) # None /\ GetBoundInstance(w, p, d).perm
    OBVIOUS
  <2>2. GetBoundInstance(w, p, d) # None => GetBoundInstance(w, p, d) = own[p][d]
    BY DEF GetBoundInstance
  <2> QED
    BY <2>1, <2>2
<1>8. (s.group => g = None) /\ (~s.group => g = grp[d])
  OBVIOUS
<1>9. u = [w EXCEPT !.own = own2, !.grp = grp2, !.save[i] = t]
  <2>1. (w.sound /\ fine) = w.sound
    BY <1>2, <1>6
  <2> HIDE DEF own2, t, fine, d, s
  <2> QED
    BY <1>2, <2>1 DEF World
<1>10. kept # {} => t = [s EXCEPT !.players = kept, !.group = FALSE]
  OBVIOUS
<1>11. kept = {} => t = None
  OBVIOUS
<1> HIDE DEF kept, g, own, grp, s, d, t, fine, u
<1>12. \A p \in Player, e \in Dungeon :
         own2[p][e] = IF p \in s.players /\ e = d
                      THEN IF p \in kept THEN [own[p][d] EXCEPT !.lasts = FALSE] ELSE None
                      ELSE own[p][e]
  BY <1>2, <1>4 DEF Parts
<1>13. \A p \in kept : /\ own2[p][d] \in Bind /\ own2[p][d] # None
                       /\ own2[p][d].id = i /\ own2[p][d].perm = own[p][d].perm
  <2>1. ASSUME NEW b \in Bind
        PROVE  LET c == [b EXCEPT !.lasts = FALSE] IN c \in Bind /\ c.id = b.id /\ c.perm = b.perm
    BY DEF Bind
  <2> SUFFICES ASSUME NEW p \in kept
               PROVE  /\ own2[p][d] \in Bind /\ own2[p][d] # None
                      /\ own2[p][d].id = i /\ own2[p][d].perm = own[p][d].perm
    OBVIOUS
  <2>2. own2[p][d] = [own[p][d] EXCEPT !.lasts = FALSE] /\ own[p][d] \in Bind /\ own[p][d].id = i
    BY <1>4, <1>5, <1>7, <1>12
  <2> HIDE DEF own2
  <2> QED
    BY <2>1, <2>2, NoneAssumption
<1>14. own2 \in [Player -> [Dungeon -> Bind \cup {None}]]
  <2>1. ASSUME NEW p \in Player PROVE own2[p] \in [Dungeon -> Bind \cup {None}]
    <3>1. own[p] \in [Dungeon -> Bind \cup {None}]
      BY <1>2 DEF Parts
    <3>2. own2[p] = own[p] \/ (p \in s.players /\ \E x : own2[p] = [own[p] EXCEPT ![d] = x])
      OBVIOUS
    <3>3. \A e \in Dungeon : own2[p][e] \in Bind \cup {None}
      BY <1>12, <1>13, <3>1
    <3> HIDE DEF own2
    <3> QED
      BY <3>1, <3>2, <3>3
  <2> QED
    BY <2>1
<1> HIDE DEF own2
<1>15. \A e \in Dungeon : grp2[e] = IF e = d THEN g ELSE grp[e]
  BY <1>2, <1>4 DEF Parts
<1>16. grp2 \in [Dungeon -> GroupBind \cup {None}]
  BY <1>2, <1>4, <1>8 DEF Parts
<1> HIDE DEF grp2
<1>17. kept # {} => /\ t \in Save /\ t # None /\ t.dungeon = d /\ t.players = kept
                    /\ ~t.group /\ t.canReset = s.canReset
  <2>1. kept \in SUBSET Player
    BY <1>4, <1>7
  <2>2. [s EXCEPT !.players = kept, !.group = FALSE] \in Save
    BY <1>3, <2>1 DEF Save
  <2> QED
    BY <1>3, <1>10, <2>2, NoneAssumption DEF Save, d
<1>18. /\ u \in World /\ Elsewhere(w, u) /\ u.own = own2 /\ u.grp = grp2
       /\ u.save = [w.save EXCEPT ![i] = t]
  BY <1>2, <1>9, <1>11, <1>14, <1>16, <1>17 DEF World, Elsewhere
<1>19. u.save[i] = t /\ \A j \in Id \ {i} : u.save[j] = w.save[j]
  BY <1>2, <1>18 DEF Parts
<1>20. OwnFit(own2, t, i)
  <2> SUFFICES ASSUME NEW q \in Player, NEW e \in Dungeon, own2[q][e] # None, own2[q][e].id = i
               PROVE  t # None /\ t.dungeon = e /\ q \in t.players /\ (own2[q][e].perm => ~t.canReset)
    BY DEF OwnFit
  <2>1. own2[q][e] = own[q][e] => e = d /\ q \in s.players
    BY <1>3 DEF Fits, OwnFit, d
  <2>2. q \in s.players /\ e = d /\ q \in kept
    BY <1>12, <2>1
  <2>3. own[q][d].perm /\ ~s.canReset
    BY <1>3, <1>5, <1>7, <2>2 DEF Fits, OwnFit
  <2> QED
    BY <1>17, <2>2, <2>3
<1>21. GroupFits(grp2, t, i)
  BY <1>3, <1>8, <1>15 DEF Fits, GroupFits, d
<1>22. Listed(own2, grp2, t, i)
  BY <1>11, <1>13, <1>17 DEF Listed
<1>23. \A q \in Player, e \in Dungeon : OnlyTo(i, own[q][e], own2[q][e])
  <2> SUFFICES ASSUME NEW q \in Player, NEW e \in Dungeon PROVE OnlyTo(i, own[q][e], own2[q][e])
    OBVIOUS
  <2>1. CASE q \in s.players /\ e = d /\ q \in kept
    BY <1>5, <1>13, <2>1 DEF OnlyTo
  <2>2. CASE q \in s.players /\ e = d /\ q \notin kept
    BY <1>5, <1>12, <2>2 DEF OnlyTo
  <2>3. CASE ~(q \in s.players /\ e = d)
    BY <1>12, <2>3 DEF OnlyTo
  <2> QED
    BY <2>1, <2>2, <2>3
<1>24. \A e \in Dungeon : OnlyTo(i, grp[e], grp2[e])
  <2>1. s.group => grp[d] # None /\ grp[d].id = i
    BY <1>3 DEF Fits, Listed, d
  <2> QED
    BY <1>8, <1>15, <2>1 DEF OnlyTo
<1>25. Good(u)
  <2>1. Fits(own2, grp2, t, i)
    BY <1>20, <1>21, <1>22 DEF Fits
  <2> QED
    BY <1>18, <1>19, <1>23, <1>24, <2>1, OneSave DEF Good, own, grp
<1>26. SavesStay(w, u)
  BY <1>3, <1>11, <1>17, <1>19 DEF SavesStay, s, d
<1>27. \A q \in Player, e \in Dungeon : w.own[q][e] = None => u.own[q][e] = None
  BY <1>5, <1>12, <1>18 DEF own
<1> QED
  BY <1>1, <1>18, <1>19, <1>25, <1>26, <1>27, ElsewhereRuns

-----------------------------------------------------------------------------
(* The calls that enter and leave *)

\* p goes somewhere: nobody else moves or gets a bind, maps with players are kept,
\* and no instance is deleted from the tables.
Moves(w, u, p) ==
  /\ Good(u)
  /\ \A q \in Player \ {p} : u.at[q] = w.at[q]
  /\ \A s \in Spot : w.map[s] = "kept" => u.map[s] = "kept"
  /\ u.sound = w.sound
  /\ \A i \in Id : w.stored[i] # None => u.stored[i] # None
  /\ \A q \in Player \ {p}, d \in Dungeon : w.own[q][d] = None => u.own[q][d] = None

\* What the calls do for a player on its way they do one after the other.
LEMMA MovesTransitive ==
  ASSUME NEW w, NEW u, NEW v, NEW p, Moves(w, u, p), Moves(u, v, p)
  PROVE  Moves(w, v, p)
BY DEF Moves

\* A call that returns early.
LEMMA MovesNothing == ASSUME NEW w, Good(w), NEW p PROVE Moves(w, w, p)
BY DEF Moves

\* A call that changes only saves and the binds of p does not move anybody.
LEMMA ElsewhereMoves ==
  ASSUME NEW w, NEW u, NEW p, Good(u), Elsewhere(w, u),
         \A q \in Player \ {p}, d \in Dungeon : w.own[q][d] = None => u.own[q][d] = None
  PROVE  Moves(w, u, p)
BY DEF Moves, Elsewhere

\* A place for the player, and perhaps a map for the place.
Puts(w, u, p, x) == u = [w EXCEPT !.at[p] = x]

\* The player is put somewhere.
LEMMA PlaceMoves ==
  ASSUME NEW w, Good(w), NEW p \in Player, NEW x \in Place, NEW u, Puts(w, u, p, x)
  PROVE  /\ Moves(w, u, p) /\ SameParts(w, u)
         /\ u.at[p] = x /\ u.map = w.map /\ u.members = w.members
<1>1. /\ u \in World /\ SameParts(w, u) /\ u.map = w.map /\ u.sound = w.sound /\ u.stored = w.stored
      /\ u.at = [w.at EXCEPT ![p] = x] /\ w.at \in [Player -> Place] /\ u.members = w.members
  BY DEF Good, World, SameParts, Puts
<1>2. Good(u)
  BY <1>1, SameBinds DEF Good, SameParts
<1>3. u.at[p] = x /\ \A q \in Player \ {p} : u.at[q] = w.at[q]
  BY <1>1
<1> QED
  BY <1>1, <1>2, <1>3 DEF Moves, SameParts

Marks(w, u, s, m) ==
  u = [w EXCEPT !.map[s] = m] /\ (m = "kept" \/ (m = "unloading" /\ w.map[s] = "none"))

\* A map is made, or will not be unloaded any more.
LEMMA MapMoves ==
  ASSUME NEW w, Good(w), NEW s \in Spot, NEW m, NEW p, NEW u, Marks(w, u, s, m)
  PROVE  /\ Moves(w, u, p) /\ SameParts(w, u)
         /\ u.map[s] = m /\ u.at = w.at /\ u.members = w.members
<1>1. /\ u \in World /\ SameParts(w, u) /\ u.at = w.at /\ u.sound = w.sound /\ u.stored = w.stored
      /\ u.map = [w.map EXCEPT ![s] = m] /\ w.map \in [Spot -> {"none", "kept", "unloading"}]
      /\ u.members = w.members /\ (m = "unloading" => w.map[s] = "none")
      /\ m \in {"kept", "unloading"}
  BY DEF Good, World, SameParts, Marks
<1>2. Good(u)
  BY <1>1, SameBinds DEF Good, SameParts
<1>3. u.map[s] = m /\ \A r \in Spot : w.map[r] = "kept" => u.map[r] = "kept"
  BY <1>1
<1> QED
  BY <1>1, <1>2, <1>3 DEF Moves, SameParts

\* MapInstanced makes a map only where none is.
LEMMA CreateInstanceMoves ==
  ASSUME NEW w, Good(w), NEW s \in Spot, NEW p
  PROVE  /\ Moves(w, CreateInstance(w, s), p) /\ SameParts(w, CreateInstance(w, s))
         /\ CreateInstance(w, s).at = w.at /\ CreateInstance(w, s).members = w.members
<1> DEFINE u == CreateInstance(w, s)
<1>1. u = IF w.map[s] = "none" THEN [w EXCEPT !.map[s] = "unloading"] ELSE w
  <2>1. u = [w EXCEPT !.map[s] = IF w.map[s] = "none" THEN "unloading" ELSE w.map[s]]
    BY DEF CreateInstance
  <2>2. [w EXCEPT !.map[s] = w.map[s]] = w
    BY DEF Good, World
  <2> HIDE DEF u
  <2> QED
    BY <2>1, <2>2
<1> HIDE DEF u
<1>2. w.map[s] = "none" => Moves(w, u, p) /\ SameParts(w, u) /\ u.at = w.at /\ u.members = w.members
  <2>1. w.map[s] = "none" => Marks(w, u, s, "unloading")
    BY <1>1 DEF Marks
  <2> QED
    BY <2>1, MapMoves
<1>3. Moves(w, w, p) /\ SameParts(w, w)
  BY MovesNothing DEF SameParts
<1>4. /\ Moves(w, u, p) /\ SameParts(w, u) /\ u.at = w.at /\ u.members = w.members
  BY <1>1, <1>2, <1>3
<1> QED
  BY <1>4 DEF u

\* Nothing but the reset events changes.
OnlyDue(w, u) ==
  /\ u \in World /\ SameParts(w, u) /\ u.rows = w.rows /\ u.stored = w.stored /\ u.map = w.map
  /\ u.at = w.at /\ u.members = w.members /\ u.leader = w.leader /\ u.sound = w.sound

\* A reset is scheduled; nothing else changes.
LEMMA ScheduleResetIs ==
  ASSUME NEW w \in World, NEW d \in Normal, NEW i \in Id
  PROVE  OnlyDue(w, ScheduleReset(w, d, i))
<1> DEFINE n == IF w.due[<<d, i>>] < MaxDue THEN w.due[<<d, i>>] + 1 ELSE w.due[<<d, i>>]
           u == ScheduleReset(w, d, i)
<1>1. w.due \in [Normal \X Id -> 0..MaxDue] /\ <<d, i>> \in Normal \X Id
  BY DEF World
<1>2. n \in 0..MaxDue
  <2>1. w.due[<<d, i>>] \in 0..MaxDue
    BY <1>1
  <2> QED
    BY <2>1, BoundsAssumption
<1>3. u = [w EXCEPT !.due[<<d, i>>] = n]
  BY DEF ScheduleReset, World
<1> HIDE DEF n, u
<1>4. OnlyDue(w, u)
  BY <1>1, <1>2, <1>3 DEF World, OnlyDue, SameParts
<1> QED
  BY <1>4 DEF u

\* The save of an instance that is entered exists, and nobody was bound to a new one.
Adds(w, u, i, p) ==
  /\ Moves(w, u, p) /\ u.save[i] # None
  /\ u.own = w.own /\ u.grp = w.grp /\ u.at = w.at /\ u.map = w.map /\ u.members = w.members

\* AddInstanceSave makes the save if there is none, and nothing that binds need is lost.
LEMMA AddInstanceSaveMoves ==
  ASSUME NEW w, Good(w), NEW d \in Dungeon, NEW i \in Id, NEW p
  PROVE  Adds(w, AddInstanceSave(w, d, i), i, p)
<1> DEFINE s == [dungeon |-> d, players |-> {}, group |-> FALSE, canReset |-> TRUE]
           r == IF w.stored[i] = None THEN d ELSE w.stored[i]
           w1 == [w EXCEPT !.save[i] = s, !.stored[i] = r]
           w2 == ScheduleReset(w1, d, i)
           u == AddInstanceSave(w, d, i)
<1>1. w \in World /\ w.stored \in [Id -> Dungeon \cup {None}] /\ w.save \in [Id -> Save \cup {None}]
  BY DEF Good, World
<1>2. CASE w.save[i] # None
  <2>1. u = w
    BY <1>2 DEF AddInstanceSave
  <2> HIDE DEF u
  <2> QED
    BY <1>2, <2>1, MovesNothing DEF Adds, u
<1>3. CASE w.save[i] = None
  <2>1. u = w1 \/ (d \in Normal /\ u = w2)
    BY <1>1, <1>3 DEF AddInstanceSave
  <2>2. s \in Save /\ s # None
    <3>1. s \in Save
      BY DEF Save
    <3> HIDE DEF s
    <3> QED
      BY <3>1, NoneAssumption
  <2>3. r \in Dungeon /\ (w.stored[i] # None => r = w.stored[i])
    BY <1>1
  <2> HIDE DEF r, s
  <2>4. /\ w1 \in World /\ w1.own = w.own /\ w1.grp = w.grp /\ w1.at = w.at /\ w1.map = w.map
        /\ w1.sound = w.sound /\ w1.members = w.members
        /\ w1.save = [w.save EXCEPT ![i] = s] /\ w1.stored = [w.stored EXCEPT ![i] = r]
    BY <1>1, <2>2, <2>3 DEF World
  <2> HIDE DEF w1
  <2>5. d \in Normal => OnlyDue(w1, w2)
    BY <2>4, ScheduleResetIs
  <2> HIDE DEF w2, u
  <2>6. /\ u \in World /\ u.own = w.own /\ u.grp = w.grp /\ u.at = w.at /\ u.map = w.map
        /\ u.sound = w.sound /\ u.members = w.members
        /\ u.save = [w.save EXCEPT ![i] = s] /\ u.stored = [w.stored EXCEPT ![i] = r]
    BY <2>1, <2>4, <2>5 DEF OnlyDue, SameParts
  <2>7. u.save[i] = s /\ \A j \in Id \ {i} : u.save[j] = w.save[j]
    BY <1>1, <2>6
  <2>8. Fits(u.own, u.grp, s, i)
    <3> DEFINE own == w.own
               grp == w.grp
    <3>1. Fits(own, grp, None, i)
      BY <1>3 DEF Good, Match
    <3> HIDE DEF own, grp
    <3>2. OwnFit(own, s, i)
      BY <3>1 DEF Fits, OwnFit
    <3>3. GroupFits(grp, s, i)
      BY <3>1 DEF Fits, GroupFits
    <3>4. Listed(own, grp, s, i)
      BY DEF Listed, s
    <3> QED
      BY <2>6, <3>2, <3>3, <3>4 DEF Fits, own, grp
  <2>9. \A q \in Player, e \in Dungeon : OnlyTo(i, w.own[q][e], u.own[q][e])
    BY <2>6 DEF OnlyTo
  <2>10. \A e \in Dungeon : OnlyTo(i, w.grp[e], u.grp[e])
    BY <2>6 DEF OnlyTo
  <2>11. Good(u)
    BY <2>6, <2>7, <2>8, <2>9, <2>10, OneSave DEF Good
  <2>12. \A j \in Id : w.stored[j] # None => u.stored[j] # None
    BY <1>1, <2>3, <2>6, NoneAssumption
  <2>13. Moves(w, u, p)
    BY <2>6, <2>11, <2>12 DEF Moves
  <2> QED
    BY <2>2, <2>6, <2>7, <2>13 DEF Adds, u
<1> QED
  BY <1>2, <1>3

\* A save that nobody is bound to goes.
Emptied(w, u, i) ==
  /\ \A j \in Id \ {i} : u.save[j] = w.save[j]
  /\ \/ u.save[i] = w.save[i]
     \/ u.save[i] = None /\ w.save[i] # None /\ w.save[i].players = {} /\ ~w.save[i].group

\* A save that nobody is bound to can be deleted.
LEMMA EmptyGoes ==
  ASSUME NEW w, Good(w), NEW u \in World, NEW i \in Id, u.own = w.own, u.grp = w.grp, Emptied(w, u, i)
  PROVE  Good(u) /\ SavesStay(w, u)
<1> DEFINE own == w.own
           grp == w.grp
           s == w.save[i]
           t == u.save[i]
<1>1. Fits(own, grp, s, i)
  BY DEF Good, Match
<1>2. /\ \A j \in Id \ {i} : u.save[j] = w.save[j]
      /\ t = s \/ (t = None /\ s # None /\ s.players = {} /\ ~s.group)
  BY DEF Emptied
<1>3. \A q \in Player, e \in Dungeon : OnlyTo(i, own[q][e], u.own[q][e])
  BY DEF OnlyTo
<1>4. \A e \in Dungeon : OnlyTo(i, grp[e], u.grp[e])
  BY DEF OnlyTo
<1> HIDE DEF own, grp, s, t
<1>5. Fits(own, grp, t, i)
  <2>1. CASE t = s
    BY <1>1, <2>1
  <2>2. CASE t = None /\ s # None /\ s.players = {} /\ ~s.group
    <3>1. OwnFit(own, t, i)
      BY <1>1, <2>2 DEF Fits, OwnFit
    <3>2. GroupFits(grp, t, i)
      BY <1>1, <2>2 DEF Fits, GroupFits
    <3>3. Listed(own, grp, t, i)
      BY <2>2 DEF Listed
    <3> QED
      BY <3>1, <3>2, <3>3 DEF Fits
  <2> QED
    BY <1>2, <2>1, <2>2
<1>6. Match(u)
  BY <1>2, <1>3, <1>4, <1>5, OneSave DEF own, grp, t
<1>7. SavesStay(w, u)
  BY <1>2 DEF SavesStay, s, t
<1> QED
  BY <1>6, <1>7 DEF Good

\* A player leaves the map: its timer runs if nobody else is linked to it, and its
\* save goes if nobody is bound to it.
LEMMA PlayerLeaves ==
  ASSUME NEW w \in World, NEW p \in Player, w.at[p].spot # None, NEW gone \in BOOLEAN
  PROVE  LET u == RemovePlayerFromMap(w, p, gone)
             s == w.at[p].spot
         IN /\ u \in World /\ u.own = w.own /\ u.grp = w.grp /\ u.stored = w.stored
            /\ u.sound = w.sound /\ s \in Spot /\ s[2] \in Id /\ Emptied(w, u, s[2])
            /\ u.at = [w.at EXCEPT ![p].on = IF gone THEN "offline" ELSE "transit"]
            /\ \A r \in Spot : u.map[r] = w.map[r] \/ Linked(w, r) = {p}
<1> DEFINE s == w.at[p].spot
           alone == w.map[s] = "kept" /\ Linked(w, s) = {p}
           w1 == IF alone THEN [w EXCEPT !.map[s] = "unloading"] ELSE w
           on == IF gone THEN "offline" ELSE "transit"
           w2 == [w1 EXCEPT !.at[p].on = on]
           w3 == SetResetSchedule(w2, s)
           u == UnloadIfEmpty(w3, s[2])
<1>1. RemovePlayerFromMap(w, p, gone) = u
  BY DEF RemovePlayerFromMap
<1>2. s \in Spot /\ s[1] \in Dungeon /\ s[2] \in Id
  <2>1. w.at[p] \in Place
    BY DEF World
  <2>2. s \in Spot
    BY <2>1 DEF Place
  <2> HIDE DEF s
  <2> QED
    BY <2>2 DEF Spot
<1> HIDE DEF s, u, w3, w2, w1
<1>3. /\ w1 \in World /\ SameParts(w, w1) /\ w1.stored = w.stored /\ w1.sound = w.sound /\ w1.at = w.at
      /\ \A r \in Spot : w1.map[r] = w.map[r] \/ Linked(w, r) = {p}
  <2>1. CASE alone
    <3>1. w1 = [w EXCEPT !.map[s] = "unloading"] /\ Linked(w, s) = {p}
      BY <2>1 DEF w1
    <3> HIDE DEF alone
    <3>2. /\ w1 \in World /\ SameParts(w, w1) /\ w1.stored = w.stored /\ w1.sound = w.sound /\ w1.at = w.at
          /\ \A r \in Spot : w1.map[r] = w.map[r] \/ r = s
      BY <1>2, <3>1 DEF World, SameParts
    <3> QED
      BY <3>1, <3>2
  <2>2. CASE ~alone
    <3>1. w1 = w
      BY <2>2 DEF w1
    <3> QED
      BY <3>1 DEF SameParts
  <2> QED
    BY <2>1, <2>2
<1>4. /\ w2 \in World /\ SameParts(w1, w2) /\ w2.stored = w.stored /\ w2.sound = w.sound
      /\ w2.at = [w.at EXCEPT ![p].on = on] /\ w2.map = w1.map
  <2>1. on \in {"world", "transit", "offline"}
    OBVIOUS
  <2> HIDE DEF on
  <2>2. w.at \in [Player -> Place] /\ [w.at[p] EXCEPT !.on = on] \in Place
    BY <2>1 DEF World, Place
  <2> QED
    BY <1>3, <2>2 DEF World, SameParts, w2
<1>5. w3 = w2 \/ OnlyDue(w2, w3)
  <2>1. w3 = w2 \/ (s[1] \in Normal /\ w3 = ScheduleReset(w2, s[1], s[2]))
    BY DEF SetResetSchedule, w3
  <2> QED
    BY <1>2, <1>4, <2>1, ScheduleResetIs
<1>6. /\ w3 \in World /\ SameParts(w2, w3) /\ w3.stored = w2.stored /\ w3.sound = w2.sound
      /\ w3.at = w2.at /\ w3.map = w2.map
  BY <1>4, <1>5 DEF OnlyDue, SameParts
<1>7. OnlySave(w3, u) /\ Emptied(w3, u, s[2])
  <2>1. CASE w3.save[s[2]] = None
    <3>1. u = w3
      BY <2>1 DEF UnloadIfEmpty, u
    <3> QED
      BY <1>6, <3>1 DEF OnlySave, Elsewhere, Emptied
  <2>2. CASE w3.save[s[2]] # None
    <3>1. /\ OnlySave(w3, u)
          /\ \/ u = w3
             \/ /\ w3.save[s[2]].players = {} /\ ~w3.save[s[2]].group
                /\ SaveIs(w3, u, s[2], None)
      BY <1>2, <1>6, <2>2, Unload DEF u
    <3>2. w3.save \in [Id -> Save \cup {None}]
      BY <1>6 DEF World
    <3> QED
      BY <1>2, <2>2, <3>1, <3>2 DEF Emptied, SaveIs
  <2> QED
    BY <2>1, <2>2
<1>8. /\ u \in World /\ u.own = w.own /\ u.grp = w.grp /\ u.stored = w.stored
      /\ u.sound = w.sound /\ Emptied(w, u, s[2])
      /\ u.at = [w.at EXCEPT ![p].on = on]
      /\ \A r \in Spot : u.map[r] = w.map[r] \/ Linked(w, r) = {p}
  BY <1>3, <1>4, <1>6, <1>7 DEF OnlySave, Elsewhere, SameParts, Emptied
<1> QED
  BY <1>1, <1>2, <1>8 DEF s

\* What RemovePlayerFromMap comes to when binds and saves agree.
LEMMA PlayerLeavesGood ==
  ASSUME NEW w, Good(w), NEW p \in Player, w.at[p].spot # None, NEW gone \in BOOLEAN
  PROVE  LET u == RemovePlayerFromMap(w, p, gone)
         IN /\ Good(u) /\ u.own = w.own /\ u.stored = w.stored /\ u.sound = w.sound
            /\ u.at = [w.at EXCEPT ![p].on = IF gone THEN "offline" ELSE "transit"]
            /\ \A r \in Spot : u.map[r] = w.map[r] \/ Linked(w, r) = {p}
<1> DEFINE u == RemovePlayerFromMap(w, p, gone)
           s == w.at[p].spot
<1>1. /\ u \in World /\ u.own = w.own /\ u.grp = w.grp /\ u.stored = w.stored
      /\ u.sound = w.sound /\ s \in Spot /\ s[2] \in Id /\ Emptied(w, u, s[2])
      /\ u.at = [w.at EXCEPT ![p].on = IF gone THEN "offline" ELSE "transit"]
      /\ \A r \in Spot : u.map[r] = w.map[r] \/ Linked(w, r) = {p}
  BY PlayerLeaves DEF Good
<1> HIDE DEF u, s
<1>2. Good(u)
  BY <1>1, EmptyGoes
<1> QED
  BY <1>1, <1>2 DEF u

\* A player for whom the instance is the right one: it becomes the player's or the
\* group's, and the map is kept.
LEMMA AddPlayerToMapMoves ==
  ASSUME NEW w, Good(w), NEW p \in Player, NEW s \in Spot,
         LET b == GetBoundInstance(w, p, s[1])
         IN b = None \/ b.perm \/ InGroup(w, p) \/ b.id = s[2]
  PROVE  /\ Moves(w, AddPlayerToMap(w, p, s), p)
         /\ AddPlayerToMap(w, p, s).at = w.at
         /\ AddPlayerToMap(w, p, s).map[s] = "kept"
<1> DEFINE b == GetBoundInstance(w, p, s[1])
           w1 == AddInstanceSave(w, s[1], s[2])
           w2 == IF b # None /\ b.perm THEN w1
                 ELSE IF InGroup(w, p)
                      THEN IF w1.grp[s[1]] = None THEN BindGroup(w1, s[2], FALSE) ELSE w1
                      ELSE IF b = None THEN BindPlayer(w1, p, s[2], SoloRow, FALSE)
                           ELSE [w1 EXCEPT !.sound = @ /\ b.id = s[2]]
           u == [w2 EXCEPT !.map[s] = "kept"]
<1>1. AddPlayerToMap(w, p, s) = u
  BY DEF AddPlayerToMap
<1>2. b = None \/ b.perm \/ InGroup(w, p) \/ b.id = s[2]
  OBVIOUS
<1>3. s[1] \in Dungeon /\ s[2] \in Id
  BY DEF Spot
<1>4. Moves(w, w1, p) /\ w1.save[s[2]] # None /\ w1.at = w.at /\ Good(w1)
  <2>1. Adds(w, AddInstanceSave(w, s[1], s[2]), s[2], p)
    BY <1>3, AddInstanceSaveMoves
  <2> QED
    BY <2>1 DEF Adds, Moves
<1> HIDE DEF b, w1
<1>5. \/ w2 = w1
      \/ w2 = BindGroup(w1, s[2], FALSE)
      \/ w2 = BindPlayer(w1, p, s[2], SoloRow, FALSE)
  <2>1. b.id = s[2] => [w1 EXCEPT !.sound = @ /\ b.id = s[2]] = w1
    BY <1>4 DEF Good, World
  <2>2. \/ w2 = w1
        \/ w2 = BindGroup(w1, s[2], FALSE)
        \/ w2 = BindPlayer(w1, p, s[2], SoloRow, FALSE)
        \/ b # None /\ ~b.perm /\ ~InGroup(w, p) /\ w2 = [w1 EXCEPT !.sound = @ /\ b.id = s[2]]
    OBVIOUS
  <2> HIDE DEF w2
  <2> QED
    BY <1>2, <2>1, <2>2
<1> HIDE DEF w2, u
<1>6. Moves(w1, w2, p) /\ w2.at = w1.at
  <2>1. CASE w2 = w1
    BY <1>4, <2>1, MovesNothing
  <2>2. CASE w2 = BindGroup(w1, s[2], FALSE)
    <3>1. Good(w2) /\ Elsewhere(w1, w2) /\ w2.own = w1.own
      <4>1. GroupBinds(w1, w2, s[2], FALSE)
        BY <1>3, <1>4, <2>2, BindGroupRuns
      <4> QED
        BY <4>1 DEF GroupBinds
    <3> QED
      BY <3>1, ElsewhereMoves DEF Elsewhere
  <2>3. CASE w2 = BindPlayer(w1, p, s[2], SoloRow, FALSE)
    <3> DEFINE v == BindPlayer(w1, p, s[2], SoloRow, FALSE)
               d == w1.save[s[2]].dungeon
               c == [id |-> s[2], perm |-> SoloRow.perm, lasts |-> SoloRow.lasts]
    <3>1. SoloRow \in Row
      BY DEF SoloRow, Row
    <3>2. Good(v) /\ Elsewhere(w1, v) /\ v.own = [w1.own EXCEPT ![p][d] = c]
      <4>1. PlayerBinds(w1, v, p, s[2], SoloRow)
        BY <1>3, <1>4, <3>1, BindPlayerRuns
      <4> HIDE DEF v
      <4> QED
        BY <4>1 DEF PlayerBinds
    <3>3. w1.own \in [Player -> [Dungeon -> Bind \cup {None}]]
      BY <1>4 DEF Good, World
    <3> HIDE DEF v, d, c
    <3>4. \A q \in Player \ {p}, e \in Dungeon : w1.own[q][e] = None => v.own[q][e] = None
      BY <3>2, <3>3
    <3>5. Moves(w1, v, p) /\ v.at = w1.at
      BY <3>2, <3>4, ElsewhereMoves DEF Elsewhere
    <3> QED
      BY <2>3, <3>5 DEF v
  <2> QED
    BY <1>5, <2>1, <2>2, <2>3
<1>7. Moves(w2, u, p) /\ u.map[s] = "kept" /\ u.at = w2.at
  <2>1. Good(w2) /\ Marks(w2, u, s, "kept")
    BY <1>6 DEF u, Moves, Marks
  <2>2. Moves(w2, u, p) /\ SameParts(w2, u) /\ u.map[s] = "kept" /\ u.at = w2.at /\ u.members = w2.members
    BY <2>1, MapMoves
  <2> QED
    BY <2>2
<1>8. Moves(w, u, p)
  BY <1>4, <1>6, <1>7, MovesTransitive
<1> QED
  BY <1>1, <1>4, <1>6, <1>7, <1>8

\* One row is loaded.  In a group only permanent binds are.
Loads(w, u, p) ==
  /\ Good(u) /\ Elsewhere(w, u)
  /\ \A q \in Player \ {p}, d \in Dungeon : w.own[q][d] = None => u.own[q][d] = None
  /\ InGroup(w, p) /\ (\A d \in Dungeon : w.own[p][d] # None => w.own[p][d].perm)
       => (\A d \in Dungeon : u.own[p][d] # None => u.own[p][d].perm)
  /\ u.grp = w.grp

\* One row of character_instance is loaded; the other rows stay.
LEMMA LoadRowLoads ==
  ASSUME NEW w, Good(w), NEW p \in Player, NEW i \in Id, w.rows[p][i] # None
  PROVE  /\ Loads(w, LoadRow(w, p, i), p)
         /\ \A j \in Id \ {i} : LoadRow(w, p, i).rows[p][j] = w.rows[p][j]
<1> DEFINE row == w.rows[p][i]
           s == [dungeon |-> w.stored[i], players |-> {}, group |-> FALSE, canReset |-> ~row.perm]
           w1 == IF w.save[i] # None THEN w ELSE [w EXCEPT !.save[i] = s]
           skips == w.stored[i] = None \/ (~row.perm /\ InGroup(w, p))
           v == [w EXCEPT !.rows[p][i] = None]
           u == BindPlayer(w1, p, i, row, TRUE)
<1>1. LoadRow(w, p, i) = IF skips THEN v ELSE u
  BY DEF LoadRow
<1>2. /\ w \in World /\ w.rows \in [Player -> [Id -> Row \cup {None}]] /\ row \in Row
      /\ w.stored[i] \in Dungeon \cup {None} /\ w.save \in [Id -> Save \cup {None}]
      /\ row.perm \in BOOLEAN
  <2>1. /\ w \in World /\ w.rows \in [Player -> [Id -> Row \cup {None}]] /\ row \in Row
        /\ w.stored[i] \in Dungeon \cup {None} /\ w.save \in [Id -> Save \cup {None}]
    BY DEF Good, World
  <2> HIDE DEF row
  <2> QED
    BY <2>1 DEF Row
<1>3. Loads(w, v, p) /\ \A j \in Id \ {i} : v.rows[p][j] = w.rows[p][j]
  <2>1. /\ v \in World /\ SameParts(w, v) /\ Elsewhere(w, v)
        /\ v.rows = [w.rows EXCEPT ![p][i] = None]
    BY <1>2 DEF World, SameParts, Elsewhere
  <2> HIDE DEF v
  <2>2. Good(v)
    BY <2>1, SameBinds DEF Good, SameParts
  <2>3. \A j \in Id \ {i} : v.rows[p][j] = w.rows[p][j]
    BY <1>2, <2>1
  <2> QED
    BY <2>1, <2>2, <2>3 DEF Loads, SameParts
<1> HIDE DEF row, v
<1>4. ASSUME ~skips PROVE Loads(w, u, p) /\ u.rows = w.rows
  <2>1. w.stored[i] \in Dungeon /\ (InGroup(w, p) => row.perm)
    BY <1>2, <1>4
  <2>2. s \in Save /\ s # None
    <3>1. (~row.perm) \in BOOLEAN
      OBVIOUS
    <3>2. s \in Save
      BY <2>1, <3>1 DEF Save
    <3> HIDE DEF s
    <3> QED
      BY <3>2, NoneAssumption
  <2>3. s.players = {} /\ ~s.group
    OBVIOUS
  <2> HIDE DEF s, skips
  <2>4. /\ Good(w1) /\ Elsewhere(w, w1) /\ w1.own = w.own /\ w1.grp = w.grp /\ w1.save[i] # None
        /\ w1.rows = w.rows /\ w1.members = w.members
    <3>1. CASE w.save[i] # None
      BY <3>1 DEF Elsewhere
    <3>2. CASE w.save[i] = None
      <4> DEFINE x == [w EXCEPT !.save[i] = s]
      <4>1. w1 = x
        BY <3>2
      <4>2. OnlySave(w, x) /\ SaveIs(w, x, i, s)
        BY <1>2, <2>2, SetSave
      <4> HIDE DEF x
      <4>3. x.save[i] = s /\ \A j \in Id \ {i} : x.save[j] = w.save[j]
        BY <1>2, <4>2 DEF SaveIs
      <4>4. Fits(x.own, x.grp, s, i)
        <5> DEFINE own == w.own
                   grp == w.grp
        <5>1. Fits(own, grp, None, i)
          BY <3>2 DEF Good, Match
        <5> HIDE DEF own, grp
        <5>2. OwnFit(own, s, i) /\ GroupFits(grp, s, i)
          BY <5>1 DEF Fits, OwnFit, GroupFits
        <5>3. Listed(own, grp, s, i)
          BY <2>3 DEF Listed
        <5> QED
          BY <4>2, <5>2, <5>3 DEF Fits, OnlySave, own, grp
      <4>5. \A q \in Player, e \in Dungeon : OnlyTo(i, w.own[q][e], x.own[q][e])
        BY <4>2 DEF OnlyTo, OnlySave
      <4>6. \A e \in Dungeon : OnlyTo(i, w.grp[e], x.grp[e])
        BY <4>2 DEF OnlyTo, OnlySave
      <4>7. Good(x)
        BY <4>2, <4>3, <4>4, <4>5, <4>6, OneSave DEF Good, OnlySave
      <4> QED
        BY <2>2, <4>1, <4>2, <4>3, <4>7 DEF OnlySave, Elsewhere
    <3> QED
      BY <3>1, <3>2
  <2> HIDE DEF w1
  <2> DEFINE d == w1.save[i].dungeon
             c == [id |-> i, perm |-> row.perm, lasts |-> row.lasts]
  <2>5. /\ Good(u) /\ Elsewhere(w1, u) /\ u.own = [w1.own EXCEPT ![p][d] = c]
        /\ u.grp = w1.grp /\ u.rows = w1.rows
    <3>1. PlayerBinds(w1, u, p, i, row) /\ u.rows = w1.rows
      BY <1>2, <2>4, BindPlayerRuns
    <3> HIDE DEF u
    <3> QED
      BY <3>1 DEF PlayerBinds
  <2>6. c.perm = row.perm
    OBVIOUS
  <2>7. w1.own \in [Player -> [Dungeon -> Bind \cup {None}]]
    BY <2>4 DEF Good, World
  <2> HIDE DEF u, d, c
  <2>8. \A q \in Player, e \in Dungeon : u.own[q][e] = w.own[q][e] \/ (q = p /\ u.own[q][e] = c)
    BY <2>4, <2>5, <2>7
  <2>9. Elsewhere(w, u)
    BY <2>4, <2>5 DEF Elsewhere
  <2> QED
    BY <2>1, <2>4, <2>5, <2>6, <2>8, <2>9 DEF Loads
<1> HIDE DEF skips, u
<1> QED
  BY <1>1, <1>3, <1>4

-----------------------------------------------------------------------------
(* The calls that are folds *)

\* Player::ResetInstances
LEMMA ResetInstancesOfRuns ==
  ASSUME NEW w, Good(w), NEW p \in Player, NEW D, D \subseteq Dungeon, NEW P
  PROVE  Runs(w, ResetInstancesOf(w, p, D), P)
<1> DEFINE T == [s \in SUBSET D |-> {v \in World : Runs(w, v, P)}]
           step == [t \in D \X World |-> ResetBind(t[2], p, t[1])]
           pick == [s \in SUBSET D |-> CHOOSE x \in s : TRUE]
           Rec(h) == h = [s \in SUBSET D |-> IF s = {} THEN w
                            ELSE ResetBind(h[s \ {CHOOSE x \in s : TRUE}], p, CHOOSE x \in s : TRUE)]
           f == CHOOSE h : Rec(h)
<1>1. ResetInstancesOf(w, p, D) = f[D]
  BY DEF ResetInstancesOf, FoldSet, MapThenFoldSet
<1>2. IsFiniteSet(D)
  BY FinitenessAssumption, FS_Subset
<1>3. w \in World /\ Runs(w, w, P)
  BY RunsNothing DEF Good
<1>4. /\ T \in [SUBSET D -> SUBSET World] /\ w \in T[{}]
      /\ \A s \in SUBSET D : \A v : v \in T[s] <=> v \in World /\ Runs(w, v, P)
  BY <1>3
<1>5. \A d \in D, v \in World : step[<<d, v>>] = ResetBind(v, p, d)
  OBVIOUS
<1>6. \A s \in SUBSET D : pick[s] = (CHOOSE x \in s : TRUE) /\ (s # {} => pick[s] \in s)
  OBVIOUS
<1> HIDE DEF T, step, pick
<1>7. ASSUME NEW s \in SUBSET D, NEW d \in s, NEW v \in T[s \ {d}]
      PROVE  step[<<d, v>>] \in T[s]
  <2>1. v \in World /\ Runs(w, v, P) /\ d \in Dungeon
    BY <1>4
  <2>2. Runs(v, ResetBind(v, p, d), P)
    BY <2>1, ResetBindRuns DEF Runs
  <2>3. Runs(w, ResetBind(v, p, d), P)
    BY <1>3, <2>1, <2>2, RunsTransitive
  <2> QED
    BY <1>4, <1>5, <2>1, <2>3 DEF Runs, Good
<1>8. ASSUME NEW g \in [SUBSET D -> World], FoldStep(D, w, pick, step, g) PROVE Rec(g)
  <2>1. ASSUME NEW s \in SUBSET D
        PROVE  g[s] = IF s = {} THEN w
                      ELSE ResetBind(g[s \ {CHOOSE x \in s : TRUE}], p, CHOOSE x \in s : TRUE)
    <3> DEFINE d == pick[s]
    <3>1. g[s] = IF s = {} THEN w ELSE step[<<d, g[s \ {d}]>>]
      BY <1>8 DEF FoldStep
    <3>2. s # {} => d \in D /\ g[s \ {d}] \in World
      BY <1>6
    <3>3. d = CHOOSE x \in s : TRUE
      BY <1>6
    <3> HIDE DEF d
    <3>4. g[s] = IF s = {} THEN w ELSE ResetBind(g[s \ {d}], p, d)
      BY <1>5, <3>1, <3>2
    <3> QED
      BY <3>3, <3>4
  <2> QED
    BY <2>1
<1>9. ASSUME Rec(f)
      PROVE  /\ f[{}] = w
             /\ \A s \in SUBSET D : s # {} /\ f[s \ {pick[s]}] \in World =>
                  f[s] = step[<<pick[s], f[s \ {pick[s]}]>>]
  <2> HIDE DEF f
  <2>1. ASSUME NEW s \in SUBSET D, s # {}, f[s \ {pick[s]}] \in World
        PROVE  f[s] = step[<<pick[s], f[s \ {pick[s]}]>>]
    <3>1. f[s] = ResetBind(f[s \ {pick[s]}], p, pick[s])
      BY <1>6, <1>9, <2>1, Zenon
    <3>2. pick[s] \in D
      BY <1>6, <2>1
    <3> QED
      BY <1>5, <2>1, <3>1, <3>2
  <2> QED
    BY <1>9, <2>1
<1>10. Recurs(D, World, w, pick, step, f)
  <2>1. ASSUME NEW g \in [SUBSET D -> World], FoldStep(D, w, pick, step, g) PROVE Rec(f)
    <3>1. Rec(g)
      BY <1>8, <2>1
    <3> HIDE DEF Rec
    <3> QED
      BY <3>1
  <2> HIDE DEF f, Rec
  <2> QED
    BY <1>9, <2>1 DEF Recurs
<1> HIDE DEF f, Rec
<1>11. Stays(D, World, T, w, pick, step)
  BY <1>4, <1>6, <1>7 DEF Stays
<1>12. f[D] \in T[D]
  BY <1>2, <1>10, <1>11, FoldValue
<1> QED
  BY <1>1, <1>4, <1>12

\* Group::ResetInstances
LEMMA ResetInstancesOfGroupRuns ==
  ASSUME NEW w, Good(w), NEW D, D \subseteq Dungeon, NEW disband \in BOOLEAN, NEW change \in BOOLEAN, NEW P
  PROVE  Runs(w, ResetInstancesOfGroup(w, D, disband, change), P)
<1> DEFINE T == [s \in SUBSET D |-> {v \in World : Runs(w, v, P)}]
           step == [t \in D \X World |-> ResetGroupBind(t[2], t[1], disband, change)]
           pick == [s \in SUBSET D |-> CHOOSE x \in s : TRUE]
           Rec(h) == h = [s \in SUBSET D |-> IF s = {} THEN w
                            ELSE ResetGroupBind(h[s \ {CHOOSE x \in s : TRUE}], CHOOSE x \in s : TRUE, disband, change)]
           f == CHOOSE h : Rec(h)
<1>1. ResetInstancesOfGroup(w, D, disband, change) = f[D]
  BY DEF ResetInstancesOfGroup, FoldSet, MapThenFoldSet
<1>2. IsFiniteSet(D)
  BY FinitenessAssumption, FS_Subset
<1>3. w \in World /\ Runs(w, w, P)
  BY RunsNothing DEF Good
<1>4. /\ T \in [SUBSET D -> SUBSET World] /\ w \in T[{}]
      /\ \A s \in SUBSET D : \A v : v \in T[s] <=> v \in World /\ Runs(w, v, P)
  BY <1>3
<1>5. \A d \in D, v \in World : step[<<d, v>>] = ResetGroupBind(v, d, disband, change)
  OBVIOUS
<1>6. \A s \in SUBSET D : pick[s] = (CHOOSE x \in s : TRUE) /\ (s # {} => pick[s] \in s)
  OBVIOUS
<1> HIDE DEF T, step, pick
<1>7. ASSUME NEW s \in SUBSET D, NEW d \in s, NEW v \in T[s \ {d}]
      PROVE  step[<<d, v>>] \in T[s]
  <2>1. v \in World /\ Runs(w, v, P) /\ d \in Dungeon
    BY <1>4
  <2>2. Runs(v, ResetGroupBind(v, d, disband, change), P)
    BY <2>1, ResetGroupBindRuns DEF Runs
  <2>3. Runs(w, ResetGroupBind(v, d, disband, change), P)
    BY <1>3, <2>1, <2>2, RunsTransitive
  <2> QED
    BY <1>4, <1>5, <2>1, <2>3 DEF Runs, Good
<1>8. ASSUME NEW g \in [SUBSET D -> World], FoldStep(D, w, pick, step, g) PROVE Rec(g)
  <2>1. ASSUME NEW s \in SUBSET D
        PROVE  g[s] = IF s = {} THEN w
                      ELSE ResetGroupBind(g[s \ {CHOOSE x \in s : TRUE}], CHOOSE x \in s : TRUE, disband, change)
    <3> DEFINE d == pick[s]
    <3>1. g[s] = IF s = {} THEN w ELSE step[<<d, g[s \ {d}]>>]
      BY <1>8 DEF FoldStep
    <3>2. s # {} => d \in D /\ g[s \ {d}] \in World
      BY <1>6
    <3>3. d = CHOOSE x \in s : TRUE
      BY <1>6
    <3> HIDE DEF d
    <3>4. g[s] = IF s = {} THEN w ELSE ResetGroupBind(g[s \ {d}], d, disband, change)
      BY <1>5, <3>1, <3>2
    <3> QED
      BY <3>3, <3>4
  <2> QED
    BY <2>1
<1>9. ASSUME Rec(f)
      PROVE  /\ f[{}] = w
             /\ \A s \in SUBSET D : s # {} /\ f[s \ {pick[s]}] \in World =>
                  f[s] = step[<<pick[s], f[s \ {pick[s]}]>>]
  <2> HIDE DEF f
  <2>1. ASSUME NEW s \in SUBSET D, s # {}, f[s \ {pick[s]}] \in World
        PROVE  f[s] = step[<<pick[s], f[s \ {pick[s]}]>>]
    <3>1. f[s] = ResetGroupBind(f[s \ {pick[s]}], pick[s], disband, change)
      BY <1>6, <1>9, <2>1, Zenon
    <3>2. pick[s] \in D
      BY <1>6, <2>1
    <3> QED
      BY <1>5, <2>1, <3>1, <3>2
  <2> QED
    BY <1>9, <2>1
<1>10. Recurs(D, World, w, pick, step, f)
  <2>1. ASSUME NEW g \in [SUBSET D -> World], FoldStep(D, w, pick, step, g) PROVE Rec(f)
    <3>1. Rec(g)
      BY <1>8, <2>1
    <3> HIDE DEF Rec
    <3> QED
      BY <3>1
  <2> HIDE DEF f, Rec
  <2> QED
    BY <1>9, <2>1 DEF Recurs
<1> HIDE DEF f, Rec
<1>11. Stays(D, World, T, w, pick, step)
  BY <1>4, <1>6, <1>7 DEF Stays
<1>12. f[D] \in T[D]
  BY <1>2, <1>10, <1>11, FoldValue
<1> QED
  BY <1>1, <1>4, <1>12

\* The group takes over the leader's binds, and perhaps the instance that the leader is in.
LEMMA ConvertLeaderRuns ==
  ASSUME NEW w, Good(w), NEW p \in Player, NEW switch \in BOOLEAN, NEW P
  PROVE  Runs(w, ConvertLeaderInstancesToGroup(w, p, switch), P)
<1> DEFINE w1 == FoldSet(LAMBDA d, v : ConvertBind(v, p, d, switch), w, Dungeon)
<1> DEFINE T == [s \in SUBSET Dungeon |-> {v \in World : Runs(w, v, P)}]
           step == [t \in Dungeon \X World |-> ConvertBind(t[2], p, t[1], switch)]
           pick == [s \in SUBSET Dungeon |-> CHOOSE x \in s : TRUE]
           Rec(h) == h = [s \in SUBSET Dungeon |-> IF s = {} THEN w
                            ELSE ConvertBind(h[s \ {CHOOSE x \in s : TRUE}], p, CHOOSE x \in s : TRUE, switch)]
           f == CHOOSE h : Rec(h)
<1>1. w1 = f[Dungeon]
  BY DEF FoldSet, MapThenFoldSet
<1>2. IsFiniteSet(Dungeon)
  BY FinitenessAssumption
<1>3. w \in World /\ Runs(w, w, P)
  BY RunsNothing DEF Good
<1>4. /\ T \in [SUBSET Dungeon -> SUBSET World] /\ w \in T[{}]
      /\ \A s \in SUBSET Dungeon : \A v : v \in T[s] <=> v \in World /\ Runs(w, v, P)
  BY <1>3
<1>5. \A d \in Dungeon, v \in World : step[<<d, v>>] = ConvertBind(v, p, d, switch)
  OBVIOUS
<1>6. \A s \in SUBSET Dungeon : pick[s] = (CHOOSE x \in s : TRUE) /\ (s # {} => pick[s] \in s)
  OBVIOUS
<1> HIDE DEF T, step, pick
<1>7. ASSUME NEW s \in SUBSET Dungeon, NEW d \in s, NEW v \in T[s \ {d}]
      PROVE  step[<<d, v>>] \in T[s]
  <2>1. v \in World /\ Runs(w, v, P) /\ d \in Dungeon
    BY <1>4
  <2>2. Runs(v, ConvertBind(v, p, d, switch), P)
    BY <2>1, ConvertBindRuns DEF Runs
  <2>3. Runs(w, ConvertBind(v, p, d, switch), P)
    BY <1>3, <2>1, <2>2, RunsTransitive
  <2> QED
    BY <1>4, <1>5, <2>1, <2>3 DEF Runs, Good
<1>8. ASSUME NEW g \in [SUBSET Dungeon -> World], FoldStep(Dungeon, w, pick, step, g) PROVE Rec(g)
  <2>1. ASSUME NEW s \in SUBSET Dungeon
        PROVE  g[s] = IF s = {} THEN w
                      ELSE ConvertBind(g[s \ {CHOOSE x \in s : TRUE}], p, CHOOSE x \in s : TRUE, switch)
    <3> DEFINE d == pick[s]
    <3>1. g[s] = IF s = {} THEN w ELSE step[<<d, g[s \ {d}]>>]
      BY <1>8 DEF FoldStep
    <3>2. s # {} => d \in Dungeon /\ g[s \ {d}] \in World
      BY <1>6
    <3>3. d = CHOOSE x \in s : TRUE
      BY <1>6
    <3> HIDE DEF d
    <3>4. g[s] = IF s = {} THEN w ELSE ConvertBind(g[s \ {d}], p, d, switch)
      BY <1>5, <3>1, <3>2
    <3> QED
      BY <3>3, <3>4
  <2> QED
    BY <2>1
<1>9. ASSUME Rec(f)
      PROVE  /\ f[{}] = w
             /\ \A s \in SUBSET Dungeon : s # {} /\ f[s \ {pick[s]}] \in World =>
                  f[s] = step[<<pick[s], f[s \ {pick[s]}]>>]
  <2> HIDE DEF f
  <2>1. ASSUME NEW s \in SUBSET Dungeon, s # {}, f[s \ {pick[s]}] \in World
        PROVE  f[s] = step[<<pick[s], f[s \ {pick[s]}]>>]
    <3>1. f[s] = ConvertBind(f[s \ {pick[s]}], p, pick[s], switch)
      BY <1>6, <1>9, <2>1, Zenon
    <3>2. pick[s] \in Dungeon
      BY <1>6, <2>1
    <3> QED
      BY <1>5, <2>1, <3>1, <3>2
  <2> QED
    BY <1>9, <2>1
<1>10. Recurs(Dungeon, World, w, pick, step, f)
  <2>1. ASSUME NEW g \in [SUBSET Dungeon -> World], FoldStep(Dungeon, w, pick, step, g) PROVE Rec(f)
    <3>1. Rec(g)
      BY <1>8, <2>1
    <3> HIDE DEF Rec
    <3> QED
      BY <3>1
  <2> HIDE DEF f, Rec
  <2> QED
    BY <1>9, <2>1 DEF Recurs
<1> HIDE DEF f, Rec
<1>11. Stays(Dungeon, World, T, w, pick, step)
  BY <1>4, <1>6, <1>7 DEF Stays
<1>12. f[Dungeon] \in T[Dungeon]
  BY <1>2, <1>10, <1>11, FoldValue
<1> DEFINE spot == w.at[p].spot
           u == ConvertLeaderInstancesToGroup(w, p, switch)
<1>13. u = w1 \/ (spot # None /\ w1.save[spot[2]] # None /\ u = BindGroup(w1, spot[2], FALSE))
  BY DEF ConvertLeaderInstancesToGroup
<1> HIDE DEF w1, u
<1>14. Runs(w, w1, P)
  BY <1>1, <1>4, <1>12
<1>15. spot # None => spot[2] \in Id
  <2>1. w.at[p] \in Place
    BY DEF Good, World
  <2>2. spot \in Spot \cup {None}
    BY <2>1 DEF Place
  <2> HIDE DEF spot
  <2> QED
    BY <2>2 DEF Spot
<1> HIDE DEF spot
<1>16. CASE u = w1
  BY <1>14, <1>16 DEF u
<1>17. CASE spot # None /\ w1.save[spot[2]] # None /\ u = BindGroup(w1, spot[2], FALSE)
  <2>1. Runs(w1, u, P)
    BY <1>14, <1>15, <1>17, GroupBindRuns DEF Runs
  <2> QED
    BY <1>3, <1>14, <2>1, RunsTransitive DEF u
<1> QED
  BY <1>13, <1>16, <1>17

\* The bosses of a raid die: every player in its map is bound, for good.
LEMMA PermBindAllRuns ==
  ASSUME NEW w, Good(w), NEW i \in Id, w.save[i] # None, NEW P, P \subseteq Player
  PROVE  Runs(w, FoldSet(LAMBDA p, v : PermBind(v, p, i), w, P), P)
<1> DEFINE u == FoldSet(LAMBDA p, v : PermBind(v, p, i), w, P)
<1> DEFINE T == [s \in SUBSET P |-> {v \in World : Runs(w, v, P) /\ v.save[i] # None}]
           step == [t \in P \X World |-> PermBind(t[2], t[1], i)]
           pick == [s \in SUBSET P |-> CHOOSE x \in s : TRUE]
           Rec(h) == h = [s \in SUBSET P |-> IF s = {} THEN w
                            ELSE PermBind(h[s \ {CHOOSE x \in s : TRUE}], CHOOSE x \in s : TRUE, i)]
           f == CHOOSE h : Rec(h)
<1>1. u = f[P]
  BY DEF FoldSet, MapThenFoldSet
<1>2. IsFiniteSet(P)
  BY FinitenessAssumption, FS_Subset
<1>3. w \in World /\ Runs(w, w, P)
  BY RunsNothing DEF Good
<1>4. /\ T \in [SUBSET P -> SUBSET World] /\ w \in T[{}]
      /\ \A s \in SUBSET P : \A v : v \in T[s] <=> v \in World /\ Runs(w, v, P) /\ v.save[i] # None
  BY <1>3
<1>5. \A d \in P, v \in World : step[<<d, v>>] = PermBind(v, d, i)
  OBVIOUS
<1>6. \A s \in SUBSET P : pick[s] = (CHOOSE x \in s : TRUE) /\ (s # {} => pick[s] \in s)
  OBVIOUS
<1> HIDE DEF T, step, pick
<1>7. ASSUME NEW s \in SUBSET P, NEW d \in s, NEW v \in T[s \ {d}]
      PROVE  step[<<d, v>>] \in T[s]
  <2>1. v \in World /\ Runs(w, v, P) /\ v.save[i] # None /\ d \in Player /\ d \in P
    BY <1>4
  <2>2. Runs(v, PermBind(v, d, i), P) /\ PermBind(v, d, i).save[i] # None
    BY <2>1, PermBindRuns DEF Runs
  <2>3. Runs(w, PermBind(v, d, i), P)
    BY <1>3, <2>1, <2>2, RunsTransitive
  <2> QED
    BY <1>4, <1>5, <2>1, <2>2, <2>3 DEF Runs, Good
<1>8. ASSUME NEW g \in [SUBSET P -> World], FoldStep(P, w, pick, step, g) PROVE Rec(g)
  <2>1. ASSUME NEW s \in SUBSET P
        PROVE  g[s] = IF s = {} THEN w
                      ELSE PermBind(g[s \ {CHOOSE x \in s : TRUE}], CHOOSE x \in s : TRUE, i)
    <3> DEFINE d == pick[s]
    <3>1. g[s] = IF s = {} THEN w ELSE step[<<d, g[s \ {d}]>>]
      BY <1>8 DEF FoldStep
    <3>2. s # {} => d \in P /\ g[s \ {d}] \in World
      BY <1>6
    <3>3. d = CHOOSE x \in s : TRUE
      BY <1>6
    <3> HIDE DEF d
    <3>4. g[s] = IF s = {} THEN w ELSE PermBind(g[s \ {d}], d, i)
      BY <1>5, <3>1, <3>2
    <3> QED
      BY <3>3, <3>4
  <2> QED
    BY <2>1
<1>9. ASSUME Rec(f)
      PROVE  /\ f[{}] = w
             /\ \A s \in SUBSET P : s # {} /\ f[s \ {pick[s]}] \in World =>
                  f[s] = step[<<pick[s], f[s \ {pick[s]}]>>]
  <2> HIDE DEF f
  <2>1. ASSUME NEW s \in SUBSET P, s # {}, f[s \ {pick[s]}] \in World
        PROVE  f[s] = step[<<pick[s], f[s \ {pick[s]}]>>]
    <3>1. f[s] = PermBind(f[s \ {pick[s]}], pick[s], i)
      BY <1>6, <1>9, <2>1, Zenon
    <3>2. pick[s] \in P
      BY <1>6, <2>1
    <3> QED
      BY <1>5, <2>1, <3>1, <3>2
  <2> QED
    BY <1>9, <2>1
<1>10. Recurs(P, World, w, pick, step, f)
  <2>1. ASSUME NEW g \in [SUBSET P -> World], FoldStep(P, w, pick, step, g) PROVE Rec(f)
    <3>1. Rec(g)
      BY <1>8, <2>1
    <3> HIDE DEF Rec
    <3> QED
      BY <3>1
  <2> HIDE DEF f, Rec
  <2> QED
    BY <1>9, <2>1 DEF Recurs
<1> HIDE DEF f, Rec
<1>11. Stays(P, World, T, w, pick, step)
  BY <1>4, <1>6, <1>7 DEF Stays
<1>12. f[P] \in T[P]
  BY <1>2, <1>10, <1>11, FoldValue
<1> QED
  BY <1>1, <1>4, <1>12

\* Only a bind of the group changes.
LEMMA SetGroupBind ==
  ASSUME NEW r \in World, NEW d \in Dungeon, NEW u, u = [r EXCEPT !.grp[d] = None]
  PROVE  /\ u \in World /\ Elsewhere(r, u) /\ u.save = r.save /\ u.own = r.own
         /\ u.grp = [r.grp EXCEPT ![d] = None]
BY DEF World, Elsewhere

\* A bind of the group goes.
LEMMA DropGroupBindRuns ==
  ASSUME NEW w, Good(w), NEW d \in Dungeon, w.grp[d] # None, NEW P,
         NEW u, u = [RemoveGroup(w, w.grp[d].id) EXCEPT !.grp[d] = None]
  PROVE  Runs(w, u, P) /\ u.grp = [w.grp EXCEPT ![d] = None]
<1> DEFINE i == w.grp[d].id
           r == RemoveGroup(w, i)
<1>1. w \in World /\ i \in Id /\ w.save[i] # None
  BY GroupBoundTo DEF Good
<1>2. u = [r EXCEPT !.grp[d] = None]
  OBVIOUS
<1> HIDE DEF r
<1>3. OnlySave(w, r) /\ Lost(w, r, i, {}, TRUE)
  <2> HIDE DEF i
  <2> QED
    BY <1>1, GroupRemoved DEF r
<1>4. /\ u \in World /\ u.save = r.save /\ u.grp = [w.grp EXCEPT ![d] = None]
      /\ u.own = w.own /\ Elsewhere(r, u)
  <2>1. r \in World /\ r.own = w.own /\ r.grp = w.grp /\ u = [r EXCEPT !.grp[d] = None]
    BY <1>2, <1>3 DEF OnlySave
  <2>2. /\ u \in World /\ Elsewhere(r, u) /\ u.save = r.save /\ u.own = r.own
        /\ u.grp = [r.grp EXCEPT ![d] = None]
    <3> HIDE DEF i
    <3> QED
      BY <2>1, SetGroupBind, Zenon
  <2> QED
    BY <2>1, <2>2
<1>5. Lost(w, u, i, {}, TRUE)
  BY <1>3, <1>4, Zenon DEF Lost, SaveIs
<1>6. Match(u) /\ SavesStay(w, u)
  BY <1>4, <1>5, GroupUnbound
<1>7. Elsewhere(w, u)
  BY <1>3, <1>4 DEF OnlySave, Elsewhere
<1> QED
  BY <1>4, <1>6, <1>7, ElsewhereRuns DEF Good

\* Group::ChangeLeader lets go of some of the group's instances.
LEMMA DropGroupBindsRuns ==
  ASSUME NEW w, Good(w), NEW D, D \subseteq Dungeon, \A d \in D : w.grp[d] # None, NEW P
  PROVE  Runs(w, FoldSet(LAMBDA d, v : [RemoveGroup(v, v.grp[d].id) EXCEPT !.grp[d] = None], w, D), P)
<1> DEFINE u == FoldSet(LAMBDA d, v : [RemoveGroup(v, v.grp[d].id) EXCEPT !.grp[d] = None], w, D)
           Drop(d, v) == [RemoveGroup(v, v.grp[d].id) EXCEPT !.grp[d] = None]
<1> DEFINE T == [s \in SUBSET D |-> {v \in World : Runs(w, v, P) /\ \A e \in Dungeon \ s : v.grp[e] = w.grp[e]}]
           step == [t \in D \X World |-> Drop(t[1], t[2])]
           pick == [s \in SUBSET D |-> CHOOSE x \in s : TRUE]
           Rec(h) == h = [s \in SUBSET D |-> IF s = {} THEN w
                            ELSE Drop(CHOOSE x \in s : TRUE, h[s \ {CHOOSE x \in s : TRUE}])]
           f == CHOOSE h : Rec(h)
<1>1. u = f[D]
  BY DEF FoldSet, MapThenFoldSet
<1>2. IsFiniteSet(D)
  BY FinitenessAssumption, FS_Subset
<1>3. w \in World /\ Runs(w, w, P)
  BY RunsNothing DEF Good
<1>4. /\ T \in [SUBSET D -> SUBSET World] /\ w \in T[{}]
      /\ \A s \in SUBSET D : \A v : v \in T[s] <=> v \in World /\ Runs(w, v, P) /\ \A e \in Dungeon \ s : v.grp[e] = w.grp[e]
  BY <1>3
<1>5. \A d \in D, v \in World : step[<<d, v>>] = Drop(d, v)
  OBVIOUS
<1>6. \A s \in SUBSET D : pick[s] = (CHOOSE x \in s : TRUE) /\ (s # {} => pick[s] \in s)
  OBVIOUS
<1> HIDE DEF T, step, pick
<1>7. ASSUME NEW s \in SUBSET D, NEW d \in s, NEW v \in T[s \ {d}]
      PROVE  step[<<d, v>>] \in T[s]
  <2>1. v \in World /\ Runs(w, v, P) /\ d \in Dungeon /\ v.grp[d] # None
        /\ \A e \in Dungeon \ (s \ {d}) : v.grp[e] = w.grp[e]
    BY <1>4
  <2>2. Runs(v, Drop(d, v), P) /\ Drop(d, v).grp = [v.grp EXCEPT ![d] = None]
    BY <2>1, DropGroupBindRuns DEF Runs
  <2> HIDE DEF Drop
  <2>3. Runs(w, Drop(d, v), P)
    BY <1>3, <2>1, <2>2, RunsTransitive
  <2>4. \A e \in Dungeon \ s : Drop(d, v).grp[e] = w.grp[e]
    BY <2>1, <2>2 DEF World
  <2> QED
    BY <1>4, <1>5, <2>1, <2>3, <2>4 DEF Runs, Good
<1>8. ASSUME NEW g \in [SUBSET D -> World], FoldStep(D, w, pick, step, g) PROVE Rec(g)
  <2>1. ASSUME NEW s \in SUBSET D
        PROVE  g[s] = IF s = {} THEN w
                      ELSE Drop(CHOOSE x \in s : TRUE, g[s \ {CHOOSE x \in s : TRUE}])
    <3> DEFINE d == pick[s]
    <3>1. g[s] = IF s = {} THEN w ELSE step[<<d, g[s \ {d}]>>]
      BY <1>8 DEF FoldStep
    <3>2. s # {} => d \in D /\ g[s \ {d}] \in World
      BY <1>6
    <3>3. d = CHOOSE x \in s : TRUE
      BY <1>6
    <3> HIDE DEF d
    <3>4. g[s] = IF s = {} THEN w ELSE Drop(d, g[s \ {d}])
      BY <1>5, <3>1, <3>2, Zenon
    <3> QED
      BY <3>3, <3>4
  <2> QED
    BY <2>1
<1>9. ASSUME Rec(f)
      PROVE  /\ f[{}] = w
             /\ \A s \in SUBSET D : s # {} /\ f[s \ {pick[s]}] \in World =>
                  f[s] = step[<<pick[s], f[s \ {pick[s]}]>>]
  <2> HIDE DEF f
  <2>1. ASSUME NEW s \in SUBSET D, s # {}, f[s \ {pick[s]}] \in World
        PROVE  f[s] = step[<<pick[s], f[s \ {pick[s]}]>>]
    <3>1. f[s] = Drop(pick[s], f[s \ {pick[s]}])
      BY <1>6, <1>9, <2>1, Zenon
    <3>2. pick[s] \in D
      BY <1>6, <2>1
    <3> QED
      BY <1>5, <2>1, <3>1, <3>2, Zenon
  <2> QED
    BY <1>9, <2>1, Zenon
<1>10. Recurs(D, World, w, pick, step, f)
  <2>1. ASSUME NEW g \in [SUBSET D -> World], FoldStep(D, w, pick, step, g) PROVE Rec(f)
    <3>1. Rec(g)
      BY <1>8, <2>1
    <3> HIDE DEF Rec
    <3> QED
      BY <3>1
  <2> HIDE DEF f, Rec
  <2> QED
    BY <1>9, <2>1 DEF Recurs
<1> HIDE DEF f, Rec
<1>11. Stays(D, World, T, w, pick, step)
  BY <1>4, <1>6, <1>7 DEF Stays
<1>12. f[D] \in T[D]
  BY <1>2, <1>10, <1>11, FoldValue
<1> QED
  BY <1>1, <1>4, <1>12

-----------------------------------------------------------------------------
(* What every handler keeps *)

\* A change of the group, of its leader, or of who is told to leave.
Same(w, u) ==
  /\ u \in World /\ SameParts(w, u)
  /\ u.map = w.map /\ u.stored = w.stored /\ u.sound = w.sound
  /\ \A p \in Player : u.at[p].on = w.at[p].on /\ u.at[p].spot = w.at[p].spot

\* A change of the group or of a flag keeps all that handlers need.
LEMMA SameRuns ==
  ASSUME NEW w, Good(w), NEW u, Same(w, u), NEW P
  PROVE  Runs(w, u, P)
<1>1. Good(u)
  BY SameBinds DEF Same, SameParts, Good
<1> QED
  BY <1>1 DEF Runs, Frame, Spared, SavesStay, Same, SameParts

\* Nobody is in a map whose unload timer runs, and who is offline has no binds.
Inside(w) ==
  \A p \in Player : w.at[p].on = "world" /\ w.at[p].spot # None => w.map[w.at[p].spot] = "kept"

Unbound(w) == \A p \in Player : w.at[p].on = "offline" => \A d \in Dungeon : w.own[p][d] = None

Fine(w) == Good(w) /\ w.sound /\ Inside(w) /\ Unbound(w)

\* The place of a player who is in a map.
LEMMA SpotOf ==
  ASSUME NEW w \in World, NEW p \in Player
  PROVE  /\ w.at[p] \in Place
         /\ w.at[p].spot # None => /\ w.at[p].spot \in Spot /\ w.at[p].spot[1] \in Dungeon
                                   /\ w.at[p].spot[2] \in Id
                                   /\ w.at[p].spot = <<w.at[p].spot[1], w.at[p].spot[2]>>
<1> DEFINE x == w.at[p]
           s == x.spot
<1>1. x \in Place
  BY DEF World
<1> HIDE DEF x
<1>2. s \in Spot \cup {None}
  BY <1>1 DEF Place
<1> HIDE DEF s
<1>3. s # None => s \in Spot /\ s[1] \in Dungeon /\ s[2] \in Id /\ s = <<s[1], s[2]>>
  BY <1>2 DEF Spot
<1> QED
  BY <1>1, <1>3 DEF s, x

\* A handler that keeps the frame keeps the inductive invariant: only players who are
\* connected get binds.
LEMMA FrameFine ==
  ASSUME NEW w, Fine(w), NEW u, NEW P, \A p \in P : p \in Player => w.at[p].on # "offline",
         Good(u), Frame(w, u, P)
  PROVE  Fine(u)
<1>1. Inside(u)
  <2> SUFFICES ASSUME NEW p \in Player, u.at[p].on = "world", u.at[p].spot # None
               PROVE  u.map[u.at[p].spot] = "kept"
    BY DEF Inside
  <2> DEFINE s == w.at[p].spot
  <2>1. w.at[p].on = "world" /\ u.at[p].spot = s /\ s # None
    BY DEF Frame
  <2>2. s \in Spot
    BY <2>1, SpotOf DEF Fine, Good
  <2>3. HavePlayers(w, s)
    BY <2>1 DEF HavePlayers, Linked
  <2>4. w.map[s] = "kept"
    BY <2>1 DEF Fine, Inside
  <2> HIDE DEF s
  <2> QED
    BY <2>1, <2>2, <2>3, <2>4 DEF Frame
<1>2. Unbound(u)
  BY DEF Unbound, Frame, Fine
<1> QED
  BY <1>1, <1>2 DEF Fine, Frame

\* A player on its way keeps the inductive invariant if it ends in a map that is kept,
\* outside, or offline without binds.
LEMMA MovesFine ==
  ASSUME NEW w, Fine(w), NEW u, NEW p \in Player, Moves(w, u, p),
         u.at[p].on = "offline" => \A d \in Dungeon : u.own[p][d] = None,
         u.at[p].on = "world" /\ u.at[p].spot # None => u.map[u.at[p].spot] = "kept"
  PROVE  Fine(u)
<1>1. Inside(u)
  <2> SUFFICES ASSUME NEW q \in Player, q # p, u.at[q].on = "world", u.at[q].spot # None
               PROVE  u.map[u.at[q].spot] = "kept"
    BY DEF Inside
  <2>1. u.at[q] = w.at[q]
    BY DEF Moves
  <2>2. w.at[q].spot \in Spot
    BY <2>1, SpotOf DEF Fine, Good
  <2>3. w.map[w.at[q].spot] = "kept"
    BY <2>1 DEF Fine, Inside
  <2> QED
    BY <2>1, <2>2, <2>3 DEF Moves
<1>2. Unbound(u)
  BY DEF Unbound, Moves, Fine
<1> QED
  BY <1>1, <1>2 DEF Fine, Moves

\* The last player to leave a map leaves it to its timer.
LEMMA LeavesFine ==
  ASSUME NEW w, Fine(w), NEW p \in Player, w.at[p].spot # None
  PROVE  /\ Fine(RemovePlayerFromMap(w, p, FALSE))
         /\ RemovePlayerFromMap(w, p, FALSE).stored = w.stored
<1> DEFINE u == RemovePlayerFromMap(w, p, FALSE)
<1>1. /\ Good(u) /\ u.own = w.own /\ u.stored = w.stored /\ u.sound = w.sound
      /\ u.at = [w.at EXCEPT ![p].on = "transit"]
      /\ \A r \in Spot : u.map[r] = w.map[r] \/ Linked(w, r) = {p}
  <2>1. Good(w)
    BY DEF Fine
  <2>2. ASSUME NEW gone \in BOOLEAN
        PROVE  LET v == RemovePlayerFromMap(w, p, gone)
               IN /\ Good(v) /\ v.own = w.own /\ v.stored = w.stored /\ v.sound = w.sound
                  /\ v.at = [w.at EXCEPT ![p].on = IF gone THEN "offline" ELSE "transit"]
                  /\ \A r \in Spot : v.map[r] = w.map[r] \/ Linked(w, r) = {p}
    BY <2>1, PlayerLeavesGood
  <2> QED
    BY <2>2
<1> HIDE DEF u
<1>2. u.at[p].on = "transit" /\ \A q \in Player \ {p} : u.at[q] = w.at[q]
  <2>1. w.at \in [Player -> Place]
    BY DEF Fine, Good, World
  <2>2. w.at[p] \in Place
    BY <2>1
  <2> QED
    BY <1>1, <2>1, <2>2 DEF Place
<1>3. Inside(u)
  <2> SUFFICES ASSUME NEW q \in Player, u.at[q].on = "world", u.at[q].spot # None
               PROVE  u.map[u.at[q].spot] = "kept"
    BY DEF Inside
  <2> DEFINE s == w.at[q].spot
  <2>1. q # p /\ u.at[q] = w.at[q]
    BY <1>2
  <2>2. s \in Spot
    BY <2>1, SpotOf DEF Fine, Good
  <2>3. w.map[s] = "kept" /\ q \in Linked(w, s)
    BY <2>1 DEF Fine, Inside, Linked
  <2> HIDE DEF s
  <2> QED
    BY <1>1, <2>1, <2>2, <2>3 DEF s
<1>4. Unbound(u)
  BY <1>1, <1>2 DEF Unbound, Fine
<1> QED
  BY <1>1, <1>3, <1>4 DEF Fine, u

-----------------------------------------------------------------------------
(* Logging out *)

\* The record without the binds of p to dungeons of s.
Cleared(v, p, s) ==
  [v EXCEPT !.own[p] = [d \in Dungeon |-> IF d \in s THEN None ELSE v.own[p][d]]]

\* A change of one bind.
OneBind(V, f, g, p, d, b) ==
  /\ f \in [Player -> [Dungeon -> V]] /\ g \in [Player -> [Dungeon -> V]]
  /\ p \in Player /\ d \in Dungeon
  /\ \A q \in Player, e \in Dungeon : g[q][e] = IF q = p /\ e = d THEN b ELSE f[q][e]

\* A change of one bind, as an EXCEPT.
LEMMA SetOneBind ==
  ASSUME NEW V, NEW f, NEW g, NEW p, NEW d, NEW b, OneBind(V, f, g, p, d, b)
  PROVE  g = [f EXCEPT ![p][d] = b]
<1>1. ASSUME NEW q \in Player, q # p PROVE g[q] = f[q]
  <2>1. g[q] \in [Dungeon -> V] /\ f[q] \in [Dungeon -> V] /\ \A e \in Dungeon : g[q][e] = f[q][e]
    BY <1>1 DEF OneBind
  <2> QED
    BY <2>1
<1>2. g[p] = [f[p] EXCEPT ![d] = b]
  <2>1. g[p] \in [Dungeon -> V] /\ f[p] \in [Dungeon -> V]
        /\ \A e \in Dungeon : g[p][e] = IF e = d THEN b ELSE f[p][e]
    BY DEF OneBind
  <2> QED
    BY <2>1
<1> QED
  BY <1>1, <1>2 DEF OneBind

\* What is left of the record.
LEMMA ClearedIs ==
  ASSUME NEW v \in World, NEW p \in Player, NEW s
  PROVE  /\ Cleared(v, p, s) \in World /\ Cleared(v, p, s).save = v.save /\ Cleared(v, p, s).grp = v.grp
         /\ \A q \in Player, d \in Dungeon : Cleared(v, p, s).own[q][d] =
              IF q = p /\ d \in s THEN None ELSE v.own[q][d]
         /\ Cleared(v, p, s).own \in [Player -> [Dungeon -> Bind \cup {None}]]
<1> DEFINE f == [d \in Dungeon |-> IF d \in s THEN None ELSE v.own[p][d]]
           u == Cleared(v, p, s)
<1>1. v.own \in [Player -> [Dungeon -> Bind \cup {None}]]
  BY DEF World
<1>2. f \in [Dungeon -> Bind \cup {None}] /\ \A d \in Dungeon : f[d] = IF d \in s THEN None ELSE v.own[p][d]
  BY <1>1
<1>3. u = [v EXCEPT !.own[p] = f]
  BY DEF Cleared
<1> HIDE DEF f, u
<1>4. u \in World /\ u.save = v.save /\ u.grp = v.grp /\ u.own = [v.own EXCEPT ![p] = f]
  BY <1>2, <1>3, Zenon DEF World
<1>5. /\ \A q \in Player, d \in Dungeon : u.own[q][d] = IF q = p /\ d \in s THEN None ELSE v.own[q][d]
      /\ u.own \in [Player -> [Dungeon -> Bind \cup {None}]]
  BY <1>1, <1>2, <1>4
<1> QED
  BY <1>4, <1>5 DEF u

\* One save is told that p leaves, and then the bind does not count any more.
LEMMA TellSave ==
  ASSUME NEW v \in World, NEW p \in Player, NEW d \in Dungeon, NEW r, d \notin r,
         Good(Cleared(v, p, r)), v.own[p][d] # None, NEW u, u = RemovePlayer(v, p, v.own[p][d].id)
  PROVE  OnlySave(v, u) /\ Good(Cleared(u, p, r \cup {d}))
<1> DEFINE i == v.own[p][d].id
           x == Cleared(v, p, r)
           y == Cleared(u, p, r \cup {d})
<1>1. /\ x \in World /\ x.save = v.save /\ x.grp = v.grp
      /\ \A q \in Player, e \in Dungeon : x.own[q][e] = IF q = p /\ e \in r THEN None ELSE v.own[q][e]
      /\ x.own \in [Player -> [Dungeon -> Bind \cup {None}]]
  BY ClearedIs
<1> HIDE DEF x
<1>2. x.own[p][d] # None /\ x.own[p][d].id = i
  BY <1>1
<1>3. i \in Id /\ v.save[i] # None
  <2> HIDE DEF i
  <2> QED
    BY <1>1, <1>2, BoundTo DEF x
<1>4. OnlySave(v, u) /\ Lost(v, u, i, {p}, FALSE)
  BY <1>3, PlayerRemoved, Zenon
<1>5. /\ y \in World /\ y.save = u.save /\ y.grp = u.grp
      /\ \A q \in Player, e \in Dungeon : y.own[q][e] = IF q = p /\ e \in r \cup {d} THEN None ELSE u.own[q][e]
      /\ y.own \in [Player -> [Dungeon -> Bind \cup {None}]]
  <2> DEFINE s == r \cup {d}
  <2>1. u \in World
    BY <1>4 DEF OnlySave
  <2> HIDE DEF s
  <2>2. LET z == Cleared(u, p, s)
        IN /\ z \in World /\ z.save = u.save /\ z.grp = u.grp
           /\ \A q \in Player, e \in Dungeon : z.own[q][e] = IF q = p /\ e \in s THEN None ELSE u.own[q][e]
           /\ z.own \in [Player -> [Dungeon -> Bind \cup {None}]]
    BY <2>1, ClearedIs
  <2> QED
    BY <2>2, Zenon DEF s
<1> HIDE DEF y, i
<1>6. u.own = v.own /\ u.grp = v.grp
  BY <1>4 DEF OnlySave
<1>7. y.own = [x.own EXCEPT ![p][d] = None]
  <2>1. \A q \in Player, e \in Dungeon : y.own[q][e] = IF q = p /\ e = d THEN None ELSE x.own[q][e]
    BY <1>1, <1>5, <1>6
  <2>2. OneBind(Bind \cup {None}, x.own, y.own, p, d, None)
    BY <1>1, <1>5, <2>1 DEF OneBind
  <2> QED
    BY <2>2, SetOneBind
<1>8. Lost(x, y, x.own[p][d].id, {p}, FALSE)
  BY <1>1, <1>2, <1>4, <1>5 DEF Lost, SaveIs
<1>10. Good(x) /\ y.grp = x.grp
  BY <1>1, <1>5, <1>6 DEF x
<1>9. Match(y)
  BY <1>2, <1>7, <1>8, <1>10, PlayerUnbound
<1> QED
  BY <1>4, <1>5, <1>9, Zenon DEF Good, y

\* CleanupsBeforeDelete: all saves are told.
LEMMA TellSaves ==
  ASSUME NEW w, Good(w), NEW p \in Player, NEW D, D \subseteq Dungeon, \A d \in D : w.own[p][d] # None
  PROVE  LET u == FoldSet(LAMBDA d, v : RemovePlayer(v, p, v.own[p][d].id), w, D)
         IN OnlySave(w, u) /\ Good(Cleared(u, p, D))
<1> DEFINE u == FoldSet(LAMBDA d, v : RemovePlayer(v, p, v.own[p][d].id), w, D)
<1>3. w \in World /\ OnlySave(w, w) /\ Good(Cleared(w, p, {}))
  <2>1. w \in World /\ OnlySave(w, w)
    BY DEF Good, OnlySave, Elsewhere
  <2>2. /\ Cleared(w, p, {}) \in World /\ Cleared(w, p, {}).save = w.save /\ Cleared(w, p, {}).grp = w.grp
        /\ \A q \in Player, d \in Dungeon : Cleared(w, p, {}).own[q][d] = w.own[q][d]
        /\ Cleared(w, p, {}).own \in [Player -> [Dungeon -> Bind \cup {None}]]
    BY <2>1, ClearedIs
  <2>3. Cleared(w, p, {}).own = w.own
    BY <2>1, <2>2 DEF World
  <2> QED
    BY <2>1, <2>2, <2>3, SameBinds DEF Good
<1> DEFINE T == [s \in SUBSET D |-> {v \in World : OnlySave(w, v) /\ Good(Cleared(v, p, s))}]
           step == [t \in D \X World |-> RemovePlayer(t[2], p, t[2].own[p][t[1]].id)]
           pick == [s \in SUBSET D |-> CHOOSE x \in s : TRUE]
           Rec(h) == h = [s \in SUBSET D |-> IF s = {} THEN w
                            ELSE RemovePlayer(h[s \ {CHOOSE x \in s : TRUE}], p, h[s \ {CHOOSE x \in s : TRUE}].own[p][CHOOSE x \in s : TRUE].id)]
           f == CHOOSE h : Rec(h)
<1>1. u = f[D]
  BY DEF FoldSet, MapThenFoldSet
<1>2. IsFiniteSet(D)
  BY FinitenessAssumption, FS_Subset
<1>4. /\ T \in [SUBSET D -> SUBSET World] /\ w \in T[{}]
      /\ \A s \in SUBSET D : \A v : v \in T[s] <=> v \in World /\ OnlySave(w, v) /\ Good(Cleared(v, p, s))
  BY <1>3
<1>5. \A d \in D, v \in World : step[<<d, v>>] = RemovePlayer(v, p, v.own[p][d].id)
  OBVIOUS
<1>6. \A s \in SUBSET D : pick[s] = (CHOOSE x \in s : TRUE) /\ (s # {} => pick[s] \in s)
  OBVIOUS
<1> HIDE DEF T, step, pick
<1>7. ASSUME NEW s \in SUBSET D, NEW d \in s, NEW v \in T[s \ {d}]
      PROVE  step[<<d, v>>] \in T[s]
  <2> DEFINE y == RemovePlayer(v, p, v.own[p][d].id)
             r == s \ {d}
  <2>1. v \in World /\ OnlySave(w, v) /\ Good(Cleared(v, p, r)) /\ d \in Dungeon /\ d \in D
    BY <1>4
  <2>2. v.own[p][d] # None /\ d \notin r /\ r \cup {d} = s
    BY <2>1 DEF OnlySave
  <2> HIDE DEF r
  <2>3. OnlySave(v, y) /\ Good(Cleared(y, p, s))
    BY <2>1, <2>2, TellSave
  <2> HIDE DEF y
  <2>4. OnlySave(w, y)
    BY <2>1, <2>3 DEF OnlySave, Elsewhere
  <2>5. step[<<d, v>>] = y
    BY <1>5, <2>1 DEF y
  <2> QED
    BY <1>4, <2>3, <2>4, <2>5 DEF OnlySave
<1>8. ASSUME NEW g \in [SUBSET D -> World], FoldStep(D, w, pick, step, g) PROVE Rec(g)
  <2>1. ASSUME NEW s \in SUBSET D
        PROVE  g[s] = IF s = {} THEN w
                      ELSE RemovePlayer(g[s \ {CHOOSE x \in s : TRUE}], p, g[s \ {CHOOSE x \in s : TRUE}].own[p][CHOOSE x \in s : TRUE].id)
    <3> DEFINE d == pick[s]
    <3>1. g[s] = IF s = {} THEN w ELSE step[<<d, g[s \ {d}]>>]
      BY <1>8 DEF FoldStep
    <3>2. s # {} => d \in D /\ g[s \ {d}] \in World
      BY <1>6
    <3>3. d = CHOOSE x \in s : TRUE
      BY <1>6
    <3> HIDE DEF d
    <3>4. g[s] = IF s = {} THEN w ELSE RemovePlayer(g[s \ {d}], p, g[s \ {d}].own[p][d].id)
      BY <1>5, <3>1, <3>2
    <3> QED
      BY <3>3, <3>4
  <2> QED
    BY <2>1
<1>9. ASSUME Rec(f)
      PROVE  /\ f[{}] = w
             /\ \A s \in SUBSET D : s # {} /\ f[s \ {pick[s]}] \in World =>
                  f[s] = step[<<pick[s], f[s \ {pick[s]}]>>]
  <2> HIDE DEF f
  <2>1. ASSUME NEW s \in SUBSET D, s # {}, f[s \ {pick[s]}] \in World
        PROVE  f[s] = step[<<pick[s], f[s \ {pick[s]}]>>]
    <3>1. f[s] = RemovePlayer(f[s \ {pick[s]}], p, f[s \ {pick[s]}].own[p][pick[s]].id)
      BY <1>6, <1>9, <2>1, Zenon
    <3>2. pick[s] \in D
      BY <1>6, <2>1
    <3> QED
      BY <1>5, <2>1, <3>1, <3>2, Zenon
  <2> QED
    BY <1>9, <2>1, Zenon
<1>10. Recurs(D, World, w, pick, step, f)
  <2>1. ASSUME NEW g \in [SUBSET D -> World], FoldStep(D, w, pick, step, g) PROVE Rec(f)
    <3>1. Rec(g)
      BY <1>8, <2>1
    <3> HIDE DEF Rec
    <3> QED
      BY <3>1
  <2> HIDE DEF f, Rec
  <2> QED
    BY <1>9, <2>1 DEF Recurs
<1> HIDE DEF f, Rec
<1>11. Stays(D, World, T, w, pick, step)
  BY <1>4, <1>6, <1>7 DEF Stays
<1>12. f[D] \in T[D]
  BY <1>2, <1>10, <1>11, FoldValue
<1> QED
  BY <1>1, <1>4, <1>12

\* The saves of the binds of p to the dungeons of D have been told.
Told(w, p, D, w1) ==
  /\ OnlySave(w, w1) /\ Good(Cleared(w1, p, D))
  /\ D = {d \in Dungeon : w.own[p][d] # None}

\* Then the player leaves the map, and is gone.
Goes(p, w1, w2) ==
  w2 = IF w1.at[p].spot = None THEN [w1 EXCEPT !.at[p].on = "offline"]
       ELSE RemovePlayerFromMap(w1, p, TRUE)

Gone(p, w2, y) == y = [w2 EXCEPT !.own[p] = [d \in Dungeon |-> None]]

\* LogoutPlayer: binds are taken off their saves, the player leaves the map and is gone.
LEMMA LogoutFine ==
  ASSUME NEW w, Fine(w), NEW p \in Player, NEW D, NEW w1, Told(w, p, D, w1),
         NEW w2, Goes(p, w1, w2), NEW y, Gone(p, w2, y)
  PROVE  Fine(y) /\ y.stored = w.stored
<1> DEFINE s == w1.at[p].spot
           none == [d \in Dungeon |-> None]
           x == Cleared(w1, p, D)
<1>1. /\ w1 \in World /\ w1.at = w.at /\ w1.map = w.map /\ w1.stored = w.stored /\ w1.sound = w.sound
      /\ w1.own = w.own /\ w.at \in [Player -> Place] /\ w.own \in [Player -> [Dungeon -> Bind \cup {None}]]
      /\ w \in World /\ w.sound
  BY DEF OnlySave, Elsewhere, Fine, Good, World, Told
<1>2. /\ w2 \in World /\ w2.own = w1.own /\ w2.grp = w1.grp /\ w2.stored = w1.stored /\ w2.sound = w1.sound
      /\ w2.at = [w1.at EXCEPT ![p].on = "offline"]
      /\ \A r \in Spot : w2.map[r] = w1.map[r] \/ Linked(w1, r) = {p}
      /\ w2.save = w1.save \/ \E i \in Id : Emptied(w1, w2, i)
  <2>1. CASE s = None
    <3>1. w2 = [w1 EXCEPT !.at[p].on = "offline"]
      BY <2>1 DEF Goes
    <3>2. [w1.at[p] EXCEPT !.on = "offline"] \in Place
      BY <1>1 DEF Place
    <3> HIDE DEF s
    <3>3. /\ w2 \in World /\ w2.own = w1.own /\ w2.grp = w1.grp /\ w2.stored = w1.stored
          /\ w2.sound = w1.sound /\ w2.map = w1.map /\ w2.save = w1.save
          /\ w2.at = [w1.at EXCEPT ![p].on = "offline"]
      BY <1>1, <3>1, <3>2 DEF World
    <3> QED
      BY <3>3
  <2>2. CASE s # None
    <3> DEFINE gone == TRUE
               u == RemovePlayerFromMap(w1, p, gone)
    <3>3. gone \in BOOLEAN /\ w1.at[p].spot # None /\ w1 \in World
      BY <1>1, <2>2
    <3> HIDE DEF gone
    <3>1. /\ u \in World /\ u.own = w1.own /\ u.grp = w1.grp /\ u.stored = w1.stored
          /\ u.sound = w1.sound /\ s \in Spot /\ s[2] \in Id /\ Emptied(w1, u, s[2])
          /\ u.at = [w1.at EXCEPT ![p].on = IF gone THEN "offline" ELSE "transit"]
          /\ \A r \in Spot : u.map[r] = w1.map[r] \/ Linked(w1, r) = {p}
      BY <3>3, PlayerLeaves
    <3>2. w2 = RemovePlayerFromMap(w1, p, TRUE)
      BY <2>2 DEF Goes
    <3> QED
      BY <3>1, <3>2 DEF gone
  <2> QED
    BY <2>1, <2>2
<1>3. /\ y \in World /\ y.save = w2.save /\ y.grp = w1.grp /\ y.stored = w.stored /\ y.sound
      /\ y.own = [w.own EXCEPT ![p] = none] /\ y.at = w2.at /\ y.map = w2.map
  <2>1. none \in [Dungeon -> Bind \cup {None}] /\ y = [w2 EXCEPT !.own[p] = none]
    BY DEF Gone
  <2> HIDE DEF none
  <2> QED
    BY <1>1, <1>2, <2>1 DEF World
<1>4. x.own = y.own /\ x.save = w1.save /\ x.grp = w1.grp /\ x \in World
  <2> DEFINE f == [d \in Dungeon |-> IF d \in D THEN None ELSE w1.own[p][d]]
  <2>1. x = [w1 EXCEPT !.own[p] = f]
    BY DEF Cleared
  <2>2. f = none
    <3>1. \A d \in Dungeon : (IF d \in D THEN None ELSE w1.own[p][d]) = None
      BY <1>1 DEF Told
    <3> QED
      BY <3>1
  <2>3. x \in World
    BY DEF Good, Told
  <2> HIDE DEF f, x, none
  <2> QED
    BY <1>1, <1>3, <2>1, <2>2, <2>3 DEF World
<1>5. Good(y)
  <2> HIDE DEF x
  <2>1. Good(x)
    BY DEF x, Told
  <2>2. CASE w2.save = w1.save
    BY <1>3, <1>4, <2>1, <2>2, SameBinds DEF Good
  <2>3. ASSUME NEW i \in Id, Emptied(w1, w2, i) PROVE Good(y)
    <3>1. Emptied(x, y, i) /\ y.own = x.own /\ y.grp = x.grp
      BY <1>3, <1>4, <2>3 DEF Emptied
    <3> QED
      BY <1>3, <2>1, <3>1, EmptyGoes
  <2> QED
    BY <1>2, <2>2, <2>3
<1> HIDE DEF x, s
<1>6. y.at[p].on = "offline" /\ \A q \in Player \ {p} : y.at[q] = w.at[q]
  <2>1. w.at[p] \in Place
    BY <1>1
  <2> QED
    BY <1>1, <1>2, <1>3, <2>1 DEF Place
<1>7. Inside(y)
  <2> SUFFICES ASSUME NEW q \in Player, y.at[q].on = "world", y.at[q].spot # None
               PROVE  y.map[y.at[q].spot] = "kept"
    BY DEF Inside
  <2> DEFINE r == w.at[q].spot
  <2>1. q # p /\ y.at[q] = w.at[q]
    BY <1>6
  <2>2. r \in Spot
    BY <1>1, <2>1, SpotOf
  <2>3. w.map[r] = "kept" /\ q \in Linked(w1, r)
    BY <1>1, <2>1 DEF Fine, Inside, Linked
  <2> HIDE DEF r
  <2> QED
    BY <1>1, <1>2, <1>3, <2>1, <2>2, <2>3 DEF r
<1>8. Unbound(y)
  <2> SUFFICES ASSUME NEW q \in Player, y.at[q].on = "offline", NEW d \in Dungeon
               PROVE  y.own[q][d] = None
    BY DEF Unbound
  <2>1. CASE q = p
    BY <1>1, <1>3, <2>1
  <2>2. CASE q # p
    BY <1>1, <1>3, <1>6, <2>2 DEF Fine, Unbound
  <2> QED
    BY <2>1, <2>2
<1> QED
  BY <1>3, <1>5, <1>7, <1>8 DEF Fine

-----------------------------------------------------------------------------
(* Resets of several saves, and logging in *)

\* Rows can be folded over: there are finitely many ids.
LEMMA IdsFinite == IsFiniteSet(Id)
BY FS_Interval, MaxIdAssumption DEF Id

\* Each save is reset on its own.
LEMMA ResetSavesRuns ==
  ASSUME NEW w, Good(w), NEW S, S \subseteq Id, \A i \in S : w.save[i] # None, NEW P
  PROVE  Runs(w, FoldSet(LAMBDA i, v : ResetSave(v, i), w, S), P)
<1> DEFINE u == FoldSet(LAMBDA i, v : ResetSave(v, i), w, S)
<1> DEFINE T == [s \in SUBSET S |-> {v \in World : Runs(w, v, P) /\ \A j \in Id \ s : v.save[j] = w.save[j]}]
           step == [t \in S \X World |-> ResetSave(t[2], t[1])]
           pick == [s \in SUBSET S |-> CHOOSE x \in s : TRUE]
           Rec(h) == h = [s \in SUBSET S |-> IF s = {} THEN w
                            ELSE ResetSave(h[s \ {CHOOSE x \in s : TRUE}], CHOOSE x \in s : TRUE)]
           f == CHOOSE h : Rec(h)
<1>1. u = f[S]
  BY DEF FoldSet, MapThenFoldSet
<1>2. IsFiniteSet(S)
  BY FS_Subset, IdsFinite
<1>3. w \in World /\ Runs(w, w, P)
  BY RunsNothing DEF Good
<1>4. /\ T \in [SUBSET S -> SUBSET World] /\ w \in T[{}]
      /\ \A s \in SUBSET S : \A v : v \in T[s] <=> v \in World /\ Runs(w, v, P) /\ \A j \in Id \ s : v.save[j] = w.save[j]
  BY <1>3
<1>5. \A d \in S, v \in World : step[<<d, v>>] = ResetSave(v, d)
  OBVIOUS
<1>6. \A s \in SUBSET S : pick[s] = (CHOOSE x \in s : TRUE) /\ (s # {} => pick[s] \in s)
  OBVIOUS
<1> HIDE DEF T, step, pick
<1>7. ASSUME NEW s \in SUBSET S, NEW d \in s, NEW v \in T[s \ {d}]
      PROVE  step[<<d, v>>] \in T[s]
  <2> DEFINE y == ResetSave(v, d)
  <2>1. /\ v \in World /\ Runs(w, v, P) /\ d \in Id /\ d \in S
        /\ \A j \in Id \ (s \ {d}) : v.save[j] = w.save[j]
    BY <1>4
  <2>2. v.save[d] # None
    BY <2>1
  <2>3. Runs(v, y, P) /\ \A j \in Id \ {d} : y.save[j] = v.save[j]
    BY <2>1, <2>2, ResetSaveRuns DEF Runs
  <2>4. step[<<d, v>>] = y
    BY <1>5, <2>1
  <2> HIDE DEF y
  <2>5. Runs(w, y, P)
    BY <1>3, <2>1, <2>3, RunsTransitive
  <2>6. \A j \in Id \ s : y.save[j] = w.save[j]
    BY <2>1, <2>3
  <2> QED
    BY <1>4, <2>4, <2>5, <2>6 DEF Runs, Good
<1>8. ASSUME NEW g \in [SUBSET S -> World], FoldStep(S, w, pick, step, g) PROVE Rec(g)
  <2>1. ASSUME NEW s \in SUBSET S
        PROVE  g[s] = IF s = {} THEN w
                      ELSE ResetSave(g[s \ {CHOOSE x \in s : TRUE}], CHOOSE x \in s : TRUE)
    <3> DEFINE d == pick[s]
    <3>1. g[s] = IF s = {} THEN w ELSE step[<<d, g[s \ {d}]>>]
      BY <1>8 DEF FoldStep
    <3>2. s # {} => d \in S /\ g[s \ {d}] \in World
      BY <1>6
    <3>3. d = CHOOSE x \in s : TRUE
      BY <1>6
    <3> HIDE DEF d
    <3>4. g[s] = IF s = {} THEN w ELSE ResetSave(g[s \ {d}], d)
      BY <1>5, <3>1, <3>2
    <3> QED
      BY <3>3, <3>4
  <2> QED
    BY <2>1
<1>9. ASSUME Rec(f)
      PROVE  /\ f[{}] = w
             /\ \A s \in SUBSET S : s # {} /\ f[s \ {pick[s]}] \in World =>
                  f[s] = step[<<pick[s], f[s \ {pick[s]}]>>]
  <2> HIDE DEF f
  <2>1. ASSUME NEW s \in SUBSET S, s # {}, f[s \ {pick[s]}] \in World
        PROVE  f[s] = step[<<pick[s], f[s \ {pick[s]}]>>]
    <3>1. f[s] = ResetSave(f[s \ {pick[s]}], pick[s])
      BY <1>6, <1>9, <2>1, Zenon
    <3>2. pick[s] \in S
      BY <1>6, <2>1
    <3> QED
      BY <1>5, <2>1, <3>1, <3>2
  <2> QED
    BY <1>9, <2>1
<1>10. Recurs(S, World, w, pick, step, f)
  <2>1. ASSUME NEW g \in [SUBSET S -> World], FoldStep(S, w, pick, step, g) PROVE Rec(f)
    <3>1. Rec(g)
      BY <1>8, <2>1
    <3> HIDE DEF Rec
    <3> QED
      BY <3>1
  <2> HIDE DEF f, Rec
  <2> QED
    BY <1>9, <2>1 DEF Recurs
<1> HIDE DEF f, Rec
<1>11. Stays(S, World, T, w, pick, step)
  BY <1>4, <1>6, <1>7 DEF Stays
<1>12. f[S] \in T[S]
  BY <1>2, <1>10, <1>11, FoldValue
<1> QED
  BY <1>1, <1>4, <1>12

\* And each map.
LEMMA ResetMapsRuns ==
  ASSUME NEW w, Good(w), NEW e \in Dungeon, NEW P
  PROVE  Runs(w, FoldSet(LAMBDA i, v : ResetMap(v, <<e, i>>, TRUE), w, Id), P)
<1> DEFINE u == FoldSet(LAMBDA i, v : ResetMap(v, <<e, i>>, TRUE), w, Id)
<1> DEFINE T == [s \in SUBSET Id |-> {v \in World : Runs(w, v, P)}]
           step == [t \in Id \X World |-> ResetMap(t[2], <<e, t[1]>>, TRUE)]
           pick == [s \in SUBSET Id |-> CHOOSE x \in s : TRUE]
           Rec(h) == h = [s \in SUBSET Id |-> IF s = {} THEN w
                            ELSE ResetMap(h[s \ {CHOOSE x \in s : TRUE}], <<e, CHOOSE x \in s : TRUE>>, TRUE)]
           f == CHOOSE h : Rec(h)
<1>1. u = f[Id]
  BY DEF FoldSet, MapThenFoldSet
<1>2. IsFiniteSet(Id)
  BY IdsFinite
<1>3. w \in World /\ Runs(w, w, P)
  BY RunsNothing DEF Good
<1>4. /\ T \in [SUBSET Id -> SUBSET World] /\ w \in T[{}]
      /\ \A s \in SUBSET Id : \A v : v \in T[s] <=> v \in World /\ Runs(w, v, P)
  BY <1>3
<1>5. \A d \in Id, v \in World : step[<<d, v>>] = ResetMap(v, <<e, d>>, TRUE)
  OBVIOUS
<1>6. \A s \in SUBSET Id : pick[s] = (CHOOSE x \in s : TRUE) /\ (s # {} => pick[s] \in s)
  OBVIOUS
<1> HIDE DEF T, step, pick
<1>7. ASSUME NEW s \in SUBSET Id, NEW d \in s, NEW v \in T[s \ {d}]
      PROVE  step[<<d, v>>] \in T[s]
  <2>1. v \in World /\ Runs(w, v, P) /\ d \in Id /\ <<e, d>> \in Spot
    BY <1>4 DEF Spot
  <2>2. Runs(v, ResetMap(v, <<e, d>>, TRUE), P)
    BY <2>1, ResetMapRuns DEF Runs
  <2>3. Runs(w, ResetMap(v, <<e, d>>, TRUE), P)
    BY <1>3, <2>1, <2>2, RunsTransitive
  <2> QED
    BY <1>4, <1>5, <2>1, <2>3 DEF Runs, Good
<1>8. ASSUME NEW g \in [SUBSET Id -> World], FoldStep(Id, w, pick, step, g) PROVE Rec(g)
  <2>1. ASSUME NEW s \in SUBSET Id
        PROVE  g[s] = IF s = {} THEN w
                      ELSE ResetMap(g[s \ {CHOOSE x \in s : TRUE}], <<e, CHOOSE x \in s : TRUE>>, TRUE)
    <3> DEFINE d == pick[s]
    <3>1. g[s] = IF s = {} THEN w ELSE step[<<d, g[s \ {d}]>>]
      BY <1>8 DEF FoldStep
    <3>2. s # {} => d \in Id /\ g[s \ {d}] \in World
      BY <1>6
    <3>3. d = CHOOSE x \in s : TRUE
      BY <1>6
    <3> HIDE DEF d
    <3>4. g[s] = IF s = {} THEN w ELSE ResetMap(g[s \ {d}], <<e, d>>, TRUE)
      BY <1>5, <3>1, <3>2
    <3> QED
      BY <3>3, <3>4
  <2> QED
    BY <2>1
<1>9. ASSUME Rec(f)
      PROVE  /\ f[{}] = w
             /\ \A s \in SUBSET Id : s # {} /\ f[s \ {pick[s]}] \in World =>
                  f[s] = step[<<pick[s], f[s \ {pick[s]}]>>]
  <2> HIDE DEF f
  <2>1. ASSUME NEW s \in SUBSET Id, s # {}, f[s \ {pick[s]}] \in World
        PROVE  f[s] = step[<<pick[s], f[s \ {pick[s]}]>>]
    <3>1. f[s] = ResetMap(f[s \ {pick[s]}], <<e, pick[s]>>, TRUE)
      BY <1>6, <1>9, <2>1, Zenon
    <3>2. pick[s] \in Id
      BY <1>6, <2>1
    <3> QED
      BY <1>5, <2>1, <3>1, <3>2
  <2> QED
    BY <1>9, <2>1
<1>10. Recurs(Id, World, w, pick, step, f)
  <2>1. ASSUME NEW g \in [SUBSET Id -> World], FoldStep(Id, w, pick, step, g) PROVE Rec(f)
    <3>1. Rec(g)
      BY <1>8, <2>1
    <3> HIDE DEF Rec
    <3> QED
      BY <3>1
  <2> HIDE DEF f, Rec
  <2> QED
    BY <1>9, <2>1 DEF Recurs
<1> HIDE DEF f, Rec
<1>11. Stays(Id, World, T, w, pick, step)
  BY <1>4, <1>6, <1>7 DEF Stays
<1>12. f[Id] \in T[Id]
  BY <1>2, <1>10, <1>11, FoldValue
<1> QED
  BY <1>1, <1>4, <1>12

\* Rows are loaded one after the other.
LEMMA LoadsTransitive ==
  ASSUME NEW w, NEW u, NEW v, NEW p, Loads(w, u, p), Loads(u, v, p)
  PROVE  Loads(w, v, p)
BY DEF Loads, Elsewhere, InGroup

\* _LoadBoundInstances
LEMMA LoadRowsLoad ==
  ASSUME NEW w, Good(w), NEW p \in Player, NEW S, S \subseteq Id, \A i \in S : w.rows[p][i] # None
  PROVE  Loads(w, FoldSet(LAMBDA i, v : LoadRow(v, p, i), w, S), p)
<1> DEFINE u == FoldSet(LAMBDA i, v : LoadRow(v, p, i), w, S)
<1> DEFINE T == [s \in SUBSET S |-> {v \in World : Loads(w, v, p) /\ \A j \in Id \ s : v.rows[p][j] = w.rows[p][j]}]
           step == [t \in S \X World |-> LoadRow(t[2], p, t[1])]
           pick == [s \in SUBSET S |-> CHOOSE x \in s : TRUE]
           Rec(h) == h = [s \in SUBSET S |-> IF s = {} THEN w
                            ELSE LoadRow(h[s \ {CHOOSE x \in s : TRUE}], p, CHOOSE x \in s : TRUE)]
           f == CHOOSE h : Rec(h)
<1>1. u = f[S]
  BY DEF FoldSet, MapThenFoldSet
<1>2. IsFiniteSet(S)
  BY FS_Subset, IdsFinite
<1>3. w \in World /\ Loads(w, w, p)
  BY DEF Good, Loads, Elsewhere
<1>4. /\ T \in [SUBSET S -> SUBSET World] /\ w \in T[{}]
      /\ \A s \in SUBSET S : \A v : v \in T[s] <=> v \in World /\ Loads(w, v, p) /\ \A j \in Id \ s : v.rows[p][j] = w.rows[p][j]
  BY <1>3
<1>5. \A d \in S, v \in World : step[<<d, v>>] = LoadRow(v, p, d)
  OBVIOUS
<1>6. \A s \in SUBSET S : pick[s] = (CHOOSE x \in s : TRUE) /\ (s # {} => pick[s] \in s)
  OBVIOUS
<1> HIDE DEF T, step, pick
<1>7. ASSUME NEW s \in SUBSET S, NEW d \in s, NEW v \in T[s \ {d}]
      PROVE  step[<<d, v>>] \in T[s]
  <2> DEFINE y == LoadRow(v, p, d)
  <2>1. /\ v \in World /\ Loads(w, v, p) /\ d \in Id /\ d \in S
        /\ \A j \in Id \ (s \ {d}) : v.rows[p][j] = w.rows[p][j]
    BY <1>4
  <2>2. v.rows[p][d] # None
    BY <2>1
  <2>3. Loads(v, y, p) /\ \A j \in Id \ {d} : y.rows[p][j] = v.rows[p][j]
    BY <2>1, <2>2, LoadRowLoads DEF Loads
  <2>4. step[<<d, v>>] = y
    BY <1>5, <2>1
  <2> HIDE DEF y
  <2>5. Loads(w, y, p)
    BY <2>1, <2>3, LoadsTransitive
  <2>6. \A j \in Id \ s : y.rows[p][j] = w.rows[p][j]
    BY <2>1, <2>3
  <2> QED
    BY <1>4, <2>4, <2>5, <2>6 DEF Loads, Good
<1>8. ASSUME NEW g \in [SUBSET S -> World], FoldStep(S, w, pick, step, g) PROVE Rec(g)
  <2>1. ASSUME NEW s \in SUBSET S
        PROVE  g[s] = IF s = {} THEN w
                      ELSE LoadRow(g[s \ {CHOOSE x \in s : TRUE}], p, CHOOSE x \in s : TRUE)
    <3> DEFINE d == pick[s]
    <3>1. g[s] = IF s = {} THEN w ELSE step[<<d, g[s \ {d}]>>]
      BY <1>8 DEF FoldStep
    <3>2. s # {} => d \in S /\ g[s \ {d}] \in World
      BY <1>6
    <3>3. d = CHOOSE x \in s : TRUE
      BY <1>6
    <3> HIDE DEF d
    <3>4. g[s] = IF s = {} THEN w ELSE LoadRow(g[s \ {d}], p, d)
      BY <1>5, <3>1, <3>2
    <3> QED
      BY <3>3, <3>4
  <2> QED
    BY <2>1
<1>9. ASSUME Rec(f)
      PROVE  /\ f[{}] = w
             /\ \A s \in SUBSET S : s # {} /\ f[s \ {pick[s]}] \in World =>
                  f[s] = step[<<pick[s], f[s \ {pick[s]}]>>]
  <2> HIDE DEF f
  <2>1. ASSUME NEW s \in SUBSET S, s # {}, f[s \ {pick[s]}] \in World
        PROVE  f[s] = step[<<pick[s], f[s \ {pick[s]}]>>]
    <3>1. f[s] = LoadRow(f[s \ {pick[s]}], p, pick[s])
      BY <1>6, <1>9, <2>1, Zenon
    <3>2. pick[s] \in S
      BY <1>6, <2>1
    <3> QED
      BY <1>5, <2>1, <3>1, <3>2
  <2> QED
    BY <1>9, <2>1
<1>10. Recurs(S, World, w, pick, step, f)
  <2>1. ASSUME NEW g \in [SUBSET S -> World], FoldStep(S, w, pick, step, g) PROVE Rec(f)
    <3>1. Rec(g)
      BY <1>8, <2>1
    <3> HIDE DEF Rec
    <3> QED
      BY <3>1
  <2> HIDE DEF f, Rec
  <2> QED
    BY <1>9, <2>1 DEF Recurs
<1> HIDE DEF f, Rec
<1>11. Stays(S, World, T, w, pick, step)
  BY <1>4, <1>6, <1>7 DEF Stays
<1>12. f[S] \in T[S]
  BY <1>2, <1>10, <1>11, FoldValue
<1> QED
  BY <1>1, <1>4, <1>12, Zenon

-----------------------------------------------------------------------------
(* The handlers *)

\* What each step of the world keeps, but for the two resets that nobody asks for.
Spares(w, u) ==
  \A i \in Id : w.stored[i] # None /\ u.stored[i] = None /\ w.save[i] # None =>
    ~HavePlayers(w, <<w.save[i].dungeon, i>>)

\* A handler whose calls all run keeps the inductive invariant and spares instances
\* with players.
LEMMA RunsStep ==
  ASSUME NEW w, Fine(w), NEW u, NEW P, \A p \in P : p \in Player => w.at[p].on # "offline", Runs(w, u, P)
  PROVE  Fine(u) /\ Spares(w, u)
BY FrameFine DEF Runs, Spared, Spares

\* pending, which Accept and the timer trust to name an id.
PendingOK == pending \in [Player -> Id \cup {None}]

\* A player gets a new flag.
Flags(w, u, p, c) == u = [w EXCEPT !.at[p].valid = c]

\* A flag of a player is no part of the frame.
LEMMA FlagSame ==
  ASSUME NEW w \in World, NEW p \in Player, NEW c \in BOOLEAN, NEW u, Flags(w, u, p, c)
  PROVE  Same(w, u)
<1> DEFINE x == [w.at[p] EXCEPT !.valid = c]
<1>1. w.at \in [Player -> Place] /\ w.at[p] \in Place
  BY DEF World
<1>2. x \in Place /\ x.on = w.at[p].on /\ x.spot = w.at[p].spot
  BY <1>1 DEF Place
<1>3. u = [w EXCEPT !.at[p] = x]
  BY DEF World, Flags
<1> HIDE DEF x
<1>4. /\ u \in World /\ SameParts(w, u) /\ u.map = w.map /\ u.stored = w.stored /\ u.sound = w.sound
      /\ u.at = [w.at EXCEPT ![p] = x]
  BY <1>1, <1>2, <1>3 DEF World, SameParts
<1> QED
  BY <1>1, <1>2, <1>4 DEF Same

\* CheckInstanceValidity says yes or no.
LEMMA CheckIsBoolean == ASSUME NEW w, NEW p PROVE CheckInstanceValidity(w, p) \in BOOLEAN
BY DEF CheckInstanceValidity

\* The leader is no part of the frame.
LEMMA LeaderSame ==
  ASSUME NEW w \in World, NEW p \in Player, NEW u, u = [w EXCEPT !.leader = p]
  PROVE  Same(w, u)
BY DEF World, Same, SameParts

\* The members are no part of the frame.
LEMMA MembersSame ==
  ASSUME NEW w \in World, NEW p \in Player, NEW u, u = [w EXCEPT !.members = @ \cup {p}]
  PROVE  Same(w, u)
BY DEF World, Same, SameParts

\* Group::AddMember
LEMMA AddMemberRuns ==
  ASSUME NEW w, Good(w), NEW p \in Player, NEW P
  PROVE  Runs(w, AddMember(w, p), P)
<1> DEFINE w1 == [w EXCEPT !.members = @ \cup {p}]
           c == CheckInstanceValidity(w1, p)
           w2 == [w1 EXCEPT !.at[p].valid = c]
           w3 == ResetInstancesOf(w2, p, Dungeon)
<1>1. AddMember(w, p) = IF p = w.leader THEN w2 ELSE w3
  BY Zenon DEF AddMember
<1>2. c \in BOOLEAN
  BY CheckIsBoolean
<1>3. w \in World
  BY DEF Good
<1> HIDE DEF c
<1>4. Same(w, w1)
  BY <1>3, MembersSame
<1> HIDE DEF w1
<1>5. Same(w1, w2)
  BY <1>2, <1>4, FlagSame DEF Same, Flags
<1> HIDE DEF w2
<1>6. Runs(w, w1, P)
  BY <1>4, SameRuns
<1>7. Runs(w1, w2, P)
  BY <1>5, <1>6, SameRuns DEF Runs
<1>8. Runs(w, w2, P)
  BY <1>3, <1>6, <1>7, RunsTransitive
<1>9. Runs(w2, w3, P)
  BY <1>7, ResetInstancesOfRuns DEF Runs
<1> HIDE DEF w3
<1>10. Runs(w, w3, P)
  BY <1>3, <1>8, <1>9, RunsTransitive
<1> QED
  BY <1>1, <1>8, <1>10

\* The bind that a player accepted or did not refuse in time.
LEMMA BindPendingRuns ==
  ASSUME NEW w, Good(w), NEW p \in Player, pending[p] \in Id
  PROVE  Runs(w, BindPending(w, p), {p})
<1> DEFINE i == pending[p]
           old == w.own[p][w.save[i].dungeon]
           row == [perm |-> TRUE, lasts |-> old # None /\ old.id = i => old.lasts]
           u == BindPlayer(w, p, i, row, FALSE)
<1>1. BindPending(w, p) = IF w.save[i] = None THEN w ELSE u
  BY Zenon DEF BindPending
<1>2. row \in Row
  BY DEF Row
<1> HIDE DEF row, old
<1>3. w.save[i] # None => Runs(w, u, {p})
  BY <1>2, PlayerBindRuns
<1>4. Runs(w, w, {p})
  BY RunsNothing
<1> HIDE DEF u, i
<1> QED
  BY <1>1, <1>3, <1>4

\* TeleportTo keeps the inductive invariant.
LEMMA TeleportToStep ==
  ASSUME Fine(world), NEW p \in Player, TeleportTo(p)
  PROVE  Fine(world') /\ Spares(world, world')
<1>1. world.at[p].spot # None /\ world' = RemovePlayerFromMap(world, p, FALSE)
  BY DEF TeleportTo
<1>2. Fine(world') /\ world'.stored = world.stored
  BY <1>1, LeavesFine
<1> QED
  BY <1>2 DEF Spares

\* ArriveOutside keeps the inductive invariant.
LEMMA ArriveOutsideStep ==
  ASSUME Fine(world), NEW p \in Player, ArriveOutside(p)
  PROVE  Fine(world') /\ Spares(world, world')
<1> DEFINE w == world
           u == world'
           x == [on |-> "world", spot |-> None, valid |-> TRUE]
<1>1. x \in Place /\ x.on = "world" /\ x.spot = None
  BY DEF Place
<1>2. u = [w EXCEPT !.at[p] = x] /\ Good(w) /\ Fine(w)
  BY DEF ArriveOutside, PutOutside, Fine
<1> HIDE DEF x, w, u
<1>6. Puts(w, u, p, x) /\ Good(w)
  BY <1>2 DEF Puts
<1>3. Moves(w, u, p) /\ u.at[p] = x
  BY <1>1, <1>6, PlaceMoves
<1>4. Fine(u)
  BY <1>1, <1>2, <1>3, MovesFine, Zenon
<1>5. Spares(w, u)
  BY <1>3 DEF Moves, Spares
<1> QED
  BY <1>4, <1>5 DEF w, u

\* LogoutPlayer keeps the inductive invariant.
LEMMA LogoutPlayerStep ==
  ASSUME Fine(world), NEW p \in Player, LogoutPlayer(p)
  PROVE  Fine(world') /\ Spares(world, world')
<1> DEFINE w == world
           u == world'
           D == {d \in Dungeon : w.own[p][d] # None}
           w1 == FoldSet(LAMBDA d, v : RemovePlayer(v, p, v.own[p][d].id), w, D)
           w2 == IF w1.at[p].spot = None THEN [w1 EXCEPT !.at[p].on = "offline"]
                 ELSE RemovePlayerFromMap(w1, p, TRUE)
<1>1. u = [w2 EXCEPT !.own[p] = [d \in Dungeon |-> None]]
  BY Zenon DEF LogoutPlayer
<1>2. Fine(w) /\ Good(w)
  BY DEF Fine
<1>3. D \subseteq Dungeon /\ \A d \in D : w.own[p][d] # None
  OBVIOUS
<1>4. D = {d \in Dungeon : w.own[p][d] # None}
  OBVIOUS
<1> HIDE DEF D, w, u
<1>5. OnlySave(w, w1) /\ Good(Cleared(w1, p, D))
  BY <1>2, <1>3, TellSaves
<1> HIDE DEF w1
<1>6. Told(w, p, D, w1)
  BY <1>4, <1>5 DEF Told
<1>7. Goes(p, w1, w2)
  BY DEF Goes
<1> HIDE DEF w2
<1>8. Gone(p, w2, u)
  BY <1>1 DEF Gone
<1>9. Fine(u) /\ u.stored = w.stored
  BY <1>2, <1>6, <1>7, <1>8, LogoutFine
<1> QED
  BY <1>9 DEF Spares, w, u

\* ChangeLeader keeps the inductive invariant.
LEMMA ChangeLeaderStep ==
  ASSUME Fine(world), NEW p \in Player, ChangeLeader(p)
  PROVE  Fine(world') /\ Spares(world, world')
<1> DEFINE w == world
           u == world'
           gone == {d \in Dungeon : /\ w.grp[d] # None /\ w.grp[d].perm
                                    /\ w.map[<<d, w.grp[d].id>>] = "none"}
           w1 == FoldSet(LAMBDA d, v : [RemoveGroup(v, v.grp[d].id) EXCEPT !.grp[d] = None], w, gone)
           w2 == ConvertLeaderInstancesToGroup(w1, p, TRUE)
<1>1. u = [w2 EXCEPT !.leader = p]
  BY DEF ChangeLeader
<1>2. Fine(w) /\ Good(w) /\ w \in World
  BY DEF Fine, Good
<1>3. gone \subseteq Dungeon /\ \A d \in gone : w.grp[d] # None
  OBVIOUS
<1> HIDE DEF gone, w, u
<1>4. Runs(w, w1, {})
  BY <1>2, <1>3, DropGroupBindsRuns
<1> HIDE DEF w1
<1>5. Runs(w1, w2, {})
  BY <1>4, ConvertLeaderRuns DEF Runs
<1> HIDE DEF w2
<1>6. Runs(w, w2, {})
  BY <1>2, <1>4, <1>5, RunsTransitive
<1>7. Same(w2, u)
  BY <1>1, <1>5, LeaderSame DEF Runs, Good
<1>8. Runs(w2, u, {})
  BY <1>5, <1>7, SameRuns DEF Runs
<1>9. Runs(w, u, {})
  BY <1>2, <1>6, <1>8, RunsTransitive
<1> QED
  BY <1>2, <1>9, RunsStep DEF w, u

\* The resets that players ask for keep the inductive invariant.
LEMMA ResetsStep ==
  ASSUME Fine(world), NEW p \in Player, NEW D, D \subseteq Dungeon, NEW change \in BOOLEAN,
         world' \in {ResetInstancesOfGroup(world, D, FALSE, change), ResetInstancesOf(world, p, D)}
  PROVE  Fine(world') /\ Spares(world, world')
<1> DEFINE w == world
           u == world'
<1>1. Fine(w) /\ Good(w)
  BY DEF Fine
<1>2. u = ResetInstancesOfGroup(w, D, FALSE, change) \/ u = ResetInstancesOf(w, p, D)
  OBVIOUS
<1> HIDE DEF w, u
<1>3. Runs(w, ResetInstancesOfGroup(w, D, FALSE, change), {})
  BY <1>1, ResetInstancesOfGroupRuns
<1>4. Runs(w, ResetInstancesOf(w, p, D), {})
  BY <1>1, ResetInstancesOfRuns
<1>5. Runs(w, u, {})
  BY <1>2, <1>3, <1>4
<1> QED
  BY <1>1, <1>5, RunsStep DEF w, u

\* HandleResetInstances keeps the inductive invariant.
LEMMA HandleResetInstancesStep ==
  ASSUME Fine(world), NEW p \in Player, HandleResetInstances(p)
  PROVE  Fine(world') /\ Spares(world, world')
<1>1. world' \in {ResetInstancesOfGroup(world, Normal, FALSE, FALSE), ResetInstancesOf(world, p, Normal)}
  BY DEF HandleResetInstances
<1>2. Normal \subseteq Dungeon
  BY DEF Normal
<1> QED
  BY <1>1, <1>2, ResetsStep

\* HandleSetDifficulty keeps the inductive invariant.
LEMMA HandleSetDifficultyStep ==
  ASSUME Fine(world), NEW p \in Player, NEW D, D \subseteq Dungeon, HandleSetDifficulty(p, D)
  PROVE  Fine(world') /\ Spares(world, world')
<1>1. world' \in {ResetInstancesOfGroup(world, D, FALSE, TRUE), ResetInstancesOf(world, p, D)}
  BY DEF HandleSetDifficulty
<1> QED
  BY <1>1, ResetsStep

\* Disband keeps the inductive invariant.
LEMMA DisbandStep ==
  ASSUME Fine(world), Disband
  PROVE  Fine(world') /\ Spares(world, world')
<1> DEFINE w == world
           u == world'
           told == [p \in Player |->
                     IF InGroup(w, p) /\ Connected(p) /\ w.at[p].spot # None
                     THEN [w.at[p] EXCEPT !.valid = FALSE] ELSE w.at[p]]
           w1 == [w EXCEPT !.members = {}, !.leader = None, !.at = told]
<1>1. u = ResetInstancesOfGroup(w1, Dungeon, TRUE, FALSE)
  BY DEF Disband
<1>2. Fine(w) /\ Good(w) /\ w \in World
  BY DEF Fine, Good
<1>3. /\ told \in [Player -> Place]
      /\ \A p \in Player : told[p].on = w.at[p].on /\ told[p].spot = w.at[p].spot
  <2> DEFINE c(p) == InGroup(w, p) /\ Connected(p) /\ w.at[p].spot # None
  <2>1. \A p \in Player : w.at[p] \in Place
    BY <1>2 DEF World
  <2>2. ASSUME NEW x \in Place
        PROVE  /\ [x EXCEPT !.valid = FALSE] \in Place
               /\ [x EXCEPT !.valid = FALSE].on = x.on /\ [x EXCEPT !.valid = FALSE].spot = x.spot
    BY DEF Place
  <2>3. told = [p \in Player |-> IF c(p) THEN [w.at[p] EXCEPT !.valid = FALSE] ELSE w.at[p]]
    OBVIOUS
  <2> HIDE DEF c, told
  <2> QED
    BY <2>1, <2>2, <2>3
<1> HIDE DEF told, w, u
<1>4. Same(w, w1)
  BY <1>2, <1>3 DEF World, Same, SameParts
<1> HIDE DEF w1
<1>5. Runs(w, w1, {})
  BY <1>2, <1>4, SameRuns
<1>6. Runs(w1, u, {})
  BY <1>1, <1>5, ResetInstancesOfGroupRuns DEF Runs
<1>7. Runs(w, u, {})
  BY <1>2, <1>5, <1>6, RunsTransitive
<1> QED
  BY <1>2, <1>7, RunsStep DEF w, u

\* Accept, and the timer of a pending bind, keep the inductive invariant.
LEMMA AcceptStep ==
  ASSUME Fine(world), PendingOK, NEW p \in Player, Accept(p) \/ PendingExpires(p)
  PROVE  Fine(world') /\ Spares(world, world')
<1> DEFINE w == world
           u == world'
<1>1. pending[p] \in Id /\ w.at[p].on = "world" /\ (u = BindPending(w, p) \/ u = w)
  <2>1. HasPendingBind(p) /\ (u = BindPending(w, p) \/ u = w)
    BY DEF Accept, PendingExpires
  <2> QED
    BY <2>1 DEF HasPendingBind, PendingOK
<1>2. Fine(w) /\ Good(w)
  BY DEF Fine
<1> HIDE DEF w, u
<1>3. Runs(w, BindPending(w, p), {p}) /\ Runs(w, w, {p})
  BY <1>1, <1>2, BindPendingRuns, RunsNothing
<1>4. Runs(w, u, {p})
  BY <1>1, <1>3
<1>5. \A q \in {p} : q \in Player => w.at[q].on # "offline"
  BY <1>1
<1> QED
  BY <1>2, <1>4, <1>5, RunsStep DEF w, u

\* Decline keeps the inductive invariant.
LEMMA DeclineStep ==
  ASSUME Fine(world), NEW p \in Player, Decline(p)
  PROVE  Fine(world') /\ Spares(world, world')
<1>1. world' = world \/ (world.at[p].spot # None /\ world' = RemovePlayerFromMap(world, p, FALSE))
  BY DEF Decline
<1>2. Fine(world') /\ world'.stored = world.stored
  BY <1>1, LeavesFine
<1> QED
  BY <1>2 DEF Spares

\* CreateGroup keeps the inductive invariant.
LEMMA CreateGroupStep ==
  ASSUME Fine(world), NEW p \in Player, NEW q \in Player, CreateGroup(p, q)
  PROVE  Fine(world') /\ Spares(world, world')
<1> DEFINE w == world
           u == world'
           w0 == [w EXCEPT !.leader = p]
           w1 == ConvertLeaderInstancesToGroup(w0, p, FALSE)
           w2 == AddMember(w1, p)
<1>1. u = AddMember(w2, q)
  BY DEF CreateGroup
<1>2. Fine(w) /\ Good(w) /\ w \in World
  BY DEF Fine, Good
<1> HIDE DEF w, u
<1>3. Same(w, w0)
  BY <1>2, LeaderSame
<1> HIDE DEF w0
<1>4. Runs(w, w0, {})
  BY <1>2, <1>3, SameRuns
<1>5. Runs(w0, w1, {})
  BY <1>4, ConvertLeaderRuns DEF Runs
<1> HIDE DEF w1
<1>6. Runs(w1, w2, {})
  BY <1>5, AddMemberRuns DEF Runs
<1> HIDE DEF w2
<1>7. Runs(w2, u, {})
  BY <1>1, <1>6, AddMemberRuns DEF Runs
<1>8. Runs(w, w1, {})
  BY <1>2, <1>4, <1>5, RunsTransitive
<1>9. Runs(w, w2, {})
  BY <1>2, <1>6, <1>8, RunsTransitive
<1>10. Runs(w, u, {})
  BY <1>2, <1>7, <1>9, RunsTransitive
<1> QED
  BY <1>2, <1>10, RunsStep DEF w, u

\* A fold over nothing.
LEMMA NothingThrown ==
  ASSUME NEW w
  PROVE  FoldSet(LAMBDA p, v : RemovePlayerFromMap(v, p, FALSE), w, {}) = w
<1> DEFINE Rec(h) == h = [s \in SUBSET {} |-> IF s = {} THEN w
                            ELSE RemovePlayerFromMap(h[s \ {CHOOSE x \in s : TRUE}],
                                                     CHOOSE x \in s : TRUE, FALSE)]
           f == CHOOSE h : Rec(h)
           g == [s \in SUBSET {} |-> w]
<1>1. FoldSet(LAMBDA p, v : RemovePlayerFromMap(v, p, FALSE), w, {}) = f[{}]
  BY DEF FoldSet, MapThenFoldSet
<1>2. Rec(g)
  <2>1. \A s \in SUBSET {} : s = {}
    OBVIOUS
  <2> QED
    BY <2>1
<1>3. Rec(f)
  <2> HIDE DEF Rec
  <2> QED
    BY <1>2
<1>4. f[{}] = w
  <2> HIDE DEF f
  <2> QED
    BY <1>3
<1> QED
  BY <1>1, <1>4

\* DestroyInstance keeps the inductive invariant: the map it destroys has nobody inside.
LEMMA DestroyInstanceStep ==
  ASSUME Fine(world), NEW s \in Spot, DestroyInstance(s)
  PROVE  Fine(world') /\ Spares(world, world')
<1> DEFINE w == world
           u == world'
           inside == {p \in Linked(w, s) : w.at[p].on = "world"}
<1>1. /\ w.map[s] = "unloading"
      /\ u = IF HavePlayers(w, s)
             THEN FoldSet(LAMBDA p, v : RemovePlayerFromMap(v, p, FALSE), w, inside)
             ELSE [w EXCEPT !.map[s] = "none"]
  BY DEF DestroyInstance
<1>2. Fine(w) /\ Good(w) /\ w \in World
  BY DEF Fine, Good
<1> HIDE DEF w, u
<1>3. inside = {}
  <2> SUFFICES ASSUME NEW p \in Player, w.at[p].on = "world", w.at[p].spot = s PROVE FALSE
    BY DEF Linked
  <2>1. s # None
    BY NoneAssumption
  <2> QED
    BY <1>1, <1>2, <2>1 DEF Fine, Inside
<1>4. u = w \/ (~HavePlayers(w, s) /\ u = [w EXCEPT !.map[s] = "none"])
  BY <1>1, <1>3, NothingThrown
<1> HIDE DEF inside
<1>5. CASE u = w
  BY <1>2, <1>5, RunsNothing, RunsStep DEF w, u, Spares
<1>6. CASE ~HavePlayers(w, s) /\ u = [w EXCEPT !.map[s] = "none"]
  <2>1. /\ u \in World /\ SameParts(w, u) /\ u.stored = w.stored /\ u.at = w.at /\ u.sound = w.sound
        /\ \A r \in Spot : u.map[r] = w.map[r] \/ r = s
    BY <1>2, <1>6 DEF World, SameParts
  <2>2. Good(u)
    BY <1>2, <2>1, SameBinds DEF Good, SameParts
  <2>3. Frame(w, u, {}) /\ Spares(w, u)
    BY <1>6, <2>1 DEF Frame, SavesStay, SameParts, Spares
  <2>4. Fine(u)
    BY <1>2, <2>2, <2>3, FrameFine
  <2> QED
    BY <2>3, <2>4 DEF w, u
<1> QED
  BY <1>4, <1>5, <1>6

\* KillBoss keeps the inductive invariant.
LEMMA KillBossStep ==
  ASSUME Fine(world), NEW s \in Spot, KillBoss(s)
  PROVE  Fine(world') /\ Spares(world, world')
<1> DEFINE w == world
           u == world'
           P == Linked(w, s)
           i == s[2]
<1>1. w.save[i] # None /\ u = FoldSet(LAMBDA p, v : PermBind(v, p, i), w, P)
  BY DEF KillBoss
<1>2. Fine(w) /\ Good(w)
  BY DEF Fine
<1>3. P \subseteq Player /\ (\A p \in P : p \in Player => w.at[p].on # "offline") /\ i \in Id
  BY DEF Linked, Spot
<1> HIDE DEF P, i, w, u
<1>4. Runs(w, u, P)
  BY <1>1, <1>2, <1>3, PermBindAllRuns
<1> QED
  BY <1>2, <1>3, <1>4, RunsStep DEF w, u

\* Deleting an instance from the tables, and resetting its map, leave the reset queue
\* alone.
LEMMA DeleteKeepsDue ==
  ASSUME NEW w, NEW i, NEW s
  PROVE  /\ w \in World => DeleteFromDB(w, i).due = w.due
         /\ w \in World => ResetMap(w, s, FALSE).due = w.due
BY DEF DeleteFromDB, ResetMap, World

\* An event of the reset queue is taken off.
Takes(w, u, s) == u = [w EXCEPT !.due[s] = @ - 1]

\* The reset queue is no part of the frame.
LEMMA TakeSame ==
  ASSUME NEW w \in World, NEW s \in Normal \X Id, w.due[s] > 0, NEW u, Takes(w, u, s)
  PROVE  Same(w, u)
<1>1. w.due \in [Normal \X Id -> 0..MaxDue]
  BY DEF World
<1>2. [w.due EXCEPT ![s] = @ - 1] \in [Normal \X Id -> 0..MaxDue]
  <2>1. w.due[s] - 1 \in 0..MaxDue
    <3>1. w.due[s] \in 0..MaxDue
      BY <1>1
    <3> QED
      BY <3>1, BoundsAssumption
  <2> QED
    BY <1>1, <2>1
<1>3. u = [w EXCEPT !.due = [w.due EXCEPT ![s] = @ - 1]]
  BY DEF Takes
<1> QED
  BY <1>2, <1>3 DEF World, Same, SameParts

\* Only the instance that is reset goes.
LEMMA ResetInstanceStep ==
  ASSUME Fine(world), NEW d \in Normal, NEW i \in Id, ResetInstance(d, i)
  PROVE  /\ Fine(world')
         /\ \A j \in Id \ {i} : world'.stored[j] = world.stored[j]
<1> DEFINE w == world
           s == <<d, i>>
           w1 == IF w.save[i] = None THEN w ELSE ResetSave(w, i)
           w2 == DeleteFromDB(w1, i)
           w3 == ResetMap(w2, s, FALSE)
           u == world'
<1>1. w.due[s] > 0 /\ u = [w3 EXCEPT !.due[s] = @ - 1]
  BY DEF ResetInstance
<1>2. Fine(w) /\ Good(w) /\ w \in World
  BY DEF Fine, Good
<1>3. s \in Spot /\ s \in Normal \X Id
  BY DEF Spot, Normal
<1> HIDE DEF w, s, u, w3
<1>4. Takes(w3, u, s)
  BY <1>1 DEF Takes
<1>5. Good(w1) /\ Frame(w, w1, {}) /\ w1.due = w.due /\ w1.stored = w.stored
  <2>1. CASE w.save[i] = None
    <3>1. w1 = w
      BY <2>1
    <3> QED
      BY <1>2, <3>1, RunsNothing DEF Runs
  <2>2. CASE w.save[i] # None
    <3>1. w1 = ResetSave(w, i)
      BY <2>2
    <3>2. Runs(w, ResetSave(w, i), {}) /\ Elsewhere(w, ResetSave(w, i))
      BY <1>2, <2>2, ResetSaveRuns
    <3> QED
      BY <3>1, <3>2 DEF Runs, Elsewhere
  <2> QED
    BY <2>1, <2>2
<1> HIDE DEF w1
<1>6. Good(w2) /\ Frame(w1, w2, {}) /\ w2.due = w.due /\ w2.stored = [w.stored EXCEPT ![i] = None]
  <2>1. w1 \in World
    BY <1>5 DEF Good
  <2>2. Good(w2) /\ Frame(w1, w2, {}) /\ w2.stored = [w1.stored EXCEPT ![i] = None]
    <3>1. SameParts(w1, w2)
      BY <1>5, DeleteFromDBRuns
    <3> QED
      BY <1>5, DeleteFromDBRuns
  <2>3. w2.due = w1.due
    BY <2>1, DeleteKeepsDue
  <2> QED
    BY <1>5, <2>2, <2>3
<1> HIDE DEF w2
<1>7. Good(w3) /\ Frame(w2, w3, {}) /\ w3.due = w.due /\ w3.stored = w2.stored
  <2>1. w2 \in World
    BY <1>6 DEF Good
  <2>2. Runs(w2, w3, {}) /\ w3.stored = w2.stored
    BY <1>3, <1>6, ResetMapRuns DEF w3
  <2>3. w3.due = w2.due
    BY <2>1, DeleteKeepsDue DEF w3
  <2> QED
    BY <1>6, <2>2, <2>3 DEF Runs
<1>8. Good(u) /\ Frame(w3, u, {}) /\ u.stored = w3.stored
  <2>1. w3 \in World /\ w3.due[s] > 0
    BY <1>1, <1>7 DEF Good
  <2>2. Same(w3, u)
    BY <1>3, <1>4, <2>1, TakeSame
  <2>3. Runs(w3, u, {})
    BY <1>7, <2>2, SameRuns
  <2> QED
    BY <2>2, <2>3 DEF Runs, Same
<1>9. Frame(w, u, {})
  BY <1>5, <1>6, <1>7, <1>8, FrameTransitive
<1>10. Fine(u)
  BY <1>2, <1>8, <1>9, FrameFine
<1>11. \A j \in Id \ {i} : u.stored[j] = w.stored[j]
  <2>1. w.stored \in [Id -> Dungeon \cup {None}]
    BY <1>2 DEF World
  <2> QED
    BY <1>6, <1>7, <1>8, <2>1
<1> QED
  BY <1>10, <1>11 DEF u, w

\* The tables forget.
Forgets(w, u) ==
  \E f, g : /\ u = [w EXCEPT !.rows = f, !.stored = g]
            /\ f \in [Player -> [Id -> Row \cup {None}]] /\ g \in [Id -> Dungeon \cup {None}]

\* The tables are no part of the frame.
LEMMA ForgetsFrame ==
  ASSUME NEW w, Good(w), NEW u, Forgets(w, u)
  PROVE  Good(u) /\ Frame(w, u, {}) /\ u.save = w.save
<1>1. u \in World /\ SameParts(w, u) /\ u.at = w.at /\ u.map = w.map /\ u.sound = w.sound
  BY DEF Good, World, SameParts, Forgets
<1>2. Good(u)
  BY <1>1, SameBinds DEF Good, SameParts
<1> QED
  BY <1>1, <1>2 DEF Frame, SavesStay, SameParts

\* The global reset of a raid keeps the inductive invariant.
LEMMA ResetAllStep ==
  ASSUME Fine(world), NEW d \in Raid, ResetAll(d)
  PROVE  Fine(world')
<1> DEFINE w == world
           Mine(i) == w.stored[i] = d
           stays(p, i) == LET r == w.rows[p][i] IN r # None /\ r.perm /\ r.lasts
           f == [p \in Player |-> [i \in Id |->
                  IF ~Mine(i) THEN w.rows[p][i]
                  ELSE IF stays(p, i)
                       THEN [w.rows[p][i] EXCEPT !.lasts = FALSE] ELSE None]]
           g == [i \in Id |->
                  IF Mine(i) /\ \A p \in Player : ~stays(p, i) THEN None ELSE w.stored[i]]
           w1 == [w EXCEPT !.rows = f, !.stored = g]
           S == {i \in Id : w.save[i] # None /\ w.save[i].dungeon = d}
           w2 == FoldSet(LAMBDA i, v : ResetSave(v, i), w1, S)
           u == FoldSet(LAMBDA i, v : ResetMap(v, <<d, i>>, TRUE), w2, Id)
<1>1. world' = u
  BY DEF ResetAll
<1>2. Fine(w) /\ Good(w) /\ w \in World /\ d \in Dungeon
  BY RaidAssumption DEF Fine, Good
<1> HIDE DEF w
<1>3. f \in [Player -> [Id -> Row \cup {None}]]
  <2>1. ASSUME NEW p \in Player, NEW i \in Id
        PROVE  (IF ~Mine(i) THEN w.rows[p][i]
                ELSE IF stays(p, i) THEN [w.rows[p][i] EXCEPT !.lasts = FALSE] ELSE None) \in Row \cup {None}
    <3>1. w.rows[p][i] \in Row \cup {None}
      BY <1>2 DEF World
    <3>2. stays(p, i) => [w.rows[p][i] EXCEPT !.lasts = FALSE] \in Row
      BY <3>1 DEF Row
    <3> HIDE DEF stays, Mine
    <3> QED
      BY <3>1, <3>2
  <2> HIDE DEF stays, Mine
  <2> QED
    BY <2>1
<1>4. g \in [Id -> Dungeon \cup {None}]
  <2>1. w.stored \in [Id -> Dungeon \cup {None}]
    BY <1>2 DEF World
  <2> HIDE DEF stays, Mine
  <2> QED
    BY <2>1
<1> HIDE DEF f, g
<1>5. Forgets(w, w1)
  BY <1>3, <1>4 DEF Forgets
<1> HIDE DEF w1
<1>6. Good(w1) /\ Frame(w, w1, {}) /\ w1.save = w.save
  BY <1>2, <1>5, ForgetsFrame
<1>7. S \subseteq Id /\ \A i \in S : w1.save[i] # None
  BY <1>6
<1> HIDE DEF S
<1>8. Runs(w1, w2, {})
  BY <1>6, <1>7, ResetSavesRuns
<1> HIDE DEF w2
<1>9. Runs(w2, u, {})
  BY <1>2, <1>8, ResetMapsRuns DEF Runs
<1> HIDE DEF u
<1>10. Good(u) /\ Frame(w, u, {})
  BY <1>6, <1>8, <1>9, FrameTransitive DEF Runs
<1>11. Fine(u)
  BY <1>2, <1>10, FrameFine
<1> QED
  BY <1>1, <1>11

-----------------------------------------------------------------------------
(* Entering *)

\* Nothing speaks against the instance for p: AddPlayerToMap takes p, and its
\* assertion holds.
Admits(w, p, s) ==
  /\ ~Rejected(w, p, s)
  /\ LET b == GetBoundInstance(w, p, s[1])
     IN b = None \/ b.perm \/ InGroup(w, p) \/ b.id = s[2]

\* Who may enter depends on the binds and on the group only.
LEMMA SameAdmits ==
  ASSUME NEW w, NEW u, NEW p, NEW s, u.own = w.own, u.grp = w.grp, u.members = w.members, Admits(w, p, s)
  PROVE  Admits(u, p, s)
BY DEF Admits, Rejected, GetBoundInstance, InGroup

\* The record without a bind that does not count any more.
Drops(w, p, d, login, v) == v = IF UsesGroupBind(w, p, d, login) THEN UnbindPlayer(w, p, d) ELSE w

\* What CreateInstanceForPlayer decides.  i is new if nothing tells the instance.
Chooses(w, p, d, login, v, i) ==
  /\ Drops(w, p, d, login, v)
  /\ IF Destination(w, p, d, login) = None THEN i \in Id ELSE i = Destination(w, p, d, login)

\* The id of a login is the one that GetInstanceSave would name, if it names one.
MayLogin(w, p, d, login) ==
  /\ login \in Id \cup {None}
  /\ login # None => /\ GetInstanceSave(w, p, d) \in {None, login}
                     /\ InGroup(w, p) => w.own[p][d] = None \/ w.own[p][d].perm

\* GetBoundInstance names the bind that the player has, or none.
LEMMA BoundIs ==
  ASSUME NEW w, Good(w), NEW p \in Player, NEW d \in Dungeon
  PROVE  LET b == GetBoundInstance(w, p, d)
         IN /\ b # None => b = w.own[p][d] /\ b.id \in Id /\ b.perm \in BOOLEAN
            /\ w.own[p][d] = None => b = None
<1>1. GetBoundInstance(w, p, d) \in {None, w.own[p][d]}
  BY DEF GetBoundInstance
<1>2. w.own[p][d] # None => w.own[p][d].id \in Id /\ w.own[p][d].perm \in BOOLEAN
  BY BoundTo DEF Bind
<1> QED
  BY <1>1, <1>2

\* CreateInstanceForPlayer picks an instance that AddPlayerToMap will not refuse.
LEMMA ChosenId ==
  ASSUME NEW w, Good(w), NEW p \in Player, NEW d \in Dungeon, NEW login, MayLogin(w, p, d, login),
         NEW v, NEW i, Chooses(w, p, d, login, v, i)
  PROVE  i \in Id /\ Moves(w, v, p) /\ v.at = w.at /\ Admits(v, p, <<d, i>>)
<1> DEFINE b == GetBoundInstance(w, p, d)
           g == w.grp[d]
           s == <<d, i>>
           t == Destination(w, p, d, login)
           perm == b # None /\ b.perm
           group == InGroup(w, p) /\ g # None
<1>1. /\ b # None => b = w.own[p][d] /\ b.id \in Id /\ b.perm \in BOOLEAN
      /\ w.own[p][d] = None => b = None
  BY BoundIs
<1>2. g # None => g.id \in Id
  BY GroupBoundTo
<1>3. /\ t = IF perm THEN b.id ELSE IF login # None THEN login
             ELSE IF group THEN g.id ELSE IF b # None THEN b.id ELSE None
      /\ UsesGroupBind(w, p, d, login) <=> ~perm /\ login = None /\ group
      /\ GetInstanceSave(w, p, d) = IF ~perm /\ group THEN g.id ELSE IF b # None THEN b.id ELSE None
  BY Zenon DEF Destination, UsesGroupBind, GetInstanceSave
<1>4. /\ v = IF UsesGroupBind(w, p, d, login) THEN UnbindPlayer(w, p, d) ELSE w
      /\ IF t = None THEN i \in Id ELSE i = t
  BY DEF Chooses, Drops
<1>5. s[1] = d /\ s[2] = i
  OBVIOUS
<1>6. \A x : Admits(x, p, s) <=>
        LET c == GetBoundInstance(x, p, d)
        IN /\ ~(c # None /\ c.id # i /\ (c.perm \/ InGroup(x, p)))
           /\ ~(/\ c = None \/ ~c.perm
                /\ InGroup(x, p) /\ x.grp[d] # None /\ x.grp[d].id # i)
           /\ c = None \/ c.perm \/ InGroup(x, p) \/ c.id = i
  BY <1>5 DEF Admits, Rejected
<1>7. /\ login \in Id \cup {None}
      /\ login # None => /\ GetInstanceSave(w, p, d) \in {None, login}
                         /\ InGroup(w, p) => w.own[p][d] = None \/ w.own[p][d].perm
  BY DEF MayLogin
<1> HIDE DEF t, s
<1>8. None \notin Id
  BY NoneAssumption
<1>9. CASE perm
  <2>1. t = b.id /\ v = w
    BY <1>3, <1>4, <1>9
  <2>2. i = b.id /\ i \in Id
    BY <1>1, <1>4, <1>8, <1>9, <2>1
  <2>3. Admits(w, p, s)
    BY <1>6, <1>9, <2>2
  <2> QED
    BY <2>1, <2>2, <2>3, MovesNothing DEF s
<1>10. CASE ~perm /\ login # None
  <2>1. t = login /\ v = w /\ i = login /\ i \in Id
    BY <1>3, <1>4, <1>7, <1>10
  <2>2. InGroup(w, p) => b = None
    BY <1>1, <1>7, <1>10
  <2>3. group => g.id = i
    BY <1>2, <1>3, <1>7, <1>8, <1>10, <2>1
  <2>4. ~group /\ b # None => b.id = i
    BY <1>1, <1>3, <1>7, <1>8, <1>10, <2>1
  <2>5. Admits(w, p, s)
    BY <1>6, <1>10, <2>2, <2>3, <2>4
  <2> QED
    BY <2>1, <2>5, MovesNothing DEF s
<1>11. CASE ~perm /\ login = None /\ group
  <2>1. t = g.id /\ v = UnbindPlayer(w, p, d)
    BY <1>3, <1>4, <1>11
  <2>2. i = g.id /\ i \in Id
    BY <1>2, <1>4, <1>8, <1>11, <2>1
  <2>3. /\ Good(v) /\ Elsewhere(w, v) /\ v.own = [w.own EXCEPT ![p][d] = None] /\ v.grp = w.grp
    BY <2>1, UnbindPlayerRuns
  <2>4. w.own \in [Player -> [Dungeon -> Bind \cup {None}]]
    BY DEF Good, World
  <2>5. v.own[p][d] = None /\ \A q \in Player \ {p}, e \in Dungeon : v.own[q][e] = w.own[q][e]
    BY <2>3, <2>4
  <2>6. Moves(w, v, p) /\ v.at = w.at
    BY <2>3, <2>5, ElsewhereMoves DEF Elsewhere
  <2>7. GetBoundInstance(v, p, d) = None
    BY <2>5 DEF GetBoundInstance
  <2>8. Admits(v, p, s)
    BY <1>6, <2>2, <2>3, <2>7
  <2> QED
    BY <2>2, <2>6, <2>8 DEF s
<1>12. CASE ~perm /\ login = None /\ ~group
  <2>1. v = w /\ t = IF b # None THEN b.id ELSE None
    BY <1>3, <1>4, <1>12
  <2>2. i \in Id /\ (b # None => i = b.id)
    BY <1>1, <1>4, <1>8, <2>1
  <2>3. Admits(w, p, s)
    BY <1>6, <1>12, <2>2
  <2> QED
    BY <2>1, <2>2, <2>3, MovesNothing DEF s
<1> QED
  BY <1>9, <1>10, <1>11, <1>12

\* The instance that CreateInstanceForPlayer chooses admits the player.
LEMMA Chosen ==
  ASSUME NEW w, Good(w), NEW p \in Player, NEW d \in Dungeon, NEW login, MayLogin(w, p, d, login),
         IdTypeOK, TakesId(w, p, d, login), NEW v, Drops(w, p, d, login, v)
  PROVE  LET s == SpotFor(w, p, d, login)
         IN s \in Spot /\ Moves(w, v, p) /\ v.at = w.at /\ Admits(v, p, s)
<1> DEFINE t == Destination(w, p, d, login)
           i == IF t = None THEN nextId ELSE t
<1>1. t = None => nextId \in Id
  BY MaxIdAssumption DEF TakesId, GenerateInstanceId, IdTypeOK, Id
<1>2. SpotFor(w, p, d, login) = <<d, i>>
  BY DEF SpotFor
<1>3. IF t = None THEN i \in Id ELSE i = t
  BY <1>1
<1> HIDE DEF i
<1>4. Chooses(w, p, d, login, v, i)
  BY <1>3 DEF Chooses
<1>5. i \in Id /\ Moves(w, v, p) /\ v.at = w.at /\ Admits(v, p, <<d, i>>)
  BY <1>4, ChosenId
<1>6. <<d, i>> \in Spot
  BY <1>5 DEF Spot
<1> QED
  BY <1>2, <1>5, <1>6

\* The player is put into the map, which may be new, and becomes one of the instance's.
LEMMA Entered ==
  ASSUME NEW v, Good(v), NEW p \in Player, NEW s \in Spot, Admits(v, p, s), NEW c \in BOOLEAN,
         NEW w1, w1 = CreateInstance(v, s), NEW x, x = [on |-> "world", spot |-> s, valid |-> c],
         NEW w2, Puts(w1, w2, p, x)
  PROVE  /\ Moves(v, w1, p) /\ w1.at = v.at
         /\ Moves(v, AddPlayerToMap(w2, p, s), p) /\ ~Rejected(w2, p, s)
         /\ AddPlayerToMap(w2, p, s).at[p] = x
         /\ AddPlayerToMap(w2, p, s).map[s] = "kept"
<1>1. Moves(v, w1, p) /\ SameParts(v, w1) /\ w1.at = v.at /\ w1.members = v.members
  BY CreateInstanceMoves
<1>2. x \in Place /\ Good(w1)
  BY <1>1 DEF Place, Moves
<1>3. Moves(w1, w2, p) /\ SameParts(w1, w2) /\ w2.at[p] = x /\ w2.members = w1.members /\ Good(w2)
  BY <1>2, PlaceMoves DEF Moves
<1>4. Admits(w2, p, s)
  BY <1>1, <1>3, SameAdmits DEF SameParts
<1> DEFINE u == AddPlayerToMap(w2, p, s)
<1>5. Moves(w2, u, p) /\ u.at = w2.at /\ u.map[s] = "kept"
  <2>1. LET b == GetBoundInstance(w2, p, s[1])
        IN b = None \/ b.perm \/ InGroup(w2, p) \/ b.id = s[2]
    BY <1>4 DEF Admits
  <2> QED
    BY <1>3, <2>1, AddPlayerToMapMoves
<1> HIDE DEF u
<1>6. Moves(v, u, p) /\ u.at[p] = x
  BY <1>1, <1>3, <1>5, MovesTransitive
<1>7. ~Rejected(w2, p, s)
  BY <1>4 DEF Admits
<1> QED
  BY <1>1, <1>5, <1>6, <1>7 DEF u

\* A player who moved to a place that is all right.
LEMMA MovesStep ==
  ASSUME NEW w, Fine(w), NEW u, NEW p \in Player, Moves(w, u, p), u.at[p].on # "offline",
         u.at[p].on = "world" /\ u.at[p].spot # None => u.map[u.at[p].spot] = "kept"
  PROVE  Fine(u) /\ Spares(w, u)
<1>1. Fine(u)
  BY MovesFine
<1> QED
  BY <1>1 DEF Spares, Moves

\* Where a player who enters is.
LEMMA PutsIn ==
  ASSUME NEW y \in Place, NEW s \in Spot
  PROVE  [y EXCEPT !.on = "world", !.spot = s] = [on |-> "world", spot |-> s, valid |-> y.valid]
<1> DEFINE z == [y EXCEPT !.on = "world", !.spot = s]
<1>1. z \in [on: {"world"}, spot: Spot, valid: BOOLEAN]
  BY DEF Place
<1>2. z.on = "world" /\ z.spot = s /\ z.valid = y.valid
  BY DEF Place
<1>3. z = [on |-> z.on, spot |-> z.spot, valid |-> z.valid]
  <2> HIDE DEF z
  <2> QED
    BY <1>1
<1> HIDE DEF z
<1> QED
  BY <1>2, <1>3 DEF z

\* Arrive keeps the inductive invariant.
LEMMA ArriveStep ==
  ASSUME Fine(world), PendingOK, IdTypeOK,
         NEW p \in Player, NEW d \in Dungeon, NEW full \in BOOLEAN, Arrive(p, d, full)
  PROVE  Fine(world') /\ Spares(world, world') /\ PendingOK'
<1> DEFINE w == world
           s == SpotFor(w, p, d, None)
           v == IF UsesGroupBind(w, p, d, None) THEN UnbindPlayer(w, p, d) ELSE w
           w1 == CreateInstanceForPlayer(w, p, d, None)
           w2 == [w1 EXCEPT !.at[p].on = "world", !.at[p].spot = s]
           w3 == AddPlayerToMap(w2, p, s)
           last == [w3 EXCEPT !.at[p].valid = @ /\ CheckInstanceValidity(w3, p)]
           x == [on |-> "world", spot |-> s, valid |-> w.at[p].valid]
<1>1. /\ w.at[p].on = "transit" \/ (w.at[p].on = "world" /\ w.at[p].spot = None)
      /\ TakesId(w, p, d, None)
      /\ IF full \/ BindMismatch(w1, p, s) THEN world' = w1 /\ pending' = pending
         ELSE IF Rejected(w2, p, s) THEN TRUE
         ELSE world' = last /\ pending' \in {pending, [pending EXCEPT ![p] = s[2]]}
  BY DEF Arrive
<1>2. Fine(w) /\ Good(w) /\ w \in World /\ w.at \in [Player -> Place]
  BY DEF Fine, Good, World
<1>3. MayLogin(w, p, d, None)
  BY DEF MayLogin
<1>4. Drops(w, p, d, None, v)
  BY DEF Drops
<1>5. w1 = CreateInstance(v, s)
  BY DEF CreateInstanceForPlayer
<1> HIDE DEF w, v, last, w3, w2, w1
<1>6. s \in Spot /\ Moves(w, v, p) /\ v.at = w.at /\ Admits(v, p, s)
  BY <1>1, <1>2, <1>3, <1>4, Chosen
<1> HIDE DEF s
<1>7. s[2] \in Id /\ s # None
  BY <1>6, NoneAssumption DEF Spot
<1>9. Good(v) /\ w.at[p].valid \in BOOLEAN
  BY <1>2, <1>6 DEF Moves, Place
<1>10. w1.at = w.at
  BY <1>5, <1>6, <1>9, CreateInstanceMoves
<1>11. Puts(w1, w2, p, x)
  <2>1. \A y \in Place : [y EXCEPT !.on = "world", !.spot = s] = [on |-> "world", spot |-> s, valid |-> y.valid]
    BY <1>6, PutsIn
  <2>3. w1.at[p] = w.at[p] /\ w.at[p] \in Place
    BY <1>2, <1>10
  <2>2. w2 = [w1 EXCEPT !.at[p] = [w1.at[p] EXCEPT !.on = "world", !.spot = s]]
    BY <1>2, <1>10 DEF w2
  <2> QED
    BY <2>1, <2>2, <2>3 DEF Puts
<1>12. /\ Moves(v, w1, p)
       /\ Moves(v, w3, p) /\ ~Rejected(w2, p, s) /\ w3.at[p] = x /\ w3.map[s] = "kept"
  BY <1>5, <1>6, <1>9, <1>11, Entered DEF w3
<1>13. Moves(w, w1, p) /\ Moves(w, w3, p) /\ Good(w3)
  BY <1>6, <1>12, MovesTransitive DEF Moves
<1>14. CASE full \/ BindMismatch(w1, p, s)
  <2>1. world' = w1 /\ pending' = pending
    BY <1>1, <1>14
  <2>2. w1.at[p].on # "offline" /\ ~(w1.at[p].on = "world" /\ w1.at[p].spot # None)
    BY <1>1, <1>10
  <2>3. Fine(w1) /\ Spares(w, w1)
    BY <1>2, <1>13, <2>2, MovesStep
  <2> QED
    BY <2>1, <2>3 DEF w, PendingOK
<1>15. CASE ~(full \/ BindMismatch(w1, p, s))
  <2> DEFINE c == w3.at[p].valid /\ CheckInstanceValidity(w3, p)
             y == [w3.at[p] EXCEPT !.valid = c]
  <2>1. world' = last /\ pending' \in {pending, [pending EXCEPT ![p] = s[2]]}
    BY <1>1, <1>12, <1>15
  <2>2. c \in BOOLEAN
    BY CheckIsBoolean
  <2>3. last = [w3 EXCEPT !.at[p].valid = c]
    BY DEF last
  <2> HIDE DEF c
  <2>4. y = [on |-> "world", spot |-> s, valid |-> c]
    BY <1>12
  <2>5. y \in Place
    BY <1>6, <2>2, <2>4 DEF Place
  <2>6. Puts(w3, last, p, y)
    BY <2>3 DEF Puts
  <2> HIDE DEF y
  <2>7. Moves(w3, last, p) /\ last.at[p] = y /\ last.map = w3.map
    BY <1>13, <2>5, <2>6, PlaceMoves
  <2>8. Moves(w, last, p)
    BY <1>13, <2>7, MovesTransitive
  <2>9. last.at[p].on # "offline" /\ last.at[p].spot = s /\ last.map[s] = "kept"
    BY <1>12, <2>4, <2>7
  <2>10. Fine(last) /\ Spares(w, last)
    BY <1>2, <2>8, <2>9, MovesStep
  <2>11. PendingOK'
    BY <1>7, <2>1 DEF PendingOK
  <2> QED
    BY <2>1, <2>10, <2>11 DEF w
<1> QED
  BY <1>14, <1>15

\* The rows of a character that logs in are loaded.
LEMMA LoadBoundInstancesMoves ==
  ASSUME NEW w, Fine(w), NEW p \in Player, w.at[p].on = "offline"
  PROVE  LET u == LoadBoundInstances(w, p)
         IN /\ Moves(w, u, p)
            /\ InGroup(u, p) => \A d \in Dungeon : u.own[p][d] = None \/ u.own[p][d].perm
<1> DEFINE x == [w.at[p] EXCEPT !.valid = TRUE]
           w0 == [w EXCEPT !.at[p].valid = TRUE]
           rows == {i \in Id : w.rows[p][i] # None}
           w1 == LoadBoundInstances(w, p)
<1>10. w1 = FoldSet(LAMBDA i, v : LoadRow(v, p, i), w0, rows)
  BY DEF LoadBoundInstances
<1>1. Good(w) /\ w \in World /\ \A d \in Dungeon : w.own[p][d] = None
  BY DEF Fine, Good, Unbound
<1>2. x \in Place
  <2>1. w.at[p] \in Place
    BY <1>1 DEF World
  <2> QED
    BY <2>1 DEF Place
<1>3. Puts(w, w0, p, x) /\ w0.rows = w.rows
  BY <1>1 DEF Puts, World
<1>11. \A i \in rows : w.rows[p][i] # None
  OBVIOUS
<1>12. rows \subseteq Id
  OBVIOUS
<1> HIDE DEF x, w0, rows, w1
<1>4. Moves(w, w0, p) /\ SameParts(w, w0) /\ Good(w0)
  <2>1. Moves(w, w0, p) /\ SameParts(w, w0)
    BY <1>1, <1>2, <1>3, PlaceMoves
  <2> QED
    BY <2>1 DEF Moves
<1>5. rows \subseteq Id /\ \A i \in rows : w0.rows[p][i] # None
  BY <1>3, <1>11, <1>12
<1>6. Loads(w0, w1, p)
  BY <1>4, <1>5, <1>10, LoadRowsLoad
<1>7. Moves(w0, w1, p)
  BY <1>6, ElsewhereMoves DEF Loads
<1>8. Moves(w, w1, p)
  BY <1>4, <1>7, MovesTransitive
<1>9. InGroup(w1, p) => \A d \in Dungeon : w1.own[p][d] = None \/ w1.own[p][d].perm
  <2>1. InGroup(w1, p) <=> InGroup(w0, p)
    BY <1>6 DEF Loads, Elsewhere, InGroup
  <2>2. \A d \in Dungeon : w0.own[p][d] = None
    BY <1>1, <1>4 DEF SameParts
  <2> QED
    BY <1>6, <2>1, <2>2 DEF Loads
<1> QED
  BY <1>8, <1>9 DEF w1

\* The character comes back outside.
LEMMA OutsideStep ==
  ASSUME NEW w, Fine(w), NEW p \in Player, NEW u, Moves(w, u, p)
  PROVE  Fine(PutOutside(u, p)) /\ Spares(w, PutOutside(u, p))
<1> DEFINE out == [on |-> "world", spot |-> None, valid |-> TRUE]
           y == PutOutside(u, p)
<1>1. out \in Place /\ out.on = "world" /\ out.spot = None
  BY DEF Place
<1>2. Puts(u, y, p, out)
  BY DEF Puts, PutOutside
<1> HIDE DEF out, y
<1>3. Good(u)
  BY DEF Moves
<1>4. Moves(u, y, p) /\ y.at[p] = out
  BY <1>1, <1>2, <1>3, PlaceMoves
<1>5. Moves(w, y, p)
  BY <1>4, MovesTransitive
<1>6. Fine(y) /\ Spares(w, y)
  BY <1>1, <1>4, <1>5, MovesStep
<1> QED
  BY <1>6 DEF y

\* AddPlayerToMap in HandlePlayerLogin, once it is settled which instance it is.
LEMMA LoginToStep ==
  ASSUME Fine(world), PendingOK, NEW p \in Player, NEW v, Moves(world, v, p),
         NEW s \in Spot, Admits(v, p, s), NEW w, w = CreateInstance(v, s),
         NEW full \in BOOLEAN, LoginTo(w, p, s, full)
  PROVE  Fine(world') /\ Spares(world, world') /\ PendingOK'
<1> DEFINE w1 == [w EXCEPT !.at[p].on = "world", !.at[p].spot = s]
           c == CheckInstanceValidity(w1, p)
           w2 == [w1 EXCEPT !.at[p].valid = c]
           x == [on |-> "world", spot |-> s, valid |-> c]
           u == AddPlayerToMap(w2, p, s)
<1>1. IF full \/ BindMismatch(w, p, s) THEN world' = PutOutside(w, p) /\ pending' = pending
      ELSE IF Rejected(w2, p, s) THEN TRUE
      ELSE world' = u /\ pending' \in {pending, [pending EXCEPT ![p] = s[2]]}
  BY DEF LoginTo
<1>2. s[2] \in Id /\ s # None /\ c \in BOOLEAN
  BY CheckIsBoolean, NoneAssumption DEF Spot
<1>3. Good(v)
  BY DEF Moves
<1>4. Moves(v, w, p)
  BY <1>3, CreateInstanceMoves
<1>5. Moves(world, w, p)
  BY <1>4, MovesTransitive
<1> HIDE DEF c
<1>6. Puts(w, w2, p, x)
  <2>1. w.at \in [Player -> Place] /\ w \in World
    BY <1>4 DEF Moves, Good, World
  <2>2. [w.at[p] EXCEPT !.on = "world", !.spot = s] = [on |-> "world", spot |-> s, valid |-> w.at[p].valid]
    BY <2>1, PutsIn
  <2>3. w1 = [w EXCEPT !.at[p] = [on |-> "world", spot |-> s, valid |-> w.at[p].valid]]
    BY <2>1, <2>2
  <2>4. w1.at[p] = [on |-> "world", spot |-> s, valid |-> w.at[p].valid]
    <3> HIDE DEF w1
    <3>1. w1.at = [w.at EXCEPT ![p] = [on |-> "world", spot |-> s, valid |-> w.at[p].valid]]
      BY <2>1, <2>3 DEF World
    <3> QED
      BY <2>1, <3>1
  <2>5. w2 = [w1 EXCEPT !.at[p] = [w1.at[p] EXCEPT !.valid = c]]
    OBVIOUS
  <2> HIDE DEF w1
  <2>6. w2 = [w1 EXCEPT !.at[p] = x]
    BY <2>4, <2>5
  <2>7. w2 = [w EXCEPT !.at[p] = x]
    <3> DEFINE y == [on |-> "world", spot |-> s, valid |-> w.at[p].valid]
    <3> HIDE DEF x, y, w2
    <3> QED
      BY <2>1, <2>3, <2>6 DEF World
  <2> QED
    BY <2>7 DEF Puts
<1> HIDE DEF u, w2, w1
<1>7. Moves(v, u, p) /\ ~Rejected(w2, p, s) /\ u.at[p] = x /\ u.map[s] = "kept"
  BY <1>2, <1>3, <1>6, Entered DEF u
<1>8. CASE full \/ BindMismatch(w, p, s)
  <2>1. world' = PutOutside(w, p) /\ pending' = pending
    BY <1>1, <1>8
  <2>2. Fine(PutOutside(w, p)) /\ Spares(world, PutOutside(w, p))
    BY <1>5, OutsideStep
  <2> QED
    BY <2>1, <2>2 DEF PendingOK
<1>9. CASE ~(full \/ BindMismatch(w, p, s))
  <2>1. world' = u /\ pending' \in {pending, [pending EXCEPT ![p] = s[2]]}
    BY <1>1, <1>7, <1>9
  <2>2. Moves(world, u, p)
    BY <1>7, MovesTransitive
  <2>3. Fine(u) /\ Spares(world, u)
    BY <1>7, <2>2, MovesStep
  <2>4. PendingOK'
    BY <1>2, <2>1 DEF PendingOK
  <2> QED
    BY <2>1, <2>3, <2>4
<1> QED
  BY <1>8, <1>9

\* LoginPlayer keeps the inductive invariant.
LEMMA LoginPlayerStep ==
  ASSUME Fine(world), PendingOK, IdTypeOK, NEW p \in Player, NEW full \in BOOLEAN, LoginPlayer(p, full)
  PROVE  Fine(world') /\ Spares(world, world') /\ PendingOK'
<1> DEFINE w == LoadBoundInstances(world, p)
           spot == world.at[p].spot
           d == spot[1]
           login == LoginId(w, p, spot)
           v == IF UsesGroupBind(w, p, d, login) THEN UnbindPlayer(w, p, d) ELSE w
           s == SpotFor(w, p, d, login)
           u == CreateInstanceForPlayer(w, p, d, login)
<1>1. /\ world.at[p].on = "offline"
      /\ \/ world' = PutOutside(w, p) /\ pending' = pending
         \/ spot # None /\ TakesId(w, p, d, login) /\ LoginTo(u, p, s, full)
  BY DEF LoginPlayer
<1>2. /\ Moves(world, w, p) /\ Good(w)
      /\ InGroup(w, p) => \A e \in Dungeon : w.own[p][e] = None \/ w.own[p][e].perm
  <2>1. /\ Moves(world, w, p)
        /\ InGroup(w, p) => \A e \in Dungeon : w.own[p][e] = None \/ w.own[p][e].perm
    BY <1>1, LoadBoundInstancesMoves
  <2> QED
    BY <2>1 DEF Moves
<1> HIDE DEF w
<1>3. CASE world' = PutOutside(w, p) /\ pending' = pending
  <2>1. Fine(PutOutside(w, p)) /\ Spares(world, PutOutside(w, p))
    BY <1>2, OutsideStep
  <2> QED
    BY <1>3, <2>1 DEF PendingOK
<1>4. CASE spot # None /\ TakesId(w, p, d, login) /\ LoginTo(u, p, s, full)
  <2>1. d \in Dungeon /\ spot[2] \in Id
    BY <1>4, SpotOf DEF Fine, Good
  <2>2. MayLogin(w, p, d, login)
    BY <1>2, <2>1 DEF MayLogin, LoginId
  <2>3. Drops(w, p, d, login, v)
    BY DEF Drops
  <2>5. u = CreateInstance(v, s)
    BY DEF CreateInstanceForPlayer
  <2> HIDE DEF d, login, u, v
  <2>4. s \in Spot /\ Moves(w, v, p) /\ Admits(v, p, s)
    BY <1>2, <1>4, <2>1, <2>2, <2>3, Chosen
  <2> HIDE DEF s
  <2>6. Moves(world, v, p)
    BY <1>2, <2>4, MovesTransitive
  <2> QED
    BY <1>4, <2>4, <2>5, <2>6, LoginToStep
<1> QED
  BY <1>1, <1>3, <1>4

\* What a step may do to the tables and to the bound.
LEMMA ArriveOrLogin ==
  ASSUME Fine(world), PendingOK, IdTypeOK, NEW p \in Player, NEW full \in BOOLEAN,
         LoginPlayer(p, full) \/ \E d \in Dungeon : Arrive(p, d, full)
  PROVE  Fine(world') /\ Spares(world, world') /\ PendingOK'
BY ArriveStep, LoginPlayerStep

\* A step of one player.
LEMMA PlayerStepKeeps ==
  ASSUME Fine(world), PendingOK, IdTypeOK, NEW p \in Player, PlayerStep(p)
  PROVE  Fine(world') /\ Spares(world, world') /\ PendingOK'
<1>1. CASE TeleportTo(p)
  BY <1>1, TeleportToStep, Zenon DEF TeleportTo, PendingOK
<1>2. CASE ArriveOutside(p)
  BY <1>2, ArriveOutsideStep DEF ArriveOutside, PendingOK
<1>3. CASE LogoutPlayer(p)
  <2>1. pending' = pending
    BY <1>3, Zenon DEF LogoutPlayer
  <2> QED
    BY <1>3, <2>1, LogoutPlayerStep DEF PendingOK
<1>4. CASE ChangeLeader(p)
  <2>1. pending' = pending
    BY <1>4 DEF ChangeLeader
  <2> QED
    BY <1>4, <2>1, ChangeLeaderStep DEF PendingOK
<1>5. CASE HandleResetInstances(p)
  <2>1. pending' = pending
    BY <1>5 DEF HandleResetInstances
  <2> QED
    BY <1>5, <2>1, HandleResetInstancesStep DEF PendingOK
<1>6. CASE Accept(p) \/ PendingExpires(p)
  <2>1. pending' = [pending EXCEPT ![p] = None]
    BY <1>6 DEF Accept, PendingExpires
  <2>2. PendingOK'
    BY <2>1 DEF PendingOK
  <2> QED
    BY <1>6, <2>2, AcceptStep DEF PendingOK
<1>7. CASE Decline(p)
  <2>1. pending' = [pending EXCEPT ![p] = None]
    BY <1>7 DEF Decline
  <2>2. PendingOK'
    BY <2>1 DEF PendingOK
  <2> QED
    BY <1>7, <2>2, DeclineStep
<1>8. CASE \E full \in BOOLEAN : LoginPlayer(p, full) \/ \E d \in Dungeon : Arrive(p, d, full)
  BY <1>8, ArriveOrLogin
<1>9. CASE \E q \in Player : CreateGroup(p, q)
  <2>1. pending' = pending
    BY <1>9 DEF CreateGroup
  <2> QED
    BY <1>9, <2>1, CreateGroupStep DEF PendingOK
<1>10. CASE \E D \in {Normal, Raid} : HandleSetDifficulty(p, D)
  <2>1. PICK D \in {Normal, Raid} : HandleSetDifficulty(p, D)
    BY <1>10
  <2>2. D \subseteq Dungeon
    BY RaidAssumption DEF Normal
  <2>3. pending' = pending
    BY <2>1 DEF HandleSetDifficulty
  <2> QED
    BY <2>1, <2>2, <2>3, HandleSetDifficultyStep DEF PendingOK
<1> QED
  BY <1>1, <1>2, <1>3, <1>4, <1>5, <1>6, <1>7, <1>8, <1>9, <1>10 DEF PlayerStep

\* The resets that nobody asks for.
Reset == (\E s \in Normal \X Id : ResetInstance(s[1], s[2])) \/ (\E d \in Raid : ResetAll(d))

\* Every step keeps what the handlers rely on, and but for these resets it spares the
\* instances with players.
LEMMA NextKeeps ==
  ASSUME Fine(world), PendingOK, IdTypeOK, Next
  PROVE  Fine(world') /\ PendingOK' /\ (Spares(world, world') \/ Reset)
<1>1. CASE \E p \in Player : PlayerStep(p)
  BY <1>1, PlayerStepKeeps
<1>2. CASE Disband
  <2>1. pending' = pending
    BY <1>2 DEF Disband
  <2> QED
    BY <1>2, <2>1, DisbandStep DEF PendingOK
<1>3. ASSUME NEW s \in Spot, DestroyInstance(s) PROVE Fine(world') /\ PendingOK' /\ Spares(world, world')
  <2>1. pending' = pending
    BY <1>3 DEF DestroyInstance
  <2> QED
    BY <1>3, <2>1, DestroyInstanceStep DEF PendingOK
<1>4. ASSUME NEW s \in Spot, KillBoss(s) PROVE Fine(world') /\ PendingOK' /\ Spares(world, world')
  <2>1. pending' = pending
    BY <1>4 DEF KillBoss
  <2> QED
    BY <1>4, <2>1, KillBossStep DEF PendingOK
<1>5. ASSUME NEW s \in Normal \X Id, ResetInstance(s[1], s[2]) PROVE Fine(world') /\ PendingOK'
  <2>1. pending' = pending
    BY <1>5 DEF ResetInstance
  <2>2. s[1] \in Normal /\ s[2] \in Id
    OBVIOUS
  <2> QED
    BY <1>5, <2>1, <2>2, ResetInstanceStep DEF PendingOK
<1>6. ASSUME NEW d \in Raid, ResetAll(d) PROVE Fine(world') /\ PendingOK'
  <2>1. pending' = pending
    BY <1>6 DEF ResetAll
  <2> QED
    BY <1>6, <2>1, ResetAllStep DEF PendingOK
<1>7. CASE CreateNewBattleground \/ \E B \in SUBSET games : DestroyBattlegrounds(B)
  <2>1. world' = world /\ pending' = pending
    BY <1>7 DEF CreateNewBattleground, DestroyBattlegrounds
  <2> QED
    BY <2>1 DEF PendingOK, Spares
<1> QED
  BY <1>1, <1>2, <1>3, <1>4, <1>5, <1>6, <1>7 DEF Next, Reset

\* Only entries count as visits.
LEMMA VisitsBounded ==
  ASSUME visits \in 0..MaxVisits, [Next]_vars
  PROVE  visits' \in 0..MaxVisits
<1>1. visits' = visits \/ (visits < MaxVisits /\ visits' = visits + 1)
  <2>1. ASSUME NEW p \in Player, PlayerStep(p)
        PROVE  visits' = visits \/ (visits < MaxVisits /\ visits' = visits + 1)
    <3>1. CASE TeleportTo(p) \/ ArriveOutside(p) \/ LogoutPlayer(p) \/ ChangeLeader(p)
      BY <3>1, Zenon DEF TeleportTo, ArriveOutside, LogoutPlayer, ChangeLeader
    <3>2. CASE HandleResetInstances(p) \/ Accept(p) \/ Decline(p) \/ PendingExpires(p)
      BY <3>2 DEF HandleResetInstances, Accept, Decline, PendingExpires
    <3>3. ASSUME NEW full \in BOOLEAN, LoginPlayer(p, full)
          PROVE  visits' = visits \/ (visits < MaxVisits /\ visits' = visits + 1)
      BY <3>3 DEF LoginPlayer
    <3>4. ASSUME NEW full \in BOOLEAN, NEW d \in Dungeon, Arrive(p, d, full)
          PROVE  visits < MaxVisits /\ visits' = visits + 1
      BY <3>4 DEF Arrive
    <3>5. ASSUME NEW q \in Player, CreateGroup(p, q) PROVE visits' = visits
      BY <3>5 DEF CreateGroup
    <3>6. ASSUME NEW D, HandleSetDifficulty(p, D) PROVE visits' = visits
      BY <3>6 DEF HandleSetDifficulty
    <3> QED
      BY <2>1, <3>1, <3>2, <3>3, <3>4, <3>5, <3>6, Zenon DEF PlayerStep
  <2>2. Disband => visits' = visits
    BY DEF Disband
  <2>3. \A s \in Spot : DestroyInstance(s) \/ KillBoss(s) => visits' = visits
    BY Zenon DEF DestroyInstance, KillBoss
  <2>4. Reset => visits' = visits
    BY Zenon DEF Reset, ResetInstance, ResetAll
  <2>5. CreateNewBattleground \/ (\E B \in SUBSET games : DestroyBattlegrounds(B)) => visits' = visits
    BY DEF CreateNewBattleground, DestroyBattlegrounds
  <2>6. UNCHANGED vars => visits' = visits
    BY DEF vars
  <2> QED
    BY <2>1, <2>2, <2>3, <2>4, <2>5, <2>6 DEF Next, Reset
<1>2. MaxVisits \in Nat
  BY BoundsAssumption
<1> QED
  BY <1>1, <1>2

-----------------------------------------------------------------------------
(* What holds in every state *)

\* The first world: nobody is in a dungeon, and there are no saves, binds or rows.
LEMMA InitFine == Init => Fine(world)
<1> SUFFICES ASSUME Init
             PROVE  Fine(world)
  OBVIOUS
<1> DEFINE save == [i \in Id |-> None]
           own == [p \in Player |-> [d \in Dungeon |-> None]]
           grp == [d \in Dungeon |-> None]
           rows == [p \in Player |-> [i \in Id |-> None]]
           stored == [i \in Id |-> None]
           map == [s \in Spot |-> "none"]
           due == [s \in Normal \X Id |-> 0]
           at == [p \in Player |-> [on |-> "world", spot |-> None, valid |-> TRUE]]
<1>1. world = [save |-> save, own |-> own, grp |-> grp, rows |-> rows, stored |-> stored, map |-> map,
               due |-> due, at |-> at, members |-> {}, leader |-> None, sound |-> TRUE]
  BY DEF Init
<1>2. /\ save \in [Id -> Save \cup {None}] /\ own \in [Player -> [Dungeon -> Bind \cup {None}]]
      /\ grp \in [Dungeon -> GroupBind \cup {None}] /\ rows \in [Player -> [Id -> Row \cup {None}]]
      /\ stored \in [Id -> Dungeon \cup {None}] /\ map \in [Spot -> {"none", "kept", "unloading"}]
  OBVIOUS
<1>3. due \in [Normal \X Id -> 0..MaxDue]
  BY BoundsAssumption
<1>4. at \in [Player -> Place]
  BY DEF Place
<1>5. /\ \A i \in Id : save[i] = None
      /\ \A p \in Player, d \in Dungeon : own[p][d] = None
      /\ \A d \in Dungeon : grp[d] = None
      /\ \A p \in Player : at[p].on = "world" /\ at[p].spot = None
  OBVIOUS
<1> HIDE DEF save, own, grp, rows, stored, map, due, at
<1>6. /\ world \in World /\ world.sound /\ world.save = save /\ world.own = own /\ world.grp = grp
      /\ world.at = at
  BY <1>1, <1>2, <1>3, <1>4 DEF World
<1>7. Match(world)
  BY <1>5, <1>6 DEF Match, Fits, OwnFit, GroupFits, Listed
<1>8. Inside(world) /\ Unbound(world)
  BY <1>5, <1>6 DEF Inside, Unbound
<1> QED
  BY <1>6, <1>7, <1>8 DEF Fine, Good

\* The inductive invariant.
WorldInv == Fine(world) /\ PendingOK /\ visits \in 0..MaxVisits

\* It holds: what one handler leaves behind is what every other one needs.
LEMMA WorldInvHolds == Spec => []WorldInv
<1>1. Init => WorldInv
  <2> SUFFICES ASSUME Init
               PROVE  WorldInv
    OBVIOUS
  <2>1. Fine(world)
    BY InitFine
  <2>2. PendingOK /\ visits \in 0..MaxVisits
    BY BoundsAssumption DEF Init, PendingOK
  <2> QED
    BY <2>1, <2>2 DEF WorldInv
<1>2. InstInv /\ WorldInv /\ [Next]_vars => WorldInv'
  <2> SUFFICES ASSUME InstInv, WorldInv, [Next]_vars
               PROVE  WorldInv'
    OBVIOUS
  <2>1. Fine(world) /\ PendingOK /\ IdTypeOK /\ visits \in 0..MaxVisits
    BY DEF WorldInv, InstInv, IdInv
  <2>2. Fine(world') /\ PendingOK'
    <3>1. CASE Next
      BY <2>1, <3>1, NextKeeps
    <3>2. CASE UNCHANGED vars
      BY <2>1, <3>2 DEF vars, PendingOK
    <3> QED
      BY <3>1, <3>2
  <2>3. visits' \in 0..MaxVisits
    BY <2>1, VisitsBounded
  <2> QED
    BY <2>2, <2>3 DEF WorldInv
<1> QED
  BY <1>1, <1>2, InstancesKeepIds, PTL DEF Spec

\* The record of saves, binds, rows, maps and places, the pending binds and the ids
\* keep their types through every handler.
THEOREM TypeCorrect == Spec => []TypeOK
<1>1. WorldInv /\ InstInv => TypeOK
  BY DEF WorldInv, InstInv, IdInv, Fine, Good, PendingOK, TypeOK
<1> QED
  BY <1>1, WorldInvHolds, InstancesKeepIds, PTL

\* Binds and saves agree after any sequence of entries, logouts, group changes,
\* permanent binds and resets: no bind points to a save that is gone, of another
\* dungeon or that does not list the player, which is what ~InstanceSave asserts.
THEOREM BindsMatch == Spec => []BindsMatchSaves
<1>1. WorldInv => BindsMatchSaves
  <2> SUFFICES ASSUME Good(world)
               PROVE  BindsMatchSaves
    BY DEF WorldInv, Fine
  <2>1. ASSUME NEW p \in Player, NEW d \in Dungeon
        PROVE  LET b == world.own[p][d] IN
                 b # None => /\ world.save[b.id] # None
                             /\ world.save[b.id].dungeon = d
                             /\ p \in world.save[b.id].players
    BY BoundTo
  <2>2. ASSUME NEW d \in Dungeon
        PROVE  LET b == world.grp[d] IN
                 b # None => /\ world.save[b.id] # None
                             /\ world.save[b.id].dungeon = d /\ world.save[b.id].group
    BY GroupBoundTo
  <2>3. ASSUME NEW i \in Id
        PROVE  LET s == world.save[i] IN s # None =>
                 /\ \A p \in s.players : world.own[p][s.dungeon] # None /\ world.own[p][s.dungeon].id = i
                 /\ s.group => world.grp[s.dungeon] # None /\ world.grp[s.dungeon].id = i
    BY DEF Good, Match, Fits, Listed
  <2> QED
    BY <2>1, <2>2, <2>3 DEF BindsMatchSaves
<1> QED
  BY <1>1, WorldInvHolds, PTL

\* The ASSERTs of AddPlayerToMap and _ResetSave never fail, and CreateInstanceForPlayer
\* never picks an instance that AddPlayerToMap refuses because of a bind.
THEOREM NoAssertionFails == Spec => []AssertionsHold
<1>1. WorldInv => AssertionsHold
  BY DEF WorldInv, Fine, AssertionsHold
<1> QED
  BY <1>1, WorldInvHolds, PTL

\* MapInstanced never destroys a map with somebody inside.
THEOREM NobodyUnloaded == Spec => []UnloadsNobody
<1>1. WorldInv => UnloadsNobody
  BY DEF WorldInv, Fine, Inside, UnloadsNobody
<1> QED
  BY <1>1, WorldInvHolds, PTL

\* What m_canReset is worth: a permanent bind of somebody who is connected closes the
\* save to resets by players and groups, whoever made or loaded the save and in
\* whatever order the others came.  For players who are offline nothing of the kind
\* holds (PermanentIsProtected).
ConnectedAreProtected ==
  \A p \in Player, d \in Dungeon : LET b == world.own[p][d] IN
    b # None /\ b.perm => ~world.save[b.id].canReset

\* No bind that a connected player holds for good points to a save that can be reset.
THEOREM ConnectedProtected == Spec => []ConnectedAreProtected
<1>1. WorldInv => ConnectedAreProtected
  <2> SUFFICES ASSUME Good(world), NEW p \in Player, NEW d \in Dungeon
               PROVE  LET b == world.own[p][d] IN b # None /\ b.perm => ~world.save[b.id].canReset
    BY DEF WorldInv, Fine, ConnectedAreProtected
  <2> QED
    BY BoundTo
<1> QED
  BY <1>1, WorldInvHolds, PTL

\* Players, groups, difficulty changes and disbanding never delete an instance from the
\* tables under players in its map; only the scheduled and the global reset do.
THEOREM NeverUnderPlayers == Spec => NotUnderPlayers
<1> DEFINE Allowed == \A i \in Id :
             /\ world.stored[i] # None /\ world'.stored[i] = None
             /\ world.save[i] # None /\ HavePlayers(world, <<world.save[i].dungeon, i>>)
             => \/ \E d \in Normal : ResetInstance(d, i)
                \/ \E d \in Raid : ResetAll(d)
<1>1. InstInv /\ WorldInv /\ [Next]_vars => [Allowed]_vars
  <2> SUFFICES ASSUME InstInv, WorldInv, Next
               PROVE  Allowed
    OBVIOUS
  <2>1. Fine(world) /\ PendingOK /\ IdTypeOK
    BY DEF WorldInv, InstInv, IdInv
  <2>2. Spares(world, world') \/ Reset
    BY <2>1, NextKeeps
  <2>3. CASE Spares(world, world')
    BY <2>3 DEF Spares
  <2>4. CASE \E s \in Normal \X Id : ResetInstance(s[1], s[2])
    <3>1. PICK s \in Normal \X Id : ResetInstance(s[1], s[2])
      BY <2>4
    <3>2. s[1] \in Normal /\ s[2] \in Id
      OBVIOUS
    <3>3. \A j \in Id \ {s[2]} : world'.stored[j] = world.stored[j]
      BY <2>1, <3>1, <3>2, ResetInstanceStep
    <3> QED
      BY <3>1, <3>2, <3>3
  <2>5. CASE \E d \in Raid : ResetAll(d)
    BY <2>5
  <2> QED
    BY <2>2, <2>3, <2>4, <2>5 DEF Reset
<1> QED
  BY <1>1, WorldInvHolds, InstancesKeepIds, PTL DEF Spec, NotUnderPlayers
=============================================================================
