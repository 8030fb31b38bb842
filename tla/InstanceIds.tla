----------------------------- MODULE InstanceIds -----------------------------
(***************************************************************************)
(* MapManager's ids of instances: a bitset of free ids with a hint for the *)
(* next one.  The world thread generates ids.  It frees one when an        *)
(* instance is reset, and map threads free the ids of the battlegrounds    *)
(* they destroy, several at a time and without a lock.                     *)
(*                                                                         *)
(* Each method is a fragment that the actions of Instances conjoin.        *)
(***************************************************************************)
EXTENDS Integers, FiniteSets

CONSTANT MaxId            \* bound: the largest id that is generated

ASSUME MaxIdAssumption == MaxId \in Nat \ {0}

VARIABLES freeIds,        \* _freeInstanceIds, as the set of the bits that are set
          size,           \* _freeInstanceIds.size()
          nextId,         \* _nextInstanceId
          issued          \* history: generated or registered, and not freed since

idVars == <<freeIds, size, nextId, issued>>

Id == 1..MaxId

Least(S) == CHOOSE x \in S : \A y \in S : x <= y

\* InitInstanceIds and RegisterInstanceId for the ids R of the instance table,
\* which come in ascending order: the hint ends at the first gap.
InitInstanceIds(R) ==
  LET top == CHOOSE n \in 0..MaxId : (n = 0 \/ n \in R) /\ \A r \in R : r <= n
  IN /\ size = top + 2
     /\ freeIds = (1..(top + 1)) \ R
     /\ nextId = Least((1..(top + 1)) \ R)
     /\ issued = R

\* Mutant: the bit of the generated id stays set.
GenerateInstanceId_Bug ==
  LET later == {f \in freeIds : f > nextId}
  IN /\ nextId < size /\ nextId <= MaxId
     /\ issued' = issued \cup {nextId}
     /\ freeIds' = freeIds
     /\ IF later = {} THEN size' = size + 1 /\ nextId' = size
                      ELSE size' = size /\ nextId' = Least(later)

\* The caller takes nextId.  The next one is the lowest free one above it, or
\* the bitset grows by a free bit.
GenerateInstanceId ==
  LET later == {f \in freeIds : f > nextId}
  IN /\ nextId < size /\ nextId <= MaxId
     /\ issued' = issued \cup {nextId}
     /\ IF later = {}
        THEN /\ size' = size + 1
             /\ freeIds' = (freeIds \ {nextId}) \cup {size}
             /\ nextId' = size
        ELSE /\ size' = size
             /\ freeIds' = freeIds \ {nextId}
             /\ nextId' = Least(later)

\* FreeInstanceId for each id of B, by threads that do not synchronise: of the
\* writes to the hint and to a block of the bitset any may be lost but the last.
FreeInstanceIds(B) ==
  /\ \A i \in B : i < size
  /\ \E N, F \in (SUBSET B) \ {{}} :
       /\ nextId' = Least(N \cup {nextId})
       /\ freeIds' = freeIds \cup F
  /\ issued' = issued \ B
  /\ UNCHANGED size

FreeInstanceId(i) == FreeInstanceIds({i})

KeepIds == UNCHANGED idVars

-----------------------------------------------------------------------------
\* What the ids promise whoever uses them.

IdInit == \E R \in SUBSET Id : InitInstanceIds(R)

IdNext == GenerateInstanceId \/ \E B \in (SUBSET Id) \ {{}} : FreeInstanceIds(B)

IdSpec == IdInit /\ [][IdNext]_idVars

IdTypeOK ==
  /\ size \in 2..(MaxId + 2)
  /\ nextId \in 1..(MaxId + 1)
  /\ freeIds \subseteq 1..(MaxId + 1)
  /\ issued \subseteq Id

\* The assertion of GenerateInstanceId, and: neither the hint nor a free bit is
\* ever an id that was given out and not freed, whatever writes the racing map
\* threads lose.
NothingIssuedTwice ==
  /\ nextId < size
  /\ nextId \notin issued
  /\ freeIds \cap issued = {}
  /\ \A i \in freeIds \cup issued : i < size
=============================================================================
