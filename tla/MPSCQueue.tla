------------------------------ MODULE MPSCQueue ------------------------------
(***************************************************************************)
(* The lock-free queue with many producers and one consumer that carries   *)
(* outgoing packets: a linked list that starts at a node whose item has    *)
(* been consumed.  A producer swaps the head and links its node to the     *)
(* old head afterwards, so that for a while the list is cut in two.        *)
(*                                                                         *)
(* Nodes are identified with their items; an item is queued once.  The     *)
(* actions are fragments for the modules that use the queue.               *)
(***************************************************************************)
EXTENDS Integers, Sequences

CONSTANTS Producer, Item, Stub, Null

ASSUME NodeAssumption == Stub \notin Item /\ Null \notin Item \cup {Stub}

VARIABLES head,       \* _head
          tail,       \* _tail
          next,       \* next[n]: Node::Next, Null if it is nullptr
          freed,      \* the nodes that were deleted
          link,       \* link[p]: the node p has swapped out and the one it put there
          order,      \* history: the nodes in the order of the exchanges
          taken       \* history: how many items were dequeued

queueVars == <<head, tail, next, freed, link, order, taken>>

Node == Item \cup {Stub}
Idle == <<>>

QueueInit ==
  /\ head = Stub /\ tail = Stub
  /\ next = [n \in Node |-> Null]
  /\ freed = {}
  /\ link = [p \in Producer |-> Idle]
  /\ order = <<Stub>> /\ taken = 0

\* Enqueue up to the exchange
Exchange(p, x) ==
  /\ link[p] = Idle
  /\ \A i \in DOMAIN order : order[i] # x
  /\ link' = [link EXCEPT ![p] = <<head, x>>]
  /\ head' = x
  /\ order' = Append(order, x)
  /\ UNCHANGED <<tail, next, freed, taken>>

\* The rest of Enqueue
Link(p) ==
  /\ link[p] # Idle
  /\ next' = [next EXCEPT ![link[p][1]] = link[p][2]]
  /\ link' = [link EXCEPT ![p] = Idle]
  /\ UNCHANGED <<head, tail, freed, order, taken>>

\* Enqueue where no other thread knows the queue yet
EnqueueAlone(p, x) ==
  /\ link[p] = Idle
  /\ \A i \in DOMAIN order : order[i] # x
  /\ next' = [next EXCEPT ![head] = x]
  /\ head' = x
  /\ order' = Append(order, x)
  /\ UNCHANGED <<tail, freed, link, taken>>

\* Mutant: the node that was just reached is deleted.
Dequeue_Bug ==
  /\ next[tail] # Null
  /\ tail' = next[tail]
  /\ freed' = freed \cup {next[tail]}
  /\ taken' = taken + 1
  /\ UNCHANGED <<head, next, link, order>>

\* Dequeue that returns true, with the item next[tail]
Dequeue ==
  /\ next[tail] # Null
  /\ tail' = next[tail]
  /\ freed' = freed \cup {tail}
  /\ taken' = taken + 1
  /\ UNCHANGED <<head, next, link, order>>

\* Where it returns false although the queue need not be empty
NothingToDequeue == next[tail] = Null

QueueNext ==
  \/ \E p \in Producer : Link(p) \/ \E x \in Item : Exchange(p, x) \/ EnqueueAlone(p, x)
  \/ Dequeue

QueueSpec == QueueInit /\ [][QueueNext]_queueVars

-----------------------------------------------------------------------------
QueueTypeOK ==
  /\ head \in Node /\ tail \in Node
  /\ next \in [Node -> Item \cup {Null}]
  /\ freed \subseteq Node
  /\ link \in [Producer -> {Idle} \cup (Node \X Item)]
  /\ order \in Seq(Node)
  /\ taken \in Nat

\* Items come out in the order of the exchanges, none twice and none left out, and
\* no thread is left with a deleted node: not a producer between its exchange and
\* its store, whose old head the consumer may have reached, nor the consumer.
QueueIsSound ==
  /\ taken < Len(order) /\ tail = order[taken + 1]
  /\ head \notin freed /\ tail \notin freed
  /\ \A p \in Producer : link[p] # Idle => link[p][1] \notin freed
=============================================================================
