-------------------------- MODULE WorldSocketProofs --------------------------
(***************************************************************************)
(* The lock-free queue is sound for any number of producers and items, and *)
(* so it is in a connection: whatever the threads of the world, the        *)
(* network thread and the client do, the socket only moves the queue along *)
(* its own steps, and the client gets a prefix of the stream of packets.   *)
(***************************************************************************)
EXTENDS WorldSocket, SequenceTheorems, WellFoundedInduction, TLAPS

\* Where the two ends are: what lies between them has not been dequeued.
Ends ==
  /\ taken < Len(order)
  /\ tail = order[taken + 1] /\ head = order[Len(order)]
  /\ \A n \in freed : \E i \in 1..taken : n = order[i]

OrderIsInjective == \A i, j \in 1..Len(order) : order[i] = order[j] => i = j

\* The list follows the order of the exchanges as far as it is linked.
Linked ==
  /\ \A i \in 1..(Len(order) - 1) : next[order[i]] \in {Null, order[i + 1]}
  /\ next[head] = Null
  /\ \A n \in Node : (\A i \in 1..Len(order) : order[i] # n) => next[n] = Null

\* A producer between its exchange and its store has a node that was not passed, and
\* no two of them have the same.
Pending ==
  /\ \A p \in Producer : link[p] # Idle =>
       \E i \in (taken + 1)..(Len(order) - 1) :
         link[p] = <<order[i], order[i + 1]>> /\ next[order[i]] = Null
  /\ \A p, q \in Producer :
       p # q /\ link[p] # Idle /\ link[q] # Idle => link[p][1] # link[q][1]

QInv == QueueTypeOK /\ Ends /\ OrderIsInjective /\ Linked /\ Pending

-----------------------------------------------------------------------------
\* An empty pair of ends: the node whose item is no one's.
LEMMA QueueInitInv == QueueInit => QInv
<1>1. SUFFICES ASSUME QueueInit PROVE QInv
  OBVIOUS
<1>2. Len(order) = 1 /\ order[1] = Stub /\ order \in Seq(Node)
  BY <1>1 DEF QueueInit, Node
<1>3. QueueTypeOK
  BY <1>1, <1>2 DEF QueueInit, QueueTypeOK, Node
<1>4. Ends /\ OrderIsInjective
  BY <1>1, <1>2 DEF QueueInit, Ends, OrderIsInjective
<1>5. Linked /\ Pending
  BY <1>1, <1>2 DEF QueueInit, Linked, Pending, Node
<1> QED
  BY <1>3, <1>4, <1>5 DEF QInv

\* What appending the new node does to the order.
LEMMA Appended ==
  ASSUME NEW x \in Item, QInv, \A i \in DOMAIN order : order[i] # x,
         order' = Append(order, x)
  PROVE /\ order' \in Seq(Node) /\ Len(order') = Len(order) + 1
        /\ \A i \in 1..Len(order) : order'[i] = order[i] /\ order[i] # x
        /\ order'[Len(order) + 1] = x
        /\ \A i, j \in 1..Len(order') : order'[i] = order'[j] => i = j
<1>1. order \in Seq(Node) /\ x \in Node /\ Len(order) \in Nat /\ DOMAIN order = 1..Len(order)
  BY DEF QInv, QueueTypeOK, Node
<1>2. /\ order' \in Seq(Node) /\ Len(order') = Len(order) + 1
      /\ \A i \in 1..Len(order) : order'[i] = order[i]
      /\ order'[Len(order) + 1] = x
  BY <1>1
<1>3. \A i \in 1..Len(order) : order[i] # x
  BY <1>1
<1>4. \A i, j \in 1..Len(order') : order'[i] = order'[j] => i = j
  BY <1>1, <1>2, <1>3 DEF QInv, OrderIsInjective
<1> QED
  BY <1>2, <1>3, <1>4

\* The exchange cuts the list behind a node that is not passed.
LEMMA ExchangeKeeps ==
  ASSUME NEW p \in Producer, NEW x \in Item, QInv, Exchange(p, x)
  PROVE QInv'
<1> USE NodeAssumption
<1>1. /\ order' \in Seq(Node) /\ Len(order') = Len(order) + 1
      /\ \A i \in 1..Len(order) : order'[i] = order[i] /\ order[i] # x
      /\ order'[Len(order) + 1] = x
      /\ \A i, j \in 1..Len(order') : order'[i] = order'[j] => i = j
  BY Appended DEF Exchange
<1>2. Len(order) \in Nat /\ taken \in Nat /\ taken < Len(order) /\ x # Null /\ x \in Node
  BY DEF QInv, QueueTypeOK, Ends, Node
<1>3. QueueTypeOK'
  BY <1>1, <1>2 DEF QInv, QueueTypeOK, Exchange
<1>4. Ends'
  BY <1>1, <1>2 DEF QInv, Ends, Exchange
<1>5. OrderIsInjective'
  BY <1>1 DEF OrderIsInjective
<1>6. Linked'
  <2>1. next[x] = Null
    BY <1>1, <1>2 DEF QInv, Linked
  <2>2. ASSUME NEW i \in 1..(Len(order') - 1) PROVE next[order'[i]] \in {Null, order'[i + 1]}
    <3>1. CASE i = Len(order)
      BY <1>1, <1>2, <3>1 DEF QInv, Ends, Linked
    <3>2. CASE i \in 1..(Len(order) - 1)
      BY <1>1, <1>2, <3>2 DEF QInv, Linked
    <3> QED
      BY <1>1, <1>2, <3>1, <3>2
  <2>3. ASSUME NEW n \in Node, \A i \in 1..Len(order') : order'[i] # n PROVE next[n] = Null
    BY <1>1, <1>2, <2>3 DEF QInv, Linked
  <2> QED
    BY <2>1, <2>2, <2>3 DEF Linked, Exchange
<1>7. Pending'
  <2>1. /\ link' = [link EXCEPT ![p] = <<head, x>>] /\ link[p] = Idle
        /\ link \in [Producer -> {Idle} \cup (Node \X Item)]
        /\ taken' = taken /\ next' = next
    BY DEF Exchange, QInv, QueueTypeOK
  <2>2. /\ head = order'[Len(order)] /\ x = order'[Len(order) + 1] /\ next[head] = Null
        /\ Len(order) \in (taken + 1)..(Len(order') - 1)
    BY <1>1, <1>2 DEF QInv, Ends, Linked
  <2>3. ASSUME NEW q \in Producer, q # p, link[q] # Idle
        PROVE \E i \in (taken + 1)..(Len(order) - 1) :
                link[q] = <<order'[i], order'[i + 1]>> /\ next[order'[i]] = Null
    BY <1>1, <1>2, <2>3 DEF QInv, Pending
  <2>4. ASSUME NEW q \in Producer, link'[q] # Idle
        PROVE \E i \in (taken + 1)..(Len(order') - 1) :
                link'[q] = <<order'[i], order'[i + 1]>> /\ next[order'[i]] = Null
    <3>1. CASE q = p
      BY <2>1, <2>2, <3>1
    <3>2. CASE q # p
      BY <1>1, <1>2, <2>1, <2>3, <2>4, <3>2
    <3> QED
      BY <3>1, <3>2
  <2>5. ASSUME NEW q \in Producer, q # p, link[q] # Idle PROVE link[q][1] # head
    BY <1>1, <1>2, <2>2, <2>3, <2>5
  <2>6. ASSUME NEW q \in Producer, NEW r \in Producer, q # r, link'[q] # Idle, link'[r] # Idle
        PROVE link'[q][1] # link'[r][1]
    <3>1. CASE q = p
      BY <2>1, <2>5, <2>6, <3>1
    <3>2. CASE r = p
      BY <2>1, <2>5, <2>6, <3>2
    <3>3. CASE q # p /\ r # p
      BY <2>1, <2>6, <3>3 DEF QInv, Pending
    <3> QED
      BY <3>1, <3>2, <3>3
  <2> QED
    BY <2>1, <2>4, <2>6 DEF Pending
<1> QED
  BY <1>3, <1>4, <1>5, <1>6, <1>7 DEF QInv

\* The store closes the cut and touches no other producer's node.
LEMMA LinkKeeps ==
  ASSUME NEW p \in Producer, QInv, Link(p)
  PROVE QInv'
<1> USE NodeAssumption
<1>1. PICK i \in (taken + 1)..(Len(order) - 1) :
        link[p] = <<order[i], order[i + 1]>> /\ next[order[i]] = Null
  BY DEF QInv, Pending, Link
<1>2. /\ order' = order /\ taken' = taken /\ head' = head /\ tail' = tail /\ freed' = freed
      /\ next' = [next EXCEPT ![order[i]] = order[i + 1]]
      /\ link' = [link EXCEPT ![p] = Idle]
  BY <1>1 DEF Link
<1>3. /\ order \in Seq(Node) /\ Len(order) \in Nat /\ taken \in Nat
      /\ next \in [Node -> Item \cup {Null}]
      /\ link \in [Producer -> {Idle} \cup (Node \X Item)]
      /\ i \in 1..Len(order) /\ i + 1 \in 1..Len(order)
  BY <1>1 DEF QInv, QueueTypeOK
<1>4. order[i] \in Node /\ order[i + 1] \in Node
  BY <1>3
<1>5. order[i + 1] \in Item
  <2>1. link[p] \in Node \X Item
    BY <1>3 DEF Link
  <2> QED
    BY <1>1, <2>1
<1>6. QueueTypeOK'
  BY <1>2, <1>3, <1>4, <1>5 DEF QInv, QueueTypeOK
<1>7. Ends' /\ OrderIsInjective'
  BY <1>2 DEF QInv, Ends, OrderIsInjective
<1>8. Linked'
  <2>1. \A j \in 1..Len(order) : j # i => next'[order[j]] = next[order[j]]
    BY <1>2, <1>3 DEF QInv, OrderIsInjective
  <2>2. next'[order[i]] = order[i + 1]
    BY <1>2, <1>3, <1>4
  <2>3. next'[head] = Null
    BY <1>1, <1>3, <2>1 DEF QInv, Linked, Ends
  <2>4. \A n \in Node : (\A j \in 1..Len(order) : order[j] # n) => next'[n] = Null
    BY <1>2, <1>3 DEF QInv, Linked
  <2>5. \A j \in 1..(Len(order) - 1) : next'[order[j]] \in {Null, order[j + 1]}
    BY <1>3, <2>1, <2>2 DEF QInv, Linked
  <2> QED
    BY <1>2, <2>3, <2>4, <2>5 DEF Linked
<1>9. Pending'
  <2>1. ASSUME NEW q \in Producer, link'[q] # Idle
        PROVE q # p /\ link'[q] = link[q] /\ link[q] # Idle
    BY <1>2, <1>3, <2>1
  <2>2. link[p] # Idle /\ link[p][1] = order[i]
    BY <1>1 DEF Link
  <2>3. ASSUME NEW q \in Producer, link'[q] # Idle
        PROVE \E j \in (taken + 1)..(Len(order) - 1) :
                link'[q] = <<order[j], order[j + 1]>> /\ next'[order[j]] = Null
    <3>1. PICK j \in (taken + 1)..(Len(order) - 1) :
            link[q] = <<order[j], order[j + 1]>> /\ next[order[j]] = Null
      BY <2>1, <2>3 DEF QInv, Pending
    <3>2. link[q][1] # link[p][1]
      BY <2>1, <2>2, <2>3 DEF QInv, Pending
    <3>3. order[j] # order[i] /\ order[j] \in Node
      BY <1>3, <2>2, <3>1, <3>2
    <3>4. next'[order[j]] = Null
      BY <1>2, <1>3, <3>1, <3>3
    <3> QED
      BY <2>1, <2>3, <3>1, <3>4
  <2>4. ASSUME NEW q \in Producer, NEW r \in Producer, q # r, link'[q] # Idle, link'[r] # Idle
        PROVE link'[q][1] # link'[r][1]
    BY <2>1, <2>4 DEF QInv, Pending
  <2> QED
    BY <1>2, <2>3, <2>4 DEF Pending
<1> QED
  BY <1>6, <1>7, <1>8, <1>9 DEF QInv

\* An exchange and its store in one.
LEMMA EnqueueAloneKeeps ==
  ASSUME NEW p \in Producer, NEW x \in Item, QInv, EnqueueAlone(p, x)
  PROVE QInv'
<1> USE NodeAssumption
<1>1. /\ order' \in Seq(Node) /\ Len(order') = Len(order) + 1
      /\ \A i \in 1..Len(order) : order'[i] = order[i] /\ order[i] # x
      /\ order'[Len(order) + 1] = x
      /\ \A i, j \in 1..Len(order') : order'[i] = order'[j] => i = j
  BY Appended DEF EnqueueAlone
<1>2. /\ Len(order) \in Nat /\ taken \in Nat /\ taken < Len(order) /\ x # Null /\ x \in Node
      /\ head = order[Len(order)] /\ head \in Node /\ head # x
      /\ next \in [Node -> Item \cup {Null}]
  BY <1>1 DEF QInv, QueueTypeOK, Ends, Node
<1>3. /\ next' = [next EXCEPT ![head] = x] /\ head' = x /\ tail' = tail /\ taken' = taken
      /\ freed' = freed /\ link' = link
  BY DEF EnqueueAlone
<1>4. QueueTypeOK'
  BY <1>1, <1>2, <1>3 DEF QInv, QueueTypeOK
<1>5. Ends' /\ OrderIsInjective'
  BY <1>1, <1>2, <1>3 DEF QInv, Ends, OrderIsInjective
<1>6. Linked'
  <2>1. next'[x] = Null /\ next'[head] = x
    BY <1>1, <1>2, <1>3 DEF QInv, Linked
  <2>2. \A i \in 1..(Len(order) - 1) : order'[i] # head /\ next'[order'[i]] = next[order[i]]
    BY <1>1, <1>2, <1>3 DEF QInv, OrderIsInjective
  <2>3. ASSUME NEW i \in 1..(Len(order') - 1) PROVE next'[order'[i]] \in {Null, order'[i + 1]}
    <3>1. CASE i = Len(order)
      BY <1>1, <1>2, <2>1, <3>1
    <3>2. CASE i \in 1..(Len(order) - 1)
      BY <1>1, <1>2, <2>2, <3>2 DEF QInv, Linked
    <3> QED
      BY <1>1, <1>2, <3>1, <3>2
  <2>4. ASSUME NEW n \in Node, \A i \in 1..Len(order') : order'[i] # n PROVE next'[n] = Null
    <3>1. n # head /\ \A i \in 1..Len(order) : order[i] # n
      BY <1>1, <1>2, <2>4
    <3> QED
      BY <1>2, <1>3, <3>1 DEF QInv, Linked
  <2> QED
    BY <1>3, <2>1, <2>3, <2>4 DEF Linked
<1>7. Pending'
  <2>1. ASSUME NEW q \in Producer, link[q] # Idle
        PROVE \E i \in (taken + 1)..(Len(order') - 1) :
                link[q] = <<order'[i], order'[i + 1]>> /\ next'[order'[i]] = Null
    <3>1. PICK i \in (taken + 1)..(Len(order) - 1) :
            link[q] = <<order[i], order[i + 1]>> /\ next[order[i]] = Null
      BY <2>1 DEF QInv, Pending
    <3>2. order[i] # head
      BY <1>2, <3>1 DEF QInv, OrderIsInjective
    <3>3. order[i] \in Node
      BY <1>2, <3>1 DEF QInv, QueueTypeOK
    <3>4. next'[order[i]] = Null
      BY <1>2, <1>3, <3>1, <3>2, <3>3
    <3> QED
      BY <1>1, <1>2, <3>1, <3>4
  <2> QED
    BY <1>3, <2>1 DEF QInv, Pending
<1> QED
  BY <1>4, <1>5, <1>6, <1>7 DEF QInv

\* The node that is deleted is no producer's: the one after it is linked.
LEMMA DequeueKeeps ==
  ASSUME QInv, Dequeue
  PROVE QInv'
<1> USE NodeAssumption
<1>1. /\ Len(order) \in Nat /\ taken \in Nat /\ order \in Seq(Node)
      /\ tail = order[taken + 1] /\ taken < Len(order)
  BY DEF QInv, QueueTypeOK, Ends
<1>2. taken + 1 < Len(order)
  BY <1>1 DEF QInv, Ends, Linked, Dequeue
<1>3. tail' = order[taken + 2] /\ tail' \in Node
  BY <1>1, <1>2 DEF QInv, Linked, Dequeue
<1>4. taken' = taken + 1 /\ freed' = freed \cup {order[taken + 1]} /\ tail \in Node
      /\ order' = order /\ head' = head /\ next' = next /\ link' = link
  BY <1>1 DEF Dequeue, QInv, QueueTypeOK
<1>5. QueueTypeOK'
  BY <1>1, <1>3, <1>4 DEF QInv, QueueTypeOK
<1>6. Ends'
  BY <1>1, <1>2, <1>3, <1>4 DEF QInv, Ends
<1>7. OrderIsInjective' /\ Linked'
  BY <1>4 DEF QInv, OrderIsInjective, Linked
<1>8. Pending'
  <2>1. ASSUME NEW p \in Producer, link[p] # Idle
        PROVE \E i \in (taken + 2)..(Len(order) - 1) :
                link[p] = <<order[i], order[i + 1]>> /\ next[order[i]] = Null
    <3>1. PICK i \in (taken + 1)..(Len(order) - 1) :
            link[p] = <<order[i], order[i + 1]>> /\ next[order[i]] = Null
      BY <2>1 DEF QInv, Pending
    <3>2. i # taken + 1
      BY <1>1, <3>1 DEF Dequeue
    <3> QED
      BY <1>1, <3>1, <3>2
  <2> QED
    BY <1>1, <1>4, <2>1 DEF QInv, Pending
<1> QED
  BY <1>5, <1>6, <1>7, <1>8 DEF QInv

LEMMA QInvIsSound == QInv => QueueIsSound
<1>1. SUFFICES ASSUME QInv PROVE QueueIsSound
  OBVIOUS
<1>2. Len(order) \in Nat /\ taken \in Nat /\ taken < Len(order)
  BY <1>1 DEF QInv, QueueTypeOK, Ends
<1>3. \A i \in (taken + 1)..Len(order) : order[i] \notin freed
  BY <1>1, <1>2 DEF QInv, Ends, OrderIsInjective
<1>4. head \notin freed /\ tail \notin freed
  BY <1>1, <1>2, <1>3 DEF QInv, Ends
<1>5. \A p \in Producer : link[p] # Idle => link[p][1] \notin freed
  BY <1>1, <1>2, <1>3 DEF QInv, Pending
<1> QED
  BY <1>1, <1>4, <1>5 DEF QInv, Ends, QueueIsSound

\* The queue's own steps keep its invariant.
LEMMA QueueStep == QInv /\ [QueueNext]_queueVars => QInv'
<1> SUFFICES ASSUME QInv, [QueueNext]_queueVars PROVE QInv'
  OBVIOUS
<1>1. ASSUME NEW p \in Producer, Link(p) PROVE QInv'
  BY <1>1, LinkKeeps
<1>2. ASSUME NEW p \in Producer, NEW x \in Item, Exchange(p, x) PROVE QInv'
  BY <1>2, ExchangeKeeps
<1>3. ASSUME NEW p \in Producer, NEW x \in Item, EnqueueAlone(p, x) PROVE QInv'
  BY <1>3, EnqueueAloneKeeps
<1>4. CASE Dequeue
  BY <1>4, DequeueKeeps
<1>5. CASE UNCHANGED queueVars
  BY <1>5 DEF queueVars, QInv, QueueTypeOK, Ends, OrderIsInjective, Linked, Pending
<1> QED
  BY <1>1, <1>2, <1>3, <1>4, <1>5 DEF QueueNext

\* Every item comes out once and in order, and no thread keeps a deleted node, for
\* any number of producers that MPSCQueue::Enqueue and Dequeue interleave.
THEOREM QueueSound == QueueSpec => [](QInv /\ QueueIsSound)
<1>1. QueueInit => QInv
  BY QueueInitInv
<1>2. QInv /\ [QueueNext]_queueVars => QInv'
  BY QueueStep
<1>3. QInv => QueueIsSound
  BY QInvIsSound
<1> QED
  BY <1>1, <1>2, <1>3, PTL DEF QueueSpec

-----------------------------------------------------------------------------
(* The connection *)

\* The thread is in the update of a socket only while it has the socket.
Places ==
  /\ connections = IF where \in {"new", "listed"} THEN 1 ELSE 0
  /\ step \in {"flush", "base", "write", "queries", "closingUpdate"} => where = "listed"
  /\ where = "accepted" =>
       step = "idle" /\ session = "none" /\ ~reading /\ ~writing /\ ~closing

\* Who may have closed the socket, and what its session then still is to it.
Sessions ==
  /\ step \in {"closing", "closingUpdate"} => closed
  /\ step = "closingUpdate" => closing
  /\ shutting => closed /\ session = "listed"
  /\ session # "none" => ~closing
  /\ closing => query = "none"
  /\ step \in {"reading", "pong"} => ~closing
  /\ query \in {"ip", "auth"} => session = "none"
  /\ query = "perm" => session = "made" /\ (closed \/ hasSession)
  /\ session = "none" => ~hasSession
  /\ session = "made" => ref
  /\ session \in {"listed", "deleted"} /\ ~ref => closed
  /\ session # "none" /\ ~hasSession => closed
  /\ session = "deleted" => closed
  /\ hasSession /\ closed => shutting \/ step \in {"closing", "closingUpdate"}
  /\ step \in {"write", "queries"} /\ closed => closing \/ session \in {"listed", "deleted"}

\* Where a packet is on its way to the client.
Writes ==
  /\ writing => writeQueue # <<>>
  /\ step # "flush" => buffer = <<>>
  /\ step = "write" => ~writing
  /\ DelayedCloseWillHappen

SInv == TypeOK /\ Places /\ Sessions /\ Writes

\* A step of the connection is a step of its queue or leaves the queue alone.
LEMMA SocketMovesQueue == TypeOK /\ [Next]_vars => [QueueNext]_queueVars
<1> SUFFICES ASSUME TypeOK, [Next]_vars PROVE QueueNext \/ UNCHANGED queueVars
  OBVIOUS
<1>1. CASE OnSocketOpen
  BY <1>1 DEF OnSocketOpen, QueueNext
<1>2. CASE UpdateBegin
  BY <1>2 DEF UpdateBegin, LeaveThread, QueueNext
<1>3. CASE FlushPacket
  BY <1>3 DEF FlushPacket, QueueNext
<1>4. CASE FlushEnd
  BY <1>4 DEF FlushEnd, QueueNext
<1>5. CASE SocketUpdate
  BY <1>5 DEF SocketUpdate, LeaveThread, QueueNext
<1>6. CASE OnClose
  BY <1>6 DEF OnClose, QueueNext
<1>7. CASE NoAnswer
  BY <1>7 DEF NoAnswer, QueueNext
<1>8. CASE HandlePingEnd
  BY <1>8, SocketAssumption DEF HandlePingEnd, QueueNext
<1>9. CASE ReadError
  BY <1>9 DEF ReadError, CloseSocket, QueueNext
<1>31. CASE DuplicateAuthSession
  BY <1>31 DEF DuplicateAuthSession, CloseSocket, QueueNext
<1>10. CASE HandleAuthSession
  BY <1>10 DEF HandleAuthSession, QueueNext
<1>11. CASE ReadHandlerEnd
  BY <1>11 DEF ReadHandlerEnd, QueueNext
<1>12. CASE Authenticate
  BY <1>12 DEF Authenticate, QueueNext
<1>13. CASE LoadPermissions
  BY <1>13 DEF LoadPermissions, QueueNext
<1>14. CASE ReadFails
  BY <1>14 DEF ReadFails, CloseSocket, QueueNext
<1>15. CASE ReadHandler
  BY <1>15 DEF ReadHandler, QueueNext
<1>16. CASE KickPlayer
  BY <1>16 DEF KickPlayer, QueueNext
<1>17. CASE KickPlayerEnd
  BY <1>17 DEF KickPlayerEnd, QueueNext
<1>18. CASE DropSocket
  BY <1>18 DEF DropSocket, QueueNext
<1>19. CASE DeleteSession
  BY <1>19 DEF DeleteSession, QueueNext
<1>20. CASE Disconnect
  BY <1>20 DEF Disconnect, QueueNext
<1>21. ASSUME NEW x \in Item, Challenge(x) PROVE QueueNext \/ UNCHANGED queueVars
  BY <1>21, SocketAssumption DEF Challenge, SendFromNet, QueueNext
<1>22. ASSUME NEW x \in Item, Refuse(x) PROVE QueueNext \/ UNCHANGED queueVars
  BY <1>22, SocketAssumption DEF Refuse, SendFromNet, QueueNext
<1>23. ASSUME NEW x \in Item, HandlePing(x) PROVE QueueNext \/ UNCHANGED queueVars
  BY <1>23, SocketAssumption DEF HandlePing, QueueNext
<1>24. ASSUME NEW t \in Sender, SendPacket(t) PROVE QueueNext \/ UNCHANGED queueVars
  <2>1. Exchange(t, sending[t]) /\ t \in Producer
    BY <1>24 DEF SendPacket, Sender
  <2>2. sending[t] \in Item
    BY <1>24 DEF SendPacket, TypeOK
  <2> QED
    BY <2>1, <2>2 DEF QueueNext
<1>25. ASSUME NEW t \in Sender, SendPacketEnd(t) PROVE QueueNext \/ UNCHANGED queueVars
  BY <1>25 DEF SendPacketEnd, Sender, QueueNext
<1>26. ASSUME NEW t \in Sender, NEW x \in Item, Send(t, x) PROVE QueueNext \/ UNCHANGED queueVars
  BY <1>26 DEF Send, QueueNext
<1>27. CASE HandleQueue
  BY <1>27 DEF HandleQueue, WriteSome, WouldBlock
<1>28. CASE WriteHandler
  BY <1>28 DEF WriteHandler, WriteSome
<1>29. CASE WriteHandlerAgain
  BY <1>29 DEF WriteHandlerAgain, WouldBlock
<1>30. CASE UNCHANGED vars
  BY <1>30 DEF vars
<1> QED
  BY <1>1, <1>2, <1>3, <1>4, <1>5, <1>6, <1>7, <1>8, <1>9, <1>10, <1>11, <1>12, <1>13, <1>14, <1>15, <1>16, <1>17, <1>18, <1>19, <1>20, <1>21, <1>22, <1>23, <1>24, <1>25, <1>26, <1>27, <1>28, <1>29, <1>30, <1>31 DEF Next, NetStep


\* HandleQueue writes what is a packet's.
LEMMA WriteType ==
  ASSUME TypeOK, NEW more \in {"idle", "write"}, NEW done \in {"idle", "queries"},
         WriteSome(more, done) \/ WouldBlock(done)
  PROVE /\ writeQueue' \in Seq(Seq(Item)) /\ wire' \in Seq(Item)
        /\ writing' \in BOOLEAN /\ closed' \in BOOLEAN
        /\ step' \in {"idle", "write", "queries", "closing", "closingUpdate"}
<1>1. writeQueue \in Seq(Seq(Item)) /\ wire \in Seq(Item) /\ closed \in BOOLEAN
      /\ writing \in BOOLEAN
  BY DEF TypeOK, FlagsOK
<1>2. CASE WouldBlock(done)
  BY <1>1, <1>2 DEF WouldBlock
<1>3. CASE writeQueue = <<>> /\ WriteSome(more, done)
  BY <1>1, <1>3 DEF WriteSome
<1>4. CASE writeQueue # <<>> /\ WriteSome(more, done)
  <2>1. Head(writeQueue) \in Seq(Item) /\ Tail(writeQueue) \in Seq(Seq(Item))
    BY <1>1, <1>4
  <2>2. ASSUME Pop(done, done) \/ Pop(more, done)
        PROVE /\ writeQueue' \in Seq(Seq(Item)) /\ writing' \in BOOLEAN /\ closed' \in BOOLEAN
              /\ step' \in {"idle", "write", "queries", "closing", "closingUpdate"}
    BY <1>1, <2>1, <2>2 DEF Pop
  <2>3. CASE UNCHANGED wire /\ Pop(done, done)
    BY <1>1, <2>2, <2>3
  <2>4. CASE wire' = wire \o Head(writeQueue) /\ Pop(more, done)
    BY <1>1, <2>1, <2>2, <2>4
  <2>5. ASSUME NEW n \in 1..(Len(Head(writeQueue)) - 1),
               wire' = wire \o SubSeq(Head(writeQueue), 1, n),
               writeQueue' = <<SubSeq(Head(writeQueue), n + 1, Len(Head(writeQueue)))>>
                               \o Tail(writeQueue),
               step' = done, writing' = TRUE, UNCHANGED closed
        PROVE /\ writeQueue' \in Seq(Seq(Item)) /\ wire' \in Seq(Item)
              /\ writing' \in BOOLEAN /\ closed' \in BOOLEAN
              /\ step' \in {"idle", "write", "queries", "closing", "closingUpdate"}
    <3>1. SubSeq(Head(writeQueue), 1, n) \in Seq(Item)
      BY <2>1
    <3>2. SubSeq(Head(writeQueue), n + 1, Len(Head(writeQueue))) \in Seq(Item)
      BY <2>1
    <3>3. <<SubSeq(Head(writeQueue), n + 1, Len(Head(writeQueue)))>> \in Seq(Seq(Item))
      BY <3>2
    <3> QED
      BY <1>1, <2>1, <2>5, <3>1, <3>3
  <2> QED
    BY <1>4, <2>3, <2>4, <2>5 DEF WriteSome
<1> QED
  BY <1>2, <1>3, <1>4

\* Update puts a packet's bytes, of which there is at least one, into a buffer.
LEMMA PackType ==
  ASSUME TypeOK, NEW x \in Item, Pack(x)
  PROVE /\ writeQueue' \in Seq(Seq(Item)) /\ buffer' \in Seq(Item)
        /\ buffer' # <<>> \/ writeQueue' # <<>>
<1>1. writeQueue \in Seq(Seq(Item)) /\ buffer \in Seq(Item)
  BY DEF TypeOK
<1>2. SizeOf[x] \in Nat \ {0} /\ Capacity \in Nat
  BY SocketAssumption
<1>3. Copies(x) \in Seq(Item) /\ Len(Copies(x)) = SizeOf[x]
  BY <1>2 DEF Copies
<1>4. Append(writeQueue, buffer) \in Seq(Seq(Item)) /\ <<>> \in Seq(Item)
  BY <1>1
<1> DEFINE full == Len(buffer) + SizeOf[x] > Capacity
           queued == IF full THEN Append(writeQueue, buffer) ELSE writeQueue
           rest == IF full THEN <<>> ELSE buffer
<1>5. queued \in Seq(Seq(Item)) /\ rest \in Seq(Item)
  BY <1>1, <1>4
<1>6. \/ writeQueue' = Append(queued, Copies(x)) /\ buffer' = rest
      \/ writeQueue' = queued /\ buffer' = rest \o Copies(x)
  BY DEF Pack
<1> HIDE DEF full, queued, rest
<1>7. CASE writeQueue' = Append(queued, Copies(x)) /\ buffer' = rest
  BY <1>3, <1>5, <1>7
<1>8. CASE writeQueue' = queued /\ buffer' = rest \o Copies(x)
  <2>1. rest \o Copies(x) \in Seq(Item) /\ Len(rest \o Copies(x)) = Len(rest) + Len(Copies(x))
    BY <1>3, <1>5, ConcatProperties
  <2>2. Len(rest \o Copies(x)) # 0
    BY <1>2, <1>3, <1>5, <2>1
  <2> QED
    BY <1>5, <1>8, <2>1, <2>2
<1> QED
  BY <1>6, <1>7, <1>8

\* The packet that Dequeue returns.
LEMMA DequeuedItem ==
  ASSUME QInv, Dequeue
  PROVE next[tail] \in Item
BY NodeAssumption DEF QInv, QueueTypeOK, Dequeue

\* The types of what belongs to the socket.
LEMMA TypeStep == SInv /\ QInv /\ QInv' /\ [Next]_vars => TypeOK'
<1> SUFFICES ASSUME SInv, QInv, QInv', [Next]_vars PROVE TypeOK'
  OBVIOUS
<1> USE DEF SInv, Places
<1>0. TypeOK /\ QueueTypeOK'
  BY DEF QInv
<1>1. CASE OnSocketOpen
  <2>1. FlagsOK'
    BY <1>0, <1>1 DEF OnSocketOpen, IsOpen, TypeOK, FlagsOK, streamVars, sessionVars
  <2> QED
    BY <1>0, <1>1, <2>1 DEF OnSocketOpen, TypeOK, queueVars, streamVars, sessionVars
<1>2. CASE UpdateBegin
  <2>1. FlagsOK'
    BY <1>0, <1>2 DEF UpdateBegin, LeaveThread, TypeOK, FlagsOK, streamVars, sessionVars
  <2>2. connections' \in 0..1
    BY <1>0, <1>2 DEF UpdateBegin, LeaveThread, TypeOK
  <2>3. step' \in {step, "flush"} /\ where' \in {"removed", "listed"}
    BY <1>2 DEF UpdateBegin, LeaveThread
  <2>4. buffer' = buffer \/ buffer' = <<>>
    BY <1>2 DEF UpdateBegin, LeaveThread
  <2>5. buffer' \in Seq(Item)
    <3>1. <<>> \in Seq(Item) /\ buffer \in Seq(Item)
      BY <1>0 DEF TypeOK
    <3> QED
      BY <2>4, <3>1
  <2> QED
    BY <1>0, <1>2, <2>1, <2>2, <2>3, <2>5 DEF UpdateBegin, LeaveThread, TypeOK, sessionVars
<1>3. CASE FlushPacket
  <2>1. writeQueue' \in Seq(Seq(Item)) /\ buffer' \in Seq(Item)
    BY <1>0, <1>3, DequeuedItem, PackType DEF FlushPacket
  <2>2. FlagsOK'
    BY <1>0, <1>3 DEF FlushPacket, TypeOK, FlagsOK, sessionVars
  <2> QED
    BY <1>0, <1>3, <2>1, <2>2 DEF FlushPacket, TypeOK, sessionVars
<1>4. CASE FlushEnd
  <2>1. FlagsOK'
    BY <1>0, <1>4 DEF FlushEnd, IsOpen, TypeOK, FlagsOK, streamVars, sessionVars
  <2> QED
    BY <1>0, <1>4, <2>1 DEF FlushEnd, TypeOK, queueVars, streamVars, sessionVars
<1>5. CASE SocketUpdate
  <2>1. FlagsOK'
    BY <1>0, <1>5 DEF SocketUpdate, LeaveThread, IsOpen, TypeOK, FlagsOK, streamVars, sessionVars
  <2> QED
    BY <1>0, <1>5, <2>1 DEF SocketUpdate, LeaveThread, TypeOK, queueVars, streamVars, sessionVars
<1>6. CASE OnClose
  <2>1. FlagsOK'
    BY <1>0, <1>6 DEF OnClose, IsOpen, TypeOK, FlagsOK, streamVars, sessionVars
  <2> QED
    BY <1>0, <1>6, <2>1 DEF OnClose, TypeOK, queueVars, streamVars, sessionVars
<1>7. CASE NoAnswer
  <2>1. FlagsOK'
    BY <1>0, <1>7 DEF NoAnswer, IsOpen, TypeOK, FlagsOK, streamVars, sessionVars
  <2> QED
    BY <1>0, <1>7, <2>1 DEF NoAnswer, TypeOK, queueVars, streamVars, sessionVars
<1>8. CASE HandlePingEnd
  <2>1. FlagsOK'
    BY <1>0, <1>8 DEF HandlePingEnd, IsOpen, TypeOK, FlagsOK, streamVars, sessionVars
  <2> QED
    BY <1>0, <1>8, <2>1 DEF HandlePingEnd, TypeOK, queueVars, streamVars, sessionVars
<1>9. CASE ReadError
  <2>1. FlagsOK'
    BY <1>0, <1>9 DEF ReadError, CloseSocket, IsOpen, TypeOK, FlagsOK, streamVars, sessionVars
  <2> QED
    BY <1>0, <1>9, <2>1 DEF ReadError, CloseSocket, TypeOK, queueVars, streamVars, sessionVars
<1>31. CASE DuplicateAuthSession
  <2>1. FlagsOK'
    BY <1>0, <1>31 DEF DuplicateAuthSession, CloseSocket, IsOpen, TypeOK, FlagsOK, streamVars, sessionVars
  <2> QED
    BY <1>0, <1>31, <2>1 DEF DuplicateAuthSession, CloseSocket, TypeOK, queueVars, streamVars, sessionVars
<1>10. CASE HandleAuthSession
  <2>1. FlagsOK'
    BY <1>0, <1>10 DEF HandleAuthSession, IsOpen, TypeOK, FlagsOK, streamVars, sessionVars
  <2> QED
    BY <1>0, <1>10, <2>1 DEF HandleAuthSession, TypeOK, queueVars, streamVars, sessionVars
<1>11. CASE ReadHandlerEnd
  <2>1. FlagsOK'
    BY <1>0, <1>11 DEF ReadHandlerEnd, IsOpen, TypeOK, FlagsOK, streamVars, sessionVars
  <2> QED
    BY <1>0, <1>11, <2>1 DEF ReadHandlerEnd, TypeOK, queueVars, streamVars, sessionVars
<1>12. CASE Authenticate
  <2>1. FlagsOK'
    BY <1>0, <1>12 DEF Authenticate, IsOpen, TypeOK, FlagsOK, streamVars, sessionVars
  <2> QED
    BY <1>0, <1>12, <2>1 DEF Authenticate, TypeOK, queueVars, streamVars, sessionVars
<1>13. CASE LoadPermissions
  <2>1. FlagsOK'
    BY <1>0, <1>13 DEF LoadPermissions, IsOpen, TypeOK, FlagsOK, streamVars, sessionVars
  <2> QED
    BY <1>0, <1>13, <2>1 DEF LoadPermissions, TypeOK, queueVars, streamVars, sessionVars
<1>14. CASE ReadFails
  <2>1. FlagsOK'
    BY <1>0, <1>14 DEF ReadFails, CloseSocket, IsOpen, TypeOK, FlagsOK, streamVars, sessionVars
  <2> QED
    BY <1>0, <1>14, <2>1 DEF ReadFails, CloseSocket, TypeOK, queueVars, streamVars, sessionVars
<1>15. CASE ReadHandler
  <2>1. FlagsOK'
    BY <1>0, <1>15 DEF ReadHandler, IsOpen, TypeOK, FlagsOK, streamVars, sessionVars
  <2> QED
    BY <1>0, <1>15, <2>1 DEF ReadHandler, TypeOK, queueVars, streamVars, sessionVars
<1>16. CASE KickPlayer
  <2>1. FlagsOK'
    BY <1>0, <1>16 DEF KickPlayer, IsOpen, TypeOK, FlagsOK, streamVars, sessionVars
  <2> QED
    BY <1>0, <1>16, <2>1 DEF KickPlayer, TypeOK, queueVars, streamVars, sessionVars
<1>17. CASE KickPlayerEnd
  <2>1. FlagsOK'
    BY <1>0, <1>17 DEF KickPlayerEnd, IsOpen, TypeOK, FlagsOK, streamVars, sessionVars
  <2> QED
    BY <1>0, <1>17, <2>1 DEF KickPlayerEnd, TypeOK, queueVars, streamVars, sessionVars
<1>18. CASE DropSocket
  <2>1. FlagsOK'
    BY <1>0, <1>18 DEF DropSocket, IsOpen, TypeOK, FlagsOK, streamVars, sessionVars
  <2> QED
    BY <1>0, <1>18, <2>1 DEF DropSocket, TypeOK, queueVars, streamVars, sessionVars
<1>19. CASE DeleteSession
  <2>1. FlagsOK'
    BY <1>0, <1>19 DEF DeleteSession, IsOpen, TypeOK, FlagsOK, streamVars, sessionVars
  <2> QED
    BY <1>0, <1>19, <2>1 DEF DeleteSession, TypeOK, queueVars, streamVars, sessionVars
<1>20. CASE Disconnect
  <2>1. FlagsOK'
    BY <1>0, <1>20 DEF Disconnect, IsOpen, TypeOK, FlagsOK, streamVars, sessionVars
  <2> QED
    BY <1>0, <1>20, <2>1 DEF Disconnect, TypeOK, queueVars, streamVars, sessionVars
<1>21. ASSUME NEW x \in Item, Challenge(x) PROVE TypeOK'
  <2>1. FlagsOK'
    BY <1>0, <1>21 DEF Challenge, SendFromNet, IsOpen, TypeOK, FlagsOK, streamVars, sessionVars
  <2> QED
    BY <1>0, <1>21, <2>1 DEF Challenge, SendFromNet, TypeOK, queueVars, streamVars, sessionVars
<1>22. ASSUME NEW x \in Item, Refuse(x) PROVE TypeOK'
  <2>1. FlagsOK'
    BY <1>0, <1>22 DEF Refuse, SendFromNet, IsOpen, TypeOK, FlagsOK, streamVars, sessionVars
  <2> QED
    BY <1>0, <1>22, <2>1 DEF Refuse, SendFromNet, TypeOK, queueVars, streamVars, sessionVars
<1>23. ASSUME NEW x \in Item, HandlePing(x) PROVE TypeOK'
  <2>1. FlagsOK'
    BY <1>0, <1>23 DEF HandlePing, IsOpen, TypeOK, FlagsOK, streamVars, sessionVars
  <2> QED
    BY <1>0, <1>23, <2>1 DEF HandlePing, TypeOK, queueVars, streamVars, sessionVars
<1>24. ASSUME NEW t \in Sender, SendPacket(t) PROVE TypeOK'
  <2>1. FlagsOK'
    BY <1>0, <1>24 DEF SendPacket, IsOpen, TypeOK, FlagsOK, streamVars, sessionVars
  <2> QED
    BY <1>0, <1>24, <2>1 DEF SendPacket, TypeOK, queueVars, streamVars, sessionVars
<1>25. ASSUME NEW t \in Sender, SendPacketEnd(t) PROVE TypeOK'
  <2>1. FlagsOK'
    BY <1>0, <1>25 DEF SendPacketEnd, IsOpen, TypeOK, FlagsOK, streamVars, sessionVars
  <2> QED
    BY <1>0, <1>25, <2>1 DEF SendPacketEnd, TypeOK, queueVars, streamVars, sessionVars
<1>26. ASSUME NEW t \in Sender, NEW x \in Item, Send(t, x) PROVE TypeOK'
  <2>1. FlagsOK'
    BY <1>0, <1>26 DEF Send, IsOpen, TypeOK, FlagsOK, streamVars, sessionVars
  <2> QED
    BY <1>0, <1>26, <2>1 DEF Send, TypeOK, queueVars, streamVars, sessionVars
<1>27. CASE HandleQueue
  <2>1. /\ writeQueue' \in Seq(Seq(Item)) /\ wire' \in Seq(Item)
        /\ writing' \in BOOLEAN /\ closed' \in BOOLEAN
        /\ step' \in {"idle", "write", "queries", "closing", "closingUpdate"}
    BY <1>0, <1>27, WriteType DEF HandleQueue
  <2>2. FlagsOK'
    BY <1>0, <1>27, <2>1 DEF HandleQueue, WriteSome, WouldBlock, TypeOK, FlagsOK, sessionVars
  <2> QED
    BY <1>0, <1>27, <2>1, <2>2 DEF HandleQueue, WriteSome, WouldBlock, TypeOK, queueVars, sessionVars
<1>28. CASE WriteHandler
  <2>1. /\ writeQueue' \in Seq(Seq(Item)) /\ wire' \in Seq(Item)
        /\ writing' \in BOOLEAN /\ closed' \in BOOLEAN
        /\ step' \in {"idle", "write", "queries", "closing", "closingUpdate"}
    BY <1>0, <1>28, WriteType DEF WriteHandler
  <2>2. FlagsOK'
    BY <1>0, <1>28, <2>1 DEF WriteHandler, WriteSome, TypeOK, FlagsOK, sessionVars
  <2> QED
    BY <1>0, <1>28, <2>1, <2>2 DEF WriteHandler, WriteSome, TypeOK, queueVars, sessionVars
<1>29. CASE WriteHandlerAgain
  <2>1. /\ writeQueue' \in Seq(Seq(Item)) /\ wire' \in Seq(Item)
        /\ writing' \in BOOLEAN /\ closed' \in BOOLEAN
        /\ step' \in {"idle", "write", "queries", "closing", "closingUpdate"}
    BY <1>0, <1>29, WriteType DEF WriteHandlerAgain
  <2>2. FlagsOK'
    BY <1>0, <1>29, <2>1 DEF WriteHandlerAgain, WouldBlock, TypeOK, FlagsOK, sessionVars
  <2> QED
    BY <1>0, <1>29, <2>1, <2>2 DEF WriteHandlerAgain, WouldBlock, TypeOK, queueVars, sessionVars
<1>30. CASE UNCHANGED vars
  <2>1. FlagsOK'
    BY <1>0, <1>30 DEF vars, TypeOK, FlagsOK, streamVars, sessionVars
  <2> QED
    BY <1>0, <1>30, <2>1 DEF vars, TypeOK, queueVars, streamVars, sessionVars
<1> QED
  BY <1>1, <1>2, <1>3, <1>4, <1>5, <1>6, <1>7, <1>8, <1>9, <1>10, <1>11, <1>12, <1>13, <1>14, <1>15, <1>16, <1>17, <1>18, <1>19, <1>20, <1>21, <1>22, <1>23, <1>24, <1>25, <1>26, <1>27, <1>28, <1>29, <1>30, <1>31 DEF Next, NetStep

\* The socket is counted as long as the thread has it.
LEMMA PlacesStep == SInv /\ [Next]_vars => Places'
<1> SUFFICES ASSUME SInv, [Next]_vars PROVE Places'
  OBVIOUS
<1>0. Places /\ connections \in 0..1 /\ FlagsOK
  BY DEF SInv, TypeOK
<1>1. CASE OnSocketOpen
  BY <1>1, <1>0 DEF OnSocketOpen, Places, FlagsOK, streamVars, sessionVars
<1>2. CASE UpdateBegin
  BY <1>2, <1>0 DEF UpdateBegin, LeaveThread, Places, FlagsOK, streamVars, sessionVars
<1>3. CASE FlushPacket
  BY <1>3, <1>0 DEF FlushPacket, Pack, Places, FlagsOK, streamVars, sessionVars
<1>4. CASE FlushEnd
  BY <1>4, <1>0 DEF FlushEnd, Places, FlagsOK, streamVars, sessionVars
<1>5. CASE SocketUpdate
  BY <1>5, <1>0 DEF SocketUpdate, LeaveThread, Places, FlagsOK, streamVars, sessionVars
<1>6. CASE OnClose
  BY <1>6, <1>0 DEF OnClose, Places, FlagsOK, streamVars, sessionVars
<1>7. CASE NoAnswer
  BY <1>7, <1>0 DEF NoAnswer, Places, FlagsOK, streamVars, sessionVars
<1>8. CASE HandlePingEnd
  BY <1>8, <1>0 DEF HandlePingEnd, Places, FlagsOK, streamVars, sessionVars
<1>9. CASE ReadError
  BY <1>9, <1>0 DEF ReadError, CloseSocket, Places, FlagsOK, streamVars, sessionVars
<1>31. CASE DuplicateAuthSession
  BY <1>31, <1>0 DEF DuplicateAuthSession, CloseSocket, Places, FlagsOK, streamVars, sessionVars
<1>10. CASE HandleAuthSession
  BY <1>10, <1>0 DEF HandleAuthSession, Places, FlagsOK, streamVars, sessionVars
<1>11. CASE ReadHandlerEnd
  BY <1>11, <1>0 DEF ReadHandlerEnd, Places, FlagsOK, streamVars, sessionVars
<1>12. CASE Authenticate
  BY <1>12, <1>0 DEF Authenticate, Places, FlagsOK, streamVars, sessionVars
<1>13. CASE LoadPermissions
  BY <1>13, <1>0 DEF LoadPermissions, Places, FlagsOK, streamVars, sessionVars
<1>14. CASE ReadFails
  BY <1>14, <1>0 DEF ReadFails, CloseSocket, Places, FlagsOK, streamVars, sessionVars
<1>15. CASE ReadHandler
  BY <1>15, <1>0 DEF ReadHandler, Places, FlagsOK, streamVars, sessionVars
<1>16. CASE KickPlayer
  BY <1>16, <1>0 DEF KickPlayer, Places, FlagsOK, streamVars, sessionVars
<1>17. CASE KickPlayerEnd
  BY <1>17, <1>0 DEF KickPlayerEnd, Places, FlagsOK, streamVars, sessionVars
<1>18. CASE DropSocket
  BY <1>18, <1>0 DEF DropSocket, Places, FlagsOK, streamVars, sessionVars
<1>19. CASE DeleteSession
  BY <1>19, <1>0 DEF DeleteSession, Places, FlagsOK, streamVars, sessionVars
<1>20. CASE Disconnect
  BY <1>20, <1>0 DEF Disconnect, Places, FlagsOK, streamVars, sessionVars
<1>21. ASSUME NEW x \in Item, Challenge(x) PROVE Places'
  BY <1>21, <1>0 DEF Challenge, SendFromNet, Places, FlagsOK, streamVars, sessionVars
<1>22. ASSUME NEW x \in Item, Refuse(x) PROVE Places'
  BY <1>22, <1>0 DEF Refuse, SendFromNet, Places, FlagsOK, streamVars, sessionVars
<1>23. ASSUME NEW x \in Item, HandlePing(x) PROVE Places'
  BY <1>23, <1>0 DEF HandlePing, Places, FlagsOK, streamVars, sessionVars
<1>24. ASSUME NEW t \in Sender, SendPacket(t) PROVE Places'
  BY <1>24, <1>0 DEF SendPacket, Places, FlagsOK, streamVars, sessionVars
<1>25. ASSUME NEW t \in Sender, SendPacketEnd(t) PROVE Places'
  BY <1>25, <1>0 DEF SendPacketEnd, Places, FlagsOK, streamVars, sessionVars
<1>26. ASSUME NEW t \in Sender, NEW x \in Item, Send(t, x) PROVE Places'
  BY <1>26, <1>0 DEF Send, Places, FlagsOK, streamVars, sessionVars
<1>27. CASE HandleQueue
  BY <1>27, <1>0 DEF HandleQueue, WriteSome, WouldBlock, Pop, Places, FlagsOK, sessionVars
<1>28. CASE WriteHandler
  BY <1>28, <1>0 DEF WriteHandler, WriteSome, Pop, Places, FlagsOK, sessionVars
<1>29. CASE WriteHandlerAgain
  BY <1>29, <1>0 DEF WriteHandlerAgain, WouldBlock, Places, FlagsOK, sessionVars
<1>30. CASE UNCHANGED vars
  BY <1>30, <1>0 DEF vars, Places, streamVars, sessionVars
<1> QED
  BY <1>1, <1>2, <1>3, <1>4, <1>5, <1>6, <1>7, <1>8, <1>9, <1>10, <1>11, <1>12, <1>13, <1>14, <1>15, <1>16, <1>17, <1>18, <1>19, <1>20, <1>21, <1>22, <1>23, <1>24, <1>25, <1>26, <1>27, <1>28, <1>29, <1>30, <1>31 DEF Next, NetStep

\* The session of a socket that closes.
LEMMA SessionsStep == SInv /\ [Next]_vars => Sessions'
<1> SUFFICES ASSUME SInv, [Next]_vars PROVE Sessions'
  OBVIOUS
<1>0. Sessions /\ FlagsOK /\ Places
  BY DEF SInv, TypeOK
<1>1. CASE OnSocketOpen
  BY <1>1, <1>0 DEF OnSocketOpen, Places, Sessions, FlagsOK, sessionVars
<1>2. CASE UpdateBegin
  BY <1>2, <1>0 DEF UpdateBegin, LeaveThread, Sessions, FlagsOK, IsOpen, sessionVars
<1>3. CASE FlushPacket
  BY <1>3, <1>0 DEF FlushPacket, Pack, Sessions, FlagsOK, IsOpen, sessionVars
<1>4. CASE FlushEnd
  BY <1>4, <1>0 DEF FlushEnd, Sessions, FlagsOK, IsOpen, sessionVars
<1>5. CASE SocketUpdate
  BY <1>5, <1>0 DEF SocketUpdate, LeaveThread, Sessions, FlagsOK, IsOpen, sessionVars
<1>6. CASE OnClose
  BY <1>6, <1>0 DEF OnClose, Sessions, FlagsOK, IsOpen, sessionVars
<1>7. CASE NoAnswer
  BY <1>7, <1>0 DEF NoAnswer, Sessions, FlagsOK, IsOpen, sessionVars
<1>8. CASE HandlePingEnd
  BY <1>8, <1>0 DEF HandlePingEnd, Sessions, FlagsOK, IsOpen, sessionVars
<1>9. CASE ReadError
  BY <1>9, <1>0 DEF ReadError, CloseSocket, Sessions, FlagsOK, IsOpen, sessionVars
<1>31. CASE DuplicateAuthSession
  BY <1>31, <1>0 DEF DuplicateAuthSession, CloseSocket, Sessions, FlagsOK, IsOpen, sessionVars
<1>10. CASE HandleAuthSession
  BY <1>10, <1>0 DEF HandleAuthSession, Sessions, FlagsOK, IsOpen, sessionVars
<1>11. CASE ReadHandlerEnd
  BY <1>11, <1>0 DEF ReadHandlerEnd, Sessions, FlagsOK, IsOpen, sessionVars
<1>12. CASE Authenticate
  BY <1>12, <1>0 DEF Authenticate, Sessions, FlagsOK, IsOpen, sessionVars
<1>13. CASE LoadPermissions
  BY <1>13, <1>0 DEF LoadPermissions, Sessions, FlagsOK, IsOpen, sessionVars
<1>14. CASE ReadFails
  BY <1>14, <1>0 DEF ReadFails, CloseSocket, Sessions, FlagsOK, IsOpen, sessionVars
<1>15. CASE ReadHandler
  BY <1>15, <1>0 DEF ReadHandler, Sessions, FlagsOK, IsOpen, sessionVars
<1>16. CASE KickPlayer
  BY <1>16, <1>0 DEF KickPlayer, Sessions, FlagsOK, IsOpen, sessionVars
<1>17. CASE KickPlayerEnd
  BY <1>17, <1>0 DEF KickPlayerEnd, Sessions, FlagsOK, IsOpen, sessionVars
<1>18. CASE DropSocket
  BY <1>18, <1>0 DEF DropSocket, Sessions, FlagsOK, IsOpen, sessionVars
<1>19. CASE DeleteSession
  BY <1>19, <1>0 DEF DeleteSession, Sessions, FlagsOK, IsOpen, sessionVars
<1>20. CASE Disconnect
  BY <1>20, <1>0 DEF Disconnect, Sessions, FlagsOK, IsOpen, sessionVars
<1>21. ASSUME NEW x \in Item, Challenge(x) PROVE Sessions'
  BY <1>21, <1>0 DEF Challenge, SendFromNet, Sessions, FlagsOK, IsOpen, sessionVars
<1>22. ASSUME NEW x \in Item, Refuse(x) PROVE Sessions'
  BY <1>22, <1>0 DEF Refuse, SendFromNet, Sessions, FlagsOK, IsOpen, sessionVars
<1>23. ASSUME NEW x \in Item, HandlePing(x) PROVE Sessions'
  BY <1>23, <1>0 DEF HandlePing, Sessions, FlagsOK, IsOpen, sessionVars
<1>24. ASSUME NEW t \in Sender, SendPacket(t) PROVE Sessions'
  BY <1>24, <1>0 DEF SendPacket, Sessions, FlagsOK, IsOpen, sessionVars
<1>25. ASSUME NEW t \in Sender, SendPacketEnd(t) PROVE Sessions'
  BY <1>25, <1>0 DEF SendPacketEnd, Sessions, FlagsOK, IsOpen, sessionVars
<1>26. ASSUME NEW t \in Sender, NEW x \in Item, Send(t, x) PROVE Sessions'
  BY <1>26, <1>0 DEF Send, Sessions, FlagsOK, IsOpen, sessionVars
<1>27. CASE HandleQueue
  BY <1>27, <1>0 DEF HandleQueue, WriteSome, WouldBlock, Pop, Sessions, FlagsOK, sessionVars
<1>28. CASE WriteHandler
  BY <1>28, <1>0 DEF WriteHandler, WriteSome, Pop, Sessions, FlagsOK, sessionVars
<1>29. CASE WriteHandlerAgain
  BY <1>29, <1>0 DEF WriteHandlerAgain, WouldBlock, Sessions, FlagsOK, sessionVars
<1>30. CASE UNCHANGED vars
  BY <1>30, <1>0 DEF vars, Sessions, sessionVars
<1> QED
  BY <1>1, <1>2, <1>3, <1>4, <1>5, <1>6, <1>7, <1>8, <1>9, <1>10, <1>11, <1>12, <1>13, <1>14, <1>15, <1>16, <1>17, <1>18, <1>19, <1>20, <1>21, <1>22, <1>23, <1>24, <1>25, <1>26, <1>27, <1>28, <1>29, <1>30, <1>31 DEF Next, NetStep

\* Packing takes nothing out of the queue of messages.
LEMMA PackKeeps ==
  ASSUME TypeOK, NEW x \in Item, Pack(x), writeQueue # <<>>
  PROVE writeQueue' # <<>>
<1>1. writeQueue \in Seq(Seq(Item)) /\ buffer \in Seq(Item)
  BY DEF TypeOK
<1>2. Copies(x) \in Seq(Item)
  BY SocketAssumption DEF Copies
<1>3. \A q \in Seq(Seq(Item)), b \in Seq(Item) :
        Append(q, b) # <<>> /\ Append(q, b) \in Seq(Seq(Item))
  BY AppendProperties
<1> QED
  BY <1>1, <1>2, <1>3 DEF Pack

\* HandleQueue waits for the socket only with a message, and after the last message
\* a delayed close is done.
LEMMA WriteWrites ==
  ASSUME SInv, NEW more \in {"idle", "write"}, NEW done \in {"idle", "queries"},
         step \in {"idle", "write"}, WriteSome(more, done) \/ WouldBlock(done)
  PROVE Writes'
<1>0. /\ Writes /\ writeQueue \in Seq(Seq(Item)) /\ buffer = <<>> /\ FlagsOK
      /\ step # "flush"
  BY DEF SInv, TypeOK, Writes
<1>1. CASE WouldBlock(done)
  BY <1>0, <1>1 DEF WouldBlock, Writes, DelayedCloseWillHappen, queueVars
<1>2. CASE writeQueue = <<>> /\ WriteSome(more, done)
  BY <1>0, <1>2 DEF WriteSome, Writes, DelayedCloseWillHappen, queueVars
<1>3. CASE writeQueue # <<>> /\ WriteSome(more, done)
  <2>1. CASE Pop(done, done) \/ Pop(more, done)
    BY <1>0, <1>3, <2>1 DEF Pop, WriteSome, Writes, DelayedCloseWillHappen, queueVars
  <2>2. ASSUME NEW n \in 1..(Len(Head(writeQueue)) - 1),
               writeQueue' = <<SubSeq(Head(writeQueue), n + 1, Len(Head(writeQueue)))>>
                               \o Tail(writeQueue),
               step' = done
        PROVE Writes'
    <3>1. writeQueue' # <<>>
      BY <1>0, <1>3, <2>2
    <3> QED
      BY <1>0, <1>3, <2>2, <3>1 DEF WriteSome, Writes, DelayedCloseWillHappen
  <2> QED
    BY <1>3, <2>1, <2>2 DEF WriteSome
<1> QED
  BY <1>1, <1>2, <1>3

\* Nothing that waits to be written is forgotten.
LEMMA WritesStep == SInv /\ QInv /\ QInv' /\ [Next]_vars => Writes'
<1> SUFFICES ASSUME SInv, QInv, QInv', [Next]_vars PROVE Writes'
  OBVIOUS
<1>0. /\ SInv /\ Writes /\ Sessions /\ FlagsOK /\ TypeOK /\ QInv /\ Net \in Producer
      /\ taken \in Nat /\ Len(order) \in Nat /\ taken < Len(order)
      /\ writeQueue \in Seq(Seq(Item)) /\ buffer \in Seq(Item)
  <2>1. /\ SInv /\ Writes /\ Sessions /\ FlagsOK /\ TypeOK /\ Net \in Producer
        /\ writeQueue \in Seq(Seq(Item)) /\ buffer \in Seq(Item)
    BY SocketAssumption DEF SInv, TypeOK
  <2>2. taken \in Nat /\ Len(order) \in Nat /\ taken < Len(order)
    BY DEF QInv, QueueTypeOK, Ends
  <2> QED
    BY <2>1, <2>2
<1>1. CASE OnSocketOpen
  BY <1>1, <1>0 DEF OnSocketOpen, Writes, DelayedCloseWillHappen, queueVars, streamVars, FlagsOK, IsOpen
<1>2. CASE UpdateBegin
  BY <1>2, <1>0 DEF UpdateBegin, LeaveThread, Writes, DelayedCloseWillHappen, queueVars, streamVars, FlagsOK, IsOpen
<1>3. CASE FlushPacket
  <2>1. buffer' # <<>> \/ writeQueue' # <<>>
    BY <1>0, <1>3, DequeuedItem, PackType DEF FlushPacket
  <2>2. writing => writeQueue' # <<>>
    BY <1>0, <1>3, PackKeeps, DequeuedItem DEF FlushPacket, Writes
  <2> QED
    BY <1>0, <1>3, <2>1, <2>2 DEF FlushPacket, Writes, DelayedCloseWillHappen
<1>4. CASE FlushEnd
  <2>1. writeQueue # <<>> \/ buffer # <<>> => writeQueue' # <<>>
    BY <1>0, <1>4 DEF FlushEnd
  <2> QED
    BY <1>0, <1>4, <2>1 DEF FlushEnd, Writes, DelayedCloseWillHappen, queueVars
<1>5. CASE SocketUpdate
  BY <1>5, <1>0 DEF SocketUpdate, LeaveThread, Writes, DelayedCloseWillHappen, queueVars, streamVars, FlagsOK, IsOpen
<1>6. CASE OnClose
  BY <1>6, <1>0 DEF OnClose, Writes, DelayedCloseWillHappen, queueVars, streamVars, FlagsOK, IsOpen
<1>7. CASE NoAnswer
  BY <1>7, <1>0 DEF NoAnswer, Writes, DelayedCloseWillHappen, queueVars, streamVars, FlagsOK, IsOpen
<1>8. CASE HandlePingEnd
  BY <1>8, <1>0 DEF HandlePingEnd, Link, Writes, DelayedCloseWillHappen, queueVars, streamVars, FlagsOK
<1>9. CASE ReadError
  BY <1>9, <1>0 DEF ReadError, CloseSocket, Writes, DelayedCloseWillHappen, queueVars, streamVars, FlagsOK, IsOpen
<1>31. CASE DuplicateAuthSession
  BY <1>31, <1>0 DEF DuplicateAuthSession, CloseSocket, Writes, DelayedCloseWillHappen, queueVars, streamVars, FlagsOK, IsOpen
<1>10. CASE HandleAuthSession
  BY <1>10, <1>0 DEF HandleAuthSession, Writes, DelayedCloseWillHappen, queueVars, streamVars, FlagsOK, IsOpen
<1>11. CASE ReadHandlerEnd
  BY <1>11, <1>0 DEF ReadHandlerEnd, Writes, DelayedCloseWillHappen, queueVars, streamVars, FlagsOK, IsOpen
<1>12. CASE Authenticate
  BY <1>12, <1>0 DEF Authenticate, Writes, DelayedCloseWillHappen, queueVars, streamVars, FlagsOK, IsOpen
<1>13. CASE LoadPermissions
  BY <1>13, <1>0 DEF LoadPermissions, Writes, DelayedCloseWillHappen, queueVars, streamVars, FlagsOK, IsOpen
<1>14. CASE ReadFails
  BY <1>14, <1>0 DEF ReadFails, CloseSocket, Writes, DelayedCloseWillHappen, queueVars, streamVars, FlagsOK, IsOpen
<1>15. CASE ReadHandler
  BY <1>15, <1>0 DEF ReadHandler, Writes, DelayedCloseWillHappen, queueVars, streamVars, FlagsOK, IsOpen
<1>16. CASE KickPlayer
  BY <1>16, <1>0 DEF KickPlayer, Writes, DelayedCloseWillHappen, queueVars, streamVars, FlagsOK, IsOpen
<1>17. CASE KickPlayerEnd
  BY <1>17, <1>0 DEF KickPlayerEnd, Writes, DelayedCloseWillHappen, queueVars, streamVars, FlagsOK, IsOpen
<1>18. CASE DropSocket
  BY <1>18, <1>0 DEF DropSocket, Writes, DelayedCloseWillHappen, queueVars, streamVars, FlagsOK, IsOpen
<1>19. CASE DeleteSession
  BY <1>19, <1>0 DEF DeleteSession, Writes, DelayedCloseWillHappen, queueVars, streamVars, FlagsOK, IsOpen
<1>20. CASE Disconnect
  BY <1>20, <1>0 DEF Disconnect, Writes, DelayedCloseWillHappen, queueVars, streamVars, FlagsOK, IsOpen
<1>21. ASSUME NEW x \in Item, Challenge(x) PROVE Writes'
  <2>1. taken' = taken /\ Len(order') \in Nat /\ Len(order') >= Len(order)
        /\ (IsOpen => Len(order') = Len(order) + 1)
    BY <1>0, <1>21, Appended DEF Challenge, SendFromNet, EnqueueAlone, queueVars
  <2>2. ~closing
    BY <1>0, <1>21 DEF Challenge, Sessions
  <2> QED
    BY <1>0, <1>21, <2>1, <2>2 DEF Challenge, IsOpen, Writes, DelayedCloseWillHappen, streamVars, FlagsOK
<1>22. ASSUME NEW x \in Item, Refuse(x) PROVE Writes'
  <2>1. taken' = taken /\ Len(order') \in Nat /\ Len(order') >= Len(order)
        /\ (IsOpen => Len(order') = Len(order) + 1)
    BY <1>0, <1>22, Appended DEF Refuse, SendFromNet, EnqueueAlone, queueVars
  <2>2. ~closing
    BY <1>0, <1>22 DEF Refuse, Sessions
  <2> QED
    BY <1>0, <1>22, <2>1, <2>2 DEF Refuse, IsOpen, Writes, DelayedCloseWillHappen, streamVars, FlagsOK
<1>23. ASSUME NEW x \in Item, HandlePing(x) PROVE Writes'
  <2>1. Len(order') = Len(order) + 1 /\ taken' = taken
    BY <1>0, <1>23, Appended DEF HandlePing, Exchange
  <2> QED
    BY <1>0, <1>23, <2>1 DEF HandlePing, Writes, DelayedCloseWillHappen, streamVars, FlagsOK
<1>24. ASSUME NEW t \in Sender, SendPacket(t) PROVE Writes'
  <2>0. sending[t] \in Item
    BY <1>0, <1>24 DEF SendPacket, TypeOK
  <2>1. Len(order') = Len(order) + 1 /\ taken' = taken
    BY <1>0, <2>0, <1>24, Appended DEF SendPacket, Exchange
  <2> QED
    BY <1>0, <1>24, <2>1 DEF SendPacket, Writes, DelayedCloseWillHappen, streamVars, FlagsOK
<1>25. ASSUME NEW t \in Sender, SendPacketEnd(t) PROVE Writes'
  BY <1>25, <1>0 DEF SendPacketEnd, Link, Writes, DelayedCloseWillHappen, queueVars, streamVars, FlagsOK
<1>26. ASSUME NEW t \in Sender, NEW x \in Item, Send(t, x) PROVE Writes'
  BY <1>26, <1>0 DEF Send, Writes, DelayedCloseWillHappen, queueVars, streamVars, FlagsOK, IsOpen
<1>27. CASE HandleQueue
  BY <1>27, <1>0, WriteWrites DEF HandleQueue
<1>28. CASE WriteHandler
  BY <1>28, <1>0, WriteWrites DEF WriteHandler
<1>29. CASE WriteHandlerAgain
  BY <1>29, <1>0, WriteWrites DEF WriteHandlerAgain
<1>30. CASE UNCHANGED vars
  BY <1>30, <1>0 DEF vars, Writes, DelayedCloseWillHappen, queueVars, streamVars, FlagsOK
<1> QED
  BY <1>1, <1>2, <1>3, <1>4, <1>5, <1>6, <1>7, <1>8, <1>9, <1>10, <1>11, <1>12, <1>13, <1>14, <1>15, <1>16, <1>17, <1>18, <1>19, <1>20, <1>21, <1>22, <1>23, <1>24, <1>25, <1>26, <1>27, <1>28, <1>29, <1>30, <1>31 DEF Next, NetStep

-----------------------------------------------------------------------------
\* The invariant of the connection and of its queue.
THEOREM SocketInvariant == Spec => [](QInv /\ SInv)
<1>1. Init => QInv /\ SInv
  <2> SUFFICES ASSUME Init PROVE QInv /\ SInv
    OBVIOUS
  <2>1. QInv
    BY QueueInitInv DEF Init
  <2>2. FlagsOK
    BY DEF Init, FlagsOK
  <2>3. TypeOK
    <3>1. <<>> \in Seq(Item) /\ <<>> \in Seq(Seq(Item))
      OBVIOUS
    <3> QED
      BY <2>1, <2>2, <3>1 DEF Init, TypeOK, QInv
  <2>4. Places /\ Sessions /\ Writes
    BY DEF Init, Places, Sessions, Writes, DelayedCloseWillHappen
  <2> QED
    BY <2>1, <2>3, <2>4 DEF SInv
<1>2. QInv /\ SInv /\ [Next]_vars => (QInv /\ SInv)'
  <2> SUFFICES ASSUME QInv, SInv, [Next]_vars PROVE (QInv /\ SInv)'
    OBVIOUS
  <2>1. QInv'
    BY SocketMovesQueue, QueueStep DEF SInv
  <2> QED
    BY <2>1, TypeStep, PlacesStep, SessionsStep, WritesStep DEF SInv
<1> QED
  BY <1>1, <1>2, PTL DEF Spec

\* The connection uses its queue as the queue is meant to be used.
THEOREM SocketUsesQueue == Spec => QueueSpec
<1>1. Init => QueueInit
  BY DEF Init
<1>2. SInv /\ [Next]_vars => [QueueNext]_queueVars
  BY SocketMovesQueue DEF SInv
<1> QED
  BY <1>1, <1>2, SocketInvariant, PTL DEF Spec, QueueSpec

\* Packets leave _bufferQueue in the order in which they entered it, none twice, and
\* no thread touches a node that Dequeue has deleted.
THEOREM SocketQueueIsSound == Spec => []QueueIsSound
  BY SocketInvariant, QInvIsSound, PTL

\* The thread's count of connections is right.
THEOREM ConnectionsCounted == Spec => []ConnectionsExact
<1>1. SInv => ConnectionsExact
  BY DEF SInv, Places, ConnectionsExact
<1> QED
  BY <1>1, SocketInvariant, PTL

\* The race of the network thread's CloseSocket with ~WorldSession is benign: the network
\* thread never follows a pointer to a deleted session, and the pointer is null only on a
\* socket that another thread has closed.
THEOREM NoUseAfterFree == Spec => []SessionIsNotUsedAfterFree
<1>1. SInv => SessionIsNotUsedAfterFree
  BY DEF SInv, Sessions, SessionIsNotUsedAfterFree
<1> QED
  BY <1>1, SocketInvariant, PTL

\* A socket whose close is delayed always has something left to write.
THEOREM CloseIsNotForgotten == Spec => []DelayedCloseWillHappen
<1>1. SInv => DelayedCloseWillHappen
  BY DEF SInv, Writes
<1> QED
  BY <1>1, SocketInvariant, PTL

\* The types.
THEOREM TypeCorrect == Spec => []TypeOK
<1>1. SInv => TypeOK
  BY DEF SInv
<1> QED
  BY <1>1, SocketInvariant, PTL

-----------------------------------------------------------------------------
(* The stream of packets: which of its bytes are where *)

\* BytesSoFar, element by element.
Starts(s, t) == Len(s) <= Len(t) /\ \A i \in 1..Len(s) : s[i] = t[i]

\* It is the prefix of the specification of the stream.
LEMMA StartsIsPrefix ==
  ASSUME NEW S, NEW s \in Seq(S), NEW t \in Seq(S), Starts(s, t)
  PROVE  Stream!IsPrefix(s, t)
<1>1. Len(s) \in Nat /\ Len(t) \in Nat /\ Len(s) <= Len(t)
  BY DEF Starts
<1>2. \A i \in 1..Len(s) : s[i] = t[i]
  BY DEF Starts
<1>3. SubSeq(s, 1, Len(s)) = [i \in 1..Len(s) |-> s[i]]
  BY <1>1
<1>4. SubSeq(t, 1, Len(s)) = [i \in 1..Len(s) |-> t[i]]
  BY <1>1
<1> QED
  BY <1>1, <1>2, <1>3, <1>4 DEF Stream!IsPrefix

\* What a concatenation holds, where, and what it starts with.
LEMMA StartsConcat ==
  ASSUME NEW S, NEW s \in Seq(S), NEW t \in Seq(S)
  PROVE  /\ s \o t \in Seq(S) /\ Len(s \o t) = Len(s) + Len(t)
         /\ \A i \in 1..Len(s) : (s \o t)[i] = s[i]
         /\ \A i \in 1..Len(t) : (s \o t)[Len(s) + i] = t[i]
         /\ Starts(s, s \o t)
<1>1. Len(s) \in Nat /\ Len(t) \in Nat
  OBVIOUS
<1>2. /\ s \o t \in Seq(S) /\ Len(s \o t) = Len(s) + Len(t)
      /\ \A i \in 1..Len(s) : (s \o t)[i] = s[i]
      /\ \A i \in 1..Len(t) : (s \o t)[Len(s) + i] = t[i]
  BY <1>1
<1> QED
  BY <1>1, <1>2 DEF Starts

\* A prefix of a prefix is a prefix.
LEMMA StartsTransitive ==
  ASSUME NEW S, NEW s \in Seq(S), NEW t \in Seq(S), NEW u \in Seq(S),
         Starts(s, t), Starts(t, u)
  PROVE  Starts(s, u)
<1>1. Len(s) \in Nat /\ Len(t) \in Nat /\ Len(u) \in Nat
  OBVIOUS
<1> QED
  BY <1>1 DEF Starts

\* A set of numbers that is not empty has a smallest one.
LEMMA SmallestNumber ==
  ASSUME NEW A, A \subseteq Nat, A # {}
  PROVE  \E x \in A : \A y \in A : x <= y
<1>1. PICK x \in A : \A y \in A : ~ (<<y, x>> \in OpToRel(<, Nat))
  BY NatLessThanWellFounded, WFMin, Zenon
<1>2. ASSUME NEW y \in A PROVE x <= y
  <2>1. x \in Nat /\ y \in Nat
    OBVIOUS
  <2>2. ~ (y < x)
    BY <1>1, <2>1 DEF OpToRel
  <2> QED
    BY <2>1, <2>2
<1> QED
  BY <1>2

\* c[k] is what the first k sequences of q are together.
Joins(c, q, S) ==
  /\ c \in [0..Len(q) -> Seq(S)] /\ c[0] = <<>>
  /\ \A k \in 1..Len(q) : c[k] = c[k - 1] \o q[k]

\* There is only one way to join q step by step, and FlattenSeq finds it.
LEMMA FlattenIsJoin ==
  ASSUME NEW S, NEW q \in Seq(Seq(S)), NEW c, Joins(c, q, S)
  PROVE  Stream!FlattenSeq(q) = c[Len(q)]
<1>1. Len(q) \in Nat /\ \A k \in 1..Len(q) : q[k] \in Seq(S)
  OBVIOUS
<1>2. CASE Len(q) = 0
  BY <1>2 DEF Stream!FlattenSeq, Joins
<1>3. CASE Len(q) # 0
  <2> DEFINE F(g) == [i \in 1..Len(q) |-> IF i = 1 THEN q[i] ELSE g[i - 1] \o q[i]]
             flatten == CHOOSE g : g = F(g)
             d == [i \in 1..Len(q) |-> c[i]]
  <2>1. d = F(d)
    <3>1. ASSUME NEW i \in 1..Len(q) PROVE d[i] = F(d)[i]
      <4>1. CASE i = 1
        <5>0. 1 \in 1..Len(q) /\ 1 - 1 = 0
          BY <1>1, <1>3
        <5>1. c[1] = <<>> \o q[1]
          BY <5>0 DEF Joins
        <5>2. <<>> \o q[1] = q[1]
          BY <1>1, <1>3, ConcatEmptySeq
        <5> QED
          BY <4>1, <5>1, <5>2
      <4>2. CASE i # 1
        <5>1. i - 1 \in 1..Len(q)
          BY <1>1, <4>2
        <5> QED
          BY <4>2, <5>1 DEF Joins
      <4> QED
        BY <4>1, <4>2
    <3> QED
      BY <3>1
  <2>2. flatten = F(flatten)
    BY <2>1
  <2>3. Stream!FlattenSeq(q) = flatten[Len(q)]
    BY <1>1, <1>3 DEF Stream!FlattenSeq
  <2> HIDE DEF flatten
  <2>4. ASSUME NEW i \in 1..Len(q) PROVE flatten[i] = IF i = 1 THEN q[i] ELSE flatten[i - 1] \o q[i]
    <3>1. flatten[i] = F(flatten)[i]
      BY <2>2
    <3> QED
      BY <3>1
  <2>5. ASSUME NEW i \in 1..Len(q) PROVE d[i] = IF i = 1 THEN q[i] ELSE d[i - 1] \o q[i]
    <3>1. d[i] = F(d)[i]
      BY <2>1
    <3> QED
      BY <3>1
  <2> DEFINE A == {i \in 1..Len(q) : flatten[i] # d[i]}
  <2> HIDE DEF d
  <2>6. A = {}
    <3> SUFFICES ASSUME A # {} PROVE FALSE
      OBVIOUS
    <3>1. A \subseteq Nat
      BY <1>1
    <3>2. PICK x \in A : \A y \in A : x <= y
      BY <3>1, SmallestNumber
    <3>3. CASE x = 1
      BY <2>4, <2>5, <3>3
    <3>4. CASE x # 1
      <4>1. x - 1 \in 1..Len(q) /\ x \in 1..Len(q) /\ ~(x <= x - 1)
        BY <1>1, <3>4
      <4>2. flatten[x - 1] = d[x - 1]
        BY <3>2, <4>1
      <4> QED
        BY <2>4, <2>5, <3>4, <4>1, <4>2
    <3> QED
      BY <3>3, <3>4
  <2>7. Len(q) \in 1..Len(q)
    BY <1>1, <1>3
  <2>8. flatten[Len(q)] = d[Len(q)]
    BY <2>6, <2>7
  <2> QED
    BY <2>3, <2>7, <2>8 DEF d
<1> QED
  BY <1>2, <1>3

\* What the messages in q and the buffer are of b from its byte u + 1 on: message k
\* ends at byte e[k].
Cut(e, u, q, last, b) ==
  /\ e \in [0..Len(q) -> 0..Len(b)] /\ e[0] = u
  /\ \A k \in 1..Len(q) :
       e[k] = e[k - 1] + Len(q[k]) /\ \A j \in 1..Len(q[k]) : q[k][j] = b[e[k - 1] + j]
  /\ e[Len(q)] + Len(last) = Len(b)
  /\ \A j \in 1..Len(last) : last[j] = b[e[Len(q)] + j]

\* They are the rest of b, all of it and in this order.
IsCut(u, q, last, b) == \E e : Cut(e, u, q, last, b)

\* Sums of positions, regrouped.
LEMMA Regroup ==
  \A i, j, k \in Nat : i + (j + k) = (i + j) + k /\ i + k = (i + j) + (k - j)
OBVIOUS

\* Nothing waits to be written.
LEMMA CutOfNothing ==
  ASSUME NEW S, NEW b \in Seq(S)
  PROVE IsCut(Len(b), <<>>, <<>>, b)
<1>1. Len(b) \in Nat
  OBVIOUS
<1>2. Cut([k \in 0..0 |-> Len(b)], Len(b), <<>>, <<>>, b)
  BY <1>1 DEF Cut
<1> QED
  BY <1>2 DEF IsCut

\* The buffer becomes the last message (Update of WorldSocket, QueuePacket).
LEMMA CutAppend ==
  ASSUME NEW S, NEW q \in Seq(Seq(S)), NEW last \in Seq(S), NEW b \in Seq(S), NEW u,
         IsCut(u, q, last, b)
  PROVE IsCut(u, Append(q, last), <<>>, b)
<1>1. PICK e : Cut(e, u, q, last, b)
  BY DEF IsCut
<1> DEFINE r == Append(q, last)
           f == [k \in 0..(Len(q) + 1) |-> IF k <= Len(q) THEN e[k] ELSE Len(b)]
<1>2. /\ Len(q) \in Nat /\ Len(b) \in Nat /\ Len(last) \in Nat
      /\ Len(r) = Len(q) + 1 /\ \A k \in 1..Len(q) : r[k] = q[k]
      /\ r[Len(q) + 1] = last /\ \A k \in 1..Len(q) : Len(q[k]) \in Nat
  OBVIOUS
<1> HIDE DEF r
<1>3. f \in [0..Len(r) -> 0..Len(b)] /\ f[0] = u /\ f[Len(r)] = Len(b)
      /\ \A k \in 0..Len(q) : f[k] = e[k]
  BY <1>1, <1>2 DEF Cut
<1> HIDE DEF f
<1>4. ASSUME NEW k \in 1..Len(r)
      PROVE f[k] = f[k - 1] + Len(r[k]) /\ \A j \in 1..Len(r[k]) : r[k][j] = b[f[k - 1] + j]
  <2>1. CASE k \in 1..Len(q)
    <3>1. k \in 0..Len(q) /\ k - 1 \in 0..Len(q)
      BY <1>2, <2>1
    <3>2. f[k] = e[k] /\ f[k - 1] = e[k - 1] /\ r[k] = q[k]
      BY <1>2, <1>3, <2>1, <3>1
    <3>3. e[k] = e[k - 1] + Len(q[k]) /\ \A j \in 1..Len(q[k]) : q[k][j] = b[e[k - 1] + j]
      BY <1>1, <2>1 DEF Cut
    <3> QED
      BY <3>2, <3>3, Zenon
  <2>2. CASE k = Len(q) + 1
    <3>1. Len(q) \in 0..Len(q) /\ k - 1 = Len(q)
      BY <1>2, <2>2
    <3>2. f[k] = Len(b) /\ f[k - 1] = e[Len(q)] /\ r[k] = last
      BY <1>2, <1>3, <2>2, <3>1
    <3>3. Len(b) = e[Len(q)] + Len(last) /\ \A j \in 1..Len(last) : last[j] = b[e[Len(q)] + j]
      BY <1>1 DEF Cut
    <3> QED
      BY <3>2, <3>3, Zenon
  <2>3. k \in 1..Len(q) \/ k = Len(q) + 1
    BY <1>2
  <2> QED
    BY <2>1, <2>2, <2>3
<1>5. f[Len(r)] = Len(b) /\ Len(<<>>) = 0
  BY <1>3
<1>6. Cut(f, u, r, <<>>, b)
  BY <1>2, <1>3, <1>4, <1>5 DEF Cut
<1> QED
  BY <1>6 DEF IsCut, r

\* Bytes are put into the buffer.
LEMMA CutConcat ==
  ASSUME NEW S, NEW q \in Seq(Seq(S)), NEW last \in Seq(S), NEW b \in Seq(S),
         NEW y \in Seq(S), NEW u, IsCut(u, q, last, b)
  PROVE IsCut(u, q, last \o y, b \o y)
<1>1. PICK e : Cut(e, u, q, last, b)
  BY DEF IsCut
<1>2. Len(q) \in Nat /\ Len(b) \in Nat /\ Len(last) \in Nat /\ Len(y) \in Nat
  OBVIOUS
<1>10. \A k \in 1..Len(q) : Len(q[k]) \in Nat
  OBVIOUS
<1>3. /\ Len(b \o y) = Len(b) + Len(y) /\ Len(last \o y) = Len(last) + Len(y)
      /\ \A i \in 1..Len(b) : (b \o y)[i] = b[i]
      /\ \A i \in 1..Len(y) : (b \o y)[Len(b) + i] = y[i]
      /\ \A i \in 1..Len(last) : (last \o y)[i] = last[i]
      /\ \A i \in 1..Len(y) : (last \o y)[Len(last) + i] = y[i]
  BY StartsConcat
<1> DEFINE c == b \o y
           l == last \o y
<1>4. /\ Len(c) = Len(b) + Len(y) /\ Len(l) = Len(last) + Len(y)
      /\ \A i \in 1..Len(b) : c[i] = b[i]
      /\ \A i \in 1..Len(y) : c[Len(b) + i] = y[i]
      /\ \A i \in 1..Len(last) : l[i] = last[i]
      /\ \A i \in 1..Len(y) : l[Len(last) + i] = y[i]
  BY <1>3
<1> HIDE DEF c, l
<1>5. e \in [0..Len(q) -> 0..Len(b)] /\ e[0] = u /\ e[Len(q)] + Len(last) = Len(b)
  BY <1>1 DEF Cut
<1>6. e \in [0..Len(q) -> 0..Len(c)] /\ e[Len(q)] + Len(l) = Len(c)
      /\ \A i \in 0..Len(q) : e[i] \in 0..Len(b)
  <2>1. \A i \in 0..Len(q) : e[i] \in 0..Len(b)
    BY <1>5
  <2>2. 0..Len(b) \subseteq 0..Len(c) /\ Len(q) \in 0..Len(q)
    BY <1>2, <1>4
  <2>3. e[Len(q)] \in Nat
    BY <1>2, <2>1, <2>2
  <2>4. e \in [0..Len(q) -> 0..Len(c)]
    BY <1>5, <2>2
  <2>5. e[Len(q)] + Len(l) = Len(c)
    <3>1. Len(c) = Len(b) + Len(y) /\ Len(l) = Len(last) + Len(y)
      BY <1>4
    <3>2. e[Len(q)] + Len(last) = Len(b)
      BY <1>5
    <3>3. e[Len(q)] + (Len(last) + Len(y)) = (e[Len(q)] + Len(last)) + Len(y)
      BY <1>2, <2>3, Regroup
    <3> QED
      BY <3>1, <3>2, <3>3, Zenon
  <2> QED
    BY <2>1, <2>4, <2>5
<1>7. ASSUME NEW k \in 1..Len(q)
      PROVE e[k] = e[k - 1] + Len(q[k]) /\ \A j \in 1..Len(q[k]) : q[k][j] = c[e[k - 1] + j]
  <2>1. e[k] = e[k - 1] + Len(q[k]) /\ \A j \in 1..Len(q[k]) : q[k][j] = b[e[k - 1] + j]
    BY <1>1 DEF Cut
  <2>2. k - 1 \in 0..Len(q) /\ k \in 0..Len(q) /\ Len(q[k]) \in Nat
    BY <1>2, <1>10
  <2>3. e[k - 1] \in Nat /\ e[k] \in 0..Len(b)
    <3>1. e[k - 1] \in 0..Len(b) /\ e[k] \in 0..Len(b)
      BY <1>6, <2>2
    <3> QED
      BY <1>2, <3>1
  <2>4. ASSUME NEW j \in 1..Len(q[k]) PROVE e[k - 1] + j \in 1..Len(b)
    BY <1>2, <2>1, <2>2, <2>3
  <2> QED
    BY <1>4, <2>1, <2>4
<1>8. ASSUME NEW j \in 1..Len(l) PROVE l[j] = c[e[Len(q)] + j]
  <2>1. e[Len(q)] \in Nat
    <3>1. Len(q) \in 0..Len(q)
      BY <1>2
    <3>2. e[Len(q)] \in 0..Len(b)
      BY <1>6, <3>1
    <3> QED
      BY <1>2, <3>2
  <2>2. CASE j \in 1..Len(last)
    <3>1. e[Len(q)] + j \in 1..Len(b) /\ last[j] = b[e[Len(q)] + j]
      BY <1>1, <1>2, <1>5, <2>1, <2>2 DEF Cut
    <3> QED
      BY <1>4, <2>2, <3>1
  <2>3. CASE ~(j \in 1..Len(last))
    <3>1. PICK i \in 1..Len(y) : j = Len(last) + i
      <4>1. j - Len(last) \in 1..Len(y) /\ j = Len(last) + (j - Len(last))
        BY <1>2, <1>4, <2>3
      <4> QED
        BY <4>1
    <3>2. e[Len(q)] + j = Len(b) + i
      <4>1. e[Len(q)] + Len(last) = Len(b) /\ i \in Nat
        BY <1>2, <1>5
      <4>2. e[Len(q)] + (Len(last) + i) = (e[Len(q)] + Len(last)) + i
        BY <1>2, <2>1, <4>1, Regroup
      <4> QED
        BY <3>1, <4>1, <4>2, Zenon
    <3> QED
      BY <1>4, <3>1, <3>2
  <2> QED
    BY <2>2, <2>3
<1>9. Cut(e, u, q, l, c)
  BY <1>5, <1>6, <1>7, <1>8 DEF Cut
<1> QED
  BY <1>9 DEF IsCut, c, l

\* The first message of a cut
LEMMA CutFirst ==
  ASSUME NEW q, NEW last, NEW b, NEW u, NEW e,
         Len(q) \in Nat \ {0}, Len(b) \in Nat, Cut(e, u, q, last, b)
  PROVE /\ e[0] = u /\ e[1] = u + Len(q[1]) /\ u \in Nat /\ e[1] \in 0..Len(b)
        /\ \A j \in 1..Len(q[1]) : q[1][j] = b[u + j]
<1>2. 1 \in 1..Len(q) /\ 0 \in 0..Len(q) /\ 1 \in 0..Len(q) /\ 1 - 1 = 0
  OBVIOUS
<1>3. e \in [0..Len(q) -> 0..Len(b)] /\ e[0] = u
  BY DEF Cut
<1>4. e[1] \in 0..Len(b) /\ u \in 0..Len(b)
  BY <1>2, <1>3
<1>5. e[1] = e[1 - 1] + Len(q[1]) /\ \A j \in 1..Len(q[1]) : q[1][j] = b[e[1 - 1] + j]
  BY <1>2 DEF Cut
<1>6. e[1] = u + Len(q[1]) /\ \A j \in 1..Len(q[1]) : q[1][j] = b[u + j]
  BY <1>2, <1>3, <1>5
<1> QED
  BY <1>3, <1>4, <1>6

\* The first message is what follows the bytes that were written.
LEMMA CutFront ==
  ASSUME NEW S, NEW q \in Seq(Seq(S)), q # <<>>, NEW last \in Seq(S), NEW b \in Seq(S),
         NEW u, IsCut(u, q, last, b)
  PROVE /\ u \in Nat /\ u + Len(Head(q)) <= Len(b)
        /\ \A j \in 1..Len(Head(q)) : Head(q)[j] = b[u + j]
<1>1. PICK e : Cut(e, u, q, last, b)
  BY DEF IsCut
<1>2. Len(b) \in Nat /\ Head(q) = q[1] /\ Len(q) \in Nat \ {0}
  BY EmptySeq, LenProperties, HeadTailProperties
<1>3. /\ e[0] = u /\ e[1] = u + Len(q[1]) /\ u \in Nat /\ e[1] \in 0..Len(b)
      /\ \A j \in 1..Len(q[1]) : q[1][j] = b[u + j]
  BY <1>1, <1>2, CutFirst
<1> QED
  BY <1>2, <1>3

\* The first message was written as a whole.
LEMMA CutTail ==
  ASSUME NEW S, NEW q \in Seq(Seq(S)), q # <<>>, NEW last \in Seq(S), NEW b \in Seq(S),
         NEW u, IsCut(u, q, last, b)
  PROVE IsCut(u + Len(Head(q)), Tail(q), last, b)
<1>1. PICK e : Cut(e, u, q, last, b)
  BY DEF IsCut
<1> DEFINE r == Tail(q)
           f == [k \in 0..(Len(q) - 1) |-> e[k + 1]]
<1>2. /\ Len(q) \in Nat \ {0} /\ Len(b) \in Nat /\ Len(last) \in Nat
      /\ Head(q) = q[1] /\ Len(r) = Len(q) - 1
      /\ \A k \in 1..(Len(q) - 1) : r[k] = q[k + 1]
  BY EmptySeq, LenProperties, HeadTailProperties
<1> HIDE DEF r
<1>3. 1 \in 1..Len(q) /\ 1 - 1 = 0
  BY <1>2
<1>4. f[0] = u + Len(q[1])
  BY <1>1, <1>2, <1>3 DEF Cut
<1>5. f \in [0..Len(r) -> 0..Len(b)]
  BY <1>1, <1>2 DEF Cut
<1>6. f[Len(r)] = e[Len(q)]
  BY <1>2
<1>7. ASSUME NEW k \in 1..Len(r)
      PROVE f[k] = f[k - 1] + Len(r[k]) /\ \A j \in 1..Len(r[k]) : r[k][j] = b[f[k - 1] + j]
  <2>1. k + 1 \in 1..Len(q) /\ (k + 1) - 1 = k
    BY <1>2
  <2>2. f[k] = e[k + 1] /\ f[k - 1] = e[k] /\ r[k] = q[k + 1]
    BY <1>2
  <2>3. e[k + 1] = e[(k + 1) - 1] + Len(q[k + 1])
        /\ \A j \in 1..Len(q[k + 1]) : q[k + 1][j] = b[e[(k + 1) - 1] + j]
    BY <1>1, <2>1 DEF Cut
  <2> QED
    BY <2>1, <2>2, <2>3
<1>8. Cut(f, u + Len(q[1]), r, last, b)
  <2> HIDE DEF f
  <2> QED
    BY <1>1, <1>4, <1>5, <1>6, <1>7 DEF Cut
<1> QED
  BY <1>2, <1>8 DEF IsCut, r

\* The first message was written up to its byte n.
LEMMA CutShort ==
  ASSUME NEW S, NEW q \in Seq(Seq(S)), q # <<>>, NEW last \in Seq(S), NEW b \in Seq(S),
         NEW u, IsCut(u, q, last, b), NEW n \in 1..(Len(Head(q)) - 1)
  PROVE IsCut(u + n, <<SubSeq(Head(q), n + 1, Len(Head(q)))>> \o Tail(q), last, b)
<1>1. PICK e : Cut(e, u, q, last, b)
  BY DEF IsCut
<1> DEFINE rest == SubSeq(Head(q), n + 1, Len(Head(q)))
           r == <<rest>> \o Tail(q)
           f == [k \in 0..Len(q) |-> IF k = 0 THEN u + n ELSE e[k]]
<1>2. /\ Len(q) \in Nat \ {0} /\ Len(b) \in Nat /\ Len(last) \in Nat
      /\ Head(q) = q[1] /\ q[1] \in Seq(S) /\ Len(q[1]) \in Nat
      /\ Tail(q) \in Seq(Seq(S)) /\ Len(Tail(q)) = Len(q) - 1
      /\ \A k \in 1..(Len(q) - 1) : Tail(q)[k] = q[k + 1]
  BY EmptySeq, LenProperties, HeadTailProperties
<1>3. /\ rest \in Seq(S) /\ Len(rest) = Len(q[1]) - n
      /\ \A j \in 1..Len(rest) : rest[j] = q[1][n + j]
  BY <1>2
<1> HIDE DEF rest
<1>4. /\ Len(<<rest>>) = 1 /\ <<rest>>[1] = rest /\ <<rest>> \in Seq(Seq(S))
  BY <1>3
<1>5. Len(r) = Len(q) /\ r[1] = rest /\ \A k \in 1..(Len(q) - 1) : r[1 + k] = Tail(q)[k]
  BY <1>2, <1>4, StartsConcat
<1>6. ASSUME NEW k \in 2..Len(q) PROVE r[k] = q[k]
  <2>1. k - 1 \in 1..(Len(q) - 1) /\ 1 + (k - 1) = k /\ (k - 1) + 1 = k
    BY <1>2
  <2> QED
    BY <1>2, <1>5, <2>1
<1> HIDE DEF r
<1>7. /\ e[0] = u /\ e[1] = u + Len(q[1]) /\ u \in Nat /\ e[1] \in 0..Len(b)
      /\ \A j \in 1..Len(q[1]) : q[1][j] = b[u + j]
  BY <1>1, <1>2, CutFirst
<1>8. u + n \in 0..Len(b) /\ n \in Nat
  BY <1>2, <1>7
<1>9. f \in [0..Len(r) -> 0..Len(b)] /\ f[0] = u + n /\ f[Len(r)] = e[Len(q)]
      /\ \A k \in 1..Len(q) : f[k] = e[k]
  BY <1>1, <1>2, <1>5, <1>8 DEF Cut
<1> HIDE DEF f
<1>10. ASSUME NEW k \in 1..Len(r)
       PROVE f[k] = f[k - 1] + Len(r[k]) /\ \A j \in 1..Len(r[k]) : r[k][j] = b[f[k - 1] + j]
  <2>1. CASE k = 1
    <3>1. f[k] = e[1] /\ f[k - 1] = u + n /\ r[k] = rest
      BY <1>2, <1>5, <1>9, <2>1
    <3>2. e[1] = (u + n) + Len(rest)
      <4>1. e[1] = u + Len(q[1]) /\ Len(rest) = Len(q[1]) - n
        BY <1>3, <1>7
      <4>2. Len(q[1]) \in Nat /\ u \in Nat /\ n \in Nat
        BY <1>2, <1>7, <1>8
      <4>3. u + Len(q[1]) = (u + n) + (Len(q[1]) - n)
        BY <4>2, Regroup
      <4> QED
        BY <4>1, <4>3, Zenon
    <3>3. ASSUME NEW j \in 1..Len(rest) PROVE rest[j] = b[(u + n) + j]
      <4>1. n + j \in 1..Len(q[1]) /\ u + (n + j) = (u + n) + j
        BY <1>2, <1>3, <1>7, <1>8
      <4> QED
        BY <1>3, <1>7, <4>1
    <3> QED
      BY <3>1, <3>2, <3>3, Zenon
  <2>2. CASE k # 1
    <3>1. k \in 2..Len(q) /\ k \in 1..Len(q) /\ k - 1 \in 1..Len(q)
      BY <1>2, <1>5, <2>2
    <3>2. f[k] = e[k] /\ f[k - 1] = e[k - 1] /\ r[k] = q[k]
      BY <1>6, <1>9, <3>1
    <3>3. e[k] = e[k - 1] + Len(q[k]) /\ \A j \in 1..Len(q[k]) : q[k][j] = b[e[k - 1] + j]
      BY <1>1, <3>1 DEF Cut
    <3> QED
      BY <3>2, <3>3, Zenon
  <2> QED
    BY <2>1, <2>2
<1>11. Cut(f, u + n, r, last, b)
  BY <1>1, <1>5, <1>9, <1>10 DEF Cut
<1> QED
  BY <1>11 DEF IsCut, r, rest

\* The packets in the order of the exchanges, and each as its bytes
Sent == Tail(order)
Copied(s) == [i \in DOMAIN s |-> Copies(s[i])]

\* c[k] are the bytes of the first k packets of s.
BytesSoFar(c, s) ==
  /\ Joins(c, Copied(s), Item)
  /\ \A i, j \in 0..Len(s) : i <= j => Starts(c[i], c[j])

\* What was written is the beginning of what was dequeued, and as long as the socket
\* can write, the messages and the buffer are the rest of it.
Written(b) ==
  /\ Starts(wire, b)
  /\ sendable => IsCut(Len(wire), writeQueue, buffer, b)

StreamInv == order[1] = Stub /\ \E c : BytesSoFar(c, Sent) /\ Written(c[taken])

\* A packet as the bytes that are written.
LEMMA CopiesAreBytes == ASSUME NEW x \in Item PROVE Copies(x) \in Seq(Item)
BY SocketAssumption DEF Copies

\* The packets of s, each as its bytes.
LEMMA CopiedSent ==
  ASSUME NEW s \in Seq(Item)
  PROVE /\ Copied(s) \in Seq(Seq(Item)) /\ Len(Copied(s)) = Len(s)
        /\ \A i \in 1..Len(s) : Copied(s)[i] = Copies(s[i])
<1>1. DOMAIN s = 1..Len(s) /\ Len(s) \in Nat /\ \A i \in 1..Len(s) : s[i] \in Item
  OBVIOUS
<1>2. \A i \in 1..Len(s) : Copies(s[i]) \in Seq(Item)
  BY <1>1, CopiesAreBytes
<1> QED
  BY <1>1, <1>2 DEF Copied

\* The bytes of all packets are the last of the prefixes, and each packet adds its own.
LEMMA PrefixFacts ==
  ASSUME NEW s \in Seq(Item), NEW c, BytesSoFar(c, s)
  PROVE /\ \A i \in 0..Len(s) : c[i] \in Seq(Item) /\ Starts(c[i], c[Len(s)])
        /\ Stream!Bytes(s) = c[Len(s)]
        /\ \A k \in 1..Len(s) : c[k] = c[k - 1] \o Copies(s[k])
<1>1. Len(s) \in Nat
  OBVIOUS
<1>2. /\ Copied(s) \in Seq(Seq(Item)) /\ Len(Copied(s)) = Len(s)
      /\ \A i \in 1..Len(s) : Copied(s)[i] = Copies(s[i])
  BY CopiedSent
<1>3. Joins(c, Copied(s), Item)
  BY DEF BytesSoFar
<1>4. c \in [0..Len(s) -> Seq(Item)] /\ \A k \in 1..Len(s) : c[k] = c[k - 1] \o Copied(s)[k]
  BY <1>2, <1>3 DEF Joins
<1>5. Stream!FlattenSeq(Copied(s)) = c[Len(s)]
  BY <1>2, <1>3, FlattenIsJoin
<1>6. Stream!Bytes(s) = Stream!FlattenSeq(Copied(s))
  BY DEF Stream!Bytes, Copied, Copies
<1>7. \A i \in 0..Len(s) : Starts(c[i], c[Len(s)])
  BY <1>1 DEF BytesSoFar
<1> QED
  BY <1>2, <1>4, <1>5, <1>6, <1>7

\* A further packet changes no prefix.
LEMMA BytesSoFarAppend ==
  ASSUME NEW s \in Seq(Item), NEW c, BytesSoFar(c, s), NEW x \in Item
  PROVE \E d : BytesSoFar(d, Append(s, x)) /\ \A i \in 0..Len(s) : d[i] = c[i]
<1> DEFINE t == Append(s, x)
           q == Copied(s)
           r == Copied(t)
           n == Len(s)
           d == [i \in 0..(n + 1) |-> IF i <= n THEN c[i] ELSE c[n] \o Copies(x)]
<1>6. /\ t \in Seq(Item) /\ Len(t) = n + 1 /\ \A i \in 1..n : t[i] = s[i]
      /\ t[n + 1] = x
  OBVIOUS
<1> HIDE DEF t
<1>7. /\ q \in Seq(Seq(Item)) /\ Len(q) = n /\ r \in Seq(Seq(Item)) /\ Len(r) = n + 1
      /\ \A i \in 1..n : q[i] = Copies(s[i])
      /\ \A i \in 1..(n + 1) : r[i] = Copies(t[i])
  BY <1>6, CopiedSent
<1> HIDE DEF q, r
<1>8. /\ c \in [0..n -> Seq(Item)] /\ c[0] = <<>> /\ \A k \in 1..n : c[k] = c[k - 1] \o q[k]
      /\ \A i, j \in 0..n : i <= j => Starts(c[i], c[j])
  BY <1>7 DEF BytesSoFar, Joins, q
<1>9. n \in Nat /\ n \in 0..n /\ c[n] \in Seq(Item) /\ Copies(x) \in Seq(Item)
  BY <1>8, CopiesAreBytes
<1>10. c[n] \o Copies(x) \in Seq(Item) /\ Starts(c[n], c[n] \o Copies(x))
  BY <1>9, StartsConcat
<1>11. /\ d \in [0..(n + 1) -> Seq(Item)] /\ \A i \in 0..n : d[i] = c[i]
       /\ d[n + 1] = c[n] \o Copies(x)
  BY <1>8, <1>9, <1>10
<1> HIDE DEF d, n
<1>12. ASSUME NEW k \in 1..(n + 1) PROVE d[k] = d[k - 1] \o r[k]
  <2>1. CASE k \in 1..n
    <3>1. k \in 0..n /\ k - 1 \in 0..n
      BY <1>9, <2>1
    <3>2. d[k] = c[k] /\ d[k - 1] = c[k - 1]
      BY <1>11, <3>1
    <3>3. r[k] = q[k] /\ c[k] = c[k - 1] \o q[k]
      BY <1>6, <1>7, <1>8, <2>1
    <3> QED
      BY <3>2, <3>3, Zenon
  <2>2. CASE k = n + 1
    <3>1. d[k - 1] = c[n] /\ r[k] = Copies(x)
      BY <1>6, <1>7, <1>9, <1>11, <2>2
    <3> QED
      BY <1>11, <2>2, <3>1
  <2>3. k \in 1..n \/ k = n + 1
    BY <1>9
  <2> QED
    BY <2>1, <2>2, <2>3
<1>13. Joins(d, r, Item)
  <2>1. 0 \in 0..n
    BY <1>9
  <2> QED
    BY <1>7, <1>8, <1>11, <1>12, <2>1 DEF Joins
<1>14. ASSUME NEW i \in 0..(n + 1), NEW j \in 0..(n + 1), i <= j PROVE Starts(d[i], d[j])
  <2>1. CASE j \in 0..n
    <3>1. i \in 0..n
      BY <1>9, <1>14, <2>1
    <3> QED
      BY <1>8, <1>11, <1>14, <2>1, <3>1
  <2>2. CASE j = n + 1 /\ i \in 0..n
    <3>1. Starts(c[i], c[n]) /\ c[i] \in Seq(Item)
      BY <1>8, <1>9, <2>2
    <3>2. Starts(c[i], c[n] \o Copies(x))
      BY <1>9, <1>10, <3>1, StartsTransitive
    <3> QED
      BY <1>11, <2>2, <3>2
  <2>3. CASE j = n + 1 /\ i = n + 1
    BY <2>3, <1>10, <1>11 DEF Starts
  <2>4. (i \in 0..n \/ i = n + 1) /\ (j \in 0..n \/ j = n + 1)
    BY <1>9
  <2>5. ~(i = n + 1 /\ j \in 0..n)
    BY <1>9, <1>14
  <2> QED
    BY <2>1, <2>2, <2>3, <2>4, <2>5
<1>15. BytesSoFar(d, t)
  BY <1>6, <1>13, <1>14 DEF BytesSoFar, r
<1> QED
  BY <1>11, <1>15 DEF t, n

\* The items of the queue without its first node
LEMMA SentItems ==
  ASSUME QInv, order[1] = Stub
  PROVE /\ Sent \in Seq(Item) /\ Len(Sent) = Len(order) - 1 /\ Len(Sent) \in Nat
        /\ \A i \in 1..Len(Sent) : Sent[i] = order[i + 1]
        /\ taken \in 0..Len(Sent)
<1>1. /\ order \in Seq(Node) /\ Len(order) \in Nat /\ taken \in Nat /\ taken < Len(order)
      /\ order # <<>>
  BY DEF QInv, QueueTypeOK, Ends
<1>2. /\ Tail(order) \in Seq(Node) /\ Len(Tail(order)) = Len(order) - 1
      /\ \A i \in 1..(Len(order) - 1) : Tail(order)[i] = order[i + 1]
  BY <1>1, HeadTailProperties
<1>3. ASSUME NEW i \in 1..(Len(order) - 1) PROVE order[i + 1] \in Item
  <2>1. i + 1 \in 1..Len(order) /\ 1 \in 1..Len(order) /\ i + 1 # 1
    BY <1>1
  <2>2. order[i + 1] # Stub
    BY <2>1 DEF QInv, OrderIsInjective
  <2> QED
    BY <1>1, <2>1, <2>2 DEF Node
<1> DEFINE s == Tail(order)
<1>4. s \in Seq(Node) /\ \A i \in 1..Len(s) : s[i] \in Item
  BY <1>1, <1>2, <1>3
<1> HIDE DEF s
<1>5. s \in Seq(Item)
  BY <1>4
<1> QED
  BY <1>1, <1>2, <1>5 DEF Sent, s

\* A packet enters the queue.
LEMMA QueuedKeeps ==
  ASSUME QInv, QInv', StreamInv, NEW x \in Item, order' = Append(order, x), taken' = taken,
         UNCHANGED <<wire, writeQueue, buffer, sendable>>
  PROVE StreamInv' /\ Sent' = Append(Sent, x)
<1>1. PICK c : BytesSoFar(c, Sent) /\ Written(c[taken])
  BY DEF StreamInv
<1>2. /\ order \in Seq(Node) /\ Len(order) \in Nat \ {0} /\ x \in Node
  BY DEF QInv, QueueTypeOK, Ends, Node
<1>3. order[1] = Stub /\ order'[1] = Stub
  BY <1>2 DEF StreamInv
<1>4. Sent \in Seq(Item) /\ taken \in 0..Len(Sent)
  BY <1>3, SentItems
<1>5. Sent' = Append(Sent, x)
  BY <1>2 DEF Sent
<1>6. PICK d : BytesSoFar(d, Append(Sent, x)) /\ \A i \in 0..Len(Sent) : d[i] = c[i]
  BY <1>1, <1>4, BytesSoFarAppend
<1>7. BytesSoFar(d, Sent')
  BY <1>5, <1>6
<1>8. d[taken'] = c[taken]
  BY <1>4, <1>6
<1>9. Written(d[taken])'
  BY <1>1, <1>8 DEF Written
<1> QED
  BY <1>3, <1>5, <1>7, <1>9 DEF StreamInv

\* Steps that touch neither the packets nor the bytes
Quiet == UNCHANGED <<order, taken, wire, writeQueue, buffer>> /\ (sendable' => sendable)

\* They leave the stream as it is.
LEMMA QuietKeeps == StreamInv /\ Quiet => StreamInv' /\ Sent' = Sent
<1> SUFFICES ASSUME StreamInv, Quiet PROVE StreamInv' /\ Sent' = Sent
  OBVIOUS
<1>1. PICK c : BytesSoFar(c, Sent) /\ Written(c[taken])
  BY DEF StreamInv
<1>2. Sent' = Sent /\ order'[1] = Stub /\ taken' = taken
  BY DEF Quiet, Sent, StreamInv
<1>3. Written(c[taken])'
  BY <1>1 DEF Written, Quiet
<1> QED
  BY <1>1, <1>2, <1>3 DEF StreamInv

\* A packet leaves the queue: its bytes are the next ones, and they go behind the buffer.
LEMMA FlushPacketKeeps ==
  ASSUME QInv, TypeOK, StreamInv, FlushPacket
  PROVE StreamInv' /\ Sent' = Sent /\ wire' = wire
<1>1. PICK c : BytesSoFar(c, Sent) /\ Written(c[taken])
  BY DEF StreamInv
<1>2. /\ order' = order /\ taken' = taken + 1 /\ wire' = wire /\ sendable' = sendable
      /\ Pack(next[tail]) /\ next[tail] # Null
  BY DEF FlushPacket, Dequeue
<1> DEFINE x == next[tail]
<1>3. /\ order[1] = Stub /\ Sent \in Seq(Item) /\ Len(Sent) = Len(order) - 1
      /\ Len(Sent) \in Nat /\ taken \in 0..Len(Sent)
      /\ \A i \in 1..Len(Sent) : Sent[i] = order[i + 1]
  BY SentItems DEF StreamInv
<1>4. taken + 1 \in 1..Len(Sent) /\ x = order[taken + 2]
  <2>1. tail = order[taken + 1] /\ head = order[Len(order)] /\ next[head] = Null
    BY DEF QInv, Ends, Linked
  <2>2. taken + 1 # Len(order)
    BY <1>2, <2>1
  <2>3. taken + 1 \in 1..(Len(order) - 1) /\ (taken + 1) + 1 = taken + 2
    BY <1>3, <2>2
  <2>4. next[order[taken + 1]] \in {Null, order[(taken + 1) + 1]}
    BY <2>3 DEF QInv, Linked
  <2> QED
    BY <1>2, <1>3, <2>1, <2>3, <2>4
<1>5. x = Sent[taken + 1] /\ x \in Item
  BY <1>3, <1>4
<1>6. /\ c[taken] \in Seq(Item) /\ c[taken + 1] = c[taken] \o Copies(x)
  <2>1. c[taken + 1] = c[(taken + 1) - 1] \o Copies(Sent[taken + 1])
    BY <1>1, <1>3, <1>4, PrefixFacts
  <2>2. (taken + 1) - 1 = taken
    BY <1>3
  <2> QED
    BY <1>1, <1>3, <1>5, <2>1, <2>2, PrefixFacts
<1> HIDE DEF x
<1> DEFINE b == c[taken]
           d == b \o Copies(x)
<1>7. /\ wire \in Seq(Item) /\ writeQueue \in Seq(Seq(Item)) /\ buffer \in Seq(Item)
      /\ b \in Seq(Item) /\ Copies(x) \in Seq(Item) /\ d \in Seq(Item) /\ <<>> \in Seq(Item)
  BY <1>5, <1>6, CopiesAreBytes, StartsConcat DEF TypeOK
<1>8. Starts(wire, d)
  <2>1. Starts(wire, b) /\ Starts(b, d)
    BY <1>1, <1>7, StartsConcat DEF Written
  <2> HIDE DEF b, d
  <2> QED
    BY <1>7, <2>1, StartsTransitive
<1>9. ASSUME sendable PROVE IsCut(Len(wire), writeQueue', buffer', d)
  <2> DEFINE full == Len(buffer) + SizeOf[x] > Capacity
             queued == IF full THEN Append(writeQueue, buffer) ELSE writeQueue
             rest == IF full THEN <<>> ELSE buffer
  <2>1. IsCut(Len(wire), writeQueue, buffer, b)
    BY <1>1, <1>9 DEF Written
  <2>2. /\ queued \in Seq(Seq(Item)) /\ rest \in Seq(Item)
    BY <1>7
  <2>3. IsCut(Len(wire), queued, rest, b)
    <3>1. CASE full
      BY <1>7, <2>1, <3>1, CutAppend
    <3>2. CASE ~full
      BY <2>1, <3>2
    <3> QED
      BY <3>1, <3>2
  <2>4. \/ writeQueue' = queued /\ buffer' = rest \o Copies(x)
        \/ SizeOf[x] > Capacity /\ writeQueue' = Append(queued, Copies(x)) /\ buffer' = rest
    BY <1>2 DEF Pack, x
  <2>5. SizeOf[x] > Capacity => rest = <<>>
    <3>1. Len(buffer) \in Nat /\ SizeOf[x] \in Nat /\ Capacity \in Nat
      BY <1>5, <1>7, SocketAssumption
    <3> QED
      BY <3>1
  <2> HIDE DEF full, queued, rest, b
  <2>6. IsCut(Len(wire), queued, rest \o Copies(x), d)
    BY <1>7, <2>2, <2>3, CutConcat
  <2>7. CASE writeQueue' = queued /\ buffer' = rest \o Copies(x)
    BY <2>6, <2>7
  <2>8. CASE SizeOf[x] > Capacity /\ writeQueue' = Append(queued, Copies(x)) /\ buffer' = rest
    <3>1. rest = <<>> /\ rest \o Copies(x) = Copies(x)
      BY <1>7, <2>5, <2>8, ConcatEmptySeq
    <3>2. IsCut(Len(wire), queued, Copies(x), d)
      BY <2>6, <3>1
    <3>3. IsCut(Len(wire), Append(queued, Copies(x)), <<>>, d)
      BY <1>7, <2>2, <3>2, CutAppend
    <3> QED
      BY <2>8, <3>1, <3>3
  <2> QED
    BY <2>4, <2>7, <2>8
<1>10. Written(c[taken])'
  BY <1>2, <1>6, <1>8, <1>9 DEF Written
<1> QED
  BY <1>1, <1>2, <1>3, <1>10 DEF StreamInv, Sent

\* The last buffer becomes a message.
LEMMA FlushEndKeeps ==
  ASSUME QInv, TypeOK, StreamInv, FlushEnd
  PROVE StreamInv' /\ Sent' = Sent /\ wire' = wire
<1>1. PICK c : BytesSoFar(c, Sent) /\ Written(c[taken])
  BY DEF StreamInv
<1>2. /\ order' = order /\ taken' = taken /\ wire' = wire /\ sendable' = sendable
      /\ buffer' = <<>>
      /\ writeQueue' = IF buffer = <<>> THEN writeQueue ELSE Append(writeQueue, buffer)
  BY DEF FlushEnd, queueVars
<1>3. /\ order[1] = Stub /\ Sent \in Seq(Item) /\ taken \in 0..Len(Sent)
  BY SentItems DEF StreamInv
<1>4. /\ writeQueue \in Seq(Seq(Item)) /\ buffer \in Seq(Item) /\ c[taken] \in Seq(Item)
  BY <1>1, <1>3, PrefixFacts DEF TypeOK
<1>5. ASSUME sendable PROVE IsCut(Len(wire), writeQueue', buffer', c[taken])
  <2>1. IsCut(Len(wire), writeQueue, buffer, c[taken])
    BY <1>1, <1>5 DEF Written
  <2>2. CASE buffer = <<>>
    BY <1>2, <2>1, <2>2
  <2>3. CASE buffer # <<>>
    BY <1>2, <1>4, <2>1, <2>3, CutAppend
  <2> QED
    BY <2>2, <2>3
<1>6. Written(c[taken])'
  BY <1>1, <1>2, <1>5 DEF Written
<1> QED
  BY <1>1, <1>2, <1>3, <1>6 DEF StreamInv, Sent

\* Bytes that follow what was written, of what follows it
LEMMA StartsMore ==
  ASSUME NEW S, NEW w \in Seq(S), NEW b \in Seq(S), NEW y \in Seq(S), Starts(w, b),
         Len(w) + Len(y) <= Len(b), \A j \in 1..Len(y) : y[j] = b[Len(w) + j]
  PROVE Starts(w \o y, b) /\ Len(w \o y) = Len(w) + Len(y) /\ Starts(w, w \o y)
<1>1. Len(w) \in Nat /\ Len(b) \in Nat /\ Len(y) \in Nat
  OBVIOUS
<1> DEFINE v == w \o y
<1>2. /\ Len(v) = Len(w) + Len(y) /\ \A i \in 1..Len(w) : v[i] = w[i]
      /\ \A i \in 1..Len(y) : v[Len(w) + i] = y[i]
      /\ Starts(w, v)
  BY StartsConcat
<1> HIDE DEF v
<1>3. ASSUME NEW i \in 1..Len(v) PROVE v[i] = b[i]
  <2>1. CASE i \in 1..Len(w)
    BY <1>2, <2>1 DEF Starts
  <2>2. CASE ~(i \in 1..Len(w))
    <3>1. i - Len(w) \in 1..Len(y) /\ Len(w) + (i - Len(w)) = i
      BY <1>1, <1>2, <2>2
    <3>2. v[Len(w) + (i - Len(w))] = b[Len(w) + (i - Len(w))]
      BY <1>2, <3>1
    <3> QED
      BY <3>1, <3>2
  <2> QED
    BY <2>1, <2>2
<1>4. Starts(v, b)
  BY <1>2, <1>3 DEF Starts
<1> QED
  BY <1>2, <1>4 DEF v

\* HandleQueue writes the bytes that follow, however short the write is.
LEMMA WriteSomeKeeps ==
  ASSUME QInv, TypeOK, StreamInv, NEW more, NEW done, WriteSome(more, done), wire' \in Seq(Item)
  PROVE /\ StreamInv' /\ Sent' = Sent /\ Starts(wire, wire')
        /\ Starts(wire', Stream!Bytes(Sent)) /\ Stream!Bytes(Sent) \in Seq(Item)
<1>1. PICK c : BytesSoFar(c, Sent) /\ Written(c[taken])
  BY DEF StreamInv
<1>2. order' = order /\ taken' = taken /\ sendable' = sendable /\ buffer' = buffer
  BY DEF WriteSome, queueVars
<1>3. /\ order[1] = Stub /\ Sent \in Seq(Item) /\ taken \in 0..Len(Sent)
  BY SentItems DEF StreamInv
<1> DEFINE b == c[taken]
           front == Head(writeQueue)
<1>4. /\ writeQueue \in Seq(Seq(Item)) /\ buffer \in Seq(Item) /\ wire \in Seq(Item)
      /\ b \in Seq(Item)
  BY <1>1, <1>3, PrefixFacts DEF TypeOK
<1>15. Len(wire) \in Nat /\ Len(b) \in Nat
  BY <1>4
<1>5. Starts(wire, b) /\ (sendable => IsCut(Len(wire), writeQueue, buffer, b))
  BY <1>1 DEF Written
<1>6. Starts(wire, wire)
  BY <1>4 DEF Starts
<1> HIDE DEF b
<1>7. ASSUME writeQueue # <<>>, sendable
      PROVE /\ front \in Seq(Item) /\ Len(front) \in Nat /\ Tail(writeQueue) \in Seq(Seq(Item))
            /\ Len(wire) + Len(front) <= Len(b)
            /\ \A j \in 1..Len(front) : front[j] = b[Len(wire) + j]
            /\ IsCut(Len(wire) + Len(front), Tail(writeQueue), buffer, b)
  <2>1. front \in Seq(Item) /\ Tail(writeQueue) \in Seq(Seq(Item))
    BY <1>4, <1>7
  <2>2. IsCut(Len(wire), writeQueue, buffer, b)
    BY <1>5, <1>7
  <2>3. Len(wire) + Len(front) <= Len(b)
        /\ \A j \in 1..Len(front) : front[j] = b[Len(wire) + j]
    BY <1>4, <1>7, <2>2, CutFront
  <2>4. IsCut(Len(wire) + Len(front), Tail(writeQueue), buffer, b)
    BY <1>4, <1>7, <2>2, CutTail
  <2> QED
    BY <2>1, <2>3, <2>4
<1>8. ASSUME writeQueue = <<>>, UNCHANGED <<writeQueue, wire>>
      PROVE Written(c[taken])' /\ Starts(wire, wire')
  <2>1. Written(c[taken])'
    BY <1>2, <1>5, <1>8 DEF Written, b
  <2> QED
    BY <1>6, <1>8, <2>1
<1>9. ASSUME writeQueue # <<>>, front = <<>> \/ ~sendable, Pop(done, done), UNCHANGED wire
      PROVE Written(c[taken])' /\ Starts(wire, wire')
  <2>1. ASSUME sendable PROVE IsCut(Len(wire), Tail(writeQueue), buffer, b)
    <3>1. Len(front) = 0 /\ Len(wire) + 0 = Len(wire)
      BY <1>15, <1>9, <2>1
    <3>2. IsCut(Len(wire) + Len(front), Tail(writeQueue), buffer, b)
      BY <1>7, <1>9, <2>1
    <3> QED
      BY <3>1, <3>2
  <2>2. Written(c[taken])'
    BY <1>2, <1>5, <1>9, <2>1 DEF Written, Pop, b
  <2> QED
    BY <1>6, <1>9, <2>2
<1>10. ASSUME writeQueue # <<>>, sendable, NEW n \in 1..(Len(front) - 1),
              wire' = wire \o SubSeq(front, 1, n),
              writeQueue' = <<SubSeq(front, n + 1, Len(front))>> \o Tail(writeQueue)
       PROVE Written(c[taken])' /\ Starts(wire, wire')
  <2> DEFINE y == SubSeq(front, 1, n)
  <2>0. front \in Seq(Item) /\ Len(front) \in Nat /\ n \in Nat /\ n <= Len(front)
    BY <1>7, <1>10
  <2>1. y \in Seq(Item) /\ Len(y) = n /\ \A j \in 1..n : y[j] = front[j]
    BY <2>0
  <2>2. Len(wire) + n <= Len(b) /\ \A j \in 1..n : y[j] = b[Len(wire) + j]
    <3>1. 1..n \subseteq 1..Len(front)
      BY <2>0
    <3>2. Len(wire) + Len(front) <= Len(b)
      BY <1>7, <1>10
    <3>3. Len(wire) + n <= Len(b)
      BY <1>15, <2>0, <3>2
    <3> QED
      BY <1>7, <1>10, <2>1, <3>1, <3>3
  <2> HIDE DEF y
  <2>3. Starts(wire \o y, b) /\ Len(wire \o y) = Len(wire) + n /\ Starts(wire, wire \o y)
    <3>1. Starts(wire, b) /\ Len(wire) + Len(y) <= Len(b)
          /\ \A j \in 1..Len(y) : y[j] = b[Len(wire) + j]
      BY <1>5, <2>1, <2>2
    <3>2. Starts(wire \o y, b) /\ Len(wire \o y) = Len(wire) + Len(y) /\ Starts(wire, wire \o y)
      BY <1>4, <2>1, <3>1, StartsMore
    <3> QED
      BY <2>1, <3>2
  <2>4. wire' = wire \o y
    BY <1>10 DEF y
  <2>5. IsCut(Len(wire) + n, writeQueue', buffer, b)
    BY <1>4, <1>5, <1>10, CutShort
  <2>6. Written(c[taken])'
    BY <1>2, <2>3, <2>4, <2>5 DEF Written, b
  <2> QED
    BY <2>3, <2>4, <2>6
<1>11. ASSUME writeQueue # <<>>, sendable, wire' = wire \o front, Pop(more, done)
       PROVE Written(c[taken])' /\ Starts(wire, wire')
  <2>1. Starts(wire \o front, b) /\ Len(wire \o front) = Len(wire) + Len(front)
        /\ Starts(wire, wire \o front)
    BY <1>4, <1>5, <1>7, <1>11, StartsMore
  <2>2. Written(c[taken])'
    BY <1>2, <1>7, <1>11, <2>1 DEF Written, Pop, b
  <2> QED
    BY <1>11, <2>1, <2>2
<1>12. Written(c[taken])' /\ Starts(wire, wire')
  BY <1>8, <1>9, <1>10, <1>11 DEF WriteSome
<1>13. StreamInv' /\ Sent' = Sent
  BY <1>1, <1>2, <1>3, <1>12 DEF StreamInv, Sent
<1>14. Starts(wire', Stream!Bytes(Sent)) /\ Stream!Bytes(Sent) \in Seq(Item)
  <2>1. Starts(wire', b)
    BY <1>2, <1>12 DEF Written, b
  <2>2. Len(Sent) \in 0..Len(Sent)
    BY <1>3
  <2>3. /\ Starts(b, c[Len(Sent)]) /\ c[Len(Sent)] \in Seq(Item)
        /\ Stream!Bytes(Sent) = c[Len(Sent)]
    BY <1>1, <1>3, <2>2, PrefixFacts DEF b
  <2> QED
    BY <1>4, <2>1, <2>3, StartsTransitive
<1> QED
  BY <1>12, <1>13, <1>14

\* A step of the connection, as far as the packets and their bytes go
LEMMA StreamSteps ==
  ASSUME SInv, QInv, [Next]_vars
  PROVE \/ Quiet
        \/ \E x \in Item : /\ order' = Append(order, x) /\ taken' = taken
                           /\ UNCHANGED <<wire, writeQueue, buffer, sendable>>
        \/ FlushPacket \/ FlushEnd
        \/ \E more, done \in {"idle", "write", "queries"} : WriteSome(more, done)
<1> DEFINE Queued == \E x \in Item : /\ order' = Append(order, x) /\ taken' = taken
                                     /\ UNCHANGED <<wire, writeQueue, buffer, sendable>>
           Goal == \/ Quiet \/ Queued \/ FlushPacket \/ FlushEnd
                   \/ \E more, done \in {"idle", "write", "queries"} : WriteSome(more, done)
<1> SUFFICES Goal
  OBVIOUS
<1>0. Writes /\ SInv /\ TypeOK
  BY DEF SInv
<1> USE DEF queueVars, streamVars
<1>1. CASE OnSocketOpen
  BY <1>1 DEF OnSocketOpen, Quiet
<1>2. CASE UpdateBegin
  <2>1. step # "flush" /\ buffer = <<>>
    BY <1>0, <1>2 DEF UpdateBegin, Writes
  <2> QED
    BY <1>2, <2>1 DEF UpdateBegin, Quiet
<1>5. CASE SocketUpdate
  BY <1>5 DEF SocketUpdate, Quiet
<1>6. CASE OnClose
  BY <1>6 DEF OnClose, Quiet
<1>7. CASE NoAnswer
  BY <1>7 DEF NoAnswer, Quiet
<1>8. CASE HandlePingEnd
  BY <1>8 DEF HandlePingEnd, Link, Quiet
<1>9. CASE ReadError
  BY <1>9 DEF ReadError, Quiet
<1>31. CASE DuplicateAuthSession
  BY <1>31 DEF DuplicateAuthSession, Quiet
<1>10. CASE HandleAuthSession
  BY <1>10 DEF HandleAuthSession, Quiet
<1>11. CASE ReadHandlerEnd
  BY <1>11 DEF ReadHandlerEnd, Quiet
<1>12. CASE Authenticate
  BY <1>12 DEF Authenticate, Quiet
<1>13. CASE LoadPermissions
  BY <1>13 DEF LoadPermissions, Quiet
<1>14. CASE ReadFails
  BY <1>14 DEF ReadFails, Quiet
<1>15. CASE ReadHandler
  BY <1>15 DEF ReadHandler, Quiet
<1>16. CASE KickPlayer
  BY <1>16 DEF KickPlayer, Quiet
<1>17. CASE KickPlayerEnd
  BY <1>17 DEF KickPlayerEnd, Quiet
<1>18. CASE DropSocket
  BY <1>18 DEF DropSocket, Quiet
<1>19. CASE DeleteSession
  BY <1>19 DEF DeleteSession, Quiet
<1>20. CASE Disconnect
  BY <1>20 DEF Disconnect, Quiet
<1>21. ASSUME NEW x \in Item, Challenge(x) PROVE Goal
  <2>1. Quiet \/ Queued
    BY <1>21 DEF Challenge, SendFromNet, EnqueueAlone, Quiet
  <2> QED
    BY <2>1
<1>22. ASSUME NEW x \in Item, Refuse(x) PROVE Goal
  <2>1. Quiet \/ Queued
    BY <1>22 DEF Refuse, SendFromNet, EnqueueAlone, Quiet
  <2> QED
    BY <2>1
<1>23. ASSUME NEW x \in Item, HandlePing(x) PROVE Goal
  BY <1>23 DEF HandlePing, Exchange
<1>24. ASSUME NEW t \in Sender, SendPacket(t) PROVE Goal
  <2>1. sending[t] \in Item
    BY <1>0, <1>24 DEF SendPacket, TypeOK
  <2>2. Queued
    BY <1>24, <2>1 DEF SendPacket, Exchange
  <2> QED
    BY <2>2
<1>25. ASSUME NEW t \in Sender, SendPacketEnd(t) PROVE Goal
  BY <1>25 DEF SendPacketEnd, Link, Quiet
<1>26. ASSUME NEW t \in Sender, NEW x \in Item, Send(t, x) PROVE Goal
  BY <1>26 DEF Send, Quiet
<1>27. CASE HandleQueue
  <2>1. CASE WriteSome("write", "queries")
    BY <2>1
  <2>2. CASE WouldBlock("queries")
    BY <2>2 DEF WouldBlock, Quiet
  <2> QED
    BY <1>27, <2>1, <2>2 DEF HandleQueue
<1>28. CASE WriteHandler
  <2>1. WriteSome("idle", "idle")
    BY <1>28 DEF WriteHandler
  <2> QED
    BY <2>1
<1>29. CASE WriteHandlerAgain
  BY <1>29 DEF WriteHandlerAgain, WouldBlock, Quiet
<1>30. CASE UNCHANGED vars
  BY <1>30 DEF vars, Quiet
<1> QED
  BY <1>1, <1>2, <1>5, <1>6, <1>7, <1>8, <1>9, <1>10, <1>11, <1>12, <1>13, <1>14, <1>15, <1>16, <1>17, <1>18, <1>19, <1>20, <1>21, <1>22, <1>23, <1>24, <1>25, <1>26, <1>27, <1>28, <1>29, <1>30, <1>31 DEF Next, NetStep

\* At first nothing was sent.
LEMMA StreamInit == Init => StreamInv
<1> SUFFICES ASSUME Init PROVE StreamInv
  OBVIOUS
<1>1. order = <<Stub>> /\ taken = 0 /\ wire = <<>> /\ writeQueue = <<>> /\ buffer = <<>>
  BY DEF Init, QueueInit
<1>2. Sent = <<>> /\ order[1] = Stub /\ Len(Sent) = 0
  BY <1>1 DEF Sent
<1> DEFINE c == [i \in 0..0 |-> <<>>]
<1>3. c[0] = <<>> /\ c \in [0..0 -> Seq(Item)]
  OBVIOUS
<1>4. <<>> \in Seq(Item) /\ Len(Copied(<<>>)) = 0
  <2>1. <<>> \in Seq(Item) /\ Len(<<>>) = 0
    OBVIOUS
  <2> QED
    BY <2>1, CopiedSent
<1>5. BytesSoFar(c, Sent)
  <2>1. Starts(<<>>, <<>>)
    BY DEF Starts
  <2> QED
    BY <1>2, <1>3, <1>4, <2>1 DEF BytesSoFar, Joins
<1>6. Written(c[0])
  <2>1. IsCut(Len(<<>>), <<>>, <<>>, <<>>)
    BY <1>4, CutOfNothing
  <2> QED
    BY <1>1, <1>3, <2>1 DEF Written, Starts
<1> HIDE DEF c
<1> QED
  BY <1>1, <1>2, <1>5, <1>6 DEF StreamInv

\* The invariant of the stream goes with each step, and the step is one of the stream.
LEMMA StreamStep ==
  ASSUME SInv, SInv', QInv, QInv', StreamInv, [Next]_vars
  PROVE StreamInv' /\ [Stream!Send \/ Stream!Write]_<<Sent, wire>>
<1>0. TypeOK /\ TypeOK'
  BY DEF SInv
<1>1. CASE Quiet
  BY <1>1, QuietKeeps DEF Quiet
<1>2. ASSUME NEW x \in Item, order' = Append(order, x), taken' = taken,
             UNCHANGED <<wire, writeQueue, buffer, sendable>>
      PROVE StreamInv' /\ Stream!Send
  <2>1. StreamInv' /\ Sent' = Append(Sent, x)
    BY <1>2, QueuedKeeps
  <2> QED
    BY <1>2, <2>1 DEF Stream!Send, Sent
<1>3. CASE FlushPacket
  BY <1>0, <1>3, FlushPacketKeeps
<1>4. CASE FlushEnd
  BY <1>0, <1>4, FlushEndKeeps
<1>5. ASSUME NEW more, NEW done, WriteSome(more, done) PROVE StreamInv' /\ Stream!Write
  <2>1. wire \in Seq(Item) /\ wire' \in Seq(Item)
    BY <1>0 DEF TypeOK
  <2>2. /\ StreamInv' /\ Sent' = Sent /\ Starts(wire, wire')
        /\ Starts(wire', Stream!Bytes(Sent)) /\ Stream!Bytes(Sent) \in Seq(Item)
    BY <1>0, <1>5, <2>1, WriteSomeKeeps
  <2>3. Stream!IsPrefix(wire, wire')
    BY <2>1, <2>2, StartsIsPrefix
  <2>4. Stream!IsPrefix(wire', Stream!Bytes(Sent))
    BY <2>1, <2>2, StartsIsPrefix
  <2> QED
    BY <2>2, <2>3, <2>4 DEF Stream!Write, Sent
<1> QED
  BY <1>1, <1>2, <1>3, <1>4, <1>5, StreamSteps

\* The client gets the bytes of the packets in the order of the exchanges in
\* MPSCQueue::Enqueue, none missing in between and none twice, whatever the batching of
\* WorldSocket::Update, short writes, a client that goes away and a close at any time.
THEOREM ImplementsStream == Spec => StreamOfPackets
<1>1. Init => StreamInv /\ Stream!Init
  <2>1. Init => Stream!Init
    BY DEF Init, QueueInit, Stream!Init
  <2> QED
    BY <2>1, StreamInit
<1>2. SInv /\ SInv' /\ QInv /\ QInv' /\ StreamInv /\ [Next]_vars
        => StreamInv' /\ [Stream!Send \/ Stream!Write]_<<Tail(order), wire>>
  BY StreamStep DEF Sent
<1> QED
  BY <1>1, <1>2, SocketInvariant, PTL DEF Spec, StreamOfPackets, Stream!Spec
=============================================================================
