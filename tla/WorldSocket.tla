----------------------------- MODULE WorldSocket -----------------------------
(***************************************************************************)
(* One connection of a client, from the acceptor to its removal: Socket,   *)
(* WorldSocket and NetworkThread, and what WorldSession does with it.      *)
(*                                                                         *)
(* The network thread that owns the socket updates it every 10 ms and runs *)
(* the handlers of its reads and writes in between, one at a time (step    *)
(* says where it is).  The world thread and the map threads send packets   *)
(* and close the socket at any time.  Writes may be short or refused, the  *)
(* client may go away, and the answers of the database come when they do.  *)
(***************************************************************************)
EXTENDS MPSCQueue, SequencesExt

\* The queue of the module MPSCQueue is _bufferQueue: its items are the outgoing
\* packets, its producers the threads of the world and the network thread.
CONSTANTS
  Net,          \* the network thread
  SizeOf,       \* SizeOf[x]: bytes of the packet x with its header
  Capacity,     \* _sendBufferSize
  None          \* no packet

ASSUME SocketAssumption ==
  /\ Net \in Producer /\ None \notin Item
  /\ Capacity \in Nat \ {0} /\ SizeOf \in [Item -> Nat \ {0}]

Sender == Producer \ {Net}

VARIABLES
  where,        \* accepted, in _newSockets, in _sockets, or removed
  connections,  \* _connections, as far as this socket counts
  closed,       \* _closed
  closing,      \* _closing
  writing,      \* _isWritingAsync
  reading,      \* an async_read_some is pending
  sendable,     \* the connection is up and not shut down for sending
  up,           \* the client is there
  writeQueue,   \* _writeQueue, each buffer as the packets its bytes belong to
  buffer,       \* buffer in Update
  wire,         \* history: the bytes that were written
  step,         \* where the network thread is
  query,        \* the callback in _queryProcessor
  hasSession,   \* _worldSession is not nullptr
  session,      \* what has become of the WorldSession
  ref,          \* the session has m_Socket
  shutting,     \* a thread of the world is in CloseSocket
  sending       \* sending[t]: what t is about to enqueue, or None

streamVars == <<writing, writeQueue, buffer, wire>>
sessionVars == <<session, ref, shutting, sending>>
vars == <<queueVars, streamVars, sessionVars, where, connections, closed, closing,
          reading, sendable, up, step, query, hasSession>>

\* The promise to the client
Stream == INSTANCE PacketStream WITH Packet <- Item, sent <- Tail(order)

IsOpen == ~closed /\ ~closing

\* Packets are told apart: nobody else is about to send x.
NotUsed(x) == \A t \in Sender : sending[t] # x

Init ==
  /\ QueueInit
  /\ where = "accepted" /\ connections = 0
  /\ closed = FALSE /\ closing = FALSE /\ writing = FALSE /\ reading = FALSE
  /\ sendable = TRUE /\ up = TRUE
  /\ writeQueue = <<>> /\ buffer = <<>> /\ wire = <<>>
  /\ step = "idle" /\ query = "none"
  /\ hasSession = FALSE /\ session = "none" /\ ref = FALSE /\ shutting = FALSE
  /\ sending = [t \in Sender |-> None]

-----------------------------------------------------------------------------
(* NetworkThread::Update and WorldSocket::Update *)

\* OnSocketOpen, on the acceptor's thread: Start asks for bans of the address, and
\* AddSocket hands the socket over.
OnSocketOpen ==
  /\ where = "accepted"
  /\ query' = "ip"
  /\ where' = "new" /\ connections' = connections + 1
  /\ UNCHANGED <<queueVars, streamVars, sessionVars, closed, closing, reading, sendable,
                 up, step, hasSession>>

\* The thread takes the socket out of its list.
LeaveThread == where' = "removed" /\ connections' = connections - 1

\* Update of the thread: AddNewSockets, and the update of the socket begins.
UpdateBegin ==
  /\ step = "idle" /\ where \in {"new", "listed"}
  /\ IF where = "new" /\ ~IsOpen
     THEN LeaveThread /\ UNCHANGED <<step, buffer>>
     ELSE where' = "listed" /\ step' = "flush" /\ buffer' = <<>> /\ UNCHANGED connections
  /\ UNCHANGED <<queueVars, sessionVars, writing, writeQueue, wire, closed, closing,
                 reading, sendable, up, query, hasSession>>

Copies(x) == [j \in 1..SizeOf[x] |-> x]

\* Mutant: a large packet overtakes what is in the buffer.
Pack_Bug(x) ==
  IF Len(buffer) + SizeOf[x] <= Capacity
  THEN buffer' = buffer \o Copies(x) /\ UNCHANGED writeQueue
  ELSE buffer' = buffer /\ writeQueue' = Append(writeQueue, Copies(x))

\* What Update does with a packet that it dequeued: a buffer without enough space
\* is queued even if it is empty, and a packet larger than a buffer gets its own.
Pack(x) ==
  LET full == Len(buffer) + SizeOf[x] > Capacity
      large == SizeOf[x] > Capacity
      queued == IF full THEN Append(writeQueue, buffer) ELSE writeQueue
      rest == IF full THEN <<>> ELSE buffer
  IN IF large THEN writeQueue' = Append(queued, Copies(x)) /\ buffer' = rest
     ELSE writeQueue' = queued /\ buffer' = rest \o Copies(x)

FlushPacket ==
  /\ step = "flush"
  /\ Dequeue
  /\ Pack(next[tail])
  /\ UNCHANGED <<sessionVars, writing, wire, where, connections, closed, closing, reading,
                 sendable, up, step, query, hasSession>>

FlushEnd ==
  /\ step = "flush" /\ NothingToDequeue
  /\ writeQueue' = IF buffer = <<>> THEN writeQueue ELSE Append(writeQueue, buffer)
  /\ buffer' = <<>>
  /\ step' = "base"
  /\ UNCHANGED <<queueVars, sessionVars, writing, wire, where, connections, closed, closing,
                 reading, sendable, up, query, hasSession>>

\* Mutant: a socket that is closing writes no more.
SocketUpdate_Bug ==
  /\ step = "base"
  /\ \/ /\ closed
        /\ LeaveThread
        /\ step' = "idle" /\ query' = "none"
     \/ /\ ~closed
        /\ step' = IF writing \/ writeQueue = <<>> \/ closing THEN "queries" ELSE "write"
        /\ UNCHANGED <<where, connections, query>>
  /\ UNCHANGED <<queueVars, streamVars, sessionVars, closed, closing, reading, sendable, up,
                 hasSession>>

\* Socket::Update up to the writing.  A closed socket is removed from the thread's
\* list, and its callbacks with it.
SocketUpdate ==
  /\ step = "base"
  /\ \/ /\ closed
        /\ LeaveThread
        /\ step' = "idle" /\ query' = "none"
     \/ /\ ~closed
        /\ step' = IF writing \/ (writeQueue = <<>> /\ ~closing) THEN "queries" ELSE "write"
        /\ UNCHANGED <<where, connections, query>>
  /\ UNCHANGED <<queueVars, streamVars, sessionVars, closed, closing, reading, sendable, up,
                 hasSession>>

-----------------------------------------------------------------------------
(* Writing: HandleQueue returns to the loop in Update (more, if it returned true)
   or to done *)

\* The first message is done with; after the last one a delayed close is due.
Pop(more, done) ==
  /\ writeQueue' = Tail(writeQueue) /\ writing' = FALSE
  /\ IF closing /\ Tail(writeQueue) = <<>> /\ ~closed
     THEN closed' = TRUE /\ step' = IF done = "idle" THEN "closing" ELSE "closingUpdate"
     ELSE closed' = closed /\ step' = IF Tail(writeQueue) # <<>> THEN more ELSE done

\* HandleQueue, unless write_some would block: nothing to write; an error or a
\* message without bytes; a short write, which waits for the socket; a whole message.
WriteSome(more, done) ==
  LET front == Head(writeQueue)
  IN /\ \/ /\ writeQueue = <<>>
           /\ step' = done /\ writing' = FALSE /\ UNCHANGED <<writeQueue, wire, closed>>
        \/ /\ writeQueue # <<>> /\ (front = <<>> \/ ~sendable)
           /\ Pop(done, done) /\ UNCHANGED wire
        \/ /\ writeQueue # <<>> /\ sendable
           /\ \E n \in 1..(Len(front) - 1) :
                /\ wire' = wire \o SubSeq(front, 1, n)
                /\ writeQueue' = <<SubSeq(front, n + 1, Len(front))>> \o Tail(writeQueue)
           /\ step' = done /\ writing' = TRUE /\ UNCHANGED closed
        \/ /\ writeQueue # <<>> /\ front # <<>> /\ sendable
           /\ wire' = wire \o front
           /\ Pop(more, done)
     /\ UNCHANGED <<queueVars, sessionVars, buffer, where, connections, closing, reading,
                    sendable, up, query, hasSession>>

WouldBlock(done) ==
  /\ writeQueue # <<>> /\ Head(writeQueue) # <<>> /\ sendable
  /\ step' = done /\ writing' = TRUE
  /\ UNCHANGED <<queueVars, sessionVars, buffer, writeQueue, wire, where, connections, closed,
                 closing, reading, sendable, up, query, hasSession>>

\* The loop in Socket::Update
HandleQueue == step = "write" /\ (WriteSome("write", "queries") \/ WouldBlock("queries"))

\* Mutant: the flag is not reset.
WriteHandler_Bug ==
  /\ step = "idle" /\ writing
  /\ UNCHANGED vars

\* WriteHandlerWrapper, when the socket has become writable
WriteHandler ==
  /\ step = "idle" /\ writing
  /\ WriteSome("idle", "idle")

\* It wakes up although there is no space.
WriteHandlerAgain ==
  /\ step = "idle" /\ writing
  /\ WouldBlock("idle")

\* The network thread's CloseSocket after the exchange: shutdown and OnClose
OnClose ==
  /\ step \in {"closing", "closingUpdate"}
  /\ sendable' = FALSE /\ hasSession' = FALSE
  /\ step' = IF step = "closing" THEN "idle" ELSE "queries"
  /\ UNCHANGED <<queueVars, streamVars, sessionVars, where, connections, closed, closing,
                 reading, up, query>>

-----------------------------------------------------------------------------
(* ProcessReadyQueries at the end of the update.  Before the session is in the world
   no other thread knows the socket. *)

NoAnswer ==
  /\ step = "queries"
  /\ step' = "idle"
  /\ UNCHANGED <<queueVars, streamVars, sessionVars, where, connections, closed, closing,
                 reading, sendable, up, query, hasSession>>

SendFromNet(x) == IF IsOpen THEN EnqueueAlone(Net, x) ELSE UNCHANGED queueVars

\* CheckIpCallback for an address that is not banned
Challenge(x) ==
  /\ step = "queries" /\ query = "ip"
  /\ reading' = IsOpen
  /\ SendFromNet(x)
  /\ step' = "idle" /\ query' = "none"
  /\ UNCHANGED <<streamVars, sessionVars, where, connections, closed, closing, sendable, up,
                 hasSession>>

\* CheckIpCallback for a banned address, and every refusal in
\* HandleAuthSessionCallback: the answer is sent and the socket closed after it.
Refuse(x) ==
  /\ step = "queries" /\ query \in {"ip", "auth"}
  /\ SendFromNet(x)
  /\ closing' = TRUE
  /\ step' = "idle" /\ query' = "none"
  /\ UNCHANGED <<streamVars, sessionVars, where, connections, closed, reading, sendable, up,
                 hasSession>>

\* HandleAuthSessionCallback makes the session.
Authenticate ==
  /\ step = "queries" /\ query = "auth"
  /\ session' = "made" /\ ref' = TRUE /\ hasSession' = TRUE
  /\ query' = "perm"
  /\ reading' = IsOpen
  /\ step' = "idle"
  /\ UNCHANGED <<queueVars, streamVars, where, connections, closed, closing, sendable, up,
                 shutting, sending>>

\* LoadSessionPermissionsCallback: AddSession
LoadPermissions ==
  /\ step = "queries" /\ query = "perm"
  /\ session' = "listed"
  /\ query' = "none" /\ step' = "idle"
  /\ UNCHANGED <<queueVars, streamVars, where, connections, closed, closing, reading,
                 sendable, up, hasSession, ref, shutting, sending>>

-----------------------------------------------------------------------------
(* Reading *)

\* CloseSocket on the network thread up to the exchange
CloseSocket == closed' = TRUE /\ step' = IF closed THEN "idle" ELSE "closing"

\* ReadHandlerInternal with an error
ReadFails ==
  /\ step = "idle" /\ reading /\ ~up
  /\ reading' = FALSE
  /\ CloseSocket
  /\ UNCHANGED <<queueVars, streamVars, sessionVars, where, connections, closing, sendable, up,
                 query, hasSession>>

\* ReadHandlerInternal with bytes: ReadHandler ignores them if the socket is not open.
ReadHandler ==
  /\ step = "idle" /\ reading
  /\ reading' = FALSE
  /\ step' = IF IsOpen THEN "reading" ELSE "idle"
  /\ UNCHANGED <<queueVars, streamVars, sessionVars, where, connections, closed, closing,
                 sendable, up, query, hasSession>>

\* A packet that is malformed, too fast after others or, without a session, not allowed.
ReadError ==
  /\ step = "reading"
  /\ CloseSocket
  /\ UNCHANGED <<queueVars, streamVars, sessionVars, where, connections, closing, reading,
                 sendable, up, query, hasSession>>

\* A second CMSG_AUTH_SESSION is logged with the name of the session, which is not
\* asked for: after another thread's OnClose it is a null pointer, and the process may
\* end here, unless that thread still has the lock or nothing is logged.
DuplicateAuthSession ==
  /\ step = "reading" /\ session # "none"
  /\ \/ CloseSocket
     \/ ~hasSession /\ step' = "crashed" /\ UNCHANGED closed
  /\ UNCHANGED <<queueVars, streamVars, sessionVars, where, connections, closing, reading,
                 sendable, up, query, hasSession>>

\* HandleAuthSession asks the database and stops reading.
HandleAuthSession ==
  /\ step = "reading" /\ session = "none"
  /\ query' = "auth" /\ step' = "idle"
  /\ UNCHANGED <<queueVars, streamVars, sessionVars, where, connections, closed, closing,
                 reading, sendable, up, hasSession>>

\* HandlePing: the answer is put at the head of the queue.
HandlePing(x) ==
  /\ step = "reading" /\ hasSession /\ IsOpen /\ NotUsed(x)
  /\ Exchange(Net, x)
  /\ step' = "pong"
  /\ UNCHANGED <<streamVars, sessionVars, where, connections, closed, closing, reading,
                 sendable, up, query, hasSession>>

\* The rest of HandlePing; there may be further packets in the buffer.
HandlePingEnd ==
  /\ step = "pong"
  /\ Link(Net)
  /\ step' = "reading"
  /\ UNCHANGED <<streamVars, sessionVars, where, connections, closed, closing, reading,
                 sendable, up, query, hasSession>>

\* The buffer is empty.  The packets that the session got, an answer that a closed
\* socket did not send and an incomplete packet change nothing here.
ReadHandlerEnd ==
  /\ step = "reading"
  /\ reading' = IsOpen /\ step' = "idle"
  /\ UNCHANGED <<queueVars, streamVars, sessionVars, where, connections, closed, closing,
                 sendable, up, query, hasSession>>

-----------------------------------------------------------------------------
(* The threads of the world *)

\* SendPacket: whether the socket is open
Send(t, x) ==
  /\ NotUsed(x) /\ \A i \in DOMAIN order : order[i] # x
  /\ session = "listed" /\ ref /\ sending[t] = None /\ link[t] = Idle
  /\ IsOpen
  /\ sending' = [sending EXCEPT ![t] = x]
  /\ UNCHANGED <<queueVars, streamVars, session, ref, shutting, where, connections, closed,
                 closing, reading, sendable, up, step, query, hasSession>>

SendPacket(t) ==
  /\ sending[t] # None
  /\ Exchange(t, sending[t])
  /\ sending' = [sending EXCEPT ![t] = None]
  /\ UNCHANGED <<streamVars, session, ref, shutting, where, connections, closed, closing,
                 reading, sendable, up, step, query, hasSession>>

SendPacketEnd(t) ==
  /\ Link(t)
  /\ UNCHANGED <<streamVars, sessionVars, where, connections, closed, closing, reading,
                 sendable, up, step, query, hasSession>>

\* KickPlayer, an idle connection, or ~WorldSession: CloseSocket up to the exchange
KickPlayer ==
  /\ session = "listed" /\ ref /\ ~shutting /\ ~closed
  /\ closed' = TRUE /\ shutting' = TRUE
  /\ UNCHANGED <<queueVars, streamVars, session, ref, sending, where, connections, closing,
                 reading, sendable, up, step, query, hasSession>>

\* Mutant: the socket keeps its session.
KickPlayerEnd_Bug ==
  /\ shutting
  /\ sendable' = FALSE /\ shutting' = FALSE
  /\ UNCHANGED <<queueVars, streamVars, session, ref, sending, where, connections, closed,
                 closing, reading, up, step, query, hasSession>>

\* The rest of CloseSocket: shutdown and OnClose
KickPlayerEnd ==
  /\ shutting
  /\ sendable' = FALSE /\ hasSession' = FALSE /\ shutting' = FALSE
  /\ UNCHANGED <<queueVars, streamVars, session, ref, sending, where, connections, closed,
                 closing, reading, up, step, query>>

\* UpdateSessions runs while no map thread does.
NobodySends == \A t \in Sender : sending[t] = None /\ link[t] = Idle

\* WorldSession::Update lets go of a socket that is not open.
DropSocket ==
  /\ session = "listed" /\ ref /\ ~shutting /\ ~IsOpen /\ NobodySends
  /\ ref' = FALSE
  /\ UNCHANGED <<queueVars, streamVars, session, shutting, sending, where, connections,
                 closed, closing, reading, sendable, up, step, query, hasSession>>

\* ~WorldSession, with a socket only after its CloseSocket has returned
DeleteSession ==
  /\ session = "listed" /\ ~shutting /\ (ref => closed) /\ NobodySends
  /\ session' = "deleted" /\ ref' = FALSE
  /\ UNCHANGED <<queueVars, streamVars, shutting, sending, where, connections, closed, closing,
                 reading, sendable, up, step, query, hasSession>>

\* The client goes away.
Disconnect ==
  /\ up
  /\ up' = FALSE /\ sendable' = FALSE
  /\ UNCHANGED <<queueVars, streamVars, sessionVars, where, connections, closed, closing,
                 reading, step, query, hasSession>>

-----------------------------------------------------------------------------
\* What the network thread does by itself
NetStep ==
  \/ UpdateBegin \/ FlushPacket \/ FlushEnd \/ SocketUpdate \/ HandleQueue \/ OnClose
  \/ NoAnswer \/ HandlePingEnd \/ ReadHandlerEnd
  \/ ReadError \/ DuplicateAuthSession \/ HandleAuthSession
  \/ \E x \in Item : Challenge(x) \/ Refuse(x)
  \/ Authenticate \/ LoadPermissions

Next ==
  \/ OnSocketOpen \/ NetStep \/ WriteHandler \/ WriteHandlerAgain
  \/ ReadFails \/ ReadHandler \/ \E x \in Item : HandlePing(x)
  \/ \E t \in Sender : SendPacket(t) \/ SendPacketEnd(t) \/ \E x \in Item : Send(t, x)
  \/ KickPlayer \/ KickPlayerEnd \/ DropSocket \/ DeleteSession \/ Disconnect

\* The network thread runs, its timer is not starved by what clients send, threads
\* finish what they enqueue, and a client that stays takes what is written to it.
Fairness ==
  /\ WF_vars(NetStep)
  /\ SF_vars(UpdateBegin)
  /\ SF_vars(WriteHandler)
  /\ \A t \in Sender : WF_vars(SendPacket(t)) /\ WF_vars(SendPacketEnd(t))

Spec == Init /\ [][Next]_vars /\ Fairness

-----------------------------------------------------------------------------
(* Properties *)

FlagsOK ==
  /\ closed \in BOOLEAN /\ closing \in BOOLEAN /\ writing \in BOOLEAN
  /\ reading \in BOOLEAN /\ sendable \in BOOLEAN /\ up \in BOOLEAN
  /\ hasSession \in BOOLEAN /\ ref \in BOOLEAN /\ shutting \in BOOLEAN

TypeOK ==
  /\ QueueTypeOK /\ FlagsOK
  /\ where \in {"accepted", "new", "listed", "removed"} /\ connections \in 0..1
  /\ writeQueue \in Seq(Seq(Item)) /\ buffer \in Seq(Item) /\ wire \in Seq(Item)
  /\ step \in {"idle", "flush", "base", "write", "queries", "reading", "pong", "closing",
               "closingUpdate", "crashed"}
  /\ query \in {"none", "ip", "auth", "perm"}
  /\ session \in {"none", "made", "listed", "deleted"}
  /\ sending \in [Sender -> Item \cup {None}]

\* The client gets the bytes of the packets in the order in which they entered the
\* queue, through the batching of Update, short writes and a close at any time.
StreamOfPackets == Stream!Spec

\* A deleted session may still be the socket's only while the network thread is
\* between its exchange in CloseSocket and OnClose, where it does not use it; the
\* permissions arrive for a session that the socket still has; and a socket loses its
\* session only when it is closed, so that the null pointer that a duplicate
\* CMSG_AUTH_SESSION follows is one of a socket that another thread has closed.
SessionIsNotUsedAfterFree ==
  /\ hasSession /\ session = "deleted" => step \in {"closing", "closingUpdate"}
  /\ step = "queries" /\ query = "perm" => hasSession
  /\ session # "none" /\ ~hasSession => closed

\* _connections counts the sockets that the thread was given and has not removed.
ConnectionsExact == connections = IF where \in {"new", "listed"} THEN 1 ELSE 0

\* No wake-up is lost: while the socket does not wait for space, a close that waits
\* for the messages has one to wait for, in one of the two queues or the buffer.
DelayedCloseWillHappen ==
  closing /\ ~closed =>
    \/ writing \/ writeQueue # <<>> \/ buffer # <<>>
    \/ taken + 1 < Len(order)

\* A refused client is disconnected.
RefusedIsClosed == closing ~> closed

\* All bytes of a packet that entered the queue are written to a client that stays
\* connected, although nothing but the next update looks at what a short write or an
\* empty buffer left.
SentIsWritten ==
  \A x \in Item :
    (\E i \in DOMAIN order : order[i] = x)
      ~> \/ Cardinality({j \in DOMAIN wire : wire[j] = x}) = SizeOf[x]
         \/ closed \/ ~up
=============================================================================
