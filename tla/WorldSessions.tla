---------------------------- MODULE WorldSessions ----------------------------
(***************************************************************************)
(* The sessions of a realm: how WorldSocket makes them, World admits or    *)
(* queues them, updates them and deletes them (World::AddSession_,         *)
(* RemoveQueuedPlayer, UpdateSessions, WorldSession::Update).              *)
(*                                                                         *)
(* Network threads make sessions and close sockets at any time; all else   *)
(* is the world thread's, which first adds the sessions that have arrived  *)
(* and then updates the ones it has.  A session is identified with the     *)
(* WorldSession object; a deleted one may be used again.                   *)
(***************************************************************************)
EXTENDS Integers, SequencesExt

CONSTANTS
  Account,
  Session,      \* the WorldSession objects
  AccountOf,    \* AccountOf[s]: the account s belongs to
  NoSession,    \* no entry in m_sessions
  SkipQueue,    \* the accounts with RBAC_PERM_SKIP_QUEUE
  Limits,       \* the values PlayerLimit takes, 0 for no limit
  Tolerance,    \* DisconnectToleranceInterval, 0 for none
  Never,        \* no entry in m_disconnects
  MaxTime,      \* bound: time(nullptr) stops here
  Grace         \* expireTime, in updates

ASSUME SessionAssumption ==
  /\ IsFiniteSet(Account)
  /\ AccountOf \in [Session -> Account] /\ NoSession \notin Session
  /\ SkipQueue \subseteq Account
ASSUME NumberAssumption ==
  /\ Limits \subseteq Nat /\ Limits # {}
  /\ Tolerance \in Nat /\ MaxTime \in Nat /\ Grace \in Nat \ {0}
  /\ Never \notin Nat

VARIABLES
  stage,        \* stage[s]: what has become of s so far
  open,         \* the sessions whose socket is open
  arriving,     \* addSessQueue
  sessions,     \* m_sessions
  queued,       \* m_QueuedPlayer
  inQueue,      \* the sessions with m_inQueue
  init,         \* init[s]: how far InitializeSession has come
  char,         \* char[s]: no character, one that loads or was refused, or one in the world
  kicked,       \* the sessions with forceExit
  grace,        \* grace[s]: expireTime
  disconnects,  \* m_disconnects
  limit,        \* m_playerLimit
  now,          \* time(nullptr)
  todo          \* the accounts UpdateSessions has still to update

sessionVars == <<stage, open, init, char, kicked, grace, inQueue>>
worldVars == <<arriving, sessions, queued, disconnects, limit, now, todo>>
vars == <<sessionVars, worldVars>>

Stage == {"free", "authed", "arriving", "listed"}

Listed == {a \in Account : sessions[a] # NoSession}

Init ==
  /\ stage = [s \in Session |-> "free"] /\ open = {}
  /\ init = [s \in Session |-> "no"] /\ char = [s \in Session |-> "none"]
  /\ kicked = {} /\ grace = [s \in Session |-> Grace] /\ inQueue = {}
  /\ arriving = <<>> /\ sessions = [a \in Account |-> NoSession] /\ queued = <<>>
  /\ disconnects = [a \in Account |-> Never]
  /\ limit \in Limits /\ now = 0 /\ todo = {}

-----------------------------------------------------------------------------
(* Network threads *)

\* HandleAuthSessionCallback; the online flag in the auth database is left out.
Authenticate(s) ==
  /\ stage[s] = "free"
  /\ stage' = [stage EXCEPT ![s] = "authed"]
  /\ open' = open \union {s}
  /\ UNCHANGED <<init, char, kicked, grace, inQueue, worldVars>>

\* LoadSessionPermissionsCallback, which a socket that was closed before the
\* answer came does not run any more: NetworkThread has dropped it.
LoadPermissions(s) ==
  /\ stage[s] = "authed" /\ s \in open
  /\ stage' = [stage EXCEPT ![s] = "arriving"]
  /\ arriving' = Append(arriving, s)
  /\ UNCHANGED <<open, init, char, kicked, grace, inQueue>>
  /\ UNCHANGED <<sessions, queued, disconnects, limit, now, todo>>

CloseSocket(s) ==
  /\ s \in open /\ open' = open \ {s}
  /\ UNCHANGED <<stage, init, char, kicked, grace, inQueue, worldVars>>

-----------------------------------------------------------------------------
(* The queue *)

\* Mutant: a queued session that is removed gives up a place, too.
RemoveQueuedPlayer_Both(q, s) ==
  LET found  == s \in Range(q)
      rest   == IF found THEN RemoveAt(q, CHOOSE i \in DOMAIN q : q[i] = s) ELSE q
      active == Cardinality(Listed) - Len(q)
      admits == (limit = 0 \/ active - 1 < limit) /\ rest # <<>>
  IN  [found    |-> found,
       queue    |-> IF admits THEN Tail(rest) ELSE rest,
       admitted |-> IF admits THEN {Head(rest)} ELSE {}]

\* Mutant: an active session that leaves still counts.
RemoveQueuedPlayer_Stale(q, s) ==
  LET found  == s \in Range(q)
      rest   == IF found THEN RemoveAt(q, CHOOSE i \in DOMAIN q : q[i] = s) ELSE q
      active == Cardinality(Listed) - Len(q)
      admits == (limit = 0 \/ active < limit) /\ rest # <<>>
  IN  [found    |-> found,
       queue    |-> IF admits THEN Tail(rest) ELSE rest,
       admitted |-> IF admits THEN {Head(rest)} ELSE {}]

\* Mutant: the newest of the queue is let in.
RemoveQueuedPlayer_Newest(q, s) ==
  LET found  == s \in Range(q)
      rest   == IF found THEN RemoveAt(q, CHOOSE i \in DOMAIN q : q[i] = s) ELSE q
      active == Cardinality(Listed) - Len(q)
      left   == IF found \/ active = 0 THEN active ELSE active - 1
      admits == (limit = 0 \/ left < limit) /\ rest # <<>>
  IN  [found    |-> found,
       queue    |-> IF admits THEN Front(rest) ELSE rest,
       admitted |-> IF admits THEN {Last(rest)} ELSE {}]

\* Mutant: who leaves the queue is not initialised.
RemoveQueuedPlayer_Dropped(q, s) ==
  LET found  == s \in Range(q)
      rest   == IF found THEN RemoveAt(q, CHOOSE i \in DOMAIN q : q[i] = s) ELSE q
      active == Cardinality(Listed) - Len(q)
      left   == IF found \/ active = 0 THEN active ELSE active - 1
      admits == (limit = 0 \/ left < limit) /\ rest # <<>>
  IN  [found    |-> found,
       queue    |-> IF admits THEN Tail(rest) ELSE rest,
       admitted |-> {}]

\* What RemoveQueuedPlayer(s) makes of the queue q: whether it found s in it, what
\* is left, and whom it admitted in its place.  The count is taken first; a
\* session that was not queued is one that is about to leave.
RemoveQueuedPlayer(q, s) ==
  LET found  == s \in Range(q)
      rest   == IF found THEN RemoveAt(q, CHOOSE i \in DOMAIN q : q[i] = s) ELSE q
      active == Cardinality(Listed) - Len(q)
      left   == IF found \/ active = 0 THEN active ELSE active - 1
      admits == (limit = 0 \/ left < limit) /\ rest # <<>>
  IN  [found    |-> found,
       queue    |-> IF admits THEN Tail(rest) ELSE rest,
       admitted |-> IF admits THEN {Head(rest)} ELSE {}]

NobodyRemoved == [found |-> FALSE, queue |-> queued, admitted |-> {}]

\* difftime(i->second, time(nullptr)) < tolerance
Tolerated(a) == disconnects[a] # Never /\ disconnects[a] - now < Tolerance

HasRecentlyDisconnected(a) == Tolerance # 0 /\ Tolerated(a)

\* HasRecentlyDisconnected drops the entries it does not tolerate.
PrunedDisconnects ==
  IF Tolerance = 0 THEN disconnects
  ELSE [a \in Account |-> IF Tolerated(a) THEN disconnects[a] ELSE Never]

\* InitializeSession of the sessions in S, and the end of the one deleted.
InitAfter(S, deleted) ==
  [s \in Session |-> IF s = deleted THEN "no" ELSE IF s \in S THEN "pending" ELSE init[s]]

\* What ~WorldSession leaves behind
Deleted(s, after) ==
  /\ stage' = [after EXCEPT ![s] = "free"]
  /\ open' = open \ {s} /\ kicked' = kicked \ {s}
  /\ char' = [char EXCEPT ![s] = "none"]
  /\ grace' = [grace EXCEPT ![s] = Grace]

-----------------------------------------------------------------------------
(* World::AddSession_ *)

Old(s) == sessions[AccountOf[s]]

NextArrival(s) ==
  /\ todo = {} /\ arriving # <<>> /\ s = Head(arriving)
  /\ arriving' = Tail(arriving)

\* PlayerLoading
IsLoading(s) == char[s] \in {"loading", "refused"}

\* The account's character is loading: the newcomer is deleted.
RejectSession(s) ==
  /\ NextArrival(s)
  /\ Old(s) # NoSession /\ IsLoading(Old(s))
  /\ Deleted(s, stage)
  /\ UNCHANGED <<init, inQueue, sessions, queued, disconnects, limit, now, todo>>

\* The other sessions count against the limit, the queued ones included; so does
\* the newcomer itself if it replaces a queued session.
IsFull(a, found) ==
  LET others == Cardinality(Listed \union {a}) - 1
  IN  limit > 0 /\ (IF found THEN others + 1 ELSE others) >= limit

\* The newcomer takes its account's place in m_sessions; then it waits or enters.
Enlist(s, removal) ==
  LET a == AccountOf[s]
      asked == IsFull(a, removal.found) /\ a \notin SkipQueue
      waits == asked /\ ~HasRecentlyDisconnected(a)
  IN  /\ sessions' = [sessions EXCEPT ![a] = s]
      /\ queued' = IF waits THEN Append(removal.queue, s) ELSE removal.queue
      /\ inQueue' = (inQueue \ {Old(s)}) \union (IF waits THEN {s} ELSE {})
      /\ init' = InitAfter(removal.admitted \union (IF waits THEN {} ELSE {s}), Old(s))
      /\ disconnects' = IF asked THEN PrunedDisconnects ELSE disconnects
      /\ UNCHANGED <<limit, now, todo>>

\* Mutant: m_sessions is overwritten without a look at what it holds.
AddSession_Blind(s) ==
  /\ NextArrival(s)
  /\ Enlist(s, NobodyRemoved)
  /\ stage' = [stage EXCEPT ![s] = "listed"]
  /\ UNCHANGED <<open, char, kicked, grace>>

AddSession(s) ==
  /\ NextArrival(s)
  /\ Old(s) = NoSession
  /\ Enlist(s, NobodyRemoved)
  /\ stage' = [stage EXCEPT ![s] = "listed"]
  /\ UNCHANGED <<open, char, kicked, grace>>

\* Mutant: the older session is deleted while it waits in the queue.
ReplaceSession_Queued(s) ==
  /\ NextArrival(s)
  /\ Old(s) # NoSession /\ ~IsLoading(Old(s))
  /\ Enlist(s, NobodyRemoved)
  /\ Deleted(Old(s), [stage EXCEPT ![s] = "listed"])

\* The account's older session is deleted, with the character it has.
ReplaceSession(s) ==
  /\ NextArrival(s)
  /\ Old(s) # NoSession /\ ~IsLoading(Old(s))
  /\ Enlist(s, RemoveQueuedPlayer(queued, Old(s)))
  /\ Deleted(Old(s), [stage EXCEPT ![s] = "listed"])

-----------------------------------------------------------------------------
(* World::UpdateSessions, after the arrivals, and WorldSession::Update *)

BeginUpdates ==
  /\ todo = {} /\ arriving = <<>>
  /\ todo' = Listed
  /\ UNCHANGED <<sessionVars, arriving, sessions, queued, disconnects, limit, now>>

Updating(s) == stage[s] = "listed" /\ AccountOf[s] \in todo

\* KickPlayer
KickedToo(s) == kicked' = kicked \union {s} /\ open' = open \ {s}

\* HandlePlayerLoginOpcode: a second login is a kick, and so is a character of
\* another account; m_playerLoading stays set then.
PlayerLoginOpcode(s) ==
  /\ Updating(s) /\ s \notin inQueue
  /\ \/ /\ char[s] = "none"
        /\ char' = [char EXCEPT ![s] = "loading"]
        /\ UNCHANGED <<kicked, open>>
     \/ /\ char[s] = "none"
        /\ char' = [char EXCEPT ![s] = "refused"]
        /\ KickedToo(s)
     \/ /\ char[s] # "none"
        /\ KickedToo(s)
        /\ UNCHANGED char
  /\ UNCHANGED <<stage, init, grace, inQueue, worldVars>>

\* HandlePlayerLogin: the character was loaded, or could not be.
PlayerLogin(s) ==
  /\ Updating(s) /\ char[s] = "loading"
  /\ \/ /\ char' = [char EXCEPT ![s] = "playing"]
        /\ UNCHANGED <<kicked, open>>
     \/ /\ char' = [char EXCEPT ![s] = "none"]
        /\ KickedToo(s)
  /\ UNCHANGED <<stage, init, grace, inQueue, worldVars>>

LogoutPlayer(s) ==
  /\ Updating(s) /\ char[s] = "playing"
  /\ char' = [char EXCEPT ![s] = "none"]
  /\ UNCHANGED <<stage, open, init, kicked, grace, inQueue, worldVars>>

\* Only here does a session that was admitted from the queue learn of it.
InitializeSessionCallback(s) ==
  /\ Updating(s) /\ init[s] = "pending"
  /\ init' = [init EXCEPT ![s] = "done"]
  /\ inQueue' = inQueue \ {s}
  /\ UNCHANGED <<stage, open, char, kicked, grace, worldVars>>

\* Mutant: expireTime is not counted down.
LessGrace_Stuck(s) == grace[s]

\* expireTime after this update of a session whose socket is closed
LessGrace(s) == IF grace[s] > 1 THEN grace[s] - 1 ELSE 0

Expires(s) ==
  s \notin open /\ (LessGrace(s) = 0 \/ s \in kicked \/ char[s] # "playing")

KeepSession(s) ==
  /\ Updating(s) /\ ~Expires(s)
  /\ grace' = IF s \in open THEN grace ELSE [grace EXCEPT ![s] = LessGrace(s)]
  /\ todo' = todo \ {AccountOf[s]}
  /\ UNCHANGED <<stage, open, init, char, kicked, inQueue>>
  /\ UNCHANGED <<arriving, sessions, queued, disconnects, limit, now>>

\* RemoveQueuedPlayer is called twice for the session before it is erased.
RemoveSession(s) ==
  LET a == AccountOf[s]
      first  == RemoveQueuedPlayer(queued, s)
      second == RemoveQueuedPlayer(first.queue, s)
  IN  /\ Updating(s) /\ Expires(s)
      /\ sessions' = [sessions EXCEPT ![a] = NoSession]
      /\ queued' = second.queue
      /\ inQueue' = inQueue \ {s}
      /\ init' = InitAfter(first.admitted \union second.admitted, s)
      /\ disconnects' = IF ~first.found /\ Tolerance # 0
                        THEN [disconnects EXCEPT ![a] = now] ELSE disconnects
      /\ Deleted(s, stage)
      /\ todo' = todo \ {a}
      /\ UNCHANGED <<arriving, limit, now>>

-----------------------------------------------------------------------------
(* Commands, and time *)

KickPlayer(s) ==
  /\ stage[s] = "listed" /\ KickedToo(s)
  /\ UNCHANGED <<stage, init, char, grace, inQueue, worldVars>>

KickAll ==
  /\ queued' = <<>>
  /\ LET all == {sessions[a] : a \in Listed}
     IN  kicked' = kicked \union all /\ open' = open \ all
  /\ UNCHANGED <<stage, init, char, grace, inQueue>>
  /\ UNCHANGED <<arriving, sessions, disconnects, limit, now, todo>>

SetPlayerAmountLimit(n) ==
  /\ limit' = n
  /\ UNCHANGED <<sessionVars, arriving, sessions, queued, disconnects, now, todo>>

TimePasses ==
  /\ now < MaxTime /\ now' = now + 1
  /\ UNCHANGED <<sessionVars, arriving, sessions, queued, disconnects, limit, todo>>

Network(s) == Authenticate(s) \/ LoadPermissions(s) \/ CloseSocket(s)
Arrival(s) == AddSession(s) \/ ReplaceSession(s) \/ RejectSession(s)
Update(s) == KeepSession(s) \/ RemoveSession(s)
Handler(s) ==
  PlayerLoginOpcode(s) \/ PlayerLogin(s) \/ LogoutPlayer(s) \/ InitializeSessionCallback(s)

Next ==
  \/ \E s \in Session : Network(s) \/ Arrival(s) \/ Handler(s) \/ Update(s) \/ KickPlayer(s)
  \/ BeginUpdates \/ KickAll \/ TimePasses
  \/ \E n \in Limits : SetPlayerAmountLimit(n)

\* The world thread runs, and adds sessions faster than they arrive: it does not
\* wait for anything, and each of them for two answers of the database.
Fairness ==
  /\ SF_vars(BeginUpdates)
  /\ WF_vars(\E s \in Session : Arrival(s) \/ Update(s))

Spec == Init /\ [][Next]_vars /\ Fairness

-----------------------------------------------------------------------------
(* Properties *)

\* The variables hold what the code's types allow.
TypeOK ==
  /\ stage \in [Session -> Stage]
  /\ open \subseteq Session /\ kicked \subseteq Session /\ inQueue \subseteq Session
  /\ todo \subseteq Account
  /\ init \in [Session -> {"no", "pending", "done"}]
  /\ char \in [Session -> {"none", "loading", "refused", "playing"}]
  /\ grace \in [Session -> 0..Grace]
  /\ arriving \in Seq(Session) /\ queued \in Seq(Session)
  /\ sessions \in [Account -> Session \union {NoSession}]
  /\ disconnects \in [Account -> 0..MaxTime \union {Never}]
  /\ limit \in Limits /\ now \in 0..MaxTime

\* World's pointers and the sessions that exist agree: no entry of m_sessions or
\* addSessQueue dangles, and no session that was added is lost.
EntriesAreLive ==
  /\ \A a \in Listed : stage[sessions[a]] = "listed" /\ AccountOf[sessions[a]] = a
  /\ \A s \in Session : stage[s] = "listed" => sessions[AccountOf[s]] = s
  /\ \A s \in Session : stage[s] = "arriving" <=> s \in Range(arriving)
  /\ IsInjective(arriving)
  /\ todo \subseteq Listed

\* m_QueuedPlayer holds live sessions, each once, that have not been initialised:
\* GetActiveSessionCount, an unsigned difference of two sizes, never wraps, and
\* nobody deletes a session that the queue still points to.
QueueIsListed ==
  /\ IsInjective(queued)
  /\ \A s \in Range(queued) : stage[s] = "listed" /\ init[s] = "no" /\ s \in inQueue

\* Whoever was added waits in the queue or has been let in, and whoever is told to
\* wait does wait.  KickAll alone empties the queue of sessions it then deletes.
NoneForgotten ==
  \A s \in Session \ kicked : stage[s] = "listed" =>
    /\ s \in Range(queued) \/ init[s] # "no"
    /\ s \in inQueue => s \in Range(queued) \/ init[s] = "pending"

Active == {sessions[a] : a \in Listed} \ Range(queued)

IsRealmFull == limit > 0 /\ Cardinality(Active) >= limit

\* Those whom the limit does not stop, and those who were told to go.
Excused(s) ==
  s \in kicked' \/ AccountOf[s] \in SkipQueue \/ HasRecentlyDisconnected(AccountOf[s])

\* Nobody is let in beyond PlayerLimit, whatever reconnections, removals of queued
\* and active sessions and new limits do to the counts.
LimitHolds ==
  [][\A s \in Active' \ Active :
       limit = 0 \/ Excused(s) \/ Cardinality({t \in Active' : ~Excused(t)}) <= limit]_vars

\* Nobody waits for a place that a session gave up: who is queued finds the realm
\* full or others waiting, or waited before, when its account had another session;
\* and when an active session goes while others wait, one of them gets in unless
\* the realm is full without it.
NoIdlePlace ==
  [][/\ \A s \in Range(queued') \ Range(queued) :
          Len(queued') > 1 \/ IsRealmFull' \/ Old(s) \in Range(queued)
     /\ Active \ Active' # {} /\ queued' # <<>> => Active' \ Active # {} \/ IsRealmFull']_vars

\* Players enter in the order they came: a newcomer waits behind all others, who
\* is let in from the queue was its first, and who does not have to wait finds
\* nobody waiting, unless RBAC_PERM_SKIP_QUEUE or DisconnectToleranceInterval lets
\* it pass.  (Only a new limit leaves places free that nobody gave up: it lets
\* nobody in by itself.)
FirstComeFirstServed ==
  [][\A s \in Session :
       /\ s \in Range(queued') \ Range(queued) => s = Last(queued')
       /\ init[s] # "pending" /\ init'[s] = "pending" =>
            IF s \in Range(queued)
            THEN \A i, j \in DOMAIN queued : queued[j] = s /\ i < j => queued[i] \notin Range(queued')
            ELSE \/ AccountOf[s] \in SkipQueue \/ HasRecentlyDisconnected(AccountOf[s])
                 \/ queued' = <<>> \/ ~IsRealmFull]_vars

\* A session whose socket is gone is deleted in the end.
ClosedIsRemoved ==
  \A s \in Session : stage[s] = "listed" /\ s \notin open ~> stage[s] # "listed"

\* DisconnectToleranceInterval is the "tolerance (in seconds)": who skips a full
\* queue because of it was here less than that many seconds ago.
Admitted(s) == init[s] = "no" /\ s \notin Range(queued) /\ init'[s] = "pending"

ToleranceExpires ==
  [][\A s \in Session : Admitted(s) /\ AccountOf[s] \notin SkipQueue
       /\ limit > 0 /\ Cardinality(Listed \ {AccountOf[s]}) >= limit =>
         disconnects[AccountOf[s]] # Never /\ now - disconnects[AccountOf[s]] < Tolerance]_vars
=============================================================================
