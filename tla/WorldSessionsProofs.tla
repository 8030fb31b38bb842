------------------------ MODULE WorldSessionsProofs ------------------------
(***************************************************************************)
(* Theorems about WorldSessions, for any number of accounts and sessions,  *)
(* any limits, tolerance and grace: the pointers of World agree with the   *)
(* sessions that exist, and no session is forgotten in the login queue.    *)
(***************************************************************************)
EXTENDS WorldSessions, DataLemmas, FiniteSetTheorems

\* Only sessions in m_sessions have been initialised.
OnlyListedEnter == \A s \in Session : stage[s] # "listed" => init[s] = "no"

\* The inductive invariant.  A session can be appended to the queue because it is
\* in none yet (EntriesAreLive) and not initialised (OnlyListedEnter); a session
\* that is deleted was taken out because the queue has it once (QueueIsListed).
IInv == TypeOK /\ EntriesAreLive /\ QueueIsListed /\ NoneForgotten /\ OnlyListedEnter

-----------------------------------------------------------------------------
(* The queue *)

\* What RemoveQueuedPlayer leaves in a queue that holds each session once: whom
\* it admits comes before whom it leaves, and those keep their order.
LEMMA Removal ==
  ASSUME NEW q \in Seq(Session), IsInjective(q), NEW s
  PROVE  LET r == RemoveQueuedPlayer(q, s)
         IN  /\ r.found = (s \in Range(q))
             /\ r.queue \in Seq(Session) /\ IsInjective(r.queue)
             /\ r.admitted \subseteq Range(q) \ {s}
             /\ Range(r.queue) = Range(q) \ ({s} \union r.admitted)
             /\ \A x \in Range(r.queue), y \in r.admitted : ~Before(q, x, y)
             /\ \A x, y \in Range(r.queue) : Before(q, x, y) => Before(r.queue, x, y)
<1> DEFINE found == s \in Range(q)
           i == CHOOSE j \in DOMAIN q : q[j] = s
           rest == IF found THEN RemoveAt(q, i) ELSE q
           active == Cardinality(Listed) - Len(q)
           left == IF found \/ active = 0 THEN active ELSE active - 1
           admits == (limit = 0 \/ left < limit) /\ rest # <<>>
           r == RemoveQueuedPlayer(q, s)
<1>1. /\ r.found = found
      /\ r.queue = IF admits THEN Tail(rest) ELSE rest
      /\ r.admitted = IF admits THEN {Head(rest)} ELSE {}
  BY DEF RemoveQueuedPlayer
<1>2. /\ rest \in Seq(Session) /\ IsInjective(rest)
      /\ Range(rest) = Range(q) \ {s}
      /\ \A x, y \in Range(rest) : Before(q, x, y) => Before(rest, x, y)
  <2>1. CASE found
    <3>1. i \in DOMAIN q /\ q[i] = s
      BY <2>1 DEF Range
    <3> HIDE DEF i
    <3>2. rest = SubSeq(q, 1, i - 1) \o SubSeq(q, i + 1, Len(q))
      BY <2>1 DEF RemoveAt
    <3>3. /\ rest \in Seq(Session) /\ IsInjective(rest)
          /\ Range(rest) = Range(q) \ {s}
      BY <2>1, <3>1, RangeRemove DEF RemoveAt
    <3> HIDE DEF rest
    <3>4. ASSUME NEW x \in Range(rest), NEW y \in Range(rest), Before(q, x, y)
          PROVE  Before(rest, x, y)
      <4>1. x # q[i] /\ y # q[i]
        BY <3>1, <3>3
      <4> QED
        BY <3>1, <3>2, <3>4, <4>1, RemoveKeepsOrder
    <3> QED
      BY <3>3, <3>4
  <2>2. CASE ~found
    BY <2>2
  <2> QED
    BY <2>1, <2>2
<1> HIDE DEF rest, r
<1>3. CASE admits
  <2>1. /\ Tail(rest) \in Seq(Session) /\ IsInjective(Tail(rest))
        /\ Range(rest) = Range(Tail(rest)) \union {Head(rest)}
        /\ Head(rest) \notin Range(Tail(rest))
    BY <1>2, <1>3, RangeTail
  <2>2. \A x, y \in Range(Tail(rest)) : Before(q, x, y) => Before(Tail(rest), x, y)
    BY <1>2, <1>3, <2>1, TailKeepsOrder
  <2>3. \A x \in Range(Tail(rest)) : ~Before(q, x, Head(rest))
    BY <1>2, <1>3, <2>1, HeadIsFirst
  <2> QED
    BY <1>1, <1>2, <1>3, <2>1, <2>2, <2>3 DEF r
<1>4. CASE ~admits
  BY <1>1, <1>2, <1>4 DEF r
<1> QED
  BY <1>3, <1>4

\* When RemoveQueuedPlayer admits somebody: while there is a place, for the one
\* that leaves the queue or gives up its own.
LEMMA RemovalCounts ==
  ASSUME NEW q \in Seq(Session), IsInjective(q), NEW s, NEW n \in Nat,
         Cardinality(Listed) = n, limit \in Nat,
         Len(q) <= n, s \notin Range(q) => Len(q) < n
  PROVE  LET r == RemoveQueuedPlayer(q, s)
             m == IF s \in Range(q) THEN Len(q) - 1 ELSE Len(q)
             left == IF s \in Range(q) THEN n - Len(q) ELSE n - Len(q) - 1
         IN  \/ /\ r.admitted = {} /\ Len(r.queue) = m
                /\ r.queue = <<>> \/ (limit > 0 /\ left >= limit)
             \/ /\ r.admitted # {} /\ Len(r.queue) = m - 1
                /\ limit = 0 \/ left < limit
<1> DEFINE found == s \in Range(q)
           i == CHOOSE j \in DOMAIN q : q[j] = s
           rest == IF found THEN RemoveAt(q, i) ELSE q
           active == Cardinality(Listed) - Len(q)
           left == IF found THEN n - Len(q) ELSE n - Len(q) - 1
           admits == (limit = 0 \/ left < limit) /\ rest # <<>>
           r == RemoveQueuedPlayer(q, s)
           m == IF found THEN Len(q) - 1 ELSE Len(q)
<1>1. /\ r.queue = IF admits THEN Tail(rest) ELSE rest
      /\ r.admitted = IF admits THEN {Head(rest)} ELSE {}
  <2>1. left = IF found \/ active = 0 THEN active ELSE active - 1
    OBVIOUS
  <2> QED
    BY <2>1 DEF RemoveQueuedPlayer
<1>2. rest \in Seq(Session) /\ Len(rest) = m
  <2>1. CASE found
    <3>1. i \in DOMAIN q /\ q[i] = s
      BY <2>1 DEF Range
    <3> HIDE DEF i
    <3> QED
      BY <2>1, <3>1, RangeRemove DEF RemoveAt
  <2>2. CASE ~found
    BY <2>2
  <2> QED
    BY <2>1, <2>2
<1> HIDE DEF rest, r
<1>3. rest # <<>> => Len(Tail(rest)) = m - 1
  BY <1>2, RangeTail
<1>4. left \in Int
  OBVIOUS
<1> HIDE DEF left
<1>5. ASSUME admits
      PROVE  /\ r.admitted # {} /\ Len(r.queue) = m - 1
             /\ limit = 0 \/ left < limit
  BY <1>1, <1>3, <1>5
<1>6. ASSUME ~admits
      PROVE  /\ r.admitted = {} /\ Len(r.queue) = m
             /\ r.queue = <<>> \/ (limit > 0 /\ left >= limit)
  <2>1. r.admitted = {} /\ r.queue = rest
    BY <1>1, <1>6
  <2>2. rest = <<>> \/ (limit > 0 /\ left >= limit)
    BY <1>4, <1>6
  <2> QED
    BY <1>2, <2>1, <2>2
<1> QED
  BY <1>5, <1>6 DEF r, left

\* The next session of addSessQueue.
LEMMA Arriving ==
  ASSUME TypeOK, EntriesAreLive, NEW s \in Session, NextArrival(s)
  PROVE  /\ stage[s] = "arriving" /\ todo = {}
         /\ arriving' \in Seq(Session) /\ IsInjective(arriving')
         /\ Range(arriving') = Range(arriving) \ {s}
<1>1. /\ arriving \in Seq(Session) /\ arriving # <<>> /\ s = Head(arriving)
      /\ arriving' = Tail(arriving) /\ IsInjective(arriving) /\ todo = {}
  BY DEF TypeOK, EntriesAreLive, NextArrival
<1>2. /\ Tail(arriving) \in Seq(Session) /\ IsInjective(Tail(arriving))
      /\ Range(arriving) = Range(Tail(arriving)) \union {s}
      /\ s \notin Range(Tail(arriving))
  BY <1>1, RangeTail
<1> QED
  BY <1>1, <1>2 DEF EntriesAreLive

\* The account's older session, if there is one.
LEMMA OldSession ==
  ASSUME TypeOK, EntriesAreLive, NEW s \in Session
  PROVE  /\ AccountOf[s] \in Account
         /\ Old(s) # NoSession =>
              Old(s) \in Session /\ stage[Old(s)] = "listed" /\ AccountOf[Old(s)] = AccountOf[s]
         /\ Old(s) = NoSession => \A t \in Session : AccountOf[t] = AccountOf[s] => stage[t] # "listed"
BY SessionAssumption DEF TypeOK, EntriesAreLive, Old, Listed

\* A newcomer takes its place in m_sessions and is queued or initialised.
LEMMA Enlisted ==
  ASSUME IInv, NEW s \in Session, stage[s] = "arriving", NEW removal,
         removal.queue \in Seq(Session), IsInjective(removal.queue),
         removal.admitted \subseteq Range(queued) \ {Old(s)},
         Range(removal.queue) = Range(queued) \ ({Old(s)} \union removal.admitted),
         Enlist(s, removal)
  PROVE  /\ sessions' = [sessions EXCEPT ![AccountOf[s]] = s]
         /\ queued' \in Seq(Session) /\ IsInjective(queued')
         /\ \E W \in SUBSET {s} :
              /\ Range(queued') = Range(removal.queue) \union W
              /\ inQueue' = (inQueue \ {Old(s)}) \union W
              /\ init' = InitAfter(removal.admitted \union ({s} \ W), Old(s))
         /\ disconnects' \in [Account -> 0..MaxTime \union {Never}]
         /\ limit' = limit /\ now' = now /\ todo' = todo
<1> DEFINE a == AccountOf[s]
           asked == IsFull(a, removal.found) /\ a \notin SkipQueue
           waits == asked /\ ~HasRecentlyDisconnected(a)
<1>1. /\ sessions' = [sessions EXCEPT ![a] = s]
      /\ queued' = IF waits THEN Append(removal.queue, s) ELSE removal.queue
      /\ inQueue' = (inQueue \ {Old(s)}) \union (IF waits THEN {s} ELSE {})
      /\ init' = InitAfter(removal.admitted \union (IF waits THEN {} ELSE {s}), Old(s))
      /\ disconnects' = IF asked THEN PrunedDisconnects ELSE disconnects
      /\ limit' = limit /\ now' = now /\ todo' = todo
  BY DEF Enlist
<1>2. s \notin Range(removal.queue)
  BY DEF IInv, QueueIsListed
<1>3. disconnects' \in [Account -> 0..MaxTime \union {Never}]
  BY <1>1 DEF IInv, TypeOK, PrunedDisconnects
<1>4. CASE waits
  <2>1. /\ Append(removal.queue, s) \in Seq(Session) /\ IsInjective(Append(removal.queue, s))
        /\ Range(Append(removal.queue, s)) = Range(removal.queue) \union {s}
    BY <1>2, RangeAppend
  <2>2. /\ queued' = Append(removal.queue, s) /\ inQueue' = (inQueue \ {Old(s)}) \union {s}
        /\ init' = InitAfter(removal.admitted \union {}, Old(s))
    BY <1>1, <1>4
  <2>3. {s} \in SUBSET {s} /\ {s} \ {s} = {}
    OBVIOUS
  <2> QED
    BY <1>1, <1>3, <2>1, <2>2, <2>3
<1>5. CASE ~waits
  <2>1. /\ queued' = removal.queue /\ inQueue' = (inQueue \ {Old(s)}) \union {}
        /\ init' = InitAfter(removal.admitted \union {s}, Old(s))
    BY <1>1, <1>5
  <2>2. {} \in SUBSET {s} /\ {s} \ {} = {s} /\ Range(removal.queue) = Range(removal.queue) \union {}
    OBVIOUS
  <2> QED
    BY <1>1, <1>3, <2>1, <2>2
<1> QED
  BY <1>4, <1>5

-----------------------------------------------------------------------------
(* The actions that move sessions *)

\* World::AddSession_ of an account that has no session.
LEMMA AddSessionStep ==
  ASSUME IInv, NEW s \in Session, AddSession(s)
  PROVE  IInv'
<1> USE DEF IInv
<1>1. /\ stage[s] = "arriving" /\ todo = {}
      /\ arriving' \in Seq(Session) /\ IsInjective(arriving')
      /\ Range(arriving') = Range(arriving) \ {s}
  BY Arriving DEF AddSession
<1>2. /\ AccountOf[s] \in Account /\ Old(s) = NoSession /\ NoSession \notin Session
      /\ \A t \in Session : AccountOf[t] = AccountOf[s] => stage[t] # "listed"
  BY OldSession, SessionAssumption DEF AddSession
<1>3. /\ sessions' = [sessions EXCEPT ![AccountOf[s]] = s]
      /\ queued' \in Seq(Session) /\ IsInjective(queued')
      /\ \E W \in SUBSET {s} :
           /\ Range(queued') = Range(queued) \union W
           /\ inQueue' = (inQueue \ {Old(s)}) \union W
           /\ init' = InitAfter({s} \ W, Old(s))
      /\ disconnects' \in [Account -> 0..MaxTime \union {Never}]
      /\ limit' = limit /\ now' = now /\ todo' = todo
  <2> DEFINE removal == NobodyRemoved
  <2>1. /\ removal.queue = queued /\ removal.admitted = {}
    BY DEF NobodyRemoved
  <2>2. Range(queued) \subseteq Session
    BY RangeInSet DEF TypeOK
  <2>3. /\ removal.queue \in Seq(Session) /\ IsInjective(removal.queue)
        /\ removal.admitted \subseteq Range(queued) \ {Old(s)}
        /\ Range(removal.queue) = Range(queued) \ ({Old(s)} \union removal.admitted)
    BY <1>2, <2>1, <2>2 DEF TypeOK, QueueIsListed
  <2>4. Enlist(s, removal)
    BY DEF AddSession
  <2> HIDE DEF removal
  <2>5. /\ sessions' = [sessions EXCEPT ![AccountOf[s]] = s]
        /\ queued' \in Seq(Session) /\ IsInjective(queued')
        /\ \E W \in SUBSET {s} :
              /\ Range(queued') = Range(removal.queue) \union W
              /\ inQueue' = (inQueue \ {Old(s)}) \union W
              /\ init' = InitAfter(removal.admitted \union ({s} \ W), Old(s))
        /\ disconnects' \in [Account -> 0..MaxTime \union {Never}]
        /\ limit' = limit /\ now' = now /\ todo' = todo
    BY <1>1, <2>3, <2>4, Enlisted
  <2> QED
    BY <2>1, <2>5
<1>4. PICK W \in SUBSET {s} :
        /\ Range(queued') = Range(queued) \union W
        /\ inQueue' = (inQueue \ {Old(s)}) \union W
        /\ init' = InitAfter({s} \ W, Old(s))
  BY <1>3
<1>5. init' = [t \in Session |-> IF t \in {s} \ W THEN "pending" ELSE init[t]]
  BY <1>2, <1>4 DEF InitAfter
<1>6. /\ stage' = [stage EXCEPT ![s] = "listed"]
      /\ open' = open /\ char' = char /\ kicked' = kicked /\ grace' = grace
  BY DEF AddSession
<1>7. TypeOK'
  <2>1. inQueue' \subseteq Session /\ init' \in [Session -> {"no", "pending", "done"}]
    BY <1>4, <1>5 DEF TypeOK
  <2>2. stage' \in [Session -> Stage] /\ sessions' \in [Account -> Session \union {NoSession}]
    BY <1>2, <1>3, <1>6 DEF TypeOK, Stage
  <2> QED
    BY <1>1, <1>3, <1>6, <2>1, <2>2 DEF TypeOK
<1>8. EntriesAreLive'
  BY <1>1, <1>2, <1>3, <1>6, SessionAssumption DEF TypeOK, EntriesAreLive, Listed
<1>9. QueueIsListed'
  <2>1. Range(queued) \subseteq Session
    BY RangeInSet DEF TypeOK
  <2> SUFFICES ASSUME NEW t \in Range(queued')
               PROVE  stage'[t] = "listed" /\ init'[t] = "no" /\ t \in inQueue'
    BY <1>3 DEF QueueIsListed
  <2>2. CASE t \in W
    <3>1. t = s /\ t \in inQueue' /\ init[s] = "no"
      BY <1>1, <1>4, <2>2 DEF OnlyListedEnter
    <3> QED
      BY <1>5, <1>6, <2>2, <3>1 DEF TypeOK
  <2>3. CASE t \in Range(queued)
    <3>1. t \in Session /\ stage[t] = "listed" /\ init[t] = "no" /\ t \in inQueue
      BY <2>1, <2>3 DEF QueueIsListed
    <3>2. t # s /\ t # Old(s)
      BY <1>1, <1>2, <3>1
    <3>3. stage'[t] = stage[t] /\ init'[t] = init[t]
      BY <1>5, <1>6, <3>1, <3>2 DEF TypeOK
    <3> QED
      BY <1>4, <3>1, <3>2, <3>3
  <2> QED
    BY <1>4, <2>2, <2>3
<1>10. NoneForgotten' /\ OnlyListedEnter'
  BY <1>1, <1>2, <1>4, <1>5, <1>6 DEF TypeOK, NoneForgotten, OnlyListedEnter
<1> QED
  BY <1>7, <1>8, <1>9, <1>10

\* World::AddSession_ of an account that has one.
LEMMA ReplaceSessionStep ==
  ASSUME IInv, NEW s \in Session, ReplaceSession(s)
  PROVE  IInv'
<1> USE DEF IInv
<1> DEFINE o == Old(s)
           removal == RemoveQueuedPlayer(queued, o)
<1>1. /\ stage[s] = "arriving" /\ todo = {}
      /\ arriving' \in Seq(Session) /\ IsInjective(arriving')
      /\ Range(arriving') = Range(arriving) \ {s}
  BY Arriving DEF ReplaceSession
<1>2. /\ AccountOf[s] \in Account /\ o \in Session /\ stage[o] = "listed"
      /\ AccountOf[o] = AccountOf[s] /\ o # s /\ sessions[AccountOf[s]] = o
  BY <1>1, OldSession DEF ReplaceSession, Old
<1>3. /\ removal.queue \in Seq(Session) /\ IsInjective(removal.queue)
      /\ removal.admitted \subseteq Range(queued) \ {o}
      /\ Range(removal.queue) = Range(queued) \ ({o} \union removal.admitted)
  BY Removal DEF TypeOK, QueueIsListed
<1>4. Enlist(s, removal)
  BY DEF ReplaceSession
<1>5. Range(queued) \subseteq Session
  BY RangeInSet DEF TypeOK
<1> HIDE DEF removal
<1>6. /\ sessions' = [sessions EXCEPT ![AccountOf[s]] = s]
      /\ queued' \in Seq(Session) /\ IsInjective(queued')
      /\ \E W \in SUBSET {s} :
           /\ Range(queued') = Range(removal.queue) \union W
           /\ inQueue' = (inQueue \ {o}) \union W
           /\ init' = InitAfter(removal.admitted \union ({s} \ W), o)
      /\ disconnects' \in [Account -> 0..MaxTime \union {Never}]
      /\ limit' = limit /\ now' = now /\ todo' = todo
  BY <1>1, <1>3, <1>4, Enlisted
<1>7. PICK W \in SUBSET {s} :
        /\ Range(queued') = Range(removal.queue) \union W
        /\ inQueue' = (inQueue \ {o}) \union W
        /\ init' = InitAfter(removal.admitted \union ({s} \ W), o)
  BY <1>6
<1>8. init' = [t \in Session |-> IF t = o THEN "no"
                ELSE IF t \in removal.admitted \union ({s} \ W) THEN "pending" ELSE init[t]]
  BY <1>7 DEF InitAfter
<1>9. /\ stage' = [[stage EXCEPT ![s] = "listed"] EXCEPT ![o] = "free"]
      /\ open' = open \ {o} /\ kicked' = kicked \ {o}
      /\ char' = [char EXCEPT ![o] = "none"] /\ grace' = [grace EXCEPT ![o] = Grace]
  BY DEF ReplaceSession, Deleted
<1>10. \A t \in Session : stage'[t] = IF t = o THEN "free" ELSE IF t = s THEN "listed" ELSE stage[t]
  BY <1>2, <1>9 DEF TypeOK
<1> HIDE DEF o
<1>11. TypeOK'
  <2>1. inQueue' \subseteq Session /\ init' \in [Session -> {"no", "pending", "done"}]
    BY <1>7, <1>8 DEF TypeOK
  <2>2. stage' \in [Session -> Stage] /\ sessions' \in [Account -> Session \union {NoSession}]
    BY <1>2, <1>6, <1>9 DEF TypeOK, Stage
  <2>3. char' \in [Session -> {"none", "loading", "refused", "playing"}]
        /\ grace' \in [Session -> 0..Grace]
    <3>1. /\ char \in [Session -> {"none", "loading", "refused", "playing"}]
          /\ grace \in [Session -> 0..Grace] /\ Grace \in 0..Grace
      BY NumberAssumption DEF TypeOK
    <3> QED
      BY <1>2, <1>9, <3>1
  <2> QED
    BY <1>1, <1>6, <1>9, <2>1, <2>2, <2>3 DEF TypeOK
<1>12. EntriesAreLive'
  <2>1. /\ \A a \in Account : sessions'[a] = IF a = AccountOf[s] THEN s ELSE sessions[a]
        /\ Listed' = Listed /\ AccountOf[s] \in Listed
    BY <1>2, <1>6, SessionAssumption DEF TypeOK, Listed
  <2>2. ASSUME NEW a \in Listed
        PROVE  stage'[sessions'[a]] = "listed" /\ AccountOf[sessions'[a]] = a
    <3>1. CASE a = AccountOf[s]
      BY <1>2, <1>10, <2>1, <3>1
    <3>2. CASE a # AccountOf[s]
      <4>1. /\ a \in Account /\ sessions[a] \in Session
            /\ stage[sessions[a]] = "listed" /\ AccountOf[sessions[a]] = a
        BY DEF TypeOK, EntriesAreLive, Listed
      <4>2. sessions[a] # o /\ sessions[a] # s
        BY <1>2, <3>2, <4>1
      <4> QED
        BY <1>10, <2>1, <3>2, <4>1, <4>2
    <3> QED
      BY <3>1, <3>2
  <2>3. ASSUME NEW t \in Session, stage'[t] = "listed"
        PROVE  sessions'[AccountOf[t]] = t
    <3>1. AccountOf[t] \in Account
      BY SessionAssumption
    <3>2. CASE t = s
      BY <2>1, <3>1, <3>2
    <3>3. CASE t # s
      <4>1. t # o /\ stage[t] = "listed" /\ sessions[AccountOf[t]] = t
        BY <1>10, <2>3, <3>3 DEF EntriesAreLive
      <4>2. AccountOf[t] # AccountOf[s]
        BY <1>2, <4>1
      <4> QED
        BY <2>1, <3>1, <4>1, <4>2
    <3> QED
      BY <3>2, <3>3
  <2>4. \A t \in Session : stage'[t] = "arriving" <=> t \in Range(arriving')
    BY <1>1, <1>2, <1>10 DEF EntriesAreLive
  <2> QED
    BY <1>1, <1>6, <2>1, <2>2, <2>3, <2>4 DEF EntriesAreLive
<1>13. QueueIsListed'
  <2> SUFFICES ASSUME NEW t \in Range(queued')
               PROVE  stage'[t] = "listed" /\ init'[t] = "no" /\ t \in inQueue'
    BY <1>6 DEF QueueIsListed
  <2>1. CASE t \in W
    <3>1. t = s /\ t \in inQueue' /\ init[s] = "no"
      BY <1>1, <1>7, <2>1 DEF OnlyListedEnter
    <3>2. s \notin removal.admitted
      BY <1>1, <1>3 DEF QueueIsListed
    <3> QED
      BY <1>2, <1>8, <1>10, <2>1, <3>1, <3>2
  <2>2. CASE t \in Range(removal.queue)
    <3>1. t \in Range(queued) /\ t # o /\ t \notin removal.admitted
      BY <1>3, <2>2
    <3>2. t \in Session /\ stage[t] = "listed" /\ init[t] = "no" /\ t \in inQueue
      BY <1>5, <3>1 DEF QueueIsListed
    <3>3. t # s
      BY <1>1, <3>2
    <3>4. stage'[t] = stage[t] /\ init'[t] = init[t]
      BY <1>8, <1>10, <3>1, <3>2, <3>3
    <3> QED
      BY <1>7, <3>1, <3>2, <3>4
  <2> QED
    BY <1>7, <2>1, <2>2
<1>14. NoneForgotten' /\ OnlyListedEnter'
  <2>1. \A t \in Session : init'[t] = IF t = o THEN "no"
                ELSE IF t \in removal.admitted \union ({s} \ W) THEN "pending" ELSE init[t]
    BY <1>8
  <2>2. OnlyListedEnter'
    BY <1>2, <1>3, <1>10, <2>1 DEF OnlyListedEnter, QueueIsListed
  <2>3. ASSUME NEW t \in Session \ kicked', stage'[t] = "listed"
        PROVE  /\ t \in Range(queued') \/ init'[t] # "no"
               /\ t \in inQueue' => t \in Range(queued') \/ init'[t] = "pending"
    <3>1. t # o
      BY <1>10, <2>3
    <3>2. CASE t = s
      BY <1>2, <1>7, <2>1, <3>2
    <3>3. CASE t # s
      <4>1. stage[t] = "listed" /\ t \notin kicked
        BY <1>9, <1>10, <2>3, <3>1, <3>3
      <4>2. t \in Range(queued) => t \in Range(queued') \/ init'[t] = "pending"
        BY <1>3, <1>7, <2>1, <3>1
      <4>3. init'[t] = init[t] \/ init'[t] = "pending"
        BY <2>1, <3>1
      <4>4. t \in inQueue' => t \in inQueue
        BY <1>7, <3>3
      <4> QED
        BY <4>1, <4>2, <4>3, <4>4 DEF NoneForgotten
    <3> QED
      BY <3>2, <3>3
  <2> QED
    BY <2>2, <2>3 DEF NoneForgotten
<1> QED
  BY <1>11, <1>12, <1>13, <1>14

\* The end of World::UpdateSessions for a session that goes.
LEMMA RemoveSessionStep ==
  ASSUME IInv, NEW s \in Session, RemoveSession(s)
  PROVE  IInv'
<1> USE DEF IInv
<1> DEFINE a == AccountOf[s]
           first == RemoveQueuedPlayer(queued, s)
           second == RemoveQueuedPlayer(first.queue, s)
           admitted == first.admitted \union second.admitted
<1>1. /\ stage[s] = "listed" /\ a \in Account /\ sessions[a] = s
  BY SessionAssumption DEF RemoveSession, Updating, TypeOK, EntriesAreLive
<1>2. /\ first.queue \in Seq(Session) /\ IsInjective(first.queue)
      /\ first.admitted \subseteq Range(queued) \ {s}
      /\ Range(first.queue) = Range(queued) \ ({s} \union first.admitted)
  BY Removal DEF TypeOK, QueueIsListed
<1>3. /\ second.queue \in Seq(Session) /\ IsInjective(second.queue)
      /\ second.admitted \subseteq Range(first.queue) \ {s}
      /\ Range(second.queue) = Range(first.queue) \ ({s} \union second.admitted)
  <2> HIDE DEF first
  <2> QED
    BY <1>2, Removal
<1>4. /\ sessions' = [sessions EXCEPT ![a] = NoSession]
      /\ queued' = second.queue /\ inQueue' = inQueue \ {s}
      /\ init' = InitAfter(admitted, s)
      /\ disconnects' = IF ~first.found /\ Tolerance # 0
                        THEN [disconnects EXCEPT ![a] = now] ELSE disconnects
      /\ todo' = todo \ {a}
      /\ arriving' = arriving /\ limit' = limit /\ now' = now
  BY DEF RemoveSession
<1>5. /\ stage' = [stage EXCEPT ![s] = "free"]
      /\ open' = open \ {s} /\ kicked' = kicked \ {s}
      /\ char' = [char EXCEPT ![s] = "none"] /\ grace' = [grace EXCEPT ![s] = Grace]
  BY DEF RemoveSession, Deleted
<1>6. /\ Range(queued') = Range(queued) \ ({s} \union admitted)
      /\ admitted \subseteq Range(queued) \ {s} /\ Range(queued) \subseteq Session
      /\ queued' \in Seq(Session) /\ IsInjective(queued')
  <2>1. Range(queued) \subseteq Session
    BY RangeInSet DEF TypeOK
  <2> HIDE DEF first, second
  <2> QED
    BY <1>2, <1>3, <1>4, <2>1
<1> HIDE DEF first, second, admitted
<1>7. init' = [t \in Session |-> IF t = s THEN "no"
                                 ELSE IF t \in admitted THEN "pending" ELSE init[t]]
  BY <1>4 DEF InitAfter
<1>8. TypeOK'
  <2>1. disconnects' \in [Account -> 0..MaxTime \union {Never}]
    BY <1>4 DEF TypeOK
  <2> QED
    BY <1>1, <1>4, <1>5, <1>6, <1>7, <2>1, NumberAssumption DEF TypeOK, Stage
<1>9. EntriesAreLive'
  BY <1>1, <1>4, <1>5, SessionAssumption DEF TypeOK, EntriesAreLive, Listed
<1>10. QueueIsListed'
  BY <1>4, <1>5, <1>6, <1>7 DEF TypeOK, QueueIsListed
<1>11. NoneForgotten' /\ OnlyListedEnter'
  BY <1>4, <1>5, <1>6, <1>7 DEF TypeOK, NoneForgotten, OnlyListedEnter, QueueIsListed
<1> QED
  BY <1>8, <1>9, <1>10, <1>11

\* World::AddSession_ while the account's character is loading.
LEMMA RejectSessionStep ==
  ASSUME IInv, NEW s \in Session, RejectSession(s)
  PROVE  IInv'
<1> USE DEF IInv
<1>1. /\ stage[s] = "arriving" /\ todo = {}
      /\ arriving' \in Seq(Session) /\ IsInjective(arriving')
      /\ Range(arriving') = Range(arriving) \ {s}
  BY Arriving DEF RejectSession
<1>2. /\ stage' = [stage EXCEPT ![s] = "free"]
      /\ open' = open \ {s} /\ kicked' = kicked \ {s}
      /\ char' = [char EXCEPT ![s] = "none"] /\ grace' = [grace EXCEPT ![s] = Grace]
      /\ UNCHANGED <<init, inQueue, sessions, queued, disconnects, limit, now, todo>>
  BY DEF RejectSession, Deleted
<1>3. TypeOK'
  <2>1. Grace \in 0..Grace
    BY NumberAssumption
  <2> QED
    BY <1>1, <1>2, <2>1 DEF TypeOK, Stage
<1>4. EntriesAreLive'
  BY <1>1, <1>2 DEF TypeOK, EntriesAreLive, Listed
<1>5. QueueIsListed' /\ NoneForgotten' /\ OnlyListedEnter'
  <2>1. Range(queued) \subseteq Session
    BY RangeInSet DEF TypeOK
  <2> QED
    BY <1>1, <1>2, <2>1 DEF TypeOK, QueueIsListed, NoneForgotten, OnlyListedEnter
<1> QED
  BY <1>3, <1>4, <1>5

\* LoadSessionPermissionsCallback puts the session into addSessQueue.
LEMMA LoadPermissionsStep ==
  ASSUME IInv, NEW s \in Session, LoadPermissions(s)
  PROVE  IInv'
<1> USE DEF IInv
<1>1. /\ stage[s] = "authed" /\ stage' = [stage EXCEPT ![s] = "arriving"]
      /\ arriving' = Append(arriving, s)
      /\ UNCHANGED <<open, init, char, kicked, grace, inQueue>>
      /\ UNCHANGED <<sessions, queued, disconnects, limit, now, todo>>
  BY DEF LoadPermissions
<1>2. s \notin Range(arriving) /\ arriving \in Seq(Session) /\ IsInjective(arriving)
  BY <1>1 DEF TypeOK, EntriesAreLive
<1>3. /\ arriving' \in Seq(Session) /\ IsInjective(arriving')
      /\ Range(arriving') = Range(arriving) \union {s}
  BY <1>1, <1>2, RangeAppend
<1>4. TypeOK'
  BY <1>1, <1>3 DEF TypeOK, Stage
<1>5. EntriesAreLive'
  BY <1>1, <1>3 DEF TypeOK, EntriesAreLive, Listed
<1>6. QueueIsListed' /\ NoneForgotten' /\ OnlyListedEnter'
  <2>1. Range(queued) \subseteq Session
    BY RangeInSet DEF TypeOK
  <2> QED
    BY <1>1, <2>1 DEF TypeOK, QueueIsListed, NoneForgotten, OnlyListedEnter
<1> QED
  BY <1>4, <1>5, <1>6

\* World::KickAll empties the queue and tells everybody in it to go.
LEMMA KickAllStep == ASSUME IInv, KickAll PROVE IInv'
<1> USE DEF IInv
<1> DEFINE all == {sessions[a] : a \in Listed}
<1>1. /\ queued' = <<>> /\ kicked' = kicked \union all /\ open' = open \ all
      /\ UNCHANGED <<stage, init, char, grace, inQueue>>
      /\ UNCHANGED <<arriving, sessions, disconnects, limit, now, todo>>
  BY DEF KickAll
<1>2. /\ <<>> \in Seq(Session) /\ IsInjective(<<>>) /\ Range(<<>>) = {}
  BY DEF IsInjective, Range
<1>3. all \subseteq Session /\ \A s \in Session : stage[s] = "listed" => s \in all
  <2>1. all \subseteq Session
    BY DEF TypeOK, Listed
  <2>2. ASSUME NEW s \in Session, stage[s] = "listed" PROVE s \in all
    <3>1. AccountOf[s] \in Account /\ sessions[AccountOf[s]] = s /\ s # NoSession
      BY <2>2, SessionAssumption DEF EntriesAreLive
    <3> QED
      BY <3>1 DEF Listed
  <2> QED
    BY <2>1, <2>2
<1> HIDE DEF all
<1>4. TypeOK'
  BY <1>1, <1>2, <1>3 DEF TypeOK
<1>5. EntriesAreLive'
  BY <1>1 DEF EntriesAreLive, Listed
<1>6. QueueIsListed' /\ NoneForgotten' /\ OnlyListedEnter'
  BY <1>1, <1>2, <1>3 DEF QueueIsListed, NoneForgotten, OnlyListedEnter
<1> QED
  BY <1>4, <1>5, <1>6

-----------------------------------------------------------------------------
(* The actions that leave every session where it is *)

\* A step that moves no session, queues none and initialises none, except that
\* one in the queue of those that wait for data may be told that it is in.
Undisturbed ==
  /\ UNCHANGED <<arriving, sessions, queued>>
  /\ \A s \in Session : stage'[s] # stage[s] => {stage[s], stage'[s]} = {"free", "authed"}
  /\ kicked \subseteq kicked' /\ todo' \subseteq Listed
  /\ \A s \in Session :
       \/ init'[s] = init[s] /\ (s \in inQueue' <=> s \in inQueue)
       \/ init[s] = "pending" /\ init'[s] = "done" /\ s \notin inQueue'

\* Such a step keeps the invariant.
LEMMA Unmoved == ASSUME IInv, TypeOK', Undisturbed PROVE IInv'
<1> USE DEF IInv, Undisturbed
<1>1. \A s \in Session : /\ stage[s] = "listed" <=> stage'[s] = "listed"
                         /\ stage[s] = "arriving" <=> stage'[s] = "arriving"
  OBVIOUS
<1>2. Listed' = Listed /\ Range(queued) \subseteq Session
  BY RangeInSet DEF Listed, TypeOK
<1>3. EntriesAreLive'
  BY <1>1, <1>2 DEF EntriesAreLive, TypeOK, Listed
<1>4. QueueIsListed'
  BY <1>1, <1>2 DEF QueueIsListed
<1>5. NoneForgotten' /\ OnlyListedEnter'
  BY <1>1 DEF NoneForgotten, OnlyListedEnter
<1> QED
  BY <1>3, <1>4, <1>5

\* What network threads do to a session that is not in World yet, and the end of
\* a connection.
LEMMA NetworkStep == ASSUME IInv, NEW s \in Session, Network(s) PROVE IInv'
<1>1. CASE Authenticate(s)
  <2>1. TypeOK'
    BY <1>1 DEF IInv, TypeOK, Authenticate, worldVars, Stage
  <2>2. Undisturbed
    BY <1>1 DEF IInv, TypeOK, EntriesAreLive, Undisturbed, Authenticate, worldVars, Stage
  <2> QED
    BY <2>1, <2>2, Unmoved
<1>2. CASE LoadPermissions(s)
  BY <1>2, LoadPermissionsStep
<1>3. CASE CloseSocket(s)
  <2>1. TypeOK'
    BY <1>3 DEF IInv, TypeOK, CloseSocket, worldVars
  <2>2. Undisturbed
    BY <1>3 DEF IInv, TypeOK, EntriesAreLive, Undisturbed, CloseSocket, worldVars
  <2> QED
    BY <2>1, <2>2, Unmoved
<1> QED
  BY <1>1, <1>2, <1>3 DEF Network

\* Opcodes and callbacks of a session.
LEMMA HandlerStep == ASSUME IInv, NEW s \in Session, Handler(s) PROVE IInv'
<1>1. CASE PlayerLoginOpcode(s)
  <2>1. TypeOK'
    BY <1>1 DEF IInv, TypeOK, PlayerLoginOpcode, worldVars, KickedToo
  <2>2. Undisturbed
    BY <1>1 DEF IInv, TypeOK, EntriesAreLive, Undisturbed, PlayerLoginOpcode, worldVars, KickedToo
  <2> QED
    BY <2>1, <2>2, Unmoved
<1>2. CASE PlayerLogin(s)
  <2>1. TypeOK'
    BY <1>2 DEF IInv, TypeOK, PlayerLogin, worldVars, KickedToo
  <2>2. Undisturbed
    BY <1>2 DEF IInv, TypeOK, EntriesAreLive, Undisturbed, PlayerLogin, worldVars, KickedToo
  <2> QED
    BY <2>1, <2>2, Unmoved
<1>3. CASE LogoutPlayer(s)
  <2>1. TypeOK'
    BY <1>3 DEF IInv, TypeOK, LogoutPlayer, worldVars
  <2>2. Undisturbed
    BY <1>3 DEF IInv, TypeOK, EntriesAreLive, Undisturbed, LogoutPlayer, worldVars
  <2> QED
    BY <2>1, <2>2, Unmoved
<1>4. CASE InitializeSessionCallback(s)
  <2>1. TypeOK'
    BY <1>4 DEF IInv, TypeOK, InitializeSessionCallback, worldVars
  <2>2. Undisturbed
    BY <1>4 DEF IInv, TypeOK, EntriesAreLive, Undisturbed, InitializeSessionCallback, worldVars
  <2> QED
    BY <2>1, <2>2, Unmoved
<1> QED
  BY <1>1, <1>2, <1>3, <1>4 DEF Handler

\* The update of a session that stays.
LEMMA KeepSessionStep == ASSUME IInv, NEW s \in Session, KeepSession(s) PROVE IInv'
<1> USE DEF IInv
<1>1. grace' \in [Session -> 0..Grace]
  <2>1. LessGrace(s) \in 0..Grace
    BY NumberAssumption DEF TypeOK, LessGrace
  <2> QED
    BY <2>1 DEF KeepSession, TypeOK
<1>2. TypeOK'
  BY <1>1 DEF KeepSession, TypeOK
<1>3. Undisturbed
  BY DEF KeepSession, TypeOK, EntriesAreLive, Undisturbed
<1> QED
  BY <1>2, <1>3, Unmoved

-----------------------------------------------------------------------------
(* The theorems *)

\* The initial states satisfy the invariant, and every step keeps it.
THEOREM Invariance == Spec => []IInv
<1>1. Init => IInv
  <2> SUFFICES ASSUME Init PROVE IInv
    OBVIOUS
  <2>1. <<>> \in Seq(Session) /\ IsInjective(<<>>) /\ Range(<<>>) = {}
    BY DEF IsInjective, Range
  <2>2. TypeOK
    BY <2>1, NumberAssumption DEF Init, TypeOK, Stage
  <2>3. Listed = {}
    BY DEF Init, Listed
  <2> QED
    BY <2>1, <2>2, <2>3 DEF Init, IInv, EntriesAreLive, QueueIsListed, NoneForgotten, OnlyListedEnter
<1>2. IInv /\ [Next]_vars => IInv'
  <2> SUFFICES ASSUME IInv, [Next]_vars PROVE IInv'
    OBVIOUS
  <2>1. ASSUME NEW s \in Session, Network(s) PROVE IInv'
    BY <2>1, NetworkStep
  <2>2. ASSUME NEW s \in Session, Arrival(s) PROVE IInv'
    BY <2>2, AddSessionStep, ReplaceSessionStep, RejectSessionStep DEF Arrival
  <2>3. ASSUME NEW s \in Session, Handler(s) PROVE IInv'
    BY <2>3, HandlerStep
  <2>4. ASSUME NEW s \in Session, Update(s) PROVE IInv'
    BY <2>4, KeepSessionStep, RemoveSessionStep DEF Update
  <2>5. ASSUME NEW s \in Session, KickPlayer(s) PROVE IInv'
    <3>1. TypeOK'
      BY <2>5 DEF IInv, TypeOK, KickPlayer, KickedToo, worldVars
    <3>2. Undisturbed
      BY <2>5 DEF IInv, TypeOK, EntriesAreLive, Undisturbed, KickPlayer, KickedToo, worldVars
    <3> QED
      BY <3>1, <3>2, Unmoved
  <2>6. CASE BeginUpdates
    <3>1. TypeOK'
      BY <2>6 DEF IInv, TypeOK, BeginUpdates, sessionVars, Listed
    <3>2. Undisturbed
      BY <2>6 DEF IInv, TypeOK, EntriesAreLive, Undisturbed, BeginUpdates, sessionVars, Listed
    <3> QED
      BY <3>1, <3>2, Unmoved
  <2>7. CASE KickAll
    BY <2>7, KickAllStep
  <2>8. CASE TimePasses
    <3>1. TypeOK'
      BY <2>8, NumberAssumption DEF IInv, TypeOK, TimePasses, sessionVars
    <3>2. Undisturbed
      BY <2>8 DEF IInv, TypeOK, EntriesAreLive, Undisturbed, TimePasses, sessionVars
    <3> QED
      BY <3>1, <3>2, Unmoved
  <2>9. ASSUME NEW n \in Limits, SetPlayerAmountLimit(n) PROVE IInv'
    <3>1. TypeOK'
      BY <2>9 DEF IInv, TypeOK, SetPlayerAmountLimit, sessionVars
    <3>2. Undisturbed
      BY <2>9 DEF IInv, TypeOK, EntriesAreLive, Undisturbed, SetPlayerAmountLimit, sessionVars
    <3> QED
      BY <3>1, <3>2, Unmoved
  <2>10. CASE UNCHANGED vars
    <3>1. TypeOK'
      BY <2>10 DEF IInv, TypeOK, vars, sessionVars, worldVars
    <3>2. Undisturbed
      BY <2>10 DEF IInv, TypeOK, EntriesAreLive, Undisturbed, vars, sessionVars, worldVars
    <3> QED
      BY <3>1, <3>2, Unmoved
  <2> QED
    BY <2>1, <2>2, <2>3, <2>4, <2>5, <2>6, <2>7, <2>8, <2>9, <2>10 DEF Next
<1> QED
  BY <1>1, <1>2, PTL DEF Spec

\* The variables of WorldSessions keep their types.
THEOREM TypeCorrect == Spec => []TypeOK
BY Invariance, PTL DEF IInv

\* m_sessions and addSessQueue hold exactly the sessions that exist and were
\* added: AddSession_ and UpdateSessions delete no session that is still listed
\* and lose none.
THEOREM EntriesLive == Spec => []EntriesAreLive
BY Invariance, PTL DEF IInv

\* m_QueuedPlayer holds live sessions, each once, of those in m_sessions: the
\* difference in GetActiveSessionCount never wraps.
THEOREM QueueListed == Spec => []QueueIsListed
BY Invariance, PTL DEF IInv

\* RemoveQueuedPlayer, AddSession_ and UpdateSessions forget nobody who waits.
THEOREM NobodyForgotten == Spec => []NoneForgotten
BY Invariance, PTL DEF IInv

-----------------------------------------------------------------------------
(* Who is let in, and who waits *)

\* GetActiveSessionCount is the number of active sessions.
Counted ==
  /\ IsFiniteSet(Listed) /\ Cardinality(Listed) \in Nat
  /\ IsFiniteSet(Active) /\ Cardinality(Active) \in Nat
  /\ Len(queued) \in Nat /\ Cardinality(Active) = Cardinality(Listed) - Len(queued)
  /\ Active # {} => Len(queued) < Cardinality(Listed)

\* Each session of m_sessions is that of one account, and each in m_QueuedPlayer
\* is one of them.
LEMMA CountActive ==
  ASSUME NEW f \in [Account -> Session \union {NoSession}],
         NEW q \in Seq(Session), IsInjective(q), NEW L, NEW A,
         L = {a \in Account : f[a] # NoSession}, A = {f[a] : a \in L} \ Range(q),
         \A a \in L : AccountOf[f[a]] = a, Range(q) \subseteq {f[a] : a \in L}
  PROVE  /\ IsFiniteSet(L) /\ Cardinality(L) \in Nat
         /\ IsFiniteSet(A) /\ Cardinality(A) \in Nat
         /\ Len(q) \in Nat /\ Cardinality(A) = Cardinality(L) - Len(q)
         /\ A # {} => Len(q) < Cardinality(L)
<1> DEFINE g == [a \in L |-> f[a]]
           T == {f[a] : a \in L}
<1>1. IsFiniteSet(L)
  BY SessionAssumption, FS_Subset
<1>2. g \in Surjection(L, T) /\ g \in Injection(L, T)
  BY DEF Surjection, Injection, IsInjective
<1>3. IsFiniteSet(T) /\ Cardinality(T) = Cardinality(L)
  <2> HIDE DEF g, T
  <2> QED
    BY <1>1, <1>2, FS_Surjection
<1>4. IsFiniteSet(Range(q)) /\ Cardinality(Range(q)) = Len(q)
  BY RangeCount
<1> HIDE DEF g, T
<1>5. T \intersect Range(q) = Range(q) /\ A = T \ Range(q)
  BY DEF T
<1>6. IsFiniteSet(A) /\ Cardinality(A) = Cardinality(T) - Cardinality(Range(q))
  <2>1. /\ IsFiniteSet(T \ Range(q))
        /\ Cardinality(T \ Range(q)) = Cardinality(T) - Cardinality(T \intersect Range(q))
    BY <1>3, FS_Difference
  <2> QED
    BY <1>5, <2>1
<1>7. Cardinality(A) \in Nat /\ Cardinality(L) \in Nat /\ Len(q) \in Nat
  BY <1>1, <1>6, FS_CardinalityType
<1>8. A # {} => Cardinality(A) # 0
  BY <1>6, FS_EmptySet
<1> QED
  BY <1>1, <1>3, <1>4, <1>6, <1>7, <1>8

\* Before a step and after it.
LEMMA Counts == ASSUME IInv PROVE Counted
<1> USE DEF IInv
<1>1. Range(queued) \subseteq {sessions[a] : a \in Listed}
  <2> SUFFICES ASSUME NEW s \in Range(queued) PROVE s \in {sessions[a] : a \in Listed}
    OBVIOUS
  <2>1. s \in Session /\ stage[s] = "listed"
    BY RangeInSet DEF TypeOK, QueueIsListed
  <2>2. AccountOf[s] \in Account /\ sessions[AccountOf[s]] = s /\ s # NoSession
    BY <2>1, SessionAssumption DEF EntriesAreLive
  <2> QED
    BY <2>2 DEF Listed
<1>2. /\ sessions \in [Account -> Session \union {NoSession}]
      /\ queued \in Seq(Session) /\ IsInjective(queued)
      /\ Listed = {a \in Account : sessions[a] # NoSession}
      /\ Active = {sessions[a] : a \in Listed} \ Range(queued)
      /\ \A a \in Listed : AccountOf[sessions[a]] = a
  BY DEF TypeOK, EntriesAreLive, QueueIsListed, Listed, Active
<1> QED
  BY <1>1, <1>2, CountActive DEF Counted

LEMMA CountsAfter == ASSUME IInv' PROVE Counted'
<1> USE DEF IInv
<1>1. Range(queued') \subseteq {sessions'[a] : a \in Listed'}
  <2> SUFFICES ASSUME NEW s \in Range(queued') PROVE s \in {sessions'[a] : a \in Listed'}
    OBVIOUS
  <2>1. s \in Session /\ stage'[s] = "listed"
    BY RangeInSet DEF TypeOK, QueueIsListed
  <2>2. AccountOf[s] \in Account /\ sessions'[AccountOf[s]] = s /\ s # NoSession
    BY <2>1, SessionAssumption DEF EntriesAreLive
  <2> QED
    BY <2>2 DEF Listed
<1>2. /\ sessions' \in [Account -> Session \union {NoSession}]
      /\ queued' \in Seq(Session) /\ IsInjective(queued')
      /\ Listed' = {a \in Account : sessions'[a] # NoSession}
      /\ Active' = {sessions'[a] : a \in Listed'} \ Range(queued')
      /\ \A a \in Listed' : AccountOf[sessions'[a]] = a
  BY DEF TypeOK, EntriesAreLive, QueueIsListed, Listed, Active
<1> QED
  BY <1>1, <1>2, CountActive DEF Counted

\* The active sessions are the listed ones that do not wait.
LEMMA ActiveSessions ==
  ASSUME IInv
  PROVE  Active = {s \in Session : stage[s] = "listed" /\ s \notin Range(queued)}
<1> USE DEF IInv
<1>1. ASSUME NEW s \in Active PROVE s \in Session /\ stage[s] = "listed" /\ s \notin Range(queued)
  BY <1>1 DEF Active, Listed, TypeOK, EntriesAreLive
<1>2. ASSUME NEW s \in Session, stage[s] = "listed", s \notin Range(queued) PROVE s \in Active
  BY <1>2, SessionAssumption DEF Active, Listed, EntriesAreLive
<1> QED
  BY <1>1, <1>2

LEMMA ActiveSessionsAfter ==
  ASSUME IInv'
  PROVE  Active' = {s \in Session : stage'[s] = "listed" /\ s \notin Range(queued')}
<1> USE DEF IInv
<1>1. ASSUME NEW s \in Active' PROVE s \in Session /\ stage'[s] = "listed" /\ s \notin Range(queued')
  BY <1>1 DEF Active, Listed, TypeOK, EntriesAreLive
<1>2. ASSUME NEW s \in Session, stage'[s] = "listed", s \notin Range(queued') PROVE s \in Active'
  BY <1>2, SessionAssumption DEF Active, Listed, EntriesAreLive
<1> QED
  BY <1>1, <1>2

\* Whether a newcomer waits depends on the count of the other sessions, where n
\* accounts are listed with its own.
Outcome(s, removal, n) ==
  LET others == IF removal.found THEN n ELSE n - 1
      waits == s \in Range(queued')
  IN  /\ limit' = limit
      /\ queued' = IF waits THEN Append(removal.queue, s) ELSE removal.queue
      /\ waits => limit > 0 /\ others >= limit
      /\ \/ waits \/ limit = 0 \/ others < limit
         \/ AccountOf[s] \in SkipQueue \/ HasRecentlyDisconnected(AccountOf[s])
      /\ \A t \in Session : init[t] # "pending" /\ init'[t] = "pending" =>
           t \in removal.admitted \/ (t = s /\ ~waits)

LEMMA Enlisting ==
  ASSUME IInv, NEW s \in Session, stage[s] = "arriving", NEW removal,
         removal.queue \in Seq(Session), Range(removal.queue) \subseteq Range(queued),
         removal.found \in BOOLEAN, Enlist(s, removal),
         NEW n \in Nat, n = Cardinality(Listed \union {AccountOf[s]})
  PROVE  Outcome(s, removal, n)
<1> DEFINE a == AccountOf[s]
           others == IF removal.found THEN n ELSE n - 1
           asked == IsFull(a, removal.found) /\ a \notin SkipQueue
           waits == asked /\ ~HasRecentlyDisconnected(a)
<1>1. /\ queued' = IF waits THEN Append(removal.queue, s) ELSE removal.queue
      /\ init' = InitAfter(removal.admitted \union (IF waits THEN {} ELSE {s}), Old(s))
      /\ limit' = limit
  BY DEF Enlist
<1>2. limit \in Nat
  BY NumberAssumption DEF IInv, TypeOK
<1>3. IsFull(a, removal.found) <=> limit > 0 /\ others >= limit
  <2>1. (IF removal.found THEN n - 1 + 1 ELSE n - 1) = others
    OBVIOUS
  <2> QED
    BY <2>1 DEF IsFull
<1>4. s \notin Range(removal.queue)
  BY DEF IInv, QueueIsListed
<1>5. waits => Range(queued') = Range(removal.queue) \union {s}
  BY <1>1, RangeAppend
<1>6. waits <=> s \in Range(queued')
  BY <1>1, <1>4, <1>5
<1>7. \A t \in Session : init[t] # "pending" /\ init'[t] = "pending" =>
        t \in removal.admitted \/ (t = s /\ ~waits)
  BY <1>1 DEF InitAfter
<1>8. \/ waits \/ ~(limit > 0 /\ others >= limit)
      \/ a \in SkipQueue \/ HasRecentlyDisconnected(a)
  BY <1>3
<1>9. others \in Int
  OBVIOUS
<1>10. ~(limit > 0 /\ others >= limit) => limit = 0 \/ others < limit
  <2> HIDE DEF others
  <2> QED
    BY <1>2, <1>9
<1>11. waits => limit > 0 /\ others >= limit
  BY <1>3
<1> HIDE DEF waits, others
<1> QED
  BY <1>1, <1>6, <1>7, <1>8, <1>10, <1>11 DEF others, Outcome

\* What AddSession does to the active sessions and the queue.
LEMMA Added ==
  ASSUME IInv, IInv', NEW s \in Session, AddSession(s)
  PROVE  LET n == Cardinality(Listed)
             waits == s \in Range(queued')
         IN  /\ limit' = limit /\ Cardinality(Listed') = n + 1
             /\ s \notin Active /\ s \notin Range(queued)
             /\ Active' = IF waits THEN Active ELSE Active \union {s}
             /\ queued' = IF waits THEN Append(queued, s) ELSE queued
             /\ waits => limit > 0 /\ n >= limit
             /\ \/ waits \/ limit = 0 \/ n < limit
                \/ AccountOf[s] \in SkipQueue \/ HasRecentlyDisconnected(AccountOf[s])
             /\ \A t \in Session : init[t] # "pending" /\ init'[t] = "pending" => t = s /\ ~waits
<1> DEFINE a == AccountOf[s]
           n == Cardinality(Listed)
           removal == NobodyRemoved
           waits == s \in Range(queued')
<1>1. /\ stage[s] = "arriving" /\ a \in Account /\ a \notin Listed
      /\ sessions' = [sessions EXCEPT ![a] = s] /\ s # NoSession
      /\ stage' = [stage EXCEPT ![s] = "listed"]
  BY Arriving, SessionAssumption DEF IInv, AddSession, Enlist, Old, Listed
<1>2. /\ IsFiniteSet(Listed) /\ n \in Nat
      /\ Listed' = Listed \union {a}
  <2>1. IsFiniteSet(Listed) /\ n \in Nat
    BY Counts DEF Counted
  <2>2. sessions \in [Account -> Session \union {NoSession}]
    BY DEF IInv, TypeOK
  <2> QED
    BY <1>1, <2>1, <2>2 DEF Listed
<1>3. Cardinality(Listed \union {a}) = n + 1
  BY <1>1, <1>2, FS_AddElement
<1>4. /\ removal.queue = queued /\ removal.found = FALSE /\ removal.admitted = {}
      /\ Enlist(s, removal)
  BY DEF NobodyRemoved, AddSession
<1>5. queued \in Seq(Session) /\ stage \in [Session -> Stage] /\ Range(queued) \subseteq Session
  BY RangeInSet DEF IInv, TypeOK
<1> HIDE DEF removal
<1>6. /\ limit' = limit
      /\ queued' = IF waits THEN Append(queued, s) ELSE queued
      /\ waits => limit > 0 /\ n >= limit
      /\ \/ waits \/ limit = 0 \/ n < limit
         \/ AccountOf[s] \in SkipQueue \/ HasRecentlyDisconnected(AccountOf[s])
      /\ \A t \in Session : init[t] # "pending" /\ init'[t] = "pending" => t = s /\ ~waits
  <2> DEFINE m == n + 1
  <2>1. m = Cardinality(Listed \union {AccountOf[s]})
    BY <1>3
  <2> HIDE DEF n
  <2>2. m \in Nat /\ m - 1 = n
    BY <1>2
  <2>3. /\ removal.found \in BOOLEAN
        /\ removal.queue \in Seq(Session) /\ Range(removal.queue) \subseteq Range(queued)
    BY <1>4, <1>5
  <2> HIDE DEF m
  <2>4. Outcome(s, removal, m)
    BY <1>1, <1>4, <2>1, <2>2, <2>3, Enlisting
  <2>5. (IF removal.found THEN m ELSE m - 1) = n
    BY <1>4, <2>2
  <2> HIDE DEF waits
  <2> QED
    BY <1>4, <2>4, <2>5 DEF Outcome, waits
<1>7. s \notin Range(queued)
  BY <1>1 DEF IInv, QueueIsListed
<1>8. Range(queued') = IF waits THEN Range(queued) \union {s} ELSE Range(queued)
  <2>1. Range(Append(queued, s)) = Range(queued) \union {s}
    BY <1>5, RangeAppend
  <2> HIDE DEF waits
  <2> QED
    BY <1>6, <2>1
<1>9. /\ Active = {t \in Session : stage[t] = "listed" /\ t \notin Range(queued)}
      /\ Active' = {t \in Session : stage'[t] = "listed" /\ t \notin Range(queued')}
  BY ActiveSessions, ActiveSessionsAfter
<1>10. s \notin Active /\ Active' = IF waits THEN Active ELSE Active \union {s}
  BY <1>1, <1>5, <1>7, <1>8, <1>9
<1> HIDE DEF waits, n
<1> QED
  BY <1>2, <1>3, <1>6, <1>7, <1>10 DEF n, waits

\* What ReplaceSession does to them.
LEMMA Replaced ==
  ASSUME IInv, IInv', NEW s \in Session, ReplaceSession(s)
  PROVE  LET n == Cardinality(Listed)
             o == Old(s)
             r == RemoveQueuedPlayer(queued, o)
             others == IF r.found THEN n ELSE n - 1
             waits == s \in Range(queued')
         IN  /\ limit' = limit /\ Cardinality(Listed') = n
             /\ o \in Session /\ stage[o] = "listed" /\ o # s
             /\ s \notin Active /\ s \notin Range(queued)
             /\ Active' = ((Active \ {o}) \union r.admitted) \union (IF waits THEN {} ELSE {s})
             /\ queued' = IF waits THEN Append(r.queue, s) ELSE r.queue
             /\ waits => limit > 0 /\ others >= limit
             /\ \/ waits \/ limit = 0 \/ others < limit
                \/ AccountOf[s] \in SkipQueue \/ HasRecentlyDisconnected(AccountOf[s])
             /\ \A t \in Session : init[t] # "pending" /\ init'[t] = "pending" =>
                  t \in r.admitted \/ (t = s /\ ~waits)
<1> DEFINE a == AccountOf[s]
           n == Cardinality(Listed)
           o == Old(s)
           r == RemoveQueuedPlayer(queued, o)
           others == IF r.found THEN n ELSE n - 1
           waits == s \in Range(queued')
<1>1. /\ stage[s] = "arriving" /\ a \in Account /\ a \in Listed
      /\ o \in Session /\ stage[o] = "listed" /\ o # s
      /\ sessions' = [sessions EXCEPT ![a] = s] /\ s # NoSession
      /\ stage' = [[stage EXCEPT ![s] = "listed"] EXCEPT ![o] = "free"]
  BY Arriving, OldSession, SessionAssumption DEF IInv, ReplaceSession, Enlist, Old, Listed, Deleted
<1>2. /\ IsFiniteSet(Listed) /\ n \in Nat
      /\ Listed' = Listed /\ Listed \union {a} = Listed
  <2>1. IsFiniteSet(Listed) /\ n \in Nat
    BY Counts DEF Counted
  <2>2. sessions \in [Account -> Session \union {NoSession}]
    BY DEF IInv, TypeOK
  <2> QED
    BY <1>1, <2>1, <2>2 DEF Listed
<1>3. queued \in Seq(Session) /\ stage \in [Session -> Stage] /\ Range(queued) \subseteq Session
  BY RangeInSet DEF IInv, TypeOK
<1>4. /\ r.found \in BOOLEAN /\ r.queue \in Seq(Session)
      /\ r.admitted \subseteq Range(queued) \ {o}
      /\ Range(r.queue) = Range(queued) \ ({o} \union r.admitted)
  <2>1. IsInjective(queued)
    BY DEF IInv, QueueIsListed
  <2>2. r.found = (o \in Range(queued))
    BY DEF RemoveQueuedPlayer
  <2> QED
    BY <1>3, <2>1, <2>2, Removal
<1>5. Enlist(s, r)
  BY DEF ReplaceSession
<1> HIDE DEF r, o
<1>6. /\ limit' = limit
      /\ queued' = IF waits THEN Append(r.queue, s) ELSE r.queue
      /\ waits => limit > 0 /\ others >= limit
      /\ \/ waits \/ limit = 0 \/ others < limit
         \/ AccountOf[s] \in SkipQueue \/ HasRecentlyDisconnected(AccountOf[s])
      /\ \A t \in Session : init[t] # "pending" /\ init'[t] = "pending" =>
           t \in r.admitted \/ (t = s /\ ~waits)
  <2>1. n = Cardinality(Listed \union {AccountOf[s]}) /\ Range(r.queue) \subseteq Range(queued)
    BY <1>2, <1>4
  <2> HIDE DEF n
  <2>2. Outcome(s, r, n)
    BY <1>1, <1>2, <1>4, <1>5, <2>1, Enlisting
  <2> HIDE DEF waits, others
  <2> QED
    BY <2>2 DEF Outcome, waits, others
<1>7. s \notin Range(queued)
  BY <1>1 DEF IInv, QueueIsListed
<1>8. Range(queued') = IF waits THEN Range(r.queue) \union {s} ELSE Range(r.queue)
  <2>1. Range(Append(r.queue, s)) = Range(r.queue) \union {s}
    BY <1>4, RangeAppend
  <2> HIDE DEF waits
  <2> QED
    BY <1>6, <2>1
<1>9. /\ Active = {t \in Session : stage[t] = "listed" /\ t \notin Range(queued)}
      /\ Active' = {t \in Session : stage'[t] = "listed" /\ t \notin Range(queued')}
      /\ \A t \in Range(queued) : stage[t] = "listed"
  BY ActiveSessions, ActiveSessionsAfter DEF IInv, QueueIsListed
<1>10. /\ s \notin Active
       /\ Active' = ((Active \ {o}) \union r.admitted) \union (IF waits THEN {} ELSE {s})
  <2>1. \A t \in Session : stage'[t] = IF t = o THEN "free" ELSE IF t = s THEN "listed" ELSE stage[t]
    BY <1>1, <1>3
  <2> QED
    BY <1>1, <1>3, <1>4, <1>7, <1>8, <1>9, <2>1
<1> HIDE DEF waits, n, others
<1> QED
  BY <1>1, <1>2, <1>6, <1>7, <1>10 DEF n, waits, others, r, o

\* What RemoveSession does to them.
LEMMA Removed ==
  ASSUME IInv, IInv', NEW s \in Session, RemoveSession(s)
  PROVE  LET first == RemoveQueuedPlayer(queued, s)
             second == RemoveQueuedPlayer(first.queue, s)
             admitted == first.admitted \union second.admitted
         IN  /\ limit' = limit /\ Cardinality(Listed') = Cardinality(Listed) - 1
             /\ stage[s] = "listed" /\ queued' = second.queue
             /\ Active' = (Active \ {s}) \union admitted
             /\ \A t \in Session : init[t] # "pending" /\ init'[t] = "pending" => t \in admitted
<1> DEFINE a == AccountOf[s]
           first == RemoveQueuedPlayer(queued, s)
           second == RemoveQueuedPlayer(first.queue, s)
           admitted == first.admitted \union second.admitted
<1>1. /\ stage[s] = "listed" /\ a \in Account /\ a \in Listed
      /\ sessions' = [sessions EXCEPT ![a] = NoSession]
      /\ queued' = second.queue /\ init' = InitAfter(admitted, s) /\ limit' = limit
      /\ stage' = [stage EXCEPT ![s] = "free"]
  BY SessionAssumption DEF IInv, RemoveSession, Updating, EntriesAreLive, TypeOK, Listed, Deleted
<1>2. Listed' = Listed \ {a} /\ IsFiniteSet(Listed)
  BY <1>1, Counts DEF Counted, IInv, TypeOK, Listed
<1>3. Cardinality(Listed') = Cardinality(Listed) - 1
  BY <1>1, <1>2, FS_RemoveElement
<1>4. /\ first.queue \in Seq(Session) /\ IsInjective(first.queue)
      /\ first.admitted \subseteq Range(queued) \ {s}
      /\ Range(first.queue) = Range(queued) \ ({s} \union first.admitted)
  BY Removal DEF IInv, TypeOK, QueueIsListed
<1> HIDE DEF first
<1>5. /\ second.admitted \subseteq Range(first.queue) \ {s}
      /\ Range(second.queue) = Range(first.queue) \ ({s} \union second.admitted)
  BY <1>4, Removal
<1> HIDE DEF second
<1>6. stage \in [Session -> Stage] /\ Range(queued) \subseteq Session
  BY RangeInSet DEF IInv, TypeOK
<1>7. /\ Active = {t \in Session : stage[t] = "listed" /\ t \notin Range(queued)}
      /\ Active' = {t \in Session : stage'[t] = "listed" /\ t \notin Range(queued')}
      /\ \A t \in Range(queued) : stage[t] = "listed"
  BY ActiveSessions, ActiveSessionsAfter DEF IInv, QueueIsListed
<1>8. Active' = (Active \ {s}) \union admitted
  <2>1. Range(queued') = Range(queued) \ ({s} \union admitted) /\ admitted \subseteq Range(queued) \ {s}
    BY <1>1, <1>4, <1>5
  <2> HIDE DEF admitted
  <2> QED
    BY <1>1, <1>6, <1>7, <2>1
<1>9. \A t \in Session : init[t] # "pending" /\ init'[t] = "pending" => t \in admitted
  BY <1>1 DEF InitAfter
<1> HIDE DEF admitted
<1> QED
  BY <1>1, <1>3, <1>8, <1>9 DEF admitted, first, second

\* The numbers behind ReplaceSession.
LEMMA ReplacedCounts ==
  ASSUME IInv, IInv', NEW s \in Session, ReplaceSession(s)
  PROVE  LET n == Cardinality(Listed)
             r == RemoveQueuedPlayer(queued, Old(s))
             found == Old(s) \in Range(queued)
             m == IF found THEN Len(queued) - 1 ELSE Len(queued)
             left == IF found THEN n - Len(queued) ELSE n - Len(queued) - 1
             waits == s \in Range(queued')
             k == Len(r.queue)
             active == Cardinality(Active')
         IN  /\ limit \in Nat /\ n \in Nat /\ Len(queued) \in Nat /\ Counted'
             /\ Len(queued) <= n /\ Cardinality(Active) = n - Len(queued)
             /\ k \in Nat /\ active \in Nat /\ active = n - (IF waits THEN k + 1 ELSE k)
             /\ r.found = found /\ r.queue \in Seq(Session)
             /\ \/ /\ r.admitted = {} /\ k = m
                   /\ r.queue = <<>> \/ (limit > 0 /\ left >= limit)
                \/ /\ r.admitted # {} /\ k = m - 1
                   /\ limit = 0 \/ left < limit
<1> DEFINE n == Cardinality(Listed)
           o == Old(s)
           r == RemoveQueuedPlayer(queued, o)
           found == o \in Range(queued)
           m == IF found THEN Len(queued) - 1 ELSE Len(queued)
           left == IF found THEN n - Len(queued) ELSE n - Len(queued) - 1
           waits == s \in Range(queued')
           k == Len(r.queue)
           active == Cardinality(Active')
<1>1. /\ limit \in Nat /\ n \in Nat /\ Len(queued) \in Nat /\ Counted'
      /\ Len(queued) <= n /\ (Active # {} => Len(queued) < n)
      /\ Cardinality(Active) = n - Len(queued)
  <2>1. Counted /\ Counted'
    BY Counts, CountsAfter
  <2>2. limit \in Nat
    BY NumberAssumption DEF IInv, TypeOK
  <2> HIDE DEF n
  <2>3. /\ n \in Nat /\ Len(queued) \in Nat /\ Cardinality(Active) \in Nat
        /\ Cardinality(Active) = n - Len(queued) /\ (Active # {} => Len(queued) < n)
    BY <2>1 DEF Counted, n
  <2> QED
    BY <2>1, <2>2, <2>3
<1>2. /\ r.queue \in Seq(Session) /\ r.found = found
      /\ queued \in Seq(Session) /\ IsInjective(queued)
  BY Removal DEF IInv, TypeOK, QueueIsListed
<1>3. /\ Cardinality(Listed') = n
      /\ o \in Session /\ stage[o] = "listed"
      /\ queued' = IF waits THEN Append(r.queue, s) ELSE r.queue
  BY <1>2, Replaced
<1>4. ~found => Len(queued) < n
  BY <1>1, <1>3, ActiveSessions
<1>5. \/ /\ r.admitted = {} /\ k = m
         /\ r.queue = <<>> \/ (limit > 0 /\ left >= limit)
      \/ /\ r.admitted # {} /\ k = m - 1
         /\ limit = 0 \/ left < limit
  <2> HIDE DEF r, o
  <2> QED
    BY <1>1, <1>2, <1>4, RemovalCounts DEF r
<1>6. /\ k \in Nat /\ active \in Nat
      /\ active = n - (IF waits THEN k + 1 ELSE k)
  <2> HIDE DEF r, n
  <2>1. Len(Append(r.queue, s)) = k + 1 /\ k \in Nat
    BY <1>2, RangeAppend
  <2> HIDE DEF k, waits
  <2> QED
    BY <1>1, <1>3, <2>1 DEF Counted, k
<1> HIDE DEF n, r, o, found, waits, k, active, m, left
<1> QED
  BY <1>1, <1>2, <1>5, <1>6 DEF n, r, o, found, waits, k, active, m, left

\* The numbers behind RemoveSession.
LEMMA RemovedCounts ==
  ASSUME IInv, IInv', NEW s \in Session, RemoveSession(s)
  PROVE  LET n == Cardinality(Listed)
             first == RemoveQueuedPlayer(queued, s)
             second == RemoveQueuedPlayer(first.queue, s)
             found == s \in Range(queued)
             m == IF found THEN Len(queued) - 1 ELSE Len(queued)
             left == IF found THEN n - Len(queued) ELSE n - Len(queued) - 1
             k == Len(first.queue)
             j == Len(second.queue)
             active == Cardinality(Active')
         IN  /\ limit \in Nat /\ n \in Nat /\ Len(queued) \in Nat /\ Counted'
             /\ k \in Nat /\ j \in Nat /\ active \in Nat /\ active = n - 1 - j
             /\ \/ /\ first.admitted = {} /\ k = m
                   /\ first.queue = <<>> \/ (limit > 0 /\ left >= limit)
                \/ /\ first.admitted # {} /\ k = m - 1
                   /\ limit = 0 \/ left < limit
             /\ \/ /\ second.admitted = {} /\ j = k
                   /\ second.queue = <<>> \/ (limit > 0 /\ n - k - 1 >= limit)
                \/ /\ second.admitted # {} /\ j = k - 1
                   /\ limit = 0 \/ n - k - 1 < limit
<1> DEFINE n == Cardinality(Listed)
           first == RemoveQueuedPlayer(queued, s)
           second == RemoveQueuedPlayer(first.queue, s)
           found == s \in Range(queued)
           m == IF found THEN Len(queued) - 1 ELSE Len(queued)
           left == IF found THEN n - Len(queued) ELSE n - Len(queued) - 1
           k == Len(first.queue)
           j == Len(second.queue)
           active == Cardinality(Active')
<1>1. /\ limit \in Nat /\ n \in Nat /\ Len(queued) \in Nat /\ Counted'
      /\ Len(queued) <= n /\ (Active # {} => Len(queued) < n)
  <2>1. Counted /\ Counted'
    BY Counts, CountsAfter
  <2>2. limit \in Nat
    BY NumberAssumption DEF IInv, TypeOK
  <2> HIDE DEF n
  <2>3. /\ n \in Nat /\ Len(queued) \in Nat /\ Cardinality(Active) \in Nat
        /\ Cardinality(Active) = n - Len(queued) /\ (Active # {} => Len(queued) < n)
    BY <2>1 DEF Counted, n
  <2> QED
    BY <2>1, <2>2, <2>3
<1>2. /\ first.queue \in Seq(Session) /\ IsInjective(first.queue) /\ s \notin Range(first.queue)
      /\ queued \in Seq(Session) /\ IsInjective(queued)
  BY Removal DEF IInv, TypeOK, QueueIsListed
<1>3. Cardinality(Listed') = n - 1 /\ stage[s] = "listed" /\ queued' = second.queue
  BY Removed
<1>4. ~found => Len(queued) < n
  BY <1>1, <1>3, ActiveSessions
<1>5. \/ /\ first.admitted = {} /\ k = m
         /\ first.queue = <<>> \/ (limit > 0 /\ left >= limit)
      \/ /\ first.admitted # {} /\ k = m - 1
         /\ limit = 0 \/ left < limit
  <2> HIDE DEF first
  <2> QED
    BY <1>1, <1>2, <1>4, RemovalCounts DEF first
<1>6. k \in Nat /\ k < n
  <2> HIDE DEF first, n
  <2>1. k \in Nat
    BY <1>2
  <2> HIDE DEF k
  <2> QED
    BY <1>1, <1>4, <1>5, <2>1
<1>7. \/ /\ second.admitted = {} /\ j = k
         /\ second.queue = <<>> \/ (limit > 0 /\ n - k - 1 >= limit)
      \/ /\ second.admitted # {} /\ j = k - 1
         /\ limit = 0 \/ n - k - 1 < limit
  <2> HIDE DEF first
  <2> QED
    BY <1>1, <1>2, <1>6, RemovalCounts DEF second
<1>8. j \in Nat /\ active \in Nat /\ active = n - 1 - j
  BY <1>1, <1>3 DEF Counted
<1> HIDE DEF n, first, second, found, k, j, active, m, left
<1> QED
  BY <1>1, <1>5, <1>6, <1>7, <1>8 DEF n, first, second, found, k, j, active, m, left

\* All other steps let nobody in and nobody wait.
Quiet ==
  /\ Active' = Active /\ queued' = queued
  /\ \A t \in Session : init'[t] = "pending" => init[t] = "pending"

LEMMA Steps ==
  ASSUME IInv, [Next]_vars
  PROVE  \/ \E s \in Session : AddSession(s) \/ ReplaceSession(s) \/ RemoveSession(s)
         \/ KickAll \/ Quiet
<1>1. ASSUME sessions' = sessions, queued' = queued, init' = init PROVE Quiet
  BY <1>1 DEF Quiet, Active, Listed
<1>2. ASSUME NEW s \in Session, Network(s) \/ RejectSession(s) \/ KickPlayer(s) PROVE Quiet
  BY <1>1, <1>2 DEF Network, Authenticate, LoadPermissions, CloseSocket, RejectSession, KickPlayer,
     Deleted, worldVars
<1>3. ASSUME NEW s \in Session, Handler(s) PROVE Quiet
  <2>1. CASE InitializeSessionCallback(s)
    BY <2>1 DEF IInv, TypeOK, InitializeSessionCallback, worldVars, Quiet, Active, Listed
  <2>2. CASE PlayerLoginOpcode(s) \/ PlayerLogin(s) \/ LogoutPlayer(s)
    BY <1>1, <2>2 DEF PlayerLoginOpcode, PlayerLogin, LogoutPlayer, worldVars
  <2> QED
    BY <1>3, <2>1, <2>2 DEF Handler
<1>4. ASSUME NEW s \in Session, KeepSession(s) PROVE Quiet
  BY <1>1, <1>4 DEF KeepSession
<1>5. ASSUME BeginUpdates \/ TimePasses PROVE Quiet
  BY <1>1, <1>5 DEF BeginUpdates, TimePasses, sessionVars
<1>6. ASSUME NEW n \in Limits, SetPlayerAmountLimit(n) PROVE Quiet
  BY <1>1, <1>6 DEF SetPlayerAmountLimit, sessionVars
<1>7. ASSUME UNCHANGED vars PROVE Quiet
  BY <1>1, <1>7 DEF vars, sessionVars, worldVars
<1> QED
  BY <1>2, <1>3, <1>4, <1>5, <1>6, <1>7 DEF Next, Arrival, Update

\* What LimitHolds says of a step
WithinLimit ==
  \A s \in Active' \ Active :
    limit = 0 \/ Excused(s) \/ Cardinality({t \in Active' : ~Excused(t)}) <= limit

\* It is enough to count the active sessions but for one that is excused.
LEMMA FewEnough ==
  ASSUME Counted', limit \in Nat, NEW x,
         \/ x \in Active' /\ Excused(x) /\ Cardinality(Active') - 1 <= limit
         \/ Cardinality(Active') <= limit
  PROVE  Cardinality({t \in Active' : ~Excused(t)}) <= limit
<1> DEFINE S == {t \in Active' : ~Excused(t)}
           A == Active'
<1>1. IsFiniteSet(A) /\ Cardinality(A) \in Nat
  BY DEF Counted
<1> HIDE DEF A
<1>2. IsFiniteSet(S) /\ Cardinality(S) <= Cardinality(A) /\ Cardinality(S) \in Nat
  <2>1. S \subseteq A
    BY DEF A
  <2> HIDE DEF S
  <2> QED
    BY <1>1, <2>1, FS_Subset, FS_CardinalityType
<1>3. CASE x \in A /\ Excused(x) /\ Cardinality(A) - 1 <= limit
  <2>1. IsFiniteSet(A \ {x}) /\ Cardinality(A \ {x}) = Cardinality(A) - 1
    BY <1>1, <1>3, FS_RemoveElement
  <2>2. S \subseteq A \ {x}
    BY <1>3 DEF A
  <2> HIDE DEF S
  <2>3. Cardinality(S) <= Cardinality(A \ {x})
    BY <2>1, <2>2, FS_Subset
  <2> QED
    BY <1>1, <1>2, <1>3, <2>1, <2>3 DEF S
<1>4. CASE Cardinality(A) <= limit
  BY <1>1, <1>2, <1>4
<1> QED
  BY <1>3, <1>4 DEF A

LEMMA AddedWithinLimit ==
  ASSUME IInv, IInv', NEW s \in Session, AddSession(s)
  PROVE  WithinLimit
<1> DEFINE n == Cardinality(Listed)
<1> SUFFICES ASSUME NEW t \in Active' \ Active, limit # 0, ~Excused(t)
             PROVE  Cardinality({x \in Active' : ~Excused(x)}) <= limit
  BY DEF WithinLimit
<1>1. limit \in Nat /\ n \in Nat /\ Counted'
  BY Counts, CountsAfter, NumberAssumption DEF Counted, IInv, TypeOK
<1>2. t = s /\ n < limit /\ Cardinality(Listed') = n + 1
  BY Added DEF Excused
<1> HIDE DEF n
<1>3. Cardinality(Active') <= limit
  BY <1>1, <1>2 DEF Counted
<1> QED
  BY <1>1, <1>3, FewEnough

LEMMA ReplacedWithinLimit ==
  ASSUME IInv, IInv', NEW s \in Session, ReplaceSession(s)
  PROVE  WithinLimit
<1> DEFINE n == Cardinality(Listed)
           o == Old(s)
           r == RemoveQueuedPlayer(queued, o)
           found == o \in Range(queued)
           m == IF found THEN Len(queued) - 1 ELSE Len(queued)
           left == IF found THEN n - Len(queued) ELSE n - Len(queued) - 1
           others == IF found THEN n ELSE n - 1
           waits == s \in Range(queued')
           k == Len(r.queue)
           active == Cardinality(Active')
<1> SUFFICES ASSUME NEW t \in Active' \ Active, limit # 0, ~Excused(t)
             PROVE  Cardinality({x \in Active' : ~Excused(x)}) <= limit
  BY DEF WithinLimit
<1>1. /\ limit \in Nat /\ n \in Nat /\ Len(queued) \in Nat /\ Counted' /\ Len(queued) <= n
      /\ k \in Nat /\ active \in Nat /\ active = n - (IF waits THEN k + 1 ELSE k)
      /\ r.found = found /\ (r.admitted = {} \/ (k = m - 1 /\ left < limit))
  BY ReplacedCounts
<1>2. /\ Active' = ((Active \ {o}) \union r.admitted) \union (IF waits THEN {} ELSE {s})
      /\ waits \/ others < limit \/ Excused(s)
  BY <1>1, Replaced DEF Excused
<1> HIDE DEF n, o, r, found, waits, k, active
<1>3. CASE others < limit
  <2>1. active <= limit
    BY <1>1, <1>3
  <2> QED
    BY <1>1, <2>1, FewEnough DEF active
<1>4. CASE ~waits /\ Excused(s)
  <2>1. t \in r.admitted /\ s \in Active'
    BY <1>2, <1>4
  <2>2. active - 1 <= limit
    BY <1>1, <1>4, <2>1
  <2> QED
    BY <1>1, <1>4, <2>1, <2>2, FewEnough DEF active
<1>5. CASE waits
  <2>1. t \in r.admitted
    BY <1>2, <1>5
  <2>2. active <= limit
    BY <1>1, <1>5, <2>1
  <2> QED
    BY <1>1, <2>2, FewEnough DEF active
<1> QED
  BY <1>2, <1>3, <1>4, <1>5

LEMMA RemovedWithinLimit ==
  ASSUME IInv, IInv', NEW s \in Session, RemoveSession(s)
  PROVE  WithinLimit
<1> DEFINE n == Cardinality(Listed)
           first == RemoveQueuedPlayer(queued, s)
           second == RemoveQueuedPlayer(first.queue, s)
           found == s \in Range(queued)
           m == IF found THEN Len(queued) - 1 ELSE Len(queued)
           left == IF found THEN n - Len(queued) ELSE n - Len(queued) - 1
           k == Len(first.queue)
           j == Len(second.queue)
           active == Cardinality(Active')
<1> SUFFICES ASSUME NEW t \in Active' \ Active, limit # 0
             PROVE  Cardinality({x \in Active' : ~Excused(x)}) <= limit
  BY DEF WithinLimit
<1>1. /\ limit \in Nat /\ n \in Nat /\ Len(queued) \in Nat /\ Counted'
      /\ k \in Nat /\ j \in Nat /\ active \in Nat /\ active = n - 1 - j
      /\ \/ first.admitted = {} /\ k = m
         \/ k = m - 1 /\ (limit = 0 \/ left < limit)
      /\ \/ second.admitted = {} /\ j = k
         \/ j = k - 1 /\ (limit = 0 \/ n - k - 1 < limit)
  BY RemovedCounts
<1>2. t \in first.admitted \/ t \in second.admitted
  BY Removed
<1> HIDE DEF n, first, second, found, k, j, active
<1>3. active <= limit
  BY <1>1, <1>2
<1> QED
  BY <1>1, <1>3, FewEnough DEF active

\* Nobody is let in beyond PlayerLimit, whatever reconnections, removals of queued
\* and active sessions and new limits do to the counts of World.
THEOREM LimitKept == Spec => LimitHolds
<1>1. IInv /\ IInv' /\ [Next]_vars => [WithinLimit]_vars
  <2> SUFFICES ASSUME IInv, IInv', [Next]_vars PROVE WithinLimit
    OBVIOUS
  <2>1. CASE KickAll
    <3>1. Active' \subseteq kicked'
      BY <2>1 DEF KickAll, Active, Listed
    <3> QED
      BY <3>1 DEF WithinLimit, Excused
  <2>2. CASE Quiet
    BY <2>2 DEF Quiet, WithinLimit
  <2> QED
    BY <2>1, <2>2, Steps, AddedWithinLimit, ReplacedWithinLimit, RemovedWithinLimit
<1> QED
  BY <1>1, Invariance, PTL DEF Spec, LimitHolds, WithinLimit

\* What NoIdlePlace says of a step
NoneIdle ==
  /\ \A s \in Range(queued') \ Range(queued) :
       Len(queued') > 1 \/ IsRealmFull' \/ Old(s) \in Range(queued)
  /\ Active \ Active' # {} /\ queued' # <<>> => Active' \ Active # {} \/ IsRealmFull'

LEMMA AddedNoneIdle ==
  ASSUME IInv, IInv', NEW s \in Session, AddSession(s)
  PROVE  NoneIdle
<1> DEFINE n == Cardinality(Listed)
           active == Cardinality(Active')
           waits == s \in Range(queued')
<1>1. /\ limit' = limit /\ Cardinality(Listed') = n + 1
      /\ Active' = IF waits THEN Active ELSE Active \union {s}
      /\ queued' = IF waits THEN Append(queued, s) ELSE queued
      /\ waits => limit > 0 /\ n >= limit
  BY Added
<1>2. /\ limit \in Nat /\ n \in Nat /\ active \in Nat /\ active = n + 1 - Len(queued')
      /\ queued \in Seq(Session) /\ Len(queued') \in Nat
  <2>1. Counted /\ Counted'
    BY Counts, CountsAfter
  <2>2. limit \in Nat /\ queued \in Seq(Session)
    BY NumberAssumption DEF IInv, TypeOK
  <2> QED
    BY <1>1, <2>1, <2>2 DEF Counted
<1>3. Range(Append(queued, s)) = Range(queued) \union {s}
  BY <1>2, RangeAppend
<1> HIDE DEF n, active
<1>4. waits => Len(queued') > 1 \/ IsRealmFull'
  <2> SUFFICES ASSUME waits, ~(Len(queued') > 1) PROVE IsRealmFull'
    OBVIOUS
  <2>1. active >= limit /\ limit > 0
    BY <1>1, <1>2
  <2> QED
    BY <1>1, <2>1 DEF IsRealmFull, active
<1>5. \A t \in Range(queued') \ Range(queued) : t = s /\ waits
  BY <1>1, <1>3
<1> QED
  BY <1>1, <1>4, <1>5 DEF NoneIdle

LEMMA ReplacedNoneIdle ==
  ASSUME IInv, IInv', NEW s \in Session, ReplaceSession(s)
  PROVE  NoneIdle
<1> DEFINE n == Cardinality(Listed)
           o == Old(s)
           r == RemoveQueuedPlayer(queued, o)
           found == o \in Range(queued)
           m == IF found THEN Len(queued) - 1 ELSE Len(queued)
           left == IF found THEN n - Len(queued) ELSE n - Len(queued) - 1
           others == IF found THEN n ELSE n - 1
           waits == s \in Range(queued')
           k == Len(r.queue)
           active == Cardinality(Active')
<1>1. /\ limit \in Nat /\ n \in Nat /\ Len(queued) \in Nat
      /\ k \in Nat /\ active \in Nat /\ active = n - (IF waits THEN k + 1 ELSE k)
      /\ r.found = found /\ r.queue \in Seq(Session)
      /\ \/ /\ r.admitted = {} /\ k = m
            /\ r.queue = <<>> \/ (limit > 0 /\ left >= limit)
         \/ r.admitted # {}
  BY ReplacedCounts
<1>2. /\ limit' = limit /\ s \notin Active
      /\ Active' = ((Active \ {o}) \union r.admitted) \union (IF waits THEN {} ELSE {s})
      /\ queued' = IF waits THEN Append(r.queue, s) ELSE r.queue
      /\ waits => limit > 0 /\ others >= limit
  BY <1>1, Replaced
<1>3. /\ r.admitted \subseteq Range(queued)
      /\ Range(r.queue) \subseteq Range(queued)
  BY Removal DEF IInv, TypeOK, QueueIsListed
<1>4. Active \intersect Range(queued) = {} /\ Old(s) = o
  BY ActiveSessions
<1>5. waits => Len(queued') = k + 1 /\ Range(queued') = Range(r.queue) \union {s}
  <2> HIDE DEF r
  <2>1. /\ Len(Append(r.queue, s)) = k + 1
        /\ Range(Append(r.queue, s)) = Range(r.queue) \union {s}
    BY <1>1, RangeAppend
  <2> HIDE DEF waits, k
  <2> QED
    BY <1>2, <2>1
<1>6. r.queue = <<>> => k = 0
  OBVIOUS
<1>7. IsRealmFull' <=> limit > 0 /\ active >= limit
  BY <1>2 DEF IsRealmFull
<1> HIDE DEF n, o, r, waits, k, active
<1>8. waits => Len(queued') > 1 \/ IsRealmFull' \/ found
  BY <1>1, <1>2, <1>5, <1>7
<1>9. ASSUME Active \ Active' # {}, queued' # <<>>, Active' \ Active = {} PROVE IsRealmFull'
  <2>1. ~found
    BY <1>2, <1>4, <1>9
  <2>2. r.admitted = {} /\ waits
    BY <1>2, <1>3, <1>4, <1>9
  <2> QED
    BY <1>1, <1>2, <1>6, <1>7, <2>1, <2>2
<1>10. \A t \in Range(queued') \ Range(queued) : t = s /\ waits
  BY <1>2, <1>3, <1>5
<1> QED
  BY <1>4, <1>8, <1>9, <1>10 DEF NoneIdle

LEMMA RemovedNoneIdle ==
  ASSUME IInv, IInv', NEW s \in Session, RemoveSession(s)
  PROVE  NoneIdle
<1> DEFINE n == Cardinality(Listed)
           first == RemoveQueuedPlayer(queued, s)
           second == RemoveQueuedPlayer(first.queue, s)
           found == s \in Range(queued)
           m == IF found THEN Len(queued) - 1 ELSE Len(queued)
           left == IF found THEN n - Len(queued) ELSE n - Len(queued) - 1
           k == Len(first.queue)
           j == Len(second.queue)
           active == Cardinality(Active')
<1>1. /\ limit \in Nat /\ n \in Nat /\ Len(queued) \in Nat
      /\ k \in Nat /\ j \in Nat /\ active \in Nat /\ active = n - 1 - j
      /\ \/ first.admitted = {} /\ k = m
         \/ first.admitted # {}
      /\ \/ /\ second.admitted = {} /\ j = k
            /\ second.queue = <<>> \/ (limit > 0 /\ n - k - 1 >= limit)
         \/ second.admitted # {}
  BY RemovedCounts
<1>2. /\ limit' = limit /\ queued' = second.queue
      /\ Active' = (Active \ {s}) \union (first.admitted \union second.admitted)
  BY Removed
<1>3. /\ first.admitted \union second.admitted \subseteq Range(queued)
      /\ Range(second.queue) \subseteq Range(queued)
  <2>1. /\ first.queue \in Seq(Session) /\ IsInjective(first.queue)
        /\ first.admitted \subseteq Range(queued) /\ Range(first.queue) \subseteq Range(queued)
    BY Removal DEF IInv, TypeOK, QueueIsListed
  <2> HIDE DEF first
  <2>2. second.admitted \subseteq Range(first.queue) /\ Range(second.queue) \subseteq Range(first.queue)
    BY <2>1, Removal
  <2> QED
    BY <2>1, <2>2
<1>4. Active \intersect Range(queued) = {}
  BY ActiveSessions
<1>5. IsRealmFull' <=> limit > 0 /\ active >= limit
  BY <1>2 DEF IsRealmFull
<1> HIDE DEF n, first, second, k, j, active
<1>6. ASSUME Active \ Active' # {}, queued' # <<>>, Active' \ Active = {} PROVE IsRealmFull'
  <2>1. first.admitted = {} /\ second.admitted = {}
    BY <1>2, <1>3, <1>4, <1>6
  <2> QED
    BY <1>1, <1>2, <1>5, <1>6, <2>1
<1> QED
  BY <1>2, <1>3, <1>6 DEF NoneIdle

\* Nobody waits for a place that a session gave up, however sessions leave or are
\* replaced: RemoveQueuedPlayer and AddSession_ agree on the counts.
THEOREM NobodyWaitsIdly == Spec => NoIdlePlace
<1>1. IInv /\ IInv' /\ [Next]_vars => [NoneIdle]_vars
  <2> SUFFICES ASSUME IInv, IInv', [Next]_vars PROVE NoneIdle
    OBVIOUS
  <2>1. CASE KickAll
    <3>1. queued' = <<>> /\ Range(<<>>) = {}
      BY <2>1 DEF KickAll, Range
    <3> QED
      BY <3>1 DEF NoneIdle
  <2>2. CASE Quiet
    BY <2>2 DEF Quiet, NoneIdle
  <2> QED
    BY <2>1, <2>2, Steps, AddedNoneIdle, ReplacedNoneIdle, RemovedNoneIdle
<1> QED
  BY <1>1, Invariance, PTL DEF Spec, NoIdlePlace, NoneIdle

\* What FirstComeFirstServed says of a step
InOrder ==
  \A s \in Session :
    /\ s \in Range(queued') \ Range(queued) => s = Last(queued')
    /\ init[s] # "pending" /\ init'[s] = "pending" =>
         IF s \in Range(queued)
         THEN \A i, j \in DOMAIN queued : queued[j] = s /\ i < j => queued[i] \notin Range(queued')
         ELSE \/ AccountOf[s] \in SkipQueue \/ HasRecentlyDisconnected(AccountOf[s])
              \/ queued' = <<>> \/ ~IsRealmFull

\* Whom RemoveQueuedPlayer admits is the first of those that are left.
LEMMA FirstServed ==
  ASSUME NEW t, \A x \in Range(queued') : ~Before(queued, x, t)
  PROVE  \A i, j \in DOMAIN queued : queued[j] = t /\ i < j => queued[i] \notin Range(queued')
BY DEF Before

\* Who is appended is last.
LEMMA LastAppended ==
  ASSUME NEW q \in Seq(Session), NEW s \in Session
  PROVE  /\ Last(Append(q, s)) = s
         /\ Range(Append(q, s)) = Range(q) \union {s}
<1>1. Len(Append(q, s)) = Len(q) + 1 /\ Append(q, s)[Len(q) + 1] = s
  OBVIOUS
<1> QED
  BY <1>1, RangeAppend DEF Last

LEMMA AddedInOrder ==
  ASSUME IInv, IInv', NEW s \in Session, AddSession(s)
  PROVE  InOrder
<1> DEFINE n == Cardinality(Listed)
           waits == s \in Range(queued')
<1>1. /\ s \notin Range(queued)
      /\ queued' = IF waits THEN Append(queued, s) ELSE queued
      /\ \/ waits \/ limit = 0 \/ n < limit
         \/ AccountOf[s] \in SkipQueue \/ HasRecentlyDisconnected(AccountOf[s])
      /\ \A t \in Session : init[t] # "pending" /\ init'[t] = "pending" => t = s /\ ~waits
  BY Added
<1>2. queued \in Seq(Session) /\ limit \in Nat
  BY NumberAssumption DEF IInv, TypeOK
<1>3. limit = 0 \/ n < limit => ~IsRealmFull
  BY <1>2, Counts DEF Counted, IsRealmFull
<1>4. \A t \in Range(queued') \ Range(queued) : t = Last(queued')
  <2>1. Last(Append(queued, s)) = s /\ Range(Append(queued, s)) = Range(queued) \union {s}
    BY <1>2, LastAppended
  <2> HIDE DEF waits
  <2> QED
    BY <1>1, <2>1
<1> HIDE DEF n, waits
<1> QED
  BY <1>1, <1>3, <1>4 DEF InOrder

LEMMA ReplacedInOrder ==
  ASSUME IInv, IInv', NEW s \in Session, ReplaceSession(s)
  PROVE  InOrder
<1> DEFINE n == Cardinality(Listed)
           o == Old(s)
           r == RemoveQueuedPlayer(queued, o)
           found == o \in Range(queued)
           m == IF found THEN Len(queued) - 1 ELSE Len(queued)
           others == IF found THEN n ELSE n - 1
           waits == s \in Range(queued')
           k == Len(r.queue)
<1>1. /\ limit \in Nat /\ n \in Nat /\ Len(queued) \in Nat
      /\ Len(queued) <= n /\ Cardinality(Active) = n - Len(queued)
      /\ k \in Nat /\ r.found = found /\ r.queue \in Seq(Session) /\ (k = m \/ k = m - 1)
  BY ReplacedCounts
<1>2. /\ s \notin Range(queued)
      /\ queued' = IF waits THEN Append(r.queue, s) ELSE r.queue
      /\ \/ waits \/ limit = 0 \/ others < limit
         \/ AccountOf[s] \in SkipQueue \/ HasRecentlyDisconnected(AccountOf[s])
      /\ \A t \in Session : init[t] # "pending" /\ init'[t] = "pending" =>
           t \in r.admitted \/ (t = s /\ ~waits)
  BY <1>1, Replaced
<1>3. /\ r.admitted \subseteq Range(queued) /\ Range(r.queue) \subseteq Range(queued)
      /\ \A x \in Range(r.queue), y \in r.admitted : ~Before(queued, x, y)
  BY Removal DEF IInv, TypeOK, QueueIsListed
<1>4. k = 0 => r.queue = <<>>
  BY <1>1
<1> HIDE DEF n, o, r, k
<1>5. /\ \A t \in Range(queued') \ Range(queued) : t = Last(queued')
      /\ Range(queued') \subseteq Range(r.queue) \union {s}
  <2>1. Last(Append(r.queue, s)) = s /\ Range(Append(r.queue, s)) = Range(r.queue) \union {s}
    BY <1>1, LastAppended
  <2> HIDE DEF waits
  <2> QED
    BY <1>2, <1>3, <2>1
<1>6. ~waits /\ (limit = 0 \/ others < limit) => queued' = <<>> \/ ~IsRealmFull
  BY <1>1, <1>2, <1>4 DEF IsRealmFull
<1>7. \A x \in Range(queued'), t \in r.admitted : ~Before(queued, x, t)
  <2> SUFFICES ASSUME NEW x \in Range(queued'), NEW t \in r.admitted, Before(queued, x, t) PROVE FALSE
    OBVIOUS
  <2>1. x \in Range(queued)
    BY DEF Before, Range
  <2>2. x \in Range(r.queue)
    BY <1>2, <1>5, <2>1
  <2> QED
    BY <1>3, <2>2
<1> HIDE DEF waits, others
<1>8. ASSUME NEW t \in Session, t \in r.admitted
      PROVE  \A i, j \in DOMAIN queued : queued[j] = t /\ i < j => queued[i] \notin Range(queued')
  BY <1>7, <1>8, FirstServed
<1> QED
  BY <1>2, <1>3, <1>5, <1>6, <1>8 DEF InOrder

LEMMA RemovedInOrder ==
  ASSUME IInv, IInv', NEW s \in Session, RemoveSession(s)
  PROVE  InOrder
<1> DEFINE first == RemoveQueuedPlayer(queued, s)
           second == RemoveQueuedPlayer(first.queue, s)
<1>1. /\ queued' = second.queue
      /\ \A t \in Session : init[t] # "pending" /\ init'[t] = "pending" =>
           t \in first.admitted \/ t \in second.admitted
  BY Removed
<1>2. /\ first.queue \in Seq(Session) /\ IsInjective(first.queue)
      /\ first.admitted \subseteq Range(queued) /\ Range(first.queue) \subseteq Range(queued)
      /\ \A x \in Range(first.queue), y \in first.admitted : ~Before(queued, x, y)
      /\ \A x, y \in Range(first.queue) : Before(queued, x, y) => Before(first.queue, x, y)
  BY Removal DEF IInv, TypeOK, QueueIsListed
<1> HIDE DEF first
<1>3. /\ second.admitted \subseteq Range(first.queue) /\ Range(second.queue) \subseteq Range(first.queue)
      /\ \A x \in Range(second.queue), y \in second.admitted : ~Before(first.queue, x, y)
  BY <1>2, Removal
<1> HIDE DEF second
<1>4. ASSUME NEW t, t \in first.admitted \/ t \in second.admitted
      PROVE  /\ t \in Range(queued)
             /\ \A i, j \in DOMAIN queued : queued[j] = t /\ i < j => queued[i] \notin Range(queued')
  <2>1. \A x \in Range(queued') : ~Before(queued, x, t)
    BY <1>1, <1>2, <1>3, <1>4
  <2> QED
    BY <1>2, <1>3, <1>4, <2>1, FirstServed
<1> QED
  BY <1>1, <1>2, <1>3, <1>4 DEF InOrder

\* Players enter in the order they came, but for those with RBAC_PERM_SKIP_QUEUE or
\* within DisconnectToleranceInterval.
THEOREM ServedInOrder == Spec => FirstComeFirstServed
<1>1. IInv /\ IInv' /\ [Next]_vars => [InOrder]_vars
  <2> SUFFICES ASSUME IInv, IInv', [Next]_vars PROVE InOrder
    OBVIOUS
  <2>1. CASE KickAll
    <3>1. queued' = <<>> /\ init' = init /\ Range(<<>>) = {}
      BY <2>1 DEF KickAll, Range
    <3> QED
      BY <3>1 DEF InOrder
  <2>2. CASE Quiet
    BY <2>2 DEF Quiet, InOrder
  <2> QED
    BY <2>1, <2>2, Steps, AddedInOrder, ReplacedInOrder, RemovedInOrder
<1> QED
  BY <1>1, Invariance, PTL DEF Spec, FirstComeFirstServed, InOrder
=============================================================================
