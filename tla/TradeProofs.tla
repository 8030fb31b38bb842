----------------------------- MODULE TradeProofs -----------------------------
(* Proofs about Trade, for any number of players, items and slots: trades come in
   pairs, an acceptance is never older than the offers, an exchange moves exactly what
   was offered, and, with one worker of the database, money is neither made nor lost and
   a restart never splits an exchange.  moveItems is a fold over the slots and the purses are summed; both rest
   on the folds of DataLemmas. *)
EXTENDS Trade, DataLemmas

Trades == [Player -> TradeData \cup {None}]

\* The inductive invariant of the trades.
TradeInv == trade \in Trades /\ TradesArePaired

\* From t to u the same players trade with each other.
SameTrades(t, u) ==
  /\ u \in Trades
  /\ \A r \in Player : (u[r] = None <=> t[r] = None) /\ (t[r] # None => u[r].trader = t[r].trader)

\* Nothing but acceptances changes.
OffersKept(t, u) ==
  /\ SameTrades(t, u)
  /\ \A r \in Player : t[r] # None =>
       u[r].items = t[r].items /\ u[r].gold = t[r].gold /\ u[r].spell = t[r].spell

\* An offer of p or of the trader changes, and with it goes what both had accepted.
OfferChanged(t, u, p) ==
  /\ SameTrades(t, u)
  /\ ~u[p].accepted /\ ~u[t[p].trader].accepted
  /\ \A r \in Player \ {p, t[p].trader} : u[r] = t[r]

\* The slots of the two stay as they are.
SlotsKept(t, u, p) == u[p].items = t[p].items /\ u[t[p].trader].items = t[t[p].trader].items

\* The trade of p and the trader is closed, or one of p and q is opened.
Closed(t, u, p) ==
  /\ t[p] # None /\ u \in Trades /\ u[p] = None /\ u[t[p].trader] = None
  /\ \A r \in Player \ {p, t[p].trader} : u[r] = t[r]

Opened(t, u, p, q) ==
  /\ p # q /\ t[p] = None /\ t[q] = None
  /\ u \in Trades /\ u[p] = NewTradeData(q) /\ u[q] = NewTradeData(p) /\ u[p] # None /\ u[q] # None
  /\ \A r \in Player \ {p, q} : u[r] = t[r]

\* All that a step can do to the trades.
TradeStep(t, u) ==
  \/ OffersKept(t, u)
  \/ \E p \in Player : t[p] # None /\ OfferChanged(t, u, p)
  \/ \E p \in Player : Closed(t, u, p)
  \/ \E p, q \in Player : Opened(t, u, p, q)
  \/ u \in Trades /\ \A r \in Player : u[r] = None

LEMMA SameTradesTransitive ==
  ASSUME NEW t, NEW u, NEW v, SameTrades(t, u), SameTrades(u, v)
  PROVE  SameTrades(t, v)
BY DEF SameTrades

LEMMA OffersKeptTransitive ==
  ASSUME NEW t, NEW u, NEW v, OffersKept(t, u), OffersKept(u, v)
  PROVE  OffersKept(t, v)
<1>1. SameTrades(t, v)
  BY SameTradesTransitive DEF OffersKept
<1> QED
  BY <1>1 DEF OffersKept, SameTrades

\* SetAccepted touches one flag.
LEMMA SetAcceptedFacts ==
  ASSUME NEW t \in Trades, NEW p \in Player, t[p] # None, NEW b \in BOOLEAN
  PROVE  /\ OffersKept(t, SetAccepted(t, p, b))
         /\ SetAccepted(t, p, b)[p].accepted = b
         /\ \A r \in Player \ {p} : SetAccepted(t, p, b)[r] = t[r]
<1> DEFINE u == SetAccepted(t, p, b)
<1>1. t[p] \in TradeData
  BY DEF Trades
<1>2. u[p] = [t[p] EXCEPT !.accepted = b] /\ \A r \in Player \ {p} : u[r] = t[r]
  BY DEF SetAccepted, Trades
<1>3. u[p] \in TradeData /\ u[p] # None
  BY <1>1, <1>2, TradeAssumption DEF TradeData
<1>4. u \in Trades
  BY <1>2, <1>3 DEF SetAccepted, Trades
<1>5. /\ u[p].trader = t[p].trader /\ u[p].items = t[p].items /\ u[p].gold = t[p].gold
      /\ u[p].spell = t[p].spell /\ u[p].accepted = b
  BY <1>1, <1>2 DEF TradeData
<1> QED
  BY <1>2, <1>3, <1>4, <1>5 DEF OffersKept, SameTrades

\* A record of p changed in other fields than the trader, and both acceptances void.
LEMMA BothUnacceptedFacts ==
  ASSUME NEW t \in Trades, NEW p \in Player, t[p] # None,
         t[t[p].trader] # None, t[p].trader # p,
         NEW d \in TradeData, d.trader = t[p].trader
  PROVE  LET u == BothUnaccepted([t EXCEPT ![p] = d], p) IN
           OfferChanged(t, u, p) /\ u[p].items = d.items /\ u[t[p].trader].items = t[t[p].trader].items
<1> DEFINE q == t[p].trader
           v == [t EXCEPT ![p] = d]
           w == SetAccepted(v, p, FALSE)
           u == SetAccepted(w, q, FALSE)
<1>1. q \in Player
  BY DEF Trades, TradeData
<1>2. v \in Trades /\ v[p] = d /\ v[p] # None /\ SameTrades(t, v)
  BY TradeAssumption DEF Trades, SameTrades
<1>3. OffersKept(v, w) /\ ~w[p].accepted /\ \A r \in Player \ {p} : w[r] = v[r]
  BY <1>2, SetAcceptedFacts
<1>4. w \in Trades /\ w[q] # None
  BY <1>1, <1>2, <1>3 DEF OffersKept, SameTrades, Trades
<1>5. OffersKept(w, u) /\ ~u[q].accepted /\ \A r \in Player \ {q} : u[r] = w[r]
  BY <1>1, <1>4, SetAcceptedFacts
<1>6. BothUnaccepted(v, p) = u
  BY <1>2 DEF BothUnaccepted
<1>7. ~u[p].accepted /\ ~u[q].accepted /\ \A r \in Player \ {p, q} : u[r] = t[r]
  BY <1>2, <1>3, <1>5 DEF Trades
<1> HIDE DEF u, v, w
<1>8. SameTrades(t, u)
  BY <1>2, <1>3, <1>5, SameTradesTransitive DEF OffersKept
<1>9. u[p].items = d.items /\ u[q].items = t[q].items
  <2>1. OffersKept(v, u)
    BY <1>3, <1>5, OffersKeptTransitive
  <2>2. v[q] = t[q] /\ v[q] # None
    BY <1>1 DEF v, Trades
  <2> QED
    BY <1>1, <1>2, <2>1, <2>2 DEF OffersKept
<1> QED
  BY <1>6, <1>7, <1>8, <1>9 DEF OfferChanged, v

\* SetSpell(0) keeps all or changes an offer.
LEMMA NoSpellFacts ==
  ASSUME NEW t \in Trades, NEW p \in Player, t[p] # None, t[t[p].trader] # None, t[p].trader # p
  PROVE  IF t[p].spell THEN OfferChanged(t, NoSpell(t, p), p) /\ SlotsKept(t, NoSpell(t, p), p)
         ELSE NoSpell(t, p) = t
<1>1. CASE t[p].spell
  <2> DEFINE d == [t[p] EXCEPT !.spell = FALSE]
  <2>1. t[p] \in TradeData
    BY DEF Trades
  <2>2. d \in TradeData /\ d.trader = t[p].trader /\ d.items = t[p].items
    BY <2>1 DEF TradeData
  <2>3. [t EXCEPT ![p].spell = FALSE] = [t EXCEPT ![p] = d]
    OBVIOUS
  <2> HIDE DEF d
  <2> DEFINE u == BothUnaccepted([t EXCEPT ![p] = d], p)
  <2>4. OfferChanged(t, u, p) /\ SlotsKept(t, u, p)
    BY <2>2, BothUnacceptedFacts DEF SlotsKept
  <2> QED
    BY <1>1, <2>3, <2>4 DEF NoSpell
<1>2. CASE ~t[p].spell
  BY <1>2 DEF NoSpell
<1> QED
  BY <1>1, <1>2

\* A change of an offer after another one, of the same two players, is one change.
LEMMA OfferChangedTwice ==
  ASSUME NEW t \in Trades, NEW u, NEW v, NEW p \in Player, NEW q \in Player,
         t[p] # None, t[p].trader = q, t[q] # None, t[q].trader = p,
         OfferChanged(t, u, p), OfferChanged(u, v, p) \/ OfferChanged(u, v, q)
  PROVE  OfferChanged(t, v, p)
<1>1. u[p].trader = q /\ u[q].trader = p
  BY DEF OfferChanged, SameTrades
<1>2. SameTrades(t, v)
  BY SameTradesTransitive DEF OfferChanged
<1> QED
  BY <1>1, <1>2 DEF OfferChanged

LEMMA SetItemFacts ==
  ASSUME NEW t \in Trades, NEW p \in Player, t[p] # None, t[t[p].trader] # None, t[p].trader # p,
         t[t[p].trader].trader = p, NEW s \in AnySlot, NEW i \in Item \cup {None}
  PROVE  LET w == SetItem(t, p, s, i) IN
           /\ OfferChanged(t, w, p)
           /\ w[p].items = [t[p].items EXCEPT ![s] = i]
           /\ w[t[p].trader].items = t[t[p].trader].items
<1> DEFINE q == t[p].trader
           d == [t[p] EXCEPT !.items = [@ EXCEPT ![s] = i]]
           u == BothUnaccepted([t EXCEPT ![p] = d], p)
           v == IF s = NonTraded THEN NoSpell(u, q) ELSE u
           w == NoSpell(v, p)
<1>1. t[p] \in TradeData /\ q \in Player
  BY DEF Trades, TradeData
<1>2. d \in TradeData /\ d.trader = q /\ d.items = [t[p].items EXCEPT ![s] = i]
  BY <1>1 DEF TradeData
<1>3. SetItem(t, p, s, i) = w
  BY DEF SetItem
<1> HIDE DEF d
<1>4. OfferChanged(t, u, p) /\ u[p].items = d.items /\ u[q].items = t[q].items
  BY <1>2, BothUnacceptedFacts
<1> HIDE DEF u
<1>5. u \in Trades /\ u[p] # None /\ u[q] # None /\ u[p].trader = q /\ u[q].trader = p
  BY <1>1, <1>4 DEF OfferChanged, SameTrades
<1>6. OfferChanged(t, v, p) /\ v[p].items = d.items /\ v[q].items = t[q].items
  <2>1. IF u[q].spell THEN OfferChanged(u, NoSpell(u, q), q) /\ SlotsKept(u, NoSpell(u, q), q) ELSE NoSpell(u, q) = u
    BY <1>1, <1>5, NoSpellFacts
  <2>2. OfferChanged(t, v, p)
    BY <1>1, <1>4, <2>1, OfferChangedTwice
  <2>3. v[p].items = u[p].items /\ v[q].items = u[q].items
    BY <1>5, <2>1 DEF SlotsKept
  <2> QED
    BY <1>4, <2>2, <2>3
<1> HIDE DEF v
<1>7. v \in Trades /\ v[p] # None /\ v[q] # None /\ v[p].trader = q /\ v[q].trader = p
  BY <1>1, <1>6 DEF OfferChanged, SameTrades
<1>8. IF v[p].spell THEN OfferChanged(v, w, p) /\ SlotsKept(v, w, p) ELSE w = v
  BY <1>1, <1>7, NoSpellFacts
<1>9. OfferChanged(t, w, p)
  BY <1>1, <1>6, <1>8, OfferChangedTwice
<1>10. w[p].items = d.items /\ w[q].items = t[q].items
  BY <1>6, <1>7, <1>8 DEF SlotsKept
<1> QED
  BY <1>2, <1>3, <1>9, <1>10
-----------------------------------------------------------------------------

\* The trader of a player who trades.
LEMMA TheTrader ==
  ASSUME TradeInv, NEW p \in Player, trade[p] # None
  PROVE  LET q == trade[p].trader IN
           /\ trade[p] \in TradeData /\ q \in Player /\ q # p
           /\ trade[q] # None /\ trade[q] \in TradeData /\ trade[q].trader = p
BY DEF TradeInv, Trades, TradesArePaired, TradeData

LEMMA Unchanged ==
  ASSUME TradeInv, UNCHANGED trade
  PROVE  TradeStep(trade, trade')
BY DEF TradeInv, TradeStep, OffersKept, SameTrades

\* An offer is changed by a new value of one field.
LEMMA FieldChanged ==
  ASSUME TradeInv, NEW p \in Player, trade[p] # None, NEW d \in TradeData, d.trader = trade[p].trader,
         trade' = BothUnaccepted([trade EXCEPT ![p] = d], p)
  PROVE  TradeStep(trade, trade')
<1>1. OfferChanged(trade, trade', p)
  BY TheTrader, BothUnacceptedFacts DEF TradeInv
<1> QED
  BY <1>1 DEF TradeStep

\* MoneyFault names one of the two.
LEMMA MoneyFaultFacts ==
  ASSUME NEW p \in Player
  PROVE  MoneyFault(p) \in {p, trade[p].trader, None}
BY DEF MoneyFault

\* Accepting without an exchange touches the two acceptances only.
LEMMA AcceptStep ==
  ASSUME TradeInv, NEW p \in Player, AcceptAndWait(p)
  PROVE  OffersKept(trade, trade')
<1> DEFINE q == trade[p].trader
           t == SetAccepted(trade, p, TRUE)
<1>1. trade[p] # None /\ q \in Player /\ q # p /\ trade[q] # None /\ trade \in Trades
  BY TheTrader DEF AcceptAndWait, TradeInv
<1>2. OffersKept(trade, t)
  BY <1>1, SetAcceptedFacts
<1>3. t \in Trades /\ t[p] # None /\ t[q] # None
  BY <1>1, <1>2 DEF OffersKept, SameTrades
<1>4. trade' = t \/ \E r \in {p, q} : trade' = SetAccepted(t, r, FALSE)
  BY MoneyFaultFacts DEF AcceptAndWait
<1> HIDE DEF t
<1>5. ASSUME NEW r \in {p, q} PROVE OffersKept(t, SetAccepted(t, r, FALSE))
  BY <1>1, <1>3, SetAcceptedFacts
<1>6. ASSUME NEW r \in {p, q}, trade' = SetAccepted(t, r, FALSE) PROVE OffersKept(trade, trade')
  BY <1>2, <1>5, <1>6, OffersKeptTransitive
<1> QED
  BY <1>2, <1>4, <1>6

\* A spell that cannot be cast voids both acceptances.
LEMMA SpellStep ==
  ASSUME TradeInv, NEW p \in Player, SpellFails(p)
  PROVE  trade[p] # None /\ OfferChanged(trade, trade', p) /\ SlotsKept(trade, trade', p)
<1> DEFINE q == trade[p].trader
           t == SetAccepted(trade, p, TRUE)
<1>1. trade[p] # None /\ q \in Player /\ q # p /\ trade[q] # None /\ trade[q].trader = p /\ trade \in Trades
  BY TheTrader DEF SpellFails, ReadyToExchange, TradeInv
<1>2. OffersKept(trade, t) /\ \A r \in Player \ {p} : t[r] = trade[r]
  BY <1>1, SetAcceptedFacts
<1>3. t \in Trades /\ t[p] # None /\ t[q] # None /\ t[p].trader = q /\ t[q].trader = p
  BY <1>1, <1>2 DEF OffersKept, SameTrades
<1>4. PICK r \in {p, q} : trade[r].spell /\ trade' = NoSpell(t, r)
  BY DEF SpellFails
<1>5. t[r].spell
  BY <1>1, <1>2, <1>4 DEF OffersKept
<1> HIDE DEF t
<1>6. OfferChanged(t, trade', r) /\ SlotsKept(t, trade', r)
  BY <1>1, <1>3, <1>4, <1>5, NoSpellFacts
<1>7. SameTrades(trade, trade')
  BY <1>2, <1>6, SameTradesTransitive DEF OffersKept, OfferChanged
<1>8. OfferChanged(trade, trade', p)
  BY <1>1, <1>2, <1>3, <1>6, <1>7 DEF OfferChanged
<1>9. SlotsKept(trade, trade', p)
  BY <1>1, <1>2, <1>3, <1>6 DEF SlotsKept, OffersKept
<1> QED
  BY <1>1, <1>8, <1>9

\* Both trades of a pair are deleted.
LEMMA CloseStep ==
  ASSUME TradeInv, NEW p \in Player, trade[p] # None,
         trade' = [trade EXCEPT ![p] = None, ![trade[p].trader] = None]
  PROVE  TradeStep(trade, trade')
<1>1. Closed(trade, trade', p)
  BY TheTrader DEF TradeInv, Trades, Closed
<1> QED
  BY <1>1 DEF TradeStep

LEMMA StepShape ==
  ASSUME TradeInv, Next
  PROVE  TradeStep(trade, trade')
<1>1. ASSUME NEW p \in Player, TradeCancel(p) PROVE TradeStep(trade, trade')
  BY <1>1, CloseStep DEF TradeCancel
<1>2. ASSUME NEW p \in Player, HandleSetTradeGold(p) PROVE TradeStep(trade, trade')
  <2>1. PICK gold \in Money : trade' = SetMoney(trade, p, gold)
    BY <1>2 DEF HandleSetTradeGold
  <2> DEFINE d == [trade[p] EXCEPT !.gold = gold]
  <2>2. trade[p] # None /\ trade[p] \in TradeData
    BY <1>2, TheTrader DEF HandleSetTradeGold
  <2>3. d \in TradeData /\ d.trader = trade[p].trader
    BY <2>2 DEF TradeData
  <2>4. trade' = BothUnaccepted([trade EXCEPT ![p] = d], p)
    BY <2>1 DEF SetMoney
  <2> HIDE DEF d
  <2> QED
    BY <2>2, <2>3, <2>4, FieldChanged
<1>3. ASSUME NEW p \in Player, HandleSetTradeItem(p) \/ HandleClearTradeItem(p) PROVE TradeStep(trade, trade')
  <2>1. PICK s \in AnySlot, i \in Item \cup {None} : trade' = SetItem(trade, p, s, i)
    BY <1>3 DEF HandleSetTradeItem, HandleClearTradeItem, Has
  <2>2. trade[p] # None
    BY <1>3 DEF HandleSetTradeItem, HandleClearTradeItem
  <2>3. OfferChanged(trade, trade', p)
    BY <2>1, <2>2, TheTrader, SetItemFacts DEF TradeInv
  <2> QED
    BY <2>2, <2>3 DEF TradeStep
<1>4. ASSUME NEW p \in Player, CastOnTradeItem(p) PROVE TradeStep(trade, trade')
  <2> DEFINE d == [trade[p] EXCEPT !.spell = TRUE]
  <2>1. trade[p] # None /\ trade[p] \in TradeData
    BY <1>4, TheTrader DEF CastOnTradeItem
  <2>2. d \in TradeData /\ d.trader = trade[p].trader
    BY <2>1 DEF TradeData
  <2>3. trade' = BothUnaccepted([trade EXCEPT ![p] = d], p)
    BY <1>4 DEF CastOnTradeItem
  <2> HIDE DEF d
  <2> QED
    BY <2>1, <2>2, <2>3, FieldChanged
<1>5. ASSUME NEW p \in Player, HandleUnacceptTrade(p) PROVE TradeStep(trade, trade')
  <2>1. OffersKept(trade, trade')
    BY <1>5, SetAcceptedFacts DEF HandleUnacceptTrade, TradeInv
  <2> QED
    BY <2>1 DEF TradeStep
<1>6. ASSUME NEW p \in Player, AcceptAndWait(p) \/ SpellFails(p) PROVE TradeStep(trade, trade')
  BY <1>6, AcceptStep, SpellStep DEF TradeStep
<1>7. ASSUME NEW p \in Player, DoesNotFit(p) PROVE TradeStep(trade, trade')
  <2>1. trade[p] # None /\ trade[p] \in TradeData /\ trade' = BothUnaccepted(trade, p)
    BY <1>7, TheTrader DEF DoesNotFit, ReadyToExchange
  <2>2. trade = [trade EXCEPT ![p] = trade[p]]
    BY DEF TradeInv, Trades
  <2> QED
    BY <2>1, <2>2, FieldChanged
<1>8. ASSUME NEW p \in Player, Exchange(p) PROVE TradeStep(trade, trade')
  BY <1>8, CloseStep DEF Exchange, ReadyToExchange
<1>9. ASSUME NEW p \in Player, NEW q \in Player, HandleInitiateTrade(p, q) PROVE TradeStep(trade, trade')
  <2>1. NewTradeData(p) \in TradeData /\ NewTradeData(q) \in TradeData
    BY TradeAssumption DEF NewTradeData, TradeData, Money
  <2>2. Opened(trade, trade', p, q)
    BY <1>9, <2>1, TradeAssumption DEF HandleInitiateTrade, TradeInv, Trades, Opened
  <2> QED
    BY <2>2 DEF TradeStep
<1>10. ASSUME NEW p \in Player, NEW i \in Item, DestroyItemCount(p, i) PROVE TradeStep(trade, trade')
  <2>1. UNCHANGED trade \/ (trade[p] # None /\ \E s \in AnySlot : trade' = SetItem(trade, p, s, i))
    BY <1>10 DEF DestroyItemCount
  <2>2. ASSUME trade[p] # None, NEW s \in AnySlot, trade' = SetItem(trade, p, s, i) PROVE TradeStep(trade, trade')
    <3>1. OfferChanged(trade, trade', p)
      BY <2>2, TheTrader, SetItemFacts DEF TradeInv
    <3> QED
      BY <2>2, <3>1 DEF TradeStep
  <2> QED
    BY <2>1, <2>2, Unchanged
<1>11. ASSUME NEW p \in Player, Spend(p) \/ SaveToDB(p) PROVE TradeStep(trade, trade')
  BY <1>11, Unchanged DEF Spend, SaveToDB
<1>12. ASSUME Restart PROVE TradeStep(trade, trade')
  BY <1>12 DEF Restart, TradeStep, Trades
<1>13. ASSUME ExecuteTransaction PROVE TradeStep(trade, trade')
  BY <1>13, Unchanged DEF ExecuteTransaction
<1> QED
  BY <1>1, <1>2, <1>3, <1>4, <1>5, <1>6, <1>7, <1>8, <1>9, <1>10, <1>11, <1>12, <1>13 DEF Next
\* No step leaves a trade without its counterpart.
LEMMA StepKeepsPairs ==
  ASSUME TradeInv, TradeStep(trade, trade')
  PROVE  trade' \in Trades /\ TradesArePaired'
<1>1. CASE OffersKept(trade, trade')
  BY <1>1 DEF OffersKept, SameTrades, TradeInv, Trades, TradeData, TradesArePaired
<1>2. ASSUME NEW p \in Player, OfferChanged(trade, trade', p) PROVE trade' \in Trades /\ TradesArePaired'
  BY <1>2 DEF OfferChanged, SameTrades, TradeInv, Trades, TradeData, TradesArePaired
<1>3. ASSUME NEW p \in Player, Closed(trade, trade', p) PROVE trade' \in Trades /\ TradesArePaired'
  BY <1>3, TheTrader DEF Closed, TradeInv, TradesArePaired
<1>4. ASSUME NEW p \in Player, NEW q \in Player, Opened(trade, trade', p, q)
      PROVE  trade' \in Trades /\ TradesArePaired'
  <2>1. trade'[p].trader = q /\ trade'[q].trader = p
    BY <1>4 DEF Opened, NewTradeData
  <2> QED
    BY <1>4, <2>1, TheTrader DEF Opened, TradeInv, TradesArePaired
<1>5. CASE trade' \in Trades /\ \A r \in Player : trade'[r] = None
  BY <1>5 DEF TradesArePaired
<1> QED
  BY <1>1, <1>2, <1>3, <1>4, <1>5 DEF TradeStep

-----------------------------------------------------------------------------
(* Money. *)

LEMMA MoneyOfTheTwo ==
  ASSUME TradeInv, money \in [Player -> Money], NEW p \in Player, Exchange(p)
  PROVE  LET q == trade[p].trader IN
           /\ Earn(Pay(money[p], trade[p].gold), trade[q].gold) = money[p] - trade[p].gold + trade[q].gold
           /\ Earn(Pay(money[q], trade[q].gold), trade[p].gold) = money[q] - trade[q].gold + trade[p].gold
           /\ money[p] - trade[p].gold + trade[q].gold \in Money
           /\ money[q] - trade[q].gold + trade[p].gold \in Money
<1> DEFINE q == trade[p].trader
<1>1. trade[p] # None
  BY DEF Exchange, ReadyToExchange
<1>2. /\ q \in Player /\ q # p /\ trade[q].trader = p
      /\ trade[p].gold \in Money /\ trade[q].gold \in Money
      /\ money[p] \in Money /\ money[q] \in Money
  BY <1>1, TheTrader DEF TradeInv, TradeData
<1>3. MoneyFault(p) = None /\ p # None /\ q # None
  BY <1>2, TradeAssumption DEF Exchange, ReadyToExchange
<1>4. /\ ~(money[p] < trade[p].gold) /\ ~(money[q] < trade[q].gold)
      /\ ~(money[p] >= MaxMoney - trade[q].gold) /\ ~(money[q] >= MaxMoney - trade[p].gold)
  BY <1>2, <1>3 DEF MoneyFault, GetTraderData
<1> QED
  BY <1>2, <1>4, TradeAssumption DEF Money, Earn, Pay

-----------------------------------------------------------------------------
(* The slots. *)

\* What a step can do to the slots of a player whose trade goes on or begins: nothing,
\* one slot gets an own item that is in no other slot, or all are empty.
SlotsStep(r) ==
  \/ trade[r] # None /\ trade'[r].items = trade[r].items
  \/ /\ trade[r] # None /\ UNCHANGED inv
     /\ \E s \in AnySlot, i \in Has(inv, r) \cup {None} :
          /\ trade'[r].items = [trade[r].items EXCEPT ![s] = i]
          /\ i # None => \A x \in AnySlot : trade[r].items[x] # i
  \/ /\ trade[r] = None /\ UNCHANGED inv /\ trade'[r].items = [s \in AnySlot |-> None]
     /\ \A i \in Item : InitPlace[i] = None => inv.place[i] = None

LEMMA SlotsChange ==
  ASSUME TradeInv, Next, NEW r \in Player, trade'[r] # None
  PROVE  SlotsStep(r)
<1>1. ASSUME OffersKept(trade, trade') PROVE SlotsStep(r)
  BY <1>1 DEF OffersKept, SameTrades, SlotsStep
<1>2. ASSUME NEW p \in Player, trade[p] # None, OfferChanged(trade, trade', p), SlotsKept(trade, trade', p)
      PROVE  SlotsStep(r)
  BY <1>2, TheTrader DEF OfferChanged, SameTrades, SlotsStep, SlotsKept
<1>3. ASSUME NEW p \in Player, trade[p] # None, NEW d \in TradeData, d.trader = trade[p].trader,
             d.items = trade[p].items, trade' = BothUnaccepted([trade EXCEPT ![p] = d], p)
      PROVE  SlotsStep(r)
  <2>1. OfferChanged(trade, trade', p) /\ SlotsKept(trade, trade', p)
    BY <1>3, TheTrader, BothUnacceptedFacts DEF SlotsKept, TradeInv
  <2> QED
    BY <1>2, <1>3, <2>1
<1>4. ASSUME NEW p \in Player, NEW q, trade' = [trade EXCEPT ![p] = None, ![q] = None] PROVE SlotsStep(r)
  BY <1>4 DEF SlotsStep, TradeInv, Trades
<1>5. ASSUME UNCHANGED trade PROVE SlotsStep(r)
  BY <1>5 DEF SlotsStep
<1>6. ASSUME NEW p \in Player, TradeCancel(p) \/ Exchange(p) PROVE SlotsStep(r)
  BY <1>4, <1>6 DEF TradeCancel, Exchange
<1>7. ASSUME NEW p \in Player, HandleSetTradeGold(p) PROVE SlotsStep(r)
  <2>1. PICK gold \in Money : trade' = SetMoney(trade, p, gold)
    BY <1>7 DEF HandleSetTradeGold
  <2> DEFINE d == [trade[p] EXCEPT !.gold = gold]
  <2>2. trade[p] # None /\ trade[p] \in TradeData
    BY <1>7, TheTrader DEF HandleSetTradeGold
  <2>3. d \in TradeData /\ d.trader = trade[p].trader /\ d.items = trade[p].items
    BY <2>2 DEF TradeData
  <2>4. trade' = BothUnaccepted([trade EXCEPT ![p] = d], p)
    BY <2>1 DEF SetMoney
  <2> HIDE DEF d
  <2> QED
    BY <1>3, <2>2, <2>3, <2>4
<1>8. ASSUME NEW p \in Player, trade[p] # None, NEW s \in AnySlot, NEW i \in Item \cup {None},
             trade' = SetItem(trade, p, s, i),
             \/ trade[p].items[s] = i
             \/ UNCHANGED inv /\ i \in Has(inv, p) \cup {None} /\ (i # None => \A x \in AnySlot : trade[p].items[x] # i)
      PROVE  SlotsStep(r)
  <2> DEFINE q == trade[p].trader
  <2>6. trade \in Trades /\ trade[q] # None /\ q # p /\ trade[q].trader = p
    BY <1>8, TheTrader DEF TradeInv
  <2>1. OfferChanged(trade, trade', p) /\ trade'[p].items = [trade[p].items EXCEPT ![s] = i]
        /\ trade'[q].items = trade[q].items
    BY <1>8, <2>6, SetItemFacts
  <2>2. trade[p].items \in [AnySlot -> Item \cup {None}]
    BY <1>8, TheTrader DEF TradeData
  <2>3. CASE r = p
    <3>1. CASE trade[p].items[s] = i
      <4>1. [trade[p].items EXCEPT ![s] = i] = trade[p].items
        BY <2>2, <3>1
      <4> QED
        BY <1>8, <2>1, <2>3, <4>1 DEF SlotsStep
    <3>2. CASE trade[p].items[s] # i
      BY <1>8, <2>1, <2>3, <3>2 DEF SlotsStep
    <3> QED
      BY <3>1, <3>2
  <2>4. CASE r = q
    BY <1>8, <2>1, <2>4, TheTrader DEF SlotsStep
  <2>5. CASE r # p /\ r # q
    BY <2>1, <2>5 DEF OfferChanged, SlotsStep
  <2> QED
    BY <2>3, <2>4, <2>5
<1>9. ASSUME NEW p \in Player, HandleSetTradeItem(p) \/ HandleClearTradeItem(p) PROVE SlotsStep(r)
  <2>1. CASE HandleSetTradeItem(p)
    <3>1. PICK s \in AnySlot, i \in Has(inv, p) :
            (\A x \in AnySlot : trade[p].items[x] # i) /\ trade' = SetItem(trade, p, s, i)
      BY <2>1 DEF HandleSetTradeItem
    <3>2. trade[p] # None /\ UNCHANGED inv /\ i \in Item
      BY <2>1 DEF HandleSetTradeItem, Has
    <3> QED
      BY <1>8, <3>1, <3>2
  <2>2. CASE HandleClearTradeItem(p)
    BY <1>8, <2>2 DEF HandleClearTradeItem
  <2> QED
    BY <1>9, <2>1, <2>2
<1>10. ASSUME NEW p \in Player, CastOnTradeItem(p) PROVE SlotsStep(r)
  <2> DEFINE d == [trade[p] EXCEPT !.spell = TRUE]
  <2>1. trade[p] # None /\ trade[p] \in TradeData
    BY <1>10, TheTrader DEF CastOnTradeItem
  <2>2. d \in TradeData /\ d.trader = trade[p].trader /\ d.items = trade[p].items
    BY <2>1 DEF TradeData
  <2>3. trade' = BothUnaccepted([trade EXCEPT ![p] = d], p)
    BY <1>10 DEF CastOnTradeItem
  <2> HIDE DEF d
  <2> QED
    BY <1>3, <2>1, <2>2, <2>3
<1>11. ASSUME NEW p \in Player, HandleUnacceptTrade(p) PROVE SlotsStep(r)
  <2>1. OffersKept(trade, trade')
    BY <1>11, SetAcceptedFacts DEF HandleUnacceptTrade, TradeInv
  <2> QED
    BY <1>1, <2>1
<1>12. ASSUME NEW p \in Player, AcceptAndWait(p) PROVE SlotsStep(r)
  BY <1>1, <1>12, AcceptStep
<1>13. ASSUME NEW p \in Player, SpellFails(p) PROVE SlotsStep(r)
  BY <1>2, <1>13, SpellStep
<1>14. ASSUME NEW p \in Player, DoesNotFit(p) PROVE SlotsStep(r)
  <2>1. trade[p] # None /\ trade[p] \in TradeData /\ trade' = BothUnaccepted(trade, p)
    BY <1>14, TheTrader DEF DoesNotFit, ReadyToExchange
  <2>2. trade = [trade EXCEPT ![p] = trade[p]]
    BY DEF TradeInv, Trades
  <2> QED
    BY <1>3, <2>1, <2>2
<1>15. ASSUME NEW p \in Player, NEW q \in Player, HandleInitiateTrade(p, q) PROVE SlotsStep(r)
  <2>1. CASE r \in {p, q}
    <3>1. trade'[r].items = [s \in AnySlot |-> None]
      BY <1>15, <2>1 DEF HandleInitiateTrade, TradeInv, Trades, NewTradeData
    <3> QED
      BY <1>15, <2>1, <3>1 DEF HandleInitiateTrade, SlotsStep
  <2>2. CASE r \notin {p, q}
    <3>1. trade'[r] = trade[r]
      BY <1>15, <2>2 DEF HandleInitiateTrade, TradeInv, Trades
    <3> QED
      BY <3>1 DEF SlotsStep
  <2> QED
    BY <2>1, <2>2
<1>16. ASSUME NEW p \in Player, NEW i \in Item, DestroyItemCount(p, i) PROVE SlotsStep(r)
  <2>1. UNCHANGED trade \/ (trade[p] # None /\ \E s \in AnySlot : trade[p].items[s] = i /\ trade' = SetItem(trade, p, s, i))
    BY <1>16 DEF DestroyItemCount
  <2> QED
    BY <1>5, <1>8, <2>1
<1>17. ASSUME NEW p \in Player, Spend(p) \/ SaveToDB(p) PROVE SlotsStep(r)
  BY <1>5, <1>17 DEF Spend, SaveToDB
<1>18. ASSUME Restart PROVE SlotsStep(r)
  BY <1>18 DEF Restart
<1>19. ASSUME ExecuteTransaction PROVE SlotsStep(r)
  BY <1>5, <1>19 DEF ExecuteTransaction
<1> QED
  BY <1>6, <1>7, <1>9, <1>10, <1>11, <1>12, <1>13, <1>14, <1>15, <1>16, <1>17, <1>18, <1>19 DEF Next

-----------------------------------------------------------------------------
(* The bags: moveItems is a fold over the slots. *)

\* The slots in the order of the loop.
Turns == [s \in Slot |-> s]

\* h holds the bags after the turns for each set of slots.
MoveRec(v, p, q, mine, his, h) ==
  h = [S \in SUBSET (DOMAIN Turns) |->
         IF S = {} THEN v
         ELSE MoveSlot(h[S \ {Max(S)}], p, q, mine[Turns[Max(S)]], his[Turns[Max(S)]])]

LEMMA MoveItemsIsFold ==
  ASSUME NEW v, NEW p, NEW q, NEW mine, NEW his
  PROVE  moveItems(v, p, q, mine, his) = (CHOOSE h : MoveRec(v, p, q, mine, his, h))[DOMAIN Turns]
BY DEF moveItems, FoldLeft, MapThenFoldSet, MoveRec, Turns

\* A set of slots has a last one.
LEMMA LastSlot ==
  ASSUME NEW S \in SUBSET Slot, S # {}
  PROVE  Max(S) \in S
<1> DEFINE Ends == {x .. NumSlots : x \in S}
<1>1. Ends # {} /\ Ends \in SUBSET (SUBSET Slot)
  <2>1. ASSUME NEW x \in S PROVE x .. NumSlots \in SUBSET Slot
    <3>1. x \in 1 .. NumSlots
      BY DEF Slot
    <3> QED
      BY <3>1, TradeAssumption DEF Slot
  <2> QED
    BY <2>1
<1>2. IsFiniteSet(Slot)
  BY FS_Interval, TradeAssumption DEF Slot
<1>3. PICK e \in Ends : \A t \in Ends : t \subseteq e => t = e
  <2> HIDE DEF Ends
  <2> QED
    BY <1>1, <1>2, SmallestSubset
<1>4. PICK x \in S : e = x .. NumSlots
  OBVIOUS
<1>5. ASSUME NEW s \in S PROVE x >= s
  <2>1. x \in 1 .. NumSlots /\ s \in 1 .. NumSlots
    BY DEF Slot
  <2>2. CASE x < s
    <3>1. (s .. NumSlots) \subseteq e /\ x \in e /\ x \notin s .. NumSlots
      BY <1>4, <2>1, <2>2, TradeAssumption
    <3>2. s .. NumSlots \in Ends
      OBVIOUS
    <3> HIDE DEF Ends
    <3> QED
      BY <1>3, <3>1, <3>2
  <2> QED
    BY <2>1, <2>2, TradeAssumption
<1> QED
  BY <1>5 DEF Max

\* The bags stay bags, and nothing but the two items, and a free guid, is touched.
LEMMA MoveSlotTypes ==
  ASSUME NEW v \in Inventory, NEW p \in Player, NEW q \in Player,
         NEW mine \in Item \cup {None}, NEW his \in Item \cup {None}
  PROVE  MoveSlot(v, p, q, mine, his) \in Inventory
<1>1. ASSUME NEW w \in Inventory, NEW r \in Player, NEW i \in Item \cup {None}
      PROVE  MoveItemToInventory(w, r, i) \in Inventory
  BY <1>1 DEF MoveItemToInventory, Inventory
<1>2. ASSUME NEW w \in Inventory, NEW r \in Player, NEW i \in Item, NEW n \in Nat
      PROVE  CloneItem(w, r, i, n) \in Inventory
  BY <1>2 DEF CloneItem, Inventory
<1>3. ASSUME NEW w \in Inventory, NEW r \in Player, NEW i \in Item \cup {None}, NEW o \in Item \cup {None}
      PROVE  ReturnItem(w, r, i, o) \in Inventory
  <2>1. o # None => w.count[o] \in Nat
    BY DEF Inventory
  <2> QED
    BY <1>1, <1>2, <2>1 DEF ReturnItem
<1> QED
  BY <1>1, <1>3 DEF MoveSlot

\* h[S] are the bags after the turns for the slots of S, h[Slot] those of moveItems.
MoveFold(v, p, q, mine, his, h) ==
  /\ h[{}] = v
  /\ \A S \in SUBSET Slot : S # {} =>
       h[S] = MoveSlot(h[S \ {Max(S)}], p, q, mine[Max(S)], his[Max(S)])
  /\ moveItems(v, p, q, mine, his) = h[Slot]

LEMMA MoveItemsUnfolds ==
  ASSUME NEW v \in Inventory, NEW p \in Player, NEW q \in Player,
         NEW mine \in [Slot -> Item \cup {None}], NEW his \in [Slot -> Item \cup {None}]
  PROVE  \E h : MoveFold(v, p, q, mine, his, h)
<1> DEFINE pick == [S \in SUBSET Slot |-> Max(S)]
           step == [t \in Slot \X Inventory |-> MoveSlot(t[2], p, q, mine[t[1]], his[t[1]])]
<1>1. \A S \in SUBSET Slot : S # {} => pick[S] \in S
  BY LastSlot
<1>2. ASSUME NEW s \in Slot, NEW w \in Inventory
      PROVE  step[<<s, w>>] = MoveSlot(w, p, q, mine[s], his[s]) /\ step[<<s, w>>] \in Inventory
  BY MoveSlotTypes
<1>3. step \in [Slot \X Inventory -> Inventory]
  BY MoveSlotTypes
<1>4. IsFiniteSet(Slot)
  BY FS_Interval, TradeAssumption DEF Slot
<1> HIDE DEF pick, step
<1>5. PICK g \in [SUBSET Slot -> Inventory] : FoldStep(Slot, v, pick, step, g)
  BY <1>1, <1>3, <1>4, FoldExists
<1>6. DOMAIN Turns = Slot /\ \A s \in Slot : Turns[s] = s
  BY DEF Turns
<1>7. MoveRec(v, p, q, mine, his, g)
  <2>1. ASSUME NEW S \in SUBSET Slot
        PROVE  g[S] = IF S = {} THEN v
                      ELSE MoveSlot(g[S \ {Max(S)}], p, q, mine[Turns[Max(S)]], his[Turns[Max(S)]])
    <3>1. CASE S = {}
      BY <1>5, <3>1 DEF FoldStep
    <3>2. CASE S # {}
      <4>1. pick[S] = Max(S) /\ Max(S) \in Slot /\ Turns[Max(S)] = Max(S)
        BY <1>6, <3>2, LastSlot DEF pick
      <4>2. g[S] = step[<<Max(S), g[S \ {Max(S)}]>>]
        BY <1>5, <3>2, <4>1 DEF FoldStep
      <4>3. g[S \ {Max(S)}] \in Inventory
        OBVIOUS
      <4> QED
        BY <1>2, <3>2, <4>1, <4>2, <4>3
    <3> QED
      BY <3>1, <3>2
  <2> QED
    BY <1>6, <2>1 DEF MoveRec
<1> DEFINE h == CHOOSE h : MoveRec(v, p, q, mine, his, h)
<1>8. MoveRec(v, p, q, mine, his, h)
  BY <1>7
<1>9. moveItems(v, p, q, mine, his) = h[Slot]
  BY <1>6, MoveItemsIsFold
<1> HIDE DEF h
<1>10. ASSUME NEW S \in SUBSET Slot, S # {}
       PROVE  h[S] = MoveSlot(h[S \ {Max(S)}], p, q, mine[Max(S)], his[Max(S)])
  <2>1. Turns[Max(S)] = Max(S)
    BY <1>6, <1>10, LastSlot
  <2> QED
    BY <1>6, <1>8, <1>10, <2>1 DEF MoveRec
<1>11. h[{}] = v
  BY <1>8 DEF MoveRec
<1> QED
  BY <1>9, <1>10, <1>11 DEF MoveFold

-----------------------------------------------------------------------------
(* What moveItems touches. *)

\* From v to w the items of G have gone to p or q or stayed, a free guid may have become
\* a copy that p or q has, and the rest is as it was.
Frame(v, w, p, q, G) ==
  /\ w \in Inventory
  /\ \A i \in Item :
       \/ w.place[i] = v.place[i] /\ w.count[i] = v.count[i]
       \/ i \in G /\ w.place[i] \in {p, q} /\ w.count[i] = v.count[i]
       \/ InitPlace[i] = None /\ v.count[i] = 0 /\ w.count[i] > 0 /\ w.place[i] \in {p, q}

LEMMA FrameTransitive ==
  ASSUME NEW v, NEW w, NEW u, NEW p, NEW q, NEW G, Frame(v, w, p, q, G), Frame(w, u, p, q, G)
  PROVE  Frame(v, u, p, q, G)
BY DEF Frame

LEMMA MoveFrame ==
  ASSUME NEW v \in Inventory, NEW p \in Player, NEW q \in Player, NEW r \in {p, q},
         NEW G \in SUBSET Item, NEW i \in G \cup {None}
  PROVE  Frame(v, MoveItemToInventory(v, r, i), p, q, G)
BY TradeAssumption DEF MoveItemToInventory, Frame, Inventory

LEMMA CloneFrame ==
  ASSUME NEW v \in Inventory, NEW p \in Player, NEW q \in Player, NEW r \in {p, q},
         NEW G, NEW i \in Item, NEW n \in Nat, n > 0
  PROVE  Frame(v, CloneItem(v, r, i, n), p, q, G)
<1> DEFINE free == {j \in Item : InitPlace[j] = None /\ v.count[j] = 0 /\ KindOf[j] = KindOf[i]}
           j == CHOOSE j \in free : TRUE
<1>1. CASE free = {}
  BY <1>1 DEF CloneItem, Frame
<1>2. CASE free # {}
  <2>1. j \in free
    BY <1>2
  <2>2. j \in Item /\ InitPlace[j] = None /\ v.count[j] = 0
    BY <2>1
  <2>3. CloneItem(v, r, i, n) = [place |-> [v.place EXCEPT ![j] = r], count |-> [v.count EXCEPT ![j] = n]]
    BY <1>2 DEF CloneItem
  <2> HIDE DEF free, j
  <2> QED
    BY <2>2, <2>3 DEF Frame, Inventory
<1> QED
  BY <1>1, <1>2

LEMMA ReturnFrame ==
  ASSUME NEW v \in Inventory, NEW p \in Player, NEW q \in Player, NEW r \in {p, q},
         NEW G \in SUBSET Item, \A i \in G : v.count[i] > 0,
         NEW i \in G \cup {None}, NEW o \in G \cup {None}
  PROVE  Frame(v, ReturnItem(v, r, i, o), p, q, G)
<1>1. CASE i = None \/ ~CanStoreItem(v, r, i, IF o = None THEN 0 ELSE 1)
  BY <1>1 DEF ReturnItem, Frame
<1>2. CASE i # None /\ CanStoreItem(v, r, i, IF o = None THEN 0 ELSE 1)
  <2> DEFINE w == IF o = None THEN v ELSE CloneItem(v, r, i, v.count[o])
  <2>1. Frame(v, w, p, q, G)
    <3>1. CASE o = None
      BY <3>1 DEF Frame
    <3>2. CASE o # None
      <4>1. v.count[o] \in Nat /\ v.count[o] > 0 /\ i \in Item
        BY <1>2, <3>2 DEF Inventory
      <4> QED
        BY <3>2, <4>1, CloneFrame
    <3> QED
      BY <3>1, <3>2
  <2>2. ReturnItem(v, r, i, o) = MoveItemToInventory(w, r, i)
    BY <1>2 DEF ReturnItem
  <2> HIDE DEF w
  <2>3. Frame(w, MoveItemToInventory(w, r, i), p, q, G)
    <3>1. w \in Inventory
      BY <2>1 DEF Frame
    <3> QED
      BY <3>1, MoveFrame
  <2> QED
    BY <2>1, <2>2, <2>3, FrameTransitive
<1> QED
  BY <1>1, <1>2

LEMMA MoveSlotFrame ==
  ASSUME NEW v \in Inventory, NEW p \in Player, NEW q \in Player,
         NEW G \in SUBSET Item, \A i \in G : v.count[i] > 0,
         NEW mine \in G \cup {None}, NEW his \in G \cup {None}
  PROVE  Frame(v, MoveSlot(v, p, q, mine, his), p, q, G)
<1>1. ASSUME NEW w, Frame(v, w, p, q, G)
      PROVE  w \in Inventory /\ \A i \in G : w.count[i] > 0
  BY <1>1 DEF Frame
<1>2. Frame(v, MoveItemToInventory(MoveItemToInventory(v, q, mine), p, his), p, q, G)
  <2> DEFINE w == MoveItemToInventory(v, q, mine)
  <2>1. Frame(v, w, p, q, G)
    BY MoveFrame
  <2> HIDE DEF w
  <2>2. Frame(w, MoveItemToInventory(w, p, his), p, q, G)
    BY <1>1, <2>1, MoveFrame
  <2> QED
    BY <2>1, <2>2, FrameTransitive DEF w
<1>3. ASSUME NEW a \in G \cup {None}, NEW b \in G \cup {None}
      PROVE  Frame(v, ReturnItem(ReturnItem(v, p, mine, a), q, his, b), p, q, G)
  <2> DEFINE w == ReturnItem(v, p, mine, a)
  <2>1. Frame(v, w, p, q, G)
    BY ReturnFrame
  <2> HIDE DEF w
  <2>2. w \in Inventory /\ \A i \in G : w.count[i] > 0
    BY <1>1, <2>1
  <2>3. Frame(w, ReturnItem(w, q, his, b), p, q, G)
    BY <2>2, ReturnFrame
  <2> QED
    BY <2>1, <2>3, FrameTransitive DEF w
<1> QED
  BY <1>2, <1>3 DEF MoveSlot

LEMMA MoveItemsFrame ==
  ASSUME NEW v \in Inventory, NEW p \in Player, NEW q \in Player,
         NEW G \in SUBSET Item, \A i \in G : v.count[i] > 0,
         NEW mine \in [Slot -> G \cup {None}], NEW his \in [Slot -> G \cup {None}]
  PROVE  Frame(v, moveItems(v, p, q, mine, his), p, q, G)
<1>1. mine \in [Slot -> Item \cup {None}] /\ his \in [Slot -> Item \cup {None}]
  OBVIOUS
<1>2. PICK h : MoveFold(v, p, q, mine, his, h)
  BY <1>1, MoveItemsUnfolds
<1> DEFINE A == {S \in SUBSET Slot : Frame(v, h[S], p, q, G)}
<1>3. ASSUME NEW S \in SUBSET Slot, \A T \in SUBSET S : T # S => T \in A PROVE S \in A
  <2>1. CASE S = {}
    BY <1>2, <2>1 DEF Frame, MoveFold
  <2>2. CASE S # {}
    <3> DEFINE m == Max(S)
               w == h[S \ {m}]
    <3>1. m \in S /\ mine[m] \in G \cup {None} /\ his[m] \in G \cup {None}
      BY <2>2, LastSlot
    <3>2. h[S] = MoveSlot(w, p, q, mine[m], his[m])
      BY <1>2, <2>2 DEF MoveFold
    <3>3. Frame(v, w, p, q, G)
      BY <1>3, <3>1
    <3> HIDE DEF m, w
    <3>4. w \in Inventory /\ \A i \in G : w.count[i] > 0
      BY <3>3 DEF Frame
    <3>5. Frame(w, MoveSlot(w, p, q, mine[m], his[m]), p, q, G)
      BY <3>1, <3>4, MoveSlotFrame
    <3>6. Frame(v, h[S], p, q, G)
      BY <3>2, <3>3, <3>5, FrameTransitive
    <3> QED
      BY <3>6
  <2> QED
    BY <2>1, <2>2
<1>4. A \in SUBSET (SUBSET Slot) /\ IsFiniteSet(Slot)
  BY FS_Interval, TradeAssumption DEF Slot
<1> HIDE DEF A
<1>5. Slot \in A
  BY <1>3, <1>4, SubsetInduction
<1> QED
  BY <1>2, <1>5 DEF A, MoveFold

-----------------------------------------------------------------------------
(* The tables. *)

\* d are the tables after the rows of S have been written on those of e.
SavedAs(d, e, S, v, m) ==
  /\ d \in Tables
  /\ \A r \in S : d.money[r] = m[r] /\ d.spent[r] = spent[r]
  /\ \A r \in Player \ S : d.money[r] = e.money[r] /\ d.spent[r] = e.spent[r]
  /\ \A i \in Item : \/ d.inv.place[i] = v.place[i] /\ d.inv.count[i] = v.count[i]
                     \/ /\ d.inv.place[i] = e.inv.place[i] /\ d.inv.count[i] = e.inv.count[i]
                        /\ v.place[i] \notin S

\* The tables before the transaction k, when those before it have been executed.
TablesBefore(k) == IF k = 1 THEN db ELSE saves[k - 1].tables

\* Each transaction leads from the tables of the one before to its own.
Chain ==
  \A k \in 1 .. Len(saves) :
    saves[k].tables = Write(TablesBefore(k), saves[k].tables, saves[k].players, saves[k].items)

\* Tables are given by their rows.
LEMMA TablesEqual ==
  ASSUME NEW d \in Tables, NEW e \in Tables,
         \A r \in Player : d.money[r] = e.money[r] /\ d.spent[r] = e.spent[r],
         \A i \in Item : d.inv.place[i] = e.inv.place[i] /\ d.inv.count[i] = e.inv.count[i]
  PROVE  d = e
<1>1. d.money = e.money /\ d.spent = e.spent
  BY DEF Tables
<1>2. d.inv \in Inventory /\ e.inv \in Inventory
  BY DEF Tables
<1>3. d.inv.place = e.inv.place /\ d.inv.count = e.inv.count
  BY <1>2 DEF Inventory
<1>4. d.inv = e.inv
  BY <1>2, <1>3 DEF Inventory
<1> QED
  BY <1>1, <1>4 DEF Tables

\* w has the rows of S and I from t, the others from d.
Written(w, d, t, S, I) ==
  /\ w \in Tables
  /\ \A r \in Player : /\ w.money[r] = IF r \in S THEN t.money[r] ELSE d.money[r]
                       /\ w.spent[r] = IF r \in S THEN t.spent[r] ELSE d.spent[r]
  /\ \A i \in Item : /\ w.inv.place[i] = IF i \in I THEN t.inv.place[i] ELSE d.inv.place[i]
                     /\ w.inv.count[i] = IF i \in I THEN t.inv.count[i] ELSE d.inv.count[i]

LEMMA WriteFacts ==
  ASSUME NEW d \in Tables, NEW t \in Tables, NEW S \in SUBSET Player, NEW I \in SUBSET Item
  PROVE  Written(Write(d, t, S, I), d, t, S, I)
<1> DEFINE w == Write(d, t, S, I)
           places == [i \in Item |-> IF i \in I THEN t.inv.place[i] ELSE d.inv.place[i]]
           counts == [i \in Item |-> IF i \in I THEN t.inv.count[i] ELSE d.inv.count[i]]
           purse == [r \in Player |-> IF r \in S THEN t.money[r] ELSE d.money[r]]
           paid == [r \in Player |-> IF r \in S THEN t.spent[r] ELSE d.spent[r]]
<1>1. /\ DOMAIN d.inv.place = Item /\ DOMAIN d.inv.count = Item
      /\ DOMAIN d.money = Player /\ DOMAIN d.spent = Player
  BY DEF Tables, Inventory
<1>2. w = [inv |-> [place |-> places, count |-> counts], money |-> purse, spent |-> paid]
  BY <1>1 DEF Write
<1> HIDE DEF w
<1>3. places \in [Item -> Player \cup {None}] /\ counts \in [Item -> Nat]
  BY DEF Tables, Inventory
<1>4. purse \in [Player -> Money] /\ paid \in [Player -> 0 .. MaxLosses]
  BY DEF Tables
<1>5. /\ \A r \in Player : /\ purse[r] = IF r \in S THEN t.money[r] ELSE d.money[r]
                           /\ paid[r] = IF r \in S THEN t.spent[r] ELSE d.spent[r]
      /\ \A i \in Item : /\ places[i] = IF i \in I THEN t.inv.place[i] ELSE d.inv.place[i]
                         /\ counts[i] = IF i \in I THEN t.inv.count[i] ELSE d.inv.count[i]
  OBVIOUS
<1> HIDE DEF places, counts, purse, paid
<1>6. w.inv.place = places /\ w.inv.count = counts /\ w.money = purse /\ w.spent = paid
  BY <1>2
<1>7. w \in Tables
  BY <1>2, <1>3, <1>4 DEF Tables, Inventory
<1>8. Written(w, d, t, S, I)
  BY <1>5, <1>6, <1>7 DEF Written
<1> QED
  BY <1>8 DEF w

\* To write the rows once more changes nothing.
LEMMA WriteAgain ==
  ASSUME NEW d \in Tables, NEW t \in Tables, NEW S \in SUBSET Player, NEW I \in SUBSET Item,
         NEW w, w = Write(d, t, S, I)
  PROVE  Write(d, w, S, I) = w
<1> DEFINE x == Write(d, w, S, I)
<1>1. Written(w, d, t, S, I)
  BY WriteFacts
<1>2. w \in Tables
  BY <1>1 DEF Written
<1>3. Written(x, d, w, S, I)
  BY <1>2, WriteFacts
<1> HIDE DEF x
<1>4. /\ \A r \in Player : x.money[r] = w.money[r] /\ x.spent[r] = w.spent[r]
      /\ \A i \in Item : x.inv.place[i] = w.inv.place[i] /\ x.inv.count[i] = w.inv.count[i]
  BY <1>1, <1>3 DEF Written
<1>5. x = w
  BY <1>2, <1>3, <1>4, TablesEqual DEF Written
<1> QED
  BY <1>5 DEF x

LEMMA SavedIsTables ==
  ASSUME TypeOK
  PROVE  Saved \in AllTables /\ AllTables \subseteq Tables
<1>1. saves \in Seq(Transaction) /\ db \in Tables
  BY DEF TypeOK
<1>2. ASSUME NEW k \in 1 .. Len(saves) PROVE saves[k].tables \in Tables
  <2>1. saves[k] \in Transaction
    BY <1>1
  <2> QED
    BY <2>1 DEF Transaction
<1>3. saves # <<>> => Len(saves) \in 1 .. Len(saves)
  BY <1>1
<1> QED
  BY <1>1, <1>2, <1>3 DEF AllTables, Saved, Last

\* What CommitTransaction does with the rows of S: they wait behind the others.
LEMMA Committed ==
  ASSUME TypeOK, NEW S \in SUBSET Player, NEW v \in Inventory, NEW m \in [Player -> Money],
         CommitTransaction(SaveInventoryAndGoldToDB(S, v, m)), db' = db
  PROVE  /\ saves' \in Seq(Transaction) /\ AllTables' = AllTables \cup {Saved'}
         /\ SavedAs(Saved', Saved, S, v, m)
         /\ Chain => Chain'
<1> DEFINE changed == {i \in Item : v.place[i] \in S \/ (v.count[i] = 0 /\ Saved.inv.place[i] \in S)}
           t == [inv |-> v, money |-> m, spent |-> spent]
           w == Write(Saved, t, S, changed)
           x == [players |-> S, items |-> changed, tables |-> w]
<1>1. Saved \in Tables /\ t \in Tables /\ changed \in SUBSET Item /\ saves \in Seq(Transaction)
  BY SavedIsTables DEF TypeOK, Tables
<1>2. t.inv = v /\ t.money = m /\ t.spent = spent
  OBVIOUS
<1>3. saves' = Append(saves, x)
  BY DEF CommitTransaction, SaveInventoryAndGoldToDB
<1>4. \A i \in Item : i \notin changed => v.place[i] \notin S
  OBVIOUS
<1> HIDE DEF changed, t
<1>5. Written(w, Saved, t, S, changed)
  BY <1>1, WriteFacts
<1>6. w = Write(Saved, w, S, changed)
  BY <1>1, WriteAgain
<1> HIDE DEF w
<1>7. x \in Transaction /\ x.tables = w /\ x.players = S /\ x.items = changed
  BY <1>1, <1>5 DEF Transaction, Written
<1> HIDE DEF x
<1>8. /\ saves' \in Seq(Transaction) /\ Len(saves') = Len(saves) + 1 /\ Len(saves) \in Nat
      /\ saves'[Len(saves) + 1] = x
      /\ \A k \in 1 .. Len(saves) : saves'[k] = saves[k]
  BY <1>1, <1>3, <1>7
<1>9. Saved' = w
  BY <1>7, <1>8 DEF Saved, Last
<1>10. AllTables' = AllTables \cup {w}
  <2>1. 1 .. Len(saves') = (1 .. Len(saves)) \cup {Len(saves) + 1}
    BY <1>8
  <2>2. {saves'[k].tables : k \in 1 .. Len(saves')} = {saves[k].tables : k \in 1 .. Len(saves)} \cup {w}
    BY <1>7, <1>8, <2>1
  <2> QED
    BY <2>2 DEF AllTables
<1>11. SavedAs(w, Saved, S, v, m)
  BY <1>2, <1>4, <1>5 DEF SavedAs, Written
<1>12. ASSUME Chain PROVE Chain'
  <2> SUFFICES ASSUME NEW k \in 1 .. Len(saves')
               PROVE  saves'[k].tables = Write(TablesBefore(k)', saves'[k].tables, saves'[k].players, saves'[k].items)
    BY DEF Chain
  <2>1. CASE k \in 1 .. Len(saves)
    <3>1. TablesBefore(k)' = TablesBefore(k) /\ saves'[k] = saves[k]
      BY <1>8, <2>1 DEF TablesBefore
    <3> QED
      BY <1>12, <2>1, <3>1 DEF Chain
  <2>2. CASE k = Len(saves) + 1
    <3>1. TablesBefore(k)' = Saved
      <4>1. CASE saves = <<>>
        BY <1>1, <2>2, <4>1 DEF TablesBefore, Saved
      <4>2. CASE saves # <<>>
        <5>1. k # 1 /\ k - 1 = Len(saves) /\ k - 1 \in 1 .. Len(saves)
          BY <1>1, <2>2, <4>2
        <5> QED
          BY <1>8, <4>2, <5>1 DEF TablesBefore, Saved, Last
      <4> QED
        BY <4>1, <4>2
    <3> QED
      BY <1>6, <1>7, <1>8, <2>2, <3>1
  <2> QED
    BY <1>8, <2>1, <2>2
<1> QED
  BY <1>8, <1>9, <1>10, <1>11, <1>12

LEMMA RemoveAtFacts ==
  ASSUME NEW T, NEW s \in Seq(T), NEW k \in 1 .. Len(s)
  PROVE  /\ RemoveAt(s, k) \in Seq(T) /\ Len(RemoveAt(s, k)) = Len(s) - 1
         /\ \A j \in 1 .. Len(s) - 1 : RemoveAt(s, k)[j] = IF j < k THEN s[j] ELSE s[j + 1]
<1> DEFINE a == SubSeq(s, 1, k - 1)
           b == SubSeq(s, k + 1, Len(s))
<1>1. /\ a \in Seq(T) /\ Len(a) = k - 1 /\ \A j \in 1 .. k - 1 : a[j] = s[j]
      /\ b \in Seq(T) /\ Len(b) = Len(s) - k /\ \A j \in 1 .. Len(s) - k : b[j] = s[k + j]
  OBVIOUS
<1>2. RemoveAt(s, k) = a \o b
  BY DEF RemoveAt
<1> HIDE DEF a, b
<1>3. a \o b \in Seq(T) /\ Len(a \o b) = Len(s) - 1
  <2>3. a \in Seq(T) /\ b \in Seq(T)
    BY <1>1
  <2>1. a \o b \in Seq(T) /\ Len(a \o b) = Len(a) + Len(b)
    BY <2>3
  <2>2. Len(s) \in Nat /\ k \in Nat
    OBVIOUS
  <2> QED
    BY <1>1, <2>1, <2>2
<1>4. ASSUME NEW j \in 1 .. Len(s) - 1 PROVE (a \o b)[j] = IF j < k THEN s[j] ELSE s[j + 1]
  <2>1. (a \o b)[j] = IF j <= Len(a) THEN a[j] ELSE b[j - Len(a)]
    BY <1>1
  <2> QED
    BY <1>1, <2>1
<1> QED
  BY <1>2, <1>3, <1>4

\* What a worker does to the tables: rows that were there or those of a transaction.
LEMMA Executed ==
  ASSUME TypeOK, ExecuteTransaction
  PROVE  /\ db' \in Tables /\ saves' \in Seq(Transaction)
         /\ AllTables' \subseteq AllTables \cup {db'}
         /\ \E t \in AllTables : \A i \in Item :
              \/ db'.inv.place[i] = db.inv.place[i] /\ db'.inv.count[i] = db.inv.count[i]
              \/ db'.inv.place[i] = t.inv.place[i] /\ db'.inv.count[i] = t.inv.count[i]
<1>1. PICK k \in 1 .. Len(saves) :
        /\ db' = Write(db, saves[k].tables, saves[k].players, saves[k].items)
        /\ saves' = RemoveAt(saves, k)
  BY DEF ExecuteTransaction
<1>2. /\ saves \in Seq(Transaction) /\ db \in Tables /\ Len(saves) \in Nat
      /\ saves[k].tables \in Tables /\ saves[k].players \in SUBSET Player /\ saves[k].items \in SUBSET Item
      /\ saves[k].tables \in AllTables
  <2>1. saves \in Seq(Transaction) /\ db \in Tables
    BY DEF TypeOK
  <2>2. saves[k] \in Transaction /\ Len(saves) \in Nat
    BY <2>1
  <2> QED
    BY <2>1, <2>2 DEF Transaction, AllTables
<1>3. /\ saves' \in Seq(Transaction) /\ Len(saves') = Len(saves) - 1
      /\ \A j \in 1 .. Len(saves) - 1 : saves'[j] = IF j < k THEN saves[j] ELSE saves[j + 1]
  BY <1>1, <1>2, RemoveAtFacts
<1>4. AllTables' \subseteq AllTables \cup {db'}
  <2>1. ASSUME NEW j \in 1 .. Len(saves') PROVE saves'[j].tables \in AllTables
    <3>1. \E x \in 1 .. Len(saves) : saves'[j] = saves[x]
      BY <1>2, <1>3
    <3> QED
      BY <3>1 DEF AllTables
  <2> QED
    BY <2>1 DEF AllTables
<1>5. Written(db', db, saves[k].tables, saves[k].players, saves[k].items)
  BY <1>1, <1>2, WriteFacts
<1> QED
  BY <1>2, <1>3, <1>4, <1>5 DEF Written

\* One worker executes them in order: no other tables come to be.
LEMMA ExecutedInOrder ==
  ASSUME TypeOK, Chain, Workers = 1, ExecuteTransaction
  PROVE  AllTables' \subseteq AllTables /\ Saved' = Saved /\ Chain'
<1>1. PICK k \in 1 .. Len(saves) :
        /\ k <= 1
        /\ db' = Write(db, saves[k].tables, saves[k].players, saves[k].items)
        /\ saves' = RemoveAt(saves, k)
  BY DEF ExecuteTransaction
<1>2. saves \in Seq(Transaction) /\ Len(saves) \in Nat /\ k = 1
  BY <1>1 DEF TypeOK
<1>3. db' = saves[1].tables /\ saves[1].tables \in AllTables
  BY <1>1, <1>2 DEF Chain, TablesBefore, AllTables
<1>4. /\ saves' \in Seq(Transaction) /\ Len(saves') = Len(saves) - 1
      /\ \A j \in 1 .. Len(saves) - 1 : saves'[j] = saves[j + 1]
  <2>1. \A j \in 1 .. Len(saves) - 1 : RemoveAt(saves, 1)[j] = IF j < 1 THEN saves[j] ELSE saves[j + 1]
    BY <1>1, <1>2, RemoveAtFacts
  <2> QED
    BY <1>1, <1>2, <2>1, RemoveAtFacts
<1>5. AllTables' \subseteq AllTables
  BY <1>3, Executed
<1>6. Saved' = Saved
  <2>1. CASE Len(saves) = 1
    BY <1>2, <1>3, <1>4, <2>1 DEF Saved, Last
  <2>2. CASE Len(saves) # 1
    <3>1. Len(saves') \in 1 .. Len(saves) - 1 /\ saves' # <<>> /\ saves # <<>>
      BY <1>1, <1>2, <1>4, <2>2
    <3>2. saves'[Len(saves')] = saves[Len(saves)]
      BY <1>2, <1>4, <3>1
    <3> QED
      BY <3>1, <3>2 DEF Saved, Last
  <2> QED
    BY <2>1, <2>2
<1>7. Chain'
  <2> SUFFICES ASSUME NEW j \in 1 .. Len(saves')
               PROVE  saves'[j].tables = Write(TablesBefore(j)', saves'[j].tables, saves'[j].players, saves'[j].items)
    BY DEF Chain
  <2>1. saves'[j] = saves[j + 1] /\ j + 1 \in 1 .. Len(saves) /\ j + 1 # 1 /\ j + 1 - 1 = j
    BY <1>2, <1>4
  <2>2. TablesBefore(j)' = TablesBefore(j + 1)
    <3>1. CASE j = 1
      BY <1>3, <2>1, <3>1 DEF TablesBefore
    <3>2. CASE j # 1
      <4>1. j - 1 \in 1 .. Len(saves) - 1 /\ j - 1 + 1 = j
        BY <1>2, <1>4, <3>2
      <4> QED
        BY <1>4, <2>1, <3>2, <4>1 DEF TablesBefore
    <3> QED
      BY <3>1, <3>2
  <2> QED
    BY <2>1, <2>2 DEF Chain
<1> QED
  BY <1>5, <1>6, <1>7

-----------------------------------------------------------------------------
(* The invariant of the goods. *)

\* What each player owns or has paid elsewhere.
Worth(m, s) == [r \in Player |-> m[r] + s[r]]

\* A stack that somebody has is not empty, and only a copy grows.
Sound(v, i) ==
  /\ v.place[i] # None => v.count[i] > 0
  /\ InitPlace[i] # None => v.count[i] <= InitCount[i]

Stacks == \A i \in Item : Sound(inv, i) /\ \A d \in AllTables : Sound(d.inv, i)

\* Who trades has no copy, offers what nobody else has, and each item once.
Offers ==
  \A p \in Player : trade[p] # None =>
    /\ \A i \in Item : InitPlace[i] = None => inv.place[i] # p
    /\ \A s \in AnySlot : LET i == trade[p].items[s] IN i # None => InitPlace[i] # None /\ inv.place[i] \in {p, None}
    /\ \A s, r \in AnySlot : trade[p].items[s] # None /\ trade[p].items[r] = trade[p].items[s] => r = s

\* The inductive invariant, for any number of workers.
GoodsInv == TypeOK /\ TradesArePaired /\ Stacks /\ Offers

\* Each purse is worth what its row will say, and all together what they were, here and
\* in all tables.
Purses ==
  /\ \A r \in Player : money[r] + spent[r] = Saved.money[r] + Saved.spent[r]
  /\ SumFunctionOnSet(Worth(money, spent), Player) = SumFunctionOnSet(InitMoney, Player)
  /\ \A d \in AllTables : SumFunctionOnSet(Worth(d.money, d.spent), Player) = SumFunctionOnSet(InitMoney, Player)

\* Each item will be stored with who has it, and is stored with somebody.
Bags ==
  \A i \in Item : inv.place[i] # None =>
    /\ Saved.inv.place[i] = inv.place[i]
    /\ InitPlace[i] # None => \A d \in AllTables : d.inv.place[i] # None

\* What one worker adds to it.
StoredInv == GoodsInv /\ Workers = 1 /\ Chain /\ Purses /\ Bags

LEMMA GoodsInvTypes ==
  ASSUME GoodsInv
  PROVE  TradeInv
BY DEF GoodsInv, TypeOK, TradeInv, Trades

\* What an exchange does to an item: nothing, it was offered and is with one of the
\* two or lost, or it is a copy.
LEMMA ExchangedItem ==
  ASSUME GoodsInv, NEW p \in Player, Exchange(p)
  PROVE  LET q == trade[p].trader IN
           /\ inv' \in Inventory
           /\ \A i \in Item :
                \/ inv'.place[i] = inv.place[i] /\ inv'.count[i] = inv.count[i]
                \/ /\ i \in Offered(p) \cup Offered(q) /\ inv'.count[i] = inv.count[i]
                   /\ inv.place[i] \in {p, q} /\ inv'.place[i] \in {p, q, None}
                \/ /\ InitPlace[i] = None /\ inv.count[i] = 0 /\ inv.place[i] = None
                   /\ inv'.count[i] > 0 /\ inv'.place[i] \in {p, q}
<1> DEFINE q == trade[p].trader
           G == Offered(p) \cup Offered(q)
           removed == [inv EXCEPT !.place = [i \in Item |-> IF i \in G THEN None ELSE @[i]]]
           mine == [s \in Slot |-> GetItem(p, s)]
           his == [s \in Slot |-> GetItem(q, s)]
<1>1. /\ trade[p] # None /\ q \in Player /\ q # p /\ trade[q] # None
      /\ trade[p].items \in [AnySlot -> Item \cup {None}] /\ trade[q].items \in [AnySlot -> Item \cup {None}]
  BY GoodsInvTypes, TheTrader DEF Exchange, ReadyToExchange, TradeData
<1>2. ASSUME NEW r \in {p, q}, NEW s \in Slot
      PROVE  GetItem(r, s) # None => GetItem(r, s) \in Item /\ inv.place[GetItem(r, s)] = r
  <2>1. s \in AnySlot
    BY DEF AnySlot
  <2> QED
    BY <1>1, <2>1 DEF GetItem
<1>3. G \in SUBSET Item /\ \A i \in G : inv.place[i] \in {p, q}
  BY <1>2 DEF Offered
<1>4. mine \in [Slot -> G \cup {None}] /\ his \in [Slot -> G \cup {None}]
  BY DEF Offered
<1>5. inv \in Inventory
  BY DEF GoodsInv, TypeOK
<1>6. \A i \in Item : inv.place[i] # None => inv.count[i] > 0
  BY DEF GoodsInv, Stacks, Sound
<1>7. inv' = moveItems(removed, p, q, mine, his)
  BY DEF Exchange
<1> HIDE DEF G, mine, his
<1>8. /\ removed \in Inventory
      /\ \A i \in Item : /\ removed.count[i] = inv.count[i]
                         /\ removed.place[i] = IF i \in G THEN None ELSE inv.place[i]
  BY <1>5 DEF Inventory
<1> HIDE DEF removed
<1>9. \A i \in G : removed.count[i] > 0
  BY <1>1, <1>3, <1>6, <1>8, TradeAssumption
<1>10. Frame(removed, inv', p, q, G)
  BY <1>1, <1>3, <1>4, <1>7, <1>8, <1>9, MoveItemsFrame
<1>11. inv' \in Inventory
  BY <1>10 DEF Frame
<1>12. ASSUME NEW i \in Item
       PROVE  \/ inv'.place[i] = inv.place[i] /\ inv'.count[i] = inv.count[i]
              \/ /\ i \in G /\ inv'.count[i] = inv.count[i]
                 /\ inv.place[i] \in {p, q} /\ inv'.place[i] \in {p, q, None}
              \/ /\ InitPlace[i] = None /\ inv.count[i] = 0 /\ inv.place[i] = None
                 /\ inv'.count[i] > 0 /\ inv'.place[i] \in {p, q}
  BY <1>3, <1>6, <1>8, <1>10 DEF Frame
<1> QED
  BY <1>11, <1>12 DEF G

\* The steps that touch more than the trades.
LEMMA GoodsSteps ==
  ASSUME Next
  PROVE  \/ UNCHANGED <<inv, money, spent, db, saves>>
         \/ \E p \in Player : Exchange(p) \/ SaveToDB(p)
         \/ Losses < MaxLosses /\ \E p \in Player : Spend(p)
         \/ \E p \in Player, i \in Item : DestroyItemCount(p, i)
         \/ ExecuteTransaction
         \/ Restart
BY DEF Next, TradeCancel, HandleSetTradeGold, HandleSetTradeItem, HandleClearTradeItem, CastOnTradeItem,
       HandleUnacceptTrade, AcceptAndWait, SpellFails, DoesNotFit, HandleInitiateTrade

\* Where nothing is committed or executed all tables stay.
LEMMA SameSaves ==
  ASSUME UNCHANGED <<db, saves>>
  PROVE  Saved' = Saved /\ AllTables' = AllTables /\ (Chain => Chain')
BY DEF Saved, AllTables, Chain, TablesBefore, Last

\* The purses after an exchange.
LEMMA ExchangedMoney ==
  ASSUME GoodsInv, NEW p \in Player, Exchange(p)
  PROVE  LET q == trade[p].trader IN
           /\ trade[p] # None /\ q \in Player /\ q # p /\ trade[q] # None
           /\ money' = [money EXCEPT ![p] = money[p] - trade[p].gold + trade[q].gold,
                                     ![q] = money[q] - trade[q].gold + trade[p].gold]
           /\ money' \in [Player -> Money] /\ spent' = spent /\ db' = db
<1>1. /\ money \in [Player -> Money] /\ TradeInv
      /\ trade[p] # None /\ trade[p].trader \in Player /\ trade[p].trader # p /\ trade[trade[p].trader] # None
  BY GoodsInvTypes, TheTrader DEF GoodsInv, TypeOK, Exchange, ReadyToExchange
<1> QED
  BY <1>1, MoneyOfTheTwo DEF Exchange

\* The save of an exchange.
LEMMA ExchangeCommits ==
  ASSUME GoodsInv, NEW p \in Player, Exchange(p)
  PROVE  LET S == {p, trade[p].trader} IN
           /\ saves' \in Seq(Transaction) /\ AllTables' = AllTables \cup {Saved'}
           /\ SavedAs(Saved', Saved, S, inv', money')
           /\ Chain => Chain'
<1> DEFINE S == {p, trade[p].trader}
<1>1. /\ S \in SUBSET Player /\ inv' \in Inventory /\ money' \in [Player -> Money] /\ db' = db /\ TypeOK
  BY ExchangedMoney, ExchangedItem DEF GoodsInv
<1>2. CommitTransaction(SaveInventoryAndGoldToDB(S, inv', money'))
  BY DEF Exchange, SavedTogether
<1> HIDE DEF S
<1>3. /\ saves' \in Seq(Transaction) /\ AllTables' = AllTables \cup {Saved'}
      /\ SavedAs(Saved', Saved, S, inv', money')
      /\ Chain => Chain'
  BY <1>1, <1>2, Committed
<1> QED
  BY <1>3 DEF S

\* The save of one player.
LEMMA SaveCommits ==
  ASSUME GoodsInv, NEW p \in Player, SaveToDB(p)
  PROVE  /\ saves' \in Seq(Transaction) /\ AllTables' = AllTables \cup {Saved'}
         /\ SavedAs(Saved', Saved, {p}, inv, money)
         /\ Chain => Chain'
         /\ UNCHANGED <<trade, inv, money, spent, db>>
<1>1. /\ {p} \in SUBSET Player /\ inv \in Inventory /\ money \in [Player -> Money] /\ TypeOK
  BY DEF GoodsInv, TypeOK
<1>2. CommitTransaction(SaveInventoryAndGoldToDB({p}, inv, money)) /\ UNCHANGED <<trade, inv, money, spent, db>>
  BY DEF SaveToDB
<1> QED
  BY <1>1, <1>2, Committed

\* The bound on losses bounds what each player has spent.
LEMMA SpentBounded ==
  ASSUME GoodsInv, NEW p \in Player
  PROVE  Losses \in Int /\ spent[p] <= Losses
<1> DEFINE O == {i \in Item : InitPlace[i] # None}
<1>1. /\ IsFiniteSet(Player) /\ IsFiniteSet(Item) /\ IsFiniteSet(O)
      /\ DOMAIN spent = Player /\ DOMAIN InitCount = Item
  BY TradeAssumption, FS_Subset DEF GoodsInv, TypeOK
<1>2. \A r \in Player : spent[r] \in Nat /\ spent[r] \in Int
  BY DEF GoodsInv, TypeOK
<1>3. \A i \in Item : InitCount[i] \in Nat /\ inv.count[i] \in Nat /\ InitCount[i] \in Int
  BY TradeAssumption DEF GoodsInv, TypeOK, Inventory
<1>4. \A i \in O : inv.count[i] <= InitCount[i]
  BY DEF GoodsInv, Stacks, Sound
<1>5. spent[p] <= SumFunctionOnSet(spent, Player)
  <2>1. IsFiniteSet({p}) /\ IsFiniteSet({}) /\ {p} \ {p} = {}
    BY FS_Singleton, FS_EmptySet
  <2>2. SumFunctionOnSet(spent, {}) = 0
    BY <2>1, SumUnfolds
  <2>3. SumFunctionOnSet(spent, {p}) = spent[p] + SumFunctionOnSet(spent, {p} \ {p})
    BY <1>2, <2>1, SumRemove
  <2>4. SumFunctionOnSet(spent, {p}) <= SumFunctionOnSet(spent, Player)
    BY <1>1, <1>2, SumOfPart
  <2> QED
    BY <1>2, <2>1, <2>2, <2>3, <2>4
<1>6. SumFunctionOnSet(inv.count, O) <= SumFunctionOnSet(InitCount, O)
  BY <1>1, <1>3, <1>4, SumMonotone
<1>7. SumFunctionOnSet(InitCount, O) <= SumFunctionOnSet(InitCount, Item)
  BY <1>1, <1>3, SumOfPart
<1>8. /\ SumFunctionOnSet(spent, Player) \in Int /\ SumFunctionOnSet(InitCount, Item) \in Int
      /\ SumFunctionOnSet(InitCount, O) \in Int /\ SumFunctionOnSet(inv.count, O) \in Int
  <2>1. SumFunctionOnSet(spent, Player) \in Int
    BY <1>1, <1>2, SumUnfolds
  <2>2. SumFunctionOnSet(InitCount, Item) \in Int
    BY <1>1, <1>3, SumUnfolds
  <2>3. \A i \in O : InitCount[i] \in Int /\ inv.count[i] \in Int
    BY <1>3
  <2> HIDE DEF O
  <2>4. SumFunctionOnSet(InitCount, O) \in Int
    BY <1>1, <2>3, SumUnfolds
  <2>5. SumFunctionOnSet(inv.count, O) \in Int
    BY <1>1, <2>3, SumUnfolds
  <2> QED
    BY <2>1, <2>2, <2>4, <2>5
<1>9. Losses = SumFunctionOnSet(spent, Player) + SumFunctionOnSet(InitCount, Item) - SumFunctionOnSet(inv.count, O)
  BY <1>1 DEF Losses, SumFunction
<1> QED
  BY <1>2, <1>5, <1>6, <1>7, <1>8, <1>9

LEMMA TypesStep ==
  ASSUME GoodsInv, Next
  PROVE  TypeOK'
<1>1. TypeOK /\ trade' \in [Player -> TradeData \cup {None}]
  BY GoodsInvTypes, StepShape, StepKeepsPairs DEF GoodsInv, Trades
<1>2. CASE UNCHANGED <<inv, money, spent, db, saves>>
  BY <1>1, <1>2 DEF TypeOK
<1>3. ASSUME NEW p \in Player, Exchange(p) PROVE TypeOK'
  BY <1>1, <1>3, ExchangedItem, ExchangedMoney, ExchangeCommits DEF TypeOK
<1>4. ASSUME NEW p \in Player, SaveToDB(p) PROVE TypeOK'
  BY <1>1, <1>4, SaveCommits DEF TypeOK
<1>5. ASSUME Losses < MaxLosses, NEW p \in Player, Spend(p) PROVE TypeOK'
  <2>1. spent[p] \in 0 .. MaxLosses /\ Losses \in Int /\ spent[p] <= Losses
    BY <1>1, SpentBounded DEF TypeOK
  <2>2. spent[p] + 1 \in 0 .. MaxLosses
    BY <1>5, <2>1, TradeAssumption
  <2>3. money[p] \in Money /\ Pay(money[p], 1) \in Money
    BY <1>1, TradeAssumption DEF TypeOK, Pay, Money
  <2> QED
    BY <1>1, <1>5, <2>2, <2>3 DEF Spend, TypeOK
<1>6. ASSUME NEW p \in Player, NEW i \in Item, DestroyItemCount(p, i) PROVE TypeOK'
  <2>1. inv.count[i] > 0 /\ inv.count[i] \in Nat /\ inv.count[i] - 1 \in Nat
    BY <1>1, <1>6, TradeAssumption DEF DestroyItemCount, GoodsInv, Stacks, Sound, TypeOK, Inventory
  <2>2. inv' \in Inventory
    <3>1. inv \in Inventory
      BY <1>1 DEF TypeOK
    <3>2. CASE inv.count[i] = 1
      BY <1>6, <3>1, <3>2 DEF DestroyItemCount, Inventory
    <3>3. CASE inv.count[i] # 1
      BY <1>6, <2>1, <3>1, <3>3 DEF DestroyItemCount, Inventory
    <3> QED
      BY <3>2, <3>3
  <2> QED
    BY <1>1, <1>6, <2>2 DEF DestroyItemCount, TypeOK
<1>7. ASSUME ExecuteTransaction PROVE TypeOK'
  <2>1. UNCHANGED <<inv, money, spent>>
    BY <1>7 DEF ExecuteTransaction
  <2> QED
    BY <1>1, <1>7, <2>1, Executed DEF TypeOK
<1>8. ASSUME Restart PROVE TypeOK'
  <2>1. saves' = <<>> /\ inv' = db.inv /\ money' = db.money /\ spent' = db.spent /\ db' = db
    BY <1>8 DEF Restart
  <2> QED
    BY <1>1, <2>1 DEF TypeOK, Tables
<1> QED
  BY <1>2, <1>3, <1>4, <1>5, <1>6, <1>7, <1>8, GoodsSteps

\* Rows that are saved are as sound as the bags.
LEMMA SavedSound ==
  ASSUME GoodsInv, NEW S, NEW v, NEW m, SavedAs(Saved', Saved, S, v, m),
         AllTables' = AllTables \cup {Saved'}, \A i \in Item : Sound(v, i), v = inv'
  PROVE  Stacks'
<1>1. ASSUME NEW i \in Item PROVE Sound(Saved'.inv, i)
  <2>1. Sound(Saved.inv, i)
    BY SavedIsTables DEF GoodsInv, Stacks
  <2> QED
    BY <2>1 DEF SavedAs, Sound
<1>2. ASSUME NEW i \in Item, NEW d \in AllTables PROVE Sound(d.inv, i)
  BY DEF GoodsInv, Stacks
<1> QED
  BY <1>1, <1>2 DEF Stacks

LEMMA StacksStep ==
  ASSUME GoodsInv, Next
  PROVE  Stacks'
<1>1. TypeOK /\ \A i \in Item : Sound(inv, i) /\ \A d \in AllTables : Sound(d.inv, i)
  BY DEF GoodsInv, Stacks
<1>2. CASE UNCHANGED <<inv, db, saves>>
  BY <1>1, <1>2, SameSaves DEF Stacks
<1>3. ASSUME NEW p \in Player, Exchange(p) PROVE Stacks'
  <2>1. ASSUME NEW i \in Item PROVE Sound(inv', i)
    <3>1. CASE inv'.count[i] = inv.count[i] /\ (inv.place[i] # None \/ inv'.place[i] = inv.place[i])
      BY <1>1, <3>1 DEF Sound
    <3>2. CASE InitPlace[i] = None /\ inv'.count[i] > 0
      BY <3>2 DEF Sound
    <3> QED
      BY <1>3, <3>1, <3>2, ExchangedItem, ExchangedMoney, TradeAssumption
  <2> QED
    BY <1>3, <2>1, ExchangeCommits, SavedSound
<1>4. ASSUME NEW p \in Player, SaveToDB(p) PROVE Stacks'
  <2>1. inv' = inv
    BY <1>4, SaveCommits
  <2> QED
    BY <1>1, <1>4, <2>1, SaveCommits, SavedSound
<1>5. ASSUME NEW p \in Player, NEW i \in Item, DestroyItemCount(p, i) PROVE Stacks'
  <2>1. /\ inv \in Inventory /\ inv.count[i] \in Nat /\ inv.count[i] > 0 /\ inv.place[i] = p /\ p # None
        /\ InitCount[i] \in Nat
    BY <1>1, <1>5, TradeAssumption DEF DestroyItemCount, Sound, TypeOK, Inventory
  <2>2. /\ AllTables' = AllTables
        /\ \A j \in Item \ {i} : inv'.place[j] = inv.place[j] /\ inv'.count[j] = inv.count[j]
        /\ \/ inv'.place[i] = None /\ inv'.count[i] = 0
           \/ inv'.place[i] = p /\ inv'.count[i] = inv.count[i] - 1 /\ inv.count[i] # 1
    BY <1>5, <2>1, SameSaves DEF DestroyItemCount, Inventory
  <2>3. Sound(inv', i)
    BY <1>1, <2>1, <2>2 DEF Sound
  <2>4. ASSUME NEW j \in Item \ {i} PROVE Sound(inv', j)
    BY <1>1, <2>2 DEF Sound
  <2> QED
    BY <1>1, <2>2, <2>3, <2>4 DEF Stacks
<1>6. ASSUME NEW p \in Player, Spend(p) PROVE Stacks'
  BY <1>2, <1>6 DEF Spend
<1>7. ASSUME ExecuteTransaction PROVE Stacks'
  <2>1. inv' = inv /\ db \in AllTables
    BY <1>7 DEF ExecuteTransaction, AllTables
  <2>2. PICK t \in AllTables : \A i \in Item :
          \/ db'.inv.place[i] = db.inv.place[i] /\ db'.inv.count[i] = db.inv.count[i]
          \/ db'.inv.place[i] = t.inv.place[i] /\ db'.inv.count[i] = t.inv.count[i]
    BY <1>1, <1>7, Executed
  <2>3. ASSUME NEW i \in Item PROVE Sound(db'.inv, i)
    <3>1. Sound(db.inv, i) /\ Sound(t.inv, i)
      BY <1>1, <2>1, <2>2
    <3> QED
      BY <2>2, <3>1 DEF Sound
  <2>4. AllTables' \subseteq AllTables \cup {db'}
    BY <1>1, <1>7, Executed
  <2> QED
    BY <1>1, <2>1, <2>3, <2>4 DEF Stacks
<1>8. ASSUME Restart PROVE Stacks'
  <2>1. inv' = db.inv /\ db \in AllTables /\ AllTables' = {db}
    BY <1>8 DEF Restart, AllTables
  <2> QED
    BY <1>1, <2>1 DEF Stacks
<1> QED
  BY <1>2, <1>3, <1>4, <1>5, <1>6, <1>7, <1>8, GoodsSteps

\* A step that keeps what each player is worth keeps the sum.
LEMMA SameWorth ==
  ASSUME StoredInv, \A r \in Player : money'[r] + spent'[r] = money[r] + spent[r]
  PROVE  SumFunctionOnSet(Worth(money', spent'), Player) = SumFunctionOnSet(InitMoney, Player)
<1>1. Worth(money', spent') = Worth(money, spent)
  BY DEF Worth
<1> QED
  BY <1>1 DEF StoredInv, Purses

\* An exchange takes from the one what it gives to the other.
LEMMA ExchangeKeepsSum ==
  ASSUME StoredInv, NEW p \in Player, Exchange(p)
  PROVE  SumFunctionOnSet(Worth(money', spent'), Player) = SumFunctionOnSet(InitMoney, Player)
<1> DEFINE q == trade[p].trader
           a == trade[p].gold
           b == trade[q].gold
           f == Worth(money, spent)
           g == [f EXCEPT ![p] = f[p] - a + b]
           h == Worth(money', spent')
<1>0. GoodsInv
  BY DEF StoredInv
<1>1. /\ trade[p] # None /\ q \in Player /\ q # p
      /\ a \in Int /\ b \in Int
  BY <1>0, GoodsInvTypes, TheTrader DEF Exchange, ReadyToExchange, TradeData, Money
<1>2. /\ money \in [Player -> Money] /\ spent \in [Player -> 0 .. MaxLosses]
  BY DEF StoredInv, GoodsInv, TypeOK
<1>3. /\ money' = [money EXCEPT ![p] = money[p] - a + b, ![q] = money[q] - b + a]
      /\ money[p] - a + b \in Money /\ money[q] - b + a \in Money
      /\ spent' = spent
  BY <1>0, <1>1, <1>2, GoodsInvTypes, MoneyOfTheTwo DEF Exchange
<1>4. \A r \in Player : f[r] \in Int /\ f[r] = money[r] + spent[r]
  BY <1>2 DEF Worth, Money
<1>5. \A r \in Player : g[r] \in Int
  BY <1>1, <1>4 DEF Worth
<1>6. \A r \in Player : h[r] = money'[r] + spent[r]
  BY <1>3 DEF Worth
<1>7. /\ g[p] = f[p] - a + b /\ \A r \in Player \ {p} : g[r] = f[r]
  BY DEF Worth
<1> HIDE DEF f, g, h
<1>8. h[q] = f[q] - b + a /\ h[p] = g[p]
  BY <1>1, <1>2, <1>3, <1>4, <1>6, <1>7 DEF Money
<1>9. \A r \in Player \ {q} : h[r] = g[r]
  BY <1>1, <1>2, <1>3, <1>4, <1>6, <1>7, <1>8
<1>10. \A r \in Player : h[r] \in Int
  BY <1>1, <1>4, <1>5, <1>8, <1>9
<1>11. SumFunctionOnSet(g, Player) = SumFunctionOnSet(f, Player) - f[p] + g[p]
  BY <1>4, <1>5, <1>7, SumUpdate, TradeAssumption
<1>12. SumFunctionOnSet(h, Player) = SumFunctionOnSet(g, Player) - g[q] + h[q]
  <2>1. \A r \in Player : g[r] \in Int /\ h[r] \in Int
    BY <1>5, <1>10
  <2>2. IsFiniteSet(Player) /\ q \in Player
    BY <1>1, TradeAssumption
  <2> HIDE DEF q
  <2> QED
    BY <1>9, <2>1, <2>2, SumUpdate
<1>13. SumFunctionOnSet(f, Player) \in Int
  BY <1>4, SumUnfolds, TradeAssumption
<1>14. SumFunctionOnSet(h, Player) = SumFunctionOnSet(f, Player)
  BY <1>1, <1>4, <1>7, <1>8, <1>11, <1>12, <1>13
<1> QED
  BY <1>14 DEF f, h, StoredInv, Purses


LEMMA PursesStep ==
  ASSUME StoredInv, Next
  PROVE  Purses'
<1>1. /\ GoodsInv /\ TypeOK /\ Chain /\ Workers = 1
      /\ \A r \in Player : money[r] + spent[r] = Saved.money[r] + Saved.spent[r]
      /\ \A d \in AllTables : SumFunctionOnSet(Worth(d.money, d.spent), Player) = SumFunctionOnSet(InitMoney, Player)
  BY DEF StoredInv, GoodsInv, Purses
<1>2. ASSUME UNCHANGED <<db, saves>>, \A r \in Player : money'[r] + spent'[r] = money[r] + spent[r] PROVE Purses'
  BY <1>1, <1>2, SameSaves, SameWorth DEF Purses
<1>3. ASSUME SumFunctionOnSet(Worth(money', spent'), Player) = SumFunctionOnSet(InitMoney, Player),
             AllTables' = AllTables \cup {Saved'},
             \A r \in Player : money'[r] + spent'[r] = Saved'.money[r] + Saved'.spent[r]
      PROVE  Purses'
  <2>1. SumFunctionOnSet(Worth(Saved'.money, Saved'.spent), Player) = SumFunctionOnSet(InitMoney, Player)
    <3>1. Worth(money', spent') = Worth(Saved'.money, Saved'.spent)
      BY <1>3 DEF Worth
    <3> QED
      BY <1>3, <3>1
  <2> QED
    BY <1>1, <1>3, <2>1 DEF Purses
<1>4. ASSUME NEW p \in Player, Exchange(p) PROVE Purses'
  <2> DEFINE q == trade[p].trader
             S == {p, q}
  <2>1. /\ q \in Player /\ money \in [Player -> Money] /\ spent' = spent
        /\ money' = [money EXCEPT ![p] = money[p] - trade[p].gold + trade[q].gold,
                                  ![q] = money[q] - trade[q].gold + trade[p].gold]
    BY <1>1, <1>4, ExchangedMoney DEF TypeOK
  <2>2. \A r \in Player \ S : money'[r] = money[r]
    BY <2>1
  <2>3. AllTables' = AllTables \cup {Saved'} /\ SavedAs(Saved', Saved, S, inv', money')
    BY <1>1, <1>4, ExchangeCommits
  <2> HIDE DEF S
  <2>4. \A r \in Player : money'[r] + spent'[r] = Saved'.money[r] + Saved'.spent[r]
    BY <1>1, <2>1, <2>2, <2>3 DEF SavedAs
  <2> QED
    BY <1>3, <1>4, <2>3, <2>4, ExchangeKeepsSum
<1>5. ASSUME NEW p \in Player, SaveToDB(p) PROVE Purses'
  <2>1. /\ AllTables' = AllTables \cup {Saved'} /\ SavedAs(Saved', Saved, {p}, inv, money)
        /\ money' = money /\ spent' = spent
    BY <1>1, <1>5, SaveCommits
  <2>2. \A r \in Player : money'[r] + spent'[r] = Saved'.money[r] + Saved'.spent[r]
    BY <1>1, <2>1 DEF SavedAs
  <2> QED
    BY <1>3, <2>1, <2>2, SameWorth
<1>6. ASSUME NEW p \in Player, Spend(p) PROVE Purses'
  <2>1. money[p] \in Int /\ money[p] > 0 /\ spent[p] \in Int
    BY <1>1, <1>6 DEF Spend, TypeOK, Money
  <2>2. Pay(money[p], 1) = money[p] - 1
    BY <2>1 DEF Pay
  <2>3. money' = [money EXCEPT ![p] = money[p] - 1] /\ spent' = [spent EXCEPT ![p] = spent[p] + 1]
    BY <1>6, <2>2 DEF Spend
  <2>4. \A r \in Player : money'[r] + spent'[r] = money[r] + spent[r]
    BY <1>1, <2>1, <2>3 DEF TypeOK
  <2> QED
    BY <1>2, <1>6, <2>4 DEF Spend
<1>7. ASSUME NEW p \in Player, NEW i \in Item, DestroyItemCount(p, i) PROVE Purses'
  BY <1>2, <1>7 DEF DestroyItemCount
<1>8. ASSUME ExecuteTransaction PROVE Purses'
  <2>1. AllTables' \subseteq AllTables /\ Saved' = Saved /\ money' = money /\ spent' = spent
    BY <1>1, <1>8, ExecutedInOrder DEF ExecuteTransaction
  <2> QED
    BY <1>1, <2>1, SameWorth DEF Purses
<1>9. ASSUME Restart PROVE Purses'
  <2>1. /\ money' = db.money /\ spent' = db.spent /\ db \in AllTables
        /\ AllTables' = {db} /\ Saved' = db
    BY <1>9 DEF Restart, AllTables, Saved
  <2> QED
    BY <1>1, <2>1 DEF Purses
<1>10. CASE UNCHANGED <<inv, money, spent, db, saves>>
  BY <1>2, <1>10
<1> QED
  BY <1>4, <1>5, <1>6, <1>7, <1>8, <1>9, <1>10, GoodsSteps

LEMMA BagsStep ==
  ASSUME StoredInv, Next
  PROVE  Bags'
<1>1. /\ GoodsInv /\ TypeOK /\ Chain /\ Workers = 1
      /\ \A i \in Item : inv.place[i] # None =>
           /\ Saved.inv.place[i] = inv.place[i]
           /\ InitPlace[i] # None => \A d \in AllTables : d.inv.place[i] # None
  BY DEF StoredInv, GoodsInv, Bags
<1>2. ASSUME UNCHANGED <<db, saves>>, \A i \in Item : inv'.place[i] # None => inv'.place[i] = inv.place[i]
      PROVE  Bags'
  BY <1>1, <1>2, SameSaves DEF Bags
<1>3. ASSUME NEW S, SavedAs(Saved', Saved, S, inv', money'), AllTables' = AllTables \cup {Saved'},
             \A i \in Item : inv'.place[i] # None =>
               /\ inv'.place[i] \in S \/ inv'.place[i] = inv.place[i]
               /\ InitPlace[i] # None => inv.place[i] # None
      PROVE  Bags'
  <2>1. ASSUME NEW i \in Item, inv'.place[i] # None PROVE Saved'.inv.place[i] = inv'.place[i]
    <3>1. inv'.place[i] \in S \/ (inv'.place[i] = inv.place[i] /\ Saved.inv.place[i] = inv'.place[i])
      BY <1>1, <1>3, <2>1
    <3> QED
      BY <1>3, <3>1 DEF SavedAs
  <2>2. ASSUME NEW i \in Item, inv'.place[i] # None, InitPlace[i] # None, NEW d \in AllTables'
        PROVE  d.inv.place[i] # None
    BY <1>1, <1>3, <2>1, <2>2
  <2> QED
    BY <2>1, <2>2 DEF Bags
<1>4. ASSUME NEW p \in Player, Exchange(p) PROVE Bags'
  <2> DEFINE q == trade[p].trader
             S == {p, q}
  <2>1. SavedAs(Saved', Saved, S, inv', money') /\ AllTables' = AllTables \cup {Saved'} /\ q \in Player
    BY <1>1, <1>4, ExchangeCommits, ExchangedMoney
  <2>2. ASSUME NEW i \in Item, inv'.place[i] # None
        PROVE  /\ inv'.place[i] \in S \/ inv'.place[i] = inv.place[i]
               /\ InitPlace[i] # None => inv.place[i] # None
    BY <1>1, <1>4, <2>1, <2>2, ExchangedItem, TradeAssumption
  <2> HIDE DEF S
  <2> QED
    BY <1>3, <2>1, <2>2
<1>5. ASSUME NEW p \in Player, SaveToDB(p) PROVE Bags'
  <2>1. inv' = inv /\ money' = money
    BY <1>1, <1>5, SaveCommits
  <2>2. SavedAs(Saved', Saved, {p}, inv', money') /\ AllTables' = AllTables \cup {Saved'}
    BY <1>1, <1>5, <2>1, SaveCommits
  <2> QED
    BY <1>3, <2>1, <2>2
<1>6. ASSUME NEW p \in Player, NEW i \in Item, DestroyItemCount(p, i) PROVE Bags'
  <2>1. inv \in Inventory /\ p # None
    BY <1>1, TradeAssumption DEF TypeOK
  <2>2. \A j \in Item : inv'.place[j] # None => inv'.place[j] = inv.place[j]
    BY <1>6, <2>1 DEF DestroyItemCount, Inventory
  <2> QED
    BY <1>2, <1>6, <2>2 DEF DestroyItemCount
<1>7. ASSUME NEW p \in Player, Spend(p) PROVE Bags'
  BY <1>2, <1>7 DEF Spend
<1>8. ASSUME ExecuteTransaction PROVE Bags'
  <2>1. AllTables' \subseteq AllTables /\ Saved' = Saved /\ inv' = inv
    BY <1>1, <1>8, ExecutedInOrder DEF ExecuteTransaction
  <2> QED
    BY <1>1, <2>1 DEF Bags
<1>9. ASSUME Restart PROVE Bags'
  <2>1. inv' = db.inv /\ AllTables' = {db} /\ Saved' = db
    BY <1>9 DEF Restart, AllTables, Saved
  <2> QED
    BY <2>1 DEF Bags
<1>10. CASE UNCHANGED <<inv, money, spent, db, saves>>
  BY <1>2, <1>10
<1> QED
  BY <1>4, <1>5, <1>6, <1>7, <1>8, <1>9, <1>10, GoodsSteps

\* An offer outlives a step in which the bags stay as they are.
LEMMA OffersWithSameBags ==
  ASSUME GoodsInv, Next, UNCHANGED inv
  PROVE  Offers'
<1> SUFFICES ASSUME NEW p \in Player, trade'[p] # None
             PROVE  /\ \A i \in Item : InitPlace[i] = None => inv.place[i] # p
                    /\ \A s \in AnySlot : LET i == trade'[p].items[s] IN
                         i # None => InitPlace[i] # None /\ inv.place[i] \in {p, None}
                    /\ \A s, r \in AnySlot :
                         trade'[p].items[s] # None /\ trade'[p].items[r] = trade'[p].items[s] => r = s
  BY DEF Offers
<1>1. SlotsStep(p)
  BY GoodsInvTypes, SlotsChange
<1>2. CASE trade[p] # None /\ trade'[p].items = trade[p].items
  BY <1>2 DEF GoodsInv, Offers
<1>3. CASE /\ trade[p] # None
           /\ \E s \in AnySlot, i \in Has(inv, p) \cup {None} :
                /\ trade'[p].items = [trade[p].items EXCEPT ![s] = i]
                /\ i # None => \A x \in AnySlot : trade[p].items[x] # i
  <2>1. PICK s \in AnySlot, i \in Has(inv, p) \cup {None} :
          /\ trade'[p].items = [trade[p].items EXCEPT ![s] = i]
          /\ i # None => \A x \in AnySlot : trade[p].items[x] # i
    BY <1>3
  <2>2. trade[p].items \in [AnySlot -> Item \cup {None}]
    BY <1>3, GoodsInvTypes, TheTrader DEF TradeData
  <2>3. /\ trade'[p].items[s] = i
        /\ \A x \in AnySlot \ {s} : trade'[p].items[x] = trade[p].items[x]
    BY <2>1, <2>2
  <2>4. i # None => i \in Item /\ inv.place[i] = p
    BY DEF Has
  <2>5. /\ \A j \in Item : InitPlace[j] = None => inv.place[j] # p
        /\ \A x \in AnySlot : LET j == trade[p].items[x] IN j # None => InitPlace[j] # None /\ inv.place[j] \in {p, None}
        /\ \A x, y \in AnySlot : trade[p].items[x] # None /\ trade[p].items[y] = trade[p].items[x] => y = x
    BY <1>3 DEF GoodsInv, Offers
  <2> QED
    BY <2>1, <2>3, <2>4, <2>5
<1>4. CASE /\ trade[p] = None /\ trade'[p].items = [s \in AnySlot |-> None]
           /\ \A i \in Item : InitPlace[i] = None => inv.place[i] = None
  BY <1>4, TradeAssumption
<1> QED
  BY <1>1, <1>2, <1>3, <1>4 DEF SlotsStep

LEMMA OffersStep ==
  ASSUME GoodsInv, Next
  PROVE  Offers'
<1>1. CASE UNCHANGED inv
  BY <1>1, OffersWithSameBags
<1>2. ASSUME NEW p \in Player, Exchange(p) PROVE Offers'
  <2> DEFINE q == trade[p].trader
  <2>1. ASSUME NEW r \in Player, trade'[r] # None PROVE r \notin {p, q} /\ trade'[r] = trade[r]
    BY <1>2, <2>1 DEF Exchange, GoodsInv, TypeOK
  <2>2. ASSUME NEW r \in Player \ {p, q}, NEW i \in Item PROVE inv'.place[i] = r => inv.place[i] = r
    BY <1>2, <2>2, TradeAssumption, ExchangedItem
  <2>3. ASSUME NEW r \in Player \ {p, q}, NEW i \in Item, InitPlace[i] # None, inv.place[i] \in {r, None}
        PROVE  inv'.place[i] \in {r, None}
    <3>1. p # None /\ q # None
      BY <1>2, GoodsInvTypes, TheTrader, TradeAssumption DEF Exchange, ReadyToExchange
    <3> QED
      BY <1>2, <2>3, <3>1, ExchangedItem
  <2>4. ASSUME NEW r \in Player, trade'[r] # None
        PROVE  /\ \A i \in Item : InitPlace[i] = None => inv'.place[i] # r
               /\ \A s \in AnySlot : LET i == trade'[r].items[s] IN
                    i # None => InitPlace[i] # None /\ inv'.place[i] \in {r, None}
               /\ \A s, x \in AnySlot :
                    trade'[r].items[s] # None /\ trade'[r].items[x] = trade'[r].items[s] => x = s
    <3>1. r \in Player \ {p, q} /\ trade'[r] = trade[r] /\ trade[r] # None
      BY <2>1, <2>4
    <3>2. trade[r].items \in [AnySlot -> Item \cup {None}]
      BY <3>1, GoodsInvTypes, TheTrader DEF TradeData
    <3>3. /\ \A j \in Item : InitPlace[j] = None => inv.place[j] # r
          /\ \A x \in AnySlot : LET j == trade[r].items[x] IN j # None => InitPlace[j] # None /\ inv.place[j] \in {r, None}
          /\ \A x, y \in AnySlot : trade[r].items[x] # None /\ trade[r].items[y] = trade[r].items[x] => y = x
      BY <3>1 DEF GoodsInv, Offers
    <3> QED
      BY <2>2, <2>3, <3>1, <3>2, <3>3
  <2> QED
    BY <2>4 DEF Offers
<1>3. ASSUME NEW p \in Player, NEW i \in Item, DestroyItemCount(p, i) PROVE Offers'
  <2>1. \A j \in Item : inv'.place[j] \in {inv.place[j], None}
    <3>1. inv \in Inventory
      BY DEF GoodsInv, TypeOK
    <3> QED
      BY <1>3, <3>1 DEF DestroyItemCount, Inventory
  <2>2. ASSUME NEW r \in Player, trade'[r] # None PROVE trade[r] # None /\ trade'[r].items = trade[r].items
    <3>1. SlotsStep(r)
      BY <2>2, GoodsInvTypes, SlotsChange
    <3>2. inv' # inv
      <4>1. inv.count[i] \in Nat /\ inv.count[i] > 0
        BY <1>3, TradeAssumption DEF DestroyItemCount, GoodsInv, TypeOK, Inventory, Stacks, Sound
      <4>2. inv'.count[i] # inv.count[i]
        BY <1>3, <4>1 DEF DestroyItemCount, GoodsInv, TypeOK, Inventory
      <4> QED
        BY <4>2
    <3> QED
      BY <3>1, <3>2 DEF SlotsStep
  <2>3. ASSUME NEW r \in Player, trade'[r] # None
        PROVE  /\ \A j \in Item : InitPlace[j] = None => inv'.place[j] # r
               /\ \A s \in AnySlot : LET j == trade'[r].items[s] IN
                    j # None => InitPlace[j] # None /\ inv'.place[j] \in {r, None}
               /\ \A s, x \in AnySlot :
                    trade'[r].items[s] # None /\ trade'[r].items[x] = trade'[r].items[s] => x = s
    <3>1. trade[r] # None /\ trade'[r].items = trade[r].items
      BY <2>2, <2>3
    <3>2. trade[r].items \in [AnySlot -> Item \cup {None}]
      BY <3>1, GoodsInvTypes, TheTrader DEF TradeData
    <3>3. /\ \A j \in Item : InitPlace[j] = None => inv.place[j] # r
          /\ \A x \in AnySlot : LET j == trade[r].items[x] IN j # None => InitPlace[j] # None /\ inv.place[j] \in {r, None}
          /\ \A x, y \in AnySlot : trade[r].items[x] # None /\ trade[r].items[y] = trade[r].items[x] => y = x
      BY <3>1 DEF GoodsInv, Offers
    <3> QED
      BY <2>1, <3>1, <3>2, <3>3, TradeAssumption
  <2> QED
    BY <2>3 DEF Offers
<1>4. ASSUME Restart PROVE Offers'
  BY <1>4 DEF Restart, Offers
<1> QED
  BY <1>1, <1>2, <1>3, <1>4, GoodsSteps DEF SaveToDB, Spend, ExecuteTransaction

-----------------------------------------------------------------------------
(* All that is offered is stored where the limits allow it. *)

\* An offered item has a place with o and is within the limit, if o has only what the
\* trade leaves and other offered items.
LEMMA OfferedCanBeStored ==
  ASSUME GoodsInv, NEW r \in Player, NEW o \in Player, NEW T, NEW w \in Inventory, w.count = inv.count,
         Offered(r) \in SUBSET Item, NEW i \in Offered(r), LimitAllows(r, o),
         CanStoreItems(o, Offered(r), T),
         Has(w, o) \subseteq (Has(inv, o) \ T) \cup (Offered(r) \ {i})
  PROVE  CanStoreItem(w, o, i, 0)
<1> DEFINE k == KindOf[i]
           A == {j \in Has(w, o) \ {i} : KindOf[j] = k}
           C == A \cup {i}
           B == {j \in Has(inv, o) \cup Offered(r) : KindOf[j] = k}
           U == Has(inv, o) \ T
           V == Offered(r) \ {i}
<1>1. i \in Item /\ Limit[k] \in Nat
  BY TradeAssumption
<1>2. \A j \in Item : inv.count[j] \in Nat /\ inv.count[j] \in Int
  BY DEF GoodsInv, TypeOK, Inventory
<1>3. /\ B \in SUBSET Item /\ C \in SUBSET B /\ C \ {i} = A
      /\ U \in SUBSET Item /\ V \in SUBSET Item
  BY <1>1 DEF Has
<1>4. /\ IsFiniteSet(B) /\ IsFiniteSet(C) /\ IsFiniteSet(A) /\ IsFiniteSet(U) /\ IsFiniteSet(V)
      /\ IsFiniteSet(Offered(r)) /\ IsFiniteSet(U \cup V)
  BY <1>3, FS_Subset, FS_Union, TradeAssumption
<1>5. Limit[k] > 0 => SumFunctionOnSet(inv.count, B) <= Limit[k]
  BY DEF LimitAllows
<1>6. SumFunctionOnSet(inv.count, C) <= SumFunctionOnSet(inv.count, B)
  <2>1. \A j \in B : inv.count[j] \in Nat
    BY <1>2, <1>3
  <2> HIDE DEF B, C
  <2> QED
    BY <1>3, <1>4, <2>1, SumOfPart
<1>7. SumFunctionOnSet(inv.count, C) = inv.count[i] + SumFunctionOnSet(inv.count, A)
  <2>1. (\A j \in C : inv.count[j] \in Int) /\ i \in C
    BY <1>2, <1>3
  <2> HIDE DEF C, A
  <2>2. SumFunctionOnSet(inv.count, C) = inv.count[i] + SumFunctionOnSet(inv.count, C \ {i})
    BY <1>4, <2>1, SumRemove
  <2> QED
    BY <1>3, <2>2
<1>8. /\ SumFunctionOnSet(inv.count, A) \in Int /\ SumFunctionOnSet(inv.count, B) \in Int
      /\ SumFunctionOnSet(inv.count, C) \in Int
  <2>1. /\ \A j \in B : inv.count[j] \in Int
        /\ \A j \in C : inv.count[j] \in Int
        /\ \A j \in A : inv.count[j] \in Int
    BY <1>2, <1>3
  <2> HIDE DEF A, B, C
  <2> QED
    BY <1>4, <2>1, SumUnfolds
<1>9. CanTakeMoreSimilarItems(w, o, i)
  <2>1. Limit[k] = 0 \/ SumFunctionOnSet(inv.count, A) + inv.count[i] <= Limit[k]
    <3>1. inv.count[i] \in Int
      BY <1>1, <1>2
    <3> HIDE DEF A, B, C, k
    <3> QED
      BY <1>1, <1>5, <1>6, <1>7, <1>8, <3>1
  <2> QED
    BY <2>1 DEF CanTakeMoreSimilarItems
<1>10. Cardinality(Has(w, o)) < Capacity[o]
  <2>1. Cardinality(U) + Cardinality(Offered(r)) <= Capacity[o] /\ Capacity[o] \in Nat
    BY TradeAssumption DEF CanStoreItems
  <2>2. Cardinality(V) = Cardinality(Offered(r)) - 1
    BY <1>4, FS_RemoveElement
  <2>3. Cardinality(Has(w, o)) <= Cardinality(U \cup V) /\ Cardinality(Has(w, o)) \in Nat
    <3>1. Has(w, o) \in SUBSET (U \cup V)
      OBVIOUS
    <3> HIDE DEF U, V
    <3> QED
      BY <1>4, <3>1, FS_Subset, FS_CardinalityType
  <2>4. Cardinality(U \cup V) = Cardinality(U) + Cardinality(V) - Cardinality(U \cap V)
    BY <1>4, FS_Union
  <2>5. /\ Cardinality(U) \in Nat /\ Cardinality(V) \in Nat /\ Cardinality(U \cap V) \in Nat
        /\ Cardinality(Offered(r)) \in Nat /\ Cardinality(U \cup V) \in Nat
    <3>1. IsFiniteSet(U \cap V)
      BY <1>4, FS_Subset
    <3> QED
      BY <1>4, <3>1, FS_CardinalityType
  <2> HIDE DEF U, V
  <2> QED
    BY <2>1, <2>2, <2>3, <2>4, <2>5
<1>11. Cardinality(Has(w, o)) + 0 < Capacity[o]
  <2>1. IsFiniteSet(Has(w, o))
    BY FS_Subset, TradeAssumption DEF Has
  <2>2. Cardinality(Has(w, o)) \in Nat
    BY <2>1, FS_CardinalityType
  <2> QED
    BY <1>10, <2>2
<1> QED
  BY <1>9, <1>11 DEF CanStoreItem

\* The bags when the slots of S have had their turn: v with the items of those slots at
\* the other player's.
StoredAfter(S, w, v, p, q, mine, his) ==
  /\ w \in Inventory /\ w.count = v.count
  /\ \A i \in Item : w.place[i] = IF \E s \in S : mine[s] = i THEN q
                                  ELSE IF \E s \in S : his[s] = i THEN p ELSE v.place[i]

\* Two moves make the turn of a slot.
LEMMA StoredOneMore ==
  ASSUME NEW S, NEW m \in S, NEW w, NEW v, NEW p \in Player, NEW q \in Player,
         NEW mine, NEW his, mine[m] \in Item \cup {None}, his[m] \in Item \cup {None},
         \A s \in S : mine[s] # None => mine[s] # his[m],
         StoredAfter(S \ {m}, w, v, p, q, mine, his)
  PROVE  StoredAfter(S, MoveItemToInventory(MoveItemToInventory(w, q, mine[m]), p, his[m]), v, p, q, mine, his)
<1> DEFINE u == MoveItemToInventory(w, q, mine[m])
           x == MoveItemToInventory(u, p, his[m])
<1>1. w \in Inventory /\ w.count = v.count /\ None \notin Item
  BY TradeAssumption DEF StoredAfter
<1>2. /\ u \in Inventory /\ u.count = v.count
      /\ \A i \in Item : u.place[i] = IF mine[m] = i THEN q ELSE w.place[i]
  BY <1>1 DEF MoveItemToInventory, Inventory
<1> HIDE DEF u
<1>3. /\ x \in Inventory /\ x.count = v.count
      /\ \A i \in Item : x.place[i] = IF his[m] = i THEN p ELSE u.place[i]
  BY <1>1, <1>2 DEF MoveItemToInventory, Inventory
<1> HIDE DEF x
<1>4. ASSUME NEW i \in Item
      PROVE  x.place[i] = IF \E s \in S : mine[s] = i THEN q
                          ELSE IF \E s \in S : his[s] = i THEN p ELSE v.place[i]
  <2>1. w.place[i] = IF \E s \in S \ {m} : mine[s] = i THEN q
                     ELSE IF \E s \in S \ {m} : his[s] = i THEN p ELSE v.place[i]
    BY DEF StoredAfter
  <2>2. x.place[i] = IF his[m] = i THEN p ELSE IF mine[m] = i THEN q ELSE w.place[i]
    BY <1>2, <1>3
  <2>3. his[m] = i => ~ \E s \in S : mine[s] = i
    BY <1>1
  <2> QED
    BY <2>1, <2>2, <2>3
<1> QED
  BY <1>3, <1>4 DEF StoredAfter, u, x

\* Where the limits allow all that is offered together, moveItems stores all of it.
LEMMA AllIsStored ==
  ASSUME GoodsInv, NEW p \in Player, Exchange(p),
         LimitAllows(p, trade[p].trader), LimitAllows(trade[p].trader, p)
  PROVE  /\ inv'.count = inv.count
         /\ \A i \in Item : inv'.place[i] = IF i \in Offered(p) THEN trade[p].trader
                                            ELSE IF i \in Offered(trade[p].trader) THEN p ELSE inv.place[i]
<1> DEFINE q == trade[p].trader
           G == Offered(p) \cup Offered(q)
           removed == [inv EXCEPT !.place = [i \in Item |-> IF i \in G THEN None ELSE @[i]]]
           mine == [s \in Slot |-> GetItem(p, s)]
           his == [s \in Slot |-> GetItem(q, s)]
<1>1. /\ trade[p] # None /\ q \in Player /\ q # p /\ trade[q] # None /\ p # None /\ q # None
      /\ trade[p].items \in [AnySlot -> Item \cup {None}] /\ trade[q].items \in [AnySlot -> Item \cup {None}]
  BY GoodsInvTypes, TheTrader, TradeAssumption DEF Exchange, ReadyToExchange, TradeData
<1>2. ASSUME NEW r \in {p, q}, NEW s \in Slot
      PROVE  /\ GetItem(r, s) \in Item \cup {None}
             /\ GetItem(r, s) # None => inv.place[GetItem(r, s)] = r /\ GetItem(r, s) = trade[r].items[s] /\ s \in AnySlot
  <2>1. s \in AnySlot
    BY DEF AnySlot
  <2> QED
    BY <1>1, <2>1 DEF GetItem
<1>3. ASSUME NEW r \in {p, q}, NEW s \in Slot, NEW x \in Slot, GetItem(r, s) # None, GetItem(r, x) = GetItem(r, s)
      PROVE  x = s
  <2>1. /\ trade[r].items[s] = GetItem(r, s) /\ trade[r].items[x] = GetItem(r, s)
        /\ s \in AnySlot /\ x \in AnySlot /\ r \in Player /\ trade[r] # None
    BY <1>1, <1>2, <1>3
  <2> QED
    BY <1>3, <2>1 DEF GoodsInv, Offers
<1>4. /\ mine \in [Slot -> Item \cup {None}] /\ his \in [Slot -> Item \cup {None}]
      /\ \A s \in Slot : mine[s] # None => inv.place[mine[s]] = p /\ mine[s] \in Offered(p)
      /\ \A s \in Slot : his[s] # None => inv.place[his[s]] = q /\ his[s] \in Offered(q)
      /\ \A s, x \in Slot : mine[s] # None /\ mine[x] = mine[s] => x = s
      /\ \A s, x \in Slot : his[s] # None /\ his[x] = his[s] => x = s
  BY <1>2, <1>3 DEF Offered
<1>5. /\ Offered(p) \in SUBSET Item /\ Offered(q) \in SUBSET Item
      /\ \A i \in Offered(p) : inv.place[i] = p /\ \E s \in Slot : mine[s] = i
      /\ \A i \in Offered(q) : inv.place[i] = q /\ \E s \in Slot : his[s] = i
  BY <1>2 DEF Offered
<1>6. inv \in Inventory
  BY DEF GoodsInv, TypeOK
<1>7. inv' = moveItems(removed, p, q, mine, his) /\ Fit(p)
  BY DEF Exchange
<1> HIDE DEF mine, his
<1>8. /\ removed \in Inventory /\ removed.count = inv.count
      /\ \A i \in Item : removed.place[i] = IF i \in G THEN None ELSE inv.place[i]
  BY <1>6 DEF Inventory
<1>9. CanStoreItems(q, Offered(p), G) /\ CanStoreItems(p, Offered(q), G)
  BY <1>7 DEF Fit
<1> HIDE DEF removed
<1>10. PICK h : MoveFold(removed, p, q, mine, his, h)
  BY <1>1, <1>4, <1>8, MoveItemsUnfolds
<1> DEFINE A == {S \in SUBSET Slot : StoredAfter(S, h[S], removed, p, q, mine, his)}
<1>11. ASSUME NEW S \in SUBSET Slot, \A T \in SUBSET S : T # S => T \in A PROVE S \in A
  <2>1. CASE S = {}
    BY <1>8, <1>10, <2>1 DEF StoredAfter, MoveFold
  <2>2. CASE S # {}
    <3> DEFINE m == Max(S)
               w == h[S \ {m}]
    <3>1. m \in S /\ m \in Slot
      BY <2>2, LastSlot
    <3>2. h[S] = MoveSlot(w, p, q, mine[m], his[m])
      BY <1>10, <2>2 DEF MoveFold
    <3>3. StoredAfter(S \ {m}, w, removed, p, q, mine, his)
      BY <1>11, <3>1
    <3> HIDE DEF m, w
    <3>4. w \in Inventory /\ w.count = inv.count
      BY <1>8, <3>3 DEF StoredAfter
    <3>5. ASSUME NEW i \in Item
          PROVE  w.place[i] = IF \E s \in S \ {m} : mine[s] = i THEN q
                              ELSE IF \E s \in S \ {m} : his[s] = i THEN p
                              ELSE IF i \in G THEN None ELSE inv.place[i]
      BY <1>8, <3>3 DEF StoredAfter
    <3>6. ASSUME mine[m] # None PROVE CanStoreItem(w, q, mine[m], 0)
      <4>1. mine[m] \in Item /\ mine[m] \in Offered(p) /\ inv.place[mine[m]] = p
        BY <1>4, <3>1, <3>6
      <4>2. ASSUME NEW j \in Item, w.place[j] = q PROVE j \in (Has(inv, q) \ G) \cup (Offered(p) \ {mine[m]})
        <5>1. CASE \E s \in S \ {m} : mine[s] = j
          BY <1>1, <1>4, <3>1, <3>6, <5>1, TradeAssumption
        <5>2. CASE ~ \E s \in S \ {m} : mine[s] = j
          <6>1. j \notin G /\ inv.place[j] = q
            BY <1>1, <3>5, <4>2, <5>2
          <6> QED
            BY <6>1 DEF Has
        <5> QED
          BY <5>1, <5>2
      <4>3. Has(w, q) \subseteq (Has(inv, q) \ G) \cup (Offered(p) \ {mine[m]})
        BY <4>2 DEF Has
      <4> HIDE DEF G, q
      <4> QED
        BY <1>1, <1>5, <1>9, <3>4, <4>1, <4>3, OfferedCanBeStored DEF q
    <3>7. ASSUME his[m] # None PROVE CanStoreItem(w, p, his[m], 0)
      <4>1. his[m] \in Item /\ his[m] \in Offered(q) /\ inv.place[his[m]] = q
        BY <1>4, <3>1, <3>7
      <4>2. ASSUME NEW j \in Item, w.place[j] = p PROVE j \in (Has(inv, p) \ G) \cup (Offered(q) \ {his[m]})
        <5>1. CASE \E s \in S \ {m} : his[s] = j
          BY <1>1, <1>4, <3>1, <3>7, <5>1, TradeAssumption
        <5>2. CASE ~ \E s \in S \ {m} : his[s] = j
          <6>1. j \notin G /\ inv.place[j] = p
            BY <1>1, <3>5, <4>2, <5>2
          <6> QED
            BY <6>1 DEF Has
        <5> QED
          BY <5>1, <5>2
      <4>3. Has(w, p) \subseteq (Has(inv, p) \ G) \cup (Offered(q) \ {his[m]})
        BY <4>2 DEF Has
      <4> HIDE DEF G, q
      <4> QED
        BY <1>1, <1>5, <1>9, <3>4, <4>1, <4>3, OfferedCanBeStored DEF q
    <3>8. h[S] = MoveItemToInventory(MoveItemToInventory(w, q, mine[m]), p, his[m])
      BY <3>2, <3>6, <3>7 DEF MoveSlot
    <3>9. ASSUME NEW s \in S, mine[s] # None PROVE mine[s] # his[m]
      BY <1>1, <1>4, <3>1, <3>9
    <3>10. StoredAfter(S, h[S], removed, p, q, mine, his)
      <4>1. mine[m] \in Item \cup {None} /\ his[m] \in Item \cup {None}
        BY <1>4, <3>1
      <4> HIDE DEF q
      <4> QED
        BY <1>1, <3>1, <3>3, <3>8, <3>9, <4>1, StoredOneMore
    <3> QED
      BY <3>10
  <2> QED
    BY <2>1, <2>2
<1>12. A \in SUBSET (SUBSET Slot) /\ IsFiniteSet(Slot)
  BY FS_Interval, TradeAssumption DEF Slot
<1>13. Slot \in A
  <2> HIDE DEF A
  <2> QED
    BY <1>11, <1>12, SubsetInduction
<1>14. StoredAfter(Slot, inv', removed, p, q, mine, his)
  BY <1>7, <1>10, <1>13 DEF MoveFold
<1>15. inv'.count = inv.count
  BY <1>8, <1>14 DEF StoredAfter
<1>16. ASSUME NEW i \in Item
       PROVE  inv'.place[i] = IF i \in Offered(p) THEN q ELSE IF i \in Offered(q) THEN p ELSE inv.place[i]
  <2>1. inv'.place[i] = IF \E s \in Slot : mine[s] = i THEN q
                        ELSE IF \E s \in Slot : his[s] = i THEN p
                        ELSE IF i \in G THEN None ELSE inv.place[i]
    BY <1>8, <1>14 DEF StoredAfter
  <2>2. (\E s \in Slot : mine[s] = i) <=> i \in Offered(p)
    BY <1>4, <1>5, TradeAssumption
  <2>3. (\E s \in Slot : his[s] = i) <=> i \in Offered(q)
    BY <1>4, <1>5, TradeAssumption
  <2> QED
    BY <2>1, <2>2, <2>3
<1> QED
  BY <1>15, <1>16

-----------------------------------------------------------------------------
(* The theorems. *)

\* TradeInv is an invariant: it is inductive.
THEOREM TradeInvariant == Spec => []TradeInv
<1>1. Init => TradeInv
  BY DEF Init, TradeInv, Trades, TradesArePaired
<1>2. TradeInv /\ [Next]_vars => TradeInv'
  <2>1. ASSUME TradeInv, Next PROVE TradeInv'
    BY <2>1, StepShape, StepKeepsPairs DEF TradeInv
  <2>2. ASSUME TradeInv, UNCHANGED vars PROVE TradeInv'
    BY <2>2 DEF vars, TradeInv, TradesArePaired
  <2> QED
    BY <2>1, <2>2
<1> QED
  BY <1>1, <1>2, PTL DEF Spec

\* Trades come in pairs: GetTraderData never returns null and no player is in two
\* trades, with any number of players.
THEOREM PairsOnly == Spec => []TradesArePaired
BY TradeInvariant, PTL DEF TradeInv

\* No handler lets an acceptance outlive the offers it was given for.
THEOREM AcceptancesAreCurrent == Spec => AcceptanceIsCurrent
<1> DEFINE Current ==
      \A p \in Player : AcceptanceStands(p) =>
        trade'[p].trader = trade[p].trader /\ OfferStands(p) /\ OfferStands(trade[p].trader)
<1>1. TradeInv /\ [Next]_vars => [Current]_vars
  <2> SUFFICES ASSUME TradeInv, Next, NEW r \in Player, AcceptanceStands(r)
               PROVE  trade'[r].trader = trade[r].trader /\ OfferStands(r) /\ OfferStands(trade[r].trader)
    OBVIOUS
  <2> DEFINE q == trade[r].trader
  <2>1. q \in Player /\ trade[q] # None /\ trade[q].trader = r /\ trade[r] # None
    BY TheTrader DEF AcceptanceStands
  <2>2. CASE OffersKept(trade, trade')
    BY <2>1, <2>2 DEF OffersKept, SameTrades, OfferStands
  <2>3. ASSUME NEW p \in Player, trade[p] # None, OfferChanged(trade, trade', p)
        PROVE  trade'[r] = trade[r] /\ trade'[q] = trade[q]
    <3>1. r # p /\ r # trade[p].trader
      BY <2>3 DEF OfferChanged, AcceptanceStands
    <3>2. q # p /\ q # trade[p].trader
      BY <2>1, <2>3, <3>1, TheTrader
    <3> QED
      BY <2>1, <2>3, <3>1, <3>2 DEF OfferChanged
  <2>4. ASSUME NEW p \in Player, Closed(trade, trade', p)
        PROVE  trade'[r] = trade[r] /\ trade'[q] = trade[q]
    <3>1. r # p /\ r # trade[p].trader
      BY <2>4 DEF Closed, AcceptanceStands
    <3>2. q # p /\ q # trade[p].trader
      BY <2>1, <2>4, <3>1, TheTrader DEF Closed
    <3> QED
      BY <2>1, <2>4, <3>1, <3>2 DEF Closed
  <2>5. ASSUME NEW p \in Player, NEW o \in Player, Opened(trade, trade', p, o)
        PROVE  trade'[r] = trade[r] /\ trade'[q] = trade[q]
    BY <2>1, <2>5 DEF Opened
  <2>6. CASE \A s \in Player : trade'[s] = None
    BY <2>6 DEF AcceptanceStands
  <2>7. ASSUME trade'[r] = trade[r], trade'[q] = trade[q]
        PROVE  trade'[r].trader = trade[r].trader /\ OfferStands(r) /\ OfferStands(q)
    BY <2>7 DEF OfferStands
  <2> QED
    BY <2>2, <2>3, <2>4, <2>5, <2>6, <2>7, StepShape DEF TradeStep
<1> QED
  BY <1>1, TradeInvariant, PTL DEF Spec, AcceptanceIsCurrent

\* GoodsInv is an invariant: it is inductive.
THEOREM GoodsInvariant == Spec => []GoodsInv
<1>1. Init => GoodsInv
  <2> SUFFICES ASSUME Init PROVE GoodsInv
    OBVIOUS
  <2>1. TypeOK
    BY TradeAssumption DEF Init, TypeOK, Inventory, Tables
  <2>2. TradesArePaired /\ Offers
    BY DEF Init, TradesArePaired, Offers
  <2>3. Stacks
    <3>1. \A i \in Item : Sound(inv, i)
      BY TradeAssumption DEF Init, Sound
    <3>2. AllTables = {db} /\ db.inv = inv
      BY DEF Init, AllTables
    <3> QED
      BY <3>1, <3>2 DEF Stacks
  <2> QED
    BY <2>1, <2>2, <2>3 DEF GoodsInv
<1>2. GoodsInv /\ [Next]_vars => GoodsInv'
  <2>1. ASSUME GoodsInv, Next PROVE GoodsInv'
    <3>1. TradesArePaired'
      BY <2>1, GoodsInvTypes, StepShape, StepKeepsPairs
    <3> QED
      BY <2>1, <3>1, TypesStep, StacksStep, OffersStep DEF GoodsInv
  <2>2. ASSUME GoodsInv, UNCHANGED vars PROVE GoodsInv'
    <3>1. AllTables' = AllTables /\ trade' = trade /\ inv' = inv
      BY <2>2, SameSaves DEF vars
    <3>2. TypeOK'
      BY <2>2 DEF vars, GoodsInv, TypeOK
    <3>3. TradesArePaired' /\ Offers'
      BY <2>2, <3>1 DEF GoodsInv, TradesArePaired, Offers
    <3>4. Stacks'
      BY <2>2, <3>1 DEF GoodsInv, Stacks
    <3> QED
      BY <3>2, <3>3, <3>4 DEF GoodsInv
  <2> QED
    BY <2>1, <2>2
<1> QED
  BY <1>1, <1>2, PTL DEF Spec

\* The variables keep their types; that nobody spends more than the bound, and that no
\* stack gets less than empty, rests on the whole invariant.
THEOREM TypeCorrect == Spec => []TypeOK
BY GoodsInvariant, PTL DEF GoodsInv

\* The tests of HandleAcceptTrade are enough: neither the limit nor the floor of
\* ModifyMoney is ever met in an exchange, which moves exactly the offered money.
THEOREM ExchangeMovesTheGold ==
  Spec => [][\A p \in Player : Exchange(p) =>
               LET q == trade[p].trader IN
               money' = [money EXCEPT ![p] = @ - trade[p].gold + trade[q].gold,
                                      ![q] = @ - trade[q].gold + trade[p].gold]]_vars
<1> DEFINE Exact ==
      \A p \in Player : Exchange(p) =>
        LET q == trade[p].trader IN
        money' = [money EXCEPT ![p] = @ - trade[p].gold + trade[q].gold,
                               ![q] = @ - trade[q].gold + trade[p].gold]
<1>1. GoodsInv /\ [Next]_vars => [Exact]_vars
  <2> SUFFICES ASSUME GoodsInv, NEW p \in Player, Exchange(p)
               PROVE  LET q == trade[p].trader IN
                      money' = [money EXCEPT ![p] = @ - trade[p].gold + trade[q].gold,
                                             ![q] = @ - trade[q].gold + trade[p].gold]
    OBVIOUS
  <2>1. trade[p].trader # p /\ money \in [Player -> Money]
    BY ExchangedMoney DEF GoodsInv, TypeOK
  <2> QED
    BY <2>1, ExchangedMoney
<1> QED
  BY <1>1, GoodsInvariant, PTL DEF Spec

\* With one worker the chain of transactions stays whole.
LEMMA ChainStep ==
  ASSUME StoredInv, Next
  PROVE  Chain'
<1>1. GoodsInv /\ TypeOK /\ Chain /\ Workers = 1
  BY DEF StoredInv, GoodsInv
<1>2. ASSUME UNCHANGED <<db, saves>> PROVE Chain'
  BY <1>1, <1>2, SameSaves
<1>3. ASSUME NEW p \in Player, Exchange(p) \/ SaveToDB(p) PROVE Chain'
  BY <1>1, <1>3, ExchangeCommits, SaveCommits
<1>4. ASSUME ExecuteTransaction PROVE Chain'
  BY <1>1, <1>4, ExecutedInOrder
<1>5. ASSUME Restart PROVE Chain'
  BY <1>5 DEF Restart, Chain
<1> QED
  BY <1>2, <1>3, <1>4, <1>5, GoodsSteps DEF Spend, DestroyItemCount

\* With one worker the tables follow what the players have: StoredInv is inductive.
THEOREM StoredInvariant == Workers = 1 /\ Spec => []StoredInv
<1>1. Workers = 1 /\ Init /\ GoodsInv => StoredInv
  <2> SUFFICES ASSUME Workers = 1, Init, GoodsInv PROVE StoredInv
    OBVIOUS
  <2>1. /\ AllTables = {db} /\ Saved = db /\ Chain
        /\ db.inv = inv /\ db.money = money /\ db.spent = spent
    BY DEF Init, AllTables, Saved, Chain
  <2>2. SumFunctionOnSet(Worth(money, spent), Player) = SumFunctionOnSet(InitMoney, Player)
    <3>1. \A r \in Player : InitMoney[r] \in Int /\ Worth(money, spent)[r] = InitMoney[r]
      BY TradeAssumption DEF Init, Worth, Money
    <3> QED
      BY <3>1, SumEqual, TradeAssumption
  <2>3. Purses /\ Bags
    BY <2>1, <2>2 DEF Purses, Bags
  <2> QED
    BY <2>1, <2>3 DEF StoredInv
<1>2. StoredInv /\ [Next]_vars /\ GoodsInv' => StoredInv'
  <2>1. ASSUME StoredInv, Next, GoodsInv' PROVE StoredInv'
    BY <2>1, ChainStep, PursesStep, BagsStep DEF StoredInv
  <2>2. ASSUME StoredInv, UNCHANGED vars, GoodsInv' PROVE StoredInv'
    <3>1. /\ AllTables' = AllTables /\ Saved' = Saved /\ Chain'
          /\ inv' = inv /\ money' = money /\ spent' = spent
      BY <2>2, SameSaves DEF vars, StoredInv
    <3>2. Purses' /\ Bags'
      BY <2>2, <3>1 DEF StoredInv, Purses, Bags
    <3> QED
      BY <2>2, <3>1, <3>2 DEF StoredInv
  <2> QED
    BY <2>1, <2>2
<1> QED
  BY <1>1, <1>2, GoodsInvariant, PTL DEF Spec

\* The sum of two functions of the players.
LEMMA SumOfWorth ==
  ASSUME NEW m \in [Player -> Money], NEW s \in [Player -> 0 .. MaxLosses]
  PROVE  SumFunctionOnSet(Worth(m, s), Player) = SumFunction(m) + SumFunction(s)
<1>1. \A r \in Player : m[r] \in Int /\ s[r] \in Int /\ Worth(m, s)[r] = m[r] + s[r]
  BY DEF Worth, Money
<1>2. SumFunctionOnSet(Worth(m, s), Player) = SumFunctionOnSet(m, Player) + SumFunctionOnSet(s, Player)
  BY <1>1, SumPlus, TradeAssumption
<1>3. DOMAIN m = Player /\ DOMAIN s = Player
  OBVIOUS
<1> QED
  BY <1>2, <1>3 DEF SumFunction

LEMMA StoredInvMeans ==
  ASSUME StoredInv
  PROVE  MoneyIsConserved /\ TradesAreDurable
<1>1. /\ money \in [Player -> Money] /\ spent \in [Player -> 0 .. MaxLosses] /\ TypeOK
  BY DEF StoredInv, GoodsInv, TypeOK
<1>2. SumFunctionOnSet(InitMoney, Player) = SumFunction(InitMoney)
  BY TradeAssumption DEF SumFunction
<1>3. SumFunction(money) + SumFunction(spent) = SumFunction(InitMoney)
  BY <1>1, <1>2, SumOfWorth DEF StoredInv, Purses
<1>4. ASSUME NEW d \in AllTables
      PROVE  /\ SumFunction(d.money) + SumFunction(d.spent) = SumFunction(InitMoney)
             /\ \A i \in Item : InitPlace[i] # None /\ inv.place[i] # None => d.inv.place[i] # None
  <2>1. d \in Tables
    BY <1>1, SavedIsTables
  <2>2. d.money \in [Player -> Money] /\ d.spent \in [Player -> 0 .. MaxLosses]
    BY <2>1 DEF Tables
  <2>3. SumFunctionOnSet(Worth(d.money, d.spent), Player) = SumFunctionOnSet(InitMoney, Player)
    BY DEF StoredInv, Purses
  <2>4. SumFunction(d.money) + SumFunction(d.spent) = SumFunction(InitMoney)
    BY <1>2, <2>2, <2>3, SumOfWorth
  <2> QED
    BY <2>4 DEF StoredInv, Bags
<1> QED
  BY <1>3, <1>4 DEF MoneyIsConserved, TradesAreDurable, StoredInv, Bags

\* With one worker, trading neither makes nor loses money, whatever is offered, spent and
\* saved, and whenever the process dies.
THEOREM MoneyConserved == Workers = 1 /\ Spec => []MoneyIsConserved
BY StoredInvariant, StoredInvMeans, PTL

\* With one worker, a restart never splits an exchange, however many saves wait and get
\* lost: the two are saved in one transaction, and the rows that others save before or
\* after do not undo it.
THEOREM Durable == Workers = 1 /\ Spec => []TradesAreDurable
BY StoredInvariant, StoredInvMeans, PTL

\* With one worker, nothing changes hands that was not offered, by anybody, in any step,
\* but for a restart that loses saves.
THEOREM OfferedOnly == Workers = 1 /\ Spec => OnlyOfferedIsGiven
<1> DEFINE Given ==
      saves = <<>> \/ saves' # <<>> =>
      /\ \A i \in Item : LET p == inv.place[i] IN
           p # None /\ inv'.place[i] \notin {p, None} =>
             /\ trade[p] # None /\ trade[p].trader = inv'.place[i]
             /\ \E s \in Slot : trade[p].items[s] = i
             /\ trade[p].accepted \/ GetTraderData(trade, p).accepted
      /\ \A p \in Player : money'[p] > money[p] /\ spent' = spent =>
           trade[p] # None /\ money'[p] = money[p] - trade[p].gold + GetTraderData(trade, p).gold
<1>1. StoredInv /\ [Next]_vars => [Given]_vars
  <2> SUFFICES ASSUME StoredInv, Next PROVE Given
    OBVIOUS
  <2>0. GoodsInv
    BY DEF StoredInv
  <2>1. /\ inv \in Inventory /\ money \in [Player -> Money] /\ spent \in [Player -> 0 .. MaxLosses]
        /\ db.money \in [Player -> Money]
    BY DEF StoredInv, GoodsInv, TypeOK, Tables
  <2>2. \A r \in Player : money[r] \in Int
    BY <2>1 DEF Money
  <2>3. CASE UNCHANGED <<inv, money>>
    BY <2>2, <2>3
  <2>4. ASSUME NEW p \in Player, Exchange(p) PROVE Given
    <3> DEFINE q == trade[p].trader
    <3>1. /\ trade[p] # None /\ q \in Player /\ q # p /\ trade[q] # None /\ trade[q].trader = p /\ p # None /\ q # None
          /\ trade[q].accepted /\ trade[p].gold \in Int /\ trade[q].gold \in Int
      BY <2>0, <2>4, GoodsInvTypes, TheTrader, TradeAssumption DEF Exchange, ReadyToExchange, GetTraderData, TradeData, Money
    <3>2. ASSUME NEW r \in {p, q}, NEW i \in Offered(r), i \in Item
          PROVE  inv.place[i] = r /\ \E s \in Slot : trade[r].items[s] = i
      BY <3>2 DEF Offered, GetItem
    <3>3. ASSUME NEW i \in Item, inv.place[i] # None, inv'.place[i] \notin {inv.place[i], None}
          PROVE  LET r == inv.place[i] IN
                   /\ trade[r] # None /\ trade[r].trader = inv'.place[i]
                   /\ \E s \in Slot : trade[r].items[s] = i
                   /\ trade[r].accepted \/ GetTraderData(trade, r).accepted
      <4>1. i \in Offered(p) \cup Offered(q) /\ inv'.place[i] \in {p, q}
        BY <2>0, <2>4, <3>3, ExchangedItem
      <4>2. PICK r \in {p, q} : i \in Offered(r)
        BY <4>1
      <4>3. inv.place[i] = r /\ \E s \in Slot : trade[r].items[s] = i
        BY <3>2, <4>2
      <4> QED
        BY <3>1, <3>3, <4>1, <4>3 DEF GetTraderData
    <3>4. ASSUME NEW r \in Player, money'[r] > money[r]
          PROVE  trade[r] # None /\ money'[r] = money[r] - trade[r].gold + GetTraderData(trade, r).gold
      <4>1. money' = [money EXCEPT ![p] = money[p] - trade[p].gold + trade[q].gold,
                                   ![q] = money[q] - trade[q].gold + trade[p].gold]
        BY <2>0, <2>4, ExchangedMoney
      <4>2. r \in {p, q}
        BY <2>1, <2>2, <3>4, <4>1
      <4> QED
        BY <2>1, <3>1, <4>1, <4>2 DEF GetTraderData
    <3> QED
      BY <3>3, <3>4
  <2>5. ASSUME NEW p \in Player, Spend(p) PROVE Given
    <3>1. spent' # spent /\ inv' = inv
      BY <2>1, <2>5 DEF Spend
    <3> QED
      BY <3>1
  <2>6. ASSUME NEW p \in Player, NEW i \in Item, DestroyItemCount(p, i) PROVE Given
    <3>1. money' = money /\ \A j \in Item : inv'.place[j] \in {inv.place[j], None}
      BY <2>1, <2>6 DEF DestroyItemCount, Inventory
    <3> QED
      BY <2>2, <3>1
  <2>7. ASSUME Restart PROVE Given
    <3> SUFFICES ASSUME saves = <<>>
                 PROVE  /\ \A i \in Item : inv.place[i] # None => inv'.place[i] = inv.place[i]
                        /\ spent' = spent => \A r \in Player : money'[r] = money[r]
      BY <2>2, <2>7 DEF Restart
    <3>1. inv' = db.inv /\ money' = db.money /\ spent' = db.spent /\ Saved = db
      BY <2>7 DEF Restart, Saved
    <3>2. \A i \in Item : inv.place[i] # None => inv'.place[i] = inv.place[i]
      BY <3>1 DEF StoredInv, Bags
    <3>3. ASSUME spent' = spent, NEW r \in Player PROVE money'[r] = money[r]
      <4>1. money[r] + spent[r] = db.money[r] + db.spent[r] /\ db.spent[r] = spent[r]
        BY <3>1, <3>3 DEF StoredInv, Purses
      <4>2. money[r] \in Int /\ db.money[r] \in Int /\ spent[r] \in Int
        BY <2>1 DEF Money
      <4> QED
        BY <3>1, <4>1, <4>2
    <3> QED
      BY <3>2, <3>3
  <2> HIDE DEF Given
  <2> QED
    BY <2>3, <2>4, <2>5, <2>6, <2>7, GoodsSteps DEF SaveToDB, ExecuteTransaction
<1> QED
  BY <1>1, StoredInvariant, PTL DEF Spec, OnlyOfferedIsGiven

\* Nobody is held to an acceptance of a stack that has got smaller since: using up a part
\* of an offered stack voids both acceptances.
THEOREM StacksAreCurrent == Spec => AcceptedStacksStand
<1> DEFINE Stand == \A p \in Player : AcceptanceStands(p) => StacksStand(p) /\ StacksStand(trade[p].trader)
<1>1. GoodsInv /\ [Next]_vars => [Stand]_vars
  <2> SUFFICES ASSUME GoodsInv, Next, NEW p \in Player, AcceptanceStands(p), NEW r \in {p, trade[p].trader},
                      NEW s \in AnySlot, trade[r].items[s] # None
               PROVE  LET i == trade[r].items[s] IN inv'.count[i] = inv.count[i] \/ inv'.place[i] = None
    BY DEF StacksStand
  <2> DEFINE i == trade[r].items[s]
             q == trade[p].trader
  <2>1. /\ trade[p] # None /\ q \in Player /\ q # p /\ trade[q] # None /\ trade[q].trader = p
        /\ r \in Player /\ trade[r] # None /\ trade[p].accepted /\ trade'[p] # None /\ trade'[p].accepted
    BY GoodsInvTypes, TheTrader DEF AcceptanceStands
  <2>2. i \in Item
    BY <2>1, GoodsInvTypes, TheTrader DEF TradeData
  <2>3. InitPlace[i] # None /\ inv.place[i] \in {r, None}
    BY <2>1 DEF GoodsInv, Offers
  <2>4. CASE UNCHANGED inv
    BY <2>4
  <2>5. ASSUME NEW x \in Player, Exchange(x) PROVE inv'.count[i] = inv.count[i]
    BY <2>2, <2>3, <2>5, ExchangedItem
  <2>6. ASSUME NEW x \in Player, NEW j \in Item, DestroyItemCount(x, j)
        PROVE  inv'.count[i] = inv.count[i] \/ inv'.place[i] = None
    <3>1. inv \in Inventory /\ x # None
      BY TradeAssumption DEF GoodsInv, TypeOK
    <3>2. CASE i # j
      BY <2>2, <2>6, <3>1, <3>2 DEF DestroyItemCount, Inventory
    <3>3. CASE i = j /\ inv.count[j] = 1
      BY <2>6, <3>1, <3>3 DEF DestroyItemCount, Inventory
    <3>4. CASE i = j /\ inv.count[j] # 1
      <4>1. x = r
        BY <2>3, <2>6, <3>1, <3>4 DEF DestroyItemCount
      <4>2. \E y \in AnySlot : trade' = SetItem(trade, r, y, i)
        BY <2>1, <2>6, <3>4, <4>1 DEF DestroyItemCount
      <4>3. trade \in Trades /\ trade[trade[r].trader] # None /\ trade[r].trader # r /\ trade[trade[r].trader].trader = r
        BY <2>1, GoodsInvTypes DEF TradeInv
      <4>4. OfferChanged(trade, trade', r)
        <5>1. PICK y \in AnySlot : trade' = SetItem(trade, r, y, i)
          BY <4>2
        <5>2. i \in Item \cup {None}
          BY <2>2
        <5> HIDE DEF i
        <5> QED
          BY <2>1, <4>3, <5>1, <5>2, SetItemFacts
      <4> QED
        BY <2>1, <4>4 DEF OfferChanged
    <3> QED
      BY <3>2, <3>3, <3>4
  <2>7. ASSUME Restart PROVE FALSE
    BY <2>1, <2>7 DEF Restart
  <2> QED
    BY <2>4, <2>5, <2>6, <2>7, GoodsSteps DEF SaveToDB, Spend, ExecuteTransaction
<1> QED
  BY <1>1, GoodsInvariant, PTL DEF Spec, AcceptedStacksStand

\* Where the limits allow all that is offered together, an exchange neither loses nor
\* copies an item: the tests made before it are enough for every turn of moveItems.
THEOREM ItemsConserved == Spec => ItemsAreConserved
<1> DEFINE Conserved ==
      \A p \in Player : trade[p] # None /\ trade'[p] = None /\ saves' # <<>>
        /\ LimitAllows(p, trade[p].trader) /\ LimitAllows(trade[p].trader, p) =>
          \A i \in Item : /\ inv'.place[i] # None <=> inv.place[i] # None
                          /\ inv'.count[i] = inv.count[i]
<1>1. GoodsInv /\ [Next]_vars => [Conserved]_vars
  <2> SUFFICES ASSUME GoodsInv, Next, NEW p \in Player, trade[p] # None, trade'[p] = None, saves' # <<>>,
                      LimitAllows(p, trade[p].trader), LimitAllows(trade[p].trader, p)
               PROVE  \A i \in Item : /\ inv'.place[i] # None <=> inv.place[i] # None
                                      /\ inv'.count[i] = inv.count[i]
    OBVIOUS
  <2>1. CASE UNCHANGED inv
    BY <2>1
  <2>2. ASSUME NEW x \in Player, Exchange(x)
        PROVE  /\ \A i \in Item : inv.place[i] # None <=> inv'.place[i] # None
               /\ inv'.count = inv.count
    <3> DEFINE y == trade[x].trader
    <3>1. /\ trade[x] # None /\ y \in Player /\ y # x /\ trade[y] # None /\ trade[y].trader = x /\ x # None /\ y # None
      BY <2>2, GoodsInvTypes, TheTrader, TradeAssumption DEF Exchange, ReadyToExchange
    <3>2. p \in {x, y}
      BY <2>2 DEF Exchange, GoodsInv, TypeOK
    <3>3. LimitAllows(x, y) /\ LimitAllows(y, x)
      BY <3>1, <3>2
    <3>4. ASSUME NEW r \in {x, y}, NEW i \in Item, i \in Offered(r) PROVE inv.place[i] # None
      BY <3>1, <3>4, TradeAssumption DEF Offered, GetItem
    <3>5. /\ inv'.count = inv.count
          /\ \A i \in Item : inv'.place[i] = IF i \in Offered(x) THEN y ELSE IF i \in Offered(y) THEN x ELSE inv.place[i]
      BY <2>2, <3>3, AllIsStored
    <3> QED
      BY <3>1, <3>4, <3>5
  <2>3. ASSUME NEW x \in Player, NEW i \in Item, DestroyItemCount(x, i) PROVE FALSE
    <3>1. UNCHANGED trade \/ (trade[x] # None /\ \E s \in AnySlot : trade' = SetItem(trade, x, s, i))
      BY <2>3 DEF DestroyItemCount
    <3>2. ASSUME trade[x] # None, NEW s \in AnySlot, trade' = SetItem(trade, x, s, i) PROVE FALSE
      <4>1. trade \in Trades /\ trade[trade[x].trader] # None /\ trade[x].trader # x /\ trade[trade[x].trader].trader = x
        BY <3>2, GoodsInvTypes, TheTrader DEF TradeInv
      <4>2. OfferChanged(trade, trade', x)
        BY <3>2, <4>1, SetItemFacts
      <4> QED
        BY <4>2 DEF OfferChanged, SameTrades
    <3> QED
      BY <3>1, <3>2
  <2>4. ASSUME Restart PROVE FALSE
    BY <2>4 DEF Restart
  <2> QED
    BY <2>1, <2>2, <2>3, <2>4, GoodsSteps DEF SaveToDB, Spend, ExecuteTransaction
<1> QED
  BY <1>1, GoodsInvariant, PTL DEF Spec, ItemsAreConserved

=============================================================================
