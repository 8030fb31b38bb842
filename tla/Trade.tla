-------------------------------- MODULE Trade --------------------------------
(***************************************************************************)
(* Trade between players: two TradeData objects that point at each other,  *)
(* the offers in them, the two acceptances, and the exchange that the      *)
(* second acceptance carries out.  Saves are transactions that wait for    *)
(* the asynchronous workers of the character database.                     *)
(* The handlers run on the world thread, one at a time; between them both  *)
(* players spend, use up and destroy what they have offered, and walk      *)
(* away.  An item is one stack; a kind is an entry of item_template.       *)
(***************************************************************************)
EXTENDS Naturals, SequencesExt

CONSTANTS
  Player,         \* the players, all in the world
  Item,           \* item guids, those that are free for copies included
  KindOf,         \* the kind of each item
  Limit,          \* MaxCount of each kind, 0 for none
  Capacity,       \* places in each player's bags
  InitPlace,      \* who has which item, None for the guids that are free
  InitCount,      \* the size of each stack
  InitMoney,      \* the money of each player
  MaxMoney,       \* MAX_MONEY_AMOUNT
  NumSlots,       \* TRADE_SLOT_TRADED_COUNT
  Workers,        \* CharacterDatabase.WorkerThreads
  MaxLosses,      \* bound: coins spent elsewhere and items used up
  MaxSaves,       \* bound: transactions that wait
  None            \* no item, no player, no trade

Slot == 1 .. NumSlots
NonTraded == NumSlots + 1                       \* TRADE_SLOT_NONTRADED
AnySlot == Slot \cup {NonTraded}
Money == 0 .. MaxMoney

\* The fields of a TradeData.
TradeData == [trader: Player, items: [AnySlot -> Item \cup {None}], gold: Money,
              spell: BOOLEAN, accepted: BOOLEAN]

\* There is at least one item in a stack that somebody has.  A limited kind is not
\* stackable: a stack of it is one item.
ASSUME TradeAssumption ==
  /\ IsFiniteSet(Player) /\ IsFiniteSet(Item)
  /\ None \notin Player /\ None \notin Item /\ None \notin TradeData
  /\ NumSlots \in Nat /\ MaxMoney \in Nat /\ MaxLosses \in Nat
  /\ Workers \in Nat /\ MaxSaves \in Nat
  /\ InitMoney \in [Player -> Money] /\ Capacity \in [Player -> Nat]
  /\ InitPlace \in [Item -> Player \cup {None}] /\ InitCount \in [Item -> Nat]
  /\ \A i \in Item : Limit[KindOf[i]] \in Nat /\ (InitCount[i] > 0 <=> InitPlace[i] # None)
  /\ \A i \in Item : Limit[KindOf[i]] > 0 => InitCount[i] <= 1

VARIABLES
  trade,          \* m_trade of each player: a TradeData or None
  inv,            \* the items: place, who has it (None for nobody), and count
  money,          \* GetMoney() of each player
  spent,          \* what each has spent elsewhere
  db,             \* what the tables hold: inv, money, and spent at that time
  saves           \* the transactions that wait: whose rows, those of which items, and
                  \* what the tables hold when all up to this one are executed in order

vars == <<trade, inv, money, spent, db, saves>>

Inventory == [place: [Item -> Player \cup {None}], count: [Item -> Nat]]
Tables == [inv: Inventory, money: [Player -> Money], spent: [Player -> 0 .. MaxLosses]]
Transaction == [players: SUBSET Player, items: SUBSET Item, tables: Tables]

TypeOK ==
  /\ trade \in [Player -> TradeData \cup {None}]
  /\ inv \in Inventory
  /\ money \in [Player -> Money]
  /\ spent \in [Player -> 0 .. MaxLosses]
  /\ db \in Tables
  /\ saves \in Seq(Transaction)

Init ==
  /\ trade = [p \in Player |-> None]
  /\ inv = [place |-> InitPlace, count |-> InitCount]
  /\ money = InitMoney
  /\ spent = [p \in Player |-> 0]
  /\ db = [inv |-> inv, money |-> money, spent |-> spent]
  /\ saves = <<>>

-----------------------------------------------------------------------------
(* TradeData.  t is a value of the variable trade. *)

NewTradeData(q) ==
  [trader |-> q, items |-> [s \in AnySlot |-> None], gold |-> 0, spell |-> FALSE,
   accepted |-> FALSE]

GetTraderData(t, p) == t[t[p].trader]

\* Mutant: whoever has the item by now.
GetItem_Bug(p, s) == trade[p].items[s]

\* The item in a slot, if the player still has it.
GetItem(p, s) ==
  LET i == trade[p].items[s]
  IN IF i # None /\ inv.place[i] = p THEN i ELSE None

SetAccepted(t, p, state) == [t EXCEPT ![p].accepted = state]

\* SetAccepted(false) for a player and for the trader.
BothUnaccepted(t, p) == SetAccepted(SetAccepted(t, p, FALSE), t[p].trader, FALSE)

\* SetSpell(0).
NoSpell(t, p) == IF t[p].spell THEN BothUnaccepted([t EXCEPT ![p].spell = FALSE], p) ELSE t

\* Mutant: the trader's acceptance stands.
SetMoney_Bug(t, p, gold) == SetAccepted([t EXCEPT ![p].gold = gold], p, FALSE)

SetMoney(t, p, gold) == BothUnaccepted([t EXCEPT ![p].gold = gold], p)

\* An offered item is replaced by another, or has changed (update): the acceptances
\* and the spells that were meant for it are void.
SetItem(t, p, s, i) ==
  LET u == BothUnaccepted([t EXCEPT ![p].items[s] = i], p)
      v == IF s = NonTraded THEN NoSpell(u, t[p].trader) ELSE u
  IN NoSpell(v, p)

-----------------------------------------------------------------------------
(* The bags.  v is a value of the variable inv. *)

Has(v, p) == {i \in Item : v.place[i] = p}

\* The limit of the kind, for this item alone; it counts the bank too.
CanTakeMoreSimilarItems(v, p, i) ==
  LET k == KindOf[i]
      held == SumFunctionOnSet(v.count, {j \in Has(v, p) \ {i} : KindOf[j] = k})
  IN Limit[k] = 0 \/ held + v.count[i] <= Limit[k]

\* There is room for one item beside those that have got their places already.
CanStoreItem(v, p, i, places) ==
  /\ CanTakeMoreSimilarItems(v, p, i)
  /\ Cardinality(Has(v, p)) + places < Capacity[p]

\* All of theirs at once: the places of the items in the trade count as free, their
\* number against the limit does not, and the limit is looked at item by item.
CanStoreItems(p, theirs, inTrade) ==
  /\ \A i \in theirs : CanTakeMoreSimilarItems(inv, p, i)
  /\ Cardinality(Has(inv, p) \ inTrade) + Cardinality(theirs) <= Capacity[p]

MoveItemToInventory(v, p, i) == IF i = None THEN v ELSE [v EXCEPT !.place[i] = p]

\* StoreItem with more than one position puts a copy at each but the last.
CloneItem(v, p, i, count) ==
  LET free == {j \in Item : InitPlace[j] = None /\ v.count[j] = 0 /\ KindOf[j] = KindOf[i]}
      j == CHOOSE j \in free : TRUE
  IN IF free = {} THEN v ELSE [place |-> [v.place EXCEPT ![j] = p], count |-> [v.count EXCEPT ![j] = count]]

\* An item goes back to its owner.  The list of positions still holds the one that
\* was found for `other', the item the owner would have got: it is used as well.
ReturnItem(v, p, i, other) ==
  IF i = None \/ ~CanStoreItem(v, p, i, IF other = None THEN 0 ELSE 1) THEN v
  ELSE MoveItemToInventory(IF other = None THEN v ELSE CloneItem(v, p, i, v.count[other]), p, i)

\* One turn of the loop of moveItems: both are stored, or both go back.
MoveSlot(v, p, q, mine, his) ==
  LET traderCan == mine = None \/ CanStoreItem(v, q, mine, 0)
      playerCan == his = None \/ CanStoreItem(v, p, his, 0)
  IN IF traderCan /\ playerCan
     THEN MoveItemToInventory(MoveItemToInventory(v, q, mine), p, his)
     ELSE ReturnItem(ReturnItem(v, p, mine, IF playerCan THEN his ELSE None),
                     q, his, IF traderCan THEN mine ELSE None)

moveItems(v, p, q, mine, his) ==
  FoldLeft(LAMBDA w, s : MoveSlot(w, p, q, mine[s], his[s]), v, [s \in Slot |-> s])

\* ModifyMoney with a negative and with a positive amount.
Pay(m, amount) == IF m > amount THEN m - amount ELSE 0
Earn(m, amount) == IF m + amount < MaxMoney THEN m + amount ELSE m

-----------------------------------------------------------------------------
(* The tables. *)

\* d after the rows of the players S and of the items I have been written as in w.
Write(d, w, S, I) ==
  LET Rows(f, g, D) == [x \in DOMAIN f |-> IF x \in D THEN g[x] ELSE f[x]]
  IN [inv |-> [place |-> Rows(d.inv.place, w.inv.place, I), count |-> Rows(d.inv.count, w.inv.count, I)],
      money |-> Rows(d.money, w.money, S), spent |-> Rows(d.spent, w.spent, S)]

\* The tables when all that waits has been executed.
Saved == IF saves = <<>> THEN db ELSE Last(saves).tables

\* The tables now and after each transaction that waits.
AllTables == {db} \cup {saves[k].tables : k \in 1 .. Len(saves)}

\* The transaction with the rows of the players S.  An item that was destroyed is in
\* its owner's queue of changes, one that a trade has dropped is in nobody's.
SaveInventoryAndGoldToDB(S, v, m) ==
  LET changed == {i \in Item : v.place[i] \in S \/ (v.count[i] = 0 /\ Saved.inv.place[i] \in S)}
  IN [players |-> S, items |-> changed,
      tables |-> Write(Saved, [inv |-> v, money |-> m, spent |-> spent], S, changed)]

\* The transaction is left to the asynchronous workers.
CommitTransaction(w) == Len(saves) < MaxSaves /\ saves' = Append(saves, w)

\* Each worker has taken a transaction and they finish in any order; the others wait
\* behind them.  (That a transaction takes effect as a whole is the subject of
\* SQLTransactions.)
ExecuteTransaction ==
  /\ \E k \in 1 .. Len(saves) :
       /\ k <= Workers
       /\ db' = Write(db, saves[k].tables, saves[k].players, saves[k].items)
       /\ saves' = RemoveAt(saves, k)
  /\ UNCHANGED <<trade, inv, money, spent>>

-----------------------------------------------------------------------------
(* Opening and closing. *)

\* That both are alive, near, not stunned and so on is left open.  Bounds: no trade
\* begins once an item has been copied, and none before all is saved.
HandleInitiateTrade(p, q) ==
  /\ \A i \in Item : InitPlace[i] = None => inv.place[i] = None
  /\ saves = <<>> /\ db = [inv |-> inv, money |-> money, spent |-> spent]
  /\ p # q /\ trade[p] = None /\ trade[q] = None
  /\ trade' = [trade EXCEPT ![p] = NewTradeData(q), ![q] = NewTradeData(p)]
  /\ UNCHANGED <<inv, money, spent, db, saves>>

\* Mutant: the trader's data stay.
TradeCancel_Bug(p) ==
  /\ trade[p] # None
  /\ trade' = [trade EXCEPT ![p] = None]
  /\ UNCHANGED <<inv, money, spent, db, saves>>

\* Cancelling, logging out and taking a taxi.
TradeCancel(p) ==
  /\ trade[p] # None
  /\ trade' = [trade EXCEPT ![p] = None, ![trade[p].trader] = None]
  /\ UNCHANGED <<inv, money, spent, db, saves>>

-----------------------------------------------------------------------------
(* The offers. *)

HandleSetTradeGold(p) ==
  /\ trade[p] # None
  /\ \E gold \in Money \ {trade[p].gold} : money[p] >= gold /\ trade' = SetMoney(trade, p, gold)
  /\ UNCHANGED <<inv, money, spent, db, saves>>

\* CanBeTraded and IsBindedNotWith are left open: a refused item changes nothing.
HandleSetTradeItem(p) ==
  /\ trade[p] # None
  /\ \E s \in AnySlot, i \in Has(inv, p) :
       /\ \A r \in AnySlot : trade[p].items[r] # i
       /\ trade' = SetItem(trade, p, s, i)
  /\ UNCHANGED <<inv, money, spent, db, saves>>

HandleClearTradeItem(p) ==
  /\ trade[p] # None
  /\ \E s \in AnySlot : trade[p].items[s] # None /\ trade' = SetItem(trade, p, s, None)
  /\ UNCHANGED <<inv, money, spent, db, saves>>

\* A spell cast on the trader's slot that is not traded is kept for the exchange.  It
\* may replace another spell.
CastOnTradeItem(p) ==
  /\ trade[p] # None /\ GetItem(trade[p].trader, NonTraded) # None
  /\ trade' = BothUnaccepted([trade EXCEPT ![p].spell = TRUE], p)
  /\ UNCHANGED <<inv, money, spent, db, saves>>

-----------------------------------------------------------------------------
(* Accepting.  The acceptance is set before the checks, and several of them return
   without taking it back. *)

HandleUnacceptTrade(p) ==
  /\ trade[p] # None /\ trade[p].accepted
  /\ trade' = SetAccepted(trade, p, FALSE)
  /\ UNCHANGED <<inv, money, spent, db, saves>>

\* Mutant: who gets too rich is not looked at.
MoneyFault_Bug(p) ==
  LET q == trade[p].trader
  IN IF money[p] < trade[p].gold THEN p ELSE IF money[q] < trade[q].gold THEN q ELSE None

\* Whose money does not allow the exchange, in the order of the four tests: who
\* cannot pay the own offer any more, and who gets too rich by the other's.
MoneyFault(p) ==
  LET q == trade[p].trader
      Poor(r) == money[r] < trade[r].gold
      TooMuchGold(r) == money[r] >= MaxMoney - GetTraderData(trade, r).gold
  IN IF Poor(p) THEN p ELSE IF Poor(q) THEN q
     ELSE IF TooMuchGold(p) THEN p ELSE IF TooMuchGold(q) THEN q ELSE None

\* The items of a player that would change hands.
Offered(p) == {GetItem(p, s) : s \in Slot} \ {None}

\* The acceptance of p is not followed by the exchange: the trader is too far away,
\* the money is wrong, an item cannot be traded (left open), or the trader has not
\* accepted.
AcceptAndWait(p) ==
  LET q == trade[p].trader
      t == SetAccepted(trade, p, TRUE)
  IN /\ trade[p] # None
     /\ \/ trade' = SetAccepted(t, p, FALSE)
        \/ MoneyFault(p) # None /\ trade' = SetAccepted(t, MoneyFault(p), FALSE)
        \/ MoneyFault(p) = None /\ Offered(p) \cup Offered(q) # {} /\ trade' = t
        \/ MoneyFault(p) = None /\ ~trade[q].accepted /\ trade' = t
     /\ UNCHANGED <<inv, money, spent, db, saves>>

\* Mutant: the trader need not have accepted.
ReadyToExchange_Bug(p) == trade[p] # None /\ MoneyFault(p) = None

ReadyToExchange(p) ==
  trade[p] # None /\ GetTraderData(trade, p).accepted /\ MoneyFault(p) = None

\* The item for which a spell is pending is still there.
HasTarget(p) == trade[p].spell => GetItem(trade[p].trader, NonTraded) # None

\* The spell of one of the two cannot be cast, its item is gone or CheckCast says so:
\* it is forgotten, and the acceptances with it.  The own spell is looked at first.
SpellFails(p) ==
  /\ ReadyToExchange(p)
  /\ \E r \in {p, trade[p].trader} :
       /\ trade[r].spell /\ (r # p => HasTarget(p))
       /\ trade' = NoSpell(SetAccepted(trade, p, TRUE), r)
  /\ UNCHANGED <<inv, money, spent, db, saves>>

SpellsCanBeCast(p) == HasTarget(p) /\ HasTarget(trade[p].trader)

Fit(p) ==
  LET q == trade[p].trader
      inTrade == Offered(p) \cup Offered(q)
  IN CanStoreItems(q, Offered(p), inTrade) /\ CanStoreItems(p, Offered(q), inTrade)

DoesNotFit(p) ==
  /\ ReadyToExchange(p) /\ SpellsCanBeCast(p) /\ ~Fit(p)
  /\ trade' = BothUnaccepted(trade, p)
  /\ UNCHANGED <<inv, money, spent, db, saves>>

\* Mutant: only the player who accepted last is saved.
SavedTogether_Bug(p) == {p}

SavedTogether(p) == {p, trade[p].trader}

\* The exchange: remove all, store all, pay, close the trade and leave the save of both
\* players to the workers.  A pending spell is cast on an item that stays where it is.
Exchange(p) ==
  LET q == trade[p].trader
      removed == [inv EXCEPT !.place = [i \in Item |-> IF i \in Offered(p) \cup Offered(q) THEN None ELSE @[i]]]
  IN /\ ReadyToExchange(p) /\ SpellsCanBeCast(p) /\ Fit(p)
     /\ inv' = moveItems(removed, p, q, [s \in Slot |-> GetItem(p, s)], [s \in Slot |-> GetItem(q, s)])
     /\ money' = [money EXCEPT ![p] = Earn(Pay(@, trade[p].gold), trade[q].gold),
                               ![q] = Earn(Pay(@, trade[q].gold), trade[p].gold)]
     /\ trade' = [trade EXCEPT ![p] = None, ![q] = None]
     /\ CommitTransaction(SaveInventoryAndGoldToDB(SavedTogether(p), inv', money'))
     /\ UNCHANGED <<spent, db>>

-----------------------------------------------------------------------------
(* What else happens to items and money. *)

\* Mutant: the offer is not renewed.
DestroyItemCount_Bug(p, i) ==
  /\ inv.place[i] = p
  /\ inv' = IF inv.count[i] = 1 THEN [place |-> [inv.place EXCEPT ![i] = None], count |-> [inv.count EXCEPT ![i] = 0]]
            ELSE [inv EXCEPT !.count[i] = @ - 1]
  /\ UNCHANGED <<trade, money, spent, db, saves>>

\* One of a stack is used up.  Item::SetCount renews the offer the stack is in; the
\* destruction of the last one does not.
DestroyItemCount(p, i) ==
  /\ inv.place[i] = p
  /\ IF inv.count[i] = 1
     THEN /\ inv' = [place |-> [inv.place EXCEPT ![i] = None], count |-> [inv.count EXCEPT ![i] = 0]]
          /\ UNCHANGED trade
     ELSE LET in == {s \in AnySlot : trade[p] # None /\ trade[p].items[s] = i}
          IN /\ inv' = [inv EXCEPT !.count[i] = @ - 1]
             /\ trade' = IF in = {} THEN trade ELSE SetItem(trade, p, CHOOSE s \in in : TRUE, i)
  /\ UNCHANGED <<money, spent, db, saves>>

\* ModifyMoney from elsewhere: a vendor, a repair, a letter.
Spend(p) ==
  /\ money[p] > 0
  /\ money' = [money EXCEPT ![p] = Pay(@, 1)]
  /\ spent' = [spent EXCEPT ![p] = @ + 1]
  /\ UNCHANGED <<trade, inv, db, saves>>

\* Bound: a save that would change nothing is left out.
SaveToDB(p) ==
  LET w == SaveInventoryAndGoldToDB({p}, inv, money)
  IN /\ w.tables # Saved /\ CommitTransaction(w)
     /\ UNCHANGED <<trade, inv, money, spent, db>>

\* The process dies, with the transactions that wait, and is started again.
Restart ==
  /\ trade' = [p \in Player |-> None]
  /\ inv' = db.inv /\ money' = db.money /\ spent' = db.spent /\ saves' = <<>>
  /\ UNCHANGED db

Losses ==
  SumFunction(spent) + SumFunction(InitCount) - SumFunctionOnSet(inv.count, {i \in Item : InitPlace[i] # None})

Next ==
  \/ \E p \in Player :
       \/ TradeCancel(p) \/ HandleSetTradeGold(p) \/ HandleSetTradeItem(p) \/ HandleClearTradeItem(p)
       \/ CastOnTradeItem(p) \/ HandleUnacceptTrade(p)
       \/ AcceptAndWait(p) \/ SpellFails(p) \/ DoesNotFit(p) \/ Exchange(p)
       \/ SaveToDB(p)
       \/ \E q \in Player : HandleInitiateTrade(p, q)
  \/ Losses < MaxLosses /\ \E p \in Player : Spend(p) \/ \E i \in Item : DestroyItemCount(p, i)
  \/ ExecuteTransaction
  \/ Restart

Spec == Init /\ [][Next]_vars

-----------------------------------------------------------------------------
(* Properties. *)

\* Trades come in pairs: the trader of a player who trades is trading with that
\* player, so that GetTraderData is never null and nobody trades with two.
TradesArePaired ==
  \A p \in Player : trade[p] # None =>
    LET q == trade[p].trader IN q # p /\ trade[q] # None /\ trade[q].trader = p

\* The slots, gold and spell of p stay as they are.
OfferStands(p) ==
  /\ trade'[p].items = trade[p].items /\ trade'[p].gold = trade[p].gold
  /\ trade'[p].spell = trade[p].spell

\* p has accepted, and still does after the step.
AcceptanceStands(p) ==
  trade[p] # None /\ trade'[p] # None /\ trade[p].accepted /\ trade'[p].accepted

\* Nobody is held to an offer he did not accept: while an acceptance stands, neither
\* side's slots, gold or spell change.
AcceptanceIsCurrent ==
  [][\A p \in Player : AcceptanceStands(p) =>
       trade'[p].trader = trade[p].trader /\ OfferStands(p) /\ OfferStands(trade[p].trader)]_vars

\* No stack in a slot of p has changed its size, unless it is destroyed.
StacksStand(p) ==
  \A s \in AnySlot : LET i == trade[p].items[s] IN
    i # None => inv'.count[i] = inv.count[i] \/ inv'.place[i] = None

\* Nor do the stacks in the slots: using up a part of one voids the acceptances.
\* (Only the destruction of an item passes unnoticed: its slot is empty then.)
AcceptedStacksStand ==
  [][\A p \in Player : AcceptanceStands(p) => StacksStand(p) /\ StacksStand(trade[p].trader)]_vars

\* What changes hands was offered: an item goes only to the trader of its owner and
\* from a traded slot, money grows only by what the trader offered, less the own
\* offer, and one of the two had accepted these offers before.  (A restart that loses
\* saves takes whole exchanges back; it empties the queue.)
OnlyOfferedIsGiven ==
  [][saves = <<>> \/ saves' # <<>> =>
     /\ \A i \in Item : LET p == inv.place[i] IN
          p # None /\ inv'.place[i] \notin {p, None} =>
            /\ trade[p] # None /\ trade[p].trader = inv'.place[i]
            /\ \E s \in Slot : trade[p].items[s] = i
            /\ trade[p].accepted \/ GetTraderData(trade, p).accepted
     /\ \A p \in Player : money'[p] > money[p] /\ spent' = spent =>
          trade[p] # None /\ money'[p] = money[p] - trade[p].gold + GetTraderData(trade, p).gold]_vars

\* The limit of each kind allows all that q is offered together.
LimitAllows(p, q) ==
  \A k \in {KindOf[i] : i \in Offered(p)} :
    Limit[k] > 0 =>
      SumFunctionOnSet(inv.count, {i \in Has(inv, q) \cup Offered(p) : KindOf[i] = k}) <= Limit[k]

\* An exchange neither loses nor copies an item, provided that the limits of the
\* kinds allow all offered items together.  (CanStoreItems looks at them one by one;
\* where that is not enough moveItems has to return items, and may copy or lose one.)
ItemsAreConserved ==
  [][\A p \in Player : trade[p] # None /\ trade'[p] = None /\ saves' # <<>>
       /\ LimitAllows(p, trade[p].trader) /\ LimitAllows(trade[p].trader, p) =>
         \A i \in Item : /\ inv'.place[i] # None <=> inv.place[i] # None
                         /\ inv'.count[i] = inv.count[i]]_vars

\* Money is neither made nor lost by trading.
MoneyIsConserved ==
  SumFunction(money) + SumFunction(spent) = SumFunction(InitMoney)

\* A restart never splits an exchange, whatever was saved when and whatever waits: in
\* the tables, now and after each transaction that waits, the money adds up and no item
\* is missing that somebody has, and in the end each item is with who has it.
TradesAreDurable ==
  /\ \A d \in AllTables :
       /\ SumFunction(d.money) + SumFunction(d.spent) = SumFunction(InitMoney)
       /\ \A i \in Item : InitPlace[i] # None /\ inv.place[i] # None => d.inv.place[i] # None
  /\ \A i \in Item : inv.place[i] # None => Saved.inv.place[i] = inv.place[i]
=============================================================================
