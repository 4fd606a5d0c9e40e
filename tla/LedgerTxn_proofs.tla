--------------------------- MODULE LedgerTxn_proofs ---------------------------
(***************************************************************************)
(* What overlapping transactions promise, for any number of them.          *)
(***************************************************************************)
EXTENDS AuditedTxn, LedgerLemmas

-----------------------------------------------------------------------------
(* What each commit writes.                                                *)

\* The row d, field by field.
Holds(d, contest, participant, account, cash, positions, orders, settlements) ==
    /\ d = [contest |-> d.contest, participant |-> d.participant, account |-> d.account,
            cash |-> d.cash, positions |-> d.positions, orders |-> d.orders,
            settlements |-> d.settlements]
    /\ d.contest = contest /\ d.participant = participant /\ d.account = account
    /\ d.cash = cash /\ d.positions = positions /\ d.orders = orders /\ d.settlements = settlements

Ends(t) == tx' = [tx EXCEPT ![t] = Idle] /\ window' = window

LEMMA WriteTrade ==
  ASSUME NEW d \in Databases, NEW c, NEW a \in Assets, NEW p, NEW i \in OrderIds, NEW o,
         NEW x, x = [d EXCEPT !.cash = c, !.positions[a] = p, !.orders[i] = o]
  PROVE  Holds(x, d.contest, d.participant, d.account, c, [d.positions EXCEPT ![a] = p],
               [d.orders EXCEPT ![i] = o], d.settlements)
  <1>1. x = [contest |-> x.contest, participant |-> x.participant, account |-> x.account,
             cash |-> x.cash, positions |-> x.positions, orders |-> x.orders,
             settlements |-> x.settlements]
    BY DEF Databases, AccountRows
  <1> QED
    BY <1>1 DEF Databases, AccountRows, Holds

LEMMA WriteSale ==
  ASSUME NEW d \in Databases, NEW c, NEW a \in Assets, NEW p, NEW i \in OrderIds, NEW o, NEW z,
         NEW x, x = [d EXCEPT !.cash = c, !.positions[a] = p, !.account.realized = z, !.orders[i] = o]
  PROVE  Holds(x, d.contest, d.participant, [d.account EXCEPT !.realized = z], c,
               [d.positions EXCEPT ![a] = p], [d.orders EXCEPT ![i] = o], d.settlements)
  <1>1. x = [contest |-> x.contest, participant |-> x.participant, account |-> x.account,
             cash |-> x.cash, positions |-> x.positions, orders |-> x.orders,
             settlements |-> x.settlements]
    BY DEF Databases, AccountRows
  <1> QED
    BY <1>1 DEF Databases, AccountRows, Holds

LEMMA WriteCash ==
  ASSUME NEW d \in Databases, NEW c, NEW i \in OrderIds, NEW o,
         NEW x, x = [d EXCEPT !.cash = c, !.orders[i] = o]
  PROVE  Holds(x, d.contest, d.participant, d.account, c, d.positions,
               [d.orders EXCEPT ![i] = o], d.settlements)
  <1>1. x = [contest |-> x.contest, participant |-> x.participant, account |-> x.account,
             cash |-> x.cash, positions |-> x.positions, orders |-> x.orders,
             settlements |-> x.settlements]
    BY DEF Databases, AccountRows
  <1> QED
    BY <1>1 DEF Databases, AccountRows, Holds

LEMMA WriteLot ==
  ASSUME NEW d \in Databases, NEW a \in Assets, NEW p, NEW i \in OrderIds, NEW o,
         NEW x, x = [d EXCEPT !.positions[a] = p, !.orders[i] = o]
  PROVE  Holds(x, d.contest, d.participant, d.account, d.cash, [d.positions EXCEPT ![a] = p],
               [d.orders EXCEPT ![i] = o], d.settlements)
  <1>1. x = [contest |-> x.contest, participant |-> x.participant, account |-> x.account,
             cash |-> x.cash, positions |-> x.positions, orders |-> x.orders,
             settlements |-> x.settlements]
    BY DEF Databases, AccountRows
  <1> QED
    BY <1>1 DEF Databases, AccountRows, Holds

LEMMA WriteRelease ==
  ASSUME NEW d \in Databases, NEW c, NEW i \in OrderIds, NEW s,
         NEW x, x = [d EXCEPT !.cash = c, !.orders[i].status = s]
  PROVE  Holds(x, d.contest, d.participant, d.account, c, d.positions,
               [d.orders EXCEPT ![i] = [d.orders[i] EXCEPT !.status = s]], d.settlements)
  <1>1. x = [contest |-> x.contest, participant |-> x.participant, account |-> x.account,
             cash |-> x.cash, positions |-> x.positions, orders |-> x.orders,
             settlements |-> x.settlements]
    BY DEF Databases, AccountRows
  <1> QED
    BY <1>1 DEF Databases, AccountRows, Holds

LEMMA WriteUnlock ==
  ASSUME NEW d \in Databases, NEW a \in Assets, NEW p, NEW i \in OrderIds, NEW s,
         NEW x, x = [d EXCEPT !.positions[a] = p, !.orders[i].status = s]
  PROVE  Holds(x, d.contest, d.participant, d.account, d.cash, [d.positions EXCEPT ![a] = p],
               [d.orders EXCEPT ![i] = [d.orders[i] EXCEPT !.status = s]], d.settlements)
  <1>1. x = [contest |-> x.contest, participant |-> x.participant, account |-> x.account,
             cash |-> x.cash, positions |-> x.positions, orders |-> x.orders,
             settlements |-> x.settlements]
    BY DEF Databases, AccountRows
  <1> QED
    BY <1>1 DEF Databases, AccountRows, Holds

LEMMA WriteSkip ==
  ASSUME NEW d \in Databases, NEW i \in OrderIds, NEW s,
         NEW x, x = [d EXCEPT !.orders[i].exit = s]
  PROVE  Holds(x, d.contest, d.participant, d.account, d.cash, d.positions,
               [d.orders EXCEPT ![i] = [d.orders[i] EXCEPT !.exit = s]], d.settlements)
  <1>1. x = [contest |-> x.contest, participant |-> x.participant, account |-> x.account,
             cash |-> x.cash, positions |-> x.positions, orders |-> x.orders,
             settlements |-> x.settlements]
    BY DEF Databases, AccountRows
  <1> QED
    BY <1>1 DEF Databases, AccountRows, Holds

LEMMA WriteExit ==
  ASSUME NEW d \in Databases, NEW c, NEW a \in Assets, NEW p, NEW z,
         NEW i \in OrderIds, NEW j \in OrderIds, i # j, NEW k, NEW o,
         NEW x, x = [d EXCEPT !.cash = c, !.positions[a] = p, !.account.realized = z, !.orders[i].exit = k, !.orders[i].exitOrder = j, !.orders[j] = o]
  PROVE  Holds(x, d.contest, d.participant, [d.account EXCEPT !.realized = z], c,
               [d.positions EXCEPT ![a] = p],
               [d.orders EXCEPT ![i] = [d.orders[i] EXCEPT !.exit = k, !.exitOrder = j], ![j] = o],
               d.settlements)
  <1>1. x = [contest |-> x.contest, participant |-> x.participant, account |-> x.account,
             cash |-> x.cash, positions |-> x.positions, orders |-> x.orders,
             settlements |-> x.settlements]
    BY DEF Databases, AccountRows
  <1>2. x.orders = [d.orders EXCEPT ![i] = [d.orders[i] EXCEPT !.exit = k, !.exitOrder = j], ![j] = o]
    BY DEF Databases, AccountRows
  <1>3. /\ x.contest = d.contest /\ x.participant = d.participant /\ x.cash = c
        /\ x.settlements = d.settlements
    BY DEF Databases, AccountRows
  <1>4. x.account = [d.account EXCEPT !.realized = z] /\ x.positions = [d.positions EXCEPT ![a] = p]
    BY DEF Databases, AccountRows
  <1> QED
    BY <1>1, <1>2, <1>3, <1>4 DEF Holds

LEMMA WriteSettlement ==
  ASSUME NEW d \in Databases, NEW s, NEW st, NEW c, NEW ps, NEW os, NEW ss,
         NEW x, x = [d EXCEPT !.contest = s, !.account.status = st, !.cash = c, !.positions = ps, !.orders = os, !.settlements = ss]
  PROVE  Holds(x, s, d.participant, [d.account EXCEPT !.status = st], c, ps, os, ss)
  <1>1. x = [contest |-> x.contest, participant |-> x.participant, account |-> x.account,
             cash |-> x.cash, positions |-> x.positions, orders |-> x.orders,
             settlements |-> x.settlements]
    BY DEF Databases, AccountRows
  <1> QED
    BY <1>1 DEF Databases, AccountRows, Holds

LEMMA WriteStanding ==
  ASSUME NEW d \in Databases, NEW s, NEW st,
         NEW x, x = [d EXCEPT !.participant = s, !.account.status = st]
  PROVE  Holds(x, d.contest, s, [d.account EXCEPT !.status = st], d.cash, d.positions, d.orders,
               d.settlements)
  <1>1. x = [contest |-> x.contest, participant |-> x.participant, account |-> x.account,
             cash |-> x.cash, positions |-> x.positions, orders |-> x.orders,
             settlements |-> x.settlements]
    BY DEF Databases, AccountRows
  <1> QED
    BY <1>1 DEF Databases, AccountRows, Holds

LEMMA WriteContest ==
  ASSUME NEW d \in Databases, NEW s, NEW x, x = [d EXCEPT !.contest = s]
  PROVE  Holds(x, s, d.participant, d.account, d.cash, d.positions, d.orders, d.settlements)
  <1>1. x = [contest |-> x.contest, participant |-> x.participant, account |-> x.account,
             cash |-> x.cash, positions |-> x.positions, orders |-> x.orders,
             settlements |-> x.settlements]
    BY DEF Databases, AccountRows
  <1> QED
    BY <1>1 DEF Databases, AccountRows, Holds

LEMMA ExecuteBuyWrites ==
  ASSUME db \in Databases, NEW t, NEW r \in Requests, NEW q, NEW i \in OrderIds,
         ExecuteBuy(t, r, q, i)
  PROVE  LET n == WalkedNotional(r, q)
         IN  /\ Ends(t) /\ booked' = booked
             /\ Holds(db', db.contest, db.participant, db.account, PayFromAvailable(db.cash, n),
                          [db.positions EXCEPT ![r.asset] = AddLot(db.positions[r.asset], r.quantity, n)],
                          [db.orders EXCEPT ![i] = OrderOf(r, "filled", r.quantity, n)], db.settlements)
  BY WriteTrade, RequestFacts DEF ExecuteBuy, Commit, Cash, Position, Ends

LEMMA ExecuteSellWrites ==
  ASSUME db \in Databases, NEW t, NEW r \in Requests, NEW q, NEW i \in OrderIds,
         ExecuteSell(t, r, q, i)
  PROVE  LET n == WalkedNotional(r, q)
             p == db.positions[r.asset]
             profit == RealizedBy(p, r.quantity, n)
         IN  /\ Ends(t) /\ booked' = booked + profit
             /\ Holds(db', db.contest, db.participant,
                          [db.account EXCEPT !.realized = @ + profit], Credit(db.cash, n),
                          [db.positions EXCEPT ![r.asset] = RemoveLot(p, r.quantity, 0)],
                          [db.orders EXCEPT ![i] = OrderOf(r, "filled", r.quantity, n)], db.settlements)
  BY WriteSale, RequestFacts DEF ExecuteSell, Commit, Cash, Position, Ends, Booking

LEMMA RestBuyWrites ==
  ASSUME db \in Databases, NEW t, NEW r \in Requests, NEW q, NEW i \in OrderIds,
         RestBuy(t, r, q, i)
  PROVE  LET o == OrderOf(r, "pending", 0, 0)
         IN  /\ Ends(t) /\ booked' = booked
             /\ Holds(db', db.contest, db.participant, db.account, ReserveCash(db.cash, o),
                          db.positions, [db.orders EXCEPT ![i] = o], db.settlements)
  BY WriteCash DEF RestBuy, Commit, Cash, Ends

LEMMA RestSellWrites ==
  ASSUME db \in Databases, NEW t, NEW r \in Requests, NEW q, NEW i \in OrderIds,
         RestSell(t, r, q, i)
  PROVE  LET o == OrderOf(r, "pending", 0, 0)
         IN  /\ Ends(t) /\ booked' = booked
             /\ Holds(db', db.contest, db.participant, db.account, db.cash,
                          [db.positions EXCEPT ![r.asset] = ReserveLot(db.positions[r.asset], o)],
                          [db.orders EXCEPT ![i] = o], db.settlements)
  BY WriteLot, RequestFacts DEF RestSell, Commit, Position, Ends

LEMMA CancelBuyWrites ==
  ASSUME db \in Databases, NEW t, tx[t].order \in OrderIds, CancelBuy(t)
  PROVE  LET i == tx[t].order
         IN  /\ Ends(t) /\ booked' = booked
             /\ Holds(db', db.contest, db.participant, db.account, ReleaseCash(db.cash, OrderSeen(t)),
                          db.positions,
                          [db.orders EXCEPT ![i] = [db.orders[i] EXCEPT !.status = "cancelled"]],
                          db.settlements)
  BY WriteRelease DEF CancelBuy, Commit, Cash, Ends

LEMMA CancelSellWrites ==
  ASSUME db \in Databases, NEW t, tx[t].order \in OrderIds, OrderSeen(t).asset \in Assets,
         CancelSell(t)
  PROVE  LET i == tx[t].order
             o == OrderSeen(t)
         IN  /\ Ends(t) /\ booked' = booked
             /\ Holds(db', db.contest, db.participant, db.account, db.cash,
                          [db.positions EXCEPT ![o.asset] = ReleaseLot(db.positions[o.asset], o)],
                          [db.orders EXCEPT ![i] = [db.orders[i] EXCEPT !.status = "cancelled"]],
                          db.settlements)
  BY WriteUnlock DEF CancelSell, Commit, Position, Ends

LEMMA FillBuyWrites ==
  ASSUME db \in Databases, NEW t, tx[t].order \in OrderIds, OrderSeen(t).asset \in Assets,
         FillBuy(t)
  PROVE  LET i == tx[t].order
             o == OrderSeen(t)
             p == db.positions[o.asset]
         IN  /\ Ends(t) /\ booked' = booked
             /\ Holds(db', db.contest, db.participant, db.account, PayFromLocked(db.cash, o),
                          [db.positions EXCEPT ![o.asset] = AddLot(p, o.quantity, o.limit * o.quantity)],
                          [db.orders EXCEPT ![i] = Completed(db.orders[i], o)], db.settlements)
  BY WriteTrade DEF FillBuy, Commit, Cash, Position, Ends

LEMMA FillSellWrites ==
  ASSUME db \in Databases, NEW t, tx[t].order \in OrderIds, OrderSeen(t).asset \in Assets,
         FillSell(t)
  PROVE  LET i == tx[t].order
             o == OrderSeen(t)
             p == db.positions[o.asset]
             n == o.limit * o.quantity
             profit == RealizedBy(p, o.quantity, n)
         IN  /\ Ends(t) /\ booked' = booked + profit
             /\ Holds(db', db.contest, db.participant,
                          [db.account EXCEPT !.realized = Snap(t).account.realized + profit],
                          Credit(db.cash, n),
                          [db.positions EXCEPT ![o.asset] = RemoveLot(p, o.quantity, o.quantity)],
                          [db.orders EXCEPT ![i] = Completed(db.orders[i], o)], db.settlements)
  BY WriteSale DEF FillSell, Commit, Cash, Position, Ends, Booking, RealizedAfter

LEMMA SkipExitWrites ==
  ASSUME db \in Databases, NEW t, tx[t].order \in OrderIds, NEW kind, SkipExit(t, kind)
  PROVE  LET i == tx[t].order
         IN  /\ Ends(t) /\ booked' = booked
             /\ Holds(db', db.contest, db.participant, db.account, db.cash, db.positions,
                          [db.orders EXCEPT ![i] = [db.orders[i] EXCEPT !.exit = "skipped"]],
                          db.settlements)
  BY WriteSkip DEF SkipExit, Commit, Ends

ExitSize(t) ==
    LET e == OrderSeen(t)
        p == db.positions[e.asset]
    IN  IF e.filled <= Free(p) THEN e.filled ELSE Free(p)

LEMMA FillExitWrites ==
  ASSUME db \in Databases, NEW t, tx[t].order \in OrderIds, OrderSeen(t).asset \in Assets,
         NEW kind, NEW j \in OrderIds, j # tx[t].order, FillExit(t, kind, j)
  PROVE  LET i == tx[t].order
             e == OrderSeen(t)
             p == db.positions[e.asset]
             k == ExitSize(t)
             n == ExitPrice(e, kind) * k
             profit == RealizedBy(p, k, n)
         IN  /\ Ends(t) /\ booked' = booked + profit
             /\ Holds(db', db.contest, db.participant,
                          [db.account EXCEPT !.realized = Snap(t).account.realized + profit],
                          Credit(db.cash, n),
                          [db.positions EXCEPT ![e.asset] = RemoveLot(p, k, 0)],
                          [db.orders EXCEPT ![i] = [db.orders[i] EXCEPT !.exit = kind, !.exitOrder = j],
                                            ![j] = ExitOrderOf(i, e, kind, k, n)],
                          db.settlements)
  BY WriteExit DEF FillExit, Commit, Cash, Position, Ends, Booking, RealizedAfter, ExitSize

LEMMA SettleWrites ==
  ASSUME db \in Databases, NEW t, Settle(t)
  PROVE  LET s == Snap(t)
         IN  /\ Ends(t) /\ booked' = booked
             /\ Holds(db', "completed", db.participant,
                          [db.account EXCEPT !.status = SettledStatus(s.account, db.account)],
                          SettledCash(s.cash, db.cash),
                          [a \in Assets |-> SettledPosition(s.positions[a], db.positions[a])],
                          [i \in OrderIds |-> SettledOrder(s.orders[i], db.orders[i])],
                          Append(db.settlements,
                              [cash |-> s.cash.available + s.cash.locked,
                               holdings |-> [a \in Assets |-> s.positions[a].quantity],
                               status |-> "completed"]))
  BY WriteSettlement DEF Settle, Commit, Ends

-----------------------------------------------------------------------------
(* The inductive invariant.  The committed rows and those of every         *)
(* snapshot have their type and are solvent, a limit order asks for        *)
(* something, and no order seen by a transaction is ever unmade.           *)

GoodRows(d) ==
    /\ d \in Databases
    /\ GoodCash(d.cash)
    /\ \A a \in Assets : GoodPosition(d.positions[a])
    /\ \A i \in OrderIds : d.orders[i].status = "pending" => d.orders[i].quantity > 0

SameRequest(o, p) ==
    /\ o.client = p.client /\ o.asset = p.asset /\ o.side = p.side /\ o.type = p.type
    /\ o.quantity = p.quantity /\ o.limit = p.limit /\ o.stop = p.stop /\ o.take = p.take

Final(o) == o.status \in {"filled", "cancelled"}

\* d is an earlier state of the rows e.
Earlier(d, e) ==
    \A i \in OrderIds : d.orders[i].status # "none" =>
        /\ SameRequest(d.orders[i], e.orders[i])
        /\ e.orders[i].status # "none"
        /\ Final(d.orders[i]) => Final(e.orders[i])

TargetOK(t) ==
    /\ tx[t].op \in {"cancel", "fill", "exit"} => tx[t].order \in OrderIds
    /\ tx[t].op \in {"cancel", "fill"} => OrderSeen(t).status = "pending"
    /\ tx[t].op = "exit" => /\ OrderSeen(t).status = "filled"
                            /\ OrderSeen(t).side = "buy"
                            /\ OrderSeen(t).exit = "open"

StoreOK == GoodRows(db) /\ window \in {"before", "open", "closed"} /\ booked \in Int

TxnsOK ==
    /\ tx \in [Txns -> Transactions]
    /\ \A t \in Txns : GoodRows(Snap(t)) /\ TargetOK(t) /\ Earlier(Snap(t), db)

Inv == StoreOK /\ TxnsOK

LEMMA InvTypeOK == Inv => TypeOK
  BY DEF Inv, StoreOK, TxnsOK, GoodRows, TypeOK

LEMMA InvSolvent == Inv => Solvent
  BY DEF Inv, StoreOK, GoodRows, GoodCash, GoodPosition, Solvent

LEMMA GoodFrom ==
  ASSUME NEW x, NEW contest, NEW participant, NEW account, NEW c, NEW ps, NEW os, NEW ss,
         Holds(x, contest, participant, account, c, ps, os, ss),
         contest \in ContestStatuses \cup {"active", "completed"},
         participant \in {"active", "locked", "disqualified"},
         account \in [status : {"active", "frozen"}, realized : Int],
         GoodCash(c), ps \in [Assets -> PositionRows], \A a \in Assets : GoodPosition(ps[a]),
         os \in [OrderIds -> OrderRows], ss \in Seq(SettlementRows),
         \A i \in OrderIds : os[i].status = "pending" => os[i].quantity > 0
  PROVE  GoodRows(x)
  <1>1. x \in Databases
    BY DEF Holds, Databases, AccountRows, GoodCash
  <1> QED
    BY <1>1 DEF Holds, GoodRows

LEMMA JoinedGood == GoodRows(Joined)
  <1>1. GoodCash(InitialBalance)
    BY MoneyAssumption DEF InitialBalance, GoodCash, CashRows
  <1>2. GoodPosition(EmptyPosition)
    BY DEF EmptyPosition, GoodPosition, PositionRows
  <1>3. NoOrder \in OrderRows /\ NoOrder.status = "none"
    BY NoOrderType DEF NoOrder
  <1>4. << >> \in Seq(SettlementRows)
    OBVIOUS
  <1>5. Joined \in Databases
    BY <1>1, <1>2, <1>3, <1>4 DEF Joined, Databases, AccountRows, GoodCash, GoodPosition
  <1> QED
    BY <1>1, <1>2, <1>3, <1>5 DEF Joined, GoodRows

LEMMA JoinedIsEarliest == \A d : Earlier(Joined, d)
  BY DEF Joined, Earlier, NoOrder

LEMMA InvInit == Init => Inv
  <1> SUFFICES ASSUME Init PROVE Inv
    OBVIOUS
  <1>1. Idle \in Transactions /\ Idle.snap = Joined /\ Idle.op = "idle"
    BY JoinedGood DEF Idle, Transactions, GoodRows
  <1>2. StoreOK
    BY JoinedGood DEF Init, StoreOK
  <1>3. TxnsOK
    BY <1>1, JoinedGood, JoinedIsEarliest DEF Init, TxnsOK, Snap, TargetOK
  <1> QED
    BY <1>2, <1>3 DEF Inv

LEMMA EarlierTransitive ==
  ASSUME NEW d, NEW e, NEW f, Earlier(d, e), Earlier(e, f)
  PROVE  Earlier(d, f)
  BY DEF Earlier, SameRequest

\* What a transaction works on.
LEMMA Seen ==
  ASSUME Inv, NEW t \in Txns, tx[t].op \in {"cancel", "fill", "exit"}
  PROVE  /\ tx[t].order \in OrderIds
         /\ OrderSeen(t) \in OrderRows /\ OrderSeen(t).asset \in Assets
         /\ OrderSeen(t).quantity \in Nat
         /\ tx[t].op # "exit" => OrderSeen(t).quantity > 0
         /\ SameRequest(OrderSeen(t), db.orders[tx[t].order])
         /\ db.orders[tx[t].order].status # "none"
         /\ Snap(t).account.realized \in Int
  <1>1. tx[t].order \in OrderIds /\ OrderSeen(t).status # "none"
    BY DEF Inv, TxnsOK, TargetOK
  <1>2. GoodRows(Snap(t)) /\ Earlier(Snap(t), db)
    BY DEF Inv, TxnsOK
  <1>3. OrderSeen(t) \in OrderRows
    BY <1>1, <1>2 DEF GoodRows, Databases, AccountRows, OrderSeen
  <1>4. tx[t].op # "exit" => OrderSeen(t).quantity > 0
    BY <1>1, <1>2 DEF Inv, TxnsOK, TargetOK, GoodRows, OrderSeen
  <1>5. SameRequest(OrderSeen(t), db.orders[tx[t].order]) /\ db.orders[tx[t].order].status # "none"
    BY <1>1, <1>2 DEF Earlier, OrderSeen
  <1>6. Snap(t).account.realized \in Int
    BY <1>2 DEF GoodRows, Databases, AccountRows
  <1> QED
    BY <1>1, <1>3, <1>4, <1>5, <1>6 DEF OrderRows


-----------------------------------------------------------------------------
(* One commit: the rows stay good, and no order is unmade.                 *)

Progress == GoodRows(db') /\ Earlier(db, db') /\ booked' \in Int /\ window' = window

\* An order that is new, or keeps its request and stays final once final.
LEMMA OneOrderLater ==
  ASSUME NEW d, NEW e, NEW i \in OrderIds, NEW o, d.orders \in [OrderIds -> OrderRows],
         e.orders = [d.orders EXCEPT ![i] = o],
         d.orders[i].status # "none" =>
             SameRequest(d.orders[i], o) /\ o.status # "none" /\ (Final(d.orders[i]) => Final(o))
  PROVE  Earlier(d, e)
  BY DEF Earlier, SameRequest

LEMMA GoodParts ==
  ASSUME Inv
  PROVE  /\ db \in Databases /\ GoodRows(db) /\ GoodCash(db.cash)
         /\ \A a \in Assets : GoodPosition(db.positions[a]) /\ db.positions[a] \in PositionRows
         /\ db.positions \in [Assets -> PositionRows]
         /\ db.orders \in [OrderIds -> OrderRows]
         /\ db.contest \in ContestStatuses \cup {"active", "completed"}
         /\ db.participant \in {"active", "locked", "disqualified"}
         /\ db.account \in [status : {"active", "frozen"}, realized : Int]
         /\ db.settlements \in Seq(SettlementRows)
         /\ \A i \in OrderIds : db.orders[i].status = "pending" => db.orders[i].quantity > 0
         /\ booked \in Int
  BY DEF Inv, StoreOK, GoodRows, Databases, AccountRows

\* A commit that writes one order, one position and the cash.
LEMMA TradeProgress ==
  ASSUME Inv, NEW c, NEW a \in Assets, NEW p, NEW i \in OrderIds, NEW o \in OrderRows,
         NEW account \in [status : {"active", "frozen"}, realized : Int],
         Holds(db', db.contest, db.participant, account, c, [db.positions EXCEPT ![a] = p],
               [db.orders EXCEPT ![i] = o], db.settlements),
         GoodCash(c), GoodPosition(p),
         o.status = "pending" => o.quantity > 0,
         db.orders[i].status # "none" =>
             SameRequest(db.orders[i], o) /\ o.status # "none" /\ (Final(db.orders[i]) => Final(o)),
         booked' \in Int, window' = window
  PROVE  Progress
  <1> DEFINE ps == [db.positions EXCEPT ![a] = p]
             os == [db.orders EXCEPT ![i] = o]
  <1>1. /\ ps \in [Assets -> PositionRows]
        /\ \A b \in Assets : GoodPosition(ps[b])
    BY GoodParts DEF GoodPosition
  <1>2. /\ os \in [OrderIds -> OrderRows]
        /\ \A k \in OrderIds : os[k].status = "pending" => os[k].quantity > 0
    BY GoodParts
  <1>0. Holds(db', db.contest, db.participant, account, c, ps, os, db.settlements)
    OBVIOUS
  <1>3. db'.orders = os /\ db.orders \in [OrderIds -> OrderRows]
    BY GoodParts DEF Holds
  <1>4. Earlier(db, db')
    BY ONLY <1>3, OneOrderLater,
            db.orders[i].status # "none" =>
             SameRequest(db.orders[i], o) /\ o.status # "none" /\ (Final(db.orders[i]) => Final(o)),
            i \in OrderIds
  <1> HIDE DEF ps, os
  <1>5. GoodRows(db')
    <2>1. /\ db.contest \in ContestStatuses \cup {"active", "completed"}
          /\ db.participant \in {"active", "locked", "disqualified"}
          /\ db.settlements \in Seq(SettlementRows)
      BY GoodParts
    <2> QED
      BY <1>0, <1>1, <1>2, <2>1, GoodFrom
  <1> QED
    BY <1>4, <1>5 DEF Progress

\* A commit that leaves the positions alone writes one of them as it is.
LEMMA SamePosition ==
  ASSUME Inv, NEW a \in Assets
  PROVE  db.positions = [db.positions EXCEPT ![a] = db.positions[a]]
  BY GoodParts

LEMMA AnAsset == \E a \in Assets : TRUE
  BY SizesAssumption

LEMMA PlacedOrder ==
  ASSUME Inv, NEW t, NEW r \in Requests, NEW q \in Quotes, NEW i \in OrderIds, MayPlace(t, r, q, i)
  PROVE  /\ db.orders[i].status = "none"
         /\ r.asset \in Assets
         /\ GoodPosition(db.positions[r.asset])
         /\ \A s \in {"pending", "filled"}, f \in Nat, n \in Nat :
               OrderOf(r, s, f, n) \in OrderRows /\ OrderOf(r, s, f, n).quantity > 0
         /\ WalkedNotional(r, q) \in Nat
         /\ r.quantity \in Nat \ {0}
  <1>1. r.asset \in Assets /\ r.quantity \in Nat \ {0}
    BY RequestFacts
  <1>2. db.orders[i].status = "none"
    BY DEF MayPlace, NextId
  <1>3. ASSUME NEW s \in {"pending", "filled"}, NEW f \in Nat, NEW n \in Nat
        PROVE  OrderOf(r, s, f, n) \in OrderRows /\ OrderOf(r, s, f, n).quantity > 0
    <2>1. OrderOf(r, s, f, n) \in OrderRows
      BY OrderOfType DEF OrderStatuses
    <2> QED
      BY <1>1, <2>1 DEF OrderOf
  <1> QED
    BY <1>1, <1>2, <1>3, GoodParts, WalkedNotionalNat

LEMMA BuyProgress ==
  ASSUME Inv, NEW t, NEW r \in Requests, NEW q \in Quotes, NEW i \in OrderIds,
         ExecuteBuy(t, r, q, i)
  PROVE  Progress
  <1> DEFINE n == WalkedNotional(r, q)
             o == OrderOf(r, "filled", r.quantity, n)
             c == PayFromAvailable(db.cash, n)
             p == AddLot(db.positions[r.asset], r.quantity, n)
  <1>1. MayPlace(t, r, q, i) /\ Gross(n) <= db.cash.available
    BY DEF ExecuteBuy, Cash
  <1>2. /\ r.asset \in Assets /\ r.quantity \in Nat /\ n \in Nat
        /\ GoodPosition(db.positions[r.asset])
        /\ o \in OrderRows /\ o.quantity > 0 /\ db.orders[i].status = "none"
    BY <1>1, PlacedOrder
  <1>3. GoodCash(c) /\ GoodPosition(p)
    BY <1>1, <1>2, GoodParts, PayFromAvailableGood, AddLotGood
  <1>4. /\ booked' = booked /\ window' = window
        /\ Holds(db', db.contest, db.participant, db.account, c,
                 [db.positions EXCEPT ![r.asset] = p], [db.orders EXCEPT ![i] = o], db.settlements)
    BY GoodParts, ExecuteBuyWrites DEF Ends
  <1> HIDE DEF n, o, c, p
  <1> QED
    BY <1>2, <1>3, <1>4, GoodParts, TradeProgress

LEMMA SellProgress ==
  ASSUME Inv, NEW t, NEW r \in Requests, NEW q \in Quotes, NEW i \in OrderIds,
         ExecuteSell(t, r, q, i)
  PROVE  Progress
  <1> DEFINE n == WalkedNotional(r, q)
             o == OrderOf(r, "filled", r.quantity, n)
             c == Credit(db.cash, n)
             old == db.positions[r.asset]
             p == RemoveLot(old, r.quantity, 0)
             account == [db.account EXCEPT !.realized = @ + RealizedBy(old, r.quantity, n)]
  <1>1. MayPlace(t, r, q, i) /\ r.quantity <= Free(old)
    BY DEF ExecuteSell, Position
  <1>2. /\ r.asset \in Assets /\ r.quantity \in Nat \ {0} /\ n \in Nat
        /\ GoodPosition(old)
        /\ o \in OrderRows /\ o.quantity > 0 /\ db.orders[i].status = "none"
    BY <1>1, PlacedOrder
  <1>3. old.quantity > 0 /\ 0 <= old.locked
    BY <1>1, <1>2 DEF GoodPosition, PositionRows, Free
  <1>4. GoodCash(c) /\ GoodPosition(p) /\ RealizedBy(old, r.quantity, n) \in Int
    <2>1. r.quantity - 0 <= Free(old) /\ 0 <= r.quantity
      BY <1>1, <1>2
    <2>2. GoodPosition(p)
      BY <1>2, <1>3, <2>1, RemoveLotGood
    <2>3. GoodCash(c)
      BY <1>2, GoodParts, CreditGood
    <2> QED
      BY <1>2, <1>3, <2>2, <2>3, RealizedByInt
  <1>5. account \in [status : {"active", "frozen"}, realized : Int]
    BY <1>4, GoodParts
  <1>6. /\ booked' = booked + RealizedBy(old, r.quantity, n) /\ window' = window
        /\ Holds(db', db.contest, db.participant, account, c,
                 [db.positions EXCEPT ![r.asset] = p], [db.orders EXCEPT ![i] = o], db.settlements)
    BY GoodParts, ExecuteSellWrites DEF Ends
  <1>7. booked' \in Int
    BY <1>4, <1>6, GoodParts
  <1> HIDE DEF n, o, c, p, account
  <1> QED
    BY <1>2, <1>4, <1>5, <1>6, <1>7, GoodParts, TradeProgress

LEMMA RestBuyProgress ==
  ASSUME Inv, NEW t, NEW r \in Requests, NEW q \in Quotes, NEW i \in OrderIds,
         RestBuy(t, r, q, i)
  PROVE  Progress
  <1> DEFINE o == OrderOf(r, "pending", 0, 0)
             c == ReserveCash(db.cash, o)
             p == db.positions[r.asset]
  <1>1. MayPlace(t, r, q, i) /\ Reserve(o) <= db.cash.available
    BY DEF RestBuy, Cash
  <1>2. /\ r.asset \in Assets /\ GoodPosition(p)
        /\ o \in OrderRows /\ o.quantity > 0 /\ db.orders[i].status = "none"
    BY <1>1, PlacedOrder
  <1>3. GoodCash(c)
    BY <1>1, <1>2, GoodParts, ReserveCashGood
  <1>4. /\ booked' = booked /\ window' = window
        /\ Holds(db', db.contest, db.participant, db.account, c, db.positions,
                 [db.orders EXCEPT ![i] = o], db.settlements)
    BY GoodParts, RestBuyWrites DEF Ends
  <1>5. db.positions = [db.positions EXCEPT ![r.asset] = p]
    BY <1>2, SamePosition
  <1> HIDE DEF o, c, p
  <1> QED
    BY <1>2, <1>3, <1>4, <1>5, GoodParts, TradeProgress

LEMMA RestSellProgress ==
  ASSUME Inv, NEW t, NEW r \in Requests, NEW q \in Quotes, NEW i \in OrderIds,
         RestSell(t, r, q, i)
  PROVE  Progress
  <1> DEFINE o == OrderOf(r, "pending", 0, 0)
             p == ReserveLot(db.positions[r.asset], o)
  <1>1. MayPlace(t, r, q, i) /\ r.quantity <= Free(db.positions[r.asset])
    BY DEF RestSell, Position
  <1>2. /\ r.asset \in Assets /\ GoodPosition(db.positions[r.asset])
        /\ o \in OrderRows /\ o.quantity > 0 /\ db.orders[i].status = "none"
    BY <1>1, PlacedOrder
  <1>3. GoodPosition(p)
    BY <1>1, <1>2, ReserveLotGood DEF OrderOf
  <1>4. /\ booked' = booked /\ window' = window
        /\ Holds(db', db.contest, db.participant, db.account, db.cash,
                 [db.positions EXCEPT ![r.asset] = p],
                 [db.orders EXCEPT ![i] = o], db.settlements)
    BY GoodParts, RestSellWrites DEF Ends
  <1> HIDE DEF o, p
  <1> QED
    BY <1>2, <1>3, <1>4, GoodParts, TradeProgress

\* What cancelling, completing, skipping or firing leaves of a request.
LEMMA CancelledRow ==
  ASSUME NEW o \in OrderRows
  PROVE  LET new == [o EXCEPT !.status = "cancelled"]
         IN  new \in OrderRows /\ SameRequest(o, new) /\ new.status = "cancelled"
  BY DEF OrderRows, OrderStatuses, SameRequest

LEMMA CompletedRow ==
  ASSUME NEW o \in OrderRows, NEW e \in OrderRows
  PROVE  LET new == Completed(o, e)
         IN  new \in OrderRows /\ SameRequest(o, new) /\ new.status = "filled"
  <1>1. e.quantity \in Nat /\ e.limit * e.quantity \in Nat
    BY ProductNat DEF OrderRows
  <1>2. Completed(o, e) \in OrderRows
    BY <1>1 DEF Completed, OrderRows, OrderStatuses
  <1>3. SameRequest(o, Completed(o, e)) /\ Completed(o, e).status = "filled"
    BY DEF Completed, OrderRows, SameRequest
  <1> QED
    BY <1>2, <1>3

LEMMA SkippedRow ==
  ASSUME NEW o \in OrderRows
  PROVE  LET new == [o EXCEPT !.exit = "skipped"]
         IN  new \in OrderRows /\ SameRequest(o, new) /\ new.status = o.status
  BY DEF OrderRows, SameRequest

LEMMA FiredRow ==
  ASSUME NEW o \in OrderRows, NEW kind \in ExitKinds, NEW j \in OrderIds
  PROVE  LET new == [o EXCEPT !.exit = kind, !.exitOrder = j]
         IN  new \in OrderRows /\ SameRequest(o, new) /\ new.status = o.status
  BY DEF OrderRows, SameRequest

LEMMA CancelBuyProgress ==
  ASSUME Inv, NEW t \in Txns, CancelBuy(t)
  PROVE  Progress
  <1> DEFINE i == tx[t].order
             o == [db.orders[i] EXCEPT !.status = "cancelled"]
             c == ReleaseCash(db.cash, OrderSeen(t))
             a == OrderSeen(t).asset
             p == db.positions[a]
  <1>1. tx[t].op = "cancel"
    BY DEF CancelBuy
  <1>2. /\ i \in OrderIds /\ a \in Assets /\ OrderSeen(t) \in OrderRows
        /\ db.orders[i] \in OrderRows
    BY <1>1, Seen, GoodParts
  <1>3. o \in OrderRows /\ SameRequest(db.orders[i], o) /\ o.status = "cancelled"
    BY <1>2, CancelledRow
  <1>4. GoodCash(c) /\ GoodPosition(p)
    BY <1>2, GoodParts, ReleaseCashGood
  <1>5. /\ booked' = booked /\ window' = window
        /\ Holds(db', db.contest, db.participant, db.account, c, db.positions,
                 [db.orders EXCEPT ![i] = o], db.settlements)
    BY <1>2, GoodParts, CancelBuyWrites DEF Ends
  <1>6. db.positions = [db.positions EXCEPT ![a] = p]
    BY <1>2, SamePosition
  <1> HIDE DEF i, o, c, a, p
  <1>7. Holds(db', db.contest, db.participant, db.account, c, [db.positions EXCEPT ![a] = p],
              [db.orders EXCEPT ![i] = o], db.settlements)
    BY <1>5, <1>6
  <1> QED
    BY <1>2, <1>3, <1>4, <1>5, <1>7, GoodParts, TradeProgress DEF Final

LEMMA CancelSellProgress ==
  ASSUME Inv, NEW t \in Txns, CancelSell(t)
  PROVE  Progress
  <1> DEFINE i == tx[t].order
             o == [db.orders[i] EXCEPT !.status = "cancelled"]
             a == OrderSeen(t).asset
             p == ReleaseLot(db.positions[a], OrderSeen(t))
  <1>1. tx[t].op = "cancel"
    BY DEF CancelSell
  <1>2. /\ i \in OrderIds /\ a \in Assets /\ OrderSeen(t) \in OrderRows
        /\ db.orders[i] \in OrderRows
    BY <1>1, Seen, GoodParts
  <1>3. o \in OrderRows /\ SameRequest(db.orders[i], o) /\ o.status = "cancelled"
    BY <1>2, CancelledRow
  <1>4. GoodPosition(p)
    BY <1>2, GoodParts, ReleaseLotGood
  <1>5. /\ booked' = booked /\ window' = window
        /\ Holds(db', db.contest, db.participant, db.account, db.cash,
                 [db.positions EXCEPT ![a] = p],
                 [db.orders EXCEPT ![i] = o], db.settlements)
    BY <1>2, GoodParts, CancelSellWrites DEF Ends
  <1> HIDE DEF i, o, a, p
  <1> QED
    BY <1>2, <1>3, <1>4, <1>5, GoodParts, TradeProgress DEF Final

LEMMA FillBuyProgress ==
  ASSUME Inv, NEW t \in Txns, FillBuy(t)
  PROVE  Progress
  <1> DEFINE i == tx[t].order
             e == OrderSeen(t)
             n == e.limit * e.quantity
             o == Completed(db.orders[i], e)
             c == PayFromLocked(db.cash, e)
             a == e.asset
             p == AddLot(db.positions[a], e.quantity, n)
  <1>1. tx[t].op = "fill" /\ Reserve(e) <= db.cash.locked
    BY DEF FillBuy, Cash
  <1>2. /\ i \in OrderIds /\ a \in Assets /\ e \in OrderRows
        /\ db.orders[i] \in OrderRows
    BY <1>1, Seen, GoodParts
  <1>3. o \in OrderRows /\ SameRequest(db.orders[i], o) /\ o.status = "filled"
    BY <1>2, CompletedRow
  <1>4. e.quantity \in Nat /\ n \in Nat
    BY <1>2, ProductNat DEF OrderRows
  <1>5. GoodCash(c) /\ GoodPosition(p)
    BY <1>1, <1>2, <1>4, GoodParts, PayFromLockedGood, AddLotGood
  <1>6. /\ booked' = booked /\ window' = window
        /\ Holds(db', db.contest, db.participant, db.account, c,
                 [db.positions EXCEPT ![a] = p],
                 [db.orders EXCEPT ![i] = o], db.settlements)
    BY <1>2, GoodParts, FillBuyWrites DEF Ends
  <1> HIDE DEF i, e, n, o, c, a, p
  <1> QED
    BY <1>2, <1>3, <1>5, <1>6, GoodParts, TradeProgress DEF Final

LEMMA FillSellProgress ==
  ASSUME Inv, NEW t \in Txns, FillSell(t)
  PROVE  Progress
  <1> DEFINE i == tx[t].order
             e == OrderSeen(t)
             n == e.limit * e.quantity
             o == Completed(db.orders[i], e)
             c == Credit(db.cash, n)
             a == e.asset
             old == db.positions[a]
             p == RemoveLot(old, e.quantity, e.quantity)
             profit == RealizedBy(old, e.quantity, n)
             account == [db.account EXCEPT !.realized = Snap(t).account.realized + profit]
  <1>1. tx[t].op = "fill" /\ e.quantity <= old.locked
    BY DEF FillSell, Position
  <1>2. /\ i \in OrderIds /\ a \in Assets /\ e \in OrderRows /\ e.quantity > 0
        /\ db.orders[i] \in OrderRows /\ Snap(t).account.realized \in Int
    BY <1>1, Seen, GoodParts
  <1>3. o \in OrderRows /\ SameRequest(db.orders[i], o) /\ o.status = "filled"
    BY <1>2, CompletedRow
  <1>4. e.quantity \in Nat /\ n \in Nat
    BY <1>2, ProductNat DEF OrderRows
  <1>5. GoodPosition(old)
    BY <1>2, GoodParts
  <1>6. /\ old.quantity > 0 /\ e.quantity <= e.quantity
        /\ e.quantity - e.quantity <= Free(old)
    BY <1>1, <1>2, <1>4, <1>5 DEF GoodPosition, PositionRows, Free
  <1>7. GoodPosition(p)
    BY <1>1, <1>4, <1>5, <1>6, RemoveLotGood
  <1>8. GoodCash(c) /\ profit \in Int
    BY <1>4, <1>5, <1>6, GoodParts, CreditGood, RealizedByInt
  <1>9. account \in [status : {"active", "frozen"}, realized : Int]
    BY <1>2, <1>8, GoodParts
  <1>10. /\ booked' = booked + profit /\ window' = window
         /\ Holds(db', db.contest, db.participant, account, c,
                  [db.positions EXCEPT ![a] = p],
                  [db.orders EXCEPT ![i] = o], db.settlements)
    BY <1>2, GoodParts, FillSellWrites DEF Ends
  <1>11. booked' \in Int
    BY <1>8, <1>10, GoodParts
  <1> HIDE DEF i, e, n, o, c, a, p, account
  <1> QED
    BY <1>2, <1>3, <1>7, <1>8, <1>9, <1>10, <1>11, GoodParts, TradeProgress DEF Final

LEMMA SkipProgress ==
  ASSUME Inv, NEW t \in Txns, NEW kind, SkipExit(t, kind)
  PROVE  Progress
  <1> DEFINE i == tx[t].order
             o == [db.orders[i] EXCEPT !.exit = "skipped"]
             a == OrderSeen(t).asset
             p == db.positions[a]
  <1>1. tx[t].op = "exit"
    BY DEF SkipExit
  <1>2. /\ i \in OrderIds /\ a \in Assets /\ db.orders[i] \in OrderRows
    BY <1>1, Seen, GoodParts
  <1>3. /\ o \in OrderRows /\ SameRequest(db.orders[i], o) /\ o.status = db.orders[i].status
        /\ o.quantity = db.orders[i].quantity
    BY <1>2, SkippedRow DEF SameRequest
  <1>4. /\ booked' = booked /\ window' = window
        /\ Holds(db', db.contest, db.participant, db.account, db.cash, db.positions,
                 [db.orders EXCEPT ![i] = o], db.settlements)
    BY <1>2, GoodParts, SkipExitWrites DEF Ends
  <1>5. db.positions = [db.positions EXCEPT ![a] = p] /\ GoodPosition(p)
    BY <1>2, SamePosition, GoodParts
  <1>6. o.status = "pending" => o.quantity > 0
    BY <1>2, <1>3, GoodParts
  <1> HIDE DEF i, o, a, p
  <1> QED
    BY <1>2, <1>3, <1>4, <1>5, <1>6, GoodParts, TradeProgress DEF Final


\* The order an exit would store is none that exists.
LEMMA ExitIsNew ==
  ASSUME Inv, NEW t \in Txns, NEW kind, NEW j \in OrderIds, FillExit(t, kind, j)
  PROVE  tx[t].op = "exit" /\ j # tx[t].order /\ db.orders[j].status = "none"
  BY Seen DEF FillExit, NextId

\* What an exit sells.
LEMMA ExitFacts ==
  ASSUME Inv, NEW t \in Txns, NEW kind \in ExitKinds, NEW j \in OrderIds, FillExit(t, kind, j)
  PROVE  LET e == OrderSeen(t)
             p == db.positions[e.asset]
             k == ExitSize(t)
             n == ExitPrice(e, kind) * k
         IN  /\ e \in OrderRows /\ e.asset \in Assets /\ tx[t].order \in OrderIds
             /\ k \in Nat /\ k <= Free(p) /\ n \in Nat /\ k <= e.filled
             /\ GoodPosition(p) /\ p.quantity > 0 /\ p.locked \in Nat
             /\ RealizedBy(p, k, n) \in Int
             /\ Snap(t).account.realized \in Int
  <1> DEFINE e == OrderSeen(t)
             p == db.positions[e.asset]
             k == ExitSize(t)
             n == ExitPrice(e, kind) * k
  <1>1. /\ e \in OrderRows /\ e.asset \in Assets /\ tx[t].order \in OrderIds
        /\ Snap(t).account.realized \in Int
    BY ExitIsNew, Seen
  <1>2. GoodPosition(p) /\ Free(p) > 0
    BY <1>1, GoodParts DEF FillExit, Position
  <1>3. p.quantity > 0 /\ p.locked \in Nat /\ Free(p) \in Nat
    BY <1>2 DEF GoodPosition, PositionRows, Free
  <1>4. e.filled \in Nat /\ ExitPrice(e, kind) \in Nat
    BY <1>1 DEF OrderRows, ExitPrice
  <1>5. k \in Nat /\ k <= Free(p) /\ k <= e.filled
    BY <1>3, <1>4 DEF ExitSize
  <1>6. n \in Nat
    BY <1>4, <1>5, ProductNat
  <1>7. RealizedBy(p, k, n) \in Int
    BY <1>2, <1>3, <1>5, <1>6, RealizedByInt
  <1> QED
    BY <1>1, <1>2, <1>3, <1>5, <1>6, <1>7

LEMMA ExitProgress ==
  ASSUME Inv, NEW t \in Txns, NEW kind \in ExitKinds, NEW j \in OrderIds, FillExit(t, kind, j)
  PROVE  Progress
  <1> DEFINE i == tx[t].order
             e == OrderSeen(t)
             k == ExitSize(t)
             n == ExitPrice(e, kind) * k
             c == Credit(db.cash, n)
             a == e.asset
             old == db.positions[a]
             p == RemoveLot(old, k, 0)
             profit == RealizedBy(old, k, n)
             account == [db.account EXCEPT !.realized = Snap(t).account.realized + profit]
             o == [db.orders[i] EXCEPT !.exit = kind, !.exitOrder = j]
             new == ExitOrderOf(i, e, kind, k, n)
             ps == [db.positions EXCEPT ![a] = p]
             os == [db.orders EXCEPT ![i] = o, ![j] = new]
  <1>1. /\ e \in OrderRows /\ a \in Assets /\ i \in OrderIds /\ db.orders[i] \in OrderRows
        /\ k \in Nat /\ k <= Free(old) /\ n \in Nat /\ GoodPosition(old) /\ old.quantity > 0
        /\ old.locked \in Nat /\ profit \in Int /\ Snap(t).account.realized \in Int
        /\ j # i /\ db.orders[j].status = "none"
    BY ExitFacts, ExitIsNew, GoodParts
  <1>2. o \in OrderRows /\ SameRequest(db.orders[i], o) /\ o.status = db.orders[i].status
    BY <1>1, FiredRow
  <1>3. new \in OrderRows /\ new.status = "filled"
    BY <1>1, ExitOrderOfType DEF ExitOrderOf
  <1>4. GoodCash(c)
    BY <1>1, GoodParts, CreditGood
  <1>5. GoodPosition(p)
    <2>1. k - 0 <= Free(old) /\ 0 <= old.locked /\ 0 <= k
      BY <1>1
    <2> QED
      BY <1>1, <2>1, RemoveLotGood
  <1>6. account \in [status : {"active", "frozen"}, realized : Int]
    BY <1>1, GoodParts
  <1>7. /\ booked' = booked + profit /\ window' = window
        /\ Holds(db', db.contest, db.participant, account, c, ps, os, db.settlements)
    BY <1>1, GoodParts, FillExitWrites DEF Ends
  <1>8. ps \in [Assets -> PositionRows] /\ \A b \in Assets : GoodPosition(ps[b])
    BY <1>5, GoodParts DEF GoodPosition
  <1>9. /\ os \in [OrderIds -> OrderRows]
        /\ \A x \in OrderIds : os[x].status = "pending" => os[x].quantity > 0
    <2>1. os \in [OrderIds -> OrderRows]
      BY <1>2, <1>3, GoodParts
    <2>2. ASSUME NEW x \in OrderIds, os[x].status = "pending" PROVE os[x].quantity > 0
      <3> HIDE DEF o, new
      <3>1. x # j
        BY <1>3, <2>2, GoodParts
      <3>2. os[x].quantity = db.orders[x].quantity /\ os[x].status = db.orders[x].status
        BY <1>2, <3>1, GoodParts DEF SameRequest
      <3> QED
        BY <2>2, <3>2, GoodParts
    <2> QED
      BY <2>1, <2>2
  <1>10. Earlier(db, db')
    <2> HIDE DEF o, new
    <2>1. ASSUME NEW x \in OrderIds, db.orders[x].status # "none"
          PROVE  SameRequest(db.orders[x], os[x]) /\ os[x].status = db.orders[x].status
      <3>1. x # j
        BY <1>1, <2>1
      <3>2. os[x] = IF x = i THEN o ELSE db.orders[x]
        BY <3>1, GoodParts
      <3> QED
        BY <1>2, <3>2 DEF SameRequest
    <2>2. db'.orders = os
      BY <1>7 DEF Holds
    <2> HIDE DEF os
    <2> QED
      BY <2>1, <2>2 DEF Earlier, Final
  <1> HIDE DEF c, account, ps, os, p
  <1>11. GoodRows(db')
    <2>1. /\ db.contest \in ContestStatuses \cup {"active", "completed"}
          /\ db.participant \in {"active", "locked", "disqualified"}
          /\ db.settlements \in Seq(SettlementRows)
      BY GoodParts
    <2> QED
      BY <1>4, <1>6, <1>7, <1>8, <1>9, <2>1, GoodFrom
  <1>12. booked' \in Int
    BY <1>1, <1>7, GoodParts
  <1> QED
    BY <1>7, <1>10, <1>11, <1>12 DEF Progress

\* A settlement cancels what its snapshot has pending, and nothing else.
LEMMA SettleProgress ==
  ASSUME Inv, NEW t \in Txns, Settle(t)
  PROVE  Progress
  <1> DEFINE s == Snap(t)
             account == [db.account EXCEPT !.status = SettledStatus(s.account, db.account)]
             c == SettledCash(s.cash, db.cash)
             ps == [a \in Assets |-> SettledPosition(s.positions[a], db.positions[a])]
             os == [i \in OrderIds |-> SettledOrder(s.orders[i], db.orders[i])]
             row == [cash |-> s.cash.available + s.cash.locked,
                     holdings |-> [a \in Assets |-> s.positions[a].quantity],
                     status |-> "completed"]
             ss == Append(db.settlements, row)
  <1>1. GoodRows(s) /\ Earlier(s, db)
    BY DEF Inv, TxnsOK
  <1>2. GoodCash(s.cash) /\ \A a \in Assets : GoodPosition(s.positions[a])
    BY <1>1 DEF GoodRows
  <1>3. account \in [status : {"active", "frozen"}, realized : Int]
    BY GoodParts DEF SettledStatus
  <1>4. GoodCash(c)
    BY <1>2, GoodParts DEF SettledCash, GoodCash, CashRows
  <1>5. ps \in [Assets -> PositionRows] /\ \A a \in Assets : GoodPosition(ps[a])
    <2>1. ASSUME NEW a \in Assets
          PROVE  GoodPosition(SettledPosition(s.positions[a], db.positions[a]))
      BY GoodParts, UnlockLotGood DEF SettledPosition
    <2> QED
      BY <2>1 DEF GoodPosition
  <1>6. ASSUME NEW i \in OrderIds
        PROVE  /\ os[i] \in OrderRows
               /\ os[i].status = "pending" => os[i].quantity > 0
               /\ db.orders[i].status # "none" =>
                     /\ SameRequest(db.orders[i], os[i]) /\ os[i].status # "none"
                     /\ Final(db.orders[i]) => Final(os[i])
    <2>1. db.orders[i] \in OrderRows
      BY GoodParts
    <2>2. CASE s.orders[i].status = "pending"
      <3>1. os[i] = [db.orders[i] EXCEPT !.status = "cancelled"]
        BY <2>2 DEF SettledOrder
      <3>2. os[i] \in OrderRows /\ SameRequest(db.orders[i], os[i]) /\ os[i].status = "cancelled"
        BY <2>1, <3>1, CancelledRow
      <3> QED
        BY <3>2 DEF Final
    <2>3. CASE s.orders[i].status # "pending"
      <3>1. os[i] = db.orders[i]
        BY <2>3 DEF SettledOrder
      <3> QED
        BY <2>1, <3>1, GoodParts DEF SameRequest
    <2> QED
      BY <2>2, <2>3
  <1>7. ss \in Seq(SettlementRows)
    <2>1. s.cash.available + s.cash.locked \in Int
      BY <1>2 DEF GoodCash, CashRows
    <2>2. \A a \in Assets : s.positions[a].quantity \in Int
      BY <1>2 DEF GoodPosition, PositionRows
    <2>3. row \in SettlementRows
      BY <2>1, <2>2 DEF SettlementRows
    <2> HIDE DEF row
    <2> QED
      BY <2>3, GoodParts
  <1>8. /\ booked' = booked /\ window' = window
        /\ Holds(db', "completed", db.participant, account, c, ps, os, ss)
    BY GoodParts, SettleWrites DEF Ends
  <1>9. os \in [OrderIds -> OrderRows]
    BY <1>6
  <1>10. db'.orders = os
    BY <1>8 DEF Holds
  <1> HIDE DEF account, c, ps, os, ss
  <1>11. Earlier(db, db')
    BY <1>6, <1>10 DEF Earlier
  <1>12. GoodRows(db')
    <2>1. db.participant \in {"active", "locked", "disqualified"}
      BY GoodParts
    <2>2. "completed" \in ContestStatuses \cup {"active", "completed"}
      OBVIOUS
    <2> QED
      BY <1>3, <1>4, <1>5, <1>6, <1>7, <1>8, <1>9, <2>1, <2>2, GoodFrom
  <1> QED
    BY <1>8, <1>11, <1>12, GoodParts DEF Progress


-----------------------------------------------------------------------------
(* Every step keeps the invariant.                                         *)

LEMMA IdleGood == Idle \in Transactions /\ GoodRows(Idle.snap) /\ Idle.op = "idle" /\ Idle.held = {}
  BY JoinedGood DEF Idle, Transactions, GoodRows

LEMMA EarlierReflexive == \A d : Earlier(d, d)
  BY DEF Earlier, SameRequest

\* What of a transaction the invariant speaks of.
WorksOn(x, d) ==
    /\ x \in Transactions
    /\ GoodRows(x.snap)
    /\ Earlier(x.snap, d)
    /\ x.op \in {"cancel", "fill", "exit"} => x.order \in OrderIds
    /\ x.op \in {"cancel", "fill"} => x.snap.orders[x.order].status = "pending"
    /\ x.op = "exit" => /\ x.snap.orders[x.order].status = "filled"
                        /\ x.snap.orders[x.order].side = "buy"
                        /\ x.snap.orders[x.order].exit = "open"

LEMMA TxnsMeaning ==
  TxnsOK <=> tx \in [Txns -> Transactions] /\ \A t \in Txns : WorksOn(tx[t], db)
  BY DEF TxnsOK, WorksOn, TargetOK, OrderSeen, Snap

LEMMA TxnsMeaningNext ==
  TxnsOK' <=> tx' \in [Txns -> Transactions] /\ \A t \in Txns : WorksOn(tx'[t], db')
  BY DEF TxnsOK, WorksOn, TargetOK, OrderSeen, Snap

LEMMA OneTxn ==
  ASSUME Inv, NEW t \in Txns, NEW x, tx' = [tx EXCEPT ![t] = x], WorksOn(x, db'), Earlier(db, db')
  PROVE  TxnsOK'
  <1>1. tx \in [Txns -> Transactions] /\ \A u \in Txns : WorksOn(tx[u], db)
    BY TxnsMeaning DEF Inv
  <1>2. ASSUME NEW u \in Txns PROVE WorksOn(tx'[u], db')
    <2>1. CASE u = t
      BY <1>1, <2>1
    <2>2. CASE u # t
      <3>1. tx'[u] = tx[u] /\ Earlier(tx[u].snap, db)
        BY <1>1, <2>2 DEF WorksOn
      <3>2. Earlier(tx[u].snap, db')
        BY <3>1, EarlierTransitive
      <3> QED
        BY <1>1, <3>1, <3>2 DEF WorksOn
    <2> QED
      BY <2>1, <2>2
  <1>3. tx' \in [Txns -> Transactions]
    BY <1>1 DEF WorksOn
  <1> QED
    BY <1>2, <1>3, TxnsMeaningNext

LEMMA IdleWorks == \A d : WorksOn(Idle, d)
  <1>1. Idle.snap = Joined
    BY DEF Idle
  <1> QED
    BY <1>1, IdleGood, JoinedIsEarliest DEF WorksOn

LEMMA CommitKeepsInv ==
  ASSUME Inv, NEW t \in Txns, Ends(t), Progress
  PROVE  Inv'
  <1>1. TxnsOK'
    BY IdleWorks, OneTxn DEF Ends, Progress
  <1>2. StoreOK'
    BY DEF Inv, StoreOK, Progress
  <1> QED
    BY <1>1, <1>2 DEF Inv

\* A step that leaves the rows alone.
LEMMA QuietKeepsInv ==
  ASSUME Inv, NEW t \in Txns, NEW x, tx' = [tx EXCEPT ![t] = x], WorksOn(x, db),
         UNCHANGED <<db, window, booked>>
  PROVE  Inv'
  <1>1. TxnsOK'
    BY EarlierReflexive, OneTxn
  <1>2. StoreOK'
    BY DEF Inv, StoreOK, GoodRows
  <1> QED
    BY <1>1, <1>2 DEF Inv

LEMMA LockKeepsInv ==
  ASSUME Inv, NEW t \in Txns, NEW rows \in SUBSET Rows, Lock(t, rows)
  PROVE  Inv'
  <1> DEFINE x == [tx[t] EXCEPT !.held = @ \cup rows]
  <1>1. tx \in [Txns -> Transactions] /\ WorksOn(tx[t], db)
    BY TxnsMeaning DEF Inv
  <1>2. x \in Transactions
    BY <1>1 DEF Transactions
  <1>3. x.op = tx[t].op /\ x.order = tx[t].order /\ x.snap = tx[t].snap
    BY <1>1 DEF Transactions
  <1>4. tx' = [tx EXCEPT ![t] = x] /\ UNCHANGED <<db, window, booked>>
    BY <1>1 DEF Lock
  <1> HIDE DEF x
  <1>5. WorksOn(x, db)
    BY <1>1, <1>2, <1>3 DEF WorksOn
  <1> QED
    BY <1>4, <1>5, QuietKeepsInv

LEMMA LocksAreRows ==
  ASSUME Inv, NEW t \in Txns, NEW a \in Assets
  PROVE  /\ {AccountRow, ContestRow} \in SUBSET Rows /\ {ContestRow} \in SUBSET Rows
         /\ {CashRow} \in SUBSET Rows /\ {PositionRow(a)} \in SUBSET Rows
         /\ tx[t].op \in Reconciling => {OrderRow(tx[t].order)} \in SUBSET Rows
  <1>1. tx[t].op \in Reconciling => tx[t].order \in OrderIds
    BY DEF Inv, TxnsOK, TargetOK, Reconciling
  <1> QED
    BY <1>1 DEF Rows

LEMMA BeginKeepsInv ==
  ASSUME Inv, NEW t \in Txns, NEW op \in Operations, NEW i \in OrderIds \cup {0}, Begin(t, op, i)
  PROVE  Inv'
  <1> DEFINE x == [op |-> op, order |-> i, snap |-> db, held |-> {}]
  <1>1. op \in AllOperations
    BY OperationsAssumption
  <1>2. x \in Transactions
    BY <1>1, GoodParts DEF Transactions
  <1>3. op \in {"cancel", "fill", "exit"} => i \in OrderIds
    BY DEF Begin, Promising
  <1>4. /\ op \in {"cancel", "fill"} => db.orders[i].status = "pending"
        /\ op = "exit" => /\ db.orders[i].status = "filled" /\ db.orders[i].side = "buy"
                          /\ db.orders[i].exit = "open"
    BY DEF Begin, Promising
  <1>5. WorksOn(x, db)
    BY <1>2, <1>3, <1>4, GoodParts, EarlierReflexive DEF WorksOn
  <1>6. tx' = [tx EXCEPT ![t] = x] /\ UNCHANGED <<db, window, booked>>
    BY DEF Begin
  <1> HIDE DEF x
  <1> QED
    BY <1>5, <1>6, QuietKeepsInv

\* A commit by t, and what it is.
Commits(t) == Place(t) \/ CancelBuy(t) \/ CancelSell(t) \/ Reconcile(t) \/ Settle(t)

LEMMA CommitEnds ==
  ASSUME NEW t \in Txns, Commits(t)
  PROVE  Ends(t)
  <1>1. CASE Place(t)
    BY <1>1 DEF Place, ExecuteBuy, ExecuteSell, RestBuy, RestSell, Commit, Ends
  <1>2. CASE CancelBuy(t)
    BY <1>2 DEF CancelBuy, Commit, Ends
  <1>3. CASE CancelSell(t)
    BY <1>3 DEF CancelSell, Commit, Ends
  <1>4. CASE Reconcile(t)
    <2>1. CASE FillBuy(t)
      BY <2>1 DEF FillBuy, Commit, Ends
    <2>2. CASE FillSell(t)
      BY <2>2 DEF FillSell, Commit, Ends
    <2>3. ASSUME NEW kind, SkipExit(t, kind) PROVE Ends(t)
      BY <2>3 DEF SkipExit, Commit, Ends
    <2>4. ASSUME NEW kind, NEW j, FillExit(t, kind, j) PROVE Ends(t)
      BY <2>4 DEF FillExit, Commit, Ends
    <2> QED
      BY <1>4, <2>1, <2>2, <2>3, <2>4 DEF Reconcile
  <1>5. CASE Settle(t)
    BY <1>5 DEF Settle, Commit, Ends
  <1> QED
    BY <1>1, <1>2, <1>3, <1>4, <1>5 DEF Commits

LEMMA CommitProgress ==
  ASSUME Inv, NEW t \in Txns, Commits(t)
  PROVE  Progress
  <1>1. CASE Place(t)
    BY <1>1, BuyProgress, SellProgress, RestBuyProgress, RestSellProgress DEF Place
  <1>2. CASE CancelBuy(t)
    BY <1>2, CancelBuyProgress
  <1>3. CASE CancelSell(t)
    BY <1>3, CancelSellProgress
  <1>4. CASE Reconcile(t)
    BY <1>4, FillBuyProgress, FillSellProgress, SkipProgress, ExitProgress DEF Reconcile
  <1>5. CASE Settle(t)
    BY <1>5, SettleProgress
  <1> QED
    BY <1>1, <1>2, <1>3, <1>4, <1>5 DEF Commits

\* An admin's write of the contest or the participant.
LEMMA AdminKeepsInv ==
  ASSUME Inv,
         \/ \E s \in {"active", "locked", "disqualified"} : SetParticipantStatus(s)
         \/ \E s \in ContestStatuses : SetContestStatus(s)
  PROVE  Inv' /\ db'.orders = db.orders /\ UNCHANGED <<tx, window, booked>>
  <1>1. /\ GoodRows(db') /\ db'.orders = db.orders /\ UNCHANGED <<tx, window, booked>>
    <2>1. CASE \E s \in {"active", "locked", "disqualified"} : SetParticipantStatus(s)
      <3>1. PICK s \in {"active", "locked", "disqualified"} : SetParticipantStatus(s)
        BY <2>1
      <3> DEFINE account == [db.account EXCEPT !.status = StandingOf(s)]
      <3>2. Holds(db', db.contest, s, account, db.cash, db.positions, db.orders, db.settlements)
        BY <3>1, GoodParts, WriteStanding DEF SetParticipantStatus
      <3>3. account \in [status : {"active", "frozen"}, realized : Int]
        BY GoodParts DEF StandingOf
      <3> HIDE DEF account
      <3>4. GoodRows(db')
        BY <3>2, <3>3, GoodParts, GoodFrom
      <3> QED
        BY <3>1, <3>2, <3>4 DEF Holds, SetParticipantStatus
    <2>2. CASE \E s \in ContestStatuses : SetContestStatus(s)
      <3>1. PICK s \in ContestStatuses : SetContestStatus(s)
        BY <2>2
      <3>2. Holds(db', s, db.participant, db.account, db.cash, db.positions, db.orders, db.settlements)
        BY <3>1, GoodParts, WriteContest DEF SetContestStatus
      <3>3. GoodRows(db')
        BY <3>2, GoodParts, GoodFrom
      <3> QED
        BY <3>1, <3>2, <3>3 DEF Holds, SetContestStatus
    <2> QED
      BY <2>1, <2>2
  <1>2. Earlier(db, db')
    BY <1>1, EarlierReflexive DEF Earlier
  <1>3. TxnsOK'
    <2>1. tx \in [Txns -> Transactions] /\ \A u \in Txns : WorksOn(tx[u], db)
      BY TxnsMeaning DEF Inv
    <2>2. \A u \in Txns : Earlier(tx[u].snap, db')
      BY <1>2, <2>1, EarlierTransitive DEF WorksOn
    <2>3. \A u \in Txns : WorksOn(tx[u], db')
      BY <2>1, <2>2 DEF WorksOn
    <2> QED
      BY <1>1, <2>1, <2>3, TxnsMeaningNext
  <1>4. StoreOK'
    BY <1>1 DEF Inv, StoreOK
  <1> QED
    BY <1>1, <1>3, <1>4 DEF Inv

\* A step is quiet, a commit, or an admin's.
Locks(t) ==
    \/ LockAccount(t) \/ LockOrder(t) \/ LockCash(t)
    \/ \E force \in BOOLEAN : LockContest(t, force)
    \/ \E a \in Assets : LockPosition(t, a)
Begins(t) == \E op \in Operations, i \in OrderIds \cup {0} : Begin(t, op, i)
Administers ==
    \/ \E s \in {"active", "locked", "disqualified"} : SetParticipantStatus(s)
    \/ \E s \in ContestStatuses : SetContestStatus(s)

LEMMA Steps ==
  ASSUME [Next]_vars
  PROVE  \/ \E t \in Txns : Commits(t) \/ Locks(t) \/ Begins(t) \/ Rollback(t)
         \/ Administers
         \/ Tick
         \/ UNCHANGED vars
  BY DEF Next, Commits, Locks, Begins, Administers

LEMMA LocksKeepInv ==
  ASSUME Inv, NEW t \in Txns, Locks(t)
  PROVE  Inv'
  <1>1. CASE LockAccount(t)
    BY <1>1, LocksAreRows, AnAsset, LockKeepsInv DEF LockAccount
  <1>2. CASE LockOrder(t)
    BY <1>2, LocksAreRows, AnAsset, LockKeepsInv DEF LockOrder
  <1>3. CASE LockCash(t)
    BY <1>3, LocksAreRows, AnAsset, LockKeepsInv DEF LockCash
  <1>4. CASE \E force \in BOOLEAN : LockContest(t, force)
    BY <1>4, LocksAreRows, AnAsset, LockKeepsInv DEF LockContest
  <1>5. CASE \E a \in Assets : LockPosition(t, a)
    BY <1>5, LocksAreRows, LockKeepsInv DEF LockPosition
  <1> QED
    BY <1>1, <1>2, <1>3, <1>4, <1>5 DEF Locks

LEMMA InvStep == Inv /\ [Next]_vars => Inv'
  <1> SUFFICES ASSUME Inv, [Next]_vars PROVE Inv'
    OBVIOUS
  <1>1. ASSUME NEW t \in Txns, Commits(t) PROVE Inv'
    BY <1>1, CommitEnds, CommitProgress, CommitKeepsInv
  <1>2. ASSUME NEW t \in Txns, Locks(t) PROVE Inv'
    BY <1>2, LocksKeepInv
  <1>3. ASSUME NEW t \in Txns, Begins(t) PROVE Inv'
    BY <1>3, BeginKeepsInv DEF Begins
  <1>4. ASSUME NEW t \in Txns, Rollback(t) PROVE Inv'
    BY <1>4, IdleWorks, QuietKeepsInv DEF Rollback
  <1>5. CASE Administers
    BY <1>5, AdminKeepsInv DEF Administers
  <1>6. CASE Tick
    BY <1>6 DEF Tick, Inv, StoreOK, TxnsOK, GoodRows, TargetOK, OrderSeen, Snap, Earlier
  <1>7. CASE UNCHANGED vars
    BY <1>7 DEF vars, Inv, StoreOK, TxnsOK, GoodRows, TargetOK, OrderSeen, Snap, Earlier
  <1> QED
    BY <1>1, <1>2, <1>3, <1>4, <1>5, <1>6, <1>7, Steps

-----------------------------------------------------------------------------

LEMMA AlwaysInv == Spec => []Inv
  BY InvInit, InvStep, PTL DEF Spec

\* The rows and the transactions keep their type: no commit that overlaps
\* another leaves a row the schema would refuse.
THEOREM TypeCorrect == Spec => []TypeOK
  BY AlwaysInv, InvTypeOK, PTL

\* However many requests run at a time, and whatever they have read, no balance
\* and no position gets negative and no unit is promised twice: every check is
\* made on a row that is locked.
THEOREM StaysSolvent == Spec => []Solvent
  BY AlwaysInv, InvSolvent, PTL


-----------------------------------------------------------------------------
(* Which step changes the status of an order.                              *)

StatusStep(t, i) ==
    db'.orders[i].status # db.orders[i].status =>
        \/ tx[t].op = "place" /\ tx[t].held # {} /\ db.orders[i].status = "none"
        \/ tx[t].op \in {"cancel", "fill", "settle"} /\ Snap(t).orders[i].status = "pending"
        \/ /\ tx[t].op = "exit" /\ db.orders[i].status = "none"
           /\ db'.orders[tx[t].order].exitOrder = i

LEMMA PlaceStatus ==
  ASSUME Inv, NEW t \in Txns, Place(t), NEW i \in OrderIds
  PROVE  StatusStep(t, i)
  <1>1. PICK r \in Requests, q \in Quotes, k \in OrderIds :
           ExecuteBuy(t, r, q, k) \/ ExecuteSell(t, r, q, k) \/ RestBuy(t, r, q, k) \/ RestSell(t, r, q, k)
    BY DEF Place
  <1>2. MayPlace(t, r, q, k)
    BY <1>1 DEF ExecuteBuy, ExecuteSell, RestBuy, RestSell
  <1>3. \E o : db'.orders = [db.orders EXCEPT ![k] = o]
    <2> DEFINE n == WalkedNotional(r, q)
               filled == OrderOf(r, "filled", r.quantity, n)
               pending == OrderOf(r, "pending", 0, 0)
               old == db.positions[r.asset]
               profit == RealizedBy(old, r.quantity, n)
    <2>1. CASE ExecuteBuy(t, r, q, k)
      <3>1. Holds(db', db.contest, db.participant, db.account, PayFromAvailable(db.cash, n),
                  [db.positions EXCEPT ![r.asset] = AddLot(old, r.quantity, n)],
                  [db.orders EXCEPT ![k] = filled], db.settlements)
        BY <2>1, GoodParts, ExecuteBuyWrites
      <3> QED
        BY <3>1 DEF Holds
    <2>2. CASE ExecuteSell(t, r, q, k)
      <3>1. Holds(db', db.contest, db.participant, [db.account EXCEPT !.realized = @ + profit],
                  Credit(db.cash, n),
                  [db.positions EXCEPT ![r.asset] = RemoveLot(old, r.quantity, 0)],
                  [db.orders EXCEPT ![k] = filled], db.settlements)
        BY <2>2, GoodParts, ExecuteSellWrites
      <3> QED
        BY <3>1 DEF Holds
    <2>3. CASE RestBuy(t, r, q, k)
      <3>1. Holds(db', db.contest, db.participant, db.account, ReserveCash(db.cash, pending),
                  db.positions, [db.orders EXCEPT ![k] = pending], db.settlements)
        BY <2>3, GoodParts, RestBuyWrites
      <3> QED
        BY <3>1 DEF Holds
    <2>4. CASE RestSell(t, r, q, k)
      <3>1. Holds(db', db.contest, db.participant, db.account, db.cash,
                  [db.positions EXCEPT ![r.asset] = ReserveLot(old, pending)],
                  [db.orders EXCEPT ![k] = pending], db.settlements)
        BY <2>4, GoodParts, RestSellWrites
      <3> QED
        BY <3>1 DEF Holds
    <2> QED
      BY <1>1, <2>1, <2>2, <2>3, <2>4
  <1>4. i # k => db'.orders[i] = db.orders[i]
    BY <1>3, GoodParts
  <1> QED
    BY <1>2, <1>4 DEF MayPlace, NextId, StatusStep

LEMMA CancelStatus ==
  ASSUME Inv, NEW t \in Txns, CancelBuy(t) \/ CancelSell(t), NEW i \in OrderIds
  PROVE  StatusStep(t, i)
  <1>1. tx[t].op = "cancel" /\ tx[t].order \in OrderIds /\ OrderSeen(t).asset \in Assets
        /\ OrderSeen(t).status = "pending"
    BY Seen DEF CancelBuy, CancelSell, Inv, TxnsOK, TargetOK
  <1>2. db'.orders = [db.orders EXCEPT ![tx[t].order] =
                         [db.orders[tx[t].order] EXCEPT !.status = "cancelled"]]
    BY <1>1, GoodParts, CancelBuyWrites, CancelSellWrites DEF Holds
  <1>3. i # tx[t].order => db'.orders[i] = db.orders[i]
    BY <1>2, GoodParts
  <1> QED
    BY <1>1, <1>3 DEF StatusStep, OrderSeen

LEMMA FillStatus ==
  ASSUME Inv, NEW t \in Txns, FillBuy(t) \/ FillSell(t), NEW i \in OrderIds
  PROVE  StatusStep(t, i)
  <1>1. tx[t].op = "fill" /\ tx[t].order \in OrderIds /\ OrderSeen(t).asset \in Assets
        /\ OrderSeen(t).status = "pending"
    BY Seen DEF FillBuy, FillSell, Inv, TxnsOK, TargetOK
  <1>2. db'.orders = [db.orders EXCEPT ![tx[t].order] = Completed(db.orders[tx[t].order], OrderSeen(t))]
    BY <1>1, GoodParts, FillBuyWrites, FillSellWrites DEF Holds
  <1>3. i # tx[t].order => db'.orders[i] = db.orders[i]
    BY <1>2, GoodParts
  <1> QED
    BY <1>1, <1>3 DEF StatusStep, OrderSeen

LEMMA SkipStatus ==
  ASSUME Inv, NEW t \in Txns, NEW kind, SkipExit(t, kind), NEW i \in OrderIds
  PROVE  StatusStep(t, i)
  <1>1. tx[t].op = "exit" /\ tx[t].order \in OrderIds
    BY Seen DEF SkipExit
  <1>2. db'.orders = [db.orders EXCEPT ![tx[t].order] =
                         [db.orders[tx[t].order] EXCEPT !.exit = "skipped"]]
    BY <1>1, GoodParts, SkipExitWrites DEF Holds
  <1>3. db'.orders[i].status = db.orders[i].status
    BY <1>1, <1>2, GoodParts, SkippedRow
  <1> QED
    BY <1>3 DEF StatusStep

LEMMA ExitStatus ==
  ASSUME Inv, NEW t \in Txns, NEW kind \in ExitKinds, NEW j \in OrderIds, FillExit(t, kind, j),
         NEW i \in OrderIds
  PROVE  StatusStep(t, i)
  <1> DEFINE k == tx[t].order
             o == [db.orders[k] EXCEPT !.exit = kind, !.exitOrder = j]
  <1>1. /\ tx[t].op = "exit" /\ j # k /\ db.orders[j].status = "none"
        /\ k \in OrderIds /\ OrderSeen(t).asset \in Assets /\ db.orders[k] \in OrderRows
    BY ExitIsNew, Seen, GoodParts
  <1>2. PICK new : db'.orders = [db.orders EXCEPT ![k] = o, ![j] = new]
    <2> DEFINE e == OrderSeen(t)
               n == ExitPrice(e, kind) * ExitSize(t)
               old == db.positions[e.asset]
               profit == RealizedBy(old, ExitSize(t), n)
    <2>1. Holds(db', db.contest, db.participant,
                [db.account EXCEPT !.realized = Snap(t).account.realized + profit],
                Credit(db.cash, n), [db.positions EXCEPT ![e.asset] = RemoveLot(old, ExitSize(t), 0)],
                [db.orders EXCEPT ![k] = o, ![j] = ExitOrderOf(k, e, kind, ExitSize(t), n)],
                db.settlements)
      BY <1>1, GoodParts, FillExitWrites
    <2> QED
      BY <2>1 DEF Holds
  <1>3. o.status = db.orders[k].status /\ o.exitOrder = j
    BY <1>1, FiredRow DEF OrderRows
  <1> HIDE DEF o, k
  <1>4. db'.orders[k].exitOrder = j /\ db'.orders[k].status = db.orders[k].status
    BY <1>1, <1>2, <1>3, GoodParts
  <1>5. i # j /\ i # k => db'.orders[i] = db.orders[i]
    BY <1>2, GoodParts
  <1> QED
    BY <1>1, <1>4, <1>5 DEF StatusStep, k

LEMMA SettleStatus ==
  ASSUME Inv, NEW t \in Txns, Settle(t), NEW i \in OrderIds
  PROVE  StatusStep(t, i)
  <1>1. db'.orders = [k \in OrderIds |-> SettledOrder(Snap(t).orders[k], db.orders[k])]
    BY GoodParts, SettleWrites DEF Holds
  <1> QED
    BY <1>1 DEF SettledOrder, StatusStep, Settle

LEMMA CommitStatus ==
  ASSUME Inv, NEW t \in Txns, Commits(t), NEW i \in OrderIds
  PROVE  StatusStep(t, i)
  BY PlaceStatus, CancelStatus, FillStatus, SkipStatus, ExitStatus, SettleStatus
     DEF Commits, Reconcile

\* Only commits write the orders.
LEMMA OrdersNeedACommit ==
  ASSUME Inv, [Next]_vars, db'.orders # db.orders
  PROVE  \E t \in Txns : Commits(t)
  <1>1. ASSUME NEW t \in Txns, Locks(t) PROVE db' = db
    BY <1>1 DEF Locks, LockAccount, LockOrder, LockCash, LockContest, LockPosition, Lock
  <1>2. ASSUME NEW t \in Txns, Begins(t) \/ Rollback(t) PROVE db' = db
    BY <1>2 DEF Begins, Begin, Rollback
  <1>3. Administers => db'.orders = db.orders
    BY AdminKeepsInv DEF Administers
  <1>4. Tick \/ UNCHANGED vars => db' = db
    BY DEF Tick, vars
  <1> QED
    BY <1>1, <1>2, <1>3, <1>4, Steps

LEMMA EndsIdle ==
  ASSUME Inv, NEW t \in Txns, Ends(t)
  PROVE  tx'[t].op = "idle"
  BY DEF Inv, TxnsOK, Ends, Idle

LEMMA FinalStep ==
  ASSUME Inv, [Next]_vars, NEW i \in OrderIds,
         db.orders[i].status \in {"filled", "cancelled"}, db'.orders[i].status # db.orders[i].status
  PROVE  \E t \in Txns : /\ tx[t].op \in {"fill", "cancel", "settle"}
                         /\ tx'[t].op = "idle"
                         /\ Snap(t).orders[i].status = "pending"
  <1>1. PICK t \in Txns : Commits(t)
    BY OrdersNeedACommit
  <1>2. StatusStep(t, i) /\ tx'[t].op = "idle"
    BY <1>1, CommitStatus, CommitEnds, EndsIdle
  <1> QED
    BY <1>2 DEF StatusStep

\* An order that was executed or cancelled is only overwritten by a transaction
\* that began while it was pending (fill_pending_limit_order, cancel_order,
\* settle_contest).
THEOREM FinalOrdersAreOnlyOverwrittenBlindly == Spec => FinalIsOverwrittenBlindly
  <1>1. Inv /\ [Next]_vars =>
           [\A i \in OrderIds :
               db.orders[i].status \in {"filled", "cancelled"}
                       /\ db'.orders[i].status # db.orders[i].status =>
                   \E t \in Txns : /\ tx[t].op \in {"fill", "cancel", "settle"}
                                  /\ tx'[t].op = "idle"
                                  /\ Snap(t).orders[i].status = "pending"]_vars
    BY FinalStep
  <1> QED
    BY <1>1, AlwaysInv, PTL DEF Spec, FinalIsOverwrittenBlindly

-----------------------------------------------------------------------------
(* Settlement, as long as no admin reinstates an account it has frozen.    *)

\* What every commit but a settlement leaves alone.
SameStanding ==
    /\ db'.contest = db.contest /\ db'.participant = db.participant
    /\ db'.account.status = db.account.status /\ db'.settlements = db.settlements

LEMMA HeldStanding ==
  ASSUME Inv, NEW c, NEW ps, NEW os, NEW account, account.status = db.account.status,
         Holds(db', db.contest, db.participant, account, c, ps, os, db.settlements)
  PROVE  SameStanding
  BY DEF Holds, SameStanding

LEMMA RealizedStanding ==
  ASSUME Inv, NEW c, NEW ps, NEW os, NEW z,
         Holds(db', db.contest, db.participant, [db.account EXCEPT !.realized = z], c, ps, os,
               db.settlements)
  PROVE  SameStanding
  <1>1. [db.account EXCEPT !.realized = z].status = db.account.status
    BY GoodParts
  <1> QED
    BY <1>1 DEF Holds, SameStanding

LEMMA PlaceStanding ==
  ASSUME Inv, NEW t \in Txns, Place(t)
  PROVE  SameStanding
  <1>1. PICK r \in Requests, q \in Quotes, k \in OrderIds :
           ExecuteBuy(t, r, q, k) \/ ExecuteSell(t, r, q, k) \/ RestBuy(t, r, q, k) \/ RestSell(t, r, q, k)
    BY DEF Place
  <1>2. db \in Databases
    BY GoodParts
  <1>3. CASE ExecuteBuy(t, r, q, k)
    BY <1>2, <1>3, ExecuteBuyWrites, HeldStanding
  <1>4. CASE ExecuteSell(t, r, q, k)
    BY <1>2, <1>4, ExecuteSellWrites, RealizedStanding
  <1>5. CASE RestBuy(t, r, q, k)
    BY <1>2, <1>5, RestBuyWrites, HeldStanding
  <1>6. CASE RestSell(t, r, q, k)
    BY <1>2, <1>6, RestSellWrites, HeldStanding
  <1> QED
    BY <1>1, <1>3, <1>4, <1>5, <1>6

LEMMA CancelStanding ==
  ASSUME Inv, NEW t \in Txns, CancelBuy(t) \/ CancelSell(t)
  PROVE  SameStanding
  <1>1. tx[t].order \in OrderIds /\ OrderSeen(t).asset \in Assets /\ db \in Databases
    BY Seen, GoodParts DEF CancelBuy, CancelSell
  <1>2. CASE CancelBuy(t)
    BY <1>1, <1>2, CancelBuyWrites, HeldStanding
  <1>3. CASE CancelSell(t)
    BY <1>1, <1>3, CancelSellWrites, HeldStanding
  <1> QED
    BY <1>2, <1>3

LEMMA ReconcileStanding ==
  ASSUME Inv, NEW t \in Txns, Reconcile(t)
  PROVE  SameStanding
  <1>0. tx[t].op \in {"cancel", "fill", "exit"}
    <2>1. FillBuy(t) => tx[t].op = "fill"
      BY DEF FillBuy
    <2>2. FillSell(t) => tx[t].op = "fill"
      BY DEF FillSell
    <2>3. \A kind : SkipExit(t, kind) => tx[t].op = "exit"
      BY DEF SkipExit
    <2>4. \A kind, j : FillExit(t, kind, j) => tx[t].op = "exit"
      BY DEF FillExit
    <2> QED
      BY <2>1, <2>2, <2>3, <2>4 DEF Reconcile
  <1>1. tx[t].order \in OrderIds /\ OrderSeen(t).asset \in Assets /\ db \in Databases
    BY <1>0, Seen, GoodParts
  <1>2. CASE FillBuy(t)
    BY <1>1, <1>2, FillBuyWrites, HeldStanding
  <1>3. CASE FillSell(t)
    BY <1>1, <1>3, FillSellWrites, RealizedStanding
  <1>4. ASSUME NEW kind, SkipExit(t, kind) PROVE SameStanding
    BY <1>1, <1>4, SkipExitWrites, HeldStanding
  <1>5. ASSUME NEW kind \in ExitKinds, NEW j \in OrderIds, FillExit(t, kind, j) PROVE SameStanding
    <2>1. j # tx[t].order
      BY <1>5, ExitIsNew
    <2> QED
      BY <1>1, <1>5, <2>1, FillExitWrites, RealizedStanding
  <1> QED
    BY <1>2, <1>3, <1>4, <1>5 DEF Reconcile

LEMMA CommitStanding ==
  ASSUME Inv, NEW t \in Txns, Commits(t)
  PROVE  Settle(t) \/ SameStanding
  BY PlaceStanding, CancelStanding, ReconcileStanding DEF Commits

LEMMA SettleStanding ==
  ASSUME Inv, NEW t \in Txns, Settle(t)
  PROVE  /\ db'.contest = "completed" /\ db'.participant = db.participant
         /\ db'.account.status = SettledStatus(Snap(t).account, db.account)
         /\ Len(db'.settlements) > Len(db.settlements)
         /\ \A u \in Txns \ {t} : AccountRow \notin tx[u].held
         /\ \A i \in OrderIds : db'.orders[i] = SettledOrder(Snap(t).orders[i], db.orders[i])
  <1> DEFINE s == Snap(t)
             account == [db.account EXCEPT !.status = SettledStatus(s.account, db.account)]
             row == [cash |-> s.cash.available + s.cash.locked,
                     holdings |-> [a \in Assets |-> s.positions[a].quantity],
                     status |-> "completed"]
             os == [i \in OrderIds |-> SettledOrder(s.orders[i], db.orders[i])]
  <1>1. Holds(db', "completed", db.participant, account, SettledCash(s.cash, db.cash),
              [a \in Assets |-> SettledPosition(s.positions[a], db.positions[a])], os,
              Append(db.settlements, row))
    BY GoodParts, SettleWrites
  <1>2. account.status = SettledStatus(s.account, db.account)
    BY GoodParts
  <1>3. \A u \in Txns \ {t} : AccountRow \notin tx[u].held
    BY DEF Settle, Commit, Unlocked, SettledRows
  <1> HIDE DEF account, row, os
  <1>4. Len(Append(db.settlements, row)) = Len(db.settlements) + 1 /\ Len(db.settlements) \in Nat
    BY GoodParts
  <1>5. /\ db'.contest = "completed" /\ db'.participant = db.participant
        /\ db'.account = account /\ db'.orders = os /\ db'.settlements = Append(db.settlements, row)
    BY <1>1 DEF Holds
  <1> QED
    BY <1>2, <1>3, <1>4, <1>5 DEF os

\* A user's transaction holds the account it found active, so that it stays
\* active until the transaction ends.
UserHoldsAccount ==
    \A t \in Txns : tx[t].op \in {"place", "cancel"} /\ tx[t].held # {} =>
        AccountRow \in tx[t].held /\ db.account.status = "active"

LEMMA UserHoldsAccountInit == Init => UserHoldsAccount
  BY DEF Init, UserHoldsAccount, Idle

LEMMA UserHoldsAccountStep ==
  ASSUME Inv, UserHoldsAccount, [Next]_vars
  PROVE  UserHoldsAccount'
  <1>0. tx \in [Txns -> Transactions]
    BY DEF Inv, TxnsOK
  <1>1. ASSUME NEW t \in Txns, Commits(t) PROVE UserHoldsAccount'
    <2>1. tx' = [tx EXCEPT ![t] = Idle]
      BY <1>1, CommitEnds DEF Ends
    <2>2. ASSUME NEW u \in Txns, tx'[u].op \in {"place", "cancel"}, tx'[u].held # {}
          PROVE  AccountRow \in tx'[u].held /\ db'.account.status = "active"
      <3>1. u # t /\ tx'[u] = tx[u]
        BY <1>0, <2>1, <2>2 DEF Idle
      <3>2. AccountRow \in tx[u].held /\ db.account.status = "active"
        BY <2>2, <3>1 DEF UserHoldsAccount
      <3>3. ~Settle(t)
        BY <3>1, <3>2, SettleStanding
      <3> QED
        BY <1>1, <3>1, <3>2, <3>3, CommitStanding DEF SameStanding
    <2> QED
      BY <2>2 DEF UserHoldsAccount
  <1>2. ASSUME NEW t \in Txns, Locks(t) PROVE UserHoldsAccount'
    <2>1. db' = db
      BY <1>2 DEF Locks, LockAccount, LockOrder, LockCash, LockContest, LockPosition, Lock
    <2>2. PICK rows : tx' = [tx EXCEPT ![t].held = @ \cup rows]
      BY <1>2 DEF Locks, LockAccount, LockOrder, LockCash, LockContest, LockPosition, Lock
    <2>3. \A u \in Txns : u # t => tx'[u] = tx[u]
      BY <1>0, <2>2
    <2>4. tx'[t].op = tx[t].op /\ tx'[t].held = tx[t].held \cup rows
      BY <1>0, <2>2 DEF Transactions
    <2>5. CASE tx[t].held # {}
      BY <2>1, <2>3, <2>4, <2>5 DEF UserHoldsAccount
    <2>6. CASE tx[t].held = {}
      <3>1. tx[t].op \in {"place", "cancel"} => LockAccount(t)
        BY <1>2, <2>6 DEF Locks, LockOrder, LockContest, LockCash, LockPosition, Reconciling
      <3>2. LockAccount(t) => AccountRow \in tx'[t].held /\ db.account.status = "active"
        BY <1>0 DEF LockAccount, Lock, AccountStatus, Transactions
      <3> QED
        BY <2>1, <2>3, <2>4, <3>1, <3>2 DEF UserHoldsAccount
    <2> QED
      BY <2>5, <2>6
  <1>3. ASSUME NEW t \in Txns, Begins(t) \/ Rollback(t) PROVE UserHoldsAccount'
    BY <1>0, <1>3 DEF Begins, Begin, Rollback, UserHoldsAccount, Idle
  <1>4. CASE Administers
    <2>1. CASE \E s \in {"active", "locked", "disqualified"} : SetParticipantStatus(s)
      BY <2>1 DEF SetParticipantStatus, UserHoldsAccount
    <2>2. CASE \E s \in ContestStatuses : SetContestStatus(s)
      <3>1. db'.account = db.account /\ tx' = tx
        BY <2>2, GoodParts, WriteContest DEF SetContestStatus, Holds
      <3> QED
        BY <3>1 DEF UserHoldsAccount
    <2> QED
      BY <1>4, <2>1, <2>2 DEF Administers
  <1>5. CASE Tick
    BY <1>5 DEF Tick, UserHoldsAccount
  <1>6. CASE UNCHANGED vars
    BY <1>6 DEF vars, UserHoldsAccount
  <1> QED
    BY <1>1, <1>2, <1>3, <1>4, <1>5, <1>6, Steps

NoModeration == "moderate" \notin Operations

\* What was settled, or was seen frozen, is frozen.
StaysFrozen ==
    /\ Len(db.settlements) > 0 => db.account.status = "frozen"
    /\ \A t \in Txns : Snap(t).account.status = "frozen" => db.account.status = "frozen"

LEMMA StaysFrozenInit == Init => StaysFrozen
  BY DEF Init, StaysFrozen, Idle, Joined, Snap

LEMMA StaysFrozenStep ==
  ASSUME NoModeration, Inv, StaysFrozen, [Next]_vars
  PROVE  StaysFrozen'
  <1>0. tx \in [Txns -> Transactions]
    BY DEF Inv, TxnsOK
  <1>i. Idle.snap.account.status = "active"
    BY DEF Idle, Joined
  <1>1. ASSUME NEW t \in Txns, Commits(t) PROVE StaysFrozen'
    <2>1. tx' = [tx EXCEPT ![t] = Idle]
      BY <1>1, CommitEnds DEF Ends
    <2>2. db.account.status = "frozen" => db'.account.status = "frozen"
      BY <1>1, CommitStanding, SettleStanding DEF SameStanding, SettledStatus
    <2>3. Len(db'.settlements) > 0 => db'.account.status = "frozen"
      <3>1. CASE Settle(t)
        <4>1. Snap(t).account.status \in {"active", "frozen"}
          BY DEF Inv, TxnsOK, GoodRows, Databases, AccountRows
        <4> QED
          BY <3>1, <4>1, SettleStanding DEF SettledStatus, StaysFrozen
      <3>2. CASE SameStanding
        BY <3>2 DEF SameStanding, StaysFrozen
      <3> QED
        BY <1>1, <3>1, <3>2, CommitStanding
    <2>4. \A u \in Txns : tx'[u].snap.account.status = "frozen" => Snap(u).account.status = "frozen"
      BY <1>0, <1>i, <2>1 DEF Snap
    <2> QED
      BY <2>2, <2>3, <2>4 DEF StaysFrozen, Snap
  <1>2. ASSUME NEW t \in Txns, Locks(t) PROVE StaysFrozen'
    <2>1. db' = db /\ \E rows : tx' = [tx EXCEPT ![t].held = @ \cup rows]
      BY <1>2 DEF Locks, LockAccount, LockOrder, LockCash, LockContest, LockPosition, Lock
    <2>2. \A u \in Txns : tx'[u].snap = tx[u].snap
      BY <1>0, <2>1 DEF Transactions
    <2> QED
      BY <2>1, <2>2 DEF StaysFrozen, Snap
  <1>3. ASSUME NEW t \in Txns, Begins(t) \/ Rollback(t) PROVE StaysFrozen'
    <2>1. db' = db
      BY <1>3 DEF Begins, Begin, Rollback
    <2>2. \A u \in Txns : tx'[u].snap \in {tx[u].snap, db, Joined}
      BY <1>0, <1>3 DEF Begins, Begin, Rollback, Idle
    <2> QED
      BY <2>1, <2>2 DEF StaysFrozen, Snap, Joined
  <1>4. CASE Administers
    <2>1. PICK s \in ContestStatuses : SetContestStatus(s)
      BY <1>4 DEF Administers, SetParticipantStatus, NoModeration
    <2>2. db'.account = db.account /\ db'.settlements = db.settlements /\ tx' = tx
      BY <2>1, GoodParts, WriteContest DEF SetContestStatus, Holds
    <2> QED
      BY <2>2 DEF StaysFrozen, Snap
  <1>5. CASE Tick
    BY <1>5 DEF Tick, StaysFrozen, Snap
  <1>6. CASE UNCHANGED vars
    BY <1>6 DEF vars, StaysFrozen, Snap
  <1> QED
    BY <1>1, <1>2, <1>3, <1>4, <1>5, <1>6, Steps

LEMMA AlwaysUserHoldsAccount == Spec => []UserHoldsAccount
  <1>1. Inv /\ UserHoldsAccount /\ [Next]_vars => UserHoldsAccount'
    BY UserHoldsAccountStep
  <1> QED
    BY <1>1, UserHoldsAccountInit, AlwaysInv, PTL DEF Spec

LEMMA AlwaysStaysFrozen ==
  ASSUME NoModeration
  PROVE  Spec => []StaysFrozen
  <1>1. Inv /\ StaysFrozen /\ [Next]_vars => StaysFrozen'
    BY StaysFrozenStep
  <1> QED
    BY <1>1, StaysFrozenInit, AlwaysInv, PTL DEF Spec

\* Nothing is placed on a settled account, however long the request that
\* places it has been running: only an exit that was already being executed is
\* still stored (lock_account_for_user, settle_contest).
THEOREM SettledAccountsTakeNoOrders ==
  ASSUME NoModeration
  PROVE  Spec => SettledTakesNoOrders
  <1>1. Inv /\ UserHoldsAccount /\ StaysFrozen /\ [Next]_vars =>
           [Len(db.settlements) > 0 =>
               \A i \in OrderIds :
                   db.orders[i].status = "none" /\ db'.orders[i].status # "none" =>
                       \E j \in OrderIds : db'.orders[j].exitOrder = i]_vars
    <2> SUFFICES ASSUME Inv, UserHoldsAccount, StaysFrozen, [Next]_vars, Len(db.settlements) > 0,
                        NEW i \in OrderIds,
                        db.orders[i].status = "none", db'.orders[i].status # "none"
                 PROVE  \E j \in OrderIds : db'.orders[j].exitOrder = i
      OBVIOUS
    <2>1. PICK t \in Txns : Commits(t)
      BY OrdersNeedACommit
    <2>2. StatusStep(t, i) /\ Earlier(Snap(t), db)
      BY <2>1, CommitStatus DEF Inv, TxnsOK
    <2>3. Snap(t).orders[i].status # "pending"
      BY <2>2 DEF Earlier
    <2>4. ~(tx[t].op = "place" /\ tx[t].held # {})
      BY DEF UserHoldsAccount, StaysFrozen
    <2>5. tx[t].op = "exit" /\ db'.orders[tx[t].order].exitOrder = i
      BY <2>2, <2>3, <2>4 DEF StatusStep
    <2> QED
      BY <2>5, Seen
  <1>2. Spec => []UserHoldsAccount /\ []StaysFrozen /\ []Inv
    BY AlwaysUserHoldsAccount, AlwaysStaysFrozen, AlwaysInv
  <1> QED
    BY <1>1, <1>2, PTL DEF Spec, SettledTakesNoOrders

\* A settlement freezes the account and leaves pending only what was placed
\* after its snapshot.
THEOREM SettlementLeavesOnlyTheUnseen ==
  ASSUME NoModeration
  PROVE  Spec => SettlementLeavesOnlyUnseen
  <1>1. Inv /\ StaysFrozen /\ [Next]_vars =>
           [Len(db'.settlements) > Len(db.settlements) =>
               /\ db'.account.status = "frozen"
               /\ \A i \in OrderIds : db'.orders[i].status = "pending" =>
                     \E t \in Txns : /\ tx[t].op = "settle" /\ tx'[t].op = "idle"
                                    /\ Snap(t).orders[i].status = "none"]_vars
    <2> SUFFICES ASSUME Inv, StaysFrozen, [Next]_vars,
                        Len(db'.settlements) > Len(db.settlements)
                 PROVE  /\ db'.account.status = "frozen"
                        /\ \A i \in OrderIds : db'.orders[i].status = "pending" =>
                              \E t \in Txns : /\ tx[t].op = "settle" /\ tx'[t].op = "idle"
                                             /\ Snap(t).orders[i].status = "none"
      OBVIOUS
    <2>0. Len(db.settlements) \in Nat
      BY GoodParts
    <2>1. ASSUME NEW t \in Txns, Locks(t) \/ Begins(t) \/ Rollback(t) PROVE FALSE
      <3>1. db' = db
        BY <2>1 DEF Locks, LockAccount, LockOrder, LockCash, LockContest, LockPosition, Lock,
                    Begins, Begin, Rollback
      <3> QED
        BY <2>0, <3>1
    <2>2. ~Tick /\ ~UNCHANGED vars
      BY <2>0 DEF Tick, vars
    <2>3. ~Administers
      <3>1. ASSUME Administers PROVE db'.settlements = db.settlements
        <4>1. CASE \E s \in {"active", "locked", "disqualified"} : SetParticipantStatus(s)
          <5>1. PICK s : SetParticipantStatus(s)
            BY <4>1
          <5>2. Holds(db', db.contest, s, [db.account EXCEPT !.status = StandingOf(s)], db.cash,
                      db.positions, db.orders, db.settlements)
            BY <5>1, GoodParts, WriteStanding DEF SetParticipantStatus
          <5> QED
            BY <5>2 DEF Holds
        <4>2. CASE \E s \in ContestStatuses : SetContestStatus(s)
          BY <4>2, GoodParts, WriteContest DEF SetContestStatus, Holds
        <4> QED
          BY <3>1, <4>1, <4>2 DEF Administers
      <3> QED
        BY <2>0, <3>1
    <2>4. PICK t \in Txns : Commits(t)
      BY <2>1, <2>2, <2>3, Steps
    <2>5. Settle(t)
      BY <2>0, <2>4, CommitStanding DEF SameStanding
    <2>6. tx[t].op = "settle" /\ tx'[t].op = "idle"
      BY <2>4, <2>5, CommitEnds, EndsIdle DEF Settle
    <2>7. GoodRows(Snap(t)) /\ Earlier(Snap(t), db)
      BY DEF Inv, TxnsOK
    <2>8. db'.account.status = "frozen"
      BY <2>5, <2>7, SettleStanding DEF SettledStatus, StaysFrozen, GoodRows, Databases, AccountRows
    <2>9. ASSUME NEW i \in OrderIds, db'.orders[i].status = "pending"
          PROVE  Snap(t).orders[i].status = "none"
      <3>1. db'.orders[i] = SettledOrder(Snap(t).orders[i], db.orders[i])
        BY <2>5, SettleStanding
      <3>2. db.orders[i] \in OrderRows /\ Snap(t).orders[i] \in OrderRows
        BY <2>7, GoodParts DEF GoodRows, Databases, AccountRows
      <3>3. Snap(t).orders[i].status # "pending"
        BY <2>9, <3>1, <3>2 DEF SettledOrder, OrderRows
      <3>4. db.orders[i].status = "pending"
        BY <2>9, <3>1, <3>3 DEF SettledOrder
      <3>5. ~Final(Snap(t).orders[i])
        BY <2>7, <3>4 DEF Earlier, Final
      <3> QED
        BY <3>2, <3>3, <3>5 DEF Final, OrderRows, OrderStatuses
    <2> QED
      BY <2>6, <2>8, <2>9
  <1>2. Spec => []StaysFrozen /\ []Inv
    BY AlwaysStaysFrozen, AlwaysInv
  <1> QED
    BY <1>1, <1>2, PTL DEF Spec, SettlementLeavesOnlyUnseen


-----------------------------------------------------------------------------
(* Holdings.  One reconciliation runs at a time, so that the order it is    *)
(* executing has not been executed by another.                             *)

OneReconciler ==
    \A t, u \in Txns : tx[t].op \in Reconciling /\ tx[u].op \in Reconciling => t = u

Unfilled(o) == o.status \in {"none", "pending"} => o.filled = 0 /\ o.notional = 0

HoldingsInv ==
    /\ OneReconciler
    /\ \A i \in OrderIds : Unfilled(db.orders[i])
    /\ \A t \in Txns : tx[t].op = "fill" => db.orders[tx[t].order].filled = 0
    /\ HoldingsBalance(db.positions, db.orders)

LEMMA HoldingsInit == Init => HoldingsInv
  <1> SUFFICES ASSUME Init PROVE HoldingsInv
    OBVIOUS
  <1>1. \A t \in Txns : tx[t].op = "idle"
    BY DEF Init, Idle
  <1>2. \A i \in OrderIds : Unfilled(db.orders[i]) /\ db.orders[i].filled = 0
    BY DEF Init, Joined, NoOrder, Unfilled
  <1>3. ASSUME NEW a \in Assets PROVE db.positions[a].quantity = NetLot(db.orders, a)
    <2>1. \A i \in OrderIds : LotMoved(db.orders[i], a) = 0
      BY <1>2 DEF LotMoved
    <2> DEFINE f == [i \in OrderIds |-> LotMoved(db.orders[i], a)]
    <2>2. \A i \in OrderIds : f[i] = 0
      BY <2>1
    <2> HIDE DEF f
    <2>3. SumFunctionOnSet(f, OrderIds) = 0
      BY <2>2, OrdersFinite, SumZero
    <2>4. NetLot(db.orders, a) = 0
      BY <2>3 DEF NetLot, f
    <2> QED
      BY <2>4 DEF Init, Joined, EmptyPosition
  <1> QED
    BY <1>1, <1>2, <1>3 DEF HoldingsInv, OneReconciler, Reconciling, HoldingsBalance

\* One order and one position change by the same number of units.
LEMMA TradeHoldings ==
  ASSUME Inv, HoldingsInv, NEW a \in Assets, NEW p \in PositionRows,
         NEW i \in OrderIds, NEW o \in OrderRows,
         db'.positions = [db.positions EXCEPT ![a] = p], db'.orders = [db.orders EXCEPT ![i] = o],
         p.quantity - db.positions[a].quantity = LotMoved(o, a) - LotMoved(db.orders[i], a),
         \A b \in Assets \ {a} : LotMoved(o, b) = LotMoved(db.orders[i], b),
         Unfilled(o)
  PROVE  /\ HoldingsBalance(db'.positions, db'.orders)
         /\ \A k \in OrderIds : Unfilled(db'.orders[k])
  <1> DEFINE ps == db'.positions
             os == db'.orders
  <1>1. ps \in [Assets -> PositionRows] /\ os \in [OrderIds -> OrderRows]
    BY GoodParts
  <1>2. \A k \in OrderIds \ {i} : os[k] = db.orders[k]
    BY GoodParts
  <1>3. os[i] = o
    BY GoodParts
  <1>4. ASSUME NEW b \in Assets
        PROVE  ps[b].quantity - db.positions[b].quantity = LotMoved(os[i], b) - LotMoved(db.orders[i], b)
    <2>1. CASE b = a
      BY <1>3, <2>1, GoodParts
    <2>2. CASE b # a
      <3>1. ps[b] = db.positions[b] /\ db.positions[b].quantity \in Int
        BY <2>2, GoodParts DEF PositionRows
      <3>2. LotMoved(o, b) = LotMoved(db.orders[i], b) /\ LotMoved(o, b) \in Int
        BY <2>2, LotMovedInt
      <3> QED
        BY <1>3, <3>1, <3>2
    <2> QED
      BY <2>1, <2>2
  <1>5. HoldingsBalance(ps, os)
    <2>1. db.positions \in [Assets -> PositionRows] /\ db.orders \in [OrderIds -> OrderRows]
      BY GoodParts
    <2>2. HoldingsBalance(db.positions, db.orders)
      BY DEF HoldingsInv
    <2> HIDE DEF ps, os
    <2> QED
      BY ONLY <1>1, <1>2, <1>4, <2>1, <2>2, HoldingsUpdate, i \in OrderIds
  <1>6. \A k \in OrderIds : Unfilled(os[k])
    BY <1>2, <1>3 DEF HoldingsInv
  <1> QED
    BY <1>5, <1>6

\* What each kind of row says it has moved.
LEMMA Moves ==
  ASSUME NEW o \in OrderRows, NEW a \in Assets
  PROVE  /\ o.filled = 0 => LotMoved(o, a) = 0
         /\ o.asset = a /\ o.side = "buy" => LotMoved(o, a) = o.filled
         /\ o.asset = a /\ o.side = "sell" => LotMoved(o, a) = 0 - o.filled
         /\ o.asset # a => LotMoved(o, a) = 0
  BY DEF LotMoved, OrderRows, Sides

\* A trade by an order that has not moved anything yet.
LEMMA FirstTrade ==
  ASSUME Inv, HoldingsInv, NEW a \in Assets, NEW p \in PositionRows,
         NEW i \in OrderIds, NEW o \in OrderRows,
         db'.positions = [db.positions EXCEPT ![a] = p], db'.orders = [db.orders EXCEPT ![i] = o],
         db.orders[i].filled = 0, o.asset = a, Unfilled(o),
         o.side = "buy" => p.quantity = db.positions[a].quantity + o.filled,
         o.side = "sell" => p.quantity = db.positions[a].quantity - o.filled
  PROVE  /\ HoldingsBalance(db'.positions, db'.orders)
         /\ \A k \in OrderIds : Unfilled(db'.orders[k])
  <1>1. db.orders[i] \in OrderRows /\ db.positions[a].quantity \in Int
    BY GoodParts DEF PositionRows
  <1>2. \A b \in Assets : LotMoved(db.orders[i], b) = 0
    BY <1>1, Moves
  <1>3. \A b \in Assets \ {a} : LotMoved(o, b) = 0
    BY Moves
  <1>4. o.side \in {"buy", "sell"} /\ o.filled \in Nat
    BY DEF OrderRows, Sides
  <1>5. p.quantity - db.positions[a].quantity = LotMoved(o, a)
    BY <1>1, <1>4, Moves
  <1>6. LotMoved(o, a) = LotMoved(o, a) - LotMoved(db.orders[i], a)
    BY <1>2, LotMovedInt
  <1> QED
    BY <1>2, <1>3, <1>5, <1>6, TradeHoldings

LEMMA FirstRest ==
  ASSUME Inv, HoldingsInv, NEW a \in Assets,
         NEW i \in OrderIds, NEW o \in OrderRows,
         db'.positions = db.positions, db'.orders = [db.orders EXCEPT ![i] = o],
         db.orders[i].filled = 0, o.filled = 0, Unfilled(o)
  PROVE  /\ HoldingsBalance(db'.positions, db'.orders)
         /\ \A k \in OrderIds : Unfilled(db'.orders[k])
  <1>1. db.orders[i] \in OrderRows /\ db.positions[a] \in PositionRows
    BY GoodParts
  <1>2. \A b \in Assets : LotMoved(db.orders[i], b) = 0 /\ LotMoved(o, b) = 0
    BY <1>1, Moves
  <1>3. db'.positions = [db.positions EXCEPT ![a] = db.positions[a]]
    BY SamePosition
  <1>4. db.positions[a].quantity - db.positions[a].quantity = 0
    BY <1>1 DEF PositionRows
  <1> QED
    BY <1>1, <1>2, <1>3, <1>4, TradeHoldings

LEMMA PlaceHoldings ==
  ASSUME Inv, HoldingsInv, NEW t \in Txns, Place(t)
  PROVE  /\ HoldingsBalance(db'.positions, db'.orders)
         /\ \A k \in OrderIds : Unfilled(db'.orders[k])
  <1>1. PICK r \in Requests, q \in Quotes, i \in OrderIds :
           ExecuteBuy(t, r, q, i) \/ ExecuteSell(t, r, q, i) \/ RestBuy(t, r, q, i) \/ RestSell(t, r, q, i)
    BY DEF Place
  <1> DEFINE n == WalkedNotional(r, q)
             a == r.asset
             old == db.positions[a]
             filled == OrderOf(r, "filled", r.quantity, n)
             pending == OrderOf(r, "pending", 0, 0)
  <1>2. MayPlace(t, r, q, i)
    BY <1>1 DEF ExecuteBuy, ExecuteSell, RestBuy, RestSell
  <1>3. /\ a \in Assets /\ GoodPosition(old) /\ n \in Nat /\ r.quantity \in Nat
        /\ filled \in OrderRows /\ pending \in OrderRows /\ db.orders[i].status = "none"
    BY <1>2, PlacedOrder
  <1>4. db.orders[i].filled = 0 /\ old.quantity \in Int
    BY <1>3 DEF HoldingsInv, Unfilled, GoodPosition, PositionRows
  <1>5. /\ filled.filled = r.quantity /\ filled.asset = a /\ filled.side = r.side /\ Unfilled(filled)
        /\ pending.filled = 0 /\ pending.asset = a /\ pending.side = r.side /\ Unfilled(pending)
        /\ pending.quantity = r.quantity
    BY DEF OrderOf, Unfilled
  <1> HIDE DEF filled, pending
  <1>6. CASE ExecuteBuy(t, r, q, i)
    <2> DEFINE p == AddLot(old, r.quantity, n)
    <2>1. Holds(db', db.contest, db.participant, db.account, PayFromAvailable(db.cash, n),
                [db.positions EXCEPT ![a] = p], [db.orders EXCEPT ![i] = filled], db.settlements)
      BY <1>6, GoodParts, ExecuteBuyWrites DEF filled
    <2>2. p \in PositionRows
      BY <1>3, AddLotGood DEF GoodPosition
    <2>3. p.quantity = old.quantity + r.quantity /\ r.side = "buy"
      BY <1>3, <1>6 DEF AddLot, GoodPosition, PositionRows, ExecuteBuy
    <2> HIDE DEF p
    <2>4. db'.positions = [db.positions EXCEPT ![a] = p] /\ db'.orders = [db.orders EXCEPT ![i] = filled]
      BY <2>1 DEF Holds
    <2> QED
      BY <1>3, <1>4, <1>5, <2>2, <2>3, <2>4, FirstTrade
  <1>7. CASE ExecuteSell(t, r, q, i)
    <2> DEFINE p == RemoveLot(old, r.quantity, 0)
    <2>1. Holds(db', db.contest, db.participant,
                [db.account EXCEPT !.realized = @ + RealizedBy(old, r.quantity, n)],
                Credit(db.cash, n), [db.positions EXCEPT ![a] = p],
                [db.orders EXCEPT ![i] = filled], db.settlements)
      BY <1>7, GoodParts, ExecuteSellWrites DEF filled
    <2>2. db'.positions = [db.positions EXCEPT ![a] = p] /\ db'.orders = [db.orders EXCEPT ![i] = filled]
      BY <2>1 DEF Holds
    <2>3. p \in PositionRows
      <3>1. GoodRows(db')
        BY <1>7, SellProgress DEF Progress
      <3>2. db'.positions[a] = p
        BY <1>3, <2>2, GoodParts
      <3> QED
        BY <1>3, <3>1, <3>2 DEF GoodRows, GoodPosition
    <2>4. p.quantity = old.quantity - r.quantity /\ r.side = "sell"
      BY <1>7 DEF RemoveLot, ExecuteSell
    <2> HIDE DEF p
    <2> QED
      BY <1>3, <1>4, <1>5, <2>2, <2>3, <2>4, FirstTrade
  <1>8. CASE RestBuy(t, r, q, i)
    <2>1. Holds(db', db.contest, db.participant, db.account, ReserveCash(db.cash, pending),
                db.positions, [db.orders EXCEPT ![i] = pending], db.settlements)
      BY <1>8, GoodParts, RestBuyWrites DEF pending
    <2>2. db'.positions = db.positions /\ db'.orders = [db.orders EXCEPT ![i] = pending]
      BY <2>1 DEF Holds
    <2> QED
      BY <1>3, <1>4, <1>5, <2>2, FirstRest
  <1>9. CASE RestSell(t, r, q, i)
    <2> DEFINE p == ReserveLot(old, pending)
    <2>1. Holds(db', db.contest, db.participant, db.account, db.cash,
                [db.positions EXCEPT ![a] = p], [db.orders EXCEPT ![i] = pending], db.settlements)
      BY <1>9, GoodParts, RestSellWrites DEF pending
    <2>2. db'.positions = [db.positions EXCEPT ![a] = p] /\ db'.orders = [db.orders EXCEPT ![i] = pending]
      BY <2>1 DEF Holds
    <2>3. p \in PositionRows /\ p.quantity = old.quantity
      BY <1>3, <1>5 DEF ReserveLot, GoodPosition, PositionRows
    <2>4. /\ p.quantity = old.quantity + pending.filled
          /\ p.quantity = old.quantity - pending.filled
      BY <1>4, <1>5, <2>3
    <2> HIDE DEF p
    <2>5. /\ pending \in OrderRows /\ db.orders[i].filled = 0 /\ pending.asset = a
          /\ Unfilled(pending) /\ p \in PositionRows /\ a \in Assets
      BY <1>3, <1>4, <1>5, <2>3
    <2>6. /\ pending.side = "buy" => p.quantity = db.positions[a].quantity + pending.filled
          /\ pending.side = "sell" => p.quantity = db.positions[a].quantity - pending.filled
      BY <2>4
    <2> HIDE DEF a
    <2> QED
      BY ONLY Inv, HoldingsInv, i \in OrderIds, <2>2, <2>5, <2>6, FirstTrade
  <1> QED
    BY <1>1, <1>6, <1>7, <1>8, <1>9

\* Quantities stay and every order has moved what it had.
LEMMA SameHoldings ==
  ASSUME Inv, HoldingsInv, db'.orders \in [OrderIds -> OrderRows],
         \A a \in Assets : db'.positions[a].quantity = db.positions[a].quantity,
         \A i \in OrderIds : /\ SameMoves(db.orders[i], db'.orders[i])
                             /\ \/ db'.orders[i].status = db.orders[i].status
                                \/ db'.orders[i].status \notin {"none", "pending"}
  PROVE  /\ HoldingsBalance(db'.positions, db'.orders)
         /\ \A k \in OrderIds : Unfilled(db'.orders[k])
  <1>1. \A a \in Assets : NetLot(db'.orders, a) = NetLot(db.orders, a)
    BY SameMovesSameTotals
  <1>2. HoldingsBalance(db'.positions, db'.orders)
    BY <1>1 DEF HoldingsInv, HoldingsBalance
  <1>3. \A k \in OrderIds : Unfilled(db'.orders[k])
    BY DEF HoldingsInv, Unfilled, SameMoves
  <1> QED
    BY <1>2, <1>3

LEMMA CancelHoldings ==
  ASSUME Inv, HoldingsInv, NEW t \in Txns, CancelBuy(t) \/ CancelSell(t)
  PROVE  /\ HoldingsBalance(db'.positions, db'.orders)
         /\ \A k \in OrderIds : Unfilled(db'.orders[k])
         /\ \A k \in OrderIds : db'.orders[k].filled = db.orders[k].filled
  <1> DEFINE i == tx[t].order
             o == [db.orders[i] EXCEPT !.status = "cancelled"]
             a == OrderSeen(t).asset
  <1>1. /\ i \in OrderIds /\ a \in Assets /\ db.orders[i] \in OrderRows /\ OrderSeen(t) \in OrderRows
        /\ db \in Databases
    BY Seen, GoodParts DEF CancelBuy, CancelSell
  <1>2. db'.orders = [db.orders EXCEPT ![i] = o]
    BY <1>1, CancelBuyWrites, CancelSellWrites DEF Holds
  <1>3. o \in OrderRows /\ SameMoves(db.orders[i], o) /\ o.status = "cancelled"
    BY <1>1, CancelledRow DEF OrderRows, SameMoves
  <1> HIDE DEF o
  <1>4. \A k \in OrderIds : /\ db'.orders[k] \in OrderRows
                            /\ SameMoves(db.orders[k], db'.orders[k])
                            /\ \/ db'.orders[k].status = db.orders[k].status
                               \/ db'.orders[k].status \notin {"none", "pending"}
    <2> TAKE k \in OrderIds
    <2>1. db'.orders[k] = IF k = i THEN o ELSE db.orders[k]
      BY <1>2, GoodParts
    <2> QED
      BY <1>3, <2>1, GoodParts DEF SameMoves
  <1>5. db'.orders \in [OrderIds -> OrderRows]
    BY <1>2, <1>3, GoodParts
  <1>6. \A b \in Assets : db'.positions[b].quantity = db.positions[b].quantity
    <2>1. CASE CancelBuy(t)
      BY <1>1, <2>1, CancelBuyWrites DEF Holds
    <2>2. CASE CancelSell(t)
      <3> DEFINE p == ReleaseLot(db.positions[a], OrderSeen(t))
      <3>1. Holds(db', db.contest, db.participant, db.account, db.cash,
                  [db.positions EXCEPT ![a] = p],
                  [db.orders EXCEPT ![i] = [db.orders[i] EXCEPT !.status = "cancelled"]],
                  db.settlements)
        BY <1>1, <2>2, CancelSellWrites
      <3>2. db'.positions = [db.positions EXCEPT ![a] = p]
        BY <3>1 DEF Holds
      <3>3. p.quantity = db.positions[a].quantity
        BY <1>1, GoodParts DEF ReleaseLot, PositionRows
      <3> HIDE DEF p
      <3> QED
        BY <3>2, <3>3, GoodParts
    <2> QED
      BY <2>1, <2>2
  <1> QED
    BY <1>4, <1>5, <1>6, SameHoldings DEF SameMoves


LEMMA FillHoldings ==
  ASSUME Inv, HoldingsInv, NEW t \in Txns, FillBuy(t) \/ FillSell(t)
  PROVE  /\ HoldingsBalance(db'.positions, db'.orders)
         /\ \A k \in OrderIds : Unfilled(db'.orders[k])
  <1> DEFINE i == tx[t].order
             e == OrderSeen(t)
             n == e.limit * e.quantity
             a == e.asset
             old == db.positions[a]
             o == Completed(db.orders[i], e)
  <1>1. tx[t].op = "fill"
    <2>1. FillBuy(t) => tx[t].op = "fill"
      BY DEF FillBuy
    <2>2. FillSell(t) => tx[t].op = "fill"
      BY DEF FillSell
    <2> QED
      BY <2>1, <2>2
  <1>2. /\ i \in OrderIds /\ a \in Assets /\ e \in OrderRows /\ db.orders[i] \in OrderRows
        /\ db \in Databases /\ SameRequest(e, db.orders[i])
    BY <1>1, Seen, GoodParts
  <1>3. db.orders[i].filled = 0
    BY <1>1 DEF HoldingsInv
  <1>4. o \in OrderRows /\ o.asset = a /\ o.side = e.side /\ o.filled = e.quantity /\ Unfilled(o)
    <2>1. o \in OrderRows /\ SameRequest(db.orders[i], o) /\ o.status = "filled"
      BY <1>2, CompletedRow
    <2>2. o.filled = e.quantity
      BY <1>2 DEF Completed, OrderRows
    <2> QED
      BY <1>2, <2>1, <2>2 DEF SameRequest, Unfilled
  <1>5. GoodPosition(old) /\ e.quantity \in Nat /\ n \in Nat /\ old.quantity \in Int
    BY <1>2, GoodParts, ProductNat DEF OrderRows, PositionRows
  <1>6. CASE FillBuy(t)
    <2> DEFINE p == AddLot(old, e.quantity, n)
    <2>1. Holds(db', db.contest, db.participant, db.account, PayFromLocked(db.cash, e),
                [db.positions EXCEPT ![a] = p], [db.orders EXCEPT ![i] = o], db.settlements)
      BY <1>2, <1>6, FillBuyWrites
    <2>2. p \in PositionRows
      BY <1>5, AddLotGood DEF GoodPosition
    <2>3. p.quantity = old.quantity + e.quantity /\ e.side = "buy"
      BY <1>5, <1>6 DEF AddLot, GoodPosition, PositionRows, FillBuy
    <2> HIDE DEF p, o
    <2>4. db'.positions = [db.positions EXCEPT ![a] = p] /\ db'.orders = [db.orders EXCEPT ![i] = o]
      BY <2>1 DEF Holds
    <2>5. /\ o.side = "buy" => p.quantity = db.positions[a].quantity + o.filled
          /\ o.side = "sell" => p.quantity = db.positions[a].quantity - o.filled
          /\ o \in OrderRows /\ Unfilled(o) /\ o.asset = a /\ a \in Assets /\ i \in OrderIds
      BY <1>2, <1>4, <2>3
    <2> HIDE DEF a, i
    <2> QED
      BY ONLY Inv, HoldingsInv, <1>3, <2>2, <2>4, <2>5, FirstTrade
  <1>7. CASE FillSell(t)
    <2> DEFINE p == RemoveLot(old, e.quantity, e.quantity)
    <2>1. Holds(db', db.contest, db.participant,
                [db.account EXCEPT !.realized = Snap(t).account.realized + RealizedBy(old, e.quantity, n)],
                Credit(db.cash, n), [db.positions EXCEPT ![a] = p],
                [db.orders EXCEPT ![i] = o], db.settlements)
      BY <1>2, <1>7, FillSellWrites
    <2>2. db'.positions = [db.positions EXCEPT ![a] = p] /\ db'.orders = [db.orders EXCEPT ![i] = o]
      BY <2>1 DEF Holds
    <2>3. p \in PositionRows
      <3>1. GoodRows(db')
        BY <1>7, FillSellProgress DEF Progress
      <3>2. db'.positions[a] = p
        BY <1>2, <2>2, GoodParts
      <3> QED
        BY <1>2, <3>1, <3>2 DEF GoodRows, GoodPosition
    <2>4. p.quantity = old.quantity - e.quantity /\ e.side = "sell"
      BY <1>7 DEF RemoveLot, FillSell
    <2> HIDE DEF p, o
    <2>5. /\ o.side = "buy" => p.quantity = db.positions[a].quantity + o.filled
          /\ o.side = "sell" => p.quantity = db.positions[a].quantity - o.filled
          /\ o \in OrderRows /\ Unfilled(o) /\ o.asset = a /\ a \in Assets /\ i \in OrderIds
      BY <1>2, <1>4, <2>4
    <2> HIDE DEF a, i
    <2> QED
      BY ONLY Inv, HoldingsInv, <1>3, <2>2, <2>3, <2>5, FirstTrade
  <1> QED
    BY <1>6, <1>7

LEMMA SkipHoldings ==
  ASSUME Inv, HoldingsInv, NEW t \in Txns, NEW kind, SkipExit(t, kind)
  PROVE  /\ HoldingsBalance(db'.positions, db'.orders)
         /\ \A k \in OrderIds : Unfilled(db'.orders[k])
  <1> DEFINE i == tx[t].order
             o == [db.orders[i] EXCEPT !.exit = "skipped"]
  <1>1. tx[t].op = "exit"
    BY DEF SkipExit
  <1>2. i \in OrderIds /\ db.orders[i] \in OrderRows /\ db \in Databases
    BY <1>1, Seen, GoodParts
  <1>3. Holds(db', db.contest, db.participant, db.account, db.cash, db.positions,
              [db.orders EXCEPT ![i] = o], db.settlements)
    BY <1>2, SkipExitWrites
  <1>4. o \in OrderRows /\ SameMoves(db.orders[i], o) /\ o.status = db.orders[i].status
    BY <1>2, SkippedRow DEF OrderRows, SameMoves
  <1> HIDE DEF o
  <1>5. db'.positions = db.positions /\ db'.orders = [db.orders EXCEPT ![i] = o]
    BY <1>3 DEF Holds
  <1>6. \A k \in OrderIds : /\ SameMoves(db.orders[k], db'.orders[k])
                            /\ db'.orders[k].status = db.orders[k].status
    <2> TAKE k \in OrderIds
    <2>1. db'.orders[k] = IF k = i THEN o ELSE db.orders[k]
      BY <1>5, GoodParts
    <2> QED
      BY <1>4, <2>1 DEF SameMoves
  <1>7. db'.orders \in [OrderIds -> OrderRows]
    BY <1>4, <1>5, GoodParts
  <1> QED
    BY <1>5, <1>6, <1>7, SameHoldings

\* An exit stores a sale of its own and moves nothing of the entry it exits.
LEMMA ExitHoldings ==
  ASSUME Inv, HoldingsInv, NEW t \in Txns, NEW kind \in ExitKinds, NEW j \in OrderIds,
         FillExit(t, kind, j)
  PROVE  /\ HoldingsBalance(db'.positions, db'.orders)
         /\ \A k \in OrderIds : Unfilled(db'.orders[k])
  <1> DEFINE i == tx[t].order
             e == OrderSeen(t)
             k == ExitSize(t)
             n == ExitPrice(e, kind) * k
             a == e.asset
             old == db.positions[a]
             p == RemoveLot(old, k, 0)
             o == [db.orders[i] EXCEPT !.exit = kind, !.exitOrder = j]
             new == ExitOrderOf(i, e, kind, k, n)
             mid == [db.orders EXCEPT ![i] = o]
             os == [mid EXCEPT ![j] = new]
             ps == [db.positions EXCEPT ![a] = p]
  <1>1. /\ e \in OrderRows /\ a \in Assets /\ i \in OrderIds /\ db.orders[i] \in OrderRows
        /\ k \in Nat /\ n \in Nat /\ j # i /\ db.orders[j].status = "none" /\ db \in Databases
        /\ GoodPosition(old) /\ db.orders[j] \in OrderRows
    BY ExitFacts, ExitIsNew, GoodParts
  <1>2. Holds(db', db.contest, db.participant,
              [db.account EXCEPT !.realized = Snap(t).account.realized + RealizedBy(old, k, n)],
              Credit(db.cash, n), ps, [db.orders EXCEPT ![i] = o, ![j] = new], db.settlements)
    BY <1>1, FillExitWrites
  <1>3. o \in OrderRows /\ SameMoves(db.orders[i], o) /\ o.status = db.orders[i].status
    BY <1>1, FiredRow DEF OrderRows, SameMoves
  <1>4. new \in OrderRows
    BY <1>1, ExitOrderOfType
  <1>5. new.status = "filled" /\ new.filled = k /\ new.side = "sell" /\ new.asset = a
    BY DEF ExitOrderOf
  <1>6. p.quantity = old.quantity - k
    BY DEF RemoveLot
  <1>7. db'.orders = os /\ db'.positions = ps
    BY <1>2 DEF Holds
  <1>8. ps \in [Assets -> PositionRows]
    <2>1. GoodRows(db')
      BY ExitProgress DEF Progress
    <2> QED
      BY <1>7, <2>1 DEF GoodRows, Databases, AccountRows
  <1>9. mid \in [OrderIds -> OrderRows] /\ os \in [OrderIds -> OrderRows]
    BY <1>3, <1>4, GoodParts
  <1>10. \A x \in OrderIds : mid[x] = IF x = i THEN o ELSE db.orders[x]
    BY GoodParts
  <1>11. \A x \in OrderIds : os[x] = IF x = j THEN new ELSE mid[x]
    BY <1>9
  <1> HIDE DEF p, o, new, mid, os
  <1>12. HoldingsBalance(db.positions, mid)
    <2>1. \A x \in OrderIds : SameMoves(db.orders[x], mid[x])
      BY <1>3, <1>10 DEF SameMoves
    <2>2. \A b \in Assets : NetLot(mid, b) = NetLot(db.orders, b)
      BY <2>1, SameMovesSameTotals
    <2> QED
      BY <2>2 DEF HoldingsInv, HoldingsBalance
  <1>13. ASSUME NEW b \in Assets
         PROVE  ps[b].quantity - db.positions[b].quantity = LotMoved(os[j], b) - LotMoved(mid[j], b)
    <2>1. db.orders[j].filled = 0
      BY <1>1 DEF HoldingsInv, Unfilled
    <2>2. LotMoved(mid[j], b) = 0
      BY <1>1, <1>10, <2>1, Moves
    <2>3. os[j] = new
      BY <1>11
    <2>4. CASE b = a
      <3>1. LotMoved(new, b) = 0 - k
        BY <1>4, <1>5, <2>4, Moves
      <3>2. ps[b] = p /\ db.positions[b] = old
        BY <2>4, GoodParts
      <3>3. old.quantity \in Int
        BY <1>1 DEF GoodPosition, PositionRows
      <3> QED
        BY <1>1, <1>6, <2>2, <2>3, <3>1, <3>2, <3>3
    <2>5. CASE b # a
      <3>1. LotMoved(new, b) = 0
        BY <1>4, <1>5, <2>5, Moves
      <3>2. ps[b] = db.positions[b] /\ db.positions[b].quantity \in Int
        BY <2>5, GoodParts DEF PositionRows
      <3> QED
        BY <2>2, <2>3, <3>1, <3>2
    <2> QED
      BY <2>4, <2>5
  <1> HIDE DEF ps
  <1>14. HoldingsBalance(ps, os)
    <2>1. \A x \in OrderIds \ {j} : os[x] = mid[x]
      BY <1>11
    <2>2. db.positions \in [Assets -> PositionRows]
      BY GoodParts
    <2> QED
      BY ONLY <1>8, <1>9, <1>12, <1>13, <2>1, <2>2, j \in OrderIds, HoldingsUpdate
  <1>15. \A x \in OrderIds : Unfilled(os[x])
    <2> TAKE x \in OrderIds
    <2>1. CASE x = j
      BY <1>5, <1>11, <2>1 DEF Unfilled
    <2>2. CASE x = i /\ x # j
      BY <1>3, <1>10, <1>11, <2>2 DEF Unfilled, SameMoves, HoldingsInv
    <2>3. CASE x # i /\ x # j
      BY <1>10, <1>11, <2>3 DEF HoldingsInv
    <2> QED
      BY <2>1, <2>2, <2>3
  <1> QED
    BY <1>7, <1>14, <1>15

LEMMA SettleHoldings ==
  ASSUME Inv, HoldingsInv, NEW t \in Txns, Settle(t)
  PROVE  /\ HoldingsBalance(db'.positions, db'.orders)
         /\ \A k \in OrderIds : Unfilled(db'.orders[k])
         /\ \A k \in OrderIds : db'.orders[k].filled = db.orders[k].filled
  <1>1. /\ db'.orders = [i \in OrderIds |-> SettledOrder(Snap(t).orders[i], db.orders[i])]
        /\ db'.positions = [a \in Assets |-> SettledPosition(Snap(t).positions[a], db.positions[a])]
    BY GoodParts, SettleWrites DEF Holds
  <1>2. ASSUME NEW i \in OrderIds
        PROVE  /\ SameMoves(db.orders[i], db'.orders[i])
               /\ \/ db'.orders[i].status = db.orders[i].status
                  \/ db'.orders[i].status \notin {"none", "pending"}
    <2>1. db.orders[i] \in OrderRows
      BY GoodParts
    <2> QED
      BY <1>1, <2>1 DEF SettledOrder, SameMoves, OrderRows
  <1>3. \A a \in Assets : db'.positions[a].quantity = db.positions[a].quantity
    <2> TAKE a \in Assets
    <2>1. db.positions[a] \in PositionRows
      BY GoodParts
    <2> QED
      BY <1>1, <2>1 DEF SettledPosition, PositionRows
  <1>4. db'.orders \in [OrderIds -> OrderRows]
    BY SettleProgress DEF Progress, GoodRows, Databases, AccountRows
  <1> QED
    BY <1>2, <1>3, <1>4, SameHoldings DEF SameMoves

\* A placement takes an order that no reconciliation works on.
LEMMA PlaceKeepsFilled ==
  ASSUME Inv, NEW t \in Txns, Place(t), NEW i \in OrderIds, db.orders[i].status # "none"
  PROVE  db'.orders[i] = db.orders[i]
  <1>1. PICK r \in Requests, q \in Quotes, k \in OrderIds :
           ExecuteBuy(t, r, q, k) \/ ExecuteSell(t, r, q, k) \/ RestBuy(t, r, q, k) \/ RestSell(t, r, q, k)
    BY DEF Place
  <1>2. db.orders[k].status = "none"
    BY <1>1 DEF ExecuteBuy, ExecuteSell, RestBuy, RestSell, MayPlace, NextId
  <1>3. db'.orders[i] = db.orders[i]
    <2>1. db \in Databases /\ db.orders \in [OrderIds -> OrderRows] /\ i # k
      BY <1>2, GoodParts
    <2>2. CASE ExecuteBuy(t, r, q, k)
      BY <2>1, <2>2 DEF ExecuteBuy, Commit, Databases, AccountRows
    <2>3. CASE ExecuteSell(t, r, q, k)
      BY <2>1, <2>3 DEF ExecuteSell, Commit, Databases, AccountRows
    <2>4. CASE RestBuy(t, r, q, k)
      BY <2>1, <2>4 DEF RestBuy, Commit, Databases, AccountRows
    <2>5. CASE RestSell(t, r, q, k)
      BY <2>1, <2>5 DEF RestSell, Commit, Databases, AccountRows
    <2> QED
      BY <1>1, <2>2, <2>3, <2>4, <2>5
  <1> QED
    BY <1>3


LEMMA CommitHoldings ==
  ASSUME Inv, HoldingsInv, NEW t \in Txns, Commits(t)
  PROVE  /\ HoldingsBalance(db'.positions, db'.orders)
         /\ \A k \in OrderIds : Unfilled(db'.orders[k])
         /\ \A k \in OrderIds : db.orders[k].status # "none" =>
               tx[t].op \in Reconciling \/ db'.orders[k].filled = db.orders[k].filled
  <1>1. CASE Place(t)
    BY <1>1, PlaceHoldings, PlaceKeepsFilled
  <1>2. CASE CancelBuy(t) \/ CancelSell(t)
    BY <1>2, CancelHoldings
  <1>3. CASE Reconcile(t)
    <2>1. tx[t].op \in Reconciling
      <3>1. FillBuy(t) => tx[t].op = "fill"
        BY DEF FillBuy
      <3>2. FillSell(t) => tx[t].op = "fill"
        BY DEF FillSell
      <3>3. \A kind : SkipExit(t, kind) => tx[t].op = "exit"
        BY DEF SkipExit
      <3>4. \A kind, j : FillExit(t, kind, j) => tx[t].op = "exit"
        BY DEF FillExit
      <3> QED
        BY <1>3, <3>1, <3>2, <3>3, <3>4 DEF Reconcile, Reconciling
    <2>2. HoldingsBalance(db'.positions, db'.orders) /\ \A k \in OrderIds : Unfilled(db'.orders[k])
      BY <1>3, FillHoldings, SkipHoldings, ExitHoldings DEF Reconcile
    <2> QED
      BY <2>1, <2>2
  <1>4. CASE Settle(t)
    BY <1>4, SettleHoldings
  <1> QED
    BY <1>1, <1>2, <1>3, <1>4 DEF Commits

\* Transactions that start no work of another kind leave at most one at it.
LEMMA OneReconcilerKept ==
  ASSUME Inv, OneReconciler, NEW t \in Txns, NEW x, tx' = [tx EXCEPT ![t] = x],
         x.op \in Reconciling => x.op = tx[t].op
  PROVE  OneReconciler'
  <1>1. \A u \in Txns : tx'[u].op \in Reconciling => tx[u].op \in Reconciling
    BY DEF Inv, TxnsOK
  <1> QED
    BY <1>1 DEF OneReconciler

LEMMA HoldingsCommitStep ==
  ASSUME Inv, HoldingsInv, NEW t \in Txns, Commits(t)
  PROVE  HoldingsInv'
  <1>0. tx \in [Txns -> Transactions] /\ Idle.op = "idle"
    BY DEF Inv, TxnsOK, Idle
  <1>1. tx' = [tx EXCEPT ![t] = Idle]
    BY CommitEnds DEF Ends
  <1>2. OneReconciler'
    BY <1>0, <1>1, OneReconcilerKept DEF HoldingsInv, Reconciling
  <1>3. ASSUME NEW u \in Txns, tx'[u].op = "fill" PROVE db'.orders[tx'[u].order].filled = 0
    <2>1. u # t /\ tx'[u] = tx[u]
      BY <1>0, <1>1, <1>3
    <2>2. tx[u].op = "fill" /\ tx[t].op \notin Reconciling
      BY <1>3, <2>1 DEF HoldingsInv, OneReconciler, Reconciling
    <2>3. tx[u].order \in OrderIds /\ db.orders[tx[u].order].status # "none"
          /\ db.orders[tx[u].order].filled = 0
      BY <2>2, Seen DEF HoldingsInv
    <2> QED
      BY <2>1, <2>2, <2>3, CommitHoldings
  <1> QED
    BY <1>2, <1>3, CommitHoldings DEF HoldingsInv

LEMMA HoldingsStep ==
  ASSUME Inv, HoldingsInv, [Next]_vars
  PROVE  HoldingsInv'
  <1>0. tx \in [Txns -> Transactions]
    BY DEF Inv, TxnsOK
  <1>1. ASSUME NEW t \in Txns, Commits(t) PROVE HoldingsInv'
    BY <1>1, HoldingsCommitStep
  <1>2. ASSUME NEW t \in Txns, Locks(t) PROVE HoldingsInv'
    <2>1. PICK rows : db' = db /\ tx' = [tx EXCEPT ![t].held = @ \cup rows]
      BY <1>2 DEF Locks, LockAccount, LockOrder, LockCash, LockContest, LockPosition, Lock
    <2>2. \A u \in Txns : tx'[u].op = tx[u].op /\ tx'[u].order = tx[u].order
      BY <1>0, <2>1 DEF Transactions
    <2> QED
      BY <2>1, <2>2 DEF HoldingsInv, OneReconciler
  <1>3. ASSUME NEW t \in Txns, Begins(t) PROVE HoldingsInv'
    <2>1. PICK op \in Operations, i \in OrderIds \cup {0} : Begin(t, op, i)
      BY <1>3 DEF Begins
    <2> DEFINE x == [op |-> op, order |-> i, snap |-> db, held |-> {}]
    <2>2. tx' = [tx EXCEPT ![t] = x] /\ db' = db /\ x.op = op /\ x.order = i
      BY <2>1 DEF Begin
    <2> HIDE DEF x
    <2>3. \A u \in Txns : tx'[u] = IF u = t THEN x ELSE tx[u]
      BY <1>0, <2>2
    <2>4. op \in Reconciling => \A u \in Txns : tx[u].op \notin Reconciling
      BY <2>1, SerialAssumption DEF Begin, MayStart
    <2>5. OneReconciler'
      BY <2>2, <2>3, <2>4 DEF HoldingsInv, OneReconciler
    <2>6. op = "fill" => i \in OrderIds /\ db.orders[i].status = "pending"
      BY <2>1 DEF Begin, Promising
    <2>7. op = "fill" => db.orders[i].filled = 0
      BY <2>6 DEF HoldingsInv, Unfilled
    <2> QED
      BY <2>2, <2>3, <2>5, <2>7 DEF HoldingsInv
  <1>4. ASSUME NEW t \in Txns, Rollback(t) PROVE HoldingsInv'
    <2>1. tx' = [tx EXCEPT ![t] = Idle] /\ db' = db /\ Idle.op = "idle"
      BY <1>4 DEF Rollback, Idle
    <2>2. OneReconciler'
      BY <2>1, OneReconcilerKept DEF HoldingsInv, Reconciling
    <2>3. \A u \in Txns : tx'[u].op = "fill" => tx'[u] = tx[u]
      BY <1>0, <2>1
    <2> QED
      BY <2>1, <2>2, <2>3 DEF HoldingsInv
  <1>5. CASE Administers
    <2>1. db'.orders = db.orders /\ tx' = tx
      BY <1>5, AdminKeepsInv DEF Administers
    <2>2. db'.positions = db.positions
      <3>1. ASSUME NEW s, SetParticipantStatus(s) PROVE db'.positions = db.positions
        BY <3>1, GoodParts DEF SetParticipantStatus, Databases, AccountRows
      <3>2. ASSUME NEW s, SetContestStatus(s) PROVE db'.positions = db.positions
        BY <3>2, GoodParts DEF SetContestStatus, Databases, AccountRows
      <3> QED
        BY <1>5, <3>1, <3>2 DEF Administers
    <2> QED
      BY <2>1, <2>2 DEF HoldingsInv, OneReconciler
  <1>6. CASE Tick
    BY <1>6 DEF Tick, HoldingsInv, OneReconciler
  <1>7. CASE UNCHANGED vars
    BY <1>7 DEF vars, HoldingsInv, OneReconciler
  <1> QED
    BY <1>1, <1>2, <1>3, <1>4, <1>5, <1>6, <1>7, Steps

LEMMA AlwaysHoldings == Spec => []HoldingsInv
  <1>1. Inv /\ HoldingsInv /\ [Next]_vars => HoldingsInv'
    BY HoldingsStep
  <1> QED
    BY <1>1, HoldingsInit, AlwaysInv, PTL DEF Spec

\* What an account holds of an asset is what its executed orders say it bought
\* and did not sell, although the orders are read from snapshots: an order is
\* executed once, whatever its status says by then.
THEOREM HoldingsMatchTheFills == Spec => []PositionMatchesFills
  <1>1. HoldingsInv => PositionMatchesFills
    BY DEF HoldingsInv, PositionMatchesFills
  <1> QED
    BY <1>1, AlwaysHoldings, PTL


-----------------------------------------------------------------------------
(* The ledger's rules are the database's.                                  *)

LEMMA SameMoney ==
  /\ \A n : Ledger!Gross(n) = Gross(n) /\ Ledger!Net(n) = Net(n)
  /\ \A o : Ledger!Reserve(o) = Reserve(o)
  /\ \A p : Ledger!Free(p) = Free(p)
  /\ \A p, k : Ledger!CostShare(p, k) = CostShare(p, k)
  BY DEF Gross, Ledger!Gross, Net, Ledger!Net, Reserve, Ledger!Reserve, Free, Ledger!Free,
         CostShare, Ledger!CostShare

LEMMA SameChecks ==
  /\ \A s, w : Ledger!OpenForTrading(s, w) = OpenForTrading(s, w)
  /\ \A r, q : /\ Ledger!ValidExits(r, q) = ValidExits(r, q)
               /\ Ledger!Marketable(r, q) = Marketable(r, q)
               /\ Ledger!WalkedNotional(r, q) = WalkedNotional(r, q)
  /\ \A o, k : Ledger!ExitPrice(o, k) = ExitPrice(o, k)
  /\ \A s : Ledger!StandingOf(s) = StandingOf(s)
  /\ Ledger!ExitKinds = ExitKinds
  BY DEF OpenForTrading, Ledger!OpenForTrading, ValidExits, Ledger!ValidExits, TwiceReference,
         Ledger!TwiceReference, Marketable, Ledger!Marketable, WalkedNotional, Ledger!WalkedNotional,
         ExitPrice, Ledger!ExitPrice, StandingOf, Ledger!StandingOf, ExitKinds, Ledger!ExitKinds

LEMMA SameUpdates ==
  /\ \A c, n : /\ Ledger!PayFromAvailable(c, n) = PayFromAvailable(c, n)
               /\ Ledger!Credit(c, n) = Credit(c, n)
  /\ \A c, o : /\ Ledger!PayFromLocked(c, o) = PayFromLocked(c, o)
               /\ Ledger!ReserveCash(c, o) = ReserveCash(c, o)
               /\ Ledger!ReserveLot(c, o) = ReserveLot(c, o)
               /\ Ledger!ReleaseCash(c, o) = ReleaseCash(c, o)
               /\ Ledger!ReleaseLot(c, o) = ReleaseLot(c, o)
  /\ \A p, k, n : /\ Ledger!AddLot(p, k, n) = AddLot(p, k, n)
                  /\ Ledger!RemoveLot(p, k, n) = RemoveLot(p, k, n)
                  /\ Ledger!RealizedBy(p, k, n) = RealizedBy(p, k, n)
  BY SameMoney DEF PayFromAvailable, Ledger!PayFromAvailable, Credit, Ledger!Credit,
         PayFromLocked, Ledger!PayFromLocked, ReserveCash, Ledger!ReserveCash,
         ReserveLot, Ledger!ReserveLot, ReleaseCash, Ledger!ReleaseCash,
         ReleaseLot, Ledger!ReleaseLot, AtLeastZero, Ledger!AtLeastZero,
         AddLot, Ledger!AddLot, RemoveLot, Ledger!RemoveLot, RealizedBy, Ledger!RealizedBy

LEMMA SameRows ==
  /\ \A r, s, f, n : Ledger!OrderOf(r, s, f, n) = OrderOf(r, s, f, n)
  /\ \A i, e, kind, k, n : Ledger!ExitOrderOf(i, e, kind, k, n) = ExitOrderOf(i, e, kind, k, n)
  /\ \A o : Ledger!Completed(o) = Completed(o, o)
  /\ Ledger!NoOrder = NoOrder /\ Ledger!EmptyPosition = EmptyPosition
  /\ Ledger!InitialBalance = InitialBalance
  BY DEF OrderOf, Ledger!OrderOf, ExitOrderOf, Ledger!ExitOrderOf, Completed, Ledger!Completed,
         NoOrder, Ledger!NoOrder, EmptyPosition, Ledger!EmptyPosition,
         InitialBalance, Ledger!InitialBalance

-----------------------------------------------------------------------------
(* The refinement.  It needs clients that wait: a cancellation does not    *)
(* overlap the reconciliation of orders, nor does a change of a            *)
(* participant's standing.  Placements overlap everything.                 *)

Orderly ==
    /\ Operations \subseteq {"place", "cancel", "fill", "exit", "moderate"}
    /\ \E S \in Serial : {"cancel", "fill", "exit"} \subseteq S
    /\ \E S \in Serial : {"fill", "exit", "moderate"} \subseteq S

Working == {"cancel", "fill", "exit"}

\* One transaction at a time works on stored orders, and none settles.
OneWorker ==
    /\ \A t, u \in Txns : tx[t].op \in Working /\ tx[u].op \in Working => t = u
    /\ \A t \in Txns : tx[t].op # "settle"

\* The contest stays active and the account's status follows the participant's.
Standing ==
    /\ db.contest = "active"
    /\ db.account.status = StandingOf(db.participant)
    /\ \A t \in Txns : Snap(t).contest = "active"

\* What a transaction has checked, or has loaded, is still so.
StillSeen ==
    /\ \A t \in Txns : tx[t].op \in Working => db.orders[tx[t].order] = OrderSeen(t)
    /\ \A t \in Txns : tx[t].op \in Reconciling =>
          /\ Snap(t).participant = db.participant
          /\ Snap(t).account.status = db.account.status
    /\ \A t \in Txns : tx[t].op \in {"place"} \cup Reconciling /\ tx[t].held # {} =>
          OpenForTrading("active", window)
    /\ \A t \in Txns : tx[t].op \in Reconciling /\ tx[t].held # {} =>
          Snap(t).account.status = "active" /\ Snap(t).participant = "active"

OrderlyInv == OneWorker /\ Standing /\ StillSeen /\ UserHoldsAccount

LEMMA OrderlyInit == Init => OneWorker /\ Standing /\ StillSeen
  <1> SUFFICES ASSUME Init PROVE OneWorker /\ Standing /\ StillSeen
    OBVIOUS
  <1>1. \A t \in Txns : tx[t] = Idle
    BY DEF Init
  <1>2. Idle.op = "idle" /\ Idle.snap = Joined /\ Idle.held = {}
    BY DEF Idle
  <1>3. OneWorker
    BY <1>1, <1>2 DEF OneWorker, Working
  <1>4. Standing
    BY <1>1, <1>2 DEF Standing, Snap, Init, Joined, StandingOf
  <1>5. StillSeen
    BY <1>1, <1>2 DEF StillSeen, Working, Reconciling
  <1> QED
    BY <1>3, <1>4, <1>5


\* A commit in the absence of settlements.
LEMMA OrderlyCommit ==
  ASSUME Orderly, Inv, OrderlyInv, NEW t \in Txns, Commits(t)
  PROVE  SameStanding /\ ~Settle(t)
  <1>1. ~Settle(t)
    BY DEF Settle, OrderlyInv, OneWorker
  <1> QED
    BY <1>1, CommitStanding

\* Who writes a stored order works on it.
LEMMA OrdersAreTheWorkers ==
  ASSUME Inv, NEW t \in Txns, Commits(t), ~Settle(t), tx[t].op \notin Working,
         NEW i \in OrderIds, db.orders[i].status # "none"
  PROVE  db'.orders[i] = db.orders[i]
  <1>1. CancelBuy(t) => tx[t].op = "cancel"
    BY DEF CancelBuy
  <1>2. CancelSell(t) => tx[t].op = "cancel"
    BY DEF CancelSell
  <1>3. FillBuy(t) => tx[t].op = "fill"
    BY DEF FillBuy
  <1>4. FillSell(t) => tx[t].op = "fill"
    BY DEF FillSell
  <1>5. \A kind : SkipExit(t, kind) => tx[t].op = "exit"
    BY DEF SkipExit
  <1>6. \A kind, j : FillExit(t, kind, j) => tx[t].op = "exit"
    BY DEF FillExit
  <1>7. Place(t)
    BY <1>1, <1>2, <1>3, <1>4, <1>5, <1>6 DEF Commits, Reconcile, Working
  <1> QED
    BY <1>7, PlaceKeepsFilled

LEMMA OrderlyCommitStep ==
  ASSUME Orderly, Inv, OrderlyInv, NEW t \in Txns, Commits(t)
  PROVE  OneWorker' /\ Standing' /\ StillSeen'
  <1>0. tx \in [Txns -> Transactions]
    BY DEF Inv, TxnsOK
  <1>1. tx' = [tx EXCEPT ![t] = Idle] /\ window' = window
    BY CommitEnds DEF Ends
  <1>2. \A u \in Txns : tx'[u] = IF u = t THEN Idle ELSE tx[u]
    BY <1>0, <1>1
  <1>3. Idle.op = "idle" /\ Idle.snap.contest = "active"
    BY DEF Idle, Joined
  <1>4. SameStanding /\ ~Settle(t)
    BY OrderlyCommit
  <1>5. OneWorker'
    BY <1>2, <1>3 DEF OrderlyInv, OneWorker, Working
  <1>6. Standing'
    BY <1>2, <1>3, <1>4 DEF OrderlyInv, Standing, SameStanding, Snap
  <1>7. ASSUME NEW u \in Txns, tx'[u].op \in Working
        PROVE  db'.orders[tx'[u].order] = tx'[u].snap.orders[tx'[u].order]
    <2>1. u # t /\ tx'[u] = tx[u]
      BY <1>2, <1>3, <1>7 DEF Working
    <2>2. tx[t].op \notin Working
      BY <1>7, <2>1 DEF OrderlyInv, OneWorker
    <2>3. tx[u].order \in OrderIds /\ db.orders[tx[u].order].status # "none"
      BY <1>7, <2>1, Seen DEF Working
    <2>4. db'.orders[tx[u].order] = db.orders[tx[u].order]
      BY <1>4, <2>2, <2>3, OrdersAreTheWorkers
    <2> QED
      BY <1>7, <2>1, <2>4 DEF OrderlyInv, StillSeen, OrderSeen, Snap
  <1>8. ASSUME NEW u \in Txns, tx'[u].op \in {"place"} \cup Reconciling
        PROVE  tx'[u] = tx[u]
    BY <1>2, <1>3, <1>8 DEF Reconciling
  <1>9. StillSeen'
    BY <1>1, <1>4, <1>7, <1>8 DEF OrderlyInv, StillSeen, SameStanding, OrderSeen, Snap
  <1> QED
    BY <1>5, <1>6, <1>9

LEMMA OrderlyLockStep ==
  ASSUME Orderly, Inv, OrderlyInv, NEW t \in Txns, Locks(t)
  PROVE  OneWorker' /\ Standing' /\ StillSeen'
  <1>0. tx \in [Txns -> Transactions]
    BY DEF Inv, TxnsOK
  <1>1. /\ db' = db /\ window' = window
        /\ \E rows : tx' = [tx EXCEPT ![t].held = @ \cup rows]
    BY DEF Locks, LockAccount, LockOrder, LockCash, LockContest, LockPosition, Lock
  <1>2. \A u \in Txns : /\ tx'[u].op = tx[u].op /\ tx'[u].order = tx[u].order
                        /\ tx'[u].snap = tx[u].snap
                        /\ u # t => tx'[u] = tx[u]
    BY <1>0, <1>1 DEF Transactions
  <1>3. OneWorker'
    BY <1>2 DEF OrderlyInv, OneWorker
  <1>4. Standing'
    BY <1>1, <1>2 DEF OrderlyInv, Standing, Snap
  <1>5. ASSUME tx[t].held = {}, tx[t].op \in {"place"} \cup Reconciling
        PROVE  /\ OpenForTrading("active", window)
               /\ tx[t].op \in Reconciling =>
                     Snap(t).account.status = "active" /\ Snap(t).participant = "active"
    <2>1. (LockAccount(t) /\ tx[t].op = "place") \/ LockOrder(t)
      BY <1>5 DEF Locks, LockAccount, LockOrder, LockCash, LockContest, LockPosition, Reconciling
    <2>2. Snap(t).contest = "active"
      BY DEF OrderlyInv, Standing
    <2> QED
      BY <2>1, <2>2 DEF LockAccount, LockOrder, Reconciling
  <1>6. StillSeen'
    <2>1. ASSUME NEW u \in Txns, tx'[u].op \in {"place"} \cup Reconciling, tx'[u].held # {}
          PROVE  /\ OpenForTrading("active", window)
                 /\ tx'[u].op \in Reconciling =>
                       tx'[u].snap.account.status = "active" /\ tx'[u].snap.participant = "active"
      <3>1. CASE tx[u].held = {}
        <4>1. u = t
          BY <1>2, <2>1, <3>1
        <4> QED
          BY <1>2, <1>5, <2>1, <3>1, <4>1 DEF Snap
      <3>2. CASE tx[u].held # {}
        BY <1>2, <2>1, <3>2 DEF OrderlyInv, StillSeen, Snap
      <3> QED
        BY <3>1, <3>2
    <2>2. ASSUME NEW u \in Txns
          PROVE  /\ tx'[u].op \in Working => db'.orders[tx'[u].order] = tx'[u].snap.orders[tx'[u].order]
                 /\ tx'[u].op \in Reconciling => /\ tx'[u].snap.participant = db'.participant
                                                 /\ tx'[u].snap.account.status = db'.account.status
      BY <1>1, <1>2 DEF OrderlyInv, StillSeen, OrderSeen, Snap
    <2> QED
      BY <1>1, <2>1, <2>2 DEF StillSeen, OrderSeen, Snap
  <1> QED
    BY <1>3, <1>4, <1>6

LEMMA OrderlyBeginStep ==
  ASSUME Orderly, Inv, OrderlyInv, NEW t \in Txns, Begins(t)
  PROVE  OneWorker' /\ Standing' /\ StillSeen'
  <1>0. tx \in [Txns -> Transactions]
    BY DEF Inv, TxnsOK
  <1>1. PICK op \in Operations, i \in OrderIds \cup {0} : Begin(t, op, i)
    BY DEF Begins
  <1> DEFINE x == [op |-> op, order |-> i, snap |-> db, held |-> {}]
  <1>2. /\ tx' = [tx EXCEPT ![t] = x] /\ db' = db /\ window' = window
        /\ x.op = op /\ x.order = i /\ x.snap = db /\ x.held = {}
    BY <1>1 DEF Begin
  <1> HIDE DEF x
  <1>3. \A u \in Txns : tx'[u] = IF u = t THEN x ELSE tx[u]
    BY <1>0, <1>2
  <1>4. op \in Working => \A u \in Txns : tx[u].op \notin Working
    BY <1>1 DEF Begin, MayStart, Orderly, Working
  <1>5. op # "settle"
    BY DEF Orderly
  <1>6. OneWorker'
    BY <1>2, <1>3, <1>4, <1>5 DEF OrderlyInv, OneWorker
  <1>7. Standing'
    BY <1>2, <1>3 DEF OrderlyInv, Standing, Snap
  <1>8. StillSeen'
    BY <1>2, <1>3 DEF OrderlyInv, StillSeen, OrderSeen, Snap
  <1> QED
    BY <1>6, <1>7, <1>8

LEMMA OrderlyRollbackStep ==
  ASSUME Orderly, Inv, OrderlyInv, NEW t \in Txns, Rollback(t)
  PROVE  OneWorker' /\ Standing' /\ StillSeen'
  <1>0. tx \in [Txns -> Transactions]
    BY DEF Inv, TxnsOK
  <1>1. db' = db /\ window' = window /\ \A u \in Txns : tx'[u] = IF u = t THEN Idle ELSE tx[u]
    BY <1>0 DEF Rollback
  <1>2. Idle.op = "idle" /\ Idle.snap.contest = "active"
    BY DEF Idle, Joined
  <1>3. OneWorker'
    BY <1>1, <1>2 DEF OrderlyInv, OneWorker, Working
  <1>4. Standing'
    BY <1>1, <1>2 DEF OrderlyInv, Standing, Snap
  <1>5. StillSeen'
    BY <1>1, <1>2 DEF OrderlyInv, StillSeen, OrderSeen, Snap, Working, Reconciling
  <1> QED
    BY <1>3, <1>4, <1>5

LEMMA OrderlyAdminStep ==
  ASSUME Orderly, Inv, OrderlyInv, Administers
  PROVE  OneWorker' /\ Standing' /\ StillSeen'
  <1>1. PICK s \in {"active", "locked", "disqualified"} : SetParticipantStatus(s)
    BY DEF Administers, SetContestStatus, Orderly
  <1>2. tx' = tx /\ window' = window
    BY <1>1 DEF SetParticipantStatus
  <1>3. Holds(db', db.contest, s, [db.account EXCEPT !.status = StandingOf(s)], db.cash,
              db.positions, db.orders, db.settlements)
    BY <1>1, GoodParts, WriteStanding DEF SetParticipantStatus
  <1>4. db'.contest = db.contest /\ db'.participant = s /\ db'.orders = db.orders
        /\ db'.account = [db.account EXCEPT !.status = StandingOf(s)]
    BY <1>3 DEF Holds
  <1>5. db'.account.status = StandingOf(s)
    BY <1>4, GoodParts
  <1>6. \A u \in Txns : tx[u].op \notin Reconciling
    BY <1>1 DEF SetParticipantStatus, MayStart, Orderly, Reconciling
  <1>7. OneWorker'
    BY <1>2 DEF OrderlyInv, OneWorker
  <1>8. Standing'
    BY <1>2, <1>4, <1>5 DEF OrderlyInv, Standing, Snap
  <1>9. StillSeen'
    BY <1>2, <1>4, <1>6 DEF OrderlyInv, StillSeen, OrderSeen, Snap
  <1> QED
    BY <1>7, <1>8, <1>9

LEMMA OrderlyStep ==
  ASSUME Orderly, Inv, OrderlyInv, [Next]_vars
  PROVE  OrderlyInv'
  <1>1. UserHoldsAccount'
    BY UserHoldsAccountStep DEF OrderlyInv
  <1>2. ~Tick
    BY DEF Tick, Orderly
  <1>3. UNCHANGED vars => OneWorker' /\ Standing' /\ StillSeen'
    BY DEF vars, OrderlyInv, OneWorker, Standing, StillSeen, OrderSeen, Snap
  <1>4. OneWorker' /\ Standing' /\ StillSeen'
    BY <1>2, <1>3, OrderlyCommitStep, OrderlyLockStep, OrderlyBeginStep, OrderlyRollbackStep,
       OrderlyAdminStep, Steps
  <1> QED
    BY <1>1, <1>4 DEF OrderlyInv


\* A placement finds the account, the participant and the contest as the
\* ledger would.
LEMMA PlaceAllowed ==
  ASSUME Orderly, Inv, OrderlyInv, NEW t \in Txns, NEW r \in Requests, NEW q \in Quotes,
         NEW i \in OrderIds, MayPlace(t, r, q, i)
  PROVE  Ledger!Accepted(r, q) /\ Ledger!NextId(i)
  <1>1. tx[t].op = "place" /\ tx[t].held # {}
    BY DEF MayPlace
  <1>2. db.account.status = "active" /\ OpenForTrading(db.contest, window)
    BY <1>1 DEF OrderlyInv, UserHoldsAccount, StillSeen, Standing
  <1>3. db.participant = "active"
    BY <1>2 DEF OrderlyInv, Standing, StandingOf
  <1>4. Ledger!TradingAllowed
    BY <1>2, <1>3, SameChecks DEF Ledger!TradingAllowed
  <1>5. ~Ledger!Known(r.client)
    BY DEF Ledger!Known, MayPlace, Has
  <1> QED
    BY <1>4, <1>5, SameChecks DEF Ledger!Accepted, Ledger!NextId, MayPlace, NextId

LEMMA LedgerAdmin ==
  ASSUME SameStanding, window' = window
  PROVE  Ledger!adminVars' = Ledger!adminVars
  BY DEF SameStanding, Ledger!adminVars

LEMMA BuyIsABuy ==
  ASSUME Orderly, Inv, OrderlyInv, NEW t \in Txns, NEW r \in Requests, NEW q \in Quotes,
         NEW i \in OrderIds, ExecuteBuy(t, r, q, i), SameStanding
  PROVE  Ledger!ExecuteBuy(r, q, i)
  <1> DEFINE n == WalkedNotional(r, q)
             old == db.positions[r.asset]
  <1>1. /\ MayPlace(t, r, q, i) /\ r.side = "buy" /\ Marketable(r, q) /\ n >= MinNotional
        /\ Gross(n) <= db.cash.available
    BY DEF ExecuteBuy, Cash
  <1>2. Ledger!Accepted(r, q) /\ Ledger!NextId(i)
    BY <1>1, PlaceAllowed
  <1>3. /\ booked' = booked /\ window' = window
        /\ Holds(db', db.contest, db.participant, db.account, PayFromAvailable(db.cash, n),
                 [db.positions EXCEPT ![r.asset] = AddLot(old, r.quantity, n)],
                 [db.orders EXCEPT ![i] = OrderOf(r, "filled", r.quantity, n)], db.settlements)
    BY GoodParts, ExecuteBuyWrites DEF Ends
  <1>4. /\ db'.cash = PayFromAvailable(db.cash, n)
        /\ db'.positions = [db.positions EXCEPT ![r.asset] = AddLot(old, r.quantity, n)]
        /\ db'.orders = [db.orders EXCEPT ![i] = OrderOf(r, "filled", r.quantity, n)]
        /\ db'.account = db.account
    BY <1>3 DEF Holds
  <1>5. Ledger!adminVars' = Ledger!adminVars
    BY <1>3, LedgerAdmin
  <1>6. Ledger!WalkedNotional(r, q) = n /\ Ledger!Marketable(r, q) /\ Ledger!Gross(n) = Gross(n)
    BY <1>1, SameChecks, SameMoney
  <1> HIDE DEF n
  <1>7. /\ Ledger!PayFromAvailable(db.cash, n) = PayFromAvailable(db.cash, n)
        /\ Ledger!AddLot(old, r.quantity, n) = AddLot(old, r.quantity, n)
        /\ Ledger!OrderOf(r, "filled", r.quantity, n) = OrderOf(r, "filled", r.quantity, n)
    BY SameUpdates, SameRows
  <1> QED
    BY <1>1, <1>2, <1>3, <1>4, <1>5, <1>6, <1>7 DEF Ledger!ExecuteBuy


\* The account as the ledger has it, after a sale.
LEMMA LedgerAccount ==
  ASSUME NEW profit, SameStanding, booked' = booked + profit
  PROVE  [status |-> db'.account.status, realized |-> booked'] =
             [[status |-> db.account.status, realized |-> booked] EXCEPT !.realized = @ + profit]
  BY DEF SameStanding

LEMMA SellIsASell ==
  ASSUME Orderly, Inv, OrderlyInv, NEW t \in Txns, NEW r \in Requests, NEW q \in Quotes,
         NEW i \in OrderIds, ExecuteSell(t, r, q, i), SameStanding
  PROVE  Ledger!ExecuteSell(r, q, i)
  <1> DEFINE n == WalkedNotional(r, q)
             old == db.positions[r.asset]
             profit == RealizedBy(old, r.quantity, n)
  <1>1. /\ MayPlace(t, r, q, i) /\ r.side = "sell" /\ Marketable(r, q) /\ n >= MinNotional
        /\ r.quantity <= Free(old)
    BY DEF ExecuteSell, Position
  <1>2. Ledger!Accepted(r, q) /\ Ledger!NextId(i)
    BY <1>1, PlaceAllowed
  <1>3. /\ booked' = booked + profit /\ window' = window
        /\ Holds(db', db.contest, db.participant, [db.account EXCEPT !.realized = @ + profit],
                 Credit(db.cash, n), [db.positions EXCEPT ![r.asset] = RemoveLot(old, r.quantity, 0)],
                 [db.orders EXCEPT ![i] = OrderOf(r, "filled", r.quantity, n)], db.settlements)
    BY GoodParts, ExecuteSellWrites DEF Ends
  <1>4. /\ db'.cash = Credit(db.cash, n)
        /\ db'.positions = [db.positions EXCEPT ![r.asset] = RemoveLot(old, r.quantity, 0)]
        /\ db'.orders = [db.orders EXCEPT ![i] = OrderOf(r, "filled", r.quantity, n)]
    BY <1>3 DEF Holds
  <1>5. Ledger!adminVars' = Ledger!adminVars
    BY <1>3, LedgerAdmin
  <1>6. Ledger!WalkedNotional(r, q) = n /\ Ledger!Marketable(r, q) /\ Ledger!Free(old) = Free(old)
    BY <1>1, SameChecks, SameMoney
  <1> HIDE DEF n
  <1>7. /\ Ledger!Credit(db.cash, n) = Credit(db.cash, n)
        /\ Ledger!RemoveLot(old, r.quantity, 0) = RemoveLot(old, r.quantity, 0)
        /\ Ledger!RealizedBy(old, r.quantity, n) = profit
        /\ Ledger!OrderOf(r, "filled", r.quantity, n) = OrderOf(r, "filled", r.quantity, n)
    BY SameUpdates, SameRows
  <1> HIDE DEF profit
  <1>8. [status |-> db'.account.status, realized |-> booked'] =
             [[status |-> db.account.status, realized |-> booked] EXCEPT !.realized = @ + profit]
    BY <1>3, LedgerAccount
  <1> QED
    BY <1>1, <1>2, <1>4, <1>5, <1>6, <1>7, <1>8 DEF Ledger!ExecuteSell

LEMMA RestBuyIsARest ==
  ASSUME Orderly, Inv, OrderlyInv, NEW t \in Txns, NEW r \in Requests, NEW q \in Quotes,
         NEW i \in OrderIds, RestBuy(t, r, q, i), SameStanding
  PROVE  Ledger!RestBuy(r, q, i)
  <1> DEFINE o == OrderOf(r, "pending", 0, 0)
  <1>1. /\ MayPlace(t, r, q, i) /\ r.side = "buy" /\ ~Marketable(r, q)
        /\ r.limit * r.quantity >= MinNotional /\ Reserve(o) <= db.cash.available
    BY DEF RestBuy, Cash
  <1>2. Ledger!Accepted(r, q) /\ Ledger!NextId(i)
    BY <1>1, PlaceAllowed
  <1>3. /\ booked' = booked /\ window' = window
        /\ Holds(db', db.contest, db.participant, db.account, ReserveCash(db.cash, o),
                 db.positions, [db.orders EXCEPT ![i] = o], db.settlements)
    BY GoodParts, RestBuyWrites DEF Ends
  <1>4. Ledger!OrderOf(r, "pending", 0, 0) = o /\ Ledger!Marketable(r, q) = Marketable(r, q)
    BY SameRows, SameChecks
  <1> HIDE DEF o
  <1>5. /\ db'.cash = ReserveCash(db.cash, o) /\ db'.positions = db.positions
        /\ db'.orders = [db.orders EXCEPT ![i] = o] /\ db'.account = db.account
    BY <1>3 DEF Holds
  <1>6. Ledger!adminVars' = Ledger!adminVars
    BY <1>3, LedgerAdmin
  <1>7. Ledger!Reserve(o) = Reserve(o) /\ Ledger!ReserveCash(db.cash, o) = ReserveCash(db.cash, o)
    BY SameMoney, SameUpdates
  <1> QED
    BY <1>1, <1>2, <1>3, <1>4, <1>5, <1>6, <1>7 DEF Ledger!RestBuy

LEMMA RestSellIsARest ==
  ASSUME Orderly, Inv, OrderlyInv, NEW t \in Txns, NEW r \in Requests, NEW q \in Quotes,
         NEW i \in OrderIds, RestSell(t, r, q, i), SameStanding
  PROVE  Ledger!RestSell(r, q, i)
  <1> DEFINE o == OrderOf(r, "pending", 0, 0)
             old == db.positions[r.asset]
  <1>1. /\ MayPlace(t, r, q, i) /\ r.side = "sell" /\ ~Marketable(r, q)
        /\ r.limit * r.quantity >= MinNotional /\ r.quantity <= Free(old)
    BY DEF RestSell, Position
  <1>2. Ledger!Accepted(r, q) /\ Ledger!NextId(i)
    BY <1>1, PlaceAllowed
  <1>3. /\ booked' = booked /\ window' = window
        /\ Holds(db', db.contest, db.participant, db.account, db.cash,
                 [db.positions EXCEPT ![r.asset] = ReserveLot(old, o)],
                 [db.orders EXCEPT ![i] = o], db.settlements)
    BY GoodParts, RestSellWrites DEF Ends
  <1>4. Ledger!OrderOf(r, "pending", 0, 0) = o /\ Ledger!Marketable(r, q) = Marketable(r, q)
    BY SameRows, SameChecks
  <1> HIDE DEF o
  <1>5. /\ db'.cash = db.cash
        /\ db'.positions = [db.positions EXCEPT ![r.asset] = ReserveLot(old, o)]
        /\ db'.orders = [db.orders EXCEPT ![i] = o] /\ db'.account = db.account
    BY <1>3 DEF Holds
  <1>6. Ledger!adminVars' = Ledger!adminVars
    BY <1>3, LedgerAdmin
  <1>7. Ledger!Free(old) = Free(old) /\ Ledger!ReserveLot(old, o) = ReserveLot(old, o)
    BY SameMoney, SameUpdates
  <1> QED
    BY <1>1, <1>2, <1>3, <1>4, <1>5, <1>6, <1>7 DEF Ledger!RestSell

\* A transaction at work on an order works on the order as it is stored.
LEMMA WorksOnStored ==
  ASSUME Inv, OrderlyInv, NEW t \in Txns, tx[t].op \in Working
  PROVE  /\ tx[t].order \in OrderIds
         /\ db.orders[tx[t].order] = OrderSeen(t)
         /\ OrderSeen(t) \in OrderRows /\ OrderSeen(t).asset \in Assets
         /\ tx[t].op \in {"cancel", "fill"} => OrderSeen(t).status = "pending"
         /\ tx[t].op = "exit" => /\ OrderSeen(t).status = "filled"
                                 /\ OrderSeen(t).side = "buy" /\ OrderSeen(t).exit = "open"
  <1>1. db.orders[tx[t].order] = OrderSeen(t)
    BY DEF OrderlyInv, StillSeen
  <1>2. tx[t].order \in OrderIds /\ OrderSeen(t) \in OrderRows /\ OrderSeen(t).asset \in Assets
    BY Seen DEF Working
  <1> QED
    BY <1>1, <1>2 DEF Inv, TxnsOK, TargetOK

LEMMA CancelBuyIsACancel ==
  ASSUME Orderly, Inv, OrderlyInv, NEW t \in Txns, CancelBuy(t), SameStanding
  PROVE  \E i \in OrderIds : Ledger!CancelBuy(i)
  <1> DEFINE i == tx[t].order
             o == OrderSeen(t)
  <1>1. tx[t].op = "cancel" /\ o.side = "buy" /\ tx[t].held # {}
    BY DEF CancelBuy
  <1>2. i \in OrderIds /\ db.orders[i] = o /\ o.status = "pending"
    BY <1>1, WorksOnStored DEF Working
  <1>3. db.account.status = "active"
    BY <1>1 DEF OrderlyInv, UserHoldsAccount
  <1>4. /\ booked' = booked /\ window' = window
        /\ Holds(db', db.contest, db.participant, db.account, ReleaseCash(db.cash, o), db.positions,
                 [db.orders EXCEPT ![i] = [db.orders[i] EXCEPT !.status = "cancelled"]],
                 db.settlements)
    BY <1>2, GoodParts, CancelBuyWrites DEF Ends
  <1>5. /\ db'.cash = ReleaseCash(db.cash, o) /\ db'.positions = db.positions
        /\ db'.orders = [db.orders EXCEPT ![i] = [db.orders[i] EXCEPT !.status = "cancelled"]]
        /\ db'.account = db.account
    BY <1>4 DEF Holds
  <1>6. Ledger!adminVars' = Ledger!adminVars
    BY <1>4, LedgerAdmin
  <1>7. Ledger!ReleaseCash(db.cash, o) = ReleaseCash(db.cash, o)
    BY SameUpdates
  <1>8. Ledger!CancelBuy(i)
    BY <1>1, <1>2, <1>3, <1>4, <1>5, <1>6, <1>7 DEF Ledger!CancelBuy, Ledger!Cancellable
  <1> QED
    BY <1>2, <1>8

LEMMA CancelSellIsACancel ==
  ASSUME Orderly, Inv, OrderlyInv, NEW t \in Txns, CancelSell(t), SameStanding
  PROVE  \E i \in OrderIds : Ledger!CancelSell(i)
  <1> DEFINE i == tx[t].order
             o == OrderSeen(t)
             old == db.positions[o.asset]
  <1>1. tx[t].op = "cancel" /\ o.side = "sell" /\ tx[t].held # {}
    BY DEF CancelSell
  <1>2. i \in OrderIds /\ db.orders[i] = o /\ o.status = "pending" /\ o.asset \in Assets
    BY <1>1, WorksOnStored DEF Working
  <1>3. db.account.status = "active"
    BY <1>1 DEF OrderlyInv, UserHoldsAccount
  <1>4. /\ booked' = booked /\ window' = window
        /\ Holds(db', db.contest, db.participant, db.account, db.cash,
                 [db.positions EXCEPT ![o.asset] = ReleaseLot(old, o)],
                 [db.orders EXCEPT ![i] = [db.orders[i] EXCEPT !.status = "cancelled"]],
                 db.settlements)
    BY <1>2, GoodParts, CancelSellWrites DEF Ends
  <1>5. /\ db'.cash = db.cash
        /\ db'.positions = [db.positions EXCEPT ![o.asset] = ReleaseLot(old, o)]
        /\ db'.orders = [db.orders EXCEPT ![i] = [db.orders[i] EXCEPT !.status = "cancelled"]]
        /\ db'.account = db.account
    BY <1>4 DEF Holds
  <1>6. Ledger!adminVars' = Ledger!adminVars
    BY <1>4, LedgerAdmin
  <1>7. Ledger!ReleaseLot(old, o) = ReleaseLot(old, o)
    BY SameUpdates
  <1>8. Ledger!CancelSell(i)
    BY <1>1, <1>2, <1>3, <1>4, <1>5, <1>6, <1>7 DEF Ledger!CancelSell, Ledger!Cancellable
  <1> QED
    BY <1>2, <1>8

\* The processor trades where the ledger would.
LEMMA ReconcileAllowed ==
  ASSUME OrderlyInv, NEW t \in Txns, tx[t].op \in Reconciling, tx[t].held # {}
  PROVE  Ledger!TradingAllowed
  <1>1. /\ Snap(t).account.status = db.account.status /\ Snap(t).participant = db.participant
        /\ Snap(t).account.status = "active" /\ Snap(t).participant = "active"
        /\ OpenForTrading(db.contest, window)
    BY DEF OrderlyInv, StillSeen, Standing
  <1> QED
    BY <1>1, SameChecks DEF Ledger!TradingAllowed

LEMMA FillBuyIsAFill ==
  ASSUME Orderly, Inv, OrderlyInv, NEW t \in Txns, FillBuy(t), SameStanding
  PROVE  \E i \in OrderIds : Ledger!FillBuy(i)
  <1> DEFINE i == tx[t].order
             o == OrderSeen(t)
             n == o.limit * o.quantity
             old == db.positions[o.asset]
  <1>1. tx[t].op = "fill" /\ o.side = "buy" /\ tx[t].held # {} /\ Reserve(o) <= db.cash.locked
    BY DEF FillBuy, Ready, Cash
  <1>2. i \in OrderIds /\ db.orders[i] = o /\ o.status = "pending" /\ o.asset \in Assets
    BY <1>1, WorksOnStored DEF Working
  <1>3. Ledger!TradingAllowed
    BY <1>1, ReconcileAllowed DEF Reconciling
  <1>4. /\ booked' = booked /\ window' = window
        /\ Holds(db', db.contest, db.participant, db.account, PayFromLocked(db.cash, o),
                 [db.positions EXCEPT ![o.asset] = AddLot(old, o.quantity, n)],
                 [db.orders EXCEPT ![i] = Completed(db.orders[i], o)], db.settlements)
    BY <1>2, GoodParts, FillBuyWrites DEF Ends
  <1>5. /\ db'.cash = PayFromLocked(db.cash, o)
        /\ db'.positions = [db.positions EXCEPT ![o.asset] = AddLot(old, o.quantity, n)]
        /\ db'.orders = [db.orders EXCEPT ![i] = Completed(o, o)]
        /\ db'.account = db.account
    BY <1>2, <1>4 DEF Holds
  <1>6. Ledger!adminVars' = Ledger!adminVars
    BY <1>4, LedgerAdmin
  <1>7. /\ Ledger!PayFromLocked(db.cash, o) = PayFromLocked(db.cash, o)
        /\ Ledger!AddLot(old, o.quantity, n) = AddLot(old, o.quantity, n)
        /\ Ledger!Completed(o) = Completed(o, o) /\ Ledger!Reserve(o) = Reserve(o)
    BY SameUpdates, SameRows, SameMoney
  <1> HIDE DEF o
  <1>8. Ledger!FillBuy(i)
    BY <1>1, <1>2, <1>3, <1>4, <1>5, <1>6, <1>7 DEF Ledger!FillBuy
  <1> QED
    BY <1>2, <1>8

LEMMA FillSellIsAFill ==
  ASSUME Orderly, Inv, OrderlyInv, NEW t \in Txns, FillSell(t), SameStanding
  PROVE  \E i \in OrderIds : Ledger!FillSell(i)
  <1> DEFINE i == tx[t].order
             o == OrderSeen(t)
             n == o.limit * o.quantity
             old == db.positions[o.asset]
             profit == RealizedBy(old, o.quantity, n)
  <1>1. /\ tx[t].op = "fill" /\ o.side = "sell" /\ tx[t].held # {}
        /\ o.quantity <= old.locked /\ o.quantity <= old.quantity
    BY DEF FillSell, Ready, Position
  <1>2. i \in OrderIds /\ db.orders[i] = o /\ o.status = "pending" /\ o.asset \in Assets
    BY <1>1, WorksOnStored DEF Working
  <1>3. Ledger!TradingAllowed
    BY <1>1, ReconcileAllowed DEF Reconciling
  <1>4. /\ booked' = booked + profit /\ window' = window
        /\ Holds(db', db.contest, db.participant,
                 [db.account EXCEPT !.realized = Snap(t).account.realized + profit],
                 Credit(db.cash, n),
                 [db.positions EXCEPT ![o.asset] = RemoveLot(old, o.quantity, o.quantity)],
                 [db.orders EXCEPT ![i] = Completed(db.orders[i], o)], db.settlements)
    BY <1>2, GoodParts, FillSellWrites DEF Ends
  <1>5. /\ db'.cash = Credit(db.cash, n)
        /\ db'.positions = [db.positions EXCEPT ![o.asset] = RemoveLot(old, o.quantity, o.quantity)]
        /\ db'.orders = [db.orders EXCEPT ![i] = Completed(o, o)]
    BY <1>2, <1>4 DEF Holds
  <1>6. Ledger!adminVars' = Ledger!adminVars
    BY <1>4, LedgerAdmin
  <1>7. /\ Ledger!Credit(db.cash, n) = Credit(db.cash, n)
        /\ Ledger!RemoveLot(old, o.quantity, o.quantity) = RemoveLot(old, o.quantity, o.quantity)
        /\ Ledger!Completed(o) = Completed(o, o)
        /\ Ledger!RealizedBy(old, o.quantity, n) = profit
    BY SameUpdates, SameRows
  <1> HIDE DEF profit, o
  <1>8. [status |-> db'.account.status, realized |-> booked'] =
             [[status |-> db.account.status, realized |-> booked] EXCEPT !.realized = @ + profit]
    BY <1>4, LedgerAccount
  <1>9. Ledger!FillSell(i)
    BY <1>1, <1>2, <1>3, <1>5, <1>6, <1>7, <1>8 DEF Ledger!FillSell
  <1> QED
    BY <1>2, <1>9

LEMMA SkipIsASkip ==
  ASSUME Orderly, Inv, OrderlyInv, NEW t \in Txns, NEW kind \in ExitKinds, SkipExit(t, kind),
         SameStanding
  PROVE  \E i \in OrderIds : Ledger!SkipExit(i, kind)
  <1> DEFINE i == tx[t].order
             o == OrderSeen(t)
             old == db.positions[o.asset]
  <1>1. tx[t].op = "exit" /\ tx[t].held # {} /\ ExitPrice(o, kind) # 0 /\ Free(old) <= 0
    BY DEF SkipExit, Ready, Position
  <1>2. /\ i \in OrderIds /\ db.orders[i] = o /\ o.status = "filled" /\ o.side = "buy"
        /\ o.exit = "open" /\ o.asset \in Assets
    BY <1>1, WorksOnStored DEF Working
  <1>3. Ledger!TradingAllowed
    BY <1>1, ReconcileAllowed DEF Reconciling
  <1>4. /\ booked' = booked /\ window' = window
        /\ Holds(db', db.contest, db.participant, db.account, db.cash, db.positions,
                 [db.orders EXCEPT ![i] = [db.orders[i] EXCEPT !.exit = "skipped"]], db.settlements)
    BY <1>2, GoodParts, SkipExitWrites DEF Ends
  <1>5. /\ db'.cash = db.cash /\ db'.positions = db.positions /\ db'.account = db.account
        /\ db'.orders = [db.orders EXCEPT ![i] = [db.orders[i] EXCEPT !.exit = "skipped"]]
    BY <1>4 DEF Holds
  <1>6. Ledger!adminVars' = Ledger!adminVars
    BY <1>4, LedgerAdmin
  <1>7. Ledger!ExitPrice(o, kind) = ExitPrice(o, kind) /\ Ledger!Free(old) = Free(old)
    BY SameChecks, SameMoney
  <1> HIDE DEF o
  <1>8. Ledger!OpenExit(i, kind)
    BY <1>1, <1>2, <1>3, <1>7 DEF Ledger!OpenExit
  <1>9. Ledger!SkipExit(i, kind)
    BY <1>1, <1>2, <1>4, <1>5, <1>6, <1>7, <1>8 DEF Ledger!SkipExit
  <1> QED
    BY <1>2, <1>9

LEMMA ExitIsAnExit ==
  ASSUME Orderly, Inv, OrderlyInv, NEW t \in Txns, NEW kind \in ExitKinds, NEW j \in OrderIds,
         FillExit(t, kind, j), SameStanding
  PROVE  \E i \in OrderIds : Ledger!FillExit(i, kind, j)
  <1> DEFINE i == tx[t].order
             o == OrderSeen(t)
             k == ExitSize(t)
             n == ExitPrice(o, kind) * k
             old == db.positions[o.asset]
             profit == RealizedBy(old, k, n)
             new == ExitOrderOf(i, o, kind, k, n)
             fired == [db.orders[i] EXCEPT !.exit = kind, !.exitOrder = j]
  <1>1. /\ tx[t].op = "exit" /\ tx[t].held # {} /\ ExitPrice(o, kind) # 0 /\ Free(old) > 0
        /\ NextId(j) /\ ~Has(db.orders, <<kind, i>>)
    BY DEF FillExit, Ready, Position
  <1>2. /\ i \in OrderIds /\ db.orders[i] = o /\ o.status = "filled" /\ o.side = "buy"
        /\ o.exit = "open" /\ o.asset \in Assets /\ j # i
    BY <1>1, WorksOnStored, ExitIsNew DEF Working
  <1>3. Ledger!TradingAllowed
    BY <1>1, ReconcileAllowed DEF Reconciling
  <1>4. /\ booked' = booked + profit /\ window' = window
        /\ Holds(db', db.contest, db.participant,
                 [db.account EXCEPT !.realized = Snap(t).account.realized + profit],
                 Credit(db.cash, n), [db.positions EXCEPT ![o.asset] = RemoveLot(old, k, 0)],
                 [db.orders EXCEPT ![i] = fired, ![j] = new], db.settlements)
    BY <1>2, GoodParts, FillExitWrites DEF Ends
  <1>5. /\ db'.cash = Credit(db.cash, n)
        /\ db'.positions = [db.positions EXCEPT ![o.asset] = RemoveLot(old, k, 0)]
        /\ db'.orders = [db.orders EXCEPT ![i] = fired, ![j] = new]
    BY <1>4 DEF Holds
  <1>6. Ledger!adminVars' = Ledger!adminVars
    BY <1>4, LedgerAdmin
  <1>7. Ledger!ExitPrice(o, kind) = ExitPrice(o, kind) /\ Ledger!Free(old) = Free(old)
    BY SameChecks, SameMoney
  <1>8. Ledger!ExitQuantity(o, old) = k
    BY <1>7 DEF Ledger!ExitQuantity, ExitSize
  <1>9. /\ Ledger!Credit(db.cash, n) = Credit(db.cash, n)
        /\ Ledger!RemoveLot(old, k, 0) = RemoveLot(old, k, 0)
        /\ Ledger!RealizedBy(old, k, n) = profit
        /\ Ledger!ExitOrderOf(i, o, kind, k, n) = new
    BY SameUpdates, SameRows
  <1>10. ~Ledger!Known(<<kind, i>>) /\ Ledger!NextId(j)
    BY <1>1 DEF Ledger!Known, Has, Ledger!NextId, NextId
  <1>11. db'.orders = [db.orders EXCEPT ![i].exit = kind, ![i].exitOrder = j, ![j] = new]
    BY <1>2, <1>5, GoodParts
  <1>12. Ledger!OpenExit(i, kind)
    BY <1>1, <1>2, <1>3, <1>7 DEF Ledger!OpenExit
  <1> HIDE DEF profit, new, o, k
  <1>13. [status |-> db'.account.status, realized |-> booked'] =
             [[status |-> db.account.status, realized |-> booked] EXCEPT !.realized = @ + profit]
    BY <1>4, LedgerAccount
  <1>14. Ledger!FillExit(i, kind, j)
    BY <1>1, <1>2, <1>5, <1>6, <1>7, <1>8, <1>9, <1>10, <1>11, <1>12, <1>13 DEF Ledger!FillExit
  <1> QED
    BY <1>2, <1>14


LEMMA CommitIsAStep ==
  ASSUME Orderly, Inv, OrderlyInv, NEW t \in Txns, Commits(t)
  PROVE  Ledger!Next
  <1>1. SameStanding /\ ~Settle(t)
    BY OrderlyCommit
  <1>2. CASE Place(t)
    <2>1. PICK r \in Requests, q \in Quotes, i \in OrderIds :
             ExecuteBuy(t, r, q, i) \/ ExecuteSell(t, r, q, i)
                 \/ RestBuy(t, r, q, i) \/ RestSell(t, r, q, i)
      BY <1>2 DEF Place
    <2>2. Ledger!ExecuteBuy(r, q, i) \/ Ledger!ExecuteSell(r, q, i)
              \/ Ledger!RestBuy(r, q, i) \/ Ledger!RestSell(r, q, i)
      BY <1>1, <2>1, BuyIsABuy, SellIsASell, RestBuyIsARest, RestSellIsARest
    <2> QED
      BY <2>2 DEF Ledger!Next, Ledger!Cancel, Ledger!Place
  <1>3. CASE CancelBuy(t) \/ CancelSell(t)
    <2>1. (\E i \in OrderIds : Ledger!CancelBuy(i)) \/ (\E i \in OrderIds : Ledger!CancelSell(i))
      BY <1>1, <1>3, CancelBuyIsACancel, CancelSellIsACancel
    <2> QED
      BY <2>1 DEF Ledger!Next, Ledger!Cancel
  <1>4. CASE FillBuy(t) \/ FillSell(t)
    <2>1. (\E i \in OrderIds : Ledger!FillBuy(i)) \/ (\E i \in OrderIds : Ledger!FillSell(i))
      BY <1>1, <1>4, FillBuyIsAFill, FillSellIsAFill
    <2> QED
      BY <2>1 DEF Ledger!Next, Ledger!Cancel, Ledger!Reconcile
  <1>5. ASSUME NEW kind \in ExitKinds, SkipExit(t, kind) PROVE Ledger!Next
    <2>1. \E i \in OrderIds : Ledger!SkipExit(i, kind)
      BY <1>1, <1>5, SkipIsASkip
    <2> QED
      BY <2>1, SameChecks DEF Ledger!Next, Ledger!Cancel, Ledger!Reconcile
  <1>6. ASSUME NEW kind \in ExitKinds, NEW j \in OrderIds, FillExit(t, kind, j)
        PROVE  Ledger!Next
    <2>1. \E i \in OrderIds : Ledger!FillExit(i, kind, j)
      BY <1>1, <1>6, ExitIsAnExit
    <2> QED
      BY <2>1, SameChecks DEF Ledger!Next, Ledger!Cancel, Ledger!Reconcile
  <1> QED
    BY <1>1, <1>2, <1>3, <1>4, <1>5, <1>6 DEF Commits, Reconcile

\* Moderation is a step of the ledger.
LEMMA AdminIsAStep ==
  ASSUME Orderly, Inv, OrderlyInv, Administers
  PROVE  Ledger!Next
  <1>1. PICK s \in {"active", "locked", "disqualified"} : SetParticipantStatus(s)
    BY DEF Administers, SetContestStatus, Orderly
  <1>2. window' = window /\ booked' = booked
    BY <1>1 DEF SetParticipantStatus
  <1>3. Holds(db', db.contest, s, [db.account EXCEPT !.status = StandingOf(s)], db.cash,
              db.positions, db.orders, db.settlements)
    BY <1>1, GoodParts, WriteStanding DEF SetParticipantStatus
  <1>4. /\ db'.contest = db.contest /\ db'.participant = s /\ db'.orders = db.orders
        /\ db'.account = [db.account EXCEPT !.status = StandingOf(s)]
        /\ db'.cash = db.cash /\ db'.positions = db.positions
        /\ db'.settlements = db.settlements
    BY <1>3 DEF Holds
  <1>5. db'.account.status = StandingOf(s)
    BY <1>4, GoodParts
  <1>6. Ledger!StandingOf(s) = StandingOf(s)
    BY SameChecks
  <1>7. Ledger!SetParticipantStatus(s)
    BY <1>2, <1>4, <1>5, <1>6 DEF Ledger!SetParticipantStatus
  <1> QED
    BY <1>7 DEF Ledger!Next, Ledger!Cancel, Ledger!Administer, Ledger!Moderate

\* Taking locks, beginning and rolling back change nothing the ledger has.
LEMMA QuietIsAStutter ==
  ASSUME NEW t \in Txns, Locks(t) \/ Begins(t) \/ Rollback(t)
  PROVE  UNCHANGED Ledger!vars
  <1>1. UNCHANGED <<db, window, booked>>
    BY DEF Locks, LockAccount, LockOrder, LockCash, LockContest, LockPosition, Lock,
           Begins, Begin, Rollback
  <1> QED
    BY <1>1 DEF Ledger!vars

LEMMA LedgerInit == Init => Ledger!Init
  <1> SUFFICES ASSUME Init PROVE Ledger!Init
    OBVIOUS
  <1>1. db = Joined /\ window \in {"before", "open"} /\ booked = 0
    BY DEF Init
  <1> QED
    BY <1>1, SameRows DEF Ledger!Init, Joined

LEMMA LedgerStep ==
  ASSUME Orderly, Inv, OrderlyInv, [Next]_vars
  PROVE  [Ledger!Next]_(Ledger!vars)
  <1>1. ~Tick
    BY DEF Tick, Orderly
  <1>2. UNCHANGED vars => UNCHANGED Ledger!vars
    BY DEF vars, Ledger!vars
  <1> QED
    BY <1>1, <1>2, CommitIsAStep, AdminIsAStep, QuietIsAStutter, Steps

LEMMA AlwaysOrderly ==
  ASSUME Orderly
  PROVE  Spec => []OrderlyInv
  <1>1. Init => OrderlyInv
    BY OrderlyInit, UserHoldsAccountInit DEF OrderlyInv
  <1>2. Inv /\ OrderlyInv /\ [Next]_vars => OrderlyInv'
    BY OrderlyStep
  <1> QED
    BY <1>1, <1>2, AlwaysInv, PTL DEF Spec

\* Requests that overlap do what the same requests one at a time could have
\* done, on the rows they commit and the profit they book, whatever their
\* number: provided clients wait for the processor before they cancel and
\* admins before they moderate.  Placements need wait for nothing.
THEOREM OverlapImplementsTheLedger ==
  ASSUME Orderly
  PROVE  Spec => RefinesLedger
  <1>1. Inv /\ OrderlyInv /\ [Next]_vars => [Ledger!Next]_(Ledger!vars)
    BY LedgerStep
  <1> QED
    BY <1>1, LedgerInit, AlwaysInv, AlwaysOrderly, PTL DEF Spec, RefinesLedger, Ledger!Spec

=============================================================================
