------------------------ MODULE TradingLedger_proofs ------------------------
(***************************************************************************)
(* What TradingLedger promises, for every market, request and price.       *)
(***************************************************************************)
EXTENDS AuditedLedger, LedgerLemmas

-----------------------------------------------------------------------------
(* The inductive invariant: type correctness and solvency need each other. *)
(* A sale divides by the quantity held, which the free units bound from    *)
(* below only because the locked ones are never negative.                  *)

RowsOK ==
    /\ GoodCash(cash)
    /\ positions \in [Assets -> PositionRows]
    /\ \A a \in Assets : GoodPosition(positions[a])
    /\ account \in [status : {"active", "frozen"}, realized : Int]
    /\ orders \in [OrderIds -> OrderRows]

AdminOK ==
    /\ contest \in ContestStatuses \cup {"scheduled", "active", "completed"}
    /\ window \in {"before", "open", "closed"}
    /\ participant \in {"active", "locked", "disqualified"}
    /\ settlements \in Seq(SettlementRows)

Inv == RowsOK /\ AdminOK

LEMMA InvMeaning == Inv <=> TypeOK /\ Solvent
  BY DEF Inv, RowsOK, AdminOK, TypeOK, AccountRows, Solvent, GoodCash, GoodPosition

LEMMA AdminUnchanged == ASSUME AdminOK, UNCHANGED adminVars PROVE AdminOK'
  BY DEF AdminOK, adminVars

LEMMA InvInit == Init => Inv
  <1> SUFFICES ASSUME Init PROVE Inv
    OBVIOUS
  <1>1. InitialBalance \in CashRows /\ GoodCash(InitialBalance)
    BY MoneyAssumption DEF InitialBalance, GoodCash, CashRows
  <1>2. GoodPosition(EmptyPosition)
    BY DEF EmptyPosition, GoodPosition, PositionRows
  <1>3. RowsOK
    BY <1>1, <1>2, NoOrderType DEF Init, RowsOK, GoodPosition
  <1>4. AdminOK
    BY DEF Init, AdminOK
  <1> QED
    BY <1>3, <1>4 DEF Inv

LEMMA ExecuteBuyInv ==
  ASSUME Inv, NEW r \in Requests, NEW q \in Quotes, NEW i \in OrderIds, ExecuteBuy(r, q, i)
  PROVE  Inv'
  <1> DEFINE n == WalkedNotional(r, q)
  <1>1. n \in Nat /\ r.asset \in Assets /\ r.quantity \in Nat
    BY WalkedNotionalNat, RequestFacts
  <1>2. GoodCash(cash')
    BY <1>1, PayFromAvailableGood DEF ExecuteBuy, Inv, RowsOK
  <1>3. GoodPosition(AddLot(positions[r.asset], r.quantity, n))
    BY <1>1, AddLotGood DEF Inv, RowsOK
  <1>4. OrderOf(r, "filled", r.quantity, n) \in OrderRows
    BY <1>1, OrderOfType DEF OrderStatuses
  <1>5. positions' = [positions EXCEPT ![r.asset] = AddLot(positions[r.asset], r.quantity, n)]
    BY DEF ExecuteBuy
  <1>6. orders' = [orders EXCEPT ![i] = OrderOf(r, "filled", r.quantity, n)]
    BY DEF ExecuteBuy
  <1>7. RowsOK'
    BY <1>2, <1>3, <1>4, <1>5, <1>6 DEF ExecuteBuy, Inv, RowsOK, GoodPosition
  <1> QED
    BY <1>7, AdminUnchanged DEF ExecuteBuy, Inv

LEMMA ExecuteSellInv ==
  ASSUME Inv, NEW r \in Requests, NEW q \in Quotes, NEW i \in OrderIds, ExecuteSell(r, q, i)
  PROVE  Inv'
  <1> DEFINE n == WalkedNotional(r, q)
             p == positions[r.asset]
  <1>1. n \in Nat /\ r.asset \in Assets /\ r.quantity \in Nat \ {0}
    BY WalkedNotionalNat, RequestFacts
  <1>2. GoodPosition(p)
    BY <1>1 DEF Inv, RowsOK
  <1>3. r.quantity <= Free(p)
    BY DEF ExecuteSell
  <1>4. p.quantity > 0 /\ p.locked >= 0
    BY <1>1, <1>2, <1>3 DEF GoodPosition, PositionRows, Free
  <1>5. GoodCash(cash')
    BY <1>1, CreditGood DEF ExecuteSell, Inv, RowsOK
  <1>6. GoodPosition(RemoveLot(p, r.quantity, 0))
    BY <1>1, <1>2, <1>3, <1>4, RemoveLotGood
  <1>7. RealizedBy(p, r.quantity, n) \in Int
    BY <1>1, <1>2, <1>4, RealizedByInt
  <1>8. OrderOf(r, "filled", r.quantity, n) \in OrderRows
    BY <1>1, OrderOfType DEF OrderStatuses
  <1>9. account' \in [status : {"active", "frozen"}, realized : Int]
    BY <1>7 DEF ExecuteSell, Inv, RowsOK
  <1>10. positions' = [positions EXCEPT ![r.asset] = RemoveLot(p, r.quantity, 0)]
    BY DEF ExecuteSell
  <1>11. orders' = [orders EXCEPT ![i] = OrderOf(r, "filled", r.quantity, n)]
    BY DEF ExecuteSell
  <1>12. RowsOK'
    BY <1>5, <1>6, <1>8, <1>9, <1>10, <1>11 DEF Inv, RowsOK, GoodPosition
  <1> QED
    BY <1>12, AdminUnchanged DEF ExecuteSell, Inv

LEMMA RestBuyInv ==
  ASSUME Inv, NEW r \in Requests, NEW q \in Quotes, NEW i \in OrderIds, RestBuy(r, q, i)
  PROVE  Inv'
  <1> DEFINE o == OrderOf(r, "pending", 0, 0)
  <1>1. o \in OrderRows
    BY OrderOfType DEF OrderStatuses
  <1>2. GoodCash(cash')
    BY <1>1, ReserveCashGood DEF RestBuy, Inv, RowsOK
  <1>3. RowsOK'
    BY <1>1, <1>2 DEF RestBuy, Inv, RowsOK
  <1> QED
    BY <1>3, AdminUnchanged DEF RestBuy, Inv

LEMMA RestSellInv ==
  ASSUME Inv, NEW r \in Requests, NEW q \in Quotes, NEW i \in OrderIds, RestSell(r, q, i)
  PROVE  Inv'
  <1> DEFINE o == OrderOf(r, "pending", 0, 0)
  <1>1. o \in OrderRows
    BY OrderOfType DEF OrderStatuses
  <1>2. r.asset \in Assets
    BY RequestFacts
  <1>3. o.quantity <= Free(positions[r.asset])
    BY DEF RestSell, OrderOf
  <1>4. GoodPosition(ReserveLot(positions[r.asset], o))
    BY <1>1, <1>2, <1>3, ReserveLotGood DEF Inv, RowsOK
  <1>5. positions' = [positions EXCEPT ![r.asset] = ReserveLot(positions[r.asset], o)]
    BY DEF RestSell
  <1>6. RowsOK'
    BY <1>1, <1>2, <1>4, <1>5 DEF RestSell, Inv, RowsOK, GoodPosition
  <1> QED
    BY <1>6, AdminUnchanged DEF RestSell, Inv

LEMMA OrderStatusType ==
  ASSUME NEW o \in OrderRows, NEW st \in OrderStatuses
  PROVE  [o EXCEPT !.status = st] \in OrderRows
  BY DEF OrderRows

LEMMA CancelBuyInv ==
  ASSUME Inv, NEW i \in OrderIds, CancelBuy(i)
  PROVE  Inv'
  <1>1. orders[i] \in OrderRows
    BY DEF Inv, RowsOK
  <1>2. GoodCash(cash')
    BY <1>1, ReleaseCashGood DEF CancelBuy, Inv, RowsOK
  <1>3. [orders[i] EXCEPT !.status = "cancelled"] \in OrderRows
    BY <1>1, OrderStatusType DEF OrderStatuses
  <1>4. RowsOK'
    BY <1>2, <1>3 DEF CancelBuy, Inv, RowsOK
  <1> QED
    BY <1>4, AdminUnchanged DEF CancelBuy, Inv

LEMMA CancelSellInv ==
  ASSUME Inv, NEW i \in OrderIds, CancelSell(i)
  PROVE  Inv'
  <1> DEFINE a == orders[i].asset
  <1>1. orders[i] \in OrderRows /\ a \in Assets
    BY DEF Inv, RowsOK, OrderRows
  <1>2. GoodPosition(ReleaseLot(positions[a], orders[i]))
    BY <1>1, ReleaseLotGood DEF Inv, RowsOK
  <1>3. positions' = [positions EXCEPT ![a] = ReleaseLot(positions[a], orders[i])]
    BY DEF CancelSell
  <1>4. [orders[i] EXCEPT !.status = "cancelled"] \in OrderRows
    BY <1>1, OrderStatusType DEF OrderStatuses
  <1>5. orders' = [orders EXCEPT ![i] = [orders[i] EXCEPT !.status = "cancelled"]]
    BY DEF CancelSell
  <1>6. RowsOK'
    BY <1>1, <1>2, <1>3, <1>4, <1>5 DEF CancelSell, Inv, RowsOK, GoodPosition
  <1> QED
    BY <1>6, AdminUnchanged DEF CancelSell, Inv

\* The order the processor completes.
LEMMA CompletedType ==
  ASSUME NEW o \in OrderRows
  PROVE  /\ o.limit * o.quantity \in Nat
         /\ Completed(o) \in OrderRows
  <1>1. o.limit * o.quantity \in Nat
    BY ProductNat DEF OrderRows
  <1> QED
    BY <1>1 DEF Completed, OrderRows, OrderStatuses

LEMMA FillBuyInv ==
  ASSUME Inv, NEW i \in OrderIds, FillBuy(i)
  PROVE  Inv'
  <1> DEFINE o == orders[i]
             p == positions[o.asset]
  <1>1. o \in OrderRows /\ o.asset \in Assets /\ o.quantity \in Nat
    BY DEF Inv, RowsOK, OrderRows
  <1>2. o.limit * o.quantity \in Nat /\ Completed(o) \in OrderRows
    BY <1>1, CompletedType
  <1>3. GoodCash(cash')
    BY <1>1, PayFromLockedGood DEF FillBuy, Inv, RowsOK
  <1>4. GoodPosition(AddLot(p, o.quantity, o.limit * o.quantity))
    BY <1>1, <1>2, AddLotGood DEF Inv, RowsOK
  <1>5. positions' = [positions EXCEPT ![o.asset] = AddLot(p, o.quantity, o.limit * o.quantity)]
    BY DEF FillBuy
  <1>6. orders' = [orders EXCEPT ![i] = Completed(o)]
    BY DEF FillBuy
  <1>7. RowsOK'
    BY <1>1, <1>2, <1>3, <1>4, <1>5, <1>6 DEF FillBuy, Inv, RowsOK, GoodPosition
  <1> QED
    BY <1>7, AdminUnchanged DEF FillBuy, Inv

\* A limit order asks for something: fills and sales divide by what is held.
Asking == \A i \in OrderIds : orders[i].status = "pending" => orders[i].quantity > 0

LEMMA FillSellInv ==
  ASSUME Inv, Asking, NEW i \in OrderIds, FillSell(i)
  PROVE  Inv'
  <1> DEFINE o == orders[i]
             p == positions[o.asset]
             n == o.limit * o.quantity
  <1>1. o \in OrderRows /\ o.asset \in Assets /\ o.quantity \in Nat /\ o.quantity > 0
    BY DEF Inv, RowsOK, OrderRows, FillSell, Asking
  <1>2. n \in Nat /\ Completed(o) \in OrderRows
    BY <1>1, CompletedType
  <1>3. GoodPosition(p) /\ o.quantity <= p.locked /\ o.quantity <= p.quantity
    BY <1>1 DEF FillSell, Inv, RowsOK
  <1>4. p.quantity > 0 /\ o.quantity - o.quantity <= Free(p)
    BY <1>1, <1>3 DEF GoodPosition, PositionRows, Free
  <1>5. GoodCash(cash')
    BY <1>2, CreditGood DEF FillSell, Inv, RowsOK
  <1>6. GoodPosition(RemoveLot(p, o.quantity, o.quantity))
    BY <1>1, <1>3, <1>4, RemoveLotGood
  <1>7. RealizedBy(p, o.quantity, n) \in Int
    BY <1>1, <1>2, <1>3, <1>4, RealizedByInt
  <1>8. account' \in [status : {"active", "frozen"}, realized : Int]
    BY <1>7 DEF FillSell, Inv, RowsOK
  <1>9. positions' = [positions EXCEPT ![o.asset] = RemoveLot(p, o.quantity, o.quantity)]
    BY DEF FillSell
  <1>10. orders' = [orders EXCEPT ![i] = Completed(o)]
    BY DEF FillSell
  <1>11. RowsOK'
    BY <1>1, <1>2, <1>5, <1>6, <1>8, <1>9, <1>10 DEF Inv, RowsOK, GoodPosition
  <1> QED
    BY <1>11, AdminUnchanged DEF FillSell, Inv

LEMMA SkipExitInv ==
  ASSUME Inv, NEW i \in OrderIds, NEW kind \in ExitKinds, SkipExit(i, kind)
  PROVE  Inv'
  <1>1. [orders[i] EXCEPT !.exit = "skipped"] \in OrderRows
    BY DEF Inv, RowsOK, OrderRows
  <1>2. RowsOK'
    BY <1>1 DEF SkipExit, Inv, RowsOK
  <1> QED
    BY <1>2, AdminUnchanged DEF SkipExit, Inv

LEMMA FillExitInv ==
  ASSUME Inv, NEW i \in OrderIds, NEW kind \in ExitKinds, NEW j \in OrderIds,
         FillExit(i, kind, j)
  PROVE  Inv'
  <1> DEFINE e == orders[i]
             p == positions[e.asset]
             k == ExitQuantity(e, p)
             n == ExitPrice(e, kind) * k
  <1>1. e \in OrderRows /\ e.asset \in Assets /\ e.filled \in Nat
    BY DEF Inv, RowsOK, OrderRows
  <1>2. GoodPosition(p) /\ Free(p) > 0
    BY <1>1 DEF FillExit, Inv, RowsOK
  <1>3. k \in Nat /\ k <= Free(p) /\ p.quantity > 0 /\ p.locked >= 0
    BY <1>1, <1>2 DEF ExitQuantity, GoodPosition, PositionRows, Free
  <1>4. ExitPrice(e, kind) \in Nat
    BY <1>1 DEF ExitPrice, OrderRows
  <1>5. n \in Nat
    BY <1>3, <1>4, ProductNat
  <1>6. GoodCash(cash')
    BY <1>5, CreditGood DEF FillExit, Inv, RowsOK
  <1>7. GoodPosition(RemoveLot(p, k, 0))
    BY <1>2, <1>3, RemoveLotGood
  <1>8. RealizedBy(p, k, n) \in Int
    BY <1>2, <1>3, <1>5, RealizedByInt
  <1>9. account' \in [status : {"active", "frozen"}, realized : Int]
    BY <1>8 DEF FillExit, Inv, RowsOK
  <1>10. positions' = [positions EXCEPT ![e.asset] = RemoveLot(p, k, 0)]
    BY DEF FillExit
  <1>11. [e EXCEPT !.exit = kind, !.exitOrder = j] \in OrderRows
    BY <1>1 DEF OrderRows
  <1>12. ExitOrderOf(i, e, kind, k, n) \in OrderRows
    BY <1>1, <1>3, <1>5, ExitOrderOfType
  <1>13. orders' \in [OrderIds -> OrderRows]
    <2>1. i # j
      BY DEF FillExit, OpenExit, NextId
    <2>2. orders' = [orders EXCEPT ![i] = [e EXCEPT !.exit = kind, !.exitOrder = j],
                                   ![j] = ExitOrderOf(i, e, kind, k, n)]
      BY <2>1 DEF FillExit, Inv, RowsOK
    <2> QED
      BY <2>2, <1>11, <1>12 DEF Inv, RowsOK
  <1>14. RowsOK'
    BY <1>1, <1>6, <1>7, <1>9, <1>10, <1>13 DEF Inv, RowsOK, GoodPosition
  <1> QED
    BY <1>14, AdminUnchanged DEF FillExit, Inv

LEMMA SettleInv ==
  ASSUME Inv, NEW force \in BOOLEAN, NEW m \in Marks, Settle(force, m)
  PROVE  Inv'
  <1>1. orders' \in [OrderIds -> OrderRows]
    BY OrderStatusType DEF Settle, Inv, RowsOK, OrderStatuses
  <1>2. GoodCash(cash')
    BY DEF Settle, Inv, RowsOK, GoodCash, CashRows
  <1>3. \A a \in Assets : GoodPosition(positions'[a]) /\ positions'[a] \in PositionRows
    BY UnlockLotGood DEF Settle, Inv, RowsOK, GoodPosition
  <1>4. positions' \in [Assets -> PositionRows]
    BY <1>3 DEF Settle
  <1>5. account' \in [status : {"active", "frozen"}, realized : Int]
    BY DEF Settle, Inv, RowsOK
  <1>6. RowsOK'
    BY <1>1, <1>2, <1>3, <1>4, <1>5 DEF RowsOK
  <1>7. ReleasedCash(cash) \in Int
    BY DEF ReleasedCash, Inv, RowsOK, GoodCash, CashRows
  <1>8. [a \in Assets |-> positions[a].quantity] \in [Assets -> Int]
    BY DEF Inv, RowsOK, PositionRows
  <1>9. settlements' \in Seq(SettlementRows)
    <2> DEFINE row == [cash |-> ReleasedCash(cash),
                       holdings |-> [a \in Assets |-> positions[a].quantity],
                       status |-> "completed"]
    <2>1. row \in SettlementRows
      BY <1>7, <1>8 DEF SettlementRows
    <2>2. settlements' = Append(settlements, row)
      BY DEF Settle
    <2>3. settlements \in Seq(SettlementRows)
      BY DEF Inv, AdminOK
    <2> QED
      BY <2>1, <2>2, <2>3
  <1>10. AdminOK'
    BY <1>9 DEF Settle, Inv, AdminOK
  <1> QED
    BY <1>6, <1>10 DEF Inv

LEMMA StatusInv ==
  ASSUME Inv,
         \/ \E s \in ContestStatuses : SetContestStatus(s)
         \/ \E s \in {"active", "locked", "disqualified"} : SetParticipantStatus(s)
         \/ Tick
  PROVE  Inv'
  <1>1. CASE \E s \in ContestStatuses : SetContestStatus(s)
    BY <1>1 DEF SetContestStatus, Inv, RowsOK, AdminOK
  <1>2. CASE \E s \in {"active", "locked", "disqualified"} : SetParticipantStatus(s)
    BY <1>2 DEF SetParticipantStatus, StandingOf, Inv, RowsOK, AdminOK
  <1>3. CASE Tick
    BY <1>3 DEF Tick, Inv, RowsOK, AdminOK
  <1> QED
    BY <1>1, <1>2, <1>3

-----------------------------------------------------------------------------
(* What no step does to an order that is there.                            *)

\* The exit of entry i fires, and order j sells k units at a notional of n.
Fires(i, kind, j, k, n) ==
    /\ i # j
    /\ orders[i].status = "filled" /\ orders[i].side = "buy" /\ orders[i].exit = "open"
    /\ orders'[i] = [orders[i] EXCEPT !.exit = kind, !.exitOrder = j]
    /\ k <= orders[i].filled
    /\ orders[j].status = "none"
    /\ orders'[j] = ExitOrderOf(i, orders[i], kind, k, n)

\* A step inserts an order at an unused id, or changes one that is pending or
\* whose exit is open, or leaves the order alone.
OrderStep(i) ==
    \/ orders'[i] = orders[i]
    \/ \E r \in Requests, n \in Nat :
           /\ orders[i].status = "none"
           /\ \/ orders'[i] = OrderOf(r, "filled", r.quantity, n)
              \/ orders'[i] = OrderOf(r, "pending", 0, 0)
    \/ /\ orders[i].status = "pending"
       /\ \/ orders'[i] = [orders[i] EXCEPT !.status = "cancelled"]
          \/ orders'[i] = Completed(orders[i])
    \/ /\ orders[i].status = "filled" /\ orders[i].side = "buy" /\ orders[i].exit = "open"
       /\ orders'[i] = [orders[i] EXCEPT !.exit = "skipped"]
    \/ \E kind \in ExitKinds, j \in OrderIds, k \in Nat, n \in Nat :
           Fires(i, kind, j, k, n) \/ Fires(j, kind, i, k, n)

LEMMA PlaceOrders ==
  ASSUME Inv, Place, NEW x \in OrderIds PROVE OrderStep(x)
  <1>1. PICK r \in Requests, q \in Quotes, i \in OrderIds :
            ExecuteBuy(r, q, i) \/ ExecuteSell(r, q, i) \/ RestBuy(r, q, i) \/ RestSell(r, q, i)
    BY DEF Place
  <1>2. WalkedNotional(r, q) \in Nat
    BY WalkedNotionalNat
  <1>3. orders[i].status = "none"
    BY <1>1 DEF ExecuteBuy, ExecuteSell, RestBuy, RestSell, NextId
  <1>4. \/ orders' = [orders EXCEPT ![i] = OrderOf(r, "filled", r.quantity, WalkedNotional(r, q))]
        \/ orders' = [orders EXCEPT ![i] = OrderOf(r, "pending", 0, 0)]
    BY <1>1 DEF ExecuteBuy, ExecuteSell, RestBuy, RestSell
  <1>5. orders \in [OrderIds -> OrderRows]
    BY DEF Inv, RowsOK
  <1> QED
    BY <1>2, <1>3, <1>4, <1>5 DEF OrderStep

LEMMA CancelOrders ==
  ASSUME Inv, NEW i \in OrderIds, CancelBuy(i) \/ CancelSell(i), NEW x \in OrderIds
  PROVE  OrderStep(x)
  <1>1. orders' = [orders EXCEPT ![i] = [orders[i] EXCEPT !.status = "cancelled"]]
    BY DEF CancelBuy, CancelSell
  <1>2. orders[i].status = "pending"
    BY DEF CancelBuy, CancelSell, Cancellable
  <1> QED
    BY <1>1, <1>2 DEF OrderStep, Inv, RowsOK

LEMMA FillOrders ==
  ASSUME Inv, NEW i \in OrderIds, FillBuy(i) \/ FillSell(i), NEW x \in OrderIds
  PROVE  OrderStep(x)
  <1>1. orders' = [orders EXCEPT ![i] = Completed(orders[i])]
    BY DEF FillBuy, FillSell
  <1>2. orders[i].status = "pending"
    BY DEF FillBuy, FillSell
  <1> QED
    BY <1>1, <1>2 DEF OrderStep, Inv, RowsOK

LEMMA SkipExitOrders ==
  ASSUME Inv, NEW i \in OrderIds, NEW kind \in ExitKinds, SkipExit(i, kind), NEW x \in OrderIds
  PROVE  OrderStep(x)
  <1>1. orders' = [orders EXCEPT ![i] = [orders[i] EXCEPT !.exit = "skipped"]]
    BY DEF SkipExit
  <1> QED
    BY <1>1 DEF SkipExit, OpenExit, OrderStep, Inv, RowsOK

LEMMA FillExitOrders ==
  ASSUME Inv, NEW i \in OrderIds, NEW kind \in ExitKinds, NEW j \in OrderIds,
         FillExit(i, kind, j), NEW x \in OrderIds
  PROVE  OrderStep(x)
  <1> DEFINE e == orders[i]
             p == positions[e.asset]
             k == ExitQuantity(e, p)
             n == ExitPrice(e, kind) * k
  <1>1. /\ e.status = "filled" /\ e.side = "buy" /\ e.exit = "open"
        /\ orders[j].status = "none" /\ i # j
    BY DEF FillExit, OpenExit, NextId
  <1>2. e \in OrderRows /\ GoodPosition(p) /\ Free(p) > 0
    BY DEF FillExit, Inv, RowsOK, OrderRows
  <1>3. k \in Nat /\ k <= e.filled
    BY <1>2 DEF ExitQuantity, GoodPosition, PositionRows, OrderRows, Free
  <1>4. n \in Nat
    BY <1>2, <1>3, ProductNat DEF ExitPrice, OrderRows
  <1>5. orders' = [orders EXCEPT ![i] = [e EXCEPT !.exit = kind, !.exitOrder = j],
                                 ![j] = ExitOrderOf(i, e, kind, k, n)]
    BY <1>1 DEF FillExit, Inv, RowsOK
  <1>6. orders \in [OrderIds -> OrderRows]
    BY DEF Inv, RowsOK
  <1> HIDE DEF p, k, n
  <1>7. /\ orders'[i] = [e EXCEPT !.exit = kind, !.exitOrder = j]
        /\ orders'[j] = ExitOrderOf(i, e, kind, k, n)
        /\ x # i /\ x # j => orders'[x] = orders[x]
    BY <1>1, <1>5, <1>6
  <1>8. Fires(i, kind, j, k, n)
    BY <1>1, <1>3, <1>7 DEF Fires
  <1>9. x \in {i, j} => \/ Fires(x, kind, j, k, n)
                        \/ Fires(i, kind, x, k, n)
    BY <1>8
  <1>10. x \in {i, j} => OrderStep(x)
    BY <1>3, <1>4, <1>9 DEF OrderStep
  <1> QED
    BY <1>7, <1>10 DEF OrderStep

LEMMA AdministerOrders ==
  ASSUME Inv, Administer, NEW x \in OrderIds PROVE OrderStep(x)
  <1>1. CASE \E force \in BOOLEAN, m \in Marks : Settle(force, m)
    <2>1. orders'[x] = IF orders[x].status = "pending"
                       THEN [orders[x] EXCEPT !.status = "cancelled"] ELSE orders[x]
      BY <1>1 DEF Settle
    <2> QED
      BY <2>1 DEF OrderStep
  <1>2. CASE \E s \in ContestStatuses : SetContestStatus(s)
    BY <1>2 DEF SetContestStatus, OrderStep
  <1>3. CASE \E s \in {"active", "locked", "disqualified"} : SetParticipantStatus(s)
    BY <1>3 DEF SetParticipantStatus, OrderStep
  <1>4. CASE Tick
    BY <1>4 DEF Tick, OrderStep
  <1> QED
    BY <1>1, <1>2, <1>3, <1>4 DEF Administer, SettleContest, Resettle, Moderate

LEMMA StepOrders ==
  ASSUME Inv, [Next]_vars PROVE \A x \in OrderIds : OrderStep(x)
  <1> TAKE x \in OrderIds
  <1>1. CASE Place
    BY <1>1, PlaceOrders
  <1>2. CASE \E i \in OrderIds : CancelBuy(i) \/ CancelSell(i)
    BY <1>2, CancelOrders
  <1>3. CASE Reconcile
    BY <1>3, FillOrders, SkipExitOrders, FillExitOrders DEF Reconcile
  <1>4. CASE Administer
    BY <1>4, AdministerOrders
  <1>5. CASE UNCHANGED vars
    BY <1>5 DEF vars, OrderStep
  <1> QED
    BY <1>1, <1>2, <1>3, <1>4, <1>5 DEF Next, Cancel

-----------------------------------------------------------------------------
(* The invariant is kept.                                                  *)

LEMMA AskingStep ==
  ASSUME Inv, Asking, [Next]_vars PROVE Asking'
  <1> SUFFICES ASSUME NEW i \in OrderIds, orders'[i].status = "pending"
               PROVE  orders'[i].quantity > 0
    BY DEF Asking
  <1>1. OrderStep(i)
    BY StepOrders
  <1>2. orders[i] \in OrderRows
    BY DEF Inv, RowsOK
  <1>3. CASE orders'[i] = orders[i]
    BY <1>3 DEF Asking
  <1>4. CASE \E r \in Requests : orders'[i] = OrderOf(r, "pending", 0, 0)
    BY <1>4, RequestFacts DEF OrderOf
  <1>5. CASE \E r \in Requests, n \in Nat : orders'[i] = OrderOf(r, "filled", r.quantity, n)
    BY <1>5 DEF OrderOf
  <1>6. CASE \/ orders'[i] = [orders[i] EXCEPT !.status = "cancelled"]
             \/ orders'[i] = Completed(orders[i])
    BY <1>2, <1>6 DEF Completed, OrderRows
  <1>7. CASE orders[i].status = "filled" /\ orders'[i] = [orders[i] EXCEPT !.exit = "skipped"]
    BY <1>2, <1>7 DEF OrderRows
  <1>8. CASE \E kind \in ExitKinds, j \in OrderIds, k \in Nat, n \in Nat :
                 Fires(i, kind, j, k, n) \/ Fires(j, kind, i, k, n)
    <2>1. PICK kind \in ExitKinds, j \in OrderIds, k \in Nat, n \in Nat :
              Fires(i, kind, j, k, n) \/ Fires(j, kind, i, k, n)
      BY <1>8
    <2>2. CASE Fires(i, kind, j, k, n)
      BY <1>2, <2>2 DEF Fires, OrderRows
    <2>3. CASE Fires(j, kind, i, k, n)
      BY <2>3 DEF Fires, ExitOrderOf
    <2> QED
      BY <2>1, <2>2, <2>3
  <1> QED
    BY <1>1, <1>3, <1>4, <1>5, <1>6, <1>7, <1>8 DEF OrderStep

LEMMA InvStep == ASSUME Inv, Asking, [Next]_vars PROVE Inv'
  <1>1. CASE Place
    BY <1>1, ExecuteBuyInv, ExecuteSellInv, RestBuyInv, RestSellInv DEF Place
  <1>2. CASE \E i \in OrderIds : CancelBuy(i) \/ CancelSell(i)
    BY <1>2, CancelBuyInv, CancelSellInv
  <1>3. CASE Reconcile
    BY <1>3, FillBuyInv, FillSellInv, SkipExitInv, FillExitInv DEF Reconcile
  <1>4. CASE Administer
    BY <1>4, SettleInv, StatusInv DEF Administer, SettleContest, Resettle, Moderate
  <1>5. CASE UNCHANGED vars
    BY <1>5 DEF vars, Inv, RowsOK, AdminOK
  <1> QED
    BY <1>1, <1>2, <1>3, <1>4, <1>5 DEF Next, Cancel

LEMMA AlwaysInv == Spec => [](Inv /\ Asking)
  <1>1. Init => Inv /\ Asking
    <2>1. NoOrder.status # "pending"
      BY DEF NoOrder
    <2>2. Init => Asking
      BY <2>1 DEF Init, Asking
    <2> QED
      BY <2>2, InvInit
  <1>2. Inv /\ Asking /\ [Next]_vars => (Inv /\ Asking)'
    BY InvStep, AskingStep
  <1> QED
    BY <1>1, <1>2, PTL DEF Spec

-----------------------------------------------------------------------------

\* Every row keeps its type, whatever the prices, fees and quantities: in
\* particular no sale or exit divides by an empty position.
THEOREM TypeCorrectness == Spec => []TypeOK
  <1>1. Inv => TypeOK
    BY InvMeaning
  <1> QED
    BY <1>1, AlwaysInv, PTL

\* Cash and positions never go negative and nothing locked is sold, whatever
\* the market, for any number of orders, assets and settlements.
THEOREM Solvency == Spec => []Solvent
  <1>1. Inv => Solvent
    BY InvMeaning
  <1> QED
    BY <1>1, AlwaysInv, PTL

\* A filled or cancelled order, and an exit that fired or was given up, stay
\* as they are.
THEOREM Finality == Spec => OrdersAreFinal
  <1> DEFINE Final(i) ==
               orders[i].status \in {"filled", "cancelled"} =>
                  /\ orders'[i].status = orders[i].status
                  /\ orders'[i].filled = orders[i].filled
                  /\ orders'[i].notional = orders[i].notional
                  /\ orders[i].exit # "open" => /\ orders'[i].exit = orders[i].exit
                                                /\ orders'[i].exitOrder = orders[i].exitOrder
  <1>1. ASSUME Inv, [Next]_vars, NEW i \in OrderIds PROVE Final(i)
    <2> SUFFICES ASSUME orders[i].status \in {"filled", "cancelled"}
                 PROVE  /\ orders'[i].status = orders[i].status
                        /\ orders'[i].filled = orders[i].filled
                        /\ orders'[i].notional = orders[i].notional
                        /\ orders[i].exit # "open" => /\ orders'[i].exit = orders[i].exit
                                                      /\ orders'[i].exitOrder = orders[i].exitOrder
      OBVIOUS
    <2>1. OrderStep(i)
      BY <1>1, StepOrders
    <2>2. orders[i] \in OrderRows
      BY <1>1 DEF Inv, RowsOK
    <2>3. CASE orders'[i] = orders[i]
      BY <2>3
    <2>4. CASE orders[i].exit = "open" /\ orders'[i] = [orders[i] EXCEPT !.exit = "skipped"]
      BY <2>2, <2>4 DEF OrderRows
    <2>5. CASE \E kind \in ExitKinds, j \in OrderIds, k \in Nat, n \in Nat : Fires(i, kind, j, k, n)
      BY <2>2, <2>5 DEF Fires, OrderRows
    <2>6. ~(\E kind \in ExitKinds, j \in OrderIds, k \in Nat, n \in Nat : Fires(j, kind, i, k, n))
      BY DEF Fires
    <2>7. orders[i].status # "none" /\ orders[i].status # "pending"
      OBVIOUS
    <2> QED
      BY <2>1, <2>3, <2>4, <2>5, <2>6, <2>7 DEF OrderStep
  <1>2. Inv /\ [Next]_vars => [\A i \in OrderIds : Final(i)]_vars
    BY <1>1
  <1> QED
    BY <1>2, AlwaysInv, PTL DEF Spec, OrdersAreFinal

\* A frozen account keeps its cash, its profit and its holdings.
THEOREM FrozenStaysStill == Spec => FrozenIsStill
  <1> DEFINE Still ==
               account.status = "frozen" =>
                  /\ cash'.available + cash'.locked = cash.available + cash.locked
                  /\ account'.realized = account.realized
                  /\ \A a \in Assets : positions'[a].quantity = positions[a].quantity
  <1>1. ASSUME Inv, [Next]_vars PROVE Still
    <2> SUFFICES ASSUME account.status = "frozen"
                 PROVE  /\ cash'.available + cash'.locked = cash.available + cash.locked
                        /\ account'.realized = account.realized
                        /\ \A a \in Assets : positions'[a].quantity = positions[a].quantity
      OBVIOUS
    <2>1. ~Place
      BY DEF Place, ExecuteBuy, ExecuteSell, RestBuy, RestSell, Accepted, TradingAllowed
    <2>2. ~(\E i \in OrderIds : CancelBuy(i) \/ CancelSell(i))
      BY DEF CancelBuy, CancelSell
    <2>3. CASE Reconcile
      BY <2>3 DEF Reconcile, FillBuy, FillSell, SkipExit, FillExit, OpenExit, TradingAllowed
    <2>4. CASE \E force \in BOOLEAN, m \in Marks : Settle(force, m)
      BY <1>1, <2>4 DEF Settle, Inv, RowsOK, CashRows, PositionRows, GoodCash
    <2>5. CASE \E s \in ContestStatuses : SetContestStatus(s)
      BY <2>5 DEF SetContestStatus
    <2>6. CASE \E s \in {"active", "locked", "disqualified"} : SetParticipantStatus(s)
      BY <1>1, <2>6 DEF SetParticipantStatus, Inv, RowsOK
    <2>7. CASE Tick
      BY <2>7 DEF Tick
    <2>8. CASE UNCHANGED vars
      BY <2>8 DEF vars
    <2> QED
      BY <1>1, <2>1, <2>2, <2>3, <2>4, <2>5, <2>6, <2>7, <2>8 DEF Next, Cancel, Administer, SettleContest, Resettle, Moderate
  <1>2. Inv /\ [Next]_vars => [Still]_vars
    BY <1>1
  <1> QED
    BY <1>2, AlwaysInv, PTL DEF Spec, FrozenIsStill

-----------------------------------------------------------------------------
(* Exits and their entries.                                                *)

ExitsAreOfFilledOrders == \A i \in OrderIds : orders[i].exit # "open" => orders[i].status = "filled"

SameExecution(o, p) ==
    /\ p.status = o.status /\ p.client = o.client /\ p.side = o.side /\ p.asset = o.asset
    /\ p.filled = o.filled

\* Nothing rewrites the execution of a filled order.
LEMMA FilledKept ==
  ASSUME Inv, [Next]_vars, NEW i \in OrderIds, orders[i].status = "filled"
  PROVE  SameExecution(orders[i], orders'[i])
  <1>1. OrderStep(i)
    BY StepOrders
  <1>2. orders[i] \in OrderRows
    BY DEF Inv, RowsOK
  <1>3. CASE orders'[i] = orders[i]
    BY <1>3 DEF SameExecution
  <1>4. CASE orders'[i] = [orders[i] EXCEPT !.exit = "skipped"]
    BY <1>2, <1>4 DEF SameExecution, OrderRows
  <1>5. CASE \E kind \in ExitKinds, j \in OrderIds, k \in Nat, n \in Nat : Fires(i, kind, j, k, n)
    BY <1>2, <1>5 DEF Fires, SameExecution, OrderRows
  <1>6. ~(\E kind \in ExitKinds, j \in OrderIds, k \in Nat, n \in Nat : Fires(j, kind, i, k, n))
    BY DEF Fires
  <1> QED
    BY <1>1, <1>3, <1>4, <1>5, <1>6 DEF OrderStep

LEMMA ExitsOfFilledStep ==
  ASSUME Inv, ExitsAreOfFilledOrders, [Next]_vars PROVE ExitsAreOfFilledOrders'
  <1> SUFFICES ASSUME NEW i \in OrderIds, orders'[i].exit # "open"
               PROVE  orders'[i].status = "filled"
    BY DEF ExitsAreOfFilledOrders
  <1>1. CASE orders[i].status = "filled"
    BY <1>1, FilledKept DEF SameExecution
  <1>2. CASE orders[i].status # "filled"
    <2>1. orders[i].exit = "open" /\ orders[i] \in OrderRows
      BY <1>2 DEF ExitsAreOfFilledOrders, Inv, RowsOK
    <2>2. OrderStep(i)
      BY StepOrders
    <2>3. CASE orders'[i] = orders[i]
      BY <2>1, <2>3
    <2>4. CASE \E r \in Requests, n \in Nat : \/ orders'[i] = OrderOf(r, "filled", r.quantity, n)
                                             \/ orders'[i] = OrderOf(r, "pending", 0, 0)
      BY <2>4 DEF OrderOf
    <2>5. CASE \/ orders'[i] = [orders[i] EXCEPT !.status = "cancelled"]
             \/ orders'[i] = Completed(orders[i])
      BY <2>1, <2>5 DEF Completed, OrderRows
    <2>6. CASE \E kind \in ExitKinds, j \in OrderIds, k \in Nat, n \in Nat : Fires(j, kind, i, k, n)
      BY <2>6 DEF Fires, ExitOrderOf
    <2>7. ~(\E kind \in ExitKinds, j \in OrderIds, k \in Nat, n \in Nat : Fires(i, kind, j, k, n))
      BY <1>2 DEF Fires
    <2> QED
      BY <1>2, <2>2, <2>3, <2>4, <2>5, <2>6, <2>7 DEF OrderStep
  <1> QED
    BY <1>1, <1>2

LEMMA ExitsBelongStep ==
  ASSUME Inv, ExitsAreOfFilledOrders, ExitsBelongToTheirEntries, [Next]_vars
  PROVE  ExitsBelongToTheirEntries'
  <1> DEFINE Belongs(e, x, i) ==
               /\ x.client = <<e.exit, i>>
               /\ x.status = "filled" /\ x.side = "sell" /\ x.asset = e.asset
               /\ x.filled <= e.filled
  <1> SUFFICES ASSUME NEW i \in OrderIds, orders'[i].exit \in ExitKinds
               PROVE  /\ orders'[i].exitOrder \in OrderIds
                      /\ Belongs(orders'[i], orders'[orders'[i].exitOrder], i)
    BY DEF ExitsBelongToTheirEntries
  <1>1. OrderStep(i) /\ orders[i] \in OrderRows
    BY StepOrders DEF Inv, RowsOK
  <1>2. orders'[i].exit # "open" /\ orders'[i].exit # "skipped"
    BY DEF ExitKinds
  <1>3. CASE orders'[i] = orders[i]
    <2> DEFINE j == orders[i].exitOrder
    <2>1. j \in OrderIds /\ Belongs(orders[i], orders[j], i)
      BY <1>3 DEF ExitsBelongToTheirEntries
    <2>2. SameExecution(orders[j], orders'[j])
      BY <2>1, FilledKept
    <2> QED
      BY <1>3, <2>1, <2>2 DEF SameExecution
  <1>4. CASE \E r \in Requests, n \in Nat : \/ orders'[i] = OrderOf(r, "filled", r.quantity, n)
                                           \/ orders'[i] = OrderOf(r, "pending", 0, 0)
    BY <1>2, <1>4 DEF OrderOf
  <1>5. CASE /\ orders[i].status = "pending"
             /\ \/ orders'[i] = [orders[i] EXCEPT !.status = "cancelled"]
                \/ orders'[i] = Completed(orders[i])
    BY <1>1, <1>2, <1>5 DEF Completed, OrderRows, ExitsAreOfFilledOrders
  <1>6. CASE orders'[i] = [orders[i] EXCEPT !.exit = "skipped"]
    BY <1>1, <1>2, <1>6 DEF OrderRows
  <1>7. CASE \E kind \in ExitKinds, j \in OrderIds, k \in Nat, n \in Nat : Fires(i, kind, j, k, n)
    <2>1. PICK kind \in ExitKinds, j \in OrderIds, k \in Nat, n \in Nat : Fires(i, kind, j, k, n)
      BY <1>7
    <2>2. /\ orders'[i].exit = kind /\ orders'[i].exitOrder = j
          /\ orders'[i].asset = orders[i].asset /\ orders'[i].filled = orders[i].filled
      BY <1>1, <2>1 DEF Fires, OrderRows
    <2>3. orders'[j] = ExitOrderOf(i, orders[i], kind, k, n) /\ k <= orders[i].filled
      BY <2>1 DEF Fires
    <2> QED
      BY <2>2, <2>3 DEF ExitOrderOf
  <1>8. ~(\E kind \in ExitKinds, j \in OrderIds, k \in Nat, n \in Nat : Fires(j, kind, i, k, n))
    <2> SUFFICES ASSUME NEW kind \in ExitKinds, NEW j \in OrderIds, NEW k \in Nat, NEW n \in Nat,
                        Fires(j, kind, i, k, n)
                 PROVE  FALSE
      OBVIOUS
    <2>1. orders'[i] = ExitOrderOf(j, orders[j], kind, k, n)
      BY DEF Fires
    <2>2. orders'[i].exit = "open"
      BY <2>1 DEF ExitOrderOf
    <2> QED
      BY <1>2, <2>2
  <1>9. \/ orders'[i] = orders[i]
        \/ \E r \in Requests, n \in Nat : \/ orders'[i] = OrderOf(r, "filled", r.quantity, n)
                                          \/ orders'[i] = OrderOf(r, "pending", 0, 0)
        \/ /\ orders[i].status = "pending"
           /\ \/ orders'[i] = [orders[i] EXCEPT !.status = "cancelled"]
              \/ orders'[i] = Completed(orders[i])
        \/ orders'[i] = [orders[i] EXCEPT !.exit = "skipped"]
        \/ \E kind \in ExitKinds, j \in OrderIds, k \in Nat, n \in Nat : Fires(i, kind, j, k, n)
    BY <1>1, <1>8 DEF OrderStep
  <1> QED
    BY <1>3, <1>4, <1>5, <1>6, <1>7, <1>9

\* An exit order sells the asset of the entry that names it, no more than the
\* entry bought, and its client id names that entry and no other.
THEOREM ExitsBelong == Spec => []ExitsBelongToTheirEntries
  <1>1. Init => ExitsAreOfFilledOrders /\ ExitsBelongToTheirEntries
    <2>1. NoOrder.exit = "open"
      BY DEF NoOrder
    <2> QED
      BY <2>1 DEF Init, ExitsAreOfFilledOrders, ExitsBelongToTheirEntries, ExitKinds
  <1>2. /\ Inv /\ ExitsAreOfFilledOrders /\ ExitsBelongToTheirEntries /\ [Next]_vars
        => (ExitsAreOfFilledOrders /\ ExitsBelongToTheirEntries)'
    BY ExitsOfFilledStep, ExitsBelongStep
  <1> QED
    BY <1>1, <1>2, AlwaysInv, PTL DEF Spec

-----------------------------------------------------------------------------
(* The audit of the books.  Locks, cash and holdings are sums over the     *)
(* orders; a step changes one of them, and the rows by what it says.       *)

Audited == LocksMatchPending /\ CashMatchesFills /\ HoldingsMatchFills

\* An order without an execution has moved nothing.
Unfilled ==
    \A i \in OrderIds : orders[i].status # "filled" => orders[i].filled = 0 /\ orders[i].notional = 0

\* i is the order that changes, and a its asset.
LEMMA AuditOne ==
  ASSUME Inv, Inv', Audited, NEW i \in OrderIds, NEW a \in Assets,
         \A k \in OrderIds \ {i} : orders'[k] = orders[k],
         \A b \in Assets \ {a} : positions'[b] = positions[b],
         \A b \in Assets \ {a} : /\ LotPromise(orders'[i], b) = LotPromise(orders[i], b)
                                 /\ LotMoved(orders'[i], b) = LotMoved(orders[i], b),
         cash'.locked - cash.locked = CashPromise(orders'[i]) - CashPromise(orders[i]),
         (cash'.available + cash'.locked) - (cash.available + cash.locked)
             = CashSpent(orders[i]) - CashSpent(orders'[i]),
         positions'[a].locked - positions[a].locked
             = LotPromise(orders'[i], a) - LotPromise(orders[i], a),
         positions'[a].quantity - positions[a].quantity
             = LotMoved(orders'[i], a) - LotMoved(orders[i], a)
  PROVE  Audited'
  <1>1. /\ cash \in CashRows /\ positions \in [Assets -> PositionRows]
        /\ orders \in [OrderIds -> OrderRows]
        /\ cash' \in CashRows /\ positions' \in [Assets -> PositionRows]
        /\ orders' \in [OrderIds -> OrderRows]
    BY DEF Inv, RowsOK, GoodCash
  <1>2. ASSUME NEW b \in Assets
        PROVE  /\ positions'[b].locked - positions[b].locked
                      = LotPromise(orders'[i], b) - LotPromise(orders[i], b)
               /\ positions'[b].quantity - positions[b].quantity
                      = LotMoved(orders'[i], b) - LotMoved(orders[i], b)
    <2>1. CASE b = a
      BY <2>1
    <2>2. CASE b # a
      <3>1. positions[b].locked \in Int /\ positions[b].quantity \in Int /\ positions'[b] = positions[b]
        BY <1>1, <2>2 DEF PositionRows
      <3>2. LotPromise(orders[i], b) \in Int /\ LotMoved(orders[i], b) \in Int
        BY <1>1, LotPromiseNat, LotMovedInt
      <3>3. /\ LotPromise(orders'[i], b) = LotPromise(orders[i], b)
            /\ LotMoved(orders'[i], b) = LotMoved(orders[i], b)
        BY <2>2
      <3> QED
        BY <3>1, <3>2, <3>3
    <2> QED
      BY <2>1, <2>2
  <1>3. LocksBalance(cash', positions', orders')
    BY <1>1, <1>2, LocksUpdate DEF Audited, LocksMatchPending
  <1>4. CashBalances(cash', orders')
    BY <1>1, CashUpdate DEF Audited, CashMatchesFills
  <1>5. HoldingsBalance(positions', orders')
    BY <1>1, <1>2, HoldingsUpdate DEF Audited, HoldingsMatchFills
  <1> QED
    BY <1>3, <1>4, <1>5 DEF Audited, LocksMatchPending, CashMatchesFills, HoldingsMatchFills

\* An id not handed out promises and moved nothing.
LEMMA FreshMoves ==
  ASSUME Inv, Unfilled, NEW i \in OrderIds, orders[i].status = "none"
  PROVE  /\ CashPromise(orders[i]) = 0 /\ CashSpent(orders[i]) = 0
         /\ \A a \in Assets : LotPromise(orders[i], a) = 0 /\ LotMoved(orders[i], a) = 0
  <1>1. orders[i].filled = 0 /\ orders[i].notional = 0
    BY DEF Unfilled
  <1>2. Gross(0) = 0 /\ Net(0) = 0
    BY MoneyAssumption DEF Gross, Net
  <1> QED
    BY <1>1, <1>2 DEF CashPromise, CashSpent, LotPromise, LotMoved

LEMMA ExecuteBuyAudit ==
  ASSUME Inv, Inv', Unfilled, Audited,
         NEW r \in Requests, NEW q \in Quotes, NEW i \in OrderIds, ExecuteBuy(r, q, i)
  PROVE  Audited'
  <1> DEFINE n == WalkedNotional(r, q)
             a == r.asset
             o == OrderOf(r, "filled", r.quantity, n)
  <1>1. a \in Assets /\ r.quantity \in Nat /\ n \in Nat /\ Gross(n) \in Nat
    BY RequestFacts, WalkedNotionalNat, GrossNat
  <1>2. orders' = [orders EXCEPT ![i] = o] /\ orders[i].status = "none"
    BY DEF ExecuteBuy, NextId
  <1>3. orders'[i] = o /\ \A k \in OrderIds \ {i} : orders'[k] = orders[k]
    BY <1>2 DEF Inv, RowsOK
  <1>4. /\ CashPromise(o) = 0 /\ CashSpent(o) = Gross(n)
        /\ \A b \in Assets : LotPromise(o, b) = 0
        /\ LotMoved(o, a) = r.quantity
        /\ \A b \in Assets \ {a} : LotMoved(o, b) = 0
    BY DEF ExecuteBuy, OrderOf, CashPromise, CashSpent, LotPromise, LotMoved
  <1>5. /\ cash'.available = cash.available - Gross(n) /\ cash'.locked = cash.locked
        /\ cash.available \in Int /\ cash.locked \in Int
    BY DEF ExecuteBuy, PayFromAvailable, Inv, RowsOK, GoodCash, CashRows
  <1>6. /\ positions'[a].quantity = positions[a].quantity + r.quantity
        /\ positions'[a].locked = positions[a].locked
        /\ positions[a].quantity \in Int /\ positions[a].locked \in Int
        /\ \A b \in Assets \ {a} : positions'[b] = positions[b]
    BY <1>1 DEF ExecuteBuy, AddLot, Inv, RowsOK, PositionRows
  <1>7. /\ CashPromise(orders[i]) = 0 /\ CashSpent(orders[i]) = 0
        /\ \A b \in Assets : LotPromise(orders[i], b) = 0 /\ LotMoved(orders[i], b) = 0
    BY <1>2, FreshMoves
  <1> HIDE DEF n, o, a
  <1> QED
    BY <1>1, <1>3, <1>4, <1>5, <1>6, <1>7, AuditOne

LEMMA ExecuteSellAudit ==
  ASSUME Inv, Inv', Unfilled, Audited,
         NEW r \in Requests, NEW q \in Quotes, NEW i \in OrderIds, ExecuteSell(r, q, i)
  PROVE  Audited'
  <1> DEFINE n == WalkedNotional(r, q)
             a == r.asset
             o == OrderOf(r, "filled", r.quantity, n)
  <1>1. a \in Assets /\ r.quantity \in Nat /\ n \in Nat /\ Net(n) \in Nat
    BY RequestFacts, WalkedNotionalNat, NetNat
  <1>2. orders' = [orders EXCEPT ![i] = o] /\ orders[i].status = "none"
    BY DEF ExecuteSell, NextId
  <1>3. orders'[i] = o /\ \A k \in OrderIds \ {i} : orders'[k] = orders[k]
    BY <1>2 DEF Inv, RowsOK
  <1>4. /\ CashPromise(o) = 0 /\ CashSpent(o) = 0 - Net(n)
        /\ \A b \in Assets : LotPromise(o, b) = 0
        /\ LotMoved(o, a) = 0 - r.quantity
        /\ \A b \in Assets \ {a} : LotMoved(o, b) = 0
    BY DEF ExecuteSell, OrderOf, CashPromise, CashSpent, LotPromise, LotMoved
  <1>5. /\ cash'.available = cash.available + Net(n) /\ cash'.locked = cash.locked
        /\ cash.available \in Int /\ cash.locked \in Int
    BY DEF ExecuteSell, Credit, Inv, RowsOK, GoodCash, CashRows
  <1>6. /\ positions[a].quantity \in Int /\ positions[a].locked \in Int
        /\ positions' = [positions EXCEPT ![a] = RemoveLot(positions[a], r.quantity, 0)]
        /\ positions \in [Assets -> PositionRows]
    BY <1>1 DEF ExecuteSell, Inv, RowsOK, PositionRows
  <1>7. /\ positions'[a].quantity = positions[a].quantity - r.quantity
        /\ positions'[a].locked = positions[a].locked
        /\ \A b \in Assets \ {a} : positions'[b] = positions[b]
    BY <1>1, <1>6 DEF RemoveLot
  <1>8. /\ CashPromise(orders[i]) = 0 /\ CashSpent(orders[i]) = 0
        /\ \A b \in Assets : LotPromise(orders[i], b) = 0 /\ LotMoved(orders[i], b) = 0
    BY <1>2, FreshMoves
  <1> HIDE DEF n, o, a
  <1> QED
    BY <1>1, <1>3, <1>4, <1>5, <1>6, <1>7, <1>8, AuditOne

LEMMA RestBuyAudit ==
  ASSUME Inv, Inv', Unfilled, Audited,
         NEW r \in Requests, NEW q \in Quotes, NEW i \in OrderIds, RestBuy(r, q, i)
  PROVE  Audited'
  <1> DEFINE a == r.asset
             o == OrderOf(r, "pending", 0, 0)
  <1>1. a \in Assets /\ o \in OrderRows /\ Reserve(o) \in Nat
    BY RequestFacts, OrderOfType, ReserveNat DEF OrderStatuses
  <1>2. orders' = [orders EXCEPT ![i] = o] /\ orders[i].status = "none"
    BY DEF RestBuy, NextId
  <1>3. orders'[i] = o /\ \A k \in OrderIds \ {i} : orders'[k] = orders[k]
    BY <1>2 DEF Inv, RowsOK
  <1>4. Gross(0) = 0 /\ o.side = "buy" /\ o.status = "pending" /\ o.filled = 0 /\ o.notional = 0
    BY MoneyAssumption DEF Gross, RestBuy, OrderOf
  <1>5. /\ CashPromise(o) = Reserve(o) /\ CashSpent(o) = 0
        /\ \A b \in Assets : LotPromise(o, b) = 0 /\ LotMoved(o, b) = 0
    BY <1>4 DEF CashPromise, CashSpent, LotPromise, LotMoved
  <1>6. /\ cash'.available = cash.available - Reserve(o) /\ cash'.locked = cash.locked + Reserve(o)
        /\ cash.available \in Int /\ cash.locked \in Int
    BY DEF RestBuy, ReserveCash, Inv, RowsOK, GoodCash, CashRows
  <1>7. /\ positions' = positions
        /\ positions[a].quantity \in Int /\ positions[a].locked \in Int
    BY <1>1 DEF RestBuy, Inv, RowsOK, PositionRows
  <1>8. /\ CashPromise(orders[i]) = 0 /\ CashSpent(orders[i]) = 0
        /\ \A b \in Assets : LotPromise(orders[i], b) = 0 /\ LotMoved(orders[i], b) = 0
    BY <1>2, FreshMoves
  <1> HIDE DEF o, a
  <1> QED
    BY <1>1, <1>3, <1>5, <1>6, <1>7, <1>8, AuditOne

LEMMA RestSellAudit ==
  ASSUME Inv, Inv', Unfilled, Audited,
         NEW r \in Requests, NEW q \in Quotes, NEW i \in OrderIds, RestSell(r, q, i)
  PROVE  Audited'
  <1> DEFINE a == r.asset
             o == OrderOf(r, "pending", 0, 0)
  <1>1. a \in Assets /\ o.asset = a /\ o.quantity \in Nat
    BY RequestFacts DEF OrderOf
  <1>2. orders' = [orders EXCEPT ![i] = o] /\ orders[i].status = "none"
    BY DEF RestSell, NextId
  <1>3. orders'[i] = o /\ \A k \in OrderIds \ {i} : orders'[k] = orders[k]
    BY <1>2 DEF Inv, RowsOK
  <1>4. Net(0) = 0 /\ o.side = "sell" /\ o.status = "pending" /\ o.filled = 0 /\ o.notional = 0
    BY MoneyAssumption DEF Net, RestSell, OrderOf
  <1>5. /\ CashPromise(o) = 0 /\ CashSpent(o) = 0
        /\ LotPromise(o, a) = o.quantity /\ LotMoved(o, a) = 0
        /\ \A b \in Assets \ {a} : LotPromise(o, b) = 0 /\ LotMoved(o, b) = 0
    BY <1>1, <1>4 DEF CashPromise, CashSpent, LotPromise, LotMoved
  <1>6. cash' = cash /\ cash.available \in Int /\ cash.locked \in Int
    BY DEF RestSell, Inv, RowsOK, GoodCash, CashRows
  <1>7. /\ positions[a].quantity \in Int /\ positions[a].locked \in Int
        /\ positions'[a].quantity = positions[a].quantity
        /\ positions'[a].locked = positions[a].locked + o.quantity
        /\ \A b \in Assets \ {a} : positions'[b] = positions[b]
    BY <1>1 DEF RestSell, ReserveLot, Inv, RowsOK, PositionRows
  <1>8. /\ CashPromise(orders[i]) = 0 /\ CashSpent(orders[i]) = 0
        /\ \A b \in Assets : LotPromise(orders[i], b) = 0 /\ LotMoved(orders[i], b) = 0
    BY <1>2, FreshMoves
  <1> HIDE DEF o, a
  <1> QED
    BY <1>1, <1>3, <1>5, <1>6, <1>7, <1>8, AuditOne

\* A cancelled order gives back what it locked: never more than is locked,
\* which is what all the pending orders promise together.
LEMMA CancelBuyAudit ==
  ASSUME Inv, Inv', Audited, NEW i \in OrderIds, CancelBuy(i)
  PROVE  Audited'
  <1> DEFINE o == orders[i]
             p == [orders[i] EXCEPT !.status = "cancelled"]
             a == o.asset
  <1>1. o \in OrderRows /\ a \in Assets /\ orders \in [OrderIds -> OrderRows] /\ Reserve(o) \in Nat
    BY ReserveNat DEF Inv, RowsOK, OrderRows
  <1>2. orders' = [orders EXCEPT ![i] = p] /\ o.status = "pending" /\ o.side = "buy"
    BY DEF CancelBuy, Cancellable
  <1>3. orders'[i] = p /\ \A k \in OrderIds \ {i} : orders'[k] = orders[k]
    BY <1>1, <1>2
  <1>4. /\ p.status = "cancelled" /\ p.side = o.side /\ p.asset = o.asset
        /\ p.filled = o.filled /\ p.notional = o.notional
    BY <1>1 DEF OrderRows
  <1>5. /\ CashPromise(o) = Reserve(o) /\ CashPromise(p) = 0 /\ CashSpent(p) = CashSpent(o)
        /\ \A b \in Assets : LotPromise(o, b) = 0 /\ LotPromise(p, b) = 0
                             /\ LotMoved(p, b) = LotMoved(o, b)
    BY <1>2, <1>4 DEF CashPromise, CashSpent, LotPromise, LotMoved
  <1>6. Reserve(o) <= cash.locked
    BY <1>1, <1>5, PromiseBound DEF Audited, LocksMatchPending, LocksBalance
  <1>7. /\ cash'.available = cash.available + Reserve(o) /\ cash'.locked = cash.locked - Reserve(o)
        /\ cash.available \in Int /\ cash.locked \in Int
    BY <1>1, <1>6 DEF CancelBuy, ReleaseCash, AtLeastZero, Inv, RowsOK, GoodCash, CashRows
  <1>8. /\ positions' = positions
        /\ positions[a].quantity \in Int /\ positions[a].locked \in Int
    BY <1>1 DEF CancelBuy, Inv, RowsOK, PositionRows
  <1>9. CashSpent(o) \in Int /\ \A b \in Assets : LotMoved(o, b) \in Int
    BY <1>1, CashSpentInt, LotMovedInt
  <1> HIDE DEF o, p, a
  <1>10. o = orders[i]
    BY DEF o
  <1> QED
    BY <1>1, <1>3, <1>5, <1>7, <1>8, <1>9, <1>10, AuditOne

LEMMA CancelSellAudit ==
  ASSUME Inv, Inv', Audited, NEW i \in OrderIds, CancelSell(i)
  PROVE  Audited'
  <1> DEFINE o == orders[i]
             p == [orders[i] EXCEPT !.status = "cancelled"]
             a == o.asset
  <1>1. o \in OrderRows /\ a \in Assets /\ orders \in [OrderIds -> OrderRows] /\ o.quantity \in Nat
    BY DEF Inv, RowsOK, OrderRows
  <1>2. orders' = [orders EXCEPT ![i] = p] /\ o.status = "pending" /\ o.side = "sell"
    BY DEF CancelSell, Cancellable
  <1>3. orders'[i] = p /\ \A k \in OrderIds \ {i} : orders'[k] = orders[k]
    BY <1>1, <1>2
  <1>4. /\ p.status = "cancelled" /\ p.side = o.side /\ p.asset = o.asset
        /\ p.filled = o.filled /\ p.notional = o.notional
    BY <1>1 DEF OrderRows
  <1>5. /\ CashPromise(o) = 0 /\ CashPromise(p) = 0 /\ CashSpent(p) = CashSpent(o)
        /\ LotPromise(o, a) = o.quantity /\ LotPromise(p, a) = 0
        /\ \A b \in Assets \ {a} : LotPromise(o, b) = 0 /\ LotPromise(p, b) = 0
        /\ \A b \in Assets : LotMoved(p, b) = LotMoved(o, b)
    BY <1>2, <1>4 DEF CashPromise, CashSpent, LotPromise, LotMoved
  <1>6. o.quantity <= positions[a].locked
    BY <1>1, <1>5, PromiseBound DEF Audited, LocksMatchPending, LocksBalance
  <1>7. cash' = cash /\ cash.available \in Int /\ cash.locked \in Int
    BY DEF CancelSell, Inv, RowsOK, GoodCash, CashRows
  <1>8. /\ positions[a].quantity \in Int /\ positions[a].locked \in Int
        /\ positions'[a].quantity = positions[a].quantity
        /\ positions'[a].locked = positions[a].locked - o.quantity
        /\ \A b \in Assets \ {a} : positions'[b] = positions[b]
    BY <1>1, <1>6 DEF CancelSell, ReleaseLot, AtLeastZero, Inv, RowsOK, PositionRows
  <1>9. CashSpent(o) \in Int /\ \A b \in Assets : LotMoved(o, b) \in Int
    BY <1>1, CashSpentInt, LotMovedInt
  <1> HIDE DEF o, p, a
  <1>10. o = orders[i]
    BY DEF o
  <1> QED
    BY <1>1, <1>3, <1>5, <1>7, <1>8, <1>9, <1>10, AuditOne

LEMMA FillBuyAudit ==
  ASSUME Inv, Inv', Unfilled, Audited, NEW i \in OrderIds, FillBuy(i)
  PROVE  Audited'
  <1> DEFINE o == orders[i]
             p == Completed(orders[i])
             a == o.asset
             n == o.limit * o.quantity
  <1>1. o \in OrderRows /\ a \in Assets /\ orders \in [OrderIds -> OrderRows]
        /\ o.quantity \in Nat /\ n \in Nat /\ Gross(n) \in Nat
    BY CompletedType, GrossNat DEF Inv, RowsOK, OrderRows
  <1>2. /\ orders' = [orders EXCEPT ![i] = p] /\ o.status = "pending" /\ o.side = "buy"
        /\ o.filled = 0 /\ o.notional = 0
    BY DEF FillBuy, Unfilled
  <1>3. orders'[i] = p /\ \A k \in OrderIds \ {i} : orders'[k] = orders[k]
    BY <1>1, <1>2
  <1>4. /\ p.status = "filled" /\ p.side = o.side /\ p.asset = o.asset
        /\ p.filled = o.quantity /\ p.notional = n
    BY <1>1 DEF OrderRows, Completed
  <1>5. Gross(0) = 0 /\ Reserve(o) = Gross(n)
    BY MoneyAssumption DEF Gross, Reserve
  <1>6. /\ CashPromise(o) = Gross(n) /\ CashPromise(p) = 0
        /\ CashSpent(o) = 0 /\ CashSpent(p) = Gross(n)
        /\ LotMoved(o, a) = 0 /\ LotMoved(p, a) = o.quantity
        /\ \A b \in Assets : LotPromise(o, b) = 0 /\ LotPromise(p, b) = 0
        /\ \A b \in Assets \ {a} : LotMoved(p, b) = 0 /\ LotMoved(o, b) = 0
    BY <1>2, <1>4, <1>5 DEF CashPromise, CashSpent, LotPromise, LotMoved
  <1>7. /\ cash'.available = cash.available /\ cash'.locked = cash.locked - Gross(n)
        /\ cash.available \in Int /\ cash.locked \in Int
    BY <1>5 DEF FillBuy, PayFromLocked, Inv, RowsOK, GoodCash, CashRows
  <1>8. /\ positions[a].quantity \in Int /\ positions[a].locked \in Int
        /\ positions' = [positions EXCEPT ![a] = AddLot(positions[a], o.quantity, n)]
        /\ positions \in [Assets -> PositionRows]
    BY <1>1 DEF FillBuy, Inv, RowsOK, PositionRows
  <1>9. /\ positions'[a].quantity = positions[a].quantity + o.quantity
        /\ positions'[a].locked = positions[a].locked
        /\ \A b \in Assets \ {a} : positions'[b] = positions[b]
    BY <1>1, <1>8 DEF AddLot, PositionRows
  <1> HIDE DEF o, p, a, n
  <1>10. o = orders[i]
    BY DEF o
  <1> QED
    BY <1>1, <1>3, <1>6, <1>7, <1>8, <1>9, <1>10, AuditOne

LEMMA FillSellAudit ==
  ASSUME Inv, Inv', Unfilled, Audited, NEW i \in OrderIds, FillSell(i)
  PROVE  Audited'
  <1> DEFINE o == orders[i]
             p == Completed(orders[i])
             a == o.asset
             n == o.limit * o.quantity
  <1>1. o \in OrderRows /\ a \in Assets /\ orders \in [OrderIds -> OrderRows]
        /\ o.quantity \in Nat /\ n \in Nat /\ Net(n) \in Nat
    BY CompletedType, NetNat DEF Inv, RowsOK, OrderRows
  <1>2. /\ orders' = [orders EXCEPT ![i] = p] /\ o.status = "pending" /\ o.side = "sell"
        /\ o.filled = 0 /\ o.notional = 0
    BY DEF FillSell, Unfilled
  <1>3. orders'[i] = p /\ \A k \in OrderIds \ {i} : orders'[k] = orders[k]
    BY <1>1, <1>2
  <1>4. /\ p.status = "filled" /\ p.side = o.side /\ p.asset = o.asset
        /\ p.filled = o.quantity /\ p.notional = n
    BY <1>1 DEF OrderRows, Completed
  <1>5. Net(0) = 0
    BY MoneyAssumption DEF Net
  <1>6. /\ CashPromise(o) = 0 /\ CashPromise(p) = 0
        /\ CashSpent(o) = 0 /\ CashSpent(p) = 0 - Net(n)
        /\ LotMoved(o, a) = 0 /\ LotMoved(p, a) = 0 - o.quantity
        /\ LotPromise(o, a) = o.quantity /\ LotPromise(p, a) = 0
        /\ \A b \in Assets \ {a} : /\ LotPromise(o, b) = 0 /\ LotPromise(p, b) = 0
                                   /\ LotMoved(p, b) = 0 /\ LotMoved(o, b) = 0
    BY <1>2, <1>4, <1>5 DEF CashPromise, CashSpent, LotPromise, LotMoved
  <1>7. /\ cash'.available = cash.available + Net(n) /\ cash'.locked = cash.locked
        /\ cash.available \in Int /\ cash.locked \in Int
    BY DEF FillSell, Credit, Inv, RowsOK, GoodCash, CashRows
  <1>8. /\ positions[a].quantity \in Int /\ positions[a].locked \in Int
        /\ positions' = [positions EXCEPT ![a] = RemoveLot(positions[a], o.quantity, o.quantity)]
        /\ positions \in [Assets -> PositionRows]
    BY <1>1 DEF FillSell, Inv, RowsOK, PositionRows
  <1>9. /\ positions'[a].quantity = positions[a].quantity - o.quantity
        /\ positions'[a].locked = positions[a].locked - o.quantity
        /\ \A b \in Assets \ {a} : positions'[b] = positions[b]
    BY <1>1, <1>8 DEF RemoveLot
  <1> HIDE DEF o, p, a, n
  <1>10. o = orders[i]
    BY DEF o
  <1> QED
    BY <1>1, <1>3, <1>6, <1>7, <1>8, <1>9, <1>10, AuditOne

LEMMA SkipExitAudit ==
  ASSUME Inv, Inv', Audited, NEW i \in OrderIds, NEW kind \in ExitKinds, SkipExit(i, kind)
  PROVE  Audited'
  <1> DEFINE o == orders[i]
             p == [orders[i] EXCEPT !.exit = "skipped"]
             a == o.asset
  <1>1. o \in OrderRows /\ a \in Assets /\ orders \in [OrderIds -> OrderRows]
    BY DEF Inv, RowsOK, OrderRows
  <1>2. orders'[i] = p /\ \A k \in OrderIds \ {i} : orders'[k] = orders[k]
    BY <1>1 DEF SkipExit
  <1>3. /\ p.status = o.status /\ p.side = o.side /\ p.asset = o.asset
        /\ p.limit = o.limit /\ p.quantity = o.quantity
        /\ p.filled = o.filled /\ p.notional = o.notional
    BY <1>1 DEF OrderRows
  <1>4. /\ CashPromise(p) = CashPromise(o) /\ CashSpent(p) = CashSpent(o)
        /\ \A b \in Assets : LotPromise(p, b) = LotPromise(o, b) /\ LotMoved(p, b) = LotMoved(o, b)
    BY <1>3 DEF CashPromise, CashSpent, LotPromise, LotMoved, Reserve
  <1>5. /\ cash' = cash /\ cash.available \in Int /\ cash.locked \in Int
        /\ positions' = positions
        /\ positions[a].quantity \in Int /\ positions[a].locked \in Int
    BY <1>1 DEF SkipExit, Inv, RowsOK, GoodCash, CashRows, PositionRows
  <1>6. /\ CashPromise(o) \in Int /\ CashSpent(o) \in Int
        /\ \A b \in Assets : LotPromise(o, b) \in Int /\ LotMoved(o, b) \in Int
    BY <1>1, CashPromiseNat, CashSpentInt, LotPromiseNat, LotMovedInt
  <1> HIDE DEF o, p, a
  <1>7. o = orders[i]
    BY DEF o
  <1> QED
    BY <1>1, <1>2, <1>4, <1>5, <1>6, <1>7, AuditOne

\* An exit marks its entry, which moves nothing, and adds a sale.
LEMMA FillExitAudit ==
  ASSUME Inv, Inv', Unfilled, Audited, NEW i \in OrderIds, NEW kind \in ExitKinds,
         NEW j \in OrderIds, FillExit(i, kind, j)
  PROVE  Audited'
  <1> DEFINE e == orders[i]
             f == [orders[i] EXCEPT !.exit = kind, !.exitOrder = j]
             a == e.asset
             k == ExitQuantity(e, positions[a])
             n == ExitPrice(e, kind) * k
             x == ExitOrderOf(i, e, kind, k, n)
             mid == [orders EXCEPT ![i] = f]
  <1>1. e \in OrderRows /\ a \in Assets /\ orders \in [OrderIds -> OrderRows]
        /\ positions[a] \in PositionRows /\ e.filled \in Nat
    BY DEF Inv, RowsOK, OrderRows
  <1>2. Free(positions[a]) > 0 /\ k \in Nat
    BY <1>1 DEF FillExit, ExitQuantity, Free, PositionRows
  <1>3. ExitPrice(e, kind) \in Nat
    BY <1>1 DEF ExitPrice, OrderRows
  <1>4. n \in Nat
    BY <1>2, <1>3, ProductNat
  <1>5. Net(n) \in Nat
    BY <1>4, NetNat
  <1>6. i # j /\ orders[j].status = "none" /\ e.status = "filled"
    BY DEF FillExit, OpenExit, NextId
  <1>7. f \in OrderRows /\ mid \in [OrderIds -> OrderRows]
    BY <1>1 DEF OrderRows
  <1>8. orders' = [mid EXCEPT ![j] = x]
    <2>1. orders' = [orders EXCEPT ![i].exit = kind, ![i].exitOrder = j, ![j] = x]
      BY DEF FillExit
    <2> QED
      BY <1>1, <1>6, <2>1
  <1>9. orders'[j] = x /\ \A l \in OrderIds \ {j} : orders'[l] = mid[l]
    BY <1>1, <1>8
  <1>10. mid[j] = orders[j] /\ mid[i] = f /\ \A l \in OrderIds \ {i} : mid[l] = orders[l]
    BY <1>1, <1>6
  <1>11. /\ f.status = e.status /\ f.side = e.side /\ f.asset = e.asset
         /\ f.filled = e.filled /\ f.notional = e.notional
    BY <1>1 DEF OrderRows
  <1>12. /\ CashPromise(f) = CashPromise(e) /\ CashSpent(f) = CashSpent(e)
         /\ \A b \in Assets : LotPromise(f, b) = LotPromise(e, b) /\ LotMoved(f, b) = LotMoved(e, b)
    BY <1>6, <1>11 DEF CashPromise, CashSpent, LotPromise, LotMoved
  <1>13. /\ CashPromise(e) \in Int /\ CashSpent(e) \in Int
         /\ \A b \in Assets : LotPromise(e, b) \in Int /\ LotMoved(e, b) \in Int
    BY <1>1, CashPromiseNat, CashSpentInt, LotPromiseNat, LotMovedInt
  <1>14. /\ cash \in CashRows /\ positions \in [Assets -> PositionRows]
         /\ cash' \in CashRows /\ positions' \in [Assets -> PositionRows]
         /\ orders' \in [OrderIds -> OrderRows]
         /\ cash.available \in Int /\ cash.locked \in Int
         /\ \A b \in Assets : positions[b].quantity \in Int /\ positions[b].locked \in Int
    BY DEF Inv, RowsOK, GoodCash, CashRows, PositionRows
  <1>15. /\ positions' = [positions EXCEPT ![a] = RemoveLot(positions[a], k, 0)]
         /\ cash' = Credit(cash, n)
    BY DEF FillExit
  <1>16. /\ cash'.available = cash.available + Net(n) /\ cash'.locked = cash.locked
         /\ positions'[a].quantity = positions[a].quantity - k
         /\ positions'[a].locked = positions[a].locked
         /\ \A b \in Assets \ {a} : positions'[b] = positions[b]
    BY <1>1, <1>14, <1>15 DEF Credit, CashRows, RemoveLot
  <1>17. /\ CashPromise(x) = 0 /\ CashSpent(x) = 0 - Net(n)
         /\ \A b \in Assets : LotPromise(x, b) = 0
         /\ LotMoved(x, a) = 0 - k
         /\ \A b \in Assets \ {a} : LotMoved(x, b) = 0
    BY DEF ExitOrderOf, CashPromise, CashSpent, LotPromise, LotMoved
  <1>18. /\ CashPromise(orders[j]) = 0 /\ CashSpent(orders[j]) = 0
         /\ \A b \in Assets : LotPromise(orders[j], b) = 0 /\ LotMoved(orders[j], b) = 0
    BY <1>6, FreshMoves
  <1> HIDE DEF f, a, k, n, x, mid
  <1>19. LocksBalance(cash, positions, mid)
    BY <1>1, <1>7, <1>10, <1>12, <1>13, <1>14, LocksUpdate DEF Audited, LocksMatchPending
  <1>20. CashBalances(cash, mid)
    BY <1>1, <1>7, <1>10, <1>12, <1>13, <1>14, CashUpdate DEF Audited, CashMatchesFills
  <1>21. HoldingsBalance(positions, mid)
    BY <1>1, <1>7, <1>10, <1>12, <1>13, <1>14, HoldingsUpdate DEF Audited, HoldingsMatchFills
  <1>22. \A b \in Assets : positions'[b].locked - positions[b].locked
                              = LotPromise(orders'[j], b) - LotPromise(mid[j], b)
    BY <1>9, <1>10, <1>14, <1>16, <1>17, <1>18
  <1>23. \A b \in Assets : positions'[b].quantity - positions[b].quantity
                              = LotMoved(orders'[j], b) - LotMoved(mid[j], b)
    BY <1>2, <1>9, <1>10, <1>14, <1>16, <1>17, <1>18
  <1>24. LocksBalance(cash', positions', orders')
    <2>1. cash'.locked - cash.locked = CashPromise(orders'[j]) - CashPromise(mid[j])
      BY <1>9, <1>10, <1>14, <1>16, <1>17, <1>18
    <2> QED
      BY <1>7, <1>9, <1>14, <1>19, <1>22, <2>1, LocksUpdate
  <1>25. CashBalances(cash', orders')
    <2>1. (cash'.available + cash'.locked) - (cash.available + cash.locked)
              = CashSpent(mid[j]) - CashSpent(orders'[j])
      BY <1>5, <1>9, <1>10, <1>14, <1>16, <1>17, <1>18
    <2> QED
      BY <1>7, <1>9, <1>14, <1>20, <2>1, CashUpdate
  <1>26. HoldingsBalance(positions', orders')
    BY <1>7, <1>9, <1>14, <1>21, <1>23, HoldingsUpdate
  <1> QED
    BY <1>24, <1>25, <1>26 DEF Audited, LocksMatchPending, CashMatchesFills, HoldingsMatchFills

\* Settlement cancels every promise and unlocks everything.
LEMMA SettleAudit ==
  ASSUME Inv, Inv', Audited, NEW force \in BOOLEAN, NEW m \in Marks, Settle(force, m)
  PROVE  Audited'
  <1>1. \A i \in OrderIds : orders'[i].status # "pending"
    BY DEF Settle, Inv, RowsOK, OrderRows
  <1>2. \A i \in OrderIds : SameMoves(orders[i], orders'[i])
    BY DEF Settle, SameMoves, Inv, RowsOK, OrderRows
  <1>3. /\ cash'.locked = 0 /\ cash'.available = cash.available + cash.locked
        /\ cash.available \in Int /\ cash.locked \in Int
        /\ \A a \in Assets : positions'[a].locked = 0 /\ positions'[a].quantity = positions[a].quantity
    BY DEF Settle, Inv, RowsOK, GoodCash, CashRows, PositionRows
  <1>4. PromisedCash(orders') = 0 /\ \A a \in Assets : PromisedLot(orders', a) = 0
    BY <1>1, NothingPromised
  <1>5. NetSpent(orders') = NetSpent(orders) /\ \A a \in Assets : NetLot(orders', a) = NetLot(orders, a)
    BY <1>2, SameMovesSameTotals
  <1>6. LocksMatchPending'
    BY <1>3, <1>4 DEF LocksMatchPending, LocksBalance
  <1>7. CashMatchesFills'
    BY <1>3, <1>5 DEF Audited, CashMatchesFills, CashBalances
  <1>8. HoldingsMatchFills'
    BY <1>3, <1>5 DEF Audited, HoldingsMatchFills, HoldingsBalance
  <1> QED
    BY <1>6, <1>7, <1>8 DEF Audited

LEMMA AuditStep ==
  ASSUME Inv, Asking, Unfilled, Audited, [Next]_vars PROVE Audited'
  <1>1. Inv'
    BY InvStep
  <1>2. CASE Place
    BY <1>1, <1>2, ExecuteBuyAudit, ExecuteSellAudit, RestBuyAudit, RestSellAudit DEF Place
  <1>3. CASE \E i \in OrderIds : CancelBuy(i) \/ CancelSell(i)
    BY <1>1, <1>3, CancelBuyAudit, CancelSellAudit
  <1>4. CASE Reconcile
    BY <1>1, <1>4, FillBuyAudit, FillSellAudit, SkipExitAudit, FillExitAudit DEF Reconcile
  <1>5. CASE \E force \in BOOLEAN, m \in Marks : Settle(force, m)
    BY <1>1, <1>5, SettleAudit
  <1>6. CASE \/ \E s \in ContestStatuses : SetContestStatus(s)
             \/ \E s \in {"active", "locked", "disqualified"} : SetParticipantStatus(s)
             \/ Tick
             \/ UNCHANGED vars
    <2>1. UNCHANGED <<cash, positions, orders>>
      BY <1>6 DEF SetContestStatus, SetParticipantStatus, Tick, vars
    <2> QED
      BY <2>1 DEF Audited, LocksMatchPending, CashMatchesFills, HoldingsMatchFills
  <1> QED
    BY <1>2, <1>3, <1>4, <1>5, <1>6 DEF Next, Cancel, Administer, SettleContest, Resettle, Moderate

LEMMA UnfilledStep ==
  ASSUME Inv, Unfilled, [Next]_vars PROVE Unfilled'
  <1> SUFFICES ASSUME NEW i \in OrderIds, orders'[i].status # "filled"
               PROVE  orders'[i].filled = 0 /\ orders'[i].notional = 0
    BY DEF Unfilled
  <1>1. OrderStep(i) /\ orders[i] \in OrderRows
    BY StepOrders DEF Inv, RowsOK
  <1>2. CASE orders'[i] = orders[i]
    BY <1>2 DEF Unfilled
  <1>3. CASE \E r \in Requests, n \in Nat : \/ orders'[i] = OrderOf(r, "filled", r.quantity, n)
                                           \/ orders'[i] = OrderOf(r, "pending", 0, 0)
    BY <1>3 DEF OrderOf
  <1>4. CASE /\ orders[i].status = "pending"
             /\ \/ orders'[i] = [orders[i] EXCEPT !.status = "cancelled"]
                \/ orders'[i] = Completed(orders[i])
    BY <1>1, <1>4 DEF Completed, OrderRows, Unfilled
  <1>5. CASE orders[i].status = "filled" /\ orders'[i] = [orders[i] EXCEPT !.exit = "skipped"]
    BY <1>1, <1>5 DEF OrderRows
  <1>6. CASE \E kind \in ExitKinds, j \in OrderIds, k \in Nat, n \in Nat : Fires(i, kind, j, k, n)
    BY <1>1, <1>6 DEF Fires, OrderRows
  <1>7. CASE \E kind \in ExitKinds, j \in OrderIds, k \in Nat, n \in Nat : Fires(j, kind, i, k, n)
    BY <1>7 DEF Fires, ExitOrderOf
  <1> QED
    BY <1>1, <1>2, <1>3, <1>4, <1>5, <1>6, <1>7 DEF OrderStep

LEMMA AuditInit == Init => Unfilled /\ Audited
  <1> SUFFICES ASSUME Init PROVE Unfilled /\ Audited
    OBVIOUS
  <1>1. \A i \in OrderIds : orders[i].status = "none" /\ orders[i].filled = 0 /\ orders[i].notional = 0
    BY DEF Init, NoOrder
  <1>2. Unfilled
    BY <1>1 DEF Unfilled
  <1>3. Gross(0) = 0 /\ Net(0) = 0
    BY MoneyAssumption DEF Gross, Net
  <1>4. \A i \in OrderIds : CashSpent(orders[i]) = 0 /\ \A a \in Assets : LotMoved(orders[i], a) = 0
    BY <1>1, <1>3 DEF CashSpent, LotMoved
  <1>5. NetSpent(orders) = 0
    BY <1>4, OrdersFinite, SumZero DEF NetSpent
  <1>6. \A a \in Assets : NetLot(orders, a) = 0
    BY <1>4, OrdersFinite, SumZero DEF NetLot
  <1>7. PromisedCash(orders) = 0 /\ \A a \in Assets : PromisedLot(orders, a) = 0
    BY <1>1, NothingPromised
  <1>8. /\ cash.available = InitialCash /\ cash.locked = 0 /\ InitialCash \in Int
        /\ \A a \in Assets : positions[a].locked = 0 /\ positions[a].quantity = 0
    BY MoneyAssumption DEF Init, InitialBalance, EmptyPosition
  <1> QED
    BY <1>2, <1>5, <1>6, <1>7, <1>8
    DEF Audited, LocksMatchPending, LocksBalance, CashMatchesFills, CashBalances,
        HoldingsMatchFills, HoldingsBalance

LEMMA AlwaysAudited == Spec => [](Inv /\ Asking /\ Unfilled /\ Audited)
  <1>1. Init => Unfilled /\ Audited
    BY AuditInit
  <1>2. Inv /\ Asking /\ Unfilled /\ Audited /\ [Next]_vars => (Unfilled /\ Audited)'
    BY AuditStep, UnfilledStep
  <1> QED
    BY <1>1, <1>2, AlwaysInv, PTL DEF Spec

\* What is locked is what the pending orders locked: cancelling or filling an
\* order releases its own lock, whole, and no one else's.
THEOREM LocksAreAccountedFor == Spec => []LocksMatchPending
  <1>1. Audited => LocksMatchPending
    BY DEF Audited
  <1> QED
    BY <1>1, AlwaysAudited, PTL

\* Cash is the initial balance less what the executions took, fees included,
\* and holdings are what they bought less what they sold.
THEOREM BooksAreAccountedFor == Spec => []BooksMatchFills
  <1>1. Audited => BooksMatchFills
    BY DEF Audited, BooksMatchFills
  <1> QED
    BY <1>1, AlwaysAudited, PTL

-----------------------------------------------------------------------------
(* Profit.  A sale divides the cost basis, and what the division rounds    *)
(* away is in no book: Drift counts it.                                    *)

Sale(o) == IF o.side = "sell" /\ o.status = "filled" THEN 1 ELSE 0
Sales(os) == SumFunctionOnSet([i \in OrderIds |-> Sale(os[i])], OrderIds)

Drift == (account.realized + NetSpent(orders)) - TotalCost(positions)

\* No average entry price has to be rounded.
WholeAverages == \A a \in Assets : WholeAverage(positions[a])

\* What a step does to the drift.
DriftStep ==
    /\ Drift <= Drift'
    /\ Drift' - Drift <= Sales(orders') - Sales(orders)
    /\ WholeAverages => Drift' = Drift

LEMMA DriftTypes ==
  ASSUME Inv
  PROVE  /\ account.realized \in Int /\ NetSpent(orders) \in Int
         /\ TotalCost(positions) \in Int /\ Sales(orders) \in Int
         /\ \A a \in Assets : positions[a].cost \in Int
  <1>1. account.realized \in Int /\ orders \in [OrderIds -> OrderRows]
        /\ \A a \in Assets : positions[a].cost \in Int
    BY DEF Inv, RowsOK, PositionRows
  <1>2. NetSpent(orders) \in Int
    BY <1>1, TotalsNat
  <1>3. TotalCost(positions) \in Int
    BY <1>1, SizesAssumption, SumInt DEF TotalCost
  <1>4. \A i \in OrderIds : Sale(orders[i]) \in Int
    BY DEF Sale
  <1>5. Sales(orders) \in Int
    BY <1>4, OrdersFinite, SumInt DEF Sales
  <1> QED
    BY <1>1, <1>2, <1>3, <1>5

\* os is orders, or differs from it in what the sums leave out.
LEMMA DriftOne ==
  ASSUME Inv, Inv', NEW os \in [OrderIds -> OrderRows],
         NetSpent(os) = NetSpent(orders), Sales(os) = Sales(orders),
         NEW i \in OrderIds, NEW a \in Assets, NEW d \in Int,
         \A k \in OrderIds \ {i} : orders'[k] = os[k],
         \A b \in Assets \ {a} : positions'[b].cost = positions[b].cost,
         (account'.realized - account.realized) + (CashSpent(orders'[i]) - CashSpent(os[i]))
             - (positions'[a].cost - positions[a].cost) = d,
         0 <= d, d <= Sale(orders'[i]) - Sale(os[i]),
         WholeAverages => d = 0
  PROVE  DriftStep
  <1>1. orders' \in [OrderIds -> OrderRows]
    BY DEF Inv, RowsOK
  <1>2. /\ account.realized \in Int /\ NetSpent(orders) \in Int
        /\ TotalCost(positions) \in Int /\ Sales(orders) \in Int
        /\ \A b \in Assets : positions[b].cost \in Int
    BY DriftTypes
  <1>3. account'.realized \in Int /\ \A b \in Assets : positions'[b].cost \in Int
    BY DEF Inv, RowsOK, PositionRows
  <1>4. NetSpent(orders') = NetSpent(orders) + (CashSpent(orders'[i]) - CashSpent(os[i]))
    BY <1>1, TotalsUpdate
  <1>5. CashSpent(orders'[i]) \in Int /\ CashSpent(os[i]) \in Int
    BY <1>1, CashSpentInt
  <1>6. TotalCost(positions') = TotalCost(positions) + (positions'[a].cost - positions[a].cost)
    <2> DEFINE f == [b \in Assets |-> positions[b].cost]
               g == [b \in Assets |-> positions'[b].cost]
    <2>1. \A b \in Assets : f[b] \in Int /\ g[b] \in Int
      BY <1>2, <1>3
    <2>2. \A b \in Assets \ {a} : f[b] = g[b]
      OBVIOUS
    <2>3. SumFunctionOnSet(g, Assets) = SumFunctionOnSet(f, Assets) + (g[a] - f[a])
      BY <2>1, <2>2, SizesAssumption, SumUpdate
    <2> QED
      BY <2>3 DEF TotalCost
  <1>7. Sales(orders') = Sales(orders) + (Sale(orders'[i]) - Sale(os[i]))
    <2> DEFINE f == [k \in OrderIds |-> Sale(os[k])]
               g == [k \in OrderIds |-> Sale(orders'[k])]
    <2>1. \A k \in OrderIds : f[k] \in Int /\ g[k] \in Int
      BY DEF Sale
    <2>2. \A k \in OrderIds \ {i} : f[k] = g[k]
      OBVIOUS
    <2>3. SumFunctionOnSet(g, OrderIds) = SumFunctionOnSet(f, OrderIds) + (g[i] - f[i])
      BY <2>1, <2>2, OrdersFinite, SumUpdate
    <2> QED
      BY <2>3 DEF Sales
  <1>8. Drift' = Drift + d
    BY <1>2, <1>3, <1>4, <1>5, <1>6 DEF Drift
  <1>9. Drift \in Int /\ Sale(orders'[i]) \in Int /\ Sale(os[i]) \in Int
    BY <1>2 DEF Drift, Sale
  <1> QED
    BY <1>2, <1>7, <1>8, <1>9 DEF DriftStep

\* Nothing is sold or bought: the drift stays.
LEMMA DriftNone ==
  ASSUME Inv, account'.realized = account.realized,
         \A k \in OrderIds : SameMoves(orders[k], orders'[k]) /\ Sale(orders'[k]) = Sale(orders[k]),
         \A b \in Assets : positions'[b].cost = positions[b].cost
  PROVE  DriftStep
  <1>1. NetSpent(orders') = NetSpent(orders)
    BY SameMovesSameTotals
  <1>2. Sales(orders') = Sales(orders)
    BY OrdersFinite, SumSame DEF Sales
  <1>3. TotalCost(positions') = TotalCost(positions)
    BY SizesAssumption, SumSame DEF TotalCost
  <1>4. /\ account.realized \in Int /\ NetSpent(orders) \in Int
        /\ TotalCost(positions) \in Int /\ Sales(orders) \in Int
    BY DriftTypes
  <1> QED
    BY <1>1, <1>2, <1>3, <1>4 DEF DriftStep, Drift

\* What a sale of k units leaves of position a, and the profit booked.
LEMMA SaleDrift ==
  ASSUME Inv, NEW a \in Assets, positions[a].quantity > 0, NEW k \in Nat, NEW n \in Nat, NEW u
  PROVE  LET p == positions[a]
             d == (RealizedBy(p, k, n) - Net(n)) - (RemoveLot(p, k, u).cost - p.cost)
         IN  d \in Int /\ 0 <= d /\ d <= 1 /\ (WholeAverages => d = 0)
  <1> DEFINE p == positions[a]
             d == p.cost - (CostShare(p, k) + CostShare(p, p.quantity - k))
  <1>1. p \in PositionRows /\ Net(n) \in Nat /\ p.quantity - k \in Int /\ p.cost \in Int
    BY NetNat DEF Inv, RowsOK, PositionRows
  <1>2. CostShare(p, k) \in Int /\ CostShare(p, p.quantity - k) \in Int
    BY <1>1, CostShareInt
  <1>3. (d = 0 \/ d = 1) /\ (WholeAverage(p) => d = 0)
    BY <1>1, SharesSplit
  <1>4. RealizedBy(p, k, n) - Net(n) = 0 - CostShare(p, k)
    BY <1>1, <1>2 DEF RealizedBy
  <1>5. RemoveLot(p, k, u).cost = CostShare(p, p.quantity - k)
    BY DEF RemoveLot
  <1>6. (RealizedBy(p, k, n) - Net(n)) - (RemoveLot(p, k, u).cost - p.cost) = d
    BY <1>1, <1>2, <1>4, <1>5
  <1> QED
    BY <1>3, <1>6 DEF WholeAverages

LEMMA ExecuteBuyDrift ==
  ASSUME Inv, Inv', Unfilled,
         NEW r \in Requests, NEW q \in Quotes, NEW i \in OrderIds, ExecuteBuy(r, q, i)
  PROVE  DriftStep
  <1> DEFINE n == WalkedNotional(r, q)
             a == r.asset
             o == OrderOf(r, "filled", r.quantity, n)
  <1>1. a \in Assets /\ n \in Nat /\ Gross(n) \in Nat
    BY RequestFacts, WalkedNotionalNat, GrossNat
  <1>2. orders' = [orders EXCEPT ![i] = o] /\ orders[i].status = "none" /\ orders \in [OrderIds -> OrderRows]
    BY DEF ExecuteBuy, NextId, Inv, RowsOK
  <1>3. orders'[i] = o /\ \A k \in OrderIds \ {i} : orders'[k] = orders[k]
    BY <1>2
  <1>4. CashSpent(o) = Gross(n) /\ Sale(o) = 0
    BY DEF ExecuteBuy, OrderOf, CashSpent, Sale
  <1>5. CashSpent(orders[i]) = 0 /\ Sale(orders[i]) = 0
    BY <1>2, FreshMoves DEF Sale
  <1>6. /\ positions'[a].cost = positions[a].cost + Gross(n) /\ positions[a].cost \in Int
        /\ \A b \in Assets \ {a} : positions'[b] = positions[b]
    BY <1>1 DEF ExecuteBuy, AddLot, Inv, RowsOK, PositionRows
  <1>7. account' = account /\ account.realized \in Int
    BY DEF ExecuteBuy, Inv, RowsOK
  <1> HIDE DEF n, o, a
  <1>8. (account'.realized - account.realized) + (CashSpent(orders'[i]) - CashSpent(orders[i]))
            - (positions'[a].cost - positions[a].cost) = 0
    BY <1>1, <1>3, <1>4, <1>5, <1>6, <1>7
  <1>9. Sale(orders'[i]) - Sale(orders[i]) = 0
    BY <1>3, <1>4, <1>5
  <1> QED
    BY <1>1, <1>2, <1>3, <1>6, <1>8, <1>9, DriftOne

LEMMA ExecuteSellDrift ==
  ASSUME Inv, Inv', Unfilled,
         NEW r \in Requests, NEW q \in Quotes, NEW i \in OrderIds, ExecuteSell(r, q, i)
  PROVE  DriftStep
  <1> DEFINE n == WalkedNotional(r, q)
             a == r.asset
             o == OrderOf(r, "filled", r.quantity, n)
             d == (RealizedBy(positions[a], r.quantity, n) - Net(n))
                      - (RemoveLot(positions[a], r.quantity, 0).cost - positions[a].cost)
  <1>1. a \in Assets /\ r.quantity \in Nat \ {0} /\ n \in Nat /\ Net(n) \in Nat
    BY RequestFacts, WalkedNotionalNat, NetNat
  <1>2. orders' = [orders EXCEPT ![i] = o] /\ orders[i].status = "none" /\ orders \in [OrderIds -> OrderRows]
    BY DEF ExecuteSell, NextId, Inv, RowsOK
  <1>3. orders'[i] = o /\ \A k \in OrderIds \ {i} : orders'[k] = orders[k]
    BY <1>2
  <1>4. CashSpent(o) = 0 - Net(n) /\ Sale(o) = 1
    BY DEF ExecuteSell, OrderOf, CashSpent, Sale
  <1>5. CashSpent(orders[i]) = 0 /\ Sale(orders[i]) = 0
    BY <1>2, FreshMoves DEF Sale
  <1>6. GoodPosition(positions[a]) /\ positions[a].quantity > 0
    <2>1. GoodPosition(positions[a]) /\ r.quantity <= Free(positions[a])
      BY <1>1 DEF ExecuteSell, Inv, RowsOK
    <2> QED
      BY <1>1, <2>1 DEF Free, GoodPosition, PositionRows
  <1>7. d \in Int /\ 0 <= d /\ d <= 1 /\ (WholeAverages => d = 0)
    BY <1>1, <1>6, SaleDrift
  <1>8. /\ positions' = [positions EXCEPT ![a] = RemoveLot(positions[a], r.quantity, 0)]
        /\ positions \in [Assets -> PositionRows]
    BY DEF ExecuteSell, Inv, RowsOK
  <1>9. /\ positions'[a] = RemoveLot(positions[a], r.quantity, 0)
        /\ positions[a].cost \in Int /\ positions'[a].cost \in Int
        /\ \A b \in Assets \ {a} : positions'[b] = positions[b]
    <2>1. positions[a].cost \in Int /\ positions'[a].cost \in Int
      BY <1>1 DEF Inv, RowsOK, PositionRows
    <2> QED
      BY <1>1, <1>8, <2>1
  <1>10. /\ account'.realized = account.realized + RealizedBy(positions[a], r.quantity, n)
         /\ account.realized \in Int
    BY DEF ExecuteSell, Inv, RowsOK
  <1>11. RealizedBy(positions[a], r.quantity, n) \in Int
    BY <1>1, <1>6, RealizedByInt
  <1> HIDE DEF n, o, a
  <1>12. (account'.realized - account.realized) + (CashSpent(orders'[i]) - CashSpent(orders[i]))
             - (positions'[a].cost - positions[a].cost) = d
    BY <1>1, <1>3, <1>4, <1>5, <1>9, <1>10, <1>11
  <1>13. Sale(orders'[i]) - Sale(orders[i]) = 1
    BY <1>3, <1>4, <1>5
  <1> HIDE DEF d
  <1> QED
    BY <1>1, <1>2, <1>3, <1>7, <1>9, <1>12, <1>13, DriftOne

\* An order is accepted, cancelled or marked, and nothing is executed.
LEMMA RestDrift ==
  ASSUME Inv, Inv', Unfilled,
         NEW r \in Requests, NEW q \in Quotes, NEW i \in OrderIds,
         RestBuy(r, q, i) \/ RestSell(r, q, i)
  PROVE  DriftStep
  <1> DEFINE a == r.asset
             o == OrderOf(r, "pending", 0, 0)
  <1>1. a \in Assets
    BY RequestFacts
  <1>2. orders' = [orders EXCEPT ![i] = o] /\ orders[i].status = "none" /\ orders \in [OrderIds -> OrderRows]
    BY DEF RestBuy, RestSell, NextId, Inv, RowsOK
  <1>3. orders'[i] = o /\ \A k \in OrderIds \ {i} : orders'[k] = orders[k]
    BY <1>2
  <1>4. Gross(0) = 0 /\ Net(0) = 0
    BY MoneyAssumption DEF Gross, Net
  <1>5. CashSpent(o) = 0 /\ Sale(o) = 0
    BY <1>4 DEF OrderOf, CashSpent, Sale
  <1>6. CashSpent(orders[i]) = 0 /\ Sale(orders[i]) = 0
    BY <1>2, FreshMoves DEF Sale
  <1>7. \A b \in Assets : positions'[b].cost = positions[b].cost /\ positions[b].cost \in Int
    BY DEF RestBuy, RestSell, ReserveLot, Inv, RowsOK, PositionRows
  <1>8. account' = account /\ account.realized \in Int
    BY DEF RestBuy, RestSell, Inv, RowsOK
  <1> HIDE DEF o, a
  <1>9. (account'.realized - account.realized) + (CashSpent(orders'[i]) - CashSpent(orders[i]))
            - (positions'[a].cost - positions[a].cost) = 0
    BY <1>1, <1>3, <1>5, <1>6, <1>7, <1>8
  <1>10. Sale(orders'[i]) - Sale(orders[i]) = 0
    BY <1>3, <1>5, <1>6
  <1> QED
    BY <1>1, <1>2, <1>3, <1>7, <1>9, <1>10, DriftOne

LEMMA CancelDrift ==
  ASSUME Inv, NEW i \in OrderIds, CancelBuy(i) \/ CancelSell(i)
  PROVE  DriftStep
  <1>1. orders \in [OrderIds -> OrderRows] /\ account' = account
    BY DEF CancelBuy, CancelSell, Inv, RowsOK
  <1>2. orders' = [orders EXCEPT ![i].status = "cancelled"] /\ orders[i].status = "pending"
    BY DEF CancelBuy, CancelSell, Cancellable
  <1>3. \A k \in OrderIds : SameMoves(orders[k], orders'[k]) /\ Sale(orders'[k]) = Sale(orders[k])
    BY <1>1, <1>2 DEF SameMoves, Sale, OrderRows
  <1>4. \A b \in Assets : positions'[b].cost = positions[b].cost
    BY DEF CancelBuy, CancelSell, ReleaseLot, Inv, RowsOK, PositionRows
  <1> QED
    BY <1>1, <1>3, <1>4, DriftNone

LEMMA FillBuyDrift ==
  ASSUME Inv, Inv', Unfilled, NEW i \in OrderIds, FillBuy(i)
  PROVE  DriftStep
  <1> DEFINE o == orders[i]
             p == Completed(orders[i])
             a == o.asset
             n == o.limit * o.quantity
  <1>1. o \in OrderRows /\ a \in Assets /\ orders \in [OrderIds -> OrderRows]
        /\ o.quantity \in Nat /\ n \in Nat /\ Gross(n) \in Nat
    BY CompletedType, GrossNat DEF Inv, RowsOK, OrderRows
  <1>2. /\ orders' = [orders EXCEPT ![i] = p] /\ o.status = "pending" /\ o.side = "buy"
        /\ o.notional = 0
    BY DEF FillBuy, Unfilled
  <1>3. orders'[i] = p /\ \A k \in OrderIds \ {i} : orders'[k] = orders[k]
    BY <1>1, <1>2
  <1>4. p.side = o.side /\ p.notional = n
    BY <1>1 DEF OrderRows, Completed
  <1>5. Gross(0) = 0
    BY MoneyAssumption DEF Gross
  <1>6. CashSpent(o) = 0 /\ CashSpent(p) = Gross(n) /\ Sale(o) = 0 /\ Sale(p) = 0
    BY <1>2, <1>4, <1>5 DEF CashSpent, Sale
  <1>7. /\ positions'[a].cost = positions[a].cost + Gross(n) /\ positions[a].cost \in Int
        /\ \A b \in Assets \ {a} : positions'[b] = positions[b]
    BY <1>1 DEF FillBuy, AddLot, Inv, RowsOK, PositionRows
  <1>8. account' = account /\ account.realized \in Int
    BY DEF FillBuy, Inv, RowsOK
  <1> HIDE DEF o, p, a, n
  <1>9. o = orders[i]
    BY DEF o
  <1>10. (account'.realized - account.realized) + (CashSpent(orders'[i]) - CashSpent(orders[i]))
            - (positions'[a].cost - positions[a].cost) = 0
    BY <1>1, <1>3, <1>6, <1>7, <1>8, <1>9
  <1>11. Sale(orders'[i]) - Sale(orders[i]) = 0
    BY <1>3, <1>6, <1>9
  <1> QED
    BY <1>1, <1>3, <1>7, <1>10, <1>11, DriftOne

LEMMA FillSellDrift ==
  ASSUME Inv, Inv', Asking, Unfilled, NEW i \in OrderIds, FillSell(i)
  PROVE  DriftStep
  <1> DEFINE o == orders[i]
             p == Completed(orders[i])
             a == o.asset
             n == o.limit * o.quantity
             d == (RealizedBy(positions[a], o.quantity, n) - Net(n))
                      - (RemoveLot(positions[a], o.quantity, o.quantity).cost - positions[a].cost)
  <1>1. o \in OrderRows /\ a \in Assets /\ orders \in [OrderIds -> OrderRows]
        /\ o.quantity \in Nat /\ n \in Nat /\ Net(n) \in Nat
    BY CompletedType, NetNat DEF Inv, RowsOK, OrderRows
  <1>2. /\ orders' = [orders EXCEPT ![i] = p] /\ o.status = "pending" /\ o.side = "sell"
        /\ o.notional = 0 /\ o.quantity > 0
    BY DEF FillSell, Unfilled, Asking
  <1>3. orders'[i] = p /\ \A k \in OrderIds \ {i} : orders'[k] = orders[k]
    BY <1>1, <1>2
  <1>4. p.side = o.side /\ p.notional = n /\ p.status = "filled"
    BY <1>1 DEF OrderRows, Completed
  <1>5. Net(0) = 0
    BY MoneyAssumption DEF Net
  <1>6. CashSpent(o) = 0 /\ CashSpent(p) = 0 - Net(n) /\ Sale(o) = 0 /\ Sale(p) = 1
    BY <1>2, <1>4, <1>5 DEF CashSpent, Sale
  <1>7. GoodPosition(positions[a]) /\ positions[a].quantity > 0
    BY <1>1, <1>2 DEF FillSell, Inv, RowsOK, GoodPosition, PositionRows
  <1>8. d \in Int /\ 0 <= d /\ d <= 1 /\ (WholeAverages => d = 0)
    BY <1>1, <1>7, SaleDrift
  <1>9. /\ positions' = [positions EXCEPT ![a] = RemoveLot(positions[a], o.quantity, o.quantity)]
        /\ positions \in [Assets -> PositionRows]
    BY DEF FillSell, Inv, RowsOK
  <1>10. /\ positions'[a] = RemoveLot(positions[a], o.quantity, o.quantity)
         /\ positions[a].cost \in Int /\ positions'[a].cost \in Int
         /\ \A b \in Assets \ {a} : positions'[b] = positions[b]
    <2>1. positions[a].cost \in Int /\ positions'[a].cost \in Int
      BY <1>1 DEF Inv, RowsOK, PositionRows
    <2> QED
      BY <1>1, <1>9, <2>1
  <1>11. /\ account'.realized = account.realized + RealizedBy(positions[a], o.quantity, n)
         /\ account.realized \in Int
    BY DEF FillSell, Inv, RowsOK
  <1>12. RealizedBy(positions[a], o.quantity, n) \in Int
    BY <1>1, <1>7, RealizedByInt
  <1> HIDE DEF o, p, a, n
  <1>13. o = orders[i]
    BY DEF o
  <1>14. (account'.realized - account.realized) + (CashSpent(orders'[i]) - CashSpent(orders[i]))
             - (positions'[a].cost - positions[a].cost) = d
    BY <1>1, <1>3, <1>6, <1>10, <1>11, <1>12, <1>13
  <1>15. Sale(orders'[i]) - Sale(orders[i]) = 1
    BY <1>3, <1>6, <1>13
  <1> HIDE DEF d
  <1> QED
    BY <1>1, <1>3, <1>8, <1>10, <1>14, <1>15, DriftOne

LEMMA FillExitDrift ==
  ASSUME Inv, Inv', Unfilled, NEW i \in OrderIds, NEW kind \in ExitKinds,
         NEW j \in OrderIds, FillExit(i, kind, j)
  PROVE  DriftStep
  <1> DEFINE e == orders[i]
             f == [orders[i] EXCEPT !.exit = kind, !.exitOrder = j]
             a == e.asset
             k == ExitQuantity(e, positions[a])
             n == ExitPrice(e, kind) * k
             x == ExitOrderOf(i, e, kind, k, n)
             mid == [orders EXCEPT ![i] = f]
             d == (RealizedBy(positions[a], k, n) - Net(n))
                      - (RemoveLot(positions[a], k, 0).cost - positions[a].cost)
  <1>1. e \in OrderRows /\ a \in Assets /\ orders \in [OrderIds -> OrderRows]
        /\ GoodPosition(positions[a]) /\ e.filled \in Nat
    BY DEF Inv, RowsOK, OrderRows
  <1>2. Free(positions[a]) > 0 /\ k \in Nat /\ positions[a].quantity > 0
    BY <1>1 DEF FillExit, ExitQuantity, Free, GoodPosition, PositionRows
  <1>3. ExitPrice(e, kind) \in Nat
    BY <1>1 DEF ExitPrice, OrderRows
  <1>4. n \in Nat
    BY <1>2, <1>3, ProductNat
  <1>5. Net(n) \in Nat
    BY <1>4, NetNat
  <1>6. i # j /\ orders[j].status = "none" /\ e.status = "filled"
    BY DEF FillExit, OpenExit, NextId
  <1>7. f \in OrderRows /\ mid \in [OrderIds -> OrderRows]
    BY <1>1 DEF OrderRows
  <1>8. orders' = [mid EXCEPT ![j] = x]
    <2>1. orders' = [orders EXCEPT ![i].exit = kind, ![i].exitOrder = j, ![j] = x]
      BY DEF FillExit
    <2> QED
      BY <1>1, <1>6, <2>1
  <1>9. orders'[j] = x /\ \A l \in OrderIds \ {j} : orders'[l] = mid[l]
    BY <1>1, <1>8
  <1>10. mid[j] = orders[j] /\ mid[i] = f /\ \A l \in OrderIds \ {i} : mid[l] = orders[l]
    BY <1>1, <1>6
  <1>11. /\ f.status = e.status /\ f.side = e.side /\ f.asset = e.asset
         /\ f.filled = e.filled /\ f.notional = e.notional
    BY <1>1 DEF OrderRows
  <1>12. \A l \in OrderIds : SameMoves(orders[l], mid[l]) /\ Sale(mid[l]) = Sale(orders[l])
    BY <1>10, <1>11 DEF SameMoves, Sale
  <1>13. NetSpent(mid) = NetSpent(orders)
    BY <1>12, SameMovesSameTotals
  <1>14. Sales(mid) = Sales(orders)
    BY <1>12, OrdersFinite, SumSame DEF Sales
  <1>15. CashSpent(x) = 0 - Net(n) /\ Sale(x) = 1
    BY DEF ExitOrderOf, CashSpent, Sale
  <1>16. CashSpent(mid[j]) = 0 /\ Sale(mid[j]) = 0
    BY <1>6, <1>10, FreshMoves DEF Sale
  <1>17. d \in Int /\ 0 <= d /\ d <= 1 /\ (WholeAverages => d = 0)
    BY <1>1, <1>2, <1>4, SaleDrift
  <1>18. /\ positions' = [positions EXCEPT ![a] = RemoveLot(positions[a], k, 0)]
         /\ positions \in [Assets -> PositionRows]
    BY DEF FillExit, Inv, RowsOK
  <1>19. /\ positions'[a] = RemoveLot(positions[a], k, 0)
         /\ positions[a].cost \in Int /\ positions'[a].cost \in Int
         /\ \A b \in Assets \ {a} : positions'[b] = positions[b]
    <2>1. positions[a].cost \in Int /\ positions'[a].cost \in Int
      BY <1>1 DEF Inv, RowsOK, PositionRows
    <2> QED
      BY <1>1, <1>18, <2>1
  <1>20. /\ account'.realized = account.realized + RealizedBy(positions[a], k, n)
         /\ account.realized \in Int
    BY DEF FillExit, Inv, RowsOK
  <1>21. RealizedBy(positions[a], k, n) \in Int
    BY <1>1, <1>2, <1>4, RealizedByInt
  <1> HIDE DEF f, a, k, n, x, mid
  <1>22. (account'.realized - account.realized) + (CashSpent(orders'[j]) - CashSpent(mid[j]))
             - (positions'[a].cost - positions[a].cost) = d
    BY <1>5, <1>9, <1>15, <1>16, <1>19, <1>20, <1>21
  <1>23. Sale(orders'[j]) - Sale(mid[j]) = 1
    BY <1>9, <1>15, <1>16
  <1> HIDE DEF d
  <1> QED
    BY <1>1, <1>7, <1>9, <1>13, <1>14, <1>17, <1>19, <1>22, <1>23, DriftOne

LEMMA OtherDrift ==
  ASSUME Inv,
         \/ \E i \in OrderIds, kind \in ExitKinds : SkipExit(i, kind)
         \/ Administer
         \/ UNCHANGED vars
  PROVE  DriftStep
  <1>1. orders \in [OrderIds -> OrderRows] /\ account \in [status : {"active", "frozen"}, realized : Int]
        /\ positions \in [Assets -> PositionRows]
    BY DEF Inv, RowsOK
  <1>2. CASE \E i \in OrderIds, kind \in ExitKinds : SkipExit(i, kind)
    <2>1. PICK i \in OrderIds, kind \in ExitKinds : SkipExit(i, kind)
      BY <1>2
    <2>2. \A k \in OrderIds : SameMoves(orders[k], orders'[k]) /\ Sale(orders'[k]) = Sale(orders[k])
      BY <1>1, <2>1 DEF SkipExit, SameMoves, Sale, OrderRows
    <2>3. positions' = positions /\ account' = account
      BY <2>1 DEF SkipExit
    <2> QED
      BY <2>2, <2>3, DriftNone
  <1>3. CASE \E force \in BOOLEAN, m \in Marks : Settle(force, m)
    <2>1. \A k \in OrderIds : SameMoves(orders[k], orders'[k]) /\ Sale(orders'[k]) = Sale(orders[k])
      BY <1>1, <1>3 DEF Settle, SameMoves, Sale, OrderRows
    <2>2. account'.realized = account.realized
      BY <1>1, <1>3 DEF Settle
    <2>3. \A b \in Assets : positions'[b].cost = positions[b].cost
      BY <1>1, <1>3 DEF Settle, PositionRows
    <2> QED
      BY <2>1, <2>2, <2>3, DriftNone
  <1>4. CASE \/ \E s \in ContestStatuses : SetContestStatus(s)
             \/ \E s \in {"active", "locked", "disqualified"} : SetParticipantStatus(s)
             \/ Tick
             \/ UNCHANGED vars
    <2>1. UNCHANGED <<positions, orders>> /\ account'.realized = account.realized
      BY <1>1, <1>4 DEF SetContestStatus, SetParticipantStatus, Tick, vars
    <2>2. \A k \in OrderIds : SameMoves(orders[k], orders'[k]) /\ Sale(orders'[k]) = Sale(orders[k])
      BY <2>1 DEF SameMoves
    <2> QED
      BY <2>1, <2>2, DriftNone
  <1> QED
    BY <1>2, <1>3, <1>4 DEF Administer, SettleContest, Resettle, Moderate

LEMMA StepDrifts ==
  ASSUME Inv, Asking, Unfilled, [Next]_vars PROVE DriftStep
  <1>1. Inv'
    BY InvStep
  <1>2. CASE Place
    BY <1>1, <1>2, ExecuteBuyDrift, ExecuteSellDrift, RestDrift DEF Place
  <1>3. CASE \E i \in OrderIds : CancelBuy(i) \/ CancelSell(i)
    BY <1>3, CancelDrift
  <1>4. CASE Reconcile
    BY <1>1, <1>4, FillBuyDrift, FillSellDrift, FillExitDrift, OtherDrift DEF Reconcile
  <1> QED
    BY <1>2, <1>3, <1>4, OtherDrift DEF Next, Cancel

LEMMA DriftInit == Init => Drift = 0 /\ Sales(orders) = 0
  <1> SUFFICES ASSUME Init PROVE Drift = 0 /\ Sales(orders) = 0
    OBVIOUS
  <1>1. \A i \in OrderIds : orders[i].status = "none" /\ orders[i].notional = 0
    BY DEF Init, NoOrder
  <1>2. Gross(0) = 0 /\ Net(0) = 0
    BY MoneyAssumption DEF Gross, Net
  <1>3. \A i \in OrderIds : CashSpent(orders[i]) = 0 /\ Sale(orders[i]) = 0
    BY <1>1, <1>2 DEF CashSpent, Sale
  <1>4. NetSpent(orders) = 0
    BY <1>3, OrdersFinite, SumZero DEF NetSpent
  <1>5. Sales(orders) = 0
    BY <1>3, OrdersFinite, SumZero DEF Sales
  <1>6. \A a \in Assets : positions[a].cost = 0
    BY DEF Init, EmptyPosition
  <1>7. TotalCost(positions) = 0
    BY <1>6, SizesAssumption, SumZero DEF TotalCost
  <1>8. account.realized = 0
    BY DEF Init
  <1> QED
    BY <1>4, <1>5, <1>7, <1>8 DEF Drift

LEMMA DriftMeaning ==
  ASSUME Inv, Audited
  PROVE  /\ Drift = (InitialCash + account.realized)
                        - (cash.available + cash.locked + TotalCost(positions))
         /\ ProfitMatchesBooks <=> Drift = 0
  <1>1. /\ account.realized \in Int /\ NetSpent(orders) \in Int /\ TotalCost(positions) \in Int
        /\ InitialCash \in Int /\ cash.available \in Int /\ cash.locked \in Int
    BY DriftTypes, MoneyAssumption DEF Inv, RowsOK, GoodCash, CashRows
  <1>2. cash.available + cash.locked = InitialCash - NetSpent(orders)
    BY DEF Audited, CashMatchesFills, CashBalances
  <1> QED
    BY <1>1, <1>2 DEF Drift, ProfitMatchesBooks, ProfitBalances

\* As long as no average entry price has to be rounded, cash, the cost of what
\* is held and the profit booked add up exactly, whatever is sold in parts,
\* sold by exits or emptied.
THEOREM ProfitIsAccountedFor == Spec /\ []WholeAverages => []ProfitMatchesBooks
  <1>1. Init => Drift = 0
    BY DriftInit
  <1>2. Inv /\ Asking /\ Unfilled /\ WholeAverages /\ Drift = 0 /\ [Next]_vars => Drift' = 0
    BY StepDrifts DEF DriftStep
  <1>3. Inv /\ Audited /\ Drift = 0 => ProfitMatchesBooks
    BY DriftMeaning
  <1> DEFINE None == Drift = 0
  <1>4. Init => None
    BY <1>1
  <1>5. Inv /\ Asking /\ Unfilled /\ WholeAverages /\ None /\ [Next]_vars => None'
    BY <1>2
  <1>6. Inv /\ Audited /\ None => ProfitMatchesBooks
    BY <1>3
  <1> HIDE DEF None
  <1> QED
    BY <1>4, <1>5, <1>6, AlwaysAudited, PTL DEF Spec

\* The profit booked exceeds what the books show by at most the unit of cash
\* each sale may round away.
ProfitIsNearBooks ==
    LET lost == (InitialCash + account.realized)
                    - (cash.available + cash.locked + TotalCost(positions))
    IN  0 <= lost /\ lost <= Sales(orders)

\* At any prices and fees, averages that have to be rounded included, no sale
\* drives profit and books further apart than its own rounding does.
THEOREM ProfitDriftsByRounding == Spec => []ProfitIsNearBooks
  <1> DEFINE Near == 0 <= Drift /\ Drift <= Sales(orders)
  <1>1. Init => Near
    BY DriftInit
  <1>2. Inv /\ Asking /\ Unfilled /\ Near /\ [Next]_vars => Near'
    <2> SUFFICES ASSUME Inv, Asking, Unfilled, Near, [Next]_vars PROVE Near'
      OBVIOUS
    <2>1. Drift \in Int /\ Sales(orders) \in Int
      BY DriftTypes DEF Drift
    <2>2. Inv'
      BY InvStep
    <2>3. /\ account'.realized \in Int /\ orders' \in [OrderIds -> OrderRows]
          /\ \A a \in Assets : positions'[a].cost \in Int
      BY <2>2 DEF Inv, RowsOK, PositionRows
    <2>4. NetSpent(orders') \in Int
      BY <2>3, TotalsNat
    <2>5. TotalCost(positions') \in Int
      BY <2>3, SizesAssumption, SumInt DEF TotalCost
    <2>6. \A i \in OrderIds : Sale(orders'[i]) \in Int
      BY DEF Sale
    <2>7. Sales(orders') \in Int
      BY <2>6, OrdersFinite, SumInt DEF Sales
    <2>8. Drift' \in Int
      BY <2>3, <2>4, <2>5 DEF Drift
    <2>9. DriftStep
      BY StepDrifts
    <2> QED
      BY <2>1, <2>7, <2>8, <2>9 DEF DriftStep
  <1>3. Inv /\ Audited /\ Near => ProfitIsNearBooks
    BY DriftMeaning DEF ProfitIsNearBooks
  <1> HIDE DEF Near
  <1> QED
    BY <1>1, <1>2, <1>3, AlwaysAudited, PTL DEF Spec

-----------------------------------------------------------------------------
(* Settlement.                                                             *)

LEMMA SettleMeaning ==
  ASSUME Inv, NEW force \in BOOLEAN, NEW m \in Marks, Settle(force, m)
  PROVE  /\ Len(settlements') = Len(settlements) + 1
         /\ settlements'[Len(settlements')].cash = cash.available + cash.locked
         /\ settlements'[Len(settlements')].holdings = Held(positions)
  <1> DEFINE row == [cash |-> ReleasedCash(cash),
                     holdings |-> [a \in Assets |-> positions[a].quantity],
                     status |-> "completed"]
  <1>1. settlements' = Append(settlements, row) /\ settlements \in Seq(SettlementRows)
    BY DEF Settle, Inv, AdminOK
  <1>2. Len(settlements') = Len(settlements) + 1 /\ settlements'[Len(settlements')] = row
    BY <1>1
  <1> QED
    BY <1>2 DEF ReleasedCash, Held

\* Orders and the processor touch active accounts only, settle nothing, and
\* leave them active.
LEMMA OrdersNeedAnActiveAccount ==
  ASSUME Inv, Place \/ Reconcile \/ \E i \in OrderIds : CancelBuy(i) \/ CancelSell(i)
  PROVE  account.status = "active" /\ account'.status = "active" /\ settlements' = settlements
  <1>1. account \in [status : {"active", "frozen"}, realized : Int]
    BY DEF Inv, RowsOK
  <1>2. CASE Place
    <2>1. PICK r \in Requests, q \in Quotes, i \in OrderIds :
              ExecuteBuy(r, q, i) \/ ExecuteSell(r, q, i) \/ RestBuy(r, q, i) \/ RestSell(r, q, i)
      BY <1>2 DEF Place
    <2>2. account.status = "active"
      BY <2>1 DEF ExecuteBuy, ExecuteSell, RestBuy, RestSell, Accepted, TradingAllowed
    <2>3. account'.status = account.status /\ settlements' = settlements
      BY <1>1, <2>1 DEF ExecuteBuy, ExecuteSell, RestBuy, RestSell, adminVars
    <2> QED
      BY <2>2, <2>3
  <1>3. CASE \E i \in OrderIds : CancelBuy(i) \/ CancelSell(i)
    BY <1>3 DEF CancelBuy, CancelSell, adminVars
  <1>4. CASE Reconcile
    <2>1. account.status = "active"
      BY <1>4 DEF Reconcile, FillBuy, FillSell, SkipExit, FillExit, OpenExit, TradingAllowed
    <2>2. account'.status = account.status /\ settlements' = settlements
      BY <1>1, <1>4 DEF Reconcile, FillBuy, FillSell, SkipExit, FillExit, adminVars
    <2> QED
      BY <2>1, <2>2
  <1> QED
    BY <1>2, <1>3, <1>4

\* Only a settlement makes the settled account frozen while its participant is
\* active, and nothing moves the account as long as it is.
THEOREM SettlementStaysCurrent == Spec => []SettlementIsCurrent
  <1>1. Init => SettlementIsCurrent
    BY DEF Init, SettlementIsCurrent
  <1>2. ASSUME Inv, SettlementIsCurrent, [Next]_vars PROVE SettlementIsCurrent'
    <2>1. CASE \E force \in BOOLEAN, m \in Marks : Settle(force, m)
      <3>1. PICK force \in BOOLEAN, m \in Marks : Settle(force, m)
        BY <2>1
      <3>2. /\ settlements'[Len(settlements')].cash = cash.available + cash.locked
            /\ settlements'[Len(settlements')].holdings = [a \in Assets |-> positions[a].quantity]
        BY <1>2, <3>1, SettleMeaning DEF Held
      <3>3. cash'.available = cash.available + cash.locked /\ cash'.locked = 0
        BY <3>1 DEF Settle
      <3>4. \A a \in Assets : positions'[a].quantity = positions[a].quantity /\ positions'[a].locked = 0
        BY <1>2, <3>1 DEF Settle, Inv, RowsOK, PositionRows
      <3>5. \A i \in OrderIds : orders'[i].status # "pending"
        BY <1>2, <3>1 DEF Settle, Inv, RowsOK, OrderRows
      <3> QED
        BY <3>2, <3>3, <3>4, <3>5 DEF SettlementIsCurrent
    <2>2. CASE Place \/ Reconcile \/ \E i \in OrderIds : CancelBuy(i) \/ CancelSell(i)
      <3>1. account'.status = "active"
        BY <1>2, <2>2, OrdersNeedAnActiveAccount
      <3> QED
        BY <3>1 DEF SettlementIsCurrent
    <2>3. CASE \E s \in {"active", "locked", "disqualified"} : SetParticipantStatus(s)
      <3>1. participant' = "active" => account'.status = "active"
        BY <1>2, <2>3 DEF SetParticipantStatus, StandingOf, Inv, RowsOK
      <3> QED
        BY <3>1 DEF SettlementIsCurrent
    <2>4. CASE (\E s \in ContestStatuses : SetContestStatus(s)) \/ Tick \/ UNCHANGED vars
      <3>1. UNCHANGED <<participant, account, cash, positions, orders, settlements>>
        BY <2>4 DEF SetContestStatus, Tick, vars
      <3> QED
        BY <1>2, <3>1 DEF SettlementIsCurrent
    <2> QED
      BY <1>2, <2>1, <2>2, <2>3, <2>4 DEF Next, Cancel, Administer, SettleContest, Resettle, Moderate
  <1>3. Inv /\ SettlementIsCurrent /\ [Next]_vars => SettlementIsCurrent'
    BY <1>2
  <1> QED
    BY <1>1, <1>3, AlwaysInv, PTL DEF Spec

\* The equity an account is ranked by is the one the standings showed and the
\* cash its pending buys had reserved, at every price.
THEOREM StandingsAgree == Spec => StandingsOmitOnlyReservations
  <1> DEFINE Agree ==
               Len(settlements') > Len(settlements) =>
                  \A price \in [Assets -> Prices] :
                      FinalEquity(settlements'[Len(settlements')], price) =
                          BoardEquity(cash, positions, price) + PromisedCash(orders)
  <1>1. ASSUME Inv, Audited, [Next]_vars PROVE Agree
    <2> SUFFICES ASSUME Len(settlements') > Len(settlements), NEW price \in [Assets -> Prices]
                 PROVE  FinalEquity(settlements'[Len(settlements')], price) =
                            BoardEquity(cash, positions, price) + PromisedCash(orders)
      OBVIOUS
    <2>1. \E force \in BOOLEAN, m \in Marks : Settle(force, m)
      <3>1. Len(settlements) \in Nat
        BY <1>1 DEF Inv, AdminOK
      <3>2. settlements' # settlements
        BY <3>1
      <3>3. ~(Place \/ Reconcile \/ \E i \in OrderIds : CancelBuy(i) \/ CancelSell(i))
        BY <1>1, <3>2, OrdersNeedAnActiveAccount
      <3>4. ~UNCHANGED vars
        BY <3>2 DEF vars
      <3>5. ~(\/ \E s \in ContestStatuses : SetContestStatus(s)
              \/ \E s \in {"active", "locked", "disqualified"} : SetParticipantStatus(s)
              \/ Tick)
        BY <3>2 DEF SetContestStatus, SetParticipantStatus, Tick
      <3> QED
        BY <1>1, <3>3, <3>4, <3>5 DEF Next, Cancel, Administer, SettleContest, Resettle, Moderate
    <2>2. /\ settlements'[Len(settlements')].cash = cash.available + cash.locked
          /\ settlements'[Len(settlements')].holdings = Held(positions)
      BY <1>1, <2>1, SettleMeaning
    <2>3. cash.locked = PromisedCash(orders) /\ cash.available \in Int /\ cash.locked \in Int
      BY <1>1 DEF Audited, LocksMatchPending, LocksBalance, Inv, RowsOK, GoodCash, CashRows
    <2>4. Worth(Held(positions), price) \in Int
      <3>1. \A a \in Assets : positions[a].quantity \in Int /\ price[a] \in Int
        <4>1. \A a \in Assets : positions[a].quantity \in Int
          BY <1>1 DEF Inv, RowsOK, PositionRows
        <4>2. \A a \in Assets : price[a] \in Nat
          BY PricesAssumption
        <4> QED
          BY <4>1, <4>2
      <3> DEFINE f == [a \in Assets |-> Held(positions)[a] * price[a]]
      <3>2. \A a \in Assets : f[a] \in Int
        BY <3>1 DEF Held
      <3>3. SumFunctionOnSet(f, Assets) \in Int
        BY <3>2, SizesAssumption, SumInt
      <3> QED
        BY <3>3 DEF Worth
    <2> QED
      BY <2>2, <2>3, <2>4 DEF FinalEquity, BoardEquity
  <1>2. Inv /\ Audited /\ [Next]_vars => [Agree]_vars
    BY <1>1
  <1> QED
    BY <1>2, AlwaysAudited, PTL DEF Spec, StandingsOmitOnlyReservations

=============================================================================
