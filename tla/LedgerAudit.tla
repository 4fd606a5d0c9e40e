---------------------------- MODULE LedgerAudit -----------------------------
(***************************************************************************)
(* The books of an account, recomputed from its orders: what an auditor    *)
(* would add up.  The operators take the rows as parameters, so that the   *)
(* ledger of TradingLedger and the database of LedgerTxn are audited alike.*)
(***************************************************************************)
EXTENDS LedgerRules, Functions

\* Cash promised to a pending buy, and units of asset a to a pending sell.
CashPromise(o) == IF o.side = "buy" /\ o.status = "pending" THEN Reserve(o) ELSE 0
LotPromise(o, a) ==
    IF o.side = "sell" /\ o.status = "pending" /\ o.asset = a THEN o.quantity ELSE 0

\* What an execution moved, which nothing rewrites: units of asset a into the
\* account, and cash out of it.
LotMoved(o, a) ==
    IF o.asset # a THEN 0 ELSE IF o.side = "buy" THEN o.filled ELSE 0 - o.filled
CashSpent(o) == IF o.side = "buy" THEN Gross(o.notional) ELSE 0 - Net(o.notional)

PromisedCash(orders) == SumFunctionOnSet([i \in OrderIds |-> CashPromise(orders[i])], OrderIds)
PromisedLot(orders, a) == SumFunctionOnSet([i \in OrderIds |-> LotPromise(orders[i], a)], OrderIds)
NetLot(orders, a) == SumFunctionOnSet([i \in OrderIds |-> LotMoved(orders[i], a)], OrderIds)
NetSpent(orders) == SumFunctionOnSet([i \in OrderIds |-> CashSpent(orders[i])], OrderIds)

TotalCost(positions) == SumFunctionOnSet([a \in Assets |-> positions[a].cost], Assets)

\* What the units held of every asset are worth.
Worth(held, price) == SumFunctionOnSet([a \in Assets |-> held[a] * price[a]], Assets)
Held(positions) == [a \in Assets |-> positions[a].quantity]

\* The locks are the pending orders' promises, no more and no less.
LocksBalance(cash, positions, orders) ==
    /\ cash.locked = PromisedCash(orders)
    /\ \A a \in Assets : positions[a].locked = PromisedLot(orders, a)

\* Cash is what the executions left of the initial balance.
CashBalances(cash, orders) == cash.available + cash.locked = InitialCash - NetSpent(orders)

\* Holdings are what was bought and not sold.
HoldingsBalance(positions, orders) ==
    \A a \in Assets : positions[a].quantity = NetLot(orders, a)

\* get_leaderboard: the equity the standings show, at given prices.
BoardEquity(cash, positions, price) ==
    cash.available + Worth(Held(positions), price)

\* _compute_account_equity and _snapshot_row: the equity that ranks a settled
\* account, whose locks have been released.
FinalEquity(row, price) ==
    row.cash + Worth(row.holdings, price)

\* Cash and the cost of what is held make up the initial balance and the
\* profit realized so far.
ProfitBalances(cash, positions, realized) ==
    cash.available + cash.locked + TotalCost(positions) = InitialCash + realized

=============================================================================
