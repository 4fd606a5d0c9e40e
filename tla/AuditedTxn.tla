----------------------------- MODULE AuditedTxn -----------------------------
(***************************************************************************)
(* What overlapping transactions still promise: the books of LedgerTxn,    *)
(* audited after every commit, and the ledger they implement.              *)
(***************************************************************************)
EXTENDS LedgerTxn, LedgerAudit

\* The ledger that runs one operation at a time.  Its account has realized
\* what the committed sales booked; it settles with no price, as no holding
\* is settled where the two are compared.
Ledger == INSTANCE TradingLedger WITH
    Marks <- {},
    contest <- db.contest, participant <- db.participant,
    account <- [status |-> db.account.status, realized |-> booked],
    cash <- db.cash, positions <- db.positions, orders <- db.orders,
    settlements <- db.settlements

-----------------------------------------------------------------------------
\* "Concurrent orders cannot produce negative balances or positions", nor
\* promise the same units twice.
Solvent ==
    /\ db.cash.available >= 0
    /\ db.cash.locked >= 0
    /\ \A a \in Assets : /\ 0 <= db.positions[a].locked
                         /\ db.positions[a].locked <= db.positions[a].quantity

\* A holding is the lots of the executed buys less those of the executed
\* sales, however executions, cancellations and settlements overlap.
PositionMatchesFills == HoldingsBalance(db.positions, db.orders)

\* No order is placed once a settlement has committed: place_order judges the
\* contest by a snapshot that may be older, and admins may set the contest
\* active again, but the account is found frozen.  Only an exit the processor
\* was executing already is still stored.
SettledTakesNoOrders ==
    [][Len(db.settlements) > 0 =>
          \A i \in OrderIds :
              db.orders[i].status = "none" /\ db'.orders[i].status # "none" =>
                  \E j \in OrderIds : db'.orders[j].exitOrder = i]_vars

\* An order that was executed or cancelled changes its status only when a
\* transaction that was already running saw it pending: fill_pending_limit_order
\* re-selects an order its session has loaded, cancel_order and settlement judge
\* it by their snapshot.  Nothing that begins afterwards revives it.
FinalIsOverwrittenBlindly ==
    [][\A i \in OrderIds :
          db.orders[i].status \in {"filled", "cancelled"}
                  /\ db'.orders[i].status # db.orders[i].status =>
              \E t \in Txns : /\ tx[t].op \in {"fill", "cancel", "settle"}
                             /\ tx'[t].op = "idle"
                             /\ Snap(t).orders[i].status = "pending"]_vars

\* "During settlement, all trading accounts are frozen and all pending orders
\* are cancelled": what is pending after all was placed after the snapshot the
\* settlement was read from, while it waited for the contest's lock.
SettlementLeavesOnlyUnseen ==
    [][Len(db'.settlements) > Len(db.settlements) =>
          /\ db'.account.status = "frozen"
          /\ \A i \in OrderIds : db'.orders[i].status = "pending" =>
                \E t \in Txns : /\ tx[t].op = "settle" /\ tx'[t].op = "idle"
                               /\ Snap(t).orders[i].status = "none"]_vars

\* The same promise without that exception, which the code does not keep: an
\* order stored while the settlement waits stays pending under a frozen account.
\* Refuted by RefutedSettlement.cfg.
AllPendingAreCancelled ==
    [][Len(db'.settlements) > Len(db.settlements) =>
          \A i \in OrderIds : db'.orders[i].status # "pending"]_vars

\* The account's realized_pnl, by which a settlement breaks ties, is the profit
\* of the sales that have committed.  Not so: the processor holds no lock on the
\* account and writes the realized_pnl it had loaded over one that another sale
\* has raised since.  Refuted by RefutedProfit.cfg.
RealizedIsBooked == db.account.realized = booked

\* Overlapping transactions do what the ledger that runs one operation at a
\* time could do: every commit is one of its steps, on the rows committed.
RefinesLedger == Ledger!Spec

=============================================================================
