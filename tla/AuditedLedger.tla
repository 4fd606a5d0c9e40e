--------------------------- MODULE AuditedLedger ----------------------------
(***************************************************************************)
(* The books of TradingLedger, audited after every step.                   *)
(***************************************************************************)
EXTENDS TradingLedger, LedgerAudit

CONSTANT Prices  \* the prices equities are compared at

ASSUME PricesAssumption == Prices \subseteq Nat

\* Every unit of cash or asset that is locked is locked for a pending order,
\* through cancellations, fills, exits, settlement and moderation.
LocksMatchPending == LocksBalance(cash, positions, orders)

\* Cash, locked or not, is what the executions left of the initial balance.
CashMatchesFills == CashBalances(cash, orders)

\* Holdings are what the executions bought and did not sell.
HoldingsMatchFills == HoldingsBalance(positions, orders)

\* Both: the executions explain every unit of cash and of every asset.
BooksMatchFills == CashMatchesFills /\ HoldingsMatchFills

\* Money is neither made nor lost by cost accounting: partial sales, exits and
\* the deletion of emptied positions included.
ProfitMatchesBooks == ProfitBalances(cash, positions, account.realized)

\* After a settlement, and until an admin thaws the account, the settled cash
\* and holdings are those of the account and no order is pending.
SettlementIsCurrent ==
    Len(settlements) > 0 /\ account.status = "frozen" /\ participant = "active" =>
        LET s == settlements[Len(settlements)]
        IN  /\ s.cash = cash.available /\ cash.locked = 0
            /\ \A a \in Assets : s.holdings[a] = positions[a].quantity /\ positions[a].locked = 0
            /\ \A i \in OrderIds : orders[i].status # "pending"

\* The equity an account is settled with is the one the standings showed until
\* then and the cash its pending buys had reserved, which the standings leave
\* out: nothing else may change places, whatever the settlement prices.
StandingsOmitOnlyReservations ==
    [][Len(settlements') > Len(settlements) =>
          \A price \in [Assets -> Prices] :
              FinalEquity(settlements'[Len(settlements')], price) =
                  BoardEquity(cash, positions, price) + PromisedCash(orders)]_vars

=============================================================================
