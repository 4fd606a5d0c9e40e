---------------------------- MODULE LedgerRules -----------------------------
(***************************************************************************)
(* The arithmetic and the row updates of the trading service               *)
(* (services/crypto_execution.py), shared by the ledger that runs each     *)
(* operation alone (TradingLedger) and by the one that runs them as        *)
(* interleaved database transactions (LedgerTxn).                          *)
(*                                                                         *)
(* Money is exact.  A notional is price * quantity; an amount of cash is   *)
(* counted in units of 1/Scale, and the fee rate is FeeRate/Scale, so that *)
(* notional * fee_rate is a whole number of units.  A price of 0 in a      *)
(* request or an order stands for None.                                    *)
(***************************************************************************)
EXTENDS Integers, FiniteSets

CONSTANTS
    Assets,       \* the assets enabled in the contest
    ClientIds,    \* the client_order_id values users send
    NoClient,     \* the client id of an order row not used yet
    Quantities,   \* the order quantities considered
    Requests,     \* the order requests users send, a subset of RequestRows
    Quotes,       \* what the order book may be when an order is placed
    OrderIds,     \* primary keys of crypto_orders, handed out in order
    Scale,        \* units of cash per unit of notional
    FeeRate,      \* contest.fee_rate * Scale
    InitialCash,  \* contest.initial_balance
    MinQuantity,  \* asset.min_quantity
    MinNotional,  \* asset.min_notional
    Practice      \* contest.mode = "practice"

Sides == {"buy", "sell"}
ExitKinds == {"stop_loss", "take_profit"}

\* The body of POST /orders/market.
RequestRows ==
    [client : ClientIds, asset : Assets, side : Sides, type : {"market", "limit"},
     quantity : Quantities, limit : Nat, stop : Nat, take : Nat]

\* The best prices of a book, and the notional of walking it for a quantity
\* (0 when the depth is insufficient).
QuoteRows ==
    [ask : Nat \ {0}, bid : Nat \ {0},
     buy : [Quantities -> Nat], sell : [Quantities -> Nat]]

ASSUME SizesAssumption ==
    /\ NoClient \notin ClientIds
    /\ Assets # {} /\ IsFiniteSet(Assets)
    /\ Quantities \subseteq Nat \ {0}
    /\ OrderIds \subseteq Nat \ {0} /\ IsFiniteSet(OrderIds)
ASSUME MoneyAssumption ==
    /\ Scale \in Nat \ {0}
    /\ FeeRate \in 0 .. Scale
    /\ InitialCash \in Nat
    /\ MinQuantity \in Nat
    /\ MinNotional \in Nat \ {0}
    /\ Practice \in BOOLEAN
ASSUME RequestsAssumption == Requests \subseteq RequestRows
ASSUME QuotesAssumption == Quotes \subseteq QuoteRows

-----------------------------------------------------------------------------
(* Rows of the database.                                                   *)

CashRows == [available : Int, locked : Int]
PositionRows == [quantity : Int, locked : Int, cost : Int]
AccountRows == [status : {"active", "frozen"}, realized : Int]
SettlementRows == [cash : Int, holdings : [Assets -> Int], status : {"completed"}]

OrderStatuses == {"none", "pending", "filled", "cancelled"}

\* A client id, or the one the processor makes up for an exit order.
OrderClients == ClientIds \cup (ExitKinds \X OrderIds) \cup {NoClient}

OrderRows ==
    [client : OrderClients, asset : Assets, side : Sides,
     type : {"market", "limit"} \cup ExitKinds, status : OrderStatuses,
     quantity : Nat, limit : Nat, stop : Nat, take : Nat,
     filled : Nat, notional : Nat,
     exit : {"open", "skipped"} \cup ExitKinds, exitOrder : OrderIds \cup {0}]

\* The row of an order placed by request r.
OrderOf(r, status, filled, notional) ==
    [client |-> r.client, asset |-> r.asset, side |-> r.side, type |-> r.type,
     status |-> status, quantity |-> r.quantity, limit |-> r.limit,
     stop |-> r.stop, take |-> r.take, filled |-> filled, notional |-> notional,
     exit |-> "open", exitOrder |-> 0]

\* The sell order made by the exit of the entry order e, whose id is i.
ExitOrderOf(i, e, kind, quantity, notional) ==
    [client |-> <<kind, i>>, asset |-> e.asset, side |-> "sell", type |-> kind,
     status |-> "filled", quantity |-> quantity, limit |-> 0,
     stop |-> 0, take |-> 0, filled |-> quantity, notional |-> notional,
     exit |-> "open", exitOrder |-> 0]

\* An id that has not been handed out.
NoOrder ==
    [client |-> NoClient, asset |-> CHOOSE a \in Assets : TRUE, side |-> "buy",
     type |-> "market", status |-> "none", quantity |-> 0, limit |-> 0, stop |-> 0,
     take |-> 0, filled |-> 0, notional |-> 0, exit |-> "open", exitOrder |-> 0]

EmptyPosition == [quantity |-> 0, locked |-> 0, cost |-> 0]
InitialBalance == [available |-> InitialCash, locked |-> 0]

-----------------------------------------------------------------------------
(* Prices and fees.                                                        *)

Gross(n) == n * (Scale + FeeRate)    \* what a buyer pays: notional + fee
Net(n)   == n * (Scale - FeeRate)    \* what a seller gets: notional - fee
Reserve(o) == Gross(o.limit * o.quantity)

\* The units that may be sold.
Free(p) == p.quantity - p.locked

\* What stays locked after a release; slip: unclamped.
AsComputed(x) == x
AtLeastZero(x) == IF x > 0 THEN x ELSE 0

ExitPrice(o, kind) == IF kind = "stop_loss" THEN o.stop ELSE o.take

\* _contest_is_open_for_trading: a practice contest has no dates.
OpenForTrading(status, window) ==
    status = "active" /\ (Practice \/ window = "open")

\* Twice the price exit controls are compared with: the limit price, or the
\* middle of the book.
TwiceReference(r, q) == IF r.type = "limit" THEN 2 * r.limit ELSE q.ask + q.bid

\* _validate_exit_controls
ValidExits(r, q) ==
    \/ r.stop = 0 /\ r.take = 0
    \/ /\ r.side = "buy"
       /\ r.stop # 0 => 2 * r.stop < TwiceReference(r, q)
       /\ r.take # 0 => 2 * r.take > TwiceReference(r, q)

\* should_fill_immediately
Marketable(r, q) ==
    \/ r.type = "market"
    \/ r.side = "buy" /\ r.limit >= q.ask
    \/ r.side = "sell" /\ r.limit <= q.bid

\* calculate_market_fill: the notional of the whole quantity; a limit order is
\* walked like a market order, whatever its limit.
WalkedNotional(r, q) == IF r.side = "buy" THEN q.buy[r.quantity] ELSE q.sell[r.quantity]

-----------------------------------------------------------------------------
(* Updates of the cash and position rows.                                  *)

PayFromAvailable(c, n) == [c EXCEPT !.available = @ - Gross(n)]
Credit(c, n)           == [c EXCEPT !.available = @ + Net(n)]

\* A pending buy is paid from what it locked; slip: the fee stays locked.
PayNotionalFromLocked(c, o) == [c EXCEPT !.locked = @ - o.limit * o.quantity * Scale]
PayFromLocked(c, o)         == [c EXCEPT !.locked = @ - Reserve(o)]

ReserveCash(c, o) ==
    [available |-> c.available - Reserve(o), locked |-> c.locked + Reserve(o)]
ReserveLot(p, o) == [p EXCEPT !.locked = @ + o.quantity]

\* What cancel_order gives back, clamped at zero on the locked side only;
\* slip: the fee is forgotten.
ReleaseNotional(c, o) ==
    [available |-> c.available + o.limit * o.quantity * Scale,
     locked |-> AtLeastZero(c.locked - o.limit * o.quantity * Scale)]
ReleaseCash(c, o) ==
    [available |-> c.available + Reserve(o), locked |-> AtLeastZero(c.locked - Reserve(o))]
ReleaseLot(p, o) == [p EXCEPT !.locked = AtLeastZero(@ - o.quantity)]

\* A purchase; slip: its fee is left out of the cost basis.
AddLotWithoutFee(p, q, n) == [p EXCEPT !.quantity = @ + q, !.cost = @ + n * Scale]
AddLot(p, q, n) == [p EXCEPT !.quantity = @ + q, !.cost = @ + Gross(n)]

\* The part of the cost basis that q units carry, at the average entry price.
CostShare(p, q) == (p.cost * q) \div p.quantity

\* A sale.  A row whose quantity reaches zero is deleted, which is the empty
\* position.
RemoveLot(p, q, unlocked) ==
    [quantity |-> p.quantity - q, locked |-> p.locked - unlocked,
     cost |-> CostShare(p, p.quantity - q)]

RealizedBy(p, q, n) == Net(n) - CostShare(p, q)

\* The account status a participant's status gives; slip: the same word.
SameStatus(s) == s
StandingOf(s) == IF s = "active" THEN "active" ELSE "frozen"

=============================================================================
