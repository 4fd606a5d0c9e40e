--------------------------- MODULE TradingLedger ----------------------------
(***************************************************************************)
(* The trading account of one contest participant, with every operation    *)
(* run alone: place, cancel, fill and exit of orders                       *)
(* (services/crypto_execution.py), settlement                              *)
(* (services/crypto_settlement.py) and the moderation done by admins       *)
(* (services/crypto_contests.py).                                          *)
(*                                                                         *)
(* An action is one call that commits.  A call that raises rolls back and  *)
(* is a stuttering step, and so is a placement whose client_order_id is    *)
(* already known: it returns the existing order.  What interleaved         *)
(* transactions make of these operations is the subject of LedgerTxn.      *)
(***************************************************************************)
EXTENDS LedgerRules, Sequences

CONSTANTS
    Marks,            \* the settlement prices the candle store may give
    ContestStatuses,  \* the statuses admins set the contest to
    MaxSettlements    \* bound on the settlements of a behaviour

\* A symbol without a closed candle before ends_at has no settlement price.
ASSUME MarksAssumption ==
    \A m \in Marks : DOMAIN m \subseteq Assets /\ m \in [DOMAIN m -> Nat]
ASSUME StatusesAssumption ==
    ContestStatuses \subseteq {"draft", "scheduled", "active", "settling", "completed", "cancelled"}

VARIABLES
    contest,      \* contests.status
    window,       \* now, relative to starts_at and ends_at
    participant,  \* contest_participants.status
    account,      \* trading_accounts: status and realized_pnl
    cash,         \* account_balances, the quote asset's row
    positions,    \* crypto_positions; no row is the empty position
    orders,       \* crypto_orders; an id not used yet has status "none"
    settlements   \* crypto_contest_settlements, by version

vars == <<contest, window, participant, account, cash, positions, orders, settlements>>
adminVars == <<contest, window, participant, settlements>>

TypeOK ==
    /\ contest \in ContestStatuses \cup {"scheduled", "active", "completed"}
    /\ window \in {"before", "open", "closed"}
    /\ participant \in {"active", "locked", "disqualified"}
    /\ account \in AccountRows
    /\ cash \in CashRows
    /\ positions \in [Assets -> PositionRows]
    /\ orders \in [OrderIds -> OrderRows]
    /\ settlements \in Seq(SettlementRows)

\* The account join_contest has just created.
Init ==
    /\ contest \in {"scheduled", "active"}
    /\ window \in {"before", "open"}
    /\ participant = "active"
    /\ account = [status |-> "active", realized |-> 0]
    /\ cash = InitialBalance
    /\ positions = [a \in Assets |-> EmptyPosition]
    /\ orders = [i \in OrderIds |-> NoOrder]
    /\ settlements = <<>>

-----------------------------------------------------------------------------
(* Placement.                                                              *)

Known(c) == \E i \in OrderIds : orders[i].status # "none" /\ orders[i].client = c

\* i is the key the next inserted order gets.
NextId(i) ==
    /\ orders[i].status = "none"
    /\ \A j \in OrderIds : j < i => orders[j].status # "none"

\* What placements and reconciliation check.
TradingAllowed ==
    /\ account.status = "active"
    /\ participant = "active"
    /\ OpenForTrading(contest, window)

Accepted(r, q) ==
    /\ ~Known(r.client)
    /\ TradingAllowed
    /\ r.type = "limit" => r.limit > 0
    /\ r.quantity >= MinQuantity
    /\ ValidExits(r, q)

\* place_order, for a market order or a limit order that is marketable.
ExecuteBuy(r, q, i) ==
    LET n == WalkedNotional(r, q)
    IN  /\ r.side = "buy"
        /\ Accepted(r, q)
        /\ Marketable(r, q)
        /\ n >= MinNotional
        /\ Gross(n) <= cash.available
        /\ cash' = PayFromAvailable(cash, n)
        /\ positions' = [positions EXCEPT ![r.asset] = AddLot(@, r.quantity, n)]
        /\ NextId(i)
        /\ orders' = [orders EXCEPT ![i] = OrderOf(r, "filled", r.quantity, n)]
        /\ UNCHANGED <<account, adminVars>>

ExecuteSell(r, q, i) ==
    LET n == WalkedNotional(r, q)
        p == positions[r.asset]
    IN  /\ r.side = "sell"
        /\ Accepted(r, q)
        /\ Marketable(r, q)
        /\ n >= MinNotional
        /\ r.quantity <= Free(p)
        /\ cash' = Credit(cash, n)
        /\ account' = [account EXCEPT !.realized = @ + RealizedBy(p, r.quantity, n)]
        /\ positions' = [positions EXCEPT ![r.asset] = RemoveLot(p, r.quantity, 0)]
        /\ NextId(i)
        /\ orders' = [orders EXCEPT ![i] = OrderOf(r, "filled", r.quantity, n)]
        /\ UNCHANGED adminVars

\* place_order, for a limit order that has to wait: cash or quantity is locked.
RestBuy(r, q, i) ==
    LET o == OrderOf(r, "pending", 0, 0)
    IN  /\ r.side = "buy"
        /\ Accepted(r, q)
        /\ ~Marketable(r, q)
        /\ r.limit * r.quantity >= MinNotional
        /\ Reserve(o) <= cash.available
        /\ cash' = ReserveCash(cash, o)
        /\ NextId(i)
        /\ orders' = [orders EXCEPT ![i] = o]
        /\ UNCHANGED <<positions, account, adminVars>>

RestSell(r, q, i) ==
    LET o == OrderOf(r, "pending", 0, 0)
    IN  /\ r.side = "sell"
        /\ Accepted(r, q)
        /\ ~Marketable(r, q)
        /\ r.limit * r.quantity >= MinNotional
        /\ r.quantity <= Free(positions[r.asset])
        /\ positions' = [positions EXCEPT ![r.asset] = ReserveLot(@, o)]
        /\ NextId(i)
        /\ orders' = [orders EXCEPT ![i] = o]
        /\ UNCHANGED <<cash, account, adminVars>>

Place ==
    \E r \in Requests, q \in Quotes, i \in OrderIds :
        \/ ExecuteBuy(r, q, i)
        \/ ExecuteSell(r, q, i)
        \/ RestBuy(r, q, i)
        \/ RestSell(r, q, i)

-----------------------------------------------------------------------------
(* Cancellation, by the user.  Only the account's status is looked at: an  *)
(* order can be cancelled after the contest has closed.                    *)

Cancellable(o) == o.status = "pending"

CancelBuy(i) ==
    /\ account.status = "active"
    /\ Cancellable(orders[i])
    /\ orders[i].side = "buy"
    /\ cash' = ReleaseCash(cash, orders[i])
    /\ orders' = [orders EXCEPT ![i].status = "cancelled"]
    /\ UNCHANGED <<positions, account, adminVars>>

CancelSell(i) ==
    /\ account.status = "active"
    /\ Cancellable(orders[i])
    /\ orders[i].side = "sell"
    /\ positions' = [positions EXCEPT ![orders[i].asset] = ReleaseLot(@, orders[i])]
    /\ orders' = [orders EXCEPT ![i].status = "cancelled"]
    /\ UNCHANGED <<cash, account, adminVars>>

Cancel(i) == CancelBuy(i) \/ CancelSell(i)

-----------------------------------------------------------------------------
(* The reconciliation of pending orders, by the background processor.      *)
(* Whether the candles trigger an order is up to the market.               *)

\* _complete_pending_order
Completed(o) ==
    [o EXCEPT !.status = "filled", !.filled = o.quantity, !.notional = o.limit * o.quantity]

\* fill_pending_limit_order: the processor fills at the limit price.
FillBuy(i) ==
    LET o == orders[i]
    IN  /\ TradingAllowed
        /\ o.status = "pending"
        /\ o.side = "buy"
        /\ Reserve(o) <= cash.locked
        /\ cash' = PayFromLocked(cash, o)
        /\ positions' = [positions EXCEPT ![o.asset] = AddLot(@, o.quantity, o.limit * o.quantity)]
        /\ orders' = [orders EXCEPT ![i] = Completed(o)]
        /\ UNCHANGED <<account, adminVars>>

FillSell(i) ==
    LET o == orders[i]
        p == positions[o.asset]
        n == o.limit * o.quantity
    IN  /\ TradingAllowed
        /\ o.status = "pending"
        /\ o.side = "sell"
        /\ o.quantity <= p.locked
        /\ o.quantity <= p.quantity
        /\ cash' = Credit(cash, n)
        /\ account' = [account EXCEPT !.realized = @ + RealizedBy(p, o.quantity, n)]
        /\ positions' = [positions EXCEPT ![o.asset] = RemoveLot(p, o.quantity, o.quantity)]
        /\ orders' = [orders EXCEPT ![i] = Completed(o)]
        /\ UNCHANGED adminVars

\* An entry whose stop loss or take profit may still fire.
OpenExit(i, kind) ==
    /\ TradingAllowed
    /\ orders[i].status = "filled"
    /\ orders[i].side = "buy"
    /\ orders[i].exit = "open"
    /\ ExitPrice(orders[i], kind) # 0

\* fill_exit_trigger_order with nothing left to sell: the exit is given up.
SkipExit(i, kind) ==
    /\ OpenExit(i, kind)
    /\ Free(positions[orders[i].asset]) <= 0
    /\ orders' = [orders EXCEPT ![i].exit = "skipped"]
    /\ UNCHANGED <<cash, positions, account, adminVars>>

\* What an exit sells; slip: everything.
ExitAll(o, p) == Free(p)
ExitQuantity(o, p) == IF o.filled <= Free(p) THEN o.filled ELSE Free(p)

\* fill_exit_trigger_order: sells at the trigger price what is left, at most
\* what the entry bought.
FillExit(i, kind, j) ==
    LET e == orders[i]
        p == positions[e.asset]
        quantity == ExitQuantity(e, p)
        n == ExitPrice(e, kind) * quantity
    IN  /\ OpenExit(i, kind)
        /\ Free(p) > 0
        /\ NextId(j)
        /\ ~Known(<<kind, i>>)
        /\ cash' = Credit(cash, n)
        /\ account' = [account EXCEPT !.realized = @ + RealizedBy(p, quantity, n)]
        /\ positions' = [positions EXCEPT ![e.asset] = RemoveLot(p, quantity, 0)]
        /\ orders' = [orders EXCEPT ![i].exit = kind,
                                    ![i].exitOrder = j,
                                    ![j] = ExitOrderOf(i, e, kind, quantity, n)]
        /\ UNCHANGED adminVars

Reconcile ==
    \E i \in OrderIds :
        \/ FillBuy(i)
        \/ FillSell(i)
        \/ \E kind \in ExitKinds :
               SkipExit(i, kind) \/ \E j \in OrderIds : FillExit(i, kind, j)

-----------------------------------------------------------------------------
(* Administration and time.                                                *)

\* The cash that counts towards the final equity; slip: before the release.
UnreleasedCash(c) == c.available
ReleasedCash(c) == c.available + c.locked

\* settle_contest; force is the resettle endpoint.  An open position without
\* a settlement price makes it fail.
Settle(force, m) ==
    /\ contest \in {"active", "settling", "completed"}
    /\ contest = "completed" => force
    /\ \A a \in Assets : positions[a].quantity > 0 => a \in DOMAIN m
    /\ Len(settlements) < MaxSettlements
    /\ orders' = [i \in OrderIds |->
                     IF orders[i].status = "pending"
                     THEN [orders[i] EXCEPT !.status = "cancelled"] ELSE orders[i]]
    /\ cash' = [available |-> cash.available + cash.locked, locked |-> 0]
    /\ positions' = [a \in Assets |-> [positions[a] EXCEPT !.locked = 0]]
    /\ account' = [account EXCEPT !.status = "frozen"]
    /\ settlements' = Append(settlements,
           [cash |-> ReleasedCash(cash),
            holdings |-> [a \in Assets |-> positions[a].quantity],
            status |-> "completed"])
    /\ contest' = "completed"
    /\ UNCHANGED <<window, participant>>

\* The two endpoints.
SettleContest(m) == Settle(FALSE, m)
Resettle(m) == Settle(TRUE, m)

\* set_contest_status: any status may follow any other.
SetContestStatus(s) ==
    /\ contest' = s
    /\ UNCHANGED <<window, participant, account, cash, positions, orders, settlements>>

\* set_participant_status: anything but "active" freezes the account, and
\* "active" thaws it, even after settlement.
SetParticipantStatus(s) ==
    /\ participant' = s
    /\ account' = [account EXCEPT !.status = StandingOf(s)]
    /\ UNCHANGED <<contest, window, cash, positions, orders, settlements>>

Moderate == \E s \in {"active", "locked", "disqualified"} : SetParticipantStatus(s)

\* Time passes starts_at and ends_at.
Tick ==
    /\ \/ window = "before" /\ window' = "open"
       \/ window = "open" /\ window' = "closed"
    /\ UNCHANGED <<contest, participant, account, cash, positions, orders, settlements>>

Administer ==
    \/ \E m \in Marks : SettleContest(m) \/ Resettle(m)
    \/ \E s \in ContestStatuses : SetContestStatus(s)
    \/ Moderate
    \/ Tick

Next ==
    \/ Place
    \/ \E i \in OrderIds : Cancel(i)
    \/ Reconcile
    \/ Administer

Spec == Init /\ [][Next]_vars

-----------------------------------------------------------------------------
(* What the ledger promises.                                               *)

\* Orders "cannot produce negative balances or positions", and never promise
\* the same units twice: what pending sells lock is held.
Solvent ==
    /\ cash.available >= 0
    /\ cash.locked >= 0
    /\ \A a \in Assets : 0 <= positions[a].locked /\ positions[a].locked <= positions[a].quantity

\* A filled or cancelled order is final, with its execution; an exit fires
\* once, whatever the processor finds in the candles later on.
OrdersAreFinal ==
    [][\A i \in OrderIds : orders[i].status \in {"filled", "cancelled"} =>
          /\ orders'[i].status = orders[i].status
          /\ orders'[i].filled = orders[i].filled
          /\ orders'[i].notional = orders[i].notional
          /\ orders[i].exit # "open" => /\ orders'[i].exit = orders[i].exit
                                        /\ orders'[i].exitOrder = orders[i].exitOrder]_vars

\* A frozen account keeps its money and its holdings: moderation and
\* settlement freeze it, and no order, fill or exit moves it until an admin
\* thaws it.  Settlement only unlocks.
FrozenIsStill ==
    [][account.status = "frozen" =>
          /\ cash'.available + cash'.locked = cash.available + cash.locked
          /\ account'.realized = account.realized
          /\ \A a \in Assets : positions'[a].quantity = positions[a].quantity]_vars

\* The exit order of an entry sells the entry's asset, no more than the entry
\* bought, and belongs to no other entry.
ExitsBelongToTheirEntries ==
    \A i \in OrderIds : orders[i].exit \in ExitKinds =>
        /\ orders[i].exitOrder \in OrderIds
        /\ LET x == orders[orders[i].exitOrder]
           IN  /\ x.client = <<orders[i].exit, i>>
               /\ x.status = "filled" /\ x.side = "sell" /\ x.asset = orders[i].asset
               /\ x.filled <= orders[i].filled

=============================================================================
