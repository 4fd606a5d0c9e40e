----------------------------- MODULE LedgerTxn ------------------------------
(***************************************************************************)
(* The operations of TradingLedger as the database runs them: transactions *)
(* that overlap (repositories/crypto_trading.py, services/crypto_execution *)
(* .py, services/crypto_settlement.py).                                    *)
(*                                                                         *)
(* A request runs in one InnoDB transaction at REPEATABLE READ.  Its first *)
(* statement, which authenticates the user, fixes the snapshot that every  *)
(* plain SELECT of the transaction answers from; SELECT ... FOR UPDATE     *)
(* waits for the row's lock and returns the current row.  The session      *)
(* keeps the first version of a row it loads, so a row first read from the *)
(* snapshot stays as the snapshot has it even when it is locked later      *)
(* (lock_order after list_pending_limit_orders, account.orders).  The      *)
(* session writes at commit only the columns that changed.                 *)
(*                                                                         *)
(* Therefore: tx[t].snap is what t read, tx[t].held the rows t has locked  *)
(* with FOR UPDATE before reading them, whose current value it works on,   *)
(* and a commit waits for the rows it writes without having locked them.   *)
(* A transaction may be rolled back at any time: by an exception, by the   *)
(* server as the victim of a deadlock, by a crash.                         *)
(***************************************************************************)
EXTENDS LedgerRules, Sequences

CONSTANTS
    Txns,             \* database connections: requests running at a time
    Operations,       \* what the requests do, a subset of AllOperations
    Serial,           \* sets of operations that never overlap one another
    ContestStatuses,  \* the statuses admins set the contest to
    MaxSettlements    \* bound on the settlements of a behaviour

AllOperations == {"place", "cancel", "fill", "exit", "settle", "moderate", "schedule"}
Reconciling == {"fill", "exit"}

ASSUME OperationsAssumption == Operations \subseteq AllOperations

\* The processor runs one transaction at a time; nothing else is serialised
\* unless clients choose to wait.
ASSUME SerialAssumption == \E S \in Serial : Reconciling \subseteq S

VARIABLES
    db,      \* the committed rows
    tx,      \* the transactions
    window,  \* now, relative to starts_at and ends_at
    booked   \* history: the profit of every committed sale, added up

vars == <<db, tx, window, booked>>

Databases ==
    [contest : ContestStatuses \cup {"active", "completed"},
     participant : {"active", "locked", "disqualified"},
     account : AccountRows,
     cash : CashRows,
     positions : [Assets -> PositionRows],
     orders : [OrderIds -> OrderRows],
     settlements : Seq(SettlementRows)]

\* The rows that get locked.  The participant's is locked with the account's.
ContestRow == <<"contest", 0>>
AccountRow == <<"account", 0>>
CashRow == <<"cash", 0>>
PositionRow(a) == <<"position", a>>
OrderRow(i) == <<"order", i>>
Rows == {ContestRow, AccountRow, CashRow} \cup {PositionRow(a) : a \in Assets}
            \cup {OrderRow(i) : i \in OrderIds}

\* The account join_contest has just created, in an active contest.
Joined ==
    [contest |-> "active", participant |-> "active",
     account |-> [status |-> "active", realized |-> 0],
     cash |-> InitialBalance,
     positions |-> [a \in Assets |-> EmptyPosition],
     orders |-> [i \in OrderIds |-> NoOrder],
     settlements |-> << >>]

Idle == [op |-> "idle", order |-> 0, snap |-> Joined, held |-> {}]
Transactions ==
    [op : AllOperations \cup {"idle"}, order : OrderIds \cup {0},
     snap : Databases, held : SUBSET Rows]

TypeOK ==
    /\ db \in Databases
    /\ tx \in [Txns -> Transactions]
    /\ window \in {"before", "open", "closed"}
    /\ booked \in Int

Init ==
    /\ db = Joined
    /\ tx = [t \in Txns |-> Idle]
    /\ window \in {"before", "open"}
    /\ booked = 0

-----------------------------------------------------------------------------
(* Transactions.                                                           *)

Snap(t) == tx[t].snap
OrderSeen(t) == Snap(t).orders[tx[t].order]

\* What SELECT ... FOR UPDATE returns; slip: a plain SELECT.
PlainCash(t) == Snap(t).cash
Cash(t) == db.cash
PlainPosition(t, a) == Snap(t).positions[a]
Position(t, a) == db.positions[a]
PlainStatus(t) == Snap(t).account.status
AccountStatus(t) == db.account.status

Unlocked(t, rows) == \A u \in Txns \ {t} : tx[u].held \cap rows = {}

MayStart(op) == \A S \in Serial : op \in S => \A u \in Txns : tx[u].op \notin S

\* Requests whose snapshot already shows that they fail are left out.
Promising(op, i) ==
    CASE op \in {"place", "settle"} -> i = 0
      [] op = "cancel" -> i # 0 /\ db.orders[i].status = "pending"
      [] op = "fill" -> i # 0 /\ db.orders[i].status = "pending"
      [] op = "exit" -> /\ i # 0
                        /\ db.orders[i].status = "filled"
                        /\ db.orders[i].side = "buy"
                        /\ db.orders[i].exit = "open"
      [] OTHER -> FALSE

Begin(t, op, i) ==
    /\ tx[t].op = "idle"
    /\ op \in Operations
    /\ MayStart(op)
    /\ Promising(op, i)
    /\ tx' = [tx EXCEPT ![t] = [op |-> op, order |-> i, snap |-> db, held |-> {}]]
    /\ UNCHANGED <<db, window, booked>>

Rollback(t) ==
    /\ tx[t].op # "idle"
    /\ tx' = [tx EXCEPT ![t] = Idle]
    /\ UNCHANGED <<db, window, booked>>

Lock(t, rows) ==
    /\ Unlocked(t, rows)
    /\ tx' = [tx EXCEPT ![t].held = @ \cup rows]
    /\ UNCHANGED <<db, window, booked>>

\* t writes next, once the rows it has not locked yet are free.
Commit(t, rows, next) ==
    /\ Unlocked(t, rows)
    /\ db' = next
    /\ tx' = [tx EXCEPT ![t] = Idle]
    /\ UNCHANGED window

Booking(profit) == booked' = booked + profit

-----------------------------------------------------------------------------
(* Row locks, in the order the services take them.                         *)

\* lock_account_for_user joins the participant and the contest, and locks all
\* three; but their statuses are lazily loaded, from the snapshot.
LockAccount(t) ==
    /\ tx[t].op \in {"place", "cancel"}
    /\ tx[t].held = {}
    /\ AccountStatus(t) = "active"
    /\ tx[t].op = "place" => /\ Snap(t).participant = "active"
                             /\ OpenForTrading(Snap(t).contest, window)
    /\ Lock(t, {AccountRow, ContestRow})

\* lock_order: the order and its account were loaded from the snapshot.
LockOrder(t) ==
    /\ tx[t].op \in Reconciling
    /\ tx[t].held = {}
    /\ Snap(t).account.status = "active"
    /\ Snap(t).participant = "active"
    /\ OpenForTrading(Snap(t).contest, window)
    /\ Lock(t, {OrderRow(tx[t].order)})

\* get_contest_for_settlement; force is the resettle endpoint.
LockContest(t, force) ==
    /\ tx[t].op = "settle"
    /\ tx[t].held = {}
    /\ db.contest \in {"active", "settling", "completed"}
    /\ db.contest = "completed" => force
    /\ Lock(t, {ContestRow})

\* lock_balance
LockCash(t) ==
    /\ \/ tx[t].op \in {"place"} \cup Reconciling
       \/ tx[t].op = "cancel" /\ OrderSeen(t).side = "buy"
    /\ tx[t].held # {}
    /\ CashRow \notin tx[t].held
    /\ Lock(t, {CashRow})

HasPosition(t) == \E a \in Assets : PositionRow(a) \in tx[t].held

\* lock_position; which asset a placement is for is not chosen before.
LockPosition(t, a) ==
    /\ \/ tx[t].op = "place" /\ CashRow \in tx[t].held
       \/ tx[t].op \in Reconciling /\ CashRow \in tx[t].held /\ a = OrderSeen(t).asset
       \/ tx[t].op = "cancel" /\ tx[t].held # {} /\ OrderSeen(t).side = "sell"
             /\ a = OrderSeen(t).asset
    /\ ~HasPosition(t)
    /\ Lock(t, {PositionRow(a)})

-----------------------------------------------------------------------------
(* place_order                                                             *)

Has(orders, c) == \E i \in OrderIds : orders[i].status # "none" /\ orders[i].client = c

NextId(i) ==
    /\ db.orders[i].status = "none"
    /\ \A j \in OrderIds : j < i => db.orders[j].status # "none"

\* The existing order is looked up in the snapshot; the unique key on
\* (account, client_order_id) is the database's.
MayPlace(t, r, q, i) ==
    /\ tx[t].op = "place"
    /\ PositionRow(r.asset) \in tx[t].held
    /\ ~Has(Snap(t).orders, r.client)
    /\ ~Has(db.orders, r.client)
    /\ r.type = "limit" => r.limit > 0
    /\ r.quantity >= MinQuantity
    /\ ValidExits(r, q)
    /\ NextId(i)

ExecuteBuy(t, r, q, i) ==
    LET n == WalkedNotional(r, q)
        p == Position(t, r.asset)
    IN  /\ MayPlace(t, r, q, i)
        /\ r.side = "buy"
        /\ Marketable(r, q)
        /\ n >= MinNotional
        /\ Gross(n) <= Cash(t).available
        /\ Commit(t, {}, [db EXCEPT !.cash = PayFromAvailable(Cash(t), n),
                                    !.positions[r.asset] = AddLot(p, r.quantity, n),
                                    !.orders[i] = OrderOf(r, "filled", r.quantity, n)])
        /\ UNCHANGED booked

ExecuteSell(t, r, q, i) ==
    LET n == WalkedNotional(r, q)
        p == Position(t, r.asset)
        profit == RealizedBy(p, r.quantity, n)
    IN  /\ MayPlace(t, r, q, i)
        /\ r.side = "sell"
        /\ Marketable(r, q)
        /\ n >= MinNotional
        /\ r.quantity <= Free(p)
        /\ Commit(t, {}, [db EXCEPT !.cash = Credit(Cash(t), n),
                                    !.positions[r.asset] = RemoveLot(p, r.quantity, 0),
                                    !.account.realized = @ + profit,
                                    !.orders[i] = OrderOf(r, "filled", r.quantity, n)])
        /\ Booking(profit)

RestBuy(t, r, q, i) ==
    LET o == OrderOf(r, "pending", 0, 0)
    IN  /\ MayPlace(t, r, q, i)
        /\ r.side = "buy"
        /\ ~Marketable(r, q)
        /\ r.limit * r.quantity >= MinNotional
        /\ Reserve(o) <= Cash(t).available
        /\ Commit(t, {}, [db EXCEPT !.cash = ReserveCash(Cash(t), o), !.orders[i] = o])
        /\ UNCHANGED booked

RestSell(t, r, q, i) ==
    LET o == OrderOf(r, "pending", 0, 0)
        p == Position(t, r.asset)
    IN  /\ MayPlace(t, r, q, i)
        /\ r.side = "sell"
        /\ ~Marketable(r, q)
        /\ r.limit * r.quantity >= MinNotional
        /\ r.quantity <= Free(p)
        /\ Commit(t, {}, [db EXCEPT !.positions[r.asset] = ReserveLot(p, o), !.orders[i] = o])
        /\ UNCHANGED booked

Place(t) ==
    \E r \in Requests, q \in Quotes, i \in OrderIds :
        \/ ExecuteBuy(t, r, q, i)
        \/ ExecuteSell(t, r, q, i)
        \/ RestBuy(t, r, q, i)
        \/ RestSell(t, r, q, i)

-----------------------------------------------------------------------------
(* cancel_order: the order is found in account.orders, from the snapshot,  *)
(* and only its status is written.                                         *)

CancelBuy(t) ==
    LET i == tx[t].order
        o == OrderSeen(t)
    IN  /\ tx[t].op = "cancel"
        /\ o.side = "buy"
        /\ CashRow \in tx[t].held
        /\ Commit(t, {OrderRow(i)}, [db EXCEPT !.cash = ReleaseCash(Cash(t), o),
                                               !.orders[i].status = "cancelled"])
        /\ UNCHANGED booked

CancelSell(t) ==
    LET i == tx[t].order
        o == OrderSeen(t)
        p == Position(t, o.asset)
    IN  /\ tx[t].op = "cancel"
        /\ o.side = "sell"
        /\ PositionRow(o.asset) \in tx[t].held
        /\ Commit(t, {OrderRow(i)}, [db EXCEPT !.positions[o.asset] = ReleaseLot(p, o),
                                               !.orders[i].status = "cancelled"])
        /\ UNCHANGED booked

-----------------------------------------------------------------------------
(* The processor.  account.realized_pnl is added to what the snapshot had. *)

Completed(current, o) ==
    [current EXCEPT !.status = "filled", !.filled = o.quantity, !.notional = o.limit * o.quantity]

Ready(t) == HasPosition(t) /\ CashRow \in tx[t].held

\* The processor holds no lock on the account: it adds the profit to the
\* realized_pnl it has loaded.
RealizedAfter(t, profit) == Snap(t).account.realized + profit

\* fill_pending_limit_order
FillBuy(t) ==
    LET i == tx[t].order
        o == OrderSeen(t)
        n == o.limit * o.quantity
        p == Position(t, o.asset)
    IN  /\ tx[t].op = "fill"
        /\ Ready(t)
        /\ o.side = "buy"
        /\ Reserve(o) <= Cash(t).locked
        /\ Commit(t, {AccountRow}, [db EXCEPT !.cash = PayFromLocked(Cash(t), o),
                                              !.positions[o.asset] = AddLot(p, o.quantity, n),
                                              !.orders[i] = Completed(@, o)])
        /\ UNCHANGED booked

FillSell(t) ==
    LET i == tx[t].order
        o == OrderSeen(t)
        n == o.limit * o.quantity
        p == Position(t, o.asset)
        profit == RealizedBy(p, o.quantity, n)
    IN  /\ tx[t].op = "fill"
        /\ Ready(t)
        /\ o.side = "sell"
        /\ o.quantity <= p.locked
        /\ o.quantity <= p.quantity
        /\ Commit(t, {AccountRow}, [db EXCEPT !.cash = Credit(Cash(t), n),
                                    !.positions[o.asset] = RemoveLot(p, o.quantity, o.quantity),
                                    !.account.realized = RealizedAfter(t, profit),
                                    !.orders[i] = Completed(@, o)])
        /\ Booking(profit)

\* fill_exit_trigger_order
SkipExit(t, kind) ==
    /\ tx[t].op = "exit"
    /\ Ready(t)
    /\ ExitPrice(OrderSeen(t), kind) # 0
    /\ Free(Position(t, OrderSeen(t).asset)) <= 0
    /\ Commit(t, {}, [db EXCEPT !.orders[tx[t].order].exit = "skipped"])
    /\ UNCHANGED booked

FillExit(t, kind, j) ==
    LET i == tx[t].order
        e == OrderSeen(t)
        p == Position(t, e.asset)
        quantity == IF e.filled <= Free(p) THEN e.filled ELSE Free(p)
        n == ExitPrice(e, kind) * quantity
        profit == RealizedBy(p, quantity, n)
    IN  /\ tx[t].op = "exit"
        /\ Ready(t)
        /\ ExitPrice(e, kind) # 0
        /\ Free(p) > 0
        /\ NextId(j)
        /\ ~Has(db.orders, <<kind, i>>)
        /\ Commit(t, {AccountRow}, [db EXCEPT !.cash = Credit(Cash(t), n),
                                    !.positions[e.asset] = RemoveLot(p, quantity, 0),
                                    !.account.realized = RealizedAfter(t, profit),
                                    !.orders[i].exit = kind,
                                    !.orders[i].exitOrder = j,
                                    !.orders[j] = ExitOrderOf(i, e, kind, quantity, n)])
        /\ Booking(profit)

Reconcile(t) ==
    \/ FillBuy(t)
    \/ FillSell(t)
    \/ \E kind \in ExitKinds : SkipExit(t, kind) \/ \E j \in OrderIds : FillExit(t, kind, j)

-----------------------------------------------------------------------------
(* settle_contest: accounts, balances, positions and orders are those of   *)
(* the snapshot, and only rows with something to change are written.  The  *)
(* settlement's version is unique.                                         *)

SettledRows(t) ==
    {AccountRow}
        \cup {r \in {CashRow} : Snap(t).cash.locked > 0}
        \cup {PositionRow(a) : a \in {a \in Assets : Snap(t).positions[a].locked > 0}}
        \cup {OrderRow(i) : i \in {i \in OrderIds : Snap(t).orders[i].status = "pending"}}

SettledCash(seen, current) ==
    IF seen.locked > 0 THEN [available |-> seen.available + seen.locked, locked |-> 0] ELSE current
SettledPosition(seen, current) ==
    IF seen.locked > 0 THEN [current EXCEPT !.locked = 0] ELSE current
\* Slip: every order is cancelled; none is.
CancelAll(seen, current) == [current EXCEPT !.status = "cancelled"]
CancelNone(seen, current) == current
SettledOrder(seen, current) ==
    IF seen.status = "pending" THEN [current EXCEPT !.status = "cancelled"] ELSE current
SettledStatus(seen, current) == IF seen.status = "active" THEN "frozen" ELSE current.status

Settle(t) ==
    LET s == Snap(t)
    IN  /\ tx[t].op = "settle"
        /\ ContestRow \in tx[t].held
        /\ Len(s.settlements) = Len(db.settlements)
        /\ Len(db.settlements) < MaxSettlements
        \* the UPDATE of a row deleted meanwhile fails
        /\ \A a \in Assets : s.positions[a].locked > 0 => db.positions[a].quantity > 0
        /\ Commit(t, SettledRows(t),
              [db EXCEPT
                  !.contest = "completed",
                  !.account.status = SettledStatus(s.account, db.account),
                  !.cash = SettledCash(s.cash, @),
                  !.positions = [a \in Assets |-> SettledPosition(s.positions[a], db.positions[a])],
                  !.orders = [i \in OrderIds |-> SettledOrder(s.orders[i], db.orders[i])],
                  !.settlements = Append(@,
                      [cash |-> s.cash.available + s.cash.locked,
                       holdings |-> [a \in Assets |-> s.positions[a].quantity],
                       status |-> "completed"])])
        /\ UNCHANGED booked

-----------------------------------------------------------------------------
(* The admins' single writes, which read nothing they depend on, and time. *)

SetParticipantStatus(s) ==
    /\ "moderate" \in Operations
    /\ MayStart("moderate")
    /\ \A t \in Txns : AccountRow \notin tx[t].held
    /\ db' = [db EXCEPT !.participant = s,
                        !.account.status = StandingOf(s)]
    /\ UNCHANGED <<tx, window, booked>>

SetContestStatus(s) ==
    /\ "schedule" \in Operations
    /\ \A t \in Txns : ContestRow \notin tx[t].held
    /\ db' = [db EXCEPT !.contest = s]
    /\ UNCHANGED <<tx, window, booked>>

Tick ==
    /\ "schedule" \in Operations
    /\ \/ window = "before" /\ window' = "open"
       \/ window = "open" /\ window' = "closed"
    /\ UNCHANGED <<db, tx, booked>>

-----------------------------------------------------------------------------

Next ==
    \/ \E t \in Txns :
        \/ \E op \in Operations, i \in OrderIds \cup {0} : Begin(t, op, i)
        \/ LockAccount(t) \/ LockOrder(t) \/ LockCash(t)
        \/ \E force \in BOOLEAN : LockContest(t, force)
        \/ \E a \in Assets : LockPosition(t, a)
        \/ Place(t) \/ CancelBuy(t) \/ CancelSell(t) \/ Reconcile(t) \/ Settle(t)
        \/ Rollback(t)
    \/ \E s \in {"active", "locked", "disqualified"} : SetParticipantStatus(s)
    \/ \E s \in ContestStatuses : SetContestStatus(s)
    \/ Tick

Spec == Init /\ [][Next]_vars

=============================================================================
