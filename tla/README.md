# A verification project for the crypto trading contest

The repository runs paper-trading contests on live Binance prices: users join a
contest (optionally with a Solana wallet), get an account with an initial
balance, place market and limit orders with stop-loss and take-profit exits, and
are ranked when the contest is settled; winners claim certificates on chain.
This directory holds TLA+ models of the parts where that can go wrong, the TLC
runs that check them on small instances, and proofs of what holds for all
instances.

All paths below are relative to `src/`; `backend_v2/src` is written `B`.

## 1. Inventory

| part | code | state it keeps | operations |
|---|---|---|---|
| order execution | `B/services/crypto_execution.py`, `B/routes/crypto_trading.py` | account, balances, positions, orders, fills (MySQL) | `place_order`, `cancel_order`, `fill_pending_limit_order`, `fill_exit_trigger_order` |
| market fill | `calculate_market_fill` in the same file | none (pure) | walk a book's levels |
| repository, transactions | `B/repositories/crypto_trading.py`, `B/database/db.py` | the session: snapshot, identity map, row locks | `lock_*`, `get_*`, `list_*`, flush, commit, rollback |
| pending order processor | `B/services/pending_order_processor.py` | a lock, the task | every minute: list pending orders and open exits, load candles, fill |
| settlement | `B/services/crypto_settlement.py` | settlements, snapshots | cancel pending, release locks, value, rank, freeze, complete; resettle |
| contest administration | `B/services/crypto_contests.py`, `B/api/admin.py` | contest and participant status | set status, moderate, join |
| order book synchronisation | `B/services/binance_realtime.py` | local book, last update id, buffer, synced flag | depth events, snapshot, bridging, gap detection |
| realtime hub | the same file, `B/services/crypto_realtime_cache.py`, `B/routes/crypto.py` | caches, sockets | fan out prices, candles, books; candle and indicator windows |
| candle pipeline | `CandlePersistenceWorker`, `B/database/crypto_market_duckdb.py`, `crypto_market_backfill.py`, `crypto_market_repair.py` | queue, DuckDB tables, ingestion state | enqueue, drain, upsert, materialise, find missing ranges, backfill, repair |
| leaderboard | `leaderboard_broadcast.py`, `leaderboard_calculator.py` | client sets, participant cache, throttle clock | connect, price update, broadcast, snapshot |
| leaderboard client | `src/composables/useLeaderboardRealtime.ts` | socket, poll timer, rows, status | connect, fall back to polling, switch contest, sort |
| accounts, joining, faucet | `B/api/auth.py`, `B/api/admin.py`, `B/services/crypto_accounts.py`, `solana_join.py`, `solana_faucet.py` | users, participants, wallet bindings, faucet records | register, lock, change role; join, confirm on chain; claim |
| certificates | `B/services/certificate_export.py`, `solana/programs/contest_nft/src/lib.rs` | batches, Merkle roots, claims | export, authorize, publish, join, claim |
| the rest | frontend views, admin dashboard, etl, legacy, migrations | - | presentation, CRUD, offline scripts |

Interactions: routes call the services in one SQLAlchemy session per request;
the processor and settlement run in the same database; the execution service
asks Binance's REST API for a book (never the local one), the processor reads
candles from DuckDB; the realtime hub writes the cache and calls the
leaderboard's price listener; the frontend polls and listens.

What makes each part correct:

- *Order execution.* Cash and units are never negative and never promised
  twice; what is locked is what pending orders reserve; cash, holdings and
  booked profit are what the executions add up to; an order's end is final; a
  frozen account is out of its owner's reach; exits belong to their entries.
- *Market fill.* The walk pays the best total a book allows and rejects exactly
  what the book cannot hold.
- *Settlement, administration.* A settlement states the books at its moment,
  leaves nothing pending and lets nothing be placed afterwards.
- *Order book.* Once caught up, every level served is the exchange's.
- *Certificates.* The program accepts the exported claims and no others, a
  certificate states its owner's rank in the snapshot it names, and a claim is
  recorded only of a transaction that was sent for it.
- *Candle pipeline.* What is stored is closed and complete, a checkpoint names a
  stored candle, a repair that reports success left no gap, and all who read the
  warehouse find it up to date in the end, whatever was lost on the way.
- *Triggers.* Orders are executed at prices the market reached, exits at the
  first touch that is known, and no touch is passed over for good.
- *Realtime hub.* A subscriber is shown the book that is served, not an older one.
- *Leaderboard.* Connected clients are not dropped, gone ones are forgotten,
  pushes keep their distance and never hold up the market stream for good.
- *Leaderboard client.* The page has exactly one source, and shows in the end
  the standings of the contest it is on, in the order wanted.
- *Accounts, joining, faucet.* An administrator remains; rights end when they
  are taken; wallets stay bound; nobody enters a contest that is over, and its
  admin's wallet never; one transfer per cooldown.

What is hard: requests overlap in InnoDB transactions whose plain reads are
answered from a snapshot, so a row may be stale when it is acted upon; locks
are taken per row in different orders by different services; one amount is
locked at placement and computed anew by cancellation, fill and settlement;
exits sell units that other orders bought; streams lose, delay and reorder
events around snapshots; a certificate passes through a database, a chain and a
browser page that no transaction spans. `PROJECT.json` lists the hazards by line.

## 2. Modules

| module | models | extends / composes |
|---|---|---|
| `LedgerRules` | rows of the database and the arithmetic on them | |
| `MarketFill` | `calculate_market_fill` | |
| `TradingLedger` | every operation on one account, one at a time | `LedgerRules` |
| `LedgerTxn` | the same operations as overlapping transactions; implements `TradingLedger` | `LedgerRules` |
| `LedgerAudit` | the books computed anew from the orders, and the equities of the standings and of a settlement | `LedgerRules` |
| `AuditedLedger` | what `TradingLedger` promises of its books | `TradingLedger`, `LedgerAudit` |
| `AuditedTxn` | what overlapping transactions still promise, and the refinement | `LedgerTxn`, `LedgerAudit`, an instance of `TradingLedger` |
| `CandlePipeline` | stream, queue, persistence worker, warehouse, backfill and repair, the process; the windows and prices read of the warehouse | |
| `CandleTriggers` | a limit order and its exits, judged by the stored candles | `CandlePipeline` |
| `OrderBookSync` | `LocalOrderBook`, `OrderBookSynchronizer`, the stream loop | |
| `MarketHub` | a subscriber of the book | `OrderBookSync` |
| `Leaderboard` | the broadcast service and the round the stream waits for | |
| `LeaderboardClient` | the page's composable: socket, polling, switches | |
| `Membership` | accounts, roles, the contest, both ways to join, the faucet | |
| `Merkle`, `Certificates` | batches, trees, the Solana program, the certificate page | |
| `SmallMarket`, `MC...` | instances for TLC; quotes are `MarketFill`'s | |
| `LedgerLemmas` | sums over orders and assets, and what each update of a row keeps | `LedgerAudit` |
| `TradingLedger_proofs`, `LedgerTxn_proofs` | the theorems of the two ledgers (section 4) | `AuditedLedger`, `AuditedTxn`, `LedgerLemmas` |
| `Market_proofs`, `Candles_proofs`, `Leaderboard_proofs`, `Membership_proofs`, `Certificates_proofs` | the theorems of the walk and the book, of pipeline and triggers, of service and page, of accounts, of batches and trees | the modules |

### The ledger

`TradingLedger` has a variable per table of the account (`cash`, `positions`,
`orders`, `account`, `settlements`) and the statuses that gate trading
(`contest`, `participant`, `window`, which is now relative to the contest's
dates). Its actions are the outcomes of the service methods that change
something:

| actions | code |
|---|---|
| `ExecuteBuy`, `ExecuteSell`, `RestBuy`, `RestSell` | `place_order`: marketable or resting, buy or sell |
| `CancelBuy`, `CancelSell` | `cancel_order` |
| `FillBuy`, `FillSell` | `fill_pending_limit_order` |
| `FillExit`, `SkipExit` | `fill_exit_trigger_order` |
| `Settle` | `settle_contest`, and again by the resettle endpoint |
| `SetParticipantStatus`, `SetContestStatus`, `Tick` | administration and time |

Calls that raise, and replays of a known `client_order_id`, change nothing and
are stutters. Prices and quantities are small integers; a fee of a tenth
(`FeeRate/Scale`) and a scale of 1440 make every division that can occur exact,
so that equalities are equalities in the runs; where a division is not exact
the model rounds down to a unit of `1/Scale` (the code's columns keep 18
places), and section 4 says what that can do to the profit. A position row
that the code deletes is the empty position. Which candle triggers an order is
left open: any pending order may fill at its limit and any open exit may fire.
The contest has both dates, and order books are not empty. Unrealized profit,
`current_equity`, `account.version` and `position.realized_pnl` are left out:
nothing reads them back.

`LedgerTxn` splits each operation into `Begin` (the authentication query, which
fixes the snapshot), one `Lock...` per `SELECT ... FOR UPDATE` in the code's
order, and a commit. What a commit writes from the snapshot and what from the
current row follows the code: balances and positions are first read under their
lock; the order to cancel, the order to fill, the account's `realized_pnl` and
everything that settlement reads come from the snapshot. `Rollback` covers
exceptions, deadlock victims and crashes. The locks an UPDATE takes at flush are
merged with the commit, a request and its quote are chosen at commit, and
administrators' single writes are atomic. `Serial` names the operations that do
not overlap: the processor's (`fill`, `exit`) always, by its lock; a run that
adds others asks what holds if they did not overlap either.

### The order book

One symbol's asks. What matters of a quantity is which update set it, so the
quantity set by update `n` is `n`, and the book after each update is kept as a
history (`books`). The handler waits for the REST snapshot inside the stream
loop, so events queue in the socket meanwhile (`sent`); the snapshot may come
from a server ahead of the stream or behind the exchange (`MaxLag`). The model
shows that after a snapshot newer than the stream, `apply_diff` takes the events
that waited, moves `last_update_id` back and serves a mixture of two moments,
marked synchronized, until the stream has caught up
(`B/services/binance_realtime.py:138` rejects gaps only); `ServedIsThenOrNow`
bounds that mixture, and the design's rule, which the code breaks here, is
`OlderEventsAreDiscarded` (section 3).

`MarketHub` adds one browser's handler, which reads the cached book, awaits the
sending of a candle and only then sends the book (`Subscribe`, `Answer`), while
`Broadcast` sends each newer one. `ShownIsServed` says that what it shows is what
the cache serves, except for that one overtaken answer, which the next broadcast
replaces.

### Candles and what they trigger

A candle is final once its minute is over, so a table of the warehouse is the set
of minutes it has; a minute the exchange has no candle for is in `halted`. The
event loop and the repair thread interleave between any two statements that are
not in one transaction, and an action is such a statement:

| actions | code |
|---|---|
| `Connect`, `Disconnect`, `Receive` | `_stream_loop`, `_process_raw_message`, `enqueue` |
| `Take`, `Drain`, `WorkerError` | `CandlePersistenceWorker.drain_once`: upsert, checkpoint (a DELETE and an INSERT, each committed), derived intervals; an exception ends the task |
| `BeginRepair`, `ReadRanges`, `FetchPage`, `FinishRepair`, `RecordRepair`, `RepairError` | `backfill_symbol`, page by page, with the state it records |
| `Start`, `Stop`, `Exit`, `Crash` | `lifespan`, `stop`, a process that dies |
| `DrawIndicator` | `get_indicator` when nothing is drawn |
| `Submit`, `FillLimit`, `FireExit` | `place_order`, `_order_was_triggered`, `_exit_trigger_for_order` |

`faults` counts disconnections, failing calls, stops and crashes. `CandleTriggers`
leaves the account out: it asks which candles decide. RSI, EMA and SMA, which are
drawn once and not again, are not in it; MACD stands for what repairs redraw.

### Leaderboard and page

The service runs in one event loop: a step of `Leaderboard` is what happens
between two awaits, and `round` is the `on_price_update` the market stream waits
for. The gathered sends are answered one by one (`Push`); their results are then
matched with the set as it is by then (`Matched`). A board with rows is never
computed, because the display names need a lazy load of detached rows
(`UserLoaded`, `Named`): with participants the model's service never sends, as
the code's, which the run `leaderboard_silent` shows; the run `leaderboard` takes
contests nobody has joined, whose boards are sent, so that pushes happen. A
handler ends when its client leaves (`HandlerEnds`) and when a message does not
parse (`Malformed`): then the socket is still open and no longer pushed to.

`LeaderboardClient` has the page's refs as variables and one action per handler,
timer or watcher. The server is open: any socket may push, fail or be silent,
and `GoesSilent` stops the pushes to an open socket for good (`live`), as the
service does when a contest shown empty gets a participant or when it drops a
client wrongly.

### Accounts and contests

None of the requests of `Membership` locks a row, so a request is `Read` (all
checks, on its snapshot) and `Commit`, with `Send` to the chain between them for
the faucet, or `Fail`. A contest is open by its status and its `ends_at` (`Open`):
its end comes by itself (`End`) or is moved by `update_contest` (`Rescheduled`).
`overlapped` notes of a request that another one committed meanwhile, and of one
that asks to enter the contest that its end came: a confirmation that waits for
the chain is not asked again and commits after the end. It records what happened
and steers nothing. The properties say what is lost only to such a request.

The faucet's transfer needs a sender (`SenderConfigured`). The route as shipped
wires none (`B/routes/crypto_trading.py:123`, `B/services/solana_faucet.py:21`)
and every claim fails before its transfer; the run sets the constant to `TRUE`,
so that `CooldownHolds` is about the service with a sender, and the proofs cover
both.

### Certificates

A participant is named by its wallet, a snapshot by its settlement's version and
a hash by the term hashed, so hashes do not collide. `Settle` adds a ranking;
`Export`, `Authorize` are the backend's; `Publish`, `Land` (with the program's
requirements, `Accepted`, and the certificate account it creates, `Absent`) the
chain's; `Open`, `Send`, `Confirm`, `ConfirmFails` the page's. The page sends a
transaction whose simulation succeeded and confirms the claim whether or not it
learns that the transaction landed (`src/services/solanaWallet.ts:545`); the
backend asks only that the claim is the user's and its batch authorized
(`Confirmable`). So a transaction in `sent` lands at any time, or never, and a
claim may be recorded first. Publishing has no caller in the repository but
`publishCertificateRootOnchain`; the model lets the admin publish any batch at
any time and authorize what was published. Wallets are bound before the contest
is settled. `Prepared` walks the snapshot's rows in order and stops at `top_n`
prizes, as `export_batch` does. `RankLimit` is the program's `u8`. The loops of
the backend's tree and proof (`Level`, `Cursor`, `MerkleProof`) and of the
program's check (`RootFromProof`) are functions of the level they have reached.

## 3. Runs

State counts are distinct states; no run takes longer than a few minutes on two
workers.

| run | instance | states | shows |
|---|---|---|---|
| `market_fill` | every sorted ladder of at most 3 levels, prices to 3, quantities 0 to 2, orders of 1 to 4 units | 9,134 | `BestExecution` |
| `ledger_trading` | 4 orders, 3 client ids, a dear book and a fallen one, 4 request shapes, one settlement | 98,895 | `LocksMatchPending`, `BooksMatchFills`, `ProfitMatchesBooks`, `ExitsBelongToTheirEntries`, `SettlementIsCurrent`, `StandingsOmitOnlyReservations` |
| `txn_races` | 2 transactions of any kind but moderation, 2 orders, 2 settlements, contest reopened or cancelled | 563,268 | `Solvent`, `PositionMatchesFills`, `SettledTakesNoOrders`, `FinalIsOverwrittenBlindly`, `SettlementLeavesOnlyUnseen` |
| `txn_refines_ledger` | 2 transactions, 3 orders, moderation; neither cancellations nor moderation overlap the processor or themselves | 191,332 | `RefinesLedger`: every commit is a step of `TradingLedger` |
| `cancel_twice` | two cancellations | | refutes `CashMatchesFills` |
| `candles` | 3 minutes, one of them perhaps without a candle, buckets of 2, a queue of 1, pages of 2, lookback of all, 1 fault, one order | 675,721 | `StoreIsFinal`, `SuccessIsComplete`, `MarketDecides`, `TouchedOrderIsExecuted`, `ReadersCatchUp` |
| `order_book_trimmed` | 3 levels of which 2 are kept, 4 updates, snapshots up to 2 updates late, 2 failures in a row, one subscriber | 749,478 | `CaughtUpIsExact`, `ServedIsThenOrNow`, `ShownIsServed` |
| `leaderboard` | 2 contests, 3 clients, a clock of two instants | 364,280 | `HealthyDroppedOnlyByShift`, `PushesAreSpaced`, `GoneClientsAreForgotten`, `StreamIsReleased` |
| `leaderboard_silent` | the same with participants | | refutes `BoardIsShown` |
| `leaderboard_client` | 3 contests, 2 criteria, 2 polls in flight per contest | 41,568 | `PageHasOneSource`, `ForeignBoardsWereAskedFor`, `BoardCatchesUp` |
| `membership` | an admin and a user, 2 wallets, 2 requests, three groups of operations, a faucet with a sender | 166,032 | `AnAdminRemains`, `RightsAreCurrent`, `BindingsAreKept`, `EntriesAreProper`, `CooldownHolds` |
| `certificate_batches` | 3 wallets, some unbound, 2 settlements, 2 batches of the first or the first three, one of them with a page | 289,499 | `AcceptsExactlyPrizes`, `CertificatesStateRanks`, `RecordedWasSent` |

Every module's type invariant is proved (section 4); those of `LedgerTxn`,
`MarketHub` with `OrderBookSync`, and `Certificates` are checked as well, since
a slip in those modules shows in the types first.

Why the bounds are enough to meet the hazards:

- Four orders hold an entry with both exits, its exit order, and two more that
  compete for its units; the entry takes two levels of the first book; the
  fallen book makes both a loss and a stop. Cash suffices for one entry and one
  resting order but not for two entries, so that rejections occur.
- Two transactions are enough for every stale read found: each involves one
  reader and one writer. Two orders let a refund be paid from another order's
  lock.
- Two of three levels kept lets a level leave the book and come back; a lag of
  two puts a snapshot on either side of the stream.
- Three minutes hold a complete bucket and an incomplete one, a gap longer than
  a page and one inside the stored range; a queue of one is full after one
  candle; one fault at any point separates any two statements. The market
  touches the limit first, then the target, then both exits in one candle, so
  that the candle that is missing matters. With two faults or more minutes the
  instance is beyond a few minutes; the safety properties are proved for all.
- Two clients of one contest are the fewest whose results can be shifted; the
  third makes a round wait for another contest. Two instants put a push before
  and after a throttle.
- Two requests overlap in every way that one victim and one writer can; two
  wallets are an admin's and a participant's. The groups of operations touch
  different rows, or only read each other's.
- Three contests let an answer be two switches late.
- Three prizes give an odd level, whose last leaf is its own sibling; two
  batches over two settlements let a page, the chain and the backend each be at
  a different one. One wallet of the three opens the page (`MaxVisitors`), any of
  them: pages share nothing but the backend's and the chain's tables, in which a
  wallet writes only its own rows, so that a second visitor adds no new case.

Runs that do not check deadlock are those whose systems may stop: no id, minute,
settlement or batch is left within the bounds.

Two runs refute a property, and `PROJECT.json` quotes what it disagrees with under
`findings`: two overlapping cancellations of one order both refund it, and a
contest with participants sends its clients no board.

Elsewhere the code keeps a promise but for certain overlaps. Then the passing run
checks what it does keep, with the exception stated as narrowly as it holds, and
the promise as it is written is a definition next to it, which no run checks
because it is false. Each of these has a configuration by which TLC refutes it
(`tlc -config <cfg> <module>`, a few seconds each), and a finding that quotes the
document:

| configuration | module | refutes | kept instead | what happens |
|---|---|---|---|---|
| `RefutedSettlement.cfg` | `MCLedgerTxn` | `AllPendingAreCancelled` | `SettlementLeavesOnlyUnseen` | an order stored while the settlement waits for the contest's lock stays pending |
| `RefutedProfit.cfg` | `MCLedgerTxn` | `RealizedIsBooked` | `RefinesLedger`, of the profit booked | the processor writes a `realized_pnl` it read before another sale |
| `RefutedDiscard.cfg` | `MarketHub` | `OlderEventsAreDiscarded` | `ServedIsThenOrNow`, `CaughtUpIsExact` | events older than the snapshot are applied over it and served |
| `RefutedClaim.cfg` | `MCCertificates` | `RecordedIsMinted` | `RecordedWasSent` | a claim is recorded before its transaction lands |
| `RefutedOthersStay.cfg` | `MCLeaderboard` | `OthersStay` | `HealthyDroppedOnlyByShift` | a connected client is dropped for another's failure |
| `RefutedThrottle.cfg` | `MCLeaderboard` | `PushesAreThrottled` | `PushesAreSpaced` | two pushes of a contest follow at once, since the first was stamped with the start of a long round |
| `RefutedBinding.cfg` | `MCMembership` | `WalletsAreLocked` | `BindingsAreKept` | the later of two overlapping confirmations replaces a bound wallet |

Some exceptions contradict no document: a final order is overwritten only by a
transaction that saw it pending (`FinalIsOverwrittenBlindly`; what that does to
the cash is `cancel_twice`), and of `Membership` the last administrator, the
rights of a request, the entries and the cooldown are lost only to overlapped
requests or a lost record. `txn_refines_ledger` delimits the cause for the ledger:
without those overlaps the transactions implement the serial one.

Fairness is assumed where the code schedules something itself:

- `CandlePipeline`: the repair loop, the persistence worker, the start of the
  process and its orderly end are weakly fair (a supervisor restarts it; the loop
  has no exit but cancellation). Nothing is assumed of the stream.
- `CandleTriggers`: the processor's loop is weakly fair.
- `Leaderboard`: the event loop resumes every coroutine, and a send returns or
  raises once the transport has given the client up.
- `LeaderboardClient`: the timer fires; a poll that is sent again and again is
  answered (strong fairness); a socket that has pushed pushes again as long as
  the service does not fall silent, which it may at any time (`GoesSilent`). So
  `BoardCatchesUp` excepts a page that an open and silent socket keeps waiting
  (`Unheard`), still connecting or connected; it is about a user who stops
  switching.
- The other modules state none: a request may be rolled back at any step and a
  user need not call again.

## 4. Proofs

The theorems hold for every value of the constants that satisfies the named
assumptions of the modules: any number of orders, assets, transactions, clients,
contests, wallets and levels, any prices and fees. The assumptions are types
(prices and quantities are naturals, a fee is at most the notional) and
finiteness where the program has finitely many: order ids, assets, wallets and
the prices of a book. Every safety invariant and every action property that a
passing run checks is stated by a theorem.

What is defined over data (a sum over orders, the walk of a ladder, a fold over
buffered events, the levels of a tree) is recursive, and the provers cannot
instantiate an induction principle. The proofs argue by the smallest
counterexample instead: the set of the subsets, or indices, where a claim fails
has a minimal element (well-foundedness, cited for a set), and the definition
leads from it to a smaller one. `LedgerLemmas` does this once for sums
(`SumTake`, `SumUpdate`, `SumSame`, `SumBounds`), so that the rest of the audit
is arithmetic.

- `TradingLedger_proofs`. `TypeCorrectness` and `Solvency` are inductive only
  together, as `Inv`: the cost that a sale takes out of a position is a share by
  quantity, and is a number because a sale leaves a position's quantity above
  zero or takes all of it; that in turn needs locked units to lie between 0 and
  the units held. One lemma per helper states that it keeps a balance or a
  position good; one lemma per action uses them. `Finality` (`OrdersAreFinal`)
  and `ExitsBelong` (`ExitsBelongToTheirEntries`): `OrderStep` lists what a step
  may do to one order, and `ExitsBelong` adds that client orders name no exit
  kind and that only filled orders have exits. `FrozenStaysStill`
  (`FrozenIsStill`): by cases over the actions.
  `LocksAreAccountedFor` and `BooksAreAccountedFor` (`LocksMatchPending`,
  `BooksMatchFills`): the invariant `Audited` holds locks, cash and holdings
  together, because a cancellation that clamps at zero gives back exactly its
  own reserve only when what is locked is the sum of the reserves
  (`PromiseBound`). `AuditOne` reduces a step to the one order it changes.
  `StandingsAgree` and `SettlementStaysCurrent` follow from these.
  `ProfitIsAccountedFor` (`ProfitMatchesBooks`) is stated under
  `[]WholeAverages`: no average entry price has to be rounded, which is so in
  every state of the run `ledger_trading`. Without it the equality is false at
  most prices, and `ProfitDriftsByRounding` gives what holds at all of them: a
  sale loses at most the one unit that its two divisions round away
  (`SharesSplit`).
- `LedgerTxn_proofs`. The invariant `Inv` keeps, besides the types and the
  solvency of the committed rows, what each running transaction may rely on: that
  its snapshot is of an earlier state (`Earlier`: orders are not taken back, keep
  what was asked for, and stay final) and shows the order it works on as the
  operation requires (`TargetOK`).
  `TypeCorrect`, `StaysSolvent` and `FinalOrdersAreOnlyOverwrittenBlindly`
  follow. `HoldingsMatchTheFills`
  (`PositionMatchesFills`) adds that an order without an execution has moved
  nothing and that executions do not overlap (`HoldingsInv`).
  `SettledAccountsTakeNoOrders` and `SettlementLeavesOnlyTheUnseen` assume
  `NoModeration`: setting a participant active thaws a settled account
  (`set_participant_status`), which is why the run excludes it too; then what was
  settled stays frozen (`StaysFrozen`).
  `OverlapImplementsTheLedger` (`RefinesLedger`) assumes `Orderly`: no settlement,
  no change of the contest's status, and cancellations and moderation do not
  overlap the processor, nor themselves. The code enforces this of the processor
  alone; without it the refinement is false (`cancel_twice`). The configuration of
  `txn_refines_ledger` satisfies it. `OrderlyInv` says that what a transaction has
  seen of the order it works on is still so when it commits; each commit is then
  mapped to the action of `TradingLedger` it carries out, every other step to a
  stutter.
- `Market_proofs`. `Best` (`BestExecution`): `WalkInv` says what the loop has
  taken of each row so far, and `TakenIsBest` that no way to take the quantity
  costs less: the walk empties every level before its last (`LastLevelTaken`), so
  any other way takes less above that price and more below it (`CostCompare`).
  `CaughtUp`, `ServedThenOrNow` and `HubTypeCorrectness`: `BookInv` relates the
  local book to the exchange's history at two moments, the book's update and the
  snapshot it started from, through every event applied from the buffer; trimming
  to the depth keeps a prefix of the prices. `HubInv` adds the subscriber's views
  for `Shown` (`ShownIsServed`).
- `Candles_proofs`. `Stored` (`StoreIsFinal`), `SuccessMeansComplete`
  (`SuccessIsComplete`) and the types, from one invariant, `Inv`. It says where
  each candle on its way may be (`Sent`, `Drained`), and for the repair that
  every minute of its span is stored, halted or still to be fetched (`Ranged`,
  `Progress`, `Fetched`), and what it has derived and drawn once it says so
  (`Hopeful`, `Succeeding`). The core is that a page is a prefix of the gap's
  candles (`PageIsPrefix`): whatever is skipped when the page is short has no
  candle. `DecidedByTheMarket` (`MarketDecides`): `OrderInv` adds that a filled
  order's limit was touched; what is stored is closed and not halted, so a stored
  touch is one of the market.
- `Leaderboard_proofs`. `DropsOnlyByShift` (`HealthyDroppedOnlyByShift`),
  `Spacing` (`PushesAreSpaced`) and the types. The invariant needs that a send has
  failed only if its client has gone (`FailedAreGone`) and that who is registered
  has connected (`Connected`); a list zipped with itself matches everybody with
  his own result. Of the page, `OneSource` (`PageHasOneSource`), which is
  inductive with the types, and `ForeignAsked` (`ForeignBoardsWereAskedFor`).
- `Membership_proofs`. All five properties of the run and the types. The invariant
  says that a request nobody overtook would still be admitted (`Current`), that
  rows refer to rows (`Grounded`), and that a transfer without a claim is lost or
  in flight (`Accounted`). The end of a contest disturbs `Current` of those who
  ask to enter it only, and they are overlapped from then on (`EndStep`).
- `Certificates_proofs`. `RecordedClaimsWereSent` (`RecordedWasSent`): a page that
  waits for its confirmation has sent the claim it shows, and a transaction leaves
  `sent` only as the certificate of its batch, which stays because `Land` needs
  the wallet's certificate to be absent.
  `TypeCorrectness`, `StatesTheRank` (`CertificatesStateRanks`) and
  `AcceptsThePrizes` (`AcceptsExactlyPrizes`), from `Exported`: a batch holds the
  tree of its own prizes, the prizes are rows of the ranking it names, and the
  chain's root is a batch's. The trees need three facts of any number of leaves:
  halving reaches a single hash, the proof of a leaf leads to the root level by
  level (`ProofReachesRoot`), and, hashes being terms, no two leaves lead to one
  root along one proof (`ProofIsOfOneLeaf`).

Only model-checked: liveness, which is outside the prover
(`TouchedOrderIsExecuted`, `ReadersCatchUp`, `GoneClientsAreForgotten`,
`StreamIsReleased`, `BoardCatchesUp`), and the refuted properties.

What a next step would prove: the refinement with settlement, once `RefinesLedger`
allows a settlement to leave behind the orders it has not seen; and how far cash
can drift from the executions when cancellations overlap, as a bound per
overwritten order.

## 5. Not modelled

- Rounding of stored decimals (18 places); MySQL beyond row locks, snapshots and
  unique keys; ties of the ranking and the snapshot's hash; the 15 s cache of the
  standings, which is per process and only makes a response old.
- Several symbols of one stream, several derived intervals, indicators other than
  MACD, and the figures and order of a board: the model keeps which rows exist.
- The exits' and fills' effects on the account together with the candles that
  trigger them: `TradingLedger` lets any order trigger, `CandleTriggers` says
  when, and the two are not composed.
- `set_join_enabled` and the Metaplex calls of the Solana program.
- Listings, dashboards, search, profiles and passwords: they read, format or
  change one row nothing else depends on.
- Rendering and pinning of certificate images, HTTP clients.
- `etl/`: scripts of an earlier product; `etl/run_etl.py` imports modules the
  repository does not have, and `README.md:7` calls the production application
  crypto-only. `legacy/`, migrations and the remaining frontend views are retired,
  offline or presentation.
