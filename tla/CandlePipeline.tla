--------------------------- MODULE CandlePipeline ---------------------------
(***************************************************************************)
(* How the closed one-minute candles of a symbol reach the warehouse: the  *)
(* stream and the persistence worker (services/binance_realtime.py), the   *)
(* repair loop and its backfill (services/crypto_market_repair.py,         *)
(* crypto_market_backfill.py), and the tables they share                   *)
(* (database/crypto_market_duckdb.py).                                     *)
(*                                                                         *)
(* Minute m is the candle that opens at m; now is the open minute, so the  *)
(* closed ones are 1..now-1.  A candle is final once closed, so a table is *)
(* the set of minutes it has.  The event loop runs the stream and the      *)
(* worker, whose drain awaits nothing; the repair runs in a thread, and    *)
(* every method of the store opens a connection of its own, so the two     *)
(* interleave between any two statements that are not in one transaction.  *)
(*                                                                         *)
(* Disconnections, failing calls, stops and crashes are counted by faults. *)
(***************************************************************************)
EXTENDS Naturals, Sequences, FiniteSetsExt

CONSTANTS
    MaxMinute,   \* bound on the clock
    BucketSize,  \* minutes of the derived interval
    QueueSize,   \* max_queue_size of the persistence worker
    PageLimit,   \* page_limit of the backfill
    Lookback,    \* lookback_days, in minutes
    Halts,       \* the sets of minutes the exchange may have no candle for
    MaxFaults    \* bound on what goes wrong

ASSUME SizesAssumption ==
    /\ {MaxMinute, BucketSize, QueueSize, PageLimit, Lookback} \subseteq Nat \ {0}
    /\ MaxFaults \in Nat

Minutes == 1..MaxMinute

VARIABLES
    now,      \* the minute in progress
    halted,   \* the minutes without a candle
    server,   \* the backend process
    link,     \* the stream's connection, as the cache's status shows it
    wire,     \* closed candles sent on the connection and not yet processed
    queue,    \* CandlePersistenceWorker._queue
    worker,   \* the persistence task: where it is in drain_once
    store,    \* crypto_candles: 1m and derived; crypto_indicators: MACD
    state,    \* crypto_ingestion_state
    repair,   \* the repair thread: where it is in backfill_symbol
    faults    \* what may still go wrong

vars == <<now, halted, server, link, wire, queue, worker, store, state, repair, faults>>

Buckets == {b \in Minutes : b % BucketSize = 1 % BucketSize}
NoState == [last |-> 0, status |-> "none"]      \* the row is missing
Waiting == [pc |-> "idle", candle |-> 0]
Dead == [pc |-> "dead", candle |-> 0]
NoRepair == [pc |-> "idle", start |-> 0, final |-> 0, todo |-> {}, cursor |-> 0, last |-> 0,
             status |-> "running"]

TypeOK ==
    /\ now \in 1..(MaxMinute + 1)
    /\ halted \in Halts
    /\ server \in {"down", "up", "stopping"}
    /\ link \in {"down", "up"}
    /\ wire \in Seq(Minutes)
    /\ queue \in Seq(Minutes) /\ Len(queue) <= QueueSize
    /\ worker \in [pc : {"idle", "clear", "insert", "derive", "next", "dead"},
                   candle : Minutes \cup {0}]
    /\ store \in [one : SUBSET Minutes, derived : SUBSET Buckets, macd : SUBSET Minutes]
    /\ state \in [last : Minutes \cup {0},
                  status : {"none", "ok", "running", "success", "failed"}]
    /\ repair \in [pc : {"idle", "ranges", "page", "derive", "indicate", "clear", "insert"},
                   start : 0..MaxMinute, final : 0..MaxMinute, todo : SUBSET Minutes,
                   cursor : 0..(MaxMinute + 1), last : 0..MaxMinute,
                   status : {"running", "success", "failed"}]
    /\ faults \in 0..MaxFaults

Init ==
    /\ now = 1
    /\ halted \in Halts
    /\ server = "down"
    /\ link = "down"
    /\ wire = << >> /\ queue = << >>
    /\ worker = Waiting
    /\ store = [one |-> {}, derived |-> {}, macd |-> {}]
    /\ state = NoState
    /\ repair = NoRepair
    /\ faults = MaxFaults

Fault == faults > 0 /\ faults' = faults - 1
Running == server # "down"

-----------------------------------------------------------------------------
(* The store.                                                              *)

\* upsert_candles: one transaction; a candle stored twice is one candle.
Upserted(minutes) == [store EXCEPT !.one = @ \cup minutes]

\* Slip: a bucket is derived from its first minute on.
Begun(b) == b \in store.one
Complete(b) == b..(b + BucketSize - 1) \subseteq store.one

\* materialize_intervals: the buckets that have all their minutes.
Derived == [store EXCEPT !.derived = @ \cup {b \in Buckets : Complete(b)}]

\* _upsert_indicator_rows
Pointed(minutes) == [store EXCEPT !.macd = @ \cup minutes]

\* materialize_indicators: MACD again, over everything stored.
IndicatorSource == store.one
Indicated == Pointed(IndicatorSource)

\* find_missing_ranges, before the grouping into runs (slip: only what follows
\* the newest candle stored).
AfterNewest(a, b) == {m \in a..b : \A k \in store.one : k < m}
Missing(a, b) == (a..b) \ store.one

\* get_candle_bounds, or else the checkpoint of get_ingestion_state.
LastKnown == IF store.one = {} THEN state.last ELSE Max(store.one)

\* update_ingestion_state is a DELETE and an INSERT, each committed by itself.
\* The key is primary: a row another writer put in between fails the INSERT.
ClearState == state' = NoState
InsertedState(last, status) == state = NoState /\ state' = [last |-> last, status |-> status]
Collision == state # NoState /\ UNCHANGED state

-----------------------------------------------------------------------------
(* The exchange and the stream.                                            *)

\* A minute closes; a connected client is sent its candle, then or later.
Tick ==
    /\ now <= MaxMinute
    /\ now' = now + 1
    /\ wire' = IF link = "up" /\ now \notin halted THEN Append(wire, now) ELSE wire
    /\ UNCHANGED <<halted, server, link, queue, worker, store, state, repair, faults>>

\* The event loop is not inside drain_once.
LoopFree == server = "up" /\ worker.pc \in {"idle", "dead"}

\* _stream_loop: what closes while it is not connected is never sent to it.
Connect ==
    /\ LoopFree
    /\ link = "down"
    /\ link' = "up"
    /\ UNCHANGED <<now, halted, server, wire, queue, worker, store, state, repair, faults>>

Disconnect ==
    /\ link = "up"
    /\ link' = "down"
    /\ wire' = << >>
    /\ Fault
    /\ UNCHANGED <<now, halted, server, queue, worker, store, state, repair>>

\* enqueue: a candle that finds the queue full is dropped.
Enqueue(m) == queue' = IF Len(queue) < QueueSize THEN Append(queue, m) ELSE queue

\* _process_raw_message: its result is not looked at.
Receive ==
    /\ LoopFree
    /\ wire # << >>
    /\ Enqueue(Head(wire))
    /\ wire' = Tail(wire)
    /\ UNCHANGED <<now, halted, server, link, worker, store, state, repair, faults>>

-----------------------------------------------------------------------------
(* CandlePersistenceWorker.drain_once.  An exception ends the task, which  *)
(* nothing restarts: start returns when there are tasks.                   *)

\* The candle is taken from the queue and stored.
Take ==
    /\ Running
    /\ worker.pc \in {"idle", "next"}
    /\ queue # << >>
    /\ store' = Upserted({Head(queue)})
    /\ worker' = [pc |-> "clear", candle |-> Head(queue)]
    /\ queue' = Tail(queue)
    /\ UNCHANGED <<now, halted, server, link, wire, state, repair, faults>>

\* The checkpoint follows, and the derived intervals.
Drain ==
    /\ \/ /\ worker.pc = "clear"
          /\ ClearState
          /\ worker' = [worker EXCEPT !.pc = "insert"]
          /\ UNCHANGED store
       \/ /\ worker.pc = "insert"
          /\ InsertedState(worker.candle, "ok")
          /\ worker' = [worker EXCEPT !.pc = "derive"]
          /\ UNCHANGED store
       \/ /\ worker.pc = "insert"
          /\ Collision
          /\ worker' = Dead
          /\ UNCHANGED store
       \/ /\ worker.pc = "derive"
          /\ store' = Derived
          /\ worker' = IF queue = << >> THEN Waiting ELSE [pc |-> "next", candle |-> 0]
          /\ UNCHANGED state
    /\ UNCHANGED <<now, halted, server, link, wire, queue, repair, faults>>

\* What was taken is lost.
WorkerError ==
    /\ \/ worker.pc \in {"clear", "insert", "derive"} /\ UNCHANGED queue
       \/ /\ Running /\ worker.pc \in {"idle", "next"}
          /\ queue # << >> /\ queue' = Tail(queue)
    /\ worker' = Dead
    /\ Fault
    /\ UNCHANGED <<now, halted, server, link, wire, store, state, repair>>

-----------------------------------------------------------------------------
(* The repair loop: backfill_symbol, again and again.                      *)

Wanted(t) == IF t > Lookback THEN t - Lookback ELSE 1

BeginRepair ==
    /\ server = "up"
    /\ repair.pc = "idle"
    /\ repair' = [NoRepair EXCEPT !.pc = "ranges", !.start = Wanted(now), !.final = now - 1,
                                  !.last = LastKnown]
    /\ UNCHANGED <<now, halted, server, link, wire, queue, worker, store, state, faults>>

\* The cursor starts at the first missing minute.
Paging(r, todo) ==
    [r EXCEPT !.todo = todo, !.cursor = IF todo = {} THEN 0 ELSE Min(todo)]

ReadRanges ==
    /\ repair.pc = "ranges"
    /\ repair' = [Paging(repair, Missing(repair.start, repair.final)) EXCEPT !.pc = "page"]
    /\ UNCHANGED <<now, halted, server, link, wire, queue, worker, store, state, faults>>

\* The run of missing minutes being fetched, and the page of it the exchange
\* answers with: the first PageLimit candles from the cursor on.
Gap == {m \in repair.todo : Min(repair.todo)..m \subseteq repair.todo}
Page ==
    LET rows == (repair.cursor..Max(Gap)) \ halted
    IN  {m \in rows : Cardinality({k \in rows : k < m}) < PageLimit}

\* A short page ends the range, and so does a cursor beyond it (slip: the
\* cursor skips a minute).
PageSkips(rows) ==
    LET next == Max(rows) + 2
    IN  IF Cardinality(rows) < PageLimit \/ next > Max(Gap)
        THEN Paging(repair, repair.todo \ Gap)
        ELSE [repair EXCEPT !.cursor = next]
AfterPage(rows) ==
    LET next == Max(rows) + 1
    IN  IF Cardinality(rows) < PageLimit \/ next > Max(Gap)
        THEN Paging(repair, repair.todo \ Gap)
        ELSE [repair EXCEPT !.cursor = next]

FetchPage ==
    /\ repair.pc = "page"
    /\ repair.todo # {}
    /\ IF Page = {}
       THEN repair' = Paging(repair, repair.todo \ Gap) /\ UNCHANGED store
       ELSE /\ store' = Upserted(Page)
            /\ repair' = [AfterPage(Page) EXCEPT !.pc = "clear", !.status = "running",
                                                 !.last = Max({@} \cup Page)]
    /\ UNCHANGED <<now, halted, server, link, wire, queue, worker, state, faults>>

Failing(r) ==
    IF r.status = "failed" THEN NoRepair
    ELSE [r EXCEPT !.pc = "clear", !.status = "failed"]

FinishRepair ==
    /\ \/ /\ repair.pc = "page" /\ repair.todo = {}
          /\ repair' = [repair EXCEPT !.pc = "derive"]
          /\ UNCHANGED <<store, state>>
       \/ /\ repair.pc = "derive"
          /\ store' = Derived
          /\ repair' = [repair EXCEPT !.pc = "indicate"]
          /\ UNCHANGED state
       \/ /\ repair.pc = "indicate"
          /\ store' = Indicated
          /\ repair' = [repair EXCEPT !.pc = "clear", !.status = "success"]
          /\ UNCHANGED state
    /\ UNCHANGED <<now, halted, server, link, wire, queue, worker, faults>>

RecordRepair ==
    /\ \/ /\ repair.pc = "clear"
          /\ ClearState
          /\ repair' = [repair EXCEPT !.pc = "insert"]
       \/ /\ repair.pc = "insert"
          /\ InsertedState(repair.last, repair.status)
          /\ repair' = IF repair.status = "running" THEN [repair EXCEPT !.pc = "page"]
                                                    ELSE NoRepair
       \/ /\ repair.pc = "insert"
          /\ Collision
          /\ repair' = Failing(repair)
    /\ UNCHANGED <<now, halted, server, link, wire, queue, worker, store, faults>>

\* A call of the exchange or of the store raises.  Before the try statement,
\* and in its handler, the exception leaves backfill_symbol at once.
RepairError ==
    /\ repair.pc # "idle"
    /\ repair' = IF repair.pc = "ranges" THEN NoRepair ELSE Failing(repair)
    /\ Fault
    /\ UNCHANGED <<now, halted, server, link, wire, queue, worker, store, state>>

RepairStep == BeginRepair \/ ReadRanges \/ FetchPage \/ FinishRepair \/ RecordRepair

-----------------------------------------------------------------------------
(* The process.                                                            *)

Start ==
    /\ server = "down"
    /\ server' = "up"
    /\ UNCHANGED <<now, halted, link, wire, queue, worker, store, state, repair, faults>>

\* BinanceRealtimeService.stop: awaiting a dead task raises its exception, and
\* the queue is not drained.
Stop ==
    /\ LoopFree
    /\ server' = "stopping"
    /\ link' = "down"
    /\ wire' = << >>
    /\ queue' = IF worker.pc = "dead" THEN << >> ELSE queue
    /\ Fault
    /\ UNCHANGED <<now, halted, worker, store, state, repair>>

\* The process ends when the last candle is drained and the thread is done.
Exit ==
    /\ server = "stopping"
    /\ worker.pc = "dead" \/ (worker.pc = "idle" /\ queue = << >>)
    /\ repair.pc = "idle"
    /\ server' = "down"
    /\ worker' = Waiting
    /\ queue' = << >>
    /\ UNCHANGED <<now, halted, link, wire, store, state, repair, faults>>

Crash ==
    /\ Running
    /\ server' = "down"
    /\ link' = "down"
    /\ wire' = << >> /\ queue' = << >>
    /\ worker' = Waiting
    /\ repair' = NoRepair
    /\ Fault
    /\ UNCHANGED <<now, halted, store, state>>

-----------------------------------------------------------------------------
(* What is read of the warehouse.                                          *)
(* GET /candles: the newest rows are served from the warehouse if they are *)
(* a gapless window that is fresh, and fetched from Binance otherwise.     *)

\* load_candles
Window(limit) == {m \in store.one : Cardinality({k \in store.one : k > m}) < limit}

\* The newest row opened at most two steps and two minutes ago.  The code counts
\* seconds, so that four minutes are too many but for the first second of now;
\* the model counts minutes.
Freshness == 4

\* _is_usable_warehouse_window
Usable(limit) ==
    LET rows == Window(limit)
    IN  /\ Cardinality(rows) >= Min({limit, 2})
        /\ rows = Min(rows)..Max(rows)
        /\ now - Max(rows) <= Freshness

\* load_indicator: the newest points of the MACD
Points(limit) == {m \in store.macd : Cardinality({k \in store.macd : k > m}) < limit}

\* GET /indicator, when nothing is drawn yet: of the candles the request reads.
DrawIndicator ==
    /\ server = "up"
    /\ store.macd = {}
    /\ store.one # {}
    /\ store' = Pointed(IndicatorSource)
    /\ UNCHANGED <<now, halted, server, link, wire, queue, worker, state, repair, faults>>

\* latest_closed_price_at_or_before: the minute whose close settles a contest
\* that ends in minute at; 0 is no price.
PriceMinute(at) ==
    LET rows == {m \in store.one : m <= at}
    IN  IF rows = {} THEN 0 ELSE Max(rows)

\* _resolve_settlement_prices: without a price, the settlement fails.
Settleable(at) == PriceMinute(at) # 0

-----------------------------------------------------------------------------

Next ==
    \/ Tick \/ Connect \/ Disconnect \/ Receive
    \/ Take \/ Drain \/ WorkerError
    \/ RepairStep \/ RepairError
    \/ Start \/ Stop \/ Exit \/ Crash
    \/ DrawIndicator

\* The repair loop and the processes behind it go on: the loop sleeps between
\* runs but never ends.  Nothing is assumed of the stream.
Fairness == WF_vars(RepairStep) /\ WF_vars(Take \/ Drain) /\ WF_vars(Start) /\ WF_vars(Exit)

Spec == Init /\ [][Next]_vars /\ Fairness

-----------------------------------------------------------------------------
\* "Backfill ... stores only closed candles" and derived intervals are built
\* from canonical ones: whatever the stream, the repair and their failures
\* leave behind, the warehouse has no candle of an open minute, and no
\* derived candle of a bucket some minute of which is missing.
WarehouseIsFinal ==
    /\ store.one \subseteq (1..(now - 1)) \ halted
    /\ \A b \in store.derived : b..(b + BucketSize - 1) \subseteq store.one

\* The checkpoint names a candle that is stored, whichever of the two writers
\* wrote it last and wherever either was interrupted: candles are stored
\* before the state that counts on them.
CheckpointIsStored == state.last # 0 => state.last \in store.one

StoreIsFinal == WarehouseIsFinal /\ CheckpointIsStored

\* "repairs missing internal candle ranges ... rebuilds derived timeframes": a
\* backfill that is recorded as a success has left no minute missing between
\* its start and the last minute closed when it began, no complete bucket
\* underived, and the MACD of all of them, whatever its pages were.
SuccessIsComplete ==
    [][state.status # "success" /\ state'.status = "success" =>
          LET span == repair.start..repair.final
          IN  /\ span \ store.one \subseteq halted
              /\ store.one \cap span \subseteq store.macd
              /\ \A b \in Buckets : b..(b + BucketSize - 1) \subseteq span \ halted
                                        => b \in store.derived]_vars

\* Every closed candle reaches the warehouse while it is within the lookback:
\* one the stream lost, the full queue dropped or the dead worker took with it
\* is fetched by the repair loop.
EveryCandleIsStored == Wanted(now)..(now - 1) \subseteq store.one \cup halted

\* The chart goes back to the warehouse: when the clock rests and no minute is
\* without a candle, the window of the route is served from the store again.
WindowIsServedAgain == now <= MaxMinute \/ halted # {} \/ Usable(Lookback)

\* The MACD under the chart catches up with its candles, also when a request
\* has drawn the first points of it: every repair draws it again.
IndicatorCatchesUp == Points(Lookback) = Window(Lookback)

\* A settlement reads the price at a moment the last candles may be missing,
\* and so an older one; settling again in the end finds the close of the last
\* minute, for every end of the contest within the lookback.
SettlementPriceSettles ==
    \A at \in Wanted(now)..(now - 1) :
        LET closed == (Wanted(now)..at) \ halted
        IN  closed # {} => Settleable(at) /\ PriceMinute(at) = Max(closed)

\* Again and again, all who read the warehouse find it up to date.
ReadersCatchUp ==
    []<>(/\ EveryCandleIsStored
         /\ WindowIsServedAgain
         /\ IndicatorCatchesUp
         /\ SettlementPriceSettles)

=============================================================================
