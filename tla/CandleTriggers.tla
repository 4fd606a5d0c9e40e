--------------------------- MODULE CandleTriggers ---------------------------
(***************************************************************************)
(* How the warehouse of CandlePipeline decides what happens to an order:   *)
(* the pending order processor judges a limit buy, and then the stop-loss  *)
(* and take-profit of the lot it bought, by the stored one-minute candles  *)
(* (services/pending_order_processor.py: _order_was_triggered,             *)
(* _exit_trigger_for_order).  Times are floored to the minute, so the      *)
(* candle of the minute of submission, or of the fill, counts whole.       *)
(* What the executions do to the account is TradingLedger's.               *)
(***************************************************************************)
EXTENDS CandlePipeline

CONSTANTS
    Markets,     \* which minutes touch the limit, the stop and the target
    LastSubmit   \* bound on the minute the order is submitted in

ASSUME MarketsAssumption == Markets \subseteq [{"limit", "stop", "target"} -> SUBSET Minutes]

VARIABLES
    market,  \* what the price does
    order    \* the order: its status, submitted_at, completed_at and its exit

allvars == <<vars, market, order>>

NoOrder == [status |-> "none", submitted |-> 0, completed |-> 0, exit |-> "none", at |-> 0]

OrderTypeOK ==
    /\ TypeOK
    /\ market \in Markets
    /\ order \in [status : {"none", "pending", "filled"}, submitted : 0..(MaxMinute + 1),
                  completed : 0..(MaxMinute + 1), exit : {"none", "stop", "target"},
                  at : 0..MaxMinute]

OrderInit == Init /\ market \in Markets /\ order = NoOrder

\* load_candles from a minute until now (slip: the newest only).
NewestCandle(from) == {m \in store.one : m <= now /\ \A k \in store.one : k <= m}
Candles(from) == {m \in store.one : from <= m /\ m <= now}
Touches(from, levels) == {m \in Candles(from) : \E l \in levels : m \in market[l]}

Submit ==
    /\ server = "up"
    /\ order.status = "none"
    /\ now <= LastSubmit
    /\ order' = [order EXCEPT !.status = "pending", !.submitted = now]
    /\ UNCHANGED <<vars, market>>

\* _order_was_triggered, and the fill at the limit price
FillLimit ==
    /\ server = "up"
    /\ order.status = "pending"
    /\ Touches(order.submitted, {"limit"}) # {}
    /\ order' = [order EXCEPT !.status = "filled", !.completed = now]
    /\ UNCHANGED <<vars, market>>

\* The first candle that touches either decides; the stop comes first in it
\* (slip: the newest, as the query orders them).
LatestTouch(o) == Max(Touches(o.completed, {"stop", "target"}))
Decisive(o) == Min(Touches(o.completed, {"stop", "target"}))

\* _exit_trigger_for_order, and the sale
FireExit ==
    /\ server = "up"
    /\ order.status = "filled" /\ order.exit = "none"
    /\ Touches(order.completed, {"stop", "target"}) # {}
    /\ LET m == Decisive(order)
       IN  order' = [order EXCEPT !.at = m,
                                  !.exit = IF m \in market["stop"] THEN "stop" ELSE "target"]
    /\ UNCHANGED <<vars, market>>

\* _run_loop of the processor
ProcessOrders == FillLimit \/ FireExit

OrderNext == (Next /\ UNCHANGED <<market, order>>) \/ Submit \/ ProcessOrders

OrderSpec ==
    OrderInit /\ [][OrderNext]_allvars /\ Fairness /\ WF_allvars(ProcessOrders)

-----------------------------------------------------------------------------
Touched(from, level) == ((from..(now - 1)) \cap market[level]) \ halted

\* "reconciled from historical candles": a fill and an exit answer a price the
\* market reached after the minute had begun that the order was submitted in, or
\* the lot bought in.  An exit is the market's first, stop before target, except
\* for touches the warehouse did not have yet: a candle the stream lost lets a
\* later one decide, and its repair changes nothing.
MarketDecides ==
    [][/\ order'.status = "filled" => Touched(order'.submitted, "limit") # {}
       /\ order'.exit # order.exit =>
             LET earlier == order.completed..(order'.at - 1)
             IN  /\ order'.at \in Touched(order.completed, order'.exit)
                 /\ (earlier \cap (market["stop"] \cup market["target"])) \cap store.one = {}
                 /\ order'.exit = "target" => order'.at \notin market["stop"]]_allvars

\* The touches the order has not answered.
Awaited ==
    CASE order.status = "pending" -> Touched(order.submitted, "limit")
      [] order.status = "filled" /\ order.exit = "none" ->
            Touched(order.completed, "stop") \cup Touched(order.completed, "target")
      [] OTHER -> {}
\* A resting order whose limit the market touches is executed in the end, and
\* so is its exit, although the stream may lose the very candle, the worker
\* die and the process restart, unless the candle leaves the lookback first.
TouchedOrderIsExecuted == []<>(\A m \in Awaited : m < Wanted(now))

=============================================================================
