----------------------------- MODULE MarketFill -----------------------------
(***************************************************************************)
(* The walk of the order book that prices a market order                   *)
(* (calculate_market_fill in services/crypto_execution.py).                *)
(*                                                                         *)
(* The program is a loop: it takes from each level what is left to take,   *)
(* best price first, and rejects the order when the visible levels do not  *)
(* hold the quantity.  Two forms are given: the loop, one step per         *)
(* iteration, and the value it computes as a function (WalkNotional), from *)
(* which the quotes of the trading ledger are built.  Prices and           *)
(* quantities are natural numbers; the program computes with Decimal.      *)
(***************************************************************************)
EXTENDS Integers, SequencesExt

CONSTANTS
    Ladders,     \* the sides of a book: sequences of [price, quantity]
    Quantities   \* the quantities an order may ask for

\* A level of the book, or the part of it that is taken.
FillLevels == [price : Nat \ {0}, quantity : Nat]

ASSUME LaddersAssumption == Ladders \subseteq Seq(FillLevels)
ASSUME QuantitiesAssumption == Quantities \subseteq Nat \ {0}

VARIABLES
    rows,        \* the side that is walked
    quantity,    \* the quantity asked for
    row,         \* the number of levels looked at so far
    remaining,   \* what is still to be taken
    levels,      \* the FillLevels, one per level taken from
    outcome      \* "walking", "filled" or "rejected"

walkVars == <<rows, quantity, row, remaining, levels, outcome>>

Lesser(a, b) == IF a <= b THEN a ELSE b

WalkInit ==
    /\ rows \in Ladders
    /\ quantity \in Quantities
    /\ row = 0
    /\ remaining = quantity
    /\ levels = <<>>
    /\ outcome = "walking"

\* The level looked at next; slip: the worst one.
WorstLevel == rows[Len(rows) - row]
BestLevel == rows[row + 1]

\* What is taken from a level.
TakenFrom(level) == Lesser(remaining, level.quantity)

\* The for loop runs out of rows.
Exhausted == row >= Len(rows)

\* What makes the walk raise.
Short == remaining > 0

\* One iteration: a FillLevel is appended even when the level is empty.
TakeLevel ==
    /\ outcome = "walking"
    /\ row < Len(rows)
    /\ remaining > 0
    /\ levels' = Append(levels, [price |-> BestLevel.price, quantity |-> TakenFrom(BestLevel)])
    /\ remaining' = remaining - TakenFrom(BestLevel)
    /\ row' = row + 1
    /\ UNCHANGED <<rows, quantity, outcome>>

\* The loop is left when nothing remains or when the book is exhausted.
Finish ==
    /\ outcome = "walking"
    /\ remaining <= 0 \/ Exhausted
    /\ outcome' = IF Short THEN "rejected" ELSE "filled"
    /\ UNCHANGED <<rows, quantity, row, remaining, levels>>

WalkNext == TakeLevel \/ Finish

WalkSpec == WalkInit /\ [][WalkNext]_walkVars

-----------------------------------------------------------------------------
(* The same walk as a function of the book.                                *)

\* What is left to take after each level of ladder l.
Left(l, q) ==
    LET left[i \in 0 .. Len(l)] ==
            IF i = 0 THEN q ELSE left[i - 1] - Lesser(left[i - 1], l[i].quantity)
    IN  left

\* The notional of taking q from ladder l; 0 when the depth is insufficient.
WalkNotional(l, q) ==
    LET left == Left(l, q)
        sum[i \in 0 .. Len(l)] ==
            IF i = 0 THEN 0 ELSE sum[i - 1] + l[i].price * (left[i - 1] - left[i])
    IN  IF left[Len(l)] > 0 THEN 0 ELSE sum[Len(l)]

\* What the ledger needs to know of a book: its best prices, and the notional
\* of every quantity on either side.
QuoteOf(asks, bids) ==
    [ask |-> asks[1].price, bid |-> bids[1].price,
     buy  |-> [q \in Quantities |-> WalkNotional(asks, q)],
     sell |-> [q \in Quantities |-> WalkNotional(bids, q)]]

-----------------------------------------------------------------------------
(* What the walk promises.                                                 *)

WalkTypeOK ==
    /\ rows \in Ladders
    /\ quantity \in Quantities
    /\ row \in 0 .. Len(rows)
    /\ remaining \in 0 .. quantity
    /\ levels \in Seq(FillLevels)
    /\ Len(levels) = row
    /\ outcome \in {"walking", "filled", "rejected"}

Total(f) == FoldLeft(+, 0, f)
Notional == Total([k \in 1 .. Len(levels) |-> levels[k].price * levels[k].quantity])

\* The ways to take q units from ladder l, so many from each level.
Allocations(l, q) ==
    {f \in [1 .. Len(l) -> 0 .. q] :
        /\ \A k \in 1 .. Len(l) : f[k] <= l[k].quantity
        /\ Total(f) = q}
CostOf(l, f) == Total([k \in 1 .. Len(l) |-> l[k].price * f[k]])

Rising(l)  == \A j, k \in 1 .. Len(l) : j < k => l[j].price <= l[k].price
Falling(l) == \A j, k \in 1 .. Len(l) : j < k => l[j].price >= l[k].price

\* A filled buy pays the least, and a filled sell earns the most, that any way
\* of taking the quantity from the visible levels would, partial and empty
\* levels included.  An order is rejected exactly when there is no such way,
\* and the quotes of the ledger tell a rejection and a notional apart alike.
BestExecution ==
    /\ outcome = "filled" =>
           /\ WalkNotional(rows, quantity) = Notional
           /\ Allocations(rows, quantity) # {}
           /\ \A f \in Allocations(rows, quantity) :
                  /\ Rising(rows) => Notional <= CostOf(rows, f)
                  /\ Falling(rows) => Notional >= CostOf(rows, f)
    /\ outcome = "rejected" =>
           /\ WalkNotional(rows, quantity) = 0
           /\ Allocations(rows, quantity) = {}

=============================================================================
