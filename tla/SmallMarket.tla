---------------------------- MODULE SmallMarket -----------------------------
(***************************************************************************)
(* The market the small instances trade on: one asset, two order books     *)
(* and a handful of requests.  Quotes come from walking the ladders        *)
(* (MarketFill).                                                           *)
(***************************************************************************)
EXTENDS LedgerRules, Sequences, TLC

CONSTANTS
    Shapes,  \* the requests users send, but for their client ids
    Books    \* the order books met

Walk == INSTANCE MarketFill WITH Ladders <- {}, rows <- << >>, quantity <- 0,
            row <- 0, remaining <- 0, levels <- << >>, outcome <- ""

MCRequests == {[client |-> c] @@ s : c \in ClientIds, s \in Shapes}
MCQuotes == {Walk!QuoteOf(b.asks, b.bids) : b \in Books}

Btc == "btc"
OneAsset == {Btc}

Level(p, q) == [price |-> p, quantity |-> q]
Shape(side, type, q, limit, stop, take) ==
    [asset |-> Btc, side |-> side, type |-> type, quantity |-> q,
     limit |-> limit, stop |-> stop, take |-> take]

\* A book whose second ask is dearer, and the book after a fall.
HighBook == [asks |-> <<Level(3, 1), Level(4, 1)>>, bids |-> <<Level(2, 2)>>]
LowBook  == [asks |-> <<Level(2, 2)>>, bids |-> <<Level(1, 2)>>]
TwoBooks == {HighBook, LowBook}
OneBook  == {HighBook}

Entry      == Shape("buy",  "market", 2, 0, 1, 4)   \* with both exits
BuyBelow   == Shape("buy",  "limit",  1, 2, 0, 0)   \* rests under HighBook
SellMarket == Shape("sell", "market", 1, 0, 0, 0)
SellAbove  == Shape("sell", "limit",  2, 3, 0, 0)   \* rests
SellOne    == Shape("sell", "limit",  1, 3, 0, 0)   \* rests, for one unit

TradeShapes == {Entry, BuyBelow, SellMarket, SellAbove}
RaceShapes  == {Entry, BuyBelow, SellOne}
SaleShapes  == {Entry, SellMarket}
BothShapes  == {Entry, BuyBelow, SellOne, SellMarket}
RestShapes  == {BuyBelow}

Symmetry == Permutations(ClientIds)

=============================================================================
