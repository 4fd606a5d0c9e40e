---------------------------- MODULE MCMarketFill ----------------------------
(***************************************************************************)
(* Every sorted ladder of at most MaxLevels levels, empty levels included. *)
(***************************************************************************)
EXTENDS MarketFill

CONSTANTS MaxLevels, MaxPrice, MaxQuantity

Levels == [price : 1 .. MaxPrice, quantity : 0 .. MaxQuantity]
SortedLadders ==
    {l \in UNION {[1 .. n -> Levels] : n \in 0 .. MaxLevels} : Rising(l) \/ Falling(l)}

=============================================================================
