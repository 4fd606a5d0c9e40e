----------------------------- MODULE MCCandles ------------------------------
(***************************************************************************)
(* A small instance of CandleTriggers, and with it of CandlePipeline:      *)
(* three minutes, a queue of one candle, pages of two.                     *)
(***************************************************************************)
EXTENDS CandleTriggers

SomeHalts == {{}, {2}}

\* The target is touched in the minute after the fill at the earliest; when its
\* candle is not there, the next one touches the stop and the target both.
SomeMarkets == {[limit |-> {1}, stop |-> {3}, target |-> {2, 3}]}

=============================================================================
