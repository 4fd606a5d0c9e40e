-------------------------- MODULE MCTradingLedger ---------------------------
(***************************************************************************)
(* A small instance of AuditedLedger for TLC.                              *)
(***************************************************************************)
EXTENDS AuditedLedger, SmallMarket

AllMarks == {[a \in OneAsset |-> 2], << >>}

=============================================================================
