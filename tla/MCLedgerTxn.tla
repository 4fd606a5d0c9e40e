---------------------------- MODULE MCLedgerTxn -----------------------------
(***************************************************************************)
(* Small instances of LedgerTxn for TLC.                                   *)
(***************************************************************************)
EXTENDS AuditedTxn, SmallMarket

TxnSymmetry == Permutations(Txns)
FullSymmetry == Permutations(Txns) \cup Permutations(ClientIds)

-----------------------------------------------------------------------------
\* Refuted by a run of its own.  Cash is what the fills left of the initial
\* balance: an order is refunded once.
CashMatchesFills == CashBalances(db.cash, db.orders)

=============================================================================
