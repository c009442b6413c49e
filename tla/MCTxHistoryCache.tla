------------------------- MODULE MCTxHistoryCache -------------------------
(* Instances of TxHistoryCache for TLC. *)
EXTENDS TxHistoryCache, TLC

CONSTANTS r1, r2

Symmetric == Permutations(Requests)
=============================================================================
