------------------------------ MODULE MCTxnId ------------------------------
(* TxnId with ranges of three ids, so that runs end inside a range, at its *)
(* end and while it is renewed.                                            *)
EXTENDS TxnId
=============================================================================
