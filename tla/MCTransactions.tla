--------------------------- MODULE MCTransactions ---------------------------
(* Small instances of Transactions for TLC. *)
EXTENDS Transactions

CONSTANTS t1, p1

MCOneTx == {t1}
MCOnePipe == {p1}
=============================================================================
