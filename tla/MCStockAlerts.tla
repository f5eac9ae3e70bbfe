---------------------------- MODULE MCStockAlerts ----------------------------
(***************************************************************************)
(* StockAlerts on a row of 3 with a default minimum of 1, moved by two     *)
(* requests: a sale of two makes it low, a receipt of two puts it right,   *)
(* and an adjustment may take it below zero.  One edit may set the count   *)
(* to nothing.  Two tasks run at once, for a manager who wants alerts and  *)
(* one who does not.                                                       *)
(***************************************************************************)
EXTENDS StockAlerts, TLC

CONSTANTS m1, m2, w1, w2

MCWants == [u \in Management |-> u # "quiet"]
MCDeltas == {-2, 2}
MCMinima == {0, 3, NoMinimum}
=============================================================================
