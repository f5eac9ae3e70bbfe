-------------------------- MODULE MCStockDocuments --------------------------
(***************************************************************************)
(* StockDocuments on one document of each kind and a second request; the   *)
(* direction of both stores, somebody who answers for the shop alone, a    *)
(* seller of the shop.                                                     *)
(***************************************************************************)
EXTENDS StockDocuments, TLC

CONSTANTS t1

MCKind == [d \in Docs |-> IF d = "request2" THEN "request" ELSE d]

MCRole ==
  [head |-> [central |-> "direction", shop |-> "direction"],
   keeper |-> [central |-> "none", shop |-> "responsable"],
   seller |-> [central |-> "none", shop |-> "vendeur"]]
=============================================================================
