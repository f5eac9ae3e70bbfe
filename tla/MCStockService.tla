--------------------------- MODULE MCStockService ---------------------------
(***************************************************************************)
(* StockService on two stores, two articles and a handful of documents     *)
(* chosen so that requests collide: they meet on the same rows, lock them  *)
(* in opposite orders, exhaust the stock, overdraw it and count it while   *)
(* it moves.                                                               *)
(***************************************************************************)
EXTENDS StockService

CONSTANTS r1, r2, r3

MCStores == {"mbr", "shop"}
MCProducts == {"p", "q"}
MCPrice == [x \in {"p", "q"} |-> 5]

On(product, quantity, cost) ==
  [product |-> product, quantity |-> quantity, unit_cost |-> cost]

Paper(kind, store, lines, negative) ==
  [kind |-> kind, store |-> store, lines |-> lines, allow_negative |-> negative]

AllDocs ==
  [transfer  |-> Paper("transfer", "shop",
                       <<On("p", 2, NoCost), On("q", 1, NoCost)>>, FALSE),
   sale      |-> Paper("sale", "shop",
                       <<On("q", 1, NoCost), On("p", 1, NoCost)>>, FALSE),
   inventory |-> Paper("inventory", "shop",
                       <<On("p", 1, NoCost), On("q", 2, NoCost)>>, FALSE),
   purchase  |-> Paper("purchase", "mbr", <<On("p", 3, 7)>>, FALSE),
   request   |-> Paper("stock_add_request", "shop", <<On("q", 1, 6)>>, FALSE),
   overdraw  |-> Paper("adjustment", "shop", <<On("p", -2, NoCost)>>, TRUE),
   correct   |-> Paper("adjustment", "shop", <<On("q", 0, 8)>>, FALSE),
   empty     |-> Paper("purchase", "mbr", << >>, FALSE),
   circular  |-> Paper("transfer", "mbr", <<On("p", 1, NoCost)>>, FALSE)]

MCDocs == DOMAIN AllDocs
MCDoc == AllDocs

MCOpening ==
  [r \in MCStores \X MCProducts |->
     [quantity |-> CASE r = <<"mbr", "p">> -> 3 [] r = <<"mbr", "q">> -> 1
                     [] r = <<"shop", "p">> -> 1 [] OTHER -> 0,
      average_cost |-> 5]]

(* The third request only ever sells: two requests open any document, and  *)
(* a sale crosses both.                                                    *)
MCNext ==
  \E t \in Requests :
    \/ \E d \in (IF t = r3 THEN {"sale"} ELSE Docs) : Open(t, d) \/ Refuse(t, d)
    \/ Work(t)
    \/ DeadlockAbort(t)
    \/ Crash(t)
    \/ FailHook(t)

MCSpec ==
  /\ Init
  /\ [][MCNext]_vars
  /\ \A t \in Requests : WF_vars(Work(t)) /\ WF_vars(DeadlockAbort(t))

-----------------------------------------------------------------------------
(* Every admitted request ends, committed or rolled back, even when        *)
(* transactions wait for each other's rows.                                *)
EveryRequestEnds ==
  \A t \in Requests : pc[t] = "open" ~> pc[t] \in {"done", "failed", "broken"}
=============================================================================
