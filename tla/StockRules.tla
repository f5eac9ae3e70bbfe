----------------------------- MODULE StockRules -----------------------------
(***************************************************************************)
(* The arithmetic of the stock: which balance rows a document moves, by    *)
(* how much, and when a movement is refused.  Translated from              *)
(* stock/services.py; the state machines StockLedger (what the service     *)
(* promises) and StockService (how it does it) are built on these          *)
(* definitions.                                                            *)
(*                                                                         *)
(* Quantities are Decimal(12,3) and costs Decimal(12,2) in the code; here  *)
(* both are integers (thousandths, cents).                                 *)
(***************************************************************************)
EXTENDS Integers, Sequences

CONSTANTS
  Stores,         \* store.Store rows
  Products,       \* catalog.Product rows
  GlobalStock,    \* the store with is_global_stock (the MBR warehouse)
  Requests,       \* the HTTP requests (one thread and one connection each)
  Docs,           \* the documents and payloads requests work on
  Doc,            \* Docs -> [kind, store, lines, allow_negative]
  PurchasePrice,  \* Products -> Product.purchase_price
  Opening         \* Rows -> the stored balance before the first movement

(* One row of the table StockBalance per (store, product), the pair its    *)
(* unique constraint names.  A row get_or_create has not inserted yet is   *)
(* a row with quantity 0: the insert takes the same lock as the update.    *)
Rows == Stores \X Products

DocKinds ==
  {"transfer", "purchase", "inventory", "stock_add_request", "adjustment", "sale"}

(* The kinds whose handler first reads a status and refuses a document     *)
(* that is not pending.  An adjustment and a sale are new at each request. *)
Guarded == {"transfer", "purchase", "inventory", "stock_add_request"}

(* unit_cost=None in apply_stock_movement                                  *)
NoCost == -1

Line == [product: Products, quantity: Int, unit_cost: Nat \cup {NoCost}]
Document ==
  [kind: DocKinds, store: Stores, lines: Seq(Line), allow_negative: BOOLEAN]
Balance == [quantity: Int, average_cost: Nat]

ASSUME StockAssumption ==
  /\ GlobalStock \in Stores
  /\ Doc \in [Docs -> Document]
  /\ PurchasePrice \in [Products -> Nat]
  /\ Opening \in [Rows -> Balance]

(* unique_inventory_product: an inventory counts an article once.          *)
ASSUME CountedOnceAssumption ==
  \A d \in Docs : Doc[d].kind = "inventory" =>
    \A i, j \in 1 .. Len(Doc[d].lines) :
      Doc[d].lines[i].product = Doc[d].lines[j].product => i = j

-----------------------------------------------------------------------------
(* A call of apply_stock_movement: the row, the amount (a signed quantity, *)
(* or the quantity a count found), the cost and allow_negative.            *)
Step == [row: Rows, counted: BOOLEAN, amount: Int,
         unit_cost: Nat \cup {NoCost}, allow_negative: BOOLEAN]

Abs(n) == IF n < 0 THEN -n ELSE n

Move(store, product, amount, cost) ==
  [row |-> <<store, product>>, counted |-> FALSE, amount |-> amount,
   unit_cost |-> cost, allow_negative |-> FALSE]

(* validate_stock_transfer: each line leaves the warehouse, then enters    *)
(* the target store, before the next line is looked at.                    *)
TransferSteps(doc) ==
  [i \in 1 .. 2 * Len(doc.lines) |->
     LET line == doc.lines[(i + 1) \div 2]
         price == PurchasePrice[line.product]
     IN IF i % 2 = 1
        THEN Move(GlobalStock, line.product, -Abs(line.quantity), price)
        ELSE Move(doc.store, line.product, Abs(line.quantity), price)]

(* receive_purchase and the approval of a StockAddRequest                  *)
ReceiptSteps(doc) ==
  [i \in 1 .. Len(doc.lines) |->
     Move(doc.store, doc.lines[i].product, doc.lines[i].quantity,
          doc.lines[i].unit_cost)]

(* apply_sale_stock, once per sale line                                    *)
SaleSteps(doc) ==
  [i \in 1 .. Len(doc.lines) |->
     Move(doc.store, doc.lines[i].product, -Abs(doc.lines[i].quantity),
          PurchasePrice[doc.lines[i].product])]

(* validate_inventory_session: the amount is what was counted; the         *)
(* adjustment is computed when the row is locked.                          *)
InventorySteps(doc) ==
  [i \in 1 .. Len(doc.lines) |->
     [Move(doc.store, doc.lines[i].product, doc.lines[i].quantity,
           PurchasePrice[doc.lines[i].product]) EXCEPT !.counted = TRUE]]

(* StockAdjustmentView: the only caller that may pass allow_negative.      *)
AdjustmentSteps(doc) ==
  [i \in 1 .. Len(doc.lines) |->
     [Move(doc.store, doc.lines[i].product, doc.lines[i].quantity,
           doc.lines[i].unit_cost) EXCEPT !.allow_negative = doc.allow_negative]]

Steps(d) ==
  LET doc == Doc[d]
  IN CASE doc.kind = "transfer"   -> TransferSteps(doc)
       [] doc.kind = "inventory"  -> InventorySteps(doc)
       [] doc.kind = "sale"       -> SaleSteps(doc)
       [] doc.kind = "adjustment" -> AdjustmentSteps(doc)
       [] OTHER                   -> ReceiptSteps(doc)

(* The refusals a handler makes before it moves anything, status apart.    *)
WellFormed(d) ==
  /\ Doc[d].lines # << >>
  /\ Doc[d].kind = "transfer" => Doc[d].store # GlobalStock

-----------------------------------------------------------------------------
(* A slip for Delta: moving by the count instead of up to the count.       *)
DeltaByTheCount(step, q) == step.amount

(* What the step adds to a row that holds quantity q.                      *)
Delta(step, q) == IF step.counted THEN step.amount - q ELSE step.amount

(* An inventory line whose count agrees is skipped (continue).             *)
Skipped(step, q) == step.counted /\ Delta(step, q) = 0

(* A quantity of zero, refused before any row is looked at.                *)
Void(step) == ~step.counted /\ step.amount = 0

(* The two ValidationErrors of apply_stock_movement                        *)
Accepted(step, q) ==
  /\ Delta(step, q) # 0
  /\ q + Delta(step, q) < 0 => step.allow_negative

(* The row after an accepted movement: the cost of the last receipt        *)
(* replaces average_cost.                                                  *)
Moved(step, bal) ==
  [quantity |-> bal.quantity + Delta(step, bal.quantity),
   average_cost |->
     IF step.unit_cost # NoCost /\ Delta(step, bal.quantity) > 0
     THEN step.unit_cost ELSE bal.average_cost]

Movement == [by: Requests, quantity: Int, balance_after: Int, unit_cost: Nat,
             allow_negative: BOOLEAN]

(* The StockMovement row written with it.  by (the request) and            *)
(* allow_negative are kept for the properties, the rest are columns.       *)
MovementOf(step, bal, t) ==
  [by |-> t,
   quantity |-> Delta(step, bal.quantity),
   balance_after |-> bal.quantity + Delta(step, bal.quantity),
   unit_cost |-> IF step.unit_cost # NoCost THEN step.unit_cost
                 ELSE PurchasePrice[step.row[2]],
   allow_negative |-> step.allow_negative]
=============================================================================
