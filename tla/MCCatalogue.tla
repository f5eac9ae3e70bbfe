------------------------------ MODULE MCCatalogue ------------------------------
(* Constants for Catalogue: a workbook whose second row finds the product  *)
(* of its first by name, one that meets it again by its reference; forms   *)
(* that rename, take a code another product may have, change the tracking  *)
(* columns, and send two lines.                                            *)
EXTENDS Catalogue, TLC

CONSTANTS t1, t2

MCSlots == Permutations({t1, t2})

Row(reference, name, category, alert, stock) ==
  [reference |-> reference, name |-> name, category |-> category, alert |-> alert,
   stock |-> stock]
MCFiles ==
  {<<Row("a", "pen", "f", 1, 2), Row(None, "pen", None, 0, 1)>>,
   <<Row("b", None, None, 1, 0), Row(None, None, None, 0, 0), Row("a", "ink", "f", 0, 1)>>}

MCForms ==
  {[barcode |-> "b", name |-> "pen"], [alert |-> 1], [category |-> "f"]}
MCLines ==
  {NoItems, <<[alert |-> 0, requires |-> TRUE], [alert |-> 1, requires |-> FALSE]>>}
=============================================================================
