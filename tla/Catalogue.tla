------------------------------- MODULE Catalogue -------------------------------
(***************************************************************************)
(* The catalogue: products with their tracking lines, families, the rows   *)
(* of stock the central store keeps of them, and the import of a workbook. *)
(* Translated from catalog/, with the views of stock/ that create and      *)
(* delete a row of stock, and get_locked_balance.                          *)
(*                                                                         *)
(* An edit reads its product, then saves every column of that copy in a    *)
(* transaction.  An import is one transaction: what its rows write is      *)
(* seen by itself until it commits, and locks the products it wrote, and   *)
(* the codes and families it inserted.  Prices, the dates that go with     *)
(* alert, and the names of families are left out; units are kept as        *)
(* families are.  Edits of a row of stock are in StockAlerts.              *)
(***************************************************************************)
EXTENDS Integers, Sequences, FiniteSets

CONSTANTS
  Slots,        \* requests served at once
  Codes,        \* references and barcodes
  Names,        \* designations, among them the codes
  Families,     \* codes of Category
  None,         \* an empty column or cell
  Files,        \* workbooks: sequences of rows
  Forms,        \* what an edit sends: partial functions of the columns
  NoItems,      \* a form without tracking lines
  Lines,        \* the tracking lines a form sends, NoItems among them
  MaxProducts,  \* bound: products ever inserted
  MaxMoves,     \* bound: movements of stock
  MaxEdits      \* bound: requests begun

Alerts == 0..1
Columns == {"reference", "barcode", "name", "category", "alert", "requires"}

(* A tracking line; a product has the same columns, for its first line.    *)
Track == [alert : Alerts, requires : BOOLEAN]
Product == [reference : Codes \cup {None}, barcode : Codes \cup {None}, name : Names,
            category : Families \cup {None}, alert : Alerts, requires : BOOLEAN]
Column ==
  [c \in Columns |->
     CASE c \in {"reference", "barcode"} -> Codes \cup {None}
       [] c = "name" -> Names
       [] c = "category" -> Families \cup {None}
       [] c = "alert" -> Alerts
       [] c = "requires" -> BOOLEAN]

ASSUME CatalogueAssumption ==
  /\ Codes \subseteq Names /\ None \notin Names \cup Families /\ None \notin Alerts
  /\ \A f \in Files : f \in Seq([reference : Codes \cup {None}, name : Names \cup {None},
                                 category : Families \cup {None}, alert : Alerts, stock : Nat])
  /\ \A f \in Forms : DOMAIN f \subseteq Columns /\ \A c \in DOMAIN f : f[c] \in Column[c]
  /\ None \notin Slots
  /\ NoItems \in Lines /\ \A l \in Lines \ {NoItems} : l \in Seq(Track) /\ l # <<>>
  /\ MaxProducts \in Nat /\ MaxMoves \in Nat /\ MaxEdits \in Nat

VARIABLES
  products,  \* the table Product: a row for each primary key there is
  items,     \* the tracking lines of each product, by position
  balances,  \* the central store's StockBalance of a product, if it has one
  families,  \* the table Category
  issued,    \* primary keys of products given out
  used,      \* products that have movements, or stand on documents
  at,        \* Slots -> where the request is, with what it has read or written
  edits,     \* requests begun
  moves,     \* movements made
  due        \* ghost: what a row of stock started with, and its movements

tables == <<products, items, balances, families>>
vars == <<tables, issued, used, at, edits, moves, due>>

Idle == [op |-> "idle"]
Nothing == <<>>  \* no row

Init ==
  /\ products = Nothing /\ items = Nothing /\ balances = Nothing /\ due = Nothing
  /\ families = {}
  /\ issued = 0 /\ used = {}
  /\ at = [t \in Slots |-> Idle]
  /\ edits = 0 /\ moves = 0

At(t, op) == at[t].op = op
Begins(t) == At(t, "idle") /\ edits < MaxEdits /\ edits' = edits + 1
Goto(t, place) == at' = [at EXCEPT ![t] = place]

(* The tables, and what a transaction writes to them.                      *)
Committed ==
  [products |-> products, items |-> items, balances |-> balances, families |-> families]

(* A table with the rows of another written over it, and with one row.     *)
Over(new, old) ==
  [x \in DOMAIN new \cup DOMAIN old |-> IF x \in DOMAIN new THEN new[x] ELSE old[x]]
One(p, row) == [x \in {p} |-> row]
Put(table, p, row) == Over(One(p, row), table)

Blank == [products |-> Nothing, items |-> Nothing, balances |-> Nothing, families |-> {}]

Merge(new, old) ==
  [products |-> Over(new.products, old.products), items |-> Over(new.items, old.items),
   balances |-> Over(new.balances, old.balances), families |-> new.families \cup old.families]

Write(db) ==
  /\ products' = db.products /\ items' = db.items
  /\ balances' = db.balances /\ families' = db.families

Without(f, ids) == [p \in DOMAIN f \ ids |-> f[p]]

(* Nobody else's import holds product p, a code, or the family c.          *)
Held(t) ==
  {at[s].draft : s \in {x \in Slots \ {t} : At(x, "import")}}
Unlocked(t, p, codes, c) ==
  \A d \in Held(t) :
    /\ p \notin DOMAIN d.products /\ c \notin d.families
    /\ \A q \in DOMAIN d.products :
         d.products[q].reference \notin codes /\ d.products[q].barcode \notin codes

(* Both codes are unique columns.                                          *)
Clash(db, p, row) ==
  \E q \in DOMAIN db.products \ {p} :
    \/ row.reference # None /\ db.products[q].reference = row.reference
    \/ row.barcode # None /\ db.products[q].barcode = row.barcode

CodesOf(row) == {row.reference, row.barcode} \ {None}

TrackOf(row) == [alert |-> row.alert, requires |-> row.requires]

(* A slip for WithFirst: the line is added behind the others.              *)
WithFirstBehind(lines, track) == Append(lines, track)

(* update_or_create at position 0.                                         *)
WithFirst(lines, track) ==
  IF lines = <<>> THEN <<track>> ELSE [lines EXCEPT ![1] = track]

-----------------------------------------------------------------------------
(* import_products_from_workbook                                           *)

(* The products a row of the workbook is about.                            *)
Matches(db, row) ==
  {p \in DOMAIN db.products :
     IF row.reference # None THEN db.products[p].reference = row.reference
     ELSE db.products[p].name = row.name}

(* The columns of the product after the row: requires is not among them.   *)
Filled(db, row, p) ==
  [reference |-> IF p \in DOMAIN db.products THEN db.products[p].reference ELSE row.reference,
   barcode |-> row.reference,
   name |-> IF row.name = None THEN row.reference ELSE row.name,
   category |-> row.category,
   alert |-> row.alert,
   requires |-> p \in DOMAIN db.products /\ db.products[p].requires]

Target(db, row, new) ==
  IF Matches(db, row) = {} THEN new ELSE CHOOSE p \in Matches(db, row) : TRUE

(* MultipleObjectsReturned, or a barcode that is another product's.        *)
Refuses(db, row, new) ==
  \/ Cardinality(Matches(db, row)) > 1
  \/ Clash(db, Target(db, row, new), Filled(db, row, Target(db, row, new)))

(* A slip for StockOf: the workbook's stock is written each time.          *)
StockOfEachTime(db, row, p) == One(p, [quantity |-> row.stock, min |-> row.alert])

(* The row of stock is opened, or given the threshold it has not.          *)
StockOf(db, row, p) ==
  IF p \notin DOMAIN db.balances THEN One(p, [quantity |-> row.stock, min |-> row.alert])
  ELSE IF db.balances[p].min = None THEN One(p, [db.balances[p] EXCEPT !.min = row.alert])
  ELSE Nothing

Skips(row) == row.reference = None /\ row.name = None

(* What a row of the workbook writes.                                      *)
Written(db, row, new) ==
  LET p == Target(db, row, new)
      product == Filled(db, row, p)
      lines == IF p \in DOMAIN db.items THEN db.items[p] ELSE <<>>
  IN  [products |-> One(p, product),
       items |-> One(p, WithFirst(lines, TrackOf(product))),
       balances |-> StockOf(db, row, p),
       families |-> {row.category} \ ({None} \cup db.families)]

BeginImport(t, file) ==
  /\ Begins(t)
  /\ Goto(t, [op |-> "import", file |-> file, next |-> 1, draft |-> Blank])
  /\ UNCHANGED <<tables, issued, used, moves, due>>

ImportRow(t) ==
  LET row == at[t].file[at[t].next]
      db == Merge(at[t].draft, Committed)
      new == issued + 1
      p == Target(db, row, new)
  IN  /\ At(t, "import") /\ at[t].next <= Len(at[t].file)
      /\ IF Skips(row)
         THEN Goto(t, [at[t] EXCEPT !.next = @ + 1]) /\ UNCHANGED issued
         ELSE /\ Unlocked(t, p, CodesOf(Filled(db, row, p)), row.category)
              /\ IF Refuses(db, row, new)
                 THEN Goto(t, Idle) /\ UNCHANGED issued
                 ELSE /\ Goto(t, [at[t] EXCEPT !.next = @ + 1,
                                               !.draft = Merge(Written(db, row, new), @)])
                      /\ issued' = IF p = new THEN new ELSE issued
                      /\ issued' <= MaxProducts
      /\ UNCHANGED <<tables, used, edits, moves, due>>

Commit(t) ==
  /\ At(t, "import") /\ at[t].next > Len(at[t].file)
  /\ Write(Merge(at[t].draft, Committed))
  /\ due' = Over(due, [p \in DOMAIN at[t].draft.balances |-> at[t].draft.balances[p].quantity])
  /\ Goto(t, Idle)
  /\ UNCHANGED <<issued, used, edits, moves>>

(* The import is the victim of a deadlock, or its worker dies.             *)
Abort(t) ==
  /\ At(t, "import")
  /\ Goto(t, Idle)
  /\ UNCHANGED <<tables, issued, used, edits, moves, due>>

-----------------------------------------------------------------------------
(* ProductSerializer                                                       *)

(* The columns of a form; with tracking lines, the first one's.            *)
Sent(form, lines) ==
  IF lines = NoItems THEN form ELSE Over(TrackOf(lines[1]), form)

UpdatesLegacy(form) == DOMAIN form \cap {"alert", "requires"} # {}

Fresh(form) ==
  Over(form, [reference |-> None, barcode |-> None, name |-> None, category |-> None,
              alert |-> 0, requires |-> FALSE])

(* create: a form needs a barcode, and a name.                             *)
Create(t, form, lines) ==
  LET p == issued + 1
      row == Fresh(Sent(form, lines))
  IN  /\ edits < MaxEdits /\ edits' = edits + 1
      /\ row.barcode # None /\ row.name # None
      /\ row.category \in families \cup {None}
      /\ Unlocked(t, p, CodesOf(row), None) /\ ~Clash(Committed, p, row)
      /\ p <= MaxProducts /\ issued' = p
      /\ products' = Put(products, p, row)
      /\ items' = Put(items, p, IF lines = NoItems THEN <<TrackOf(row)>> ELSE lines)
      /\ UNCHANGED <<balances, families, used, at, moves, due>>

FetchProduct(t, p, form, lines) ==
  LET row == Over(Sent(form, lines), products[p])
  IN  /\ Begins(t)
      /\ row.barcode # None /\ ~Clash(Committed, p, row)
      /\ "category" \in DOMAIN form => form["category"] \in families \cup {None}
      /\ Goto(t, [op |-> "save", product |-> p, read |-> products[p], row |-> row,
                  had |-> items[p], form |-> form, lines |-> lines])
      /\ UNCHANGED <<tables, issued, used, moves, due>>

(* A slip for LinesAfter: the first line does not follow the product.      *)
LinesAfterIgnoring(form, lines, had, now, row) ==
  IF lines # NoItems THEN lines
  ELSE IF had = <<>> THEN <<TrackOf(row)>>
  ELSE now

(* The lines of an edited product; had is what the copy was read with,     *)
(* now what is stored.                                                     *)
LinesAfter(form, lines, had, now, row) ==
  IF lines # NoItems THEN lines
  ELSE IF UpdatesLegacy(form) THEN WithFirst(now, TrackOf(row))
  ELSE IF had = <<>> THEN <<TrackOf(row)>>
  ELSE now

(* update: Model.save inserts a product that was deleted meanwhile, and    *)
(* fails on a code or a family.                                            *)
SaveProduct(t) ==
  LET p == at[t].product
      row == at[t].row
      now == IF p \in DOMAIN items THEN items[p] ELSE <<>>
  IN  /\ At(t, "save")
      /\ Unlocked(t, p, CodesOf(row), None)
      /\ IF ~Clash(Committed, p, row) /\ row.category \in families \cup {None}
         THEN /\ products' = Put(products, p, row)
              /\ items' = Put(items, p, LinesAfter(at[t].form, at[t].lines, at[t].had, now, row))
         ELSE UNCHANGED <<products, items>>
      /\ Goto(t, Idle)
      /\ UNCHANGED <<balances, families, issued, used, edits, moves, due>>

(* One product or several: their lines and rows of stock go with them;     *)
(* movements and documents protect them all.                               *)
DeleteProducts(t, ids) ==
  /\ edits < MaxEdits /\ edits' = edits + 1
  /\ ids # {} /\ ids \subseteq DOMAIN products \ used
  /\ \A p \in ids : Unlocked(t, p, {}, None)
  /\ products' = Without(products, ids) /\ items' = Without(items, ids)
  /\ balances' = Without(balances, ids) /\ due' = Without(due, ids)
  /\ UNCHANGED <<families, issued, used, at, moves>>

-----------------------------------------------------------------------------
(* CategoryListCreateView, CategoryDetailEditDeleteView                    *)

AddFamily(t, c) ==
  /\ c \notin families /\ Unlocked(t, 0, {}, c)
  /\ families' = families \cup {c}
  /\ UNCHANGED <<products, items, balances, issued, used, at, edits, moves, due>>

(* Its products protect it, those of an import that has not committed too. *)
DeleteFamily(t, c) ==
  /\ c \in families
  /\ \A p \in DOMAIN products : products[p].category # c
  /\ \A d \in Held(t) : \A p \in DOMAIN d.products : d.products[p].category # c
  /\ families' = families \ {c}
  /\ UNCHANGED <<products, items, balances, issued, used, at, edits, moves, due>>

-----------------------------------------------------------------------------
(* The rows of stock                                                       *)

(* StockBalanceListCreateView.post                                         *)
OpenBalance(t, p, quantity, min) ==
  /\ edits < MaxEdits /\ edits' = edits + 1
  /\ p \in DOMAIN products \ DOMAIN balances /\ Unlocked(t, p, {}, None)
  /\ balances' = Put(balances, p, [quantity |-> quantity, min |-> min])
  /\ due' = Put(due, p, quantity)
  /\ UNCHANGED <<products, items, families, issued, used, at, moves>>

(* StockBalanceDetailEditDeleteView.delete, BulkDeleteStockBalancesView    *)
DeleteBalances(t, ids) ==
  /\ edits < MaxEdits /\ edits' = edits + 1
  /\ ids # {} /\ ids \subseteq DOMAIN balances
  /\ \A d \in Held(t) : ids \cap DOMAIN d.balances = {}
  /\ balances' = Without(balances, ids) /\ due' = Without(due, ids)
  /\ UNCHANGED <<products, items, families, issued, used, at, moves>>

(* A movement; get_locked_balance opens the row at zero.                   *)
Move(t, p, d) ==
  LET row == IF p \in DOMAIN balances THEN balances[p]
             ELSE [quantity |-> 0, min |-> products[p].alert]
  IN  /\ moves < MaxMoves /\ moves' = moves + 1
      /\ p \in DOMAIN products /\ Unlocked(t, p, {}, None)
      /\ balances' = Put(balances, p, [row EXCEPT !.quantity = @ + d])
      /\ due' = Put(due, p, (IF p \in DOMAIN due THEN due[p] ELSE 0) + d)
      /\ used' = used \cup {p}
      /\ UNCHANGED <<products, items, families, issued, at, edits>>

-----------------------------------------------------------------------------
Anyone == None  \* a request of one transaction, which holds nothing

Workbooks(t) ==
  \/ \E file \in Files : BeginImport(t, file)
  \/ ImportRow(t) \/ Commit(t) \/ Abort(t)

ProductDesk ==
  \/ \E form \in Forms, lines \in Lines : Create(Anyone, form, lines)
  \/ \E t \in Slots, p \in DOMAIN products, form \in Forms, lines \in Lines :
       FetchProduct(t, p, form, lines)
  \/ \E t \in Slots : SaveProduct(t)
  \/ \E ids \in SUBSET DOMAIN products : DeleteProducts(Anyone, ids)

FamilyDesk == \E c \in Families : AddFamily(Anyone, c) \/ DeleteFamily(Anyone, c)

StockDesk ==
  \/ \E p \in DOMAIN products :
       \/ \E min \in {None, 1} : OpenBalance(Anyone, p, 1, min)
       \/ \E d \in {-1, 1} : Move(Anyone, p, d)
  \/ \E ids \in SUBSET DOMAIN balances : DeleteBalances(Anyone, ids)

Next ==
  \/ \E t \in Slots : Workbooks(t)
  \/ ProductDesk \/ FamilyDesk \/ StockDesk

Spec == Init /\ [][Next]_vars

-----------------------------------------------------------------------------
(* Properties                                                              *)

(* Types; two products never share a reference or a barcode, whatever      *)
(* imports and old copies are saved at once; a product's family exists     *)
(* though families are deleted meanwhile; stock and lines are a product's. *)
TypeOK ==
  /\ DOMAIN products \subseteq 1..issued /\ issued \in 0..MaxProducts
  /\ \A p \in DOMAIN products :
       /\ products[p] \in Product /\ products[p].category \in families \cup {None}
       /\ \A q \in DOMAIN products \ {p} :
            /\ products[p].reference # None => products[p].reference # products[q].reference
            /\ products[p].barcode # None => products[p].barcode # products[q].barcode
  /\ DOMAIN items = DOMAIN products /\ DOMAIN balances \subseteq DOMAIN products
  /\ \A p \in DOMAIN items : items[p] \in Seq(Track)
  /\ \A p \in DOMAIN balances : balances[p] \in [quantity : Int, min : Alerts \cup {None}]
  /\ families \subseteq Families /\ used \subseteq DOMAIN products

Mirrors(p) == items[p] # <<>> /\ items[p][1] = TrackOf(products[p])

(* A product's own tracking columns are those of its first line, which the *)
(* tills and the reports read instead: of all steps only the save of a     *)
(* copy that is no longer the stored row can part them.                    *)
MirrorsFirst ==
  [][\A p \in DOMAIN products' :
       (p \in DOMAIN products => Mirrors(p)) /\ ~Mirrors(p)' =>
         \E t \in Slots :
           /\ At(t, "save") /\ at[t].product = p /\ at'[t] = Idle
           /\ p \notin DOMAIN products \/ products[p] # at[t].read]_vars

(* The opening stock of a workbook is counted once: a row of stock holds   *)
(* what it was opened with and the movements since, however often, and in  *)
(* whatever order with movements, its product is imported.                 *)
StockIsAccounted ==
  /\ DOMAIN due = DOMAIN balances
  /\ \A p \in DOMAIN balances : balances[p].quantity = due[p]

(* The tables after a row of a workbook that is imported alone, from any   *)
(* of dbs that does not refuse it; then after all its rows, one after the  *)
(* other: none where it is refused.                                        *)
NewKey(db) == Cardinality(DOMAIN db.products) + issued + 1

AfterRow(dbs, row) ==
  IF Skips(row) THEN dbs
  ELSE {Merge(Written(db, row, NewKey(db)), db) :
          db \in {x \in dbs : ~Refuses(x, row, NewKey(x))}}

After(db, file) ==
  LET dbs[i \in 0..Len(file)] ==
        IF i = 0 THEN {db} ELSE AfterRow(dbs[i - 1], file[i])
  IN  dbs[Len(file)]

(* A workbook whose rows all bear a reference may be sent again, after an  *)
(* answer that was lost: the second time it changes nothing.               *)
ImportAgainChangesNothing ==
  \A file \in Files :
    (\A i \in DOMAIN file : file[i].reference # None \/ Skips(file[i])) =>
      \A once \in After(Committed, file) : After(once, file) = {once}
=============================================================================
