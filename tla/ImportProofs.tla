------------------------------ MODULE ImportProofs ------------------------------
(***************************************************************************)
(* Proofs about the two components that take workbooks: Catalogue, for any *)
(* products, workbooks, forms and requests at once, and Attendance, for    *)
(* any stores, names, days, sheets and desks.                              *)
(*                                                                         *)
(* The catalogue: an import that wrote a product holds it, so whoever else *)
(* saves, moves or deletes does so to other rows, and what the import will *)
(* commit agrees with the tables as they are (Accounted, Firsts, Sound).   *)
(* What a workbook brought is found again by a second import, row by row   *)
(* (Brought, Again).                                                       *)
(*                                                                         *)
(* The attendance: an employee who never changed stores is in the store of *)
(* her records; a day is recorded once in a store; what an import inserts  *)
(* is neither there nor inserted by another, what it updates stays, and    *)
(* every row it read is in what it will write (AttendanceInv).             *)
(***************************************************************************)
EXTENDS Catalogue, Attendance, SequenceTheorems, FiniteSetTheorems, TLAPS

(* Tables written over one another.                                        *)
LEMMA OverFacts ==
  ASSUME NEW f, NEW g
  PROVE  /\ DOMAIN Over(f, g) = DOMAIN f \cup DOMAIN g
         /\ \A x \in DOMAIN f : Over(f, g)[x] = f[x]
         /\ \A x \in DOMAIN g \ DOMAIN f : Over(f, g)[x] = g[x]
BY DEF Over

LEMMA PutFacts ==
  ASSUME NEW f, NEW p, NEW row
  PROVE  /\ DOMAIN Put(f, p, row) = DOMAIN f \cup {p}
         /\ Put(f, p, row)[p] = row
         /\ \A x \in DOMAIN f \ {p} : Put(f, p, row)[x] = f[x]
BY DEF Put, One, Over

LEMMA WithoutFacts ==
  ASSUME NEW f, NEW ids
  PROVE  /\ DOMAIN Without(f, ids) = DOMAIN f \ ids
         /\ \A x \in DOMAIN f \ ids : Without(f, ids)[x] = f[x]
BY DEF Without

LEMMA Outlines == \A row \in Product : TrackOf(row) \in Track
BY DEF TrackOf, Product, Track

(* The first line of an updated product.                                   *)
LEMMA FirstOf ==
  ASSUME NEW lines \in Seq(Track), NEW track \in Track
  PROVE  /\ WithFirst(lines, track) \in Seq(Track)
         /\ WithFirst(lines, track) # << >> /\ WithFirst(lines, track)[1] = track
<1>1. CASE lines = << >>
  BY <1>1 DEF WithFirst
<1>2. CASE lines # << >>
  <2>1. 1 \in 1..Len(lines)
    BY <1>2
  <2>2. WithFirst(lines, track) = [lines EXCEPT ![1] = track]
    BY <1>2 DEF WithFirst
  <2>3. [lines EXCEPT ![1] = track] \in Seq(Track) /\ Len([lines EXCEPT ![1] = track]) = Len(lines)
    BY <2>1, ExceptSeq
  <2>. QED
    BY <2>1, <2>2, <2>3
<1>. QED
  BY <1>1, <1>2

(* What a form makes of a product.                                         *)
LEMMA FormOver ==
  ASSUME NEW form, DOMAIN form \subseteq Columns, \A c \in DOMAIN form : form[c] \in Column[c],
         NEW row \in Product
  PROVE  Over(form, row) \in Product
<1>. DEFINE new == Over(form, row)
<1>1. \A c \in Columns : row[c] \in Column[c]
  BY DEF Product, Column, Columns
<1>2. DOMAIN row = Columns
  BY DEF Product, Columns
<1>3. DOMAIN new = Columns /\ \A c \in Columns : new[c] \in Column[c]
  BY <1>1, <1>2 DEF Over
<1>4. new = [c \in DOMAIN new |-> new[c]]
  BY DEF Over
<1>. HIDE DEF new
<1>5. new = [reference |-> new["reference"], barcode |-> new["barcode"], name |-> new["name"],
             category |-> new["category"], alert |-> new["alert"], requires |-> new["requires"]]
  BY <1>3, <1>4 DEF Columns
<1>6. new \in Product
  BY <1>3, <1>5 DEF Column, Columns, Product
<1>. QED
  BY <1>6 DEF new

LEMMA SentColumns ==
  ASSUME NEW form \in Forms, NEW lines \in Lines
  PROVE  /\ DOMAIN Sent(form, lines) \subseteq Columns
         /\ \A c \in DOMAIN Sent(form, lines) : Sent(form, lines)[c] \in Column[c]
         /\ lines # NoItems => lines \in Seq(Track) /\ lines # << >> /\ lines[1] \in Track
<1>1. lines # NoItems => lines \in Seq(Track) /\ lines # << >> /\ lines[1] \in Track
  BY CatalogueAssumption DEF CatalogueAssumption
<1>2. CASE lines = NoItems
  BY <1>1, <1>2, CatalogueAssumption DEF CatalogueAssumption, Sent
<1>3. CASE lines # NoItems
  <2>1. Sent(form, lines) = Over(TrackOf(lines[1]), form)
    BY <1>3 DEF Sent
  <2>2. DOMAIN form \subseteq Columns /\ \A c \in DOMAIN form : form[c] \in Column[c]
    BY CatalogueAssumption DEF CatalogueAssumption
  <2>3. /\ DOMAIN TrackOf(lines[1]) \subseteq Columns
        /\ \A c \in DOMAIN TrackOf(lines[1]) : TrackOf(lines[1])[c] \in Column[c]
    BY <1>1, <1>3 DEF TrackOf, Track, Columns, Column
  <2>4. /\ DOMAIN Over(TrackOf(lines[1]), form) \subseteq Columns
        /\ \A c \in DOMAIN Over(TrackOf(lines[1]), form) :
             Over(TrackOf(lines[1]), form)[c] \in Column[c]
    BY <2>2, <2>3 DEF Over
  <2>. QED
    BY <1>1, <2>1, <2>4
<1>. QED
  BY <1>2, <1>3

LEMMA SentOver ==
  ASSUME NEW form \in Forms, NEW lines \in Lines, NEW row \in Product
  PROVE  Over(Sent(form, lines), row) \in Product
BY SentColumns, FormOver

LEMMA FreshIsProduct ==
  ASSUME NEW form \in Forms, NEW lines \in Lines, Fresh(Sent(form, lines)).name # None
  PROVE  Fresh(Sent(form, lines)) \in Product
<1>. DEFINE sent == Sent(form, lines)
            new == Fresh(sent)
            blank == [reference |-> None, barcode |-> None, name |-> None, category |-> None,
                      alert |-> 0, requires |-> FALSE]
<1>1. DOMAIN sent \subseteq Columns /\ \A c \in DOMAIN sent : sent[c] \in Column[c]
  BY SentColumns
<1>2. new = Over(sent, blank)
  BY DEF Fresh
<1>3. DOMAIN blank = Columns
  BY DEF Columns
<1>4. new.name # None
  OBVIOUS
<1>. HIDE DEF sent, new
<1>5. "name" \in DOMAIN sent
  BY <1>2, <1>4 DEF Over
<1>. DEFINE B(c) == blank[c] \in Column[c]
<1>10. B("reference") /\ B("barcode") /\ B("category") /\ B("alert")
  BY DEF Columns, Column, Alerts
<1>11. B("requires")
  BY DEF Columns, Column
<1>12. \A c \in Columns \ {"name"} : blank[c] \in Column[c]
  BY <1>10, <1>11 DEF Columns
<1>6. DOMAIN new = Columns /\ \A c \in Columns : new[c] \in Column[c]
  BY <1>1, <1>2, <1>3, <1>5, <1>12 DEF Over
<1>7. new = [c \in DOMAIN new |-> new[c]]
  BY <1>2 DEF Over
<1>8. new = [reference |-> new["reference"], barcode |-> new["barcode"], name |-> new["name"],
             category |-> new["category"], alert |-> new["alert"], requires |-> new["requires"]]
  BY <1>6, <1>7 DEF Columns
<1>9. new \in Product
  BY <1>6, <1>8 DEF Column, Columns, Product
<1>. QED
  BY <1>9 DEF new, sent

(* A product that was sent lines has the tracking columns of the first.    *)
LEMMA TrackSent ==
  ASSUME NEW form \in Forms, NEW lines \in Lines \ {NoItems}, NEW row
  PROVE  TrackOf(Over(Sent(form, lines), row)) = lines[1]
<1>1. lines[1] \in Track
  BY SentColumns
<1>2. Sent(form, lines) = Over(TrackOf(lines[1]), form)
  BY DEF Sent
<1>. HIDE DEF Sent
<1>. DEFINE track == lines[1]
<1>3. track = [alert |-> track.alert, requires |-> track.requires]
  BY <1>1 DEF Track
<1>. HIDE DEF track
<1>4. /\ Over(Over(TrackOf(track), form), row).alert = track.alert
      /\ Over(Over(TrackOf(track), form), row).requires = track.requires
  BY <1>3 DEF Over, TrackOf
<1>5. TrackOf(Over(Over(TrackOf(track), form), row)) = track
  BY <1>3, <1>4 DEF TrackOf
<1>. QED
  BY <1>2, <1>5 DEF track

-----------------------------------------------------------------------------
(* Types.  Tables that fit together, with keys up to n.                    *)
BalanceRow == [quantity : Int, min : Alerts \cup {None}]

IsTables(db, n) ==
  /\ DOMAIN db.products \subseteq 1..n
  /\ DOMAIN db.items = DOMAIN db.products
  /\ DOMAIN db.balances \subseteq DOMAIN db.products
  /\ \A p \in DOMAIN db.products : db.products[p] \in Product /\ db.items[p] \in Seq(Track)
  /\ \A p \in DOMAIN db.balances : db.balances[p] \in BalanceRow
  /\ db.families \subseteq Families

(* The first lines of what an import writes are its products'.             *)
Firsts(db) ==
  \A p \in DOMAIN db.products :
    db.items[p] # << >> /\ db.items[p][1] = TrackOf(db.products[p])

IsImport(p, n) ==
  /\ p \in [op : {"import"}, file : Files, next : Nat \ {0}, draft : {p.draft}]
  /\ IsTables(p.draft, n) /\ Firsts(p.draft)

IsSave(p, n) ==
  /\ p \in [op : {"save"}, product : 1..n, read : Product, row : Product, had : Seq(Track),
            form : Forms, lines : Lines]
  /\ p.row = Over(Sent(p.form, p.lines), p.read)

IsPlace(p, n) == p = Idle \/ IsImport(p, n) \/ IsSave(p, n)

Typed ==
  /\ issued \in 0..MaxProducts
  /\ IsTables(Committed, issued)
  /\ used \subseteq DOMAIN products
  /\ DOMAIN at = Slots /\ \A t \in Slots : IsPlace(at[t], issued)

LEMMA CommittedTables ==
  /\ Committed.products = products /\ Committed.items = items
  /\ Committed.balances = balances /\ Committed.families = families
BY DEF Committed

LEMMA TablesFacts ==
  Typed =>
    /\ DOMAIN products \subseteq 1..issued /\ issued \in Nat
    /\ DOMAIN items = DOMAIN products /\ DOMAIN balances \subseteq DOMAIN products
    /\ \A p \in DOMAIN products : products[p] \in Product /\ items[p] \in Seq(Track)
    /\ \A p \in DOMAIN balances : balances[p] \in BalanceRow
    /\ families \subseteq Families
BY CatalogueAssumption DEF Typed, IsTables, Committed, CatalogueAssumption

(* By where it is, what a request has read or written.                     *)
LEMMA PlaceFields ==
  ASSUME Typed, NEW t \in Slots
  PROVE  /\ At(t, "import") => IsImport(at[t], issued)
         /\ At(t, "save") => IsSave(at[t], issued)
         /\ At(t, "idle") => at[t] = Idle
BY DEF Typed, IsPlace, IsImport, IsSave, At, Idle

LEMMA KeysGrow ==
  ASSUME NEW n \in Nat, NEW m \in Nat, n <= m, NEW db, IsTables(db, n)
  PROVE  IsTables(db, m)
<1>1. 1..n \subseteq 1..m
  OBVIOUS
<1>. QED
  BY <1>1 DEF IsTables

LEMMA PlacesRemain ==
  ASSUME NEW n \in Nat, NEW m \in Nat, n <= m, NEW p, IsPlace(p, n)
  PROVE  IsPlace(p, m)
<1>1. IsImport(p, n) => IsImport(p, m)
  BY KeysGrow DEF IsImport
<1>2. 1..n \subseteq 1..m
  OBVIOUS
<1>3. IsSave(p, n) => IsSave(p, m)
  BY <1>2 DEF IsSave
<1>. QED
  BY <1>1, <1>3 DEF IsPlace

LEMMA MergeTables ==
  ASSUME NEW n, NEW new, NEW old, IsTables(new, n), IsTables(old, n)
  PROVE  IsTables(Merge(new, old), n)
<1>. DEFINE m == Merge(new, old)
<1>1. /\ m.products = Over(new.products, old.products) /\ m.items = Over(new.items, old.items)
      /\ m.balances = Over(new.balances, old.balances)
      /\ m.families = new.families \cup old.families
  BY DEF Merge
<1>. HIDE DEF m
<1>2. /\ DOMAIN m.products = DOMAIN new.products \cup DOMAIN old.products
      /\ DOMAIN m.items = DOMAIN new.items \cup DOMAIN old.items
      /\ DOMAIN m.balances = DOMAIN new.balances \cup DOMAIN old.balances
  BY <1>1 DEF Over
<1>3. ASSUME NEW p \in DOMAIN m.products
      PROVE  m.products[p] \in Product /\ m.items[p] \in Seq(Track)
  <2>1. CASE p \in DOMAIN new.products
    BY <1>1, <1>2, <2>1 DEF IsTables, Over
  <2>2. CASE p \notin DOMAIN new.products
    BY <1>1, <1>2, <2>2 DEF IsTables, Over
  <2>. QED
    BY <2>1, <2>2
<1>4. ASSUME NEW p \in DOMAIN m.balances
      PROVE  m.balances[p] \in BalanceRow
  BY <1>1, <1>2 DEF IsTables, Over
<1>5. IsTables(m, n)
  BY <1>1, <1>2, <1>3, <1>4 DEF IsTables
<1>. QED
  BY <1>5 DEF m

LEMMA MergeFirsts ==
  ASSUME NEW n, NEW new, NEW old, IsTables(new, n), IsTables(old, n), Firsts(new), Firsts(old)
  PROVE  Firsts(Merge(new, old))
BY DEF Merge, Firsts, Over, IsTables

(* The rows of a workbook.                                                 *)
SheetRow == [reference : Codes \cup {None}, name : Names \cup {None},
             category : Families \cup {None}, alert : Alerts, stock : Nat]

(* What a row of a workbook writes over tables that fit together.          *)
LEMMA WrittenTables ==
  ASSUME NEW n \in Nat, NEW db, IsTables(db, n), NEW row \in SheetRow, ~Skips(row),
         NEW m \in Nat, n <= m, Target(db, row, n + 1) = n + 1 => m = n + 1
  PROVE  /\ IsTables(Written(db, row, n + 1), m) /\ Firsts(Written(db, row, n + 1))
         /\ DOMAIN Written(db, row, n + 1).products = {Target(db, row, n + 1)}
         /\ DOMAIN Written(db, row, n + 1).balances \subseteq {Target(db, row, n + 1)}
         /\ \A p \in DOMAIN Written(db, row, n + 1).balances \cap DOMAIN db.balances :
              Written(db, row, n + 1).balances[p].quantity = db.balances[p].quantity
<1>. DEFINE p == Target(db, row, n + 1)
            product == Filled(db, row, p)
            lines == IF p \in DOMAIN db.items THEN db.items[p] ELSE << >>
            w == Written(db, row, n + 1)
<1>1. p \in 1..m
  <2>1. p \in DOMAIN db.products \/ p = n + 1
    <3>1. Matches(db, row) \subseteq DOMAIN db.products
      BY DEF Matches
    <3>. QED
      BY <3>1 DEF Target
  <2>. QED
    BY <2>1 DEF IsTables
<1>2. product \in Product
  <2>. HIDE DEF p
  <2>1. row.name = None => row.reference \in Names
    BY CatalogueAssumption DEF Skips, SheetRow, CatalogueAssumption
  <2>. QED
    BY <2>1 DEF Filled, Product, SheetRow, IsTables
<1>3. lines \in Seq(Track) /\ TrackOf(product) \in Track
  BY <1>2, Outlines DEF IsTables
<1>4. StockOf(db, row, p) = Nothing \/ StockOf(db, row, p) = One(p, StockOf(db, row, p)[p])
  BY DEF StockOf, One
<1>5. /\ DOMAIN StockOf(db, row, p) \subseteq {p}
      /\ p \in DOMAIN StockOf(db, row, p) =>
           /\ StockOf(db, row, p)[p] \in BalanceRow
           /\ p \in DOMAIN db.balances => StockOf(db, row, p)[p].quantity = db.balances[p].quantity
  <2>. HIDE DEF p
  <2>1. CASE p \notin DOMAIN db.balances
    BY <2>1 DEF StockOf, One, BalanceRow, SheetRow
  <2>2. CASE p \in DOMAIN db.balances /\ db.balances[p].min = None
    <3>1. db.balances[p] \in BalanceRow
      BY <2>2 DEF IsTables
    <3>2. StockOf(db, row, p) = One(p, [db.balances[p] EXCEPT !.min = row.alert])
      BY <2>2 DEF StockOf
    <3>3. [db.balances[p] EXCEPT !.min = row.alert] \in BalanceRow
      BY <3>1 DEF BalanceRow, SheetRow
    <3>4. [db.balances[p] EXCEPT !.min = row.alert].quantity = db.balances[p].quantity
      BY <3>1 DEF BalanceRow
    <3>. QED
      BY <3>2, <3>3, <3>4 DEF One
  <2>3. CASE p \in DOMAIN db.balances /\ db.balances[p].min # None
    BY <2>3 DEF StockOf, Nothing
  <2>. QED
    BY <2>1, <2>2, <2>3
<1>6. /\ w.products = One(p, product)
      /\ w.items = One(p, WithFirst(lines, TrackOf(product)))
      /\ w.balances = StockOf(db, row, p)
      /\ w.families \subseteq Families
  <2>1. row.category \in Families \cup {None}
    BY DEF SheetRow
  <2>. QED
    BY <2>1 DEF Written
<1>7. /\ WithFirst(lines, TrackOf(product)) \in Seq(Track)
      /\ WithFirst(lines, TrackOf(product)) # << >>
      /\ WithFirst(lines, TrackOf(product))[1] = TrackOf(product)
  BY <1>3, FirstOf
<1>. HIDE DEF w, product, lines, p
<1>8. IsTables(w, m) /\ Firsts(w)
  BY <1>1, <1>2, <1>5, <1>6, <1>7 DEF IsTables, Firsts, One
<1>9. DOMAIN w.products = {p} /\ DOMAIN w.balances \subseteq {p}
  BY <1>5, <1>6 DEF One
<1>10. \A q \in DOMAIN w.balances \cap DOMAIN db.balances : w.balances[q].quantity = db.balances[q].quantity
  BY <1>5, <1>6
<1>. QED
  BY <1>8, <1>9, <1>10 DEF w, p

(* The steps of an import.                                                 *)
LEMMA ImportFields ==
  ASSUME Typed, NEW t \in Slots, At(t, "import")
  PROVE  /\ at[t].op = "import" /\ at[t].file \in Files /\ at[t].next \in Nat \ {0}
         /\ at[t] = [op |-> "import", file |-> at[t].file, next |-> at[t].next,
                     draft |-> at[t].draft]
         /\ IsTables(at[t].draft, issued) /\ Firsts(at[t].draft)
         /\ IsTables(Merge(at[t].draft, Committed), issued)
         /\ issued \in Nat
BY PlaceFields, MergeTables, TablesFacts DEF IsImport, Typed

LEMMA GoesTo ==
  ASSUME Typed, NEW t \in Slots, NEW p, Goto(t, p)
  PROVE  DOMAIN at' = Slots /\ at'[t] = p /\ \A s \in Slots \ {t} : at'[s] = at[s]
BY DEF Typed, Goto

LEMMA RowsOfSheets ==
  ASSUME NEW file \in Files, NEW i \in Nat \ {0}, i <= Len(file)
  PROVE  file[i] \in SheetRow
<1>1. file \in Seq(SheetRow)
  BY CatalogueAssumption DEF CatalogueAssumption, SheetRow
<1>. QED
  BY <1>1

(* The step of an import that writes: what its draft becomes.              *)
LEMMA ImportRowCases ==
  ASSUME Typed, NEW t \in Slots, ImportRow(t)
  PROVE  LET row == at[t].file[at[t].next]
             db == Merge(at[t].draft, Committed)
             p == Target(db, row, issued + 1)
             onwards(draft) == [op |-> "import", file |-> at[t].file, next |-> at[t].next + 1,
                                draft |-> draft]
         IN  /\ UNCHANGED <<tables, used, due>>
             /\ \/ issued' = issued /\ Goto(t, Idle)
                \/ issued' = issued /\ Goto(t, onwards(at[t].draft))
                \/ /\ ~Skips(row) /\ row \in SheetRow
                   /\ issued' = IF p = issued + 1 THEN issued + 1 ELSE issued
                   /\ issued' <= MaxProducts
                   /\ \A d \in Held(t) : p \notin DOMAIN d.products
                   /\ Goto(t, onwards(Merge(Written(db, row, issued + 1), at[t].draft)))
<1>. DEFINE row == at[t].file[at[t].next]
            db == Merge(at[t].draft, Committed)
            p == Target(db, row, issued + 1)
<1>1. At(t, "import") /\ at[t].next <= Len(at[t].file) /\ UNCHANGED <<tables, used, due>>
  BY DEF ImportRow
<1>2. row \in SheetRow
  BY <1>1, ImportFields, RowsOfSheets
<1>3. at[t] = [op |-> "import", file |-> at[t].file, next |-> at[t].next, draft |-> at[t].draft]
  BY <1>1, ImportFields
<1>4. ASSUME NEW draft
      PROVE  [at[t] EXCEPT !.next = @ + 1, !.draft = draft]
               = [op |-> "import", file |-> at[t].file, next |-> at[t].next + 1, draft |-> draft]
  <2>. DEFINE next == [at[t] EXCEPT !.next = @ + 1]
  <2>1. next = [op |-> "import", file |-> at[t].file, next |-> at[t].next + 1,
                draft |-> at[t].draft]
    BY <1>3
  <2>. HIDE DEF next
  <2>2. [next EXCEPT !.draft = draft]
          = [op |-> "import", file |-> at[t].file, next |-> at[t].next + 1, draft |-> draft]
    BY <2>1
  <2>. QED
    BY <2>2, Zenon DEF next
<1>5. [at[t] EXCEPT !.next = @ + 1]
        = [op |-> "import", file |-> at[t].file, next |-> at[t].next + 1, draft |-> at[t].draft]
  BY <1>3
<1>6. CASE Skips(row)
  BY <1>1, <1>5, <1>6 DEF ImportRow
<1>7. CASE ~Skips(row)
  <2>1. CASE Refuses(db, row, issued + 1)
    BY <1>1, <1>7, <2>1 DEF ImportRow
  <2>2. CASE ~Refuses(db, row, issued + 1)
    <3>1. /\ Unlocked(t, p, CodesOf(Filled(db, row, p)), row.category)
          /\ Goto(t, [at[t] EXCEPT !.next = @ + 1,
                                   !.draft = Merge(Written(db, row, issued + 1), @)])
          /\ issued' = IF p = issued + 1 THEN issued + 1 ELSE issued
          /\ issued' <= MaxProducts
      BY <1>7, <2>2 DEF ImportRow
    <3>2. \A d \in Held(t) : p \notin DOMAIN d.products
      BY <3>1 DEF Unlocked
    <3>3. Goto(t, [op |-> "import", file |-> at[t].file, next |-> at[t].next + 1,
                   draft |-> Merge(Written(db, row, issued + 1), at[t].draft)])
      BY <1>4, <3>1
    <3>. QED
      BY <1>1, <1>2, <1>7, <3>1, <3>2, <3>3
  <2>. QED
    BY <2>1, <2>2
<1>. QED
  BY <1>6, <1>7

LEMMA ImportRowTyped ==
  ASSUME Typed, NEW t \in Slots, ImportRow(t)
  PROVE  Typed'
<1>. DEFINE row == at[t].file[at[t].next]
            db == Merge(at[t].draft, Committed)
            p == Target(db, row, issued + 1)
            w == Written(db, row, issued + 1)
            onwards(draft) == [op |-> "import", file |-> at[t].file, next |-> at[t].next + 1,
                               draft |-> draft]
<1>1. At(t, "import") /\ UNCHANGED <<tables, used>>
  BY DEF ImportRow
<1>2. /\ at[t].file \in Files /\ at[t].next \in Nat \ {0}
      /\ IsTables(at[t].draft, issued) /\ Firsts(at[t].draft)
      /\ IsTables(db, issued) /\ issued \in Nat
  BY <1>1, ImportFields
<1>3. /\ issued' \in 0..MaxProducts /\ issued <= issued'
      /\ \E q : Goto(t, q) /\ IsPlace(q, issued')
  <2>1. CASE issued' = issued /\ Goto(t, Idle)
    BY <2>1 DEF Typed, IsPlace
  <2>2. CASE issued' = issued /\ Goto(t, onwards(at[t].draft))
    <3>1. IsImport(onwards(at[t].draft), issued)
      BY <1>2 DEF IsImport
    <3>. QED
      BY <1>2, <2>2, <3>1 DEF Typed, IsPlace
  <2>3. CASE /\ ~Skips(row) /\ row \in SheetRow
             /\ issued' = IF p = issued + 1 THEN issued + 1 ELSE issued
             /\ issued' <= MaxProducts
             /\ Goto(t, onwards(Merge(w, at[t].draft)))
    <3>1. issued' \in Nat /\ issued <= issued' /\ (p = issued + 1 => issued' = issued + 1)
          /\ issued' \in 0..MaxProducts
      BY <1>2, <2>3, CatalogueAssumption DEF CatalogueAssumption
    <3>2. IsTables(w, issued') /\ Firsts(w)
      BY <1>2, <2>3, <3>1, WrittenTables
    <3>3. IsTables(at[t].draft, issued')
      BY <1>2, <3>1, KeysGrow
    <3>. DEFINE draft == Merge(w, at[t].draft)
    <3>4. IsTables(draft, issued') /\ Firsts(draft)
      BY <1>2, <3>2, <3>3, MergeTables, MergeFirsts
    <3>. HIDE DEF draft
    <3>5. IsImport(onwards(draft), issued')
      BY <1>2, <3>4 DEF IsImport
    <3>. QED
      BY <2>3, <3>1, <3>5 DEF IsPlace, draft
  <2>. QED
    BY <2>1, <2>2, <2>3, ImportRowCases
<1>4. issued \in Nat /\ issued' \in Nat
  BY <1>2, <1>3
<1>5. IsTables(Committed, issued)'
  <2>1. IsTables(Committed, issued')
    BY <1>3, <1>4, KeysGrow DEF Typed
  <2>. QED
    BY <1>1, <2>1 DEF IsTables, Committed, tables
<1>6. DOMAIN at' = Slots /\ \A s \in Slots : IsPlace(at'[s], issued')
  <2>1. \A s \in Slots : IsPlace(at[s], issued')
    BY <1>3, <1>4, PlacesRemain DEF Typed
  <2>. QED
    BY <1>3, <2>1, GoesTo
<1>7. used' \subseteq DOMAIN products'
  BY <1>1 DEF Typed, tables
<1>. QED
  BY <1>3, <1>5, <1>6, <1>7 DEF Typed, IsPlace, IsImport, IsSave, IsTables

(* The other steps.                                                        *)
LEMMA TypedFrom ==
  ASSUME Typed, issued' \in 0..MaxProducts, issued <= issued', IsTables(Committed, issued)',
         used' \subseteq DOMAIN products',
         \/ at' = at
         \/ \E t \in Slots : \E p : Goto(t, p) /\ IsPlace(p, issued')
  PROVE  Typed'
<1>1. issued \in Nat /\ issued' \in Nat
  BY TablesFacts, CatalogueAssumption DEF CatalogueAssumption
<1>2. \A s \in Slots : IsPlace(at[s], issued')
  BY <1>1, PlacesRemain DEF Typed
<1>3. DOMAIN at' = Slots /\ \A s \in Slots : IsPlace(at'[s], issued')
  BY <1>2, GoesTo DEF Typed
<1>. QED
  BY <1>3 DEF Typed, IsPlace, IsImport, IsSave, IsTables

LEMMA SameTables == ASSUME Typed, UNCHANGED <<tables, issued, used>>
  PROVE  /\ issued' \in 0..MaxProducts /\ issued <= issued' /\ IsTables(Committed, issued)'
         /\ used' \subseteq DOMAIN products'
BY TablesFacts DEF Typed, IsTables, Committed, tables

LEMMA BlankTables == \A n : IsTables(Blank, n) /\ Firsts(Blank)
BY DEF IsTables, Firsts, Blank, Nothing

LEMMA ImportBeginsOrEndsTyped ==
  ASSUME Typed, NEW t \in Slots, NEW file \in Files, BeginImport(t, file) \/ Abort(t)
  PROVE  Typed'
<1>1. CASE BeginImport(t, file)
  <2>. DEFINE p == [op |-> "import", file |-> file, next |-> 1, draft |-> Blank]
  <2>1. IsPlace(p, issued')
    BY BlankTables DEF IsPlace, IsImport
  <2>2. Goto(t, p)
    BY <1>1 DEF BeginImport
  <2>. HIDE DEF p
  <2>. QED
    BY <1>1, <2>1, <2>2, SameTables, TypedFrom DEF BeginImport
<1>2. CASE Abort(t)
  BY <1>2, SameTables, TypedFrom DEF Abort, IsPlace
<1>. QED
  BY <1>1, <1>2

LEMMA CommitTyped ==
  ASSUME Typed, NEW t \in Slots, Commit(t)
  PROVE  Typed'
<1>. DEFINE db == Merge(at[t].draft, Committed)
<1>1. At(t, "import")
  BY DEF Commit
<1>2. IsTables(db, issued)
  BY <1>1, ImportFields
<1>3. /\ products' = db.products /\ items' = db.items /\ balances' = db.balances
      /\ families' = db.families /\ UNCHANGED <<issued, used>> /\ Goto(t, Idle)
  BY DEF Commit, Write
<1>4. DOMAIN products \subseteq DOMAIN db.products
  BY DEF Merge, Over, Committed
<1>. HIDE DEF db
<1>5. IsTables(Committed, issued)'
  BY <1>2, <1>3 DEF IsTables, Committed
<1>6. issued' \in 0..MaxProducts /\ issued <= issued' /\ used' \subseteq DOMAIN products'
  BY <1>3, <1>4, TablesFacts DEF Typed
<1>. QED
  BY <1>3, <1>5, <1>6, TypedFrom DEF IsPlace

LEMMA CreateTyped ==
  ASSUME Typed, NEW form \in Forms, NEW lines \in Lines, Create(Anyone, form, lines)
  PROVE  Typed'
<1>. DEFINE p == issued + 1
            row == Fresh(Sent(form, lines))
            track == IF lines = NoItems THEN <<TrackOf(row)>> ELSE lines
<1>1. row \in Product
  BY FreshIsProduct DEF Create
<1>2. track \in Seq(Track)
  BY <1>1, SentColumns, Outlines
<1>3. /\ products' = Put(products, p, row) /\ items' = Put(items, p, track)
      /\ p <= MaxProducts /\ issued' = p /\ UNCHANGED <<balances, families, used, at>>
  BY DEF Create
<1>. HIDE DEF row, track
<1>4. issued \in Nat /\ p \in 0..MaxProducts /\ p \in 1..p /\ 1..issued \subseteq 1..p
  BY <1>3, TablesFacts, CatalogueAssumption DEF CatalogueAssumption
<1>. HIDE DEF p
<1>5. IsTables(Committed, issued)'
  BY <1>1, <1>2, <1>3, <1>4, TablesFacts DEF IsTables, Committed, Put, One, Over
<1>6. used' \subseteq DOMAIN products'
  BY <1>3 DEF Typed, Put, One, Over
<1>7. issued <= issued'
  BY <1>3, <1>4 DEF p
<1>. QED
  BY <1>3, <1>4, <1>5, <1>6, <1>7, TypedFrom

LEMMA FetchProductTyped ==
  ASSUME Typed, NEW t \in Slots, NEW q \in DOMAIN products, NEW form \in Forms,
         NEW lines \in Lines, FetchProduct(t, q, form, lines)
  PROVE  Typed'
<1>. DEFINE row == Over(Sent(form, lines), products[q])
            p == [op |-> "save", product |-> q, read |-> products[q], row |-> row,
                  had |-> items[q], form |-> form, lines |-> lines]
<1>1. products[q] \in Product /\ items[q] \in Seq(Track) /\ q \in 1..issued
  BY TablesFacts
<1>2. row \in Product
  BY <1>1, SentOver
<1>3. Goto(t, p) /\ UNCHANGED <<tables, issued, used>>
  BY DEF FetchProduct
<1>4. p.row = Over(Sent(p.form, p.lines), p.read)
  OBVIOUS
<1>. HIDE DEF row
<1>5. IsSave(p, issued')
  BY <1>1, <1>2, <1>3, <1>4 DEF IsSave
<1>. HIDE DEF p
<1>. QED
  BY <1>3, <1>5, SameTables, TypedFrom DEF IsPlace

(* What the save of a product leaves in its tables.                        *)
LEMMA SaveProductCases ==
  ASSUME Typed, NEW t \in Slots, SaveProduct(t)
  PROVE  LET p == at[t].product
             row == at[t].row
             now == IF p \in DOMAIN items THEN items[p] ELSE << >>
             after == LinesAfter(at[t].form, at[t].lines, at[t].had, now, row)
         IN  /\ p \in 1..issued /\ row \in Product /\ after \in Seq(Track)
             /\ Goto(t, Idle) /\ UNCHANGED <<balances, families, issued, used, due>>
             /\ \/ UNCHANGED <<products, items>>
                \/ products' = Put(products, p, row) /\ items' = Put(items, p, after)
<1>. DEFINE p == at[t].product
            row == at[t].row
            now == IF p \in DOMAIN items THEN items[p] ELSE << >>
<1>1. IsSave(at[t], issued)
  BY PlaceFields DEF SaveProduct
<1>2. /\ p \in 1..issued /\ row \in Product /\ at[t].lines \in Lines /\ at[t].form \in Forms
  BY <1>1 DEF IsSave
<1>3. now \in Seq(Track)
  BY TablesFacts
<1>4. TrackOf(row) \in Track
  BY <1>2, Outlines
<1>. HIDE DEF now
<1>5. LinesAfter(at[t].form, at[t].lines, at[t].had, now, row) \in Seq(Track)
  <2>1. at[t].lines # NoItems => at[t].lines \in Seq(Track)
    BY <1>2, SentColumns
  <2>2. WithFirst(now, TrackOf(row)) \in Seq(Track)
    BY <1>3, <1>4, FirstOf
  <2>3. <<TrackOf(row)>> \in Seq(Track)
    BY <1>4
  <2>. QED
    BY <1>3, <2>1, <2>2, <2>3 DEF LinesAfter
<1>. QED
  BY <1>2, <1>5 DEF SaveProduct, now

LEMMA SaveProductTyped ==
  ASSUME Typed, NEW t \in Slots, SaveProduct(t)
  PROVE  Typed'
<1>. DEFINE p == at[t].product
            row == at[t].row
            now == IF p \in DOMAIN items THEN items[p] ELSE << >>
            after == LinesAfter(at[t].form, at[t].lines, at[t].had, now, row)
<1>1. /\ p \in 1..issued /\ row \in Product /\ after \in Seq(Track)
      /\ Goto(t, Idle) /\ UNCHANGED <<balances, families, issued, used>>
      /\ \/ UNCHANGED <<products, items>>
         \/ products' = Put(products, p, row) /\ items' = Put(items, p, after)
  BY SaveProductCases
<1>. HIDE DEF p, row, after
<1>2. IsTables(Committed, issued)' /\ DOMAIN products \subseteq DOMAIN products'
  BY <1>1, TablesFacts DEF IsTables, Committed, Put, One, Over
<1>3. issued' \in 0..MaxProducts /\ issued <= issued' /\ used' \subseteq DOMAIN products'
  BY <1>1, <1>2, TablesFacts DEF Typed
<1>. QED
  BY <1>1, <1>2, <1>3, TypedFrom DEF IsPlace

LEMMA DeletesTyped ==
  ASSUME Typed, NEW ids,
         \/ DeleteProducts(Anyone, ids) \/ DeleteBalances(Anyone, ids)
  PROVE  Typed'
<1>1. UNCHANGED <<families, issued, used, at>>
  BY DEF DeleteProducts, DeleteBalances
<1>2. IsTables(Committed, issued)' /\ used' \subseteq DOMAIN products'
  <2>1. CASE DeleteProducts(Anyone, ids)
    BY <2>1, TablesFacts DEF DeleteProducts, Typed, IsTables, Committed, Without
  <2>2. CASE DeleteBalances(Anyone, ids)
    BY <2>2, TablesFacts DEF DeleteBalances, Typed, IsTables, Committed, Without
  <2>. QED
    BY <2>1, <2>2
<1>3. issued' \in 0..MaxProducts /\ issued <= issued'
  BY <1>1, TablesFacts DEF Typed
<1>. QED
  BY <1>1, <1>2, <1>3, TypedFrom

LEMMA FamiliesTyped ==
  ASSUME Typed, NEW c \in Families, AddFamily(Anyone, c) \/ DeleteFamily(Anyone, c)
  PROVE  Typed'
<1>1. UNCHANGED <<products, items, balances, issued, used, at>> /\ families' \subseteq Families
  BY TablesFacts DEF AddFamily, DeleteFamily
<1>2. IsTables(Committed, issued)' /\ used' \subseteq DOMAIN products'
  BY <1>1, TablesFacts DEF Typed, IsTables, Committed
<1>3. issued' \in 0..MaxProducts /\ issued <= issued'
  BY <1>1, TablesFacts DEF Typed
<1>. QED
  BY <1>1, <1>2, <1>3, TypedFrom

(* The row of stock of a product, as it is or as it would be opened.       *)
LEMMA StockTyped ==
  ASSUME Typed, NEW p \in DOMAIN products, NEW min \in {None, 1}, NEW d \in {-1, 1},
         OpenBalance(Anyone, p, 1, min) \/ Move(Anyone, p, d)
  PROVE  Typed'
<1>1. UNCHANGED <<products, items, families, issued, at>> /\ used' \subseteq DOMAIN products
  BY DEF OpenBalance, Move, Typed
<1>2. \E row \in BalanceRow : balances' = Put(balances, p, row)
  <2>1. CASE OpenBalance(Anyone, p, 1, min)
    BY <2>1 DEF OpenBalance, BalanceRow, Alerts
  <2>2. CASE Move(Anyone, p, d)
    <3>. DEFINE row == IF p \in DOMAIN balances THEN balances[p]
                       ELSE [quantity |-> 0, min |-> products[p].alert]
    <3>1. row \in BalanceRow
      BY TablesFacts DEF BalanceRow, Product
    <3>2. balances' = Put(balances, p, [row EXCEPT !.quantity = @ + d])
      BY <2>2 DEF Move
    <3>. HIDE DEF row
    <3>3. [row EXCEPT !.quantity = @ + d] \in BalanceRow
      BY <3>1 DEF BalanceRow
    <3>. QED
      BY <3>2, <3>3
  <2>. QED
    BY <2>1, <2>2
<1>3. IsTables(Committed, issued)' /\ used' \subseteq DOMAIN products'
  BY <1>1, <1>2, TablesFacts DEF IsTables, Committed, Put, One, Over
<1>4. issued' \in 0..MaxProducts /\ issued <= issued'
  BY <1>1, TablesFacts DEF Typed
<1>. QED
  BY <1>1, <1>3, <1>4, TypedFrom

LEMMA NextCases ==
  ASSUME Next
  PROVE  \/ \E t \in Slots, file \in Files : BeginImport(t, file)
         \/ \E t \in Slots : ImportRow(t) \/ Commit(t) \/ Abort(t) \/ SaveProduct(t)
         \/ \E form \in Forms, lines \in Lines : Create(Anyone, form, lines)
         \/ \E t \in Slots, p \in DOMAIN products, form \in Forms, lines \in Lines :
              FetchProduct(t, p, form, lines)
         \/ \E ids \in SUBSET DOMAIN products : DeleteProducts(Anyone, ids)
         \/ \E c \in Families : AddFamily(Anyone, c) \/ DeleteFamily(Anyone, c)
         \/ \E p \in DOMAIN products, min \in {None, 1}, d \in {-1, 1} :
              OpenBalance(Anyone, p, 1, min) \/ Move(Anyone, p, d)
         \/ \E ids \in SUBSET DOMAIN balances : DeleteBalances(Anyone, ids)
<1>1. CASE \E t \in Slots : Workbooks(t)
  BY <1>1 DEF Workbooks
<1>2. CASE ProductDesk
  BY <1>2 DEF ProductDesk
<1>3. CASE FamilyDesk
  BY <1>3 DEF FamilyDesk
<1>4. CASE StockDesk
  BY <1>4 DEF StockDesk
<1>. QED
  BY <1>1, <1>2, <1>3, <1>4 DEF Next

LEMMA TypedStep ==
  ASSUME Typed, [Next]_vars
  PROVE  Typed'
<1>1. CASE UNCHANGED vars
  BY <1>1, SameTables, TypedFrom DEF vars
<1>2. CASE Next
  <2>1. ASSUME NEW t \in Slots, Abort(t) PROVE Typed'
    BY <2>1, SameTables, TypedFrom DEF Abort, IsPlace
  <2>. QED
    BY <1>2, <2>1, NextCases, ImportBeginsOrEndsTyped, ImportRowTyped, CommitTyped,
       SaveProductTyped, CreateTyped, FetchProductTyped, DeletesTyped, FamiliesTyped, StockTyped
<1>. QED
  BY <1>1, <1>2

LEMMA TypedAtFirst == Init => Typed
<1> SUFFICES ASSUME Init PROVE Typed
  OBVIOUS
<1>1. IsTables(Committed, issued)
  BY DEF Init, IsTables, Committed, Nothing
<1>. QED
  BY <1>1, CatalogueAssumption DEF Init, Typed, IsPlace, Nothing, CatalogueAssumption

-----------------------------------------------------------------------------
(* The opening stock.  An import that read a row of stock, or opened one,  *)
(* holds its quantity: nobody moves it before the import commits, and no   *)
(* two imports write the same product.                                     *)
DraftsFollow ==
  \A t \in Slots : At(t, "import") =>
    \A p \in DOMAIN at[t].draft.balances \cap DOMAIN balances :
      at[t].draft.balances[p].quantity = balances[p].quantity

DraftsApart ==
  \A s, t \in Slots : At(s, "import") /\ At(t, "import") /\ s # t =>
    DOMAIN at[s].draft.products \cap DOMAIN at[t].draft.products = {}

Accounted == Typed /\ StockIsAccounted /\ DraftsFollow /\ DraftsApart

LEMMA HeldDrafts ==
  \A t : \A s \in Slots \ {t} : At(s, "import") => at[s].draft \in Held(t)
BY DEF Held

LEMMA AnyoneHoldsNothing == Anyone \notin Slots
BY CatalogueAssumption DEF Anyone, CatalogueAssumption

(* Steps of requests of one transaction leave the drafts where they are,   *)
(* and the rows of stock in them.                                          *)
LEMMA DeskAccounted ==
  ASSUME Accounted, Typed', at' = at, StockIsAccounted',
         \A p : (\E t \in Slots : At(t, "import") /\ p \in DOMAIN at[t].draft.balances) =>
           /\ p \in DOMAIN balances' => p \in DOMAIN balances
           /\ p \in DOMAIN balances' => balances'[p].quantity = balances[p].quantity
  PROVE  Accounted'
<1>1. DraftsFollow'
  BY DEF Accounted, DraftsFollow, At
<1>2. DraftsApart'
  BY DEF Accounted, DraftsApart, At
<1>. QED
  BY <1>1, <1>2 DEF Accounted

(* A request that opens or ends, or goes on with nothing more written.     *)
LEMMA SameDraft ==
  ASSUME Accounted, Typed', UNCHANGED <<balances, due>>, NEW t \in Slots, NEW p, Goto(t, p),
         p.op = "import" =>
           \/ DOMAIN p.draft.products = {} /\ DOMAIN p.draft.balances = {}
           \/ At(t, "import") /\ p.draft = at[t].draft
  PROVE  Accounted'
<1>1. at'[t] = p /\ \A s \in Slots \ {t} : at'[s] = at[s]
  BY GoesTo DEF Accounted
<1>2. \A s \in Slots : At(s, "import")' =>
        \/ DOMAIN at'[s].draft.products = {} /\ DOMAIN at'[s].draft.balances = {}
        \/ At(s, "import") /\ at'[s].draft = at[s].draft
  BY <1>1 DEF At
<1>3. DraftsFollow'
  BY <1>2 DEF Accounted, DraftsFollow
<1>4. DraftsApart'
  BY <1>2 DEF Accounted, DraftsApart
<1>. QED
  BY <1>3, <1>4 DEF Accounted, StockIsAccounted

LEMMA ImportRowAccounted ==
  ASSUME Accounted, Typed', NEW t \in Slots, ImportRow(t)
  PROVE  Accounted'
<1>. DEFINE row == at[t].file[at[t].next]
            db == Merge(at[t].draft, Committed)
            p == Target(db, row, issued + 1)
            w == Written(db, row, issued + 1)
            onwards(draft) == [op |-> "import", file |-> at[t].file, next |-> at[t].next + 1,
                               draft |-> draft]
<1>1. At(t, "import") /\ UNCHANGED <<balances, due>>
  BY DEF ImportRow, tables
<1>2. CASE Goto(t, Idle)
  BY <1>1, <1>2, SameDraft DEF Accounted, Idle
<1>3. CASE Goto(t, onwards(at[t].draft))
  <2>. DEFINE place == onwards(at[t].draft)
  <2>1. place.draft = at[t].draft /\ Goto(t, place)
    BY <1>3
  <2>. HIDE DEF place
  <2>. QED
    BY <1>1, <2>1, SameDraft
<1>4. CASE /\ ~Skips(row) /\ row \in SheetRow
           /\ issued' = IF p = issued + 1 THEN issued + 1 ELSE issued
           /\ \A d \in Held(t) : p \notin DOMAIN d.products
           /\ Goto(t, onwards(Merge(w, at[t].draft)))
  <2>. DEFINE draft == Merge(w, at[t].draft)
  <2>1. IsTables(db, issued) /\ IsTables(at[t].draft, issued) /\ issued \in Nat
    BY <1>1, ImportFields DEF Accounted
  <2>2. issued' \in Nat /\ issued <= issued' /\ (p = issued + 1 => issued' = issued + 1)
    BY <1>4, <2>1
  <2>3. /\ DOMAIN w.products = {p} /\ DOMAIN w.balances \subseteq {p}
        /\ \A q \in DOMAIN w.balances \cap DOMAIN db.balances :
             w.balances[q].quantity = db.balances[q].quantity
    BY <1>4, <2>1, <2>2, WrittenTables
  <2>4. /\ DOMAIN draft.products = {p} \cup DOMAIN at[t].draft.products
        /\ DOMAIN draft.balances = DOMAIN w.balances \cup DOMAIN at[t].draft.balances
        /\ \A q \in DOMAIN w.balances : draft.balances[q] = w.balances[q]
        /\ \A q \in DOMAIN at[t].draft.balances \ DOMAIN w.balances :
             draft.balances[q] = at[t].draft.balances[q]
    BY <2>3 DEF Merge, Over
  <2>5. /\ DOMAIN db.balances = DOMAIN at[t].draft.balances \cup DOMAIN balances
        /\ \A q \in DOMAIN at[t].draft.balances : db.balances[q] = at[t].draft.balances[q]
        /\ \A q \in DOMAIN balances \ DOMAIN at[t].draft.balances : db.balances[q] = balances[q]
    BY DEF Merge, Over, Committed
  <2>6. at'[t].op = "import" /\ at'[t].draft = draft /\ \A s \in Slots \ {t} : at'[s] = at[s]
    <3>. HIDE DEF draft
    <3>1. Goto(t, onwards(draft))
      BY <1>4 DEF draft
    <3>2. at'[t] = onwards(draft) /\ \A s \in Slots \ {t} : at'[s] = at[s]
      BY <3>1, GoesTo DEF Accounted
    <3>. QED
      BY <3>2
  <2>. HIDE DEF draft, w, db, p
  <2>7. \A q \in DOMAIN draft.balances \cap DOMAIN balances :
          draft.balances[q].quantity = balances[q].quantity
    <3> SUFFICES ASSUME NEW q \in DOMAIN draft.balances \cap DOMAIN balances
        PROVE  draft.balances[q].quantity = balances[q].quantity
      OBVIOUS
    <3>1. q \in DOMAIN at[t].draft.balances =>
            at[t].draft.balances[q].quantity = balances[q].quantity
      BY <1>1 DEF Accounted, DraftsFollow
    <3>. QED
      BY <2>3, <2>4, <2>5, <3>1
  <2>8. DraftsFollow'
    BY <1>1, <2>6, <2>7 DEF Accounted, DraftsFollow, At
  <2>9. \A s \in Slots \ {t} : At(s, "import") => p \notin DOMAIN at[s].draft.products
    BY <1>4, HeldDrafts DEF p, db
  <2>10. DraftsApart'
    BY <1>1, <2>4, <2>6, <2>9 DEF Accounted, DraftsApart, At
  <2>. QED
    BY <1>1, <2>8, <2>10 DEF Accounted, StockIsAccounted
<1>. QED
  BY <1>2, <1>3, <1>4, ImportRowCases DEF Accounted

LEMMA CommitAccounted ==
  ASSUME Accounted, Typed', NEW t \in Slots, Commit(t)
  PROVE  Accounted'
<1>. DEFINE draft == at[t].draft
<1>1. At(t, "import") /\ IsTables(draft, issued)
  BY ImportFields DEF Commit, Accounted
<1>2. /\ balances' = Over(draft.balances, balances)
      /\ due' = Over(due, [p \in DOMAIN draft.balances |-> draft.balances[p].quantity])
      /\ Goto(t, Idle)
  BY DEF Commit, Write, Merge, Committed
<1>3. \A p \in DOMAIN draft.balances \cap DOMAIN balances :
        draft.balances[p].quantity = balances[p].quantity
  BY <1>1 DEF Accounted, DraftsFollow
<1>4. at'[t] = Idle /\ \A s \in Slots \ {t} : at'[s] = at[s]
  BY <1>2, GoesTo DEF Accounted
<1>5. \A s \in Slots : At(s, "import")' => s # t /\ At(s, "import") /\ at'[s] = at[s]
  BY <1>4 DEF At, Idle
<1>6. \A s \in Slots : At(s, "import")' =>
        DOMAIN at[s].draft.balances \cap DOMAIN draft.balances = {}
  <2>1. \A s \in Slots : At(s, "import") => IsTables(at[s].draft, issued)
    BY ImportFields DEF Accounted
  <2>. QED
    BY <1>1, <1>5, <2>1 DEF Accounted, DraftsApart, IsTables
<1>. HIDE DEF draft
<1>7. StockIsAccounted'
  BY <1>2, <1>3 DEF Accounted, StockIsAccounted, Over
<1>8. DraftsFollow'
  BY <1>2, <1>5, <1>6 DEF Accounted, DraftsFollow, Over
<1>9. DraftsApart'
  BY <1>5 DEF Accounted, DraftsApart
<1>. QED
  BY <1>7, <1>8, <1>9 DEF Accounted

(* What a request writes of a product no import under way has written.     *)
LEMMA Untouched ==
  ASSUME Accounted, NEW p, NEW codes, NEW c, Unlocked(Anyone, p, codes, c)
  PROVE  \A t \in Slots : At(t, "import") => p \notin DOMAIN at[t].draft.balances
<1>1. \A t \in Slots : At(t, "import") =>
        at[t].draft \in Held(Anyone) /\ IsTables(at[t].draft, issued)
  BY HeldDrafts, AnyoneHoldsNothing, ImportFields DEF Accounted
<1>. QED
  BY <1>1 DEF Unlocked, IsTables

LEMMA StockAccounted ==
  ASSUME Accounted, Typed', NEW p \in DOMAIN products, NEW min, NEW d \in {-1, 1},
         OpenBalance(Anyone, p, 1, min) \/ Move(Anyone, p, d)
  PROVE  Accounted'
<1>1. at' = at /\ Unlocked(Anyone, p, {}, None)
  BY DEF OpenBalance, Move
<1>2. \E row, q : /\ balances' = Put(balances, p, row) /\ due' = Put(due, p, q)
                  /\ row.quantity = q
  <2>1. CASE OpenBalance(Anyone, p, 1, min)
    <3>. DEFINE row == [quantity |-> 1, min |-> min]
    <3>1. balances' = Put(balances, p, row) /\ due' = Put(due, p, 1) /\ row.quantity = 1
      BY <2>1 DEF OpenBalance
    <3>. QED
      BY <3>1
  <2>2. CASE Move(Anyone, p, d)
    <3>. DEFINE row == IF p \in DOMAIN balances THEN balances[p]
                       ELSE [quantity |-> 0, min |-> products[p].alert]
                q == IF p \in DOMAIN due THEN due[p] ELSE 0
    <3>1. /\ balances' = Put(balances, p, [row EXCEPT !.quantity = @ + d])
          /\ due' = Put(due, p, q + d)
      BY <2>2 DEF Move
    <3>2. row.quantity = q /\ row \in BalanceRow
      <4>1. p \in DOMAIN balances => balances[p] \in BalanceRow
        BY TablesFacts DEF Accounted
      <4>2. p \notin DOMAIN balances => row \in BalanceRow
        BY TablesFacts DEF Accounted, BalanceRow, Product
      <4>. QED
        BY <4>1, <4>2 DEF Accounted, StockIsAccounted
    <3>. HIDE DEF row, q
    <3>3. [row EXCEPT !.quantity = @ + d].quantity = q + d
      BY <3>2 DEF BalanceRow
    <3>. QED
      BY <3>1, <3>3
  <2>. QED
    BY <2>1, <2>2
<1>3. StockIsAccounted'
  BY <1>2 DEF Accounted, StockIsAccounted, Put, One, Over
<1>4. \A q \in DOMAIN balances' \ {p} : q \in DOMAIN balances /\ balances'[q] = balances[q]
  BY <1>2 DEF Put, One, Over
<1>. QED
  BY <1>1, <1>3, <1>4, Untouched, DeskAccounted

LEMMA DeletesAccounted ==
  ASSUME Accounted, Typed', NEW ids,
         DeleteProducts(Anyone, ids) \/ DeleteBalances(Anyone, ids)
  PROVE  Accounted'
<1>1. at' = at /\ balances' = Without(balances, ids) /\ due' = Without(due, ids)
  BY DEF DeleteProducts, DeleteBalances
<1>2. StockIsAccounted'
  BY <1>1 DEF Accounted, StockIsAccounted, Without
<1>3. \A q \in DOMAIN balances' : q \in DOMAIN balances /\ balances'[q] = balances[q]
  BY <1>1 DEF Without
<1>. QED
  BY <1>1, <1>2, <1>3, DeskAccounted

LEMMA AccountedStep ==
  ASSUME Accounted, [Next]_vars
  PROVE  Accounted'
<1>1. Typed'
  BY TypedStep DEF Accounted
<1>2. CASE UNCHANGED vars
  <2>1. at' = at /\ UNCHANGED <<balances, due>>
    BY <1>2 DEF vars, tables
  <2>2. StockIsAccounted'
    BY <2>1 DEF Accounted, StockIsAccounted
  <2>. QED
    BY <1>1, <2>1, <2>2, DeskAccounted
<1>3. CASE Next
  <2>1. ASSUME NEW t \in Slots, NEW p, Goto(t, p), UNCHANGED <<balances, due>>,
               p.op = "import" => DOMAIN p.draft.products = {} /\ DOMAIN p.draft.balances = {}
        PROVE  Accounted'
    BY <1>1, <2>1, SameDraft
  <2>2. ASSUME NEW t \in Slots, NEW file \in Files, BeginImport(t, file)
        PROVE  Accounted'
    <3>. DEFINE p == [op |-> "import", file |-> file, next |-> 1, draft |-> Blank]
    <3>1. Goto(t, p) /\ UNCHANGED <<balances, due>>
      BY <2>2 DEF BeginImport, tables
    <3>2. DOMAIN p.draft.products = {} /\ DOMAIN p.draft.balances = {}
      BY DEF Blank, Nothing
    <3>. HIDE DEF p
    <3>. QED
      BY <2>1, <3>1, <3>2
  <2>3. ASSUME NEW t \in Slots, Abort(t) \/ SaveProduct(t)
        PROVE  Accounted'
    <3>1. Goto(t, Idle) /\ UNCHANGED <<balances, due>> /\ Idle.op # "import"
      BY <2>3 DEF Abort, SaveProduct, tables, Idle
    <3>. QED
      BY <2>1, <3>1
  <2>4. ASSUME NEW t \in Slots, NEW q \in DOMAIN products, NEW form \in Forms,
               NEW lines \in Lines, FetchProduct(t, q, form, lines)
        PROVE  Accounted'
    <3>1. \E p : Goto(t, p) /\ p.op = "save"
      BY <2>4 DEF FetchProduct
    <3>2. UNCHANGED <<balances, due>>
      BY <2>4 DEF FetchProduct, tables
    <3>. QED
      BY <2>1, <3>1, <3>2
  <2>5. ASSUME at' = at, UNCHANGED <<balances, due>>
        PROVE  Accounted'
    <3>1. StockIsAccounted'
      BY <2>5 DEF Accounted, StockIsAccounted
    <3>. QED
      BY <1>1, <2>5, <3>1, DeskAccounted
  <2>6. ASSUME NEW form \in Forms, NEW lines \in Lines, Create(Anyone, form, lines)
        PROVE  Accounted'
    BY <2>5, <2>6 DEF Create
  <2>7. ASSUME NEW c \in Families, AddFamily(Anyone, c) \/ DeleteFamily(Anyone, c)
        PROVE  Accounted'
    BY <2>5, <2>7 DEF AddFamily, DeleteFamily
  <2>. QED
    BY <1>1, <1>3, <2>2, <2>3, <2>4, <2>6, <2>7, NextCases, ImportRowAccounted, CommitAccounted,
       StockAccounted, DeletesAccounted
<1>. QED
  BY <1>2, <1>3

(* Whatever workbooks are imported, several at once and again, cut short   *)
(* or not, and whatever is moved, opened and deleted meanwhile, a row of   *)
(* stock holds what it was opened with and its movements since.            *)
THEOREM OpeningStockCountedOnce == Spec => []StockIsAccounted
<1>1. Init => Accounted
  BY TypedAtFirst
  DEF Init, Accounted, StockIsAccounted, DraftsFollow, DraftsApart, At, Idle, Nothing
<1>2. Accounted /\ [Next]_vars => Accounted'
  BY AccountedStep
<1>3. Accounted => StockIsAccounted
  BY DEF Accounted
<1>. QED
  BY <1>1, <1>2, <1>3, PTL DEF Spec

-----------------------------------------------------------------------------
(* The first lines.                                                        *)
MirrorsThen(p) == items'[p] # << >> /\ items'[p][1] = TrackOf(products'[p])

(* What MirrorsFirst says of a step.                                       *)
KeepsFirst ==
  \A p \in DOMAIN products' :
    (p \in DOMAIN products => Mirrors(p)) /\ ~MirrorsThen(p) =>
      \E t \in Slots :
        /\ At(t, "save") /\ at[t].product = p /\ at'[t] = Idle
        /\ p \notin DOMAIN products \/ products[p] # at[t].read

LEMMA OthersKeepFirst ==
  ASSUME \A p \in DOMAIN products' :
           \/ MirrorsThen(p)
           \/ p \in DOMAIN products /\ products'[p] = products[p] /\ items'[p] = items[p]
  PROVE  KeepsFirst
BY DEF KeepsFirst, Mirrors, MirrorsThen

LEMMA CommitKeepsFirst ==
  ASSUME Typed, NEW t \in Slots, Commit(t)
  PROVE  KeepsFirst
<1>. DEFINE draft == at[t].draft
<1>1. IsTables(draft, issued) /\ Firsts(draft)
  BY ImportFields DEF Commit
<1>2. products' = Over(draft.products, products) /\ items' = Over(draft.items, items)
  BY DEF Commit, Write, Merge, Committed
<1>. HIDE DEF draft
<1>3. ASSUME NEW p \in DOMAIN products'
      PROVE  \/ MirrorsThen(p)
             \/ p \in DOMAIN products /\ products'[p] = products[p] /\ items'[p] = items[p]
  <2>1. CASE p \in DOMAIN draft.products
    BY <1>1, <1>2, <2>1 DEF IsTables, Firsts, Over, MirrorsThen
  <2>2. CASE p \notin DOMAIN draft.products
    BY <1>1, <1>2, <2>2, TablesFacts DEF IsTables, Over
  <2>. QED
    BY <2>1, <2>2
<1>. QED
  BY <1>3, OthersKeepFirst

LEMMA CreateKeepsFirst ==
  ASSUME Typed, NEW form \in Forms, NEW lines \in Lines, Create(Anyone, form, lines)
  PROVE  KeepsFirst
<1>. DEFINE p == issued + 1
            row == Fresh(Sent(form, lines))
            track == IF lines = NoItems THEN <<TrackOf(row)>> ELSE lines
<1>1. track # << >> /\ track[1] = TrackOf(row)
  <2>1. CASE lines = NoItems
    BY <2>1
  <2>2. CASE lines # NoItems
    BY <2>2, SentColumns, TrackSent DEF Fresh
  <2>. QED
    BY <2>1, <2>2
<1>2. products' = Put(products, p, row) /\ items' = Put(items, p, track)
  BY DEF Create
<1>. HIDE DEF p, row, track
<1>3. MirrorsThen(p) /\ \A q \in DOMAIN products' \ {p} :
        q \in DOMAIN products /\ products'[q] = products[q] /\ items'[q] = items[q]
  BY <1>1, <1>2, TablesFacts DEF Put, One, Over, MirrorsThen
<1>. QED
  BY <1>3, OthersKeepFirst

(* A save parts them only if its copy is no longer the row: it computes    *)
(* the tracking columns from the copy, and the first line from the stored  *)
(* lines or from those columns.                                            *)
LEMMA SaveKeepsFirst ==
  ASSUME Typed, NEW t \in Slots, SaveProduct(t)
  PROVE  KeepsFirst
<1>. DEFINE p == at[t].product
            row == at[t].row
            form == at[t].form
            lines == at[t].lines
            now == IF p \in DOMAIN items THEN items[p] ELSE << >>
            after == LinesAfter(form, lines, at[t].had, now, row)
<1>1. /\ p \in 1..issued /\ row \in Product /\ after \in Seq(Track) /\ Goto(t, Idle)
      /\ \/ UNCHANGED <<products, items>>
         \/ products' = Put(products, p, row) /\ items' = Put(items, p, after)
  BY SaveProductCases
<1>2. At(t, "save") /\ at'[t] = Idle
  BY <1>1, GoesTo DEF SaveProduct
<1>3. /\ at[t].read \in Product /\ form \in Forms /\ lines \in Lines
      /\ row = Over(Sent(form, lines), at[t].read)
  BY <1>2, PlaceFields DEF IsSave
<1>4. CASE UNCHANGED <<products, items>>
  BY <1>4, OthersKeepFirst
<1>5. CASE products' = Put(products, p, row) /\ items' = Put(items, p, after)
  <2>1. ASSUME p \in DOMAIN products, products[p] = at[t].read, Mirrors(p)
        PROVE  after # << >> /\ after[1] = TrackOf(row)
    <3>1. now = items[p] /\ now \in Seq(Track) /\ now # << >> /\ now[1] = TrackOf(at[t].read)
      BY <2>1, TablesFacts DEF Mirrors
    <3>. HIDE DEF now
    <3>2. CASE lines # NoItems
      BY <1>3, <3>2, SentColumns, TrackSent DEF LinesAfter
    <3>3. CASE lines = NoItems /\ UpdatesLegacy(form)
      <4>1. TrackOf(row) \in Track
        BY <1>1, Outlines
      <4>2. after = WithFirst(now, TrackOf(row))
        BY <3>3 DEF LinesAfter
      <4>. QED
        BY <3>1, <4>1, <4>2, FirstOf
    <3>4. CASE lines = NoItems /\ ~UpdatesLegacy(form) /\ at[t].had = << >>
      <4>1. after = <<TrackOf(row)>>
        BY <3>4 DEF LinesAfter
      <4>. HIDE DEF after, row
      <4>. QED
        BY <4>1
    <3>5. CASE lines = NoItems /\ ~UpdatesLegacy(form) /\ at[t].had # << >>
      <4>1. after = now
        BY <3>5 DEF LinesAfter
      <4>2. row = Over(form, at[t].read)
        BY <1>3, <3>5 DEF Sent
      <4>3. "alert" \notin DOMAIN form /\ "requires" \notin DOMAIN form
        BY <3>5 DEF UpdatesLegacy
      <4>4. row.alert = at[t].read.alert /\ row.requires = at[t].read.requires
        BY <1>3, <4>2, <4>3 DEF Over, Product
      <4>5. TrackOf(row) = TrackOf(at[t].read)
        BY <4>4 DEF TrackOf
      <4>. QED
        BY <3>1, <4>1, <4>5
    <3>. QED
      BY <3>2, <3>3, <3>4, <3>5
  <2>. HIDE DEF p, row, after
  <2>2. \A q \in DOMAIN products' \ {p} :
          q \in DOMAIN products /\ products'[q] = products[q] /\ items'[q] = items[q]
    <3>1. DOMAIN items = DOMAIN products
      BY TablesFacts
    <3>. QED
      BY <1>5, <3>1 DEF Put, One, Over
  <2>3. products'[p] = row /\ items'[p] = after
    BY <1>5 DEF Put, One, Over
  <2>4. ASSUME NEW q \in DOMAIN products', q \in DOMAIN products => Mirrors(q), ~MirrorsThen(q)
        PROVE  \E s \in Slots :
                 /\ At(s, "save") /\ at[s].product = q /\ at'[s] = Idle
                 /\ q \notin DOMAIN products \/ products[q] # at[s].read
    <3>1. q = p
      BY <2>2, <2>4 DEF Mirrors, MirrorsThen
    <3>2. p \notin DOMAIN products \/ products[p] # at[t].read
      BY <2>1, <2>3, <2>4, <3>1 DEF MirrorsThen
    <3>. QED
      BY <1>2, <3>1, <3>2 DEF p
  <2>. QED
    BY <2>4 DEF KeepsFirst
<1>. QED
  BY <1>1, <1>4, <1>5

LEMMA FirstsStep ==
  ASSUME Typed, [Next]_vars
  PROVE  KeepsFirst
<1>1. CASE UNCHANGED <<products, items>>
  BY <1>1, OthersKeepFirst
<1>2. CASE UNCHANGED vars
  BY <1>1, <1>2 DEF vars, tables
<1>3. CASE Next
  <2>1. ASSUME NEW t \in Slots, NEW file \in Files, BeginImport(t, file) PROVE KeepsFirst
    BY <1>1, <2>1 DEF BeginImport, tables
  <2>2. ASSUME NEW t \in Slots, ImportRow(t) \/ Abort(t) PROVE KeepsFirst
    BY <1>1, <2>2 DEF ImportRow, Abort, tables
  <2>3. ASSUME NEW t \in Slots, NEW p \in DOMAIN products, NEW form \in Forms,
               NEW lines \in Lines, FetchProduct(t, p, form, lines)
        PROVE  KeepsFirst
    BY <1>1, <2>3 DEF FetchProduct, tables
  <2>4. ASSUME NEW c \in Families, AddFamily(Anyone, c) \/ DeleteFamily(Anyone, c)
        PROVE  KeepsFirst
    BY <1>1, <2>4 DEF AddFamily, DeleteFamily
  <2>5. ASSUME NEW p \in DOMAIN products, NEW min \in {None, 1}, NEW d \in {-1, 1},
               OpenBalance(Anyone, p, 1, min) \/ Move(Anyone, p, d)
        PROVE  KeepsFirst
    BY <1>1, <2>5 DEF OpenBalance, Move
  <2>6. ASSUME NEW ids, DeleteBalances(Anyone, ids) PROVE KeepsFirst
    BY <1>1, <2>6 DEF DeleteBalances
  <2>7. ASSUME NEW ids, DeleteProducts(Anyone, ids) PROVE KeepsFirst
    <3>1. products' = Without(products, ids) /\ items' = Without(items, ids)
      BY <2>7 DEF DeleteProducts
    <3>2. \A p \in DOMAIN products' :
            p \in DOMAIN products /\ products'[p] = products[p] /\ items'[p] = items[p]
      BY <3>1, TablesFacts DEF Without
    <3>. QED
      BY <3>2, OthersKeepFirst
  <2>. QED
    BY <1>3, <2>1, <2>2, <2>3, <2>4, <2>5, <2>6, <2>7, NextCases, CommitKeepsFirst,
       CreateKeepsFirst, SaveKeepsFirst
<1>. QED
  BY <1>2, <1>3

(* A product and its first tracking line are parted by no import, creation *)
(* or deletion, and by a save only if the copy it writes is not the row    *)
(* any more, or the row is gone.                                           *)
THEOREM OnlyOldCopiesPart == Spec => MirrorsFirst
<1>1. Typed /\ [Next]_vars => Typed'
  BY TypedStep
<1>2. Typed /\ [Next]_vars =>
        [\A p \in DOMAIN products' :
           (p \in DOMAIN products => Mirrors(p)) /\ ~Mirrors(p)' =>
             \E t \in Slots :
               /\ At(t, "save") /\ at[t].product = p /\ at'[t] = Idle
               /\ p \notin DOMAIN products \/ products[p] # at[t].read]_vars
  BY FirstsStep DEF KeepsFirst, Mirrors, MirrorsThen
<1>. QED
  BY <1>1, <1>2, TypedAtFirst, PTL DEF Spec, MirrorsFirst

-----------------------------------------------------------------------------
(* The codes and the families.                                             *)
Differ(r, q) ==
  /\ r.reference # None => r.reference # q.reference
  /\ r.barcode # None => r.barcode # q.barcode

UniqueIn(table) ==
  \A p, q \in DOMAIN table : p # q => Differ(table[p], table[q])

FamiliesIn(table, c) ==
  \A p \in DOMAIN table : table[p].category \in c \cup {None}

(* What is committed fits together, with an import's writes over it as     *)
(* without them, and what two imports write differs in its codes.          *)
Sound ==
  /\ Typed
  /\ UniqueIn(products) /\ FamiliesIn(products, families)
  /\ \A t \in Slots : At(t, "import") =>
       /\ UniqueIn(Over(at[t].draft.products, products))
       /\ FamiliesIn(at[t].draft.products, at[t].draft.families \cup families)
  /\ \A s, t \in Slots : At(s, "import") /\ At(t, "import") /\ s # t =>
       \A p \in DOMAIN at[s].draft.products, q \in DOMAIN at[t].draft.products :
         Differ(at[s].draft.products[p], at[t].draft.products[q])

LEMMA PutUnique ==
  ASSUME NEW table, UniqueIn(table), NEW p, NEW row,
         \A q \in DOMAIN table \ {p} : Differ(row, table[q])
  PROVE  UniqueIn(Put(table, p, row))
<1> SUFFICES ASSUME NEW x \in DOMAIN table \cup {p}, NEW y \in DOMAIN table \cup {p}, x # y
    PROVE  Differ(Put(table, p, row)[x], Put(table, p, row)[y])
  BY DEF UniqueIn, Put, One, Over
<1>1. CASE x # p /\ y # p
  BY <1>1 DEF UniqueIn, Put, One, Over
<1>2. CASE x = p
  BY <1>2 DEF Put, One, Over
<1>3. CASE y = p
  BY <1>3 DEF Put, One, Over, Differ
<1>. QED
  BY <1>1, <1>2, <1>3

LEMMA ClashFree ==
  ASSUME NEW db, NEW p, NEW row, ~Clash(db, p, row)
  PROVE  \A q \in DOMAIN db.products \ {p} : Differ(row, db.products[q])
BY DEF Clash, Differ

(* A product no import has written, whose codes no import has written.     *)
LEMMA UnlockedDiffers ==
  ASSUME Typed, NEW t, NEW p, NEW row, NEW c, Unlocked(t, p, CodesOf(row), c),
         NEW s \in Slots \ {t}, At(s, "import")
  PROVE  /\ p \notin DOMAIN at[s].draft.products /\ c \notin at[s].draft.families
         /\ \A q \in DOMAIN at[s].draft.products : Differ(row, at[s].draft.products[q])
<1>1. at[s].draft \in Held(t)
  BY HeldDrafts
<1>. DEFINE d == at[s].draft
<1>. HIDE DEF d
<1>2. /\ p \notin DOMAIN d.products /\ c \notin d.families
      /\ \A q \in DOMAIN d.products :
           d.products[q].reference \notin CodesOf(row) /\ d.products[q].barcode \notin CodesOf(row)
  BY <1>1 DEF Unlocked, d
<1>3. \A q \in DOMAIN d.products : Differ(row, d.products[q])
  BY <1>2 DEF CodesOf, Differ
<1>. QED
  BY <1>2, <1>3 DEF d

(* Steps that leave the imports where they are and insert or save one      *)
(* product.                                                                *)
LEMMA SavedSound ==
  ASSUME Sound, Typed', NEW t, NEW p, NEW row, NEW c,
         \A s \in Slots : At(s, "import")' => s # t /\ At(s, "import") /\ at'[s] = at[s],
         Unlocked(t, p, CodesOf(row), c), ~Clash(Committed, p, row),
         row.category \in families \cup {None},
         products' = Put(products, p, row), families' = families
  PROVE  Sound'
<1>1. \A q \in DOMAIN products \ {p} : Differ(row, products[q])
  BY ClashFree, CommittedTables
<1>2. UniqueIn(products')
  BY <1>1, PutUnique DEF Sound
<1>3. FamiliesIn(products', families')
  BY DEF Sound, FamiliesIn, Put, One, Over
<1>4. ASSUME NEW s \in Slots, At(s, "import")'
      PROVE  /\ UniqueIn(Over(at'[s].draft.products, products'))
             /\ FamiliesIn(at'[s].draft.products, at'[s].draft.families \cup families')
  <2>. DEFINE draft == at[s].draft.products
              old == Over(draft, products)
              new == Over(draft, products')
  <2>1. s # t /\ At(s, "import") /\ at'[s] = at[s]
    BY <1>4
  <2>2. p \notin DOMAIN draft /\ \A q \in DOMAIN draft : Differ(row, draft[q])
    BY <2>1, UnlockedDiffers DEF Sound
  <2>3. UniqueIn(old)
    BY <2>1 DEF Sound
  <2>4. \A q \in DOMAIN old \ {p} : Differ(row, old[q])
    BY <1>1, <2>2 DEF Over
  <2>5. UniqueIn(Put(old, p, row))
    BY <2>3, <2>4, PutUnique
  <2>6. new = Put(old, p, row)
    <3>1. DOMAIN new = DOMAIN old \cup {p}
      BY DEF Put, One, Over
    <3>2. \A x \in DOMAIN old \cup {p} :
            (IF x \in DOMAIN draft THEN draft[x] ELSE products'[x])
              = (IF x \in {p} THEN One(p, row)[x] ELSE old[x])
      BY <2>2 DEF Put, One, Over
    <3>3. new = [x \in DOMAIN old \cup {p} |-> IF x \in DOMAIN draft THEN draft[x] ELSE products'[x]]
      BY <3>1 DEF Over
    <3>4. Put(old, p, row) = [x \in DOMAIN old \cup {p} |-> IF x \in {p} THEN One(p, row)[x] ELSE old[x]]
      BY DEF Put, One, Over
    <3>. QED
      BY <3>2, <3>3, <3>4
  <2>7. FamiliesIn(draft, at[s].draft.families \cup families)
    BY <2>1 DEF Sound
  <2>. QED
    BY <2>1, <2>5, <2>6, <2>7
<1>5. ASSUME NEW s \in Slots, NEW u \in Slots, At(s, "import")', At(u, "import")', s # u
      PROVE  \A x \in DOMAIN at'[s].draft.products, y \in DOMAIN at'[u].draft.products :
               Differ(at'[s].draft.products[x], at'[u].draft.products[y])
  BY <1>5 DEF Sound
<1>. QED
  BY <1>2, <1>3, <1>4, <1>5 DEF Sound, UniqueIn, FamiliesIn, Differ

(* Steps that save no product: rows may go, families no product has too.   *)
LEMMA FewerSound ==
  ASSUME Sound, Typed',
         \A s \in Slots : At(s, "import")' =>
           DOMAIN at'[s].draft.products = {} \/ (At(s, "import") /\ at'[s].draft = at[s].draft),
         DOMAIN products' \subseteq DOMAIN products,
         \A p \in DOMAIN products' : products'[p] = products[p],
         FamiliesIn(products, families'),
         \A s \in Slots : At(s, "import") =>
           FamiliesIn(at[s].draft.products, at[s].draft.families \cup families')
  PROVE  Sound'
<1>1. UniqueIn(products') /\ FamiliesIn(products', families')
  BY DEF Sound, UniqueIn, FamiliesIn
<1>2. ASSUME NEW s \in Slots, At(s, "import")'
      PROVE  /\ UniqueIn(Over(at'[s].draft.products, products'))
             /\ FamiliesIn(at'[s].draft.products, at'[s].draft.families \cup families')
  <2>1. CASE DOMAIN at'[s].draft.products = {}
    BY <1>1, <2>1 DEF UniqueIn, FamiliesIn, Over
  <2>2. CASE At(s, "import") /\ at'[s].draft = at[s].draft
    <3>1. UniqueIn(Over(at[s].draft.products, products))
      BY <2>2 DEF Sound
    <3>2. UniqueIn(Over(at[s].draft.products, products'))
      BY <3>1 DEF UniqueIn, Over
    <3>. QED
      BY <2>2, <3>2
  <2>. QED
    BY <1>2, <2>1, <2>2
<1>3. ASSUME NEW s \in Slots, NEW u \in Slots, At(s, "import")', At(u, "import")', s # u
      PROVE  \A x \in DOMAIN at'[s].draft.products, y \in DOMAIN at'[u].draft.products :
               Differ(at'[s].draft.products[x], at'[u].draft.products[y])
  BY <1>3 DEF Sound
<1>. QED
  BY <1>1, <1>2, <1>3 DEF Sound, UniqueIn, FamiliesIn, Differ

LEMMA CommitSound ==
  ASSUME Sound, Typed', NEW t \in Slots, Commit(t)
  PROVE  Sound'
<1>. DEFINE mine == at[t].draft.products
<1>1. At(t, "import")
  BY DEF Commit
<1>2. /\ products' = Over(mine, products) /\ families' = at[t].draft.families \cup families
      /\ Goto(t, Idle)
  BY DEF Commit, Write, Merge, Committed
<1>3. at'[t] = Idle /\ \A s \in Slots \ {t} : at'[s] = at[s]
  BY <1>2, GoesTo DEF Sound
<1>4. \A s \in Slots : At(s, "import")' => s # t /\ At(s, "import") /\ at'[s] = at[s]
  BY <1>3 DEF At, Idle
<1>5. UniqueIn(products')
  BY <1>1, <1>2 DEF Sound
<1>6. FamiliesIn(products', families')
  <2>1. FamiliesIn(mine, families') /\ FamiliesIn(products, families')
    BY <1>1, <1>2 DEF Sound, FamiliesIn
  <2>. QED
    BY <1>2, <2>1 DEF FamiliesIn, Over
<1>7. ASSUME NEW s \in Slots, At(s, "import")'
      PROVE  /\ UniqueIn(Over(at'[s].draft.products, products'))
             /\ FamiliesIn(at'[s].draft.products, at'[s].draft.families \cup families')
  <2>. DEFINE its == at[s].draft.products
              both == Over(its, products')
  <2>1. s # t /\ At(s, "import") /\ at'[s] = at[s]
    BY <1>4, <1>7
  <2>2. UniqueIn(Over(its, products)) /\ UniqueIn(Over(mine, products))
    BY <1>1, <2>1 DEF Sound
  <2>3. \A x \in DOMAIN its, y \in DOMAIN mine : Differ(its[x], mine[y])
    BY <1>1, <2>1 DEF Sound
  <2>4. FamiliesIn(its, at[s].draft.families \cup families')
    BY <1>2, <2>1 DEF Sound, FamiliesIn
  <2>. HIDE DEF its, mine
  <2>5. ASSUME NEW x \in DOMAIN both, NEW y \in DOMAIN both, x # y
        PROVE  Differ(both[x], both[y])
    <3>1. CASE x \in DOMAIN its /\ y \in DOMAIN its
      BY <2>2, <2>5, <3>1 DEF UniqueIn, Over
    <3>2. CASE x \notin DOMAIN its /\ y \notin DOMAIN its
      BY <1>2, <2>2, <2>5, <3>2 DEF UniqueIn, Over
    <3>3. ASSUME NEW a \in DOMAIN its, NEW b \in DOMAIN products' \ DOMAIN its
          PROVE  Differ(its[a], products'[b])
      <4>1. CASE b \in DOMAIN mine
        BY <1>2, <2>3, <3>3, <4>1 DEF Over
      <4>2. CASE b \notin DOMAIN mine
        BY <1>2, <2>2, <3>3, <4>2 DEF UniqueIn, Over
      <4>. QED
        BY <4>1, <4>2
    <3>4. CASE x \in DOMAIN its /\ y \notin DOMAIN its
      BY <3>3, <3>4 DEF Over
    <3>5. CASE x \notin DOMAIN its /\ y \in DOMAIN its
      BY <3>3, <3>5 DEF Over, Differ
    <3>. QED
      BY <3>1, <3>2, <3>4, <3>5
  <2>. QED
    BY <2>1, <2>4, <2>5 DEF UniqueIn, its
<1>8. ASSUME NEW s \in Slots, NEW u \in Slots, At(s, "import")', At(u, "import")', s # u
      PROVE  \A x \in DOMAIN at'[s].draft.products, y \in DOMAIN at'[u].draft.products :
               Differ(at'[s].draft.products[x], at'[u].draft.products[y])
  BY <1>4, <1>8 DEF Sound
<1>. QED
  BY <1>5, <1>6, <1>7, <1>8 DEF Sound, UniqueIn, FamiliesIn, Differ

LEMMA ImportRowSound ==
  ASSUME Sound, Typed', NEW t \in Slots, ImportRow(t)
  PROVE  Sound'
<1>. DEFINE row == at[t].file[at[t].next]
            db == Merge(at[t].draft, Committed)
            p == Target(db, row, issued + 1)
            product == Filled(db, row, p)
            w == Written(db, row, issued + 1)
            onwards(draft) == [op |-> "import", file |-> at[t].file, next |-> at[t].next + 1,
                               draft |-> draft]
<1>1. At(t, "import") /\ UNCHANGED <<products, families>>
  BY DEF ImportRow, tables
<1>2. ASSUME NEW q, Goto(t, q),
             q.op = "import" => DOMAIN q.draft.products = {} \/ q.draft = at[t].draft
      PROVE  Sound'
  <2>1. at'[t] = q /\ \A s \in Slots \ {t} : at'[s] = at[s]
    BY <1>2, GoesTo DEF Sound
  <2>2. \A s \in Slots : At(s, "import")' =>
          DOMAIN at'[s].draft.products = {} \/ (At(s, "import") /\ at'[s].draft = at[s].draft)
    BY <1>1, <1>2, <2>1 DEF At
  <2>. QED
    BY <1>1, <2>2, FewerSound DEF Sound
<1>3. CASE Goto(t, Idle)
  BY <1>2, <1>3 DEF Idle
<1>4. CASE Goto(t, onwards(at[t].draft))
  <2>. DEFINE place == onwards(at[t].draft)
  <2>1. place.draft = at[t].draft /\ Goto(t, place)
    BY <1>4
  <2>. HIDE DEF place
  <2>. QED
    BY <1>2, <2>1
<1>5. CASE /\ ~Skips(row) /\ row \in SheetRow
           /\ Goto(t, onwards(Merge(w, at[t].draft)))
           /\ Unlocked(t, p, CodesOf(product), row.category) /\ ~Clash(db, p, product)
  <2>. DEFINE draft == Merge(w, at[t].draft)
              old == db.products
  <2>1. at'[t].op = "import" /\ at'[t].draft = draft /\ \A s \in Slots \ {t} : at'[s] = at[s]
    <3>. HIDE DEF draft
    <3>1. Goto(t, onwards(draft))
      BY <1>5 DEF draft
    <3>2. at'[t] = onwards(draft) /\ \A s \in Slots \ {t} : at'[s] = at[s]
      BY <3>1, GoesTo DEF Sound
    <3>. QED
      BY <3>2
  <2>2. draft.products = Put(at[t].draft.products, p, product)
    BY DEF Merge, Written, Put
  <2>3. old = Over(at[t].draft.products, products) /\ UniqueIn(old)
    BY <1>1 DEF Merge, Committed, Sound
  <2>4. \A q \in DOMAIN old \ {p} : Differ(product, old[q])
    BY <1>5, ClashFree
  <2>5. UniqueIn(Put(old, p, product))
    BY <2>3, <2>4, PutUnique
  <2>6. /\ draft.families = ({row.category} \ ({None} \cup db.families)) \cup at[t].draft.families
        /\ db.families = at[t].draft.families \cup families
        /\ product.category = row.category
    BY DEF Merge, Written, Committed, Filled
  <2>7. FamiliesIn(at[t].draft.products, at[t].draft.families \cup families)
    BY <1>1 DEF Sound
  <2>8. \A s \in Slots \ {t} : At(s, "import") =>
          \A q \in DOMAIN at[s].draft.products : Differ(product, at[s].draft.products[q])
    BY <1>5, UnlockedDiffers DEF Sound
  <2>. HIDE DEF draft, old, w, product, p, db
  <2>9. UniqueIn(Over(draft.products, products))
    <3>1. Over(draft.products, products) = Put(old, p, product)
      BY <2>2, <2>3 DEF Put, One, Over
    <3>. QED
      BY <2>5, <3>1
  <2>10. FamiliesIn(draft.products, draft.families \cup families)
    BY <2>2, <2>6, <2>7 DEF FamiliesIn, Put, One, Over
  <2>11. \A s \in Slots \ {t} : At(s, "import") =>
           \A x \in DOMAIN draft.products, q \in DOMAIN at[s].draft.products :
             Differ(draft.products[x], at[s].draft.products[q])
    <3> SUFFICES ASSUME NEW s \in Slots \ {t}, At(s, "import"), NEW x \in DOMAIN draft.products,
                        NEW q \in DOMAIN at[s].draft.products
        PROVE  Differ(draft.products[x], at[s].draft.products[q])
      OBVIOUS
    <3>1. CASE x = p
      BY <2>2, <2>8, <3>1 DEF Put, One, Over
    <3>2. CASE x # p
      <4>1. x \in DOMAIN at[t].draft.products /\ draft.products[x] = at[t].draft.products[x]
        BY <2>2, <3>2 DEF Put, One, Over
      <4>. QED
        BY <1>1, <4>1 DEF Sound
    <3>. QED
      BY <3>1, <3>2
  <2>12. \A s, u \in Slots : At(s, "import")' /\ At(u, "import")' /\ s # u =>
           \A x \in DOMAIN at'[s].draft.products, y \in DOMAIN at'[u].draft.products :
             Differ(at'[s].draft.products[x], at'[u].draft.products[y])
    <3> SUFFICES ASSUME NEW s \in Slots, NEW u \in Slots, At(s, "import")', At(u, "import")',
                        s # u, NEW x \in DOMAIN at'[s].draft.products,
                        NEW y \in DOMAIN at'[u].draft.products
        PROVE  Differ(at'[s].draft.products[x], at'[u].draft.products[y])
      OBVIOUS
    <3>1. CASE s = t
      BY <2>1, <2>11, <3>1 DEF At
    <3>2. CASE u = t
      <4>1. Differ(at'[u].draft.products[y], at'[s].draft.products[x])
        BY <2>1, <2>11, <3>2 DEF At
      <4>. QED
        BY <4>1 DEF Differ
    <3>3. CASE s # t /\ u # t
      BY <2>1, <3>3 DEF At, Sound
    <3>. QED
      BY <3>1, <3>2, <3>3
  <2>13. \A s \in Slots : At(s, "import")' =>
           /\ UniqueIn(Over(at'[s].draft.products, products'))
           /\ FamiliesIn(at'[s].draft.products, at'[s].draft.families \cup families')
    BY <1>1, <2>1, <2>9, <2>10 DEF At, Sound
  <2>14. UniqueIn(products') /\ FamiliesIn(products', families')
    BY <1>1 DEF Sound
  <2>. QED
    BY <2>12, <2>13, <2>14 DEF Sound, UniqueIn, FamiliesIn, Differ
<1>. QED
  <2>1. CASE Skips(row)
    BY <1>3, <1>4, <2>1, ImportRowCases DEF Sound
  <2>2. CASE ~Skips(row) /\ Refuses(db, row, issued + 1)
    BY <1>3, <2>2 DEF ImportRow
  <2>3. CASE ~Skips(row) /\ ~Refuses(db, row, issued + 1)
    <3>1. Unlocked(t, p, CodesOf(product), row.category) /\ ~Clash(db, p, product)
      BY <2>3 DEF ImportRow, Refuses
    <3>. QED
      BY <1>3, <1>4, <1>5, <3>1, ImportRowCases DEF Sound
  <2>. QED
    BY <2>1, <2>2, <2>3

LEMMA SoundStep ==
  ASSUME Sound, [Next]_vars
  PROVE  Sound'
<1>1. Typed'
  BY TypedStep DEF Sound
<1>2. CASE UNCHANGED vars
  BY <1>1, <1>2, FewerSound DEF Sound, vars, tables, At
<1>3. CASE Next
  <2>1. ASSUME NEW t \in Slots, NEW p, Goto(t, p), UNCHANGED <<products, families>>,
               p.op = "import" => DOMAIN p.draft.products = {}
        PROVE  Sound'
    <3>1. at'[t] = p /\ \A s \in Slots \ {t} : at'[s] = at[s]
      BY <2>1, GoesTo DEF Sound
    <3>2. \A s \in Slots : At(s, "import")' =>
            DOMAIN at'[s].draft.products = {} \/ (At(s, "import") /\ at'[s].draft = at[s].draft)
      BY <2>1, <3>1 DEF At
    <3>. QED
      BY <1>1, <2>1, <3>2, FewerSound DEF Sound
  <2>2. ASSUME NEW t \in Slots, NEW file \in Files, BeginImport(t, file)
        PROVE  Sound'
    <3>. DEFINE p == [op |-> "import", file |-> file, next |-> 1, draft |-> Blank]
    <3>1. Goto(t, p) /\ UNCHANGED <<products, families>>
      BY <2>2 DEF BeginImport, tables
    <3>2. DOMAIN p.draft.products = {}
      BY DEF Blank, Nothing
    <3>. HIDE DEF p
    <3>. QED
      BY <2>1, <3>1, <3>2
  <2>3. ASSUME NEW t \in Slots, Abort(t)
        PROVE  Sound'
    <3>1. Goto(t, Idle) /\ UNCHANGED <<products, families>> /\ Idle.op # "import"
      BY <2>3 DEF Abort, tables, Idle
    <3>. QED
      BY <2>1, <3>1
  <2>4. ASSUME NEW t \in Slots, NEW q \in DOMAIN products, NEW form \in Forms,
               NEW lines \in Lines, FetchProduct(t, q, form, lines)
        PROVE  Sound'
    <3>1. \E p : Goto(t, p) /\ p.op = "save"
      BY <2>4 DEF FetchProduct
    <3>2. UNCHANGED <<products, families>>
      BY <2>4 DEF FetchProduct, tables
    <3>. QED
      BY <2>1, <3>1, <3>2
  <2>5. ASSUME NEW t \in Slots, SaveProduct(t)
        PROVE  Sound'
    <3>. DEFINE p == at[t].product
                row == at[t].row
    <3>1. Goto(t, Idle) /\ families' = families /\ Idle.op # "import" /\ At(t, "save")
      BY <2>5 DEF SaveProduct, Idle
    <3>2. CASE products' = products
      BY <2>1, <3>1, <3>2
    <3>3. CASE products' # products
      <4>1. /\ products' = Put(products, p, row) /\ ~Clash(Committed, p, row)
            /\ row.category \in families \cup {None} /\ Unlocked(t, p, CodesOf(row), None)
        BY <2>5, <3>3 DEF SaveProduct
      <4>2. at'[t] = Idle /\ \A s \in Slots \ {t} : at'[s] = at[s]
        BY <3>1, GoesTo DEF Sound
      <4>3. \A s \in Slots : At(s, "import")' => s # t /\ At(s, "import") /\ at'[s] = at[s]
        BY <3>1, <4>2 DEF At
      <4>. HIDE DEF p, row
      <4>. QED
        BY <1>1, <3>1, <4>1, <4>3, SavedSound
    <3>. QED
      BY <3>2, <3>3
  <2>6. ASSUME NEW form \in Forms, NEW lines \in Lines, Create(Anyone, form, lines)
        PROVE  Sound'
    <3>. DEFINE p == issued + 1
                row == Fresh(Sent(form, lines))
    <3>1. /\ products' = Put(products, p, row) /\ ~Clash(Committed, p, row)
          /\ row.category \in families \cup {None} /\ Unlocked(Anyone, p, CodesOf(row), None)
          /\ at' = at /\ families' = families
      BY <2>6 DEF Create
    <3>2. \A s \in Slots : At(s, "import")' => s # Anyone /\ At(s, "import") /\ at'[s] = at[s]
      BY <3>1, AnyoneHoldsNothing DEF At
    <3>. HIDE DEF p, row
    <3>. QED
      BY <1>1, <3>1, <3>2, SavedSound
  <2>7. ASSUME at' = at, UNCHANGED families, DOMAIN products' \subseteq DOMAIN products,
               \A p \in DOMAIN products' : products'[p] = products[p]
        PROVE  Sound'
    BY <1>1, <2>7, FewerSound DEF Sound, At
  <2>8. ASSUME NEW c \in Families, AddFamily(Anyone, c)
        PROVE  Sound'
    <3>1. at' = at /\ products' = products /\ families' = families \cup {c}
      BY <2>8 DEF AddFamily
    <3>2. FamiliesIn(products, families') /\ \A s \in Slots : At(s, "import") =>
            FamiliesIn(at[s].draft.products, at[s].draft.families \cup families')
      BY <3>1 DEF Sound, FamiliesIn
    <3>. QED
      BY <1>1, <3>1, <3>2, FewerSound DEF At
  <2>9. ASSUME NEW c \in Families, DeleteFamily(Anyone, c)
        PROVE  Sound'
    <3>1. at' = at /\ products' = products /\ families' = families \ {c}
      BY <2>9 DEF DeleteFamily
    <3>2. FamiliesIn(products, families')
      BY <2>9, <3>1 DEF DeleteFamily, Sound, FamiliesIn
    <3>3. ASSUME NEW s \in Slots, At(s, "import")
          PROVE  FamiliesIn(at[s].draft.products, at[s].draft.families \cup families')
      <4>1. at[s].draft \in Held(Anyone)
        BY <3>3, HeldDrafts, AnyoneHoldsNothing
      <4>2. FamiliesIn(at[s].draft.products, at[s].draft.families \cup families)
        BY <3>3 DEF Sound
      <4>. QED
        BY <2>9, <3>1, <4>1, <4>2 DEF DeleteFamily, FamiliesIn
    <3>. QED
      BY <1>1, <3>1, <3>2, <3>3, FewerSound DEF At
  <2>10. ASSUME NEW ids, DeleteProducts(Anyone, ids)
         PROVE  Sound'
    BY <2>7, <2>10, WithoutFacts DEF DeleteProducts
  <2>11. ASSUME NEW ids, DeleteBalances(Anyone, ids)
         PROVE  Sound'
    BY <2>7, <2>11 DEF DeleteBalances
  <2>12. ASSUME NEW p \in DOMAIN products, NEW min \in {None, 1}, NEW d \in {-1, 1},
                OpenBalance(Anyone, p, 1, min) \/ Move(Anyone, p, d)
         PROVE  Sound'
    BY <2>7, <2>12 DEF OpenBalance, Move
  <2>. QED
    BY <1>1, <1>3, <2>2, <2>3, <2>4, <2>5, <2>6, <2>8, <2>9, <2>10, <2>11, <2>12, NextCases,
       ImportRowSound, CommitSound
<1>. QED
  BY <1>2, <1>3

LEMMA CatalogueIsSound == Spec => []Sound
<1>1. Init => Sound
  BY TypedAtFirst
  DEF Init, Sound, UniqueIn, FamiliesIn, At, Idle, Nothing
<1>2. Sound /\ [Next]_vars => Sound'
  BY SoundStep
<1>. QED
  BY <1>1, <1>2, PTL DEF Spec

(* The tables keep their types, two products never share a reference or a  *)
(* barcode, and a product's family exists, whatever workbooks, old copies  *)
(* and deletions come at once.                                             *)
THEOREM CodesStayUnique == Spec => []TypeOK
<1>1. Sound => TypeOK
  <2> SUFFICES ASSUME Sound PROVE TypeOK
    OBVIOUS
  <2>1. \A p \in DOMAIN products :
          /\ products[p].category \in families \cup {None}
          /\ \A q \in DOMAIN products \ {p} :
               /\ products[p].reference # None => products[p].reference # products[q].reference
               /\ products[p].barcode # None => products[p].barcode # products[q].barcode
    BY DEF Sound, UniqueIn, FamiliesIn, Differ
  <2>2. \A p \in DOMAIN balances : balances[p] \in [quantity : Int, min : Alerts \cup {None}]
    BY TablesFacts DEF Sound, BalanceRow
  <2>. QED
    BY <2>1, <2>2, TablesFacts DEF Sound, Typed, TypeOK
<1>. QED
  BY <1>1, CatalogueIsSound, PTL

-----------------------------------------------------------------------------
(* A workbook that is sent again                                           *)

(* A set with zero and the successor of each of its numbers has them all.  *)
LEMMA NaturalsAreAll ==
  ASSUME NEW T, 0 \in T, \A n \in Nat : n \in T => n + 1 \in T
  PROVE  Nat \subseteq T
<1>. SUFFICES ASSUME Nat \ T # {} PROVE FALSE
  OBVIOUS
<1>. DEFINE Below == OpToRel(<, Nat)
<1>1. IsWellFoundedOn(Below, Nat)
  BY NatLessThanWellFounded
<1>2. \A x, y \in Nat : x < y => <<x, y>> \in Below
  BY DEF OpToRel
<1>. HIDE DEF Below
<1>3. PICK n \in Nat \ T : \A m \in Nat \ T : ~ (<<m, n>> \in Below)
  BY <1>1, WFMin
<1>4. n # 0 /\ n - 1 \in Nat /\ n - 1 < n
  OBVIOUS
<1>5. n - 1 \in T
  BY <1>2, <1>3, <1>4
<1>. QED
  BY <1>4, <1>5

(* The tables after the rows of a workbook follow each other.              *)
LEMMA RowsFollow ==
  ASSUME NEW db, NEW file, Len(file) \in Nat
  PROVE  \E dbs : /\ dbs[0] = {db}
                  /\ \A i \in 1..Len(file) : dbs[i] = AfterRow(dbs[i - 1], file[i])
                  /\ After(db, file) = dbs[Len(file)]
<1>. DEFINE start == {db}
            N == Len(file)
            Body(dbs, i) == IF i = 0 THEN start ELSE AfterRow(dbs[i - 1], file[i])
            Good(k, dbs) == dbs = [i \in 0..k |-> Body(dbs, i)]
            T == {k \in Nat : \E dbs : Good(k, dbs)}
<1>. HIDE DEF start
<1>1. 0 \in T
  <2>. DEFINE dbs == [i \in 0..0 |-> start]
  <2>1. Good(0, dbs)
    OBVIOUS
  <2>. QED
    BY <2>1
<1>2. ASSUME NEW k \in Nat, k \in T PROVE k + 1 \in T
  <2>1. PICK dbs : Good(k, dbs)
    BY <1>2
  <2>. DEFINE more == [i \in 0..k + 1 |->
                         IF i = k + 1 THEN AfterRow(dbs[k], file[k + 1]) ELSE dbs[i]]
  <2>2. \A i \in 0..k : more[i] = dbs[i] /\ dbs[i] = Body(dbs, i)
    BY <2>1
  <2>3. ASSUME NEW i \in 0..k + 1 PROVE more[i] = Body(more, i)
    <3>1. CASE i = k + 1
      BY <2>2, <3>1
    <3>2. CASE i # k + 1
      <4>1. i \in 0..k /\ (i # 0 => i - 1 \in 0..k)
        BY <3>2
      <4>. QED
        BY <2>2, <4>1
    <3>. QED
      BY <3>1, <3>2
  <2>4. Good(k + 1, more)
    BY <2>3
  <2>. HIDE DEF more, Good
  <2>. QED
    BY <2>4
<1>3. N \in T
  BY <1>1, <1>2, NaturalsAreAll
<1>4. \E dbs : Good(N, dbs)
  BY <1>3
<1>. DEFINE dbs == CHOOSE d : Good(N, d)
<1>5. Good(N, dbs)
  BY <1>4
<1>6. After(db, file) = dbs[N]
  BY DEF After, start
<1>. HIDE DEF dbs
<1>7. dbs[0] = start /\ \A i \in 1..N : dbs[i] = AfterRow(dbs[i - 1], file[i])
  BY <1>5
<1>. QED
  BY <1>6, <1>7 DEF start

-----------------------------------------------------------------------------
(* One row of a workbook                                                   *)

(* Tables that fit together, with keys no higher than the next one.        *)
Fits(db) ==
  /\ IsFiniteSet(DOMAIN db.products) /\ DOMAIN db.products \subseteq 1..(NewKey(db) - 1)
  /\ DOMAIN db.items = DOMAIN db.products /\ DOMAIN db.balances \subseteq DOMAIN db.products
  /\ \A p \in DOMAIN db.products : db.products[p] \in Product /\ db.items[p] \in Seq(Track)
  /\ \A p \in DOMAIN db.balances : db.balances[p] \in BalanceRow
  /\ UniqueIn(db.products)

(* The product of a row is there, under its code, with a row of stock.     *)
MetAt(db, row, p) ==
  /\ p \in DOMAIN db.products /\ p \in DOMAIN db.balances
  /\ db.products[p].reference = row.reference /\ db.products[p].barcode = row.reference
  /\ db.balances[p].min # None /\ db.items[p] # << >>
  /\ row.category \in db.families \cup {None}
Met(db, row) == \E p \in DOMAIN db.products : MetAt(db, row, p)

(* The product is as the row says.                                         *)
Entitled(row, requires) ==
  [reference |-> row.reference, barcode |-> row.reference,
   name |-> IF row.name = None THEN row.reference ELSE row.name,
   category |-> row.category, alert |-> row.alert, requires |-> requires]
SaysAt(db, row, p) ==
  /\ p \in DOMAIN db.products
  /\ db.products[p] = Entitled(row, db.products[p].requires)
  /\ db.items[p] # << >> /\ db.items[p][1] = TrackOf(db.products[p])
Says(db, row) == \E p \in DOMAIN db.products : SaysAt(db, row, p)

LEMMA KeyAbove ==
  ASSUME NEW db, Fits(db), issued \in Nat
  PROVE  /\ NewKey(db) \in Nat \ {0} /\ NewKey(db) \notin DOMAIN db.products
         /\ NewKey(db) = Cardinality(DOMAIN db.products) + issued + 1
<1>1. Cardinality(DOMAIN db.products) \in Nat
  BY FS_CardinalityType DEF Fits
<1>2. NewKey(db) \in Nat \ {0} /\ NewKey(db) = Cardinality(DOMAIN db.products) + issued + 1
  BY <1>1 DEF NewKey
<1>3. NewKey(db) \notin 1..(NewKey(db) - 1)
  BY <1>2
<1>. QED
  BY <1>2, <1>3 DEF Fits

(* The product a row with a reference is about.                            *)
LEMMA TargetOf ==
  ASSUME NEW db, Fits(db), issued \in Nat, NEW row \in SheetRow, row.reference # None,
         NEW p, p = Target(db, row, NewKey(db))
  PROVE  /\ p \in DOMAIN db.products => db.products[p].reference = row.reference
         /\ p \notin DOMAIN db.products => /\ p = NewKey(db)
                                           /\ \A q \in DOMAIN db.products :
                                                db.products[q].reference # row.reference
<1>1. CASE Matches(db, row) = {}
  BY <1>1, KeyAbove DEF Target, Matches
<1>2. CASE Matches(db, row) # {}
  <2>1. p \in Matches(db, row)
    BY <1>2 DEF Target
  <2>. QED
    BY <2>1 DEF Matches
<1>. QED
  BY <1>1, <1>2

LEMMA FilledIs ==
  ASSUME NEW db, NEW row \in SheetRow, NEW p,
         p \in DOMAIN db.products => db.products[p].reference = row.reference
  PROVE  Filled(db, row, p) =
           Entitled(row, p \in DOMAIN db.products /\ db.products[p].requires)
BY DEF Filled, Entitled

LEMMA EntitledFields ==
  ASSUME NEW row \in SheetRow, NEW b
  PROVE  /\ Entitled(row, b).reference = row.reference
         /\ Entitled(row, b).barcode = row.reference /\ Entitled(row, b).requires = b
         /\ Entitled(row, b).alert = row.alert
BY DEF Entitled

LEMMA EntitledType ==
  ASSUME NEW row \in SheetRow, row.reference # None, NEW b \in BOOLEAN
  PROVE  Entitled(row, b) \in Product /\ TrackOf(Entitled(row, b)) \in Track
<1>1. row.reference \in Codes /\ row.reference \in Names
  BY CatalogueAssumption DEF CatalogueAssumption, SheetRow
<1>2. Entitled(row, b) \in Product
  BY <1>1 DEF Entitled, SheetRow, Product
<1>. QED
  BY <1>2, Outlines

(* What a row that is not refused makes of the tables.                     *)
Brings(db, row, p, next) ==
  LET product == Entitled(row, p \in DOMAIN db.products /\ db.products[p].requires)
      lines == IF p \in DOMAIN db.items THEN db.items[p] ELSE << >>
  IN  /\ p \in DOMAIN db.products => db.products[p].reference = row.reference
      /\ p \notin DOMAIN db.products => /\ p = NewKey(db)
                                        /\ \A q \in DOMAIN db.products :
                                             db.products[q].reference # row.reference
      /\ \A q \in DOMAIN db.products \ {p} : Differ(product, db.products[q])
      /\ next = [products |-> Put(db.products, p, product),
                 items |-> Put(db.items, p, WithFirst(lines, TrackOf(product))),
                 balances |-> Over(StockOf(db, row, p), db.balances),
                 families |-> ({row.category} \ ({None} \cup db.families)) \cup db.families]

LEMMA RowBrings ==
  ASSUME NEW db, Fits(db), issued \in Nat, NEW row \in SheetRow, row.reference # None,
         ~Refuses(db, row, NewKey(db)),
         NEW next, next = Merge(Written(db, row, NewKey(db)), db)
  PROVE  \E p : Brings(db, row, p, next)
<1>. DEFINE p == Target(db, row, NewKey(db))
            product == Entitled(row, p \in DOMAIN db.products /\ db.products[p].requires)
            lines == IF p \in DOMAIN db.items THEN db.items[p] ELSE << >>
<1>1. /\ p \in DOMAIN db.products => db.products[p].reference = row.reference
      /\ p \notin DOMAIN db.products => /\ p = NewKey(db)
                                        /\ \A q \in DOMAIN db.products :
                                             db.products[q].reference # row.reference
  BY TargetOf
<1>2. Filled(db, row, p) = product
  BY <1>1, FilledIs
<1>3. ~Clash(db, p, product)
  BY <1>2 DEF Refuses
<1>4. \A q \in DOMAIN db.products \ {p} : Differ(product, db.products[q])
  BY <1>3, ClashFree
<1>5. Written(db, row, NewKey(db)) =
        [products |-> One(p, product), items |-> One(p, WithFirst(lines, TrackOf(product))),
         balances |-> StockOf(db, row, p), families |-> {row.category} \ ({None} \cup db.families)]
  BY <1>2 DEF Written
<1>. HIDE DEF p, product, lines
<1>6. next = [products |-> Put(db.products, p, product),
              items |-> Put(db.items, p, WithFirst(lines, TrackOf(product))),
              balances |-> Over(StockOf(db, row, p), db.balances),
              families |-> ({row.category} \ ({None} \cup db.families)) \cup db.families]
  BY <1>5 DEF Merge, Put
<1>7. Brings(db, row, p, next)
  BY <1>1, <1>4, <1>6 DEF Brings, product, lines
<1>. QED
  BY <1>7

(* Stock is opened for the product, or given a threshold, or stays.        *)
LEMMA StockBrought ==
  ASSUME NEW db, Fits(db), NEW row \in SheetRow, NEW p
  PROVE  LET after == Over(StockOf(db, row, p), db.balances)
         IN  /\ DOMAIN after = DOMAIN db.balances \cup {p}
             /\ after[p] \in BalanceRow /\ after[p].min # None
             /\ \A q \in DOMAIN db.balances \ {p} : after[q] = db.balances[q]
<1>. DEFINE after == Over(StockOf(db, row, p), db.balances)
<1>1. row.alert # None /\ row.alert \in Alerts /\ row.stock \in Int
  BY CatalogueAssumption DEF CatalogueAssumption, SheetRow
<1>2. CASE p \notin DOMAIN db.balances
  <2>. DEFINE opened == [quantity |-> row.stock, min |-> row.alert]
  <2>1. after = Put(db.balances, p, opened)
    BY <1>2 DEF StockOf, Put
  <2>2. opened \in BalanceRow /\ opened.min = row.alert
    BY <1>1 DEF BalanceRow
  <2>. HIDE DEF opened
  <2>. QED
    BY <1>1, <2>1, <2>2 DEF Put, One, Over
<1>3. CASE p \in DOMAIN db.balances /\ db.balances[p].min = None
  <2>. DEFINE given == [db.balances[p] EXCEPT !.min = row.alert]
  <2>1. after = Put(db.balances, p, given)
    BY <1>3 DEF StockOf, Put
  <2>2. db.balances[p] \in BalanceRow
    BY <1>3 DEF Fits
  <2>3. given \in BalanceRow /\ given.min = row.alert
    BY <1>1, <2>2 DEF BalanceRow
  <2>. HIDE DEF given
  <2>. QED
    BY <1>1, <1>3, <2>1, <2>3 DEF Put, One, Over
<1>4. CASE p \in DOMAIN db.balances /\ db.balances[p].min # None
  <2>1. after = Over(Nothing, db.balances)
    BY <1>4 DEF StockOf
  <2>2. DOMAIN Nothing = {}
    BY DEF Nothing
  <2>. QED
    BY <1>4, <2>1, <2>2 DEF Fits, Over
<1>. QED
  BY <1>2, <1>3, <1>4

LEMMA BroughtTables ==
  ASSUME NEW db, Fits(db), issued \in Nat, NEW row \in SheetRow, row.reference # None,
         NEW p, NEW next, Brings(db, row, p, next)
  PROVE  /\ DOMAIN next.products = DOMAIN db.products \cup {p}
         /\ DOMAIN next.items = DOMAIN db.products \cup {p}
         /\ next.items[p] \in Seq(Track)
         /\ next.products[p] =
              Entitled(row, p \in DOMAIN db.products /\ db.products[p].requires)
         /\ next.products[p] \in Product
         /\ next.items[p] # << >> /\ next.items[p][1] = TrackOf(next.products[p])
         /\ p \in DOMAIN db.products =>
              next.items[p] = WithFirst(db.items[p], TrackOf(next.products[p]))
         /\ \A q \in DOMAIN db.products \ {p} :
              next.products[q] = db.products[q] /\ next.items[q] = db.items[q]
         /\ UniqueIn(next.products)
         /\ next.balances = Over(StockOf(db, row, p), db.balances)
         /\ next.families = ({row.category} \ ({None} \cup db.families)) \cup db.families
<1>. DEFINE product == Entitled(row, p \in DOMAIN db.products /\ db.products[p].requires)
            lines == IF p \in DOMAIN db.items THEN db.items[p] ELSE << >>
            b == p \in DOMAIN db.products /\ db.products[p].requires
<1>1. b \in BOOLEAN
  OBVIOUS
<1>2. product \in Product /\ TrackOf(product) \in Track
  BY <1>1, EntitledType
<1>3. lines \in Seq(Track)
  BY DEF Fits
<1>4. /\ next.products = Put(db.products, p, product)
      /\ next.items = Put(db.items, p, WithFirst(lines, TrackOf(product)))
      /\ next.balances = Over(StockOf(db, row, p), db.balances)
      /\ next.families = ({row.category} \ ({None} \cup db.families)) \cup db.families
      /\ \A q \in DOMAIN db.products \ {p} : Differ(product, db.products[q])
  BY DEF Brings
<1>5. p \in DOMAIN db.products => lines = db.items[p]
  BY DEF Fits
<1>. HIDE DEF product, lines, b
<1>6. /\ WithFirst(lines, TrackOf(product)) \in Seq(Track)
      /\ WithFirst(lines, TrackOf(product)) # << >>
      /\ WithFirst(lines, TrackOf(product))[1] = TrackOf(product)
  BY <1>2, <1>3, FirstOf
<1>7. UniqueIn(next.products)
  BY <1>4, PutUnique DEF Fits
<1>8. /\ DOMAIN next.products = DOMAIN db.products \cup {p}
      /\ next.products[p] = product
      /\ \A q \in DOMAIN db.products \ {p} : next.products[q] = db.products[q]
  BY <1>4 DEF Put, One, Over
<1>9. /\ DOMAIN next.items = DOMAIN db.items \cup {p}
      /\ next.items[p] = WithFirst(lines, TrackOf(product))
      /\ \A q \in DOMAIN db.items \ {p} : next.items[q] = db.items[q]
  BY <1>4 DEF Put, One, Over
<1>10. DOMAIN db.items = DOMAIN db.products
  BY DEF Fits
<1>. QED
  BY <1>2, <1>4, <1>5, <1>6, <1>7, <1>8, <1>9, <1>10 DEF product

(* The tables fit together as before, and the row is in them.              *)
LEMMA BroughtFits ==
  ASSUME NEW db, Fits(db), issued \in Nat, NEW row \in SheetRow, row.reference # None,
         NEW p, NEW next, Brings(db, row, p, next)
  PROVE  Fits(next) /\ MetAt(next, row, p) /\ SaysAt(next, row, p)
<1>. DEFINE n == Cardinality(DOMAIN db.products)
<1>1. /\ DOMAIN next.products = DOMAIN db.products \cup {p}
      /\ DOMAIN next.items = DOMAIN db.products \cup {p}
      /\ next.items[p] \in Seq(Track) /\ next.products[p] \in Product
      /\ next.items[p] # << >> /\ next.items[p][1] = TrackOf(next.products[p])
      /\ \A q \in DOMAIN db.products \ {p} :
           next.products[q] = db.products[q] /\ next.items[q] = db.items[q]
      /\ UniqueIn(next.products)
      /\ next.families = ({row.category} \ ({None} \cup db.families)) \cup db.families
      /\ next.products[p] = Entitled(row, p \in DOMAIN db.products /\ db.products[p].requires)
      /\ next.balances = Over(StockOf(db, row, p), db.balances)
  BY BroughtTables
<1>2. /\ DOMAIN next.balances = DOMAIN db.balances \cup {p}
      /\ next.balances[p] \in BalanceRow /\ next.balances[p].min # None
      /\ \A q \in DOMAIN db.balances \ {p} : next.balances[q] = db.balances[q]
  <2>. DEFINE after == Over(StockOf(db, row, p), db.balances)
  <2>1. next.balances = after
    BY <1>1
  <2>2. /\ DOMAIN after = DOMAIN db.balances \cup {p}
        /\ after[p] \in BalanceRow /\ after[p].min # None
        /\ \A q \in DOMAIN db.balances \ {p} : after[q] = db.balances[q]
    BY StockBrought
  <2>. HIDE DEF after
  <2>. QED
    BY <2>1, <2>2
<1>3. /\ IsFiniteSet(DOMAIN db.products) /\ n \in Nat
      /\ DOMAIN db.products \subseteq 1..(n + issued)
  <2>1. n \in Nat /\ NewKey(db) = n + issued + 1
    BY KeyAbove, FS_CardinalityType DEF Fits
  <2>. QED
    BY <2>1 DEF Fits
<1>4. /\ IsFiniteSet(DOMAIN next.products)
      /\ DOMAIN next.products \subseteq 1..(NewKey(next) - 1)
  <2>1. CASE p \in DOMAIN db.products
    <3>1. DOMAIN next.products = DOMAIN db.products
      BY <1>1, <2>1
    <3>. QED
      BY <3>1 DEF Fits, NewKey
  <2>2. CASE p \notin DOMAIN db.products
    <3>1. p = n + issued + 1
      BY <2>2, KeyAbove DEF Brings
    <3>2. /\ IsFiniteSet(DOMAIN next.products)
          /\ Cardinality(DOMAIN next.products) = n + 1
      <4>1. DOMAIN next.products = DOMAIN db.products \cup {p}
        BY <1>1
      <4>. QED
        BY <1>3, <2>2, <4>1, FS_AddElement
    <3>3. NewKey(next) = n + issued + 2
      BY <1>3, <3>2 DEF NewKey
    <3>. HIDE DEF n
    <3>. QED
      BY <1>1, <1>3, <3>1, <3>2, <3>3
  <2>. QED
    BY <2>1, <2>2
<1>5. /\ \A q \in DOMAIN next.products :
           next.products[q] \in Product /\ next.items[q] \in Seq(Track)
      /\ \A q \in DOMAIN next.balances : next.balances[q] \in BalanceRow
      /\ DOMAIN next.balances \subseteq DOMAIN next.products
  BY <1>1, <1>2 DEF Fits
<1>6. Fits(next)
  BY <1>1, <1>4, <1>5 DEF Fits
<1>7. MetAt(next, row, p)
  BY <1>1, <1>2, EntitledFields DEF MetAt
<1>8. SaysAt(next, row, p)
  BY <1>1, EntitledFields DEF SaysAt
<1>. QED
  BY <1>6, <1>7, <1>8

(* What other rows brought stays.                                          *)
LEMMA BroughtKeeps ==
  ASSUME NEW db, Fits(db), issued \in Nat, NEW row \in SheetRow, row.reference # None,
         NEW p, NEW next, Brings(db, row, p, next), NEW other \in SheetRow
  PROVE  /\ Met(db, other) => Met(next, other)
         /\ Says(db, other) /\ other.reference # row.reference => Says(next, other)
<1>1. /\ DOMAIN next.products = DOMAIN db.products \cup {p}
      /\ next.items[p] # << >>
      /\ next.products[p] = Entitled(row, p \in DOMAIN db.products /\ db.products[p].requires)
      /\ \A q \in DOMAIN db.products \ {p} :
           next.products[q] = db.products[q] /\ next.items[q] = db.items[q]
      /\ next.families = ({row.category} \ ({None} \cup db.families)) \cup db.families
      /\ next.balances = Over(StockOf(db, row, p), db.balances)
  BY BroughtTables
<1>2. /\ DOMAIN next.balances = DOMAIN db.balances \cup {p}
      /\ next.balances[p].min # None
      /\ \A q \in DOMAIN db.balances \ {p} : next.balances[q] = db.balances[q]
  <2>. DEFINE after == Over(StockOf(db, row, p), db.balances)
  <2>1. next.balances = after
    BY <1>1
  <2>2. /\ DOMAIN after = DOMAIN db.balances \cup {p}
        /\ after[p] \in BalanceRow /\ after[p].min # None
        /\ \A q \in DOMAIN db.balances \ {p} : after[q] = db.balances[q]
    BY StockBrought
  <2>. HIDE DEF after
  <2>. QED
    BY <2>1, <2>2
<1>3. p \in DOMAIN db.products => db.products[p].reference = row.reference
  BY DEF Brings
<1>4. ASSUME NEW q, MetAt(db, other, q) PROVE MetAt(next, other, q)
  <2>1. /\ q \in DOMAIN next.products /\ q \in DOMAIN next.balances
        /\ next.balances[q].min # None /\ next.items[q] # << >>
        /\ other.category \in next.families \cup {None}
    BY <1>1, <1>2, <1>4 DEF MetAt
  <2>2. next.products[q].reference = other.reference /\ next.products[q].barcode = other.reference
    <3>1. CASE q = p
      BY <1>1, <1>3, <1>4, <3>1, EntitledFields DEF MetAt
    <3>2. CASE q # p
      BY <1>1, <1>4, <3>2 DEF MetAt
    <3>. QED
      BY <3>1, <3>2
  <2>. QED
    BY <2>1, <2>2 DEF MetAt
<1>5. ASSUME NEW q, SaysAt(db, other, q), other.reference # row.reference
      PROVE  SaysAt(next, other, q)
  <2>1. db.products[q].reference = other.reference
    BY <1>5, EntitledFields DEF SaysAt
  <2>2. q # p
    BY <1>3, <1>5, <2>1 DEF SaysAt
  <2>. QED
    BY <1>1, <1>5, <2>2 DEF SaysAt
<1>. QED
  BY <1>1, <1>4, <1>5 DEF Met, Says

-----------------------------------------------------------------------------
(* A workbook, the first time                                              *)

(* Row j is the last of the first i with its reference.                    *)
IsLastOf(file, i, j) ==
  ~Skips(file[j]) /\ \A k \in 1..i : k > j /\ ~Skips(file[k]) =>
                                      file[k].reference # file[j].reference

Table(f) == [x \in DOMAIN f |-> f[x]]
Tabled(db) ==
  db = [products |-> Table(db.products), items |-> Table(db.items),
        balances |-> Table(db.balances), families |-> db.families]

Brought(start, db, file, i) ==
  /\ Fits(db)
  /\ (\A j \in 1..i : Skips(file[j])) => db = start
  /\ (\E j \in 1..i : ~Skips(file[j])) => Tabled(db)
  /\ \A j \in 1..i : ~Skips(file[j]) => Met(db, file[j])
  /\ \A j \in 1..i : IsLastOf(file, i, j) => Says(db, file[j])

Referenced(file) == \A i \in DOMAIN file : file[i].reference # None \/ Skips(file[i])

LEMMA RowIs ==
  ASSUME NEW file \in Files, Referenced(file), NEW i \in 1..Len(file)
  PROVE  file[i] \in SheetRow /\ (~Skips(file[i]) => file[i].reference # None)
<1>1. file \in Seq(SheetRow)
  BY CatalogueAssumption DEF CatalogueAssumption, SheetRow
<1>2. i \in DOMAIN file /\ file[i] \in SheetRow
  BY <1>1
<1>. QED
  BY <1>2 DEF Referenced

LEMMA OverIsTable == \A f, g : Over(f, g) = Table(Over(f, g))
BY DEF Over, Table

LEMMA BringsTables ==
  ASSUME NEW db, NEW row, NEW p, NEW next, Brings(db, row, p, next)
  PROVE  Tabled(next)
BY OverIsTable DEF Brings, Put, Tabled

LEMMA RowTwice ==
  ASSUME NEW file \in Files, Referenced(file), issued \in Nat, NEW start,
         NEW i \in 1..Len(file), NEW dbs,
         \A db \in dbs : Brought(start, db, file, i - 1), NEW next \in AfterRow(dbs, file[i])
  PROVE  Brought(start, next, file, i)
<1>1. i \in Nat /\ i - 1 \in Nat /\ 1..i = (1..i - 1) \cup {i} /\ i \notin 1..i - 1
  OBVIOUS
<1>2. \A j \in 1..i : file[j] \in SheetRow /\ (~Skips(file[j]) => file[j].reference # None)
  <2>1. \A j \in 1..i : j \in 1..Len(file)
    OBVIOUS
  <2>. QED
    BY <2>1, RowIs
<1>3. CASE Skips(file[i])
  <2>1. Brought(start, next, file, i - 1)
    BY <1>3 DEF AfterRow
  <2>2. \A j \in 1..i : IsLastOf(file, i, j) => j \in 1..i - 1 /\ IsLastOf(file, i - 1, j)
    BY <1>1, <1>3 DEF IsLastOf
  <2>3. \A j \in 1..i : ~Skips(file[j]) => j \in 1..i - 1
    BY <1>1, <1>3
  <2>4. \A j \in 1..i - 1 : j \in 1..i
    BY <1>1
  <2>. QED
    BY <2>1, <2>2, <2>3, <2>4 DEF Brought
<1>4. CASE ~Skips(file[i])
  <2>. DEFINE row == file[i]
  <2>1. PICK db \in dbs : /\ ~Refuses(db, row, NewKey(db))
                          /\ next = Merge(Written(db, row, NewKey(db)), db)
    BY <1>4 DEF AfterRow
  <2>2. Brought(start, db, file, i - 1) /\ Fits(db)
    BY <2>1 DEF Brought
  <2>3. row \in SheetRow /\ row.reference # None
    BY <1>1, <1>2, <1>4
  <2>. HIDE DEF row
  <2>4. PICK p : Brings(db, row, p, next)
    BY <2>1, <2>2, <2>3, RowBrings
  <2>5. Fits(next) /\ MetAt(next, row, p) /\ SaysAt(next, row, p)
    BY <2>2, <2>3, <2>4, BroughtFits
  <2>6. Met(next, row) /\ Says(next, row)
    BY <2>5 DEF Met, Says, MetAt
  <2>7. \A other \in SheetRow :
          /\ Met(db, other) => Met(next, other)
          /\ Says(db, other) /\ other.reference # row.reference => Says(next, other)
    BY <2>2, <2>3, <2>4, BroughtKeeps
  <2>8. Tabled(next)
    BY <2>4, BringsTables
  <2>9. \A j \in 1..i : ~Skips(file[j]) => Met(next, file[j])
    BY <1>1, <1>2, <2>2, <2>6, <2>7 DEF Brought, row
  <2>10. ASSUME NEW j \in 1..i, IsLastOf(file, i, j) PROVE Says(next, file[j])
    <3>1. CASE j = i
      BY <2>6, <3>1 DEF row
    <3>2. CASE j # i
      <4>1. j \in 1..i - 1 /\ IsLastOf(file, i - 1, j)
        BY <1>1, <2>10, <3>2 DEF IsLastOf
      <4>2. file[j].reference # row.reference
        BY <1>1, <1>4, <2>10, <3>2 DEF IsLastOf, row
      <4>3. Says(db, file[j])
        BY <2>2, <4>1 DEF Brought
      <4>. QED
        BY <1>2, <2>7, <4>2, <4>3
    <3>. QED
      BY <3>1, <3>2
  <2>11. ~(\A j \in 1..i : Skips(file[j]))
    BY <1>1, <1>4
  <2>. QED
    BY <2>5, <2>8, <2>9, <2>10, <2>11 DEF Brought
<1>. QED
  BY <1>3, <1>4

LEMMA BookBrought ==
  ASSUME NEW file \in Files, Referenced(file), issued \in Nat, NEW start, Fits(start),
         NEW once \in After(start, file)
  PROVE  Brought(start, once, file, Len(file))
<1>1. Len(file) \in Nat
  BY CatalogueAssumption DEF CatalogueAssumption
<1>2. PICK dbs : /\ dbs[0] = {start}
                 /\ \A i \in 1..Len(file) : dbs[i] = AfterRow(dbs[i - 1], file[i])
                 /\ After(start, file) = dbs[Len(file)]
  BY <1>1, RowsFollow
<1>. DEFINE T == {i \in Nat : i <= Len(file) => \A db \in dbs[i] : Brought(start, db, file, i)}
<1>3. 0 \in T
  <2>1. \A db \in dbs[0] : db = start
    BY <1>2
  <2>2. \A j \in 1..0 : FALSE
    OBVIOUS
  <2>3. Brought(start, start, file, 0)
    BY <2>2 DEF Brought
  <2>. QED
    BY <2>1, <2>3
<1>4. ASSUME NEW i \in Nat, i \in T PROVE i + 1 \in T
  <2>. SUFFICES ASSUME i + 1 <= Len(file), NEW db \in dbs[i + 1]
                PROVE  Brought(start, db, file, i + 1)
    OBVIOUS
  <2>1. i + 1 \in 1..Len(file) /\ (i + 1) - 1 = i
    BY <1>1
  <2>2. db \in AfterRow(dbs[i], file[i + 1])
    BY <1>2, <2>1
  <2>3. \A d \in dbs[i] : Brought(start, d, file, (i + 1) - 1)
    BY <1>1, <1>4, <2>1
  <2>. QED
    BY <2>1, <2>2, <2>3, RowTwice
<1>. HIDE DEF T
<1>5. Len(file) \in T
  BY <1>1, <1>3, <1>4, NaturalsAreAll
<1>. QED
  BY <1>1, <1>2, <1>5 DEF T

-----------------------------------------------------------------------------
(* The second time                                                         *)

(* The lines of a product with another first line, or the same.            *)
SameButFirst(lines, old) ==
  \/ lines = old
  \/ old # << >> /\ \E track \in Track : lines = [old EXCEPT ![1] = track]

(* Of the tables after the first time only products of rows still to come  *)
(* may differ, in what their rows say.                                     *)
Again(once, db, file, i) ==
  /\ Fits(db)
  /\ (\A j \in 1..i : Skips(file[j])) => db = once
  /\ (\E j \in 1..i : ~Skips(file[j])) => Tabled(db)
  /\ DOMAIN db.products = DOMAIN once.products
  /\ db.balances = once.balances /\ db.families = once.families
  /\ \A p \in DOMAIN once.products :
       /\ db.products[p].reference = once.products[p].reference
       /\ db.products[p].barcode = once.products[p].barcode
       /\ db.products[p].requires = once.products[p].requires
       /\ SameButFirst(db.items[p], once.items[p])
       /\ (\A k \in i + 1..Len(file) :
             ~Skips(file[k]) => file[k].reference # once.products[p].reference) =>
          db.products[p] = once.products[p] /\ db.items[p] = once.items[p]

LEMMA FirstLine ==
  ASSUME NEW old \in Seq(Track), old # << >>, NEW lines, SameButFirst(lines, old), NEW track \in Track
  PROVE  /\ WithFirst(lines, track) = [old EXCEPT ![1] = track]
         /\ track = old[1] => WithFirst(lines, track) = old
<1>1. 1 \in DOMAIN old /\ DOMAIN old = 1..Len(old)
  OBVIOUS
<1>2. [old EXCEPT ![1] = old[1]] = old
  BY <1>1
<1>3. WithFirst(lines, track) = [old EXCEPT ![1] = track]
  <2>1. CASE lines = old
    BY <2>1 DEF WithFirst
  <2>2. CASE lines # old
    <3>1. PICK x \in Track : lines = [old EXCEPT ![1] = x]
      BY <2>2 DEF SameButFirst
    <3>2. lines # << >>
      BY <1>1, <3>1
    <3>3. [[old EXCEPT ![1] = x] EXCEPT ![1] = track] = [old EXCEPT ![1] = track]
      BY <1>1
    <3>. QED
      BY <3>1, <3>2, <3>3 DEF WithFirst
  <2>. QED
    BY <2>1, <2>2
<1>. QED
  BY <1>2, <1>3

(* A row finds its product, and no other has its code: it is not refused.  *)
LEMMA NotRefusedAgain ==
  ASSUME NEW db, Fits(db), NEW row \in SheetRow, row.reference # None, NEW q, NEW new,
         q \in DOMAIN db.products, db.products[q].reference = row.reference,
         db.products[q].barcode = row.reference
  PROVE  ~Refuses(db, row, new)
<1>1. \A p \in DOMAIN db.products \ {q} :
        /\ db.products[p].reference # row.reference
        /\ db.products[p].barcode # row.reference
  BY DEF Fits, UniqueIn, Differ
<1>2. Matches(db, row) = {q}
  BY <1>1 DEF Matches
<1>3. Cardinality(Matches(db, row)) = 1
  BY <1>2, FS_Singleton
<1>4. Target(db, row, new) = q
  BY <1>2 DEF Target
<1>5. Filled(db, row, q) = Entitled(row, q \in DOMAIN db.products /\ db.products[q].requires)
  BY FilledIs
<1>6. Filled(db, row, q).reference = row.reference /\ Filled(db, row, q).barcode = row.reference
  BY <1>5, EntitledFields
<1>7. ~Clash(db, q, Filled(db, row, q))
  BY <1>1, <1>6 DEF Clash
<1>. QED
  BY <1>3, <1>4, <1>7 DEF Refuses

LEMMA RowAgain ==
  ASSUME NEW file \in Files, Referenced(file), issued \in Nat, NEW start, NEW once,
         Brought(start, once, file, Len(file)), NEW i \in 1..Len(file),
         NEW db, Again(once, db, file, i - 1), ~Skips(file[i]),
         NEW next, next = Merge(Written(db, file[i], NewKey(db)), db)
  PROVE  ~Refuses(db, file[i], NewKey(db)) /\ Again(once, next, file, i)
<1>. DEFINE row == file[i]
<1>1. row \in SheetRow /\ row.reference # None
  BY RowIs
<1>2. i \in Nat /\ i \in 1..i /\ (i - 1) + 1 = i /\ Len(file) \in Nat
  OBVIOUS
<1>3. Met(once, row) /\ Fits(once) /\ Tabled(once)
  BY DEF Brought
<1>4. PICK q \in DOMAIN once.products : MetAt(once, row, q)
  BY <1>3 DEF Met
<1>5. /\ q \in DOMAIN once.products /\ q \in DOMAIN once.balances
      /\ once.products[q].reference = row.reference /\ once.products[q].barcode = row.reference
      /\ once.balances[q].min # None /\ once.items[q] # << >>
      /\ row.category \in once.families \cup {None}
  BY <1>4 DEF MetAt
<1>6. /\ Fits(db) /\ DOMAIN db.products = DOMAIN once.products
      /\ db.balances = once.balances /\ db.families = once.families
      /\ db.products[q].reference = row.reference /\ db.products[q].barcode = row.reference
      /\ db.products[q].requires = once.products[q].requires
      /\ SameButFirst(db.items[q], once.items[q])
  BY <1>5 DEF Again
<1>. HIDE DEF row
<1>7. ~Refuses(db, row, NewKey(db))
  BY <1>1, <1>5, <1>6, NotRefusedAgain
<1>8. next = Merge(Written(db, row, NewKey(db)), db)
  BY DEF row
<1>9. PICK p : Brings(db, row, p, next)
  BY <1>1, <1>6, <1>7, <1>8, RowBrings
<1>10. p = q
  <2>1. p \in DOMAIN db.products
    BY <1>5, <1>6, <1>9 DEF Brings
  <2>2. db.products[p].reference = row.reference
    BY <1>9, <2>1 DEF Brings
  <2>. QED
    BY <1>1, <1>5, <1>6, <2>1, <2>2 DEF Fits, UniqueIn, Differ
<1>11. Brings(db, row, q, next)
  BY <1>9, <1>10
<1>12. Fits(next) /\ Tabled(next)
  BY <1>1, <1>6, <1>11, BroughtFits, BringsTables
<1>13. /\ DOMAIN next.products = DOMAIN db.products \cup {q}
       /\ next.products[q] =
            Entitled(row, q \in DOMAIN db.products /\ db.products[q].requires)
       /\ next.products[q] \in Product
       /\ q \in DOMAIN db.products =>
            next.items[q] = WithFirst(db.items[q], TrackOf(next.products[q]))
       /\ \A x \in DOMAIN db.products \ {q} :
            next.products[x] = db.products[x] /\ next.items[x] = db.items[x]
       /\ next.balances = Over(StockOf(db, row, q), db.balances)
       /\ next.families = ({row.category} \ ({None} \cup db.families)) \cup db.families
  BY <1>1, <1>6, <1>11, BroughtTables
<1>14. next.balances = once.balances
  <2>1. StockOf(db, row, q) = Nothing
    BY <1>5, <1>6 DEF StockOf
  <2>2. once.balances = Table(once.balances)
    BY <1>3 DEF Tabled
  <2>3. next.balances = Over(Nothing, once.balances)
    BY <1>6, <1>13, <2>1
  <2>4. DOMAIN Nothing = {}
    BY DEF Nothing
  <2>5. Over(Nothing, once.balances) = Table(once.balances)
    BY <2>4 DEF Over, Table
  <2>. QED
    BY <2>2, <2>3, <2>5
<1>15. next.families = once.families
  BY <1>5, <1>6, <1>13
<1>16. /\ \A x \in DOMAIN once.products \ {q} : once.products[x].reference # row.reference
       /\ once.items[q] \in Seq(Track)
  BY <1>1, <1>3, <1>5 DEF Fits, UniqueIn, Differ
<1>. DEFINE track == TrackOf(next.products[q])
<1>17. next.items[q] = WithFirst(db.items[q], track) /\ track \in Track
  BY <1>5, <1>6, <1>13, Outlines
<1>18. ASSUME \A k \in i + 1..Len(file) : ~Skips(file[k]) => file[k].reference # row.reference
       PROVE  next.products[q] = once.products[q] /\ next.items[q] = once.items[q]
  <2>1. IsLastOf(file, Len(file), i)
    <3>1. \A k \in 1..Len(file) : k > i => k \in i + 1..Len(file)
      OBVIOUS
    <3>. QED
      BY <1>18, <3>1 DEF IsLastOf, row
  <2>2. Says(once, row)
    BY <2>1 DEF Brought, row
  <2>3. PICK x \in DOMAIN once.products : SaysAt(once, row, x)
    BY <2>2 DEF Says
  <2>4. once.products[x].reference = row.reference
    BY <1>1, <2>3, EntitledFields DEF SaysAt
  <2>5. x = q
    BY <1>16, <2>4
  <2>6. /\ once.products[q] = Entitled(row, once.products[q].requires)
        /\ once.items[q][1] = TrackOf(once.products[q])
    BY <2>3, <2>5 DEF SaysAt
  <2>7. (q \in DOMAIN db.products /\ db.products[q].requires) = once.products[q].requires
    <3>1. once.products[q].requires \in BOOLEAN
      BY <1>3, <1>5 DEF Fits, Product
    <3>. QED
      BY <1>5, <1>6, <3>1
  <2>8. next.products[q] = once.products[q]
    BY <1>13, <2>6, <2>7
  <2>9. track = once.items[q][1]
    BY <2>6, <2>8
  <2>. HIDE DEF track
  <2>. QED
    BY <1>5, <1>6, <1>16, <1>17, <2>8, <2>9, FirstLine
<1>19. SameButFirst(next.items[q], once.items[q])
  <2>. HIDE DEF track
  <2>1. next.items[q] = [once.items[q] EXCEPT ![1] = track]
    BY <1>5, <1>6, <1>16, <1>17, FirstLine
  <2>. QED
    BY <1>5, <1>17, <2>1 DEF SameButFirst
<1>20. /\ next.products[q].reference = once.products[q].reference
       /\ next.products[q].barcode = once.products[q].barcode
       /\ next.products[q].requires = once.products[q].requires
  <2>1. (q \in DOMAIN db.products /\ db.products[q].requires) = once.products[q].requires
    <3>1. once.products[q].requires \in BOOLEAN
      BY <1>3, <1>5 DEF Fits, Product
    <3>. QED
      BY <1>5, <1>6, <3>1
  <2>2. next.products[q] = Entitled(row, once.products[q].requires)
    BY <1>13, <2>1
  <2>. QED
    BY <1>1, <1>5, <2>2, EntitledFields
<1>21. ASSUME NEW x \in DOMAIN once.products \ {q}
       PROVE  /\ next.products[x].reference = once.products[x].reference
              /\ next.products[x].barcode = once.products[x].barcode
              /\ next.products[x].requires = once.products[x].requires
              /\ SameButFirst(next.items[x], once.items[x])
              /\ (\A k \in i + 1..Len(file) :
                    ~Skips(file[k]) => file[k].reference # once.products[x].reference) =>
                 next.products[x] = once.products[x] /\ next.items[x] = once.items[x]
  <2>1. next.products[x] = db.products[x] /\ next.items[x] = db.items[x]
    BY <1>6, <1>13
  <2>2. \A k \in (i - 1) + 1..Len(file) : k = i \/ k \in i + 1..Len(file)
    BY <1>2
  <2>3. file[i].reference # once.products[x].reference
    BY <1>16 DEF row
  <2>. QED
    BY <2>1, <2>2, <2>3 DEF Again
<1>22. /\ ~(\A j \in 1..i : Skips(file[j])) /\ DOMAIN next.products = DOMAIN once.products
  BY <1>2, <1>5, <1>6, <1>13
<1>23. Again(once, next, file, i)
  <2>1. \A x \in DOMAIN once.products :
          /\ next.products[x].reference = once.products[x].reference
          /\ next.products[x].barcode = once.products[x].barcode
          /\ next.products[x].requires = once.products[x].requires
          /\ SameButFirst(next.items[x], once.items[x])
          /\ (\A k \in i + 1..Len(file) :
                ~Skips(file[k]) => file[k].reference # once.products[x].reference) =>
             next.products[x] = once.products[x] /\ next.items[x] = once.items[x]
    BY <1>5, <1>18, <1>19, <1>20, <1>21
  <2>. QED
    BY <1>12, <1>14, <1>15, <1>22, <2>1 DEF Again
<1>. QED
  BY <1>7, <1>23 DEF row

LEMMA SkippedAgain ==
  ASSUME NEW file \in Files, NEW once, NEW i \in 1..Len(file), NEW db,
         Again(once, db, file, i - 1), Skips(file[i])
  PROVE  Again(once, db, file, i)
<1>1. \A j \in 1..i : j = i \/ j \in 1..i - 1
  OBVIOUS
<1>2. \A j \in 1..i - 1 : j \in 1..i
  OBVIOUS
<1>3. \A k \in (i - 1) + 1..Len(file) : k = i \/ k \in i + 1..Len(file)
  OBVIOUS
<1>. QED
  BY <1>1, <1>2, <1>3 DEF Again

LEMMA EndsTheSame ==
  ASSUME NEW file \in Files, NEW start, NEW once, Brought(start, once, file, Len(file)),
         NEW db, Again(once, db, file, Len(file))
  PROVE  db = once
<1>1. CASE \A j \in 1..Len(file) : Skips(file[j])
  BY <1>1 DEF Again
<1>2. CASE \E j \in 1..Len(file) : ~Skips(file[j])
  <2>1. Tabled(db) /\ Tabled(once)
    BY <1>2 DEF Again, Brought
  <2>2. Len(file) \in Nat
    BY CatalogueAssumption DEF CatalogueAssumption
  <2>3. \A k \in Len(file) + 1..Len(file) : FALSE
    BY <2>2
  <2>4. \A p \in DOMAIN once.products :
          db.products[p] = once.products[p] /\ db.items[p] = once.items[p]
    BY <2>3 DEF Again
  <2>5. /\ DOMAIN db.products = DOMAIN once.products /\ DOMAIN db.items = DOMAIN once.products
        /\ DOMAIN once.items = DOMAIN once.products
        /\ db.balances = once.balances /\ db.families = once.families
    BY DEF Again, Fits, Brought
  <2>6. Table(db.products) = Table(once.products) /\ Table(db.items) = Table(once.items)
    BY <2>4, <2>5 DEF Table
  <2>. QED
    BY <2>1, <2>5, <2>6 DEF Tabled
<1>. QED
  BY <1>1, <1>2

LEMMA BookAgain ==
  ASSUME NEW file \in Files, Referenced(file), issued \in Nat, NEW start, NEW once,
         Brought(start, once, file, Len(file))
  PROVE  After(once, file) = {once}
<1>1. Len(file) \in Nat
  BY CatalogueAssumption DEF CatalogueAssumption
<1>2. PICK dbs : /\ dbs[0] = {once}
                 /\ \A i \in 1..Len(file) : dbs[i] = AfterRow(dbs[i - 1], file[i])
                 /\ After(once, file) = dbs[Len(file)]
  BY <1>1, RowsFollow
<1>. DEFINE T == {i \in Nat : i <= Len(file) =>
                    \E db : dbs[i] = {db} /\ Again(once, db, file, i)}
<1>3. 0 \in T
  <2>1. \A j \in 1..0 : FALSE
    OBVIOUS
  <2>2. Fits(once)
    BY DEF Brought
  <2>3. Again(once, once, file, 0)
    BY <2>1, <2>2 DEF Again, SameButFirst
  <2>. QED
    BY <1>2, <2>3
<1>4. ASSUME NEW i \in Nat, i \in T PROVE i + 1 \in T
  <2>. SUFFICES ASSUME i + 1 <= Len(file)
                PROVE  \E db : dbs[i + 1] = {db} /\ Again(once, db, file, i + 1)
    OBVIOUS
  <2>1. i + 1 \in 1..Len(file) /\ (i + 1) - 1 = i /\ i <= Len(file)
    BY <1>1
  <2>2. PICK db : dbs[i] = {db} /\ Again(once, db, file, i)
    BY <1>4, <2>1
  <2>3. dbs[i + 1] = AfterRow({db}, file[i + 1]) /\ Again(once, db, file, (i + 1) - 1)
    BY <1>2, <2>1, <2>2
  <2>4. CASE Skips(file[i + 1])
    <3>1. dbs[i + 1] = {db}
      BY <2>3, <2>4 DEF AfterRow
    <3>2. Again(once, db, file, i + 1)
      BY <2>1, <2>3, <2>4, SkippedAgain
    <3>. QED
      BY <3>1, <3>2
  <2>5. CASE ~Skips(file[i + 1])
    <3>. DEFINE next == Merge(Written(db, file[i + 1], NewKey(db)), db)
    <3>1. ~Refuses(db, file[i + 1], NewKey(db)) /\ Again(once, next, file, i + 1)
      BY <2>1, <2>3, <2>5, RowAgain
    <3>2. dbs[i + 1] = {next}
      BY <2>3, <2>5, <3>1 DEF AfterRow
    <3>. QED
      BY <3>1, <3>2
  <2>. QED
    BY <2>4, <2>5
<1>. HIDE DEF T
<1>5. Len(file) \in T
  BY <1>1, <1>3, <1>4, NaturalsAreAll
<1>6. PICK db : dbs[Len(file)] = {db} /\ Again(once, db, file, Len(file))
  BY <1>1, <1>5 DEF T
<1>7. db = once
  BY <1>6, EndsTheSame
<1>. QED
  BY <1>2, <1>6, <1>7

LEMMA SoundFits ==
  ASSUME Sound
  PROVE  Fits(Committed) /\ issued \in Nat
<1>1. /\ DOMAIN products \subseteq 1..issued /\ issued \in Nat
      /\ DOMAIN items = DOMAIN products /\ DOMAIN balances \subseteq DOMAIN products
      /\ \A p \in DOMAIN products : products[p] \in Product /\ items[p] \in Seq(Track)
      /\ \A p \in DOMAIN balances : balances[p] \in BalanceRow
  BY TablesFacts DEF Sound
<1>2. IsFiniteSet(1..issued)
  BY <1>1, FS_Interval
<1>3. IsFiniteSet(DOMAIN products)
  BY <1>1, <1>2, FS_Subset
<1>4. Cardinality(DOMAIN products) \in Nat
  BY <1>3, FS_CardinalityType
<1>5. NewKey(Committed) = Cardinality(DOMAIN products) + issued + 1
  BY CommittedTables DEF NewKey
<1>6. DOMAIN products \subseteq 1..(NewKey(Committed) - 1)
  BY <1>1, <1>4, <1>5
<1>. QED
  BY <1>1, <1>3, <1>6, CommittedTables DEF Fits, Sound

(* Whatever is in the tables, a workbook whose rows all bear a reference   *)
(* is not refused the second time, and changes nothing, although a product *)
(* may have several rows in it.                                            *)
THEOREM ImportsMayBeRepeated == Spec => []ImportAgainChangesNothing
<1>1. Sound => ImportAgainChangesNothing
  <2>. SUFFICES ASSUME Sound, NEW file \in Files,
                       \A i \in DOMAIN file : file[i].reference # None \/ Skips(file[i]),
                       NEW once \in After(Committed, file)
                PROVE  After(once, file) = {once}
    BY DEF ImportAgainChangesNothing
  <2>1. Referenced(file)
    BY DEF Referenced
  <2>. QED
    BY <2>1, SoundFits, BookBrought, BookAgain
<1>. QED
  BY <1>1, CatalogueIsSound, PTL

-----------------------------------------------------------------------------
(* The attendance.                                                         *)

(* Lists and the larger of a number and zero.                              *)
LEMMA Listing ==
  ASSUME NEW S, IsFiniteSet(S)
  PROVE  /\ SetToSeq(S) \in Seq(S) /\ Len(SetToSeq(S)) = Cardinality(S)
         /\ Cardinality(S) \in Nat
         /\ \A x \in S : \E i \in 1..Cardinality(S) : SetToSeq(S)[i] = x
         /\ \A i, j \in 1..Cardinality(S) : SetToSeq(S)[i] = SetToSeq(S)[j] => i = j
<1>. DEFINE n == Cardinality(S)
            f == SetToSeq(S)
<1>1. n \in Nat /\ ExistsBijection(1..n, S)
  BY FS_CardinalityType
<1>2. \E g \in [1..n -> S] : IsInjective(g)
  BY <1>1 DEF ExistsBijection, Bijection, Injection
<1>3. f \in [1..n -> S] /\ IsInjective(f)
  BY <1>2, Zenon DEF SetToSeq
<1>. HIDE DEF f
<1>4. \A i, j \in 1..n : f[i] = f[j] => i = j
  BY <1>1, <1>3 DEF IsInjective
<1>5. f \in Injection(1..n, S)
  BY <1>3 DEF Injection
<1>6. IsFiniteSet(1..n) /\ Cardinality(1..n) = n
  BY <1>1, FS_Interval
<1>7. f \in Surjection(1..n, S)
  BY <1>5, <1>6, FS_Injection
<1>8. \A x \in S : \E i \in 1..n : f[i] = x
  BY <1>7 DEF Surjection
<1>9. f \in Seq(S) /\ Len(f) = n
  <2>. HIDE DEF n
  <2>. QED
    BY <1>1, <1>3
<1>. QED
  BY <1>1, <1>4, <1>8, <1>9 DEF f

LEMMA AboveZero ==
  ASSUME NEW a \in Int
  PROVE  Max({a, 0}) = IF a > 0 THEN a ELSE 0
<1>1. \E x \in {a, 0} : \A y \in {a, 0} : x >= y
  OBVIOUS
<1>2. Max({a, 0}) \in {a, 0} /\ \A y \in {a, 0} : Max({a, 0}) >= y
  BY <1>1 DEF Max
<1>. QED
  BY <1>2

-----------------------------------------------------------------------------
(* The hours of a day and the lateness are numbers.                        *)
LEMMA EntryFields ==
  ASSUME NEW e \in Entry
  PROVE  /\ \A x \in {e.in, e.pause, e.resume, e.out} : x = NoTime \/ x \in 0..(Day - 1)
         /\ e.shift # "off" => StartTimes[e.shift] \in 0..(Day - 1)
         /\ e.status \in {"present", "off", "absent"}
BY AttendanceAssumption DEF AttendanceAssumption, Entry, Times, Shifts

LEMMA DayType == Day \in Nat \ {0} /\ NoTime \notin Nat
BY AttendanceAssumption DEF AttendanceAssumption

LEMMA ForwardType ==
  \A a, b \in 0..(Day - 1) : Forward(a, b) \in 0..(Day - 1) /\ Forward(a, b) \in Nat
BY DayType DEF Forward

LEMMA HoursType ==
  ASSUME NEW e \in Entry
  PROVE  HoursWorked(e) \in Nat
<1>. DEFINE pause == IF NoTime \in {e.pause, e.resume} THEN 0 ELSE Forward(e.pause, e.resume)
            diff == Forward(e.in, e.out) - pause
<1>1. HoursWorked(e) = IF NoTime \in {e.in, e.out} THEN 0 ELSE Max({diff, 0})
  BY DEF HoursWorked
<1>2. pause \in Nat
  <2>1. CASE NoTime \in {e.pause, e.resume}
    BY <2>1
  <2>2. CASE NoTime \notin {e.pause, e.resume}
    <3>1. e.pause \in 0..(Day - 1) /\ e.resume \in 0..(Day - 1)
      BY <2>2, EntryFields
    <3>. QED
      BY <2>2, <3>1, ForwardType
  <2>. QED
    BY <2>1, <2>2
<1>3. CASE NoTime \in {e.in, e.out}
  BY <1>1, <1>3
<1>4. CASE NoTime \notin {e.in, e.out}
  <2>1. Forward(e.in, e.out) \in Nat
    <3>1. e.in \in 0..(Day - 1) /\ e.out \in 0..(Day - 1)
      BY <1>4, EntryFields
    <3>. QED
      BY <3>1, ForwardType
  <2>2. diff \in Int
    BY <1>2, <2>1
  <2>. HIDE DEF diff
  <2>3. Max({diff, 0}) \in Nat
    BY <2>2, AboveZero
  <2>. QED
    BY <1>1, <1>4, <2>3
<1>. QED
  BY <1>3, <1>4

LEMMA DelayType ==
  ASSUME NEW e \in Entry
  PROVE  DelayMinutes(e) \in Nat
<1>1. CASE e.status # "present" \/ e.shift = "off" \/ e.in = NoTime
  BY <1>1 DEF DelayMinutes
<1>2. CASE ~(e.status # "present" \/ e.shift = "off" \/ e.in = NoTime)
  <2>. DEFINE diff == e.in - StartTimes[e.shift]
  <2>1. diff \in Int
    BY <1>2, EntryFields
  <2>2. DelayMinutes(e) = Max({diff, 0})
    BY <1>2 DEF DelayMinutes
  <2>. HIDE DEF diff
  <2>. QED
    BY <2>1, <2>2, AboveZero
<1>. QED
  BY <1>1, <1>2

(* What Model.save makes of a record.                                      *)
Normal(e) == IF e.status = "off" THEN [e EXCEPT !.shift = "off"] ELSE e

LEMMA NormalType ==
  ASSUME NEW e \in Entry
  PROVE  /\ Normal(e) \in Entry
         /\ (e.status = "off" => e.shift = "off") => Normal(e) = e
<1>1. "off" \in Shifts
  BY DEF Shifts
<1>. QED
  BY <1>1 DEF Normal, Entry

LEMMA FromSheetType ==
  ASSUME NEW e \in Entry
  PROVE  /\ FromSheet(e) \in Entry
         /\ FromSheet(e).status = "off" => FromSheet(e).shift = "off"
<1>. DEFINE in == IF e.status = "off" THEN NoTime ELSE e.in
            status == IF e.status = "off" THEN "off"
                      ELSE IF in = NoTime /\ e.out = NoTime THEN "absent" ELSE "present"
            shift == IF "off" \in {status, e.shift} THEN "off"
                     ELSE IF e.shift = "evening" THEN "evening" ELSE "morning"
<1>1. FromSheet(e) = [e EXCEPT !.in = in, !.status = status, !.shift = shift]
  BY DEF FromSheet
<1>2. in \in Times /\ status \in {"present", "off", "absent"} /\ (status = "off" => shift = "off")
  BY DEF Entry, Times
<1>3. shift \in Shifts
  BY AttendanceAssumption DEF AttendanceAssumption, Shifts
<1>. HIDE DEF in, status, shift
<1>4. [e EXCEPT !.in = in, !.status = status, !.shift = shift]
        = [in |-> in, pause |-> e.pause, resume |-> e.resume, out |-> e.out, shift |-> shift,
           status |-> status]
  <2>1. e = [in |-> e.in, pause |-> e.pause, resume |-> e.resume, out |-> e.out,
             shift |-> e.shift, status |-> e.status]
    BY DEF Entry
  <2>. DEFINE e1 == [e EXCEPT !.in = in]
              e2 == [e1 EXCEPT !.status = status]
  <2>2. e1 = [in |-> in, pause |-> e.pause, resume |-> e.resume, out |-> e.out,
              shift |-> e.shift, status |-> e.status]
    BY <2>1
  <2>. HIDE DEF e1
  <2>3. e2 = [in |-> in, pause |-> e.pause, resume |-> e.resume, out |-> e.out,
              shift |-> e.shift, status |-> status]
    BY <2>2
  <2>. HIDE DEF e2
  <2>4. [e2 EXCEPT !.shift = shift]
          = [in |-> in, pause |-> e.pause, resume |-> e.resume, out |-> e.out, shift |-> shift,
             status |-> status]
    BY <2>3
  <2>. QED
    BY <2>4, Zenon DEF e1, e2
<1>5. e.pause \in Times /\ e.resume \in Times /\ e.out \in Times
  BY DEF Entry
<1>. QED
  BY <1>1, <1>2, <1>3, <1>4, <1>5 DEF Entry

(* A record that was not written over by an import has its hours.          *)
Paid(r) == ~r.reimported => r.hours = HoursWorked(r.entry) /\ r.delay = DelayMinutes(r.entry)

LEMMA SavedFields ==
  ASSUME NEW r \in Record
  PROVE  /\ Saved(r) \in Record /\ Paid(Saved(r)) /\ Saved(r).entry = Normal(r.entry)
         /\ Saved(r).store = r.store /\ Saved(r).employee = r.employee
         /\ Saved(r).date = r.date /\ ~Saved(r).reimported /\ ~Saved(r).gone
<1>. DEFINE e == Normal(r.entry)
            h == HoursWorked(e)
            d == DelayMinutes(e)
<1>1. e \in Entry
  BY NormalType DEF Record
<1>2. h \in Nat /\ d \in Nat
  BY <1>1, HoursType, DelayType
<1>3. Saved(r) = [r EXCEPT !.entry = e, !.hours = h, !.delay = d,
                           !.reimported = FALSE, !.gone = FALSE]
  BY DEF Saved, Normal
<1>4. h = HoursWorked(e) /\ d = DelayMinutes(e) /\ e = Normal(r.entry)
  OBVIOUS
<1>. HIDE DEF e, h, d
<1>5. [r EXCEPT !.entry = e, !.hours = h, !.delay = d, !.reimported = FALSE, !.gone = FALSE]
        = [store |-> r.store, employee |-> r.employee, date |-> r.date, entry |-> e,
           hours |-> h, delay |-> d, reimported |-> FALSE, gone |-> FALSE]
  <2>1. r = [store |-> r.store, employee |-> r.employee, date |-> r.date, entry |-> r.entry,
             hours |-> r.hours, delay |-> r.delay, reimported |-> r.reimported, gone |-> r.gone]
    BY DEF Record
  <2>. DEFINE no == FALSE
              Row(x, y, z, i, g) ==
                [store |-> r.store, employee |-> r.employee, date |-> r.date, entry |-> x,
                 hours |-> y, delay |-> z, reimported |-> i, gone |-> g]
              r1 == [r EXCEPT !.entry = e]
              r2 == [r1 EXCEPT !.hours = h]
              r3 == [r2 EXCEPT !.delay = d]
              r4 == [r3 EXCEPT !.reimported = no]
  <2>. HIDE DEF no
  <2>2. r1 = Row(e, r.hours, r.delay, r.reimported, r.gone)
    BY <2>1
  <2>. HIDE DEF r1
  <2>3. r2 = Row(e, h, r.delay, r.reimported, r.gone)
    BY <2>2
  <2>. HIDE DEF r2
  <2>4. r3 = Row(e, h, d, r.reimported, r.gone)
    BY <2>3
  <2>. HIDE DEF r3
  <2>5. r4 = Row(e, h, d, no, r.gone)
    BY <2>4
  <2>. HIDE DEF r4
  <2>6. [r4 EXCEPT !.gone = no] = Row(e, h, d, no, no)
    BY <2>5
  <2>. QED
    BY <2>6, Zenon DEF r1, r2, r3, r4, no
<1>6. /\ r.store \in Stores /\ r.employee \in Nat /\ r.date \in Dates
  BY DEF Record
<1>7. Saved(r) = [store |-> r.store, employee |-> r.employee, date |-> r.date, entry |-> e,
                  hours |-> h, delay |-> d, reimported |-> FALSE, gone |-> FALSE]
  BY <1>3, <1>5, Zenon
<1>8. Saved(r) \in Record
  BY <1>1, <1>2, <1>6, <1>7 DEF Record
<1>9. /\ Saved(r).entry = e /\ Saved(r).hours = h /\ Saved(r).delay = d
      /\ Saved(r).store = r.store /\ Saved(r).employee = r.employee
      /\ Saved(r).date = r.date /\ ~Saved(r).reimported /\ ~Saved(r).gone
  BY <1>7
<1>. QED
  BY <1>4, <1>8, <1>9 DEF Paid

LEMMA RewrittenFields ==
  ASSUME NEW r \in Record, NEW e \in Entry
  PROVE  /\ Rewritten(r, e) \in Record /\ Rewritten(r, e).reimported
         /\ Rewritten(r, e).entry = e /\ Rewritten(r, e).gone = r.gone
         /\ Rewritten(r, e).store = r.store /\ Rewritten(r, e).employee = r.employee
         /\ Rewritten(r, e).date = r.date
BY DEF Rewritten, Record

-----------------------------------------------------------------------------
(* The clock.                                                              *)
LEMMA Turned ==
  ASSUME NEW a \in 0..(Day - 1), NEW k \in 0..(Day - 1)
  PROVE  (k - a) % Day = IF k < a THEN k - a + Day ELSE k - a
<1>. DEFINE x == k - a
            r == x % Day
            q == x \div Day
<1>1. Day \in Nat \ {0} /\ x \in Int /\ -Day < x /\ x < Day
  BY DayType
<1>2. q \in Int /\ r \in 0..(Day - 1) /\ x = Day * q + r
  BY <1>1
<1>3. (x < 0 => x + Day \in 0..(Day - 1)) /\ (x >= 0 => x \in 0..(Day - 1))
  BY <1>1
<1>. HIDE DEF q, r
<1>4. Day * q < Day /\ Day * q > - 2 * Day
  BY <1>1, <1>2
<1>5. q < 1
  BY <1>1, <1>2, <1>4
<1>6. q > -2
  BY <1>1, <1>2, <1>4
<1>7. q = 0 \/ q = -1
  BY <1>2, <1>5, <1>6
<1>8. x = r \/ x = r - Day
  BY <1>1, <1>2, <1>7
<1>. QED
  BY <1>1, <1>2, <1>8 DEF r

LEMMA Walked ==
  ASSUME NEW a \in 0..(Day - 1), NEW b \in 0..(Day - 1)
  PROVE  /\ b >= a => Walk(a, b) = a..(b - 1)
         /\ b < a => Walk(a, b) = (a..(Day - 1)) \cup (0..(b - 1))
<1>1. \A k \in 0..(Day - 1) : (k - a) % Day = IF k < a THEN k - a + Day ELSE k - a
  BY Turned
<1>2. (b - a) % Day = IF b < a THEN b - a + Day ELSE b - a
  BY Turned
<1>3. Walk(a, b) = {k \in 0..(Day - 1) : (IF k < a THEN k - a + Day ELSE k - a)
                                           < (IF b < a THEN b - a + Day ELSE b - a)}
  BY <1>1, <1>2 DEF Walk
<1>. QED
  BY <1>3, DayType

LEMMA WalkCounts ==
  ASSUME NEW a \in 0..(Day - 1), NEW b \in 0..(Day - 1)
  PROVE  IsFiniteSet(Walk(a, b)) /\ Cardinality(Walk(a, b)) = Forward(a, b)
<1>1. CASE b >= a
  <2>1. IsFiniteSet(a..(b - 1)) /\ Cardinality(a..(b - 1)) = IF a > b - 1 THEN 0 ELSE b - 1 - a + 1
    BY FS_Interval
  <2>. QED
    BY <1>1, <2>1, Walked DEF Forward
<1>2. CASE b < a
  <2>. DEFINE late == a..(Day - 1)
              early == 0..(b - 1)
  <2>1. IsFiniteSet(late) /\ Cardinality(late) = IF a > Day - 1 THEN 0 ELSE Day - 1 - a + 1
    BY FS_Interval, DayType
  <2>2. IsFiniteSet(early) /\ Cardinality(early) = IF 0 > b - 1 THEN 0 ELSE b - 1 - 0 + 1
    BY FS_Interval, DayType
  <2>3. late \cap early = {}
    BY <1>2
  <2>4. Walk(a, b) = late \cup early
    BY <1>2, Walked
  <2>. HIDE DEF late, early
  <2>5. /\ IsFiniteSet(late \cup early)
        /\ Cardinality(late \cup early)
             = Cardinality(late) + Cardinality(early) - Cardinality(late \cap early)
    BY <2>1, <2>2, FS_Union
  <2>6. Cardinality(late \cap early) = 0
    BY <2>3, FS_EmptySet
  <2>. QED
    BY <1>2, <2>1, <2>2, <2>4, <2>5, <2>6, DayType DEF Forward
<1>. QED
  BY <1>1, <1>2

(* The hours of an entry are the times on the clock that were worked.      *)
WorkedOn(e) == IF NoTime \in {e.in, e.out} THEN {} ELSE Walk(e.in, e.out)
PauseOf(e) == IF NoTime \in {e.pause, e.resume} THEN {} ELSE Walk(e.pause, e.resume)

LEMMA HoursOfTheClock ==
  ASSUME NEW e \in Entry, PauseOf(e) \subseteq WorkedOn(e)
  PROVE  HoursWorked(e) = Cardinality(WorkedOn(e)) - Cardinality(PauseOf(e))
<1>. DEFINE pause == IF NoTime \in {e.pause, e.resume} THEN 0 ELSE Forward(e.pause, e.resume)
<1>1. IsFiniteSet({}) /\ Cardinality({}) = 0
  BY FS_EmptySet
<1>2. IsFiniteSet(PauseOf(e)) /\ Cardinality(PauseOf(e)) = pause
  <2>1. CASE NoTime \in {e.pause, e.resume}
    BY <1>1, <2>1 DEF PauseOf
  <2>2. CASE NoTime \notin {e.pause, e.resume}
    <3>1. e.pause \in 0..(Day - 1) /\ e.resume \in 0..(Day - 1)
      BY <2>2, EntryFields
    <3>. QED
      BY <2>2, <3>1, WalkCounts DEF PauseOf
  <2>. QED
    BY <2>1, <2>2
<1>3. CASE NoTime \in {e.in, e.out}
  <2>1. WorkedOn(e) = {} /\ PauseOf(e) = {}
    BY <1>3 DEF WorkedOn
  <2>2. HoursWorked(e) = 0
    BY <1>3 DEF HoursWorked
  <2>. QED
    BY <1>1, <2>1, <2>2
<1>4. CASE NoTime \notin {e.in, e.out}
  <2>. DEFINE all == Forward(e.in, e.out)
  <2>1. e.in \in 0..(Day - 1) /\ e.out \in 0..(Day - 1)
    BY <1>4, EntryFields
  <2>2. IsFiniteSet(WorkedOn(e)) /\ Cardinality(WorkedOn(e)) = all /\ all \in Nat
    BY <1>4, <2>1, WalkCounts, ForwardType DEF WorkedOn
  <2>3. pause \in Nat /\ pause <= all
    BY <1>2, <2>2, FS_Subset, FS_CardinalityType
  <2>4. HoursWorked(e) = Max({all - pause, 0})
    BY <1>4 DEF HoursWorked
  <2>. HIDE DEF all, pause
  <2>5. Max({all - pause, 0}) = all - pause
    BY <2>2, <2>3, AboveZero
  <2>. QED
    BY <1>2, <2>2, <2>4, <2>5
<1>. QED
  BY <1>3, <1>4

LateOn(e) ==
  IF e.status = "present" /\ e.shift # "off" /\ e.in # NoTime
  THEN {k \in Walk(StartTimes[e.shift], e.in) : k < e.in} ELSE {}

LEMMA DelayOfTheClock ==
  ASSUME NEW e \in Entry
  PROVE  DelayMinutes(e) = IF e.in = NoTime \/ e.shift = "off" THEN 0
                           ELSE IF e.in < StartTimes[e.shift] THEN 0
                           ELSE Cardinality(LateOn(e))
<1>1. CASE e.in = NoTime \/ e.shift = "off"
  BY <1>1 DEF DelayMinutes
<1>2. CASE ~(e.in = NoTime \/ e.shift = "off") /\ e.status # "present"
  <2>1. LateOn(e) = {} /\ DelayMinutes(e) = 0
    BY <1>2 DEF LateOn, DelayMinutes
  <2>. QED
    BY <1>2, <2>1, FS_EmptySet
<1>3. CASE ~(e.in = NoTime \/ e.shift = "off") /\ e.status = "present"
  <2>. DEFINE start == StartTimes[e.shift]
              diff == e.in - start
  <2>1. e.in \in 0..(Day - 1) /\ start \in 0..(Day - 1)
    BY <1>3, EntryFields
  <2>2. DelayMinutes(e) = Max({diff, 0})
    BY <1>3 DEF DelayMinutes
  <2>3. LateOn(e) = {k \in Walk(start, e.in) : k < e.in}
    BY <1>3 DEF LateOn
  <2>4. diff \in Int
    BY <2>1
  <2>. HIDE DEF diff, start
  <2>5. Max({diff, 0}) = IF diff > 0 THEN diff ELSE 0
    BY <2>4, AboveZero
  <2>6. ASSUME e.in >= start
        PROVE  Cardinality(LateOn(e)) = diff
    <3>1. Walk(start, e.in) = start..(e.in - 1)
      BY <2>1, <2>6, Walked
    <3>2. LateOn(e) = Walk(start, e.in)
      BY <2>1, <2>3, <3>1
    <3>. QED
      BY <2>1, <2>6, <3>2, WalkCounts DEF Forward, diff
  <2>7. /\ e.in < start => diff < 0
        /\ ~(e.in < start) => diff >= 0 /\ e.in >= start
    BY <2>1, <2>4 DEF diff
  <2>. QED
    BY <1>3, <2>2, <2>4, <2>5, <2>6, <2>7 DEF start
<1>. QED
  BY <1>1, <1>2, <1>3

(* What Paid is for.                                                       *)
LEMMA ClockPays ==
  ASSUME records \in Seq(Record), \A r \in DOMAIN records : Paid(records[r])
  PROVE  PaidByTheClock
<1> SUFFICES ASSUME NEW r \in Kept, ~records[r].reimported
    PROVE  LET e == records[r].entry
           IN  /\ PauseOf(e) \subseteq WorkedOn(e) =>
                    records[r].hours = Cardinality(WorkedOn(e)) - Cardinality(PauseOf(e))
               /\ records[r].delay = IF e.in = NoTime \/ e.shift = "off" THEN 0
                                     ELSE IF e.in < StartTimes[e.shift] THEN 0
                                     ELSE Cardinality(LateOn(e))
  BY Zenon DEF PaidByTheClock, PauseOf, WorkedOn, LateOn
<1>1. records[r] \in Record /\ Paid(records[r])
  BY DEF Kept
<1>2. /\ records[r].entry \in Entry
      /\ records[r].hours = HoursWorked(records[r].entry)
      /\ records[r].delay = DelayMinutes(records[r].entry)
  BY <1>1 DEF Record, Paid
<1>. QED
  BY <1>2, HoursOfTheClock, DelayOfTheClock

-----------------------------------------------------------------------------
(* Types.  By where it is, what a request has read or written; n and m are *)
(* the keys of employees and of records given out.                         *)
Spoken == {e \in Entry : e.status = "off" => e.shift = "off"}
Wrote(m) == [id : 0..m, first : Spoken, last : Spoken]

IsEmployeeEdit(p, n) == p \in [op : {"employee"}, id : 1..n, row : Employee]

IsDismissal(p) == p \in [op : {"dismiss"}, staff : SUBSET Nat, days : SUBSET Nat]

IsNewRecord(p, n) ==
  /\ p \in [op : {"record"}, row : Record]
  /\ p.row.employee \in 1..n /\ Paid(p.row) /\ ~p.row.gone

IsRecordEdit(p, n, m) ==
  /\ p \in [op : {"edit"}, id : 1..m, row : Record, homes : {p.homes}]
  /\ p.row.employee \in 1..n
  /\ \A e \in DOMAIN p.homes : e \in 1..n /\ p.homes[e] \in Stores

IsSheetImport(p, n, m) ==
  /\ p \in [op : {"import"}, store : Stores, file : Sheets, next : Nat \ {0},
            fresh : SUBSET FullNames, wrote : {p.wrote}]
  /\ IsFiniteSet(DOMAIN p.wrote)
  /\ \A k \in DOMAIN p.wrote :
       k \in ((1..n) \cup p.fresh) \X Dates /\ p.wrote[k] \in Wrote(m)

IsClosing(p) == p \in [op : {"close"}, stores : SUBSET Stores]

IsDrop(p) ==
  p \in [op : {"drop"}, stores : SUBSET Stores, staff : SUBSET Nat, days : SUBSET Nat]

IsStand(p, n, m) ==
  \/ p = Resting \/ IsEmployeeEdit(p, n) \/ IsDismissal(p) \/ IsNewRecord(p, n)
  \/ IsRecordEdit(p, n, m) \/ IsSheetImport(p, n, m) \/ IsClosing(p) \/ IsDrop(p)

(* The tables.                                                             *)
TypedStaff == employees \in Seq(Employee)

TypedDays ==
  /\ records \in Seq(Record)
  /\ \A r \in DOMAIN records : records[r].employee \in DOMAIN employees /\ Paid(records[r])

TypedStores ==
  /\ stores \subseteq Stores
  /\ papers \in [Stores -> SUBSET Papers] /\ batches \in [Stores -> Nat]
  /\ begun \in 0..MaxRequests

TypedDesks ==
  /\ DOMAIN doing = Desks
  /\ \A t \in Desks : IsStand(doing[t], Len(employees), Len(records))

Typical == TypedStaff /\ TypedDays /\ TypedStores /\ TypedDesks

LEMMA Keys ==
  ASSUME TypedStaff, TypedDays
  PROVE  /\ Len(employees) \in Nat /\ DOMAIN employees = 1..Len(employees)
         /\ Len(records) \in Nat /\ DOMAIN records = 1..Len(records)
         /\ \A e \in DOMAIN employees : employees[e] \in Employee
         /\ \A r \in DOMAIN records : records[r] \in Record
         /\ Hired \subseteq DOMAIN employees /\ Kept \subseteq DOMAIN records
         /\ Kept \subseteq Nat /\ Hired \subseteq Nat /\ 0 \notin Kept /\ 0 \notin Hired
BY DEF TypedStaff, TypedDays, Hired, Kept

LEMMA StandFields ==
  ASSUME Typical, NEW t \in Desks
  PROVE  /\ Does(t, "employee") => IsEmployeeEdit(doing[t], Len(employees))
         /\ Does(t, "dismiss") => IsDismissal(doing[t])
         /\ Does(t, "record") => IsNewRecord(doing[t], Len(employees))
         /\ Does(t, "edit") => IsRecordEdit(doing[t], Len(employees), Len(records))
         /\ Does(t, "import") => IsSheetImport(doing[t], Len(employees), Len(records))
         /\ Does(t, "close") => IsClosing(doing[t])
         /\ Does(t, "drop") => IsDrop(doing[t])
         /\ Does(t, "idle") => doing[t] = Resting
<1>. DEFINE p == doing[t]
<1>1. IsStand(p, Len(employees), Len(records))
  BY DEF Typical, TypedDesks
<1>. HIDE DEF p
<1>2. /\ p = Resting => p.op = "idle"
      /\ IsEmployeeEdit(p, Len(employees)) => p.op = "employee"
      /\ IsDismissal(p) => p.op = "dismiss"
      /\ IsNewRecord(p, Len(employees)) => p.op = "record"
      /\ IsRecordEdit(p, Len(employees), Len(records)) => p.op = "edit"
      /\ IsSheetImport(p, Len(employees), Len(records)) => p.op = "import"
  BY DEF Resting, IsEmployeeEdit, IsDismissal, IsNewRecord, IsRecordEdit, IsSheetImport
<1>3. /\ IsClosing(p) => p.op = "close"
      /\ IsDrop(p) => p.op = "drop"
  BY DEF IsClosing, IsDrop
<1>. QED
  BY <1>1, <1>2, <1>3 DEF IsStand, Does, p

(* Keys are never given back.                                              *)
LEMMA StandsRemain ==
  ASSUME NEW n \in Nat, NEW m \in Nat, NEW n2 \in Nat, NEW m2 \in Nat, n <= n2, m <= m2,
         NEW p, IsStand(p, n, m)
  PROVE  IsStand(p, n2, m2)
<1>1. 1..n \subseteq 1..n2 /\ 1..m \subseteq 1..m2 /\ 0..m \subseteq 0..m2
  OBVIOUS
<1>2. IsEmployeeEdit(p, n) => IsEmployeeEdit(p, n2)
  BY <1>1 DEF IsEmployeeEdit
<1>3. IsNewRecord(p, n) => IsNewRecord(p, n2)
  BY <1>1 DEF IsNewRecord
<1>4. IsRecordEdit(p, n, m) => IsRecordEdit(p, n2, m2)
  BY <1>1 DEF IsRecordEdit
<1>5. ASSUME IsSheetImport(p, n, m)
      PROVE  IsSheetImport(p, n2, m2)
  <2>1. \A w \in Wrote(m) : w \in Wrote(m2)
    BY <1>1 DEF Wrote
  <2>2. ASSUME NEW k \in DOMAIN p.wrote
        PROVE  k \in ((1..n2) \cup p.fresh) \X Dates /\ p.wrote[k] \in Wrote(m2)
    BY <1>1, <1>5, <2>1 DEF IsSheetImport
  <2>. QED
    BY <1>5, <2>2 DEF IsSheetImport
<1>. QED
  BY <1>2, <1>3, <1>4, <1>5 DEF IsStand

LEMMA Moves ==
  ASSUME DOMAIN doing = Desks, NEW t \in Desks, NEW p, Goes(t, p)
  PROVE  DOMAIN doing' = Desks /\ doing'[t] = p /\ \A s \in Desks \ {t} : doing'[s] = doing[s]
BY DEF Goes

(* Where everybody stands after a step of t, or of nobody.                 *)
LEMMA DesksTyped ==
  ASSUME Typical, TypedStaff', TypedDays',
         Len(employees) <= Len(employees'), Len(records) <= Len(records'),
         \/ doing' = doing
         \/ \E t \in Desks : \E p : Goes(t, p) /\ IsStand(p, Len(employees'), Len(records'))
  PROVE  TypedDesks'
<1>1. /\ Len(employees) \in Nat /\ Len(records) \in Nat
      /\ Len(employees') \in Nat /\ Len(records') \in Nat
  BY Keys DEF Typical, TypedStaff, TypedDays
<1>2. ASSUME NEW s \in Desks PROVE IsStand(doing[s], Len(employees'), Len(records'))
  <2>1. IsStand(doing[s], Len(employees), Len(records))
    BY DEF Typical, TypedDesks
  <2>. QED
    BY <1>1, <2>1, StandsRemain
<1>3. CASE doing' = doing
  BY <1>2, <1>3 DEF Typical, TypedDesks
<1>4. ASSUME NEW t \in Desks, NEW p, Goes(t, p), IsStand(p, Len(employees'), Len(records'))
      PROVE  TypedDesks'
  BY <1>2, <1>4, Moves DEF Typical, TypedDesks
<1>. QED
  BY <1>3, <1>4

(* Rows that are erased.                                                   *)
LEMMA ErasedStaff ==
  ASSUME NEW table \in Seq(Employee), NEW ids
  PROVE  /\ Erase(table, ids) \in Seq(Employee) /\ Len(Erase(table, ids)) = Len(table)
         /\ DOMAIN Erase(table, ids) = DOMAIN table
         /\ \A i \in DOMAIN table :
              /\ Erase(table, ids)[i].store = table[i].store
              /\ Erase(table, ids)[i].moved = table[i].moved
              /\ Erase(table, ids)[i].gone = (table[i].gone \/ i \in ids)
<1>1. ASSUME NEW i \in DOMAIN table
      PROVE  /\ Erase(table, ids)[i] \in Employee
             /\ Erase(table, ids)[i].store = table[i].store
             /\ Erase(table, ids)[i].moved = table[i].moved
             /\ Erase(table, ids)[i].gone = (table[i].gone \/ i \in ids)
  <2>1. table[i] \in Employee
    OBVIOUS
  <2>2. Erase(table, ids)[i] = IF i \in ids THEN [table[i] EXCEPT !.gone = TRUE] ELSE table[i]
    BY DEF Erase
  <2>3. CASE i \in ids
    BY <2>1, <2>2, <2>3 DEF Employee
  <2>4. CASE i \notin ids
    BY <2>1, <2>2, <2>4 DEF Employee
  <2>. QED
    BY <2>3, <2>4
<1>2. DOMAIN Erase(table, ids) = DOMAIN table /\ DOMAIN table = 1..Len(table) /\ Len(table) \in Nat
  BY DEF Erase
<1>3. Erase(table, ids) \in [1..Len(table) -> Employee]
  BY <1>1, <1>2 DEF Erase
<1>4. Erase(table, ids) \in Seq(Employee) /\ Len(Erase(table, ids)) = Len(table)
  BY <1>2, <1>3
<1>. QED
  BY <1>1, <1>2, <1>4

LEMMA ErasedDays ==
  ASSUME NEW table \in Seq(Record), NEW ids
  PROVE  /\ Erase(table, ids) \in Seq(Record) /\ Len(Erase(table, ids)) = Len(table)
         /\ DOMAIN Erase(table, ids) = DOMAIN table
         /\ \A i \in DOMAIN table :
              /\ Erase(table, ids)[i].store = table[i].store
              /\ Erase(table, ids)[i].employee = table[i].employee
              /\ Erase(table, ids)[i].date = table[i].date
              /\ Erase(table, ids)[i].gone = (table[i].gone \/ i \in ids)
              /\ Paid(table[i]) => Paid(Erase(table, ids)[i])
<1>1. ASSUME NEW i \in DOMAIN table
      PROVE  /\ Erase(table, ids)[i] \in Record
             /\ Erase(table, ids)[i].store = table[i].store
             /\ Erase(table, ids)[i].employee = table[i].employee
             /\ Erase(table, ids)[i].date = table[i].date
             /\ Erase(table, ids)[i].gone = (table[i].gone \/ i \in ids)
             /\ Paid(table[i]) => Paid(Erase(table, ids)[i])
  <2>1. table[i] \in Record
    OBVIOUS
  <2>2. Erase(table, ids)[i] = IF i \in ids THEN [table[i] EXCEPT !.gone = TRUE] ELSE table[i]
    BY DEF Erase
  <2>3. CASE i \in ids
    BY <2>1, <2>2, <2>3 DEF Record, Paid
  <2>4. CASE i \notin ids
    BY <2>1, <2>2, <2>4 DEF Record, Paid
  <2>. QED
    BY <2>3, <2>4
<1>2. DOMAIN Erase(table, ids) = DOMAIN table /\ DOMAIN table = 1..Len(table) /\ Len(table) \in Nat
  BY DEF Erase
<1>3. Erase(table, ids) \in [1..Len(table) -> Record]
  BY <1>1, <1>2 DEF Erase
<1>4. Erase(table, ids) \in Seq(Record) /\ Len(Erase(table, ids)) = Len(table)
  BY <1>2, <1>3
<1>. QED
  BY <1>1, <1>2, <1>4


-----------------------------------------------------------------------------
(* New employees of a store.                                               *)
LEMMA NewcomerFields ==
  ASSUME NEW s \in Stores, NEW n \in FullNames
  PROVE  /\ NewEmployee(s, n) \in Employee /\ NewEmployee(s, n).store = s
         /\ NewEmployee(s, n).name = n /\ ~NewEmployee(s, n).moved /\ ~NewEmployee(s, n).gone
BY DEF NewEmployee, Employee

LEMMA Newcomers ==
  ASSUME NEW s \in Stores, NEW N \in SUBSET FullNames
  PROVE  LET new == {NewEmployee(s, n) : n \in N}
         IN  /\ IsFiniteSet(new) /\ new \subseteq Employee
             /\ Cardinality(new) = Cardinality(N) /\ Cardinality(N) \in Nat
<1>. DEFINE new == {NewEmployee(s, n) : n \in N}
            f == [n \in N |-> NewEmployee(s, n)]
<1>1. IsFiniteSet(N)
  BY AttendanceAssumption, FS_Subset DEF AttendanceAssumption
<1>2. new \subseteq Employee
  BY NewcomerFields
<1>3. f \in Surjection(N, new)
  BY DEF Surjection
<1>4. \A n, m \in N : NewEmployee(s, n) = NewEmployee(s, m) => n = m
  BY NewcomerFields
<1>5. f \in Injection(N, new)
  BY <1>4 DEF Injection, IsInjective
<1>6. IsFiniteSet(new) /\ Cardinality(new) = Cardinality(N)
  BY <1>1, <1>3, <1>5, FS_Surjection
<1>. QED
  BY <1>1, <1>2, <1>6, FS_CardinalityType

(* A table of employees with newcomers after it.                           *)
Newly(s, N) == SetToSeq({NewEmployee(s, n) : n \in N})

LEMMA Lined ==
  ASSUME NEW s \in Stores, NEW N \in SUBSET FullNames
  PROVE  /\ Newly(s, N) \in Seq(Employee) /\ Len(Newly(s, N)) = Cardinality(N)
         /\ Cardinality(N) \in Nat
         /\ \A n \in N : \E i \in 1..Cardinality(N) : Newly(s, N)[i] = NewEmployee(s, n)
         /\ \A i \in 1..Cardinality(N) : \E n \in N : Newly(s, N)[i] = NewEmployee(s, n)
         /\ \A i, j \in 1..Cardinality(N) : Newly(s, N)[i] = Newly(s, N)[j] => i = j
<1>. DEFINE new == {NewEmployee(s, n) : n \in N}
            c == Cardinality(N)
<1>1. IsFiniteSet(new) /\ new \subseteq Employee /\ Cardinality(new) = c /\ c \in Nat
  BY Newcomers
<1>2. /\ SetToSeq(new) \in Seq(new) /\ Len(SetToSeq(new)) = c
      /\ \A x \in new : \E i \in 1..c : SetToSeq(new)[i] = x
      /\ \A i, j \in 1..c : SetToSeq(new)[i] = SetToSeq(new)[j] => i = j
  BY <1>1, Listing
<1>3. SetToSeq(new) \in Seq(Employee)
  BY <1>1, <1>2, SeqMonotonic
<1>4. \A n \in N : NewEmployee(s, n) \in new
  OBVIOUS
<1>5. \A x \in new : \E n \in N : x = NewEmployee(s, n)
  OBVIOUS
<1>6. Newly(s, N) = SetToSeq(new)
  BY DEF Newly
<1>. HIDE DEF new, c
<1>7. \A i \in 1..c : SetToSeq(new)[i] \in new
  BY <1>1, <1>2
<1>8. \A i \in 1..c : \E n \in N : SetToSeq(new)[i] = NewEmployee(s, n)
  BY <1>5, <1>7
<1>9. \A n \in N : \E i \in 1..c : SetToSeq(new)[i] = NewEmployee(s, n)
  BY <1>2, <1>4
<1>. QED
  BY <1>1, <1>2, <1>3, <1>6, <1>8, <1>9 DEF c

IsEnlarged(more, table, s, N) ==
  /\ table \in Seq(Employee) /\ s \in Stores /\ N \subseteq FullNames
  /\ more = table \o Newly(s, N)

LEMMA Enlarged ==
  ASSUME NEW table, NEW s, NEW N, NEW more, IsEnlarged(more, table, s, N)
  PROVE  /\ more \in Seq(Employee) /\ Len(more) = Len(table) + Cardinality(N)
         /\ Cardinality(N) \in Nat /\ Len(table) \in Nat
         /\ \A e \in DOMAIN table : e \in DOMAIN more /\ more[e] = table[e]
         /\ \A e \in DOMAIN more \ DOMAIN table : \E n \in N : more[e] = NewEmployee(s, n)
         /\ \A n \in N : \E e \in DOMAIN more \ DOMAIN table : more[e] = NewEmployee(s, n)
         /\ \A e, f \in DOMAIN more \ DOMAIN table : more[e] = more[f] => e = f
<1>. DEFINE c == Cardinality(N)
            l == Len(table)
            list == Newly(s, N)
            fresh == DOMAIN more \ DOMAIN table
<1>1. /\ list \in Seq(Employee) /\ Len(list) = c /\ c \in Nat
      /\ \A n \in N : \E i \in 1..c : list[i] = NewEmployee(s, n)
      /\ \A i \in 1..c : \E n \in N : list[i] = NewEmployee(s, n)
      /\ \A i, j \in 1..c : list[i] = list[j] => i = j
  BY Lined DEF IsEnlarged
<1>2. more = table \o list /\ table \in Seq(Employee)
  BY DEF IsEnlarged
<1>. HIDE DEF list, c
<1>3. /\ table \o list \in Seq(Employee) /\ Len(table \o list) = l + c /\ l \in Nat
      /\ \A i \in 1..(l + c) : (table \o list)[i] = IF i <= l THEN table[i] ELSE list[i - l]
  <2>1. /\ table \o list \in Seq(Employee) /\ Len(table \o list) = Len(table) + Len(list)
        /\ \A i \in 1..(Len(table) + Len(list)) :
             (table \o list)[i] = IF i <= Len(table) THEN table[i] ELSE list[i - Len(table)]
    <3>1. table \in Seq(Employee) /\ list \in Seq(Employee)
      BY <1>1, <1>2
    <3>. QED
      BY <3>1, ConcatProperties
  <2>2. l \in Nat
    BY <1>2
  <2>. QED
    BY <1>1, <2>1, <2>2, Zenon
<1>4. /\ more \in Seq(Employee) /\ Len(more) = l + c
      /\ \A i \in 1..(l + c) : more[i] = IF i <= l THEN table[i] ELSE list[i - l]
  BY <1>2, <1>3, Zenon
<1>5. DOMAIN more = 1..(l + c) /\ DOMAIN table = 1..l
  BY <1>2, <1>4
<1>. HIDE DEF l
<1>8. \A e \in DOMAIN table : e \in DOMAIN more /\ more[e] = table[e]
  BY <1>1, <1>3, <1>4, <1>5
<1>9. \A e \in fresh : e - l \in 1..c /\ more[e] = list[e - l] /\ e \in Nat
  BY <1>1, <1>3, <1>4, <1>5
<1>10. ASSUME NEW i \in 1..c PROVE l + i \in fresh /\ more[l + i] = list[i]
  <2>1. l + i \in 1..(l + c) /\ ~(l + i <= l) /\ (l + i) - l = i
    BY <1>1, <1>3
  <2>2. more[l + i] = list[(l + i) - l]
    BY <1>4, <2>1
  <2>3. l + i \notin 1..l
    BY <2>1
  <2>. QED
    BY <1>5, <2>1, <2>2, <2>3
<1>11. \A e \in fresh : \E n \in N : more[e] = NewEmployee(s, n)
  BY <1>1, <1>9
<1>12. \A n \in N : \E e \in fresh : more[e] = NewEmployee(s, n)
  BY <1>1, <1>10
<1>13. \A e, f \in fresh : more[e] = more[f] => e = f
  <2>. SUFFICES ASSUME NEW e \in fresh, NEW f \in fresh, more[e] = more[f] PROVE e = f
    OBVIOUS
  <2>1. e - l = f - l
    BY <1>1, <1>9
  <2>2. e \in Nat /\ f \in Nat
    BY <1>9
  <2>. QED
    BY <1>3, <2>1, <2>2
<1>. QED
  BY <1>1, <1>3, <1>4, <1>8, <1>11, <1>12, <1>13 DEF c, l

-----------------------------------------------------------------------------
(* What steps do to the employees: whoever is shown in another store, or   *)
(* was, is marked.                                                         *)
StaffMoves ==
  /\ TypedStaff' /\ Len(employees) <= Len(employees')
  /\ \A e \in DOMAIN employees :
       ~employees'[e].moved => ~employees[e].moved /\ employees'[e].store = employees[e].store

LEMMA StaffStays ==
  ASSUME TypedStaff, employees' = employees
  PROVE  StaffMoves
BY DEF TypedStaff, StaffMoves

LEMMA StaffAdded ==
  ASSUME TypedStaff, NEW s \in Stores, NEW n \in FullNames,
         employees' = Append(employees, NewEmployee(s, n))
  PROVE  StaffMoves
BY NewcomerFields DEF TypedStaff, StaffMoves

LEMMA StaffErased ==
  ASSUME TypedStaff, NEW E, employees' = Erase(employees, E)
  PROVE  StaffMoves
BY ErasedStaff DEF TypedStaff, StaffMoves

LEMMA StaffEnlarged ==
  ASSUME NEW s, NEW N, IsEnlarged(employees', employees, s, N)
  PROVE  StaffMoves
<1>1. /\ employees' \in Seq(Employee) /\ Len(employees') = Len(employees) + Cardinality(N)
      /\ Cardinality(N) \in Nat /\ Len(employees) \in Nat
      /\ \A e \in DOMAIN employees : employees'[e] = employees[e]
  BY Enlarged
<1>. QED
  BY <1>1 DEF TypedStaff, StaffMoves

LEMMA StaffSaved ==
  ASSUME Typical, NEW t \in Desks, SaveEmployee(t)
  PROVE  StaffMoves
<1>. DEFINE id == doing[t].id
            copy == doing[t].row
            old == employees[id]
<1>1. id \in DOMAIN employees /\ copy \in Employee /\ old \in Employee
  BY StandFields, Keys DEF SaveEmployee, Typical, IsEmployeeEdit
<1>2. PICK row \in EmployeeEdits(copy) :
        employees' = IF MayStore(row, id)
                     THEN [employees EXCEPT ![id] =
                             [row EXCEPT !.gone = FALSE, !.moved = old.moved \/ row.store # old.store]]
                     ELSE employees
  BY DEF SaveEmployee
<1>3. row \in Employee
  BY <1>1, <1>2 DEF EmployeeEdits, Employee, Typical, TypedStores
<1>. DEFINE now == [row EXCEPT !.gone = FALSE, !.moved = old.moved \/ row.store # old.store]
            left == old.moved \/ row.store # old.store
<1>4. left \in BOOLEAN
  BY <1>1 DEF Employee
<1>5. now = [row EXCEPT !.gone = FALSE, !.moved = left]
  OBVIOUS
<1>. HIDE DEF left, now
<1>6. now \in Employee /\ now.moved = left /\ now.store = row.store
  BY <1>3, <1>4, <1>5 DEF Employee
<1>7. ~now.moved => ~old.moved /\ now.store = old.store
  BY <1>6 DEF left
<1>8. CASE employees' = employees
  BY <1>8, StaffStays DEF Typical
<1>9. CASE employees' = [employees EXCEPT ![id] = now]
  <2>1. employees \in Seq(Employee) /\ id \in 1..Len(employees)
    BY <1>1 DEF Typical, TypedStaff
  <2>2. /\ employees' \in Seq(Employee) /\ Len(employees') = Len(employees)
        /\ \A e \in DOMAIN employees : employees'[e] = IF e = id THEN now ELSE employees[e]
    BY <1>6, <1>9, <2>1, ExceptSeq
  <2>. QED
    BY <1>7, <2>1, <2>2 DEF StaffMoves, TypedStaff
<1>. QED
  BY <1>2, <1>8, <1>9 DEF now

LEMMA StaffFormed ==
  ASSUME TypedStaff, NEW s \in Stores, NEW typed \in SUBSET FullNames,
         NEW ids \in SUBSET DOMAIN employees, NEW listed \in [ids -> FullNames],
         StoreForm(s, listed, typed)
  PROVE  /\ StaffMoves
         /\ \A e \in DOMAIN employees : /\ employees'[e].gone = employees[e].gone
                                        /\ employees'[e].store = employees[e].store
         /\ \A e \in DOMAIN employees' \ DOMAIN employees : employees'[e].store = s
<1>. DEFINE meant == UNION {Meant(s, listed, n) : n \in typed}
            kept == DOMAIN listed \cup meant
            new == {n \in typed : Meant(s, listed, n) = {}}
            Name(e) == IF e \in DOMAIN listed THEN listed[e]
                       ELSE CHOOSE n \in typed : e \in Meant(s, listed, n)
            Form(e) == IF e \in kept
                       THEN [employees[e] EXCEPT !.name = Name(e), !.active = TRUE]
                       ELSE IF e \in Staff(s) THEN [employees[e] EXCEPT !.active = FALSE]
                       ELSE employees[e]
            form == [e \in DOMAIN employees |-> Form(e)]
<1>1. employees' = form \o Newly(s, new)
  BY DEF StoreForm, Newly
<1>2. new \in SUBSET FullNames
  OBVIOUS
<1>3. ASSUME NEW e \in kept PROVE Name(e) \in FullNames
  <2>1. CASE e \in DOMAIN listed
    BY <2>1
  <2>2. CASE e \notin DOMAIN listed
    <3>1. \E n \in typed : e \in Meant(s, listed, n)
      BY <1>3, <2>2
    <3>. QED
      BY <2>2, <3>1
  <2>. QED
    BY <2>1, <2>2
<1>. HIDE DEF Name, kept, new
<1>4. ASSUME NEW e \in DOMAIN employees
      PROVE  /\ Form(e) \in Employee /\ Form(e).store = employees[e].store
             /\ Form(e).moved = employees[e].moved /\ Form(e).gone = employees[e].gone
  <2>1. employees[e] \in Employee
    BY DEF TypedStaff
  <2>2. CASE e \in kept
    <3>. DEFINE n == Name(e)
                one == [employees[e] EXCEPT !.name = n]
                two == [one EXCEPT !.active = TRUE]
    <3>1. n \in FullNames
      BY <1>3, <2>2
    <3>. HIDE DEF n
    <3>2. /\ one \in Employee /\ one.store = employees[e].store
          /\ one.moved = employees[e].moved /\ one.gone = employees[e].gone
      BY <2>1, <3>1 DEF Employee
    <3>. HIDE DEF one
    <3>3. /\ two \in Employee /\ two.store = one.store
          /\ two.moved = one.moved /\ two.gone = one.gone
      BY <3>2 DEF Employee
    <3>4. Form(e) = two
      BY <2>2 DEF two, one, n
    <3>. QED
      BY <3>2, <3>3, <3>4, Zenon
  <2>3. CASE e \notin kept
    <3>. DEFINE off == [employees[e] EXCEPT !.active = FALSE]
    <3>1. /\ off \in Employee /\ off.store = employees[e].store
          /\ off.moved = employees[e].moved /\ off.gone = employees[e].gone
      BY <2>1 DEF Employee
    <3>2. Form(e) = off \/ Form(e) = employees[e]
      BY <2>3
    <3>. QED
      BY <2>1, <3>1, <3>2, Zenon
  <2>. QED
    BY <2>2, <2>3
<1>. HIDE DEF Form
<1>5. DOMAIN employees = 1..Len(employees) /\ Len(employees) \in Nat
  BY DEF TypedStaff
<1>6. /\ form \in Seq(Employee) /\ Len(form) = Len(employees) /\ DOMAIN form = DOMAIN employees
      /\ \A e \in DOMAIN employees : form[e] = Form(e)
  <2>1. form \in [1..Len(employees) -> Employee]
    BY <1>4, <1>5
  <2>. QED
    BY <1>5, <2>1
<1>. HIDE DEF form
<1>7. IsEnlarged(employees', form, s, new)
  BY <1>1, <1>2, <1>6 DEF IsEnlarged
<1>8. /\ employees' \in Seq(Employee) /\ Len(employees') = Len(form) + Cardinality(new)
      /\ Cardinality(new) \in Nat
      /\ \A e \in DOMAIN form : e \in DOMAIN employees' /\ employees'[e] = form[e]
      /\ \A e \in DOMAIN employees' \ DOMAIN form : \E n \in new : employees'[e] = NewEmployee(s, n)
  BY <1>7, Enlarged
<1>9. \A e \in DOMAIN employees : employees'[e] = Form(e)
  BY <1>6, <1>8
<1>10. ASSUME NEW e \in DOMAIN employees' \ DOMAIN employees PROVE employees'[e].store = s
  <2>1. PICK n \in new : employees'[e] = NewEmployee(s, n)
    BY <1>6, <1>8
  <2>2. n \in FullNames
    BY <1>2
  <2>. QED
    BY <2>1, <2>2, NewcomerFields
<1>11. TypedStaff' /\ Len(employees) <= Len(employees')
  BY <1>5, <1>6, <1>8 DEF TypedStaff
<1>. QED
  BY <1>4, <1>9, <1>10, <1>11 DEF StaffMoves

-----------------------------------------------------------------------------
(* A table of records with new ones after it.                              *)
IsLengthened(more, table, S) ==
  /\ table \in Seq(Record) /\ S \subseteq Record /\ IsFiniteSet(S)
  /\ more = table \o SetToSeq(S)

LEMMA Lengthened ==
  ASSUME NEW table, NEW S, NEW more, IsLengthened(more, table, S)
  PROVE  /\ more \in Seq(Record) /\ Len(more) = Len(table) + Cardinality(S)
         /\ Cardinality(S) \in Nat /\ Len(table) \in Nat
         /\ \A r \in DOMAIN table : r \in DOMAIN more /\ more[r] = table[r]
         /\ \A r \in DOMAIN more \ DOMAIN table : more[r] \in S
         /\ \A x \in S : \E r \in DOMAIN more \ DOMAIN table : more[r] = x
         /\ \A q, r \in DOMAIN more \ DOMAIN table : more[q] = more[r] => q = r
<1>. DEFINE c == Cardinality(S)
            l == Len(table)
            list == SetToSeq(S)
            fresh == DOMAIN more \ DOMAIN table
<1>1. /\ list \in Seq(S) /\ Len(list) = c /\ c \in Nat
      /\ \A x \in S : \E i \in 1..c : list[i] = x
      /\ \A i, j \in 1..c : list[i] = list[j] => i = j
  BY Listing DEF IsLengthened
<1>2. more = table \o list /\ table \in Seq(Record) /\ S \subseteq Record
  BY DEF IsLengthened
<1>. HIDE DEF list, c
<1>3. \A i \in 1..c : list[i] \in S
  BY <1>1
<1>4. list \in Seq(Record)
  BY <1>1, <1>2, SeqMonotonic
<1>5. /\ table \o list \in Seq(Record) /\ Len(table \o list) = Len(table) + Len(list)
      /\ \A i \in 1..(Len(table) + Len(list)) :
           (table \o list)[i] = IF i <= Len(table) THEN table[i] ELSE list[i - Len(table)]
  <2>1. table \in Seq(Record) /\ list \in Seq(Record)
    BY <1>2, <1>4
  <2>. QED
    BY <2>1, ConcatProperties
<1>6. /\ more \in Seq(Record) /\ Len(more) = l + c
      /\ \A i \in 1..(l + c) : more[i] = IF i <= l THEN table[i] ELSE list[i - l]
  BY <1>1, <1>2, <1>5, Zenon
<1>7. DOMAIN more = 1..(l + c) /\ DOMAIN table = 1..l /\ l \in Nat
  BY <1>2, <1>6
<1>. HIDE DEF l
<1>8. \A r \in DOMAIN table : r \in DOMAIN more /\ more[r] = table[r]
  BY <1>1, <1>6, <1>7
<1>9. \A r \in fresh : r - l \in 1..c /\ more[r] = list[r - l] /\ r \in Nat
  BY <1>1, <1>6, <1>7
<1>10. ASSUME NEW i \in 1..c PROVE l + i \in fresh /\ more[l + i] = list[i]
  <2>1. l + i \in 1..(l + c) /\ ~(l + i <= l) /\ (l + i) - l = i
    BY <1>1, <1>7
  <2>2. more[l + i] = list[(l + i) - l]
    BY <1>6, <2>1
  <2>3. l + i \notin 1..l
    BY <2>1
  <2>. QED
    BY <1>7, <2>1, <2>2, <2>3
<1>11. \A r \in fresh : more[r] \in S
  BY <1>3, <1>9
<1>12. \A x \in S : \E r \in fresh : more[r] = x
  BY <1>1, <1>10
<1>13. \A q, r \in fresh : more[q] = more[r] => q = r
  <2>. SUFFICES ASSUME NEW q \in fresh, NEW r \in fresh, more[q] = more[r] PROVE q = r
    OBVIOUS
  <2>1. q - l = r - l
    BY <1>1, <1>9
  <2>2. q \in Nat /\ r \in Nat
    BY <1>9
  <2>. QED
    BY <1>7, <2>1, <2>2
<1>. QED
  BY <1>1, <1>6, <1>7, <1>8, <1>11, <1>12, <1>13 DEF c, l

-----------------------------------------------------------------------------
(* What an import makes of the tables.                                     *)
Updates(tx) == {k \in DOMAIN tx.wrote : tx.wrote[k].id # 0}
Inserts(tx) == DOMAIN tx.wrote \ Updates(tx)

WhoIs(tx, k) ==
  IF k[1] \in DOMAIN employees THEN k[1]
  ELSE CHOOSE e \in DOMAIN Staffed(tx) \ DOMAIN employees : Staffed(tx)[e].name = k[1]

New(tx, k) == Entered(tx, WhoIs(tx, k), k[2], tx.wrote[k])

Touched(tx) ==
  [r \in DOMAIN records |->
     IF \E k \in Updates(tx) : tx.wrote[k].id = r
     THEN Rewritten(records[r], tx.wrote[CHOOSE k \in Updates(tx) : tx.wrote[k].id = r].last)
     ELSE records[r]]

LEMMA RecordedIs ==
  ASSUME NEW tx
  PROVE  Recorded(tx) = Touched(tx) \o SetToSeq({New(tx, k) : k \in Inserts(tx)})
BY Zenon DEF Recorded, Touched, New, WhoIs, Updates, Inserts

IsRosterImport(tx) == IsSheetImport(tx, Len(employees), Len(records))

LEMMA SheetImportFields ==
  ASSUME TypedStaff, TypedDays, NEW tx, IsRosterImport(tx)
  PROVE  /\ tx.store \in Stores /\ tx.fresh \subseteq FullNames /\ IsFiniteSet(DOMAIN tx.wrote)
         /\ tx.file \in Sheets /\ tx.next \in Nat \ {0}
         /\ \A k \in DOMAIN tx.wrote :
              /\ k[1] \in DOMAIN employees \cup tx.fresh /\ k[2] \in Dates /\ k = <<k[1], k[2]>>
              /\ tx.wrote[k].id \in 0..Len(records)
              /\ tx.wrote[k].first \in Spoken /\ tx.wrote[k].last \in Spoken
              /\ k[1] \in Nat <=> k[1] \in DOMAIN employees
              /\ k[1] \in Nat <=> k[1] \notin tx.fresh
<1>1. DOMAIN employees = 1..Len(employees) /\ Len(employees) \in Nat
  BY Keys
<1>2. /\ tx.store \in Stores /\ tx.fresh \subseteq FullNames /\ IsFiniteSet(DOMAIN tx.wrote)
      /\ tx.file \in Sheets /\ tx.next \in Nat \ {0}
  BY DEF IsRosterImport, IsSheetImport
<1>3. \A n \in FullNames : n \notin Nat
  BY AttendanceAssumption DEF AttendanceAssumption
<1>4. ASSUME NEW k \in DOMAIN tx.wrote
      PROVE  /\ k[1] \in DOMAIN employees \cup tx.fresh /\ k[2] \in Dates /\ k = <<k[1], k[2]>>
             /\ tx.wrote[k].id \in 0..Len(records)
             /\ tx.wrote[k].first \in Spoken /\ tx.wrote[k].last \in Spoken
             /\ k[1] \in Nat <=> k[1] \in DOMAIN employees
             /\ k[1] \in Nat <=> k[1] \notin tx.fresh
  <2>1. k \in ((1..Len(employees)) \cup tx.fresh) \X Dates /\ tx.wrote[k] \in Wrote(Len(records))
    BY DEF IsRosterImport, IsSheetImport
  <2>2. /\ tx.wrote[k].id \in 0..Len(records)
        /\ tx.wrote[k].first \in Spoken /\ tx.wrote[k].last \in Spoken
    BY <2>1 DEF Wrote
  <2>. QED
    BY <1>1, <1>2, <1>3, <2>1, <2>2
<1>. QED
  BY <1>2, <1>4

LEMMA InsertsAre ==
  ASSUME NEW t \in Desks
  PROVE  Inserts(doing[t]) = Inserted(t)
BY DEF Inserts, Inserted, Updates

LEMMA StaffedFields ==
  ASSUME TypedStaff, TypedDays, NEW tx, IsRosterImport(tx)
  PROVE  IsEnlarged(Staffed(tx), employees, tx.store, tx.fresh)
BY SheetImportFields DEF IsEnlarged, Staffed, TypedStaff, Newly

(* Whom the records are about.                                             *)
LEMMA WhoFields ==
  ASSUME TypedStaff, TypedDays, NEW tx, IsRosterImport(tx), NEW k \in DOMAIN tx.wrote
  PROVE  /\ WhoIs(tx, k) \in DOMAIN Staffed(tx) /\ WhoIs(tx, k) \in Nat
         /\ k[1] \in Nat => WhoIs(tx, k) = k[1]
         /\ k[1] \notin Nat => /\ WhoIs(tx, k) \notin DOMAIN employees
                               /\ Staffed(tx)[WhoIs(tx, k)] = NewEmployee(tx.store, k[1])
                               /\ k[1] \in tx.fresh
<1>. DEFINE staff == Staffed(tx)
            fresh == DOMAIN staff \ DOMAIN employees
<1>1. /\ staff \in Seq(Employee)
      /\ \A e \in DOMAIN employees : e \in DOMAIN staff /\ staff[e] = employees[e]
      /\ \A e \in fresh : \E n \in tx.fresh : staff[e] = NewEmployee(tx.store, n)
      /\ \A n \in tx.fresh : \E e \in fresh : staff[e] = NewEmployee(tx.store, n)
  BY StaffedFields, Enlarged
<1>. HIDE DEF staff
<1>2. \A n \in tx.fresh : NewEmployee(tx.store, n).name = n
  BY SheetImportFields, NewcomerFields
<1>3. DOMAIN staff \subseteq Nat
  BY <1>1
<1>4. CASE k[1] \in Nat
  <2>1. k[1] \in DOMAIN employees
    BY <1>4, SheetImportFields
  <2>2. WhoIs(tx, k) = k[1]
    BY <2>1 DEF WhoIs
  <2>. QED
    BY <1>1, <1>4, <2>1, <2>2 DEF staff
<1>5. CASE k[1] \notin Nat
  <2>1. k[1] \notin DOMAIN employees /\ k[1] \in tx.fresh
    BY <1>5, SheetImportFields
  <2>2. \E e \in fresh : staff[e].name = k[1]
    BY <1>1, <1>2, <2>1
  <2>3. WhoIs(tx, k) = CHOOSE e \in fresh : staff[e].name = k[1]
    BY <2>1 DEF WhoIs, staff
  <2>4. WhoIs(tx, k) \in fresh /\ staff[WhoIs(tx, k)].name = k[1]
    BY <2>2, <2>3
  <2>5. staff[WhoIs(tx, k)] = NewEmployee(tx.store, k[1])
    BY <1>1, <1>2, <2>4
  <2>. QED
    BY <1>3, <1>5, <2>1, <2>4, <2>5 DEF staff
<1>. QED
  BY <1>4, <1>5

LEMMA WhoIsWho ==
  ASSUME TypedStaff, TypedDays, NEW tx, IsRosterImport(tx), NEW k \in DOMAIN tx.wrote,
         NEW l \in DOMAIN tx.wrote, WhoIs(tx, k) = WhoIs(tx, l)
  PROVE  k[1] = l[1]
<1>2. \A x \in DOMAIN tx.wrote : x[1] \in Nat => WhoIs(tx, x) = x[1] /\ x[1] \in DOMAIN employees
  BY SheetImportFields, WhoFields
<1>3. \A x \in DOMAIN tx.wrote : x[1] \notin Nat =>
        /\ WhoIs(tx, x) \notin DOMAIN employees
        /\ Staffed(tx)[WhoIs(tx, x)].name = x[1]
  <2>. TAKE x \in DOMAIN tx.wrote
  <2>. HAVE x[1] \notin Nat
  <2>1. /\ WhoIs(tx, x) \notin DOMAIN employees
        /\ Staffed(tx)[WhoIs(tx, x)] = NewEmployee(tx.store, x[1]) /\ x[1] \in tx.fresh
    BY WhoFields
  <2>2. NewEmployee(tx.store, x[1]).name = x[1]
    BY <2>1, SheetImportFields, NewcomerFields
  <2>. QED
    BY <2>1, <2>2
<1>. QED
  BY <1>2, <1>3

LEMMA SpokenFields ==
  ASSUME NEW e \in Spoken
  PROVE  e \in Entry /\ Normal(e) = e
BY NormalType DEF Spoken

LEMMA NewFields ==
  ASSUME TypedStaff, TypedDays, NEW tx, IsRosterImport(tx), NEW k \in Inserts(tx)
  PROVE  /\ New(tx, k) \in Record /\ Paid(New(tx, k)) /\ ~New(tx, k).gone
         /\ New(tx, k).store = tx.store /\ New(tx, k).employee = WhoIs(tx, k)
         /\ New(tx, k).date = k[2] /\ New(tx, k).entry = tx.wrote[k].last
<1>. DEFINE w == tx.wrote[k]
            who == WhoIs(tx, k)
            raw == [store |-> tx.store, employee |-> who, date |-> k[2], entry |-> w.first,
                    hours |-> 0, delay |-> 0, reimported |-> FALSE, gone |-> FALSE]
            new == Saved(raw)
<1>1. k \in DOMAIN tx.wrote
  BY DEF Inserts
<1>2. who \in Nat
  BY <1>1, WhoFields
<1>3. tx.store \in Stores /\ k[2] \in Dates /\ w.first \in Spoken /\ w.last \in Spoken
  BY <1>1, SheetImportFields
<1>4. w.first \in Entry /\ Normal(w.first) = w.first /\ w.last \in Entry
  BY <1>3, SpokenFields
<1>. HIDE DEF w, who
<1>5. /\ raw \in Record /\ raw.entry = w.first /\ raw.store = tx.store /\ raw.employee = who
      /\ raw.date = k[2]
  BY <1>2, <1>3, <1>4 DEF Record
<1>. HIDE DEF raw
<1>6. /\ new \in Record /\ Paid(new) /\ new.entry = w.first /\ new.store = tx.store
      /\ new.employee = who /\ new.date = k[2] /\ ~new.gone
  BY <1>4, <1>5, SavedFields
<1>. HIDE DEF new
<1>7. /\ Rewritten(new, w.last) \in Record /\ Rewritten(new, w.last).reimported
      /\ Rewritten(new, w.last).entry = w.last /\ ~Rewritten(new, w.last).gone
      /\ Rewritten(new, w.last).store = tx.store /\ Rewritten(new, w.last).employee = who
      /\ Rewritten(new, w.last).date = k[2]
  BY <1>4, <1>6, RewrittenFields
<1>8. Paid(Rewritten(new, w.last))
  BY <1>7 DEF Paid
<1>9. New(tx, k) = IF w.last = w.first THEN new ELSE Rewritten(new, w.last)
  BY Zenon DEF New, Entered, new, raw, w, who
<1>10. CASE w.last = w.first
  BY <1>6, <1>9, <1>10 DEF w, who
<1>11. CASE w.last # w.first
  BY <1>7, <1>8, <1>9, <1>11 DEF w, who
<1>. QED
  BY <1>10, <1>11

LEMMA TouchedFields ==
  ASSUME TypedStaff, TypedDays, NEW tx, IsRosterImport(tx)
  PROVE  /\ Touched(tx) \in Seq(Record) /\ Len(Touched(tx)) = Len(records)
         /\ DOMAIN Touched(tx) = DOMAIN records
         /\ \A r \in DOMAIN records :
              /\ Touched(tx)[r].store = records[r].store
              /\ Touched(tx)[r].employee = records[r].employee
              /\ Touched(tx)[r].date = records[r].date
              /\ Touched(tx)[r].gone = records[r].gone
              /\ Paid(Touched(tx)[r])
              /\ \A k \in Updates(tx) : tx.wrote[k].id = r =>
                   \E l \in Updates(tx) :
                     tx.wrote[l].id = r /\ Touched(tx)[r].entry = tx.wrote[l].last
<1>1. ASSUME NEW r \in DOMAIN records
      PROVE  /\ Touched(tx)[r] \in Record
             /\ Touched(tx)[r].store = records[r].store
             /\ Touched(tx)[r].employee = records[r].employee
             /\ Touched(tx)[r].date = records[r].date
             /\ Touched(tx)[r].gone = records[r].gone
             /\ Paid(Touched(tx)[r])
             /\ \A k \in Updates(tx) : tx.wrote[k].id = r =>
                  \E l \in Updates(tx) :
                    tx.wrote[l].id = r /\ Touched(tx)[r].entry = tx.wrote[l].last
  <2>. DEFINE hit == \E k \in Updates(tx) : tx.wrote[k].id = r
              l == CHOOSE k \in Updates(tx) : tx.wrote[k].id = r
  <2>1. records[r] \in Record /\ Paid(records[r])
    BY DEF TypedDays
  <2>2. Touched(tx)[r] = IF hit THEN Rewritten(records[r], tx.wrote[l].last) ELSE records[r]
    BY DEF Touched
  <2>3. hit => l \in Updates(tx) /\ tx.wrote[l].id = r
    OBVIOUS
  <2>. HIDE DEF l
  <2>4. CASE hit
    <3>1. l \in DOMAIN tx.wrote
      BY <2>3, <2>4 DEF Updates
    <3>2. tx.wrote[l].last \in Entry
      BY <3>1, SheetImportFields, SpokenFields
    <3>3. Touched(tx)[r] = Rewritten(records[r], tx.wrote[l].last)
      BY <2>2, <2>4
    <3>4. /\ Touched(tx)[r] \in Record /\ Touched(tx)[r].reimported
          /\ Touched(tx)[r].entry = tx.wrote[l].last
          /\ Touched(tx)[r].store = records[r].store
          /\ Touched(tx)[r].employee = records[r].employee
          /\ Touched(tx)[r].date = records[r].date
          /\ Touched(tx)[r].gone = records[r].gone
      BY <2>1, <3>2, <3>3, RewrittenFields
    <3>5. Paid(Touched(tx)[r])
      BY <3>4 DEF Paid
    <3>. QED
      BY <2>3, <2>4, <3>4, <3>5
  <2>5. CASE ~hit
    BY <2>1, <2>2, <2>5
  <2>. QED
    BY <2>4, <2>5
<1>2. DOMAIN Touched(tx) = DOMAIN records /\ DOMAIN records = 1..Len(records) /\ Len(records) \in Nat
  BY DEF Touched, TypedDays
<1>3. Touched(tx) \in [1..Len(records) -> Record]
  BY <1>1, <1>2 DEF Touched
<1>4. Touched(tx) \in Seq(Record) /\ Len(Touched(tx)) = Len(records)
  BY <1>2, <1>3
<1>. QED
  BY <1>1, <1>2, <1>4

LEMMA RecordedFields ==
  ASSUME TypedStaff, TypedDays, NEW tx, IsRosterImport(tx)
  PROVE  LET days == Recorded(tx)
             fresh == DOMAIN days \ DOMAIN records
         IN  /\ days \in Seq(Record) /\ Len(records) <= Len(days)
             /\ \A r \in DOMAIN records : r \in DOMAIN days /\ days[r] = Touched(tx)[r]
             /\ \A r \in fresh : \E k \in Inserts(tx) : days[r] = New(tx, k)
             /\ \A k \in Inserts(tx) : \E r \in fresh : days[r] = New(tx, k)
             /\ \A q, r \in fresh : days[q] = days[r] => q = r
<1>. DEFINE days == Recorded(tx)
            new == {New(tx, k) : k \in Inserts(tx)}
            f == [k \in Inserts(tx) |-> New(tx, k)]
<1>1. IsFiniteSet(Inserts(tx))
  <2>1. IsFiniteSet(DOMAIN tx.wrote) /\ Inserts(tx) \subseteq DOMAIN tx.wrote
    BY SheetImportFields DEF Inserts
  <2>. QED
    BY <2>1, FS_Subset
<1>2. f \in Surjection(Inserts(tx), new)
  BY DEF Surjection
<1>3. IsFiniteSet(new)
  BY <1>1, <1>2, FS_Surjection
<1>4. new \subseteq Record
  BY NewFields
<1>5. IsLengthened(days, Touched(tx), new)
  BY <1>3, <1>4, TouchedFields, RecordedIs DEF IsLengthened
<1>6. \A x \in new : \E k \in Inserts(tx) : x = New(tx, k)
  OBVIOUS
<1>7. \A k \in Inserts(tx) : New(tx, k) \in new
  OBVIOUS
<1>8. DOMAIN Touched(tx) = DOMAIN records /\ Len(Touched(tx)) = Len(records)
  BY TouchedFields
<1>. HIDE DEF days, new
<1>9. /\ days \in Seq(Record) /\ Len(days) = Len(records) + Cardinality(new)
      /\ Cardinality(new) \in Nat /\ Len(records) \in Nat
      /\ \A r \in DOMAIN records : r \in DOMAIN days /\ days[r] = Touched(tx)[r]
      /\ \A r \in DOMAIN days \ DOMAIN records : days[r] \in new
      /\ \A x \in new : \E r \in DOMAIN days \ DOMAIN records : days[r] = x
      /\ \A q, r \in DOMAIN days \ DOMAIN records : days[q] = days[r] => q = r
  <2>. DEFINE was == Touched(tx)
  <2>. HIDE DEF was
  <2>1. IsLengthened(days, was, new)
    BY <1>5 DEF was
  <2>2. /\ days \in Seq(Record) /\ Len(days) = Len(was) + Cardinality(new)
        /\ Cardinality(new) \in Nat /\ Len(was) \in Nat
        /\ \A r \in DOMAIN was : r \in DOMAIN days /\ days[r] = was[r]
        /\ \A r \in DOMAIN days \ DOMAIN was : days[r] \in new
        /\ \A x \in new : \E r \in DOMAIN days \ DOMAIN was : days[r] = x
        /\ \A q, r \in DOMAIN days \ DOMAIN was : days[q] = days[r] => q = r
    BY <2>1, Lengthened
  <2>3. DOMAIN was = DOMAIN records /\ Len(was) = Len(records)
    BY <1>8 DEF was
  <2>. QED
    BY <2>2, <2>3, Zenon DEF was
<1>. QED
  BY <1>6, <1>7, <1>9 DEF days

-----------------------------------------------------------------------------
(* The invariant.  An employee who never changed stores is in this one.    *)
HomeIn(staff, e, s) == ~staff[e].moved => staff[e].store = s

HomedIn(staff, p) ==
  /\ p.op = "record" => HomeIn(staff, p.row.employee, p.row.store)
  /\ p.op = "edit" => \A e \in DOMAIN p.homes : HomeIn(staff, e, p.homes[e])
  /\ p.op = "import" => \A k \in DOMAIN p.wrote : k[1] \in Nat => HomeIn(staff, k[1], p.store)

DaysHomed ==
  \A r \in DOMAIN records : HomeIn(employees, records[r].employee, records[r].store)

DesksHomed == \A t \in Desks : HomedIn(employees, doing[t])

(* unique_employee_attendance_day.                                         *)
Distinct ==
  \A q, r \in Kept :
    /\ records[q].store = records[r].store /\ records[q].employee = records[r].employee
    /\ records[q].date = records[r].date
    => q = r

(* What an import inserts is not there, and no other import inserts it.    *)
KeysFree ==
  \A t \in Importing : \A k \in Inserted(t) :
    k[1] \in Nat => DayFree(doing[t].store, k[1], k[2], 0)

Apart ==
  \A t, u \in Importing : t # u /\ doing[t].store = doing[u].store =>
    \A k \in Inserted(t) \cap Inserted(u) : k[1] \notin Nat

(* The foreign keys.                                                       *)
Referred ==
  /\ \A e \in Hired : employees[e].store \in stores
  /\ \A r \in Kept : records[r].store \in stores /\ records[r].employee \in Hired

HeldHired == \A t \in Importing : \A k \in Inserted(t) : k[1] \in Nat => k[1] \in Hired

(* What an import updates stays there.                                     *)
LocksKept ==
  \A t \in Importing : \A k \in DOMAIN doing[t].wrote :
    LET r == doing[t].wrote[k].id
    IN  r # 0 =>
          /\ r \in Kept /\ records[r].store = doing[t].store
          /\ records[r].employee = k[1] /\ records[r].date = k[2]

(* The last row of a day that an import has read is in what it wrote, or a *)
(* later row of an employee who was renamed is.                            *)
LaterNamed(file, i) ==
  {j \in DOMAIN file : /\ j > i /\ file[j].date = file[i].date
                       /\ Upper[file[j].name] # Upper[file[i].name]}

CoveredIn(tx, i) ==
  \E k \in DOMAIN tx.wrote : \E j \in {i} \cup LaterNamed(tx.file, i) :
    /\ k[2] = tx.file[i].date /\ (k[1] \in Nat \/ k[1] = Upper[tx.file[i].name])
    /\ tx.wrote[k].last = FromSheet(tx.file[j].entry)

Covered ==
  \A t \in Importing : \A i \in DOMAIN doing[t].file :
    i < doing[t].next /\ Final(doing[t].file, i) => CoveredIn(doing[t], i)

AttendanceInv ==
  /\ Typical /\ DaysHomed /\ DesksHomed /\ Distinct /\ KeysFree /\ Apart
  /\ Referred /\ HeldHired /\ LocksKept /\ Covered

-----------------------------------------------------------------------------
(* What a step does to the records, seen by the imports under way: what    *)
(* they update stays, and what they insert is not there.                   *)
DaysMove ==
  /\ TypedDays' /\ Len(records) <= Len(records')
  /\ Distinct' /\ DaysHomed'
  /\ \A r \in HeldRecords \cap Kept :
       /\ r \in Kept' /\ records'[r].store = records[r].store
       /\ records'[r].employee = records[r].employee /\ records'[r].date = records[r].date
  /\ \A r \in Kept' :
       \/ /\ r \in Kept /\ records'[r].store = records[r].store
          /\ records'[r].employee = records[r].employee /\ records'[r].date = records[r].date
       \/ \A t \in Importing :
            /\ doing'[t] = doing[t] /\ doing[t].store = records'[r].store
            => <<records'[r].employee, records'[r].date>> \notin Inserted(t)

(* An import that has written nothing.                                     *)
NotBegun(p) == p.op = "import" => p.wrote = << >> /\ p.next = 1

DesksMove ==
  \A t \in Desks :
    \/ doing'[t] = doing[t]
    \/ NotBegun(doing'[t]) /\ HomedIn(employees', doing'[t])

LEMMA HomeStays ==
  ASSUME StaffMoves, NEW e \in DOMAIN employees, NEW s, HomeIn(employees, e, s)
  PROVE  HomeIn(employees', e, s)
BY DEF StaffMoves, HomeIn

LEMMA HomedStays ==
  ASSUME Typical, StaffMoves, NEW t \in Desks, HomedIn(employees, doing[t])
  PROVE  HomedIn(employees', doing[t])
<1>. DEFINE p == doing[t]
<1>1. DOMAIN employees = 1..Len(employees)
  BY Keys DEF Typical
<1>2. p.op = "record" => HomeIn(employees', p.row.employee, p.row.store)
  <2>. HAVE p.op = "record"
  <2>1. p.row.employee \in DOMAIN employees
    BY <1>1, StandFields DEF Does, IsNewRecord
  <2>. QED
    BY <2>1, HomeStays DEF HomedIn
<1>3. ASSUME p.op = "edit", NEW e \in DOMAIN p.homes
      PROVE  HomeIn(employees', e, p.homes[e])
  <2>1. e \in DOMAIN employees
    BY <1>1, <1>3, StandFields DEF Does, IsRecordEdit
  <2>2. HomeIn(employees, e, p.homes[e])
    BY <1>3 DEF HomedIn
  <2>. QED
    BY <2>1, <2>2, HomeStays
<1>4. ASSUME p.op = "import", NEW k \in DOMAIN p.wrote, k[1] \in Nat
      PROVE  HomeIn(employees', k[1], p.store)
  <2>1. IsRosterImport(p)
    BY <1>4, StandFields DEF Does, IsRosterImport
  <2>2. k[1] \in DOMAIN employees
    BY <1>4, <2>1, SheetImportFields DEF Typical
  <2>3. HomeIn(employees, k[1], p.store)
    BY <1>4 DEF HomedIn
  <2>. QED
    BY <2>2, <2>3, HomeStays
<1>. QED
  BY <1>2, <1>3, <1>4 DEF HomedIn

(* An import that is there after a step was there or has written nothing.  *)
LEMMA ImportsRemain ==
  ASSUME DesksMove, NEW t \in Desks, doing'[t].op = "import"
  PROVE  \/ doing'[t] = doing[t] /\ t \in Importing
         \/ doing'[t].wrote = << >> /\ DOMAIN doing'[t].wrote = {} /\ doing'[t].next = 1
<1>1. DOMAIN << >> = {}
  OBVIOUS
<1>. QED
  BY <1>1 DEF DesksMove, NotBegun, Importing, Does

LEMMA InvStep ==
  ASSUME AttendanceInv, StaffMoves, DaysMove, TypedStores', TypedDesks', DesksMove, Referred',
         \A e \in Hired \cap HeldEmployees : e \in Hired'
  PROVE  AttendanceInv'
<1>1. Typical'
  BY DEF Typical, StaffMoves, DaysMove
<1>2. DaysHomed' /\ Distinct'
  BY DEF DaysMove
<1>3. DesksHomed'
  BY HomedStays DEF AttendanceInv, DesksHomed, DesksMove
<1>. DEFINE Remains(t) == doing'[t] = doing[t] /\ t \in Importing
<1>4. ASSUME NEW t \in Importing' PROVE t \in Desks /\ doing'[t].op = "import"
  BY <1>4 DEF Importing, Does
<1>5. ASSUME NEW t \in Importing', Remains(t) \/ DOMAIN doing'[t].wrote # {}
      PROVE  Remains(t) /\ Inserted(t)' = Inserted(t)
  <2>1. Remains(t)
    BY <1>4, <1>5, ImportsRemain
  <2>. QED
    BY <2>1 DEF Inserted
<1>6. ASSUME NEW t \in Importing', NEW k \in Inserted(t)' PROVE k \in Inserted(t) /\ Remains(t)
  BY <1>5, <1>6 DEF Inserted
<1>7. KeysFree'
  <2>. SUFFICES ASSUME NEW t \in Importing', NEW k \in Inserted(t)', k[1] \in Nat,
                       NEW r \in Kept', records'[r].store = doing'[t].store,
                       records'[r].employee = k[1], records'[r].date = k[2]
                PROVE  FALSE
    BY DEF KeysFree, DayFree
  <2>1. k \in Inserted(t) /\ Remains(t)
    BY <1>6
  <2>2. IsRosterImport(doing[t])
    BY <2>1, StandFields DEF AttendanceInv, Importing, IsRosterImport
  <2>3. k = <<k[1], k[2]>>
    BY <2>1, <2>2, SheetImportFields DEF AttendanceInv, Typical, Inserted
  <2>4. DayFree(doing[t].store, k[1], k[2], 0)
    BY <2>1 DEF AttendanceInv, KeysFree
  <2>5. \A q \in Kept : ~(/\ records[q].store = doing[t].store /\ records[q].employee = k[1]
                          /\ records[q].date = k[2])
    <3>1. 0 \notin Kept
      BY Keys DEF AttendanceInv, Typical
    <3>. QED
      BY <2>4, <3>1 DEF DayFree
  <2>6. ~(/\ r \in Kept /\ records'[r].store = records[r].store
          /\ records'[r].employee = records[r].employee /\ records'[r].date = records[r].date)
    BY <2>1, <2>5
  <2>7. <<records'[r].employee, records'[r].date>> \notin Inserted(t)
    BY <2>1, <2>6 DEF DaysMove
  <2>. QED
    BY <2>1, <2>3, <2>7
<1>8. Apart'
  <2>. SUFFICES ASSUME NEW t \in Importing', NEW u \in Importing', t # u,
                       doing'[t].store = doing'[u].store,
                       NEW k \in Inserted(t)', k \in Inserted(u)'
                PROVE  k[1] \notin Nat
    BY DEF Apart
  <2>. QED
    BY <1>6 DEF AttendanceInv, Apart
<1>9. HeldHired'
  <2>. SUFFICES ASSUME NEW t \in Importing', NEW k \in Inserted(t)', k[1] \in Nat
                PROVE  k[1] \in Hired'
    BY DEF HeldHired
  <2>1. k \in Inserted(t) /\ t \in Importing
    BY <1>6
  <2>2. k[1] \in HeldEmployees /\ k[1] \in Hired
    BY <2>1 DEF HeldEmployees, AttendanceInv, HeldHired
  <2>. QED
    BY <2>2
<1>10. LocksKept'
  <2>. SUFFICES ASSUME NEW t \in Importing', NEW k \in DOMAIN doing'[t].wrote,
                       doing'[t].wrote[k].id # 0
                PROVE  LET r == doing'[t].wrote[k].id
                       IN  /\ r \in Kept' /\ records'[r].store = doing'[t].store
                           /\ records'[r].employee = k[1] /\ records'[r].date = k[2]
    BY DEF LocksKept
  <2>. DEFINE r == doing[t].wrote[k].id
  <2>1. Remains(t)
    BY <1>5
  <2>2. /\ r \in Kept /\ records[r].store = doing[t].store
        /\ records[r].employee = k[1] /\ records[r].date = k[2]
    BY <2>1 DEF AttendanceInv, LocksKept
  <2>3. r \in HeldRecords
    BY <2>1 DEF HeldRecords, Locked
  <2>. QED
    BY <2>1, <2>2, <2>3 DEF DaysMove
<1>11. Covered'
  <2>. SUFFICES ASSUME NEW t \in Importing', NEW i \in DOMAIN doing'[t].file,
                       i < doing'[t].next, Final(doing'[t].file, i)
                PROVE  CoveredIn(doing'[t], i)
    BY DEF Covered
  <2>1. CASE Remains(t)
    BY <2>1 DEF AttendanceInv, Covered
  <2>2. CASE doing'[t].next = 1
    <3>1. TypedDesks' /\ t \in Desks /\ doing'[t].op = "import"
      BY <1>4
    <3>2. doing'[t].file \in Sheets
      <4>1. IsStand(doing'[t], Len(employees'), Len(records'))
        BY <3>1 DEF TypedDesks
      <4>. QED
        BY <3>1, <4>1 DEF IsStand, Resting, IsEmployeeEdit, IsDismissal, IsNewRecord, IsRecordEdit,
             IsSheetImport, IsClosing, IsDrop
    <3>3. i \in Nat \ {0}
      BY <3>2, AttendanceAssumption DEF AttendanceAssumption
    <3>. QED
      BY <2>2, <3>3
  <2>. QED
    BY <1>4, <2>1, <2>2, ImportsRemain
<1>. QED
  BY <1>1, <1>2, <1>3, <1>7, <1>8, <1>9, <1>10, <1>11 DEF AttendanceInv

-----------------------------------------------------------------------------
(* Steps that leave the records, or all the tables, alone.                 *)
LEMMA Employed ==
  ASSUME TypedStaff, StaffMoves
  PROVE  DOMAIN employees \subseteq DOMAIN employees'
<1>1. /\ DOMAIN employees = 1..Len(employees) /\ Len(employees) \in Nat
      /\ DOMAIN employees' = 1..Len(employees') /\ Len(employees') \in Nat
      /\ Len(employees) <= Len(employees')
  BY DEF TypedStaff, StaffMoves
<1>. QED
  BY <1>1

LEMMA DaysStay ==
  ASSUME AttendanceInv, StaffMoves, records' = records
  PROVE  DaysMove
<1>1. Typical /\ TypedStaff /\ TypedDays
  BY DEF AttendanceInv, Typical
<1>2. Kept' = Kept
  BY DEF Kept
<1>3. TypedDays'
  BY <1>1, Employed DEF TypedDays
<1>4. Distinct'
  BY <1>2 DEF AttendanceInv, Distinct
<1>5. DaysHomed'
  <2>. SUFFICES ASSUME NEW r \in DOMAIN records
                PROVE  HomeIn(employees', records[r].employee, records[r].store)
    BY DEF DaysHomed
  <2>1. records[r].employee \in DOMAIN employees /\ HomeIn(employees, records[r].employee, records[r].store)
    BY <1>1 DEF TypedDays, AttendanceInv, DaysHomed
  <2>. QED
    BY <2>1, HomeStays
<1>6. Len(records) \in Nat
  BY <1>1, Keys
<1>. QED
  BY <1>2, <1>3, <1>4, <1>5, <1>6 DEF DaysMove

(* Where a request may go when it reads, or ends.                          *)
MayStand(p, staff, days) ==
  IsStand(p, Len(staff), Len(days)) /\ HomedIn(staff, p) /\ NotBegun(p)

LEMMA RestingFields ==
  ASSUME NEW staff, NEW days
  PROVE  MayStand(Resting, staff, days)
BY DEF MayStand, IsStand, HomedIn, NotBegun, Resting

LEMMA DesksGo ==
  ASSUME AttendanceInv, StaffMoves, DaysMove,
         \/ doing' = doing
         \/ \E t \in Desks : \E p : Goes(t, p) /\ MayStand(p, employees', records')
  PROVE  TypedDesks' /\ DesksMove
<1>1. Typical /\ DOMAIN doing = Desks
  BY DEF AttendanceInv, Typical, TypedDesks
<1>2. /\ TypedStaff' /\ TypedDays'
      /\ Len(employees) <= Len(employees') /\ Len(records) <= Len(records')
  BY DEF StaffMoves, DaysMove
<1>3. CASE doing' = doing
  BY <1>1, <1>2, <1>3, DesksTyped DEF DesksMove
<1>4. ASSUME NEW t \in Desks, NEW p, Goes(t, p), MayStand(p, employees', records')
      PROVE  TypedDesks' /\ DesksMove
  <2>1. IsStand(p, Len(employees'), Len(records')) /\ HomedIn(employees', p) /\ NotBegun(p)
    BY <1>4 DEF MayStand
  <2>2. TypedDesks'
    BY <1>1, <1>2, <1>4, <2>1, DesksTyped
  <2>3. doing'[t] = p /\ \A s \in Desks \ {t} : doing'[s] = doing[s]
    BY <1>1, <1>4, Moves
  <2>4. DesksMove
    BY <2>1, <2>3 DEF DesksMove
  <2>. QED
    BY <2>2, <2>4
<1>. QED
  BY <1>3, <1>4

(* A request that reads, or ends without a change.                         *)
LEMMA QuietStep ==
  ASSUME AttendanceInv, UNCHANGED <<stores, papers, batches, employees, records>>,
         begun' \in 0..MaxRequests,
         NEW t \in Desks, NEW p, Goes(t, p), MayStand(p, employees, records)
  PROVE  AttendanceInv'
<1>1. StaffMoves
  BY StaffStays DEF AttendanceInv, Typical
<1>2. DaysMove
  BY <1>1, DaysStay
<1>3. TypedDesks' /\ DesksMove
  BY <1>1, <1>2, DesksGo
<1>4. TypedStores'
  BY DEF AttendanceInv, Typical, TypedStores
<1>5. Hired' = Hired /\ Kept' = Kept
  BY DEF Hired, Kept
<1>6. Referred'
  BY <1>5 DEF AttendanceInv, Referred
<1>. QED
  BY <1>1, <1>2, <1>3, <1>4, <1>5, <1>6, InvStep

LEMMA RequestBegins ==
  ASSUME AttendanceInv
  PROVE  /\ begun \in 0..MaxRequests
         /\ begun < MaxRequests /\ begun' = begun + 1 => begun' \in 0..MaxRequests
         /\ begun' = begun => begun' \in 0..MaxRequests
BY AttendanceAssumption DEF AttendanceAssumption, AttendanceInv, Typical, TypedStores

(* The steps of a request that only read.                                  *)
LEMMA FetchEmployeeInv ==
  ASSUME AttendanceInv, NEW t \in Desks, NEW e \in DOMAIN employees, FetchEmployee(t, e)
  PROVE  AttendanceInv'
<1>. DEFINE p == [op |-> "employee", id |-> e, row |-> employees[e]]
<1>1. employees[e] \in Employee /\ e \in 1..Len(employees)
  BY Keys DEF AttendanceInv, Typical
<1>2. MayStand(p, employees, records)
  BY <1>1 DEF MayStand, IsStand, IsEmployeeEdit, HomedIn, NotBegun
<1>. QED
  BY <1>2, RequestBegins, QuietStep DEF FetchEmployee, Takes

LEMMA CollectEmployeeInv ==
  ASSUME AttendanceInv, NEW t \in Desks, NEW e \in DOMAIN employees, CollectEmployee(t, e)
  PROVE  AttendanceInv'
<1>. DEFINE p == [op |-> "dismiss", staff |-> {e}, days |-> RecordsOf({e})]
<1>1. e \in Nat /\ RecordsOf({e}) \subseteq Nat
  BY Keys DEF AttendanceInv, Typical, RecordsOf
<1>2. MayStand(p, employees, records)
  BY <1>1 DEF MayStand, IsStand, IsDismissal, HomedIn, NotBegun
<1>. QED
  BY <1>2, RequestBegins, QuietStep DEF CollectEmployee, Takes

LEMMA CheckRecordInv ==
  ASSUME AttendanceInv, NEW t \in Desks, NEW s \in Stores, NEW e \in DOMAIN employees,
         NEW d \in Dates, NEW entry \in Entries, CheckRecord(t, s, e, d, entry)
  PROVE  AttendanceInv'
<1>1. PICK store \in Placed(s, employees[e].store) :
        Goes(t, [op |-> "record",
                 row |-> Saved([store |-> store, employee |-> e, date |-> d, entry |-> entry,
                                hours |-> 0, delay |-> 0, reimported |-> FALSE, gone |-> FALSE])])
  BY DEF CheckRecord
<1>. DEFINE raw == [store |-> store, employee |-> e, date |-> d, entry |-> entry,
                    hours |-> 0, delay |-> 0, reimported |-> FALSE, gone |-> FALSE]
            row == Saved(raw)
            p == [op |-> "record", row |-> row]
<1>2. employees[e] \in Employee /\ e \in 1..Len(employees) /\ e \in Nat
  BY Keys DEF AttendanceInv, Typical
<1>3. store = employees[e].store /\ store \in Stores
  BY <1>1, <1>2 DEF Placed, Employee
<1>4. raw \in Record /\ raw.store = store /\ raw.employee = e
  BY <1>2, <1>3, AttendanceAssumption DEF Record, AttendanceAssumption
<1>. HIDE DEF raw
<1>5. /\ row \in Record /\ Paid(row) /\ ~row.gone /\ row.store = store /\ row.employee = e
  BY <1>4, SavedFields
<1>6. Goes(t, p)
  BY <1>1 DEF raw
<1>. HIDE DEF row
<1>7. MayStand(p, employees, records)
  BY <1>2, <1>3, <1>5 DEF MayStand, IsStand, IsNewRecord, HomedIn, HomeIn, NotBegun
<1>. QED
  BY <1>6, <1>7, RequestBegins, QuietStep DEF CheckRecord, Takes

LEMMA FetchRecordInv ==
  ASSUME AttendanceInv, NEW t \in Desks, NEW r \in DOMAIN records, FetchRecord(t, r)
  PROVE  AttendanceInv'
<1>. DEFINE homes == [e \in Hired |-> employees[e].store]
            p == [op |-> "edit", id |-> r, row |-> records[r], homes |-> homes]
<1>1. records[r] \in Record /\ r \in 1..Len(records) /\ records[r].employee \in 1..Len(employees)
  BY Keys DEF AttendanceInv, Typical, TypedDays
<1>2. \A e \in Hired : employees[e] \in Employee /\ e \in 1..Len(employees)
  BY Keys DEF AttendanceInv, Typical, Hired
<1>3. \A e \in DOMAIN homes :
        e \in 1..Len(employees) /\ homes[e] \in Stores /\ homes[e] = employees[e].store
  BY <1>2 DEF Employee
<1>. HIDE DEF homes
<1>4. p.op = "edit" /\ p.id = r /\ p.row = records[r] /\ p.homes = homes
  OBVIOUS
<1>5. IsRecordEdit(p, Len(employees), Len(records)) /\ HomedIn(employees, p) /\ NotBegun(p)
  BY <1>1, <1>3, <1>4 DEF IsRecordEdit, HomedIn, HomeIn, NotBegun
<1>6. MayStand(p, employees, records)
  BY <1>5 DEF MayStand, IsStand
<1>. QED
  BY <1>6, RequestBegins, QuietStep DEF FetchRecord, Takes, homes

LEMMA OpenImportInv ==
  ASSUME AttendanceInv, NEW t \in Desks, NEW s \in Stores, NEW file \in Sheets,
         OpenImport(t, s, file)
  PROVE  AttendanceInv'
<1>. DEFINE p == [op |-> "import", store |-> s, file |-> file, next |-> 1,
                  fresh |-> {}, wrote |-> << >>]
<1>1. DOMAIN << >> = {}
  OBVIOUS
<1>2. IsFiniteSet(DOMAIN p.wrote) /\ DOMAIN p.wrote = {}
  BY <1>1, FS_EmptySet
<1>3. p \in [op : {"import"}, store : Stores, file : Sheets, next : Nat \ {0},
             fresh : SUBSET FullNames, wrote : {p.wrote}]
  OBVIOUS
<1>4. p.wrote = << >> /\ p.next = 1 /\ p.op = "import"
  OBVIOUS
<1>. HIDE DEF p
<1>5. IsSheetImport(p, Len(employees), Len(records))
  BY <1>2, <1>3 DEF IsSheetImport
<1>6. MayStand(p, employees, records)
  BY <1>2, <1>4, <1>5 DEF MayStand, IsStand, HomedIn, NotBegun
<1>. QED
  BY <1>6, RequestBegins, QuietStep DEF OpenImport, Takes, p

LEMMA AbortImportInv ==
  ASSUME AttendanceInv, NEW t \in Desks, AbortImport(t)
  PROVE  AttendanceInv'
BY RestingFields, RequestBegins, QuietStep DEF AbortImport

LEMMA GuardStoresInv ==
  ASSUME AttendanceInv, NEW t \in Desks, NEW S \in SUBSET Stores, GuardStores(t, S)
  PROVE  AttendanceInv'
<1>. DEFINE p == [op |-> "close", stores |-> S]
<1>1. MayStand(p, employees, records)
  BY DEF MayStand, IsStand, IsClosing, HomedIn, NotBegun
<1>. QED
  BY <1>1, RequestBegins, QuietStep DEF GuardStores, Takes

LEMMA CollectStoresInv ==
  ASSUME AttendanceInv, NEW t \in Desks, CollectStores(t)
  PROVE  AttendanceInv'
<1>. DEFINE S == doing[t].stores
            staff == UNION {Staff(s) : s \in S}
            days == RecordsOf(staff) \cup RecordsIn(S)
            p == [op |-> "drop", stores |-> S, staff |-> staff, days |-> days]
<1>1. S \subseteq Stores
  BY StandFields DEF AttendanceInv, CollectStores, IsClosing
<1>2. staff \subseteq Nat /\ days \subseteq Nat
  <2>1. Hired \subseteq Nat /\ Kept \subseteq Nat
    BY Keys DEF AttendanceInv, Typical
  <2>. QED
    BY <2>1 DEF Staff, RecordsOf, RecordsIn
<1>. HIDE DEF S, staff, days
<1>3. MayStand(p, employees, records)
  BY <1>1, <1>2 DEF MayStand, IsStand, IsDrop, HomedIn, NotBegun
<1>4. Goes(t, Resting) \/ Goes(t, p)
  BY DEF CollectStores, S, staff, days
<1>. QED
  BY <1>3, <1>4, RestingFields, RequestBegins, QuietStep DEF CollectStores

-----------------------------------------------------------------------------
(* Steps that change the employees.                                        *)
LEMMA StaffStep ==
  ASSUME AttendanceInv, StaffMoves, UNCHANGED <<stores, papers, batches, records>>,
         begun' \in 0..MaxRequests,
         doing' = doing \/ \E t \in Desks : Goes(t, Resting),
         \A e \in Hired : e \in Hired', \A e \in Hired' : employees'[e].store \in stores
  PROVE  AttendanceInv'
<1>1. DaysMove
  BY DaysStay
<1>2. TypedDesks' /\ DesksMove
  BY <1>1, DesksGo, RestingFields
<1>3. TypedStores'
  BY DEF AttendanceInv, Typical, TypedStores
<1>4. Kept' = Kept
  BY DEF Kept
<1>5. Referred'
  BY <1>4 DEF AttendanceInv, Referred
<1>. QED
  BY <1>1, <1>2, <1>3, <1>5, InvStep

LEMMA AddEmployeeInv ==
  ASSUME AttendanceInv, NEW s \in Stores, NEW n \in FullNames, AddEmployee(s, n)
  PROVE  AttendanceInv'
<1>. DEFINE row == NewEmployee(s, n)
<1>1. row \in Employee /\ row.store = s /\ ~row.gone /\ s \in stores
  BY NewcomerFields DEF AddEmployee, MayStore
<1>2. employees' = Append(employees, row) /\ UNCHANGED <<stores, papers, batches, records, doing, begun>>
  BY DEF AddEmployee
<1>3. StaffMoves
  BY <1>2, StaffAdded DEF AttendanceInv, Typical
<1>. HIDE DEF row
<1>4. employees \in Seq(Employee)
  BY DEF AttendanceInv, Typical, TypedStaff
<1>5. /\ DOMAIN employees = 1..Len(employees) /\ Len(employees) \in Nat
      /\ DOMAIN employees' = 1..(Len(employees) + 1)
      /\ \A e \in DOMAIN employees : employees'[e] = employees[e]
      /\ employees'[Len(employees) + 1] = row
  BY <1>1, <1>2, <1>4
<1>6. \A e \in Hired : e \in Hired'
  BY <1>5 DEF Hired
<1>7. ASSUME NEW e \in Hired' PROVE employees'[e].store \in stores
  <2>1. e \in Hired \/ e = Len(employees) + 1
    BY <1>5 DEF Hired
  <2>. QED
    BY <1>1, <1>5, <2>1 DEF Hired, AttendanceInv, Referred
<1>. QED
  BY <1>2, <1>3, <1>6, <1>7, RequestBegins, StaffStep

LEMMA SaveEmployeeInv ==
  ASSUME AttendanceInv, NEW t \in Desks, SaveEmployee(t)
  PROVE  AttendanceInv'
<1>. DEFINE id == doing[t].id
            copy == doing[t].row
            old == employees[id]
            Now(row) == [row EXCEPT !.gone = FALSE, !.moved = old.moved \/ row.store # old.store]
<1>1. id \in DOMAIN employees /\ copy \in Employee /\ old \in Employee
  BY StandFields, Keys DEF SaveEmployee, AttendanceInv, Typical, IsEmployeeEdit
<1>2. PICK row \in EmployeeEdits(copy) :
        employees' = IF MayStore(row, id) THEN [employees EXCEPT ![id] = Now(row)] ELSE employees
  BY DEF SaveEmployee
<1>3. row \in Employee
  BY <1>1, <1>2 DEF EmployeeEdits, Employee, AttendanceInv, Typical, TypedStores
<1>. DEFINE left == old.moved \/ row.store # old.store
            now == Now(row)
<1>4. now = [row EXCEPT !.gone = FALSE, !.moved = left] /\ left \in BOOLEAN
  BY <1>1 DEF Employee
<1>. HIDE DEF left, now
<1>5. ~now.gone /\ now.store = row.store
  BY <1>3, <1>4 DEF Employee
<1>6. StaffMoves
  BY StaffSaved DEF AttendanceInv
<1>7. UNCHANGED <<stores, papers, batches, records, begun>> /\ Goes(t, Resting)
  BY DEF SaveEmployee
<1>8. CASE ~MayStore(row, id)
  <2>1. employees' = employees
    BY <1>2, <1>8
  <2>2. Hired' = Hired
    BY <2>1 DEF Hired
  <2>. QED
    BY <1>6, <1>7, <2>1, <2>2, RequestBegins, StaffStep DEF AttendanceInv, Referred
<1>9. CASE MayStore(row, id)
  <2>1. employees' = [employees EXCEPT ![id] = now] /\ row.store \in stores
    BY <1>2, <1>9 DEF now, MayStore
  <2>2. DOMAIN employees' = DOMAIN employees
        /\ \A e \in DOMAIN employees : employees'[e] = IF e = id THEN now ELSE employees[e]
    BY <1>1, <2>1
  <2>3. \A e \in Hired : e \in Hired'
    BY <1>5, <2>2 DEF Hired
  <2>4. \A e \in Hired' : employees'[e].store \in stores
    BY <1>5, <2>1, <2>2 DEF Hired, AttendanceInv, Referred
  <2>. QED
    BY <1>6, <1>7, <2>3, <2>4, RequestBegins, StaffStep
<1>. QED
  BY <1>8, <1>9

LEMMA StoreFormInv ==
  ASSUME AttendanceInv, NEW s \in Stores, NEW typed \in SUBSET FullNames,
         NEW ids \in SUBSET DOMAIN employees, NEW listed \in [ids -> FullNames],
         StoreForm(s, listed, typed)
  PROVE  AttendanceInv'
<1>1. /\ StaffMoves
      /\ \A e \in DOMAIN employees : /\ employees'[e].gone = employees[e].gone
                                     /\ employees'[e].store = employees[e].store
      /\ \A e \in DOMAIN employees' \ DOMAIN employees : employees'[e].store = s
  BY StaffFormed DEF AttendanceInv, Typical
<1>2. DOMAIN employees \subseteq DOMAIN employees'
  BY <1>1, Employed DEF AttendanceInv, Typical
<1>3. /\ UNCHANGED <<stores, papers, batches, records, doing>> /\ s \in stores
      /\ begun < MaxRequests /\ begun' = begun + 1
  BY DEF StoreForm
<1>4. \A e \in Hired : e \in Hired'
  BY <1>1, <1>2 DEF Hired
<1>5. \A e \in Hired' : employees'[e].store \in stores
  BY <1>1, <1>3 DEF Hired, AttendanceInv, Referred
<1>. QED
  BY <1>1, <1>3, <1>4, <1>5, RequestBegins, StaffStep

-----------------------------------------------------------------------------
(* A document is written in a store.                                       *)
LEMMA WritePaperInv ==
  ASSUME AttendanceInv, NEW s \in Stores, NEW kind \in Papers, WritePaper(s, kind)
  PROVE  AttendanceInv'
<1>1. UNCHANGED <<stores, batches, employees, records, doing, begun>>
  BY DEF WritePaper
<1>2. StaffMoves
  BY <1>1, StaffStays DEF AttendanceInv, Typical
<1>3. DaysMove
  BY <1>1, <1>2, DaysStay
<1>4. TypedDesks' /\ DesksMove
  BY <1>1, <1>2, <1>3, DesksGo
<1>5. papers' \in [Stores -> SUBSET Papers]
  BY DEF WritePaper, AttendanceInv, Typical, TypedStores
<1>6. TypedStores'
  BY <1>1, <1>5 DEF AttendanceInv, Typical, TypedStores
<1>7. Hired' = Hired /\ Kept' = Kept
  BY <1>1 DEF Hired, Kept
<1>8. Referred'
  BY <1>1, <1>7 DEF AttendanceInv, Referred
<1>. QED
  BY <1>2, <1>3, <1>4, <1>6, <1>7, <1>8, InvStep

-----------------------------------------------------------------------------
(* Steps that change the records.                                          *)
LEMMA DaysStep ==
  ASSUME AttendanceInv, DaysMove, UNCHANGED <<stores, papers, batches, employees>>,
         begun' \in 0..MaxRequests,
         doing' = doing \/ \E t \in Desks : Goes(t, Resting),
         \A r \in Kept' : records'[r].store \in stores /\ records'[r].employee \in Hired
  PROVE  AttendanceInv'
<1>1. StaffMoves
  BY StaffStays DEF AttendanceInv, Typical
<1>2. TypedDesks' /\ DesksMove
  BY <1>1, DesksGo, RestingFields
<1>3. TypedStores'
  BY DEF AttendanceInv, Typical, TypedStores
<1>4. Hired' = Hired
  BY DEF Hired
<1>5. Referred'
  BY <1>4 DEF AttendanceInv, Referred
<1>. QED
  BY <1>1, <1>2, <1>3, <1>4, <1>5, InvStep

LEMMA DaysErased ==
  ASSUME AttendanceInv, StaffMoves, NEW R, R \cap HeldRecords = {}, records' = Erase(records, R)
  PROVE  DaysMove /\ Kept' = Kept \ R
<1>1. /\ TypedStaff /\ TypedDays /\ records \in Seq(Record)
      /\ DOMAIN employees \subseteq DOMAIN employees'
  BY Employed DEF AttendanceInv, Typical, TypedDays
<1>2. /\ records' \in Seq(Record) /\ Len(records') = Len(records)
      /\ DOMAIN records' = DOMAIN records
      /\ \A i \in DOMAIN records :
           /\ records'[i].store = records[i].store
           /\ records'[i].employee = records[i].employee
           /\ records'[i].date = records[i].date
           /\ records'[i].gone = (records[i].gone \/ i \in R)
           /\ Paid(records[i]) => Paid(records'[i])
  BY <1>1, ErasedDays
<1>3. Kept' = Kept \ R
  BY <1>2 DEF Kept
<1>4. \A r \in Kept' : r \in Kept /\ r \in DOMAIN records
  BY <1>3 DEF Kept
<1>5. TypedDays'
  BY <1>1, <1>2 DEF TypedDays
<1>6. Distinct'
  <2>. SUFFICES ASSUME NEW q \in Kept', NEW r \in Kept',
                       records'[q].store = records'[r].store,
                       records'[q].employee = records'[r].employee,
                       records'[q].date = records'[r].date
                PROVE  q = r
    BY DEF Distinct
  <2>. QED
    BY <1>2, <1>4 DEF AttendanceInv, Distinct
<1>7. DaysHomed'
  <2>. SUFFICES ASSUME NEW r \in DOMAIN records
                PROVE  HomeIn(employees', records'[r].employee, records'[r].store)
    BY <1>2 DEF DaysHomed
  <2>1. records[r].employee \in DOMAIN employees /\ HomeIn(employees, records[r].employee, records[r].store)
    BY <1>1 DEF TypedDays, AttendanceInv, DaysHomed
  <2>2. HomeIn(employees', records[r].employee, records[r].store)
    BY <2>1, HomeStays
  <2>. QED
    BY <1>2, <2>2
<1>8. Len(records) \in Nat
  BY <1>1
<1>9. ASSUME NEW r \in HeldRecords, r \in Kept
      PROVE  /\ r \in Kept' /\ records'[r].store = records[r].store
             /\ records'[r].employee = records[r].employee /\ records'[r].date = records[r].date
  BY <1>2, <1>3, <1>9 DEF Kept
<1>10. ASSUME NEW r \in Kept'
       PROVE  /\ r \in Kept /\ records'[r].store = records[r].store
              /\ records'[r].employee = records[r].employee /\ records'[r].date = records[r].date
  BY <1>2, <1>4
<1>. QED
  BY <1>2, <1>3, <1>5, <1>6, <1>7, <1>8, <1>9, <1>10 DEF DaysMove

LEMMA DeleteRecordsInv ==
  ASSUME AttendanceInv, NEW R \in SUBSET DOMAIN records, DeleteRecords(R)
  PROVE  AttendanceInv'
<1>1. /\ UNCHANGED <<stores, papers, batches, employees, doing>>
      /\ begun < MaxRequests /\ begun' = begun + 1
      /\ records' = Erase(records, R) /\ R \cap HeldRecords = {}
  BY DEF DeleteRecords
<1>2. StaffMoves
  BY <1>1, StaffStays DEF AttendanceInv, Typical
<1>3. DaysMove /\ Kept' = Kept \ R
  BY <1>1, <1>2, DaysErased
<1>4. records \in Seq(Record)
  BY DEF AttendanceInv, Typical, TypedDays
<1>5. \A r \in DOMAIN records :
        /\ records'[r].store = records[r].store /\ records'[r].employee = records[r].employee
  BY <1>1, <1>4, ErasedDays
<1>6. \A r \in Kept' : records'[r].store \in stores /\ records'[r].employee \in Hired
  BY <1>3, <1>5 DEF Kept, AttendanceInv, Referred
<1>. QED
  BY <1>1, <1>3, <1>6, RequestBegins, DaysStep

(* A record that is inserted or written over, where no other is.           *)
LEMMA DayWritten ==
  ASSUME AttendanceInv, UNCHANGED employees, NEW id \in Nat \ {0}, NEW new \in Record,
         id <= Len(records) + 1, id \notin HeldRecords,
         records' \in Seq(Record), Len(records) <= Len(records'), id \in DOMAIN records',
         DOMAIN records' = DOMAIN records \cup {id},
         \A r \in DOMAIN records' : records'[r] = IF r = id THEN new ELSE records[r],
         Paid(new), ~new.gone, HomeIn(employees, new.employee, new.store),
         MayKeep(new, id) \/ (id \notin Kept /\ MayKeep(new, 0)),
         ~DayTaken(new.store, new.employee, new.date)
  PROVE  /\ DaysMove
         /\ \A r \in Kept' : records'[r].store \in stores /\ records'[r].employee \in Hired
<1>1. /\ DOMAIN employees' = DOMAIN employees /\ new.employee \in DOMAIN employees
      /\ new.employee \in Hired /\ new.store \in stores
  BY DEF MayKeep, Hired
<1>2. \A r \in Kept' : r # id => r \in Kept /\ records'[r] = records[r]
  BY DEF Kept
<1>3. records'[id] = new /\ id \in Kept'
  BY DEF Kept
<1>4. \A r \in Kept : r # id =>
        ~(records[r].store = new.store /\ records[r].employee = new.employee
          /\ records[r].date = new.date)
  <2>1. 0 \notin Kept
    BY Keys DEF AttendanceInv, Typical
  <2>. QED
    BY <2>1 DEF MayKeep, DayFree
<1>5. TypedDays'
  BY <1>1 DEF AttendanceInv, Typical, TypedDays
<1>6. Distinct'
  <2>. SUFFICES ASSUME NEW q \in Kept', NEW r \in Kept',
                       records'[q].store = records'[r].store,
                       records'[q].employee = records'[r].employee,
                       records'[q].date = records'[r].date
                PROVE  q = r
    BY DEF Distinct
  <2>1. CASE q = id \/ r = id
    BY <1>2, <1>3, <1>4, <2>1
  <2>2. CASE q # id /\ r # id
    BY <1>2, <2>2 DEF AttendanceInv, Distinct
  <2>. QED
    BY <2>1, <2>2
<1>7. DaysHomed'
  BY DEF AttendanceInv, DaysHomed
<1>8. \A r \in HeldRecords \cap Kept : r \in Kept' /\ records'[r] = records[r]
  BY DEF Kept
<1>9. ASSUME NEW t \in Importing, doing[t].store = new.store
      PROVE  <<new.employee, new.date>> \notin Inserted(t)
  BY <1>9 DEF DayTaken
<1>10. DaysMove
  BY <1>2, <1>3, <1>5, <1>6, <1>7, <1>8, <1>9 DEF DaysMove
<1>11. \A r \in Kept' : records'[r].store \in stores /\ records'[r].employee \in Hired
  BY <1>1, <1>2, <1>3 DEF AttendanceInv, Referred
<1>. QED
  BY <1>10, <1>11

LEMMA InsertRecordInv ==
  ASSUME AttendanceInv, NEW t \in Desks, InsertRecord(t)
  PROVE  AttendanceInv'
<1>. DEFINE row == doing[t].row
            m == Len(records)
<1>1. /\ row \in Record /\ Paid(row) /\ ~row.gone
  BY StandFields DEF AttendanceInv, InsertRecord, IsNewRecord
<1>2. HomeIn(employees, row.employee, row.store)
  BY DEF AttendanceInv, DesksHomed, HomedIn, InsertRecord, Does
<1>3. /\ UNCHANGED <<stores, papers, batches, employees, begun>> /\ Goes(t, Resting)
      /\ ~DayTaken(row.store, row.employee, row.date)
  BY DEF InsertRecord
<1>4. CASE UNCHANGED records
  BY <1>3, <1>4, RestingFields, RequestBegins, QuietStep
<1>5. CASE MayKeep(row, 0) /\ records' = Append(records, row)
  <2>1. records \in Seq(Record) /\ m \in Nat /\ DOMAIN records = 1..m
    BY DEF AttendanceInv, Typical, TypedDays
  <2>. HIDE DEF row
  <2>2. /\ records' \in Seq(Record) /\ Len(records') = m + 1 /\ DOMAIN records' = 1..(m + 1)
        /\ \A r \in DOMAIN records' : records'[r] = IF r = m + 1 THEN row ELSE records[r]
    BY <1>1, <1>5, <2>1
  <2>3. DOMAIN records' = DOMAIN records \cup {m + 1} /\ m + 1 \in Nat \ {0}
    BY <2>1, <2>2
  <2>4. m + 1 \notin Kept
    BY <2>1 DEF Kept
  <2>5. m + 1 \notin HeldRecords
    <3>. SUFFICES ASSUME NEW u \in Importing, NEW k \in DOMAIN doing[u].wrote,
                         doing[u].wrote[k].id = m + 1, m + 1 # 0
                  PROVE  FALSE
      BY DEF HeldRecords, Locked
    <3>1. m + 1 \in Kept
      BY DEF AttendanceInv, LocksKept
    <3>. QED
      BY <2>4, <3>1
  <2>6. /\ DaysMove
        /\ \A r \in Kept' : records'[r].store \in stores /\ records'[r].employee \in Hired
    <3>. HIDE DEF m
    <3>1. m + 1 <= Len(records) + 1 /\ Len(records) <= Len(records') /\ m + 1 \in DOMAIN records'
      BY <2>1, <2>2, <2>3 DEF m
    <3>. QED
      BY <1>1, <1>2, <1>3, <1>5, <2>2, <2>3, <2>4, <2>5, <3>1, DayWritten
  <2>. QED
    BY <1>3, <2>6, RequestBegins, DaysStep
<1>. QED
  BY <1>4, <1>5 DEF InsertRecord

LEMMA SaveRecordInv ==
  ASSUME AttendanceInv, NEW t \in Desks, SaveRecord(t)
  PROVE  AttendanceInv'
<1>. DEFINE id == doing[t].id
            copy == doing[t].row
            homes == doing[t].homes
            SavedIn(row, home) == {[Saved(row) EXCEPT !.store = s] : s \in Placed(row.store, home)}
<1>1. /\ UNCHANGED <<stores, papers, batches, employees, begun>> /\ Goes(t, Resting)
      /\ id \notin HeldRecords
  BY DEF SaveRecord
<1>2. /\ id \in 1..Len(records) /\ copy \in Record /\ copy.employee \in 1..Len(employees)
      /\ \A e \in DOMAIN homes : e \in 1..Len(employees) /\ homes[e] \in Stores
  BY StandFields DEF AttendanceInv, SaveRecord, IsRecordEdit
<1>3. /\ copy.employee \in DOMAIN employees /\ Hired \subseteq DOMAIN employees
      /\ \A e \in DOMAIN employees : employees[e].store \in Stores /\ e \in Nat
  BY <1>2, Keys DEF AttendanceInv, Typical, Hired, Employee
<1>5. ASSUME NEW e \in DOMAIN employees, NEW home \in Homes(doing[t], e)
      PROVE  home \in Stores /\ HomeIn(employees, e, home)
  <2>1. CASE home = employees[e].store
    BY <1>3, <2>1 DEF HomeIn
  <2>2. CASE e \in DOMAIN homes /\ home = homes[e]
    BY <1>2, <2>2 DEF AttendanceInv, DesksHomed, HomedIn, SaveRecord, Does
  <2>. QED
    BY <1>5, <2>1, <2>2 DEF Homes
<1>6. CASE UNCHANGED records
  BY <1>1, <1>6, RestingFields, RequestBegins, QuietStep
<1>7. CASE ~UNCHANGED records
  <2>0. PICK row \in RecordEdits(copy) :
        \E home \in Homes(doing[t], row.employee) : \E new \in SavedIn(row, home) :
          /\ MayKeep(new, id) /\ ~DayTaken(new.store, new.employee, new.date)
          /\ records' = [records EXCEPT ![id] = new]
    BY <1>7 DEF SaveRecord
  <2>0a. PICK home \in Homes(doing[t], row.employee) : \E new \in SavedIn(row, home) :
           /\ MayKeep(new, id) /\ ~DayTaken(new.store, new.employee, new.date)
           /\ records' = [records EXCEPT ![id] = new]
    BY <2>0
  <2>1. PICK new \in SavedIn(row, home) :
          /\ MayKeep(new, id) /\ ~DayTaken(new.store, new.employee, new.date)
          /\ records' = [records EXCEPT ![id] = new]
    BY <2>0a
  <2>2. row \in Record /\ row.employee \in DOMAIN employees
    <3>1. stores \subseteq Stores /\ Entries \subseteq Entry
      BY AttendanceAssumption DEF AttendanceAssumption, AttendanceInv, Typical, TypedStores
    <3>2. ASSUME NEW x \in Entry
          PROVE  /\ [copy EXCEPT !.entry = x] \in Record
                 /\ [copy EXCEPT !.entry = x].employee = copy.employee
      BY <1>2 DEF Record
    <3>3. ASSUME NEW d \in Dates
          PROVE  /\ [copy EXCEPT !.date = d] \in Record
                 /\ [copy EXCEPT !.date = d].employee = copy.employee
      BY <1>2 DEF Record
    <3>4. ASSUME NEW s \in Stores, NEW e \in Hired
          PROVE  /\ [copy EXCEPT !.store = s, !.employee = e] \in Record
                 /\ [copy EXCEPT !.store = s, !.employee = e].employee = e
      BY <1>2, <1>3 DEF Record
    <3>5. CASE row \in {[copy EXCEPT !.entry = x] : x \in Entries}
      <4>1. PICK x \in Entries : row = [copy EXCEPT !.entry = x]
        BY <3>5, Zenon
      <4>2. x \in Entry
        BY <3>1
      <4>3. row \in Record /\ row.employee = copy.employee
        BY <3>2, <4>1, <4>2, Zenon
      <4>. QED
        BY <1>3, <4>3
    <3>6. CASE row \in {[copy EXCEPT !.date = d] : d \in Dates}
      <4>1. PICK d \in Dates : row = [copy EXCEPT !.date = d]
        BY <3>6, Zenon
      <4>2. row \in Record /\ row.employee = copy.employee
        BY <3>3, <4>1, Zenon
      <4>. QED
        BY <1>3, <4>2
    <3>7. CASE row \in UNION {GivenTo(copy, e) : e \in Hired}
      <4>1. PICK e \in Hired : row \in GivenTo(copy, e)
        BY <3>7
      <4>2. PICK s \in stores : row = [copy EXCEPT !.store = s, !.employee = e]
        BY <4>1, Zenon DEF GivenTo
      <4>3. s \in Stores
        BY <3>1
      <4>4. row \in Record /\ row.employee = e
        BY <3>4, <4>2, <4>3, Zenon
      <4>. QED
        BY <1>3, <4>4
    <3>. QED
      BY <2>0, <3>5, <3>6, <3>7, Zenon DEF RecordEdits
  <2>3. PICK s \in Placed(row.store, home) : new = [Saved(row) EXCEPT !.store = s]
    BY <2>1
  <2>4. s = home /\ s \in Stores
    BY <1>5, <2>1, <2>2, <2>3 DEF Placed
  <2>5. /\ Saved(row) \in Record /\ Paid(Saved(row)) /\ ~Saved(row).gone
        /\ Saved(row).employee = row.employee
    BY <2>2, SavedFields
  <2>6. /\ new \in Record /\ Paid(new) /\ ~new.gone /\ new.employee = row.employee
        /\ new.store = home
    BY <2>3, <2>4, <2>5 DEF Record, Paid
  <2>7. HomeIn(employees, new.employee, new.store)
    BY <1>5, <2>1, <2>2, <2>6
  <2>8. records \in Seq(Record) /\ Len(records) \in Nat /\ DOMAIN records = 1..Len(records)
    BY DEF AttendanceInv, Typical, TypedDays
  <2>. HIDE DEF id, SavedIn, homes
  <2>9. /\ records' \in Seq(Record) /\ Len(records') = Len(records)
        /\ DOMAIN records' = DOMAIN records
        /\ \A r \in DOMAIN records : records'[r] = IF r = id THEN new ELSE records[r]
    BY <1>2, <2>1, <2>6, <2>8, ExceptSeq
  <2>10. /\ id \in Nat \ {0} /\ id <= Len(records) + 1 /\ Len(records) <= Len(records')
         /\ id \in DOMAIN records' /\ DOMAIN records' = DOMAIN records \cup {id}
         /\ \A r \in DOMAIN records' : records'[r] = IF r = id THEN new ELSE records[r]
    BY <1>2, <2>8, <2>9
  <2>11. /\ DaysMove
         /\ \A r \in Kept' : records'[r].store \in stores /\ records'[r].employee \in Hired
    BY <1>1, <2>1, <2>6, <2>7, <2>9, <2>10, DayWritten
  <2>. QED
    BY <1>1, <2>11, RequestBegins, DaysStep
<1>. QED
  BY <1>6, <1>7

-----------------------------------------------------------------------------
(* Rows that go: nothing that stays refers to them.                        *)
LEMMA Dropped ==
  ASSUME AttendanceInv, NEW t \in Desks, Goes(t, Resting),
         UNCHANGED <<papers, batches, begun>>, NEW S, NEW E, NEW R,
         stores' = stores \ S, employees' = Erase(employees, E), records' = Erase(records, R),
         E \cap HeldEmployees = {}, R \cap HeldRecords = {},
         \A s \in S : Staff(s) \subseteq E, RecordsIn(S) \subseteq R, RecordsOf(E) \subseteq R
  PROVE  AttendanceInv'
<1>1. TypedStaff /\ TypedDays /\ employees \in Seq(Employee) /\ records \in Seq(Record)
  BY DEF AttendanceInv, Typical, TypedStaff, TypedDays
<1>2. StaffMoves
  BY <1>1, StaffErased
<1>3. DaysMove /\ Kept' = Kept \ R
  BY <1>2, DaysErased
<1>4. /\ DOMAIN employees' = DOMAIN employees
      /\ \A e \in DOMAIN employees :
           /\ employees'[e].store = employees[e].store
           /\ employees'[e].gone = (employees[e].gone \/ e \in E)
  BY <1>1, ErasedStaff
<1>5. Hired' = Hired \ E
  BY <1>4 DEF Hired
<1>6. \A r \in DOMAIN records :
        /\ records'[r].store = records[r].store /\ records'[r].employee = records[r].employee
  BY <1>1, ErasedDays
<1>7. ASSUME NEW e \in Hired' PROVE employees'[e].store \in stores'
  <2>1. e \in Hired /\ e \notin E /\ employees'[e].store = employees[e].store
    BY <1>4, <1>5 DEF Hired
  <2>2. employees[e].store \in stores
    BY <2>1 DEF AttendanceInv, Referred
  <2>3. employees[e].store \notin S
    BY <2>1 DEF Staff
  <2>. QED
    BY <2>1, <2>2, <2>3
<1>8. ASSUME NEW r \in Kept' PROVE records'[r].store \in stores' /\ records'[r].employee \in Hired'
  <2>1. /\ r \in Kept /\ r \notin R /\ records'[r].store = records[r].store
        /\ records'[r].employee = records[r].employee
    BY <1>3, <1>6 DEF Kept
  <2>2. records[r].store \in stores /\ records[r].employee \in Hired
    BY <2>1 DEF AttendanceInv, Referred
  <2>3. records[r].store \notin S
    BY <2>1 DEF RecordsIn
  <2>4. records[r].employee \notin E
    BY <2>1 DEF RecordsOf
  <2>. QED
    BY <1>5, <2>1, <2>2, <2>3, <2>4
<1>9. Referred'
  BY <1>7, <1>8 DEF Referred
<1>10. TypedStores'
  BY DEF AttendanceInv, Typical, TypedStores
<1>11. TypedDesks' /\ DesksMove
  BY <1>2, <1>3, DesksGo, RestingFields
<1>. QED
  BY <1>2, <1>3, <1>5, <1>9, <1>10, <1>11, InvStep

LEMMA DropEmployeeInv ==
  ASSUME AttendanceInv, NEW t \in Desks, DropEmployee(t)
  PROVE  AttendanceInv'
<1>1. /\ UNCHANGED <<stores, papers, batches, begun>> /\ Goes(t, Resting)
      /\ doing[t].staff \cap HeldEmployees = {} /\ doing[t].days \cap HeldRecords = {}
  BY DEF DropEmployee
<1>2. CASE UNCHANGED <<employees, records>>
  BY <1>1, <1>2, RestingFields, RequestBegins, QuietStep
<1>3. CASE /\ RecordsOf(doing[t].staff) \subseteq doing[t].days
           /\ employees' = Erase(employees, doing[t].staff)
           /\ records' = Erase(records, doing[t].days)
  <2>1. RecordsIn({}) = {} /\ stores' = stores \ {}
    BY <1>1 DEF RecordsIn
  <2>. QED
    BY <1>1, <1>3, <2>1, Dropped
<1>. QED
  BY <1>2, <1>3 DEF DropEmployee

LEMMA DropStoresInv ==
  ASSUME AttendanceInv, NEW t \in Desks, DropStores(t)
  PROVE  AttendanceInv'
<1>1. /\ UNCHANGED <<papers, batches, begun>> /\ Goes(t, Resting)
      /\ doing[t].staff \cap HeldEmployees = {} /\ doing[t].days \cap HeldRecords = {}
  BY DEF DropStores
<1>2. CASE UNCHANGED <<stores, employees, records>>
  BY <1>1, <1>2, RestingFields, RequestBegins, QuietStep
<1>3. CASE /\ Unreferenced(doing[t]) /\ stores' = stores \ doing[t].stores
           /\ employees' = Erase(employees, doing[t].staff)
           /\ records' = Erase(records, doing[t].days)
  <2>1. /\ \A s \in doing[t].stores : Staff(s) \subseteq doing[t].staff
        /\ RecordsIn(doing[t].stores) \subseteq doing[t].days
        /\ RecordsOf(doing[t].staff) \subseteq doing[t].days
    BY <1>3 DEF Unreferenced
  <2>. QED
    BY <1>1, <1>3, <2>1, Dropped
<1>. QED
  BY <1>2, <1>3 DEF DropStores

-----------------------------------------------------------------------------
(* A row of the sheet.                                                     *)
LineName(tx) == Upper[tx.file[tx.next].name]
LineDate(tx) == tx.file[tx.next].date
LineEntry(tx) == FromSheet(tx.file[tx.next].entry)
LineWho(tx) == EmployeeOf(tx, LineName(tx))
LineRecord(tx) == RecordOf(tx, LineWho(tx), LineDate(tx))
LineKey(tx) == <<IF LineWho(tx) = 0 THEN LineName(tx) ELSE LineWho(tx), LineDate(tx)>>
LineFresh(tx) == IF LineWho(tx) = 0 THEN tx.fresh \cup {LineName(tx)} ELSE tx.fresh
LineWrote(tx) == Noted(tx.wrote, LineKey(tx), LineRecord(tx), LineEntry(tx))
LineRead(tx) ==
  [tx EXCEPT !.next = tx.next + 1, !.fresh = LineFresh(tx), !.wrote = LineWrote(tx)]

LEMMA LineIs ==
  ASSUME NEW t \in Desks, ImportLine(t)
  PROVE  /\ Goes(t, LineRead(doing[t])) /\ Does(t, "import")
         /\ doing[t].next <= Len(doing[t].file)
         /\ ~Awaits(t, LineName(doing[t]), LineWho(doing[t]), LineRecord(doing[t]), LineDate(doing[t]))
         /\ UNCHANGED <<stores, papers, batches, employees, records, begun>>
BY DEF ImportLine, LineRead, LineName, LineDate, LineEntry, LineWho, LineRecord, LineKey,
       LineFresh, LineWrote

LEMMA SheetFields ==
  ASSUME NEW file \in Sheets
  PROVE  /\ DOMAIN file = 1..Len(file) /\ Len(file) \in Nat
         /\ \A i \in DOMAIN file :
              /\ file[i].name \in FullNames /\ file[i].date \in Dates /\ file[i].entry \in Entry
              /\ Upper[file[i].name] \in FullNames /\ Upper[file[i].name] \notin Nat
              /\ FromSheet(file[i].entry) \in Spoken
<1>1. /\ file \in Seq([name : FullNames, date : Dates, entry : Entries])
      /\ Upper \in [FullNames -> FullNames] /\ \A n \in FullNames : n \notin Nat
      /\ Entries \subseteq Entry
  BY AttendanceAssumption DEF AttendanceAssumption
<1>2. DOMAIN file = 1..Len(file) /\ Len(file) \in Nat
  BY <1>1
<1>3. ASSUME NEW i \in DOMAIN file
      PROVE  /\ file[i].name \in FullNames /\ file[i].date \in Dates /\ file[i].entry \in Entry
             /\ Upper[file[i].name] \in FullNames /\ Upper[file[i].name] \notin Nat
  BY <1>1
<1>4. ASSUME NEW i \in DOMAIN file PROVE FromSheet(file[i].entry) \in Spoken
  BY <1>3, FromSheetType DEF Spoken
<1>. QED
  BY <1>2, <1>3, <1>4

LEMMA LineFields ==
  ASSUME Typical, NEW tx, IsRosterImport(tx), tx.next <= Len(tx.file)
  PROVE  /\ tx.next \in DOMAIN tx.file
         /\ LineName(tx) \in FullNames /\ LineName(tx) \notin Nat
         /\ LineDate(tx) \in Dates /\ LineEntry(tx) \in Spoken
         /\ LineWho(tx) \in Nat
         /\ LineWho(tx) # 0 => LineWho(tx) \in Hired /\ employees[LineWho(tx)].store = tx.store
         /\ LineRecord(tx) \in 0..Len(records)
         /\ LineRecord(tx) # 0 =>
              /\ LineRecord(tx) \in Kept /\ records[LineRecord(tx)].store = tx.store
              /\ records[LineRecord(tx)].employee = LineWho(tx) /\ LineWho(tx) # 0
              /\ records[LineRecord(tx)].date = LineDate(tx)
         /\ LineRecord(tx) = 0 => RecordsOn(tx.store, LineWho(tx), LineDate(tx)) = {}
         /\ LineKey(tx)[2] = LineDate(tx)
         /\ LineWho(tx) = 0 => LineKey(tx)[1] = LineName(tx)
         /\ LineWho(tx) # 0 => LineKey(tx)[1] = LineWho(tx)
<1>1. tx.file \in Sheets /\ tx.next \in Nat \ {0}
  BY DEF IsRosterImport, IsSheetImport
<1>2. /\ tx.next \in DOMAIN tx.file
      /\ LineName(tx) \in FullNames /\ LineName(tx) \notin Nat
      /\ LineDate(tx) \in Dates /\ LineEntry(tx) \in Spoken
  BY <1>1, SheetFields DEF LineName, LineDate, LineEntry
<1>3. /\ DOMAIN employees = 1..Len(employees) /\ Len(employees) \in Nat
      /\ DOMAIN records = 1..Len(records) /\ Len(records) \in Nat
      /\ Kept \subseteq DOMAIN records /\ Hired \subseteq DOMAIN employees
  BY Keys DEF Typical
<1>4. /\ LineWho(tx) \in Nat
      /\ LineWho(tx) # 0 => LineWho(tx) \in Hired /\ employees[LineWho(tx)].store = tx.store
  <2>. DEFINE there == {e \in Hired : employees[e].store = tx.store /\ employees[e].name = LineName(tx)}
  <2>1. LineWho(tx) = IF there = {} THEN 0 ELSE CHOOSE e \in there : TRUE
    BY DEF LineWho, EmployeeOf
  <2>2. LineWho(tx) = 0 \/ LineWho(tx) \in there
    BY <2>1
  <2>. QED
    BY <1>3, <2>2
<1>5. /\ LineRecord(tx) = 0 => RecordsOn(tx.store, LineWho(tx), LineDate(tx)) = {}
      /\ LineRecord(tx) # 0 => LineRecord(tx) \in RecordsOn(tx.store, LineWho(tx), LineDate(tx))
  <2>. DEFINE there == RecordsOn(tx.store, LineWho(tx), LineDate(tx))
  <2>1. LineRecord(tx) = IF there = {} THEN 0 ELSE CHOOSE r \in there : TRUE
    BY DEF LineRecord, RecordOf
  <2>2. 0 \notin there
    BY <1>3 DEF RecordsOn
  <2>. HIDE DEF there
  <2>3. IF there = {} THEN LineRecord(tx) = 0 ELSE LineRecord(tx) \in there
    BY <2>1
  <2>. QED
    BY <2>2, <2>3 DEF there
<1>6. LineRecord(tx) # 0 =>
        /\ LineRecord(tx) \in Kept /\ records[LineRecord(tx)].store = tx.store
        /\ records[LineRecord(tx)].employee = LineWho(tx)
        /\ records[LineRecord(tx)].date = LineDate(tx)
  BY <1>5 DEF RecordsOn
<1>7. LineRecord(tx) # 0 => LineWho(tx) # 0 /\ LineRecord(tx) \in DOMAIN records
  BY <1>3, <1>6 DEF Typical, TypedDays
<1>8. LineRecord(tx) \in 0..Len(records)
  BY <1>3, <1>7
<1>9. /\ LineKey(tx)[2] = LineDate(tx)
      /\ LineWho(tx) = 0 => LineKey(tx)[1] = LineName(tx)
      /\ LineWho(tx) # 0 => LineKey(tx)[1] = LineWho(tx)
  BY DEF LineKey
<1>. QED
  BY <1>2, <1>4, <1>5, <1>6, <1>7, <1>8, <1>9

LEMMA ReadFields ==
  ASSUME Typical, NEW tx, IsRosterImport(tx), tx.next <= Len(tx.file)
  PROVE  /\ IsRosterImport(LineRead(tx)) /\ LineRead(tx).op = "import"
         /\ LineRead(tx).store = tx.store /\ LineRead(tx).file = tx.file
         /\ LineRead(tx).next = tx.next + 1
         /\ DOMAIN LineRead(tx).wrote = DOMAIN tx.wrote \cup {LineKey(tx)}
         /\ \A k \in DOMAIN tx.wrote : k # LineKey(tx) => LineRead(tx).wrote[k] = tx.wrote[k]
         /\ LineRead(tx).wrote[LineKey(tx)].id = LineRecord(tx)
         /\ LineRead(tx).wrote[LineKey(tx)].last = LineEntry(tx)
<1>. DEFINE k == LineKey(tx)
            w == LineWrote(tx)
            f == LineFresh(tx)
            n == tx.next + 1
            read == [tx EXCEPT !.next = n, !.fresh = f, !.wrote = w]
            first == IF k \in DOMAIN tx.wrote THEN tx.wrote[k].first ELSE LineEntry(tx)
<1>1. /\ tx \in [op : {"import"}, store : Stores, file : Sheets, next : Nat \ {0},
                 fresh : SUBSET FullNames, wrote : {tx.wrote}]
      /\ IsFiniteSet(DOMAIN tx.wrote)
      /\ \A x \in DOMAIN tx.wrote :
           /\ x \in ((1..Len(employees)) \cup tx.fresh) \X Dates
           /\ tx.wrote[x] \in Wrote(Len(records))
  BY DEF IsRosterImport, IsSheetImport
<1>2. /\ DOMAIN w = DOMAIN tx.wrote \cup {k}
      /\ \A x \in DOMAIN tx.wrote : x # k => w[x] = tx.wrote[x]
      /\ w[k] = [id |-> LineRecord(tx), first |-> first, last |-> LineEntry(tx)]
  BY DEF LineWrote, Noted
<1>3. f \in SUBSET FullNames /\ tx.fresh \subseteq f
  BY <1>1, LineFields DEF LineFresh
<1>4. k \in ((1..Len(employees)) \cup f) \X Dates
  <2>1. DOMAIN employees = 1..Len(employees) /\ Hired \subseteq DOMAIN employees
    BY Keys DEF Typical
  <2>2. CASE LineWho(tx) = 0
    BY <2>2, LineFields DEF LineKey, LineFresh
  <2>3. CASE LineWho(tx) # 0
    BY <2>1, <2>3, LineFields DEF LineKey
  <2>. QED
    BY <2>2, <2>3
<1>5. first \in Spoken
  BY <1>1, LineFields DEF Wrote
<1>6. w[k] \in Wrote(Len(records)) /\ w[k].id = LineRecord(tx) /\ w[k].last = LineEntry(tx)
  <2>. HIDE DEF first
  <2>. QED
    BY <1>2, <1>5, LineFields DEF Wrote
<1>7. n \in Nat \ {0}
  BY <1>1
<1>8. IsFiniteSet(DOMAIN w)
  BY <1>1, <1>2, FS_AddElement
<1>9. LineRead(tx) = read
  BY DEF LineRead
<1>. HIDE DEF w, f, n, k, first
<1>10. /\ read \in [op : {"import"}, store : Stores, file : Sheets, next : Nat \ {0},
                    fresh : SUBSET FullNames, wrote : {w}]
       /\ read.op = "import" /\ read.store = tx.store /\ read.file = tx.file /\ read.next = n
       /\ read.fresh = f /\ read.wrote = w
  BY <1>1, <1>3, <1>7
<1>. HIDE DEF read
<1>11. \A x \in DOMAIN w :
         x \in ((1..Len(employees)) \cup f) \X Dates /\ w[x] \in Wrote(Len(records))
  BY <1>1, <1>2, <1>3, <1>4, <1>6
<1>12. IsRosterImport(read)
  BY <1>8, <1>10, <1>11 DEF IsRosterImport, IsSheetImport
<1>. QED
  BY <1>2, <1>6, <1>9, <1>10, <1>12 DEF k, n

LEMMA LineCovered ==
  ASSUME Typical, NEW tx, IsRosterImport(tx), tx.next <= Len(tx.file),
         \A i \in DOMAIN tx.file : i < tx.next /\ Final(tx.file, i) => CoveredIn(tx, i),
         NEW i \in DOMAIN tx.file, i < tx.next + 1, Final(tx.file, i)
  PROVE  CoveredIn(LineRead(tx), i)
<1>. DEFINE new == LineRead(tx)
            file == tx.file
            n == tx.next
            k == LineKey(tx)
<1>1. file \in Sheets /\ n \in Nat \ {0} /\ n \in DOMAIN file
  BY LineFields, SheetImportFields DEF Typical
<1>2. i \in Nat
  BY <1>1, SheetFields
<1>3. /\ new.file = file /\ DOMAIN new.wrote = DOMAIN tx.wrote \cup {k}
      /\ \A x \in DOMAIN tx.wrote : x # k => new.wrote[x] = tx.wrote[x]
      /\ new.wrote[k].last = FromSheet(file[n].entry)
  BY ReadFields DEF LineEntry
<1>4. /\ k[2] = file[n].date /\ (k[1] \in Nat \/ k[1] = Upper[file[n].name])
  BY LineFields DEF LineName, LineDate
<1>. HIDE DEF new, k, n
<1>5. CASE i = n
  BY <1>3, <1>4, <1>5 DEF CoveredIn, new
<1>6. CASE i # n
  <2>1. i < n
    BY <1>1, <1>2, <1>6 DEF n
  <2>2. PICK x \in DOMAIN tx.wrote, j \in {i} \cup LaterNamed(file, i) :
          /\ x[2] = file[i].date /\ (x[1] \in Nat \/ x[1] = Upper[file[i].name])
          /\ tx.wrote[x].last = FromSheet(file[j].entry)
    BY <2>1 DEF CoveredIn, n
  <2>3. CASE x # k
    BY <1>3, <2>2, <2>3 DEF CoveredIn, new
  <2>4. CASE x = k
    <3>1. file[n].date = file[i].date
      BY <1>4, <2>2, <2>4
    <3>2. n > i
      BY <1>1, <1>2, <2>1
    <3>3. Upper[file[n].name] # Upper[file[i].name]
      BY <1>1, <3>1, <3>2 DEF Final
    <3>4. n \in LaterNamed(file, i)
      BY <1>1, <3>1, <3>2, <3>3 DEF LaterNamed
    <3>. QED
      BY <1>3, <2>2, <2>4, <3>4 DEF CoveredIn, new
  <2>. QED
    BY <2>3, <2>4
<1>. QED
  BY <1>5, <1>6 DEF new

LEMMA ImportLineInv ==
  ASSUME AttendanceInv, NEW t \in Desks, ImportLine(t)
  PROVE  AttendanceInv'
<1>. DEFINE tx == doing[t]
            new == LineRead(tx)
            k == LineKey(tx)
            e == LineWho(tx)
            r == LineRecord(tx)
<1>1. /\ Goes(t, new) /\ Does(t, "import") /\ tx.next <= Len(tx.file)
      /\ ~Awaits(t, LineName(tx), e, r, LineDate(tx))
      /\ UNCHANGED <<stores, papers, batches, employees, records, begun>>
  BY LineIs
<1>2. Typical /\ TypedStaff /\ TypedDays /\ DOMAIN doing = Desks
  BY DEF AttendanceInv, Typical, TypedDesks
<1>3. IsRosterImport(tx) /\ t \in Importing
  BY <1>1, <1>2, StandFields DEF IsRosterImport, Importing
<1>4. /\ doing'[t] = new /\ DOMAIN doing' = Desks
      /\ \A s \in Desks \ {t} : doing'[s] = doing[s]
  BY <1>1, <1>2, Moves
<1>5. /\ IsRosterImport(new) /\ new.op = "import" /\ new.store = tx.store /\ new.file = tx.file
      /\ new.next = tx.next + 1
      /\ DOMAIN new.wrote = DOMAIN tx.wrote \cup {k}
      /\ \A x \in DOMAIN tx.wrote : x # k => new.wrote[x] = tx.wrote[x]
      /\ new.wrote[k].id = r
  BY <1>1, <1>2, <1>3, ReadFields
<1>6. /\ e # 0 => e \in Hired /\ employees[e].store = tx.store
      /\ r # 0 => /\ r \in Kept /\ records[r].store = tx.store
                  /\ records[r].employee = e /\ e # 0 /\ records[r].date = k[2]
      /\ r = 0 => RecordsOn(tx.store, e, k[2]) = {}
      /\ k[1] \in Nat => e # 0
      /\ e # 0 => k[1] = e
      /\ e \in Nat /\ k[2] = LineDate(tx)
      /\ k = <<k[1], k[2]>>
  <2>1. k = <<k[1], k[2]>>
    BY DEF LineKey
  <2>. QED
    BY <1>1, <1>2, <1>3, <2>1, LineFields
<1>7. Hired' = Hired /\ Kept' = Kept
  BY <1>1 DEF Hired, Kept
<1>8. Importing' = Importing
  BY <1>1, <1>4, <1>5 DEF Importing, Does
<1>9. \A s \in Desks \ {t} : Inserted(s)' = Inserted(s)
  BY <1>4 DEF Inserted
<1>. HIDE DEF new, k, e, r
<1>10. \A x \in Inserted(t)' : x \in Inserted(t) \/ (x = k /\ r = 0)
  BY <1>4, <1>5 DEF Inserted
<1>11. Typical'
  <2>1. TypedStaff' /\ TypedDays' /\ TypedStores'
    BY <1>1 DEF AttendanceInv, Typical, TypedStaff, TypedDays, TypedStores
  <2>2. Len(employees) \in Nat /\ Len(records) \in Nat
    BY <1>2, Keys
  <2>3. IsStand(new, Len(employees'), Len(records'))
    BY <1>1, <1>5 DEF IsStand, IsRosterImport
  <2>4. TypedDesks'
    BY <1>1, <1>2, <2>1, <2>2, <2>3, DesksTyped
  <2>. QED
    BY <2>1, <2>4 DEF Typical
<1>12. DaysHomed' /\ Distinct' /\ Referred'
  BY <1>1, <1>7 DEF AttendanceInv, DaysHomed, Distinct, Referred
<1>13. DesksHomed'
  <2>1. ASSUME NEW x \in DOMAIN new.wrote, x[1] \in Nat PROVE HomeIn(employees, x[1], new.store)
    <3>1. CASE x = k
      BY <1>5, <1>6, <2>1, <3>1 DEF HomeIn
    <3>2. CASE x # k
      <4>1. x \in DOMAIN tx.wrote
        BY <1>5, <3>2
      <4>. QED
        BY <1>1, <1>5, <2>1, <4>1 DEF AttendanceInv, DesksHomed, HomedIn, Does
    <3>. QED
      BY <3>1, <3>2
  <2>2. HomedIn(employees, new)
    BY <1>5, <2>1 DEF HomedIn
  <2>. QED
    BY <1>1, <1>4, <2>2 DEF AttendanceInv, DesksHomed
<1>14. KeysFree'
  <2>. SUFFICES ASSUME NEW s \in Importing', NEW x \in Inserted(s)', x[1] \in Nat,
                       NEW q \in Kept, records[q].store = doing'[s].store,
                       records[q].employee = x[1], records[q].date = x[2]
                PROVE  FALSE
    BY <1>1, <1>7 DEF KeysFree, DayFree
  <2>1. s \in Desks /\ s \in Importing /\ doing'[s].store = doing[s].store
    BY <1>4, <1>5, <1>8 DEF Importing
  <2>2. CASE x \in Inserted(s)
    <3>1. DayFree(doing[s].store, x[1], x[2], 0) /\ 0 \notin Kept
      BY <1>2, <2>1, <2>2, Keys DEF AttendanceInv, KeysFree
    <3>. QED
      BY <2>1, <3>1 DEF DayFree
  <2>3. CASE x \notin Inserted(s)
    <3>1. s = t /\ x = k /\ r = 0
      BY <1>9, <1>10, <2>1, <2>3
    <3>2. RecordsOn(tx.store, e, k[2]) = {} /\ x[1] = e
      BY <1>6, <3>1
    <3>3. q \in RecordsOn(tx.store, e, k[2])
      BY <1>4, <1>5, <3>1, <3>2 DEF RecordsOn
    <3>. QED
      BY <3>2, <3>3
  <2>. QED
    BY <2>2, <2>3
<1>15. ASSUME NEW u \in Importing, u # t, doing[u].store = tx.store, r = 0, k[1] \in Nat
       PROVE  k \notin Inserted(u)
  <2>1. e # 0 /\ k = <<e, LineDate(tx)>>
    BY <1>6, <1>15
  <2>. QED
    BY <1>1, <1>15, <2>1 DEF Awaits
<1>16. Apart'
  <2>. SUFFICES ASSUME NEW s \in Importing', NEW u \in Importing', s # u,
                       doing'[s].store = doing'[u].store,
                       NEW x \in Inserted(s)', x \in Inserted(u)', x[1] \in Nat
                PROVE  FALSE
    BY DEF Apart
  <2>1. /\ s \in Desks /\ s \in Importing /\ doing'[s].store = doing[s].store
        /\ u \in Desks /\ u \in Importing /\ doing'[u].store = doing[u].store
    BY <1>4, <1>5, <1>8 DEF Importing
  <2>2. CASE x \in Inserted(s) /\ x \in Inserted(u)
    BY <2>1, <2>2 DEF AttendanceInv, Apart
  <2>3. CASE x \notin Inserted(s)
    <3>1. s = t /\ x = k /\ r = 0
      BY <1>9, <1>10, <2>1, <2>3
    <3>2. x \in Inserted(u)
      BY <1>9, <2>1, <3>1
    <3>. QED
      BY <1>15, <2>1, <3>1, <3>2
  <2>4. CASE x \notin Inserted(u)
    <3>1. u = t /\ x = k /\ r = 0
      BY <1>9, <1>10, <2>1, <2>4
    <3>2. x \in Inserted(s)
      BY <1>9, <2>1, <3>1
    <3>. QED
      BY <1>15, <2>1, <3>1, <3>2
  <2>. QED
    BY <2>2, <2>3, <2>4
<1>17. HeldHired'
  <2>. SUFFICES ASSUME NEW s \in Importing', NEW x \in Inserted(s)', x[1] \in Nat
                PROVE  x[1] \in Hired
    BY <1>7 DEF HeldHired
  <2>1. s \in Desks /\ s \in Importing
    BY <1>8 DEF Importing
  <2>2. CASE x \in Inserted(s)
    BY <2>1, <2>2 DEF AttendanceInv, HeldHired
  <2>3. CASE x \notin Inserted(s)
    <3>1. x = k
      BY <1>9, <1>10, <2>1, <2>3
    <3>. QED
      BY <1>6, <3>1
  <2>. QED
    BY <2>2, <2>3
<1>18. LocksKept'
  <2>. SUFFICES ASSUME NEW s \in Importing', NEW x \in DOMAIN doing'[s].wrote,
                       doing'[s].wrote[x].id # 0
                PROVE  LET q == doing'[s].wrote[x].id
                       IN  /\ q \in Kept /\ records[q].store = doing'[s].store
                           /\ records[q].employee = x[1] /\ records[q].date = x[2]
    BY <1>1, <1>7 DEF LocksKept
  <2>1. s \in Desks /\ s \in Importing
    BY <1>8 DEF Importing
  <2>2. CASE s # t
    BY <1>4, <2>1, <2>2 DEF AttendanceInv, LocksKept
  <2>3. CASE s = t /\ x = k
    BY <1>4, <1>5, <1>6, <2>3
  <2>4. CASE s = t /\ x # k
    <3>1. x \in DOMAIN tx.wrote /\ new.wrote[x] = tx.wrote[x]
      BY <1>4, <1>5, <2>4
    <3>. QED
      BY <1>4, <1>5, <2>1, <2>4, <3>1 DEF AttendanceInv, LocksKept
  <2>. QED
    BY <2>2, <2>3, <2>4
<1>19. Covered'
  <2>. SUFFICES ASSUME NEW s \in Importing', NEW i \in DOMAIN doing'[s].file,
                       i < doing'[s].next, Final(doing'[s].file, i)
                PROVE  CoveredIn(doing'[s], i)
    BY DEF Covered
  <2>1. s \in Desks /\ s \in Importing
    BY <1>8 DEF Importing
  <2>2. CASE s # t
    BY <1>4, <2>1, <2>2 DEF AttendanceInv, Covered
  <2>3. CASE s = t
    <3>1. \A j \in DOMAIN tx.file : j < tx.next /\ Final(tx.file, j) => CoveredIn(tx, j)
      BY <1>3 DEF AttendanceInv, Covered
    <3>2. i \in DOMAIN tx.file /\ i < tx.next + 1 /\ Final(tx.file, i)
      BY <1>4, <1>5, <2>3
    <3>3. CoveredIn(new, i)
      BY <1>1, <1>2, <1>3, <3>1, <3>2, LineCovered DEF new
    <3>. QED
      BY <1>4, <2>3, <3>3
  <2>. QED
    BY <2>2, <2>3
<1>. QED
  BY <1>11, <1>12, <1>13, <1>14, <1>16, <1>17, <1>18, <1>19 DEF AttendanceInv

-----------------------------------------------------------------------------
(* An import commits.                                                      *)
LEMMA CommitFields ==
  ASSUME AttendanceInv, NEW t \in Desks, CommitImport(t)
  PROVE  /\ IsRosterImport(doing[t]) /\ t \in Importing /\ doing[t].store \in stores
         /\ employees' = Staffed(doing[t]) /\ TypedStaff'
         /\ \A e \in DOMAIN employees : e \in DOMAIN employees' /\ employees'[e] = employees[e]
         /\ \A e \in DOMAIN employees' \ DOMAIN employees : employees'[e].store = doing[t].store
         /\ records' \in Seq(Record) /\ Len(records) <= Len(records')
         /\ \A r \in DOMAIN records : r \in DOMAIN records' /\ records'[r] = Touched(doing[t])[r]
         /\ \A r \in DOMAIN records' \ DOMAIN records :
              \E k \in Inserts(doing[t]) : records'[r] = New(doing[t], k)
         /\ \A k \in Inserts(doing[t]) :
              \E r \in DOMAIN records' \ DOMAIN records : records'[r] = New(doing[t], k)
         /\ \A q, r \in DOMAIN records' \ DOMAIN records : records'[q] = records'[r] => q = r
<1>. DEFINE tx == doing[t]
<1>1. /\ employees' = Staffed(tx) /\ records' = Recorded(tx) /\ tx.store \in stores
      /\ Does(t, "import")
  BY DEF CommitImport
<1>2. TypedStaff /\ TypedDays /\ Typical
  BY DEF AttendanceInv, Typical
<1>3. IsRosterImport(tx) /\ t \in Importing
  BY <1>1, <1>2, StandFields DEF IsRosterImport, Importing
<1>. HIDE DEF tx
<1>4. IsEnlarged(employees', employees, tx.store, tx.fresh)
  BY <1>1, <1>2, <1>3, StaffedFields
<1>5. tx.store \in Stores /\ tx.fresh \subseteq FullNames
  BY <1>2, <1>3, SheetImportFields
<1>6. TypedStaff' /\ \A e \in DOMAIN employees : e \in DOMAIN employees' /\ employees'[e] = employees[e]
  BY <1>4, Enlarged DEF TypedStaff
<1>7. ASSUME NEW e \in DOMAIN employees' \ DOMAIN employees PROVE employees'[e].store = tx.store
  <2>1. PICK n \in tx.fresh : employees'[e] = NewEmployee(tx.store, n)
    BY <1>4, Enlarged
  <2>. QED
    BY <1>5, <2>1, NewcomerFields
<1>8. /\ records' \in Seq(Record) /\ Len(records) <= Len(records')
      /\ \A r \in DOMAIN records : r \in DOMAIN records' /\ records'[r] = Touched(tx)[r]
      /\ \A r \in DOMAIN records' \ DOMAIN records : \E k \in Inserts(tx) : records'[r] = New(tx, k)
      /\ \A k \in Inserts(tx) : \E r \in DOMAIN records' \ DOMAIN records : records'[r] = New(tx, k)
      /\ \A q, r \in DOMAIN records' \ DOMAIN records : records'[q] = records'[r] => q = r
  BY <1>1, <1>2, <1>3, RecordedFields
<1>. QED
  BY <1>1, <1>3, <1>6, <1>7, <1>8 DEF tx

LEMMA CommitImportInv ==
  ASSUME AttendanceInv, NEW t \in Desks, CommitImport(t)
  PROVE  AttendanceInv'
<1>. DEFINE tx == doing[t]
            late == DOMAIN records' \ DOMAIN records
            Who(k) == WhoIs(tx, k)
<1>1. /\ UNCHANGED <<stores, papers, begun>> /\ Goes(t, Resting)
      /\ batches' = [batches EXCEPT ![tx.store] = @ + 1]
  BY DEF CommitImport
<1>2. TypedStaff /\ TypedDays /\ Typical /\ DOMAIN doing = Desks
  BY DEF AttendanceInv, Typical, TypedDesks
<1>3. /\ IsRosterImport(tx) /\ t \in Importing /\ tx.store \in stores /\ employees' = Staffed(tx)
      /\ TypedStaff'
      /\ \A e \in DOMAIN employees : e \in DOMAIN employees' /\ employees'[e] = employees[e]
      /\ \A e \in DOMAIN employees' \ DOMAIN employees : employees'[e].store = tx.store
      /\ records' \in Seq(Record) /\ Len(records) <= Len(records')
      /\ \A r \in DOMAIN records : r \in DOMAIN records' /\ records'[r] = Touched(tx)[r]
      /\ \A r \in late : \E k \in Inserts(tx) : records'[r] = New(tx, k)
      /\ \A q, r \in late : records'[q] = records'[r] => q = r
  BY CommitFields
<1>4. Inserts(tx) = Inserted(t) /\ Inserts(tx) \subseteq DOMAIN tx.wrote
  BY InsertsAre DEF Inserts
<1>5. StaffMoves
  BY <1>2, <1>3, StaffedFields, StaffEnlarged
<1>. HIDE DEF tx
<1>6. \A r \in DOMAIN records :
        /\ records'[r].store = records[r].store /\ records'[r].employee = records[r].employee
        /\ records'[r].date = records[r].date /\ records'[r].gone = records[r].gone
        /\ Paid(records'[r])
  BY <1>2, <1>3, TouchedFields
<1>7. \A k \in Inserts(tx) :
        /\ Paid(New(tx, k)) /\ ~New(tx, k).gone /\ New(tx, k).store = tx.store
        /\ New(tx, k).employee = Who(k) /\ New(tx, k).date = k[2]
  BY <1>2, <1>3, NewFields
<1>8. \A k \in Inserts(tx) :
        /\ Who(k) \in DOMAIN employees' /\ Who(k) \in Nat /\ k = <<k[1], k[2]>>
        /\ k[1] \in Nat => Who(k) = k[1]
        /\ k[1] \notin Nat => Who(k) \notin DOMAIN employees /\ employees'[Who(k)] = NewEmployee(tx.store, k[1])
                              /\ k[1] \in FullNames
  <2>. SUFFICES ASSUME NEW k \in Inserts(tx)
                PROVE  /\ Who(k) \in DOMAIN employees' /\ Who(k) \in Nat /\ k = <<k[1], k[2]>>
                       /\ k[1] \in Nat => Who(k) = k[1]
                       /\ k[1] \notin Nat =>
                            Who(k) \notin DOMAIN employees /\ employees'[Who(k)] = NewEmployee(tx.store, k[1])
                            /\ k[1] \in FullNames
    OBVIOUS
  <2>1. k \in DOMAIN tx.wrote /\ k = <<k[1], k[2]>> /\ tx.fresh \subseteq FullNames
    BY <1>2, <1>3, <1>4, SheetImportFields
  <2>2. /\ Who(k) \in DOMAIN Staffed(tx) /\ Who(k) \in Nat
        /\ k[1] \in Nat => Who(k) = k[1]
        /\ k[1] \notin Nat => /\ Who(k) \notin DOMAIN employees
                              /\ Staffed(tx)[Who(k)] = NewEmployee(tx.store, k[1])
                              /\ k[1] \in tx.fresh
    BY <1>2, <1>3, <2>1, WhoFields
  <2>. QED
    BY <1>3, <2>1, <2>2
<1>9. \A k \in Inserts(tx) : \A l \in Inserts(tx) : Who(k) = Who(l) => k[1] = l[1]
  BY <1>2, <1>3, <1>4, WhoIsWho
<1>10. \A r \in DOMAIN records : r \in Kept' <=> r \in Kept
  BY <1>3, <1>6 DEF Kept
<1>11. tx.store \in Stores
  BY <1>2, <1>3, SheetImportFields
<1>. HIDE DEF Who
<1>12. \A r \in DOMAIN records : records[r].employee \in DOMAIN employees
  BY <1>2 DEF TypedDays
<1>13. DOMAIN employees \subseteq DOMAIN employees'
  BY <1>3
<1>14. TypedDays'
  <2>1. ASSUME NEW r \in DOMAIN records' PROVE records'[r].employee \in DOMAIN employees' /\ Paid(records'[r])
    <3>1. CASE r \in DOMAIN records
      BY <1>6, <1>12, <1>13, <3>1
    <3>2. CASE r \in late
      BY <1>3, <1>7, <1>8, <3>2
    <3>. QED
      BY <3>1, <3>2
  <2>. QED
    BY <1>3, <2>1 DEF TypedDays
<1>15. ASSUME NEW q \in Kept', NEW r \in late,
              records'[q].store = records'[r].store, records'[q].employee = records'[r].employee,
              records'[q].date = records'[r].date
       PROVE  q = r
  <2>1. PICK k \in Inserts(tx) : records'[r] = New(tx, k)
    BY <1>3
  <2>2. records'[q].store = tx.store /\ records'[q].employee = Who(k) /\ records'[q].date = k[2]
    BY <1>7, <1>15, <2>1
  <2>3. CASE q \in DOMAIN records
    <3>1. /\ q \in Kept /\ records[q].store = tx.store /\ records[q].employee = Who(k)
          /\ records[q].date = k[2]
      BY <1>6, <1>10, <2>2, <2>3
    <3>2. CASE k[1] \in Nat
      <4>1. DayFree(tx.store, k[1], k[2], 0) /\ 0 \notin Kept
        BY <1>2, <1>3, <1>4, <3>2, Keys DEF AttendanceInv, KeysFree, tx
      <4>. QED
        BY <1>8, <3>1, <3>2, <4>1 DEF DayFree
    <3>3. CASE k[1] \notin Nat
      BY <1>8, <1>12, <2>3, <3>1, <3>3
    <3>. QED
      BY <3>2, <3>3
  <2>4. CASE q \notin DOMAIN records
    <3>1. q \in late
      BY <2>4 DEF Kept
    <3>2. PICK l \in Inserts(tx) : records'[q] = New(tx, l)
      BY <1>3, <3>1
    <3>3. Who(l) = Who(k) /\ l[2] = k[2]
      BY <1>7, <2>2, <3>2
    <3>4. l = k
      BY <1>8, <1>9, <3>3
    <3>. QED
      BY <1>3, <2>1, <3>1, <3>2, <3>4
  <2>. QED
    BY <2>3, <2>4
<1>16. Distinct'
  <2>. SUFFICES ASSUME NEW q \in Kept', NEW r \in Kept',
                       records'[q].store = records'[r].store,
                       records'[q].employee = records'[r].employee,
                       records'[q].date = records'[r].date
                PROVE  q = r
    BY DEF Distinct
  <2>1. CASE r \notin DOMAIN records
    BY <1>15, <2>1 DEF Kept
  <2>2. CASE q \notin DOMAIN records
    BY <1>15, <2>2 DEF Kept
  <2>3. CASE q \in DOMAIN records /\ r \in DOMAIN records
    BY <1>6, <1>10, <2>3 DEF AttendanceInv, Distinct
  <2>. QED
    BY <2>1, <2>2, <2>3
<1>17. DaysHomed'
  <2>. SUFFICES ASSUME NEW r \in DOMAIN records'
                PROVE  HomeIn(employees', records'[r].employee, records'[r].store)
    BY DEF DaysHomed
  <2>1. CASE r \in DOMAIN records
    <3>1. HomeIn(employees, records[r].employee, records[r].store)
      BY <2>1 DEF AttendanceInv, DaysHomed
    <3>2. HomeIn(employees', records[r].employee, records[r].store)
      BY <1>5, <1>12, <2>1, <3>1, HomeStays
    <3>. QED
      BY <1>6, <2>1, <3>2
  <2>2. CASE r \in late
    <3>1. PICK k \in Inserts(tx) : records'[r] = New(tx, k)
      BY <1>3, <2>2
    <3>2. records'[r].employee = Who(k) /\ records'[r].store = tx.store
      BY <1>7, <3>1
    <3>3. CASE k[1] \in Nat
      <4>1. HomedIn(employees, tx) /\ tx.op = "import"
        BY <1>3 DEF AttendanceInv, DesksHomed, Importing, Does, tx
      <4>2. HomeIn(employees, k[1], tx.store)
        BY <1>4, <3>3, <4>1 DEF HomedIn
      <4>3. k[1] \in DOMAIN employees
        BY <1>2, <1>3, <1>4, <3>3, SheetImportFields
      <4>4. HomeIn(employees', k[1], tx.store)
        BY <1>5, <4>2, <4>3, HomeStays
      <4>. QED
        BY <1>8, <3>2, <3>3, <4>4
    <3>4. CASE k[1] \notin Nat
      BY <1>8, <1>11, <3>2, <3>4, NewcomerFields DEF HomeIn
    <3>. QED
      BY <3>3, <3>4
  <2>. QED
    BY <2>1, <2>2
<1>18. ASSUME NEW r \in late, NEW u \in Importing, doing'[u] = doing[u],
              doing[u].store = records'[r].store
       PROVE  <<records'[r].employee, records'[r].date>> \notin Inserted(u)
  <2>1. PICK k \in Inserts(tx) : records'[r] = New(tx, k)
    BY <1>3
  <2>2. records'[r].store = tx.store /\ records'[r].employee = Who(k) /\ records'[r].date = k[2]
    BY <1>7, <2>1
  <2>3. u # t
    <3>1. doing'[t] = Resting
      BY <1>1, <1>2, Moves
    <3>. QED
      BY <1>18, <3>1 DEF Importing, Does, Resting
  <2>4. CASE k[1] \in Nat
    <3>1. k \notin Inserted(u)
      BY <1>3, <1>4, <1>18, <2>2, <2>3, <2>4 DEF AttendanceInv, Apart, tx
    <3>. QED
      BY <1>8, <2>2, <2>4, <3>1
  <2>5. CASE k[1] \notin Nat
    <3>1. Who(k) \notin DOMAIN employees /\ Who(k) \in Nat
      BY <1>8, <2>5
    <3>2. IsRosterImport(doing[u])
      BY <1>2, StandFields DEF Importing, IsRosterImport
    <3>3. \A x \in Inserted(u) : x[1] \in Nat => x[1] \in DOMAIN employees
      BY <1>2, <3>2, SheetImportFields DEF Inserted
    <3>. QED
      BY <2>2, <3>1, <3>3
  <2>. QED
    BY <2>4, <2>5
<1>19. DaysMove
  <2>1. \A r \in HeldRecords \cap Kept :
          /\ r \in Kept' /\ records'[r].store = records[r].store
          /\ records'[r].employee = records[r].employee /\ records'[r].date = records[r].date
    BY <1>6, <1>10 DEF Kept
  <2>2. ASSUME NEW r \in Kept'
        PROVE  \/ /\ r \in Kept /\ records'[r].store = records[r].store
                  /\ records'[r].employee = records[r].employee /\ records'[r].date = records[r].date
               \/ \A u \in Importing :
                    /\ doing'[u] = doing[u] /\ doing[u].store = records'[r].store
                    => <<records'[r].employee, records'[r].date>> \notin Inserted(u)
    <3>1. CASE r \in DOMAIN records
      BY <1>6, <1>10, <3>1
    <3>2. CASE r \notin DOMAIN records
      BY <1>18, <3>2 DEF Kept
    <3>. QED
      BY <3>1, <3>2
  <2>. QED
    BY <1>3, <1>14, <1>16, <1>17, <2>1, <2>2 DEF DaysMove
<1>20. TypedStores'
  <2>1. batches \in [Stores -> Nat] /\ batches[tx.store] \in Nat
    BY <1>11 DEF AttendanceInv, Typical, TypedStores
  <2>2. batches' \in [Stores -> Nat]
    BY <1>1, <1>11, <2>1
  <2>. QED
    BY <1>1, <2>2 DEF AttendanceInv, Typical, TypedStores
<1>21. TypedDesks' /\ DesksMove
  BY <1>1, <1>5, <1>19, DesksGo, RestingFields
<1>22. \A e \in Hired : e \in Hired'
  BY <1>3 DEF Hired
<1>23. ASSUME NEW e \in Hired' PROVE employees'[e].store \in stores
  <2>1. CASE e \in DOMAIN employees
    <3>1. e \in Hired /\ employees'[e].store = employees[e].store
      BY <1>3, <2>1 DEF Hired
    <3>. QED
      BY <3>1 DEF AttendanceInv, Referred
  <2>2. CASE e \notin DOMAIN employees
    BY <1>3, <2>2 DEF Hired
  <2>. QED
    BY <2>1, <2>2
<1>24. ASSUME NEW r \in Kept' PROVE records'[r].store \in stores /\ records'[r].employee \in Hired'
  <2>1. CASE r \in DOMAIN records
    <3>1. r \in Kept /\ records[r].store \in stores /\ records[r].employee \in Hired
      BY <1>10, <2>1 DEF AttendanceInv, Referred
    <3>. QED
      BY <1>6, <1>22, <2>1, <3>1
  <2>2. CASE r \notin DOMAIN records
    <3>1. PICK k \in Inserts(tx) : records'[r] = New(tx, k)
      BY <1>3, <2>2 DEF Kept
    <3>2. records'[r].employee = Who(k) /\ records'[r].store = tx.store
      BY <1>7, <3>1
    <3>3. Who(k) \in Hired'
      <4>1. CASE k[1] \in Nat
        <5>1. k[1] \in Hired
          BY <1>3, <1>4, <4>1 DEF AttendanceInv, HeldHired
        <5>. QED
          BY <1>8, <1>22, <4>1, <5>1
      <4>2. CASE k[1] \notin Nat
        BY <1>8, <1>11, <4>2, NewcomerFields DEF Hired
      <4>. QED
        BY <4>1, <4>2
    <3>. QED
      BY <1>3, <3>2, <3>3
  <2>. QED
    BY <2>1, <2>2
<1>25. Referred'
  BY <1>1, <1>23, <1>24 DEF Referred
<1>. QED
  BY <1>5, <1>19, <1>20, <1>21, <1>22, <1>25, InvStep

-----------------------------------------------------------------------------
(* The invariant holds at first, and every step keeps it.                  *)
LEMMA AttendanceStarts ==
  ASSUME AttendanceInit
  PROVE  AttendanceInv /\ DeletionSparesDocuments
<1>. DEFINE new == {NewEmployee(h.store, h.name) : h \in Opening}
            f == [h \in Opening |-> NewEmployee(h.store, h.name)]
<1>1. /\ IsFiniteSet(Opening) /\ MaxRequests \in Nat
      /\ \A h \in Opening : h.store \in Stores /\ h.name \in FullNames
  BY AttendanceAssumption DEF AttendanceAssumption
<1>2. f \in Surjection(Opening, new)
  BY DEF Surjection
<1>3. IsFiniteSet(new)
  BY <1>1, <1>2, FS_Surjection
<1>4. new \subseteq Employee
  BY <1>1, NewcomerFields
<1>5. employees = SetToSeq(new) /\ records = << >> /\ stores = Stores
  BY DEF AttendanceInit
<1>. HIDE DEF new
<1>6. employees \in Seq(new)
  BY <1>3, <1>5, Listing
<1>7. TypedStaff
  BY <1>4, <1>6, SeqMonotonic DEF TypedStaff
<1>8. records \in Seq(Record) /\ Len(records) = 0 /\ DOMAIN records = {} /\ Kept = {}
  <2>1. records \in Seq(Record) /\ Len(records) = 0
    BY <1>5, EmptySeq
  <2>2. DOMAIN records = 1..Len(records)
    BY <2>1
  <2>3. DOMAIN records = {}
    BY <2>1, <2>2
  <2>. QED
    BY <2>1, <2>3 DEF Kept
<1>9. TypedDays
  BY <1>8 DEF TypedDays
<1>10. TypedStores
  BY <1>1 DEF AttendanceInit, TypedStores
<1>11. DOMAIN doing = Desks /\ \A t \in Desks : doing[t] = Resting
  BY DEF AttendanceInit
<1>12. TypedDesks /\ DesksHomed
  BY <1>11 DEF TypedDesks, IsStand, DesksHomed, HomedIn, Resting
<1>13. Importing = {}
  BY <1>11 DEF Importing, Does, Resting
<1>14. Referred
  <2>1. ASSUME NEW e \in Hired PROVE employees[e].store \in stores
    <3>1. employees[e] \in Employee
      BY <1>7, <1>9, Keys
    <3>. QED
      BY <1>5, <3>1 DEF Employee
  <2>. QED
    BY <1>8, <2>1 DEF Referred
<1>15. Distinct /\ DaysHomed
  BY <1>8 DEF Distinct, DaysHomed
<1>16. KeysFree /\ Apart /\ HeldHired /\ LocksKept /\ Covered
  BY <1>13 DEF KeysFree, Apart, HeldHired, LocksKept, Covered
<1>17. DeletionSparesDocuments
  BY <1>5 DEF DeletionSparesDocuments
<1>. QED
  BY <1>7, <1>9, <1>10, <1>12, <1>14, <1>15, <1>16, <1>17 DEF AttendanceInv, Typical

LEMMA AttendanceKept ==
  ASSUME AttendanceInv, AttendanceNext
  PROVE  AttendanceInv'
<1>1. ASSUME NEW t \in Desks, Work(t) PROVE AttendanceInv'
  BY <1>1, SaveEmployeeInv, DropEmployeeInv, InsertRecordInv, SaveRecordInv, ImportLineInv,
     CommitImportInv, AbortImportInv, CollectStoresInv, DropStoresInv DEF Work
<1>2. ASSUME EmployeeDesk PROVE AttendanceInv'
  BY <1>2, AddEmployeeInv, FetchEmployeeInv, CollectEmployeeInv, StoreFormInv DEF EmployeeDesk
<1>3. ASSUME RecordDesk PROVE AttendanceInv'
  BY <1>3, CheckRecordInv, FetchRecordInv, DeleteRecordsInv DEF RecordDesk
<1>4. ASSUME Office PROVE AttendanceInv'
  BY <1>4, OpenImportInv, WritePaperInv, GuardStoresInv DEF Office
<1>. QED
  BY <1>1, <1>2, <1>3, <1>4 DEF AttendanceNext

LEMMA AttendanceRests ==
  ASSUME AttendanceInv, UNCHANGED attendanceVars
  PROVE  AttendanceInv'
<1>1. UNCHANGED <<stores, papers, batches, employees, records, doing, begun>>
  BY DEF attendanceVars
<1>2. StaffMoves
  BY <1>1, StaffStays DEF AttendanceInv, Typical
<1>3. DaysMove
  BY <1>1, <1>2, DaysStay
<1>4. TypedDesks' /\ DesksMove
  BY <1>1, <1>2, <1>3, DesksGo
<1>5. TypedStores'
  BY <1>1 DEF AttendanceInv, Typical, TypedStores
<1>6. Hired' = Hired /\ Kept' = Kept
  BY <1>1 DEF Hired, Kept
<1>7. Referred'
  BY <1>1, <1>6 DEF AttendanceInv, Referred
<1>. QED
  BY <1>2, <1>3, <1>4, <1>5, <1>6, <1>7, InvStep

LEMMA AttendanceInvariant == AttendanceSpec => []AttendanceInv
<1>1. AttendanceInit => AttendanceInv
  BY AttendanceStarts
<1>2. AttendanceInv /\ [AttendanceNext]_attendanceVars => AttendanceInv'
  BY AttendanceKept, AttendanceRests
<1>. QED
  BY <1>1, <1>2, PTL DEF AttendanceSpec

-----------------------------------------------------------------------------
(* The rows have the shape the tables give them, and what exists refers to *)
(* what exists, whatever is imported, moved or deleted at the same time.   *)
THEOREM AttendanceTypeCorrect == AttendanceSpec => []AttendanceTypeOK
<1>1. AttendanceInv => AttendanceTypeOK
  BY DEF AttendanceInv, Typical, TypedStaff, TypedDays, TypedStores, Referred, AttendanceTypeOK
<1>. QED
  BY <1>1, AttendanceInvariant, PTL

(* However the rows were edited, written back from old copies or imported, *)
(* the hours and the lateness of a record are those of its clock, also     *)
(* over midnight, unless the last to write the row was an import.          *)
THEOREM RecordsArePaidByTheClock == AttendanceSpec => []PaidByTheClock
<1>1. AttendanceInv => PaidByTheClock
  BY ClockPays DEF AttendanceInv, Typical, TypedDays
<1>. QED
  BY <1>1, AttendanceInvariant, PTL

(* Two records of a day are of an employee who changed stores: the form of *)
(* mbr-south, the forms of the stores and imports meet on the same row.    *)
THEOREM OneRecordOfADay == AttendanceSpec => []OneRecordADay
<1>1. AttendanceInv => OneRecordADay
  <2>. SUFFICES ASSUME AttendanceInv, NEW q \in Kept, NEW r \in Kept, q # r,
                       records[q].employee = records[r].employee, records[q].date = records[r].date,
                       ~employees[records[r].employee].moved
                PROVE  FALSE
    BY DEF OneRecordADay
  <2>1. q \in DOMAIN records /\ r \in DOMAIN records
    BY DEF Kept
  <2>2. records[q].store = records[r].store
    BY <2>1 DEF AttendanceInv, DaysHomed, HomeIn
  <2>. QED
    BY <2>2 DEF AttendanceInv, Distinct
<1>. QED
  BY <1>1, AttendanceInvariant, PTL

LEMMA DocumentsSpared ==
  ASSUME AttendanceInv, DeletionSparesDocuments, AttendanceNext
  PROVE  DeletionSparesDocuments'
<1>1. ASSUME UNCHANGED <<stores, papers, batches>> PROVE DeletionSparesDocuments'
  BY <1>1 DEF DeletionSparesDocuments
<1>2. /\ stores \subseteq Stores /\ papers \in [Stores -> SUBSET Papers]
      /\ batches \in [Stores -> Nat]
  BY DEF AttendanceInv, Typical, TypedStores
<1>3. ASSUME NEW t \in Desks, DropStores(t) PROVE DeletionSparesDocuments'
  <2>1. UNCHANGED <<papers, batches>>
    BY <1>3 DEF DropStores
  <2>2. CASE UNCHANGED stores
    BY <1>1, <2>1, <2>2
  <2>3. CASE Unreferenced(doing[t]) /\ stores' = stores \ doing[t].stores
    <3>1. \A s \in doing[t].stores : papers[s] = {} /\ ~(batches[s] > 0)
      BY <2>3 DEF Unreferenced, Protected
    <3>2. \A s \in Stores : s \in doing[t].stores => papers[s] = {} /\ batches[s] = 0
      BY <1>2, <3>1
    <3>. QED
      BY <2>1, <2>3, <3>2 DEF DeletionSparesDocuments
  <2>. QED
    BY <1>3, <2>2, <2>3 DEF DropStores
<1>4. ASSUME NEW t \in Desks, CommitImport(t) PROVE DeletionSparesDocuments'
  <2>1. /\ UNCHANGED <<stores, papers>> /\ doing[t].store \in stores
        /\ batches' = [batches EXCEPT ![doing[t].store] = @ + 1]
    BY <1>4 DEF CommitImport
  <2>2. \A s \in Stores \ stores : batches'[s] = batches[s]
    BY <1>2, <2>1
  <2>. QED
    BY <2>1, <2>2 DEF DeletionSparesDocuments
<1>5. ASSUME NEW s \in Stores, NEW kind \in Papers, WritePaper(s, kind)
      PROVE  DeletionSparesDocuments'
  <2>1. /\ UNCHANGED <<stores, batches>> /\ s \in stores
        /\ papers' = [papers EXCEPT ![s] = @ \cup {kind}]
    BY <1>5 DEF WritePaper
  <2>2. \A x \in Stores \ stores : papers'[x] = papers[x]
    BY <1>2, <2>1
  <2>. QED
    BY <2>1, <2>2 DEF DeletionSparesDocuments
<1>6. ASSUME NEW t \in Desks, Work(t) PROVE DeletionSparesDocuments'
  <2>1. ASSUME ~DropStores(t), ~CommitImport(t) PROVE UNCHANGED <<stores, papers, batches>>
    BY <1>6, <2>1 DEF Work, SaveEmployee, DropEmployee, InsertRecord, SaveRecord, ImportLine,
         AbortImport, CollectStores
  <2>. QED
    BY <1>1, <1>3, <1>4, <2>1
<1>7. ASSUME EmployeeDesk PROVE DeletionSparesDocuments'
  <2>1. UNCHANGED <<stores, papers, batches>>
    BY <1>7 DEF EmployeeDesk, AddEmployee, FetchEmployee, CollectEmployee, StoreForm
  <2>. QED
    BY <1>1, <2>1
<1>8. ASSUME RecordDesk PROVE DeletionSparesDocuments'
  <2>1. UNCHANGED <<stores, papers, batches>>
    BY <1>8 DEF RecordDesk, CheckRecord, FetchRecord, DeleteRecords
  <2>. QED
    BY <1>1, <2>1
<1>9. ASSUME Office PROVE DeletionSparesDocuments'
  <2>1. ASSUME NEW t \in Desks, NEW s \in Stores, NEW file \in Sheets, OpenImport(t, s, file)
        PROVE  UNCHANGED <<stores, papers, batches>>
    BY <2>1 DEF OpenImport
  <2>2. ASSUME NEW t \in Desks, NEW S \in SUBSET Stores, GuardStores(t, S)
        PROVE  UNCHANGED <<stores, papers, batches>>
    BY <2>2 DEF GuardStores
  <2>. QED
    BY <1>1, <1>5, <1>9, <2>1, <2>2 DEF Office
<1>. QED
  BY <1>6, <1>7, <1>8, <1>9 DEF AttendanceNext

(* No store goes while a document or an import is in it, not even one that *)
(* came between the check and the deletion, from whatever store it came.   *)
THEOREM StoresGoEmpty == AttendanceSpec => []DeletionSparesDocuments
<1>1. AttendanceInit => DeletionSparesDocuments
  BY AttendanceStarts
<1>2. AttendanceInv /\ DeletionSparesDocuments /\ [AttendanceNext]_attendanceVars
      => DeletionSparesDocuments'
  <2>1. ASSUME DeletionSparesDocuments, UNCHANGED attendanceVars PROVE DeletionSparesDocuments'
    BY <2>1 DEF attendanceVars, DeletionSparesDocuments
  <2>. QED
    BY <2>1, DocumentsSpared
<1>. QED
  BY <1>1, <1>2, AttendanceInvariant, PTL DEF AttendanceSpec

-----------------------------------------------------------------------------
(* Only its commit and its abortion end an import.                         *)
LEMMA ImportsEnd ==
  ASSUME AttendanceInv, AttendanceNext, NEW t \in Desks, Does(t, "import"), doing'[t] = Resting
  PROVE  CommitImport(t) \/ AbortImport(t)
<1>1. DOMAIN doing = Desks
  BY DEF AttendanceInv, Typical, TypedDesks
<1>2. doing' # doing
  BY DEF Does, Resting
<1>3. ASSUME NEW u \in Desks, NEW p, Goes(u, p) PROVE u = t /\ p = Resting
  <2>1. u = t
    BY <1>1, <1>3, Moves DEF Does, Resting
  <2>2. doing'[u] = p
    BY <1>1, <1>3, Moves
  <2>. QED
    BY <2>1, <2>2
<1>4. ASSUME NEW u \in Desks, Work(u) PROVE CommitImport(t) \/ AbortImport(t)
  <2>1. ~ImportLine(u)
    <3>. SUFFICES ASSUME ImportLine(u) PROVE FALSE
      OBVIOUS
    <3>1. /\ Goes(u, LineRead(doing[u])) /\ Does(u, "import")
          /\ doing[u].next <= Len(doing[u].file)
      BY LineIs
    <3>2. IsRosterImport(doing[u]) /\ Typical
      BY <3>1, StandFields DEF AttendanceInv, IsRosterImport
    <3>3. LineRead(doing[u]).op = "import"
      BY <3>1, <3>2, ReadFields
    <3>4. LineRead(doing[u]) = Resting
      BY <1>3, <3>1
    <3>. QED
      BY <3>3, <3>4 DEF Resting
  <2>2. u = t
    <3>1. \E p : Goes(u, p)
      BY <1>4 DEF Work, SaveEmployee, DropEmployee, InsertRecord, SaveRecord, ImportLine,
           CommitImport, AbortImport, CollectStores, DropStores
    <3>. QED
      BY <1>3, <3>1
  <2>3. doing[u].op = "import"
    BY <2>2 DEF Does
  <2>. QED
    BY <1>4, <2>1, <2>2, <2>3 DEF Work, SaveEmployee, DropEmployee, InsertRecord, SaveRecord,
       CollectStores, DropStores, Does
<1>5. ASSUME NEW u \in Desks, NEW p, Goes(u, p), Takes(u) PROVE FALSE
  <2>1. u = t
    BY <1>3, <1>5
  <2>. QED
    BY <1>5, <2>1 DEF Takes, Does
<1>6. ASSUME EmployeeDesk PROVE FALSE
  <2>1. ASSUME NEW u \in Desks, NEW e, FetchEmployee(u, e) \/ CollectEmployee(u, e) PROVE FALSE
    BY <1>5, <2>1 DEF FetchEmployee, CollectEmployee
  <2>2. ASSUME NEW s, NEW n, AddEmployee(s, n) PROVE FALSE
    BY <1>2, <2>2 DEF AddEmployee
  <2>3. ASSUME NEW s, NEW listed, NEW typed, StoreForm(s, listed, typed) PROVE FALSE
    BY <1>2, <2>3 DEF StoreForm
  <2>. QED
    BY <1>6, <2>1, <2>2, <2>3 DEF EmployeeDesk
<1>7. ASSUME RecordDesk PROVE FALSE
  <2>1. ASSUME NEW u \in Desks, NEW s, NEW e, NEW d, NEW entry, CheckRecord(u, s, e, d, entry) PROVE FALSE
    BY <1>5, <2>1 DEF CheckRecord
  <2>2. ASSUME NEW u \in Desks, NEW r, FetchRecord(u, r) PROVE FALSE
    BY <1>5, <2>2 DEF FetchRecord
  <2>3. ASSUME NEW R, DeleteRecords(R) PROVE FALSE
    BY <1>2, <2>3 DEF DeleteRecords
  <2>. QED
    BY <1>7, <2>1, <2>2, <2>3 DEF RecordDesk
<1>8. ASSUME Office PROVE FALSE
  <2>1. ASSUME NEW u \in Desks, NEW s, NEW file, OpenImport(u, s, file) PROVE FALSE
    BY <1>5, <2>1 DEF OpenImport
  <2>2. ASSUME NEW u \in Desks, NEW S, GuardStores(u, S) PROVE FALSE
    BY <1>5, <2>2 DEF GuardStores
  <2>3. ASSUME NEW s, NEW kind, WritePaper(s, kind) PROVE FALSE
    BY <1>2, <2>3 DEF WritePaper
  <2>. QED
    BY <1>8, <2>1, <2>2, <2>3 DEF Office
<1>. QED
  BY <1>4, <1>6, <1>7, <1>8 DEF AttendanceNext

(* What a commit makes of a row of the sheet.                              *)
LEMMA RowsReflected ==
  ASSUME AttendanceInv, NEW t \in Desks, CommitImport(t),
         NEW i \in DOMAIN doing[t].file, Final(doing[t].file, i)
  PROVE  Reflected(doing[t], i, employees', records')
<1>. DEFINE tx == doing[t]
            file == tx.file
<1>1. TypedStaff /\ TypedDays /\ Typical /\ t \in Importing /\ IsRosterImport(tx)
  BY CommitFields DEF AttendanceInv, Typical
<1>2. file \in Sheets /\ tx.next \in Nat \ {0} /\ tx.next > Len(file)
  BY <1>1, SheetImportFields DEF CommitImport
<1>3. i < tx.next
  BY <1>2, SheetFields
<1>4. PICK k \in DOMAIN tx.wrote, j \in {i} \cup LaterNamed(file, i) :
        /\ k[2] = file[i].date /\ (k[1] \in Nat \/ k[1] = Upper[file[i].name])
        /\ tx.wrote[k].last = FromSheet(file[j].entry)
  BY <1>1, <1>3 DEF AttendanceInv, Covered, CoveredIn
<1>5. SUFFICES ASSUME NEW r \in DOMAIN records', ~records'[r].gone, records'[r].store = tx.store,
                      records'[r].date = k[2], records'[r].entry = tx.wrote[k].last,
                      \/ employees'[records'[r].employee].name = Upper[file[i].name]
                      \/ k[1] = records'[r].employee
               PROVE  Reflected(tx, i, employees', records')
  <2>1. CASE k \in Updates(tx)
    <3>. DEFINE q == tx.wrote[k].id
    <3>1. q # 0
      BY <2>1 DEF Updates
    <3>2. /\ q \in Kept /\ records[q].store = tx.store /\ records[q].employee = k[1]
          /\ records[q].date = k[2]
      BY <1>1, <3>1 DEF AttendanceInv, LocksKept
    <3>3. q \in DOMAIN records /\ ~records[q].gone
      BY <3>2 DEF Kept
    <3>4. q \in DOMAIN records' /\ records'[q] = Touched(tx)[q]
      BY <3>3, CommitFields
    <3>5. /\ records'[q].store = tx.store /\ records'[q].employee = k[1]
          /\ records'[q].date = k[2] /\ ~records'[q].gone
      BY <1>1, <3>2, <3>3, <3>4, TouchedFields
    <3>6. PICK l \in Updates(tx) : tx.wrote[l].id = q /\ records'[q].entry = tx.wrote[l].last
      <4>1. \A r \in DOMAIN records : \A x \in Updates(tx) : tx.wrote[x].id = r =>
              \E l \in Updates(tx) : tx.wrote[l].id = r /\ Touched(tx)[r].entry = tx.wrote[l].last
        BY <1>1, TouchedFields
      <4>2. tx.wrote[k].id = q
        OBVIOUS
      <4>. HIDE DEF tx, q
      <4>. QED
        BY <2>1, <3>3, <3>4, <4>1, <4>2
    <3>7. l \in DOMAIN tx.wrote /\ tx.wrote[l].id # 0
      BY <3>6 DEF Updates
    <3>8. records[q].employee = l[1] /\ records[q].date = l[2]
      BY <1>1, <3>6, <3>7 DEF AttendanceInv, LocksKept
    <3>9. l = k
      BY <1>1, <3>2, <3>7, <3>8, SheetImportFields
    <3>. QED
      BY <1>5, <3>4, <3>5, <3>6, <3>9
  <2>2. CASE k \notin Updates(tx)
    <3>1. k \in Inserts(tx)
      BY <2>2 DEF Inserts
    <3>2. PICK r \in DOMAIN records' \ DOMAIN records : records'[r] = New(tx, k)
      BY <3>1, CommitFields
    <3>3. /\ ~records'[r].gone /\ records'[r].store = tx.store /\ records'[r].employee = WhoIs(tx, k)
          /\ records'[r].date = k[2] /\ records'[r].entry = tx.wrote[k].last
      BY <1>1, <3>1, <3>2, NewFields
    <3>4. CASE k[1] \in Nat
      <4>1. WhoIs(tx, k) = k[1]
        BY <1>1, <3>4, WhoFields
      <4>. QED
        BY <1>5, <3>2, <3>3, <4>1
    <3>5. CASE k[1] \notin Nat
      <4>1. /\ Staffed(tx)[WhoIs(tx, k)] = NewEmployee(tx.store, k[1]) /\ k[1] \in tx.fresh
        BY <1>1, <3>5, WhoFields
      <4>2. tx.store \in Stores /\ k[1] \in FullNames
        BY <1>1, <4>1, SheetImportFields
      <4>3. employees'[WhoIs(tx, k)].name = k[1]
        BY <4>1, <4>2, CommitFields, NewcomerFields
      <4>. QED
        BY <1>4, <1>5, <3>2, <3>3, <3>5, <4>3
    <3>. QED
      BY <3>4, <3>5
  <2>. QED
    BY <2>1, <2>2
<1>. QED
  BY <1>4, <1>5 DEF Reflected, LaterNamed

(* An import ends with its batch and a record for each row of the sheet,   *)
(* or with nothing: no employee or record that others edit, move or delete *)
(* meanwhile is lost to it, and none is half written.                      *)
THEOREM ImportsAreWhole == AttendanceSpec => ImportsWholeOrNot
<1>. DEFINE Ended(t) ==
              Does(t, "import") /\ doing'[t] = Resting =>
                \/ UNCHANGED <<employees, records, batches>>
                \/ /\ batches'[doing[t].store] = batches[doing[t].store] + 1
                   /\ \A i \in DOMAIN doing[t].file :
                        Final(doing[t].file, i) => Reflected(doing[t], i, employees', records')
<1>1. ASSUME AttendanceInv, AttendanceNext, NEW t \in Desks PROVE Ended(t)
  <2>. SUFFICES ASSUME Does(t, "import"), doing'[t] = Resting
                PROVE  \/ UNCHANGED <<employees, records, batches>>
                       \/ /\ batches'[doing[t].store] = batches[doing[t].store] + 1
                          /\ \A i \in DOMAIN doing[t].file :
                               Final(doing[t].file, i) => Reflected(doing[t], i, employees', records')
    OBVIOUS
  <2>1. CASE AbortImport(t)
    BY <2>1 DEF AbortImport
  <2>2. CASE CommitImport(t)
    <3>1. doing[t].store \in Stores /\ batches \in [Stores -> Nat]
      BY <1>1, <2>2, CommitFields, SheetImportFields DEF AttendanceInv, Typical, TypedStores
    <3>2. batches'[doing[t].store] = batches[doing[t].store] + 1
      BY <2>2, <3>1 DEF CommitImport
    <3>3. \A i \in DOMAIN doing[t].file :
            Final(doing[t].file, i) => Reflected(doing[t], i, employees', records')
      BY <1>1, <2>2, RowsReflected
    <3>. QED
      BY <3>2, <3>3
  <2>. QED
    BY <1>1, <2>1, <2>2, ImportsEnd
<1>2. AttendanceInv /\ [AttendanceNext]_attendanceVars
      => [\A t \in Desks : Ended(t)]_attendanceVars
  BY <1>1
<1>. QED
  BY <1>2, AttendanceInvariant, PTL DEF AttendanceSpec, ImportsWholeOrNot
=============================================================================
