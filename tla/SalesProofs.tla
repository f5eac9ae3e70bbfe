----------------------------- MODULE SalesProofs -----------------------------
(***************************************************************************)
(* Proofs about Sales, for any number of requests at once, sales, stores,  *)
(* articles and customers.                                                 *)
(***************************************************************************)
EXTENDS Sales, FiniteSetTheorems, SequenceTheorems, TLAPS

Copying == {"void", "patch", "move", "delete"}

Lines == Seq([product : Products, quantity : Nat \ {0}])

(* What a request has read, by where it is.                                *)
LEMMA PlaceFields ==
  ASSUME NEW p \in Places
  PROVE  /\ p.op \in {"prepared", "inserted"} =>
              p.payload \in Payloads /\ p.mode \in {"plain", "credit"}
         /\ p.op = "committed" => p.payload \in Payloads
         /\ p.op \in Copying => p.id \in 1 .. MaxSales /\ p.sale \in Sale
         /\ p.op = "promotion" => p.store \in Stores /\ p.todo \in Lines
         /\ p.op \in {"idle", "prepared", "inserted", "committed", "promotion"} \cup Copying
BY DEF Places, Copying, Lines

(* The places requests go to.                                              *)
LEMMA PlacesThereAre ==
  /\ Idle \in Places
  /\ \A s \in Payloads, mode \in {"plain", "credit"}, op \in {"prepared", "inserted"} :
       [op |-> op, payload |-> s, mode |-> mode] \in Places
  /\ \A s \in Payloads : [op |-> "committed", payload |-> s] \in Places
  /\ \A op \in Copying, i \in 1 .. MaxSales, sale \in Sale :
       [op |-> op, id |-> i, sale |-> sale] \in Places
  /\ \A st \in Stores, todo \in Lines : [op |-> "promotion", store |-> st, todo |-> todo] \in Places
BY DEF Places, Idle, Copying, Lines

(* What a till sends.                                                      *)
LEMMA PayloadFields ==
  ASSUME NEW s \in Payloads
  PROVE  /\ Payload[s].key \in Keys \cup {NoKey} /\ Payload[s].store \in Stores
         /\ Payload[s].lines \in [Products -> Nat] /\ Payload[s].promotions \in Nat
         /\ Payload[s].of \in Stores /\ Payload[s].customer \in Customers \cup {Nobody}
         /\ Payload[s].mode \in Modes \cup {NoMode} /\ Payload[s].credit \in BOOLEAN
<1>1. Payload[s] \in Request
  BY SalesAssumption DEF SalesAssumption
<1>. QED
  BY <1>1 DEF Request

(* What a sequence is made of.                                             *)
LEMMA Elements ==
  ASSUME NEW S, NEW seq \in Seq(S)
  PROVE  \A i \in DOMAIN seq : seq[i] \in S
OBVIOUS

(* The rest of a sequence, and a sequence with one element written anew.   *)
LEMMA Rest ==
  ASSUME NEW S, NEW seq \in Seq(S), seq # << >>
  PROVE  Head(seq) \in S /\ Tail(seq) \in Seq(S)
OBVIOUS

LEMMA Rewritten ==
  ASSUME NEW S, NEW seq \in Seq(S), NEW f, DOMAIN f = DOMAIN seq, f = [i \in DOMAIN seq |-> f[i]],
         \A i \in DOMAIN seq : f[i] \in S
  PROVE  f \in Seq(S) /\ Len(f) = Len(seq)
<1>1. DOMAIN seq = 1 .. Len(seq) /\ Len(seq) \in Nat
  OBVIOUS
<1>2. f \in [1 .. Len(seq) -> S]
  BY <1>1
<1>3. f \in Seq(S)
  BY <1>1, <1>2, SeqDef
<1>. QED
  BY <1>1, <1>3

(* A quantity as many times as there are promotions is a quantity.         *)
LEMMA QuantityTimes == \A a, b \in Nat : a * b \in Nat
OBVIOUS

(* What a sale takes is a quantity of each article.                        *)
LEMMA TakenType ==
  ASSUME promos \in [Stores -> Offer], NEW s \in Payloads
  PROVE  Taken(s) \in [Products -> Nat]
<1>1. promos[Payload[s].of].lines \in [Products -> Nat]
  BY PayloadFields DEF Offer
<1>2. \A p \in Products : Payload[s].promotions * promos[Payload[s].of].lines[p] \in Nat
  BY <1>1, PayloadFields, QuantityTimes
<1>3. \A p \in Products :
        Payload[s].lines[p] + Payload[s].promotions * promos[Payload[s].of].lines[p] \in Nat
  BY <1>2, PayloadFields
<1>. QED
  BY <1>3, Zenon DEF Taken

(* What a form for a promotion requires is a quantity of each article.     *)
LEMMA RequiredType == Required \in [Products -> Nat]
<1>1. NewLines \in Lines
  BY SalesAssumption DEF SalesAssumption, PromotionForm, Lines
<1>3. \A i \in DOMAIN NewLines : NewLines[i].quantity \in Nat
  <2>1. \A i \in DOMAIN NewLines : NewLines[i] \in [product : Products, quantity : Nat \ {0}]
    BY <1>1, Elements DEF Lines
  <2>. QED
    BY <2>1
<1>2. ASSUME NEW p \in Products
      PROVE  LET of == {i \in DOMAIN NewLines : NewLines[i].product = p}
             IN  (IF of = {} THEN 0 ELSE NewLines[CHOOSE i \in of : TRUE].quantity) \in Nat
  <2>. DEFINE of == {i \in DOMAIN NewLines : NewLines[i].product = p}
  <2>1. CASE of = {}
    BY <2>1
  <2>2. CASE of # {}
    <3>1. (CHOOSE i \in of : TRUE) \in of
      <4>. HIDE DEF of
      <4>. QED
        BY <2>2
    <3>. QED
      BY <1>3, <2>2, <3>1
  <2>. QED
    BY <2>1, <2>2
<1>. QED
  BY <1>2, Zenon DEF Required

(* The rows of the table Sale.                                             *)
LEMMA SaleFields ==
  ASSUME TypeOK, NEW i \in DOMAIN sales
  PROVE  /\ sales[i] \in Sale /\ sales[i].payload \in Payloads /\ sales[i].store \in Stores
         /\ sales[i].key \in Keys \cup {NoKey}
         /\ sales[i].took \in [Products -> Nat] /\ sales[i].moved \in [Rows -> Int]
         /\ sales[i].customer \in Customers \cup {Nobody}
         /\ sales[i].lines \in BOOLEAN /\ sales[i].gone \in BOOLEAN /\ sales[i].paid \in BOOLEAN
         /\ sales[i].status \in {"confirmed", "void"}
<1>1. sales[i] \in Sale
  BY DEF TypeOK
<1>. QED
  BY <1>1 DEF Sale

(* The types hold at first.                                                *)
LEMMA InitType == Init => TypeOK
<1> SUFFICES ASSUME Init PROVE TypeOK
  OBVIOUS
<1>. USE SalesAssumption DEF Init, SalesAssumption
<1>1. promos \in [Stores -> Offer]
  BY DEF Offer, Empty
<1>2. customers \in [Customers -> [there : BOOLEAN, active : BOOLEAN, store : Stores]]
  OBVIOUS
<1>3. at \in [Slots -> Places]
  BY PlacesThereAre
<1>4. stock \in [Rows -> Nat] /\ debts \in [Payloads -> Nat]
      /\ modes \in [Modes -> {"none", "plain", "credit"}] /\ crashes \in 0 .. MaxCrashes
  OBVIOUS
<1>5. sales \in Seq(Sale) /\ Len(sales) <= MaxSales /\ answered \subseteq Payloads
      /\ refused \subseteq Payloads
  OBVIOUS
<1>. QED
  BY <1>1, <1>2, <1>3, <1>4, <1>5, Zenon DEF TypeOK

(* A copy is of a row there is, and a row is of one payload for ever.      *)
CopiesAreOfRows ==
  \A t \in Slots :
    at[t].op \in Copying =>
      at[t].id \in DOMAIN sales /\ at[t].sale.payload = sales[at[t].id].payload

(* The places of requests, and nothing else, change.                       *)
LEMMA PlacesType ==
  ASSUME TypeOK, NEW t \in Slots, NEW place \in Places, Goto(t, place)
  PROVE  at' \in [Slots -> Places]
BY DEF TypeOK, Goto

(* A step of a sale's creation keeps the types.                            *)
LEMMA CreateType ==
  ASSUME TypeOK, NEW t \in Slots,
         \/ \E s \in Payloads : Send(t, s)
         \/ Insert(t) \/ InsertDuplicate(t) \/ Refuse(t) \/ Dangle(t) \/ Answer(t)
  PROVE  TypeOK'
<1>. USE DEF desk, client
<1>. at[t] \in Places
  BY DEF TypeOK
<1>1. ASSUME NEW s \in Payloads, Replay(t, s) PROVE TypeOK'
  BY <1>1 DEF Replay, TypeOK
<1>2. ASSUME NEW s \in Payloads, RefuseReferences(t, s) PROVE TypeOK'
  BY <1>2 DEF RefuseReferences, TypeOK
<1>3. ASSUME NEW s \in Payloads, Prepare(t, s) PROVE TypeOK'
  <2>1. ModeOf(s) \in {"plain", "credit"}
    <3>1. Payload[s].mode = NoMode \/ modes[Payload[s].mode] \in {"none", "plain", "credit"}
      BY PayloadFields DEF TypeOK
    <3>. QED
      BY <3>1 DEF ModeOf
  <2>2. at' \in [Slots -> Places]
    BY <1>3, <2>1, PlacesThereAre, PlacesType DEF Prepare
  <2>. QED
    BY <1>3, <2>2 DEF Prepare, TypeOK
<1>4. CASE Insert(t)
  <2>1. [at[t] EXCEPT !.op = "inserted"] \in Places
    BY <1>4 DEF Insert, At, Places
  <2>2. at' \in [Slots -> Places]
    BY <1>4, <2>1, PlacesType DEF Insert
  <2>. QED
    BY <1>4, <2>2 DEF Insert, TypeOK
<1>5. ASSUME Goto(t, Idle) PROVE at' \in [Slots -> Places]
  BY <1>5, PlacesThereAre, PlacesType
<1>6. CASE InsertDuplicate(t)
  BY <1>5, <1>6 DEF InsertDuplicate, TypeOK
<1>7. CASE Refuse(t)
  <2>1. at[t].payload \in Payloads
    BY <1>7, PlaceFields DEF Refuse, At
  <2>. QED
    BY <1>5, <1>7, <2>1 DEF Refuse, TypeOK
<1>8. CASE Dangle(t)
  BY <1>5, <1>8 DEF Dangle, TypeOK
<1>9. CASE Answer(t)
  <2>1. at[t].payload \in Payloads
    BY <1>9, PlaceFields DEF Answer, At
  <2>. QED
    BY <1>5, <1>9, <2>1 DEF Answer, TypeOK
<1>. QED
  BY <1>1, <1>2, <1>3, <1>4, <1>6, <1>7, <1>8, <1>9 DEF Send

(* What is appended when a sale is recorded.                               *)
Record(s, mode) ==
  [payload |-> s, key |-> Payload[s].key, store |-> Payload[s].store, status |-> "confirmed",
   customer |-> Payload[s].customer, lines |-> TRUE, gone |-> FALSE,
   took |-> Taken(s), moved |-> Moves(s), paid |-> ~InProgress(s, mode)]

(* The transaction of a sale keeps the types: nothing is taken that is not *)
(* there.                                                                  *)
LEMMA PostType ==
  ASSUME TypeOK, NEW t \in Slots, Post(t)
  PROVE  TypeOK' /\ Record(at[t].payload, at[t].mode) \in Sale
<1>. USE DEF desk, client
<1>. DEFINE s == at[t].payload
            record == Record(s, at[t].mode)
<1>1. s \in Payloads /\ at[t].mode \in {"plain", "credit"}
  BY PlaceFields DEF Post, At, TypeOK
<1>2. Taken(s) \in [Products -> Nat]
  BY <1>1, TakenType DEF TypeOK
<1>3. Moves(s) \in [Rows -> Int] /\ \A r \in Rows : stock[r] + Moves(s)[r] \in Nat
  <2>1. ASSUME NEW r \in Rows
        PROVE  Moves(s)[r] \in Int /\ stock[r] + Moves(s)[r] \in Nat
    <3>1. r[2] \in Products /\ r = <<r[1], r[2]>>
      BY DEF Rows
    <3>2. Taken(s)[r[2]] \in Nat /\ stock[r] \in Nat
      BY <1>2, <3>1 DEF TypeOK
    <3>3. r[1] = Payload[s].store => Taken(s)[r[2]] <= stock[r]
      BY <3>1 DEF Post, Enough
    <3>4. Moves(s)[r] = IF r[1] = Payload[s].store THEN -Taken(s)[r[2]] ELSE 0
      BY DEF Moves
    <3>. QED
      BY <3>2, <3>3, <3>4
  <2>2. Moves(s) = [r \in Rows |-> Moves(s)[r]]
    BY DEF Moves
  <2>. QED
    BY <2>1, <2>2
<1>4. record \in Sale
  <2>1. InProgress(s, at[t].mode) \in BOOLEAN
    BY <1>1, PayloadFields DEF InProgress
  <2>. QED
    BY <1>1, <1>2, <1>3, <2>1, PayloadFields DEF Record, Sale
<1>5. sales' = Append(sales, record)
  BY DEF Post, Record
<1>6. sales' \in Seq(Sale) /\ Len(sales') <= MaxSales
  <2>1. Len(sales) < MaxSales /\ MaxSales \in Nat
    BY SalesAssumption DEF Post, SalesAssumption
  <2>. HIDE DEF record
  <2>. QED
    BY <1>4, <1>5, <2>1 DEF TypeOK
<1>7. stock' \in [Rows -> Nat]
  BY <1>3, Zenon DEF Post
<1>8. debts' \in [Payloads -> Nat]
  BY <1>1 DEF Post, TypeOK
<1>9. modes' \in [Modes -> {"none", "plain", "credit"}]
  BY <1>1 DEF Post, TypeOK
<1>10. at' \in [Slots -> Places]
  BY <1>1, PlacesThereAre, PlacesType DEF Post
<1>11. UNCHANGED <<promos, customers, client, crashes>>
  BY DEF Post
<1>. QED
  BY <1>4, <1>6, <1>7, <1>8, <1>9, <1>10, <1>11 DEF TypeOK

(* A row of a copy is rewritten.                                           *)
LEMMA RowWritten ==
  ASSUME TypeOK, NEW i, NEW row \in Sale, sales' = [sales EXCEPT ![i] = row]
  PROVE  sales' \in Seq(Sale) /\ Len(sales') = Len(sales) /\ DOMAIN sales' = DOMAIN sales
<1>1. DOMAIN sales' = DOMAIN sales /\ sales' = [j \in DOMAIN sales |-> sales'[j]]
  OBVIOUS
<1>2. \A j \in DOMAIN sales : sales'[j] \in Sale
  BY SaleFields
<1>. QED
  BY <1>1, <1>2, Rewritten DEF TypeOK

(* Operations on a recorded sale keep the types.                           *)
LEMMA CopyType ==
  ASSUME TypeOK, CopiesAreOfRows, NEW t \in Slots,
         Void(t) \/ Patch(t) \/ Move(t) \/ Delete(t)
  PROVE  TypeOK'
<1>. USE DEF desk, client
<1>. DEFINE i == at[t].id
            copy == at[t].sale
<1>1. /\ i \in DOMAIN sales /\ copy \in Sale
      /\ copy.status \in {"confirmed", "void"} /\ copy.customer \in Customers \cup {Nobody}
      /\ copy.store \in Stores /\ copy.key \in Keys \cup {NoKey}
  <2>1. at[t].op \in Copying
    BY DEF Void, Patch, Move, Delete, At, Copying
  <2>2. at[t].sale \in Sale
    BY <2>1, PlaceFields DEF TypeOK
  <2>. QED
    BY <2>1, <2>2 DEF CopiesAreOfRows, Sale
<1>2. sales[i] \in Sale
  BY <1>1, SaleFields
<1>3. at' \in [Slots -> Places]
  BY PlacesThereAre, PlacesType DEF Void, Patch, Move, Write, Delete
<1>4. CASE Void(t)
  <2>. DEFINE back == Returned(copy, sales[i])
  <2>1. back \in [Rows -> Nat]
    <3>1. Taken(sales[i].payload) \in [Products -> Nat]
      BY <1>1, SaleFields, TakenType DEF TypeOK
    <3>2. \A r \in Rows : r[2] \in Products
      BY DEF Rows
    <3>. QED
      BY <3>1, <3>2 DEF Returned
  <2>2. stock' \in [Rows -> Nat]
    <3>. HIDE DEF back
    <3>1. [r \in Rows |-> stock[r] + back[r]] \in [Rows -> Nat]
      BY <2>1 DEF TypeOK
    <3>2. stock' = stock \/ stock' = [r \in Rows |-> stock[r] + back[r]]
      BY <1>4 DEF Void, back
    <3>. QED
      BY <3>1, <3>2 DEF TypeOK
  <2>3. sales' \in Seq(Sale) /\ Len(sales') = Len(sales)
    <3>. DEFINE row == [sales[i] EXCEPT !.status = "void",
                                        !.moved = [r \in Rows |-> @[r] + back[r]]]
    <3>. HIDE DEF back
    <3>1. [r \in Rows |-> sales[i].moved[r] + back[r]] \in [Rows -> Int]
      BY <1>1, <2>1, SaleFields
    <3>2. row \in Sale
      BY <1>2, <3>1 DEF Sale
    <3>3. sales' = sales \/ sales' = [sales EXCEPT ![i] = row]
      BY <1>4 DEF Void, back
    <3>. HIDE DEF row
    <3>. QED
      BY <3>2, <3>3, RowWritten DEF TypeOK
  <2>. QED
    BY <1>3, <1>4, <2>2, <2>3 DEF Void, TypeOK
<1>5. ASSUME NEW store \in Stores, NEW key \in Keys \cup {NoKey},
             NEW customer \in Customers \cup {Nobody}, Write(t, store, key, customer)
      PROVE  TypeOK'
  <2>. DEFINE row == [sales[i] EXCEPT !.status = copy.status, !.store = store, !.key = key,
                                      !.customer = customer, !.gone = FALSE]
  <2>1. row \in Sale
    BY <1>1, <1>2 DEF Sale
  <2>2. sales' = sales \/ sales' = [sales EXCEPT ![i] = row]
    BY <1>5 DEF Write
  <2>3. sales' \in Seq(Sale) /\ Len(sales') = Len(sales)
    <3>. HIDE DEF row
    <3>. QED
      BY <2>1, <2>2, RowWritten DEF TypeOK
  <2>. QED
    BY <1>3, <1>5, <2>3 DEF Write, TypeOK
<1>6. CASE Delete(t)
  <2>. DEFINE row == [sales[i] EXCEPT !.gone = TRUE, !.lines = FALSE]
  <2>1. row \in Sale
    BY <1>2 DEF Sale
  <2>2. sales' = [sales EXCEPT ![i] = row]
    BY <1>6 DEF Delete
  <2>3. sales' \in Seq(Sale) /\ Len(sales') = Len(sales)
    <3>. HIDE DEF row
    <3>. QED
      BY <2>1, <2>2, RowWritten DEF TypeOK
  <2>. QED
    BY <1>3, <1>6, <2>3 DEF Delete, TypeOK
<1>7. NewKeys \subseteq Keys \cup {NoKey} /\ NewCustomers \subseteq Customers \cup {Nobody}
  BY SalesAssumption DEF SalesAssumption
<1>. QED
  BY <1>1, <1>4, <1>5, <1>6, <1>7 DEF Patch, Move

(* Promotions, customers and modes keep the types.                         *)
LEMMA DeskType ==
  ASSUME TypeOK, NEW t \in Slots,
         \/ Desk(t) \/ AddLine(t) \/ EndEdit(t) \/ Crash(t)
         \/ \E operation \in Copying, i \in DOMAIN sales : Fetch(t, operation, i)
  PROVE  TypeOK'
<1>. USE DEF desk, client
<1>. at[t] \in Places
  BY DEF TypeOK
<1>1. Empty \in [Products -> Nat] /\ NewLines \in Lines
  BY SalesAssumption DEF Empty, SalesAssumption, PromotionForm, Lines
<1>2. \A place \in Places : Goto(t, place) => at' \in [Slots -> Places]
  BY PlacesType
<1>3. [status |-> "active", lines |-> Empty] \in Offer /\ [status |-> "none", lines |-> Empty] \in Offer
      /\ [status |-> "active", lines |-> Required] \in Offer
  BY <1>1, RequiredType DEF Offer
<1>4. ASSUME NEW st \in Stores, OfferOne(t, st) \/ EditPromotion(t, st) PROVE TypeOK'
  <2>1. promos' \in [Stores -> Offer]
    BY <1>3, <1>4 DEF OfferOne, EditPromotion, TypeOK
  <2>2. at' \in [Slots -> Places]
    BY <1>1, <1>2, <1>4, PlacesThereAre DEF OfferOne, EditPromotion
  <2>. QED
    BY <1>4, <2>1, <2>2 DEF OfferOne, EditPromotion, TypeOK
<1>5. ASSUME NEW st \in Stores, NEW status \in {"active", "expired"}, SetStatus(t, st, status)
      PROVE  TypeOK'
  <2>1. promos' \in [Stores -> Offer]
    BY <1>5 DEF SetStatus, TypeOK, Offer
  <2>. QED
    BY <1>5, <2>1 DEF SetStatus, TypeOK
<1>6. ASSUME NEW stores \in SUBSET Stores, OfferMany(t, stores) \/ Withdraw(t, stores) PROVE TypeOK'
  <2>1. promos' \in [Stores -> Offer]
    BY <1>3, <1>6 DEF OfferMany, Withdraw, TypeOK
  <2>. QED
    BY <1>6, <2>1 DEF OfferMany, Withdraw, TypeOK
<1>7. ASSUME NEW c \in Customers, DeleteCustomer(t, c) PROVE TypeOK'
  <2>1. \A i \in DOMAIN sales :
          (IF sales[i].customer = c THEN [sales[i] EXCEPT !.customer = Nobody] ELSE sales[i]) \in Sale
    <3>1. \A row \in Sale : [row EXCEPT !.customer = Nobody] \in Sale
      BY DEF Sale
    <3>. QED
      BY <3>1, SaleFields
  <2>2. sales' \in Seq(Sale) /\ Len(sales') = Len(sales)
    <3>1. DOMAIN sales' = DOMAIN sales /\ sales' = [i \in DOMAIN sales |-> sales'[i]]
          /\ \A i \in DOMAIN sales : sales'[i] \in Sale
      BY <1>7, <2>1 DEF DeleteCustomer
    <3>. QED
      BY <3>1, Rewritten DEF TypeOK
  <2>3. debts' \in [Payloads -> Nat]
    BY <1>7 DEF DeleteCustomer, TypeOK
  <2>4. customers' \in [Customers -> [there : BOOLEAN, active : BOOLEAN, store : Stores]]
    BY <1>7 DEF DeleteCustomer, TypeOK
  <2>. QED
    BY <1>7, <2>2, <2>3, <2>4 DEF DeleteCustomer, TypeOK
<1>8. ASSUME NEW c \in Customers, NEW active \in BOOLEAN, NEW st \in Stores,
             EditCustomer(t, c, active, st)
      PROVE  TypeOK'
  <2>1. customers' \in [Customers -> [there : BOOLEAN, active : BOOLEAN, store : Stores]]
    BY <1>8 DEF EditCustomer, TypeOK
  <2>. QED
    BY <1>8, <2>1 DEF EditCustomer, TypeOK
<1>9. ASSUME NEW m \in Modes, NEW kind \in {"plain", "credit"}, SetMode(t, m, kind) PROVE TypeOK'
  BY <1>9 DEF SetMode, TypeOK
<1>10. CASE AddLine(t)
  <2>. DEFINE line == Head(at[t].todo)
              st == at[t].store
  <2>1. st \in Stores /\ at[t].todo \in Lines /\ at[t].todo # << >>
    BY <1>10, PlaceFields DEF AddLine, At
  <2>2. line \in [product : Products, quantity : Nat \ {0}] /\ Tail(at[t].todo) \in Lines
    BY <2>1, Rest DEF Lines
  <2>3. line.product \in Products /\ line.quantity \in Nat
    BY <2>2
  <2>4. [promos EXCEPT ![st].lines[line.product] = line.quantity] \in [Stores -> Offer]
    BY <2>1, <2>3 DEF TypeOK, Offer
  <2>5. promos' \in [Stores -> Offer]
    BY <1>10, <2>4 DEF AddLine, TypeOK
  <2>6. [at[t] EXCEPT !.todo = Tail(at[t].todo)] \in Places
    BY <1>10, <2>2 DEF AddLine, At, Places, Lines
  <2>7. at' \in [Slots -> Places]
    BY <1>2, <1>10, <2>6, PlacesThereAre DEF AddLine
  <2>. QED
    BY <1>10, <2>5, <2>7 DEF AddLine, TypeOK
<1>11. CASE EndEdit(t)
  BY <1>2, <1>11, PlacesThereAre DEF EndEdit, TypeOK
<1>12. CASE Crash(t)
  <2>1. crashes' \in 0 .. MaxCrashes
    BY <1>12, SalesAssumption DEF Crash, TypeOK, SalesAssumption
  <2>. QED
    BY <1>2, <1>12, <2>1, PlacesThereAre DEF Crash, TypeOK
<1>13. ASSUME NEW operation \in Copying, NEW i \in DOMAIN sales, Fetch(t, operation, i) PROVE TypeOK'
  <2>1. i \in 1 .. MaxSales /\ sales[i] \in Sale
    BY SaleFields, SalesAssumption DEF TypeOK, SalesAssumption
  <2>2. at' \in [Slots -> Places]
    BY <1>2, <1>13, <2>1, PlacesThereAre DEF Fetch
  <2>. QED
    BY <1>13, <2>2 DEF Fetch, TypeOK
<1>. QED
  BY <1>4, <1>5, <1>6, <1>7, <1>8, <1>9, <1>10, <1>11, <1>12, <1>13 DEF Desk

-----------------------------------------------------------------------------
(* The steps that leave the table Sale alone.                              *)
LEMMA SalesLeftAlone ==
  ASSUME NEW t \in Slots,
         \/ \E s \in Payloads : Send(t, s)
         \/ \E operation \in Copying, i \in DOMAIN sales : Fetch(t, operation, i)
         \/ Insert(t) \/ InsertDuplicate(t) \/ Refuse(t) \/ Dangle(t) \/ Answer(t)
         \/ AddLine(t) \/ EndEdit(t) \/ Crash(t)
         \/ Desk(t) /\ ~\E c \in Customers : DeleteCustomer(t, c)
  PROVE  UNCHANGED sales
BY DEF Send, Replay, RefuseReferences, Prepare, Fetch, Insert, InsertDuplicate, Refuse, Dangle,
       Answer, AddLine, EndEdit, Crash, Desk, OfferOne, EditPromotion, SetStatus, OfferMany,
       Withdraw, EditCustomer, SetMode

(* A recorded sale is a new row.                                           *)
LEMMA Appended ==
  ASSUME TypeOK, NEW t \in Slots, Post(t)
  PROVE  /\ DOMAIN sales' = DOMAIN sales \cup {Len(sales) + 1}
         /\ Len(sales) + 1 \notin DOMAIN sales
         /\ sales'[Len(sales) + 1] = Record(at[t].payload, at[t].mode)
         /\ \A i \in DOMAIN sales : sales'[i] = sales[i]
<1>1. sales' = Append(sales, Record(at[t].payload, at[t].mode))
  BY DEF Post, Record
<1>2. sales \in Seq(Sale) /\ Record(at[t].payload, at[t].mode) \in Sale
  BY PostType DEF TypeOK
<1>. HIDE DEF Record
<1>. QED
  BY <1>1, <1>2

(* What a step makes of the table Sale: rows stay, of the same payload and *)
(* having taken the same, paid or not; lines do not come back; and a row   *)
(* comes by Post alone.                                                    *)
LEMMA RowsKept ==
  ASSUME TypeOK, CopiesAreOfRows, Next
  PROVE  /\ \A i \in DOMAIN sales :
              /\ i \in DOMAIN sales'
              /\ sales'[i].payload = sales[i].payload /\ sales'[i].took = sales[i].took
              /\ sales'[i].paid = sales[i].paid
              /\ sales'[i].lines => sales[i].lines
         /\ \/ DOMAIN sales' = DOMAIN sales
            \/ \E t \in Slots :
                 /\ Post(t)
                 /\ DOMAIN sales' = DOMAIN sales \cup {Len(sales) + 1}
                 /\ Len(sales) + 1 \notin DOMAIN sales
                 /\ sales'[Len(sales) + 1] = Record(at[t].payload, at[t].mode)
                 /\ \A i \in DOMAIN sales : sales'[i] = sales[i]
<1>1. CASE UNCHANGED sales
  BY <1>1
<1>3. ASSUME NEW t \in Slots, Void(t) \/ Patch(t) \/ Move(t) \/ Delete(t)
      PROVE  /\ DOMAIN sales' = DOMAIN sales
             /\ \A i \in DOMAIN sales :
                  /\ sales'[i].payload = sales[i].payload /\ sales'[i].took = sales[i].took
                  /\ sales'[i].paid = sales[i].paid
                  /\ sales'[i].lines => sales[i].lines
  <2>1. \A i \in DOMAIN sales :
          sales[i] = [payload |-> sales[i].payload, key |-> sales[i].key, store |-> sales[i].store,
                      status |-> sales[i].status, customer |-> sales[i].customer,
                      lines |-> sales[i].lines, gone |-> sales[i].gone, took |-> sales[i].took,
                      moved |-> sales[i].moved, paid |-> sales[i].paid]
    BY SaleFields DEF Sale
  <2>2. at[t].id \in DOMAIN sales
    BY <1>3 DEF CopiesAreOfRows, Copying, Void, Patch, Move, Delete, At
  <2>3. CASE Void(t)
    BY <2>1, <2>2, <2>3 DEF Void
  <2>4. CASE Patch(t)
    BY <2>1, <2>2, <2>4 DEF Patch, Write
  <2>5. CASE Move(t)
    BY <2>1, <2>2, <2>5 DEF Move, Write
  <2>6. CASE Delete(t)
    BY <2>1, <2>2, <2>6 DEF Delete
  <2>. QED
    BY <1>3, <2>3, <2>4, <2>5, <2>6
<1>4. ASSUME NEW t \in Slots, NEW c \in Customers, DeleteCustomer(t, c)
      PROVE  /\ DOMAIN sales' = DOMAIN sales
             /\ \A i \in DOMAIN sales :
                  /\ sales'[i].payload = sales[i].payload /\ sales'[i].took = sales[i].took
                  /\ sales'[i].paid = sales[i].paid
                  /\ sales'[i].lines => sales[i].lines
  <2>1. \A row \in Sale :
          LET new == [row EXCEPT !.customer = Nobody]
          IN  new.payload = row.payload /\ new.took = row.took /\ new.paid = row.paid
              /\ new.lines = row.lines
    BY DEF Sale
  <2>. QED
    BY <1>4, <2>1, SaleFields DEF DeleteCustomer
<1>. QED
  BY <1>1, <1>3, <1>4, Appended, SalesLeftAlone DEF Next, Work, Desk, Copying

(* Where requests go.                                                      *)
LEMMA WhereTheyGo ==
  ASSUME TypeOK, Next, NEW u \in Slots
  PROVE  \/ at'[u] = at[u]
         \/ at'[u] = Idle
         \/ AddLine(u) /\ at'[u].op = "promotion" /\ at'[u].store = at[u].store
         \/ \E st \in Stores :
              /\ OfferOne(u, st) \/ EditPromotion(u, st)
              /\ at'[u] = [op |-> "promotion", store |-> st, todo |-> NewLines]
         \/ at'[u].op = "prepared" /\ \E s \in Payloads : Prepare(u, s)
         \/ Insert(u) /\ at'[u].op = "inserted" /\ at'[u].payload = at[u].payload
         \/ Post(u) /\ at'[u] = [op |-> "committed", payload |-> at[u].payload]
         \/ \E operation \in Copying, i \in DOMAIN sales :
              /\ Fetch(u, operation, i)
              /\ at'[u] = [op |-> operation, id |-> i, sale |-> sales[i]]
<1>. DEFINE Goes ==
       \/ at'[u] = at[u]
       \/ at'[u] = Idle
       \/ AddLine(u) /\ at'[u].op = "promotion" /\ at'[u].store = at[u].store
       \/ \E st \in Stores :
            /\ OfferOne(u, st) \/ EditPromotion(u, st)
            /\ at'[u] = [op |-> "promotion", store |-> st, todo |-> NewLines]
       \/ at'[u].op = "prepared" /\ \E s \in Payloads : Prepare(u, s)
       \/ Insert(u) /\ at'[u].op = "inserted" /\ at'[u].payload = at[u].payload
       \/ Post(u) /\ at'[u] = [op |-> "committed", payload |-> at[u].payload]
       \/ \E operation \in Copying, i \in DOMAIN sales :
            /\ Fetch(u, operation, i)
            /\ at'[u] = [op |-> operation, id |-> i, sale |-> sales[i]]
<1>1. ASSUME NEW t \in Slots, NEW place, Goto(t, place)
      PROVE  at'[u] = IF u = t THEN place ELSE at[u]
  BY <1>1 DEF Goto, TypeOK
<1>2. ASSUME NEW t \in Slots, NEW s \in Payloads, Send(t, s) PROVE Goes
  BY <1>1, <1>2 DEF Send, Replay, RefuseReferences, Prepare
<1>3. ASSUME NEW t \in Slots, Insert(t) PROVE Goes
  <2>1. LET place == [at[t] EXCEPT !.op = "inserted"]
        IN  place.op = "inserted" /\ place.payload = at[t].payload
    BY <1>3 DEF Insert, At, TypeOK, Places
  <2>2. at'[u] = IF u = t THEN [at[t] EXCEPT !.op = "inserted"] ELSE at[u]
    BY <1>1, <1>3 DEF Insert
  <2>. QED
    BY <1>3, <2>1, <2>2
<1>4. ASSUME NEW t \in Slots, Post(t) PROVE Goes
  BY <1>1, <1>4 DEF Post
<1>5. ASSUME NEW t \in Slots,
             \/ InsertDuplicate(t) \/ Refuse(t) \/ Dangle(t) \/ Answer(t) \/ EndEdit(t) \/ Crash(t)
             \/ Void(t) \/ Patch(t) \/ Move(t) \/ Delete(t)
      PROVE  Goes
  <2>1. Goto(t, Idle)
    BY <1>5 DEF InsertDuplicate, Refuse, Dangle, Answer, EndEdit, Crash, Void, Patch, Move, Write,
                Delete
  <2>. QED
    BY <1>1, <2>1
<1>6. ASSUME NEW t \in Slots, AddLine(t) PROVE Goes
  <2>. DEFINE place == [at[t] EXCEPT !.todo = Tail(at[t].todo)]
  <2>1. place.op = "promotion" /\ place.store = at[t].store
    BY <1>6 DEF AddLine, At, TypeOK, Places
  <2>2. Goto(t, Idle) \/ Goto(t, place)
    BY <1>6 DEF AddLine
  <2>. HIDE DEF place
  <2>. QED
    BY <1>1, <1>6, <2>1, <2>2
<1>7. ASSUME NEW t \in Slots, Desk(t) PROVE Goes
  <2>1. \/ at' = at
        \/ \E st \in Stores :
             /\ OfferOne(t, st) \/ EditPromotion(t, st)
             /\ Goto(t, [op |-> "promotion", store |-> st, todo |-> NewLines])
    BY <1>7, Zenon DEF Desk, OfferOne, EditPromotion, SetStatus, OfferMany, Withdraw,
                       DeleteCustomer, EditCustomer, SetMode
  <2>2. ASSUME NEW st \in Stores, OfferOne(t, st) \/ EditPromotion(t, st),
               Goto(t, [op |-> "promotion", store |-> st, todo |-> NewLines])
        PROVE  Goes
    BY <1>1, <2>2
  <2>. QED
    BY <2>1, <2>2
<1>8. ASSUME NEW t \in Slots, NEW operation \in Copying, NEW i \in DOMAIN sales,
             Fetch(t, operation, i)
      PROVE  Goes
  BY <1>1, <1>8 DEF Fetch
<1>. HIDE DEF Goes
<1>9. Goes
  BY <1>2, <1>3, <1>4, <1>5, <1>6, <1>7, <1>8 DEF Next, Work, Copying
<1>. QED
  BY <1>9 DEF Goes

(* A request that holds a copy held it before or reads it now.             *)
LEMMA FetchedOrKept ==
  ASSUME TypeOK, Next, NEW u \in Slots, at'[u].op \in Copying
  PROVE  \/ at'[u] = at[u]
         \/ \E operation \in Copying, i \in DOMAIN sales :
              /\ Fetch(u, operation, i)
              /\ at'[u] = [op |-> operation, id |-> i, sale |-> sales[i]]
<1>1. at'[u].op \notin {"idle", "promotion", "prepared", "inserted", "committed"}
  BY DEF Copying
<1>2. /\ at'[u] # Idle /\ \A s : at'[u] # [op |-> "committed", payload |-> s]
      /\ \A st : at'[u] # [op |-> "promotion", store |-> st, todo |-> NewLines]
  BY <1>1 DEF Idle
<1>. QED
  BY <1>1, <1>2, WhereTheyGo

(* The inductive invariant of the types.                                   *)
Typed == TypeOK /\ CopiesAreOfRows

LEMMA TypedStep == Typed /\ [Next]_vars => Typed'
<1> SUFFICES ASSUME TypeOK, CopiesAreOfRows, [Next]_vars PROVE Typed'
  BY DEF Typed
<1>1. CASE UNCHANGED vars
  BY <1>1 DEF Typed, TypeOK, CopiesAreOfRows, vars, desk, client
<1>2. CASE Next
  <2>1. TypeOK'
    BY <1>2, CreateType, PostType, CopyType, DeskType DEF Next, Work, Copying
  <2>2. ASSUME NEW u \in Slots, (at[u].op \in Copying)'
        PROVE  (at[u].id \in DOMAIN sales /\ at[u].sale.payload = sales[at[u].id].payload)'
    <3>1. CASE at'[u] = at[u]
      BY <1>2, <2>2, <3>1, RowsKept DEF CopiesAreOfRows
    <3>2. ASSUME NEW operation \in Copying, NEW i \in DOMAIN sales, Fetch(u, operation, i),
                 at'[u] = [op |-> operation, id |-> i, sale |-> sales[i]]
          PROVE  (at[u].id \in DOMAIN sales /\ at[u].sale.payload = sales[at[u].id].payload)'
      BY <3>2 DEF Fetch
    <3>. QED
      BY <1>2, <2>2, <3>1, <3>2, FetchedOrKept
  <2>. QED
    BY <2>1, <2>2 DEF Typed, CopiesAreOfRows
<1>. QED
  BY <1>1, <1>2

LEMMA TypedAtFirst == Init => Typed
BY InitType DEF Typed, CopiesAreOfRows, Init, Idle, Copying

(* The variables keep their types: the stock of every article in every     *)
(* store stays a quantity, and a view's copy is of a row of the table      *)
(* (create_sale, void_sale, the views of sales, promotions and customers). *)
THEOREM SalesTypeCorrect == Spec => []TypeOK
<1>1. Typed => TypeOK
  BY DEF Typed
<1>. QED
  BY <1>1, TypedAtFirst, TypedStep, PTL DEF Spec

-----------------------------------------------------------------------------
(* Keys.                                                                   *)

(* Two rows that are there have no key in common in one store, for any     *)
(* operations and any number of requests: the constraint                   *)
(* unique_store_sale_idempotency.                                          *)
LiveKeysDiffer ==
  \A i, j \in DOMAIN sales :
    i # j /\ ~sales[i].gone /\ ~sales[j].gone =>
      ~SameKey(sales[i].key, sales[i].store, sales[j].key, sales[j].store)

(* A key inserted in an open transaction is in no row and in no other open *)
(* transaction.                                                            *)
InsertedIsNew ==
  \A t \in Slots :
    At(t, "inserted") =>
      /\ ~Recorded(at[t].payload)
      /\ ~Contended(t, Payload[at[t].payload].key, Payload[at[t].payload].store)

KeysKept == Typed /\ LiveKeysDiffer /\ InsertedIsNew

(* A request that has a key inserted had it before or inserts it.          *)
LEMMA InsertedStay ==
  ASSUME TypeOK, Next, NEW u \in Slots, at'[u].op = "inserted"
  PROVE  \/ at'[u] = at[u]
         \/ Insert(u) /\ at'[u].payload = at[u].payload
<1>1. /\ at'[u] # Idle /\ \A s : at'[u] # [op |-> "committed", payload |-> s]
      /\ \A st : at'[u] # [op |-> "promotion", store |-> st, todo |-> NewLines]
  BY DEF Idle
<1>2. \A operation \in Copying : \A i : at'[u] # [op |-> operation, id |-> i, sale |-> sales[i]]
  BY DEF Copying
<1>. QED
  BY <1>1, <1>2, WhereTheyGo

(* Whose key is where decides who contends.                                *)
LEMMA StillNew ==
  ASSUME KeysKept, Next, UNCHANGED sales
  PROVE  LiveKeysDiffer' /\ InsertedIsNew'
<1>1. LiveKeysDiffer'
  BY DEF KeysKept, LiveKeysDiffer
<1>2. ASSUME NEW t \in Slots, At(t, "inserted")'
      PROVE  (/\ ~Recorded(at[t].payload)
              /\ ~Contended(t, Payload[at[t].payload].key, Payload[at[t].payload].store))'
  <2>. USE DEF KeysKept, Typed
  <2>1. at'[t].op = "inserted"
    BY <1>2 DEF At
  <2>2. CASE Insert(t)
    <3>1. /\ ~Recorded(at[t].payload)
          /\ ~Contended(t, Payload[at[t].payload].key, Payload[at[t].payload].store)
          /\ \A u \in Slots \ {t} : at'[u] = at[u]
      BY <2>2 DEF Insert, Goto, TypeOK
    <3>2. at'[t].payload = at[t].payload
      BY <2>1, <2>2, InsertedStay
    <3>. QED
      BY <3>1, <3>2 DEF Recorded, Contended, At
  <2>3. CASE at'[t] = at[t]
    <3>1. /\ ~Recorded(at[t].payload)
          /\ ~Contended(t, Payload[at[t].payload].key, Payload[at[t].payload].store)
      BY <2>1, <2>3 DEF InsertedIsNew, At
    <3>2. ASSUME NEW u \in Slots \ {t}, at'[u].op = "inserted"
          PROVE  ~SameKey(Payload[at'[u].payload].key, Payload[at'[u].payload].store,
                          Payload[at[t].payload].key, Payload[at[t].payload].store)
      <4>1. CASE at'[u] = at[u]
        BY <3>1, <3>2, <4>1 DEF Contended, At
      <4>2. CASE Insert(u) /\ at'[u].payload = at[u].payload
        BY <2>1, <2>3, <4>2 DEF Insert, Contended, At, SameKey
      <4>. QED
        BY <3>2, <4>1, <4>2, InsertedStay
    <3>. QED
      BY <2>3, <3>1, <3>2 DEF Recorded, Contended, At
  <2>. QED
    BY <2>1, <2>2, <2>3, InsertedStay
<1>. QED
  BY <1>1, <1>2 DEF InsertedIsNew
(* When rows change: another transaction that has a key inserted is left   *)
(* alone, and a row that is there afterwards has a key no such transaction *)
(* has.                                                                    *)
LEMMA NewAfterARow ==
  ASSUME KeysKept, Next,
         \A u \in Slots : at'[u].op = "inserted" =>
           /\ at'[u] = at[u]
           /\ \A i \in DOMAIN sales' :
                ~sales'[i].gone =>
                  ~SameKey(sales'[i].key, sales'[i].store,
                           Payload[at[u].payload].key, Payload[at[u].payload].store)
  PROVE  InsertedIsNew'
<1> SUFFICES ASSUME NEW t \in Slots, At(t, "inserted")'
             PROVE  (/\ ~Recorded(at[t].payload)
                     /\ ~Contended(t, Payload[at[t].payload].key, Payload[at[t].payload].store))'
  BY DEF InsertedIsNew
<1>1. at'[t] = at[t] /\ (~Recorded(at[t].payload))'
  BY DEF Recorded, At
<1>2. ~Contended(t, Payload[at[t].payload].key, Payload[at[t].payload].store)
  BY <1>1 DEF KeysKept, InsertedIsNew, At
<1>. QED
  BY <1>1, <1>2 DEF Contended, At

(* The constraint on keys is kept, and what open transactions inserted     *)
(* stays new.                                                              *)
LEMMA KeysStep == KeysKept /\ [Next]_vars => KeysKept'
<1> SUFFICES ASSUME KeysKept, [Next]_vars PROVE KeysKept'
  OBVIOUS
<1>. TypeOK /\ CopiesAreOfRows
  BY DEF KeysKept, Typed
<1>1. Typed'
  BY TypedStep DEF KeysKept
<1>2. CASE UNCHANGED vars
  BY <1>1, <1>2 DEF KeysKept, LiveKeysDiffer, InsertedIsNew, Recorded, Contended, At, vars
<1>3. CASE Next
  <2>1. CASE UNCHANGED sales
    BY <1>1, <1>3, <2>1, StillNew DEF KeysKept
  <2>2. ASSUME NEW t \in Slots, at'[t].op # "inserted", \A u \in Slots \ {t} : at'[u] = at[u],
               NEW i \in DOMAIN sales', DOMAIN sales' = DOMAIN sales \cup {i},
               \A j \in DOMAIN sales \ {i} :
                 /\ sales'[j].key = sales[j].key /\ sales'[j].store = sales[j].store
                 /\ sales'[j].gone = sales[j].gone,
               ~sales'[i].gone =>
                 /\ \A j \in DOMAIN sales \ {i} :
                      ~sales[j].gone =>
                        ~SameKey(sales'[i].key, sales'[i].store, sales[j].key, sales[j].store)
                 /\ ~Contended(t, sales'[i].key, sales'[i].store)
        PROVE  KeysKept'
    <3>1. LiveKeysDiffer'
      BY <2>2 DEF KeysKept, LiveKeysDiffer, SameKey
    <3>2. ASSUME NEW u \in Slots, at'[u].op = "inserted"
          PROVE  /\ at'[u] = at[u]
                 /\ \A j \in DOMAIN sales' :
                      ~sales'[j].gone =>
                        ~SameKey(sales'[j].key, sales'[j].store,
                                 Payload[at[u].payload].key, Payload[at[u].payload].store)
      <4>1. u # t /\ at'[u] = at[u]
        BY <2>2, <3>2
      <4>2. ~Recorded(at[u].payload)
        BY <3>2, <4>1 DEF KeysKept, InsertedIsNew, At
      <4>. QED
        BY <2>2, <3>2, <4>1, <4>2 DEF Recorded, Contended, At, SameKey
    <3>. QED
      BY <1>1, <1>3, <3>1, <3>2, NewAfterARow DEF KeysKept
  <2>3. ASSUME NEW t \in Slots, Post(t) PROVE KeysKept'
    <3>. DEFINE i == Len(sales) + 1
                s == at[t].payload
    <3>1. /\ DOMAIN sales' = DOMAIN sales \cup {i} /\ i \notin DOMAIN sales
          /\ sales'[i].key = Payload[s].key /\ sales'[i].store = Payload[s].store
          /\ \A j \in DOMAIN sales : sales'[j] = sales[j]
      <4>1. \A mode : LET record == Record(s, mode)
                       IN  record.key = Payload[s].key /\ record.store = Payload[s].store
        BY DEF Record
      <4>. QED
        BY <2>3, <4>1, Appended
    <3>2. at'[t].op # "inserted" /\ \A u \in Slots \ {t} : at'[u] = at[u]
      BY <2>3 DEF Post, Goto, TypeOK
    <3>3. ~Recorded(s) /\ ~Contended(t, Payload[s].key, Payload[s].store)
      BY <2>3 DEF KeysKept, InsertedIsNew, Post
    <3>. QED
      BY <2>2, <3>1, <3>2, <3>3 DEF Recorded, SameKey
  <2>4. ASSUME NEW t \in Slots, Void(t) \/ Patch(t) \/ Move(t) \/ Delete(t), sales' # sales
        PROVE  KeysKept'
    <3>. DEFINE i == at[t].id
    <3>1. i \in DOMAIN sales
      BY <2>4 DEF CopiesAreOfRows, Copying, Void, Patch, Move, Delete, At
    <3>2. at' = [at EXCEPT ![t] = Idle]
      BY <2>4 DEF Void, Patch, Move, Write, Delete, Goto
    <3>3. at'[t].op # "inserted" /\ \A u \in Slots \ {t} : at'[u] = at[u]
      BY <3>2 DEF TypeOK, Idle
    <3>4. sales[i] = [payload |-> sales[i].payload, key |-> sales[i].key, store |-> sales[i].store,
                      status |-> sales[i].status, customer |-> sales[i].customer,
                      lines |-> sales[i].lines, gone |-> sales[i].gone, took |-> sales[i].took,
                      moved |-> sales[i].moved, paid |-> sales[i].paid]
      BY <3>1, SaleFields DEF Sale
    <3>5. CASE Void(t)
      <4>1. /\ DOMAIN sales' = DOMAIN sales /\ ~sales[i].gone
            /\ \A j \in DOMAIN sales : sales'[j].key = sales[j].key
                  /\ sales'[j].store = sales[j].store /\ sales'[j].gone = sales[j].gone
        BY <2>4, <3>1, <3>4, <3>5 DEF Void, Voidable
      <4>2. ~Contended(t, sales'[i].key, sales'[i].store)
        <5>1. ASSUME NEW u \in Slots \ {t}, At(u, "inserted")
              PROVE  ~SameKey(Payload[at[u].payload].key, Payload[at[u].payload].store,
                              sales[i].key, sales[i].store)
          BY <3>1, <4>1, <5>1 DEF KeysKept, InsertedIsNew, Recorded, SameKey
        <5>. QED
          BY <3>1, <4>1, <5>1 DEF Contended
      <4>. QED
        BY <2>2, <3>1, <3>3, <4>1, <4>2 DEF KeysKept, LiveKeysDiffer
    <3>6. ASSUME NEW store, NEW key, NEW customer, Write(t, store, key, customer)
          PROVE  KeysKept'
      <4>1. /\ DOMAIN sales' = DOMAIN sales
            /\ sales'[i].key = key /\ sales'[i].store = store /\ ~sales'[i].gone
            /\ \A j \in DOMAIN sales \ {i} : sales'[j] = sales[j]
            /\ \A j \in DOMAIN sales \ {i} :
                 ~sales[j].gone => ~SameKey(sales[j].key, sales[j].store, key, store)
            /\ ~Contended(t, key, store)
        <5>. DEFINE row == [sales[i] EXCEPT !.status = at[t].sale.status, !.store = store,
                                            !.key = key, !.customer = customer, !.gone = FALSE]
        <5>1. sales' = [sales EXCEPT ![i] = row]
          BY <2>4, <3>6 DEF Write
        <5>2. row.key = key /\ row.store = store /\ ~row.gone
          BY <3>4
        <5>3. sales'[i] = row /\ DOMAIN sales' = DOMAIN sales
              /\ \A j \in DOMAIN sales \ {i} : sales'[j] = sales[j]
          BY <3>1, <5>1
        <5>4. /\ \A j \in DOMAIN sales \ {i} :
                   ~sales[j].gone => ~SameKey(sales[j].key, sales[j].store, key, store)
              /\ ~Contended(t, key, store)
          BY <2>4, <3>1, <3>6 DEF Write
        <5>. QED
          BY <5>2, <5>3, <5>4
      <4>. QED
        BY <2>2, <3>1, <3>3, <4>1 DEF SameKey
    <3>7. CASE Delete(t)
      <4>1. /\ DOMAIN sales' = DOMAIN sales /\ sales'[i].gone
            /\ \A j \in DOMAIN sales \ {i} : sales'[j] = sales[j]
        BY <3>1, <3>4, <3>7 DEF Delete
      <4>. QED
        BY <2>2, <3>1, <3>3, <4>1
    <3>. QED
      BY <2>4, <3>5, <3>6, <3>7 DEF Patch, Move
  <2>5. ASSUME NEW t \in Slots, NEW c \in Customers, DeleteCustomer(t, c) PROVE KeysKept'
    <3>1. /\ DOMAIN sales' = DOMAIN sales
          /\ \A j \in DOMAIN sales : sales'[j].key = sales[j].key
                /\ sales'[j].store = sales[j].store /\ sales'[j].gone = sales[j].gone
      <4>1. \A row \in Sale :
              LET new == [row EXCEPT !.customer = Nobody]
              IN  new.key = row.key /\ new.store = row.store /\ new.gone = row.gone
        BY DEF Sale
      <4>. QED
        BY <2>5, <4>1, SaleFields DEF DeleteCustomer
    <3>2. at' = at
      BY <2>5 DEF DeleteCustomer
    <3>3. LiveKeysDiffer'
      BY <3>1 DEF KeysKept, LiveKeysDiffer
    <3>4. InsertedIsNew'
      BY <3>1, <3>2 DEF KeysKept, InsertedIsNew, Recorded, Contended, At
    <3>. QED
      BY <1>1, <3>3, <3>4 DEF KeysKept
  <2>. QED
    BY <1>3, <2>1, <2>3, <2>4, <2>5, SalesLeftAlone DEF Next, Work, Desk, Copying
<1>. QED
  BY <1>2, <1>3

(* Whatever is deleted, moved to another store, given another key and sent *)
(* again, whoever races and dies: two recorded sales of a store never have *)
(* one key (unique_store_sale_idempotency, create_sale, SaleSerializer).   *)
THEOREM KeysStayUnique == Spec => []LiveKeysDiffer
<1>1. Init => KeysKept
  BY TypedAtFirst DEF KeysKept, LiveKeysDiffer, InsertedIsNew, Init, Idle, At
<1>2. KeysKept => LiveKeysDiffer
  BY DEF KeysKept
<1>. QED
  BY <1>1, <1>2, KeysStep, PTL DEF Spec
-----------------------------------------------------------------------------
(* Promotions and credit.                                                  *)

(* A promotion that is there stays, active or not, unless it is withdrawn  *)
(* while no sale has lines of it.                                          *)
LEMMA PromotionsStay ==
  ASSUME TypeOK, Next, NEW st \in Stores, promos[st].status # "none"
  PROVE  promos'[st].status # "none" \/ (~Sold(st) /\ UNCHANGED sales)
<1>. USE DEF TypeOK
<1>1. ASSUME NEW t \in Slots, Desk(t)
      PROVE  promos'[st].status # "none" \/ (~Sold(st) /\ UNCHANGED sales)
  <2>1. ASSUME NEW of \in Stores, OfferOne(t, of) \/ EditPromotion(t, of)
        PROVE  promos'[st].status # "none"
    <3>. DEFINE new == [status |-> "active", lines |-> Empty]
    <3>1. promos' = [promos EXCEPT ![of] = new] /\ new.status = "active"
      BY <2>1 DEF OfferOne, EditPromotion
    <3>. HIDE DEF new
    <3>. QED
      BY <3>1
  <2>2. ASSUME NEW of \in Stores, NEW status \in {"active", "expired"}, SetStatus(t, of, status)
        PROVE  promos'[st].status # "none"
    <3>1. [promos[of] EXCEPT !.status = status].status = status
      BY DEF Offer
    <3>. QED
      BY <2>2, <3>1 DEF SetStatus
  <2>3. ASSUME NEW stores \in SUBSET Stores, OfferMany(t, stores)
        PROVE  promos'[st].status # "none"
    BY <2>3 DEF OfferMany
  <2>4. ASSUME NEW stores \in SUBSET Stores, Withdraw(t, stores)
        PROVE  promos'[st].status # "none" \/ (~Sold(st) /\ UNCHANGED sales)
    BY <2>4 DEF Withdraw
  <2>5. ASSUME NEW c \in Customers,
               \/ DeleteCustomer(t, c)
               \/ \E active \in BOOLEAN, home \in Stores : EditCustomer(t, c, active, home)
        PROVE  promos' = promos
    BY <2>5 DEF DeleteCustomer, EditCustomer
  <2>6. ASSUME NEW m \in Modes, NEW kind \in {"plain", "credit"}, SetMode(t, m, kind)
        PROVE  promos' = promos
    BY <2>6 DEF SetMode
  <2>. QED
    BY <1>1, <2>1, <2>2, <2>3, <2>4, <2>5, <2>6 DEF Desk
<1>2. ASSUME NEW t \in Slots, AddLine(t) PROVE promos'[st].status # "none"
  <2>1. \/ promos' = promos
        \/ \E p, n :
             promos' = [promos EXCEPT ![at[t].store] =
                          [promos[at[t].store] EXCEPT !.lines =
                             [promos[at[t].store].lines EXCEPT ![p] = n]]]
    BY <1>2 DEF AddLine
  <2>2. ASSUME NEW p, NEW n,
               promos' = [promos EXCEPT ![at[t].store] =
                            [promos[at[t].store] EXCEPT !.lines =
                               [promos[at[t].store].lines EXCEPT ![p] = n]]]
        PROVE  promos'[st].status # "none"
    <3>1. promos'[st] = promos[st]
          \/ promos'[st] = [promos[st] EXCEPT !.lines = [promos[st].lines EXCEPT ![p] = n]]
      BY <2>2
    <3>2. [promos[st] EXCEPT !.lines = [promos[st].lines EXCEPT ![p] = n]].status = promos[st].status
      <4>1. promos[st] \in Offer
        OBVIOUS
      <4>. QED
        BY <4>1 DEF Offer
    <3>. QED
      BY <3>1, <3>2
  <2>. QED
    BY <2>1, <2>2
<1>3. ASSUME NEW t \in Slots,
             \/ \E s \in Payloads : Send(t, s)
             \/ \E operation \in Copying, i \in DOMAIN sales : Fetch(t, operation, i)
             \/ Insert(t) \/ InsertDuplicate(t) \/ Post(t) \/ Refuse(t) \/ Dangle(t) \/ Answer(t)
             \/ Void(t) \/ Patch(t) \/ Move(t) \/ Delete(t) \/ EndEdit(t) \/ Crash(t)
      PROVE  promos' = promos
  BY <1>3 DEF Send, Replay, RefuseReferences, Prepare, Fetch, Insert, InsertDuplicate, Post, Refuse,
              Dangle, Answer, Void, Patch, Move, Write, Delete, EndEdit, Crash, desk
<1>. QED
  BY <1>1, <1>2, <1>3 DEF Next, Work, Copying

LEMMA SoldPromotionStaysStep ==
  ASSUME Typed, SoldPromotionStays, [Next]_vars
  PROVE  SoldPromotionStays'
<1>. USE DEF Typed
<1>1. CASE UNCHANGED vars
  BY <1>1 DEF SoldPromotionStays, vars, desk
<1>2. CASE Next
  <2> SUFFICES ASSUME NEW i \in DOMAIN sales', sales'[i].lines,
                      Payload[sales'[i].payload].promotions > 0
               PROVE  promos'[Payload[sales'[i].payload].of].status # "none"
    BY DEF SoldPromotionStays
  <2>1. CASE i \in DOMAIN sales
    <3>1. sales[i].lines /\ sales'[i].payload = sales[i].payload /\ sales[i].payload \in Payloads
      BY <1>2, <2>1, RowsKept, SaleFields
    <3>2. Sold(Payload[sales[i].payload].of)
      BY <2>1, <3>1 DEF Sold
    <3>3. promos[Payload[sales[i].payload].of].status # "none"
      BY <2>1, <3>1 DEF SoldPromotionStays
    <3>4. promos'[Payload[sales[i].payload].of].status # "none"
      BY <1>2, <3>1, <3>2, <3>3, PromotionsStay, PayloadFields
    <3>. QED
      BY <3>1, <3>4
  <2>2. CASE i \notin DOMAIN sales
    <3>1. PICK t \in Slots : Post(t) /\ sales'[i] = Record(at[t].payload, at[t].mode)
      BY <1>2, <2>2, RowsKept
    <3>2. sales'[i].payload = at[t].payload
      BY <3>1 DEF Record
    <3>. QED
      BY <3>1, <3>2 DEF Post, References
  <2>. QED
    BY <2>1, <2>2
<1>. QED
  BY <1>1, <1>2

(* The promotions of the sales that have their lines are there, so that a  *)
(* void gives back what they hold: PROTECT, and the foreign key that is    *)
(* tested at commit.                                                       *)
THEOREM PromotionsOfSalesStay == Spec => []SoldPromotionStays
<1>1. Init => SoldPromotionStays
  BY DEF Init, SoldPromotionStays
<1>2. Typed /\ SoldPromotionStays /\ [Next]_vars => (Typed /\ SoldPromotionStays)'
  BY TypedStep, SoldPromotionStaysStep
<1>. QED
  BY <1>1, <1>2, TypedAtFirst, PTL DEF Spec

(* The sales of a payload that are not paid.                               *)
Unpaid(s) == {i \in DOMAIN sales : sales[i].payload = s /\ ~sales[i].paid}

LEMMA UnpaidCounted ==
  ASSUME TypeOK, NEW s
  PROVE  IsFiniteSet(Unpaid(s)) /\ Cardinality(Unpaid(s)) \in Nat
<1>1. Len(sales) \in Nat /\ DOMAIN sales = 1 .. Len(sales)
  BY DEF TypeOK
<1>2. IsFiniteSet(1 .. Len(sales))
  BY <1>1, FS_Interval
<1>3. Unpaid(s) \subseteq 1 .. Len(sales)
  BY <1>1 DEF Unpaid
<1>. QED
  BY <1>2, <1>3, FS_Subset, FS_CardinalityType

(* Who owes: a customer that is there.                                     *)
Owes(s) == Payload[s].customer # Nobody /\ customers[Payload[s].customer].there

(* Customers come and go by the desk alone.                                *)
LEMMA CustomersStay ==
  ASSUME TypeOK, Next
  PROVE  \/ /\ \A c \in Customers : customers'[c].there = customers[c].there
            /\ (debts' = debts \/ \E t \in Slots : Post(t))
         \/ \E t \in Slots, c \in Customers : DeleteCustomer(t, c)
<1>1. ASSUME NEW t \in Slots, Desk(t), ~\E c \in Customers : DeleteCustomer(t, c)
      PROVE  debts' = debts /\ \A c \in Customers : customers'[c].there = customers[c].there
  <2>1. ASSUME NEW c \in Customers, NEW active \in BOOLEAN, NEW st \in Stores,
               EditCustomer(t, c, active, st)
        PROVE  debts' = debts /\ \A d \in Customers : customers'[d].there = customers[d].there
    BY <2>1 DEF EditCustomer, TypeOK
  <2>. QED
    BY <1>1, <2>1 DEF Desk, OfferOne, EditPromotion, SetStatus, OfferMany, Withdraw, SetMode
<1>2. ASSUME NEW t \in Slots,
             \/ \E s \in Payloads : Send(t, s)
             \/ \E operation \in Copying, i \in DOMAIN sales : Fetch(t, operation, i)
             \/ Insert(t) \/ InsertDuplicate(t) \/ Refuse(t) \/ Dangle(t) \/ Answer(t)
             \/ Void(t) \/ Patch(t) \/ Move(t) \/ Delete(t)
             \/ AddLine(t) \/ EndEdit(t) \/ Crash(t)
      PROVE  debts' = debts /\ customers' = customers
  BY <1>2 DEF Send, Replay, RefuseReferences, Prepare, Fetch, Insert, InsertDuplicate, Refuse,
              Dangle, Answer, Void, Patch, Move, Write, Delete, AddLine, EndEdit, Crash, desk
<1>3. ASSUME NEW t \in Slots, Post(t) PROVE customers' = customers
  BY <1>3 DEF Post
<1>. QED
  BY <1>1, <1>2, <1>3 DEF Next, Work, Copying

LEMMA CreditIsOwedStep ==
  ASSUME Typed, CreditIsOwed, [Next]_vars
  PROVE  CreditIsOwed'
<1>. USE DEF Typed
<1>1. \A s \in Payloads : debts[s] = IF Owes(s) THEN Cardinality(Unpaid(s)) ELSE 0
  BY DEF CreditIsOwed, Owes, Unpaid
<1> SUFFICES ASSUME NEW s \in Payloads
             PROVE  debts'[s] = IF Owes(s)' THEN Cardinality(Unpaid(s)') ELSE 0
  BY DEF CreditIsOwed, Owes, Unpaid
<1>2. CASE UNCHANGED vars
  BY <1>1, <1>2 DEF Owes, Unpaid, vars, desk
<1>3. Payload[s].customer # Nobody => Payload[s].customer \in Customers
  BY PayloadFields
<1>4. ASSUME NEW t \in Slots, Post(t)
      PROVE  debts'[s] = IF Owes(s)' THEN Cardinality(Unpaid(s)') ELSE 0
  <2>. DEFINE i == Len(sales) + 1
  <2>1. Owes(s)' = Owes(s)
    BY <1>4 DEF Post, Owes
  <2>2. /\ DOMAIN sales' = DOMAIN sales \cup {i} /\ i \notin DOMAIN sales
        /\ sales'[i].payload = at[t].payload
        /\ sales'[i].paid = ~InProgress(at[t].payload, at[t].mode)
        /\ \A j \in DOMAIN sales : sales'[j] = sales[j]
    <3>1. LET record == Record(at[t].payload, at[t].mode)
          IN  /\ record.payload = at[t].payload
              /\ record.paid = ~InProgress(at[t].payload, at[t].mode)
      BY DEF Record
    <3>2. /\ DOMAIN sales' = DOMAIN sales \cup {i} /\ i \notin DOMAIN sales
          /\ sales'[i] = Record(at[t].payload, at[t].mode)
          /\ \A j \in DOMAIN sales : sales'[j] = sales[j]
      BY <1>4, Appended
    <3>. QED
      BY <3>1, <3>2
  <2>3. CASE s = at[t].payload
    <3>1. debts'[s] = debts[s] + IF Owed(t) THEN 1 ELSE 0
      BY <1>4, <2>3 DEF Post, TypeOK
    <3>2. Payload[s].customer # Nobody => Owes(s)
      BY <1>4, <2>3 DEF Post, References, Owes
    <3>3. CASE InProgress(s, at[t].mode)
      <4>1. Unpaid(s)' = Unpaid(s) \cup {i} /\ i \notin Unpaid(s)
        BY <2>2, <2>3, <3>3 DEF Unpaid
      <4>2. Cardinality(Unpaid(s)') = Cardinality(Unpaid(s)) + 1
        BY <4>1, UnpaidCounted, FS_AddElement
      <4>3. Owed(t) <=> Owes(s)
        BY <2>3, <3>2, <3>3 DEF Owed, Owes
      <4>. QED
        BY <1>1, <2>1, <3>1, <4>2, <4>3, UnpaidCounted
    <3>4. CASE ~InProgress(s, at[t].mode)
      <4>1. Unpaid(s)' = Unpaid(s)
        BY <2>2, <2>3, <3>4 DEF Unpaid
      <4>2. debts'[s] = debts[s]
        BY <2>3, <3>1, <3>4 DEF Owed, TypeOK
      <4>. QED
        BY <1>1, <2>1, <4>1, <4>2
    <3>. QED
      BY <3>3, <3>4
  <2>4. CASE s # at[t].payload
    <3>1. Unpaid(s)' = Unpaid(s)
      BY <2>2, <2>4 DEF Unpaid
    <3>2. debts'[s] = debts[s]
      BY <1>4, <2>4 DEF Post, TypeOK
    <3>. QED
      BY <1>1, <2>1, <3>1, <3>2
  <2>. QED
    BY <2>3, <2>4
<1>5. ASSUME Next, ~\E t \in Slots : Post(t) PROVE Unpaid(s)' = Unpaid(s)
  BY <1>5, RowsKept DEF Unpaid
<1>6. ASSUME NEW t \in Slots, NEW c \in Customers, DeleteCustomer(t, c), Next
      PROVE  debts'[s] = IF Owes(s)' THEN Cardinality(Unpaid(s)') ELSE 0
  <2>1. c # Nobody
    BY SalesAssumption DEF SalesAssumption
  <2>2. /\ debts'[s] = IF Payload[s].customer = c THEN 0 ELSE debts[s]
        /\ ~customers'[c].there
        /\ \A d \in Customers \ {c} : customers'[d] = customers[d]
    <3>1. \A row \in [there : BOOLEAN, active : BOOLEAN, store : Stores] :
            ~[row EXCEPT !.there = FALSE].there
      OBVIOUS
    <3>. QED
      BY <1>6, <3>1 DEF DeleteCustomer, TypeOK
  <2>3. Unpaid(s)' = Unpaid(s)
    <3>1. DOMAIN sales' = DOMAIN sales
      BY <1>6 DEF DeleteCustomer
    <3>. QED
      BY <1>6, <3>1, RowsKept DEF Unpaid
  <2>. QED
    BY <1>1, <1>3, <2>1, <2>2, <2>3 DEF Owes
<1>7. ASSUME Next, debts' = debts, ~\E t \in Slots : Post(t),
             \A c \in Customers : customers'[c].there = customers[c].there
      PROVE  debts'[s] = IF Owes(s)' THEN Cardinality(Unpaid(s)') ELSE 0
  BY <1>1, <1>3, <1>5, <1>7 DEF Owes
<1>. QED
  BY <1>2, <1>4, <1>6, <1>7, CustomersStay

(* The ledger of a customer that is there holds an entry for each of its   *)
(* sales that were recorded unpaid, and no other (create_sale,             *)
(* CustomerCreditLedger).                                                  *)
THEOREM CreditIsAlwaysOwed == Spec => []CreditIsOwed
<1>1. Init => CreditIsOwed
  <2> SUFFICES ASSUME Init, NEW s \in Payloads PROVE debts[s] = 0 /\ Cardinality(Unpaid(s)) = 0
    BY DEF CreditIsOwed, Unpaid
  <2>1. Unpaid(s) = {}
    BY DEF Init, Unpaid
  <2>. QED
    BY <2>1, FS_EmptySet DEF Init
<1>2. Typed /\ CreditIsOwed /\ [Next]_vars => (Typed /\ CreditIsOwed)'
  BY TypedStep, CreditIsOwedStep
<1>. QED
  BY <1>1, <1>2, TypedAtFirst, PTL DEF Spec
-----------------------------------------------------------------------------
(* Sold once.  A key is free again when its sale is deleted, moved to      *)
(* another store or given another key, so this is about tills whose sales  *)
(* are none of these.                                                      *)

(* A row, or a copy, has the store and the key its sale was sent with.     *)
Original(row) ==
  row.store = Payload[row.payload].store /\ row.key = Payload[row.payload].key

AtHome ==
  /\ \A i \in DOMAIN sales : ~sales[i].gone /\ Original(sales[i])
  /\ \A t \in Slots :
       at[t].op \in Copying => at[t].op \in Operations /\ Original(at[t].sale)

(* What clients and ledgers were told of has its row.                      *)
Backed ==
  /\ \A t \in Slots :
       at[t].op = "committed" => \E i \in DOMAIN sales : sales[i].payload = at[t].payload
  /\ \A s \in Payloads :
       /\ Payload[s].key # NoKey => debts[s] <= 1
       /\ debts[s] > 0 => \E i \in DOMAIN sales : sales[i].payload = s
  /\ \A s \in answered :
       \E i \in DOMAIN sales :
         \/ sales[i].payload = s
         \/ SameKey(Payload[sales[i].payload].key, Payload[sales[i].payload].store,
                    Payload[s].key, Payload[s].store)

OnceKept == KeysKept /\ AtHome /\ Backed

LEMMA AtHomeStep ==
  ASSUME Operations \cap {"delete", "move"} = {}, Typed, AtHome, Next
  PROVE  AtHome'
<1>. USE DEF Typed
<1>1. ASSUME NEW i \in DOMAIN sales'
      PROVE  ~sales'[i].gone /\ Original(sales'[i])
  <2>1. ASSUME NEW t \in Slots, Post(t)
        PROVE  ~sales'[i].gone /\ Original(sales'[i])
    <3>1. LET record == Record(at[t].payload, at[t].mode)
          IN  ~record.gone /\ Original(record)
      BY DEF Record, Original
    <3>2. \/ i \in DOMAIN sales /\ sales'[i] = sales[i]
          \/ sales'[i] = Record(at[t].payload, at[t].mode)
      BY <2>1, Appended
    <3>. QED
      BY <3>1, <3>2 DEF AtHome
  <2>2. ASSUME NEW t \in Slots, Void(t) \/ Patch(t) \/ Move(t) \/ Delete(t)
        PROVE  ~sales'[i].gone /\ Original(sales'[i])
    <3>1. /\ at[t].op \in Copying \cap Operations /\ at[t].id \in DOMAIN sales
          /\ at[t].sale.store = Payload[sales[at[t].id].payload].store
          /\ at[t].sale.key = Payload[sales[at[t].id].payload].key
      BY <2>2 DEF AtHome, Original, CopiesAreOfRows, Void, Patch, Move, Delete, At, Copying
    <3>2. Void(t) \/ Patch(t)
      BY <2>2, <3>1 DEF Move, Delete, At
    <3>3. DOMAIN sales' = DOMAIN sales
      BY <3>2 DEF Void, Patch, Write
    <3>. DEFINE row == sales[at[t].id]
    <3>4. row = [payload |-> row.payload, key |-> row.key, store |-> row.store,
                 status |-> row.status, customer |-> row.customer, lines |-> row.lines, gone |-> row.gone,
                 took |-> row.took, moved |-> row.moved, paid |-> row.paid]
      BY <3>1, SaleFields DEF Sale
    <3>5. CASE Void(t)
      <4>1. /\ sales'[i].payload = sales[i].payload /\ sales'[i].store = sales[i].store
            /\ sales'[i].gone = sales[i].gone /\ sales'[i].key = sales[i].key
        BY <3>1, <3>3, <3>4, <3>5 DEF Void
      <4>. QED
        BY <3>3, <4>1 DEF AtHome, Original
    <3>6. ASSUME NEW customer, Write(t, at[t].sale.store, at[t].sale.key, customer)
          PROVE  ~sales'[i].gone /\ Original(sales'[i])
      <4>. DEFINE new == [row EXCEPT !.status = at[t].sale.status, !.store = at[t].sale.store,
                                     !.key = at[t].sale.key, !.customer = customer, !.gone = FALSE]
      <4>1. sales' = sales \/ sales' = [sales EXCEPT ![at[t].id] = new]
        BY <3>6 DEF Write
      <4>2. ~new.gone /\ Original(new)
        BY <3>1, <3>4 DEF Original
      <4>3. sales'[i] = sales[i] \/ sales'[i] = new
        BY <3>3, <4>1
      <4>. HIDE DEF new
      <4>. QED
        BY <3>3, <4>2, <4>3 DEF AtHome
    <3>. QED
      BY <3>2, <3>5, <3>6 DEF Patch
  <2>3. ASSUME NEW t \in Slots, NEW c \in Customers, DeleteCustomer(t, c)
        PROVE  ~sales'[i].gone /\ Original(sales'[i])
    <3>1. \A row \in Sale :
            LET new == [row EXCEPT !.customer = Nobody]
            IN  /\ new.payload = row.payload /\ new.store = row.store
                /\ new.gone = row.gone /\ new.key = row.key
      BY DEF Sale
    <3>. QED
      BY <2>3, <3>1, SaleFields DEF DeleteCustomer, AtHome, Original
  <2>4. CASE UNCHANGED sales
    BY <2>4 DEF AtHome
  <2>. QED
    BY <2>1, <2>2, <2>3, <2>4, SalesLeftAlone DEF Next, Work, Desk, Copying
<1>2. ASSUME NEW u \in Slots, at'[u].op \in Copying
      PROVE  at'[u].op \in Operations /\ Original(at'[u].sale)
  <2>1. ASSUME NEW operation \in Copying, NEW i \in DOMAIN sales, Fetch(u, operation, i),
               at'[u] = [op |-> operation, id |-> i, sale |-> sales[i]]
        PROVE  at'[u].op \in Operations /\ Original(at'[u].sale)
    BY <2>1 DEF Fetch, Begins, AtHome
  <2>. QED
    BY <1>2, <2>1, FetchedOrKept DEF AtHome
<1>. QED
  BY <1>1, <1>2 DEF AtHome, Original

(* A client is told of a sale that was recorded.                           *)
LEMMA ToldOfARow ==
  ASSUME TypeOK, Next, NEW s \in answered'
  PROVE  \/ s \in answered
         \/ Recorded(s)
         \/ \E t \in Slots : at[t].op = "committed" /\ at[t].payload = s
<1>1. ASSUME NEW t \in Slots, Desk(t) PROVE answered' = answered
  BY <1>1 DEF Desk, OfferOne, EditPromotion, SetStatus, OfferMany, Withdraw, DeleteCustomer,
              EditCustomer, SetMode, client
<1>2. ASSUME NEW t \in Slots, NEW p \in Payloads, Send(t, p)
      PROVE  \/ answered' = answered
             \/ Recorded(p) /\ answered' = answered \cup {p}
  BY <1>2 DEF Send, Replay, RefuseReferences, Prepare, client
<1>3. ASSUME NEW t \in Slots, Answer(t)
      PROVE  at[t].op = "committed" /\ answered' = answered \cup {at[t].payload}
  BY <1>3 DEF Answer, At
<1>4. ASSUME NEW t \in Slots,
             \/ \E operation \in Copying, i \in DOMAIN sales : Fetch(t, operation, i)
             \/ Insert(t) \/ InsertDuplicate(t) \/ Post(t) \/ Refuse(t) \/ Dangle(t)
             \/ Void(t) \/ Patch(t) \/ Move(t) \/ Delete(t)
             \/ AddLine(t) \/ EndEdit(t) \/ Crash(t)
      PROVE  answered' = answered
  BY <1>4 DEF Fetch, Insert, InsertDuplicate, Post, Refuse, Dangle, Void, Patch, Move, Write, Delete,
              AddLine, EndEdit, Crash, client
<1>. QED
  BY <1>1, <1>2, <1>3, <1>4 DEF Next, Work, Copying

LEMMA BackedStep ==
  ASSUME OnceKept, Next
  PROVE  Backed'
<1>. TypeOK /\ CopiesAreOfRows
  BY DEF OnceKept, KeysKept, Typed
<1>. USE DEF OnceKept
<1>1. ASSUME NEW s, \E i \in DOMAIN sales : sales[i].payload = s
      PROVE  \E i \in DOMAIN sales' : sales'[i].payload = s
  BY <1>1, RowsKept
<1>2. ASSUME NEW t \in Slots, Post(t)
      PROVE  \E i \in DOMAIN sales' : sales'[i].payload = at[t].payload
  <2>1. Record(at[t].payload, at[t].mode).payload = at[t].payload
    BY DEF Record
  <2>. QED
    BY <1>2, <2>1, Appended
<1>3. ASSUME NEW u \in Slots, at'[u].op = "committed"
      PROVE  \E i \in DOMAIN sales' : sales'[i].payload = at'[u].payload
  <2>1. CASE at'[u] = at[u]
    BY <1>1, <1>3, <2>1 DEF Backed
  <2>2. CASE Post(u) /\ at'[u] = [op |-> "committed", payload |-> at[u].payload]
    BY <1>2, <2>2
  <2>3. /\ at'[u] # Idle
        /\ \A st : at'[u] # [op |-> "promotion", store |-> st, todo |-> NewLines]
        /\ \A operation \in Copying : \A i : at'[u] # [op |-> operation, id |-> i, sale |-> sales[i]]
    BY <1>3 DEF Idle, Copying
  <2>. QED
    BY <1>3, <2>1, <2>2, <2>3, WhereTheyGo
<1>4. ASSUME NEW s \in Payloads
      PROVE  /\ Payload[s].key # NoKey => debts'[s] <= 1
             /\ debts'[s] > 0 => \E i \in DOMAIN sales' : sales'[i].payload = s
  <2>1. CASE debts'[s] = debts[s]
    BY <1>1, <2>1 DEF Backed
  <2>2. ASSUME NEW t \in Slots, Post(t)
        PROVE  /\ Payload[s].key # NoKey => debts'[s] <= 1
               /\ debts'[s] > 0 => \E i \in DOMAIN sales' : sales'[i].payload = s
    <3>1. CASE s # at[t].payload
      BY <2>1, <2>2, <3>1 DEF Post, TypeOK
    <3>2. CASE s = at[t].payload
      <4>1. debts'[s] = debts[s] \/ debts'[s] = debts[s] + 1
        BY <2>2, <3>2 DEF Post, TypeOK
      <4>2. Payload[s].key # NoKey => debts[s] = 0
        <5>1. ~Recorded(s)
          BY <2>2, <3>2 DEF Post, KeysKept, InsertedIsNew
        <5>2. debts[s] \in Nat
          BY DEF TypeOK
        <5>. QED
          BY <5>1, <5>2 DEF Backed, AtHome, Original, Recorded, SameKey
      <4>3. debts[s] \in Nat
        BY DEF TypeOK
      <4>. QED
        BY <1>2, <2>2, <3>2, <4>1, <4>2, <4>3
    <3>. QED
      BY <3>1, <3>2
  <2>3. ASSUME NEW t \in Slots, NEW c \in Customers, DeleteCustomer(t, c)
        PROVE  debts'[s] = debts[s] \/ debts'[s] = 0
    BY <2>3 DEF DeleteCustomer
  <2>4. CASE debts'[s] = 0
    BY <2>4
  <2>. QED
    BY <2>1, <2>2, <2>3, <2>4, CustomersStay
<1>5. ASSUME NEW s \in answered'
      PROVE  \E i \in DOMAIN sales' :
               \/ sales'[i].payload = s
               \/ SameKey(Payload[sales'[i].payload].key, Payload[sales'[i].payload].store,
                          Payload[s].key, Payload[s].store)
  <2>1. \E i \in DOMAIN sales :
          \/ sales[i].payload = s
          \/ SameKey(Payload[sales[i].payload].key, Payload[sales[i].payload].store,
                     Payload[s].key, Payload[s].store)
    BY ToldOfARow DEF Backed, Recorded, AtHome, Original
  <2>. QED
    BY <2>1, RowsKept
<1>. QED
  BY <1>3, <1>4, <1>5 DEF Backed

(* Where sales are neither deleted nor moved to another store nor given    *)
(* another key, a sale with a key is recorded once and its credit entered  *)
(* once, whatever is sent again, edited otherwise or lost by a worker that *)
(* dies, and what a client was told is recorded (create_sale,              *)
(* SaleSyncOfflineView).                                                   *)
THEOREM SoldOnce ==
  ASSUME Operations \cap {"delete", "move"} = {}
  PROVE  Spec => []SoldOncePerKey
<1>1. Init => OnceKept
  <2>1. Init => KeysKept
    BY TypedAtFirst DEF KeysKept, LiveKeysDiffer, InsertedIsNew, Init, Idle, At
  <2>. QED
    BY <2>1 DEF OnceKept, AtHome, Backed, Init, Idle, Copying
<1>2. OnceKept /\ [Next]_vars => OnceKept'
  <2> SUFFICES ASSUME OnceKept, [Next]_vars PROVE OnceKept'
    OBVIOUS
  <2>1. KeysKept'
    BY KeysStep DEF OnceKept
  <2>2. CASE UNCHANGED vars
    BY <2>1, <2>2 DEF OnceKept, AtHome, Original, Backed, vars, client
  <2>3. CASE Next
    BY <2>1, <2>3, AtHomeStep, BackedStep DEF OnceKept, KeysKept
  <2>. QED
    BY <2>2, <2>3
<1>3. OnceKept => SoldOncePerKey
  BY DEF OnceKept, KeysKept, LiveKeysDiffer, AtHome, Original, Backed, SoldOncePerKey
<1>. QED
  BY <1>1, <1>2, <1>3, PTL DEF Spec
-----------------------------------------------------------------------------
(* A sale and the stock, one request at a time.  Two requests can undo one *)
(* another: a void and an edit that saves the status it read.  And the     *)
(* components of a promotion that was sold can be edited, after which a    *)
(* void gives back other articles: hence the two assumptions.              *)

OneAtATime == \A t, u \in Slots : t = u

(* What a sale that has its lines would give back is what it took.         *)
LinesHoldWhatWasTaken ==
  /\ \A i \in DOMAIN sales :
       /\ sales[i].lines => sales[i].took = Taken(sales[i].payload)
       /\ ~sales[i].gone => sales[i].lines
  /\ \A t \in Slots : at[t].op = "promotion" => ~Sold(at[t].store)

(* Nobody writes a row while a view works on its copy.                     *)
CopiesAreFresh ==
  \A t \in Slots :
    at[t].op \in Copying => at[t].sale = sales[at[t].id] /\ ~sales[at[t].id].gone

StockKept ==
  /\ Typed /\ SoldPromotionStays
  /\ LinesHoldWhatWasTaken /\ CopiesAreFresh /\ SaleMatchesStock

(* The articles of a promotion that was sold stay what they are.           *)
LEMMA ComponentsStay ==
  ASSUME "promotion" \notin Operations, StockKept, Next, NEW st \in Stores, Sold(st)
  PROVE  promos'[st].lines = promos[st].lines
<1>. TypeOK /\ promos[st] \in Offer
  BY DEF StockKept, Typed, TypeOK
<1>1. promos[st].status # "none"
  BY DEF StockKept, SoldPromotionStays, Sold
<1>2. ASSUME NEW t \in Slots, Desk(t) PROVE promos'[st].lines = promos[st].lines
  <2>1. ASSUME NEW of \in Stores, OfferOne(t, of) PROVE promos'[st] = promos[st]
    BY <1>1, <2>1 DEF OfferOne, TypeOK
  <2>2. \A of \in Stores : ~EditPromotion(t, of)
    BY DEF EditPromotion, Begins
  <2>3. ASSUME NEW of \in Stores, NEW status \in {"active", "expired"}, SetStatus(t, of, status)
        PROVE  promos'[st].lines = promos[st].lines
    <3>1. [promos[st] EXCEPT !.status = status].lines = promos[st].lines
      BY DEF Offer
    <3>2. promos'[st] = promos[st] \/ promos'[st] = [promos[st] EXCEPT !.status = status]
      BY <2>3 DEF SetStatus, TypeOK
    <3>. QED
      BY <3>1, <3>2
  <2>4. ASSUME NEW stores \in SUBSET Stores, OfferMany(t, stores) \/ Withdraw(t, stores)
        PROVE  promos'[st] = promos[st]
    BY <1>1, <2>4 DEF OfferMany, Withdraw
  <2>5. ASSUME NEW c \in Customers,
               \/ DeleteCustomer(t, c)
               \/ \E active \in BOOLEAN, home \in Stores : EditCustomer(t, c, active, home)
        PROVE  promos' = promos
    BY <2>5 DEF DeleteCustomer, EditCustomer
  <2>6. ASSUME NEW m \in Modes, NEW kind \in {"plain", "credit"}, SetMode(t, m, kind)
        PROVE  promos' = promos
    BY <2>6 DEF SetMode
  <2>. QED
    BY <1>2, <2>1, <2>2, <2>3, <2>4, <2>5, <2>6 DEF Desk
<1>3. ASSUME NEW t \in Slots, AddLine(t) PROVE promos'[st] = promos[st]
  <2>1. st # at[t].store
    BY <1>3 DEF StockKept, LinesHoldWhatWasTaken, AddLine, At
  <2>. QED
    BY <1>3, <2>1 DEF AddLine, TypeOK
<1>4. ASSUME NEW t \in Slots,
             \/ \E s \in Payloads : Send(t, s)
             \/ \E operation \in Copying, i \in DOMAIN sales : Fetch(t, operation, i)
             \/ Insert(t) \/ InsertDuplicate(t) \/ Post(t) \/ Refuse(t) \/ Dangle(t) \/ Answer(t)
             \/ Void(t) \/ Patch(t) \/ Move(t) \/ Delete(t) \/ EndEdit(t) \/ Crash(t)
      PROVE  promos' = promos
  BY <1>4 DEF Send, Replay, RefuseReferences, Prepare, Fetch, Insert, InsertDuplicate, Post, Refuse,
              Dangle, Answer, Void, Patch, Move, Write, Delete, EndEdit, Crash, desk
<1>. QED
  BY <1>2, <1>3, <1>4 DEF Next, Work, Copying

(* What a sale that has its lines would give back stays what it is.        *)
LEMMA TakenStays ==
  ASSUME "promotion" \notin Operations, StockKept, Next, TypeOK',
         NEW i \in DOMAIN sales, sales[i].lines, NEW s \in Payloads, sales[i].payload = s
  PROVE  Taken(s)' = Taken(s)
<1>1. CASE Payload[s].promotions > 0
  <2>1. Sold(Payload[s].of)
    BY <1>1 DEF Sold
  <2>2. promos'[Payload[s].of].lines = promos[Payload[s].of].lines
    BY <2>1, ComponentsStay, PayloadFields
  <2>. QED
    BY <2>2 DEF Taken
<1>2. CASE Payload[s].promotions = 0
  <2>1. \A p \in Products :
          promos[Payload[s].of].lines[p] \in Nat /\ promos'[Payload[s].of].lines[p] \in Nat
    BY PayloadFields DEF StockKept, Typed, TypeOK, Offer
  <2>2. \A x \in Nat : 0 * x = 0
    OBVIOUS
  <2>. QED
    BY <1>2, <2>1, <2>2, Zenon DEF Taken
<1>. QED
  BY <1>1, <1>2, PayloadFields

(* What a step of the only request does to a row that is there afterwards: *)
(* nothing to its movements, or its return.                                *)
LEMMA RowsFresh ==
  ASSUME StockKept, Next, NEW i \in DOMAIN sales, ~sales'[i].gone
  PROVE  /\ ~sales[i].gone /\ sales'[i].lines = sales[i].lines
         /\ \/ sales'[i].status = sales[i].status /\ sales'[i].moved = sales[i].moved
            \/ /\ sales[i].status = "confirmed" /\ sales'[i].status = "void"
               /\ \E store \in Stores :
                    sales'[i].moved =
                      [r \in Rows |-> sales[i].moved[r] + In(store, sales[i].took)[r]]
<1>. TypeOK /\ CopiesAreOfRows
  BY DEF StockKept, Typed
<1>. DEFINE Kept == /\ ~sales[i].gone /\ sales'[i].lines = sales[i].lines
                    /\ sales'[i].status = sales[i].status /\ sales'[i].moved = sales[i].moved
<1>1. CASE UNCHANGED sales
  BY <1>1
<1>2. ASSUME NEW t \in Slots, Post(t) PROVE Kept
  BY <1>2, Appended
<1>3. ASSUME NEW t \in Slots, NEW c \in Customers, DeleteCustomer(t, c) PROVE Kept
  <2>1. \A row \in Sale :
          LET new == [row EXCEPT !.customer = Nobody]
          IN  /\ new.gone = row.gone /\ new.lines = row.lines
              /\ new.status = row.status /\ new.moved = row.moved
    BY DEF Sale
  <2>. QED
    BY <1>3, <2>1, SaleFields DEF DeleteCustomer
<1>4. ASSUME NEW t \in Slots, Void(t) \/ Patch(t) \/ Move(t) \/ Delete(t), sales' # sales
      PROVE  \/ Kept
             \/ /\ ~sales[i].gone /\ sales'[i].lines = sales[i].lines
                /\ sales[i].status = "confirmed" /\ sales'[i].status = "void"
                /\ \E store \in Stores :
                     sales'[i].moved =
                       [r \in Rows |-> sales[i].moved[r] + In(store, sales[i].took)[r]]
  <2>. DEFINE j == at[t].id
              row == sales[j]
  <2>1. /\ at[t].op \in Copying /\ j \in DOMAIN sales /\ at[t].sale = row /\ ~row.gone
    BY <1>4 DEF StockKept, CopiesAreFresh, CopiesAreOfRows, Void, Patch, Move, Delete, At, Copying
  <2>2. /\ row = [payload |-> row.payload, key |-> row.key, store |-> row.store,
                  status |-> row.status, customer |-> row.customer, lines |-> row.lines, gone |-> row.gone,
                  took |-> row.took, moved |-> row.moved, paid |-> row.paid]
        /\ row.store \in Stores
    BY <2>1, SaleFields DEF Sale
  <2>3. CASE Void(t)
    <3>. DEFINE back == Returned(row, row)
                new == [row EXCEPT !.status = "void",
                                   !.moved = [r \in Rows |-> row.moved[r] + back[r]]]
    <3>1. row.status = "confirmed" /\ sales' = [sales EXCEPT ![j] = new]
      BY <1>4, <2>1, <2>3 DEF Void, Voidable
    <3>2. /\ new.gone = row.gone /\ new.lines = row.lines /\ new.status = "void"
          /\ new.moved = [r \in Rows |-> row.moved[r] + back[r]]
      <4>. HIDE DEF back
      <4>. QED
        BY <2>2
    <3>3. back = In(row.store, row.took)
      BY <2>1 DEF StockKept, LinesHoldWhatWasTaken, Returned, In
    <3>4. i = j \/ sales'[i] = sales[i]
      BY <3>1
    <3>5. i = j => sales'[i] = new
      BY <2>1, <3>1
    <3>. HIDE DEF new, back
    <3>. QED
      BY <2>1, <2>2, <3>1, <3>2, <3>3, <3>4, <3>5
  <2>4. ASSUME NEW store, NEW key, NEW customer, Write(t, store, key, customer) PROVE Kept
    <3>. DEFINE new == [row EXCEPT !.status = row.status, !.store = store, !.key = key,
                                   !.customer = customer, !.gone = FALSE]
    <3>1. sales' = [sales EXCEPT ![j] = new]
      BY <1>4, <2>1, <2>4 DEF Write
    <3>2. new.lines = row.lines /\ new.status = row.status /\ new.moved = row.moved
      BY <2>2
    <3>3. sales'[i] = sales[i] \/ (i = j /\ sales'[i] = new)
      BY <2>1, <3>1
    <3>. HIDE DEF new
    <3>. QED
      BY <2>1, <3>2, <3>3
  <2>5. CASE Delete(t)
    <3>. DEFINE new == [row EXCEPT !.gone = TRUE, !.lines = FALSE]
    <3>1. sales' = [sales EXCEPT ![j] = new]
      BY <2>5 DEF Delete
    <3>2. new.gone
      BY <2>2
    <3>3. sales'[i] = sales[i] \/ sales'[i] = new
      BY <2>1, <3>1
    <3>. HIDE DEF new
    <3>. QED
      BY <3>2, <3>3
  <2>. QED
    BY <1>4, <2>3, <2>4, <2>5 DEF Patch, Move
<1>. QED
  BY <1>1, <1>2, <1>3, <1>4, SalesLeftAlone DEF Next, Work, Desk, Copying

(* One request: what it holds, it holds alone.                             *)
LEMMA CopiesStayFresh ==
  ASSUME OneAtATime, StockKept, Next
  PROVE  CopiesAreFresh'
<1>. TypeOK
  BY DEF StockKept, Typed
<1> SUFFICES ASSUME NEW u \in Slots, at'[u].op \in Copying
             PROVE  at'[u].sale = sales'[at'[u].id] /\ ~sales'[at'[u].id].gone
  BY DEF CopiesAreFresh
<1>1. ASSUME NEW operation \in Copying, NEW i \in DOMAIN sales, Fetch(u, operation, i),
             at'[u] = [op |-> operation, id |-> i, sale |-> sales[i]]
      PROVE  at'[u].sale = sales'[at'[u].id] /\ ~sales'[at'[u].id].gone
  BY <1>1 DEF Fetch
<1>2. CASE at'[u] = at[u]
  <2>1. at[u] # Idle /\ (Work(u) \/ Crash(u))
    <3>1. at[u] # Idle
      BY <1>2 DEF Idle, Copying
    <3>. QED
      BY <3>1 DEF Next, OneAtATime
  <2>2. Goto(u, Idle)
    BY <1>2, <2>1 DEF Work, Insert, InsertDuplicate, Post, Refuse, Dangle, Answer, Void, Patch, Move,
                      Write, Delete, AddLine, EndEdit, Crash, At, Copying
  <2>. QED
    BY <1>2, <2>2 DEF Goto, TypeOK, Idle, Copying
<1>. QED
  BY <1>1, <1>2, FetchedOrKept

LEMMA UnsoldStays ==
  ASSUME OneAtATime, "promotion" \notin Operations, StockKept, Next,
         NEW u \in Slots, at'[u].op = "promotion"
  PROVE  (~Sold(at[u].store))'
<1>. TypeOK
  BY DEF StockKept, Typed
<1>1. CASE at[u].op = "promotion" /\ at'[u].store = at[u].store
  <2>1. AddLine(u) \/ EndEdit(u) \/ Crash(u)
    <3>1. at[u] # Idle
      BY <1>1 DEF Idle
    <3>2. Work(u) \/ Crash(u)
      BY <3>1 DEF Next, OneAtATime
    <3>. QED
      BY <1>1, <3>2 DEF Work, Insert, InsertDuplicate, Post, Refuse, Dangle, Answer, Void, Patch,
                        Move, Delete, At
  <2>2. sales' = sales
    BY <2>1, SalesLeftAlone
  <2>. QED
    BY <1>1, <2>2 DEF StockKept, LinesHoldWhatWasTaken, Sold
<1>2. ASSUME NEW st \in Stores, OfferOne(u, st),
             at'[u] = [op |-> "promotion", store |-> st, todo |-> NewLines]
      PROVE  (~Sold(at[u].store))'
  <2>1. promos[st].status = "none" /\ sales' = sales
    BY <1>2 DEF OfferOne
  <2>2. ~Sold(st)
    BY <2>1 DEF StockKept, SoldPromotionStays, Sold
  <2>. QED
    BY <1>2, <2>1, <2>2 DEF Sold
<1>3. \A st \in Stores : ~EditPromotion(u, st)
  BY DEF EditPromotion, Begins
<1>4. /\ at'[u] # Idle /\ \A s : at'[u] # [op |-> "committed", payload |-> s]
      /\ \A operation \in Copying : \A i : at'[u] # [op |-> operation, id |-> i, sale |-> sales[i]]
  BY DEF Idle, Copying
<1>. QED
  BY <1>1, <1>2, <1>3, <1>4, WhereTheyGo DEF AddLine, At

LEMMA LinesStay ==
  ASSUME OneAtATime, "promotion" \notin Operations, StockKept, Next
  PROVE  LinesHoldWhatWasTaken'
<1>. TypeOK /\ CopiesAreOfRows
  BY DEF StockKept, Typed
<1>. TypeOK'
  BY TypedStep DEF StockKept, Typed
<1>1. ASSUME NEW i \in DOMAIN sales, NEW s, s = sales[i].payload
      PROVE  /\ sales'[i].lines => sales'[i].took = Taken(s)'
             /\ ~sales'[i].gone => sales'[i].lines
  <2>1. /\ sales'[i].took = sales[i].took
        /\ sales'[i].lines => sales[i].lines
        /\ s \in Payloads
    BY <1>1, RowsKept, SaleFields
  <2>2. sales[i].lines => sales[i].took = Taken(s)
    BY <1>1 DEF StockKept, LinesHoldWhatWasTaken
  <2>3. sales[i].lines => Taken(s)' = Taken(s)
    BY <1>1, <2>1, TakenStays
  <2>4. ~sales'[i].gone => sales'[i].lines
    BY RowsFresh DEF StockKept, LinesHoldWhatWasTaken
  <2>. QED
    BY <2>1, <2>2, <2>3, <2>4, Zenon
<1>2. ASSUME NEW t \in Slots, Post(t), NEW s, s = at[t].payload
      PROVE  LET record == Record(s, at[t].mode)
             IN  record.payload = s /\ record.lines /\ record.took = Taken(s)'
  <2>1. Taken(s)' = Taken(s)
    BY <1>2 DEF Post, Taken
  <2>. QED
    BY <2>1 DEF Record
<1>3. ASSUME NEW i \in DOMAIN sales'
      PROVE  (/\ sales[i].lines => sales[i].took = Taken(sales[i].payload)
              /\ ~sales[i].gone => sales[i].lines)'
  <2>1. CASE i \in DOMAIN sales
    <3>1. sales'[i].payload = sales[i].payload
      BY <2>1, RowsKept
    <3>. QED
      BY <1>1, <2>1, <3>1 DEF Taken
  <2>2. CASE i \notin DOMAIN sales
    <3>1. PICK t \in Slots : Post(t) /\ sales'[i] = Record(at[t].payload, at[t].mode)
      BY <2>2, RowsKept
    <3>2. LET record == Record(at[t].payload, at[t].mode)
          IN  record.payload = at[t].payload /\ record.lines
      BY DEF Record
    <3>3. \A s : s = at[t].payload =>
            sales'[i].payload = s /\ sales'[i].lines /\ sales'[i].took = Taken(s)'
      BY <1>2, <3>1, <3>2
    <3>. QED
      BY <3>3 DEF Taken
  <2>. QED
    BY <2>1, <2>2
<1>4. ASSUME NEW u \in Slots, at'[u].op = "promotion" PROVE (~Sold(at[u].store))'
  BY <1>4, UnsoldStays
<1>. QED
  BY <1>3, <1>4 DEF LinesHoldWhatWasTaken

LEMMA MatchStays ==
  ASSUME OneAtATime, "promotion" \notin Operations, StockKept, Next
  PROVE  SaleMatchesStock'
<1>. TypeOK /\ CopiesAreOfRows
  BY DEF StockKept, Typed
<1>. DEFINE Matches(payload, status, took, moved) ==
       LET sold == In(Payload[payload].store, took)
       IN  IF status = "confirmed" THEN \A r \in Rows : moved[r] = -sold[r]
           ELSE \E store \in Stores : \A r \in Rows : moved[r] = In(store, took)[r] - sold[r]
<1>1. ASSUME NEW i \in DOMAIN sales', ~sales'[i].gone
      PROVE  Matches(sales'[i].payload, sales'[i].status, sales'[i].took, sales'[i].moved)
  <2>1. CASE i \in DOMAIN sales
    <3>1. sales'[i].payload = sales[i].payload /\ sales'[i].took = sales[i].took
      BY <2>1, RowsKept
    <3>2. ~sales[i].gone
      BY <1>1, <2>1, RowsFresh
    <3>3. Matches(sales[i].payload, sales[i].status, sales[i].took, sales[i].moved)
      BY <2>1, <3>2 DEF StockKept, SaleMatchesStock
    <3>4. CASE sales'[i].status = sales[i].status /\ sales'[i].moved = sales[i].moved
      BY <3>1, <3>3, <3>4
    <3>5. ASSUME sales[i].status = "confirmed", sales'[i].status = "void", NEW store \in Stores,
                 sales'[i].moved = [r \in Rows |-> sales[i].moved[r] + In(store, sales[i].took)[r]]
          PROVE  Matches(sales'[i].payload, sales'[i].status, sales'[i].took, sales'[i].moved)
      <4>. DEFINE sold == In(Payload[sales[i].payload].store, sales[i].took)
                  back == In(store, sales[i].took)
      <4>1. ASSUME NEW r \in Rows PROVE sold[r] \in Int /\ back[r] \in Int
        <5>1. r[2] \in Products /\ sales[i].took \in [Products -> Nat]
          BY <2>1, SaleFields DEF Rows
        <5>. QED
          BY <5>1 DEF In
      <4>2. \A r \in Rows : sales[i].moved[r] = -sold[r]
        BY <3>3, <3>5
      <4>. HIDE DEF sold, back
      <4>3. \A r \in Rows : sales'[i].moved[r] = back[r] - sold[r]
        BY <3>5, <4>1, <4>2 DEF back
      <4>. QED
        BY <3>1, <3>5, <4>3 DEF sold, back
    <3>. QED
      BY <1>1, <2>1, <3>4, <3>5, RowsFresh
  <2>2. CASE i \notin DOMAIN sales
    <3>1. PICK t \in Slots : Post(t) /\ sales'[i] = Record(at[t].payload, at[t].mode)
      BY <2>2, RowsKept
    <3>. DEFINE s == at[t].payload
    <3>2. s \in Payloads /\ Taken(s) \in [Products -> Nat]
      BY <3>1, PlaceFields, TakenType DEF Post, At, TypeOK
    <3>3. /\ sales'[i].payload = s /\ sales'[i].status = "confirmed"
          /\ sales'[i].took = Taken(s) /\ sales'[i].moved = Moves(s)
      BY <3>1 DEF Record
    <3>4. ASSUME NEW r \in Rows PROVE Moves(s)[r] = -In(Payload[s].store, Taken(s))[r]
      BY DEF Moves, In
    <3>. HIDE DEF s
    <3>. QED
      BY <3>3, <3>4
  <2>. QED
    BY <2>1, <2>2
<1>. QED
  BY <1>1 DEF SaleMatchesStock, In

(* With one request at a time, while no promotion that was sold has its    *)
(* articles edited: a sale that is there took from the stock what it sold, *)
(* and if it is void gave all of it back, whatever was edited, moved,      *)
(* deleted, withdrawn or renamed between (create_sale, void_sale).         *)
THEOREM SalesMatchTheStock ==
  ASSUME OneAtATime, "promotion" \notin Operations
  PROVE  Spec => []SaleMatchesStock
<1>1. Init => StockKept
  BY TypedAtFirst DEF StockKept, SoldPromotionStays, LinesHoldWhatWasTaken, CopiesAreFresh,
                      SaleMatchesStock, Init, Idle, Copying
<1>2. StockKept /\ [Next]_vars => StockKept'
  <2> SUFFICES ASSUME StockKept, [Next]_vars PROVE StockKept'
    OBVIOUS
  <2>1. Typed' /\ SoldPromotionStays'
    BY TypedStep, SoldPromotionStaysStep DEF StockKept
  <2>2. CASE UNCHANGED vars
    BY <2>1, <2>2 DEF StockKept, LinesHoldWhatWasTaken, CopiesAreFresh, SaleMatchesStock, Taken, Sold,
                      vars, desk
  <2>3. CASE Next
    BY <2>1, <2>3, LinesStay, CopiesStayFresh, MatchStays DEF StockKept
  <2>. QED
    BY <2>2, <2>3
<1>3. StockKept => SaleMatchesStock
  BY DEF StockKept
<1>. QED
  BY <1>1, <1>2, <1>3, PTL DEF Spec
=============================================================================
