-------------------------------- MODULE Sales --------------------------------
(***************************************************************************)
(* The till: recording a sale once however often the client sends it,      *)
(* voiding, editing and deleting it; and what a sale refers to: the        *)
(* promotion whose articles it takes from the stock, the customer who owes *)
(* it, the mode it is paid by, each of them edited and deleted meanwhile.  *)
(* Translated from sales/services.py, sales/views.py and sales/models.py.  *)
(*                                                                         *)
(* The movements of a sale are one step here: StockService shows that a    *)
(* document's movements take effect together.  A view reads a sale, then   *)
(* works on that copy; nothing locks the row in between.  The rights of    *)
(* the users are left out; a store has one promotion at a time.            *)
(***************************************************************************)
EXTENDS Integers, Sequences, FiniteSets

CONSTANTS
  Slots,       \* requests served at once
  Stores,
  Products,
  Payloads,    \* the sales the tills have to record
  Payload,     \* Payloads -> a Request
  Keys,        \* idempotency keys
  NoKey,       \* a payload sent without idempotency_key
  Opening,     \* Stores \X Products -> quantity in stock
  Targets,     \* stores a promotion for several stores may name
  Offering,    \* stores with a promotion at first
  Components,  \* Products -> quantity in these, 0 for no line
  NewLines,    \* the lines a form for a promotion sends, in order
  Customers,
  Nobody,      \* no customer
  Home,        \* Customers -> the store of each at first
  Modes,       \* codes of payment modes
  NoMode,      \* no code: "cash", if there is such a mode
  Credit,      \* the code "credit"
  NewKeys,     \* keys that an edit of a sale may name
  NewCustomers, \* customers, or none, that one may name
  Operations,  \* the operations a run allows
  MaxSales,    \* bound: rows of the table Sale
  MaxCrashes   \* bound: workers that die

Rows == Stores \X Products

(* promotions: how many of the promotion of the store "of".  credit: the   *)
(* client says the payment is in progress.                                 *)
Request ==
  [key : Keys \cup {NoKey}, store : Stores, lines : [Products -> Nat],
   promotions : Nat, of : Stores, customer : Customers \cup {Nobody},
   mode : Modes \cup {NoMode}, credit : BOOLEAN]

(* PromotionCreateSerializer: the articles of a form, none of them twice.  *)
PromotionForm(lines) ==
  /\ lines \in Seq([product : Products, quantity : Nat \ {0}]) /\ lines # << >>
  /\ \A i, j \in DOMAIN lines : lines[i].product = lines[j].product => i = j

ASSUME SalesAssumption ==
  /\ Payload \in [Payloads -> Request]
  /\ Opening \in [Rows -> Nat]
  /\ Components \in [Products -> Nat]
  /\ PromotionForm(NewLines)
  /\ Targets \subseteq Stores /\ Offering \subseteq Stores
  /\ Home \in [Customers -> Stores] /\ Nobody \notin Customers
  /\ NoMode \notin Modes
  /\ NewKeys \subseteq Keys \cup {NoKey} /\ NewCustomers \subseteq Customers \cup {Nobody}
  /\ Operations \subseteq {"create", "void", "patch", "move", "delete", "promotion",
                         "offer", "withdraw", "customer", "forget", "mode"}
  /\ MaxSales \in Nat /\ MaxCrashes \in Nat

VARIABLES
  stock,     \* Rows -> quantity
  sales,     \* the table Sale, a row per primary key
  debts,     \* Payloads -> entries of CustomerCreditLedger made for it
  promos,    \* Stores -> its promotion and the quantities in its lines
  customers, \* Customers -> the row of each
  modes,     \* Modes -> the row of each
  answered,  \* payloads whose client was told the sale is recorded
  refused,   \* payloads whose client was told it cannot be
  at,        \* Slots -> where the request is, with what it has read
  crashes    \* workers that died so far

desk == <<promos, customers, modes>>
client == <<answered, refused>>
vars == <<stock, sales, debts, desk, client, at, crashes>>

(* lines: its SaleLine and SalePromotionLine rows are there.  gone: the    *)
(* row is deleted.  took: what was sold.  moved: what its movements added  *)
(* to each stock row.  paid: it was recorded as paid; nothing here reads   *)
(* its payment_status after that, which PUT and PATCH may change.          *)
Sale ==
  [payload : Payloads, key : Keys \cup {NoKey}, store : Stores, status : {"confirmed", "void"},
   customer : Customers \cup {Nobody}, lines : BOOLEAN, gone : BOOLEAN,
   took : [Products -> Nat], moved : [Rows -> Int], paid : BOOLEAN]

Offer == [status : {"none", "active", "expired"}, lines : [Products -> Nat]]
Empty == [p \in Products |-> 0]

Idle == [op |-> "idle"]

Init ==
  /\ stock = Opening
  /\ sales = << >>
  /\ debts = [s \in Payloads |-> 0]
  /\ promos = [st \in Stores |->
       IF st \in Offering THEN [status |-> "active", lines |-> Components]
       ELSE [status |-> "none", lines |-> Empty]]
  /\ customers = [c \in Customers |-> [there |-> TRUE, active |-> TRUE, store |-> Home[c]]]
  /\ modes = [m \in Modes |-> "none"]
  /\ answered = {} /\ refused = {}
  /\ at = [t \in Slots |-> Idle]
  /\ crashes = 0

Begins(t, operation) == at[t] = Idle /\ operation \in Operations
At(t, op) == at[t].op = op
Goto(t, place) == at' = [at EXCEPT ![t] = place]

-----------------------------------------------------------------------------
(* create_sale                                                             *)

(* Two sales the unique constraint (store, idempotency_key) keeps apart.   *)
SameKey(key1, store1, key2, store2) ==
  key1 # NoKey /\ key1 = key2 /\ store1 = store2

Recorded(s) ==
  \E i \in DOMAIN sales :
    /\ ~sales[i].gone
    /\ SameKey(sales[i].key, sales[i].store, Payload[s].key, Payload[s].store)

(* What a payload takes of each article, by the components its promotion   *)
(* has now.                                                                *)
Taken(s) ==
  [p \in Products |->
     Payload[s].lines[p] + Payload[s].promotions * promos[Payload[s].of].lines[p]]

Unsettled(s) == s \notin answered \cup refused

(* A slip for Replay: the key is never looked up.                          *)
ReplayNever(t, s) == FALSE /\ UNCHANGED vars

(* The key is known: the recorded sale is the answer.                      *)
Replay(t, s) ==
  /\ Begins(t, "create") /\ Unsettled(s)
  /\ Recorded(s)
  /\ answered' = answered \cup {s}
  /\ UNCHANGED <<stock, sales, debts, desk, refused, at, crashes>>

(* "Client introuvable pour ce magasin."                                   *)
CustomerServed(s) ==
  LET c == Payload[s].customer
  IN c # Nobody => /\ customers[c].there /\ customers[c].active
                   /\ customers[c].store = Payload[s].store

(* "Promotion active introuvable", "introuvable pour ce magasin", "sans    *)
(* articles"                                                               *)
PromotionServed(s) ==
  Payload[s].promotions > 0 =>
    /\ promos[Payload[s].of].status = "active"
    /\ Payload[s].of = Payload[s].store
    /\ \E p \in Products : promos[Payload[s].of].lines[p] > 0

Served(s) == CustomerServed(s) /\ PromotionServed(s)

RefuseReferences(t, s) ==
  /\ Begins(t, "create") /\ Unsettled(s)
  /\ ~Recorded(s) /\ ~Served(s)
  /\ refused' = refused \cup {s}
  /\ UNCHANGED <<stock, sales, debts, desk, answered, at, crashes>>

(* A code that is not known becomes a mode, with the sale.                 *)
ModeOf(s) ==
  LET m == Payload[s].mode
  IN CASE m = NoMode -> "plain"
       [] m # NoMode /\ modes[m] # "none" -> modes[m]
       [] OTHER -> IF m = Credit THEN "credit" ELSE "plain"

(* The payment is in progress if the client says so or the mode is credit. *)
InProgress(s, mode) == Payload[s].credit \/ mode = "credit"

Prepare(t, s) ==
  /\ Begins(t, "create") /\ Unsettled(s)
  /\ ~Recorded(s) /\ Served(s)
  /\ Goto(t, [op |-> "prepared", payload |-> s, mode |-> ModeOf(s)])
  /\ UNCHANGED <<stock, sales, debts, desk, client, crashes>>

(* Another transaction inserted the key and has not ended: PostgreSQL      *)
(* makes who writes the same key wait for it.                              *)
Contended(t, key, store) ==
  \E u \in Slots \ {t} :
    /\ At(u, "inserted")
    /\ SameKey(Payload[at[u].payload].key, Payload[at[u].payload].store, key, store)

(* A slip for Insert: no unique constraint.                                *)
InsertFreely(t) ==
  /\ At(t, "prepared")
  /\ Goto(t, [at[t] EXCEPT !.op = "inserted"])
  /\ UNCHANGED <<stock, sales, debts, desk, client, crashes>>

(* Sale.objects.create                                                     *)
Insert(t) ==
  /\ At(t, "prepared")
  /\ ~Contended(t, Payload[at[t].payload].key, Payload[at[t].payload].store)
  /\ ~Recorded(at[t].payload)
  /\ Goto(t, [at[t] EXCEPT !.op = "inserted"])
  /\ UNCHANGED <<stock, sales, debts, desk, client, crashes>>

(* IntegrityError: the client gets an error and may send the sale again.   *)
InsertDuplicate(t) ==
  /\ At(t, "prepared")
  /\ ~Contended(t, Payload[at[t].payload].key, Payload[at[t].payload].store)
  /\ Recorded(at[t].payload)
  /\ Goto(t, Idle)
  /\ UNCHANGED <<stock, sales, debts, desk, client, crashes>>

Enough(s) == \A p \in Products : Taken(s)[p] <= stock[<<Payload[s].store, p>>]

(* The movements of a sale of s.                                           *)
Moves(s) ==
  [r \in Rows |-> IF r[1] = Payload[s].store THEN -Taken(s)[r[2]] ELSE 0]

(* The rows the sale refers to, which the foreign keys want at commit.     *)
References(t) ==
  LET s == at[t].payload
  IN /\ Payload[s].customer # Nobody => customers[Payload[s].customer].there
     /\ Payload[s].promotions > 0 => promos[Payload[s].of].status # "none"

(* A slip for Owed: what the client says counts alone.                     *)
OwedAsSaid(t) ==
  LET s == at[t].payload IN Payload[s].customer # Nobody /\ Payload[s].credit

(* An entry of CustomerCreditLedger is made for the sale.                  *)
Owed(t) ==
  LET s == at[t].payload
  IN Payload[s].customer # Nobody /\ InProgress(s, at[t].mode)

Post(t) ==
  /\ At(t, "inserted")
  /\ Len(sales) < MaxSales
  /\ References(t)
  /\ LET s == at[t].payload
     IN /\ Enough(s)
        /\ sales' = Append(sales,
             [payload |-> s, key |-> Payload[s].key, store |-> Payload[s].store,
              status |-> "confirmed", customer |-> Payload[s].customer, lines |-> TRUE,
              gone |-> FALSE, took |-> Taken(s), moved |-> Moves(s), paid |-> ~InProgress(s, at[t].mode)])
        /\ stock' = [r \in Rows |-> stock[r] + Moves(s)[r]]
        /\ debts' = [debts EXCEPT ![s] = @ + IF Owed(t) THEN 1 ELSE 0]
        /\ modes' = [m \in Modes |->
             IF m = Payload[s].mode /\ modes[m] = "none" THEN at[t].mode ELSE modes[m]]
  /\ Goto(t, [op |-> "committed", payload |-> at[t].payload])
  /\ UNCHANGED <<promos, customers, client, crashes>>

(* "Stock insuffisant": everything is rolled back.                         *)
Refuse(t) ==
  /\ At(t, "inserted")
  /\ ~Enough(at[t].payload)
  /\ refused' = refused \cup {at[t].payload}
  /\ Goto(t, Idle)
  /\ UNCHANGED <<stock, sales, debts, desk, answered, crashes>>

(* IntegrityError: what the sale refers to was deleted meanwhile.          *)
Dangle(t) ==
  /\ At(t, "inserted")
  /\ Enough(at[t].payload) /\ ~References(t)
  /\ Goto(t, Idle)
  /\ UNCHANGED <<stock, sales, debts, desk, client, crashes>>

Answer(t) ==
  /\ At(t, "committed")
  /\ answered' = answered \cup {at[t].payload}
  /\ Goto(t, Idle)
  /\ UNCHANGED <<stock, sales, debts, desk, refused, crashes>>

-----------------------------------------------------------------------------
(* Operations on a recorded sale: each works on the copy its view read.    *)
Fetch(t, operation, i) ==
  /\ Begins(t, operation)
  /\ ~sales[i].gone
  /\ Goto(t, [op |-> operation, id |-> i, sale |-> sales[i]])
  /\ UNCHANGED <<stock, sales, debts, desk, client, crashes>>

(* What void_sale gives back: the sale's lines, and its promotions by the  *)
(* components they have now, to the store the copy names.                  *)
Returned(copy, row) ==
  [r \in Rows |-> IF row.lines /\ r[1] = copy.store THEN Taken(row.payload)[r[2]] ELSE 0]

(* A slip for Voidable: the status is not looked at.                       *)
VoidableAgain(t) == ~sales[at[t].id].gone

(* void_sale goes on: the copy is not void, and there is a row to update.  *)
Voidable(t) == at[t].sale.status = "confirmed" /\ ~sales[at[t].id].gone

Void(t) ==
  /\ At(t, "void")
  /\ IF Voidable(t)
     THEN LET i == at[t].id
              back == Returned(at[t].sale, sales[i])
          IN /\ sales' = [sales EXCEPT
                  ![i].status = "void",
                  ![i].moved = [r \in Rows |-> @[r] + back[r]]]
             /\ stock' = [r \in Rows |-> stock[r] + back[r]]
     ELSE UNCHANGED <<sales, stock>>
  /\ Goto(t, Idle)
  /\ UNCHANGED <<debts, desk, client, crashes>>

(* PUT and PATCH: serializer.save() writes every column of the copy, the   *)
(* status among them, with those the request names.  A row deleted         *)
(* meanwhile is inserted again, without its lines.  The constraints may    *)
(* refuse it.  The ledger stays as it is.                                  *)
Write(t, store, key, customer) ==
  LET i == at[t].id
      clash == \E j \in DOMAIN sales \ {i} :
                 ~sales[j].gone /\ SameKey(sales[j].key, sales[j].store, key, store)
      dangling == customer # Nobody /\ ~customers[customer].there
  IN /\ ~Contended(t, key, store)
     /\ IF clash \/ dangling THEN UNCHANGED sales
        ELSE sales' = [sales EXCEPT ![i].status = at[t].sale.status, ![i].store = store,
                                    ![i].key = key, ![i].customer = customer,
                                    ![i].gone = FALSE]
     /\ Goto(t, Idle)
     /\ UNCHANGED <<stock, debts, desk, client, crashes>>

(* A PUT or PATCH that may name a customer, of any store, or none.         *)
Patch(t) ==
  /\ At(t, "patch")
  /\ \E customer \in NewCustomers \cup {at[t].sale.customer} :
       Write(t, at[t].sale.store, at[t].sale.key, customer)

(* One that may name the store or the key too.                             *)
Move(t) ==
  /\ At(t, "move")
  /\ \E store \in Stores, key \in NewKeys \cup {at[t].sale.key},
        customer \in NewCustomers \cup {at[t].sale.customer} :
       Write(t, store, key, customer)

(* The lines go with the sale; its movements and the stock stay.           *)
Delete(t) ==
  /\ At(t, "delete")
  /\ sales' = [sales EXCEPT ![at[t].id].gone = TRUE, ![at[t].id].lines = FALSE]
  /\ Goto(t, Idle)
  /\ UNCHANGED <<stock, debts, desk, client, crashes>>

-----------------------------------------------------------------------------
(* PromotionListCreateView.post for one store: the row, then its lines,    *)
(* each by itself.                                                         *)
OfferOne(t, st) ==
  /\ Begins(t, "offer")
  /\ promos[st].status = "none"
  /\ promos' = [promos EXCEPT ![st] = [status |-> "active", lines |-> Empty]]
  /\ Goto(t, [op |-> "promotion", store |-> st, todo |-> NewLines])
  /\ UNCHANGED <<stock, sales, debts, customers, modes, client, crashes>>

(* The quantities of the form; the serializer lets no article in twice.    *)
Required ==
  [p \in Products |->
     LET of == {i \in DOMAIN NewLines : NewLines[i].product = p}
     IN  IF of = {} THEN 0 ELSE NewLines[CHOOSE i \in of : TRUE].quantity]

(* _promotion_store_eligibility: the store has every article of the form.  *)
Eligible(st) == \A p \in Products : Required[p] <= stock[<<st, p>>]

(* For several stores: all of them, in one transaction, or none.           *)
OfferMany(t, stores) ==
  /\ Begins(t, "offer")
  /\ stores # {} /\ stores \subseteq Targets
  /\ \A st \in stores : promos[st].status = "none" /\ Eligible(st)
  /\ promos' = [st \in Stores |->
       IF st \in stores THEN [status |-> "active", lines |-> Required] ELSE promos[st]]
  /\ UNCHANGED <<stock, sales, debts, customers, modes, client, at, crashes>>

(* _get_promotion_for_user                                                 *)
Offered(st) == promos[st].status # "none"

(* PATCH with a status alone                                               *)
SetStatus(t, st, status) ==
  /\ Begins(t, "offer")
  /\ Offered(st)
  /\ promos' = [promos EXCEPT ![st].status = status]
  /\ UNCHANGED <<stock, sales, debts, customers, modes, client, at, crashes>>

(* PUT and PATCH of a promotion: no transaction around its writes.         *)
EditPromotion(t, st) ==
  /\ Begins(t, "promotion")
  /\ Offered(st)
  /\ promos' = [promos EXCEPT ![st] = [status |-> "active", lines |-> Empty]]
  /\ Goto(t, [op |-> "promotion", store |-> st, todo |-> NewLines])
  /\ UNCHANGED <<stock, sales, debts, customers, modes, client, crashes>>

AddLine(t) ==
  /\ At(t, "promotion") /\ at[t].todo # << >>
  /\ LET line == Head(at[t].todo)
         offer == promos[at[t].store]
     IN IF offer.status # "none" /\ offer.lines[line.product] = 0
        THEN /\ promos' = [promos EXCEPT ![at[t].store].lines[line.product] = line.quantity]
             /\ Goto(t, [at[t] EXCEPT !.todo = Tail(@)])
        ELSE /\ Goto(t, Idle)     \* the line exists or its promotion is gone
             /\ UNCHANGED promos
  /\ UNCHANGED <<stock, sales, debts, customers, modes, client, crashes>>

(* The edit has ended, or the next article is not active ("Article         *)
(* introuvable.") and the lines already written stay.                      *)
EndEdit(t) ==
  /\ At(t, "promotion")
  /\ Goto(t, Idle)
  /\ UNCHANGED <<stock, sales, debts, desk, client, crashes>>

(* A slip for Sold: the foreign key cascades.                              *)
SoldUnprotected(st) == FALSE

(* SalePromotionLine.promotion is PROTECTed.                               *)
Sold(st) ==
  \E i \in DOMAIN sales :
    /\ sales[i].lines
    /\ Payload[sales[i].payload].promotions > 0 /\ Payload[sales[i].payload].of = st

(* BulkDeletePromotionsView: all of them or none.                          *)
Withdraw(t, stores) ==
  /\ Begins(t, "withdraw")
  /\ stores # {}
  /\ \A st \in stores : promos[st].status # "none" /\ ~Sold(st)
  /\ promos' = [st \in Stores |->
       IF st \in stores THEN [status |-> "none", lines |-> Empty] ELSE promos[st]]
  /\ UNCHANGED <<stock, sales, debts, customers, modes, client, at, crashes>>

-----------------------------------------------------------------------------
(* _get_customer_for_user                                                  *)
Known(c) == customers[c].there

EditCustomer(t, c, active, st) ==
  /\ Begins(t, "customer")
  /\ Known(c)
  /\ customers' = [customers EXCEPT ![c].active = active, ![c].store = st]
  /\ UNCHANGED <<stock, sales, debts, promos, modes, client, at, crashes>>

(* The sales of a customer that is deleted stay without it (SET_NULL), its *)
(* debts go (CASCADE).                                                     *)
DeleteCustomer(t, c) ==
  /\ Begins(t, "forget")
  /\ Known(c)
  /\ customers' = [customers EXCEPT ![c].there = FALSE]
  /\ sales' = [i \in DOMAIN sales |->
       IF sales[i].customer = c THEN [sales[i] EXCEPT !.customer = Nobody] ELSE sales[i]]
  /\ debts' = [s \in Payloads |-> IF Payload[s].customer = c THEN 0 ELSE debts[s]]
  /\ UNCHANGED <<stock, promos, modes, client, at, crashes>>

(* An administrator creates a mode, or says what it is.                    *)
SetMode(t, m, kind) ==
  /\ Begins(t, "mode")
  /\ modes' = [modes EXCEPT ![m] = kind]
  /\ UNCHANGED <<stock, sales, debts, promos, customers, client, at, crashes>>

(* The worker dies: an open transaction is rolled back, an answer is lost. *)
Crash(t) ==
  /\ at[t] # Idle
  /\ crashes < MaxCrashes
  /\ crashes' = crashes + 1
  /\ Goto(t, Idle)
  /\ UNCHANGED <<stock, sales, debts, desk, client>>
-----------------------------------------------------------------------------
(* What a slot does for the request it serves.                             *)
Work(t) ==
  \/ Insert(t) \/ InsertDuplicate(t) \/ Post(t) \/ Refuse(t) \/ Dangle(t) \/ Answer(t)
  \/ Void(t) \/ Patch(t) \/ Move(t) \/ Delete(t)
  \/ AddLine(t) \/ EndEdit(t)

(* A client sends a sale.                                                  *)
Send(t, s) == Replay(t, s) \/ RefuseReferences(t, s) \/ Prepare(t, s)

Desk(t) ==
  \/ \E st \in Stores :
       \/ OfferOne(t, st) \/ EditPromotion(t, st)
       \/ \E status \in {"active", "expired"} : SetStatus(t, st, status)
  \/ \E stores \in SUBSET Stores : OfferMany(t, stores) \/ Withdraw(t, stores)
  \/ \E c \in Customers :
       \/ DeleteCustomer(t, c)
       \/ \E active \in BOOLEAN, st \in Stores : EditCustomer(t, c, active, st)
  \/ \E m \in Modes, kind \in {"plain", "credit"} : SetMode(t, m, kind)

Next ==
  \E t \in Slots :
    \/ /\ at[t] = Idle
       /\ \/ \E s \in Payloads : Send(t, s)
          \/ \E operation \in Operations \cap {"void", "patch", "move", "delete"},
                i \in DOMAIN sales : Fetch(t, operation, i)
          \/ Desk(t)
    \/ at[t] # Idle /\ (Work(t) \/ Crash(t))

Spec == Init /\ [][Next]_vars

(* A request that is being served goes on.  A client that has no answer    *)
(* keeps its sale and sends it again, and a request that waits for a free  *)
(* worker gets one in its turn, hence the strong fairness.  Workers die at *)
(* most MaxCrashes times.                                                  *)
FairSpec ==
  /\ Spec
  /\ \A t \in Slots : WF_vars(Work(t))
  /\ \A s \in Payloads : SF_vars(\E t \in Slots : Send(t, s))
-----------------------------------------------------------------------------
Places ==
  [op : {"idle"}]
  \cup [op : {"prepared", "inserted"}, payload : Payloads, mode : {"plain", "credit"}]
  \cup [op : {"committed"}, payload : Payloads]
  \cup [op : {"void", "patch", "move", "delete"}, id : 1 .. MaxSales, sale : Sale]
  \cup [op : {"promotion"}, store : Stores,
        todo : Seq([product : Products, quantity : Nat \ {0}])]

TypeOK ==
  /\ stock \in [Rows -> Nat]
  /\ sales \in Seq(Sale) /\ Len(sales) <= MaxSales
  /\ debts \in [Payloads -> Nat]
  /\ promos \in [Stores -> Offer]
  /\ customers \in [Customers -> [there : BOOLEAN, active : BOOLEAN, store : Stores]]
  /\ modes \in [Modes -> {"none", "plain", "credit"}]
  /\ answered \subseteq Payloads /\ refused \subseteq Payloads
  /\ at \in [Slots -> Places]
  /\ crashes \in 0 .. MaxCrashes

(* However often a client sends a sale, whoever else sends it at the same  *)
(* time and whoever dies, a sale with a key is recorded once, and its      *)
(* credit entered once (create_sale, unique_store_sale_idempotency); and a *)
(* client that was told its sale is recorded can forget it: the            *)
(* transaction has ended when the view answers.                            *)
SoldOncePerKey ==
  /\ \A i, j \in DOMAIN sales :
       i # j => ~SameKey(Payload[sales[i].payload].key, Payload[sales[i].payload].store,
                         Payload[sales[j].payload].key, Payload[sales[j].payload].store)
  /\ \A s \in Payloads : Payload[s].key # NoKey => debts[s] <= 1
  /\ \A s \in answered :
       \E i \in DOMAIN sales :
         \/ sales[i].payload = s
         \/ SameKey(Payload[sales[i].payload].key, Payload[sales[i].payload].store,
                    Payload[s].key, Payload[s].store)

(* What a sale of took in a store, or its return to it, is for each row.   *)
In(store, took) == [r \in Rows |-> IF r[1] = store THEN took[r[2]] ELSE 0]

(* With one request at a time, the movements of a sale that is confirmed   *)
(* took what it sold from the store that sold it; void_sale brings it all  *)
(* back, once, to one store, whatever was edited, deleted, withdrawn or    *)
(* moved to another store before and after.                                *)
SaleMatchesStock ==
  \A i \in DOMAIN sales :
    LET sale == sales[i]
        sold == In(Payload[sale.payload].store, sale.took)
    IN  ~sale.gone =>
          IF sale.status = "confirmed" THEN \A r \in Rows : sale.moved[r] = -sold[r]
          ELSE \E store \in Stores :
                 \A r \in Rows : sale.moved[r] = In(store, sale.took)[r] - sold[r]

(* A void finds what it has to give back: the promotions of a sale that    *)
(* has its lines are there, active or not, though they are withdrawn while *)
(* sales are recorded (PROTECT, and the check at commit).                  *)
SoldPromotionStays ==
  \A i \in DOMAIN sales :
    sales[i].lines /\ Payload[sales[i].payload].promotions > 0 =>
      promos[Payload[sales[i].payload].of].status # "none"

(* A customer that is there owes the sales that were recorded on its       *)
(* credit, by the client's word or by the mode, and no others.             *)
CreditIsOwed ==
  \A s \in Payloads :
    debts[s] = IF Payload[s].customer # Nobody /\ customers[Payload[s].customer].there
               THEN Cardinality({i \in DOMAIN sales : sales[i].payload = s /\ ~sales[i].paid})
               ELSE 0

(* Every sale a client keeps sending is settled: recorded and answered, or *)
(* refused for want of stock or of what it refers to, though duplicates    *)
(* race and workers die.                                                   *)
EverySaleIsSettled == \A s \in Payloads : <>(s \in answered \cup refused)
=============================================================================
