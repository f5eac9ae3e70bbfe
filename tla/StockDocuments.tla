--------------------------- MODULE StockDocuments ---------------------------
(***************************************************************************)
(* The life of the documents that move stock: transfers, purchases,        *)
(* inventories and requests for stock are created, edited, deleted,        *)
(* rejected and posted by the views of stock/views.py, one by one or       *)
(* several at once, by users with a role in the stores they are about.  A  *)
(* view reads the document with its lines, tests the status it read and    *)
(* then writes; nothing locks the document in between, and editing a       *)
(* transfer or a purchase takes three transactions.                        *)
(*                                                                         *)
(* To post a document is to make the movements of its lines; how that is   *)
(* done, and done whole, is StockService.                                  *)
(***************************************************************************)
EXTENDS Integers, Sequences, FiniteSets

CONSTANTS
  Slots,       \* requests served at once
  Docs,        \* primary keys
  Kind,        \* Docs -> {"transfer", "purchase", "inventory", "request"}
  Articles,
  Stores,
  Central,     \* the store with is_global_stock, where transfers start
  Users,
  Nobody,
  Staff,       \* users with is_staff
  Role,        \* Users -> [Stores -> a role, or "none"]
  Operations,  \* the operations a run allows
  Fragile,     \* the kinds a worker may die at
  MaxEdits     \* bound: payloads written

Kinds == {"transfer", "purchase", "inventory", "request"}
Roles == {"direction", "responsable", "vendeur", "none"}
Direction == {"direction"}
Management == {"direction", "responsable"}
Members == Roles \ {"none"}

ASSUME DocumentsAssumption ==
  /\ Kind \in [Docs -> Kinds]
  /\ Central \in Stores
  /\ Staff \subseteq Users /\ Nobody \notin Users
  /\ Role \in [Users -> [Stores -> Roles]]
  /\ Operations \subseteq {"create", "edit", "validate", "delete", "reject"}
  /\ Fragile \subseteq Kinds
  /\ MaxEdits \in Nat

VARIABLES
  row,     \* the documents and their lines
  posted,  \* Docs -> the movements made: of which lines, where, by whom
  at,      \* Slots -> where the request is, with what it has read
  edits    \* payloads written so far: they number the lines

vars == <<row, posted, at, edits>>

(* draft also stands for pending, applied for validated, received and      *)
(* approved.  A line is an article and the payload it came with.  store is *)
(* the target of a transfer; author counts for requests.                   *)
Statuses == {"draft", "applied", "cancelled", "rejected"}
Lines == SUBSET (Articles \X (1 .. MaxEdits))
Row == [there : BOOLEAN, status : Statuses, lines : Lines, store : Stores,
        author : Users \cup {Nobody}]
Posting == [lines : Lines, store : Stores, by : Users]

Idle == [op |-> "idle"]
New == [there |-> FALSE, made |-> FALSE]
Gone == [there |-> FALSE, made |-> TRUE]
LinesOf(d) == IF row[d].there THEN row[d].lines ELSE {}

(* user_has_store_access                                                   *)
Has(u, s, roles) == u \in Staff \/ Role[u][s] \in roles
Manages(u, s) == Has(u, s, Management)

Init ==
  /\ row = [d \in Docs |-> New]
  /\ posted = [d \in Docs |-> << >>]
  /\ at = [t \in Slots |-> Idle]
  /\ edits = 0

Begins(t, operation) == at[t] = Idle /\ operation \in Operations
At(t, op) == at[t].op = op
Goto(t, place) == at' = [at EXCEPT ![t] = place]

(* The statuses a payload may ask for.                                     *)
Asked == {"draft", "applied", "cancelled"}

(* The articles of a payload: "au moins une ligne", none twice.            *)
Payloads == SUBSET Articles \ {{}}

(* StockAddRequestSerializer: one article; the status is not of the form.  *)
RequestForm(articles, status) == Cardinality(articles) = 1 /\ status = "draft"

Numbered(articles) == articles \X {edits + 1}

Written(d, status, lines, s, u) ==
  [there |-> TRUE, status |-> status, lines |-> lines, store |-> s,
   author |-> IF Kind[d] = "request" THEN u ELSE Nobody]

(* The movements of these lines are made.                                  *)
PostLines(d, lines, s, u) ==
  posted' = [posted EXCEPT ![d] = Append(@, [lines |-> lines, store |-> s, by |-> u])]

-----------------------------------------------------------------------------
(* POST: the document, its lines and, if asked for, its movements in one   *)
(* transaction.                                                            *)
Enter(t, u, d, articles, status, s) ==
  /\ Begins(t, "create")
  /\ row[d] = New
  /\ edits < MaxEdits
  /\ edits' = edits + 1
  /\ row' = [row EXCEPT ![d] = Written(d, status, Numbered(articles), s, u)]
  /\ IF status = "applied" THEN PostLines(d, Numbered(articles), s, u)
     ELSE UNCHANGED posted
  /\ UNCHANGED at

(* A transfer starts at the central stock and goes to another store, both  *)
(* managed by the user (_target_store_for_transfer).                       *)
MayTarget(u, s) == s # Central /\ Manages(u, s)

CreateTransfer(t, u, d, articles, status, s) ==
  /\ Kind[d] = "transfer"
  /\ Manages(u, Central) /\ MayTarget(u, s)
  /\ Enter(t, u, d, articles, status, s)

CreatePurchase(t, u, d, articles, status, s) ==
  /\ Kind[d] = "purchase"
  /\ Manages(u, s)
  /\ Enter(t, u, d, articles, status, s)

CreateInventory(t, u, d, articles, status, s) ==
  /\ Kind[d] = "inventory"
  /\ Manages(u, s)
  /\ Enter(t, u, d, articles, status, s)

(* Whoever may write in a store may ask for stock; it stays pending.       *)
AskForStock(t, u, d, articles, status, s) ==
  /\ Kind[d] = "request"
  /\ Has(u, s, Members) /\ RequestForm(articles, status)
  /\ Enter(t, u, d, articles, status, s)

Create(t, u, d, articles, status, s) ==
  \/ CreateTransfer(t, u, d, articles, status, s)
  \/ CreatePurchase(t, u, d, articles, status, s)
  \/ CreateInventory(t, u, d, articles, status, s)
  \/ AskForStock(t, u, d, articles, status, s)

-----------------------------------------------------------------------------
(* The documents a user finds: those of its stores, and of requests only   *)
(* its own unless it is the direction.                                     *)
SeesRequest(u, d) ==
  \/ Has(u, row[d].store, Direction)
  \/ Has(u, row[d].store, Members) /\ row[d].author = u

Sees(u, d) ==
  IF Kind[d] = "request" THEN SeesRequest(u, d) ELSE Has(u, row[d].store, Members)

(* The rights the views ask for before they write.                         *)
MayChange(u, d) ==
  CASE Kind[d] = "transfer" -> Manages(u, Central)
    [] Kind[d] = "request" -> Has(u, row[d].store, Direction)
    [] OTHER -> Manages(u, row[d].store)

(* The view of an operation on d reads d, its lines prefetched.            *)
Fetch(t, u, operation, d) ==
  /\ Begins(t, operation)
  /\ row[d].there /\ Sees(u, d) /\ MayChange(u, d)
  /\ operation = "reject" => Kind[d] = "request"
  /\ operation \in {"edit", "delete"} => Kind[d] # "request"
  /\ Goto(t, [op |-> operation, by |-> u, doc |-> d, copy |-> row[d]])
  /\ UNCHANGED <<row, posted, edits>>

(* A slip for Refused: a posted document can be edited.                    *)
RefusedUnlessEditing(t) ==
  \/ /\ at[t].op \in {"delete", "reject", "validate"}
     /\ at[t].copy.status \in {"applied", "rejected"}
  \/ At(t, "validate") /\ at[t].copy.status = "cancelled"

(* The status that was read forbids the operation: "ne peut plus être      *)
(* modifié", "ne peut pas être supprimé", "est déjà validé", "Cette        *)
(* demande est déjà traitée.".  A cancelled document can be edited and     *)
(* deleted, not posted.                                                    *)
Refused(t) ==
  \/ /\ at[t].op \in {"edit", "delete", "reject", "validate"}
     /\ at[t].copy.status \in {"applied", "rejected"}
  \/ At(t, "validate") /\ at[t].copy.status = "cancelled"

Refuse(t) ==
  /\ Refused(t)
  /\ Goto(t, Idle)
  /\ UNCHANGED <<row, posted, edits>>

-----------------------------------------------------------------------------
(* The validate_..., receive_purchase and approval transaction: the lines  *)
(* are read anew (a request is its own line), the store is the one that    *)
(* was read before; the movements are made, ...                            *)
LoadLines(t) ==
  /\ At(t, "validate") /\ ~Refused(t)
  /\ LET d == at[t].doc
     IN Goto(t, [op |-> "posting", by |-> at[t].by, doc |-> d, store |-> at[t].copy.store,
                 lines |-> IF Kind[d] = "request" THEN at[t].copy.lines ELSE LinesOf(d)])
  /\ UNCHANGED <<row, posted, edits>>

(* A slip for Post: the status is not saved.                               *)
PostSilently(t) ==
  /\ At(t, "posting")
  /\ PostLines(at[t].doc, at[t].lines, at[t].store, at[t].by)
  /\ Goto(t, Idle)
  /\ UNCHANGED <<row, edits>>

(* ... and the status saved with update_fields, which fails if the row is  *)
(* gone and takes the movements with it.                                   *)
Post(t) ==
  /\ At(t, "posting")
  /\ LET d == at[t].doc
     IN IF row[d].there
        THEN /\ PostLines(d, at[t].lines, at[t].store, at[t].by)
             /\ row' = [row EXCEPT ![d].status = "applied"]
        ELSE UNCHANGED <<row, posted>>
  /\ Goto(t, Idle)
  /\ UNCHANGED edits

(* "Stock insuffisant"                                                     *)
RefusePosting(t) ==
  /\ At(t, "posting")
  /\ Goto(t, Idle)
  /\ UNCHANGED <<row, posted, edits>>

(* StockAddRequestBulkApproveView: the requests are read together, all of  *)
(* them found and the user direction of each store, ...                    *)
ReadRequests(t, u, requests) ==
  /\ Begins(t, "validate")
  /\ requests # {}
  /\ \A d \in requests :
       Kind[d] = "request" /\ row[d].there /\ Sees(u, d) /\ MayChange(u, d)
  /\ Goto(t, [op |-> "approving", by |-> u, copies |-> [d \in requests |-> row[d]]])
  /\ UNCHANGED <<row, posted, edits>>

(* ... and approved one after the other in one transaction: if one of them *)
(* was treated already, none is approved.                                  *)
ApproveAll(t) ==
  /\ At(t, "approving")
  /\ LET copies == at[t].copies
     IN IF \A d \in DOMAIN copies : copies[d].status = "draft"
        THEN /\ row' = [d \in Docs |-> IF d \in DOMAIN copies
                                        THEN [row[d] EXCEPT !.status = "applied"] ELSE row[d]]
             /\ posted' = [d \in Docs |->
                  IF d \in DOMAIN copies
                  THEN Append(posted[d], [lines |-> copies[d].lines, store |-> copies[d].store,
                                          by |-> at[t].by])
                  ELSE posted[d]]
        ELSE UNCHANGED <<row, posted>>
  /\ Goto(t, Idle)
  /\ UNCHANGED edits

-----------------------------------------------------------------------------
(* PUT: the lines there are now will be deleted ...                        *)
ClearLines(t) ==
  /\ At(t, "edit") /\ ~Refused(t)
  /\ Goto(t, [op |-> "writing", by |-> at[t].by, doc |-> at[t].doc,
              copy |-> at[t].copy, seen |-> LinesOf(at[t].doc)])
  /\ UNCHANGED <<row, posted, edits>>

(* What an edit leaves: lines another edit wrote since are not among those *)
(* it deletes.                                                             *)
Kept(t) == LinesOf(at[t].doc) \ at[t].seen

(* unique_stock_transfer_product, unique_inventory_product                 *)
Clash(t, articles) ==
  Kind[at[t].doc] # "purchase" /\ \E line \in Kept(t) : line[1] \in articles

(* A slip for NextStores: a purchase goes to any store.                    *)
NextStoresUnasked(t) ==
  CASE Kind[at[t].doc] = "transfer" -> {s \in Stores : MayTarget(at[t].by, s)}
    [] Kind[at[t].doc] = "purchase" -> Stores
    [] OTHER -> {at[t].copy.store}

(* The stores the payload may move the document to.                        *)
NextStores(t) ==
  CASE Kind[at[t].doc] = "transfer" -> {s \in Stores : MayTarget(at[t].by, s)}
    [] Kind[at[t].doc] = "purchase" -> {s \in Stores : Manages(at[t].by, s)}
    [] OTHER -> {at[t].copy.store}

(* ... the document saved (inserted again, if it was deleted meanwhile)    *)
(* and the payload's lines created.  An inventory is posted in the same    *)
(* transaction.  A transfer or a purchase is committed first, with the     *)
(* status asked for.                                                       *)
Write(t, articles, status, s) ==
  /\ At(t, "writing")
  /\ s \in NextStores(t)
  /\ LET d == at[t].doc
         lines == Kept(t) \cup Numbered(articles)
     IN /\ ~Clash(t, articles)
        /\ row' = [row EXCEPT ![d] = Written(d, status, lines, s, Nobody)]
        /\ IF status = "applied" /\ Kind[d] = "inventory"
           THEN PostLines(d, lines, s, at[t].by) ELSE UNCHANGED posted
        /\ Goto(t, IF status = "applied" /\ Kind[d] # "inventory"
                   THEN [op |-> "window", by |-> at[t].by, doc |-> d, store |-> s] ELSE Idle)
  /\ edits < MaxEdits
  /\ edits' = edits + 1

(* IntegrityError, an inactive article, or an inventory whose posting is   *)
(* refused: rolled back.                                                   *)
RefuseWrite(t) ==
  /\ At(t, "writing")
  /\ Goto(t, Idle)
  /\ UNCHANGED <<row, posted, edits>>

(* Then the status goes back to draft, so that the document can be posted  *)
(* in the store of the payload.                                            *)
ResetStatus(t) ==
  /\ At(t, "window")
  /\ LET d == at[t].doc
     IN IF row[d].there
        THEN /\ row' = [row EXCEPT ![d].status = "draft"]
             /\ Goto(t, [op |-> "validate", by |-> at[t].by, doc |-> d,
                         copy |-> [row'[d] EXCEPT !.store = at[t].store]])
        ELSE /\ Goto(t, Idle)
             /\ UNCHANGED row
  /\ UNCHANGED <<posted, edits>>

-----------------------------------------------------------------------------
Delete(t) ==
  /\ At(t, "delete") /\ ~Refused(t)
  /\ row' = [row EXCEPT ![at[t].doc] = Gone]
  /\ Goto(t, Idle)
  /\ UNCHANGED <<posted, edits>>

(* A bulk deletion passes over what was posted and what is in a store the  *)
(* user does not manage.  It asks nothing about the central stock.         *)
Deletable(u, k) ==
  {d \in Docs : /\ Kind[d] = k /\ row[d].there
                /\ row[d].status # "applied"
                /\ Manages(u, row[d].store)}

DeleteMany(t, u, k, documents) ==
  /\ Begins(t, "delete")
  /\ documents # {}
  /\ documents \subseteq Deletable(u, k)
  /\ row' = [d \in Docs |-> IF d \in documents THEN Gone ELSE row[d]]
  /\ UNCHANGED <<posted, at, edits>>

Reject(t) ==
  /\ At(t, "reject") /\ ~Refused(t)
  /\ row' = [row EXCEPT ![at[t].doc].status = "rejected"]
  /\ Goto(t, Idle)
  /\ UNCHANGED <<posted, edits>>

Working(t) == IF At(t, "idle") THEN {}
              ELSE IF At(t, "approving") THEN DOMAIN at[t].copies ELSE {at[t].doc}

(* The worker dies: the open transaction is rolled back, those before it   *)
(* stay.                                                                   *)
Crash(t) ==
  /\ at[t] # Idle
  /\ \A d \in Working(t) : Kind[d] \in Fragile
  /\ Goto(t, Idle)
  /\ UNCHANGED <<row, posted, edits>>

Made == {d \in Docs : row[d].there}
Requests == {d \in Made : Kind[d] = "request"}

Starts(t) ==
  \/ \E d \in {d \in Docs : row[d] = New} :
       \E articles \in Payloads, status \in Asked, u \in Users, s \in Stores :
         Create(t, u, d, articles, status, s)
  \/ \E u \in Users, d \in Made, operation \in {"edit", "validate", "delete", "reject"} :
       Fetch(t, u, operation, d)
  \/ \E u \in Users, requests \in SUBSET Requests : ReadRequests(t, u, requests)
  \/ \E u \in Users, k \in Kinds \ {"request"} :
       \E documents \in SUBSET Deletable(u, k) : DeleteMany(t, u, k, documents)

Goes(t) ==
  \/ Refuse(t)
  \/ LoadLines(t) \/ Post(t) \/ RefusePosting(t)
  \/ ApproveAll(t)
  \/ ClearLines(t)
  \/ /\ At(t, "writing")
     /\ \E articles \in Payloads, status \in Asked, s \in Stores :
          Write(t, articles, status, s)
  \/ RefuseWrite(t) \/ ResetStatus(t)
  \/ Delete(t) \/ Reject(t) \/ Crash(t)

Next ==
  \E t \in Slots :
    \/ at[t] = Idle /\ Starts(t)
    \/ at[t] # Idle /\ Goes(t)

Spec == Init /\ [][Next]_vars
-----------------------------------------------------------------------------
(* Where a request is, with what it has read.                              *)
IsPlace(p) ==
  \/ p = Idle
  \/ p \in [op : {"edit", "validate", "delete", "reject"}, by : Users, doc : Docs, copy : Row]
  \/ p \in [op : {"writing"}, by : Users, doc : Docs, copy : Row, seen : Lines]
  \/ p \in [op : {"window"}, by : Users, doc : Docs, store : Stores]
  \/ p \in [op : {"posting"}, by : Users, doc : Docs, store : Stores, lines : Lines]
  \/ /\ p \in [op : {"approving"}, by : Users, copies : [DOMAIN p.copies -> Row]]
     /\ DOMAIN p.copies \subseteq Docs

TypeOK ==
  /\ row \in [Docs -> Row \cup {New, Gone}]
  /\ posted \in [Docs -> Seq(Posting)]
  /\ DOMAIN at = Slots /\ \A t \in Slots : IsPlace(at[t])
  /\ edits \in 0 .. MaxEdits

Quiet(d) == \A t \in Slots : d \notin Working(t)

(* A document nobody is working on has status applied exactly when the     *)
(* movements of the lines it holds were made, once, in the store it is in; *)
(* otherwise none were.                                                    *)
AppliedIffPosted ==
  \A d \in Docs :
    Quiet(d) =>
      IF row[d].there /\ row[d].status = "applied"
      THEN \E u \in Users :
             posted[d] = <<[lines |-> row[d].lines, store |-> row[d].store, by |-> u]>>
      ELSE posted[d] = << >>

(* Who may bring stock in or out of a store: its management, for a request *)
(* the direction, for a transfer the management of the central stock, as   *)
(* long as it has a part in the store that receives.                       *)
MayMove(u, k, s) ==
  CASE k = "request" -> Has(u, s, Direction)
    [] k = "transfer" -> s # Central /\ Manages(u, Central) /\ Has(u, s, Members)
    [] OTHER -> Manages(u, s)

(* Whichever way a document comes to be posted (created so, edited so,     *)
(* moved to another store, approved with others), stock is only moved by   *)
(* those who may move it in that store.                                    *)
MovedByRight ==
  \A d \in Docs : \A i \in DOMAIN posted[d] :
    MayMove(posted[d][i].by, Kind[d], posted[d][i].store)

(* A document whose movements were made is neither edited, nor reopened,   *)
(* nor deleted ("Un transfert validé ne peut plus être modifié", "... ne   *)
(* peut pas être supprimé").                                               *)
PostedIsFrozen ==
  [][\A d \in Docs : posted[d] # << >> => row'[d] = row[d] /\ posted'[d] = posted[d]]_vars
=============================================================================
