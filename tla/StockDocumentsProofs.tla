------------------------- MODULE StockDocumentsProofs -------------------------
(***************************************************************************)
(* Proofs about StockDocuments, for any documents, stores, users and       *)
(* payloads: stock is moved by who may, however many requests are served   *)
(* at once; and, with one request at a time, a document is applied exactly *)
(* when its lines were moved, and stays as it is from then on.             *)
(***************************************************************************)
EXTENDS StockDocuments, SequenceTheorems, TLAPS

Fetched == {"edit", "validate", "delete", "reject"}

(* What a request has read, by where it is.                                *)
LEMMA PlaceFields ==
  ASSUME NEW p, IsPlace(p)
  PROVE  /\ p.op \in Fetched \cup {"writing"} => p.copy \in Row
         /\ p.op \in Fetched \cup {"writing", "window", "posting"} => p.by \in Users /\ p.doc \in Docs
         /\ p.op = "writing" => p.seen \in Lines
         /\ p.op \in {"window", "posting"} => p.store \in Stores
         /\ p.op = "posting" => p.lines \in Lines
         /\ p.op = "approving" =>
              /\ p.by \in Users /\ DOMAIN p.copies \subseteq Docs
              /\ \A d \in DOMAIN p.copies : p.copies[d] \in Row
         /\ p.op \in Fetched \cup {"idle", "writing", "window", "posting", "approving"}
         /\ p.op = "idle" => p = Idle
BY DEF IsPlace, Idle, Fetched

(* The places requests go to.                                              *)
LEMMA PlacesThereAre ==
  /\ IsPlace(Idle)
  /\ \A op \in Fetched, u \in Users, d \in Docs, copy \in Row :
       IsPlace([op |-> op, by |-> u, doc |-> d, copy |-> copy])
  /\ \A u \in Users, d \in Docs, copy \in Row, seen \in Lines :
       IsPlace([op |-> "writing", by |-> u, doc |-> d, copy |-> copy, seen |-> seen])
  /\ \A u \in Users, d \in Docs, s \in Stores :
       IsPlace([op |-> "window", by |-> u, doc |-> d, store |-> s])
  /\ \A u \in Users, d \in Docs, s \in Stores, lines \in Lines :
       IsPlace([op |-> "posting", by |-> u, doc |-> d, store |-> s, lines |-> lines])
BY DEF IsPlace, Fetched

LEMMA ApprovingIsPlace ==
  ASSUME NEW u \in Users, NEW D \in SUBSET Docs, NEW copies \in [D -> Row]
  PROVE  IsPlace([op |-> "approving", by |-> u, copies |-> copies])
BY DEF IsPlace

(* A document that is there.                                               *)
LEMMA RowFields ==
  ASSUME TypeOK, NEW d \in Docs, row[d].there
  PROVE  /\ row[d] \in Row
         /\ row[d].status \in Statuses /\ row[d].lines \in Lines /\ row[d].store \in Stores
<1>1. row[d] \in Row \cup {New, Gone}
  BY DEF TypeOK
<1>2. row[d] \in Row
  BY <1>1 DEF New, Gone
<1>. QED
  BY <1>2 DEF Row

(* Saving the status alone leaves the rest of the row.                     *)
LEMMA StatusSaved ==
  ASSUME TypeOK, NEW d \in Docs, row[d].there, NEW status \in Statuses,
         row' = [row EXCEPT ![d].status = status]
  PROVE  /\ row'[d] \in Row
         /\ row'[d].there /\ row'[d].status = status
         /\ row'[d].lines = row[d].lines /\ row'[d].store = row[d].store
         /\ \A e \in Docs \ {d} : row'[e] = row[e]
<1>1. row[d] \in Row
  BY RowFields
<1>2. row' = [row EXCEPT ![d] = [row[d] EXCEPT !.status = status]]
  OBVIOUS
<1>3. row'[d] = [row[d] EXCEPT !.status = status] /\ \A e \in Docs \ {d} : row'[e] = row[e]
  BY <1>2 DEF TypeOK
<1>. QED
  BY <1>1, <1>3 DEF Row

LEMMA LinesType == TypeOK => \A d \in Docs : LinesOf(d) \in Lines
BY RowFields DEF LinesOf, Lines

LEMMA NumberedType ==
  ASSUME TypeOK, edits < MaxEdits, NEW articles \in SUBSET Articles
  PROVE  Numbered(articles) \in Lines
BY DocumentsAssumption DEF TypeOK, Numbered, Lines, DocumentsAssumption

LEMMA WrittenType ==
  ASSUME NEW d \in Docs, NEW status \in Statuses, NEW lines \in Lines, NEW s \in Stores,
         NEW u \in Users \cup {Nobody}
  PROVE  Written(d, status, lines, s, u) \in Row
BY DEF Written, Row

(* Where the requests are after one of them goes on.                       *)
LEMMA AtType ==
  ASSUME TypeOK, NEW t, NEW p, IsPlace(p), Goto(t, p)
  PROVE  DOMAIN at' = Slots /\ \A u \in Slots : IsPlace(at'[u])
BY DEF TypeOK, Goto

LEMMA RowType ==
  ASSUME TypeOK, NEW d, NEW r \in Row \cup {New, Gone}, row' = [row EXCEPT ![d] = r]
  PROVE  row' \in [Docs -> Row \cup {New, Gone}]
BY DEF TypeOK

LEMMA PostedType ==
  ASSUME TypeOK, NEW d \in Docs, NEW lines \in Lines, NEW s \in Stores, NEW u \in Users,
         PostLines(d, lines, s, u)
  PROVE  posted' \in [Docs -> Seq(Posting)]
<1>1. [lines |-> lines, store |-> s, by |-> u] \in Posting
  BY DEF Posting
<1>2. posted[d] \in Seq(Posting)
  BY DEF TypeOK
<1>3. Append(posted[d], [lines |-> lines, store |-> s, by |-> u]) \in Seq(Posting)
  BY <1>1, <1>2
<1>. QED
  BY <1>3 DEF TypeOK, PostLines

-----------------------------------------------------------------------------
(* Requests for stock are neither edited nor deleted, and only they are    *)
(* rejected or approved together: whoever works on one finds it.           *)
RequestsStay ==
  \A t \in Slots :
    /\ At(t, "approving") =>
         \A d \in DOMAIN at[t].copies : Kind[d] = "request" /\ row[d].there
    /\ At(t, "reject") => Kind[at[t].doc] = "request" /\ row[at[t].doc].there
    /\ at[t].op \in {"edit", "delete", "writing", "window"} => Kind[at[t].doc] # "request"

Typed == TypeOK /\ RequestsStay

(* Requests that are there stay, and the others do not move.               *)
LEMMA RequestsRemain ==
  ASSUME Typed, NEW t \in Slots, NEW p, Goto(t, p),
         \A d \in Docs : Kind[d] = "request" /\ row[d].there => row'[d].there,
         p.op = "approving" => \A d \in DOMAIN p.copies : Kind[d] = "request" /\ row'[d].there,
         p.op = "reject" => Kind[p.doc] = "request" /\ row'[p.doc].there,
         p.op \in {"edit", "delete", "writing", "window"} => Kind[p.doc] # "request"
  PROVE  RequestsStay'
<1> SUFFICES ASSUME NEW u \in Slots
    PROVE  /\ At(u, "approving")' =>
                \A d \in DOMAIN at'[u].copies : Kind[d] = "request" /\ row'[d].there
           /\ At(u, "reject")' => Kind[at'[u].doc] = "request" /\ row'[at'[u].doc].there
           /\ at'[u].op \in {"edit", "delete", "writing", "window"} => Kind[at'[u].doc] # "request"
  BY DEF RequestsStay, At
<1>1. CASE u = t
  <2>1. at'[u] = p
    BY <1>1 DEF Goto, Typed, TypeOK
  <2>. QED
    BY <2>1 DEF At
<1>2. CASE u # t
  <2>1. at'[u] = at[u] /\ IsPlace(at[u])
    BY <1>2 DEF Goto, Typed, TypeOK
  <2>2. /\ at[u].op = "approving" => DOMAIN at[u].copies \subseteq Docs
        /\ at[u].op = "reject" => at[u].doc \in Docs
    BY <2>1, PlaceFields DEF Fetched
  <2>. QED
    BY <2>1, <2>2 DEF At, RequestsStay, Typed
<1>. QED
  BY <1>1, <1>2

(* Requests that begin.                                                    *)
LEMMA EnterTyped ==
  ASSUME Typed, NEW t \in Slots, NEW u \in Users, NEW d \in Docs, NEW articles \in Payloads,
         NEW status \in Asked, NEW s \in Stores, Enter(t, u, d, articles, status, s)
  PROVE  Typed'
<1>1. Numbered(articles) \in Lines /\ status \in Statuses
  BY NumberedType DEF Typed, Enter, Payloads, Asked, Statuses
<1>2. Written(d, status, Numbered(articles), s, u) \in Row
  BY <1>1, WrittenType
<1>3. row' \in [Docs -> Row \cup {New, Gone}]
  BY <1>2, RowType DEF Typed, Enter
<1>4. posted' \in [Docs -> Seq(Posting)]
  BY <1>1, PostedType DEF Typed, TypeOK, Enter
<1>5. TypeOK'
  BY <1>3, <1>4, DocumentsAssumption DEF Typed, TypeOK, Enter, DocumentsAssumption
<1>6. \A e \in Docs : row[e].there => row'[e].there
  BY DEF Typed, TypeOK, Enter, Written
<1>7. RequestsStay'
  <2> SUFFICES ASSUME NEW v \in Slots
      PROVE  /\ At(v, "approving") =>
                  \A e \in DOMAIN at[v].copies : Kind[e] = "request" /\ row'[e].there
             /\ At(v, "reject") => Kind[at[v].doc] = "request" /\ row'[at[v].doc].there
             /\ at[v].op \in {"edit", "delete", "writing", "window"} => Kind[at[v].doc] # "request"
    BY DEF RequestsStay, At, Enter
  <2>1. IsPlace(at[v])
    BY DEF Typed, TypeOK
  <2>. QED
    BY <1>6, <2>1, PlaceFields DEF RequestsStay, At, Typed, Fetched
<1>. QED
  BY <1>5, <1>7 DEF Typed

LEMMA FetchTyped ==
  ASSUME Typed, NEW t \in Slots, NEW u \in Users, NEW d \in Docs, NEW operation \in Fetched,
         Fetch(t, u, operation, d)
  PROVE  Typed'
<1>. DEFINE p == [op |-> operation, by |-> u, doc |-> d, copy |-> row[d]]
<1>1. IsPlace(p)
  BY RowFields, PlacesThereAre DEF Typed, Fetch
<1>2. Goto(t, p)
  BY DEF Fetch
<1>3. RequestsStay'
  BY <1>2, RequestsRemain, Zenon DEF Fetch, Fetched
<1>. QED
  BY <1>1, <1>2, <1>3, AtType DEF Typed, TypeOK, Fetch

LEMMA ReadRequestsTyped ==
  ASSUME Typed, NEW t \in Slots, NEW u \in Users, NEW requests \in SUBSET Docs,
         ReadRequests(t, u, requests)
  PROVE  Typed'
<1>. DEFINE p == [op |-> "approving", by |-> u, copies |-> [d \in requests |-> row[d]]]
<1>1. IsPlace(p)
  BY RowFields, ApprovingIsPlace DEF Typed, ReadRequests
<1>2. Goto(t, p)
  BY DEF ReadRequests
<1>3. RequestsStay'
  BY <1>2, RequestsRemain DEF ReadRequests
<1>. QED
  BY <1>1, <1>2, <1>3, AtType DEF Typed, TypeOK, ReadRequests

LEMMA DeleteManyTyped ==
  ASSUME Typed, NEW t \in Slots, NEW u \in Users, NEW k \in Kinds \ {"request"},
         NEW documents \in SUBSET Deletable(u, k), DeleteMany(t, u, k, documents)
  PROVE  Typed'
<1>1. TypeOK'
  BY DEF Typed, TypeOK, DeleteMany
<1>2. \A d \in Docs : Kind[d] = "request" => row'[d] = row[d]
  BY DEF DeleteMany, Deletable
<1>3. \A v \in Slots : IsPlace(at[v])
  BY DEF Typed, TypeOK
<1>4. RequestsStay'
  <2> SUFFICES ASSUME NEW v \in Slots
      PROVE  /\ At(v, "approving") =>
                  \A e \in DOMAIN at[v].copies : Kind[e] = "request" /\ row'[e].there
             /\ At(v, "reject") => Kind[at[v].doc] = "request" /\ row'[at[v].doc].there
             /\ at[v].op \in {"edit", "delete", "writing", "window"} => Kind[at[v].doc] # "request"
    BY DEF RequestsStay, At, DeleteMany
  <2>. QED
    BY <1>2, <1>3, PlaceFields DEF RequestsStay, At, Typed, Fetched
<1>. QED
  BY <1>1, <1>4 DEF Typed

-----------------------------------------------------------------------------
(* A request that goes on ends, ...                                        *)
LEMMA IdleTyped ==
  ASSUME Typed, NEW t \in Slots, Goto(t, Idle),
         row' \in [Docs -> Row \cup {New, Gone}], posted' \in [Docs -> Seq(Posting)],
         edits' \in 0 .. MaxEdits,
         \A d \in Docs : Kind[d] = "request" /\ row[d].there => row'[d].there
  PROVE  Typed'
<1>1. RequestsStay'
  BY RequestsRemain DEF Idle
<1>2. DOMAIN at' = Slots /\ \A u \in Slots : IsPlace(at'[u])
  BY AtType, PlacesThereAre DEF Typed
<1>. QED
  BY <1>1, <1>2 DEF Typed, TypeOK

LEMMA PostTyped ==
  ASSUME Typed, NEW t \in Slots, Post(t)
  PROVE  Typed'
<1>. DEFINE d == at[t].doc
<1>1. d \in Docs /\ at[t].by \in Users /\ at[t].lines \in Lines /\ at[t].store \in Stores
  BY PlaceFields DEF Typed, TypeOK, Post, At, Fetched
<1>2. row' \in [Docs -> Row \cup {New, Gone}] /\ posted' \in [Docs -> Seq(Posting)]
  <2>1. CASE ~row[d].there
    BY <2>1 DEF Post, Typed, TypeOK
  <2>2. CASE row[d].there
    <3>1. row[d] \in Row
      BY <1>1, <2>2, RowFields DEF Typed
    <3>2. [row[d] EXCEPT !.status = "applied"] \in Row
      BY <3>1 DEF Row, Statuses
    <3>3. row' = [row EXCEPT ![d] = [row[d] EXCEPT !.status = "applied"]]
      BY <2>2 DEF Post
    <3>4. PostLines(d, at[t].lines, at[t].store, at[t].by)
      BY <2>2 DEF Post
    <3>. QED
      BY <1>1, <3>2, <3>3, <3>4, RowType, PostedType DEF Typed
  <2>. QED
    BY <2>1, <2>2
<1>3. \A e \in Docs : row[e].there => row'[e].there
  BY <1>1, RowFields DEF Post, Typed, TypeOK, Row
<1>4. Goto(t, Idle) /\ edits' \in 0 .. MaxEdits
  BY DEF Post, Typed, TypeOK
<1>. QED
  BY <1>2, <1>3, <1>4, IdleTyped

LEMMA ApproveAllTyped ==
  ASSUME Typed, NEW t \in Slots, ApproveAll(t)
  PROVE  Typed'
<1>. DEFINE copies == at[t].copies
            u == at[t].by
<1>1. /\ u \in Users /\ DOMAIN copies \subseteq Docs
      /\ \A d \in DOMAIN copies : copies[d] \in Row /\ row[d].there
  BY PlaceFields DEF Typed, TypeOK, RequestsStay, ApproveAll, At
<1>2. CASE ~\A d \in DOMAIN copies : copies[d].status = "draft"
  BY <1>2, IdleTyped DEF ApproveAll, Typed, TypeOK
<1>3. CASE \A d \in DOMAIN copies : copies[d].status = "draft"
  <2>1. \A d \in DOMAIN copies : [row[d] EXCEPT !.status = "applied"] \in Row
    BY <1>1, RowFields DEF Typed, Row, Statuses
  <2>2. row' = [d \in Docs |-> IF d \in DOMAIN copies
                                 THEN [row[d] EXCEPT !.status = "applied"] ELSE row[d]]
    BY <1>3 DEF ApproveAll
  <2>3. row' \in [Docs -> Row \cup {New, Gone}]
    BY <2>1, <2>2 DEF Typed, TypeOK
  <2>4. \A d \in DOMAIN copies :
          Append(posted[d], [lines |-> copies[d].lines, store |-> copies[d].store, by |-> u])
            \in Seq(Posting)
    <3> SUFFICES ASSUME NEW d \in DOMAIN copies
        PROVE  Append(posted[d], [lines |-> copies[d].lines, store |-> copies[d].store, by |-> u])
                 \in Seq(Posting)
      OBVIOUS
    <3>1. [lines |-> copies[d].lines, store |-> copies[d].store, by |-> u] \in Posting
      BY <1>1 DEF Posting, Row
    <3>2. posted[d] \in Seq(Posting)
      BY <1>1 DEF Typed, TypeOK
    <3>. QED
      BY <3>1, <3>2
  <2>5. posted' = [d \in Docs |->
                     IF d \in DOMAIN copies
                     THEN Append(posted[d], [lines |-> copies[d].lines,
                                             store |-> copies[d].store, by |-> u])
                     ELSE posted[d]]
    BY <1>3 DEF ApproveAll
  <2>6. posted' \in [Docs -> Seq(Posting)]
    BY <2>4, <2>5 DEF Typed, TypeOK
  <2>7. \A d \in Docs : row[d].there => row'[d].there
    BY <1>1, <2>2, RowFields DEF Typed, Row
  <2>8. Goto(t, Idle) /\ edits' \in 0 .. MaxEdits
    BY DEF ApproveAll, Typed, TypeOK
  <2>. QED
    BY <2>3, <2>6, <2>7, <2>8, IdleTyped
<1>. QED
  BY <1>2, <1>3

LEMMA DeleteOrRejectTyped ==
  ASSUME Typed, NEW t \in Slots, Delete(t) \/ Reject(t)
  PROVE  Typed'
<1>. DEFINE d == at[t].doc
<1>1. d \in Docs
  BY PlaceFields DEF Typed, TypeOK, Delete, Reject, At, Fetched
<1>2. CASE Delete(t)
  <2>1. Kind[d] # "request"
    BY <1>2 DEF Delete, At, Typed, RequestsStay
  <2>2. row' \in [Docs -> Row \cup {New, Gone}]
    BY <1>2, RowType DEF Delete, Typed
  <2>. QED
    BY <1>2, <2>1, <2>2, IdleTyped DEF Delete, Typed, TypeOK
<1>3. CASE Reject(t)
  <2>1. row[d].there
    BY <1>3 DEF Reject, At, Typed, RequestsStay
  <2>2. row[d] \in Row
    BY <1>1, <2>1, RowFields DEF Typed
  <2>3. [row[d] EXCEPT !.status = "rejected"] \in Row
    BY <2>2 DEF Row, Statuses
  <2>4. row' = [row EXCEPT ![d] = [row[d] EXCEPT !.status = "rejected"]]
    BY <1>3 DEF Reject
  <2>5. row' \in [Docs -> Row \cup {New, Gone}]
    BY <2>3, <2>4, RowType DEF Typed
  <2>6. \A e \in Docs : row[e].there => row'[e].there
    BY <1>1, <2>2, <2>4 DEF Typed, TypeOK, Row
  <2>. QED
    BY <1>3, <2>5, <2>6, IdleTyped DEF Reject, Typed, TypeOK
<1>. QED
  BY <1>2, <1>3

(* ... or goes to its next statement.                                      *)
LEMMA OnTyped ==
  ASSUME Typed, NEW t \in Slots, NEW p, IsPlace(p), Goto(t, p), p.op \notin {"approving", "reject"},
         p.op \in {"edit", "delete", "writing", "window"} => Kind[p.doc] # "request",
         row' \in [Docs -> Row \cup {New, Gone}], posted' \in [Docs -> Seq(Posting)],
         edits' \in 0 .. MaxEdits,
         \A d \in Docs : Kind[d] = "request" /\ row[d].there => row'[d].there
  PROVE  Typed'
<1>1. RequestsStay'
  BY RequestsRemain
<1>2. DOMAIN at' = Slots /\ \A u \in Slots : IsPlace(at'[u])
  BY AtType DEF Typed
<1>. QED
  BY <1>1, <1>2 DEF Typed, TypeOK

LEMMA LoadLinesTyped ==
  ASSUME Typed, NEW t \in Slots, LoadLines(t)
  PROVE  Typed'
<1>. DEFINE d == at[t].doc
            p == [op |-> "posting", by |-> at[t].by, doc |-> d, store |-> at[t].copy.store,
                  lines |-> IF Kind[d] = "request" THEN at[t].copy.lines ELSE LinesOf(d)]
<1>1. d \in Docs /\ at[t].by \in Users /\ at[t].copy \in Row
  BY PlaceFields DEF Typed, TypeOK, LoadLines, At, Fetched
<1>2. IsPlace(p)
  BY <1>1, LinesType, PlacesThereAre DEF Typed, Row
<1>. QED
  BY <1>2, OnTyped DEF LoadLines, Typed, TypeOK

LEMMA ClearLinesTyped ==
  ASSUME Typed, NEW t \in Slots, ClearLines(t)
  PROVE  Typed'
<1>. DEFINE d == at[t].doc
            p == [op |-> "writing", by |-> at[t].by, doc |-> d, copy |-> at[t].copy,
                  seen |-> LinesOf(d)]
<1>1. d \in Docs /\ at[t].by \in Users /\ at[t].copy \in Row
  BY PlaceFields DEF Typed, TypeOK, ClearLines, At, Fetched
<1>2. IsPlace(p) /\ Kind[d] # "request"
  BY <1>1, LinesType, PlacesThereAre DEF Typed, ClearLines, At, RequestsStay
<1>. QED
  BY <1>2, OnTyped DEF ClearLines, Typed, TypeOK

LEMMA WriteTyped ==
  ASSUME Typed, NEW t \in Slots, NEW articles \in Payloads, NEW status \in Asked,
         NEW s \in Stores, Write(t, articles, status, s)
  PROVE  Typed'
<1>. DEFINE d == at[t].doc
            lines == Kept(t) \cup Numbered(articles)
            p == IF status = "applied" /\ Kind[d] # "inventory"
                 THEN [op |-> "window", by |-> at[t].by, doc |-> d, store |-> s] ELSE Idle
<1>1. d \in Docs /\ at[t].by \in Users /\ Kind[d] # "request"
  BY PlaceFields DEF Typed, TypeOK, Write, At, Fetched, RequestsStay
<1>2. lines \in Lines /\ status \in Statuses
  BY <1>1, LinesType, NumberedType DEF Typed, Write, Kept, Lines, Payloads, Asked, Statuses
<1>3. Written(d, status, lines, s, Nobody) \in Row
  BY <1>1, <1>2, WrittenType
<1>4. row' \in [Docs -> Row \cup {New, Gone}]
  BY <1>3, RowType DEF Typed, Write
<1>5. posted' \in [Docs -> Seq(Posting)]
  BY <1>1, <1>2, PostedType DEF Typed, TypeOK, Write
<1>6. \A e \in Docs : Kind[e] = "request" => row'[e] = row[e]
  BY <1>1 DEF Write, Typed, TypeOK
<1>7. IsPlace(p) /\ Goto(t, p) /\ p.op \in {"idle", "window"} /\ (p.op = "window" => p.doc = d)
  BY <1>1, PlacesThereAre DEF Write, Idle
<1>8. edits' \in 0 .. MaxEdits
  BY DocumentsAssumption DEF Write, Typed, TypeOK, DocumentsAssumption
<1>. HIDE DEF p
<1>. QED
  BY <1>1, <1>4, <1>5, <1>6, <1>7, <1>8, OnTyped

LEMMA ResetStatusTyped ==
  ASSUME Typed, NEW t \in Slots, ResetStatus(t)
  PROVE  Typed'
<1>. DEFINE d == at[t].doc
            p == [op |-> "validate", by |-> at[t].by, doc |-> d,
                  copy |-> [row'[d] EXCEPT !.store = at[t].store]]
<1>1. d \in Docs /\ at[t].by \in Users /\ at[t].store \in Stores
  BY PlaceFields DEF Typed, TypeOK, ResetStatus, At, Fetched
<1>2. CASE ~row[d].there
  BY <1>2, IdleTyped DEF ResetStatus, Typed, TypeOK
<1>3. CASE row[d].there
  <2>1. row[d] \in Row
    BY <1>1, <1>3, RowFields DEF Typed
  <2>2. [row[d] EXCEPT !.status = "draft"] \in Row
    BY <2>1 DEF Row, Statuses
  <2>3. row' = [row EXCEPT ![d] = [row[d] EXCEPT !.status = "draft"]] /\ Goto(t, p)
    BY <1>3 DEF ResetStatus
  <2>4. row' \in [Docs -> Row \cup {New, Gone}] /\ row'[d] \in Row
    BY <1>1, <2>2, <2>3, RowType DEF Typed, TypeOK
  <2>5. [row'[d] EXCEPT !.store = at[t].store] \in Row
    BY <1>1, <2>4 DEF Row
  <2>6. IsPlace(p)
    BY <1>1, <2>5, PlacesThereAre DEF Fetched
  <2>7. \A e \in Docs : row[e].there => row'[e].there
    BY <1>1, <2>1, <2>3 DEF Typed, TypeOK, Row
  <2>. QED
    BY <2>3, <2>4, <2>6, <2>7, OnTyped DEF ResetStatus, Typed, TypeOK
<1>. QED
  BY <1>2, <1>3

LEMMA GivesUpTyped ==
  ASSUME Typed, NEW t \in Slots, Refuse(t) \/ RefusePosting(t) \/ RefuseWrite(t) \/ Crash(t)
  PROVE  Typed'
BY IdleTyped DEF Refuse, RefusePosting, RefuseWrite, Crash, Typed, TypeOK

(* Next, action by action.                                                 *)
LEMMA NextCases ==
  ASSUME Next
  PROVE  \E t \in Slots :
           \/ \E d \in Docs, articles \in Payloads, status \in Asked, u \in Users, s \in Stores :
                row[d] = New /\ Create(t, u, d, articles, status, s)
           \/ \E u \in Users, d \in Docs, operation \in Fetched : Fetch(t, u, operation, d)
           \/ \E u \in Users, requests \in SUBSET Docs : ReadRequests(t, u, requests)
           \/ \E u \in Users, k \in Kinds \ {"request"} :
                \E documents \in SUBSET Deletable(u, k) : DeleteMany(t, u, k, documents)
           \/ \E articles \in Payloads, status \in Asked, s \in Stores :
                Write(t, articles, status, s)
           \/ LoadLines(t) \/ Post(t) \/ ApproveAll(t) \/ ClearLines(t) \/ ResetStatus(t)
           \/ Delete(t) \/ Reject(t)
           \/ Refuse(t) \/ RefusePosting(t) \/ RefuseWrite(t) \/ Crash(t)
<1>1. PICK t \in Slots : (at[t] = Idle /\ Starts(t)) \/ (at[t] # Idle /\ Goes(t))
  BY DEF Next
<1>2. CASE Starts(t)
  <2>1. Requests \subseteq Docs
    BY DEF Requests, Made
  <2>. QED
    BY <1>2, <2>1 DEF Starts, Made, Fetched
<1>3. CASE Goes(t)
  BY <1>3 DEF Goes
<1>. QED
  BY <1>1, <1>2, <1>3

LEMMA TypedStep == Typed /\ [Next]_vars => Typed'
<1> SUFFICES ASSUME Typed, [Next]_vars PROVE Typed'
  OBVIOUS
<1>1. CASE UNCHANGED vars
  BY <1>1 DEF Typed, TypeOK, RequestsStay, At, vars
<1>2. CASE Next
  <2>1. ASSUME NEW t \in Slots, NEW d \in Docs, NEW articles \in Payloads, NEW status \in Asked,
               NEW u \in Users, NEW s \in Stores, Create(t, u, d, articles, status, s)
        PROVE  Typed'
    BY <2>1, EnterTyped DEF Create, CreateTransfer, CreatePurchase, CreateInventory, AskForStock
  <2>. QED
    BY <1>2, <2>1, NextCases, FetchTyped, ReadRequestsTyped, DeleteManyTyped, WriteTyped,
       LoadLinesTyped, PostTyped, ApproveAllTyped, ClearLinesTyped, ResetStatusTyped,
       DeleteOrRejectTyped, GivesUpTyped
<1>. QED
  BY <1>1, <1>2

LEMMA TypedAtFirst == Init => Typed
<1> SUFFICES ASSUME Init PROVE Typed
  OBVIOUS
<1>1. TypeOK
  BY PlacesThereAre, DocumentsAssumption DEF Init, TypeOK, DocumentsAssumption
<1>2. RequestsStay
  BY DEF Init, RequestsStay, At, Idle
<1>. QED
  BY <1>1, <1>2 DEF Typed

(* The documents, the movements made and what requests have read keep      *)
(* their types, for any number of requests at once, whatever copies they   *)
(* write back (stock/views.py).                                            *)
THEOREM DocumentsTypeCorrect == Spec => []TypeOK
<1>1. Typed => TypeOK
  BY DEF Typed
<1>. QED
  BY <1>1, TypedAtFirst, TypedStep, PTL DEF Spec

-----------------------------------------------------------------------------
(* Rights.  Who works on a document may move stock where it will be moved. *)
WorksByRight(p) ==
  /\ p.op \in Fetched \cup {"writing"} => MayMove(p.by, Kind[p.doc], p.copy.store)
  /\ p.op \in {"window", "posting"} => MayMove(p.by, Kind[p.doc], p.store)
  /\ p.op = "approving" =>
       \A d \in DOMAIN p.copies :
         Kind[d] = "request" /\ MayMove(p.by, "request", p.copies[d].store)

(* A transfer goes to another store than the one it starts from.           *)
TargetsAreShops ==
  \A d \in Docs : Kind[d] = "transfer" /\ row[d].there => row[d].store # Central

RightsKept ==
  Typed /\ (\A t \in Slots : WorksByRight(at[t])) /\ TargetsAreShops /\ MovedByRight

(* Management is a role.                                                   *)
LEMMA ManagersBelong == \A u \in Users, s \in Stores : Manages(u, s) => Has(u, s, Members)
BY DocumentsAssumption DEF Manages, Has, Management, Members, Roles, DocumentsAssumption

LEMMA AnswersForTarget ==
  ASSUME NEW u \in Users, NEW s \in Stores, Manages(u, Central), MayTarget(u, s)
  PROVE  MayMove(u, "transfer", s)
BY ManagersBelong DEF MayTarget, MayMove

(* The movements of a document are made by one who may.                    *)
LEMMA PostedByRight ==
  ASSUME Typed, MovedByRight, NEW d \in Docs, NEW lines, NEW s, NEW u,
         PostLines(d, lines, s, u), MayMove(u, Kind[d], s)
  PROVE  MovedByRight'
<1> SUFFICES ASSUME NEW e \in Docs, NEW i \in DOMAIN posted'[e]
    PROVE  MayMove(posted'[e][i].by, Kind[e], posted'[e][i].store)
  BY DEF MovedByRight
<1>1. posted[e] \in Seq(Posting) /\ posted' = [posted EXCEPT
        ![d] = Append(posted[d], [lines |-> lines, store |-> s, by |-> u])]
  BY DEF Typed, TypeOK, PostLines
<1>2. CASE i \in DOMAIN posted[e] /\ posted'[e][i] = posted[e][i]
  BY <1>2 DEF MovedByRight
<1>3. CASE e = d /\ posted'[e][i] = [lines |-> lines, store |-> s, by |-> u]
  BY <1>3
<1>4. e # d => posted'[e] = posted[e]
  BY <1>1 DEF Typed, TypeOK
<1>5. e = d => posted'[e] = Append(posted[e], [lines |-> lines, store |-> s, by |-> u])
  BY <1>1 DEF Typed, TypeOK
<1>. QED
  BY <1>1, <1>2, <1>3, <1>4, <1>5

(* A step of one request, which may write one row and post one document.   *)
LEMMA RightsRemain ==
  ASSUME RightsKept, Typed', NEW t \in Slots, NEW p, at' = at \/ Goto(t, p), WorksByRight(p),
         TargetsAreShops', MovedByRight'
  PROVE  RightsKept'
<1>1. \A u \in Slots : at'[u] = at[u] \/ at'[u] = p
  BY DEF Goto, RightsKept, Typed, TypeOK
<1>2. \A u \in Slots : WorksByRight(at[u])'
  BY <1>1 DEF WorksByRight, RightsKept, MayMove, Has, Manages
<1>. QED
  BY <1>2 DEF RightsKept

LEMMA IdleIsRightful == WorksByRight(Idle)
BY DEF WorksByRight, Idle, Fetched

LEMMA CreateByRight ==
  ASSUME RightsKept, Typed', NEW t \in Slots, NEW d \in Docs, NEW articles \in Payloads,
         NEW status \in Asked, NEW u \in Users, NEW s \in Stores,
         Create(t, u, d, articles, status, s)
  PROVE  RightsKept'
<1>1. Enter(t, u, d, articles, status, s)
  BY DEF Create, CreateTransfer, CreatePurchase, CreateInventory, AskForStock
<1>2. /\ Kind[d] = "transfer" => s # Central
      /\ status = "applied" => MayMove(u, Kind[d], s)
  BY AnswersForTarget
  DEF Create, CreateTransfer, CreatePurchase, CreateInventory, AskForStock, RequestForm,
      MayMove, MayTarget
<1>3. TargetsAreShops'
  BY <1>1, <1>2 DEF Enter, Written, TargetsAreShops, RightsKept, Typed, TypeOK
<1>4. MovedByRight'
  <2>1. CASE status = "applied"
    BY <1>1, <1>2, <2>1, PostedByRight DEF Enter, RightsKept
  <2>2. CASE status # "applied"
    BY <1>1, <2>2 DEF Enter, RightsKept, MovedByRight
  <2>. QED
    BY <2>1, <2>2
<1>. QED
  BY <1>1, <1>3, <1>4, IdleIsRightful, RightsRemain DEF Enter

LEMMA FetchByRight ==
  ASSUME RightsKept, Typed', NEW t \in Slots, NEW u \in Users, NEW d \in Docs,
         NEW operation \in Fetched, Fetch(t, u, operation, d)
  PROVE  RightsKept'
<1>. DEFINE p == [op |-> operation, by |-> u, doc |-> d, copy |-> row[d]]
<1>1. MayMove(u, Kind[d], row[d].store)
  BY DEF Fetch, Sees, MayChange, MayMove, RightsKept, TargetsAreShops
<1>2. WorksByRight(p)
  BY <1>1 DEF WorksByRight, Fetched
<1>3. TargetsAreShops' /\ MovedByRight' /\ Goto(t, p)
  BY DEF Fetch, RightsKept, TargetsAreShops, MovedByRight
<1>. HIDE DEF p
<1>. QED
  BY <1>2, <1>3, RightsRemain

LEMMA ReadRequestsByRight ==
  ASSUME RightsKept, Typed', NEW t \in Slots, NEW u \in Users, NEW requests \in SUBSET Docs,
         ReadRequests(t, u, requests)
  PROVE  RightsKept'
<1>. DEFINE p == [op |-> "approving", by |-> u, copies |-> [d \in requests |-> row[d]]]
<1>1. \A d \in requests : Kind[d] = "request" /\ MayMove(u, "request", row[d].store)
  BY DEF ReadRequests, MayChange, MayMove
<1>2. WorksByRight(p)
  BY <1>1 DEF WorksByRight, Fetched
<1>3. TargetsAreShops' /\ MovedByRight' /\ Goto(t, p)
  BY DEF ReadRequests, RightsKept, TargetsAreShops, MovedByRight
<1>. HIDE DEF p
<1>. QED
  BY <1>2, <1>3, RightsRemain

LEMMA WriteByRight ==
  ASSUME RightsKept, Typed', NEW t \in Slots, NEW articles \in Payloads, NEW status \in Asked,
         NEW s \in Stores, Write(t, articles, status, s)
  PROVE  RightsKept'
<1>. DEFINE d == at[t].doc
            u == at[t].by
            lines == Kept(t) \cup Numbered(articles)
            p == IF status = "applied" /\ Kind[d] # "inventory"
                 THEN [op |-> "window", by |-> u, doc |-> d, store |-> s] ELSE Idle
<1>1. /\ d \in Docs /\ u \in Users /\ Kind[d] \in Kinds \ {"request"}
      /\ MayMove(u, Kind[d], at[t].copy.store)
  BY PlaceFields, DocumentsAssumption
  DEF RightsKept, Typed, TypeOK, Write, At, Fetched, RequestsStay, WorksByRight, DocumentsAssumption
<1>2. MayMove(u, Kind[d], s)
  BY <1>1, AnswersForTarget DEF Write, NextStores, MayTarget, MayMove, Kinds
<1>3. WorksByRight(p) /\ Goto(t, p)
  BY <1>2, IdleIsRightful DEF Write, WorksByRight, Fetched
<1>4. TargetsAreShops'
  <2>1. Kind[d] = "transfer" => s # Central
    BY <1>2 DEF MayMove
  <2>. QED
    BY <1>1, <2>1 DEF Write, Written, TargetsAreShops, RightsKept, Typed, TypeOK
<1>5. MovedByRight'
  <2>1. CASE status = "applied" /\ Kind[d] = "inventory"
    BY <1>1, <1>2, <2>1, PostedByRight DEF Write, RightsKept
  <2>2. CASE ~(status = "applied" /\ Kind[d] = "inventory")
    BY <2>2 DEF Write, RightsKept, MovedByRight
  <2>. QED
    BY <2>1, <2>2
<1>. HIDE DEF p
<1>. QED
  BY <1>3, <1>4, <1>5, RightsRemain

LEMMA PostByRight ==
  ASSUME RightsKept, Typed', NEW t \in Slots, Post(t)
  PROVE  RightsKept'
<1>. DEFINE d == at[t].doc
<1>1. d \in Docs /\ MayMove(at[t].by, Kind[d], at[t].store)
  BY PlaceFields DEF RightsKept, Typed, TypeOK, Post, At, Fetched, WorksByRight
<1>2. TargetsAreShops'
  <2>1. CASE ~row[d].there
    BY <2>1 DEF Post, TargetsAreShops, RightsKept
  <2>2. CASE row[d].there
    <3>1. row' = [row EXCEPT ![d].status = "applied"]
      BY <2>2 DEF Post
    <3>2. \A e \in Docs : row'[e].there => row[e].there /\ row'[e].store = row[e].store
      BY <1>1, <2>2, <3>1, StatusSaved DEF RightsKept, Typed, Statuses
    <3>. QED
      BY <3>2 DEF TargetsAreShops, RightsKept
  <2>. QED
    BY <2>1, <2>2
<1>3. MovedByRight'
  BY <1>1, PostedByRight DEF Post, RightsKept, MovedByRight
<1>. QED
  BY <1>2, <1>3, IdleIsRightful, RightsRemain DEF Post

LEMMA ApproveAllByRight ==
  ASSUME RightsKept, Typed', NEW t \in Slots, ApproveAll(t)
  PROVE  RightsKept'
<1>. DEFINE copies == at[t].copies
            u == at[t].by
<1>1. /\ DOMAIN copies \subseteq Docs
      /\ \A d \in DOMAIN copies :
           /\ Kind[d] = "request" /\ MayMove(u, "request", copies[d].store)
           /\ row[d] \in Row
  BY PlaceFields, RowFields
  DEF RightsKept, Typed, TypeOK, ApproveAll, At, WorksByRight, RequestsStay
<1>2. CASE ~\A d \in DOMAIN copies : copies[d].status = "draft"
  BY <1>2, IdleIsRightful, RightsRemain DEF ApproveAll, RightsKept, TargetsAreShops, MovedByRight
<1>3. CASE \A d \in DOMAIN copies : copies[d].status = "draft"
  <2>1. TargetsAreShops'
    <3> SUFFICES ASSUME NEW d \in Docs, Kind[d] = "transfer", row'[d].there
        PROVE  row'[d].store # Central
      BY DEF TargetsAreShops
    <3>1. row'[d] = row[d]
      BY <1>1, <1>3 DEF ApproveAll
    <3>. QED
      BY <3>1 DEF RightsKept, TargetsAreShops
  <2>2. MovedByRight'
    <3> SUFFICES ASSUME NEW e \in Docs, NEW i \in DOMAIN posted'[e]
        PROVE  MayMove(posted'[e][i].by, Kind[e], posted'[e][i].store)
      BY DEF MovedByRight
    <3>1. CASE e \notin DOMAIN copies
      <4>1. posted'[e] = posted[e]
        BY <1>3, <3>1 DEF ApproveAll
      <4>. QED
        BY <4>1 DEF RightsKept, MovedByRight
    <3>2. CASE e \in DOMAIN copies
      <4>1. posted'[e] = Append(posted[e], [lines |-> copies[e].lines, store |-> copies[e].store,
                                            by |-> u])
        BY <1>3, <3>2 DEF ApproveAll
      <4>2. posted[e] \in Seq(Posting)
        BY DEF RightsKept, Typed, TypeOK
      <4>3. CASE i \in DOMAIN posted[e] /\ posted'[e][i] = posted[e][i]
        BY <4>3 DEF RightsKept, MovedByRight
      <4>4. CASE posted'[e][i] = [lines |-> copies[e].lines, store |-> copies[e].store, by |-> u]
        BY <1>1, <3>2, <4>4
      <4>. QED
        BY <4>1, <4>2, <4>3, <4>4
    <3>. QED
      BY <3>1, <3>2
  <2>. QED
    BY <2>1, <2>2, IdleIsRightful, RightsRemain DEF ApproveAll
<1>. QED
  BY <1>2, <1>3

LEMMA DeskByRight ==
  ASSUME RightsKept, Typed', NEW t \in Slots,
         LoadLines(t) \/ ClearLines(t) \/ ResetStatus(t) \/ Delete(t) \/ Reject(t)
  PROVE  RightsKept'
<1>. DEFINE d == at[t].doc
<1>1. /\ d \in Docs
      /\ LoadLines(t) \/ ClearLines(t) => MayMove(at[t].by, Kind[d], at[t].copy.store)
      /\ ResetStatus(t) => MayMove(at[t].by, Kind[d], at[t].store)
  BY PlaceFields
  DEF RightsKept, Typed, TypeOK, LoadLines, ClearLines, ResetStatus, Delete, Reject, At, Fetched,
      WorksByRight
<1>2. MovedByRight'
  BY DEF LoadLines, ClearLines, ResetStatus, Delete, Reject, RightsKept, MovedByRight
<1>3. TargetsAreShops'
  <2>1. \A e \in Docs : row'[e] = row[e] \/ ~row'[e].there
                         \/ (row'[e].there => row[e].there /\ row'[e].store = row[e].store)
    <3>1. row[d].there => row[d] \in Row
      BY <1>1, RowFields DEF RightsKept, Typed
    <3>2. Reject(t) => row[d].there
      BY DEF Reject, At, RightsKept, Typed, RequestsStay
    <3>. QED
      BY <1>1, <3>1, <3>2
      DEF LoadLines, ClearLines, ResetStatus, Delete, Reject, RightsKept, Typed, TypeOK, Gone, Row
  <2>. QED
    BY <2>1 DEF RightsKept, TargetsAreShops
<1>4. \E p : Goto(t, p) /\ WorksByRight(p)
  <2>1. CASE LoadLines(t)
    BY <1>1, <2>1 DEF LoadLines, WorksByRight, Fetched
  <2>2. CASE ClearLines(t)
    BY <1>1, <2>2 DEF ClearLines, WorksByRight, Fetched
  <2>3. CASE ResetStatus(t)
    <3>1. CASE ~row[d].there
      BY <2>3, <3>1, IdleIsRightful DEF ResetStatus
    <3>2. CASE row[d].there
      <4>. DEFINE copy == [row'[d] EXCEPT !.store = at[t].store]
                  p == [op |-> "validate", by |-> at[t].by, doc |-> d, copy |-> copy]
      <4>1. row'[d] \in Row
        <5>1. row' = [row EXCEPT ![d].status = "draft"]
          BY <2>3, <3>2 DEF ResetStatus
        <5>. QED
          BY <1>1, <3>2, <5>1, StatusSaved DEF Statuses, RightsKept, Typed
      <4>2. copy.store = at[t].store
        BY <4>1 DEF Row
      <4>3. Goto(t, p)
        BY <2>3, <3>2 DEF ResetStatus
      <4>. HIDE DEF copy
      <4>4. WorksByRight(p)
        BY <1>1, <2>3, <4>2 DEF WorksByRight, Fetched
      <4>. QED
        BY <4>3, <4>4
    <3>. QED
      BY <3>1, <3>2
  <2>4. CASE Delete(t) \/ Reject(t)
    BY <2>4, IdleIsRightful DEF Delete, Reject
  <2>. QED
    BY <2>1, <2>2, <2>3, <2>4
<1>. QED
  BY <1>2, <1>3, <1>4, RightsRemain

LEMMA RightsStep ==
  ASSUME RightsKept, [Next]_vars
  PROVE  RightsKept'
<1>1. Typed'
  BY TypedStep DEF RightsKept
<1>2. CASE UNCHANGED vars
  BY <1>1, <1>2
  DEF RightsKept, WorksByRight, TargetsAreShops, MovedByRight, MayMove, Has, Manages, vars
<1>3. CASE Next
  <2>1. ASSUME NEW t \in Slots, NEW u \in Users, NEW k \in Kinds \ {"request"},
               NEW documents \in SUBSET Deletable(u, k), DeleteMany(t, u, k, documents)
        PROVE  RightsKept'
    <3>1. TargetsAreShops' /\ MovedByRight' /\ at' = at
      BY <2>1 DEF DeleteMany, RightsKept, TargetsAreShops, MovedByRight, Gone
    <3>. QED
      BY <1>1, <3>1, IdleIsRightful, RightsRemain
  <2>2. ASSUME NEW t \in Slots,
               Refuse(t) \/ RefusePosting(t) \/ RefuseWrite(t) \/ Crash(t)
        PROVE  RightsKept'
    <3>1. TargetsAreShops' /\ MovedByRight' /\ Goto(t, Idle)
      BY <2>2 DEF Refuse, RefusePosting, RefuseWrite, Crash, RightsKept, TargetsAreShops, MovedByRight
    <3>. QED
      BY <1>1, <3>1, IdleIsRightful, RightsRemain
  <2>. QED
    BY <1>1, <1>3, <2>1, <2>2, NextCases, CreateByRight, FetchByRight, ReadRequestsByRight,
       WriteByRight, PostByRight, ApproveAllByRight, DeskByRight
<1>. QED
  BY <1>2, <1>3

(* However many requests are served at once and whatever copies they work  *)
(* on, the movements of a document are made by who may make them in the    *)
(* store they are made in: every way to post ends with the rights that the *)
(* view asked for when it read the store, or the payload named it.         *)
THEOREM MovesAreRightful == Spec => []MovedByRight
<1>1. Init => RightsKept
  BY TypedAtFirst
  DEF Init, RightsKept, WorksByRight, TargetsAreShops, MovedByRight, Idle, Fetched, New
<1>2. RightsKept /\ [Next]_vars => RightsKept'
  BY RightsStep
<1>3. RightsKept => MovedByRight
  BY DEF RightsKept
<1>. QED
  BY <1>1, <1>2, <1>3, PTL DEF Spec

-----------------------------------------------------------------------------
(* One request at a time, and no worker dies between the transactions of   *)
(* an edit: what a request has read is still so when it uses it, and a     *)
(* document's movements are those of its lines.                            *)
OneAtATime == \A t, u \in Slots : t = u
NoHalfEdits == Fragile \subseteq {"inventory", "request"}

(* The movements a row accounts for.                                       *)
Accounts(r, moves) ==
  IF r.there /\ r.status = "applied"
  THEN \E u \in Users : moves = <<[lines |-> r.lines, store |-> r.store, by |-> u]>>
  ELSE moves = << >>

(* What a request at p has read of these rows and movements is current.    *)
UpToDate(p, rows, moves) ==
  /\ p.op \in Fetched \cup {"writing"} => rows[p.doc].there /\ p.copy = rows[p.doc]
  /\ p.op = "writing" => rows[p.doc].status \in {"draft", "cancelled"}
  /\ p.op = "window" =>
       /\ Kind[p.doc] \in {"transfer", "purchase"}
       /\ rows[p.doc].there /\ rows[p.doc].status = "applied"
       /\ p.store = rows[p.doc].store
       /\ moves[p.doc] = << >>
  /\ p.op = "posting" =>
       /\ rows[p.doc].there /\ rows[p.doc].status = "draft"
       /\ p.lines = rows[p.doc].lines /\ p.store = rows[p.doc].store
  /\ p.op = "approving" =>
       \A d \in DOMAIN p.copies : rows[d].there /\ p.copies[d] = rows[d]

InWindow(d) == \E t \in Slots : At(t, "window") /\ at[t].doc = d

(* An edited document is applied and not yet posted only in the window of  *)
(* the edit.                                                               *)
InOrder ==
  /\ Typed
  /\ \A t \in Slots : UpToDate(at[t], row, posted)
  /\ \A d \in Docs : ~InWindow(d) => Accounts(row[d], posted[d])

Frozen ==
  \A d \in Docs : posted[d] # << >> => row'[d] = row[d] /\ posted'[d] = posted[d]

(* A step that writes one document at most, of which nothing was posted.   *)
LEMMA OneDocument ==
  ASSUME OneAtATime, InOrder, Typed', NEW t \in Slots, NEW e \in Docs,
         \A d \in Docs \ {e} : row'[d] = row[d] /\ posted'[d] = posted[d],
         posted[e] = << >> \/ (row'[e] = row[e] /\ posted'[e] = posted[e]),
         At(t, "window") => at[t].doc = e,
         NEW p, at'[t] = p, UpToDate(p, row', posted'),
         p.op = "window" => p.doc = e,
         p.op # "window" => Accounts(row'[e], posted'[e])
  PROVE  InOrder' /\ Frozen
<1>1. Frozen
  BY DEF Frozen
<1>2. \A u \in Slots : UpToDate(at'[u], row', posted')
  BY DEF OneAtATime
<1>3. ASSUME NEW d \in Docs, ~(InWindow(d))'
      PROVE  Accounts(row'[d], posted'[d])
  <2>1. CASE d = e
    <3>1. p.op # "window"
      BY <1>3, <2>1 DEF InWindow, At
    <3>. QED
      BY <2>1, <3>1
  <2>2. CASE d # e
    <3>1. ~InWindow(d)
      BY <2>2 DEF InWindow, OneAtATime
    <3>. QED
      BY <2>2, <3>1 DEF InOrder
  <2>. QED
    BY <2>1, <2>2
<1>4. (\A u \in Slots : UpToDate(at[u], row, posted))'
  BY <1>2 DEF UpToDate
<1>5. (\A d \in Docs : ~InWindow(d) => Accounts(row[d], posted[d]))'
  BY <1>3 DEF Accounts, InWindow, At
<1>. QED
  BY <1>1, <1>4, <1>5 DEF InOrder

(* A step that writes nothing.                                             *)
LEMMA NothingWritten ==
  ASSUME OneAtATime, InOrder, Typed', NEW t \in Slots, UNCHANGED <<row, posted>>,
         ~At(t, "window"), NEW p, at'[t] = p, UpToDate(p, row', posted'), p.op # "window"
  PROVE  InOrder' /\ Frozen
<1>1. (\A u \in Slots : UpToDate(at[u], row, posted))'
  BY DEF OneAtATime, UpToDate
<1>2. \A d \in Docs : ~InWindow(d)
  BY DEF InWindow, OneAtATime
<1>3. (\A d \in Docs : ~InWindow(d) => Accounts(row[d], posted[d]))'
  BY <1>2 DEF InOrder, Accounts
<1>. QED
  BY <1>1, <1>3 DEF InOrder, Frozen

LEMMA IdleIsUpToDate == \A rows, moves : UpToDate(Idle, rows, moves)
BY DEF UpToDate, Idle, Fetched

LEMMA GoesTo ==
  ASSUME Typed, NEW t \in Slots, NEW p, Goto(t, p)
  PROVE  at'[t] = p
BY DEF Goto, Typed, TypeOK

LEMMA CreateInOrder ==
  ASSUME OneAtATime, InOrder, Typed', NEW t \in Slots, NEW d \in Docs, NEW articles \in Payloads,
         NEW status \in Asked, NEW u \in Users, NEW s \in Stores,
         Enter(t, u, d, articles, status, s)
  PROVE  InOrder' /\ Frozen
<1>. DEFINE lines == Numbered(articles)
<1>1. at[t] = Idle /\ at'[t] = Idle /\ ~At(t, "window")
  BY DEF Enter, Begins, At, Idle
<1>2. posted[d] = << >>
  <2>1. ~InWindow(d)
    BY <1>1 DEF InWindow, At, OneAtATime
  <2>. QED
    BY <2>1 DEF InOrder, Accounts, Enter, New
<1>3. \A e \in Docs \ {d} : row'[e] = row[e] /\ posted'[e] = posted[e]
  BY DEF Enter, PostLines, InOrder, Typed, TypeOK
<1>4. /\ row'[d].there /\ row'[d].status = status
      /\ row'[d].lines = lines /\ row'[d].store = s
  BY DEF Enter, Written, InOrder, Typed, TypeOK
<1>5. Accounts(row'[d], posted'[d])
  <2>1. CASE status = "applied"
    <3>1. posted'[d] = Append(<< >>, [lines |-> lines, store |-> s, by |-> u])
      BY <1>2, <2>1 DEF Enter, PostLines, InOrder, Typed, TypeOK
    <3>2. posted'[d] = <<[lines |-> lines, store |-> s, by |-> u]>>
      BY <3>1
    <3>. QED
      BY <1>4, <2>1, <3>2 DEF Accounts
  <2>2. CASE status # "applied"
    BY <1>2, <1>4, <2>2 DEF Accounts, Enter
  <2>. QED
    BY <2>1, <2>2
<1>6. Idle.op # "window"
  BY DEF Idle
<1>. QED
  BY <1>1, <1>2, <1>3, <1>5, <1>6, IdleIsUpToDate, OneDocument

LEMMA BeginsInOrder ==
  ASSUME OneAtATime, InOrder, Typed', NEW t \in Slots, NEW u \in Users, NEW operation \in Fetched,
         NEW d \in Docs, NEW requests \in SUBSET Docs,
         Fetch(t, u, operation, d) \/ ReadRequests(t, u, requests)
  PROVE  InOrder' /\ Frozen
<1>1. at[t] = Idle /\ ~At(t, "window")
  BY DEF Fetch, ReadRequests, Begins, At, Idle
<1>2. CASE Fetch(t, u, operation, d)
  <2>. DEFINE p == [op |-> operation, by |-> u, doc |-> d, copy |-> row[d]]
  <2>1. at'[t] = p
    BY <1>2, GoesTo DEF Fetch, InOrder
  <2>2. UNCHANGED <<row, posted>> /\ row[d].there
    BY <1>2 DEF Fetch
  <2>3. UpToDate(p, row', posted') /\ p.op # "window"
    BY <2>2 DEF UpToDate, Fetched
  <2>. QED
    BY <1>1, <2>1, <2>2, <2>3, NothingWritten
<1>3. CASE ReadRequests(t, u, requests)
  <2>. DEFINE p == [op |-> "approving", by |-> u, copies |-> [e \in requests |-> row[e]]]
  <2>1. at'[t] = p
    BY <1>3, GoesTo DEF ReadRequests, InOrder
  <2>2. UNCHANGED <<row, posted>> /\ \A e \in requests : row[e].there
    BY <1>3 DEF ReadRequests
  <2>3. UpToDate(p, row', posted') /\ p.op # "window"
    BY <2>2 DEF UpToDate, Fetched
  <2>. QED
    BY <1>1, <2>1, <2>2, <2>3, NothingWritten
<1>. QED
  BY <1>2, <1>3

(* What a request that works on one document knows of it.                  *)
LEMMA KnowsItsDocument ==
  ASSUME OneAtATime, InOrder, NEW t \in Slots,
         at[t].op \in Fetched \cup {"writing", "window", "posting"}
  PROVE  /\ at[t].doc \in Docs /\ at[t].by \in Users
         /\ row[at[t].doc].there /\ row[at[t].doc] \in Row
         /\ at[t].op # "window" => Accounts(row[at[t].doc], posted[at[t].doc])
         /\ row[at[t].doc].status # "applied" => posted[at[t].doc] = << >>
<1>1. at[t].doc \in Docs /\ at[t].by \in Users /\ UpToDate(at[t], row, posted)
  BY PlaceFields DEF InOrder, Typed, TypeOK
<1>2. row[at[t].doc].there
  BY <1>1 DEF UpToDate
<1>3. row[at[t].doc] \in Row
  BY <1>1, <1>2, RowFields DEF InOrder, Typed
<1>4. at[t].op # "window" => Accounts(row[at[t].doc], posted[at[t].doc])
  BY <1>1 DEF InOrder, InWindow, At, OneAtATime
<1>5. at[t].op = "window" => posted[at[t].doc] = << >>
  BY <1>1 DEF UpToDate
<1>. QED
  BY <1>1, <1>2, <1>3, <1>4, <1>5 DEF Accounts

LEMMA WriteInOrder ==
  ASSUME OneAtATime, InOrder, Typed', NEW t \in Slots, NEW articles \in Payloads,
         NEW status \in Asked, NEW s \in Stores, Write(t, articles, status, s)
  PROVE  InOrder' /\ Frozen
<1>. DEFINE d == at[t].doc
            lines == Kept(t) \cup Numbered(articles)
            u == at[t].by
            p == IF status = "applied" /\ Kind[d] # "inventory"
                 THEN [op |-> "window", by |-> u, doc |-> d, store |-> s] ELSE Idle
<1>1. /\ d \in Docs /\ u \in Users /\ at[t].op = "writing" /\ ~At(t, "window")
      /\ posted[d] = << >>
      /\ Kind[d] \in {"transfer", "purchase", "inventory"}
  <2>1. at[t].op = "writing"
    BY DEF Write, At
  <2>2. row[d].status \in {"draft", "cancelled"}
    BY <2>1 DEF InOrder, UpToDate
  <2>3. d \in Docs /\ u \in Users /\ posted[d] = << >>
    BY <2>1, <2>2, KnowsItsDocument
  <2>4. Kind[d] # "request"
    BY <2>1 DEF InOrder, Typed, RequestsStay
  <2>. QED
    BY <2>1, <2>3, <2>4, DocumentsAssumption DEF At, DocumentsAssumption, Kinds
<1>2. row' = [row EXCEPT ![d] = Written(d, status, lines, s, Nobody)] /\ Goto(t, p)
  BY DEF Write
<1>3. at'[t] = p
  BY <1>2, GoesTo DEF InOrder
<1>4. /\ row'[d].there /\ row'[d].status = status
      /\ row'[d].lines = lines /\ row'[d].store = s
      /\ \A e \in Docs \ {d} : row'[e] = row[e]
  <2>. HIDE DEF lines, d
  <2>. QED
    BY <1>1, <1>2 DEF Written, InOrder, Typed, TypeOK
<1>5. \A e \in Docs \ {d} : posted'[e] = posted[e]
  BY <1>1 DEF Write, PostLines, InOrder, Typed, TypeOK
<1>6. CASE status = "applied" /\ Kind[d] = "inventory"
  <2>1. posted'[d] = Append(<< >>, [lines |-> lines, store |-> s, by |-> u])
    BY <1>1, <1>6 DEF Write, PostLines, InOrder, Typed, TypeOK
  <2>2. posted'[d] = <<[lines |-> lines, store |-> s, by |-> u]>>
    BY <2>1
  <2>3. Accounts(row'[d], posted'[d])
    <3>. HIDE DEF d, u, lines
    <3>1. posted'[d] = <<[lines |-> row'[d].lines, store |-> row'[d].store, by |-> u]>>
      BY <1>4, <2>2
    <3>. QED
      BY <1>1, <1>4, <1>6, <3>1 DEF Accounts
  <2>4. p = Idle /\ Idle.op # "window"
    BY <1>6 DEF Idle
  <2>. QED
    BY <1>1, <1>3, <1>4, <1>5, <2>3, <2>4, IdleIsUpToDate, OneDocument
<1>7. CASE status = "applied" /\ Kind[d] # "inventory"
  <2>. DEFINE window == [op |-> "window", by |-> u, doc |-> d, store |-> s]
  <2>1. at'[t] = window
    BY <1>3, <1>7
  <2>2. posted' = posted
    BY <1>7 DEF Write
  <2>3. UpToDate(window, row', posted')
    BY <1>1, <1>4, <1>7, <2>2 DEF UpToDate, Fetched
  <2>. QED
    BY <1>1, <1>4, <1>5, <2>1, <2>3, OneDocument
<1>8. CASE status # "applied"
  <2>1. posted' = posted /\ p = Idle /\ Idle.op # "window"
    BY <1>8 DEF Write, Idle
  <2>2. Accounts(row'[d], posted'[d])
    BY <1>1, <1>4, <1>8, <2>1 DEF Accounts
  <2>. QED
    BY <1>1, <1>3, <1>4, <1>5, <2>1, <2>2, IdleIsUpToDate, OneDocument
<1>. QED
  BY <1>6, <1>7, <1>8

LEMMA LinesReadInOrder ==
  ASSUME OneAtATime, InOrder, Typed', NEW t \in Slots, LoadLines(t) \/ ClearLines(t)
  PROVE  InOrder' /\ Frozen
<1>. DEFINE d == at[t].doc
<1>1. at[t].op \in {"validate", "edit"} /\ ~At(t, "window") /\ ~Refused(t)
      /\ UNCHANGED <<row, posted>>
  BY DEF LoadLines, ClearLines, At
<1>2. /\ d \in Docs /\ at[t].copy = row[d] /\ row[d].there /\ row[d] \in Row
      /\ LinesOf(d) = row[d].lines
  BY <1>1, KnowsItsDocument DEF InOrder, UpToDate, Fetched, LinesOf
<1>3. CASE LoadLines(t)
  <2>. DEFINE p == [op |-> "posting", by |-> at[t].by, doc |-> d, store |-> at[t].copy.store,
                    lines |-> IF Kind[d] = "request" THEN at[t].copy.lines ELSE LinesOf(d)]
  <2>1. at'[t] = p
    BY <1>3, GoesTo DEF LoadLines, InOrder
  <2>2. row[d].status = "draft"
    BY <1>1, <1>2, <1>3 DEF Refused, LoadLines, At, Row, Statuses
  <2>3. UpToDate(p, row', posted') /\ p.op # "window"
    BY <1>1, <1>2, <2>2 DEF UpToDate, Fetched
  <2>. QED
    BY <1>1, <2>1, <2>3, NothingWritten
<1>4. CASE ClearLines(t)
  <2>. DEFINE p == [op |-> "writing", by |-> at[t].by, doc |-> d, copy |-> at[t].copy,
                    seen |-> LinesOf(d)]
  <2>1. at'[t] = p
    BY <1>4, GoesTo DEF ClearLines, InOrder
  <2>2. row[d].status \in {"draft", "cancelled"}
    BY <1>1, <1>2, <1>4 DEF Refused, ClearLines, At, Row, Statuses
  <2>3. UpToDate(p, row', posted') /\ p.op # "window"
    BY <1>1, <1>2, <2>2 DEF UpToDate, Fetched
  <2>. QED
    BY <1>1, <2>1, <2>3, NothingWritten
<1>. QED
  BY <1>3, <1>4

LEMMA PostInOrder ==
  ASSUME OneAtATime, InOrder, Typed', NEW t \in Slots, Post(t)
  PROVE  InOrder' /\ Frozen
<1>. DEFINE d == at[t].doc
            u == at[t].by
<1>1. at[t].op = "posting" /\ ~At(t, "window")
  BY DEF Post, At
<1>2. d \in Docs /\ u \in Users /\ row[d].there
  BY <1>1, KnowsItsDocument
<1>3. /\ row[d].status = "draft" /\ at[t].lines = row[d].lines /\ at[t].store = row[d].store
  BY <1>1 DEF InOrder, UpToDate
<1>4. posted[d] = << >>
  BY <1>1, <1>3, KnowsItsDocument
<1>5. /\ row' = [row EXCEPT ![d].status = "applied"]
      /\ PostLines(d, at[t].lines, at[t].store, u) /\ Goto(t, Idle)
  BY <1>2 DEF Post
<1>6. /\ row'[d].there /\ row'[d].status = "applied"
      /\ row'[d].lines = row[d].lines /\ row'[d].store = row[d].store
      /\ \A e \in Docs \ {d} : row'[e] = row[e]
  BY <1>2, <1>5, StatusSaved DEF Statuses, InOrder, Typed
<1>7. /\ posted'[d] = Append(<< >>, [lines |-> row[d].lines, store |-> row[d].store, by |-> u])
      /\ \A e \in Docs \ {d} : posted'[e] = posted[e]
  BY <1>2, <1>3, <1>4, <1>5 DEF PostLines, InOrder, Typed, TypeOK
<1>8. posted'[d] = <<[lines |-> row[d].lines, store |-> row[d].store, by |-> u]>>
  BY <1>7
<1>9. Accounts(row'[d], posted'[d])
  BY <1>2, <1>6, <1>8 DEF Accounts
<1>10. at'[t] = Idle /\ Idle.op # "window"
  BY <1>5, GoesTo DEF InOrder, Idle
<1>. QED
  BY <1>1, <1>2, <1>4, <1>6, <1>7, <1>9, <1>10, IdleIsUpToDate, OneDocument

LEMMA ResetStatusInOrder ==
  ASSUME OneAtATime, InOrder, Typed', NEW t \in Slots, ResetStatus(t)
  PROVE  InOrder' /\ Frozen
<1>. DEFINE d == at[t].doc
            p == [op |-> "validate", by |-> at[t].by, doc |-> d,
                  copy |-> [row'[d] EXCEPT !.store = at[t].store]]
<1>1. at[t].op = "window"
  BY DEF ResetStatus, At
<1>2. d \in Docs /\ row[d].there
  BY <1>1, KnowsItsDocument
<1>3. posted[d] = << >> /\ at[t].store = row[d].store
  BY <1>1 DEF InOrder, UpToDate
<1>4. row' = [row EXCEPT ![d].status = "draft"] /\ Goto(t, p) /\ posted' = posted
  BY <1>2 DEF ResetStatus
<1>5. /\ row'[d] \in Row /\ row'[d].there /\ row'[d].status = "draft"
      /\ row'[d].store = row[d].store
      /\ \A e \in Docs \ {d} : row'[e] = row[e]
  BY <1>2, <1>4, StatusSaved DEF Statuses, InOrder, Typed
<1>6. [row'[d] EXCEPT !.store = at[t].store] = row'[d]
  BY <1>3, <1>5 DEF Row
<1>7. at'[t] = p
  BY <1>4, GoesTo DEF InOrder
<1>8. UpToDate(p, row', posted') /\ p.op # "window"
  BY <1>5, <1>6 DEF UpToDate, Fetched
<1>9. Accounts(row'[d], posted'[d])
  BY <1>3, <1>4, <1>5 DEF Accounts
<1>. HIDE DEF p
<1>. QED
  BY <1>2, <1>3, <1>4, <1>5, <1>7, <1>8, <1>9, OneDocument

LEMMA DeleteOrRejectInOrder ==
  ASSUME OneAtATime, InOrder, Typed', NEW t \in Slots, Delete(t) \/ Reject(t)
  PROVE  InOrder' /\ Frozen
<1>. DEFINE d == at[t].doc
<1>1. /\ at[t].op \in {"delete", "reject"} /\ ~At(t, "window") /\ ~Refused(t)
      /\ Goto(t, Idle) /\ posted' = posted
  BY DEF Delete, Reject, At
<1>2. d \in Docs /\ row[d].there /\ at[t].copy = row[d]
  BY <1>1, KnowsItsDocument DEF InOrder, UpToDate, Fetched
<1>3. row[d].status # "applied"
  BY <1>1, <1>2 DEF Refused
<1>4. posted[d] = << >>
  BY <1>1, <1>3, KnowsItsDocument DEF Fetched
<1>5. \A e \in Docs \ {d} : row'[e] = row[e]
  BY DEF Delete, Reject, InOrder, Typed, TypeOK
<1>6. Accounts(row'[d], posted'[d])
  <2>1. CASE Delete(t)
    BY <1>1, <1>2, <1>4, <2>1 DEF Delete, Accounts, Gone, InOrder, Typed, TypeOK
  <2>2. CASE Reject(t)
    <3>1. row' = [row EXCEPT ![d].status = "rejected"]
      BY <2>2 DEF Reject
    <3>2. row'[d].status = "rejected"
      BY <1>2, <3>1, StatusSaved DEF Statuses, InOrder, Typed
    <3>. QED
      BY <1>1, <1>4, <3>2 DEF Accounts
  <2>. QED
    BY <2>1, <2>2
<1>7. at'[t] = Idle /\ Idle.op # "window"
  BY <1>1, GoesTo DEF InOrder, Idle
<1>. QED
  BY <1>1, <1>2, <1>4, <1>5, <1>6, <1>7, IdleIsUpToDate, OneDocument

LEMMA ManyInOrder ==
  ASSUME OneAtATime, InOrder, Typed', NEW t \in Slots, at'[t] = Idle, ~At(t, "window"),
         \A d \in Docs : \/ row'[d] = row[d] /\ posted'[d] = posted[d]
                         \/ posted[d] = << >> /\ Accounts(row'[d], posted'[d])
  PROVE  InOrder' /\ Frozen
<1>1. \A d \in Docs : Accounts(row[d], posted[d])
  BY DEF InOrder, InWindow, OneAtATime
<1>2. \A d \in Docs : Accounts(row'[d], posted'[d])
  BY <1>1
<1>3. (\A u \in Slots : UpToDate(at[u], row, posted))'
  <2>1. \A u \in Slots : UpToDate(at'[u], row', posted')
    BY IdleIsUpToDate DEF OneAtATime
  <2>. QED
    BY <2>1 DEF UpToDate
<1>4. (\A d \in Docs : ~InWindow(d) => Accounts(row[d], posted[d]))'
  BY <1>2 DEF Accounts
<1>. QED
  BY <1>3, <1>4 DEF InOrder, Frozen

LEMMA ApproveAllInOrder ==
  ASSUME OneAtATime, InOrder, Typed', NEW t \in Slots, ApproveAll(t)
  PROVE  InOrder' /\ Frozen
<1>. DEFINE copies == at[t].copies
            u == at[t].by
<1>1. at[t].op = "approving" /\ ~At(t, "window") /\ at'[t] = Idle
  BY GoesTo DEF ApproveAll, At, InOrder
<1>2. CASE ~\A d \in DOMAIN copies : copies[d].status = "draft"
  BY <1>1, <1>2, ManyInOrder DEF ApproveAll
<1>3. CASE \A d \in DOMAIN copies : copies[d].status = "draft"
  <2>1. /\ u \in Users /\ DOMAIN copies \subseteq Docs
        /\ \A d \in DOMAIN copies : row[d].there /\ copies[d] = row[d] /\ row[d] \in Row
    BY <1>1, PlaceFields, RowFields DEF InOrder, Typed, TypeOK, UpToDate
  <2>2. ASSUME NEW d \in Docs
        PROVE  \/ row'[d] = row[d] /\ posted'[d] = posted[d]
               \/ posted[d] = << >> /\ Accounts(row'[d], posted'[d])
    <3>1. CASE d \notin DOMAIN copies
      BY <1>3, <3>1 DEF ApproveAll
    <3>2. CASE d \in DOMAIN copies
      <4>1. posted[d] = << >>
        BY <1>1, <1>3, <2>1, <3>2 DEF InOrder, InWindow, OneAtATime, Accounts
      <4>2. /\ row'[d] = [row[d] EXCEPT !.status = "applied"]
            /\ posted'[d] = Append(<< >>, [lines |-> row[d].lines, store |-> row[d].store,
                                           by |-> u])
        BY <1>3, <2>1, <3>2, <4>1 DEF ApproveAll
      <4>3. posted'[d] = <<[lines |-> row[d].lines, store |-> row[d].store, by |-> u]>>
        BY <4>2
      <4>4. /\ row'[d].lines = row[d].lines /\ row'[d].store = row[d].store
        BY <2>1, <3>2, <4>2 DEF Row
      <4>5. Accounts(row'[d], posted'[d])
        <5>1. posted'[d] = <<[lines |-> row'[d].lines, store |-> row'[d].store, by |-> u]>>
          BY <4>3, <4>4
        <5>2. row'[d].there /\ row'[d].status = "applied"
          BY <2>1, <3>2, <4>2 DEF Row
        <5>. QED
          BY <2>1, <5>1, <5>2 DEF Accounts
      <4>. QED
        BY <4>1, <4>5
    <3>. QED
      BY <3>1, <3>2
  <2>. QED
    BY <1>1, <2>2, ManyInOrder
<1>. QED
  BY <1>2, <1>3

LEMMA DeleteManyInOrder ==
  ASSUME OneAtATime, InOrder, Typed', NEW t \in Slots, NEW u \in Users,
         NEW k \in Kinds \ {"request"}, NEW documents \in SUBSET Deletable(u, k),
         DeleteMany(t, u, k, documents)
  PROVE  InOrder' /\ Frozen
<1>1. at'[t] = Idle /\ ~At(t, "window")
  BY DEF DeleteMany, Begins, At, Idle
<1>2. ASSUME NEW d \in Docs
      PROVE  \/ row'[d] = row[d] /\ posted'[d] = posted[d]
             \/ posted[d] = << >> /\ Accounts(row'[d], posted'[d])
  <2>1. CASE d \notin documents
    BY <2>1 DEF DeleteMany
  <2>2. CASE d \in documents
    <3>1. row[d].status # "applied"
      BY <2>2 DEF Deletable
    <3>2. posted[d] = << >>
      BY <1>1, <3>1 DEF InOrder, InWindow, OneAtATime, Accounts
    <3>. QED
      BY <2>2, <3>2 DEF DeleteMany, Accounts, Gone
  <2>. QED
    BY <2>1, <2>2
<1>. QED
  BY <1>1, <1>2, ManyInOrder

LEMMA GivesUpInOrder ==
  ASSUME OneAtATime, NoHalfEdits, InOrder, Typed', NEW t \in Slots,
         Refuse(t) \/ RefusePosting(t) \/ RefuseWrite(t) \/ Crash(t)
  PROVE  InOrder' /\ Frozen
<1>1. Goto(t, Idle) /\ UNCHANGED <<row, posted>>
  BY DEF Refuse, RefusePosting, RefuseWrite, Crash
<1>2. at'[t] = Idle
  BY <1>1, GoesTo DEF InOrder
<1>3. ~At(t, "window")
  <2>1. ~(At(t, "window") /\ Crash(t))
    <3> SUFFICES ASSUME At(t, "window"), Crash(t) PROVE FALSE
      OBVIOUS
    <3>1. Working(t) = {at[t].doc} /\ Kind[at[t].doc] \in {"transfer", "purchase"}
      BY DEF At, Working, InOrder, UpToDate
    <3>. QED
      BY <3>1 DEF Crash, NoHalfEdits
  <2>. QED
    BY <2>1 DEF Refuse, Refused, RefusePosting, RefuseWrite, At
<1>. QED
  BY <1>1, <1>2, <1>3, ManyInOrder

LEMMA StepInOrder ==
  ASSUME OneAtATime, NoHalfEdits, InOrder, [Next]_vars
  PROVE  InOrder' /\ (Frozen \/ UNCHANGED vars)
<1>1. Typed'
  BY TypedStep DEF InOrder
<1>2. CASE UNCHANGED vars
  BY <1>1, <1>2 DEF InOrder, UpToDate, InWindow, At, Accounts, vars
<1>3. CASE Next
  <2>1. ASSUME NEW t \in Slots, NEW d \in Docs, NEW articles \in Payloads, NEW status \in Asked,
               NEW u \in Users, NEW s \in Stores, Create(t, u, d, articles, status, s)
        PROVE  InOrder' /\ Frozen
    BY <1>1, <2>1, CreateInOrder
    DEF Create, CreateTransfer, CreatePurchase, CreateInventory, AskForStock
  <2>2. ASSUME NEW t \in Slots, NEW u \in Users, NEW operation \in Fetched, NEW d \in Docs,
               Fetch(t, u, operation, d)
        PROVE  InOrder' /\ Frozen
    BY <1>1, <2>2, BeginsInOrder
  <2>3. ASSUME NEW t \in Slots, NEW u \in Users, NEW requests \in SUBSET Docs,
               ReadRequests(t, u, requests)
        PROVE  InOrder' /\ Frozen
    <3>1. PICK d \in requests : d \in Docs
      BY <2>3 DEF ReadRequests
    <3>2. "validate" \in Fetched
      BY DEF Fetched
    <3>. QED
      BY <1>1, <2>3, <3>1, <3>2, BeginsInOrder
  <2>. QED
    BY <1>1, <1>3, <2>1, <2>2, <2>3, NextCases, WriteInOrder, LinesReadInOrder, PostInOrder,
       ApproveAllInOrder, ResetStatusInOrder, DeleteOrRejectInOrder, DeleteManyInOrder,
       GivesUpInOrder
<1>. QED
  BY <1>2, <1>3

LEMMA InOrderAtFirst == Init => InOrder
<1> SUFFICES ASSUME Init PROVE InOrder
  OBVIOUS
<1>1. \A t \in Slots : at[t] = Idle
  BY DEF Init
<1>. QED
  BY <1>1, TypedAtFirst, IdleIsUpToDate DEF Init, InOrder, InWindow, Accounts, New

(* One request at a time, and no worker dying in the middle of an edit of  *)
(* a transfer or a purchase: whatever is created, edited, moved to another *)
(* store, posted, approved with others, rejected or deleted, a document    *)
(* nobody is working on is applied exactly when the movements of the lines *)
(* it holds were made, once, in its store.                                 *)
THEOREM AppliedMeansPosted ==
  ASSUME OneAtATime, NoHalfEdits
  PROVE  Spec => []AppliedIffPosted
<1>1. InOrder /\ [Next]_vars => InOrder'
  BY StepInOrder
<1>2. InOrder => AppliedIffPosted
  BY DEF InOrder, AppliedIffPosted, Quiet, InWindow, Working, At, Accounts
<1>. QED
  BY <1>1, <1>2, InOrderAtFirst, PTL DEF Spec

(* Under the same conditions no step changes a document whose movements    *)
(* were made, and none makes them again: the status each view tests is the *)
(* one it has.                                                             *)
THEOREM PostedStaysFrozen ==
  ASSUME OneAtATime, NoHalfEdits
  PROVE  Spec => PostedIsFrozen
<1>1. InOrder /\ [Next]_vars => InOrder'
  BY StepInOrder
<1>2. InOrder /\ [Next]_vars =>
        [\A d \in Docs : posted[d] # << >> => row'[d] = row[d] /\ posted'[d] = posted[d]]_vars
  BY StepInOrder DEF Frozen
<1>. QED
  BY <1>1, <1>2, InOrderAtFirst, PTL DEF Spec, PostedIsFrozen

=============================================================================
