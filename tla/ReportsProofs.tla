---------------------------- MODULE ReportsProofs ----------------------------
(***************************************************************************)
(* Proofs about Reports, for any users, stores, rows and requests at once: *)
(* the tables keep their types, an expense is changed or deleted by nobody *)
(* but those who manage it, and the parts of a report add up to the whole. *)
(***************************************************************************)
EXTENDS Reports, FiniteSetTheorems, SequenceTheorems, WellFoundedInduction, TLAPS

(* A request that is going to save or delete expenses holds copies of rows *)
(* that were there, all of them in stores its user managed, and saves a    *)
(* row that goes to such a store.                                          *)
CopiesAreManaged ==
  \A t \in Slots :
    /\ at[t].op \in {"save", "delete"} =>
         /\ DOMAIN at[t].read \subseteq 1..issued
         /\ \A r \in DOMAIN at[t].read : at[t].read[r].store \in at[t].managed
    /\ at[t].op = "save" => at[t].row \in Row /\ at[t].row.store \in at[t].managed

IInv == TypeOK /\ CopiesAreManaged

(* A row that is inserted gets a key no row has; the others stay.          *)
LEMMA Inserted ==
  ASSUME TypeOK, NEW row \in Row, Insert(row)
  PROVE  /\ issued' \in 0..MaxRows /\ 1..issued \subseteq 1..issued'
         /\ DOMAIN rows' = DOMAIN rows \cup {issued'} /\ DOMAIN rows' \subseteq 1..issued'
         /\ rows'[issued'] = row
         /\ \A r \in DOMAIN rows : r # issued' /\ rows'[r] = rows[r]
<1>1. issued' = issued + 1 /\ issued < MaxRows /\ MaxRows \in Nat /\ issued \in 0..MaxRows
  BY ReportsAssumption DEF ReportsAssumption, Insert, TypeOK
<1>2. \A r \in DOMAIN rows : r \in 1..issued
  BY DEF TypeOK
<1>3. rows' = [r \in DOMAIN rows \cup {issued'} |-> IF r \in {issued'} THEN row ELSE rows[r]]
  BY DEF Insert, Put
<1>. QED
  BY <1>1, <1>2, <1>3

(* A place a request goes to leaves the copies of the others as they are.  *)
LEMMA Moved ==
  ASSUME CopiesAreManaged, NEW t, NEW place, NEW writing, Goto(t, place, writing),
         1..issued \subseteq 1..issued',
         place.op \in {"save", "delete"} =>
           /\ DOMAIN place.read \subseteq 1..issued'
           /\ \A r \in DOMAIN place.read : place.read[r].store \in place.managed,
         place.op = "save" => place.row \in Row /\ place.row.store \in place.managed
  PROVE  CopiesAreManaged'
<1> SUFFICES ASSUME NEW s \in Slots
             PROVE  /\ at'[s].op \in {"save", "delete"} =>
                         /\ DOMAIN at'[s].read \subseteq 1..issued'
                         /\ \A r \in DOMAIN at'[s].read : at'[s].read[r].store \in at'[s].managed
                    /\ at'[s].op = "save" => at'[s].row \in Row /\ at'[s].row.store \in at'[s].managed
  BY DEF CopiesAreManaged
<1>1. CASE s = t
  <2>1. at'[s] = place
    BY <1>1 DEF Goto
  <2>. QED
    BY <2>1
<1>2. CASE s # t /\ At(s, "dashboard") /\ writing
  <2>1. at'[s] = [at[s] EXCEPT !.quiet = FALSE]
    BY <1>2 DEF Goto
  <2>2. at'[s].op = "dashboard"
    BY <1>2, <2>1 DEF At
  <2>. QED
    BY <2>2
<1>3. CASE s # t /\ ~(At(s, "dashboard") /\ writing)
  <2>1. at'[s] = at[s]
    BY <1>3 DEF Goto
  <2>. QED
    BY <2>1 DEF CopiesAreManaged
<1>. QED
  BY <1>1, <1>2, <1>3

(* The invariant holds at first.                                           *)
LEMMA InitInvariant == Init => IInv
<1> SUFFICES ASSUME Init PROVE IInv
  OBVIOUS
<1>. USE ReportsAssumption DEF Init, ReportsAssumption
<1>1. TypeOK
  BY DEF TypeOK
<1>2. CopiesAreManaged
  BY DEF CopiesAreManaged, Idle
<1>. QED
  BY <1>1, <1>2 DEF IInv

(* A manager of a store is recorded as one in the request.                 *)
LEMMA ManagersAreRecorded ==
  ASSUME TypeOK, NEW u \in Users, NEW s, Manages(u, s)
  PROVE  s \in Managed(u)
BY DEF TypeOK, Manages, Managed

(* A change of a row is a row.                                             *)
LEMMA ChangedType ==
  ASSUME NEW row \in Row, NEW new \in Changed(row)
  PROVE  new \in Row
<1>0. Amounts \subseteq Int
  BY ReportsAssumption DEF ReportsAssumption
<1>1. \A s \in Stores : [row EXCEPT !.store = s] \in Row
  BY DEF Row
<1>2. \A x \in Amounts : [row EXCEPT !.amount = x] \in Row
  BY <1>0 DEF Row
<1>3. \A d \in Days : [row EXCEPT !.day = d] \in Row
  BY DEF Row
<1>. QED
  BY <1>1, <1>2, <1>3 DEF Changed

(* Every insertion keeps the invariant.                                    *)
LEMMA InsertKeeps ==
  ASSUME IInv, NEW row \in Row, Insert(row), Goto(Anyone, Idle, TRUE),
         UNCHANGED <<rights, open>>
  PROVE  IInv'
<1>1. TypeOK /\ CopiesAreManaged
  BY DEF IInv
<1>2. TypeOK'
  BY <1>1, Inserted DEF TypeOK
<1>3. Idle.op \notin {"save", "delete"}
  BY DEF Idle
<1>4. CopiesAreManaged'
  BY <1>1, <1>3, Inserted, Moved
<1>. QED
  BY <1>2, <1>4 DEF IInv

(* Every step keeps the invariant.                                         *)
LEMMA NextInvariant == IInv /\ [Next]_vars => IInv'
<1> SUFFICES ASSUME IInv, [Next]_vars PROVE IInv'
  OBVIOUS
<1>. TypeOK /\ CopiesAreManaged
  BY DEF IInv
<1>. issued \in Nat /\ 1..issued \subseteq 1..issued /\ Idle.op \notin {"save", "delete"}
  BY DEF TypeOK, Idle
<1>. USE ReportsAssumption DEF ReportsAssumption
<1>1. ASSUME NEW u \in Users, NEW s \in Stores, NEW day \in Days, NEW x \in Amounts,
             AddExpense(u, s, day, x)
      PROVE  IInv'
  <2>. DEFINE row == [kind |-> "expense", store |-> s, day |-> day, amount |-> x, counted |-> TRUE]
  <2>1. row \in Row
    BY DEF Row, Kinds
  <2>. QED
    BY <1>1, <2>1, InsertKeeps DEF AddExpense
<1>2. ASSUME NEW t \in Slots, NEW u \in Users, NEW r \in Of("expense"),
             NEW row \in Changed(rows[r]), FetchExpense(t, u, r, row)
      PROVE  IInv'
  <2>. DEFINE place == [op |-> "save", managed |-> Managed(u),
                        read |-> [x \in {r} |-> rows[x]], row |-> row]
  <2>1. r \in DOMAIN rows /\ rows[r] \in Row /\ r \in 1..issued
    BY DEF Of, TypeOK
  <2>2. row \in Row
    BY <2>1, ChangedType
  <2>3. row.store \in Managed(u) /\ rows[r].store \in Managed(u)
    BY <1>2, ManagersAreRecorded DEF FetchExpense
  <2>4. CopiesAreManaged'
    BY <1>2, <2>1, <2>2, <2>3, Moved DEF FetchExpense
  <2>5. TypeOK'
    BY <1>2 DEF FetchExpense, TypeOK
  <2>. QED
    BY <2>4, <2>5 DEF IInv
<1>3. ASSUME NEW t \in Slots, NEW u \in Users, NEW named \in SUBSET Of("expense"),
             FetchDoomed(t, u, named)
      PROVE  IInv'
  <2>. DEFINE ids == {r \in named : Deletable(u, r)}
              place == [op |-> "delete", managed |-> Managed(u), read |-> [r \in ids |-> rows[r]]]
  <2>1. \A r \in ids : r \in DOMAIN rows /\ r \in 1..issued /\ rows[r].store \in Stores
    BY DEF Of, TypeOK, Row
  <2>2. \A r \in ids : rows[r].store \in Managed(u)
    BY <2>1 DEF Deletable, Managed
  <2>3. Goto(t, place, FALSE) /\ UNCHANGED <<rows, issued, rights, open>>
    BY <1>3 DEF FetchDoomed
  <2>4. CopiesAreManaged'
    BY <2>1, <2>2, <2>3, Moved
  <2>5. TypeOK'
    BY <2>3 DEF TypeOK
  <2>. QED
    BY <2>4, <2>5 DEF IInv
<1>4. ASSUME NEW t \in Slots, SaveExpense(t) PROVE IInv'
  <2>1. DOMAIN at[t].read \subseteq 1..issued /\ at[t].row \in Row
    BY <1>4 DEF SaveExpense, At, CopiesAreManaged
  <2>2. TypeOK'
    BY <1>4, <2>1 DEF SaveExpense, Put, TypeOK
  <2>3. CopiesAreManaged'
    BY <1>4, Moved DEF SaveExpense
  <2>. QED
    BY <2>2, <2>3 DEF IInv
<1>5. ASSUME NEW t \in Slots, DeleteExpenses(t) PROVE IInv'
  <2>1. TypeOK'
    BY <1>5 DEF DeleteExpenses, TypeOK
  <2>2. CopiesAreManaged'
    BY <1>5, Moved DEF DeleteExpenses
  <2>. QED
    BY <2>1, <2>2 DEF IInv
<1>6. ASSUME NEW kind \in Kinds, NEW s \in Stores, NEW day \in Days, NEW x \in Amounts,
             Enter(kind, s, day, x)
      PROVE  IInv'
  <2>. DEFINE row == [kind |-> kind, store |-> s, day |-> day, amount |-> x,
                      counted |-> kind # "purchase"]
  <2>1. row \in Row
    BY DEF Row
  <2>. QED
    BY <1>6, <2>1, InsertKeeps DEF Enter
<1>7. ASSUME NEW r \in DOMAIN rows, Update(r) PROVE IInv'
  <2>1. rows[r] \in Row /\ DOMAIN rows' = DOMAIN rows
    BY <1>7 DEF Update, TypeOK
  <2>2. [rows[r] EXCEPT !.counted = FALSE] \in Row /\ [rows[r] EXCEPT !.counted = TRUE] \in Row
    BY <2>1 DEF Row
  <2>3. \A d \in {-1, 1} : [rows[r] EXCEPT !.amount = @ + d] \in Row
    <3>1. \A x \in Int : [rows[r] EXCEPT !.amount = x] \in Row
      BY <2>1 DEF Row
    <3>2. rows[r].amount + 1 \in Int /\ rows[r].amount + (-1) \in Int
      BY <2>1 DEF Row
    <3>. QED
      BY <3>1, <3>2
  <2>4. \A q \in DOMAIN rows : rows'[q] \in Row
    BY <1>7, <2>2, <2>3 DEF Update, TypeOK
  <2>5. TypeOK'
    BY <1>7, <2>1, <2>4 DEF Update, TypeOK
  <2>6. CopiesAreManaged'
    BY <1>7, Moved DEF Update
  <2>. QED
    BY <2>5, <2>6 DEF IInv
<1>8. CASE ChangeRights
  <2>1. \A u \in Users : rights[u] \in [sees : SUBSET Stores, manages : SUBSET Stores]
    BY DEF TypeOK
  <2>2. TypeOK'
    <3>1. CASE UNCHANGED open
      BY <1>8, <2>1, <3>1 DEF ChangeRights, TypeOK
    <3>2. CASE UNCHANGED rights
      BY <1>8, <3>2 DEF ChangeRights, TypeOK
    <3>. QED
      BY <1>8, <3>1, <3>2 DEF ChangeRights
  <2>3. CopiesAreManaged'
    BY <1>8 DEF ChangeRights, CopiesAreManaged
  <2>. QED
    BY <2>2, <2>3 DEF IInv
<1>9. ASSUME NEW t \in Slots, NEW place, place.op \notin {"save", "delete"}, Goto(t, place, FALSE),
             UNCHANGED <<rows, issued, rights, open>>
      PROVE  IInv'
  <2>1. CopiesAreManaged'
    BY <1>9, Moved
  <2>2. TypeOK'
    BY <1>9 DEF TypeOK
  <2>. QED
    BY <2>1, <2>2 DEF IInv
<1>10. ASSUME NEW t \in Slots, NEW u \in Users, NEW s \in Stores \cup {NoStore},
              NEW period \in Periods, BeginDashboard(t, u, s, period)
       PROVE  IInv'
  BY <1>9, <1>10 DEF BeginDashboard
<1>11. ASSUME NEW t \in Slots, ReadFigure(t) PROVE IInv'
  <2>1. PICK figure : Goto(t, [at[t] EXCEPT !.figures = Append(@, figure)], FALSE)
    BY <1>11 DEF ReadFigure
  <2>. DEFINE place == [at[t] EXCEPT !.figures = Append(@, figure)]
  <2>2. place.op \notin {"save", "delete"}
    BY <1>11 DEF ReadFigure, At
  <2>3. Goto(t, place, FALSE) /\ UNCHANGED <<rows, issued, rights, open, writes, reports>>
    BY <1>11, <2>1 DEF ReadFigure
  <2>. QED
    BY <1>9, <2>2, <2>3
<1>12. ASSUME NEW t \in Slots, AnswerDashboard(t) PROVE IInv'
  BY <1>9, <1>12 DEF AnswerDashboard
<1>13. CASE UNCHANGED vars
  BY <1>13 DEF vars, IInv, TypeOK, CopiesAreManaged
<1>. QED
  BY <1>1, <1>2, <1>3, <1>4, <1>5, <1>6, <1>7, <1>8, <1>10, <1>11, <1>12, <1>13
     DEF Next, ExpenseDesk, Elsewhere, Dashboards

(* The tables keep their types, keys are given out once, a row that is     *)
(* saved again after its deletion keeps its own.                           *)
THEOREM ReportsTypeCorrect == Spec => []TypeOK
<1>1. IInv => TypeOK
  BY DEF IInv
<1>. QED
  BY <1>1, InitInvariant, NextInvariant, PTL DEF Spec

-----------------------------------------------------------------------------
(* What a step may do to an expense.                                       *)
ByAManager ==
  \A r \in Of("expense") :
    r \notin DOMAIN rows' \/ rows'[r] # rows[r] =>
      \E t \in Slots :
        /\ at'[t] # at[t] /\ at[t].op \in {"save", "delete"} /\ r \in DOMAIN at[t].read
        /\ rows[r] = at[t].read[r] => rows[r].store \in at[t].managed
        /\ r \in DOMAIN rows' => rows'[r].store \in at[t].managed

(* A step that leaves the expenses alone does nothing to them.             *)
LEMMA Untouched ==
  ASSUME \A r \in Of("expense") : r \in DOMAIN rows' /\ rows'[r] = rows[r]
  PROVE  ByAManager
BY DEF ByAManager

(* Only saves and deletions from copies touch expenses, and the copies are *)
(* of managed rows.                                                        *)
LEMMA StepsByManagers == IInv /\ [Next]_vars => ByAManager
<1> SUFFICES ASSUME IInv, [Next]_vars PROVE ByAManager
  OBVIOUS
<1>. TypeOK /\ CopiesAreManaged
  BY DEF IInv
<1>1. CASE UNCHANGED rows
  BY <1>1, Untouched DEF Of
<1>2. ASSUME NEW row \in Row, Insert(row) PROVE ByAManager
  BY <1>2, Inserted, Untouched DEF Of
<1>3. ASSUME NEW u \in Users, NEW s \in Stores, NEW day \in Days, NEW x \in Amounts,
             AddExpense(u, s, day, x)
      PROVE  ByAManager
  <2>1. [kind |-> "expense", store |-> s, day |-> day, amount |-> x, counted |-> TRUE] \in Row
    BY ReportsAssumption DEF ReportsAssumption, Row, Kinds
  <2>. QED
    BY <1>2, <1>3, <2>1 DEF AddExpense
<1>4. ASSUME NEW kind \in Kinds, NEW s \in Stores, NEW day \in Days, NEW x \in Amounts,
             Enter(kind, s, day, x)
      PROVE  ByAManager
  <2>1. [kind |-> kind, store |-> s, day |-> day, amount |-> x, counted |-> kind # "purchase"] \in Row
    BY ReportsAssumption DEF ReportsAssumption, Row
  <2>. QED
    BY <1>2, <1>4, <2>1 DEF Enter
<1>5. ASSUME NEW r \in DOMAIN rows, Update(r) PROVE ByAManager
  <2>1. rows[r].kind # "expense" /\ DOMAIN rows' = DOMAIN rows
    BY <1>5 DEF Update, Of
  <2>2. \A q \in DOMAIN rows \ {r} : rows'[q] = rows[q]
    BY <1>5 DEF Update
  <2>. QED
    BY <2>1, <2>2, Untouched DEF Of
<1>6. ASSUME NEW t \in Slots, SaveExpense(t) PROVE ByAManager
  <2>1. at'[t] = Idle /\ at[t].op = "save"
    BY <1>6 DEF SaveExpense, Goto, At
  <2>2. at'[t] # at[t]
    BY <2>1 DEF Idle
  <2>3. \A r \in DOMAIN rows : r \in DOMAIN rows'
    BY <1>6 DEF SaveExpense, Put
  <2>4. \A r \in DOMAIN rows \ DOMAIN at[t].read : rows'[r] = rows[r]
    BY <1>6 DEF SaveExpense, Put
  <2>5. \A r \in DOMAIN at[t].read : rows'[r].store \in at[t].managed
    BY <1>6, <2>1 DEF SaveExpense, Put, CopiesAreManaged
  <2>6. \A r \in DOMAIN at[t].read : at[t].read[r].store \in at[t].managed
    BY <2>1 DEF CopiesAreManaged
  <2>. QED
    BY <2>1, <2>2, <2>3, <2>4, <2>5, <2>6 DEF ByAManager, Of
<1>7. ASSUME NEW t \in Slots, DeleteExpenses(t) PROVE ByAManager
  <2>1. at'[t] = Idle /\ at[t].op = "delete"
    BY <1>7 DEF DeleteExpenses, Goto, At
  <2>2. at'[t] # at[t]
    BY <2>1 DEF Idle
  <2>3. \A r \in DOMAIN rows : r \in DOMAIN rows' <=> r \notin DOMAIN at[t].read
    BY <1>7 DEF DeleteExpenses
  <2>4. \A r \in DOMAIN rows' : rows'[r] = rows[r]
    BY <1>7 DEF DeleteExpenses
  <2>5. \A r \in DOMAIN at[t].read : at[t].read[r].store \in at[t].managed
    BY <2>1 DEF CopiesAreManaged
  <2>. QED
    BY <2>1, <2>2, <2>3, <2>4, <2>5 DEF ByAManager, Of
<1>8. ASSUME NEW t \in Slots,
             \/ \E u \in Users, r \in Of("expense") :
                  \E row \in Changed(rows[r]) : FetchExpense(t, u, r, row)
             \/ \E u \in Users, named \in SUBSET Of("expense") : FetchDoomed(t, u, named)
             \/ \E u \in Users, s \in Stores \cup {NoStore}, period \in Periods :
                  BeginDashboard(t, u, s, period)
             \/ ReadFigure(t) \/ AnswerDashboard(t)
      PROVE  UNCHANGED rows
  BY <1>8 DEF FetchExpense, FetchDoomed, BeginDashboard, ReadFigure, AnswerDashboard
<1>9. CASE ChangeRights \/ UNCHANGED vars
  BY <1>1, <1>9 DEF ChangeRights, vars
<1>. QED
  BY <1>1, <1>3, <1>4, <1>5, <1>6, <1>7, <1>8, <1>9 DEF Next, ExpenseDesk, Elsewhere, Dashboards

(* Expenses are changed and deleted on behalf of their managers only, and  *)
(* go where these manage too.                                              *)
THEOREM ExpensesManaged == Spec => ExpensesStayManaged
BY InitInvariant, NextInvariant, StepsByManagers, PTL DEF Spec, ExpensesStayManaged, ByAManager
-----------------------------------------------------------------------------
(* Sums.                                                                   *)

(* A set with zero and the successor of each of its numbers has them all.  *)
LEMMA NaturalsAreAll ==
  ASSUME NEW T, 0 \in T, \A n \in Nat : n \in T => n + 1 \in T
  PROVE  Nat \subseteq T
<1>. SUFFICES ASSUME Nat \ T # {} PROVE FALSE
  OBVIOUS
<1>. DEFINE Below == OpToRel(<, Nat)
<1>1. IsWellFoundedOn(Below, Nat)
  BY NatLessThanWellFounded
<1>2. \A x, y \in Nat : x < y => <<x, y>> \in Below
  BY DEF OpToRel
<1>. HIDE DEF Below
<1>3. PICK n \in Nat \ T : \A m \in Nat \ T : ~ (<<m, n>> \in Below)
  BY <1>1, WFMin
<1>4. n # 0 /\ n - 1 \in Nat /\ n - 1 < n
  OBVIOUS
<1>5. n - 1 \in T
  BY <1>2, <1>3, <1>4
<1>. QED
  BY <1>4, <1>5

Picked(s) == CHOOSE x \in s : TRUE

(* it gives the sum of w over each part of S, as MapThenSumSet adds it up. *)
AddsUp(w, S, it) ==
  it = [s \in SUBSET S |-> IF s = {} THEN 0 ELSE w[Picked(s)] + it[s \ {Picked(s)}]]

SumOver(w, S) == (CHOOSE it : AddsUp(w, S, it))[S]

(* A part of a finite set, without one of its elements.                    *)
LEMMA OneLess ==
  ASSUME NEW s, IsFiniteSet(s), NEW x \in s
  PROVE  /\ IsFiniteSet(s \ {x}) /\ Cardinality(s \ {x}) = Cardinality(s) - 1
         /\ Cardinality(s) \in Nat \ {0} /\ Cardinality(s \ {x}) \in Nat
         /\ Cardinality(s \ {x}) < Cardinality(s)
<1>1. /\ IsFiniteSet(s \ {x}) /\ Cardinality(s \ {x}) = Cardinality(s) - 1
      /\ Cardinality(s) \in Nat /\ Cardinality(s \ {x}) \in Nat
  BY FS_RemoveElement, FS_CardinalityType
<1>. QED
  BY <1>1

(* What holds of a set when it holds of every smaller part holds of all:   *)
(* said of a set Good of finite parts of S.                                *)
LEMMA SmallerFirst ==
  ASSUME NEW S, IsFiniteSet(S), NEW Good,
         \A s \in SUBSET S :
           (\A x \in SUBSET S : Cardinality(x) < Cardinality(s) => x \in Good) => s \in Good
  PROVE  SUBSET S \subseteq Good
<1>. DEFINE T == {n \in Nat : \A s \in SUBSET S : Cardinality(s) < n => s \in Good}
<1>1. \A s \in SUBSET S : Cardinality(s) \in Nat
  BY FS_Subset, FS_CardinalityType
<1>2. 0 \in T
  BY <1>1
<1>3. ASSUME NEW n \in Nat, n \in T PROVE n + 1 \in T
  <2>1. ASSUME NEW s \in SUBSET S, Cardinality(s) < n + 1 PROVE s \in Good
    <3>1. \A x \in SUBSET S : Cardinality(x) < Cardinality(s) => Cardinality(x) < n
      BY <1>1, <2>1
    <3>. QED
      BY <1>3, <3>1
  <2>. QED
    BY <2>1
<1>. HIDE DEF T
<1>4. Nat \subseteq T
  BY <1>2, <1>3, NaturalsAreAll
<1>5. ASSUME NEW s \in SUBSET S PROVE s \in Good
  <2>1. Cardinality(s) + 1 \in T /\ Cardinality(s) < Cardinality(s) + 1
    BY <1>1, <1>4
  <2>. QED
    BY <2>1 DEF T
<1>. QED
  BY <1>5

(* There is such a function.                                               *)
LEMMA SumsExist ==
  ASSUME NEW S, IsFiniteSet(S), NEW w
  PROVE  \E it : AddsUp(w, S, it)
<1>. DEFINE Small(n) == {s \in SUBSET S : Cardinality(s) <= n}
            Value(it, s) == IF s = {} THEN 0 ELSE w[Picked(s)] + it[s \ {Picked(s)}]
            Upto(n, it) == it = [s \in Small(n) |-> Value(it, s)]
            T == {n \in Nat : \E it : Upto(n, it)}
<1>1. \A s \in SUBSET S : IsFiniteSet(s) /\ Cardinality(s) \in Nat
  BY FS_Subset, FS_CardinalityType
<1>2. ASSUME NEW s \in SUBSET S, s # {}
      PROVE  /\ Picked(s) \in s /\ s \ {Picked(s)} \in SUBSET S
             /\ Cardinality(s \ {Picked(s)}) = Cardinality(s) - 1
  <2>1. Picked(s) \in s
    BY <1>2 DEF Picked
  <2>. QED
    BY <1>1, <2>1, OneLess
<1>3. \A s \in SUBSET S : Cardinality(s) = 0 <=> s = {}
  BY <1>1, FS_EmptySet
<1>4. 0 \in T
  <2>. DEFINE it == [s \in Small(0) |-> 0]
  <2>1. \A s \in Small(0) : s = {}
    BY <1>1, <1>3
  <2>2. it = [s \in Small(0) |-> Value(it, s)]
    BY <2>1
  <2>. QED
    BY <2>2
<1>5. ASSUME NEW n \in Nat, n \in T PROVE n + 1 \in T
  <2>1. PICK it : Upto(n, it)
    BY <1>5
  <2>. DEFINE more == [s \in Small(n + 1) |-> IF s \in Small(n) THEN it[s] ELSE Value(it, s)]
  <2>2. ASSUME NEW s \in Small(n + 1), s # {}
        PROVE  s \ {Picked(s)} \in Small(n) /\ s \ {Picked(s)} \in Small(n + 1)
    BY <1>1, <1>2, <2>2
  <2>3. \A s \in Small(n) : it[s] = Value(it, s)
    BY <2>1
  <2>4. ASSUME NEW s \in Small(n + 1) PROVE more[s] = Value(more, s)
    <3>1. more[s] = Value(it, s)
      BY <2>3
    <3>2. s # {} => more[s \ {Picked(s)}] = it[s \ {Picked(s)}]
      BY <2>2
    <3>. QED
      BY <3>1, <3>2
  <2>5. Upto(n + 1, more)
    BY <2>4
  <2>. HIDE DEF more, Upto
  <2>. QED
    BY <2>5
<1>6. Cardinality(S) \in T
  BY <1>1, <1>4, <1>5, NaturalsAreAll
<1>7. PICK it : Upto(Cardinality(S), it)
  BY <1>6
<1>8. Small(Cardinality(S)) = SUBSET S
  BY <1>1, FS_Subset
<1>9. AddsUp(w, S, it)
  BY <1>7, <1>8 DEF AddsUp
<1>. QED
  BY <1>9

(* Two such functions are the same on a part they share.                   *)
LEMMA SumsAgree ==
  ASSUME NEW S1, NEW S2, NEW s \in SUBSET S1, s \in SUBSET S2, IsFiniteSet(s),
         NEW w, NEW it1, NEW it2, AddsUp(w, S1, it1), AddsUp(w, S2, it2)
  PROVE  it1[s] = it2[s]
<1>. DEFINE Good == {p \in SUBSET s : it1[p] = it2[p]}
<1>1. ASSUME NEW p \in SUBSET s,
             \A x \in SUBSET s : Cardinality(x) < Cardinality(p) => x \in Good
      PROVE  p \in Good
  <2>1. /\ it1[p] = IF p = {} THEN 0 ELSE w[Picked(p)] + it1[p \ {Picked(p)}]
        /\ it2[p] = IF p = {} THEN 0 ELSE w[Picked(p)] + it2[p \ {Picked(p)}]
    BY DEF AddsUp
  <2>2. CASE p = {}
    BY <2>1, <2>2
  <2>3. CASE p # {}
    <3>1. Picked(p) \in p
      BY <2>3 DEF Picked
    <3>2. IsFiniteSet(p)
      BY FS_Subset
    <3>3. Cardinality(p \ {Picked(p)}) < Cardinality(p) /\ p \ {Picked(p)} \in SUBSET s
      BY <3>1, <3>2, OneLess
    <3>4. it1[p \ {Picked(p)}] = it2[p \ {Picked(p)}]
      BY <1>1, <3>3
    <3>. QED
      BY <2>1, <3>4
  <2>. QED
    BY <2>2, <2>3
<1>. HIDE DEF Good
<1>2. SUBSET s \subseteq Good
  BY <1>1, SmallerFirst
<1>. QED
  BY <1>2 DEF Good

(* A sum is found by taking out the element MapThenSumSet takes out.       *)
LEMMA SumUnfolds ==
  ASSUME NEW S, IsFiniteSet(S), NEW w
  PROVE  SumOver(w, S) = IF S = {} THEN 0 ELSE w[Picked(S)] + SumOver(w, S \ {Picked(S)})
<1>. DEFINE it == CHOOSE f : AddsUp(w, S, f)
            R == S \ {Picked(S)}
            rest == CHOOSE f : AddsUp(w, R, f)
<1>1. AddsUp(w, S, it)
  BY SumsExist
<1>2. IsFiniteSet(R) /\ R \in SUBSET S
  BY FS_Subset
<1>3. AddsUp(w, R, rest)
  BY <1>2, SumsExist
<1>4. SumOver(w, S) = it[S] /\ SumOver(w, R) = rest[R]
  BY DEF SumOver
<1>. HIDE DEF it, rest
<1>5. it[R] = rest[R]
  <2>1. R \in SUBSET R
    OBVIOUS
  <2>. QED
    BY <1>1, <1>2, <1>3, <2>1, SumsAgree, SMTT(60)
<1>6. it[S] = IF S = {} THEN 0 ELSE w[Picked(S)] + it[R]
  BY <1>1 DEF AddsUp
<1>. QED
  BY <1>4, <1>5, <1>6

LEMMA SumsEqual ==
  ASSUME NEW S, IsFiniteSet(S), NEW w1, NEW w2, \A x \in S : w1[x] = w2[x]
  PROVE  SumOver(w1, S) = SumOver(w2, S)
<1>. DEFINE Good == {s \in SUBSET S : SumOver(w1, s) = SumOver(w2, s)}
<1>1. ASSUME NEW s \in SUBSET S,
             \A x \in SUBSET S : Cardinality(x) < Cardinality(s) => x \in Good
      PROVE  s \in Good
  <2>1. IsFiniteSet(s)
    BY FS_Subset
  <2>2. /\ SumOver(w1, s) = IF s = {} THEN 0 ELSE w1[Picked(s)] + SumOver(w1, s \ {Picked(s)})
        /\ SumOver(w2, s) = IF s = {} THEN 0 ELSE w2[Picked(s)] + SumOver(w2, s \ {Picked(s)})
    BY <2>1, SumUnfolds
  <2>3. CASE s = {}
    BY <2>2, <2>3
  <2>4. CASE s # {}
    <3>1. Picked(s) \in s
      BY <2>4 DEF Picked
    <3>2. Cardinality(s \ {Picked(s)}) < Cardinality(s) /\ s \ {Picked(s)} \in SUBSET S
      BY <2>1, <3>1, OneLess
    <3>3. SumOver(w1, s \ {Picked(s)}) = SumOver(w2, s \ {Picked(s)})
      BY <1>1, <3>2
    <3>4. w1[Picked(s)] = w2[Picked(s)]
      BY <3>1
    <3>. QED
      BY <2>2, <3>3, <3>4
  <2>. QED
    BY <2>3, <2>4
<1>. HIDE DEF Good
<1>2. SUBSET S \subseteq Good
  BY <1>1, SmallerFirst
<1>. QED
  BY <1>2 DEF Good

LEMMA SumType ==
  ASSUME NEW S, IsFiniteSet(S), NEW w, \A x \in S : w[x] \in Int
  PROVE  SumOver(w, S) \in Int
<1>. DEFINE Good == {s \in SUBSET S : SumOver(w, s) \in Int}
<1>1. ASSUME NEW s \in SUBSET S,
             \A x \in SUBSET S : Cardinality(x) < Cardinality(s) => x \in Good
      PROVE  s \in Good
  <2>1. IsFiniteSet(s)
    BY FS_Subset
  <2>2. SumOver(w, s) = IF s = {} THEN 0 ELSE w[Picked(s)] + SumOver(w, s \ {Picked(s)})
    BY <2>1, SumUnfolds
  <2>3. CASE s = {}
    BY <2>2, <2>3
  <2>4. CASE s # {}
    <3>1. Picked(s) \in s
      BY <2>4 DEF Picked
    <3>2. Cardinality(s \ {Picked(s)}) < Cardinality(s) /\ s \ {Picked(s)} \in SUBSET S
      BY <2>1, <3>1, OneLess
    <3>3. SumOver(w, s \ {Picked(s)}) \in Int
      BY <1>1, <3>2
    <3>4. w[Picked(s)] \in Int
      BY <3>1
    <3>. QED
      BY <2>2, <3>3, <3>4
  <2>. QED
    BY <2>3, <2>4
<1>. HIDE DEF Good
<1>2. SUBSET S \subseteq Good
  BY <1>1, SmallerFirst
<1>. QED
  BY <1>2 DEF Good

(* Whichever element is taken out.                                         *)
LEMMA SumWithout ==
  ASSUME NEW S, IsFiniteSet(S), NEW w, \A x \in S : w[x] \in Int, NEW y \in S
  PROVE  SumOver(w, S) = w[y] + SumOver(w, S \ {y})
<1>. DEFINE Good == {s \in SUBSET S : \A z \in s : SumOver(w, s) = w[z] + SumOver(w, s \ {z})}
<1>1. ASSUME NEW s \in SUBSET S,
             \A x \in SUBSET S : Cardinality(x) < Cardinality(s) => x \in Good
      PROVE  s \in Good
  <2>. SUFFICES ASSUME NEW z \in s PROVE SumOver(w, s) = w[z] + SumOver(w, s \ {z})
    OBVIOUS
  <2>. DEFINE c == Picked(s)
  <2>1. IsFiniteSet(s) /\ c \in s
    BY FS_Subset DEF Picked
  <2>2. SumOver(w, s) = w[c] + SumOver(w, s \ {c})
    BY <2>1, SumUnfolds
  <2>. HIDE DEF c
  <2>3. CASE z = c
    BY <2>2, <2>3
  <2>4. CASE z # c
    <3>1. \A x \in s : s \ {x} \in SUBSET S /\ Cardinality(s \ {x}) < Cardinality(s)
      BY <2>1, OneLess
    <3>2. s \ {c} \in Good /\ s \ {z} \in Good
      BY <1>1, <2>1, <3>1
    <3>3. z \in s \ {c} /\ c \in s \ {z}
      BY <2>1, <2>4
    <3>4. /\ SumOver(w, s \ {c}) = w[z] + SumOver(w, (s \ {c}) \ {z})
          /\ SumOver(w, s \ {z}) = w[c] + SumOver(w, (s \ {z}) \ {c})
      BY <3>2, <3>3
    <3>5. (s \ {c}) \ {z} = (s \ {z}) \ {c}
      OBVIOUS
    <3>6. SumOver(w, (s \ {z}) \ {c}) \in Int /\ w[c] \in Int /\ w[z] \in Int
      <4>1. IsFiniteSet((s \ {z}) \ {c}) /\ \A x \in (s \ {z}) \ {c} : w[x] \in Int
        BY FS_Subset
      <4>. QED
        BY <2>1, <4>1, SumType
    <3>7. /\ SumOver(w, s) = w[c] + (w[z] + SumOver(w, (s \ {z}) \ {c}))
          /\ SumOver(w, s \ {z}) = w[c] + SumOver(w, (s \ {z}) \ {c})
      BY <2>2, <3>4, <3>5
    <3>. QED
      BY <3>6, <3>7
  <2>. QED
    BY <2>3, <2>4
<1>. HIDE DEF Good
<1>2. SUBSET S \subseteq Good
  BY <1>1, SmallerFirst
<1>. QED
  BY <1>2, FS_Subset DEF Good

(* The sum of two sets that share nothing.                                 *)
LEMMA SumOfTwo ==
  ASSUME NEW A, NEW B, IsFiniteSet(A), IsFiniteSet(B), A \cap B = {},
         NEW w, \A x \in A \cup B : w[x] \in Int
  PROVE  SumOver(w, A \cup B) = SumOver(w, A) + SumOver(w, B)
<1>. DEFINE Good == {b \in SUBSET B : SumOver(w, A \cup b) = SumOver(w, A) + SumOver(w, b)}
<1>0. SumOver(w, A) \in Int
  BY SumType
<1>1. ASSUME NEW b \in SUBSET B,
             \A x \in SUBSET B : Cardinality(x) < Cardinality(b) => x \in Good
      PROVE  b \in Good
  <2>1. IsFiniteSet(b) /\ IsFiniteSet(A \cup b)
    BY FS_Subset, FS_Union
  <2>2. CASE b = {}
    <3>1. SumOver(w, b) = 0
      BY <2>1, <2>2, SumUnfolds
    <3>2. A \cup b = A
      BY <2>2
    <3>3. SumOver(w, A \cup b) = SumOver(w, A)
      BY <3>2
    <3>. QED
      BY <1>0, <3>1, <3>3
  <2>3. CASE b # {}
    <3>1. PICK z \in b : TRUE
      BY <2>3
    <3>2. b \ {z} \in SUBSET B
      OBVIOUS
    <3>9. Cardinality(b \ {z}) < Cardinality(b)
      <4>1. z \in b /\ IsFiniteSet(b)
        BY <2>1
      <4>. QED
        BY <4>1, OneLess
    <3>3. SumOver(w, A \cup (b \ {z})) = SumOver(w, A) + SumOver(w, b \ {z})
      BY <1>1, <3>2, <3>9
    <3>4. SumOver(w, b) = w[z] + SumOver(w, b \ {z})
      BY <2>1, SumWithout
    <3>5. SumOver(w, A \cup b) = w[z] + SumOver(w, (A \cup b) \ {z})
      <4>1. z \in A \cup b /\ \A x \in A \cup b : w[x] \in Int
        OBVIOUS
      <4>. QED
        BY <2>1, <4>1, SumWithout
    <3>6. (A \cup b) \ {z} = A \cup (b \ {z})
      OBVIOUS
    <3>7. SumOver(w, b \ {z}) \in Int /\ w[z] \in Int
      <4>1. IsFiniteSet(b \ {z}) /\ \A x \in b \ {z} : w[x] \in Int
        BY FS_Subset
      <4>. QED
        BY <4>1, SumType
    <3>8. SumOver(w, A \cup b) = w[z] + (SumOver(w, A) + SumOver(w, b \ {z}))
      BY <3>3, <3>5, <3>6
    <3>. QED
      BY <1>0, <3>4, <3>7, <3>8
  <2>. QED
    BY <2>2, <2>3
<1>. HIDE DEF Good
<1>2. SUBSET B \subseteq Good
  BY <1>1, SmallerFirst
<1>. QED
  BY <1>2 DEF Good

(* The elements x of S whose class g[x] is k, or in K.                     *)
Class(S, g, k) == {x \in S : g[x] = k}
Classes(S, g, K) == {x \in S : g[x] \in K}

(* The sum of a set is the sum of the sums of its classes.                 *)
LEMMA SumByClass ==
  ASSUME NEW S, IsFiniteSet(S), NEW w, \A x \in S : w[x] \in Int, NEW g,
         NEW K, IsFiniteSet(K), NEW v,
         \A k \in K : v[k] = SumOver(w, Class(S, g, k))
  PROVE  SumOver(v, K) = SumOver(w, Classes(S, g, K))
<1>. DEFINE Good == {L \in SUBSET K : SumOver(v, L) = SumOver(w, Classes(S, g, L))}
<1>0. \A s \in SUBSET S : IsFiniteSet(s) /\ SumOver(w, s) \in Int
  <2>. SUFFICES ASSUME NEW s \in SUBSET S PROVE IsFiniteSet(s) /\ SumOver(w, s) \in Int
    OBVIOUS
  <2>1. IsFiniteSet(s) /\ \A x \in s : w[x] \in Int
    BY FS_Subset
  <2>. QED
    BY <2>1, SumType
<1>1. \A k \in K : v[k] \in Int /\ v[k] = SumOver(w, Class(S, g, k))
  BY <1>0 DEF Class
<1>2. ASSUME NEW L \in SUBSET K,
             \A x \in SUBSET K : Cardinality(x) < Cardinality(L) => x \in Good
      PROVE  L \in Good
  <2>1. IsFiniteSet(L) /\ \A k \in L : v[k] \in Int
    BY <1>1, FS_Subset
  <2>2. CASE L = {}
    <3>1. IsFiniteSet(Classes(S, g, L)) /\ Classes(S, g, L) = {}
      BY <1>0, <2>2 DEF Classes
    <3>2. SumOver(w, Classes(S, g, L)) = 0
      BY <3>1, SumUnfolds
    <3>3. SumOver(v, L) = 0
      BY <2>1, <2>2, SumUnfolds
    <3>. QED
      BY <3>2, <3>3
  <2>3. CASE L # {}
    <3>1. PICK k \in L : TRUE
      BY <2>3
    <3>2. L \ {k} \in SUBSET K
      OBVIOUS
    <3>8. Cardinality(L \ {k}) < Cardinality(L)
      <4>1. k \in L /\ IsFiniteSet(L)
        BY <2>1
      <4>. QED
        BY <4>1, OneLess
    <3>3. SumOver(v, L \ {k}) = SumOver(w, Classes(S, g, L \ {k}))
      BY <1>2, <3>2, <3>8
    <3>4. SumOver(v, L) = v[k] + SumOver(v, L \ {k})
      BY <2>1, SumWithout
    <3>5. /\ Classes(S, g, L) = Class(S, g, k) \cup Classes(S, g, L \ {k}) /\ Class(S, g, k) \cap Classes(S, g, L \ {k}) = {}
          /\ Class(S, g, k) \in SUBSET S /\ Classes(S, g, L \ {k}) \in SUBSET S
      BY DEF Class, Classes
    <3>6. \A x \in Class(S, g, k) \cup Classes(S, g, L \ {k}) : w[x] \in Int
      BY <3>5
    <3>7. SumOver(w, Classes(S, g, L)) = SumOver(w, Class(S, g, k)) + SumOver(w, Classes(S, g, L \ {k}))
      <4>1. IsFiniteSet(Class(S, g, k)) /\ IsFiniteSet(Classes(S, g, L \ {k}))
        BY <1>0, <3>5
      <4>2. SumOver(w, Class(S, g, k) \cup Classes(S, g, L \ {k}))
              = SumOver(w, Class(S, g, k)) + SumOver(w, Classes(S, g, L \ {k}))
        BY <3>5, <3>6, <4>1, SumOfTwo
      <4>. QED
        BY <3>5, <4>2
    <3>. QED
      BY <1>1, <3>3, <3>4, <3>7
  <2>. QED
    BY <2>2, <2>3
<1>. HIDE DEF Good
<1>3. SUBSET K \subseteq Good
  BY <1>2, SmallerFirst
<1>. QED
  BY <1>3 DEF Good

-----------------------------------------------------------------------------
(* The figures of a report.                                                *)
amounts == [r \in DOMAIN rows |-> rows[r].amount]

LEMMA RowsFinite ==
  ASSUME TypeOK
  PROVE  /\ IsFiniteSet(DOMAIN rows)
         /\ \A S \in SUBSET DOMAIN rows : IsFiniteSet(S) /\ \A r \in S : amounts[r] \in Int
<1>1. issued \in Int /\ DOMAIN rows \in SUBSET (1..issued)
  BY ReportsAssumption DEF TypeOK, ReportsAssumption
<1>2. IsFiniteSet(DOMAIN rows)
  <2>1. IsFiniteSet(1..issued)
    BY <1>1, FS_Interval
  <2>. QED
    BY <1>1, <2>1, FS_Subset
<1>3. \A r \in DOMAIN rows : amounts[r] \in Int
  BY DEF TypeOK, Row, amounts
<1>. QED
  BY <1>2, <1>3, FS_Subset

(* Total is a sum in the sense of the lemmas above.                        *)
LEMMA TotalIsSum ==
  ASSUME TypeOK, NEW S \in SUBSET DOMAIN rows
  PROVE  Total(S) = SumOver(amounts, S)
<1>. DEFINE Body(it) == [s \in SUBSET S |->
                           IF s = {} THEN 0 ELSE rows[Picked(s)].amount + it[s \ {Picked(s)}]]
            it1 == CHOOSE it : it = Body(it)
            it2 == CHOOSE it : AddsUp(amounts, S, it)
<1>1. IsFiniteSet(S)
  BY RowsFinite
<1>2. ASSUME NEW it PROVE AddsUp(amounts, S, it) <=> it = Body(it)
  <2>1. \A s \in SUBSET S : s # {} => amounts[Picked(s)] = rows[Picked(s)].amount
    BY DEF Picked, amounts
  <2>. QED
    BY <2>1 DEF AddsUp
<1>3. AddsUp(amounts, S, it2)
  BY <1>1, SumsExist
<1>4. it1 = Body(it1)
  BY <1>2, <1>3
<1>5. AddsUp(amounts, S, it1)
  BY <1>2, <1>4
<1>6. Total(S) = it1[S]
  BY DEF Total, MapThenSumSet, MapThenFoldSet, Picked
<1>7. SumOver(amounts, S) = it2[S]
  BY DEF SumOver
<1>. HIDE DEF it1, it2
<1>8. S \in SUBSET S
  OBVIOUS
<1>9. it1[S] = it2[S]
  BY <1>1, <1>3, <1>5, <1>8, SumsAgree
<1>. QED
  BY <1>6, <1>7, <1>9

LEMMA SelectedRows ==
  ASSUME NEW kind, NEW scope, NEW period
  PROVE  Selected(kind, scope, period) \in SUBSET DOMAIN rows
BY DEF Selected, Of

(* The days of a trend sum to the total of its period.                     *)
LEMMA TrendAddsUp ==
  ASSUME TypeOK, NEW kind, NEW scope, NEW period
  PROVE  SumOfTrend(Trend(kind, scope, period)) = TotalOf(kind, scope, period)
<1>. DEFINE S == Selected(kind, scope, period)
            trend == Trend(kind, scope, period)
            day == [r \in DOMAIN rows |-> rows[r].day]
<1>1. S \in SUBSET DOMAIN rows /\ IsFiniteSet(S) /\ \A r \in S : amounts[r] \in Int
  BY SelectedRows, RowsFinite
<1>2. DOMAIN trend = Days /\ IsFiniteSet(Days)
  BY ReportsAssumption DEF Trend, ReportsAssumption
<1>3. SumOfTrend(trend) = SumOver(trend, Days)
  <2>1. SumOfTrend(trend) = MapThenSumSet(LAMBDA d : trend[d], Days)
    BY <1>2 DEF SumOfTrend
  <2>. HIDE DEF trend
  <2>. QED
    BY <2>1 DEF MapThenSumSet, MapThenFoldSet, SumOver, AddsUp, Picked
<1>4. ASSUME NEW d \in Days PROVE trend[d] = SumOver(amounts, Class(S, day, d))
  <2>1. trend[d] = Total({r \in S : rows[r].day = d})
    BY DEF Trend
  <2>2. {r \in S : rows[r].day = d} = Class(S, day, d)
    BY <1>1 DEF Class
  <2>3. Class(S, day, d) \in SUBSET DOMAIN rows
    BY <1>1 DEF Class
  <2>. HIDE DEF day, S, trend
  <2>4. Total(Class(S, day, d)) = SumOver(amounts, Class(S, day, d))
    BY <2>3, TotalIsSum
  <2>. QED
    BY <2>1, <2>2, <2>4
<1>5. Classes(S, day, Days) = S
  BY <1>1 DEF TypeOK, Row, Classes
<1>6. TotalOf(kind, scope, period) = SumOver(amounts, S)
  BY <1>1, TotalIsSum DEF TotalOf
<1>. HIDE DEF S, trend, day
<1>7. SumOver(trend, Days) = SumOver(amounts, Classes(S, day, Days))
  BY <1>1, <1>2, <1>4, SumByClass
<1>. QED
  BY <1>3, <1>5, <1>6, <1>7 DEF trend

(* The figures of the stores one may name add up to those of all of them.  *)
LEMMA PartsAddUp ==
  ASSUME TypeOK, NEW u \in Users, NEW period, NEW kind
  PROVE  MapThenSumSet(LAMBDA s : TotalOf(kind, Scope(u, s), period), Stores)
           = TotalOf(kind, StoreIds(u), period)
<1>. DEFINE S == Selected(kind, StoreIds(u), period)
            store == [r \in DOMAIN rows |-> rows[r].store]
            v == [s \in Stores |-> TotalOf(kind, Scope(u, s), period)]
            Body(it) == [p \in SUBSET Stores |->
                           IF p = {} THEN 0
                           ELSE TotalOf(kind, Scope(u, Picked(p)), period) + it[p \ {Picked(p)}]]
            it1 == CHOOSE it : it = Body(it)
            it2 == CHOOSE it : AddsUp(v, Stores, it)
            parts == MapThenSumSet(LAMBDA s : TotalOf(kind, Scope(u, s), period), Stores)
<1>1. S \in SUBSET DOMAIN rows /\ IsFiniteSet(S) /\ \A r \in S : amounts[r] \in Int
  BY SelectedRows, RowsFinite
<1>2. IsFiniteSet(Stores) /\ NoStore \notin Stores /\ StoreIds(u) \subseteq Stores
  BY ReportsAssumption DEF ReportsAssumption, StoreIds, TypeOK
<1>3. ASSUME NEW it PROVE AddsUp(v, Stores, it) <=> it = Body(it)
  <2>1. \A p \in SUBSET Stores : p # {} => v[Picked(p)] = TotalOf(kind, Scope(u, Picked(p)), period)
    BY DEF Picked
  <2>. HIDE DEF v
  <2>. QED
    BY <2>1 DEF AddsUp
<1>4. AddsUp(v, Stores, it2)
  BY <1>2, SumsExist
<1>5. it1 = Body(it1)
  BY <1>3, <1>4
<1>6. AddsUp(v, Stores, it1)
  BY <1>3, <1>5
<1>7. parts = it1[Stores]
  BY DEF MapThenSumSet, MapThenFoldSet, Picked
<1>8. SumOver(v, Stores) = it2[Stores]
  BY DEF SumOver
<1>9. Stores \in SUBSET Stores
  OBVIOUS
<1>. HIDE DEF it1, it2, v
<1>10. it1[Stores] = it2[Stores]
  BY <1>2, <1>4, <1>6, <1>9, SumsAgree
<1>11. ASSUME NEW s \in Stores PROVE v[s] = SumOver(amounts, Class(S, store, s))
  <2>1. Class(S, store, s) = Selected(kind, Scope(u, s), period)
    BY <1>1, <1>2 DEF Selected, Of, Scope, Class
  <2>2. v[s] = Total(Selected(kind, Scope(u, s), period))
    BY DEF v, TotalOf
  <2>. HIDE DEF S, store
  <2>. QED
    BY <2>1, <2>2, SelectedRows, TotalIsSum
<1>12. Classes(S, store, Stores) = S
  BY <1>1 DEF TypeOK, Row, Classes
<1>13. TotalOf(kind, StoreIds(u), period) = SumOver(amounts, S)
  BY <1>1, TotalIsSum DEF TotalOf
<1>. HIDE DEF S, store
<1>14. SumOver(v, Stores) = SumOver(amounts, Classes(S, store, Stores))
  BY <1>1, <1>2, <1>11, SumByClass
<1>. HIDE DEF parts
<1>15. parts = TotalOf(kind, StoreIds(u), period)
  BY <1>7, <1>8, <1>10, <1>12, <1>13, <1>14
<1>. QED
  BY <1>15 DEF parts

(* The totals of open and of closed stores add up.                         *)
LEMMA OpenAndClosed ==
  ASSUME TypeOK, NEW period, NEW kind
  PROVE  TotalOf(kind, Stores, period) = TotalOf(kind, open, period) + TotalOf(kind, Stores \ open, period)
<1>. DEFINE All == Selected(kind, Stores, period)
            A == Selected(kind, open, period)
            B == Selected(kind, Stores \ open, period)
<1>1. /\ IsFiniteSet(A) /\ IsFiniteSet(B) /\ All \in SUBSET DOMAIN rows
      /\ A \in SUBSET DOMAIN rows /\ B \in SUBSET DOMAIN rows
      /\ \A r \in A \cup B : amounts[r] \in Int
  BY SelectedRows, RowsFinite
<1>2. A \cup B = All /\ A \cap B = {}
  BY DEF Selected, TypeOK
<1>3. /\ TotalOf(kind, Stores, period) = SumOver(amounts, All)
      /\ TotalOf(kind, open, period) = SumOver(amounts, A)
      /\ TotalOf(kind, Stores \ open, period) = SumOver(amounts, B)
  BY <1>1, TotalIsSum DEF TotalOf
<1>. HIDE DEF A, B, All
<1>4. SumOver(amounts, A \cup B) = SumOver(amounts, A) + SumOver(amounts, B)
  BY <1>1, <1>2, SumOfTwo
<1>. QED
  BY <1>2, <1>3, <1>4

LEMMA TotalType ==
  ASSUME TypeOK, NEW kind, NEW scope, NEW period
  PROVE  TotalOf(kind, scope, period) \in Int
<1>. DEFINE S == Selected(kind, scope, period)
<1>1. S \in SUBSET DOMAIN rows /\ IsFiniteSet(S) /\ \A r \in S : amounts[r] \in Int
  BY SelectedRows, RowsFinite
<1>2. TotalOf(kind, scope, period) = SumOver(amounts, S)
  BY <1>1, TotalIsSum DEF TotalOf
<1>. HIDE DEF S
<1>. QED
  BY <1>1, <1>2, SumType

(* Every state, for any stores and rows: the figures of all stores are     *)
(* those of the stores one may name, added, and those of closed stores for *)
(* an administrator; an export lists what the dashboard counts.            *)
THEOREM WholeFromParts == Spec => []WholeIsTheSumOfItsParts
<1>1. ASSUME TypeOK, NEW u \in Users, NEW period \in Periods, NEW kind \in Kinds
      PROVE  LET whole == TotalOf(kind, Scope(u, NoStore), period)
                 parts == MapThenSumSet(LAMBDA s : TotalOf(kind, Scope(u, s), period), Stores)
                 closed == IF u \in Staff THEN TotalOf(kind, Stores \ open, period) ELSE 0
                 listed == UNION {Exported(u, s, kind, period) : s \in Stores}
             IN  /\ whole = parts + closed
                 /\ Selected(kind, Scope(u, NoStore), period) \subseteq Exported(u, NoStore, kind, period)
                 /\ listed = {r \in Exported(u, NoStore, kind, period) : rows[r].store \in open}
  <2>. DEFINE whole == TotalOf(kind, Scope(u, NoStore), period)
              parts == MapThenSumSet(LAMBDA s : TotalOf(kind, Scope(u, s), period), Stores)
              closed == IF u \in Staff THEN TotalOf(kind, Stores \ open, period) ELSE 0
              listed == UNION {Exported(u, s, kind, period) : s \in Stores}
  <2>1. parts = TotalOf(kind, StoreIds(u), period)
    BY <1>1, PartsAddUp
  <2>2. /\ u \in Staff => Scope(u, NoStore) = Stores /\ StoreIds(u) = open
        /\ u \notin Staff => Scope(u, NoStore) = StoreIds(u)
        /\ StoreIds(u) \subseteq open /\ open \subseteq Stores
        /\ \A s \in Stores : Scope(u, s) = {s} \cap StoreIds(u)
    BY <1>1, ReportsAssumption DEF ReportsAssumption, Scope, StoreIds, TypeOK
  <2>3. whole = parts + closed
    <3>. HIDE DEF parts
    <3>1. CASE u \in Staff
      <4>1. TotalOf(kind, Stores, period) = TotalOf(kind, open, period) + TotalOf(kind, Stores \ open, period)
        BY <1>1, OpenAndClosed
      <4>. QED
        BY <2>1, <2>2, <3>1, <4>1
    <3>2. CASE u \notin Staff
      <4>1. TotalOf(kind, StoreIds(u), period) \in Int
        BY <1>1, TotalType
      <4>. QED
        BY <2>1, <2>2, <3>2, <4>1
    <3>. QED
      BY <3>1, <3>2
  <2>4. Selected(kind, Scope(u, NoStore), period) \subseteq Exported(u, NoStore, kind, period)
    BY DEF Selected, Exported
  <2>5. listed = {r \in Exported(u, NoStore, kind, period) : rows[r].store \in open}
    <3>1. ASSUME NEW s \in Stores, NEW r \in Exported(u, s, kind, period)
          PROVE  r \in Exported(u, NoStore, kind, period) /\ rows[r].store \in open
      BY <2>2 DEF Exported
    <3>2. ASSUME NEW r \in Exported(u, NoStore, kind, period), rows[r].store \in open
          PROVE  rows[r].store \in Stores /\ r \in Exported(u, rows[r].store, kind, period)
      BY <2>2, <3>2 DEF Exported
    <3>. QED
      BY <3>1, <3>2
  <2>. QED
    BY <2>3, <2>4, <2>5
<1>2. TypeOK => WholeIsTheSumOfItsParts
  BY <1>1 DEF WholeIsTheSumOfItsParts
<1>. QED
  BY <1>2, ReportsTypeCorrect, PTL

-----------------------------------------------------------------------------
(* A dashboard nobody disturbed.                                           *)
FiguresOf(p) ==
  UNION {Figures(Statements[i], p.scope, p.period) : i \in 1 .. Len(Statements)}

(* While quiet, what it has read is what it would read now.                *)
Fresh(p) ==
  p.op = "dashboard" =>
    /\ p = [op |-> "dashboard", scope |-> p.scope, period |-> p.period,
            figures |-> p.figures, quiet |-> p.quiet]
    /\ p.quiet =>
         /\ p.figures \in Seq(FiguresOf(p))
         /\ \A i \in 1 .. Len(p.figures) :
              i <= Len(Statements) => p.figures[i] \in Figures(Statements[i], p.scope, p.period)

DashboardsAreFresh == \A t \in Slots : Fresh(at[t])

LEMMA SameFigures ==
  ASSUME UNCHANGED rows, NEW statement, NEW scope, NEW period
  PROVE  Figures(statement, scope, period)' = Figures(statement, scope, period)
<1>1. \A kind : Selected(kind, scope, period)' = Selected(kind, scope, period)
  BY DEF Selected, Of
<1>2. Low(scope)' = Low(scope)
  BY DEF Low, Of
<1>3. ASSUME NEW kind PROVE TotalOf(kind, scope, period)' = TotalOf(kind, scope, period)
  <2>1. Selected(kind, scope, period)' = Selected(kind, scope, period)
    BY <1>1
  <2>. QED
    BY <2>1 DEF TotalOf, Total, MapThenSumSet, MapThenFoldSet
<1>4. ASSUME NEW kind PROVE Trend(kind, scope, period)' = Trend(kind, scope, period)
  <2>1. Selected(kind, scope, period)' = Selected(kind, scope, period)
    BY <1>1
  <2>. QED
    BY <2>1 DEF Trend, Total, MapThenSumSet, MapThenFoldSet
<1>5. \A kind : CountOf(kind, scope, period)' = CountOf(kind, scope, period)
  BY <1>1 DEF CountOf
<1>6. Figure(statement, scope, period)' = Figure(statement, scope, period)
  BY <1>2, <1>3, <1>4, <1>5 DEF Figure
<1>7. Alerts(scope)' = Alerts(scope)
  BY <1>2 DEF Alerts, Cut
<1>. QED
  BY <1>6, <1>7 DEF Figures

LEMMA StaysFresh ==
  ASSUME UNCHANGED rows, NEW p, Fresh(p)
  PROVE  Fresh(p)'
<1>1. \A statement :
        Figures(statement, p.scope, p.period)' = Figures(statement, p.scope, p.period)
  BY SameFigures
<1>2. Statements' = Statements
  BY DEF Statements
<1>3. FiguresOf(p)' = FiguresOf(p)
  BY <1>1, <1>2 DEF FiguresOf
<1>. QED
  BY <1>1, <1>2, <1>3 DEF Fresh

(* A place a request goes to leaves the other dashboards fresh: who writes *)
(* makes them unquiet.                                                     *)
LEMMA OthersStayFresh ==
  ASSUME DashboardsAreFresh, NEW t, NEW place, NEW writing \in BOOLEAN, Goto(t, place, writing),
         writing \/ UNCHANGED rows, Fresh(place)'
  PROVE  DashboardsAreFresh'
<1>. SUFFICES ASSUME NEW s \in Slots PROVE Fresh(at[s])'
  BY DEF DashboardsAreFresh
<1>0. PICK p : p = at[s]
  OBVIOUS
<1>1. Fresh(p)
  BY <1>0 DEF DashboardsAreFresh
<1>2. PICK q : q = at'[s]
  OBVIOUS
<1>3. CASE s = t
  BY <1>3 DEF Goto
<1>4. CASE s # t /\ At(s, "dashboard") /\ writing
  <2>1. q = [p EXCEPT !.quiet = FALSE]
    BY <1>0, <1>2, <1>4 DEF Goto
  <2>2. p.op = "dashboard"
    BY <1>0, <1>4 DEF At
  <2>3. q = [op |-> "dashboard", scope |-> q.scope, period |-> q.period,
             figures |-> q.figures, quiet |-> FALSE]
    BY <1>1, <2>1, <2>2 DEF Fresh
  <2>4. q.quiet = FALSE
    BY <2>3
  <2>5. Fresh(q)'
    BY <2>3, <2>4 DEF Fresh
  <2>. QED
    BY <1>2, <2>5 DEF Fresh, FiguresOf
<1>5. CASE s # t /\ ~(At(s, "dashboard") /\ writing)
  <2>1. q = p
    BY <1>0, <1>2, <1>5 DEF Goto
  <2>2. Fresh(q)'
    <3>1. CASE UNCHANGED rows
      BY <1>1, <2>1, <3>1, StaysFresh
    <3>2. CASE writing
      BY <1>0, <1>5, <2>1, <3>2 DEF Fresh, At
    <3>. QED
      BY <3>1, <3>2
  <2>. QED
    BY <1>2, <2>2 DEF Fresh, FiguresOf
<1>. QED
  BY <1>3, <1>4, <1>5

LEMMA IdleIsFresh == ASSUME NEW p, p.op # "dashboard" PROVE Fresh(p)'
BY DEF Fresh

LEMMA NextFresh == DashboardsAreFresh /\ [Next]_vars => DashboardsAreFresh'
<1>. SUFFICES ASSUME DashboardsAreFresh, [Next]_vars PROVE DashboardsAreFresh'
  OBVIOUS
<1>1. ASSUME NEW t, NEW writing \in BOOLEAN, Goto(t, Idle, writing), writing \/ UNCHANGED rows
      PROVE  DashboardsAreFresh'
  <2>1. Fresh(Idle)'
    BY DEF Fresh, Idle
  <2>. QED
    BY <1>1, <2>1, OthersStayFresh
<1>2. ASSUME NEW u \in Users, NEW s \in Stores, NEW day \in Days, NEW x \in Amounts,
             AddExpense(u, s, day, x)
      PROVE  DashboardsAreFresh'
  BY <1>1, <1>2 DEF AddExpense
<1>3. ASSUME NEW t \in Slots, NEW u \in Users, NEW r \in Of("expense"),
             NEW row \in Changed(rows[r]), FetchExpense(t, u, r, row)
      PROVE  DashboardsAreFresh'
  <2>1. PICK place : place = [op |-> "save", managed |-> Managed(u), read |-> [x \in {r} |-> rows[x]],
                              row |-> row]
    OBVIOUS
  <2>2. Goto(t, place, FALSE) /\ UNCHANGED rows
    BY <1>3, <2>1 DEF FetchExpense
  <2>3. place.op # "dashboard"
    BY <2>1
  <2>. QED
    BY <2>2, <2>3, IdleIsFresh, OthersStayFresh
<1>4. ASSUME NEW t \in Slots, NEW u \in Users, NEW named \in SUBSET Of("expense"),
             FetchDoomed(t, u, named)
      PROVE  DashboardsAreFresh'
  <2>. DEFINE ids == {r \in named : Deletable(u, r)}
  <2>1. PICK place : place = [op |-> "delete", managed |-> Managed(u), read |-> [r \in ids |-> rows[r]]]
    OBVIOUS
  <2>2. Goto(t, place, FALSE) /\ UNCHANGED rows
    BY <1>4, <2>1 DEF FetchDoomed
  <2>3. place.op # "dashboard"
    BY <2>1
  <2>. QED
    BY <2>2, <2>3, IdleIsFresh, OthersStayFresh
<1>5. ASSUME NEW t \in Slots, SaveExpense(t) \/ DeleteExpenses(t) PROVE DashboardsAreFresh'
  BY <1>1, <1>5 DEF SaveExpense, DeleteExpenses
<1>6. ASSUME NEW kind \in Kinds, NEW s \in Stores, NEW day \in Days, NEW x \in Amounts,
             Enter(kind, s, day, x)
      PROVE  DashboardsAreFresh'
  BY <1>1, <1>6 DEF Enter
<1>7. ASSUME NEW r \in DOMAIN rows, Update(r) PROVE DashboardsAreFresh'
  BY <1>1, <1>7 DEF Update
<1>8. ASSUME UNCHANGED <<rows, at>> PROVE DashboardsAreFresh'
  <2>. SUFFICES ASSUME NEW s \in Slots PROVE Fresh(at[s])'
    BY DEF DashboardsAreFresh
  <2>1. PICK p : p = at[s]
    OBVIOUS
  <2>2. Fresh(p)'
    BY <1>8, <2>1, StaysFresh DEF DashboardsAreFresh
  <2>3. at'[s] = p
    BY <1>8, <2>1
  <2>. QED
    BY <2>2, <2>3 DEF Fresh, FiguresOf
<1>9. CASE ChangeRights
  BY <1>8, <1>9 DEF ChangeRights
<1>10. ASSUME NEW t \in Slots, NEW u \in Users, NEW s \in Stores \cup {NoStore},
              NEW period \in Periods, BeginDashboard(t, u, s, period)
       PROVE  DashboardsAreFresh'
  <2>1. PICK place : place = [op |-> "dashboard", scope |-> Scope(u, s), period |-> period,
                              figures |-> <<>>, quiet |-> TRUE]
    OBVIOUS
  <2>2. Goto(t, place, FALSE) /\ UNCHANGED rows
    BY <1>10, <2>1 DEF BeginDashboard
  <2>3. /\ place = [op |-> "dashboard", scope |-> place.scope, period |-> place.period,
                    figures |-> place.figures, quiet |-> place.quiet]
        /\ place.figures = << >>
    BY <2>1
  <2>4. Fresh(place)'
    BY <2>3, EmptySeq DEF Fresh
  <2>. QED
    BY <2>2, <2>4, OthersStayFresh
<1>11. ASSUME NEW t \in Slots, ReadFigure(t) PROVE DashboardsAreFresh'
  <2>1. PICK p : p = at[t]
    OBVIOUS
  <2>2. Fresh(p) /\ p.op = "dashboard"
    BY <1>11, <2>1 DEF DashboardsAreFresh, ReadFigure, At
  <2>. DEFINE n == Len(p.figures) + 1
  <2>3. PICK figure \in Figures(Statements[n], p.scope, p.period) :
          Goto(t, [p EXCEPT !.figures = Append(@, figure)], FALSE)
    BY <1>11, <2>1 DEF ReadFigure
  <2>4. PICK place : place = [p EXCEPT !.figures = Append(@, figure)]
    OBVIOUS
  <2>5. n <= Len(Statements) /\ Goto(t, place, FALSE) /\ UNCHANGED rows
    BY <1>11, <2>1, <2>3, <2>4 DEF ReadFigure
  <2>6. /\ place = [op |-> "dashboard", scope |-> place.scope, period |-> place.period,
                    figures |-> place.figures, quiet |-> place.quiet]
        /\ place.scope = p.scope /\ place.period = p.period /\ place.quiet = p.quiet
        /\ place.figures = Append(p.figures, figure)
    BY <2>2, <2>4 DEF Fresh
  <2>7. ASSUME p.quiet
        PROVE  /\ place.figures \in Seq(FiguresOf(place))
               /\ \A i \in 1 .. Len(place.figures) :
                    i <= Len(Statements) =>
                      place.figures[i] \in Figures(Statements[i], place.scope, place.period)
    <3>1. p.figures \in Seq(FiguresOf(p)) /\ FiguresOf(place) = FiguresOf(p)
      BY <2>2, <2>6, <2>7 DEF Fresh, FiguresOf
    <3>2. Len(p.figures) \in Nat /\ n \in 1 .. Len(Statements)
      <4>1. Len(p.figures) \in Nat
        BY <3>1, LenProperties
      <4>2. Len(Statements) = 13
        BY DEF Statements
      <4>. QED
        BY <2>5, <4>1, <4>2
    <3>3. figure \in FiguresOf(p)
      BY <2>3, <3>2 DEF FiguresOf
    <3>4. /\ place.figures \in Seq(FiguresOf(p))
          /\ Len(place.figures) = n
          /\ \A i \in 1 .. Len(p.figures) : place.figures[i] = p.figures[i]
          /\ place.figures[n] = figure
      BY <2>6, <3>1, <3>3, AppendProperties
    <3>5. \A i \in 1 .. n : i \in 1 .. Len(p.figures) \/ i = n
      BY <3>2
    <3>. QED
      BY <2>2, <2>3, <2>6, <2>7, <3>1, <3>4, <3>5 DEF Fresh
  <2>8. Fresh(place)
    BY <2>6, <2>7 DEF Fresh
  <2>. QED
    BY <2>5, <2>8, StaysFresh, OthersStayFresh
<1>12. ASSUME NEW t \in Slots, AnswerDashboard(t) PROVE DashboardsAreFresh'
  BY <1>1, <1>12 DEF AnswerDashboard
<1>13. CASE UNCHANGED vars
  BY <1>8, <1>13 DEF vars
<1>. QED
  BY <1>2, <1>3, <1>4, <1>5, <1>6, <1>7, <1>9, <1>10, <1>11, <1>12, <1>13
     DEF Next, ExpenseDesk, Elsewhere, Dashboards

(* The statement a figure answers.                                         *)
LEMMA ReadsStatement ==
  ASSUME NEW figures
  PROVE  /\ Read(figures, "low") = figures[1] /\ Read(figures, "sale") = figures[2]
         /\ Read(figures, "expense") = figures[3] /\ Read(figures, "purchase") = figures[4]
         /\ Read(figures, "hours") = figures[8]
         /\ Read(figures, "sale trend") = figures[9] /\ Read(figures, "purchase trend") = figures[10]
         /\ Read(figures, "expense trend") = figures[11] /\ Read(figures, "hours trend") = figures[12]
         /\ Read(figures, "alerts") = figures[13]
<1>1. DOMAIN Statements = 1 .. 13
  BY DEF Statements
<1>2. /\ Statements[1] = "low" /\ Statements[2] = "sale" /\ Statements[3] = "expense"
      /\ Statements[4] = "purchase" /\ Statements[5] = "stock" /\ Statements[6] = "sales"
      /\ Statements[7] = "orders" /\ Statements[8] = "hours" /\ Statements[9] = "sale trend"
      /\ Statements[10] = "purchase trend" /\ Statements[11] = "expense trend"
      /\ Statements[12] = "hours trend" /\ Statements[13] = "alerts"
  BY DEF Statements
<1>3. ASSUME NEW j \in 1 .. 13
      PROVE  /\ (Statements[j] = "low" => j = 1) /\ (Statements[j] = "sale" => j = 2)
             /\ (Statements[j] = "expense" => j = 3) /\ (Statements[j] = "purchase" => j = 4)
             /\ (Statements[j] = "hours" => j = 8) /\ (Statements[j] = "sale trend" => j = 9)
             /\ (Statements[j] = "purchase trend" => j = 10)
             /\ (Statements[j] = "expense trend" => j = 11)
             /\ (Statements[j] = "hours trend" => j = 12) /\ (Statements[j] = "alerts" => j = 13)
  <2>1. \/ j = 1 \/ j = 2 \/ j = 3 \/ j = 4 \/ j = 5 \/ j = 6 \/ j = 7
        \/ j = 8 \/ j = 9 \/ j = 10 \/ j = 11 \/ j = 12 \/ j = 13
    OBVIOUS
  <2>. QED
    BY <1>2, <2>1
<1>4. ASSUME NEW i \in {1, 2, 3, 4, 8, 9, 10, 11, 12, 13}, NEW j \in 1 .. 13,
             Statements[j] = Statements[i]
      PROVE  j = i
  <2>1. CASE i = 1
    BY <1>2, <1>3, <1>4, <2>1
  <2>2. CASE i = 2
    BY <1>2, <1>3, <1>4, <2>2
  <2>3. CASE i = 3
    BY <1>2, <1>3, <1>4, <2>3
  <2>4. CASE i = 4
    BY <1>2, <1>3, <1>4, <2>4
  <2>5. CASE i = 8
    BY <1>2, <1>3, <1>4, <2>5
  <2>6. CASE i = 9
    BY <1>2, <1>3, <1>4, <2>6
  <2>7. CASE i = 10
    BY <1>2, <1>3, <1>4, <2>7
  <2>8. CASE i = 11
    BY <1>2, <1>3, <1>4, <2>8
  <2>9. CASE i = 12
    BY <1>2, <1>3, <1>4, <2>9
  <2>10. CASE i = 13
    BY <1>2, <1>3, <1>4, <2>10
  <2>. QED
    BY <2>1, <2>2, <2>3, <2>4, <2>5, <2>6, <2>7, <2>8, <2>9, <2>10
<1>5. ASSUME NEW i \in {1, 2, 3, 4, 8, 9, 10, 11, 12, 13}
      PROVE  Read(figures, Statements[i]) = figures[i]
  <2>. DEFINE j == CHOOSE k \in DOMAIN Statements : Statements[k] = Statements[i]
  <2>1. j \in 1 .. 13 /\ Statements[j] = Statements[i]
    BY <1>1
  <2>2. j = i
    BY <1>4, <2>1
  <2>3. Read(figures, Statements[i]) = figures[j]
    BY DEF Read
  <2>. QED
    BY <2>2, <2>3
<1>6. /\ Read(figures, Statements[1]) = figures[1] /\ Read(figures, Statements[2]) = figures[2]
      /\ Read(figures, Statements[3]) = figures[3] /\ Read(figures, Statements[4]) = figures[4]
      /\ Read(figures, Statements[8]) = figures[8] /\ Read(figures, Statements[9]) = figures[9]
      /\ Read(figures, Statements[10]) = figures[10] /\ Read(figures, Statements[11]) = figures[11]
      /\ Read(figures, Statements[12]) = figures[12] /\ Read(figures, Statements[13]) = figures[13]
  BY <1>5
<1>. QED
  BY <1>2, <1>6

(* Every state, for any stores, days and requests at once: a dashboard     *)
(* during which nobody wrote adds up, though it was read statement by      *)
(* statement, and its alerts are low rows, cut to how many are shown.      *)
THEOREM QuietAdds == Spec => []QuietReportAdds
<1>1. ASSUME TypeOK, DashboardsAreFresh PROVE QuietReportAdds
  <2>. SUFFICES ASSUME NEW t \in Slots, At(t, "dashboard"), at[t].quiet,
                       Len(at[t].figures) = Len(Statements)
                PROVE  LET f == at[t].figures
                       IN  /\ SumOfTrend(Read(f, "sale trend")) = Read(f, "sale")
                           /\ SumOfTrend(Read(f, "purchase trend")) = Read(f, "purchase")
                           /\ SumOfTrend(Read(f, "expense trend")) = Read(f, "expense")
                           /\ SumOfTrend(Read(f, "hours trend")) = Read(f, "hours")
                           /\ Read(f, "alerts") \subseteq Low(at[t].scope)
                           /\ Cardinality(Read(f, "alerts")) = Cut(Read(f, "low"))
    BY DEF QuietReportAdds
  <2>. DEFINE f == at[t].figures
              scope == at[t].scope
              period == at[t].period
  <2>1. \A i \in 1 .. 13 : f[i] \in Figures(Statements[i], scope, period)
    <3>1. Fresh(at[t]) /\ at[t].op = "dashboard" /\ Len(Statements) = 13
      BY <1>1 DEF DashboardsAreFresh, At, Statements
    <3>2. \A i \in 1 .. Len(f) : i <= Len(Statements) => f[i] \in Figures(Statements[i], scope, period)
      BY <3>1 DEF Fresh
    <3>3. Len(f) = 13
      BY <3>1
    <3>. HIDE DEF f, scope, period
    <3>. QED
      BY <3>1, <3>2, <3>3
  <2>2. /\ f[1] = Cardinality(Low(scope)) /\ f[13] \in Alerts(scope)
        /\ f[2] = TotalOf("sale", scope, period) /\ f[9] = Trend("sale", scope, period)
        /\ f[3] = TotalOf("expense", scope, period) /\ f[11] = Trend("expense", scope, period)
        /\ f[4] = TotalOf("purchase", scope, period) /\ f[10] = Trend("purchase", scope, period)
        /\ f[8] = TotalOf("attendance", scope, period) /\ f[12] = Trend("attendance", scope, period)
    BY <2>1 DEF Statements, Figures, Figure
  <2>3. \A kind : SumOfTrend(Trend(kind, scope, period)) = TotalOf(kind, scope, period)
    BY <1>1, TrendAddsUp
  <2>. HIDE DEF f, scope, period
  <2>4. /\ SumOfTrend(f[9]) = f[2] /\ SumOfTrend(f[10]) = f[4] /\ SumOfTrend(f[11]) = f[3]
        /\ SumOfTrend(f[12]) = f[8] /\ f[13] \subseteq Low(scope)
        /\ Cardinality(f[13]) = Cut(f[1])
    BY <2>2, <2>3 DEF Alerts
  <2>5. /\ SumOfTrend(Read(f, "sale trend")) = Read(f, "sale")
        /\ SumOfTrend(Read(f, "purchase trend")) = Read(f, "purchase")
        /\ SumOfTrend(Read(f, "expense trend")) = Read(f, "expense")
        /\ SumOfTrend(Read(f, "hours trend")) = Read(f, "hours")
        /\ Read(f, "alerts") \subseteq Low(scope)
        /\ Cardinality(Read(f, "alerts")) = Cut(Read(f, "low"))
    BY <2>4, ReadsStatement
  <2>. QED
    BY <2>5 DEF f, scope
<1>2. Init => DashboardsAreFresh
  BY DEF Init, DashboardsAreFresh, Fresh, Idle
<1>. QED
  BY <1>1, <1>2, NextFresh, ReportsTypeCorrect, PTL DEF Spec
=============================================================================
