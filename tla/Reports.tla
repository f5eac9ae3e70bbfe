-------------------------------- MODULE Reports --------------------------------
(***************************************************************************)
(* Expenses, which the managers of a store enter, and the reports that     *)
(* read them with the sales, purchases, hours and stock of the stores.     *)
(* Translated from finance/ and reporting/.                                *)
(*                                                                         *)
(* Nothing here opens a transaction.  A dashboard reads the stores it is   *)
(* about once, then one figure per statement, while others write.  An      *)
(* edit of an expense saves every column of the copy it read.  Customers,  *)
(* promotions, transfers and inventories are counted as purchases are;     *)
(* the dates of products, margins, the other lists cut to ten or twelve    *)
(* rows, layout, and accounts for the clock only are left out.             *)
(***************************************************************************)
EXTENDS Integers, Sequences, FiniteSets, FiniteSetsExt, TLC

CONSTANTS
  Slots,      \* requests served at once
  Users,
  Staff,      \* the users with is_staff
  Stores,
  NoStore,    \* a request without store, or for "all"
  Days,
  Amounts,
  Periods,    \* pairs of days a report is asked for
  Enough,     \* the stock above which a row is not low
  AlertsShown, \* low rows a dashboard lists at most (10)
  Opening,    \* the rows there are at first, by primary key
  Rights,     \* the stores each user belongs to, and manages, at first
  MaxRows,    \* bound: rows ever inserted
  MaxWrites,  \* bound: requests to write, changes of rights
  MaxReports  \* bound: dashboards begun

Kinds == {"sale", "purchase", "expense", "attendance", "balance"}

(* A row of Sale, Purchase, Expense, AttendanceRecord or StockBalance.     *)
(* amount: its total, amount, hours or quantity; counted: a sale is        *)
(* confirmed, a purchase received.                                         *)
Row == [kind : Kinds, store : Stores, day : Days, amount : Int, counted : BOOLEAN]

ASSUME ReportsAssumption ==
  /\ Staff \subseteq Users /\ NoStore \notin Stores \cup Slots
  /\ IsFiniteSet(Stores) /\ IsFiniteSet(Days)
  /\ Days \subseteq Int /\ Amounts \subseteq Nat /\ Periods \subseteq Int \X Int
  /\ Enough \in Nat /\ AlertsShown \in Nat
  /\ Opening \in Seq(Row) /\ Len(Opening) <= MaxRows
  /\ Rights \in [Users -> [sees : SUBSET Stores, manages : SUBSET Stores]]
  /\ MaxRows \in Nat /\ MaxWrites \in Nat /\ MaxReports \in Nat

VARIABLES
  rows,     \* all tables: a row for each primary key there is
  issued,   \* primary keys given out
  rights,   \* the stores whose membership a user has, and the ones as manager
  open,     \* the stores with is_active
  at,       \* Slots -> where the request is, with what it has read
  writes,   \* requests to write, changes of rights
  reports   \* dashboards begun

vars == <<rows, issued, rights, open, at, writes, reports>>

Idle == [op |-> "idle"]

Init ==
  /\ rows = Opening /\ issued = Len(Opening)
  /\ rights = Rights /\ open = Stores
  /\ at = [t \in Slots |-> Idle]
  /\ writes = 0 /\ reports = 0

At(t, op) == at[t].op = op
Of(kind) == {r \in DOMAIN rows : rows[r].kind = kind}

(* user_store_ids                                                          *)
StoreIds(u) == IF u \in Staff THEN open ELSE rights[u].sees \cap open

(* A slip for Manages: whoever belongs to a store.                         *)
ManagesAsMember(u, s) == s \in open /\ (u \in Staff \/ s \in rights[u].sees)

(* user_has_store_access with MANAGEMENT_ROLES.                            *)
Manages(u, s) == s \in open /\ (u \in Staff \/ s \in rights[u].manages)

(* What a request keeps of its user's rights, for the property below.      *)
Managed(u) == IF u \in Staff THEN Stores ELSE rights[u].manages

(* quiet: no row was written since the dashboard began to read.            *)
Goto(t, place, writing) ==
  at' = [s \in Slots |->
           IF s = t THEN place
           ELSE IF At(s, "dashboard") /\ writing THEN [at[s] EXCEPT !.quiet = FALSE]
           ELSE at[s]]

Anyone == NoStore  \* a request of one statement, which no slot holds

Writes == writes < MaxWrites /\ writes' = writes + 1

-----------------------------------------------------------------------------
(* Expenses                                                                *)

(* Model.save: all columns of the rows of these primary keys.              *)
Put(ids, row) == [r \in DOMAIN rows \cup ids |-> IF r \in ids THEN row ELSE rows[r]]

Insert(row) ==
  /\ issued < MaxRows /\ issued' = issued + 1
  /\ rows' = Put({issued'}, row)

(* ExpenseListCreateView.post                                              *)
AddExpense(u, s, day, amount) ==
  /\ Writes
  /\ Manages(u, s)
  /\ Insert([kind |-> "expense", store |-> s, day |-> day, amount |-> amount, counted |-> TRUE])
  /\ Goto(Anyone, Idle, TRUE)
  /\ UNCHANGED <<rights, open, reports>>

(* _get_expense_for_user                                                   *)
Found(u, r) == u \in Staff \/ rows[r].store \in StoreIds(u)

Changed(row) ==
  {[row EXCEPT !.store = s] : s \in Stores} \cup {[row EXCEPT !.amount = x] : x \in Amounts}
    \cup {[row EXCEPT !.day = d] : d \in Days}

(* put, patch: the user manages the store of the copy and the one it is    *)
(* sent to.                                                                *)
FetchExpense(t, u, r, row) ==
  /\ At(t, "idle") /\ Writes
  /\ r \in Of("expense") /\ Found(u, r) /\ Manages(u, rows[r].store)
  /\ Manages(u, row.store)
  /\ Goto(t, [op |-> "save", managed |-> Managed(u), read |-> [x \in {r} |-> rows[x]], row |-> row], FALSE)
  /\ UNCHANGED <<rows, issued, rights, open, reports>>

(* Model.save: an expense deleted meanwhile is inserted again.             *)
SaveExpense(t) ==
  /\ At(t, "save")
  /\ rows' = Put(DOMAIN at[t].read, at[t].row)
  /\ Goto(t, Idle, TRUE)
  /\ UNCHANGED <<issued, rights, open, writes, reports>>

Deletable(u, r) == u \in Staff \/ (rows[r].store \in rights[u].manages /\ rows[r].store \in open)

(* ExpenseDetailEditDeleteView.delete, BulkDeleteExpensesView.delete: of   *)
(* the expenses named, those the user may delete are read, then deleted.   *)
FetchDoomed(t, u, named) ==
  LET ids == {r \in named : Deletable(u, r)}
  IN  /\ At(t, "idle") /\ Writes
      /\ named \subseteq Of("expense") /\ ids # {}
      /\ Goto(t, [op |-> "delete", managed |-> Managed(u), read |-> [r \in ids |-> rows[r]]], FALSE)
      /\ UNCHANGED <<rows, issued, rights, open, reports>>

DeleteExpenses(t) ==
  /\ At(t, "delete")
  /\ rows' = [r \in DOMAIN rows \ DOMAIN at[t].read |-> rows[r]]
  /\ Goto(t, Idle, TRUE)
  /\ UNCHANGED <<issued, rights, open, writes, reports>>

-----------------------------------------------------------------------------
(* What the rest of the program does meanwhile                             *)

(* A sale, a purchase that is still to be received, a day of attendance.   *)
Enter(kind, s, day, amount) ==
  /\ Writes
  /\ kind \in {"sale", "purchase", "attendance"}
  /\ Insert([kind |-> kind, store |-> s, day |-> day, amount |-> amount,
             counted |-> kind # "purchase"])
  /\ Goto(Anyone, Idle, TRUE)
  /\ UNCHANGED <<rights, open, reports>>

(* A sale is voided, a purchase received; stock is moved.                  *)
Update(r) ==
  /\ Writes
  /\ \/ r \in Of("sale") /\ rows[r].counted /\ rows' = [rows EXCEPT ![r].counted = FALSE]
     \/ r \in Of("purchase") /\ ~rows[r].counted /\ rows' = [rows EXCEPT ![r].counted = TRUE]
     \/ \E d \in {-1, 1} : r \in Of("balance") /\ rows' = [rows EXCEPT ![r].amount = @ + d]
  /\ Goto(Anyone, Idle, TRUE)
  /\ UNCHANGED <<issued, rights, open, reports>>

(* Memberships and stores are edited (Accounts).                           *)
ChangeRights ==
  /\ Writes
  /\ \/ \E u \in Users \ Staff, s \in Stores : \E manager \in BOOLEAN :
          /\ rights' = [rights EXCEPT ![u] =
                          [sees |-> @.sees \cup {s},
                           manages |-> IF manager THEN @.manages \cup {s} ELSE @.manages \ {s}]]
          /\ UNCHANGED open
     \/ \E s \in open : open' = open \ {s} /\ UNCHANGED rights
  /\ UNCHANGED <<rows, issued, at, reports>>

-----------------------------------------------------------------------------
(* Reports                                                                 *)

(* A slip for Scope: without a store named, the filter is forgotten.       *)
ScopeOfAll(u, s) == IF s # NoStore THEN {s} \cap StoreIds(u) ELSE Stores

(* get_dashboard_store_scope, get_store_ids: the stores a report is about, *)
(* none of them where permission is denied; an administrator who names     *)
(* none gets the closed ones too.                                          *)
Scope(u, s) ==
  IF s # NoStore THEN {s} \cap StoreIds(u)
  ELSE IF u \in Staff THEN Stores
  ELSE StoreIds(u)

(* The rows a figure is about: confirmed or received, and in the period.   *)
Selected(kind, scope, period) ==
  {r \in Of(kind) : /\ rows[r].store \in scope /\ rows[r].counted
                    /\ kind = "balance" \/ (period[1] <= rows[r].day /\ rows[r].day <= period[2])}

Total(S) == MapThenSumSet(LAMBDA r : rows[r].amount, S)

TotalOf(kind, scope, period) == Total(Selected(kind, scope, period))
CountOf(kind, scope, period) == Cardinality(Selected(kind, scope, period))

(* is_low_stock                                                            *)
Low(scope) == {r \in Of("balance") : rows[r].store \in scope /\ rows[r].amount <= Enough}

(* Of many low rows the first are listed, in the order of the names of     *)
(* their store and product, which are left out: they may be any.           *)
Cut(n) == IF n <= AlertsShown THEN n ELSE AlertsShown

Alerts(scope) ==
  {listed \in SUBSET Low(scope) : Cardinality(listed) = Cut(Cardinality(Low(scope)))}

(* A slip for Trend: the period is not applied.                            *)
TrendOfAll(kind, scope, period) ==
  [d \in Days |-> Total({r \in Of(kind) : rows[r].store \in scope /\ rows[r].day = d})]

(* The rows of a period, by day.                                           *)
Trend(kind, scope, period) ==
  [d \in Days |-> Total({r \in Selected(kind, scope, period) : rows[r].day = d})]

(* The statements of StoreDashboardReportView.get, in their order.         *)
Statements ==
  <<"low", "sale", "expense", "purchase", "stock", "sales", "orders", "hours",
    "sale trend", "purchase trend", "expense trend", "hours trend", "alerts">>

Figure(statement, scope, period) ==
  CASE statement = "low" -> Cardinality(Low(scope))
    [] statement \in {"sale", "expense", "purchase"} -> TotalOf(statement, scope, period)
    [] statement = "stock" -> TotalOf("balance", scope, period)
    [] statement = "sales" -> CountOf("sale", scope, period)
    [] statement = "orders" -> CountOf("purchase", scope, period)
    [] statement = "hours" -> TotalOf("attendance", scope, period)
    [] statement = "sale trend" -> Trend("sale", scope, period)
    [] statement = "purchase trend" -> Trend("purchase", scope, period)
    [] statement = "expense trend" -> Trend("expense", scope, period)
    [] statement = "hours trend" -> Trend("attendance", scope, period)

(* What a statement may answer.                                            *)
Figures(statement, scope, period) ==
  IF statement = "alerts" THEN Alerts(scope) ELSE {Figure(statement, scope, period)}

BeginDashboard(t, u, s, period) ==
  /\ At(t, "idle") /\ reports < MaxReports /\ reports' = reports + 1
  /\ s # NoStore => Scope(u, s) # {}
  /\ Goto(t, [op |-> "dashboard", scope |-> Scope(u, s), period |-> period,
              figures |-> <<>>, quiet |-> TRUE], FALSE)
  /\ UNCHANGED <<rows, issued, rights, open, writes>>

ReadFigure(t) ==
  LET n == Len(at[t].figures) + 1
  IN  /\ At(t, "dashboard") /\ n <= Len(Statements)
      /\ \E figure \in Figures(Statements[n], at[t].scope, at[t].period) :
           Goto(t, [at[t] EXCEPT !.figures = Append(@, figure)], FALSE)
      /\ UNCHANGED <<rows, issued, rights, open, writes, reports>>

AnswerDashboard(t) ==
  /\ At(t, "dashboard") /\ Len(at[t].figures) = Len(Statements)
  /\ Goto(t, Idle, FALSE)
  /\ UNCHANGED <<rows, issued, rights, open, writes, reports>>

(* _queryset_for_export: one statement, and rows of any status.            *)
Exported(u, s, kind, period) ==
  {r \in Of(kind) :
     /\ rows[r].store \in Scope(u, s)
     /\ kind = "balance" \/ (period[1] <= rows[r].day /\ rows[r].day <= period[2])}

-----------------------------------------------------------------------------
ExpenseDesk ==
  \/ \E u \in Users, s \in Stores, day \in Days, x \in Amounts : AddExpense(u, s, day, x)
  \/ \E t \in Slots, u \in Users :
       \/ \E r \in Of("expense") : \E row \in Changed(rows[r]) : FetchExpense(t, u, r, row)
       \/ \E named \in SUBSET Of("expense") : FetchDoomed(t, u, named)
  \/ \E t \in Slots : SaveExpense(t) \/ DeleteExpenses(t)

Elsewhere ==
  \/ \E kind \in Kinds, s \in Stores, day \in Days, x \in Amounts : Enter(kind, s, day, x)
  \/ \E r \in DOMAIN rows : Update(r)
  \/ ChangeRights

Dashboards ==
  \E t \in Slots :
    \/ \E u \in Users, s \in Stores \cup {NoStore}, period \in Periods :
         BeginDashboard(t, u, s, period)
    \/ ReadFigure(t) \/ AnswerDashboard(t)

Next == ExpenseDesk \/ Elsewhere \/ Dashboards

Spec == Init /\ [][Next]_vars

-----------------------------------------------------------------------------
(* Properties                                                              *)

TypeOK ==
  /\ DOMAIN rows \subseteq 1..issued /\ issued \in 0..MaxRows
  /\ \A r \in DOMAIN rows : rows[r] \in Row
  /\ rights \in [Users -> [sees : SUBSET Stores, manages : SUBSET Stores]]
  /\ open \subseteq Stores

Read(figures, statement) ==
  figures[CHOOSE i \in DOMAIN Statements : Statements[i] = statement]

SumOfTrend(trend) == MapThenSumSet(LAMBDA d : trend[d], DOMAIN trend)

(* A dashboard during which nobody wrote adds up, though it was read       *)
(* statement by statement: the days of each trend sum to its total, and    *)
(* every alert is a low row, one for each that was counted up to the ten   *)
(* that are listed (stock_alerts, low_stock_count).                        *)
QuietReportAdds ==
  \A t \in Slots :
    At(t, "dashboard") /\ at[t].quiet /\ Len(at[t].figures) = Len(Statements) =>
      LET f == at[t].figures
      IN  /\ SumOfTrend(Read(f, "sale trend")) = Read(f, "sale")
          /\ SumOfTrend(Read(f, "purchase trend")) = Read(f, "purchase")
          /\ SumOfTrend(Read(f, "expense trend")) = Read(f, "expense")
          /\ SumOfTrend(Read(f, "hours trend")) = Read(f, "hours")
          /\ Read(f, "alerts") \subseteq Low(at[t].scope)
          /\ Cardinality(Read(f, "alerts")) = Cut(Read(f, "low"))

(* The figures of all stores are those of the stores one may name, added;  *)
(* an administrator's count closed stores as well, which cannot be named.  *)
(* An export lists what the dashboard counts, and rows it does not count.  *)
WholeIsTheSumOfItsParts ==
  \A u \in Users, period \in Periods, kind \in Kinds :
    LET whole == TotalOf(kind, Scope(u, NoStore), period)
        parts == MapThenSumSet(LAMBDA s : TotalOf(kind, Scope(u, s), period), Stores)
        closed == IF u \in Staff THEN TotalOf(kind, Stores \ open, period) ELSE 0
        listed == UNION {Exported(u, s, kind, period) : s \in Stores}
    IN  /\ whole = parts + closed
        /\ Selected(kind, Scope(u, NoStore), period) \subseteq Exported(u, NoStore, kind, period)
        /\ listed = {r \in Exported(u, NoStore, kind, period) : rows[r].store \in open}

(* An expense is changed or deleted on behalf of nobody but a manager of   *)
(* the store it is in, and goes to a store that is managed too, as the     *)
(* rights were when the request read them, unless somebody else changed    *)
(* the expense since it was read.                                          *)
ExpensesStayManaged ==
  [][\A r \in Of("expense") :
       r \notin DOMAIN rows' \/ rows'[r] # rows[r] =>
         \E t \in Slots :
           /\ at'[t] # at[t] /\ at[t].op \in {"save", "delete"} /\ r \in DOMAIN at[t].read
           /\ rows[r] = at[t].read[r] => rows[r].store \in at[t].managed
           /\ r \in DOMAIN rows' => rows'[r].store \in at[t].managed]_vars
=============================================================================
