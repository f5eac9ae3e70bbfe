------------------------------ MODULE Attendance ------------------------------
(***************************************************************************)
(* Employees, their attendance records, the weekly workbook that is        *)
(* imported, and the deletion of the store they belong to.  Translated     *)
(* from attendance/ and from the store form and the store deletion of      *)
(* store/.                                                                 *)
(*                                                                         *)
(* A view reads a row, then saves every column of its copy.  An import is  *)
(* one transaction, whose rows others see when it commits; who needs a     *)
(* row or a key it holds waits.  Whether a caller has the role for a store *)
(* is left out: every caller here has it.                                  *)
(***************************************************************************)
EXTENDS Integers, Sequences, FiniteSets, FiniteSetsExt, SequencesExt

CONSTANTS
  Desks,         \* requests served at once
  Stores,
  South,         \* the store of code "mbr-south", whose form is for all stores
  Central,       \* the store with is_global_stock
  FullNames,     \* full names, as typed
  Upper,         \* FullNames -> the name in capitals
  Dates,
  NoTime,        \* a clock that was not filled in
  Day,           \* a day, in units of time
  StartTimes,    \* SHIFT_START_TIMES, in the same units
  Entries,       \* what a form or a row of a sheet says of a day
  Papers,        \* documents of other components that protect their store
  Listed,        \* those among them that the deletion's view looks for
  Opening,       \* the employees there are at first
  Sheets,        \* workbooks: sequences of [name, date, entry]
  MaxEmployees,  \* bound: rows of Employee
  MaxRecords,    \* bound: rows of AttendanceRecord
  MaxRequests    \* bound: edits, deletions and imports begun

Shifts == DOMAIN StartTimes \cup {"off"}
Times == 0..(Day - 1) \cup {NoTime}
Entry ==
  [in : Times, pause : Times, resume : Times, out : Times, shift : Shifts,
   status : {"present", "off", "absent"}]

ASSUME AttendanceAssumption ==
  /\ South \in Stores /\ Central \in Stores
  /\ IsFiniteSet(FullNames) /\ FullNames \cap Nat = {}
  /\ Upper \in [FullNames -> FullNames] /\ \A n \in FullNames : Upper[Upper[n]] = Upper[n]
  /\ Day \in Nat \ {0} /\ NoTime \notin Nat
  /\ StartTimes \in [{"morning", "afternoon", "evening"} -> 0..(Day - 1)]
  /\ Entries \subseteq Entry /\ Listed \subseteq Papers
  /\ Opening \subseteq [store : Stores, name : FullNames] /\ IsFiniteSet(Opening)
  /\ Sheets \subseteq Seq([name : FullNames, date : Dates, entry : Entries])
  /\ MaxEmployees \in Nat /\ MaxRecords \in Nat /\ MaxRequests \in Nat

VARIABLES
  stores,     \* the stores that exist
  papers,     \* Stores -> kinds of documents it has, besides imports
  batches,    \* Stores -> AttendanceImportBatch rows
  employees,  \* the table Employee, a row per primary key
  records,    \* the table AttendanceRecord, a row per primary key
  doing,      \* Desks -> where the request is, with what it has read
  begun       \* edits, deletions and imports begun

attendanceVars == <<stores, papers, batches, employees, records, doing, begun>>

(* moved: it was once in another store.  The position, which decides in    *)
(* which lists an employee is shown, is left out.                          *)
Employee ==
  [store : Stores, name : FullNames, active : BOOLEAN, moved : BOOLEAN,
   gone : BOOLEAN]

(* reimported: the last write was an import's, over a row that was there.  *)
Record ==
  [store : Stores, employee : Nat, date : Dates, entry : Entry, hours : Nat,
   delay : Nat, reimported : BOOLEAN, gone : BOOLEAN]

NewEmployee(s, n) ==
  [store |-> s, name |-> n, active |-> TRUE, moved |-> FALSE, gone |-> FALSE]

Resting == [op |-> "idle"]

AttendanceInit ==
  /\ stores = Stores
  /\ papers = [s \in Stores |-> {}]
  /\ batches = [s \in Stores |-> 0]
  /\ employees = SetToSeq({NewEmployee(h.store, h.name) : h \in Opening})
  /\ records = << >>
  /\ doing = [t \in Desks |-> Resting]
  /\ begun = 0

Does(t, op) == doing[t].op = op
Goes(t, place) == doing' = [doing EXCEPT ![t] = place]
Takes(t) == Does(t, "idle") /\ begun < MaxRequests /\ begun' = begun + 1

-----------------------------------------------------------------------------
(* The hours and the lateness of a day                                     *)

(* A slip for Forward: the day is not turned.                              *)
ForwardSameDay(a, b) == IF b < a THEN 0 ELSE b - a

(* From one time of the clock to another, past midnight if need be.        *)
Forward(a, b) == IF b < a THEN b + Day - a ELSE b - a

(* calculate_hours, which the code rounds to a hundredth of an hour.       *)
HoursWorked(e) ==
  LET pause == IF NoTime \in {e.pause, e.resume} THEN 0 ELSE Forward(e.pause, e.resume)
  IN  IF NoTime \in {e.in, e.out} THEN 0 ELSE Max({Forward(e.in, e.out) - pause, 0})

DelayMinutes(e) ==
  IF e.status # "present" \/ e.shift = "off" \/ e.in = NoTime THEN 0
  ELSE Max({e.in - StartTimes[e.shift], 0})

(* AttendanceRecord.save, all columns.                                     *)
Saved(r) ==
  LET e == IF r.entry.status = "off" THEN [r.entry EXCEPT !.shift = "off"] ELSE r.entry
  IN  [r EXCEPT !.entry = e, !.hours = HoursWorked(e), !.delay = DelayMinutes(e),
                !.reimported = FALSE, !.gone = FALSE]

-----------------------------------------------------------------------------
(* Tables, and what an import under way holds of them                      *)

Hired == {e \in DOMAIN employees : ~employees[e].gone}
Kept == {r \in DOMAIN records : ~records[r].gone}

Importing == {t \in Desks : Does(t, "import")}
Inserted(t) == {k \in DOMAIN doing[t].wrote : doing[t].wrote[k].id = 0}
Locked(t) == {doing[t].wrote[k].id : k \in DOMAIN doing[t].wrote} \ {0}
HeldRecords == UNION {Locked(t) : t \in Importing}
HeldEmployees == UNION {{k[1] : k \in Inserted(t)} : t \in Importing}

(* An import has inserted an employee of this name, not committed.         *)
NameTaken(s, n) ==
  \E t \in Importing :
    doing[t].store = s /\ n \in doing[t].fresh

(* An import has inserted the record of this day, not committed.           *)
DayTaken(s, e, d) ==
  \E t \in Importing :
    doing[t].store = s /\ <<e, d>> \in Inserted(t)

(* unique_store_employee_name, unique_employee_attendance_day; and the     *)
(* foreign keys.                                                           *)
NameFree(s, n, but) ==
  ~\E e \in Hired \ {but} : employees[e].store = s /\ employees[e].name = n
DayFree(s, e, d, but) ==
  ~\E r \in Kept \ {but} :
     records[r].store = s /\ records[r].employee = e /\ records[r].date = d

MayStore(row, id) == row.store \in stores /\ NameFree(row.store, row.name, id)
MayKeep(row, id) ==
  /\ row.store \in stores /\ row.employee \in Hired
  /\ DayFree(row.store, row.employee, row.date, id)

-----------------------------------------------------------------------------
(* Employees                                                               *)

AddEmployee(s, n) ==
  LET row == NewEmployee(s, n)
  IN  /\ Len(employees) < MaxEmployees
      /\ MayStore(row, 0) /\ ~NameTaken(s, n)
      /\ employees' = Append(employees, row)
      /\ UNCHANGED <<stores, papers, batches, records, doing, begun>>

(* _employee_queryset, seen from the store mbr-south: every active one.    *)
FetchEmployee(t, e) ==
  /\ Takes(t)
  /\ e \in Hired /\ employees[e].active
  /\ Goes(t, [op |-> "employee", id |-> e, row |-> employees[e]])
  /\ UNCHANGED <<stores, papers, batches, employees, records>>

EmployeeEdits(row) ==
  {[row EXCEPT !.store = s] : s \in stores} \cup {[row EXCEPT !.name = n] : n \in FullNames}
    \cup {[row EXCEPT !.active = FALSE]}

(* PUT or PATCH: all columns, from the copy.  A row that was deleted       *)
(* meanwhile is inserted again, as Model.save does.                        *)
SaveEmployee(t) ==
  /\ Does(t, "employee")
  /\ \E row \in EmployeeEdits(doing[t].row) :
       LET id == doing[t].id
           old == employees[id]
           now == [row EXCEPT !.gone = FALSE, !.moved = old.moved \/ row.store # old.store]
       IN  /\ id \in HeldEmployees => row.name = old.name /\ row.store = old.store
           /\ ~NameTaken(row.store, row.name)
           /\ employees' = IF MayStore(row, id) THEN [employees EXCEPT ![id] = now]
                           ELSE employees
  /\ Goes(t, Resting)
  /\ UNCHANGED <<stores, papers, batches, records, begun>>

RecordsOf(E) == {r \in Kept : records[r].employee \in E}

(* delete(): the records that refer to the employee are collected first.   *)
CollectEmployee(t, e) ==
  /\ Takes(t)
  /\ e \in Hired /\ employees[e].active
  /\ Goes(t, [op |-> "dismiss", staff |-> {e}, days |-> RecordsOf({e})])
  /\ UNCHANGED <<stores, papers, batches, employees, records>>

Erase(table, ids) ==
  [i \in DOMAIN table |-> IF i \in ids THEN [table[i] EXCEPT !.gone = TRUE] ELSE table[i]]

(* A record that was inserted since then keeps the employee (foreign key). *)
DropEmployee(t) ==
  /\ Does(t, "dismiss")
  /\ doing[t].staff \cap HeldEmployees = {} /\ doing[t].days \cap HeldRecords = {}
  /\ IF RecordsOf(doing[t].staff) \subseteq doing[t].days
     THEN /\ employees' = Erase(employees, doing[t].staff)
          /\ records' = Erase(records, doing[t].days)
     ELSE UNCHANGED <<employees, records>>
  /\ Goes(t, Resting)
  /\ UNCHANGED <<stores, papers, batches, begun>>

-----------------------------------------------------------------------------
(* Attendance records                                                      *)

(* A slip for Placed: the store is taken as it was sent.                   *)
PlacedAnywhere(s, home) == {s}

(* AttendanceRecordSerializer.validate: the store a record gets, if any.   *)
Placed(s, home) ==
  IF s = South THEN {home} ELSE IF s = home THEN {s} ELSE {}

(* POST: validated, then inserted.                                         *)
CheckRecord(t, s, e, d, entry) ==
  /\ Takes(t)
  /\ s \in stores /\ e \in Hired
  /\ \E store \in Placed(s, employees[e].store) :
       Goes(t, [op |-> "record",
                row |-> Saved([store |-> store, employee |-> e, date |-> d, entry |-> entry,
                               hours |-> 0, delay |-> 0, reimported |-> FALSE, gone |-> FALSE])])
  /\ UNCHANGED <<stores, papers, batches, employees, records>>

InsertRecord(t) ==
  LET row == doing[t].row
  IN  /\ Does(t, "record")
      /\ ~DayTaken(row.store, row.employee, row.date)
      /\ IF MayKeep(row, 0)
         THEN Len(records) < MaxRecords /\ records' = Append(records, row)
         ELSE UNCHANGED records
      /\ Goes(t, Resting)
      /\ UNCHANGED <<stores, papers, batches, employees, begun>>

(* homes: where the employees were when the record was read.               *)
FetchRecord(t, r) ==
  /\ Takes(t)
  /\ r \in Kept
  /\ Goes(t, [op |-> "edit", id |-> r, row |-> records[r],
              homes |-> [e \in Hired |-> employees[e].store]])
  /\ UNCHANGED <<stores, papers, batches, employees, records>>

(* A record of another employee, in the store the request names.           *)
GivenTo(row, e) == {[row EXCEPT !.store = s, !.employee = e] : s \in stores}

RecordEdits(row) ==
  {[row EXCEPT !.entry = entry] : entry \in Entries} \cup {[row EXCEPT !.date = d] : d \in Dates}
    \cup UNION {GivenTo(row, e) : e \in Hired}

(* The store of the employee: read with the record, or again, where the    *)
(* request names the employee.                                             *)
Homes(copy, e) ==
  {employees[e].store} \cup (IF e \in DOMAIN copy.homes THEN {copy.homes[e]} ELSE {})

(* PUT or PATCH: all columns, from the copy.                               *)
SaveRecord(t) ==
  /\ Does(t, "edit")
  /\ doing[t].id \notin HeldRecords
  /\ \E row \in RecordEdits(doing[t].row) :
       \E home \in Homes(doing[t], row.employee) :
         LET saved == {[Saved(row) EXCEPT !.store = s] : s \in Placed(row.store, home)}
         IN  \/ /\ \A new \in saved : ~MayKeep(new, doing[t].id)
                /\ UNCHANGED records
             \/ \E new \in saved :
                  /\ MayKeep(new, doing[t].id) /\ ~DayTaken(new.store, new.employee, new.date)
                  /\ records' = [records EXCEPT ![doing[t].id] = new]
  /\ Goes(t, Resting)
  /\ UNCHANGED <<stores, papers, batches, employees, begun>>

(* DELETE of one or of several.                                            *)
DeleteRecords(R) ==
  /\ begun < MaxRequests /\ begun' = begun + 1
  /\ R # {} /\ R \subseteq Kept \ HeldRecords
  /\ records' = Erase(records, R)
  /\ UNCHANGED <<stores, papers, batches, employees, doing>>

-----------------------------------------------------------------------------
(* The store form (update_employees), one transaction                      *)

(* listed: the employees resubmitted, with the names given for them.       *)
(* typed: names without an id, which come last.  Each item is checked in   *)
(* turn against the rows as the items before it left them.                 *)
SameName(n, m) == Upper[n] = Upper[m]

NameAt(listed, e, id) ==
  IF e \in DOMAIN listed /\ e < id THEN listed[e] ELSE employees[e].name

Staff(s) == {e \in Hired : employees[e].store = s}

FormAccepted(s, listed, typed) ==
  /\ DOMAIN listed \subseteq Staff(s)
  /\ \A e \in DOMAIN listed, f \in DOMAIN listed :
       e # f => ~SameName(listed[e], listed[f])
  /\ \A e \in DOMAIN listed, n \in typed : ~SameName(listed[e], n)
  /\ \A n, m \in typed : n # m => ~SameName(n, m)
  /\ \A e \in DOMAIN listed, f \in Staff(s) :
       e # f => ~SameName(NameAt(listed, f, e), listed[e])

(* The employee a typed name stands for: one of that name, or a new one.   *)
Meant(s, listed, n) ==
  {e \in Staff(s) : SameName(NameAt(listed, e, MaxEmployees + 1), n)}

StoreForm(s, listed, typed) ==
  LET meant == UNION {Meant(s, listed, n) : n \in typed}
      kept == DOMAIN listed \cup meant
      new == {n \in typed : Meant(s, listed, n) = {}}
      Name(e) == IF e \in DOMAIN listed THEN listed[e]
                 ELSE CHOOSE n \in typed : e \in Meant(s, listed, n)
  IN  /\ begun < MaxRequests /\ begun' = begun + 1
      /\ s \in stores \ {South, Central}
      /\ ~\E t \in Importing : doing[t].store = s
      /\ FormAccepted(s, listed, typed)
      /\ \A n \in typed : Cardinality(Meant(s, listed, n)) <= 1
      /\ Len(employees) + Cardinality(new) <= MaxEmployees
      /\ employees' =
           [e \in DOMAIN employees |->
              IF e \in kept
              THEN [employees[e] EXCEPT !.name = Name(e), !.active = TRUE]
              ELSE IF e \in Staff(s) THEN [employees[e] EXCEPT !.active = FALSE]
              ELSE employees[e]]
           \o SetToSeq({NewEmployee(s, n) : n \in new})
      /\ UNCHANGED <<stores, papers, batches, records, doing>>

-----------------------------------------------------------------------------
(* import_attendance_from_workbook, one transaction                        *)

(* What a row of the sheet says: "off" where the arrival should be, no     *)
(* clock at all, else present; no shift but the evening's is recognised.   *)
FromSheet(e) ==
  LET in == IF e.status = "off" THEN NoTime ELSE e.in
      status == IF e.status = "off" THEN "off"
                ELSE IF in = NoTime /\ e.out = NoTime THEN "absent" ELSE "present"
      shift == IF "off" \in {status, e.shift} THEN "off"
               ELSE IF e.shift = "evening" THEN "evening" ELSE "morning"
  IN  [e EXCEPT !.in = in, !.status = status, !.shift = shift]

(* fresh: the employees it has inserted, by name.  wrote: employee (the    *)
(* name of a fresh one) and date, to the record it updates (0 for one it   *)
(* inserts), and what the first and the last row about them say.           *)
OpenImport(t, s, file) ==
  /\ Takes(t)
  /\ s \in stores
  /\ Goes(t, [op |-> "import", store |-> s, file |-> file, next |-> 1,
              fresh |-> {}, wrote |-> << >>])
  /\ UNCHANGED <<stores, papers, batches, employees, records>>

RecordsOn(s, e, d) ==
  {r \in Kept : records[r].store = s /\ records[r].employee = e /\ records[r].date = d}

(* The employee and the record a row of the sheet is about, if there.      *)
EmployeeOf(tx, n) ==
  LET there == {e \in Hired : employees[e].store = tx.store /\ employees[e].name = n}
  IN  IF there = {} THEN 0 ELSE CHOOSE e \in there : TRUE

RecordOf(tx, e, d) ==
  LET there == RecordsOn(tx.store, e, d)
  IN  IF there = {} THEN 0 ELSE CHOOSE r \in there : TRUE

(* Another import has inserted this employee or this record, or has locked *)
(* the record, and has not ended.                                          *)
Awaits(t, n, e, r, d) ==
  \E u \in Importing \ {t} :
    \/ e = 0 /\ doing[u].store = doing[t].store /\ n \in doing[u].fresh
    \/ e # 0 /\ r = 0 /\ doing[u].store = doing[t].store /\ <<e, d>> \in Inserted(u)
    \/ r # 0 /\ r \in Locked(u)

(* What an import has written, with a row's entry under k.                 *)
Noted(wrote, k, id, entry) ==
  [x \in DOMAIN wrote \cup {k} |->
     IF x # k THEN wrote[x]
     ELSE [id |-> id, first |-> IF k \in DOMAIN wrote THEN wrote[k].first ELSE entry,
           last |-> entry]]

(* get_or_create of the employee, update_or_create of the record.          *)
ImportLine(t) ==
  LET tx == doing[t]
      row == tx.file[tx.next]
      name == Upper[row.name]
      e == EmployeeOf(tx, name)
      r == RecordOf(tx, e, row.date)
      k == <<IF e = 0 THEN name ELSE e, row.date>>
  IN  /\ Does(t, "import") /\ tx.next <= Len(tx.file)
      /\ ~Awaits(t, name, e, r, row.date)
      /\ Goes(t, [tx EXCEPT
           !.next = tx.next + 1,
           !.fresh = IF e = 0 THEN tx.fresh \cup {name} ELSE tx.fresh,
           !.wrote = Noted(tx.wrote, k, r, FromSheet(row.entry))])
      /\ UNCHANGED <<stores, papers, batches, employees, records, begun>>

(* The tables with an import's rows in them.                               *)
Staffed(tx) ==
  employees \o SetToSeq({NewEmployee(tx.store, n) : n \in tx.fresh})

(* update_or_create saves the columns it was given, and no other: hours    *)
(* and lateness stay.                                                      *)
Rewritten(r, entry) == [r EXCEPT !.entry = entry, !.reimported = TRUE]

(* The record an import inserts, with what its later rows make of it.      *)
Entered(tx, who, d, w) ==
  LET new == Saved([store |-> tx.store, employee |-> who, date |-> d, entry |-> w.first,
                    hours |-> 0, delay |-> 0, reimported |-> FALSE, gone |-> FALSE])
  IN  IF w.last = w.first THEN new ELSE Rewritten(new, w.last)

Recorded(tx) ==
  LET staff == Staffed(tx)
      Who(k) == IF k[1] \in DOMAIN employees THEN k[1]
                ELSE CHOOSE e \in DOMAIN staff \ DOMAIN employees : staff[e].name = k[1]
      updated == {k \in DOMAIN tx.wrote : tx.wrote[k].id # 0}
      inserted == DOMAIN tx.wrote \ updated
  IN  [r \in DOMAIN records |->
         IF \E k \in updated : tx.wrote[k].id = r
         THEN Rewritten(records[r], tx.wrote[CHOOSE k \in updated : tx.wrote[k].id = r].last)
         ELSE records[r]]
      \o SetToSeq({Entered(tx, Who(k), k[2], tx.wrote[k]) : k \in inserted})

CommitImport(t) ==
  /\ Does(t, "import") /\ doing[t].next > Len(doing[t].file)
  /\ doing[t].store \in stores
  /\ employees' = Staffed(doing[t]) /\ Len(employees') <= MaxEmployees
  /\ records' = Recorded(doing[t]) /\ Len(records') <= MaxRecords
  /\ batches' = [batches EXCEPT ![doing[t].store] = @ + 1]
  /\ Goes(t, Resting)
  /\ UNCHANGED <<stores, papers, begun>>

(* A slip for AbortImport: no @transaction.atomic.                         *)
AbortImportKeeping(t) ==
  /\ Does(t, "import")
  /\ employees' = Staffed(doing[t]) /\ Len(employees') <= MaxEmployees
  /\ records' = Recorded(doing[t]) /\ Len(records') <= MaxRecords
  /\ Goes(t, Resting)
  /\ UNCHANGED <<stores, papers, batches, begun>>

(* A deadlock of two imports, or a worker that dies.                       *)
AbortImport(t) ==
  /\ Does(t, "import")
  /\ Goes(t, Resting)
  /\ UNCHANGED <<stores, papers, batches, employees, records, begun>>

-----------------------------------------------------------------------------
(* Documents of other components, and the deletion of stores               *)

WritePaper(s, kind) ==
  /\ s \in stores /\ kind \notin papers[s]
  /\ papers' = [papers EXCEPT ![s] = @ \cup {kind}]
  /\ UNCHANGED <<stores, batches, employees, records, doing, begun>>

RecordsIn(S) == {r \in Kept : records[r].store \in S}

(* _ensure_store_can_be_deleted.                                           *)
Empty(s) ==
  papers[s] \cap Listed = {} /\ batches[s] = 0 /\ Staff(s) = {} /\ RecordsIn({s}) = {}

(* One store, which the list must show, or several at once.                *)
GuardStores(t, S) ==
  /\ Takes(t)
  /\ S # {} /\ S \subseteq stores \ {Central}
  /\ S # {South}
  /\ \A s \in S : Empty(s)
  /\ Goes(t, [op |-> "close", stores |-> S])
  /\ UNCHANGED <<stores, papers, batches, employees, records>>

(* A slip for Protected: imports go with their store.                      *)
ProtectedButImports(S) == \E s \in S : papers[s] # {}

(* on_delete=PROTECT, and the foreign keys: any document, and imports.     *)
Protected(S) == \E s \in S : papers[s] # {} \/ batches[s] > 0

(* Store.delete(): what is protected refuses it, employees and records are *)
(* collected to go with the store.                                         *)
CollectStores(t) ==
  LET S == doing[t].stores
      staff == UNION {Staff(s) : s \in S}
  IN  /\ Does(t, "close")
      /\ IF Protected(S) THEN Goes(t, Resting)
         ELSE Goes(t, [op |-> "drop", stores |-> S, staff |-> staff,
                       days |-> RecordsOf(staff) \cup RecordsIn(S)])
      /\ UNCHANGED <<stores, papers, batches, employees, records, begun>>

(* The foreign keys: nothing that was not collected refers to what goes;   *)
(* a transaction that has referred to it is waited for.                    *)
Unreferenced(tx) ==
  /\ ~Protected(tx.stores)
  /\ \A s \in tx.stores : Staff(s) \subseteq tx.staff
  /\ RecordsIn(tx.stores) \cup RecordsOf(tx.staff) \subseteq tx.days

DropStores(t) ==
  /\ Does(t, "drop")
  /\ \A u \in Importing : doing[u].store \notin doing[t].stores
  /\ doing[t].staff \cap HeldEmployees = {} /\ doing[t].days \cap HeldRecords = {}
  /\ IF Unreferenced(doing[t])
     THEN /\ stores' = stores \ doing[t].stores
          /\ employees' = Erase(employees, doing[t].staff)
          /\ records' = Erase(records, doing[t].days)
     ELSE UNCHANGED <<stores, employees, records>>
  /\ Goes(t, Resting)
  /\ UNCHANGED <<papers, batches, begun>>

-----------------------------------------------------------------------------
Work(t) ==
  \/ SaveEmployee(t) \/ DropEmployee(t) \/ InsertRecord(t) \/ SaveRecord(t)
  \/ ImportLine(t) \/ CommitImport(t) \/ AbortImport(t)
  \/ CollectStores(t) \/ DropStores(t)

EmployeeDesk ==
  \/ \E s \in Stores, n \in FullNames : AddEmployee(s, n)
  \/ \E t \in Desks, e \in DOMAIN employees : FetchEmployee(t, e) \/ CollectEmployee(t, e)
  \/ \E s \in Stores, typed \in SUBSET FullNames, ids \in SUBSET DOMAIN employees :
       \E listed \in [ids -> FullNames] : StoreForm(s, listed, typed)

RecordDesk ==
  \/ \E t \in Desks, s \in Stores, e \in DOMAIN employees, d \in Dates, entry \in Entries :
       CheckRecord(t, s, e, d, entry)
  \/ \E t \in Desks, r \in DOMAIN records : FetchRecord(t, r)
  \/ \E R \in SUBSET DOMAIN records : DeleteRecords(R)

Office ==
  \/ \E t \in Desks, s \in Stores, file \in Sheets : OpenImport(t, s, file)
  \/ \E s \in Stores, kind \in Papers : WritePaper(s, kind)
  \/ \E t \in Desks, S \in SUBSET Stores : GuardStores(t, S)

AttendanceNext == (\E t \in Desks : Work(t)) \/ EmployeeDesk \/ RecordDesk \/ Office

AttendanceSpec == AttendanceInit /\ [][AttendanceNext]_attendanceVars

-----------------------------------------------------------------------------
(* Properties                                                              *)

(* Types; what exists refers to what exists, as the foreign keys promise.  *)
AttendanceTypeOK ==
  /\ stores \subseteq Stores
  /\ papers \in [Stores -> SUBSET Papers] /\ batches \in [Stores -> Nat]
  /\ employees \in Seq(Employee) /\ records \in Seq(Record)
  /\ \A e \in Hired : employees[e].store \in stores
  /\ \A r \in Kept : records[r].store \in stores /\ records[r].employee \in Hired
  /\ begun \in 0..MaxRequests

(* The times of the clock a walk from one to another goes through.         *)
Walk(a, b) == {k \in 0..(Day - 1) : (k - a) % Day < (b - a) % Day}

(* calculate_hours, calculate_delay_minutes: however the rows were edited, *)
(* imported and written back from old copies, a day's hours are the times  *)
(* worked on the clock, its break left out, also over midnight, and its    *)
(* lateness the times from the start of the shift to the arrival.  A row   *)
(* an import wrote over is the exception: its hours are the former row's.  *)
PaidByTheClock ==
  \A r \in Kept :
    LET e == records[r].entry
        worked == IF NoTime \in {e.in, e.out} THEN {} ELSE Walk(e.in, e.out)
        pause == IF NoTime \in {e.pause, e.resume} THEN {} ELSE Walk(e.pause, e.resume)
        late == IF e.status = "present" /\ e.shift # "off" /\ e.in # NoTime
                THEN {k \in Walk(StartTimes[e.shift], e.in) : k < e.in} ELSE {}
    IN  ~records[r].reimported =>
          /\ pause \subseteq worked =>
               records[r].hours = Cardinality(worked) - Cardinality(pause)
          /\ records[r].delay = IF e.in = NoTime \/ e.shift = "off" THEN 0
                                ELSE IF e.in < StartTimes[e.shift] THEN 0
                                ELSE Cardinality(late)

(* An employee has one record a day, in whatever store, unless she changed *)
(* stores: forms sent from mbr-south and imports find the same row.        *)
OneRecordADay ==
  \A q, r \in Kept :
    /\ q # r
    /\ records[q].employee = records[r].employee /\ records[q].date = records[r].date
    => employees[records[r].employee].moved

(* The last row of a sheet about a name and a day.                         *)
Final(file, i) ==
  ~\E j \in DOMAIN file :
     j > i /\ Upper[file[j].name] = Upper[file[i].name] /\ file[j].date = file[i].date

(* Row i of a sheet has its record; or, where the employee was renamed     *)
(* from its name to that of a later row of the day, the later row has.     *)
Reflected(tx, i, staff, days) ==
  LET row == tx.file[i]
      renamed == {j \in DOMAIN tx.file :
                    /\ j > i /\ tx.file[j].date = row.date
                    /\ Upper[tx.file[j].name] # Upper[row.name]}
  IN  \E r \in DOMAIN days :
        /\ ~days[r].gone /\ days[r].store = tx.store /\ days[r].date = row.date
        /\ \/ staff[days[r].employee].name = Upper[row.name]
           \/ \E k \in DOMAIN tx.wrote : k[1] = days[r].employee
        /\ \E j \in {i} \cup renamed : days[r].entry = FromSheet(tx.file[j].entry)

(* An import ends with its batch and a record for each of its rows that    *)
(* says what the sheet says, or with nothing, whatever others did to the   *)
(* employees and records meanwhile.                                        *)
ImportsWholeOrNot ==
  [][\A t \in Desks :
       Does(t, "import") /\ doing'[t] = Resting =>
         \/ UNCHANGED <<employees, records, batches>>
         \/ /\ batches'[doing[t].store] = batches[doing[t].store] + 1
            /\ \A i \in DOMAIN doing[t].file :
                 Final(doing[t].file, i) =>
                   Reflected(doing[t], i, employees', records')]_attendanceVars

(* "Impossible de supprimer ce magasin car il contient deja des donnees":  *)
(* no store goes while a document or an import is in it, not even one that *)
(* came between the check and the deletion.                                *)
DeletionSparesDocuments ==
  \A s \in Stores \ stores : papers[s] = {} /\ batches[s] = 0
=============================================================================
