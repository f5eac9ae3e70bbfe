----------------------------- MODULE StockAlerts -----------------------------
(***************************************************************************)
(* One row of StockBalance and everybody who writes it: movements, under   *)
(* the row's lock; the threshold and the detail views, from a copy read    *)
(* without a lock; the Celery task that tells the managers of the store    *)
(* that the stock is low.  Translated from notification/tasks.py,          *)
(* stock/models.py, stock/views.py and stock/services.py.                  *)
(***************************************************************************)
EXTENDS Integers, FiniteSets

CONSTANTS
  Movers,      \* requests that move or edit the row
  Workers,     \* Celery tasks run at once
  Management,  \* _recipients: management of the store, and staff
  Wants,       \* Management -> NotificationPreference.notify_low_stock
  Nobody,
  NoMinimum,   \* min_stock is null
  Default,     \* Product.default_stock_alert
  Opening,     \* the quantity at first
  Deltas,      \* the quantities moved
  Minima,      \* the thresholds set by an edit
  Counts,      \* the quantities set by an edit
  Operations,  \* the operations a run allows
  MaxMoves,    \* bound: movements made
  MaxEdits,    \* bound: edits of the row made
  MaxElapsed   \* bound: repeat periods that pass

ASSUME AlertsAssumption ==
  /\ Wants \in [Management -> BOOLEAN]
  /\ Nobody \notin Movers
  /\ NoMinimum \notin Nat
  /\ Default \in Nat /\ Opening \in Int
  /\ Deltas \subseteq Int \ {0}
  /\ Minima \subseteq Nat \cup {NoMinimum} /\ Counts \subseteq Int
  /\ IsFiniteSet(Workers)
  /\ Operations \subseteq {"threshold", "patch"}
  /\ MaxMoves \in Nat /\ MaxEdits \in Nat /\ MaxElapsed \in Nat

VARIABLES
  quantity,  \* StockBalance.quantity
  minimum,   \* StockBalance.min_stock
  notified,  \* low_stock_notified_at is set
  moved,     \* sum of the committed movements
  undone,    \* what edits that write the quantity took back of them
  lock,      \* the transaction that holds the row
  at,        \* Movers -> where the request is
  queue,     \* tasks notify_low_stock_if_needed waiting in Redis
  task,      \* Workers -> where the task is, with what it has read
  recent,    \* Management -> alerts sent within the user's repeat period
  told,      \* users who were ever alerted
  alone,     \* the last task taken found no other running
  moves, edited, elapsed   \* counters of the bounds

row == <<quantity, minimum, notified>>
counters == <<moves, edited, elapsed>>
vars == <<row, moved, undone, lock, at, queue, task, recent, told, alone, counters>>

Idle == [op |-> "idle"]

Init ==
  /\ quantity = Opening
  /\ minimum = NoMinimum
  /\ notified = FALSE
  /\ moved = 0 /\ undone = 0
  /\ lock = Nobody
  /\ at = [m \in Movers |-> Idle]
  /\ queue = 0
  /\ task = [w \in Workers |-> Idle]
  /\ recent = [u \in Management |-> 0]
  /\ told = {} /\ alone = TRUE
  /\ moves = 0 /\ edited = 0 /\ elapsed = 0

(* effective_min_stock, is_low_stock                                       *)
Effective(min) == IF min = NoMinimum THEN Default ELSE min
LowAt(q, min) == Effective(min) > 0 /\ q <= Effective(min)
Low == LowAt(quantity, minimum)

-----------------------------------------------------------------------------
(* A slip for BeginMove: the task is sent without waiting for the commit.  *)
BeginMoveNotifying(m, delta, allow_negative) ==
  /\ at[m] = Idle /\ lock = Nobody
  /\ moves < MaxMoves
  /\ quantity + delta >= 0 \/ allow_negative
  /\ lock' = m
  /\ moves' = moves + 1
  /\ at' = [at EXCEPT ![m] = [op |-> "moving", quantity |-> quantity + delta,
                                delta |-> delta, hook |-> FALSE]]
  /\ queue' = queue + 1
  /\ UNCHANGED <<row, moved, undone, task, recent, told, alone, edited, elapsed>>

(* apply_stock_movement: the row is locked and read.  Only an adjustment   *)
(* may ask for allow_negative.                                             *)
BeginMove(m, delta, allow_negative) ==
  /\ at[m] = Idle /\ lock = Nobody
  /\ moves < MaxMoves
  /\ quantity + delta >= 0 \/ allow_negative
  /\ lock' = m
  /\ moves' = moves + 1
  /\ at' = [at EXCEPT ![m] = [op |-> "moving", quantity |-> quantity + delta,
                                delta |-> delta, hook |-> TRUE]]
  /\ UNCHANGED <<row, moved, undone, queue, task, recent, told, alone, edited, elapsed>>

CommitMove(m) ==
  /\ at[m].op = "moving"
  /\ quantity' = at[m].quantity
  /\ moved' = moved + at[m].delta
  /\ lock' = Nobody
  /\ at' = [at EXCEPT ![m] = IF at[m].hook THEN [op |-> "hook"] ELSE Idle]
  /\ UNCHANGED <<minimum, notified, undone, queue, task, recent, told, alone, counters>>

(* The on_commit hook: notify_low_stock_if_needed.delay                    *)
RunHook(m) ==
  /\ at[m].op = "hook"
  /\ queue' = queue + 1
  /\ at' = [at EXCEPT ![m] = Idle]
  /\ UNCHANGED <<row, moved, undone, lock, task, recent, told, alone, counters>>

(* The threshold and the detail views read the row ...                     *)
ReadRow(m, operation) ==
  /\ at[m] = Idle /\ operation \in Operations
  /\ edited < MaxEdits
  /\ edited' = edited + 1
  /\ at' = [at EXCEPT ![m] = [op |-> operation, quantity |-> quantity,
                                minimum |-> minimum, notified |-> notified]]
  /\ UNCHANGED <<row, moved, undone, lock, queue, task, recent, told, alone, moves, elapsed>>

(* ... and StockThresholdUpdateView saves one column of it.                *)
SaveThreshold(m, min) ==
  /\ at[m].op = "threshold" /\ lock = Nobody
  /\ min # NoMinimum
  /\ minimum' = min
  /\ at' = [at EXCEPT ![m] = Idle]
  /\ UNCHANGED <<quantity, notified, moved, undone, lock, queue, task, recent, told, alone, counters>>

(* StockBalanceDetailEditDeleteView.put and patch save every column: those *)
(* the request names (the quantity too, in the central store), the others  *)
(* as they were when it read them.                                         *)
SavePatch(m) ==
  /\ at[m].op = "patch" /\ lock = Nobody
  /\ minimum' \in Minima \cup {at[m].minimum}
  /\ quantity' \in Counts \cup {at[m].quantity}
  /\ notified' = at[m].notified
  /\ undone' = undone + (quantity - quantity')
  /\ at' = [at EXCEPT ![m] = Idle]
  /\ UNCHANGED <<moved, lock, queue, task, recent, told, alone, counters>>

-----------------------------------------------------------------------------
(* notify_low_stock_if_needed: a worker takes the task and reads the row,  *)
(* without a lock.                                                         *)
TakeTask(w) ==
  /\ task[w] = Idle /\ queue > 0
  /\ queue' = queue - 1
  /\ task' = [task EXCEPT ![w] =
       IF Low THEN [op |-> "telling", todo |-> Management]
       ELSE IF notified THEN [op |-> "clearing"] ELSE Idle]
  /\ alone' = \A v \in Workers \ {w} : task[v] = Idle
  /\ UNCHANGED <<row, moved, undone, lock, at, recent, told, counters>>

(* A slip for Clear: the mark stays.                                       *)
ClearNothing(w) ==
  /\ task[w].op = "clearing" /\ lock = Nobody
  /\ task' = [task EXCEPT ![w] = Idle]
  /\ UNCHANGED <<row, moved, undone, lock, at, queue, recent, told, alone, counters>>

(* Not low: the mark of the last alert is taken away.                      *)
Clear(w) ==
  /\ task[w].op = "clearing" /\ lock = Nobody
  /\ notified' = FALSE
  /\ task' = [task EXCEPT ![w] = Idle]
  /\ UNCHANGED <<quantity, minimum, moved, undone, lock, at, queue, recent, told, alone, counters>>

(* An alert about the row was sent to u within its repeat period.          *)
AlreadySent(u) == recent[u] > 0

(* A slip for Consider: the alerts already sent are not looked at.         *)
ConsiderAnew(w, u) ==
  /\ task[w].op = "telling" /\ u \in task[w].todo
  /\ task' = [task EXCEPT ![w] =
       [op |-> IF Wants[u] THEN "sending" ELSE "telling",
        todo |-> task[w].todo \ {u}, user |-> u]]
  /\ UNCHANGED <<row, moved, undone, lock, at, queue, recent, told, alone, counters>>

(* One recipient: passed over if it wants no alerts or had one lately.     *)
Consider(w, u) ==
  /\ task[w].op = "telling" /\ u \in task[w].todo
  /\ task' = [task EXCEPT ![w] =
       [op |-> IF Wants[u] /\ ~AlreadySent(u) THEN "sending" ELSE "telling",
        todo |-> task[w].todo \ {u}, user |-> u]]
  /\ UNCHANGED <<row, moved, undone, lock, at, queue, recent, told, alone, counters>>

(* _create_and_broadcast                                                   *)
SendAlert(w) ==
  /\ task[w].op = "sending"
  /\ LET u == task[w].user
     IN /\ recent' = [recent EXCEPT ![u] = @ + 1]
        /\ told' = told \cup {u}
  /\ task' = [task EXCEPT ![w].op = "telling"]
  /\ UNCHANGED <<row, moved, undone, lock, at, queue, alone, counters>>

MarkNotified(w) ==
  /\ task[w].op = "telling" /\ task[w].todo = {} /\ lock = Nobody
  /\ notified' = TRUE
  /\ task' = [task EXCEPT ![w] = Idle]
  /\ UNCHANGED <<quantity, minimum, moved, undone, lock, at, queue, recent, told, alone, counters>>

(* low_stock_repeat_hours go by since the alerts of u.                     *)
Elapse(u) ==
  /\ recent[u] > 0 /\ elapsed < MaxElapsed
  /\ recent' = [recent EXCEPT ![u] = 0]
  /\ elapsed' = elapsed + 1
  /\ UNCHANGED <<row, moved, undone, lock, at, queue, task, told, alone, moves, edited>>

-----------------------------------------------------------------------------
Request(m) ==
  \/ CommitMove(m) \/ RunHook(m)
  \/ SavePatch(m) \/ \E min \in Minima : SaveThreshold(m, min)

Work(w) ==
  \/ TakeTask(w) \/ Clear(w) \/ SendAlert(w) \/ MarkNotified(w)
  \/ \E u \in Management : Consider(w, u)

Next ==
  \/ \E m \in Movers :
       \/ \E delta \in Deltas, b \in BOOLEAN : BeginMove(m, delta, b)
       \/ \E operation \in {"threshold", "patch"} : ReadRow(m, operation)
       \/ Request(m)
  \/ \E w \in Workers : Work(w)
  \/ \E u \in Management : Elapse(u)

Spec == Init /\ [][Next]_vars

(* A request that began ends, and a task that waits is run: Redis keeps it *)
(* and the worker serves its queue.                                        *)
FairSpec ==
  /\ Spec
  /\ \A m \in Movers : SF_vars(Request(m))
  /\ \A w \in Workers : SF_vars(Work(w))
-----------------------------------------------------------------------------
Places ==
  [op : {"idle", "hook"}]
  \cup [op : {"moving"}, quantity : Int, delta : Int, hook : BOOLEAN]
  \cup [op : {"threshold", "patch"}, quantity : Int, minimum : Nat \cup {NoMinimum},
         notified : BOOLEAN]

Tasks ==
  [op : {"idle", "clearing"}]
  \cup [op : {"telling"}, todo : SUBSET Management]
  \cup [op : {"telling", "sending"}, todo : SUBSET Management, user : Management]

TypeOK ==
  /\ quantity \in Int
  /\ minimum \in Nat \cup {NoMinimum}
  /\ notified \in BOOLEAN
  /\ moved \in Int /\ undone \in Int
  /\ lock \in Movers \cup {Nobody}
  /\ at \in [Movers -> Places]
  /\ queue \in Nat
  /\ task \in [Workers -> Tasks]
  /\ recent \in [Management -> Nat]
  /\ told \subseteq Management /\ alone \in BOOLEAN
  /\ moves \in Nat /\ edited \in Nat /\ elapsed \in Nat

(* The quantity of the row is the opening one plus the movements.  Neither *)
(* an edit of the threshold nor an alert loses a movement, though they     *)
(* save rows they read without a lock (update_fields); only a PUT or PATCH *)
(* of the detail view, which write every column, take movements back.      *)
QuantityFollowsMovements == quantity = Opening + moved - undone

(* Only users who want alerts get them, and in a repeat period ("Répéter   *)
(* l'alerte stock après X heures") no more of them than there are tasks at *)
(* once: one when tasks run one by one, and a second only from a task that *)
(* looked before the first was sent.                                       *)
AlertsAreFew ==
  \A u \in Management : recent[u] <= IF Wants[u] THEN Cardinality(Workers) ELSE 0

(* The mark on a row that was moved and not edited heals: tasks that run   *)
(* at once can leave it false, but when every task has run and the last of *)
(* them had the row to itself, it is set if the stock is low and taken     *)
(* away if not.                                                            *)
MarkFollowsStock ==
  /\ moves > 0 /\ queue = 0 /\ edited = 0 /\ alone
  /\ \A w \in Workers : task[w] = Idle
  /\ \A m \in Movers : at[m] = Idle
  => notified = Low

(* A movement is making the stock low.                                     *)
MakingLow == \E m \in Movers : at[m].op = "moving" /\ LowAt(at[m].quantity, minimum)

(* When a movement makes the stock low and it stays low, every manager who *)
(* wants to know is told: the task is sent on commit, so that it reads the *)
(* new stock, and edits of the row do not hide it.                         *)
MadeLowIsTold ==
  \A u \in Management :
    Wants[u] => [](MakingLow /\ [](MakingLow \/ Low) => <>(u \in told))
=============================================================================
