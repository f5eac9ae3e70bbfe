-------------------------- MODULE NotificationProofs --------------------------
(***************************************************************************)
(* Proofs about how users are told.  StockAlerts, for any number of        *)
(* requests, tasks and users: only an edit of the detail view takes        *)
(* movements back, a user has no more alerts in a period than there are    *)
(* tasks at once, and the mark on a row is true after a task that ran      *)
(* alone.  Notices, for any users, forms, tasks, administrators and        *)
(* browsers: what a user chose stays chosen unless its own forms overlap,  *)
(* and, with one administrator, browsers show the state of maintenance.    *)
(***************************************************************************)
EXTENDS StockAlerts, Notices, FiniteSetTheorems, TLAPS

-----------------------------------------------------------------------------
(* StockAlerts                                                             *)

(* The row is moved by the request that holds it, and the quantity it will *)
(* write is the present one plus its movement: nobody writes the quantity  *)
(* while the row is held.                                                  *)
MoversHoldTheRow ==
  \A m \in Movers :
    at[m].op = "moving" =>
      /\ lock = m
      /\ at[m].quantity = quantity + at[m].delta

(* What a request has read, by where it is.                                *)
LEMMA PlaceFields ==
  ASSUME NEW p \in Places
  PROVE  /\ p.op = "moving" => p.quantity \in Int /\ p.delta \in Int /\ p.hook \in BOOLEAN
         /\ p.op \in {"threshold", "patch"} =>
              /\ p.quantity \in Int /\ p.minimum \in Nat \cup {NoMinimum}
              /\ p.notified \in BOOLEAN
BY DEF Places

(* What a task has read, by where it is.                                   *)
LEMMA TaskFields ==
  ASSUME NEW k \in Tasks
  PROVE  /\ k.op \in {"telling", "sending"} => k.todo \in SUBSET Management
         /\ k.op = "sending" => k.user \in Management
BY DEF Tasks

(* A request or task that has not begun.                                   *)
LEMMA IdleType == Idle \in Places /\ Idle \in Tasks
<1>1. Idle \in [op : {"idle", "hook"}] /\ Idle \in [op : {"idle", "clearing"}]
  BY DEF Idle
<1>. QED
  BY <1>1, Zenon DEF Places, Tasks

(* The types hold at first.                                                *)
LEMMA InitType == Init => TypeOK
<1> SUFFICES ASSUME Init PROVE TypeOK
  OBVIOUS
<1>1. quantity \in Int /\ minimum \in Nat \cup {NoMinimum} /\ notified \in BOOLEAN
  BY AlertsAssumption, Zenon DEF Init, AlertsAssumption
<1>2. moved \in Int /\ undone \in Int /\ queue \in Nat
  BY DEF Init
<1>3. moves \in Nat /\ edited \in Nat /\ elapsed \in Nat
  BY DEF Init
<1>4. at \in [Movers -> Places] /\ task \in [Workers -> Tasks]
  BY IdleType, Zenon DEF Init
<1>5. recent \in [Management -> Nat] /\ told \subseteq Management /\ alone \in BOOLEAN
  BY DEF Init
<1>6. lock \in Movers \cup {Nobody}
  BY Zenon DEF Init
<1>. QED
  BY <1>1, <1>2, <1>3, <1>4, <1>5, <1>6, Zenon DEF TypeOK

(* Every step keeps the types.                                             *)
LEMMA NextType == TypeOK /\ [Next]_vars => TypeOK'
<1> SUFFICES ASSUME TypeOK, [Next]_vars PROVE TypeOK'
  OBVIOUS
<1>. USE AlertsAssumption, IdleType DEF TypeOK, AlertsAssumption
<1>1. ASSUME NEW m \in Movers, NEW delta \in Deltas, NEW b \in BOOLEAN, BeginMove(m, delta, b)
      PROVE  TypeOK'
  <2>1. [op |-> "moving", quantity |-> quantity + delta, delta |-> delta, hook |-> TRUE]
          \in Places
    BY <1>1 DEF BeginMove, Places
  <2>. QED
    BY <1>1, <2>1 DEF BeginMove, row
<1>2. ASSUME NEW m \in Movers, CommitMove(m) PROVE TypeOK'
  <2>1. [op |-> "hook"] \in Places
    BY DEF Places
  <2>2. at[m].quantity \in Int /\ at[m].delta \in Int
    BY <1>2, PlaceFields DEF CommitMove
  <2>. QED
    BY <1>2, <2>1, <2>2 DEF CommitMove, counters
<1>3. ASSUME NEW m \in Movers, RunHook(m) PROVE TypeOK'
  BY <1>3 DEF RunHook, row, counters
<1>4. ASSUME NEW m \in Movers, NEW operation \in {"threshold", "patch"},
             ReadRow(m, operation)
      PROVE  TypeOK'
  <2>1. [op |-> operation, quantity |-> quantity, minimum |-> minimum, notified |-> notified]
          \in Places
    BY DEF Places
  <2>. QED
    BY <1>4, <2>1 DEF ReadRow, row
<1>5. ASSUME NEW m \in Movers, NEW min \in Minima, SaveThreshold(m, min)
      PROVE  TypeOK'
  BY <1>5 DEF SaveThreshold, counters
<1>6. ASSUME NEW m \in Movers, SavePatch(m) PROVE TypeOK'
  <2>1. /\ at[m].quantity \in Int /\ at[m].minimum \in Nat \cup {NoMinimum}
        /\ at[m].notified \in BOOLEAN
    BY <1>6, PlaceFields DEF SavePatch
  <2>. QED
    BY <1>6, <2>1 DEF SavePatch, counters
<1>7. ASSUME NEW w \in Workers, TakeTask(w) PROVE TypeOK'
  <2>1. [op |-> "telling", todo |-> Management] \in Tasks /\ [op |-> "clearing"] \in Tasks
    BY DEF Tasks
  <2>. QED
    BY <1>7, <2>1 DEF TakeTask, row, counters
<1>8. ASSUME NEW w \in Workers, Clear(w) PROVE TypeOK'
  BY <1>8 DEF Clear, counters
<1>9. ASSUME NEW w \in Workers, NEW u \in Management, Consider(w, u) PROVE TypeOK'
  <2>1. task[w].todo \in SUBSET Management
    BY <1>9, TaskFields DEF Consider
  <2>2. ASSUME NEW op \in {"sending", "telling"}
        PROVE  [op |-> op, todo |-> task[w].todo \ {u}, user |-> u] \in Tasks
    BY <2>1 DEF Tasks
  <2>. QED
    BY <1>9, <2>2 DEF Consider, row, counters
<1>10. ASSUME NEW w \in Workers, SendAlert(w) PROVE TypeOK'
  <2>1. [task[w] EXCEPT !.op = "telling"] \in Tasks /\ task[w].user \in Management
    BY <1>10, TaskFields DEF SendAlert, Tasks
  <2>. QED
    BY <1>10, <2>1 DEF SendAlert, row, counters
<1>11. ASSUME NEW w \in Workers, MarkNotified(w) PROVE TypeOK'
  BY <1>11 DEF MarkNotified, counters
<1>12. ASSUME NEW u \in Management, Elapse(u) PROVE TypeOK'
  BY <1>12 DEF Elapse, row
<1>13. CASE UNCHANGED vars
  BY <1>13 DEF vars, row, counters
<1>. QED
  BY <1>1, <1>2, <1>3, <1>4, <1>5, <1>6, <1>7, <1>8, <1>9, <1>10, <1>11, <1>12, <1>13
  DEF Next, Request, Work

(* The variables of the alerts keep their types; only a quantity may be    *)
(* negative (allow_negative).                                              *)
THEOREM AlertsTypeCorrect == Spec => []TypeOK
BY InitType, NextType, PTL DEF Spec

-----------------------------------------------------------------------------
(* Nobody but the holder moves the quantity of a row that is held.         *)
LEMMA NextHolds ==
  TypeOK /\ MoversHoldTheRow /\ [Next]_vars => MoversHoldTheRow'
<1> SUFFICES ASSUME TypeOK, MoversHoldTheRow, [Next]_vars PROVE MoversHoldTheRow'
  OBVIOUS
<1>. USE AlertsAssumption DEF TypeOK, MoversHoldTheRow, AlertsAssumption, Idle
<1>1. ASSUME NEW m \in Movers, NEW delta \in Deltas, NEW b \in BOOLEAN, BeginMove(m, delta, b)
      PROVE  MoversHoldTheRow'
  BY <1>1 DEF BeginMove, row
<1>2. ASSUME NEW m \in Movers, CommitMove(m) PROVE MoversHoldTheRow'
  BY <1>2 DEF CommitMove
<1>3. ASSUME NEW m \in Movers, RunHook(m) PROVE MoversHoldTheRow'
  BY <1>3 DEF RunHook, row
<1>4. ASSUME NEW m \in Movers, NEW operation \in {"threshold", "patch"},
             ReadRow(m, operation)
      PROVE  MoversHoldTheRow'
  BY <1>4 DEF ReadRow, row
<1>5. ASSUME NEW m \in Movers, SavePatch(m) \/ \E min \in Minima : SaveThreshold(m, min)
      PROVE  MoversHoldTheRow'
  BY <1>5 DEF SaveThreshold, SavePatch
<1>6. ASSUME NEW w \in Workers, Work(w) PROVE MoversHoldTheRow'
  BY <1>6 DEF Work, TakeTask, Clear, Consider, SendAlert, MarkNotified, row
<1>7. ASSUME NEW u \in Management, Elapse(u) PROVE MoversHoldTheRow'
  BY <1>7 DEF Elapse, row
<1>8. CASE UNCHANGED vars
  BY <1>8 DEF vars, row
<1>. HIDE DEF TypeOK, MoversHoldTheRow, AlertsAssumption
<1>. QED
  BY <1>1, <1>2, <1>3, <1>4, <1>5, <1>6, <1>7, <1>8, Zenon DEF Next, Request

(* Each writer of the quantity accounts for what it changes.               *)
LEMMA NextFollows ==
  TypeOK /\ MoversHoldTheRow /\ QuantityFollowsMovements /\ [Next]_vars
    => QuantityFollowsMovements'
<1> SUFFICES ASSUME TypeOK, MoversHoldTheRow, QuantityFollowsMovements, [Next]_vars
             PROVE  QuantityFollowsMovements'
  OBVIOUS
<1>. USE AlertsAssumption DEF TypeOK, QuantityFollowsMovements, AlertsAssumption
<1>1. ASSUME NEW m \in Movers, CommitMove(m) PROVE QuantityFollowsMovements'
  <2>1. at[m].quantity \in Int /\ at[m].delta \in Int
    BY <1>1, PlaceFields DEF CommitMove
  <2>2. at[m].quantity = quantity + at[m].delta
    BY <1>1 DEF CommitMove, MoversHoldTheRow
  <2>3. quantity' = quantity + at[m].delta /\ moved' = moved + at[m].delta
        /\ undone' = undone
    BY <1>1, <2>2 DEF CommitMove
  <2>. QED
    BY <2>1, <2>3
<1>2. ASSUME NEW m \in Movers, SavePatch(m) PROVE QuantityFollowsMovements'
  <2>1. quantity' \in Int
    BY <1>2, PlaceFields DEF SavePatch
  <2>2. undone' = undone + (quantity - quantity') /\ moved' = moved
    BY <1>2 DEF SavePatch
  <2>3. quantity \in Int /\ moved \in Int /\ undone \in Int /\ Opening \in Int
    OBVIOUS
  <2>4. quantity = Opening + moved - undone
    OBVIOUS
  <2>. HIDE DEF QuantityFollowsMovements, TypeOK
  <2>5. ASSUME NEW q \in Int, NEW n \in Int, NEW u \in Int, NEW p \in Int, q = Opening + n - u
        PROVE  p = Opening + n - (u + (q - p))
    BY <2>3, <2>5
  <2>6. quantity' = Opening + moved - (undone + (quantity - quantity'))
    BY <2>1, <2>3, <2>4, <2>5
  <2>. QED
    BY <2>2, <2>6, Zenon DEF QuantityFollowsMovements
<1>3. ASSUME UNCHANGED <<quantity, moved, undone>> PROVE QuantityFollowsMovements'
  BY <1>3
<1>4. CASE UNCHANGED vars
  BY <1>3, <1>4 DEF vars, row
<1>5. ASSUME NEW m \in Movers, NEW delta \in Deltas, NEW b \in BOOLEAN, BeginMove(m, delta, b)
      PROVE  UNCHANGED <<quantity, moved, undone>>
  BY <1>5 DEF BeginMove, row
<1>6. ASSUME NEW m \in Movers, NEW operation \in {"threshold", "patch"},
             ReadRow(m, operation)
      PROVE  UNCHANGED <<quantity, moved, undone>>
  BY <1>6 DEF ReadRow, row
<1>7. ASSUME NEW m \in Movers, NEW min \in Minima, SaveThreshold(m, min)
      PROVE  UNCHANGED <<quantity, moved, undone>>
  BY <1>7 DEF SaveThreshold
<1>8. ASSUME NEW m \in Movers, RunHook(m)
      PROVE  UNCHANGED <<quantity, moved, undone>>
  BY <1>8 DEF RunHook, row
<1>9. ASSUME NEW w \in Workers, Work(w) PROVE UNCHANGED <<quantity, moved, undone>>
  BY <1>9 DEF Work, TakeTask, Clear, Consider, SendAlert, MarkNotified, row
<1>10. ASSUME NEW u \in Management, Elapse(u) PROVE UNCHANGED <<quantity, moved, undone>>
  BY <1>10 DEF Elapse, row
<1>. QED
  BY <1>1, <1>2, <1>3, <1>4, <1>5, <1>6, <1>7, <1>8, <1>9, <1>10 DEF Next, Request

(* Whatever the movements, the edits from stale copies and the alert tasks *)
(* do at once, the quantity is the opening one plus the movements, less    *)
(* what edits of the detail view took back.                                *)
THEOREM QuantityExact == Spec => []QuantityFollowsMovements
<1>1. Init => MoversHoldTheRow /\ QuantityFollowsMovements
  BY AlertsAssumption
  DEF Init, MoversHoldTheRow, QuantityFollowsMovements, Idle, AlertsAssumption
<1>. QED
  BY <1>1, InitType, NextType, NextHolds, NextFollows, PTL DEF Spec

-----------------------------------------------------------------------------
(* The tasks about to send an alert to u.                                  *)
AboutToSend(u) == {w \in Workers : task[w].op = "sending" /\ task[w].user = u}

(* Each of them has yet to send the one alert it decided on when u had had *)
(* none.                                                                   *)
AlertsDue ==
  \A u \in Management :
    /\ Cardinality(AboutToSend(u)) + recent[u] <= Cardinality(Workers)
    /\ ~Wants[u] => AboutToSend(u) = {} /\ recent[u] = 0

(* There are finitely many of them.                                        *)
LEMMA SendersAreWorkers ==
  ASSUME NEW u
  PROVE  /\ IsFiniteSet(AboutToSend(u)) /\ Cardinality(AboutToSend(u)) \in Nat
         /\ Cardinality(Workers) \in Nat
         /\ Cardinality(AboutToSend(u)) <= Cardinality(Workers)
<1>1. AboutToSend(u) \subseteq Workers
  BY DEF AboutToSend
<1>. QED
  BY <1>1, AlertsAssumption, FS_Subset, FS_CardinalityType DEF AlertsAssumption

LEMMA AlertsStep ==
  ASSUME TypeOK, AlertsDue, [Next]_vars
  PROVE  AlertsDue'
<1>. USE DEF TypeOK
<1>1. ASSUME UNCHANGED <<task, recent>> PROVE AlertsDue'
  BY <1>1 DEF AlertsDue, AboutToSend
<1>2. ASSUME NEW w \in Workers, TakeTask(w) \/ Clear(w) \/ MarkNotified(w)
      PROVE  AlertsDue'
  <2>1. /\ \A v \in Workers \ {w} : task'[v] = task[v]
        /\ task[w].op # "sending" /\ task'[w].op # "sending" /\ UNCHANGED recent
    <3>1. CASE TakeTask(w)
      BY <3>1 DEF TakeTask, Idle
    <3>2. CASE Clear(w) \/ MarkNotified(w)
      BY <3>2 DEF Clear, MarkNotified, Idle
    <3>. QED
      BY <1>2, <3>1, <3>2
  <2>2. \A u \in Management : AboutToSend(u)' = AboutToSend(u)
    BY <2>1 DEF AboutToSend
  <2>. QED
    BY <2>1, <2>2 DEF AlertsDue
<1>3. ASSUME NEW w \in Workers, NEW u \in Management, Consider(w, u)
      PROVE  AlertsDue'
  <2>1. /\ \A v \in Workers \ {w} : task'[v] = task[v]
        /\ task[w].op = "telling" /\ task'[w].user = u /\ UNCHANGED recent
        /\ task'[w].op = "sending" => Wants[u] /\ recent[u] = 0
    BY <1>3 DEF Consider, AlreadySent
  <2>2. ASSUME NEW v \in Management, v # u \/ task'[w].op # "sending"
        PROVE  AboutToSend(v)' = AboutToSend(v)
    BY <2>1, <2>2 DEF AboutToSend
  <2>3. ASSUME task'[w].op = "sending"
        PROVE  /\ Cardinality(AboutToSend(u))' + recent'[u] <= Cardinality(Workers)
               /\ Wants[u]
    <3>1. AboutToSend(u)' \subseteq Workers
      BY DEF AboutToSend
    <3>2. Cardinality(AboutToSend(u)') \in Nat /\ Cardinality(Workers) \in Nat
          /\ Cardinality(AboutToSend(u)') <= Cardinality(Workers)
      BY <3>1, AlertsAssumption, FS_Subset, FS_CardinalityType DEF AlertsAssumption
    <3>. QED
      BY <2>1, <2>3, <3>2
  <2>4. ASSUME NEW v \in Management
        PROVE  /\ Cardinality(AboutToSend(v))' + recent'[v] <= Cardinality(Workers)
               /\ ~Wants[v] => AboutToSend(v)' = {} /\ recent'[v] = 0
    <3>1. CASE v # u \/ task'[w].op # "sending"
      BY <2>1, <2>2, <3>1 DEF AlertsDue
    <3>2. CASE v = u /\ task'[w].op = "sending"
      BY <2>3, <3>2
    <3>. QED
      BY <3>1, <3>2
  <2>. QED
    BY <2>4 DEF AlertsDue
<1>4. ASSUME NEW w \in Workers, SendAlert(w) PROVE AlertsDue'
  <2>0. task[w].user \in Management
    BY <1>4, TaskFields DEF SendAlert
  <2>. PICK u \in Management : u = task[w].user
    BY <2>0
  <2>1. u = task[w].user /\ u = task'[w].user /\ task[w].op = "sending" /\ task'[w].op # "sending"
        /\ \A v \in Workers \ {w} : task'[v] = task[v]
    <3>1. /\ [task[w] EXCEPT !.op = "telling"].op # "sending"
          /\ [task[w] EXCEPT !.op = "telling"].user = task[w].user
      BY <1>4 DEF SendAlert, Tasks
    <3>. QED
      BY <1>4, <3>1 DEF SendAlert
  <2>2. recent' = [recent EXCEPT ![u] = @ + 1]
    BY <1>4 DEF SendAlert
  <2>3. w \in AboutToSend(u)
    BY <2>1 DEF AboutToSend
  <2>10. AboutToSend(u)' = AboutToSend(u) \ {w}
    BY <2>1 DEF AboutToSend
  <2>4. \A v \in Management \ {u} : AboutToSend(v)' = AboutToSend(v)
    BY <2>1 DEF AboutToSend
  <2>5. Cardinality(AboutToSend(u)') = Cardinality(AboutToSend(u)) - 1
    <3>1. IsFiniteSet(AboutToSend(u))
      BY SendersAreWorkers
    <3>2. Cardinality(AboutToSend(u) \ {w}) = Cardinality(AboutToSend(u)) - 1
      BY <2>3, <3>1, FS_RemoveElement
    <3>. QED
      BY <2>10, <3>2
  <2>6. recent[u] \in Nat /\ recent'[u] = recent[u] + 1 /\ Cardinality(AboutToSend(u)) \in Nat
        /\ \A v \in Management \ {u} : recent'[v] = recent[v]
    BY <2>1, <2>2, SendersAreWorkers
  <2>7. Wants[u]
    BY <2>1, <2>3 DEF AlertsDue
  <2>8. Cardinality(AboutToSend(u))' + recent'[u] <= Cardinality(Workers)
    <3>1. Cardinality(AboutToSend(u)) + recent[u] <= Cardinality(Workers)
      BY <2>1 DEF AlertsDue
    <3>. QED
      BY <2>5, <2>6, <3>1
  <2>9. ASSUME NEW v \in Management \ {u}
        PROVE  /\ Cardinality(AboutToSend(v))' + recent'[v] <= Cardinality(Workers)
               /\ ~Wants[v] => AboutToSend(v)' = {} /\ recent'[v] = 0
    BY <2>4, <2>6 DEF AlertsDue
  <2>. QED
    BY <2>7, <2>8, <2>9 DEF AlertsDue
<1>5. ASSUME NEW u \in Management, Elapse(u) PROVE AlertsDue'
  <2>1. recent' = [recent EXCEPT ![u] = 0] /\ task' = task
    BY <1>5 DEF Elapse
  <2>2. \A v \in Management : AboutToSend(v)' = AboutToSend(v)
    BY <2>1 DEF AboutToSend
  <2>3. \A v \in Management : recent'[v] = (IF v = u THEN 0 ELSE recent[v])
    BY <2>1
  <2>. QED
    BY <2>2, <2>3, SendersAreWorkers DEF AlertsDue
<1>6. ASSUME NEW m \in Movers,
             \/ \E delta \in Deltas, b \in BOOLEAN : BeginMove(m, delta, b)
             \/ \E operation \in {"threshold", "patch"} : ReadRow(m, operation)
             \/ Request(m)
      PROVE  UNCHANGED <<task, recent>>
  BY <1>6 DEF BeginMove, ReadRow, Request, CommitMove, RunHook, SaveThreshold, SavePatch
<1>7. CASE UNCHANGED vars
  BY <1>1, <1>7 DEF vars
<1>. QED
  BY <1>1, <1>2, <1>3, <1>4, <1>5, <1>6, <1>7 DEF Next, Work

(* However often the stock is moved and edited meanwhile, and however the  *)
(* tasks interleave, a user who wants alerts gets no more of them about    *)
(* the row in a period than there are tasks at once, and others get none   *)
(* (notify_low_stock_if_needed).                                           *)
THEOREM AlertedOncePerTask == Spec => []AlertsAreFew
<1>1. Init => AlertsDue
  <2>1. ASSUME Init, NEW u \in Management
        PROVE  AboutToSend(u) = {} /\ recent[u] = 0
    BY <2>1 DEF Init, AboutToSend, Idle
  <2>2. Cardinality({}) = 0
    BY FS_EmptySet
  <2>3. Cardinality(Workers) \in Nat
    BY AlertsAssumption, FS_CardinalityType DEF AlertsAssumption
  <2>. QED
    BY <2>1, <2>2, <2>3 DEF AlertsDue
<1>2. TypeOK /\ AlertsDue /\ [Next]_vars => TypeOK' /\ AlertsDue'
  BY NextType, AlertsStep
<1>3. TypeOK /\ AlertsDue => AlertsAreFew
  <2> SUFFICES ASSUME TypeOK, AlertsDue, NEW u \in Management
               PROVE  recent[u] <= IF Wants[u] THEN Cardinality(Workers) ELSE 0
    BY DEF AlertsAreFew
  <2>1. /\ Cardinality(AboutToSend(u)) + recent[u] <= Cardinality(Workers)
        /\ ~Wants[u] => recent[u] = 0
    BY DEF AlertsDue
  <2>2. recent[u] \in Nat /\ Cardinality(AboutToSend(u)) \in Nat /\ Cardinality(Workers) \in Nat
    BY SendersAreWorkers DEF TypeOK
  <2>. QED
    BY <2>1, <2>2
<1>. QED
  BY <1>1, <1>2, <1>3, InitType, PTL DEF Spec

-----------------------------------------------------------------------------
(* Every movement has its task ahead of it until the task is queued, and   *)
(* a row that was never edited has nobody editing it.                      *)
HooksFollow ==
  \A m \in Movers :
    /\ at[m].op = "moving" => at[m].hook /\ moves > 0
    /\ edited = 0 => at[m].op \notin {"threshold", "patch"}

(* Every movement's task was taken, and nobody edited.                     *)
AllTaken ==
  /\ moves > 0 /\ queue = 0 /\ edited = 0
  /\ \A m \in Movers : at[m].op \notin {"moving", "hook"}

(* A task that was taken alone has the row to itself until another is.     *)
AloneIsOne ==
  alone => \A v, w \in Workers : task[v].op # "idle" /\ task[w].op # "idle" => v = w

(* Then what it has read is the stock, and what it left is true.           *)
TaskReadsStock ==
  AllTaken /\ alone =>
    /\ (\A w \in Workers : task[w].op = "idle") => (notified <=> Low)
    /\ \A w \in Workers :
         /\ task[w].op \in {"telling", "sending"} => Low
         /\ task[w].op = "clearing" => ~Low

LEMMA HooksStep == TypeOK /\ HooksFollow /\ [Next]_vars => HooksFollow'
<1> SUFFICES ASSUME TypeOK, HooksFollow, [Next]_vars PROVE HooksFollow'
  OBVIOUS
<1>. USE DEF TypeOK, HooksFollow, Idle, row, counters
<1>1. ASSUME NEW m \in Movers, NEW delta \in Deltas, NEW b \in BOOLEAN, BeginMove(m, delta, b) PROVE HooksFollow'
  BY <1>1 DEF BeginMove
<1>2. ASSUME NEW m \in Movers, NEW operation \in {"threshold", "patch"}, ReadRow(m, operation)
      PROVE  HooksFollow'
  BY <1>2 DEF ReadRow
<1>3. ASSUME NEW m \in Movers, Request(m) PROVE HooksFollow'
  BY <1>3 DEF Request, CommitMove, RunHook, SaveThreshold, SavePatch
<1>4. ASSUME UNCHANGED <<at, moves, edited>> PROVE HooksFollow'
  BY <1>4
<1>5. ASSUME NEW w \in Workers, Work(w) PROVE UNCHANGED <<at, moves, edited>>
  BY <1>5 DEF Work, TakeTask, Clear, Consider, SendAlert, MarkNotified
<1>6. ASSUME NEW u \in Management, Elapse(u) PROVE UNCHANGED <<at, moves, edited>>
  BY <1>6 DEF Elapse
<1>. QED
  BY <1>1, <1>2, <1>3, <1>4, <1>5, <1>6 DEF Next, vars

LEMMA AloneStep ==
  ASSUME TypeOK, AloneIsOne, [Next]_vars
  PROVE  AloneIsOne'
<1>. USE DEF TypeOK
<1>1. ASSUME UNCHANGED <<task, alone>> PROVE AloneIsOne'
  BY <1>1 DEF AloneIsOne
<1>2. ASSUME NEW w \in Workers, TakeTask(w) PROVE AloneIsOne'
  <2>1. alone' => \A v \in Workers \ {w} : task[v] = Idle
    BY <1>2, Zenon DEF TakeTask
  <2>2. \A v \in Workers \ {w} : task'[v] = task[v]
    BY <1>2 DEF TakeTask
  <2>3. alone' => \A v \in Workers \ {w} : task'[v].op = "idle"
    BY <2>1, <2>2 DEF Idle
  <2>. QED
    BY <2>3 DEF AloneIsOne
<1>3. ASSUME NEW w \in Workers,
             \/ Clear(w) \/ MarkNotified(w) \/ SendAlert(w)
             \/ \E u \in Management : Consider(w, u)
      PROVE  AloneIsOne'
  <2>1. /\ \A v \in Workers \ {w} : task'[v] = task[v]
        /\ task[w].op # "idle" /\ alone' = alone
    BY <1>3 DEF Clear, MarkNotified, SendAlert, Consider
  <2>. QED
    BY <2>1 DEF AloneIsOne
<1>4. ASSUME NEW m \in Movers,
             \/ \E delta \in Deltas, b \in BOOLEAN : BeginMove(m, delta, b)
             \/ \E operation \in {"threshold", "patch"} : ReadRow(m, operation)
             \/ Request(m)
      PROVE  UNCHANGED <<task, alone>>
  BY <1>4 DEF BeginMove, ReadRow, Request, CommitMove, RunHook, SaveThreshold, SavePatch
<1>5. ASSUME NEW u \in Management, Elapse(u) PROVE UNCHANGED <<task, alone>>
  BY <1>5 DEF Elapse
<1>. QED
  BY <1>1, <1>2, <1>3, <1>4, <1>5 DEF Next, Work, vars

LEMMA MarkStep ==
  ASSUME TypeOK, HooksFollow, AloneIsOne, TaskReadsStock, [Next]_vars
  PROVE  TaskReadsStock'
<1>. USE DEF TypeOK, row, counters
<1>1. ASSUME NEW m \in Movers,
             \/ \E delta \in Deltas, b \in BOOLEAN : BeginMove(m, delta, b)
             \/ \E operation \in {"threshold", "patch"} : ReadRow(m, operation)
             \/ Request(m)
      PROVE  ~AllTaken'
  <2>1. ASSUME NEW delta \in Deltas, NEW b \in BOOLEAN, BeginMove(m, delta, b) PROVE ~AllTaken'
    BY <2>1 DEF BeginMove, AllTaken
  <2>2. ASSUME NEW operation \in {"threshold", "patch"}, ReadRow(m, operation) PROVE ~AllTaken'
    BY <2>2 DEF ReadRow, AllTaken
  <2>3. CASE CommitMove(m)
    BY <2>3 DEF CommitMove, AllTaken, HooksFollow
  <2>4. CASE RunHook(m)
    BY <2>4 DEF RunHook, AllTaken
  <2>5. CASE SavePatch(m) \/ \E min \in Minima : SaveThreshold(m, min)
    BY <2>5 DEF SaveThreshold, SavePatch, AllTaken, HooksFollow
  <2>. QED
    BY <1>1, <2>1, <2>2, <2>3, <2>4, <2>5 DEF Request
<1>2. ASSUME NEW w \in Workers, TakeTask(w) PROVE TaskReadsStock'
  <2>1. /\ Low' = Low /\ notified' = notified
        /\ alone' => \A v \in Workers \ {w} : task'[v].op = "idle"
    BY <1>2 DEF TakeTask, Low, Idle
  <2>2. \/ Low /\ task'[w].op = "telling"
        \/ ~Low /\ notified /\ task'[w].op = "clearing"
        \/ ~Low /\ ~notified /\ task'[w].op = "idle"
    BY <1>2 DEF TakeTask, Idle
  <2>. QED
    BY <2>1, <2>2 DEF TaskReadsStock
<1>3. ASSUME NEW w \in Workers,
             \/ Clear(w) \/ MarkNotified(w) \/ SendAlert(w)
             \/ \E u \in Management : Consider(w, u)
      PROVE  TaskReadsStock'
  <2>1. /\ Low' = Low /\ AllTaken' = AllTaken /\ alone' = alone
        /\ \A v \in Workers \ {w} : task'[v] = task[v]
    BY <1>3 DEF Clear, MarkNotified, SendAlert, Consider, Low, AllTaken
  <2>2. \/ task[w].op = "clearing" /\ ~notified' /\ task'[w].op = "idle"
        \/ task[w].op = "telling" /\ notified' /\ task'[w].op = "idle"
        \/ task[w].op \in {"telling", "sending"} /\ task'[w].op \in {"telling", "sending"}
    <3>1. CASE Clear(w) \/ MarkNotified(w)
      BY <3>1 DEF Clear, MarkNotified, Idle
    <3>2. CASE SendAlert(w)
      <4>1. [task[w] EXCEPT !.op = "telling"].op = "telling"
        BY <3>2 DEF SendAlert, Tasks
      <4>. QED
        BY <3>2, <4>1 DEF SendAlert
    <3>3. ASSUME NEW u \in Management, Consider(w, u)
          PROVE  task[w].op = "telling" /\ task'[w].op \in {"telling", "sending"}
      BY <3>3 DEF Consider
    <3>. QED
      BY <1>3, <3>1, <3>2, <3>3
  <2>3. alone => \A v \in Workers \ {w} : task'[v].op = "idle"
    BY <2>1, <2>2 DEF AloneIsOne
  <2>. QED
    BY <2>1, <2>2, <2>3 DEF TaskReadsStock
<1>4. ASSUME UNCHANGED <<row, at, queue, task, alone, moves, edited>> PROVE TaskReadsStock'
  BY <1>4 DEF TaskReadsStock, AllTaken, Low
<1>5. ASSUME NEW u \in Management, Elapse(u) PROVE TaskReadsStock'
  BY <1>4, <1>5 DEF Elapse
<1>6. CASE UNCHANGED vars
  BY <1>4, <1>6 DEF vars
<1>. QED
  BY <1>1, <1>2, <1>3, <1>5, <1>6 DEF Next, Work, TaskReadsStock

(* However the tasks interleave, once a row that was moved and not edited  *)
(* has its tasks behind it, and the last ran alone, its mark says whether  *)
(* its stock is low (notify_low_stock_if_needed, low_stock_notified_at).   *)
THEOREM MarkIsTrue == Spec => []MarkFollowsStock
<1>. DEFINE Kept == TypeOK /\ HooksFollow /\ AloneIsOne /\ TaskReadsStock
<1>1. Init => Kept
  BY InitType DEF Init, HooksFollow, AloneIsOne, TaskReadsStock, AllTaken, Idle
<1>2. Kept /\ [Next]_vars => Kept'
  BY NextType, HooksStep, AloneStep, MarkStep
<1>3. Kept => MarkFollowsStock
  <2>1. Low \in BOOLEAN
    BY DEF Low, LowAt
  <2>2. ASSUME Kept, moves > 0 /\ queue = 0 /\ edited = 0 /\ alone,
               \A w \in Workers : task[w] = Idle, \A m \in Movers : at[m] = Idle
        PROVE  notified <=> Low
    BY <2>2 DEF TaskReadsStock, AllTaken, Idle
  <2>3. ASSUME Kept, moves > 0 /\ queue = 0 /\ edited = 0 /\ alone,
               \A w \in Workers : task[w] = Idle, \A m \in Movers : at[m] = Idle
        PROVE  notified = Low
    <3>1. notified \in BOOLEAN
      BY <2>3 DEF TypeOK
    <3>. QED
      BY <2>1, <2>2, <2>3, <3>1, Zenon
  <2>. QED
    BY <2>3 DEF MarkFollowsStock
<1>. QED
  BY <1>1, <1>2, <1>3, PTL DEF Spec
-----------------------------------------------------------------------------
(* Notices                                                                 *)

(* A form holds what its user chose last, but for what was put back and    *)
(* what other forms of the user saved since; and there is a row to save it *)
(* in.                                                                     *)
FormsAreFresh ==
  \A f \in Forms :
    form[f].op = "editing" =>
      /\ pref[form[f].user] # NoRow
      /\ \A k \in Kinds :
           k \notin form[f].missed /\ k \notin lost[form[f].user]
             => form[f].copy[k] = chosen[form[f].user][k]

(* Who has no row chose nothing: the defaults are what it gets.            *)
NoRowNoChoice == \A u \in Users : pref[u] = NoRow => chosen[u] = Defaults

(* The rows and what is about to be written to them.                       *)
ChoicesKept == ChoicesStay /\ FormsAreFresh /\ NoRowNoChoice

(* A row of preferences is told from its absence.                          *)
LEMMA RowIsNoNone == \A p \in Preference : p # NoRow
<1> SUFFICES ASSUME NEW p \in Preference, p = NoRow PROVE FALSE
  OBVIOUS
<1>1. "low_stock" \in DOMAIN p
  BY DEF Preference, Kinds
<1>2. "low_stock" \notin DOMAIN NoRow
  BY DEF NoRow
<1>. QED
  BY <1>1, <1>2

(* The defaults are preferences.                                           *)
LEMMA DefaultsType == Defaults \in Preference /\ Defaults # NoRow
<1>1. Defaults \in Preference
  BY DEF Defaults, Preference
<1>. QED
  BY <1>1, RowIsNoNone

(* What a form names of preferences makes preferences of preferences.      *)
LEMMA FilledType ==
  ASSUME NEW p \in Preference, NEW choice \in Choices
  PROVE  Filled(p, choice) \in Preference
<1>1. PICK K \in SUBSET Kinds : choice \in [K -> BOOLEAN]
  BY DEF Choices
<1>. QED
  BY <1>1 DEF Preference, Filled

(* What a task carries, by where it is.                                    *)
LEMMA TellerFields ==
  ASSUME NEW p \in TellerPlaces
  PROVE  /\ p.op \in {"telling", "making", "creating", "broadcasting"} =>
              p.kind \in Kinds /\ p.todo \in SUBSET Users
         /\ p.op \in {"making", "creating"} => p.user \in Users
         /\ p.op = "broadcasting" => p.id \in Nat \ {0}
BY DEF TellerPlaces, AtRest, Telling, Meeting, Sending

(* Where a form of preferences can be.                                     *)
LEMMA FormFields ==
  ASSUME PreferencesTyped, NEW f \in Forms
  PROVE  /\ form[f].op \in {"making", "editing"} => form[f].user \in Users
         /\ form[f].op = "editing" =>
              form[f].copy \in Preference /\ form[f].missed \in SUBSET Kinds
BY DEF PreferencesTyped, FormPlaces, AtRest

(* A form that has read its row.                                           *)
LEMMA EditingType ==
  ASSUME NEW u \in Users, NEW copy \in Preference, NEW missed \in SUBSET Kinds
  PROVE  Editing(u, copy, missed) \in FormPlaces
BY DEF Editing, FormPlaces

(* The types hold at first.                                                *)
LEMMA NoticesInitType == NoticesInit => NoticesTypeOK
<1> SUFFICES ASSUME NoticesInit PROVE NoticesTypeOK
  OBVIOUS
<1>1. PreferencesTyped
  BY DefaultsType DEF NoticesInit, PreferencesTyped, FormPlaces, AtRest
<1>2. TasksTyped
  BY DEF NoticesInit, TasksTyped, TellerPlaces, AtRest
<1>3. MaintenanceTyped
  <2>1. table \in Seq(Values)
    BY DEF NoticesInit
  <2>2. stale \in BOOLEAN
    BY DEF NoticesInit
  <2>3. AtRest \in [op : {"idle", "hook"}]
    BY DEF AtRest
  <2>. QED
    BY <2>1, <2>2, <2>3, Zenon DEF NoticesInit, MaintenanceTyped
<1>4. BrowsersTyped
  BY DEF NoticesInit, BrowsersTyped
<1>. QED
  BY <1>1, <1>2, <1>3, <1>4 DEF NoticesInit, NoticesTypeOK

(* The steps of forms and tasks keep the types of preferences.             *)
LEMMA EnsuredType ==
  ASSUME PreferencesTyped, NEW u \in Users, pref' = Ensured(u)
  PROVE  /\ pref' \in [Users -> Preference \cup {NoRow}]
         /\ pref'[u] \in Preference
BY DefaultsType DEF PreferencesTyped, Ensured

(* What a step leaves alone keeps its type.                                *)
LEMMA SameTypes ==
  /\ PreferencesTyped /\ UNCHANGED preferences => PreferencesTyped'
  /\ TasksTyped /\ UNCHANGED telling => TasksTyped'
  /\ MaintenanceTyped /\ UNCHANGED maintenance => MaintenanceTyped'
  /\ BrowsersTyped /\ UNCHANGED <<notices, browsers>> => BrowsersTyped'
<1>1. PreferencesTyped /\ UNCHANGED preferences => PreferencesTyped'
  BY DEF PreferencesTyped, preferences
<1>2. TasksTyped /\ UNCHANGED telling => TasksTyped'
  BY DEF TasksTyped, telling
<1>3. MaintenanceTyped /\ UNCHANGED maintenance => MaintenanceTyped'
  BY DEF MaintenanceTyped, maintenance
<1>4. BrowsersTyped /\ UNCHANGED <<notices, browsers>> => BrowsersTyped'
  BY DEF BrowsersTyped, browsers
<1>. QED
  BY <1>1, <1>2, <1>3, <1>4

(* The form of preferences keeps the types.                                *)
LEMMA FormsType ==
  ASSUME NoticesTypeOK, NEW f \in Forms,
         \/ \E u \in Users : OpenForm(f, u)
         \/ MakeForm(f)
         \/ \E choice \in Choices : SaveForm(f, choice)
  PROVE  NoticesTypeOK'
<1>1. UNCHANGED <<telling, maintenance, browsers>> /\ events' \in Nat
  BY NoticesAssumption DEF OpenForm, MakeForm, SaveForm, NoticesTypeOK
<1>. PreferencesTyped
  BY DEF NoticesTypeOK
<1>2. PreferencesTyped'
  <2>1. ASSUME NEW u \in Users, OpenForm(f, u) PROVE PreferencesTyped'
    <3>1. [op |-> "making", user |-> u] \in FormPlaces
      BY DEF FormPlaces
    <3>2. pref[u] # NoRow => Editing(u, pref[u], {}) \in FormPlaces
      BY EditingType DEF PreferencesTyped
    <3>. QED
      BY <2>1, <3>1, <3>2 DEF OpenForm, PreferencesTyped
  <2>2. CASE MakeForm(f)
    <3>1. form[f].user \in Users
      BY <2>2, FormFields DEF MakeForm
    <3>2. /\ pref' \in [Users -> Preference \cup {NoRow}]
          /\ pref'[form[f].user] \in Preference
      BY <2>2, <3>1, EnsuredType DEF MakeForm
    <3>3. Editing(form[f].user, pref'[form[f].user], {}) \in FormPlaces
      BY <3>1, <3>2, EditingType
    <3>. QED
      BY <2>2, <3>2, <3>3 DEF MakeForm, PreferencesTyped
  <2>3. ASSUME NEW choice \in Choices, SaveForm(f, choice) PROVE PreferencesTyped'
    <3>. DEFINE u == form[f].user
    <3>1. u \in Users /\ form[f].copy \in Preference /\ form[f].missed \in SUBSET Kinds
      BY <2>3, FormFields DEF SaveForm
    <3>2. Filled(form[f].copy, choice) \in Preference /\ Filled(chosen[u], choice) \in Preference
      BY <3>1, FilledType DEF PreferencesTyped
    <3>3. DOMAIN choice \in SUBSET Kinds
      BY DEF Choices
    <3>4. ASSUME NEW g \in Forms
          PROVE  /\ form[g].op = "editing" /\ form[g].user = u =>
                      Editing(u, form[g].copy, form[g].missed \cup DOMAIN choice) \in FormPlaces
                 /\ AtRest \in FormPlaces /\ form[g] \in FormPlaces
      BY <3>1, <3>3, FormFields, EditingType DEF PreferencesTyped, FormPlaces
    <3>5. form' \in [Forms -> FormPlaces]
      BY <2>3, <3>4 DEF SaveForm
    <3>6. pref' \in [Users -> Preference \cup {NoRow}] /\ chosen' \in [Users -> Preference]
      BY <2>3, <3>1, <3>2 DEF SaveForm, PreferencesTyped
    <3>7. lost' \in [Users -> SUBSET Kinds]
      BY <2>3, <3>1 DEF SaveForm, PreferencesTyped
    <3>. QED
      BY <3>5, <3>6, <3>7 DEF PreferencesTyped
  <2>. QED
    BY <2>1, <2>2, <2>3
<1>3. UNCHANGED <<notices, browsers>>
  BY <1>1 DEF telling
<1>. QED
  BY <1>1, <1>2, <1>3, SameTypes DEF NoticesTypeOK

(* A task that has a place keeps its type there.                           *)
LEMMA MoveType ==
  ASSUME TasksTyped, NEW w \in Tellers, NEW p \in TellerPlaces, p.op # "broadcasting",
         doing' = [doing EXCEPT ![w] = p], UNCHANGED notices,
         unsent' \subseteq DOMAIN notices
  PROVE  TasksTyped'
BY DEF TasksTyped

(* Tasks keep the types.                                                   *)
LEMMA TasksType ==
  ASSUME NoticesTypeOK, NEW w \in Tellers,
         \/ \E kind \in Kinds, asker \in Users : Begin(w, kind, asker)
         \/ Tell(w) \/ FailBroadcast(w) \/ Crash(w)
  PROVE  NoticesTypeOK'
<1>. USE NoticesAssumption DEF NoticesTypeOK
<1>. doing[w] \in TellerPlaces
  BY DEF TasksTyped
<1>1. ASSUME NEW kind \in Kinds, NEW asker \in Users, Begin(w, kind, asker)
      PROVE  NoticesTypeOK'
  <2>. DEFINE place == [op |-> "telling", kind |-> kind, todo |-> Recipients(kind, asker)]
  <2>1. place \in TellerPlaces
    BY DEF TellerPlaces, Telling, Recipients, NoticesAssumption
  <2>2. TasksTyped'
    BY <1>1, <2>1, MoveType DEF Begin, TasksTyped
  <2>3. PreferencesTyped' /\ MaintenanceTyped' /\ BrowsersTyped'
    BY <1>1, SameTypes DEF Begin
  <2>. QED
    BY <1>1, <2>2, <2>3 DEF Begin
<1>2. ASSUME NEW u \in Users, Look(w, u) PROVE NoticesTypeOK'
  <2>. DEFINE Place(op) == [op |-> op, kind |-> doing[w].kind, todo |-> doing[w].todo \ {u}, user |-> u]
  <2>1. doing[w].kind \in Kinds /\ doing[w].todo \in SUBSET Users
    BY <1>2, TellerFields DEF Look
  <2>2. \A op \in {"telling", "making", "creating"} : Place(op) \in TellerPlaces
    BY <2>1 DEF TellerPlaces, Meeting
  <2>3. \E op \in {"telling", "making", "creating"} : doing' = [doing EXCEPT ![w] = Place(op)]
    BY <1>2 DEF Look
  <2>4. TasksTyped'
    BY <1>2, <2>2, <2>3, MoveType DEF Look, TasksTyped
  <2>5. PreferencesTyped' /\ MaintenanceTyped' /\ BrowsersTyped'
    BY <1>2, SameTypes DEF Look
  <2>. QED
    BY <1>2, <2>4, <2>5 DEF Look
<1>3. ASSUME Make(w) PROVE NoticesTypeOK'
  <2>1. doing[w].user \in Users
    BY <1>3, TellerFields DEF Make
  <2>2. PreferencesTyped'
    BY <1>3, <2>1, EnsuredType DEF Make, PreferencesTyped
  <2>3. \E op \in {"telling", "creating"} : doing' = [doing EXCEPT ![w] = [doing[w] EXCEPT !.op = op]]
    BY <1>3 DEF Make, Decided
  <2>4. \A op \in {"telling", "creating"} : [doing[w] EXCEPT !.op = op] \in TellerPlaces
    BY <1>3 DEF Make, TellerPlaces, AtRest, Telling, Meeting, Sending
  <2>5. \A op \in {"telling", "creating"} : [doing[w] EXCEPT !.op = op].op # "broadcasting"
    BY <1>3 DEF Make, TellerPlaces, AtRest, Telling, Meeting, Sending
  <2>6. TasksTyped'
    BY <1>3, <2>3, <2>4, <2>5, MoveType DEF Make, TasksTyped
  <2>7. MaintenanceTyped' /\ BrowsersTyped'
    BY <1>3, SameTypes DEF Make
  <2>. QED
    BY <1>3, <2>2, <2>6, <2>7 DEF Make
<1>4. ASSUME CreateNotice(w) PROVE NoticesTypeOK'
  <2>. DEFINE place == [op |-> "broadcasting", kind |-> doing[w].kind, todo |-> doing[w].todo,
                        id |-> Len(notices) + 1]
  <2>1. doing[w].kind \in Kinds /\ doing[w].todo \in SUBSET Users /\ doing[w].user \in Users
    BY <1>4, TellerFields DEF CreateNotice
  <2>2. /\ notices' \in Seq([user : Users, kind : Kinds])
        /\ Len(notices') = Len(notices) + 1
        /\ DOMAIN notices' = DOMAIN notices \cup {Len(notices) + 1}
    BY <1>4, <2>1 DEF CreateNotice, TasksTyped
  <2>3. place \in TellerPlaces
    BY <2>1 DEF TellerPlaces, Sending, TasksTyped
  <2>4. doing' = [doing EXCEPT ![w] = place]
    BY <1>4, <2>2 DEF CreateNotice
  <2>5. TasksTyped'
    BY <1>4, <2>2, <2>3, <2>4 DEF CreateNotice, TasksTyped
  <2>6. BrowsersTyped'
    <3>1. UNCHANGED browsers
      BY <1>4 DEF CreateNotice
    <3>2. [notice : DOMAIN notices] \subseteq [notice : DOMAIN notices']
      BY <2>2
    <3>3. \A c \in Clients : pending[c] \in Seq([notice : DOMAIN notices'] \cup [value : Values])
      BY <3>2 DEF BrowsersTyped
    <3>. QED
      BY <2>2, <3>1, <3>3 DEF BrowsersTyped, browsers
  <2>7. PreferencesTyped' /\ MaintenanceTyped'
    BY <1>4, SameTypes DEF CreateNotice
  <2>. QED
    BY <1>4, <2>5, <2>6, <2>7 DEF CreateNotice
<1>5. ASSUME doing[w].op = "broadcasting" PROVE Told(w) \in TellerPlaces /\ Told(w).op # "broadcasting"
  BY <1>5, TellerFields DEF Told, TellerPlaces, Telling
<1>6. ASSUME Broadcast(w) PROVE NoticesTypeOK'
  <2>1. TasksTyped'
    BY <1>5, <1>6, MoveType DEF Broadcast, TasksTyped
  <2>2. [notice |-> doing[w].id] \in [notice : DOMAIN notices]
    BY <1>6 DEF Broadcast, TasksTyped
  <2>3. pending' \in [Clients -> Seq([notice : DOMAIN notices] \cup [value : Values])]
    BY <1>6, <2>2 DEF Broadcast, BrowsersTyped
  <2>4. BrowsersTyped'
    BY <1>6, <2>3 DEF Broadcast, BrowsersTyped
  <2>5. PreferencesTyped' /\ MaintenanceTyped'
    BY <1>6, SameTypes DEF Broadcast
  <2>. QED
    BY <1>6, <2>1, <2>4, <2>5 DEF Broadcast
<1>7. ASSUME FailBroadcast(w) PROVE NoticesTypeOK'
  <2>1. TasksTyped'
    BY <1>5, <1>7, MoveType DEF FailBroadcast, TasksTyped
  <2>2. PreferencesTyped' /\ MaintenanceTyped' /\ BrowsersTyped'
    BY <1>7, SameTypes DEF FailBroadcast
  <2>. QED
    BY <1>7, <2>1, <2>2 DEF FailBroadcast
<1>8. AtRest \in TellerPlaces /\ AtRest.op # "broadcasting"
  BY DEF AtRest, TellerPlaces
<1>9. ASSUME Finish(w) PROVE NoticesTypeOK'
  <2>1. TasksTyped'
    BY <1>8, <1>9, MoveType DEF Finish, TasksTyped
  <2>2. PreferencesTyped' /\ MaintenanceTyped' /\ BrowsersTyped'
    BY <1>9, SameTypes DEF Finish
  <2>. QED
    BY <1>9, <2>1, <2>2 DEF Finish
<1>10. ASSUME Crash(w) PROVE NoticesTypeOK'
  <2>1. unsent' \subseteq DOMAIN notices
    BY <1>10 DEF Crash, TasksTyped
  <2>2. TasksTyped'
    BY <1>8, <1>10, <2>1, MoveType DEF Crash
  <2>3. PreferencesTyped' /\ MaintenanceTyped' /\ BrowsersTyped'
    BY <1>10, SameTypes DEF Crash
  <2>. QED
    BY <1>10, <2>2, <2>3 DEF Crash
<1>. QED
  BY <1>1, <1>2, <1>3, <1>4, <1>6, <1>7, <1>9, <1>10 DEF Tell

(* What is left of a sequence without one of its elements.                 *)
LEMMA WithoutType ==
  ASSUME MaintenanceTyped, NEW i \in DOMAIN table
  PROVE  Without(i) \in Seq(Values)
<1>1. SubSeq(table, 1, i - 1) \in Seq(Values) /\ SubSeq(table, i + 1, Len(table)) \in Seq(Values)
  BY DEF MaintenanceTyped
<1>. QED
  BY <1>1 DEF Without

(* The state of maintenance is always one of the values.                   *)
LEMMA SnapshotType == MaintenanceTyped => Snapshot \in Values
BY NoticesAssumption DEF NoticesAssumption, MaintenanceTyped, Snapshot

(* Administrators keep the types.                                          *)
LEMMA MaintenanceType ==
  ASSUME NoticesTypeOK, NEW a \in Admins, Edit(a) \/ Publish(a) \/ FailState(a)
  PROVE  NoticesTypeOK'
<1>. USE DEF NoticesTypeOK
<1>1. ASSUME NEW rows \in Seq(Values), Saved(a, rows) PROVE NoticesTypeOK'
  <2>1. MaintenanceTyped'
    BY <1>1 DEF Saved, MaintenanceTyped
  <2>2. PreferencesTyped' /\ TasksTyped' /\ BrowsersTyped'
    BY <1>1, SameTypes DEF Saved, telling
  <2>. QED
    BY <1>1, <2>1, <2>2 DEF Saved
<1>2. CASE Edit(a)
  <2>1. \A v \in Values : Append(table, v) \in Seq(Values)
    BY DEF MaintenanceTyped
  <2>2. \A i \in DOMAIN table, v \in Values : Append(Without(i), v) \in Seq(Values)
    BY WithoutType
  <2>. QED
    BY <1>1, <1>2, <2>1, <2>2, WithoutType DEF Edit, AddState, EditState, DeleteState
<1>3. CASE ReadSnapshot(a)
  <2>1. MaintenanceTyped'
    BY <1>3, SnapshotType DEF ReadSnapshot, MaintenanceTyped
  <2>2. PreferencesTyped' /\ TasksTyped' /\ BrowsersTyped'
    BY <1>3, SameTypes DEF ReadSnapshot, telling
  <2>. QED
    BY <1>3, <2>1, <2>2 DEF ReadSnapshot
<1>4. CASE SendState(a)
  <2>1. publish[a].value \in Values
    BY <1>4 DEF SendState, MaintenanceTyped
  <2>2. AtRest \in [op : {"idle", "hook"}]
    BY DEF AtRest
  <2>3. MaintenanceTyped'
    BY <1>4, <2>2 DEF SendState, MaintenanceTyped
  <2>4. pending' \in [Clients -> Seq([notice : DOMAIN notices] \cup [value : Values])]
    BY <1>4, <2>1 DEF SendState, BrowsersTyped
  <2>5. BrowsersTyped'
    BY <1>4, <2>4 DEF SendState, BrowsersTyped, telling
  <2>6. PreferencesTyped' /\ TasksTyped'
    BY <1>4, SameTypes DEF SendState
  <2>. QED
    BY <1>4, <2>3, <2>5, <2>6 DEF SendState
<1>5. CASE FailState(a)
  <2>1. AtRest \in [op : {"idle", "hook"}]
    BY DEF AtRest
  <2>2. MaintenanceTyped'
    BY <1>5, <2>1 DEF FailState, MaintenanceTyped
  <2>3. PreferencesTyped' /\ TasksTyped' /\ BrowsersTyped'
    BY <1>5, SameTypes DEF FailState, telling
  <2>. QED
    BY <1>5, <2>2, <2>3 DEF FailState
<1>. QED
  BY <1>2, <1>3, <1>4, <1>5 DEF Publish

(* Browsers keep the types.                                                *)
LEMMA BrowsersType ==
  ASSUME NoticesTypeOK, NEW c \in Clients, Connect(c) \/ Disconnect(c) \/ Show(c)
  PROVE  NoticesTypeOK'
<1>. USE DEF NoticesTypeOK
<1>1. UNCHANGED <<preferences, telling, maintenance>> /\ events' = events
  BY DEF Connect, Disconnect, Show, Greet, Accept, Join, Deliver, List, Ask
<1>2. PreferencesTyped' /\ TasksTyped' /\ MaintenanceTyped'
  BY <1>1, SameTypes
<1>3. notices' = notices
  BY <1>1 DEF telling
<1>4. BrowsersTyped'
  <2>. USE <1>3 DEF BrowsersTyped
  <2>1. CASE Connect(c)
    <3>1. \/ socket' = [socket EXCEPT ![c] = "greeted"] /\ UNCHANGED groups
          \/ socket' = [socket EXCEPT ![c] = "open"] /\ UNCHANGED groups
          \/ \E group \in {"own", "maintenance"} :
               groups' = [groups EXCEPT ![c] = @ \cup {group}] /\ UNCHANGED socket
      BY <2>1 DEF Connect, Greet, Accept, Join
    <3>2. UNCHANGED <<pending, known, listed, state>>
      BY <2>1 DEF Connect, Greet, Accept, Join
    <3>3. groups' \in [Clients -> SUBSET {"own", "maintenance"}]
      BY <3>1
    <3>4. socket' \in [Clients -> {"closed", "greeted", "open"}]
      BY <3>1
    <3>. QED
      BY <3>2, <3>3, <3>4
  <2>2. CASE Disconnect(c)
    BY <2>2 DEF Disconnect
  <2>3. CASE Deliver(c)
    <3>. DEFINE messages == [notice : DOMAIN notices] \cup [value : Values]
    <3>1. Tail(pending[c]) \in Seq(messages) /\ Head(pending[c]) \in messages
      BY <2>3 DEF Deliver
    <3>2. /\ pending' \in [Clients -> Seq(messages)]
          /\ UNCHANGED <<socket, groups, listed>>
      BY <2>3, <3>1 DEF Deliver
    <3>3. CASE "notice" \in DOMAIN Head(pending[c])
      <4>1. Head(pending[c]).notice \in DOMAIN notices
        BY <3>1, <3>3
      <4>2. known' = [known EXCEPT ![c] = @ \cup {Head(pending[c]).notice}] /\ UNCHANGED state
        BY <2>3, <3>3 DEF Deliver
      <4>3. known' \in [Clients -> SUBSET DOMAIN notices]
        BY <4>1, <4>2
      <4>. QED
        BY <3>2, <4>2, <4>3
    <3>4. CASE "notice" \notin DOMAIN Head(pending[c])
      <4>1. Head(pending[c]).value \in Values
        BY <3>1, <3>4
      <4>. QED
        BY <2>3, <3>2, <3>4, <4>1 DEF Deliver
    <3>. QED
      BY <3>3, <3>4
  <2>4. CASE List(c)
    BY <2>4 DEF List, NoticesOf
  <2>5. CASE Ask(c)
    BY <2>5, SnapshotType DEF Ask
  <2>. QED
    BY <2>1, <2>2, <2>3, <2>4, <2>5 DEF Show
<1>. QED
  BY <1>1, <1>2, <1>4

(* Every step keeps the types.                                             *)
LEMMA NoticesNextType == NoticesTypeOK /\ [NoticesNext]_noticesVars => NoticesTypeOK'
<1>1. ASSUME NoticesTypeOK, UNCHANGED noticesVars PROVE NoticesTypeOK'
  <2>1. /\ UNCHANGED preferences /\ UNCHANGED telling /\ UNCHANGED maintenance
        /\ UNCHANGED browsers /\ UNCHANGED events
    BY <1>1, Zenon DEF noticesVars
  <2>. QED
    BY <1>1, <2>1, SameTypes DEF NoticesTypeOK, telling
<1>. QED
  BY <1>1, FormsType, TasksType, MaintenanceType, BrowsersType DEF NoticesNext

(* Every variable of Notices keeps its type, and nothing is broadcast,     *)
(* queued or shown that is not a row of the table.                         *)
THEOREM NoticesTypeCorrect == NoticesSpec => []NoticesTypeOK
BY NoticesInitType, NoticesNextType, PTL DEF NoticesSpec

-----------------------------------------------------------------------------
(* A task writes preferences only where it makes a missing row.            *)
LEMMA OthersLeaveChoices ==
  ASSUME NEW w \in Tellers, Tell(w), ~\E v \in Tellers : Make(v)
  PROVE  UNCHANGED preferences
BY DEF Tell, Look, CreateNotice, Broadcast, Finish

(* A row that is made holds the defaults; one that is there stays.         *)
LEMMA MakingKeepsChoices ==
  ASSUME PreferencesTyped, ChoicesStay, NoRowNoChoice, NEW u,
         pref' = Ensured(u), UNCHANGED <<chosen, lost>>
  PROVE  /\ ChoicesStay' /\ NoRowNoChoice'
         /\ \A v \in Users : pref[v] # NoRow => pref'[v] # NoRow
BY DefaultsType DEF PreferencesTyped, ChoicesStay, NoRowNoChoice, Ensured

(* A form that read the row holds what is there.                           *)
LEMMA ReadingIsFresh ==
  ASSUME NoticesTypeOK, FormsAreFresh, NEW f \in Forms, NEW u \in Users,
         form' = [form EXCEPT ![f] = Editing(u, pref'[u], {})],
         pref'[u] # NoRow, ChoicesStay', UNCHANGED <<chosen, lost>>,
         \A v \in Users : pref[v] # NoRow => pref'[v] # NoRow
  PROVE  FormsAreFresh'
<1>. PreferencesTyped
  BY DEF NoticesTypeOK
<1>1. ASSUME NEW g \in Forms, form'[g].op = "editing", NEW k \in Kinds
      PROVE  /\ pref'[form'[g].user] # NoRow
             /\ k \notin form'[g].missed /\ k \notin lost'[form'[g].user]
                  => form'[g].copy[k] = chosen'[form'[g].user][k]
  <2>1. CASE g = f
    <3>1. form'[g] = Editing(u, pref'[u], {})
      BY <2>1 DEF PreferencesTyped
    <3>2. form'[g].user = u /\ form'[g].copy = pref'[u]
      BY <3>1 DEF Editing
    <3>. QED
      BY <3>2 DEF ChoicesStay
  <2>2. CASE g # f
    <3>1. form'[g] = form[g] /\ form[g].user \in Users
      BY <1>1, <2>2, FormFields DEF PreferencesTyped
    <3>. QED
      BY <1>1, <3>1 DEF FormsAreFresh
  <2>. QED
    BY <2>1, <2>2
<1>2. \E k \in Kinds : TRUE
  BY DEF Kinds
<1>. QED
  BY <1>1, <1>2 DEF FormsAreFresh

(* A form that is saved: what it does not name goes back to its copy, and  *)
(* the forms open beside it miss what it names.                            *)
LEMMA SavingKeepsChoices ==
  ASSUME NoticesTypeOK, ChoicesKept, NEW f \in Forms, NEW choice \in Choices, SaveForm(f, choice)
  PROVE  ChoicesKept'
<1>. PreferencesTyped /\ ChoicesStay /\ FormsAreFresh /\ NoRowNoChoice
  BY DEF NoticesTypeOK, ChoicesKept
<1>. PICK u \in Users : u = form[f].user
  BY FormFields DEF SaveForm
<1>1. form[f].op = "editing" /\ form[f].copy \in Preference /\ u = form[f].user
  BY FormFields DEF SaveForm
<1>2. /\ pref'[u] = Filled(form[f].copy, choice)
      /\ chosen'[u] = Filled(chosen[u], choice)
      /\ lost'[u] = (lost[u] \cup form[f].missed) \ DOMAIN choice
      /\ \A v \in Users \ {u} :
           pref'[v] = pref[v] /\ chosen'[v] = chosen[v] /\ lost'[v] = lost[v]
  BY <1>1 DEF SaveForm, PreferencesTyped
<1>3. pref'[u] # NoRow
  BY <1>1, <1>2, FilledType, RowIsNoNone
<1>4. ASSUME NEW k \in Kinds, k \notin lost'[u]
      PROVE  pref'[u][k] = chosen'[u][k]
  <2>1. CASE k \in DOMAIN choice
    BY <1>2, <2>1 DEF Filled
  <2>2. CASE k \notin DOMAIN choice
    <3>1. form[f].copy[k] = chosen[u][k]
      BY <1>1, <1>2, <1>4, <2>2 DEF FormsAreFresh
    <3>. QED
      BY <1>2, <2>2, <3>1 DEF Filled
  <2>. QED
    BY <2>1, <2>2
<1>5. ChoicesStay' /\ NoRowNoChoice'
  BY <1>2, <1>3, <1>4 DEF ChoicesStay, NoRowNoChoice
<1>6. ASSUME NEW g \in Forms, form'[g].op = "editing"
      PROVE  /\ pref'[form'[g].user] # NoRow
             /\ \A k \in Kinds :
                  k \notin form'[g].missed /\ k \notin lost'[form'[g].user]
                    => form'[g].copy[k] = chosen'[form'[g].user][k]
  <2>1. g # f /\ form[g].op = "editing"
    BY <1>6 DEF SaveForm, AtRest
  <2>2. form[g].user \in Users
    BY <2>1, FormFields
  <2>3. CASE form[g].user = u
    <3>1. form'[g] = Editing(u, form[g].copy, form[g].missed \cup DOMAIN choice)
      BY <1>1, <2>1, <2>3 DEF SaveForm
    <3>2. /\ form'[g].user = u /\ form'[g].copy = form[g].copy
          /\ form'[g].missed = form[g].missed \cup DOMAIN choice
      BY <3>1 DEF Editing
    <3>3. ASSUME NEW k \in Kinds, k \notin form'[g].missed, k \notin lost'[u]
          PROVE  form[g].copy[k] = chosen'[u][k]
      <4>1. k \notin DOMAIN choice /\ k \notin form[g].missed /\ k \notin lost[u]
        BY <1>2, <3>2, <3>3
      <4>2. form[g].copy[k] = chosen[u][k]
        BY <2>1, <2>3, <4>1 DEF FormsAreFresh
      <4>. QED
        BY <1>2, <4>1, <4>2 DEF Filled
    <3>. QED
      BY <1>3, <3>2, <3>3
  <2>4. CASE form[g].user # u
    <3>1. form'[g] = form[g]
      BY <1>1, <2>1, <2>4 DEF SaveForm
    <3>. QED
      BY <1>2, <2>1, <2>2, <2>4, <3>1 DEF FormsAreFresh
  <2>. QED
    BY <2>3, <2>4
<1>. QED
  BY <1>5, <1>6 DEF ChoicesKept, FormsAreFresh

(* Every step keeps the rows what their users chose, and the copies the    *)
(* forms hold true to them: the only writers of a row that is there are    *)
(* the forms of its user.                                                  *)
LEMMA NextKeepsChoices ==
  NoticesTypeOK /\ ChoicesKept /\ [NoticesNext]_noticesVars => ChoicesKept'
<1> SUFFICES ASSUME NoticesTypeOK, ChoicesKept, [NoticesNext]_noticesVars
             PROVE  ChoicesKept'
  OBVIOUS
<1>. PreferencesTyped /\ ChoicesStay /\ FormsAreFresh /\ NoRowNoChoice
  BY DEF NoticesTypeOK, ChoicesKept
<1>1. CASE UNCHANGED preferences
  BY <1>1 DEF preferences, ChoicesKept, ChoicesStay, FormsAreFresh, NoRowNoChoice
<1>2. ASSUME NEW f \in Forms, NEW u \in Users, OpenForm(f, u) PROVE ChoicesKept'
  <2>1. UNCHANGED <<pref, chosen, lost>>
    BY <1>2 DEF OpenForm
  <2>2. ChoicesStay' /\ NoRowNoChoice'
    BY <2>1 DEF ChoicesStay, NoRowNoChoice
  <2>3. CASE pref[u] = NoRow
    <3>1. form' = [form EXCEPT ![f] = [op |-> "making", user |-> u]]
      BY <1>2, <2>3 DEF OpenForm
    <3>2. FormsAreFresh'
      BY <2>1, <3>1 DEF FormsAreFresh, PreferencesTyped
    <3>. QED
      BY <2>2, <3>2 DEF ChoicesKept
  <2>4. CASE pref[u] # NoRow
    <3>1. form' = [form EXCEPT ![f] = Editing(u, pref'[u], {})]
      BY <1>2, <2>1, <2>4 DEF OpenForm
    <3>. QED
      BY <2>1, <2>2, <2>4, <3>1, ReadingIsFresh DEF ChoicesKept
  <2>. QED
    BY <2>3, <2>4
<1>3. ASSUME NEW f \in Forms, MakeForm(f) PROVE ChoicesKept'
  <2>. PICK u \in Users : u = form[f].user
    BY <1>3, FormFields DEF MakeForm
  <2>1. /\ pref' = Ensured(u) /\ UNCHANGED <<chosen, lost>>
        /\ form' = [form EXCEPT ![f] = Editing(u, pref'[u], {})]
    BY <1>3 DEF MakeForm
  <2>2. /\ ChoicesStay' /\ NoRowNoChoice'
        /\ \A v \in Users : pref[v] # NoRow => pref'[v] # NoRow
    BY <2>1, MakingKeepsChoices
  <2>3. pref'[u] # NoRow
    BY <2>1, EnsuredType, RowIsNoNone
  <2>. QED
    BY <2>1, <2>2, <2>3, ReadingIsFresh DEF ChoicesKept
<1>4. ASSUME NEW f \in Forms, NEW choice \in Choices, SaveForm(f, choice) PROVE ChoicesKept'
  BY <1>4, SavingKeepsChoices
<1>5. ASSUME NEW w \in Tellers, Make(w) PROVE ChoicesKept'
  <2>1. UNCHANGED <<chosen, form, lost>> /\ pref' = Ensured(doing[w].user)
    BY <1>5 DEF Make
  <2>2. /\ ChoicesStay' /\ NoRowNoChoice'
        /\ \A v \in Users : pref[v] # NoRow => pref'[v] # NoRow
    BY <2>1, MakingKeepsChoices
  <2>3. \A f \in Forms : form[f].op = "editing" => form[f].user \in Users
    BY FormFields
  <2>4. FormsAreFresh'
    BY <2>1, <2>2, <2>3 DEF FormsAreFresh
  <2>. QED
    BY <2>2, <2>4 DEF ChoicesKept
<1>6. CASE \E w \in Tellers : Make(w)
  BY <1>5, <1>6
<1>7. CASE UNCHANGED noticesVars
  BY <1>1, <1>7, Zenon DEF noticesVars
<1>8. ASSUME NEW w \in Tellers, NEW kind \in Kinds, NEW asker \in Users, Begin(w, kind, asker)
      PROVE  UNCHANGED preferences
  BY <1>8 DEF Begin
<1>9. ASSUME NEW w \in Tellers, FailBroadcast(w) \/ Crash(w) PROVE UNCHANGED preferences
  BY <1>9 DEF FailBroadcast, Crash
<1>10. ASSUME NEW a \in Admins, Edit(a) \/ Publish(a) \/ FailState(a)
       PROVE  UNCHANGED preferences
  BY <1>10 DEF Edit, AddState, EditState, DeleteState, Saved, Publish, ReadSnapshot, SendState,
               FailState
<1>11. ASSUME NEW c \in Clients, Connect(c) \/ Disconnect(c) \/ Show(c)
       PROVE  UNCHANGED preferences
  BY <1>11 DEF Connect, Disconnect, Show, Greet, Accept, Join, Deliver, List, Ask
<1>. QED
  BY <1>1, <1>2, <1>3, <1>4, <1>6, <1>7, <1>8, <1>9, <1>10, <1>11, OthersLeaveChoices DEF NoticesNext

(* What a user chose to be told of stays chosen, though whoever asks first *)
(* makes its row of preferences and any number of its forms are open,      *)
(* except what one of them saved while another was open that then put it   *)
(* back.                                                                   *)
THEOREM ChoicesRemain == NoticesSpec => []ChoicesStay
<1>1. NoticesInit => ChoicesKept
  BY DEF NoticesInit, ChoicesKept, ChoicesStay, FormsAreFresh, NoRowNoChoice, AtRest
<1>2. ChoicesKept => ChoicesStay
  BY DEF ChoicesKept
<1>. QED
  BY <1>1, <1>2, NoticesInitType, NoticesNextType, NextKeepsChoices, PTL DEF NoticesSpec

-----------------------------------------------------------------------------
(* The state of maintenance, with one administrator: the hooks of two can  *)
(* send what they read in the opposite order.                              *)
OneAdministrator == \A a, b \in Admins : a = b

(* A message that says the state.                                          *)
Says(message) == "notice" \notin DOMAIN message

Quiet == ~stale /\ \A a \in Admins : publish[a] = AtRest

(* The last a browser will hear of the state is the present one; or it has *)
(* nothing to hear, and shows it or has not asked.                         *)
HearsTheState(c) ==
  /\ (\A i \in DOMAIN pending[c] : ~Says(pending[c][i])) => state[c] \in {Unknown, Snapshot}
  /\ \A i \in DOMAIN pending[c] :
       /\ Says(pending[c][i])
       /\ \A j \in DOMAIN pending[c] : j > i => ~Says(pending[c][j])
       => pending[c][i].value = Snapshot

(* A browser shows a state, or has one to hear, only in the group.         *)
InTheGroup(c) ==
  \/ "maintenance" \in groups[c]
  \/ /\ socket[c] # "open"
     /\ state[c] = Unknown
     /\ \A i \in DOMAIN pending[c] : ~Says(pending[c][i])

(* What is about to be sent is the present state.                          *)
SendsThePresent == \A a \in Admins : publish[a].op = "sending" => publish[a].value = Snapshot

StateKept ==
  /\ SendsThePresent
  /\ \A c \in Clients : InTheGroup(c)
  /\ Quiet => \A c \in Clients : HearsTheState(c)

(* Nothing happens to the state, its hooks and its browsers.               *)
LEMMA StateLeftAlone ==
  ASSUME StateKept, UNCHANGED <<table, publish, stale, socket, groups, pending, state>>
  PROVE  StateKept'
BY DEF StateKept, SendsThePresent, InTheGroup, Quiet, HearsTheState, Snapshot

(* A notice in its channel tells a browser nothing of the state.           *)
LEMMA NoticeQueued ==
  ASSUME NoticesTypeOK, NEW c \in Clients, NEW id, pending'[c] = Append(pending[c], [notice |-> id]),
         UNCHANGED <<table, socket, groups, state>>
  PROVE  /\ InTheGroup(c) => InTheGroup(c)'
         /\ HearsTheState(c) => HearsTheState(c)'
<1>. DEFINE n == Len(pending[c])
<1>1. n \in Nat /\ DOMAIN pending[c] = 1 .. n
  BY DEF NoticesTypeOK, BrowsersTyped
<1>2. /\ DOMAIN pending'[c] = 1 .. n + 1 /\ pending'[c][n + 1] = [notice |-> id]
      /\ \A i \in 1 .. n : pending'[c][i] = pending[c][i]
  BY <1>1 DEF NoticesTypeOK, BrowsersTyped
<1>3. ~Says(pending'[c][n + 1])
  BY <1>2 DEF Says
<1>. HIDE DEF n
<1>4. InTheGroup(c) => InTheGroup(c)'
  BY <1>1, <1>2, <1>3 DEF InTheGroup
<1>5. HearsTheState(c) => HearsTheState(c)'
  <2>1. ASSUME \A i \in 1 .. n + 1 : ~Says(pending'[c][i]), NEW i \in 1 .. n
        PROVE  ~Says(pending[c][i])
    <3>1. i \in 1 .. n + 1 /\ pending'[c][i] = pending[c][i]
      BY <1>1, <1>2
    <3>. QED
      BY <2>1, <3>1
  <2>2. ASSUME NEW i \in 1 .. n + 1, Says(pending'[c][i]),
               \A j \in 1 .. n + 1 : j > i => ~Says(pending'[c][j])
        PROVE  /\ i \in 1 .. n /\ pending'[c][i] = pending[c][i] /\ Says(pending[c][i])
               /\ \A j \in 1 .. n : j > i => ~Says(pending[c][j])
    <3>1. i \in 1 .. n
      BY <1>1, <1>3, <2>2
    <3>. QED
      BY <1>1, <1>2, <2>2, <3>1
  <2>. QED
    BY <1>1, <1>2, <2>1, <2>2 DEF HearsTheState, Snapshot
<1>. QED
  BY <1>4, <1>5

(* The hook's publication is the last a browser in the group hears.        *)
LEMMA StateQueued ==
  ASSUME NoticesTypeOK, NEW c \in Clients, pending'[c] = Append(pending[c], [value |-> Snapshot]),
         UNCHANGED <<table, groups, state>>, "maintenance" \in groups[c]
  PROVE  InTheGroup(c)' /\ HearsTheState(c)'
<1>. DEFINE n == Len(pending[c])
<1>1. n \in Nat /\ DOMAIN pending[c] = 1 .. n
  BY DEF NoticesTypeOK, BrowsersTyped
<1>2. /\ DOMAIN pending'[c] = 1 .. n + 1 /\ pending'[c][n + 1] = [value |-> Snapshot]
      /\ Snapshot' = Snapshot
  BY <1>1 DEF NoticesTypeOK, BrowsersTyped, Snapshot
<1>3. Says(pending'[c][n + 1]) /\ pending'[c][n + 1].value = Snapshot
  BY <1>2 DEF Says
<1>. HIDE DEF n
<1>4. ASSUME NEW i \in 1 .. n + 1, \A j \in 1 .. n + 1 : j > i => ~Says(pending'[c][j])
      PROVE  i = n + 1
  BY <1>1, <1>3, <1>4
<1>5. n + 1 \in 1 .. n + 1
  BY <1>1
<1>. QED
  BY <1>2, <1>3, <1>4, <1>5 DEF InTheGroup, HearsTheState

(* What a browser hears first it shows; what it hears last stays.          *)
LEMMA StateHeard ==
  ASSUME NoticesTypeOK, NEW c \in Clients, Deliver(c), "maintenance" \in groups[c]
  PROVE  InTheGroup(c)' /\ (HearsTheState(c) => HearsTheState(c)')
<1>. DEFINE n == Len(pending[c])
            first == Head(pending[c])
<1>1. n \in Nat \ {0} /\ DOMAIN pending[c] = 1 .. n /\ first = pending[c][1]
  BY DEF NoticesTypeOK, BrowsersTyped, Deliver
<1>2. /\ pending'[c] = Tail(pending[c]) /\ Snapshot' = Snapshot /\ groups' = groups
      /\ Says(first) => state'[c] = first.value
      /\ ~Says(first) => state'[c] = state[c]
  BY DEF NoticesTypeOK, BrowsersTyped, Deliver, Snapshot, maintenance, Says
<1>3. /\ DOMAIN pending'[c] = 1 .. n - 1
      /\ \A i \in 1 .. n - 1 : pending'[c][i] = pending[c][i + 1]
  BY <1>1, <1>2 DEF NoticesTypeOK, BrowsersTyped
<1>. HIDE DEF n, first
<1>4. ASSUME HearsTheState(c), \A i \in 1 .. n - 1 : ~Says(pending'[c][i])
      PROVE  state'[c] \in {Unknown, Snapshot}
  <2>1. \A j \in 1 .. n : j > 1 => ~Says(pending[c][j])
    <3>1. \A j \in 1 .. n : j > 1 => j - 1 \in 1 .. n - 1 /\ pending'[c][j - 1] = pending[c][j]
      BY <1>1, <1>3
    <3>. QED
      BY <1>4, <3>1
  <2>2. CASE Says(first)
    <3>1. first.value = Snapshot
      BY <1>1, <1>4, <2>1, <2>2 DEF HearsTheState
    <3>. QED
      BY <1>2, <2>2, <3>1
  <2>3. CASE ~Says(first)
    <3>1. \A j \in 1 .. n : ~Says(pending[c][j])
      BY <1>1, <2>1, <2>3
    <3>. QED
      BY <1>1, <1>2, <1>4, <2>3, <3>1 DEF HearsTheState
  <2>. QED
    BY <2>2, <2>3
<1>5. ASSUME HearsTheState(c), NEW i \in 1 .. n - 1, Says(pending'[c][i]),
             \A j \in 1 .. n - 1 : j > i => ~Says(pending'[c][j])
      PROVE  pending'[c][i].value = Snapshot
  <2>1. i + 1 \in 1 .. n /\ pending'[c][i] = pending[c][i + 1]
    BY <1>1, <1>3
  <2>2. ASSUME NEW j \in 1 .. n, j > i + 1 PROVE ~Says(pending[c][j])
    <3>1. j - 1 \in 1 .. n - 1 /\ j - 1 > i /\ pending'[c][j - 1] = pending[c][j]
      BY <1>1, <1>3, <2>2
    <3>. QED
      BY <1>5, <3>1
  <2>. QED
    BY <1>1, <1>5, <2>1, <2>2 DEF HearsTheState
<1>. QED
  BY <1>2, <1>3, <1>4, <1>5 DEF InTheGroup, HearsTheState

(* The administrator's steps.                                              *)
LEMMA PublishKeepsState ==
  ASSUME OneAdministrator, NoticesTypeOK, StateKept, NEW a \in Admins,
         Edit(a) \/ Publish(a) \/ FailState(a)
  PROVE  StateKept'
<1>. \A b \in Admins : b = a
  BY DEF OneAdministrator
<1>. publish \in [Admins -> [op : {"idle", "hook"}] \cup [op : {"sending"}, value : Values]]
  BY DEF NoticesTypeOK, MaintenanceTyped
<1>1. ASSUME NEW rows, Saved(a, rows) PROVE StateKept'
  <2>1. UNCHANGED <<socket, groups, pending, state>> /\ publish'[a].op = "hook"
    BY <1>1 DEF Saved, browsers
  <2>. QED
    BY <2>1 DEF StateKept, SendsThePresent, InTheGroup, Quiet, AtRest
<1>2. CASE ReadSnapshot(a)
  <2>1. /\ UNCHANGED <<table, socket, groups, pending, state>> /\ publish'[a].op = "sending"
        /\ publish'[a].value = Snapshot
    BY <1>2 DEF ReadSnapshot, browsers
  <2>. QED
    BY <2>1 DEF StateKept, SendsThePresent, InTheGroup, Quiet, AtRest, Snapshot
<1>3. CASE SendState(a)
  <2>1. publish'[a].op = "idle" /\ publish[a].value = Snapshot
    BY <1>3 DEF SendState, AtRest, StateKept, SendsThePresent
  <2>2. ASSUME NEW c \in Clients PROVE InTheGroup(c)' /\ HearsTheState(c)'
    <3>1. UNCHANGED <<table, socket, groups, state>>
      BY <1>3 DEF SendState
    <3>2. CASE "maintenance" \in groups[c]
      <4>1. pending'[c] = Append(pending[c], [value |-> Snapshot])
        BY <1>3, <2>1, <3>2 DEF SendState
      <4>. QED
        BY <3>1, <3>2, <4>1, StateQueued
    <3>3. CASE "maintenance" \notin groups[c]
      <4>1. pending'[c] = pending[c]
        BY <1>3, <3>3 DEF SendState
      <4>. QED
        BY <3>1, <3>3, <4>1 DEF StateKept, InTheGroup, HearsTheState
    <3>. QED
      BY <3>2, <3>3
  <2>. QED
    BY <2>1, <2>2 DEF StateKept, SendsThePresent
<1>4. CASE FailState(a)
  <2>1. UNCHANGED <<table, socket, groups, pending, state>> /\ publish'[a].op = "idle" /\ stale'
    BY <1>4 DEF FailState, browsers, AtRest
  <2>. QED
    BY <2>1 DEF StateKept, SendsThePresent, InTheGroup, Quiet
<1>. QED
  BY <1>1, <1>2, <1>3, <1>4 DEF Edit, AddState, EditState, DeleteState, Publish

(* The browsers' steps.                                                    *)
LEMMA BrowserKeepsState ==
  ASSUME NoticesTypeOK, StateKept, NEW c \in Clients, Connect(c) \/ Disconnect(c) \/ Show(c)
  PROVE  StateKept'
<1>. USE DEF NoticesTypeOK, BrowsersTyped
<1>1. UNCHANGED <<table, publish, stale>>
  BY DEF Connect, Disconnect, Show, Greet, Accept, Join, Deliver, List, Ask, maintenance
<1>2. \A d \in Clients \ {c} :
        /\ socket'[d] = socket[d] /\ groups'[d] = groups[d]
        /\ pending'[d] = pending[d] /\ state'[d] = state[d]
  BY DEF Connect, Disconnect, Show, Greet, Accept, Join, Deliver, List, Ask
<1>3. InTheGroup(c)' /\ (HearsTheState(c) => HearsTheState(c)')
  <2>. USE <1>1 DEF StateKept
  <2>1. CASE Greet(c)
    BY <2>1 DEF Greet, InTheGroup, HearsTheState, Snapshot
  <2>2. CASE Accept(c)
    BY <2>2 DEF Accept, InTheGroup, HearsTheState, Snapshot
  <2>3. ASSUME NEW group \in {"own", "maintenance"}, Join(c, group)
        PROVE  InTheGroup(c)' /\ (HearsTheState(c) => HearsTheState(c)')
    BY <2>3 DEF Join, InTheGroup, HearsTheState, Snapshot
  <2>4. CASE Disconnect(c)
    <3>1. state'[c] = Unknown /\ pending'[c] = << >> /\ socket'[c] = "closed"
      BY <2>4 DEF Disconnect
    <3>. QED
      BY <3>1 DEF InTheGroup, HearsTheState
  <2>5. CASE Deliver(c)
    BY <2>5, StateHeard DEF Deliver, InTheGroup
  <2>6. CASE List(c)
    BY <2>6 DEF List, InTheGroup, HearsTheState, Snapshot
  <2>7. CASE Ask(c)
    BY <2>7 DEF Ask, InTheGroup, HearsTheState, Snapshot
  <2>. QED
    BY <2>1, <2>2, <2>3, <2>4, <2>5, <2>6, <2>7 DEF Connect, Show
<1>4. ASSUME NEW d \in Clients \ {c}
      PROVE  InTheGroup(d)' /\ (HearsTheState(d) => HearsTheState(d)')
  <2>1. Snapshot' = Snapshot
    BY <1>1 DEF Snapshot
  <2>2. /\ groups'[d] = groups[d] /\ socket'[d] = socket[d]
        /\ pending'[d] = pending[d] /\ state'[d] = state[d]
    BY <1>2, <1>4
  <2>3. InTheGroup(d)
    BY <1>4 DEF StateKept
  <2>. HIDE DEF NoticesTypeOK, BrowsersTyped
  <2>. QED
    BY <2>1, <2>2, <2>3 DEF InTheGroup, HearsTheState
<1>. QED
  BY <1>1, <1>3, <1>4 DEF StateKept, SendsThePresent, Quiet, Snapshot

LEMMA StateStep ==
  ASSUME OneAdministrator, NoticesTypeOK, StateKept, [NoticesNext]_noticesVars
  PROVE  StateKept'
<1>1. CASE UNCHANGED noticesVars
  BY <1>1, StateLeftAlone DEF noticesVars, maintenance, browsers
<1>2. ASSUME NEW f \in Forms,
             \/ \E u \in Users : OpenForm(f, u)
             \/ MakeForm(f)
             \/ \E choice \in Choices : SaveForm(f, choice)
      PROVE  StateKept'
  BY <1>2, StateLeftAlone DEF OpenForm, MakeForm, SaveForm, maintenance, browsers
<1>3. ASSUME NEW w \in Tellers,
             \/ \E kind \in Kinds, asker \in Users : Begin(w, kind, asker)
             \/ \E u \in Users : Look(w, u)
             \/ Make(w) \/ CreateNotice(w) \/ Finish(w) \/ FailBroadcast(w) \/ Crash(w)
      PROVE  StateKept'
  BY <1>3, StateLeftAlone DEF Begin, Look, Make, CreateNotice, Finish, FailBroadcast, Crash,
                              maintenance, browsers
<1>4. ASSUME NEW w \in Tellers, Broadcast(w) PROVE StateKept'
  <2>1. UNCHANGED <<table, publish, stale, socket, groups, state>>
    BY <1>4 DEF Broadcast, maintenance
  <2>2. ASSUME NEW c \in Clients
        PROVE  InTheGroup(c)' /\ (HearsTheState(c) => HearsTheState(c)')
    <3>1. pending'[c] = pending[c] \/ pending'[c] = Append(pending[c], [notice |-> doing[w].id])
      BY <1>4 DEF Broadcast
    <3>2. CASE pending'[c] = pending[c]
      BY <2>1, <3>2 DEF StateKept, InTheGroup, HearsTheState, Snapshot
    <3>. QED
      BY <2>1, <3>1, <3>2, NoticeQueued DEF StateKept
  <2>. QED
    BY <2>1, <2>2 DEF StateKept, SendsThePresent, Quiet, Snapshot
<1>. QED
  BY <1>1, <1>2, <1>3, <1>4, PublishKeepsState, BrowserKeepsState DEF NoticesNext, Tell

(* With one administrator, a browser that asked shows the present state of *)
(* maintenance once its publication has gone out and been heard, whenever  *)
(* it connected and whatever it missed (WsMaintenanceState, on_commit,     *)
(* the consumer's connect).                                                *)
THEOREM TheStateIsShown ==
  ASSUME OneAdministrator
  PROVE  NoticesSpec => []ShowsTheState
<1>1. NoticesInit => StateKept
  BY DEF NoticesInit, StateKept, SendsThePresent, InTheGroup, HearsTheState, AtRest
<1>2. NoticesTypeOK /\ StateKept /\ [NoticesNext]_noticesVars => NoticesTypeOK' /\ StateKept'
  BY NoticesNextType, StateStep
<1>3. StateKept => ShowsTheState
  BY DEF StateKept, ShowsTheState, HearsTheState, Quiet, Says
<1>. QED
  BY <1>1, <1>2, <1>3, NoticesInitType, PTL DEF NoticesSpec
=============================================================================
