---------------------------- MODULE StockService ----------------------------
(***************************************************************************)
(* The stock service as it runs: several requests at once, each inside a   *)
(* PostgreSQL transaction at READ COMMITTED, moving balance rows under     *)
(* SELECT ... FOR UPDATE (get_locked_balance).  What a transaction writes  *)
(* is private until it commits; a refused movement, a broken lock cycle or *)
(* a dead worker rolls all of it back.                                     *)
(*                                                                         *)
(* The status a handler checks was read by its view before the transaction *)
(* and the document row is never locked, so two requests may both find it  *)
(* pending.                                                                *)
(***************************************************************************)
EXTENDS StockRules

CONSTANTS
  NoRequest,   \* nobody: the holder of a free row
  NoDoc        \* nothing: the document of an idle request

ASSUME NobodyAssumption == NoRequest \notin Requests /\ NoDoc \notin Docs

VARIABLES
  balance,   \* Rows -> Balance, committed
  journal,   \* Rows -> Seq(Movement), committed, in commit order
  status,    \* Docs -> {"pending", "applied"}, committed
  lock,      \* Rows -> the request whose transaction locked the row
  pc,        \* Requests -> where the request is
  doc,       \* Requests -> the document it works on
  pos,       \* Requests -> how many of the document's steps are behind it
  view,      \* Requests -> Rows -> the row as its transaction sees it
  log,       \* Requests -> Rows -> the movements its transaction inserted
  hooks,     \* Requests -> the rows its on_commit hooks will name
  queued     \* rows with a low-stock check sent to Celery

vars == <<balance, journal, status, lock, pc, doc, pos, view, log, hooks, queued>>

(* idle: not received.  open: in its transaction.  committed: running the  *)
(* on_commit hooks.  done: answered.  failed: answered with an error,      *)
(* rolled back.  broken: committed, but a hook raised.                     *)
Places == {"idle", "open", "committed", "done", "failed", "broken"}

NoMoves == [r \in Rows |-> << >>]

Init ==
  /\ balance = Opening
  /\ journal = NoMoves
  /\ status = [d \in Docs |-> "pending"]
  /\ lock = [r \in Rows |-> NoRequest]
  /\ pc = [t \in Requests |-> "idle"]
  /\ doc = [t \in Requests |-> NoDoc]
  /\ pos = [t \in Requests |-> 0]
  /\ view = [t \in Requests |-> Opening]
  /\ log = [t \in Requests |-> NoMoves]
  /\ hooks = [t \in Requests |-> << >>]
  /\ queued = {}

-----------------------------------------------------------------------------
(* The view reads the document, without a lock, and its handler checks the *)
(* status it read.                                                         *)
Admitted(d) ==
  /\ WellFormed(d)
  /\ Doc[d].kind \in Guarded => status[d] = "pending"

Open(t, d) ==
  /\ pc[t] = "idle"
  /\ Admitted(d)
  /\ pc' = [pc EXCEPT ![t] = "open"]
  /\ doc' = [doc EXCEPT ![t] = d]
  /\ UNCHANGED <<balance, journal, status, lock, pos, view, log, hooks, queued>>

Refuse(t, d) ==
  /\ pc[t] = "idle"
  /\ ~Admitted(d)
  /\ pc' = [pc EXCEPT ![t] = "failed"]
  /\ doc' = [doc EXCEPT ![t] = d]
  /\ UNCHANGED <<balance, journal, status, lock, pos, view, log, hooks, queued>>

(* The step the transaction is about to make.                              *)
Pending(t) == pc[t] = "open" /\ pos[t] < Len(Steps(doc[t]))
Current(t) == Steps(doc[t])[pos[t] + 1]

(* A slip for LockRow: get_or_create without select_for_update.            *)
LockRowWithoutWaiting(t) ==
  /\ Pending(t)
  /\ ~Void(Current(t))
  /\ LET r == Current(t).row
     IN /\ lock[r] # t
        /\ lock' = [lock EXCEPT ![r] = t]
        /\ view' = [view EXCEPT ![t][r] = balance[r]]
  /\ UNCHANGED <<balance, journal, status, pc, doc, pos, log, hooks, queued>>

(* get_locked_balance: waits until no other transaction holds the row,     *)
(* then reads its latest committed version.                                *)
LockRow(t) ==
  /\ Pending(t)
  /\ ~Void(Current(t))
  /\ LET r == Current(t).row
     IN /\ lock[r] = NoRequest
        /\ lock' = [lock EXCEPT ![r] = t]
        /\ view' = [view EXCEPT ![t][r] = balance[r]]
  /\ UNCHANGED <<balance, journal, status, pc, doc, pos, log, hooks, queued>>

(* An inventory line whose count agrees: continue.                         *)
SkipStep(t) ==
  /\ Pending(t)
  /\ LET step == Current(t)
     IN /\ lock[step.row] = t
        /\ Skipped(step, view[t][step.row].quantity)
  /\ pos' = [pos EXCEPT ![t] = @ + 1]
  /\ UNCHANGED <<balance, journal, status, lock, pc, doc, view, log, hooks, queued>>

(* A slip for ApplyStep: the check is sent without waiting for on_commit.  *)
ApplyStepNotifyingEarly(t) ==
  /\ Pending(t)
  /\ LET step == Current(t)
         r == step.row
         bal == view[t][r]
     IN /\ lock[r] = t
        /\ Accepted(step, bal.quantity)
        /\ view' = [view EXCEPT ![t][r] = Moved(step, bal)]
        /\ log' = [log EXCEPT ![t][r] = Append(@, MovementOf(step, bal, t))]
        /\ queued' = queued \cup {r}
  /\ pos' = [pos EXCEPT ![t] = @ + 1]
  /\ UNCHANGED <<balance, journal, status, lock, pc, doc, hooks>>

(* apply_stock_movement, once the row is locked.                           *)
ApplyStep(t) ==
  /\ Pending(t)
  /\ LET step == Current(t)
         r == step.row
         bal == view[t][r]
     IN /\ lock[r] = t
        /\ Accepted(step, bal.quantity)
        /\ view' = [view EXCEPT ![t][r] = Moved(step, bal)]
        /\ log' = [log EXCEPT ![t][r] = Append(@, MovementOf(step, bal, t))]
        /\ hooks' = [hooks EXCEPT ![t] = Append(@, r)]
  /\ pos' = [pos EXCEPT ![t] = @ + 1]
  /\ UNCHANGED <<balance, journal, status, lock, pc, doc, queued>>

(* A slip for Rollback: the transaction is opened by hand, and an error    *)
(* leaves it open on its connection, with its row locks.                   *)
RollbackKeepingLocks(t) ==
  /\ pc' = [pc EXCEPT ![t] = "failed"]
  /\ log' = [log EXCEPT ![t] = NoMoves]
  /\ hooks' = [hooks EXCEPT ![t] = << >>]
  /\ view' = [view EXCEPT ![t] = Opening]
  /\ UNCHANGED <<balance, journal, status, lock, doc, pos, queued>>

(* ROLLBACK: every write and every on_commit hook of t is discarded and    *)
(* its locks are released.                                                 *)
Rollback(t) ==
  /\ pc' = [pc EXCEPT ![t] = "failed"]
  /\ lock' = [r \in Rows |-> IF lock[r] = t THEN NoRequest ELSE lock[r]]
  /\ log' = [log EXCEPT ![t] = NoMoves]
  /\ hooks' = [hooks EXCEPT ![t] = << >>]
  /\ view' = [view EXCEPT ![t] = Opening]
  /\ UNCHANGED <<balance, journal, status, doc, pos, queued>>

(* A ValidationError of apply_stock_movement leaves the atomic blocks.     *)
RefuseStep(t) ==
  /\ Pending(t)
  /\ LET step == Current(t)
         q == view[t][step.row].quantity
     IN \/ Void(step)
        \/ /\ lock[step.row] = t
           /\ ~Skipped(step, q)
           /\ ~Accepted(step, q)
  /\ Rollback(t)

(* PostgreSQL finds t on a cycle of transactions that wait for each        *)
(* other's rows and aborts it (deadlock detected).                         *)
Holder(t) == lock[Current(t).row]
Waiting(t) ==
  Pending(t) /\ ~Void(Current(t)) /\ Holder(t) \notin {NoRequest, t}
Deadlocked(t) ==
  \E S \in SUBSET Requests :
    /\ t \in S
    /\ \A u \in S : Waiting(u)
    /\ S = {Holder(u) : u \in S}

DeadlockAbort(t) == Deadlocked(t) /\ Rollback(t)

(* The worker dies, or its connection does, before COMMIT.                 *)
Crash(t) == pc[t] = "open" /\ Rollback(t)

(* The document is saved as applied and the transaction commits.           *)
Commit(t) ==
  /\ pc[t] = "open"
  /\ pos[t] = Len(Steps(doc[t]))
  /\ balance' = [r \in Rows |-> IF lock[r] = t THEN view[t][r] ELSE balance[r]]
  /\ journal' = [r \in Rows |-> journal[r] \o log[t][r]]
  /\ status' = IF Doc[doc[t]].kind \in Guarded
               THEN [status EXCEPT ![doc[t]] = "applied"] ELSE status
  /\ lock' = [r \in Rows |-> IF lock[r] = t THEN NoRequest ELSE lock[r]]
  /\ log' = [log EXCEPT ![t] = NoMoves]
  /\ view' = [view EXCEPT ![t] = Opening]
  /\ pc' = [pc EXCEPT ![t] = "committed"]
  /\ UNCHANGED <<doc, pos, hooks, queued>>

(* The on_commit hooks, in the order they were registered: each sends      *)
(* notify_low_stock_if_needed for one row.                                 *)
RunHook(t) ==
  /\ pc[t] = "committed"
  /\ hooks[t] # << >>
  /\ queued' = queued \cup {Head(hooks[t])}
  /\ hooks' = [hooks EXCEPT ![t] = Tail(@)]
  /\ UNCHANGED <<balance, journal, status, lock, pc, doc, pos, view, log>>

(* The broker refuses, or the worker dies: the remaining hooks are lost    *)
(* and the client sees an error, though the transaction is committed.      *)
FailHook(t) ==
  /\ pc[t] = "committed"
  /\ hooks[t] # << >>
  /\ hooks' = [hooks EXCEPT ![t] = << >>]
  /\ pc' = [pc EXCEPT ![t] = "broken"]
  /\ UNCHANGED <<balance, journal, status, lock, doc, pos, view, log, queued>>

Answer(t) ==
  /\ pc[t] = "committed"
  /\ hooks[t] = << >>
  /\ pc' = [pc EXCEPT ![t] = "done"]
  /\ UNCHANGED <<balance, journal, status, lock, doc, pos, view, log, hooks, queued>>

-----------------------------------------------------------------------------
(* What the thread of an accepted request does by itself.                  *)
Work(t) ==
  \/ LockRow(t) \/ SkipStep(t) \/ ApplyStep(t) \/ RefuseStep(t)
  \/ Commit(t) \/ RunHook(t) \/ Answer(t)

Next ==
  \E t \in Requests :
    \/ \E d \in Docs : Open(t, d) \/ Refuse(t, d)
    \/ Work(t)
    \/ DeadlockAbort(t)
    \/ Crash(t)
    \/ FailHook(t)

Spec == Init /\ [][Next]_vars

(* A thread that can take its next statement takes it, and PostgreSQL's    *)
(* deadlock_timeout looks at every wait; nothing makes a request arrive,   *)
(* a worker die or the broker refuse.                                      *)
FairSpec ==
  /\ Spec
  /\ \A t \in Requests : WF_vars(Work(t)) /\ WF_vars(DeadlockAbort(t))
-----------------------------------------------------------------------------
TypeOK ==
  /\ balance \in [Rows -> Balance]
  /\ journal \in [Rows -> Seq(Movement)]
  /\ status \in [Docs -> {"pending", "applied"}]
  /\ lock \in [Rows -> Requests \cup {NoRequest}]
  /\ pc \in [Requests -> Places]
  /\ doc \in [Requests -> Docs \cup {NoDoc}]
  /\ pos \in [Requests -> Nat]
  /\ view \in [Requests -> [Rows -> Balance]]
  /\ log \in [Requests -> [Rows -> Seq(Movement)]]
  /\ hooks \in [Requests -> Seq(Rows)]
  /\ queued \subseteq Rows
  /\ \A t \in Requests : pc[t] # "idle" => doc[t] \in Docs

(* A run of movements from quantity q: each balance_after is the one       *)
(* before it plus the movement's quantity.                                 *)
Chained(q, moves) ==
  \A i \in 1 .. Len(moves) :
    moves[i].balance_after =
      (IF i = 1 THEN q ELSE moves[i - 1].balance_after) + moves[i].quantity

(* The quantity such a run ends at.                                        *)
EndOf(q, moves) == IF moves = << >> THEN q ELSE moves[Len(moves)].balance_after

(* The stored balance of a row is its opening quantity plus every movement *)
(* recorded for it: no update is lost between two requests, and the        *)
(* balance_after column tells the history (apply_stock_movement, under     *)
(* the lock get_locked_balance takes).                                     *)
BalanceMatchesMovements ==
  \A r \in Rows :
    /\ Chained(Opening[r].quantity, journal[r])
    /\ balance[r].quantity = EndOf(Opening[r].quantity, journal[r])

(* Whatever the requests do at once, a movement that leaves a row below    *)
(* zero was made with allow_negative: a sale, a transfer or an inventory   *)
(* never takes stock that is not there ("Stock insuffisant").              *)
NoUnauthorisedOverdraft ==
  \A r \in Rows : \A i \in 1 .. Len(journal[r]) :
    journal[r][i].balance_after < 0 => journal[r][i].allow_negative

(* A balance row is written by one transaction at a time, and a            *)
(* transaction writes only the rows it holds.                              *)
WritersHoldTheirRows ==
  \A t \in Requests, r \in Rows :
    /\ lock[r] = t => pc[t] = "open"
    /\ log[t][r] # << >> => lock[r] = t

Committed == {"committed", "done", "broken"}

(* t recorded a movement of row r.                                         *)
Recorded(t, r) == \E i \in 1 .. Len(journal[r]) : journal[r][i].by = t

(* When an inventory commits, the stored balances are the counted          *)
(* quantities, whatever moved between the count and the lock               *)
(* (validate_inventory_session).                                           *)
InventorySetsTheCount ==
  [][\A t \in Requests :
       pc[t] = "open" /\ pc'[t] = "committed" /\ Doc[doc[t]].kind = "inventory" =>
         \A i \in 1 .. Len(Steps(doc[t])) :
           balance'[Steps(doc[t])[i].row].quantity = Steps(doc[t])[i].amount]_vars

(* A low-stock check is sent only for a row that committed movements       *)
(* changed, and a request is answered without error only when a check was  *)
(* sent for every row it changed (_notify_low_stock, on_commit).           *)
ChecksFollowCommits ==
  /\ \A r \in queued : journal[r] # << >>
  /\ \A t \in Requests, r \in Rows :
       pc[t] = "done" /\ Recorded(t, r) => r \in queued

(* The locks and private copies implement the ledger that posts a whole    *)
(* document in one step.                                                   *)
Ledger == INSTANCE StockLedger
            WITH posted <- {t \in Requests : pc[t] \in Committed}
ImplementsLedger == Ledger!LedgerSpec
=============================================================================
