----------------------------- MODULE ChatActions -----------------------------
(***************************************************************************)
(* A change the chat assistant proposes and its user confirms: what is     *)
(* shown on the card is what is done, once, by someone who still may.      *)
(* Translated from chat_ai/actions.py.                                     *)
(*                                                                         *)
(* confirm runs in one transaction that locks, in this order, the pending  *)
(* action, its record, and one by one the rows the right to change it      *)
(* rests on.  Around it the application edits and deletes the same         *)
(* records, adds rows that refer to them, changes rights, and purges what  *)
(* has expired.                                                            *)
(***************************************************************************)
EXTENDS Integers, Sequences, FiniteSets

CONSTANTS
  Records,      \* rows the assistant may change
  Parents,      \* those that are products or customers
  Contents,     \* what a row may hold
  Gone,         \* the content of a deleted row
  Actions,      \* PendingAction rows, prepared or to come
  Target,       \* Actions -> the record
  Result,       \* Actions -> what it makes of the record, Gone for "delete"
  Rows,         \* a sale's customer, an employee; users, stores, roles
  RestsOn,      \* Actions -> the rows its right rests on, in the order they are locked
  Confirmers,   \* POST .../confirm/ requests served at once
  Editors,      \* other requests that edit a record
  Nobody,
  Nothing,      \* no action, no record
  PendingLimit, \* actions a user may have open (20)
  MaxEvents     \* bound: edits, deletions, new rows, changes of rights

ASSUME ActionsAssumption ==
  /\ Parents \subseteq Records
  /\ Gone \notin Contents
  /\ Target \in [Actions -> Records]
  /\ Result \in [Actions -> Contents \cup {Gone}]
  /\ RestsOn \in [Actions -> Seq(Rows)]
  /\ Nobody \notin Confirmers
  /\ Nothing \notin Actions \cup Records
  /\ PendingLimit \in Nat /\ MaxEvents \in Nat

VARIABLES
  content,      \* Records -> Contents or Gone
  dependents,   \* Records -> rows that refer to it (one_to_many relations)
  allowed,      \* Actions -> its user may make the change
  state,        \* Actions -> none, open, used (consumed_at), gone (purged)
  expired,      \* actions past expires_at
  shown,        \* Actions -> the content fingerprinted and shown on the card
  audits,       \* Actions -> its AuditEvent rows confirmed_...
  applied,      \* Actions -> how often it reached its record (no column)
  actionLock,   \* Actions -> the confirmer that locked the row
  recordLock,   \* Records -> the confirmer that locked the row
  rowLock,      \* Rows -> the confirmer that locked the row
  pc,           \* Confirmers -> what the request does next
  on,           \* Confirmers -> the action it confirms
  editing,      \* Editors -> the record it has read
  events        \* edits, deletions, new rows, changes of rights so far

data == <<content, dependents, allowed>>
cards == <<state, expired, shown, audits, applied>>
locks == <<actionLock, recordLock, rowLock>>
vars == <<data, cards, locks, pc, on, editing, events>>

Places == {"idle", "action", "target", "rights", "write"}

Init ==
  /\ content \in [Records -> Contents]
  /\ dependents = [r \in Records |-> 0]
  /\ allowed = [a \in Actions |-> TRUE]
  /\ state = [a \in Actions |-> "none"]
  /\ expired = {}
  /\ shown = [a \in Actions |-> Gone]
  /\ audits = [a \in Actions |-> 0] /\ applied = [a \in Actions |-> 0]
  /\ actionLock = [a \in Actions |-> Nobody]
  /\ recordLock = [r \in Records |-> Nobody]
  /\ rowLock = [w \in Rows |-> Nobody]
  /\ pc = [c \in Confirmers |-> "idle"]
  /\ on = [c \in Confirmers |-> Nothing]
  /\ editing = [e \in Editors |-> Nothing]
  /\ events = 0

-----------------------------------------------------------------------------
(* ensure_delete_scope: a product or a customer that other rows refer to   *)
(* is not deleted.                                                         *)
InScope(a) ==
  Result[a] = Gone /\ Target[a] \in Parents => dependents[Target[a]] = 0

(* checked_object: the record is there, the user may change it, a deletion *)
(* is in scope.                                                            *)
Permitted(a) == content[Target[a]] # Gone /\ allowed[a] /\ InScope(a)

(* prepare: the card shows the record as it is; fewer than 20 are open.    *)
Prepare(a) ==
  /\ state[a] = "none"
  /\ Permitted(a)
  /\ Cardinality({b \in Actions \ expired : state[b] = "open"}) < PendingLimit
  /\ state' = [state EXCEPT ![a] = "open"]
  /\ shown' = [shown EXCEPT ![a] = content[Target[a]]]
  /\ UNCHANGED <<data, expired, audits, applied, locks, pc, on, editing, events>>

(* What replay_confirmation tells the client of an action.                 *)
Status(a) ==
  IF state[a] \in {"none", "gone"}
  THEN IF audits[a] > 0 THEN "done" ELSE "unavailable"
  ELSE IF state[a] = "used" THEN "done"
  ELSE IF a \in expired THEN "expired"
  ELSE IF Permitted(a) /\ content[Target[a]] = shown[a] THEN "card" ELSE "changed"

-----------------------------------------------------------------------------
(* confirm                                                                 *)
Begin(c, a) ==
  /\ pc[c] = "idle" /\ state[a] # "none"
  /\ pc' = [pc EXCEPT ![c] = "action"]
  /\ on' = [on EXCEPT ![c] = a]
  /\ UNCHANGED <<data, cards, locks, editing, events>>

Free(lock, c) == [x \in DOMAIN lock |-> IF lock[x] = c THEN Nobody ELSE lock[x]]

(* The end of the transaction.                                             *)
Release(c) ==
  /\ actionLock' = Free(actionLock, c)
  /\ recordLock' = Free(recordLock, c)
  /\ rowLock' = Free(rowLock, c)
  /\ pc' = [pc EXCEPT ![c] = "idle"]
  /\ on' = [on EXCEPT ![c] = Nothing]

Goto(c, place) == pc' = [pc EXCEPT ![c] = place] /\ UNCHANGED on

(* A slip for LockAction: the pending action is read without FOR UPDATE.   *)
LockActionReading(c) ==
  LET a == on[c]
  IN /\ pc[c] = "action"
     /\ state[a] = "open" /\ allowed[a] /\ a \notin expired
     /\ Goto(c, "target")
     /\ UNCHANGED <<data, cards, locks, editing, events>>

(* The pending action is locked, then refused if purged, used or expired.  *)
LockAction(c) ==
  LET a == on[c]
  IN /\ pc[c] = "action" /\ actionLock[a] = Nobody
     /\ state[a] = "open" /\ allowed[a] /\ a \notin expired
     /\ actionLock' = [actionLock EXCEPT ![a] = c]
     /\ Goto(c, "target")
     /\ UNCHANGED <<data, cards, recordLock, rowLock, editing, events>>

RefuseAction(c) ==
  LET a == on[c]
  IN /\ pc[c] = "action" /\ actionLock[a] = Nobody
     /\ ~(state[a] = "open" /\ allowed[a] /\ a \notin expired)
     /\ Release(c)
     /\ UNCHANGED <<data, cards, editing, events>>

(* A slip for LockTarget: the record is read without FOR UPDATE.           *)
LockTargetReading(c) ==
  /\ pc[c] = "target"
  /\ content[Target[on[c]]] # Gone
  /\ Goto(c, "rights")
  /\ UNCHANGED <<data, cards, locks, editing, events>>

LockTarget(c) ==
  LET r == Target[on[c]]
  IN /\ pc[c] = "target" /\ recordLock[r] = Nobody
     /\ content[r] # Gone
     /\ recordLock' = [recordLock EXCEPT ![r] = c]
     /\ Goto(c, "rights")
     /\ UNCHANGED <<data, cards, actionLock, rowLock, editing, events>>

RefuseTarget(c) ==
  LET r == Target[on[c]]
  IN /\ pc[c] = "target" /\ recordLock[r] = Nobody
     /\ content[r] = Gone
     /\ Release(c)
     /\ UNCHANGED <<data, cards, editing, events>>

(* The rows of the right that c has yet to lock, and the next of them.     *)
Missing(c) == {i \in DOMAIN RestsOn[on[c]] : rowLock[RestsOn[on[c]][i]] # c}
NextRow(c) == RestsOn[on[c]][CHOOSE i \in Missing(c) : \A j \in Missing(c) : i <= j]

(* A sale's customer or a record's employee, the user, the record's store, *)
(* the roles of the user's memberships (lock_authorization), and the       *)
(* company of the conversation.                                            *)
LockRights(c) ==
  /\ pc[c] = "rights" /\ Missing(c) # {}
  /\ rowLock[NextRow(c)] = Nobody
  /\ rowLock' = [rowLock EXCEPT ![NextRow(c)] = c]
  /\ UNCHANGED <<data, cards, actionLock, recordLock, pc, on, editing, events>>

(* A slip for Unchanged: the fingerprint is not compared.                  *)
UnchangedAnyhow(a) == Permitted(a) /\ a \notin expired

(* The checks made again under the locks.                                  *)
Unchanged(a) ==
  /\ Permitted(a)
  /\ a \notin expired
  /\ content[Target[a]] = shown[a]

Check(c) ==
  /\ pc[c] = "rights" /\ Missing(c) = {}
  /\ IF Unchanged(on[c])
     THEN Goto(c, "write") /\ UNCHANGED locks
     ELSE Release(c)
  /\ UNCHANGED <<data, cards, editing, events>>

(* A slip for Write: the native view is asked over another connection,     *)
(* which waits for the record this one holds.                              *)
WriteApart(c) ==
  LET a == on[c]
  IN /\ pc[c] = "write" /\ recordLock[Target[a]] = Nobody
     /\ content' = [content EXCEPT ![Target[a]] = Result[a]]
     /\ state' = [state EXCEPT ![a] = "used"]
     /\ audits' = [audits EXCEPT ![a] = @ + 1]
     /\ applied' = [applied EXCEPT ![a] = @ + 1]
     /\ Release(c)
     /\ UNCHANGED <<dependents, allowed, expired, shown, editing, events>>

(* The native view changes the record; consumed_at and the audit row are   *)
(* written with it; COMMIT.                                                *)
Write(c) ==
  LET a == on[c]
  IN /\ pc[c] = "write"
     /\ content' = [content EXCEPT ![Target[a]] = Result[a]]
     /\ state' = [state EXCEPT ![a] = "used"]
     /\ audits' = [audits EXCEPT ![a] = @ + 1]
     /\ applied' = [applied EXCEPT ![a] = @ + 1]
     /\ Release(c)
     /\ UNCHANGED <<dependents, allowed, expired, shown, editing, events>>

(* The native view refuses, a statement or a lock takes more than five     *)
(* seconds, or the worker dies: ROLLBACK.                                  *)
Abort(c) ==
  /\ pc[c] # "idle"
  /\ Release(c)
  /\ UNCHANGED <<data, cards, editing, events>>

(* Who holds the row that c asks for.                                      *)
Holder(c) ==
  CASE pc[c] = "action" -> actionLock[on[c]]
    [] pc[c] = "target" -> recordLock[Target[on[c]]]
    [] pc[c] = "rights" /\ Missing(c) # {} -> rowLock[NextRow(c)]
    [] OTHER -> Nobody

(* PostgreSQL rolls back one of the confirmations that wait for each other *)
(* in a circle.                                                            *)
Deadlocked(c) ==
  \E S \in SUBSET Confirmers : c \in S /\ S = {Holder(d) : d \in S}

DeadlockAbort(c) == Deadlocked(c) /\ Abort(c)

-----------------------------------------------------------------------------
(* The rest of the application.                                            *)
Event == events < MaxEvents /\ events' = events + 1

(* A view reads a record to edit it ...                                    *)
Read(e, r) ==
  /\ editing[e] = Nothing /\ content[r] # Gone
  /\ Event
  /\ editing' = [editing EXCEPT ![e] = r]
  /\ UNCHANGED <<data, cards, locks, pc, on>>

(* ... and saves it, waiting for a lock on the row.  save() inserts a row  *)
(* that was deleted meanwhile.                                             *)
Save(e, v) ==
  LET r == editing[e]
  IN /\ r # Nothing /\ recordLock[r] = Nobody
     /\ content' = [content EXCEPT ![r] = v]
     /\ editing' = [editing EXCEPT ![e] = Nothing]
     /\ UNCHANGED <<dependents, allowed, cards, locks, pc, on, events>>

(* The native deletion takes what refers to the record with it.            *)
Delete(r) ==
  /\ Event
  /\ content[r] # Gone /\ recordLock[r] = Nobody
  /\ content' = [content EXCEPT ![r] = Gone]
  /\ dependents' = [dependents EXCEPT ![r] = 0]
  /\ UNCHANGED <<allowed, cards, locks, pc, on, editing>>

(* A row that refers to a parent: a sale to its customer.  The foreign key *)
(* waits for a lock FOR UPDATE of the parent.                              *)
Refer(r) ==
  /\ Event
  /\ content[r] # Gone /\ recordLock[r] = Nobody
  /\ dependents' = [dependents EXCEPT ![r] = @ + 1]
  /\ UNCHANGED <<content, allowed, cards, locks, pc, on, editing>>

(* A role, a membership, a store, a flag of the user or the customer of a  *)
(* sale changes: some of the rights that rest on the row.                  *)
ChangeRights(row) ==
  /\ Event
  /\ rowLock[row] = Nobody
  /\ \E a \in Actions :
       /\ row \in {RestsOn[a][i] : i \in DOMAIN RestsOn[a]}
       /\ allowed' = [allowed EXCEPT ![a] = ~@]
  /\ UNCHANGED <<content, dependents, cards, locks, pc, on, editing>>

(* Five minutes go by.                                                     *)
Expire(a) ==
  /\ state[a] \in {"open", "used"} /\ a \notin expired
  /\ expired' = expired \cup {a}
  /\ UNCHANGED <<data, state, shown, audits, applied, locks, pc, on, editing, events>>

(* purge_ai_history deletes expired actions and keeps the audit rows of    *)
(* changes.                                                                *)
Purge(a) ==
  /\ a \in expired /\ state[a] # "gone" /\ actionLock[a] = Nobody
  /\ state' = [state EXCEPT ![a] = "gone"]
  /\ UNCHANGED <<data, expired, shown, audits, applied, locks, pc, on, editing, events>>

-----------------------------------------------------------------------------
Step(c) ==
  \/ LockAction(c) \/ RefuseAction(c)
  \/ LockTarget(c) \/ RefuseTarget(c)
  \/ LockRights(c) \/ Check(c) \/ Write(c)

Surroundings ==
  \/ \E e \in Editors : \/ \E r \in Records : Read(e, r)
                        \/ \E v \in Contents : Save(e, v)
  \/ \E r \in Records : Delete(r)
  \/ \E r \in Parents : Refer(r)
  \/ \E row \in Rows : ChangeRights(row)
  \/ \E a \in Actions : Expire(a) \/ Purge(a)

Next ==
  \/ \E a \in Actions : Prepare(a)
  \/ \E c \in Confirmers : \/ \E a \in Actions : Begin(c, a)
                           \/ Step(c) \/ Abort(c) \/ DeadlockAbort(c)
  \/ Surroundings

Spec == Init /\ [][Next]_vars

(* A request that was received goes on, PostgreSQL grants a row lock in    *)
(* the order it was asked for, and its deadlock detector runs.             *)
FairSpec ==
  /\ Spec
  /\ \A c \in Confirmers : SF_vars(Step(c)) /\ WF_vars(DeadlockAbort(c))
-----------------------------------------------------------------------------
TypeOK ==
  /\ content \in [Records -> Contents \cup {Gone}]
  /\ dependents \in [Records -> Nat]
  /\ allowed \in [Actions -> BOOLEAN]
  /\ state \in [Actions -> {"none", "open", "used", "gone"}]
  /\ expired \subseteq Actions
  /\ shown \in [Actions -> Contents \cup {Gone}]
  /\ audits \in [Actions -> Nat] /\ applied \in [Actions -> Nat]
  /\ actionLock \in [Actions -> Confirmers \cup {Nobody}]
  /\ recordLock \in [Records -> Confirmers \cup {Nobody}]
  /\ rowLock \in [Rows -> Confirmers \cup {Nobody}]
  /\ pc \in [Confirmers -> Places]
  /\ on \in [Confirmers -> Actions \cup {Nothing}]
  /\ \A c \in Confirmers : pc[c] # "idle" => on[c] \in Actions
  /\ editing \in [Editors -> Records \cup {Nothing}]
  /\ events \in Nat

(* However often a card is confirmed, by double clicks or retries served   *)
(* at once, its change reaches the record at most once                     *)
(* (test_double_confirmation_executes_once).                               *)
AppliedAtMostOnce == \A a \in Actions : applied[a] <= 1

(* What the client of a confirmed change is told afterwards is that it was *)
(* done, even after the action is purged, and it is told so of no other    *)
(* (replay_confirmation, purge_ai_history).                                *)
DoneIsRemembered == \A a \in Actions : applied[a] > 0 <=> Status(a) = "done"

Applying(a) == applied'[a] # applied[a]

(* A change is applied to the record the card showed: nobody edited or     *)
(* deleted it between the card and the change (fingerprint).               *)
AppliedToWhatWasShown ==
  [][\A a \in Actions : Applying(a) => content[Target[a]] = shown[a]]_vars

(* The user still has the rights at the moment the change is applied.      *)
AppliedWithRights == [][\A a \in Actions : Applying(a) => allowed[a]]_vars

(* A confirmed deletion takes no dependent row with it, though sales and   *)
(* stock rows are added at any time (ensure_delete_scope, "this adapter    *)
(* never hides them").                                                     *)
NothingHiddenIsDeleted == [][\A a \in Actions : Applying(a) => InScope(a)]_vars

(* Every confirmation ends, though two can wait for each other: one locks  *)
(* the store of its record, then the role of its user; the other, of a     *)
(* record of another store, the role they have in common, then that store, *)
(* its company (lock_authorization takes the company last).                *)
EveryConfirmationEnds == \A c \in Confirmers : pc[c] # "idle" ~> pc[c] = "idle"
=============================================================================
