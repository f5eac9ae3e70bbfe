------------------------------ MODULE ChatProofs ------------------------------
(***************************************************************************)
(* Proofs about the chat assistant.  ChatActions, for any number of        *)
(* records, actions and requests: a confirmed change is applied at most    *)
(* once, to what its card showed, by a user who may, and hides no          *)
(* dependent row.  ChatTurns, for any number of slots, asks and texts: the *)
(* lease has the owner it should, and the conversation shows what clients  *)
(* were told.                                                              *)
(***************************************************************************)
EXTENDS ChatActions, ChatTurns, TLAPS

-----------------------------------------------------------------------------
(* ChatActions                                                             *)

(* What a confirmation has locked, by where it is.                         *)
HoldsItsLocks ==
  \A c \in Confirmers :
    /\ pc[c] \in {"target", "rights", "write"} => actionLock[on[c]] = c
    /\ pc[c] \in {"rights", "write"} => recordLock[Target[on[c]]] = c
    /\ pc[c] = "write" => Missing(c) = {}

(* An action that is being confirmed is open: whoever uses or purges it    *)
(* holds its row.                                                          *)
LockedIsOpen ==
  \A c \in Confirmers :
    pc[c] \in {"target", "rights", "write"} => state[on[c]] = "open"

(* What Check found still holds when the change is written: nobody can     *)
(* touch the record, its dependents or the rights while they are locked.   *)
CheckedStillHolds ==
  \A c \in Confirmers :
    pc[c] = "write" =>
      /\ content[Target[on[c]]] = shown[on[c]]
      /\ allowed[on[c]]
      /\ InScope(on[c])

(* How often an action was applied, by its state.                          *)
CountedByState ==
  \A a \in Actions :
    /\ state[a] \in {"none", "open"} => applied[a] = 0
    /\ state[a] = "used" => applied[a] = 1
    /\ applied[a] \in {0, 1}
    /\ audits[a] = applied[a]

IInv == TypeOK /\ HoldsItsLocks /\ LockedIsOpen /\ CheckedStillHolds /\ CountedByState

-----------------------------------------------------------------------------
(* The types hold at first.                                                *)
LEMMA InitType == Init => TypeOK
<1> SUFFICES ASSUME Init PROVE TypeOK
  OBVIOUS
<1>. USE ActionsAssumption DEF Init, ActionsAssumption
<1>1. content \in [Records -> Contents \cup {Gone}] /\ dependents \in [Records -> Nat]
  OBVIOUS
<1>2. allowed \in [Actions -> BOOLEAN] /\ expired \subseteq Actions /\ events \in Nat
  OBVIOUS
<1>3. /\ state \in [Actions -> {"none", "open", "used", "gone"}]
      /\ shown \in [Actions -> Contents \cup {Gone}]
      /\ audits \in [Actions -> Nat] /\ applied \in [Actions -> Nat]
  OBVIOUS
<1>4. /\ actionLock \in [Actions -> Confirmers \cup {Nobody}]
      /\ recordLock \in [Records -> Confirmers \cup {Nobody}]
      /\ rowLock \in [Rows -> Confirmers \cup {Nobody}]
  OBVIOUS
<1>5. /\ pc \in [Confirmers -> Places]
      /\ on \in [Confirmers -> Actions \cup {Nothing}]
      /\ \A c \in Confirmers : pc[c] # "idle" => on[c] \in Actions
      /\ editing \in [Editors -> Records \cup {Nothing}]
  BY DEF Places
<1>. QED
  BY <1>1, <1>2, <1>3, <1>4, <1>5 DEF TypeOK

(* Locks given back keep their type.                                       *)
LEMMA FreeType ==
  ASSUME NEW S, NEW lock \in [S -> Confirmers \cup {Nobody}], NEW c \in Confirmers
  PROVE  /\ Free(lock, c) \in [S -> Confirmers \cup {Nobody}]
         /\ \A x \in S : Free(lock, c)[x] = IF lock[x] = c THEN Nobody ELSE lock[x]
BY DEF Free

(* The end of a transaction keeps the types of the locks and of the        *)
(* requests, and leaves the other requests where they are.                 *)
LEMMA ReleaseType ==
  ASSUME TypeOK, NEW c \in Confirmers, Release(c)
  PROVE  /\ actionLock' \in [Actions -> Confirmers \cup {Nobody}]
         /\ recordLock' \in [Records -> Confirmers \cup {Nobody}]
         /\ rowLock' \in [Rows -> Confirmers \cup {Nobody}]
         /\ pc' \in [Confirmers -> Places]
         /\ on' \in [Confirmers -> Actions \cup {Nothing}]
         /\ \A d \in Confirmers : pc'[d] # "idle" => on'[d] \in Actions
<1>. USE DEF TypeOK, Release
<1>1. /\ actionLock' \in [Actions -> Confirmers \cup {Nobody}]
      /\ recordLock' \in [Records -> Confirmers \cup {Nobody}]
  BY FreeType
<1>2. rowLock' \in [Rows -> Confirmers \cup {Nobody}]
  BY FreeType
<1>3. pc' \in [Confirmers -> Places] /\ on' \in [Confirmers -> Actions \cup {Nothing}]
  BY DEF Places
<1>4. \A d \in Confirmers : pc'[d] # "idle" => on'[d] \in Actions
  OBVIOUS
<1>. QED
  BY <1>1, <1>2, <1>3, <1>4

(* Every step keeps the types.                                             *)
LEMMA NextType == TypeOK /\ [Next]_vars => TypeOK'
<1> SUFFICES ASSUME TypeOK, [Next]_vars PROVE TypeOK'
  OBVIOUS
<1>. USE ActionsAssumption DEF ActionsAssumption, data, cards, locks
<1>1. ASSUME NEW a \in Actions, Prepare(a) PROVE TypeOK'
  BY <1>1 DEF Prepare, TypeOK
<1>2. ASSUME NEW c \in Confirmers, NEW a \in Actions, Begin(c, a) PROVE TypeOK'
  BY <1>2 DEF Begin, TypeOK, Places
<1>3. ASSUME NEW c \in Confirmers, LockAction(c) \/ LockTarget(c) \/ LockRights(c)
      PROVE  TypeOK'
  <2>1. CASE LockAction(c)
    BY <2>1 DEF LockAction, Goto, TypeOK, Places
  <2>2. CASE LockTarget(c)
    BY <2>2 DEF LockTarget, Goto, TypeOK, Places
  <2>3. CASE LockRights(c)
    BY <2>3 DEF LockRights, TypeOK
  <2>. QED
    BY <1>3, <2>1, <2>2, <2>3
<1>4. ASSUME NEW c \in Confirmers, RefuseAction(c) \/ RefuseTarget(c) \/ Abort(c) \/ DeadlockAbort(c)
      PROVE  TypeOK'
  BY <1>4, ReleaseType DEF RefuseAction, RefuseTarget, Abort, DeadlockAbort, TypeOK
<1>5. ASSUME NEW c \in Confirmers, Check(c) PROVE TypeOK'
  <2>1. CASE Unchanged(on[c])
    BY <1>5, <2>1 DEF Check, Goto, TypeOK, Places
  <2>2. CASE ~Unchanged(on[c])
    BY <1>5, <2>2, ReleaseType DEF Check, TypeOK
  <2>. QED
    BY <2>1, <2>2
<1>6. ASSUME NEW c \in Confirmers, Write(c) PROVE TypeOK'
  <2>1. on[c] \in Actions
    BY <1>6 DEF Write, TypeOK
  <2>2. /\ content' \in [Records -> Contents \cup {Gone}]
        /\ state' \in [Actions -> {"none", "open", "used", "gone"}]
        /\ audits' \in [Actions -> Nat] /\ applied' \in [Actions -> Nat]
    BY <1>6, <2>1 DEF Write, TypeOK
  <2>. QED
    BY <1>6, <2>2, ReleaseType DEF Write, TypeOK
<1>7. ASSUME NEW e \in Editors, NEW r \in Records, Read(e, r) PROVE TypeOK'
  BY <1>7 DEF Read, Event, TypeOK
<1>8. ASSUME NEW e \in Editors, NEW v \in Contents, Save(e, v) PROVE TypeOK'
  BY <1>8 DEF Save, TypeOK
<1>9. ASSUME NEW r \in Records, Delete(r) \/ Refer(r) PROVE TypeOK'
  <2>1. CASE Delete(r)
    BY <2>1 DEF Delete, Event, TypeOK
  <2>2. CASE Refer(r)
    BY <2>2 DEF Refer, Event, TypeOK
  <2>. QED
    BY <1>9, <2>1, <2>2
<1>10. ASSUME NEW row \in Rows, ChangeRights(row) PROVE TypeOK'
  BY <1>10 DEF ChangeRights, Event, TypeOK
<1>11. ASSUME NEW a \in Actions, Expire(a) \/ Purge(a) PROVE TypeOK'
  <2>1. CASE Expire(a)
    BY <2>1 DEF Expire, TypeOK
  <2>2. CASE Purge(a)
    BY <2>2 DEF Purge, TypeOK
  <2>. QED
    BY <1>11, <2>1, <2>2
<1>12. CASE UNCHANGED vars
  BY <1>12 DEF vars, TypeOK
<1>. QED
  BY <1>1, <1>2, <1>3, <1>4, <1>5, <1>6, <1>7, <1>8, <1>9, <1>10, <1>11, <1>12
  DEF Next, Step, Surroundings

(* Every variable of the cards, the locks and the records keeps its type.  *)
THEOREM CardsTypeCorrect == Spec => []TypeOK
BY InitType, NextType, PTL DEF Spec

-----------------------------------------------------------------------------
(* The locks.  A request that ends gives back only its own.                *)
LEMMA ReleaseKeepsLocks ==
  ASSUME TypeOK, HoldsItsLocks, NEW c \in Confirmers, Release(c)
  PROVE  /\ HoldsItsLocks'
         /\ pc'[c] = "idle"
         /\ \A d \in Confirmers \ {c} : pc'[d] = pc[d] /\ on'[d] = on[d]
<1>. USE ActionsAssumption DEF ActionsAssumption
<1>1. /\ pc'[c] = "idle"
      /\ \A d \in Confirmers \ {c} : pc'[d] = pc[d] /\ on'[d] = on[d]
  BY DEF Release, TypeOK
<1>2. ASSUME NEW d \in Confirmers, d # c, pc[d] # "idle"
      PROVE  /\ actionLock[on[d]] = d => actionLock'[on[d]] = d
             /\ recordLock[Target[on[d]]] = d => recordLock'[Target[on[d]]] = d
             /\ \A i \in DOMAIN RestsOn[on[d]] :
                  rowLock[RestsOn[on[d]][i]] = d => rowLock'[RestsOn[on[d]][i]] = d
  <2>1. on[d] \in Actions /\ Target[on[d]] \in Records
    BY <1>2 DEF TypeOK
  <2>2. actionLock[on[d]] = d => actionLock'[on[d]] = d
    BY <1>2, <2>1 DEF Release, Free, TypeOK
  <2>3. recordLock[Target[on[d]]] = d => recordLock'[Target[on[d]]] = d
    BY <1>2, <2>1 DEF Release, Free, TypeOK
  <2>4. \A i \in DOMAIN RestsOn[on[d]] :
          rowLock[RestsOn[on[d]][i]] = d => rowLock'[RestsOn[on[d]][i]] = d
    BY <1>2, <2>1 DEF Release, Free, TypeOK
  <2>. QED
    BY <2>2, <2>3, <2>4
<1>3. ASSUME NEW d \in Confirmers, d # c, pc[d] = "write", Missing(d) = {}
      PROVE  Missing(d)' = {}
  <2>1. pc[d] # "idle" /\ on'[d] = on[d]
    BY <1>1, <1>3
  <2>2. \A i \in DOMAIN RestsOn[on[d]] : rowLock[RestsOn[on[d]][i]] = d
    BY <1>3 DEF Missing
  <2>3. \A i \in DOMAIN RestsOn[on[d]] : rowLock'[RestsOn[on[d]][i]] = d
    BY <1>2, <1>3, <2>1, <2>2
  <2>. QED
    BY <2>1, <2>3 DEF Missing
<1>4. ASSUME NEW d \in Confirmers, pc'[d] # "idle"
      PROVE  d # c /\ pc'[d] = pc[d] /\ on'[d] = on[d] /\ pc[d] # "idle"
  BY <1>1, <1>4
<1>. QED
  BY <1>1, <1>2, <1>3, <1>4 DEF HoldsItsLocks

(* A request keeps its locks until it ends, and takes none that is held.   *)
LEMMA NextLocks == TypeOK /\ HoldsItsLocks /\ [Next]_vars => HoldsItsLocks'
<1> SUFFICES ASSUME TypeOK, HoldsItsLocks, [Next]_vars PROVE HoldsItsLocks'
  OBVIOUS
<1>. USE ActionsAssumption DEF ActionsAssumption
<1>1. ASSUME UNCHANGED <<locks, pc, on>> PROVE HoldsItsLocks'
  BY <1>1 DEF HoldsItsLocks, Missing, locks
<1>2. ASSUME NEW c \in Confirmers, NEW a \in Actions, Begin(c, a) PROVE HoldsItsLocks'
  BY <1>2 DEF Begin, HoldsItsLocks, Missing, TypeOK, locks
<1>3. ASSUME NEW c \in Confirmers, LockAction(c) PROVE HoldsItsLocks'
  BY <1>3 DEF LockAction, Goto, HoldsItsLocks, Missing, TypeOK
<1>4. ASSUME NEW c \in Confirmers, LockTarget(c) PROVE HoldsItsLocks'
  BY <1>4 DEF LockTarget, Goto, HoldsItsLocks, Missing, TypeOK
<1>5. ASSUME NEW c \in Confirmers, LockRights(c) PROVE HoldsItsLocks'
  <2>1. /\ UNCHANGED <<actionLock, recordLock, pc, on>>
        /\ \A row \in Rows : rowLock[row] # Nobody => rowLock'[row] = rowLock[row]
    BY <1>5 DEF LockRights, TypeOK
  <2>2. ASSUME NEW d \in Confirmers, pc[d] = "write" PROVE Missing(d)' = {}
    <3>1. on[d] \in Actions /\ Missing(d) = {} /\ d # Nobody
      BY <2>2 DEF TypeOK, HoldsItsLocks
    <3>2. ASSUME NEW i \in DOMAIN RestsOn[on[d]]
          PROVE  RestsOn[on[d]][i] \in Rows /\ rowLock[RestsOn[on[d]][i]] = d
      <4>1. RestsOn[on[d]] \in Seq(Rows)
        BY <3>1
      <4>2. RestsOn[on[d]][i] \in Rows
        BY <4>1
      <4>. QED
        BY <3>1, <4>2 DEF Missing
    <3>3. \A i \in DOMAIN RestsOn[on[d]] : rowLock'[RestsOn[on[d]][i]] = d
      BY <2>1, <3>1, <3>2
    <3>. QED
      BY <2>1, <3>3 DEF Missing
  <2>. QED
    BY <2>1, <2>2 DEF HoldsItsLocks
<1>6. ASSUME NEW c \in Confirmers, Release(c) PROVE HoldsItsLocks'
  BY <1>6, ReleaseKeepsLocks
<1>7. ASSUME NEW c \in Confirmers, Check(c) PROVE HoldsItsLocks'
  <2>1. CASE Unchanged(on[c])
    BY <1>7, <2>1 DEF Check, Goto, HoldsItsLocks, Missing, TypeOK, locks
  <2>2. CASE ~Unchanged(on[c])
    BY <1>6, <1>7, <2>2 DEF Check
  <2>. QED
    BY <2>1, <2>2
<1>8. ASSUME NEW c \in Confirmers,
             RefuseAction(c) \/ RefuseTarget(c) \/ Write(c) \/ Abort(c) \/ DeadlockAbort(c)
      PROVE  HoldsItsLocks'
  BY <1>6, <1>8 DEF RefuseAction, RefuseTarget, Write, Abort, DeadlockAbort
<1>9. ASSUME Surroundings PROVE HoldsItsLocks'
  BY <1>1, <1>9
  DEF Surroundings, Read, Save, Delete, Refer, ChangeRights, Expire, Purge, locks
<1>10. ASSUME NEW a \in Actions, Prepare(a) PROVE HoldsItsLocks'
  BY <1>1, <1>10 DEF Prepare
<1>11. CASE UNCHANGED vars
  BY <1>1, <1>11 DEF vars
<1>. QED
  BY <1>2, <1>3, <1>4, <1>5, <1>7, <1>8, <1>9, <1>10, <1>11 DEF Next, Step

-----------------------------------------------------------------------------
(* The actions.  Only the confirmation that holds an action uses it.       *)
LEMMA NextOpen ==
  TypeOK /\ HoldsItsLocks /\ LockedIsOpen /\ [Next]_vars => LockedIsOpen'
<1> SUFFICES ASSUME TypeOK, HoldsItsLocks, LockedIsOpen, [Next]_vars PROVE LockedIsOpen'
  OBVIOUS
<1>. USE ActionsAssumption DEF ActionsAssumption
<1>1. ASSUME NEW c \in Confirmers, UNCHANGED state,
             \A d \in Confirmers \ {c} : pc'[d] = pc[d] /\ on'[d] = on[d],
             pc'[c] \in {"target", "rights", "write"} =>
               on'[c] = on[c] /\ state[on[c]] = "open"
      PROVE  LockedIsOpen'
  BY <1>1 DEF LockedIsOpen
<1>2. ASSUME NEW c \in Confirmers, NEW a \in Actions, Begin(c, a) PROVE LockedIsOpen'
  BY <1>1, <1>2 DEF Begin, TypeOK, cards
<1>3. ASSUME NEW c \in Confirmers, LockAction(c) \/ LockTarget(c) \/ LockRights(c)
      PROVE  LockedIsOpen'
  BY <1>1, <1>3 DEF LockAction, LockTarget, LockRights, Goto, TypeOK, LockedIsOpen, cards
<1>4. ASSUME NEW c \in Confirmers, RefuseAction(c) \/ RefuseTarget(c) \/ Abort(c) \/ DeadlockAbort(c)
      PROVE  LockedIsOpen'
  <2>1. Release(c) /\ UNCHANGED state
    BY <1>4 DEF RefuseAction, RefuseTarget, Abort, DeadlockAbort, cards
  <2>. QED
    BY <1>1, <2>1, ReleaseKeepsLocks
<1>5. ASSUME NEW c \in Confirmers, Check(c) PROVE LockedIsOpen'
  <2>1. CASE Unchanged(on[c])
    BY <1>1, <1>5, <2>1 DEF Check, Goto, TypeOK, LockedIsOpen, cards
  <2>2. CASE ~Unchanged(on[c])
    BY <1>1, <1>5, <2>2, ReleaseKeepsLocks DEF Check, cards
  <2>. QED
    BY <2>1, <2>2
<1>6. ASSUME NEW c \in Confirmers, Write(c) PROVE LockedIsOpen'
  <2>1. on[c] \in Actions /\ actionLock[on[c]] = c
    BY <1>6 DEF Write, TypeOK, HoldsItsLocks
  <2>2. \A b \in Actions \ {on[c]} : state'[b] = state[b]
    BY <1>6, <2>1 DEF Write, TypeOK
  <2>3. /\ pc'[c] = "idle"
        /\ \A d \in Confirmers \ {c} : pc'[d] = pc[d] /\ on'[d] = on[d]
    BY <1>6, ReleaseKeepsLocks DEF Write
  <2>4. ASSUME NEW d \in Confirmers, pc'[d] \in {"target", "rights", "write"}
        PROVE  state'[on'[d]] = "open"
    <3>1. d # c /\ pc[d] = pc'[d] /\ on'[d] = on[d]
      BY <2>3, <2>4
    <3>2. on[d] \in Actions /\ actionLock[on[d]] = d /\ state[on[d]] = "open"
      BY <2>4, <3>1 DEF TypeOK, HoldsItsLocks, LockedIsOpen
    <3>. QED
      BY <2>1, <2>2, <3>1, <3>2
  <2>. QED
    BY <2>4 DEF LockedIsOpen
<1>7. ASSUME NEW a \in Actions, Prepare(a) PROVE LockedIsOpen'
  BY <1>7 DEF Prepare, TypeOK, LockedIsOpen
<1>8. ASSUME NEW a \in Actions, Purge(a) PROVE LockedIsOpen'
  <2>1. \A b \in Actions \ {a} : state'[b] = state[b]
    BY <1>8 DEF Purge, TypeOK
  <2>2. ASSUME NEW d \in Confirmers, pc[d] \in {"target", "rights", "write"}
        PROVE  state'[on[d]] = "open"
    BY <1>8, <2>1, <2>2 DEF Purge, TypeOK, HoldsItsLocks, LockedIsOpen
  <2>. QED
    BY <1>8, <2>2 DEF Purge, LockedIsOpen
<1>9. ASSUME UNCHANGED <<state, pc, on>> PROVE LockedIsOpen'
  BY <1>9 DEF LockedIsOpen
<1>10. ASSUME NEW e \in Editors, NEW r \in Records, Read(e, r) PROVE LockedIsOpen'
  BY <1>9, <1>10 DEF Read, cards
<1>11. ASSUME NEW e \in Editors, NEW v \in Contents, Save(e, v) PROVE LockedIsOpen'
  BY <1>9, <1>11 DEF Save, cards
<1>12. ASSUME NEW r \in Records, Delete(r) \/ Refer(r) PROVE LockedIsOpen'
  BY <1>9, <1>12 DEF Delete, Refer, cards
<1>13. ASSUME NEW row \in Rows, ChangeRights(row) PROVE LockedIsOpen'
  BY <1>9, <1>13 DEF ChangeRights, cards
<1>14. ASSUME NEW a \in Actions, Expire(a) PROVE LockedIsOpen'
  BY <1>9, <1>14 DEF Expire
<1>15. CASE UNCHANGED vars
  BY <1>9, <1>15 DEF vars, cards
<1>. QED
  BY <1>2, <1>3, <1>4, <1>5, <1>6, <1>7, <1>8, <1>10, <1>11, <1>12, <1>13, <1>14, <1>15
  DEF Next, Step, Surroundings

(* An action goes from open to used when it is applied, and never back.    *)
LEMMA NextCounted ==
  TypeOK /\ LockedIsOpen /\ CountedByState /\ [Next]_vars => CountedByState'
<1> SUFFICES ASSUME TypeOK, LockedIsOpen, CountedByState, [Next]_vars PROVE CountedByState'
  OBVIOUS
<1>. USE ActionsAssumption DEF ActionsAssumption
<1>1. ASSUME UNCHANGED <<state, audits, applied>> PROVE CountedByState'
  BY <1>1 DEF CountedByState
<1>2. ASSUME NEW a \in Actions, Prepare(a) PROVE CountedByState'
  BY <1>2 DEF Prepare, TypeOK, CountedByState
<1>3. ASSUME NEW c \in Confirmers, Write(c) PROVE CountedByState'
  <2>1. on[c] \in Actions /\ state[on[c]] = "open"
    BY <1>3 DEF Write, TypeOK, LockedIsOpen
  <2>2. applied[on[c]] = 0 /\ audits[on[c]] = 0
    BY <2>1 DEF CountedByState
  <2>3. /\ state' = [state EXCEPT ![on[c]] = "used"]
        /\ audits' = [audits EXCEPT ![on[c]] = 1]
        /\ applied' = [applied EXCEPT ![on[c]] = 1]
    BY <1>3, <2>1, <2>2 DEF Write, TypeOK
  <2>. QED
    BY <2>1, <2>3 DEF TypeOK, CountedByState
<1>4. ASSUME NEW a \in Actions, Purge(a) PROVE CountedByState'
  BY <1>4 DEF Purge, TypeOK, CountedByState
<1>5. ASSUME NEW c \in Confirmers, Step(c) \/ Abort(c) \/ DeadlockAbort(c), ~Write(c) PROVE CountedByState'
  BY <1>1, <1>5
  DEF Step, LockAction, RefuseAction, LockTarget, RefuseTarget, LockRights, Check, Abort,
      DeadlockAbort,
      cards
<1>6. ASSUME NEW c \in Confirmers, NEW a \in Actions, Begin(c, a) PROVE CountedByState'
  BY <1>1, <1>6 DEF Begin, cards
<1>7. ASSUME NEW e \in Editors, NEW r \in Records, Read(e, r) PROVE CountedByState'
  BY <1>1, <1>7 DEF Read, cards
<1>8. ASSUME NEW e \in Editors, NEW v \in Contents, Save(e, v) PROVE CountedByState'
  BY <1>1, <1>8 DEF Save, cards
<1>9. ASSUME NEW r \in Records, Delete(r) \/ Refer(r) PROVE CountedByState'
  BY <1>1, <1>9 DEF Delete, Refer, cards
<1>10. ASSUME NEW row \in Rows, ChangeRights(row) PROVE CountedByState'
  BY <1>1, <1>10 DEF ChangeRights, cards
<1>11. ASSUME NEW a \in Actions, Expire(a) PROVE CountedByState'
  BY <1>1, <1>11 DEF Expire
<1>12. CASE UNCHANGED vars
  BY <1>1, <1>12 DEF vars, cards
<1>. QED
  BY <1>2, <1>3, <1>4, <1>5, <1>6, <1>7, <1>8, <1>9, <1>10, <1>11, <1>12
  DEF Next, Surroundings

-----------------------------------------------------------------------------
(* What was checked.  No step touches a record, its dependents or the      *)
(* rights while a confirmation that has checked them holds the locks.      *)
LEMMA NextChecked ==
  TypeOK /\ HoldsItsLocks /\ LockedIsOpen /\ CheckedStillHolds /\ [Next]_vars
    => CheckedStillHolds'
<1> SUFFICES ASSUME TypeOK, HoldsItsLocks, LockedIsOpen, CheckedStillHolds, [Next]_vars,
                    NEW d \in Confirmers, pc'[d] = "write"
             PROVE  /\ content'[Target[on'[d]]] = shown'[on'[d]]
                    /\ allowed'[on'[d]]
                    /\ InScope(on[d])'
  BY DEF CheckedStillHolds
<1>. USE ActionsAssumption DEF ActionsAssumption
<1>1. ASSUME pc[d] = "write", on'[d] = on[d],
             content'[Target[on[d]]] = content[Target[on[d]]],
             dependents'[Target[on[d]]] = dependents[Target[on[d]]],
             shown'[on[d]] = shown[on[d]], allowed'[on[d]] = allowed[on[d]]
      PROVE  /\ content'[Target[on'[d]]] = shown'[on'[d]]
             /\ allowed'[on'[d]]
             /\ InScope(on[d])'
  <2>1. content[Target[on[d]]] = shown[on[d]] /\ allowed[on[d]] /\ InScope(on[d])
    BY <1>1, Zenon DEF CheckedStillHolds
  <2>2. content'[Target[on'[d]]] = shown'[on'[d]]
    BY <1>1, <2>1
  <2>3. allowed'[on'[d]]
    BY <1>1, <2>1, Zenon
  <2>4. InScope(on[d])'
    BY <1>1, <2>1 DEF InScope
  <2>. QED
    BY <2>2, <2>3, <2>4
<1>2. ASSUME UNCHANGED <<data, shown, pc, on>>
      PROVE  /\ content'[Target[on'[d]]] = shown'[on'[d]]
             /\ allowed'[on'[d]]
             /\ InScope(on[d])'
  BY <1>1, <1>2 DEF data
<1>3. ASSUME pc[d] = "write"
      PROVE  /\ on[d] \in Actions /\ Target[on[d]] \in Records
             /\ recordLock[Target[on[d]]] = d /\ Missing(d) = {}
             /\ state[on[d]] = "open"
             /\ d # Nobody
  BY <1>3 DEF TypeOK, HoldsItsLocks, LockedIsOpen
<1>4. ASSUME NEW a \in Actions, Prepare(a)
      PROVE  /\ content'[Target[on'[d]]] = shown'[on'[d]]
             /\ allowed'[on'[d]]
             /\ InScope(on[d])'
  <2>1. pc[d] = "write" /\ on'[d] = on[d] /\ UNCHANGED data
    BY <1>4 DEF Prepare
  <2>2. on[d] # a /\ shown'[on[d]] = shown[on[d]]
    BY <1>3, <1>4, <2>1 DEF Prepare, TypeOK
  <2>. QED
    BY <1>1, <2>1, <2>2 DEF data
<1>5. ASSUME NEW c \in Confirmers, NEW a \in Actions, Begin(c, a)
      PROVE  /\ content'[Target[on'[d]]] = shown'[on'[d]]
             /\ allowed'[on'[d]]
             /\ InScope(on[d])'
  <2>1. d # c /\ pc[d] = "write" /\ on'[d] = on[d]
    BY <1>5 DEF Begin, TypeOK
  <2>. QED
    BY <1>1, <1>5, <2>1 DEF Begin, data, cards
<1>6. ASSUME NEW c \in Confirmers, LockAction(c) \/ LockTarget(c) \/ LockRights(c)
      PROVE  /\ content'[Target[on'[d]]] = shown'[on'[d]]
             /\ allowed'[on'[d]]
             /\ InScope(on[d])'
  <2>1. d # c /\ pc[d] = "write" /\ on'[d] = on[d]
    BY <1>6 DEF LockAction, LockTarget, LockRights, Goto, TypeOK
  <2>. QED
    BY <1>1, <1>6, <2>1 DEF LockAction, LockTarget, LockRights, data, cards
<1>7. ASSUME NEW c \in Confirmers, RefuseAction(c) \/ RefuseTarget(c) \/ Abort(c) \/ DeadlockAbort(c)
      PROVE  /\ content'[Target[on'[d]]] = shown'[on'[d]]
             /\ allowed'[on'[d]]
             /\ InScope(on[d])'
  <2>1. Release(c) /\ UNCHANGED <<data, cards>>
    BY <1>7 DEF RefuseAction, RefuseTarget, Abort, DeadlockAbort
  <2>2. d # c /\ pc[d] = "write" /\ on'[d] = on[d]
    BY <2>1, ReleaseKeepsLocks
  <2>. QED
    BY <1>1, <2>1, <2>2 DEF data, cards
<1>8. ASSUME NEW c \in Confirmers, Check(c)
      PROVE  /\ content'[Target[on'[d]]] = shown'[on'[d]]
             /\ allowed'[on'[d]]
             /\ InScope(on[d])'
  <2>1. CASE d = c
    <3>1. Unchanged(on[c])
      BY <1>8, <2>1, ReleaseKeepsLocks DEF Check
    <3>2. UNCHANGED <<data, cards, on>>
      BY <1>8, <3>1 DEF Check, Goto
    <3>3. content[Target[on[d]]] = shown[on[d]] /\ allowed[on[d]] /\ InScope(on[d])
      BY <2>1, <3>1, Zenon DEF Unchanged, Permitted
    <3>4. content'[Target[on'[d]]] = shown'[on'[d]]
      BY <3>2, <3>3 DEF data, cards
    <3>5. allowed'[on'[d]]
      BY <3>2, <3>3, Zenon DEF data
    <3>6. InScope(on[d])'
      BY <3>2, <3>3 DEF InScope, data
    <3>. QED
      BY <3>4, <3>5, <3>6
  <2>2. CASE d # c
    <3>1. pc[d] = "write" /\ on'[d] = on[d]
      BY <1>8, <2>2, ReleaseKeepsLocks DEF Check, Goto, TypeOK
    <3>. QED
      BY <1>1, <1>8, <3>1 DEF Check, data, cards
  <2>. QED
    BY <2>1, <2>2
<1>9. ASSUME NEW c \in Confirmers, Write(c)
      PROVE  /\ content'[Target[on'[d]]] = shown'[on'[d]]
             /\ allowed'[on'[d]]
             /\ InScope(on[d])'
  <2>1. d # c /\ pc[d] = "write" /\ on'[d] = on[d]
    BY <1>9, ReleaseKeepsLocks DEF Write
  <2>2. recordLock[Target[on[c]]] = c /\ on[c] \in Actions
    BY <1>9 DEF Write, HoldsItsLocks, TypeOK
  <2>3. content'[Target[on[d]]] = content[Target[on[d]]]
    BY <1>3, <1>9, <2>1, <2>2 DEF Write, TypeOK
  <2>. QED
    BY <1>1, <1>9, <2>1, <2>3 DEF Write
<1>10. ASSUME NEW e \in Editors, NEW v \in Contents, Save(e, v)
      PROVE  /\ content'[Target[on'[d]]] = shown'[on'[d]]
             /\ allowed'[on'[d]]
             /\ InScope(on[d])'
  <2>1. pc[d] = "write" /\ on'[d] = on[d]
    BY <1>10 DEF Save
  <2>2. content'[Target[on[d]]] = content[Target[on[d]]]
    BY <1>3, <1>10, <2>1 DEF Save, TypeOK
  <2>. QED
    BY <1>1, <1>10, <2>1, <2>2 DEF Save, cards
<1>11. ASSUME NEW r \in Records, Delete(r) \/ Refer(r)
      PROVE  /\ content'[Target[on'[d]]] = shown'[on'[d]]
             /\ allowed'[on'[d]]
             /\ InScope(on[d])'
  <2>1. pc[d] = "write" /\ on'[d] = on[d]
    BY <1>11 DEF Delete, Refer
  <2>2. Target[on[d]] # r
    BY <1>3, <1>11, <2>1 DEF Delete, Refer
  <2>3. /\ content'[Target[on[d]]] = content[Target[on[d]]]
        /\ dependents'[Target[on[d]]] = dependents[Target[on[d]]]
    BY <1>3, <1>11, <2>1, <2>2 DEF Delete, Refer, TypeOK
  <2>. QED
    BY <1>1, <1>11, <2>1, <2>3 DEF Delete, Refer, cards
<1>12. ASSUME NEW row \in Rows, ChangeRights(row)
      PROVE  /\ content'[Target[on'[d]]] = shown'[on'[d]]
             /\ allowed'[on'[d]]
             /\ InScope(on[d])'
  <2>1. pc[d] = "write" /\ on'[d] = on[d] /\ rowLock[row] = Nobody
    BY <1>12 DEF ChangeRights
  <2>2. row \notin {RestsOn[on[d]][i] : i \in DOMAIN RestsOn[on[d]]}
    BY <1>3, <2>1 DEF Missing
  <2>3. allowed'[on[d]] = allowed[on[d]]
    BY <1>12, <2>2 DEF ChangeRights, TypeOK
  <2>. QED
    BY <1>1, <1>12, <2>1, <2>3 DEF ChangeRights, cards
<1>13. ASSUME NEW e \in Editors, NEW r \in Records, Read(e, r)
      PROVE  UNCHANGED <<data, shown, pc, on>>
  BY <1>13 DEF Read, cards
<1>14. ASSUME NEW a \in Actions, Expire(a) \/ Purge(a)
      PROVE  UNCHANGED <<data, shown, pc, on>>
  BY <1>14 DEF Expire, Purge
<1>15. CASE UNCHANGED vars
  BY <1>2, <1>15 DEF vars, cards
<1>. QED
  BY <1>2, <1>4, <1>5, <1>6, <1>7, <1>8, <1>9, <1>10, <1>11, <1>12, <1>13, <1>14, <1>15
  DEF Next, Step, Surroundings

-----------------------------------------------------------------------------
(* The inductive invariant.                                                *)
LEMMA Inductive == Spec => []IInv
<1>1. Init => HoldsItsLocks /\ LockedIsOpen /\ CheckedStillHolds /\ CountedByState
  BY DEF Init, HoldsItsLocks, LockedIsOpen, CheckedStillHolds, CountedByState
<1>. QED
  BY <1>1, InitType, NextType, NextLocks, NextOpen, NextChecked, NextCounted, PTL
  DEF Spec, IInv

(* Only Write applies an action, the one its confirmation has checked.     *)
LEMMA AppliesChecked ==
  ASSUME IInv, [Next]_vars, NEW a \in Actions, Applying(a)
  PROVE  content[Target[a]] = shown[a] /\ allowed[a] /\ InScope(a)
<1>1. PICK c \in Confirmers : Write(c)
  <2>1. applied' # applied
    BY DEF Applying
  <2>. QED
    BY <2>1
    DEF Next, Step, Surroundings, Prepare, Begin, LockAction, RefuseAction, LockTarget,
        RefuseTarget, LockRights, Check, Abort, DeadlockAbort, Read, Save, Delete, Refer, ChangeRights,
        Expire, Purge, vars, cards
<1>2. a = on[c]
  BY <1>1 DEF Write, Applying, IInv, TypeOK
<1>. QED
  BY <1>1, <1>2 DEF Write, IInv, CheckedStillHolds

(* However often a card is confirmed, by double clicks or retries served   *)
(* at once, its change reaches the record at most once: a used action is   *)
(* refused, and using it needs the lock on its row.                        *)
THEOREM AppliedOnce == Spec => []AppliedAtMostOnce
<1>1. IInv => AppliedAtMostOnce
  BY DEF IInv, CountedByState, AppliedAtMostOnce
<1>. QED
  BY <1>1, Inductive, PTL

(* Replaying the conversation tells of a change that it was done exactly   *)
(* when it was, purged or not.                                             *)
THEOREM DoneRemembered == Spec => []DoneIsRemembered
<1>1. IInv => DoneIsRemembered
  BY DEF IInv, TypeOK, CountedByState, DoneIsRemembered, Status
<1>. QED
  BY <1>1, Inductive, PTL

(* A change is applied to the record the card showed.                      *)
THEOREM AppliedAsShown == Spec => AppliedToWhatWasShown
<1>1. IInv /\ [Next]_vars =>
        [\A a \in Actions : Applying(a) => content[Target[a]] = shown[a]]_vars
  BY AppliesChecked
<1>. QED
  BY <1>1, Inductive, PTL DEF Spec, AppliedToWhatWasShown

(* The user has the rights at the moment the change is applied.            *)
THEOREM AppliedByRight == Spec => AppliedWithRights
<1>1. IInv /\ [Next]_vars => [\A a \in Actions : Applying(a) => allowed[a]]_vars
  BY AppliesChecked
<1>. QED
  BY <1>1, Inductive, PTL DEF Spec, AppliedWithRights

(* A confirmed deletion takes no dependent row with it.                    *)
THEOREM DeletionHidesNothing == Spec => NothingHiddenIsDeleted
<1>1. IInv /\ [Next]_vars => [\A a \in Actions : Applying(a) => InScope(a)]_vars
  BY AppliesChecked
<1>. QED
  BY <1>1, Inductive, PTL DEF Spec, NothingHiddenIsDeleted
-----------------------------------------------------------------------------
(* ChatTurns                                                               *)

(* The lease belongs to a turn that works, and an expired one to a turn    *)
(* that has outlasted it.                                                  *)
OwnerWorks == owner \in Slots => at[owner].op \in Working
DueIsLate == due /\ owner \in Slots => owner \in late

LeaseInv == TurnsTypeOK /\ WorkersOwnTheLease /\ OwnerWorks /\ DueIsLate

(* A turn that has saved its answer finds it until the conversation goes.  *)
SavedIsThere ==
  \A t \in Slots : At(t, "saved") /\ there => answer[at[t].ask] # None

TurnsInv == LeaseInv /\ AnswersTheQuestion /\ SavedIsThere /\ ToldIsSaved

TurnOrIdle == {Idle} \cup Turn({"checked"} \cup Working)

-----------------------------------------------------------------------------
(* A turn that is not idle has an ask and a text.                          *)
LEMMA TurnHasAsk ==
  ASSUME TurnsTypeOK, NEW t \in Slots, at[t].op # "idle"
  PROVE  at[t] \in Turn({"checked"} \cup Working) /\ at[t].ask \in Asks /\ at[t].text \in Text
<1>1. at[t] \in TurnOrIdle
  BY DEF TurnsTypeOK, TurnOrIdle
<1>2. at[t] # Idle
  BY DEF Idle
<1>. QED
  BY <1>1, <1>2 DEF TurnOrIdle, Turn

(* A turn that goes on keeps its ask and its text, and leaves the others   *)
(* where they are.                                                         *)
LEMMA GotoKeepsAsk ==
  ASSUME TurnsTypeOK, NEW t \in Slots, at[t].op # "idle", NEW op \in Working, Reach(t, op)
  PROVE  /\ at' \in [Slots -> TurnOrIdle]
         /\ at'[t].op = op /\ at'[t].ask = at[t].ask /\ at'[t].text = at[t].text
         /\ \A u \in Slots \ {t} : at'[u] = at[u]
<1>1. at \in [Slots -> TurnOrIdle] /\ at[t] \in Turn({"checked"} \cup Working)
  BY TurnHasAsk DEF TurnsTypeOK, TurnOrIdle
<1>2. [at[t] EXCEPT !.op = op] \in Turn({"checked"} \cup Working)
  BY <1>1 DEF Turn
<1>3. at' = [at EXCEPT ![t] = [at[t] EXCEPT !.op = op]]
  BY <1>1 DEF Reach
<1>4. at'[t] = [at[t] EXCEPT !.op = op]
  BY <1>1, <1>3
<1>5. at'[t].op = op /\ at'[t].ask = at[t].ask /\ at'[t].text = at[t].text
  BY <1>1, <1>4 DEF Turn
<1>6. \A u \in Slots \ {t} : at'[u] = at[u]
  BY <1>1, <1>3
<1>. QED
  BY <1>1, <1>2, <1>3, <1>5, <1>6 DEF TurnOrIdle

(* A turn that ends is idle, and leaves the others where they are.         *)
LEMMA EndsIdle ==
  ASSUME TurnsTypeOK, NEW t \in Slots, at' = [at EXCEPT ![t] = Idle]
  PROVE  /\ at' \in [Slots -> TurnOrIdle]
         /\ at'[t] = Idle
         /\ \A u \in Slots \ {t} : at'[u] = at[u]
BY DEF TurnsTypeOK, TurnOrIdle

(* A turn that gives the lease back keeps the invariant of the lease.      *)
LEMMA EndKeepsLease ==
  ASSUME LeaseInv, NEW t \in Slots, End(t),
         /\ question' \in [Asks -> Text \cup {None}]
         /\ answer' \in [Asks -> Slots \cup {None}]
         /\ UNCHANGED <<open, there, messages>>
         /\ told' \in [Asks -> {"nothing", "answer", "limit", "gone"}]
         /\ troubles' \in Nat
  PROVE  LeaseInv'
<1>. USE TurnsAssumption DEF TurnsAssumption, LeaseInv
<1>1. /\ at' \in [Slots -> TurnOrIdle]
      /\ at'[t] = Idle
      /\ \A u \in Slots \ {t} : at'[u] = at[u]
  BY EndsIdle DEF End
<1>2. /\ owner' = IF owner = t THEN NoOwner ELSE owner
      /\ due' = (due /\ owner # t)
      /\ late' = late \ {t}
  BY DEF End, GiveBack
<1>3. due' \in BOOLEAN
  BY <1>2 DEF TurnsTypeOK
<1>4. late' \subseteq {u \in Slots : at'[u].op \in Working}
  BY <1>1, <1>2 DEF TurnsTypeOK
<1>5. TurnsTypeOK'
  <2>1. owner' \in Slots \cup {NoOwner, Dead}
    BY <1>2 DEF TurnsTypeOK
  <2>2. open' \in BOOLEAN /\ there' \in BOOLEAN /\ selections' \in Nat
    BY DEF TurnsTypeOK, messages
  <2>3. ~there' => ~open' /\ selections' = 0
                   /\ \A q \in Asks : question'[q] = None /\ answer'[q] = None
    BY DEF TurnsTypeOK, messages
  <2>. QED
    BY <1>1, <1>3, <1>4, <2>1, <2>2, <2>3 DEF TurnsTypeOK, TurnOrIdle
<1>6. WorkersOwnTheLease'
  BY <1>1, <1>2 DEF WorkersOwnTheLease, Idle, Working
<1>7. OwnerWorks'
  BY <1>1, <1>2 DEF OwnerWorks
<1>8. DueIsLate'
  <2> SUFFICES ASSUME due', owner' \in Slots PROVE owner' \in late'
    BY DEF DueIsLate
  <2>1. due /\ owner # t
    BY <1>2
  <2>2. owner' = owner
    BY <1>2, <2>1
  <2>. QED
    BY <1>2, <2>1, <2>2 DEF DueIsLate
<1>. QED
  BY <1>5, <1>6, <1>7, <1>8

(* A turn that goes on without touching the lease keeps its invariant.     *)
LEMMA GotoKeepsLease ==
  ASSUME LeaseInv, NEW t \in Slots, at[t].op \in Working, NEW op \in Working,
         Reach(t, op), UNCHANGED <<lease, open, there, selections, told, troubles>>,
         there \/ UNCHANGED <<question, answer>>,
         question' \in [Asks -> Text \cup {None}],
         answer' \in [Asks -> Slots \cup {None}]
  PROVE  LeaseInv'
<1>. USE DEF LeaseInv, lease
<1>1. /\ at' \in [Slots -> TurnOrIdle]
      /\ at'[t].op = op
      /\ \A u \in Slots \ {t} : at'[u] = at[u]
  BY GotoKeepsAsk DEF Working
<1>2. TurnsTypeOK'
  <2>1. late' \subseteq {u \in Slots : at'[u].op \in Working}
    BY <1>1 DEF TurnsTypeOK
  <2>2. ~there' => ~open' /\ selections' = 0
                   /\ \A q \in Asks : question'[q] = None /\ answer'[q] = None
    BY DEF TurnsTypeOK
  <2>. QED
    BY <1>1, <2>1, <2>2 DEF TurnsTypeOK, TurnOrIdle
<1>3. WorkersOwnTheLease'
  BY <1>1 DEF WorkersOwnTheLease
<1>4. OwnerWorks'
  BY <1>1 DEF OwnerWorks
<1>5. DueIsLate'
  BY DEF DueIsLate
<1>. QED
  BY <1>2, <1>3, <1>4, <1>5

-----------------------------------------------------------------------------
(* The conversation and the clients start empty.                           *)
LEMMA InitInv == TurnsInit => TurnsInv
<1> SUFFICES ASSUME TurnsInit PROVE TurnsInv
  OBVIOUS
<1>. USE TurnsAssumption DEF TurnsInit, TurnsAssumption
<1>1. TurnsTypeOK
  BY DEF TurnsTypeOK
<1>2. WorkersOwnTheLease /\ OwnerWorks /\ DueIsLate
  BY DEF WorkersOwnTheLease, OwnerWorks, DueIsLate, Working, Idle
<1>3. AnswersTheQuestion /\ SavedIsThere /\ ToldIsSaved
  BY DEF AnswersTheQuestion, SavedIsThere, ToldIsSaved, Idle, At
<1>. QED
  BY <1>1, <1>2, <1>3 DEF TurnsInv, LeaseInv

(* Every step keeps the types and the invariant of the lease.              *)
LEMMA NextLease == LeaseInv /\ [TurnsNext]_turnsVars => LeaseInv'
<1> SUFFICES ASSUME LeaseInv, [TurnsNext]_turnsVars PROVE LeaseInv'
  OBVIOUS
<1>. USE TurnsAssumption DEF TurnsAssumption, LeaseInv
<1>1. ASSUME NEW t \in Slots, NEW q \in Asks, NEW x \in Texts[q], Receive(t, q, x)
      PROVE  LeaseInv'
  <2>. USE <1>1 DEF Receive, lease, messages
  <2>1. [op |-> "checked", ask |-> q, text |-> x] \in Turn({"checked"} \cup Working)
    BY DEF Turn, Text
  <2>5. at \in [Slots -> TurnOrIdle]
    BY DEF TurnsTypeOK, TurnOrIdle
  <2>6. at' \in [Slots -> TurnOrIdle] /\ \A u \in Slots \ {t} : at'[u] = at[u]
    BY <2>1, <2>5 DEF TurnOrIdle
  <2>7. at'[t].op = "checked" /\ at[t].op = "idle"
    BY <2>5 DEF Idle
  <2>2. /\ at' \in [Slots -> TurnOrIdle]
        /\ at'[t].op = "checked" /\ at[t].op = "idle"
        /\ \A u \in Slots \ {t} : at'[u] = at[u]
    BY <2>6, <2>7
  <2>3. late' \subseteq {u \in Slots : at'[u].op \in Working}
    BY <2>2 DEF TurnsTypeOK, Working
  <2>4. TurnsTypeOK'
    BY <2>2, <2>3 DEF TurnsTypeOK, TurnOrIdle
  <2>. QED
    BY <2>2, <2>4 DEF WorkersOwnTheLease, OwnerWorks, DueIsLate, Working
<1>2. ASSUME NEW t \in Slots, Busy(t) PROVE LeaseInv'
  <2>. USE <1>2 DEF Busy, At, lease, messages
  <2>1. /\ at' \in [Slots -> TurnOrIdle]
        /\ at'[t].op = "idle"
        /\ \A u \in Slots \ {t} : at'[u] = at[u]
    BY EndsIdle DEF Idle
  <2>2. late' \subseteq {u \in Slots : at'[u].op \in Working}
    BY <2>1 DEF TurnsTypeOK, Working
  <2>3. TurnsTypeOK'
    BY <2>1, <2>2 DEF TurnsTypeOK, TurnOrIdle
  <2>. QED
    BY <2>1, <2>3 DEF WorkersOwnTheLease, OwnerWorks, DueIsLate, Working
<1>3. ASSUME NEW t \in Slots, Acquire(t) PROVE LeaseInv'
  <2>. USE <1>3 DEF Acquire, At, messages
  <2>1. /\ at' \in [Slots -> TurnOrIdle]
        /\ at'[t].op = "leased"
        /\ \A u \in Slots \ {t} : at'[u] = at[u]
    BY GotoKeepsAsk DEF Working
  <2>2. late' \subseteq {u \in Slots : at'[u].op \in Working}
    BY <2>1 DEF TurnsTypeOK
  <2>3. TurnsTypeOK'
    BY <2>1, <2>2 DEF TurnsTypeOK, TurnOrIdle
  <2>4. \A u \in Slots \ {t} : at[u].op \in Working => u \in late
    BY DEF WorkersOwnTheLease, DueIsLate
  <2>5. WorkersOwnTheLease'
    BY <2>1, <2>4 DEF WorkersOwnTheLease
  <2>. QED
    BY <2>1, <2>3, <2>5 DEF OwnerWorks, DueIsLate, Working
<1>4. ASSUME NEW t \in Slots, RefuseFull(t) PROVE LeaseInv'
  <2>1. told' \in [Asks -> {"nothing", "answer", "limit", "gone"}]
    BY <1>4, TurnHasAsk DEF RefuseFull, Tell, TurnsTypeOK, At
  <2>. QED
    BY <1>4, <2>1, EndKeepsLease DEF RefuseFull, messages, TurnsTypeOK
<1>5. ASSUME NEW t \in Slots,
             RefuseText(t) \/ RefuseDelivery(t) \/ SaveTwice(t) \/ Withhold(t) \/ Fail(t)
      PROVE  LeaseInv'
  <2>1. End(t) /\ UNCHANGED <<open, there, messages, told>> /\ troubles' \in Nat
    BY <1>5 DEF RefuseText, RefuseDelivery, SaveTwice, Withhold, Fail, TurnsTypeOK
  <2>. QED
    BY <2>1, EndKeepsLease DEF messages, TurnsTypeOK
<1>6. ASSUME NEW t \in Slots, Finish(t) PROVE LeaseInv'
  <2>1. told' \in [Asks -> {"nothing", "answer", "limit", "gone"}]
    BY <1>6, TurnHasAsk DEF Finish, Tell, TurnsTypeOK, At
  <2>. QED
    BY <1>6, <2>1, EndKeepsLease DEF Finish, messages, TurnsTypeOK
<1>7. ASSUME NEW t \in Slots, Ask(t) PROVE LeaseInv'
  <2>1. question' \in [Asks -> Text \cup {None}] /\ answer' = answer
    BY <1>7, TurnHasAsk DEF Ask, TurnsTypeOK, At
  <2>. QED
    BY <1>7, <2>1, GotoKeepsLease DEF Ask, At, Working, TurnsTypeOK
<1>8. ASSUME NEW t \in Slots, Run(t) PROVE LeaseInv'
  BY <1>8, GotoKeepsLease DEF Run, At, Working, TurnsTypeOK, messages
<1>9. ASSUME NEW t \in Slots, SaveAnswer(t) PROVE LeaseInv'
  <2>1. answer' \in [Asks -> Slots \cup {None}] /\ question' = question
    BY <1>9 DEF SaveAnswer, TurnsTypeOK
  <2>. QED
    BY <1>9, <2>1, GotoKeepsLease DEF SaveAnswer, At, Working, TurnsTypeOK
<1>10. ASSUME NEW t \in Slots, Crash(t) PROVE LeaseInv'
  <2>. USE <1>10 DEF Crash, messages
  <2>1. /\ at' \in [Slots -> TurnOrIdle]
        /\ at'[t] = Idle
        /\ \A u \in Slots \ {t} : at'[u] = at[u]
    BY EndsIdle
  <2>2. late' \subseteq {u \in Slots : at'[u].op \in Working}
    BY <2>1 DEF TurnsTypeOK
  <2>6. ~there' => ~open' /\ selections' = 0
                   /\ \A q \in Asks : question'[q] = None /\ answer'[q] = None
    BY DEF TurnsTypeOK
  <2>7. owner' \in Slots \cup {NoOwner, Dead} /\ troubles' \in Nat
    BY DEF TurnsTypeOK
  <2>3. TurnsTypeOK'
    BY <2>1, <2>2, <2>6, <2>7 DEF TurnsTypeOK, TurnOrIdle
  <2>4. WorkersOwnTheLease'
    BY <2>1 DEF WorkersOwnTheLease, Idle, Working
  <2>5. OwnerWorks'
    BY <2>1 DEF OwnerWorks
  <2>. QED
    BY <2>3, <2>4, <2>5 DEF DueIsLate
<1>11. ASSUME ExpireLease PROVE LeaseInv'
  <2>. USE <1>11 DEF ExpireLease, messages
  <2>1. late' \subseteq {t \in Slots : at'[t].op \in Working}
    BY DEF TurnsTypeOK, OwnerWorks
  <2>2. ~there' => ~open' /\ selections' = 0
                   /\ \A q \in Asks : question'[q] = None /\ answer'[q] = None
    BY DEF TurnsTypeOK
  <2>3. TurnsTypeOK'
    BY <2>1, <2>2 DEF TurnsTypeOK
  <2>4. WorkersOwnTheLease' /\ OwnerWorks'
    BY DEF WorkersOwnTheLease, OwnerWorks
  <2>5. DueIsLate'
    BY DEF DueIsLate
  <2>. QED
    BY <2>3, <2>4, <2>5
<1>12. ASSUME NEW q \in Asks, NEW t \in Slots, NEW x \in Texts[q],
              Replay(t, q, x) \/ RefuseConversation(t, q)
       PROVE  LeaseInv'
  <2>2. UNCHANGED <<lease, open, there, messages, at, troubles>>
    BY <1>12 DEF Replay, RefuseConversation
  <2>3. told' \in [Asks -> {"nothing", "answer", "limit", "gone"}]
    BY <1>12 DEF Replay, RefuseConversation, Tell, TurnsTypeOK
  <2>1. TurnsTypeOK' /\ UNCHANGED <<lease, at>>
    BY <2>2, <2>3 DEF TurnsTypeOK, lease, messages
  <2>. QED
    BY <2>1 DEF lease, WorkersOwnTheLease, OwnerWorks, DueIsLate
<1>13. ASSUME Select \/ Revoke \/ DeleteConversation PROVE LeaseInv'
  <2>2. ASSUME Select \/ Revoke PROVE TurnsTypeOK' /\ UNCHANGED <<lease, at>>
    <3>1. UNCHANGED <<lease, there, question, answer, told, at, troubles>>
      BY <2>2 DEF Select, Revoke, messages
    <3>5. selections \in Nat /\ open \in BOOLEAN
      BY DEF TurnsTypeOK
    <3>6. selections' = selections \/ selections' = selections + 1
      BY <2>2 DEF Select, Revoke, messages
    <3>7. open' = open \/ open' = FALSE
      BY <2>2 DEF Select, Revoke
    <3>2. selections' \in Nat
      BY <3>5, <3>6
    <3>8. open' \in BOOLEAN
      BY <3>5, <3>7, Zenon
    <3>3. ~there' => ~open' /\ selections' = 0
      BY <2>2 DEF Select, Revoke, messages, TurnsTypeOK
    <3>4. ~there' => \A q \in Asks : question'[q] = None /\ answer'[q] = None
      BY <3>1 DEF TurnsTypeOK
    <3>. QED
      BY <3>1, <3>2, <3>3, <3>4, <3>8 DEF TurnsTypeOK, lease
  <2>3. ASSUME DeleteConversation PROVE TurnsTypeOK' /\ UNCHANGED <<lease, at>>
    <3>1. question' \in [Asks -> Text \cup {None}] /\ answer' \in [Asks -> Slots \cup {None}]
      BY <2>3 DEF DeleteConversation
    <3>2. open' = FALSE /\ there' = FALSE /\ selections' = 0
          /\ \A q \in Asks : question'[q] = None /\ answer'[q] = None
      BY <2>3 DEF DeleteConversation
    <3>3. UNCHANGED <<lease, told, at, troubles>>
      BY <2>3 DEF DeleteConversation
    <3>4. open' \in BOOLEAN /\ there' \in BOOLEAN /\ selections' \in Nat
      BY <3>2
    <3>. QED
      BY <3>1, <3>2, <3>3, <3>4 DEF TurnsTypeOK, lease
  <2>1. TurnsTypeOK' /\ UNCHANGED <<lease, at>>
    BY <1>13, <2>2, <2>3
  <2>. QED
    BY <2>1 DEF lease, WorkersOwnTheLease, OwnerWorks, DueIsLate
<1>15. ASSUME Restore PROVE LeaseInv'
  <2>1. /\ UNCHANGED <<lease, there, question, answer, selections, told, at>>
        /\ there /\ open' = TRUE /\ troubles' \in Nat
    BY <1>15 DEF Restore, messages, TurnsTypeOK
  <2>2. TurnsTypeOK'
    BY <2>1 DEF TurnsTypeOK, lease
  <2>. QED
    BY <2>1, <2>2 DEF lease, WorkersOwnTheLease, OwnerWorks, DueIsLate
<1>14. CASE UNCHANGED turnsVars
  BY <1>14 DEF turnsVars, lease, messages, TurnsTypeOK, WorkersOwnTheLease, OwnerWorks, DueIsLate
<1>. QED
  BY <1>1, <1>2, <1>3, <1>4, <1>5, <1>6, <1>7, <1>8, <1>9, <1>10, <1>11, <1>12, <1>13,
     <1>14, <1>15 DEF TurnsNext, Send, TurnStep

(* Every step keeps what the conversation and the clients are told.        *)
LEMMA NextTold == TurnsInv /\ [TurnsNext]_turnsVars => AnswersTheQuestion' /\ SavedIsThere' /\ ToldIsSaved'
<1> SUFFICES ASSUME TurnsInv, [TurnsNext]_turnsVars
             PROVE  AnswersTheQuestion' /\ SavedIsThere' /\ ToldIsSaved'
  OBVIOUS
<1>. USE DEF TurnsInv, LeaseInv, lease, messages
<1>a. ASSUME NEW t \in Slots, at' = [at EXCEPT ![t] = Idle],
             UNCHANGED <<there, question, answer>>
      PROVE  AnswersTheQuestion' /\ SavedIsThere'
  <2>1. at'[t] = Idle /\ \A u \in Slots \ {t} : at'[u] = at[u]
    BY <1>a, EndsIdle
  <2>. QED
    BY <1>a, <2>1 DEF AnswersTheQuestion, SavedIsThere, Idle, At
<1>b. ASSUME UNCHANGED <<at, question, answer, there>>
      PROVE  AnswersTheQuestion' /\ SavedIsThere'
  BY <1>b DEF AnswersTheQuestion, SavedIsThere, At
<1>c. ASSUME UNCHANGED <<told, answer, there>>
      PROVE  ToldIsSaved'
  BY <1>c DEF ToldIsSaved
<1>1. ASSUME NEW t \in Slots, NEW q \in Asks, NEW x \in Texts[q], Receive(t, q, x)
      PROVE  AnswersTheQuestion' /\ SavedIsThere' /\ ToldIsSaved'
  <2>1. at \in [Slots -> TurnOrIdle]
    BY DEF TurnsTypeOK, TurnOrIdle
  <2>2. at'[t].op = "checked" /\ \A u \in Slots \ {t} : at'[u] = at[u]
    BY <1>1, <2>1 DEF Receive
  <2>3. AnswersTheQuestion' /\ SavedIsThere'
    BY <1>1, <2>2 DEF Receive, AnswersTheQuestion, SavedIsThere, At
  <2>. QED
    BY <1>1, <1>c, <2>3 DEF Receive
<1>2. ASSUME NEW t \in Slots, Busy(t) \/ Crash(t)
      PROVE  AnswersTheQuestion' /\ SavedIsThere' /\ ToldIsSaved'
  BY <1>2, <1>a, <1>c DEF Busy, Crash
<1>3. ASSUME NEW t \in Slots, Acquire(t)
      PROVE  AnswersTheQuestion' /\ SavedIsThere' /\ ToldIsSaved'
  <2>1. at'[t].op = "leased" /\ \A u \in Slots \ {t} : at'[u] = at[u]
    BY <1>3, GotoKeepsAsk DEF Acquire, At, Working
  <2>2. AnswersTheQuestion' /\ SavedIsThere'
    BY <1>3, <2>1 DEF Acquire, AnswersTheQuestion, SavedIsThere, At
  <2>. QED
    BY <1>3, <1>c, <2>2 DEF Acquire
<1>4. ASSUME NEW t \in Slots, RefuseFull(t)
      PROVE  AnswersTheQuestion' /\ SavedIsThere' /\ ToldIsSaved'
  <2>1. ToldIsSaved'
    BY <1>4 DEF RefuseFull, Tell, ToldIsSaved, TurnsTypeOK
  <2>. QED
    BY <1>4, <1>a, <2>1 DEF RefuseFull, End
<1>5. ASSUME NEW t \in Slots,
             RefuseText(t) \/ RefuseDelivery(t) \/ SaveTwice(t) \/ Withhold(t) \/ Fail(t)
      PROVE  AnswersTheQuestion' /\ SavedIsThere' /\ ToldIsSaved'
  <2>1. End(t) /\ UNCHANGED <<there, messages, told>>
    BY <1>5 DEF RefuseText, RefuseDelivery, SaveTwice, Withhold, Fail
  <2>. QED
    BY <2>1, <1>a, <1>c DEF End
<1>6. ASSUME NEW t \in Slots, Finish(t)
      PROVE  AnswersTheQuestion' /\ SavedIsThere' /\ ToldIsSaved'
  <2>1. answer[at[t].ask] # None
    BY <1>6 DEF Finish, SavedIsThere
  <2>2. ToldIsSaved'
    BY <1>6, <2>1 DEF Finish, Tell, ToldIsSaved, TurnsTypeOK
  <2>. QED
    BY <1>6, <1>a, <2>2 DEF Finish, End
<1>7. ASSUME NEW t \in Slots, Ask(t)
      PROVE  AnswersTheQuestion' /\ SavedIsThere' /\ ToldIsSaved'
  <2>1. /\ at'[t].op = "asked" /\ at'[t].ask = at[t].ask /\ at'[t].text = at[t].text
        /\ \A u \in Slots \ {t} : at'[u] = at[u]
    BY <1>7, GotoKeepsAsk DEF Ask, At, Working
  <2>2. at[t].ask \in Asks /\ at[t].text \in Text
    BY <1>7, TurnHasAsk DEF Ask, At
  <2>3. \A q \in Asks : question'[q] = IF q = at[t].ask THEN at[t].text ELSE question[q]
    BY <1>7 DEF Ask, TurnsTypeOK
  <2>4. ASSUME NEW u \in Slots \ {t}, at[u].op \in {"asked", "ready", "saved"}
        PROVE  question'[at[u].ask] = at[u].text
    <3>1. there /\ Agrees(at[t].ask, at[t].text)
      BY <1>7 DEF Ask
    <3>2. question[at[u].ask] = at[u].text
      BY <2>4, <3>1 DEF AnswersTheQuestion
    <3>3. at[u].ask \in Asks /\ at[u].text # None
      BY <2>4, TurnHasAsk, TurnsAssumption DEF TurnsAssumption
    <3>. QED
      BY <2>3, <3>1, <3>2, <3>3 DEF Agrees
  <2>5. AnswersTheQuestion'
    BY <2>1, <2>2, <2>3, <2>4 DEF AnswersTheQuestion
  <2>6. SavedIsThere'
    BY <1>7, <2>1 DEF Ask, SavedIsThere, At
  <2>. QED
    BY <1>7, <1>c, <2>5, <2>6 DEF Ask
<1>8. ASSUME NEW t \in Slots, Run(t)
      PROVE  AnswersTheQuestion' /\ SavedIsThere' /\ ToldIsSaved'
  <2>1. /\ at'[t].op = "ready" /\ at'[t].ask = at[t].ask /\ at'[t].text = at[t].text
        /\ \A u \in Slots \ {t} : at'[u] = at[u]
    BY <1>8, GotoKeepsAsk DEF Run, At, Working
  <2>2. AnswersTheQuestion' /\ SavedIsThere'
    BY <1>8, <2>1 DEF Run, AnswersTheQuestion, SavedIsThere, At
  <2>. QED
    BY <1>8, <1>c, <2>2 DEF Run
<1>9. ASSUME NEW t \in Slots, SaveAnswer(t)
      PROVE  AnswersTheQuestion' /\ SavedIsThere' /\ ToldIsSaved'
  <2>1. /\ at'[t].op = "saved" /\ at'[t].ask = at[t].ask /\ at'[t].text = at[t].text
        /\ \A u \in Slots \ {t} : at'[u] = at[u]
    BY <1>9, GotoKeepsAsk DEF SaveAnswer, At, Working
  <2>2. at[t].ask \in Asks /\ t # None
    BY <1>9, TurnHasAsk, TurnsAssumption DEF SaveAnswer, At, TurnsAssumption
  <2>3. \A q \in Asks : answer'[q] = IF q = at[t].ask THEN t ELSE answer[q]
    BY <1>9 DEF SaveAnswer, TurnsTypeOK
  <2>4. AnswersTheQuestion'
    BY <1>9, <2>1 DEF SaveAnswer, AnswersTheQuestion, At
  <2>5. SavedIsThere'
    <3> SUFFICES ASSUME NEW u \in Slots, at'[u].op = "saved", there'
                 PROVE  answer'[at'[u].ask] # None
      BY DEF SavedIsThere, At
    <3>1. CASE u = t
      BY <2>1, <2>2, <2>3, <3>1
    <3>2. CASE u # t
      BY <1>9, <2>1, <2>2, <2>3, <3>2, TurnHasAsk DEF SaveAnswer, SavedIsThere, At
    <3>. QED
      BY <3>1, <3>2
  <2>6. ToldIsSaved'
    BY <1>9, <2>2, <2>3 DEF SaveAnswer, ToldIsSaved
  <2>. QED
    BY <2>4, <2>5, <2>6
<1>10. ASSUME NEW q \in Asks, NEW t \in Slots, NEW x \in Texts[q],
              Replay(t, q, x) \/ RefuseConversation(t, q)
       PROVE  AnswersTheQuestion' /\ SavedIsThere' /\ ToldIsSaved'
  <2>1. ToldIsSaved'
    BY <1>10 DEF Replay, RefuseConversation, Tell, ToldIsSaved, TurnsTypeOK
  <2>. QED
    BY <1>10, <1>b, <2>1 DEF Replay, RefuseConversation
<1>11. ASSUME ExpireLease \/ Select \/ Revoke \/ Restore
       PROVE  AnswersTheQuestion' /\ SavedIsThere' /\ ToldIsSaved'
  BY <1>11, <1>b, <1>c DEF ExpireLease, Select, Revoke, Restore
<1>12. ASSUME DeleteConversation
       PROVE  AnswersTheQuestion' /\ SavedIsThere' /\ ToldIsSaved'
  BY <1>12 DEF DeleteConversation, AnswersTheQuestion, SavedIsThere, ToldIsSaved
<1>13. CASE UNCHANGED turnsVars
  BY <1>13, <1>b, <1>c DEF turnsVars
<1>. QED
  BY <1>1, <1>2, <1>3, <1>4, <1>5, <1>6, <1>7, <1>8, <1>9, <1>10, <1>11, <1>12, <1>13
  DEF TurnsNext, Send, TurnStep

(* The invariant holds in every behaviour.                                 *)
LEMMA TurnsInductive == TurnsSpec => []TurnsInv
<1>1. TurnsInv /\ [TurnsNext]_turnsVars => TurnsInv'
  BY NextLease, NextTold DEF TurnsInv
<1>. QED
  BY <1>1, InitInv, PTL DEF TurnsSpec

-----------------------------------------------------------------------------
(* The lease, the messages and the turns keep their types, and a deleted   *)
(* conversation keeps no message.                                          *)
THEOREM TurnsTypeCorrect == TurnsSpec => []TurnsTypeOK
<1>1. TurnsInv => TurnsTypeOK
  BY DEF TurnsInv, LeaseInv
<1>. QED
  BY <1>1, TurnsInductive, PTL

(* One turn at a time uses the model, however many turns fail, die or      *)
(* outlast their lease.                                                    *)
THEOREM OneWorker == TurnsSpec => []WorkersOwnTheLease
<1>1. TurnsInv => WorkersOwnTheLease
  BY DEF TurnsInv, LeaseInv
<1>. QED
  BY <1>1, TurnsInductive, PTL

(* A turn works on the text that the conversation shows for its ask.       *)
THEOREM QuestionShown == TurnsSpec => []AnswersTheQuestion
<1>1. TurnsInv => AnswersTheQuestion
  BY DEF TurnsInv
<1>. QED
  BY <1>1, TurnsInductive, PTL

(* What a client was told is in the conversation.                          *)
THEOREM ToldSaved == TurnsSpec => []ToldIsSaved
<1>1. TurnsInv => ToldIsSaved
  BY DEF TurnsInv
<1>. QED
  BY <1>1, TurnsInductive, PTL

(* A saved answer stays while its conversation does.                       *)
THEOREM AnswersRemain == TurnsSpec => AnswersStay
<1>1. ASSUME TurnsInv, [TurnsNext]_turnsVars
      PROVE  [\A q \in Asks : answer[q] # None /\ there' => answer'[q] = answer[q]]_turnsVars
  <2> SUFFICES ASSUME NEW q \in Asks, answer[q] # None, there' PROVE answer'[q] = answer[q]
    OBVIOUS
  <2>1. ASSUME NEW t \in Slots, SaveAnswer(t) PROVE answer'[q] = answer[q]
    BY <1>1, <2>1 DEF SaveAnswer, TurnsInv, LeaseInv, TurnsTypeOK
  <2>2. ASSUME NEW t \in Slots, TurnStep(t) \/ Fail(t) \/ Crash(t), ~SaveAnswer(t)
        PROVE  answer'[q] = answer[q]
    BY <2>2 DEF TurnStep, Fail, Crash, Busy, Acquire, RefuseFull, Ask, RefuseText, Run,
       RefuseDelivery, SaveTwice, Finish, Withhold, messages
  <2>3. ASSUME NEW r \in Asks, NEW x \in Texts[r], Send(r, x) PROVE answer'[q] = answer[q]
    BY <2>3 DEF Send, Receive, Replay, RefuseConversation, messages
  <2>4. ASSUME ExpireLease \/ Select \/ Revoke \/ Restore \/ DeleteConversation PROVE answer'[q] = answer[q]
    BY <2>4 DEF ExpireLease, Select, Revoke, Restore, DeleteConversation, messages
  <2>5. CASE UNCHANGED turnsVars
    BY <2>5 DEF turnsVars, messages
  <2>. QED
    BY <1>1, <2>1, <2>2, <2>3, <2>4, <2>5 DEF TurnsNext
<1>. QED
  BY <1>1, TurnsInductive, PTL DEF TurnsSpec, AnswersStay
=============================================================================
