------------------------- MODULE StockServiceProofs -------------------------
(***************************************************************************)
(* Proofs about StockService, for any number of requests, stores,          *)
(* articles and documents.                                                 *)
(***************************************************************************)
EXTENDS StockService, SequenceTheorems, WellFoundedInduction, TLAPS

USE StockAssumption, NobodyAssumption

-----------------------------------------------------------------------------
(* A function on 1 .. n is a sequence.                                     *)
LEMMA SeqOfFunction ==
  ASSUME NEW S, NEW n \in Nat, NEW f \in [1 .. n -> S]
  PROVE  f \in Seq(S)
<1>1. f \in UNION {[1 .. m -> S] : m \in Nat}
  OBVIOUS
<1>. QED
  BY <1>1, SeqDef, Zenon

(* The steps of a document are calls apply_stock_movement accepts to read. *)
LEMMA StepsType == \A d \in Docs : Steps(d) \in Seq(Step)
<1> SUFFICES ASSUME NEW d \in Docs PROVE Steps(d) \in Seq(Step)
  OBVIOUS
<1> DEFINE D == Doc[d]
           n == Len(D.lines)
<1>1. /\ D \in Document
      /\ D.lines \in Seq(Line)
      /\ D.store \in Stores
      /\ D.allow_negative \in BOOLEAN
      /\ n \in Nat
      /\ GlobalStock \in Stores
  BY DEF StockAssumption, Document
<1>2. \A i \in 1 .. n :
        /\ D.lines[i].product \in Products
        /\ D.lines[i].quantity \in Int
        /\ D.lines[i].unit_cost \in Nat \cup {NoCost}
        /\ PurchasePrice[D.lines[i].product] \in Nat
  <2>. SUFFICES ASSUME NEW i \in 1 .. n
                PROVE  /\ D.lines[i].product \in Products
                       /\ D.lines[i].quantity \in Int
                       /\ D.lines[i].unit_cost \in Nat \cup {NoCost}
                       /\ PurchasePrice[D.lines[i].product] \in Nat
    OBVIOUS
  <2>1. D.lines[i] \in Line
    BY <1>1, ElementOfSeq
  <2>. QED
    BY <2>1 DEF StockAssumption, Line
<1>3. \A s \in Stores, p \in Products, a \in Int, c \in Nat \cup {NoCost} :
        /\ Move(s, p, a, c) \in Step
        /\ [Move(s, p, a, c) EXCEPT !.counted = TRUE] \in Step
        /\ \A b \in BOOLEAN : [Move(s, p, a, c) EXCEPT !.allow_negative = b] \in Step
  <2>. SUFFICES ASSUME NEW s \in Stores, NEW p \in Products, NEW a \in Int,
                       NEW c \in Nat \cup {NoCost}
                PROVE  /\ Move(s, p, a, c) \in Step
                       /\ [Move(s, p, a, c) EXCEPT !.counted = TRUE] \in Step
                       /\ \A b \in BOOLEAN :
                            [Move(s, p, a, c) EXCEPT !.allow_negative = b] \in Step
    OBVIOUS
  <2>. DEFINE M == Move(s, p, a, c)
  <2>1. <<s, p>> \in Rows
    BY DEF Rows
  <2>2. M \in Step
    BY <2>1 DEF Move, Step
  <2>3. [M EXCEPT !.counted = TRUE] \in Step
    BY <2>2 DEF Step
  <2>4. ASSUME NEW b \in BOOLEAN
        PROVE  [M EXCEPT !.allow_negative = b] \in Step
    BY <2>2 DEF Step
  <2>. QED
    BY <2>2, <2>3, <2>4
<1>4. \A k \in Int : Abs(k) \in Int /\ -Abs(k) \in Int
  BY DEF Abs
<1>5. TransferSteps(D) \in Seq(Step)
  <2>1. \A i \in 1 .. 2 * n : (i + 1) \div 2 \in 1 .. n
    BY <1>1
  <2>2. TransferSteps(D) \in [1 .. 2 * n -> Step]
    BY <1>1, <1>2, <1>3, <1>4, <2>1 DEF TransferSteps
  <2>3. 2 * n \in Nat
    BY <1>1
  <2>. QED
    BY <2>2, <2>3, SeqOfFunction
<1>6. ReceiptSteps(D) \in Seq(Step)
  <2>1. ReceiptSteps(D) \in [1 .. n -> Step]
    BY <1>1, <1>2, <1>3 DEF ReceiptSteps
  <2>. QED
    BY <1>1, <2>1, SeqOfFunction
<1>7. SaleSteps(D) \in Seq(Step)
  <2>1. SaleSteps(D) \in [1 .. n -> Step]
    BY <1>1, <1>2, <1>3, <1>4 DEF SaleSteps
  <2>. QED
    BY <1>1, <2>1, SeqOfFunction
<1>8. InventorySteps(D) \in Seq(Step)
  <2>1. InventorySteps(D) \in [1 .. n -> Step]
    BY <1>1, <1>2, <1>3 DEF InventorySteps
  <2>. QED
    BY <1>1, <2>1, SeqOfFunction
<1>9. AdjustmentSteps(D) \in Seq(Step)
  <2>1. AdjustmentSteps(D) \in [1 .. n -> Step]
    BY <1>1, <1>2, <1>3 DEF AdjustmentSteps
  <2>. QED
    BY <1>1, <2>1, SeqOfFunction
<1>. QED
  BY <1>5, <1>6, <1>7, <1>8, <1>9 DEF Steps

(* A step moves a balance row to a balance row and records a movement.     *)
LEMMA MovedType ==
  ASSUME NEW step \in Step, NEW bal \in Balance, NEW t \in Requests
  PROVE  /\ Moved(step, bal) \in Balance
         /\ MovementOf(step, bal, t) \in Movement
<1>1. Delta(step, bal.quantity) \in Int
  BY DEF Delta, Step, Balance
<1>2. step.row[2] \in Products /\ PurchasePrice[step.row[2]] \in Nat
  BY DEF Step, Rows, StockAssumption
<1>3. Moved(step, bal) \in Balance
  BY <1>1 DEF Moved, Balance, Step, NoCost
<1>4. MovementOf(step, bal, t) \in Movement
  BY <1>1, <1>2 DEF MovementOf, Movement, Balance, Step, NoCost
<1>. QED
  BY <1>3, <1>4

(* The movement recorded continues the run of movements from the quantity  *)
(* the step found to the quantity it leaves.                               *)
LEMMA MovedQuantity ==
  ASSUME NEW step \in Step, NEW bal \in Balance, NEW t \in Requests
  PROVE  /\ MovementOf(step, bal, t).balance_after =
              bal.quantity + MovementOf(step, bal, t).quantity
         /\ Moved(step, bal).quantity = MovementOf(step, bal, t).balance_after
BY DEF MovementOf, Moved

(* What Pending gives of the current step.                                 *)
LEMMA CurrentType ==
  ASSUME TypeOK, NEW t \in Requests, Pending(t)
  PROVE  /\ Current(t) \in Step
         /\ Current(t).row \in Rows
         /\ view[t][Current(t).row] \in Balance
<1>1. doc[t] \in Docs
  BY DEF TypeOK, Pending
<1>2. Steps(doc[t]) \in Seq(Step)
  BY <1>1, StepsType
<1>3. pos[t] + 1 \in 1 .. Len(Steps(doc[t]))
  BY <1>2 DEF TypeOK, Pending
<1>4. Current(t) \in Step
  BY <1>2, <1>3 DEF Current
<1>. QED
  BY <1>4 DEF TypeOK, Step

-----------------------------------------------------------------------------
(* The initial state has the types.                                         *)
LEMMA InitType == Init => TypeOK
<1>1. NoMoves \in [Rows -> Seq(Movement)]
  BY EmptySeq, Zenon DEF NoMoves
<1>. QED
  BY <1>1 DEF Init, TypeOK, StockAssumption, Places

(* Every step keeps the types.                                              *)
LEMMA NextType == TypeOK /\ [Next]_vars => TypeOK'
<1>. SUFFICES ASSUME TypeOK, [Next]_vars
              PROVE  TypeOK'
  OBVIOUS
<1>. USE DEF Places
<1>1. NoMoves \in [Rows -> Seq(Movement)]
  BY EmptySeq, Zenon DEF NoMoves
<1>2. << >> \in Seq(Rows)
  OBVIOUS
<1>3. Opening \in [Rows -> Balance]
  BY DEF StockAssumption
<1>4. ASSUME NEW t \in Requests, NEW d \in Docs, Open(t, d) \/ Refuse(t, d)
      PROVE  TypeOK'
  <2>1. CASE Open(t, d)
    BY <2>1 DEF TypeOK, Open
  <2>2. CASE Refuse(t, d)
    BY <2>2 DEF TypeOK, Refuse
  <2>. QED
    BY <1>4, <2>1, <2>2
<1>5. ASSUME NEW t \in Requests, LockRow(t)
      PROVE  TypeOK'
  <2>1. Current(t).row \in Rows
    BY <1>5, CurrentType DEF LockRow
  <2>. QED
    BY <1>5, <2>1 DEF TypeOK, LockRow
<1>6. ASSUME NEW t \in Requests, SkipStep(t)
      PROVE  TypeOK'
  BY <1>6 DEF TypeOK, SkipStep
<1>7. ASSUME NEW t \in Requests, ApplyStep(t)
      PROVE  TypeOK'
  <2>. DEFINE step == Current(t)
              r == step.row
              bal == view[t][r]
  <2>1. step \in Step /\ r \in Rows /\ bal \in Balance
    BY <1>7, CurrentType DEF ApplyStep
  <2>2. Moved(step, bal) \in Balance /\ MovementOf(step, bal, t) \in Movement
    BY <2>1, MovedType
  <2>. HIDE DEF step, bal
  <2>3. view' \in [Requests -> [Rows -> Balance]]
    BY <1>7, <2>1, <2>2 DEF TypeOK, ApplyStep, step, bal
  <2>4. log[t][r] \in Seq(Movement) /\ hooks[t] \in Seq(Rows)
    BY <2>1 DEF TypeOK
  <2>5. log' \in [Requests -> [Rows -> Seq(Movement)]]
    <3>1. Append(log[t][r], MovementOf(step, bal, t)) \in Seq(Movement)
      BY <2>2, <2>4
    <3>. QED
      BY <1>7, <2>1, <3>1 DEF TypeOK, ApplyStep, step, bal
  <2>6. hooks' \in [Requests -> Seq(Rows)]
    <3>1. Append(hooks[t], r) \in Seq(Rows)
      BY <2>1, <2>4
    <3>. QED
      BY <1>7, <3>1 DEF TypeOK, ApplyStep, step
  <2>. QED
    BY <1>7, <2>3, <2>5, <2>6 DEF TypeOK, ApplyStep
<1>8. ASSUME NEW t \in Requests, pc[t] = "open", Rollback(t)
      PROVE  TypeOK'
  BY <1>1, <1>2, <1>3, <1>8 DEF TypeOK, Rollback
<1>9. ASSUME NEW t \in Requests, Commit(t)
      PROVE  TypeOK'
  <2>1. balance' \in [Rows -> Balance]
    BY <1>9 DEF TypeOK, Commit
  <2>2. journal' \in [Rows -> Seq(Movement)]
    <3>1. \A r \in Rows : journal[r] \o log[t][r] \in Seq(Movement)
      BY ConcatProperties DEF TypeOK
    <3>. QED
      BY <1>9, <3>1 DEF Commit
  <2>3. /\ status' \in [Docs -> {"pending", "applied"}]
        /\ lock' \in [Rows -> Requests \cup {NoRequest}]
        /\ pc' \in [Requests -> {"idle", "open", "committed", "done", "failed", "broken"}]
        /\ log' \in [Requests -> [Rows -> Seq(Movement)]]
        /\ view' \in [Requests -> [Rows -> Balance]]
    BY <1>1, <1>3, <1>9 DEF TypeOK, Commit
  <2>. QED
    BY <1>9, <2>1, <2>2, <2>3 DEF TypeOK, Commit
<1>10. ASSUME NEW t \in Requests, RunHook(t)
       PROVE  TypeOK'
  <2>1. Head(hooks[t]) \in Rows /\ Tail(hooks[t]) \in Seq(Rows)
    BY <1>10, HeadTailProperties DEF TypeOK, RunHook
  <2>. QED
    BY <1>10, <2>1 DEF TypeOK, RunHook
<1>11. ASSUME NEW t \in Requests, FailHook(t)
       PROVE  TypeOK'
  <2>1. /\ hooks' \in [Requests -> Seq(Rows)]
        /\ pc' \in [Requests -> Places]
        /\ \A u \in Requests : pc'[u] # "idle" => doc[u] \in Docs
    BY <1>2, <1>11 DEF TypeOK, FailHook
  <2>. QED
    BY <1>11, <2>1 DEF TypeOK, FailHook
<1>12. ASSUME NEW t \in Requests, Answer(t)
       PROVE  TypeOK'
  BY <1>12 DEF TypeOK, Answer
<1>13. CASE UNCHANGED vars
  BY <1>13 DEF TypeOK, vars
<1>. QED
  BY <1>4, <1>5, <1>6, <1>7, <1>8, <1>9, <1>10, <1>11, <1>12, <1>13
  DEF Next, Work, RefuseStep, DeadlockAbort, Deadlocked, Waiting, Pending, Crash

(* Every variable keeps its type, whatever the requests do.                *)
THEOREM TypeCorrect == Spec => []TypeOK
BY InitType, NextType, PTL DEF Spec

-----------------------------------------------------------------------------
(* The row locks.                                                          *)
(* Every step leaves a written row to the transaction that locked it.       *)
LEMMA NextWriters == TypeOK /\ WritersHoldTheirRows /\ [Next]_vars => WritersHoldTheirRows'
<1>. SUFFICES ASSUME TypeOK, WritersHoldTheirRows, [Next]_vars,
                     NEW u \in Requests, NEW s \in Rows
              PROVE  /\ lock'[s] = u => pc'[u] = "open"
                     /\ log'[u][s] # << >> => lock'[s] = u
  BY DEF WritersHoldTheirRows
<1>0. /\ lock[s] = u => pc[u] = "open"
      /\ log[u][s] # << >> => lock[s] = u
  BY DEF WritersHoldTheirRows
<1>1. ASSUME NEW t \in Requests, NEW d \in Docs, Open(t, d) \/ Refuse(t, d)
      PROVE  /\ lock'[s] = u => pc'[u] = "open"
             /\ log'[u][s] # << >> => lock'[s] = u
  BY <1>0, <1>1 DEF TypeOK, Open, Refuse
<1>2. ASSUME NEW t \in Requests, LockRow(t)
      PROVE  /\ lock'[s] = u => pc'[u] = "open"
             /\ log'[u][s] # << >> => lock'[s] = u
  BY <1>0, <1>2, CurrentType DEF TypeOK, LockRow, Pending, NobodyAssumption
<1>3. ASSUME NEW t \in Requests, SkipStep(t)
      PROVE  /\ lock'[s] = u => pc'[u] = "open"
             /\ log'[u][s] # << >> => lock'[s] = u
  BY <1>0, <1>3 DEF SkipStep
<1>4. ASSUME NEW t \in Requests, ApplyStep(t)
      PROVE  /\ lock'[s] = u => pc'[u] = "open"
             /\ log'[u][s] # << >> => lock'[s] = u
  <2>1. lock' = lock /\ pc' = pc
    BY <1>4 DEF ApplyStep
  <2>2. lock[s] # u => log'[u][s] = log[u][s]
    BY <1>4 DEF TypeOK, ApplyStep
  <2>. QED
    BY <1>0, <2>1, <2>2
<1>5. ASSUME NEW t \in Requests, Rollback(t) \/ Commit(t)
      PROVE  /\ lock'[s] = u => pc'[u] = "open"
             /\ log'[u][s] # << >> => lock'[s] = u
  <2>1. lock'[s] = IF lock[s] = t THEN NoRequest ELSE lock[s]
    BY <1>5, SMTT(30) DEF TypeOK, Rollback, Commit
  <2>2. u # t => pc'[u] = pc[u]
    BY <1>5, SMTT(30) DEF TypeOK, Rollback, Commit
  <2>3. log' = [log EXCEPT ![t] = NoMoves]
    BY <1>5 DEF Rollback, Commit
  <2>4. u # t => log'[u] = log[u]
    BY <2>3, SMTT(30) DEF TypeOK
  <2>5. log'[t][s] = << >>
    BY <2>3, SMTT(30) DEF TypeOK, NoMoves
  <2>. QED
    BY <1>0, <2>1, <2>2, <2>4, <2>5 DEF NobodyAssumption
<1>6. ASSUME NEW t \in Requests, RunHook(t) \/ FailHook(t) \/ Answer(t)
      PROVE  /\ lock'[s] = u => pc'[u] = "open"
             /\ log'[u][s] # << >> => lock'[s] = u
  BY <1>0, <1>6 DEF TypeOK, RunHook, FailHook, Answer
<1>7. CASE UNCHANGED vars
  BY <1>0, <1>7 DEF vars
<1>. QED
  BY <1>1, <1>2, <1>3, <1>4, <1>5, <1>6, <1>7
  DEF Next, Work, RefuseStep, DeadlockAbort, Crash

(* A row has one writer, and it holds the row: get_locked_balance excludes *)
(* every other transaction until the end of its own.                       *)
THEOREM WritersExclusive == Spec => []WritersHoldTheirRows
<1>1. Init => WritersHoldTheirRows
  BY DEF Init, WritersHoldTheirRows, NoMoves, NobodyAssumption
<1>. QED
  BY <1>1, NextWriters, TypeCorrect, PTL DEF Spec

-----------------------------------------------------------------------------
(* Runs of movements.                                                      *)
(* A run of movements stays one when a movement that continues it is added. *)
LEMMA ChainAppend ==
  ASSUME NEW q \in Int, NEW moves \in Seq(Movement), NEW m \in Movement,
         Chained(q, moves), m.balance_after = EndOf(q, moves) + m.quantity
  PROVE  /\ Chained(q, Append(moves, m))
         /\ EndOf(q, Append(moves, m)) = m.balance_after
<1>. DEFINE all == Append(moves, m)
<1>1. /\ all \in Seq(Movement)
      /\ Len(all) = Len(moves) + 1
      /\ all[Len(all)] = m
      /\ \A i \in 1 .. Len(moves) : all[i] = moves[i]
      /\ Len(moves) \in Nat
      /\ moves = << >> <=> Len(moves) = 0
  OBVIOUS
<1>. HIDE DEF all
<1>2. EndOf(q, all) = m.balance_after
  BY <1>1 DEF EndOf
<1>3. ASSUME NEW i \in 1 .. Len(all)
      PROVE  all[i].balance_after =
               (IF i = 1 THEN q ELSE all[i - 1].balance_after) + all[i].quantity
  <2>1. CASE i = Len(all)
    BY <1>1, <2>1 DEF EndOf
  <2>2. CASE i # Len(all)
    <3>1. i \in 1 .. Len(moves) /\ (i # 1 => i - 1 \in 1 .. Len(moves))
      BY <1>1, <2>2
    <3>2. all[i] = moves[i] /\ (i # 1 => all[i - 1] = moves[i - 1])
      BY <1>1, <3>1
    <3>3. moves[i].balance_after =
            (IF i = 1 THEN q ELSE moves[i - 1].balance_after) + moves[i].quantity
      BY <3>1 DEF Chained
    <3>. QED
      BY <3>2, <3>3
  <2>. QED
    BY <2>1, <2>2
<1>4. Chained(q, all)
  BY <1>3 DEF Chained
<1>. QED
  BY <1>2, <1>4 DEF all

(* Two runs, the second starting where the first ends, are one run.         *)
LEMMA ChainConcat ==
  ASSUME NEW q \in Int, NEW s1 \in Seq(Movement), NEW s2 \in Seq(Movement),
         Chained(q, s1), Chained(EndOf(q, s1), s2)
  PROVE  /\ Chained(q, s1 \o s2)
         /\ EndOf(q, s1 \o s2) = EndOf(EndOf(q, s1), s2)
<1>. DEFINE all == s1 \o s2
<1>1. /\ all \in Seq(Movement)
      /\ Len(all) = Len(s1) + Len(s2)
      /\ \A i \in 1 .. Len(s1) + Len(s2) :
           all[i] = IF i <= Len(s1) THEN s1[i] ELSE s2[i - Len(s1)]
  BY ConcatProperties
<1>2. /\ Len(s1) \in Nat /\ Len(s2) \in Nat
      /\ s1 = << >> <=> Len(s1) = 0
      /\ s2 = << >> <=> Len(s2) = 0
      /\ all = << >> <=> Len(all) = 0
  OBVIOUS
<1>. HIDE DEF all
<1>3. EndOf(q, all) = EndOf(EndOf(q, s1), s2)
  BY <1>1, <1>2 DEF EndOf
<1>4. ASSUME NEW i \in 1 .. Len(all)
      PROVE  all[i].balance_after =
               (IF i = 1 THEN q ELSE all[i - 1].balance_after) + all[i].quantity
  <2>1. CASE i <= Len(s1)
    <3>1. i \in 1 .. Len(s1) /\ (i # 1 => i - 1 \in 1 .. Len(s1))
      BY <1>1, <1>2, <2>1
    <3>2. all[i] = s1[i] /\ (i # 1 => all[i - 1] = s1[i - 1])
      BY <1>1, <1>2, <3>1
    <3>3. s1[i].balance_after =
            (IF i = 1 THEN q ELSE s1[i - 1].balance_after) + s1[i].quantity
      BY <3>1 DEF Chained
    <3>. QED
      BY <3>2, <3>3
  <2>2. CASE i = Len(s1) + 1
    <3>1. /\ all[i] = s2[1]
          /\ i # 1 => all[i - 1] = s1[Len(s1)]
      BY <1>1, <1>2, <2>2
    <3>2. s2[1].balance_after = EndOf(q, s1) + s2[1].quantity
      BY <1>1, <1>2, <2>2 DEF Chained
    <3>. QED
      BY <1>2, <2>2, <3>1, <3>2 DEF EndOf
  <2>3. CASE i > Len(s1) + 1
    <3>. DEFINE j == i - Len(s1)
    <3>0. /\ i \in 1 .. Len(s1) + Len(s2) /\ ~(i <= Len(s1))
          /\ i - 1 \in 1 .. Len(s1) + Len(s2) /\ ~(i - 1 <= Len(s1))
          /\ (i - 1) - Len(s1) = j - 1
      BY <1>1, <1>2, <2>3
    <3>1. all[i] = s2[j] /\ all[i - 1] = s2[j - 1]
      BY <1>1, <3>0
    <3>2. i - Len(s1) \in 1 .. Len(s2) /\ i - Len(s1) # 1
      BY <1>1, <1>2, <2>3
    <3>. QED
      BY <1>2, <2>3, <3>1, <3>2 DEF Chained
  <2>. QED
    BY <1>1, <1>2, <2>1, <2>2, <2>3
<1>5. Chained(q, all)
  BY <1>4 DEF Chained
<1>. QED
  BY <1>3, <1>5 DEF all

-----------------------------------------------------------------------------
(* What a transaction sees of a row it holds: the committed balance, plus  *)
(* its own movements.  Nobody else can commit the row in the meantime, so  *)
(* this is still so when it commits.                                       *)
HeldRowsAreCurrent ==
  \A t \in Requests, r \in Rows :
    lock[r] = t =>
      /\ Chained(balance[r].quantity, log[t][r])
      /\ view[t][r].quantity = EndOf(balance[r].quantity, log[t][r])

BalanceInv ==
  TypeOK /\ WritersHoldTheirRows /\ HeldRowsAreCurrent /\ BalanceMatchesMovements

(* A row somebody holds keeps its committed version until that one commits. *)
LEMMA NextHeld == BalanceInv /\ [Next]_vars => HeldRowsAreCurrent'
<1>. SUFFICES ASSUME BalanceInv, [Next]_vars,
                     NEW u \in Requests, NEW s \in Rows, lock'[s] = u
              PROVE  /\ Chained(balance'[s].quantity, log'[u][s])
                     /\ view'[u][s].quantity = EndOf(balance'[s].quantity, log'[u][s])
  BY DEF HeldRowsAreCurrent
<1>. DEFINE Same == /\ balance'[s] = balance[s]
                    /\ log'[u][s] = log[u][s]
                    /\ view'[u][s] = view[u][s]
                    /\ lock[s] = u
            Goal == /\ Chained(balance'[s].quantity, log'[u][s])
                    /\ view'[u][s].quantity = EndOf(balance'[s].quantity, log'[u][s])
<1>0. Same => Goal
  BY DEF BalanceInv, HeldRowsAreCurrent
<1>1. ASSUME NEW t \in Requests, NEW d \in Docs, Open(t, d) \/ Refuse(t, d)
      PROVE  Goal
  BY <1>0, <1>1 DEF Open, Refuse
<1>2. ASSUME NEW t \in Requests, LockRow(t)
      PROVE  Goal
  <2>1. CASE s = Current(t).row
    <3>1. u = t /\ lock[s] = NoRequest
      BY <1>2, <2>1 DEF BalanceInv, TypeOK, LockRow
    <3>2. log[u][s] = << >>
      BY <3>1 DEF BalanceInv, WritersHoldTheirRows, NobodyAssumption
    <3>3. log'[u][s] = << >> /\ balance' = balance /\ view'[u][s] = balance[s]
      BY <1>2, <2>1, <3>1, <3>2 DEF BalanceInv, TypeOK, LockRow
    <3>. QED
      BY <3>3 DEF Chained, EndOf
  <2>2. CASE s # Current(t).row
    BY <1>0, <1>2, <2>2 DEF BalanceInv, TypeOK, LockRow
  <2>. QED
    BY <2>1, <2>2
<1>3. ASSUME NEW t \in Requests, SkipStep(t)
      PROVE  Goal
  BY <1>0, <1>3 DEF SkipStep
<1>4. ASSUME NEW t \in Requests, ApplyStep(t)
      PROVE  Goal
  <2>. DEFINE step == Current(t)
              bal == view[t][step.row]
              m == MovementOf(step, bal, t)
  <2>1. step \in Step /\ step.row \in Rows /\ bal \in Balance
    BY <1>4, CurrentType DEF ApplyStep, BalanceInv
  <2>2. CASE t = u /\ s = step.row
    <3>1. /\ Chained(balance[s].quantity, log[u][s])
          /\ bal.quantity = EndOf(balance[s].quantity, log[u][s])
      BY <1>4, <2>2 DEF BalanceInv, HeldRowsAreCurrent, ApplyStep
    <3>2. /\ m \in Movement
          /\ m.balance_after = bal.quantity + m.quantity
          /\ Moved(step, bal).quantity = m.balance_after
      BY <2>1, MovedType, MovedQuantity
    <3>3. balance[s].quantity \in Int /\ log[u][s] \in Seq(Movement)
      BY DEF BalanceInv, TypeOK, Balance
    <3>4. /\ log'[u][s] = Append(log[u][s], m)
          /\ view'[u][s] = Moved(step, bal)
          /\ balance' = balance
      BY <1>4, <2>1, <2>2 DEF BalanceInv, TypeOK, ApplyStep
    <3>. HIDE DEF m, bal, step
    <3>5. /\ Chained(balance[s].quantity, Append(log[u][s], m))
          /\ EndOf(balance[s].quantity, Append(log[u][s], m)) = m.balance_after
      BY <3>1, <3>2, <3>3, ChainAppend
    <3>. QED
      BY <3>2, <3>4, <3>5
  <2>3. CASE ~(t = u /\ s = step.row)
    BY <1>0, <1>4, <2>1, <2>3 DEF BalanceInv, TypeOK, ApplyStep
  <2>. QED
    BY <2>2, <2>3
<1>5. ASSUME NEW t \in Requests, Rollback(t)
      PROVE  Goal
  <2>1. lock[s] = u /\ u # t
    BY <1>5 DEF Rollback, NobodyAssumption
  <2>. QED
    BY <1>0, <1>5, <2>1 DEF BalanceInv, TypeOK, Rollback
<1>6. ASSUME NEW t \in Requests, Commit(t)
      PROVE  Goal
  <2>1. lock[s] = u /\ u # t
    BY <1>6 DEF Commit, NobodyAssumption
  <2>. QED
    BY <1>0, <1>6, <2>1 DEF BalanceInv, TypeOK, Commit
<1>7. ASSUME NEW t \in Requests, RunHook(t) \/ FailHook(t) \/ Answer(t)
      PROVE  Goal
  BY <1>0, <1>7 DEF RunHook, FailHook, Answer
<1>8. CASE UNCHANGED vars
  BY <1>0, <1>8 DEF vars
<1>. QED
  BY <1>1, <1>2, <1>3, <1>4, <1>5, <1>6, <1>7, <1>8
  DEF Next, Work, RefuseStep, DeadlockAbort, Crash

(* Every step keeps the stored balance equal to the recorded history.       *)
LEMMA NextBalance == BalanceInv /\ [Next]_vars => BalanceMatchesMovements'
<1>. SUFFICES ASSUME BalanceInv, [Next]_vars
              PROVE  BalanceMatchesMovements'
  OBVIOUS
<1>1. CASE balance' = balance /\ journal' = journal
  BY <1>1 DEF BalanceInv, BalanceMatchesMovements
<1>2. ASSUME NEW t \in Requests, Commit(t), NEW r \in Rows
      PROVE  /\ Chained(Opening[r].quantity, journal'[r])
             /\ balance'[r].quantity = EndOf(Opening[r].quantity, journal'[r])
  <2>. DEFINE q == Opening[r].quantity
  <2>1. /\ q \in Int
        /\ journal[r] \in Seq(Movement)
        /\ log[t][r] \in Seq(Movement)
    BY DEF BalanceInv, TypeOK, StockAssumption, Balance
  <2>2. /\ Chained(q, journal[r])
        /\ balance[r].quantity = EndOf(q, journal[r])
    BY DEF BalanceInv, BalanceMatchesMovements
  <2>3. journal'[r] = journal[r] \o log[t][r]
    BY <1>2 DEF Commit
  <2>4. CASE lock[r] = t
    <3>1. /\ Chained(EndOf(q, journal[r]), log[t][r])
          /\ balance'[r].quantity = EndOf(EndOf(q, journal[r]), log[t][r])
      BY <1>2, <2>2, <2>4 DEF BalanceInv, HeldRowsAreCurrent, Commit
    <3>. QED
      BY <2>1, <2>2, <2>3, <3>1, ChainConcat
  <2>5. CASE lock[r] # t
    <3>1. log[t][r] = << >>
      BY <2>5 DEF BalanceInv, WritersHoldTheirRows
    <3>2. journal'[r] = journal[r]
      BY <2>1, <2>3, <3>1, ConcatEmptySeq
    <3>3. balance'[r] = balance[r]
      BY <1>2, <2>5 DEF Commit
    <3>. QED
      BY <2>2, <3>2, <3>3
  <2>. QED
    BY <2>4, <2>5
<1>3. ASSUME NEW t \in Requests, Commit(t)
      PROVE  BalanceMatchesMovements'
  BY <1>2, <1>3 DEF BalanceMatchesMovements
<1>. QED
  BY <1>1, <1>3
  DEF Next, Work, RefuseStep, DeadlockAbort, Crash, vars, Open, Refuse, LockRow,
      SkipStep, ApplyStep, Rollback, RunHook, FailHook, Answer

(* The four invariants hold together: each needs the others to be kept.     *)
LEMMA BalanceInductive == Spec => []BalanceInv
<1>1. Init => BalanceInv
  <2>1. Init => WritersHoldTheirRows /\ HeldRowsAreCurrent
    BY DEF Init, WritersHoldTheirRows, HeldRowsAreCurrent, NoMoves, NobodyAssumption
  <2>2. Init => BalanceMatchesMovements
    BY DEF Init, BalanceMatchesMovements, NoMoves, Chained, EndOf
  <2>. QED
    BY <2>1, <2>2, InitType DEF BalanceInv
<1>2. BalanceInv /\ [Next]_vars => BalanceInv'
  <2>1. BalanceInv /\ [Next]_vars => TypeOK' /\ WritersHoldTheirRows'
    BY NextType, NextWriters DEF BalanceInv
  <2>. QED
    BY <2>1, NextHeld, NextBalance DEF BalanceInv
<1>. QED
  BY <1>1, <1>2, PTL DEF Spec

(* No update of a balance is ever lost: at every instant the stored        *)
(* quantity is the opening one plus the recorded movements, and each       *)
(* balance_after is right.                                                 *)
THEOREM BalancesExact == Spec => []BalanceMatchesMovements
BY BalanceInductive, PTL DEF BalanceInv

-----------------------------------------------------------------------------
(* Overdrafts.                                                             *)
Allowed(moves) ==
  \A i \in 1 .. Len(moves) : moves[i].balance_after < 0 => moves[i].allow_negative

(* Two runs whose overdrafts are all allowed make one such run.             *)
LEMMA AllowedConcat ==
  ASSUME NEW s1 \in Seq(Movement), NEW s2 \in Seq(Movement),
         Allowed(s1), Allowed(s2)
  PROVE  Allowed(s1 \o s2)
<1>. DEFINE all == s1 \o s2
<1>1. /\ Len(all) = Len(s1) + Len(s2)
      /\ \A i \in 1 .. Len(s1) + Len(s2) :
           all[i] = IF i <= Len(s1) THEN s1[i] ELSE s2[i - Len(s1)]
  BY ConcatProperties
<1>2. Len(s1) \in Nat /\ Len(s2) \in Nat
  OBVIOUS
<1>. HIDE DEF all
<1>3. ASSUME NEW i \in 1 .. Len(all), all[i].balance_after < 0
      PROVE  all[i].allow_negative
  <2>1. CASE i <= Len(s1)
    BY <1>1, <1>2, <1>3, <2>1 DEF Allowed
  <2>2. CASE ~(i <= Len(s1))
    <3>1. i - Len(s1) \in 1 .. Len(s2) /\ all[i] = s2[i - Len(s1)]
      BY <1>1, <1>2, <2>2
    <3>. QED
      BY <1>3, <3>1 DEF Allowed
  <2>. QED
    BY <2>1, <2>2
<1>. QED
  BY <1>3 DEF Allowed, all

(* Also the movements that are not committed yet were allowed.             *)
PrivateOverdraftsAllowed == \A t \in Requests, r \in Rows : Allowed(log[t][r])

OverdraftInv == NoUnauthorisedOverdraft /\ PrivateOverdraftsAllowed

(* Every step keeps overdrafts allowed, committed or still private.         *)
LEMMA NextOverdraft == TypeOK /\ OverdraftInv /\ [Next]_vars => OverdraftInv'
<1>. SUFFICES ASSUME TypeOK, OverdraftInv, [Next]_vars
              PROVE  OverdraftInv'
  OBVIOUS
<1>1. CASE UNCHANGED <<journal, log>>
  BY <1>1 DEF OverdraftInv, NoUnauthorisedOverdraft, PrivateOverdraftsAllowed, Allowed
<1>2. ASSUME NEW t \in Requests, ApplyStep(t)
      PROVE  OverdraftInv'
  <2>. DEFINE step == Current(t)
              bal == view[t][step.row]
              m == MovementOf(step, bal, t)
  <2>1. step \in Step /\ step.row \in Rows /\ bal \in Balance
    BY <1>2, CurrentType DEF ApplyStep
  <2>2. m.balance_after < 0 => m.allow_negative
    BY <1>2 DEF ApplyStep, Accepted, MovementOf
  <2>3. ASSUME NEW u \in Requests, NEW r \in Rows
        PROVE  log'[u][r] = IF u = t /\ r = step.row
                            THEN Append(log[t][r], m) ELSE log[u][r]
    BY <1>2, <2>1, <2>3 DEF TypeOK, ApplyStep
  <2>4. m \in Movement
    BY <2>1, MovedType
  <2>. HIDE DEF m, step, bal
  <2>5. ASSUME NEW u \in Requests, NEW r \in Rows
        PROVE  Allowed(log'[u][r])
    <3>1. log[u][r] \in Seq(Movement) /\ Allowed(log[u][r])
      BY DEF TypeOK, OverdraftInv, PrivateOverdraftsAllowed
    <3>2. Allowed(Append(log[u][r], m))
      BY <2>2, <2>4, <3>1 DEF Allowed
    <3>. QED
      BY <2>3, <3>1, <3>2
  <2>6. journal' = journal
    BY <1>2 DEF ApplyStep
  <2>. QED
    BY <2>5, <2>6 DEF OverdraftInv, NoUnauthorisedOverdraft, PrivateOverdraftsAllowed
<1>3. ASSUME NEW t \in Requests, Rollback(t)
      PROVE  OverdraftInv'
  BY <1>3 DEF TypeOK, Rollback, NoMoves, OverdraftInv, NoUnauthorisedOverdraft,
              PrivateOverdraftsAllowed, Allowed
<1>4. ASSUME NEW t \in Requests, Commit(t)
      PROVE  OverdraftInv'
  <2>1. ASSUME NEW r \in Rows
        PROVE  Allowed(journal'[r])
    <3>1. /\ journal[r] \in Seq(Movement) /\ Allowed(journal[r])
          /\ log[t][r] \in Seq(Movement) /\ Allowed(log[t][r])
      BY DEF TypeOK, OverdraftInv, NoUnauthorisedOverdraft, PrivateOverdraftsAllowed, Allowed
    <3>2. journal'[r] = journal[r] \o log[t][r]
      BY <1>4 DEF Commit
    <3>. QED
      BY <3>1, <3>2, AllowedConcat
  <2>2. PrivateOverdraftsAllowed'
    BY <1>4 DEF TypeOK, Commit, NoMoves, OverdraftInv, PrivateOverdraftsAllowed, Allowed
  <2>. QED
    BY <2>1, <2>2 DEF OverdraftInv, NoUnauthorisedOverdraft, Allowed
<1>. QED
  BY <1>1, <1>2, <1>3, <1>4
  DEF Next, Work, RefuseStep, DeadlockAbort, Crash, vars, Open, Refuse, LockRow,
      SkipStep, RunHook, FailHook, Answer

(* A row goes below zero only by a movement that was allowed to.           *)
THEOREM NoOverdraft == Spec => []NoUnauthorisedOverdraft
<1>1. Init => OverdraftInv
  BY DEF Init, OverdraftInv, NoUnauthorisedOverdraft, PrivateOverdraftsAllowed,
         Allowed, NoMoves
<1>2. OverdraftInv => NoUnauthorisedOverdraft
  BY DEF OverdraftInv
<1>. QED
  BY <1>1, <1>2, NextOverdraft, TypeCorrect, PTL DEF Spec

-----------------------------------------------------------------------------
(* The ledger.                                                             *)
(* A set of naturals has a least one.                                      *)
LEMMA LeastNatural ==
  ASSUME NEW T \in SUBSET Nat, T # {}
  PROVE  \E n \in T : \A m \in T : n <= m
<1>. DEFINE Below == OpToRel(<, Nat)
<1>1. IsWellFoundedOn(Below, Nat)
  BY NatLessThanWellFounded
<1>2. \A x, y \in Nat : x < y => <<x, y>> \in Below
  BY DEF OpToRel
<1>. HIDE DEF Below
<1>3. PICK x \in T : \A y \in T : ~ (<<y, x>> \in Below)
  BY <1>1, WFMin
<1>4. \A y \in T : ~(y < x)
  BY <1>2, <1>3
<1>. QED
  BY <1>4

(* A set with zero and the successor of each of its numbers has them all.  *)
LEMMA NaturalsAreAll ==
  ASSUME NEW T, 0 \in T, \A n \in Nat : n \in T => n + 1 \in T
  PROVE  Nat \subseteq T
<1>. SUFFICES ASSUME Nat \ T # {} PROVE FALSE
  OBVIOUS
<1>1. PICK n \in Nat \ T : \A m \in Nat \ T : n <= m
  BY LeastNatural
<1>2. n # 0 /\ n - 1 \in Nat /\ n - 1 \in T
  BY <1>1
<1>. QED
  BY <1>1, <1>2

(* The rules are the same on both sides.                                   *)
LEMMA SameSteps == \A d : Ledger!Steps(d) = Steps(d)
BY DEF Ledger!Steps, Steps, Ledger!TransferSteps, TransferSteps, Ledger!ReceiptSteps, ReceiptSteps,
       Ledger!SaleSteps, SaleSteps, Ledger!InventorySteps, InventorySteps,
       Ledger!AdjustmentSteps, AdjustmentSteps, Ledger!Move, Move, Ledger!Abs, Abs,
       Ledger!NoCost, NoCost

LEMMA SameEntered ==
  \A t, book, step :
    Ledger!Entered(t, book, step) =
      LET bal == book.balance[step.row]
      IN IF ~book.ok \/ Skipped(step, bal.quantity) THEN book
         ELSE IF ~Accepted(step, bal.quantity) THEN [book EXCEPT !.ok = FALSE]
         ELSE [balance |-> [book.balance EXCEPT ![step.row] = Moved(step, bal)],
               journal |-> [book.journal EXCEPT
                              ![step.row] = Append(@, MovementOf(step, bal, t))],
               ok |-> TRUE]
BY DEF Ledger!Entered, Ledger!Skipped, Skipped, Ledger!Accepted, Accepted, Ledger!Moved, Moved,
       Ledger!MovementOf, MovementOf, Ledger!Delta, Delta, Ledger!NoCost, NoCost

(* The pages of a posting follow each other by its steps.                  *)
LEMMA PagesFollow ==
  ASSUME NEW t, NEW d \in Docs, NEW book
  PROVE  /\ Ledger!Pages(t, d, book)[0] = book
         /\ \A n \in 1 .. Len(Steps(d)) :
              Ledger!Pages(t, d, book)[n] =
                Ledger!Entered(t, Ledger!Pages(t, d, book)[n - 1], Steps(d)[n])
<1>. DEFINE N == Len(Steps(d))
            Next1(page, n) == IF n = 0 THEN book ELSE Ledger!Entered(t, page[n - 1], Steps(d)[n])
            Good(k, page) == page = [n \in 0 .. k |-> Next1(page, n)]
            T == {k \in Nat : \E p : Good(k, p)}
<1>1. N \in Nat
  BY StepsType
<1>2. 0 \in T
  <2>. DEFINE page == [n \in 0 .. 0 |-> book]
  <2>1. page = [n \in 0 .. 0 |-> Next1(page, n)]
    OBVIOUS
  <2>. QED
    BY <2>1
<1>3. ASSUME NEW k \in Nat, k \in T PROVE k + 1 \in T
  <2>1. PICK page : Good(k, page)
    BY <1>3
  <2>. DEFINE more == [n \in 0 .. k + 1 |->
                         IF n = k + 1 THEN Ledger!Entered(t, page[k], Steps(d)[k + 1]) ELSE page[n]]
  <2>2. \A n \in 0 .. k : more[n] = page[n] /\ page[n] = Next1(page, n)
    BY <2>1
  <2>3. ASSUME NEW n \in 0 .. k + 1 PROVE more[n] = Next1(more, n)
    <3>1. CASE n = k + 1
      BY <2>2, <3>1
    <3>2. CASE n # k + 1
      <4>1. n \in 0 .. k /\ (n # 0 => n - 1 \in 0 .. k)
        BY <3>2
      <4>. QED
        BY <2>2, <4>1
    <3>. QED
      BY <3>1, <3>2
  <2>4. Good(k + 1, more)
    BY <2>3
  <2>. HIDE DEF more, Good
  <2>. QED
    BY <2>4
<1>4. N \in T
  BY <1>1, <1>2, <1>3, NaturalsAreAll
<1>5. PICK page : Good(N, page)
  BY <1>4
<1>6. Ledger!Pages(t, d, book) = CHOOSE p : Good(N, p)
  BY SameSteps DEF Ledger!Pages
<1>7. Good(N, Ledger!Pages(t, d, book))
  BY <1>5, <1>6
<1>. QED
  BY <1>1, <1>7

LEMMA PagesBegin == \A t, book : \A d \in Docs : Ledger!Pages(t, d, book)[0] = book
BY PagesFollow

Books == [balance : [Rows -> Balance], journal : [Rows -> Seq(Movement)], ok : BOOLEAN]

(* What a step enters, row by row.                                         *)
LEMMA EnteredRows ==
  ASSUME NEW t \in Requests, NEW step \in Step, NEW book \in Books, NEW after,
         after = Ledger!Entered(t, book, step)
  PROVE  LET bal == book.balance[step.row]
             q == bal.quantity
         IN /\ after \in Books
            /\ ~book.ok \/ Skipped(step, q) => after = book
            /\ book.ok /\ ~Skipped(step, q) /\ ~Accepted(step, q) => ~after.ok
            /\ ~book.ok \/ ~Accepted(step, q) =>
                 after.balance = book.balance /\ after.journal = book.journal
            /\ book.ok /\ ~Skipped(step, q) /\ Accepted(step, q) =>
                 /\ after.ok
                 /\ after.balance[step.row] = Moved(step, bal)
                 /\ after.journal[step.row] = Append(book.journal[step.row], MovementOf(step, bal, t))
            /\ \A r \in Rows \ {step.row} :
                 after.balance[r] = book.balance[r] /\ after.journal[r] = book.journal[r]
<1>. DEFINE row == step.row
            bal == book.balance[row]
            q == bal.quantity
            m == MovementOf(step, bal, t)
<1>1. row \in Rows /\ bal \in Balance /\ book.journal[row] \in Seq(Movement)
  BY DEF Books, Step
<1>2. Moved(step, bal) \in Balance /\ m \in Movement
  BY <1>1, MovedType
<1>3. after = IF ~book.ok \/ Skipped(step, q) THEN book
              ELSE IF ~Accepted(step, q) THEN [book EXCEPT !.ok = FALSE]
              ELSE [balance |-> [book.balance EXCEPT ![row] = Moved(step, bal)],
                    journal |-> [book.journal EXCEPT ![row] = Append(@, m)],
                    ok |-> TRUE]
  BY SameEntered
<1>. HIDE DEF row, bal, q, m
<1>4. Skipped(step, q) => ~Accepted(step, q)
  BY DEF Skipped, Accepted
<1>5. CASE ~book.ok \/ Skipped(step, q)
  BY <1>3, <1>4, <1>5 DEF row, bal, q, m
<1>6. CASE book.ok /\ ~Skipped(step, q) /\ ~Accepted(step, q)
  <2>1. after = [book EXCEPT !.ok = FALSE]
    BY <1>3, <1>6
  <2>2. after \in Books /\ after.balance = book.balance /\ after.journal = book.journal /\ ~after.ok
    BY <2>1 DEF Books
  <2>. QED
    BY <1>6, <2>2 DEF row, bal, q
<1>7. CASE book.ok /\ ~Skipped(step, q) /\ Accepted(step, q)
  <2>1. after = [balance |-> [book.balance EXCEPT ![row] = Moved(step, bal)],
                 journal |-> [book.journal EXCEPT ![row] = Append(@, m)],
                 ok |-> TRUE]
    BY <1>3, <1>7
  <2>2. Append(book.journal[row], m) \in Seq(Movement)
    BY <1>1, <1>2
  <2>3. /\ after.balance = [book.balance EXCEPT ![row] = Moved(step, bal)]
        /\ after.journal = [book.journal EXCEPT ![row] = Append(book.journal[row], m)]
        /\ after.ok = TRUE
        /\ after = [balance |-> after.balance, journal |-> after.journal, ok |-> after.ok]
    BY <2>1
  <2>4. after.balance \in [Rows -> Balance] /\ after.journal \in [Rows -> Seq(Movement)]
    BY <1>1, <1>2, <2>2, <2>3 DEF Books
  <2>5. after \in Books
    BY <2>3, <2>4 DEF Books
  <2>6. /\ after.balance[row] = Moved(step, bal)
        /\ after.journal[row] = Append(book.journal[row], m)
        /\ \A r \in Rows \ {row} :
             after.balance[r] = book.balance[r] /\ after.journal[r] = book.journal[r]
    BY <1>1, <2>3 DEF Books
  <2>. QED
    BY <1>7, <2>3, <2>5, <2>6 DEF row, bal, q, m
<1>. QED
  BY <1>5, <1>6, <1>7

(* Every page is a state of the books.                                     *)
LEMMA PagesType ==
  ASSUME NEW t \in Requests, NEW d \in Docs, NEW book \in Books
  PROVE  \A n \in 0 .. Len(Steps(d)) : Ledger!Pages(t, d, book)[n] \in Books
<1>. DEFINE N == Len(Steps(d))
            page == Ledger!Pages(t, d, book)
            T == {k \in Nat : k <= N => page[k] \in Books}
<1>1. N \in Nat /\ \A n \in 1 .. N : Steps(d)[n] \in Step
  BY StepsType, ElementOfSeq
<1>2. /\ page[0] = book
      /\ \A n \in 1 .. N : page[n] = Ledger!Entered(t, page[n - 1], Steps(d)[n])
  BY PagesFollow
<1>. HIDE DEF N, page
<1>3. 0 \in T
  BY <1>2
<1>4. ASSUME NEW k \in Nat, k \in T PROVE k + 1 \in T
  <2>1. CASE k + 1 <= N
    <3>1. k + 1 \in 1 .. N /\ page[k] \in Books /\ (k + 1) - 1 = k
      BY <1>1, <1>4, <2>1
    <3>2. page[k + 1] = Ledger!Entered(t, page[k], Steps(d)[k + 1]) /\ Steps(d)[k + 1] \in Step
      BY <1>1, <1>2, <3>1
    <3>3. page[k + 1] \in Books
      BY <3>1, <3>2, EnteredRows
    <3>. QED
      BY <3>3
  <2>. QED
    BY <2>1
<1>5. Nat \subseteq T
  BY <1>3, <1>4, NaturalsAreAll
<1>. QED
  BY <1>1, <1>5 DEF N, page

(* Books that agree on the rows of L; books that agree on all the others.  *)
Agree(L, a, b) ==
  /\ b.ok <=> a.ok
  /\ \A r \in L : b.balance[r] = a.balance[r] /\ b.journal[r] = a.journal[r]
Apart(L, a, b) ==
  \A r \in Rows \ L : b.balance[r] = a.balance[r] /\ b.journal[r] = a.journal[r]

(* Books that agree on the rows of L still do after a step that moves one. *)
LEMMA EnteredFramed ==
  ASSUME NEW t \in Requests, NEW step \in Step, NEW L \in SUBSET Rows, step.row \in L,
         NEW a \in Books, NEW b \in Books, NEW a1, NEW b1,
         a1 = Ledger!Entered(t, a, step), b1 = Ledger!Entered(t, b, step),
         Agree(L, a, b)
  PROVE  Agree(L, a1, b1) /\ Apart(L, b, b1)
<1>. USE DEF Agree, Apart
<1>. DEFINE row == step.row
            bal == a.balance[row]
            q == bal.quantity
            m == MovementOf(step, bal, t)
<1>1. row \in L /\ b.balance[row] = bal /\ b.journal[row] = a.journal[row]
  OBVIOUS
<1>2. \A r \in Rows \ {row} :
        /\ a1.balance[r] = a.balance[r] /\ a1.journal[r] = a.journal[r]
        /\ b1.balance[r] = b.balance[r] /\ b1.journal[r] = b.journal[r]
  BY EnteredRows
<1>3. CASE ~a.ok \/ Skipped(step, q)
  <2>1. a1 = a
    BY <1>3, EnteredRows
  <2>2. b1 = b
    BY <1>1, <1>3, EnteredRows
  <2>. QED
    BY <2>1, <2>2
<1>4. CASE a.ok /\ ~Skipped(step, q) /\ ~Accepted(step, q)
  <2>1. ~a1.ok /\ a1.balance = a.balance /\ a1.journal = a.journal
    BY <1>4, EnteredRows
  <2>2. ~b1.ok /\ b1.balance = b.balance /\ b1.journal = b.journal
    BY <1>1, <1>4, EnteredRows
  <2>. QED
    BY <2>1, <2>2
<1>5. CASE a.ok /\ ~Skipped(step, q) /\ Accepted(step, q)
  <2>1. /\ a1.ok /\ a1.balance[row] = Moved(step, bal)
        /\ a1.journal[row] = Append(a.journal[row], m)
    BY <1>5, EnteredRows
  <2>2. /\ b1.ok /\ b1.balance[row] = Moved(step, bal)
        /\ b1.journal[row] = Append(a.journal[row], m)
    <3>1. b.ok /\ ~Skipped(step, b.balance[row].quantity) /\ Accepted(step, b.balance[row].quantity)
      BY <1>1, <1>5
    <3>2. /\ b1.ok /\ b1.balance[row] = Moved(step, b.balance[row])
          /\ b1.journal[row] = Append(b.journal[row], MovementOf(step, b.balance[row], t))
      BY <3>1, EnteredRows
    <3>. QED
      BY <1>1, <3>2
  <2>. HIDE DEF row, m, bal
  <2>3. a1.ok <=> b1.ok
    BY <2>1, <2>2
  <2>4. ASSUME NEW r \in L
        PROVE  b1.balance[r] = a1.balance[r] /\ b1.journal[r] = a1.journal[r]
    <3>1. CASE r = row
      BY <2>1, <2>2, <3>1
    <3>2. CASE r # row
      <4>1. r \in Rows \ {row} /\ b.balance[r] = a.balance[r] /\ b.journal[r] = a.journal[r]
        BY <3>2
      <4>. QED
        BY <1>2, <4>1
    <3>. QED
      BY <3>1, <3>2
  <2>5. \A r \in Rows \ L : r \in Rows \ {row}
    BY <1>1
  <2>. QED
    BY <1>2, <2>3, <2>4, <2>5
<1>. QED
  BY <1>3, <1>4, <1>5

(* A document posts on the rows it moves the same whatever the others hold. *)
LEMMA PagesFramed ==
  ASSUME NEW t \in Requests, NEW d \in Docs, NEW L \in SUBSET Rows,
         NEW a \in Books, NEW b \in Books, NEW k \in 0 .. Len(Steps(d)),
         \A n \in 1 .. k : Steps(d)[n].row \in L,
         Agree(L, a, b)
  PROVE  /\ Agree(L, Ledger!Pages(t, d, a)[k], Ledger!Pages(t, d, b)[k])
         /\ Apart(L, b, Ledger!Pages(t, d, b)[k])
<1>. DEFINE N == Len(Steps(d))
            p == Ledger!Pages(t, d, a)
            q == Ledger!Pages(t, d, b)
            Same(n) == Agree(L, p[n], q[n]) /\ Apart(L, b, q[n])
            T == {n \in Nat : n <= k => Same(n)}
<1>1. N \in Nat /\ k \in Nat /\ k <= N /\ \A n \in 1 .. N : Steps(d)[n] \in Step
  BY StepsType, ElementOfSeq
<1>2. /\ p[0] = a
      /\ \A n \in 1 .. N : p[n] = Ledger!Entered(t, p[n - 1], Steps(d)[n])
  BY PagesFollow
<1>3. /\ q[0] = b
      /\ \A n \in 1 .. N : q[n] = Ledger!Entered(t, q[n - 1], Steps(d)[n])
  BY PagesFollow
<1>4. \A n \in 0 .. N : p[n] \in Books
  BY PagesType
<1>5. \A n \in 0 .. N : q[n] \in Books
  BY PagesType
<1>. HIDE DEF N, p, q
<1>6. 0 \in T
  BY <1>2, <1>3 DEF Apart
<1>7. ASSUME NEW n \in Nat, n \in T PROVE n + 1 \in T
  <2>1. ASSUME n + 1 <= k PROVE Same(n + 1)
    <3>. DEFINE step == Steps(d)[n + 1]
    <3>1. n + 1 \in 1 .. N /\ n + 1 \in 1 .. k /\ n \in 0 .. N /\ (n + 1) - 1 = n
      BY <1>1, <2>1
    <3>2. Same(n)
      BY <1>7, <2>1
    <3>3. /\ step \in Step /\ step.row \in L /\ p[n] \in Books /\ q[n] \in Books
          /\ p[n + 1] = Ledger!Entered(t, p[n], step)
          /\ q[n + 1] = Ledger!Entered(t, q[n], step)
      BY <1>1, <1>2, <1>3, <1>4, <1>5, <3>1
    <3>. HIDE DEF step
    <3>4. Agree(L, p[n + 1], q[n + 1]) /\ Apart(L, q[n], q[n + 1])
      BY <3>2, <3>3, EnteredFramed
    <3>. QED
      BY <3>2, <3>4 DEF Apart
  <2>. QED
    BY <2>1
<1>8. Nat \subseteq T
  BY <1>6, <1>7, NaturalsAreAll
<1>9. Same(k)
  BY <1>1, <1>8
<1>. QED
  BY <1>9 DEF p, q

Now == [balance |-> balance, journal |-> journal, ok |-> TRUE]

(* What t has done is what the ledger would enter for it now: it holds     *)
(* every row it moved.                                                     *)
Replayed(t) ==
  /\ WellFormed(doc[t])
  /\ pos[t] <= Len(Steps(doc[t]))
  /\ \A n \in 1 .. pos[t] : lock[Steps(doc[t])[n].row] = t
  /\ Ledger!Pages(t, doc[t], Now)[pos[t]].ok
  /\ \A r \in Rows :
       /\ Ledger!Pages(t, doc[t], Now)[pos[t]].balance[r] =
            IF lock[r] = t THEN view[t][r] ELSE balance[r]
       /\ Ledger!Pages(t, doc[t], Now)[pos[t]].journal[r] = journal[r] \o log[t][r]

Replays ==
  \A t \in Requests :
    /\ pc[t] = "idle" => pos[t] = 0
    /\ pc[t] = "open" => Replayed(t)

LEMMA NowType == TypeOK => Now \in Books
BY DEF TypeOK, Now, Books

(* The others change only rows that t does not hold.                       *)
LEMMA ReplayKept ==
  ASSUME TypeOK, TypeOK', WritersHoldTheirRows, NEW t \in Requests, pc[t] = "open", Replayed(t),
         doc'[t] = doc[t], pos'[t] = pos[t], view'[t] = view[t], log'[t] = log[t],
         \A r \in Rows : lock'[r] = t <=> lock[r] = t,
         \A r \in Rows : lock[r] = t => balance'[r] = balance[r] /\ journal'[r] = journal[r]
  PROVE  Replayed(t)'
<1>. DEFINE L == {r \in Rows : lock[r] = t}
            k == pos[t]
            p == Ledger!Pages(t, doc[t], Now)[k]
            q == Ledger!Pages(t, doc[t], Now')[k]
<1>1. doc[t] \in Docs /\ k \in 0 .. Len(Steps(doc[t])) /\ Steps(doc[t]) \in Seq(Step)
  BY StepsType DEF TypeOK, Replayed
<1>2. Now \in Books /\ Now' \in Books
  BY NowType DEF TypeOK, Now, Books
<1>3. Agree(L, p, q) /\ Apart(L, Now', q)
  <2>1. \A n \in 1 .. k : Steps(doc[t])[n].row \in L
    <3>1. \A n \in 1 .. k : Steps(doc[t])[n] \in Step
      BY <1>1, ElementOfSeq
    <3>. QED
      BY <3>1 DEF Replayed, Step
  <2>2. Agree(L, Now, Now')
    BY DEF Agree, Now
  <2>3. L \in SUBSET Rows
    OBVIOUS
  <2>. HIDE DEF L, k
  <2>. QED
    BY <1>1, <1>2, <2>1, <2>2, <2>3, PagesFramed
<1>4. /\ p.ok
      /\ \A r \in Rows : /\ p.balance[r] = IF lock[r] = t THEN view[t][r] ELSE balance[r]
                         /\ p.journal[r] = journal[r] \o log[t][r]
  BY DEF Replayed
<1>5. ASSUME NEW r \in Rows
      PROVE  /\ q.balance[r] = IF lock'[r] = t THEN view'[t][r] ELSE balance'[r]
             /\ q.journal[r] = journal'[r] \o log'[t][r]
  <2>1. CASE lock[r] = t
    <3>1. r \in L /\ lock'[r] = t /\ journal'[r] = journal[r]
      BY <2>1
    <3>. HIDE DEF L, k, p, q
    <3>2. q.balance[r] = view[t][r] /\ q.journal[r] = journal[r] \o log[t][r]
      BY <1>3, <1>4, <2>1, <3>1 DEF Agree
    <3>. QED
      BY <3>1, <3>2
  <2>2. CASE lock[r] # t
    <3>1. log'[t][r] = << >> /\ journal'[r] \in Seq(Movement)
      BY <2>2 DEF WritersHoldTheirRows, TypeOK
    <3>2. journal'[r] \o log'[t][r] = journal'[r]
      BY <3>1, ConcatEmptySeq
    <3>. QED
      BY <1>3, <2>2, <3>2 DEF Apart, Now
  <2>. QED
    BY <2>1, <2>2
<1>6. \A n \in 1 .. pos'[t] : lock'[Steps(doc'[t])[n].row] = t
  <2>1. \A n \in 1 .. k : Steps(doc[t])[n].row \in Rows
    <3>1. \A n \in 1 .. k : Steps(doc[t])[n] \in Step
      BY <1>1, ElementOfSeq
    <3>. QED
      BY <3>1 DEF Step
  <2>. QED
    BY <2>1 DEF Replayed
<1>7. /\ WellFormed(doc'[t])
      /\ pos'[t] <= Len(Steps(doc'[t]))
  BY DEF Replayed
<1>8. doc'[t] = doc[t] /\ pos'[t] = k
  OBVIOUS
<1>9. Ledger!Pages(t, doc'[t], Now')[pos'[t]] = q
  BY <1>8
<1>. HIDE DEF L, k, p, q
<1>10. q.ok
  BY <1>3, <1>4 DEF Agree
<1>. QED
  BY <1>5, <1>6, <1>7, <1>9, <1>10 DEF Replayed
(* Appending to a sequence that is a concatenation.                        *)
LEMMA AppendToConcat ==
  \A a, b \in Seq(Movement), m \in Movement : Append(a \o b, m) = a \o Append(b, m)
<1>. SUFFICES ASSUME NEW a \in Seq(Movement), NEW b \in Seq(Movement), NEW m \in Movement
              PROVE  Append(a \o b, m) = a \o Append(b, m)
  OBVIOUS
<1>1. a \o b \in Seq(Movement) /\ <<m>> \in Seq(Movement)
  BY ConcatProperties
<1>2. Append(a \o b, m) = (a \o b) \o <<m>> /\ Append(b, m) = b \o <<m>>
  BY <1>1, AppendIsConcat
<1>. QED
  BY <1>1, <1>2, ConcatAssociative

(* A request that opens a document has entered nothing.                    *)
LEMMA ReplayBegins ==
  ASSUME TypeOK, TypeOK', WritersHoldTheirRows, NEW t \in Requests, NEW d \in Docs, Open(t, d),
         pos[t] = 0
  PROVE  Replayed(t)'
<1>1. /\ doc'[t] = d /\ pos'[t] = 0 /\ WellFormed(d) /\ pc[t] = "idle"
      /\ UNCHANGED <<balance, journal, lock, view, log>>
  BY DEF Open, Admitted, TypeOK
<1>2. Now' = Now
  BY <1>1 DEF Now
<1>3. Now.ok /\ Now.balance = balance /\ Now.journal = journal
  BY DEF Now
<1>4. Ledger!Pages(t, d, Now)[0] = Now
  BY PagesBegin
<1>5. Len(Steps(d)) \in Nat
  BY StepsType
<1>6. \A r \in Rows : lock[r] # t /\ log[t][r] = << >> /\ journal[r] \in Seq(Movement)
  BY <1>1 DEF WritersHoldTheirRows, TypeOK
<1>7. \A r \in Rows : journal[r] \o log[t][r] = journal[r]
  BY <1>6, ConcatEmptySeq
<1>8. Now = Ledger!Pages(t, doc'[t], Now')[pos'[t]]
  BY <1>1, <1>2, <1>4
<1>9. /\ \A r \in Rows : Now.balance[r] = IF lock'[r] = t THEN view'[t][r] ELSE balance'[r]
      /\ \A r \in Rows : Now.journal[r] = journal'[r] \o log'[t][r]
  BY <1>3, <1>1, <1>6, <1>7
<1>10. /\ WellFormed(doc'[t]) /\ pos'[t] <= Len(Steps(doc'[t]))
      /\ \A n \in 1 .. pos'[t] : lock'[Steps(doc'[t])[n].row] = t
  BY <1>1, <1>5
<1>. QED
  BY <1>3, <1>8, <1>9, <1>10 DEF Replayed

(* A row is locked as it was committed.                                    *)
LEMMA ReplayLocks ==
  ASSUME TypeOK, NEW t \in Requests, LockRow(t), Replayed(t)
  PROVE  Replayed(t)'
<1>. DEFINE row == Current(t).row
<1>1. /\ UNCHANGED <<balance, journal, doc, pos, log>> /\ Now' = Now /\ row \in Rows
      /\ lock[row] = NoRequest /\ lock'[row] = t /\ view'[t][row] = balance[row]
      /\ \A r \in Rows \ {row} : lock'[r] = lock[r] /\ view'[t][r] = view[t][r]
  BY CurrentType DEF LockRow, TypeOK, Now
<1>2. lock[row] # t
  BY <1>1 DEF NobodyAssumption
<1>3. \A n \in 1 .. pos[t] : Steps(doc[t])[n].row \in Rows
  <2>1. Steps(doc[t]) \in Seq(Step) /\ pos[t] \in Nat
    BY StepsType DEF LockRow, Pending, TypeOK
  <2>2. \A n \in 1 .. pos[t] : Steps(doc[t])[n] \in Step
    BY <2>1, ElementOfSeq DEF Replayed
  <2>. QED
    BY <2>2 DEF Step
<1>. HIDE DEF row
<1>4. \A n \in 1 .. pos[t] : lock'[Steps(doc[t])[n].row] = t
  BY <1>1, <1>2, <1>3 DEF Replayed
<1>5. ASSUME NEW r \in Rows
      PROVE  (IF lock'[r] = t THEN view'[t][r] ELSE balance[r]) =
               IF lock[r] = t THEN view[t][r] ELSE balance[r]
  BY <1>1, <1>2
<1>. DEFINE page == Ledger!Pages(t, doc[t], Now)[pos[t]]
<1>6. /\ page.ok /\ WellFormed(doc[t]) /\ pos[t] <= Len(Steps(doc[t]))
      /\ \A r \in Rows : /\ page.balance[r] = IF lock[r] = t THEN view[t][r] ELSE balance[r]
                         /\ page.journal[r] = journal[r] \o log[t][r]
  BY DEF Replayed
<1>7. page = Ledger!Pages(t, doc'[t], Now')[pos'[t]]
  BY <1>1
<1>. HIDE DEF page
<1>8. /\ \A r \in Rows : page.balance[r] = IF lock'[r] = t THEN view'[t][r] ELSE balance'[r]
      /\ \A r \in Rows : page.journal[r] = journal'[r] \o log'[t][r]
  BY <1>1, <1>5, <1>6
<1>9. /\ WellFormed(doc'[t]) /\ pos'[t] <= Len(Steps(doc'[t]))
      /\ \A n \in 1 .. pos'[t] : lock'[Steps(doc'[t])[n].row] = t
  BY <1>1, <1>4, <1>6
<1>. QED
  BY <1>6, <1>7, <1>8, <1>9 DEF Replayed

(* The step of the transaction is the next page of the ledger.             *)
LEMMA ReplaySteps ==
  ASSUME TypeOK, NEW t \in Requests, SkipStep(t) \/ ApplyStep(t), Replayed(t)
  PROVE  Replayed(t)'
<1>. DEFINE step == Current(t)
            row == step.row
            bal == view[t][row]
            k == pos[t]
            d == doc[t]
            m == MovementOf(step, bal, t)
            p == Ledger!Pages(t, d, Now)[k]
            q == Ledger!Pages(t, d, Now)[k + 1]
<1>1. /\ d \in Docs /\ k \in Nat /\ k + 1 \in 1 .. Len(Steps(d)) /\ Len(Steps(d)) \in Nat
      /\ k \in 0 .. Len(Steps(d)) /\ (k + 1) - 1 = k
      /\ step = Steps(d)[k + 1] /\ step \in Step /\ row \in Rows /\ bal \in Balance
  <2>1. Pending(t)
    BY DEF SkipStep, ApplyStep
  <2>2. Steps(d) \in Seq(Step) /\ d \in Docs /\ k \in Nat
    BY <2>1, StepsType DEF Pending, TypeOK
  <2>. QED
    BY <2>1, <2>2, CurrentType DEF Pending, Current
<1>2. /\ UNCHANGED <<balance, journal, lock, doc>> /\ Now' = Now /\ lock[row] = t /\ pos'[t] = k + 1
  BY DEF SkipStep, ApplyStep, TypeOK, Now
<1>3. p \in Books /\ p.ok /\ q = Ledger!Entered(t, p, step)
  BY <1>1, PagesType, PagesFollow, NowType DEF Replayed
<1>4. /\ p.balance[row] = bal
      /\ \A r \in Rows : /\ p.balance[r] = IF lock[r] = t THEN view[t][r] ELSE balance[r]
                         /\ p.journal[r] = journal[r] \o log[t][r]
  <2>1. \A r \in Rows : /\ p.balance[r] = IF lock[r] = t THEN view[t][r] ELSE balance[r]
                        /\ p.journal[r] = journal[r] \o log[t][r]
    BY DEF Replayed
  <2>. HIDE DEF p
  <2>. QED
    BY <1>1, <1>2, <2>1
<1>5. \A n \in 1 .. k + 1 : lock'[Steps(d)[n].row] = t
  BY <1>1, <1>2 DEF Replayed
<1>6. ASSUME q.ok,
             \A r \in Rows : /\ q.balance[r] = IF lock[r] = t THEN view'[t][r] ELSE balance[r]
                             /\ q.journal[r] = journal[r] \o log'[t][r]
      PROVE  Replayed(t)'
  <2>1. WellFormed(d)
    BY DEF Replayed
  <2>2. q = Ledger!Pages(t, doc'[t], Now')[pos'[t]]
    BY <1>2
  <2>3. k + 1 <= Len(Steps(d)) /\ doc'[t] = d
    BY <1>1, <1>2
  <2>. HIDE DEF q, d, k, row, step
  <2>4. /\ WellFormed(doc'[t]) /\ pos'[t] <= Len(Steps(doc'[t]))
        /\ \A n \in 1 .. pos'[t] : lock'[Steps(doc'[t])[n].row] = t
    BY <1>2, <1>5, <2>1, <2>3
  <2>5. /\ \A r \in Rows : q.balance[r] = IF lock'[r] = t THEN view'[t][r] ELSE balance'[r]
        /\ \A r \in Rows : q.journal[r] = journal'[r] \o log'[t][r]
    BY <1>2, <1>6
  <2>. QED
    BY <1>6, <2>2, <2>4, <2>5 DEF Replayed
<1>. HIDE DEF p, q, step, k, d
<1>7. CASE SkipStep(t)
  <2>1. Skipped(step, bal.quantity) /\ UNCHANGED <<view, log>>
    BY <1>7 DEF SkipStep, step
  <2>2. q = p
    BY <1>1, <1>3, <1>4, <2>1, EnteredRows
  <2>. QED
    BY <1>3, <1>4, <1>6, <2>1, <2>2
<1>8. CASE ApplyStep(t)
  <2>1. Accepted(step, bal.quantity) /\ ~Skipped(step, bal.quantity)
    BY <1>8 DEF ApplyStep, step, Accepted, Skipped
  <2>2. /\ q.ok /\ q.balance[row] = Moved(step, bal)
        /\ q.journal[row] = Append(p.journal[row], m)
    <3>1. Accepted(step, p.balance[row].quantity) /\ ~Skipped(step, p.balance[row].quantity)
      BY <1>4, <2>1
    <3>2. /\ q.ok /\ q.balance[row] = Moved(step, p.balance[row])
          /\ q.journal[row] = Append(p.journal[row], MovementOf(step, p.balance[row], t))
      <4>1. p \in Books /\ p.ok /\ step \in Step /\ q = Ledger!Entered(t, p, step)
        BY <1>1, <1>3
      <4>. HIDE DEF bal
      <4>. QED
        BY <3>1, <4>1, EnteredRows
    <3>. QED
      BY <1>4, <3>2
  <2>3. \A r \in Rows \ {row} : q.balance[r] = p.balance[r] /\ q.journal[r] = p.journal[r]
    BY <1>1, <1>3, EnteredRows
  <2>4. /\ view'[t][row] = Moved(step, bal) /\ log'[t][row] = Append(log[t][row], m)
        /\ \A r \in Rows \ {row} : view'[t][r] = view[t][r] /\ log'[t][r] = log[t][r]
    BY <1>1, <1>8 DEF ApplyStep, step, TypeOK
  <2>5. Append(journal[row] \o log[t][row], m) = journal[row] \o Append(log[t][row], m)
    <3>1. journal[row] \in Seq(Movement) /\ log[t][row] \in Seq(Movement)
      BY <1>1 DEF TypeOK
    <3>2. m \in Movement
      BY <1>1, MovedType
    <3>. HIDE DEF m, row
    <3>. QED
      BY <3>1, <3>2, AppendToConcat
  <2>6. ASSUME NEW r \in Rows
        PROVE  /\ q.balance[r] = IF lock[r] = t THEN view'[t][r] ELSE balance[r]
               /\ q.journal[r] = journal[r] \o log'[t][r]
    <3>1. CASE r = row
      <4>. HIDE DEF row, bal, m
      <4>. QED
        BY <1>2, <1>4, <2>2, <2>4, <2>5, <3>1
    <3>2. CASE r # row
      BY <1>4, <2>3, <2>4, <3>2
    <3>. QED
      BY <3>1, <3>2
  <2>. QED
    BY <1>6, <2>2, <2>6
<1>. QED
  BY <1>7, <1>8
ReplayInv == TypeOK /\ WritersHoldTheirRows /\ Replays

(* A step of the service, with the three ways to roll back in one.         *)
LEMMA NextCases ==
  ASSUME [Next]_vars
  PROVE  \/ UNCHANGED vars
         \/ \E t \in Requests, d \in Docs : Open(t, d) \/ Refuse(t, d)
         \/ \E t \in Requests : LockRow(t) \/ SkipStep(t) \/ ApplyStep(t)
         \/ \E t \in Requests : pc[t] = "open" /\ Rollback(t)
         \/ \E t \in Requests : Commit(t)
         \/ \E t \in Requests : RunHook(t) \/ FailHook(t) \/ Answer(t)
<1>1. \A t \in Requests :
        RefuseStep(t) \/ DeadlockAbort(t) \/ Crash(t) => (pc[t] = "open" /\ Rollback(t))
  BY DEF RefuseStep, DeadlockAbort, Deadlocked, Waiting, Pending, Crash
<1>. QED
  BY <1>1 DEF Next, Work

(* Every step keeps the replay of every transaction.                       *)
LEMMA NextReplays == ReplayInv /\ TypeOK' /\ [Next]_vars => Replays'
<1>. SUFFICES ASSUME TypeOK, TypeOK', WritersHoldTheirRows, Replays, [Next]_vars,
                     NEW u \in Requests
              PROVE  /\ pc'[u] = "idle" => pos'[u] = 0
                     /\ pc'[u] = "open" => Replayed(u)'
  BY DEF ReplayInv, Replays
<1>. DEFINE Goal == /\ pc'[u] = "idle" => pos'[u] = 0
                    /\ pc'[u] = "open" => Replayed(u)'
            Mine == /\ pc'[u] = pc[u] /\ doc'[u] = doc[u] /\ pos'[u] = pos[u]
                    /\ view'[u] = view[u] /\ log'[u] = log[u]
                    /\ \A r \in Rows : lock'[r] = u <=> lock[r] = u
                    /\ \A r \in Rows : lock[r] = u => balance'[r] = balance[r]
                                                      /\ journal'[r] = journal[r]
<1>0. /\ pc[u] = "idle" => pos[u] = 0
      /\ pc[u] = "open" => Replayed(u)
  BY DEF Replays
<1>1. ASSUME Mine PROVE Goal
  <2>1. ASSUME pc[u] = "open" PROVE Replayed(u)'
    BY <1>0, <1>1, <2>1, ReplayKept
  <2>. QED
    BY <1>0, <1>1, <2>1
<1>2. ASSUME NEW t \in Requests, NEW d \in Docs, Open(t, d) PROVE Goal
  <2>1. CASE t = u
    <3>1. Replayed(u)'
      BY <1>0, <1>2, <2>1, ReplayBegins DEF Open
    <3>2. pc'[u] = "open"
      BY <1>2, <2>1 DEF Open, TypeOK
    <3>. QED
      BY <3>1, <3>2
  <2>2. CASE t # u
    <3>1. Mine
      BY <1>2, <2>2 DEF Open, TypeOK
    <3>. QED
      BY <1>1, <3>1
  <2>. QED
    BY <2>1, <2>2
<1>3. ASSUME NEW t \in Requests, NEW d \in Docs, Refuse(t, d) PROVE Goal
  <2>1. CASE t = u
    BY <1>3, <2>1 DEF Refuse, TypeOK
  <2>2. CASE t # u
    <3>1. Mine
      BY <1>3, <2>2 DEF Refuse, TypeOK
    <3>. QED
      BY <1>1, <3>1
  <2>. QED
    BY <2>1, <2>2
<1>4. ASSUME NEW t \in Requests, LockRow(t) PROVE Goal
  <2>1. Current(t).row \in Rows /\ lock[Current(t).row] = NoRequest
    BY <1>4, CurrentType DEF LockRow
  <2>2. CASE t = u
    <3>1. Replayed(u)'
      BY <1>0, <1>4, <2>2, ReplayLocks DEF LockRow, Pending
    <3>2. pc'[u] = "open"
      BY <1>4, <2>2 DEF LockRow, Pending
    <3>. QED
      BY <3>1, <3>2
  <2>3. CASE t # u
    <3>1. Mine
      BY <1>4, <2>1, <2>3 DEF LockRow, TypeOK, NobodyAssumption
    <3>. QED
      BY <1>1, <3>1
  <2>. QED
    BY <2>2, <2>3
<1>5. ASSUME NEW t \in Requests, SkipStep(t) \/ ApplyStep(t) PROVE Goal
  <2>1. CASE t = u
    <3>1. pc[u] = "open" /\ pc'[u] = "open"
      BY <1>5, <2>1 DEF SkipStep, ApplyStep, Pending
    <3>2. Replayed(u)'
      BY <1>0, <1>5, <2>1, <3>1, ReplaySteps
    <3>. QED
      BY <3>1, <3>2
  <2>2. CASE t # u
    <3>1. Mine
      BY <1>5, <2>2 DEF SkipStep, ApplyStep, TypeOK
    <3>. QED
      BY <1>1, <3>1
  <2>. QED
    BY <2>1, <2>2
<1>6. ASSUME NEW t \in Requests, Rollback(t) PROVE Goal
  <2>1. CASE t = u
    BY <1>6, <2>1 DEF Rollback, TypeOK
  <2>2. CASE t # u
    <3>1. Mine
      BY <1>6, <2>2 DEF Rollback, TypeOK, NobodyAssumption
    <3>. QED
      BY <1>1, <3>1
  <2>. QED
    BY <2>1, <2>2
<1>7. ASSUME NEW t \in Requests, Commit(t) PROVE Goal
  <2>1. CASE t = u
    BY <1>7, <2>1 DEF Commit, TypeOK
  <2>2. CASE t # u
    <3>1. ASSUME NEW r \in Rows, lock[r] = u
          PROVE  balance'[r] = balance[r] /\ journal'[r] = journal[r]
      <4>1. log[t][r] = << >> /\ journal[r] \in Seq(Movement)
        BY <2>2, <3>1 DEF WritersHoldTheirRows, TypeOK
      <4>2. journal'[r] = journal[r] \o log[t][r] /\ balance'[r] = balance[r]
        BY <1>7, <2>2, <3>1 DEF Commit
      <4>. QED
        BY <4>1, <4>2, ConcatEmptySeq
    <3>2. Mine
      BY <1>7, <2>2, <3>1 DEF Commit, TypeOK, NobodyAssumption
    <3>. QED
      BY <1>1, <3>2
  <2>. QED
    BY <2>1, <2>2
<1>8. ASSUME NEW t \in Requests, RunHook(t) \/ FailHook(t) \/ Answer(t) PROVE Goal
  <2>1. CASE t = u
    BY <1>8, <2>1 DEF RunHook, FailHook, Answer, TypeOK
  <2>2. CASE t # u
    <3>1. Mine
      BY <1>8, <2>2 DEF RunHook, FailHook, Answer, TypeOK
    <3>. QED
      BY <1>1, <3>1
  <2>. QED
    BY <2>1, <2>2
<1>9. ASSUME UNCHANGED vars PROVE Goal
  <2>1. Mine
    BY <1>9 DEF vars
  <2>. QED
    BY <1>1, <2>1
<1>. HIDE DEF Goal
<1>10. Goal
  BY <1>2, <1>3, <1>4, <1>5, <1>6, <1>7, <1>8, <1>9, NextCases
<1>. QED
  BY <1>10 DEF Goal

LEMMA ReplaysStay == Spec => []ReplayInv
<1>1. Init => Replays
  BY DEF Init, Replays
<1>. QED
  BY <1>1, InitType, NextType, NextReplays, WritersExclusive, TypeCorrect, PTL DEF Spec, ReplayInv

(* Only a commit changes what the ledger sees, and it posts the document.  *)
LEMMA CommitPosts ==
  ASSUME TypeOK, TypeOK', WritersHoldTheirRows, Replays, NEW t \in Requests, Commit(t),
         NEW d \in Docs, d = doc[t]
  PROVE  Ledger!Post(t, d)
<1>. DEFINE page == Ledger!Pages(t, d, Now)[pos[t]]
<1>1. /\ Replayed(t) /\ pos[t] = Len(Steps(d)) /\ pos[t] \in 0 .. Len(Steps(d))
  BY DEF Replays, Commit, TypeOK
<1>2. Ledger!Book(t, d) = page
  BY <1>1, SameSteps DEF Ledger!Book, Now
<1>3. page \in Books /\ page.ok
  BY <1>1, PagesType, NowType DEF Replayed
<1>4. /\ \A r \in Rows : page.balance[r] = balance'[r]
      /\ \A r \in Rows : page.journal[r] = journal'[r]
  BY <1>1 DEF Replayed, Commit
<1>. HIDE DEF page
<1>5. balance' = page.balance /\ journal' = page.journal
  BY <1>3, <1>4 DEF Books, TypeOK
<1>6. /\ t \notin {u \in Requests : pc[u] \in Committed}
      /\ {u \in Requests : pc[u] \in Committed}' = {u \in Requests : pc[u] \in Committed} \cup {t}
  BY DEF Commit, Committed, TypeOK
<1>7. Ledger!WellFormed(d)
  BY <1>1 DEF Replayed, Ledger!WellFormed, WellFormed
<1>8. status' = IF Doc[d].kind \in Ledger!Guarded THEN [status EXCEPT ![d] = "applied"] ELSE status
  BY DEF Commit, Ledger!Guarded, Guarded
<1>. QED
  BY <1>2, <1>3, <1>5, <1>6, <1>7, <1>8 DEF Ledger!Post

LEMMA StepPosts ==
  ReplayInv /\ TypeOK' /\ [Next]_vars => [Ledger!LedgerNext]_(Ledger!ledgerVars)
<1>. SUFFICES ASSUME TypeOK, TypeOK', WritersHoldTheirRows, Replays, [Next]_vars
              PROVE  [Ledger!LedgerNext]_(Ledger!ledgerVars)
  BY DEF ReplayInv
<1>1. ASSUME NEW t \in Requests, Commit(t) PROVE Ledger!LedgerNext
  <2>1. PICK d \in Docs : d = doc[t]
    BY <1>1 DEF Commit, TypeOK
  <2>2. Ledger!Post(t, d)
    BY <1>1, <2>1, CommitPosts
  <2>. QED
    BY <2>2 DEF Ledger!LedgerNext
<1>2. ASSUME UNCHANGED <<balance, journal, status>>,
             \A t \in Requests : pc'[t] \in Committed <=> pc[t] \in Committed
      PROVE  UNCHANGED Ledger!ledgerVars
  BY <1>2 DEF Ledger!ledgerVars
<1>3. ASSUME NEW t \in Requests,
             \/ \E d \in Docs : Open(t, d) \/ Refuse(t, d)
             \/ LockRow(t) \/ SkipStep(t) \/ ApplyStep(t)
             \/ pc[t] = "open" /\ Rollback(t)
             \/ RunHook(t) \/ FailHook(t) \/ Answer(t)
      PROVE  UNCHANGED Ledger!ledgerVars
  <2>1. UNCHANGED <<balance, journal, status>>
    BY <1>3 DEF Open, Refuse, LockRow, SkipStep, ApplyStep, Rollback, RunHook, FailHook, Answer
  <2>2. \A u \in Requests : pc'[u] \in Committed <=> pc[u] \in Committed
    BY <1>3 DEF Open, Refuse, LockRow, SkipStep, ApplyStep, Rollback, RunHook, FailHook, Answer,
                TypeOK, Committed
  <2>. QED
    BY <1>2, <2>1, <2>2
<1>4. CASE UNCHANGED vars
  BY <1>2, <1>4 DEF vars
<1>. QED
  BY <1>1, <1>3, <1>4, NextCases

(* The service is the ledger: whatever the requests do at once and however *)
(* they fail, what is committed is documents posted one after the other,   *)
(* each whole and computed from the balances of its instant                *)
(* (transaction.atomic, get_locked_balance).                               *)
THEOREM ServiceImplementsLedger == Spec => ImplementsLedger
<1>1. Init => Ledger!LedgerInit
  BY DEF Init, Ledger!LedgerInit, Ledger!Rows, Rows, NoMoves, Committed
<1>2. Spec => [][Ledger!LedgerNext]_(Ledger!ledgerVars)
  BY ReplaysStay, TypeCorrect, StepPosts, PTL DEF Spec
<1>. QED
  BY <1>1, <1>2, PTL DEF Spec, ImplementsLedger, Ledger!LedgerSpec

-----------------------------------------------------------------------------
(* The counts of an inventory.                                             *)
LEMMA InventoryStep ==
  ASSUME NEW d \in Docs, Doc[d].kind = "inventory"
  PROVE  /\ \A i \in 1 .. Len(Steps(d)) : Steps(d)[i].counted
         /\ \A i, j \in 1 .. Len(Steps(d)) : Steps(d)[i].row = Steps(d)[j].row => i = j
<1>. DEFINE lines == Doc[d].lines
            n == Len(lines)
<1>1. n \in Nat /\ Steps(d) = InventorySteps(Doc[d])
  BY DEF Steps, StockAssumption, Document
<1>2. Len(Steps(d)) = n
  BY <1>1 DEF InventorySteps
<1>3. \A i \in 1 .. n : Steps(d)[i].counted /\ Steps(d)[i].row = <<Doc[d].store, lines[i].product>>
  BY <1>1 DEF InventorySteps, Move
<1>4. \A i, j \in 1 .. n : lines[i].product = lines[j].product => i = j
  BY CountedOnceAssumption
<1>. HIDE DEF n, lines
<1>. QED
  BY <1>2, <1>3, <1>4

(* What an inventory is through with holds its count, under its locks.     *)
Counted ==
  \A t \in Requests :
    pc[t] = "open" /\ Doc[doc[t]].kind = "inventory" =>
      \A n \in 1 .. pos[t] :
        view[t][Steps(doc[t])[n].row].quantity = Steps(doc[t])[n].amount

LEMMA NextCounted == ReplayInv /\ Counted /\ [Next]_vars => Counted'
<1>. SUFFICES ASSUME TypeOK, WritersHoldTheirRows, Replays, Counted, [Next]_vars,
                     NEW u \in Requests, pc'[u] = "open", Doc[doc'[u]].kind = "inventory",
                     NEW n \in 1 .. pos'[u]
              PROVE  view'[u][Steps(doc'[u])[n].row].quantity = Steps(doc'[u])[n].amount
  BY DEF ReplayInv, Counted
<1>. DEFINE Goal == view'[u][Steps(doc'[u])[n].row].quantity = Steps(doc'[u])[n].amount
<1>0. pc[u] = "open" => /\ doc[u] \in Docs /\ pos[u] <= Len(Steps(doc[u])) /\ pos[u] \in Nat
                        /\ Len(Steps(doc[u])) \in Nat
                        /\ \A k \in 1 .. pos[u] : lock[Steps(doc[u])[k].row] = u
                        /\ \A k \in 1 .. Len(Steps(doc[u])) : Steps(doc[u])[k] \in Step
  BY StepsType, ElementOfSeq DEF Replays, Replayed, TypeOK
<1>1. ASSUME pc[u] = "open", doc'[u] = doc[u], pos'[u] = pos[u],
             view'[u][Steps(doc[u])[n].row] = view[u][Steps(doc[u])[n].row]
      PROVE  Goal
  BY <1>1 DEF Counted
<1>2. ASSUME NEW t \in Requests, NEW d \in Docs, Open(t, d) \/ Refuse(t, d) PROVE Goal
  <2>1. CASE t = u
    <3>1. pos'[u] = 0
      BY <1>2, <2>1 DEF Open, Refuse, Replays
    <3>. QED
      BY <3>1
  <2>2. CASE t # u
    BY <1>1, <1>2, <2>2 DEF Open, Refuse, TypeOK
  <2>. QED
    BY <2>1, <2>2
<1>3. ASSUME NEW t \in Requests, LockRow(t) PROVE Goal
  <2>1. /\ Current(t).row \in Rows /\ lock[Current(t).row] = NoRequest
        /\ UNCHANGED <<pc, doc, pos>>
        /\ view' = [view EXCEPT ![t][Current(t).row] = balance[Current(t).row]]
    BY <1>3, CurrentType DEF LockRow
  <2>2. Steps(doc[u])[n].row # Current(t).row /\ Steps(doc[u])[n].row \in Rows
    BY <1>0, <2>1 DEF NobodyAssumption, Step
  <2>3. view'[u][Steps(doc[u])[n].row] = view[u][Steps(doc[u])[n].row]
    BY <2>1, <2>2 DEF TypeOK
  <2>. QED
    BY <1>1, <2>1, <2>3
<1>4. ASSUME NEW t \in Requests, SkipStep(t) \/ ApplyStep(t) PROVE Goal
  <2>1. CASE t # u
    BY <1>1, <1>4, <2>1 DEF SkipStep, ApplyStep, TypeOK
  <2>2. CASE t = u
    <3>. DEFINE step == Current(u)
                bal == view[u][step.row]
    <3>1. /\ pc[u] = "open" /\ doc' = doc /\ pos'[u] = pos[u] + 1
          /\ step = Steps(doc[u])[pos[u] + 1] /\ step \in Step /\ step.row \in Rows
          /\ pos[u] < Len(Steps(doc[u])) /\ bal \in Balance
      BY <1>4, <2>2, CurrentType DEF SkipStep, ApplyStep, Pending, Current, TypeOK
    <3>2. /\ \A i \in 1 .. Len(Steps(doc[u])) : Steps(doc[u])[i].counted
          /\ \A i, j \in 1 .. Len(Steps(doc[u])) :
               Steps(doc[u])[i].row = Steps(doc[u])[j].row => i = j
      BY <1>0, <3>1, InventoryStep
    <3>3. view'[u][step.row].quantity = step.amount
      <4>1. step.counted /\ step.amount \in Int /\ bal.quantity \in Int
        BY <1>0, <3>1, <3>2 DEF Step, Balance
      <4>2. CASE SkipStep(u)
        <5>1. view' = view /\ Skipped(step, bal.quantity)
          BY <4>2 DEF SkipStep
        <5>. QED
          BY <4>1, <5>1 DEF Skipped, Delta
      <4>3. CASE ApplyStep(u)
        <5>1. view'[u][step.row] = Moved(step, bal)
          BY <3>1, <4>3 DEF ApplyStep, TypeOK
        <5>. HIDE DEF bal, step
        <5>. QED
          BY <4>1, <5>1 DEF Moved, Delta
      <4>. QED
        BY <1>4, <2>2, <4>2, <4>3
    <3>4. \A r \in Rows \ {step.row} : view'[u][r] = view[u][r]
      <4>1. CASE SkipStep(u)
        BY <4>1 DEF SkipStep
      <4>2. CASE ApplyStep(u)
        <5>1. view' = [view EXCEPT ![u][step.row] = Moved(step, bal)]
          BY <4>2 DEF ApplyStep
        <5>. HIDE DEF step, bal
        <5>. QED
          BY <3>1, <5>1 DEF TypeOK
      <4>. QED
        BY <1>4, <2>2, <4>1, <4>2
    <3>5. CASE n = pos[u] + 1
      BY <3>1, <3>3, <3>5
    <3>6. CASE n # pos[u] + 1
      <4>1. n \in 1 .. pos[u] /\ n \in 1 .. Len(Steps(doc[u])) /\ pos[u] + 1 \in 1 .. Len(Steps(doc[u]))
        BY <1>0, <3>1, <3>6
      <4>2. Steps(doc[u])[n].row # step.row /\ Steps(doc[u])[n].row \in Rows
        BY <1>0, <3>1, <3>2, <3>6, <4>1 DEF Step
      <4>3. view[u][Steps(doc[u])[n].row].quantity = Steps(doc[u])[n].amount
        BY <3>1, <4>1 DEF Counted
      <4>. QED
        BY <3>1, <3>4, <4>2, <4>3
    <3>. QED
      BY <3>5, <3>6
  <2>. QED
    BY <2>1, <2>2
<1>5. ASSUME NEW t \in Requests, pc[t] = "open" /\ Rollback(t) PROVE Goal
  BY <1>1, <1>5 DEF Rollback, TypeOK
<1>6. ASSUME NEW t \in Requests, Commit(t) PROVE Goal
  BY <1>1, <1>6 DEF Commit, TypeOK
<1>7. ASSUME NEW t \in Requests, RunHook(t) \/ FailHook(t) \/ Answer(t) PROVE Goal
  BY <1>1, <1>7 DEF RunHook, FailHook, Answer, TypeOK
<1>8. ASSUME UNCHANGED vars PROVE Goal
  BY <1>1, <1>8 DEF vars
<1>. HIDE DEF Goal
<1>9. Goal
  BY <1>2, <1>3, <1>4, <1>5, <1>6, <1>7, <1>8, NextCases
<1>. QED
  BY <1>9 DEF Goal

(* An inventory that commits leaves every row it counts at its count,      *)
(* whatever moved while it was counted (validate_inventory_session; an     *)
(* article is counted once, unique_inventory_product).                     *)
THEOREM InventoryIsTheCount == Spec => InventorySetsTheCount
<1>1. Init => Counted
  BY DEF Init, Counted
<1>2. ReplayInv /\ Counted /\ [Next]_vars =>
        [\A t \in Requests :
           pc[t] = "open" /\ pc'[t] = "committed" /\ Doc[doc[t]].kind = "inventory" =>
             \A i \in 1 .. Len(Steps(doc[t])) :
               balance'[Steps(doc[t])[i].row].quantity = Steps(doc[t])[i].amount]_vars
  <2>. SUFFICES ASSUME TypeOK, WritersHoldTheirRows, Replays, Counted, [Next]_vars,
                       NEW t \in Requests, pc[t] = "open", pc'[t] = "committed",
                       Doc[doc[t]].kind = "inventory", NEW i \in 1 .. Len(Steps(doc[t]))
                PROVE  balance'[Steps(doc[t])[i].row].quantity = Steps(doc[t])[i].amount
    BY DEF ReplayInv
  <2>1. Commit(t)
    <3>1. ~UNCHANGED vars
      BY DEF vars
    <3>2. \A u \in Requests, d \in Docs : ~Open(u, d) /\ ~Refuse(u, d)
      BY DEF Open, Refuse, TypeOK
    <3>3. \A u \in Requests : ~LockRow(u) /\ ~SkipStep(u) /\ ~ApplyStep(u)
      BY DEF LockRow, SkipStep, ApplyStep
    <3>4. \A u \in Requests : ~Rollback(u) /\ ~RunHook(u) /\ ~FailHook(u) /\ ~Answer(u)
      BY DEF Rollback, RunHook, FailHook, Answer, TypeOK
    <3>5. \A u \in Requests : Commit(u) => u = t
      BY DEF Commit, TypeOK
    <3>. QED
      BY <3>1, <3>2, <3>3, <3>4, <3>5, NextCases
  <2>2. /\ pos[t] = Len(Steps(doc[t])) /\ lock[Steps(doc[t])[i].row] = t
        /\ view[t][Steps(doc[t])[i].row].quantity = Steps(doc[t])[i].amount
    BY <2>1 DEF Commit, Replays, Replayed, Counted
  <2>3. Steps(doc[t])[i].row \in Rows
    <3>1. Steps(doc[t]) \in Seq(Step)
      BY StepsType DEF TypeOK
    <3>2. Steps(doc[t])[i] \in Step
      BY <3>1, ElementOfSeq
    <3>. QED
      BY <3>2 DEF Step
  <2>. QED
    BY <2>1, <2>2, <2>3 DEF Commit
<1>. QED
  BY <1>1, <1>2, ReplaysStay, NextCounted, PTL DEF Spec, InventorySetsTheCount

-----------------------------------------------------------------------------
(* The low-stock checks.                                                   *)
Named(t, r) == \E k \in 1 .. Len(hooks[t]) : hooks[t][k] = r

(* A transaction signs its movements and names every row it moved to its   *)
(* hooks; a hook leaves the list when its check is sent.                   *)
ChecksPromised ==
  \A t \in Requests, r \in Rows :
    /\ \A i \in 1 .. Len(log[t][r]) : log[t][r][i].by = t
    /\ pc[t] \in {"idle", "open", "failed"} => ~Recorded(t, r)
    /\ pc[t] = "open" => (log[t][r] # << >> <=> Named(t, r))
    /\ pc[t] = "committed" /\ Recorded(t, r) => r \in queued \/ Named(t, r)
    /\ pc[t] = "done" /\ Recorded(t, r) => r \in queued
    /\ Named(t, r) => \/ pc[t] = "open"
                      \/ pc[t] = "committed" /\ journal[r] # << >>

ChecksInv ==
  TypeOK /\ WritersHoldTheirRows /\ ChecksPromised /\ \A r \in queued : journal[r] # << >>

(* What a list of rows names once one is appended, and once its head left. *)
LEMMA NamedAppend ==
  \A s \in Seq(Rows), x \in Rows, y \in Rows :
    (\E k \in 1 .. Len(Append(s, x)) : Append(s, x)[k] = y) <=>
      (\E k \in 1 .. Len(s) : s[k] = y) \/ y = x
<1>. SUFFICES ASSUME NEW s \in Seq(Rows), NEW x \in Rows, NEW y \in Rows
              PROVE  (\E k \in 1 .. Len(Append(s, x)) : Append(s, x)[k] = y) <=>
                       (\E k \in 1 .. Len(s) : s[k] = y) \/ y = x
  OBVIOUS
<1>. DEFINE more == Append(s, x)
<1>1. /\ Len(more) = Len(s) + 1 /\ more[Len(s) + 1] = x /\ Len(s) \in Nat
      /\ \A k \in 1 .. Len(s) : more[k] = s[k]
  BY AppendProperties, LenProperties
<1>. HIDE DEF more
<1>2. (\E k \in 1 .. Len(more) : more[k] = y) <=> (\E k \in 1 .. Len(s) : s[k] = y) \/ y = x
  <2>1. ASSUME NEW k \in 1 .. Len(more), more[k] = y
        PROVE  (\E j \in 1 .. Len(s) : s[j] = y) \/ y = x
    <3>1. k = Len(s) + 1 \/ k \in 1 .. Len(s)
      BY <1>1
    <3>. QED
      BY <1>1, <2>1, <3>1
  <2>2. ASSUME NEW k \in 1 .. Len(s), s[k] = y PROVE \E j \in 1 .. Len(more) : more[j] = y
    BY <1>1, <2>2
  <2>3. Len(s) + 1 \in 1 .. Len(more)
    BY <1>1
  <2>. QED
    BY <1>1, <2>1, <2>2, <2>3
<1>. QED
  BY <1>2 DEF more

LEMMA NamedTail ==
  \A s \in Seq(Rows), y \in Rows : s # << >> =>
    ((\E k \in 1 .. Len(s) : s[k] = y) <=>
       (\E k \in 1 .. Len(Tail(s)) : Tail(s)[k] = y) \/ y = Head(s))
<1>. SUFFICES ASSUME NEW s \in Seq(Rows), NEW y \in Rows, s # << >>
              PROVE  (\E k \in 1 .. Len(s) : s[k] = y) <=>
                       (\E k \in 1 .. Len(Tail(s)) : Tail(s)[k] = y) \/ y = Head(s)
  OBVIOUS
<1>. DEFINE rest == Tail(s)
<1>1. /\ Len(rest) = Len(s) - 1 /\ Len(s) \in Nat \ {0} /\ Head(s) = s[1]
      /\ \A k \in 1 .. Len(rest) : rest[k] = s[k + 1]
  BY HeadTailProperties, EmptySeq
<1>. HIDE DEF rest
<1>2. ASSUME NEW k \in 1 .. Len(s), s[k] = y, k # 1 PROVE \E j \in 1 .. Len(rest) : rest[j] = y
  <2>1. k - 1 \in 1 .. Len(rest) /\ (k - 1) + 1 = k
    BY <1>1, <1>2
  <2>. QED
    BY <1>1, <1>2, <2>1
<1>3. ASSUME NEW k \in 1 .. Len(rest), rest[k] = y PROVE \E j \in 1 .. Len(s) : s[j] = y
  <2>1. k + 1 \in 1 .. Len(s)
    BY <1>1
  <2>. QED
    BY <1>1, <1>3, <2>1
<1>4. (\E k \in 1 .. Len(s) : s[k] = y) <=> (\E k \in 1 .. Len(rest) : rest[k] = y) \/ y = Head(s)
  <2>1. 1 \in 1 .. Len(s)
    BY <1>1
  <2>. QED
    BY <1>1, <1>2, <1>3, <2>1
<1>. QED
  BY <1>4 DEF rest

(* A list every movement of which t signed, once t signs one more.         *)
LEMMA SignedAppend ==
  \A s \in Seq(Movement), m \in Movement, t \in Requests :
    m.by = t /\ (\A i \in 1 .. Len(s) : s[i].by = t) =>
      /\ \A i \in 1 .. Len(Append(s, m)) : Append(s, m)[i].by = t
      /\ Append(s, m) # << >>
<1>. SUFFICES ASSUME NEW s \in Seq(Movement), NEW m \in Movement, NEW t \in Requests,
                     m.by = t, \A i \in 1 .. Len(s) : s[i].by = t
              PROVE  /\ \A i \in 1 .. Len(Append(s, m)) : Append(s, m)[i].by = t
                     /\ Append(s, m) # << >>
  OBVIOUS
<1>. DEFINE more == Append(s, m)
<1>1. /\ Len(more) = Len(s) + 1 /\ more[Len(s) + 1] = m /\ Len(s) \in Nat
      /\ \A k \in 1 .. Len(s) : more[k] = s[k]
      /\ more # << >>
  BY AppendProperties, LenProperties
<1>. HIDE DEF more
<1>2. \A i \in 1 .. Len(more) : more[i].by = t
  BY <1>1
<1>. QED
  BY <1>1, <1>2 DEF more

(* Whether a request recorded a movement of a row, once others are added.  *)
LEMMA RecordedConcat ==
  \A s1, s2 \in Seq(Movement), t \in Requests :
    (\E i \in 1 .. Len(s1 \o s2) : (s1 \o s2)[i].by = t) <=>
      \/ \E i \in 1 .. Len(s1) : s1[i].by = t
      \/ \E i \in 1 .. Len(s2) : s2[i].by = t
<1>. SUFFICES ASSUME NEW s1 \in Seq(Movement), NEW s2 \in Seq(Movement), NEW t \in Requests
              PROVE  (\E i \in 1 .. Len(s1 \o s2) : (s1 \o s2)[i].by = t) <=>
                       \/ \E i \in 1 .. Len(s1) : s1[i].by = t
                       \/ \E i \in 1 .. Len(s2) : s2[i].by = t
  OBVIOUS
<1>. DEFINE all == s1 \o s2
<1>1. /\ Len(s1) \in Nat /\ Len(s2) \in Nat /\ Len(all) = Len(s1) + Len(s2)
      /\ \A i \in 1 .. Len(s1) + Len(s2) :
           all[i] = IF i <= Len(s1) THEN s1[i] ELSE s2[i - Len(s1)]
  BY ConcatProperties
<1>. HIDE DEF all
<1>2. ASSUME NEW i \in 1 .. Len(all), all[i].by = t
      PROVE  \/ \E j \in 1 .. Len(s1) : s1[j].by = t
             \/ \E j \in 1 .. Len(s2) : s2[j].by = t
  <2>1. CASE i <= Len(s1)
    BY <1>1, <1>2, <2>1
  <2>2. CASE ~(i <= Len(s1))
    <3>1. i - Len(s1) \in 1 .. Len(s2) /\ all[i] = s2[i - Len(s1)]
      BY <1>1, <2>2
    <3>. QED
      BY <1>2, <3>1
  <2>. QED
    BY <2>1, <2>2
<1>3. ASSUME NEW i \in 1 .. Len(s1), s1[i].by = t PROVE \E j \in 1 .. Len(all) : all[j].by = t
  BY <1>1, <1>3
<1>4. ASSUME NEW i \in 1 .. Len(s2), s2[i].by = t PROVE \E j \in 1 .. Len(all) : all[j].by = t
  <2>1. /\ Len(s1) + i \in 1 .. Len(all) /\ ~(Len(s1) + i <= Len(s1))
        /\ (Len(s1) + i) - Len(s1) = i
    BY <1>1
  <2>2. all[Len(s1) + i] = s2[i]
    BY <1>1, <2>1
  <2>. QED
    BY <1>4, <2>1, <2>2
<1>. QED
  BY <1>2, <1>3, <1>4 DEF all

LEMMA NextPromised == ChecksInv /\ TypeOK' /\ [Next]_vars => ChecksPromised'
<1>. SUFFICES ASSUME TypeOK, TypeOK', WritersHoldTheirRows, ChecksPromised, [Next]_vars,
                     NEW u \in Requests, NEW r \in Rows
              PROVE  /\ \A i \in 1 .. Len(log'[u][r]) : log'[u][r][i].by = u
                     /\ pc'[u] \in {"idle", "open", "failed"} => ~Recorded(u, r)'
                     /\ pc'[u] = "open" => (log'[u][r] # << >> <=> Named(u, r)')
                     /\ pc'[u] = "committed" /\ Recorded(u, r)' => r \in queued' \/ Named(u, r)'
                     /\ pc'[u] = "done" /\ Recorded(u, r)' => r \in queued'
                     /\ Named(u, r)' => \/ pc'[u] = "open"
                                        \/ pc'[u] = "committed" /\ journal'[r] # << >>
  BY DEF ChecksInv, ChecksPromised
<1>. DEFINE Goal ==
              /\ \A i \in 1 .. Len(log'[u][r]) : log'[u][r][i].by = u
              /\ pc'[u] \in {"idle", "open", "failed"} => ~Recorded(u, r)'
              /\ pc'[u] = "open" => (log'[u][r] # << >> <=> Named(u, r)')
              /\ pc'[u] = "committed" /\ Recorded(u, r)' => r \in queued' \/ Named(u, r)'
              /\ pc'[u] = "done" /\ Recorded(u, r)' => r \in queued'
              /\ Named(u, r)' => \/ pc'[u] = "open"
                                 \/ pc'[u] = "committed" /\ journal'[r] # << >>
            Before ==
              /\ \A i \in 1 .. Len(log[u][r]) : log[u][r][i].by = u
              /\ pc[u] \in {"idle", "open", "failed"} => ~Recorded(u, r)
              /\ pc[u] = "open" => (log[u][r] # << >> <=> Named(u, r))
              /\ pc[u] = "committed" /\ Recorded(u, r) => r \in queued \/ Named(u, r)
              /\ pc[u] = "done" /\ Recorded(u, r) => r \in queued
              /\ Named(u, r) => \/ pc[u] = "open"
                                \/ pc[u] = "committed" /\ journal[r] # << >>
<1>0. Before
  BY DEF ChecksPromised
(* A step that leaves what the clauses speak of.                           *)
<1>1. ASSUME log'[u][r] = log[u][r], pc'[u] = pc[u], hooks'[u] = hooks[u],
             Recorded(u, r)' <=> Recorded(u, r), queued \subseteq queued',
             journal[r] # << >> => journal'[r] # << >>
      PROVE  Goal
  <2>1. Named(u, r)' <=> Named(u, r)
    BY <1>1 DEF Named
  <2>. QED
    BY <1>0, <1>1, <2>1
<1>2. ASSUME journal' = journal PROVE Recorded(u, r)' <=> Recorded(u, r)
  BY <1>2 DEF Recorded
<1>3. ASSUME NEW t \in Requests, NEW d \in Docs, Open(t, d) \/ Refuse(t, d) PROVE Goal
  <2>1. UNCHANGED <<journal, log, hooks, queued>> /\ (t # u => pc'[u] = pc[u])
    BY <1>3 DEF Open, Refuse, TypeOK
  <2>2. CASE t = u
    <3>1. pc[u] = "idle" /\ pc'[u] \in {"open", "failed"}
      BY <1>3, <2>2 DEF Open, Refuse, TypeOK
    <3>2. log[u][r] = << >>
      BY <3>1 DEF WritersHoldTheirRows
    <3>3. (Named(u, r)' <=> Named(u, r)) /\ ~Named(u, r)
      BY <1>0, <2>1, <3>1 DEF Named
    <3>. QED
      BY <1>0, <1>2, <2>1, <3>1, <3>2, <3>3
  <2>3. CASE t # u
    BY <1>1, <1>2, <2>1, <2>3
  <2>. QED
    BY <2>2, <2>3
<1>4. ASSUME NEW t \in Requests, LockRow(t) \/ SkipStep(t) PROVE Goal
  BY <1>1, <1>2, <1>4 DEF LockRow, SkipStep
<1>5. ASSUME NEW t \in Requests, ApplyStep(t) PROVE Goal
  <2>. DEFINE step == Current(t)
              row == step.row
              m == MovementOf(step, view[t][row], t)
  <2>1. /\ step \in Step /\ row \in Rows /\ m \in Movement /\ m.by = t
        /\ UNCHANGED <<journal, pc, queued>> /\ pc[t] = "open"
        /\ log' = [log EXCEPT ![t][row] = Append(@, m)]
        /\ hooks' = [hooks EXCEPT ![t] = Append(@, row)]
    BY <1>5, CurrentType, MovedType DEF ApplyStep, Pending, MovementOf
  <2>. HIDE DEF step, row, m
  <2>2. CASE t # u
    BY <1>1, <1>2, <2>1, <2>2 DEF TypeOK
  <2>3. CASE t = u
    <3>1. hooks'[u] = Append(hooks[u], row) /\ hooks[u] \in Seq(Rows)
      BY <2>1, <2>3 DEF TypeOK
    <3>2. Named(u, r)' <=> (Named(u, r) \/ r = row)
      BY <2>1, <3>1, NamedAppend DEF Named
    <3>3. CASE r = row
      <4>1. log'[u][r] = Append(log[u][r], m) /\ log[u][r] \in Seq(Movement)
        BY <2>1, <2>3, <3>3 DEF TypeOK
      <4>2. (\A i \in 1 .. Len(log'[u][r]) : log'[u][r][i].by = u) /\ log'[u][r] # << >>
        BY <1>0, <2>1, <2>3, <4>1, SignedAppend
      <4>. QED
        BY <1>0, <1>2, <2>1, <2>3, <3>2, <3>3, <4>2
    <3>4. CASE r # row
      <4>1. log'[u][r] = log[u][r]
        BY <2>1, <2>3, <3>4 DEF TypeOK
      <4>. QED
        BY <1>0, <1>2, <2>1, <2>3, <3>2, <3>4, <4>1
    <3>. QED
      BY <3>3, <3>4
  <2>. QED
    BY <2>2, <2>3
<1>6. ASSUME NEW t \in Requests, pc[t] = "open" /\ Rollback(t) PROVE Goal
  <2>1. CASE t # u
    BY <1>1, <1>2, <1>6, <2>1 DEF Rollback, TypeOK
  <2>2. CASE t = u
    <3>1. /\ pc'[u] = "failed" /\ hooks'[u] = << >> /\ log'[u][r] = << >> /\ journal' = journal
          /\ pc[u] = "open"
      BY <1>6, <2>2 DEF Rollback, TypeOK, NoMoves
    <3>2. ~Named(u, r)'
      BY <3>1 DEF Named
    <3>. QED
      BY <1>0, <1>2, <3>1, <3>2
  <2>. QED
    BY <2>1, <2>2
<1>7. ASSUME NEW t \in Requests, Commit(t) PROVE Goal
  <2>1. /\ journal'[r] = journal[r] \o log[t][r] /\ UNCHANGED <<hooks, queued>> /\ pc[t] = "open"
        /\ pc'[t] = "committed" /\ \A v \in Requests \ {t} : pc'[v] = pc[v]
        /\ log' = [log EXCEPT ![t] = NoMoves]
    BY <1>7 DEF Commit, TypeOK
  <2>2. journal[r] \in Seq(Movement) /\ log[t][r] \in Seq(Movement)
    BY DEF TypeOK
  <2>3. Recorded(u, r)' <=> \/ Recorded(u, r)
                            \/ \E i \in 1 .. Len(log[t][r]) : log[t][r][i].by = u
    <3>. DEFINE old == journal[r]
                new == log[t][r]
    <3>1. old \in Seq(Movement) /\ new \in Seq(Movement) /\ journal'[r] = old \o new
      BY <2>1, <2>2
    <3>2. Recorded(u, r)' <=> \E i \in 1 .. Len(journal'[r]) : journal'[r][i].by = u
      BY DEF Recorded
    <3>3. Recorded(u, r) <=> \E i \in 1 .. Len(old) : old[i].by = u
      BY DEF Recorded
    <3>. HIDE DEF old
    <3>4. (\E i \in 1 .. Len(old \o new) : (old \o new)[i].by = u) <=>
            \/ \E i \in 1 .. Len(old) : old[i].by = u
            \/ \E i \in 1 .. Len(new) : new[i].by = u
      <4>. HIDE DEF new
      <4>. QED
        BY <3>1, RecordedConcat
    <3>. QED
      BY <3>1, <3>2, <3>3, <3>4
  <2>4. journal'[r] = << >> <=> journal[r] = << >> /\ log[t][r] = << >>
    BY <2>1, <2>2, ConcatProperties, EmptySeq
  <2>5. \A i \in 1 .. Len(log[t][r]) : log[t][r][i].by = t
    BY DEF ChecksPromised
  <2>6. Named(u, r)' <=> Named(u, r)
    BY <2>1 DEF Named
  <2>7. CASE t # u
    <3>1. log'[u][r] = log[u][r] /\ (Recorded(u, r)' <=> Recorded(u, r)) /\ pc'[u] = pc[u]
      BY <2>1, <2>3, <2>5, <2>7 DEF TypeOK
    <3>. QED
      BY <1>1, <2>1, <2>4, <3>1
  <2>8. CASE t = u
    <3>1. log'[u][r] = << >> /\ pc'[u] = "committed"
      BY <2>1, <2>8 DEF TypeOK, NoMoves
    <3>2. Recorded(u, r)' => log[u][r] # << >>
      BY <1>0, <2>1, <2>3, <2>8
    <3>. QED
      BY <1>0, <2>1, <2>4, <2>6, <2>8, <3>1, <3>2
  <2>. QED
    BY <2>7, <2>8
<1>8. ASSUME NEW t \in Requests, RunHook(t) PROVE Goal
  <2>1. /\ UNCHANGED <<journal, log, pc>> /\ pc[t] = "committed" /\ queued \subseteq queued'
        /\ hooks[t] # << >> /\ Head(hooks[t]) \in queued'
        /\ hooks' = [hooks EXCEPT ![t] = Tail(@)]
    BY <1>8 DEF RunHook
  <2>2. CASE t # u
    BY <1>1, <1>2, <2>1, <2>2 DEF TypeOK
  <2>3. CASE t = u
    <3>1. hooks'[u] = Tail(hooks[u]) /\ hooks[u] \in Seq(Rows)
      BY <2>1, <2>3 DEF TypeOK
    <3>2. Named(u, r) <=> Named(u, r)' \/ r = Head(hooks[u])
      <4>. DEFINE old == hooks[u]
      <4>1. old \in Seq(Rows) /\ old # << >> /\ hooks'[u] = Tail(old)
        BY <2>1, <2>3, <3>1
      <4>2. Named(u, r)' <=> \E k \in 1 .. Len(hooks'[u]) : hooks'[u][k] = r
        BY DEF Named
      <4>3. Named(u, r) <=> \E k \in 1 .. Len(old) : old[k] = r
        BY DEF Named
      <4>4. r = Head(hooks[u]) <=> r = Head(old)
        OBVIOUS
      <4>. HIDE DEF old
      <4>. QED
        BY <4>1, <4>2, <4>3, <4>4, NamedTail
    <3>. QED
      BY <1>0, <1>2, <2>1, <2>3, <3>2
  <2>. QED
    BY <2>2, <2>3
<1>9. ASSUME NEW t \in Requests, FailHook(t) \/ Answer(t) PROVE Goal
  <2>1. UNCHANGED <<journal, log, queued>>
    BY <1>9 DEF FailHook, Answer
  <2>2. CASE t # u
    BY <1>1, <1>2, <1>9, <2>1, <2>2 DEF FailHook, Answer, TypeOK
  <2>3. CASE t = u
    <3>1. pc[u] = "committed" /\ hooks'[u] = << >> /\ pc'[u] \in {"broken", "done"}
      BY <1>9, <2>3 DEF FailHook, Answer, TypeOK
    <3>2. pc'[u] = "done" => hooks[u] = << >>
      BY <1>9, <2>3 DEF FailHook, Answer, TypeOK
    <3>3. ~Named(u, r)' /\ (pc'[u] = "done" => ~Named(u, r))
      BY <3>1, <3>2 DEF Named
    <3>. QED
      BY <1>0, <1>2, <2>1, <3>1, <3>3
  <2>. QED
    BY <2>2, <2>3
<1>10. ASSUME UNCHANGED vars PROVE Goal
  BY <1>1, <1>2, <1>10 DEF vars
<1>. HIDE DEF Goal
<1>11. Goal
  BY <1>3, <1>4, <1>5, <1>6, <1>7, <1>8, <1>9, <1>10, NextCases
<1>. QED
  BY <1>11 DEF Goal

(* A check is sent for a row its request moved, and no movement is erased. *)
LEMMA NextQueued == ChecksInv /\ [Next]_vars => \A r \in queued' : journal'[r] # << >>
<1>. SUFFICES ASSUME ChecksInv, [Next]_vars, NEW r \in Rows, r \in queued'
              PROVE  journal'[r] # << >>
  <2>1. ChecksInv /\ [Next]_vars => TypeOK'
    BY NextType DEF ChecksInv
  <2>. QED
    BY <2>1 DEF TypeOK
<1>. USE DEF ChecksInv
<1>1. CASE queued' = queued /\ journal' = journal
  BY <1>1
<1>2. ASSUME NEW t \in Requests, Commit(t) PROVE journal'[r] # << >>
  <2>1. journal'[r] = journal[r] \o log[t][r] /\ journal[r] # << >>
    BY <1>2 DEF Commit
  <2>2. journal[r] \in Seq(Movement) /\ log[t][r] \in Seq(Movement)
    BY DEF TypeOK
  <2>. QED
    BY <2>1, <2>2, ConcatProperties, EmptySeq
<1>3. ASSUME NEW t \in Requests, RunHook(t) PROVE journal'[r] # << >>
  <2>1. /\ journal' = journal /\ pc[t] = "committed" /\ hooks[t] # << >>
        /\ r \in queued \/ r = Head(hooks[t])
        /\ hooks[t] \in Seq(Rows)
    BY <1>3 DEF RunHook, TypeOK
  <2>2. r = Head(hooks[t]) => Named(t, r)
    BY <2>1, NamedTail DEF Named
  <2>3. Named(t, r) => journal[r] # << >>
    BY <2>1 DEF ChecksPromised
  <2>. QED
    BY <2>1, <2>2, <2>3
<1>4. ASSUME NEW t \in Requests, NEW d \in Docs, Open(t, d) \/ Refuse(t, d)
      PROVE  queued' = queued /\ journal' = journal
  BY <1>4 DEF Open, Refuse
<1>5. ASSUME NEW t \in Requests, LockRow(t) \/ SkipStep(t) \/ ApplyStep(t)
      PROVE  queued' = queued /\ journal' = journal
  BY <1>5 DEF LockRow, SkipStep, ApplyStep
<1>6. ASSUME NEW t \in Requests, Rollback(t) \/ FailHook(t) \/ Answer(t)
      PROVE  queued' = queued /\ journal' = journal
  BY <1>6 DEF Rollback, FailHook, Answer
<1>7. UNCHANGED vars => queued' = queued /\ journal' = journal
  BY DEF vars
<1>. QED
  BY <1>1, <1>2, <1>3, <1>4, <1>5, <1>6, <1>7, NextCases

(* Every state of the service: a low-stock check is sent only for a row    *)
(* that committed movements changed, and a request answered without error  *)
(* had one sent for every row it changed, because its hooks name exactly   *)
(* the rows its transaction moved (_notify_low_stock, on_commit).          *)
THEOREM ChecksFollow == Spec => []ChecksFollowCommits
<1>1. Init => ChecksInv
  <2>1. ASSUME Init PROVE ChecksPromised /\ WritersHoldTheirRows /\ \A r \in queued : journal[r] # << >>
    BY <2>1 DEF Init, ChecksPromised, WritersHoldTheirRows, NoMoves, Named, Recorded
  <2>. QED
    BY <2>1, InitType DEF ChecksInv
<1>2. ChecksInv /\ [Next]_vars => ChecksInv'
  BY NextType, NextWriters, NextPromised, NextQueued DEF ChecksInv
<1>3. ChecksInv => ChecksFollowCommits
  BY DEF ChecksInv, ChecksPromised, ChecksFollowCommits
<1>. QED
  BY <1>1, <1>2, <1>3, PTL DEF Spec
=============================================================================
