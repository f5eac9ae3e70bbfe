----------------------------- MODULE StockLedger ----------------------------
(***************************************************************************)
(* What stock/services.py promises: a document is posted in one step.      *)
(* All its movements are computed from the balances stored at that         *)
(* instant, every one of them is accepted, and balances, movements and     *)
(* the document's status change together.  No locks, no transactions, no   *)
(* private copies: those are how StockService keeps this promise.          *)
(***************************************************************************)
EXTENDS StockRules

VARIABLES
  balance,   \* Rows -> Balance
  journal,   \* Rows -> Seq(Movement), in commit order
  status,    \* Docs -> {"pending", "applied"}
  posted     \* the requests that have posted their document

ledgerVars == <<balance, journal, status, posted>>

LedgerInit ==
  /\ balance = Opening
  /\ journal = [r \in Rows |-> << >>]
  /\ status = [d \in Docs |-> "pending"]
  /\ posted = {}

(* One more step of the document, after the steps already in book.         *)
Entered(t, book, step) ==
  LET bal == book.balance[step.row]
  IN IF ~book.ok \/ Skipped(step, bal.quantity) THEN book
     ELSE IF ~Accepted(step, bal.quantity) THEN [book EXCEPT !.ok = FALSE]
     ELSE [balance |-> [book.balance EXCEPT ![step.row] = Moved(step, bal)],
           journal |-> [book.journal EXCEPT
                          ![step.row] = Append(@, MovementOf(step, bal, t))],
           ok |-> TRUE]

(* The books after each of the steps of d, entered by t from book.         *)
Pages(t, d, book) ==
  LET page[n \in 0 .. Len(Steps(d))] ==
        IF n = 0 THEN book ELSE Entered(t, page[n - 1], Steps(d)[n])
  IN page

(* The books once all the steps of d are entered by t.                     *)
Book(t, d) ==
  Pages(t, d, [balance |-> balance, journal |-> journal, ok |-> TRUE])[Len(Steps(d))]

Post(t, d) ==
  LET book == Book(t, d)
  IN /\ t \notin posted
     /\ posted' = posted \cup {t}
     /\ WellFormed(d)
     /\ book.ok
     /\ balance' = book.balance
     /\ journal' = book.journal
     /\ status' = IF Doc[d].kind \in Guarded
                  THEN [status EXCEPT ![d] = "applied"] ELSE status

LedgerNext == \E t \in Requests, d \in Docs : Post(t, d)

LedgerSpec == LedgerInit /\ [][LedgerNext]_ledgerVars
=============================================================================
