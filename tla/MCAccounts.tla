------------------------------ MODULE MCAccounts ------------------------------
(* Constants for Accounts: two administrators, one of whom may create      *)
(* promotions and had a store, and a third account to come; forms that     *)
(* send one store, and two of which the second is refused.                 *)
EXTENDS Accounts, TLC

CONSTANTS t1, t2

MCSlots == Permutations({t1, t2})

Chief(promotion) ==
  [k \in Rights |-> k \in {"active", "staff", "till"} \/ (k = "promotion" /\ promotion)]
MCOpening ==
  <<[email |-> "ann", may |-> Chief(FALSE), gone |-> FALSE],
    [email |-> "bob", may |-> Chief(TRUE), gone |-> FALSE]>>
MCEnrolment ==
  <<[user |-> 2, store |-> 1, role |-> "seller", active |-> FALSE, gone |-> FALSE]>>

MCFlags ==
  {[k \in {"staff", "active"} |-> FALSE], [k \in {"staff", "promotion"} |-> TRUE],
   [k \in {"pointage"} |-> TRUE]}

Item(s, r) == [store |-> s, role |-> r]
MCLists ==
  {NoStores, <<Item(2, "chief")>>, <<Item(1, "seller"), Item(2, NoRole)>>}
=============================================================================
