------------------------------- MODULE MCReports -------------------------------
(* Constants for Reports: an administrator, and a seller of two stores who *)
(* manages one of them; at first a row of each table, and a second balance *)
(* to make more rows low than a dashboard lists.                           *)
EXTENDS Reports

CONSTANTS t1, t2

MCSlots == Permutations({t1, t2})

Entry(kind, s, day, amount, counted) ==
  [kind |-> kind, store |-> s, day |-> day, amount |-> amount, counted |-> counted]
MCOpening ==
  <<Entry("expense", "shop", 0, 1, TRUE), Entry("balance", "shop", 0, 2, TRUE),
    Entry("balance", "annex", 0, 1, TRUE), Entry("purchase", "annex", 1, 3, FALSE),
    Entry("sale", "shop", 1, 4, TRUE)>>

MCRights ==
  [u \in {"chief", "seller"} |->
     IF u = "chief" THEN [sees |-> {}, manages |-> {}]
     ELSE [sees |-> {"shop", "annex"}, manages |-> {"shop"}]]

MCPeriods == {<<0, 1>>, <<1, 1>>}
=============================================================================
