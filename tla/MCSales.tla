------------------------------- MODULE MCSales -------------------------------
(***************************************************************************)
(* Sales on one or two stores: a key two payloads share, a promotion of    *)
(* two articles, a customer who buys on credit, by word or by a mode the   *)
(* sale itself creates, and less stock than is asked for.  Edits give a    *)
(* sale to the customer, on workers that race, or take its key away, at    *)
(* the desk, where promotions are made of one article.                     *)
(***************************************************************************)
EXTENDS Sales, TLC

CONSTANTS t1, t2

MCStores == {"shop"}
TwoStores == {"shop", "annex"}
MCProducts == {"p", "q"}
MCKeys == {"k", "l"}
MCHome == [c \in {"ada"} |-> "shop"]

Till(key, p, q, promotions, customer, mode, credit) ==
  [key |-> key, store |-> "shop", lines |-> [x \in {"p", "q"} |-> IF x = "p" THEN p ELSE q],
   promotions |-> promotions, of |-> "shop", customer |-> customer, mode |-> mode,
   credit |-> credit]

Payable ==
  [first |-> Till("k", 1, 0, 0, "ada", "credit", FALSE),
   again |-> Till("k", 1, 1, 0, "nobody", NoMode, FALSE),
   bundle |-> Till("l", 0, 1, 1, "ada", NoMode, TRUE)]

OfflinePayloads == {"first", "again", "bundle"}
OfflinePayload == [s \in OfflinePayloads |-> Payable[s]]

DeskPayloads == {"first", "bundle"}
DeskPayload == [s \in DeskPayloads |-> Payable[s]]

(* Too little for the sale of an article and the bundle.                   *)
OfflineOpening == [r \in MCStores \X MCProducts |-> 2]
MCOpening == [r \in MCStores \X MCProducts |-> 3]
TwoOpening == [r \in TwoStores \X MCProducts |-> 3]
MCComponents == [p \in MCProducts |-> IF p = "p" THEN 2 ELSE 1]
MCNewLines == <<[product |-> "p", quantity |-> 1], [product |-> "q", quantity |-> 1]>>
OneNewLine == <<[product |-> "q", quantity |-> 1]>>
=============================================================================
