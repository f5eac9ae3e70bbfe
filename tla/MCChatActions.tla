--------------------------- MODULE MCChatActions ---------------------------
(***************************************************************************)
(* ChatActions on a customer of mbr-south, to be deleted, and on a         *)
(* presence of another store, which its user edits from mbr-south; two     *)
(* confirmations at once and one editor.  The two users have their role in *)
(* common.  The one locks the store and then the role, the other the role  *)
(* and then the store, its company; the rows they do not share are left    *)
(* out.                                                                    *)
(***************************************************************************)
EXTENDS ChatActions

MCActions == {"correct", "remove"}
MCTarget == [a \in MCActions |-> IF a = "remove" THEN "customer" ELSE "presence"]
MCResult == [a \in MCActions |-> IF a = "remove" THEN Gone ELSE "new"]
MCRestsOn == [a \in MCActions |->
  IF a = "remove" THEN <<"south", "keeper">> ELSE <<"keeper", "south">>]
=============================================================================
