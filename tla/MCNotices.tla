------------------------------ MODULE MCNotices ------------------------------
(***************************************************************************)
(* Notices with a director made before there were preferences, who also    *)
(* manages and has a tab open, and a manager; two PUTs of preferences at   *)
(* once, which may be of one user; two workers, one administrator.         *)
(***************************************************************************)
EXTENDS Notices, TLC

MCUserOf == [c \in Clients |-> "chief"]
=============================================================================
