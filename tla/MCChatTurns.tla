----------------------------- MODULE MCChatTurns -----------------------------
(***************************************************************************)
(* ChatTurns with two asks, one of which a client sends with two texts,    *)
(* two slots and a conversation that takes a turn below four messages.     *)
(***************************************************************************)
EXTENDS ChatTurns

MCAsks == {"q", "r"}
MCTexts == [q \in MCAsks |-> IF q = "q" THEN {"x", "y"} ELSE {"x"}]
=============================================================================
