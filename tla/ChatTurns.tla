------------------------------ MODULE ChatTurns ------------------------------
(***************************************************************************)
(* A turn of a conversation with the chat assistant: a question is         *)
(* answered once however often the client sends it, and one turn at a time *)
(* uses the model.  Translated from ChatAIConversationService.run          *)
(* (chat_ai/services.py) and MessagesView (chat_ai/views.py).              *)
(*                                                                         *)
(* The model is guarded by one row, the lease, which a turn takes with a   *)
(* conditional UPDATE and gives back at its end; a turn that dies leaves   *)
(* it until it expires, and a turn may outlast its lease.                  *)
(***************************************************************************)
EXTENDS Integers, FiniteSets

CONSTANTS
  Slots,         \* requests served at once
  Asks,          \* request ids, chosen by the client
  Texts,         \* Asks -> texts a client sends under that id
  NoOwner,       \* the owner of the free lease
  Dead,          \* an owner that will not come back
  None,          \* no message
  MessageLimit,  \* messages after which a conversation takes no turn (60)
  MaxSelections, \* bound: records selected from a list
  MaxTroubles    \* bound: failed and killed turns, rights given back

Text == UNION {Texts[q] : q \in Asks}

ASSUME TurnsAssumption ==
  /\ NoOwner \notin Slots /\ Dead \notin Slots /\ NoOwner # Dead
  /\ None \notin Text \cup Slots
  /\ MessageLimit \in Nat /\ MaxSelections \in Nat /\ MaxTroubles \in Nat

VARIABLES
  owner,       \* InferenceLease.owner
  due,         \* InferenceLease.expires_at is past
  open,        \* get_conversation finds the conversation for this user
  there,       \* the row Conversation exists, and its messages with it
  question,    \* Asks -> text of the Message of role user
  answer,      \* Asks -> the Message of role assistant: which turn wrote it
  selections,  \* records selected so far, two messages each
  told,        \* Asks -> what the client holds for final
  at,          \* Slots -> where the turn is
  late,        \* turns whose lease expired while they held it (no column)
  troubles     \* failed and killed turns, rights given back so far

lease == <<owner, due, late>>
messages == <<question, answer, selections>>
turnsVars == <<lease, open, there, messages, told, at, troubles>>

Idle == [op |-> "idle"]

(* A turn has read the conversation (checked), holds the lease (leased),   *)
(* has its question saved (asked), has a result (ready), saved it (saved). *)
Working == {"leased", "asked", "ready", "saved"}

TurnsInit ==
  /\ owner = NoOwner /\ due = FALSE /\ late = {}
  /\ open = TRUE /\ there = TRUE
  /\ question = [q \in Asks |-> None]
  /\ answer = [q \in Asks |-> None]
  /\ selections = 0
  /\ told = [q \in Asks |-> "nothing"]
  /\ at = [t \in Slots |-> Idle]
  /\ troubles = 0

At(t, op) == at[t].op = op
Reach(t, op) == at' = [at EXCEPT ![t].op = op]
Tell(q, outcome) == told' = [told EXCEPT ![q] = outcome]
Count ==
  Cardinality({q \in Asks : question[q] # None})
  + Cardinality({q \in Asks : answer[q] # None}) + 2 * selections

-----------------------------------------------------------------------------
(* The request id is new, or was sent with the same text.                  *)
Agrees(q, x) == question[q] \in {None, x}

(* get_conversation and the lookups of run.  A client keeps sending an ask *)
(* until it holds something final for it.                                  *)
Receive(t, q, x) ==
  /\ at[t] = Idle /\ told[q] = "nothing"
  /\ open /\ Agrees(q, x) /\ answer[q] = None
  /\ at' = [at EXCEPT ![t] = [op |-> "checked", ask |-> q, text |-> x]]
  /\ UNCHANGED <<lease, open, there, messages, told, troubles>>

(* The answer is there: it is replayed.                                    *)
Replay(t, q, x) ==
  /\ at[t] = Idle /\ told[q] = "nothing"
  /\ open /\ Agrees(q, x) /\ answer[q] # None
  /\ Tell(q, "answer")
  /\ UNCHANGED <<lease, open, there, messages, at, troubles>>

(* NOT_FOUND or CONTEXT_EXPIRED                                            *)
RefuseConversation(t, q) ==
  /\ at[t] = Idle /\ told[q] = "nothing"
  /\ ~open
  /\ Tell(q, "gone")
  /\ UNCHANGED <<lease, open, there, messages, at, troubles>>

(* BUSY: another turn has the lease.                                       *)
Busy(t) ==
  /\ At(t, "checked")
  /\ owner # NoOwner /\ ~due
  /\ at' = [at EXCEPT ![t] = Idle]
  /\ UNCHANGED <<lease, open, there, messages, told, troubles>>

(* A slip for Acquire: expires_at is not looked at.                        *)
AcquireFree(t) ==
  /\ At(t, "checked")
  /\ owner = NoOwner
  /\ owner' = t /\ due' = FALSE /\ late' = late \ {t}
  /\ Reach(t, "leased")
  /\ UNCHANGED <<open, there, messages, told, troubles>>

Acquire(t) ==
  /\ At(t, "checked")
  /\ owner = NoOwner \/ due
  /\ owner' = t /\ due' = FALSE /\ late' = late \ {t}
  /\ Reach(t, "leased")
  /\ UNCHANGED <<open, there, messages, told, troubles>>

(* A slip for GiveBack: the lease is freed whoever owns it.                *)
GiveBackAnyones(t) ==
  /\ owner' = NoOwner
  /\ due' = FALSE
  /\ late' = late \ {t}

(* The finally clause of run: the lease is freed if it is still ours.      *)
GiveBack(t) ==
  /\ owner' = IF owner = t THEN NoOwner ELSE owner
  /\ due' = (due /\ owner # t)
  /\ late' = late \ {t}

End(t) == at' = [at EXCEPT ![t] = Idle] /\ GiveBack(t)

(* CONTEXT_LIMIT                                                           *)
RefuseFull(t) ==
  /\ At(t, "leased")
  /\ Count >= MessageLimit
  /\ Tell(at[t].ask, "limit")
  /\ End(t)
  /\ UNCHANGED <<open, there, messages, troubles>>

(* A slip for Ask: the text of a question that is there is not compared.   *)
AskAnyhow(t) ==
  LET q == at[t].ask
  IN /\ At(t, "leased")
     /\ Count < MessageLimit
     /\ there
     /\ question' = [question EXCEPT ![q] = IF @ = None THEN at[t].text ELSE @]
     /\ Reach(t, "asked")
     /\ UNCHANGED <<lease, open, there, answer, selections, told, troubles>>

(* Message.objects.get_or_create of the question; its text is compared     *)
(* once more.                                                              *)
Ask(t) ==
  LET q == at[t].ask
  IN /\ At(t, "leased")
     /\ Count < MessageLimit
     /\ there /\ Agrees(q, at[t].text)
     /\ question' = [question EXCEPT ![q] = at[t].text]
     /\ Reach(t, "asked")
     /\ UNCHANGED <<lease, open, there, answer, selections, told, troubles>>

RefuseText(t) ==
  /\ At(t, "leased")
  /\ Count < MessageLimit
  /\ ~(there /\ Agrees(at[t].ask, at[t].text))
  /\ End(t)
  /\ UNCHANGED <<open, there, messages, told, troubles>>

(* The model chose a tool, the tool ran, authorize_delivery agreed.        *)
Run(t) ==
  /\ At(t, "asked")
  /\ open
  /\ Reach(t, "ready")
  /\ UNCHANGED <<lease, open, there, messages, told, troubles>>

(* authorize_delivery does not.                                            *)
RefuseDelivery(t) ==
  /\ At(t, "asked")
  /\ ~open
  /\ End(t)
  /\ UNCHANGED <<open, there, messages, told, troubles>>

(* Message.objects.create of the answer; the unique constraint refuses a   *)
(* second one.                                                             *)
SaveAnswer(t) ==
  /\ At(t, "ready")
  /\ there /\ answer[at[t].ask] = None
  /\ answer' = [answer EXCEPT ![at[t].ask] = t]
  /\ Reach(t, "saved")
  /\ UNCHANGED <<lease, open, there, question, selections, told, troubles>>

(* IntegrityError                                                          *)
SaveTwice(t) ==
  /\ At(t, "ready")
  /\ ~there \/ answer[at[t].ask] # None
  /\ End(t)
  /\ UNCHANGED <<open, there, messages, told, troubles>>

(* The references of the conversation are saved and the answer is sent.    *)
Finish(t) ==
  /\ At(t, "saved") /\ there
  /\ Tell(at[t].ask, "answer")
  /\ End(t)
  /\ UNCHANGED <<open, there, messages, troubles>>

(* The conversation is no more, or the stream asks authorize_delivery once *)
(* more and it does not agree.                                             *)
Withhold(t) ==
  /\ At(t, "saved") /\ ~open
  /\ End(t)
  /\ UNCHANGED <<open, there, messages, told, troubles>>

-----------------------------------------------------------------------------
(* The model or a tool fails, or the client leaves.                        *)
Fail(t) ==
  /\ at[t].op \in {"asked", "ready", "saved"}
  /\ troubles < MaxTroubles
  /\ troubles' = troubles + 1
  /\ End(t)
  /\ UNCHANGED <<open, there, messages, told>>

(* The process dies: the lease stays with an owner that is no more.        *)
Crash(t) ==
  /\ at[t] # Idle
  /\ troubles < MaxTroubles
  /\ troubles' = troubles + 1
  /\ at' = [at EXCEPT ![t] = Idle]
  /\ owner' = IF owner = t THEN Dead ELSE owner
  /\ late' = late \ {t}
  /\ UNCHANGED <<due, open, there, messages, told>>

(* CHAT_AI_MODEL_TIMEOUT * 2 + 60 seconds have gone by.                    *)
ExpireLease ==
  /\ owner # NoOwner /\ ~due
  /\ due' = TRUE
  /\ late' = late \cup ({owner} \cap Slots)
  /\ UNCHANGED <<owner, open, there, messages, told, at, troubles>>

(* RecordSelectionView: a question and an answer of its own, whatever the  *)
(* number of messages.                                                     *)
Select ==
  /\ open /\ selections < MaxSelections
  /\ selections' = selections + 1
  /\ UNCHANGED <<lease, open, there, question, answer, told, at, troubles>>

(* The user's rights change, or the conversation is too old.               *)
Revoke ==
  /\ open
  /\ open' = FALSE
  /\ UNCHANGED <<lease, there, messages, told, at, troubles>>

(* The rights are what they were when the conversation was begun.          *)
Restore ==
  /\ ~open /\ there
  /\ troubles < MaxTroubles
  /\ troubles' = troubles + 1
  /\ open' = TRUE
  /\ UNCHANGED <<lease, there, messages, told, at>>

(* The conversation is deleted; its messages go with it.                   *)
DeleteConversation ==
  /\ open
  /\ open' = FALSE /\ there' = FALSE
  /\ question' = [q \in Asks |-> None]
  /\ answer' = [q \in Asks |-> None]
  /\ selections' = 0
  /\ UNCHANGED <<lease, told, at, troubles>>

-----------------------------------------------------------------------------
TurnStep(t) ==
  \/ Busy(t) \/ Acquire(t)
  \/ RefuseFull(t) \/ Ask(t) \/ RefuseText(t)
  \/ Run(t) \/ RefuseDelivery(t)
  \/ SaveAnswer(t) \/ SaveTwice(t) \/ Finish(t) \/ Withhold(t)

Send(q, x) ==
  \E t \in Slots : Receive(t, q, x) \/ Replay(t, q, x) \/ RefuseConversation(t, q)

TurnsNext ==
  \/ \E q \in Asks : \E x \in Texts[q] : Send(q, x)
  \/ \E t \in Slots : TurnStep(t) \/ Fail(t) \/ Crash(t)
  \/ ExpireLease \/ Select \/ Revoke \/ Restore \/ DeleteConversation

TurnsSpec == TurnsInit /\ [][TurnsNext]_turnsVars

(* A turn goes on; time goes by; a client that holds nothing final sends   *)
(* its ask again, and gets one of the slots in its turn.                   *)
FairTurnsSpec ==
  /\ TurnsSpec
  /\ WF_turnsVars(ExpireLease)
  /\ \A t \in Slots : WF_turnsVars(TurnStep(t))
  /\ \A q \in Asks : \A x \in Texts[q] : SF_turnsVars(Send(q, x))
-----------------------------------------------------------------------------
Turn(op) == [op : op, ask : Asks, text : Text]

TurnsTypeOK ==
  /\ owner \in Slots \cup {NoOwner, Dead}
  /\ due \in BOOLEAN
  /\ late \subseteq {t \in Slots : at[t].op \in Working}
  /\ open \in BOOLEAN /\ there \in BOOLEAN
  /\ question \in [Asks -> Text \cup {None}]
  /\ answer \in [Asks -> Slots \cup {None}]
  /\ selections \in Nat
  /\ ~there => ~open /\ selections = 0
               /\ \A q \in Asks : question[q] = None /\ answer[q] = None
  /\ told \in [Asks -> {"nothing", "answer", "limit", "gone"}]
  /\ at \in [Slots -> {Idle} \cup Turn({"checked"} \cup Working)]
  /\ troubles \in Nat

(* One turn at a time uses the model: whoever works without having         *)
(* outlasted its lease owns it.  A turn that ends after its lease has gone *)
(* to another does not give that one's lease away.                         *)
WorkersOwnTheLease ==
  \A t \in Slots : at[t].op \in Working /\ t \notin late => owner = t

(* An answer that is saved stays, whichever turn of the same ask comes     *)
(* later, as long as the conversation is there: every replay shows the     *)
(* same (chat_ai_unique_request_role).                                     *)
AnswersStay ==
  [][\A q \in Asks : answer[q] # None /\ there' => answer'[q] = answer[q]]_turnsVars

(* A turn that works on a question has the text the conversation shows for *)
(* it, though the same id was sent with two texts at once.                 *)
AnswersTheQuestion ==
  \A t \in Slots :
    at[t].op \in {"asked", "ready", "saved"} /\ there => question[at[t].ask] = at[t].text

(* What a client was told is in the conversation when it opens it again.   *)
ToldIsSaved == there => \A q \in Asks : told[q] = "answer" => answer[q] # None

(* Every ask that is sent again and again is answered, or refused for good *)
(* because the conversation is full or closed, though turns fail, die with *)
(* the lease or outlast it.                                                *)
EveryAskIsSettled == \A q \in Asks : <>(told[q] # "nothing")
=============================================================================
