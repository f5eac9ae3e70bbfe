------------------------------- MODULE Notices -------------------------------
(***************************************************************************)
(* How users are told: rows of Notification for those who want them, made  *)
(* by the alert task and by requests for stock; the state of maintenance,  *)
(* published when an administrator saves it; and the websockets both are   *)
(* pushed to.  Translated from notification/, ws/ and stock/views.py.      *)
(*                                                                         *)
(* When a stock is low is the matter of StockAlerts; here a task tells of  *)
(* one that is, and no repeat period goes by.  A browser that has opened   *)
(* its socket asks once for the list and for the state of maintenance.     *)
(* Marking notifications read is left out: nothing here depends on it.     *)
(***************************************************************************)
EXTENDS Integers, Sequences, FiniteSets

CONSTANTS
  Forms,       \* PUTs of preferences served at once
  Tellers,     \* Celery tasks and requests that tell users
  Admins,      \* administrators in the admin site
  Clients,     \* browser tabs
  UserOf,      \* Clients -> the user of each
  Users,
  Managers,    \* members that are told of low stock, and staff
  Directors,   \* members that are told of requests for stock, and staff
  Old,         \* users made before there were preferences
  Values,      \* contents of WsMaintenanceState
  DefaultState, \* the state when there is no row
  Unknown,
  MaxNotices,  \* bound: rows of Notification
  MaxEvents    \* bound: saves by administrators and failures

ASSUME NoticesAssumption ==
  /\ UserOf \in [Clients -> Users]
  /\ Managers \subseteq Users /\ Directors \subseteq Users /\ Old \subseteq Users
  /\ DefaultState \in Values /\ Unknown \notin Values
  /\ MaxNotices \in Nat /\ MaxEvents \in Nat

VARIABLES
  pref,     \* Users -> its NotificationPreference, or NoRow
  chosen,   \* Users -> the preferences it chose last
  form,     \* Forms -> where the PUT is, with what a later one chose meanwhile
  lost,     \* Users -> choices that an overlapping PUT put back
  notices,  \* the table Notification
  doing,    \* Tellers -> where the task is
  unsent,   \* notifications that were never broadcast
  table,    \* WsMaintenanceState, the latest row last
  publish,  \* Admins -> where the hook of its save is
  stale,    \* the last publication failed
  socket,   \* Clients -> whether it is connected
  groups,   \* Clients -> the channel groups it has joined
  pending,  \* Clients -> messages in its channel
  known,    \* Clients -> notifications it has shown
  listed,   \* clients that have asked for the list since they opened
  state,    \* Clients -> the state of maintenance it shows
  events    \* counter of MaxEvents

preferences == <<pref, chosen, form, lost>>
telling == <<notices, doing, unsent>>
maintenance == <<table, publish, stale>>
browsers == <<socket, groups, pending, known, listed, state>>
noticesVars == <<preferences, telling, maintenance, browsers, events>>

Kinds == {"low_stock", "stock_add_request"}
Preference == [Kinds -> BOOLEAN]
NoRow == [none |-> TRUE]
Defaults == [k \in Kinds |-> TRUE]
AtRest == [op |-> "idle"]

(* Preferences are made with a user (create_notification_preference).      *)
NoticesInit ==
  /\ pref = [u \in Users |-> IF u \in Old THEN NoRow ELSE Defaults]
  /\ chosen = [u \in Users |-> Defaults]
  /\ form = [f \in Forms |-> AtRest]
  /\ lost = [u \in Users |-> {}]
  /\ notices = << >> /\ unsent = {}
  /\ doing = [w \in Tellers |-> AtRest]
  /\ table = << >> /\ stale = FALSE
  /\ publish = [a \in Admins |-> AtRest]
  /\ socket = [c \in Clients |-> "closed"]
  /\ groups = [c \in Clients |-> {}]
  /\ pending = [c \in Clients |-> << >>]
  /\ known = [c \in Clients |-> {}]
  /\ listed = {}
  /\ state = [c \in Clients |-> Unknown]
  /\ events = 0

-----------------------------------------------------------------------------
(* get_or_create, when the row was not found: inserted, or the one         *)
(* inserted meanwhile (user is unique).                                    *)

(* A slip for Ensured: the defaults are written over what is there.        *)
EnsuredAnew(u) == [pref EXCEPT ![u] = Defaults]

Ensured(u) == IF pref[u] = NoRow THEN [pref EXCEPT ![u] = Defaults] ELSE pref

Editing(u, copy, missed) ==
  [op |-> "editing", user |-> u, copy |-> copy, missed |-> missed]

(* PUT of the preferences: the row is looked up, ...                       *)
OpenForm(f, u) ==
  /\ form[f] = AtRest /\ events < MaxEvents
  /\ events' = events + 1
  /\ form' = [form EXCEPT ![f] =
       IF pref[u] = NoRow THEN [op |-> "making", user |-> u] ELSE Editing(u, pref[u], {})]
  /\ UNCHANGED <<pref, chosen, lost, telling, maintenance, browsers>>

MakeForm(f) ==
  /\ form[f].op = "making"
  /\ pref' = Ensured(form[f].user)
  /\ form' = [form EXCEPT ![f] = Editing(form[f].user, pref'[form[f].user], {})]
  /\ UNCHANGED <<chosen, lost, telling, maintenance, browsers, events>>

(* What a form may name: some of the choices.                              *)
Choices == UNION {[K -> BOOLEAN] : K \in SUBSET Kinds}
Filled(copy, choice) == [k \in Kinds |-> IF k \in DOMAIN choice THEN choice[k] ELSE copy[k]]

(* ... and all its columns saved, with those of the form: the others go    *)
(* back to what they were when the row was read.                           *)
SaveForm(f, choice) ==
  LET u == form[f].user
      overlaps(g) == g # f /\ form[g].op = "editing" /\ form[g].user = u
  IN /\ form[f].op = "editing"
     /\ pref' = [pref EXCEPT ![u] = Filled(form[f].copy, choice)]
     /\ chosen' = [chosen EXCEPT ![u] = Filled(@, choice)]
     /\ lost' = [lost EXCEPT ![u] = (@ \cup form[f].missed) \ DOMAIN choice]
     /\ form' = [g \in Forms |->
          IF g = f THEN AtRest
          ELSE IF overlaps(g)
            THEN Editing(u, form[g].copy, form[g].missed \cup DOMAIN choice) ELSE form[g]]
     /\ UNCHANGED <<telling, maintenance, browsers, events>>

-----------------------------------------------------------------------------
(* _recipients; _stock_add_request_recipients, without who asks.           *)
Recipients(kind, asker) ==
  IF kind = "low_stock" THEN Managers ELSE Directors \ {asker}

(* notify_low_stock_if_needed, or the hook of a new request for stock.     *)
Begin(w, kind, asker) ==
  /\ doing[w] = AtRest /\ events < MaxEvents
  /\ events' = events + 1
  /\ doing' = [doing EXCEPT ![w] = [op |-> "telling", kind |-> kind,
                                todo |-> Recipients(kind, asker)]]
  /\ UNCHANGED <<preferences, notices, unsent, maintenance, browsers>>

(* No alert within the repeat period.                                      *)
HasNotice(u, kind) ==
  kind = "low_stock" /\ \E i \in DOMAIN notices :
                           notices[i].user = u /\ notices[i].kind = kind

(* What w does for u, whose preferences are p.                             *)
Decided(w, u, p) ==
  [doing[w] EXCEPT !.op = IF p[doing[w].kind] /\ ~HasNotice(u, doing[w].kind)
                       THEN "creating" ELSE "telling"]

Look(w, u) ==
  /\ doing[w].op = "telling" /\ u \in doing[w].todo
  /\ LET place == [op |-> "telling", kind |-> doing[w].kind, todo |-> doing[w].todo \ {u},
                   user |-> u]
     IN doing' = [doing EXCEPT ![w] =
          CASE pref[u] = NoRow -> [place EXCEPT !.op = "making"]
            [] pref[u] # NoRow /\ pref[u][doing[w].kind] /\ ~HasNotice(u, doing[w].kind) ->
                 [place EXCEPT !.op = "creating"]
            [] OTHER -> place]
  /\ UNCHANGED <<preferences, notices, unsent, maintenance, browsers, events>>

Make(w) ==
  /\ doing[w].op = "making"
  /\ pref' = Ensured(doing[w].user)
  /\ doing' = [doing EXCEPT ![w] = Decided(w, doing[w].user, pref'[doing[w].user])]
  /\ UNCHANGED <<chosen, form, lost, notices, unsent, maintenance, browsers, events>>

(* Notification.objects.create                                             *)
CreateNotice(w) ==
  /\ doing[w].op = "creating"
  /\ Len(notices) < MaxNotices
  /\ notices' = Append(notices, [user |-> doing[w].user, kind |-> doing[w].kind])
  /\ doing' = [doing EXCEPT ![w] = [op |-> "broadcasting", kind |-> doing[w].kind,
                                todo |-> doing[w].todo, id |-> Len(notices')]]
  /\ UNCHANGED <<preferences, unsent, maintenance, browsers, events>>

Told(w) == [op |-> "telling", kind |-> doing[w].kind, todo |-> doing[w].todo]

(* _broadcast, to the channels of the user's group                         *)
Broadcast(w) ==
  /\ doing[w].op = "broadcasting"
  /\ LET id == doing[w].id
     IN pending' = [c \in Clients |->
          IF "own" \in groups[c] /\ UserOf[c] = notices[id].user
          THEN Append(pending[c], [notice |-> id]) ELSE pending[c]]
  /\ doing' = [doing EXCEPT ![w] = Told(w)]
  /\ UNCHANGED <<preferences, notices, unsent, maintenance, socket, groups,
                 known, listed, state, events>>

(* "WebSocket broadcast failed": logged, and the next user is told.        *)
FailBroadcast(w) ==
  /\ doing[w].op = "broadcasting" /\ events < MaxEvents
  /\ events' = events + 1
  /\ unsent' = unsent \cup {doing[w].id}
  /\ doing' = [doing EXCEPT ![w] = Told(w)]
  /\ UNCHANGED <<preferences, notices, maintenance, browsers>>

Finish(w) ==
  /\ doing[w].op = "telling" /\ doing[w].todo = {}
  /\ doing' = [doing EXCEPT ![w] = AtRest]
  /\ UNCHANGED <<preferences, notices, unsent, maintenance, browsers, events>>

(* The worker dies; the task was acknowledged when it was taken.           *)
Crash(w) ==
  /\ doing[w] # AtRest /\ events < MaxEvents
  /\ events' = events + 1
  /\ unsent' = IF doing[w].op = "broadcasting" THEN unsent \cup {doing[w].id} ELSE unsent
  /\ doing' = [doing EXCEPT ![w] = AtRest]
  /\ UNCHANGED <<preferences, notices, maintenance, browsers>>

-----------------------------------------------------------------------------
(* maintenance_snapshot: the row that was saved last.                      *)
Snapshot == IF table = << >> THEN DefaultState ELSE table[Len(table)]

Without(i) == SubSeq(table, 1, i - 1) \o SubSeq(table, i + 1, Len(table))

(* A slip for Saved: the snapshot is taken before the commit.              *)
SavedEarly(a, rows) ==
  /\ publish[a] = AtRest /\ events < MaxEvents
  /\ events' = events + 1
  /\ table' = rows
  /\ publish' = [publish EXCEPT ![a] = [op |-> "sending", value |-> Snapshot]]
  /\ UNCHANGED <<preferences, telling, stale, browsers>>

(* An administrator adds, edits or deletes a row; the hook runs on commit. *)
Saved(a, rows) ==
  /\ publish[a] = AtRest /\ events < MaxEvents
  /\ events' = events + 1
  /\ table' = rows
  /\ publish' = [publish EXCEPT ![a] = [op |-> "hook"]]
  /\ UNCHANGED <<preferences, telling, stale, browsers>>

AddState(a, v) == Saved(a, Append(table, v))
EditState(a, i, v) == Saved(a, Append(Without(i), v))
DeleteState(a, i) == Saved(a, Without(i))

(* publish(): the snapshot is read ...                                     *)
ReadSnapshot(a) ==
  /\ publish[a].op = "hook"
  /\ publish' = [publish EXCEPT ![a] = [op |-> "sending", value |-> Snapshot]]
  /\ UNCHANGED <<preferences, telling, table, stale, browsers, events>>

(* ... and sent to whoever is in the group.                                *)
SendState(a) ==
  /\ publish[a].op = "sending"
  /\ pending' = [c \in Clients |->
       IF "maintenance" \in groups[c] THEN Append(pending[c], [value |-> publish[a].value])
       ELSE pending[c]]
  /\ publish' = [publish EXCEPT ![a] = AtRest]
  /\ stale' = FALSE
  /\ UNCHANGED <<preferences, telling, table, socket, groups, known, listed, state, events>>

(* The hook is robust: the save stands though nobody hears of it.          *)
FailState(a) ==
  /\ publish[a].op = "sending" /\ events < MaxEvents
  /\ events' = events + 1
  /\ publish' = [publish EXCEPT ![a] = AtRest]
  /\ stale' = TRUE
  /\ UNCHANGED <<preferences, telling, table, browsers>>

-----------------------------------------------------------------------------
(* The middleware accepts the token of a user.                             *)
Greet(c) ==
  /\ socket[c] = "closed"
  /\ socket' = [socket EXCEPT ![c] = "greeted"]
  /\ UNCHANGED <<preferences, telling, maintenance, groups, pending, known, listed, state,
                 events>>

(* connect(): the user's group is joined, then the maintenance group, ...  *)
Join(c, group) ==
  /\ socket[c] # "closed"
  /\ group \notin groups[c]
  /\ group = "maintenance" => "own" \in groups[c]
  /\ groups' = [groups EXCEPT ![c] = @ \cup {group}]
  /\ UNCHANGED <<preferences, telling, maintenance, socket, pending, known, listed, state,
                 events>>

(* A slip for Accept: before the groups are joined.                        *)
AcceptFirst(c) ==
  /\ socket[c] = "greeted"
  /\ socket' = [socket EXCEPT ![c] = "open"]
  /\ UNCHANGED <<preferences, telling, maintenance, groups, pending, known, listed, state,
                 events>>

(* ... then the connection is accepted.                                    *)
Accept(c) ==
  /\ socket[c] = "greeted"
  /\ groups[c] = {"own", "maintenance"}
  /\ socket' = [socket EXCEPT ![c] = "open"]
  /\ UNCHANGED <<preferences, telling, maintenance, groups, pending, known, listed, state,
                 events>>

Disconnect(c) ==
  /\ socket[c] # "closed"
  /\ socket' = [socket EXCEPT ![c] = "closed"]
  /\ groups' = [groups EXCEPT ![c] = {}]
  /\ pending' = [pending EXCEPT ![c] = << >>]
  /\ known' = [known EXCEPT ![c] = {}]
  /\ listed' = listed \ {c}
  /\ state' = [state EXCEPT ![c] = Unknown]
  /\ UNCHANGED <<preferences, telling, maintenance, events>>

(* receive_group_message: the browser shows what it gets.                  *)
Deliver(c) ==
  /\ socket[c] = "open" /\ pending[c] # << >>
  /\ pending' = [pending EXCEPT ![c] = Tail(@)]
  /\ LET message == Head(pending[c])
     IN IF "notice" \in DOMAIN message
        THEN /\ known' = [known EXCEPT ![c] = @ \cup {message.notice}]
             /\ UNCHANGED state
        ELSE /\ state' = [state EXCEPT ![c] = message.value]
             /\ UNCHANGED known
  /\ UNCHANGED <<preferences, telling, maintenance, socket, groups, listed, events>>

NoticesOf(c) == {i \in DOMAIN notices : notices[i].user = UserOf[c]}

(* NotificationListView: fewer than a page of them.                        *)
List(c) ==
  /\ socket[c] = "open" /\ c \notin listed
  /\ listed' = listed \cup {c}
  /\ known' = [known EXCEPT ![c] = @ \cup NoticesOf(c)]
  /\ UNCHANGED <<preferences, telling, maintenance, socket, groups, pending, state, events>>

(* GetMaintenanceView                                                      *)
Ask(c) ==
  /\ socket[c] = "open" /\ state[c] = Unknown
  /\ state' = [state EXCEPT ![c] = Snapshot]
  /\ UNCHANGED <<preferences, telling, maintenance, socket, groups, pending, known, listed,
                 events>>

-----------------------------------------------------------------------------
Tell(w) ==
  \/ \E u \in Users : Look(w, u)
  \/ Make(w) \/ CreateNotice(w) \/ Broadcast(w) \/ Finish(w)

Edit(a) ==
  \/ \E v \in Values : AddState(a, v)
  \/ \E i \in DOMAIN table : DeleteState(a, i) \/ \E v \in Values : EditState(a, i, v)

Publish(a) == ReadSnapshot(a) \/ SendState(a)

Connect(c) ==
  \/ Greet(c) \/ Accept(c)
  \/ \E group \in {"own", "maintenance"} : Join(c, group)
Show(c) == Deliver(c) \/ List(c) \/ Ask(c)

NoticesNext ==
  \/ \E f \in Forms :
       \/ \E u \in Users : OpenForm(f, u)
       \/ MakeForm(f)
       \/ \E choice \in Choices : SaveForm(f, choice)
  \/ \E w \in Tellers :
       \/ \E kind \in Kinds, asker \in Users : Begin(w, kind, asker)
       \/ Tell(w) \/ FailBroadcast(w) \/ Crash(w)
  \/ \E a \in Admins : Edit(a) \/ Publish(a) \/ FailState(a)
  \/ \E c \in Clients : Connect(c) \/ Disconnect(c) \/ Show(c)

NoticesSpec == NoticesInit /\ [][NoticesNext]_noticesVars

(* A worker and a consumer that have something to do go on.                *)
FairNoticesSpec ==
  /\ NoticesSpec
  /\ \A w \in Tellers : WF_noticesVars(Tell(w))
  /\ \A c \in Clients : WF_noticesVars(List(c)) /\ WF_noticesVars(Deliver(c))
-----------------------------------------------------------------------------
Telling == [op : {"telling"}, kind : Kinds, todo : SUBSET Users]
Meeting == [op : {"telling", "making", "creating"}, kind : Kinds, todo : SUBSET Users, user : Users]
Sending == [op : {"broadcasting"}, kind : Kinds, todo : SUBSET Users, id : Nat \ {0}]

TellerPlaces == {AtRest} \cup Telling \cup Meeting \cup Sending

FormPlaces ==
  {AtRest} \cup [op : {"making"}, user : Users]
  \cup [op : {"editing"}, user : Users, copy : Preference, missed : SUBSET Kinds]

PreferencesTyped ==
  /\ pref \in [Users -> Preference \cup {NoRow}]
  /\ chosen \in [Users -> Preference]
  /\ form \in [Forms -> FormPlaces]
  /\ lost \in [Users -> SUBSET Kinds]

TasksTyped ==
  /\ notices \in Seq([user : Users, kind : Kinds])
  /\ doing \in [Tellers -> TellerPlaces]
  /\ \A w \in Tellers : doing[w].op = "broadcasting" => doing[w].id \in DOMAIN notices
  /\ unsent \subseteq DOMAIN notices

MaintenanceTyped ==
  /\ table \in Seq(Values) /\ stale \in BOOLEAN
  /\ publish \in [Admins -> [op : {"idle", "hook"}] \cup [op : {"sending"}, value : Values]]

BrowsersTyped ==
  /\ socket \in [Clients -> {"closed", "greeted", "open"}]
  /\ groups \in [Clients -> SUBSET {"own", "maintenance"}]
  /\ pending \in [Clients -> Seq([notice : DOMAIN notices] \cup [value : Values])]
  /\ known \in [Clients -> SUBSET DOMAIN notices]
  /\ listed \subseteq Clients
  /\ state \in [Clients -> Values \cup {Unknown}]

(* Types; a notification that is broadcast, waits for a browser, is shown  *)
(* or failed is one of the table.                                          *)
NoticesTypeOK ==
  /\ PreferencesTyped /\ TasksTyped /\ MaintenanceTyped /\ BrowsersTyped
  /\ events \in Nat

(* What a user chose to be told of stays chosen, though its row of         *)
(* preferences is made by whoever asks for it first (get_or_create by the  *)
(* alert task, by requests for stock and by the form), except a choice     *)
(* saved while another PUT of the same user was open, which that PUT puts  *)
(* back: two tabs that save at once lose a choice.                         *)
ChoicesStay ==
  \A u \in Users, k \in Kinds :
    pref[u] # NoRow /\ k \notin lost[u] => pref[u][k] = chosen[u][k]

(* With one administrator at a time, a browser that asked for the state of *)
(* maintenance shows the present one, once the save was published, unless  *)
(* publishing failed (on_commit, the snapshot read by the hook).           *)
ShowsTheState ==
  \A c \in Clients :
    /\ state[c] # Unknown
    /\ \A a \in Admins : publish[a] = AtRest
    /\ ~stale
    /\ \A i \in DOMAIN pending[c] : "notice" \in DOMAIN pending[c][i]
    => state[c] = Snapshot

(* A notification reaches every browser of its user that stays connected,  *)
(* unless its broadcast failed: what a list does not hold yet is broadcast *)
(* to a group the socket is in (create, then _broadcast; group_add, then   *)
(* accept).                                                                *)
EveryNoticeArrives ==
  \A c \in Clients, i \in 1 .. MaxNotices :
    (socket[c] = "open" /\ i \in NoticesOf(c))
      ~> (i \in known[c] \/ socket[c] # "open" \/ i \in unsent)
=============================================================================
