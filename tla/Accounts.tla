------------------------------- MODULE Accounts -------------------------------
(***************************************************************************)
(* Accounts, their rights, and the stores they belong to: the forms of     *)
(* users, of stores and of memberships, and who may work in which store.   *)
(* Translated from account/ and store/.                                    *)
(*                                                                         *)
(* Only the store form, the deletion of several accounts and the SSO open  *)
(* a transaction: elsewhere each statement commits by itself.  A view      *)
(* reads an account, then saves every column of its copy.  Passwords,      *)
(* mails, pictures, names, the creation of stores and the admin site are   *)
(* left out; of the flags a till looks at, till stands for can_print and   *)
(* can_wholesale_sale.                                                     *)
(***************************************************************************)
EXTENDS Integers, Sequences, FiniteSets, FiniteSetsExt, SequencesExt

CONSTANTS
  Slots,       \* requests and tasks served at once
  Emails,
  Stores,      \* numbers, in the order of the stores' names
  Central,     \* the store with is_global_stock
  Hidden,      \* it and mbr-south, which no list of stores shows
  Roles,
  NoRole,      \* a role code no Role has
  NoStores,    \* a form without stores
  NoStore,     \* a request without store
  Opening,     \* the accounts there are at first, a row each
  Enrolment,   \* and their memberships
  Flags,       \* the flags a user form sends: partial functions to BOOLEAN
  Lists,       \* the stores a user form sends
  MaxUsers,    \* bound: rows of CustomUser
  MaxMembers,  \* bound: rows of StoreMembership
  MaxEdits     \* bound: requests begun

Rights == {"active", "staff", "pointage", "promotion", "till"}
Row == [Rights -> BOOLEAN]

(* Rights an account may have together.                                    *)
Allowed(may) ==
  /\ may["pointage"] => ~may["staff"] /\ ~may["promotion"] /\ ~may["till"]
  /\ may["promotion"] => may["staff"]

ASSUME AccountsAssumption ==
  /\ Stores \subseteq Nat /\ Hidden \subseteq Stores /\ Central \in Hidden /\ NoStore \notin Stores
  /\ NoRole \notin Roles
  /\ Opening \in Seq([email : Emails, may : {may \in Row : Allowed(may)}, gone : {FALSE}])
  /\ Len(Opening) <= MaxUsers
  /\ \A u, v \in DOMAIN Opening : Opening[u].email = Opening[v].email => u = v
  /\ Enrolment \in Seq([user : DOMAIN Opening, store : Stores, role : Roles,
                        active : BOOLEAN, gone : {FALSE}])
  /\ \A m, n \in DOMAIN Enrolment :
       Enrolment[m].user = Enrolment[n].user /\ Enrolment[m].store = Enrolment[n].store => m = n
  /\ \A f \in Flags : DOMAIN f \subseteq Rights /\ \A k \in DOMAIN f : f[k] \in BOOLEAN
  /\ \A l \in Lists \ {NoStores} :
       l \in Seq([store : Stores, role : Roles \cup {NoRole}])
  /\ MaxUsers \in Nat /\ MaxMembers \in Nat /\ MaxEdits \in Nat

VARIABLES
  users,    \* the table CustomUser, a row per primary key
  members,  \* the table StoreMembership, a row per primary key
  open,     \* the stores with is_active
  thumbs,   \* accounts a generate_user_thumbnail task is queued for
  at,       \* Slots -> where the request is, with what it has read
  edits     \* requests begun

vars == <<users, members, open, thumbs, at, edits>>

User == [email : Emails, may : Row, gone : BOOLEAN]
Membership ==
  [user : 1..MaxUsers, store : Stores, role : Roles, active : BOOLEAN, gone : BOOLEAN]

Idle == [op |-> "idle"]

Init ==
  /\ users = Opening
  /\ members = Enrolment
  /\ open = Stores
  /\ thumbs = {}
  /\ at = [t \in Slots |-> Idle]
  /\ edits = 0

Present == {u \in DOMAIN users : ~users[u].gone}
Admins == {u \in Present : users[u].may["staff"] /\ users[u].may["active"]}
Belongings == {m \in DOMAIN members : ~members[m].gone}
MembersOf(U) == {m \in Belongings : members[m].user \in U}

EmailFree(e, but) == \A u \in Present \ {but} : users[u].email # e

(* unique_store_membership, and the foreign key to the account.            *)
MayBelong(u, s, but) ==
  /\ u \in Present
  /\ \A m \in MembersOf({u}) \ {but} : members[m].store # s

Erase(table, ids) ==
  [i \in DOMAIN table |-> IF i \in ids THEN [table[i] EXCEPT !.gone = TRUE] ELSE table[i]]

At(t, op) == at[t].op = op
Begins(t) == At(t, "idle") /\ edits < MaxEdits /\ edits' = edits + 1

(* alone: nobody else wrote the memberships of the account a form is about *)
(* since it began to.  touched: the accounts whose memberships a step      *)
(* writes.                                                                 *)
Goto(t, place, touched) ==
  at' = [s \in Slots |->
           IF s = t THEN place
           ELSE IF At(s, "sync") /\ at[s].user \in touched THEN [at[s] EXCEPT !.alone = FALSE]
           ELSE at[s]]

-----------------------------------------------------------------------------
(* _normalize_pointage_only_permissions                                    *)

(* A slip for Normalized: a right stays that only administrators have.     *)
NormalizedForClocksOnly(may) ==
  IF may["pointage"]
  THEN [may EXCEPT !["staff"] = FALSE, !["promotion"] = FALSE, !["till"] = FALSE]
  ELSE may

Normalized(may) ==
  IF may["pointage"]
  THEN [may EXCEPT !["staff"] = FALSE, !["promotion"] = FALSE, !["till"] = FALSE]
  ELSE [may EXCEPT !["promotion"] = @ /\ may["staff"]]

(* What a form makes of an account's rights.                               *)
Filled(may, flags) == Normalized([k \in Rights |-> IF k \in DOMAIN flags THEN flags[k] ELSE may[k]])

Newcomer == [k \in Rights |-> k \in {"active", "till"}]

-----------------------------------------------------------------------------
(* UsersListCreateView.post                                                *)

(* The account CreateAccountSerializer makes of its form.                  *)
Validated(e, flags) == [email |-> e, may |-> Filled(Newcomer, flags), gone |-> FALSE]

(* The serializer finds the e-mail free.  by: the account the request acts *)
(* for; seen: its row when it began.                                       *)
BeginCreate(t, by, e, flags, list) ==
  /\ Begins(t)
  /\ by \in Admins /\ EmailFree(e, 0)
  /\ Goto(t, [op |-> "create", by |-> by, seen |-> users[by], row |-> Validated(e, flags),
              stores |-> list], {})
  /\ UNCHANGED <<users, members, open, thumbs>>

(* Where a form goes on when the account is saved.                         *)
Synchronise(t, u) ==
  IF at[t].stores = NoStores THEN Idle
  ELSE [op |-> "sync", by |-> at[t].by, seen |-> at[t].seen, user |-> u,
        stores |-> at[t].stores, next |-> 1, alone |-> TRUE]

InsertUser(t) ==
  LET u == Len(users) + 1
  IN  /\ At(t, "create")
      /\ IF EmailFree(at[t].row.email, 0)
         THEN /\ u <= MaxUsers
              /\ users' = Append(users, at[t].row)
              /\ Goto(t, Synchronise(t, u), {})
              /\ thumbs' \in {thumbs, thumbs \cup {u}}
         ELSE UNCHANGED <<users, thumbs>> /\ Goto(t, Idle, {})
      /\ UNCHANGED <<members, open, edits>>

-----------------------------------------------------------------------------
(* Saves of a whole row, from a copy                                       *)

Saving(by, u, may, list, times) ==
  [op |-> "save", by |-> by, seen |-> users[by], user |-> u,
   row |-> [users[u] EXCEPT !.may = may], stores |-> list, times |-> times]

(* A slip for Others: an administrator may choose herself.                 *)
OthersAndSelf(by) == Present

(* The accounts an administrator may edit and delete.                      *)
Others(by) == Present \ {by}

(* UserDetailEditDeleteView.put                                            *)
FetchUser(t, by, u, flags, list) ==
  /\ Begins(t)
  /\ by \in Admins /\ u \in Others(by)
  /\ Goto(t, Saving(by, u, Filled(users[u].may, flags), list, 1), {})
  /\ UNCHANGED <<users, members, open, thumbs>>

SavingOwn(u, times) == Saving(u, u, users[u].may, NoStores, times)

(* ProfileView.patch saves request.user.                                   *)
FetchProfile(t, u) ==
  /\ Begins(t)
  /\ u \in Present /\ users[u].may["active"]
  /\ Goto(t, SavingOwn(u, 1), {})
  /\ UNCHANGED <<users, members, open, thumbs>>

(* So does PasswordChangeView.put, if the old password is right.           *)
ChangePassword(t, u) == FetchProfile(t, u)

(* _get_or_create_user of the SSO, which does not mind who is active: the  *)
(* account of the claims' subject takes their e-mail; one found by the     *)
(* e-mail has it.                                                          *)
FetchBySSO(t, u, e) ==
  /\ Begins(t)
  /\ u \in Present
  /\ Goto(t, [SavingOwn(u, 1) EXCEPT !.row.email = e], {})
  /\ UNCHANGED <<users, members, open, thumbs>>

(* generate_user_thumbnail saves its copy twice, once per picture.         *)
TakeThumb(t, u) ==
  /\ At(t, "idle")
  /\ u \in thumbs /\ thumbs' = thumbs \ {u}
  /\ IF u \in Present THEN Goto(t, SavingOwn(u, 2), {})
     ELSE UNCHANGED at
  /\ UNCHANGED <<users, members, open, edits>>

(* Model.save: an account deleted meanwhile is inserted again.             *)
SaveUser(t) ==
  LET u == at[t].user
  IN  /\ At(t, "save")
      /\ IF EmailFree(at[t].row.email, u)
         THEN /\ users' = [users EXCEPT ![u] = at[t].row]
              /\ Goto(t, IF at[t].times > 1 THEN [at[t] EXCEPT !.times = @ - 1]
                         ELSE Synchronise(t, u), {})
         ELSE UNCHANGED users /\ Goto(t, Idle, {})
      /\ UNCHANGED <<members, open, thumbs, edits>>

(* _get_or_create_user finds nobody of this e-mail.                        *)
AddBySSO(e) ==
  /\ EmailFree(e, 0) /\ Len(users) < MaxUsers
  /\ users' = Append(users, [email |-> e, may |-> Newcomer, gone |-> FALSE])
  /\ UNCHANGED <<members, open, thumbs, at, edits>>

-----------------------------------------------------------------------------
(* _sync_store_memberships                                                 *)

(* update_or_create.                                                       *)
Enrolled(u, s, role) ==
  LET there == {m \in MembersOf({u}) : members[m].store = s}
  IN  IF there = {}
      THEN Append(members, [user |-> u, store |-> s, role |-> role, active |-> TRUE, gone |-> FALSE])
      ELSE [m \in DOMAIN members |->
              IF m \in there THEN [members[m] EXCEPT !.role = role, !.active = TRUE]
              ELSE members[m]]

Submitted(t, n) == {at[t].stores[i].store : i \in 1..n}

EnrolNext(t) ==
  LET item == at[t].stores[at[t].next]
  IN  /\ At(t, "sync") /\ at[t].next <= Len(at[t].stores)
      /\ IF /\ item.store \in open \ Submitted(t, at[t].next - 1)
            /\ item.role \in Roles /\ at[t].user \in Present
         THEN /\ members' = Enrolled(at[t].user, item.store, item.role)
              /\ Len(members') <= MaxMembers
              /\ Goto(t, [at[t] EXCEPT !.next = @ + 1], {at[t].user})
         ELSE UNCHANGED members /\ Goto(t, Idle, {})
      /\ UNCHANGED <<users, open, thumbs, edits>>

(* A slip for Withdrawn: memberships are added, none is taken away.        *)
WithdrawnNever(t) == {}

Withdrawn(t) ==
  {m \in MembersOf({at[t].user}) : members[m].store \notin Submitted(t, Len(at[t].stores))}

WithdrawOthers(t) ==
  /\ At(t, "sync") /\ at[t].next > Len(at[t].stores)
  /\ members' = Erase(members, Withdrawn(t))
  /\ Goto(t, Idle, {at[t].user})
  /\ UNCHANGED <<users, open, thumbs, edits>>

-----------------------------------------------------------------------------
(* Deletion of one account or of several: the memberships that go with it  *)
(* are collected, then deleted.                                            *)
CollectUsers(t, by, U) ==
  /\ Begins(t)
  /\ by \in Admins /\ U # {} /\ U \subseteq Others(by)
  /\ Goto(t, [op |-> "delete", by |-> by, seen |-> users[by], users |-> U,
              members |-> MembersOf(U)], {})
  /\ UNCHANGED <<users, members, open, thumbs>>

(* A membership that was added since then keeps the account (foreign key). *)
DropUsers(t) ==
  /\ At(t, "delete")
  /\ IF MembersOf(at[t].users) \subseteq at[t].members
     THEN /\ users' = Erase(users, at[t].users)
          /\ members' = Erase(members, at[t].members)
     ELSE UNCHANGED <<users, members>>
  /\ Goto(t, Idle, at[t].users)
  /\ UNCHANGED <<open, thumbs, edits>>

-----------------------------------------------------------------------------
(* StoreMembershipListCreateView, StoreMembershipDetailEditDeleteView      *)

AddMember(u, s, role) ==
  /\ Admins # {} /\ edits < MaxEdits /\ edits' = edits + 1
  /\ MayBelong(u, s, 0) /\ Len(members) < MaxMembers
  /\ \E active \in BOOLEAN :
       members' = Append(members, [user |-> u, store |-> s, role |-> role, active |-> active,
                                   gone |-> FALSE])
  /\ at' = [t \in Slots |-> IF At(t, "sync") /\ at[t].user = u
                            THEN [at[t] EXCEPT !.alone = FALSE] ELSE at[t]]
  /\ UNCHANGED <<users, open, thumbs>>

FetchMember(t, by, m) ==
  /\ Begins(t)
  /\ by \in Admins /\ m \in Belongings
  /\ Goto(t, [op |-> "member", by |-> by, seen |-> users[by], id |-> m, row |-> members[m]], {})
  /\ UNCHANGED <<users, members, open, thumbs>>

MemberEdits(row) ==
  {[row EXCEPT !.role = r] : r \in Roles} \cup {[row EXCEPT !.active = ~@]}
    \cup {[row EXCEPT !.store = s] : s \in Stores}

(* PUT, PATCH and DELETE.                                                  *)
SaveMember(t) ==
  /\ At(t, "member")
  /\ \/ \E row \in MemberEdits(at[t].row) :
          members' = IF MayBelong(row.user, row.store, at[t].id)
                     THEN [members EXCEPT ![at[t].id] = row] ELSE members
     \/ members' = Erase(members, {at[t].id})
  /\ Goto(t, Idle, {at[t].row.user})
  /\ UNCHANGED <<users, open, thumbs, edits>>

-----------------------------------------------------------------------------
(* The store form, one transaction                                         *)

(* update_memberships: roles says who works in the store, and as what.     *)
Staffed(s, roles) ==
  LET U == DOMAIN roles
      of == {m \in Belongings : members[m].store = s}
      new == {u \in U : \A m \in of : members[m].user # u}
  IN  [m \in DOMAIN members |->
         IF m \notin of THEN members[m]
         ELSE IF members[m].user \in U
              THEN [members[m] EXCEPT !.role = roles[members[m].user], !.active = TRUE]
              ELSE [members[m] EXCEPT !.gone = TRUE]]
      \o SetToSeq({[user |-> u, store |-> s, role |-> roles[u], active |-> TRUE,
                    gone |-> FALSE] : u \in new})

(* managed_by may be left out of the form.                                 *)
Formed(s, roles) == {members, Staffed(s, roles)}

(* is_active is what the form sends or what the copy said; who is not      *)
(* active may not be named.                                                *)
StoreForm(s, active, roles) ==
  /\ Admins # {} /\ edits < MaxEdits /\ edits' = edits + 1
  /\ s \notin Hidden
  /\ \A u \in DOMAIN roles : users[u].may["active"]
  /\ open' = IF active THEN open \cup {s} ELSE open \ {s}
  /\ members' \in Formed(s, roles)
  /\ Len(members') <= MaxMembers
  /\ at' = [t \in Slots |-> IF At(t, "sync") THEN [at[t] EXCEPT !.alone = @ /\ members' = members]
                            ELSE at[t]]
  /\ UNCHANGED <<users, thumbs>>

-----------------------------------------------------------------------------
(* Who works where (store/permissions.py).  roles = {}: whatever the role. *)

Working(u, s, roles) ==
  \E m \in MembersOf({u}) :
    /\ members[m].store = s /\ members[m].active /\ s \in open
    /\ roles # {} => members[m].role \in roles

(* user_store_ids                                                          *)
StoreIds(u, roles) ==
  LET may == users[u].may
  IN  IF may["pointage"] \/ (may["staff"] /\ roles = {}) THEN open
      ELSE {s \in Stores : Working(u, s, roles)}

(* A slip for HasAccess: a membership that was suspended still counts.     *)
HasAccessSuspended(u, s, roles) ==
  LET may == users[u].may
  IN  IF may["staff"] \/ may["pointage"] THEN s \in open
      ELSE s \in open /\ \E m \in MembersOf({u}) :
             members[m].store = s /\ (roles # {} => members[m].role \in roles)

(* user_has_store_access                                                   *)
HasAccess(u, s, roles) ==
  LET may == users[u].may
  IN  IF may["staff"] \/ may["pointage"] THEN s \in open ELSE Working(u, s, roles)

First(S) == IF S = {} THEN {} ELSE {Min(S)}

(* get_store_from_request: the store named, or the first one there is;     *)
(* the empty set where permission is denied.                               *)
StoreOfRequest(u, s, roles) ==
  LET default == IF users[u].may["staff"] THEN open ELSE {x \in Stores : Working(u, x, {})}
  IN  IF s # NoStore THEN {x \in {s} : HasAccess(u, x, roles)}
      ELSE {x \in First(default) : roles # {} => HasAccess(u, x, roles)}

(* get_global_stock_store_from_request                                     *)
StockStoreOfRequest(u, s, roles) ==
  IF s # NoStore THEN StoreOfRequest(u, s, roles) \cap {Central}
  ELSE {x \in open \cap {Central} : HasAccess(u, x, roles)}

(* MyStoresView: the stores a user may choose from.                        *)
MyStores(u) ==
  LET may == users[u].may
  IN  IF may["staff"] \/ may["pointage"] THEN open ELSE {s \in Stores : Working(u, s, {})}

(* _filtered_stores_for_user: the administrator's list shows closed ones.  *)
ListedStores(u) == (IF users[u].may["staff"] THEN Stores ELSE StoreIds(u, {})) \ Hidden

-----------------------------------------------------------------------------
Work(t) ==
  \/ InsertUser(t) \/ SaveUser(t) \/ EnrolNext(t) \/ WithdrawOthers(t)
  \/ DropUsers(t) \/ SaveMember(t)

UserDesk(t) ==
  \/ \E by \in Present, flags \in Flags, list \in Lists :
       \/ \E e \in Emails : BeginCreate(t, by, e, flags, list)
       \/ \E u \in Present : FetchUser(t, by, u, flags, list)
  \/ \E u \in DOMAIN users :
       \/ FetchProfile(t, u) \/ ChangePassword(t, u) \/ TakeThumb(t, u)
       \/ \E e \in Emails : FetchBySSO(t, u, e)
  \/ \E by \in Present, U \in SUBSET Present : CollectUsers(t, by, U)

StoreDesk ==
  \/ \E t \in Slots, by \in Present, m \in Belongings : FetchMember(t, by, m)
  \/ \E u \in Present, s \in Stores, role \in Roles : AddMember(u, s, role)
  \/ \E s \in Stores, active \in BOOLEAN, U \in SUBSET Present :
       \E roles \in [U -> Roles] : StoreForm(s, active, roles)

Next ==
  \/ \E t \in Slots : Work(t) \/ UserDesk(t)
  \/ \E e \in Emails : AddBySSO(e)
  \/ StoreDesk

Spec == Init /\ [][Next]_vars

-----------------------------------------------------------------------------
(* Properties                                                              *)

EmailsUnique ==
  \A u, v \in Present : users[u].email = users[v].email => u = v

MembershipsUnique ==
  \A m, n \in Belongings :
    members[m].user = members[n].user /\ members[m].store = members[n].store => m = n

(* Types; e-mails and memberships are unique, and a membership's account   *)
(* exists, though accounts are deleted while they are enrolled, and saved  *)
(* and found by SSO while they are created or deleted.                     *)
TypeOK ==
  /\ users \in Seq(User) /\ Len(users) <= MaxUsers
  /\ members \in Seq(Membership)
  /\ open \subseteq Stores /\ thumbs \subseteq DOMAIN users
  /\ edits \in 0..MaxEdits
  /\ EmailsUnique /\ MembershipsUnique
  /\ \A m \in Belongings : members[m].user \in Present

(* Whatever forms, profiles, tasks and SSO write back from old copies, an  *)
(* account for the clock only has none of the rights it must not have, and *)
(* only administrators may create promotions.                              *)
PointageRights == \A u \in Present : Allowed(users[u].may)

(* "Vous ne pouvez pas supprimer votre utilisateur": the last active       *)
(* administrator is not removed, deactivated or degraded, unless by a      *)
(* request of an account that was itself changed since the request began.  *)
AdministratorsRemain ==
  [][Admins # {} /\ Admins' = {} =>
       \E t \in Slots : at'[t] # at[t] /\ users[at[t].by] # at[t].seen]_vars

(* _sync_store_memberships: a user form that comes to its end leaves the   *)
(* account the stores it sent, with their roles, active, and no other, if  *)
(* nobody else wrote the account's memberships meanwhile, whatever was     *)
(* there before; other accounts keep theirs.                               *)
AloneAFormIsExact ==
  [][\A t \in Slots :
       At(t, "sync") /\ at[t].next > Len(at[t].stores) /\ at'[t] = Idle =>
         /\ at[t].alone =>
              {[store |-> members'[m].store, role |-> members'[m].role, active |-> members'[m].active] :
                 m \in {n \in DOMAIN members' : ~members'[n].gone /\ members'[n].user = at[t].user}}
              = {[store |-> item.store, role |-> item.role, active |-> TRUE] :
                   item \in ToSet(at[t].stores)}
         /\ \A m \in DOMAIN members : members[m].user # at[t].user => members'[m] = members[m]]_vars

(* The lists an account is shown and the rights that are tested one store  *)
(* at a time agree: what is listed may be opened; for who is no            *)
(* administrator the two are the same; a request ends up in a store that   *)
(* is on the list, whether it names one or not; and the stores to choose   *)
(* from are those whose records are listed.                                *)
ScopesAgree ==
  \A u \in Present : \A roles \in SUBSET Roles :
    LET accessible == {s \in Stores : HasAccess(u, s, roles)}
    IN  /\ StoreIds(u, roles) \subseteq accessible
        /\ ~users[u].may["staff"] => StoreIds(u, roles) = accessible
        /\ \A s \in Stores \cup {NoStore} :
             StoreOfRequest(u, s, roles) \cup StockStoreOfRequest(u, s, roles)
               \subseteq accessible \cap StoreIds(u, {})
        /\ MyStores(u) = StoreIds(u, {})
        /\ ListedStores(u) \cap open \subseteq MyStores(u)
=============================================================================
