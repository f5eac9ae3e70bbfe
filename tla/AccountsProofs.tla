---------------------------- MODULE AccountsProofs ----------------------------
(***************************************************************************)
(* Proofs about Accounts, for any accounts, stores, roles and requests at  *)
(* once: e-mails and memberships stay unique, memberships keep their       *)
(* accounts, no account comes by rights it must not have together, an      *)
(* administrator remains, scopes agree, and an undisturbed form leaves the *)
(* memberships it sent.                                                    *)
(***************************************************************************)
EXTENDS Accounts, FiniteSetTheorems, WellFoundedInduction, TLAPS

(* What a request has read or validated: rows that exist or existed, with  *)
(* rights an account may have.  U and M are the keys given out so far.     *)
Sane(place, U, M) ==
  /\ place.op \in {"create", "save"} =>
       place.row \in User /\ ~place.row.gone /\ Allowed(place.row.may)
  /\ place.op = "save" => place.user \in U
  /\ place.op = "member" => place.id \in M /\ place.row \in Membership /\ ~place.row.gone

CopiesAreSane == \A t \in Slots : Sane(at[t], DOMAIN users, DOMAIN members)

(* The accounts and the memberships, each with what is unique about them.  *)
UsersSound ==
  users \in Seq(User) /\ Len(users) <= MaxUsers /\ EmailsUnique /\ PointageRights

MembersSound ==
  /\ members \in Seq(Membership) /\ MembershipsUnique
  /\ \A m \in Belongings : members[m].user \in Present

RestTyped == open \subseteq Stores /\ thumbs \subseteq DOMAIN users /\ edits \in 0..MaxEdits

IInv == UsersSound /\ MembersSound /\ RestTyped /\ CopiesAreSane

(* No membership changes hands.                                            *)
Steady ==
  /\ DOMAIN members \subseteq DOMAIN members'
  /\ \A m \in DOMAIN members : members'[m].user = members[m].user

(* The assumptions the proofs need.                                        *)
LEMMA Constants ==
  /\ MaxUsers \in Nat /\ MaxEdits \in Nat /\ MaxMembers \in Nat
  /\ \A f \in Flags : DOMAIN f \subseteq Rights /\ \A k \in DOMAIN f : f[k] \in BOOLEAN
BY AccountsAssumption DEF AccountsAssumption

(* Whatever a form sends, the rights it makes are ones an account may have *)
(* (_normalize_pointage_only_permissions).                                 *)
LEMMA FilledAllowed ==
  ASSUME NEW may \in Row, NEW flags \in Flags
  PROVE  Filled(may, flags) \in Row /\ Allowed(Filled(may, flags))
<1>. DEFINE sent == [k \in Rights |-> IF k \in DOMAIN flags THEN flags[k] ELSE may[k]]
<1>1. sent \in Row
  BY Constants DEF Row
<1>2. ASSUME NEW m \in Row PROVE Normalized(m) \in Row /\ Allowed(Normalized(m))
  BY DEF Normalized, Allowed, Row, Rights
<1>. QED
  BY <1>1, <1>2 DEF Filled

(* The rights a form starts from.                                          *)
LEMMA NewcomerAllowed == Newcomer \in Row /\ Allowed(Newcomer)
<1>1. Newcomer \in Row
  <2>1. \A k : (k \in {"active", "till"}) \in BOOLEAN
    OBVIOUS
  <2>. QED
    BY <2>1, Zenon DEF Newcomer, Row
<1>2. ~Newcomer["pointage"] /\ ~Newcomer["promotion"]
  BY DEF Newcomer, Rights
<1>. QED
  BY <1>1, <1>2 DEF Allowed

(* An account that is there.                                               *)
LEMMA PresentRow ==
  ASSUME UsersSound, NEW u \in Present
  PROVE  /\ u \in DOMAIN users /\ users[u] \in User /\ ~users[u].gone
         /\ users[u].may \in Row /\ Allowed(users[u].may)
<1>1. u \in DOMAIN users /\ ~users[u].gone /\ Allowed(users[u].may)
  BY DEF UsersSound, Present, PointageRights
<1>2. users[u] \in User
  BY <1>1 DEF UsersSound
<1>. QED
  BY <1>1, <1>2 DEF User

(* Erasing rows marks them and no others.                                  *)
LEMMA ErasedRows ==
  ASSUME NEW Type, NEW table \in Seq(Type), NEW ids,
         \A r \in Type : [r EXCEPT !.gone = TRUE] \in Type
  PROVE  /\ Erase(table, ids) \in Seq(Type) /\ Len(Erase(table, ids)) = Len(table)
         /\ DOMAIN Erase(table, ids) = DOMAIN table
         /\ \A i \in DOMAIN table \ ids : Erase(table, ids)[i] = table[i]
         /\ \A i \in DOMAIN table \cap ids : Erase(table, ids)[i] = [table[i] EXCEPT !.gone = TRUE]
BY DEF Erase

(* More keys, fewer worries.                                               *)
LEMMA SaneGrows ==
  ASSUME NEW place, NEW U, NEW V, NEW M, NEW N, Sane(place, U, M), U \subseteq V, M \subseteq N
  PROVE  Sane(place, V, N)
BY DEF Sane

(* A request goes on; the others keep their copies.                        *)
LEMMA Moved ==
  ASSUME CopiesAreSane, NEW t, NEW place, NEW touched, Goto(t, place, touched),
         DOMAIN users \subseteq DOMAIN users', DOMAIN members \subseteq DOMAIN members',
         Sane(place, DOMAIN users', DOMAIN members')
  PROVE  CopiesAreSane'
<1> SUFFICES ASSUME NEW s \in Slots PROVE Sane(at'[s], DOMAIN users', DOMAIN members')
  BY DEF CopiesAreSane
<1>1. CASE s = t
  BY <1>1 DEF Goto
<1>2. CASE s # t /\ At(s, "sync") /\ at[s].user \in touched
  <2>1. at'[s].op = "sync"
    BY <1>2 DEF Goto, At
  <2>. QED
    BY <2>1 DEF Sane
<1>3. CASE s # t /\ ~(At(s, "sync") /\ at[s].user \in touched)
  <2>1. at'[s] = at[s]
    BY <1>3 DEF Goto
  <2>. QED
    BY <2>1, SaneGrows DEF CopiesAreSane
<1>. QED
  BY <1>1, <1>2, <1>3

-----------------------------------------------------------------------------
(* What the writes do to the accounts                                      *)

(* An account whose e-mail is free is added.                               *)
LEMMA UserAdded ==
  ASSUME UsersSound, NEW row \in User, ~row.gone, Allowed(row.may), EmailFree(row.email, 0),
         Len(users) < MaxUsers, users' = Append(users, row)
  PROVE  /\ UsersSound' /\ Present \subseteq Present'
         /\ DOMAIN users \subseteq DOMAIN users' /\ Len(users) + 1 \in DOMAIN users'
<1>1. /\ users \in Seq(User) /\ users' \in Seq(User) /\ Len(users') = Len(users) + 1
      /\ DOMAIN users' = 1..(Len(users) + 1) /\ DOMAIN users = 1..Len(users)
      /\ users'[Len(users) + 1] = row
      /\ \A u \in DOMAIN users : users'[u] = users[u]
  BY DEF UsersSound
<1>2. Present' = Present \cup {Len(users) + 1} /\ Present \subseteq DOMAIN users
  BY <1>1 DEF Present
<1>3. \A u \in Present : users[u].email # row.email
  BY <1>1 DEF EmailFree, Present
<1>4. EmailsUnique'
  BY <1>1, <1>2, <1>3 DEF UsersSound, EmailsUnique
<1>5. PointageRights'
  BY <1>1, <1>2 DEF UsersSound, PointageRights
<1>6. Len(users') <= MaxUsers
  BY <1>1, Constants
<1>. QED
  BY <1>1, <1>2, <1>4, <1>5, <1>6 DEF UsersSound

(* A copy is saved, also over an account that was deleted meanwhile, if    *)
(* nobody else has its e-mail.                                             *)
LEMMA UserSaved ==
  ASSUME UsersSound, NEW u \in DOMAIN users, NEW row \in User, ~row.gone, Allowed(row.may),
         EmailFree(row.email, u), users' = [users EXCEPT ![u] = row]
  PROVE  UsersSound' /\ Present \subseteq Present' /\ DOMAIN users' = DOMAIN users
<1>1. /\ users' \in Seq(User) /\ Len(users') = Len(users) /\ DOMAIN users' = DOMAIN users
      /\ users'[u] = row /\ \A v \in DOMAIN users \ {u} : users'[v] = users[v]
  BY DEF UsersSound
<1>2. Present' = Present \cup {u}
  BY <1>1 DEF Present
<1>3. EmailsUnique'
  BY <1>1, <1>2 DEF UsersSound, EmailsUnique, EmailFree, Present
<1>4. PointageRights'
  BY <1>1, <1>2 DEF UsersSound, PointageRights, Present
<1>. QED
  BY <1>1, <1>2, <1>3, <1>4 DEF UsersSound

(* Accounts are deleted.                                                   *)
LEMMA UsersDropped ==
  ASSUME UsersSound, NEW U, users' = Erase(users, U)
  PROVE  UsersSound' /\ Present' = Present \ U /\ DOMAIN users' = DOMAIN users
<1>1. \A r \in User : [r EXCEPT !.gone = TRUE] \in User /\ [r EXCEPT !.gone = TRUE].gone
  BY DEF User
<1>2. /\ users' \in Seq(User) /\ Len(users') = Len(users) /\ DOMAIN users' = DOMAIN users
      /\ \A i \in DOMAIN users \ U : users'[i] = users[i]
      /\ \A i \in DOMAIN users \cap U : users'[i] = [users[i] EXCEPT !.gone = TRUE]
  <2>1. users \in Seq(User) /\ \A r \in User : [r EXCEPT !.gone = TRUE] \in User
    BY <1>1 DEF UsersSound
  <2>. QED
    BY <2>1, ErasedRows
<1>3. ASSUME NEW i \in DOMAIN users \cap U PROVE users'[i].gone
  <2>1. users[i] \in User
    BY DEF UsersSound
  <2>. QED
    BY <1>1, <1>2, <2>1
<1>4. Present' = Present \ U
  BY <1>2, <1>3 DEF Present
<1>5. EmailsUnique' /\ PointageRights'
  BY <1>2, <1>4 DEF UsersSound, EmailsUnique, PointageRights, Present
<1>. QED
  BY <1>2, <1>4, <1>5 DEF UsersSound

-----------------------------------------------------------------------------
(* What the writes do to the memberships                                   *)

(* Nobody loses an account by others' gain.                                *)
LEMMA MembersKept ==
  ASSUME MembersSound, Present \subseteq Present', UNCHANGED members
  PROVE  MembersSound' /\ DOMAIN members' = DOMAIN members
BY DEF MembersSound, MembershipsUnique, Belongings

(* A membership is added where there was none.                             *)
LEMMA MemberAdded ==
  ASSUME MembersSound, NEW row \in Membership, ~row.gone, row.user \in Present,
         \A m \in Belongings : members[m].user # row.user \/ members[m].store # row.store,
         members' = Append(members, row), UNCHANGED users
  PROVE  MembersSound' /\ DOMAIN members \subseteq DOMAIN members'
<1>1. /\ members' \in Seq(Membership) /\ DOMAIN members' = 1..(Len(members) + 1)
      /\ DOMAIN members = 1..Len(members) /\ members'[Len(members) + 1] = row
      /\ \A m \in DOMAIN members : members'[m] = members[m]
  BY DEF MembersSound
<1>2. Belongings' = Belongings \cup {Len(members) + 1} /\ Belongings \subseteq DOMAIN members
  BY <1>1 DEF Belongings
<1>3. MembershipsUnique'
  BY <1>1, <1>2 DEF MembersSound, MembershipsUnique
<1>4. \A m \in Belongings' : members'[m].user \in Present'
  BY <1>1, <1>2 DEF MembersSound, Present
<1>. QED
  BY <1>1, <1>2, <1>3, <1>4 DEF MembersSound

(* Roles and activity change, but neither account nor store.               *)
LEMMA MembersChanged ==
  ASSUME MembersSound, members' \in Seq(Membership), DOMAIN members' = DOMAIN members,
         \A m \in DOMAIN members : \/ members'[m].gone
                                   \/ /\ ~members[m].gone
                                      /\ members'[m].user = members[m].user
                                      /\ members'[m].store = members[m].store,
         \A m \in DOMAIN members : ~members'[m].gone => members[m].user \in Present'
  PROVE  MembersSound'
<1>1. Belongings' \subseteq Belongings
  BY DEF Belongings
<1>2. \A m \in Belongings' : m \in DOMAIN members /\ ~members'[m].gone
  BY DEF Belongings
<1>3. MembershipsUnique'
  BY <1>1, <1>2 DEF MembersSound, MembershipsUnique
<1>4. \A m \in Belongings' : members'[m].user \in Present'
  BY <1>2
<1>. QED
  BY <1>3, <1>4 DEF MembersSound

(* update_or_create enrols once.                                           *)
LEMMA MemberEnrolled ==
  ASSUME UsersSound, MembersSound, NEW u \in Present, NEW s \in Stores, NEW role \in Roles,
         members' = Enrolled(u, s, role), UNCHANGED users
  PROVE  MembersSound' /\ DOMAIN members \subseteq DOMAIN members'
<1>. DEFINE there == {m \in MembersOf({u}) : members[m].store = s}
<1>1. CASE there = {}
  <2>. DEFINE row == [user |-> u, store |-> s, role |-> role, active |-> TRUE, gone |-> FALSE]
  <2>1. u \in 1..MaxUsers
    BY PresentRow, Constants DEF UsersSound
  <2>2. row \in Membership
    BY <2>1 DEF Membership
  <2>3. \A m \in Belongings : members[m].user # u \/ members[m].store # s
    BY <1>1 DEF MembersOf
  <2>4. members' = Append(members, row)
    BY <1>1 DEF Enrolled
  <2>. QED
    BY <2>2, <2>3, <2>4, MemberAdded
<1>2. CASE there # {}
  <2>1. members' = [m \in DOMAIN members |->
                      IF m \in there THEN [members[m] EXCEPT !.role = role, !.active = TRUE]
                      ELSE members[m]]
    BY <1>2 DEF Enrolled
  <2>2. ASSUME NEW r \in Membership
        PROVE  LET q == [r EXCEPT !.role = role, !.active = TRUE]
               IN  q \in Membership /\ q.gone = r.gone /\ q.user = r.user /\ q.store = r.store
    BY DEF Membership
  <2>3. /\ members \in Seq(Membership) /\ DOMAIN members = 1..Len(members)
        /\ \A m \in DOMAIN members : members[m] \in Membership
    BY DEF MembersSound
  <2>4. \A m \in DOMAIN members : /\ members'[m] \in Membership
                                  /\ members'[m].gone = members[m].gone
                                  /\ members'[m].user = members[m].user
                                  /\ members'[m].store = members[m].store
    BY <2>1, <2>2, <2>3
  <2>5. members' \in [1..Len(members) -> Membership]
    BY <2>1, <2>3, <2>4
  <2>6. members' \in Seq(Membership) /\ DOMAIN members' = DOMAIN members
    BY <2>3, <2>5
  <2>7. \A m \in DOMAIN members : ~members'[m].gone => members[m].user \in Present'
    BY <2>4 DEF MembersSound, Belongings, Present
  <2>. QED
    BY <2>4, <2>6, <2>7, MembersChanged
<1>. QED
  BY <1>1, <1>2

(* Memberships are withdrawn.                                              *)
LEMMA MembersErased ==
  ASSUME MembersSound, NEW ids, members' = Erase(members, ids),
         \A m \in Belongings \ ids : members[m].user \in Present'
  PROVE  MembersSound' /\ DOMAIN members' = DOMAIN members
<1>1. \A r \in Membership : [r EXCEPT !.gone = TRUE] \in Membership /\ [r EXCEPT !.gone = TRUE].gone
  BY DEF Membership
<1>2. /\ members' \in Seq(Membership) /\ DOMAIN members' = DOMAIN members
      /\ \A m \in DOMAIN members \ ids : members'[m] = members[m]
      /\ \A m \in DOMAIN members \cap ids : members'[m] = [members[m] EXCEPT !.gone = TRUE]
  <2>1. members \in Seq(Membership) /\ \A r \in Membership : [r EXCEPT !.gone = TRUE] \in Membership
    BY <1>1 DEF MembersSound
  <2>. QED
    BY <2>1, ErasedRows
<1>3. ASSUME NEW m \in DOMAIN members \cap ids PROVE members'[m].gone
  <2>1. members[m] \in Membership
    BY DEF MembersSound
  <2>. QED
    BY <1>1, <1>2, <2>1
<1>. QED
  BY <1>2, <1>3, MembersChanged DEF Belongings

(* A copy of a membership is saved, also over one withdrawn meanwhile.     *)
LEMMA MemberSaved ==
  ASSUME MembersSound, NEW id \in DOMAIN members, NEW row \in Membership, ~row.gone,
         MayBelong(row.user, row.store, id), members' = [members EXCEPT ![id] = row],
         UNCHANGED users
  PROVE  MembersSound' /\ DOMAIN members' = DOMAIN members
<1>1. /\ members' \in Seq(Membership) /\ DOMAIN members' = DOMAIN members
      /\ members'[id] = row /\ \A m \in DOMAIN members \ {id} : members'[m] = members[m]
  BY DEF MembersSound
<1>2. Belongings' = Belongings \cup {id}
  BY <1>1 DEF Belongings
<1>3. \A m \in Belongings \ {id} : members[m].user # row.user \/ members[m].store # row.store
  BY DEF MayBelong, MembersOf
<1>4. MembershipsUnique'
  BY <1>1, <1>2, <1>3 DEF MembersSound, MembershipsUnique, Belongings
<1>5. \A m \in Belongings' : members'[m].user \in Present'
  BY <1>1, <1>2 DEF MembersSound, MayBelong, Belongings, Present
<1>. QED
  BY <1>1, <1>4, <1>5 DEF MembersSound

(* A finite set is listed without repetition.                              *)
LEMMA ListedOnce ==
  ASSUME NEW S, IsFiniteSet(S)
  PROVE  /\ SetToSeq(S) \in [1..Cardinality(S) -> S] /\ Cardinality(S) \in Nat
         /\ \A i, j \in 1..Cardinality(S) : SetToSeq(S)[i] = SetToSeq(S)[j] => i = j
<1>1. Cardinality(S) \in Nat /\ ExistsBijection(1..Cardinality(S), S)
  BY FS_CardinalityType
<1>2. \E f \in [1..Cardinality(S) -> S] : IsInjective(f)
  BY <1>1 DEF ExistsBijection, Bijection, Injection
<1>3. SetToSeq(S) \in [1..Cardinality(S) -> S] /\ IsInjective(SetToSeq(S))
  BY <1>2, Zenon DEF SetToSeq
<1>4. DOMAIN SetToSeq(S) = 1..Cardinality(S)
  BY <1>3
<1>. QED
  BY <1>1, <1>3, <1>4, Zenon DEF IsInjective

(* An element of a sequence.                                               *)
LEMMA Element ==
  ASSUME NEW Type, NEW list \in Seq(Type), NEW i \in DOMAIN list
  PROVE  list[i] \in Type
OBVIOUS

(* Two sequences, one after the other.                                     *)
LEMMA Joined ==
  ASSUME NEW Type, NEW a \in Seq(Type), NEW b \in Seq(Type)
  PROVE  a \o b \in Seq(Type) /\ Len(a \o b) = Len(a) + Len(b)
OBVIOUS

(* Memberships that stay, and new ones none of them stands for.            *)
LEMMA MembersJoined ==
  ASSUME MembersSound, UNCHANGED users,
         NEW kept \in Seq(Membership), Len(kept) = Len(members), NEW added \in Seq(Membership),
         members' = kept \o added,
         \A m \in DOMAIN kept : \/ kept[m].gone
                                \/ /\ ~members[m].gone
                                   /\ kept[m].user = members[m].user
                                   /\ kept[m].store = members[m].store,
         \A m \in DOMAIN kept : kept[m].user = members[m].user,
         \A i \in DOMAIN added :
           /\ added[i].user \in Present
           /\ \A m \in DOMAIN kept : \/ kept[m].gone
                                     \/ kept[m].user # added[i].user
                                     \/ kept[m].store # added[i].store,
         \A i, j \in DOMAIN added :
           added[i].user = added[j].user /\ added[i].store = added[j].store => i = j
  PROVE  MembersSound' /\ Steady
<1>. DEFINE n == Len(kept)
            k == Len(added)
<1>1. /\ n \in Nat /\ k \in Nat /\ DOMAIN members = 1..n
      /\ DOMAIN kept = 1..n /\ DOMAIN added = 1..k
  BY DEF MembersSound
<1>2. members' \in Seq(Membership) /\ DOMAIN members' = 1..(n + k)
  <2>1. kept \o added \in Seq(Membership) /\ Len(kept \o added) = n + k
    BY Joined
  <2>. QED
    BY <2>1
<1>3. \A m \in 1..n : members'[m] = kept[m]
  BY <1>1
<1>4. \A m \in 1..(n + k) : m \notin 1..n => m - n \in 1..k /\ members'[m] = added[m - n]
  BY <1>1
<1>. HIDE DEF n, k
<1>5. \A m \in Belongings' : m \in 1..(n + k) /\ ~members'[m].gone
  BY <1>2 DEF Belongings
<1>6. ASSUME NEW m \in Belongings', m \in 1..n
      PROVE  /\ m \in Belongings /\ members'[m] = kept[m]
             /\ members'[m].user = members[m].user /\ members'[m].store = members[m].store
  <2>1. members'[m] = kept[m] /\ ~kept[m].gone /\ m \in DOMAIN kept
    BY <1>1, <1>3, <1>5, <1>6
  <2>. QED
    BY <1>1, <1>6, <2>1 DEF Belongings
<1>7. ASSUME NEW m \in Belongings', m \notin 1..n
      PROVE  m - n \in DOMAIN added /\ members'[m] = added[m - n]
  BY <1>1, <1>4, <1>5, <1>7
<1>8. ASSUME NEW p \in Belongings', NEW q \in Belongings', p \in 1..n, q \notin 1..n
      PROVE  members'[p].user # members'[q].user \/ members'[p].store # members'[q].store
  <2>1. members'[p] = kept[p] /\ p \in DOMAIN kept /\ ~kept[p].gone
    BY <1>1, <1>5, <1>6, <1>8
  <2>2. members'[q] = added[q - n] /\ q - n \in DOMAIN added
    BY <1>7, <1>8
  <2>. QED
    BY <2>1, <2>2
<1>9. MembershipsUnique'
  <2> SUFFICES ASSUME NEW p \in Belongings', NEW q \in Belongings',
                      members'[p].user = members'[q].user, members'[p].store = members'[q].store
               PROVE  p = q
    BY DEF MembershipsUnique
  <2>1. CASE p \in 1..n /\ q \in 1..n
    <3>1. /\ p \in Belongings /\ q \in Belongings
          /\ members[p].user = members[q].user /\ members[p].store = members[q].store
      BY <1>6, <2>1
    <3>. QED
      BY <3>1 DEF MembersSound, MembershipsUnique
  <2>2. CASE p \notin 1..n /\ q \notin 1..n
    <3>1. /\ p - n \in DOMAIN added /\ members'[p] = added[p - n]
          /\ q - n \in DOMAIN added /\ members'[q] = added[q - n]
      BY <1>7, <2>2
    <3>2. p - n = q - n
      BY <3>1
    <3>3. p \in Nat /\ q \in Nat
      BY <1>1, <1>5
    <3>. QED
      BY <1>1, <3>2, <3>3
  <2>. QED
    BY <1>8, <2>1, <2>2
<1>10. ASSUME NEW m \in Belongings' PROVE members'[m].user \in Present'
  <2>1. Present' = Present
    BY DEF Present
  <2>2. CASE m \in 1..n
    BY <1>6, <2>1, <2>2 DEF MembersSound
  <2>3. CASE m \notin 1..n
    BY <1>7, <2>1, <2>3
  <2>. QED
    BY <2>2, <2>3
<1>11. Steady
  BY <1>1, <1>2, <1>3 DEF Steady
<1>. QED
  BY <1>2, <1>9, <1>10, <1>11 DEF MembersSound

(* The store form leaves each of those it names one membership.            *)
LEMMA StoreStaffed ==
  ASSUME UsersSound, MembersSound, NEW s \in Stores, NEW U \in SUBSET Present,
         NEW roles \in [U -> Roles], members' = Staffed(s, roles), UNCHANGED users
  PROVE  MembersSound' /\ Steady
<1>. DEFINE of == {m \in Belongings : members[m].store = s}
            new == {u \in U : \A m \in of : members[m].user # u}
            Member(u) == [user |-> u, store |-> s, role |-> roles[u], active |-> TRUE, gone |-> FALSE]
            rows == {Member(u) : u \in new}
            added == SetToSeq(rows)
            kept == [m \in DOMAIN members |->
                       IF m \notin of THEN members[m]
                       ELSE IF members[m].user \in U
                            THEN [members[m] EXCEPT !.role = roles[members[m].user], !.active = TRUE]
                            ELSE [members[m] EXCEPT !.gone = TRUE]]
<1>1. members' = kept \o added
  BY DEF Staffed
<1>2. IsFiniteSet(new)
  <2>1. IsFiniteSet(1..Len(users)) /\ new \subseteq 1..Len(users)
    BY FS_Interval, PresentRow DEF UsersSound
  <2>. QED
    BY <2>1, FS_Subset
<1>3. IsFiniteSet(rows)
  <2>. DEFINE f == [u \in new |-> Member(u)]
  <2>. HIDE DEF new, Member
  <2>1. f \in [new -> rows] /\ \A row \in rows : \E u \in new : f[u] = row
    OBVIOUS
  <2>2. f \in Surjection(new, rows)
    BY <2>1 DEF Surjection
  <2>. QED
    BY <1>2, <2>2, FS_Surjection
<1>4. \A row \in rows : /\ row \in Membership /\ row.user \in new /\ row.store = s
                        /\ row = Member(row.user)
  <2>1. \A u \in new : u \in 1..MaxUsers
    BY PresentRow, Constants DEF UsersSound
  <2>2. ASSUME NEW u \in new PROVE Member(u) \in Membership /\ Member(u).user = u /\ Member(u).store = s
    BY <2>1 DEF Membership
  <2>. HIDE DEF new, Member
  <2>. QED
    BY <2>2
<1>5. /\ DOMAIN members = 1..Len(members) /\ Len(members) \in Nat
      /\ \A m \in 1..Len(members) : members[m] \in Membership
  BY DEF MembersSound
<1>. DEFINE Gone(r) == [r EXCEPT !.gone = TRUE]
<1>5a. ASSUME NEW r \in Membership PROVE Gone(r) \in Membership /\ Gone(r).gone /\ Gone(r).user = r.user
  BY DEF Membership
<1>6. ASSUME NEW m \in 1..Len(members)
      PROVE  /\ kept[m] \in Membership
             /\ kept[m].user = members[m].user
             /\ \/ kept[m].gone
                \/ /\ ~members[m].gone
                   /\ kept[m].user = members[m].user
                   /\ kept[m].store = members[m].store
                   /\ m \in of => members[m].user \in U
  <2>1. CASE m \notin of
    BY <1>5, <2>1 DEF Membership
  <2>2. CASE m \in of /\ members[m].user \in U
    <3>1. members[m] \in Membership /\ roles[members[m].user] \in Roles /\ ~members[m].gone
      BY <1>5, <2>2 DEF Belongings
    <3>2. kept[m] = [members[m] EXCEPT !.role = roles[members[m].user], !.active = TRUE]
      BY <1>5, <2>2
    <3>. HIDE DEF kept, of
    <3>. QED
      BY <2>2, <3>1, <3>2 DEF Membership
  <2>3. CASE m \in of /\ members[m].user \notin U
    <3>1. kept[m] = Gone(members[m])
      BY <1>5, <2>3
    <3>. HIDE DEF kept, Gone
    <3>2. kept[m] \in Membership /\ kept[m].gone /\ kept[m].user = members[m].user
      BY <1>5, <1>5a, <3>1
    <3>. QED
      BY <2>3, <3>2
  <2>. QED
    BY <2>1, <2>2, <2>3
<1>7. \A m \in 1..Len(members) : m \in of <=> ~members[m].gone /\ members[m].store = s
  BY <1>5 DEF Belongings
<1>8. DOMAIN kept = 1..Len(members) /\ kept = [m \in 1..Len(members) |-> kept[m]]
  BY <1>5
<1>9. \A u \in new : u \in Present /\ \A m \in of : members[m].user # u
  OBVIOUS
<1>. HIDE DEF kept, rows, of, new, Member
<1>10. kept \in Seq(Membership) /\ Len(kept) = Len(members)
  <2>1. kept \in [1..Len(members) -> Membership]
    BY <1>6, <1>8
  <2>. QED
    BY <1>5, <2>1
<1>11. /\ added \in [1..Cardinality(rows) -> rows] /\ Cardinality(rows) \in Nat
       /\ \A i, j \in 1..Cardinality(rows) : added[i] = added[j] => i = j
  BY <1>3, ListedOnce
<1>. HIDE DEF added
<1>12. added \in Seq(Membership) /\ DOMAIN added = 1..Cardinality(rows)
  BY <1>4, <1>11
<1>13. ASSUME NEW i \in DOMAIN added
       PROVE  /\ added[i].user \in Present
              /\ \A m \in DOMAIN kept : \/ kept[m].gone
                                        \/ kept[m].user # added[i].user
                                        \/ kept[m].store # added[i].store
  <2>1. added[i].user \in new /\ added[i].store = s
    BY <1>4, <1>11, <1>12
  <2>. QED
    BY <1>6, <1>7, <1>8, <1>9, <2>1
<1>14. ASSUME NEW i \in DOMAIN added, NEW j \in DOMAIN added, added[i].user = added[j].user
       PROVE  i = j
  <2>1. added[i] = Member(added[i].user) /\ added[j] = Member(added[j].user)
    BY <1>4, <1>11, <1>12
  <2>. QED
    BY <1>11, <1>12, <1>14, <2>1
<1>15. \A m \in DOMAIN kept : /\ kept[m].user = members[m].user
                              /\ \/ kept[m].gone
                                 \/ /\ ~members[m].gone
                                    /\ kept[m].user = members[m].user
                                    /\ kept[m].store = members[m].store
  BY <1>6, <1>8
<1>16. \A i, j \in DOMAIN added :
         added[i].user = added[j].user /\ added[i].store = added[j].store => i = j
  BY <1>14
<1>. QED
  BY <1>1, <1>10, <1>12, <1>13, <1>15, <1>16, MembersJoined

-----------------------------------------------------------------------------
(* What requests read                                                      *)

(* Accounts that are not written stay.                                     *)
LEMMA UsersKept ==
  ASSUME UsersSound, UNCHANGED users
  PROVE  UsersSound' /\ Present' = Present /\ DOMAIN users' = DOMAIN users
BY DEF UsersSound, EmailsUnique, PointageRights, Present

(* Requests that the write was not about keep their copies.                *)
LEMMA OthersKept ==
  ASSUME CopiesAreSane, \A s \in Slots : at'[s] = at[s] \/ at'[s].op = "sync",
         DOMAIN users \subseteq DOMAIN users', DOMAIN members \subseteq DOMAIN members'
  PROVE  CopiesAreSane'
<1> SUFFICES ASSUME NEW s \in Slots PROVE Sane(at'[s], DOMAIN users', DOMAIN members')
  BY DEF CopiesAreSane
<1>1. CASE at'[s] = at[s]
  BY <1>1, SaneGrows DEF CopiesAreSane
<1>2. CASE at'[s].op = "sync"
  BY <1>2 DEF Sane
<1>. QED
  BY <1>1, <1>2

(* A request that only reads.                                              *)
LEMMA Reads ==
  ASSUME IInv, NEW t, NEW place, Goto(t, place, {}), Sane(place, DOMAIN users, DOMAIN members),
         UNCHANGED <<users, members, open>>, thumbs' \subseteq thumbs, edits' \in 0..MaxEdits
  PROVE  IInv'
<1>1. UsersSound' /\ Present \subseteq Present' /\ DOMAIN users' = DOMAIN users
  BY UsersKept DEF IInv
<1>2. MembersSound' /\ DOMAIN members' = DOMAIN members
  BY <1>1, MembersKept DEF IInv
<1>3. RestTyped'
  BY <1>1 DEF IInv, RestTyped
<1>4. CopiesAreSane'
  BY <1>1, <1>2, Moved DEF IInv
<1>. QED
  BY <1>1, <1>2, <1>3, <1>4 DEF IInv

(* The number of requests begun.                                           *)
LEMMA Counted ==
  ASSUME RestTyped, edits < MaxEdits, edits' = edits + 1
  PROVE  edits' \in 0..MaxEdits
BY Constants DEF RestTyped

(* The copy of an account that is to be saved, with rights that may be.    *)
LEMMA SavingSane ==
  ASSUME UsersSound, NEW by, NEW u \in Present, NEW may \in Row, Allowed(may), NEW list, NEW times
  PROVE  Sane(Saving(by, u, may, list, times), DOMAIN users, DOMAIN members)
<1>. DEFINE row == [users[u] EXCEPT !.may = may]
<1>1. row \in User /\ ~row.gone /\ row.may = may
  BY PresentRow DEF User
<1>2. u \in DOMAIN users
  BY PresentRow
<1>. HIDE DEF row
<1>3. Saving(by, u, may, list, times)
        = [op |-> "save", by |-> by, seen |-> users[by], user |-> u, row |-> row,
           stores |-> list, times |-> times]
  BY DEF Saving, row
<1>. QED
  BY <1>1, <1>2, <1>3 DEF Sane

(* One that is saved as it was read.                                       *)
LEMMA OwnSane ==
  ASSUME UsersSound, NEW u \in Present, NEW times
  PROVE  Sane(SavingOwn(u, times), DOMAIN users, DOMAIN members)
BY PresentRow, SavingSane DEF SavingOwn

(* One that the SSO gives the e-mail of its claims.                        *)
LEMMA SSOCopy ==
  ASSUME UsersSound, NEW u \in Present, NEW e \in Emails
  PROVE  \E place :
           /\ place = [SavingOwn(u, 1) EXCEPT !.row.email = e]
           /\ place.op = "save" /\ place.user = u /\ place.by = u /\ place.times = 1
           /\ place.seen = users[u] /\ place.stores = NoStores
           /\ place.row \in User /\ place.row.may = users[u].may /\ ~place.row.gone
<1>. DEFINE row == [users[u] EXCEPT !.email = e]
<1>1. row \in User /\ row.may = users[u].may /\ ~row.gone
  BY PresentRow DEF User
<1>2. [users[u] EXCEPT !.may = users[u].may] = users[u]
  BY PresentRow DEF User
<1>3. SavingOwn(u, 1) = [op |-> "save", by |-> u, seen |-> users[u], user |-> u, row |-> users[u],
                         stores |-> NoStores, times |-> 1]
  BY <1>2 DEF SavingOwn, Saving
<1>4. [SavingOwn(u, 1) EXCEPT !.row.email = e]
        = [op |-> "save", by |-> u, seen |-> users[u], user |-> u, row |-> row,
           stores |-> NoStores, times |-> 1]
  BY <1>3
<1>. HIDE DEF row
<1>. QED
  BY <1>1, <1>4

LEMMA SSOSane ==
  ASSUME UsersSound, NEW u \in Present, NEW e \in Emails
  PROVE  Sane([SavingOwn(u, 1) EXCEPT !.row.email = e], DOMAIN users, DOMAIN members)
<1>1. u \in DOMAIN users /\ Allowed(users[u].may)
  BY PresentRow
<1>2. PICK place : /\ place = [SavingOwn(u, 1) EXCEPT !.row.email = e]
                   /\ place.op = "save" /\ place.user = u
                   /\ place.row \in User /\ place.row.may = users[u].may /\ ~place.row.gone
  BY SSOCopy, Zenon
<1>3. Sane(place, DOMAIN users, DOMAIN members)
  BY <1>1, <1>2 DEF Sane
<1>. QED
  BY <1>2, <1>3, Zenon

(* What a new account's form was found to be.                              *)
LEMMA ValidatedSane ==
  ASSUME NEW e \in Emails, NEW flags \in Flags
  PROVE  Validated(e, flags) \in User /\ ~Validated(e, flags).gone
         /\ Allowed(Validated(e, flags).may)
BY FilledAllowed, NewcomerAllowed DEF Validated, User

(* Where the form of an account goes on has no copy.                       *)
LEMMA SynchroniseSane ==
  ASSUME NEW t, NEW u, NEW U, NEW M
  PROVE  Sane(Synchronise(t, u), U, M) /\ Sane(Idle, U, M)
BY DEF Sane, Synchronise, Idle

-----------------------------------------------------------------------------
(* The invariant holds at first                                            *)

LEMMA InitInvariant == Init => IInv
<1> SUFFICES ASSUME Init PROVE IInv
  OBVIOUS
<1>1. /\ users \in Seq([email : Emails, may : {may \in Row : Allowed(may)}, gone : {FALSE}])
      /\ Len(users) <= MaxUsers /\ EmailsUnique
  BY AccountsAssumption DEF AccountsAssumption, Init, EmailsUnique, Present
<1>2. ASSUME NEW u \in DOMAIN users
      PROVE  users[u] \in User /\ ~users[u].gone /\ Allowed(users[u].may)
  <2>1. users[u] \in [email : Emails, may : {may \in Row : Allowed(may)}, gone : {FALSE}]
    BY <1>1, Element
  <2>. QED
    BY <2>1 DEF User
<1>3. UsersSound /\ Present = DOMAIN users
  <2>1. users \in [1..Len(users) -> User] /\ Len(users) \in Nat
    BY <1>1, <1>2
  <2>2. users \in Seq(User)
    BY <2>1
  <2>. QED
    BY <1>1, <1>2, <2>2 DEF UsersSound, PointageRights, Present
<1>4. /\ members \in Seq([user : DOMAIN users, store : Stores, role : Roles,
                          active : BOOLEAN, gone : {FALSE}])
      /\ MembershipsUnique
  BY AccountsAssumption DEF AccountsAssumption, Init, MembershipsUnique, Belongings
<1>5. ASSUME NEW m \in DOMAIN members PROVE members[m] \in Membership /\ members[m].user \in Present
  <2>1. members[m] \in [user : DOMAIN users, store : Stores, role : Roles,
                        active : BOOLEAN, gone : {FALSE}]
    BY <1>4, Element
  <2>2. DOMAIN users \subseteq 1..MaxUsers
    BY <1>3, Constants DEF UsersSound
  <2>. QED
    BY <1>3, <2>1, <2>2 DEF Membership
<1>6. MembersSound
  <2>1. members \in [1..Len(members) -> Membership] /\ Len(members) \in Nat
    BY <1>4, <1>5
  <2>2. members \in Seq(Membership)
    BY <2>1
  <2>. QED
    BY <1>4, <1>5, <2>2 DEF MembersSound, Belongings
<1>7. RestTyped
  BY Constants DEF Init, RestTyped
<1>8. CopiesAreSane
  BY DEF Init, CopiesAreSane, Sane, Idle
<1>. QED
  BY <1>3, <1>6, <1>7, <1>8 DEF IInv

-----------------------------------------------------------------------------
(* Each step keeps it: the forms of accounts                               *)

(* UsersListCreateView.post, the serializer.                               *)
LEMMA BeginCreateKeeps ==
  ASSUME IInv, NEW t \in Slots, NEW by, NEW e \in Emails, NEW flags \in Flags, NEW list,
         BeginCreate(t, by, e, flags, list)
  PROVE  IInv'
<1>. DEFINE place == [op |-> "create", by |-> by, seen |-> users[by], row |-> Validated(e, flags),
                      stores |-> list]
<1>1. Sane(place, DOMAIN users, DOMAIN members)
  BY ValidatedSane DEF Sane
<1>2. Goto(t, place, {}) /\ edits < MaxEdits /\ edits' = edits + 1
      /\ UNCHANGED <<users, members, open, thumbs>>
  BY DEF BeginCreate, Begins
<1>. HIDE DEF place
<1>. QED
  BY <1>1, <1>2, Counted, Reads DEF IInv

(* Its insert.                                                             *)
LEMMA InsertUserKeeps ==
  ASSUME IInv, NEW t \in Slots, InsertUser(t)
  PROVE  IInv'
<1>1. /\ at[t].op = "create" /\ UNCHANGED <<members, open, edits>>
      /\ at[t].row \in User /\ ~at[t].row.gone /\ Allowed(at[t].row.may)
  BY DEF InsertUser, At, IInv, CopiesAreSane, Sane
<1>2. CASE EmailFree(at[t].row.email, 0)
  <2>1. /\ Len(users) + 1 <= MaxUsers /\ users' = Append(users, at[t].row)
        /\ Goto(t, Synchronise(t, Len(users) + 1), {})
        /\ thumbs' \in {thumbs, thumbs \cup {Len(users) + 1}}
    BY <1>2 DEF InsertUser
  <2>2. /\ UsersSound' /\ Present \subseteq Present'
        /\ DOMAIN users \subseteq DOMAIN users' /\ Len(users) + 1 \in DOMAIN users'
    <3>1. Len(users) < MaxUsers
      BY <2>1, Constants DEF IInv, UsersSound
    <3>. QED
      BY <1>1, <1>2, <2>1, <3>1, UserAdded DEF IInv
  <2>3. MembersSound' /\ DOMAIN members' = DOMAIN members
    BY <1>1, <2>2, MembersKept DEF IInv
  <2>4. RestTyped'
    BY <1>1, <2>1, <2>2 DEF IInv, RestTyped
  <2>5. CopiesAreSane'
    BY <2>1, <2>2, <2>3, SynchroniseSane, Moved DEF IInv
  <2>. QED
    BY <2>2, <2>3, <2>4, <2>5 DEF IInv
<1>3. CASE ~EmailFree(at[t].row.email, 0)
  <2>1. Goto(t, Idle, {}) /\ UNCHANGED <<users, members, open, thumbs, edits>>
    BY <1>1, <1>3 DEF InsertUser
  <2>. QED
    BY <2>1, SynchroniseSane, Reads DEF IInv, RestTyped
<1>. QED
  BY <1>2, <1>3

(* UserDetailEditDeleteView.put.                                           *)
LEMMA FetchUserKeeps ==
  ASSUME IInv, NEW t \in Slots, NEW by, NEW u \in Present, NEW flags \in Flags, NEW list,
         FetchUser(t, by, u, flags, list)
  PROVE  IInv'
<1>1. Sane(Saving(by, u, Filled(users[u].may, flags), list, 1), DOMAIN users, DOMAIN members)
  BY PresentRow, FilledAllowed, SavingSane DEF IInv
<1>2. /\ Goto(t, Saving(by, u, Filled(users[u].may, flags), list, 1), {})
      /\ edits < MaxEdits /\ edits' = edits + 1 /\ UNCHANGED <<users, members, open, thumbs>>
  BY DEF FetchUser, Begins
<1>. QED
  BY <1>1, <1>2, Counted, Reads DEF IInv

(* The profile, the password, and SSO.                                     *)
LEMMA FetchOwnKeeps ==
  ASSUME IInv, NEW t \in Slots, NEW u,
         FetchProfile(t, u) \/ ChangePassword(t, u) \/ \E e \in Emails : FetchBySSO(t, u, e)
  PROVE  IInv'
<1>1. /\ u \in Present
      /\ edits < MaxEdits /\ edits' = edits + 1 /\ UNCHANGED <<users, members, open, thumbs>>
  BY DEF FetchProfile, ChangePassword, FetchBySSO, Begins
<1>2. CASE FetchProfile(t, u) \/ ChangePassword(t, u)
  <2>1. Goto(t, SavingOwn(u, 1), {})
    BY <1>2 DEF FetchProfile, ChangePassword
  <2>. QED
    BY <1>1, <2>1, OwnSane, Counted, Reads DEF IInv
<1>3. ASSUME NEW e \in Emails, FetchBySSO(t, u, e) PROVE IInv'
  <2>1. Goto(t, [SavingOwn(u, 1) EXCEPT !.row.email = e], {})
    BY <1>3 DEF FetchBySSO
  <2>. QED
    BY <1>1, <2>1, SSOSane, Counted, Reads DEF IInv
<1>. QED
  BY <1>2, <1>3

(* generate_user_thumbnail.                                                *)
LEMMA TakeThumbKeeps ==
  ASSUME IInv, NEW t \in Slots, NEW u, TakeThumb(t, u)
  PROVE  IInv'
<1>1. thumbs' \subseteq thumbs /\ edits' \in 0..MaxEdits /\ UNCHANGED <<users, members, open>>
  BY DEF TakeThumb, IInv, RestTyped
<1>2. CASE u \in Present
  <2>1. Goto(t, SavingOwn(u, 2), {})
    BY <1>2 DEF TakeThumb
  <2>. QED
    BY <1>1, <1>2, <2>1, OwnSane, Reads DEF IInv
<1>3. CASE u \notin Present
  <2>1. UNCHANGED at
    BY <1>3 DEF TakeThumb
  <2>2. UsersSound' /\ Present \subseteq Present' /\ DOMAIN users' = DOMAIN users
    BY <1>1, UsersKept DEF IInv
  <2>3. MembersSound' /\ DOMAIN members' = DOMAIN members
    BY <1>1, <2>2, MembersKept DEF IInv
  <2>4. CopiesAreSane'
    BY <2>1, <2>2, <2>3, OthersKept DEF IInv
  <2>. QED
    BY <1>1, <2>2, <2>3, <2>4 DEF IInv, RestTyped
<1>. QED
  BY <1>2, <1>3

(* Model.save of a whole copy.                                             *)
LEMMA SaveUserKeeps ==
  ASSUME IInv, NEW t \in Slots, SaveUser(t)
  PROVE  IInv'
<1>. DEFINE row == at[t].row
            u == at[t].user
            place == IF at[t].times > 1 THEN [at[t] EXCEPT !.times = @ - 1] ELSE Synchronise(t, u)
<1>1. /\ at[t].op = "save" /\ UNCHANGED <<members, open, thumbs, edits>>
      /\ u \in DOMAIN users /\ row \in User /\ ~row.gone /\ Allowed(row.may)
  BY DEF SaveUser, At, IInv, CopiesAreSane, Sane
<1>2. CASE EmailFree(row.email, u)
  <2>1. users' = [users EXCEPT ![u] = row] /\ Goto(t, place, {})
    BY <1>2 DEF SaveUser
  <2>2. UsersSound' /\ Present \subseteq Present' /\ DOMAIN users' = DOMAIN users
    BY <1>1, <1>2, <2>1, UserSaved DEF IInv
  <2>3. MembersSound' /\ DOMAIN members' = DOMAIN members
    BY <1>1, <2>2, MembersKept DEF IInv
  <2>4. Sane(place, DOMAIN users', DOMAIN members')
    <3>1. CASE at[t].times > 1
      <4>1. place.op = "save" /\ place.row = row /\ place.user = u
        BY <1>1, <3>1
      <4>. HIDE DEF place
      <4>. QED
        BY <1>1, <2>2, <4>1 DEF Sane
    <3>2. CASE ~(at[t].times > 1)
      BY <3>2, SynchroniseSane
    <3>. QED
      BY <3>1, <3>2
  <2>. HIDE DEF place
  <2>5. CopiesAreSane'
    BY <2>1, <2>2, <2>3, <2>4, Moved DEF IInv
  <2>6. RestTyped'
    BY <1>1, <2>2 DEF IInv, RestTyped
  <2>. QED
    BY <2>2, <2>3, <2>5, <2>6 DEF IInv
<1>3. CASE ~EmailFree(row.email, u)
  <2>1. Goto(t, Idle, {}) /\ UNCHANGED <<users, members, open, thumbs, edits>>
    BY <1>1, <1>3 DEF SaveUser
  <2>. QED
    BY <2>1, SynchroniseSane, Reads DEF IInv, RestTyped
<1>. QED
  BY <1>2, <1>3

(* _get_or_create_user adds an account.                                    *)
LEMMA AddBySSOKeeps ==
  ASSUME IInv, NEW e \in Emails, AddBySSO(e)
  PROVE  IInv'
<1>. DEFINE row == [email |-> e, may |-> Newcomer, gone |-> FALSE]
<1>1. row \in User /\ ~row.gone /\ Allowed(row.may)
  BY NewcomerAllowed DEF User
<1>2. /\ EmailFree(row.email, 0) /\ Len(users) < MaxUsers /\ users' = Append(users, row)
      /\ UNCHANGED <<members, open, thumbs, at, edits>>
  BY DEF AddBySSO
<1>. HIDE DEF row
<1>3. UsersSound' /\ Present \subseteq Present' /\ DOMAIN users \subseteq DOMAIN users'
  BY <1>1, <1>2, UserAdded DEF IInv
<1>4. MembersSound' /\ DOMAIN members' = DOMAIN members
  BY <1>2, <1>3, MembersKept DEF IInv
<1>5. RestTyped'
  BY <1>2, <1>3 DEF IInv, RestTyped
<1>6. CopiesAreSane'
  BY <1>2, <1>3, <1>4, OthersKept DEF IInv
<1>. QED
  BY <1>3, <1>4, <1>5, <1>6 DEF IInv

-----------------------------------------------------------------------------
(* Each step keeps it: memberships and deletions                           *)

(* update_or_create for the next store of a form.                          *)
LEMMA EnrolNextKeeps ==
  ASSUME IInv, NEW t \in Slots, EnrolNext(t)
  PROVE  IInv'
<1>. DEFINE item == at[t].stores[at[t].next]
            place == [at[t] EXCEPT !.next = @ + 1]
            fine == /\ item.store \in open \ Submitted(t, at[t].next - 1)
                    /\ item.role \in Roles /\ at[t].user \in Present
<1>1. at[t].op = "sync" /\ UNCHANGED <<users, open, thumbs, edits>>
  BY DEF EnrolNext, At
<1>2. CASE fine
  <2>1. /\ members' = Enrolled(at[t].user, item.store, item.role)
        /\ Goto(t, place, {at[t].user})
    BY <1>2 DEF EnrolNext
  <2>2. MembersSound' /\ DOMAIN members \subseteq DOMAIN members'
    <3>1. /\ at[t].user \in Present /\ item.store \in Stores /\ item.role \in Roles
          /\ UsersSound /\ MembersSound /\ UNCHANGED users
      BY <1>1, <1>2 DEF IInv, RestTyped
    <3>. HIDE DEF item, place, fine
    <3>. QED
      BY <2>1, <3>1, MemberEnrolled
  <2>3. Sane(place, DOMAIN users', DOMAIN members')
    <3>1. place.op = "sync"
      BY <1>1
    <3>. HIDE DEF place
    <3>. QED
      BY <3>1 DEF Sane
  <2>. HIDE DEF place
  <2>4. UsersSound' /\ DOMAIN users' = DOMAIN users
    BY <1>1, UsersKept DEF IInv
  <2>5. CopiesAreSane'
    <3>1. CopiesAreSane /\ DOMAIN users \subseteq DOMAIN users'
      BY <2>4 DEF IInv
    <3>. HIDE DEF item, fine
    <3>. QED
      BY <2>1, <2>2, <2>3, <3>1, Moved
  <2>. QED
    BY <1>1, <2>2, <2>4, <2>5 DEF IInv, RestTyped
<1>3. CASE ~fine
  <2>1. Goto(t, Idle, {}) /\ UNCHANGED <<users, members, open, thumbs, edits>>
    BY <1>1, <1>3 DEF EnrolNext
  <2>. QED
    BY <2>1, SynchroniseSane, Reads DEF IInv, RestTyped
<1>. QED
  BY <1>2, <1>3

(* The others are withdrawn.                                               *)
LEMMA WithdrawOthersKeeps ==
  ASSUME IInv, NEW t \in Slots, WithdrawOthers(t)
  PROVE  IInv'
<1>1. /\ members' = Erase(members, Withdrawn(t)) /\ Goto(t, Idle, {at[t].user})
      /\ UNCHANGED <<users, open, thumbs, edits>>
  BY DEF WithdrawOthers
<1>2. UsersSound' /\ Present' = Present /\ DOMAIN users' = DOMAIN users
  BY <1>1, UsersKept DEF IInv
<1>3. MembersSound' /\ DOMAIN members' = DOMAIN members
  BY <1>1, <1>2, MembersErased DEF IInv, MembersSound
<1>4. CopiesAreSane'
  BY <1>1, <1>2, <1>3, SynchroniseSane, Moved DEF IInv
<1>. QED
  BY <1>1, <1>2, <1>3, <1>4 DEF IInv, RestTyped

(* A deletion collects.                                                    *)
LEMMA CollectUsersKeeps ==
  ASSUME IInv, NEW t \in Slots, NEW by, NEW U, CollectUsers(t, by, U)
  PROVE  IInv'
<1>. DEFINE place == [op |-> "delete", by |-> by, seen |-> users[by], users |-> U,
                      members |-> MembersOf(U)]
<1>1. Sane(place, DOMAIN users, DOMAIN members)
  BY DEF Sane
<1>2. Goto(t, place, {}) /\ edits < MaxEdits /\ edits' = edits + 1
      /\ UNCHANGED <<users, members, open, thumbs>>
  BY DEF CollectUsers, Begins
<1>. HIDE DEF place
<1>. QED
  BY <1>1, <1>2, Counted, Reads DEF IInv

(* It deletes no account that was given a membership meanwhile.            *)
LEMMA DropUsersKeeps ==
  ASSUME IInv, NEW t \in Slots, DropUsers(t)
  PROVE  IInv'
<1>. DEFINE U == at[t].users
            M == at[t].members
<1>1. Goto(t, Idle, U) /\ UNCHANGED <<open, thumbs, edits>>
  BY DEF DropUsers
<1>2. CASE MembersOf(U) \subseteq M
  <2>1. users' = Erase(users, U) /\ members' = Erase(members, M)
    BY <1>2 DEF DropUsers
  <2>2. UsersSound' /\ Present' = Present \ U /\ DOMAIN users' = DOMAIN users
    BY <2>1, UsersDropped DEF IInv
  <2>3. \A m \in Belongings \ M : members[m].user \in Present'
    BY <1>2, <2>2 DEF MembersOf, IInv, MembersSound
  <2>4. MembersSound' /\ DOMAIN members' = DOMAIN members
    BY <2>1, <2>3, MembersErased DEF IInv
  <2>5. CopiesAreSane'
    BY <1>1, <2>2, <2>4, SynchroniseSane, Moved DEF IInv
  <2>. QED
    BY <1>1, <2>2, <2>4, <2>5 DEF IInv, RestTyped
<1>3. CASE ~(MembersOf(U) \subseteq M)
  <2>1. UNCHANGED <<users, members>>
    BY <1>3 DEF DropUsers
  <2>2. UsersSound' /\ Present' = Present /\ DOMAIN users' = DOMAIN users
    BY <2>1, UsersKept DEF IInv
  <2>3. MembersSound' /\ DOMAIN members' = DOMAIN members
    BY <2>1, <2>2, MembersKept DEF IInv
  <2>4. CopiesAreSane'
    BY <1>1, <2>2, <2>3, SynchroniseSane, Moved DEF IInv
  <2>. QED
    BY <1>1, <2>2, <2>3, <2>4 DEF IInv, RestTyped
<1>. QED
  BY <1>2, <1>3

(* StoreMembershipListCreateView.                                          *)
LEMMA AddMemberKeeps ==
  ASSUME IInv, NEW u \in Present, NEW s \in Stores, NEW role \in Roles, AddMember(u, s, role)
  PROVE  IInv'
<1>1. PICK active \in BOOLEAN :
        members' = Append(members, [user |-> u, store |-> s, role |-> role, active |-> active,
                                    gone |-> FALSE])
  BY DEF AddMember
<1>. DEFINE row == [user |-> u, store |-> s, role |-> role, active |-> active, gone |-> FALSE]
<1>2. /\ MayBelong(u, s, 0) /\ edits < MaxEdits /\ edits' = edits + 1
      /\ UNCHANGED <<users, open, thumbs>>
  BY DEF AddMember
<1>3. row \in Membership
  <2>1. u \in 1..MaxUsers
    BY PresentRow, Constants DEF IInv, UsersSound
  <2>. QED
    BY <2>1 DEF Membership
<1>4. \A m \in Belongings : members[m].user # u \/ members[m].store # s
  <2>1. \A m \in Belongings : m # 0
    BY DEF Belongings, IInv, MembersSound
  <2>. QED
    BY <1>2, <2>1 DEF MayBelong, MembersOf
<1>5. MembersSound' /\ DOMAIN members \subseteq DOMAIN members'
  BY <1>1, <1>2, <1>3, <1>4, MemberAdded DEF IInv
<1>6. UsersSound' /\ DOMAIN users' = DOMAIN users
  BY <1>2, UsersKept DEF IInv
<1>7. \A t \in Slots : at'[t] = at[t] \/ at'[t].op = "sync"
  BY DEF AddMember, At
<1>8. CopiesAreSane'
  BY <1>5, <1>6, <1>7, OthersKept DEF IInv
<1>. QED
  BY <1>2, <1>5, <1>6, <1>8, Counted DEF IInv, RestTyped

(* StoreMembershipDetailEditDeleteView reads.                              *)
LEMMA FetchMemberKeeps ==
  ASSUME IInv, NEW t \in Slots, NEW by, NEW m, FetchMember(t, by, m)
  PROVE  IInv'
<1>. DEFINE place == [op |-> "member", by |-> by, seen |-> users[by], id |-> m, row |-> members[m]]
<1>1. Sane(place, DOMAIN users, DOMAIN members)
  <2>1. m \in DOMAIN members /\ members[m] \in Membership /\ ~members[m].gone
    BY DEF FetchMember, Belongings, IInv, MembersSound
  <2>. QED
    BY <2>1 DEF Sane
<1>2. Goto(t, place, {}) /\ edits < MaxEdits /\ edits' = edits + 1
      /\ UNCHANGED <<users, members, open, thumbs>>
  BY DEF FetchMember, Begins
<1>. HIDE DEF place
<1>. QED
  BY <1>1, <1>2, Counted, Reads DEF IInv

(* And writes.                                                             *)
LEMMA SaveMemberKeeps ==
  ASSUME IInv, NEW t \in Slots, SaveMember(t)
  PROVE  IInv'
<1>1. /\ Goto(t, Idle, {at[t].row.user}) /\ UNCHANGED <<users, open, thumbs, edits>>
      /\ at[t].id \in DOMAIN members /\ at[t].row \in Membership /\ ~at[t].row.gone
  BY DEF SaveMember, At, IInv, CopiesAreSane, Sane
<1>2. UsersSound' /\ Present' = Present /\ DOMAIN users' = DOMAIN users
  BY <1>1, UsersKept DEF IInv
<1>3. ASSUME NEW row \in MemberEdits(at[t].row) PROVE row \in Membership /\ ~row.gone
  BY <1>1 DEF MemberEdits, Membership
<1>4. MembersSound' /\ DOMAIN members' = DOMAIN members
  <2>1. CASE UNCHANGED members
    BY <1>2, <2>1, MembersKept DEF IInv
  <2>2. CASE members' = Erase(members, {at[t].id})
    BY <1>2, <2>2, MembersErased DEF IInv, MembersSound
  <2>3. CASE \E row \in MemberEdits(at[t].row) :
               /\ MayBelong(row.user, row.store, at[t].id)
               /\ members' = [members EXCEPT ![at[t].id] = row]
    BY <1>1, <1>3, <2>3, MemberSaved DEF IInv
  <2>. QED
    BY <2>1, <2>2, <2>3 DEF SaveMember
<1>5. CopiesAreSane'
  BY <1>1, <1>2, <1>4, SynchroniseSane, Moved DEF IInv
<1>. QED
  BY <1>1, <1>2, <1>4, <1>5 DEF IInv, RestTyped

(* The store form.                                                         *)
LEMMA StoreFormKeeps ==
  ASSUME IInv, NEW s \in Stores, NEW active \in BOOLEAN, NEW U \in SUBSET Present,
         NEW roles \in [U -> Roles], StoreForm(s, active, roles)
  PROVE  IInv'
<1>1. /\ open' = (IF active THEN open \cup {s} ELSE open \ {s}) /\ UNCHANGED <<users, thumbs>>
      /\ edits < MaxEdits /\ edits' = edits + 1
      /\ members' = members \/ members' = Staffed(s, roles)
  BY DEF StoreForm, Formed
<1>2. UsersSound' /\ Present' = Present /\ DOMAIN users' = DOMAIN users
  BY <1>1, UsersKept DEF IInv
<1>3. MembersSound' /\ DOMAIN members \subseteq DOMAIN members'
  <2>1. CASE members' = members
    BY <1>2, <2>1, MembersKept DEF IInv
  <2>2. CASE members' = Staffed(s, roles)
    BY <1>1, <2>2, StoreStaffed DEF IInv, Steady
  <2>. QED
    BY <1>1, <2>1, <2>2
<1>4. \A t \in Slots : at'[t] = at[t] \/ at'[t].op = "sync"
  BY DEF StoreForm, At
<1>5. CopiesAreSane'
  BY <1>2, <1>3, <1>4, OthersKept DEF IInv
<1>6. RestTyped'
  BY <1>1, <1>2, Counted DEF IInv, RestTyped
<1>. QED
  BY <1>2, <1>3, <1>5, <1>6 DEF IInv

-----------------------------------------------------------------------------
(* The theorems                                                            *)

LEMMA NextInvariant == IInv /\ [Next]_vars => IInv'
<1> SUFFICES ASSUME IInv, [Next]_vars PROVE IInv'
  OBVIOUS
<1>1. CASE UNCHANGED vars
  <2>1. UNCHANGED <<users, members, open, thumbs, at, edits>>
    BY <1>1 DEF vars
  <2>2. UsersSound' /\ Present' = Present /\ DOMAIN users' = DOMAIN users
    BY <2>1, UsersKept DEF IInv
  <2>3. MembersSound' /\ DOMAIN members' = DOMAIN members
    BY <2>1, <2>2, MembersKept DEF IInv
  <2>4. CopiesAreSane'
    BY <2>1, <2>2, <2>3, OthersKept DEF IInv
  <2>. QED
    BY <2>1, <2>2, <2>3, <2>4 DEF IInv, RestTyped
<1>2. ASSUME NEW t \in Slots, Work(t) PROVE IInv'
  BY <1>2, InsertUserKeeps, SaveUserKeeps, EnrolNextKeeps, WithdrawOthersKeeps,
     DropUsersKeeps, SaveMemberKeeps, Zenon DEF Work
<1>3. ASSUME NEW t \in Slots, UserDesk(t) PROVE IInv'
  <2>1. CASE \E by \in Present, flags \in Flags, list \in Lists, e \in Emails :
               BeginCreate(t, by, e, flags, list)
    BY <2>1, BeginCreateKeeps, Zenon
  <2>2. CASE \E by \in Present, flags \in Flags, list \in Lists, u \in Present :
               FetchUser(t, by, u, flags, list)
    BY <2>2, FetchUserKeeps, Zenon
  <2>3. CASE \E u \in DOMAIN users :
               FetchProfile(t, u) \/ ChangePassword(t, u) \/ \E e \in Emails : FetchBySSO(t, u, e)
    BY <2>3, FetchOwnKeeps, Zenon
  <2>4. CASE \E u \in DOMAIN users : TakeThumb(t, u)
    BY <2>4, TakeThumbKeeps, Zenon
  <2>5. CASE \E by \in Present, U \in SUBSET Present : CollectUsers(t, by, U)
    BY <2>5, CollectUsersKeeps, Zenon
  <2>. QED
    BY <1>3, <2>1, <2>2, <2>3, <2>4, <2>5, Zenon DEF UserDesk
<1>4. ASSUME NEW e \in Emails, AddBySSO(e) PROVE IInv'
  BY <1>4, AddBySSOKeeps
<1>5. CASE StoreDesk
  BY <1>5, FetchMemberKeeps, AddMemberKeeps, StoreFormKeeps, Zenon DEF StoreDesk
<1>. QED
  BY <1>1, <1>2, <1>3, <1>4, <1>5, Zenon DEF Next

(* Types; no two accounts have one e-mail, no account is twice in a store, *)
(* and no membership outlives its account, though accounts are deleted     *)
(* while forms enrol them and saved while they are deleted (account/,      *)
(* store/).                                                                *)
THEOREM AccountsTypeCorrect == Spec => []TypeOK
<1>1. IInv => TypeOK
  BY DEF IInv, UsersSound, MembersSound, RestTyped, TypeOK
<1>. QED
  BY <1>1, InitInvariant, NextInvariant, PTL DEF Spec

(* Whatever is written back from old copies, no account has rights it must *)
(* not have together (_normalize_pointage_only_permissions).               *)
THEOREM RightsAllowed == Spec => []PointageRights
<1>1. IInv => PointageRights
  BY DEF IInv, UsersSound
<1>. QED
  BY <1>1, InitInvariant, NextInvariant, PTL DEF Spec

-----------------------------------------------------------------------------
(* Administrators remain                                                   *)

Admin(row) == ~row.gone /\ row.may["staff"] /\ row.may["active"]

(* A copy of an account is that of the account the request acts for, or    *)
(* that one was an administrator and is another; a deletion is of others.  *)
Honest(place, U) ==
  /\ place.op = "save" => /\ place.times \in Nat
                          /\ \/ /\ place.user = place.by /\ place.row.may = place.seen.may
                                /\ ~place.row.gone
                             \/ place.user # place.by /\ Admin(place.seen) /\ place.by \in U
  /\ place.op = "delete" => place.by \in U \ place.users /\ Admin(place.seen)

CopiesAreHonest == \A t \in Slots : Honest(at[t], DOMAIN users)

HInv == IInv /\ CopiesAreHonest

(* A request goes on; the others keep their copies.                        *)
LEMMA HonestMoved ==
  ASSUME CopiesAreHonest, DOMAIN users \subseteq DOMAIN users', NEW t, NEW place, NEW touched,
         Goto(t, place, touched), Honest(place, DOMAIN users')
  PROVE  CopiesAreHonest'
<1> SUFFICES ASSUME NEW s \in Slots PROVE Honest(at'[s], DOMAIN users')
  BY DEF CopiesAreHonest
<1>1. CASE s = t
  BY <1>1 DEF Goto
<1>2. CASE s # t /\ At(s, "sync") /\ at[s].user \in touched
  <2>1. at'[s].op = "sync"
    BY <1>2 DEF Goto, At
  <2>. QED
    BY <2>1 DEF Honest
<1>3. CASE s # t /\ ~(At(s, "sync") /\ at[s].user \in touched)
  <2>1. at'[s] = at[s]
    BY <1>3 DEF Goto
  <2>. QED
    BY <2>1 DEF CopiesAreHonest, Honest
<1>. QED
  BY <1>1, <1>2, <1>3

(* Nobody's copy changes.                                                  *)
LEMMA HonestKept ==
  ASSUME CopiesAreHonest, DOMAIN users \subseteq DOMAIN users',
         \A s \in Slots : at'[s] = at[s] \/ at'[s].op = "sync"
  PROVE  CopiesAreHonest'
BY DEF CopiesAreHonest, Honest

(* Where a request goes on that holds no copy of an account.               *)
LEMMA HonestWithout ==
  ASSUME NEW place, NEW U, place.op \notin {"save", "delete"}
  PROVE  Honest(place, U)
BY DEF Honest

(* After the save of an account, and nowhere.                              *)
LEMMA HonestAfter ==
  ASSUME NEW t, NEW u, NEW U
  PROVE  Honest(Synchronise(t, u), U) /\ Honest(Idle, U)
BY DEF Honest, Synchronise, Idle

(* The administrator's copy of another account, and one's own.             *)
LEMMA HonestSaving ==
  ASSUME UsersSound, NEW by, NEW u \in Present, NEW may \in Row, NEW list, NEW times \in Nat,
         \/ by = u /\ may = users[u].may
         \/ by \in Admins /\ u # by
  PROVE  Honest(Saving(by, u, may, list, times), DOMAIN users)
<1>1. [users[u] EXCEPT !.may = may].may = may /\ ~[users[u] EXCEPT !.may = may].gone
  BY PresentRow DEF User
<1>2. by \in Admins => Admin(users[by]) /\ by \in DOMAIN users
  BY DEF Admins, Present, Admin
<1>. QED
  BY <1>1, <1>2 DEF Honest, Saving

LEMMA HonestOwn ==
  ASSUME UsersSound, NEW u \in Present, NEW times \in Nat
  PROVE  Honest(SavingOwn(u, times), DOMAIN users)
<1>1. users[u].may \in Row
  BY PresentRow
<1>2. Honest(Saving(u, u, users[u].may, NoStores, times), DOMAIN users)
  BY <1>1, HonestSaving
<1>. QED
  BY <1>2 DEF SavingOwn

(* The forms of accounts.                                                  *)
LEMMA HonestForms ==
  ASSUME HInv, NEW t \in Slots, NEW by, NEW e, NEW flags, NEW list, NEW u,
         \/ BeginCreate(t, by, e, flags, list)
         \/ u \in Present /\ flags \in Flags /\ FetchUser(t, by, u, flags, list)
         \/ FetchProfile(t, u) \/ ChangePassword(t, u) \/ TakeThumb(t, u)
         \/ e \in Emails /\ FetchBySSO(t, u, e)
  PROVE  CopiesAreHonest' /\ UNCHANGED users
<1>1. UNCHANGED users
  BY DEF BeginCreate, FetchUser, FetchProfile, ChangePassword, FetchBySSO, TakeThumb
<1>2. CASE BeginCreate(t, by, e, flags, list)
  <2>. DEFINE place == [op |-> "create", by |-> by, seen |-> users[by],
                        row |-> Validated(e, flags), stores |-> list]
  <2>1. Goto(t, place, {}) /\ place.op = "create"
    BY <1>2 DEF BeginCreate
  <2>. HIDE DEF place
  <2>. QED
    BY <1>1, <2>1, HonestWithout, HonestMoved DEF HInv
<1>3. CASE u \in Present /\ flags \in Flags /\ FetchUser(t, by, u, flags, list)
  <2>1. /\ by \in Admins /\ u # by
        /\ Goto(t, Saving(by, u, Filled(users[u].may, flags), list, 1), {})
    BY <1>3 DEF FetchUser, Others
  <2>2. Filled(users[u].may, flags) \in Row
    BY <1>3, PresentRow, FilledAllowed DEF HInv, IInv
  <2>3. Honest(Saving(by, u, Filled(users[u].may, flags), list, 1), DOMAIN users)
    BY <1>3, <2>1, <2>2, HonestSaving DEF HInv, IInv
  <2>. QED
    BY <1>1, <2>1, <2>3, HonestMoved DEF HInv
<1>4. CASE FetchProfile(t, u) \/ ChangePassword(t, u)
  <2>1. u \in Present /\ Goto(t, SavingOwn(u, 1), {})
    BY <1>4 DEF FetchProfile, ChangePassword
  <2>. QED
    BY <1>1, <2>1, HonestOwn, HonestMoved DEF HInv, IInv
<1>5. CASE e \in Emails /\ FetchBySSO(t, u, e)
  <2>1. u \in Present /\ Goto(t, [SavingOwn(u, 1) EXCEPT !.row.email = e], {})
    BY <1>5 DEF FetchBySSO
  <2>2. Honest([SavingOwn(u, 1) EXCEPT !.row.email = e], DOMAIN users)
    <3>1. PICK place : /\ place = [SavingOwn(u, 1) EXCEPT !.row.email = e]
                       /\ place.op = "save" /\ place.user = u /\ place.by = u /\ place.times = 1
                       /\ place.seen = users[u]
                       /\ place.row.may = users[u].may /\ ~place.row.gone
      BY <1>5, <2>1, SSOCopy, Zenon DEF HInv, IInv
    <3>2. Honest(place, DOMAIN users)
      BY <3>1 DEF Honest
    <3>. QED
      BY <3>1, <3>2, Zenon
  <2>. QED
    BY <1>1, <2>1, <2>2, HonestMoved DEF HInv
<1>6. CASE TakeThumb(t, u)
  <2>1. (u \in Present /\ Goto(t, SavingOwn(u, 2), {})) \/ UNCHANGED at
    BY <1>6 DEF TakeThumb
  <2>2. CASE UNCHANGED at
    BY <1>1, <2>2, HonestKept DEF HInv
  <2>3. CASE u \in Present /\ Goto(t, SavingOwn(u, 2), {})
    BY <1>1, <2>3, HonestOwn, HonestMoved DEF HInv, IInv
  <2>. QED
    BY <2>1, <2>2, <2>3
<1>. QED
  BY <1>1, <1>2, <1>3, <1>4, <1>5, <1>6

(* The requests that concern memberships, and the collecting of accounts.  *)
LEMMA HonestMembers ==
  ASSUME HInv, NEW t \in Slots, NEW by, NEW U, NEW m,
         \/ EnrolNext(t) \/ WithdrawOthers(t) \/ SaveMember(t)
         \/ FetchMember(t, by, m) \/ CollectUsers(t, by, U)
  PROVE  CopiesAreHonest' /\ UNCHANGED users
<1>1. UNCHANGED users
  BY DEF EnrolNext, WithdrawOthers, SaveMember, FetchMember, CollectUsers
<1>2. CASE EnrolNext(t)
  <2>. DEFINE place == [at[t] EXCEPT !.next = @ + 1]
  <2>1. (Goto(t, place, {at[t].user}) /\ place.op = "sync") \/ Goto(t, Idle, {})
    BY <1>2 DEF EnrolNext, At
  <2>. HIDE DEF place
  <2>. QED
    BY <1>1, <2>1, HonestWithout, HonestAfter, HonestMoved DEF HInv
<1>3. CASE WithdrawOthers(t) \/ SaveMember(t)
  <2>1. Goto(t, Idle, {at[t].user}) \/ Goto(t, Idle, {at[t].row.user})
    BY <1>3 DEF WithdrawOthers, SaveMember
  <2>. QED
    BY <1>1, <2>1, HonestAfter, HonestMoved DEF HInv
<1>4. CASE FetchMember(t, by, m)
  <2>. DEFINE place == [op |-> "member", by |-> by, seen |-> users[by], id |-> m, row |-> members[m]]
  <2>1. Goto(t, place, {}) /\ place.op = "member"
    BY <1>4 DEF FetchMember
  <2>. HIDE DEF place
  <2>. QED
    BY <1>1, <2>1, HonestWithout, HonestMoved DEF HInv
<1>5. CASE CollectUsers(t, by, U)
  <2>. DEFINE place == [op |-> "delete", by |-> by, seen |-> users[by], users |-> U,
                        members |-> MembersOf(U)]
  <2>1. Goto(t, place, {}) /\ by \in Admins /\ by \notin U
    BY <1>5 DEF CollectUsers, Others
  <2>2. Honest(place, DOMAIN users)
    BY <2>1 DEF Honest, Admins, Admin, Present
  <2>. HIDE DEF place
  <2>. QED
    BY <1>1, <2>1, <2>2, HonestMoved DEF HInv
<1>. QED
  BY <1>1, <1>2, <1>3, <1>4, <1>5

(* The store form, and a membership that is added.                         *)
LEMMA HonestStore ==
  ASSUME HInv, NEW u, NEW s, NEW role, NEW active, NEW roles,
         AddMember(u, s, role) \/ StoreForm(s, active, roles)
  PROVE  CopiesAreHonest' /\ UNCHANGED users
<1>1. UNCHANGED users
  BY DEF AddMember, StoreForm
<1>2. CASE AddMember(u, s, role)
  <2>1. \A t \in Slots : at'[t] = at[t] \/ at'[t].op = "sync"
    BY <1>2 DEF AddMember, At
  <2>. QED
    BY <1>1, <2>1, HonestKept DEF HInv
<1>3. CASE StoreForm(s, active, roles)
  <2>1. \A t \in Slots : at'[t] = at[t] \/ at'[t].op = "sync"
    BY <1>3 DEF StoreForm, At
  <2>. QED
    BY <1>1, <2>1, HonestKept DEF HInv
<1>. QED
  BY <1>1, <1>2, <1>3

(* Accounts are added: nobody is an administrator no longer.               *)
LEMMA HonestAdded ==
  ASSUME HInv, NEW t, InsertUser(t) \/ \E e \in Emails : AddBySSO(e)
  PROVE  CopiesAreHonest' /\ Admins \subseteq Admins'
<1>1. users \in Seq(User)
  BY DEF HInv, IInv, UsersSound
<1>2. users' = users \/ \E row : users' = Append(users, row)
  BY DEF InsertUser, AddBySSO
<1>3. DOMAIN users \subseteq DOMAIN users' /\ \A u \in DOMAIN users : users'[u] = users[u]
  BY <1>1, <1>2
<1>4. Admins \subseteq Admins'
  BY <1>3 DEF Admins, Present
<1>5. CASE InsertUser(t)
  <2>1. Goto(t, Synchronise(t, Len(users) + 1), {}) \/ Goto(t, Idle, {})
    BY <1>5 DEF InsertUser
  <2>. QED
    BY <1>3, <1>4, <2>1, HonestAfter, HonestMoved DEF HInv
<1>6. CASE \E e \in Emails : AddBySSO(e)
  <2>1. UNCHANGED at
    BY <1>6 DEF AddBySSO
  <2>. QED
    BY <1>3, <1>4, <2>1, HonestKept DEF HInv
<1>. QED
  BY <1>5, <1>6

(* What a save from a copy does to the administrators.                     *)
LEMMA HonestSave ==
  ASSUME HInv, NEW t \in Slots, SaveUser(t)
  PROVE  /\ CopiesAreHonest'
         /\ Admins # {} /\ users[at[t].by] = at[t].seen => Admins' # {}
         /\ users' # users => at'[t] # at[t]
<1>. DEFINE row == at[t].row
            u == at[t].user
            again == [at[t] EXCEPT !.times = @ - 1]
            place == IF at[t].times > 1 THEN again ELSE Synchronise(t, u)
<1>1. /\ at[t].op = "save" /\ u \in DOMAIN users /\ users \in Seq(User)
      /\ Honest(at[t], DOMAIN users) /\ at[t].times \in Nat
  BY DEF SaveUser, At, HInv, IInv, CopiesAreSane, Sane, CopiesAreHonest, Honest, UsersSound
<1>2. CASE EmailFree(row.email, u)
  <2>1. users' = [users EXCEPT ![u] = row] /\ Goto(t, place, {})
    BY <1>2 DEF SaveUser
  <2>2. /\ DOMAIN users' = DOMAIN users /\ users'[u] = row
        /\ \A v \in DOMAIN users \ {u} : users'[v] = users[v]
    BY <1>1, <2>1
  <2>3. Honest(place, DOMAIN users')
    <3>1. CASE at[t].times > 1
      <4>1. /\ again.op = "save" /\ again.row = row /\ again.user = u /\ again.by = at[t].by
            /\ again.seen = at[t].seen /\ again.times = at[t].times - 1
        BY <1>1, <3>1
      <4>2. again.times \in Nat
        BY <1>1, <3>1, <4>1
      <4>. HIDE DEF again
      <4>. QED
        BY <1>1, <2>2, <3>1, <4>1, <4>2 DEF Honest
    <3>2. CASE ~(at[t].times > 1)
      BY <3>2, HonestAfter
    <3>. QED
      BY <3>1, <3>2
  <2>4. place # at[t]
    <3>1. CASE at[t].times > 1
      <4>1. again.times = at[t].times - 1
        BY <1>1, <3>1
      <4>2. again.times # at[t].times
        BY <1>1, <4>1
      <4>. HIDE DEF again
      <4>. QED
        BY <3>1, <4>2
    <3>2. CASE ~(at[t].times > 1)
      <4>1. Synchronise(t, u).op # "save"
        BY DEF Synchronise, Idle
      <4>. QED
        BY <1>1, <3>2, <4>1
    <3>. QED
      BY <3>1, <3>2
  <2>. HIDE DEF place
  <2>5. CopiesAreHonest'
    BY <2>1, <2>2, <2>3, HonestMoved DEF HInv
  <2>6. at'[t] # at[t]
    BY <2>1, <2>4 DEF Goto
  <2>7. ASSUME Admins # {}, users[at[t].by] = at[t].seen PROVE Admins' # {}
    <3>1. CASE u = at[t].by /\ row.may = at[t].seen.may /\ ~row.gone
      <4>1. users'[u].may = users[u].may /\ ~users'[u].gone
        BY <2>2, <2>7, <3>1
      <4>. QED
        BY <2>2, <2>7, <4>1 DEF Admins, Present
    <3>2. CASE u # at[t].by /\ Admin(at[t].seen) /\ at[t].by \in DOMAIN users
      <4>1. at[t].by \in DOMAIN users' /\ Admin(users'[at[t].by])
        BY <2>2, <2>7, <3>2
      <4>. QED
        BY <4>1 DEF Admins, Present, Admin
    <3>. QED
      BY <1>1, <3>1, <3>2 DEF Honest
  <2>. QED
    BY <2>5, <2>6, <2>7
<1>3. CASE ~EmailFree(row.email, u)
  <2>1. Goto(t, Idle, {}) /\ UNCHANGED users
    BY <1>3 DEF SaveUser
  <2>2. Admins' = Admins
    BY <2>1 DEF Admins, Present
  <2>. QED
    BY <2>1, <2>2, HonestAfter, HonestMoved DEF HInv
<1>. QED
  BY <1>2, <1>3

(* And a deletion.                                                         *)
LEMMA HonestDrop ==
  ASSUME HInv, NEW t \in Slots, DropUsers(t)
  PROVE  /\ CopiesAreHonest'
         /\ Admins # {} /\ users[at[t].by] = at[t].seen => Admins' # {}
         /\ at'[t] # at[t]
<1>1. /\ at[t].op = "delete" /\ Goto(t, Idle, at[t].users)
      /\ at[t].by \in DOMAIN users \ at[t].users /\ Admin(at[t].seen)
  BY DEF DropUsers, At, HInv, CopiesAreHonest, Honest
<1>2. users' = users \/ users' = Erase(users, at[t].users)
  BY DEF DropUsers
<1>3. DOMAIN users' = DOMAIN users /\ users'[at[t].by] = users[at[t].by]
  <2>1. DOMAIN Erase(users, at[t].users) = DOMAIN users
    BY DEF Erase
  <2>2. Erase(users, at[t].users)[at[t].by] = users[at[t].by]
    BY <1>1 DEF Erase
  <2>. QED
    BY <1>2, <2>1, <2>2
<1>4. CopiesAreHonest'
  BY <1>1, <1>3, HonestAfter, HonestMoved DEF HInv
<1>5. ASSUME users[at[t].by] = at[t].seen PROVE Admins' # {}
  BY <1>1, <1>3, <1>5 DEF Admins, Present, Admin
<1>6. at'[t] # at[t]
  BY <1>1 DEF Goto, Idle
<1>. QED
  BY <1>4, <1>5, <1>6

(* What a step does, in one fact.                                          *)
LEMMA HonestStep ==
  ASSUME HInv, [Next]_vars
  PROVE  /\ HInv'
         /\ Admins # {} /\ Admins' = {} =>
              \E t \in Slots : at'[t] # at[t] /\ users[at[t].by] # at[t].seen
<1>. DEFINE Fine == /\ CopiesAreHonest'
                    /\ Admins # {} /\ Admins' = {} =>
                         \E t \in Slots : at'[t] # at[t] /\ users[at[t].by] # at[t].seen
<1>1. CopiesAreHonest' /\ UNCHANGED users => Fine
  BY DEF Admins, Present
<1>2. ASSUME UNCHANGED vars PROVE Fine
  <2>1. UNCHANGED <<users, members, at>>
    BY <1>2 DEF vars
  <2>. QED
    BY <1>1, <2>1, HonestKept DEF HInv
<1>3. ASSUME NEW t \in Slots, InsertUser(t) PROVE Fine
  BY <1>3, HonestAdded
<1>4. ASSUME NEW t \in Slots, SaveUser(t) PROVE Fine
  <2>1. CASE UNCHANGED users
    BY <1>1, <1>4, <2>1, HonestSave
  <2>2. CASE users' # users
    BY <1>4, <2>2, HonestSave
  <2>. QED
    BY <2>1, <2>2
<1>5. ASSUME NEW t \in Slots, DropUsers(t) PROVE Fine
  BY <1>5, HonestDrop
<1>6. ASSUME \E e \in Emails : AddBySSO(e) PROVE Fine
  BY <1>6, HonestAdded
<1>. HIDE DEF Fine
<1>7. ASSUME NEW t \in Slots, EnrolNext(t) \/ WithdrawOthers(t) \/ SaveMember(t) PROVE Fine
  BY <1>1, <1>7, HonestMembers
<1>8. ASSUME NEW t \in Slots, UserDesk(t) PROVE Fine
  <2>1. CASE \E by \in Present, flags \in Flags, list \in Lists, e \in Emails :
               BeginCreate(t, by, e, flags, list)
    BY <1>1, <2>1, HonestForms, Zenon
  <2>2. CASE \E by \in Present, flags \in Flags, list \in Lists, u \in Present :
               FetchUser(t, by, u, flags, list)
    BY <1>1, <2>2, HonestForms, Zenon
  <2>3. CASE \E u \in DOMAIN users :
               \/ FetchProfile(t, u) \/ ChangePassword(t, u) \/ TakeThumb(t, u)
               \/ \E e \in Emails : FetchBySSO(t, u, e)
    BY <1>1, <2>3, HonestForms, Zenon
  <2>4. CASE \E by \in Present, U \in SUBSET Present : CollectUsers(t, by, U)
    BY <1>1, <2>4, HonestMembers, Zenon
  <2>. QED
    BY <1>8, <2>1, <2>2, <2>3, <2>4, Zenon DEF UserDesk
<1>9. ASSUME StoreDesk PROVE Fine
  <2>1. CASE \E t \in Slots, by \in Present, m \in Belongings : FetchMember(t, by, m)
    <3>1. PICK t \in Slots, by \in Present, m \in Belongings : FetchMember(t, by, m)
      BY <2>1
    <3>2. CopiesAreHonest' /\ UNCHANGED users
      BY <3>1, HonestMembers
    <3>. QED
      BY <1>1, <3>2
  <2>2. CASE \E u \in Present, s \in Stores, role \in Roles : AddMember(u, s, role)
    BY <1>1, <2>2, HonestStore, Zenon
  <2>3. CASE \E s \in Stores, active \in BOOLEAN, U \in SUBSET Present :
               \E roles \in [U -> Roles] : StoreForm(s, active, roles)
    BY <1>1, <2>3, HonestStore, Zenon
  <2>. QED
    BY <1>9, <2>1, <2>2, <2>3, Zenon DEF StoreDesk
<1>10. ASSUME NEW t \in Slots, Work(t) PROVE Fine
  BY <1>3, <1>4, <1>5, <1>7, <1>10, Zenon DEF Work
<1>11. Fine
  BY <1>2, <1>6, <1>8, <1>9, <1>10, Zenon DEF Next
<1>12. HInv'
  BY <1>11, NextInvariant DEF HInv, Fine
<1>. QED
  BY <1>11, <1>12 DEF Fine

(* However many administrators there are, and however their requests about *)
(* each other interleave, the last one goes only by a request of an        *)
(* account that was changed since the request began                        *)
(* (UserDetailEditDeleteView, BulkDeleteUsersView).                        *)
THEOREM LastAdministratorStays == Spec => AdministratorsRemain
<1>1. Init => HInv
  BY InitInvariant DEF HInv, Init, CopiesAreHonest, Honest, Idle
<1>2. HInv /\ [Next]_vars => HInv'
  BY HonestStep
<1>3. HInv /\ [Next]_vars =>
        (Admins # {} /\ Admins' = {} =>
           \E t \in Slots : at'[t] # at[t] /\ users[at[t].by] # at[t].seen)
  BY HonestStep
<1>. QED
  BY <1>1, <1>2, <1>3, PTL DEF Spec, AdministratorsRemain

-----------------------------------------------------------------------------
(* Scopes                                                                  *)

(* The least of a set of stores is one of them.                            *)
LEMMA Least ==
  ASSUME NEW A \in SUBSET Nat, A # {}
  PROVE  Min(A) \in A
<1>1. \E x \in A : \A y \in A : ~(<<y, x>> \in OpToRel(<, Nat))
  BY NatLessThanWellFounded, WFMin, Zenon
<1>2. \A x, y \in A : ~(<<y, x>> \in OpToRel(<, Nat)) => x <= y
  BY SMT DEF OpToRel
<1>. QED
  BY <1>1, <1>2, Zenon DEF Min

(* Access in some roles is access.                                         *)
LEMMA AccessListed ==
  ASSUME open \subseteq Stores, NEW u, NEW roles, NEW x, HasAccess(u, x, roles)
  PROVE  x \in Stores /\ x \in StoreIds(u, {})
<1>1. Working(u, x, roles) => x \in open /\ Working(u, x, {})
  BY DEF Working
<1>2. users[u].may["staff"] \/ users[u].may["pointage"] => x \in open
  BY DEF HasAccess
<1>3. CASE users[u].may["staff"] \/ users[u].may["pointage"]
  BY <1>2, <1>3 DEF StoreIds
<1>4. CASE ~users[u].may["staff"] /\ ~users[u].may["pointage"]
  <2>1. x \in open /\ Working(u, x, {})
    BY <1>1, <1>4 DEF HasAccess
  <2>. QED
    BY <1>4, <2>1 DEF StoreIds
<1>. QED
  BY <1>3, <1>4

(* The store a request ends up in is one its account has access to.        *)
LEMMA RequestAccess ==
  ASSUME open \subseteq Stores, NEW u, NEW s, NEW roles, NEW x,
         x \in StoreOfRequest(u, s, roles) \cup StockStoreOfRequest(u, s, roles)
  PROVE  HasAccess(u, x, roles)
<1>. DEFINE default == IF users[u].may["staff"] THEN open ELSE {y \in Stores : Working(u, y, {})}
<1>1. CASE s # NoStore
  BY <1>1 DEF StoreOfRequest, StockStoreOfRequest
<1>2. CASE s = NoStore /\ x \in StockStoreOfRequest(u, s, roles)
  BY <1>2 DEF StockStoreOfRequest
<1>3. CASE s = NoStore /\ x \in StoreOfRequest(u, s, roles)
  <2>1. x \in First(default) /\ (roles # {} => HasAccess(u, x, roles))
    BY <1>3 DEF StoreOfRequest
  <2>2. \A y \in default : HasAccess(u, y, {})
    BY DEF HasAccess, Working
  <2>3. default \in SUBSET Nat
    BY AccountsAssumption DEF AccountsAssumption
  <2>. HIDE DEF default
  <2>4. default # {} /\ x = Min(default)
    BY <2>1 DEF First
  <2>5. HasAccess(u, x, {})
    BY <2>2, <2>3, <2>4, Least
  <2>. QED
    BY <2>1, <2>5
<1>. QED
  BY <1>1, <1>2, <1>3

(* One account at a time, whose rights are some it may have.               *)
LEMMA ScopesOfOne ==
  ASSUME open \subseteq Stores, NEW u, Allowed(users[u].may), NEW roles
  PROVE  LET accessible == {s \in Stores : HasAccess(u, s, roles)}
         IN  /\ StoreIds(u, roles) \subseteq accessible
             /\ ~users[u].may["staff"] => StoreIds(u, roles) = accessible
             /\ \A s \in Stores \cup {NoStore} :
                  StoreOfRequest(u, s, roles) \cup StockStoreOfRequest(u, s, roles)
                    \subseteq accessible \cap StoreIds(u, {})
             /\ MyStores(u) = StoreIds(u, {})
             /\ ListedStores(u) \cap open \subseteq MyStores(u)
<1>. DEFINE accessible == {s \in Stores : HasAccess(u, s, roles)}
            may == users[u].may
<1>1. \A x \in Stores : Working(u, x, roles) => x \in open
  BY DEF Working
<1>2. StoreIds(u, roles) \subseteq accessible
  BY <1>1 DEF StoreIds, HasAccess
<1>3. ~may["staff"] => StoreIds(u, roles) = accessible
  BY DEF StoreIds, HasAccess
<1>4. ASSUME NEW s \in Stores \cup {NoStore}
      PROVE  StoreOfRequest(u, s, roles) \cup StockStoreOfRequest(u, s, roles)
               \subseteq accessible \cap StoreIds(u, {})
  BY RequestAccess, AccessListed
<1>5. MyStores(u) = StoreIds(u, {})
  BY DEF MyStores, StoreIds
<1>6. ListedStores(u) \cap open \subseteq MyStores(u)
  BY DEF ListedStores, MyStores, StoreIds
<1>. QED
  BY <1>2, <1>3, <1>4, <1>5, <1>6

(* Whatever memberships there are and whichever stores are open, the lists *)
(* an account is shown agree with the rights that are tested one store at  *)
(* a time (store/permissions.py, MyStoresView).                            *)
THEOREM ScopesAlwaysAgree == Spec => []ScopesAgree
<1>1. ASSUME IInv PROVE ScopesAgree
  <2>1. open \subseteq Stores /\ \A u \in Present : Allowed(users[u].may)
    BY <1>1 DEF IInv, RestTyped, UsersSound, PointageRights
  <2>. QED
    BY <2>1, ScopesOfOne DEF ScopesAgree
<1>. QED
  BY <1>1, InitInvariant, NextInvariant, PTL DEF Spec

-----------------------------------------------------------------------------
(* A form of an account leaves the memberships it sent                     *)

(* What a request knows about the memberships: whose a copy is, whose they *)
(* are that are to be deleted, and, for the form of an account, that the   *)
(* stores enrolled so far are, unless somebody else wrote meanwhile.       *)
FormTyped(place) ==
  /\ place \in [op : {"sync"}, by : {place.by}, seen : {place.seen}, user : {place.user},
                stores : Seq([store : Stores, role : Roles \cup {NoRole}]), next : Nat,
                alone : BOOLEAN]
  /\ place.next \in 1..(Len(place.stores) + 1)

EnrolledSoFar(place, table) ==
  \A i \in 1..(place.next - 1) : \E m \in DOMAIN table :
    /\ ~table[m].gone /\ table[m].user = place.user /\ table[m].active
    /\ table[m].store = place.stores[i].store /\ table[m].role = place.stores[i].role

Follows(place, table) ==
  /\ place.op \in {"create", "save"} => place.stores \in Lists \cup {NoStores}
  /\ place.op = "member" => place.id \in DOMAIN table /\ table[place.id].user = place.row.user
  /\ place.op = "delete" =>
       \A m \in place.members : m \in DOMAIN table /\ table[m].user \in place.users
  /\ place.op = "sync" => FormTyped(place) /\ (place.alone => EnrolledSoFar(place, table))

FormsFollow == \A t \in Slots : Follows(at[t], members)

FInv == IInv /\ FormsFollow

(* Only memberships of these accounts are written.                         *)
Spared(touched) ==
  \A m \in DOMAIN members : members[m].user \notin touched => members'[m] = members[m]

(* A request the write is not about.                                       *)
LEMMA FollowsOn ==
  ASSUME Steady, NEW touched, Spared(touched), NEW place, Follows(place, members),
         place.op = "sync" => place.user \notin touched
  PROVE  Follows(place, members')
<1>1. CASE place.op = "sync"
  <2>1. ASSUME NEW m \in DOMAIN members, members[m].user = place.user
        PROVE  m \in DOMAIN members' /\ members'[m] = members[m]
    BY <1>1, <2>1 DEF Steady, Spared
  <2>2. EnrolledSoFar(place, members) => EnrolledSoFar(place, members')
    BY <2>1 DEF EnrolledSoFar
  <2>. QED
    BY <1>1, <2>2 DEF Follows
<1>2. CASE place.op # "sync"
  BY <1>2 DEF Follows, Steady
<1>. QED
  BY <1>1, <1>2

(* One that the write is about, and that is no longer alone.               *)
LEMMA FollowsNot ==
  ASSUME NEW place, FormTyped(place)
  PROVE  Follows([place EXCEPT !.alone = FALSE], members')
<1>. DEFINE p == [place EXCEPT !.alone = FALSE]
<1>1. /\ p \in [op : {"sync"}, by : {p.by}, seen : {p.seen}, user : {p.user},
                stores : Seq([store : Stores, role : Roles \cup {NoRole}]), next : Nat,
                alone : BOOLEAN]
      /\ p.next \in 1..(Len(p.stores) + 1)
      /\ p.op = "sync" /\ p.alone = FALSE
  BY DEF FormTyped
<1>. HIDE DEF p
<1>. QED
  BY <1>1 DEF Follows, FormTyped

(* A request goes on.                                                      *)
LEMMA FollowsMoved ==
  ASSUME FormsFollow, Steady, NEW touched, Spared(touched), NEW t, NEW place,
         Goto(t, place, touched), Follows(place, members')
  PROVE  FormsFollow'
<1> SUFFICES ASSUME NEW s \in Slots PROVE Follows(at'[s], members')
  BY DEF FormsFollow
<1>1. Follows(at[s], members)
  BY DEF FormsFollow
<1>2. CASE s = t
  BY <1>2 DEF Goto
<1>3. CASE s # t /\ At(s, "sync") /\ at[s].user \in touched
  <2>1. at'[s] = [at[s] EXCEPT !.alone = FALSE]
    BY <1>3 DEF Goto
  <2>. QED
    BY <1>1, <1>3, <2>1, FollowsNot DEF At, Follows
<1>4. CASE s # t /\ ~(At(s, "sync") /\ at[s].user \in touched)
  <2>1. at'[s] = at[s]
    BY <1>4 DEF Goto
  <2>. QED
    BY <1>1, <1>4, <2>1, FollowsOn DEF At
<1>. QED
  BY <1>2, <1>3, <1>4

(* One that writes no membership.                                          *)
LEMMA FollowsQuietly ==
  ASSUME FormsFollow, UNCHANGED members, NEW touched, NEW t, NEW place,
         Goto(t, place, touched), Follows(place, members)
  PROVE  FormsFollow'
<1>1. Steady /\ Spared(touched)
  BY DEF Steady, Spared
<1>. QED
  BY <1>1, FollowsMoved

(* Where a request goes on without memberships.                            *)
LEMMA FollowsIdle == \A table : Follows(Idle, table)
BY DEF Follows, Idle

(* The form goes on to memberships, and has enrolled none.                 *)
LEMMA FollowsSynchronise ==
  ASSUME NEW t, NEW u, NEW table, at[t].stores \in Lists \cup {NoStores}
  PROVE  Follows(Synchronise(t, u), table)
<1>1. CASE at[t].stores = NoStores
  BY <1>1, FollowsIdle DEF Synchronise
<1>2. CASE at[t].stores # NoStores
  <2>. DEFINE p == [op |-> "sync", by |-> at[t].by, seen |-> at[t].seen, user |-> u,
                    stores |-> at[t].stores, next |-> 1, alone |-> TRUE]
  <2>1. at[t].stores \in Seq([store : Stores, role : Roles \cup {NoRole}])
    BY <1>2, AccountsAssumption DEF AccountsAssumption
  <2>2. 1 \in 1..(Len(at[t].stores) + 1)
    BY <2>1
  <2>3. /\ p.op = "sync" /\ p.stores = at[t].stores /\ p.next = 1
        /\ p \in [op : {"sync"}, by : {p.by}, seen : {p.seen}, user : {p.user},
                  stores : Seq([store : Stores, role : Roles \cup {NoRole}]), next : Nat,
                  alone : BOOLEAN]
    BY <2>1
  <2>4. Synchronise(t, u) = p
    BY <1>2 DEF Synchronise
  <2>. HIDE DEF p
  <2>5. FormTyped(p) /\ EnrolledSoFar(p, table)
    BY <2>1, <2>2, <2>3 DEF FormTyped, EnrolledSoFar
  <2>. QED
    BY <2>3, <2>4, <2>5 DEF Follows
<1>. QED
  BY <1>1, <1>2

(* Writes: update_or_create, ...                                           *)
LEMMA EnrolledSpares ==
  ASSUME MembersSound, NEW u, NEW s, NEW role, members' = Enrolled(u, s, role)
  PROVE  /\ Steady /\ Spared({u})
         /\ \A m \in Belongings : members[m].store # s => members'[m] = members[m]
         /\ \E m \in DOMAIN members' :
              /\ ~members'[m].gone /\ members'[m].user = u /\ members'[m].active
              /\ members'[m].store = s /\ members'[m].role = role
<1>. DEFINE there == {m \in MembersOf({u}) : members[m].store = s}
<1>1. \A m \in there : m \in DOMAIN members /\ ~members[m].gone /\ members[m].user = u
                       /\ members[m].store = s /\ members[m] \in Membership
  BY DEF MembersOf, Belongings, MembersSound
<1>2. CASE there = {}
  <2>. DEFINE row == [user |-> u, store |-> s, role |-> role, active |-> TRUE, gone |-> FALSE]
  <2>1. members' = Append(members, row)
    BY <1>2 DEF Enrolled
  <2>2. /\ DOMAIN members = 1..Len(members) /\ Len(members) + 1 \in DOMAIN members'
        /\ DOMAIN members \subseteq DOMAIN members'
        /\ members'[Len(members) + 1] = row /\ \A m \in DOMAIN members : members'[m] = members[m]
    <3>1. Append(members, row) = [i \in 1..(Len(members) + 1) |->
                                    IF i = Len(members) + 1 THEN row ELSE members[i]]
      BY DEF MembersSound
    <3>2. DOMAIN members = 1..Len(members) /\ Len(members) \in Nat
      BY DEF MembersSound
    <3>. HIDE DEF row
    <3>. QED
      BY <2>1, <3>1, <3>2
  <2>. QED
    BY <2>2 DEF Steady, Spared, Belongings
<1>3. CASE there # {}
  <2>1. members' = [m \in DOMAIN members |->
                      IF m \in there THEN [members[m] EXCEPT !.role = role, !.active = TRUE]
                      ELSE members[m]]
    BY <1>3 DEF Enrolled
  <2>. DEFINE Again(r) == [r EXCEPT !.role = role, !.active = TRUE]
  <2>2. ASSUME NEW r \in Membership
        PROVE  /\ Again(r).role = role /\ Again(r).active /\ Again(r).gone = r.gone
               /\ Again(r).user = r.user /\ Again(r).store = r.store
    BY DEF Membership
  <2>2a. \A m \in there : m \in DOMAIN members' /\ members'[m] = Again(members[m])
    BY <1>1, <2>1
  <2>. HIDE DEF Again
  <2>3. ASSUME NEW m \in there
        PROVE  /\ m \in DOMAIN members' /\ ~members'[m].gone /\ members'[m].user = u
               /\ members'[m].active /\ members'[m].store = s /\ members'[m].role = role
    <3>1. /\ m \in DOMAIN members' /\ members'[m] = Again(members[m])
          /\ members[m] \in Membership /\ ~members[m].gone /\ members[m].user = u
          /\ members[m].store = s
      BY <1>1, <2>2a
    <3>2. /\ Again(members[m]).role = role /\ Again(members[m]).active
          /\ Again(members[m]).gone = members[m].gone /\ Again(members[m]).user = members[m].user
          /\ Again(members[m]).store = members[m].store
      BY <2>2, <3>1
    <3>. QED
      BY <3>1, <3>2, Zenon
  <2>4. DOMAIN members' = DOMAIN members /\ \A m \in DOMAIN members \ there : members'[m] = members[m]
    BY <2>1
  <2>. HIDE DEF there
  <2>. QED
    BY <1>1, <1>3, <2>3, <2>4 DEF Steady, Spared, Belongings
<1>. QED
  BY <1>2, <1>3

(* ... withdrawal, ...                                                     *)
LEMMA ErasedSpares ==
  ASSUME MembersSound, NEW ids, NEW touched, members' = Erase(members, ids),
         \A m \in ids \cap DOMAIN members : members[m].user \in touched
  PROVE  /\ Steady /\ Spared(touched) /\ DOMAIN members' = DOMAIN members
         /\ \A m \in DOMAIN members \ ids : members'[m] = members[m]
         /\ \A m \in DOMAIN members \cap ids : members'[m].gone
<1>1. \A r \in Membership : /\ [r EXCEPT !.gone = TRUE] \in Membership
                            /\ [r EXCEPT !.gone = TRUE].gone /\ [r EXCEPT !.gone = TRUE].user = r.user
  BY DEF Membership
<1>2. /\ DOMAIN members' = DOMAIN members
      /\ \A m \in DOMAIN members \ ids : members'[m] = members[m]
      /\ \A m \in DOMAIN members \cap ids : members'[m] = [members[m] EXCEPT !.gone = TRUE]
  BY DEF Erase
<1>3. \A m \in DOMAIN members : members[m] \in Membership
  BY DEF MembersSound
<1>4. \A m \in DOMAIN members \cap ids : members'[m].gone /\ members'[m].user = members[m].user
  BY <1>1, <1>2, <1>3
<1>. QED
  BY <1>2, <1>4 DEF Steady, Spared

(* ... a copy, ...                                                         *)
LEMMA SavedSpares ==
  ASSUME MembersSound, NEW id \in DOMAIN members, NEW row, row.user = members[id].user,
         members' = [members EXCEPT ![id] = row]
  PROVE  Steady /\ Spared({row.user})
<1>1. DOMAIN members' = DOMAIN members /\ members'[id] = row
      /\ \A m \in DOMAIN members \ {id} : members'[m] = members[m]
  BY DEF MembersSound
<1>. QED
  BY <1>1 DEF Steady, Spared

(* ... an addition, ...                                                    *)
LEMMA AddedSpares ==
  ASSUME MembersSound, NEW row \in Membership, members' = Append(members, row)
  PROVE  Steady /\ Spared({})
<1>1. DOMAIN members \subseteq DOMAIN members' /\ \A m \in DOMAIN members : members'[m] = members[m]
  BY DEF MembersSound
<1>. QED
  BY <1>1 DEF Steady, Spared

(* Requests that write no membership.                                      *)
LEMMA FollowsReads ==
  ASSUME FInv, NEW t \in Slots, NEW by, NEW e, NEW flags, NEW list, NEW u, NEW U, NEW m,
         \/ list \in Lists /\ BeginCreate(t, by, e, flags, list)
         \/ list \in Lists /\ FetchUser(t, by, u, flags, list)
         \/ FetchProfile(t, u) \/ ChangePassword(t, u) \/ TakeThumb(t, u)
         \/ e \in Emails /\ FetchBySSO(t, u, e)
         \/ CollectUsers(t, by, U) \/ FetchMember(t, by, m)
  PROVE  FormsFollow' /\ UNCHANGED members
<1>1. UNCHANGED members
  BY DEF BeginCreate, FetchUser, FetchProfile, ChangePassword, FetchBySSO, TakeThumb,
         CollectUsers, FetchMember
<1>2. CASE list \in Lists /\ BeginCreate(t, by, e, flags, list)
  <2>. DEFINE place == [op |-> "create", by |-> by, seen |-> users[by],
                        row |-> Validated(e, flags), stores |-> list]
  <2>1. Goto(t, place, {}) /\ Follows(place, members)
    BY <1>2 DEF BeginCreate, Follows
  <2>. HIDE DEF place
  <2>. QED
    BY <1>1, <2>1, FollowsQuietly DEF FInv
<1>3. ASSUME NEW b, NEW v, NEW may, NEW l \in Lists \cup {NoStores}, NEW n
      PROVE  Follows(Saving(b, v, may, l, n), members)
  BY DEF Follows, Saving
<1>4. CASE list \in Lists /\ FetchUser(t, by, u, flags, list)
  <2>1. Goto(t, Saving(by, u, Filled(users[u].may, flags), list, 1), {})
    BY <1>4 DEF FetchUser
  <2>2. Follows(Saving(by, u, Filled(users[u].may, flags), list, 1), members)
    BY <1>3, <1>4
  <2>. QED
    BY <1>1, <2>1, <2>2, FollowsQuietly DEF FInv
<1>5. CASE FetchProfile(t, u) \/ ChangePassword(t, u)
  <2>1. Goto(t, SavingOwn(u, 1), {})
    BY <1>5 DEF FetchProfile, ChangePassword
  <2>. QED
    BY <1>1, <1>3, <2>1, FollowsQuietly DEF FInv, SavingOwn
<1>6. CASE e \in Emails /\ FetchBySSO(t, u, e)
  <2>1. u \in Present /\ Goto(t, [SavingOwn(u, 1) EXCEPT !.row.email = e], {})
    BY <1>6 DEF FetchBySSO
  <2>2. Follows([SavingOwn(u, 1) EXCEPT !.row.email = e], members)
    <3>1. PICK place :
            /\ place = [SavingOwn(u, 1) EXCEPT !.row.email = e]
            /\ place.op = "save" /\ place.user = u /\ place.by = u /\ place.times = 1
            /\ place.seen = users[u] /\ place.stores = NoStores
            /\ place.row \in User /\ place.row.may = users[u].may /\ ~place.row.gone
      <4>1. UsersSound
        BY DEF FInv, IInv
      <4>2. u \in Present /\ e \in Emails
        BY <1>6, <2>1
      <4>. QED
        BY <4>1, <4>2, SSOCopy, Zenon
    <3>2. Follows(place, members)
      BY <3>1 DEF Follows
    <3>. QED
      BY <3>1, <3>2, Zenon
  <2>. QED
    BY <1>1, <2>1, <2>2, FollowsQuietly DEF FInv
<1>7. CASE TakeThumb(t, u)
  <2>1. CASE UNCHANGED at
    BY <1>1, <2>1 DEF FInv, FormsFollow
  <2>2. CASE Goto(t, SavingOwn(u, 2), {})
    BY <1>1, <1>3, <2>2, FollowsQuietly DEF FInv, SavingOwn
  <2>. QED
    BY <1>7, <2>1, <2>2 DEF TakeThumb
<1>8. CASE CollectUsers(t, by, U)
  <2>. DEFINE place == [op |-> "delete", by |-> by, seen |-> users[by], users |-> U,
                        members |-> MembersOf(U)]
  <2>1. Goto(t, place, {}) /\ Follows(place, members)
    BY <1>8 DEF CollectUsers, Follows, MembersOf, Belongings
  <2>. HIDE DEF place
  <2>. QED
    BY <1>1, <2>1, FollowsQuietly DEF FInv
<1>9. CASE FetchMember(t, by, m)
  <2>. DEFINE place == [op |-> "member", by |-> by, seen |-> users[by], id |-> m, row |-> members[m]]
  <2>1. Goto(t, place, {}) /\ Follows(place, members)
    BY <1>9 DEF FetchMember, Follows, Belongings
  <2>. HIDE DEF place
  <2>. QED
    BY <1>1, <2>1, FollowsQuietly DEF FInv
<1>. QED
  BY <1>1, <1>2, <1>4, <1>5, <1>6, <1>7, <1>8, <1>9

(* Accounts are written.                                                   *)
LEMMA FollowsUsers ==
  ASSUME FInv, NEW t \in Slots, InsertUser(t) \/ SaveUser(t)
  PROVE  FormsFollow' /\ UNCHANGED members
<1>1. UNCHANGED members
  BY DEF InsertUser, SaveUser
<1>2. at[t].op \in {"create", "save"} /\ at[t].stores \in Lists \cup {NoStores}
  BY DEF InsertUser, SaveUser, At, FInv, FormsFollow, Follows
<1>3. CASE InsertUser(t)
  <2>1. Goto(t, Synchronise(t, Len(users) + 1), {}) \/ Goto(t, Idle, {})
    BY <1>3 DEF InsertUser
  <2>. QED
    BY <1>1, <1>2, <2>1, FollowsSynchronise, FollowsIdle, FollowsQuietly DEF FInv
<1>4. CASE SaveUser(t)
  <2>. DEFINE again == [at[t] EXCEPT !.times = @ - 1]
  <2>1. \/ at[t].op = "save" /\ Goto(t, again, {})
        \/ Goto(t, Synchronise(t, at[t].user), {})
        \/ Goto(t, Idle, {})
    BY <1>4 DEF SaveUser, At
  <2>2. at[t].op = "save" => Follows(again, members)
    <3>1. again.op = at[t].op /\ again.stores = at[t].stores
      OBVIOUS
    <3>. HIDE DEF again
    <3>. QED
      BY <1>2, <3>1 DEF Follows
  <2>. HIDE DEF again
  <2>. QED
    BY <1>1, <1>2, <2>1, <2>2, FollowsSynchronise, FollowsIdle, FollowsQuietly DEF FInv
<1>. QED
  BY <1>1, <1>3, <1>4

(* The next store of a form.                                               *)
LEMMA FollowsEnrolNext ==
  ASSUME FInv, NEW t \in Slots, EnrolNext(t)
  PROVE  FormsFollow'
<1>. DEFINE form == at[t]
            item == form.stores[form.next]
            place == [form EXCEPT !.next = @ + 1]
            u == form.user
<1>1. form.op = "sync" /\ FormTyped(form) /\ form.next <= Len(form.stores)
      /\ (form.alone => EnrolledSoFar(form, members))
  BY DEF EnrolNext, At, FInv, FormsFollow, Follows
<1>2. CASE Goto(t, Idle, {}) /\ UNCHANGED members
  <2>1. FormsFollow
    BY DEF FInv
  <2>. QED
    BY <1>2, <2>1, FollowsIdle, FollowsQuietly
<1>3. CASE /\ item.store \notin Submitted(t, form.next - 1)
           /\ members' = Enrolled(u, item.store, item.role)
           /\ Goto(t, place, {u})
  <2>1. /\ Steady /\ Spared({u})
        /\ \A m \in Belongings : members[m].store # item.store => members'[m] = members[m]
        /\ \E m \in DOMAIN members' :
             /\ ~members'[m].gone /\ members'[m].user = u /\ members'[m].active
             /\ members'[m].store = item.store /\ members'[m].role = item.role
    <3>1. MembersSound
      BY DEF FInv, IInv
    <3>. HIDE DEF form, item, place, u
    <3>. QED
      BY <1>3, <3>1, EnrolledSpares
  <2>2. /\ FormTyped(place) /\ place.op = "sync" /\ place.next = form.next + 1
        /\ place.stores = form.stores /\ place.user = u /\ place.alone = form.alone
    <3>1. form.next + 1 \in 1..(Len(form.stores) + 1) /\ form.next \in Nat
      BY <1>1 DEF FormTyped
    <3>. QED
      BY <1>1, <3>1 DEF FormTyped
  <2>. HIDE DEF place
  <2>3. ASSUME form.alone PROVE EnrolledSoFar(place, members')
    <3> SUFFICES ASSUME NEW i \in 1..(place.next - 1)
                 PROVE  \E m \in DOMAIN members' :
                          /\ ~members'[m].gone /\ members'[m].user = u /\ members'[m].active
                          /\ members'[m].store = form.stores[i].store
                          /\ members'[m].role = form.stores[i].role
      BY <2>2 DEF EnrolledSoFar
    <3>1. CASE i = form.next
      BY <2>1, <3>1
    <3>2. CASE i # form.next
      <4>1. i \in 1..(form.next - 1)
        BY <1>1, <2>2, <3>2 DEF FormTyped
      <4>2. PICK m \in DOMAIN members :
              /\ ~members[m].gone /\ members[m].user = u /\ members[m].active
              /\ members[m].store = form.stores[i].store /\ members[m].role = form.stores[i].role
        BY <1>1, <2>3, <4>1 DEF EnrolledSoFar
      <4>3. form.stores[i].store # item.store
        BY <1>3, <4>1 DEF Submitted
      <4>4. m \in DOMAIN members' /\ members'[m] = members[m]
        BY <2>1, <4>2, <4>3 DEF Belongings, Steady
      <4>. QED
        BY <4>2, <4>4
    <3>. QED
      BY <3>1, <3>2
  <2>4. Follows(place, members')
    BY <2>2, <2>3 DEF Follows
  <2>. QED
    <3>1. FormsFollow
      BY DEF FInv
    <3>. HIDE DEF form, item, u
    <3>. QED
      BY <1>3, <2>1, <2>4, <3>1, FollowsMoved
<1>. QED
  BY <1>2, <1>3 DEF EnrolNext

(* The others are withdrawn: the form leaves what it sent.                 *)
LEMMA FollowsWithdraw ==
  ASSUME FInv, NEW t \in Slots, WithdrawOthers(t)
  PROVE  /\ FormsFollow'
         /\ at[t].alone =>
              {[store |-> members'[m].store, role |-> members'[m].role, active |-> members'[m].active] :
                 m \in {n \in DOMAIN members' : ~members'[n].gone /\ members'[n].user = at[t].user}}
              = {[store |-> item.store, role |-> item.role, active |-> TRUE] :
                   item \in ToSet(at[t].stores)}
         /\ \A m \in DOMAIN members : members[m].user # at[t].user => members'[m] = members[m]
<1>. DEFINE form == at[t]
            u == form.user
            List == form.stores
            mine == {n \in DOMAIN members' : ~members'[n].gone /\ members'[n].user = u}
            Shown(m) == [store |-> members'[m].store, role |-> members'[m].role,
                         active |-> members'[m].active]
            Sent(item) == [store |-> item.store, role |-> item.role, active |-> TRUE]
<1>1. FormTyped(form) /\ form.next > Len(List) /\ (form.alone => EnrolledSoFar(form, members))
  BY DEF WithdrawOthers, At, FInv, FormsFollow, Follows
<1>2. List \in Seq([store : Stores, role : Roles \cup {NoRole}]) /\ form.next - 1 = Len(List)
      /\ Len(List) \in Nat /\ DOMAIN List = 1..Len(List)
  BY <1>1 DEF FormTyped
<1>3. /\ Steady /\ Spared({u}) /\ DOMAIN members' = DOMAIN members
      /\ \A m \in DOMAIN members \ Withdrawn(t) : members'[m] = members[m]
      /\ \A m \in DOMAIN members \cap Withdrawn(t) : members'[m].gone
  <2>1. \A m \in Withdrawn(t) : members[m].user \in {u}
    BY DEF Withdrawn, MembersOf
  <2>. QED
    BY <2>1, ErasedSpares DEF WithdrawOthers, FInv, IInv
<1>4. FormsFollow'
  BY <1>3, FollowsIdle, FollowsMoved DEF WithdrawOthers, FInv
<1>5. ASSUME NEW m \in mine
      PROVE  /\ m \in Belongings /\ members[m].user = u /\ members'[m] = members[m]
             /\ \E i \in 1..Len(List) : members[m].store = List[i].store
  <2>1. m \in DOMAIN members /\ m \notin Withdrawn(t) /\ members'[m] = members[m]
    BY <1>3
  <2>2. m \in MembersOf({u})
    BY <2>1 DEF MembersOf, Belongings
  <2>3. members[m].store \in Submitted(t, Len(List))
    BY <2>1, <2>2 DEF Withdrawn
  <2>. QED
    BY <2>1, <2>2, <2>3 DEF MembersOf, Submitted
<1>6. ASSUME form.alone, NEW i \in 1..Len(List)
      PROVE  \E m \in mine : members[m].store = List[i].store /\ Shown(m) = Sent(List[i])
  <2>1. PICK m \in DOMAIN members :
          /\ ~members[m].gone /\ members[m].user = u /\ members[m].active
          /\ members[m].store = List[i].store /\ members[m].role = List[i].role
    BY <1>1, <1>2, <1>6 DEF EnrolledSoFar
  <2>2. members[m].active = TRUE
    BY <2>1 DEF FInv, IInv, MembersSound, Membership
  <2>3. m \notin Withdrawn(t)
    BY <2>1 DEF Withdrawn, Submitted
  <2>4. members'[m] = members[m] /\ m \in mine
    BY <1>3, <2>1, <2>3
  <2>. QED
    BY <2>1, <2>2, <2>4
<1>7. ASSUME form.alone, NEW m \in mine
      PROVE  \E i \in 1..Len(List) : Shown(m) = Sent(List[i])
  <2>1. PICK i \in 1..Len(List) : members[m].store = List[i].store
    BY <1>5
  <2>2. PICK n \in mine : members[n].store = List[i].store /\ Shown(n) = Sent(List[i])
    BY <1>6, <1>7
  <2>3. m = n
    <3>1. m \in Belongings /\ members[m].user = u /\ n \in Belongings /\ members[n].user = u
      BY <1>5
    <3>. QED
      BY <2>1, <2>2, <3>1 DEF FInv, IInv, MembersSound, MembershipsUnique
  <2>. QED
    BY <2>2, <2>3
<1>8. ToSet(List) = {List[i] : i \in 1..Len(List)}
  BY <1>2 DEF ToSet
<1>9. ASSUME form.alone PROVE {Shown(m) : m \in mine} = {Sent(item) : item \in ToSet(List)}
  <2>. HIDE DEF Shown, Sent, mine, List
  <2>1. \A i \in 1..Len(List) : \E m \in mine : Shown(m) = Sent(List[i])
    BY <1>6, <1>9
  <2>2. \A m \in mine : \E i \in 1..Len(List) : Shown(m) = Sent(List[i])
    BY <1>7, <1>9
  <2>. QED
    BY <1>8, <2>1, <2>2
<1>10. \A m \in DOMAIN members : members[m].user # u => members'[m] = members[m]
  BY <1>3 DEF Spared
<1>. QED
  BY <1>4, <1>9, <1>10

(* Memberships are written one at a time, or for a store, or deleted.      *)
LEMMA FollowsMembers ==
  ASSUME FInv, NEW t \in Slots, DropUsers(t) \/ SaveMember(t)
  PROVE  FormsFollow'
<1>1. Follows(at[t], members) /\ MembersSound
  BY DEF FInv, FormsFollow, IInv
<1>2. CASE DropUsers(t)
  <2>1. /\ Goto(t, Idle, at[t].users)
        /\ \A m \in at[t].members : m \in DOMAIN members /\ members[m].user \in at[t].users
    BY <1>1, <1>2 DEF DropUsers, At, Follows
  <2>2. CASE UNCHANGED members
    BY <2>1, <2>2, FollowsIdle, FollowsQuietly DEF FInv
  <2>3. CASE members' = Erase(members, at[t].members)
    <3>1. Steady /\ Spared(at[t].users)
      BY <1>1, <2>1, <2>3, ErasedSpares
    <3>. QED
      BY <2>1, <3>1, FollowsIdle, FollowsMoved DEF FInv
  <2>. QED
    BY <1>2, <2>2, <2>3 DEF DropUsers
<1>3. CASE SaveMember(t)
  <2>. DEFINE id == at[t].id
              v == at[t].row.user
  <2>1. Goto(t, Idle, {v}) /\ id \in DOMAIN members /\ members[id].user = v
    BY <1>1, <1>3 DEF SaveMember, At, Follows
  <2>2. CASE UNCHANGED members
    BY <2>1, <2>2, FollowsIdle, FollowsQuietly DEF FInv
  <2>3. CASE members' = Erase(members, {id})
    <3>1. Steady /\ Spared({v})
      BY <1>1, <2>1, <2>3, ErasedSpares
    <3>. QED
      BY <2>1, <3>1, FollowsIdle, FollowsMoved DEF FInv
  <2>4. CASE \E row \in MemberEdits(at[t].row) : members' = [members EXCEPT ![id] = row]
    <3>1. PICK row \in MemberEdits(at[t].row) : members' = [members EXCEPT ![id] = row]
      BY <2>4
    <3>2. at[t].row \in Membership
      BY <1>3 DEF SaveMember, At, FInv, IInv, CopiesAreSane, Sane
    <3>3. row.user = v
      BY <3>2 DEF MemberEdits, Membership
    <3>4. Steady /\ Spared({v})
      BY <1>1, <2>1, <3>1, <3>3, SavedSpares
    <3>. QED
      BY <2>1, <3>4, FollowsIdle, FollowsMoved DEF FInv
  <2>. QED
    BY <1>3, <2>2, <2>3, <2>4 DEF SaveMember
<1>. QED
  BY <1>2, <1>3

(* A membership is added by hand.                                          *)
LEMMA FollowsAddMember ==
  ASSUME FInv, NEW s \in Stores, NEW role \in Roles, NEW u \in Present, AddMember(u, s, role)
  PROVE  FormsFollow'
<1> SUFFICES ASSUME NEW t \in Slots PROVE Follows(at'[t], members')
  BY DEF FormsFollow
<1>0. Follows(at[t], members) /\ MembersSound /\ UsersSound
  BY DEF FInv, FormsFollow, IInv
<1>1. PICK more \in BOOLEAN :
        members' = Append(members, [user |-> u, store |-> s, role |-> role, active |-> more,
                                    gone |-> FALSE])
  BY DEF AddMember
<1>. DEFINE row == [user |-> u, store |-> s, role |-> role, active |-> more, gone |-> FALSE]
<1>2. row \in Membership
  <2>1. u \in 1..MaxUsers
    BY <1>0, PresentRow, Constants DEF UsersSound
  <2>. QED
    BY <2>1 DEF Membership
<1>. HIDE DEF row
<1>3. Steady /\ Spared({})
  BY <1>0, <1>1, <1>2, AddedSpares DEF row
<1>4. CASE At(t, "sync") /\ at[t].user = u
  <2>1. at'[t] = [at[t] EXCEPT !.alone = FALSE]
    BY <1>4 DEF AddMember
  <2>. QED
    BY <1>0, <1>4, <2>1, FollowsNot DEF At, Follows
<1>5. CASE ~(At(t, "sync") /\ at[t].user = u)
  <2>1. at'[t] = at[t]
    BY <1>5 DEF AddMember
  <2>. QED
    BY <1>0, <1>3, <2>1, FollowsOn
<1>. QED
  BY <1>4, <1>5

(* The store form, which ends that every form was alone.                   *)
LEMMA FollowsStoreForm ==
  ASSUME FInv, NEW s \in Stores, NEW active \in BOOLEAN, NEW U \in SUBSET Present,
         NEW roles \in [U -> Roles], StoreForm(s, active, roles)
  PROVE  FormsFollow'
<1> SUFFICES ASSUME NEW t \in Slots PROVE Follows(at'[t], members')
  BY DEF FormsFollow
<1>0. Follows(at[t], members) /\ MembersSound /\ UsersSound
  BY DEF FInv, FormsFollow, IInv
<1>1. CASE UNCHANGED members
  <2>1. Steady /\ Spared({})
    BY <1>1 DEF Steady, Spared
  <2>2. CASE At(t, "sync")
    <3>1. at'[t] = [at[t] EXCEPT !.alone = @ /\ members' = members]
      BY <2>2 DEF StoreForm
    <3>2. at'[t] = at[t]
      <4>1. FormTyped(at[t])
        BY <1>0, <2>2 DEF At, Follows
      <4>2. [at[t] EXCEPT !.alone = @ /\ members' = members] = at[t]
        BY <1>1, <4>1 DEF FormTyped
      <4>. QED
        BY <3>1, <4>2
    <3>. QED
      BY <1>0, <2>1, <3>2, FollowsOn
  <2>3. CASE ~At(t, "sync")
    <3>1. at'[t] = at[t]
      BY <2>3 DEF StoreForm
    <3>. QED
      BY <1>0, <2>1, <3>1, FollowsOn
  <2>. QED
    BY <2>2, <2>3
<1>2. CASE members' # members
  <2>1. members' = Staffed(s, roles) /\ UNCHANGED users
    BY <1>2 DEF StoreForm, Formed
  <2>2. Steady
    BY <1>0, <2>1, StoreStaffed
  <2>3. CASE At(t, "sync")
    <3>1. at'[t] = [at[t] EXCEPT !.alone = @ /\ members' = members]
      BY <2>3 DEF StoreForm
    <3>2. at'[t] = [at[t] EXCEPT !.alone = FALSE]
      BY <1>2, <3>1
    <3>. QED
      BY <1>0, <2>3, <3>2, FollowsNot DEF At, Follows
  <2>4. CASE ~At(t, "sync")
    <3>1. at'[t] = at[t]
      BY <2>4 DEF StoreForm
    <3>2. Follows(at[t], members')
      BY <1>0, <2>2, <2>4 DEF Follows, Steady, At
    <3>. QED
      BY <3>1, <3>2
  <2>. QED
    BY <2>3, <2>4
<1>. QED
  BY <1>1, <1>2

(* Only its last step takes a form that has no more stores to enrol away.  *)
LEMMA FormsStay ==
  ASSUME FInv, [Next]_vars, NEW t \in Slots,
         at[t].op = "sync", at[t].next > Len(at[t].stores), at'[t] = Idle
  PROVE  WithdrawOthers(t)
<1>. DEFINE Stays == at'[t].op = "sync" \/ WithdrawOthers(t)
<1>0. ASSUME NEW x PROVE [at[t] EXCEPT !.alone = x].op = "sync"
  <2>1. FormTyped(at[t])
    BY DEF FInv, FormsFollow, Follows
  <2>. QED
    BY <2>1 DEF FormTyped
<1>1. ASSUME NEW s, NEW place, NEW touched, Goto(s, place, touched), s # t PROVE Stays
  <2>1. at'[t] = at[t] \/ at'[t] = [at[t] EXCEPT !.alone = FALSE]
    BY <1>1 DEF Goto
  <2>. QED
    BY <1>0, <2>1
<1>2. ASSUME UNCHANGED vars PROVE Stays
  BY <1>2 DEF vars
<1>3. ASSUME NEW s \in Slots, Work(s) PROVE Stays
  <2>1. CASE s = t
    <3>1. ~InsertUser(t) /\ ~SaveUser(t) /\ ~DropUsers(t) /\ ~SaveMember(t)
      BY DEF InsertUser, SaveUser, DropUsers, SaveMember, At
    <3>2. ~EnrolNext(t)
      <4>1. FormTyped(at[t])
        BY DEF FInv, FormsFollow, Follows
      <4>2. at[t].next \in Nat /\ Len(at[t].stores) \in Nat
        BY <4>1 DEF FormTyped
      <4>. QED
        BY <4>2 DEF EnrolNext
    <3>. QED
      BY <1>3, <2>1, <3>1, <3>2 DEF Work
  <2>2. CASE s # t
    <3>1. CASE InsertUser(s)
      BY <1>1, <2>2, <3>1 DEF InsertUser
    <3>2. CASE SaveUser(s)
      <4>1. \E place : Goto(s, place, {})
        BY <3>2 DEF SaveUser
      <4>. QED
        BY <1>1, <2>2, <4>1
    <3>3. CASE EnrolNext(s)
      <4>1. \E place, touched : Goto(s, place, touched)
        BY <3>3 DEF EnrolNext
      <4>. QED
        BY <1>1, <2>2, <4>1
    <3>4. CASE WithdrawOthers(s) \/ DropUsers(s) \/ SaveMember(s)
      <4>1. \E touched : Goto(s, Idle, touched)
        BY <3>4 DEF WithdrawOthers, DropUsers, SaveMember
      <4>. QED
        BY <1>1, <2>2, <4>1
    <3>. QED
      BY <1>3, <3>1, <3>2, <3>3, <3>4 DEF Work
  <2>. QED
    BY <2>1, <2>2
<1>. HIDE DEF Stays
<1>4. ASSUME NEW s \in Slots, UserDesk(s) PROVE Stays
  <2>1. s # t /\ (UNCHANGED at \/ \E place : Goto(s, place, {}))
    <3>1. At(s, "idle")
      BY <1>4 DEF UserDesk, BeginCreate, FetchUser, FetchProfile, ChangePassword, FetchBySSO,
                  TakeThumb, CollectUsers, Begins
    <3>2. UNCHANGED at \/ \E place : Goto(s, place, {})
      BY <1>4 DEF UserDesk, BeginCreate, FetchUser, FetchProfile, ChangePassword, FetchBySSO,
                  TakeThumb, CollectUsers
    <3>. QED
      BY <3>1, <3>2 DEF At
  <2>. QED
    BY <1>1, <2>1 DEF Stays
<1>5. ASSUME NEW e \in Emails, AddBySSO(e) PROVE Stays
  BY <1>5 DEF AddBySSO, Stays
<1>6. ASSUME StoreDesk PROVE Stays
  <2>1. ASSUME NEW s \in Slots, NEW by, NEW m, FetchMember(s, by, m) PROVE Stays
    <3>1. s # t /\ \E place : Goto(s, place, {})
      BY <2>1 DEF FetchMember, Begins, At
    <3>. QED
      BY <1>1, <3>1
  <2>2. ASSUME NEW u, NEW s, NEW role, AddMember(u, s, role) PROVE Stays
    <3>1. at'[t] = at[t] \/ at'[t] = [at[t] EXCEPT !.alone = FALSE]
      BY <2>2 DEF AddMember
    <3>. QED
      BY <1>0, <3>1 DEF Stays
  <2>3. ASSUME NEW s, NEW active, NEW roles, StoreForm(s, active, roles) PROVE Stays
    <3>1. at'[t] = at[t] \/ \E x : at'[t] = [at[t] EXCEPT !.alone = x]
      BY <2>3 DEF StoreForm
    <3>. QED
      BY <1>0, <3>1 DEF Stays
  <2>. QED
    BY <1>6, <2>1, <2>2, <2>3, Zenon DEF StoreDesk
<1>7. Stays
  BY <1>2, <1>3, <1>4, <1>5, <1>6, Zenon DEF Next
<1>. QED
  BY <1>7 DEF Stays, Idle

(* Every step keeps what requests know.                                    *)
LEMMA FollowsInvariant == FInv /\ [Next]_vars => FInv'
<1> SUFFICES ASSUME FInv, [Next]_vars PROVE FormsFollow'
  BY NextInvariant DEF FInv
<1>1. CASE UNCHANGED <<members, at>>
  BY <1>1 DEF FInv, FormsFollow
<1>2. ASSUME NEW t \in Slots, Work(t) PROVE FormsFollow'
  BY <1>2, FollowsUsers, FollowsEnrolNext, FollowsWithdraw, FollowsMembers, Zenon DEF Work
<1>3. ASSUME NEW t \in Slots, UserDesk(t) PROVE FormsFollow'
  <2>0. NoStores \in Lists \cup {NoStores}
    OBVIOUS
  <2>1. CASE \E by \in Present, flags \in Flags, list \in Lists, e \in Emails :
               BeginCreate(t, by, e, flags, list)
    BY <2>1, FollowsReads, Zenon
  <2>2. CASE \E by \in Present, flags \in Flags, list \in Lists, u \in Present :
               FetchUser(t, by, u, flags, list)
    BY <2>2, FollowsReads, Zenon
  <2>3. CASE \E u \in DOMAIN users :
               \/ FetchProfile(t, u) \/ ChangePassword(t, u) \/ TakeThumb(t, u)
               \/ \E e \in Emails : FetchBySSO(t, u, e)
    BY <2>3, FollowsReads, Zenon
  <2>4. CASE \E by \in Present, U \in SUBSET Present : CollectUsers(t, by, U)
    BY <2>4, FollowsReads, Zenon
  <2>. QED
    BY <1>3, <2>1, <2>2, <2>3, <2>4, Zenon DEF UserDesk
<1>4. ASSUME NEW e \in Emails, AddBySSO(e) PROVE FormsFollow'
  BY <1>1, <1>4 DEF AddBySSO
<1>5. CASE StoreDesk
  <2>1. CASE \E t \in Slots, by \in Present, m \in Belongings : FetchMember(t, by, m)
    BY <2>1, FollowsReads, Zenon
  <2>2. CASE \E u \in Present, s \in Stores, role \in Roles : AddMember(u, s, role)
    BY <2>2, FollowsAddMember, Zenon
  <2>3. CASE \E s \in Stores, active \in BOOLEAN, U \in SUBSET Present :
               \E roles \in [U -> Roles] : StoreForm(s, active, roles)
    BY <2>3, FollowsStoreForm, Zenon
  <2>. QED
    BY <1>5, <2>1, <2>2, <2>3, Zenon DEF StoreDesk
<1>. QED
  BY <1>1, <1>2, <1>3, <1>4, <1>5, Zenon DEF Next, vars

(* Whatever forms, deletions, stores and memberships interleave, a user    *)
(* form that nobody disturbed leaves the account exactly the memberships   *)
(* it sent, and no form touches those of others                            *)
(* (_sync_store_memberships).                                              *)
THEOREM UndisturbedFormIsExact == Spec => AloneAFormIsExact
<1>1. Init => FInv
  BY InitInvariant DEF FInv, Init, FormsFollow, Follows, Idle
<1>2. FInv /\ [Next]_vars => FInv'
  BY FollowsInvariant
<1>3. FInv /\ [Next]_vars =>
        \A t \in Slots :
          At(t, "sync") /\ at[t].next > Len(at[t].stores) /\ at'[t] = Idle =>
            /\ at[t].alone =>
                 {[store |-> members'[m].store, role |-> members'[m].role,
                   active |-> members'[m].active] :
                    m \in {n \in DOMAIN members' :
                            ~members'[n].gone /\ members'[n].user = at[t].user}}
                 = {[store |-> item.store, role |-> item.role, active |-> TRUE] :
                      item \in ToSet(at[t].stores)}
            /\ \A m \in DOMAIN members :
                 members[m].user # at[t].user => members'[m] = members[m]
  <2> SUFFICES ASSUME FInv, [Next]_vars, NEW t \in Slots,
                      At(t, "sync"), at[t].next > Len(at[t].stores), at'[t] = Idle
               PROVE  /\ at[t].alone =>
                           {[store |-> members'[m].store, role |-> members'[m].role,
                             active |-> members'[m].active] :
                              m \in {n \in DOMAIN members' :
                                      ~members'[n].gone /\ members'[n].user = at[t].user}}
                           = {[store |-> item.store, role |-> item.role, active |-> TRUE] :
                                item \in ToSet(at[t].stores)}
                      /\ \A m \in DOMAIN members :
                           members[m].user # at[t].user => members'[m] = members[m]
    OBVIOUS
  <2>1. WithdrawOthers(t)
    BY FormsStay DEF At
  <2>. QED
    BY <2>1, FollowsWithdraw, Zenon
<1>. QED
  BY <1>1, <1>2, <1>3, PTL DEF Spec, AloneAFormIsExact
=============================================================================
