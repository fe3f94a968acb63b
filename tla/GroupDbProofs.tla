---------------------------- MODULE GroupDbProofs ----------------------------
(***************************************************************************)
(* Theorems about the tables of GroupDb under the statements of DbNext.    *)
(***************************************************************************)
EXTENDS GroupDb, TLAPS

\* The helpers return ids of rows.
LEMMA GroupIdFound ==
    ASSUME DbTypeOK, NEW name, NEW g \in get_group_id(name)
    PROVE  g \in GroupIds /\ GroupExists(g)
  BY DEF DbTypeOK, get_group_id, GroupExists, GroupRow

\* A name resolves to users only (server.c:62-84).
LEMMA UserIdFound ==
    ASSUME DbTypeOK, NEW name, NEW u \in get_user_id(name)
    PROVE  u \in UserIds /\ UserExists(u)
  BY DEF DbTypeOK, get_user_id, UserExists, UserRow

\* Whoever has a row has an id of the type.
LEMMA ExistingUserId ==
    ASSUME DbTypeOK, NEW u, UserExists(u)
    PROVE  u \in UserIds
  BY DEF DbTypeOK, UserExists, UserRow

\* The statements keep the tables well typed.
LEMMA DbTypeStep ==
    ASSUME DbTypeOK, DbNext
    PROVE  DbTypeOK'
<1> USE DbAssumption DEF UserIds, GroupIds
<1>1. ASSUME NEW name \in Words, NEW email \in Words, InsertUser(name, email)
      PROVE  DbTypeOK'
  BY <1>1 DEF InsertUser, DbTypeOK, UserRow, GroupRow, MemberRow
<1>2. ASSUME NEW name \in Words, NEW email \in Words, RejectUser(name, email)
      PROVE  DbTypeOK'
  BY <1>2 DEF RejectUser, DbTypeOK, UserRow, tables
<1>3. ASSUME NEW name \in Words, NEW u \in 0..MaxUserId, InsertGroupAndAdmin(name, u)
      PROVE  DbTypeOK'
  BY <1>3, ExistingUserId
     DEF InsertGroupAndAdmin, DbTypeOK, UserRow, GroupRow, MemberRow, NewGroup, Membership
<1>4. ASSUME NEW name \in Words, NEW u \in 0..MaxUserId, InsertGroupOnly(name, u)
      PROVE  DbTypeOK'
  BY <1>4, ExistingUserId
     DEF InsertGroupOnly, DbTypeOK, UserRow, GroupRow, MemberRow, NewGroup
<1>5. ASSUME NEW u \in 0..MaxUserId, RejectGroup(u)
      PROVE  DbTypeOK'
  BY <1>5 DEF RejectGroup, DbTypeOK, tables
<1>6. ASSUME NEW name \in Words, NEW u \in 0..MaxUserId, NEW g \in get_group_id(name),
             add_user_to_group(g, u, "member")
      PROVE  DbTypeOK'
  <2>1. g \in GroupIds /\ u \in UserIds
    BY <1>6, GroupIdFound, ExistingUserId DEF add_user_to_group, CanAdd
  <2> QED
    BY <1>6, <2>1 DEF add_user_to_group, DbTypeOK, MemberRow, Membership
<1>7. ASSUME NEW g, NEW u, remove_user_from_group(g, u)
      PROVE  DbTypeOK'
  BY <1>7 DEF remove_user_from_group, DbTypeOK
<1>8. CASE Reconnect
  BY <1>8 DEF Reconnect, DbTypeOK, tables
<1> QED
  BY <1>1, <1>2, <1>3, <1>4, <1>5, <1>6, <1>7, <1>8 DEF DbNext

-----------------------------------------------------------------------------
(* The invariant of the tables.  One lemma per kind of statement. *)

\* A new user gets an id no row has used.
LEMMA InsertUserKeepsInv ==
    ASSUME DbInv, NEW name \in Words, NEW email \in Words,
           InsertUser(name, email) \/ RejectUser(name, email) \/ Reconnect
    PROVE  KeysAndReferences' /\ AdminIsCreator' /\ NamesakesUnreachable'
<1> USE DbAssumption DEF UserIds
<1>1. groups' = groups /\ members' = members /\ nextGroup' = nextGroup
  BY DEF InsertUser, RejectUser, Reconnect, tables
<1>2. users \subseteq users'
  BY DEF InsertUser, RejectUser, Reconnect, tables
<1>3. \A r \in users' : r.id < nextUser'
  <2>1. CASE InsertUser(name, email)
    BY <2>1 DEF InsertUser, DbInv, DbTypeOK, KeysAndReferences, UserRow
  <2>2. CASE RejectUser(name, email)
    BY <2>2 DEF RejectUser, tables, DbInv, DbTypeOK, KeysAndReferences, UserRow
  <2>3. CASE Reconnect
    BY <2>3 DEF Reconnect, tables, DbInv, KeysAndReferences
  <2> QED
    BY <2>1, <2>2, <2>3
<1>4. lastInsertId' = 0 \/ UserExists(lastInsertId)'
  <2>1. CASE InsertUser(name, email)
    <3> DEFINE row == [id |-> nextUser, name |-> name, email |-> email]
    <3>1. row \in users' /\ lastInsertId' = nextUser
      BY <2>1 DEF InsertUser
    <3>2. row.id = nextUser
      OBVIOUS
    <3>3. \E r \in users' : r.id = lastInsertId'
      BY <3>1, <3>2
    <3> QED
      BY <3>3 DEF UserExists
  <2>2. CASE RejectUser(name, email)
    BY <2>2 DEF RejectUser, tables, DbInv, KeysAndReferences, UserExists
  <2>3. CASE Reconnect
    BY <2>3 DEF Reconnect
  <2> QED
    BY <2>1, <2>2, <2>3
<1>5. KeysAndReferences'
  BY <1>1, <1>2, <1>3, <1>4 DEF DbInv, KeysAndReferences, UserExists, GroupExists
<1> QED
  BY <1>1, <1>5 DEF DbInv, AdminIsCreator, NamesakesUnreachable, get_group_id

\* A new group, with or without the row of its admin.
LEMMA NewGroupKeepsInv ==
    ASSUME DbInv, NEW name \in Words, NEW u \in 0..MaxUserId,
           InsertGroupAndAdmin(name, u) \/ InsertGroupOnly(name, u)
    PROVE  KeysAndReferences' /\ AdminIsCreator' /\ NamesakesUnreachable'
<1> DEFINE g == NewGroup(name, u)
           a == Membership(nextGroup, u, "admin")
<1> USE DbAssumption DEF GroupIds
<1>1. /\ users' = users /\ nextUser' = nextUser
      /\ groups' = groups \cup {g} /\ nextGroup' = nextGroup + 1
      /\ lastInsertId' = 0 /\ UserExists(u)
      /\ members \subseteq members' /\ members' \subseteq members \cup {a}
  BY DEF InsertGroupAndAdmin, InsertGroupOnly
<1>2. /\ g.id = nextGroup /\ g.name = name /\ g.creator = u
      /\ a.group = nextGroup /\ a.user = u
  BY DEF NewGroup, Membership
<1>3. /\ nextGroup \in Nat
      /\ \A r \in groups : r.id \in Nat /\ r.id < nextGroup
      /\ \A m \in members : m.group \in Nat /\ m.group < nextGroup
  BY DEF DbInv, DbTypeOK, KeysAndReferences, GroupRow, MemberRow, GroupExists
<1>4. KeysAndReferences'
  BY <1>1, <1>2, <1>3 DEF DbInv, KeysAndReferences, UserExists, GroupExists
<1>5. AdminIsCreator'
  BY <1>1, <1>2 DEF DbInv, AdminIsCreator
<1>6. NamesakesUnreachable'
  <2> SUFFICES ASSUME NEW r \in groups', r.id \notin get_group_id(r.name)',
                      NEW m \in members', m.group = r.id
               PROVE  m.user = r.creator
    BY DEF NamesakesUnreachable
  <2>1. CASE r = g
    BY <2>1, <1>1, <1>2, <1>3
  <2>2. CASE r \in groups
    <3>1. m \in members
      BY <2>2, <1>1, <1>2, <1>3
    <3>2. r.id \notin get_group_id(r.name)
      BY <2>2, <1>1, <1>2, <1>3 DEF get_group_id
    <3> QED
      BY <2>2, <3>1, <3>2 DEF DbInv, NamesakesUnreachable
  <2> QED
    BY <2>1, <2>2, <1>1
<1> QED
  BY <1>4, <1>5, <1>6

\* A refused INSERT leaves the tables and uses up an id.
LEMMA RejectGroupKeepsInv ==
    ASSUME DbInv, NEW u, RejectGroup(u)
    PROVE  KeysAndReferences' /\ AdminIsCreator' /\ NamesakesUnreachable'
<1> USE DbAssumption DEF GroupIds
<1>1. /\ users' = users /\ groups' = groups /\ members' = members
      /\ nextUser' = nextUser /\ nextGroup' = nextGroup + 1
      /\ lastInsertId' = lastInsertId
  BY DEF RejectGroup, tables
<1>2. KeysAndReferences'
  BY <1>1 DEF DbInv, DbTypeOK, KeysAndReferences, GroupRow, UserExists, GroupExists
<1> QED
  BY <1>1, <1>2 DEF DbInv, AdminIsCreator, NamesakesUnreachable, get_group_id

\* A plain member enters the group a name leads to.
LEMMA AddKeepsInv ==
    ASSUME DbInv, NEW name, NEW g \in get_group_id(name), NEW u,
           add_user_to_group(g, u, "member")
    PROVE  KeysAndReferences' /\ AdminIsCreator' /\ NamesakesUnreachable'
<1> DEFINE a == Membership(g, u, "member")
<1>1. /\ users' = users /\ groups' = groups /\ members' = members \cup {a}
      /\ nextUser' = nextUser /\ nextGroup' = nextGroup
      /\ lastInsertId' = 0 /\ GroupExists(g) /\ UserExists(u)
  BY DEF add_user_to_group, CanAdd
<1>2. a.group = g /\ a.user = u /\ a.role = "member"
  BY DEF Membership
<1>3. KeysAndReferences'
  BY <1>1, <1>2 DEF DbInv, KeysAndReferences, UserExists, GroupExists
<1>4. AdminIsCreator'
  BY <1>1, <1>2 DEF DbInv, AdminIsCreator
<1>5. NamesakesUnreachable'
  <2> SUFFICES ASSUME NEW r \in groups, r.id \notin get_group_id(r.name),
                      NEW m \in members', m.group = r.id
               PROVE  m.user = r.creator
    BY <1>1 DEF NamesakesUnreachable, get_group_id
  <2>1. r.id # g
    <3>1. PICK s \in groups : s.id = g /\ s.name = name
      BY DEF get_group_id
    <3>2. r.id = g => r = s
      BY <3>1 DEF DbInv, KeysAndReferences
    <3> QED
      BY <3>1, <3>2
  <2> QED
    BY <1>1, <1>2, <2>1 DEF DbInv, NamesakesUnreachable
<1> QED
  BY <1>3, <1>4, <1>5

\* A DELETE takes away memberships and nothing they refer to.
LEMMA RemoveKeepsInv ==
    ASSUME DbInv, NEW g, NEW u, remove_user_from_group(g, u)
    PROVE  KeysAndReferences' /\ AdminIsCreator' /\ NamesakesUnreachable'
<1>1. /\ users' = users /\ groups' = groups /\ members' \subseteq members
      /\ nextUser' = nextUser /\ nextGroup' = nextGroup
      /\ lastInsertId' = 0
  BY DEF remove_user_from_group
<1> QED
  BY <1>1 DEF DbInv, KeysAndReferences, AdminIsCreator, NamesakesUnreachable,
              get_group_id, UserExists, GroupExists

\* The tables stay typed, keyed and referenced, roles agree with creators and
\* namesakes stay out of reach, under every statement the server sends
\* (server.c:178-224 and create_database.sql:10-50).
THEOREM DbInvStep == DbInv /\ [DbNext]_dbVars => DbInv'
<1> SUFFICES ASSUME DbInv, [DbNext]_dbVars PROVE DbInv'
  OBVIOUS
<1>1. CASE DbNext
  <2>1. DbTypeOK'
    BY <1>1, DbTypeStep DEF DbInv
  <2>2. KeysAndReferences' /\ AdminIsCreator' /\ NamesakesUnreachable'
    <3>1. ASSUME NEW name \in Words, NEW email \in Words,
                 InsertUser(name, email) \/ RejectUser(name, email)
          PROVE  KeysAndReferences' /\ AdminIsCreator' /\ NamesakesUnreachable'
      BY <3>1, InsertUserKeepsInv
    <3>2. ASSUME NEW name \in Words, NEW u \in 0..MaxUserId,
                 InsertGroupAndAdmin(name, u) \/ InsertGroupOnly(name, u)
          PROVE  KeysAndReferences' /\ AdminIsCreator' /\ NamesakesUnreachable'
      BY <3>2, NewGroupKeepsInv
    <3>3. ASSUME NEW name \in Words, NEW u \in 0..MaxUserId,
                 NEW g \in get_group_id(name), add_user_to_group(g, u, "member")
          PROVE  KeysAndReferences' /\ AdminIsCreator' /\ NamesakesUnreachable'
      BY <3>3, AddKeepsInv
    <3>4. CASE Reconnect
      <4>1. groups' = groups /\ members' = members /\ users' = users
            /\ nextUser' = nextUser /\ nextGroup' = nextGroup /\ lastInsertId' = 0
        BY <3>4 DEF Reconnect, tables
      <4> QED
        BY <4>1 DEF DbInv, KeysAndReferences, AdminIsCreator, NamesakesUnreachable,
                    get_group_id, UserExists, GroupExists
    <3> QED
      BY <1>1, <3>1, <3>2, <3>3, <3>4, RejectGroupKeepsInv, RemoveKeepsInv DEF DbNext
  <2> QED
    BY <2>1, <2>2 DEF DbInv
<1>2. CASE UNCHANGED dbVars
  BY <1>2 DEF dbVars, DbInv, DbTypeOK, KeysAndReferences, AdminIsCreator,
              NamesakesUnreachable, get_group_id, UserExists, GroupExists
<1> QED
  BY <1>1, <1>2

\* Empty tables satisfy it.
LEMMA DbInvStart == DbInit => DbInv
  BY DbAssumption DEF DbInit, DbInv, DbTypeOK, KeysAndReferences, AdminIsCreator,
     NamesakesUnreachable

\* Whatever the server does through DbNext, the tables keep their invariant.
THEOREM DbCorrect == DbSpec => []DbInv
  BY DbInvStart, DbInvStep, PTL DEF DbSpec
=============================================================================
