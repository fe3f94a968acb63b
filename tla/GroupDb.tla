------------------------------- MODULE GroupDb -------------------------------
(***************************************************************************)
(* The MySQL database of the group server: the tables users, chat_groups   *)
(* and group_members of src/create_database.sql, and the statements that   *)
(* src/src/group/server/server.c sends to them over its one connection.    *)
(*                                                                         *)
(* A SELECT helper is a state function, an INSERT or DELETE an action on   *)
(* dbVars.  get_group_id and get_user_id return the set of ids they find:  *)
(* empty for the -1 of the C helper, and a singleton otherwise.  The       *)
(* columns password, status, created_at and the tables messages and files  *)
(* are left out: no statement the server reaches reads them, and none      *)
(* fills the last two (broadcast_message, server.c:140, has no caller).    *)
(***************************************************************************)
EXTENDS Naturals

CONSTANTS
    Words,        \* what one %s of the line protocol can read
    MaxUserId,    \* bound on AUTO_INCREMENT of users
    MaxGroupId,   \* bound on AUTO_INCREMENT of chat_groups
    FirstUserId,  \* where the two counters stand when the model starts: an
    FirstGroupId  \* INSERT that fails uses up an id, so not always 1

ASSUME DbAssumption ==
    /\ MaxUserId \in Nat /\ MaxGroupId \in Nat
    /\ FirstUserId \in 1..(MaxUserId + 1)
    /\ FirstGroupId \in 1..(MaxGroupId + 1)

VARIABLES
    users,        \* rows of users
    groups,       \* rows of chat_groups; group_name is not UNIQUE
    members,      \* rows of group_members, keyed by (group, user)
    nextUser,     \* AUTO_INCREMENT counters
    nextGroup,
    lastInsertId  \* what the connection remembers for mysql_insert_id()

dbVars == <<users, groups, members, nextUser, nextGroup, lastInsertId>>
tables == <<users, groups, members>>

UserIds  == 1..MaxUserId
GroupIds == 1..MaxGroupId

UserRow   == [id : UserIds, name : Words, email : Words]
GroupRow  == [id : GroupIds, name : Words, creator : UserIds]
MemberRow == [group : GroupIds, user : UserIds, role : {"admin", "member"}]

DbTypeOK ==
    /\ users \subseteq UserRow
    /\ groups \subseteq GroupRow
    /\ members \subseteq MemberRow
    /\ nextUser \in 1..(MaxUserId + 1)
    /\ nextGroup \in 1..(MaxGroupId + 1)
    /\ lastInsertId \in 0..MaxUserId

DbInit ==
    /\ users = {} /\ groups = {} /\ members = {}
    /\ nextUser = FirstUserId /\ nextGroup = FirstGroupId
    /\ lastInsertId = 0

-----------------------------------------------------------------------------
(* Queries. *)

UserExists(u)  == \E r \in users : r.id = u
GroupExists(g) == \E r \in groups : r.id = g

\* group_name is not UNIQUE: the C code takes the first row, which a scan of
\* the primary key returns in id order.
\* (Mutant: the last row.)
LastGroupId(name) ==
    {r.id : r \in {s \in groups :
        s.name = name /\ \A t \in groups : t.name = name => t.id <= s.id}}

get_group_id(name) ==
    {r.id : r \in {s \in groups :
        s.name = name /\ \A t \in groups : t.name = name => s.id <= t.id}}

get_user_id(name) == {r.id : r \in {s \in users : s.name = name}}

is_group_member(u, g) == \E m \in members : m.user = u /\ m.group = g
is_group_admin(u, g)  ==
    \E m \in members : m.user = u /\ m.group = g /\ m.role = "admin"

-----------------------------------------------------------------------------
(* Statements.  AUTO_INCREMENT counts a rejected INSERT too. *)

CanInsertUser(name, email) ==
    \A r \in users : r.name # name /\ r.email # email

InsertUser(name, email) ==
    /\ nextUser <= MaxUserId
    /\ CanInsertUser(name, email)
    /\ users' = users \cup {[id |-> nextUser, name |-> name, email |-> email]}
    /\ lastInsertId' = nextUser
    /\ nextUser' = nextUser + 1
    /\ UNCHANGED <<groups, members, nextGroup>>

RejectUser(name, email) ==
    /\ nextUser <= MaxUserId
    /\ ~CanInsertUser(name, email)
    /\ nextUser' = nextUser + 1
    /\ UNCHANGED <<tables, nextGroup, lastInsertId>>

NewGroup(name, creator) ==
    [id |-> nextGroup, name |-> name, creator |-> creator]

\* (Mutants: two arguments swapped, the default role not given.)
MembershipSwapped(g, u, role) == [group |-> u, user |-> g, role |-> role]
MembershipAsAdmin(g, u, role) == [group |-> g, user |-> u, role |-> "admin"]
Membership(g, u, role) == [group |-> g, user |-> u, role |-> role]

\* insert_group followed by add_user_to_group(.., "admin"), as CREATE_GROUP
\* runs them.  The second INSERT has no AUTO_INCREMENT column, so it leaves
\* nothing for mysql_insert_id().
InsertGroupAndAdmin(name, creator) ==
    /\ nextGroup <= MaxGroupId
    /\ UserExists(creator)
    /\ groups' = groups \cup {NewGroup(name, creator)}
    /\ members' = members \cup {Membership(nextGroup, creator, "admin")}
    /\ nextGroup' = nextGroup + 1
    /\ lastInsertId' = 0
    /\ UNCHANGED <<users, nextUser>>

\* insert_group alone: all that is left when the server dies before its
\* second INSERT.  Its connection, and lastInsertId with it, is gone.
InsertGroupOnly(name, creator) ==
    /\ nextGroup <= MaxGroupId
    /\ UserExists(creator)
    /\ groups' = groups \cup {NewGroup(name, creator)}
    /\ nextGroup' = nextGroup + 1
    /\ lastInsertId' = 0
    /\ UNCHANGED <<users, members, nextUser>>

\* insert_group refused by FOREIGN KEY (creator_id).
RejectGroup(creator) ==
    /\ nextGroup <= MaxGroupId
    /\ ~UserExists(creator)
    /\ nextGroup' = nextGroup + 1
    /\ UNCHANGED <<tables, nextUser, lastInsertId>>

\* The foreign keys and the primary key of group_members.
CanAdd(g, u) == GroupExists(g) /\ UserExists(u) /\ ~is_group_member(u, g)

add_user_to_group(g, u, role) ==
    /\ CanAdd(g, u)
    /\ members' = members \cup {Membership(g, u, role)}
    /\ lastInsertId' = 0
    /\ UNCHANGED <<users, groups, nextUser, nextGroup>>

\* (Mutant: the DELETE forgets which user.)
RemoveEverybody(g, u) ==
    /\ members' = {m \in members : m.group # g}
    /\ lastInsertId' = 0
    /\ UNCHANGED <<users, groups, nextUser, nextGroup>>

\* A DELETE that matches no row succeeds too.
remove_user_from_group(g, u) ==
    /\ members' = {m \in members : ~(m.group = g /\ m.user = u)}
    /\ lastInsertId' = 0
    /\ UNCHANGED <<users, groups, nextUser, nextGroup>>

\* A new connection to the server has no last insert id.
Reconnect == lastInsertId' = 0 /\ UNCHANGED <<tables, nextUser, nextGroup>>

\* Everything the group server ever does to the database.  Groups are only
\* reached by name.
DbNext ==
    \/ \E name, email \in Words :
         InsertUser(name, email) \/ RejectUser(name, email)
    \/ \E name \in Words, u \in 0..MaxUserId :
         \/ InsertGroupAndAdmin(name, u) \/ InsertGroupOnly(name, u)
         \/ RejectGroup(u)
         \/ \E g \in get_group_id(name) :
              add_user_to_group(g, u, "member") \/ remove_user_from_group(g, u)
    \/ Reconnect

DbSpec == DbInit /\ [][DbNext]_dbVars
-----------------------------------------------------------------------------
(* What holds of the tables. *)

\* Ids are never given twice, every id a row mentions has its row, and what
\* mysql_insert_id() may still return is no id or the id of a user - never that
\* of a group (create_database.sql:10-50, server.c:178-208, 725).
KeysAndReferences ==
    /\ \A r \in users : r.id < nextUser
    /\ \A r \in groups : r.id < nextGroup /\ UserExists(r.creator)
    /\ \A r, s \in groups : r.id = s.id => r = s
    /\ \A m \in members : GroupExists(m.group) /\ UserExists(m.user)
    /\ lastInsertId = 0 \/ UserExists(lastInsertId)

\* Nobody becomes admin but by creating the group: role 'admin' in
\* group_members and creator_id in chat_groups agree, whatever members join,
\* are added, leave and come back (server.c:371-389, 390-440, 463-516).
AdminIsCreator ==
    \A m \in members : m.role = "admin" =>
        \E r \in groups : r.id = m.group /\ r.creator = m.user

\* A second group of the same name is out of reach: every command resolves the
\* name to the older group (server.c:44-56), so its creator stays its only
\* member for ever and nobody can send to it.
NamesakesUnreachable ==
    \A r \in groups : r.id \notin get_group_id(r.name) =>
        \A m \in members : m.group = r.id => m.user = r.creator

DbInv == DbTypeOK /\ KeysAndReferences /\ AdminIsCreator /\ NamesakesUnreachable
=============================================================================
