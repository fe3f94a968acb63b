-------------------------------- MODULE Ver2Db --------------------------------
(***************************************************************************)
(* The tables of src/ver2/chatfileapp/db/create_database.sql and the       *)
(* statements the second server sends to them.  A statement takes tables   *)
(* to tables and has an answer: what execute_query (db.c:25-31) returns    *)
(* for it, which is NULL for every INSERT, UPDATE and DELETE, carried out  *)
(* or refused.  The id -1 of somebody who is not logged in is Nobody.      *)
(*                                                                         *)
(* The tables messages and files are left out: no statement the server     *)
(* reaches reads the first, and none fills the second.                     *)
(***************************************************************************)
EXTENDS Naturals

CONSTANTS
    Words,        \* what one %s of the line protocol can read
    MaxUserId,    \* bounds on AUTO_INCREMENT: an INSERT beyond fails, as it
    MaxGroupId,   \* does when an INT runs out
    OldUsers,     \* the rows of users when the model starts, and where
    FirstUserId   \* AUTO_INCREMENT stands then

Nobody   == 0
UserIds  == 1..MaxUserId
GroupIds == 1..MaxGroupId

UserRow   == [id : UserIds, name : Words, password : Words, email : Words,
              online : BOOLEAN]
GroupRow  == [id : GroupIds, name : Words, creator : UserIds]
MemberRow == [group : GroupIds, user : UserIds, role : {"admin", "member"}]

ASSUME Ver2DbAssumption ==
    /\ MaxUserId \in Nat /\ MaxGroupId \in Nat
    /\ FirstUserId \in 1..(MaxUserId + 1)
    /\ OldUsers \subseteq UserRow
    /\ \A r, s \in OldUsers :
         r.id = s.id \/ r.name = s.name \/ r.email = s.email => r = s
    /\ \A r \in OldUsers : r.id < FirstUserId /\ ~r.online

Tables == [users : SUBSET UserRow, groups : SUBSET GroupRow,
           members : SUBSET MemberRow,
           nextUser : 1..(MaxUserId + 1), nextGroup : 1..(MaxGroupId + 1)]

\* A result set is told by its first row: none, or one with an id or a 1 in it,
\* or one nobody looks at.
Null   == [class |-> "null", id |-> 0]
None   == [class |-> "none", id |-> 0]
Row(n) == [class |-> "row", id |-> n]
Answer == {Null, None} \cup {Row(n) : n \in UserIds \cup GroupIds \cup {0, 1}}

\* Of a statement that was not made, and of one that may get any answer.
NoAnswer == [class |-> "no_answer", id |-> 0]
Mixed    == [class |-> "mixed", id |-> 0]

OldTables ==
    [users |-> OldUsers, groups |-> {}, members |-> {},
     nextUser |-> FirstUserId, nextGroup |-> 1]

-----------------------------------------------------------------------------
(* SELECT. *)

\* username and group_name are UNIQUE: at most one row is found.
FirstId(rows) == IF rows = {} THEN None ELSE Row((CHOOSE r \in rows : TRUE).id)

FindUser(t, name)  == FirstId({r \in t.users : r.name = name})
FindGroup(t, name) == FirstId({r \in t.groups : r.name = name})

\* (Mutants: only the password, or only the name, is asked for.)
FindPassword(t, name, password) ==
    FirstId({r \in t.users : r.password = password})
FindName(t, name, password) ==
    FirstId({r \in t.users : r.name = name})
FindAccount(t, name, password) ==
    FirstId({r \in t.users : r.name = name /\ r.password = password})

\* SELECT 1.
FindMember(t, g, u) ==
    IF \E m \in t.members : m.group = g /\ m.user = u THEN Row(1) ELSE None

-----------------------------------------------------------------------------
(* INSERT, UPDATE, DELETE.  AUTO_INCREMENT counts a refused INSERT too. *)

HasUser(t, u)  == \E r \in t.users : r.id = u
HasGroup(t, g) == \E r \in t.groups : r.id = g

Count(n, max) == IF n > max THEN n ELSE n + 1

NewUser(t, name, password, email) ==
    LET refused == t.nextUser > MaxUserId
                     \/ \E r \in t.users : r.name = name \/ r.email = email
    IN  [t EXCEPT !.nextUser = Count(@, MaxUserId),
                  !.users = IF refused THEN @ ELSE @ \cup
                      {[id |-> t.nextUser, name |-> name, password |-> password,
                        email |-> email, online |-> FALSE]}]

NewGroup(t, name, creator) ==
    LET refused == \/ t.nextGroup > MaxGroupId \/ ~HasUser(t, creator)
                   \/ \E r \in t.groups : r.name = name
    IN  [t EXCEPT !.nextGroup = Count(@, MaxGroupId),
                  !.groups = IF refused THEN @ ELSE @ \cup
                      {[id |-> t.nextGroup, name |-> name, creator |-> creator]}]

NewMember(t, g, u, role) ==
    LET refused == \/ ~HasGroup(t, g) \/ ~HasUser(t, u)
                   \/ \E m \in t.members : m.group = g /\ m.user = u
    IN  [t EXCEPT !.members = IF refused THEN @ ELSE @ \cup
                      {[group |-> g, user |-> u, role |-> role]}]

DropMember(t, g, u) ==
    [t EXCEPT !.members = {m \in @ : ~(m.group = g /\ m.user = u)}]

\* (Mutant: the UPDATE forgets its WHERE.)
SetEverybody(t, u, online) ==
    [t EXCEPT !.users = {[r EXCEPT !.online = online] : r \in @}]
SetStatus(t, u, online) ==
    [t EXCEPT !.users = {IF r.id = u THEN [r EXCEPT !.online = online] ELSE r :
                           r \in @}]
=============================================================================
