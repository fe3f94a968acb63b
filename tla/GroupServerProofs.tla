-------------------------- MODULE GroupServerProofs --------------------------
(***************************************************************************)
(* Theorems about GroupServer, for every value of its constants.           *)
(*                                                                         *)
(* A step of the server does to the database what DbNext allows, so what   *)
(* concerns the tables alone is inherited from GroupDbProofs; the server's *)
(* own state is followed action by action.                                 *)
(***************************************************************************)
EXTENDS GroupServer, GroupDbProofs

-----------------------------------------------------------------------------
(* The parts the handlers are made of. *)

\* A line with another one glued to it is a line, and what sscanf leaves is a word.
LEMMA LineTypes ==
    ASSUME NEW line \in Line
    PROVE  Glue(line) \in Line /\ Reading(line.w1) \subseteq Words
                               /\ Reading(line.w2) \subseteq Words
  BY ServerAssumption DEF Line, Glue, Reading

\* While a handler runs, its slot is a client with an open socket and a line.
LEMMA HandlingTypes ==
    ASSUME TypeOK, NEW i \in Slots, NEW op, Handling(i, op)
    PROVE  /\ clients[i] \in Client /\ clients[i].socket \in Conns
           /\ IdOf(i) \in 0..MaxUserId
           /\ LineOf(i) \in Line
           /\ Reading(LineOf(i).w1) \subseteq Words
           /\ Reading(LineOf(i).w2) \subseteq Words
<1>1. clients[i] \in Client /\ clients[i].socket \in Conns
  BY DEF TypeOK, ServerTypeOK, Handling, Current
<1>2. LineOf(i) \in Line
  BY <1>1 DEF TypeOK, ServerTypeOK, Handling, LineOf
<1> QED
  BY <1>1, <1>2, LineTypes DEF IdOf, Client

\* get_user_id finds ids a client may have.
LEMMA UserIdsFound ==
    ASSUME DbTypeOK, NEW name
    PROVE  get_user_id(name) \subseteq 0..MaxUserId
  BY DbAssumption, UserIdFound DEF UserIds

\* The end of the process leaves every variable of the server with its type.
LEMMA DieTypes ==
    ASSUME ServerTypeOK, Die, peer' \in [Conns -> {"idle", "connected", "up", "gone", "reset"}]
    PROVE  ServerTypeOK'
  BY DEF ServerTypeOK, Die, Silent

\* A send leaves the peers with their type.
LEMMA AfterSendsTypes ==
    ASSUME ServerTypeOK, NEW out
    PROVE  AfterSends(out) \in [Conns -> {"idle", "connected", "up", "gone", "reset"}]
  BY DEF ServerTypeOK, AfterSends

\* The common end of the handlers keeps the types.
LEMMA RespondTypes ==
    ASSUME ServerTypeOK, NEW i, clients[i].socket \in Conns,
           NEW out \in [Conns -> SUBSET Item], NEW flags \in SUBSET Cells,
           Respond(i, out, flags)
    PROVE  ServerTypeOK'
<1>1. peer' \in [Conns -> {"idle", "connected", "up", "gone", "reset"}]
  BY AfterSendsTypes DEF Respond
<1>2. CASE Die
  BY <1>1, <1>2, DieTypes
<1>3. CASE ~Die
  BY <1>1, <1>3 DEF Respond, ServerTypeOK
<1> QED
  BY <1>2, <1>3

\* Sending nothing is sending.
LEMMA SilentTypes == Silent \in [Conns -> SUBSET Item]
  BY DEF Silent

\* One reply to the own client is sending.
LEMMA OutTypes ==
    ASSUME NEW i, NEW what \in Replies
    PROVE  ReplyOut(i, what) \in [Conns -> SUBSET Item]
<1>1. {[kind |-> "reply", what |-> what]} \in SUBSET Item
  BY DEF Item
<1> QED
  BY <1>1, SilentTypes DEF ReplyOut

\* A handler that ends in one reply keeps the types.
LEMMA ReplyTypes ==
    ASSUME ServerTypeOK, NEW i, clients[i].socket \in Conns,
           NEW what \in Replies, Reply(i, what)
    PROVE  ServerTypeOK'
  BY RespondTypes, OutTypes DEF Reply, ServerTypeOK

\* What MESSAGE sends out is made of chat items.
LEMMA BroadcastTypes ==
    ASSUME NEW i, IdOf(i) \in 0..MaxUserId, NEW text \in Words, NEW flags
    PROVE  Broadcast(i, text, flags) \in [Conns -> SUBSET Item]
  BY DEF Broadcast, Item, Sending

-----------------------------------------------------------------------------
(* Types. *)

\* Clients keep the types and leave the tables alone.
LEMMA EnvironmentTypes ==
    ASSUME TypeOK, Environment
    PROVE  ServerTypeOK'
<1> SUFFICES ASSUME NEW c \in Conns,
               \/ Connect(c) \/ HangUp(c)
               \/ \E line \in Hellos : SayHello(c, line)
               \/ \E line \in Line : Say(c, line)
             PROVE  ServerTypeOK'
  BY ServerAssumption DEF Environment, SayMore, TypeOK, ServerTypeOK
<1>1. ASSUME NEW line \in Line, Arrive(c, line)
      PROVE  inbox' \in [Conns -> Line \cup {Nothing}]
  BY <1>1, LineTypes DEF Arrive, TypeOK, ServerTypeOK
<1>2. CASE Connect(c)
  BY <1>2 DEF Connect, TypeOK, ServerTypeOK, loopVars, memVars, Silent
<1>3. CASE HangUp(c)
  BY <1>3 DEF HangUp, TypeOK, ServerTypeOK, loopVars, memVars, Silent
<1>4. CASE \E line \in Hellos : SayHello(c, line)
  BY <1>4, <1>1, ServerAssumption
     DEF SayHello, TypeOK, ServerTypeOK, loopVars, memVars, Silent
<1>5. CASE \E line \in Line : Say(c, line)
  BY <1>5, <1>1, ServerAssumption
     DEF Say, TypeOK, ServerTypeOK, loopVars, memVars, Silent
<1> QED
  BY <1>2, <1>3, <1>4, <1>5

\* pselect, accept, the end and the new start of the process keep the types.
LEMMA LoopTypes ==
    ASSUME TypeOK,
           \/ Select \/ AcceptClient \/ AcceptWithoutSlot \/ AcceptFails
           \/ Kill \/ Restart
    PROVE  ServerTypeOK'
<1> USE DEF TypeOK, ServerTypeOK, Silent
<1>1. CASE Select
  BY <1>1 DEF Select, SlotSockets, memVars, netVars, Client
<1>2. CASE AcceptClient
  BY <1>2 DEF AcceptClient, memVars
<1>3. CASE AcceptWithoutSlot
  BY <1>3 DEF AcceptWithoutSlot, memVars
<1>4. CASE AcceptFails \/ Kill
  BY <1>4, DieTypes DEF AcceptFails, Kill
<1>5. CASE Restart
  BY <1>5 DEF Restart, memVars, netVars
<1> QED
  BY <1>1, <1>2, <1>3, <1>4, <1>5

\* The common end of the registration block keeps the types.
LEMMA EndRegistrationTypes ==
    ASSUME TypeOK, EndRegistration,
           clients' \in [Slots -> Client \cup {NULL}],
           fd' \in [Conns -> {"none", "queued", "open", "closed"}]
    PROVE  ServerTypeOK'
  BY DEF EndRegistration, TypeOK, ServerTypeOK, Silent

\* A filled slot holds a client.
LEMMA FillSlotTypes ==
    ASSUME TypeOK, NEW i \in Slots, NEW id \in 0..MaxUserId, NEW name \in Words,
           newSock \in Conns, FillSlot(i, id, name)
    PROVE  /\ clients' \in [Slots -> Client \cup {NULL}]
           /\ fd' \in [Conns -> {"none", "queued", "open", "closed"}]
  BY DEF FillSlot, TypeOK, ServerTypeOK, Client

\* The two registrations that keep their slot keep the types, and do to the
\* tables what DbNext allows.
LEMMA RegisterFills ==
    ASSUME TypeOK, NEW i \in Slots, RegisterUser(i) \/ RegisterDuplicate(i)
    PROVE  DbNext /\ \E id \in 0..MaxUserId, name \in Words : FillSlot(i, id, name)
<1> DEFINE name  == inbox[newSock].w1
           email == inbox[newSock].w2
<1>1. newSock \in Conns /\ IsRegistration(inbox[newSock])
  BY DEF RegisterUser, RegisterDuplicate, Registering, TypeOK, ServerTypeOK
<1>2. name \in Words /\ email \in Words
  BY <1>1 DEF IsRegistration, TypeOK, ServerTypeOK, Line, Ops, OneWordOps, TwoWordOps
<1>3. \/ InsertUser(name, email) /\ FillSlot(i, nextUser, name)
      \/ RejectUser(name, email) /\ \E id \in {0, lastInsertId} : FillSlot(i, id, name)
  BY DEF RegisterUser, RegisterDuplicate
<1>4. DbNext
  BY <1>2, <1>3 DEF DbNext
<1>5. \E id \in 0..MaxUserId : FillSlot(i, id, name)
  <2>1. InsertUser(name, email) => nextUser \in 0..MaxUserId
    BY DbAssumption DEF InsertUser, TypeOK, DbTypeOK
  <2>2. {0, lastInsertId} \subseteq 0..MaxUserId
    BY DbAssumption DEF TypeOK, DbTypeOK
  <2> QED
    BY <1>3, <2>1, <2>2
<1> HIDE DEF name, email
<1> QED
  BY <1>2, <1>4, <1>5

\* So does the one that gives the slot back.
LEMMA RegisterTypes ==
    ASSUME TypeOK, NEW i \in Slots, Register(i)
    PROVE  ServerTypeOK' /\ (DbNext \/ UNCHANGED dbVars)
<1>1. newSock \in Conns /\ EndRegistration
  BY DEF Register, RegisterUser, RegisterDuplicate, RegisterInvalid, Registering,
         TypeOK, ServerTypeOK
<1>2. CASE RegisterUser(i) \/ RegisterDuplicate(i)
  BY <1>1, <1>2, RegisterFills, FillSlotTypes, EndRegistrationTypes
<1>3. CASE RegisterInvalid(i)
  <2>1. /\ clients' \in [Slots -> Client \cup {NULL}]
        /\ fd' \in [Conns -> {"none", "queued", "open", "closed"}]
    BY <1>3 DEF RegisterInvalid, TypeOK, ServerTypeOK
  <2> QED
    BY <1>1, <1>3, <2>1, EndRegistrationTypes DEF RegisterInvalid
<1> QED
  BY <1>2, <1>3 DEF Register

\* One step per handler: what it answers is well typed, and what it does to
\* the tables is a step of DbNext.
LEMMA HandlerTypes ==
    ASSUME TypeOK, NEW i \in Slots, Handler(i) \/ CreateGroupCutShort(i)
    PROVE  ServerTypeOK' /\ (DbNext \/ UNCHANGED dbVars)
<1>0. ServerTypeOK /\ DbTypeOK
  BY DEF TypeOK
<1>1. ASSUME NEW what \in Replies, NEW op, Handling(i, op), Reply(i, what)
      PROVE  ServerTypeOK'
  BY <1>0, <1>1, HandlingTypes, ReplyTypes
<1>2. ASSUME NEW what \in Replies, NEW op, Handling(i, op), Refuse(i, what)
      PROVE  ServerTypeOK' /\ UNCHANGED dbVars
  BY <1>1, <1>2 DEF Refuse
<1>3. CASE CreateGroup(i)
  <2>1. PICK name \in Reading(LineOf(i).w1) :
          \/ InsertGroupAndAdmin(name, IdOf(i)) /\ Reply(i, "created")
          \/ RejectGroup(IdOf(i)) /\ Reply(i, "create_failed")
    BY <1>3 DEF CreateGroup
  <2>2. name \in Words /\ IdOf(i) \in 0..MaxUserId
    BY <1>3, HandlingTypes DEF CreateGroup
  <2>3. Handling(i, "CREATE_GROUP")
    BY <1>3 DEF CreateGroup
  <2>4. ServerTypeOK'
    BY <1>1, <2>1, <2>3 DEF Replies
  <2>5. DbNext \/ UNCHANGED dbVars
    BY <2>1, <2>2, <2>3 DEF DbNext
  <2> QED
    BY <2>4, <2>5
<1>4. CASE CreateGroupCutShort(i)
  <2>1. PICK name \in Reading(LineOf(i).w1) : InsertGroupOnly(name, IdOf(i))
    BY <1>4 DEF CreateGroupCutShort
  <2>2. name \in Words /\ IdOf(i) \in 0..MaxUserId
    BY <1>4, HandlingTypes DEF CreateGroupCutShort
  <2>3. ServerTypeOK'
    BY <1>0, <1>4, DieTypes DEF CreateGroupCutShort, ServerTypeOK
  <2> QED
    BY <2>1, <2>2, <2>3 DEF DbNext
<1>5. CASE JoinGroup(i)
  <2>1. PICK name \in Reading(LineOf(i).w1) :
          \/ Refuse(i, "group_not_found") \/ Refuse(i, "already_a_member")
          \/ Refuse(i, "join_failed")
          \/ \E g \in get_group_id(name) :
               add_user_to_group(g, IdOf(i), "member") /\ Reply(i, "joined")
    BY <1>5 DEF JoinGroup
  <2>2. name \in Words /\ IdOf(i) \in 0..MaxUserId
    BY <1>5, HandlingTypes DEF JoinGroup
  <2>3. Handling(i, "JOIN_GROUP")
    BY <1>5 DEF JoinGroup
  <2>4. ServerTypeOK'
    BY <1>1, <1>2, <2>1, <2>3 DEF Replies
  <2>5. DbNext \/ UNCHANGED dbVars
    BY <2>1, <2>2 DEF DbNext, Refuse
  <2> QED
    BY <2>4, <2>5
<1>6. CASE AddMember(i)
  <2>1. PICK name \in Reading(LineOf(i).w1), user \in Reading(LineOf(i).w2) :
          \/ Refuse(i, "group_does_not_exist") \/ Refuse(i, "user_does_not_exist")
          \/ Refuse(i, "add_failed")
          \/ \E g \in get_group_id(name), u \in get_user_id(user) :
               add_user_to_group(g, u, "member") /\ Reply(i, "added")
    BY <1>6 DEF AddMember
  <2>2. name \in Words /\ get_user_id(user) \subseteq 0..MaxUserId
    BY <1>6, <1>0, HandlingTypes, UserIdsFound DEF AddMember
  <2>3. Handling(i, "ADD_MEMBER")
    BY <1>6 DEF AddMember
  <2>4. ServerTypeOK'
    BY <1>1, <1>2, <2>1, <2>3 DEF Replies
  <2>5. DbNext \/ UNCHANGED dbVars
    BY <2>1, <2>2 DEF DbNext, Refuse
  <2> QED
    BY <2>4, <2>5
<1>7. CASE SendMode(i)
  <2>1. \/ Reply(i, "group_not_found") \/ Reply(i, "is_not_member")
        \/ \E g : \/ StrayWrite({Cell(IdOf(i), g)})
                  \/ Respond(i, ReplyOut(i, "SENDING"),
                             sendings \cup ({Cell(IdOf(i), g)} \cap Cells))
    BY <1>7 DEF SendMode
  <2>2. ASSUME NEW g, StrayWrite({Cell(IdOf(i), g)})
        PROVE  ServerTypeOK'
    BY <1>0, <2>2, DieTypes DEF StrayWrite, ServerTypeOK
  <2>3. ASSUME NEW g, Respond(i, ReplyOut(i, "SENDING"),
                              sendings \cup ({Cell(IdOf(i), g)} \cap Cells))
        PROVE  ServerTypeOK'
    <3> DEFINE flags == sendings \cup ({Cell(IdOf(i), g)} \cap Cells)
    <3>1. flags \in SUBSET Cells
      BY <1>0 DEF ServerTypeOK
    <3>2. clients[i].socket \in Conns
      BY <1>7, HandlingTypes DEF SendMode
    <3> HIDE DEF flags
    <3> QED
      BY <1>0, <2>3, <3>1, <3>2, OutTypes, RespondTypes DEF flags, Replies
  <2>4. Handling(i, "SEND") /\ UNCHANGED dbVars
    BY <1>7 DEF SendMode
  <2>5. ServerTypeOK'
    BY <1>1, <2>1, <2>2, <2>3, <2>4 DEF Replies
  <2> QED
    BY <2>4, <2>5
<1>8. CASE RemoveMember(i)
  <2>1. PICK name \in Reading(LineOf(i).w1), user \in Reading(LineOf(i).w2) :
          \/ Refuse(i, "group_does_not_exist") \/ Refuse(i, "not_an_admin")
          \/ Refuse(i, "user_does_not_exist")
          \/ \E g \in get_group_id(name), u \in get_user_id(user) :
               remove_user_from_group(g, u) /\ Reply(i, "removed")
    BY <1>8 DEF RemoveMember
  <2>2. name \in Words /\ get_user_id(user) \subseteq 0..MaxUserId
    BY <1>8, <1>0, HandlingTypes, UserIdsFound DEF RemoveMember
  <2>3. Handling(i, "REMOVE_MEMBER")
    BY <1>8 DEF RemoveMember
  <2>4. ServerTypeOK'
    BY <1>1, <1>2, <2>1, <2>3 DEF Replies
  <2>5. DbNext \/ UNCHANGED dbVars
    BY <2>1, <2>2 DEF DbNext, Refuse
  <2> QED
    BY <2>4, <2>5
<1>9. CASE LeaveGroup(i)
  <2>1. PICK name \in Reading(LineOf(i).w1) :
          \/ Refuse(i, "group_not_found") \/ Refuse(i, "not_a_member")
          \/ \E g \in get_group_id(name) :
               remove_user_from_group(g, IdOf(i)) /\ Reply(i, "left")
    BY <1>9 DEF LeaveGroup
  <2>2. name \in Words /\ IdOf(i) \in 0..MaxUserId
    BY <1>9, HandlingTypes DEF LeaveGroup
  <2>3. Handling(i, "LEAVE_GROUP")
    BY <1>9 DEF LeaveGroup
  <2>4. ServerTypeOK'
    BY <1>1, <1>2, <2>1, <2>3 DEF Replies
  <2>5. DbNext \/ UNCHANGED dbVars
    BY <2>1, <2>2 DEF DbNext, Refuse
  <2> QED
    BY <2>4, <2>5
<1>10. CASE List(i)
  BY <1>2, <1>10 DEF List, ListGroups, ListUsers, ListGroupMessages, Replies
<1>11. CASE Unknown(i)
  <2>1. clients[i].socket \in Conns
    BY <1>11, HandlingTypes DEF Unknown
  <2>2. sendings \in SUBSET Cells
    BY <1>0 DEF ServerTypeOK
  <2> QED
    BY <1>0, <1>11, <2>1, <2>2, SilentTypes, RespondTypes DEF Unknown
<1>12. CASE Message(i)
  <2>1. PICK text \in Reading(LineOf(i).w1), junk \in SUBSET StrayCells :
          Relay(i, text, sendings \cup junk)
    BY <1>12 DEF Message
  <2> DEFINE flags == sendings \cup junk
  <2>2. clients[i].socket \in Conns /\ IdOf(i) \in 0..MaxUserId /\ text \in Words
    BY <1>12, HandlingTypes DEF Message
  <2>3. ASSUME Respond(i, Silent, sendings \ ExitCells(i, flags))
        PROVE  ServerTypeOK'
    <3>1. sendings \ ExitCells(i, flags) \in SUBSET Cells
      BY <1>0 DEF ServerTypeOK
    <3> QED
      BY <1>0, <2>2, <2>3, <3>1, SilentTypes, RespondTypes
  <2>4. ASSUME StrayWrite(ExitCells(i, flags))
        PROVE  ServerTypeOK'
    BY <1>0, <2>4, DieTypes DEF StrayWrite, ServerTypeOK
  <2>5. ASSUME Respond(i, Broadcast(i, text, flags), sendings)
        PROVE  ServerTypeOK'
    <3>1. sendings \in SUBSET Cells
      BY <1>0 DEF ServerTypeOK
    <3> QED
      BY <1>0, <2>2, <2>5, <3>1, BroadcastTypes, RespondTypes
  <2>6. ServerTypeOK'
    BY <2>1, <2>3, <2>4, <2>5 DEF Relay
  <2> QED
    BY <1>12, <2>6 DEF Message
<1>13. CASE Disconnect(i)
  <2>1. clients[i] \in Client
    BY <1>0, <1>13 DEF Disconnect, Current, ServerTypeOK
  <2>2. [clients[i] EXCEPT !.socket = NoSock] \in Client
    BY <2>1 DEF Client
  <2> QED
    BY <1>0, <1>13, <2>2 DEF Disconnect, ServerTypeOK, Silent
<1> QED
  BY <1>3, <1>4, <1>5, <1>6, <1>7, <1>8, <1>9, <1>10, <1>11, <1>12, <1>13 DEF Handler

\* Every step keeps the types, and is a step of DbNext or leaves the tables.
LEMMA StepTypes ==
    ASSUME TypeOK, [Next]_vars
    PROVE  ServerTypeOK' /\ [DbNext]_dbVars
<1>1. CASE Environment
  <2>1. UNCHANGED dbVars
    BY <1>1 DEF Environment, Connect, HangUp, SayHello, SayMore, Say
  <2> QED
    BY <1>1, <2>1, EnvironmentTypes
<1>2. CASE \/ Select \/ AcceptClient \/ AcceptWithoutSlot \/ AcceptFails
           \/ Kill \/ Restart
  <2>1. [DbNext]_dbVars
    BY <1>2 DEF Select, AcceptClient, AcceptWithoutSlot, AcceptFails, Kill, Restart, DbNext
  <2> QED
    BY <1>2, <2>1, LoopTypes
<1>3. ASSUME NEW i \in Slots, Register(i) \/ Handler(i) \/ CreateGroupCutShort(i)
      PROVE  ServerTypeOK' /\ [DbNext]_dbVars
  BY <1>3, RegisterTypes, HandlerTypes
<1>4. CASE UNCHANGED vars
  BY <1>4 DEF vars, loopVars, memVars, netVars, TypeOK, ServerTypeOK
<1> QED
  BY <1>1, <1>2, <1>3, <1>4 DEF Next, Server, Crash

\* The server starts with well typed variables over an empty database.
LEMMA TypeInit == Init => TypeOK /\ DbInit
<1> SUFFICES ASSUME Init PROVE TypeOK
  BY DEF Init
<1>1. DbTypeOK
  BY DbAssumption DEF Init, DbInit, DbTypeOK
<1>2. ServerTypeOK
  BY DEF Init, ServerTypeOK, Silent
<1> QED
  BY <1>1, <1>2 DEF TypeOK

\* TypeOK is inductive.
LEMMA TypeStep == TypeOK /\ [Next]_vars => TypeOK'
<1> SUFFICES ASSUME TypeOK, [Next]_vars PROVE TypeOK'
  OBVIOUS
<1>1. DbTypeOK'
  <2>1. CASE DbNext
    BY <2>1, DbTypeStep DEF TypeOK
  <2>2. CASE UNCHANGED dbVars
    BY <2>2 DEF TypeOK, DbTypeOK, dbVars
  <2> QED
    BY <2>1, <2>2, StepTypes
<1> QED
  BY <1>1, StepTypes DEF TypeOK

\* Every variable keeps its type, in particular no flag outside the matrix is
\* ever remembered and no slot outside the table exists.
THEOREM TypeCorrect == Spec => []TypeOK
<1> QED
  BY TypeInit, TypeStep, PTL DEF Spec

\* The server only does to the database what DbNext lists: the handlers
\* together implement GroupDb.
THEOREM ServerImplementsDb == Spec => DbSpec
<1>1. TypeOK /\ [Next]_vars => [DbNext]_dbVars
  BY StepTypes
<1> QED
  BY <1>1, TypeInit, TypeCorrect, PTL DEF Spec, DbSpec

\* The tables stay consistent, and group ids only grow.
LEMMA DbInvServerStep ==
    ASSUME DbInv, TypeOK, [Next]_vars
    PROVE  DbInv' /\ nextGroup' >= nextGroup
<1>1. [DbNext]_dbVars
  BY StepTypes
<1>2. nextGroup' \in {nextGroup, nextGroup + 1}
  BY <1>1 DEF DbNext, dbVars, InsertUser, RejectUser, InsertGroupAndAdmin,
              InsertGroupOnly, RejectGroup, add_user_to_group, remove_user_from_group,
              Reconnect
<1>3. nextGroup \in Nat
  BY DbAssumption DEF TypeOK, DbTypeOK
<1> QED
  BY <1>1, <1>2, <1>3, DbInvStep

\* Roles, creators and namesakes, for any number of clients and rows.
THEOREM RolesCorrect == Spec => [](KeysAndReferences /\ AdminIsCreator /\ NamesakesUnreachable)
<1>1. DbInv => KeysAndReferences /\ AdminIsCreator /\ NamesakesUnreachable
  BY DEF DbInv
<1> QED
  BY <1>1, ServerImplementsDb, DbCorrect, PTL

\* Keys stay keys and references refer, whatever registrations fail.
THEOREM KeysHold == Spec => []KeysAndReferences
  BY RolesCorrect, PTL

\* Of several groups with one name all but the oldest have nobody but their creator.
THEOREM NamesakesStayUnreachable == Spec => []NamesakesUnreachable
  BY RolesCorrect, PTL

-----------------------------------------------------------------------------
(* Sockets and slots. *)

\* Every handler but Disconnect ends in a Respond, or kills the server.
LEMMA HandlerEnds ==
    ASSUME NEW i \in Slots, Handler(i) \/ CreateGroupCutShort(i)
    PROVE  \/ Disconnect(i)
           \/ (\E op : Handling(i, op)) /\ \E out, flags : Respond(i, out, flags)
           \/ Die /\ UNCHANGED peer
<1>1. CASE CreateGroup(i)
  BY <1>1 DEF CreateGroup, Reply
<1>2. CASE CreateGroupCutShort(i)
  BY <1>2 DEF CreateGroupCutShort
<1>3. CASE JoinGroup(i)
  BY <1>3 DEF JoinGroup, Reply, Refuse
<1>4. CASE AddMember(i)
  BY <1>4 DEF AddMember, Reply, Refuse
<1>5. CASE SendMode(i)
  BY <1>5 DEF SendMode, Reply, StrayWrite
<1>6. CASE RemoveMember(i)
  BY <1>6 DEF RemoveMember, Reply, Refuse
<1>7. CASE LeaveGroup(i)
  BY <1>7 DEF LeaveGroup, Reply, Refuse
<1>8. CASE List(i)
  BY <1>8 DEF List, ListGroups, ListUsers, ListGroupMessages, Reply, Refuse
<1>9. CASE Unknown(i)
  BY <1>9 DEF Unknown
<1>10. CASE Message(i)
  BY <1>10 DEF Message, Relay, StrayWrite
<1> QED
  BY <1>1, <1>2, <1>3, <1>4, <1>5, <1>6, <1>7, <1>8, <1>9, <1>10 DEF Handler

\* Nobody owns a socket of a process that ended.
LEMMA DieSockets ==
    ASSUME TypeOK, SocketInv, Die,
           \A c \in Conns : peer'[c] = "idle" <=> peer[c] = "idle"
    PROVE  SocketInv'
<1>1. SlotSockets' = {} /\ OpenFds' = {} /\ ready' = {} /\ newSock' = NoSock
      /\ pc' = "down" /\ acceptQ' = <<>>
  BY DEF Die, SlotSockets, OpenFds, TypeOK, ServerTypeOK
<1>2. SocketOwnership'
  BY <1>1 DEF Die, SocketOwnership
<1>3. AcceptQueueOK'
  BY <1>1 DEF Die, SocketInv, AcceptQueueOK, TypeOK, ServerTypeOK
<1> QED
  BY <1>2, <1>3 DEF SocketInv

\* A handler that responds leaves the sockets with their owners.
LEMMA RespondSockets ==
    ASSUME TypeOK, SocketInv, NEW i, NEW out, NEW flags, Respond(i, out, flags)
    PROVE  SocketInv'
<1>1. \A c \in Conns : peer'[c] = "idle" <=> peer[c] = "idle"
  BY DEF Respond, AfterSends, TypeOK, ServerTypeOK
<1>2. CASE Die
  BY <1>1, <1>2, DieSockets
<1>3. CASE ~Die
  <2>1. /\ clients' = clients /\ fd' = fd /\ acceptQ' = acceptQ /\ pc' = pc
        /\ newSock' = newSock /\ ready' \subseteq ready
    BY <1>3 DEF Respond
  <2> QED
    BY <1>1, <2>1 DEF SocketInv, SocketOwnership, AcceptQueueOK, SlotSockets,
                      OpenFds, TableFull
<1> QED
  BY <1>2, <1>3

\* A slot whose client is gone closes its own socket and no other.
LEMMA DisconnectSockets ==
    ASSUME TypeOK, SocketInv, NEW i \in Slots, Disconnect(i)
    PROVE  SocketInv'
<1> DEFINE s == clients[i].socket
<1>1. /\ clients[i] \in Client /\ s \in Conns /\ s \in ready
      /\ fd' = [fd EXCEPT ![s] = "closed"]
      /\ clients' = [clients EXCEPT ![i] = [clients[i] EXCEPT !.socket = NoSock]]
      /\ ready' = ready \ {s} /\ acceptQ' = acceptQ /\ peer' = peer
      /\ newSock' = newSock /\ pc' = pc
  BY DEF Disconnect, Current, TypeOK, ServerTypeOK
<1>2. /\ clients'[i] # NULL /\ clients'[i].socket = NoSock
      /\ \A j \in Slots \ {i} : clients'[j] = clients[j]
  <2>1. [clients[i] EXCEPT !.socket = NoSock] \in [socket : Conns \cup {NoSock},
                                                   id : Nat, username : Words]
    BY <1>1, DbAssumption DEF Client
  <2> QED
    BY <1>1, <2>1, ServerAssumption DEF TypeOK, ServerTypeOK, Client
<1>3. clients[i] # NULL
  BY DEF Disconnect, Current
<1>4. SlotSockets' = SlotSockets \ {s}
  <2>1. \A j \in Slots \ {i} : clients[j] # NULL => clients[j].socket # s
    BY <1>1, <1>3, ServerAssumption DEF SocketInv, SocketOwnership
  <2>2. \A c : c \in SlotSockets' <=> c # NoSock /\
                 \E j \in Slots \ {i} : clients[j] # NULL /\ clients[j].socket = c
    BY <1>2 DEF SlotSockets
  <2>3. \A c : c \in SlotSockets <=> c # NoSock /\
                 \E j \in Slots : clients[j] # NULL /\ clients[j].socket = c
    BY DEF SlotSockets
  <2> QED
    BY <2>1, <2>2, <2>3
<1>5. OpenFds' = OpenFds \ {s}
  BY <1>1 DEF OpenFds, TypeOK, ServerTypeOK
<1>6. SocketOwnership'
  <2>1. newSock # s
    BY <1>1, ServerAssumption DEF SocketInv, SocketOwnership, OpenFds
  <2>2. TableFull => TableFull'
    BY <1>2 DEF TableFull
  <2> QED
    BY <1>1, <1>2, <1>3, <1>4, <1>5, <2>1, <2>2 DEF SocketInv, SocketOwnership
<1>7. AcceptQueueOK'
  <2>1. fd[s] = "open"
    BY <1>1 DEF SocketInv, SocketOwnership, OpenFds
  <2> QED
    BY <1>1, <2>1 DEF SocketInv, AcceptQueueOK, TypeOK, ServerTypeOK
<1> QED
  BY <1>6, <1>7 DEF SocketInv

\* SocketOwnership does not look at inbox, sent, sendings and the tables.
LEMMA SameSlotsSameOwners ==
    ASSUME SocketOwnership, clients' = clients, ready' = ready, newSock' = newSock,
           pc' = pc, OpenFds' = OpenFds
    PROVE  SocketOwnership'
  BY DEF SocketOwnership, SlotSockets, TableFull

\* Clients only add to the accept queue.
LEMMA EnvironmentSockets ==
    ASSUME TypeOK, SocketInv, Environment
    PROVE  SocketInv'
<1> SUFFICES ASSUME NEW c \in Conns,
               \/ Connect(c) \/ HangUp(c)
               \/ \E line \in Hellos : SayHello(c, line)
               \/ \E line \in Line : Say(c, line)
             PROVE  SocketInv'
  BY ServerAssumption DEF Environment, SayMore, TypeOK, ServerTypeOK
<1>1. CASE Connect(c)
  <2>1. /\ fd[c] = "none" /\ fd' = [fd EXCEPT ![c] = "queued"]
        /\ peer[c] = "idle" /\ peer' = [peer EXCEPT ![c] = "connected"]
        /\ acceptQ' = Append(acceptQ, c) /\ acceptQ \in Seq(Conns)
    BY <1>1 DEF Connect, SocketInv, AcceptQueueOK, TypeOK, ServerTypeOK
  <2>2. OpenFds' = OpenFds
    BY <2>1 DEF OpenFds, TypeOK, ServerTypeOK
  <2>3. SocketOwnership'
    BY <1>1, <2>2, SameSlotsSameOwners DEF Connect, loopVars, memVars, SocketInv
  <2>4. /\ Len(acceptQ') = Len(acceptQ) + 1 /\ Len(acceptQ) \in Nat
        /\ acceptQ'[Len(acceptQ) + 1] = c
        /\ \A n \in 1..Len(acceptQ) : acceptQ'[n] = acceptQ[n] /\ acceptQ[n] # c
                                      /\ acceptQ[n] \in Conns
    BY <2>1 DEF SocketInv, AcceptQueueOK
  <2>5. AcceptQueueOK'
    <3>1. \A n \in 1..Len(acceptQ') : fd'[acceptQ'[n]] = "queued"
      BY <2>1, <2>4 DEF SocketInv, AcceptQueueOK, TypeOK, ServerTypeOK
    <3>2. \A m, n \in 1..Len(acceptQ') : acceptQ'[m] = acceptQ'[n] => m = n
      BY <2>4 DEF SocketInv, AcceptQueueOK
    <3>3. \A d \in Conns : peer'[d] = "idle" <=> fd'[d] = "none"
      BY <2>1 DEF SocketInv, AcceptQueueOK, TypeOK, ServerTypeOK
    <3> QED
      BY <3>1, <3>2, <3>3 DEF AcceptQueueOK
  <2> QED
    BY <2>3, <2>5 DEF SocketInv
<1>2. CASE ~Connect(c)
  <2>1. /\ clients' = clients /\ ready' = ready /\ newSock' = newSock /\ pc' = pc
        /\ fd' = fd /\ acceptQ' = acceptQ
        /\ \A d \in Conns : peer'[d] = "idle" <=> peer[d] = "idle"
    BY <1>2 DEF HangUp, SayHello, Say, loopVars, memVars, TypeOK, ServerTypeOK
  <2>2. SocketOwnership'
    BY <2>1, SameSlotsSameOwners DEF OpenFds, SocketInv
  <2> QED
    BY <2>1, <2>2 DEF SocketInv, AcceptQueueOK
<1> QED
  BY <1>1, <1>2

\* accept takes the head of the queue, which nobody owns yet.
LEMMA AcceptSockets ==
    ASSUME TypeOK, SocketInv, AcceptClient \/ AcceptWithoutSlot
    PROVE  SocketInv'
<1> DEFINE c == Head(acceptQ)
<1>1. /\ acceptQ \in Seq(Conns) /\ acceptQ # <<>>
      /\ acceptQ' = Tail(acceptQ) /\ fd' = [fd EXCEPT ![c] = "open"]
      /\ clients' = clients /\ ready' = ready /\ peer' = peer /\ pc = "accept"
  BY DEF AcceptClient, AcceptWithoutSlot, memVars, TypeOK, ServerTypeOK
<1>2. /\ c \in Conns /\ c = acceptQ[1] /\ Len(acceptQ) \in Nat /\ Len(acceptQ) >= 1
      /\ Len(Tail(acceptQ)) = Len(acceptQ) - 1
      /\ \A n \in 1..(Len(acceptQ) - 1) : Tail(acceptQ)[n] = acceptQ[n + 1]
  BY <1>1
<1>3. fd[c] = "queued" /\ newSock = NoSock
  BY <1>1, <1>2, ServerAssumption DEF SocketInv, SocketOwnership, AcceptQueueOK
<1>4. SlotSockets' = SlotSockets /\ c \notin SlotSockets /\ OpenFds' = OpenFds \cup {c}
  BY <1>1, <1>2, <1>3 DEF SlotSockets, OpenFds, SocketInv, SocketOwnership, TypeOK, ServerTypeOK
<1>5. AcceptQueueOK'
  <2>1. \A n \in 1..Len(acceptQ') : acceptQ'[n] = acceptQ[n + 1] /\ n + 1 \in 1..Len(acceptQ)
    BY <1>1, <1>2
  <2>2. \A n \in 1..Len(acceptQ') : acceptQ'[n] # c /\ fd[acceptQ'[n]] = "queued"
    <3> SUFFICES ASSUME NEW n \in 1..Len(acceptQ')
                 PROVE  acceptQ'[n] # c /\ fd[acceptQ'[n]] = "queued"
      OBVIOUS
    <3>1. n + 1 # 1 /\ 1 \in 1..Len(acceptQ) /\ n \in Nat
      BY <1>1, <1>2
    <3> QED
      BY <1>2, <2>1, <3>1 DEF SocketInv, AcceptQueueOK
  <2>3. \A n \in 1..Len(acceptQ') : acceptQ'[n] \in Conns
    BY <1>1, <2>1
  <2>4. \A n \in 1..Len(acceptQ') : fd'[acceptQ'[n]] = "queued"
    BY <1>1, <2>2, <2>3 DEF TypeOK, ServerTypeOK
  <2>5. \A m, n \in 1..Len(acceptQ') : acceptQ'[m] = acceptQ'[n] => m = n
    <3> SUFFICES ASSUME NEW m \in 1..Len(acceptQ'), NEW n \in 1..Len(acceptQ'),
                        acceptQ'[m] = acceptQ'[n]
                 PROVE  m = n
      OBVIOUS
    <3>1. m + 1 = n + 1
      BY <2>1 DEF SocketInv, AcceptQueueOK
    <3> QED
      BY <1>1, <1>2, <3>1
  <2>6. \A d \in Conns : peer'[d] = "idle" <=> fd'[d] = "none"
    BY <1>1, <1>2, <1>3 DEF SocketInv, AcceptQueueOK, TypeOK, ServerTypeOK
  <2> QED
    BY <2>4, <2>5, <2>6 DEF AcceptQueueOK
<1>6. SocketOwnership'
  <2>1. CASE AcceptClient
    <3>1. newSock' = c /\ pc' = "register" /\ c # NoSock
      BY <1>2, <2>1, ServerAssumption DEF AcceptClient
    <3>2. \A d \in OpenFds \ SlotSockets : d # NoSock
      BY ServerAssumption DEF OpenFds
    <3>3. TableFull' <=> TableFull
      BY <1>1 DEF TableFull
    <3> QED
      BY <1>1, <1>2, <1>3, <1>4, <3>1, <3>2, <3>3 DEF SocketInv, SocketOwnership
  <2>2. CASE AcceptWithoutSlot
    <3>1. newSock' = newSock /\ pc' = "loop" /\ TableFull'
      BY <1>1, <2>2 DEF AcceptWithoutSlot, TableFull
    <3> QED
      BY <1>1, <1>2, <1>3, <1>4, <3>1 DEF SocketInv, SocketOwnership
  <2> QED
    BY <2>1, <2>2
<1> QED
  BY <1>5, <1>6 DEF SocketInv

\* pselect reports sockets of slots only.
LEMMA SelectSockets ==
    ASSUME TypeOK, SocketInv, Select \/ Restart
    PROVE  SocketInv'
<1>1. /\ clients' = clients /\ newSock' = newSock /\ fd' = fd
      /\ acceptQ' = acceptQ /\ peer' = peer
      /\ ready' \subseteq SlotSockets \cup ready
      /\ pc # "register" /\ pc' # "register"
  BY DEF Select, Restart, memVars, netVars
<1> QED
  BY <1>1 DEF SocketInv, SocketOwnership, AcceptQueueOK, SlotSockets, OpenFds, TableFull

\* Registration hands the new socket to the first free slot, or closes it.
LEMMA RegisterSockets ==
    ASSUME TypeOK, SocketInv, NEW i \in Slots, Register(i)
    PROVE  SocketInv'
<1>1. /\ pc = "register" /\ newSock \in Conns /\ clients[i] = NULL
      /\ pc' = "loop" /\ newSock' = NoSock /\ ready' = ready
      /\ acceptQ' = acceptQ /\ peer' = peer
  BY DEF Register, RegisterUser, RegisterDuplicate, RegisterInvalid, Registering,
         FirstFree, EndRegistration, TypeOK, ServerTypeOK
<1>2. fd[newSock] = "open" /\ newSock \notin SlotSockets /\ newSock # NoSock
  BY <1>1, ServerAssumption DEF SocketInv, SocketOwnership, OpenFds
<1>3. \A c \in OpenFds : c \in SlotSockets \cup {newSock}
  BY <1>1 DEF SocketInv, SocketOwnership, TableFull
<1>4. CASE RegisterInvalid(i)
  <2>1. clients' = clients /\ fd' = [fd EXCEPT ![newSock] = "closed"]
    BY <1>4 DEF RegisterInvalid
  <2>2. OpenFds' = OpenFds \ {newSock} /\ SlotSockets' = SlotSockets
    BY <1>1, <2>1 DEF OpenFds, SlotSockets, TypeOK, ServerTypeOK
  <2>3. SocketOwnership'
    BY <1>1, <1>2, <1>3, <2>1, <2>2 DEF SocketInv, SocketOwnership
  <2>4. AcceptQueueOK'
    BY <1>1, <1>2, <2>1 DEF SocketInv, AcceptQueueOK, TypeOK, ServerTypeOK
  <2> QED
    BY <2>3, <2>4 DEF SocketInv
<1>5. CASE RegisterUser(i) \/ RegisterDuplicate(i)
  <2>1. PICK id \in 0..MaxUserId, name \in Words : FillSlot(i, id, name)
    BY <1>5, RegisterFills
  <2>2. /\ fd' = fd /\ clients'[i] = [socket |-> newSock, id |-> id, username |-> name]
        /\ \A j \in Slots \ {i} : clients'[j] = clients[j]
    BY <2>1 DEF FillSlot, TypeOK, ServerTypeOK
  <2>3. clients'[i].socket = newSock
    BY <2>2
  <2>4. clients'[i] # NULL
    BY <1>1, <2>2, ServerAssumption, DbAssumption
  <2>5. SlotSockets' = SlotSockets \cup {newSock} /\ OpenFds' = OpenFds
    BY <1>1, <1>2, <2>2, <2>3, <2>4 DEF SlotSockets, OpenFds
  <2>6. SocketOwnership'
    <3>1. \A j \in Slots \ {i} : clients'[j] # NULL => clients'[j].socket # newSock
      BY <1>2, <2>2 DEF SlotSockets
    <3> QED
      BY <1>1, <1>2, <1>3, <2>2, <2>3, <2>5, <3>1 DEF SocketInv, SocketOwnership
  <2>7. AcceptQueueOK'
    BY <1>1, <2>2 DEF SocketInv, AcceptQueueOK
  <2> QED
    BY <2>6, <2>7 DEF SocketInv
<1> QED
  BY <1>4, <1>5 DEF Register

\* SocketInv is inductive.
LEMMA SocketStep == TypeOK /\ SocketInv /\ [Next]_vars => SocketInv'
<1> SUFFICES ASSUME TypeOK, SocketInv, [Next]_vars PROVE SocketInv'
  OBVIOUS
<1>1. CASE Environment
  BY <1>1, EnvironmentSockets
<1>2. CASE Select \/ Restart
  BY <1>2, SelectSockets
<1>3. CASE AcceptClient \/ AcceptWithoutSlot
  BY <1>3, AcceptSockets
<1>4. CASE AcceptFails \/ Kill
  BY <1>4, DieSockets DEF AcceptFails, Kill
<1>5. ASSUME NEW i \in Slots, Register(i)
      PROVE  SocketInv'
  BY <1>5, RegisterSockets
<1>6. ASSUME NEW i \in Slots, Handler(i) \/ CreateGroupCutShort(i)
      PROVE  SocketInv'
  <2>1. CASE Disconnect(i)
    BY <2>1, DisconnectSockets
  <2>2. CASE \E out, flags : Respond(i, out, flags)
    BY <2>2, RespondSockets
  <2>3. CASE Die /\ UNCHANGED peer
    BY <2>3, DieSockets
  <2> QED
    BY <1>6, <2>1, <2>2, <2>3, HandlerEnds
<1>7. CASE UNCHANGED vars
  BY <1>7 DEF vars, loopVars, memVars, netVars, SocketInv, SocketOwnership,
              AcceptQueueOK, SlotSockets, OpenFds, TableFull
<1> QED
  BY <1>1, <1>2, <1>3, <1>4, <1>5, <1>6, <1>7 DEF Next, Server, Crash

\* The server starts without sockets.
LEMMA SocketInit == Init => SocketInv
<1> SUFFICES ASSUME Init PROVE SocketInv
  OBVIOUS
<1>1. SlotSockets = {} /\ OpenFds = {}
  BY DEF Init, SlotSockets, OpenFds
<1> QED
  BY <1>1 DEF Init, SocketInv, SocketOwnership, AcceptQueueOK

\* No socket has two owners, none is read after it was closed, and the only
\* sockets without an owner are those accepted when the table was full.
THEOREM SocketsOwned == Spec => []SocketOwnership
<1>1. SocketInv => SocketOwnership
  BY DEF SocketInv
<1> QED
  BY <1>1, SocketInit, SocketStep, TypeCorrect, PTL DEF Spec

-----------------------------------------------------------------------------
(* Who a slot answers for. *)

\* A step leaves every slot alone, empties or closes it, or registers a client.
LEMMA SlotStep ==
    ASSUME TypeOK, [Next]_vars
    PROVE  \/ \A k \in Slots : clients'[k] # NULL =>
                clients[k] # NULL /\ clients'[k].id = clients[k].id
           \/ \E i \in Slots : RegisterUser(i) \/ RegisterDuplicate(i)
<1> DEFINE Kept == \A k \in Slots : clients'[k] # NULL =>
                     clients[k] # NULL /\ clients'[k].id = clients[k].id
<1>1. Die => Kept
  BY DEF Die
<1>2. ASSUME NEW i \in Slots, Handler(i) \/ CreateGroupCutShort(i)
      PROVE  Kept
  <2>1. CASE Disconnect(i)
    <3>1. /\ clients[i] \in Client /\ clients[i] # NULL
          /\ clients' = [clients EXCEPT ![i] = [clients[i] EXCEPT !.socket = NoSock]]
      BY <2>1 DEF Disconnect, Current, TypeOK, ServerTypeOK
    <3>2. [clients[i] EXCEPT !.socket = NoSock].id = clients[i].id
      BY <3>1 DEF Client
    <3> QED
      BY <3>1, <3>2 DEF TypeOK, ServerTypeOK
  <2>2. CASE \E out, flags : Respond(i, out, flags)
    BY <1>1, <2>2 DEF Respond
  <2> QED
    BY <1>1, <1>2, <2>1, <2>2, HandlerEnds
<1>3. CASE Environment
  BY <1>3 DEF Environment, Connect, HangUp, SayHello, SayMore, Say, memVars
<1>4. CASE \/ Select \/ AcceptClient \/ AcceptWithoutSlot \/ AcceptFails
           \/ Kill \/ Restart
  BY <1>1, <1>4 DEF Select, AcceptClient, AcceptWithoutSlot, AcceptFails, Kill, Restart, memVars
<1>5. ASSUME NEW i \in Slots, RegisterInvalid(i)
      PROVE  Kept
  BY <1>5 DEF RegisterInvalid
<1>6. CASE UNCHANGED vars
  BY <1>6 DEF vars, memVars
<1> QED
  BY <1>2, <1>3, <1>4, <1>5, <1>6 DEF Next, Server, Crash, Register

\* No statement of the server deletes a user.
LEMMA UsersStay ==
    ASSUME [DbNext]_dbVars
    PROVE  users \subseteq users'
  BY DEF DbNext, dbVars, tables, InsertUser, RejectUser, InsertGroupAndAdmin,
         InsertGroupOnly, RejectGroup, add_user_to_group, remove_user_from_group, Reconnect

\* SlotIdsAreUsers is inductive, given what the tables guarantee of
\* mysql_insert_id.
LEMMA SlotIdsStep == TypeOK /\ DbInv /\ SlotIdsAreUsers /\ [Next]_vars => SlotIdsAreUsers'
<1> SUFFICES ASSUME TypeOK, DbInv, SlotIdsAreUsers, [Next]_vars PROVE SlotIdsAreUsers'
  OBVIOUS
<1>1. users \subseteq users'
  BY UsersStay, StepTypes
<1>2. CASE \A k \in Slots : clients'[k] # NULL =>
             clients[k] # NULL /\ clients'[k].id = clients[k].id
  BY <1>1, <1>2 DEF SlotIdsAreUsers, UserExists
<1>3. ASSUME NEW i \in Slots, RegisterUser(i) \/ RegisterDuplicate(i)
      PROVE  SlotIdsAreUsers'
  <2>1. PICK id, name : /\ FillSlot(i, id, name)
                        /\ id = 0 \/ (\E r \in users' : r.id = id)
    <3>1. CASE RegisterUser(i)
      <4> DEFINE name  == inbox[newSock].w1
                 row == [id |-> nextUser, name |-> name, email |-> inbox[newSock].w2]
      <4>1. FillSlot(i, nextUser, name) /\ row \in users'
        BY <3>1 DEF RegisterUser, InsertUser
      <4>2. row.id = nextUser
        OBVIOUS
      <4> HIDE DEF row, name
      <4> QED
        BY <4>1, <4>2
    <3>2. CASE RegisterDuplicate(i)
      BY <1>1, <3>2 DEF RegisterDuplicate, DbInv, KeysAndReferences, UserExists
    <3> QED
      BY <1>3, <3>1, <3>2
  <2>2. /\ clients'[i] = [socket |-> newSock, id |-> id, username |-> name]
        /\ \A j \in Slots \ {i} : clients'[j] = clients[j]
    BY <2>1 DEF FillSlot, TypeOK, ServerTypeOK
  <2>3. clients'[i].id = id
    BY <2>2
  <2> QED
    BY <1>1, <2>1, <2>2, <2>3 DEF SlotIdsAreUsers, UserExists
<1> QED
  BY <1>2, <1>3, SlotStep

\* What holds of GroupDb holds of the database of the server.
LEMMA DbInvAlways == Spec => []DbInv
  BY ServerImplementsDb, DbCorrect, PTL

\* Even after a registration that the database refused, a slot has id 0 or the
\* id of a user: never one that a group or a failed INSERT was given.
THEOREM SlotsAnswerForUsers == Spec => []SlotIdsAreUsers
<1>1. Init => SlotIdsAreUsers
  BY DEF Init, SlotIdsAreUsers
<1> QED
  BY <1>1, SlotIdsStep, TypeCorrect, DbInvAlways, PTL DEF Spec

-----------------------------------------------------------------------------
(* What happens to memberships. *)

\* The handlers change memberships only as MembershipStep allows.
LEMMA MembershipHandlers ==
    ASSUME TypeOK, DbInv, NEW i \in Slots, Handler(i) \/ CreateGroupCutShort(i)
    PROVE  MembershipStep
<1>1. ASSUME members' = members PROVE MembershipStep
  BY <1>1 DEF MembershipStep
<1>2. ASSUME NEW g, NEW u, add_user_to_group(g, u, "member") PROVE MembershipStep
  BY <1>2 DEF add_user_to_group, CanAdd, Membership, MembershipStep, is_group_member
<1>3. ASSUME NEW name, NEW u, InsertGroupAndAdmin(name, u) PROVE MembershipStep
  <2>1. /\ members' = members \cup {Membership(nextGroup, u, "admin")}
        /\ \A r \in groups : r.id \in Nat /\ r.id < nextGroup
        /\ nextGroup \in Nat
    BY <1>3, DbAssumption
       DEF InsertGroupAndAdmin, DbInv, DbTypeOK, KeysAndReferences, GroupRow, GroupIds
  <2>2. ~GroupExists(nextGroup)
    BY <2>1 DEF GroupExists
  <2>3. \A v : ~is_group_member(v, nextGroup)
    BY <2>2 DEF is_group_member, DbInv, KeysAndReferences
  <2> QED
    BY <2>1, <2>2, <2>3 DEF MembershipStep, Membership
<1>4. CASE CreateGroup(i)
  BY <1>1, <1>3, <1>4 DEF CreateGroup, RejectGroup, tables
<1>5. CASE CreateGroupCutShort(i)
  BY <1>1, <1>5 DEF CreateGroupCutShort, InsertGroupOnly
<1>6. CASE JoinGroup(i)
  BY <1>1, <1>2, <1>6 DEF JoinGroup, Refuse, dbVars
<1>7. CASE AddMember(i)
  BY <1>1, <1>2, <1>7 DEF AddMember, Refuse, dbVars
<1>8. CASE RemoveMember(i)
  <2>1. Current(i) /\ LineOf(i) # Nothing /\ LineOf(i).op = "REMOVE_MEMBER"
    BY <1>8 DEF RemoveMember, Handling
  <2>2. \/ members' = members
        \/ \E g, u : is_group_admin(IdOf(i), g) /\ remove_user_from_group(g, u)
    BY <1>8 DEF RemoveMember, Refuse, dbVars
  <2> QED
    BY <1>1, <2>1, <2>2 DEF remove_user_from_group, MembershipStep
<1>9. CASE LeaveGroup(i)
  <2>1. Current(i) /\ LineOf(i) # Nothing /\ LineOf(i).op = "LEAVE_GROUP"
    BY <1>9 DEF LeaveGroup, Handling
  <2>2. members' = members \/ \E g : remove_user_from_group(g, IdOf(i))
    BY <1>9 DEF LeaveGroup, Refuse, dbVars
  <2> QED
    BY <1>1, <2>1, <2>2 DEF remove_user_from_group, MembershipStep
<1>10. CASE SendMode(i) \/ List(i) \/ Unknown(i) \/ Message(i) \/ Disconnect(i)
  BY <1>1, <1>10 DEF SendMode, List, ListGroups, ListUsers,
                ListGroupMessages, Refuse, Unknown, Message, Disconnect, dbVars
<1> QED
  BY <1>4, <1>5, <1>6, <1>7, <1>8, <1>9, <1>10 DEF Handler

\* So does every other step.
LEMMA MembershipAnyStep ==
    ASSUME TypeOK, DbInv, Next
    PROVE  MembershipStep
<1>1. ASSUME members' = members PROVE MembershipStep
  BY <1>1 DEF MembershipStep
<1>2. CASE Environment
  BY <1>1, <1>2 DEF Environment, Connect, HangUp, SayHello, SayMore, Say, dbVars
<1>3. CASE \/ Select \/ AcceptClient \/ AcceptWithoutSlot \/ AcceptFails
           \/ Kill \/ Restart
  BY <1>1, <1>3 DEF Select, AcceptClient, AcceptWithoutSlot, AcceptFails, Kill,
                    Restart, Reconnect, dbVars, tables
<1>4. ASSUME NEW i \in Slots, Register(i)
      PROVE  MembershipStep
  BY <1>1, <1>4 DEF Register, RegisterUser, RegisterDuplicate, RegisterInvalid,
                    InsertUser, RejectUser, dbVars, tables
<1> QED
  BY <1>2, <1>3, <1>4, MembershipHandlers DEF Next, Server, Crash

\* For any number of users, groups and slots: memberships end by the user or by
\* the admin only, and nobody is made admin of a group that exists.
THEOREM MembershipsProtected == Spec => MembershipDiscipline
<1>1. TypeOK /\ DbInv /\ [Next]_vars => [MembershipStep]_vars
  BY MembershipAnyStep
<1> QED
  BY <1>1, TypeCorrect, DbInvAlways, PTL DEF Spec, MembershipDiscipline

-----------------------------------------------------------------------------
(* Who receives a message. *)

OnlyReplies(out) == \A c \in Conns : \A x \in out[c] : x.kind = "reply"

\* A reply is no chat text.
LEMMA ReplyOutOnlyReplies ==
    ASSUME NEW i, NEW what
    PROVE  OnlyReplies(ReplyOut(i, what)) /\ OnlyReplies(Silent)
<1>1. OnlyReplies(Silent)
  BY DEF OnlyReplies, Silent
<1>2. \A c \in Conns : ReplyOut(i, what)[c] = {}
                       \/ ReplyOut(i, what)[c] = {[kind |-> "reply", what |-> what]}
  BY DEF ReplyOut, Silent
<1> QED
  BY <1>1, <1>2 DEF OnlyReplies

\* A step sends chat texts only by relaying a message, slots and flags untouched.
LEMMA SentStep ==
    ASSUME Next
    PROVE  \/ OnlyReplies(sent')
           \/ \E i \in Slots : \E text \in Reading(LineOf(i).w1), junk \in SUBSET StrayCells :
                /\ sent' = Broadcast(i, text, sendings \cup junk) /\ Current(i)
                /\ clients' = clients /\ sendings' = sendings /\ members' = members
<1>1. Die => OnlyReplies(sent')
  BY ReplyOutOnlyReplies DEF Die
<1>2. sent' = Silent => OnlyReplies(sent')
  BY ReplyOutOnlyReplies
<1>3. ASSUME NEW i, NEW what, NEW flags, Respond(i, ReplyOut(i, what), flags)
      PROVE  OnlyReplies(sent')
  BY <1>1, <1>3, ReplyOutOnlyReplies DEF Respond
<1>4. ASSUME NEW i \in Slots, Handler(i), ~Message(i)
      PROVE  OnlyReplies(sent')
  <2>1. CASE \/ CreateGroup(i) \/ JoinGroup(i) \/ AddMember(i)
             \/ RemoveMember(i) \/ LeaveGroup(i) \/ List(i)
    <3>1. \E what : Reply(i, what)
      BY <2>1 DEF CreateGroup, JoinGroup, AddMember, RemoveMember, LeaveGroup, List,
             ListGroups, ListUsers, ListGroupMessages, Refuse
    <3> QED
      BY <1>3, <3>1 DEF Reply
  <2>2. CASE SendMode(i)
    BY <1>1, <1>3, <2>2 DEF SendMode, Reply, StrayWrite
  <2>3. CASE Unknown(i)
    BY <1>1, <1>2, <2>3 DEF Unknown, Respond
  <2>4. CASE Disconnect(i)
    BY <1>2, <2>4 DEF Disconnect
  <2> QED
    BY <1>4, <2>1, <2>2, <2>3, <2>4 DEF Handler
<1>5. ASSUME NEW i \in Slots, Message(i)
      PROVE  \/ OnlyReplies(sent')
             \/ \E text \in Reading(LineOf(i).w1), junk \in SUBSET StrayCells :
                  /\ sent' = Broadcast(i, text, sendings \cup junk) /\ Current(i)
                  /\ clients' = clients /\ sendings' = sendings /\ members' = members
  <2>1. PICK text \in Reading(LineOf(i).w1), junk \in SUBSET StrayCells :
          Relay(i, text, sendings \cup junk)
    BY <1>5 DEF Message
  <2>2. Current(i) /\ members' = members
    BY <1>5 DEF Message, Handling, dbVars
  <2>3. CASE Respond(i, Silent, sendings \ ExitCells(i, sendings \cup junk))
    BY <1>1, <1>2, <2>3 DEF Respond
  <2>4. CASE StrayWrite(ExitCells(i, sendings \cup junk))
    BY <1>1, <2>4 DEF StrayWrite
  <2>5. CASE Respond(i, Broadcast(i, text, sendings \cup junk), sendings)
    <3>1. \/ Die
          \/ /\ sent' = Broadcast(i, text, sendings \cup junk)
             /\ clients' = clients /\ sendings' = sendings
      BY <2>5 DEF Respond
    <3> QED
      BY <1>1, <2>2, <3>1
  <2> QED
    BY <2>1, <2>3, <2>4, <2>5 DEF Relay
<1>6. CASE Environment
  BY <1>2, <1>6 DEF Environment, Connect, HangUp, SayHello, SayMore, Say
<1>7. CASE \/ Select \/ AcceptClient \/ AcceptWithoutSlot \/ AcceptFails
           \/ Kill \/ Restart
  BY <1>1, <1>2, <1>7 DEF Select, AcceptClient, AcceptWithoutSlot, AcceptFails, Kill, Restart
<1>8. ASSUME NEW i \in Slots, Register(i) \/ CreateGroupCutShort(i)
      PROVE  OnlyReplies(sent')
  BY <1>1, <1>2, <1>8 DEF Register, RegisterUser, RegisterDuplicate, RegisterInvalid,
                          EndRegistration, CreateGroupCutShort
<1> QED
  BY <1>4, <1>5, <1>6, <1>7, <1>8 DEF Next, Server, Crash

\* DeliveryDiscipline is inductive.
LEMMA DeliveryStep == DeliveryDiscipline /\ [Next]_vars => DeliveryDiscipline'
<1> SUFFICES ASSUME DeliveryDiscipline, [Next]_vars PROVE DeliveryDiscipline'
  OBVIOUS
<1>1. CASE UNCHANGED vars
  BY <1>1 DEF vars, memVars, dbVars, DeliveryDiscipline, is_group_member, IdOf
<1>2. ASSUME OnlyReplies(sent') PROVE DeliveryDiscipline'
  BY <1>2 DEF OnlyReplies, DeliveryDiscipline
<1>3. ASSUME NEW i \in Slots, NEW text, NEW junk \in SUBSET StrayCells,
             sent' = Broadcast(i, text, sendings \cup junk), Current(i),
             clients' = clients, sendings' = sendings, members' = members
      PROVE  DeliveryDiscipline'
  <2> SUFFICES ASSUME NEW c \in Conns, NEW x \in sent'[c]
               PROVE  \E a, k \in Slots :
                        /\ clients[a] # NULL /\ clients[k] # NULL /\ a # k
                        /\ IdOf(a) = x.from /\ clients[k].socket = c
                        /\ is_group_member(IdOf(k), x.group)
                        /\ {Cell(IdOf(k), x.group), Cell(x.from, x.group)} \cap Cells
                             \subseteq sendings
    BY <1>3 DEF DeliveryDiscipline, is_group_member, IdOf
  <2> DEFINE flags == sendings \cup junk
  <2>1. PICK g \in Sending(IdOf(i), flags) :
          /\ x = [kind |-> "chat", from |-> IdOf(i), group |-> g, text |-> text]
          /\ \E k \in Slots : Reaches(i, k, g, flags) /\ clients[k].socket = c
    BY <1>3 DEF Broadcast
  <2>2. PICK k \in Slots : Reaches(i, k, g, flags) /\ clients[k].socket = c
    BY <2>1
  <2>3. x.from = IdOf(i) /\ x.group = g
    BY <2>1
  <2>4. \A cell : cell \in flags /\ cell \in Cells => cell \in sendings
    BY DEF StrayCells
  <2>5. /\ clients[i] # NULL /\ clients[k] # NULL /\ i # k
        /\ is_group_member(IdOf(k), g)
        /\ Cell(IdOf(k), g) \in flags /\ Cell(IdOf(i), g) \in flags
    BY <1>3, <2>1, <2>2 DEF Current, Reaches, Sending
  <2> HIDE DEF flags
  <2> QED
    BY <2>2, <2>3, <2>4, <2>5
<1> QED
  BY <1>1, <1>2, <1>3, SentStep

\* Also where group ids have outgrown the matrix and flags have run into the
\* rows of other users, nobody but members receives the texts of a group.
THEOREM DeliveriesProtected == Spec => []DeliveryDiscipline
<1>1. Init => DeliveryDiscipline
  BY DEF Init, DeliveryDiscipline, Silent
<1> QED
  BY <1>1, DeliveryStep, PTL DEF Spec
-----------------------------------------------------------------------------
(* Who is in sending mode. *)

\* A row lies before the rows of larger users.
LEMMA RowsApart ==
    ASSUME NEW a \in Nat, NEW b \in Nat, a < b
    PROVE  /\ a * MaxClients \in Nat /\ b * MaxClients \in Nat /\ MaxClients \in Nat
           /\ a * MaxClients + MaxClients <= b * MaxClients
<1>1. MaxClients \in Nat
  BY ServerAssumption
<1>2. PICK d \in Nat : b = (a + 1) + d
  <2>1. b - (a + 1) \in Nat /\ b = (a + 1) + (b - (a + 1))
    OBVIOUS
  <2> QED
    BY <2>1
<1>3. b * MaxClients = a * MaxClients + MaxClients + d * MaxClients
  BY <1>1, <1>2
<1>4. d * MaxClients \in Nat /\ a * MaxClients \in Nat /\ b * MaxClients \in Nat
  BY <1>1
<1> QED
  BY <1>1, <1>3, <1>4

\* Cells of different users, or of different groups, are different cells, as long
\* as the groups fit into a row.
LEMMA CellsApart ==
    ASSUME NEW u \in Nat, NEW v \in Nat, NEW g \in Slots, NEW h \in Slots,
           Cell(u, g) = Cell(v, h)
    PROVE  u = v /\ g = h
<1>1. g \in Nat /\ h \in Nat /\ g < MaxClients /\ h < MaxClients /\ MaxClients \in Nat
  BY ServerAssumption DEF Slots
<1>2. u * MaxClients + g = v * MaxClients + h
  BY DEF Cell
<1>3. u * MaxClients \in Nat /\ v * MaxClients \in Nat
  BY <1>1
<1>4. ~(u < v) /\ ~(v < u)
  BY <1>1, <1>2, <1>3, RowsApart
<1>5. u = v
  BY <1>4
<1> QED
  BY <1>1, <1>2, <1>3, <1>5

\* A cell reached through a group id too large for a row lies in a later row.
LEMMA CellBeyond ==
    ASSUME NEW u \in Nat, NEW v \in Nat, NEW g \in Slots, NEW h \in Nat,
           h >= MaxClients, Cell(u, g) = Cell(v, h)
    PROVE  v < u
<1>1. g \in Nat /\ g < MaxClients /\ MaxClients \in Nat
  BY ServerAssumption DEF Slots
<1>2. u * MaxClients + g = v * MaxClients + h
  BY DEF Cell
<1>3. u * MaxClients \in Nat /\ v * MaxClients \in Nat
  BY <1>1
<1>4. ASSUME u <= v PROVE u * MaxClients <= v * MaxClients
  <2>1. CASE u = v
    BY <1>3, <2>1
  <2>2. CASE u < v
    BY <1>1, <1>3, <2>2, RowsApart
  <2> QED
    BY <1>4, <2>1, <2>2
<1> QED
  BY <1>1, <1>2, <1>3, <1>4

\* The flag of a member whose row and column exist lies in the matrix.
LEMMA CellInside ==
    ASSUME NEW u \in Slots, NEW g \in GroupIds, g < MaxClients
    PROVE  g \in Slots /\ Cell(u, g) \in Cells
<1>1. /\ u \in Nat /\ g \in Nat /\ u <= MaxClients - 1 /\ g <= MaxClients - 1
      /\ MaxClients \in Nat
  BY ServerAssumption, DbAssumption DEF Slots, GroupIds
<1>2. PICK d \in Nat : MaxClients = (u + 1) + d
  <2>1. MaxClients - (u + 1) \in Nat /\ MaxClients = (u + 1) + (MaxClients - (u + 1))
    BY <1>1
  <2> QED
    BY <2>1
<1>3. MaxClients * MaxClients = u * MaxClients + MaxClients + d * MaxClients
  BY <1>1, <1>2
<1>4. u * MaxClients \in Nat /\ d * MaxClients \in Nat /\ MaxClients * MaxClients \in Nat
  BY <1>1
<1> QED
  BY <1>1, <1>3, <1>4 DEF Cell, Cells, Slots

LeavesSending(line) ==
    line # Nothing /\ line.op = "MESSAGE" /\ line.w1 \in {Exit, NoWord}

\* What a handler that lives does to the flags: SEND raises one of a member,
\* MESSAGE EXIT lowers one of the own row, and nothing else touches them.
LEMMA HandlerFlags ==
    ASSUME TypeOK, NEW i \in Slots, Handler(i)
    PROVE  \/ Die
           \/ sendings' = sendings
           \/ /\ Current(i) /\ LineOf(i) # Nothing /\ LineOf(i).op = "SEND"
              /\ \E g \in GroupIds :
                   /\ is_group_member(IdOf(i), g)
                   /\ sendings' = sendings \cup ({Cell(IdOf(i), g)} \cap Cells)
           \/ /\ Current(i) /\ LeavesSending(LineOf(i))
              /\ \E S \in SUBSET Slots : sendings' = sendings \ {Cell(IdOf(i), j) : j \in S}
<1>1. ASSUME NEW out, NEW flags, Respond(i, out, flags)
      PROVE  Die \/ sendings' = flags
  BY <1>1 DEF Respond
<1>2. CASE \/ CreateGroup(i) \/ JoinGroup(i) \/ AddMember(i) \/ RemoveMember(i)
           \/ LeaveGroup(i) \/ List(i) \/ Unknown(i)
  <2>1. \E out : Respond(i, out, sendings)
    BY <1>2 DEF CreateGroup, JoinGroup, AddMember, RemoveMember, LeaveGroup, List,
           ListGroups, ListUsers, ListGroupMessages, Unknown, Refuse, Reply
  <2> QED
    BY <1>1, <2>1
<1>3. CASE SendMode(i)
  <2>1. PICK name : \/ Reply(i, "group_not_found")
                    \/ \E g \in get_group_id(name) :
                         \/ Reply(i, "is_not_member")
                         \/ StrayWrite({Cell(IdOf(i), g)})
                         \/ /\ is_group_member(IdOf(i), g)
                            /\ Respond(i, ReplyOut(i, "SENDING"),
                                       sendings \cup ({Cell(IdOf(i), g)} \cap Cells))
    BY <1>3 DEF SendMode
  <2>2. get_group_id(name) \subseteq GroupIds
    BY GroupIdFound DEF TypeOK
  <2>3. Current(i) /\ LineOf(i) # Nothing /\ LineOf(i).op = "SEND"
    BY <1>3 DEF SendMode, Handling
  <2> QED
    BY <1>1, <2>1, <2>2, <2>3 DEF Reply, StrayWrite
<1>4. CASE Message(i)
  <2>1. PICK text \in Reading(LineOf(i).w1), junk \in SUBSET StrayCells :
          Relay(i, text, sendings \cup junk)
    BY <1>4 DEF Message
  <2> DEFINE low == Lowest(Sending(IdOf(i), sendings \cup junk))
  <2>2. /\ low \in SUBSET Slots
        /\ ExitCells(i, sendings \cup junk) = {Cell(IdOf(i), j) : j \in low}
    BY DEF Lowest, Sending, ExitCells
  <2>3. text = Exit => Current(i) /\ LeavesSending(LineOf(i))
    <3>1. LineOf(i).w1 \in {text, NoWord}
      BY <2>1 DEF Reading
    <3> QED
      BY <1>4, <3>1 DEF Message, Handling, LeavesSending
  <2> HIDE DEF low
  <2> QED
    BY <1>1, <2>1, <2>2, <2>3 DEF Relay, StrayWrite
<1>5. CASE Disconnect(i)
  BY <1>5 DEF Disconnect, memVars
<1> QED
  BY <1>2, <1>3, <1>4, <1>5 DEF Handler

\* The other steps leave the flags, or lose them with the process.
LEMMA OtherFlags ==
    ASSUME [Next]_vars, \A i \in Slots : ~Handler(i)
    PROVE  sendings' = sendings \/ Die
<1>1. CASE Environment
  BY <1>1 DEF Environment, Connect, HangUp, SayHello, SayMore, Say, memVars
<1>2. CASE \/ Select \/ AcceptClient \/ AcceptWithoutSlot \/ AcceptFails
           \/ Kill \/ Restart
  BY <1>2 DEF Select, AcceptClient, AcceptWithoutSlot, AcceptFails, Kill, Restart, memVars
<1>3. ASSUME NEW i \in Slots, Register(i) \/ CreateGroupCutShort(i)
      PROVE  sendings' = sendings \/ Die
  BY <1>3 DEF Register, RegisterUser, RegisterDuplicate, RegisterInvalid,
              EndRegistration, CreateGroupCutShort
<1>4. CASE UNCHANGED vars
  BY <1>4 DEF vars, memVars
<1> QED
  BY <1>1, <1>2, <1>3, <1>4 DEF Next, Server, Crash

\* For any number of users, groups and slots: a user's flag for a group is raised
\* by the user's own SEND as a member, or by the SEND of a user with a smaller id
\* for a group whose id is MaxClients or more, and by nothing else; and it is
\* lowered by the user's own EXIT or with the whole process.
THEOREM FlagsProtected == Spec => SendingDiscipline
<1> DEFINE Kept(u, g) ==
      /\ Cell(u, g) \in sendings' \ sendings => \E i \in Slots : RaisedBy(i, u, g)
      /\ Cell(u, g) \in sendings \ sendings' =>
           pc' = "down" \/ \E i \in Slots : LoweredBy(i, u)
<1>1. ASSUME TypeOK, [Next]_vars, NEW u \in UserIds, NEW g \in Slots
      PROVE  Kept(u, g)
  <2>1. u \in Nat
    BY DbAssumption DEF UserIds
  <2>2. Die => Kept(u, g)
    BY DEF Die
  <2>3. ASSUME NEW i \in Slots, Handler(i), ~Die
        PROVE  Kept(u, g)
    <3>1. CASE sendings' = sendings
      BY <3>1
    <3>2. ASSUME Current(i), LineOf(i) # Nothing, LineOf(i).op = "SEND",
                 NEW h \in GroupIds, is_group_member(IdOf(i), h),
                 sendings' = sendings \cup ({Cell(IdOf(i), h)} \cap Cells)
          PROVE  Kept(u, g)
      <4> SUFFICES ASSUME Cell(u, g) \in sendings' \ sendings
                   PROVE  RaisedBy(i, u, g)
        BY <3>2
      <4>1. Cell(IdOf(i), h) = Cell(u, g)
        BY <3>2
      <4>2. IdOf(i) \in Nat /\ h \in Nat
        BY <1>1, <3>2, DbAssumption
           DEF is_group_member, TypeOK, DbTypeOK, MemberRow, UserIds, GroupIds
      <4>3. CASE h < MaxClients
        <5>1. h \in Slots
          BY <4>2, <4>3, ServerAssumption DEF Slots
        <5>2. u = IdOf(i) /\ g = h
          BY <2>1, <4>1, <4>2, <5>1, CellsApart
        <5> QED
          BY <3>2, <5>2 DEF RaisedBy
      <4>4. CASE h >= MaxClients
        <5>1. IdOf(i) < u
          BY <2>1, <4>1, <4>2, <4>4, CellBeyond
        <5> QED
          BY <3>2, <4>1, <4>4, <5>1 DEF RaisedBy
      <4> QED
        BY <4>2, <4>3, <4>4, ServerAssumption
    <3>3. ASSUME Current(i), LeavesSending(LineOf(i)),
                 NEW S \in SUBSET Slots,
                 sendings' = sendings \ {Cell(IdOf(i), j) : j \in S}
          PROVE  Kept(u, g)
      <4>1. IdOf(i) \in Nat
        BY <1>1, <3>3, DbAssumption DEF Current, IdOf, TypeOK, ServerTypeOK, Client
      <4>2. Cell(u, g) \in sendings \ sendings' => u = IdOf(i)
        BY <2>1, <3>3, <4>1, CellsApart
      <4> QED
        BY <3>3, <4>2 DEF LeavesSending, LoweredBy
    <3> QED
      BY <1>1, <2>3, <3>1, <3>2, <3>3, HandlerFlags
  <2>4. CASE \A i \in Slots : ~Handler(i)
    BY <1>1, <2>2, <2>4, OtherFlags
  <2> QED
    BY <2>2, <2>3, <2>4
<1>2. TypeOK /\ [Next]_vars => \A u \in UserIds, g \in Slots : Kept(u, g)
  BY <1>1
<1>3. TypeOK /\ [Next]_vars => [\A u \in UserIds, g \in Slots : Kept(u, g)]_vars
  BY <1>2
<1> QED
  BY <1>3, TypeCorrect, PTL DEF Spec, SendingDiscipline
=============================================================================
