----------------------------- MODULE GroupServer -----------------------------
(***************************************************************************)
(* The group chat server, src/src/group/server/server.c: one thread, one   *)
(* pselect loop, a table of client slots, the matrix of sending flags, and *)
(* the database of GroupDb.                                                *)
(*                                                                         *)
(* One iteration of the loop is Select (pselect), then at most one accept  *)
(* with its registration, then one handler for every slot whose socket was *)
(* readable when pselect returned, in slot order.  A handler runs to the   *)
(* end before anything else of the server does, so it is one action; the   *)
(* clients and the network step in between.                                *)
(*                                                                         *)
(* A file descriptor is named by the connection it belongs to.  What waits *)
(* in a socket is one Line: the server reads everything that has arrived   *)
(* with a single recv and looks at its first command only (Glue).          *)
(***************************************************************************)
EXTENDS GroupDb, FiniteSets, Sequences

CONSTANTS
    Conns,       \* the TCP connections clients may open
    MaxClients,  \* MAX_CLIENTS: slots, and both dimensions of sendings
    MaxFds,      \* sockets the process may hold open (RLIMIT_NOFILE)
    Hellos,      \* the first lines a client may send
    Lines,       \* the further lines a client may send
    NULL, NoSock, Nothing,
    NoWord,      \* a %s that reads no word leaves its array uninitialised
    Garbled,     \* the last word of a line with the next line glued to it
    Exit         \* the word EXIT

OneWordOps == {"CREATE_GROUP", "JOIN_GROUP", "SEND", "LEAVE_GROUP",
               "LIST_GROUP_MESSAGES", "MESSAGE"}
TwoWordOps == {"ADD_MEMBER", "REMOVE_MEMBER"}
Ops == OneWordOps \cup TwoWordOps \cup {"LIST_GROUPS", "LIST_USERS", "OTHER"}

\* A command with the words sscanf may find missing, or a registration, which
\* has all its fields (one that lacks a field is an "OTHER").
Line == [op : Ops, w1 : Words \cup {NoWord}, w2 : Words \cup {NoWord}]
          \cup [op : {"REGISTER"}, w1 : Words, w2 : Words]

ASSUME ServerAssumption ==
    /\ MaxClients \in Nat /\ MaxFds \in Nat
    /\ IsFiniteSet(Conns) /\ NoSock \notin Conns
    /\ Lines \subseteq Line /\ Hellos \subseteq Line
    /\ Nothing \notin Line
    /\ {Garbled, Exit} \subseteq Words /\ NoWord \notin Words
    /\ NULL \notin [socket : Conns \cup {NoSock}, id : Nat, username : Words]

VARIABLES
    pc,        \* where the main loop stands: "loop", "accept", "register", "down"
    ready,     \* read_fds after pselect, less the sockets already handled
    newSock,   \* new_socket while its registration is being received
    clients,   \* the slots
    sendings,  \* the cells of the matrix that are 1
    acceptQ,   \* connections waiting for accept
    fd,        \* the server's end of each connection
    peer,      \* the client's end of each connection
    inbox,     \* what has arrived and was not received yet
    sent       \* what the last step sent, for each connection

loopVars == <<pc, ready, newSock>>
memVars  == <<clients, sendings>>
netVars  == <<acceptQ, fd, peer, inbox>>
vars     == <<loopVars, memVars, netVars, sent, dbVars>>

Slots == 0..(MaxClients - 1)
Client == [socket : Conns \cup {NoSock}, id : 0..MaxUserId, username : Words]

\* sendings[u][g] as the compiler lays it out: a group id of MaxClients or
\* more falls into the row of a later user, and an id large enough outside the
\* array.  Nothing checks either index.
Cell(u, g) == u * MaxClients + g
Cells == 0..(MaxClients * MaxClients - 1)
StrayCells == {Cell(u, g) : u \in 0..MaxUserId, g \in Slots} \ Cells

Replies == {"created", "create_failed", "group_not_found", "already_a_member",
            "joined", "join_failed", "group_does_not_exist", "user_does_not_exist",
            "added", "add_failed", "SENDING", "is_not_member", "not_an_admin",
            "removed", "not_a_member", "left", "list"}

Item == [kind : {"reply"}, what : Replies]
          \cup [kind : {"chat"}, from : 0..MaxUserId, group : Slots, text : Words]

Silent == [c \in Conns |-> {}]

ServerTypeOK ==
    /\ pc \in {"loop", "accept", "register", "down"}
    /\ ready \subseteq Conns
    /\ newSock \in Conns \cup {NoSock}
    /\ pc = "register" => newSock \in Conns
    /\ clients \in [Slots -> Client \cup {NULL}]
    /\ sendings \subseteq Cells
    /\ acceptQ \in Seq(Conns)
    /\ fd \in [Conns -> {"none", "queued", "open", "closed"}]
    /\ peer \in [Conns -> {"idle", "connected", "up", "gone", "reset"}]
    /\ inbox \in [Conns -> Line \cup {Nothing}]
    /\ sent \in [Conns -> SUBSET Item]

TypeOK == DbTypeOK /\ ServerTypeOK

Init ==
    /\ DbInit
    /\ pc = "loop" /\ ready = {} /\ newSock = NoSock
    /\ clients = [i \in Slots |-> NULL]
    /\ sendings = {}
    /\ acceptQ = <<>>
    /\ fd = [c \in Conns |-> "none"]
    /\ peer = [c \in Conns |-> "idle"]
    /\ inbox = [c \in Conns |-> Nothing]
    /\ sent = Silent

-----------------------------------------------------------------------------
(* Clients and network.  client.c connects before it asks its user for the *)
(* registration line, so a connection may stay silent for any time.        *)

\* Two lines received at once: the last word of the first one runs into the
\* second one, and the rest of it is never looked at.
Glue(line) ==
    CASE line.op \in OneWordOps \/ (line.op \in TwoWordOps /\ line.w1 = NoWord)
           -> [line EXCEPT !.w1 = Garbled]
      [] line.op \in TwoWordOps /\ line.w1 # NoWord
           -> [line EXCEPT !.w2 = Garbled]
      [] OTHER -> line

Arrive(c, line) ==
    inbox' = [inbox EXCEPT ![c] = IF @ = Nothing THEN line ELSE Glue(@)]

Connect(c) ==
    /\ peer[c] = "idle" /\ pc # "down"
    /\ peer' = [peer EXCEPT ![c] = "connected"]
    /\ fd' = [fd EXCEPT ![c] = "queued"]
    /\ acceptQ' = Append(acceptQ, c)
    /\ sent' = Silent
    /\ UNCHANGED <<loopVars, memVars, inbox, dbVars>>

SayHello(c, line) ==
    /\ peer[c] = "connected" /\ fd[c] # "closed"
    /\ peer' = [peer EXCEPT ![c] = "up"]
    /\ Arrive(c, line)
    /\ sent' = Silent
    /\ UNCHANGED <<loopVars, memVars, acceptQ, fd, dbVars>>

Say(c, line) ==
    /\ peer[c] = "up" /\ fd[c] # "closed"
    /\ Arrive(c, line)
    /\ sent' = Silent
    /\ UNCHANGED <<loopVars, memVars, acceptQ, fd, peer, dbVars>>

\* It makes no difference what is said behind a line that was not read.
SayMore(c) == inbox[c] # Nothing /\ Say(c, inbox[c])

HangUp(c) ==
    /\ peer[c] \in {"connected", "up"}
    /\ peer' = [peer EXCEPT ![c] = "gone"]
    /\ sent' = Silent
    /\ UNCHANGED <<loopVars, memVars, acceptQ, fd, inbox, dbVars>>

-----------------------------------------------------------------------------
(* The server process as a whole. *)

OpenFds == {c \in Conns : fd[c] = "open"}

\* The process ends: its memory is lost and the kernel closes its sockets.
Die ==
    /\ pc' = "down" /\ ready' = {} /\ newSock' = NoSock
    /\ clients' = [i \in Slots |-> NULL]
    /\ sendings' = {}
    /\ acceptQ' = <<>>
    /\ fd' = [c \in Conns |-> IF fd[c] = "none" THEN "none" ELSE "closed"]
    /\ inbox' = [c \in Conns |-> Nothing]
    /\ sent' = Silent

Kill ==
    /\ pc # "down"
    /\ Die
    /\ UNCHANGED <<peer, dbVars>>

\* main again, over the same database and a new connection to it.
Restart ==
    /\ pc = "down"
    /\ pc' = "loop"
    /\ Reconnect
    /\ sent' = Silent
    /\ UNCHANGED <<ready, newSock, memVars, netVars>>

-----------------------------------------------------------------------------
(* pselect, accept and registration. *)

\* (Mutant: the end of the stream is not noticed.)
HasData(c) == inbox[c] # Nothing
Readable(c) == inbox[c] # Nothing \/ peer[c] \in {"gone", "reset"}

SlotSockets == {clients[i].socket : i \in {j \in Slots : clients[j] # NULL}}
                 \ {NoSock}

\* (Mutant: a new connection waits for a round without other work.)
SelectSlotsFirst ==
    /\ pc = "loop" /\ ready = {}
    /\ ready' = {c \in SlotSockets : Readable(c)}
    /\ pc' = IF acceptQ = <<>> \/ ready' # {} THEN "loop" ELSE "accept"
    /\ acceptQ # <<>> \/ ready' # {}
    /\ sent' = Silent
    /\ UNCHANGED <<newSock, memVars, netVars, dbVars>>

\* pselect returns when a slot or the listening socket is readable.  Its ten
\* second timeout leads through a handle_client that finds nothing: a stutter.
Select ==
    /\ pc = "loop" /\ ready = {}
    /\ ready' = {c \in SlotSockets : Readable(c)}
    /\ pc' = IF acceptQ = <<>> THEN "loop" ELSE "accept"
    /\ acceptQ # <<>> \/ ready' # {}
    /\ sent' = Silent
    /\ UNCHANGED <<newSock, memVars, netVars, dbVars>>

FirstFree(i) == /\ clients[i] = NULL
                /\ \A j \in Slots : j < i => clients[j] # NULL
TableFull == \A i \in Slots : clients[i] # NULL

\* The new socket goes to the first free slot, whose recv then blocks.
AcceptClient ==
    /\ pc = "accept" /\ acceptQ # <<>> /\ Cardinality(OpenFds) < MaxFds
    /\ ~TableFull
    /\ fd' = [fd EXCEPT ![Head(acceptQ)] = "open"]
    /\ acceptQ' = Tail(acceptQ)
    /\ newSock' = Head(acceptQ)
    /\ pc' = "register"
    /\ sent' = Silent
    /\ UNCHANGED <<ready, memVars, peer, inbox, dbVars>>

\* With no free slot the loop ends without storing or closing the socket.
AcceptWithoutSlot ==
    /\ pc = "accept" /\ acceptQ # <<>> /\ Cardinality(OpenFds) < MaxFds
    /\ TableFull
    /\ fd' = [fd EXCEPT ![Head(acceptQ)] = "open"]
    /\ acceptQ' = Tail(acceptQ)
    /\ pc' = "loop"
    /\ sent' = Silent
    /\ UNCHANGED <<ready, newSock, memVars, peer, inbox, dbVars>>

\* accept fails (EMFILE): perror and exit.
AcceptFails ==
    /\ pc = "accept" /\ Cardinality(OpenFds) >= MaxFds
    /\ Die
    /\ UNCHANGED <<peer, dbVars>>

Registering(i) == pc = "register" /\ FirstFree(i) /\ Readable(newSock)

IsRegistration(line) == line # Nothing /\ line.op = "REGISTER"

FillSlot(i, id, name) ==
    /\ clients' = [clients EXCEPT
         ![i] = [socket |-> newSock, id |-> id, username |-> name]]
    /\ UNCHANGED fd

\* The common end of the registration block: back to the loop, line consumed.
EndRegistration ==
    /\ pc' = "loop" /\ newSock' = NoSock
    /\ inbox' = [inbox EXCEPT ![newSock] = Nothing]
    /\ sent' = Silent
    /\ UNCHANGED <<ready, sendings, acceptQ, peer>>

RegisterUser(i) ==
    /\ Registering(i)
    /\ IsRegistration(inbox[newSock])
    /\ LET name == inbox[newSock].w1  email == inbox[newSock].w2 IN
         /\ InsertUser(name, email)
         /\ FillSlot(i, nextUser, name)
    /\ EndRegistration

\* (Mutant: the slot gets the id that the refused row would have had.)
RegisterDuplicateAsNext(i) ==
    /\ Registering(i)
    /\ IsRegistration(inbox[newSock])
    /\ LET name == inbox[newSock].w1  email == inbox[newSock].w2 IN
         RejectUser(name, email) /\ FillSlot(i, nextUser, name)
    /\ EndRegistration

\* execute_query returns NULL for an INSERT that fails as it does for one that
\* succeeds, and NULL == EXIT_SUCCESS: the slot is kept, and its id is whatever
\* mysql_insert_id gives after an error - nothing, or the last id it saw.
RegisterDuplicate(i) ==
    /\ Registering(i)
    /\ IsRegistration(inbox[newSock])
    /\ LET name == inbox[newSock].w1  email == inbox[newSock].w2 IN
         /\ RejectUser(name, email)
         /\ \E id \in {0, lastInsertId} : FillSlot(i, id, name)
    /\ EndRegistration

\* (Mutant: a registrant that goes away is waited for.)
RegisterInvalidLine(i) ==
    /\ Registering(i)
    /\ inbox[newSock] # Nothing /\ ~IsRegistration(inbox[newSock])
    /\ fd' = [fd EXCEPT ![newSock] = "closed"]
    /\ EndRegistration
    /\ UNCHANGED <<clients, dbVars>>

\* End of stream, a receive error, or a line that lacks one of the three
\* fields: the slot is given back and the socket closed.
RegisterInvalid(i) ==
    /\ Registering(i)
    /\ ~IsRegistration(inbox[newSock])
    /\ fd' = [fd EXCEPT ![newSock] = "closed"]
    /\ EndRegistration
    /\ UNCHANGED <<clients, dbVars>>

-----------------------------------------------------------------------------
(* handle_client. *)

Current(i) == /\ clients[i] # NULL /\ clients[i].socket \in ready
              /\ \A j \in Slots : j < i /\ clients[j] # NULL
                                    => clients[j].socket \notin ready

LineOf(i) == inbox[clients[i].socket]
IdOf(i)   == clients[i].id

Handling(i, op) == /\ pc = "loop" /\ Current(i)
                   /\ LineOf(i) # Nothing /\ LineOf(i).op = op

\* What sscanf leaves in its target: any word when it read none.
Reading(w) == IF w = NoWord THEN Words ELSE {w}

\* A send to a peer that is gone draws a reset, which on the loopback device
\* client.c connects over arrives before the next send; one more send raises
\* SIGPIPE, which nothing blocks or handles.
BrokenPipe(out) ==
    \E c \in Conns : \/ peer[c] = "reset" /\ out[c] # {}
                     \/ peer[c] = "gone" /\ \E x, y \in out[c] : x # y

AfterSends(out) ==
    [c \in Conns |-> IF peer[c] = "gone" /\ out[c] # {} THEN "reset" ELSE peer[c]]

\* The line of slot i has been handled: out is sent, flags are the new flags.
Respond(i, out, flags) ==
    /\ peer' = AfterSends(out)
    /\ \/ /\ BrokenPipe(out)
          /\ Die
       \/ /\ ~BrokenPipe(out)
          /\ ready' = ready \ {clients[i].socket}
          /\ sendings' = flags
          /\ inbox' = [inbox EXCEPT ![clients[i].socket] = Nothing]
          /\ sent' = out
          /\ UNCHANGED <<pc, newSock, clients, acceptQ, fd>>

ReplyOut(i, what) ==
    [Silent EXCEPT ![clients[i].socket] = {[kind |-> "reply", what |-> what]}]
Reply(i, what) == Respond(i, ReplyOut(i, what), sendings)
Refuse(i, what) == Reply(i, what) /\ UNCHANGED dbVars

CreateGroup(i) ==
    /\ Handling(i, "CREATE_GROUP")
    /\ \E name \in Reading(LineOf(i).w1) :
         \/ InsertGroupAndAdmin(name, IdOf(i)) /\ Reply(i, "created")
         \/ RejectGroup(IdOf(i)) /\ Reply(i, "create_failed")

\* The process is killed between the two INSERTs of CREATE_GROUP.
CreateGroupCutShort(i) ==
    /\ Handling(i, "CREATE_GROUP")
    /\ \E name \in Reading(LineOf(i).w1) : InsertGroupOnly(name, IdOf(i))
    /\ Die
    /\ UNCHANGED peer

JoinGroup(i) ==
    /\ Handling(i, "JOIN_GROUP")
    /\ \E name \in Reading(LineOf(i).w1) :
         \/ get_group_id(name) = {} /\ Refuse(i, "group_not_found")
         \/ \E g \in get_group_id(name) :
              \/ is_group_member(IdOf(i), g) /\ Refuse(i, "already_a_member")
              \/ /\ ~is_group_member(IdOf(i), g)
                 /\ \/ /\ add_user_to_group(g, IdOf(i), "member")
                       /\ Reply(i, "joined")
                    \/ /\ ~CanAdd(g, IdOf(i))
                       /\ Refuse(i, "join_failed")

AddMember(i) ==
    /\ Handling(i, "ADD_MEMBER")
    /\ \E name \in Reading(LineOf(i).w1), user \in Reading(LineOf(i).w2) :
         \/ get_group_id(name) = {} /\ Refuse(i, "group_does_not_exist")
         \/ /\ get_group_id(name) # {} /\ get_user_id(user) = {}
            /\ Refuse(i, "user_does_not_exist")
         \/ \E g \in get_group_id(name), u \in get_user_id(user) :
              \/ add_user_to_group(g, u, "member") /\ Reply(i, "added")
              \/ ~CanAdd(g, u) /\ Refuse(i, "add_failed")

\* A write outside the array is lost on whatever lies there, or kills the server.
StrayWrite(cells) == ~(cells \subseteq Cells) /\ Die /\ UNCHANGED peer

SendMode(i) ==
    /\ Handling(i, "SEND")
    /\ UNCHANGED dbVars
    /\ \E name \in Reading(LineOf(i).w1) :
         \/ get_group_id(name) = {} /\ Reply(i, "group_not_found")
         \/ \E g \in get_group_id(name) :
              \/ /\ is_group_member(IdOf(i), g)
                 /\ Respond(i, ReplyOut(i, "SENDING"),
                            sendings \cup ({Cell(IdOf(i), g)} \cap Cells))
              \/ is_group_member(IdOf(i), g) /\ StrayWrite({Cell(IdOf(i), g)})
              \/ /\ ~is_group_member(IdOf(i), g)
                 /\ Reply(i, "is_not_member")

RemoveMember(i) ==
    /\ Handling(i, "REMOVE_MEMBER")
    /\ \E name \in Reading(LineOf(i).w1), user \in Reading(LineOf(i).w2) :
         \/ get_group_id(name) = {} /\ Refuse(i, "group_does_not_exist")
         \/ \E g \in get_group_id(name) :
              \/ ~is_group_admin(IdOf(i), g) /\ Refuse(i, "not_an_admin")
              \/ /\ is_group_admin(IdOf(i), g)
                 /\ \/ get_user_id(user) = {} /\ Refuse(i, "user_does_not_exist")
                    \/ \E u \in get_user_id(user) :
                         remove_user_from_group(g, u) /\ Reply(i, "removed")

LeaveGroup(i) ==
    /\ Handling(i, "LEAVE_GROUP")
    /\ \E name \in Reading(LineOf(i).w1) :
         \/ get_group_id(name) = {} /\ Refuse(i, "group_not_found")
         \/ \E g \in get_group_id(name) :
              \/ ~is_group_member(IdOf(i), g) /\ Refuse(i, "not_a_member")
              \/ /\ is_group_member(IdOf(i), g)
                 /\ remove_user_from_group(g, IdOf(i))
                 /\ Reply(i, "left")

\* The listings only read: what they print is left out.
ListGroups(i) == Handling(i, "LIST_GROUPS") /\ Refuse(i, "list")
ListUsers(i)  == Handling(i, "LIST_USERS") /\ Refuse(i, "list")

ListGroupMessages(i) ==
    /\ Handling(i, "LIST_GROUP_MESSAGES")
    /\ \E name \in Reading(LineOf(i).w1) :
         Refuse(i, IF get_group_id(name) = {} THEN "group_not_found" ELSE "list")

List(i) == ListGroups(i) \/ ListUsers(i) \/ ListGroupMessages(i)

\* No branch matches: nothing is sent.
Unknown(i) ==
    /\ \E op \in {"OTHER", "REGISTER"} : Handling(i, op)
    /\ Respond(i, Silent, sendings)
    /\ UNCHANGED dbVars

\* The row of a user in a matrix of flags: the groups the user is sending to.
Sending(u, flags) == {j \in Slots : Cell(u, j) \in flags}
Lowest(S) == {j \in S : \A h \in S : j <= h}

\* MESSAGE with a text: for every group j of the sender's row, to every other
\* slot whose user is a member of j now and is sending to j as well.
\* (Mutant: the flag alone decides.)
ReachesByFlag(i, k, j, flags) ==
    /\ clients[k] # NULL /\ clients[k].socket # clients[i].socket
    /\ j \in Sending(IdOf(k), flags)

Reaches(i, k, j, flags) ==
    /\ clients[k] # NULL /\ clients[k].socket # clients[i].socket
    /\ is_group_member(IdOf(k), j) /\ j \in Sending(IdOf(k), flags)

Broadcast(i, text, flags) ==
    [c \in Conns |->
        {[kind |-> "chat", from |-> IdOf(i), group |-> j, text |-> text] :
           j \in {g \in Sending(IdOf(i), flags) : \E k \in Slots :
                    Reaches(i, k, g, flags) /\ clients[k].socket = c}}]

\* EXIT lowers the first flag of the row and ends the loop.
\* (Mutant: the flags of everybody in that group.)
ExitCellsOfAll(i, flags) ==
    {Cell(u, j) : u \in UserIds, j \in Lowest(Sending(IdOf(i), flags))}
ExitCells(i, flags) == {Cell(IdOf(i), j) : j \in Lowest(Sending(IdOf(i), flags))}

Relay(i, text, flags) ==
    \/ text = Exit /\ Respond(i, Silent, sendings \ ExitCells(i, flags))
    \/ text = Exit /\ StrayWrite(ExitCells(i, flags))
    \/ text # Exit /\ Respond(i, Broadcast(i, text, flags), sendings)

\* What is read outside the array (junk) may be anything.
Message(i) ==
    /\ Handling(i, "MESSAGE")
    /\ UNCHANGED dbVars
    /\ \E text \in Reading(LineOf(i).w1), junk \in SUBSET StrayCells :
         Relay(i, text, sendings \cup junk)

\* (Mutant: the slot keeps its socket.)
DisconnectKeepingSocket(i) ==
    /\ pc = "loop" /\ Current(i) /\ LineOf(i) = Nothing
    /\ fd' = [fd EXCEPT ![clients[i].socket] = "closed"]
    /\ ready' = ready \ {clients[i].socket}
    /\ sent' = Silent
    /\ UNCHANGED <<pc, newSock, memVars, acceptQ, peer, inbox, dbVars>>

\* recv returns 0 or fails: the slot keeps its user and its flags.
Disconnect(i) ==
    /\ pc = "loop" /\ Current(i) /\ LineOf(i) = Nothing
    /\ fd' = [fd EXCEPT ![clients[i].socket] = "closed"]
    /\ clients' = [clients EXCEPT ![i].socket = NoSock]
    /\ ready' = ready \ {clients[i].socket}
    /\ sent' = Silent
    /\ UNCHANGED <<pc, newSock, sendings, acceptQ, peer, inbox, dbVars>>

-----------------------------------------------------------------------------
Environment == \E c \in Conns :
    \/ Connect(c) \/ HangUp(c)
    \/ \E line \in Hellos : SayHello(c, line)
    \/ \E line \in Lines : inbox[c] = Nothing /\ Say(c, line)
    \/ SayMore(c)

Handler(i) ==
    \/ CreateGroup(i) \/ JoinGroup(i) \/ AddMember(i) \/ SendMode(i)
    \/ RemoveMember(i) \/ LeaveGroup(i) \/ List(i) \/ Unknown(i)
    \/ Message(i) \/ Disconnect(i)

Register(i) == RegisterUser(i) \/ RegisterDuplicate(i) \/ RegisterInvalid(i)

Server ==
    \/ Select \/ AcceptClient \/ AcceptWithoutSlot \/ AcceptFails
    \/ \E i \in Slots : Register(i) \/ Handler(i)

Crash == Kill \/ \E i \in Slots : CreateGroupCutShort(i)

Next == Environment \/ Server \/ Crash \/ Restart

Spec == Init /\ [][Next]_vars

\* The server as long as nobody kills it, with what the machine owes it.
Steady == Init /\ [][Environment \/ Server]_vars

\* The loop keeps running; a registrant may stay silent for ever.
FairServer == Steady /\ WF_vars(Server)

\* Moreover everyone who connects either sends a first line or goes away.
FairSystem ==
    /\ FairServer
    /\ \A c \in Conns : WF_vars(\/ \E line \in Hellos : SayHello(c, line)
                                \/ peer[c] = "connected" /\ HangUp(c))

-----------------------------------------------------------------------------
(* Safety. *)

\* Who owns which socket: two slots never hold the same one, a slot, the
\* registration block and the set of readable sockets only name open ones, and
\* an open socket nobody holds was accepted while the table was full
\* (server.c:670-745 and 363-364).
SocketOwnership ==
    /\ \A i, j \in Slots :
         clients[i] # NULL /\ clients[j] # NULL /\ i # j
           => clients[i].socket = NoSock \/ clients[i].socket # clients[j].socket
    /\ SlotSockets \subseteq OpenFds
    /\ ready \subseteq SlotSockets
    /\ pc = "register" <=> newSock # NoSock
    /\ newSock # NoSock => newSock \in OpenFds \ SlotSockets
    /\ \A c \in OpenFds \ (SlotSockets \cup {newSock}) : TableFull

\* What SocketOwnership rests on: the accept queue holds connections that were
\* made and not accepted yet, each of them once.
AcceptQueueOK ==
    /\ \A n \in 1..Len(acceptQ) : fd[acceptQ[n]] = "queued"
    /\ \A m, n \in 1..Len(acceptQ) : acceptQ[m] = acceptQ[n] => m = n
    /\ \A c \in Conns : peer[c] = "idle" <=> fd[c] = "none"

SocketInv == SocketOwnership /\ AcceptQueueOK

\* A slot answers for no one (id 0) or for a row of users, also after a
\* registration that failed (server.c:725).
SlotIdsAreUsers ==
    \A i \in Slots : clients[i] # NULL =>
        clients[i].id = 0 \/ UserExists(clients[i].id)

\* A chat text goes out only to a connection whose user is, at that moment, a
\* member of its group and in sending mode for it (as far as the flag lies in
\* the array), and never back to where it came from (server.c:568-578).
DeliveryDiscipline ==
    \A c \in Conns : \A x \in sent[c] : x.kind = "chat" =>
        \E i, k \in Slots :
            /\ clients[i] # NULL /\ clients[k] # NULL /\ i # k
            /\ IdOf(i) = x.from /\ clients[k].socket = c
            /\ is_group_member(IdOf(k), x.group)
            /\ {Cell(IdOf(k), x.group), Cell(x.from, x.group)} \cap Cells
                 \subseteq sendings

-----------------------------------------------------------------------------
(* What a step may never do. *)

\* A membership ends only when its user leaves or the group's admin removes it,
\* and a row never changes its role: an admin row appears together with its
\* group (server.c:381, 404, 432, 484, 508).
MembershipStep ==
    /\ \A m \in members \ members' : \E i \in Slots :
         /\ Current(i) /\ LineOf(i) # Nothing
         /\ \/ LineOf(i).op = "LEAVE_GROUP" /\ IdOf(i) = m.user
            \/ LineOf(i).op = "REMOVE_MEMBER" /\ is_group_admin(IdOf(i), m.group)
    /\ \A m \in members' \ members :
         /\ ~is_group_member(m.user, m.group)
         /\ m.role = "admin" => ~GroupExists(m.group)
MembershipDiscipline == [][MembershipStep]_vars

\* The sending flag of a user is raised only by a SEND of the user while a member
\* of the group, and lowered only by the user's own EXIT or with the whole server
\* (server.c:453-456, 561-565).  The only exception is the one of Cell: the SEND
\* of a user with a smaller id, for a group whose id is MaxClients or more.
RaisedBy(i, u, g) ==
    /\ Current(i) /\ LineOf(i) # Nothing /\ LineOf(i).op = "SEND"
    /\ \/ IdOf(i) = u /\ is_group_member(u, g)
       \/ /\ IdOf(i) < u
          /\ \E h \in GroupIds : /\ h >= MaxClients /\ Cell(IdOf(i), h) = Cell(u, g)
                                 /\ is_group_member(IdOf(i), h)
LoweredBy(i, u) ==
    /\ Current(i) /\ IdOf(i) = u /\ LineOf(i) # Nothing
    /\ LineOf(i).op = "MESSAGE" /\ LineOf(i).w1 \in {Exit, NoWord}

SendingDiscipline == [][
    sendings' # sendings => \A u \in UserIds, g \in Slots :
      /\ Cell(u, g) \in sendings' \ sendings => \E i \in Slots : RaisedBy(i, u, g)
      /\ Cell(u, g) \in sendings \ sendings' =>
           pc' = "down" \/ \E i \in Slots : LoweredBy(i, u) ]_vars

-----------------------------------------------------------------------------
(* Liveness. *)

\* Whatever a registered client sends is received in the end (server.c:628-747).
LinesAreRead ==
    \A c \in Conns : c \in SlotSockets /\ inbox[c] # Nothing ~> inbox[c] = Nothing

\* A registered client that went away gives up its socket (server.c:360-366).
HangUpsAreNoticed ==
    \A c \in Conns : c \in SlotSockets /\ peer[c] = "gone" ~> c \notin SlotSockets

\* Everyone who connects is accepted in the end (server.c:668-675).
ConnectionsAreAccepted ==
    \A c \in Conns : fd[c] = "queued" ~> fd[c] # "queued"

=============================================================================
