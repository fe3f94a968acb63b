------------------------------- MODULE ChatRoom -------------------------------
(***************************************************************************)
(* The chat room, src/module_chat/chat_module2/server.c: the main thread   *)
(* accepts, and one thread per client runs handle_client over the shared   *)
(* list clients, the names usernames[fd] and the mutex around both.        *)
(*                                                                         *)
(* A step of a thread ends where another thread can notice: before it      *)
(* takes the mutex, before it reads new_client_socket, before it blocks in *)
(* recv and before close.  A critical section is one step; that of         *)
(* send_message_to_all includes its sends, which wait for nobody because   *)
(* the receiving thread of client.c always reads.                          *)
(*                                                                         *)
(* A thread is named by the connection it was created for, which need not  *)
(* be the one it serves.  fdTab is the descriptor table: numbers are given *)
(* out again, smallest first.  The model has fewer connections than        *)
(* MAX_USERS, so neither array overflows.                                  *)
(***************************************************************************)
EXTENDS Naturals, Sequences

CONSTANTS
    Conns,       \* connections, each the life of one client.c
    Fds,         \* descriptor numbers the process may use
    Words,       \* names and targets
    Typed,       \* the names users type
    Chats,       \* the lines they send afterwards
    Cut,         \* Cut[w]: the word w without its last character
    Garbled,     \* a word with the next line glued to it
    NoName,      \* the empty string
    NoSock, NoConn, Nothing

Line == [op : {"name", "text", "exit", "/chat"}, w : Words]

ASSUME RoomAssumption ==
    /\ Fds \subseteq Nat /\ NoSock \notin Fds /\ NoConn \notin Conns
    /\ Typed \subseteq Words /\ {Garbled, NoName} \subseteq Words
    /\ Cut \in [Words -> Words]
    /\ Chats \subseteq Line /\ Nothing \notin Line

VARIABLES
    mainPc,      \* "accept", "add" or "down"
    newSock,     \* new_client_socket of main; the threads get its address
    clients,     \* clients[0..client_count-1]
    usernames,
    pc,          \* where each thread stands
    sock,        \* its client_socket
    file,        \* the connection its recv waits on
    name,        \* its username
    wanted,      \* its target_user
    target,      \* its target_client_socket
    fdTab,       \* the connection behind each descriptor
    backlog,     \* connections to be accepted
    peer,        \* the client's end of each connection
    inbox        \* what has arrived and was not received yet

mainVars   == <<mainPc, newSock>>
listVars   == <<clients, usernames>>
threadVars == <<pc, sock, file, name, wanted, target>>
netVars    == <<fdTab, backlog, peer, inbox>>
vars       == <<mainVars, listVars, threadVars, netVars>>

RoomTypeOK ==
    /\ mainPc \in {"accept", "add", "down"}
    /\ newSock \in Fds \cup {NoSock}
    /\ mainPc = "add" => newSock \in Fds
    /\ clients \in Seq(Fds)
    /\ usernames \in [Fds -> Words]
    /\ pc \in [Conns -> {"none", "start", "ask", "hear", "name", "save", "list", "join",
                         "enter", "recv", "say", "lookup", "notify", "leave",
                         "remove", "close", "done"}]
    /\ sock \in [Conns -> Fds \cup {NoSock}]
    /\ file \in [Conns -> Conns \cup {NoConn}]
    /\ name \in [Conns -> Words]
    /\ wanted \in [Conns -> Words]
    /\ target \in [Conns -> Fds \cup {NoSock}]
    /\ fdTab \in [Fds -> Conns \cup {NoConn}]
    /\ backlog \subseteq Conns
    /\ peer \in [Conns -> {"idle", "connected", "up", "leaving", "gone", "reset"}]
    /\ inbox \in [Conns -> Line \cup {Nothing}]

Init ==
    /\ mainPc = "accept" /\ newSock = NoSock
    /\ clients = <<>> /\ usernames = [f \in Fds |-> NoName]
    /\ pc = [t \in Conns |-> "none"]
    /\ sock = [t \in Conns |-> NoSock]
    /\ file = [t \in Conns |-> NoConn]
    /\ name = [t \in Conns |-> NoName]
    /\ wanted = [t \in Conns |-> NoName]
    /\ target = [t \in Conns |-> NoSock]
    /\ fdTab = [f \in Fds |-> NoConn]
    /\ backlog = {}
    /\ peer = [c \in Conns |-> "idle"]
    /\ inbox = [c \in Conns |-> Nothing]

-----------------------------------------------------------------------------
(* client.c: connect, the name, then lines until /exit.  It waits for      *)
(* nothing the server says, so lines run into each other; an empty name    *)
(* sends no byte, and its user may stop it at any time.                    *)

Glue(line) ==
    IF line.op \in {"name", "/chat"} THEN [line EXCEPT !.w = Garbled]
    ELSE [line EXCEPT !.op = "text"]

Arrive(c, line) ==
    inbox' = [inbox EXCEPT ![c] = IF @ = Nothing THEN line ELSE Glue(@)]

Open(c) == \E f \in Fds : fdTab[f] = c
Held(c) == c \in backlog \/ Open(c)

Connect(c) ==
    /\ peer[c] = "idle" /\ mainPc # "down"
    /\ peer' = [peer EXCEPT ![c] = "connected"]
    /\ backlog' = backlog \cup {c}
    /\ UNCHANGED <<mainVars, listVars, threadVars, fdTab, inbox>>

SayName(c, w) ==
    /\ peer[c] = "connected" /\ Held(c)
    /\ peer' = [peer EXCEPT ![c] = "up"]
    /\ IF w = NoName THEN UNCHANGED inbox ELSE Arrive(c, [op |-> "name", w |-> w])
    /\ UNCHANGED <<mainVars, listVars, threadVars, fdTab, backlog>>

Say(c, line) ==
    /\ peer[c] = "up" /\ Held(c)
    /\ peer' = IF line.op = "exit" THEN [peer EXCEPT ![c] = "leaving"] ELSE peer
    /\ Arrive(c, line)
    /\ UNCHANGED <<mainVars, listVars, threadVars, fdTab, backlog>>

HangUp(c) ==
    /\ peer[c] \in {"connected", "up", "leaving"}
    /\ peer' = [peer EXCEPT ![c] = "gone"]
    /\ UNCHANGED <<mainVars, listVars, threadVars, fdTab, backlog, inbox>>

-----------------------------------------------------------------------------
(* main. *)

LowestFree(f) == /\ fdTab[f] = NoConn
                 /\ \A g \in Fds : g < f => fdTab[g] # NoConn

Accept(c, f) ==
    /\ mainPc = "accept" /\ c \in backlog /\ LowestFree(f)
    /\ mainPc' = "add" /\ newSock' = f
    /\ fdTab' = [fdTab EXCEPT ![f] = c]
    /\ backlog' = backlog \ {c}
    /\ UNCHANGED <<listVars, threadVars, peer, inbox>>

\* (Mutant: it goes on with what accept returned.)
AcceptFailsUnnoticed ==
    /\ mainPc = "accept" /\ backlog # {}
    /\ mainPc' = "add" /\ newSock' = NoSock
    /\ UNCHANGED <<listVars, threadVars, netVars>>

\* No descriptor is left, in the process or in the system: "Accept failed", and
\* the next try.
AcceptFails ==
    /\ mainPc = "accept" /\ backlog # {}
    /\ newSock' = NoSock
    /\ UNCHANGED <<mainPc, listVars, threadVars, netVars>>

AddClient ==
    /\ mainPc = "add"
    /\ mainPc' = "accept"
    /\ clients' = Append(clients, newSock)
    /\ pc' = [pc EXCEPT ![fdTab[newSock]] = "start"]
    /\ UNCHANGED <<newSock, usernames, sock, file, name, wanted, target, netVars>>

-----------------------------------------------------------------------------
(* handle_client. *)

Goto(t, from, to) == pc[t] = from /\ pc' = [pc EXCEPT ![t] = to]

FileOf(f) == IF f \in Fds THEN fdTab[f] ELSE NoConn

\* What one send, and what send_message_to_all, sends to each connection: the
\* set of its calls.
ToOne(f) == [c \in Conns |-> IF FileOf(f) = c THEN {0} ELSE {}]
ToAll    == [c \in Conns |-> {i \in 1..Len(clients) : fdTab[clients[i]] = c}]

\* A send to a peer that is gone draws a reset; one more raises SIGPIPE, which
\* nothing handles.
BrokenPipe(out) ==
    \E c \in Conns : \/ peer[c] = "reset" /\ out[c] # {}
                     \/ peer[c] = "gone" /\ \E i, j \in out[c] : i # j

AfterSends(out) ==
    [c \in Conns |-> IF peer[c] = "gone" /\ out[c] # {} THEN "reset" ELSE peer[c]]

Die ==
    /\ mainPc' = "down" /\ newSock' = NoSock
    /\ clients' = <<>> /\ usernames' = [f \in Fds |-> NoName]
    /\ pc' = [t \in Conns |-> IF pc[t] = "none" THEN "none" ELSE "done"]
    /\ sock' = [t \in Conns |-> NoSock]
    /\ file' = [t \in Conns |-> NoConn]
    /\ name' = [t \in Conns |-> NoName]
    /\ wanted' = [t \in Conns |-> NoName]
    /\ target' = [t \in Conns |-> NoSock]
    /\ fdTab' = [f \in Fds |-> NoConn]
    /\ backlog' = {}
    /\ inbox' = [c \in Conns |-> Nothing]

Send(t, from, to, out) ==
    /\ pc[t] = from
    /\ peer' = AfterSends(out)
    /\ \/ BrokenPipe(out) /\ Die
       \/ /\ ~BrokenPipe(out)
          /\ Goto(t, from, to)
          /\ UNCHANGED <<mainVars, listVars, sock, file, name, wanted, target,
                         fdTab, backlog, inbox>>

\* The argument is the address of main's variable: the thread serves whoever
\* was accepted last when it gets to read it.
StartThread(t) ==
    /\ Goto(t, "start", "ask")
    /\ sock' = [sock EXCEPT ![t] = newSock]
    /\ UNCHANGED <<mainVars, listVars, file, name, wanted, target, netVars>>

AskName(t) == Send(t, "ask", "hear", ToOne(sock[t]))

\* recv looks its descriptor up when it is called, and keeps the connection
\* though another thread may close the descriptor while it waits.
EnterRecv(t) ==
    /\ Goto(t, "hear", "name") \/ Goto(t, "enter", "recv")
    /\ file' = [file EXCEPT ![t] = FileOf(sock[t])]
    /\ target' = [target EXCEPT ![t] = NoSock]
    /\ UNCHANGED <<mainVars, listVars, sock, name, wanted, netVars>>

HasLine(t) == file[t] # NoConn /\ inbox[file[t]] # Nothing
\* (Mutant: only errors end a thread, the end of the stream does not.)
AtError(t) == file[t] = NoConn \/ (/\ inbox[file[t]] = Nothing
                                   /\ peer[file[t]] = "reset")
AtEnd(t)   == file[t] = NoConn \/ (/\ inbox[file[t]] = Nothing
                                   /\ peer[file[t]] \in {"gone", "reset"})

TakeLine(t) ==
    /\ inbox' = [inbox EXCEPT ![file[t]] = Nothing]
    /\ file' = [file EXCEPT ![t] = NoConn]

\* The socket is closed and the thread ends; the client stays in the list.
NameMissing(t) ==
    /\ Goto(t, "name", "done") /\ AtEnd(t)
    /\ fdTab' = [f \in Fds |-> IF f = sock[t] THEN NoConn ELSE fdTab[f]]
    /\ file' = [file EXCEPT ![t] = NoConn]
    /\ sock' = [sock EXCEPT ![t] = NoSock]
    /\ UNCHANGED <<mainVars, listVars, name, wanted, target, backlog, peer, inbox>>

\* Whatever comes first is the name, less its last character.
ReceiveName(t) ==
    /\ Goto(t, "name", "save") /\ HasLine(t)
    /\ LET line == inbox[file[t]] IN
         name' = [name EXCEPT ![t] =
           Cut[IF line.op = "name" THEN line.w ELSE Garbled]]
    /\ TakeLine(t)
    /\ UNCHANGED <<mainVars, listVars, sock, wanted, target, fdTab, backlog, peer>>

SaveName(t) ==
    /\ Goto(t, "save", "list")
    /\ usernames' = [f \in Fds |-> IF f = sock[t] THEN name[t] ELSE usernames[f]]
    /\ UNCHANGED <<mainVars, clients, sock, file, name, wanted, target, netVars>>

send_user_list(t) == Send(t, "list", "join", ToOne(sock[t]))
AnnounceJoin(t)   == Send(t, "join", "enter", ToAll)
AnnounceLeave(t)  == Send(t, "leave", "remove", ToAll)
SayToAll(t)       == Send(t, "say", "enter", ToAll)

Receive(t) ==
    /\ HasLine(t)
    /\ LET line == inbox[file[t]] IN
         \/ line.op = "exit" /\ Goto(t, "recv", "leave") /\ UNCHANGED wanted
         \/ line.op \in {"text", "name"} /\ Goto(t, "recv", "say") /\ UNCHANGED wanted
         \/ /\ line.op = "/chat" /\ Goto(t, "recv", "lookup")
            /\ \E w \in IF line.w = NoName THEN Words ELSE {line.w} :
                 wanted' = [wanted EXCEPT ![t] = w]
    /\ TakeLine(t)
    /\ UNCHANGED <<mainVars, listVars, sock, name, target, fdTab, backlog, peer>>

ReceiveEnd(t) ==
    /\ Goto(t, "recv", "remove") /\ AtEnd(t)
    /\ file' = [file EXCEPT ![t] = NoConn]
    /\ UNCHANGED <<mainVars, listVars, sock, name, wanted, target, netVars>>

\* The first client of that name, or none.
Named(w) == {clients[i] : i \in {j \in 1..Len(clients) :
               /\ usernames[clients[j]] = w
               /\ \A h \in 1..(j - 1) : usernames[clients[h]] # w}}

FindTarget(t) ==
    /\ Goto(t, "lookup", "notify")
    /\ \/ /\ Named(wanted[t]) = {}
          /\ target' = [target EXCEPT ![t] = NoSock]
       \/ \E f \in Named(wanted[t]) : target' = [target EXCEPT ![t] = f]
    /\ wanted' = [wanted EXCEPT ![t] = NoName]
    /\ UNCHANGED <<mainVars, listVars, sock, file, name, netVars>>

\* After the mutex is given back: "You have a new message" or "User not found".
Notify(t) == Send(t, "notify", "enter",
                  ToOne(IF target[t] = NoSock THEN sock[t] ELSE target[t]))

FirstAt(i, f) == /\ clients[i] = f
                 /\ \A j \in 1..(i - 1) : clients[j] # f
\* (Mutant: the shift starts one too late.)
WithoutNext(i) == [j \in 1..(Len(clients) - 1) |->
                     clients[IF j <= i THEN j ELSE j + 1]]
Without(i) == [j \in 1..(Len(clients) - 1) |->
                 clients[IF j < i THEN j ELSE j + 1]]

\* (Mutant: the names are copied before the sockets.)
RemoveNamesFirst(t) ==
    /\ Goto(t, "remove", "close")
    /\ \/ \E i \in 1..Len(clients) :
            /\ FirstAt(i, sock[t]) /\ clients' = Without(i)
            /\ usernames' = [f \in Fds |->
                 IF \E j \in i..(Len(clients) - 1) : clients[j] = f
                 THEN usernames[clients[1 + CHOOSE j \in i..(Len(clients) - 1) :
                                              clients[j] = f]]
                 ELSE usernames[f]]
       \/ /\ \A i \in 1..Len(clients) : clients[i] # sock[t]
          /\ UNCHANGED listVars
    /\ UNCHANGED <<mainVars, sock, file, name, wanted, target, netVars>>

\* The loop copies clients[j+1] to clients[j] first, and then the name of
\* clients[j+1] to that of clients[j]: a name to itself.
remove_client(t) ==
    /\ Goto(t, "remove", "close")
    /\ \/ \E i \in 1..Len(clients) :
            FirstAt(i, sock[t]) /\ clients' = Without(i)
       \/ /\ \A i \in 1..Len(clients) : clients[i] # sock[t]
          /\ UNCHANGED clients
    /\ UNCHANGED <<mainVars, usernames, sock, file, name, wanted, target, netVars>>

\* (Mutant: the loop is not left.)
CloseAndGoOn(t) ==
    /\ Goto(t, "close", "enter")
    /\ fdTab' = [f \in Fds |-> IF f = sock[t] THEN NoConn ELSE fdTab[f]]
    /\ UNCHANGED <<mainVars, listVars, sock, file, name, wanted, target,
                   backlog, peer, inbox>>

CloseSocket(t) ==
    /\ Goto(t, "close", "done")
    /\ fdTab' = [f \in Fds |-> IF f = sock[t] THEN NoConn ELSE fdTab[f]]
    /\ sock' = [sock EXCEPT ![t] = NoSock]
    /\ name' = [name EXCEPT ![t] = NoName]
    /\ UNCHANGED <<mainVars, listVars, file, wanted, target, backlog, peer, inbox>>

-----------------------------------------------------------------------------
Environment == \E c \in Conns :
    \/ Connect(c) \/ HangUp(c)
    \/ \E w \in Typed : SayName(c, w)
    \/ \E line \in Chats : Say(c, line)

AcceptOne == (\E c \in Conns, f \in Fds : Accept(c, f)) \/ AcceptFails

Thread(t) ==
    \/ AskName(t) \/ EnterRecv(t) \/ NameMissing(t) \/ ReceiveName(t)
    \/ SaveName(t) \/ send_user_list(t) \/ AnnounceJoin(t)
    \/ Receive(t) \/ ReceiveEnd(t) \/ SayToAll(t) \/ FindTarget(t) \/ Notify(t)
    \/ AnnounceLeave(t) \/ remove_client(t) \/ CloseSocket(t)

Next == Environment \/ AcceptOne \/ AddClient
          \/ \E t \in Conns : StartThread(t) \/ Thread(t)

Spec == Init /\ [][Next]_vars

\* The room as long as connections come apart: a new thread has read its
\* argument before the next accept returns.
AllStarted == \A t \in Conns : pc[t] # "start"

PromptNext == Environment \/ AddClient \/ (AllStarted /\ AcceptOne)
                \/ \E t \in Conns : StartThread(t) \/ Thread(t)

PromptSpec == Init /\ [][PromptNext]_vars

\* Every thread keeps running when it can; clients need not do anything.
FairRoom ==
    /\ PromptSpec
    /\ WF_vars(AddClient) /\ WF_vars(AllStarted /\ AcceptOne)
    /\ \A t \in Conns : WF_vars(StartThread(t) \/ Thread(t))

-----------------------------------------------------------------------------
Busy(t) == pc[t] \notin {"none", "start", "done"}

\* "Tạo thread xử lý client" (server.c:70): every busy thread serves the
\* connection it was created for, and every accepted connection has its thread.
OneThreadPerClient ==
    /\ \A t \in Conns : Busy(t) => sock[t] \in Fds /\ fdTab[sock[t]] = t
    /\ \A f \in Fds : fdTab[f] # NoConn =>
         \/ Busy(fdTab[f]) /\ sock[fdTab[f]] = f
         \/ f = newSock /\ (mainPc = "add" \/ pc[fdTab[f]] = "start")

\* Whoever is in the room is in the list that send_message_to_all goes through,
\* until its own thread takes it out (server.c:65-68, 152-158, 177-191).
NobodyIsMissed ==
    \A t \in Conns : Busy(t) /\ pc[t] # "close" =>
        \E i \in 1..Len(clients) : clients[i] = sock[t]

Introduced(t) == pc[t] \in {"list", "join", "enter", "recv", "say", "lookup",
                            "notify", "leave", "remove", "close"}

\* A client keeps its name while others come, go and are shifted in the list
\* (server.c:95, 181-184).
NamesStay == \A t \in Conns : Introduced(t) => usernames[sock[t]] = name[t]

RoomInv == OneThreadPerClient /\ NobodyIsMissed /\ NamesStay

\* In the room is who has a descriptor that is in the list, which a former
\* client of that number may have left there.
InRoom(c) == \E i \in 1..Len(clients) : fdTab[clients[i]] = c

Standing(c) ==
    IF mainPc = "down" THEN "left"
    ELSE IF InRoom(c) THEN IF Introduced(c) THEN "named" ELSE "inside"
    ELSE IF pc[c] = "none" THEN "outside" ELSE "left"

Going == {c \in Conns : peer[c] \in {"leaving", "gone", "reset"}}

Status == [c \in Conns |-> Standing(c)]
Called == [c \in Conns |-> IF Standing(c) = "named" THEN usernames[sock[c]] ELSE NoName]

Room == INSTANCE Roster WITH
    Guests <- Conns, Names <- Words, Unnamed <- NoName,
    status <- Status, called <- Called, going <- Going

\* Whatever is given out again, shifted or left behind: everybody enters once,
\* under one name, and nobody is put out by the coming and going of others
\* (server.c:56-71, 86-96, 108-122, 177-191).
RosterSpec == Room!RosterSpec

\* Whoever went away is noticed: its socket is closed in the end, or the whole
\* server is gone (server.c:87-90, 108-111).
GoneAreClosed ==
    \A c \in Conns : peer[c] \in {"gone", "reset"} /\ Open(c) ~> ~Open(c)
=============================================================================
