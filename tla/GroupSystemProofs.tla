-------------------------- MODULE GroupSystemProofs --------------------------
(***************************************************************************)
(* Theorems about the group server together with its clients, for any      *)
(* number of them.                                                         *)
(*                                                                         *)
(* Every step of a client is one the server's environment may take, so     *)
(* what GroupServerProofs shows of the server alone holds of the system.   *)
(* What both ends agree on is followed from the reply SENDING to the EXIT. *)
(***************************************************************************)
EXTENDS GroupSystem, GroupServerProofs

-----------------------------------------------------------------------------
(* The system contains the server. *)

\* What a client does to the network, its environment may do to the server.
LEMMA ClientIsEnvironment ==
    ASSUME NEW c \in Conns, ClientStep(c)
    PROVE  Environment \/ UNCHANGED vars
<1>1. Choices \subseteq Lines /\ Texts \subseteq Lines
  BY DEF Choices, Texts
<1>2. ASSUME NEW line \in Lines, Say(c, line) PROVE Environment
  <2>1. CASE inbox[c] = Nothing
    BY <1>2, <2>1 DEF Environment
  <2>2. CASE inbox[c] # Nothing
    <3>1. Arrive(c, line) <=> Arrive(c, inbox[c])
      BY <2>2 DEF Arrive
    <3> QED
      BY <1>2, <2>2, <3>1 DEF Environment, SayMore, Say
  <2> QED
    BY <2>1, <2>2
<1>3. ASSUME NEW line \in Hellos, SayHello(c, line) PROVE Environment
  BY <1>3 DEF Environment
<1>4. Connect(c) \/ HangUp(c) => Environment
  BY DEF Environment
<1> QED
  BY <1>1, <1>2, <1>3, <1>4
     DEF ClientStep, Introduce, Choose, ShowAnswer, TypeAhead,
         ShowText, TypeText, SendText, NoticeEnd, Quit, Unheard

\* A step of the system is a step of the server and its environment.
LEMMA SystemStep ==
    ASSUME [SystemNext]_sysVars
    PROVE  [Next]_vars
  BY ClientIsEnvironment DEF SystemNext, ServerStep, Next, sysVars

\* The system implements the server with an unknown environment.
THEOREM SystemImplementsServer == SystemSpec => Spec
<1>1. SystemInit => Init
  BY DEF SystemInit
<1>2. [SystemNext]_sysVars => [Next]_vars
  BY SystemStep
<1> QED
  BY <1>1, <1>2, PTL DEF SystemSpec, Spec

ClientStates == {"hello", "menu", "wait", "sending", "typing", "lost", "quit"}
Outboxes     == {"nothing", "SENDING", "text"}
ClientsTyped ==
    /\ cpc \in [Conns -> ClientStates] /\ outbox \in [Conns -> Outboxes]
    /\ crossed \subseteq Conns

\* The clients keep to their states.
LEMMA ClientTypes ==
    ASSUME ClientsTyped, [SystemNext]_sysVars
    PROVE  ClientsTyped'
<1> USE DEF ClientsTyped, ClientStates, Outboxes
<1>1. CASE ServerStep /\ Recall
  BY <1>1 DEF ServerStep, Deliver, Beginning, Recall
<1>2. ASSUME NEW c \in Conns, ClientStep(c), Recall
      PROVE  ClientsTyped'
  BY <1>2 DEF Recall, ClientStep, Introduce, Choose, ShowAnswer, TypeAhead, ShowText,
              TypeText, SendText, NoticeEnd, Quit, Goto, Show
<1>3. CASE UNCHANGED sysVars
  BY <1>3 DEF sysVars
<1> QED
  BY <1>1, <1>2, <1>3 DEF SystemNext

\* SystemTypeOK is TypeOK and the types of the clients.
LEMMA SystemTypes == SystemTypeOK <=> TypeOK /\ ClientsTyped
  BY DEF SystemTypeOK, ClientsTyped, ClientStates, Outboxes

\* SystemTypeOK is inductive.
LEMMA SystemTypeStep == SystemTypeOK /\ [SystemNext]_sysVars => SystemTypeOK'
<1>1. TypeOK /\ [SystemNext]_sysVars => TypeOK'
  BY SystemStep, TypeStep
<1>2. (TypeOK' /\ ClientsTyped') => SystemTypeOK'
  BY DEF SystemTypeOK, ClientsTyped, ClientStates, Outboxes
<1> QED
  BY <1>1, <1>2, SystemTypes, ClientTypes

\* The state of server and clients is well typed, however they interleave.
THEOREM SystemTypeCorrect == SystemSpec => []SystemTypeOK
<1>1. SystemInit => SystemTypeOK
  BY TypeInit DEF SystemInit, SystemTypeOK
<1> QED
  BY <1>1, SystemTypeStep, PTL DEF SystemSpec

-----------------------------------------------------------------------------
(* Senders are flagged: the invariant. *)

\* A client is on its way into sending mode, in it, or has read its way there.
Engaged(c) == cpc[c] \in {"sending", "typing"} \/ outbox[c] = "SENDING"

\* It has heard from the server.
Heard(c) == cpc[c] \in {"sending", "typing"} \/ outbox[c] # "nothing"

\* Only a client that has, or had, a slot hears from the server.
ServedOnly == \A c \in Conns : Heard(c) => fd[c] = "closed" \/ c \in SlotSockets

\* Who has not introduced itself has no slot and nothing under way.
NewcomersWait ==
    \A c \in Conns : cpc[c] = "hello" =>
        inbox[c] = Nothing /\ outbox[c] = "nothing" /\ c \notin SlotSockets

\* The flag of an engaged client stands, and no EXIT of it is under way.
FlagStands(i) ==
    (/\ clients[i] # NULL /\ clients[i].socket \in Conns \ crossed
     /\ Alone(i) /\ IdOf(i) \in Slots /\ nextGroup <= MaxClients
     /\ Engaged(clients[i].socket))
    => Sending(IdOf(i), sendings) # {} /\ ~LeavesSending(LineOf(i))

Agreement == ServedOnly /\ NewcomersWait /\ \A i \in Slots : FlagStands(i)

SendersInv == SystemTypeOK /\ SocketInv /\ DbInv /\ Agreement

\* What a step never takes back: a crossing, and a group id.
Onward == crossed \subseteq crossed' /\ (nextGroup' <= MaxClients => nextGroup <= MaxClients)

\* A slot in use holds a client.
LEMMA SlotClient ==
    ASSUME TypeOK, NEW i \in Slots, clients[i] # NULL, clients[i].socket \in Conns
    PROVE  clients[i].socket \in SlotSockets
  BY ServerAssumption DEF SlotSockets

-----------------------------------------------------------------------------
(* Steps of the clients. *)

\* Two lines received at once are no EXIT.
LEMMA GluedStay ==
    ASSUME NEW line \in Line
    PROVE  ~LeavesSending(Glue(line))
<1>1. CASE line.op = "MESSAGE"
  <2>1. Glue(line) = [line EXCEPT !.w1 = Garbled]
    BY <1>1 DEF Glue, OneWordOps, TwoWordOps
  <2>2. Glue(line).w1 = Garbled
    BY <1>1, <2>1 DEF Line
  <2> QED
    BY <2>2, ServerAssumption, SystemAssumption DEF LeavesSending
<1>2. CASE line.op # "MESSAGE"
  <2>1. Glue(line).op = line.op
    BY DEF Glue, Line
  <2> QED
    BY <1>2, <2>1 DEF LeavesSending
<1> QED
  BY <1>1, <1>2

\* A line that leaves sending mode arrives as it was sent, or not as such.
LEMMA ArrivesWhole ==
    ASSUME TypeOK, NEW c \in Conns, NEW line, Arrive(c, line), LeavesSending(inbox'[c])
    PROVE  LeavesSending(line)
<1>1. inbox[c] \in Line \cup {Nothing}
  BY DEF TypeOK, ServerTypeOK
<1>2. inbox'[c] = IF inbox[c] = Nothing THEN line ELSE Glue(inbox[c])
  BY DEF Arrive, TypeOK, ServerTypeOK
<1> QED
  BY <1>1, <1>2, GluedStay

\* A client leaves the slots and flags alone, and the others' connections.
LEMMA ClientTouches ==
    ASSUME SystemTypeOK, NEW c \in Conns, ClientStep(c)
    PROVE  /\ clients' = clients /\ sendings' = sendings
           /\ \A d \in Conns \ {c} : /\ cpc'[d] = cpc[d] /\ outbox'[d] = outbox[d]
                                     /\ inbox'[d] = inbox[d] /\ fd'[d] = fd[d]
           /\ fd' = fd \/ Connect(c)
<1>1. /\ clients' = clients /\ sendings' = sendings
      /\ \A d \in Conns \ {c} : inbox'[d] = inbox[d] /\ fd'[d] = fd[d]
      /\ fd' = fd \/ Connect(c)
  <2>1. \/ Connect(c) \/ HangUp(c) \/ UNCHANGED vars
        \/ \E line : SayHello(c, line) \/ Say(c, line)
    BY DEF ClientStep, Introduce, Choose, ShowAnswer, TypeAhead, ShowText, TypeText,
           SendText, NoticeEnd, Quit, Unheard
  <2> QED
    BY <2>1 DEF Connect, HangUp, SayHello, Say, Arrive, vars, memVars, netVars,
                SystemTypeOK, TypeOK, ServerTypeOK
<1>2. \A d \in Conns \ {c} : cpc'[d] = cpc[d] /\ outbox'[d] = outbox[d]
  BY DEF ClientStep, Introduce, Choose, ShowAnswer, TypeAhead, ShowText, TypeText,
         SendText, NoticeEnd, Quit, Goto, Show, SystemTypeOK
<1> QED
  BY <1>1, <1>2

\* A client enters sending mode by what it reads only, and types EXIT only to
\* leave it.
LEMMA ClientOwn ==
    ASSUME SystemTypeOK, NewcomersWait, NEW c \in Conns, ClientStep(c), Recall
    PROVE  /\ Engaged(c)' => Engaged(c)
           /\ Heard(c)' => Heard(c)
           /\ cpc'[c] = "hello" => /\ cpc[c] = "hello" /\ outbox'[c] = outbox[c]
                                   /\ inbox'[c] = inbox[c]
           /\ Engaged(c)' /\ c \notin crossed' /\ LeavesSending(inbox'[c])
                => LeavesSending(inbox[c])
<1>1. CASE \/ ShowAnswer(c) \/ TypeAhead(c) \/ ShowText(c) \/ TypeText(c)
           \/ NoticeEnd(c) \/ Quit(c)
           \/ Connect(c) /\ UNCHANGED <<cpc, outbox>>
  <2>1. inbox' = inbox
    BY <1>1 DEF ShowAnswer, TypeAhead, ShowText, TypeText, NoticeEnd, Quit, Connect,
                HangUp, vars, netVars
  <2>2. /\ cpc'[c] \in {"sending", "typing"} =>
             cpc[c] \in {"sending", "typing"} \/ outbox[c] = "SENDING"
        /\ outbox'[c] \in {"nothing", outbox[c]}
        /\ cpc'[c] = "hello" => cpc[c] = "hello" /\ outbox'[c] = outbox[c]
    BY <1>1 DEF ShowAnswer, TypeAhead, ShowText, TypeText, NoticeEnd, Quit, Goto, Show,
                AtEndOfStream, SystemTypeOK
  <2> QED
    BY <2>1, <2>2 DEF Engaged, Heard
<1>2. CASE Introduce(c)
  BY <1>2 DEF Introduce, Goto, NewcomersWait, SystemTypeOK, Engaged, Heard
<1>3. CASE Choose(c)
  <2>1. outbox' = outbox /\ cpc'[c] = "wait"
    BY <1>3 DEF Choose, Goto, SystemTypeOK
  <2>2. LeavesSending(inbox'[c]) => LeavesSending(inbox[c])
    <3>1. CASE UNCHANGED vars
      BY <3>1 DEF vars, netVars
    <3>2. ASSUME NEW line \in Choices, Say(c, line)
          PROVE  ~LeavesSending(inbox'[c])
      <4>1. ~LeavesSending(line)
        BY DEF Choices, LeavesSending
      <4> QED
        BY <3>2, <4>1, ArrivesWhole DEF Say, SystemTypeOK
    <3> QED
      BY <1>3, <3>1, <3>2 DEF Choose
  <2> QED
    BY <2>1, <2>2 DEF Engaged, Heard
<1>4. CASE SendText(c)
  <2>1. PICK line \in Texts :
          /\ Unheard(c) \/ Say(c, line)
          /\ Goto(c, IF line.w1 = Exit THEN "menu" ELSE "sending")
    BY <1>4 DEF SendText
  <2>2. /\ outbox' = outbox /\ cpc[c] = "typing"
        /\ cpc'[c] = IF line.w1 = Exit THEN "menu" ELSE "sending"
    BY <1>4, <2>1 DEF SendText, Goto, SystemTypeOK
  <2>3. line.w1 # Exit => ~LeavesSending(line)
    BY SystemAssumption DEF LeavesSending
  <2>4. line.w1 # Exit /\ LeavesSending(inbox'[c]) => LeavesSending(inbox[c])
    BY <2>1, <2>3, ArrivesWhole DEF Unheard, Say, vars, netVars, SystemTypeOK
  <2>5. line.w1 = Exit /\ outbox[c] = "SENDING" => c \in crossed'
    BY <2>2 DEF Recall
  <2> QED
    BY <2>2, <2>4, <2>5 DEF Engaged, Heard
<1> QED
  BY <1>1, <1>2, <1>3, <1>4 DEF ClientStep

\* No client breaks the agreement.
LEMMA ClientsAgree ==
    ASSUME SendersInv, NEW c \in Conns, ClientStep(c), Recall, Onward
    PROVE  Agreement'
<1> USE DEF SendersInv, Agreement
<1>1. SlotSockets' = SlotSockets
  BY ClientTouches DEF SlotSockets
<1>2. ServedOnly'
  <2> SUFFICES ASSUME NEW d \in Conns, Heard(d)'
               PROVE  fd'[d] = "closed" \/ d \in SlotSockets
    BY <1>1 DEF ServedOnly
  <2>1. Heard(d)
    BY ClientTouches, ClientOwn DEF Heard
  <2>2. fd[d] = "closed" \/ d \in SlotSockets
    BY <2>1 DEF ServedOnly
  <2>3. Connect(c) => fd[c] = "none"
    BY DEF Connect, SocketInv, AcceptQueueOK
  <2>4. fd[d] # "none"
    BY <2>2 DEF SocketInv, SocketOwnership, OpenFds
  <2> QED
    BY <2>2, <2>3, <2>4, ClientTouches
<1>3. NewcomersWait'
  BY <1>1, ClientTouches, ClientOwn DEF NewcomersWait
<1>4. ASSUME NEW i \in Slots PROVE FlagStands(i)'
  <2> DEFINE s == clients[i].socket
  <2> SUFFICES ASSUME clients[i] # NULL, s \in Conns \ crossed', Alone(i),
                      IdOf(i) \in Slots, nextGroup' <= MaxClients, Engaged(s)'
               PROVE  Sending(IdOf(i), sendings) # {} /\ ~LeavesSending(inbox'[s])
    BY ClientTouches DEF FlagStands, Alone, IdOf, LineOf, Engaged
  <2>1. s \in Conns \ crossed /\ nextGroup <= MaxClients
    BY DEF Onward
  <2>2. Engaged(s) /\ (LeavesSending(inbox'[s]) => LeavesSending(inbox[s]))
    BY <2>1, ClientTouches, ClientOwn DEF Engaged
  <2> QED
    BY <2>1, <2>2 DEF FlagStands, LineOf
<1> QED
  BY <1>2, <1>3, <1>4

-----------------------------------------------------------------------------
(* Steps of the server. *)

\* What the server sends changes what waits for its receivers, and nothing else.
LEMMA Delivered ==
    ASSUME SystemTypeOK, Deliver, NEW c \in Conns
    PROVE  /\ sent' = Silent => outbox'[c] = outbox[c]
           /\ sent'[c] = {} => outbox'[c] = outbox[c]
           /\ outbox'[c] = "SENDING" =>
                \/ outbox[c] = "SENDING"
                \/ [kind |-> "reply", what |-> "SENDING"] \in sent'[c]
<1>1. outbox'[c] = IF sent'[c] = {} \/ outbox[c] # "nothing" \/ cpc[c] \in {"lost", "quit"}
                     THEN outbox[c] ELSE Beginning(sent'[c])
  BY DEF Deliver
<1> QED
  BY <1>1 DEF Beginning, Silent

\* The end of the process ends every conversation.
LEMMA DeathAgrees ==
    ASSUME SendersInv, Die, Deliver, Onward, cpc' = cpc
    PROVE  Agreement'
<1>1. \A c \in Conns : outbox'[c] = outbox[c]
  BY Delivered DEF SendersInv, Die
<1>2. SlotSockets' = {} /\ \A i \in Slots : clients'[i] = NULL
  BY DEF Die, SlotSockets
<1>3. ServedOnly'
  <2> SUFFICES ASSUME NEW c \in Conns, Heard(c)'
               PROVE  fd'[c] = "closed"
    BY DEF ServedOnly
  <2>1. Heard(c)
    BY <1>1 DEF Heard
  <2>2. fd[c] # "none"
    BY <2>1 DEF SendersInv, Agreement, ServedOnly, SocketInv, SocketOwnership, OpenFds
  <2> QED
    BY <2>2 DEF Die
<1>4. NewcomersWait'
  BY <1>1, <1>2 DEF SendersInv, Agreement, NewcomersWait, Die
<1>5. \A i \in Slots : FlagStands(i)'
  BY <1>2 DEF FlagStands
<1> QED
  BY <1>3, <1>4, <1>5 DEF Agreement

\* Neither do the steps that send nothing and leave slots and flags alone: they
\* move connections nobody serves, and consume lines.
LEMMA QuietAgrees ==
    ASSUME SendersInv, Deliver, Onward, cpc' = cpc,
           clients' = clients, sendings' = sendings, sent' = Silent,
           \A c \in Conns : inbox'[c] \in {inbox[c], Nothing},
           \A c \in Conns : fd[c] = "closed" => fd'[c] = "closed"
    PROVE  Agreement'
<1>1. \A c \in Conns : outbox'[c] = outbox[c]
  BY Delivered DEF SendersInv
<1>2. SlotSockets' = SlotSockets
  BY DEF SlotSockets
<1>3. ServedOnly' /\ NewcomersWait'
  BY <1>1, <1>2 DEF SendersInv, Agreement, ServedOnly, Heard, NewcomersWait
<1>4. ASSUME NEW i \in Slots PROVE FlagStands(i)'
  <2>1. FlagStands(i)
    BY DEF SendersInv, Agreement
  <2> QED
    BY <1>1, <2>1 DEF Onward, FlagStands, Alone, IdOf, LineOf, Engaged, LeavesSending
<1> QED
  BY <1>3, <1>4 DEF Agreement

\* A new slot is that of a client which has not heard anything yet.
LEMMA RegistrationAgrees ==
    ASSUME SendersInv, Deliver, Onward, cpc' = cpc,
           NEW i \in Slots, RegisterUser(i) \/ RegisterDuplicate(i)
    PROVE  Agreement'
<1>1. /\ pc = "register" /\ newSock \in Conns /\ clients[i] = NULL
      /\ inbox' = [inbox EXCEPT ![newSock] = Nothing] /\ inbox[newSock] # Nothing
      /\ sendings' = sendings /\ sent' = Silent
  BY DEF RegisterUser, RegisterDuplicate, Registering, FirstFree, EndRegistration,
         IsRegistration, SendersInv, SystemTypeOK, TypeOK, ServerTypeOK
<1>2. PICK id \in 0..MaxUserId, name \in Words : FillSlot(i, id, name)
  BY RegisterFills DEF SendersInv, SystemTypeOK
<1>3. /\ fd' = fd /\ clients'[i] = [socket |-> newSock, id |-> id, username |-> name]
      /\ \A j \in Slots \ {i} : clients'[j] = clients[j]
  BY <1>2 DEF FillSlot, SendersInv, SystemTypeOK, TypeOK, ServerTypeOK
<1>4. clients'[i].socket = newSock
  BY <1>3
<1>5. newSock \in OpenFds \ SlotSockets /\ newSock # NoSock
  BY <1>1, ServerAssumption DEF SendersInv, SocketInv, SocketOwnership
<1>6. \A c : c \in SlotSockets' => c \in SlotSockets \/ c = newSock
  BY <1>3, <1>4 DEF SlotSockets
<1>7. clients'[i] # NULL
  BY <1>1, <1>3, ServerAssumption, DbAssumption
<1>8. SlotSockets \subseteq SlotSockets'
  BY <1>1, <1>3 DEF SlotSockets
<1>9. \A c \in Conns : outbox'[c] = outbox[c]
  BY <1>1, Delivered DEF SendersInv
<1>10. ~Heard(newSock)
  BY <1>1, <1>5 DEF SendersInv, Agreement, ServedOnly, OpenFds
<1>11. cpc[newSock] # "hello"
  BY <1>1 DEF SendersInv, Agreement, NewcomersWait
<1>12. ServedOnly' /\ NewcomersWait'
  BY <1>1, <1>3, <1>6, <1>8, <1>9, <1>11
     DEF SendersInv, Agreement, ServedOnly, Heard, NewcomersWait, SystemTypeOK, TypeOK, ServerTypeOK
<1>13. FlagStands(i)'
  <2>1. cpc'[newSock] \notin {"sending", "typing"} /\ outbox'[newSock] # "SENDING"
    BY <1>1, <1>9, <1>10 DEF Heard
  <2> QED
    BY <1>4, <2>1 DEF FlagStands, Engaged
<1>14. ASSUME NEW k \in Slots \ {i} PROVE FlagStands(k)'
  <2> SUFFICES ASSUME clients'[k] # NULL, clients'[k].socket \in Conns \ crossed',
                      Alone(k)', IdOf(k)' \in Slots, nextGroup' <= MaxClients,
                      Engaged(clients[k].socket)'
               PROVE  Sending(IdOf(k)', sendings') # {} /\ ~LeavesSending(LineOf(k)')
    BY <1>3 DEF FlagStands, Engaged
  <2>1. clients'[k] = clients[k] /\ clients[k].socket \in Conns \ crossed
    BY <1>3 DEF Onward
  <2>2. Alone(k)
    BY <1>1, <1>3 DEF Alone
  <2>3. Engaged(clients[k].socket)
    BY <1>9, <2>1 DEF Engaged
  <2>4. Sending(IdOf(k), sendings) # {} /\ ~LeavesSending(LineOf(k))
    BY <2>1, <2>2, <2>3 DEF Onward, SendersInv, Agreement, FlagStands, IdOf
  <2>5. LineOf(k)' \in {LineOf(k), Nothing}
    BY <1>1, <2>1 DEF LineOf, SendersInv, SystemTypeOK, TypeOK, ServerTypeOK
  <2> QED
    BY <1>1, <2>1, <2>4, <2>5 DEF IdOf, LeavesSending
<1> QED
  BY <1>12, <1>13, <1>14 DEF Agreement

\* A slot that loses its socket has nothing left to agree on.
LEMMA DisconnectAgrees ==
    ASSUME SendersInv, Deliver, Onward, cpc' = cpc,
           NEW i \in Slots, Disconnect(i)
    PROVE  Agreement'
<1> DEFINE s == clients[i].socket
<1>1. /\ clients[i] # NULL /\ s \in Conns /\ clients[i] \in Client
      /\ fd' = [fd EXCEPT ![s] = "closed"]
      /\ clients' = [clients EXCEPT ![i].socket = NoSock]
      /\ sendings' = sendings /\ inbox' = inbox /\ sent' = Silent
  BY DEF Disconnect, Current, memVars, SendersInv, SystemTypeOK, TypeOK, ServerTypeOK
<1>2. /\ clients'[i] = [clients[i] EXCEPT !.socket = NoSock]
      /\ \A j \in Slots \ {i} : clients'[j] = clients[j]
  BY <1>1 DEF SendersInv, SystemTypeOK, TypeOK, ServerTypeOK
<1>3. clients'[i].socket = NoSock /\ clients'[i].id = clients[i].id
  BY <1>1, <1>2 DEF Client
<1>4. \A c \in Conns : outbox'[c] = outbox[c]
  BY <1>1, Delivered DEF SendersInv
<1>5. \A c : c \in SlotSockets' => c \in SlotSockets
  BY <1>2, <1>3 DEF SlotSockets
<1>6. \A c : c \in SlotSockets => c \in SlotSockets' \/ c = s
  <2>1. \A c : c \in SlotSockets <=> c # NoSock /\
                 \E j \in Slots : clients[j] # NULL /\ clients[j].socket = c
    BY DEF SlotSockets
  <2>2. \A c : c \in SlotSockets' <=> c # NoSock /\
                 \E j \in Slots : clients'[j] # NULL /\ clients'[j].socket = c
    BY DEF SlotSockets
  <2> QED
    BY <1>2, <2>1, <2>2
<1>7. ServedOnly' /\ NewcomersWait'
  BY <1>1, <1>4, <1>5, <1>6
     DEF SendersInv, Agreement, ServedOnly, Heard, NewcomersWait, SystemTypeOK, TypeOK, ServerTypeOK
<1>8. FlagStands(i)'
  BY <1>3, ServerAssumption DEF FlagStands
<1>9. ASSUME NEW k \in Slots \ {i} PROVE FlagStands(k)'
  <2> SUFFICES ASSUME clients'[k] # NULL, clients'[k].socket \in Conns \ crossed',
                      Alone(k)', IdOf(k)' \in Slots, nextGroup' <= MaxClients,
                      Engaged(clients[k].socket)'
               PROVE  Sending(IdOf(k)', sendings') # {} /\ ~LeavesSending(LineOf(k)')
    BY <1>2 DEF FlagStands, Engaged
  <2>1. clients'[k] = clients[k] /\ clients[k].socket \in Conns \ crossed
    BY <1>2 DEF Onward
  <2>2. clients'[i] # NULL
    <3>1. [clients[i] EXCEPT !.socket = NoSock] \in [socket : Conns \cup {NoSock},
                                                     id : Nat, username : Words]
      BY <1>1, DbAssumption DEF Client
    <3> QED
      BY <1>2, <3>1, ServerAssumption
  <2>3. Alone(k)
    BY <1>2, <1>3, <2>2 DEF Alone
  <2> QED
    BY <1>1, <1>4, <2>1, <2>3
       DEF Onward, SendersInv, Agreement, FlagStands, IdOf, LineOf, Engaged
<1> QED
  BY <1>7, <1>8, <1>9 DEF Agreement

SendingReply == [kind |-> "reply", what |-> "SENDING"]

\* A handler that answers lets only slots hear from it, and SENDING only its
\* own client, for which it has just raised a flag; whoever lowers flags sends
\* nothing.
LEMMA HandlerSends ==
    ASSUME TypeOK, KeysAndReferences, NEW i \in Slots, Handler(i), ~Disconnect(i), ~Die
    PROVE  /\ clients' = clients /\ fd' = fd /\ Current(i) /\ clients[i].socket \in Conns
           /\ inbox' = [inbox EXCEPT ![clients[i].socket] = Nothing]
           /\ \A c \in Conns : sent'[c] # {} => c \in SlotSockets
           /\ \A c \in Conns : SendingReply \in sent'[c] =>
                /\ c = clients[i].socket
                /\ \E g \in GroupIds : g < nextGroup /\
                     sendings' = sendings \cup ({Cell(IdOf(i), g)} \cap Cells)
<1>1. PICK out, flags : Respond(i, out, flags) /\ Current(i)
  BY HandlerEnds DEF Handling
<1>2. clients[i] # NULL /\ clients[i].socket \in Conns
  BY <1>1 DEF Current, TypeOK, ServerTypeOK
<1>3. clients[i].socket \in SlotSockets
  BY <1>2, ServerAssumption DEF SlotSockets
<1>4. ASSUME NEW what, sent' = ReplyOut(i, what), NEW c \in Conns
      PROVE  sent'[c] # {} => c = clients[i].socket /\ sent'[c] = {[kind |-> "reply", what |-> what]}
  BY <1>4, <1>2 DEF ReplyOut, Silent
<1>5. /\ \A c \in Conns : sent'[c] # {} => c \in SlotSockets
      /\ \A c \in Conns : SendingReply \in sent'[c] =>
           /\ c = clients[i].socket
           /\ \E g \in GroupIds : g < nextGroup /\
                sendings' = sendings \cup ({Cell(IdOf(i), g)} \cap Cells)
  <2>1. CASE \/ CreateGroup(i) \/ JoinGroup(i) \/ AddMember(i)
             \/ RemoveMember(i) \/ LeaveGroup(i) \/ List(i)
    <3>1. \E what \in Replies \ {"SENDING"} : Reply(i, what)
      BY <2>1 DEF CreateGroup, JoinGroup, AddMember, RemoveMember, LeaveGroup, List,
             ListGroups, ListUsers, ListGroupMessages, Refuse, Replies
    <3>2. PICK what : what # "SENDING" /\ sent' = ReplyOut(i, what)
      BY <3>1 DEF Reply, Respond
    <3> QED
      BY <1>3, <1>4, <3>2 DEF SendingReply
  <2>2. CASE SendMode(i)
    <3>1. PICK name : \/ Reply(i, "group_not_found")
                      \/ \E g \in get_group_id(name) :
                           \/ Reply(i, "is_not_member")
                           \/ StrayWrite({Cell(IdOf(i), g)})
                           \/ Respond(i, ReplyOut(i, "SENDING"),
                                      sendings \cup ({Cell(IdOf(i), g)} \cap Cells))
      BY <2>2 DEF SendMode
    <3>2. \A g \in get_group_id(name) : g \in GroupIds /\ g < nextGroup
      BY GroupIdFound DEF TypeOK, KeysAndReferences, get_group_id
    <3>3. \/ \E what : what # "SENDING" /\ sent' = ReplyOut(i, what)
          \/ \E g \in GroupIds :
               /\ g < nextGroup /\ sent' = ReplyOut(i, "SENDING")
               /\ sendings' = sendings \cup ({Cell(IdOf(i), g)} \cap Cells)
      BY <3>1, <3>2 DEF Reply, Respond, StrayWrite
    <3> QED
      BY <1>3, <1>4, <3>3 DEF SendingReply
  <2>3. CASE Unknown(i)
    BY <2>3 DEF Unknown, Respond, Silent
  <2>4. CASE Message(i)
    <3>1. PICK text, junk : Relay(i, text, sendings \cup junk)
      BY <2>4 DEF Message
    <3>2. sent' \in {Silent, Broadcast(i, text, sendings \cup junk)}
      BY <3>1 DEF Relay, Respond, StrayWrite
    <3>3. \A c \in Conns : \A x \in sent'[c] : x.kind = "chat" /\ c \in SlotSockets
      BY <3>2, ServerAssumption DEF Silent, Broadcast, Reaches, SlotSockets
    <3>4. SendingReply.kind = "reply"
      BY DEF SendingReply
    <3> QED
      BY <3>3, <3>4
  <2> QED
    BY <2>1, <2>2, <2>3, <2>4 DEF Handler
<1> QED
  BY <1>1, <1>2, <1>5 DEF Respond

\* The handlers keep the agreement: SENDING goes out together with a flag, and
\* a flag is lowered for its own user's EXIT only.
LEMMA HandlersAgree ==
    ASSUME SendersInv, Deliver, Onward, cpc' = cpc,
           NEW i \in Slots, Handler(i), ~Disconnect(i), ~Die
    PROVE  Agreement'
<1> DEFINE s == clients[i].socket
<1>1. /\ clients' = clients /\ fd' = fd /\ Current(i) /\ s \in Conns
      /\ inbox' = [inbox EXCEPT ![s] = Nothing]
      /\ \A c \in Conns : sent'[c] # {} => c \in SlotSockets
      /\ \A c \in Conns : SendingReply \in sent'[c] =>
           /\ c = s
           /\ \E g \in GroupIds : g < nextGroup /\
                sendings' = sendings \cup ({Cell(IdOf(i), g)} \cap Cells)
  BY HandlerSends DEF SendersInv, SystemTypeOK, DbInv
<1>2. SlotSockets' = SlotSockets
  BY <1>1 DEF SlotSockets
<1>3. \A c \in Conns : outbox'[c] = outbox[c] \/ c \in SlotSockets
  BY <1>1, Delivered DEF SendersInv
<1>4. \A c \in Conns : inbox'[c] \in {inbox[c], Nothing} /\ inbox'[s] = Nothing
  BY <1>1 DEF SendersInv, SystemTypeOK, TypeOK, ServerTypeOK
<1>5. ServedOnly' /\ NewcomersWait'
  BY <1>1, <1>2, <1>3, <1>4
     DEF SendersInv, Agreement, ServedOnly, Heard, NewcomersWait
<1>6. ASSUME NEW k \in Slots PROVE FlagStands(k)'
  <2> DEFINE t == clients[k].socket
  <2> SUFFICES ASSUME clients[k] # NULL, t \in Conns \ crossed', Alone(k),
                      IdOf(k) \in Slots, nextGroup' <= MaxClients,
                      cpc[t] \in {"sending", "typing"} \/ outbox'[t] = "SENDING"
               PROVE  Sending(IdOf(k), sendings') # {} /\ ~LeavesSending(inbox'[t])
    BY <1>1 DEF FlagStands, Alone, IdOf, LineOf, Engaged, Sending
  <2>1. t \in Conns \ crossed /\ nextGroup <= MaxClients /\ IdOf(k) \in Nat
    BY ServerAssumption DEF Onward, Slots
  <2>2. CASE Engaged(t)
    <3>1. Sending(IdOf(k), sendings) # {} /\ ~LeavesSending(inbox[t])
      BY <2>1, <2>2 DEF SendersInv, Agreement, FlagStands, LineOf
    <3>2. ~LeavesSending(inbox'[t])
      BY <1>4, <2>1, <3>1 DEF LeavesSending
    <3>3. CASE sendings \subseteq sendings'
      BY <3>1, <3>2, <3>3 DEF Sending
    <3>4. ASSUME LeavesSending(LineOf(i)), NEW S \in SUBSET Slots,
                 sendings' = sendings \ {Cell(IdOf(i), j) : j \in S}
          PROVE  Sending(IdOf(k), sendings') # {}
      <4>1. k # i
        BY <3>1, <3>4 DEF LineOf
      <4>2. IdOf(i) # IdOf(k) /\ IdOf(i) \in Nat
        BY <1>1, <4>1, DbAssumption
           DEF Alone, IdOf, Current, SendersInv, SystemTypeOK, TypeOK, ServerTypeOK, Client
      <4>3. \A g \in Slots, j \in S : Cell(IdOf(k), g) # Cell(IdOf(i), j)
        BY <2>1, <4>2, CellsApart
      <4>4. PICK g \in Slots : Cell(IdOf(k), g) \in sendings
        BY <3>1 DEF Sending
      <4>5. Cell(IdOf(k), g) \in sendings'
        BY <3>4, <4>3, <4>4
      <4> QED
        BY <4>5 DEF Sending
    <3> QED
      BY <3>2, <3>3, <3>4, HandlerFlags DEF SendersInv, SystemTypeOK
  <2>3. CASE ~Engaged(t)
    <3>1. SendingReply \in sent'[t]
      BY <2>1, <2>3, Delivered DEF Engaged, SendersInv, SendingReply
    <3>2. PICK g \in GroupIds :
            t = s /\ g < nextGroup /\ sendings' = sendings \cup ({Cell(IdOf(i), g)} \cap Cells)
      BY <1>1, <2>1, <3>1
    <3>3. k = i
      BY <1>1, <3>2, ServerAssumption DEF Current, SendersInv, SocketInv, SocketOwnership
    <3>4. g < MaxClients
      BY <2>1, <3>2, DbAssumption, ServerAssumption
         DEF GroupIds, SendersInv, DbInv, DbTypeOK
    <3>5. g \in Slots /\ Cell(IdOf(k), g) \in sendings'
      BY <3>2, <3>3, <3>4, CellInside
    <3>6. inbox'[t] = Nothing
      BY <1>4, <2>1, <3>2
    <3> QED
      BY <3>5, <3>6 DEF Sending, LeavesSending
  <2> QED
    BY <2>2, <2>3
<1> QED
  BY <1>5, <1>6 DEF Agreement

\* No step of the server breaks the agreement.
LEMMA ServerAgrees ==
    ASSUME SendersInv, Onward, ServerStep
    PROVE  Agreement'
<1>1. Deliver /\ cpc' = cpc
  BY DEF ServerStep
<1>2. CASE Die
  BY <1>1, <1>2, DeathAgrees
<1>3. CASE Select \/ AcceptClient \/ AcceptWithoutSlot \/ Restart
  <2>1. /\ clients' = clients /\ sendings' = sendings /\ sent' = Silent /\ inbox' = inbox
    BY <1>3 DEF Select, AcceptClient, AcceptWithoutSlot, Restart, memVars, netVars
  <2>2. \A c \in Conns : fd[c] = "closed" => fd'[c] = "closed"
    <3>1. CASE Select \/ Restart
      BY <3>1 DEF Select, Restart, netVars
    <3>2. CASE AcceptClient \/ AcceptWithoutSlot
      <4>1. /\ acceptQ \in Seq(Conns) /\ acceptQ # <<>>
            /\ fd' = [fd EXCEPT ![Head(acceptQ)] = "open"]
        BY <3>2 DEF AcceptClient, AcceptWithoutSlot, SendersInv, SystemTypeOK, TypeOK,
                    ServerTypeOK
      <4>2. /\ Head(acceptQ) \in Conns /\ Head(acceptQ) = acceptQ[1]
            /\ 1 \in 1..Len(acceptQ)
        BY <4>1
      <4>3. fd[Head(acceptQ)] = "queued"
        BY <4>2 DEF SendersInv, SocketInv, AcceptQueueOK
      <4> QED
        BY <4>1, <4>2, <4>3 DEF SendersInv, SystemTypeOK, TypeOK, ServerTypeOK
    <3> QED
      BY <1>3, <3>1, <3>2
  <2> QED
    BY <1>1, <2>1, <2>2, QuietAgrees
<1>4. ASSUME NEW i \in Slots, RegisterInvalid(i) PROVE Agreement'
  <2>1. /\ clients' = clients /\ sendings' = sendings /\ sent' = Silent
        /\ inbox' = [inbox EXCEPT ![newSock] = Nothing]
        /\ fd' = [fd EXCEPT ![newSock] = "closed"]
    BY <1>4 DEF RegisterInvalid, EndRegistration
  <2>2. /\ \A c \in Conns : inbox'[c] \in {inbox[c], Nothing}
        /\ \A c \in Conns : fd[c] = "closed" => fd'[c] = "closed"
    BY <2>1 DEF SendersInv, SystemTypeOK, TypeOK, ServerTypeOK
  <2> QED
    BY <1>1, <2>1, <2>2, QuietAgrees
<1>5. ASSUME NEW i \in Slots, RegisterUser(i) \/ RegisterDuplicate(i) PROVE Agreement'
  BY <1>1, <1>5, RegistrationAgrees
<1>6. ASSUME NEW i \in Slots, Handler(i) PROVE Agreement'
  BY <1>1, <1>2, <1>6, DisconnectAgrees, HandlersAgree
<1>7. AcceptFails \/ Kill \/ (\E i \in Slots : CreateGroupCutShort(i)) => Die
  BY DEF AcceptFails, Kill, CreateGroupCutShort
<1> QED
  BY <1>2, <1>3, <1>4, <1>5, <1>6, <1>7 DEF ServerStep, Server, Crash, Register

\* No step undoes a crossing or gives a group id back.
LEMMA StepsGoOn ==
    ASSUME SendersInv, [SystemNext]_sysVars
    PROVE  DbInv' /\ Onward
<1>1. DbInv' /\ nextGroup' >= nextGroup
  BY SystemStep, DbInvServerStep DEF SendersInv, SystemTypeOK
<1>2. nextGroup \in Nat /\ nextGroup' \in Nat /\ MaxClients \in Nat
  BY <1>1, DbAssumption, ServerAssumption DEF SendersInv, DbInv, DbTypeOK
<1>3. crossed \subseteq crossed'
  BY DEF SystemNext, Recall, sysVars
<1> QED
  BY <1>1, <1>2, <1>3 DEF Onward

\* SendersInv is inductive.
LEMMA SendersStep == SendersInv /\ [SystemNext]_sysVars => SendersInv'
<1> SUFFICES ASSUME SendersInv, [SystemNext]_sysVars
             PROVE  SendersInv'
  OBVIOUS
<1>1. SystemTypeOK' /\ SocketInv' /\ DbInv' /\ Onward
  BY SystemTypeStep, SystemStep, SocketStep, StepsGoOn DEF SendersInv, SystemTypeOK
<1>2. CASE UNCHANGED sysVars
  <2>1. SlotSockets' = SlotSockets
    BY <1>2 DEF sysVars, vars, memVars, SlotSockets
  <2>2. Agreement'
    BY <1>2, <2>1
       DEF sysVars, vars, memVars, netVars, dbVars, SendersInv, Agreement, ServedOnly,
           Heard, NewcomersWait, FlagStands, Alone, IdOf, LineOf, Engaged, Sending
  <2> QED
    BY <1>1, <2>2 DEF SendersInv
<1> QED
  BY <1>1, <1>2, ServerAgrees, ClientsAgree DEF SendersInv, SystemNext

\* Nobody has heard anything in the beginning.
LEMMA SendersInit == SystemInit => SendersInv
<1> SUFFICES ASSUME SystemInit PROVE SendersInv
  OBVIOUS
<1>1. SystemTypeOK /\ SocketInv /\ DbInv
  BY TypeInit, SocketInit, DbInvStart DEF SystemInit, SystemTypeOK
<1>2. \A i \in Slots : clients[i] = NULL
  BY DEF SystemInit, Init
<1>3. SlotSockets = {}
  BY <1>2 DEF SlotSockets
<1>4. Agreement
  BY <1>2, <1>3 DEF SystemInit, Init, Agreement, ServedOnly, Heard, NewcomersWait, FlagStands
<1> QED
  BY <1>1, <1>4 DEF SendersInv

\* For any number of clients, slots and users, and however their steps and a
\* crash of the server interleave: a client that is in sending mode, or will be
\* once it has read its replies, has a flag raised at the server, unless its EXIT
\* has crossed a SENDING or a group id no longer fits into a row.
THEOREM SendersFlagged == SystemSpec => []SendersAreFlagged
<1>1. SendersInv => SendersAreFlagged
  BY DEF SendersInv, Agreement, FlagStands, Engaged, SendersAreFlagged
<1> QED
  BY <1>1, SendersInit, SendersStep, PTL DEF SystemSpec

\* What the server guarantees whatever its environment does, it guarantees in
\* this system: deliveries, flags and sockets.
THEOREM SystemInherits ==
    SystemSpec => []DeliveryDiscipline /\ SendingDiscipline /\ []SocketOwnership
  BY SystemImplementsServer, DeliveriesProtected, FlagsProtected, SocketsOwned, PTL
=============================================================================
