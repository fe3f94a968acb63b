---------------------------- MODULE ChatRoomProofs ----------------------------
(***************************************************************************)
(* As long as a new thread has read its argument before the next accept    *)
(* returns (NoOvertaking), every connection has one thread of its own, is  *)
(* in the list while it is in the room, and keeps its name; seen from      *)
(* outside the room is a Roster.                                           *)
(***************************************************************************)
EXTENDS ChatRoom, TLAPS

\* A connection nobody has accepted yet has neither descriptor nor thread.
Untouched(c) == /\ pc[c] = "none"
                /\ \A f \in Fds : fdTab[f] # c

\* What happens around accept, where newSock names the newest connection.
Handover ==
    /\ mainPc = "add" =>
         /\ newSock \in Fds /\ fdTab[newSock] \in Conns
         /\ pc[fdTab[newSock]] = "none"
         /\ AllStarted
    /\ \A t \in Conns : pc[t] = "start" =>
         /\ newSock \in Fds /\ fdTab[newSock] = t
         /\ \E i \in 1..Len(clients) : clients[i] = newSock
    /\ \A c \in Conns : peer[c] = "idle" => Untouched(c) /\ c \notin backlog
    /\ \A c \in backlog : Untouched(c)

Owners == OneThreadPerClient /\ Handover

IInv == RoomTypeOK /\ Owners /\ NobodyIsMissed /\ NamesStay

ThreadNext(t) == StartThread(t) \/ Thread(t)

-----------------------------------------------------------------------------
(* The initial states, and the end of the process. *)

\* The room starts without threads, sockets and names.
LEMMA InitOK == Init => IInv
  BY RoomAssumption
  DEF Init, IInv, RoomTypeOK, Owners, OneThreadPerClient, Handover, Untouched,
      NobodyIsMissed, NamesStay, Introduced, Busy, AllStarted

\* Nothing is left of the process after SIGPIPE.
LEMMA DieOK ==
  ASSUME IInv, Die, peer' \in [Conns -> {"idle", "connected", "up", "leaving",
                                         "gone", "reset"}],
         \A c \in Conns : peer'[c] = "idle" => peer[c] = "idle"
  PROVE  IInv'
  BY RoomAssumption
  DEF Die, IInv, RoomTypeOK, Owners, OneThreadPerClient, Handover, Untouched,
      NobodyIsMissed, NamesStay, Introduced, Busy, AllStarted

-----------------------------------------------------------------------------
(* Steps inside handle_client. *)

\* A busy thread that stays busy and in the list, keeps its socket and touches
\* neither the list nor the descriptors, disturbs nothing.
LEMMA InsideOK ==
  ASSUME IInv, NEW t \in Conns, Busy(t), pc[t] # "close",
         NEW to, to \notin {"none", "start", "done"},
         pc' = [pc EXCEPT ![t] = to],
         UNCHANGED <<mainVars, clients, sock, fdTab, backlog>>,
         \A c \in Conns : peer'[c] = "idle" => peer[c] = "idle",
         RoomTypeOK', NamesStay'
  PROVE  IInv'
<1> USE RoomAssumption DEF IInv, RoomTypeOK, Owners, Busy, mainVars
<1>1. OneThreadPerClient'
  BY DEF OneThreadPerClient, Handover
<1>2. Handover'
  BY DEF Handover, Untouched, AllStarted
<1>3. NobodyIsMissed'
  BY DEF NobodyIsMissed
<1> QED
  BY <1>1, <1>2, <1>3

\* The peers after a send.
LEMMA AfterSendsOK ==
  ASSUME RoomTypeOK, NEW out, peer' = AfterSends(out)
  PROVE  /\ peer' \in [Conns -> {"idle", "connected", "up", "leaving", "gone",
                                 "reset"}]
         /\ \A c \in Conns : peer'[c] = "idle" => peer[c] = "idle"
  BY DEF RoomTypeOK, AfterSends

\* A send that is not the thread's first nor its last step.
LEMMA SendOK ==
  ASSUME IInv, NEW t \in Conns, NEW from, NEW to, NEW out,
         Send(t, from, to, out),
         \/ from = "ask" /\ to = "hear"
         \/ from = "list" /\ to = "join"
         \/ from = "join" /\ to = "enter"
         \/ from = "leave" /\ to = "remove"
         \/ from = "say" /\ to = "enter"
         \/ from = "notify" /\ to = "enter"
  PROVE  IInv'
<1>1. RoomTypeOK
  BY DEF IInv
<1>2. /\ peer' \in [Conns -> {"idle", "connected", "up", "leaving", "gone",
                              "reset"}]
      /\ \A c \in Conns : peer'[c] = "idle" => peer[c] = "idle"
  BY <1>1, AfterSendsOK DEF Send
<1>3. CASE Die
  BY <1>2, <1>3, DieOK
<1>4. CASE ~Die
  <2> USE DEF Send, Goto, mainVars, listVars
  <2>1. /\ pc[t] = from /\ pc' = [pc EXCEPT ![t] = to]
        /\ UNCHANGED <<mainVars, listVars, sock, file, name, wanted, target,
                       fdTab, backlog, inbox>>
    BY <1>4
  <2>2. Busy(t) /\ pc[t] # "close" /\ to \notin {"none", "start", "done"}
    BY <2>1 DEF Busy
  <2>3. RoomTypeOK'
    BY <1>1, <1>2, <2>1 DEF RoomTypeOK
  <2>4. NamesStay'
    BY <1>1, <2>1 DEF NamesStay, Introduced, IInv, RoomTypeOK
  <2> QED
    BY <1>2, <2>1, <2>2, <2>3, <2>4, InsideOK
<1> QED
  BY <1>3, <1>4

\* Everything else a thread does between its first name and its leaving.
LEMMA ReceivingOK ==
  ASSUME IInv, NEW t \in Conns,
         \/ EnterRecv(t) \/ ReceiveName(t) \/ Receive(t) \/ ReceiveEnd(t)
         \/ FindTarget(t)
  PROVE  IInv'
<1> USE RoomAssumption
<1>1. RoomTypeOK
  BY DEF IInv
<1>2. UNCHANGED <<mainVars, clients, usernames, sock, fdTab, backlog, peer>>
  BY DEF EnterRecv, ReceiveName, Receive, ReceiveEnd, FindTarget, TakeLine,
         mainVars, listVars, netVars
<1>3. \E to : /\ to \in {"name", "recv", "save", "leave", "say", "lookup",
                         "remove", "notify"}
              /\ pc' = [pc EXCEPT ![t] = to]
  BY DEF EnterRecv, ReceiveName, Receive, ReceiveEnd, FindTarget, Goto
<1>4. pc[t] \in {"hear", "enter", "name", "recv", "lookup"}
  BY DEF EnterRecv, ReceiveName, Receive, ReceiveEnd, FindTarget, Goto
<1>5. RoomTypeOK'
  <2>1. CASE EnterRecv(t)
    BY <1>1, <2>1 DEF EnterRecv, Goto, FileOf, RoomTypeOK, mainVars, listVars, netVars
  <2>2. CASE ReceiveName(t)
    BY <1>1, <2>2 DEF ReceiveName, HasLine, TakeLine, Goto, RoomTypeOK, Line,
                      mainVars, listVars
  <2>3. CASE Receive(t)
    <3>1. inbox[file[t]] \in Line
      BY <1>1, <2>3 DEF Receive, HasLine, RoomTypeOK
    <3>2. wanted' \in [Conns -> Words]
      BY <1>1, <2>3, <3>1 DEF Receive, RoomTypeOK, Line
    <3>3. pc' = [pc EXCEPT ![t] = "leave"] \/ pc' = [pc EXCEPT ![t] = "say"]
            \/ pc' = [pc EXCEPT ![t] = "lookup"]
      BY <2>3 DEF Receive, Goto
    <3>4. /\ inbox' = [inbox EXCEPT ![file[t]] = Nothing]
          /\ file' = [file EXCEPT ![t] = NoConn]
          /\ UNCHANGED <<mainPc, newSock, clients, usernames, sock, name, target, fdTab,
                         backlog, peer>>
      BY <2>3 DEF Receive, TakeLine, mainVars, listVars
    <3>5. pc' \in [Conns -> {"none", "start", "ask", "hear", "name", "save", "list",
                                "join", "enter", "recv", "say", "lookup", "notify",
                                "leave", "remove", "close", "done"}]
      BY <1>1, <3>3 DEF RoomTypeOK
    <3>6. /\ inbox' \in [Conns -> Line \cup {Nothing}]
          /\ file' \in [Conns -> Conns \cup {NoConn}]
      BY <1>1, <3>4 DEF RoomTypeOK
    <3> QED
      BY <1>1, <3>2, <3>4, <3>5, <3>6 DEF RoomTypeOK
  <2>4. CASE ReceiveEnd(t)
    BY <1>1, <2>4 DEF ReceiveEnd, Goto, RoomTypeOK, mainVars, listVars, netVars
  <2>5. CASE FindTarget(t)
    <3>1. Named(wanted[t]) \subseteq Fds
      BY <1>1 DEF Named, RoomTypeOK
    <3>2. target' \in [Conns -> Fds \cup {NoSock}]
      BY <1>1, <2>5, <3>1 DEF FindTarget, RoomTypeOK
    <3>3. /\ pc' = [pc EXCEPT ![t] = "notify"] /\ wanted' = [wanted EXCEPT ![t] = NoName]
          /\ UNCHANGED <<mainPc, newSock, clients, usernames, sock, file, name, fdTab,
                         backlog, peer, inbox>>
      BY <2>5 DEF FindTarget, Goto, mainVars, listVars, netVars
    <3> QED
      BY <1>1, <3>2, <3>3 DEF RoomTypeOK
  <2> QED
    BY <2>1, <2>2, <2>3, <2>4, <2>5
<1>6. NamesStay'
  <2>1. \A u \in Conns : u # t => name'[u] = name[u]
    BY <1>1 DEF EnterRecv, ReceiveName, Receive, ReceiveEnd, FindTarget, RoomTypeOK
  <2>2. pc'[t] # "name" /\ pc'[t] # "save" => name'[t] = name[t]
    BY <1>1 DEF EnterRecv, ReceiveName, Receive, ReceiveEnd, FindTarget, Goto,
                RoomTypeOK
  <2>3. pc'[t] \in {"recv", "leave", "say", "lookup", "remove", "notify"}
          => pc[t] \in {"enter", "recv", "lookup"}
    BY <1>1 DEF EnterRecv, ReceiveName, Receive, ReceiveEnd, FindTarget, Goto,
                RoomTypeOK
  <2> QED
    BY <1>1, <1>2, <1>3, <2>1, <2>2, <2>3 DEF NamesStay, Introduced, IInv, RoomTypeOK
<1>7. PICK to \in {"name", "recv", "save", "leave", "say", "lookup", "remove",
                   "notify"} : pc' = [pc EXCEPT ![t] = to]
  BY <1>3
<1>8. /\ UNCHANGED <<mainVars, clients, sock, fdTab, backlog>>
      /\ \A c \in Conns : peer'[c] = "idle" => peer[c] = "idle"
  BY <1>2 DEF mainVars
<1> QED
  BY <1>4, <1>5, <1>6, <1>7, <1>8, InsideOK DEF Busy

\* Only the thread that owns a descriptor writes the name behind it.
LEMMA SaveNameOK ==
  ASSUME IInv, NEW t \in Conns, SaveName(t)
  PROVE  IInv'
<1> USE RoomAssumption DEF SaveName, Goto
<1>1. RoomTypeOK'
  BY DEF IInv, RoomTypeOK, mainVars, listVars, netVars
<1>2. \A u \in Conns : Busy(u) /\ u # t => sock[u] # sock[t]
  BY DEF IInv, Owners, OneThreadPerClient, Busy
<1>3. NamesStay'
  BY <1>2 DEF IInv, Owners, OneThreadPerClient, NamesStay, Introduced, RoomTypeOK, Busy
<1> QED
  BY <1>1, <1>3, InsideOK DEF Busy, mainVars, netVars

-----------------------------------------------------------------------------
(* Where threads begin and end. *)

\* The thread made last reads the address of newSock while main is away from
\* accept, so it finds the socket of its own connection.
LEMMA StartOK ==
  ASSUME IInv, NEW t \in Conns, StartThread(t)
  PROVE  IInv'
<1> USE RoomAssumption DEF StartThread, Goto, IInv, RoomTypeOK, mainVars,
                           listVars, netVars
<1>1. newSock \in Fds /\ fdTab[newSock] = t
  BY DEF Owners, Handover
<1>2. RoomTypeOK'
  BY <1>1
<1>3. OneThreadPerClient'
  BY <1>1 DEF Owners, OneThreadPerClient, Busy
<1>4. Handover'
  BY <1>1 DEF Owners, Handover, Untouched, AllStarted
<1>5. NobodyIsMissed'
  BY <1>1 DEF Owners, Handover, NobodyIsMissed, Busy
<1>6. NamesStay'
  BY DEF NamesStay, Introduced
<1> QED
  BY <1>2, <1>3, <1>4, <1>5, <1>6 DEF Owners

\* A thread that closes its socket takes no other connection's descriptor away.
LEMMA CloseOK ==
  ASSUME IInv, NEW t \in Conns, NameMissing(t) \/ CloseSocket(t)
  PROVE  IInv'
<1> USE RoomAssumption DEF IInv
<1>1. /\ pc[t] \in {"name", "close"}
      /\ pc' = [pc EXCEPT ![t] = "done"]
      /\ sock' = [sock EXCEPT ![t] = NoSock]
      /\ fdTab' = [f \in Fds |-> IF f = sock[t] THEN NoConn ELSE fdTab[f]]
      /\ \A u \in Conns : u # t => name'[u] = name[u]
      /\ UNCHANGED <<mainVars, clients, usernames, backlog, peer>>
  BY DEF NameMissing, CloseSocket, Goto, listVars, RoomTypeOK
<1>2. RoomTypeOK'
  <2>1. CASE NameMissing(t)
    BY <2>1 DEF NameMissing, Goto, RoomTypeOK, mainVars, listVars
  <2>2. CASE CloseSocket(t)
    BY <2>2 DEF CloseSocket, Goto, RoomTypeOK, mainVars, listVars
  <2> QED
    BY <2>1, <2>2
<1>3. /\ sock[t] \in Fds /\ fdTab[sock[t]] = t
      /\ \A u \in Conns : Busy(u) /\ u # t => sock[u] # sock[t]
  BY <1>1 DEF Owners, OneThreadPerClient, Busy
<1>4. \A f \in Fds : fdTab[f] = t => f = sock[t]
  BY <1>1, <1>3 DEF Owners, OneThreadPerClient, Handover, Busy, RoomTypeOK
<1>5. OneThreadPerClient'
  BY <1>1, <1>3, <1>4 DEF Owners, OneThreadPerClient, Busy, RoomTypeOK, mainVars
<1>6. Handover'
  <2>1. mainPc = "add" => fdTab[newSock] # t
    BY <1>1 DEF Owners, Handover
  <2>2. \A u \in Conns : pc[u] = "start" => u # t
    BY <1>1
  <2> QED
    BY <1>1, <1>3, <2>1, <2>2
    DEF Owners, Handover, Untouched, AllStarted, RoomTypeOK, mainVars
<1>7. NobodyIsMissed'
  BY <1>1 DEF NobodyIsMissed, Busy, RoomTypeOK
<1>8. NamesStay'
  BY <1>1 DEF NamesStay, Introduced, RoomTypeOK
<1> QED
  BY <1>2, <1>5, <1>6, <1>7, <1>8 DEF Owners

\* What the shift keeps: every element but the first that equals f.
LEMMA WithoutKeeps ==
  ASSUME clients \in Seq(Fds), NEW i \in 1..Len(clients)
  PROVE  /\ Without(i) \in Seq(Fds)
         /\ \A g \in Fds : g # clients[i] /\ (\E k \in 1..Len(clients) : clients[k] = g)
              => \E k \in 1..Len(Without(i)) : Without(i)[k] = g
<1> DEFINE n == Len(clients) - 1
<1>1. n \in Nat /\ Len(clients) = n + 1
  OBVIOUS
<1>2. Without(i) = [j \in 1..n |-> clients[IF j < i THEN j ELSE j + 1]]
  BY DEF Without
<1>3. \A j \in 1..n : (IF j < i THEN j ELSE j + 1) \in 1..Len(clients)
  BY <1>1
<1>4. Without(i) \in [1..n -> Fds]
  BY <1>2, <1>3
<1>5. Without(i) \in Seq(Fds) /\ Len(Without(i)) = n
  <2> DEFINE s == [j \in 1..n |-> clients[IF j < i THEN j ELSE j + 1]]
  <2>1. \A j \in 1..n : clients[IF j < i THEN j ELSE j + 1] \in Fds
    BY <1>1, <1>3
  <2>2. s \in Seq(Fds) /\ Len(s) = n
    BY <1>1, <2>1
  <2> QED
    BY <1>2, <2>2
<1>6. ASSUME NEW k \in 1..Len(clients), clients[k] # clients[i]
      PROVE  \E j \in 1..n : Without(i)[j] = clients[k]
  <2>1. CASE k < i
    <3>1. k \in 1..n
      BY <1>1, <2>1
    <3> QED
      BY <1>2, <2>1, <3>1
  <2>2. CASE k > i
    <3>1. k - 1 \in 1..n /\ ~(k - 1 < i) /\ k - 1 + 1 = k
      BY <1>1, <2>2
    <3> QED
      BY <1>2, <3>1
  <2> QED
    BY <1>6, <2>1, <2>2
<1> QED
  BY <1>5, <1>6

\* Taking a socket out of the list leaves those of the others in it.
LEMMA RemoveOK ==
  ASSUME IInv, NEW t \in Conns, remove_client(t)
  PROVE  IInv'
<1> USE RoomAssumption DEF IInv
<1>1. /\ pc[t] = "remove" /\ pc' = [pc EXCEPT ![t] = "close"]
      /\ UNCHANGED <<mainVars, usernames, sock, file, name, wanted, target, netVars>>
  BY DEF remove_client, Goto
<1>2. \/ \E i \in 1..Len(clients) : clients[i] = sock[t] /\ clients' = Without(i)
      \/ clients' = clients
  BY DEF remove_client, FirstAt
<1>3. clients \in Seq(Fds)
  BY DEF RoomTypeOK
<1>4. /\ clients' \in Seq(Fds)
      /\ \A g \in Fds : g # sock[t] /\ (\E k \in 1..Len(clients) : clients[k] = g)
           => \E k \in 1..Len(clients') : clients'[k] = g
  <2>1. CASE clients' = clients
    BY <1>3, <2>1
  <2>2. CASE \E i \in 1..Len(clients) : clients[i] = sock[t] /\ clients' = Without(i)
    <3>1. PICK i \in 1..Len(clients) : clients[i] = sock[t] /\ clients' = Without(i)
      BY <2>2
    <3> QED
      BY <1>3, <3>1, WithoutKeeps
  <2> QED
    BY <1>2, <2>1, <2>2
<1>5. RoomTypeOK'
  BY <1>1, <1>4 DEF RoomTypeOK, mainVars, netVars
<1>6. \A u \in Conns : Busy(u) /\ u # t => sock[u] \in Fds /\ sock[u] # sock[t]
  BY <1>1 DEF Owners, OneThreadPerClient, Busy
<1>7. OneThreadPerClient'
  BY <1>1 DEF Owners, OneThreadPerClient, Busy, RoomTypeOK, mainVars, netVars
<1>8. Handover'
  <2>1. \A u \in Conns : pc[u] = "start" => newSock # sock[t]
    BY <1>1 DEF Owners, Handover, OneThreadPerClient, Busy
  <2> QED
    BY <1>1, <1>4, <2>1
    DEF Owners, Handover, Untouched, AllStarted, RoomTypeOK, mainVars, netVars
<1>9. NobodyIsMissed'
  BY <1>1, <1>4, <1>6 DEF NobodyIsMissed, Busy, RoomTypeOK
<1>10. NamesStay'
  BY <1>1 DEF NamesStay, Introduced, RoomTypeOK
<1> QED
  BY <1>5, <1>7, <1>8, <1>9, <1>10 DEF Owners

-----------------------------------------------------------------------------
(* Clients and main. *)

\* Clients only add to what waits to be accepted or received.
LEMMA EnvironmentOK ==
  ASSUME IInv, Environment
  PROVE  IInv'
<1> USE RoomAssumption DEF IInv
<1>1. PICK c \in Conns : \/ Connect(c) \/ HangUp(c)
                         \/ \E w \in Typed : SayName(c, w)
                         \/ \E line \in Chats : Say(c, line)
  BY DEF Environment
<1>2. UNCHANGED <<mainVars, listVars, threadVars, fdTab>>
  BY <1>1 DEF Connect, HangUp, SayName, Say
<1>3. /\ \A d \in Conns : peer'[d] = "idle"
             => peer[d] = "idle" /\ (d \in backlog' => d \in backlog)
      /\ backlog' \subseteq Conns
      /\ \A d \in backlog' : d \in backlog \/ peer[d] = "idle"
      /\ peer' \in [Conns -> {"idle", "connected", "up", "leaving", "gone", "reset"}]
  <2>0. RoomTypeOK
    OBVIOUS
  <2> HIDE DEF IInv
  <2>1. CASE Connect(c)
    BY <2>0, <2>1 DEF Connect, RoomTypeOK
  <2>2. CASE HangUp(c)
    BY <2>0, <2>2 DEF HangUp, RoomTypeOK
  <2>3. CASE \E w \in Typed : SayName(c, w)
    BY <2>0, <2>3 DEF SayName, RoomTypeOK
  <2>4. CASE \E line \in Chats : Say(c, line)
    <3>1. peer' = peer \/ peer' = [peer EXCEPT ![c] = "leaving"]
      BY <2>4 DEF Say
    <3>2. backlog' = backlog /\ peer[c] = "up"
      BY <2>4 DEF Say
    <3> QED
      BY <2>0, <3>1, <3>2 DEF RoomTypeOK
  <2> QED
    BY <1>1, <2>1, <2>2, <2>3, <2>4
<1>4. inbox' \in [Conns -> Line \cup {Nothing}]
  <2>1. ASSUME NEW line \in Line, Arrive(c, line)
        PROVE  inbox' \in [Conns -> Line \cup {Nothing}]
    <3>1. CASE inbox[c] = Nothing
      BY <2>1, <3>1 DEF Arrive, RoomTypeOK
    <3>2. CASE inbox[c] # Nothing
      <4>1. Glue(inbox[c]) \in Line
        BY <3>2 DEF Glue, Line, RoomTypeOK
      <4> QED
        BY <2>1, <3>2, <4>1 DEF Arrive, RoomTypeOK
    <3> QED
      BY <3>1, <3>2
  <2>2. CASE \E w \in Typed : SayName(c, w)
    BY <2>1, <2>2 DEF SayName, RoomTypeOK, Line
  <2>3. CASE \E line \in Chats : Say(c, line)
    BY <2>1, <2>3 DEF Say
  <2> QED
    BY <1>1, <2>2, <2>3 DEF Connect, HangUp, RoomTypeOK
<1>5. RoomTypeOK'
  BY <1>2, <1>3, <1>4 DEF RoomTypeOK, mainVars, listVars, threadVars
<1>6. Owners'
  BY <1>2, <1>3
  DEF Owners, OneThreadPerClient, Handover, Untouched, Busy, AllStarted,
      mainVars, listVars, threadVars
<1>7. NobodyIsMissed' /\ NamesStay'
  BY <1>2 DEF NobodyIsMissed, NamesStay, Introduced, Busy, mainVars, listVars, threadVars
<1> QED
  BY <1>5, <1>6, <1>7

\* A new connection gets a descriptor that names no other, and newSock is free
\* to change because no thread has still to read it.
LEMMA AcceptOK ==
  ASSUME IInv, AllStarted, AcceptOne
  PROVE  IInv'
<1> USE RoomAssumption DEF IInv
<1>1. ASSUME AcceptFails
      PROVE  IInv'
  BY <1>1
  DEF AcceptFails, AllStarted, RoomTypeOK, Owners, OneThreadPerClient, Handover,
      Untouched, NobodyIsMissed, NamesStay, Introduced, Busy, listVars, threadVars, netVars
<1>2. ASSUME NEW c \in Conns, NEW f \in Fds, Accept(c, f)
      PROVE  IInv'
  <2> USE <1>2 DEF Accept, LowestFree, listVars, threadVars
  <2>1. RoomTypeOK'
    BY DEF RoomTypeOK
  <2>2. pc[c] = "none" /\ \A g \in Fds : fdTab[g] # c
    BY DEF Owners, Handover, Untouched
  <2>3. fdTab' = [fdTab EXCEPT ![f] = c] /\ fdTab[f] = NoConn
    OBVIOUS
  <2>4. OneThreadPerClient'
    BY <2>2, <2>3 DEF Owners, OneThreadPerClient, Busy, AllStarted, RoomTypeOK
  <2>5. Handover'
    BY <2>2, <2>3 DEF Owners, Handover, Untouched, AllStarted, RoomTypeOK
  <2>6. NobodyIsMissed' /\ NamesStay'
    BY DEF NobodyIsMissed, NamesStay, Introduced, Busy
  <2> QED
    BY <2>1, <2>4, <2>5, <2>6 DEF Owners
<1> QED
  BY <1>1, <1>2 DEF AcceptOne

\* The client is in the list before its thread exists.
LEMMA AddOK ==
  ASSUME IInv, AddClient
  PROVE  IInv'
<1> USE RoomAssumption DEF IInv, AddClient, netVars
<1>1. /\ newSock \in Fds /\ fdTab[newSock] \in Conns /\ AllStarted
      /\ pc[fdTab[newSock]] = "none"
  BY DEF Owners, Handover
<1>2. /\ clients \in Seq(Fds) /\ clients' = Append(clients, newSock)
      /\ Len(clients') = Len(clients) + 1
      /\ clients'[Len(clients) + 1] = newSock
      /\ \A i \in 1..Len(clients) : i \in 1..Len(clients') /\ clients'[i] = clients[i]
  BY <1>1 DEF RoomTypeOK
<1>3. RoomTypeOK'
  BY <1>1, <1>2 DEF RoomTypeOK
<1>4. OneThreadPerClient'
  BY <1>1 DEF Owners, OneThreadPerClient, Busy, RoomTypeOK
<1>5. Handover'
  <2>1. Len(clients) + 1 \in 1..Len(clients')
    BY <1>2
  <2> QED
    BY <1>1, <1>2, <2>1 DEF Owners, Handover, Untouched, AllStarted, RoomTypeOK
<1>6. NobodyIsMissed'
  BY <1>1, <1>2 DEF NobodyIsMissed, Busy, RoomTypeOK
<1>7. NamesStay'
  BY <1>1 DEF NamesStay, Introduced, RoomTypeOK
<1> QED
  BY <1>3, <1>4, <1>5, <1>6, <1>7 DEF Owners

-----------------------------------------------------------------------------
(* The room. *)

\* IInv is inductive.
LEMMA RoomStep == IInv /\ [PromptNext]_vars => IInv'
<1> SUFFICES ASSUME IInv, [PromptNext]_vars
             PROVE  IInv'
  OBVIOUS
<1>1. CASE Environment
  BY <1>1, EnvironmentOK
<1>2. CASE AddClient
  BY <1>2, AddOK
<1>3. CASE AllStarted /\ AcceptOne
  BY <1>3, AcceptOK
<1>4. ASSUME NEW t \in Conns, StartThread(t) \/ Thread(t)
      PROVE  IInv'
  <2>1. CASE StartThread(t)
    BY <2>1, StartOK
  <2>2. CASE AskName(t)
    BY <2>2, SendOK DEF AskName
  <2>3. CASE send_user_list(t)
    BY <2>3, SendOK DEF send_user_list
  <2>4. CASE AnnounceJoin(t)
    BY <2>4, SendOK DEF AnnounceJoin
  <2>5. CASE SayToAll(t)
    BY <2>5, SendOK DEF SayToAll
  <2>6. CASE Notify(t)
    BY <2>6, SendOK DEF Notify
  <2>7. CASE AnnounceLeave(t)
    BY <2>7, SendOK DEF AnnounceLeave
  <2>8. CASE EnterRecv(t) \/ ReceiveName(t) \/ Receive(t) \/ ReceiveEnd(t) \/ FindTarget(t)
    BY <2>8, ReceivingOK
  <2>9. CASE SaveName(t)
    BY <2>9, SaveNameOK
  <2>10. CASE NameMissing(t) \/ CloseSocket(t)
    BY <2>10, CloseOK
  <2>11. CASE remove_client(t)
    BY <2>11, RemoveOK
  <2> QED
    BY <1>4, <2>1, <2>2, <2>3, <2>4, <2>5, <2>6, <2>7, <2>8, <2>9, <2>10, <2>11
    DEF Thread
<1>5. CASE UNCHANGED vars
  BY <1>5
  DEF vars, mainVars, listVars, threadVars, netVars, IInv, RoomTypeOK, Owners,
      OneThreadPerClient, Handover, Untouched, NobodyIsMissed, NamesStay, Introduced, Busy,
      AllStarted
<1> QED
  BY <1>1, <1>2, <1>3, <1>4, <1>5 DEF PromptNext

\* The race of server.c:58 and 79: accept returns, into new_client_socket, while
\* the thread created last has not read its own socket there yet.
Overtaking == ~AllStarted /\ AcceptOne
NoOvertaking == [][~Overtaking]_vars

\* PromptSpec is the server as it runs when that does not happen.
LEMMA PromptIsNoOvertaking == Spec /\ NoOvertaking => PromptSpec
<1>1. [Next]_vars /\ [~Overtaking]_vars => [PromptNext]_vars
  BY DEF Next, PromptNext, Overtaking
<1> QED
  BY <1>1, PTL DEF Spec, NoOvertaking, PromptSpec

\* Then IInv holds throughout.
LEMMA PromptInv == Spec /\ NoOvertaking => []IInv
  BY PromptIsNoOvertaking, InitOK, RoomStep, PTL DEF PromptSpec

\* The shared list, the names and the threads' stacks keep their types, however
\* many clients come (server.c:13-15, 78-82), as long as no accept overtakes a
\* thread.
THEOREM RoomTypes == Spec /\ NoOvertaking => []RoomTypeOK
<1>1. IInv => RoomTypeOK
  BY DEF IInv
<1> QED
  BY <1>1, PromptInv, PTL

\* The race is the only one in which threads can come to share a connection: as
\* long as no accept returns before the thread created last has read its socket,
\* no thread works on the connection of another, so none reads, removes or
\* closes it (server.c:58-79, 177-191).  RoomRace shows that it has to be
\* excluded.
THEOREM ThreadsOwnTheirSockets == Spec /\ NoOvertaking => []OneThreadPerClient
<1>1. IInv => OneThreadPerClient
  BY DEF IInv, Owners
<1> QED
  BY <1>1, PromptInv, PTL

\* Every message to all reaches everyone whose thread is in the room, whatever
\* entries of former clients the list has kept (server.c:152-158, 177-191), as
\* long as no accept overtakes a thread.
THEOREM EverybodyHears == Spec /\ NoOvertaking => []NobodyIsMissed
<1>1. IInv => NobodyIsMissed
  BY DEF IInv
<1> QED
  BY <1>1, PromptInv, PTL

\* Coming and going does not mix up the names (server.c:95, 181-184), as long as
\* no accept overtakes a thread.
THEOREM NamesAreStable == Spec /\ NoOvertaking => []NamesStay
<1>1. IInv => NamesStay
  BY DEF IInv
<1> QED
  BY <1>1, PromptInv, PTL

-----------------------------------------------------------------------------
(* The roster. *)

\* A thread waits on the connection it serves, and takes its client out of the
\* room only after that has said so or is gone.
Willing ==
    /\ \A t \in Conns : pc[t] \in {"leave", "remove", "close"} => t \in Going
    /\ \A c \in Conns : inbox[c] # Nothing /\ inbox[c].op = "exit" => c \in Going
    /\ \A t \in Conns : pc[t] \in {"name", "recv"} => file[t] = t

\* When the process is gone so are its threads.
Ended == mainPc = "down" => \A t \in Conns : pc[t] \in {"none", "done"}

RosterInv == IInv /\ Willing /\ Ended

\* Nobody is going, and no thread waits.
LEMMA InitRoster == Init => RosterInv
  BY InitOK, RoomAssumption DEF Init, RosterInv, Willing, Ended

\* Nobody comes back, and a send only turns those who are gone into reset ones.
LEMMA SendGoing ==
  ASSUME RoomTypeOK, NEW out, peer' = AfterSends(out)
  PROVE  Going' = Going
  BY DEF RoomTypeOK, AfterSends, Going

\* A client goes once, and takes nobody along.
LEMMA EnvironmentGoing ==
  ASSUME IInv, NEW c \in Conns,
         \/ Connect(c) \/ HangUp(c)
         \/ \E w \in Typed : SayName(c, w)
         \/ \E line \in Chats : Say(c, line)
  PROVE  Going' = Going \/ (c \notin Going /\ Going' = Going \cup {c})
<1> USE DEF IInv, RoomTypeOK, Going
<1>1. CASE Connect(c)
  BY <1>1 DEF Connect
<1>2. CASE HangUp(c)
  BY <1>2 DEF HangUp
<1>3. CASE \E w \in Typed : SayName(c, w)
  BY <1>3 DEF SayName
<1>4. CASE \E line \in Chats : Say(c, line)
  <2>1. peer' = peer \/ peer' = [peer EXCEPT ![c] = "leaving"]
    BY <1>4 DEF Say
  <2> QED
    BY <2>1
<1> QED
  BY <1>1, <1>2, <1>3, <1>4

\* Only /exit, said by a client that leaves, is read as /exit.
LEMMA EnvironmentWilling ==
  ASSUME RosterInv, Environment
  PROVE  Willing'
<1> USE RoomAssumption
<1>1. PICK c \in Conns : \/ Connect(c) \/ HangUp(c)
                         \/ \E w \in Typed : SayName(c, w)
                         \/ \E line \in Chats : Say(c, line)
  BY DEF Environment
<1>2. UNCHANGED <<pc, file>> /\ Going \subseteq Going'
  <2>1. UNCHANGED <<pc, file>>
    BY <1>1 DEF Connect, HangUp, SayName, Say, threadVars
  <2> QED
    BY <1>1, <2>1, EnvironmentGoing DEF RosterInv
<1>3. ASSUME NEW line \in Line, Arrive(c, line), line.op = "exit" => c \in Going'
      PROVE  \A d \in Conns : inbox'[d] # Nothing /\ inbox'[d].op = "exit" => d \in Going'
  <2>1. inbox \in [Conns -> Line \cup {Nothing}]
    BY DEF RosterInv, IInv, RoomTypeOK
  <2>2. inbox[c] # Nothing => Glue(inbox[c]).op # "exit"
    <3>1. CASE inbox[c].op \in {"name", "/chat"}
      BY <2>1, <3>1 DEF Glue, Line
    <3>2. CASE inbox[c].op \notin {"name", "/chat"}
      BY <2>1, <3>2 DEF Glue, Line
    <3> QED
      BY <3>1, <3>2
  <2>3. inbox' = [inbox EXCEPT ![c] = IF inbox[c] = Nothing THEN line ELSE Glue(inbox[c])]
    BY <1>3 DEF Arrive
  <2> QED
    BY <1>2, <1>3, <2>1, <2>2, <2>3 DEF RosterInv, Willing
<1>4. \A d \in Conns : inbox'[d] # Nothing /\ inbox'[d].op = "exit" => d \in Going'
  <2>1. CASE inbox' = inbox
    BY <1>2, <2>1 DEF RosterInv, Willing
  <2>2. ASSUME NEW w \in Typed, SayName(c, w), inbox' # inbox
        PROVE  \E line \in Line : Arrive(c, line) /\ line.op # "exit"
    BY <2>2 DEF SayName, Line
  <2>3. ASSUME NEW line \in Chats, Say(c, line)
        PROVE  line \in Line /\ Arrive(c, line) /\ (line.op = "exit" => c \in Going')
    <3>1. line.op = "exit" => peer' = [peer EXCEPT ![c] = "leaving"]
      BY <2>3 DEF Say
    <3> QED
      BY <2>3, <3>1 DEF Say, Going, RosterInv, IInv, RoomTypeOK
  <2>4. CASE Connect(c) \/ HangUp(c)
    BY <2>1, <2>4 DEF Connect, HangUp
  <2> QED
    BY <1>1, <1>3, <2>1, <2>2, <2>3, <2>4
<1> QED
  BY <1>2, <1>4 DEF RosterInv, Willing

\* A thread that goes to a place from which nobody is taken out.
LEMMA StayWilling ==
  ASSUME RosterInv, NEW t \in Conns, NEW to,
         to \notin {"name", "recv"}, to \in {"leave", "remove", "close"} => t \in Going,
         pc' = [pc EXCEPT ![t] = to], \A u \in Conns : u # t => file'[u] = file[u],
         Going' = Going,
         \A c \in Conns : inbox'[c] = inbox[c] \/ inbox'[c] = Nothing
  PROVE  Willing'
  BY DEF RosterInv, IInv, RoomTypeOK, Willing

\* The end of the process ends every thread.
LEMMA DieWilling ==
  ASSUME RosterInv, Die
  PROVE  Willing'
  BY DEF Die, RosterInv, IInv, RoomTypeOK, Willing

\* After its farewell a thread takes its client out, after other sends it goes on.
LEMMA SendWilling ==
  ASSUME RosterInv, NEW t \in Conns, NEW from, NEW to, NEW out,
         Send(t, from, to, out),
         from \in {"ask", "list", "join", "leave", "say", "notify"},
         to \in {"hear", "join", "enter", "remove"},
         to = "remove" => from = "leave"
  PROVE  Willing'
<1>1. CASE Die
  BY <1>1, DieWilling
<1>2. CASE ~Die
  <2>1. /\ pc[t] = from /\ pc' = [pc EXCEPT ![t] = to]
        /\ UNCHANGED <<file, inbox>>
    BY <1>2 DEF Send, Goto
  <2>2. Going' = Going
    BY SendGoing DEF Send, RosterInv, IInv
  <2>3. to \in {"leave", "remove", "close"} => t \in Going
    BY <2>1 DEF RosterInv, Willing
  <2> QED
    BY <2>1, <2>2, <2>3, StayWilling
<1> QED
  BY <1>1, <1>2

\* A thread leaves on /exit or at the end of its client's stream, not otherwise.
LEMMA ThreadWilling ==
  ASSUME RosterInv, NEW t \in Conns, StartThread(t) \/ Thread(t)
  PROVE  Willing'
<1> USE RoomAssumption
<1>0. /\ RoomTypeOK /\ Willing
      /\ pc[t] \in {"hear", "enter"} => sock[t] \in Fds /\ fdTab[sock[t]] = t
      /\ AtEnd(t) /\ file[t] = t => t \in Going
  BY DEF RosterInv, IInv, Owners, OneThreadPerClient, Busy, AtEnd, Going
<1>1. CASE AskName(t)
  BY <1>1, SendWilling DEF AskName
<1>2. CASE send_user_list(t)
  BY <1>2, SendWilling DEF send_user_list
<1>3. CASE AnnounceJoin(t)
  BY <1>3, SendWilling DEF AnnounceJoin
<1>4. CASE SayToAll(t)
  BY <1>4, SendWilling DEF SayToAll
<1>5. CASE Notify(t)
  BY <1>5, SendWilling DEF Notify
<1>6. CASE AnnounceLeave(t)
  BY <1>6, SendWilling DEF AnnounceLeave
<1>7. CASE EnterRecv(t)
  <2>1. file' = [file EXCEPT ![t] = t]
    BY <1>0, <1>7 DEF EnterRecv, Goto, FileOf
  <2>2. pc' = [pc EXCEPT ![t] = "name"] \/ pc' = [pc EXCEPT ![t] = "recv"]
    BY <1>7 DEF EnterRecv, Goto
  <2>3. UNCHANGED <<peer, inbox>>
    BY <1>7 DEF EnterRecv, netVars
  <2> QED
    BY <1>0, <2>1, <2>2, <2>3 DEF Willing, Going, RoomTypeOK
<1>8. CASE NameMissing(t)
  BY <1>0, <1>8, StayWilling DEF NameMissing, Goto, Going, RoomTypeOK
<1>9. CASE ReceiveName(t)
  <2>1. /\ pc' = [pc EXCEPT ![t] = "save"] /\ UNCHANGED peer
        /\ inbox' = [inbox EXCEPT ![file[t]] = Nothing]
        /\ file' = [file EXCEPT ![t] = NoConn]
    BY <1>9 DEF ReceiveName, Goto, TakeLine
  <2> QED
    BY <1>0, <2>1, StayWilling DEF Going, RoomTypeOK
<1>10. CASE Receive(t)
  <2>1. /\ pc[t] = "recv" /\ UNCHANGED peer
        /\ inbox' = [inbox EXCEPT ![file[t]] = Nothing]
        /\ file' = [file EXCEPT ![t] = NoConn]
        /\ \/ inbox[file[t]].op = "exit" /\ pc' = [pc EXCEPT ![t] = "leave"]
           \/ pc' = [pc EXCEPT ![t] = "say"]
           \/ pc' = [pc EXCEPT ![t] = "lookup"]
    BY <1>10 DEF Receive, Goto, TakeLine
  <2>2. inbox[file[t]] # Nothing
    BY <1>10 DEF Receive, HasLine
  <2>3. inbox[file[t]].op = "exit" => t \in Going
    BY <1>0, <2>1, <2>2 DEF Willing
  <2>4. \A c \in Conns : inbox'[c] = inbox[c] \/ inbox'[c] = Nothing
    BY <1>0, <2>1 DEF RoomTypeOK
  <2>5. \A u \in Conns : u # t => file'[u] = file[u]
    BY <1>0, <2>1 DEF RoomTypeOK
  <2>6. Going' = Going
    BY <2>1 DEF Going
  <2> QED
    BY <2>1, <2>3, <2>4, <2>5, <2>6, StayWilling
<1>11. CASE ReceiveEnd(t)
  <2>1. t \in Going
    BY <1>0, <1>11 DEF ReceiveEnd, Goto, Willing
  <2> QED
    BY <1>0, <1>11, <2>1, StayWilling DEF ReceiveEnd, Goto, Going, RoomTypeOK, netVars
<1>12. CASE StartThread(t) \/ SaveName(t) \/ FindTarget(t)
  <2>1. \E to \in {"ask", "list", "notify"} : pc' = [pc EXCEPT ![t] = to]
    BY <1>12 DEF StartThread, SaveName, FindTarget, Goto
  <2>2. UNCHANGED <<file, inbox, peer>>
    BY <1>12 DEF StartThread, SaveName, FindTarget, netVars
  <2> QED
    BY <2>1, <2>2, StayWilling DEF Going
<1>13. CASE remove_client(t) \/ CloseSocket(t)
  <2>1. /\ pc[t] \in {"remove", "close"}
        /\ \E to \in {"close", "done"} : pc' = [pc EXCEPT ![t] = to]
        /\ UNCHANGED <<file, inbox, peer>>
    BY <1>13 DEF remove_client, CloseSocket, Goto, netVars
  <2>2. t \in Going
    BY <1>0, <2>1 DEF Willing
  <2> QED
    BY <2>1, <2>2, StayWilling DEF Going
<1> QED
  BY <1>1, <1>2, <1>3, <1>4, <1>5, <1>6, <1>7, <1>8, <1>9, <1>10, <1>11, <1>12, <1>13
  DEF Thread

\* A thread that runs has a process, and its end ends the thread.
LEMMA ThreadRuns ==
  ASSUME RosterInv, NEW t \in Conns, StartThread(t) \/ Thread(t)
  PROVE  /\ mainPc # "down" /\ pc[t] \notin {"none", "done"}
         /\ mainPc' = mainPc \/ Die
<1>1. pc[t] \notin {"none", "done"}
  BY DEF StartThread, Thread, AskName, EnterRecv, NameMissing, ReceiveName, SaveName,
         send_user_list, AnnounceJoin, Receive, ReceiveEnd, SayToAll, FindTarget, Notify,
         AnnounceLeave, remove_client, CloseSocket, Send, Goto
<1>2. mainPc' = mainPc \/ Die
  BY DEF StartThread, Thread, AskName, EnterRecv, NameMissing, ReceiveName, SaveName,
         send_user_list, AnnounceJoin, Receive, ReceiveEnd, SayToAll, FindTarget, Notify,
         AnnounceLeave, remove_client, CloseSocket, Send, mainVars
<1> QED
  BY <1>1, <1>2 DEF RosterInv, Ended

\* No step brings a process back.
LEMMA EndedStep ==
  ASSUME RosterInv, [PromptNext]_vars
  PROVE  Ended'
<1>1. CASE Environment
  BY <1>1 DEF Environment, Connect, HangUp, SayName, Say, mainVars, threadVars,
              RosterInv, Ended
<1>2. CASE AddClient
  BY <1>2 DEF AddClient, Ended
<1>3. CASE AcceptOne
  BY <1>3 DEF AcceptOne, Accept, AcceptFails, Ended
<1>4. ASSUME NEW t \in Conns, StartThread(t) \/ Thread(t)
      PROVE  Ended'
  <2>1. CASE Die
    BY <2>1 DEF Die, Ended
  <2> QED
    BY <1>4, <2>1, ThreadRuns DEF Ended
<1>5. CASE UNCHANGED vars
  BY <1>5 DEF vars, mainVars, threadVars, RosterInv, Ended
<1> QED
  BY <1>1, <1>2, <1>3, <1>4, <1>5 DEF PromptNext

\* RosterInv is inductive.
LEMMA RosterStep == RosterInv /\ [PromptNext]_vars => RosterInv'
<1> SUFFICES ASSUME RosterInv, [PromptNext]_vars
             PROVE  Willing'
  BY RoomStep, EndedStep DEF RosterInv
<1>1. CASE Environment
  BY <1>1, EnvironmentWilling
<1>2. CASE AddClient
  <2>1. /\ pc' = [pc EXCEPT ![fdTab[newSock]] = "start"]
        /\ UNCHANGED <<file, inbox, peer>>
    BY <1>2 DEF AddClient, netVars
  <2> QED
    BY <2>1 DEF RosterInv, IInv, RoomTypeOK, Willing, Going
<1>3. CASE AcceptOne
  <2>1. UNCHANGED <<pc, file, inbox, peer>>
    BY <1>3 DEF AcceptOne, Accept, AcceptFails, threadVars, netVars
  <2> QED
    BY <2>1 DEF RosterInv, Willing, Going
<1>4. ASSUME NEW t \in Conns, StartThread(t) \/ Thread(t)
      PROVE  Willing'
  BY <1>4, ThreadWilling
<1>5. CASE UNCHANGED vars
  BY <1>5 DEF vars, threadVars, netVars, RosterInv, Willing, Going
<1> QED
  BY <1>1, <1>2, <1>3, <1>4, <1>5 DEF PromptNext

\* What others see of a client changes with its standing only.
SameFor(c) == /\ Standing(c)' = Standing(c)
              /\ Standing(c) = "named" => usernames'[sock'[c]] = usernames[sock[c]]

\* Nothing happens in the room.
LEMMA Quiet ==
  ASSUME \A c \in Conns : SameFor(c)
  PROVE  Status' = Status /\ Called' = Called
  BY DEF SameFor, Status, Called

\* One client moves on, and all others are as they were.
LEMMA OneMoves ==
  ASSUME NEW g \in Conns, \A c \in Conns : c # g => SameFor(c)
  PROVE  /\ Status' = [Status EXCEPT ![g] = Standing(g)']
         /\ Called' = [Called EXCEPT ![g] = Called'[g]]
  BY DEF SameFor, Status, Called

\* One gets in,
LEMMA Enters ==
  ASSUME NEW g \in Conns, \A c \in Conns : c # g => SameFor(c), Going' = Going,
         Standing(g) = "outside", Standing(g)' = "inside"
  PROVE  Room!RosterNext
<1>1. Status[g] = "outside" /\ Called[g] = NoName /\ Called'[g] = NoName
  BY DEF Status, Called
<1>2. Called' = Called
  BY <1>1, OneMoves DEF Called
<1>3. Room!Enter(g)
  BY <1>1, <1>2, OneMoves DEF Room!Enter
<1> QED
  BY <1>3 DEF Room!RosterNext

\* one takes its name,
LEMMA Introduces ==
  ASSUME NEW g \in Conns, \A c \in Conns : c # g => SameFor(c), Going' = Going,
         Standing(g) = "inside", Standing(g)' = "named", usernames'[sock'[g]] \in Words
  PROVE  Room!RosterNext
<1>1. Status[g] = "inside" /\ Called'[g] \in Words
  BY DEF Status, Called
<1>2. Room!Introduce(g, Called'[g])
  BY <1>1, OneMoves DEF Room!Introduce
<1> QED
  BY <1>1, <1>2 DEF Room!RosterNext

\* and one goes.
LEMMA Leaves ==
  ASSUME NEW g \in Conns, \A c \in Conns : c # g => SameFor(c), Going' = Going,
         Standing(g) \in {"inside", "named"}, g \in Going, Standing(g)' = "left"
  PROVE  Room!RosterNext
<1>1. Status[g] \in {"inside", "named"} /\ Called'[g] = NoName
  BY DEF Status, Called
<1>2. Room!Leave(g)
  BY <1>1, OneMoves DEF Room!Leave
<1> QED
  BY <1>2 DEF Room!RosterNext

\* A client's standing depends on its own thread, the list and the descriptors.
LEMMA SameStanding ==
  ASSUME NEW c \in Conns, mainPc # "down", mainPc' # "down",
         InRoom(c)' <=> InRoom(c), Introduced(c)' <=> Introduced(c),
         pc'[c] = "none" <=> pc[c] = "none"
  PROVE  Standing(c)' = Standing(c)
  BY DEF Standing

\* A thread goes on without entering, introducing or leaving.
LEMMA GoesOn ==
  ASSUME RosterInv, NEW t \in Conns, NEW to,
         pc[t] \notin {"none", "done"}, to # "none", pc' = [pc EXCEPT ![t] = to],
         Introduced(t)' <=> Introduced(t),
         mainPc # "down", UNCHANGED <<mainPc, clients, usernames, fdTab>>,
         \A c \in Conns : Introduced(c) => sock'[c] = sock[c]
  PROVE  \A c \in Conns : SameFor(c)
<1> SUFFICES ASSUME NEW c \in Conns PROVE SameFor(c)
  OBVIOUS
<1>1. /\ InRoom(c)' <=> InRoom(c)
      /\ pc'[c] = "none" <=> pc[c] = "none"
      /\ Introduced(c)' <=> Introduced(c)
  BY DEF InRoom, Introduced, RosterInv, IInv, RoomTypeOK
<1>2. Standing(c)' = Standing(c)
  BY <1>1, SameStanding
<1>3. Standing(c) = "named" => Introduced(c)
  BY DEF Standing
<1> QED
  BY <1>2, <1>3 DEF SameFor

-----------------------------------------------------------------------------
(* Every step of the room is one of the roster, or none. *)

\* The end of the process closes the room, and it takes somebody who is gone.
LEMMA DieCloses ==
  ASSUME RosterInv, Die, NEW out, BrokenPipe(out), peer' = AfterSends(out)
  PROVE  Room!CloseDown
<1>1. Going # {}
  BY DEF BrokenPipe, Going
<1>2. Going' = Going
  BY SendGoing DEF RosterInv, IInv
<1>3. \A c \in Conns : Standing(c)' = "left"
  BY DEF Die, Standing
<1>4. Status' = [c \in Conns |-> "left"] /\ Called' = [c \in Conns |-> NoName]
  BY <1>3 DEF Status, Called
<1> QED
  BY <1>1, <1>2, <1>4 DEF Room!CloseDown

\* Sends change nothing, or end everything.
LEMMA SendQuiet ==
  ASSUME RosterInv, NEW t \in Conns, NEW from, NEW to, NEW out,
         Send(t, from, to, out),
         \/ from = "ask" /\ to = "hear"
         \/ from \in {"list", "join", "leave", "say", "notify"}
            /\ to \in {"join", "enter", "remove"}
  PROVE  Room!RosterNext \/ UNCHANGED Room!rosterVars
<1>1. CASE BrokenPipe(out)
  BY <1>1, DieCloses DEF Send, Room!RosterNext
<1>2. CASE ~BrokenPipe(out)
  <2>1. /\ pc[t] = from /\ pc' = [pc EXCEPT ![t] = to] /\ peer' = AfterSends(out)
        /\ UNCHANGED <<mainPc, clients, usernames, fdTab, sock>>
    BY <1>2 DEF Send, Goto, mainVars, listVars
  <2>2. mainPc # "down"
    BY <2>1 DEF RosterInv, Ended
  <2>3. Introduced(t)' <=> Introduced(t)
    BY <2>1 DEF Introduced, RosterInv, IInv, RoomTypeOK
  <2>4. \A c \in Conns : SameFor(c)
    BY <2>1, <2>2, <2>3, GoesOn
  <2>5. Going' = Going
    BY <2>1, SendGoing DEF RosterInv, IInv
  <2> QED
    BY <2>4, <2>5, Quiet DEF Room!rosterVars
<1> QED
  BY <1>1, <1>2

\* Nor does what a thread does for itself.
LEMMA ReceivingQuiet ==
  ASSUME RosterInv, NEW t \in Conns,
         \/ StartThread(t) \/ EnterRecv(t) \/ ReceiveName(t) \/ Receive(t)
         \/ ReceiveEnd(t) \/ FindTarget(t)
  PROVE  UNCHANGED Room!rosterVars
<1>1. /\ UNCHANGED <<mainPc, clients, usernames, fdTab, peer>>
      /\ StartThread(t) \/ UNCHANGED sock
  BY DEF StartThread, EnterRecv, ReceiveName, Receive, ReceiveEnd, FindTarget,
         mainVars, listVars, netVars
<1>2. PICK to : /\ pc' = [pc EXCEPT ![t] = to]
                /\ \/ /\ pc[t] \in {"start", "hear", "name"} /\ to \in {"ask", "name", "save"}
                   \/ /\ pc[t] \in {"enter", "recv", "lookup"} /\ ~StartThread(t)
                      /\ to \in {"recv", "leave", "say", "lookup", "remove", "notify"}
  BY DEF StartThread, EnterRecv, ReceiveName, Receive, ReceiveEnd, FindTarget, Goto
<1>3. Introduced(t)' <=> Introduced(t)
  BY <1>2 DEF Introduced, RosterInv, IInv, RoomTypeOK
<1>4. \A c \in Conns : Introduced(c) => sock'[c] = sock[c]
  <2>1. CASE StartThread(t)
    BY <2>1 DEF StartThread, Goto, Introduced, RosterInv, IInv, RoomTypeOK
  <2> QED
    BY <1>1, <2>1
<1>5. mainPc # "down"
  BY <1>2 DEF RosterInv, Ended
<1>6. \A c \in Conns : SameFor(c)
  BY <1>1, <1>2, <1>3, <1>4, <1>5, GoesOn
<1>7. Going' = Going
  BY <1>1 DEF Going
<1> QED
  BY <1>6, <1>7, Quiet DEF Room!rosterVars

\* A thread at work has its client in the list.
LEMMA BusyInRoom ==
  ASSUME RosterInv, NEW t \in Conns, Busy(t)
  PROVE  /\ sock[t] \in Fds /\ fdTab[sock[t]] = t /\ mainPc # "down"
         /\ pc[t] # "close" => InRoom(t)
         /\ \A u \in Conns : Busy(u) /\ u # t => sock[u] # sock[t]
         /\ \A f \in Fds : fdTab[f] = t => f = sock[t]
<1>1. sock[t] \in Fds /\ fdTab[sock[t]] = t
  BY DEF RosterInv, IInv, Owners, OneThreadPerClient
<1>2. \A f \in Fds : fdTab[f] = t => f = sock[t]
  BY <1>1, RoomAssumption
  DEF RosterInv, IInv, Owners, OneThreadPerClient, Handover, Busy, RoomTypeOK
<1>3. pc[t] # "close" => InRoom(t)
  BY <1>1 DEF RosterInv, IInv, NobodyIsMissed, InRoom
<1>4. \A u \in Conns : Busy(u) /\ u # t => sock[u] # sock[t]
  BY <1>1 DEF RosterInv, IInv, Owners, OneThreadPerClient
<1> QED
  BY <1>1, <1>2, <1>3, <1>4 DEF Busy, RosterInv, Ended

\* Whoever is named was in the room, and no other's name is touched.
LEMMA SaveIntroduces ==
  ASSUME RosterInv, NEW t \in Conns, SaveName(t)
  PROVE  Room!RosterNext
<1>1. /\ pc[t] = "save" /\ pc' = [pc EXCEPT ![t] = "list"]
      /\ usernames' = [f \in Fds |-> IF f = sock[t] THEN name[t] ELSE usernames[f]]
      /\ UNCHANGED <<mainPc, clients, sock, fdTab, peer>>
  BY DEF SaveName, Goto, mainVars, netVars
<1>2. /\ sock[t] \in Fds /\ mainPc # "down" /\ InRoom(t)
      /\ \A u \in Conns : Busy(u) /\ u # t => sock[u] \in Fds /\ sock[u] # sock[t]
  BY <1>1, BusyInRoom DEF Busy
<1>3. \A c \in Conns : InRoom(c)' <=> InRoom(c)
  BY <1>1 DEF InRoom
<1>4. Standing(t) = "inside" /\ Standing(t)' = "named"
  BY <1>1, <1>2, <1>3 DEF Standing, Introduced, RosterInv, IInv, RoomTypeOK
<1>5. ASSUME NEW c \in Conns, c # t PROVE SameFor(c)
  <2>1. pc'[c] = pc[c] /\ (Introduced(c)' <=> Introduced(c))
    BY <1>1, <1>5 DEF Introduced, RosterInv, IInv, RoomTypeOK
  <2>2. Standing(c)' = Standing(c)
    BY <1>1, <1>2, <1>3, <2>1, SameStanding
  <2>3. Standing(c) = "named" => Introduced(c)
    BY DEF Standing
  <2>4. Introduced(c) => usernames'[sock[c]] = usernames[sock[c]]
    BY <1>1, <1>2, <1>5 DEF Introduced, Busy
  <2> QED
    BY <1>1, <2>2, <2>3, <2>4 DEF SameFor
<1>6. usernames'[sock'[t]] \in Words /\ Going' = Going
  BY <1>1, <1>2 DEF Going, RosterInv, IInv, RoomTypeOK
<1> QED
  BY <1>4, <1>5, <1>6, Introduces

\* A socket that is closed belongs to a client that has gone.
LEMMA CloseLeaves ==
  ASSUME RosterInv, NEW t \in Conns, NameMissing(t) \/ CloseSocket(t)
  PROVE  Room!RosterNext \/ UNCHANGED Room!rosterVars
<1>1. /\ pc[t] \in {"name", "close"} /\ pc' = [pc EXCEPT ![t] = "done"]
      /\ fdTab' = [f \in Fds |-> IF f = sock[t] THEN NoConn ELSE fdTab[f]]
      /\ sock' = [sock EXCEPT ![t] = NoSock]
      /\ UNCHANGED <<mainPc, clients, usernames, peer>>
  BY DEF NameMissing, CloseSocket, Goto, mainVars, listVars
<1>2. t \in Going
  BY <1>1, RoomAssumption DEF NameMissing, CloseSocket, Goto, AtEnd, Going, RosterInv,
                               Willing
<1>3. /\ sock[t] \in Fds /\ fdTab[sock[t]] = t /\ mainPc # "down"
      /\ \A f \in Fds : fdTab[f] = t => f = sock[t]
  BY <1>1, BusyInRoom DEF Busy
<1>4. clients \in Seq(Fds) /\ RoomTypeOK
  BY DEF RosterInv, IInv, RoomTypeOK
<1>5. ~InRoom(t)' /\ \A c \in Conns : c # t => (InRoom(c)' <=> InRoom(c))
  <2>1. \A i \in 1..Len(clients) : clients[i] \in Fds
    BY <1>4
  <2> QED
    BY <1>1, <1>3, <2>1, RoomAssumption DEF InRoom
<1>6. ASSUME NEW c \in Conns, c # t PROVE SameFor(c)
  <2>1. pc'[c] = pc[c] /\ sock'[c] = sock[c] /\ (Introduced(c)' <=> Introduced(c))
    BY <1>1, <1>4, <1>6 DEF Introduced, RoomTypeOK
  <2> QED
    BY <1>1, <1>3, <1>5, <1>6, <2>1, SameStanding DEF SameFor
<1>7. Standing(t)' = "left" /\ Going' = Going
  BY <1>1, <1>3, <1>4, <1>5 DEF Standing, RoomTypeOK, Going
<1>8. CASE InRoom(t)
  BY <1>2, <1>3, <1>6, <1>7, <1>8, Leaves DEF Standing
<1>9. CASE ~InRoom(t)
  <2>1. Standing(t) = "left"
    BY <1>1, <1>3, <1>9 DEF Standing
  <2> QED
    BY <1>6, <1>7, <2>1, Quiet DEF SameFor, Room!rosterVars
<1> QED
  BY <1>8, <1>9

\* What the shift does not bring in.
LEMMA WithoutBrings ==
  ASSUME clients \in Seq(Fds), NEW i \in 1..Len(clients)
  PROVE  \A j \in 1..Len(Without(i)) : \E k \in 1..Len(clients) : Without(i)[j] = clients[k]
<1> DEFINE n == Len(clients) - 1
<1>1. n \in Nat /\ Without(i) = [j \in 1..n |-> clients[IF j < i THEN j ELSE j + 1]]
  BY DEF Without
<1>2. \A j \in 1..n : (IF j < i THEN j ELSE j + 1) \in 1..Len(clients)
  BY <1>1
<1>3. Len(Without(i)) = n
  BY <1>1, WithoutKeeps
<1> QED
  BY <1>1, <1>2, <1>3

\* The shift takes out nobody but the client of the thread that does it.
LEMMA RemoveLeaves ==
  ASSUME RosterInv, NEW t \in Conns, remove_client(t)
  PROVE  Room!RosterNext \/ UNCHANGED Room!rosterVars
<1>1. /\ pc[t] = "remove" /\ pc' = [pc EXCEPT ![t] = "close"]
      /\ UNCHANGED <<mainPc, usernames, sock, fdTab, peer>>
      /\ \/ \E i \in 1..Len(clients) : clients[i] = sock[t] /\ clients' = Without(i)
         \/ clients' = clients
  BY DEF remove_client, Goto, mainVars, netVars, FirstAt
<1>2. /\ sock[t] \in Fds /\ fdTab[sock[t]] = t /\ mainPc # "down" /\ InRoom(t)
      /\ t \in Going
  BY <1>1, BusyInRoom DEF Busy, RosterInv, Willing
<1>3. clients \in Seq(Fds) /\ RoomTypeOK
  BY DEF RosterInv, IInv, RoomTypeOK
<1>4. \A c \in Conns : c # t => (InRoom(c)' <=> InRoom(c))
  <2>1. CASE clients' = clients
    BY <1>1, <2>1 DEF InRoom
  <2>2. ASSUME NEW i \in 1..Len(clients), clients[i] = sock[t], clients' = Without(i)
        PROVE  \A c \in Conns : c # t => (InRoom(c)' <=> InRoom(c))
    <3> TAKE c \in Conns
    <3>1. ASSUME InRoom(c)' PROVE InRoom(c)
      BY <1>1, <1>3, <2>2, <3>1, WithoutBrings DEF InRoom
    <3>2. ASSUME c # t, InRoom(c) PROVE InRoom(c)'
      <4>1. PICK k \in 1..Len(clients) : fdTab[clients[k]] = c
        BY <3>2 DEF InRoom
      <4>2. clients[k] \in Fds /\ clients[k] # clients[i]
        BY <1>2, <1>3, <2>2, <3>2, <4>1
      <4>3. \E j \in 1..Len(Without(i)) : Without(i)[j] = clients[k]
        BY <1>3, <4>2, WithoutKeeps
      <4> QED
        BY <1>1, <2>2, <4>1, <4>3 DEF InRoom
    <3> QED
      BY <3>1, <3>2
  <2> QED
    BY <1>1, <2>1, <2>2
<1>5. ASSUME NEW c \in Conns, c # t PROVE SameFor(c)
  <2>1. pc'[c] = pc[c] /\ (Introduced(c)' <=> Introduced(c))
    BY <1>1, <1>3, <1>5 DEF Introduced, RoomTypeOK
  <2> QED
    BY <1>1, <1>2, <1>4, <1>5, <2>1, SameStanding DEF SameFor
<1>6. /\ Standing(t) = "named" /\ Going' = Going
      /\ Standing(t)' = IF InRoom(t)' THEN "named" ELSE "left"
  BY <1>1, <1>2, <1>3 DEF Standing, Introduced, RoomTypeOK, Going
<1>7. CASE InRoom(t)'
  BY <1>1, <1>5, <1>6, <1>7, Quiet DEF SameFor, Room!rosterVars
<1>8. CASE ~InRoom(t)'
  BY <1>2, <1>5, <1>6, <1>8, Leaves
<1> QED
  BY <1>7, <1>8

\* Clients come and say that they go.
LEMMA EnvironmentSetsOff ==
  ASSUME RosterInv, Environment
  PROVE  Room!RosterNext \/ UNCHANGED Room!rosterVars
<1>1. PICK c \in Conns : \/ Connect(c) \/ HangUp(c)
                         \/ \E w \in Typed : SayName(c, w)
                         \/ \E line \in Chats : Say(c, line)
  BY DEF Environment
<1>2. UNCHANGED <<mainPc, clients, usernames, pc, sock, fdTab>>
  BY <1>1 DEF Connect, HangUp, SayName, Say, mainVars, listVars, threadVars
<1>3. \A d \in Conns : SameFor(d)
  BY <1>2 DEF SameFor, Standing, InRoom, Introduced
<1>4. Going' = Going \/ (c \notin Going /\ Going' = Going \cup {c})
  BY <1>1, EnvironmentGoing DEF RosterInv
<1>5. CASE Going' = Going
  BY <1>3, <1>5, Quiet DEF Room!rosterVars
<1>6. CASE c \notin Going /\ Going' = Going \cup {c}
  BY <1>3, <1>6, Quiet DEF Room!SetOff, Room!RosterNext
<1> QED
  BY <1>4, <1>5, <1>6

\* A new connection is in the room when it is in the list, or at once when an
\* entry of its number was left there.
LEMMA AcceptEnters ==
  ASSUME RosterInv, AllStarted, AcceptOne
  PROVE  Room!RosterNext \/ UNCHANGED Room!rosterVars
<1>1. CASE AcceptFails
  <2>1. UNCHANGED <<mainPc, clients, usernames, pc, sock, fdTab, peer>>
    BY <1>1 DEF AcceptFails, listVars, threadVars, netVars
  <2> QED
    BY <2>1, Quiet DEF SameFor, Standing, InRoom, Introduced, Going, Room!rosterVars
<1>2. ASSUME NEW c \in Conns, NEW f \in Fds, Accept(c, f)
      PROVE  Room!RosterNext \/ UNCHANGED Room!rosterVars
  <2>1. /\ mainPc # "down" /\ mainPc' # "down" /\ fdTab[f] = NoConn
        /\ fdTab' = [fdTab EXCEPT ![f] = c]
        /\ UNCHANGED <<clients, usernames, pc, sock, peer>>
    BY <1>2 DEF Accept, LowestFree, listVars, threadVars
  <2>2. Untouched(c) /\ RoomTypeOK
    BY <1>2 DEF Accept, RosterInv, IInv, Owners, Handover
  <2>3. \A i \in 1..Len(clients) : clients[i] \in Fds
    BY <2>2 DEF RoomTypeOK
  <2>4. ~InRoom(c) /\ \A d \in Conns : d # c => (InRoom(d)' <=> InRoom(d))
    BY <2>1, <2>2, <2>3, RoomAssumption DEF InRoom, Untouched, RoomTypeOK
  <2>5. \A d \in Conns : d # c => SameFor(d)
    BY <2>1, <2>4, SameStanding DEF SameFor, Introduced
  <2>6. /\ Standing(c) = "outside" /\ Going' = Going
        /\ Standing(c)' = IF InRoom(c)' THEN "inside" ELSE "outside"
    BY <2>1, <2>2, <2>4 DEF Standing, Introduced, Untouched, Going
  <2>7. CASE InRoom(c)'
    BY <2>5, <2>6, <2>7, Enters
  <2>8. CASE ~InRoom(c)'
    BY <2>5, <2>6, <2>8, Quiet DEF SameFor, Room!rosterVars
  <2> QED
    BY <2>7, <2>8
<1> QED
  BY <1>1, <1>2 DEF AcceptOne

\* The list is how one gets in otherwise.
LEMMA AddEnters ==
  ASSUME RosterInv, AddClient
  PROVE  Room!RosterNext \/ UNCHANGED Room!rosterVars
<1>0. PICK c \in Conns : c = fdTab[newSock]
  BY DEF AddClient, RosterInv, IInv, Owners, Handover
<1>1. /\ newSock \in Fds /\ fdTab[newSock] = c /\ pc[c] = "none" /\ RoomTypeOK
      /\ mainPc # "down" /\ mainPc' # "down"
  BY <1>0 DEF AddClient, RosterInv, IInv, Owners, Handover
<1>2. /\ clients' = Append(clients, newSock) /\ pc' = [pc EXCEPT ![c] = "start"]
      /\ UNCHANGED <<usernames, sock, fdTab, peer>>
  BY <1>0 DEF AddClient, netVars
<1>3. /\ Len(clients') = Len(clients) + 1 /\ clients'[Len(clients) + 1] = newSock
      /\ Len(clients) \in Nat
      /\ \A i \in 1..Len(clients) : clients'[i] = clients[i]
  BY <1>1, <1>2 DEF RoomTypeOK
<1>4. InRoom(c)'
  <2>1. Len(clients) + 1 \in 1..Len(clients')
    BY <1>3
  <2> QED
    BY <1>1, <1>2, <1>3, <2>1 DEF InRoom
<1>5. \A d \in Conns : d # c => (InRoom(d)' <=> InRoom(d))
  <2>1. \A i \in 1..Len(clients') : i \in 1..Len(clients) \/ i = Len(clients) + 1
    BY <1>3
  <2>2. \A i \in 1..Len(clients) : i \in 1..Len(clients')
    BY <1>3
  <2> QED
    BY <1>1, <1>2, <1>3, <2>1, <2>2 DEF InRoom
<1>6. ASSUME NEW d \in Conns, d # c PROVE SameFor(d)
  <2>1. pc'[d] = pc[d]
    BY <1>1, <1>2, <1>6 DEF RoomTypeOK
  <2> QED
    BY <1>1, <1>2, <1>5, <1>6, <2>1, SameStanding DEF SameFor, Introduced
<1>7. pc'[c] = "start"
  BY <1>1, <1>2 DEF RoomTypeOK
<1>8. Standing(c)' = "inside"
  BY <1>1, <1>4, <1>7 DEF Standing, Introduced
<1>9. Standing(c) = IF InRoom(c) THEN "inside" ELSE "outside"
  BY <1>1 DEF Standing, Introduced
<1>10. Going' = Going
  BY <1>2 DEF Going
<1>11. CASE InRoom(c)
  BY <1>6, <1>8, <1>9, <1>10, <1>11, Quiet DEF SameFor, Room!rosterVars
<1>12. CASE ~InRoom(c)
  BY <1>6, <1>8, <1>9, <1>10, <1>12, Enters
<1> QED
  BY <1>11, <1>12

\* Over all its descriptors, threads and shifts the room is a roster: nobody is
\* let in twice, renamed, or put out by another's going (server.c:56-71, 86-96,
\* 108-122, 177-191), as long as no accept overtakes a thread.
THEOREM RoomImplementsRoster == Spec /\ NoOvertaking => RosterSpec
<1>1. Init => Room!RosterInit
  <2> SUFFICES ASSUME Init PROVE Room!RosterInit
    OBVIOUS
  <2>1. \A c \in Conns : Standing(c) = "outside"
    <3>1. 1..Len(clients) = {}
      BY DEF Init
    <3> QED
      BY <3>1 DEF Init, Standing, InRoom
  <2> QED
    BY <2>1 DEF Init, Status, Called, Going, Room!RosterInit
<1>2. RosterInv /\ [PromptNext]_vars => [Room!RosterNext]_Room!rosterVars
  <2> SUFFICES ASSUME RosterInv, [PromptNext]_vars
               PROVE  Room!RosterNext \/ UNCHANGED Room!rosterVars
    OBVIOUS
  <2>1. ASSUME NEW t \in Conns, StartThread(t) \/ Thread(t)
        PROVE  Room!RosterNext \/ UNCHANGED Room!rosterVars
    <3>1. CASE AskName(t)
      BY <3>1, SendQuiet DEF AskName
    <3>2. CASE send_user_list(t)
      BY <3>2, SendQuiet DEF send_user_list
    <3>3. CASE AnnounceJoin(t)
      BY <3>3, SendQuiet DEF AnnounceJoin
    <3>4. CASE SayToAll(t)
      BY <3>4, SendQuiet DEF SayToAll
    <3>5. CASE Notify(t)
      BY <3>5, SendQuiet DEF Notify
    <3>6. CASE AnnounceLeave(t)
      BY <3>6, SendQuiet DEF AnnounceLeave
    <3> QED
      BY <2>1, <3>1, <3>2, <3>3, <3>4, <3>5, <3>6, ReceivingQuiet, SaveIntroduces,
         CloseLeaves, RemoveLeaves
      DEF Thread
  <2>2. CASE UNCHANGED vars
    <3>1. UNCHANGED <<mainPc, clients, usernames, pc, sock, fdTab, peer>>
      BY <2>2 DEF vars, mainVars, listVars, threadVars, netVars
    <3> QED
      BY <3>1, Quiet DEF SameFor, Standing, InRoom, Introduced, Going, Room!rosterVars
  <2> QED
    BY <2>1, <2>2, EnvironmentSetsOff, AcceptEnters, AddEnters DEF PromptNext
<1>3. PromptSpec => []RosterInv
  BY InitRoster, RosterStep, PTL DEF PromptSpec
<1> QED
  BY <1>1, <1>2, <1>3, PromptIsNoOvertaking, PTL DEF PromptSpec, RosterSpec, Room!RosterSpec
=============================================================================
