----------------------------- MODULE GroupSystem -----------------------------
(***************************************************************************)
(* The group server together with the clients its repository gives it:     *)
(* src/src/group/client1/client.c in the place of GroupServer's            *)
(* environment.  The steps of the server are those of GroupServer.         *)
(*                                                                         *)
(* A client is one thread.  After a choice of its menu it waits for the    *)
(* socket or the keyboard, whichever is first, and shows at most one       *)
(* buffer before the menu comes back.  Only the beginning of that buffer   *)
(* counts: is it SENDING?                                                  *)
(***************************************************************************)
EXTENDS GroupServer

VARIABLES
    cpc,     \* where each client stands
    outbox,  \* the beginning of what waits in each client's socket
    crossed  \* history: the clients whose EXIT crossed a SENDING on its way

sysVars == <<vars, cpc, outbox, crossed>>

\* What a client sends from its menu, and what it sends in sending mode.  Its
\* "List messages" is LIST_MESSAGES, for the server an "OTHER".
Choices == {line \in Lines : line.op # "MESSAGE"}
Texts   == {line \in Lines : line.op = "MESSAGE"}

\* What users type: EXIT is not what glued lines read like, and a text has a word.
ASSUME SystemAssumption ==
    /\ Garbled # Exit
    /\ \A line \in Texts : line.w1 # NoWord

SystemTypeOK ==
    /\ TypeOK
    /\ cpc \in [Conns -> {"hello", "menu", "wait", "sending", "typing",
                          "lost", "quit"}]
    /\ outbox \in [Conns -> {"nothing", "SENDING", "text"}]
    /\ crossed \subseteq Conns

SystemInit ==
    /\ Init
    /\ cpc = [c \in Conns |-> "hello"]
    /\ outbox = [c \in Conns |-> "nothing"]
    /\ crossed = {}

-----------------------------------------------------------------------------
(* The client. *)

Goto(c, state) == cpc' = [cpc EXCEPT ![c] = state]
Show(c) == outbox' = [outbox EXCEPT ![c] = "nothing"]

\* What a client sends after the server closed its end is lost without a sign.
Unheard(c) == fd[c] = "closed" /\ UNCHANGED vars

Introduce(c) ==
    /\ cpc[c] = "hello" /\ peer[c] = "connected"
    /\ Unheard(c) \/ \E line \in Hellos : SayHello(c, line)
    /\ Goto(c, "menu")
    /\ UNCHANGED outbox

\* A command; or a choice that sends nothing, being none of the ten, or because
\* its words are too long.
Choose(c) ==
    /\ cpc[c] = "menu"
    /\ UNCHANGED vars \/ \E line \in Choices : Say(c, line)
    /\ Goto(c, "wait")
    /\ UNCHANGED outbox

ShowAnswer(c) ==
    /\ cpc[c] = "wait" /\ outbox[c] # "nothing"
    /\ Goto(c, IF outbox[c] = "SENDING" THEN "sending" ELSE "menu")
    /\ Show(c)
    /\ UNCHANGED vars

AtEndOfStream(c) == outbox[c] = "nothing" /\ fd[c] = "closed"

\* The keyboard comes first: back to the menu without an answer.
TypeAhead(c) ==
    /\ cpc[c] = "wait" /\ outbox[c] = "nothing" /\ ~AtEndOfStream(c)
    /\ Goto(c, "menu")
    /\ UNCHANGED <<vars, outbox>>

ShowText(c) ==
    /\ cpc[c] = "sending" /\ outbox[c] # "nothing"
    /\ Show(c)
    /\ UNCHANGED <<vars, cpc>>

\* select has seen the keyboard; what has arrived by then is read first.
TypeText(c) ==
    /\ cpc[c] = "sending" /\ ~AtEndOfStream(c)
    /\ Goto(c, "typing")
    /\ Show(c)
    /\ UNCHANGED vars

\* (Mutant: EXIT is sent like any other text.)
SendTextOnly(c) ==
    /\ cpc[c] = "typing"
    /\ \E line \in Texts : Unheard(c) \/ Say(c, line)
    /\ Goto(c, "sending")
    /\ UNCHANGED outbox

SendText(c) ==
    /\ cpc[c] = "typing"
    /\ \E line \in Texts :
         /\ Unheard(c) \/ Say(c, line)
         /\ Goto(c, IF line.w1 = Exit THEN "menu" ELSE "sending")
    /\ UNCHANGED outbox

\* recv returns 0: from the menu the program ends, sending mode closes the
\* socket and returns to a menu whose sends and selects fail from then on.
NoticeEnd(c) ==
    /\ cpc[c] \in {"wait", "sending"} /\ AtEndOfStream(c)
    /\ HangUp(c)
    /\ Goto(c, IF cpc[c] = "wait" THEN "quit" ELSE "lost")
    /\ UNCHANGED outbox

\* Option 10; or the user ends the program, or SIGPIPE does at a second send
\* into a closed connection.
Quit(c) ==
    /\ HangUp(c)
    /\ Goto(c, "quit")
    /\ Show(c)

ClientStep(c) ==
    \/ Connect(c) /\ UNCHANGED <<cpc, outbox>>
    \/ Introduce(c) \/ Choose(c) \/ ShowAnswer(c) \/ TypeAhead(c)
    \/ ShowText(c) \/ TypeText(c) \/ SendText(c) \/ NoticeEnd(c) \/ Quit(c)

-----------------------------------------------------------------------------
(* The server, whose sends reach the clients that are still there. *)

Beginning(items) ==
    IF [kind |-> "reply", what |-> "SENDING"] \in items THEN "SENDING" ELSE "text"

Deliver ==
    outbox' = [c \in Conns |->
        IF sent'[c] = {} \/ outbox[c] # "nothing" \/ cpc[c] \in {"lost", "quit"}
          THEN outbox[c]
          ELSE Beginning(sent'[c])]

ServerStep == (Server \/ Crash \/ Restart) /\ Deliver /\ UNCHANGED cpc

\* select has seen the keyboard and the EXIT is on its way to the server when a
\* SENDING comes from there: the client reads it after its EXIT.
Recall ==
    crossed' = crossed \cup {c \in Conns :
        cpc[c] = "typing" /\ cpc'[c] = "menu" /\ outbox[c] = "SENDING"}

SystemNext == (ServerStep \/ \E c \in Conns : ClientStep(c)) /\ Recall

SystemSpec == SystemInit /\ [][SystemNext]_sysVars

-----------------------------------------------------------------------------
(* What both ends agree on. *)

\* No other slot, of a connection that is or was, answers for the same user.
Alone(i) == \A j \in Slots \ {i} : clients[j] # NULL => clients[j].id # clients[i].id

\* A client is in sending mode only while the server has its user in sending
\* mode, however far the replies it has read lag behind (client.c:218-258,
\* server.c:441-462, 561-565): as long as nobody else answers for the user, the
\* user has a row in the matrix, no group has an id too large for a row, and no
\* EXIT of the client has crossed a SENDING on its way.
SendersAreFlagged ==
    \A i \in Slots :
        (/\ clients[i] # NULL /\ clients[i].socket \in Conns \ crossed
         /\ Alone(i) /\ IdOf(i) \in Slots /\ nextGroup <= MaxClients
         /\ \/ cpc[clients[i].socket] = "sending"
            \/ outbox[clients[i].socket] = "SENDING")
        => Sending(IdOf(i), sendings) # {}
=============================================================================
