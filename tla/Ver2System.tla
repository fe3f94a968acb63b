------------------------------ MODULE Ver2System ------------------------------
(***************************************************************************)
(* The second server together with the client program written for it,      *)
(* src/ver2/chatfileapp/client/src/main.c: a connection to register or log *)
(* in, then another one for chat on which init_chat (chat.c:40-76) sends   *)
(* the bare user name, then one to port 8086, where the group server of    *)
(* this repository may listen, and one to port 8087, where nobody does:    *)
(* the program ends before its menu.  The other connections are those of   *)
(* any client.                                                             *)
(***************************************************************************)
EXTENDS Ver2Server

CONSTANTS
    Programs,     \* pairs of connections: to log in, and to chat
    Requests,     \* what the users of the programs type at first
    OtherLines    \* what other clients send

\* The user name alone, which is none of the commands.
NameLine(line) == [op |-> "OTHER", w1 |-> line.w1, w2 |-> NoWord, w3 |-> NoWord]

OfPrograms == UNION {{p[1], p[2]} : p \in Programs}

ASSUME ProgramAssumption ==
    /\ Programs \subseteq Conns \X Conns
    /\ \A p \in Programs : p[1] # p[2]
    /\ \A p, q \in Programs : p # q => {p[1], p[2]} \cap {q[1], q[2]} = {}
    /\ Requests \cup OtherLines \subseteq Lines
    /\ \A line \in Requests :
         /\ line.op \in {"REGISTER", "LOGIN"}
         /\ NoWord \notin {line.w1, line.w2}
         /\ NameLine(line) \in Lines

VARIABLES
    prog,     \* where each program stands
    request   \* what its user has typed

systemVars == <<serverVars, prog, request>>

SystemTypeOK ==
    /\ ServerTypeOK
    /\ prog \in [Programs -> {"start", "typing", "asked", "admitted", "cut_off",
                              "greet", "group", "file", "refused", "ended"}]
    /\ request \in [Programs -> Requests \cup {Nothing}]

SystemInit ==
    /\ ServerInit
    /\ prog = [p \in Programs |-> "start"]
    /\ request = [p \in Programs |-> Nothing]

Move(p, to) == prog' = [prog EXCEPT ![p] = to] /\ UNCHANGED request

\* connect fails when the server is down: handle_error.
NoServer(p) == ~up /\ Move(p, "ended") /\ UNCHANGED serverVars

Open(p) ==
    /\ prog[p] = "start"
    /\ (Connect(p[1]) /\ KeepLink /\ Move(p, "typing")) \/ NoServer(p)

Ask(p) ==
    /\ prog[p] = "typing"
    /\ \E line \in Requests :
         /\ \/ Say(p[1], line) /\ KeepLink
            \/ stage[p[1]] = "over" /\ UNCHANGED serverVars
         /\ prog' = [prog EXCEPT ![p] = "asked"]
         /\ request' = [request EXCEPT ![p] = line]

\* Every reply but RegisterSuccess or LoginSuccess ends the program.
HearReply(p) ==
    /\ prog[p] = "asked" /\ verdict[p[1]] # "nothing"
    /\ Move(p, IF verdict[p[1]] = "Success" THEN "admitted" ELSE "refused")
    /\ HangUp(p[1]) /\ KeepLink

\* recv fails: the program goes on as if it had been admitted.
HearNothing(p) ==
    /\ prog[p] = "asked" /\ verdict[p[1]] = "nothing" /\ stage[p[1]] = "over"
    /\ Move(p, "cut_off")
    /\ HangUp(p[1]) /\ KeepLink

OpenChat(p) ==
    /\ prog[p] \in {"admitted", "cut_off"}
    /\ (Connect(p[2]) /\ KeepLink /\ Move(p, "greet")) \/ NoServer(p)

SendName(p) ==
    /\ prog[p] = "greet"
    /\ \/ Say(p[2], NameLine(request[p])) /\ KeepLink
       \/ stage[p[2]] = "over" /\ UNCHANGED serverVars
    /\ Move(p, "group")

\* handle_error ends the process, and with it the chat connection.
GiveUp(p) == Move(p, "ended") /\ HangUp(p[2]) /\ KeepLink

\* The group server runs or not; it is sent the user name, which no handler of
\* this server sees.
ConnectGroup(p) ==
    /\ prog[p] = "group"
    /\ GiveUp(p) \/ (Move(p, "file") /\ UNCHANGED serverVars)

\* Nothing in the repository listens on FILE_PORT.
ConnectFile(p) == prog[p] = "file" /\ GiveUp(p)

ProgramStep(p) ==
    \/ Open(p) \/ Ask(p) \/ HearReply(p) \/ HearNothing(p)
    \/ OpenChat(p) \/ SendName(p) \/ ConnectGroup(p) \/ ConnectFile(p)

AnyClient == \E c \in Conns \ OfPrograms :
    Connect(c) \/ HangUp(c) \/ \E line \in OtherLines : Say(c, line)

Still == UNCHANGED <<prog, request>>

SystemNext ==
    \/ (AnyClient \/ Kill \/ Restart) /\ KeepLink /\ Still
    \/ \E c \in Conns : Thread(c) /\ Still
    \/ \E p \in Programs : ProgramStep(p)

SystemSpec == SystemInit /\ [][SystemNext]_systemVars

\* The kernel schedules every thread; a program waits for nobody once its user
\* has typed.
FairSystem ==
    /\ SystemSpec
    /\ \A c \in Conns : WF_systemVars(Thread(c) /\ Still)
    /\ \A p \in Programs : WF_systemVars(prog[p] # "typing" /\ ProgramStep(p))

-----------------------------------------------------------------------------
\* A program that was told LoginSuccess or RegisterSuccess stands for an account
\* with the name and the password its user typed (client main.c:76, 105), if no
\* statements have overlapped in the server.
HasAccount(p) == \E r \in tables.users :
    r.name = request[p].w1 /\ r.password = request[p].w2
AdmittedHaveAccount ==
    calm => \A p \in Programs : prog[p] = "admitted" => HasAccount(p)

\* The server ends the connection of a program that waits without a reply only
\* when its process dies, so only then does a program that was not told
\* LoginSuccess go on as if it had been (client main.c:73, 102).
SilenceMeansDeath == [][
    \A p \in Programs :
        prog[p] = "asked" /\ stage[p[1]] # "over" /\ stage'[p[1]] = "over"
          => verdict'[p[1]] # "nothing" \/ ~up' ]_systemVars

\* A user all of whose connections are lost goes offline in the end, whatever
\* the UPDATEs of its threads overtake, unless the server goes first, the user
\* comes back, or statements overlap (server main.c:86-88, 110-119).
Served(u)   == \E c \in Conns : id[c] = u /\ peer[c] = "open"
Deserted(u) == ~Served(u) /\ \E c \in Conns : id[c] = u
GoneAreOffline ==
    \A u \in UserIds : Deserted(u) ~>
        ~up \/ ~calm \/ Served(u) \/ StatusOf(u, tables) = {FALSE}

\* Nobody who registers or logs in waits for ever, however statements overlap:
\* the program ends, with an answer or without (client main.c:72, 101, 135, 154).
ProgramsEnd ==
    \A p \in Programs : prog[p] = "asked" ~> prog[p] \in {"refused", "ended"}

-----------------------------------------------------------------------------
(* What the code says, and does not do. *)

\* "Kiểm tra thông tin đăng nhập" (check the login data; server main.c:75): who
\* is admitted has an account with that name and password.
LoginsAreChecked == \A p \in Programs : prog[p] = "admitted" => HasAccount(p)

\* "Đăng ký thất bại" (registration failed; client main.c:79): what its user
\* asked for is not in the database.
RefusedHaveNoAccount ==
    \A p \in Programs : prog[p] = "refused" /\ request[p].op = "REGISTER" =>
        ~ \E r \in tables.users : /\ r.name = request[p].w1
                                  /\ r.password = request[p].w2
                                  /\ r.email = request[p].w3
=============================================================================
