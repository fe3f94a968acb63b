----------------------------- MODULE Ver2Handlers -----------------------------
(***************************************************************************)
(* The handlers of the second server, src/ver2/chatfileapp/server: a       *)
(* thread per connection (main.c:30-216), whose commands are sequences of  *)
(* statements with an answer to wait for after each (group.c, chat.c,      *)
(* file.c).  How a thread gets the answer to its statement is left open:   *)
(* Ver2Service says what it relies on, Ver2Server what the one shared      *)
(* connection to the database does.                                        *)
(*                                                                         *)
(* The commands are data: Script gives the statements of each, and for     *)
(* every answer whether to go on or what to reply.                         *)
(***************************************************************************)
EXTENDS Ver2Db, Sequences, FiniteSets

CONSTANTS
    Conns,        \* the TCP connections clients may open
    Lines,        \* what clients may send
    NoWord,       \* a %s that reads no word leaves its array uninitialised
    Garbled,      \* the last word of a line with the next line glued to it
    Nothing

\* "go" is the next statement; "again" the second of the two calls of
\* add_member_to_group, which main.c:160-162 makes when the first one fails.
Step(ask, row, none, null) ==
    [ask |-> ask, row |-> row, none |-> none, null |-> null]

Carry(ask) == Step(ask, "go", "go", "Failed")
Find(ask)  == Step(ask, "go", "Failed", "Failed")

AddMember(stop, exists) ==
    << Step("find_group", "go", stop, stop), Step("find_second_user", "go", stop, stop),
       Step("is_member", exists, "go", stop), Step("new_member", "go", "go", stop) >>

Script ==
  [ REGISTER |-> << Step("find_user", "Exists", "go", "go"), Carry("new_user") >>,
    LOGIN    |-> << Find("find_account"), Step("go_online", "go", "go", "go") >>,
    PRIVATE  |-> << Find("find_user"), Carry("new_message") >>,
    CREATE_GROUP  |-> << Carry("new_group"), Find("find_group"), Carry("new_admin") >>,
    JOIN_GROUP    |-> << Find("find_group"),
                         Step("am_I_member", "Exists", "go", "Failed"),
                         Carry("join") >>,
    LEAVE_GROUP   |-> << Find("find_group"), Carry("leave") >>,
    ADD_MEMBER    |-> AddMember("again", "again"),
    ADD_AGAIN     |-> AddMember("Failed", "Exists"),
    REMOVE_MEMBER |-> << Find("find_group"), Find("find_second_user"), Carry("remove") >>,
    SEND        |-> << Find("find_group"), Find("am_I_member"), Carry("new_message") >>,
    LIST_GROUPS |-> << Carry("look") >>,
    LIST_USERS  |-> << Carry("look") >>,
    SEARCH      |-> << Carry("look") >>,
    QUIT        |-> << Step("go_offline", "go", "go", "go") >> ]

\* What is replied after the last statement: a login replied after its first
\* one, a second call of add_member_to_group that succeeds counts as a failure.
Finally(op) == CASE op = "ADD_AGAIN" -> "Failed"
                 [] op \in {"LOGIN", "QUIT"} -> "Silence"
                 [] OTHER -> "Success"

\* How many words sscanf reads.
Arity(op) == CASE op = "REGISTER" -> 3
               [] op \in {"LOGIN", "ADD_MEMBER", "REMOVE_MEMBER"} -> 2
               [] op \in {"LIST_GROUPS", "LIST_USERS", "SEARCH"} -> 0
               [] OTHER -> 1

Commands == DOMAIN Script \ {"REGISTER", "LOGIN", "ADD_AGAIN", "QUIT"}
Replies  == {"Success", "Exists", "Failed", "Invalid"}

MaybeWord == Words \cup {NoWord}
Line == [op : Commands \cup {"REGISTER", "LOGIN", "OTHER"},
         w1 : MaybeWord, w2 : MaybeWord, w3 : MaybeWord]

ASSUME HandlerAssumption ==
    /\ IsFiniteSet(Conns) /\ Lines \subseteq Line /\ Nothing \notin Line
    /\ Garbled \in Words /\ NoWord \notin Words

VARIABLES
    up,       \* the process runs
    tables,
    stage,    \* the thread of each connection: before its first line, in its
              \* command loop, or over
    id, name, \* its Client (main.c:21-25)
    work,     \* the command it carries out
    peer,     \* the client's end of each connection
    inbox,    \* what has arrived and was not received yet
    verdict   \* the reply to its first line, the only one a property is about

threadVars == <<stage, id, name, work>>
netVars    == <<peer, inbox>>
handlerVars == <<up, tables, threadVars, netVars, verdict>>

Idle == [op |-> "none", step |-> 1, w1 |-> Garbled, w2 |-> Garbled, w3 |-> Garbled,
         gid |-> 0, uid |-> 0]
Work == [op : DOMAIN Script \cup {"none"}, step : 1..4,
         w1 : Words, w2 : Words, w3 : Words, gid : Nat, uid : Nat]

HandlerTypeOK ==
    /\ up \in BOOLEAN
    /\ tables \in Tables
    /\ stage \in [Conns -> {"none", "queued", "first", "loop", "over"}]
    /\ id \in [Conns -> Nat]
    /\ name \in [Conns -> Words \cup {NoWord}]
    /\ work \in [Conns -> Work]
    /\ \A c \in Conns : work[c].op # "none" => work[c].step \in DOMAIN Script[work[c].op]
    /\ peer \in [Conns -> {"idle", "open", "gone", "reset"}]
    /\ inbox \in [Conns -> Line \cup {Nothing}]
    /\ verdict \in [Conns -> Replies \cup {"nothing"}]

HandlerInit ==
    /\ up = TRUE
    /\ tables = OldTables
    /\ stage = [c \in Conns |-> "none"]
    /\ id = [c \in Conns |-> Nobody]
    /\ name = [c \in Conns |-> NoWord]
    /\ work = [c \in Conns |-> Idle]
    /\ peer = [c \in Conns |-> "idle"]
    /\ inbox = [c \in Conns |-> Nothing]
    /\ verdict = [c \in Conns |-> "nothing"]

-----------------------------------------------------------------------------
(* Clients and network. *)

\* What arrives together is received together and is one command, whose last
\* word runs into what follows.
Glue(line) ==
    CASE line.w1 = NoWord -> [line EXCEPT !.w1 = Garbled]
      [] line.w1 # NoWord /\ line.w2 = NoWord -> [line EXCEPT !.w1 = Garbled]
      [] line.w2 # NoWord /\ line.w3 = NoWord -> [line EXCEPT !.w2 = Garbled]
      [] OTHER -> [line EXCEPT !.w3 = Garbled]

Connect(c) ==
    /\ peer[c] = "idle" /\ up
    /\ peer' = [peer EXCEPT ![c] = "open"]
    /\ stage' = [stage EXCEPT ![c] = "queued"]
    /\ UNCHANGED <<up, tables, id, name, work, inbox, verdict>>

Say(c, line) ==
    /\ peer[c] = "open" /\ stage[c] # "over"
    /\ inbox' = [inbox EXCEPT ![c] = IF @ = Nothing THEN line ELSE Glue(@)]
    /\ UNCHANGED <<up, tables, threadVars, peer, verdict>>

HangUp(c) ==
    /\ peer[c] = "open"
    /\ peer' = [peer EXCEPT ![c] = "gone"]
    /\ UNCHANGED <<up, tables, threadVars, inbox, verdict>>

-----------------------------------------------------------------------------
(* The process: its threads, and the rows in the database, which stay. *)

Die ==
    /\ up' = FALSE
    /\ stage' = [c \in Conns |-> IF stage[c] = "none" THEN "none" ELSE "over"]
    /\ id' = [c \in Conns |-> Nobody]
    /\ name' = [c \in Conns |-> NoWord]
    /\ work' = [c \in Conns |-> Idle]
    /\ inbox' = [c \in Conns |-> Nothing]
    /\ UNCHANGED <<tables, verdict>>

Kill == up /\ Die /\ UNCHANGED peer

\* main again; nothing puts anybody offline who was online.
Restart ==
    /\ ~up
    /\ up' = TRUE
    /\ UNCHANGED <<tables, threadVars, netVars, verdict>>

\* main.c:252-266: a thread, with a Client of its own.
Accept(c) ==
    /\ stage[c] = "queued"
    /\ stage' = [stage EXCEPT ![c] = "first"]
    /\ UNCHANGED <<up, tables, id, name, work, netVars, verdict>>

-----------------------------------------------------------------------------
(* Replies. *)

\* One send to a peer that is gone draws a reset, the next one SIGPIPE.
BrokenPipe(c, sends) == peer[c] = "reset" \/ (peer[c] = "gone" /\ sends = 2)
AfterReply(c) == [peer EXCEPT ![c] = IF @ = "gone" THEN "reset" ELSE @]

\* What SEARCH finds and its END_OF_RESULTS are two sends.
Sends(c, reply) == IF work[c].op = "SEARCH" /\ reply = "Success" THEN 2 ELSE 1

Judge(c, reply) ==
    verdict' = [verdict EXCEPT ![c] = IF @ = "nothing" THEN reply ELSE @]

\* The thread replies and goes on as stated.
Reply(c, reply, next) ==
    \/ BrokenPipe(c, Sends(c, reply)) /\ Die /\ UNCHANGED peer
    \/ /\ ~BrokenPipe(c, Sends(c, reply))
       /\ peer' = AfterReply(c)
       /\ Judge(c, reply)
       /\ next
       /\ UNCHANGED <<up, tables, inbox>>

\* The command ends; a thread that ends frees its Client.
Done(c) ==
    /\ work' = [work EXCEPT ![c] = Idle]
    /\ stage' = [stage EXCEPT ![c] = "loop"]
    /\ UNCHANGED <<id, name>>

End(c) ==
    /\ work' = [work EXCEPT ![c] = Idle]
    /\ stage' = [stage EXCEPT ![c] = "over"]
    /\ id' = [id EXCEPT ![c] = Nobody]
    /\ name' = [name EXCEPT ![c] = NoWord]

-----------------------------------------------------------------------------
(* Receiving a line. *)

\* What sscanf leaves in its n-th target: any word when it read none.
Reading(c, w, n) == CASE n > Arity(inbox[c].op) -> {Garbled}
                      [] n <= Arity(inbox[c].op) /\ w = NoWord -> Words
                      [] OTHER -> {w}

Start(c, op, w1, w2, w3) ==
    work' = [work EXCEPT ![c] = [op |-> op, step |-> 1, w1 |-> w1, w2 |-> w2,
                                 w3 |-> w3, gid |-> 0, uid |-> 0]]

Waits(c) == stage[c] \in {"first", "loop"} /\ work[c].op = "none"
Understood(c) ==
    inbox[c].op \in IF stage[c] = "first" THEN {"REGISTER", "LOGIN"} ELSE Commands

Receive(c) ==
    /\ Waits(c) /\ inbox[c] # Nothing /\ Understood(c)
    /\ \E w1 \in Reading(c, inbox[c].w1, 1), w2 \in Reading(c, inbox[c].w2, 2),
          w3 \in Reading(c, inbox[c].w3, 3) : Start(c, inbox[c].op, w1, w2, w3)
    /\ inbox' = [inbox EXCEPT ![c] = Nothing]
    /\ UNCHANGED <<up, tables, stage, id, name, peer, verdict>>

\* InvalidCommand ends a thread that has just begun; UnknownCommand does not.
Misunderstand(c) ==
    /\ Waits(c) /\ inbox[c] # Nothing /\ ~Understood(c)
    /\ \/ BrokenPipe(c, 1) /\ Die /\ UNCHANGED peer
       \/ /\ ~BrokenPipe(c, 1)
          /\ peer' = AfterReply(c)
          /\ Judge(c, "Invalid")
          /\ IF stage[c] = "first" THEN End(c) ELSE Done(c)
          /\ inbox' = [inbox EXCEPT ![c] = Nothing]
          /\ UNCHANGED <<up, tables>>

\* recv returns 0 or fails.
\* (Mutant: the thread ends at once, as it does before its first line.)
EndAtOnce(c) ==
    /\ Waits(c) /\ inbox[c] = Nothing /\ peer[c] \in {"gone", "reset"}
    /\ End(c)
    /\ UNCHANGED <<up, tables, netVars, verdict>>
HearTheEnd(c) ==
    /\ Waits(c) /\ inbox[c] = Nothing /\ peer[c] \in {"gone", "reset"}
    /\ IF stage[c] = "first"
         THEN End(c)
         ELSE Start(c, "QUIT", Garbled, Garbled, Garbled) /\ UNCHANGED <<stage, id, name>>
    /\ UNCHANGED <<up, tables, netVars, verdict>>

-----------------------------------------------------------------------------
(* Statements. *)

Asking(c) == work[c].op # "none"
Now(c)    == Script[work[c].op][work[c].step]

AnswerTo(c) ==
    LET w == work[c] IN
    CASE Now(c).ask = "find_user"        -> FindUser(tables, w.w1)
      [] Now(c).ask = "find_second_user" -> FindUser(tables, w.w2)
      [] Now(c).ask = "find_account"     -> FindAccount(tables, w.w1, w.w2)
      [] Now(c).ask = "find_group"       -> FindGroup(tables, w.w1)
      [] Now(c).ask = "am_I_member"      -> FindMember(tables, w.gid, id[c])
      [] Now(c).ask = "is_member"        -> FindMember(tables, w.gid, w.uid)
      [] Now(c).ask = "look"             -> Row(0)
      [] OTHER                           -> Null

TablesAfter(c) ==
    LET w == work[c] IN
    CASE Now(c).ask = "new_user"   -> NewUser(tables, w.w1, w.w2, w.w3)
      [] Now(c).ask = "new_group"  -> NewGroup(tables, w.w1, id[c])
      [] Now(c).ask = "new_admin"  -> NewMember(tables, w.gid, id[c], "admin")
      [] Now(c).ask = "join"       -> NewMember(tables, w.gid, id[c], "member")
      [] Now(c).ask = "new_member" -> NewMember(tables, w.gid, w.uid, "member")
      [] Now(c).ask = "leave"      -> DropMember(tables, w.gid, id[c])
      [] Now(c).ask = "remove"     -> DropMember(tables, w.gid, w.uid)
      [] Now(c).ask = "go_online"  -> SetStatus(tables, id[c], TRUE)
      [] Now(c).ask = "go_offline" -> SetStatus(tables, id[c], FALSE)
      [] OTHER                     -> tables

-----------------------------------------------------------------------------
(* Going on with the answer r. *)

Outcome(c, r) == Now(c)[r.class]
\* (Mutant: off by one.)
PastLast(c)   == work[c].step = Len(Script[work[c].op]) + 1
Last(c)       == work[c].step = Len(Script[work[c].op])

\* The ids a command has looked up are what its next statements are made of.
NextStep(c, r) ==
    work' = [work EXCEPT ![c].step = @ + 1,
                         ![c].gid = IF Now(c).ask = "find_group" THEN r.id ELSE @,
                         ![c].uid = IF Now(c).ask \in {"find_user", "find_second_user"}
                                      THEN r.id ELSE @]

GoOn(c, r) ==
    /\ Outcome(c, r) = "go" /\ ~Last(c) /\ Now(c).ask # "find_account"
    /\ NextStep(c, r)
    /\ UNCHANGED <<up, tables, stage, id, name, netVars, verdict>>

\* LoginSuccess, before the row says online.
\* (Mutant: nothing is replied.)
LogInSilently(c, r) ==
    /\ Now(c).ask = "find_account" /\ Outcome(c, r) = "go"
    /\ id' = [id EXCEPT ![c] = r.id]
    /\ name' = [name EXCEPT ![c] = work[c].w1]
    /\ NextStep(c, r)
    /\ UNCHANGED <<up, tables, stage, netVars, verdict>>
LogIn(c, r) ==
    /\ Now(c).ask = "find_account" /\ Outcome(c, r) = "go"
    /\ Reply(c, "Success", /\ id' = [id EXCEPT ![c] = r.id]
                           /\ name' = [name EXCEPT ![c] = work[c].w1]
                           /\ NextStep(c, r)
                           /\ UNCHANGED stage)

TryAgain(c, r) ==
    /\ Outcome(c, r) = "again"
    /\ Start(c, "ADD_AGAIN", work[c].w1, work[c].w2, work[c].w3)
    /\ UNCHANGED <<up, tables, stage, id, name, netVars, verdict>>

\* A refused login is the end of its thread; a refused registration is not.
\* (Mutant: the thread of a refused login ends without a word.)
RefuseSilently(c, r) ==
    /\ Outcome(c, r) \in Replies
    /\ IF work[c].op = "LOGIN"
         THEN End(c) /\ UNCHANGED <<up, tables, netVars, verdict>>
         ELSE Reply(c, Outcome(c, r), Done(c))
Refuse(c, r) ==
    /\ Outcome(c, r) \in Replies
    /\ Reply(c, Outcome(c, r), IF work[c].op = "LOGIN" THEN End(c) ELSE Done(c))

\* RegisterSuccess takes its id from mysql_insert_id (main.c:63-68).
Succeed(c, r) ==
    /\ Outcome(c, r) = "go" /\ Last(c) /\ Finally(work[c].op) # "Silence"
    /\ Reply(c, Finally(work[c].op),
         IF work[c].op = "REGISTER"
           THEN /\ \E n \in UserIds \cup {Nobody} : id' = [id EXCEPT ![c] = n]
                /\ name' = [name EXCEPT ![c] = work[c].w1]
                /\ work' = [work EXCEPT ![c] = Idle]
                /\ stage' = [stage EXCEPT ![c] = "loop"]
           ELSE Done(c))

FinishSilently(c, r) ==
    /\ Outcome(c, r) = "go" /\ Last(c) /\ Finally(work[c].op) = "Silence"
    /\ IF work[c].op = "QUIT" THEN End(c) ELSE Done(c)
    /\ UNCHANGED <<up, tables, netVars, verdict>>

Resume(c, r) ==
    \/ GoOn(c, r) \/ LogIn(c, r) \/ TryAgain(c, r)
    \/ Refuse(c, r) \/ Succeed(c, r) \/ FinishSilently(c, r)

\* Everything but the statements.
Environment == \E c \in Conns :
    Connect(c) \/ HangUp(c) \/ \E line \in Lines : Say(c, line)

Listen(c) == Accept(c) \/ Receive(c) \/ Misunderstand(c) \/ HearTheEnd(c)
=============================================================================
