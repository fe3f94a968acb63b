------------------------------ MODULE Ver2Server ------------------------------
(***************************************************************************)
(* The second server with the connection to MySQL its threads share        *)
(* without a lock: `db` of main.c:27.  execute_query (db.c:25-31) is three *)
(* steps of the client library: mysql_query sends the statement, then      *)
(* reads the head of the reply; mysql_store_result reads its rows.         *)
(*                                                                         *)
(* The library keeps one status and one packet counter per connection:     *)
(* while rows are pending a new statement is refused ("commands out of     *)
(* sync"), and a reply that begins after another one was read since the    *)
(* last statement has the wrong packet number, which closes the            *)
(* connection.  Nothing opens it again: every later query returns NULL.    *)
(*                                                                         *)
(* Nothing keeps two threads from being in execute_query at a time, and    *)
(* then the one may read the reply to the other.  calm is history: it says *)
(* whether that has been so, never what may happen next.                   *)
(*                                                                         *)
(* What a thread does between two statements is one step with the end of   *)
(* the first one: it touches nothing another thread sees.                  *)
(***************************************************************************)
EXTENDS Ver2Handlers

VARIABLES
    call,   \* where each thread is in execute_query, and what it got
    wire,   \* replies of the database that nobody has read
    link,   \* "ready", "result" (rows are pending) or "lost"
    fresh,  \* no reply was read since the last statement was sent
    calm    \* no thread has called execute_query while another was in it

linkVars == <<call, wire, link, fresh, calm>>
serverVars == <<handlerVars, linkVars>>

NoCall == [at |-> "out", got |-> Null]
Call   == [at : {"out", "sent", "read"}, got : Answer]

ServerTypeOK ==
    /\ HandlerTypeOK
    /\ call \in [Conns -> Call]
    /\ wire \in Seq(Answer)
    /\ link \in {"ready", "result", "lost"}
    /\ fresh \in BOOLEAN
    /\ calm \in BOOLEAN

ServerInit ==
    /\ HandlerInit
    /\ call = [c \in Conns |-> NoCall]
    /\ wire = <<>> /\ link = "ready" /\ fresh = TRUE
    /\ calm = TRUE

NewLink ==
    /\ call' = [c \in Conns |-> NoCall]
    /\ wire' = <<>> /\ link' = "ready" /\ fresh' = TRUE

Inside(c) == call[c].at # "out"
Alone(c)  == \A d \in Conns \ {c} : ~Inside(d)
Enter(c)  == calm' = (calm /\ Alone(c))
Goto(c, at, got) == call' = [call EXCEPT ![c] = [at |-> at, got |-> got]]

\* A process that dies takes the connection with it.
KeepLink ==
    /\ IF up' THEN UNCHANGED <<call, wire, link, fresh>> ELSE NewLink
    /\ UNCHANGED calm

\* execute_query returns r, and leaves the connection as stated.
Return(c, r, w, l, f) ==
    /\ Resume(c, r)
    /\ IF up' THEN /\ call' = [call EXCEPT ![c] = NoCall]
                   /\ wire' = w /\ link' = l /\ fresh' = f
              ELSE NewLink

SendStatement(c) ==
    /\ Asking(c) /\ ~Inside(c) /\ link = "ready"
    /\ Enter(c)
    /\ Goto(c, "sent", Null)
    /\ wire' = Append(wire, AnswerTo(c))
    /\ tables' = TablesAfter(c)
    /\ fresh' = TRUE
    /\ UNCHANGED <<up, threadVars, netVars, verdict, link>>

OutOfSync(c) ==
    /\ Asking(c) /\ ~Inside(c) /\ link # "ready"
    /\ Enter(c)
    /\ Return(c, Null, wire, link, fresh)

\* An INSERT, UPDATE or DELETE has no rows: mysql_store_result returns NULL.
ReadStatus(c) ==
    /\ call[c].at = "sent" /\ link = "ready" /\ wire # <<>> /\ fresh
    /\ Head(wire).class = "null"
    /\ Return(c, Null, Tail(wire), "ready", FALSE)
    /\ UNCHANGED calm

ReadHead(c) ==
    /\ call[c].at = "sent" /\ link = "ready" /\ wire # <<>> /\ fresh
    /\ Head(wire).class # "null"
    /\ Goto(c, "read", Head(wire))
    /\ wire' = Tail(wire) /\ link' = "result" /\ fresh' = FALSE
    /\ UNCHANGED <<handlerVars, calm>>

\* Somebody has read in between: the reply makes no sense.
ReadNonsense(c) ==
    /\ call[c].at = "sent"
    /\ link # "ready" \/ (wire # <<>> /\ ~fresh)
    /\ Return(c, Null, <<>>, "lost", fresh)
    /\ UNCHANGED calm

\* (Mutant: the rows stay pending.)
UseResult(c) ==
    /\ call[c].at = "read"
    /\ Return(c, call[c].got, wire, link, fresh)
    /\ UNCHANGED calm
StoreResult(c) ==
    /\ call[c].at = "read"
    /\ \/ link = "result" /\ Return(c, call[c].got, wire, "ready", fresh)
       \/ link # "result" /\ Return(c, Null, wire, link, fresh)
    /\ UNCHANGED calm

Statement(c) ==
    \/ SendStatement(c) \/ OutOfSync(c)
    \/ ReadStatus(c) \/ ReadHead(c) \/ ReadNonsense(c) \/ StoreResult(c)

Thread(c) == (Listen(c) /\ KeepLink) \/ Statement(c)

Outside == (Environment \/ Kill \/ Restart) /\ KeepLink

\* All interleavings of the threads.
ServerNext == Outside \/ \E c \in Conns : Thread(c)
ServerSpec == ServerInit /\ [][ServerNext]_serverVars

-----------------------------------------------------------------------------
(* The server is Ver2Service: as long as all is calm, every thread gets the *)
(* answer to its own statement, and once it is not, anybody's or none.      *)

Answers == [c \in Conns |->
    CASE ~Inside(c) -> NoAnswer
      [] Inside(c) /\ ~calm -> Mixed
      [] call[c].at = "sent" /\ calm -> Head(wire)
      [] call[c].at = "read" /\ calm -> call[c].got]

Service == INSTANCE Ver2Service WITH answer <- Answers

ServiceSpec == Service!ServiceSpec

-----------------------------------------------------------------------------
(* What the threads keep right with other threads between any two of their  *)
(* statements, as long as no two threads have been in execute_query at a    *)
(* time; without that proviso none of it holds.                             *)

\* A thread that has an id acts for the user who logged in on its connection,
\* whatever its other commands looked up and whatever other threads did between
\* the SELECT and the UPDATE of the login (main.c:77-92), if statements have
\* never overlapped.
LoginsAreOwn ==
    calm => \A c \in Conns : id[c] # Nobody =>
        \E r \in tables.users : r.id = id[c] /\ r.name = name[c]

\* The status of a user changes only when a thread of that user logs in or
\* leaves, and a membership only by a command that names its group, for the
\* user of the thread or one the command names (main.c:87, 113; group.c:82,
\* 111, 170, 214), if statements have never overlapped before.
StatusOf(u, t) == {r.online : r \in {s \in t.users : s.id = u}}
Names(c, g, u, t) ==
    /\ \E r \in t.groups : r.id = g /\ r.name = work[c].w1
    /\ \/ work[c].op \in {"JOIN_GROUP", "LEAVE_GROUP", "CREATE_GROUP"} /\ id[c] = u
       \/ /\ work[c].op \in {"ADD_MEMBER", "ADD_AGAIN", "REMOVE_MEMBER"}
          /\ \E r \in t.users : r.id = u /\ r.name = work[c].w2
ChangesAreOwn == [][calm =>
    /\ \A r \in tables.users : StatusOf(r.id, tables') # StatusOf(r.id, tables) =>
         \E c \in Conns : id[c] = r.id /\ work[c].op \in {"LOGIN", "QUIT"}
    /\ \A m \in (tables.members \ tables'.members)
                   \cup (tables'.members \ tables.members) :
         \E c \in Conns : Names(c, m.group, m.user, tables) ]_serverVars
=============================================================================
