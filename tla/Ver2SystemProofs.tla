--------------------------- MODULE Ver2SystemProofs ---------------------------
(***************************************************************************)
(* Proofs about the second server with its client programs, for any number *)
(* of programs and connections, however their threads interleave: what     *)
(* Ver2Proofs shows of the server holds of the system, and as long as all  *)
(* is calm a program that is admitted stands for an account.               *)
(***************************************************************************)
EXTENDS Ver2System, Ver2Proofs

-----------------------------------------------------------------------------
(* Programs are clients. *)

\* A program that has something to say has been told by its user what.
Told ==
    /\ prog \in [Programs -> {"start", "typing", "asked", "admitted", "cut_off",
                              "greet", "group", "file", "refused", "ended"}]
    /\ request \in [Programs -> Requests \cup {Nothing}]
    /\ \A p \in Programs :
         prog[p] \in {"asked", "admitted", "cut_off", "greet", "group", "refused"} =>
           request[p] \in Requests

LEMMA ToldStep ==
    ASSUME Told, [SystemNext]_systemVars
    PROVE  Told'
<1>1. ASSUME NEW p \in Programs, NEW to \in {"typing", "greet", "group", "file", "ended"},
             Move(p, to), to \in {"greet", "group"} => request[p] \in Requests
      PROVE  Told'
  BY <1>1 DEF Told, Move
<1>2. ASSUME NEW p \in Programs, ProgramStep(p) PROVE Told'
  <2>1. CASE Open(p)
    BY <1>1, <2>1 DEF Open, NoServer
  <2>2. CASE Ask(p)
    <3>1. PICK line \in Requests : /\ prog' = [prog EXCEPT ![p] = "asked"]
                                   /\ request' = [request EXCEPT ![p] = line]
      BY <2>2 DEF Ask
    <3>2. prog' \in [Programs -> {"start", "typing", "asked", "admitted", "cut_off",
                                 "greet", "group", "file", "refused", "ended"}]
      BY <3>1 DEF Told
    <3>3. request' \in [Programs -> Requests \cup {Nothing}]
      BY <3>1 DEF Told
    <3> QED
      BY <3>1, <3>2, <3>3 DEF Told
  <2>3. CASE HearReply(p)
    BY <2>3 DEF HearReply, Move, Told
  <2>4. CASE HearNothing(p)
    BY <2>4 DEF HearNothing, Move, Told
  <2>5. CASE OpenChat(p)
    BY <1>1, <2>5 DEF OpenChat, NoServer, Told
  <2>6. CASE SendName(p)
    BY <1>1, <2>6 DEF SendName, Told
  <2>7. CASE ConnectGroup(p) \/ ConnectFile(p)
    BY <1>1, <2>7 DEF ConnectGroup, ConnectFile, GiveUp
  <2> QED
    BY <1>2, <2>1, <2>2, <2>3, <2>4, <2>5, <2>6, <2>7 DEF ProgramStep
<1>3. ASSUME UNCHANGED <<prog, request>> PROVE Told'
  BY <1>3 DEF Told
<1> QED
  BY <1>2, <1>3 DEF SystemNext, Still, systemVars

\* A program does to the server what any client may do.
LEMMA ProgramsAreClients ==
    ASSUME Told, NEW p \in Programs, ProgramStep(p)
    PROVE  Outside \/ UNCHANGED serverVars
<1>1. p[1] \in Conns /\ p[2] \in Conns
  BY ProgramAssumption
<1>2. ASSUME NEW c \in Conns, KeepLink, Connect(c) \/ HangUp(c) \/ \E line \in Lines : Say(c, line)
      PROVE  Outside
  BY <1>2 DEF Outside, Environment
<1>3. CASE Open(p) \/ OpenChat(p)
  BY <1>1, <1>2, <1>3 DEF Open, OpenChat, NoServer
<1>4. CASE Ask(p)
  BY <1>1, <1>2, <1>4, ProgramAssumption DEF Ask
<1>5. CASE HearReply(p) \/ HearNothing(p) \/ ConnectGroup(p) \/ ConnectFile(p)
  BY <1>1, <1>2, <1>5 DEF HearReply, HearNothing, ConnectGroup, ConnectFile, GiveUp
<1>6. CASE SendName(p)
  <2>1. NameLine(request[p]) \in Lines
    BY <1>6, ProgramAssumption DEF Told, SendName
  <2> QED
    BY <1>1, <1>2, <1>6, <2>1 DEF SendName
<1> QED
  BY <1>3, <1>4, <1>5, <1>6, <1>1 DEF ProgramStep

\* A step of the system is one of the server.
LEMMA SystemSteps ==
    ASSUME Told, [SystemNext]_systemVars
    PROVE  [ServerNext]_serverVars
<1>1. ASSUME (AnyClient \/ Kill \/ Restart) /\ KeepLink PROVE Outside
  BY <1>1, ProgramAssumption DEF AnyClient, Outside, Environment
<1>2. ASSUME NEW p \in Programs, ProgramStep(p) PROVE Outside \/ UNCHANGED serverVars
  BY <1>2, ProgramsAreClients
<1> QED
  BY <1>1, <1>2 DEF SystemNext, ServerNext, systemVars

LEMMA ToldAlways == SystemSpec => []Told
<1>1. SystemInit => Told
  BY DEF SystemInit, Told
<1> QED
  BY <1>1, ToldStep, PTL DEF SystemSpec

\* To the server its programs are some clients among others: every run of the
\* system is one of the server with any clients (client main.c:27-156), so
\* whatever is shown of that holds here.
THEOREM SystemIsServer == SystemSpec => ServerSpec
<1>1. SystemInit => ServerInit
  BY DEF SystemInit
<1> QED
  BY <1>1, SystemSteps, ToldAlways, PTL DEF SystemSpec, ServerSpec

\* The state of server and programs is well typed.
THEOREM SystemTypeCorrect == SystemSpec => []SystemTypeOK
<1>1. TypeInv /\ Told => SystemTypeOK
  BY DEF TypeInv, Told, SystemTypeOK
<1> QED
  BY <1>1, ToldAlways, SystemIsServer, TypeCorrect, PTL

\* The statements are served, the ids taken and the tables changed as Ver2Proofs
\* shows, with the programs too.
COROLLARY SystemKeeps == SystemSpec => ServiceSpec /\ []LoginsAreOwn /\ ChangesAreOwn
  BY SystemIsServer, ServerImplementsService, LoginsOwn, ChangesOwn, PTL

-----------------------------------------------------------------------------
(* Who is admitted. *)

Account(line, t) == \E r \in t.users : r.name = line.w1 /\ r.password = line.w2

\* Before its first reply, the thread of c carries out nothing but that line.
InFirst(c, line) ==
    /\ stage[c] # "loop" /\ inbox[c] \in {Nothing, line}
    /\ work[c].op # "none" =>
         /\ work[c].op = line.op /\ work[c].w1 = line.w1 /\ work[c].w2 = line.w2
         /\ work[c].op = "LOGIN" => work[c].step = 1

\* Nobody else uses the first connection of a program, so it is in step with
\* the program until the program hangs up.
Follows(p) ==
    LET c == p[1]
        line == request[p]
    IN  /\ prog[p] = "start" => stage[c] = "none" /\ peer[c] = "idle"
        /\ prog[p] \in {"start", "typing"} =>
             /\ stage[c] # "loop" /\ inbox[c] = Nothing
             /\ work[c].op = "none" /\ verdict[c] = "nothing"
        /\ prog[p] \in {"typing", "asked"} => peer[c] = "open"
        /\ prog[p] = "asked" /\ verdict[c] = "nothing" => InFirst(c, line)
        /\ (prog[p] = "asked" /\ verdict[c] = "Success") \/ prog[p] = "admitted" =>
             Account(line, tables)

\* What a step leaves of a connection it is not about: the thread goes on, or
\* dies with the process.
LeavesAlone(c) ==
    /\ peer'[c] = peer[c] /\ verdict'[c] = verdict[c]
    /\ \/ stage'[c] = stage[c] /\ work'[c] = work[c] /\ inbox'[c] = inbox[c]
       \/ /\ stage'[c] \in {"none", "over"} /\ (stage[c] = "none" => stage'[c] = "none")
          /\ work'[c].op = "none" /\ inbox'[c] = Nothing

LEMMA LeavesOthers ==
    ASSUME HandlerTypeOK, NEW d \in Conns, NEW r, Resume(d, r) \/ Listen(d),
           NEW c \in Conns, c # d
    PROVE  LeavesAlone(c)
<1>1. ASSUME Die, UNCHANGED peer PROVE LeavesAlone(c)
  BY <1>1 DEF Die, LeavesAlone, Idle, HandlerTypeOK
<1>2. ASSUME Done(d) \/ End(d) PROVE stage'[c] = stage[c] /\ work'[c] = work[c]
  BY <1>2 DEF Done, End, HandlerTypeOK
<1>3. ASSUME NEW reply, Judge(d, reply) PROVE verdict'[c] = verdict[c]
  BY <1>3 DEF Judge, HandlerTypeOK
<1>4. AfterReply(d)[c] = peer[c]
  BY DEF AfterReply, HandlerTypeOK
<1>5. CASE GoOn(d, r)
  BY <1>5 DEF GoOn, NextStep, LeavesAlone, netVars, HandlerTypeOK
<1>6. CASE LogIn(d, r)
  BY <1>1, <1>3, <1>4, <1>6 DEF LogIn, Reply, NextStep, LeavesAlone, HandlerTypeOK
<1>7. CASE TryAgain(d, r)
  BY <1>7 DEF TryAgain, Start, LeavesAlone, netVars, HandlerTypeOK
<1>8. CASE Refuse(d, r)
  BY <1>1, <1>2, <1>3, <1>4, <1>8 DEF Refuse, Reply, LeavesAlone
<1>9. CASE Succeed(d, r)
  BY <1>1, <1>2, <1>3, <1>4, <1>9 DEF Succeed, Reply, LeavesAlone, HandlerTypeOK
<1>10. CASE FinishSilently(d, r)
  BY <1>2, <1>10 DEF FinishSilently, LeavesAlone, netVars
<1>11. CASE Accept(d)
  BY <1>11 DEF Accept, LeavesAlone, netVars, HandlerTypeOK
<1>12. CASE Receive(d)
  BY <1>12 DEF Receive, Start, LeavesAlone, HandlerTypeOK
<1>13. CASE Misunderstand(d)
  BY <1>1, <1>2, <1>3, <1>4, <1>13 DEF Misunderstand, LeavesAlone, HandlerTypeOK
<1>14. CASE HearTheEnd(d)
  BY <1>2, <1>14 DEF HearTheEnd, Start, LeavesAlone, netVars, HandlerTypeOK
<1> QED
  BY <1>5, <1>6, <1>7, <1>8, <1>9, <1>10, <1>11, <1>12, <1>13, <1>14 DEF Resume, Listen

\* A client who stays keeps its connection, and a first reply stands.
LEMMA FirstReplyStands ==
    ASSUME HandlerTypeOK, NEW c \in Conns, NEW r, Resume(c, r) \/ Listen(c), peer[c] = "open"
    PROVE  /\ peer'[c] = "open"
           /\ verdict[c] # "nothing" => verdict'[c] = verdict[c]
           /\ tables' = tables
<1>1. AfterReply(c)[c] = "open"
  BY DEF AfterReply, HandlerTypeOK
<1>2. ASSUME NEW reply, Judge(c, reply), verdict[c] # "nothing" PROVE verdict'[c] = verdict[c]
  BY <1>2 DEF Judge, HandlerTypeOK
<1>3. CASE Resume(c, r)
  BY <1>1, <1>2, <1>3 DEF Resume, GoOn, LogIn, TryAgain, Refuse, Succeed, FinishSilently,
                          Reply, Die, netVars
<1>4. CASE Listen(c)
  BY <1>1, <1>2, <1>4 DEF Listen, Accept, Receive, Misunderstand, HearTheEnd, Die, netVars
<1> QED
  BY <1>3, <1>4

\* A thread that listens for the line of its program.
LEMMA ListensForIt ==
    ASSUME HandlerTypeOK, NEW c \in Conns, NEW line, line \in Requests \cup {Nothing},
           InFirst(c, line), peer[c] = "open", verdict[c] = "nothing", Listen(c)
    PROVE  \/ verdict'[c] = "nothing" /\ InFirst(c, line)'
           \/ verdict'[c] = "Invalid" /\ inbox[c] # Nothing
<1>1. CASE Accept(c)
  BY <1>1 DEF Accept, InFirst, netVars, HandlerTypeOK
<1>2. CASE Receive(c)
  <2>1. inbox[c] = line /\ line \in Requests
    BY <1>2 DEF Receive, InFirst
  <2>2. /\ line.op \in {"REGISTER", "LOGIN"} /\ line.w1 # NoWord /\ line.w2 # NoWord
    BY <2>1, ProgramAssumption
  <2>3. Reading(c, line.w1, 1) = {line.w1} /\ Reading(c, line.w2, 2) = {line.w2}
    BY <2>1, <2>2 DEF Reading, Arity
  <2>4. PICK w3 : Start(c, line.op, line.w1, line.w2, w3)
    BY <1>2, <2>1, <2>3 DEF Receive
  <2>5. /\ work'[c].op = line.op /\ work'[c].w1 = line.w1 /\ work'[c].w2 = line.w2
        /\ work'[c].step = 1
    BY <2>4 DEF Start, HandlerTypeOK
  <2> QED
    BY <1>2, <2>5 DEF Receive, InFirst, HandlerTypeOK
<1>3. CASE Misunderstand(c)
  <2>1. ~BrokenPipe(c, 1)
    BY DEF BrokenPipe
  <2> QED
    BY <1>3, <2>1 DEF Misunderstand, Judge, HandlerTypeOK
<1>4. CASE HearTheEnd(c)
  BY <1>4 DEF HearTheEnd
<1> QED
  BY <1>1, <1>2, <1>3, <1>4 DEF Listen

\* What the statements of the first line lead to.
LEMMA FirstOutcomes ==
    ASSUME NEW class \in {"null", "none", "row"}
    PROVE  /\ Script["REGISTER"][1][class] \in {"Exists", "go"}
           /\ Script["REGISTER"][2][class] \in {"Failed", "go"}
           /\ Script["LOGIN"][1][class] \in {"Failed", "go"}
<1>1. /\ Script["REGISTER"][1]["row"] = "Exists" /\ Script["REGISTER"][1]["none"] = "go"
      /\ Script["REGISTER"][1]["null"] = "go"
  BY DEF Script, Step
<1>2. /\ Script["REGISTER"][2]["row"] = "go" /\ Script["REGISTER"][2]["none"] = "go"
      /\ Script["REGISTER"][2]["null"] = "Failed"
  BY DEF Script, Carry, Step
<1>3. /\ Script["LOGIN"][1]["row"] = "go" /\ Script["LOGIN"][1]["none"] = "Failed"
      /\ Script["LOGIN"][1]["null"] = "Failed"
  BY DEF Script, Find, Step
<1>4. CASE class = "row"
  BY <1>1, <1>2, <1>3, <1>4
<1>5. CASE class = "none"
  BY <1>1, <1>2, <1>3, <1>5
<1>6. CASE class = "null"
  BY <1>1, <1>2, <1>3, <1>6
<1> QED
  BY <1>4, <1>5, <1>6

\* A thread that goes on with its first line: when it replies Success it has
\* found the account.
LEMMA GoesOnWithIt ==
    ASSUME HandlerTypeOK, NEW c \in Conns, NEW line \in Requests, NEW r \in Answer,
           InFirst(c, line), peer[c] = "open", verdict[c] = "nothing",
           Asking(c), Honest(c, r, tables), Resume(c, r)
    PROVE  \/ verdict'[c] = "nothing" /\ InFirst(c, line)'
           \/ verdict'[c] \in {"Exists", "Failed"}
           \/ verdict'[c] = "Success" /\ Account(line, tables)
<1>0. \A n : ~BrokenPipe(c, n)
  BY DEF BrokenPipe
<1>1. /\ work[c].op = line.op /\ line.op \in {"REGISTER", "LOGIN"}
      /\ work[c].w1 = line.w1 /\ work[c].w2 = line.w2
      /\ work[c].step \in DOMAIN Script[work[c].op]
  BY ProgramAssumption DEF InFirst, Asking, HandlerTypeOK
<1>2. work[c].op = "LOGIN" => work[c].step = 1
  BY DEF InFirst, Asking
<1>3. work[c].op = "REGISTER" => work[c].step \in {1, 2}
  BY <1>1, ScriptLengths DEF TwoSteps
<1>4. r.class \in {"null", "none", "row"}
  BY AnswerShape
<1>5. Outcome(c, r) \in {"go", "Exists", "Failed"}
  BY <1>1, <1>2, <1>3, <1>4, FirstOutcomes DEF Outcome, Now
<1>6. CASE GoOn(c, r)
  <2>1. work[c].op = "REGISTER"
    BY <1>1, <1>2, <1>6, Asks DEF GoOn, Now
  <2>2. work'[c].op = "REGISTER" /\ work'[c].w1 = work[c].w1 /\ work'[c].w2 = work[c].w2
    <3>1. PICK g, u : work' = [work EXCEPT ![c].step = @ + 1, ![c].gid = g, ![c].uid = u]
      BY <1>6 DEF GoOn, NextStep
    <3>2. work[c] \in Work /\ work \in [Conns -> Work]
      BY DEF HandlerTypeOK
    <3> QED
      BY <2>1, <3>1, <3>2 DEF Work
  <2> QED
    <3>1. verdict' = verdict /\ stage' = stage /\ inbox' = inbox
      BY <1>6 DEF GoOn, netVars
    <3> QED
      BY <1>1, <2>1, <2>2, <3>1 DEF InFirst
<1>7. CASE LogIn(c, r)
  <2>1. work[c].op = "LOGIN" /\ work[c].step = 1
    <3>1. Script[work[c].op][work[c].step].ask = "find_account"
      BY <1>7 DEF LogIn, Now
    <3>2. work[c].op # "REGISTER"
      BY <1>3, <3>1, Asks
    <3> QED
      BY <1>1, <1>2, <3>2
  <2>2. Now(c) = Find("find_account")
    BY <2>1 DEF Now, Script
  <2>3. Find("find_account")[r.class] = "go"
    BY <1>7, <2>2 DEF LogIn, Outcome
  <2>4. Known(r.id, work[c].w1, work[c].w2, tables)
    BY <1>4, <1>7, <2>3, FindAndCarry DEF LogIn, Honest
  <2>5. Account(line, tables)
    BY <1>1, <2>4 DEF Known, Account
  <2>6. verdict'[c] = "Success"
    BY <1>0, <1>7 DEF LogIn, Reply, Judge, HandlerTypeOK
  <2> QED
    BY <2>5, <2>6
<1>8. CASE TryAgain(c, r)
  BY <1>5, <1>8 DEF TryAgain
<1>9. CASE Refuse(c, r)
  <2>1. Outcome(c, r) \in {"Exists", "Failed"}
    BY <1>5, <1>9 DEF Refuse, Replies
  <2>2. verdict'[c] = Outcome(c, r)
    BY <1>0, <1>9 DEF Refuse, Reply, Judge, HandlerTypeOK
  <2> QED
    BY <2>1, <2>2
<1>10. CASE Succeed(c, r)
  <2>1. work[c].op = "REGISTER"
    BY <1>1, <1>10 DEF Succeed, Finally
  <2>2. work[c].step = 2
    BY <1>10, <2>1, ScriptLengths DEF Succeed, Last, TwoSteps
  <2>3. Now(c) = Carry("new_user")
    BY <2>1, <2>2 DEF Now, Script
  <2>4. r = Null
    BY <2>3, FindAndCarry DEF Honest
  <2>5. Outcome(c, r) = "Failed"
    BY <2>3, <2>4, FindAndCarry DEF Outcome, Null
  <2> QED
    BY <1>10, <2>5 DEF Succeed
<1>11. CASE FinishSilently(c, r)
  <2>1. work[c].op = "LOGIN"
    BY <1>1, <1>11 DEF FinishSilently, Finally
  <2>2. ~Last(c)
    BY <1>2, <2>1, ScriptLengths DEF Last, TwoSteps
  <2> QED
    BY <1>11, <2>2 DEF FinishSilently
<1> QED
  BY <1>6, <1>7, <1>8, <1>9, <1>10, <1>11 DEF Resume

\* Steps that leave the first connection of p alone.
LEMMA LeftAlone ==
    ASSUME NEW p \in Programs, Follows(p), LeavesAlone(p[1]), UsersStay(tables, tables'),
           prog'[p] = prog[p], request'[p] = request[p]
    PROVE  Follows(p)'
<1>1. Account(request[p], tables) => Account(request[p], tables')
  BY DEF Account, UsersStay, Known
<1> QED
  BY <1>1 DEF Follows, LeavesAlone, InFirst

\* Steps of its own thread.
LEMMA FollowsThread ==
    ASSUME HandlerTypeOK, Told, NEW p \in Programs, Follows(p),
           NEW r \in Answer, Listen(p[1]) \/ (Asking(p[1]) /\ Honest(p[1], r, tables) /\ Resume(p[1], r)),
           prog'[p] = prog[p], request'[p] = request[p]
    PROVE  Follows(p)'
<1> DEFINE c == p[1]
           line == request[p]
<1>0. c \in Conns
  BY ProgramAssumption
<1>1. CASE prog[p] = "start"
  BY <1>0, <1>1 DEF Follows, Listen, Accept, Receive, Misunderstand, HearTheEnd, Waits, Asking
<1>2. CASE prog[p] = "typing"
  <2>1. Listen(c) /\ peer[c] = "open" /\ verdict[c] = "nothing" /\ InFirst(c, Nothing)
    BY <1>0, <1>2 DEF Follows, Asking, InFirst
  <2>2. CASE Accept(c)
    BY <1>0, <1>2, <2>1, <2>2 DEF Follows, Accept, netVars, HandlerTypeOK
  <2>3. ~Receive(c) /\ ~Misunderstand(c) /\ ~HearTheEnd(c)
    BY <1>2, <2>1 DEF Follows, Receive, Misunderstand, HearTheEnd
  <2> QED
    BY <2>1, <2>2, <2>3 DEF Listen
<1>3. CASE prog[p] = "asked"
  <2>1. peer'[c] = "open" /\ tables' = tables
         /\ (verdict[c] # "nothing" => verdict'[c] = verdict[c])
    BY <1>0, <1>3, FirstReplyStands DEF Follows
  <2>2. line \in Requests
    BY <1>3 DEF Told
  <2>3. verdict[c] = "nothing" =>
          \/ verdict'[c] = "nothing" /\ InFirst(c, line)'
          \/ verdict'[c] \in {"Exists", "Failed", "Invalid"}
          \/ verdict'[c] = "Success" /\ Account(line, tables)
    BY <1>0, <1>3, <2>2, ListensForIt, GoesOnWithIt DEF Follows
  <2> HIDE DEF c, line
  <2>4. verdict[c] = "Success" => Account(line, tables)
    BY <1>3 DEF Follows, c, line
  <2>5. /\ verdict'[c] = "nothing" => InFirst(c, line)'
        /\ verdict'[c] = "Success" => Account(line, tables)
    BY <2>1, <2>3, <2>4
  <2> QED
    BY <1>3, <2>1, <2>5 DEF Follows, c, line, Account, InFirst
<1>4. CASE prog[p] \notin {"start", "typing", "asked"}
  <2>1. tables' = tables
    BY <1>0 DEF Listen, Accept, Receive, Misunderstand, HearTheEnd, Die,
                Resume, GoOn, LogIn, TryAgain, Refuse, Succeed, FinishSilently, Reply
  <2> QED
    BY <1>4, <2>1 DEF Follows, Account
<1> QED
  BY <1>1, <1>2, <1>3, <1>4

\* Somebody else's steps, and the execution of a statement.
LEMMA FollowsOthers ==
    ASSUME HandlerTypeOK, NEW p \in Programs, Follows(p), NEW d \in Conns \ {p[1]},
           NEW r, Listen(d) \/ Resume(d, r),
           prog'[p] = prog[p], request'[p] = request[p]
    PROVE  Follows(p)'
<1>1. LeavesAlone(p[1])
  BY LeavesOthers, ProgramAssumption
<1>2. tables' = tables
  BY DEF Listen, Accept, Receive, Misunderstand, HearTheEnd, Die, Resume, GoOn, LogIn,
         TryAgain, Refuse, Succeed, FinishSilently, Reply
<1> QED
  BY <1>1, <1>2, LeftAlone DEF UsersStay

LEMMA FollowsExecution ==
    ASSUME HandlerTypeOK, NEW p \in Programs, Follows(p), NEW d \in Conns,
           SendStatement(d), prog'[p] = prog[p], request'[p] = request[p]
    PROVE  Follows(p)'
<1>1. UsersStay(tables, tables')
  BY UsersAreNeverRemoved DEF SendStatement
<1>2. LeavesAlone(p[1])
  BY DEF SendStatement, LeavesAlone, threadVars, netVars
<1> QED
  BY <1>1, <1>2, LeftAlone

\* Steps of threads, of which each has the connection for itself.
LEMMA FollowsThreads ==
    ASSUME Quiet, LoginInv, Told, NEW p \in Programs, Follows(p), NEW d \in Conns,
           Thread(d), Statement(d) => Inside(d) \/ Alone(d),
           prog'[p] = prog[p], request'[p] = request[p]
    PROVE  Follows(p)'
<1>0. HandlerTypeOK /\ Null \in Answer /\ (Inside(d) => Asking(d))
  BY NullIsAnswer DEF Quiet, TypeInv, ServerTypeOK
<1>1. CASE Listen(d)
  BY <1>0, <1>1, FollowsThread, FollowsOthers
<1>2. CASE Statement(d) /\ (Inside(d) \/ Alone(d))
  <2>1. CASE SendStatement(d)
    BY <1>0, <2>1, FollowsExecution
  <2>2. CASE ReadHead(d)
    <3>1. LeavesAlone(p[1]) /\ tables' = tables
      BY <2>2 DEF ReadHead, LeavesAlone, handlerVars, threadVars, netVars
    <3> QED
      BY <3>1, LeftAlone DEF UsersStay
  <2>3. ASSUME NEW r \in Answer, Answers[d] = r, Inside(d), Resume(d, r)
        PROVE  Follows(p)'
    <3>1. Honest(d, r, tables) /\ Asking(d)
      BY <1>0, <2>3 DEF LoginInv
    <3> QED
      BY <1>0, <2>3, <3>1, FollowsThread, FollowsOthers
  <2>4. CASE ReadStatus(d)
    <3>1. call[d].at = "sent" /\ Inside(d) /\ Resume(d, Null)
      BY <2>4 DEF ReadStatus, Return, Inside
    <3>2. Head(wire) = Null
      <4>1. Head(wire) \in Answer
        BY <2>4, HeadTailProperties DEF ReadStatus, Quiet, TypeInv, ServerTypeOK
      <4> QED
        BY <2>4, <4>1, AnswerShape DEF ReadStatus
    <3>3. Answers[d] = Null
      BY <3>1, <3>2, AnswerCases DEF Quiet
    <3> QED
      BY <1>0, <2>3, <3>1, <3>3
  <2>5. CASE call[d].at = "read" /\ Return(d, call[d].got, wire, "ready", fresh)
    <3>1. Inside(d) /\ Answers[d] = call[d].got /\ Resume(d, call[d].got)
      BY <2>5, AnswerCases DEF Inside, Return, Quiet
    <3>2. call[d].got \in Answer
      BY DEF Quiet, TypeInv, ServerTypeOK, Call
    <3> QED
      BY <2>3, <3>1, <3>2
  <2> QED
    BY <1>2, <2>1, <2>2, <2>4, <2>5, TidyStatement
<1> QED
  BY <1>1, <1>2 DEF Thread

\* Other clients and other programs use other connections.
LEMMA FollowsClients ==
    ASSUME HandlerTypeOK, NEW p \in Programs, Follows(p), NEW d \in Conns \ {p[1]},
           Connect(d) \/ HangUp(d) \/ \E line \in Lines : Say(d, line),
           prog'[p] = prog[p], request'[p] = request[p]
    PROVE  Follows(p)'
<1>1. p[1] \in Conns
  BY ProgramAssumption
<1>2. LeavesAlone(p[1]) /\ tables' = tables
  BY <1>1 DEF Connect, HangUp, Say, LeavesAlone, threadVars, HandlerTypeOK
<1> QED
  BY <1>2, LeftAlone DEF UsersStay

\* A program that does not touch the server, and a server that dies or starts.
LEMMA FollowsIdle ==
    ASSUME NEW p \in Programs, Follows(p), UNCHANGED handlerVars \/ Kill \/ Restart,
           prog'[p] = prog[p], request'[p] = request[p]
    PROVE  Follows(p)'
<1>1. p[1] \in Conns
  BY ProgramAssumption
<1>2. CASE Kill
  <2>1. LeavesAlone(p[1]) /\ tables' = tables
    BY <1>1, <1>2 DEF LeavesAlone, Kill, Die, Idle
  <2> QED
    BY <2>1, LeftAlone DEF UsersStay
<1>3. CASE UNCHANGED handlerVars \/ Restart
  <2>1. LeavesAlone(p[1]) /\ tables' = tables
    BY <1>3 DEF LeavesAlone, handlerVars, threadVars, netVars, Restart
  <2> QED
    BY <2>1, LeftAlone DEF UsersStay
<1> QED
  BY <1>2, <1>3

\* The steps of the program itself.
LEMMA FollowsItself ==
    ASSUME HandlerTypeOK, Told, NEW p \in Programs, Follows(p), ProgramStep(p)
    PROVE  Follows(p)'
<1> DEFINE c == p[1]
<1>0. c \in Conns /\ p[2] \in Conns \ {c}
  BY ProgramAssumption
<1>1. CASE Open(p)
  BY <1>0, <1>1 DEF Open, NoServer, Connect, Move, Follows, HandlerTypeOK, Told, serverVars,
                    handlerVars, threadVars, netVars
<1>2. CASE Ask(p)
  <2>1. PICK line \in Requests :
          /\ \/ Say(c, line) /\ KeepLink
             \/ stage[c] = "over" /\ UNCHANGED serverVars
          /\ prog' = [prog EXCEPT ![p] = "asked"]
          /\ request' = [request EXCEPT ![p] = line]
    BY <1>2 DEF Ask
  <2>2. /\ prog'[p] = "asked" /\ request'[p] = line
        /\ stage'[c] = stage[c] /\ work'[c] = work[c] /\ peer'[c] = peer[c]
        /\ verdict'[c] = verdict[c] /\ inbox'[c] \in {Nothing, line}
    BY <1>0, <1>2, <2>1 DEF Ask, Say, Told, Follows, HandlerTypeOK, serverVars, handlerVars,
                            threadVars, netVars
  <2> QED
    BY <1>2, <2>2 DEF Ask, Follows, InFirst
<1>3. CASE HearReply(p)
  BY <1>3, ProgramAssumption DEF HearReply, HangUp, Move, Follows, Told, Account
<1>4. CASE HearNothing(p) \/ ConnectGroup(p) \/ ConnectFile(p)
  BY <1>4 DEF HearNothing, ConnectGroup, ConnectFile, GiveUp, Move, Follows, Told
<1>5. CASE OpenChat(p) \/ SendName(p)
  BY <1>5 DEF OpenChat, SendName, NoServer, Move, Follows, Told
<1> QED
  BY <1>1, <1>2, <1>3, <1>4, <1>5 DEF ProgramStep

\* Another program.
LEMMA FollowsPrograms ==
    ASSUME HandlerTypeOK, Told, NEW p \in Programs, Follows(p),
           NEW q \in Programs, q # p, ProgramStep(q)
    PROVE  Follows(p)'
<1>1. q[1] \in Conns \ {p[1]} /\ q[2] \in Conns \ {p[1]}
  BY ProgramAssumption
<1>2. prog'[p] = prog[p] /\ request'[p] = request[p]
  BY DEF ProgramStep, Open, Ask, HearReply, HearNothing, OpenChat, SendName, ConnectGroup,
         ConnectFile, GiveUp, NoServer, Move, Told
<1>3. CASE UNCHANGED serverVars
  BY <1>2, <1>3, FollowsIdle DEF serverVars
<1>4. CASE \E d \in {q[1], q[2]} : Connect(d) \/ HangUp(d) \/ \E line \in Lines : Say(d, line)
  BY <1>1, <1>2, <1>4, FollowsClients
<1>5. request[q] \in Requests => NameLine(request[q]) \in Lines /\ request[q] \in Lines
  BY ProgramAssumption
<1>6. \A line \in Requests : line \in Lines
  BY ProgramAssumption
<1> QED
  BY <1>3, <1>4, <1>5, <1>6 DEF ProgramStep, Open, Ask, HearReply, HearNothing, OpenChat,
     SendName, ConnectGroup, ConnectFile, GiveUp, NoServer, Told

\* A program that was told LoginSuccess or RegisterSuccess stands for an account
\* with the name and the password its user typed (client main.c:76, 105), however
\* the threads interleave and the server dies, until two threads have been in
\* execute_query at once; from then on it need not, as LoginsAreChecked shows.
THEOREM AdmittedHaveOne == SystemSpec => []AdmittedHaveAccount
<1> DEFINE Follow == \A p \in Programs : Follows(p)
<1>1. SystemInit => Follow
  BY ProgramAssumption DEF SystemInit, ServerInit, HandlerInit, Follows, Idle
<1>2. CalmInv /\ (calm => LoginInv) /\ Told /\ (calm => Follow) /\ [SystemNext]_systemVars
        => (calm => Follow)'
  <2> SUFFICES ASSUME CalmInv, calm => LoginInv, Told, calm => Follow,
                      [SystemNext]_systemVars, calm', NEW p \in Programs
               PROVE  Follows(p)'
    OBVIOUS
  <2>0. [ServerNext]_serverVars
    BY SystemSteps
  <2>1. Quiet /\ LoginInv /\ Follows(p) /\ HandlerTypeOK
    BY <2>0, CalmStep DEF CalmInv, Quiet, TypeInv, ServerTypeOK, serverVars, linkVars
  <2>2. CASE AnyClient /\ Still
    <3>1. PICK d \in Conns \ OfPrograms :
            Connect(d) \/ HangUp(d) \/ \E line \in OtherLines : Say(d, line)
      BY <2>2 DEF AnyClient
    <3>2. d # p[1]
      BY <3>1 DEF OfPrograms
    <3> QED
      BY <2>1, <2>2, <3>1, <3>2, FollowsClients, ProgramAssumption DEF Still
  <2>3. CASE (Kill \/ Restart \/ UNCHANGED handlerVars) /\ Still
    BY <2>1, <2>3, FollowsIdle DEF Still
  <2>4. ASSUME NEW d \in Conns, Thread(d), Still PROVE Follows(p)'
    <3>1. Statement(d) => Inside(d) \/ Alone(d)
      BY <2>4, CalmStep DEF ServerNext
    <3> QED
      BY <2>1, <2>4, <3>1, FollowsThreads DEF Still
  <2>5. CASE \E q \in Programs : ProgramStep(q)
    BY <2>1, <2>5, FollowsItself, FollowsPrograms
  <2> QED
    BY <2>2, <2>3, <2>4, <2>5 DEF SystemNext, systemVars, serverVars, Still
<1>3. (calm => Follow) => AdmittedHaveAccount
  BY DEF Follows, Account, HasAccount, AdmittedHaveAccount
<1> HIDE DEF Follow
<1> QED
  BY <1>1, <1>2, <1>3, ToldAlways, SystemIsServer, CalmInvariant, LoginInvInvariant, PTL
     DEF SystemSpec
=============================================================================
