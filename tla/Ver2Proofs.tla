------------------------------ MODULE Ver2Proofs ------------------------------
(***************************************************************************)
(* Proofs about the second server, for any number of connections, any      *)
(* lines and any tables, however the threads interleave: the shared        *)
(* connection to the database serves them as Ver2Service says, and what    *)
(* they do is right as long as all is calm.                                *)
(***************************************************************************)
EXTENDS Ver2Server, SequenceTheorems, TLAPS

-----------------------------------------------------------------------------
(* The scripts, the tables and the answers. *)

\* A script has one to four statements.
OneStep    == {"LIST_GROUPS", "LIST_USERS", "SEARCH", "QUIT"}
TwoSteps   == {"REGISTER", "LOGIN", "PRIVATE", "LEAVE_GROUP"}
ThreeSteps == {"CREATE_GROUP", "JOIN_GROUP", "REMOVE_MEMBER", "SEND"}
FourSteps  == {"ADD_MEMBER", "ADD_AGAIN"}

LEMMA ScriptLengths ==
    /\ DOMAIN Script = OneStep \cup TwoSteps \cup ThreeSteps \cup FourSteps
    /\ \A op \in OneStep    : Len(Script[op]) = 1 /\ DOMAIN Script[op] = 1..1
    /\ \A op \in TwoSteps   : Len(Script[op]) = 2 /\ DOMAIN Script[op] = 1..2
    /\ \A op \in ThreeSteps : Len(Script[op]) = 3 /\ DOMAIN Script[op] = 1..3
    /\ \A op \in FourSteps  : Len(Script[op]) = 4 /\ DOMAIN Script[op] = 1..4
<1>0. DOMAIN Script = OneStep \cup TwoSteps \cup ThreeSteps \cup FourSteps
  BY DEF Script, OneStep, TwoSteps, ThreeSteps, FourSteps
<1>1. \A op \in OneStep : Len(Script[op]) = 1 /\ DOMAIN Script[op] = 1..1
  <2>1. Len(Script["LIST_GROUPS"]) = 1 /\ DOMAIN Script["LIST_GROUPS"] = 1..1
    BY DEF Script
  <2>2. Len(Script["LIST_USERS"]) = 1 /\ DOMAIN Script["LIST_USERS"] = 1..1
    BY DEF Script
  <2>3. Len(Script["SEARCH"]) = 1 /\ DOMAIN Script["SEARCH"] = 1..1
    BY DEF Script
  <2>4. Len(Script["QUIT"]) = 1 /\ DOMAIN Script["QUIT"] = 1..1
    BY DEF Script
  <2> QED
    BY <2>1, <2>2, <2>3, <2>4 DEF OneStep
<1>2. \A op \in TwoSteps : Len(Script[op]) = 2 /\ DOMAIN Script[op] = 1..2
  <2>1. Len(Script["REGISTER"]) = 2 /\ DOMAIN Script["REGISTER"] = 1..2
    BY DEF Script
  <2>2. Len(Script["LOGIN"]) = 2 /\ DOMAIN Script["LOGIN"] = 1..2
    BY DEF Script
  <2>3. Len(Script["PRIVATE"]) = 2 /\ DOMAIN Script["PRIVATE"] = 1..2
    BY DEF Script
  <2>4. Len(Script["LEAVE_GROUP"]) = 2 /\ DOMAIN Script["LEAVE_GROUP"] = 1..2
    BY DEF Script
  <2> QED
    BY <2>1, <2>2, <2>3, <2>4 DEF TwoSteps
<1>3. \A op \in ThreeSteps : Len(Script[op]) = 3 /\ DOMAIN Script[op] = 1..3
  <2>1. Len(Script["CREATE_GROUP"]) = 3 /\ DOMAIN Script["CREATE_GROUP"] = 1..3
    BY DEF Script
  <2>2. Len(Script["JOIN_GROUP"]) = 3 /\ DOMAIN Script["JOIN_GROUP"] = 1..3
    BY DEF Script
  <2>3. Len(Script["REMOVE_MEMBER"]) = 3 /\ DOMAIN Script["REMOVE_MEMBER"] = 1..3
    BY DEF Script
  <2>4. Len(Script["SEND"]) = 3 /\ DOMAIN Script["SEND"] = 1..3
    BY DEF Script
  <2> QED
    BY <2>1, <2>2, <2>3, <2>4 DEF ThreeSteps
<1>4. \A op \in FourSteps : Len(Script[op]) = 4 /\ DOMAIN Script[op] = 1..4
  <2>1. Len(Script["ADD_MEMBER"]) = 4 /\ DOMAIN Script["ADD_MEMBER"] = 1..4
    BY DEF Script, AddMember
  <2>2. Len(Script["ADD_AGAIN"]) = 4 /\ DOMAIN Script["ADD_AGAIN"] = 1..4
    BY DEF Script, AddMember
  <2> QED
    BY <2>1, <2>2 DEF FourSteps
<1> QED
  BY <1>0, <1>1, <1>2, <1>3, <1>4

LEMMA StepBounds ==
    ASSUME NEW op \in DOMAIN Script
    PROVE  Len(Script[op]) \in 1..4 /\ DOMAIN Script[op] = 1..Len(Script[op])
  BY ScriptLengths

\* What each statement of each script asks.
LEMMA Asks ==
    /\ Script["REGISTER"][1].ask = "find_user" /\ Script["REGISTER"][2].ask = "new_user"
    /\ Script["LOGIN"][1].ask = "find_account" /\ Script["LOGIN"][2].ask = "go_online"
    /\ Script["PRIVATE"][1].ask = "find_user" /\ Script["PRIVATE"][2].ask = "new_message"
    /\ Script["CREATE_GROUP"][1].ask = "new_group" /\ Script["CREATE_GROUP"][2].ask = "find_group"
    /\ Script["CREATE_GROUP"][3].ask = "new_admin"
    /\ Script["JOIN_GROUP"][1].ask = "find_group" /\ Script["JOIN_GROUP"][2].ask = "am_I_member"
    /\ Script["JOIN_GROUP"][3].ask = "join"
    /\ Script["LEAVE_GROUP"][1].ask = "find_group" /\ Script["LEAVE_GROUP"][2].ask = "leave"
    /\ Script["ADD_MEMBER"][1].ask = "find_group" /\ Script["ADD_MEMBER"][2].ask = "find_second_user"
    /\ Script["ADD_MEMBER"][3].ask = "is_member" /\ Script["ADD_MEMBER"][4].ask = "new_member"
    /\ Script["ADD_AGAIN"][1].ask = "find_group" /\ Script["ADD_AGAIN"][2].ask = "find_second_user"
    /\ Script["ADD_AGAIN"][3].ask = "is_member" /\ Script["ADD_AGAIN"][4].ask = "new_member"
    /\ Script["REMOVE_MEMBER"][1].ask = "find_group" /\ Script["REMOVE_MEMBER"][2].ask = "find_second_user"
    /\ Script["REMOVE_MEMBER"][3].ask = "remove"
    /\ Script["SEND"][1].ask = "find_group" /\ Script["SEND"][2].ask = "am_I_member"
    /\ Script["SEND"][3].ask = "new_message"
    /\ Script["LIST_GROUPS"][1].ask = "look"
    /\ Script["LIST_USERS"][1].ask = "look"
    /\ Script["SEARCH"][1].ask = "look"
    /\ Script["QUIT"][1].ask = "go_offline"
  BY DEF Script, AddMember, Step, Carry, Find

\* An account is looked for by LOGIN only, and before anything else; a user is
\* inserted by REGISTER only, and at last.
LEMMA FirstAsks ==
    ASSUME NEW op \in DOMAIN Script, NEW i \in DOMAIN Script[op]
    PROVE  /\ Script[op][i].ask = "find_account" => op = "LOGIN" /\ i = 1
           /\ op = "REGISTER" /\ i = 2 => Script[op][i] = Carry("new_user")
<1>0. Script["REGISTER"][2] = Carry("new_user")
  BY DEF Script
<1>1. CASE op \in OneStep
  <2>1. i \in {1}
    BY <1>1, ScriptLengths
  <2> QED
    BY <1>1, <2>1, Asks DEF OneStep
<1>2. CASE op \in TwoSteps
  <2>1. i \in {1, 2}
    BY <1>2, ScriptLengths
  <2> QED
    BY <1>0, <1>2, <2>1, Asks DEF TwoSteps
<1>3. CASE op \in ThreeSteps
  <2>1. i \in {1, 2, 3}
    BY <1>3, ScriptLengths
  <2> QED
    BY <1>3, <2>1, Asks DEF ThreeSteps
<1>4. CASE op \in FourSteps
  <2>1. i \in {1, 2, 3, 4}
    BY <1>4, ScriptLengths
  <2> QED
    BY <1>4, <2>1, Asks DEF FourSteps
<1> QED
  BY <1>1, <1>2, <1>3, <1>4, ScriptLengths

\* The commands are the scripts that a line can ask for.
LEMMA CommandScripts ==
    /\ Commands \cup {"REGISTER", "LOGIN", "ADD_AGAIN", "QUIT"} = DOMAIN Script
    /\ "OTHER" \notin DOMAIN Script /\ "none" \notin DOMAIN Script
  BY DEF Commands, Script

\* The answers there are, and what is none.
LEMMA AnswerShape ==
    ASSUME NEW a \in Answer
    PROVE  /\ a.class \in {"null", "none", "row"} /\ a.id \in Nat
           /\ a.class = "null" => a = Null
           /\ a # NoAnswer /\ a # Mixed
<1>1. CASE a \in {Null, None}
  BY <1>1 DEF Null, None, NoAnswer, Mixed
<1>2. CASE a \notin {Null, None}
  <2>1. PICK n \in UserIds \cup GroupIds \cup {0, 1} : a = Row(n)
    BY <1>2 DEF Answer
  <2>2. n \in Nat
    BY Ver2DbAssumption DEF UserIds, GroupIds
  <2> QED
    BY <2>1, <2>2 DEF Row, NoAnswer, Mixed
<1> QED
  BY <1>1, <1>2

LEMMA NullIsAnswer == Null \in Answer /\ Null.class = "null"
  BY DEF Null, Answer

\* What a SELECT for an id finds is an answer.
LEMMA FirstIdTypes ==
    ASSUME NEW rows, \A r \in rows : r.id \in UserIds \cup GroupIds
    PROVE  FirstId(rows) \in Answer /\ FirstId(rows).class \in {"none", "row"}
<1>1. CASE rows = {}
  BY <1>1 DEF FirstId, Answer, None
<1>2. CASE rows # {}
  BY <1>2 DEF FirstId, Answer, Row
<1> QED
  BY <1>1, <1>2

\* Every statement takes typed tables to typed tables.
LEMMA StatementTypes ==
    ASSUME NEW t \in Tables, NEW u \in Nat, NEW g \in Nat, NEW b \in BOOLEAN,
           NEW w1 \in Words, NEW w2 \in Words, NEW w3 \in Words,
           NEW role \in {"admin", "member"}
    PROVE  /\ NewUser(t, w1, w2, w3) \in Tables
           /\ NewGroup(t, w1, u) \in Tables
           /\ NewMember(t, g, u, role) \in Tables
           /\ DropMember(t, g, u) \in Tables
           /\ SetStatus(t, u, b) \in Tables
<1> USE Ver2DbAssumption DEF Tables
<1>1. NewUser(t, w1, w2, w3) \in Tables
  <2>1. Count(t.nextUser, MaxUserId) \in 1..(MaxUserId + 1)
    BY DEF Count
  <2>2. t.nextUser > MaxUserId \/
        [id |-> t.nextUser, name |-> w1, password |-> w2, email |-> w3,
         online |-> FALSE] \in UserRow
    BY DEF UserRow, UserIds
  <2> QED
    BY <2>1, <2>2 DEF NewUser
<1>2. NewGroup(t, w1, u) \in Tables
  <2>1. Count(t.nextGroup, MaxGroupId) \in 1..(MaxGroupId + 1)
    BY DEF Count
  <2>2. t.nextGroup > MaxGroupId \/ ~HasUser(t, u) \/
        [id |-> t.nextGroup, name |-> w1, creator |-> u] \in GroupRow
    BY DEF GroupRow, GroupIds, HasUser, UserRow
  <2> QED
    BY <2>1, <2>2 DEF NewGroup
<1>3. NewMember(t, g, u, role) \in Tables
  BY DEF NewMember, HasUser, HasGroup, UserRow, GroupRow, MemberRow
<1>4. DropMember(t, g, u) \in Tables
  BY DEF DropMember
<1>5. SetStatus(t, u, b) \in Tables
  BY DEF SetStatus, UserRow
<1> QED
  BY <1>1, <1>2, <1>3, <1>4, <1>5

\* So does the one a thread is at, and its answer is one.
LEMMA AskedTypes ==
    ASSUME HandlerTypeOK, NEW c \in Conns, Asking(c)
    PROVE  /\ TablesAfter(c) \in Tables
           /\ AnswerTo(c) \in Answer
<1>1. /\ tables \in Tables /\ id[c] \in Nat
      /\ work[c].w1 \in Words /\ work[c].w2 \in Words /\ work[c].w3 \in Words
      /\ work[c].gid \in Nat /\ work[c].uid \in Nat
  BY DEF HandlerTypeOK, Work
<1>2. TablesAfter(c) \in Tables
  BY <1>1, StatementTypes DEF TablesAfter
<1>3. /\ \A r \in tables.users : r.id \in UserIds
      /\ \A r \in tables.groups : r.id \in GroupIds
  BY <1>1 DEF Tables, UserRow, GroupRow
<1>4. ASSUME NEW who, NEW word, NEW g, NEW u
      PROVE  /\ FindUser(tables, who) \in Answer
             /\ FindGroup(tables, who) \in Answer
             /\ FindAccount(tables, who, word) \in Answer
             /\ FindMember(tables, g, u) \in Answer
  <2>1. FindMember(tables, g, u) \in Answer
    BY DEF FindMember, Answer
  <2> QED
    BY <1>3, <2>1, FirstIdTypes DEF FindUser, FindGroup, FindAccount
<1>5. Null \in Answer /\ Row(0) \in Answer
  BY DEF Answer
<1> QED
  BY <1>2, <1>4, <1>5 DEF AnswerTo

-----------------------------------------------------------------------------
(* Types. *)

Peers == {"idle", "open", "gone", "reset"}

ThreadsOK ==
    /\ stage \in [Conns -> {"none", "queued", "first", "loop", "over"}]
    /\ id \in [Conns -> Nat]
    /\ name \in [Conns -> Words \cup {NoWord}]
    /\ work \in [Conns -> Work]
    /\ \A c \in Conns : work[c].op # "none" => work[c].step \in DOMAIN Script[work[c].op]

\* A thread that begins a command is at a statement of its script.
LEMMA StartTypes ==
    ASSUME HandlerTypeOK, NEW c \in Conns, NEW op \in DOMAIN Script,
           NEW w1 \in Words, NEW w2 \in Words, NEW w3 \in Words,
           Start(c, op, w1, w2, w3)
    PROVE  /\ work' \in [Conns -> Work]
           /\ \A d \in Conns : work'[d].op # "none" =>
                work'[d].step \in DOMAIN Script[work'[d].op]
<1>1. 1 \in DOMAIN Script[op]
  BY StepBounds
<1>2. [op |-> op, step |-> 1, w1 |-> w1, w2 |-> w2, w3 |-> w3, gid |-> 0, uid |-> 0]
        \in Work
  BY DEF Work
<1> QED
  BY <1>1, <1>2 DEF HandlerTypeOK, Start

\* The next statement is one of the script.
LEMMA NextStepTypes ==
    ASSUME HandlerTypeOK, NEW c \in Conns, NEW r \in Answer,
           Asking(c), ~Last(c), NextStep(c, r)
    PROVE  /\ work' \in [Conns -> Work]
           /\ \A d \in Conns : work'[d].op # "none" =>
                work'[d].step \in DOMAIN Script[work'[d].op]
<1> DEFINE w == work[c]
<1>1. w \in Work /\ w.op \in DOMAIN Script /\ w.step \in DOMAIN Script[w.op]
  BY DEF HandlerTypeOK, Asking, Work
<1>2. w.step + 1 \in DOMAIN Script[w.op] /\ w.step + 1 \in 1..4
  BY <1>1, StepBounds DEF Last
<1>3. PICK g \in Nat, u \in Nat :
        work' = [work EXCEPT ![c].step = @ + 1, ![c].gid = g, ![c].uid = u]
  BY <1>1, AnswerShape DEF NextStep, Work, HandlerTypeOK
<1>4. /\ work' \in [Conns -> Work]
      /\ work'[c].op = w.op /\ work'[c].step = w.step + 1
      /\ \A d \in Conns \ {c} : work'[d] = work[d]
  BY <1>1, <1>2, <1>3 DEF HandlerTypeOK, Work
<1> QED
  BY <1>1, <1>2, <1>4 DEF HandlerTypeOK

\* A command that ends, and a thread that does.
LEMMA EndTypes ==
    ASSUME HandlerTypeOK, NEW c \in Conns, Done(c) \/ End(c)
    PROVE  ThreadsOK'
<1>1. Idle \in Work /\ Idle.op = "none"
  BY HandlerAssumption DEF Idle, Work
<1> QED
  BY <1>1 DEF HandlerTypeOK, ThreadsOK, Done, End, Nobody

\* The end of the process.
LEMMA DieTypes ==
    ASSUME HandlerTypeOK, Die, UNCHANGED peer
    PROVE  HandlerTypeOK'
<1>1. Idle \in Work /\ Idle.op = "none"
  BY HandlerAssumption DEF Idle, Work
<1> QED
  BY <1>1 DEF HandlerTypeOK, Die, Nobody

\* A reply, and what its thread does next.
LEMMA ReplyTypes ==
    ASSUME HandlerTypeOK, NEW c \in Conns, NEW reply \in Replies,
           NEW ACTION next, Reply(c, reply, next), next => ThreadsOK'
    PROVE  HandlerTypeOK'
<1>1. CASE Die /\ UNCHANGED peer
  BY <1>1, DieTypes
<1>2. CASE /\ peer' = AfterReply(c) /\ Judge(c, reply)
           /\ next /\ UNCHANGED <<up, tables, inbox>>
  BY <1>2 DEF HandlerTypeOK, ThreadsOK, AfterReply, Judge
<1> QED
  BY <1>1, <1>2 DEF Reply

\* Going on with an answer.
LEMMA ResumeTypes ==
    ASSUME HandlerTypeOK, NEW c \in Conns, NEW r \in Answer, Asking(c), Resume(c, r)
    PROVE  HandlerTypeOK'
<1>0. work[c] \in Work /\ work[c].op \in DOMAIN Script
  BY DEF HandlerTypeOK, Asking, Work
<1>1. CASE GoOn(c, r)
  BY <1>1, NextStepTypes DEF GoOn, HandlerTypeOK, netVars
<1>2. CASE LogIn(c, r)
  <2>1. work[c].op = "LOGIN" /\ work[c].step = 1
    BY <1>0, <1>2, FirstAsks DEF LogIn, Now, HandlerTypeOK, Asking
  <2>2. ~Last(c)
    BY <2>1, ScriptLengths DEF Last, TwoSteps
  <2>3. r.id \in Nat /\ "Success" \in Replies
    BY AnswerShape DEF Replies
  <2>4. /\ id' = [id EXCEPT ![c] = r.id]
        /\ name' = [name EXCEPT ![c] = work[c].w1]
        /\ NextStep(c, r)
        /\ UNCHANGED stage
        => ThreadsOK'
    BY <1>0, <2>2, <2>3, NextStepTypes DEF HandlerTypeOK, ThreadsOK, Work
  <2> QED
    BY <1>2, <2>3, <2>4, ReplyTypes DEF LogIn
<1>3. CASE TryAgain(c, r)
  <2>1. "ADD_AGAIN" \in DOMAIN Script
    BY CommandScripts
  <2> QED
    BY <1>0, <1>3, <2>1, StartTypes DEF TryAgain, HandlerTypeOK, netVars, Work
<1>4. CASE Refuse(c, r)
  BY <1>4, EndTypes, ReplyTypes DEF Refuse
<1>5. CASE Succeed(c, r)
  <2>1. Finally(work[c].op) \in Replies
    BY <1>5 DEF Succeed, Finally, Replies
  <2>2. Idle \in Work /\ Idle.op = "none"
    BY HandlerAssumption DEF Idle, Work
  <2>3. \A n \in UserIds \cup {Nobody} : n \in Nat
    BY Ver2DbAssumption DEF UserIds, Nobody
  <2> DEFINE next == IF work[c].op = "REGISTER"
                       THEN /\ \E n \in UserIds \cup {Nobody} : id' = [id EXCEPT ![c] = n]
                            /\ name' = [name EXCEPT ![c] = work[c].w1]
                            /\ work' = [work EXCEPT ![c] = Idle]
                            /\ stage' = [stage EXCEPT ![c] = "loop"]
                       ELSE Done(c)
  <2>4. ASSUME next PROVE ThreadsOK'
    <3>1. CASE Done(c)
      BY <3>1, EndTypes
    <3>2. CASE /\ \E n \in UserIds \cup {Nobody} : id' = [id EXCEPT ![c] = n]
               /\ name' = [name EXCEPT ![c] = work[c].w1]
               /\ work' = [work EXCEPT ![c] = Idle]
               /\ stage' = [stage EXCEPT ![c] = "loop"]
      <4>1. PICK n \in UserIds \cup {Nobody} : id' = [id EXCEPT ![c] = n]
        BY <3>2
      <4>2. n \in Nat
        BY <2>3
      <4> QED
        BY <1>0, <2>2, <3>2, <4>1, <4>2 DEF HandlerTypeOK, ThreadsOK, Work
    <3> QED
      BY <2>4, <3>1, <3>2
  <2>5. Reply(c, Finally(work[c].op), next)
    BY <1>5 DEF Succeed
  <2> HIDE DEF next
  <2> QED
    BY <2>1, <2>4, <2>5, ReplyTypes
<1>6. CASE FinishSilently(c, r)
  BY <1>6, EndTypes DEF FinishSilently, HandlerTypeOK, ThreadsOK, netVars
<1> QED
  BY <1>1, <1>2, <1>3, <1>4, <1>5, <1>6 DEF Resume

\* A line with another one glued to it is a line.
LEMMA GlueTypes ==
    ASSUME NEW line \in Line
    PROVE  Glue(line) \in Line
  BY HandlerAssumption DEF Glue, Line, MaybeWord

\* A thread that listens.
LEMMA ListenTypes ==
    ASSUME HandlerTypeOK, NEW c \in Conns, Listen(c)
    PROVE  HandlerTypeOK'
<1>1. CASE Accept(c)
  BY <1>1 DEF Accept, HandlerTypeOK, netVars
<1>2. CASE Receive(c)
  <2>1. inbox[c] \in Line
    BY <1>2 DEF Receive, HandlerTypeOK
  <2>2. inbox[c].op \in DOMAIN Script
    BY <1>2, CommandScripts DEF Receive, Understood
  <2>3. ASSUME NEW w \in MaybeWord, NEW n \in 1..3 PROVE Reading(c, w, n) \subseteq Words
    BY HandlerAssumption DEF Reading, MaybeWord, Arity
  <2>4. /\ Reading(c, inbox[c].w1, 1) \subseteq Words
        /\ Reading(c, inbox[c].w2, 2) \subseteq Words
        /\ Reading(c, inbox[c].w3, 3) \subseteq Words
    BY <2>1, <2>3 DEF Line
  <2>5. PICK w1 \in Words, w2 \in Words, w3 \in Words : Start(c, inbox[c].op, w1, w2, w3)
    BY <1>2, <2>4 DEF Receive
  <2> QED
    BY <1>2, <2>2, <2>5, StartTypes DEF Receive, HandlerTypeOK
<1>3. CASE Misunderstand(c)
  <2>1. CASE Die /\ UNCHANGED peer
    BY <2>1, DieTypes
  <2>2. CASE /\ peer' = AfterReply(c) /\ Judge(c, "Invalid")
             /\ Done(c) \/ End(c)
             /\ inbox' = [inbox EXCEPT ![c] = Nothing]
             /\ UNCHANGED <<up, tables>>
    BY <2>2, EndTypes DEF HandlerTypeOK, ThreadsOK, AfterReply, Judge, Replies
  <2> QED
    BY <1>3, <2>1, <2>2 DEF Misunderstand
<1>4. CASE HearTheEnd(c)
  <2>1. "QUIT" \in DOMAIN Script /\ Garbled \in Words
    BY CommandScripts, HandlerAssumption
  <2>2. CASE End(c)
    BY <1>4, <2>2, EndTypes DEF HearTheEnd, HandlerTypeOK, ThreadsOK, netVars
  <2>3. CASE Start(c, "QUIT", Garbled, Garbled, Garbled) /\ UNCHANGED <<stage, id, name>>
    BY <1>4, <2>1, <2>3, StartTypes DEF HearTheEnd, HandlerTypeOK, netVars
  <2> QED
    BY <1>4, <2>2, <2>3 DEF HearTheEnd
<1> QED
  BY <1>1, <1>2, <1>3, <1>4 DEF Listen

\* Clients and the process.
LEMMA OutsideTypes ==
    ASSUME HandlerTypeOK, Environment \/ Kill \/ Restart
    PROVE  HandlerTypeOK'
<1>1. ASSUME NEW c \in Conns, Connect(c) PROVE HandlerTypeOK'
  BY <1>1 DEF Connect, HandlerTypeOK
<1>2. ASSUME NEW c \in Conns, HangUp(c) PROVE HandlerTypeOK'
  BY <1>2 DEF HangUp, HandlerTypeOK, threadVars
<1>3. ASSUME NEW c \in Conns, NEW line \in Lines, Say(c, line) PROVE HandlerTypeOK'
  BY <1>3, GlueTypes, HandlerAssumption DEF Say, HandlerTypeOK, threadVars
<1>4. CASE Kill
  BY <1>4, DieTypes DEF Kill
<1>5. CASE Restart
  BY <1>5 DEF Restart, HandlerTypeOK, threadVars, netVars
<1> QED
  BY <1>1, <1>2, <1>3, <1>4, <1>5 DEF Environment

\* Initially.
LEMMA InitTypes == HandlerInit => HandlerTypeOK
<1>1. OldTables \in Tables
  BY Ver2DbAssumption DEF OldTables, Tables
<1>2. Idle \in Work /\ Idle.op = "none"
  BY HandlerAssumption DEF Idle, Work
<1> QED
  BY <1>1, <1>2 DEF HandlerInit, HandlerTypeOK, Nobody

-----------------------------------------------------------------------------
(* The connection to the database. *)

\* A thread inside a statement carries out a command.
TypeInv == ServerTypeOK /\ \A c \in Conns : Inside(c) => Asking(c)

\* A step of one thread leaves the commands of the others alone, unless the
\* process dies.
LEMMA OthersStay ==
    ASSUME HandlerTypeOK, NEW c \in Conns, NEW r, Resume(c, r) \/ Listen(c)
    PROVE  /\ up' = up \/ up' = FALSE
           /\ up' => \A d \in Conns \ {c} : work'[d] = work[d]
<1>1. ASSUME Die PROVE up' = FALSE
  BY <1>1 DEF Die
<1>2. ASSUME Done(c) \/ End(c) PROVE \A d \in Conns \ {c} : work'[d] = work[d]
  BY <1>2 DEF Done, End, HandlerTypeOK
<1>3. ASSUME NextStep(c, r) PROVE \A d \in Conns \ {c} : work'[d] = work[d]
  BY <1>3 DEF NextStep, HandlerTypeOK
<1>4. ASSUME NEW op, NEW w1, NEW w2, NEW w3, Start(c, op, w1, w2, w3)
      PROVE  \A d \in Conns \ {c} : work'[d] = work[d]
  BY <1>4 DEF Start, HandlerTypeOK
<1>5. CASE GoOn(c, r)
  BY <1>5, <1>3 DEF GoOn
<1>6. CASE LogIn(c, r)
  BY <1>6, <1>1, <1>3 DEF LogIn, Reply
<1>7. CASE TryAgain(c, r)
  BY <1>7, <1>4 DEF TryAgain
<1>8. CASE Refuse(c, r)
  BY <1>8, <1>1, <1>2 DEF Refuse, Reply
<1>9. CASE Succeed(c, r)
  BY <1>9, <1>1, <1>2 DEF Succeed, Reply, HandlerTypeOK
<1>10. CASE FinishSilently(c, r)
  BY <1>10, <1>2 DEF FinishSilently
<1>11. CASE Listen(c)
  BY <1>11, <1>1, <1>2, <1>4
     DEF Listen, Accept, Receive, Misunderstand, HearTheEnd, threadVars
<1> QED
  BY <1>5, <1>6, <1>7, <1>8, <1>9, <1>10, <1>11 DEF Resume

\* A thread that returns from execute_query, and the steps before that.
LEMMA ReturnTypes ==
    ASSUME TypeInv, NEW c \in Conns, NEW r \in Answer, NEW w \in Seq(Answer),
           NEW l \in {"ready", "result", "lost"}, NEW f \in BOOLEAN,
           Asking(c), Return(c, r, w, l, f), calm' \in BOOLEAN
    PROVE  TypeInv'
<1>1. HandlerTypeOK'
  BY ResumeTypes DEF Return, TypeInv, ServerTypeOK
<1>3. CASE up' = FALSE
  BY <1>1, <1>3, NullIsAnswer
     DEF Return, NewLink, TypeInv, ServerTypeOK, Call, NoCall, Inside
<1>4. CASE up'
  <2>1. \A d \in Conns \ {c} : work'[d] = work[d]
    BY <1>4, OthersStay DEF Return, TypeInv, ServerTypeOK
  <2>2. call' = [call EXCEPT ![c] = NoCall] /\ wire' = w /\ link' = l /\ fresh' = f
    BY <1>4 DEF Return
  <2> QED
    BY <1>1, <2>1, <2>2, NullIsAnswer
       DEF TypeInv, ServerTypeOK, Call, NoCall, Inside, Asking
<1> QED
  BY <1>1, <1>3, <1>4 DEF HandlerTypeOK

LEMMA StatementStepTypes ==
    ASSUME TypeInv, NEW c \in Conns, Statement(c)
    PROVE  TypeInv'
<1>0. <<>> \in Seq(Answer)
  OBVIOUS
<1>9. calm' \in BOOLEAN
  <2>1. calm \in BOOLEAN
    BY DEF TypeInv, ServerTypeOK
  <2> QED
    BY <2>1 DEF Statement, SendStatement, OutOfSync, ReadStatus, ReadHead, ReadNonsense,
                StoreResult, Enter
<1>1. CASE SendStatement(c)
  <2>1. TablesAfter(c) \in Tables /\ AnswerTo(c) \in Answer
    BY <1>1, AskedTypes DEF SendStatement, TypeInv, ServerTypeOK
  <2>2. HandlerTypeOK'
    BY <1>1, <2>1 DEF SendStatement, TypeInv, ServerTypeOK, HandlerTypeOK, threadVars, netVars
  <2>3. Append(wire, AnswerTo(c)) \in Seq(Answer)
    BY <2>1 DEF TypeInv, ServerTypeOK
  <2>4. /\ call' = [call EXCEPT ![c] = [at |-> "sent", got |-> Null]]
        /\ wire' = Append(wire, AnswerTo(c)) /\ fresh' = TRUE /\ link' = link
        /\ work' = work
    BY <1>1 DEF SendStatement, Goto, threadVars
  <2> QED
    BY <1>1, <1>9, <2>2, <2>3, <2>4, NullIsAnswer
       DEF SendStatement, TypeInv, ServerTypeOK, Call, Inside, Asking
<1>2. CASE OutOfSync(c)
  BY <1>2, <1>9, NullIsAnswer, ReturnTypes DEF OutOfSync, TypeInv, ServerTypeOK
<1>3. CASE ReadStatus(c)
  <2>1. Asking(c) /\ Tail(wire) \in Seq(Answer)
    BY <1>3 DEF ReadStatus, TypeInv, ServerTypeOK, Inside
  <2> QED
    BY <1>3, <1>9, <2>1, NullIsAnswer, ReturnTypes DEF ReadStatus
<1>4. CASE ReadHead(c)
  <2>1. Head(wire) \in Answer /\ Tail(wire) \in Seq(Answer)
    BY <1>4 DEF ReadHead, TypeInv, ServerTypeOK
  <2>2. HandlerTypeOK'
    BY <1>4 DEF ReadHead, TypeInv, ServerTypeOK, HandlerTypeOK, handlerVars, threadVars, netVars
  <2> QED
    BY <1>4, <1>9, <2>1, <2>2 DEF ReadHead, TypeInv, ServerTypeOK, Goto, Call, Inside, Asking,
                                 handlerVars, threadVars
<1>5. CASE ReadNonsense(c)
  BY <1>0, <1>5, <1>9, NullIsAnswer, ReturnTypes
     DEF ReadNonsense, TypeInv, ServerTypeOK, Inside
<1>6. CASE StoreResult(c)
  <2>1. Asking(c) /\ call[c].got \in Answer
    BY <1>6 DEF StoreResult, TypeInv, ServerTypeOK, Inside, Call
  <2> QED
    BY <1>6, <1>9, <2>1, NullIsAnswer, ReturnTypes DEF StoreResult, TypeInv, ServerTypeOK
<1> QED
  BY <1>1, <1>2, <1>3, <1>4, <1>5, <1>6 DEF Statement

\* What keeps the connection: no thread is inside a statement it was not in, and
\* whoever is in one stays at it.
LEMMA KeepLinkTypes ==
    ASSUME TypeInv, HandlerTypeOK', KeepLink,
           up' => \A d \in Conns : Inside(d) => work'[d] = work[d]
    PROVE  TypeInv'
<1>1. CASE ~up'
  BY <1>1, NullIsAnswer
     DEF KeepLink, NewLink, TypeInv, ServerTypeOK, Call, NoCall, Inside
<1>2. CASE up'
  BY <1>2 DEF KeepLink, TypeInv, ServerTypeOK, Inside, Asking
<1> QED
  BY <1>1, <1>2

LEMMA ListenStepTypes ==
    ASSUME TypeInv, NEW c \in Conns, Listen(c), KeepLink
    PROVE  TypeInv'
<1>1. HandlerTypeOK'
  BY ListenTypes DEF TypeInv, ServerTypeOK
<1>2. ASSUME up' PROVE \A d \in Conns \ {c} : work'[d] = work[d]
  BY <1>2, OthersStay DEF TypeInv, ServerTypeOK
<1>3. ~Inside(c) \/ work'[c] = work[c]
  BY DEF Listen, Accept, Receive, Misunderstand, HearTheEnd, Waits, TypeInv, Asking
<1> QED
  BY <1>1, <1>2, <1>3, KeepLinkTypes

LEMMA OutsideStepTypes ==
    ASSUME TypeInv, Outside
    PROVE  TypeInv'
<1>1. HandlerTypeOK'
  BY OutsideTypes DEF Outside, TypeInv, ServerTypeOK
<1>2. up' => UNCHANGED work
  BY DEF Outside, Environment, Connect, HangUp, Say, Kill, Die, Restart, threadVars
<1> QED
  BY <1>1, <1>2, KeepLinkTypes DEF Outside

LEMMA ServerInitTypes == ServerInit => TypeInv
  BY NullIsAnswer, InitTypes DEF ServerInit, TypeInv, ServerTypeOK, NoCall, Call, Inside

\* The state is well typed, and a thread waits for an answer only in a command,
\* however the threads interleave (main.c:30-216, db.c:25-31).
THEOREM TypeCorrect == ServerSpec => []TypeInv
<1>1. ServerInit => TypeInv
  BY ServerInitTypes
<1>2. TypeInv /\ [ServerNext]_serverVars => TypeInv'
  <2>1. ASSUME TypeInv, UNCHANGED serverVars PROVE TypeInv'
    BY <2>1 DEF TypeInv, ServerTypeOK, HandlerTypeOK, serverVars, handlerVars,
                threadVars, netVars, linkVars, Inside, Asking
  <2> QED
    BY <2>1, OutsideStepTypes, ListenStepTypes, StatementStepTypes DEF ServerNext, Thread
<1> QED
  BY <1>1, <1>2, PTL DEF ServerSpec

-----------------------------------------------------------------------------
(* All is calm. *)

\* At most one thread is inside a statement; the connection is where that
\* thread has left it, and ready when there is none.
Tidy ==
    /\ \A c, d \in Conns : Inside(c) /\ Inside(d) => c = d
    /\ (\A c \in Conns : ~Inside(c)) => wire = <<>> /\ link = "ready"
    /\ \A c \in Conns : call[c].at = "sent" => link = "ready" /\ fresh /\ Len(wire) = 1
    /\ \A c \in Conns : call[c].at = "read" => wire = <<>> /\ link = "result"

Quiet   == TypeInv /\ calm /\ Tidy
CalmInv == TypeInv /\ (calm => Tidy)

\* It was calm before, and whoever begins a statement has the connection for
\* itself, when it is calm after a step.
LEMMA CalmStep ==
    ASSUME ServerNext, calm'
    PROVE  calm /\ \A c \in Conns : Statement(c) => Inside(c) \/ Alone(c)
<1>1. calm
  BY DEF ServerNext, Outside, Thread, KeepLink, Statement, SendStatement, OutOfSync,
         ReadStatus, ReadHead, ReadNonsense, StoreResult, Enter
<1>2. ASSUME NEW c \in Conns, Statement(c), ~Inside(c) PROVE Alone(c)
  BY <1>2 DEF Statement, SendStatement, OutOfSync, ReadStatus, ReadHead, ReadNonsense,
              StoreResult, Enter, Inside
<1> QED
  BY <1>1, <1>2

LEMMA OneReply ==
    ASSUME NEW S, NEW w \in Seq(S), Len(w) = 1
    PROVE  Head(w) = w[1] /\ Tail(w) = <<>> /\ w[1] \in S /\ w # <<>>
<1>1. Len(<<>>) = 0
  OBVIOUS
<1>2. w # <<>>
  BY <1>1
<1>3. Tail(w) \in Seq(S) /\ Len(Tail(w)) = Len(w) - 1
  BY <1>2, HeadTailProperties
<1>4. Tail(w) = <<>>
  <2>1. \A seq \in Seq(S) : seq # <<>> => Len(seq) # 0
    BY EmptySeq
  <2>2. Len(Tail(w)) = 0
    BY <1>3
  <2> QED
    BY <1>3, <2>1, <2>2
<1>5. Head(w) \in S /\ Head(w) = w[1]
  BY <1>2, HeadTailProperties
<1> QED
  BY <1>2, <1>4, <1>5

\* A statement ends with a connection that is ready for the next one.
LEMMA TidyAfterReturn ==
    ASSUME Quiet, NEW c \in Conns, NEW r, NEW f,
           \A d \in Conns \ {c} : ~Inside(d), Return(c, r, <<>>, "ready", f)
    PROVE  Tidy'
  BY DEF Quiet, TypeInv, ServerTypeOK, Tidy, Return, NewLink, NoCall, Inside

\* A step of a thread that has the connection for itself keeps it tidy.
LEMMA TidyStatement ==
    ASSUME Quiet, NEW c \in Conns, Statement(c), Inside(c) \/ Alone(c)
    PROVE  /\ Tidy'
           /\ \/ SendStatement(c) /\ (\A d \in Conns : ~Inside(d)) /\ wire = <<>>
              \/ ReadStatus(c) \/ ReadHead(c)
              \/ call[c].at = "read" /\ Return(c, call[c].got, wire, "ready", fresh)
<1>1. \A d \in Conns \ {c} : ~Inside(d)
  BY DEF Quiet, Tidy, Alone
<1>2. CASE SendStatement(c)
  <2>1. wire = <<>> /\ link = "ready"
    BY <1>1, <1>2 DEF Quiet, Tidy, SendStatement
  <2>3. wire' = <<AnswerTo(c)>>
    BY <1>2, <2>1 DEF SendStatement
  <2>4. call' = [call EXCEPT ![c] = [at |-> "sent", got |-> Null]] /\ fresh' = TRUE
    /\ link' = "ready"
    BY <1>2, <2>1 DEF SendStatement, Goto
  <2>5. Len(wire') = 1
    BY <2>3
  <2>6. Tidy'
    BY <1>1, <2>4, <2>5 DEF Quiet, TypeInv, ServerTypeOK, Tidy, Inside
  <2> QED
    BY <1>1, <1>2, <2>1, <2>6 DEF SendStatement
<1>3. CASE OutOfSync(c)
  BY <1>1, <1>3 DEF OutOfSync, Quiet, Tidy
<1>4. CASE ReadStatus(c)
  <2>1. Tail(wire) = <<>>
    BY <1>4, OneReply DEF ReadStatus, Quiet, Tidy, TypeInv, ServerTypeOK
  <2> QED
    BY <1>1, <1>4, <2>1, TidyAfterReturn DEF ReadStatus
<1>5. CASE ReadHead(c)
  <2>1. Tail(wire) = <<>> /\ Head(wire) = wire[1]
    BY <1>5, OneReply DEF ReadHead, Quiet, Tidy, TypeInv, ServerTypeOK
  <2>2. /\ call' = [call EXCEPT ![c] = [at |-> "read", got |-> wire[1]]]
        /\ wire' = <<>> /\ link' = "result"
    BY <1>5, <2>1 DEF ReadHead, Goto
  <2>3. Tidy'
    BY <1>1, <2>1, <2>2 DEF Quiet, TypeInv, ServerTypeOK, Tidy, Inside
  <2> QED
    BY <1>5, <2>3
<1>6. CASE ReadNonsense(c)
  BY <1>6 DEF ReadNonsense, Quiet, Tidy
<1>7. CASE StoreResult(c)
  <2>1. wire = <<>> /\ link = "result" /\ call[c].at = "read"
    BY <1>7 DEF StoreResult, Quiet, Tidy
  <2>2. Return(c, call[c].got, wire, "ready", fresh)
    BY <1>7, <2>1 DEF StoreResult
  <2> QED
    BY <1>1, <2>1, <2>2, TidyAfterReturn
<1> QED
  BY <1>2, <1>3, <1>4, <1>5, <1>6, <1>7 DEF Statement

LEMMA TidyKeepLink ==
    ASSUME Quiet, KeepLink
    PROVE  Tidy'
  BY DEF Quiet, TypeInv, ServerTypeOK, Tidy, KeepLink, NewLink, NoCall, Inside

LEMMA CalmInvariant == ServerSpec => []CalmInv
<1>1. ServerInit => CalmInv
  BY ServerInitTypes DEF ServerInit, CalmInv, Tidy, NoCall, Inside
<1>2. CalmInv /\ TypeInv' /\ [ServerNext]_serverVars => CalmInv'
  <2> SUFFICES ASSUME CalmInv, TypeInv', [ServerNext]_serverVars, calm'
               PROVE  Tidy'
    BY DEF CalmInv
  <2>1. CASE UNCHANGED serverVars
    BY <2>1 DEF CalmInv, Tidy, serverVars, linkVars, Inside
  <2>2. CASE ServerNext
    <3>1. Quiet
      BY <2>2, CalmStep DEF CalmInv, Quiet
    <3> QED
      BY <2>2, <3>1, CalmStep, TidyKeepLink, TidyStatement DEF ServerNext, Outside, Thread
  <2> QED
    BY <2>1, <2>2
<1> QED
  BY <1>1, <1>2, TypeCorrect, PTL DEF ServerSpec

-----------------------------------------------------------------------------
(* The refinement. *)

\* The answer of a thread, by where it is.
LEMMA AnswerCases ==
    ASSUME NEW c \in Conns
    PROVE  /\ call[c].at = "out" => Answers[c] = NoAnswer
           /\ call[c].at # "out" /\ ~calm => Answers[c] = Mixed
           /\ call[c].at = "sent" /\ calm => Answers[c] = Head(wire)
           /\ call[c].at = "read" /\ calm => Answers[c] = call[c].got
  BY DEF Answers, Inside

LEMMA AnswerCasesNext ==
    ASSUME NEW c \in Conns
    PROVE  /\ call'[c].at = "out" => Answers'[c] = NoAnswer
           /\ call'[c].at # "out" /\ ~calm' => Answers'[c] = Mixed
           /\ call'[c].at = "sent" /\ calm' => Answers'[c] = Head(wire')
           /\ call'[c].at = "read" /\ calm' => Answers'[c] = call'[c].got
  BY DEF Answers, Inside

\* A thread inside a statement has an answer, the others have none.
LEMMA AnswersAre ==
    ASSUME CalmInv, NEW c \in Conns
    PROVE  Answers[c] = NoAnswer <=> ~Inside(c)
<1>1. Mixed # NoAnswer
  BY DEF Mixed, NoAnswer
<1>2. ASSUME calm, call[c].at = "sent" PROVE Head(wire) \in Answer
  BY <1>2, OneReply DEF CalmInv, Tidy, TypeInv, ServerTypeOK
<1>3. call[c].got \in Answer /\ call[c].at \in {"out", "sent", "read"}
  BY DEF CalmInv, TypeInv, ServerTypeOK, Call
<1> QED
  BY <1>1, <1>2, <1>3, AnswerCases, AnswerShape DEF Inside

\* The service has the handlers of the server: its copies of their definitions
\* mean the same.
LEMMA SameResume ==
    ASSUME NEW c \in Conns, NEW r
    PROVE  Service!Resume(c, r) <=> Resume(c, r)
  BY DEF Resume, GoOn, LogIn, TryAgain, Refuse, Succeed, FinishSilently,
     Outcome, Last, NextStep, Now, Script, AddMember, Step, Carry, Find,
     Reply, Replies, Judge, AfterReply, BrokenPipe, Sends, Done, End, Die,
     Idle, Finally, Start, UserIds, Nobody, threadVars, netVars,
     Service!Resume, Service!GoOn, Service!LogIn, Service!TryAgain,
     Service!Refuse, Service!Succeed, Service!FinishSilently, Service!Outcome,
     Service!Last, Service!NextStep, Service!Now, Service!Script,
     Service!AddMember, Service!Step, Service!Carry, Service!Find,
     Service!Reply, Service!Replies, Service!Judge, Service!AfterReply,
     Service!BrokenPipe, Service!Sends, Service!Done, Service!End,
     Service!Die, Service!Idle, Service!Finally, Service!Start,
     Service!UserIds, Service!Nobody, Service!threadVars, Service!netVars

LEMMA SameListen ==
    ASSUME NEW c \in Conns
    PROVE  Service!Listen(c) <=> Listen(c)
  BY DEF Listen, Accept, Receive, Misunderstand, HearTheEnd, Reading, Arity,
     Waits, Understood, Commands, Script, AddMember, Step, Carry, Find, Start,
     Judge, AfterReply, BrokenPipe, Done, End, Die, Idle, Nobody, threadVars,
     netVars, Service!Listen, Service!Accept, Service!Receive,
     Service!Misunderstand, Service!HearTheEnd, Service!Reading,
     Service!Arity, Service!Waits, Service!Understood, Service!Commands,
     Service!Script, Service!AddMember, Service!Step, Service!Carry,
     Service!Find, Service!Start, Service!Judge, Service!AfterReply,
     Service!BrokenPipe, Service!Done, Service!End, Service!Die, Service!Idle,
     Service!Nobody, Service!threadVars, Service!netVars

LEMMA SameStatement ==
    ASSUME NEW c \in Conns
    PROVE  /\ Service!AnswerTo(c) = AnswerTo(c) /\ Service!TablesAfter(c) = TablesAfter(c)
           /\ Service!Asking(c) <=> Asking(c)
  BY DEF Asking, AnswerTo, TablesAfter, Now, Script, AddMember, Step, Carry,
     Find, FindUser, FindGroup, FindAccount, FindMember, FirstId, Row, None,
     Null, NewUser, NewGroup, NewMember, DropMember, SetStatus, HasUser,
     HasGroup, Count, Service!Asking, Service!AnswerTo, Service!TablesAfter,
     Service!Now, Service!Script, Service!AddMember, Service!Step,
     Service!Carry, Service!Find, Service!FindUser, Service!FindGroup,
     Service!FindAccount, Service!FindMember, Service!FirstId, Service!Row,
     Service!None, Service!Null, Service!NewUser, Service!NewGroup,
     Service!NewMember, Service!DropMember, Service!SetStatus,
     Service!HasUser, Service!HasGroup, Service!Count

LEMMA SameOutside ==
    Service!Environment \/ Service!Kill \/ Service!Restart <=> Environment \/ Kill \/ Restart
  BY DEF Environment, Connect, HangUp, Say, Glue, Kill, Restart, Die, Idle,
     Nobody, threadVars, netVars, Service!Environment, Service!Connect,
     Service!HangUp, Service!Say, Service!Glue, Service!Kill, Service!Restart,
     Service!Die, Service!Idle, Service!Nobody, Service!threadVars,
     Service!netVars

LEMMA SameInit ==
    /\ Service!HandlerInit <=> HandlerInit
    /\ Service!NoAnswer = NoAnswer /\ Service!Mixed = Mixed
    /\ Service!Null = Null /\ Service!Answer = Answer
  BY DEF HandlerInit, OldTables, Idle, Nobody, NoAnswer, Mixed, Null, None, Row,
     Answer, UserIds, GroupIds, Service!HandlerInit, Service!OldTables,
     Service!Idle, Service!Nobody, Service!NoAnswer, Service!Mixed,
     Service!Null, Service!None, Service!Row, Service!Answer, Service!UserIds,
     Service!GroupIds

\* Who is inside a statement has one pending, and enters one as it begins one.
LEMMA SamePending ==
    ASSUME CalmInv
    PROVE  /\ \A c \in Conns : Service!Pending(c) <=> Inside(c)
           /\ \A c \in Conns : Service!Begin(c) <=> Enter(c)
<1>1. \A c \in Conns : Service!Pending(c) <=> Inside(c)
  BY AnswersAre, SameInit DEF Service!Pending
<1> QED
  BY <1>1 DEF Service!Begin, Enter, Alone

\* Two functions that agree everywhere are one; Answers is one.
LEMMA SameFunction ==
    ASSUME NEW S, NEW A, NEW f \in [S -> A], NEW B, NEW g \in [S -> B],
           \A d \in S : f[d] = g[d]
    PROVE  f = g
  OBVIOUS

LEMMA AnswersFunction == \E A : Answers' \in [Conns -> A]
<1> DEFINE A == {Answers'[d] : d \in Conns}
<1>1. Answers' \in [Conns -> A]
  BY DEF Answers
<1> QED
  BY <1>1

\* What becomes of the answers when execute_query returns.
LEMMA ReturnGivesAnswer ==
    ASSUME CalmInv, NEW c \in Conns, NEW r \in Answer, NEW w, NEW l, NEW f,
           Inside(c), calm => Answers[c] = r, UNCHANGED calm, Return(c, r, w, l, f)
    PROVE  Service!GetAnswer(c)
<1>1. Asking(c) /\ Service!Pending(c)
  BY SamePending DEF CalmInv, TypeInv
<1>2. Service!Resume(c, r)
  BY SameResume DEF Return
<1>3. r \in Service!Possible(c)
  <2>1. ~calm => Answers[c] = Mixed
    BY AnswerCases DEF Inside
  <2> QED
    BY <2>1, AnswerShape, SameInit DEF Service!Possible, CalmInv, TypeInv, ServerTypeOK
<1>4. ASSUME NEW d \in Conns
      PROVE  Answers'[d] = IF d = c \/ ~up' THEN NoAnswer ELSE Answers[d]
  <2>1. CASE d = c \/ ~up'
    <3>1. call'[d].at = "out"
      BY <2>1 DEF Return, NewLink, NoCall, CalmInv, TypeInv, ServerTypeOK
    <3> QED
      BY <2>1, <3>1, AnswerCasesNext
  <2>2. CASE d # c /\ up'
    <3>1. call'[d] = call[d]
      BY <2>2 DEF Return, CalmInv, TypeInv, ServerTypeOK
    <3>2. calm => call[d].at = "out"
      BY <2>2 DEF CalmInv, Tidy, Inside
    <3> QED
      BY <2>2, <3>1, <3>2, AnswerCases, AnswerCasesNext
  <2> QED
    BY <2>1, <2>2
<1>5. Answers' = [d \in Conns |-> IF d = c \/ ~up' THEN NoAnswer ELSE Answers[d]]
  <2> DEFINE g == [d \in Conns |-> IF d = c \/ ~up' THEN NoAnswer ELSE Answers[d]]
             B == {g[d] : d \in Conns}
  <2>1. g \in [Conns -> B] /\ \A d \in Conns : Answers'[d] = g[d]
    BY <1>4
  <2> HIDE DEF g, B
  <2>2. Answers' = g
    BY <2>1, AnswersFunction, SameFunction
  <2> QED
    BY <2>2 DEF g
<1> QED
  BY <1>1, <1>2, <1>3, <1>5, SameStatement, SameInit
     DEF Service!GetAnswer, Service!Forget

\* The connection and the answers on it live as long as the process.
LEMMA KeepLinkKeeps ==
    ASSUME CalmInv, KeepLink
    PROVE  Service!Keep
<1>1. ASSUME NEW d \in Conns
      PROVE  Answers'[d] = IF up' THEN Answers[d] ELSE NoAnswer
  <2>1. CASE up'
    <3>1. call' = call /\ wire' = wire /\ calm' = calm
      BY <2>1 DEF KeepLink
    <3>2. Answers' = Answers
      BY <3>1 DEF Answers, Inside
    <3> QED
      BY <2>1, <3>2
  <2>2. CASE ~up'
    <3>1. call'[d].at = "out"
      BY <2>2 DEF KeepLink, NewLink, NoCall
    <3> QED
      BY <2>2, <3>1, AnswerCasesNext
  <2> QED
    BY <2>1, <2>2
<1>2. Answers' = [d \in Conns |-> IF up' THEN Answers[d] ELSE NoAnswer]
  BY <1>1 DEF Answers
<1> QED
  BY <1>2, SameInit DEF Service!Keep, KeepLink

\* Sending a statement is its execution.
LEMMA SendExecutes ==
    ASSUME CalmInv, TypeInv', NEW c \in Conns, SendStatement(c)
    PROVE  Service!Execute(c)
<1>1. call' = [call EXCEPT ![c] = [at |-> "sent", got |-> Null]]
  BY DEF SendStatement, Goto
<1>2. Enter(c) /\ ~Inside(c) /\ Asking(c) /\ link = "ready"
  BY DEF SendStatement
<1>3. ASSUME calm' PROVE (\A d \in Conns : ~Inside(d)) /\ wire' = <<AnswerTo(c)>>
  <2>1. calm /\ \A d \in Conns : ~Inside(d)
    BY <1>2, <1>3 DEF Enter, Alone
  <2>2. wire = <<>>
    BY <2>1 DEF CalmInv, Tidy
  <2> QED
    BY <2>1, <2>2 DEF SendStatement
<1>4. call'[c].at = "sent" /\ \A d \in Conns \ {c} : call'[d] = call[d]
  BY <1>1 DEF CalmInv, TypeInv, ServerTypeOK
<1>5. ASSUME NEW d \in Conns
      PROVE  Answers'[d] = CASE d = c /\ calm' -> AnswerTo(c)
                             [] (d = c \/ Inside(d)) /\ ~calm' -> Mixed
                             [] OTHER -> Answers[d]
  <2>1. CASE calm'
    <3>1. d = c => Answers'[d] = AnswerTo(c)
      <4>1. Head(wire') = AnswerTo(c)
        BY <1>3, <2>1
      <4> QED
        BY <1>4, <2>1, <4>1, AnswerCasesNext
    <3>2. d # c => Answers'[d] = Answers[d]
      BY <1>3, <1>4, <2>1, AnswerCases, AnswerCasesNext DEF Inside
    <3> QED
      BY <2>1, <3>1, <3>2
  <2>2. CASE ~calm'
    <3>1. d = c \/ Inside(d) => Answers'[d] = Mixed
      BY <1>4, <2>2, AnswerCasesNext DEF Inside
    <3>2. d # c /\ ~Inside(d) => Answers'[d] = Answers[d]
      BY <1>4, AnswerCases, AnswerCasesNext DEF Inside
    <3> QED
      BY <2>2, <3>1, <3>2
  <2> QED
    BY <2>1, <2>2
<1>6. Answers' = [d \in Conns |-> CASE d = c /\ calm' -> AnswerTo(c)
                                    [] (d = c \/ Inside(d)) /\ ~calm' -> Mixed
                                    [] OTHER -> Answers[d]]
  <2> DEFINE g == [d \in Conns |-> CASE d = c /\ calm' -> AnswerTo(c)
                                     [] (d = c \/ Inside(d)) /\ ~calm' -> Mixed
                                     [] OTHER -> Answers[d]]
             B == {g[d] : d \in Conns}
  <2>1. g \in [Conns -> B] /\ \A d \in Conns : Answers'[d] = g[d]
    BY <1>5
  <2> HIDE DEF g, B
  <2>2. Answers' = g
    BY <2>1, AnswersFunction, SameFunction
  <2> QED
    BY <2>2 DEF g
<1>7. /\ tables' = TablesAfter(c)
      /\ UNCHANGED <<up, threadVars, netVars, verdict>>
  BY DEF SendStatement
<1> QED
  BY <1>2, <1>6, <1>7, SamePending, SameStatement, SameInit
     DEF Service!Execute, Service!threadVars, Service!netVars, threadVars, netVars

\* A statement is refused only while another one is on its way, or has been.
LEMMA OutOfSyncRefuses ==
    ASSUME CalmInv, NEW c \in Conns, OutOfSync(c)
    PROVE  Service!Refused(c)
<1>1. Asking(c) /\ ~Inside(c) /\ Enter(c) /\ Return(c, Null, wire, link, fresh)
  BY DEF OutOfSync
<1>2. ~calm'
  BY <1>1 DEF OutOfSync, Enter, Alone, CalmInv, Tidy
<1>3. ASSUME NEW d \in Conns
      PROVE  Answers'[d] = IF Inside(d) /\ up' THEN Mixed ELSE NoAnswer
  <2>1. CASE Inside(d) /\ up'
    <3>1. d # c /\ call'[d] = call[d]
      BY <1>1, <2>1 DEF Return, CalmInv, TypeInv, ServerTypeOK
    <3> QED
      BY <1>2, <2>1, <3>1, AnswerCasesNext DEF Inside
  <2>2. CASE ~(Inside(d) /\ up')
    <3>1. call'[d].at = "out"
      BY <1>1, <2>2 DEF Return, NewLink, NoCall, CalmInv, TypeInv, ServerTypeOK, Inside
    <3> QED
      BY <2>2, <3>1, AnswerCasesNext
  <2> QED
    BY <2>1, <2>2
<1>4. Answers' = [d \in Conns |-> IF Inside(d) /\ up' THEN Mixed ELSE NoAnswer]
  BY <1>3 DEF Answers
<1>5. Service!Resume(c, Null)
  BY <1>1, SameResume DEF Return
<1> QED
  BY <1>1, <1>2, <1>4, <1>5, SamePending, SameStatement, SameInit DEF Service!Refused

\* Reading the head of a reply changes nothing a handler sees.
LEMMA ReadHeadStutters ==
    ASSUME CalmInv, NEW c \in Conns, ReadHead(c)
    PROVE  UNCHANGED Service!serviceVars
<1>1. call' = [call EXCEPT ![c] = [at |-> "read", got |-> Head(wire)]]
  BY DEF ReadHead, Goto
<1>2. /\ \A d \in Conns \ {c} : call'[d] = call[d]
      /\ call'[c].at = "read" /\ call'[c].got = Head(wire) /\ call[c].at = "sent"
  BY <1>1 DEF CalmInv, TypeInv, ServerTypeOK, ReadHead
<1>3. calm' = calm
  BY DEF ReadHead
<1>4. ASSUME NEW d \in Conns PROVE Answers'[d] = Answers[d]
  <2>1. calm /\ d # c => call[d].at = "out"
    BY <1>2 DEF CalmInv, Tidy, Inside
  <2> QED
    BY <1>2, <1>3, <2>1, AnswerCases, AnswerCasesNext
<1>5. Answers' = Answers
  BY <1>4 DEF Answers
<1> QED
  BY <1>3, <1>5 DEF ReadHead, Service!serviceVars, Service!handlerVars, Service!threadVars,
                    Service!netVars, handlerVars, threadVars, netVars

\* The end of a statement is the answer to it, or, when all is not calm, an
\* answer.
LEMMA EndAnswers ==
    ASSUME CalmInv, NEW c \in Conns,
           ReadStatus(c) \/ ReadNonsense(c) \/ StoreResult(c)
    PROVE  Service!GetAnswer(c)
<1>1. CASE ReadStatus(c)
  <2>1. call[c].at = "sent" /\ Inside(c)
    BY <1>1 DEF ReadStatus, Inside
  <2>2. Head(wire) = Null
    <3>1. Head(wire) \in Answer
      BY <1>1, HeadTailProperties DEF ReadStatus, CalmInv, TypeInv, ServerTypeOK
    <3> QED
      BY <1>1, <3>1, AnswerShape DEF ReadStatus
  <2>3. calm => Answers[c] = Null
    BY <2>1, <2>2, AnswerCases
  <2> QED
    BY <1>1, <2>1, <2>3, NullIsAnswer, ReturnGivesAnswer DEF ReadStatus
<1>2. CASE ReadNonsense(c)
  <2>1. ~calm
    BY <1>2 DEF ReadNonsense, CalmInv, Tidy
  <2> QED
    BY <1>2, <2>1, NullIsAnswer, ReturnGivesAnswer DEF ReadNonsense, Inside
<1>3. CASE StoreResult(c)
  <2>1. call[c].at = "read" /\ call[c].got \in Answer /\ UNCHANGED calm
    BY <1>3 DEF StoreResult, CalmInv, TypeInv, ServerTypeOK, Call
  <2>2. calm => Answers[c] = call[c].got
    BY <2>1, AnswerCases
  <2>3. CASE Return(c, call[c].got, wire, "ready", fresh)
    BY <2>1, <2>2, <2>3, ReturnGivesAnswer DEF Inside
  <2>4. CASE link # "result" /\ Return(c, Null, wire, link, fresh)
    <3>1. ~calm
      BY <2>1, <2>4 DEF CalmInv, Tidy
    <3> QED
      BY <2>1, <2>4, <3>1, NullIsAnswer, ReturnGivesAnswer DEF Inside
  <2> QED
    BY <1>3, <2>3, <2>4 DEF StoreResult
<1> QED
  BY <1>1, <1>2, <1>3

\* However the threads interleave, the shared connection serves them as
\* Ver2Service says: every thread gets the answer to its own statement, as if
\* that were one step, until the first time two threads are in execute_query at
\* once; whoever is in it then, or calls it later, gets any answer or none, and
\* nobody waits in vain (db.c:25-31, main.c:27).
THEOREM ServerImplementsService == ServerSpec => ServiceSpec
<1>1. ServerInit => Service!ServiceInit
  <2>1. ServerInit => Answers = [c \in Conns |-> NoAnswer]
    BY DEF ServerInit, NoCall, Answers, Inside
  <2> QED
    BY <2>1, SameInit DEF ServerInit, Service!ServiceInit
<1>2. CalmInv /\ TypeInv' /\ [ServerNext]_serverVars
        => [Service!ServiceNext]_Service!serviceVars
  <2>1. ASSUME CalmInv, Outside PROVE Service!ServiceNext
    BY <2>1, KeepLinkKeeps, SameOutside DEF Outside, Service!ServiceNext
  <2>2. ASSUME CalmInv, NEW c \in Conns, Listen(c), KeepLink PROVE Service!ServiceNext
    BY <2>2, KeepLinkKeeps, SameListen DEF Service!ServiceNext
  <2>3. ASSUME CalmInv, TypeInv', NEW c \in Conns, Statement(c)
        PROVE  Service!ServiceNext \/ UNCHANGED Service!serviceVars
    BY <2>3, SendExecutes, OutOfSyncRefuses, ReadHeadStutters, EndAnswers
       DEF Statement, Service!ServiceNext
  <2>4. ASSUME UNCHANGED serverVars PROVE UNCHANGED Service!serviceVars
    <3>1. Answers' = Answers /\ calm' = calm
      BY <2>4 DEF serverVars, linkVars, Answers, Inside
    <3> QED
      BY <2>4, <3>1 DEF serverVars, handlerVars, threadVars, netVars, Service!serviceVars,
                        Service!handlerVars, Service!threadVars, Service!netVars
  <2> QED
    BY <2>1, <2>2, <2>3, <2>4 DEF ServerNext, Thread
<1> QED
  BY <1>1, <1>2, TypeCorrect, CalmInvariant, PTL
     DEF ServerSpec, ServiceSpec, Service!ServiceSpec

-----------------------------------------------------------------------------
(* Logins. *)

\* The users of t have a row in s.
Known(u, n, p, t) == \E r \in t.users : r.id = u /\ r.name = n /\ r.password = p
UsersStay(t, s)   == \A u, n, p : Known(u, n, p, t) => Known(u, n, p, s)

\* What a thread has been answered is still true when it goes on, whatever the
\* others have done in between.
Honest(c, r, t) ==
    /\ Now(c).ask = "find_account" /\ r.class = "row" =>
         Known(r.id, work[c].w1, work[c].w2, t)
    /\ Now(c).ask = "new_user" => r = Null

IdsAreOwn == \A c \in Conns : id[c] # Nobody =>
    \E r \in tables.users : r.id = id[c] /\ r.name = name[c]

LoginInv ==
    /\ IdsAreOwn
    /\ \A c \in Conns : Inside(c) => Honest(c, Answers[c], tables)

\* No statement takes the row of a user away, or gives it another name or
\* password.
LEMMA UsersAreNeverRemoved ==
    ASSUME HandlerTypeOK, NEW c \in Conns, Asking(c)
    PROVE  UsersStay(tables, TablesAfter(c))
<1>1. tables \in Tables
  BY DEF HandlerTypeOK
<1>2. ASSUME NEW n, NEW p, NEW e
      PROVE  UsersStay(tables, NewUser(tables, n, p, e))
  BY <1>1 DEF UsersStay, Known, NewUser, Tables
<1>3. ASSUME NEW u, NEW b
      PROVE  UsersStay(tables, SetStatus(tables, u, b))
  <2> SUFFICES ASSUME NEW v, NEW n, NEW p, Known(v, n, p, tables)
               PROVE  Known(v, n, p, SetStatus(tables, u, b))
    BY DEF UsersStay
  <2>1. PICK r \in tables.users : r.id = v /\ r.name = n /\ r.password = p
    BY DEF Known
  <2> DEFINE s == IF r.id = u THEN [r EXCEPT !.online = b] ELSE r
  <2>2. s.id = v /\ s.name = n /\ s.password = p
    BY <1>1, <2>1 DEF Tables, UserRow
  <2>3. s \in SetStatus(tables, u, b).users
    BY <1>1, <2>1 DEF SetStatus, Tables
  <2> QED
    BY <2>2, <2>3 DEF Known
<1>4. ASSUME NEW g, NEW u, NEW role, NEW n
      PROVE  /\ UsersStay(tables, NewGroup(tables, n, u))
             /\ UsersStay(tables, NewMember(tables, g, u, role))
             /\ UsersStay(tables, DropMember(tables, g, u))
  BY <1>1 DEF NewGroup, NewMember, DropMember, Tables, UsersStay, Known
<1>5. UsersStay(tables, tables)
  BY DEF UsersStay
<1> QED
  BY <1>2, <1>3, <1>4, <1>5 DEF TablesAfter

\* The answer to a statement is true of the tables it leaves.
LEMMA AnswersAreHonest ==
    ASSUME HandlerTypeOK, NEW c \in Conns, Asking(c)
    PROVE  Honest(c, AnswerTo(c), TablesAfter(c))
<1>1. CASE Now(c).ask = "find_account"
  <2>1. TablesAfter(c) = tables
    BY <1>1 DEF TablesAfter
  <2>2. AnswerTo(c) = FindAccount(tables, work[c].w1, work[c].w2)
    BY <1>1 DEF AnswerTo
  <2> DEFINE rows == {r \in tables.users :
                        r.name = work[c].w1 /\ r.password = work[c].w2}
  <2>3. rows # {} => Known((CHOOSE r \in rows : TRUE).id, work[c].w1, work[c].w2, tables)
    BY DEF Known
  <2>4. FindAccount(tables, work[c].w1, work[c].w2).class = "row" =>
          /\ rows # {}
          /\ FindAccount(tables, work[c].w1, work[c].w2).id = (CHOOSE r \in rows : TRUE).id
    BY DEF FindAccount, FirstId, Row, None
  <2> QED
    BY <1>1, <2>1, <2>2, <2>3, <2>4 DEF Honest
<1>2. CASE Now(c).ask # "find_account"
  BY <1>2 DEF Honest, AnswerTo
<1> QED
  BY <1>1, <1>2

\* What two of the steps do with an answer: a SELECT goes on with a row only, an
\* INSERT that leaves no result at all is taken for a failure.
LEMMA FindAndCarry ==
    ASSUME NEW ask, NEW class \in {"null", "none", "row"}
    PROVE  /\ Find(ask)[class] = "go" => class = "row"
           /\ Carry(ask)["null"] = "Failed"
           /\ Carry(ask).ask = ask
<1>1. Find(ask)["null"] = "Failed" /\ Find(ask)["none"] = "Failed"
  BY DEF Find, Step
<1> QED
  BY <1>1 DEF Carry, Step

\* A thread takes an id from an honest answer only, and with the name of its row.
LEMMA ResumeIds ==
    ASSUME HandlerTypeOK, NEW c \in Conns, NEW r \in Answer, Asking(c),
           Honest(c, r, tables), Resume(c, r)
    PROVE  /\ tables' = tables
           /\ \A d \in Conns :
                \/ id'[d] = Nobody
                \/ id'[d] = id[d] /\ name'[d] = name[d]
                \/ \E u \in tables.users : u.id = id'[d] /\ u.name = name'[d]
<1>0. work[c].op \in DOMAIN Script /\ work[c].step \in DOMAIN Script[work[c].op]
  BY DEF HandlerTypeOK, Asking, Work
<1>1. ASSUME Die
      PROVE  tables' = tables /\ \A d \in Conns : id'[d] = Nobody
  BY <1>1 DEF Die
<1>2. ASSUME Done(c) \/ End(c)
      PROVE  \A d \in Conns : id'[d] = Nobody \/ (id'[d] = id[d] /\ name'[d] = name[d])
  BY <1>2 DEF Done, End, HandlerTypeOK
<1>3. CASE GoOn(c, r) \/ TryAgain(c, r)
  BY <1>3 DEF GoOn, TryAgain
<1>4. CASE LogIn(c, r)
  <2>1. work[c].op = "LOGIN" /\ work[c].step = 1
    BY <1>0, <1>4, FirstAsks DEF LogIn, Now
  <2>2. Now(c) = Find("find_account")
    BY <2>1 DEF Now, Script
  <2>3. r.class = "row"
    <3>1. Find("find_account")[r.class] = "go"
      BY <1>4, <2>2 DEF LogIn, Outcome
    <3>2. r.class \in {"null", "none", "row"}
      BY AnswerShape
    <3> QED
      BY <3>1, <3>2, FindAndCarry
  <2>4. Known(r.id, work[c].w1, work[c].w2, tables)
    BY <1>4, <2>3 DEF LogIn, Honest
  <2> QED
    BY <1>1, <1>4, <2>4 DEF LogIn, Reply, HandlerTypeOK, Known
<1>5. CASE Refuse(c, r)
  BY <1>1, <1>2, <1>5 DEF Refuse, Reply
<1>6. CASE Succeed(c, r)
  <2>1. CASE work[c].op = "REGISTER"
    <3>1. work[c].step = 2
      BY <1>6, <2>1, ScriptLengths DEF Succeed, Last, TwoSteps
    <3>2. Now(c) = Carry("new_user")
      BY <1>0, <2>1, <3>1, FirstAsks DEF Now
    <3>3. r = Null
      BY <3>2, FindAndCarry DEF Honest
    <3>4. Outcome(c, r) = "Failed"
      BY <3>2, <3>3, FindAndCarry DEF Outcome, Null
    <3> QED
      BY <1>6, <3>4 DEF Succeed
  <2>2. CASE work[c].op # "REGISTER"
    BY <1>1, <1>2, <1>6, <2>2 DEF Succeed, Reply
  <2> QED
    BY <2>1, <2>2
<1>7. CASE FinishSilently(c, r)
  BY <1>2, <1>7 DEF FinishSilently
<1> QED
  BY <1>3, <1>4, <1>5, <1>6, <1>7 DEF Resume

\* A thread that listens, a client and the process give nobody an id, and leave
\* alone what a thread inside a statement is doing.
LEMMA OtherIds ==
    ASSUME TypeInv, Outside \/ \E c \in Conns : Listen(c)
    PROVE  /\ tables' = tables
           /\ \A d \in Conns :
                \/ id'[d] = Nobody
                \/ id'[d] = id[d] /\ name'[d] = name[d]
           /\ up' => \A d \in Conns : Inside(d) => work'[d] = work[d]
<1>1. CASE Outside
  BY <1>1 DEF Outside, Environment, Connect, HangUp, Say, Kill, Die, Restart, threadVars
<1>2. ASSUME NEW c \in Conns, Listen(c)
      PROVE  /\ tables' = tables
             /\ \A d \in Conns :
                  \/ id'[d] = Nobody
                  \/ id'[d] = id[d] /\ name'[d] = name[d]
             /\ up' => \A d \in Conns : Inside(d) => work'[d] = work[d]
  <2>1. up' => \A d \in Conns \ {c} : work'[d] = work[d]
    BY <1>2, OthersStay DEF TypeInv, ServerTypeOK
  <2>2. ~Inside(c) \/ work'[c] = work[c]
    BY <1>2 DEF Listen, Accept, Receive, Misunderstand, HearTheEnd, Waits, TypeInv, Asking
  <2> QED
    BY <1>2, <2>1, <2>2 DEF Listen, Accept, Receive, Misunderstand, HearTheEnd, Die, Done,
                            End, TypeInv, ServerTypeOK, HandlerTypeOK, threadVars
<1> QED
  BY <1>1, <1>2

\* Threads that are inside a statement after a step were so before, and where
\* they were.
StatementsStay ==
    \A d \in Conns : call'[d].at # "out" =>
      Inside(d) /\ work'[d] = work[d] /\ Answers'[d] = Answers[d]

\* A step of a thread that has the connection for itself.
LEMMA StatementKinds ==
    ASSUME Quiet, calm' = calm, NEW c \in Conns, Statement(c), Inside(c) \/ Alone(c)
    PROVE  \/ SendStatement(c) /\ wire = <<>> /\ \A d \in Conns : ~Inside(d)
           \/ StatementsStay /\ UNCHANGED handlerVars
           \/ StatementsStay /\ Inside(c) /\ Answers[c] \in Answer /\ Resume(c, Answers[c])
<1>1. ASSUME NEW r \in Answer, NEW w, NEW l, NEW f,
             Inside(c), Answers[c] = r, Return(c, r, w, l, f)
      PROVE  StatementsStay /\ Inside(c) /\ Answers[c] \in Answer /\ Resume(c, Answers[c])
  <2>1. \A d \in Conns \ {c} : call[d].at = "out"
    BY <1>1 DEF Quiet, Tidy, Inside
  <2>2. \A d \in Conns : call'[d].at = "out"
    BY <1>1, <2>1 DEF Return, NewLink, NoCall, Quiet, TypeInv, ServerTypeOK
  <2> QED
    BY <1>1, <2>2 DEF StatementsStay, Return
<1>2. CASE ReadStatus(c)
  <2>1. call[c].at = "sent" /\ Inside(c)
    BY <1>2 DEF ReadStatus, Inside
  <2>2. Head(wire) = Null
    <3>1. Head(wire) \in Answer
      BY <1>2, HeadTailProperties DEF ReadStatus, Quiet, TypeInv, ServerTypeOK
    <3> QED
      BY <1>2, <3>1, AnswerShape DEF ReadStatus
  <2>3. Answers[c] = Null
    BY <2>1, <2>2, AnswerCases DEF Quiet
  <2> QED
    BY <1>1, <1>2, <2>1, <2>3, NullIsAnswer DEF ReadStatus
<1>3. CASE ReadHead(c)
  <2>1. handlerVars' = handlerVars /\ Answers' = Answers /\ Inside(c)
    BY <1>3, ReadHeadStutters DEF ReadHead, Inside, Service!serviceVars, Quiet, CalmInv
  <2>2. \A d \in Conns : call'[d].at # "out" => Inside(d)
    BY <1>3, <2>1 DEF ReadHead, Goto, Quiet, TypeInv, ServerTypeOK, Inside
  <2>3. work' = work
    BY <2>1 DEF handlerVars, threadVars
  <2> QED
    BY <2>1, <2>2, <2>3 DEF StatementsStay
<1>4. CASE call[c].at = "read" /\ Return(c, call[c].got, wire, "ready", fresh)
  <2>1. Inside(c) /\ Answers[c] = call[c].got
    BY <1>4, AnswerCases DEF Inside, Quiet
  <2>2. call[c].got \in Answer
    BY DEF Quiet, TypeInv, ServerTypeOK, Call
  <2> QED
    BY <1>1, <1>4, <2>1, <2>2
<1> QED
  BY <1>2, <1>3, <1>4, TidyStatement

\* A step that leaves all calm executes a statement, ends one, or leaves all
\* statements alone.
LEMMA StepKinds ==
    ASSUME Quiet, calm', [ServerNext]_serverVars
    PROVE  \/ \E c \in Conns : /\ SendStatement(c) /\ wire = <<>>
                               /\ \A d \in Conns : ~Inside(d)
           \/ /\ StatementsStay
              /\ \/ \E c \in Conns : /\ Inside(c) /\ Answers[c] \in Answer
                                     /\ Resume(c, Answers[c])
                 \/ Outside \/ \E c \in Conns : Listen(c)
                 \/ UNCHANGED handlerVars
<1>0. calm' = calm
  BY DEF Quiet
<1>1. ASSUME KeepLink, Outside \/ \E c \in Conns : Listen(c) PROVE StatementsStay
  <2>1. ASSUME NEW d \in Conns, call'[d].at # "out"
        PROVE  up' /\ call' = call /\ wire' = wire
    BY <1>1, <2>1 DEF KeepLink, NewLink, NoCall
  <2>2. ASSUME NEW d \in Conns, call'[d].at # "out"
        PROVE  Inside(d) /\ Answers'[d] = Answers[d]
    <3>1. call' = call /\ wire' = wire
      BY <2>1, <2>2
    <3>2. Answers' = Answers
      BY <1>0, <3>1 DEF Answers, Inside
    <3> QED
      BY <2>2, <3>1, <3>2 DEF Inside
  <2>3. up' => \A d \in Conns : Inside(d) => work'[d] = work[d]
    BY <1>1, OtherIds DEF Quiet
  <2> QED
    BY <2>1, <2>2, <2>3 DEF StatementsStay
<1>2. ASSUME UNCHANGED serverVars PROVE StatementsStay /\ UNCHANGED handlerVars
  <2>1. call' = call /\ wire' = wire /\ work' = work
    BY <1>2 DEF serverVars, handlerVars, threadVars, linkVars
  <2>2. Answers' = Answers
    BY <1>0, <2>1 DEF Answers, Inside
  <2> QED
    BY <1>2, <2>1, <2>2 DEF StatementsStay, Inside, serverVars
<1>3. ASSUME ServerNext, NEW c \in Conns, Statement(c) PROVE Inside(c) \/ Alone(c)
  BY <1>3, CalmStep
<1>4. Outside => KeepLink
  BY DEF Outside
<1> QED
  BY <1>0, <1>1, <1>2, <1>3, <1>4, StatementKinds DEF ServerNext, Thread

\* A step of the server in which nobody executes a statement.
LEMMA WithoutExecution ==
    ASSUME LoginInv, tables' = tables,
           \A d \in Conns : \/ id'[d] = Nobody
                            \/ id'[d] = id[d] /\ name'[d] = name[d]
                            \/ \E u \in tables.users : u.id = id'[d] /\ u.name = name'[d],
           StatementsStay
    PROVE  LoginInv'
<1>1. IdsAreOwn'
  BY DEF LoginInv, IdsAreOwn, Known
<1>2. \A d \in Conns : (Inside(d) => Honest(d, Answers[d], tables))'
  <2> SUFFICES ASSUME NEW d \in Conns, call'[d].at # "out"
               PROVE  Honest(d, Answers[d], tables)'
    BY DEF Inside
  <2>1. Honest(d, Answers[d], tables) /\ work'[d] = work[d] /\ Answers'[d] = Answers[d]
    BY DEF LoginInv, StatementsStay
  <2> QED
    BY <2>1 DEF Honest, Now
<1> QED
  BY <1>1, <1>2 DEF LoginInv

\* The execution of one.
LEMMA ExecutionLogins ==
    ASSUME Quiet, calm', LoginInv, NEW c \in Conns, SendStatement(c),
           \A d \in Conns : ~Inside(d), wire = <<>>
    PROVE  LoginInv'
<1>1. Asking(c) /\ HandlerTypeOK
  BY DEF Quiet, TypeInv, ServerTypeOK, SendStatement
<1>2. /\ call' = [call EXCEPT ![c] = [at |-> "sent", got |-> Null]]
      /\ wire' = <<AnswerTo(c)>>
      /\ tables' = TablesAfter(c) /\ id' = id /\ name' = name /\ work' = work
  BY DEF SendStatement, Goto, threadVars
<1>3. IdsAreOwn'
  <2> SUFFICES ASSUME NEW d \in Conns, id[d] # Nobody
               PROVE  \E r \in tables'.users : r.id = id[d] /\ r.name = name[d]
    BY <1>2 DEF IdsAreOwn
  <2>1. PICK r \in tables.users : r.id = id[d] /\ r.name = name[d]
    BY DEF LoginInv, IdsAreOwn
  <2>2. Known(id[d], name[d], r.password, tables)
    BY <2>1 DEF Known
  <2>3. Known(id[d], name[d], r.password, tables')
    BY <1>1, <1>2, <2>2, UsersAreNeverRemoved DEF UsersStay
  <2> QED
    BY <2>3 DEF Known
<1>4. ASSUME NEW d \in Conns, call'[d].at # "out" PROVE d = c
  BY <1>2, <1>4 DEF Quiet, TypeInv, ServerTypeOK, Inside
<1>5. Answers'[c] = AnswerTo(c)
  <2>1. call'[c].at = "sent" /\ Head(wire') = AnswerTo(c)
    BY <1>2 DEF Quiet, TypeInv, ServerTypeOK
  <2> QED
    BY <2>1, AnswerCasesNext
<1>6. Honest(c, Answers[c], tables)'
  BY <1>1, <1>2, <1>5, AnswersAreHonest DEF Honest, Now
<1> QED
  BY <1>3, <1>4, <1>6 DEF LoginInv, Inside

LEMMA LoginInvInvariant == ServerSpec => [](calm => LoginInv)
<1>1. ServerInit => LoginInv
  BY DEF ServerInit, HandlerInit, LoginInv, IdsAreOwn, NoCall, Inside
<1>2. CalmInv /\ (calm => LoginInv) /\ [ServerNext]_serverVars => (calm => LoginInv)'
  <2> SUFFICES ASSUME CalmInv, calm => LoginInv, [ServerNext]_serverVars, calm'
               PROVE  LoginInv'
    OBVIOUS
  <2>0. Quiet /\ LoginInv
    BY CalmStep DEF CalmInv, Quiet, serverVars, linkVars
  <2>1. ASSUME NEW c \in Conns, SendStatement(c), wire = <<>>, \A d \in Conns : ~Inside(d)
        PROVE  LoginInv'
    BY <2>0, <2>1, ExecutionLogins
  <2>2. ASSUME StatementsStay, NEW c \in Conns, Inside(c), Answers[c] \in Answer,
               Resume(c, Answers[c])
        PROVE  LoginInv'
    <3>1. HandlerTypeOK /\ Asking(c) /\ Honest(c, Answers[c], tables)
      BY <2>0, <2>2 DEF Quiet, TypeInv, ServerTypeOK, LoginInv
    <3> QED
      BY <2>0, <2>2, <3>1, ResumeIds, WithoutExecution
  <2>3. ASSUME StatementsStay, Outside \/ \E c \in Conns : Listen(c) PROVE LoginInv'
    <3>1. /\ tables' = tables
          /\ \A d \in Conns : id'[d] = Nobody \/ (id'[d] = id[d] /\ name'[d] = name[d])
      BY <2>0, <2>3, OtherIds DEF Quiet
    <3> QED
      BY <2>0, <2>3, <3>1, WithoutExecution
  <2>4. ASSUME StatementsStay, UNCHANGED handlerVars PROVE LoginInv'
    <3>1. tables' = tables /\ id' = id /\ name' = name
      BY <2>4 DEF handlerVars, threadVars
    <3> QED
      BY <2>0, <2>4, <3>1, WithoutExecution
  <2> QED
    BY <2>0, <2>1, <2>2, <2>3, <2>4, StepKinds
<1> QED
  BY <1>1, <1>2, CalmInvariant, PTL DEF ServerSpec

\* A thread that has an id acts for the user who logged in on its connection,
\* however the threads interleave, until two of them have been in execute_query
\* at once (main.c:70-108).
THEOREM LoginsOwn == ServerSpec => []LoginsAreOwn
<1>1. (calm => LoginInv) => LoginsAreOwn
  BY DEF LoginInv, IdsAreOwn, LoginsAreOwn
<1> QED
  BY <1>1, LoginInvInvariant, PTL

-----------------------------------------------------------------------------
(* Changes. *)

\* The statements that change tables, each with the script and the place it has
\* there.
LEMMA WhoChanges ==
    ASSUME NEW op \in DOMAIN Script, NEW i \in DOMAIN Script[op]
    PROVE  LET ask == Script[op][i].ask IN
           /\ ask = "go_online" => op = "LOGIN" /\ i = 2
           /\ ask = "go_offline" => op = "QUIT"
           /\ ask = "new_admin" => op = "CREATE_GROUP" /\ i = 3
           /\ ask = "join" => op = "JOIN_GROUP" /\ i = 3
           /\ ask = "leave" => op = "LEAVE_GROUP" /\ i = 2
           /\ ask = "new_member" => op \in {"ADD_MEMBER", "ADD_AGAIN"} /\ i = 4
           /\ ask = "remove" => op = "REMOVE_MEMBER" /\ i = 3
           /\ ask = "find_user" => op \in {"REGISTER", "PRIVATE"}
<1>1. CASE op \in OneStep
  <2>1. i \in {1}
    BY <1>1, ScriptLengths
  <2> QED
    BY <1>1, <2>1, Asks DEF OneStep
<1>2. CASE op \in TwoSteps
  <2>1. i \in {1, 2}
    BY <1>2, ScriptLengths
  <2> QED
    BY <1>2, <2>1, Asks DEF TwoSteps
<1>3. CASE op \in ThreeSteps
  <2>1. i \in {1, 2, 3}
    BY <1>3, ScriptLengths
  <2> QED
    BY <1>3, <2>1, Asks DEF ThreeSteps
<1>4. CASE op \in FourSteps
  <2>1. i \in {1, 2, 3, 4}
    BY <1>4, ScriptLengths
  <2> QED
    BY <1>4, <2>1, Asks DEF FourSteps
<1> QED
  BY <1>1, <1>2, <1>3, <1>4, ScriptLengths

\* Where commands look up a group, or the second user they name.
LookUps == {Find("find_group"), Find("find_second_user")}

LEMMA WhoLooksUp ==
    ASSUME NEW op \in DOMAIN Script, NEW i \in DOMAIN Script[op],
           Script[op][i].ask \in {"find_group", "find_second_user"}
    PROVE  Script[op][i] \in LookUps \/ (op \in FourSteps /\ i \in {1, 2})
<1>1. /\ Script["JOIN_GROUP"][1] = Find("find_group")
      /\ Script["LEAVE_GROUP"][1] = Find("find_group")
      /\ Script["REMOVE_MEMBER"][1] = Find("find_group")
      /\ Script["REMOVE_MEMBER"][2] = Find("find_second_user")
      /\ Script["SEND"][1] = Find("find_group")
      /\ Script["CREATE_GROUP"][2] = Find("find_group")
  BY DEF Script
<1>2. CASE op \in OneStep
  <2>1. i \in {1}
    BY <1>2, ScriptLengths
  <2> QED
    BY <1>2, <2>1, Asks DEF OneStep
<1>3. CASE op \in TwoSteps
  <2>1. i \in {1, 2}
    BY <1>3, ScriptLengths
  <2>2. op = "LEAVE_GROUP" /\ i = 1
    BY <1>3, <2>1, Asks DEF TwoSteps
  <2> QED
    BY <1>1, <2>2 DEF LookUps
<1>4. CASE op \in ThreeSteps
  <2>1. i \in {1, 2, 3}
    BY <1>4, ScriptLengths
  <2>2. \/ op \in {"JOIN_GROUP", "REMOVE_MEMBER", "SEND"} /\ i = 1
        \/ op \in {"CREATE_GROUP", "REMOVE_MEMBER"} /\ i = 2
    BY <1>4, <2>1, Asks DEF ThreeSteps
  <2> QED
    BY <1>1, <2>2 DEF LookUps
<1>5. CASE op \in FourSteps
  <2>1. i \in {1, 2, 3, 4}
    BY <1>5, ScriptLengths
  <2> QED
    BY <1>5, <2>1, Asks DEF FourSteps
<1> QED
  BY <1>2, <1>3, <1>4, <1>5, ScriptLengths

\* They go on only when there is a row.
LEMMA OnlyRowsGoOn ==
    ASSUME NEW op \in DOMAIN Script, NEW i \in DOMAIN Script[op],
           Script[op][i] \in LookUps \/ (op \in FourSteps /\ i \in {1, 2}),
           NEW class \in {"null", "none", "row"}, Script[op][i][class] = "go"
    PROVE  class = "row"
<1>1. /\ Script["ADD_MEMBER"][1]["null"] = "again" /\ Script["ADD_MEMBER"][1]["none"] = "again"
      /\ Script["ADD_MEMBER"][2]["null"] = "again" /\ Script["ADD_MEMBER"][2]["none"] = "again"
  BY DEF Script, AddMember, Step
<1>2. /\ Script["ADD_AGAIN"][1]["null"] = "Failed" /\ Script["ADD_AGAIN"][1]["none"] = "Failed"
      /\ Script["ADD_AGAIN"][2]["null"] = "Failed" /\ Script["ADD_AGAIN"][2]["none"] = "Failed"
  BY DEF Script, AddMember, Step
<1>3. ASSUME NEW ask, Script[op][i] = Find(ask) PROVE class = "row"
  <2>1. Find(ask)[class] = "go"
    BY <1>3
  <2> QED
    BY <2>1, FindAndCarry
<1>4. CASE op \in FourSteps /\ i \in {1, 2}
  <2>1. Script[op][i]["null"] # "go" /\ Script[op][i]["none"] # "go"
    BY <1>1, <1>2, <1>4 DEF FourSteps
  <2> QED
    BY <2>1
<1> QED
  BY <1>3, <1>4 DEF LookUps

\* The group a command has looked up is the one its line names, and so is the
\* second user.
NamedGroup(c, g, t) == \E r \in t.groups : r.id = g /\ r.name = work[c].w1
NamedUser(c, u, t)  == \E r \in t.users : r.id = u /\ r.name = work[c].w2

LookedUp(c) ==
    \A i \in 1..4 : i < work[c].step =>
      /\ Script[work[c].op][i].ask = "find_group" => NamedGroup(c, work[c].gid, tables)
      /\ Script[work[c].op][i].ask = "find_second_user" => NamedUser(c, work[c].uid, tables)

\* Answers that are still true when their thread goes on.
True(c, r, t) ==
    /\ Now(c).ask = "find_group" /\ r.class = "row" => NamedGroup(c, r.id, t)
    /\ Now(c).ask = "find_second_user" /\ r.class = "row" => NamedUser(c, r.id, t)

\* AUTO_INCREMENT is ahead of every row.
Ahead(t) == \A r \in t.users : r.id < t.nextUser

ChangeInv ==
    /\ Ahead(tables)
    /\ \A c \in Conns : Asking(c) => LookedUp(c)
    /\ \A c \in Conns : Inside(c) => True(c, Answers[c], tables)

\* No statement takes a group away; what statements do to ids and memberships.
LEMMA TablesGrow ==
    ASSUME HandlerTypeOK, NEW c \in Conns, Asking(c), Ahead(tables)
    PROVE  /\ tables.groups \subseteq TablesAfter(c).groups
           /\ Ahead(TablesAfter(c))
<1>1. tables \in Tables
  BY DEF HandlerTypeOK
<1>2. ASSUME NEW n, NEW p, NEW e
      PROVE  /\ NewUser(tables, n, p, e).groups = tables.groups
             /\ Ahead(NewUser(tables, n, p, e))
  <2>1. tables.nextUser \in Nat /\ \A r \in tables.users : r.id \in Nat /\ r.id <= MaxUserId
    BY <1>1, Ver2DbAssumption DEF Tables, UserRow, UserIds
  <2>2. NewUser(tables, n, p, e).nextUser = Count(tables.nextUser, MaxUserId)
    BY <1>1 DEF NewUser, Tables
  <2>3. \A r \in NewUser(tables, n, p, e).users :
          r \in tables.users \/ (tables.nextUser <= MaxUserId /\ r.id = tables.nextUser)
    BY <1>1, <2>1, Ver2DbAssumption DEF NewUser, Tables
  <2>4. NewUser(tables, n, p, e).groups = tables.groups
    BY <1>1 DEF NewUser, Tables
  <2> QED
    BY <2>1, <2>2, <2>3, <2>4, Ver2DbAssumption DEF Ahead, Count
<1>3. ASSUME NEW u, NEW b
      PROVE  /\ SetStatus(tables, u, b).groups = tables.groups
             /\ Ahead(SetStatus(tables, u, b))
  <2>1. \A r \in SetStatus(tables, u, b).users : \E q \in tables.users : q.id = r.id
    BY <1>1 DEF SetStatus, Tables, UserRow
  <2> QED
    BY <1>1, <2>1 DEF SetStatus, Tables, Ahead
<1>4. ASSUME NEW g, NEW u, NEW role, NEW n
      PROVE  /\ tables.groups \subseteq NewGroup(tables, n, u).groups
             /\ Ahead(NewGroup(tables, n, u))
             /\ NewMember(tables, g, u, role).groups = tables.groups
             /\ Ahead(NewMember(tables, g, u, role))
             /\ DropMember(tables, g, u).groups = tables.groups
             /\ Ahead(DropMember(tables, g, u))
  <2>1. tables.groups \subseteq NewGroup(tables, n, u).groups
    BY <1>1 DEF NewGroup, Tables
  <2>2. Ahead(NewGroup(tables, n, u))
    BY <1>1 DEF NewGroup, Tables, Ahead
  <2>3. NewMember(tables, g, u, role).groups = tables.groups
        /\ Ahead(NewMember(tables, g, u, role))
    BY <1>1 DEF NewMember, Tables, Ahead
  <2>4. DropMember(tables, g, u).groups = tables.groups /\ Ahead(DropMember(tables, g, u))
    BY <1>1 DEF DropMember, Tables, Ahead
  <2> QED
    BY <2>1, <2>2, <2>3, <2>4
<1> DEFINE Good(t) == tables.groups \subseteq t.groups /\ Ahead(t)
<1>5. \A n, p, e : Good(NewUser(tables, n, p, e))
  BY <1>2
<1>6. \A u, b : Good(SetStatus(tables, u, b))
  BY <1>3
<1>7. \A g, u, role, n : /\ Good(NewGroup(tables, n, u))
                        /\ Good(NewMember(tables, g, u, role))
                        /\ Good(DropMember(tables, g, u))
  BY <1>4
<1>8. Good(tables)
  OBVIOUS
<1>9. Good(TablesAfter(c))
  <2> HIDE DEF Good
  <2> QED
    BY <1>5, <1>6, <1>7, <1>8 DEF TablesAfter
<1> QED
  BY <1>9

\* What names a group or a user in some tables does so in the next.
LEMMA NamesStay ==
    ASSUME HandlerTypeOK, NEW c \in Conns, Asking(c), Ahead(tables),
           NEW d \in Conns, NEW g, NEW u
    PROVE  /\ NamedGroup(d, g, tables) => NamedGroup(d, g, TablesAfter(c))
           /\ NamedUser(d, u, tables) => NamedUser(d, u, TablesAfter(c))
<1>1. tables.groups \subseteq TablesAfter(c).groups
  BY TablesGrow
<1>2. ASSUME NamedUser(d, u, tables) PROVE NamedUser(d, u, TablesAfter(c))
  <2>1. PICK r \in tables.users : r.id = u /\ r.name = work[d].w2
    BY <1>2 DEF NamedUser
  <2>2. Known(u, work[d].w2, r.password, tables)
    BY <2>1 DEF Known
  <2>3. Known(u, work[d].w2, r.password, TablesAfter(c))
    BY <2>2, UsersAreNeverRemoved DEF UsersStay
  <2> QED
    BY <2>3 DEF Known, NamedUser
<1> QED
  BY <1>1, <1>2 DEF NamedGroup

\* The answer to a statement is true.
LEMMA AnswersAreTrue ==
    ASSUME HandlerTypeOK, NEW c \in Conns, Asking(c)
    PROVE  True(c, AnswerTo(c), tables)
<1>1. CASE Now(c).ask = "find_group"
  <2> DEFINE rows == {r \in tables.groups : r.name = work[c].w1}
  <2>1. AnswerTo(c) = FirstId(rows)
    BY <1>1 DEF AnswerTo, FindGroup
  <2>2. rows # {} => NamedGroup(c, (CHOOSE r \in rows : TRUE).id, tables)
    BY DEF NamedGroup
  <2> QED
    BY <1>1, <2>1, <2>2 DEF True, FirstId, Row, None
<1>2. CASE Now(c).ask = "find_second_user"
  <2> DEFINE rows == {r \in tables.users : r.name = work[c].w2}
  <2>1. AnswerTo(c) = FirstId(rows)
    BY <1>2 DEF AnswerTo, FindUser
  <2>2. rows # {} => NamedUser(c, (CHOOSE r \in rows : TRUE).id, tables)
    BY DEF NamedUser
  <2> QED
    BY <1>2, <2>1, <2>2 DEF True, FirstId, Row, None
<1>3. CASE Now(c).ask \notin {"find_group", "find_second_user"}
  BY <1>3 DEF True
<1> QED
  BY <1>1, <1>2, <1>3

\* A thread that goes on, or listens, has looked up what its line names.
LEMMA NextLooksUp ==
    ASSUME HandlerTypeOK, NEW c \in Conns, NEW r \in Answer, Asking(c), LookedUp(c),
           True(c, r, tables), Outcome(c, r) = "go", NextStep(c, r), tables' = tables
    PROVE  LookedUp(c)'
<1> DEFINE w == work[c]
<1>1. w \in Work /\ w.op \in DOMAIN Script /\ w.step \in DOMAIN Script[w.op]
  BY DEF HandlerTypeOK, Asking, Work
<1>2. /\ work'[c].op = w.op /\ work'[c].step = w.step + 1
      /\ work'[c].w1 = w.w1 /\ work'[c].w2 = w.w2
      /\ work'[c].gid = IF Now(c).ask = "find_group" THEN r.id ELSE w.gid
      /\ work'[c].uid = IF Now(c).ask \in {"find_user", "find_second_user"}
                          THEN r.id ELSE w.uid
  BY <1>1 DEF NextStep, HandlerTypeOK, Work
<1>3. r.class \in {"null", "none", "row"}
  BY AnswerShape
<1>4. Script[w.op][w.step].ask \in {"find_group", "find_second_user"} => r.class = "row"
  BY <1>1, <1>3, WhoLooksUp, OnlyRowsGoOn DEF Outcome, Now
<1>5. /\ Script[w.op][w.step].ask = "find_group" => NamedGroup(c, r.id, tables)
      /\ Script[w.op][w.step].ask = "find_second_user" => NamedUser(c, r.id, tables)
  BY <1>4 DEF True, Now
<1>6. ASSUME NEW i \in 1..4, i < w.step, Script[w.op][i].ask = "find_second_user"
      PROVE  Now(c).ask # "find_user"
  <2>1. i \in DOMAIN Script[w.op]
    BY <1>1, <1>6, StepBounds
  <2>2. w.op \notin {"REGISTER", "PRIVATE"}
    BY <1>6, <2>1, Asks, ScriptLengths DEF TwoSteps
  <2> QED
    BY <1>1, <2>2, WhoChanges DEF Now
<1> SUFFICES ASSUME NEW i \in 1..4, i < w.step + 1
             PROVE  /\ Script[w.op][i].ask = "find_group" => NamedGroup(c, work[c].gid, tables)'
                    /\ Script[w.op][i].ask = "find_second_user" => NamedUser(c, work[c].uid, tables)'
  BY <1>2 DEF LookedUp
<1>7. CASE i = w.step
  BY <1>2, <1>5, <1>7 DEF Now, NamedGroup, NamedUser
<1>8. CASE i < w.step
  BY <1>2, <1>5, <1>6, <1>8 DEF LookedUp, Now, NamedGroup, NamedUser
<1> QED
  BY <1>1, <1>7, <1>8 DEF Work

\* The statements about memberships touch one.
LEMMA OneMembership ==
    ASSUME NEW t \in Tables, NEW g, NEW u, NEW role,
           NEW s \in {NewMember(t, g, u, role), DropMember(t, g, u)}
    PROVE  /\ s.users = t.users
           /\ \A m \in (t.members \ s.members) \cup (s.members \ t.members) :
                m.group = g /\ m.user = u
<1>1. CASE s = NewMember(t, g, u, role)
  BY <1>1 DEF NewMember, Tables
<1>2. CASE s = DropMember(t, g, u)
  BY <1>2 DEF DropMember, Tables
<1> QED
  BY <1>1, <1>2

\* A statement changes what is its thread's to change.
LEMMA ExecutionChanges ==
    ASSUME HandlerTypeOK, NEW c \in Conns, Asking(c), LookedUp(c), Ahead(tables)
    PROVE  /\ \A r \in tables.users :
                StatusOf(r.id, TablesAfter(c)) # StatusOf(r.id, tables) =>
                  id[c] = r.id /\ work[c].op \in {"LOGIN", "QUIT"}
           /\ \A m \in (tables.members \ TablesAfter(c).members)
                         \cup (TablesAfter(c).members \ tables.members) :
                Names(c, m.group, m.user, tables)
<1> DEFINE w == work[c]
           s == TablesAfter(c)
           asked == {"new_user", "go_online", "go_offline", "new_group", "new_admin", "join",
                     "new_member", "leave", "remove"}
<1>0. tables \in Tables
  BY DEF HandlerTypeOK
<1>1. w \in Work /\ w.op \in DOMAIN Script /\ w.step \in DOMAIN Script[w.op]
  BY DEF HandlerTypeOK, Asking, Work
<1>2. Now(c).ask = Script[w.op][w.step].ask
  BY DEF Now
<1>3. CASE Now(c).ask \notin asked
  BY <1>3 DEF TablesAfter
<1>4. CASE Now(c).ask = "new_user"
  <2>1. s = NewUser(tables, w.w1, w.w2, w.w3)
    BY <1>4 DEF TablesAfter
  <2>2. s.members = tables.members
    BY <1>0, <2>1 DEF NewUser, Tables
  <2>3. ASSUME NEW r \in tables.users PROVE StatusOf(r.id, s) = StatusOf(r.id, tables)
    <3>1. r.id < tables.nextUser /\ r.id \in Nat /\ tables.nextUser \in Nat
      BY <1>0, Ver2DbAssumption DEF Ahead, Tables, UserRow, UserIds
    <3>2. \A q : (q \in s.users /\ q.id = r.id) <=> (q \in tables.users /\ q.id = r.id)
      BY <1>0, <2>1, <3>1 DEF NewUser, Tables
    <3>3. {q \in s.users : q.id = r.id} = {q \in tables.users : q.id = r.id}
      BY <3>2
    <3> QED
      BY <3>3 DEF StatusOf
  <2> QED
    BY <2>2, <2>3
<1>5. CASE Now(c).ask \in {"go_online", "go_offline"}
  <2>1. w.op \in {"LOGIN", "QUIT"}
    BY <1>1, <1>2, <1>5, WhoChanges
  <2>2. PICK b \in BOOLEAN : s = SetStatus(tables, id[c], b)
    BY <1>5 DEF TablesAfter
  <2>3. s.members = tables.members
    BY <1>0, <2>2 DEF SetStatus, Tables
  <2>4. ASSUME NEW r \in tables.users, r.id # id[c]
        PROVE  StatusOf(r.id, s) = StatusOf(r.id, tables)
    <3>1. \A q : (q \in s.users /\ q.id = r.id) <=> (q \in tables.users /\ q.id = r.id)
      BY <1>0, <2>2, <2>4 DEF SetStatus, Tables, UserRow
    <3>2. {q \in s.users : q.id = r.id} = {q \in tables.users : q.id = r.id}
      BY <3>1
    <3> QED
      BY <3>2 DEF StatusOf
  <2> QED
    BY <2>1, <2>3, <2>4
<1>6. CASE Now(c).ask = "new_group"
  <2>1. s.members = tables.members /\ s.users = tables.users
    BY <1>0, <1>6 DEF TablesAfter, NewGroup, Tables
  <2> QED
    BY <2>1 DEF StatusOf
<1>7. CASE Now(c).ask \in {"new_admin", "join", "leave"}
  <2>1. w.op \in {"CREATE_GROUP", "JOIN_GROUP", "LEAVE_GROUP"}
    BY <1>1, <1>2, <1>7, WhoChanges
  <2>2. NamedGroup(c, w.gid, tables)
    <3>1. CASE Now(c).ask = "new_admin"
      <4>1. w.op = "CREATE_GROUP" /\ w.step = 3
        BY <1>1, <1>2, <3>1, WhoChanges
      <4>2. Script[w.op][2].ask = "find_group"
        BY <4>1, Asks
      <4> QED
        BY <4>1, <4>2 DEF LookedUp
    <3>2. CASE Now(c).ask = "join"
      <4>1. w.op = "JOIN_GROUP" /\ w.step = 3
        BY <1>1, <1>2, <3>2, WhoChanges
      <4>2. Script[w.op][1].ask = "find_group"
        BY <4>1, Asks
      <4> QED
        BY <4>1, <4>2 DEF LookedUp
    <3>3. CASE Now(c).ask = "leave"
      <4>1. w.op = "LEAVE_GROUP" /\ w.step = 2
        BY <1>1, <1>2, <3>3, WhoChanges
      <4>2. Script[w.op][1].ask = "find_group"
        BY <4>1, Asks
      <4> QED
        BY <4>1, <4>2 DEF LookedUp
    <3> QED
      BY <1>7, <3>1, <3>2, <3>3
  <2>3. /\ s.users = tables.users
        /\ \A m \in (tables.members \ s.members) \cup (s.members \ tables.members) :
             m.group = w.gid /\ m.user = id[c]
    <3>1. PICK role \in {"admin", "member"} :
            s \in {NewMember(tables, w.gid, id[c], role), DropMember(tables, w.gid, id[c])}
      BY <1>7 DEF TablesAfter
    <3> HIDE DEF s, w
    <3> QED
      BY <1>0, <3>1, OneMembership
  <2> QED
    BY <2>1, <2>2, <2>3 DEF StatusOf, Names, NamedGroup
<1>8. CASE Now(c).ask \in {"new_member", "remove"}
  <2>1. \/ w.op \in {"ADD_MEMBER", "ADD_AGAIN"} /\ w.step = 4
        \/ w.op = "REMOVE_MEMBER" /\ w.step = 3
    BY <1>1, <1>2, <1>8, WhoChanges
  <2>2. Script[w.op][1].ask = "find_group" /\ Script[w.op][2].ask = "find_second_user"
    BY <2>1, Asks
  <2>3. NamedGroup(c, w.gid, tables) /\ NamedUser(c, w.uid, tables)
    BY <2>1, <2>2 DEF LookedUp
  <2>4. /\ s.users = tables.users
        /\ \A m \in (tables.members \ s.members) \cup (s.members \ tables.members) :
             m.group = w.gid /\ m.user = w.uid
    <3>1. s \in {NewMember(tables, w.gid, w.uid, "member"), DropMember(tables, w.gid, w.uid)}
      BY <1>8 DEF TablesAfter
    <3> HIDE DEF s, w
    <3> QED
      BY <1>0, <3>1, OneMembership
  <2> QED
    BY <2>1, <2>3, <2>4 DEF StatusOf, Names, NamedGroup, NamedUser
<1> QED
  BY <1>3, <1>4, <1>5, <1>6, <1>7, <1>8

\* A step in which nobody executes a statement.
LEMMA WithoutChange ==
    ASSUME ChangeInv, tables' = tables,
           \A d \in Conns : Asking(d)' => LookedUp(d)',
           StatementsStay
    PROVE  ChangeInv'
<1>1. \A d \in Conns : (Inside(d) => True(d, Answers[d], tables))'
  <2> SUFFICES ASSUME NEW d \in Conns, call'[d].at # "out"
               PROVE  True(d, Answers[d], tables)'
    BY DEF Inside
  <2>1. True(d, Answers[d], tables) /\ work'[d] = work[d] /\ Answers'[d] = Answers[d]
    BY DEF ChangeInv, StatementsStay
  <2> QED
    BY <2>1 DEF True, Now, NamedGroup, NamedUser
<1> QED
  BY <1>1 DEF ChangeInv

\* A command that is where it was, or at its beginning, has looked up all it
\* should have.
LEMMA SameLookedUp ==
    ASSUME ChangeInv, tables' = tables, NEW d \in Conns, Asking(d)',
           work'[d] = work[d] \/ work'[d].step = 1
    PROVE  LookedUp(d)'
<1>1. CASE work'[d] = work[d]
  BY <1>1 DEF ChangeInv, Asking, LookedUp, NamedGroup, NamedUser
<1>2. CASE work'[d].step = 1
  BY <1>2 DEF LookedUp
<1> QED
  BY <1>1, <1>2

LEMMA ListenLooksUp ==
    ASSUME HandlerTypeOK, ChangeInv, NEW c \in Conns, Listen(c), NEW d \in Conns, Asking(d)'
    PROVE  tables' = tables /\ LookedUp(d)'
<1>1. tables' = tables
  BY DEF Listen, Accept, Receive, Misunderstand, HearTheEnd, Die
<1>2. work'[d] = work[d] \/ work'[d].step = 1
  BY DEF Listen, Accept, Receive, Misunderstand, HearTheEnd, Die, Done, End, Start, Idle,
         HandlerTypeOK
<1> QED
  BY <1>1, <1>2, SameLookedUp

LEMMA ResumeLooksUp ==
    ASSUME HandlerTypeOK, ChangeInv, NEW c \in Conns, NEW r \in Answer, Asking(c),
           True(c, r, tables), Resume(c, r), NEW d \in Conns, Asking(d)'
    PROVE  tables' = tables /\ LookedUp(d)'
<1>1. tables' = tables
  BY DEF Resume, GoOn, LogIn, TryAgain, Refuse, Succeed, FinishSilently, Reply, Die
<1>2. CASE work'[d] = work[d] \/ work'[d].step = 1
  BY <1>1, <1>2, SameLookedUp
<1>3. CASE NextStep(c, r) /\ Outcome(c, r) = "go"
  <2>1. d = c \/ work'[d] = work[d]
    BY <1>3 DEF NextStep, HandlerTypeOK
  <2>2. LookedUp(c)'
    <3>1. LookedUp(c)
      BY DEF ChangeInv
    <3> QED
      BY <1>1, <1>3, <3>1, NextLooksUp
  <2> QED
    BY <1>1, <1>2, <2>1, <2>2
<1>4. \/ work'[d] = work[d] \/ work'[d].step = 1
      \/ NextStep(c, r) /\ Outcome(c, r) = "go"
  <2>1. ASSUME Done(c) \/ End(c) \/ Die \/ work' = [work EXCEPT ![c] = Idle]
        PROVE  work'[d] = work[d] \/ work'[d].step = 1
    BY <2>1 DEF Done, End, Die, Idle, HandlerTypeOK
  <2>2. CASE GoOn(c, r) \/ LogIn(c, r)
    BY <2>1, <2>2 DEF GoOn, LogIn, Reply
  <2>3. CASE TryAgain(c, r)
    BY <2>3 DEF TryAgain, Start, HandlerTypeOK
  <2>4. CASE Refuse(c, r) \/ FinishSilently(c, r)
    BY <2>1, <2>4 DEF Refuse, FinishSilently, Reply
  <2>5. CASE Succeed(c, r)
    BY <2>1, <2>5 DEF Succeed, Reply
  <2> QED
    BY <2>2, <2>3, <2>4, <2>5 DEF Resume
<1> QED
  BY <1>2, <1>3, <1>4

\* An execution.
LEMMA ExecutionChange ==
    ASSUME Quiet, calm', ChangeInv, NEW c \in Conns, SendStatement(c),
           \A d \in Conns : ~Inside(d), wire = <<>>
    PROVE  ChangeInv'
<1>1. Asking(c) /\ HandlerTypeOK /\ Ahead(tables)
  BY DEF Quiet, TypeInv, ServerTypeOK, SendStatement, ChangeInv
<1>2. /\ call' = [call EXCEPT ![c] = [at |-> "sent", got |-> Null]]
      /\ wire' = <<AnswerTo(c)>>
      /\ tables' = TablesAfter(c) /\ work' = work
  BY DEF SendStatement, Goto, threadVars
<1>3. Ahead(tables')
  BY <1>1, <1>2, TablesGrow
<1>4. ASSUME NEW d \in Conns, Asking(d)' PROVE LookedUp(d)'
  <2>1. LookedUp(d)
    BY <1>2, <1>4 DEF Asking, ChangeInv
  <2>2. \A g, u : /\ NamedGroup(d, g, tables) => NamedGroup(d, g, tables)'
                  /\ NamedUser(d, u, tables) => NamedUser(d, u, tables)'
    BY <1>1, <1>2, NamesStay DEF NamedGroup, NamedUser
  <2> QED
    BY <1>2, <2>1, <2>2 DEF LookedUp
<1>5. ASSUME NEW d \in Conns, call'[d].at # "out" PROVE d = c
  BY <1>2, <1>5 DEF Quiet, TypeInv, ServerTypeOK, Inside
<1>6. Answers'[c] = AnswerTo(c)
  <2>1. call'[c].at = "sent" /\ Head(wire') = AnswerTo(c)
    BY <1>2 DEF Quiet, TypeInv, ServerTypeOK
  <2> QED
    BY <2>1, AnswerCasesNext
<1>7. True(c, AnswerTo(c), TablesAfter(c))
  BY <1>1, AnswersAreTrue, NamesStay DEF True
<1>8. True(c, Answers[c], tables)'
  BY <1>2, <1>6, <1>7 DEF True, Now, NamedGroup, NamedUser
<1> QED
  BY <1>3, <1>4, <1>5, <1>8 DEF ChangeInv, Inside

\* Only the execution of a statement changes the tables.
LEMMA TablesKept ==
    ASSUME [ServerNext]_serverVars
    PROVE  tables' = tables \/ \E c \in Conns : SendStatement(c)
<1>1. ASSUME NEW c \in Conns, NEW r, Resume(c, r) PROVE tables' = tables
  BY <1>1 DEF Resume, GoOn, LogIn, TryAgain, Refuse, Succeed, FinishSilently, Reply, Die
<1>2. ASSUME NEW c \in Conns, Listen(c) PROVE tables' = tables
  BY <1>2 DEF Listen, Accept, Receive, Misunderstand, HearTheEnd, Die
<1>3. ASSUME Outside PROVE tables' = tables
  BY <1>3 DEF Outside, Environment, Connect, HangUp, Say, Kill, Die, Restart
<1>4. ASSUME NEW c \in Conns, Statement(c) PROVE tables' = tables \/ SendStatement(c)
  BY <1>1, <1>4 DEF Statement, OutOfSync, ReadStatus, ReadHead, ReadNonsense, StoreResult,
                    Return, handlerVars
<1>5. ASSUME UNCHANGED serverVars PROVE tables' = tables
  BY <1>5 DEF serverVars, handlerVars
<1> QED
  BY <1>2, <1>3, <1>4, <1>5 DEF ServerNext, Thread

LEMMA ChangeInvInvariant == ServerSpec => [](calm => ChangeInv)
<1>1. ServerInit => ChangeInv
  BY Ver2DbAssumption DEF ServerInit, HandlerInit, ChangeInv, Ahead, OldTables, Asking, Idle,
     NoCall, Inside
<1>2. CalmInv /\ (calm => ChangeInv) /\ [ServerNext]_serverVars => (calm => ChangeInv)'
  <2> SUFFICES ASSUME CalmInv, calm => ChangeInv, [ServerNext]_serverVars, calm'
               PROVE  ChangeInv'
    OBVIOUS
  <2>0. Quiet /\ ChangeInv /\ HandlerTypeOK
    BY CalmStep DEF CalmInv, Quiet, TypeInv, ServerTypeOK, serverVars, linkVars
  <2>1. ASSUME NEW c \in Conns, SendStatement(c), wire = <<>>, \A d \in Conns : ~Inside(d)
        PROVE  ChangeInv'
    BY <2>0, <2>1, ExecutionChange
  <2>2. ASSUME StatementsStay, NEW c \in Conns, Inside(c), Answers[c] \in Answer,
               Resume(c, Answers[c])
        PROVE  ChangeInv'
    <3>1. Asking(c) /\ True(c, Answers[c], tables)
      BY <2>0, <2>2 DEF Quiet, TypeInv, ChangeInv
    <3>2. tables' = tables
      BY <2>2 DEF Resume, GoOn, LogIn, TryAgain, Refuse, Succeed, FinishSilently, Reply, Die
    <3>3. \A d \in Conns : Asking(d)' => LookedUp(d)'
      BY <2>0, <2>2, <3>1, ResumeLooksUp
    <3> QED
      BY <2>0, <2>2, <3>2, <3>3, WithoutChange
  <2>3. ASSUME StatementsStay, NEW c \in Conns, Listen(c) PROVE ChangeInv'
    <3>1. tables' = tables
      BY <2>3 DEF Listen, Accept, Receive, Misunderstand, HearTheEnd, Die
    <3>2. \A d \in Conns : Asking(d)' => LookedUp(d)'
      BY <2>0, <2>3, ListenLooksUp
    <3> QED
      BY <2>0, <2>3, <3>1, <3>2, WithoutChange
  <2>4. ASSUME StatementsStay, Outside \/ UNCHANGED handlerVars PROVE ChangeInv'
    <3>1. tables' = tables /\ \A d \in Conns : work'[d] = work[d] \/ work'[d].step = 1
      BY <2>4 DEF Outside, Environment, Connect, HangUp, Say, Kill, Die, Restart, Idle,
                  handlerVars, threadVars
    <3>2. \A d \in Conns : Asking(d)' => LookedUp(d)'
      BY <2>0, <3>1, SameLookedUp
    <3> QED
      BY <2>0, <2>4, <3>1, <3>2, WithoutChange
  <2> QED
    BY <2>0, <2>1, <2>2, <2>3, <2>4, StepKinds
<1> QED
  BY <1>1, <1>2, CalmInvariant, PTL DEF ServerSpec

\* The status of a user changes only when a thread of that user logs in or
\* leaves, and a membership only by a command that names its group, for the user
\* of the thread or one the command names (main.c:87, 113; group.c:82, 111, 170,
\* 214), however the threads interleave, until two of them have been in
\* execute_query at once.
THEOREM ChangesOwn == ServerSpec => ChangesAreOwn
<1> DEFINE Own ==
      /\ \A r \in tables.users : StatusOf(r.id, tables') # StatusOf(r.id, tables) =>
           \E c \in Conns : id[c] = r.id /\ work[c].op \in {"LOGIN", "QUIT"}
      /\ \A m \in (tables.members \ tables'.members) \cup (tables'.members \ tables.members) :
           \E c \in Conns : Names(c, m.group, m.user, tables)
<1>1. ASSUME TypeInv, ChangeInv, [ServerNext]_serverVars PROVE Own
  <2>1. CASE tables' = tables
    BY <2>1
  <2>2. ASSUME NEW c \in Conns, SendStatement(c) PROVE Own
    <3>1. HandlerTypeOK /\ Asking(c) /\ LookedUp(c) /\ Ahead(tables)
      BY <1>1, <2>2 DEF SendStatement, ChangeInv, TypeInv, ServerTypeOK
    <3>2. tables' = TablesAfter(c)
      BY <2>2 DEF SendStatement
    <3> QED
      BY <3>1, <3>2, ExecutionChanges
  <2> QED
    BY <1>1, <2>1, <2>2, TablesKept
<1>2. TypeInv /\ (calm => ChangeInv) /\ [ServerNext]_serverVars
        => [calm => Own]_serverVars
  BY <1>1
<1> HIDE DEF Own
<1>3. ServerSpec => [][calm => Own]_serverVars
  BY <1>2, TypeCorrect, ChangeInvInvariant, PTL DEF ServerSpec
<1> USE DEF Own
<1> QED
  BY <1>3 DEF ChangesAreOwn
=============================================================================
