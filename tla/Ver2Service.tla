----------------------------- MODULE Ver2Service -----------------------------
(***************************************************************************)
(* What the handlers of the second server rely on: a statement is one      *)
(* step, and its answer comes back to the thread that asked.  Between two  *)
(* statements of a command every other thread may run.                     *)
(*                                                                         *)
(* That is kept as long as all is calm: no thread has made a statement     *)
(* while the answer to another one was on its way.  Whoever waits then, or *)
(* asks later, may get any answer, or is refused.                          *)
(***************************************************************************)
EXTENDS Ver2Handlers

VARIABLES
    answer,   \* to the statement each thread has made
    calm      \* no two statements have been on their way at a time

serviceVars == <<handlerVars, answer, calm>>

ServiceTypeOK ==
    /\ HandlerTypeOK
    /\ answer \in [Conns -> Answer \cup {NoAnswer, Mixed}]
    /\ calm \in BOOLEAN

ServiceInit ==
    /\ HandlerInit
    /\ answer = [c \in Conns |-> NoAnswer]
    /\ calm = TRUE

Pending(c) == answer[c] # NoAnswer
Begin(c)   == calm' = (calm /\ \A d \in Conns \ {c} : ~Pending(d))

Execute(c) ==
    /\ Asking(c) /\ ~Pending(c)
    /\ Begin(c)
    /\ answer' = [d \in Conns |->
         CASE d = c /\ calm' -> AnswerTo(c)
           [] (d = c \/ Pending(d)) /\ ~calm' -> Mixed
           [] OTHER -> answer[d]]
    /\ tables' = TablesAfter(c)
    /\ UNCHANGED <<up, threadVars, netVars, verdict>>

\* A thread that is gone, with all the others when the process dies, has no use
\* for its answer.
Forget(c) ==
    answer' = [d \in Conns |-> IF d = c \/ ~up' THEN NoAnswer ELSE answer[d]]

Possible(c) == IF answer[c] = Mixed THEN Answer ELSE {answer[c]}
GetAnswer(c) ==
    /\ Asking(c) /\ Pending(c)
    /\ \E r \in Possible(c) : Resume(c, r)
    /\ Forget(c)
    /\ UNCHANGED calm

\* The statement is not made: another one is in the way, or has been.
Refused(c) ==
    /\ Asking(c) /\ ~Pending(c)
    /\ Begin(c) /\ ~calm'
    /\ Resume(c, Null)
    /\ answer' = [d \in Conns |->
         IF Pending(d) /\ up' THEN Mixed ELSE NoAnswer]

Keep ==
    /\ answer' = [d \in Conns |-> IF up' THEN answer[d] ELSE NoAnswer]
    /\ UNCHANGED calm

ServiceNext ==
    \/ (Environment \/ Kill \/ Restart) /\ Keep
    \/ \E c \in Conns : \/ Listen(c) /\ Keep
                       \/ Execute(c) \/ GetAnswer(c) \/ Refused(c)

ServiceSpec == ServiceInit /\ [][ServiceNext]_serviceVars
=============================================================================
