--------------------------- MODULE FileServerProofs ---------------------------
(***************************************************************************)
(* The types of the file server and its clients, above all where each      *)
(* process may stand (its working directory is a directory, what it has    *)
(* open for writing is a file), and that no account is ever lost, for any  *)
(* number of clients, menus, names and depths of the tree.                 *)
(***************************************************************************)
EXTENDS FileServer, TLAPS

-----------------------------------------------------------------------------
(* Sequences. *)

\* The shortest ones, and two in a row.
LEMMA Short ==
    ASSUME NEW S
    PROVE  /\ <<>> \in Seq(S)
           /\ \A e \in S : <<e>> \in Seq(S)
           /\ \A s, t \in Seq(S) : s \o t \in Seq(S)
  OBVIOUS

\* What is left of a sequence whose first n items are taken.
LEMMA Suffix ==
    ASSUME NEW S, NEW s \in Seq(S), NEW n \in Nat
    PROVE  SubSeq(s, n + 1, Len(s)) \in Seq(S)
  OBVIOUS

\* A sequence is its last item and what is before it.
LEMMA Fronts ==
    ASSUME NEW S, NEW s \in Seq(S), s # <<>>
    PROVE  /\ Front(s) \in Seq(S) /\ Last(s) \in S
           /\ Len(s) # 1 => Front(s) # <<>>
<1>1. Len(s) \in Nat /\ Len(s) >= 1 /\ s[Len(s)] \in S
  OBVIOUS
<1> DEFINE n == Len(s) - 1
<1>2. n \in 0..Len(s)
  BY <1>1
<1> HIDE DEF n
<1>3. SubSeq(s, 1, n) \in Seq(S) /\ Len(SubSeq(s, 1, n)) = n
  BY <1>1, <1>2
<1>4. Len(s) # 1 => SubSeq(s, 1, n) # <<>>
  <2>1. ASSUME Len(s) # 1, SubSeq(s, 1, n) = <<>> PROVE FALSE
    <3>1. Len(<<>>) = 0
      OBVIOUS
    <3>2. Len(SubSeq(s, 1, n)) = 0
      BY <2>1, <3>1
    <3> QED
      BY <1>1, <1>3, <2>1, <3>2 DEF n
  <2> QED
    BY <2>1
<1> QED
  BY <1>1, <1>3, <1>4 DEF Front, Last, n

\* Replacing its last item leaves a sequence that is not empty.
LEMMA Replaced ==
    ASSUME NEW S, NEW s \in Seq(S), s # <<>>, NEW e \in S
    PROVE  ReplaceAt(s, Len(s), e) \in Seq(S) /\ ReplaceAt(s, Len(s), e) # <<>>
  BY DEF ReplaceAt

\* Prefixes.
LEMMA AppendExtends ==
    ASSUME NEW S, NEW s \in Seq(S), NEW e \in S
    PROVE  IsPrefix(s, Append(s, e))
  BY DEF IsPrefix

\* Every sequence is a prefix of itself.
LEMMA PrefixItself ==
    ASSUME NEW S, NEW s \in Seq(S)
    PROVE  IsPrefix(s, s) /\ s \in Prefixes(s) /\ Prefixes(s) \subseteq Seq(S)
  BY DEF IsPrefix, Prefixes

\* All but the last item is a shorter beginning.
LEMMA FrontIsPrefix ==
    ASSUME NEW S, NEW s \in Seq(S), s # <<>>
    PROVE  Front(s) \in Prefixes(s) \ {s}
<1>1. Len(s) \in Nat /\ Len(s) >= 1
  OBVIOUS
<1> DEFINE n == Len(s) - 1
<1>2. n \in 0..Len(s) /\ n # Len(s) /\ Front(s) = SubSeq(s, 1, n)
  BY <1>1 DEF Front
<1> HIDE DEF n
<1>3. Len(SubSeq(s, 1, n)) = n
  BY <1>1, <1>2
<1>4. SubSeq(s, 1, n) # s
  BY <1>2, <1>3
<1>5. SubSeq(s, 1, n) \in Prefixes(s)
  BY <1>2 DEF Prefixes
<1> QED
  BY <1>2, <1>4, <1>5

\* A path is a sequence of names.
LEMMA PathTypes == <<>> \in Paths /\ Paths \subseteq Seq(Names)
<1>1. ASSUME NEW p \in Paths PROVE p \in Seq(Names)
  <2>1. PICK m \in 0..MaxDepth : p \in [1..m -> Names]
    BY DEF Paths, SeqOf
  <2> QED
    BY <2>1, FileAssumption
<1>2. <<>> \in [1..0 -> Names]
  OBVIOUS
<1> QED
  BY <1>1, <1>2, FileAssumption DEF Paths, SeqOf

-----------------------------------------------------------------------------
(* Types, part by part. *)

ClientPlaces == {"menu", "send", "reply", "size", "content", "entries", "gone"}
ServerPlaces == {"none", "command", "append", "body", "content", "walk", "exit"}

ClientsOK ==
    /\ cpc \in [Clients -> ClientPlaces]
    /\ cauth \in [Clients -> BOOLEAN]
    /\ todo \in [Clients -> Seq(Exchange)]
    /\ \A c \in Clients : cpc[c] \notin {"menu", "gone"} => todo[c] # <<>>
    /\ left \in [Clients -> 0..MaxChoices]
    /\ expect \in [Clients -> Nat]

Streams == [Clients -> Seq(Unit)]

ProcsOK ==
    /\ spc \in [Clients -> ServerPlaces]
    /\ auth \in [Clients -> BOOLEAN]
    /\ cwd \in [Clients -> Paths]
    /\ path \in [Clients -> Paths]
    /\ want \in [Clients -> Nat]
    /\ pend \in [Clients -> Account]
    /\ walk \in [Clients -> Seq(SUBSET Paths)]

\* Where a process stands fits what it has open.
Stands(c) ==
    /\ kind[cwd[c]] = "dir"
    /\ spc[c] = "body" => kind[path[c]] = "file"
    /\ spc[c] = "walk" => walk[c] # <<>>

DiskOK ==
    /\ kind \in [Paths -> {"none", "dir", "file"}]
    /\ data \in [Paths -> Seq(Blocks)]
    /\ \A p \in Paths : data[p] # <<>> => kind[p] = "file"
    /\ accounts \in [Paths -> Seq(Account) \cup {NoFile}]

\* The type invariant is the conjunction of its parts.
LEMMA Parts ==
    FileTypeOK <=> /\ ClientsOK /\ up \in Streams /\ down \in Streams
                   /\ ProcsOK /\ DiskOK /\ \A c \in Clients : Stands(c)
  BY DEF FileTypeOK, ClientsOK, Streams, ProcsOK, DiskOK, Stands, ClientPlaces,
         ServerPlaces

\* Texts, sizes and blocks are units.
LEMMA UnitTypes ==
    /\ \A w \in Word : Text(w) \in Unit /\ <<Text(w)>> \in Seq(Unit)
    /\ \A n \in Nat : Size(n) \in Unit
    /\ \A v \in Blocks : Block(v) \in Unit
<1>1. /\ \A w \in Word : Text(w) \in Unit
      /\ \A n \in Nat : Size(n) \in Unit
      /\ \A v \in Blocks : Block(v) \in Unit
  BY DEF Text, Size, Block, Unit
<1> QED
  BY <1>1

\* What either end says is a word, and so is a path.
LEMMA WordTypes ==
    /\ <<>> \in Word
    /\ \A s \in Commands \cup Answers \cup {"junk"} : <<s>> \in Word
    /\ Paths \subseteq Word
<1>1. Seq(Names) \subseteq Word
  BY DEF Word
<1> QED
  BY <1>1, PathTypes DEF Word

\* What is read where a text or a size is expected is one, if only by chance.
LEMMA ReadTypes ==
    ASSUME NEW u \in Unit
    PROVE  WordAt(u) \in Word /\ SizeAt(u) \in Nat
<1>1. Junk \in Word
  BY WordTypes DEF Junk
<1> QED
  BY <1>1, FileAssumption DEF WordAt, SizeAt, Unit

\* A request is units.
LEMMA RequestTypes ==
    ASSUME NEW x \in Exchange
    PROVE  Request(x) \in Seq(Unit)
<1>1. x.op \in Commands /\ x.args \in Seq(Word) /\ x.content \in Seq(Blocks)
  BY DEF Exchange
<1>2. <<Text(<<x.op>>)>> \in Seq(Unit)
  BY <1>1, UnitTypes, WordTypes
<1>3. [i \in DOMAIN x.args |-> Text(x.args[i])] \in Seq(Unit)
  <2>1. \A i \in 1..Len(x.args) : Text(x.args[i]) \in Unit
    BY <1>1, UnitTypes
  <2> QED
    BY <1>1, <2>1
<1>4. [i \in DOMAIN x.content |-> Block(x.content[i])] \in Seq(Unit)
  <2>1. \A i \in 1..Len(x.content) : Block(x.content[i]) \in Unit
    BY <1>1, UnitTypes
  <2> QED
    BY <1>1, <2>1
<1>5. <<Size(Len(x.content))>> \in Seq(Unit)
  BY <1>1, UnitTypes
<1> QED
  BY <1>2, <1>3, <1>4, <1>5 DEF Request

\* The initial states are typed.
LEMMA InitTypes == Init => FileTypeOK
<1>1. <<<<>>, <<>>>> \in Account
  BY WordTypes DEF Account
<1>2. \A S : <<>> \in Seq(S)
  BY Short
<1> QED
  BY <1>1, <1>2, PathTypes, FileAssumption DEF Init, FileTypeOK

-----------------------------------------------------------------------------
(* The client. *)

\* Whoever is at an exchange has one.
LEMMA AtExchange ==
    ASSUME FileTypeOK, NEW c \in Clients, cpc[c] \notin {"menu", "gone"}
    PROVE  /\ todo[c] \in Seq(Exchange) /\ todo[c] # <<>>
           /\ Head(todo[c]) \in Exchange /\ Tail(todo[c]) \in Seq(Exchange)
           /\ Len(todo[c]) # 1 => Tail(todo[c]) # <<>>
<1>1. todo[c] \in Seq(Exchange) /\ todo[c] # <<>>
  BY DEF FileTypeOK
<1>2. /\ Head(todo[c]) \in Exchange /\ Tail(todo[c]) \in Seq(Exchange)
      /\ Len(Tail(todo[c])) = Len(todo[c]) - 1 /\ Len(todo[c]) \in Nat
  BY <1>1
<1>3. Len(<<>>) = 0
  OBVIOUS
<1>4. Len(todo[c]) # 1 => Tail(todo[c]) # <<>>
  <2>1. ASSUME Len(todo[c]) # 1, Tail(todo[c]) = <<>> PROVE FALSE
    <3>1. Len(Tail(todo[c])) = 0
      BY <1>3, <2>1
    <3> QED
      BY <1>2, <2>1, <3>1
  <2> QED
    BY <2>1
<1> QED
  BY <1>1, <1>2, <1>4

\* What is not the client's stays.
LEMMA ClientFrame ==
    ASSUME FileTypeOK, ClientsOK', up' \in Streams, down' \in Streams,
           UNCHANGED <<spc, procVars, diskVars>>
    PROVE  FileTypeOK'
  BY Parts DEF FileTypeOK, ClientsOK, Streams, ClientPlaces, procVars, diskVars

\* What a client has read leaves a stream.
LEMMA ReceivedTypes ==
    ASSUME FileTypeOK, NEW c \in Clients, NEW n \in Nat, Received(c, n)
    PROVE  down' \in Streams
  BY Suffix, Parts DEF Received, Streams

\* Going on with an exchange, or to the next one.
LEMMA GoOnTypes ==
    ASSUME FileTypeOK, NEW c \in Clients, cpc[c] \notin {"menu", "gone"},
           Finish(c) \/ \E to \in ClientPlaces \ {"gone"} : GoOn(c, to)
    PROVE  /\ cpc' \in [Clients -> ClientPlaces] /\ todo' \in [Clients -> Seq(Exchange)]
           /\ \A d \in Clients : cpc'[d] \notin {"menu", "gone"} => todo'[d] # <<>>
<1>1. CASE Finish(c)
  BY <1>1, AtExchange DEF FileTypeOK, Finish, ClientPlaces
<1>2. CASE \E to \in ClientPlaces \ {"gone"} : GoOn(c, to)
  BY <1>2, Parts DEF ClientsOK, GoOn, ClientPlaces
<1> QED
  BY <1>1, <1>2

\* A client that makes its next choice, or none.
LEMMA ChooseTypes ==
    ASSUME FileTypeOK, NEW c \in Clients, Choose(c)
    PROVE  FileTypeOK'
<1>1. PICK choice \in Menu[c] :
          /\ todo' = [todo EXCEPT ![c] = choice.do]
          /\ cpc' = IF choice.do = <<>> THEN cpc ELSE [cpc EXCEPT ![c] = "send"]
          /\ cauth' = IF choice.do = <<>> THEN [cauth EXCEPT ![c] = FALSE] ELSE cauth
  BY DEF Choose
<1>2. choice.do \in Seq(Exchange)
  BY FileAssumption
<1>3. left' \in [Clients -> 0..MaxChoices]
  BY FileAssumption DEF Choose, FileTypeOK
<1>4. ClientsOK'
  BY <1>1, <1>2, <1>3 DEF Choose, FileTypeOK, ClientsOK, ClientPlaces
<1> QED
  BY <1>4, ClientFrame DEF Choose, FileTypeOK, Streams

\* A client that is stopped.
LEMMA KillTypes ==
    ASSUME FileTypeOK, NEW c \in Clients, Kill(c)
    PROVE  FileTypeOK'
<1>1. PICK part \in IF cpc[c] = "send" THEN Prefixes(Request(Head(todo[c]))) ELSE {<<>>} :
          up' = [up EXCEPT ![c] = @ \o part]
  BY DEF Kill
<1>2. part \in Seq(Unit)
  <2>1. CASE cpc[c] = "send"
    <3>1. Request(Head(todo[c])) \in Seq(Unit)
      BY <2>1, AtExchange, RequestTypes
    <3> QED
      BY <1>1, <2>1, <3>1, PrefixItself
  <2> QED
    BY <1>1, <2>1, Short
<1>3. up[c] \in Seq(Unit) /\ up[c] \o part \in Seq(Unit) /\ <<>> \in Seq(Unit)
  BY <1>2, Short DEF FileTypeOK
<1>4. up' \in Streams /\ down' \in Streams
  BY <1>1, <1>3 DEF Kill, FileTypeOK, Streams
<1>5. ClientsOK'
  BY DEF Kill, FileTypeOK, ClientsOK, ClientPlaces
<1> QED
  BY <1>4, <1>5, ClientFrame DEF Kill

\* Every other step of a client.
LEMMA ClientStepTypes ==
    ASSUME FileTypeOK, NEW c \in Clients, ClientStep(c)
    PROVE  FileTypeOK'
<1>1. CASE SendRequest(c)
  <2>1. up' \in Streams
    <3>1. up[c] \in Seq(Unit) /\ Request(Head(todo[c])) \in Seq(Unit)
      BY <1>1, AtExchange, RequestTypes DEF SendRequest, FileTypeOK
    <3>2. up[c] \o Request(Head(todo[c])) \in Seq(Unit)
      BY <3>1, Short
    <3> QED
      BY <1>1, <3>2 DEF SendRequest, FileTypeOK, Streams
  <2>2. ClientsOK'
    BY <1>1 DEF SendRequest, FileTypeOK, ClientsOK, ClientPlaces
  <2> QED
    BY <1>1, <2>1, <2>2, ClientFrame DEF SendRequest, FileTypeOK, Streams
<1>2. CASE ReadReply(c)
  <2>1. Finish(c) \/ \E to \in ClientPlaces \ {"gone"} : GoOn(c, to)
    BY <1>2 DEF ReadReply, ClientPlaces
  <2>2. cauth' \in [Clients -> BOOLEAN]
    BY <1>2 DEF ReadReply, FileTypeOK, AcceptsLogin
  <2>3. ClientsOK'
    BY <1>2, <2>1, <2>2, GoOnTypes DEF ReadReply, FileTypeOK, ClientsOK
  <2> QED
    BY <1>2, <2>3, ReceivedTypes, ClientFrame DEF ReadReply, FileTypeOK, Streams
<1>3. CASE ReadSize(c)
  <2>1. SizeAt(Head(down[c])) \in Nat
    BY <1>3, ReadTypes DEF ReadSize, FileTypeOK
  <2>2. \E to \in ClientPlaces \ {"gone"} : GoOn(c, to)
    BY <1>3 DEF ReadSize, ClientPlaces
  <2>3. ClientsOK'
    BY <1>3, <2>1, <2>2, GoOnTypes DEF ReadSize, FileTypeOK, ClientsOK
  <2> QED
    BY <1>3, <2>3, ReceivedTypes, ClientFrame DEF ReadSize, FileTypeOK, Streams
<1>4. CASE ReadContent(c)
  <2>1. Finish(c) \/ \E to \in ClientPlaces \ {"gone"} : GoOn(c, to)
    BY <1>4 DEF ReadContent, ClientPlaces
  <2>2. ClientsOK'
    BY <1>4, <2>1, GoOnTypes DEF ReadContent, FileTypeOK, ClientsOK
  <2>3. expect[c] \in Nat
    BY DEF FileTypeOK
  <2> QED
    BY <1>4, <2>2, <2>3, ReceivedTypes, ClientFrame DEF ReadContent, FileTypeOK, Streams
<1>5. CASE ReadEntry(c)
  <2>1. Finish(c) \/ \E to \in ClientPlaces \ {"gone"} : GoOn(c, to)
    BY <1>5 DEF ReadEntry, ClientPlaces
  <2>2. ClientsOK'
    BY <1>5, <2>1, GoOnTypes DEF ReadEntry, FileTypeOK, ClientsOK
  <2>3. Received(c, 1) \/ Received(c, 2)
    BY <1>5 DEF ReadEntry
  <2> QED
    BY <1>5, <2>2, <2>3, ReceivedTypes, ClientFrame DEF ReadEntry, FileTypeOK, Streams
<1> QED
  BY <1>1, <1>2, <1>3, <1>4, <1>5 DEF ClientStep

-----------------------------------------------------------------------------
(* The server process. *)

\* A process that stays in its directory, opens and closes what it should, and
\* a disk on which directories stay directories and files stay files.
LEMMA ServerFrame ==
    ASSUME FileTypeOK, UNCHANGED clientVars,
           up' \in Streams, down' \in Streams, ProcsOK', DiskOK',
           \A p \in Paths : kind[p] # "none" => kind'[p] = kind[p],
           NEW c \in Clients, Stands(c)',
           \A d \in Clients \ {c} : /\ spc'[d] = spc[d] /\ cwd'[d] = cwd[d]
                                    /\ path'[d] = path[d] /\ walk'[d] = walk[d]
    PROVE  FileTypeOK'
<1>1. ClientsOK'
  BY DEF FileTypeOK, ClientsOK, ClientPlaces, clientVars
<1>2. ASSUME NEW d \in Clients \ {c} PROVE Stands(d)'
  <2>1. Stands(d) /\ cwd[d] \in Paths /\ path[d] \in Paths
    BY <1>2, Parts DEF ProcsOK
  <2>2. /\ spc'[d] = spc[d] /\ cwd'[d] = cwd[d]
        /\ path'[d] = path[d] /\ walk'[d] = walk[d]
    BY <1>2
  <2> QED
    BY <2>1, <2>2 DEF Stands
<1> QED
  BY <1>1, <1>2 DEF FileTypeOK, ClientsOK, Streams, ProcsOK, DiskOK, Stands, ClientPlaces,
                    ServerPlaces

\* What the steps of the server need of the types.
LEMMA Fields ==
    ASSUME FileTypeOK
    PROVE  /\ DiskOK
           /\ spc \in [Clients -> ServerPlaces]
           /\ cwd \in [Clients -> Paths] /\ path \in [Clients -> Paths]
           /\ walk \in [Clients -> Seq(SUBSET Paths)]
           /\ \A c \in Clients : Stands(c)
  BY DEF FileTypeOK, DiskOK, Stands, ServerPlaces

\* A step that leaves the disk alone.
LEMMA DiskStays ==
    ASSUME FileTypeOK, UNCHANGED <<kind, data, accounts>>
    PROVE  /\ DiskOK'
           /\ \A p \in Paths : kind[p] # "none" => kind'[p] = kind[p]
  BY DEF FileTypeOK, DiskOK

\* An answer goes into the client's stream, and the process goes on or ends.
LEMMA AnswerTypes ==
    ASSUME FileTypeOK, NEW c \in Clients, NEW units \in Seq(Unit),
           NEW next \in ServerPlaces, Answer(c, units, next)
    PROVE  /\ down' \in Streams /\ spc' \in [Clients -> ServerPlaces]
           /\ spc'[c] \in {next, "exit"}
           /\ \A d \in Clients \ {c} : spc'[d] = spc[d]
<1>1. down[c] \in Seq(Unit) /\ down[c] \o units \in Seq(Unit)
  BY Short DEF FileTypeOK
<1>2. down' \in Streams
  BY <1>1 DEF Answer, FileTypeOK, Streams
<1> QED
  BY <1>2 DEF Answer, FileTypeOK, ServerPlaces

\* An answer after which the process goes on.
LEMMA ReplyTypes ==
    ASSUME FileTypeOK, NEW c \in Clients, NEW w \in Answers, Reply(c, w)
    PROVE  /\ down' \in Streams /\ spc' \in [Clients -> ServerPlaces]
           /\ spc'[c] \in {"command", "exit"}
           /\ \A d \in Clients \ {c} : spc'[d] = spc[d]
<1>1. <<Text(<<w>>)>> \in Seq(Unit)
  BY WordTypes, UnitTypes
<1> QED
  BY <1>1, AnswerTypes DEF Reply, ServerPlaces

\* What a process has read leaves a stream.
LEMMA ConsumedTypes ==
    ASSUME FileTypeOK, NEW c \in Clients, NEW n \in Nat, Consumed(c, n)
    PROVE  up' \in Streams
  BY Suffix, Parts DEF Consumed, Streams

\* What a process hears are words.
LEMMA HeardTypes ==
    ASSUME FileTypeOK, NEW c \in Clients, NEW i \in Nat
    PROVE  Heard(c, i) \subseteq Word
<1>1. ASSUME Len(up[c]) > i PROVE up[c][i + 1] \in Unit
  BY <1>1 DEF FileTypeOK
<1> QED
  BY <1>1, ReadTypes, FileAssumption DEF Heard

\* Steps that only read, and leave where the process stands to its answer.
LEMMA LookingTypes ==
    ASSUME FileTypeOK, NEW c \in Clients, NEW w \in Answers, Reply(c, w),
           NEW n \in Nat, Consumed(c, n), UNCHANGED <<clientVars, procVars, diskVars>>
    PROVE  FileTypeOK'
<1>1. ProcsOK' /\ Stands(c)'
  BY ReplyTypes DEF FileTypeOK, ProcsOK, Stands, procVars, diskVars, ServerPlaces
<1> QED
  BY <1>1, ReplyTypes, ConsumedTypes, DiskStays, ServerFrame DEF procVars, diskVars

\* Listing and searching.
LEMMA LookTypes ==
    ASSUME FileTypeOK, NEW c \in Clients,
           \/ Accept(c) \/ Unknown(c) \/ Exit(c) \/ ListFiles(c) \/ SearchFiles(c)
    PROVE  FileTypeOK'
<1>1. CASE Accept(c) \/ Exit(c)
  <2>1. ProcsOK' /\ Stands(c)' /\ up' \in Streams /\ down' \in Streams
    BY <1>1 DEF Accept, Exit, FileTypeOK, ProcsOK, Stands, procVars, diskVars,
                ServerPlaces, Streams
  <2>2. \A d \in Clients \ {c} : spc'[d] = spc[d]
    BY <1>1 DEF Accept, Exit, FileTypeOK
  <2> QED
    BY <1>1, <2>1, <2>2, DiskStays, ServerFrame DEF Accept, Exit, procVars, diskVars
<1>2. CASE Unknown(c)
  <2>1. \E w \in Answers : Reply(c, w)
    BY <1>2 DEF Unknown, Answers
  <2> QED
    BY <1>2, <2>1, LookingTypes DEF Unknown
<1>3. CASE ListFiles(c) \/ SearchFiles(c)
  <2>1. \E w \in Answers, n \in Nat : Reply(c, w) /\ Consumed(c, n)
    BY <1>3 DEF ListFiles, SearchFiles, Answers
  <2> QED
    BY <1>3, <2>1, LookingTypes DEF ListFiles, SearchFiles
<1> QED
  BY <1>1, <1>2, <1>3

-----------------------------------------------------------------------------
(* Accounts. *)

\* Registering, up to the check.
LEMMA RegisterTypes ==
    ASSUME FileTypeOK, NEW c \in Clients, Register(c)
    PROVE  FileTypeOK'
<1>1. PICK user \in Heard(c, 1), password \in Heard(c, 2) :
          LET old == IF accounts[cwd[c]] = NoFile THEN <<>> ELSE accounts[cwd[c]]
          IN /\ accounts' = [accounts EXCEPT ![cwd[c]] = old]
             /\ IF \E i \in DOMAIN old : old[i][1] = user
                THEN Reply(c, "UserExists") /\ UNCHANGED pend
                ELSE /\ Answer(c, <<Text(<<"RegisterSuccess">>)>>, "append")
                     /\ pend' = [pend EXCEPT ![c] = <<user, password>>]
  BY DEF Register
<1>2. <<user, password>> \in Account
  BY HeardTypes DEF Account
<1>3. pend' \in [Clients -> Account]
  <2> DEFINE new == <<user, password>>
  <2>1. pend' = pend \/ pend' = [pend EXCEPT ![c] = new]
    BY <1>1
  <2>2. new \in Account
    BY <1>2
  <2>3. pend \in [Clients -> Account]
    BY DEF FileTypeOK
  <2> HIDE DEF new
  <2> QED
    BY <2>1, <2>2, <2>3
<1>4. <<Text(<<"RegisterSuccess">>)>> \in Seq(Unit)
  BY WordTypes, UnitTypes DEF Answers
<1>5. /\ down' \in Streams /\ spc' \in [Clients -> ServerPlaces]
      /\ spc'[c] \in {"command", "append", "exit"}
      /\ \A d \in Clients \ {c} : spc'[d] = spc[d]
  BY <1>1, <1>4, AnswerTypes, ReplyTypes DEF Answers, ServerPlaces
<1>6. DiskOK' /\ UNCHANGED kind
  BY <1>1, Short DEF Register, FileTypeOK, DiskOK
<1>7. ProcsOK' /\ Stands(c)'
  BY <1>3, <1>5, <1>6 DEF Register, FileTypeOK, ProcsOK, Stands
<1>8. up' \in Streams
  BY ConsumedTypes DEF Register
<1> QED
  BY <1>5, <1>6, <1>7, <1>8, ServerFrame DEF Register

\* A process writes its line where it has opened users.txt before.
Opened(c) == spc[c] = "append" => accounts[cwd[c]] # NoFile

\* Registering, the line itself.
LEMMA AppendTypes ==
    ASSUME FileTypeOK, NEW c \in Clients, Opened(c), AppendAccount(c)
    PROVE  FileTypeOK'
<1>1. accounts[cwd[c]] \in Seq(Account) /\ pend[c] \in Account
  BY DEF FileTypeOK, Opened, AppendAccount
<1>2. Append(accounts[cwd[c]], pend[c]) \in Seq(Account)
  BY <1>1
<1>3. DiskOK' /\ UNCHANGED kind
  BY <1>2 DEF AppendAccount, FileTypeOK, DiskOK
<1>4. /\ ProcsOK' /\ Stands(c)' /\ up' \in Streams /\ down' \in Streams
      /\ \A d \in Clients \ {c} : spc'[d] = spc[d]
  BY <1>3 DEF AppendAccount, FileTypeOK, ProcsOK, Stands, procVars, ServerPlaces, Streams
<1> QED
  BY <1>3, <1>4, ServerFrame DEF AppendAccount, procVars

\* Logging in.
LEMMA LoginTypes ==
    ASSUME FileTypeOK, NEW c \in Clients, Login(c)
    PROVE  FileTypeOK'
<1>1. PICK found \in BOOLEAN, w \in Answers :
          auth' = [auth EXCEPT ![c] = found] /\ Reply(c, w)
  BY DEF Login, Answers
<1>2. ProcsOK' /\ Stands(c)'
  BY <1>1, ReplyTypes DEF Login, FileTypeOK, ProcsOK, Stands, diskVars, ServerPlaces
<1>3. up' \in Streams
  BY ConsumedTypes DEF Login
<1> QED
  BY <1>1, <1>2, <1>3, ReplyTypes, DiskStays, ServerFrame DEF Login, diskVars

-----------------------------------------------------------------------------
(* Directories. *)

\* Making a directory.
LEMMA MakeDirTypes ==
    ASSUME FileTypeOK, NEW c \in Clients, MakeDir(c)
    PROVE  FileTypeOK'
<1>1. PICK a \in Heard(c, 1) :
          IF CanMakeDir(At(c, a))
          THEN Reply(c, "DirectoryCreated") /\ kind' = [kind EXCEPT ![At(c, a)] = "dir"]
          ELSE Reply(c, "DirectoryCreationFailed") /\ UNCHANGED kind
  BY DEF MakeDir
<1>2. \E w \in Answers : Reply(c, w)
  BY <1>1 DEF Answers
<1> DEFINE p == At(c, a)
<1>3. /\ DiskOK'
      /\ \A q \in Paths : kind[q] # "none" => kind'[q] = kind[q]
  <2>1. \/ p \in Paths /\ kind[p] = "none" /\ kind' = [kind EXCEPT ![p] = "dir"]
        \/ UNCHANGED kind
    BY <1>1 DEF CanMakeDir
  <2>2. UNCHANGED <<data, accounts>>
    BY DEF MakeDir
  <2> HIDE DEF p
  <2> QED
    BY <2>1, <2>2, Fields DEF DiskOK
<1>4. ProcsOK' /\ Stands(c)'
  BY <1>2, <1>3, ReplyTypes, Parts DEF MakeDir, ProcsOK, Stands, procVars, ServerPlaces
<1>5. up' \in Streams
  BY ConsumedTypes DEF MakeDir
<1> QED
  BY <1>2, <1>3, <1>4, <1>5, ReplyTypes, ServerFrame DEF MakeDir, procVars

\* Changing the directory.
LEMMA ChangeDirTypes ==
    ASSUME FileTypeOK, NEW c \in Clients, ChangeDir(c)
    PROVE  FileTypeOK'
<1>1. PICK a \in Heard(c, 1) :
          IF At(c, a) \in Paths /\ kind[At(c, a)] = "dir"
          THEN Reply(c, "DirectoryChanged") /\ cwd' = [cwd EXCEPT ![c] = At(c, a)]
          ELSE Reply(c, "DirectoryChangeFailed") /\ UNCHANGED cwd
  BY DEF ChangeDir
<1>2. \E w \in Answers : Reply(c, w)
  BY <1>1 DEF Answers
<1> DEFINE p == At(c, a)
<1>3. /\ cwd' \in [Clients -> Paths] /\ kind[cwd'[c]] = "dir"
      /\ \A d \in Clients \ {c} : cwd'[d] = cwd[d]
  <2>1. \/ p \in Paths /\ kind[p] = "dir" /\ cwd' = [cwd EXCEPT ![c] = p]
        \/ UNCHANGED cwd
    BY <1>1
  <2> HIDE DEF p
  <2> QED
    BY <2>1, Fields DEF Stands
<1>4. ProcsOK' /\ Stands(c)'
  BY <1>2, <1>3, ReplyTypes DEF ChangeDir, FileTypeOK, ProcsOK, Stands, diskVars, ServerPlaces
<1>5. up' \in Streams
  BY ConsumedTypes DEF ChangeDir
<1> QED
  BY <1>2, <1>3, <1>4, <1>5, ReplyTypes, DiskStays, ServerFrame DEF ChangeDir, diskVars

-----------------------------------------------------------------------------
(* Uploads. *)

\* create_directories makes directories where nothing was.
LEMMA MakesTypes ==
    ASSUME FileTypeOK, NEW p
    PROVE  /\ Makes(p) \in [Paths -> {"none", "dir", "file"}]
           /\ \A q \in Paths : kind[q] # "none" => Makes(p)[q] = kind[q]
           /\ \A q \in Paths : Makes(p)[q] \in {kind[q], "dir"}
<1>1. \A q \in Paths : q \in Prefixes(q)
  BY PathTypes, PrefixItself
<1> QED
  BY <1>1 DEF Makes, FileTypeOK

\* Opening the file of an upload.
LEMMA UploadOpenTypes ==
    ASSUME FileTypeOK, NEW c \in Clients, UploadOpen(c)
    PROVE  FileTypeOK'
<1>1. PICK a \in Heard(c, 1) :
          LET p == At(c, a)
          IN IF Blocked(p) \/ Len(up[c]) < 3
             THEN UploadFails(c, "UploadFailed", 2) /\ kind' = Makes(p)
             ELSE IF Unwritable(p)
             THEN UploadFails(c, "FileOpenError", 3) /\ kind' = Makes(p)
             ELSE OpenForWriting(c, p) /\ kind' = [Makes(p) EXCEPT ![p] = "file"]
  BY DEF UploadOpen
<1> DEFINE p == At(c, a)
<1>2. CASE \E w \in Answers, n \in Nat : UploadFails(c, w, n) /\ kind' = Makes(p)
  <2>1. PICK w \in Answers, n \in Nat : UploadFails(c, w, n) /\ kind' = Makes(p)
    BY <1>2
  <2>2. /\ DiskOK'
        /\ \A q \in Paths : kind[q] # "none" => kind'[q] = kind[q]
    <3>1. kind' = Makes(p) /\ UNCHANGED <<data, accounts>>
      BY <2>1 DEF UploadOpen, UploadFails
    <3> HIDE DEF p
    <3> QED
      BY <3>1, MakesTypes, Fields DEF DiskOK
  <2>3. Reply(c, w) /\ Consumed(c, n)
    BY <2>1 DEF UploadFails
  <2>4. ProcsOK' /\ Stands(c)'
    <3>1. UNCHANGED <<auth, cwd, path, want, pend, walk>>
      BY <2>1 DEF UploadOpen, UploadFails
    <3> QED
      BY <2>2, <2>3, <3>1, ReplyTypes DEF FileTypeOK, ProcsOK, Stands, ServerPlaces
  <2> QED
    BY <2>1, <2>2, <2>3, <2>4, ReplyTypes, ConsumedTypes, ServerFrame
    DEF UploadOpen, UploadFails
<1>3. CASE /\ p \in Paths /\ kind[p] # "dir" /\ Len(up[c]) >= 3
           /\ OpenForWriting(c, p) /\ kind' = [Makes(p) EXCEPT ![p] = "file"]
  <2> HIDE DEF p
  <2>1. SizeAt(up[c][3]) \in Nat
    BY <1>3, ReadTypes DEF FileTypeOK
  <2>2. /\ kind' \in [Paths -> {"none", "dir", "file"}]
        /\ \A q \in Paths : kind[q] # "none" => kind'[q] = kind[q]
        /\ kind'[p] = "file"
    <3>1. kind \in [Paths -> {"none", "dir", "file"}]
      BY Fields DEF DiskOK
    <3> QED
      BY <1>3, <3>1, MakesTypes
  <2>3. DiskOK'
    BY <1>3, <2>2 DEF UploadOpen, OpenForWriting, FileTypeOK, DiskOK
  <2>4. ProcsOK' /\ Stands(c)'
    <3>1. /\ spc' = [spc EXCEPT ![c] = "body"] /\ path' = [path EXCEPT ![c] = p]
          /\ want' = [want EXCEPT ![c] = SizeAt(up[c][3])]
          /\ UNCHANGED <<auth, cwd, pend, walk>>
      BY <1>3 DEF UploadOpen, OpenForWriting
    <3>2. ProcsOK /\ Stands(c) /\ p \in Paths
      BY <1>3, Parts
    <3>3. ProcsOK'
      BY <2>1, <3>1, <3>2 DEF ProcsOK, ServerPlaces
    <3>4. /\ spc'[c] = "body" /\ path'[c] = p
          /\ cwd'[c] = cwd[c] /\ cwd[c] \in Paths
      BY <3>1, <3>2 DEF ProcsOK
    <3> QED
      BY <2>2, <3>2, <3>3, <3>4 DEF Stands
  <2>5. up' \in Streams /\ down' \in Streams
    BY <1>3, ConsumedTypes DEF OpenForWriting, FileTypeOK, Streams
  <2>6. \A d \in Clients \ {c} : /\ spc'[d] = spc[d] /\ cwd'[d] = cwd[d]
                                 /\ path'[d] = path[d] /\ walk'[d] = walk[d]
    BY <1>3 DEF UploadOpen, OpenForWriting, FileTypeOK
  <2> QED
    BY <2>2, <2>3, <2>4, <2>5, <2>6, ServerFrame DEF UploadOpen
<1> QED
  <2>1. up[c] \in Seq(Unit)
    BY DEF FileTypeOK
  <2> QED
    BY <1>1, <1>2, <1>3, <2>1 DEF Answers, Unwritable

\* What is written are blocks.
LEMMA BlockTypes ==
    ASSUME FileTypeOK, NEW c \in Clients, NEW n \in Nat, n <= Len(up[c])
    PROVE  [i \in 1..n |-> BlockAt(up[c][i])] \in Seq(Blocks)
<1>1. ASSUME NEW u \in Unit PROVE BlockAt(u) \in Blocks
  <2>1. (CHOOSE v \in Blocks : TRUE) \in Blocks
    BY FileAssumption
  <2> QED
    BY <2>1 DEF BlockAt, Unit
<1>2. \A i \in 1..n : up[c][i] \in Unit
  BY DEF FileTypeOK
<1> QED
  BY <1>1, <1>2

\* Writing what arrives.
LEMMA UploadBodyTypes ==
    ASSUME FileTypeOK, NEW c \in Clients, UploadBody(c)
    PROVE  FileTypeOK'
<1> DEFINE got == IF Len(up[c]) < want[c] THEN Len(up[c]) ELSE want[c]
           new == [i \in 1..got |-> BlockAt(up[c][i])]
           old == data[path[c]]
<1>1. /\ data' = [data EXCEPT ![path[c]] = new \o SubSeq(old, got + 1, Len(old))]
      /\ \E w \in Answers : Reply(c, w)
      /\ Consumed(c, got)
  BY DEF UploadBody, Answers
<1>2. got \in Nat /\ got <= Len(up[c])
  BY DEF FileTypeOK
<1> HIDE DEF got
<1>3. new \in Seq(Blocks)
  BY <1>2, BlockTypes
<1>4. path[c] \in Paths /\ old \in Seq(Blocks) /\ kind[path[c]] = "file"
  BY DEF FileTypeOK, UploadBody
<1>5. new \o SubSeq(old, got + 1, Len(old)) \in Seq(Blocks)
  BY <1>2, <1>3, <1>4, Suffix, Short
<1> HIDE DEF new, old
<1>6. DiskOK' /\ UNCHANGED kind
  <2> DEFINE written == new \o SubSeq(old, got + 1, Len(old))
  <2>1. data' = [data EXCEPT ![path[c]] = written] /\ written \in Seq(Blocks)
    BY <1>1, <1>5
  <2>2. UNCHANGED <<kind, accounts>>
    BY DEF UploadBody
  <2> HIDE DEF written
  <2> QED
    BY <1>4, <2>1, <2>2, Fields DEF DiskOK
<1>7. ProcsOK' /\ Stands(c)'
  BY <1>1, <1>6, ReplyTypes, Parts DEF UploadBody, ProcsOK, Stands, procVars, ServerPlaces
<1> QED
  BY <1>1, <1>2, <1>6, <1>7, ReplyTypes, ConsumedTypes, ServerFrame DEF UploadBody, procVars

-----------------------------------------------------------------------------
(* Downloads. *)

\* What is announced is a number.
LEMMA AnnouncedTypes ==
    ASSUME FileTypeOK, NEW p \in Paths
    PROVE  Announced(p) \in Nat
  BY FileAssumption DEF FileTypeOK, Announced

\* Opening the file of a download.
LEMMA DownloadOpenTypes ==
    ASSUME FileTypeOK, NEW c \in Clients, DownloadOpen(c)
    PROVE  FileTypeOK'
<1>1. PICK a \in Heard(c, 1) :
          LET p == At(c, a)
          IN IF p \in Paths /\ kind[p] # "none"
             THEN /\ Answer(c, <<Text(<<"FileFound">>), Size(Announced(p))>>, "content")
                  /\ path' = [path EXCEPT ![c] = p]
             ELSE Reply(c, "FileNotFound") /\ UNCHANGED path
  BY DEF DownloadOpen
<1> DEFINE p == At(c, a)
<1>2. /\ down' \in Streams /\ spc' \in [Clients -> ServerPlaces]
      /\ spc'[c] \in {"command", "content", "exit"}
      /\ \A d \in Clients \ {c} : spc'[d] = spc[d]
  <2>1. CASE p \in Paths /\ kind[p] # "none"
    <3>1. <<Text(<<"FileFound">>), Size(Announced(p))>> \in Seq(Unit)
      BY <2>1, AnnouncedTypes, WordTypes, UnitTypes DEF Answers
    <3> QED
      BY <1>1, <2>1, <3>1, AnswerTypes DEF ServerPlaces
  <2>2. CASE ~(p \in Paths /\ kind[p] # "none")
    BY <1>1, <2>2, ReplyTypes DEF Answers
  <2> QED
    BY <2>1, <2>2
<1>3. path' \in [Clients -> Paths] /\ \A d \in Clients \ {c} : path'[d] = path[d]
  <2>1. (p \in Paths /\ path' = [path EXCEPT ![c] = p]) \/ UNCHANGED path
    BY <1>1
  <2> HIDE DEF p
  <2> QED
    BY <2>1, Fields
<1>4. ProcsOK' /\ Stands(c)'
  BY <1>2, <1>3 DEF DownloadOpen, FileTypeOK, ProcsOK, Stands, diskVars
<1>5. up' \in Streams
  BY ConsumedTypes DEF DownloadOpen
<1> QED
  BY <1>2, <1>3, <1>4, <1>5, DiskStays, ServerFrame DEF DownloadOpen, diskVars

\* Sending its content.
LEMMA SendContentTypes ==
    ASSUME FileTypeOK, NEW c \in Clients, SendContent(c)
    PROVE  FileTypeOK'
<1>1. data[path[c]] \in Seq(Blocks)
  BY DEF FileTypeOK
<1>2. [i \in DOMAIN data[path[c]] |-> Block(data[path[c]][i])] \in Seq(Unit)
  <2>1. \A i \in 1..Len(data[path[c]]) : Block(data[path[c]][i]) \in Unit
    BY <1>1, UnitTypes
  <2> QED
    BY <1>1, <2>1
<1>3. /\ down' \in Streams /\ spc' \in [Clients -> ServerPlaces]
      /\ spc'[c] \in {"command", "walk", "exit"}
      /\ spc'[c] = "walk" => walk[c] # <<>>
      /\ \A d \in Clients \ {c} : spc'[d] = spc[d]
  BY <1>2, AnswerTypes DEF SendContent, ServerPlaces
<1>4. ProcsOK' /\ Stands(c)'
  BY <1>3 DEF SendContent, FileTypeOK, ProcsOK, Stands, procVars, diskVars
<1>5. up' \in Streams
  BY DEF SendContent, FileTypeOK, Streams
<1> QED
  BY <1>3, <1>4, <1>5, DiskStays, ServerFrame DEF SendContent, procVars, diskVars

-----------------------------------------------------------------------------
(* Directories on their way to a client. *)

\* Opening a directory.
LEMMA DirOpenTypes ==
    ASSUME FileTypeOK, NEW c \in Clients, DirOpen(c)
    PROVE  FileTypeOK'
<1>1. PICK a \in Heard(c, 1) :
          LET p == At(c, a)
          IN IF p \in Paths /\ kind[p] = "dir"
             THEN /\ Answer(c, <<Text(<<"DirectoryFound">>)>>, "walk")
                  /\ walk' = [walk EXCEPT ![c] = <<Entries(p)>>]
             ELSE Reply(c, "DirectoryNotFound") /\ UNCHANGED walk
  BY DEF DirOpen
<1> DEFINE p == At(c, a)
<1>2. <<Text(<<"DirectoryFound">>)>> \in Seq(Unit)
  BY WordTypes, UnitTypes DEF Answers
<1>3. <<Entries(p)>> \in Seq(SUBSET Paths) /\ <<Entries(p)>> # <<>>
  <2>1. Entries(p) \in SUBSET Paths
    BY DEF Entries
  <2> QED
    BY <2>1, Short
<1>4. /\ down' \in Streams /\ spc' \in [Clients -> ServerPlaces]
      /\ spc'[c] \in {"command", "walk", "exit"}
      /\ \A d \in Clients \ {c} : spc'[d] = spc[d]
  BY <1>1, <1>2, AnswerTypes, ReplyTypes DEF Answers, ServerPlaces
<1>5. /\ walk' \in [Clients -> Seq(SUBSET Paths)]
      /\ spc'[c] = "walk" => walk'[c] # <<>>
      /\ \A d \in Clients \ {c} : walk'[d] = walk[d]
  <2> DEFINE first == <<Entries(p)>>
  <2>1. CASE walk' = [walk EXCEPT ![c] = first]
    <3> HIDE DEF first
    <3> QED
      BY <1>3, <2>1, Fields DEF first
  <2>2. CASE Reply(c, "DirectoryNotFound") /\ UNCHANGED walk
    BY <2>2, ReplyTypes DEF FileTypeOK, Answers
  <2> QED
    BY <1>1, <2>1, <2>2
<1>6. ProcsOK' /\ Stands(c)'
  BY <1>4, <1>5 DEF DirOpen, FileTypeOK, ProcsOK, Stands, diskVars
<1>7. up' \in Streams
  BY ConsumedTypes DEF DirOpen
<1> QED
  BY <1>4, <1>5, <1>6, <1>7, DiskStays, ServerFrame DEF DirOpen, diskVars

\* Sending an entry of it.
LEMMA DirEntryTypes ==
    ASSUME FileTypeOK, NEW c \in Clients, DirEntry(c)
    PROVE  FileTypeOK'
<1>1. PICK q \in Last(walk[c]) : SendSubdirectory(c, q) \/ SendFileHeader(c, q)
  BY DEF DirEntry
<1>2. walk[c] \in Seq(SUBSET Paths) /\ walk[c] # <<>>
  BY DEF DirEntry, FileTypeOK
<1>3. Last(walk[c]) \in SUBSET Paths
  BY <1>2, Fronts
<1>4. q \in Paths /\ q \in Word
  BY <1>1, <1>3, WordTypes
<1> DEFINE rest == ReplaceAt(walk[c], Len(walk[c]), Last(walk[c]) \ {q})
           more == Append(rest, Entries(q))
<1>5. rest \in Seq(SUBSET Paths) /\ rest # <<>>
  <2>1. Last(walk[c]) \ {q} \in SUBSET Paths
    BY <1>3
  <2> QED
    BY <1>2, <2>1, Replaced
<1>6. more \in Seq(SUBSET Paths) /\ more # <<>>
  <2> HIDE DEF rest
  <2>1. Entries(q) \in SUBSET Paths
    BY DEF Entries
  <2> QED
    BY <1>5, <2>1
<1> HIDE DEF more
<1>7. /\ down' \in Streams /\ spc' \in [Clients -> ServerPlaces]
      /\ spc'[c] \in {"walk", "content", "exit"}
      /\ \A d \in Clients \ {c} : spc'[d] = spc[d]
      /\ walk' = [walk EXCEPT ![c] = more] \/ walk' = [walk EXCEPT ![c] = rest]
      /\ path' = path \/ path' = [path EXCEPT ![c] = q]
  <2>1. CASE SendSubdirectory(c, q)
    <3>1. <<Text(<<"MKDIR">>), Text(q)>> \in Seq(Unit)
      BY <1>4, WordTypes, UnitTypes DEF Answers
    <3> QED
      BY <2>1, <3>1, AnswerTypes DEF SendSubdirectory, ServerPlaces, more
  <2>2. CASE SendFileHeader(c, q)
    <3>1. <<Text(<<"FILE">>), Text(q), Size(Announced(q))>> \in Seq(Unit)
      BY <1>4, AnnouncedTypes, WordTypes, UnitTypes DEF Answers
    <3> QED
      BY <2>2, <3>1, AnswerTypes DEF SendFileHeader, ServerPlaces
  <2> QED
    BY <1>1, <2>1, <2>2
<1> HIDE DEF rest
<1>8. /\ walk' \in [Clients -> Seq(SUBSET Paths)] /\ walk'[c] # <<>>
      /\ path' \in [Clients -> Paths]
      /\ \A d \in Clients \ {c} : walk'[d] = walk[d] /\ path'[d] = path[d]
  BY <1>4, <1>5, <1>6, <1>7, Fields
<1>9. ProcsOK' /\ Stands(c)' /\ up' \in Streams
  BY <1>7, <1>8 DEF DirEntry, FileTypeOK, ProcsOK, Stands, diskVars, Streams
<1> QED
  BY <1>7, <1>8, <1>9, DiskStays, ServerFrame DEF DirEntry, diskVars

\* Coming to its end.
LEMMA DirEndTypes ==
    ASSUME FileTypeOK, NEW c \in Clients, DirEnd(c)
    PROVE  FileTypeOK'
<1>1. walk[c] \in Seq(SUBSET Paths) /\ walk[c] # <<>>
  BY DEF DirEnd, FileTypeOK
<1>2. Front(walk[c]) \in Seq(SUBSET Paths) /\ (Len(walk[c]) # 1 => Front(walk[c]) # <<>>)
  BY <1>1, Fronts
<1>3. /\ walk' \in [Clients -> Seq(SUBSET Paths)] /\ walk'[c] = Front(walk[c])
      /\ \A d \in Clients \ {c} : walk'[d] = walk[d]
  BY <1>2, Fields DEF DirEnd
<1>4. /\ down' \in Streams /\ spc' \in [Clients -> ServerPlaces]
      /\ spc'[c] \in {"command", "exit"} \/ (Len(walk[c]) # 1 /\ spc'[c] = "walk")
      /\ \A d \in Clients \ {c} : spc'[d] = spc[d]
  <2>1. CASE Len(walk[c]) = 1
    BY <2>1, ReplyTypes DEF DirEnd, Answers
  <2>2. CASE Len(walk[c]) # 1
    BY <2>2 DEF DirEnd, FileTypeOK, Streams, ServerPlaces
  <2> QED
    BY <2>1, <2>2
<1>5. ProcsOK' /\ Stands(c)' /\ up' \in Streams
  BY <1>2, <1>3, <1>4 DEF DirEnd, FileTypeOK, ProcsOK, Stands, diskVars, Streams
<1> QED
  BY <1>3, <1>4, <1>5, DiskStays, ServerFrame DEF DirEnd, diskVars

-----------------------------------------------------------------------------
(* Every step. *)

TypeInv == FileTypeOK /\ \A c \in Clients : Opened(c)

\* Only a registration touches users.txt, and only the process that begins one
\* comes to write its line.
LEMMA OnlyRegistrations ==
    ASSUME FileTypeOK, NEW c \in Clients, ClientStep(c) \/ ServerStep(c) \/ Choose(c) \/ Kill(c)
    PROVE  \/ Register(c) \/ AppendAccount(c)
           \/ /\ UNCHANGED accounts
              /\ \A d \in Clients : spc'[d] = "append" =>
                   spc[d] = "append" /\ cwd'[d] = cwd[d]
<1>1. CASE ClientStep(c) \/ Choose(c) \/ Kill(c)
  BY <1>1 DEF ClientStep, Choose, Kill, SendRequest, ReadReply, ReadSize, ReadContent, ReadEntry,
              procVars, diskVars
<1> DEFINE Elsewhere == \A d \in Clients \ {c} : spc'[d] = spc[d]
           Quiet == /\ UNCHANGED accounts
                    /\ spc'[c] # "append" /\ Elsewhere
                    /\ \A d \in Clients \ {c} : cwd'[d] = cwd[d]
<1>2. ASSUME NEW w \in Answers, Reply(c, w) PROVE spc'[c] # "append" /\ Elsewhere
  BY <1>2, ReplyTypes
<1>3. ASSUME NEW units, NEW next \in ServerPlaces \ {"append"}, Answer(c, units, next)
      PROVE  spc'[c] # "append" /\ Elsewhere
  BY <1>3 DEF Answer, FileTypeOK
<1>4. CASE Accept(c) \/ Exit(c)
  BY <1>4 DEF Accept, Exit, FileTypeOK, procVars, diskVars
<1>5. CASE Unknown(c) \/ Login(c) \/ ListFiles(c) \/ SearchFiles(c) \/ MakeDir(c)
  <2>1. (\E w \in Answers : Reply(c, w)) /\ UNCHANGED <<accounts, cwd>>
    BY <1>5 DEF Unknown, Login, ListFiles, SearchFiles, MakeDir, Answers, procVars, diskVars
  <2> QED
    BY <1>2, <2>1
<1>6. CASE ChangeDir(c)
  <2>1. (\E w \in Answers : Reply(c, w)) /\ UNCHANGED accounts
    BY <1>6 DEF ChangeDir, Answers, diskVars
  <2>2. \A d \in Clients \ {c} : cwd'[d] = cwd[d]
    BY <1>6, Fields DEF ChangeDir
  <2> QED
    BY <1>2, <2>1, <2>2
<1>7. CASE UploadOpen(c)
  <2>1. (\E w \in Answers : Reply(c, w)) \/ spc' = [spc EXCEPT ![c] = "body"]
    BY <1>7 DEF UploadOpen, UploadFails, OpenForWriting, Answers
  <2>2. UNCHANGED <<accounts, cwd>>
    BY <1>7 DEF UploadOpen
  <2> QED
    BY <1>2, <2>1, <2>2 DEF FileTypeOK
<1>8. CASE UploadBody(c)
  <2>1. (\E w \in Answers : Reply(c, w)) /\ UNCHANGED <<accounts, cwd>>
    BY <1>8 DEF UploadBody, Answers, procVars
  <2> QED
    BY <1>2, <2>1
<1>9. CASE DownloadOpen(c) \/ SendContent(c) \/ DirOpen(c) \/ DirEntry(c)
  <2>1. \/ \E w \in Answers : Reply(c, w)
        \/ \E next \in ServerPlaces \ {"append"} : \E units : Answer(c, units, next)
    BY <1>9 DEF DownloadOpen, SendContent, DirOpen, DirEntry, SendSubdirectory, SendFileHeader,
                Answers, ServerPlaces
  <2>2. UNCHANGED <<accounts, cwd>>
    BY <1>9 DEF DownloadOpen, SendContent, DirOpen, DirEntry, procVars, diskVars
  <2> QED
    BY <1>2, <1>3, <2>1, <2>2
<1>10. CASE DirEnd(c)
  <2>1. (\E w \in Answers : Reply(c, w)) \/ UNCHANGED spc
    BY <1>10 DEF DirEnd, Answers
  <2>2. UNCHANGED <<accounts, cwd>>
    BY <1>10 DEF DirEnd, diskVars
  <2> QED
    BY <1>2, <2>1, <2>2
<1> QED
  BY <1>1, <1>4, <1>5, <1>6, <1>7, <1>8, <1>9, <1>10 DEF ServerStep

\* Accounts only grow.
LEMMA AccountsGrow ==
    ASSUME TypeInv, [Next]_vars
    PROVE  /\ \A p \in Paths : accounts[p] # NoFile =>
                accounts'[p] # NoFile /\ IsPrefix(accounts[p], accounts'[p])
           /\ \A c \in Clients : Opened(c)'
<1>1. accounts \in [Paths -> Seq(Account) \cup {NoFile}] /\ NoFile \notin Seq(Account)
  BY FileAssumption DEF TypeInv, FileTypeOK
<1>2. CASE UNCHANGED accounts /\ \A d \in Clients : spc'[d] = "append" =>
                                   spc[d] = "append" /\ cwd'[d] = cwd[d]
  BY <1>1, <1>2, PrefixItself DEF TypeInv, Opened
<1>3. ASSUME NEW c \in Clients, Register(c)
      PROVE  /\ \A p \in Paths : accounts[p] # NoFile => accounts'[p] = accounts[p]
             /\ accounts'[cwd[c]] # NoFile
             /\ \A d \in Clients \ {c} : spc'[d] = spc[d]
             /\ UNCHANGED cwd
  <2>1. cwd[c] \in Paths
    BY DEF TypeInv, FileTypeOK
  <2>2. PICK old \in Seq(Account) :
           /\ accounts' = [accounts EXCEPT ![cwd[c]] = old]
           /\ accounts[cwd[c]] # NoFile => old = accounts[cwd[c]]
    BY <1>1, <1>3, <2>1, Short DEF Register
  <2>3. \A d \in Clients \ {c} : spc'[d] = spc[d]
    <3>1. \E units, next : Answer(c, units, next)
      BY <1>3 DEF Register, Reply
    <3> QED
      BY <3>1, Fields DEF Answer, TypeInv
  <2> QED
    BY <1>1, <1>3, <2>1, <2>2, <2>3 DEF Register
<1>4. ASSUME NEW c \in Clients, AppendAccount(c)
      PROVE  /\ accounts[cwd[c]] \in Seq(Account) /\ pend[c] \in Account
             /\ accounts' = [accounts EXCEPT ![cwd[c]] = Append(@, pend[c])]
             /\ UNCHANGED cwd /\ \A d \in Clients : spc'[d] = "append" => spc[d] = "append"
  BY <1>1, <1>4 DEF AppendAccount, TypeInv, FileTypeOK, Opened, procVars
<1>5. CASE \E c \in Clients : Register(c)
  <2>1. PICK c \in Clients : Register(c)
    BY <1>5
  <2>2. \A p \in Paths : accounts[p] # NoFile =>
           accounts'[p] # NoFile /\ IsPrefix(accounts[p], accounts'[p])
    BY <1>1, <1>3, <2>1, PrefixItself
  <2>3. \A d \in Clients : cwd[d] \in Paths
    BY Fields DEF TypeInv
  <2> QED
    BY <1>3, <2>1, <2>2, <2>3 DEF TypeInv, Opened
<1>6. CASE \E c \in Clients : AppendAccount(c)
  <2>1. PICK c \in Clients : AppendAccount(c)
    BY <1>6
  <2> DEFINE longer == Append(accounts[cwd[c]], pend[c])
  <2>2. longer \in Seq(Account) /\ IsPrefix(accounts[cwd[c]], longer)
    BY <1>4, <2>1, AppendExtends
  <2>3. accounts' = [accounts EXCEPT ![cwd[c]] = longer]
    BY <1>4, <2>1
  <2> HIDE DEF longer
  <2>4. \A p \in Paths : accounts[p] # NoFile =>
           accounts'[p] # NoFile /\ IsPrefix(accounts[p], accounts'[p])
    BY <1>1, <2>2, <2>3, PrefixItself
  <2>5. \A d \in Clients : cwd[d] \in Paths
    BY DEF TypeInv, FileTypeOK
  <2> QED
    BY <1>4, <2>1, <2>4, <2>5 DEF TypeInv, Opened
<1>7. CASE UNCHANGED vars
  BY <1>2, <1>7 DEF vars, diskVars, procVars
<1> QED
  BY <1>2, <1>5, <1>6, <1>7, OnlyRegistrations DEF Next, TypeInv

\* Every step keeps the types.
LEMMA TypeStep == TypeInv /\ [Next]_vars => TypeInv'
<1> SUFFICES ASSUME TypeInv, [Next]_vars PROVE FileTypeOK'
  BY AccountsGrow DEF TypeInv
<1>1. ASSUME NEW c \in Clients, ServerStep(c) PROVE FileTypeOK'
  BY <1>1, LookTypes, RegisterTypes, AppendTypes, LoginTypes, MakeDirTypes, ChangeDirTypes,
     UploadOpenTypes, UploadBodyTypes, DownloadOpenTypes, SendContentTypes, DirOpenTypes,
     DirEntryTypes, DirEndTypes
  DEF ServerStep, TypeInv
<1>2. CASE UNCHANGED vars
  BY <1>2 DEF vars, clientVars, procVars, diskVars, TypeInv, FileTypeOK
<1> QED
  BY <1>1, <1>2, ChooseTypes, KillTypes, ClientStepTypes DEF Next, TypeInv

\* So they always hold.
LEMMA TypeInvariant == Spec => []TypeInv
<1>1. Init => TypeInv
  BY InitTypes DEF Init, TypeInv, Opened
<1> QED
  BY <1>1, TypeStep, PTL DEF Spec

\* Everything is of its type, and every process stands where it can: in a
\* directory, and writing to a file (server.c:68-436).
THEOREM FilesTypeCorrect == Spec => []FileTypeOK
<1>1. TypeInv => FileTypeOK
  BY DEF TypeInv
<1> QED
  BY <1>1, TypeInvariant, PTL

\* However many processes have users.txt open at once, in whatever directory: no
\* line of it is lost (server.c:255, 274-277).
THEOREM AccountsAreKept == Spec => AccountsStay
<1>1. TypeInv /\ [Next]_vars =>
        [\A p \in Paths : accounts[p] # NoFile =>
           accounts'[p] # NoFile /\ IsPrefix(accounts[p], accounts'[p])]_vars
  BY AccountsGrow
<1> QED
  BY <1>1, TypeInvariant, PTL DEF Spec, AccountsStay
=============================================================================
