------------------------------ MODULE FileServer ------------------------------
(***************************************************************************)
(* The file server, src/module_file/LTM-pj/server1/server.c, which forks a *)
(* process per client over one directory tree, and its client,             *)
(* client1/client.c, over the two byte streams between them.               *)
(*                                                                         *)
(* Commands, arguments and answers are texts of BUFFER_SIZE bytes, and a   *)
(* file is a whole number of blocks of BUFFER_SIZE bytes, at most as many  *)
(* as stdio buffers until fclose: each recv takes one unit of the stream,  *)
(* and a block read as a text is Junk.  The client connects to 127.0.0.1,  *)
(* where a send of BUFFER_SIZE bytes arrives in one piece.  A word is a    *)
(* sequence of names, the parts of a path; paths lead down.  users.txt is  *)
(* kept apart from the files.  receive_directory is left out: no client    *)
(* sends UPLOAD_DIR.                                                       *)
(*                                                                         *)
(* A step of a process ends where it uses the file system again or waits.  *)
(***************************************************************************)
EXTENDS Naturals, Sequences, SequencesExt

CONSTANTS
    Clients,     \* the clients, each with the server process forked for it
    Names,       \* names of files and directories
    Typed,       \* names and passwords of users
    MaxDepth,    \* the longest path there is room for
    Blocks,      \* the contents of a block
    Menu,        \* Menu[c]: what the menu of c may be asked to do
    MaxChoices,  \* how many choices each user makes
    Leftovers,   \* what an argument that never arrives may turn out to be
    Huge,        \* the size of what has no size: more blocks than any file
    NoFile       \* users.txt does not exist

Paths == SeqOf(Names, MaxDepth)

\* What both ends say.
Commands == {"Register", "Login", "LIST", "SEARCH", "MKDIR", "CD", "UPLOAD",
             "DOWNLOAD", "DOWNLOAD_DIR", "END_OF_DIR"}
Answers ==
    {"RegisterSuccess", "UserExists", "LoginSuccess", "LoginFailed",
     "Khong_the_mo_file_nguoi_dung", "Vui_long_dang_nhap_truoc", "Lenh_khong_hop_le",
     "listing", "results", "DirectoryCreated", "DirectoryCreationFailed",
     "DirectoryChanged", "DirectoryChangeFailed", "UploadFailed", "FileOpenError",
     "UploadSuccess", "FileFound", "FileNotFound", "DirectoryFound",
     "DirectoryNotFound", "MKDIR", "FILE", "END_OF_DIR"}

Word == Seq(Names \cup Typed \cup Commands \cup Answers \cup {"junk"})
Account == Word \X Word

\* One request and its answer; a choice of the menu makes a few of them.
Exchange == [op : Commands, args : Seq(Word), content : Seq(Blocks)]

\* The commands of the menu before the login, and how many texts follow each.
EntryCommands == {"Register", "Login"}
Arguments == [op \in Commands |->
    IF op \in EntryCommands THEN 2 ELSE IF op \in {"LIST", "END_OF_DIR"} THEN 0 ELSE 1]

\* The menu before the login sends one request, the other no entry command.
Offered(choice) ==
    /\ \A i \in DOMAIN choice.do :
          /\ Len(choice.do[i].args) = Arguments[choice.do[i].op]
          /\ choice.auth <=> choice.do[i].op \notin EntryCommands
    /\ ~choice.auth => Len(choice.do) <= 1

ASSUME FileAssumption ==
    /\ MaxDepth \in Nat /\ MaxChoices \in Nat /\ Blocks # {}
    /\ \A c \in Clients : /\ Menu[c] \subseteq [auth : BOOLEAN, do : Seq(Exchange)]
                          /\ \A choice \in Menu[c] : Offered(choice)
    /\ Leftovers \subseteq Word /\ Leftovers # {}
    /\ Huge \in Nat /\ NoFile \notin Seq(Account)

VARIABLES
    cpc,         \* where the client stands
    cauth,       \* its authenticated
    todo,        \* the exchanges left of its choice, the present one first
    left,        \* the choices its user still makes
    expect,      \* the blocks it still has to receive
    up, down,    \* what is on its way to the server, and back
    spc,         \* where the server process stands
    auth,        \* its authenticated
    cwd,         \* its working directory
    path,        \* the file it has open
    want,        \* filesize of the upload
    pend,        \* the account it is about to write
    walk,        \* the entries left in each directory send_directory is in
    kind,        \* "none", "dir" or "file" for each path
    data,        \* the content of each file
    accounts     \* users.txt in each directory

clientVars == <<cpc, cauth, todo, left, expect>>
procVars   == <<auth, cwd, path, want, pend, walk>>
diskVars   == <<kind, data, accounts>>
vars       == <<clientVars, up, down, spc, procVars, diskVars>>

Unit == [k : {"text"}, w : Word] \cup [k : {"size"}, n : Nat]
          \cup [k : {"block"}, v : Blocks]

Text(w)  == [k |-> "text", w |-> w]
Size(n)  == [k |-> "size", n |-> n]
Block(v) == [k |-> "block", v |-> v]

Junk == <<"junk">>
WordAt(u)  == IF u.k = "text" THEN u.w ELSE Junk
SizeAt(u)  == IF u.k = "size" THEN u.n ELSE Huge
BlockAt(u) == IF u.k = "block" THEN u.v ELSE CHOOSE v \in Blocks : TRUE

FileTypeOK ==
    /\ cpc \in [Clients -> {"menu", "send", "reply", "size", "content", "entries", "gone"}]
    /\ cauth \in [Clients -> BOOLEAN]
    /\ todo \in [Clients -> Seq(Exchange)]
    /\ \A c \in Clients : cpc[c] \notin {"menu", "gone"} => todo[c] # <<>>
    /\ left \in [Clients -> 0..MaxChoices]
    /\ expect \in [Clients -> Nat]
    /\ up \in [Clients -> Seq(Unit)] /\ down \in [Clients -> Seq(Unit)]
    /\ spc \in [Clients -> {"none", "command", "append", "body", "content", "walk", "exit"}]
    /\ auth \in [Clients -> BOOLEAN]
    /\ cwd \in [Clients -> Paths] /\ \A c \in Clients : kind[cwd[c]] = "dir"
    /\ path \in [Clients -> Paths]
    /\ \A c \in Clients : spc[c] = "body" => kind[path[c]] = "file"
    /\ want \in [Clients -> Nat]
    /\ pend \in [Clients -> Account]
    /\ walk \in [Clients -> Seq(SUBSET Paths)]
    /\ \A c \in Clients : spc[c] = "walk" => walk[c] # <<>>
    /\ kind \in [Paths -> {"none", "dir", "file"}]
    /\ data \in [Paths -> Seq(Blocks)]
    /\ \A p \in Paths : data[p] # <<>> => kind[p] = "file"
    /\ accounts \in [Paths -> Seq(Account) \cup {NoFile}]

\* Everybody is connected, in the backlog of the listening socket.
Init ==
    /\ cpc = [c \in Clients |-> "menu"] /\ cauth = [c \in Clients |-> FALSE]
    /\ todo = [c \in Clients |-> <<>>] /\ left = [c \in Clients |-> MaxChoices]
    /\ expect = [c \in Clients |-> 0]
    /\ up = [c \in Clients |-> <<>>] /\ down = [c \in Clients |-> <<>>]
    /\ spc = [c \in Clients |-> "none"] /\ auth = [c \in Clients |-> FALSE]
    /\ cwd = [c \in Clients |-> <<>>] /\ path = [c \in Clients |-> <<>>]
    /\ want = [c \in Clients |-> 0]
    /\ pend = [c \in Clients |-> <<<<>>, <<>>>>] /\ walk = [c \in Clients |-> <<>>]
    /\ kind = [p \in Paths |-> IF p = <<>> THEN "dir" ELSE "none"]
    /\ data = [p \in Paths |-> <<>>]
    /\ accounts = [p \in Paths |-> NoFile]

-----------------------------------------------------------------------------
(* The client.  Every choice sends whole requests and waits for the answer *)
(* before the next; its process may be stopped at any time.                *)

Request(x) ==
    <<Text(<<x.op>>)>> \o [i \in DOMAIN x.args |-> Text(x.args[i])]
      \o IF x.op = "UPLOAD"
         THEN <<Size(Len(x.content))>> \o [i \in DOMAIN x.content |-> Block(x.content[i])]
         ELSE <<>>

\* A choice of no exchange is the logout, which tells the server nothing.
Choose(c) ==
    /\ cpc[c] = "menu" /\ left[c] > 0
    /\ \E choice \in Menu[c] :
          /\ choice.auth = cauth[c]
          /\ todo' = [todo EXCEPT ![c] = choice.do]
          /\ cpc' = IF choice.do = <<>> THEN cpc ELSE [cpc EXCEPT ![c] = "send"]
          /\ cauth' = IF choice.do = <<>> THEN [cauth EXCEPT ![c] = FALSE] ELSE cauth
    /\ left' = [left EXCEPT ![c] = @ - 1]
    /\ UNCHANGED <<expect, up, down, spc, procVars, diskVars>>

SendRequest(c) ==
    /\ cpc[c] = "send"
    /\ cpc' = [cpc EXCEPT ![c] = "reply"]
    /\ up' = [up EXCEPT ![c] = @ \o Request(Head(todo[c]))]
    /\ UNCHANGED <<cauth, todo, left, expect, down, spc, procVars, diskVars>>

\* The client is stopped, perhaps with a request half sent.
Kill(c) ==
    /\ cpc[c] # "gone"
    /\ \E part \in IF cpc[c] = "send" THEN Prefixes(Request(Head(todo[c]))) ELSE {<<>>} :
          up' = [up EXCEPT ![c] = @ \o part]
    /\ cpc' = [cpc EXCEPT ![c] = "gone"]
    /\ down' = [down EXCEPT ![c] = <<>>]
    /\ UNCHANGED <<cauth, todo, left, expect, spc, procVars, diskVars>>

\* c is through with an exchange.
Finish(c) ==
    /\ todo' = [todo EXCEPT ![c] = Tail(@)]
    /\ cpc' = [cpc EXCEPT ![c] = IF Len(todo[c]) = 1 THEN "menu" ELSE "send"]

GoOn(c, to) == cpc' = [cpc EXCEPT ![c] = to] /\ UNCHANGED todo

Received(c, n) == down' = [down EXCEPT ![c] = SubSeq(@, n + 1, Len(@))]

\* (Mutant: whatever does not say that it failed.)
AcceptsLoginUnlessFailed(w) == w # <<"LoginFailed">>

AcceptsLogin(w) == w = <<"LoginSuccess">>

ReadReply(c) ==
    /\ cpc[c] = "reply" /\ down[c] # <<>>
    /\ LET op == Head(todo[c]).op
           w  == WordAt(Head(down[c]))
       IN /\ CASE op = "DOWNLOAD" /\ w # <<"FileNotFound">>          -> GoOn(c, "size")
               [] op = "DOWNLOAD_DIR" /\ w # <<"DirectoryNotFound">> -> GoOn(c, "entries")
               [] OTHER                                              -> Finish(c)
          /\ cauth' = IF op = "Login" THEN [cauth EXCEPT ![c] = AcceptsLogin(w)] ELSE cauth
    /\ Received(c, 1)
    /\ UNCHANGED <<left, expect, up, spc, procVars, diskVars>>

ReadSize(c) ==
    /\ cpc[c] = "size" /\ down[c] # <<>>
    /\ GoOn(c, "content")
    /\ expect' = [expect EXCEPT ![c] = SizeAt(Head(down[c]))]
    /\ Received(c, 1)
    /\ UNCHANGED <<cauth, left, up, spc, procVars, diskVars>>

ReadContent(c) ==
    /\ cpc[c] = "content" /\ Len(down[c]) >= expect[c]
    /\ IF Head(todo[c]).op = "DOWNLOAD_DIR" THEN GoOn(c, "entries") ELSE Finish(c)
    /\ Received(c, expect[c])
    /\ expect' = [expect EXCEPT ![c] = 0]
    /\ UNCHANGED <<cauth, left, up, spc, procVars, diskVars>>

\* One turn of the loop of download_directory.
ReadEntry(c) ==
    /\ cpc[c] = "entries" /\ down[c] # <<>>
    /\ LET w     == WordAt(Head(down[c]))
           named == w \in {<<"MKDIR">>, <<"FILE">>}
       IN /\ named => Len(down[c]) > 1
          /\ CASE w = <<"END_OF_DIR">> -> Finish(c)
               [] w = <<"FILE">>       -> GoOn(c, "size")
               [] OTHER                -> GoOn(c, "entries")
          /\ Received(c, IF named THEN 2 ELSE 1)
    /\ UNCHANGED <<cauth, left, expect, up, spc, procVars, diskVars>>

-----------------------------------------------------------------------------
(* The server process of a client: what it reads and answers. *)

Gone(c) == cpc[c] = "gone"

Accept(c) ==
    /\ spc[c] = "none"
    /\ spc' = [spc EXCEPT ![c] = "command"]
    /\ UNCHANGED <<clientVars, up, down, procVars, diskVars>>

\* A command and n arguments: recv waits for each of them, unless the client
\* is gone; what then does not arrive is whatever the buffer held.
Command(c, op, n) ==
    /\ spc[c] = "command" /\ up[c] # <<>> /\ WordAt(Head(up[c])) = <<op>>
    /\ Len(up[c]) > n \/ Gone(c)

Heard(c, i) ==
    IF Len(up[c]) > i THEN {WordAt(up[c][i + 1])} ELSE Leftovers

Consumed(c, n) == up' = [up EXCEPT ![c] = SubSeq(@, n + 1, Len(@))]

\* A send to a client that is gone may end the process by SIGPIPE.
Answer(c, units, next) ==
    /\ down' = IF Gone(c) THEN down ELSE [down EXCEPT ![c] = @ \o units]
    /\ \E to \in {next} \cup (IF Gone(c) THEN {"exit"} ELSE {}) :
          spc' = [spc EXCEPT ![c] = to]

Reply(c, w) == Answer(c, <<Text(<<w>>)>>, "command")

Unknown(c) ==
    /\ spc[c] = "command" /\ up[c] # <<>>
    /\ LET w == WordAt(Head(up[c]))
       IN /\ w \notin {<<"Register">>, <<"Login">>}
          /\ IF auth[c]
             THEN /\ w \notin {<<op>> : op \in {"LIST", "SEARCH", "MKDIR", "CD", "UPLOAD",
                                                "DOWNLOAD", "DOWNLOAD_DIR"}}
                  /\ Reply(c, "Lenh_khong_hop_le")
             ELSE Reply(c, "Vui_long_dang_nhap_truoc")
    /\ Consumed(c, 1)
    /\ UNCHANGED <<clientVars, procVars, diskVars>>

Exit(c) ==
    /\ spc[c] = "command" /\ up[c] = <<>> /\ Gone(c)
    /\ spc' = [spc EXCEPT ![c] = "exit"]
    /\ UNCHANGED <<clientVars, up, down, procVars, diskVars>>

-----------------------------------------------------------------------------
(* Accounts.  fopen with "a+" creates users.txt; the line goes into it at  *)
(* fclose, after the answer.                                               *)

Register(c) ==
    /\ Command(c, "Register", 2)
    /\ \E user \in Heard(c, 1), password \in Heard(c, 2) :
          LET old == IF accounts[cwd[c]] = NoFile THEN <<>> ELSE accounts[cwd[c]]
          IN /\ accounts' = [accounts EXCEPT ![cwd[c]] = old]
             /\ IF \E i \in DOMAIN old : old[i][1] = user
                THEN Reply(c, "UserExists") /\ UNCHANGED pend
                ELSE /\ Answer(c, <<Text(<<"RegisterSuccess">>)>>, "append")
                     /\ pend' = [pend EXCEPT ![c] = <<user, password>>]
    /\ Consumed(c, 3)
    /\ UNCHANGED <<clientVars, auth, cwd, path, want, walk, kind, data>>

\* (Mutant: users.txt is opened with "w".)
AppendTruncating(c) ==
    /\ spc[c] = "append"
    /\ spc' = [spc EXCEPT ![c] = "command"]
    /\ accounts' = [accounts EXCEPT ![cwd[c]] = <<pend[c]>>]
    /\ UNCHANGED <<clientVars, up, down, procVars, kind, data>>

AppendAccount(c) ==
    /\ spc[c] = "append"
    /\ spc' = [spc EXCEPT ![c] = "command"]
    /\ accounts' = [accounts EXCEPT ![cwd[c]] = Append(@, pend[c])]
    /\ UNCHANGED <<clientVars, up, down, procVars, kind, data>>

Login(c) ==
    /\ Command(c, "Login", 2)
    /\ \E user \in Heard(c, 1), password \in Heard(c, 2) :
          LET known == accounts[cwd[c]]
              found == known # NoFile /\ <<user, password>> \in ToSet(known)
          IN /\ auth' = [auth EXCEPT ![c] = found]
             /\ Reply(c, IF known = NoFile THEN "Khong_the_mo_file_nguoi_dung"
                         ELSE IF found THEN "LoginSuccess" ELSE "LoginFailed")
    /\ Consumed(c, 3)
    /\ UNCHANGED <<clientVars, cwd, path, want, pend, walk, diskVars>>

-----------------------------------------------------------------------------
(* Directories. *)

At(c, a) == cwd[c] \o a

\* LIST and SEARCH only look.
ListFiles(c) ==
    /\ auth[c] /\ Command(c, "LIST", 0)
    /\ Reply(c, "listing")
    /\ Consumed(c, 1)
    /\ UNCHANGED <<clientVars, procVars, diskVars>>

\* (Mutant: the query is not received.)
SearchNoQuery(c) ==
    /\ auth[c] /\ Command(c, "SEARCH", 0)
    /\ Reply(c, "results")
    /\ Consumed(c, 1)
    /\ UNCHANGED <<clientVars, procVars, diskVars>>

SearchFiles(c) ==
    /\ auth[c] /\ Command(c, "SEARCH", 1)
    /\ Reply(c, "results")
    /\ Consumed(c, 2)
    /\ UNCHANGED <<clientVars, procVars, diskVars>>

CanMakeDir(p) ==
    /\ p \in Paths \ {<<>>} /\ kind[p] = "none" /\ kind[Front(p)] = "dir"

\* (Mutant: only a success is answered.)
MakeDirQuietly(c) ==
    /\ auth[c] /\ Command(c, "MKDIR", 1)
    /\ \E a \in Heard(c, 1) :
          IF CanMakeDir(At(c, a))
          THEN Reply(c, "DirectoryCreated") /\ kind' = [kind EXCEPT ![At(c, a)] = "dir"]
          ELSE UNCHANGED <<kind, down, spc>>
    /\ Consumed(c, 2)
    /\ UNCHANGED <<clientVars, procVars, data, accounts>>

\* (Mutant: what is there is replaced.)
MakeDirOver(c) ==
    /\ auth[c] /\ Command(c, "MKDIR", 1)
    /\ \E a \in Heard(c, 1) :
          IF At(c, a) \in Paths \ {<<>>} /\ kind[Front(At(c, a))] = "dir"
          THEN Reply(c, "DirectoryCreated") /\ kind' = [kind EXCEPT ![At(c, a)] = "dir"]
          ELSE Reply(c, "DirectoryCreationFailed") /\ UNCHANGED kind
    /\ Consumed(c, 2)
    /\ UNCHANGED <<clientVars, procVars, data, accounts>>

MakeDir(c) ==
    /\ auth[c] /\ Command(c, "MKDIR", 1)
    /\ \E a \in Heard(c, 1) :
          IF CanMakeDir(At(c, a))
          THEN Reply(c, "DirectoryCreated") /\ kind' = [kind EXCEPT ![At(c, a)] = "dir"]
          ELSE Reply(c, "DirectoryCreationFailed") /\ UNCHANGED kind
    /\ Consumed(c, 2)
    /\ UNCHANGED <<clientVars, procVars, data, accounts>>

ChangeDir(c) ==
    /\ auth[c] /\ Command(c, "CD", 1)
    /\ \E a \in Heard(c, 1) :
          IF At(c, a) \in Paths /\ kind[At(c, a)] = "dir"
          THEN Reply(c, "DirectoryChanged") /\ cwd' = [cwd EXCEPT ![c] = At(c, a)]
          ELSE Reply(c, "DirectoryChangeFailed") /\ UNCHANGED cwd
    /\ Consumed(c, 2)
    /\ UNCHANGED <<clientVars, auth, path, want, pend, walk, diskVars>>

-----------------------------------------------------------------------------
(* Files.  Between fopen and fclose an upload has truncated the file and   *)
(* not yet written it.                                                     *)

Parents(p) == (Prefixes(p) \cap Paths) \ {<<>>, p}

\* What create_directories makes of the parents of p, and when it gives up: of
\* mkdir it ignores that there is something already, also when that is a file.
Makes(p) == [q \in Paths |->
    IF q \in Parents(p) /\ \A r \in Prefixes(q) : kind[r] # "file" THEN "dir" ELSE kind[q]]
Blocked(p) ==
    \E q \in Prefixes(p) \ {p} : q \notin Paths \/ (kind[q] = "file" /\ q # Front(p))

\* Where fopen cannot write: there is no room, there is a directory, or the parent
\* is a file.
Unwritable(p) == p \notin Paths \/ kind[p] = "dir" \/ kind[Front(p)] = "file"

UploadFails(c, answer, n) ==
    /\ Reply(c, answer) /\ Consumed(c, n)
    /\ UNCHANGED <<path, want, data>>

\* (Mutant: fopen with "r+b", the old content stays until it is overwritten.)
OpenWithoutTruncating(c, p) ==
    /\ spc' = [spc EXCEPT ![c] = "body"]
    /\ path' = [path EXCEPT ![c] = p]
    /\ want' = [want EXCEPT ![c] = SizeAt(up[c][3])]
    /\ UNCHANGED <<down, data>>
    /\ Consumed(c, 3)

OpenForWriting(c, p) ==
    /\ spc' = [spc EXCEPT ![c] = "body"]
    /\ path' = [path EXCEPT ![c] = p]
    /\ want' = [want EXCEPT ![c] = SizeAt(up[c][3])]
    /\ data' = [data EXCEPT ![p] = <<>>]
    /\ UNCHANGED down
    /\ Consumed(c, 3)

UploadOpen(c) ==
    /\ auth[c] /\ Command(c, "UPLOAD", 1)
    /\ Len(up[c]) > 2 \/ Gone(c)
    /\ \E a \in Heard(c, 1) :
          LET p == At(c, a)
          IN IF Blocked(p) \/ Len(up[c]) < 3
             THEN UploadFails(c, "UploadFailed", 2) /\ kind' = Makes(p)
             ELSE IF Unwritable(p)
             THEN UploadFails(c, "FileOpenError", 3) /\ kind' = Makes(p)
             ELSE OpenForWriting(c, p) /\ kind' = [Makes(p) EXCEPT ![p] = "file"]
    /\ UNCHANGED <<clientVars, auth, cwd, pend, walk, accounts>>

\* The content is received and written at fclose, from the start of the file;
\* less of it when the client is gone.
UploadBody(c) ==
    /\ spc[c] = "body"
    /\ Len(up[c]) >= want[c] \/ Gone(c)
    /\ LET got == IF Len(up[c]) < want[c] THEN Len(up[c]) ELSE want[c]
           new == [i \in 1..got |-> BlockAt(up[c][i])]
       IN /\ data' = [data EXCEPT ![path[c]] = new \o SubSeq(@, got + 1, Len(@))]
          /\ Reply(c, IF got < want[c] THEN "UploadFailed" ELSE "UploadSuccess")
          /\ Consumed(c, got)
    /\ UNCHANGED <<clientVars, procVars, kind, accounts>>

\* fopen succeeds on a directory, too, and says it is as long as can be.
Announced(p) == IF kind[p] = "dir" THEN Huge ELSE Len(data[p])

DownloadOpen(c) ==
    /\ auth[c] /\ Command(c, "DOWNLOAD", 1)
    /\ \E a \in Heard(c, 1) :
          LET p == At(c, a)
          IN IF p \in Paths /\ kind[p] # "none"
             THEN /\ Answer(c, <<Text(<<"FileFound">>), Size(Announced(p))>>, "content")
                  /\ path' = [path EXCEPT ![c] = p]
             ELSE Reply(c, "FileNotFound") /\ UNCHANGED path
    /\ Consumed(c, 2)
    /\ UNCHANGED <<clientVars, auth, cwd, want, pend, walk, diskVars>>

\* What the file holds now, which need not be as long as announced.
SendContent(c) ==
    /\ spc[c] = "content"
    /\ Answer(c, [i \in DOMAIN data[path[c]] |-> Block(data[path[c]][i])],
              IF walk[c] = <<>> THEN "command" ELSE "walk")
    /\ UNCHANGED <<clientVars, up, procVars, diskVars>>

-----------------------------------------------------------------------------
(* DOWNLOAD_DIR: send_directory and its recursive calls, one entry at a    *)
(* time, in the order readdir has them.  An entry that appears after its   *)
(* directory was opened is not met.                                        *)

Entries(p) == {q \in Paths \ {<<>>} : Front(q) = p /\ kind[q] # "none"}

DirOpen(c) ==
    /\ auth[c] /\ Command(c, "DOWNLOAD_DIR", 1)
    /\ \E a \in Heard(c, 1) :
          LET p == At(c, a)
          IN IF p \in Paths /\ kind[p] = "dir"
             THEN /\ Answer(c, <<Text(<<"DirectoryFound">>)>>, "walk")
                  /\ walk' = [walk EXCEPT ![c] = <<Entries(p)>>]
             ELSE Reply(c, "DirectoryNotFound") /\ UNCHANGED walk
    /\ Consumed(c, 2)
    /\ UNCHANGED <<clientVars, auth, cwd, path, want, pend, diskVars>>

SendSubdirectory(c, q) ==
    /\ kind[q] = "dir"
    /\ Answer(c, <<Text(<<"MKDIR">>), Text(q)>>, "walk")
    /\ walk' = [walk EXCEPT ![c] = Append(ReplaceAt(@, Len(@), Last(@) \ {q}), Entries(q))]
    /\ UNCHANGED path

SendFileHeader(c, q) ==
    /\ kind[q] = "file"
    /\ Answer(c, <<Text(<<"FILE">>), Text(q), Size(Announced(q))>>, "content")
    /\ walk' = [walk EXCEPT ![c] = ReplaceAt(@, Len(@), Last(@) \ {q})]
    /\ path' = [path EXCEPT ![c] = q]

DirEntry(c) ==
    /\ spc[c] = "walk"
    /\ \E q \in Last(walk[c]) : SendSubdirectory(c, q) \/ SendFileHeader(c, q)
    /\ UNCHANGED <<clientVars, up, auth, cwd, want, pend, diskVars>>

DirEnd(c) ==
    /\ spc[c] = "walk" /\ Last(walk[c]) = {}
    /\ walk' = [walk EXCEPT ![c] = Front(@)]
    /\ IF Len(walk[c]) = 1 THEN Reply(c, "END_OF_DIR") ELSE UNCHANGED <<down, spc>>
    /\ UNCHANGED <<clientVars, up, auth, cwd, path, want, pend, diskVars>>

-----------------------------------------------------------------------------
ClientStep(c) ==
    SendRequest(c) \/ ReadReply(c) \/ ReadSize(c) \/ ReadContent(c) \/ ReadEntry(c)

ServerStep(c) ==
    \/ Accept(c) \/ Unknown(c) \/ Exit(c)
    \/ Register(c) \/ AppendAccount(c) \/ Login(c)
    \/ ListFiles(c) \/ SearchFiles(c) \/ MakeDir(c) \/ ChangeDir(c)
    \/ UploadOpen(c) \/ UploadBody(c) \/ DownloadOpen(c) \/ SendContent(c)
    \/ DirOpen(c) \/ DirEntry(c) \/ DirEnd(c)

Next == \E c \in Clients : Choose(c) \/ Kill(c) \/ ClientStep(c) \/ ServerStep(c)

Spec == Init /\ [][Next]_vars

\* The kernel runs every process; users choose, and stop, as they please.
FairFiles ==
    Spec /\ \A c \in Clients : WF_vars(ClientStep(c)) /\ WF_vars(ServerStep(c))

-----------------------------------------------------------------------------
(* Properties. *)

\* What a user may ask for.
Asks(c) == UNION {ToSet(choice.do) : choice \in Menu[c]}

\* An upload goes where it can be written, if there is anything to write.
UploadsFit ==
    \A c \in Clients : auth[c] /\ Command(c, "UPLOAD", 2) /\ Len(up[c]) > 2 =>
        LET p == At(c, WordAt(up[c][2]))
        IN ~Blocked(p) /\ (SizeAt(up[c][3]) > 0 => ~Unwritable(p))

\* What is sent is a file.
SendsFiles == \A c \in Clients : spc[c] = "content" /\ ~Gone(c) => kind[path[c]] = "file"

\* Nobody else has a file open while it is written.
WritesAlone ==
    \A c, d \in Clients :
        spc[c] = "body" /\ c # d /\ (spc[d] = "body" \/ (spc[d] = "content" /\ ~Gone(d)))
            => path[c] # path[d]

\* What keeps a connection in step: an upload that can be written, and files that
\* stay as they were announced (server.c:354-380, 407-438).
Orderly == UploadsFit /\ SendsFiles /\ WritesAlone

\* Where c may stand and what it may name, when dirs are the directories there
\* may ever be.
Standing(c, dirs) == IF \E x \in Asks(c) : x.op = "CD" THEN dirs ELSE {<<>>}
Named(c, op, dirs) ==
    {w \o x.args[1] : w \in Standing(c, dirs), x \in {y \in Asks(c) : y.op = op}}

\* Users who keep apart are orderly: what is uploaded has room below directories
\* and a name no directory gets, what is downloaded has a name no directory gets,
\* and nobody names what another uploads.
Apart(dirs) ==
    /\ <<>> \in dirs /\ dirs \subseteq Paths
    /\ \A c \in Clients :
          /\ Named(c, "MKDIR", dirs) \cap Paths \subseteq dirs
          /\ \A w \in Standing(c, dirs), a \in Leftovers : Prefixes(w \o a) \cap Paths \subseteq dirs
          /\ \A p \in Named(c, "UPLOAD", dirs) : Prefixes(p) \ {p} \subseteq dirs
          /\ \A x \in Asks(c) : x.op = "UPLOAD" /\ x.content # <<>> =>
                \A w \in Standing(c, dirs) : w \o x.args[1] \in Paths \ dirs
          /\ Named(c, "DOWNLOAD", dirs) \cap dirs = {}
    /\ \A c, d \in Clients : \A p \in Named(c, "UPLOAD", dirs) :
          /\ \A q \in Named(d, "UPLOAD", dirs) : q \notin Prefixes(p) \ {p}
          /\ c # d => /\ p \notin Named(d, "UPLOAD", dirs) \cup Named(d, "DOWNLOAD", dirs)
                      /\ \A q \in Named(d, "DOWNLOAD_DIR", dirs) : ~IsPrefix(q, p)

\* Between two requests of a client nothing is left in its streams, and its
\* process comes to wait for a command, at most with an empty file to send: no part
\* of a request or an answer is taken for the beginning of another (client.c:400-505
\* and server.c:88-136, 350-438).
InStep ==
    \A c \in Clients : cpc[c] \in {"menu", "send"} =>
        /\ up[c] = <<>> /\ down[c] = <<>>
        /\ \/ spc[c] \in {"none", "command", "append"}
           \/ spc[c] = "content" /\ data[path[c]] = <<>>

\* A client only offers its second menu while the server lets it in, also when
\* users.txt is not the one it registered in (client.c:40-54, server.c:99-101,
\* 281-309).
LoginAgreement == \A c \in Clients : cauth[c] /\ cpc[c] # "gone" => auth[c]

\* When clients keep to files of their own, a file holds one upload, or the
\* beginning of one, and never the rest of an earlier one (server.c:376-399).
FilesAreWhole ==
    \A p \in Paths : kind[p] = "file" =>
        \E c \in Clients : \E x \in Asks(c) : IsPrefix(data[p], x.content)

\* What is still to come to c, what its process has open to send it included.
Coming(c) ==
    down[c] \o IF spc[c] = "content" THEN [i \in DOMAIN data[path[c]] |-> Block(data[path[c]][i])]
               ELSE <<>>

Says(said, content) == [said |-> said, content |-> content]

\* What c will take for the content of its download, when everything has come.
Fetched(c) ==
    LET s == Coming(c)
        k == [reply |-> 2, size |-> 1, content |-> 0][cpc[c]]
        n == IF k = 0 THEN expect[c] ELSE SizeAt(s[k])
    IN IF k = 2 /\ WordAt(s[1]) = <<"FileNotFound">> THEN Says("missing", <<>>)
       ELSE IF Len(s) = k + n THEN Says("found", [i \in 1..n |-> BlockAt(s[k + i])])
       ELSE Says("garbled", <<>>)

\* Its process has a request before it.
Unread(c) == up[c] # <<>> /\ spc[c] \notin {"body", "exit"}

ResultOf(c) ==
    CASE Head(todo[c]).op = "UPLOAD" ->
           Says(IF spc[c] = "body" \/ WordAt(Head(down[c])) = <<"UploadSuccess">>
                THEN "stored" ELSE "refused", <<>>)
      [] Head(todo[c]).op = "DOWNLOAD" -> Fetched(c)
      [] OTHER -> Says("done", <<>>)

\* What will be in a file that is being written.
Taken(c) ==
    [i \in 1..(IF Len(up[c]) < want[c] THEN Len(up[c]) ELSE want[c]) |-> BlockAt(up[c][i])]

Writes(c, p) == spc[c] = "body" /\ path[c] = p

StoreOf(p) ==
    IF kind[p] # "file" THEN <<>>
    ELSE IF \E c \in Clients : Writes(c, p) THEN <<Taken(CHOOSE c \in Clients : Writes(c, p))>>
    ELSE <<data[p]>>

Calls == [c \in Clients |->
    IF cpc[c] \in {"menu", "send"} \/ (Gone(c) /\ ~Unread(c)) THEN <<>> ELSE <<Head(todo[c])>>]
Results == [c \in Clients |->
    IF cpc[c] \in {"menu", "send", "gone"} \/ Unread(c) THEN <<>> ELSE <<ResultOf(c)>>]

Contents == [p \in Paths |-> StoreOf(p)]
Stopped  == {c \in Clients : Gone(c)}

Store == INSTANCE FileStore WITH
    Users <- Clients, Requests <- [c \in Clients |-> Asks(c)],
    store <- Contents, where <- cwd, call <- Calls, result <- Results, stopped <- Stopped

\* Each request of users who keep apart is carried out once and as a whole, and
\* answered with what came of it: a download brings what was uploaded last, and
\* all of it (client.c:63-200, 322-578, server.c:281-440).
StoreSpec == Store!StoreSpec

\* No registration is ever lost to another one: processes that have users.txt
\* open together append to it (server.c:255, 274-277).
AccountsStay ==
    [][\A p \in Paths : accounts[p] # NoFile =>
          accounts'[p] # NoFile /\ IsPrefix(accounts[p], accounts'[p])]_vars

\* Where a recv of the client waits.
ClientWaits(c) ==
    \/ cpc[c] \in {"reply", "size", "entries"} /\ down[c] = <<>>
    \/ /\ cpc[c] = "entries" /\ Len(down[c]) = 1
       /\ WordAt(down[c][1]) \in {<<"MKDIR">>, <<"FILE">>}
    \/ cpc[c] = "content" /\ Len(down[c]) < expect[c]

\* Where a recv of its process waits; one that has ended does nothing for it, too.
ServerWaits(c) ==
    \/ spc[c] = "exit"
    \/ spc[c] = "command" /\ up[c] = <<>>
    \/ /\ spc[c] = "command"
       /\ \E op \in Commands : /\ WordAt(Head(up[c])) = <<op>>
                               /\ auth[c] \/ op \in EntryCommands
                               /\ Len(up[c]) <= Arguments[op] + IF op = "UPLOAD" THEN 1 ELSE 0
    \/ spc[c] = "body" /\ Len(up[c]) < want[c]

\* The two ends of a connection never wait for each other: neither recv is for
\* bytes the other end has already sent all of (client.c:322-578, server.c:92-472).
NeverBothWait ==
    \A c \in Clients : cpc[c] \notin {"menu", "gone"} => ~ClientWaits(c) \/ ~ServerWaits(c)

\* Whatever a client asks for, it is through with it in the end, unless it is
\* stopped: neither end waits for bytes the other does not send (client.c:322-578).
Answered ==
    \A c \in Clients : cpc[c] \notin {"menu", "gone"} ~> cpc[c] \in {"menu", "gone"}

\* "Check whether the user exists already" (server.c:254): no name is registered
\* twice in one users.txt.
UniqueAccounts ==
    \A p \in Paths : accounts[p] # NoFile =>
        \A i, j \in DOMAIN accounts[p] : accounts[p][i][1] = accounts[p][j][1] => i = j
=============================================================================
