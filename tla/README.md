# A verification development of ChatAppLTM

The repository holds four programs, each a C server with a client over TCP, and
some smaller parts. This directory models all four servers and their clients in
TLA+, checks them with TLC and proves about each of them with TLAPS.

Paths are relative to the root of the repository's sources, shown as `src/`.

## 1. Inventory

| Part | Source | State | Operations | Talks to |
|---|---|---|---|---|
| group server | `src/src/group/server/server.c` | `clients[MAX_CLIENTS]`, `sendings[][]`, the sets of pselect, sockets | the main loop, registration, `CREATE_GROUP` ... `MESSAGE`, disconnect | clients by text lines, MySQL by statements |
| group database | `src/src/create_database.sql`, `src/src/db.c` | tables `users`, `chat_groups`, `group_members` | the INSERT, DELETE and SELECT helpers of the server | the group server, over one connection |
| group client | `src/src/group/client1/client.c` | its place in the menu, sending mode | ten menu choices, waiting for socket or keyboard, texts | group server |
| chat room server | `src/module_chat/chat_module2/server.c` | `clients[]`, `client_count`, `usernames[fd]`, a mutex, descriptors | main, a thread per client, `/chat`, `/exit`, texts | clients by text lines |
| chat room client | `src/module_chat/chat_module2/client.c` | its socket | name, lines, a receiving thread | chat room server |
| file server | `src/module_file/LTM-pj/server1/` | the directory tree, `users.txt`, per process: `authenticated`, working directory | eleven commands in a forked process per client | clients by texts of 1024 bytes and binary contents |
| file client | `src/module_file/LTM-pj/client1/` | `authenticated`, where it is in an exchange | two menus | file server |
| ver2 server | `src/ver2/chatfileapp/server/` | a `Client` (id, name) per thread, one shared MySQL connection with its status, packet counter and unread reply | `REGISTER`, `LOGIN`, `PRIVATE`, `SEND`, `SEARCH`, lists, the group commands, the end of a thread | clients by text lines, MySQL |
| ver2 database | `src/ver2/chatfileapp/db/create_database.sql` | tables `users` (with `online`), `chat_groups`, `group_members` | statements of the ver2 server | the ver2 server |
| ver2 client | `src/ver2/chatfileapp/client/` | its login connection, its chat connection | register or log in, open the chat, connect to port 8086, then to port 8087, where it ends | ver2 server, the group server (port 8086) |
| GUI | `src/src/gui.c` | a login window | draws and reads keys | nothing |
| stubs and tests | `src/client`, `src/server`, `src/tests/test.c` | none | none, or one connection to MySQL | MySQL |

What is hard in each of them, and what makes it correct:

* **Group server.** One thread serves everybody, so one blocking call stops
  everybody; the result of an INSERT cannot be told from its failure; lines that
  arrive together are read as one; CREATE_GROUP is two statements without a
  transaction; slots are never freed; the flags of sending mode outlive the
  memberships they were checked for; the flag matrix is indexed by ids that only
  grow. Correct means: tables stay consistent and roles honest, a socket has one
  owner, a slot answers for one user, texts reach members only, everything that
  arrives is handled.
* **Group client.** It shows one buffer per menu choice, whichever came first, so
  replies lag behind commands, and a SENDING may be read long after it was sent.
  Correct means: the client believes itself in sending mode only while the server
  believes so too.
* **Chat room.** Threads share a list that is shifted, a table indexed by
  descriptor numbers that are given out again, and the address of a variable of
  main. Correct means: one thread per client, nobody missing from the list, names
  that do not move to others, and that whoever goes is noticed.
* **File server.** A protocol without framing: how many texts a command is
  followed by is known to both ends only, and any error path that reads too little
  shifts everything after it. Processes share a directory tree and users.txt
  without locks. Correct means: the streams stay in step, both ends agree on who
  is logged in, files hold one upload, accounts are kept, every request ends.
* **ver2.** Threads share one MySQL connection without a lock, so a reply may
  reach a thread that did not ask; execute_query returns NULL for an INSERT that
  succeeded; a command is several statements, and its later ones use ids found by
  its earlier ones while other threads run in between; a client can be gone, or
  the process dead, between any two of them. Correct means: each thread gets the
  answer to its own statement, acts for the user who logged in, changes only what
  it looked up, and leaves the user offline; a program that is told it was
  admitted has an account.

`PROJECT.json` lists every hazard with its line and the properties about it.

## 2. Modules

| Module | Models |
|---|---|
| `GroupDb` | the three tables, their keys, AUTO_INCREMENT, `mysql_insert_id`, and the statements of the group server as actions. It is the abstract specification the server implements |
| `GroupServer` (extends `GroupDb`) | the group server with any clients as environment: connections, lines, hang-ups, the loop, every handler, crash and restart |
| `GroupSystem` (extends `GroupServer`) | the group server composed with the client programs of the repository |
| `ChatRoom` | the chat room server, its threads, mutex, descriptors, and its clients |
| `Roster` | the abstract specification of the room: who is in it, under which name, and who may put whom out. `ChatRoom` implements it |
| `FileServer` | the file server's processes, the file system, the two byte streams of each connection, and the client's side of every exchange |
| `FileStore` | the abstract specification of the file server for users who keep apart: a map of files, a place for each user, and requests carried out in one step each |
| `Ver2Db` | the tables of ver2; a statement is an operator from tables to tables, and has an answer |
| `Ver2Handlers` (extends `Ver2Db`) | the threads of the ver2 server, its commands, its clients, death and restart, but not how answers come back |
| `Ver2Service` (extends `Ver2Handlers`) | the abstract specification: a statement is one step and its answer goes to the thread that asked |
| `Ver2Server` (extends `Ver2Handlers`) | the same threads over the one connection to MySQL |
| `Ver2System` (extends `Ver2Server`) | the ver2 server composed with client programs and other clients |
| `GroupDbProofs`, `GroupServerProofs`, `GroupSystemProofs`, `ChatRoomProofs`, `FileServerProofs`, `FileStreamProofs`, `Ver2Proofs`, `Ver2SystemProofs` | theorems about them |
| `MCGroupServer`, `MCGroupSystem`, `MCChatRoom`, `MCFileServer`, `MCVer2` | instances for TLC: words, lines and menus of each run |

Definitions whose comment begins with "Mutant" are variations of the definition
below them, as a plausible mistake would have it. No specification uses them; they
show that the properties can fail.

### GroupDb and GroupServer

The variables `users`, `groups`, `members` are sets of rows; `nextUser` and
`nextGroup` are the AUTO_INCREMENT counters, which a refused INSERT advances too,
and `lastInsertId` is what `mysql_insert_id` would return. `get_group_id` returns
the set of at most one id, the smallest of that name, as the C helper takes the
first row. `RejectUser` and `RejectGroup` are INSERTs that a key refuses.

In `GroupServer`, a descriptor is named by its connection; `clients` is the slot
table, `sendings` the set of cells of the matrix that are 1, laid out row after
row as in memory, so that a large group id falls into the row of a later user and
a large user id outside the array (`StrayCells`, of which nothing is known when
they are read). `inbox` holds the one line that has arrived and was not read; a
further line arriving is glued to it (`Glue`, `SayMore`), as one recv takes both and sscanf
looks at the first. `%s` that finds no word leaves its buffer as it was
(`NoWord`, read as any word in `Reading`).

A handler of the code is one action: `CreateGroup`, `JoinGroup`, `AddMember`,
`SendMode`, `RemoveMember`, `LeaveGroup`, `List`, `Message`, `Unknown`,
`Disconnect`; the loop is `Select`, `AcceptClient`, `AcceptWithoutSlot`,
`AcceptFails`, `RegisterUser`, `RegisterDuplicate`, `RegisterInvalid`. `Kill` and
`Restart` are the crash and a new start over the same tables, and
`CreateGroupCutShort` is a crash between the two statements of CREATE_GROUP.
`sent` records what the last step sent to whom; it is what properties about
delivery speak of.

### GroupSystem

The client replaces the environment of `GroupServer`; the server's steps are the
same formulas. `cpc` is where a client stands in client.c (before its
registration, in the menu, waiting after a choice, in sending mode, between its
select and its send there, in a menu whose socket is closed, ended) and `outbox`
what waits in its socket, of which only the beginning counts: is it SENDING?
`Deliver` puts what a server's step sent behind it. The actions are the branches
of client.c: `Introduce`, `Choose`, `ShowAnswer`, `TypeAhead`, `ShowText`,
`TypeText`, `SendText`, `NoticeEnd`, `Quit`.

`SystemSpec` has every interleaving. In one of them client and server lose sight of
each other: between its select and its send the client has seen the keyboard, a
SENDING arrives, and the client, which says EXIT, reads it after its EXIT. `crossed`
is history: the connections this has happened to. It guards no step;
`SendersAreFlagged` speaks of all others.

### ChatRoom

`pc[t]` is where the thread of connection t stands between two points at which
another thread can notice it: before the mutex, before it reads
`new_client_socket` (`start`), before a recv blocks, before close. `sock[t]` is
the descriptor it really serves and `fdTab` the connection behind a descriptor;
the lowest free number is given out. `name`, `wanted` and `target` are its local
variables, `clients` and `usernames` the shared ones. A critical section is one
step.

`Spec` has every interleaving. `PromptSpec` assumes that a new thread has read its
argument before the next accept returns, which nothing in the code enforces: run
`RoomRace` shows what happens otherwise, and everything else about the room
(model-checked or proved) is under this assumption.

`Room == INSTANCE Roster WITH status <- Status, called <- Called, going <- Going` is
the refinement. A client is inside while a descriptor of its own is in `clients`
(`InRoom`), named once its thread has written the name, and going once it has sent
`/exit` or is gone. `Roster` has no step for putting somebody else out, so no reuse
of a number and no shift of the list may look like one.

### FileServer

A stream is a sequence of units: texts of BUFFER_SIZE bytes, sizes of eight
bytes, and blocks of file content. A command is consumed together with its
arguments (`Command`, `Heard`, `Consumed`), since recv only waits for them. An
argument that does not come because the client is gone is whatever the buffer
held (`Leftovers`), as the code does not look at what recv returns there. A
process takes a step per use of the file system: `Register` looks and answers,
`AppendAccount` is the fclose that writes; `UploadOpen` makes the directories above
the file, of which the last may turn out to be a file (`Blocked`, `Unwritable`), and
truncates, `UploadBody` writes; `DownloadOpen` announces the size, `SendContent` sends what is there by
then; `DirOpen`, `DirEntry`, `DirEnd` are send_directory with a stack of the
entries left at each level. A send to a client that is gone may end the process
(SIGPIPE). The client is a state machine over its exchanges (`cpc`), and its menu
offers choices, each a short sequence of exchanges (upload_directory sends many).

Abstractions: files of whole blocks, few enough for stdio to keep until fclose;
no users.txt among the files; paths that only lead down, no longer than
`MaxDepth`; texts that arrive in one piece, as they do on 127.0.0.1, where the
client connects; a client whose own disk takes everything.

`Store == INSTANCE FileStore WITH ...` is the refinement for users who keep apart. A
request is made when it is sent (`Calls`) and carried out when its process has read
it: an upload at fopen, although its content is written only later, so that a file
that is open for writing counts as what will be in it (`StoreOf`, `Taken`); a download when the size is announced, although what
the client will take for content (`Fetched`) is then a calculation over what lies in
the stream and what its process has still open (`Coming`). Everything after is a
stutter until the client has read the answer (`Results`). That the calculation comes
out the same at each of these steps is what the refinement says. The request of a
user who is stopped is carried out, in part or not at all (`PutPart`, `Drop`).

### The ver2 modules

`Ver2Db` holds the tables as one record, so that a statement can be the value of
an expression. An answer is what execute_query returns: NULL, a result without
rows, or one whose first row has a number in it.

The commands of the server differ in their statements and in what each answer
leads to, and in nothing else; `Script` in `Ver2Handlers` says both, read off
main.c, group.c, chat.c and file.c, and `Resume` carries it out: `GoOn`, `LogIn`,
`TryAgain` (main.c:160-162 calls add_member_to_group twice), `Refuse`, `Succeed`,
`FinishSilently`. A thread is before its first line, in its command loop or over
(`stage`), and carries out `work[c]`. A send to a client that is gone draws a
reset, the next one SIGPIPE, which is the end of the process (`Reply`, `Die`).
Words that sscanf does not find are left uninitialised: any word (`Reading`).

In `Ver2Server` execute_query is three steps of the client library: the statement
goes out (`SendStatement`), the head of the reply comes in (`ReadStatus` if there
are no rows, `ReadHead` if there are), and `StoreResult` takes the rows. `wire`
holds the replies nobody has read, `link` the status and `fresh` whether the packet
counter fits. Threads that overlap meet a status that is not theirs (`OutOfSync`)
or a packet that does not fit (`ReadNonsense`), after which the connection is
lost and every later query returns NULL. How the client library behaves is
external to the repository; the model follows its protocol of packets and statuses
under the simplest build, where a thread switch falls between its calls to the
network. `ServerSpec` has every interleaving. `calm` is history: no thread has called
execute_query while another was in it. It guards no step.

`Service == INSTANCE Ver2Service WITH answer <- Answers` is the refinement, in every
interleaving: as long as all is calm, a thread gets the answer to its own statement,
which is on the wire or in `call[c].got`; after that whoever waits or asks may get
anybody's answer (`Mixed`), or be refused (`Refused`).

In `Ver2System` a pair of connections is one run of client main.c: `Open`, `Ask`,
`HearReply`, `HearNothing` (a recv that fails is not looked at), `OpenChat`,
`SendName` (the bare user name, which the server does not know as a command),
`ConnectGroup` and `ConnectFile`. On port 8086 the group server of this repository
may listen (`src/src/group/server/server.c:11`): then the program sends it the user
name, and goes on to port 8087, where nothing listens; handle_error ends it there,
before its menu. If the group server is not running, it ends one step earlier.

## 3. Runs

Every run needs at most a few minutes. Deadlock is not checked, because the
instances are bounded and come to rest when ids, connections or choices are used up.

| Run | Instance | Shows |
|---|---|---|
| `GroupMembership` | two connections, two names, groups 2 and 3, a 3 x 3 matrix, every interleaving | tables consistent (`KeysAndReferences`), admins are creators (`AdminIsCreator`), second groups of a name out of reach (`NamesakesUnreachable`), slots answer for existing users or nobody (`SlotIdsAreUsers`), memberships end only as they should (`MembershipDiscipline`), also over crashes; flags change only by their user, or by the user of an earlier row for a group beyond the matrix (`SendingDiscipline`), texts go to members in sending mode (`DeliveryDiscipline`). Group 3 has the cell of the next user's group 0 |
| `GroupSystem` | two client programs, users with ids 2 and 3, a 3 x 3 matrix, one group, every interleaving | types; who is in sending mode has a flag at the server (`SendersAreFlagged`). User 3 has no row in the matrix |
| `GroupLive` | three connections, two slots, two descriptors, `FairSystem` | lines are read, hang-ups noticed, connections accepted; a socket has one owner (`SocketOwnership`), also when slots and descriptors run out |
| `GroupSilentClient` | two connections, clients may be silent | violated: `LinesAreRead` |
| `Room` | two clients, two descriptors, `FairRoom` | types; one thread per client, nobody missed, names stay; the room implements `Roster` (`RosterSpec`); whoever goes away is noticed (`GoneAreClosed`); accept fails and is repeated |
| `RoomRace` | two clients, `Spec` | violated: `OneThreadPerClient` |
| `Files` | two users, four choices each, `FairFiles` | types; streams in step (`InStep`), logins agree (`LoginAgreement`), never do both ends wait (`NeverBothWait`), files and accounts whole (`FilesAreWhole`, `AccountsStay`), every request is carried out as by one store of files (`StoreSpec`, the refinement), every request ends (`Answered`). One user uploads and downloads `f` and `d/f`, and is refused an empty file where there is a directory; the other makes `g` and moves to `d`, also to log out there and be refused by a server process that looks for users.txt in `d` |
| `FilesDuplicate` | two users, one name | violated: `UniqueAccounts` |
| `Ver2` | a client program that logs in and one other client of the same user, two accounts, one group, every interleaving | types; own answers until statements overlap (`ServiceSpec`, the refinement), and until then own logins (`LoginsAreOwn`), own changes (`ChangesAreOwn`), an account for whoever is admitted (`AdmittedHaveAccount`) |
| `Ver2Live` | the same with registrations and searches, a third name without an account, `FairSystem` | a program is left without a reply only when the server dies (`SilenceMeansDeath`), and ends, however statements overlap (`ProgramsEnd`); deserted users go offline unless they do (`GoneAreOffline`) |
| `Ver2Failures` | the same, without fairness | violated: `RefusedHaveNoAccount` |
| `Ver2Overlap` | the same without registrations | violated: `LoginsAreChecked` |

Bounds. Two users and one or two groups are enough for a creator and another
member, for a namesake and for an id that is not the first; `MaxUserId` and
`MaxGroupId` cap the counters (in the first server registration or creation beyond
them is not explored, in ver2 such an INSERT fails); `FirstUserId` and
`FirstGroupId` move the window up, so that ids at and beyond the end of a row of
the matrix are reached with few users and groups. Three connections at two
slots and two descriptors make the table full and accept fail. With two clients in the
room a number is given out again, and the list is shifted, after one has gone; the safety properties of the room and of sockets are proved for
any number of them. Four choices let one user register, log in, upload and
overwrite, and the other log in, move, log out and be refused. In `Ver2` the program and the other client may be the same user, so
that two threads act for one user, and a third name has no account yet. Connections are symmetric where a run has no liveness property.

Fairness. `FairServer` is weak fairness of the server's own step: one thread,
run by the kernel, that nobody kills (a server that died of SIGPIPE has no slots
left). `FairSystem` adds that a client that connects says its first line or goes
away; without it `LinesAreRead` fails, which is the finding of
`GroupSilentClient`. `FairRoom` is weak fairness of main and of each thread; the
mutex is held for one step, so weak fairness is enough. `FairFiles` is weak
fairness of every process; users choose when they like, or never, and stop their
client when they like. `FairSystem` of `Ver2System` is weak fairness of each thread of
the ver2 server, which waits for no other thread, and of a program once its user has
typed. The process may die of SIGPIPE or be killed at any time and need not come back.

The assumption behind `Files` is in its menus, and TLC evaluates it (`ASSUME
TheyKeepApart`): every user keeps to a directory of its own (`Apart`), where no
file has the name of a directory. From `Apart` it is proved that the disk is used
in an orderly way (`Orderly`): an upload goes where it can be
written (`UploadsFit`), a download sends files (`SendsFiles`), and nobody writes
what another has open (`WritesAlone`). The assumption behind `Room` is `PromptSpec`.
The other passing runs of servers have every interleaving there is (those for
liveness, every fair one). The next section says what the assumptions leave out.

## 4. Divergences

Runs that end in a violation show five; see `findings` in `PROJECT.json` for the
lines. Others were met while modelling, and are in the models, without a run:

* Group: ADD_MEMBER asks neither for role nor membership of the one who adds
  (`server.c:413-440`), while `src/gpt.txt:16` reserves it to the owner. Two
  sends to a client that is gone, before its end of stream is handled, raise
  SIGPIPE and end the server (`BrokenPipe`); so does an accept without a
  descriptor (`AcceptFails`). A registration that the database refuses is
  answered Error and keeps its slot (`server.c:718-735`, `RegisterDuplicate`); its
  user, and whoever registers again after a restart, lives on as id 0 or under the
  id an earlier INSERT left behind. LEAVE_GROUP and REMOVE_MEMBER
  do not lower the sending flag, and MESSAGE looks at nothing else
  (`server.c:556`): who has left a group goes on sending to it. A group id of
  MAX_CLIENTS or more raises a flag in the row of a later user (`SendMode`, `Cell`):
  `SendingDiscipline` names this as its one exception, and `GroupMembership` reaches
  it. A crash between the two INSERTs of CREATE_GROUP leaves a group without an
  admin (`CreateGroupCutShort`).
* Group client: the server knows no LIST_MESSAGES (`server.c:533`), so the choice
  is never answered. An EXIT that arrives glued to an earlier text is no EXIT for
  the server: the client is back in its menu, its flag stays up, and it goes on
  receiving the group's texts in place of replies (`SendText` with `Glue`). An
  EXIT may cross a SENDING on its way (`crossed`, section 2); the client takes itself
  for a sender then, and the server does not.
* Chat room: a client that leaves before it gives its name stays in the list
  (`server.c:88`, `NameMissing`); the target of `/chat` is looked up under the
  mutex and used after it (`server.c:128-143`, `FindTarget` and `Notify`); the
  last character of every name is cut (`server.c:91`, `ReceiveName`).
* File server: a file that is overwritten between the announcement of its size
  and the sending of its content leaves the client waiting, or bytes in the
  stream (`DownloadOpen`, `SendContent`); two uploads of one file can leave the
  end of one behind the other (`OpenForWriting`, `UploadBody`); a refused upload
  leaves its content in the stream (`UploadFails`); DOWNLOAD of a directory
  announces the largest size there is (`Announced`); logging out tells the
  server nothing (`Choose`); END_OF_DIR, at the end of an uploaded directory, is
  an unknown command for the server, since UPLOAD_DIR was never sent (`Unknown`).
  The client's own disk never fails in the model; in the code a local file that
  cannot be opened leaves its announcement behind (`client1/client.c:170`).
* ver2: when statements of two threads do overlap, a thread can be answered with
  somebody else's row: a login with the wrong password is admitted (the finding of
  `Ver2Overlap`), possibly under the id of another user. What `LoginsAreOwn`,
  `ChangesAreOwn` and `AdmittedHaveAccount` say ends there, and without `calm` each of
  them is violated (`LoginsAreOwn` where the two clients log in to two accounts). A program that hears nothing goes on as if it had been admitted
  (`HearNothing`, client `main.c:73`). After
  a restart everybody who was online stays so in the table (`Restart`), and of
  two connections of one user the first to leave puts the user offline while the
  other is served (`go_offline`, `server/src/main.c:113`). What an INSERT returns
  makes every command that ends in one report a failure (the finding of
  `Ver2Failures`).

## 5. Proofs

`tlapm` checks all of them; nothing is assumed but the named ASSUMEs of the
modules (`DbAssumption`, `ServerAssumption`, `SystemAssumption`, `RoomAssumption`,
`FileAssumption`, `Ver2DbAssumption`, `HandlerAssumption`, `ProgramAssumption`), which say that
constants are of their types and that the special values are none of the others.
Theorems about the room and about file streams state a condition on the behaviour
(`NoOvertaking`, `[]Orderly`), which is named with them below; all others are about
every behaviour.

* `GroupDbProofs!DbCorrect`: `DbSpec => []DbInv`, by induction over the
  statements. `DbInv` joins the types with keys and references, roles and
  namesakes: a new group needs `KeysAndReferences` (its id is new, so it has no
  members yet) for `AdminIsCreator`, and that `get_group_id` returns the older
  group for `NamesakesUnreachable`.
* `GroupServerProofs!TypeCorrect`, and on it `ServerImplementsDb`: every step of
  the server is a statement of `GroupDb` or leaves the tables alone. `GroupServer`
  extends `GroupDb`, so the refinement mapping is the identity on the tables and
  hides the rest. `RolesCorrect`, `KeysHold` and `NamesakesStayUnreachable` take
  the invariants of the database over.
* `SocketsOwned`: `SocketOwnership` is not inductive alone. A connection could be
  accepted twice if the queue named it twice, so `SocketInv` adds
  `AcceptQueueOK`.
* `SlotsAnswerForUsers` needs `KeysAndReferences`: what `mysql_insert_id` left
  behind is 0 or a user. `MembershipsProtected` and `DeliveriesProtected` are
  about single steps of any handler.
* `FlagsProtected`: inside the matrix the cell of a user and a group is no other
  pair's cell (`CellsApart`), and the cell of a group beyond it can only be one of a
  later user (`CellBeyond`). That arithmetic is all that stands between a SEND and a
  flag of somebody else.
* `GroupSystemProofs!SystemImplementsServer`: what the clients do is what the
  environment of `GroupServer` may do, so all theorems above hold of the system
  (`SystemInherits`). `SendersFlagged` rests on `SendersInv`, which adds to the
  types, `SocketInv` and `DbInv` that only a client with a slot hears from the server
  (`ServedOnly`), that a newcomer has nothing under way (`NewcomersWait`), and
  that, while a client is in sending mode or has a SENDING to read, its flag stands and
  no EXIT of it is on its way (`FlagStands`). There a client between its select and its
  send counts as a sender too: the server's steps in this gap do no harm, and only the
  client's own EXIT may cross a SENDING.
* `ChatRoomProofs`: `IInv` joins `RoomTypeOK`, `Owners`, `NobodyIsMissed` and
  `NamesStay`. `Owners` adds to `OneThreadPerClient` the hand-over from main to a
  new thread (`Handover`): while a thread has not started, `newSock` is its
  descriptor and nobody else's. That is what `NoOvertaking` is needed for: no step of a behaviour is
  an accept before the thread created last has read its argument. `Spec` and
  `NoOvertaking` are together `PromptSpec`, and all theorems about the room state them.
  `RoomRace` shows that the condition cannot go.
  `NobodyIsMissed` needs it because only the owner of a descriptor removes it from
  the list, and `NamesStay` because only it writes `usernames` there. From `IInv`
  follow `RoomTypes`, `ThreadsOwnTheirSockets`, `EverybodyHears`, `NamesAreStable`.
* `ChatRoomProofs!RoomImplementsRoster`: `RosterInv` adds to `IInv` that a thread
  which is about to take its client out of the list serves one that has said so or
  is gone (`Willing`), and that no thread outlives the process (`Ended`). Then
  `AddClient` is `Enter`, `SaveName` is `Introduce`, `remove_client` is `Leave` of
  the client it was called for and of nobody else, the death of the process is
  `CloseDown`, and everything else stutters.
* `FileServerProofs`: `TypeInv` joins `FileTypeOK` with `Opened`, that a process
  about to write its line has opened a users.txt in its directory. The types are
  inductive because a directory stays one and so does a file: a process that waits
  for the content of an upload stands on a file, whatever other processes make,
  overwrite or enter meanwhile. `AccountsStay` follows from it, since only such a
  process adds a line, and at the end of what is there (`AccountsAreKept`).
* `FileStreamProofs` is about the two byte streams of a connection, which nothing
  delimits: whether a byte is a command, a size or content depends on where both
  ends believe to be. `StreamInv` says, for every pair of places where a client
  and its process can stand, what lies between them (`Together`), whom the server
  has admitted (`Admitted`), and what a process keeps when it is done (`Tidied`);
  `FilesAreWhole` has to come with it, since the announced size is that of a
  whole file. Downloads of a directory need the positions at which an entry or
  the end begins in what is on its way (the marks), because many files can be
  under way at once. `StreamsInStep`, `LoginsAgree`, `FilesStayWhole` and
  `EndsNeverBothWait` follow from it for every behaviour that stays `Orderly`.
  `InStep` lets an empty file be announced and not yet sent: there is nothing to
  read, and its process may be a step behind.
* `ApartIsOrderly` shows where `Orderly` comes from: if users keep apart, then
  every file and directory but the root lies in the directory of one user
  (`TreeIn`), and every process stands in one of its own (`PlaceOf`). `ApartIsWell`
  puts both together: the assumption is then one on what users type, and on
  nothing the server does.
* `FilesImplementStore`, also in `FileStreamProofs`, and `ApartIsServed` for users who
  keep apart. It is by `StreamInv` before and after each step, in three parts: what a
  step leaves to everybody else (`OthersView`, `FileStays`), which rests on
  `WritesAlone`; what a client takes from a stream it has read one more unit of
  (`BringsOn`); and one lemma per action that is seen (`RequestAsks`, `KillStops`,
  `OpenSeen`, `GetSeen`, `MoveSeen`, `LookSeen`, `FinishReturns`) or not
  (`ChooseUnseen`, `WriteUnseen`, `SendUnseen`, `WalkUnseen`, `QuietUnseen`).
  `TakenIs` is why an upload may count as carried out at fopen: what its process has
  before it is all that was asked for, or the beginning of it when the client is gone.
* `Ver2Proofs!TypeCorrect` and all that follows hold for every interleaving.
  `ServerImplementsService` is by `CalmInv`: the types, and, as long as all is calm,
  `Tidy`: at most one thread is inside a statement,
  and then either exactly its reply is on the wire, unread and with a packet
  number that fits, or the thread has it and its rows are pending; otherwise the
  connection is idle. Then `SendStatement` is `Execute` of the service, a returning
  call is `GetAnswer`, and `ReadHead` stutters. A thread that comes in while another is
  inside ends the calm, in the same step in both specifications; from then on
  `OutOfSync` is `Refused`, and whatever a call returns is one of the answers the
  service may give.
* `LoginsOwn` and `ChangesOwn` are about what happens between two statements, as
  long as all is calm.
  `LoginInv` adds that the answer a login waits for is honest: the row it names
  has the name and the password asked for, and no statement changes those.
  `ChangesOwn` adds that the ids a command carries are those of the names it was
  given (`LookedUp`), that an answer on its way is still true when it is used
  (`True`), and that AUTO_INCREMENT is ahead of every row (`Ahead`), so that a new
  row has an id nobody looked up: users and groups are never removed or renamed.
* `Ver2SystemProofs!SystemIsServer`: the programs are clients of the server, so its
  theorems hold of the system, kills and restarts included. `AdmittedHaveOne` follows
  the first line of a program through the server (`Follows`): what its user typed is in
  the inbox or is what the thread works on, and, as long as all is calm, a thread that
  has told it Success has found an account.

Only model-checked: everything temporal under fairness, which is out of the
prover's reach (`LinesAreRead`, `HangUpsAreNoticed`, `ConnectionsAreAccepted`,
`GoneAreClosed`, `Answered`, `GoneAreOffline`, `ProgramsEnd`), and the action
property `SilenceMeansDeath`. Every other property
of a passing run is a theorem.

## 6. Not modelled, and what is left

Not modelled:

* the GUI, the stubs and the test program (no state, or none that anybody shares);
* of ver2: the client beyond its connect to port 8087 (`client/src/main.c:158-369`,
  `group.c`, `file.c`, the rest of `chat.c`), because with the servers of the
  repository it is never reached; what the group server does with the bare user name
  it is sent, which is no REGISTER to it; `upload_file`, `download_file` and
  `list_group_messages` of the server, which have no caller;
* `broadcast_message` of the group server (no caller) and `receive_directory` of
  the file server (no client sends UPLOAD_DIR);
* the tables `messages` and `files`: nothing that runs reads the first in ver2 or
  fills it in the group server, and nothing fills the second;
* MySQL failures other than refused keys, descriptor and process limits but for
  accept, thread creation that fails;
* the layout of lists and replies, what a text says, passwords and emails but as
  values that are compared; SQL built from what users type is taken as the
  statement it is meant to be.

What is left: users who share files. `FileServer` has them (any menus may be given),
but what a store promises them then is weaker, section 4 says in which ways, and no
specification states it yet. Likewise a file client whose own disk fails, and ver2
after statements have overlapped, of which the types are proved, that programs end is
checked, and `Ver2Service` says no more than that anything may be answered.
