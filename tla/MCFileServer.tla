----------------------------- MODULE MCFileServer -----------------------------
(* Instances of FileServer for TLC: two users and what their menus may be    *)
(* asked to do.                                                              *)
EXTENDS FileServer, TLC

CONSTANTS c1, c2

Do(op, args)        == [op |-> op, args |-> args, content |-> <<>>]
Upload(p, content)  == [op |-> "UPLOAD", args |-> <<p>>, content |-> content]
LoggedOut(xs)       == [auth |-> FALSE, do |-> xs]
LoggedIn(xs)        == [auth |-> TRUE, do |-> xs]

Registering(user) == LoggedOut(<<Do("Register", <<<<user>>, <<"pw">>>>)>>)
LoggingIn(user)   == LoggedOut(<<Do("Login", <<<<user>>, <<"pw">>>>)>>)

Logout == LoggedIn(<<>>)

D  == <<"d">>
F  == <<"f">>
DF == <<"d", "f">>
G  == <<"g">>

\* What the buffer of a missing argument holds.
Stale == {D}

\* c1 transfers: two versions of one file, a directory with one more, and an
\* empty file that is refused when its name is that of a directory.
Transfers ==
    {LoggedIn(<<Upload(F, <<"v", "v">>)>>), LoggedIn(<<Upload(F, <<"w">>)>>),
     LoggedIn(<<Do("SEARCH", <<F>>), Do("DOWNLOAD", <<F>>)>>),
     LoggedIn(<<Upload(DF, <<"v">>), Do("END_OF_DIR", <<>>)>>),
     LoggedIn(<<Upload(G, <<>>)>>), LoggedIn(<<Do("LIST", <<>>)>>),
     LoggedIn(<<Do("DOWNLOAD_DIR", <<D>>)>>)}

\* c2 makes directories and moves about.
Moves == {LoggedIn(<<Do("MKDIR", <<G>>)>>), LoggedIn(<<Do("CD", <<D>>)>>), Logout}

\* c2 registers, too, but logs in to the account c1 registers: four choices are
\* enough to log in, move, log out, and be refused in the other directory.
TransferAndMove ==
    (c1 :> ({Registering("ann"), LoggingIn("ann")} \cup Transfers))
      @@ (c2 :> ({Registering("bob"), LoggingIn("ann")} \cup Moves))

\* Both register the same name.
SameName == [c \in Clients |-> {Registering("ann"), LoggingIn("ann")}]

\* The users of both menus keep apart: directories are called d and g, and files
\* with something in them f.
ASSUME TheyKeepApart == Apart(SeqOf({"d", "g"}, MaxDepth))
=============================================================================
