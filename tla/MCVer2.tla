-------------------------------- MODULE MCVer2 --------------------------------
(* Instances of Ver2System for TLC. *)
EXTENDS Ver2System, TLC

CONSTANTS c1, c2, c3

Cmd(op, v, w, x) == [op |-> op, w1 |-> v, w2 |-> w, w3 |-> x]
Cmd1(op, w)    == Cmd(op, w, NoWord, NoWord)
Cmd2(op, v, w) == Cmd(op, v, w, NoWord)

ShortWords == {"ann", "bob", "cat", "p", "q", "room", Garbled}

\* ann and bob have accounts already; cat may get one.
OldUser(n, who, word) ==
    [id |-> n, name |-> who, password |-> word, email |-> who, online |-> FALSE]
AnnBob == {OldUser(1, "ann", "p"), OldUser(2, "bob", "q")}

OneProgram == {<<c1, c2>>}

\* What the user of the program types: the right password and a wrong one, or
\* also a registration.
Logins   == {Cmd2("LOGIN", "ann", "p"), Cmd2("LOGIN", "ann", "q")}
CatOrAnn == Logins \cup {Cmd("REGISTER", "cat", "q", "cat")}

\* What another client of ann sends: a group with its members, or a search,
\* whose answer is two sends.
GroupLines ==
    {Cmd2("LOGIN", "ann", "p"), Cmd1("CREATE_GROUP", "room"),
     Cmd2("ADD_MEMBER", "room", "ann")}
SearchLines == {Cmd2("LOGIN", "ann", "p"), Cmd1("SEARCH", NoWord)}

AllLines == GroupLines \cup SearchLines
              \cup CatOrAnn \cup {NameLine(line) : line \in CatOrAnn}
=============================================================================
