---------------------------- MODULE MCGroupServer ----------------------------
(* Instances of GroupServer for TLC: the words and lines of each run. *)
EXTENDS GroupServer, TLC

Cmd1(op, w)    == [op |-> op, w1 |-> w, w2 |-> NoWord]
Cmd2(op, v, w) == [op |-> op, w1 |-> v, w2 |-> w]
Bare(op)       == Cmd1(op, NoWord)

Hello(name, email) == Cmd2("REGISTER", name, email)

\* ann and bob, each with an address of their own.  Whoever says so again is
\* refused by the database.
AnnBob  == {Hello("ann", "a@x"), Hello("bob", "b@x")}
JustAnn == {Hello("ann", "a@x")}
ShortWords == {"ann", "bob", "a@x", "b@x", "room", "hi", Exit, Garbled}

\* A group with its members, and what its members do in it.  A text that is no
\* EXIT comes of an EXIT another line is glued to.
MembershipLines ==
    {Cmd1(op, "room") : op \in {"CREATE_GROUP", "LEAVE_GROUP", "SEND"}}
      \cup {Cmd2("ADD_MEMBER", "room", "bob"), Cmd2("REMOVE_MEMBER", "room", "bob")}
      \cup {Cmd1("MESSAGE", Exit)}

\* Lines that change nothing: what is left is sockets and slots.
IdleLines == {Bare("LIST_USERS"), Cmd1("LIST_GROUP_MESSAGES", "room"), Bare("OTHER")}

\* The same, and what is said of a group before there is one.
LiveLines == IdleLines \cup {Cmd1("JOIN_GROUP", "room"), Bare("LIST_GROUPS")}

ConnSymmetry == Permutations(Conns)
=============================================================================
