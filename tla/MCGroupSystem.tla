---------------------------- MODULE MCGroupSystem ----------------------------
(* Instances of GroupSystem for TLC: what the users type. *)
EXTENDS GroupSystem, TLC

Cmd1(op, w)    == [op |-> op, w1 |-> w, w2 |-> NoWord]
Cmd2(op, v, w) == [op |-> op, w1 |-> v, w2 |-> w]
Bare(op)       == Cmd1(op, NoWord)

AnnBob == {Cmd2("REGISTER", "ann", "a@x"), Cmd2("REGISTER", "bob", "b@x")}

ShortWords == {"ann", "bob", "a@x", "b@x", "room", "hi", Exit, Garbled}

\* Two users found and join a group, enter and leave sending mode, and chat.
TypedLines ==
    {Cmd1(op, "room") : op \in {"CREATE_GROUP", "JOIN_GROUP", "SEND"}}
      \cup {Cmd1("MESSAGE", "hi"), Cmd1("MESSAGE", Exit)}

ConnSymmetry == Permutations(Conns)
=============================================================================
