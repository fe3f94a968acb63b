------------------------------ MODULE MCChatRoom ------------------------------
(* Instances of ChatRoom for TLC. *)
EXTENDS ChatRoom, TLC

ShortWords == {"ann", "an", "bob", "bo", "", "garbled", "garble"}
CutOff == [w \in ShortWords |->
    CASE w = "ann" -> "an" [] w = "bob" -> "bo" [] w = "garbled" -> "garble"
      [] OTHER -> ""]

AnnBob  == {"ann", "bob"}
Typists == {"ann", ""}

Text     == [op |-> "text", w |-> ""]
Exit     == [op |-> "exit", w |-> ""]
Chat(w)  == [op |-> "/chat", w |-> w]

AllChats  == {Text, Exit, Chat("an")}
JustTalk  == {Text, Exit}

ConnSymmetry == Permutations(Conns)
=============================================================================
