--------------------------- MODULE FileStreamProofs ---------------------------
(***************************************************************************)
(* The two ends of each connection of the file server stay in step, agree  *)
(* on the login and never both wait, and files stay whole, as long as      *)
(* uploads go where they can be written and nobody writes what another has *)
(* open; each request is then carried out as by one store of files.  All   *)
(* of it for any number of clients, menus, names, blocks and any tree.     *)
(***************************************************************************)
EXTENDS FileServerProofs

-----------------------------------------------------------------------------
(* Sequences. *)

\* The rest of a sequence, item by item.
LEMMA Rest ==
    ASSUME NEW S, NEW s \in Seq(S), NEW n \in Nat
    PROVE  LET t == SubSeq(s, n + 1, Len(s))
           IN /\ t \in Seq(S)
              /\ n <= Len(s) => Len(t) = Len(s) - n
              /\ n >= Len(s) => t = <<>>
              /\ \A i \in 1..Len(t) : t[i] = s[i + n]
  OBVIOUS

\* Something put at the end.
LEMMA Joined ==
    ASSUME NEW S, NEW s \in Seq(S), NEW t \in Seq(S)
    PROVE  /\ s \o t \in Seq(S) /\ Len(s \o t) = Len(s) + Len(t)
           /\ \A i \in 1..Len(s) : (s \o t)[i] = s[i]
           /\ \A i \in 1..Len(t) : (s \o t)[i + Len(s)] = t[i]
  OBVIOUS

\* Nothing put at either end.
LEMMA EmptyJoined ==
    ASSUME NEW S, NEW t \in Seq(S)
    PROVE  <<>> \o t = t /\ t \o <<>> = t
  OBVIOUS

\* After the only item.
LEMMA LastOne ==
    ASSUME NEW S, NEW s \in Seq(S), Len(s) = 1
    PROVE  Tail(s) = <<>> /\ SubSeq(s, 1 + 1, Len(s)) = <<>>
<1>1. Tail(s) \in Seq(S) /\ Len(Tail(s)) = 0
  OBVIOUS
<1>2. SubSeq(s, 1 + 1, Len(s)) = <<>>
  BY Rest
<1>3. \A t \in Seq(S) : Len(t) = 0 => t = <<>>
  OBVIOUS
<1> QED
  BY <1>1, <1>2, <1>3

\* A prefix, item by item.
LEMMA PrefixItems ==
    ASSUME NEW S, NEW s \in Seq(S), NEW t \in Seq(S)
    PROVE  IsPrefix(s, t) <=> Len(s) <= Len(t) /\ \A i \in 1..Len(s) : s[i] = t[i]
<1>1. ASSUME Len(s) <= Len(t)
      PROVE  SubSeq(s, 1, Len(s)) = s /\ SubSeq(t, 1, Len(s)) \in Seq(S)
             /\ Len(SubSeq(t, 1, Len(s))) = Len(s)
             /\ \A i \in 1..Len(s) : SubSeq(t, 1, Len(s))[i] = t[i]
  BY <1>1
<1>2. ASSUME Len(s) <= Len(t), \A i \in 1..Len(s) : s[i] = t[i]
      PROVE  s = SubSeq(t, 1, Len(s))
  BY <1>1, <1>2
<1> QED
  BY <1>1, <1>2 DEF IsPrefix

\* One-letter words and texts are told apart by what they say.
LEMMA Letters ==
    /\ \A a, b : <<a>> = <<b>> => a = b
    /\ \A v, w : Text(v) = Text(w) => v = w
    /\ \A w : WordAt(Text(w)) = w /\ Text(w).k = "text" /\ Text(w).w = w
    /\ \A n : SizeAt(Size(n)) = n /\ Size(n).k = "size" /\ Size(n).n = n
    /\ \A v : BlockAt(Block(v)) = v /\ Block(v).k = "block"
<1>1. ASSUME NEW a, NEW b, <<a>> = <<b>> PROVE a = b
  <2>1. <<a>>[1] = a /\ <<b>>[1] = b
    OBVIOUS
  <2> QED
    BY <1>1, <2>1
<1>2. ASSUME NEW v, NEW w, Text(v) = Text(w) PROVE v = w
  <2>1. Text(v).w = v /\ Text(w).w = w
    BY DEF Text
  <2> QED
    BY <1>2, <2>1
<1> QED
  BY <1>1, <1>2 DEF Text, WordAt, Size, SizeAt, Block, BlockAt

-----------------------------------------------------------------------------
(* Streams to a client. *)

Downloads == {"DOWNLOAD", "DOWNLOAD_DIR"}

\* The exchange c is at.
Now(c) == Head(todo[c])

\* What is announced in s before position i comes from there: it is in the
\* stream up to a mark, or all of it is still to be sent, as much as the file has.
ContentAt(s, i, n, marks, place, size) ==
    \/ i + n \in marks
    \/ place = "content" /\ i = Len(s) + 1 /\ n = size

SizeAtMark(s, i, marks, place, size) ==
    /\ i <= Len(s) /\ s[i].k = "size"
    /\ ContentAt(s, i + 1, s[i].n, marks, place, size)

\* What can stand at a mark in the rest s of the answer to op: its end, or an
\* entry of a directory with the next mark behind it.
MarkOK(op, s, i, marks, place, size) ==
    \/ /\ i = Len(s) + 1
       /\ \/ place = IF op = "DOWNLOAD" THEN "command" ELSE "walk"
          \/ place = "content" /\ size = 0
    \/ /\ op = "DOWNLOAD_DIR" /\ i <= Len(s)
       /\ \/ s[i] = Text(<<"MKDIR">>) /\ i + 1 <= Len(s) /\ i + 2 \in marks
          \/ s[i] = Text(<<"FILE">>) /\ SizeAtMark(s, i + 2, marks, place, size)
          \/ s[i] = Text(<<"END_OF_DIR">>) /\ i = Len(s) /\ place = "command"

Marked(op, s, marks, place, size) ==
    /\ marks \subseteq 1..(Len(s) + 1)
    /\ \A i \in marks : MarkOK(op, s, i, marks, place, size)

SizeOf(c) == Len(data[path[c]])

\* What is in the stream to a client that waits for the answer.
FirstAnswer(c) ==
    LET op == Now(c).op
        s  == down[c]
    IN /\ s # <<>>
       /\ op \notin Downloads =>
             /\ Len(s) = 1 /\ spc[c] \in {"command", "append"}
             /\ op = "Login" /\ AcceptsLogin(WordAt(s[1])) => auth[c]
       /\ op = "DOWNLOAD" =>
             IF WordAt(s[1]) = <<"FileNotFound">>
             THEN Len(s) = 1 /\ spc[c] = "command"
             ELSE \E marks \in SUBSET (1..(Len(s) + 1)) :
                     /\ Marked(op, s, marks, spc[c], SizeOf(c))
                     /\ SizeAtMark(s, 2, marks, spc[c], SizeOf(c))
       /\ op = "DOWNLOAD_DIR" =>
             IF WordAt(s[1]) = <<"DirectoryNotFound">>
             THEN Len(s) = 1 /\ spc[c] = "command"
             ELSE \E marks \in SUBSET (1..(Len(s) + 1)) :
                     Marked(op, s, marks, spc[c], SizeOf(c)) /\ 2 \in marks

\* What follows the first answer of a download.
LaterAnswer(c) ==
    /\ Now(c).op \in Downloads
    /\ \E marks \in SUBSET (1..(Len(down[c]) + 1)) :
          /\ Marked(Now(c).op, down[c], marks, spc[c], SizeOf(c))
          /\ cpc[c] = "size" => SizeAtMark(down[c], 1, marks, spc[c], SizeOf(c))
          /\ cpc[c] = "content" => ContentAt(down[c], 1, expect[c], marks, spc[c], SizeOf(c))
          /\ cpc[c] = "entries" => Now(c).op = "DOWNLOAD_DIR" /\ 1 \in marks

\* Reading what is before position n + 1 moves the marks, and where the content
\* that is awaited begins.
LEMMA MarksMove ==
    ASSUME NEW op, NEW s \in Seq(Unit), NEW n \in 0..Len(s), NEW marks \in SUBSET Nat,
           NEW place, NEW size \in Nat, Marked(op, s, marks, place, size)
    PROVE  LET t == SubSeq(s, n + 1, Len(s))
               moved == {i \in 1..(Len(t) + 1) : i + n \in marks}
           IN /\ Marked(op, t, moved, place, size)
              /\ n + 1 \in marks => 1 \in moved
              /\ \A i \in 1..(Len(t) + 1), k \in Nat :
                    ContentAt(s, i + n, k, marks, place, size)
                       => ContentAt(t, i, k, moved, place, size)
              /\ \A i \in 1..(Len(t) + 1) :
                    SizeAtMark(s, i + n, marks, place, size)
                       => SizeAtMark(t, i, moved, place, size)
              /\ moved \in SUBSET (1..(Len(t) + 1))
<1> DEFINE t == SubSeq(s, n + 1, Len(s))
           moved == {i \in 1..(Len(t) + 1) : i + n \in marks}
<1>1. /\ t \in Seq(Unit) /\ Len(t) = Len(s) - n /\ Len(s) \in Nat /\ n \in Nat
      /\ \A i \in 1..Len(t) : t[i] = s[i + n] /\ i + n \in 1..Len(s)
  BY Rest
<1>2. marks \subseteq 1..(Len(s) + 1)
  BY DEF Marked
<1>3. \A i \in 1..(Len(t) + 1) : i \in moved <=> i + n \in marks
  OBVIOUS
<1>4. \A i \in Nat \ {0} : i + n \in marks => i \in moved
  BY <1>1, <1>2
<1> HIDE DEF t, moved
<1>5. ASSUME NEW i \in Nat \ {0}, NEW k \in Nat, ContentAt(s, i + n, k, marks, place, size)
      PROVE  ContentAt(t, i, k, moved, place, size)
  <2>1. i + n + k = (i + k) + n /\ i + k \in Nat \ {0}
    BY <1>1
  <2> QED
    BY <1>1, <1>4, <1>5, <2>1 DEF ContentAt
<1>6. ASSUME NEW i \in Nat \ {0}, SizeAtMark(s, i + n, marks, place, size)
      PROVE  SizeAtMark(t, i, moved, place, size)
  <2>1. i \in 1..Len(t) /\ t[i] = s[i + n] /\ t[i].k = "size"
    BY <1>1, <1>6 DEF SizeAtMark
  <2>2. t[i].n \in Nat
    BY <1>1, <2>1 DEF Unit
  <2>3. ContentAt(s, (i + 1) + n, t[i].n, marks, place, size)
    BY <1>1, <1>6, <2>1 DEF SizeAtMark
  <2> QED
    BY <1>5, <2>1, <2>2, <2>3 DEF SizeAtMark
<1>7. ASSUME NEW i \in moved PROVE MarkOK(op, t, i, moved, place, size)
  <2>1. i \in 1..(Len(t) + 1) /\ i + n \in marks
    BY <1>7 DEF moved
  <2>2. MarkOK(op, s, i + n, marks, place, size)
    BY <2>1 DEF Marked
  <2>3. CASE i + n = Len(s) + 1
    BY <1>1, <2>1, <2>2, <2>3 DEF MarkOK
  <2>4. CASE i + n # Len(s) + 1
    <3>1. i \in 1..Len(t) /\ t[i] = s[i + n]
      BY <1>1, <2>1, <2>4
    <3>2. i + n + 1 = (i + 1) + n /\ i + n + 2 = (i + 2) + n
          /\ i + 1 \in Nat \ {0} /\ i + 2 \in Nat \ {0}
      BY <1>1, <2>1
    <3>3. CASE /\ s[i + n] = Text(<<"MKDIR">>) /\ i + n + 1 <= Len(s)
               /\ i + n + 2 \in marks
      <4>1. i + 2 \in moved
        BY <1>4, <3>2, <3>3
      <4>2. i + 1 <= Len(t) /\ i <= Len(t) /\ t[i] = Text(<<"MKDIR">>)
        BY <1>1, <3>1, <3>3
      <4>3. op = "DOWNLOAD_DIR"
        BY <2>2, <2>4 DEF MarkOK
      <4> QED
        BY <4>1, <4>2, <4>3 DEF MarkOK
    <3>4. CASE /\ s[i + n] = Text(<<"FILE">>)
               /\ SizeAtMark(s, i + n + 2, marks, place, size)
      <4>1. SizeAtMark(t, i + 2, moved, place, size)
        BY <1>6, <3>2, <3>4
      <4> QED
        BY <2>2, <2>4, <3>1, <3>4, <4>1 DEF MarkOK
    <3>5. CASE /\ s[i + n] = Text(<<"END_OF_DIR">>) /\ i + n = Len(s)
               /\ place = "command"
      <4>1. i = Len(t) /\ t[i] = Text(<<"END_OF_DIR">>)
        BY <1>1, <3>1, <3>5
      <4>2. op = "DOWNLOAD_DIR"
        BY <2>2, <2>4 DEF MarkOK
      <4> QED
        BY <1>1, <3>5, <4>1, <4>2 DEF MarkOK
    <3> QED
      BY <2>2, <2>4, <3>3, <3>4, <3>5 DEF MarkOK
  <2> QED
    BY <2>3, <2>4
<1>8. moved \subseteq 1..(Len(t) + 1)
  BY DEF moved
<1>9. Marked(op, t, moved, place, size)
  BY <1>7, <1>8 DEF Marked
<1>10. n + 1 \in marks => 1 \in moved
  BY <1>4
<1> QED
  BY <1>5, <1>6, <1>8, <1>9, <1>10 DEF t, moved

\* Where no content is awaited, the size of the file does not matter.
LEMMA MarksOfAnySize ==
    ASSUME NEW op, NEW s, NEW marks, NEW place, place # "content", NEW size, NEW other
    PROVE  /\ Marked(op, s, marks, place, size) <=> Marked(op, s, marks, place, other)
           /\ \A i : SizeAtMark(s, i, marks, place, size)
                       <=> SizeAtMark(s, i, marks, place, other)
           /\ \A i, n : ContentAt(s, i, n, marks, place, size)
                          <=> ContentAt(s, i, n, marks, place, other)
<1>1. \A i, n : ContentAt(s, i, n, marks, place, size)
                  <=> ContentAt(s, i, n, marks, place, other)
  BY DEF ContentAt
<1>2. \A i : SizeAtMark(s, i, marks, place, size) <=> SizeAtMark(s, i, marks, place, other)
  BY <1>1 DEF SizeAtMark
<1>3. \A i : MarkOK(op, s, i, marks, place, size) <=> MarkOK(op, s, i, marks, place, other)
  BY <1>2 DEF MarkOK
<1> QED
  BY <1>1, <1>2, <1>3 DEF Marked

\* Sending the content that was announced.
LEMMA MarksSent ==
    ASSUME NEW op, NEW s \in Seq(Unit), NEW t \in Seq(Unit), NEW marks \in SUBSET Nat,
           Marked(op, s, marks, "content", Len(t)),
           NEW place, place = IF op = "DOWNLOAD" THEN "command" ELSE "walk",
           NEW size
    PROVE  LET more == marks \cup {Len(s) + Len(t) + 1}
           IN /\ Marked(op, s \o t, more, place, size)
              /\ \A i : SizeAtMark(s, i, marks, "content", Len(t)) /\ i \in Nat \ {0}
                          => SizeAtMark(s \o t, i, more, place, size)
              /\ \A i, n : ContentAt(s, i, n, marks, "content", Len(t))
                             => ContentAt(s \o t, i, n, more, place, size)
<1> DEFINE u == s \o t
           more == marks \cup {Len(s) + Len(t) + 1}
<1>1. /\ u \in Seq(Unit) /\ Len(u) = Len(s) + Len(t) /\ Len(s) \in Nat /\ Len(t) \in Nat
      /\ \A i \in 1..Len(s) : u[i] = s[i]
  BY Joined
<1>2. Len(u) + 1 = Len(s) + Len(t) + 1 /\ Len(s) + 1 + Len(t) = Len(u) + 1
  BY <1>1
<1>3. marks \subseteq 1..(Len(s) + 1)
  BY DEF Marked
<1> HIDE DEF u
<1>4. /\ more \subseteq 1..(Len(u) + 1) /\ Len(u) + 1 \in more /\ marks \subseteq more
      /\ Len(s) + 1 + Len(t) \in more
  <2>1. Len(u) + 1 \in 1..(Len(u) + 1) /\ 1..(Len(s) + 1) \subseteq 1..(Len(u) + 1)
    BY <1>1
  <2>2. more = marks \cup {Len(u) + 1}
    BY <1>2
  <2> QED
    BY <1>2, <1>3, <2>1, <2>2
<1>5. \A i \in more : i \in marks \/ i = Len(u) + 1
  BY <1>2
<1> HIDE DEF more
<1>6. ASSUME NEW i, NEW n, ContentAt(s, i, n, marks, "content", Len(t))
      PROVE  ContentAt(u, i, n, more, place, size)
  <2>1. CASE i + n \in marks
    BY <1>4, <2>1 DEF ContentAt
  <2>2. CASE i = Len(s) + 1 /\ n = Len(t)
    BY <1>4, <2>2 DEF ContentAt
  <2> QED
    BY <1>6, <2>1, <2>2 DEF ContentAt
<1>7. ASSUME NEW i \in Nat \ {0}, SizeAtMark(s, i, marks, "content", Len(t))
      PROVE  SizeAtMark(u, i, more, place, size)
  <2>1. i \in 1..Len(s) /\ i <= Len(u) /\ u[i] = s[i]
    BY <1>1, <1>7 DEF SizeAtMark
  <2> QED
    BY <1>6, <1>7, <2>1 DEF SizeAtMark
<1>8. ASSUME NEW i \in marks PROVE MarkOK(op, u, i, more, place, size)
  <2>1. MarkOK(op, s, i, marks, "content", Len(t)) /\ i \in 1..(Len(s) + 1)
    BY <1>3, <1>8 DEF Marked
  <2>2. CASE i = Len(s) + 1 /\ Len(t) = 0
    BY <1>1, <1>2, <2>2 DEF MarkOK
  <2>3. CASE /\ op = "DOWNLOAD_DIR" /\ i <= Len(s) /\ s[i] = Text(<<"MKDIR">>)
             /\ i + 1 <= Len(s) /\ i + 2 \in marks
    BY <1>1, <1>4, <2>1, <2>3 DEF MarkOK
  <2>4. CASE /\ op = "DOWNLOAD_DIR" /\ i <= Len(s) /\ s[i] = Text(<<"FILE">>)
             /\ SizeAtMark(s, i + 2, marks, "content", Len(t))
    <3>1. SizeAtMark(u, i + 2, more, place, size)
      BY <1>7, <2>1, <2>4
    <3>2. i <= Len(u) /\ u[i] = s[i]
      BY <1>1, <2>1, <2>4
    <3> QED
      BY <2>4, <3>1, <3>2 DEF MarkOK
  <2> QED
    BY <2>1, <2>2, <2>3, <2>4 DEF MarkOK
<1>9. Marked(op, u, more, place, size)
  <2>1. MarkOK(op, u, Len(u) + 1, more, place, size)
    BY DEF MarkOK
  <2> QED
    BY <1>4, <1>5, <1>8, <2>1 DEF Marked
<1> QED
  BY <1>6, <1>7, <1>9 DEF u, more

\* Sending an entry of a directory, or its end, keeps the marks, if the entry
\* is one.
LEMMA MarksGrow ==
    ASSUME NEW s \in Seq(Unit), NEW t \in Seq(Unit), NEW marks \in SUBSET Nat,
           NEW size, Marked("DOWNLOAD_DIR", s, marks, "walk", size),
           NEW more \in SUBSET Nat, marks \subseteq more,
           more \subseteq marks \cup {Len(s) + 1, Len(s) + Len(t) + 1},
           NEW place, NEW other,
           \A i \in more \ 1..Len(s) :
               MarkOK("DOWNLOAD_DIR", s \o t, i, more, place, other),
           Len(s) + 1 \in marks => Len(s) + 1 \in more
    PROVE  /\ Marked("DOWNLOAD_DIR", s \o t, more, place, other)
           /\ \A i : SizeAtMark(s, i, marks, "walk", size) /\ i \in Nat \ {0}
                       => SizeAtMark(s \o t, i, more, place, other)
           /\ \A i, n : ContentAt(s, i, n, marks, "walk", size)
                          => ContentAt(s \o t, i, n, more, place, other)
<1> DEFINE u == s \o t
<1>1. /\ u \in Seq(Unit) /\ Len(u) = Len(s) + Len(t) /\ Len(s) \in Nat /\ Len(t) \in Nat
      /\ \A i \in 1..Len(s) : u[i] = s[i]
  BY Joined
<1>2. marks \subseteq 1..(Len(s) + 1)
  BY DEF Marked
<1>3. more \subseteq 1..(Len(u) + 1)
  BY <1>1, <1>2
<1> HIDE DEF u
<1>4. ASSUME NEW i, NEW n, ContentAt(s, i, n, marks, "walk", size)
      PROVE  ContentAt(u, i, n, more, place, other)
  BY <1>4 DEF ContentAt
<1>5. ASSUME NEW i \in Nat \ {0}, SizeAtMark(s, i, marks, "walk", size)
      PROVE  SizeAtMark(u, i, more, place, other)
  <2>1. i \in 1..Len(s) /\ i <= Len(u) /\ u[i] = s[i]
    BY <1>1, <1>5 DEF SizeAtMark
  <2> QED
    BY <1>4, <1>5, <2>1 DEF SizeAtMark
<1>6. ASSUME NEW i \in marks, i \in 1..Len(s)
      PROVE  MarkOK("DOWNLOAD_DIR", u, i, more, place, other)
  <2>1. MarkOK("DOWNLOAD_DIR", s, i, marks, "walk", size) /\ i # Len(s) + 1
    BY <1>1, <1>6 DEF Marked
  <2>2. i <= Len(u) /\ u[i] = s[i] /\ i + 2 \in Nat \ {0}
    BY <1>1, <1>6
  <2>3. CASE s[i] = Text(<<"MKDIR">>) /\ i + 1 <= Len(s) /\ i + 2 \in marks
    BY <1>1, <2>2, <2>3 DEF MarkOK
  <2>4. CASE s[i] = Text(<<"FILE">>) /\ SizeAtMark(s, i + 2, marks, "walk", size)
    <3>1. SizeAtMark(u, i + 2, more, place, other)
      BY <1>5, <2>2, <2>4
    <3> QED
      BY <2>2, <2>4, <3>1 DEF MarkOK
  <2> QED
    BY <2>1, <2>3, <2>4 DEF MarkOK
<1>7. ASSUME NEW i \in more PROVE MarkOK("DOWNLOAD_DIR", u, i, more, place, other)
  <2>1. CASE i \in 1..Len(s)
    <3>1. i \in marks
      BY <1>1, <1>7, <2>1
    <3> QED
      BY <1>6, <2>1, <3>1
  <2>2. CASE i \notin 1..Len(s)
    BY <1>7, <2>2 DEF u
  <2> QED
    BY <2>1, <2>2
<1>8. Marked("DOWNLOAD_DIR", u, more, place, other)
  BY <1>3, <1>7 DEF Marked
<1> QED
  BY <1>4, <1>5, <1>8 DEF u

-----------------------------------------------------------------------------
(* The invariant. *)

\* The process comes to wait for a command, at most with an empty file to send.
Listening(c) ==
    \/ spc[c] \in {"none", "command", "append"}
    \/ spc[c] = "content" /\ walk[c] = <<>> /\ (~Gone(c) => data[path[c]] = <<>>)

BlocksOf(x) == [i \in DOMAIN x.content |-> Block(x.content[i])]

\* The process has the request before it, or the content of an upload, all of it
\* or, when the client is gone, what it had sent.
Asked(c) ==
    /\ todo[c] # <<>> /\ Listening(c) /\ down[c] = <<>>
    /\ IF Gone(c) THEN IsPrefix(up[c], Request(Now(c))) ELSE up[c] = Request(Now(c))
Taking(c) ==
    /\ todo[c] # <<>> /\ spc[c] = "body" /\ down[c] = <<>>
    /\ Now(c).op = "UPLOAD" /\ want[c] = Len(Now(c).content)
    /\ IF Gone(c) THEN IsPrefix(up[c], BlocksOf(Now(c))) ELSE up[c] = BlocksOf(Now(c))

Answering(c) ==
    /\ up[c] = <<>> /\ spc[c] \notin {"body", "exit", "none"}
    /\ spc[c] = "walk" => Now(c).op = "DOWNLOAD_DIR"
    /\ spc[c] = "content" =>
          Now(c).op = IF walk[c] = <<>> THEN "DOWNLOAD" ELSE "DOWNLOAD_DIR"
    /\ Now(c).op \in Downloads => spc[c] # "append"

\* Where the two ends of a connection stand, and what is between them.
Together(c) ==
    /\ cpc[c] \in {"menu", "send"} => up[c] = <<>> /\ down[c] = <<>> /\ Listening(c)
    /\ cpc[c] = "reply" => Asked(c) \/ Taking(c) \/ (Answering(c) /\ FirstAnswer(c))
    /\ cpc[c] \in {"size", "content", "entries"} => Answering(c) /\ LaterAnswer(c)
    /\ cpc[c] = "gone" => \/ Asked(c) \/ Taking(c)
                          \/ up[c] = <<>> /\ spc[c] # "body"
                          \/ spc[c] = "exit"

\* What a user asks for it may ask for, being logged in where that is needed.
Admitted(c) ==
    /\ cpc[c] = "menu" => todo[c] = <<>>
    /\ \A i \in DOMAIN todo[c] :
          /\ todo[c][i] \in Asks(c) /\ Len(todo[c][i].args) = Arguments[todo[c][i].op]
          /\ IF todo[c][i].op \in EntryCommands
             THEN ~cauth[c] /\ Len(todo[c]) = 1
             ELSE auth[c] /\ (~Gone(c) => cauth[c])
    /\ cauth[c] /\ ~Gone(c) => auth[c]

\* A file that is open for writing is empty, and so is the list of directories
\* of a process that is in none.
Tidied(c) ==
    /\ spc[c] = "body" => data[path[c]] = <<>>
    /\ spc[c] \notin {"walk", "content", "exit"} => walk[c] = <<>>

InvOf(c) == Together(c) /\ Admitted(c) /\ Tidied(c)

StreamInv == TypeInv /\ (\A c \in Clients : InvOf(c)) /\ FilesAreWhole

-----------------------------------------------------------------------------
(* Requests. *)

\* Streams are joined the same way.
LEMMA JoinedUnits ==
    \A s, t \in Seq(Unit) :
        /\ s \o t \in Seq(Unit) /\ Len(s \o t) = Len(s) + Len(t)
        /\ \A i \in 1..Len(s) : (s \o t)[i] = s[i]
        /\ \A i \in 1..Len(t) : (s \o t)[i + Len(s)] = t[i]
<1> TAKE s, t \in Seq(Unit)
<1> QED
  BY Joined

\* How many texts follow each command.
LEMMA ArgumentCounts ==
    /\ \A op \in Commands : Arguments[op] \in Nat
    /\ \A op \in EntryCommands : Arguments[op] = 2
    /\ \A op \in {"LIST", "END_OF_DIR"} : Arguments[op] = 0
    /\ \A op \in {"SEARCH", "MKDIR", "CD", "UPLOAD", "DOWNLOAD", "DOWNLOAD_DIR"} :
          Arguments[op] = 1
  BY DEF Arguments, Commands, EntryCommands

\* The blocks of an upload.
LEMMA BlocksAre ==
    ASSUME NEW x \in Exchange
    PROVE  /\ BlocksOf(x) \in Seq(Unit) /\ Len(BlocksOf(x)) = Len(x.content)
           /\ \A i \in 1..Len(x.content) : BlocksOf(x)[i] = Block(x.content[i])
           /\ x.content \in Seq(Blocks) /\ Len(x.content) \in Nat
<1>1. x.content \in Seq(Blocks)
  BY DEF Exchange
<1>2. \A i \in 1..Len(x.content) : Block(x.content[i]) \in Unit
  BY <1>1, UnitTypes
<1> QED
  BY <1>1, <1>2 DEF BlocksOf

\* What a request consists of.
LEMMA RequestItems ==
    ASSUME NEW x \in Exchange, Len(x.args) = Arguments[x.op]
    PROVE  LET r == Request(x)
           IN /\ r \in Seq(Unit) /\ r # <<>> /\ r[1] = Text(<<x.op>>)
              /\ \A i \in 1..Arguments[x.op] : r[i + 1] = Text(x.args[i])
              /\ x.op # "UPLOAD" => Len(r) = Arguments[x.op] + 1
              /\ x.op = "UPLOAD" =>
                    /\ Len(r) = Len(x.content) + 3
                    /\ r[3] = Size(Len(x.content))
                    /\ \A i \in 1..Len(x.content) : r[i + 3] = BlocksOf(x)[i]
<1> DEFINE first == <<Text(<<x.op>>)>>
           args  == [i \in DOMAIN x.args |-> Text(x.args[i])]
           last  == IF x.op = "UPLOAD" THEN <<Size(Len(x.content))>> \o BlocksOf(x) ELSE <<>>
<1>1. x.op \in Commands /\ x.args \in Seq(Word) /\ Arguments[x.op] \in Nat
  BY ArgumentCounts DEF Exchange
<1>2. first \in Seq(Unit) /\ Len(first) = 1 /\ first[1] = Text(<<x.op>>)
  BY <1>1, UnitTypes, WordTypes
<1>3. /\ args \in Seq(Unit) /\ Len(args) = Arguments[x.op]
      /\ \A i \in 1..Arguments[x.op] : args[i] = Text(x.args[i])
  <2>1. \A i \in 1..Len(x.args) : Text(x.args[i]) \in Unit
    BY <1>1, UnitTypes
  <2> QED
    BY <1>1, <2>1
<1>4. /\ BlocksOf(x) \in Seq(Unit) /\ Len(BlocksOf(x)) = Len(x.content)
      /\ Len(x.content) \in Nat
  BY BlocksAre
<1>5. /\ x.op # "UPLOAD" => last = <<>>
      /\ x.op = "UPLOAD" => /\ last \in Seq(Unit) /\ Len(last) = Len(x.content) + 1
                            /\ last[1] = Size(Len(x.content))
                            /\ \A i \in 1..Len(x.content) : last[i + 1] = BlocksOf(x)[i]
  <2>1. /\ <<Size(Len(x.content))>> \in Seq(Unit) /\ Len(<<Size(Len(x.content))>>) = 1
        /\ <<Size(Len(x.content))>>[1] = Size(Len(x.content))
    BY <1>4, UnitTypes
  <2> QED
    BY <1>4, <2>1, Joined
<1>6. Request(x) = first \o args \o last
  BY DEF Request, BlocksOf
<1> HIDE DEF first, args, last
<1>7. /\ first \o args \in Seq(Unit) /\ Len(first \o args) = Arguments[x.op] + 1
      /\ (first \o args)[1] = Text(<<x.op>>)
      /\ \A i \in 1..Arguments[x.op] : (first \o args)[i + 1] = Text(x.args[i])
  <2>1. /\ first \o args \in Seq(Unit) /\ Len(first \o args) = Len(first) + Len(args)
        /\ \A i \in 1..Len(first) : (first \o args)[i] = first[i]
        /\ \A i \in 1..Len(args) : (first \o args)[i + Len(first)] = args[i]
    BY <1>2, <1>3, JoinedUnits
  <2> QED
    BY <1>1, <1>2, <1>3, <2>1
<1>8. CASE x.op # "UPLOAD"
  <2>1. Request(x) = first \o args
    BY <1>5, <1>6, <1>7, <1>8, EmptyJoined
  <2>2. Request(x) # <<>>
    BY <1>1, <1>7, <2>1
  <2> QED
    BY <1>7, <1>8, <2>1, <2>2
<1>9. CASE x.op = "UPLOAD"
  <2>1. Arguments[x.op] = 1
    BY <1>9, ArgumentCounts
  <2> DEFINE r == Request(x)
             front == first \o args
  <2>a. front \in Seq(Unit) /\ Len(front) = 2 /\ r = front \o last
    BY <1>6, <1>7, <2>1
  <2>b. last \in Seq(Unit) /\ Len(last) = Len(x.content) + 1
    BY <1>5, <1>9
  <2> HIDE DEF r, front
  <2>2. /\ r \in Seq(Unit) /\ Len(r) = Len(front) + Len(last)
        /\ \A i \in 1..Len(front) : r[i] = front[i]
        /\ \A i \in 1..Len(last) : r[i + Len(front)] = last[i]
    BY <2>a, <2>b, JoinedUnits
  <2>3. Len(r) = Len(x.content) + 3 /\ r # <<>>
    <3>1. Len(r) = Len(x.content) + 3
      BY <1>4, <2>a, <2>b, <2>2
    <3> QED
      BY <1>4, <3>1
  <2>4. r[1] = Text(<<x.op>>) /\ \A i \in 1..Arguments[x.op] : r[i + 1] = Text(x.args[i])
    BY <1>7, <2>1, <2>a, <2>2 DEF front
  <2>5. r[3] = Size(Len(x.content))
    <3>1. 1 \in 1..Len(last) /\ 1 + Len(front) = 3
      BY <1>4, <2>a, <2>b
    <3> QED
      BY <1>5, <1>9, <2>2, <3>1
  <2>6. ASSUME NEW i \in 1..Len(x.content) PROVE r[i + 3] = BlocksOf(x)[i]
    <3>1. i + 1 \in 1..Len(last) /\ (i + 1) + Len(front) = i + 3
      BY <1>4, <2>a, <2>b
    <3> QED
      BY <1>5, <1>9, <2>2, <3>1
  <2> QED
    BY <1>9, <2>2, <2>3, <2>4, <2>5, <2>6 DEF r
<1> QED
  BY <1>8, <1>9

\* What a process that reads a request, or the part of it that a client sent
\* before it went, finds; and what is left when it has read it.
LEMMA PartOfRequest ==
    ASSUME NEW x \in Exchange, Len(x.args) = Arguments[x.op],
           NEW u \in Seq(Unit), u # <<>>, IsPrefix(u, Request(x))
    PROVE  /\ WordAt(Head(u)) = <<x.op>>
           /\ \A n \in Nat : x.op # "UPLOAD" /\ n > Arguments[x.op]
                               => SubSeq(u, n + 1, Len(u)) = <<>>
           /\ x.op = "UPLOAD" =>
                 /\ \A n \in Nat : Len(u) <= n => SubSeq(u, n + 1, Len(u)) = <<>>
                 /\ Len(u) <= Len(x.content) + 3
                 /\ Len(u) > 2 => /\ SizeAt(u[3]) = Len(x.content)
                                  /\ IsPrefix(SubSeq(u, 4, Len(u)), BlocksOf(x))
                                  /\ u = Request(x)
                                        => SubSeq(u, 4, Len(u)) = BlocksOf(x)
<1> DEFINE r == Request(x)
<1>1. /\ r \in Seq(Unit) /\ r # <<>> /\ r[1] = Text(<<x.op>>)
      /\ x.op # "UPLOAD" => Len(r) = Arguments[x.op] + 1
      /\ x.op = "UPLOAD" =>
            /\ Len(r) = Len(x.content) + 3
            /\ r[3] = Size(Len(x.content))
            /\ \A i \in 1..Len(x.content) : r[i + 3] = BlocksOf(x)[i]
  BY RequestItems
<1>2. Arguments[x.op] \in Nat
  BY ArgumentCounts DEF Exchange
<1>3. /\ BlocksOf(x) \in Seq(Unit) /\ Len(BlocksOf(x)) = Len(x.content)
      /\ Len(x.content) \in Nat
  BY BlocksAre
<1> HIDE DEF r
<1>4. Len(u) <= Len(r) /\ \A i \in 1..Len(u) : u[i] = r[i]
  BY <1>1, PrefixItems DEF r
<1>5. Len(u) \in Nat /\ Len(u) >= 1 /\ Head(u) = u[1]
  OBVIOUS
<1>6. WordAt(Head(u)) = <<x.op>>
  <2>1. u[1] = Text(<<x.op>>)
    BY <1>1, <1>4, <1>5
  <2> QED
    BY <1>5, <2>1, Letters
<1>7. \A n \in Nat : Len(u) <= n => SubSeq(u, n + 1, Len(u)) = <<>>
  BY Rest
<1>8. \A n \in Nat : x.op # "UPLOAD" /\ n > Arguments[x.op] => Len(u) <= n
  BY <1>1, <1>2, <1>4, <1>5
<1>9. ASSUME x.op = "UPLOAD", Len(u) > 2
      PROVE  /\ SizeAt(u[3]) = Len(x.content)
             /\ IsPrefix(SubSeq(u, 4, Len(u)), BlocksOf(x))
             /\ u = r => SubSeq(u, 4, Len(u)) = BlocksOf(x)
  <2>1. u[3] = Size(Len(x.content))
    BY <1>1, <1>4, <1>5, <1>9
  <2> DEFINE t == SubSeq(u, 4, Len(u))
  <2>2. /\ t \in Seq(Unit) /\ Len(t) = Len(u) - 3
        /\ \A i \in 1..Len(t) : t[i] = u[i + 3]
    <3>1. 3 <= Len(u) /\ 3 \in Nat /\ t = SubSeq(u, 3 + 1, Len(u))
      BY <1>5, <1>9
    <3> HIDE DEF t
    <3> QED
      BY <3>1, Rest
  <2> HIDE DEF t
  <2>3. Len(t) <= Len(x.content) /\ Len(t) \in Nat
    BY <1>1, <1>3, <1>4, <1>5, <1>9, <2>2
  <2>4. ASSUME NEW i \in 1..Len(t) PROVE t[i] = BlocksOf(x)[i]
    <3>1. i \in 1..Len(x.content) /\ i + 3 \in 1..Len(u)
      BY <1>5, <2>2, <2>3
    <3> QED
      BY <1>1, <1>4, <1>9, <2>2, <3>1
  <2>5. IsPrefix(t, BlocksOf(x))
    BY <1>3, <2>2, <2>3, <2>4, PrefixItems
  <2>6. ASSUME u = r PROVE t = BlocksOf(x)
    <3>1. Len(t) = Len(BlocksOf(x))
      BY <1>1, <1>3, <1>9, <2>2, <2>6
    <3> QED
      BY <1>3, <2>2, <2>4, <3>1
  <2> QED
    BY <2>1, <2>5, <2>6, Letters DEF t
<1> QED
  BY <1>1, <1>4, <1>6, <1>7, <1>8, <1>9 DEF r

-----------------------------------------------------------------------------
(* What a step leaves alone. *)

\* Nothing changes for d, nor in what it has open.
Stays(d) ==
    /\ cpc'[d] = cpc[d] /\ cauth'[d] = cauth[d] /\ todo'[d] = todo[d]
    /\ expect'[d] = expect[d] /\ up'[d] = up[d] /\ down'[d] = down[d]
    /\ spc'[d] = spc[d] /\ auth'[d] = auth[d] /\ path'[d] = path[d]
    /\ want'[d] = want[d] /\ walk'[d] = walk[d]
    /\ spc[d] = "body" \/ (spc[d] = "content" /\ ~Gone(d))
          => data'[path[d]] = data[path[d]]

\* The answer to c is as far as it was, but for the client's place.
LEMMA SameMarks ==
    ASSUME NEW c \in Clients, ~Gone(c), spc'[c] = spc[c], path'[c] = path[c],
           spc[c] = "content" => data'[path[c]] = data[path[c]]
    PROVE  \A op, s, marks :
              /\ Marked(op, s, marks, spc[c], SizeOf(c))
                    <=> Marked(op, s, marks, spc'[c], SizeOf(c)')
              /\ \A i : SizeAtMark(s, i, marks, spc[c], SizeOf(c))
                          <=> SizeAtMark(s, i, marks, spc'[c], SizeOf(c)')
              /\ \A i, n : ContentAt(s, i, n, marks, spc[c], SizeOf(c))
                             <=> ContentAt(s, i, n, marks, spc'[c], SizeOf(c)')
<1>1. CASE spc[c] = "content"
  <2>1. SizeOf(c)' = SizeOf(c)
    BY <1>1 DEF SizeOf
  <2> QED
    BY <2>1
<1>2. CASE spc[c] # "content"
  BY <1>2, MarksOfAnySize
<1> QED
  BY <1>1, <1>2

\* A step of another client does not disturb the first answer,
LEMMA FirstAnswerStays ==
    ASSUME NEW c \in Clients, ~Gone(c), Stays(c), FirstAnswer(c)
    PROVE  FirstAnswer(c)'
<1>1. /\ spc'[c] = spc[c] /\ down'[c] = down[c] /\ auth'[c] = auth[c]
      /\ Now(c)' = Now(c) /\ path'[c] = path[c]
      /\ spc[c] = "content" => data'[path[c]] = data[path[c]]
  BY DEF Stays, Now
<1>2. \A op, s, marks :
          /\ Marked(op, s, marks, spc[c], SizeOf(c))
                <=> Marked(op, s, marks, spc'[c], SizeOf(c)')
          /\ \A i : SizeAtMark(s, i, marks, spc[c], SizeOf(c))
                      <=> SizeAtMark(s, i, marks, spc'[c], SizeOf(c)')
  BY <1>1, SameMarks
<1> HIDE DEF Stays
<1> QED
  BY <1>1, <1>2, Zenon DEF FirstAnswer

\* nor the rest of it,
LEMMA LaterAnswerStays ==
    ASSUME NEW c \in Clients, ~Gone(c), Stays(c), LaterAnswer(c)
    PROVE  LaterAnswer(c)'
<1>1. /\ spc'[c] = spc[c] /\ down'[c] = down[c] /\ cpc'[c] = cpc[c]
      /\ Now(c)' = Now(c) /\ path'[c] = path[c] /\ expect'[c] = expect[c]
      /\ spc[c] = "content" => data'[path[c]] = data[path[c]]
  BY DEF Stays, Now
<1>2. PICK marks \in SUBSET (1..(Len(down[c]) + 1)) :
          /\ Marked(Now(c).op, down[c], marks, spc[c], SizeOf(c))
          /\ cpc[c] = "size" => SizeAtMark(down[c], 1, marks, spc[c], SizeOf(c))
          /\ cpc[c] = "content" => ContentAt(down[c], 1, expect[c], marks, spc[c], SizeOf(c))
          /\ cpc[c] = "entries" => Now(c).op = "DOWNLOAD_DIR" /\ 1 \in marks
  BY DEF LaterAnswer
<1>3. /\ Marked(Now(c).op, down[c], marks, spc'[c], SizeOf(c)')
      /\ cpc[c] = "size" => SizeAtMark(down[c], 1, marks, spc'[c], SizeOf(c)')
      /\ cpc[c] = "content" => ContentAt(down[c], 1, expect[c], marks, spc'[c], SizeOf(c)')
  BY <1>1, <1>2, SameMarks
<1>4. Now(c).op \in Downloads
  BY DEF LaterAnswer
<1> QED
  BY <1>1, <1>2, <1>3, <1>4 DEF LaterAnswer

\* nor anything else of the invariant.
LEMMA OthersStay ==
    ASSUME NEW d \in Clients, InvOf(d), Stays(d)
    PROVE  InvOf(d)'
<1>1. /\ Now(d)' = Now(d) /\ (Gone(d)' <=> Gone(d))
      /\ cpc'[d] = cpc[d] /\ cauth'[d] = cauth[d] /\ todo'[d] = todo[d]
      /\ expect'[d] = expect[d] /\ up'[d] = up[d] /\ down'[d] = down[d]
      /\ spc'[d] = spc[d] /\ auth'[d] = auth[d] /\ path'[d] = path[d]
      /\ want'[d] = want[d] /\ walk'[d] = walk[d]
      /\ spc[d] = "body" \/ (spc[d] = "content" /\ ~Gone(d))
            => data'[path[d]] = data[path[d]]
  BY DEF Stays, Now, Gone
<1>2. Listening(d) => Listening(d)'
  BY <1>1 DEF Listening
<1>3. (Asked(d) => Asked(d)') /\ (Taking(d) => Taking(d)') /\ (Answering(d) => Answering(d)')
  BY <1>1, <1>2 DEF Asked, Taking, Answering
<1>4. Together(d)'
  <2>1. CASE Gone(d)
    BY <1>1, <1>3, <2>1 DEF InvOf, Together, Gone
  <2>2. CASE ~Gone(d)
    <3>1. (FirstAnswer(d) => FirstAnswer(d)') /\ (LaterAnswer(d) => LaterAnswer(d)')
      BY <2>2, FirstAnswerStays, LaterAnswerStays
    <3> QED
      BY <1>1, <1>2, <1>3, <2>2, <3>1 DEF InvOf, Together, Gone
  <2> QED
    BY <2>1, <2>2
<1>5. Admitted(d)'
  BY <1>1 DEF InvOf, Admitted
<1>6. Tidied(d)'
  BY <1>1 DEF InvOf, Tidied
<1> QED
  BY <1>4, <1>5, <1>6 DEF InvOf

-----------------------------------------------------------------------------
(* The client. *)

\* Nothing but c changes, and nothing on the disk.
OnlyClient(c) ==
    /\ UNCHANGED <<spc, procVars, diskVars>>
    /\ \A d \in Clients \ {c} :
          /\ cpc'[d] = cpc[d] /\ cauth'[d] = cauth[d] /\ todo'[d] = todo[d]
          /\ expect'[d] = expect[d] /\ up'[d] = up[d] /\ down'[d] = down[d]

\* What a client does is done to it alone.
LEMMA ClientOnly ==
    ASSUME FileTypeOK, NEW c \in Clients, Choose(c) \/ Kill(c) \/ ClientStep(c)
    PROVE  OnlyClient(c)
<1>1. /\ cpc \in [Clients -> ClientPlaces] /\ cauth \in [Clients -> BOOLEAN]
      /\ todo \in [Clients -> Seq(Exchange)] /\ expect \in [Clients -> Nat]
      /\ up \in [Clients -> Seq(Unit)] /\ down \in [Clients -> Seq(Unit)]
  BY Parts DEF ClientsOK, Streams
<1>2. CASE Choose(c)
  BY <1>1, <1>2 DEF Choose, OnlyClient
<1>3. CASE Kill(c)
  BY <1>1, <1>3 DEF Kill, OnlyClient
<1>4. CASE SendRequest(c)
  BY <1>1, <1>4 DEF SendRequest, OnlyClient
<1>5. CASE ReadReply(c)
  BY <1>1, <1>5 DEF ReadReply, GoOn, Finish, Received, OnlyClient
<1>6. CASE ReadSize(c)
  BY <1>1, <1>6 DEF ReadSize, GoOn, Received, OnlyClient
<1>7. CASE ReadContent(c)
  BY <1>1, <1>7 DEF ReadContent, GoOn, Finish, Received, OnlyClient
<1>8. CASE ReadEntry(c)
  <2>1. Received(c, 1) \/ Received(c, 2)
    BY <1>8 DEF ReadEntry
  <2>2. GoOn(c, "size") \/ GoOn(c, "entries") \/ Finish(c)
    BY <1>8 DEF ReadEntry
  <2> QED
    BY <1>1, <1>8, <2>1, <2>2 DEF ReadEntry, GoOn, Finish, Received, OnlyClient
<1> QED
  BY <1>2, <1>3, <1>4, <1>5, <1>6, <1>7, <1>8 DEF ClientStep

\* The server's side of c stays when a client does something.
LEMMA ServerSideStays ==
    ASSUME NEW c \in Clients, OnlyClient(c)
    PROVE  /\ spc' = spc /\ auth' = auth /\ path' = path /\ want' = want
           /\ walk' = walk /\ data' = data /\ SizeOf(c)' = SizeOf(c)
           /\ Tidied(c) => Tidied(c)'
           /\ Listening(c) /\ ~Gone(c) => Listening(c)'
  BY DEF OnlyClient, procVars, diskVars, SizeOf, Tidied, Listening, Gone

\* Between two requests.
LEMMA QuietTogether ==
    ASSUME NEW c \in Clients, cpc'[c] \in {"menu", "send"}, up'[c] = <<>>, down'[c] = <<>>,
           Listening(c)'
    PROVE  Together(c)'
  BY DEF Together

\* A choice of the menu: the user asks for what the menu offers.
LEMMA ChooseInv ==
    ASSUME FileTypeOK, NEW c \in Clients, InvOf(c), Choose(c)
    PROVE  InvOf(c)'
<1>1. OnlyClient(c)
  BY ClientOnly
<1>2. PICK choice \in Menu[c] :
          /\ choice.auth = cauth[c]
          /\ todo' = [todo EXCEPT ![c] = choice.do]
          /\ cpc' = IF choice.do = <<>> THEN cpc ELSE [cpc EXCEPT ![c] = "send"]
          /\ cauth' = IF choice.do = <<>> THEN [cauth EXCEPT ![c] = FALSE] ELSE cauth
  BY DEF Choose
<1>3. /\ choice.do \in Seq(Exchange) /\ Offered(choice) /\ choice.auth \in BOOLEAN
  BY FileAssumption
<1>4. /\ cpc[c] = "menu" /\ up' = up /\ down' = down
      /\ cpc \in [Clients -> ClientPlaces] /\ cauth \in [Clients -> BOOLEAN]
      /\ todo \in [Clients -> Seq(Exchange)]
  BY Parts DEF Choose, ClientsOK
<1>5. up[c] = <<>> /\ down[c] = <<>> /\ Listening(c) /\ ~Gone(c)
  BY <1>4 DEF InvOf, Together, Gone
<1>6. Listening(c)' /\ Tidied(c)' /\ auth' = auth
  BY <1>1, <1>5, ServerSideStays DEF InvOf
<1>7. /\ todo'[c] = choice.do
      /\ choice.do = <<>> => cpc'[c] = "menu" /\ cauth'[c] = FALSE
      /\ choice.do # <<>> => cpc'[c] = "send" /\ cauth'[c] = cauth[c]
  BY <1>2, <1>4
<1>8. Together(c)'
  BY <1>4, <1>5, <1>6, <1>7, QuietTogether
<1>9. cauth[c] => auth[c]
  BY <1>5 DEF InvOf, Admitted
<1>10. ASSUME NEW i \in DOMAIN choice.do
       PROVE  /\ choice.do[i] \in Asks(c)
              /\ Len(choice.do[i].args) = Arguments[choice.do[i].op]
              /\ IF choice.do[i].op \in EntryCommands
                 THEN ~cauth[c] /\ Len(choice.do) = 1
                 ELSE auth[c] /\ cauth[c]
  <2>1. Len(choice.do) \in Nat /\ Len(choice.do) >= 1
    BY <1>3, <1>10
  <2>2. choice.do[i] \in Asks(c)
    BY <1>10 DEF Asks, ToSet
  <2>3. /\ Len(choice.do[i].args) = Arguments[choice.do[i].op]
        /\ choice.auth <=> choice.do[i].op \notin EntryCommands
        /\ ~choice.auth => Len(choice.do) <= 1
    BY <1>3, <1>10, Zenon DEF Offered
  <2>4. CASE choice.do[i].op \in EntryCommands
    <3>1. ~cauth[c]
      BY <1>2, <2>3, <2>4
    <3>2. Len(choice.do) <= 1
      BY <1>2, <2>3, <2>4
    <3>3. Len(choice.do) = 1
      <4>1. \A n \in Nat : n >= 1 /\ n <= 1 => n = 1
        OBVIOUS
      <4> QED
        BY <2>1, <3>2, <4>1, Zenon
    <3> QED
      BY <2>2, <2>3, <2>4, <3>1, <3>3
  <2>5. CASE choice.do[i].op \notin EntryCommands
    <3>1. cauth[c]
      BY <1>2, <2>3, <2>5
    <3> QED
      BY <1>9, <2>2, <2>3, <2>5, <3>1
  <2> QED
    BY <2>4, <2>5
<1>11. Admitted(c)'
  <2>1. CASE choice.do = <<>>
    BY <1>7, <2>1 DEF Admitted
  <2>2. CASE choice.do # <<>>
    BY <1>6, <1>7, <1>9, <1>10, <2>2 DEF Admitted, Gone
  <2> QED
    BY <2>1, <2>2
<1> QED
  BY <1>6, <1>8, <1>11 DEF InvOf

\* The whole request is on its way before the client waits.
LEMMA SendRequestInv ==
    ASSUME FileTypeOK, NEW c \in Clients, InvOf(c), SendRequest(c)
    PROVE  InvOf(c)'
<1>1. OnlyClient(c)
  BY ClientOnly DEF ClientStep
<1>2. /\ cpc[c] = "send" /\ cauth' = cauth /\ todo' = todo /\ down' = down
      /\ cpc' = [cpc EXCEPT ![c] = "reply"]
      /\ up' = [up EXCEPT ![c] = @ \o Request(Now(c))]
      /\ cpc \in [Clients -> ClientPlaces] /\ up \in [Clients -> Seq(Unit)]
  BY Parts DEF SendRequest, ClientsOK, Streams, Now
<1>3. up[c] = <<>> /\ down[c] = <<>> /\ Listening(c) /\ ~Gone(c)
  BY <1>2 DEF InvOf, Together, Gone
<1>4. Listening(c)' /\ Tidied(c)' /\ auth' = auth
  BY <1>1, <1>3, ServerSideStays DEF InvOf
<1>5. todo[c] # <<>> /\ Now(c) \in Exchange
  BY <1>2, AtExchange DEF Now
<1>6. up'[c] = Request(Now(c)) /\ cpc'[c] = "reply"
  <2>1. <<>> \o Request(Now(c)) = Request(Now(c))
    BY <1>5, RequestTypes, EmptyJoined
  <2> QED
    BY <1>2, <1>3, <2>1
<1>7. Asked(c)'
  BY <1>2, <1>3, <1>4, <1>5, <1>6 DEF Asked, Now, Gone
<1>8. Together(c)'
  BY <1>6, <1>7 DEF Together
<1>9. Admitted(c)'
  BY <1>2, <1>3, <1>4, <1>6 DEF InvOf, Admitted, Gone
<1> QED
  BY <1>4, <1>8, <1>9 DEF InvOf

\* When the client is gone.
LEMMA GoneTogether ==
    ASSUME NEW c \in Clients, cpc'[c] = "gone",
           \/ Asked(c)' \/ Taking(c)'
           \/ up'[c] = <<>> /\ spc'[c] # "body"
           \/ spc'[c] = "exit"
    PROVE  Together(c)'
  BY DEF Together

\* The end of c leaves to its process what it has sent.
LEMMA KillInv ==
    ASSUME FileTypeOK, NEW c \in Clients, InvOf(c), Kill(c)
    PROVE  InvOf(c)'
<1>1. OnlyClient(c)
  BY ClientOnly
<1>2. PICK part \in IF cpc[c] = "send" THEN Prefixes(Request(Now(c))) ELSE {<<>>} :
          up' = [up EXCEPT ![c] = @ \o part]
  BY DEF Kill, Now
<1>3. /\ cpc'[c] = "gone" /\ down'[c] = <<>> /\ todo' = todo /\ cauth' = cauth
      /\ ~Gone(c) /\ up \in [Clients -> Seq(Unit)]
  BY Parts DEF Kill, ClientsOK, Streams, Gone
<1>4. spc' = spc /\ want' = want /\ walk' = walk /\ auth' = auth /\ data' = data /\ Tidied(c)'
  BY <1>1, ServerSideStays DEF InvOf
<1>5. Listening(c) => Listening(c)'
  BY <1>1, <1>3, ServerSideStays
<1>6. Gone(c)' /\ Now(c)' = Now(c)
  BY <1>3 DEF Gone, Now
<1>7. cpc[c] # "send" => up'[c] = up[c]
  <2>1. up[c] \o <<>> = up[c]
    BY <1>3, EmptyJoined
  <2> QED
    BY <1>2, <1>3, <2>1
<1>8. ASSUME cpc[c] = "menu" PROVE Together(c)'
  <2>1. up'[c] = <<>> /\ spc'[c] # "body"
    BY <1>4, <1>7, <1>8 DEF InvOf, Together, Listening
  <2> QED
    BY <1>3, <2>1, GoneTogether
<1>9. ASSUME cpc[c] = "send" PROVE Together(c)'
  <2>1. up[c] = <<>> /\ Listening(c)
    BY <1>9 DEF InvOf, Together
  <2>2. todo[c] # <<>> /\ Request(Now(c)) \in Seq(Unit)
    BY <1>9, AtExchange, RequestTypes DEF Now
  <2>3. part \in Seq(Unit) /\ IsPrefix(part, Request(Now(c)))
    <3>1. PICK n \in 0..Len(Request(Now(c))) : part = SubSeq(Request(Now(c)), 1, n)
      BY <1>2, <1>9 DEF Prefixes
    <3>2. /\ part \in Seq(Unit) /\ Len(part) = n
          /\ \A i \in 1..n : part[i] = Request(Now(c))[i]
      BY <2>2, <3>1
    <3> QED
      BY <2>2, <3>2, PrefixItems
  <2>4. up'[c] = part
    <3>1. <<>> \o part = part
      BY <2>3, EmptyJoined
    <3> QED
      BY <1>2, <1>3, <2>1, <3>1
  <2>5. Asked(c)'
    BY <1>3, <1>5, <1>6, <2>1, <2>2, <2>3, <2>4 DEF Asked
  <2> QED
    BY <1>3, <2>5, GoneTogether
<1>10. ASSUME cpc[c] \notin {"menu", "send"} PROVE Together(c)'
  <2>1. cpc[c] \in {"reply", "size", "content", "entries"}
    BY <1>3, <1>10, Parts DEF ClientsOK, ClientPlaces, Gone
  <2>2. Asked(c) \/ Taking(c) \/ Answering(c)
    BY <2>1 DEF InvOf, Together
  <2>3. todo[c] # <<>> /\ Now(c) \in Exchange
    BY <2>1, AtExchange DEF Now
  <2>4. CASE Asked(c)
    <3>1. up[c] = Request(Now(c)) /\ IsPrefix(up[c], Request(Now(c)))
      BY <1>3, <2>3, <2>4, RequestTypes, PrefixItself DEF Asked
    <3>2. Asked(c)'
      BY <1>3, <1>5, <1>6, <1>7, <1>10, <2>3, <2>4, <3>1 DEF Asked
    <3> QED
      BY <1>3, <3>2, GoneTogether
  <2>5. CASE Taking(c)
    <3>1. up[c] = BlocksOf(Now(c)) /\ IsPrefix(up[c], BlocksOf(Now(c)))
      BY <1>3, <2>3, <2>5, BlocksAre, PrefixItself DEF Taking
    <3>2. Taking(c)'
      BY <1>3, <1>4, <1>6, <1>7, <1>10, <2>3, <2>5, <3>1 DEF Taking
    <3> QED
      BY <1>3, <3>2, GoneTogether
  <2>6. CASE Answering(c)
    BY <1>3, <1>4, <1>7, <1>10, <2>6, GoneTogether DEF Answering
  <2> QED
    BY <2>2, <2>4, <2>5, <2>6
<1>11. Admitted(c)'
  BY <1>3, <1>4, <1>6 DEF InvOf, Admitted, Gone
<1> QED
  BY <1>4, <1>8, <1>9, <1>10, <1>11 DEF InvOf


\* An exchange that is over leaves what the user may still ask for.
LEMMA FinishAdmitted ==
    ASSUME FileTypeOK, NEW c \in Clients, cpc[c] \notin {"menu", "gone"}, Admitted(c),
           Finish(c), auth' = auth, cauth'[c] \in BOOLEAN,
           \/ cauth'[c] = cauth[c]
           \/ Now(c).op \in EntryCommands /\ (cauth'[c] => auth[c])
    PROVE  Admitted(c)' /\ cpc'[c] \in {"menu", "send"}
<1>1. /\ cpc \in [Clients -> ClientPlaces] /\ todo \in [Clients -> Seq(Exchange)]
      /\ todo[c] # <<>> /\ todo[c] \in Seq(Exchange)
  BY AtExchange, Parts DEF ClientsOK
<1>2. /\ todo'[c] = Tail(todo[c])
      /\ cpc'[c] = IF Len(todo[c]) = 1 THEN "menu" ELSE "send"
  BY <1>1 DEF Finish
<1>3. /\ Len(Tail(todo[c])) = Len(todo[c]) - 1 /\ Len(todo[c]) \in Nat \ {0}
      /\ \A i \in DOMAIN Tail(todo[c]) :
            /\ Tail(todo[c])[i] = todo[c][i + 1] /\ i + 1 \in DOMAIN todo[c]
            /\ Len(todo[c]) # 1
  BY <1>1
<1>4. Len(todo[c]) = 1 => Tail(todo[c]) = <<>>
  BY <1>1, LastOne
<1>5. 1 \in DOMAIN todo[c] /\ todo[c][1] = Now(c)
  BY <1>1 DEF Now
<1>6. ~Gone(c) /\ ~Gone(c)' /\ (cauth[c] => auth[c])
  BY <1>2 DEF Admitted, Gone
<1>7. ASSUME NEW i \in DOMAIN Tail(todo[c])
      PROVE  /\ Tail(todo[c])[i] \in Asks(c)
             /\ Len(Tail(todo[c])[i].args) = Arguments[Tail(todo[c])[i].op]
             /\ Tail(todo[c])[i].op \notin EntryCommands /\ auth[c] /\ cauth'[c]
  <2>1. todo[c][i + 1].op \notin EntryCommands
    BY <1>3, <1>7 DEF Admitted
  <2>2. Now(c).op \notin EntryCommands
    BY <1>3, <1>5, <1>7 DEF Admitted
  <2>3. cauth'[c] = cauth[c]
    BY <2>2
  <2>4. auth[c] /\ cauth[c]
    BY <1>3, <1>6, <1>7, <2>1 DEF Admitted
  <2>5. todo[c][i + 1] \in Asks(c) /\ Len(todo[c][i + 1].args) = Arguments[todo[c][i + 1].op]
    BY <1>3, <1>7 DEF Admitted
  <2> QED
    BY <1>3, <1>7, <2>1, <2>3, <2>4, <2>5
<1>8. cauth'[c] => auth[c]
  BY <1>6
<1> QED
  BY <1>2, <1>4, <1>6, <1>7, <1>8 DEF Admitted, Asks

\* So does one that goes on.
LEMMA GoOnAdmitted ==
    ASSUME NEW c \in Clients, Admitted(c), ~Gone(c), auth' = auth, cauth'[c] = cauth[c],
           todo'[c] = todo[c], cpc'[c] \in {"size", "content", "entries"}
    PROVE  Admitted(c)'
  BY DEF Admitted, Asks, Gone

\* A client that has read n units and goes on to read the answer to a download.
LEMMA GoOnTogether ==
    ASSUME FileTypeOK, NEW c \in Clients, OnlyClient(c), ~Gone(c), Answering(c),
           Now(c).op \in Downloads, up'[c] = up[c], todo'[c] = todo[c],
           NEW n \in 0..Len(down[c]), down'[c] = SubSeq(down[c], n + 1, Len(down[c])),
           NEW marks \in SUBSET Nat,
           Marked(Now(c).op, down[c], marks, spc[c], SizeOf(c)),
           cpc'[c] \in {"size", "content", "entries"}, expect'[c] \in Nat,
           cpc'[c] = "size" => SizeAtMark(down[c], n + 1, marks, spc[c], SizeOf(c)),
           cpc'[c] = "content" =>
               ContentAt(down[c], n + 1, expect'[c], marks, spc[c], SizeOf(c)),
           cpc'[c] = "entries" => Now(c).op = "DOWNLOAD_DIR" /\ n + 1 \in marks
    PROVE  Together(c)'
<1>1. /\ down[c] \in Seq(Unit) /\ SizeOf(c) \in Nat
  BY Parts DEF Streams, SizeOf, ProcsOK, DiskOK
<1> DEFINE t == SubSeq(down[c], n + 1, Len(down[c]))
           moved == {i \in 1..(Len(t) + 1) : i + n \in marks}
<1>2. /\ Marked(Now(c).op, t, moved, spc[c], SizeOf(c))
      /\ n + 1 \in marks => 1 \in moved
      /\ \A i \in 1..(Len(t) + 1), k \in Nat :
            ContentAt(down[c], i + n, k, marks, spc[c], SizeOf(c))
               => ContentAt(t, i, k, moved, spc[c], SizeOf(c))
      /\ \A i \in 1..(Len(t) + 1) :
            SizeAtMark(down[c], i + n, marks, spc[c], SizeOf(c))
               => SizeAtMark(t, i, moved, spc[c], SizeOf(c))
      /\ moved \in SUBSET (1..(Len(t) + 1))
  BY <1>1, MarksMove
<1>3. 1 \in 1..(Len(t) + 1) /\ 1 + n = n + 1
  BY <1>1
<1>4. spc' = spc /\ walk' = walk /\ SizeOf(c)' = SizeOf(c) /\ Now(c)' = Now(c)
  BY ServerSideStays DEF Now
<1>5. Answering(c)'
  BY <1>4 DEF Answering
<1> HIDE DEF moved
<1>6. LaterAnswer(c)'
  <2>1. down'[c] = t
    OBVIOUS
  <2> HIDE DEF t
  <2> QED
    BY <1>2, <1>3, <1>4, <2>1 DEF LaterAnswer
<1> QED
  BY <1>5, <1>6 DEF Together

\* A client that has read the answer to the end.
LEMMA FinishInv ==
    ASSUME FileTypeOK, NEW c \in Clients, InvOf(c), OnlyClient(c),
           cpc[c] \notin {"menu", "gone"}, Finish(c), cauth'[c] \in BOOLEAN,
           \/ cauth'[c] = cauth[c]
           \/ Now(c).op \in EntryCommands /\ (cauth'[c] => auth[c]),
           up'[c] = <<>>, down'[c] = <<>>, Listening(c)
    PROVE  InvOf(c)'
<1>1. ~Gone(c)
  BY DEF Gone
<1>2. auth' = auth /\ Tidied(c)' /\ Listening(c)'
  BY <1>1, ServerSideStays DEF InvOf
<1>3. Admitted(c)' /\ cpc'[c] \in {"menu", "send"}
  BY <1>2, FinishAdmitted DEF InvOf
<1> QED
  BY <1>2, <1>3, QuietTogether DEF InvOf

\* The first answer: all there is, or the beginning of a download.
LEMMA ReadReplyInv ==
    ASSUME FileTypeOK, NEW c \in Clients, InvOf(c), ReadReply(c)
    PROVE  InvOf(c)'
<1>1. OnlyClient(c)
  BY ClientOnly DEF ClientStep
<1> DEFINE op == Now(c).op
           w  == WordAt(Head(down[c]))
<1>2. /\ cpc[c] = "reply" /\ down[c] # <<>> /\ ~Gone(c)
      /\ up' = up /\ expect' = expect
      /\ down' = [down EXCEPT ![c] = SubSeq(@, 1 + 1, Len(@))]
      /\ cauth' = IF op = "Login" THEN [cauth EXCEPT ![c] = AcceptsLogin(w)] ELSE cauth
  BY DEF ReadReply, Received, Gone, Now
<1>3. /\ down[c] \in Seq(Unit) /\ down'[c] = SubSeq(down[c], 1 + 1, Len(down[c]))
      /\ cauth \in [Clients -> BOOLEAN] /\ expect \in [Clients -> Nat]
      /\ cpc \in [Clients -> ClientPlaces] /\ todo \in [Clients -> Seq(Exchange)]
  BY <1>2, Parts DEF Streams, ClientsOK
<1>4. Answering(c) /\ FirstAnswer(c)
  BY <1>2 DEF InvOf, Together, Asked, Taking
<1>5. up'[c] = <<>> /\ up'[c] = up[c]
  BY <1>2, <1>4 DEF Answering
<1>6. down[c][1] = Head(down[c]) /\ Len(down[c]) \in Nat /\ 1 <= Len(down[c])
      /\ (Len(down[c]) = 1 => down'[c] = <<>>)
  BY <1>2, <1>3, LastOne
<1>7. cauth'[c] \in BOOLEAN /\ (op # "Login" => cauth'[c] = cauth[c])
      /\ (op = "Login" => cauth'[c] = AcceptsLogin(w))
  BY <1>2, <1>3 DEF AcceptsLogin
<1>8. CASE op \notin Downloads
  <2>1. Finish(c)
    BY <1>8 DEF ReadReply, Now, Downloads
  <2>2. /\ Len(down[c]) = 1 /\ spc[c] \in {"command", "append"}
        /\ op = "Login" /\ AcceptsLogin(w) => auth[c]
    BY <1>4, <1>6, <1>8 DEF FirstAnswer
  <2>3. Listening(c)
    BY <2>2 DEF Listening
  <2>4. \/ cauth'[c] = cauth[c]
        \/ Now(c).op \in EntryCommands /\ (cauth'[c] => auth[c])
    BY <1>7, <2>2 DEF EntryCommands
  <2> QED
    BY <1>1, <1>2, <1>5, <1>6, <1>7, <2>1, <2>2, <2>3, <2>4, FinishInv
<1>9. ASSUME \/ op = "DOWNLOAD" /\ w = <<"FileNotFound">>
             \/ op = "DOWNLOAD_DIR" /\ w = <<"DirectoryNotFound">>
      PROVE  InvOf(c)'
  <2>1. Finish(c)
    BY <1>9 DEF ReadReply, Now
  <2>2. Len(down[c]) = 1 /\ spc[c] = "command"
    BY <1>4, <1>6, <1>9 DEF FirstAnswer
  <2>3. Listening(c) /\ cauth'[c] = cauth[c]
    BY <1>7, <1>9, <2>2 DEF Listening
  <2> QED
    BY <1>1, <1>2, <1>5, <1>6, <1>7, <2>1, <2>2, <2>3, FinishInv
<1>10. ASSUME \/ op = "DOWNLOAD" /\ w # <<"FileNotFound">>
              \/ op = "DOWNLOAD_DIR" /\ w # <<"DirectoryNotFound">>
       PROVE  InvOf(c)'
  <2>1. op \in Downloads /\ cauth'[c] = cauth[c]
    BY <1>7, <1>10 DEF Downloads
  <2>2. todo' = todo /\ cpc'[c] = IF op = "DOWNLOAD" THEN "size" ELSE "entries"
    BY <1>3, <1>10 DEF ReadReply, GoOn, Now
  <2>3. PICK marks \in SUBSET (1..(Len(down[c]) + 1)) :
           /\ Marked(op, down[c], marks, spc[c], SizeOf(c))
           /\ op = "DOWNLOAD" => SizeAtMark(down[c], 2, marks, spc[c], SizeOf(c))
           /\ op = "DOWNLOAD_DIR" => 2 \in marks
    BY <1>4, <1>6, <1>10 DEF FirstAnswer
  <2>4. marks \in SUBSET Nat /\ 1 \in 0..Len(down[c]) /\ 1 + 1 = 2
    BY <1>6
  <2>5. expect'[c] \in Nat
    BY <1>2, <1>3
  <2> HIDE DEF op, w
  <2>6. /\ cpc'[c] \in {"size", "content", "entries"}
        /\ cpc'[c] = "size" => op = "DOWNLOAD"
        /\ cpc'[c] = "entries" => op = "DOWNLOAD_DIR"
        /\ cpc'[c] # "content"
    BY <2>1, <2>2 DEF Downloads
  <2>7. Together(c)'
    BY <1>1, <1>2, <1>3, <1>4, <1>5, <2>1, <2>2, <2>3, <2>4, <2>5, <2>6, GoOnTogether
    DEF op
  <2>8. Admitted(c)' /\ Tidied(c)'
    BY <1>1, <1>2, <2>1, <2>2, <2>6, GoOnAdmitted, ServerSideStays DEF InvOf
  <2> QED
    BY <2>7, <2>8 DEF InvOf
<1> QED
  BY <1>8, <1>9, <1>10 DEF Downloads

\* The size of a file.
LEMMA ReadSizeInv ==
    ASSUME FileTypeOK, NEW c \in Clients, InvOf(c), ReadSize(c)
    PROVE  InvOf(c)'
<1>1. OnlyClient(c)
  BY ClientOnly DEF ClientStep
<1>2. /\ cpc[c] = "size" /\ down[c] # <<>> /\ ~Gone(c)
      /\ up' = up /\ cauth' = cauth /\ todo' = todo
      /\ down' = [down EXCEPT ![c] = SubSeq(@, 1 + 1, Len(@))]
      /\ cpc' = [cpc EXCEPT ![c] = "content"]
      /\ expect' = [expect EXCEPT ![c] = SizeAt(Head(down[c]))]
  BY DEF ReadSize, GoOn, Received, Gone
<1>3. /\ down[c] \in Seq(Unit) /\ down'[c] = SubSeq(down[c], 1 + 1, Len(down[c]))
      /\ cpc'[c] = "content" /\ expect'[c] = SizeAt(Head(down[c]))
  BY <1>2, Parts DEF Streams, ClientsOK
<1>4. Answering(c) /\ LaterAnswer(c)
  BY <1>2 DEF InvOf, Together
<1>5. PICK marks \in SUBSET (1..(Len(down[c]) + 1)) :
         /\ Marked(Now(c).op, down[c], marks, spc[c], SizeOf(c))
         /\ SizeAtMark(down[c], 1, marks, spc[c], SizeOf(c))
  BY <1>2, <1>4 DEF LaterAnswer
<1>6. down[c][1] = Head(down[c]) /\ Len(down[c]) \in Nat /\ 1 <= Len(down[c])
      /\ Head(down[c]) \in Unit
  BY <1>2, <1>3
<1>7. /\ ContentAt(down[c], 1 + 1, expect'[c], marks, spc[c], SizeOf(c))
      /\ expect'[c] \in Nat
  <2>1. Head(down[c]).k = "size" /\ expect'[c] = Head(down[c]).n
    BY <1>3, <1>5, <1>6 DEF SizeAtMark, SizeAt
  <2>2. Head(down[c]).n \in Nat
    BY <1>6, <2>1 DEF Unit
  <2> QED
    BY <1>5, <1>6, <2>1, <2>2 DEF SizeAtMark
<1>8. marks \in SUBSET Nat /\ 1 \in 0..Len(down[c])
  BY <1>6
<1>9. Together(c)'
  BY <1>1, <1>2, <1>3, <1>4, <1>5, <1>7, <1>8, GoOnTogether DEF LaterAnswer
<1>10. Admitted(c)' /\ Tidied(c)'
  BY <1>1, <1>2, <1>3, GoOnAdmitted, ServerSideStays DEF InvOf
<1> QED
  BY <1>9, <1>10 DEF InvOf

\* What was announced: it ends where an entry, or nothing, follows.
LEMMA ReadContentInv ==
    ASSUME FileTypeOK, NEW c \in Clients, InvOf(c), ReadContent(c)
    PROVE  InvOf(c)'
<1>1. OnlyClient(c)
  BY ClientOnly DEF ClientStep
<1> DEFINE n == expect[c]
           op == Now(c).op
<1>2. /\ cpc[c] = "content" /\ Len(down[c]) >= n /\ ~Gone(c)
      /\ up' = up /\ cauth' = cauth
      /\ down' = [down EXCEPT ![c] = SubSeq(@, n + 1, Len(@))]
      /\ expect' = [expect EXCEPT ![c] = 0]
      /\ op = "DOWNLOAD_DIR" => GoOn(c, "entries")
      /\ op # "DOWNLOAD_DIR" => Finish(c)
  BY DEF ReadContent, Received, Gone, Now
<1>3. /\ down[c] \in Seq(Unit) /\ down'[c] = SubSeq(down[c], n + 1, Len(down[c]))
      /\ expect'[c] \in Nat /\ n \in Nat /\ Len(down[c]) \in Nat
      /\ cpc \in [Clients -> ClientPlaces] /\ SizeOf(c) \in Nat
      /\ cauth'[c] \in BOOLEAN
  <2>1. /\ down \in [Clients -> Seq(Unit)] /\ expect \in [Clients -> Nat]
        /\ cpc \in [Clients -> ClientPlaces] /\ cauth \in [Clients -> BOOLEAN]
    BY Parts DEF Streams, ClientsOK
  <2>2. data[path[c]] \in Seq(Blocks)
    BY Parts DEF ProcsOK, DiskOK
  <2> QED
    BY <1>2, <2>1, <2>2 DEF SizeOf
<1>4. Answering(c) /\ LaterAnswer(c)
  BY <1>2 DEF InvOf, Together
<1>5. PICK marks \in SUBSET (1..(Len(down[c]) + 1)) :
         /\ Marked(op, down[c], marks, spc[c], SizeOf(c))
         /\ ContentAt(down[c], 1, n, marks, spc[c], SizeOf(c))
  BY <1>2, <1>4 DEF LaterAnswer
<1>6. up'[c] = <<>> /\ up'[c] = up[c] /\ n \in 0..Len(down[c]) /\ n + 1 = 1 + n
  BY <1>2, <1>3, <1>4 DEF Answering
<1>7. op \in Downloads
  BY <1>4 DEF LaterAnswer
<1>8. \E more \in SUBSET Nat : Marked(op, down[c], more, spc[c], SizeOf(c)) /\ n + 1 \in more
  <2>1. CASE n + 1 \in marks
    <3>1. marks \in SUBSET Nat
      BY <1>3
    <3> QED
      BY <1>5, <2>1, <3>1
  <2>2. CASE n + 1 \notin marks
    <3>1. spc[c] = "content" /\ Len(down[c]) = 0 /\ n = 0 /\ SizeOf(c) = 0
      BY <1>2, <1>3, <1>5, <1>6, <2>2 DEF ContentAt
    <3>2. MarkOK(op, down[c], 1, {1}, spc[c], SizeOf(c))
      BY <3>1 DEF MarkOK
    <3>3. Marked(op, down[c], {1}, spc[c], SizeOf(c))
      BY <3>1, <3>2 DEF Marked
    <3>4. n + 1 \in {1} /\ {1} \in SUBSET Nat
      BY <3>1
    <3> QED
      BY <3>3, <3>4
  <2> QED
    BY <2>1, <2>2
<1>9. PICK more \in SUBSET Nat :
         Marked(op, down[c], more, spc[c], SizeOf(c)) /\ n + 1 \in more
  BY <1>8
<1> HIDE DEF n
<1>10. CASE op = "DOWNLOAD_DIR"
  <2>1. todo' = todo /\ cpc'[c] = "entries"
    BY <1>2, <1>3, <1>10 DEF GoOn
  <2>2. Together(c)'
    BY <1>1, <1>2, <1>3, <1>4, <1>6, <1>7, <1>9, <1>10, <2>1, GoOnTogether
  <2>3. Admitted(c)' /\ Tidied(c)'
    BY <1>1, <1>2, <2>1, GoOnAdmitted, ServerSideStays DEF InvOf
  <2> QED
    BY <2>2, <2>3 DEF InvOf
<1>11. CASE op # "DOWNLOAD_DIR"
  <2>1. op = "DOWNLOAD"
    BY <1>7, <1>11 DEF Downloads
  <2>2. MarkOK(op, down[c], n + 1, more, spc[c], SizeOf(c))
    BY <1>9 DEF Marked
  <2>3. n = Len(down[c])
    BY <1>3, <2>1, <2>2 DEF MarkOK
  <2>4. down'[c] = <<>>
    BY <1>3, <2>3, Rest
  <2>5. spc[c] = "command" \/ (spc[c] = "content" /\ SizeOf(c) = 0)
    BY <2>1, <2>2 DEF MarkOK
  <2>6. Listening(c)
    <3>1. CASE spc[c] = "command"
      BY <3>1 DEF Listening
    <3>2. CASE spc[c] = "content" /\ SizeOf(c) = 0
      <4>1. walk[c] = <<>>
        BY <1>4, <2>1, <3>2 DEF Answering
      <4>2. data[path[c]] \in Seq(Blocks)
        BY Parts DEF ProcsOK, DiskOK
      <4>3. data[path[c]] = <<>>
        BY <3>2, <4>2 DEF SizeOf
      <4> QED
        BY <3>2, <4>1, <4>3 DEF Listening
    <3> QED
      BY <2>5, <3>1, <3>2
  <2>7. Finish(c)
    BY <1>2, <1>11
  <2> QED
    BY <1>1, <1>2, <1>3, <1>6, <2>4, <2>6, <2>7, FinishInv
<1> QED
  BY <1>10, <1>11

\* An entry of a directory: a directory, a file, or the end.
LEMMA ReadEntryInv ==
    ASSUME FileTypeOK, NEW c \in Clients, InvOf(c), ReadEntry(c)
    PROVE  InvOf(c)'
<1>1. OnlyClient(c)
  BY ClientOnly DEF ClientStep
<1> DEFINE w == WordAt(Head(down[c]))
           named == w \in {<<"MKDIR">>, <<"FILE">>}
<1>2. /\ cpc[c] = "entries" /\ down[c] # <<>> /\ ~Gone(c)
      /\ up' = up /\ cauth' = cauth /\ expect' = expect
      /\ Received(c, IF named THEN 2 ELSE 1)
      /\ w = <<"END_OF_DIR">> => Finish(c)
      /\ w # <<"END_OF_DIR">> /\ w = <<"FILE">> => GoOn(c, "size")
      /\ w # <<"END_OF_DIR">> /\ w # <<"FILE">> => GoOn(c, "entries")
  BY DEF ReadEntry, Gone
<1>3. /\ down[c] \in Seq(Unit) /\ Len(down[c]) \in Nat
      /\ expect'[c] \in Nat /\ cpc \in [Clients -> ClientPlaces]
      /\ cauth'[c] \in BOOLEAN /\ down \in [Clients -> Seq(Unit)]
  BY <1>2, Parts DEF Streams, ClientsOK
<1>4. Answering(c) /\ LaterAnswer(c)
  BY <1>2 DEF InvOf, Together
<1>5. PICK marks \in SUBSET (1..(Len(down[c]) + 1)) :
         /\ Marked("DOWNLOAD_DIR", down[c], marks, spc[c], SizeOf(c))
         /\ 1 \in marks
  BY <1>2, <1>4 DEF LaterAnswer
<1>6. /\ up'[c] = <<>> /\ up'[c] = up[c] /\ Now(c).op = "DOWNLOAD_DIR"
      /\ "DOWNLOAD_DIR" \in Downloads /\ marks \in SUBSET Nat
  BY <1>2, <1>3, <1>4 DEF Answering, LaterAnswer, Downloads
<1>7. down[c][1] = Head(down[c]) /\ 1 <= Len(down[c]) /\ 1 # Len(down[c]) + 1
  BY <1>2, <1>3
<1>8. MarkOK("DOWNLOAD_DIR", down[c], 1, marks, spc[c], SizeOf(c))
  BY <1>5 DEF Marked
<1>9. /\ <<"MKDIR">> # <<"FILE">> /\ <<"MKDIR">> # <<"END_OF_DIR">>
      /\ <<"FILE">> # <<"END_OF_DIR">>
  BY Letters
<1> HIDE DEF named
<1>10. CASE /\ down[c][1] = Text(<<"MKDIR">>) /\ 1 + 1 <= Len(down[c]) /\ 1 + 2 \in marks
  <2>1. w = <<"MKDIR">>
    BY <1>7, <1>10, Letters
  <2> HIDE DEF w
  <2>2. GoOn(c, "entries") /\ Received(c, 2)
    BY <1>2, <1>9, <2>1 DEF named
  <2>3. /\ todo' = todo /\ cpc'[c] = "entries"
        /\ down'[c] = SubSeq(down[c], 2 + 1, Len(down[c]))
        /\ 2 + 1 \in marks /\ 2 \in 0..Len(down[c])
    BY <1>3, <1>10, <2>2 DEF GoOn, Received
  <2>4. Together(c)'
    BY <1>1, <1>2, <1>3, <1>4, <1>5, <1>6, <2>3, GoOnTogether
  <2>5. Admitted(c)' /\ Tidied(c)'
    BY <1>1, <1>2, <2>3, GoOnAdmitted, ServerSideStays DEF InvOf
  <2> QED
    BY <2>4, <2>5 DEF InvOf
<1>11. CASE /\ down[c][1] = Text(<<"FILE">>)
            /\ SizeAtMark(down[c], 1 + 2, marks, spc[c], SizeOf(c))
  <2>1. w = <<"FILE">>
    BY <1>7, <1>11, Letters
  <2> HIDE DEF w
  <2>2. GoOn(c, "size") /\ Received(c, 2)
    BY <1>2, <1>9, <2>1 DEF named
  <2>3. /\ todo' = todo /\ cpc'[c] = "size"
        /\ down'[c] = SubSeq(down[c], 2 + 1, Len(down[c]))
    BY <1>3, <2>2 DEF GoOn, Received
  <2>4. SizeAtMark(down[c], 2 + 1, marks, spc[c], SizeOf(c)) /\ 2 \in 0..Len(down[c])
    <3>1. 1 + 2 = 2 + 1 /\ 1 + 2 <= Len(down[c])
      BY <1>11 DEF SizeAtMark
    <3> QED
      BY <1>3, <1>11, <3>1
  <2>5. Together(c)'
    BY <1>1, <1>2, <1>3, <1>4, <1>5, <1>6, <2>3, <2>4, GoOnTogether
  <2>6. Admitted(c)' /\ Tidied(c)'
    BY <1>1, <1>2, <2>3, GoOnAdmitted, ServerSideStays DEF InvOf
  <2> QED
    BY <2>5, <2>6 DEF InvOf
<1>12. CASE /\ down[c][1] = Text(<<"END_OF_DIR">>) /\ 1 = Len(down[c]) /\ spc[c] = "command"
  <2>1. w = <<"END_OF_DIR">>
    BY <1>7, <1>12, Letters
  <2> HIDE DEF w
  <2>2. Finish(c) /\ Received(c, 1)
    BY <1>2, <1>9, <2>1 DEF named
  <2>3. down'[c] = SubSeq(down[c], 1 + 1, Len(down[c]))
    BY <1>3, <2>2 DEF Received
  <2>4. down'[c] = <<>>
    BY <1>3, <1>12, <2>3, Rest
  <2>5. Listening(c)
    BY <1>12 DEF Listening
  <2> QED
    BY <1>1, <1>2, <1>3, <1>6, <2>2, <2>4, <2>5, FinishInv
<1> QED
  BY <1>7, <1>8, <1>10, <1>11, <1>12 DEF MarkOK

-----------------------------------------------------------------------------
(* The server process. *)

\* An answer goes to a client that is there; otherwise the process may end.
LEMMA AnswerView ==
    ASSUME FileTypeOK, NEW c \in Clients, NEW units, NEW next, Answer(c, units, next)
    PROVE  /\ ~Gone(c) => down'[c] = down[c] \o units /\ spc'[c] = next
           /\ Gone(c) => down'[c] = down[c] /\ spc'[c] \in {next, "exit"}
           /\ \A d \in Clients \ {c} : down'[d] = down[d] /\ spc'[d] = spc[d]
<1>1. DOMAIN down = Clients /\ DOMAIN spc = Clients
  BY DEF FileTypeOK
<1>2. \E to \in {next} \cup (IF Gone(c) THEN {"exit"} ELSE {}) : spc' = [spc EXCEPT ![c] = to]
  BY DEF Answer
<1>3. /\ spc'[c] \in {next} \cup (IF Gone(c) THEN {"exit"} ELSE {})
      /\ \A d \in Clients \ {c} : spc'[d] = spc[d]
  <2>1. PICK to \in {next} \cup (IF Gone(c) THEN {"exit"} ELSE {}) :
           spc' = [spc EXCEPT ![c] = to]
    BY <1>2
  <2>2. spc \in [Clients -> ServerPlaces]
    BY Fields
  <2> QED
    BY <2>1, <2>2
<1>4. down' = IF Gone(c) THEN down ELSE [down EXCEPT ![c] = @ \o units]
  BY DEF Answer
<1>5. down \in [Clients -> Seq(Unit)]
  BY DEF FileTypeOK
<1> QED
  BY <1>3, <1>4, <1>5

\* What a process has read is gone from its stream.
LEMMA ConsumedView ==
    ASSUME FileTypeOK, NEW c \in Clients, NEW n, Consumed(c, n)
    PROVE  /\ up'[c] = SubSeq(up[c], n + 1, Len(up[c]))
           /\ \A d \in Clients \ {c} : up'[d] = up[d]
  BY DEF Consumed, FileTypeOK

\* The client's side stays when its process does something.
LEMMA ClientSideStays ==
    ASSUME UNCHANGED clientVars, NEW c \in Clients
    PROVE  /\ cpc' = cpc /\ cauth' = cauth /\ todo' = todo /\ expect' = expect
           /\ Now(c)' = Now(c) /\ Gone(c)' = Gone(c) /\ Asks(c)' = Asks(c)
           /\ Admitted(c) /\ auth'[c] = auth[c] => Admitted(c)'
  BY DEF clientVars, Now, Gone, Asks, Admitted

\* What a process that waits for a command hears is the request its client is
\* at, or the part of it that was sent.
LEMMA Hears ==
    ASSUME FileTypeOK, NEW c \in Clients, InvOf(c), spc[c] = "command", up[c] # <<>>
    PROVE  /\ Asked(c) /\ cpc[c] \in {"reply", "gone"} /\ down[c] = <<>> /\ walk[c] = <<>>
           /\ Now(c) \in Exchange /\ Now(c) \in Asks(c)
           /\ up[c] \in Seq(Unit) /\ IsPrefix(up[c], Request(Now(c)))
           /\ ~Gone(c) => cpc[c] = "reply" /\ up[c] = Request(Now(c))
           /\ Len(Now(c).args) = Arguments[Now(c).op]
           /\ WordAt(Head(up[c])) = <<Now(c).op>>
           /\ IF Now(c).op \in EntryCommands
              THEN ~cauth[c] /\ Len(todo[c]) = 1 ELSE auth[c]
<1>1. cpc[c] \in ClientPlaces /\ up[c] \in Seq(Unit) /\ todo[c] \in Seq(Exchange)
  BY Parts DEF ClientsOK, Streams
<1>2. Asked(c) /\ cpc[c] \in {"reply", "gone"}
  BY <1>1 DEF InvOf, Together, Taking, Answering, ClientPlaces
<1>3. todo[c] # <<>> /\ down[c] = <<>> /\ walk[c] = <<>>
  BY <1>2 DEF Asked, InvOf, Tidied
<1>4. 1 \in DOMAIN todo[c] /\ todo[c][1] = Now(c) /\ Now(c) \in Exchange
  BY <1>1, <1>3 DEF Now
<1>5. /\ Now(c) \in Asks(c) /\ Len(Now(c).args) = Arguments[Now(c).op]
      /\ IF Now(c).op \in EntryCommands
         THEN ~cauth[c] /\ Len(todo[c]) = 1 ELSE auth[c]
  BY <1>4 DEF InvOf, Admitted
<1>6. ~Gone(c) => cpc[c] = "reply" /\ up[c] = Request(Now(c))
  BY <1>2 DEF Asked, Gone
<1>7. IsPrefix(up[c], Request(Now(c)))
  BY <1>1, <1>2, <1>4, RequestTypes, PrefixItself DEF Asked
<1>8. WordAt(Head(up[c])) = <<Now(c).op>>
  BY <1>1, <1>4, <1>5, <1>7, PartOfRequest
<1> QED
  BY <1>1, <1>2, <1>3, <1>4, <1>5, <1>6, <1>7, <1>8

\* A command that takes all of its arguments leaves nothing.
LEMMA HearsCommand ==
    ASSUME FileTypeOK, NEW c \in Clients, InvOf(c), NEW op, NEW n, Command(c, op, n)
    PROVE  /\ spc[c] = "command" /\ up[c] # <<>> /\ Now(c).op = op
           /\ \A k \in Nat : op # "UPLOAD" /\ k > Arguments[op] /\ Consumed(c, k)
                               => up'[c] = <<>>
<1>1. spc[c] = "command" /\ up[c] # <<>> /\ WordAt(Head(up[c])) = <<op>>
  BY DEF Command
<1>2. Now(c).op = op
  BY <1>1, Hears, Letters
<1>3. \A k \in Nat : op # "UPLOAD" /\ k > Arguments[op]
                       => SubSeq(up[c], k + 1, Len(up[c])) = <<>>
  BY <1>1, <1>2, Hears, PartOfRequest
<1> QED
  BY <1>1, <1>2, <1>3, ConsumedView

\* One text answers a request that has been read, and the process is ready for
\* the next.
LEMMA PlainAnswer ==
    ASSUME FileTypeOK, UNCHANGED clientVars, NEW c \in Clients,
           cpc[c] \in {"reply", "gone"}, down[c] = <<>>, up'[c] = <<>>,
           Admitted(c)', walk'[c] = <<>>,
           NEW w \in Answers, NEW next \in {"command", "append"},
           Answer(c, <<Text(<<w>>)>>, next),
           Now(c).op = "Login" /\ w = "LoginSuccess" => auth'[c],
           Now(c).op = "DOWNLOAD" => w = "FileNotFound" /\ next = "command",
           Now(c).op = "DOWNLOAD_DIR" => w = "DirectoryNotFound" /\ next = "command"
    PROVE  InvOf(c)'
<1> DEFINE units == <<Text(<<w>>)>>
<1>1. units \in Seq(Unit) /\ Len(units) = 1 /\ units[1] = Text(<<w>>)
  BY WordTypes, UnitTypes
<1>2. WordAt(units[1]) = <<w>>
  BY <1>1, Letters
<1> HIDE DEF units
<1>3. /\ Now(c)' = Now(c) /\ Gone(c)' = Gone(c) /\ cpc'[c] = cpc[c]
      /\ spc'[c] \in {next, "exit"}
      /\ ~Gone(c) => spc'[c] = next /\ down'[c] = units
  BY <1>1, AnswerView, ClientSideStays, EmptyJoined DEF units
<1>4. Tidied(c)'
  BY <1>3 DEF Tidied
<1>5. CASE Gone(c)
  <2>1. Together(c)'
    BY <1>3, <1>5, GoneTogether DEF Gone
  <2> QED
    BY <1>4, <2>1 DEF InvOf
<1>6. CASE ~Gone(c)
  <2>1. cpc'[c] = "reply" /\ down'[c] = units /\ spc'[c] = next
    BY <1>3, <1>6 DEF Gone
  <2>2. Answering(c)'
    BY <1>3, <2>1 DEF Answering, Downloads
  <2>3. down'[c] # <<>>
    BY <1>1, <2>1
  <2>4. Now(c).op = "Login" /\ AcceptsLogin(WordAt(units[1])) => auth'[c]
    BY <1>2, Letters DEF AcceptsLogin
  <2>5. Now(c).op = "DOWNLOAD" => WordAt(units[1]) = <<"FileNotFound">> /\ next = "command"
    BY <1>2
  <2>6. Now(c).op = "DOWNLOAD_DIR" =>
           WordAt(units[1]) = <<"DirectoryNotFound">> /\ next = "command"
    BY <1>2
  <2>7. FirstAnswer(c)'
    BY <1>1, <1>3, <2>1, <2>3, <2>4, <2>5, <2>6 DEF FirstAnswer
  <2>8. Together(c)'
    BY <2>1, <2>2, <2>7 DEF Together
  <2> QED
    BY <1>4, <2>8 DEF InvOf
<1> QED
  BY <1>5, <1>6

\* The commands that are always answered by one text.
LEMMA PlainCommand ==
    ASSUME FileTypeOK, NEW c \in Clients, InvOf(c), UNCHANGED clientVars,
           NEW op, NEW n, Command(c, op, n), op # "UPLOAD",
           NEW k \in Nat, k > Arguments[op], Consumed(c, k), walk'[c] = walk[c],
           Admitted(c)', NEW w \in Answers, NEW next \in {"command", "append"},
           Answer(c, <<Text(<<w>>)>>, next),
           op = "Login" /\ w = "LoginSuccess" => auth'[c],
           op = "DOWNLOAD" => w = "FileNotFound" /\ next = "command",
           op = "DOWNLOAD_DIR" => w = "DirectoryNotFound" /\ next = "command"
    PROVE  InvOf(c)'
<1>1. spc[c] = "command" /\ up[c] # <<>> /\ Now(c).op = op /\ up'[c] = <<>>
  BY HearsCommand
<1>2. cpc[c] \in {"reply", "gone"} /\ down[c] = <<>> /\ walk'[c] = <<>>
  BY <1>1, Hears
<1> QED
  BY <1>1, <1>2, PlainAnswer

\* The commands that change nothing here.
LEMMA LookInv ==
    ASSUME FileTypeOK, NEW c \in Clients, InvOf(c),
           ListFiles(c) \/ SearchFiles(c) \/ MakeDir(c) \/ ChangeDir(c)
    PROVE  InvOf(c)'
<1>1. UNCHANGED <<clientVars, auth, walk>>
  BY DEF ListFiles, SearchFiles, MakeDir, ChangeDir, procVars
<1>2. Admitted(c)'
  BY <1>1, ClientSideStays DEF InvOf
<1>3. ASSUME NEW op \in {"LIST", "SEARCH", "MKDIR", "CD"}, NEW n, Command(c, op, n),
             NEW w \in Answers, Reply(c, w), NEW k \in {1, 2}, k > Arguments[op],
             Consumed(c, k)
      PROVE  InvOf(c)'
  <2>1. Answer(c, <<Text(<<w>>)>>, "command")
    BY <1>3 DEF Reply
  <2>2. k \in Nat
    BY <1>3
  <2> QED
    BY <1>1, <1>2, <1>3, <2>1, <2>2, PlainCommand
<1>4. 1 > Arguments["LIST"] /\ 2 > Arguments["SEARCH"] /\ 2 > Arguments["MKDIR"]
      /\ 2 > Arguments["CD"]
  BY ArgumentCounts
<1>5. CASE ListFiles(c)
  BY <1>3, <1>4, <1>5 DEF ListFiles, Answers
<1>6. CASE SearchFiles(c)
  BY <1>3, <1>4, <1>6 DEF SearchFiles, Answers
<1>7. CASE MakeDir(c)
  <2>1. \E w \in Answers : Reply(c, w)
    BY <1>7 DEF MakeDir, Answers
  <2> QED
    BY <1>3, <1>4, <1>7, <2>1 DEF MakeDir
<1>8. CASE ChangeDir(c)
  <2>1. \E w \in Answers : Reply(c, w)
    BY <1>8 DEF ChangeDir, Answers
  <2> QED
    BY <1>3, <1>4, <1>8, <2>1 DEF ChangeDir
<1> QED
  BY <1>5, <1>6, <1>7, <1>8

\* A command nobody knows can only be END_OF_DIR.
LEMMA UnknownInv ==
    ASSUME FileTypeOK, NEW c \in Clients, InvOf(c), Unknown(c)
    PROVE  InvOf(c)'
<1>1. /\ spc[c] = "command" /\ up[c] # <<>> /\ Consumed(c, 1)
      /\ UNCHANGED <<clientVars, auth, walk>>
  BY DEF Unknown, procVars
<1>2. /\ cpc[c] \in {"reply", "gone"} /\ down[c] = <<>> /\ walk[c] = <<>>
      /\ WordAt(Head(up[c])) = <<Now(c).op>> /\ Now(c) \in Exchange
      /\ up[c] \in Seq(Unit) /\ IsPrefix(up[c], Request(Now(c)))
      /\ Len(Now(c).args) = Arguments[Now(c).op]
      /\ Now(c).op \notin EntryCommands => auth[c]
  BY <1>1, Hears
<1>3. auth[c]
  BY <1>2 DEF Unknown, EntryCommands
<1>4. /\ Now(c).op \notin {"Register", "Login", "LIST", "SEARCH", "MKDIR", "CD", "UPLOAD",
                           "DOWNLOAD", "DOWNLOAD_DIR"}
      /\ Reply(c, "Lenh_khong_hop_le")
  BY <1>2, <1>3 DEF Unknown
<1>5. Now(c).op = "END_OF_DIR"
  BY <1>2, <1>4 DEF Exchange, Commands
<1>6. up'[c] = <<>>
  <2>1. 1 \in Nat /\ 1 > Arguments[Now(c).op]
    BY <1>5, ArgumentCounts
  <2>2. SubSeq(up[c], 1 + 1, Len(up[c])) = <<>>
    BY <1>1, <1>2, <1>5, <2>1, PartOfRequest
  <2> QED
    BY <1>1, <2>2, ConsumedView
<1>7. Admitted(c)'
  BY <1>1, ClientSideStays DEF InvOf
<1>8. Answer(c, <<Text(<<"Lenh_khong_hop_le">>)>>, "command")
  BY <1>4 DEF Reply
<1>9. "Lenh_khong_hop_le" \in Answers /\ walk'[c] = <<>>
  BY <1>1, <1>2 DEF Answers
<1> QED
  BY <1>1, <1>2, <1>5, <1>6, <1>7, <1>8, <1>9, PlainAnswer

\* A registration.
LEMMA RegisterInv ==
    ASSUME FileTypeOK, NEW c \in Clients, InvOf(c), Register(c)
    PROVE  InvOf(c)'
<1>1. /\ Command(c, "Register", 2) /\ Consumed(c, 3)
      /\ UNCHANGED <<clientVars, auth, walk>>
  BY DEF Register
<1>2. \E w \in Answers, next \in {"command", "append"} : Answer(c, <<Text(<<w>>)>>, next)
  <2>1. \/ Reply(c, "UserExists") \/ Answer(c, <<Text(<<"RegisterSuccess">>)>>, "append")
    BY DEF Register
  <2> QED
    BY <2>1 DEF Reply, Answers
<1>3. Admitted(c)' /\ 3 \in Nat /\ 3 > Arguments["Register"] /\ walk'[c] = walk[c]
  BY <1>1, ClientSideStays, ArgumentCounts DEF InvOf, EntryCommands
<1> QED
  BY <1>1, <1>2, <1>3, PlainCommand

\* A login: the client is told what the server remembers.
LEMMA LoginInv ==
    ASSUME FileTypeOK, NEW c \in Clients, InvOf(c), Login(c)
    PROVE  InvOf(c)'
<1>1. /\ Command(c, "Login", 2) /\ Consumed(c, 3)
      /\ UNCHANGED <<clientVars, walk>>
  BY DEF Login
<1>2. PICK found \in BOOLEAN, w \in Answers :
         /\ auth' = [auth EXCEPT ![c] = found]
         /\ Reply(c, w) /\ (w = "LoginSuccess" => found)
  <2>1. PICK user \in Heard(c, 1), password \in Heard(c, 2) :
           LET known == accounts[cwd[c]]
               found == known # NoFile /\ <<user, password>> \in ToSet(known)
           IN /\ auth' = [auth EXCEPT ![c] = found]
              /\ Reply(c, IF known = NoFile THEN "Khong_the_mo_file_nguoi_dung"
                          ELSE IF found THEN "LoginSuccess" ELSE "LoginFailed")
    BY DEF Login
  <2> DEFINE known == accounts[cwd[c]]
             isIn  == known # NoFile /\ <<user, password>> \in ToSet(known)
             says  == IF known = NoFile THEN "Khong_the_mo_file_nguoi_dung"
                      ELSE IF isIn THEN "LoginSuccess" ELSE "LoginFailed"
  <2>2. isIn \in BOOLEAN /\ says \in Answers /\ (says = "LoginSuccess" => isIn)
    BY DEF Answers
  <2>3. auth' = [auth EXCEPT ![c] = isIn] /\ Reply(c, says)
    BY <2>1
  <2> HIDE DEF isIn, says
  <2> QED
    BY <2>2, <2>3
<1>3. spc[c] = "command" /\ up[c] # <<>> /\ Now(c).op = "Login"
  BY <1>1, HearsCommand
<1>4. ~cauth[c] /\ Len(todo[c]) = 1
  BY <1>3, Hears DEF EntryCommands
<1>5. auth'[c] = found
  BY <1>2 DEF FileTypeOK
<1>6. Admitted(c)'
  <2>1. cauth' = cauth /\ todo' = todo /\ cpc' = cpc /\ Gone(c)' = Gone(c)
    BY <1>1, ClientSideStays
  <2>2. todo[c][1] = Now(c) /\ DOMAIN todo[c] = {1}
    <3>1. todo[c] \in Seq(Exchange)
      BY Parts DEF ClientsOK
    <3>2. DOMAIN todo[c] = 1..1
      BY <1>4, <3>1
    <3>3. todo[c][1] = Head(todo[c])
      BY <1>4, <3>1
    <3> QED
      BY <3>2, <3>3 DEF Now
  <2>3. \A i \in DOMAIN todo[c] :
           todo[c][i] \in Asks(c) /\ Len(todo[c][i].args) = Arguments[todo[c][i].op]
           /\ todo[c][i].op \in EntryCommands
    BY <1>3, <2>2 DEF InvOf, Admitted, EntryCommands
  <2> QED
    BY <1>4, <2>1, <2>3 DEF InvOf, Admitted, Asks
<1>7. 3 \in Nat /\ 3 > Arguments["Login"] /\ walk'[c] = walk[c]
  BY <1>1, ArgumentCounts DEF EntryCommands
<1>8. Answer(c, <<Text(<<w>>)>>, "command") /\ (w = "LoginSuccess" => auth'[c])
  BY <1>2, <1>5 DEF Reply
<1> QED
  BY <1>1, <1>2, <1>6, <1>7, <1>8, PlainCommand

\* Where the process only moves on by itself.
LEMMA AcceptExitInv ==
    ASSUME FileTypeOK, NEW c \in Clients, InvOf(c), Accept(c) \/ Exit(c) \/ AppendAccount(c)
    PROVE  InvOf(c)'
<1>1. /\ UNCHANGED <<clientVars, down, up, auth, path, want, walk, data>>
      /\ spc[c] \in {"none", "command", "append"}
      /\ spc'[c] = "exit" \/ spc'[c] = "command"
  BY DEF Accept, Exit, AppendAccount, procVars, diskVars, FileTypeOK
<1>2. /\ Now(c)' = Now(c) /\ Gone(c)' = Gone(c) /\ cpc' = cpc /\ todo' = todo
      /\ Admitted(c)'
  BY <1>1, ClientSideStays DEF InvOf
<1>3. Tidied(c)'
  BY <1>1 DEF InvOf, Tidied
<1>4. CASE Exit(c)
  <2>1. Gone(c) /\ spc'[c] = "exit"
    BY <1>4 DEF Exit, FileTypeOK
  <2>2. Together(c)'
    BY <1>2, <2>1, GoneTogether DEF Gone
  <2> QED
    BY <1>2, <1>3, <2>2 DEF InvOf
<1>5. CASE Accept(c) \/ AppendAccount(c)
  <2>1. spc'[c] = "command" /\ spc[c] \in {"none", "append"}
    BY <1>5 DEF Accept, AppendAccount, FileTypeOK
  <2>2. Listening(c)'
    BY <2>1 DEF Listening
  <2>3. (Asked(c) => Asked(c)') /\ ~Taking(c) /\ (Answering(c) => Answering(c)')
    BY <1>1, <1>2, <2>1, <2>2 DEF Asked, Taking, Answering
  <2>4. Answering(c) => spc[c] = "append" /\ Now(c).op \notin Downloads
    BY <2>1 DEF Answering
  <2>5. ASSUME Answering(c), FirstAnswer(c) PROVE FirstAnswer(c)'
    <3>1. Now(c).op \notin Downloads
      BY <2>4, <2>5
    <3>2. Now(c).op # "DOWNLOAD" /\ Now(c).op # "DOWNLOAD_DIR"
      BY <3>1 DEF Downloads
    <3> QED
      BY <1>1, <1>2, <2>1, <2>5, <3>1, <3>2 DEF FirstAnswer
  <2>6. Answering(c) => ~LaterAnswer(c)
    BY <2>4 DEF LaterAnswer
  <2>7. spc'[c] # "body"
    BY <2>1
  <2>8. Together(c)'
    BY <1>1, <1>2, <2>2, <2>3, <2>5, <2>6, <2>7 DEF InvOf, Together
  <2> QED
    BY <1>2, <1>3, <2>8 DEF InvOf
<1> QED
  BY <1>4, <1>5

-----------------------------------------------------------------------------
(* Uploads. *)

\* The file of an upload is opened, unless it is an empty one, or the client is
\* gone before its path and its size are there.
LEMMA UploadOpenInv ==
    ASSUME FileTypeOK, NEW c \in Clients, InvOf(c), UploadOpen(c), UploadsFit
    PROVE  InvOf(c)'
<1>1. /\ auth[c] /\ Command(c, "UPLOAD", 1) /\ (Len(up[c]) > 2 \/ Gone(c))
      /\ UNCHANGED <<clientVars, auth, walk>>
  BY DEF UploadOpen
<1>2. spc[c] = "command" /\ up[c] # <<>> /\ Now(c).op = "UPLOAD"
  BY <1>1, HearsCommand
<1>3. /\ cpc[c] \in {"reply", "gone"} /\ down[c] = <<>> /\ walk[c] = <<>>
      /\ Now(c) \in Exchange /\ up[c] \in Seq(Unit)
      /\ IsPrefix(up[c], Request(Now(c))) /\ Len(Now(c).args) = Arguments[Now(c).op]
      /\ ~Gone(c) => up[c] = Request(Now(c))
      /\ Asked(c)
  BY <1>2, Hears
<1>4. /\ Now(c)' = Now(c) /\ Gone(c)' = Gone(c) /\ cpc' = cpc /\ todo' = todo
      /\ Admitted(c)' /\ walk'[c] = <<>>
  BY <1>1, <1>3, ClientSideStays DEF InvOf
<1>5. /\ \A n \in Nat : Len(up[c]) <= n => SubSeq(up[c], n + 1, Len(up[c])) = <<>>
      /\ Len(up[c]) <= Len(Now(c).content) + 3
      /\ Len(up[c]) > 2 => /\ SizeAt(up[c][3]) = Len(Now(c).content)
                           /\ IsPrefix(SubSeq(up[c], 4, Len(up[c])), BlocksOf(Now(c)))
                           /\ up[c] = Request(Now(c))
                                => SubSeq(up[c], 4, Len(up[c])) = BlocksOf(Now(c))
  BY <1>2, <1>3, PartOfRequest
<1>6. Len(Now(c).content) \in Nat /\ Len(up[c]) \in Nat
  BY <1>3, BlocksAre
<1>7. PICK a \in Heard(c, 1) :
          LET p == At(c, a)
          IN IF Blocked(p) \/ Len(up[c]) < 3
             THEN UploadFails(c, "UploadFailed", 2) /\ kind' = Makes(p)
             ELSE IF Unwritable(p)
             THEN UploadFails(c, "FileOpenError", 3) /\ kind' = Makes(p)
             ELSE OpenForWriting(c, p) /\ kind' = [Makes(p) EXCEPT ![p] = "file"]
  BY DEF UploadOpen
<1> DEFINE p == At(c, a)
<1>8. Len(up[c]) > 2 => ~Blocked(p) /\ (SizeAt(up[c][3]) > 0 => ~Unwritable(p))
  <2>1. ASSUME Len(up[c]) > 2
        PROVE  ~Blocked(p) /\ (SizeAt(up[c][3]) > 0 => ~Unwritable(p))
    <3>1. a = WordAt(up[c][2])
      BY <1>6, <1>7, <2>1 DEF Heard
    <3>2. Command(c, "UPLOAD", 2)
      BY <1>1, <2>1 DEF Command
    <3> QED
      BY <1>1, <2>1, <3>1, <3>2 DEF UploadsFit
  <2> QED
    BY <2>1
<1> HIDE DEF p
<1>9. ASSUME NEW w \in {"UploadFailed", "FileOpenError"}, NEW n \in Nat,
             UploadFails(c, w, n), Len(up[c]) <= n
      PROVE  InvOf(c)'
  <2>1. Answer(c, <<Text(<<w>>)>>, "command") /\ w \in Answers
    BY <1>9 DEF UploadFails, Reply, Answers
  <2>2. up'[c] = <<>>
    BY <1>5, <1>9, ConsumedView DEF UploadFails
  <2> QED
    BY <1>1, <1>2, <1>3, <1>4, <2>1, <2>2, PlainAnswer
<1>10. CASE UploadFails(c, "UploadFailed", 2) /\ (Blocked(p) \/ Len(up[c]) < 3)
  <2>1. Len(up[c]) <= 2
    BY <1>6, <1>8, <1>10
  <2> QED
    BY <1>9, <1>10, <2>1
<1>11. CASE /\ UploadFails(c, "FileOpenError", 3) /\ Len(up[c]) >= 3
            /\ Unwritable(p)
  <2>1. Len(up[c]) > 2
    BY <1>6, <1>11
  <2>2. Len(Now(c).content) = 0
    BY <1>5, <1>6, <1>8, <1>11, <2>1
  <2>3. Len(up[c]) <= 3
    BY <1>5, <1>6, <2>2
  <2> QED
    BY <1>9, <1>11, <2>3
<1>12. CASE OpenForWriting(c, p) /\ Len(up[c]) >= 3 /\ p \in Paths
  <2>1. Len(up[c]) > 2
    BY <1>6, <1>12
  <2>2. /\ spc'[c] = "body" /\ path'[c] = p /\ want'[c] = Len(Now(c).content)
        /\ data'[p] = <<>> /\ down' = down
    BY <1>5, <1>12, <2>1 DEF OpenForWriting, FileTypeOK
  <2>3. up'[c] = SubSeq(up[c], 3 + 1, Len(up[c])) /\ 3 + 1 = 4
    BY <1>12, ConsumedView DEF OpenForWriting
  <2>4. /\ IsPrefix(up'[c], BlocksOf(Now(c)))
        /\ ~Gone(c) => up'[c] = BlocksOf(Now(c))
    BY <1>3, <1>5, <2>1, <2>3
  <2>5. todo[c] # <<>>
    BY <1>3 DEF Asked
  <2>6. Taking(c)'
    BY <1>2, <1>3, <1>4, <2>2, <2>4, <2>5 DEF Taking, BlocksOf
  <2>7. Together(c)'
    BY <1>3, <1>4, <2>6 DEF Together
  <2>8. Tidied(c)'
    BY <1>4, <2>2 DEF Tidied
  <2> QED
    BY <1>4, <2>7, <2>8 DEF InvOf
<1> QED
  <2>1. Len(up[c]) < 3 \/ Len(up[c]) >= 3
    BY <1>6
  <2> QED
    BY <1>7, <1>10, <1>11, <1>12, <2>1 DEF p, Unwritable

\* A process that takes an upload: it has all of it, or what the client had sent.
LEMMA Takes ==
    ASSUME FileTypeOK, NEW c \in Clients, InvOf(c), spc[c] = "body"
    PROVE  /\ Taking(c) /\ cpc[c] \in {"reply", "gone"}
           /\ Now(c) \in Exchange /\ Now(c) \in Asks(c)
           /\ up[c] \in Seq(Unit) /\ want[c] = Len(Now(c).content)
           /\ Len(up[c]) <= want[c] /\ (~Gone(c) => Len(up[c]) = want[c])
           /\ \A i \in 1..Len(up[c]) : BlockAt(up[c][i]) = Now(c).content[i]
           /\ data[path[c]] = <<>> /\ walk[c] = <<>>
<1>1. cpc[c] \in ClientPlaces /\ up[c] \in Seq(Unit) /\ todo[c] \in Seq(Exchange)
  BY Parts DEF ClientsOK, Streams
<1>2. Taking(c) /\ cpc[c] \in {"reply", "gone"}
  BY <1>1 DEF InvOf, Together, Asked, Listening, Answering, ClientPlaces
<1>3. todo[c] # <<>> /\ want[c] = Len(Now(c).content)
      /\ IF Gone(c) THEN IsPrefix(up[c], BlocksOf(Now(c))) ELSE up[c] = BlocksOf(Now(c))
  BY <1>2 DEF Taking
<1>4. 1 \in DOMAIN todo[c] /\ todo[c][1] = Now(c) /\ Now(c) \in Exchange
  BY <1>1, <1>3 DEF Now
<1>5. Now(c) \in Asks(c)
  BY <1>4 DEF InvOf, Admitted
<1>6. /\ BlocksOf(Now(c)) \in Seq(Unit) /\ Len(BlocksOf(Now(c))) = Len(Now(c).content)
      /\ \A i \in 1..Len(Now(c).content) : BlocksOf(Now(c))[i] = Block(Now(c).content[i])
      /\ Len(Now(c).content) \in Nat
  BY <1>4, BlocksAre
<1>7. IsPrefix(up[c], BlocksOf(Now(c))) /\ (~Gone(c) => Len(up[c]) = want[c])
  BY <1>3, <1>6, PrefixItself
<1>8. Len(up[c]) <= want[c] /\ \A i \in 1..Len(up[c]) : up[c][i] = BlocksOf(Now(c))[i]
  BY <1>1, <1>3, <1>6, <1>7, PrefixItems
<1>9. ASSUME NEW i \in 1..Len(up[c]) PROVE BlockAt(up[c][i]) = Now(c).content[i]
  <2>1. i \in 1..Len(Now(c).content)
    BY <1>1, <1>3, <1>6, <1>8, <1>9
  <2>2. up[c][i] = Block(Now(c).content[i])
    BY <1>6, <1>8, <1>9, <2>1
  <2> QED
    BY <2>2, Letters
<1>10. data[path[c]] = <<>> /\ walk[c] = <<>>
  BY DEF InvOf, Tidied
<1> QED
  BY <1>1, <1>2, <1>3, <1>4, <1>5, <1>7, <1>8, <1>9, <1>10

\* Whatever there is goes into the file.
LEMMA UploadBodyInv ==
    ASSUME FileTypeOK, NEW c \in Clients, InvOf(c), UploadBody(c)
    PROVE  InvOf(c)'
<1> DEFINE got == IF Len(up[c]) < want[c] THEN Len(up[c]) ELSE want[c]
<1>1. /\ spc[c] = "body" /\ Consumed(c, got) /\ UNCHANGED <<clientVars, auth, walk>>
      /\ Reply(c, IF got < want[c] THEN "UploadFailed" ELSE "UploadSuccess")
  BY DEF UploadBody, procVars
<1>2. /\ Taking(c) /\ cpc[c] \in {"reply", "gone"} /\ up[c] \in Seq(Unit)
      /\ want[c] = Len(Now(c).content) /\ Len(up[c]) <= want[c]
      /\ walk[c] = <<>> /\ Now(c) \in Exchange
  BY <1>1, Takes
<1>3. want[c] \in Nat /\ Len(up[c]) \in Nat
  BY <1>2, BlocksAre
<1>4. got = Len(up[c])
  BY <1>2, <1>3
<1>5. PICK w \in {"UploadFailed", "UploadSuccess"} : Answer(c, <<Text(<<w>>)>>, "command")
  BY <1>1 DEF Reply
<1> HIDE DEF got
<1>6. up'[c] = <<>>
  <2>1. SubSeq(up[c], got + 1, Len(up[c])) = <<>>
    BY <1>2, <1>3, <1>4, Rest
  <2> QED
    BY <1>1, <2>1, ConsumedView
<1>7. Now(c).op = "UPLOAD" /\ down[c] = <<>>
  BY <1>2 DEF Taking
<1>8. Admitted(c)' /\ walk'[c] = <<>> /\ w \in Answers
  BY <1>1, <1>2, ClientSideStays DEF InvOf, Answers
<1> QED
  BY <1>1, <1>2, <1>5, <1>6, <1>7, <1>8, PlainAnswer

-----------------------------------------------------------------------------
(* Downloads. *)

\* Where a process that sends stands with its client.
LEMMA Sends ==
    ASSUME FileTypeOK, NEW c \in Clients, InvOf(c), spc[c] \in {"content", "walk"}
    PROVE  /\ up[c] \in Seq(Unit) /\ down[c] \in Seq(Unit)
           /\ \/ Gone(c)
              \/ cpc[c] \in {"menu", "send"} /\ up[c] = <<>> /\ down[c] = <<>> /\ Listening(c)
              \/ cpc[c] = "reply" /\ Asked(c)
              \/ cpc[c] = "reply" /\ Answering(c) /\ FirstAnswer(c)
              \/ cpc[c] \in {"size", "content", "entries"} /\ Answering(c) /\ LaterAnswer(c)
           /\ Gone(c) => Asked(c) \/ up[c] = <<>>
           /\ Listening(c) => /\ spc[c] = "content" /\ walk[c] = <<>>
                              /\ ~Gone(c) => data[path[c]] = <<>>
<1>1. cpc[c] \in ClientPlaces /\ up[c] \in Seq(Unit) /\ down[c] \in Seq(Unit)
  BY Parts DEF ClientsOK, Streams
<1>2. ~Taking(c)
  BY DEF Taking
<1>3. Listening(c) => /\ spc[c] = "content" /\ walk[c] = <<>>
                      /\ ~Gone(c) => data[path[c]] = <<>>
  BY DEF Listening
<1>4. Gone(c) => Asked(c) \/ up[c] = <<>>
  BY <1>2 DEF InvOf, Together, Gone
<1> QED
  BY <1>1, <1>2, <1>3, <1>4 DEF InvOf, Together, Gone, ClientPlaces

\* The marks of an answer that is being sent.
LEMMA AnswerMarks ==
    ASSUME NEW c \in Clients, Answering(c), spc[c] \in {"content", "walk"},
           \/ cpc[c] = "reply" /\ FirstAnswer(c)
           \/ cpc[c] \in {"size", "content", "entries"} /\ LaterAnswer(c)
    PROVE  /\ Now(c).op = IF spc[c] = "content" /\ walk[c] = <<>>
                          THEN "DOWNLOAD" ELSE "DOWNLOAD_DIR"
           /\ \E marks \in SUBSET (1..(Len(down[c]) + 1)) :
                 /\ Marked(Now(c).op, down[c], marks, spc[c], SizeOf(c))
                 /\ cpc[c] = "reply" =>
                       /\ down[c] # <<>>
                       /\ Now(c).op = "DOWNLOAD" =>
                             /\ WordAt(down[c][1]) # <<"FileNotFound">>
                             /\ SizeAtMark(down[c], 2, marks, spc[c], SizeOf(c))
                       /\ Now(c).op = "DOWNLOAD_DIR" =>
                             WordAt(down[c][1]) # <<"DirectoryNotFound">> /\ 2 \in marks
                 /\ cpc[c] = "size" => SizeAtMark(down[c], 1, marks, spc[c], SizeOf(c))
                 /\ cpc[c] = "content" =>
                       ContentAt(down[c], 1, expect[c], marks, spc[c], SizeOf(c))
                 /\ cpc[c] = "entries" => Now(c).op = "DOWNLOAD_DIR" /\ 1 \in marks
<1>1. Now(c).op = IF spc[c] = "content" /\ walk[c] = <<>> THEN "DOWNLOAD" ELSE "DOWNLOAD_DIR"
  BY DEF Answering
<1>2. spc[c] # "command" /\ Now(c).op \in {"DOWNLOAD", "DOWNLOAD_DIR"}
  BY <1>1
<1>3. CASE cpc[c] = "reply" /\ FirstAnswer(c)
  <2>1. CASE Now(c).op = "DOWNLOAD"
    BY <1>1, <1>2, <1>3, <2>1 DEF FirstAnswer
  <2>2. CASE Now(c).op = "DOWNLOAD_DIR"
    BY <1>1, <1>2, <1>3, <2>2 DEF FirstAnswer
  <2> QED
    BY <1>2, <2>1, <2>2
<1>4. CASE cpc[c] \in {"size", "content", "entries"} /\ LaterAnswer(c)
  BY <1>1, <1>4 DEF LaterAnswer
<1> QED
  BY <1>3, <1>4

\* What is sent goes on from there.
LEMMA SendingTogether ==
    ASSUME FileTypeOK, UNCHANGED clientVars, NEW c \in Clients, ~Gone(c), Answering(c)',
           cpc[c] \in {"reply", "size", "content", "entries"},
           Now(c).op \in Downloads, spc[c] \in {"content", "walk"},
           NEW units \in Seq(Unit), down'[c] = down[c] \o units,
           NEW marks \in SUBSET (1..(Len(down[c]) + 1)),
           cpc[c] = "reply" =>
               /\ down[c] # <<>>
               /\ Now(c).op = "DOWNLOAD" =>
                     /\ WordAt(down[c][1]) # <<"FileNotFound">>
                     /\ SizeAtMark(down[c], 2, marks, spc[c], SizeOf(c))
               /\ Now(c).op = "DOWNLOAD_DIR" =>
                     WordAt(down[c][1]) # <<"DirectoryNotFound">> /\ 2 \in marks,
           cpc[c] = "size" => SizeAtMark(down[c], 1, marks, spc[c], SizeOf(c)),
           cpc[c] = "content" => ContentAt(down[c], 1, expect[c], marks, spc[c], SizeOf(c)),
           cpc[c] = "entries" => Now(c).op = "DOWNLOAD_DIR" /\ 1 \in marks,
           NEW more, marks \subseteq more,
           Marked(Now(c).op, down[c] \o units, more, spc'[c], SizeOf(c)'),
           \A i : SizeAtMark(down[c], i, marks, spc[c], SizeOf(c)) /\ i \in Nat \ {0}
                    => SizeAtMark(down[c] \o units, i, more, spc'[c], SizeOf(c)'),
           \A i, n : ContentAt(down[c], i, n, marks, spc[c], SizeOf(c))
                       => ContentAt(down[c] \o units, i, n, more, spc'[c], SizeOf(c)')
    PROVE  Together(c)'
<1> DEFINE s == down[c] \o units
<1>1. /\ cpc' = cpc /\ Now(c)' = Now(c) /\ expect' = expect
  BY ClientSideStays
<1>2. down[c] \in Seq(Unit)
  BY Parts DEF Streams
<1>3. /\ Len(s) = Len(down[c]) + Len(units) /\ \A i \in 1..Len(down[c]) : s[i] = down[c][i]
  BY <1>2, Joined
<1>4. down[c] # <<>> => s # <<>> /\ s[1] = down[c][1]
  <2>1. ASSUME down[c] # <<>> PROVE s # <<>> /\ s[1] = down[c][1]
    <3>1. 1 \in 1..Len(down[c]) /\ Len(units) \in Nat /\ Len(down[c]) \in Nat
      BY <1>2, <2>1
    <3>2. Len(s) # 0
      BY <1>3, <3>1
    <3>3. Len(<<>>) = 0
      OBVIOUS
    <3>4. s # <<>>
      BY <3>2, <3>3
    <3> QED
      BY <1>3, <3>1, <3>4
  <2> QED
    BY <2>1
<1> HIDE DEF s
<1>5. /\ down'[c] = s /\ Marked(Now(c).op, s, more, spc'[c], SizeOf(c)')
      /\ more \in SUBSET (1..(Len(s) + 1))
      /\ \A i : SizeAtMark(down[c], i, marks, spc[c], SizeOf(c)) /\ i \in Nat \ {0}
                  => SizeAtMark(s, i, more, spc'[c], SizeOf(c)')
      /\ \A i, n : ContentAt(down[c], i, n, marks, spc[c], SizeOf(c))
                     => ContentAt(s, i, n, more, spc'[c], SizeOf(c)')
  BY DEF s, Marked
<1>6. CASE cpc[c] = "reply"
  <2>1. /\ Now(c).op = "DOWNLOAD" => SizeAtMark(s, 2, more, spc'[c], SizeOf(c)')
        /\ Now(c).op = "DOWNLOAD_DIR" => 2 \in more
    BY <1>5, <1>6
  <2>2. FirstAnswer(c)'
    BY <1>1, <1>4, <1>5, <1>6, <2>1 DEF FirstAnswer
  <2> QED
    BY <1>1, <1>6, <2>2 DEF Together
<1>7. CASE cpc[c] # "reply"
  <2>1. /\ cpc[c] = "size" => SizeAtMark(s, 1, more, spc'[c], SizeOf(c)')
        /\ cpc[c] = "content" => ContentAt(s, 1, expect[c], more, spc'[c], SizeOf(c)')
        /\ cpc[c] = "entries" => Now(c).op = "DOWNLOAD_DIR" /\ 1 \in more
    BY <1>5
  <2>2. LaterAnswer(c)'
    BY <1>1, <1>5, <2>1 DEF LaterAnswer
  <2> QED
    BY <1>1, <1>7, <2>2 DEF Together
<1> QED
  BY <1>6, <1>7

\* The content that was announced, nothing if the file is empty.
LEMMA SendContentInv ==
    ASSUME FileTypeOK, NEW c \in Clients, InvOf(c), SendContent(c)
    PROVE  InvOf(c)'
<1> DEFINE t    == [i \in DOMAIN data[path[c]] |-> Block(data[path[c]][i])]
           next == IF walk[c] = <<>> THEN "command" ELSE "walk"
<1>1. /\ spc[c] = "content" /\ Answer(c, t, next)
      /\ UNCHANGED <<clientVars, up, auth, path, walk, data>>
  BY DEF SendContent, procVars, diskVars
<1>2. /\ t \in Seq(Unit) /\ Len(t) = SizeOf(c) /\ SizeOf(c) \in Nat
      /\ data[path[c]] = <<>> => t = <<>>
  <2>1. data[path[c]] \in Seq(Blocks)
    BY Parts DEF ProcsOK, DiskOK
  <2>2. \A i \in 1..Len(data[path[c]]) : Block(data[path[c]][i]) \in Unit
    BY <2>1, UnitTypes
  <2>3. t \in Seq(Unit) /\ Len(t) = Len(data[path[c]]) /\ Len(t) \in Nat
    BY <2>1, <2>2
  <2>4. \A s \in Seq(Unit) : Len(s) = 0 => s = <<>>
    OBVIOUS
  <2>5. data[path[c]] = <<>> => Len(data[path[c]]) = 0
    OBVIOUS
  <2> HIDE DEF t
  <2> QED
    BY <2>3, <2>4, <2>5 DEF SizeOf
<1> HIDE DEF t
<1>3. /\ ~Gone(c) => down'[c] = down[c] \o t /\ spc'[c] = next
      /\ Gone(c) => down'[c] = down[c] /\ spc'[c] \in {next, "exit"}
  BY <1>1, AnswerView
<1>4. /\ Now(c)' = Now(c) /\ Gone(c)' = Gone(c) /\ cpc' = cpc /\ todo' = todo
      /\ Admitted(c)' /\ up' = up /\ walk' = walk
  BY <1>1, ClientSideStays DEF InvOf
<1>5. Tidied(c)'
  BY <1>3, <1>4 DEF Tidied
<1>6. /\ down[c] \in Seq(Unit)
      /\ Gone(c) => Asked(c) \/ up[c] = <<>>
      /\ Listening(c) => walk[c] = <<>> /\ (~Gone(c) => data[path[c]] = <<>>)
      /\ \/ Gone(c)
         \/ cpc[c] \in {"menu", "send"} /\ up[c] = <<>> /\ down[c] = <<>> /\ Listening(c)
         \/ cpc[c] = "reply" /\ Asked(c)
         \/ cpc[c] = "reply" /\ Answering(c) /\ FirstAnswer(c)
         \/ cpc[c] \in {"size", "content", "entries"} /\ Answering(c) /\ LaterAnswer(c)
  BY <1>1, Sends
<1>7. ASSUME Listening(c), ~Gone(c), down[c] = <<>> PROVE down'[c] = <<>> /\ Listening(c)'
  <2>1. t = <<>> /\ next = "command"
    BY <1>2, <1>6, <1>7
  <2>2. <<>> \o t = <<>>
    BY <1>2, <2>1, EmptyJoined
  <2> QED
    BY <1>3, <1>7, <2>1, <2>2 DEF Listening
<1>8. CASE Gone(c)
  <2>1. CASE up[c] = <<>>
    <3>1. up'[c] = <<>> /\ spc'[c] # "body" /\ cpc'[c] = "gone"
      BY <1>3, <1>4, <1>8, <2>1 DEF Gone
    <3> QED
      BY <1>4, <1>5, <3>1, GoneTogether DEF InvOf
  <2>2. CASE Asked(c)
    <3>1. spc'[c] = "command" \/ spc'[c] = "exit"
      BY <1>3, <1>6, <1>8, <2>2 DEF Asked
    <3>2. cpc'[c] = "gone" /\ down'[c] = <<>>
      BY <1>3, <1>4, <1>8, <2>2 DEF Gone, Asked
    <3>3. spc'[c] = "command" => Asked(c)'
      BY <1>4, <1>8, <2>2, <3>2 DEF Asked, Listening
    <3> QED
      BY <1>4, <1>5, <3>1, <3>2, <3>3, GoneTogether DEF InvOf
  <2> QED
    BY <1>6, <1>8, <2>1, <2>2
<1>9. CASE ~Gone(c) /\ cpc[c] \in {"menu", "send"} /\ up[c] = <<>> /\ down[c] = <<>> /\ Listening(c)
  BY <1>4, <1>5, <1>7, <1>9, QuietTogether DEF InvOf
<1>10. CASE ~Gone(c) /\ cpc[c] = "reply" /\ Asked(c)
  <2>1. down'[c] = <<>> /\ Listening(c)'
    BY <1>7, <1>10 DEF Asked
  <2>2. Asked(c)'
    BY <1>4, <1>10, <2>1 DEF Asked
  <2>3. Together(c)'
    BY <1>4, <1>10, <2>2 DEF Together
  <2> QED
    BY <1>4, <1>5, <2>3 DEF InvOf
<1>11. CASE /\ ~Gone(c) /\ Answering(c)
            /\ \/ cpc[c] = "reply" /\ FirstAnswer(c)
               \/ cpc[c] \in {"size", "content", "entries"} /\ LaterAnswer(c)
  <2>1. Now(c).op = IF walk[c] = <<>> THEN "DOWNLOAD" ELSE "DOWNLOAD_DIR"
    BY <1>1, <1>11, AnswerMarks
  <2>2. PICK marks \in SUBSET (1..(Len(down[c]) + 1)) :
           /\ Marked(Now(c).op, down[c], marks, spc[c], SizeOf(c))
           /\ cpc[c] = "reply" =>
                 /\ down[c] # <<>>
                 /\ Now(c).op = "DOWNLOAD" =>
                       /\ WordAt(down[c][1]) # <<"FileNotFound">>
                       /\ SizeAtMark(down[c], 2, marks, spc[c], SizeOf(c))
                 /\ Now(c).op = "DOWNLOAD_DIR" =>
                       WordAt(down[c][1]) # <<"DirectoryNotFound">> /\ 2 \in marks
           /\ cpc[c] = "size" => SizeAtMark(down[c], 1, marks, spc[c], SizeOf(c))
           /\ cpc[c] = "content" => ContentAt(down[c], 1, expect[c], marks, spc[c], SizeOf(c))
           /\ cpc[c] = "entries" => Now(c).op = "DOWNLOAD_DIR" /\ 1 \in marks
    BY <1>1, <1>11, AnswerMarks
  <2>3. next = (IF Now(c).op = "DOWNLOAD" THEN "command" ELSE "walk") /\ spc'[c] = next
        /\ down'[c] = down[c] \o t
    BY <1>3, <1>11, <2>1
  <2>4. Answering(c)'
    BY <1>4, <1>11, <2>1, <2>3 DEF Answering
  <2> DEFINE more == marks \cup {Len(down[c]) + Len(t) + 1}
  <2>5. marks \in SUBSET Nat /\ Marked(Now(c).op, down[c], marks, "content", Len(t))
    BY <1>1, <1>2, <1>6, <2>2
  <2>6. /\ Marked(Now(c).op, down[c] \o t, more, next, SizeOf(c)')
        /\ \A i : SizeAtMark(down[c], i, marks, "content", Len(t)) /\ i \in Nat \ {0}
                    => SizeAtMark(down[c] \o t, i, more, next, SizeOf(c)')
        /\ \A i, n : ContentAt(down[c], i, n, marks, "content", Len(t))
                       => ContentAt(down[c] \o t, i, n, more, next, SizeOf(c)')
    BY <1>2, <1>6, <2>3, <2>5, MarksSent
  <2>7. marks \subseteq more
    OBVIOUS
  <2>8. Now(c).op \in Downloads
    BY <2>1 DEF Downloads
  <2> HIDE DEF more, next
  <2>9. /\ Marked(Now(c).op, down[c] \o t, more, spc'[c], SizeOf(c)')
        /\ \A i : SizeAtMark(down[c], i, marks, spc[c], SizeOf(c)) /\ i \in Nat \ {0}
                    => SizeAtMark(down[c] \o t, i, more, spc'[c], SizeOf(c)')
        /\ \A i, n : ContentAt(down[c], i, n, marks, spc[c], SizeOf(c))
                       => ContentAt(down[c] \o t, i, n, more, spc'[c], SizeOf(c)')
    BY <1>1, <1>2, <2>3, <2>6
  <2>10. cpc[c] \in {"reply", "size", "content", "entries"}
    BY <1>11
  <2>11. Together(c)'
    BY <1>1, <1>2, <1>11, <2>2, <2>3, <2>4, <2>7, <2>8, <2>9, <2>10, SendingTogether
  <2> QED
    BY <1>4, <1>5, <2>11 DEF InvOf
<1> QED
  BY <1>6, <1>8, <1>9, <1>10, <1>11

\* The answer to a download that has just been asked for.
LEMMA FirstSent ==
    ASSUME FileTypeOK, UNCHANGED clientVars, NEW c \in Clients,
           cpc[c] \in {"reply", "gone"}, down[c] = <<>>, up'[c] = <<>>,
           NEW units \in Seq(Unit), NEW next \in {"content", "walk"}, Answer(c, units, next),
           Admitted(c)', ~Gone(c) /\ down'[c] = units /\ spc'[c] = next =>
                             Answering(c)' /\ FirstAnswer(c)'
    PROVE  InvOf(c)'
<1>1. /\ cpc'[c] = cpc[c]
      /\ spc'[c] \in {next, "exit"}
      /\ ~Gone(c) => spc'[c] = next /\ down'[c] = units
  <2>1. down[c] \o units = units
    BY EmptyJoined
  <2> QED
    BY <2>1, AnswerView, ClientSideStays
<1>2. Tidied(c)'
  BY <1>1 DEF Tidied
<1>3. CASE Gone(c)
  <2>1. Together(c)'
    BY <1>1, <1>3, GoneTogether DEF Gone
  <2> QED
    BY <1>2, <2>1 DEF InvOf
<1>4. CASE ~Gone(c)
  <2>1. cpc'[c] = "reply" /\ Answering(c)' /\ FirstAnswer(c)'
    BY <1>1, <1>4 DEF Gone
  <2>2. Together(c)'
    BY <2>1 DEF Together
  <2> QED
    BY <1>2, <2>2 DEF InvOf
<1> QED
  BY <1>3, <1>4

\* The size of a file is announced.
LEMMA DownloadOpenInv ==
    ASSUME FileTypeOK, NEW c \in Clients, InvOf(c), DownloadOpen(c), SendsFiles'
    PROVE  InvOf(c)'
<1>1. /\ Command(c, "DOWNLOAD", 1) /\ Consumed(c, 2)
      /\ UNCHANGED <<clientVars, auth, walk, kind, data>>
  BY DEF DownloadOpen, diskVars
<1>2. /\ spc[c] = "command" /\ up[c] # <<>> /\ Now(c).op = "DOWNLOAD"
      /\ 2 \in Nat /\ 2 > Arguments["DOWNLOAD"] /\ up'[c] = <<>>
  BY <1>1, HearsCommand, ArgumentCounts
<1>3. cpc[c] \in {"reply", "gone"} /\ down[c] = <<>> /\ walk[c] = <<>>
  BY <1>2, Hears
<1>4. /\ Now(c)' = Now(c) /\ Gone(c)' = Gone(c) /\ Admitted(c)' /\ walk'[c] = <<>>
  BY <1>1, <1>3, ClientSideStays DEF InvOf
<1>5. PICK a \in Heard(c, 1) :
          LET p == At(c, a)
          IN IF p \in Paths /\ kind[p] # "none"
             THEN /\ Answer(c, <<Text(<<"FileFound">>), Size(Announced(p))>>, "content")
                  /\ path' = [path EXCEPT ![c] = p]
             ELSE Reply(c, "FileNotFound") /\ UNCHANGED path
  BY DEF DownloadOpen
<1> DEFINE p == At(c, a)
           units == <<Text(<<"FileFound">>), Size(Announced(p))>>
<1>6. CASE p \in Paths /\ kind[p] # "none"
  <2>1. path'[c] = p /\ Answer(c, units, "content")
    BY <1>5, <1>6, Fields
  <2>2. /\ units \in Seq(Unit) /\ Len(units) = 2 /\ units[1] = Text(<<"FileFound">>)
        /\ units[2] = Size(Announced(p)) /\ units # <<>>
    BY <1>6, AnnouncedTypes, WordTypes, UnitTypes DEF Answers
  <2> HIDE DEF p, units
  <2>3. WordAt(units[1]) # <<"FileNotFound">>
    BY <2>2, Letters
  <2>4. ASSUME ~Gone(c), down'[c] = units, spc'[c] = "content"
        PROVE  Answering(c)' /\ FirstAnswer(c)'
    <3>1. kind[p] = "file"
      BY <1>1, <1>4, <2>1, <2>4 DEF SendsFiles
    <3>2. Announced(p) = SizeOf(c)'
      BY <1>1, <2>1, <3>1 DEF Announced, SizeOf
    <3>3. SizeAtMark(units, 2, {}, "content", SizeOf(c)')
      <4>1. units[2].k = "size" /\ units[2].n = SizeOf(c)' /\ 2 <= Len(units) /\ 2 + 1 = Len(units) + 1
        BY <2>2, <3>2, Letters
      <4>2. ContentAt(units, 2 + 1, units[2].n, {}, "content", SizeOf(c)')
        BY <4>1 DEF ContentAt
      <4> QED
        BY <4>1, <4>2 DEF SizeAtMark
    <3>4. Marked("DOWNLOAD", units, {}, "content", SizeOf(c)')
      BY DEF Marked
    <3>5. FirstAnswer(c)'
      BY <1>2, <1>4, <2>2, <2>3, <2>4, <3>3, <3>4 DEF FirstAnswer, Downloads
    <3>6. Answering(c)'
      BY <1>2, <1>4, <2>4 DEF Answering
    <3> QED
      BY <3>5, <3>6
  <2> QED
    BY <1>1, <1>2, <1>3, <1>4, <2>1, <2>2, <2>4, FirstSent
<1>7. CASE ~(p \in Paths /\ kind[p] # "none")
  <2>1. Answer(c, <<Text(<<"FileNotFound">>)>>, "command") /\ "FileNotFound" \in Answers
    BY <1>5, <1>7 DEF Reply, Answers
  <2> QED
    BY <1>1, <1>2, <1>3, <1>4, <2>1, PlainAnswer
<1> QED
  BY <1>6, <1>7

-----------------------------------------------------------------------------
(* Directories. *)

\* A directory is announced.
LEMMA DirOpenInv ==
    ASSUME FileTypeOK, NEW c \in Clients, InvOf(c), DirOpen(c)
    PROVE  InvOf(c)'
<1>1. /\ Command(c, "DOWNLOAD_DIR", 1) /\ Consumed(c, 2)
      /\ UNCHANGED <<clientVars, auth>>
  BY DEF DirOpen
<1>2. /\ spc[c] = "command" /\ up[c] # <<>> /\ Now(c).op = "DOWNLOAD_DIR"
      /\ 2 \in Nat /\ 2 > Arguments["DOWNLOAD_DIR"] /\ up'[c] = <<>>
  BY <1>1, HearsCommand, ArgumentCounts
<1>3. cpc[c] \in {"reply", "gone"} /\ down[c] = <<>> /\ walk[c] = <<>>
  BY <1>2, Hears
<1>4. /\ Now(c)' = Now(c) /\ Gone(c)' = Gone(c) /\ Admitted(c)'
  BY <1>1, <1>3, ClientSideStays DEF InvOf
<1>5. PICK a \in Heard(c, 1) :
          LET p == At(c, a)
          IN IF p \in Paths /\ kind[p] = "dir"
             THEN /\ Answer(c, <<Text(<<"DirectoryFound">>)>>, "walk")
                  /\ walk' = [walk EXCEPT ![c] = <<Entries(p)>>]
             ELSE Reply(c, "DirectoryNotFound") /\ UNCHANGED walk
  BY DEF DirOpen
<1> DEFINE p == At(c, a)
           units == <<Text(<<"DirectoryFound">>)>>
<1>6. CASE Answer(c, units, "walk")
  <2>1. /\ units \in Seq(Unit) /\ Len(units) = 1 /\ units[1] = Text(<<"DirectoryFound">>)
        /\ units # <<>>
    BY WordTypes, UnitTypes DEF Answers
  <2>2. Answer(c, units, "walk")
    BY <1>6
  <2> HIDE DEF units
  <2>3. WordAt(units[1]) # <<"DirectoryNotFound">>
    BY <2>1, Letters
  <2>4. ASSUME ~Gone(c), down'[c] = units, spc'[c] = "walk"
        PROVE  Answering(c)' /\ FirstAnswer(c)'
    <3>1. MarkOK("DOWNLOAD_DIR", units, 2, {2}, "walk", SizeOf(c)')
      BY <2>1 DEF MarkOK
    <3>2. Marked("DOWNLOAD_DIR", units, {2}, "walk", SizeOf(c)')
      BY <2>1, <3>1 DEF Marked
    <3>3. {2} \in SUBSET (1..(Len(units) + 1))
      BY <2>1
    <3>4. FirstAnswer(c)'
      BY <1>2, <1>4, <2>1, <2>3, <2>4, <3>2, <3>3 DEF FirstAnswer, Downloads
    <3>5. Answering(c)'
      BY <1>2, <1>4, <2>4 DEF Answering
    <3> QED
      BY <3>4, <3>5
  <2> QED
    BY <1>1, <1>2, <1>3, <1>4, <2>1, <2>2, <2>4, FirstSent
<1>7. CASE Reply(c, "DirectoryNotFound") /\ UNCHANGED walk
  <2>1. Answer(c, <<Text(<<"DirectoryNotFound">>)>>, "command") /\ "DirectoryNotFound" \in Answers
    BY <1>7 DEF Reply, Answers
  <2>2. walk'[c] = <<>>
    BY <1>3, <1>7
  <2> QED
    BY <1>1, <1>2, <1>3, <1>4, <2>1, <2>2, PlainAnswer
<1> QED
  BY <1>5, <1>6, <1>7

\* The next entry, or the end, of a directory: the marks after it are among added.
LEMMA WalkInv ==
    ASSUME FileTypeOK, UNCHANGED <<clientVars, up, auth>>, NEW c \in Clients, InvOf(c),
           spc[c] = "walk", NEW units \in Seq(Unit), NEW next \in {"walk", "content", "command"},
           next = "content" => walk'[c] # <<>>,
           next = "command" => walk'[c] = <<>>,
           ~Gone(c) => down'[c] = down[c] \o units /\ spc'[c] = next,
           Gone(c) => spc'[c] \in {next, "exit"},
           NEW added, Len(down[c]) + 1 \in added,
           added \subseteq {Len(down[c]) + 1, Len(down[c]) + Len(units) + 1},
           \A more : added \subseteq more => \A i \in added :
               MarkOK("DOWNLOAD_DIR", down[c] \o units, i, more, next, SizeOf(c)')
    PROVE  InvOf(c)'
<1>1. /\ Now(c)' = Now(c) /\ Gone(c)' = Gone(c) /\ cpc' = cpc /\ todo' = todo
      /\ Admitted(c)' /\ up' = up
  BY ClientSideStays DEF InvOf
<1>2. Tidied(c)'
  BY <1>1 DEF Tidied
<1>3. ~Listening(c) /\ ~Asked(c)
  BY DEF Listening, Asked
<1>4. /\ down[c] \in Seq(Unit) /\ (Gone(c) => up[c] = <<>>)
      /\ \/ Gone(c)
         \/ cpc[c] = "reply" /\ Answering(c) /\ FirstAnswer(c)
         \/ cpc[c] \in {"size", "content", "entries"} /\ Answering(c) /\ LaterAnswer(c)
  BY <1>3, Sends
<1>5. CASE Gone(c)
  <2>1. up'[c] = <<>> /\ spc'[c] # "body" /\ cpc'[c] = "gone"
    BY <1>1, <1>4, <1>5 DEF Gone
  <2> QED
    BY <1>1, <1>2, <2>1, GoneTogether DEF InvOf
<1>6. CASE /\ ~Gone(c) /\ Answering(c)
           /\ \/ cpc[c] = "reply" /\ FirstAnswer(c)
              \/ cpc[c] \in {"size", "content", "entries"} /\ LaterAnswer(c)
  <2>1. Now(c).op = "DOWNLOAD_DIR"
    BY <1>6, AnswerMarks
  <2>2. PICK marks \in SUBSET (1..(Len(down[c]) + 1)) :
           /\ Marked(Now(c).op, down[c], marks, spc[c], SizeOf(c))
           /\ cpc[c] = "reply" =>
                 /\ down[c] # <<>>
                 /\ Now(c).op = "DOWNLOAD" =>
                       /\ WordAt(down[c][1]) # <<"FileNotFound">>
                       /\ SizeAtMark(down[c], 2, marks, spc[c], SizeOf(c))
                 /\ Now(c).op = "DOWNLOAD_DIR" =>
                       WordAt(down[c][1]) # <<"DirectoryNotFound">> /\ 2 \in marks
           /\ cpc[c] = "size" => SizeAtMark(down[c], 1, marks, spc[c], SizeOf(c))
           /\ cpc[c] = "content" => ContentAt(down[c], 1, expect[c], marks, spc[c], SizeOf(c))
           /\ cpc[c] = "entries" => Now(c).op = "DOWNLOAD_DIR" /\ 1 \in marks
    BY <1>6, AnswerMarks
  <2>3. spc'[c] = next /\ down'[c] = down[c] \o units
    BY <1>6
  <2>4. Answering(c)'
    BY <1>1, <1>6, <2>1, <2>3 DEF Answering
  <2> DEFINE more == marks \cup added
  <2>5. Len(down[c]) \in Nat /\ Len(units) \in Nat
    BY <1>4
  <2>6. /\ more \in SUBSET Nat /\ marks \in SUBSET Nat /\ marks \subseteq more
        /\ more \subseteq marks \cup {Len(down[c]) + 1, Len(down[c]) + Len(units) + 1}
        /\ added \subseteq more
    BY <2>5
  <2>7. \A i \in more \ 1..Len(down[c]) : i \in added
    <3>1. ASSUME NEW i \in marks, i \notin 1..Len(down[c]) PROVE i \in added
      <4>1. i \in 1..(Len(down[c]) + 1)
        BY <3>1
      <4>2. i = Len(down[c]) + 1
        BY <2>5, <3>1, <4>1
      <4> QED
        BY <4>2
    <3> QED
      BY <3>1
  <2> HIDE DEF more
  <2>8. \A i \in more \ 1..Len(down[c]) :
           MarkOK("DOWNLOAD_DIR", down[c] \o units, i, more, next, SizeOf(c)')
    BY <2>6, <2>7
  <2>9. Marked("DOWNLOAD_DIR", down[c], marks, "walk", SizeOf(c)) /\ Len(down[c]) + 1 \in more
    BY <2>1, <2>2, <2>6
  <2>10. /\ Marked("DOWNLOAD_DIR", down[c] \o units, more, next, SizeOf(c)')
         /\ \A i : SizeAtMark(down[c], i, marks, "walk", SizeOf(c)) /\ i \in Nat \ {0}
                     => SizeAtMark(down[c] \o units, i, more, next, SizeOf(c)')
         /\ \A i, n : ContentAt(down[c], i, n, marks, "walk", SizeOf(c))
                        => ContentAt(down[c] \o units, i, n, more, next, SizeOf(c)')
    BY <1>4, <2>6, <2>8, <2>9, MarksGrow
  <2>11. /\ Marked(Now(c).op, down[c] \o units, more, spc'[c], SizeOf(c)')
         /\ \A i : SizeAtMark(down[c], i, marks, spc[c], SizeOf(c)) /\ i \in Nat \ {0}
                     => SizeAtMark(down[c] \o units, i, more, spc'[c], SizeOf(c)')
         /\ \A i, n : ContentAt(down[c], i, n, marks, spc[c], SizeOf(c))
                        => ContentAt(down[c] \o units, i, n, more, spc'[c], SizeOf(c)')
    BY <2>1, <2>3, <2>10
  <2>12. Now(c).op \in Downloads /\ cpc[c] \in {"reply", "size", "content", "entries"}
    BY <1>6, <2>1 DEF Downloads
  <2>13. Together(c)'
    BY <1>6, <2>2, <2>3, <2>4, <2>6, <2>11, <2>12, SendingTogether
  <2> QED
    BY <1>1, <1>2, <2>13 DEF InvOf
<1> QED
  BY <1>4, <1>5, <1>6

\* Three items put at the end.
LEMMA AtTheEnd ==
    ASSUME NEW s \in Seq(Unit), NEW t \in Seq(Unit)
    PROVE  /\ Len(s) \in Nat /\ Len(t) \in Nat /\ Len(s \o t) = Len(s) + Len(t)
           /\ Len(t) >= 1 => (s \o t)[Len(s) + 1] = t[1]
           /\ Len(t) >= 3 => (s \o t)[Len(s) + 3] = t[3]
<1>1. /\ Len(s) \in Nat /\ Len(t) \in Nat /\ Len(s \o t) = Len(s) + Len(t)
      /\ \A i \in 1..Len(t) : (s \o t)[i + Len(s)] = t[i]
  BY Joined
<1>2. Len(t) >= 1 => (s \o t)[1 + Len(s)] = t[1]
  BY <1>1
<1>3. Len(t) >= 3 => (s \o t)[3 + Len(s)] = t[3]
  BY <1>1
<1>4. 1 + Len(s) = Len(s) + 1 /\ 3 + Len(s) = Len(s) + 3
  BY <1>1
<1> QED
  BY <1>1, <1>2, <1>3, <1>4

\* A directory or a file in it.
LEMMA DirEntryInv ==
    ASSUME FileTypeOK, NEW c \in Clients, InvOf(c), DirEntry(c)
    PROVE  InvOf(c)'
<1>1. PICK q \in Last(walk[c]) : SendSubdirectory(c, q) \/ SendFileHeader(c, q)
  BY DEF DirEntry
<1>2. spc[c] = "walk" /\ UNCHANGED <<clientVars, up, auth, kind, data>>
  BY DEF DirEntry, diskVars
<1>3. walk[c] \in Seq(SUBSET Paths) /\ walk[c] # <<>> /\ down[c] \in Seq(Unit)
      /\ walk \in [Clients -> Seq(SUBSET Paths)]
  BY <1>2, Parts DEF ProcsOK, Stands, Streams
<1>4. Last(walk[c]) \in SUBSET Paths
  BY <1>3, Fronts
<1>5. q \in Paths /\ q \in Word
  BY <1>1, <1>4, WordTypes
<1> DEFINE s == down[c]
<1>6. CASE SendSubdirectory(c, q)
  <2> DEFINE units == <<Text(<<"MKDIR">>), Text(q)>>
  <2>1. units \in Seq(Unit) /\ Len(units) = 2 /\ units[1] = Text(<<"MKDIR">>)
    BY <1>5, WordTypes, UnitTypes DEF Answers
  <2>2. Answer(c, units, "walk")
    BY <1>6 DEF SendSubdirectory
  <2> HIDE DEF units
  <2>3. /\ ~Gone(c) => down'[c] = s \o units /\ spc'[c] = "walk"
        /\ Gone(c) => spc'[c] \in {"walk", "exit"}
    BY <2>2, AnswerView
  <2> DEFINE added == {Len(s) + 1, Len(s) + Len(units) + 1}
  <2>4. /\ Len(s \o units) = Len(s) + 2 /\ (s \o units)[Len(s) + 1] = Text(<<"MKDIR">>)
        /\ Len(s) \in Nat
    <3>1. /\ Len(s) \in Nat /\ Len(units) \in Nat /\ Len(s \o units) = Len(s) + Len(units)
          /\ Len(units) >= 1 => (s \o units)[Len(s) + 1] = units[1]
          /\ Len(units) >= 3 => (s \o units)[Len(s) + 3] = units[3]
      BY <1>3, <2>1, AtTheEnd
    <3> QED
      BY <2>1, <3>1
  <2>5. ASSUME NEW i \in added, NEW more, added \subseteq more
        PROVE  MarkOK("DOWNLOAD_DIR", s \o units, i, more, "walk", SizeOf(c)')
    <3>1. CASE i = Len(s) + 1
      <4>1. i + 2 \in more /\ i + 1 <= Len(s \o units) /\ i <= Len(s \o units)
        BY <2>1, <2>4, <2>5, <3>1
      <4> QED
        BY <2>4, <3>1, <4>1 DEF MarkOK
    <3>2. CASE i = Len(s) + Len(units) + 1
      <4>1. i = Len(s \o units) + 1
        BY <2>1, <2>4, <3>2
      <4> QED
        BY <4>1 DEF MarkOK
    <3> QED
      BY <2>5, <3>1, <3>2
  <2>6. Len(s) + 1 \in added /\ added \subseteq {Len(s) + 1, Len(s) + Len(units) + 1}
    OBVIOUS
  <2> HIDE DEF added
  <2> QED
    BY <1>2, <2>1, <2>3, <2>5, <2>6, WalkInv
<1>7. CASE SendFileHeader(c, q)
  <2> DEFINE units == <<Text(<<"FILE">>), Text(q), Size(Announced(q))>>
             rest  == ReplaceAt(walk[c], Len(walk[c]), Last(walk[c]) \ {q})
  <2>1. /\ units \in Seq(Unit) /\ Len(units) = 3 /\ units[1] = Text(<<"FILE">>)
        /\ units[3] = Size(Announced(q))
    BY <1>5, AnnouncedTypes, WordTypes, UnitTypes DEF Answers
  <2>2. /\ Answer(c, units, "content") /\ kind[q] = "file"
        /\ path' = [path EXCEPT ![c] = q] /\ walk' = [walk EXCEPT ![c] = rest]
    BY <1>7 DEF SendFileHeader
  <2>3. rest # <<>>
    <3>1. Last(walk[c]) \ {q} \in SUBSET Paths
      BY <1>4
    <3> QED
      BY <1>3, <3>1, Replaced
  <2> HIDE DEF units, rest
  <2>4. walk'[c] # <<>> /\ path'[c] = q
    BY <1>3, <2>2, <2>3, Fields
  <2>5. Announced(q) = SizeOf(c)'
    BY <1>2, <2>2, <2>4 DEF Announced, SizeOf
  <2>6. /\ ~Gone(c) => down'[c] = s \o units /\ spc'[c] = "content"
        /\ Gone(c) => spc'[c] \in {"content", "exit"}
    BY <2>2, AnswerView
  <2> DEFINE added == {Len(s) + 1}
  <2>7. /\ Len(s \o units) = Len(s) + 3 /\ (s \o units)[Len(s) + 1] = Text(<<"FILE">>)
        /\ (s \o units)[Len(s) + 3] = Size(Announced(q)) /\ Len(s) \in Nat
    <3>1. /\ Len(s) \in Nat /\ Len(units) \in Nat /\ Len(s \o units) = Len(s) + Len(units)
          /\ Len(units) >= 1 => (s \o units)[Len(s) + 1] = units[1]
          /\ Len(units) >= 3 => (s \o units)[Len(s) + 3] = units[3]
      BY <1>3, <2>1, AtTheEnd
    <3> QED
      BY <2>1, <3>1
  <2>8. ASSUME NEW i \in added, NEW more, added \subseteq more
        PROVE  MarkOK("DOWNLOAD_DIR", s \o units, i, more, "content", SizeOf(c)')
    <3>1. i + 2 = Len(s \o units) /\ i <= Len(s \o units) /\ i = Len(s) + 1 /\ i + 2 = Len(s) + 3
      BY <2>7, <2>8
    <3>2. (s \o units)[i + 2].k = "size" /\ (s \o units)[i + 2].n = SizeOf(c)'
      BY <2>5, <2>7, <3>1, Letters
    <3>3. SizeAtMark(s \o units, i + 2, more, "content", SizeOf(c)')
      BY <2>7, <3>1, <3>2 DEF SizeAtMark, ContentAt
    <3> QED
      BY <2>7, <3>1, <3>3 DEF MarkOK
  <2>9. Len(s) + 1 \in added /\ added \subseteq {Len(s) + 1, Len(s) + Len(units) + 1}
    OBVIOUS
  <2> HIDE DEF added
  <2> QED
    BY <1>2, <2>1, <2>4, <2>6, <2>8, <2>9, WalkInv
<1> QED
  BY <1>1, <1>6, <1>7

\* The end of the directory, or of one in it.
LEMMA DirEndInv ==
    ASSUME FileTypeOK, NEW c \in Clients, InvOf(c), DirEnd(c)
    PROVE  InvOf(c)'
<1>1. /\ spc[c] = "walk" /\ UNCHANGED <<clientVars, up, auth>>
      /\ walk' = [walk EXCEPT ![c] = Front(@)]
  BY DEF DirEnd
<1>2. walk[c] \in Seq(SUBSET Paths) /\ down[c] \in Seq(Unit)
      /\ walk \in [Clients -> Seq(SUBSET Paths)]
  BY Parts DEF ProcsOK, Streams
<1> DEFINE s == down[c]
           added == {Len(s) + 1}
<1>3. CASE Len(walk[c]) = 1
  <2> DEFINE units == <<Text(<<"END_OF_DIR">>)>>
  <2>1. units \in Seq(Unit) /\ Len(units) = 1 /\ units[1] = Text(<<"END_OF_DIR">>)
    BY WordTypes, UnitTypes DEF Answers
  <2>2. Answer(c, units, "command")
    BY <1>3 DEF DirEnd, Reply
  <2> HIDE DEF units
  <2>3. /\ ~Gone(c) => down'[c] = s \o units /\ spc'[c] = "command"
        /\ Gone(c) => spc'[c] \in {"command", "exit"}
    BY <2>2, AnswerView
  <2>4. walk'[c] = <<>>
    <3>1. walk'[c] = SubSeq(walk[c], 1, 0)
      BY <1>1, <1>2, <1>3 DEF Front
    <3>2. \A t \in Seq(SUBSET Paths) : SubSeq(t, 1, 0) = <<>>
      OBVIOUS
    <3> QED
      BY <1>2, <3>1, <3>2
  <2>5. /\ Len(s \o units) = Len(s) + 1 /\ (s \o units)[Len(s) + 1] = Text(<<"END_OF_DIR">>)
        /\ Len(s) \in Nat
    <3>1. /\ Len(s) \in Nat /\ Len(units) \in Nat /\ Len(s \o units) = Len(s) + Len(units)
          /\ Len(units) >= 1 => (s \o units)[Len(s) + 1] = units[1]
          /\ Len(units) >= 3 => (s \o units)[Len(s) + 3] = units[3]
      BY <1>2, <2>1, AtTheEnd
    <3> QED
      BY <2>1, <3>1
  <2>6. ASSUME NEW i \in added, NEW more, added \subseteq more
        PROVE  MarkOK("DOWNLOAD_DIR", s \o units, i, more, "command", SizeOf(c)')
    BY <2>5, <2>6 DEF MarkOK
  <2>7. Len(s) + 1 \in added /\ added \subseteq {Len(s) + 1, Len(s) + Len(units) + 1}
    OBVIOUS
  <2> HIDE DEF added
  <2> QED
    BY <1>1, <2>1, <2>3, <2>4, <2>6, <2>7, WalkInv
<1>4. CASE Len(walk[c]) # 1
  <2>1. down' = down /\ spc' = spc
    BY <1>4 DEF DirEnd
  <2>2. <<>> \in Seq(Unit) /\ s \o <<>> = s /\ Len(s) \in Nat /\ Len(<<>>) = 0
    BY <1>2, EmptyJoined
  <2>3. ASSUME NEW i \in added, NEW more, added \subseteq more
        PROVE  MarkOK("DOWNLOAD_DIR", s \o <<>>, i, more, "walk", SizeOf(c)')
    BY <2>2, <2>3 DEF MarkOK
  <2>4. Len(s) + 1 \in added /\ added \subseteq {Len(s) + 1, Len(s) + Len(<<>>) + 1}
    OBVIOUS
  <2>5. /\ ~Gone(c) => down'[c] = s \o <<>> /\ spc'[c] = "walk"
        /\ Gone(c) => spc'[c] \in {"walk", "exit"}
    BY <1>1, <2>1, <2>2
  <2> HIDE DEF added
  <2> QED
    BY <1>1, <2>2, <2>3, <2>4, <2>5, WalkInv
<1> QED
  BY <1>3, <1>4

-----------------------------------------------------------------------------
(* The others, and the files. *)

\* A step of the process of c is no step of another client or process.
LEMMA OnlyServer ==
    ASSUME FileTypeOK, NEW c \in Clients, ServerStep(c), NEW d \in Clients \ {c}
    PROVE  /\ UNCHANGED clientVars
           /\ up'[d] = up[d] /\ down'[d] = down[d] /\ spc'[d] = spc[d] /\ auth'[d] = auth[d]
           /\ path'[d] = path[d] /\ want'[d] = want[d] /\ walk'[d] = walk[d]
<1>1. /\ auth \in [Clients -> BOOLEAN] /\ path \in [Clients -> Paths]
      /\ want \in [Clients -> Nat] /\ walk \in [Clients -> Seq(SUBSET Paths)]
      /\ spc \in [Clients -> ServerPlaces]
  BY Parts DEF ProcsOK
<1>2. CASE Accept(c) \/ Exit(c) \/ AppendAccount(c)
  BY <1>1, <1>2 DEF Accept, Exit, AppendAccount, procVars
<1>3. CASE Unknown(c)
  BY <1>3, ConsumedView, AnswerView DEF Unknown, Reply, procVars
<1>4. CASE ListFiles(c) \/ SearchFiles(c)
  BY <1>4, ConsumedView, AnswerView DEF ListFiles, SearchFiles, Reply, procVars
<1>5. CASE MakeDir(c)
  BY <1>5, ConsumedView, AnswerView DEF MakeDir, Reply, procVars
<1>6. CASE ChangeDir(c)
  BY <1>6, ConsumedView, AnswerView DEF ChangeDir, Reply
<1>7. CASE Register(c)
  BY <1>7, ConsumedView, AnswerView DEF Register, Reply
<1>8. CASE Login(c)
  BY <1>1, <1>8, ConsumedView, AnswerView DEF Login, Reply
<1>9. CASE UploadOpen(c)
  <2>1. PICK p : \/ \E w, n : UploadFails(c, w, n)
                 \/ OpenForWriting(c, p)
    BY <1>9 DEF UploadOpen
  <2>2. CASE \E w, n : UploadFails(c, w, n)
    BY <1>9, <2>2, ConsumedView, AnswerView DEF UploadOpen, UploadFails, Reply
  <2>3. CASE OpenForWriting(c, p)
    BY <1>1, <1>9, <2>3, ConsumedView DEF UploadOpen, OpenForWriting
  <2> QED
    BY <2>1, <2>2, <2>3
<1>10. CASE UploadBody(c)
  BY <1>10, ConsumedView, AnswerView DEF UploadBody, Reply, procVars
<1>11. CASE DownloadOpen(c)
  <2>1. PICK p, units, next : /\ Answer(c, units, next)
                              /\ path' = path \/ path' = [path EXCEPT ![c] = p]
    BY <1>11 DEF DownloadOpen, Reply
  <2> QED
    BY <1>1, <1>11, <2>1, ConsumedView, AnswerView DEF DownloadOpen
<1>12. CASE SendContent(c)
  BY <1>12, AnswerView DEF SendContent, procVars
<1>13. CASE DirOpen(c)
  <2>1. PICK first, units, next : /\ Answer(c, units, next)
                                  /\ walk' = walk \/ walk' = [walk EXCEPT ![c] = first]
    BY <1>13 DEF DirOpen, Reply
  <2> QED
    BY <1>1, <1>13, <2>1, ConsumedView, AnswerView DEF DirOpen
<1>14. CASE DirEntry(c)
  <2>1. PICK p, rest, units, next : /\ Answer(c, units, next)
                                    /\ path' = path \/ path' = [path EXCEPT ![c] = p]
                                    /\ walk' = [walk EXCEPT ![c] = rest]
    BY <1>14 DEF DirEntry, SendSubdirectory, SendFileHeader
  <2> QED
    BY <1>1, <1>14, <2>1, AnswerView DEF DirEntry
<1>15. CASE DirEnd(c)
  <2>1. (\E units, next : Answer(c, units, next)) \/ UNCHANGED <<down, spc>>
    BY <1>15 DEF DirEnd, Reply
  <2> QED
    BY <1>1, <1>15, <2>1, AnswerView DEF DirEnd
<1> QED
  BY <1>2, <1>3, <1>4, <1>5, <1>6, <1>7, <1>8, <1>9, <1>10, <1>11, <1>12, <1>13, <1>14,
     <1>15
  DEF ServerStep

\* Only an upload changes a file, when it is opened and when it is written.
LEMMA WhatIsWritten ==
    ASSUME FileTypeOK, NEW c \in Clients, ServerStep(c)
    PROVE  \/ /\ data' = data
              /\ \A p \in Paths : kind'[p] = "file" => kind[p] = "file"
           \/ /\ UploadOpen(c) /\ spc'[c] = "body" /\ path'[c] \in Paths
              /\ data' = [data EXCEPT ![path'[c]] = <<>>]
              /\ \A p \in Paths \ {path'[c]} : kind'[p] = "file" => kind[p] = "file"
           \/ UploadBody(c) /\ kind' = kind
<1>1. kind \in [Paths -> {"none", "dir", "file"}]
  BY Fields DEF DiskOK
<1>2. CASE UploadOpen(c)
  <2>1. PICK a \in Heard(c, 1) :
            LET p == At(c, a)
            IN IF Blocked(p) \/ Len(up[c]) < 3
               THEN UploadFails(c, "UploadFailed", 2) /\ kind' = Makes(p)
               ELSE IF Unwritable(p)
               THEN UploadFails(c, "FileOpenError", 3) /\ kind' = Makes(p)
               ELSE OpenForWriting(c, p) /\ kind' = [Makes(p) EXCEPT ![p] = "file"]
    BY <1>2 DEF UploadOpen
  <2> DEFINE p == At(c, a)
  <2>2. \/ data' = data /\ kind' = Makes(p)
        \/ p \in Paths /\ OpenForWriting(c, p) /\ kind' = [Makes(p) EXCEPT ![p] = "file"]
    BY <2>1 DEF UploadFails, Unwritable
  <2> HIDE DEF p
  <2>3. /\ Makes(p) \in [Paths -> {"none", "dir", "file"}]
        /\ \A q \in Paths : Makes(p)[q] = "file" => kind[q] = "file"
    BY MakesTypes
  <2>4. CASE data' = data /\ kind' = Makes(p)
    BY <2>3, <2>4
  <2>5. CASE p \in Paths /\ OpenForWriting(c, p) /\ kind' = [Makes(p) EXCEPT ![p] = "file"]
    <3>1. spc'[c] = "body" /\ path'[c] = p /\ data' = [data EXCEPT ![p] = <<>>]
      BY <2>5, Fields DEF OpenForWriting
    <3> QED
      BY <1>2, <2>3, <2>5, <3>1
  <2> QED
    BY <2>2, <2>4, <2>5
<1>3. CASE UploadBody(c)
  BY <1>3 DEF UploadBody
<1>4. CASE MakeDir(c)
  <2>1. PICK p : kind' = kind \/ kind' = [kind EXCEPT ![p] = "dir"]
    BY <1>4 DEF MakeDir
  <2>2. data' = data
    BY <1>4 DEF MakeDir
  <2> QED
    BY <1>1, <2>1, <2>2
<1>5. CASE ServerStep(c) /\ ~UploadOpen(c) /\ ~UploadBody(c) /\ ~MakeDir(c)
  <2>1. UNCHANGED <<kind, data>>
    BY <1>5 DEF ServerStep, Accept, Unknown, Exit, Register, AppendAccount, Login, ListFiles,
                SearchFiles, ChangeDir, DownloadOpen, SendContent, DirOpen, DirEntry, DirEnd,
                diskVars
  <2> QED
    BY <2>1
<1> QED
  BY <1>2, <1>3, <1>4, <1>5

\* So nobody else is disturbed.
LEMMA ServerOthers ==
    ASSUME FileTypeOK, NEW c \in Clients, ServerStep(c), WritesAlone, WritesAlone',
           NEW d \in Clients \ {c}
    PROVE  Stays(d)
<1>1. /\ UNCHANGED clientVars
      /\ up'[d] = up[d] /\ down'[d] = down[d] /\ spc'[d] = spc[d] /\ auth'[d] = auth[d]
      /\ path'[d] = path[d] /\ want'[d] = want[d] /\ walk'[d] = walk[d]
  BY OnlyServer
<1>2. Gone(d)' = Gone(d)
  BY <1>1, ClientSideStays
<1>3. path[d] \in Paths /\ path[c] \in Paths /\ data \in [Paths -> Seq(Blocks)]
  BY Fields DEF DiskOK
<1>4. ASSUME spc[d] = "body" \/ (spc[d] = "content" /\ ~Gone(d))
      PROVE  data'[path[d]] = data[path[d]]
  <2>1. CASE UploadBody(c)
    <3>1. spc[c] = "body"
      BY <2>1 DEF UploadBody
    <3>2. path[c] # path[d]
      BY <1>4, <3>1 DEF WritesAlone
    <3> QED
      BY <1>3, <2>1, <3>2 DEF UploadBody
  <2>2. CASE /\ spc'[c] = "body" /\ path'[c] \in Paths
             /\ data' = [data EXCEPT ![path'[c]] = <<>>]
    <3>1. path'[c] # path'[d]
      BY <1>1, <1>2, <1>4, <2>2 DEF WritesAlone
    <3> QED
      BY <1>1, <1>3, <2>2, <3>1
  <2>3. CASE data' = data
    BY <2>3
  <2> QED
    BY <2>1, <2>2, <2>3, WhatIsWritten
<1> QED
  BY <1>1, <1>4 DEF Stays, clientVars

\* What a process writes is what its client asked it to.
LEMMA ServerWhole ==
    ASSUME FileTypeOK, NEW c \in Clients, InvOf(c), ServerStep(c), FilesAreWhole
    PROVE  FilesAreWhole'
<1> DEFINE Holds(s) == \E d \in Clients : \E x \in Asks(d) : IsPrefix(s, x.content)
<1>1. \A p \in Paths : kind[p] = "file" => Holds(data[p])
  BY DEF FilesAreWhole
<1>2. ASSUME Now(c) \in Asks(c), NEW s, IsPrefix(s, Now(c).content) PROVE Holds(s)
  BY <1>2
<1>3. data \in [Paths -> Seq(Blocks)] /\ path[c] \in Paths
  BY Fields DEF DiskOK
<1> HIDE DEF Holds
<1>4. ASSUME data' = data, \A p \in Paths : kind'[p] = "file" => kind[p] = "file"
      PROVE  \A p \in Paths : kind'[p] = "file" => Holds(data'[p])
  BY <1>1, <1>4
<1>5. ASSUME UploadOpen(c), path'[c] \in Paths, data' = [data EXCEPT ![path'[c]] = <<>>],
             \A p \in Paths \ {path'[c]} : kind'[p] = "file" => kind[p] = "file"
      PROVE  \A p \in Paths : kind'[p] = "file" => Holds(data'[p])
  <2>1. spc[c] = "command" /\ up[c] # <<>>
    BY <1>5, HearsCommand DEF UploadOpen
  <2>2. Now(c) \in Exchange /\ Now(c) \in Asks(c)
    BY <2>1, Hears
  <2>3. IsPrefix(<<>>, Now(c).content)
    <3>1. <<>> \in Seq(Blocks) /\ Now(c).content \in Seq(Blocks) /\ Len(<<>>) = 0
          /\ Len(Now(c).content) \in Nat
      BY <2>2, BlocksAre
    <3>2. \A i \in 1..Len(<<>>) : <<>>[i] = Now(c).content[i]
      BY <3>1
    <3>3. Len(<<>>) <= Len(Now(c).content)
      BY <3>1
    <3> QED
      BY <3>1, <3>2, <3>3, PrefixItems
  <2>4. Holds(<<>>)
    BY <1>2, <2>2, <2>3
  <2> QED
    BY <1>1, <1>3, <1>5, <2>4
<1>6. ASSUME UploadBody(c), kind' = kind
      PROVE  \A p \in Paths : kind'[p] = "file" => Holds(data'[p])
  <2>1. spc[c] = "body"
    BY <1>6 DEF UploadBody
  <2>2. /\ Now(c) \in Exchange /\ Now(c) \in Asks(c)
        /\ up[c] \in Seq(Unit) /\ want[c] = Len(Now(c).content) /\ Len(up[c]) <= want[c]
        /\ \A i \in 1..Len(up[c]) : BlockAt(up[c][i]) = Now(c).content[i]
        /\ data[path[c]] = <<>>
    BY <2>1, Takes
  <2> DEFINE got == IF Len(up[c]) < want[c] THEN Len(up[c]) ELSE want[c]
             new == [i \in 1..got |-> BlockAt(up[c][i])]
             all == new \o SubSeq(data[path[c]], got + 1, Len(data[path[c]]))
  <2>3. data' = [data EXCEPT ![path[c]] = all]
    BY <1>6 DEF UploadBody
  <2>4. /\ want[c] \in Nat /\ Len(up[c]) \in Nat /\ got = Len(up[c])
        /\ Now(c).content \in Seq(Blocks)
    BY <2>2, BlocksAre
  <2>5. new \in Seq(Blocks) /\ Len(new) = Len(up[c])
        /\ \A i \in 1..Len(up[c]) : new[i] = Now(c).content[i]
    <3>1. \A i \in 1..Len(up[c]) : Now(c).content[i] \in Blocks
      BY <2>2, <2>4
    <3> QED
      BY <2>2, <2>4, <3>1
  <2>6. all = new
    <3>1. SubSeq(data[path[c]], got + 1, Len(data[path[c]])) = <<>>
      <4>1. <<>> \in Seq(Blocks) /\ Len(<<>>) = 0 /\ got \in Nat /\ got >= Len(<<>>)
        BY <2>4
      <4>2. SubSeq(<<>>, got + 1, Len(<<>>)) = <<>>
        BY <4>1, Rest
      <4> QED
        BY <2>2, <4>2
    <3> HIDE DEF new, got
    <3>2. new \o <<>> = new
      BY <2>5, EmptyJoined
    <3> QED
      BY <3>1, <3>2
  <2> HIDE DEF all, new, got
  <2>7. IsPrefix(new, Now(c).content)
    BY <2>2, <2>4, <2>5, PrefixItems
  <2>8. Holds(new)
    BY <1>2, <2>2, <2>7
  <2> QED
    BY <1>1, <1>3, <1>6, <2>3, <2>6, <2>8
<1>7. \A p \in Paths : kind'[p] = "file" => Holds(data'[p])
  BY <1>4, <1>5, <1>6, WhatIsWritten
<1> QED
  BY <1>7 DEF FilesAreWhole, Holds

-----------------------------------------------------------------------------
(* The theorems. *)

\* Every step of a client keeps its own part of the invariant.
LEMMA ClientInv ==
    ASSUME FileTypeOK, NEW c \in Clients, InvOf(c), Choose(c) \/ Kill(c) \/ ClientStep(c)
    PROVE  InvOf(c)'
  BY ChooseInv, KillInv, SendRequestInv, ReadReplyInv, ReadSizeInv, ReadContentInv,
     ReadEntryInv
  DEF ClientStep

\* So does every step of its process, as long as the disk is used in an orderly way.
LEMMA ServerInv ==
    ASSUME FileTypeOK, NEW c \in Clients, InvOf(c), ServerStep(c), UploadsFit, SendsFiles'
    PROVE  InvOf(c)'
  BY AcceptExitInv, LookInv, UnknownInv, RegisterInv, LoginInv, UploadOpenInv,
     UploadBodyInv, DownloadOpenInv, SendContentInv, DirOpenInv, DirEntryInv, DirEndInv
  DEF ServerStep

\* It holds in the beginning, when everybody is about to choose.
LEMMA StreamStarts == Init => StreamInv
<1> SUFFICES ASSUME Init PROVE StreamInv
  OBVIOUS
<1>1. TypeInv
  BY InitTypes DEF Init, TypeInv, Opened
<1>2. ASSUME NEW c \in Clients PROVE InvOf(c)
  <2>1. /\ cpc[c] = "menu" /\ cauth[c] = FALSE /\ todo[c] = <<>>
        /\ up[c] = <<>> /\ down[c] = <<>> /\ spc[c] = "none" /\ walk[c] = <<>>
    BY DEF Init
  <2>2. Together(c) /\ Tidied(c)
    BY <2>1 DEF Together, Tidied, Listening
  <2>3. Admitted(c)
    BY <2>1 DEF Admitted
  <2> QED
    BY <2>2, <2>3 DEF InvOf
<1>3. FilesAreWhole
  BY DEF Init, FilesAreWhole
<1> QED
  BY <1>1, <1>2, <1>3 DEF StreamInv

\* Every step keeps it.
LEMMA StreamStep ==
    ASSUME StreamInv, [Next]_vars, Orderly, SendsFiles', WritesAlone'
    PROVE  StreamInv'
<1>1. TypeInv' /\ FileTypeOK
  BY TypeStep DEF StreamInv, TypeInv
<1>2. CASE UNCHANGED vars
  <2>1. \A d \in Clients : Stays(d)
    BY <1>2 DEF vars, clientVars, procVars, diskVars, Stays
  <2>2. \A d \in Clients : InvOf(d)'
    BY <2>1, OthersStay DEF StreamInv
  <2>3. FilesAreWhole'
    BY <1>2 DEF vars, diskVars, StreamInv, FilesAreWhole
  <2> QED
    BY <1>1, <2>2, <2>3 DEF StreamInv
<1>3. ASSUME NEW c \in Clients, Choose(c) \/ Kill(c) \/ ClientStep(c)
      PROVE  StreamInv'
  <2>1. OnlyClient(c)
    BY <1>1, <1>3, ClientOnly
  <2>2. ASSUME NEW d \in Clients \ {c} PROVE InvOf(d)'
    <3>1. Stays(d)
      BY <2>1, <2>2 DEF OnlyClient, Stays, procVars, diskVars
    <3> QED
      BY <3>1, OthersStay DEF StreamInv
  <2>3. InvOf(c)'
    BY <1>1, <1>3, ClientInv DEF StreamInv
  <2>4. FilesAreWhole'
    BY <2>1 DEF OnlyClient, diskVars, StreamInv, FilesAreWhole
  <2>5. \A d \in Clients : InvOf(d)'
    BY <2>2, <2>3
  <2> QED
    BY <1>1, <2>4, <2>5 DEF StreamInv
<1>4. ASSUME NEW c \in Clients, ServerStep(c) PROVE StreamInv'
  <2>1. \A d \in Clients \ {c} : InvOf(d)'
    BY <1>1, <1>4, ServerOthers, OthersStay DEF StreamInv, Orderly
  <2>2. InvOf(c)'
    BY <1>1, <1>4, ServerInv DEF StreamInv, Orderly
  <2>3. FilesAreWhole'
    BY <1>1, <1>4, ServerWhole DEF StreamInv
  <2>4. \A d \in Clients : InvOf(d)'
    BY <2>1, <2>2
  <2> QED
    BY <1>1, <2>3, <2>4 DEF StreamInv
<1> QED
  BY <1>2, <1>3, <1>4 DEF Next

\* So it always holds.
LEMMA StreamInvariant == Spec /\ []Orderly => []StreamInv
<1>1. Init => StreamInv
  BY StreamStarts
<1>2. StreamInv /\ Orderly /\ Orderly' /\ [Next]_vars => StreamInv'
  BY StreamStep DEF Orderly
<1> QED
  BY <1>1, <1>2, PTL DEF Spec

\* Between two requests nothing is left in the streams of a client, as long as
\* uploads go where they can be written, what is sent is a file, and nobody writes
\* to a file another has open (client.c:400-505, server.c:88-136, 350-438).
THEOREM StreamsInStep == Spec /\ []Orderly => []InStep
<1>1. StreamInv => InStep
  <2> SUFFICES ASSUME StreamInv, NEW c \in Clients, cpc[c] \in {"menu", "send"}
               PROVE  /\ up[c] = <<>> /\ down[c] = <<>>
                      /\ \/ spc[c] \in {"none", "command", "append"}
                         \/ spc[c] = "content" /\ data[path[c]] = <<>>
    BY DEF InStep
  <2>1. InvOf(c) /\ ~Gone(c)
    BY DEF StreamInv, Gone
  <2> QED
    BY <2>1 DEF InvOf, Together, Listening
<1> QED
  BY <1>1, StreamInvariant, PTL

\* Under the same conditions a client takes itself for logged in only while the
\* server does (client.c:40-54, server.c:99-101, 281-309).
THEOREM LoginsAgree == Spec /\ []Orderly => []LoginAgreement
<1>1. StreamInv => LoginAgreement
  BY DEF StreamInv, InvOf, Admitted, LoginAgreement, Gone
<1> QED
  BY <1>1, StreamInvariant, PTL

\* Under the same conditions a file holds one upload, or the beginning of one, that
\* some user asked for (server.c:376-399).
THEOREM FilesStayWhole == Spec /\ []Orderly => []FilesAreWhole
<1>1. StreamInv => FilesAreWhole
  BY DEF StreamInv
<1> QED
  BY <1>1, StreamInvariant, PTL

\* A request that is there whole keeps no recv of the process waiting.
LEMMA AskedIsServed ==
    ASSUME FileTypeOK, NEW c \in Clients, Admitted(c), ~Gone(c), Asked(c) \/ Taking(c)
    PROVE  ~ServerWaits(c)
<1>1. todo[c] # <<>> /\ todo[c] \in Seq(Exchange) /\ up[c] \in Seq(Unit)
  BY Parts DEF Asked, Taking, ClientsOK, Streams
<1>2. 1 \in DOMAIN todo[c] /\ todo[c][1] = Now(c) /\ Now(c) \in Exchange
  BY <1>1 DEF Now
<1>3. Len(Now(c).args) = Arguments[Now(c).op]
  BY <1>2 DEF Admitted
<1>4. CASE Asked(c)
  <2>1. up[c] = Request(Now(c)) /\ Listening(c)
    BY <1>4 DEF Asked
  <2>2. /\ up[c] # <<>> /\ IsPrefix(up[c], Request(Now(c)))
        /\ Now(c).op # "UPLOAD" => Len(up[c]) = Arguments[Now(c).op] + 1
        /\ Now(c).op = "UPLOAD" => Len(up[c]) = Len(Now(c).content) + 3
    BY <1>1, <1>2, <1>3, <2>1, RequestItems, PrefixItself
  <2>3. WordAt(Head(up[c])) = <<Now(c).op>>
    BY <1>1, <1>2, <1>3, <2>2, PartOfRequest
  <2>4. Len(Now(c).content) \in Nat /\ Now(c).op \in Commands
    BY <1>2, BlocksAre DEF Exchange
  <2>5. Len(up[c]) > Arguments[Now(c).op] + IF Now(c).op = "UPLOAD" THEN 1 ELSE 0
    <3>1. CASE Now(c).op = "UPLOAD"
      <4>1. Arguments[Now(c).op] = 1
        BY <3>1, ArgumentCounts
      <4> QED
        BY <2>2, <2>4, <3>1, <4>1
    <3>2. CASE Now(c).op # "UPLOAD"
      <4>1. Arguments[Now(c).op] \in Nat
        BY <2>4, ArgumentCounts
      <4> QED
        BY <2>2, <3>2, <4>1
    <3> QED
      BY <3>1, <3>2
  <2>6. \A op : WordAt(Head(up[c])) = <<op>> => op = Now(c).op
    BY <2>3, Letters
  <2>7. Arguments[Now(c).op] \in Nat /\ Len(up[c]) \in Nat
    BY <1>1, <2>4, ArgumentCounts
  <2>8. ~(Len(up[c]) <= Arguments[Now(c).op] + IF Now(c).op = "UPLOAD" THEN 1 ELSE 0)
    BY <2>5, <2>7
  <2> QED
    BY <2>1, <2>2, <2>6, <2>8 DEF ServerWaits, Listening
<1>5. CASE Taking(c)
  <2>1. spc[c] = "body" /\ up[c] = BlocksOf(Now(c)) /\ want[c] = Len(Now(c).content)
    BY <1>5 DEF Taking
  <2>2. Len(up[c]) = want[c] /\ want[c] \in Nat
    BY <1>2, <2>1, BlocksAre
  <2> QED
    BY <2>1, <2>2 DEF ServerWaits
<1> QED
  BY <1>4, <1>5

\* A process that waits for the next command has sent all of the answer.
LEMMA AnswerIsWhole ==
    ASSUME FileTypeOK, NEW c \in Clients, spc[c] = "command",
           cpc[c] \in {"size", "content", "entries"}, LaterAnswer(c)
    PROVE  ~ClientWaits(c)
<1>1. /\ down[c] \in Seq(Unit) /\ Len(down[c]) \in Nat /\ expect[c] \in Nat
      /\ Len(<<>>) = 0
  BY Parts DEF Streams, ClientsOK
<1>2. PICK marks \in SUBSET (1..(Len(down[c]) + 1)) :
         /\ Marked(Now(c).op, down[c], marks, spc[c], SizeOf(c))
         /\ cpc[c] = "size" => SizeAtMark(down[c], 1, marks, spc[c], SizeOf(c))
         /\ cpc[c] = "content" => ContentAt(down[c], 1, expect[c], marks, spc[c], SizeOf(c))
         /\ cpc[c] = "entries" => Now(c).op = "DOWNLOAD_DIR" /\ 1 \in marks
  BY DEF LaterAnswer
<1>3. CASE cpc[c] = "size"
  <2>1. 1 <= Len(down[c])
    BY <1>2, <1>3 DEF SizeAtMark
  <2>2. down[c] # <<>>
    BY <1>1, <2>1
  <2> QED
    BY <1>3, <2>2 DEF ClientWaits
<1>4. CASE cpc[c] = "content"
  <2>1. 1 + expect[c] \in marks
    BY <1>2, <1>4 DEF ContentAt
  <2>2. ~(Len(down[c]) < expect[c])
    BY <1>1, <2>1
  <2> QED
    BY <1>4, <2>2 DEF ClientWaits
<1>5. CASE cpc[c] = "entries"
  <2>1. MarkOK("DOWNLOAD_DIR", down[c], 1, marks, "command", SizeOf(c))
    BY <1>2, <1>5 DEF Marked
  <2>2. 1 # Len(down[c]) + 1 /\ 1 <= Len(down[c])
    BY <1>1, <2>1 DEF MarkOK
  <2>3. down[c] # <<>>
    BY <1>1, <2>2
  <2>4. \/ 1 + 1 <= Len(down[c])
        \/ down[c][1] = Text(<<"END_OF_DIR">>)
    <3>1. CASE SizeAtMark(down[c], 1 + 2, marks, "command", SizeOf(c))
      <4>1. 1 + 2 <= Len(down[c])
        BY <3>1 DEF SizeAtMark
      <4> QED
        BY <1>1, <4>1
    <3> QED
      BY <2>1, <2>2, <3>1 DEF MarkOK
  <2>5. CASE 1 + 1 <= Len(down[c])
    <3>1. Len(down[c]) # 1
      <4>1. \A n \in Nat : 1 + 1 <= n => n # 1
        OBVIOUS
      <4> QED
        BY <1>1, <2>5, <4>1, Zenon
    <3> QED
      BY <1>5, <2>3, <3>1 DEF ClientWaits
  <2>6. CASE down[c][1] = Text(<<"END_OF_DIR">>)
    <3>1. WordAt(down[c][1]) \notin {<<"MKDIR">>, <<"FILE">>}
      BY <2>6, Letters
    <3> QED
      BY <1>5, <2>3, <3>1 DEF ClientWaits
  <2> QED
    BY <2>4, <2>5, <2>6
<1> QED
  BY <1>3, <1>4, <1>5

\* Under the same conditions no connection comes to a stop with both ends waiting
\* for bytes of the other (client.c:322-578, server.c:92-472).
THEOREM EndsNeverBothWait == Spec /\ []Orderly => []NeverBothWait
<1>1. StreamInv => NeverBothWait
  <2> SUFFICES ASSUME StreamInv, NEW c \in Clients, cpc[c] \notin {"menu", "gone"},
                      ClientWaits(c), ServerWaits(c)
               PROVE  FALSE
    BY DEF NeverBothWait
  <2>1. FileTypeOK /\ InvOf(c) /\ ~Gone(c)
    BY DEF StreamInv, TypeInv, Gone
  <2>2. cpc[c] \in {"reply", "size", "content", "entries"}
    BY DEF ClientWaits
  <2>3. CASE cpc[c] = "reply"
    <3>1. Asked(c) \/ Taking(c) \/ FirstAnswer(c)
      BY <2>1, <2>3 DEF InvOf, Together
    <3>2. ~FirstAnswer(c)
      BY <2>3 DEF ClientWaits, FirstAnswer
    <3> QED
      BY <2>1, <3>1, <3>2, AskedIsServed DEF InvOf
  <2>4. CASE cpc[c] # "reply"
    <3>1. cpc[c] \in {"size", "content", "entries"} /\ Answering(c) /\ LaterAnswer(c)
      BY <2>1, <2>2, <2>4 DEF InvOf, Together
    <3>2. spc[c] = "command"
      BY <3>1 DEF Answering, ServerWaits
    <3> QED
      BY <2>1, <3>1, <3>2, AnswerIsWhole
  <2> QED
    BY <2>3, <2>4
<1> QED
  BY <1>1, StreamInvariant, PTL

-----------------------------------------------------------------------------
(* Users who keep apart. *)

\* What c may meet in a directory it downloads.
Beneath(c, dirs) ==
    {p \in Paths : \E r \in Named(c, "DOWNLOAD_DIR", dirs) : IsPrefix(r, p)}

\* Where the process of c stands, and what it has open.
PlaceOf(c, dirs) ==
    /\ cwd[c] \in Standing(c, dirs)
    /\ spc[c] = "body" => path[c] \in Named(c, "UPLOAD", dirs)
    /\ spc[c] = "content" /\ ~Gone(c) =>
          kind[path[c]] = "file" /\ path[c] \in Named(c, "DOWNLOAD", dirs) \cup Beneath(c, dirs)
    /\ ~Gone(c) => walk[c] \in Seq(SUBSET Beneath(c, dirs))

\* What there is: no directory but those, and no file but what somebody uploads.
TreeIn(dirs) ==
    \A p \in Paths :
        /\ kind[p] = "dir" => p \in dirs
        /\ kind[p] = "file" => \E c \in Clients : p \in Named(c, "UPLOAD", dirs)

PlaceInv(dirs) == TreeIn(dirs) /\ \A c \in Clients : PlaceOf(c, dirs)

\* What a user may name is settled by the menus.
LEMMA NamesStay ==
    ASSUME NEW dirs, NEW c
    PROVE  /\ Asks(c)' = Asks(c) /\ Standing(c, dirs)' = Standing(c, dirs)
           /\ \A op : Named(c, op, dirs)' = Named(c, op, dirs)
           /\ Beneath(c, dirs)' = Beneath(c, dirs)
<1>1. Asks(c)' = Asks(c)
  BY DEF Asks
<1>2. Standing(c, dirs)' = Standing(c, dirs)
  BY <1>1 DEF Standing
<1>3. \A op : Named(c, op, dirs)' = Named(c, op, dirs)
  BY <1>1, <1>2 DEF Named
<1>4. Beneath(c, dirs)' = Beneath(c, dirs)
  BY <1>3 DEF Beneath
<1> QED
  BY <1>1, <1>2, <1>3, <1>4

\* A process that hears the argument of a command hears the one its client names;
\* of a client that is gone it may hear something else.
LEMMA HearsName ==
    ASSUME FileTypeOK, NEW dirs, NEW c \in Clients, InvOf(c), PlaceOf(c, dirs),
           NEW op \in Commands \ EntryCommands, Arguments[op] = 1, NEW n \in {1, 2},
           Command(c, op, n), NEW a \in Heard(c, 1)
    PROVE  \/ /\ a = Now(c).args[1] /\ Now(c) \in Asks(c) /\ Now(c).op = op
              /\ cwd[c] \in Standing(c, dirs) /\ At(c, a) \in Named(c, op, dirs)
           \/ /\ Gone(c) /\ Len(up[c]) <= 1 /\ a \in Leftovers
              /\ cwd[c] \in Standing(c, dirs)
<1>1. /\ spc[c] = "command" /\ up[c] # <<>> /\ Now(c).op = op /\ (Len(up[c]) > n \/ Gone(c))
      /\ cwd[c] \in Standing(c, dirs)
  BY HearsCommand DEF Command, PlaceOf
<1>2. /\ Now(c) \in Exchange /\ Now(c) \in Asks(c) /\ up[c] \in Seq(Unit)
      /\ IsPrefix(up[c], Request(Now(c))) /\ Len(Now(c).args) = Arguments[Now(c).op]
  BY <1>1, Hears
<1>3. Len(up[c]) \in Nat /\ Len(up[c]) > 0
  BY <1>1, <1>2
<1>4. CASE Len(up[c]) > 1
  <2>1. /\ Request(Now(c)) \in Seq(Unit)
        /\ \A i \in 1..1 : Request(Now(c))[i + 1] = Text(Now(c).args[i])
    BY <1>1, <1>2, RequestItems
  <2>2. up[c][1 + 1] = Request(Now(c))[1 + 1]
    <3>1. \A i \in 1..Len(up[c]) : up[c][i] = Request(Now(c))[i]
      BY <1>2, <2>1, PrefixItems
    <3> QED
      BY <1>3, <1>4, <3>1
  <2>3. a = WordAt(up[c][1 + 1])
    BY <1>4 DEF Heard
  <2>4. up[c][1 + 1] = Text(Now(c).args[1])
    BY <2>1, <2>2
  <2>5. a = Now(c).args[1]
    BY <2>3, <2>4, Letters
  <2>6. At(c, a) \in Named(c, op, dirs)
    <3>1. Now(c) \in {y \in Asks(c) : y.op = op}
      BY <1>1, <1>2
    <3>2. \E w \in Standing(c, dirs), x \in {y \in Asks(c) : y.op = op} :
             At(c, a) = w \o x.args[1]
      BY <1>1, <2>5, <3>1 DEF At
    <3> QED
      BY <3>2 DEF Named
  <2> QED
    BY <1>1, <1>2, <2>5, <2>6
<1>5. CASE ~(Len(up[c]) > 1)
  <2>1. Len(up[c]) <= 1 /\ a \in Leftovers
    BY <1>3, <1>5 DEF Heard
  <2>2. Gone(c)
    BY <1>1, <1>3, <2>1
  <2> QED
    BY <1>1, <2>1, <2>2
<1> QED
  BY <1>4, <1>5

\* What a user names is a word.
LEMMA NamesAreWords ==
    ASSUME NEW dirs, Apart(dirs), NEW c \in Clients, NEW op \in Commands, Arguments[op] = 1,
           NEW r \in Named(c, op, dirs)
    PROVE  r \in Word
<1>1. PICK w \in Standing(c, dirs), x \in {y \in Asks(c) : y.op = op} : r = w \o x.args[1]
  BY DEF Named
<1>2. w \in Word
  BY WordTypes DEF Standing, Apart
<1>3. x \in Exchange /\ Len(x.args) = 1
  <2>1. PICK choice \in Menu[c] : x \in ToSet(choice.do)
    BY <1>1 DEF Asks
  <2>2. choice.do \in Seq(Exchange) /\ Offered(choice)
    BY FileAssumption
  <2>3. PICK i \in DOMAIN choice.do : x = choice.do[i]
    BY <2>1 DEF ToSet
  <2>4. x \in Exchange /\ x.op = op
    BY <1>1, <2>2, <2>3
  <2>5. Len(x.args) = Arguments[x.op]
    BY <2>2, <2>3, Zenon DEF Offered
  <2> QED
    BY <2>4, <2>5
<1>4. x.args[1] \in Word
  BY <1>3 DEF Exchange
<1> QED
  BY <1>1, <1>2, <1>4, Short DEF Word

\* A prefix of a prefix is one.
LEMMA PrefixOfPrefix ==
    ASSUME NEW S, NEW r \in Seq(S), NEW p \in Seq(S), NEW q \in Seq(S),
           IsPrefix(r, p), IsPrefix(p, q)
    PROVE  IsPrefix(r, q)
<1>1. /\ Len(r) <= Len(p) /\ \A i \in 1..Len(r) : r[i] = p[i]
      /\ Len(p) <= Len(q) /\ \A i \in 1..Len(p) : p[i] = q[i]
  BY PrefixItems
<1>2. Len(r) <= Len(q) /\ \A i \in 1..Len(r) : r[i] = q[i]
  BY <1>1
<1> QED
  BY <1>2, PrefixItems

\* What is in a directory beneath another is beneath that one, too.
LEMMA EntriesBeneath ==
    ASSUME NEW dirs, Apart(dirs), NEW c \in Clients, NEW p \in Paths,
           p \in Named(c, "DOWNLOAD_DIR", dirs) \/ p \in Beneath(c, dirs)
    PROVE  Entries(p) \in SUBSET Beneath(c, dirs)
<1> SUFFICES ASSUME NEW q \in Entries(p) PROVE q \in Beneath(c, dirs)
  OBVIOUS
<1>1. q \in Paths /\ q # <<>> /\ Front(q) = p /\ q \in Seq(Names) /\ p \in Seq(Names)
  BY PathTypes DEF Entries
<1>2. IsPrefix(p, q)
  <2>1. Len(q) \in Nat /\ Len(q) >= 1 /\ Len(q) - 1 \in 0..Len(q)
    BY <1>1
  <2>2. p = SubSeq(q, 1, Len(q) - 1)
    BY <1>1 DEF Front
  <2> DEFINE n == Len(q) - 1
  <2>3. \A m \in 0..Len(q) : /\ Len(SubSeq(q, 1, m)) = m
                            /\ \A i \in 1..m : SubSeq(q, 1, m)[i] = q[i]
    BY <1>1
  <2>4. n \in 0..Len(q) /\ n <= Len(q) /\ p = SubSeq(q, 1, n)
    BY <2>1, <2>2
  <2> HIDE DEF n
  <2>5. Len(p) = n /\ \A i \in 1..Len(p) : p[i] = q[i]
    BY <2>3, <2>4
  <2> QED
    BY <1>1, <2>4, <2>5, PrefixItems
<1>3. CASE p \in Named(c, "DOWNLOAD_DIR", dirs)
  BY <1>1, <1>2, <1>3 DEF Beneath
<1>4. CASE p \in Beneath(c, dirs)
  <2>1. PICK r \in Named(c, "DOWNLOAD_DIR", dirs) : IsPrefix(r, p)
    BY <1>4 DEF Beneath
  <2>2. r \in Word /\ p \in Word /\ q \in Word
    <3>1. "DOWNLOAD_DIR" \in Commands /\ Arguments["DOWNLOAD_DIR"] = 1
      BY ArgumentCounts DEF Commands
    <3> QED
      BY <1>1, <3>1, NamesAreWords, WordTypes
  <2>3. IsPrefix(r, q)
    BY <1>2, <2>1, <2>2, PrefixOfPrefix DEF Word
  <2> QED
    BY <1>1, <2>3 DEF Beneath
<1> QED
  BY <1>3, <1>4

\* Only MKDIR and UPLOAD put anything into the tree, each where it may, and no
\* file is ever taken out of it.
LEMMA TreeStep ==
    ASSUME FileTypeOK, NEW dirs, Apart(dirs), TreeIn(dirs), NEW c \in Clients, InvOf(c),
           PlaceOf(c, dirs), ServerStep(c)
    PROVE  TreeIn(dirs)' /\ \A p \in Paths : kind[p] = "file" => kind'[p] = "file"
<1>1. kind \in [Paths -> {"none", "dir", "file"}]
  BY Fields DEF DiskOK
<1>2. CASE MakeDir(c)
  <2>1. PICK a \in Heard(c, 1) :
            IF CanMakeDir(At(c, a)) THEN kind' = [kind EXCEPT ![At(c, a)] = "dir"]
                                    ELSE kind' = kind
    BY <1>2 DEF MakeDir
  <2> DEFINE p == At(c, a)
  <2>2. CASE CanMakeDir(p) /\ kind' = [kind EXCEPT ![p] = "dir"]
    <3>1. p \in Paths /\ kind[p] = "none"
      BY <2>2 DEF CanMakeDir
    <3>2. p \in dirs
      <4>1. Command(c, "MKDIR", 1) /\ Arguments["MKDIR"] = 1
            /\ "MKDIR" \in Commands \ EntryCommands
        BY <1>2, ArgumentCounts DEF MakeDir, Commands, EntryCommands
      <4>2. \/ p \in Named(c, "MKDIR", dirs)
            \/ a \in Leftovers /\ cwd[c] \in Standing(c, dirs)
        BY <4>1, HearsName
      <4>3. CASE p \in Named(c, "MKDIR", dirs)
        BY <3>1, <4>3 DEF Apart
      <4>4. CASE a \in Leftovers /\ cwd[c] \in Standing(c, dirs)
        <5>1. p \in Prefixes(p)
          BY <3>1, PathTypes, PrefixItself
        <5>2. Prefixes(p) \cap Paths \subseteq dirs
          BY <4>4 DEF Apart, At
        <5> QED
          BY <3>1, <5>1, <5>2
      <4> QED
        BY <4>2, <4>3, <4>4
    <3> HIDE DEF p
    <3> QED
      BY <1>1, <2>2, <3>1, <3>2 DEF TreeIn
  <2>3. CASE kind' = kind
    BY <2>3 DEF TreeIn
  <2> QED
    BY <2>1, <2>2, <2>3
<1>3. CASE UploadOpen(c)
  <2>1. PICK a \in Heard(c, 1) :
            LET p == At(c, a)
            IN IF Blocked(p) \/ Len(up[c]) < 3
               THEN UploadFails(c, "UploadFailed", 2) /\ kind' = Makes(p)
               ELSE IF Unwritable(p)
               THEN UploadFails(c, "FileOpenError", 3) /\ kind' = Makes(p)
               ELSE OpenForWriting(c, p) /\ kind' = [Makes(p) EXCEPT ![p] = "file"]
    BY <1>3 DEF UploadOpen
  <2> DEFINE p == At(c, a)
  <2>2. \/ kind' = Makes(p)
        \/ /\ ~(Len(up[c]) < 3) /\ p \in Paths /\ kind[p] # "dir"
           /\ kind' = [Makes(p) EXCEPT ![p] = "file"]
    BY <2>1 DEF Unwritable
  <2>3. \/ p \in Named(c, "UPLOAD", dirs)
        \/ Len(up[c]) <= 1 /\ a \in Leftovers /\ cwd[c] \in Standing(c, dirs)
    <3>1. Command(c, "UPLOAD", 1) /\ Arguments["UPLOAD"] = 1
          /\ "UPLOAD" \in Commands \ EntryCommands
      BY <1>3, ArgumentCounts DEF UploadOpen, Commands, EntryCommands
    <3> QED
      BY <3>1, HearsName
  <2>4. Parents(p) \subseteq dirs
    <3>1. CASE p \in Named(c, "UPLOAD", dirs)
      <4>1. Prefixes(p) \ {p} \subseteq dirs
        BY <3>1 DEF Apart
      <4> QED
        BY <4>1 DEF Parents
    <3>2. CASE a \in Leftovers /\ cwd[c] \in Standing(c, dirs)
      <4>1. Prefixes(p) \cap Paths \subseteq dirs
        BY <3>2 DEF Apart, At
      <4> QED
        BY <4>1 DEF Parents
    <3> QED
      BY <2>3, <3>1, <3>2
  <2>5. Len(up[c]) \in Nat
    BY Parts DEF Streams
  <2> HIDE DEF p
  <2>6. /\ Makes(p) \in [Paths -> {"none", "dir", "file"}]
        /\ \A q \in Paths : kind[q] # "none" => Makes(p)[q] = kind[q]
        /\ \A q \in Paths : Makes(p)[q] = "file" => kind[q] = "file"
        /\ \A q \in Paths : Makes(p)[q] = "dir" => q \in dirs
    <3>1. \A q \in Paths : Makes(p)[q] = "dir" => q \in Parents(p) \/ kind[q] = "dir"
      BY DEF Makes
    <3> QED
      BY <2>4, <3>1, MakesTypes DEF TreeIn
  <2>7. CASE kind' = Makes(p)
    BY <2>6, <2>7 DEF TreeIn
  <2>8. CASE /\ ~(Len(up[c]) < 3) /\ p \in Paths
             /\ kind' = [Makes(p) EXCEPT ![p] = "file"]
    <3>1. p \in Named(c, "UPLOAD", dirs)
      BY <2>3, <2>5, <2>8
    <3> QED
      BY <2>6, <2>8, <3>1 DEF TreeIn
  <2> QED
    BY <2>2, <2>7, <2>8
<1>4. CASE ServerStep(c) /\ ~UploadOpen(c) /\ ~MakeDir(c)
  <2>1. kind' = kind
    BY <1>4 DEF ServerStep, Accept, Unknown, Exit, Register, AppendAccount, Login, ListFiles,
                SearchFiles, ChangeDir, UploadBody, DownloadOpen, SendContent, DirOpen,
                DirEntry, DirEnd, diskVars
  <2> QED
    BY <2>1 DEF TreeIn
<1> QED
  BY <1>2, <1>3, <1>4

\* What another process does leaves c where it is.
LEMMA OthersPlace ==
    ASSUME FileTypeOK, NEW dirs, NEW c \in Clients, ServerStep(c),
           \A p \in Paths : kind[p] = "file" => kind'[p] = "file",
           NEW d \in Clients \ {c}, PlaceOf(d, dirs)
    PROVE  PlaceOf(d, dirs)'
<1>1. /\ UNCHANGED clientVars /\ spc'[d] = spc[d] /\ path'[d] = path[d] /\ walk'[d] = walk[d]
  BY OnlyServer
<1>2. cwd'[d] = cwd[d]
  <2>1. cwd' = cwd \/ \E a : cwd' = [cwd EXCEPT ![c] = At(c, a)]
    BY DEF ServerStep, Accept, Unknown, Exit, Register, AppendAccount, Login, ListFiles,
           SearchFiles, MakeDir, ChangeDir, UploadOpen, UploadBody, DownloadOpen,
           SendContent, DirOpen, DirEntry, DirEnd, procVars
  <2>2. cwd \in [Clients -> Paths]
    BY Parts DEF ProcsOK
  <2> QED
    BY <2>1, <2>2
<1>3. Gone(d)' = Gone(d)
  BY <1>1, ClientSideStays
<1>4. path[d] \in Paths
  BY Fields
<1> QED
  BY <1>1, <1>2, <1>3, <1>4, NamesStay DEF PlaceOf

\* Nor does what a client does.
LEMMA ClientPlace ==
    ASSUME FileTypeOK, NEW dirs, NEW c \in Clients, Choose(c) \/ Kill(c) \/ ClientStep(c),
           NEW d \in Clients, PlaceOf(d, dirs)
    PROVE  PlaceOf(d, dirs)'
<1>1. OnlyClient(c)
  BY ClientOnly
<1>2. spc' = spc /\ path' = path /\ walk' = walk /\ kind' = kind /\ cwd' = cwd
  BY <1>1 DEF OnlyClient, procVars, diskVars
<1>3. Gone(d) => Gone(d)'
  <2>1. ~Gone(c)
    BY DEF Choose, Kill, ClientStep, SendRequest, ReadReply, ReadSize, ReadContent, ReadEntry,
           Gone
  <2> QED
    BY <1>1, <2>1 DEF OnlyClient, Gone
<1> QED
  BY <1>2, <1>3, NamesStay DEF PlaceOf

\* What the process of c does keeps it where it may be.
LEMMA OwnPlace ==
    ASSUME FileTypeOK, NEW dirs, Apart(dirs), TreeIn(dirs), NEW c \in Clients, InvOf(c),
           PlaceOf(c, dirs), ServerStep(c),
           \A p \in Paths : kind[p] = "file" => kind'[p] = "file"
    PROVE  PlaceOf(c, dirs)'
<1>1. /\ cwd \in [Clients -> Paths] /\ path \in [Clients -> Paths]
      /\ walk \in [Clients -> Seq(SUBSET Paths)] /\ spc \in [Clients -> ServerPlaces]
      /\ kind \in [Paths -> {"none", "dir", "file"}]
  BY Parts, Fields DEF ProcsOK, DiskOK
<1>2. UNCHANGED clientVars /\ Gone(c)' = Gone(c)
  <2>1. UNCHANGED clientVars
    BY DEF ServerStep, Accept, Unknown, Exit, Register, AppendAccount, Login, ListFiles,
           SearchFiles, MakeDir, ChangeDir, UploadOpen, UploadBody, DownloadOpen,
           SendContent, DirOpen, DirEntry, DirEnd
  <2> QED
    BY <2>1, ClientSideStays
<1>3. ASSUME cwd'[c] \in Standing(c, dirs),
             spc'[c] = "body" => path'[c] \in Named(c, "UPLOAD", dirs),
             spc'[c] = "content" /\ ~Gone(c) =>
                 /\ path'[c] \in Paths /\ kind[path'[c]] = "file"
                 /\ path'[c] \in Named(c, "DOWNLOAD", dirs) \cup Beneath(c, dirs),
             ~Gone(c) => walk'[c] \in Seq(SUBSET Beneath(c, dirs))
      PROVE  PlaceOf(c, dirs)'
  BY <1>2, <1>3, NamesStay DEF PlaceOf
<1>4. cwd[c] \in Standing(c, dirs) /\ (~Gone(c) => walk[c] \in Seq(SUBSET Beneath(c, dirs)))
  BY DEF PlaceOf
<1>5. ASSUME cwd'[c] = cwd[c], walk'[c] = walk[c], spc'[c] \notin {"body", "content"}
      PROVE  PlaceOf(c, dirs)'
  BY <1>3, <1>4, <1>5
<1>6. CASE Accept(c) \/ Exit(c) \/ AppendAccount(c)
  BY <1>1, <1>5, <1>6 DEF Accept, Exit, AppendAccount, procVars
<1>7. CASE Unknown(c) \/ ListFiles(c) \/ SearchFiles(c) \/ MakeDir(c) \/ Register(c) \/ Login(c)
           \/ UploadBody(c)
  <2>1. \E units, next : Answer(c, units, next) /\ next \in {"command", "append"}
    BY <1>7 DEF Unknown, ListFiles, SearchFiles, MakeDir, Register, Login, UploadBody, Reply
  <2>2. spc'[c] \in {"command", "append", "exit"}
    BY <2>1, AnswerView
  <2>3. cwd' = cwd /\ walk' = walk
    BY <1>7 DEF Unknown, ListFiles, SearchFiles, MakeDir, Register, Login, UploadBody, procVars
  <2> QED
    BY <1>5, <2>2, <2>3
<1>8. CASE ChangeDir(c)
  <2>1. PICK a \in Heard(c, 1) :
            IF At(c, a) \in Paths /\ kind[At(c, a)] = "dir"
            THEN Reply(c, "DirectoryChanged") /\ cwd' = [cwd EXCEPT ![c] = At(c, a)]
            ELSE Reply(c, "DirectoryChangeFailed") /\ UNCHANGED cwd
    BY <1>8 DEF ChangeDir
  <2>2. spc'[c] \notin {"body", "content"} /\ walk'[c] = walk[c]
    <3>1. \E units : Answer(c, units, "command")
      BY <2>1 DEF Reply
    <3> QED
      BY <1>8, <3>1, AnswerView DEF ChangeDir
  <2> DEFINE p == At(c, a)
  <2>3. CASE p \in Paths /\ kind[p] = "dir" /\ cwd' = [cwd EXCEPT ![c] = p]
    <3>1. p \in dirs
      BY <2>3 DEF TreeIn
    <3>2. Now(c) \in Asks(c) /\ Now(c).op = "CD"
      <4>1. spc[c] = "command" /\ up[c] # <<>> /\ Now(c).op = "CD"
        BY <1>8, HearsCommand DEF ChangeDir
      <4> QED
        BY <4>1, Hears
    <3>3. Standing(c, dirs) = dirs
      BY <3>2 DEF Standing
    <3> HIDE DEF p
    <3>4. cwd'[c] = p
      BY <1>1, <2>3
    <3> QED
      BY <1>3, <1>4, <2>2, <3>1, <3>3, <3>4
  <2>4. CASE cwd' = cwd
    BY <1>5, <2>2, <2>4
  <2> QED
    BY <2>1, <2>3, <2>4
<1>9. CASE UploadOpen(c)
  <2>1. PICK a \in Heard(c, 1) :
            LET p == At(c, a)
            IN IF Blocked(p) \/ Len(up[c]) < 3
               THEN UploadFails(c, "UploadFailed", 2) /\ kind' = Makes(p)
               ELSE IF Unwritable(p)
               THEN UploadFails(c, "FileOpenError", 3) /\ kind' = Makes(p)
               ELSE OpenForWriting(c, p) /\ kind' = [Makes(p) EXCEPT ![p] = "file"]
    BY <1>9 DEF UploadOpen
  <2> DEFINE p == At(c, a)
  <2>2. cwd'[c] = cwd[c] /\ walk'[c] = walk[c]
    BY <1>9 DEF UploadOpen
  <2>3. CASE \E w, n : UploadFails(c, w, n)
    <3>1. \E units : Answer(c, units, "command")
      BY <2>3 DEF UploadFails, Reply
    <3>2. spc'[c] \notin {"body", "content"}
      BY <3>1, AnswerView
    <3> QED
      BY <1>5, <2>2, <3>2
  <2>4. CASE ~(Len(up[c]) < 3) /\ OpenForWriting(c, p)
    <3>1. /\ Command(c, "UPLOAD", 1) /\ Arguments["UPLOAD"] = 1 /\ Len(up[c]) \in Nat
          /\ "UPLOAD" \in Commands \ EntryCommands
      BY <1>9, ArgumentCounts, Parts DEF UploadOpen, Commands, EntryCommands, Streams
    <3>2. p \in Named(c, "UPLOAD", dirs) \/ Len(up[c]) <= 1
      BY <3>1, HearsName
    <3>3. p \in Named(c, "UPLOAD", dirs)
      BY <2>4, <3>1, <3>2
    <3> HIDE DEF p
    <3>4. spc'[c] = "body" /\ path'[c] = p
      BY <1>1, <2>4 DEF OpenForWriting
    <3> QED
      BY <1>3, <1>4, <2>2, <3>3, <3>4
  <2> QED
    BY <2>1, <2>3, <2>4
<1>10. CASE DownloadOpen(c)
  <2>1. PICK a \in Heard(c, 1) :
            LET p == At(c, a)
            IN IF p \in Paths /\ kind[p] # "none"
               THEN /\ Answer(c, <<Text(<<"FileFound">>), Size(Announced(p))>>, "content")
                    /\ path' = [path EXCEPT ![c] = p]
               ELSE Reply(c, "FileNotFound") /\ UNCHANGED path
    BY <1>10 DEF DownloadOpen
  <2> DEFINE p == At(c, a)
  <2>2. cwd'[c] = cwd[c] /\ walk'[c] = walk[c]
    BY <1>10 DEF DownloadOpen
  <2>3. CASE /\ p \in Paths /\ kind[p] # "none" /\ path' = [path EXCEPT ![c] = p]
             /\ Answer(c, <<Text(<<"FileFound">>), Size(Announced(p))>>, "content")
    <3>1. /\ Command(c, "DOWNLOAD", 1) /\ Arguments["DOWNLOAD"] = 1
          /\ "DOWNLOAD" \in Commands \ EntryCommands
      BY <1>10, ArgumentCounts DEF DownloadOpen, Commands, EntryCommands
    <3>2. ~Gone(c) => p \in Named(c, "DOWNLOAD", dirs)
      BY <3>1, HearsName
    <3>3. ~Gone(c) => kind[p] = "file"
      BY <1>1, <2>3, <3>2 DEF TreeIn, Apart
    <3>4. spc'[c] # "body"
      BY <2>3, AnswerView
    <3> HIDE DEF p
    <3>5. path'[c] = p
      BY <1>1, <2>3
    <3> QED
      BY <1>3, <1>4, <2>2, <2>3, <3>2, <3>3, <3>4, <3>5
  <2>4. CASE Reply(c, "FileNotFound")
    <3>1. spc'[c] \notin {"body", "content"}
      BY <2>4, AnswerView DEF Reply
    <3> QED
      BY <1>5, <2>2, <3>1
  <2> QED
    BY <2>1, <2>3, <2>4
<1>11. CASE SendContent(c)
  <2>1. spc'[c] \notin {"body", "content"}
    <3>1. \E units, next : Answer(c, units, next) /\ next \in {"command", "walk"}
      BY <1>11 DEF SendContent
    <3> QED
      BY <3>1, AnswerView
  <2> QED
    BY <1>5, <1>11, <2>1 DEF SendContent, procVars
<1>12. CASE DirOpen(c)
  <2>1. PICK a \in Heard(c, 1) :
            LET p == At(c, a)
            IN IF p \in Paths /\ kind[p] = "dir"
               THEN /\ Answer(c, <<Text(<<"DirectoryFound">>)>>, "walk")
                    /\ walk' = [walk EXCEPT ![c] = <<Entries(p)>>]
               ELSE Reply(c, "DirectoryNotFound") /\ UNCHANGED walk
    BY <1>12 DEF DirOpen
  <2> DEFINE p == At(c, a)
             first == <<Entries(p)>>
  <2>2. cwd'[c] = cwd[c] /\ spc'[c] \notin {"body", "content"}
    <3>1. \E units, next : Answer(c, units, next) /\ next \in {"command", "walk"}
      BY <2>1 DEF Reply
    <3> QED
      BY <1>12, <3>1, AnswerView DEF DirOpen
  <2>3. CASE p \in Paths /\ walk' = [walk EXCEPT ![c] = first]
    <3>1. /\ Command(c, "DOWNLOAD_DIR", 1) /\ Arguments["DOWNLOAD_DIR"] = 1
          /\ "DOWNLOAD_DIR" \in Commands \ EntryCommands
      BY <1>12, ArgumentCounts DEF DirOpen, Commands, EntryCommands
    <3>2. ~Gone(c) => p \in Named(c, "DOWNLOAD_DIR", dirs)
      BY <3>1, HearsName
    <3> HIDE DEF p
    <3>3. ~Gone(c) => first \in Seq(SUBSET Beneath(c, dirs))
      BY <2>3, <3>2, EntriesBeneath, Short
    <3> HIDE DEF first
    <3>4. walk'[c] = first
      BY <1>1, <2>3
    <3> QED
      BY <1>3, <1>4, <2>2, <3>3, <3>4
  <2>4. CASE walk' = walk
    BY <1>5, <2>2, <2>4
  <2> QED
    BY <2>1, <2>3, <2>4
<1>13. CASE DirEntry(c)
  <2>1. PICK q \in Last(walk[c]) : SendSubdirectory(c, q) \/ SendFileHeader(c, q)
    BY <1>13 DEF DirEntry
  <2>2. spc[c] = "walk" /\ walk[c] # <<>> /\ cwd'[c] = cwd[c]
    BY <1>13, Parts DEF DirEntry, Stands
  <2>3. q \in Paths
    <3>1. Last(walk[c]) \in SUBSET Paths
      BY <1>1, <2>2, Fronts
    <3> QED
      BY <3>1
  <2> DEFINE rest == ReplaceAt(walk[c], Len(walk[c]), Last(walk[c]) \ {q})
             more == Append(rest, Entries(q))
  <2>4. ~Gone(c) => /\ rest \in Seq(SUBSET Beneath(c, dirs)) /\ q \in Beneath(c, dirs)
                    /\ more \in Seq(SUBSET Beneath(c, dirs))
    <3> SUFFICES ASSUME ~Gone(c)
                 PROVE  /\ rest \in Seq(SUBSET Beneath(c, dirs)) /\ q \in Beneath(c, dirs)
                        /\ more \in Seq(SUBSET Beneath(c, dirs))
      OBVIOUS
    <3>1. Last(walk[c]) \in SUBSET Beneath(c, dirs)
      BY <1>4, <2>2, Fronts
    <3>2. q \in Beneath(c, dirs) /\ Last(walk[c]) \ {q} \in SUBSET Beneath(c, dirs)
      BY <2>1, <3>1
    <3>3. rest \in Seq(SUBSET Beneath(c, dirs))
      BY <1>4, <2>2, <3>2, Replaced
    <3>4. Entries(q) \in SUBSET Beneath(c, dirs)
      BY <2>3, <3>2, EntriesBeneath
    <3> HIDE DEF rest
    <3>5. \A S : \A s \in Seq(S), e \in S : Append(s, e) \in Seq(S)
      OBVIOUS
    <3> QED
      BY <3>2, <3>3, <3>4, <3>5
  <2>5. CASE SendSubdirectory(c, q)
    <3>1. spc'[c] \notin {"body", "content"}
      BY <2>5, AnswerView DEF SendSubdirectory
    <3>2. walk' = [walk EXCEPT ![c] = more]
      BY <2>5 DEF SendSubdirectory
    <3> HIDE DEF more, rest
    <3>3. walk'[c] = more
      BY <1>1, <3>2
    <3> QED
      BY <1>3, <1>4, <2>2, <2>4, <3>1, <3>3
  <2>6. CASE SendFileHeader(c, q)
    <3>1. spc'[c] # "body" /\ kind[q] = "file"
      BY <2>6, AnswerView DEF SendFileHeader
    <3>2. walk' = [walk EXCEPT ![c] = rest] /\ path' = [path EXCEPT ![c] = q]
      BY <2>6 DEF SendFileHeader
    <3> HIDE DEF more, rest
    <3>3. walk'[c] = rest /\ path'[c] = q
      BY <1>1, <3>2
    <3> QED
      BY <1>3, <1>4, <2>2, <2>3, <2>4, <3>1, <3>3
  <2> QED
    BY <2>1, <2>5, <2>6
<1>14. CASE DirEnd(c)
  <2>1. spc[c] = "walk" /\ walk[c] # <<>> /\ cwd'[c] = cwd[c]
    BY <1>14, Parts DEF DirEnd, Stands
  <2>2. spc'[c] \notin {"body", "content"}
    <3>1. (\E units : Answer(c, units, "command")) \/ spc' = spc
      BY <1>14 DEF DirEnd, Reply
    <3> QED
      BY <2>1, <3>1, AnswerView
  <2>3. walk'[c] = Front(walk[c])
    BY <1>1, <1>14 DEF DirEnd
  <2>4. ~Gone(c) => Front(walk[c]) \in Seq(SUBSET Beneath(c, dirs))
    BY <1>4, <2>1, Fronts
  <2> QED
    BY <1>3, <1>4, <2>1, <2>2, <2>3, <2>4
<1> QED
  BY <1>6, <1>7, <1>8, <1>9, <1>10, <1>11, <1>12, <1>13, <1>14 DEF ServerStep

\* So the tree and the processes stay as they should.
LEMMA PlaceStep ==
    ASSUME StreamInv, NEW dirs, Apart(dirs), PlaceInv(dirs), [Next]_vars
    PROVE  PlaceInv(dirs)'
<1>1. FileTypeOK /\ TreeIn(dirs) /\ \A d \in Clients : InvOf(d) /\ PlaceOf(d, dirs)
  BY DEF StreamInv, TypeInv, PlaceInv
<1>2. CASE UNCHANGED vars
  BY <1>1, <1>2, NamesStay DEF vars, clientVars, procVars, diskVars, PlaceInv, PlaceOf, TreeIn,
                               Gone
<1>3. ASSUME NEW c \in Clients, Choose(c) \/ Kill(c) \/ ClientStep(c)
      PROVE  PlaceInv(dirs)'
  <2>1. kind' = kind
    BY <1>1, <1>3, ClientOnly DEF OnlyClient, diskVars
  <2>2. TreeIn(dirs)'
    BY <1>1, <2>1, NamesStay DEF TreeIn
  <2>3. \A d \in Clients : PlaceOf(d, dirs)'
    BY <1>1, <1>3, ClientPlace
  <2> QED
    BY <2>2, <2>3 DEF PlaceInv
<1>4. ASSUME NEW c \in Clients, ServerStep(c) PROVE PlaceInv(dirs)'
  <2>1. TreeIn(dirs)' /\ \A p \in Paths : kind[p] = "file" => kind'[p] = "file"
    BY <1>1, <1>4, TreeStep
  <2>2. PlaceOf(c, dirs)'
    BY <1>1, <1>4, <2>1, OwnPlace
  <2>3. \A d \in Clients \ {c} : PlaceOf(d, dirs)'
    BY <1>1, <1>4, <2>1, OthersPlace
  <2> QED
    BY <2>1, <2>2, <2>3 DEF PlaceInv
<1> QED
  BY <1>2, <1>3, <1>4 DEF Next

\* Where they are, uploads fit, what is sent is a file, and writers are alone.
LEMMA PlacesAreOrderly ==
    ASSUME FileTypeOK, NEW dirs, Apart(dirs), PlaceInv(dirs)
    PROVE  SendsFiles /\ WritesAlone
<1>1. SendsFiles
  BY DEF PlaceInv, PlaceOf, SendsFiles
<1>2. WritesAlone
  <2> SUFFICES ASSUME NEW c \in Clients, NEW d \in Clients, spc[c] = "body", c # d,
                      spc[d] = "body" \/ (spc[d] = "content" /\ ~Gone(d)), path[c] = path[d]
               PROVE  FALSE
    BY DEF WritesAlone
  <2>1. path[c] \in Named(c, "UPLOAD", dirs)
    BY DEF PlaceInv, PlaceOf
  <2>2. \/ path[c] \in Named(d, "UPLOAD", dirs) \cup Named(d, "DOWNLOAD", dirs)
        \/ path[c] \in Beneath(d, dirs)
    BY DEF PlaceInv, PlaceOf
  <2>3. path[c] \notin Named(d, "UPLOAD", dirs) \cup Named(d, "DOWNLOAD", dirs)
    BY <2>1 DEF Apart
  <2>4. \A q \in Named(d, "DOWNLOAD_DIR", dirs) : ~IsPrefix(q, path[c])
    BY <2>1 DEF Apart
  <2> QED
    BY <2>2, <2>3, <2>4 DEF Beneath
<1> QED
  BY <1>1, <1>2

\* Where everybody is in a place of its own, uploads find room.
LEMMA PlacesFit ==
    ASSUME StreamInv, NEW dirs, Apart(dirs), PlaceInv(dirs)
    PROVE  UploadsFit
<1> SUFFICES ASSUME NEW c \in Clients, auth[c], Command(c, "UPLOAD", 2), Len(up[c]) > 2
             PROVE  LET p == At(c, WordAt(up[c][2]))
                    IN ~Blocked(p) /\ (SizeAt(up[c][3]) > 0 => ~Unwritable(p))
  BY DEF UploadsFit
<1> DEFINE a == WordAt(up[c][1 + 1])
           p == At(c, a)
<1>1. FileTypeOK /\ InvOf(c) /\ PlaceOf(c, dirs) /\ TreeIn(dirs)
  BY DEF StreamInv, TypeInv, PlaceInv
<1>2. /\ spc[c] = "command" /\ up[c] # <<>> /\ Now(c) \in Exchange /\ up[c] \in Seq(Unit)
      /\ IsPrefix(up[c], Request(Now(c))) /\ Len(Now(c).args) = Arguments[Now(c).op]
  BY <1>1, Hears, HearsCommand
<1>3. Len(up[c]) \in Nat /\ Len(up[c]) > 1 /\ ~(Len(up[c]) <= 1)
  BY <1>2
<1>4. /\ a = Now(c).args[1] /\ Now(c) \in Asks(c) /\ Now(c).op = "UPLOAD"
      /\ cwd[c] \in Standing(c, dirs) /\ p \in Named(c, "UPLOAD", dirs)
  <2>1. a \in Heard(c, 1)
    BY <1>3 DEF Heard
  <2>2. "UPLOAD" \in Commands \ EntryCommands /\ Arguments["UPLOAD"] = 1 /\ 2 \in {1, 2}
    BY ArgumentCounts DEF Commands, EntryCommands
  <2> HIDE DEF a
  <2> QED
    BY <1>1, <1>3, <2>1, <2>2, HearsName
<1>5. SizeAt(up[c][3]) = Len(Now(c).content)
  BY <1>2, <1>4, PartOfRequest
<1> HIDE DEF a
<1>6. SizeAt(up[c][3]) > 0 => p \in Paths \ dirs /\ p # <<>> /\ kind[p] # "dir"
  <2>1. SizeAt(up[c][3]) > 0 => Now(c).content # <<>>
    BY <1>5
  <2>2. Now(c).content # <<>> => cwd[c] \o Now(c).args[1] \in Paths \ dirs
    BY <1>4 DEF Apart
  <2>3. p = cwd[c] \o Now(c).args[1]
    BY <1>4 DEF At
  <2>4. <<>> \in dirs
    BY DEF Apart
  <2> QED
    BY <1>1, <2>1, <2>2, <2>3, <2>4 DEF TreeIn
<1> HIDE DEF p
<1>7. \A q \in Prefixes(p) \ {p} : q \in Paths /\ kind[q] # "file"
  <2> SUFFICES ASSUME NEW q \in Prefixes(p) \ {p}, q \notin Paths \/ kind[q] = "file"
               PROVE  FALSE
    OBVIOUS
  <2>1. q \in Paths
    BY <1>4 DEF Apart
  <2>2. PICK d \in Clients : q \in Named(d, "UPLOAD", dirs)
    BY <1>1, <2>1 DEF TreeIn
  <2> QED
    BY <1>4, <2>2 DEF Apart
<1>8. SizeAt(up[c][3]) > 0 => ~Unwritable(p)
  <2>1. ASSUME SizeAt(up[c][3]) > 0
        PROVE  kind[Front(p)] # "file"
    <3>1. Front(p) \in Prefixes(p) \ {p}
      BY <1>6, <2>1, FrontIsPrefix, PathTypes
    <3> QED
      BY <1>7, <3>1
  <2> QED
    BY <1>6, <2>1 DEF Unwritable
<1> QED
  BY <1>7, <1>8 DEF p, a, Blocked

\* Everybody begins at the root, which is all there is.
LEMMA PlaceStarts ==
    ASSUME Init, NEW dirs, Apart(dirs)
    PROVE  PlaceInv(dirs)
<1>1. <<>> \in dirs
  BY DEF Apart
<1>2. TreeIn(dirs)
  BY <1>1 DEF Init, TreeIn
<1>3. ASSUME NEW c \in Clients PROVE PlaceOf(c, dirs)
  <2>1. cwd[c] = <<>> /\ spc[c] = "none" /\ walk[c] = <<>>
    BY DEF Init
  <2>2. cwd[c] \in Standing(c, dirs)
    BY <1>1, <2>1 DEF Standing
  <2>3. walk[c] \in Seq(SUBSET Beneath(c, dirs))
    BY <2>1, Short
  <2> QED
    BY <2>1, <2>2, <2>3 DEF PlaceOf
<1> QED
  BY <1>2, <1>3 DEF PlaceInv

\* Users who keep apart use the disk in an orderly way: uploads find room, nothing
\* but files is sent, and nobody writes to a file another process has open
\* (server.c:350-438).
THEOREM ApartIsOrderly ==
    ASSUME NEW dirs, Apart(dirs)
    PROVE  Spec => []Orderly
<1>1. Init => StreamInv /\ PlaceInv(dirs)
  BY StreamStarts, PlaceStarts
<1>2. StreamInv /\ PlaceInv(dirs) => Orderly
  BY PlacesAreOrderly, PlacesFit DEF StreamInv, TypeInv, Orderly
<1>3. StreamInv /\ PlaceInv(dirs) /\ [Next]_vars => FileTypeOK' /\ PlaceInv(dirs)'
  BY PlaceStep, TypeStep DEF StreamInv, TypeInv
<1>4. FileTypeOK /\ PlaceInv(dirs) => SendsFiles /\ WritesAlone
  BY PlacesAreOrderly
<1>5. StreamInv /\ Orderly /\ [Next]_vars /\ SendsFiles' /\ WritesAlone' => StreamInv'
  BY StreamStep
<1> QED
  BY <1>1, <1>2, <1>3, <1>4, <1>5, PTL DEF Spec

\* So whatever they ask for and however their steps interleave, their connections
\* stay in step and never come to a stop, they are logged in where they think they
\* are, and what they uploaded is whole.
THEOREM ApartIsWell ==
    ASSUME NEW dirs, Apart(dirs)
    PROVE  Spec => [](InStep /\ LoginAgreement /\ FilesAreWhole /\ NeverBothWait)
  BY ApartIsOrderly, StreamsInStep, LoginsAgree, FilesStayWhole, EndsNeverBothWait, PTL

-----------------------------------------------------------------------------
(* The file store: what users see. *)

\* Nothing changes for d but for what its process does on its own.
SameView(d) == Calls'[d] = Calls[d] /\ Results'[d] = Results[d]

\* When one alone sees something change.
LEMMA OneSees ==
    ASSUME NEW c \in Clients, \A d \in Clients \ {c} : SameView(d)
    PROVE  /\ Calls' = [Calls EXCEPT ![c] = Calls'[c]]
           /\ Results' = [Results EXCEPT ![c] = Results'[c]]
  BY DEF SameView, Calls, Results

LEMMA NobodySees ==
    ASSUME \A d \in Clients : SameView(d)
    PROVE  Calls' = Calls /\ Results' = Results
  BY DEF SameView, Calls, Results

\* What is to come is the same.
LEMMA SameComing ==
    ASSUME NEW d \in Clients, down'[d] = down[d], spc'[d] = spc[d], path'[d] = path[d],
           spc[d] = "content" => data'[path[d]] = data[path[d]]
    PROVE  Coming(d)' = Coming(d)
<1>1. CASE spc[d] = "content"
  BY <1>1 DEF Coming
<1>2. CASE spc[d] # "content"
  BY <1>2 DEF Coming
<1> QED
  BY <1>1, <1>2

\* A step of another client or its process changes nothing that d sees.
LEMMA OthersView ==
    ASSUME NEW d \in Clients, Stays(d)
    PROVE  SameView(d) /\ Gone(d)' = Gone(d)
<1>1. /\ cpc'[d] = cpc[d] /\ todo'[d] = todo[d] /\ expect'[d] = expect[d]
      /\ up'[d] = up[d] /\ down'[d] = down[d] /\ spc'[d] = spc[d]
      /\ path'[d] = path[d] /\ Gone(d)' = Gone(d) /\ Unread(d)' = Unread(d)
      /\ spc[d] = "content" /\ ~Gone(d) => data'[path[d]] = data[path[d]]
  BY DEF Stays, Gone, Unread
<1>2. Calls'[d] = Calls[d]
  BY <1>1 DEF Calls
<1>3. CASE Gone(d)
  BY <1>1, <1>2, <1>3 DEF Results, SameView, Gone
<1>4. CASE ~Gone(d)
  <2>1. Coming(d)' = Coming(d)
    BY <1>1, <1>4, SameComing
  <2>2. Fetched(d)' = Fetched(d)
    BY <1>1, <2>1 DEF Fetched
  <2>3. ResultOf(d)' = ResultOf(d)
    BY <1>1, <2>2 DEF ResultOf
  <2> QED
    BY <1>1, <1>2, <2>3 DEF Results, SameView
<1> QED
  BY <1>3, <1>4

-----------------------------------------------------------------------------
(* The file store: what is in it. *)

\* A file holds what is being written to it, or what it has.
StoreIsIt ==
    \A p \in Paths :
        /\ kind[p] # "file" => StoreOf(p) = <<>>
        /\ \A c \in Clients : kind[p] = "file" /\ Writes(c, p) => StoreOf(p) = <<Taken(c)>>
        /\ kind[p] = "file" /\ (\A c \in Clients : ~Writes(c, p)) => StoreOf(p) = <<data[p]>>

LEMMA StoreIs == WritesAlone => StoreIsIt
<1> SUFFICES ASSUME WritesAlone, NEW p \in Paths
             PROVE  /\ kind[p] # "file" => StoreOf(p) = <<>>
                    /\ \A c \in Clients : kind[p] = "file" /\ Writes(c, p)
                          => StoreOf(p) = <<Taken(c)>>
                    /\ kind[p] = "file" /\ (\A c \in Clients : ~Writes(c, p))
                          => StoreOf(p) = <<data[p]>>
  BY DEF StoreIsIt
<1>1. ASSUME NEW c \in Clients, kind[p] = "file", Writes(c, p)
      PROVE  StoreOf(p) = <<Taken(c)>>
  <2> DEFINE e == CHOOSE d \in Clients : Writes(d, p)
  <2>1. e \in Clients /\ Writes(e, p)
    BY <1>1, Zenon
  <2>2. StoreOf(p) = <<Taken(e)>>
    BY <1>1 DEF StoreOf
  <2> HIDE DEF e
  <2>3. e = c
    BY <1>1, <2>1 DEF WritesAlone, Writes
  <2> QED
    BY <2>2, <2>3
<1> QED
  BY <1>1 DEF StoreOf

LEMMA StoreWillBe == WritesAlone' => StoreIsIt'
  BY StoreIs, PTL

\* A file nobody writes, or that goes on being written, stays.
LEMMA FileStays ==
    ASSUME WritesAlone, WritesAlone', NEW p \in Paths,
           kind'[p] = "file" <=> kind[p] = "file",
           \A d \in Clients : Writes(d, p)' <=> Writes(d, p),
           \A d \in Clients : Writes(d, p) => Taken(d)' = Taken(d),
           (\A d \in Clients : ~Writes(d, p)) => data'[p] = data[p]
    PROVE  StoreOf(p)' = StoreOf(p)
<1>1. CASE kind[p] # "file"
  BY <1>1, StoreIs, StoreWillBe DEF StoreIsIt
<1>2. ASSUME NEW d \in Clients, Writes(d, p), kind[p] = "file" PROVE StoreOf(p)' = StoreOf(p)
  BY <1>2, StoreIs, StoreWillBe DEF StoreIsIt
<1>3. CASE kind[p] = "file" /\ \A d \in Clients : ~Writes(d, p)
  BY <1>3, StoreIs, StoreWillBe DEF StoreIsIt
<1> QED
  BY <1>1, <1>2, <1>3

\* Who is gone.
LEMMA StillThere ==
    ASSUME \A d \in Clients : Gone(d)' = Gone(d)
    PROVE  Stopped' = Stopped
  BY DEF Stopped

\* A step that nobody sees.
LEMMA Unseen ==
    ASSUME NEW c \in Clients, \A d \in Clients \ {c} : Stays(d),
           SameView(c), Gone(c)' = Gone(c), Contents' = Contents, cwd' = cwd
    PROVE  UNCHANGED Store!storeVars
<1>1. \A d \in Clients : SameView(d) /\ Gone(d)' = Gone(d)
  BY OthersView
<1> QED
  BY <1>1, NobodySees, StillThere DEF Store!storeVars

-----------------------------------------------------------------------------
(* The file store: clients ask, stop and go on. *)

\* A client leaves the others, and the files, as they are.
LEMMA ClientLeaves ==
    ASSUME FileTypeOK, WritesAlone, WritesAlone', NEW c \in Clients, InvOf(c),
           Choose(c) \/ Kill(c) \/ ClientStep(c)
    PROVE  /\ \A d \in Clients \ {c} : Stays(d)
           /\ Contents' = Contents /\ cwd' = cwd
<1>1. OnlyClient(c)
  BY ClientOnly
<1>2. \A d \in Clients \ {c} : Stays(d)
  BY <1>1 DEF OnlyClient, Stays, procVars, diskVars
<1>3. UNCHANGED <<spc, cwd, path, want, kind, data>>
  BY <1>1 DEF OnlyClient, procVars, diskVars
<1>4. spc[c] = "body" => up'[c] = up[c]
  <2>1. ASSUME spc[c] = "body" PROVE up'[c] = up[c]
    <3>1. cpc[c] \in {"reply", "gone"} /\ up[c] \in Seq(Unit)
      BY <2>1, Takes
    <3>2. CASE Kill(c)
      <4>1. up' = [up EXCEPT ![c] = @ \o <<>>] /\ up \in [Clients -> Seq(Unit)]
        BY <3>1, <3>2, Parts DEF Kill, Streams
      <4> QED
        BY <3>1, <4>1, EmptyJoined
    <3>3. CASE Choose(c) \/ ClientStep(c)
      BY <3>1, <3>3 DEF Choose, ClientStep, SendRequest, ReadReply, ReadSize, ReadContent,
                        ReadEntry
    <3> QED
      BY <3>2, <3>3
  <2> QED
    BY <2>1
<1>5. ASSUME NEW p \in Paths PROVE StoreOf(p)' = StoreOf(p)
  <2>1. ASSUME NEW d \in Clients
        PROVE  (Writes(d, p)' <=> Writes(d, p)) /\ (Writes(d, p) => Taken(d)' = Taken(d))
    <3>1. spc[d] = "body" => up'[d] = up[d]
      BY <1>2, <1>4 DEF Stays
    <3> QED
      BY <1>3, <3>1 DEF Writes, Taken
  <2> QED
    BY <1>3, <2>1, FileStays
<1> QED
  BY <1>2, <1>3, <1>5 DEF Contents

\* A choice is not seen,
LEMMA ChooseUnseen ==
    ASSUME FileTypeOK, WritesAlone, WritesAlone', NEW c \in Clients, InvOf(c), Choose(c)
    PROVE  UNCHANGED Store!storeVars
<1>1. cpc[c] = "menu" /\ cpc'[c] \in {"menu", "send"}
  BY Parts DEF Choose, ClientsOK
<1>2. SameView(c) /\ Gone(c)' = Gone(c)
  BY <1>1 DEF SameView, Calls, Results, Gone
<1> QED
  BY <1>2, ClientLeaves, Unseen

\* a request is,
LEMMA RequestAsks ==
    ASSUME FileTypeOK, WritesAlone, WritesAlone', NEW c \in Clients, InvOf(c), SendRequest(c)
    PROVE  Store!StoreNext
<1>1. /\ \A d \in Clients \ {c} : Stays(d)
      /\ Contents' = Contents /\ cwd' = cwd
  BY ClientLeaves DEF ClientStep
<1>2. /\ cpc[c] = "send" /\ cpc'[c] = "reply" /\ todo' = todo /\ spc' = spc
      /\ up' = [up EXCEPT ![c] = @ \o Request(Now(c))]
  BY Parts DEF SendRequest, ClientsOK, Now
<1>3. up[c] = <<>> /\ Listening(c) /\ up \in [Clients -> Seq(Unit)]
  BY <1>2, Parts DEF InvOf, Together, Streams
<1>4. /\ todo[c] \in Seq(Exchange) /\ todo[c] # <<>> /\ Now(c) \in Exchange
      /\ Request(Now(c)) \in Seq(Unit)
  BY <1>2, AtExchange, RequestTypes DEF Now
<1>5. Now(c) \in Asks(c) /\ Len(Now(c).args) = Arguments[Now(c).op]
  <2>1. 1 \in DOMAIN todo[c] /\ todo[c][1] = Now(c)
    BY <1>4 DEF Now
  <2> QED
    BY <2>1 DEF InvOf, Admitted
<1>6. up'[c] # <<>>
  BY <1>2, <1>3, <1>4, <1>5, EmptyJoined, RequestItems
<1>7. Unread(c)' /\ Gone(c)' = Gone(c) /\ ~Gone(c)
  BY <1>2, <1>3, <1>6 DEF Unread, Listening, Gone
<1>8. /\ Calls[c] = <<>> /\ Calls'[c] = <<Now(c)>>
      /\ Results[c] = <<>> /\ Results'[c] = <<>>
  BY <1>2, <1>7 DEF Calls, Results, Gone, Now
<1>9. /\ Calls' = [Calls EXCEPT ![c] = <<Now(c)>>]
      /\ Results' = Results /\ Stopped' = Stopped
  <2>1. \A d \in Clients \ {c} : SameView(d) /\ Gone(d)' = Gone(d)
    BY <1>1, OthersView
  <2>2. Results' = Results
    BY <1>8, <2>1, OneSees DEF Results
  <2> QED
    BY <1>7, <1>8, <2>1, <2>2, OneSees, StillThere
<1>10. Store!Ask(c, Now(c))
  BY <1>1, <1>7, <1>8, <1>9 DEF Store!Ask, Stopped
<1> QED
  BY <1>5, <1>10 DEF Store!StoreNext

\* and so is the end of a client.
LEMMA KillStops ==
    ASSUME FileTypeOK, WritesAlone, WritesAlone', NEW c \in Clients, InvOf(c), Kill(c)
    PROVE  Store!StoreNext
<1>1. /\ \A d \in Clients \ {c} : Stays(d)
      /\ Contents' = Contents /\ cwd' = cwd
  BY ClientLeaves
<1>2. PICK part \in IF cpc[c] = "send" THEN Prefixes(Request(Now(c))) ELSE {<<>>} :
          up' = [up EXCEPT ![c] = @ \o part]
  BY DEF Kill, Now
<1>3. /\ ~Gone(c) /\ cpc'[c] = "gone" /\ todo' = todo /\ spc' = spc /\ Gone(c)'
      /\ up \in [Clients -> Seq(Unit)] /\ cpc[c] \in ClientPlaces
  BY Parts DEF Kill, ClientsOK, Streams, Gone
<1>4. Results'[c] = <<>>
  BY <1>3 DEF Results
<1>5. cpc[c] # "send" => Unread(c)' = Unread(c)
  <2>1. up[c] \o <<>> = up[c]
    BY <1>3, EmptyJoined
  <2>2. cpc[c] # "send" => up'[c] = up[c]
    BY <1>2, <1>3, <2>1
  <2> QED
    BY <1>3, <2>2 DEF Unread
<1>6. \/ Calls'[c] = <<>> /\ (Calls[c] = <<>> \/ Results[c] # <<>>)
      \/ Calls'[c] = Calls[c] /\ Results[c] = <<>>
      \/ Calls[c] = <<>> /\ \E x \in Asks(c) : Calls'[c] = <<x>>
  <2>1. CASE cpc[c] = "menu"
    <3>1. ~Unread(c)
      BY <2>1 DEF InvOf, Together, Unread
    <3> QED
      BY <1>3, <1>5, <2>1, <3>1 DEF Calls
  <2>2. CASE cpc[c] = "send"
    <3>1. todo[c] \in Seq(Exchange) /\ todo[c] # <<>>
      BY <2>2, AtExchange
    <3>2. Now(c) \in Asks(c)
      <4>1. 1 \in DOMAIN todo[c] /\ todo[c][1] = Now(c)
        BY <3>1 DEF Now
      <4> QED
        BY <4>1 DEF InvOf, Admitted
    <3>3. Calls'[c] \in {<<>>, <<Now(c)>>} /\ Calls[c] = <<>>
      BY <1>3, <2>2 DEF Calls, Now
    <3> QED
      BY <3>2, <3>3
  <2>3. CASE cpc[c] \notin {"menu", "send"}
    <3>1. cpc[c] \notin {"menu", "send", "gone"}
      BY <1>3, <2>3 DEF Gone
    <3>2. /\ Calls[c] = <<Head(todo[c])>>
          /\ Calls'[c] = IF Unread(c) THEN Calls[c] ELSE <<>>
          /\ Results[c] = IF Unread(c) THEN <<>> ELSE <<ResultOf(c)>>
      BY <1>3, <1>5, <3>1 DEF Calls, Results, Gone
    <3>3. <<ResultOf(c)>> # <<>>
      OBVIOUS
    <3> QED
      BY <3>2, <3>3
  <2> QED
    BY <2>1, <2>2, <2>3
<1>7. /\ Calls' = [Calls EXCEPT ![c] = Calls'[c]]
      /\ Results' = [Results EXCEPT ![c] = <<>>]
      /\ Stopped' = Stopped \cup {c}
  <2>1. \A d \in Clients \ {c} : SameView(d) /\ Gone(d)' = Gone(d)
    BY <1>1, OthersView
  <2> QED
    BY <1>3, <1>4, <2>1, OneSees DEF Stopped
<1>8. Store!Stop(c)
  <2>1. Calls'[c] = Calls[c] => Calls' = Calls
    BY <1>7 DEF Calls
  <2> QED
    BY <1>1, <1>3, <1>6, <1>7, <2>1 DEF Store!Stop, Stopped
<1> QED
  BY <1>8 DEF Store!StoreNext

-----------------------------------------------------------------------------
(* The file store: answers. *)

\* What is taken for content when k units of s come before n of them.
Brings(s, k, n) ==
    IF Len(s) = k + n THEN Says("found", [i \in 1..n |-> BlockAt(s[k + i])])
    ELSE Says("garbled", <<>>)

\* Reading one of the k does not matter.
LEMMA BringsOn ==
    ASSUME NEW s \in Seq(Unit), NEW t \in Seq(Unit), s # <<>>, Len(t) = Len(s) - 1,
           \A i \in 1..Len(t) : t[i] = s[i + 1], NEW k \in Nat, NEW n \in Nat
    PROVE  Brings(s, k + 1, n) = Brings(t, k, n)
<1>1. Len(s) = k + 1 + n <=> Len(t) = k + n
  OBVIOUS
<1>2. ASSUME Len(t) = k + n
      PROVE  [i \in 1..n |-> BlockAt(s[k + 1 + i])] = [i \in 1..n |-> BlockAt(t[k + i])]
  <2>1. ASSUME NEW i \in 1..n PROVE t[k + i] = s[k + 1 + i]
    <3>1. k + i \in 1..Len(t) /\ (k + i) + 1 = k + 1 + i
      BY <1>2
    <3> QED
      BY <3>1
  <2> QED
    BY <2>1
<1> QED
  BY <1>1, <1>2 DEF Brings

\* A download, by how far its client has read.
FetchedIsIt ==
    \A c \in Clients :
        LET s == Coming(c)
        IN /\ cpc[c] = "reply" /\ WordAt(s[1]) = <<"FileNotFound">>
                 => Fetched(c) = Says("missing", <<>>)
           /\ cpc[c] = "reply" /\ WordAt(s[1]) # <<"FileNotFound">>
                 => Fetched(c) = Brings(s, 2, SizeAt(s[2]))
           /\ cpc[c] = "size" => Fetched(c) = Brings(s, 1, SizeAt(s[1]))
           /\ cpc[c] = "content" => Fetched(c) = Brings(s, 0, expect[c])

LEMMA FetchedIs == FetchedIsIt
<1> SUFFICES ASSUME NEW c \in Clients
             PROVE  LET s == Coming(c)
                    IN /\ cpc[c] = "reply" /\ WordAt(s[1]) = <<"FileNotFound">>
                             => Fetched(c) = Says("missing", <<>>)
                       /\ cpc[c] = "reply" /\ WordAt(s[1]) # <<"FileNotFound">>
                             => Fetched(c) = Brings(s, 2, SizeAt(s[2]))
                       /\ cpc[c] = "size" => Fetched(c) = Brings(s, 1, SizeAt(s[1]))
                       /\ cpc[c] = "content" => Fetched(c) = Brings(s, 0, expect[c])
  BY DEF FetchedIsIt
<1> DEFINE k == [reply |-> 2, size |-> 1, content |-> 0][cpc[c]]
<1>1. CASE cpc[c] = "reply"
  <2>1. k = 2
    BY <1>1
  <2> QED
    BY <1>1, <2>1 DEF Fetched, Brings
<1>2. CASE cpc[c] = "size"
  <2>1. k = 1
    BY <1>2
  <2> QED
    BY <1>2, <2>1 DEF Fetched, Brings
<1>3. CASE cpc[c] = "content"
  <2>1. k = 0
    BY <1>3
  <2> QED
    BY <1>3, <2>1 DEF Fetched, Brings
<1> QED
  BY <1>1, <1>2, <1>3

LEMMA FetchedWillBe == FetchedIsIt'
  BY FetchedIs, PTL

\* A file is sent block by block.
LEMMA ContentTypes ==
    ASSUME NEW s \in Seq(Blocks)
    PROVE  /\ [i \in DOMAIN s |-> Block(s[i])] \in Seq(Unit)
           /\ Len([i \in DOMAIN s |-> Block(s[i])]) = Len(s)
<1>1. \A i \in 1..Len(s) : Block(s[i]) \in Unit
  BY UnitTypes
<1> QED
  BY <1>1

\* What is to come is units.
LEMMA ComingTypes ==
    ASSUME FileTypeOK, NEW c \in Clients
    PROVE  /\ down[c] \in Seq(Unit) /\ Coming(c) \in Seq(Unit)
           /\ Len(Coming(c)) >= Len(down[c]) /\ Len(down[c]) \in Nat
           /\ \A i \in 1..Len(down[c]) : Coming(c)[i] = down[c][i]
<1> DEFINE t == IF spc[c] = "content"
                THEN [i \in DOMAIN data[path[c]] |-> Block(data[path[c]][i])] ELSE <<>>
<1>1. down[c] \in Seq(Unit) /\ data[path[c]] \in Seq(Blocks)
  BY Parts DEF Streams, ProcsOK, DiskOK
<1>2. [i \in DOMAIN data[path[c]] |-> Block(data[path[c]][i])] \in Seq(Unit)
  BY <1>1, ContentTypes
<1>3. <<>> \in Seq(Unit)
  OBVIOUS
<1>4. t \in Seq(Unit)
  BY <1>2, <1>3
<1>5. Coming(c) = down[c] \o t
  BY DEF Coming
<1> HIDE DEF t
<1> QED
  BY <1>1, <1>4, <1>5

\* The client reads one unit: the rest is still to come.
LEMMA ComingOn ==
    ASSUME FileTypeOK, NEW c \in Clients, down[c] # <<>>,
           down'[c] = SubSeq(down[c], 1 + 1, Len(down[c])), UNCHANGED <<spc, path, data>>
    PROVE  LET s == Coming(c)
               t == Coming(c)'
           IN /\ s # <<>> /\ t \in Seq(Unit) /\ Len(t) = Len(s) - 1
              /\ \A i \in 1..Len(t) : t[i] = s[i + 1]
<1> DEFINE u == IF spc[c] = "content"
                THEN [i \in DOMAIN data[path[c]] |-> Block(data[path[c]][i])] ELSE <<>>
           d == down[c]
           e == SubSeq(d, 1 + 1, Len(d))
<1>1. d \in Seq(Unit) /\ data[path[c]] \in Seq(Blocks)
  BY Parts DEF Streams, ProcsOK, DiskOK
<1>2. u \in Seq(Unit)
  <2>1. [i \in DOMAIN data[path[c]] |-> Block(data[path[c]][i])] \in Seq(Unit)
    BY <1>1, ContentTypes
  <2>2. <<>> \in Seq(Unit)
    OBVIOUS
  <2> QED
    BY <2>1, <2>2
<1>3. Coming(c) = d \o u /\ Coming(c)' = e \o u
  BY DEF Coming
<1>4. e \in Seq(Unit) /\ Len(e) = Len(d) - 1 /\ \A i \in 1..Len(e) : e[i] = d[i + 1]
  BY <1>1
<1>5. d # <<>> /\ Len(d) \in Nat \ {0}
  BY <1>1
<1> HIDE DEF u, d, e
<1>6. /\ d \o u \in Seq(Unit) /\ Len(d \o u) = Len(d) + Len(u)
      /\ \A i \in 1..Len(d) : (d \o u)[i] = d[i]
      /\ \A i \in 1..Len(u) : (d \o u)[i + Len(d)] = u[i]
  BY <1>1, <1>2, JoinedUnits
<1>7. /\ e \o u \in Seq(Unit) /\ Len(e \o u) = Len(e) + Len(u)
      /\ \A i \in 1..Len(e) : (e \o u)[i] = e[i]
      /\ \A i \in 1..Len(u) : (e \o u)[i + Len(e)] = u[i]
  BY <1>2, <1>4, JoinedUnits
<1>8. ASSUME NEW i \in 1..Len(e \o u) PROVE (e \o u)[i] = (d \o u)[i + 1]
  <2>1. CASE i <= Len(e)
    <3>1. i \in 1..Len(e) /\ i + 1 \in 1..Len(d)
      BY <1>4, <1>5, <2>1
    <3> QED
      BY <1>4, <1>6, <1>7, <3>1
  <2>2. CASE i > Len(e)
    <3>1. /\ i - Len(e) \in 1..Len(u) /\ (i - Len(e)) + Len(e) = i
          /\ (i - Len(e)) + Len(d) = i + 1
      BY <1>2, <1>4, <1>5, <1>7, <2>2
    <3> QED
      BY <1>6, <1>7, <3>1
  <2> QED
    BY <1>4, <1>5, <2>1, <2>2
<1>9. d \o u # <<>> /\ Len(e \o u) = Len(d \o u) - 1
  BY <1>2, <1>4, <1>5, <1>6, <1>7
<1> QED
  BY <1>3, <1>7, <1>8, <1>9

\* The client reads on without a difference to what it gets.
LEMMA ReadsOn ==
    ASSUME NEW c \in Clients, Answering(c), cpc[c] \notin {"menu", "send", "gone"},
           cpc'[c] \in {"size", "content", "entries"}, Now(c).op \in Downloads,
           todo' = todo, up' = up, spc' = spc,
           Now(c).op = "DOWNLOAD" => Fetched(c)' = Fetched(c)
    PROVE  SameView(c) /\ Gone(c)' = Gone(c)
<1>1. up[c] = <<>> /\ ~Unread(c) /\ ~Unread(c)' /\ ~Gone(c) /\ ~Gone(c)'
  BY DEF Answering, Unread, Gone
<1>2. ResultOf(c)' = ResultOf(c)
  BY DEF ResultOf, Now, Downloads
<1> QED
  BY <1>1, <1>2 DEF SameView, Calls, Results, Gone

\* The client is through with the answer.
LEMMA FinishReturns ==
    ASSUME FileTypeOK, NEW c \in Clients, Answering(c), cpc[c] \notin {"menu", "send", "gone"},
           Finish(c), \A d \in Clients \ {c} : Stays(d), Contents' = Contents, cwd' = cwd
    PROVE  Store!StoreNext
<1>1. cpc'[c] \in {"menu", "send"}
  BY Parts DEF Finish, ClientsOK
<1>2. up[c] = <<>> /\ ~Unread(c) /\ ~Gone(c) /\ ~Gone(c)'
  BY <1>1 DEF Answering, Unread, Gone
<1>3. Results[c] = <<ResultOf(c)>> /\ Results'[c] = <<>> /\ Calls'[c] = <<>>
  BY <1>1, <1>2 DEF Results, Calls
<1>4. /\ Calls' = [Calls EXCEPT ![c] = <<>>]
      /\ Results' = [Results EXCEPT ![c] = <<>>] /\ Stopped' = Stopped
  <2>1. \A d \in Clients \ {c} : SameView(d) /\ Gone(d)' = Gone(d)
    BY OthersView
  <2>2. Gone(c)' = Gone(c)
    BY <1>2 DEF Gone
  <2>3. \A d \in Clients : Gone(d)' = Gone(d)
    BY <2>1, <2>2
  <2> QED
    BY <1>3, <2>1, <2>3, OneSees, StillThere
<1>5. Results[c] # <<>>
  BY <1>3
<1>6. Store!Return(c)
  BY <1>2, <1>4, <1>5 DEF Store!Return, Stopped
<1> QED
  BY <1>6 DEF Store!StoreNext

\* The first answer.
LEMMA ReplySeen ==
    ASSUME FileTypeOK, WritesAlone, WritesAlone', NEW c \in Clients, InvOf(c), ReadReply(c)
    PROVE  Store!StoreNext \/ UNCHANGED Store!storeVars
<1>1. /\ \A d \in Clients \ {c} : Stays(d)
      /\ Contents' = Contents /\ cwd' = cwd
  BY ClientLeaves DEF ClientStep
<1> DEFINE w == WordAt(Head(down[c]))
           op == Now(c).op
<1>2. /\ cpc[c] = "reply" /\ down[c] # <<>> /\ UNCHANGED <<up, spc, path, data>>
      /\ down' = [down EXCEPT ![c] = SubSeq(@, 1 + 1, Len(@))]
      /\ cpc \in [Clients -> ClientPlaces] /\ down \in [Clients -> Seq(Unit)]
  BY Parts DEF ReadReply, Received, ClientsOK, Streams, procVars, diskVars
<1>3. Answering(c) /\ FirstAnswer(c)
  BY <1>2 DEF InvOf, Together, Asked, Taking
<1>4. /\ down[c][1] = Head(down[c]) /\ Len(down[c]) \in Nat /\ 1 \in 1..Len(down[c])
      /\ down'[c] = SubSeq(down[c], 1 + 1, Len(down[c]))
  BY <1>2
<1>5. Coming(c)[1] = Head(down[c])
  BY <1>4, ComingTypes
<1>6. CASE op = "DOWNLOAD" /\ w # <<"FileNotFound">>
  <2>1. todo' = todo /\ cpc'[c] = "size"
    BY <1>2, <1>6 DEF ReadReply, GoOn, Now
  <2>2. PICK marks : SizeAtMark(down[c], 2, marks, spc[c], SizeOf(c))
    BY <1>3, <1>4, <1>6 DEF FirstAnswer
  <2>3. 2 \in 1..Len(down[c])
    BY <1>4, <2>2 DEF SizeAtMark
  <2> DEFINE s == Coming(c)
             t == Coming(c)'
  <2>4. s \in Seq(Unit) /\ Len(s) >= Len(down[c])
    BY ComingTypes
  <2>5. /\ s # <<>> /\ t \in Seq(Unit) /\ Len(t) = Len(s) - 1
        /\ \A i \in 1..Len(t) : t[i] = s[i + 1]
    BY <1>2, <1>4, ComingOn
  <2>6. Fetched(c) = Brings(s, 2, SizeAt(s[2])) /\ Fetched(c)' = Brings(t, 1, SizeAt(t[1]))
    BY <1>2, <1>5, <1>6, <2>1, FetchedIs, FetchedWillBe DEF FetchedIsIt
  <2> HIDE DEF s, t
  <2>7. t[1] = s[2] /\ SizeAt(s[2]) \in Nat
    <3>1. 2 \in 1..Len(s) /\ 1 \in 1..Len(t) /\ 1 + 1 = 2
      BY <1>4, <2>3, <2>4, <2>5
    <3>2. s[2] \in Unit
      BY <2>4, <3>1
    <3> QED
      BY <2>5, <3>1, <3>2, ReadTypes
  <2>8. Brings(s, 1 + 1, SizeAt(s[2])) = Brings(t, 1, SizeAt(s[2])) /\ 1 + 1 = 2
    BY <2>4, <2>5, <2>7, BringsOn
  <2>9. Fetched(c)' = Fetched(c)
    BY <2>6, <2>7, <2>8
  <2> QED
    BY <1>1, <1>2, <1>3, <1>6, <2>1, <2>9, ReadsOn, Unseen DEF Downloads
<1>7. CASE op = "DOWNLOAD_DIR" /\ w # <<"DirectoryNotFound">>
  <2>1. todo' = todo /\ cpc'[c] = "entries"
    BY <1>2, <1>7 DEF ReadReply, GoOn, Now
  <2> QED
    BY <1>1, <1>2, <1>3, <1>7, <2>1, ReadsOn, Unseen DEF Downloads
<1>8. CASE /\ ~(op = "DOWNLOAD" /\ w # <<"FileNotFound">>)
           /\ ~(op = "DOWNLOAD_DIR" /\ w # <<"DirectoryNotFound">>)
  <2>1. Finish(c)
    BY <1>8 DEF ReadReply, Now
  <2> QED
    BY <1>1, <1>2, <1>3, <2>1, FinishReturns
<1> QED
  BY <1>6, <1>7, <1>8

\* The size.
LEMMA SizeSeen ==
    ASSUME FileTypeOK, WritesAlone, WritesAlone', NEW c \in Clients, InvOf(c), ReadSize(c)
    PROVE  Store!StoreNext \/ UNCHANGED Store!storeVars
<1>1. /\ \A d \in Clients \ {c} : Stays(d)
      /\ Contents' = Contents /\ cwd' = cwd
  BY ClientLeaves DEF ClientStep
<1>2. /\ cpc[c] = "size" /\ down[c] # <<>> /\ UNCHANGED <<todo, up, spc, path, data>>
      /\ down' = [down EXCEPT ![c] = SubSeq(@, 1 + 1, Len(@))]
      /\ cpc' = [cpc EXCEPT ![c] = "content"]
      /\ expect' = [expect EXCEPT ![c] = SizeAt(Head(down[c]))]
      /\ cpc \in [Clients -> ClientPlaces] /\ down \in [Clients -> Seq(Unit)]
      /\ expect \in [Clients -> Nat]
  BY Parts DEF ReadSize, GoOn, Received, ClientsOK, Streams, procVars, diskVars
<1>3. Answering(c) /\ Now(c).op \in Downloads
  BY <1>2 DEF InvOf, Together, LaterAnswer
<1>4. /\ down[c][1] = Head(down[c]) /\ Len(down[c]) \in Nat /\ 1 \in 1..Len(down[c])
      /\ down'[c] = SubSeq(down[c], 1 + 1, Len(down[c])) /\ cpc'[c] = "content"
      /\ expect'[c] = SizeAt(Head(down[c])) /\ Head(down[c]) \in Unit
  BY <1>2
<1> DEFINE s == Coming(c)
           t == Coming(c)'
<1>5. s \in Seq(Unit) /\ s[1] = Head(down[c])
  BY <1>4, ComingTypes
<1>6. /\ s # <<>> /\ t \in Seq(Unit) /\ Len(t) = Len(s) - 1
      /\ \A i \in 1..Len(t) : t[i] = s[i + 1]
  BY <1>2, <1>4, ComingOn
<1>7. Fetched(c) = Brings(s, 1, SizeAt(s[1])) /\ Fetched(c)' = Brings(t, 0, expect'[c])
  BY <1>2, <1>4, FetchedIs, FetchedWillBe DEF FetchedIsIt
<1> HIDE DEF s, t
<1>8. SizeAt(s[1]) = expect'[c] /\ expect'[c] \in Nat
  BY <1>4, <1>5, ReadTypes
<1>9. Brings(s, 0 + 1, expect'[c]) = Brings(t, 0, expect'[c]) /\ 0 + 1 = 1
  BY <1>5, <1>6, <1>8, BringsOn
<1>10. Fetched(c)' = Fetched(c)
  BY <1>7, <1>8, <1>9
<1> QED
  BY <1>1, <1>2, <1>3, <1>4, <1>10, ReadsOn, Unseen

\* The content.
LEMMA ContentSeen ==
    ASSUME FileTypeOK, WritesAlone, WritesAlone', NEW c \in Clients, InvOf(c), ReadContent(c)
    PROVE  Store!StoreNext \/ UNCHANGED Store!storeVars
<1>1. /\ \A d \in Clients \ {c} : Stays(d)
      /\ Contents' = Contents /\ cwd' = cwd
  BY ClientLeaves DEF ClientStep
<1>2. cpc[c] = "content" /\ UNCHANGED <<up, spc>> /\ cpc \in [Clients -> ClientPlaces]
  BY Parts DEF ReadContent, ClientsOK
<1>3. Answering(c) /\ Now(c).op \in Downloads
  BY <1>2 DEF InvOf, Together, LaterAnswer
<1>4. CASE Now(c).op = "DOWNLOAD_DIR"
  <2>1. todo' = todo /\ cpc'[c] = "entries"
    BY <1>2, <1>4 DEF ReadContent, GoOn, Now
  <2> QED
    BY <1>1, <1>2, <1>3, <1>4, <2>1, ReadsOn, Unseen
<1>5. CASE Now(c).op # "DOWNLOAD_DIR"
  <2>1. Finish(c)
    BY <1>5 DEF ReadContent, Now
  <2> QED
    BY <1>1, <1>2, <1>3, <2>1, FinishReturns
<1> QED
  BY <1>4, <1>5

\* An entry of a directory.
LEMMA EntrySeen ==
    ASSUME FileTypeOK, WritesAlone, WritesAlone', NEW c \in Clients, InvOf(c), ReadEntry(c)
    PROVE  Store!StoreNext \/ UNCHANGED Store!storeVars
<1>1. /\ \A d \in Clients \ {c} : Stays(d)
      /\ Contents' = Contents /\ cwd' = cwd
  BY ClientLeaves DEF ClientStep
<1>2. cpc[c] = "entries" /\ UNCHANGED <<up, spc>> /\ cpc \in [Clients -> ClientPlaces]
  BY Parts DEF ReadEntry, ClientsOK
<1>3. Answering(c) /\ Now(c).op \in Downloads /\ Now(c).op = "DOWNLOAD_DIR"
  BY <1>2 DEF InvOf, Together, LaterAnswer
<1>4. GoOn(c, "size") \/ GoOn(c, "entries") \/ Finish(c)
  BY DEF ReadEntry
<1>5. CASE GoOn(c, "size") \/ GoOn(c, "entries")
  <2>1. todo' = todo /\ cpc'[c] \in {"size", "entries"}
    BY <1>2, <1>5 DEF GoOn
  <2> QED
    BY <1>1, <1>2, <1>3, <2>1, ReadsOn, Unseen
<1>6. CASE Finish(c)
  BY <1>1, <1>2, <1>3, <1>6, FinishReturns
<1> QED
  BY <1>4, <1>5, <1>6

-----------------------------------------------------------------------------
(* The file store: its process carries a request out. *)

\* No file becomes anything else.
LEMMA FilesRemain ==
    ASSUME FileTypeOK, NEW c \in Clients, ServerStep(c)
    PROVE  \A p \in Paths : kind[p] = "file" => kind'[p] = "file"
<1>1. kind \in [Paths -> {"none", "dir", "file"}]
  BY Fields DEF DiskOK
<1>2. CASE UploadOpen(c)
  <2>1. PICK p : kind' = Makes(p) \/ kind' = [Makes(p) EXCEPT ![p] = "file"]
    BY <1>2 DEF UploadOpen
  <2>2. /\ Makes(p) \in [Paths -> {"none", "dir", "file"}]
        /\ \A q \in Paths : kind[q] = "file" => Makes(p)[q] = "file"
    BY MakesTypes
  <2> QED
    BY <2>1, <2>2
<1>3. CASE MakeDir(c)
  <2>1. PICK p : kind' = kind \/ (CanMakeDir(p) /\ kind' = [kind EXCEPT ![p] = "dir"])
    BY <1>3 DEF MakeDir
  <2> QED
    BY <1>1, <2>1 DEF CanMakeDir
<1>4. CASE ServerStep(c) /\ ~UploadOpen(c) /\ ~MakeDir(c)
  <2>1. kind' = kind
    BY <1>4 DEF ServerStep, Accept, Unknown, Exit, Register, AppendAccount, Login, ListFiles,
                SearchFiles, ChangeDir, UploadBody, DownloadOpen, SendContent, DirOpen,
                DirEntry, DirEnd, diskVars
  <2> QED
    BY <2>1
<1> QED
  BY <1>2, <1>3, <1>4

\* A process that writes no file leaves the others, and the files, as they are.
LEMMA ServerLeaves ==
    ASSUME FileTypeOK, WritesAlone, WritesAlone', NEW c \in Clients, ServerStep(c),
           spc[c] # "body", spc'[c] # "body"
    PROVE  /\ \A d \in Clients \ {c} : Stays(d)
           /\ Contents' = Contents
<1>1. \A d \in Clients \ {c} : Stays(d)
  BY ServerOthers
<1>2. data' = data /\ \A p \in Paths : kind'[p] = "file" <=> kind[p] = "file"
  <2>1. ~UploadBody(c)
    BY DEF UploadBody
  <2> QED
    BY <2>1, WhatIsWritten, FilesRemain
<1>3. ASSUME NEW p \in Paths PROVE StoreOf(p)' = StoreOf(p)
  <2>1. ASSUME NEW d \in Clients
        PROVE  (Writes(d, p)' <=> Writes(d, p)) /\ (Writes(d, p) => Taken(d)' = Taken(d))
    <3>1. CASE d = c
      BY <3>1 DEF Writes
    <3>2. CASE d # c
      BY <1>1, <3>2 DEF Stays, Writes, Taken
    <3> QED
      BY <3>1, <3>2
  <2> QED
    BY <1>2, <2>1, FileStays
<1> QED
  BY <1>1, <1>3 DEF Contents

\* The process has read the request of its client.
LEMMA Handled ==
    ASSUME FileTypeOK, NEW c \in Clients, InvOf(c), UNCHANGED clientVars,
           \A d \in Clients \ {c} : Stays(d),
           spc[c] = "command", up[c] # <<>>, ~Unread(c)'
    PROVE  /\ Calls[c] = <<Now(c)>> /\ Results[c] = <<>> /\ Stopped' = Stopped
           /\ Gone(c) => Calls' = [Calls EXCEPT ![c] = <<>>] /\ Results' = Results
           /\ ~Gone(c) => /\ Calls' = Calls
                          /\ Results' = [Results EXCEPT ![c] = <<ResultOf(c)'>>]
<1>1. cpc[c] \in {"reply", "gone"} /\ Unread(c)
  BY Hears DEF Unread
<1>2. cpc' = cpc /\ todo' = todo /\ Gone(c)' = Gone(c)
  BY DEF clientVars, Gone
<1>3. \A d \in Clients \ {c} : SameView(d) /\ Gone(d)' = Gone(d)
  BY OthersView
<1>4. \A d \in Clients : Gone(d)' = Gone(d)
  BY <1>2, <1>3
<1>5. Calls[c] = <<Now(c)>> /\ Results[c] = <<>> /\ Stopped' = Stopped
  BY <1>1, <1>4, StillThere DEF Calls, Results, Gone, Now
<1>6. ASSUME Gone(c) PROVE Calls' = [Calls EXCEPT ![c] = <<>>] /\ Results' = Results
  <2>1. Calls'[c] = <<>> /\ Results'[c] = <<>>
    BY <1>2, <1>6 DEF Calls, Results, Gone
  <2>2. Results' = Results
    BY <1>3, <1>5, <2>1, NobodySees, OneSees DEF Results
  <2> QED
    BY <1>3, <2>1, <2>2, OneSees
<1>7. ASSUME ~Gone(c)
      PROVE  Calls' = Calls /\ Results' = [Results EXCEPT ![c] = <<ResultOf(c)'>>]
  <2>1. Calls'[c] = Calls[c] /\ Results'[c] = <<ResultOf(c)'>>
    BY <1>1, <1>2, <1>7 DEF Calls, Results, Gone
  <2>2. Calls' = Calls
    BY <1>3, <2>1, OneSees DEF Calls
  <2> QED
    BY <1>3, <2>1, <2>2, OneSees
<1> QED
  BY <1>5, <1>6, <1>7

\* A request of somebody who is gone may come to nothing.
LEMMA Drops ==
    ASSUME NEW c \in Clients, Gone(c), Calls[c] # <<>>,
           Calls' = [Calls EXCEPT ![c] = <<>>], Results' = Results, Stopped' = Stopped,
           Contents' = Contents, NEW w \in Paths, cwd' \in {cwd, [cwd EXCEPT ![c] = w]}
    PROVE  Store!StoreNext
<1>1. Store!Drop(c)
  BY DEF Store!Drop, Stopped
<1> QED
  BY <1>1 DEF Store!StoreNext

\* The requests that leave the files and the places of users alone.
LEMMA Looks ==
    ASSUME FileTypeOK, NEW c \in Clients, InvOf(c), UNCHANGED clientVars,
           \A d \in Clients \ {c} : Stays(d),
           spc[c] = "command", up[c] # <<>>, up'[c] = <<>>, Contents' = Contents, cwd' = cwd,
           Now(c).op \in {"Register", "Login", "LIST", "SEARCH", "MKDIR", "DOWNLOAD_DIR",
                          "END_OF_DIR"}
    PROVE  Store!StoreNext
<1>1. ~Unread(c)'
  BY DEF Unread
<1>2. CASE Gone(c)
  <2>1. <<Now(c)>> # <<>>
    OBVIOUS
  <2> QED
    BY <1>1, <1>2, <2>1, Handled, Drops, PathTypes
<1>3. CASE ~Gone(c)
  <2>1. ResultOf(c)' = Says("done", <<>>)
    BY DEF ResultOf, Now, clientVars
  <2>2. /\ Calls[c] = <<Now(c)>> /\ Results[c] = <<>> /\ Stopped' = Stopped
        /\ Calls' = Calls /\ Results' = [Results EXCEPT ![c] = <<Says("done", <<>>)>>]
    BY <1>1, <1>3, <2>1, Handled
  <2>3. Calls[c] # <<>> /\ Calls[c][1] = Now(c)
    BY <2>2
  <2>4. Store!Look(c)
    BY <1>3, <2>2, <2>3 DEF Store!Look, Store!Asked, Store!Say, Says, Stopped
  <2> QED
    BY <2>4 DEF Store!StoreNext
<1> QED
  BY <1>2, <1>3

\* A command that is answered at once.
LEMMA CommandRead ==
    ASSUME FileTypeOK, NEW c \in Clients, InvOf(c), NEW op, op # "UPLOAD", NEW n,
           Command(c, op, n), NEW k \in Nat, k > Arguments[op], Consumed(c, k),
           NEW units, NEW next, next # "body", Answer(c, units, next)
    PROVE  /\ spc[c] = "command" /\ up[c] # <<>> /\ Now(c).op = op
           /\ up'[c] = <<>> /\ spc'[c] # "body"
<1>1. spc'[c] \in {next, "exit"}
  BY AnswerView
<1> QED
  BY <1>1, HearsCommand

\* Most commands only look.
LEMMA LookSeen ==
    ASSUME FileTypeOK, WritesAlone, WritesAlone', NEW c \in Clients, InvOf(c),
           \/ Unknown(c) \/ Register(c) \/ Login(c) \/ ListFiles(c) \/ SearchFiles(c)
           \/ MakeDir(c) \/ DirOpen(c)
    PROVE  Store!StoreNext
<1>1. ServerStep(c) /\ UNCHANGED <<clientVars, cwd>>
  BY DEF ServerStep, Unknown, Register, Login, ListFiles, SearchFiles, MakeDir, DirOpen, procVars
<1>2. ASSUME spc[c] = "command", up[c] # <<>>, up'[c] = <<>>, spc'[c] # "body",
             Now(c).op \in {"Register", "Login", "LIST", "SEARCH", "MKDIR", "DOWNLOAD_DIR",
                            "END_OF_DIR"}
      PROVE  Store!StoreNext
  BY <1>1, <1>2, ServerLeaves, Looks
<1>3. ASSUME NEW op \in {"Register", "Login", "LIST", "SEARCH", "MKDIR", "DOWNLOAD_DIR"},
             NEW n, Command(c, op, n), NEW k \in {1, 2, 3}, k > Arguments[op], Consumed(c, k),
             NEW units, NEW next \in {"command", "append", "walk"}, Answer(c, units, next)
      PROVE  Store!StoreNext
  <2>1. op # "UPLOAD" /\ next # "body" /\ k \in Nat
    BY <1>3
  <2> QED
    BY <1>2, <1>3, <2>1, CommandRead
<1>4. /\ 3 > Arguments["Register"] /\ 3 > Arguments["Login"] /\ 1 > Arguments["LIST"]
      /\ 2 > Arguments["SEARCH"] /\ 2 > Arguments["MKDIR"] /\ 2 > Arguments["DOWNLOAD_DIR"]
  BY ArgumentCounts DEF EntryCommands
<1>5. CASE Unknown(c)
  <2>1. /\ spc[c] = "command" /\ up[c] # <<>> /\ Consumed(c, 1)
    BY <1>5 DEF Unknown
  <2>2. /\ WordAt(Head(up[c])) = <<Now(c).op>> /\ Now(c) \in Exchange
        /\ up[c] \in Seq(Unit) /\ IsPrefix(up[c], Request(Now(c)))
        /\ Len(Now(c).args) = Arguments[Now(c).op]
        /\ Now(c).op \notin EntryCommands => auth[c]
    BY <2>1, Hears
  <2>3. auth[c]
    BY <1>5, <2>2 DEF Unknown, EntryCommands
  <2>4. /\ Now(c).op \notin {"Register", "Login", "LIST", "SEARCH", "MKDIR", "CD", "UPLOAD",
                             "DOWNLOAD", "DOWNLOAD_DIR"}
        /\ Reply(c, "Lenh_khong_hop_le")
    BY <1>5, <2>2, <2>3 DEF Unknown
  <2>5. Now(c).op = "END_OF_DIR"
    BY <2>2, <2>4 DEF Exchange, Commands
  <2>6. up'[c] = <<>>
    <3>1. 1 \in Nat /\ 1 > Arguments[Now(c).op]
      BY <2>5, ArgumentCounts
    <3>2. SubSeq(up[c], 1 + 1, Len(up[c])) = <<>>
      BY <2>1, <2>2, <2>5, <3>1, PartOfRequest
    <3> QED
      BY <2>1, <3>2, ConsumedView
  <2>7. spc'[c] # "body"
    BY <2>4, AnswerView DEF Reply
  <2> QED
    BY <1>2, <2>1, <2>5, <2>6, <2>7
<1>6. CASE Register(c)
  <2>1. Command(c, "Register", 2) /\ Consumed(c, 3)
    BY <1>6 DEF Register
  <2>2. \E units, next : next \in {"command", "append"} /\ Answer(c, units, next)
    BY <1>6 DEF Register, Reply
  <2> QED
    BY <1>3, <1>4, <2>1, <2>2
<1>7. CASE Login(c)
  <2>1. Command(c, "Login", 2) /\ Consumed(c, 3)
    BY <1>7 DEF Login
  <2>2. \E units : Answer(c, units, "command")
    BY <1>7 DEF Login, Reply
  <2> QED
    BY <1>3, <1>4, <2>1, <2>2
<1>8. CASE ListFiles(c)
  BY <1>3, <1>4, <1>8 DEF ListFiles, Reply
<1>9. CASE SearchFiles(c)
  BY <1>3, <1>4, <1>9 DEF SearchFiles, Reply
<1>10. CASE MakeDir(c)
  <2>1. Command(c, "MKDIR", 1) /\ Consumed(c, 2)
    BY <1>10 DEF MakeDir
  <2>2. \E units : Answer(c, units, "command")
    BY <1>10 DEF MakeDir, Reply
  <2> QED
    BY <1>3, <1>4, <2>1, <2>2
<1>11. CASE DirOpen(c)
  <2>1. Command(c, "DOWNLOAD_DIR", 1) /\ Consumed(c, 2)
    BY <1>11 DEF DirOpen
  <2>2. \E units, next : next \in {"command", "walk"} /\ Answer(c, units, next)
    BY <1>11 DEF DirOpen, Reply
  <2> QED
    BY <1>3, <1>4, <2>1, <2>2
<1> QED
  BY <1>5, <1>6, <1>7, <1>8, <1>9, <1>10, <1>11

\* What is heard of a name is what the client named, if it came.
LEMMA HearsArgument ==
    ASSUME FileTypeOK, NEW c \in Clients, InvOf(c), NEW op, NEW n \in {1, 2},
           Arguments[op] = 1, Command(c, op, n), NEW a \in Heard(c, 1)
    PROVE  Len(up[c]) > 1 \/ ~Gone(c) => a = Now(c).args[1]
<1>1. /\ spc[c] = "command" /\ up[c] # <<>> /\ Now(c).op = op /\ (Len(up[c]) > n \/ Gone(c))
  BY HearsCommand DEF Command
<1>2. /\ Now(c) \in Exchange /\ up[c] \in Seq(Unit)
      /\ IsPrefix(up[c], Request(Now(c))) /\ Len(Now(c).args) = Arguments[Now(c).op]
  BY <1>1, Hears
<1>3. SUFFICES ASSUME Len(up[c]) > 1 PROVE a = Now(c).args[1]
  <2>1. Len(up[c]) \in Nat
    BY <1>2
  <2> QED
    BY <1>1, <2>1
<1>4. /\ Request(Now(c)) \in Seq(Unit)
      /\ \A i \in 1..1 : Request(Now(c))[i + 1] = Text(Now(c).args[i])
  BY <1>1, <1>2, RequestItems
<1>5. up[c][1 + 1] = Request(Now(c))[1 + 1]
  <2>1. \A i \in 1..Len(up[c]) : up[c][i] = Request(Now(c))[i]
    BY <1>2, <1>4, PrefixItems
  <2> QED
    BY <1>2, <1>3, <2>1
<1>6. a = WordAt(up[c][1 + 1])
  BY <1>3 DEF Heard
<1>7. up[c][1 + 1] = Text(Now(c).args[1])
  BY <1>4, <1>5
<1> QED
  BY <1>6, <1>7, Letters

\* CD moves its user.
LEMMA MoveSeen ==
    ASSUME FileTypeOK, WritesAlone, WritesAlone', NEW c \in Clients, InvOf(c), ChangeDir(c)
    PROVE  Store!StoreNext
<1>1. /\ ServerStep(c) /\ UNCHANGED clientVars /\ Command(c, "CD", 1) /\ Consumed(c, 2)
  BY DEF ServerStep, ChangeDir
<1>2. PICK a \in Heard(c, 1) :
          \/ cwd' = cwd
          \/ At(c, a) \in Paths /\ cwd' = [cwd EXCEPT ![c] = At(c, a)]
  BY DEF ChangeDir
<1>3. \E units : Answer(c, units, "command")
  BY DEF ChangeDir, Reply
<1>4. /\ spc[c] = "command" /\ up[c] # <<>> /\ Now(c).op = "CD"
      /\ up'[c] = <<>> /\ spc'[c] # "body" /\ ~Unread(c)'
  <2>1. 2 \in Nat /\ 2 > Arguments["CD"]
    BY ArgumentCounts
  <2> QED
    BY <1>1, <1>3, <2>1, CommandRead DEF Unread
<1>5. (\A d \in Clients \ {c} : Stays(d)) /\ Contents' = Contents
  BY <1>1, <1>4, ServerLeaves
<1>6. CASE Gone(c)
  <2>1. <<Now(c)>> # <<>>
    OBVIOUS
  <2>2. PICK w \in Paths : cwd' \in {cwd, [cwd EXCEPT ![c] = w]}
    BY <1>2, PathTypes
  <2> QED
    BY <1>1, <1>4, <1>5, <1>6, <2>1, <2>2, Handled, Drops
<1>7. CASE ~Gone(c)
  <2>1. ResultOf(c)' = Says("done", <<>>)
    BY <1>1, <1>4 DEF ResultOf, Now, clientVars
  <2>2. /\ Calls[c] = <<Now(c)>> /\ Results[c] = <<>> /\ Stopped' = Stopped
        /\ Calls' = Calls /\ Results' = [Results EXCEPT ![c] = <<Says("done", <<>>)>>]
    BY <1>1, <1>4, <1>5, <1>7, <2>1, Handled
  <2>3. Calls[c] # <<>> /\ Calls[c][1] = Now(c)
    BY <2>2
  <2>4. a = Now(c).args[1]
    BY <1>1, <1>2, <1>7, ArgumentCounts, HearsArgument
  <2>5. cwd' \in {cwd, [cwd EXCEPT ![c] = Store!Named(c)]}
    BY <1>2, <2>3, <2>4 DEF At, Store!Named
  <2>6. Store!Move(c)
    BY <1>4, <1>5, <1>7, <2>2, <2>3, <2>5 DEF Store!Move, Store!Asked, Store!Say, Says, Stopped
  <2> QED
    BY <2>6 DEF Store!StoreNext
<1> QED
  BY <1>6, <1>7

\* A download gets what is in the store.
LEMMA GetSeen ==
    ASSUME FileTypeOK, WritesAlone, WritesAlone', SendsFiles', NEW c \in Clients, InvOf(c),
           DownloadOpen(c)
    PROVE  Store!StoreNext
<1>1. /\ ServerStep(c) /\ Command(c, "DOWNLOAD", 1) /\ Consumed(c, 2)
      /\ UNCHANGED <<clientVars, cwd, kind, data>>
  BY DEF ServerStep, DownloadOpen, diskVars
<1>2. PICK a \in Heard(c, 1) :
          LET p == At(c, a)
          IN IF p \in Paths /\ kind[p] # "none"
             THEN /\ Answer(c, <<Text(<<"FileFound">>), Size(Announced(p))>>, "content")
                  /\ path' = [path EXCEPT ![c] = p]
             ELSE Reply(c, "FileNotFound") /\ UNCHANGED path
  BY DEF DownloadOpen
<1> DEFINE p == At(c, a)
           units == <<Text(<<"FileFound">>), Size(Announced(p))>>
<1>3. \E u, next : next \in {"content", "command"} /\ Answer(c, u, next)
  BY <1>2 DEF Reply
<1>4. /\ spc[c] = "command" /\ up[c] # <<>> /\ Now(c).op = "DOWNLOAD"
      /\ up'[c] = <<>> /\ spc'[c] # "body" /\ ~Unread(c)'
  <2>1. 2 \in Nat /\ 2 > Arguments["DOWNLOAD"]
    BY ArgumentCounts
  <2> QED
    BY <1>1, <1>3, <2>1, CommandRead DEF Unread
<1>5. (\A d \in Clients \ {c} : Stays(d)) /\ Contents' = Contents
  BY <1>1, <1>4, ServerLeaves
<1>6. CASE Gone(c)
  <2>1. <<Now(c)>> # <<>>
    OBVIOUS
  <2> QED
    BY <1>1, <1>4, <1>5, <1>6, <2>1, Handled, Drops, PathTypes
<1>7. ASSUME ~Gone(c), NEW said, NEW content,
             ResultOf(c)' = Says(said, content),
             IF p \in Paths /\ Contents[p] # <<>>
             THEN said = "found" /\ content = Contents[p][1]
             ELSE said = "missing" /\ content = <<>>
      PROVE  Store!StoreNext
  <2>1. /\ Calls[c] = <<Now(c)>> /\ Results[c] = <<>> /\ Stopped' = Stopped
        /\ Calls' = Calls /\ Results' = [Results EXCEPT ![c] = <<Says(said, content)>>]
    BY <1>1, <1>4, <1>5, <1>7, Handled
  <2>2. Calls[c] # <<>> /\ Calls[c][1] = Now(c)
    BY <2>1
  <2>3. a = Now(c).args[1]
    BY <1>1, <1>2, <1>7, ArgumentCounts, HearsArgument
  <2>4. Store!Named(c) = p
    BY <2>2, <2>3 DEF At, Store!Named
  <2> HIDE DEF p
  <2>5. Store!Asked(c, {"DOWNLOAD"})
    BY <1>4, <1>7, <2>1, <2>2 DEF Store!Asked, Stopped
  <2>6. Store!Say(c, said, content)
    BY <2>1 DEF Store!Say, Says
  <2>7. Store!Get(c)
    BY <1>1, <1>5, <1>7, <2>4, <2>5, <2>6 DEF Store!Get
  <2> QED
    BY <2>7 DEF Store!StoreNext
<1>8. CASE ~Gone(c) /\ p \in Paths /\ kind[p] # "none"
  <2>1. /\ down'[c] = units /\ spc'[c] = "content" /\ path'[c] = p /\ cpc'[c] = "reply"
        /\ ~Gone(c)' /\ Now(c)' = Now(c) /\ up'[c] = <<>>
    <3>1. Answer(c, units, "content") /\ path' = [path EXCEPT ![c] = p]
      BY <1>2, <1>8
    <3>2. down[c] = <<>> /\ cpc[c] = "reply"
      BY <1>4, <1>8, Hears
    <3>3. units \in Seq(Unit)
      BY <1>8, AnnouncedTypes, WordTypes, UnitTypes DEF Answers
    <3>4. <<>> \o units = units
      BY <3>3, EmptyJoined
    <3>5. down'[c] = units /\ spc'[c] = "content"
      BY <1>8, <3>1, <3>2, <3>4, AnswerView
    <3>6. path'[c] = p
      BY <1>8, <3>1, Fields
    <3> QED
      BY <1>1, <1>4, <1>8, <3>2, <3>5, <3>6 DEF clientVars, Gone, Now
  <2>2. kind[p] = "file"
    BY <1>1, <2>1 DEF SendsFiles
  <2>3. ASSUME NEW d \in Clients PROVE ~Writes(d, p)
    <3>1. CASE d = c
      BY <1>4, <3>1 DEF Writes
    <3>2. CASE d # c
      BY <1>5, <2>1, <3>2 DEF Stays, Writes, WritesAlone
    <3> QED
      BY <3>1, <3>2
  <2>4. Contents[p] = <<data[p]>> /\ data[p] \in Seq(Blocks)
    BY <1>8, <2>2, <2>3, StoreIs, Fields DEF StoreIsIt, Contents, DiskOK
  <2> DEFINE t == [i \in DOMAIN data[p] |-> Block(data[p][i])]
             s == units \o t
  <2>5. Coming(c)' = s
    BY <1>1, <2>1 DEF Coming
  <2>6. /\ units \in Seq(Unit) /\ Len(units) = 2 /\ units[1] = Text(<<"FileFound">>)
        /\ units[2] = Size(Len(data[p]))
    BY <1>8, <2>2, AnnouncedTypes, WordTypes, UnitTypes DEF Answers, Announced
  <2>7. /\ t \in Seq(Unit) /\ Len(t) = Len(data[p])
        /\ \A i \in 1..Len(data[p]) : t[i] = Block(data[p][i])
    BY <2>4, ContentTypes
  <2> HIDE DEF units, t
  <2>8. /\ s \in Seq(Unit) /\ Len(s) = 2 + Len(data[p]) /\ Len(data[p]) \in Nat
        /\ s[1] = Text(<<"FileFound">>) /\ s[2] = Size(Len(data[p]))
        /\ \A i \in 1..Len(data[p]) : s[2 + i] = Block(data[p][i])
    <3>1. /\ s \in Seq(Unit) /\ Len(s) = Len(units) + Len(t)
          /\ \A i \in 1..Len(units) : s[i] = units[i]
          /\ \A i \in 1..Len(t) : s[i + Len(units)] = t[i]
      BY <2>6, <2>7, JoinedUnits
    <3>2. 1 \in 1..Len(units) /\ 2 \in 1..Len(units)
      BY <2>6
    <3>3. \A i \in 1..Len(data[p]) : i + Len(units) = 2 + i
      BY <2>6
    <3>4. Len(data[p]) \in Nat
      BY <2>4
    <3> QED
      BY <2>6, <2>7, <3>1, <3>2, <3>3, <3>4
  <2> HIDE DEF s
  <2>9. WordAt(s[1]) # <<"FileNotFound">> /\ SizeAt(s[2]) = Len(data[p])
    BY <2>8, Letters
  <2>10. Fetched(c)' = Brings(s, 2, Len(data[p]))
    BY <2>1, <2>5, <2>9, FetchedWillBe DEF FetchedIsIt
  <2>11. [i \in 1..Len(data[p]) |-> BlockAt(s[2 + i])] = data[p]
    <3>1. \A i \in 1..Len(data[p]) : BlockAt(s[2 + i]) = data[p][i]
      BY <2>8, Letters
    <3> QED
      BY <2>4, <3>1
  <2>12. ResultOf(c)' = Says("found", data[p])
    <3>1. ResultOf(c)' = Fetched(c)'
      BY <1>4, <2>1 DEF ResultOf, Now
    <3> QED
      BY <2>8, <2>10, <2>11, <3>1 DEF Brings
  <2>13. Contents[p] # <<>> /\ Contents[p][1] = data[p]
    BY <2>4
  <2> QED
    BY <1>7, <1>8, <2>12, <2>13
<1>9. CASE ~Gone(c) /\ ~(p \in Paths /\ kind[p] # "none")
  <2>1. Answer(c, <<Text(<<"FileNotFound">>)>>, "command")
    BY <1>2, <1>9 DEF Reply
  <2>2. down[c] = <<>> /\ cpc[c] = "reply"
    BY <1>4, <1>9, Hears
  <2>3. <<Text(<<"FileNotFound">>)>> \in Seq(Unit)
    BY WordTypes, UnitTypes DEF Answers
  <2>4. /\ down'[c] = <<Text(<<"FileNotFound">>)>> /\ spc'[c] = "command"
        /\ cpc'[c] = "reply" /\ Now(c)' = Now(c)
    BY <1>1, <1>9, <2>1, <2>2, <2>3, AnswerView, EmptyJoined DEF clientVars, Now
  <2>5. Coming(c)' = <<Text(<<"FileNotFound">>)>>
    BY <2>3, <2>4, EmptyJoined DEF Coming
  <2>6. WordAt(Coming(c)'[1]) = <<"FileNotFound">>
    BY <2>5, Letters
  <2>7. Fetched(c)' = Says("missing", <<>>)
    BY <2>4, <2>6, FetchedWillBe DEF FetchedIsIt
  <2>8. ResultOf(c)' = Says("missing", <<>>)
    BY <1>4, <2>4, <2>7 DEF ResultOf, Now
  <2>9. p \in Paths => Contents[p] = <<>>
    BY <1>9, StoreIs DEF StoreIsIt, Contents
  <2> QED
    BY <1>7, <1>9, <2>8, <2>9
<1> QED
  BY <1>6, <1>8, <1>9

-----------------------------------------------------------------------------
(* The file store: uploads. *)

\* What a process takes is what its client uploads, or the beginning of it.
TakenIsIt ==
    \A c \in Clients : FileTypeOK /\ InvOf(c) /\ spc[c] = "body" =>
        /\ Taken(c) \in Prefixes(Now(c).content) /\ Taken(c) \in Seq(Blocks)
        /\ ~Gone(c) => Taken(c) = Now(c).content

LEMMA TakenIs == TakenIsIt
<1> SUFFICES ASSUME NEW c \in Clients, FileTypeOK, InvOf(c), spc[c] = "body"
             PROVE  /\ Taken(c) \in Prefixes(Now(c).content) /\ Taken(c) \in Seq(Blocks)
                    /\ ~Gone(c) => Taken(c) = Now(c).content
  BY DEF TakenIsIt
<1> DEFINE n == Len(up[c])
           s == Now(c).content
<1>1. /\ Now(c) \in Exchange /\ up[c] \in Seq(Unit) /\ want[c] = Len(s)
      /\ n <= want[c] /\ (~Gone(c) => n = want[c])
      /\ \A i \in 1..n : BlockAt(up[c][i]) = s[i]
  BY Takes
<1>2. n \in Nat /\ s \in Seq(Blocks) /\ Len(s) \in Nat
  BY <1>1, BlocksAre
<1>3. Taken(c) = [i \in 1..n |-> BlockAt(up[c][i])]
  BY <1>1, <1>2 DEF Taken
<1>4. Taken(c) = [i \in 1..n |-> s[i]]
  BY <1>1, <1>3
<1> HIDE DEF n, s
<1>5. [i \in 1..n |-> s[i]] = SubSeq(s, 1, n) /\ [i \in 1..n |-> s[i]] \in Seq(Blocks)
  BY <1>1, <1>2
<1>6. SubSeq(s, 1, n) \in Prefixes(s)
  BY <1>1, <1>2 DEF Prefixes
<1>7. n = Len(s) => SubSeq(s, 1, n) = s
  BY <1>2
<1> QED
  BY <1>1, <1>4, <1>5, <1>6, <1>7 DEF s

LEMMA TakenWillBe == TakenIsIt'
  BY TakenIs, PTL

\* An upload is carried out when its file is opened.
LEMMA StoresIt ==
    ASSUME FileTypeOK, FileTypeOK', WritesAlone, WritesAlone', NEW c \in Clients, InvOf(c),
           InvOf(c)', ServerStep(c), UNCHANGED <<clientVars, cwd>>, spc[c] = "command",
           up[c] # <<>>, Now(c).op = "UPLOAD", NEW p \in Paths, spc'[c] = "body",
           path'[c] = p, kind'[p] = "file", data' = [data EXCEPT ![p] = <<>>],
           \A q \in Paths \ {p} : kind'[q] = "file" => kind[q] = "file",
           p = cwd[c] \o Now(c).args[1]
    PROVE  Store!StoreNext
<1>1. \A d \in Clients \ {c} : Stays(d)
  BY ServerOthers
<1>2. Contents' = [Contents EXCEPT ![p] = <<Taken(c)'>>]
  <2>1. StoreOf(p)' = <<Taken(c)'>>
    BY StoreWillBe DEF StoreIsIt, Writes
  <2>2. ASSUME NEW q \in Paths, q # p PROVE StoreOf(q)' = StoreOf(q)
    <3>1. ASSUME NEW d \in Clients
          PROVE  (Writes(d, q)' <=> Writes(d, q)) /\ (Writes(d, q) => Taken(d)' = Taken(d))
      <4>1. CASE d = c
        BY <2>2, <4>1 DEF Writes
      <4>2. CASE d # c
        BY <1>1, <4>2 DEF Stays, Writes, Taken
      <4> QED
        BY <4>1, <4>2
    <3>2. data'[q] = data[q]
      BY <2>2, Fields DEF DiskOK
    <3>3. kind'[q] = "file" <=> kind[q] = "file"
      BY <2>2, FilesRemain
    <3> QED
      BY <3>1, <3>2, <3>3, FileStays
  <2> QED
    BY <2>1, <2>2 DEF Contents
<1>3. ~Unread(c)' /\ Now(c)' = Now(c) /\ Gone(c)' = Gone(c)
  BY DEF Unread, Now, Gone, clientVars
<1>4. /\ Taken(c)' \in Prefixes(Now(c).content)
      /\ ~Gone(c) => Taken(c)' = Now(c).content
  BY <1>3, TakenWillBe DEF TakenIsIt
<1>5. /\ Calls[c] = <<Now(c)>> /\ Results[c] = <<>> /\ Stopped' = Stopped
      /\ Gone(c) => Calls' = [Calls EXCEPT ![c] = <<>>] /\ Results' = Results
      /\ ~Gone(c) => /\ Calls' = Calls
                     /\ Results' = [Results EXCEPT ![c] = <<ResultOf(c)'>>]
  BY <1>1, <1>3, Handled
<1>6. Calls[c] # <<>> /\ Calls[c][1] = Now(c)
  BY <1>5
<1>7. Store!Named(c) = p
  BY <1>6 DEF Store!Named
<1>8. CASE Gone(c)
  <2>1. \E part \in Store!Prefixes(Calls[c][1].content) :
            Contents' = [Contents EXCEPT ![Store!Named(c)] = <<part>>]
    <3>1. Taken(c)' \in Store!Prefixes(Calls[c][1].content)
      BY <1>4, <1>6 DEF Prefixes, Store!Prefixes
    <3> QED
      BY <1>2, <1>7, <3>1, Zenon
  <2>2. c \in Stopped /\ Store!Named(c) \in Paths
    BY <1>7, <1>8 DEF Stopped
  <2>3. Store!PutPart(c)
    BY <1>5, <1>6, <1>8, <2>1, <2>2 DEF Store!PutPart
  <2> QED
    BY <2>3 DEF Store!StoreNext
<1>9. CASE ~Gone(c)
  <2>1. ResultOf(c)' = Says("stored", <<>>)
    BY <1>3 DEF ResultOf, Now
  <2>2. Store!Asked(c, {"UPLOAD"}) /\ Store!Say(c, "stored", <<>>)
    BY <1>5, <1>6, <1>9, <2>1 DEF Store!Asked, Store!Say, Says, Stopped
  <2>3. Contents' = [Contents EXCEPT ![Store!Named(c)] = <<Calls[c][1].content>>]
    BY <1>2, <1>4, <1>6, <1>7, <1>9
  <2>4. Store!Put(c)
    BY <1>7, <2>2, <2>3 DEF Store!Put
  <2> QED
    BY <2>4 DEF Store!StoreNext
<1> QED
  BY <1>8, <1>9

\* One that cannot be has nothing to store, or nobody waits for it.
LEMMA RefusesIt ==
    ASSUME FileTypeOK, WritesAlone, WritesAlone', NEW c \in Clients, InvOf(c),
           ServerStep(c), UNCHANGED <<clientVars, cwd>>, spc[c] = "command",
           up[c] # <<>>, up'[c] = <<>>, Now(c).op = "UPLOAD", NEW w \in Answers, w # "UploadSuccess",
           Answer(c, <<Text(<<w>>)>>, "command"), Gone(c) \/ Now(c).content = <<>>
    PROVE  Store!StoreNext
<1>1. spc'[c] \in {"command", "exit"} /\ ~Unread(c)'
  BY AnswerView DEF Unread
<1>2. (\A d \in Clients \ {c} : Stays(d)) /\ Contents' = Contents
  BY <1>1, ServerLeaves
<1>3. CASE Gone(c)
  <2>1. <<Now(c)>> # <<>>
    OBVIOUS
  <2> QED
    BY <1>1, <1>2, <1>3, <2>1, Handled, Drops, PathTypes
<1>4. CASE ~Gone(c)
  <2>1. down[c] = <<>>
    BY Hears
  <2>2. <<Text(<<w>>)>> \in Seq(Unit)
    BY WordTypes, UnitTypes
  <2>3. down'[c] = <<Text(<<w>>)>> /\ spc'[c] = "command"
    BY <1>4, <2>1, <2>2, AnswerView, EmptyJoined
  <2>4. WordAt(Head(down'[c])) # <<"UploadSuccess">>
    BY <2>3, Letters
  <2>5. ResultOf(c)' = Says("refused", <<>>)
    BY <2>3, <2>4 DEF ResultOf, Now, clientVars
  <2>6. /\ Calls[c] = <<Now(c)>> /\ Results[c] = <<>> /\ Stopped' = Stopped
        /\ Calls' = Calls /\ Results' = [Results EXCEPT ![c] = <<Says("refused", <<>>)>>]
    BY <1>1, <1>2, <1>4, <2>5, Handled
  <2>7. Calls[c] # <<>> /\ Calls[c][1] = Now(c)
    BY <2>6
  <2>8. Store!Refuse(c)
    BY <1>2, <1>4, <2>6, <2>7 DEF Store!Refuse, Store!Asked, Store!Say, Says, Stopped
  <2> QED
    BY <2>8 DEF Store!StoreNext
<1> QED
  BY <1>3, <1>4

\* So the opening of an upload is seen,
LEMMA OpenSeen ==
    ASSUME FileTypeOK, FileTypeOK', WritesAlone, WritesAlone', UploadsFit, NEW c \in Clients,
           InvOf(c), InvOf(c)', UploadOpen(c)
    PROVE  Store!StoreNext
<1>1. /\ auth[c] /\ Command(c, "UPLOAD", 1) /\ (Len(up[c]) > 2 \/ Gone(c))
      /\ ServerStep(c) /\ UNCHANGED <<clientVars, cwd>>
  BY DEF UploadOpen, ServerStep
<1>2. spc[c] = "command" /\ up[c] # <<>> /\ Now(c).op = "UPLOAD"
  BY <1>1, HearsCommand
<1>3. /\ Now(c) \in Exchange /\ up[c] \in Seq(Unit)
      /\ IsPrefix(up[c], Request(Now(c))) /\ Len(Now(c).args) = Arguments[Now(c).op]
  BY <1>2, Hears
<1>4. /\ \A n \in Nat : Len(up[c]) <= n => SubSeq(up[c], n + 1, Len(up[c])) = <<>>
      /\ Len(up[c]) <= Len(Now(c).content) + 3
      /\ Len(up[c]) > 2 => SizeAt(up[c][3]) = Len(Now(c).content)
  BY <1>2, <1>3, PartOfRequest
<1>5. Now(c).content \in Seq(Blocks) /\ Len(Now(c).content) \in Nat /\ Len(up[c]) \in Nat
  BY <1>3, BlocksAre
<1>6. PICK a \in Heard(c, 1) :
          LET p == At(c, a)
          IN IF Blocked(p) \/ Len(up[c]) < 3
             THEN UploadFails(c, "UploadFailed", 2) /\ kind' = Makes(p)
             ELSE IF Unwritable(p)
             THEN UploadFails(c, "FileOpenError", 3) /\ kind' = Makes(p)
             ELSE OpenForWriting(c, p) /\ kind' = [Makes(p) EXCEPT ![p] = "file"]
  BY DEF UploadOpen
<1> DEFINE p == At(c, a)
<1>7. Len(up[c]) > 2 => ~Blocked(p) /\ (SizeAt(up[c][3]) > 0 => ~Unwritable(p))
  <2>1. ASSUME Len(up[c]) > 2
        PROVE  ~Blocked(p) /\ (SizeAt(up[c][3]) > 0 => ~Unwritable(p))
    <3>1. a = WordAt(up[c][2])
      BY <1>5, <1>6, <2>1 DEF Heard
    <3>2. Command(c, "UPLOAD", 2)
      BY <1>1, <2>1 DEF Command
    <3> QED
      BY <1>1, <2>1, <3>1, <3>2 DEF UploadsFit
  <2> QED
    BY <2>1
<1>12. Len(up[c]) > 2 => p = cwd[c] \o Now(c).args[1]
  <2>1. Len(up[c]) > 2 => Len(up[c]) > 1
    BY <1>5
  <2> QED
    BY <1>1, <1>6, <2>1, ArgumentCounts, HearsArgument DEF At
<1> HIDE DEF p
<1>8. ASSUME NEW w \in {"UploadFailed", "FileOpenError"}, NEW n \in Nat,
             UploadFails(c, w, n), Len(up[c]) <= n, Gone(c) \/ Now(c).content = <<>>
      PROVE  Store!StoreNext
  <2>1. /\ Answer(c, <<Text(<<w>>)>>, "command") /\ w \in Answers /\ w # "UploadSuccess"
    BY <1>8 DEF UploadFails, Reply, Answers
  <2>2. up'[c] = <<>>
    BY <1>4, <1>8, ConsumedView DEF UploadFails
  <2> QED
    BY <1>1, <1>2, <1>8, <2>1, <2>2, RefusesIt
<1>9. CASE UploadFails(c, "UploadFailed", 2) /\ (Blocked(p) \/ Len(up[c]) < 3)
  <2>1. Len(up[c]) <= 2 /\ Gone(c)
    BY <1>1, <1>5, <1>7, <1>9
  <2> QED
    BY <1>8, <1>9, <2>1
<1>10. CASE /\ UploadFails(c, "FileOpenError", 3) /\ Len(up[c]) >= 3
            /\ Unwritable(p)
  <2>1. Len(up[c]) > 2
    BY <1>5, <1>10
  <2>2. Len(Now(c).content) = 0
    BY <1>4, <1>5, <1>7, <1>10, <2>1
  <2>3. Len(up[c]) <= 3 /\ Now(c).content = <<>>
    BY <1>4, <1>5, <2>2
  <2> QED
    BY <1>8, <1>10, <2>3
<1>11. CASE /\ OpenForWriting(c, p) /\ kind' = [Makes(p) EXCEPT ![p] = "file"]
            /\ Len(up[c]) >= 3 /\ p \in Paths
  <2>1. Len(up[c]) > 2
    BY <1>5, <1>11
  <2>2. /\ spc'[c] = "body" /\ path'[c] = p /\ data' = [data EXCEPT ![p] = <<>>]
    BY <1>11, Fields DEF OpenForWriting
  <2>3. kind'[p] = "file" /\ \A q \in Paths \ {p} : kind'[q] = "file" => kind[q] = "file"
    BY <1>11, MakesTypes
  <2> QED
    BY <1>1, <1>2, <1>11, <1>12, <2>1, <2>2, <2>3, StoresIt
<1> QED
  <2>1. Len(up[c]) < 3 \/ Len(up[c]) >= 3
    BY <1>5
  <2> QED
    BY <1>6, <1>9, <1>10, <1>11, <2>1 DEF p, Unwritable

\* and the writing of it is not.
LEMMA WriteUnseen ==
    ASSUME FileTypeOK, WritesAlone, WritesAlone', NEW c \in Clients, InvOf(c), UploadBody(c)
    PROVE  UNCHANGED Store!storeVars
<1> DEFINE got == IF Len(up[c]) < want[c] THEN Len(up[c]) ELSE want[c]
           old == data[path[c]]
           w == IF got < want[c] THEN "UploadFailed" ELSE "UploadSuccess"
<1>1. /\ ServerStep(c) /\ spc[c] = "body" /\ Consumed(c, got) /\ kind' = kind
      /\ Answer(c, <<Text(<<w>>)>>, "command") /\ UNCHANGED <<clientVars, cwd>>
      /\ data' = [data EXCEPT ![path[c]] = Taken(c) \o SubSeq(old, got + 1, Len(old))]
  BY DEF UploadBody, ServerStep, procVars, Reply, Taken
<1>2. /\ Taking(c) /\ cpc[c] \in {"reply", "gone"} /\ Now(c) \in Exchange
      /\ up[c] \in Seq(Unit) /\ want[c] = Len(Now(c).content)
      /\ Len(up[c]) <= want[c] /\ (~Gone(c) => Len(up[c]) = want[c]) /\ old = <<>>
  BY <1>1, Takes
<1>3. want[c] \in Nat /\ Len(up[c]) \in Nat /\ Taken(c) \in Seq(Blocks)
  BY <1>1, <1>2, BlocksAre, TakenIs DEF TakenIsIt
<1>4. got = Len(up[c]) /\ (~Gone(c) => w = "UploadSuccess")
  BY <1>2, <1>3
<1> HIDE DEF got, w
<1>5. up'[c] = <<>>
  <2>1. SubSeq(up[c], got + 1, Len(up[c])) = <<>>
    BY <1>2, <1>3, <1>4, Rest
  <2> QED
    BY <1>1, <2>1, ConsumedView
<1>6. data' = [data EXCEPT ![path[c]] = Taken(c)]
  <2>1. SubSeq(old, got + 1, Len(old)) = <<>>
    <3>1. <<>> \in Seq(Blocks) /\ Len(<<>>) = 0 /\ got \in Nat /\ got >= Len(<<>>)
      BY <1>3, <1>4
    <3>2. SubSeq(<<>>, got + 1, Len(<<>>)) = <<>>
      BY <3>1, Rest
    <3> QED
      BY <1>2, <3>2
  <2> HIDE DEF old
  <2>2. Taken(c) \o <<>> = Taken(c)
    BY <1>3, EmptyJoined
  <2> QED
    BY <1>1, <2>1, <2>2
<1>7. \A d \in Clients \ {c} : Stays(d)
  BY <1>1, ServerOthers
<1>8. spc'[c] \in {"command", "exit"}
  BY <1>1, AnswerView
<1>9. path[c] \in Paths /\ kind[path[c]] = "file" /\ data \in [Paths -> Seq(Blocks)]
  BY <1>1, Parts DEF Stands, ProcsOK, DiskOK
<1>10. ASSUME NEW q \in Paths, q = path[c] PROVE StoreOf(q)' = StoreOf(q)
  <2>1. StoreOf(q) = <<Taken(c)>>
    BY <1>1, <1>9, <1>10, StoreIs DEF StoreIsIt, Writes
  <2>2. ASSUME NEW d \in Clients PROVE ~Writes(d, q)'
    <3>1. CASE d = c
      BY <1>8, <3>1 DEF Writes
    <3>2. CASE d # c
      BY <1>1, <1>7, <1>10, <3>2 DEF Stays, WritesAlone, Writes
    <3> QED
      BY <3>1, <3>2
  <2>3. kind'[q] = "file" /\ data'[q] = Taken(c)
    BY <1>1, <1>6, <1>9, <1>10
  <2>4. StoreOf(q)' = <<data'[q]>>
    BY <2>2, <2>3, StoreWillBe DEF StoreIsIt
  <2> QED
    BY <2>1, <2>3, <2>4
<1>11. ASSUME NEW q \in Paths, q # path[c] PROVE StoreOf(q)' = StoreOf(q)
  <2>1. ASSUME NEW d \in Clients
        PROVE  (Writes(d, q)' <=> Writes(d, q)) /\ (Writes(d, q) => Taken(d)' = Taken(d))
    <3>1. CASE d = c
      BY <1>1, <1>8, <1>11, <3>1 DEF Writes
    <3>2. CASE d # c
      BY <1>7, <3>2 DEF Stays, Writes, Taken
    <3> QED
      BY <3>1, <3>2
  <2>2. data'[q] = data[q] /\ kind'[q] = kind[q]
    BY <1>1, <1>6, <1>9, <1>11
  <2> QED
    BY <2>1, <2>2, FileStays
<1>12. Contents' = Contents
  BY <1>10, <1>11 DEF Contents
<1>13. cpc' = cpc /\ todo' = todo /\ Gone(c)' = Gone(c) /\ ~Unread(c) /\ ~Unread(c)'
  BY <1>1, <1>5 DEF clientVars, Gone, Unread
<1>14. CASE Gone(c)
  <2>1. SameView(c)
    BY <1>13, <1>14 DEF SameView, Calls, Results, Gone
  <2> QED
    BY <1>1, <1>7, <1>12, <1>13, <2>1, Unseen
<1>15. CASE ~Gone(c)
  <2>1. <<Text(<<"UploadSuccess">>)>> \in Seq(Unit)
    BY WordTypes, UnitTypes DEF Answers
  <2>2. down'[c] = <<Text(<<"UploadSuccess">>)>>
    <3>1. down[c] = <<>> /\ w = "UploadSuccess"
      BY <1>2, <1>4, <1>15 DEF Taking
    <3> QED
      BY <1>1, <1>15, <2>1, <3>1, AnswerView, EmptyJoined
  <2>3. WordAt(Head(down'[c])) = <<"UploadSuccess">>
    BY <2>2, Letters
  <2>4. Head(todo[c]).op = "UPLOAD"
    BY <1>2 DEF Taking, Now
  <2>5. ResultOf(c) = Says("stored", <<>>) /\ ResultOf(c)' = Says("stored", <<>>)
    BY <1>1, <1>13, <2>3, <2>4 DEF ResultOf
  <2>6. SameView(c)
    BY <1>2, <1>13, <1>15, <2>5 DEF SameView, Calls, Results, Gone
  <2> QED
    BY <1>1, <1>7, <1>12, <1>13, <2>6, Unseen
<1> QED
  BY <1>14, <1>15

-----------------------------------------------------------------------------
(* The file store: what a process does on its own. *)

\* A request that was sent is there to be read.
LEMMA AskedIsThere ==
    ASSUME FileTypeOK, NEW c \in Clients, InvOf(c), cpc[c] = "reply", Asked(c)
    PROVE  up[c] # <<>>
<1>1. ~Gone(c) /\ todo[c] \in Seq(Exchange) /\ todo[c] # <<>>
  BY Parts DEF ClientsOK, Asked, Gone
<1>2. 1 \in DOMAIN todo[c] /\ todo[c][1] = Now(c) /\ Now(c) \in Exchange
  BY <1>1 DEF Now
<1>3. Len(Now(c).args) = Arguments[Now(c).op]
  BY <1>2 DEF InvOf, Admitted
<1> QED
  BY <1>1, <1>2, <1>3, RequestItems DEF Asked

\* The client sees nothing of it as long as the answer stays the same.
LEMMA OwnUnseen ==
    ASSUME NEW c \in Clients, UNCHANGED <<clientVars, cwd>>, up'[c] = up[c], ~Gone(c),
           spc[c] \notin {"body", "exit"}, spc'[c] \notin {"body", "exit"},
           \A d \in Clients \ {c} : Stays(d), Contents' = Contents,
           cpc[c] \in {"menu", "send"} \/ up[c] # <<>> \/ ResultOf(c)' = ResultOf(c)
    PROVE  UNCHANGED Store!storeVars
<1>1. cpc' = cpc /\ todo' = todo /\ Gone(c)' = Gone(c) /\ Unread(c)' = Unread(c)
  BY DEF clientVars, Gone, Unread
<1>2. up[c] # <<>> => Unread(c)
  BY DEF Unread
<1>3. Calls'[c] = Calls[c] /\ Results'[c] = Results[c]
  BY <1>1, <1>2 DEF Calls, Results, Gone
<1> QED
  BY <1>1, <1>3, Unseen DEF SameView

\* When the client is gone its process may end, and what was asked for is dropped.
LEMMA GoneOn ==
    ASSUME NEW c \in Clients, UNCHANGED <<clientVars, cwd>>, up'[c] = up[c], Gone(c),
           spc[c] \notin {"body", "exit"}, spc'[c] # "body",
           \A d \in Clients \ {c} : Stays(d), Contents' = Contents
    PROVE  Store!StoreNext \/ UNCHANGED Store!storeVars
<1>1. cpc' = cpc /\ todo' = todo /\ Gone(c)' = Gone(c)
  BY DEF clientVars, Gone
<1>2. Results[c] = <<>> /\ Results'[c] = <<>>
  BY <1>1 DEF Results, Gone
<1>3. CASE Unread(c)' <=> Unread(c)
  <2>1. Calls'[c] = Calls[c]
    BY <1>1, <1>3 DEF Calls, Gone
  <2> QED
    BY <1>1, <1>2, <2>1, Unseen DEF SameView
<1>4. CASE Unread(c) /\ ~Unread(c)'
  <2>1. Calls[c] = <<Now(c)>> /\ Calls'[c] = <<>> /\ <<Now(c)>> # <<>>
    BY <1>1, <1>4 DEF Calls, Gone, Now
  <2>2. \A d \in Clients \ {c} : SameView(d) /\ Gone(d)' = Gone(d)
    BY OthersView
  <2>3. \A d \in Clients : Gone(d)' = Gone(d)
    BY <1>1, <2>2
  <2>4. Calls' = [Calls EXCEPT ![c] = <<>>] /\ Results' = [Results EXCEPT ![c] = <<>>]
    BY <1>2, <2>1, <2>2, OneSees
  <2>5. Results' = Results /\ Stopped' = Stopped
    BY <1>2, <2>3, <2>4, StillThere DEF Results
  <2> QED
    BY <2>1, <2>4, <2>5, Drops, PathTypes
<1>5. Unread(c)' => Unread(c)
  BY DEF Unread
<1> QED
  BY <1>3, <1>4, <1>5

\* To accept, to end and to finish a registration is not seen,
LEMMA QuietUnseen ==
    ASSUME FileTypeOK, WritesAlone, WritesAlone', NEW c \in Clients, InvOf(c),
           Accept(c) \/ Exit(c) \/ AppendAccount(c)
    PROVE  Store!StoreNext \/ UNCHANGED Store!storeVars
<1>1. /\ ServerStep(c) /\ UNCHANGED <<clientVars, cwd>> /\ up' = up /\ down' = down
      /\ spc[c] \in {"none", "command", "append"} /\ spc'[c] \in {"command", "exit"}
      /\ spc[c] = "command" => Gone(c)
      /\ spc'[c] = "exit" => Gone(c)
  <2>1. spc \in [Clients -> ServerPlaces]
    BY Parts DEF ProcsOK
  <2> QED
    BY <2>1 DEF ServerStep, Accept, Exit, AppendAccount, procVars
<1>2. (\A d \in Clients \ {c} : Stays(d)) /\ Contents' = Contents
  BY <1>1, ServerLeaves
<1>3. CASE Gone(c)
  BY <1>1, <1>2, <1>3, GoneOn
<1>4. CASE ~Gone(c)
  <2>1. spc[c] \in {"none", "append"} /\ spc'[c] = "command"
    BY <1>1, <1>4
  <2>2. \/ cpc[c] \in {"menu", "send"} \/ up[c] # <<>>
        \/ Answering(c)
    <3>1. cpc[c] \in ClientPlaces
      BY Parts DEF ClientsOK
    <3> QED
      BY <1>4, <2>1, <3>1, AskedIsThere DEF InvOf, Together, Taking, Gone, ClientPlaces
  <2>3. Answering(c) => ResultOf(c)' = ResultOf(c)
    <3>1. Answering(c) => Now(c).op # "DOWNLOAD"
      BY <2>1 DEF Answering, Downloads
    <3>2. todo' = todo
      BY <1>1 DEF clientVars
    <3> QED
      BY <1>1, <2>1, <3>1, <3>2 DEF ResultOf, Now
  <2> QED
    BY <1>1, <1>2, <1>4, <2>1, <2>2, <2>3, OwnUnseen
<1> QED
  BY <1>3, <1>4

\* neither is the sending of a file,
LEMMA SendUnseen ==
    ASSUME FileTypeOK, WritesAlone, WritesAlone', NEW c \in Clients, InvOf(c), SendContent(c)
    PROVE  Store!StoreNext \/ UNCHANGED Store!storeVars
<1> DEFINE t == [i \in DOMAIN data[path[c]] |-> Block(data[path[c]][i])]
           next == IF walk[c] = <<>> THEN "command" ELSE "walk"
<1>1. /\ ServerStep(c) /\ UNCHANGED <<clientVars, cwd, path, data>> /\ up' = up
      /\ spc[c] = "content" /\ Answer(c, t, next)
  BY DEF ServerStep, SendContent, procVars, diskVars
<1>2. spc'[c] \in {"command", "walk", "exit"}
  BY <1>1, AnswerView
<1>3. (\A d \in Clients \ {c} : Stays(d)) /\ Contents' = Contents
  BY <1>1, <1>2, ServerLeaves
<1>4. CASE Gone(c)
  BY <1>1, <1>2, <1>3, <1>4, GoneOn
<1>5. CASE ~Gone(c)
  <2>1. down'[c] = down[c] \o t /\ spc'[c] \in {"command", "walk"}
    BY <1>1, <1>5, AnswerView
  <2>2. cpc[c] \in {"menu", "send"} \/ up[c] # <<>> \/ Answering(c)
    BY <1>1, <1>5, Sends, AskedIsThere
  <2>3. Coming(c) = down[c] \o t /\ Coming(c)' = down'[c] \o <<>>
    BY <1>1, <2>1 DEF Coming
  <2>4. down[c] \o t \in Seq(Unit)
    BY <2>3, ComingTypes
  <2> HIDE DEF t
  <2>5. Coming(c)' = Coming(c)
    BY <2>1, <2>3, <2>4, EmptyJoined
  <2>6. Fetched(c)' = Fetched(c)
    BY <1>1, <2>5 DEF Fetched, clientVars
  <2>7. Answering(c) => ResultOf(c)' = ResultOf(c)
    <3>1. Answering(c) => Now(c).op \in Downloads
      BY <1>1 DEF Answering, Downloads
    <3>2. todo' = todo
      BY <1>1 DEF clientVars
    <3> QED
      BY <2>6, <3>1, <3>2 DEF ResultOf, Now, Downloads
  <2> QED
    BY <1>1, <1>3, <1>5, <2>1, <2>2, <2>7, OwnUnseen
<1> QED
  BY <1>4, <1>5

\* nor that of a directory.
LEMMA WalkUnseen ==
    ASSUME FileTypeOK, WritesAlone, WritesAlone', NEW c \in Clients, InvOf(c),
           DirEntry(c) \/ DirEnd(c)
    PROVE  Store!StoreNext \/ UNCHANGED Store!storeVars
<1>1. /\ ServerStep(c) /\ UNCHANGED <<clientVars, cwd>> /\ up' = up /\ spc[c] = "walk"
  BY DEF ServerStep, DirEntry, DirEnd
<1>2. \/ \E units, next : /\ next \in {"command", "content", "walk"}
                          /\ Answer(c, units, next)
      \/ spc' = spc
  BY DEF DirEntry, DirEnd, SendSubdirectory, SendFileHeader, Reply
<1>3. /\ spc'[c] \in {"command", "content", "walk", "exit"}
      /\ ~Gone(c) => spc'[c] # "exit"
  BY <1>1, <1>2, AnswerView
<1>4. (\A d \in Clients \ {c} : Stays(d)) /\ Contents' = Contents
  BY <1>1, <1>3, ServerLeaves
<1>5. CASE Gone(c)
  BY <1>1, <1>3, <1>4, <1>5, GoneOn
<1>6. CASE ~Gone(c)
  <2>1. Answering(c)
    BY <1>1, <1>6, Sends DEF Asked
  <2>2. Now(c).op = "DOWNLOAD_DIR" /\ todo' = todo
    BY <1>1, <2>1 DEF Answering, clientVars
  <2>3. ResultOf(c)' = ResultOf(c)
    BY <2>2 DEF ResultOf, Now
  <2> QED
    BY <1>1, <1>3, <1>4, <1>6, <2>3, OwnUnseen
<1> QED
  BY <1>5, <1>6

-----------------------------------------------------------------------------
(* The file store: the theorem. *)

\* Nothing has been asked for in the beginning.
LEMMA StoreStarts == Init => Store!StoreInit
<1> SUFFICES ASSUME Init PROVE Store!StoreInit
  OBVIOUS
<1>1. \A p \in Paths : StoreOf(p) = <<>>
  BY DEF Init, StoreOf
<1>2. \A c \in Clients : cpc[c] = "menu" /\ cwd[c] = <<>>
  BY DEF Init
<1>3. Contents = [p \in Paths |-> <<>>]
  BY <1>1 DEF Contents
<1>4. Calls = [c \in Clients |-> <<>>] /\ Results = [c \in Clients |-> <<>>] /\ Stopped = {}
  BY <1>2 DEF Calls, Results, Stopped, Gone
<1> QED
  BY <1>3, <1>4 DEF Init, Store!StoreInit, Store!Nowhere, Store!NoneYet

\* Every step is one of the store, or nobody sees it.
LEMMA StoreStep ==
    ASSUME StreamInv, StreamInv', [Next]_vars, Orderly, SendsFiles', WritesAlone'
    PROVE  Store!StoreNext \/ UNCHANGED Store!storeVars
<1>1. FileTypeOK /\ FileTypeOK' /\ UploadsFit /\ WritesAlone
  BY DEF StreamInv, TypeInv, Orderly
<1>2. \A c \in Clients : InvOf(c) /\ InvOf(c)'
  BY DEF StreamInv
<1>3. CASE UNCHANGED vars
  <2>1. \A d \in Clients : Stays(d)
    BY <1>3 DEF vars, clientVars, procVars, diskVars, Stays
  <2>2. \A d \in Clients : SameView(d) /\ Gone(d)' = Gone(d)
    BY <2>1, OthersView
  <2>3. ASSUME NEW p \in Paths PROVE StoreOf(p)' = StoreOf(p)
    <3>1. \A d \in Clients : /\ Writes(d, p)' <=> Writes(d, p)
                             /\ Writes(d, p) => Taken(d)' = Taken(d)
      BY <2>1 DEF Stays, Writes, Taken
    <3>2. kind' = kind /\ data' = data
      BY <1>3 DEF vars, diskVars
    <3> QED
      BY <1>1, <3>1, <3>2, FileStays
  <2>4. Contents' = Contents /\ cwd' = cwd
    BY <1>3, <2>3 DEF Contents, vars, procVars
  <2> QED
    BY <2>2, <2>4, NobodySees, StillThere DEF Store!storeVars
<1>4. ASSUME NEW c \in Clients, Choose(c) \/ Kill(c) \/ ClientStep(c)
      PROVE  Store!StoreNext \/ UNCHANGED Store!storeVars
  BY <1>1, <1>2, <1>4, ChooseUnseen, KillStops, RequestAsks, ReplySeen, SizeSeen, ContentSeen,
     EntrySeen
  DEF ClientStep
<1>5. ASSUME NEW c \in Clients, ServerStep(c)
      PROVE  Store!StoreNext \/ UNCHANGED Store!storeVars
  BY <1>1, <1>2, <1>5, LookSeen, MoveSeen, GetSeen, OpenSeen, WriteUnseen, QuietUnseen,
     SendUnseen, WalkUnseen
  DEF ServerStep
<1> QED
  BY <1>3, <1>4, <1>5 DEF Next

\* Under the same conditions each request is carried out once, in one step, and
\* answered with what came of it (client.c:63-200, 322-578, server.c:281-440).
THEOREM FilesImplementStore == Spec /\ []Orderly => StoreSpec
<1>1. Init => Store!StoreInit
  BY StoreStarts
<1>2. StreamInv /\ StreamInv' /\ Orderly /\ Orderly' /\ [Next]_vars
        => [Store!StoreNext]_Store!storeVars
  BY StoreStep DEF Orderly
<1> QED
  BY <1>1, <1>2, StreamInvariant, PTL DEF Spec, StoreSpec, Store!StoreSpec

\* So users who keep apart may take the server for one file store.
THEOREM ApartIsServed ==
    ASSUME NEW dirs, Apart(dirs)
    PROVE  Spec => StoreSpec
<1>1. Spec => []Orderly
  BY ApartIsOrderly
<1> QED
  BY <1>1, FilesImplementStore, PTL
=============================================================================
