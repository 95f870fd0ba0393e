--------------------------- MODULE OkfReaderProofs --------------------------
(***************************************************************************)
(* A proof about reading a knowledge resource, for every limit, every size *)
(* of chunk, every content and any number of changes by other processes:   *)
(* the file is answered whole or not at all.                               *)
(***************************************************************************)
EXTENDS OkfReader, SequenceTheorems, TLAPS

USE LimitsAssumption

Byte == {"c", "f", "s"}

-----------------------------------------------------------------------------
(* Prefixes.                                                               *)

Begins(s, t) == Len(s) <= Len(t) /\ \A i \in 1..Len(s) : s[i] = t[i]

LEMMA PrefixBegins ==
    ASSUME NEW s \in Seq(Byte), NEW t \in Seq(Byte), IsPrefix(s, t)
    PROVE  Begins(s, t)
BY DEF IsPrefix, Begins

LEMMA BeginsPrefix ==
    ASSUME NEW s \in Seq(Byte), NEW t \in Seq(Byte), Begins(s, t)
    PROVE  IsPrefix(s, t)
BY DEF IsPrefix, Begins

LEMMA BeginsOrder ==
    ASSUME NEW s \in Seq(Byte), NEW t \in Seq(Byte), NEW u \in Seq(Byte)
    PROVE  /\ Begins(s, s)
           /\ Begins(s, t) /\ Begins(t, u) => Begins(s, u)
           /\ Begins(s, t) /\ Len(t) <= Len(s) => s = t
           /\ Begins(s, u) /\ Begins(t, u) /\ Len(s) <= Len(t)
                 => Begins(s, t)
BY DEF Begins

\* Reading on from where the last chunk ended.
LEMMA BeginsRead ==
    ASSUME NEW s \in Seq(Byte), NEW t \in Seq(Byte),
           NEW n \in Nat \ {0}, Len(s) + n <= Len(t)
    PROVE  LET r == s \o SubSeq(t, Len(s) + 1, Len(s) + n)
           IN  /\ r \in Seq(Byte)
               /\ Len(r) = Len(s) + n
               /\ Begins(s, t) => Begins(r, t)
<1> DEFINE chunk == SubSeq(t, Len(s) + 1, Len(s) + n)
           r == s \o chunk
<1>1. /\ Len(s) \in Nat /\ Len(t) \in Nat
      /\ chunk \in Seq(Byte) /\ Len(chunk) = n
      /\ \A i \in 1..n : chunk[i] = t[Len(s) + i]
  OBVIOUS
<1> HIDE DEF chunk
<1>2. /\ r \in Seq(Byte) /\ Len(r) = Len(s) + n
      /\ \A i \in 1..Len(s) : r[i] = s[i]
      /\ \A i \in (Len(s) + 1)..(Len(s) + n) : r[i] = chunk[i - Len(s)]
  <2>1. /\ r \in Seq(Byte)
        /\ Len(r) = Len(s) + Len(chunk)
        /\ \A i \in 1..(Len(s) + Len(chunk)) :
              r[i] = IF i <= Len(s) THEN s[i] ELSE chunk[i - Len(s)]
    BY <1>1, ConcatProperties
  <2> HIDE DEF r
  <2>2. /\ \A i \in 1..Len(s) : i \in 1..(Len(s) + n) /\ i <= Len(s)
        /\ \A i \in (Len(s) + 1)..(Len(s) + n) :
              i \in 1..(Len(s) + n) /\ ~(i <= Len(s))
    BY <1>1
  <2>3. QED
    BY <1>1, <2>1, <2>2
<1> HIDE DEF r
<1>3. ASSUME Begins(s, t), NEW i \in 1..Len(r)
      PROVE  r[i] = t[i]
  <2>1. CASE i <= Len(s)
    <3>1. i \in 1..Len(s)
      BY <1>1, <1>2, <2>1
    <3>2. QED
      BY <1>2, <1>3, <3>1 DEF Begins
  <2>2. CASE i > Len(s)
    <3>1. /\ i - Len(s) \in 1..n
          /\ i \in (Len(s) + 1)..(Len(s) + n)
          /\ Len(s) + (i - Len(s)) = i
      BY <1>1, <1>2, <2>2
    <3>2. chunk[i - Len(s)] = t[Len(s) + (i - Len(s))]
      BY <1>1, <3>1
    <3>3. QED
      BY <1>2, <3>1, <3>2
  <2>3. QED
    BY <1>1, <1>2, <2>1, <2>2
<1>4. QED
  BY <1>2, <1>3 DEF Begins, r, chunk

-----------------------------------------------------------------------------
(* The invariant.  What was read is a prefix of the file as long as nobody *)
(* did anything but append to it, and so are the bytes the file had when   *)
(* it was opened; at the end of the file the first has caught up.          *)

Types ==
    /\ entry \in Entries
    /\ moved \in BOOLEAN
    /\ page \in Texts
    /\ changes \in 0..MaxChanges
    /\ pc \in {"open", "blocked", "stat", "read", "decode", "close", "done"}
    /\ fd \in Objects \cup {"none"}
    /\ got \in Seq(Byte) /\ Len(got) <= MaxBytes
    /\ answer \in {"none", "text", "not_found", "too_large", "internal"}
    /\ opened \in (Objects \ {"outside"}) \cup {"none"}
    /\ first \in Seq(Byte)
    /\ since \in {"same", "grown", "rewritten"}

Reading == pc \in {"stat", "read", "decode"}

StartInv ==
    /\ pc \in {"open", "blocked"} =>
          fd = "none" /\ opened = "none" /\ got = <<>>
    /\ pc = "stat" => got = <<>>
    /\ Reading => fd # "none"
    /\ fd # "none" => fd = opened
    /\ pc = "done" => fd = "none"
    /\ pc \in {"read", "decode"} => fd \in Files

\* What befell the file since it was opened.
SinceInv ==
    /\ Reading /\ since = "same" => Content(fd) = first
    /\ Reading /\ since = "grown" => fd = "page" /\ Begins(first, page)

GotInv ==
    since # "rewritten" =>
       /\ pc \in {"read", "decode"} => Len(first) <= MaxBytes
       /\ pc = "read" => Begins(got, Content(fd))
       /\ pc = "decode" => Begins(first, got)
       /\ pc = "decode" /\ since = "same" => got = first

AnswerInv ==
    pc \in {"close", "done"} /\ opened \in Files =>
       /\ answer # "none"
       /\ since = "same" =>
             /\ answer = "text" => got = first
             /\ answer = "too_large" => Len(first) > MaxBytes
             /\ answer = "not_found" => ~Decodes(first)
       /\ since = "grown" /\ answer = "text" => Begins(first, got)

ReadInv == Types /\ StartInv /\ SinceInv /\ GotInv /\ AnswerInv

\* Every file holds bytes.
LEMMA TextType ==
    ASSUME NEW text \in Texts
    PROVE  text \in Seq(Byte)
<1>1. PICK m \in 0..(MaxBytes + 1) : text \in [1..m -> Byte]
  BY TextsAssumption DEF SeqOf, Byte
<1>2. QED
  BY <1>1

LEMMA ContentType ==
    ASSUME page \in Texts, NEW object
    PROVE  Content(object) \in Seq(Byte)
<1>1. page \in Seq(Byte)
  BY TextType
<1>2. /\ <<>> \in Seq(Byte)
      /\ <<"c">> \in Seq(Byte)
      /\ <<"c", "c">> \in Seq(Byte)
  BY DEF Byte
<1>3. \/ Content(object) = page \/ Content(object) = <<"c">>
      \/ Content(object) = <<"c", "c">> \/ Content(object) = <<>>
  BY Zenon DEF Content
<1>4. QED
  BY <1>1, <1>2, <1>3

LEMMA ReadInit == Init => ReadInv
<1> SUFFICES ASSUME Init PROVE ReadInv
  OBVIOUS
<1>1. got = <<>> /\ first = <<>> /\ <<>> \in Seq(Byte) /\ Len(<<>>) = 0
  BY DEF Init
<1>2. Types
  <2>1. moved \in BOOLEAN
    BY Zenon DEF Init
  <2>2. QED
    BY <1>1, <2>1 DEF Init, Types
<1>3. StartInv /\ SinceInv /\ GotInv /\ AnswerInv
  BY DEF Init, StartInv, SinceInv, GotInv, AnswerInv, Reading
<1>4. QED
  BY <1>2, <1>3 DEF ReadInv

\* Renaming, replacing the root, and the end of the call.
LEMMA ReadElsewhere ==
    ASSUME ReadInv, Rename \/ MoveRoot \/ Finished \/ UNCHANGED vars
    PROVE  ReadInv'
<1>1. UNCHANGED <<page, pc, fd, got, answer, opened, first, since>>
  BY DEF Rename, MoveRoot, Finished, ghosts, vars
<1>2. /\ entry' \in Entries /\ moved' \in BOOLEAN
      /\ changes' \in 0..MaxChanges
  <2>1. CASE Rename \/ MoveRoot
    <3>1. entry' \in Entries /\ changes' \in 0..MaxChanges
      BY <2>1 DEF Rename, MoveRoot, Disturb, ReadInv, Types
    <3>2. moved' = moved \/ moved' = TRUE
      BY <2>1, Zenon DEF Rename, MoveRoot
    <3>3. moved' \in BOOLEAN
      BY <3>2, Zenon DEF ReadInv, Types
    <3>4. QED
      BY <3>1, <3>3
  <2>2. CASE UNCHANGED vars
    BY <2>2 DEF vars, ReadInv, Types
  <2>3. QED
    BY <2>1, <2>2 DEF Finished
<1>3. Types'
  BY <1>1, <1>2 DEF ReadInv, Types
<1>4. QED
  BY <1>1, <1>3 DEF ReadInv, StartInv, SinceInv, GotInv, AnswerInv, Reading,
     Content

\* Another process writes to the file.
LEMMA ReadRewrite ==
    ASSUME ReadInv, Rewrite
    PROVE  ReadInv'
<1>1. /\ UNCHANGED <<pc, fd, got, answer, opened, first>>
      /\ pc # "done" /\ page' \in Texts
  BY DEF Rewrite, Disturb
<1>2. page \in Seq(Byte) /\ page' \in Seq(Byte)
  BY <1>1, TextType DEF ReadInv, Types
<1>3. first \in Seq(Byte) /\ got \in Seq(Byte)
  BY DEF ReadInv, Types
<1>4. /\ since' \in {"same", "grown", "rewritten"}
      /\ changes' \in 0..MaxChanges
  BY DEF Rewrite, Disturb, ReadInv, Types
<1>5. Types' /\ StartInv'
  BY <1>1, <1>4 DEF Rewrite, ReadInv, Types, StartInv, Reading
<1>6. CASE fd # "page"
  <2>1. since' = since /\ Content(fd)' = Content(fd)
    BY <1>1, <1>6 DEF Rewrite, Content
  <2>2. QED
    BY <1>1, <1>5, <1>6, <2>1
       DEF ReadInv, SinceInv, GotInv, AnswerInv, Reading
<1>7. CASE fd = "page" /\ since' = "rewritten"
  BY <1>1, <1>5, <1>7 DEF ReadInv, SinceInv, GotInv, AnswerInv
<1>8. CASE fd = "page" /\ since' # "rewritten"
  <2>1. since' = "grown" /\ since # "rewritten" /\ IsPrefix(page, page')
    BY <1>8 DEF Rewrite
  <2>2. Begins(page, page')
    BY <1>2, <2>1, PrefixBegins
  <2>3. Content(fd) = page /\ Content(fd)' = page'
    BY <1>1, <1>8 DEF Content
  <2>4. since = "same" \/ since = "grown"
    BY <2>1 DEF ReadInv, Types
  <2>5. Reading => Begins(first, page)
    BY <1>3, <2>3, <2>4, BeginsOrder DEF ReadInv, SinceInv
  <2>6. SinceInv'
    BY <1>1, <1>2, <1>3, <1>8, <2>1, <2>2, <2>5, BeginsOrder
       DEF SinceInv, Reading
  <2>7. GotInv'
    BY <1>1, <1>2, <1>3, <2>1, <2>2, <2>3, BeginsOrder DEF ReadInv, GotInv
  <2>8. AnswerInv'
    BY <1>1, <1>3, <2>1, <2>4, BeginsOrder DEF ReadInv, AnswerInv
  <2>9. QED
    BY <1>5, <2>6, <2>7, <2>8 DEF ReadInv
<1>9. QED
  BY <1>6, <1>7, <1>8

\* Opening, with or without a wait for a pipe's writer, or failing to.
LEMMA ReadOpen ==
    ASSUME ReadInv, Refuse \/ Open \/ PipeOpens
    PROVE  ReadInv'
<1>1. CASE Refuse
  BY <1>1 DEF Refuse, LeaveWith, world, ghosts, ReadInv, Types, StartInv,
     SinceInv, GotInv, AnswerInv, Reading, Files
<1>2. CASE Open /\ Opened = "pipe"
  BY <1>2 DEF Open, world, ghosts, ReadInv, Types, StartInv, SinceInv,
     GotInv, AnswerInv, Reading
<1>3. CASE (Open /\ Opened # "pipe") \/ PipeOpens
  <2>1. PICK object \in (Objects \ {"outside"}) : Hold(object)
    BY <1>3 DEF Open, PipeOpens, Opened, ReadInv, Types, Entries, Objects,
       Files
  <2>2. Content(object) \in Seq(Byte)
    BY ContentType DEF ReadInv, Types
  <2>3. /\ pc' = "stat" /\ pc \in {"open", "blocked"}
        /\ UNCHANGED <<entry, moved, page, changes, got, answer>>
    BY <1>3 DEF Open, PipeOpens, world
  <2>4. /\ fd' = object /\ opened' = object /\ since' = "same"
        /\ first' = Content(object)
    BY <2>1 DEF Hold
  <2>5. object # "none"
    BY DEF Objects, Files
  <2>6. Types' /\ StartInv'
    BY <2>2, <2>3, <2>4, <2>5 DEF ReadInv, Types, StartInv, Reading
  <2>7. SinceInv' /\ GotInv' /\ AnswerInv'
    BY <2>3, <2>4 DEF SinceInv, GotInv, AnswerInv, Content
  <2>8. QED
    BY <2>6, <2>7 DEF ReadInv
<1>4. QED
  BY <1>1, <1>2, <1>3

\* The size is looked at once.
LEMMA ReadStat ==
    ASSUME ReadInv, Stat
    PROVE  ReadInv'
<1>1. /\ pc = "stat" /\ fd = opened /\ fd # "none" /\ got = <<>>
      /\ UNCHANGED <<page, fd, got, opened, first, since, entry, moved,
                     changes>>
  BY DEF Stat, world, ghosts, ReadInv, StartInv, Reading
<1>2. Content(fd) \in Seq(Byte) /\ Content(fd)' = Content(fd)
  BY <1>1, ContentType DEF ReadInv, Types, Content
<1>3. Types'
  BY <1>1 DEF Stat, LeaveWith, ReadInv, Types
<1>4. StartInv' /\ SinceInv'
  BY <1>1, <1>2
     DEF Stat, LeaveWith, ReadInv, StartInv, SinceInv, Reading, Types
<1>5. GotInv'
  <2>1. CASE pc' = "read"
    <3>1. Len(Content(fd)) <= MaxBytes
      BY <1>2, <2>1 DEF Stat, LeaveWith
    <3>2. since # "rewritten" => Len(first) <= Len(Content(fd))
      <4>1. since # "rewritten" => since = "same" \/ since = "grown"
        BY DEF ReadInv, Types
      <4>2. since = "same" => Content(fd) = first
        BY <1>1 DEF ReadInv, SinceInv, Reading
      <4>3. since = "grown" => fd = "page" /\ Begins(first, page)
        BY <1>1 DEF ReadInv, SinceInv, Reading
      <4>4. fd = "page" => Content(fd) = page
        BY DEF Content
      <4>5. first \in Seq(Byte) /\ Len(first) \in Nat
        BY DEF ReadInv, Types
      <4>6. QED
        BY <1>2, <4>1, <4>2, <4>3, <4>4, <4>5 DEF Begins
    <3>3. Begins(<<>>, Content(fd))
      BY <1>2 DEF Begins
    <3>4. first \in Seq(Byte)
      BY DEF ReadInv, Types
    <3>5. since # "rewritten" => Len(first) <= MaxBytes
      BY <1>2, <3>1, <3>2, <3>4
    <3>6. QED
      BY <1>1, <1>2, <2>1, <3>3, <3>5 DEF GotInv
  <2>2. CASE pc' # "read"
    BY <1>1, <2>2 DEF Stat, LeaveWith, GotInv
  <2>3. QED
    BY <2>1, <2>2
<1>6. AnswerInv'
  <2>1. since = "same" => Content(fd) = first
    BY <1>1 DEF ReadInv, SinceInv, Reading
  <2>2. QED
    BY <1>1, <2>1 DEF Stat, LeaveWith, AnswerInv
<1>7. QED
  BY <1>3, <1>4, <1>5, <1>6 DEF ReadInv

\* One more chunk.
LEMMA ReadMore ==
    ASSUME ReadInv, ReadChunk
    PROVE  ReadInv'
<1>1. /\ pc = "read" /\ pc' = "read"
      /\ UNCHANGED <<page, fd, opened, first, since, entry, moved, changes,
                     answer>>
  BY DEF ReadChunk, StopsAfter, world, ghosts
<1>2. /\ Content(fd) \in Seq(Byte) /\ Content(fd)' = Content(fd)
      /\ got \in Seq(Byte) /\ Len(got) <= MaxBytes
  BY <1>1, ContentType DEF ReadInv, Types, Content
<1>3. PICK n \in 1..Least(Asked, Available) :
         got' = got \o SubSeq(Content(fd), Len(got) + 1, Len(got) + n)
  BY DEF ReadChunk
<1>4. /\ n \in Nat \ {0}
      /\ Len(got) + n <= MaxBytes
      /\ Len(got) + n <= Len(Content(fd))
  <2>1. /\ Len(got) \in Nat /\ Len(Content(fd)) \in Nat
        /\ MaxBytes \in Nat /\ Chunk \in Nat
    BY <1>2
  <2>2. Remaining \in Int /\ Available \in Int /\ Asked \in Int
    BY <2>1 DEF Remaining, Available, Asked, Least
  <2>3. Least(Asked, Available) <= Remaining
          /\ Least(Asked, Available) <= Available
          /\ Least(Asked, Available) \in Int
    BY <2>1, <2>2 DEF Asked, Least, Remaining
  <2>4. QED
    BY <1>3, <2>1, <2>2, <2>3 DEF Remaining, Available
<1>5. /\ got' \in Seq(Byte) /\ Len(got') = Len(got) + n
      /\ Begins(got, Content(fd)) => Begins(got', Content(fd))
  BY <1>2, <1>3, <1>4, BeginsRead
<1>6. Types' /\ StartInv'
  BY <1>1, <1>4, <1>5 DEF ReadInv, Types, StartInv, Reading
<1>7. SinceInv' /\ GotInv' /\ AnswerInv'
  BY <1>1, <1>2, <1>5 DEF ReadInv, SinceInv, GotInv, AnswerInv, Reading
<1>8. QED
  BY <1>6, <1>7 DEF ReadInv

\* No chunk is left, or no room.
LEMMA ReadEndOfFile ==
    ASSUME ReadInv, EndOfFile
    PROVE  ReadInv'
<1>1. /\ pc = "read" /\ pc' = "decode"
      /\ UNCHANGED <<page, fd, got, opened, first, since, entry, moved,
                     changes, answer>>
  BY DEF EndOfFile, world, ghosts
<1>2. /\ Content(fd) \in Seq(Byte) /\ Content(fd)' = Content(fd)
      /\ got \in Seq(Byte) /\ first \in Seq(Byte)
  BY <1>1, ContentType DEF ReadInv, Types, Content
<1>3. since # "rewritten" => Begins(first, got)
  <2> SUFFICES ASSUME since # "rewritten" PROVE Begins(first, got)
    OBVIOUS
  <2>1. since = "same" \/ since = "grown"
    BY DEF ReadInv, Types
  <2>2. Begins(first, Content(fd))
    <3>1. CASE since = "same"
      <4>1. Content(fd) = first
        BY <1>1, <3>1 DEF ReadInv, SinceInv, Reading
      <4>2. QED
        BY <1>2, <4>1, BeginsOrder
    <3>2. CASE since = "grown"
      BY <1>1, <3>2 DEF ReadInv, SinceInv, Reading, Content
    <3>3. QED
      BY <2>1, <3>1, <3>2
  <2>3. Begins(got, Content(fd)) /\ Len(first) <= MaxBytes
    BY <1>1 DEF ReadInv, GotInv
  <2>4. Len(got) >= MaxBytes \/ Len(got) >= Len(Content(fd))
    BY <1>2 DEF EndOfFile, Remaining, Available
  <2>5. Len(first) <= Len(Content(fd))
    BY <2>2 DEF Begins
  <2>6. Len(first) <= Len(got)
    BY <1>2, <2>3, <2>4, <2>5
  <2>7. QED
    BY <1>2, <2>2, <2>3, <2>6, BeginsOrder
<1>4. since = "same" => got = first
  <2> SUFFICES ASSUME since = "same" PROVE got = first
    OBVIOUS
  <2>1. Content(fd) = first
    BY <1>1 DEF ReadInv, SinceInv, Reading
  <2>2. Begins(got, first)
    BY <1>1, <2>1 DEF ReadInv, GotInv
  <2>3. Begins(first, got)
    BY <1>3
  <2>4. QED
    BY <1>2, <2>2, <2>3, BeginsOrder DEF Begins
<1>5. Types' /\ StartInv'
  BY <1>1 DEF ReadInv, Types, StartInv, Reading
<1>6. SinceInv' /\ GotInv' /\ AnswerInv'
  BY <1>1, <1>2, <1>3, <1>4
     DEF ReadInv, SinceInv, GotInv, AnswerInv, Reading
<1>7. QED
  BY <1>5, <1>6 DEF ReadInv

\* Failing, decoding and closing.
LEMMA ReadLeave ==
    ASSUME ReadInv, Fails \/ Decode \/ Close
    PROVE  ReadInv'
<1>1. /\ Content(fd)' = Content(fd) \/ fd' = "none"
      /\ UNCHANGED <<page, got, opened, first, since, entry, moved, changes>>
  BY DEF Fails, Decode, Close, world, ghosts, Content
<1>2. CASE Fails
  BY <1>1, <1>2 DEF Fails, LeaveWith, ReadInv, Types, StartInv, SinceInv,
     GotInv, AnswerInv, Reading
<1>3. CASE Decode
  <2>1. Types' /\ StartInv' /\ SinceInv' /\ GotInv'
    BY <1>1, <1>3 DEF Decode, LeaveWith, ReadInv, Types, StartInv, SinceInv,
       GotInv, Reading
  <2>2. AnswerInv'
    BY <1>1, <1>3 DEF Decode, LeaveWith, ReadInv, GotInv, AnswerInv,
       Decodes
  <2>3. QED
    BY <2>1, <2>2 DEF ReadInv
<1>4. CASE Close
  BY <1>1, <1>4 DEF Close, ReadInv, Types, StartInv, SinceInv, GotInv,
     AnswerInv, Reading
<1>5. QED
  BY <1>2, <1>3, <1>4

LEMMA ReadNext == ReadInv /\ [Next]_vars => ReadInv'
BY ReadElsewhere, ReadRewrite, ReadOpen, ReadStat, ReadMore, ReadEndOfFile,
   ReadLeave DEF Next, Progress

THEOREM ReadInvariant == Spec => []ReadInv
<1>1. QED
  BY ReadInit, ReadNext, PTL DEF Spec

\* The variables stay in their types, and no more than max_bytes are ever
\* held, although the file may grow after its size was checked.
THEOREM TypeCorrect == Spec => []TypeOK
<1>1. ReadInv => TypeOK
  <2> SUFFICES ASSUME ReadInv PROVE TypeOK
    OBVIOUS
  <2>1. /\ got \in [1..Len(got) -> Byte]
        /\ Len(got) \in 0..MaxBytes
    BY DEF ReadInv, Types
  <2>2. got \in SeqOf({"c", "f", "s"}, MaxBytes)
    BY <2>1 DEF SeqOf, Byte
  <2>3. QED
    BY <2>2 DEF ReadInv, Types, TypeOK, Byte
<1>2. QED
  BY ReadInvariant, <1>1, PTL

\* Whatever the other processes do to the name and to the path, a file nobody
\* writes to while it is open is answered whole or refused as a whole, and
\* one that only grows loses nothing it had.
THEOREM WholeFileHolds == Spec => []WholeFile
<1>1. ReadInv => WholeFile
  <2> SUFFICES ASSUME ReadInv PROVE WholeFile
    OBVIOUS
  <2>1. got \in Seq(Byte) /\ first \in Seq(Byte) /\ opened # "outside"
    BY DEF ReadInv, Types, Objects, Files
  <2>2. Untouched
    BY DEF ReadInv, Types, AnswerInv, Untouched
  <2>3. Appended
    <3>1. pc = "done" /\ answer = "text" /\ opened = "page"
            /\ since = "grown" => Begins(first, got)
      BY DEF ReadInv, AnswerInv, Files
    <3>2. QED
      BY <2>1, <3>1, BeginsPrefix DEF Appended, Answered
  <2>4. QED
    BY <2>1, <2>2, <2>3 DEF WholeFile
<1>2. QED
  BY ReadInvariant, <1>1, PTL
-----------------------------------------------------------------------------
(* How long a read takes.  This is the part of ReadEnds that does not      *)
(* depend on fairness: a measure of what the reader has still to do.       *)

\* A bound on the steps of the reader; each chunk has at least one byte.
StepsToGo ==
    CASE pc = "open" -> MaxBytes + 6
      [] pc = "blocked" -> MaxBytes + 5
      [] pc = "stat" -> MaxBytes + 4
      [] pc = "read" -> Remaining + 3
      [] pc = "decode" -> 2
      [] pc = "close" -> 1
      [] OTHER -> 0

\* Every step leaves the reader less to do, or it is another process's and
\* leaves the reader where it is.
ReaderAdvances ==
    \/ StepsToGo' < StepsToGo
    \/ UNCHANGED <<pc, fd, got, answer>>

\* However other processes change the file while it is read, appending to it
\* faster than it is read included, the reader takes at most max_bytes + 6
\* steps.
THEOREM ReadIsShort ==
    Spec => [](StepsToGo \in 0..(MaxBytes + 6)) /\ [][ReaderAdvances]_vars
<1>1. ReadInv => StepsToGo \in 0..(MaxBytes + 6)
  <2> SUFFICES ASSUME ReadInv PROVE StepsToGo \in 0..(MaxBytes + 6)
    OBVIOUS
  <2>1. Remaining \in 0..MaxBytes
    BY DEF ReadInv, Types, Remaining
  <2>2. QED
    BY <2>1 DEF StepsToGo
<1>2. ReadInv /\ [Next]_vars => ReaderAdvances
  <2> SUFFICES ASSUME ReadInv, [Next]_vars PROVE ReaderAdvances
    OBVIOUS
  <2>1. Remaining \in 0..MaxBytes
    BY DEF ReadInv, Types, Remaining
  <2>2. CASE Refuse \/ Open \/ PipeOpens \/ Stat \/ Fails \/ Decode \/ Close
    <3>1. got' = got
      BY <2>2 DEF Refuse, Open, PipeOpens, Stat, Fails, Decode, Close
    <3>2. \/ pc = "open" /\ pc' \in {"blocked", "stat", "close", "done"}
          \/ pc = "blocked" /\ pc' = "stat"
          \/ pc = "stat" /\ pc' \in {"read", "close", "done"}
          \/ pc \in {"read", "decode"} /\ pc' \in {"close", "done"}
          \/ pc = "close" /\ pc' = "done"
      BY <2>2 DEF Refuse, Open, PipeOpens, Stat, Fails, Decode, Close,
         LeaveWith
    <3>3. Remaining' = Remaining
      BY <3>1 DEF Remaining
    <3>4. StepsToGo' < StepsToGo
      BY <2>1, <3>2, <3>3 DEF StepsToGo
    <3>5. QED
      BY <3>4 DEF ReaderAdvances
  <2>3. CASE EndOfFile
    <3>1. pc = "read" /\ pc' = "decode"
      BY <2>3 DEF EndOfFile
    <3>2. QED
      BY <2>1, <3>1 DEF StepsToGo, ReaderAdvances
  <2>4. CASE ReadChunk
    <3>1. PICK n \in 1..Least(Asked, Available) :
             got' = got \o SubSeq(Content(fd), Len(got) + 1, Len(got) + n)
      BY <2>4 DEF ReadChunk
    <3>2. pc = "read" /\ pc' = "read"
      BY <2>4 DEF ReadChunk, StopsAfter
    <3>3. /\ got \in Seq(Byte) /\ Content(fd) \in Seq(Byte)
          /\ page \in Texts
      BY ContentType DEF ReadInv, Types
    <3>4. n \in Nat /\ n >= 1 /\ Len(got) + n <= Len(Content(fd))
      BY <3>1, <3>3, <2>1 DEF Least, Asked, Available, Remaining
    <3>5. Len(got') = Len(got) + n
      BY <3>1, <3>3, <3>4
    <3>6. Remaining' = Remaining - n
      BY <3>3, <3>4, <3>5 DEF Remaining
    <3>7. StepsToGo' < StepsToGo
      BY <2>1, <3>2, <3>4, <3>6 DEF StepsToGo
    <3>8. QED
      BY <3>7 DEF ReaderAdvances
  <2>5. CASE Rewrite \/ Rename \/ MoveRoot \/ Finished \/ UNCHANGED vars
    BY <2>5 DEF Rewrite, Rename, MoveRoot, Finished, vars, ReaderAdvances
  <2>6. QED
    BY <2>2, <2>3, <2>4, <2>5 DEF Next, Progress
<1>3. QED
  BY <1>1, <1>2, ReadInit, ReadNext, PTL DEF Spec
=============================================================================
