------------------------------ MODULE OkfReader -----------------------------
(***************************************************************************)
(* One read of a knowledge resource (src/src/knowledge/okf_resource.py):   *)
(* open, fstat, the loop of reads, the decoding and the close, against     *)
(* other processes that rewrite the file, rename something else into its   *)
(* place, or put another directory where the root was.                     *)
(*                                                                         *)
(* A descriptor refers to an object, not to a name: "page" is the file the *)
(* concept had at first, "other" a file renamed over it, "folder" and      *)
(* "pipe" are no regular files, and "outside" is a file that is only       *)
(* reached through a symbolic link or through a root that was replaced.  A *)
(* byte is a character of its own ("c"), or the first or the second byte   *)
(* of a longer one ("f", "s").                                             *)
(***************************************************************************)
EXTENDS Integers, Sequences, SequencesExt

CONSTANTS
    MaxBytes,       \* max_bytes
    Texts,          \* bound: what may be written to the file
    Chunk,          \* bytes asked for by one read, 64 KiB in the code
    MaxChanges      \* bound: what the other processes do

ASSUME LimitsAssumption ==          \* OKFResourceProvider.__init__
    /\ MaxBytes \in Nat
    /\ Chunk \in Nat \ {0}
    /\ MaxChanges \in Nat
ASSUME TextsAssumption ==
    Texts \subseteq SeqOf({"c", "f", "s"}, MaxBytes + 1)

VARIABLES
    entry,      \* what the name is in the directory opened at the start
    moved,      \* the path of the root leads to another directory now
    page,       \* bytes of the file "page"
    changes,    \* number of changes made, for the bound
    pc,
    fd,         \* the object behind the descriptor
    got,        \* the chunks read so far
    answer,
    opened,     \* ghost: the object that was opened
    first,      \* ghost: its bytes at that moment
    since       \* ghost: what befell it since: "same", "grown", "rewritten"

vars == <<entry, moved, page, changes, pc, fd, got, answer, opened, first,
          since>>

world == <<entry, moved, page, changes>>
ghosts == <<opened, first, since>>

-----------------------------------------------------------------------------
Files == {"page", "other", "outside"}

Objects == Files \cup {"folder", "pipe"}

Entries == {"page", "other", "folder", "pipe", "link", "nothing"}

Content(object) ==
    CASE object = "page" -> page
      [] object = "other" -> <<"c">>
      [] object = "outside" -> <<"c", "c">>
      [] OTHER -> <<>>

\* bytes.decode("utf-8") accepts it.
Decodes(s) ==
    \A i \in DOMAIN s :
       /\ s[i] = "f" => i < Len(s) /\ s[i + 1] = "s"
       /\ s[i] = "s" => i > 1 /\ s[i - 1] = "f"

Least(a, b) == IF a <= b THEN a ELSE b

Init ==
    /\ entry \in Entries
    /\ moved = FALSE
    /\ page \in Texts
    /\ changes = 0
    /\ pc = "open"
    /\ fd = "none" /\ got = <<>> /\ answer = "none"
    /\ opened = "none" /\ first = <<>> /\ since = "same"

-----------------------------------------------------------------------------
(* The other processes.  What they do after the read shows nothing.        *)

Disturb == changes < MaxChanges /\ pc # "done" /\ changes' = changes + 1

\* Writing to the file in place: it grows, shrinks or gets other bytes.
Rewrite ==
    /\ Disturb
    /\ page' \in Texts
    /\ since' = IF fd # "page" THEN since
                ELSE IF IsPrefix(page, page') /\ since # "rewritten"
                  THEN "grown" ELSE "rewritten"
    /\ UNCHANGED <<entry, moved, pc, fd, got, answer, opened, first>>

Rename ==
    /\ Disturb
    /\ entry' \in Entries
    /\ UNCHANGED <<moved, page, pc, fd, got, answer, ghosts>>

MoveRoot ==
    /\ Disturb
    /\ moved' = TRUE
    /\ UNCHANGED <<entry, page, pc, fd, got, answer, ghosts>>

-----------------------------------------------------------------------------
(* read                                                                    *)

\* The descriptor is closed in every case in which there is one.
LeaveWith(outcome) ==
    /\ pc' = IF fd = "none" THEN "done" ELSE "close"
    /\ answer' = outcome

Refuse ==
    /\ pc = "open"
    /\ LeaveWith("not_found")
    /\ UNCHANGED <<world, fd, got, ghosts>>

\* Wrong variant: the file is opened by its path.
OpenedByPath == IF moved THEN "outside" ELSE entry

\* os.open with dir_fd: the entry of the directory that was opened at start,
\* wherever the path of the root leads now.
Opened == entry

Hold(object) ==
    /\ fd' = object
    /\ opened' = object /\ first' = Content(object) /\ since' = "same"

\* O_NOFOLLOW refuses a link; opening a pipe waits for somebody to write.
Open ==
    /\ pc = "open"
    /\ Opened \notin {"link", "nothing"}
    /\ IF Opened = "pipe"
         THEN pc' = "blocked" /\ UNCHANGED <<fd, ghosts>>
         ELSE pc' = "stat" /\ Hold(Opened)
    /\ UNCHANGED <<world, got, answer>>

\* Another process opens the pipe for writing.
PipeOpens ==
    /\ pc = "blocked"
    /\ pc' = "stat" /\ Hold("pipe")
    /\ UNCHANGED <<world, got, answer>>

\* Wrong variant: a refusal leaves without closing.
StatLeaks ==
    /\ pc = "stat"
    /\ IF fd \notin Files THEN pc' = "done" /\ answer' = "not_found"
       ELSE IF Len(Content(fd)) > MaxBytes THEN LeaveWith("too_large")
       ELSE pc' = "read" /\ UNCHANGED answer
    /\ UNCHANGED <<world, fd, got, ghosts>>

Stat ==
    /\ pc = "stat"
    /\ IF fd \notin Files THEN LeaveWith("not_found")
       ELSE IF Len(Content(fd)) > MaxBytes THEN LeaveWith("too_large")
       ELSE pc' = "read" /\ UNCHANGED answer
    /\ UNCHANGED <<world, fd, got, ghosts>>

Remaining == MaxBytes - Len(got)

\* Wrong variant: the last chunk may pass the limit.
AskedAlwaysChunk == Chunk

Asked == Least(Chunk, Remaining)

Available == Len(Content(fd)) - Len(got)

\* Wrong variant: a chunk shorter than asked for is taken for the last one.
StopsShort(n) == n < Asked

\* The loop goes on after every chunk that is not empty.
StopsAfter(n) == FALSE

\* A read returns at least one byte of what there is, and may return less
\* than was asked for.
ReadChunk ==
    /\ pc = "read" /\ Remaining > 0 /\ Available > 0
    /\ \E n \in 1..Least(Asked, Available) :
          /\ got' = got \o SubSeq(Content(fd), Len(got) + 1, Len(got) + n)
          /\ pc' = IF StopsAfter(n) THEN "decode" ELSE "read"
    /\ UNCHANGED <<world, fd, answer, ghosts>>

EndOfFile ==
    /\ pc = "read"
    /\ Remaining <= 0 \/ Available <= 0
    /\ pc' = "decode"
    /\ UNCHANGED <<world, fd, got, answer, ghosts>>

\* fstat or read raises: an internal error.
Fails ==
    /\ pc \in {"stat", "read"}
    /\ LeaveWith("internal")
    /\ UNCHANGED <<world, fd, got, ghosts>>

Decode ==
    /\ pc = "decode"
    /\ LeaveWith(IF Decodes(got) THEN "text" ELSE "not_found")
    /\ UNCHANGED <<world, fd, got, ghosts>>

Close ==
    /\ pc = "close"
    /\ fd' = "none" /\ pc' = "done"
    /\ UNCHANGED <<world, got, answer, ghosts>>

Finished == pc = "done" /\ UNCHANGED vars

Progress == Refuse \/ Open \/ Stat \/ ReadChunk \/ EndOfFile \/ Decode \/ Close

Next ==
    \/ Progress
    \/ Fails
    \/ PipeOpens
    \/ Rewrite
    \/ Rename
    \/ MoveRoot
    \/ Finished

\* The thread that reads runs on; a call of the operating system on a
\* regular file or a directory returns.
Spec == Init /\ [][Next]_vars /\ WF_vars(Progress)

-----------------------------------------------------------------------------
(* What must hold.                                                         *)

\* Types; that no more than max_bytes are ever held, although the file may
\* grow after its size was checked, is the part a wrong loop would break.
TypeOK ==
    /\ entry \in Entries
    /\ moved \in BOOLEAN
    /\ page \in Texts
    /\ changes \in 0..MaxChanges
    /\ pc \in {"open", "blocked", "stat", "read", "decode", "close", "done"}
    /\ fd \in Objects \cup {"none"}
    /\ got \in SeqOf({"c", "f", "s"}, MaxBytes)
    /\ answer \in {"none", "text", "not_found", "too_large", "internal"}
    /\ opened \in Objects \cup {"none"}
    /\ first \in Seq({"c", "f", "s"})
    /\ since \in {"same", "grown", "rewritten"}

Answered(outcome) == pc = "done" /\ answer = outcome

Untouched ==
    pc = "done" /\ opened \in Files /\ since = "same" =>
       CASE answer = "text" -> got = first
         [] answer = "too_large" -> Len(first) > MaxBytes
         [] answer = "not_found" -> ~Decodes(first)
         [] OTHER -> answer = "internal"

Appended ==
    Answered("text") /\ opened = "page" /\ since = "grown" =>
       IsPrefix(first, got)

\* A file nobody writes to while it is open is answered whole or refused as
\* a whole, in whatever chunks it is read and whatever becomes of its name
\* or of the path to it meanwhile: an update by rename gives the old text or
\* the new one.  A file that only grows while it is open loses nothing it had
\* when it was opened.  And it is a file of the directory opened at the
\* start, not one a link or a new root leads to.
WholeFile == Untouched /\ Appended /\ opened # "outside"

\* Once a descriptor is open, the read ends, with the descriptor closed,
\* although other processes may go on writing: only opening a pipe can wait
\* for ever.
ReadEnds == pc = "stat" ~> pc = "done" /\ fd = "none"
=============================================================================
