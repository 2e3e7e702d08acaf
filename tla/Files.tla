--------------------------------- MODULE Files ---------------------------------
(***************************************************************************)
(* The files of a folder and what fs.h (posix/fs.h) does to them: promises *)
(* that read, write, append or list, a copy, and the calls that are done   *)
(* at once.  Each of the first runs as a task of the loop, a turn at a     *)
(* time, while the others go on with the same files.                       *)
(*                                                                         *)
(* A name leads to an inode; an open file keeps its inode when the name    *)
(* goes.  Text is counted in units: what one read takes.  A write may take *)
(* less than it was given (a pipe, a full disk, io_uring with more than a  *)
(* chunk).  A file that cannot be opened ends the program or throws        *)
(* (macros.h); that is left out.                                           *)
(***************************************************************************)
EXTENDS Integers, Sequences, FiniteSetsExt

CONSTANTS
    Names,          \* the files there may be
    Inodes,
    Jobs,           \* calls that run as a task
    Missing,        \* no inode, no unit, no folder
    Length          \* units of a message

VARIABLES
    folder,         \* folder[p]: the inode of the name p, or Missing
    text,           \* text[i]: the units in an inode
    job             \* job[j]: a call, its file_t and its promise

vars == <<folder, text, job>>

Message(j) == [k \in 1..Length |-> <<j, k>>]
Old        == [k \in 1..Length |-> <<Missing, k>>]
Hole       == <<Missing, 0>>

\* src, des: the inodes it reads and writes; pos, at: where it is in them;
\* acc: what it has read; data: units of this round of write() that
\* are written; done: what the rounds made of it (*bff); held: a unit a copy
\* has in hand, or the names still to be told.  Told apart for the properties: base, the text before it;
\* pieces and failed, what the system did to it; calm, whether nobody else
\* changed its inodes; rounds, how often it has written its message.
Idle == [op |-> "none", state |-> "idle", src |-> Missing, des |-> Missing,
         pos |-> 0, at |-> 0, acc |-> <<>>, data |-> 0, done |-> 0,
         held |-> Missing, base |-> <<>>, pieces |-> FALSE, failed |-> FALSE,
         calm |-> TRUE, rounds |-> 0]

Running(j, op) == job[j].op = op /\ job[j].state = "running"

\* exists_file( path ).
Exists(p) == folder[p] # Missing

Opened == {folder[p] : p \in Names}
            \cup {job[j].src : j \in {k \in Jobs : job[k].state = "running"}}
            \cup {job[j].des : j \in {k \in Jobs : job[k].state = "running"}}

Spare == Inodes \ Opened

Init ==
    /\ \E p \in Names, i \in Inodes :
          /\ folder = [q \in Names |-> IF q = p THEN i ELSE Missing]
          /\ text = [k \in Inodes |-> IF k = i THEN Old ELSE <<>>]
    /\ job = [j \in Jobs |-> Idle]

Ended(state) == [Idle EXCEPT !.state = state]

\* The inodes in I have changed: a call that runs on them is calm no more, and
\* of one that is over nothing is asked any more.
Noticed(r, I) ==
    IF {r.src, r.des} \cap I = {} THEN r
    ELSE IF r.state = "running" THEN [r EXCEPT !.calm = FALSE]
    ELSE Ended(r.state)

Becomes(j, r, I) ==
    job' = [k \in Jobs |-> IF k = j THEN r ELSE Noticed(job[k], I)]

Disturbs(I) == Becomes(Missing, Idle, I)

Starts(j) == job[j].state = "idle"

Began(op) == [Idle EXCEPT !.op = op, !.state = "running"]

Refused == Ended("rejected")

-----------------------------------------------------------------------------
(* The calls.  A promise of fs.h looks at the folder and opens its file at *)
(* once, and adds a task that does the rest.                               *)

Read(j, p) ==
    /\ Starts(j)
    /\ Becomes(j, IF Exists(p) THEN [Began("read") EXCEPT !.src = folder[p]]
                  ELSE Refused, {})
    /\ UNCHANGED <<folder, text>>

\* file_t( path, "w" ): makes the file, or empties it.
Emptied(p, i) ==
    /\ folder' = [folder EXCEPT ![p] = i]
    /\ text' = [text EXCEPT ![i] = <<>>]

ToWrite(p) == IF Exists(p) THEN {folder[p]} ELSE Spare

Write(j, p) ==
    /\ Starts(j)
    /\ \E i \in ToWrite(p) :
        /\ Emptied(p, i)
        /\ Becomes(j, [Began("write") EXCEPT !.des = i], {i})

\* "a+" does not make the file, and each write goes to its end.
AppendTo(j, p) ==
    /\ Starts(j)
    /\ Becomes(j, IF Exists(p)
                  THEN [Began("append") EXCEPT !.des = folder[p], !.base = text[folder[p]]]
                  ELSE Refused, {})
    /\ UNCHANGED <<folder, text>>

\* A file copied to itself is emptied first.
Copy(j, p, q) ==
    /\ Starts(j)
    /\ IF Exists(p)
       THEN \E i \in ToWrite(q) :
              /\ Emptied(q, i)
              /\ Becomes(j, [Began("copy") EXCEPT !.src = folder[p], !.des = i,
                                                  !.calm = folder[p] # i], {i})
       ELSE Becomes(j, Refused, {}) /\ UNCHANGED <<folder, text>>

\* read_folder: its task opens the folder; the iterator does so at once.
List(j) ==
    /\ Starts(j)
    /\ Becomes(j, Began("list"), {})
    /\ UNCHANGED <<folder, text>>

Iterate(j, there) ==
    /\ Starts(j)
    /\ Becomes(j, IF there THEN Began("iterate") ELSE Refused, {})
    /\ UNCHANGED <<folder, text>>

Create(p) ==
    /\ ~Exists(p)
    /\ \E i \in Spare : Emptied(p, i) /\ Disturbs({i})

Remove(p) ==
    /\ Exists(p)
    /\ folder' = [folder EXCEPT ![p] = Missing]
    /\ UNCHANGED <<text, job>>

\* rename_file, move_file: the name q leads to the file of p from now on.
Rename(p, q) ==
    /\ Exists(p) /\ p # q
    /\ folder' = [folder EXCEPT ![q] = folder[p], ![p] = Missing]
    /\ UNCHANGED <<text, job>>

-----------------------------------------------------------------------------
(* The tasks.  A read or write that fails ends the loop like the end of    *)
(* the file, and the promise is resolved with what there is.               *)

Resolved(j, failed) ==
    /\ Becomes(j, [job[j] EXCEPT !.state = "resolved", !.failed = failed], {})
    /\ UNCHANGED <<folder, text>>

\* The next unit of the inode j reads, if any.
Left(j) == job[j].pos < Len(text[job[j].src])
Unit(j) == text[job[j].src][job[j].pos + 1]

ReadTurn(j) ==
    /\ Running(j, "read")
    /\ \/ /\ Left(j)
          /\ Becomes(j, [job[j] EXCEPT !.acc = Append(@, Unit(j)), !.pos = @ + 1], {})
          /\ UNCHANGED <<folder, text>>
       \/ ~Left(j) /\ Resolved(j, FALSE)
       \/ Left(j) /\ Resolved(j, TRUE)

\* s, written behind the first "at" units.
Put(t, at, s) ==
    [k \in 1..Max({Len(t), at + Len(s)}) |->
        IF k \in at + 1..at + Len(s) THEN s[k - at]
        ELSE IF k <= Len(t) THEN t[k] ELSE Hole]

Writes(j, s, r) ==
    LET i == r.des IN
    /\ text' = [text EXCEPT ![i] = Put(@, IF r.op = "append" THEN Len(@) ELSE r.at, s)]
    /\ Becomes(j, [r EXCEPT !.at = @ + Len(s)], {i})
    /\ UNCHANGED folder

\* A round of generator::file::write.  What it adds to *bff is what its last
\* write took: after one in pieces the message is written once more.
WriteTurn(j) ==
    LET r == job[j] IN
    /\ r.op \in {"write", "append"} /\ r.state = "running"
    /\ \/ r.data = 0 /\ r.done >= Length /\ Resolved(j, FALSE)
       \/ /\ r.done < Length
          /\ \E n \in 1..Length - r.data :
                LET whole == r.data + n = Length IN
                Writes(j, SubSeq(Message(j), r.data + 1, r.data + n),
                       [r EXCEPT !.data   = IF whole THEN 0 ELSE @ + n,
                                 !.done   = IF whole THEN @ + n ELSE @,
                                 !.rounds = IF whole THEN @ + 1 ELSE @,
                                 !.pieces = @ \/ n < Length])
       \/ r.done < Length /\ Resolved(j, TRUE)

\* stream::pipe: a unit is read, and then written.
CopyTurn(j) ==
    LET r == job[j] IN
    /\ Running(j, "copy")
    /\ \/ /\ r.held = Missing /\ Left(j)
          /\ Becomes(j, [r EXCEPT !.held = Unit(j), !.pos = @ + 1], {})
          /\ UNCHANGED <<folder, text>>
       \/ r.held # Missing /\ Writes(j, <<r.held>>, [r EXCEPT !.held = Missing])
       \/ r.held = Missing /\ ~Left(j) /\ Resolved(j, FALSE)
       \/ (r.held # Missing \/ Left(j)) /\ Resolved(j, TRUE)

Present == {p \in Names : Exists(p)}

ListTurn(j, there) ==
    /\ Running(j, "list")
    /\ Becomes(j, Ended(IF there THEN "resolved" ELSE "rejected"), {})
    /\ UNCHANGED <<folder, text>>

\* The first readdir() takes the names there are; each turn tells one.
IterateTurn(j) ==
    LET r     == job[j]
        names == IF r.held = Missing THEN Present ELSE r.held
    IN  /\ Running(j, "iterate")
        /\ \/ \E p \in names : Becomes(j, [r EXCEPT !.held = names \ {p}], {})
           \/ names = {} /\ Becomes(j, Ended("resolved"), {})
        /\ UNCHANGED <<folder, text>>

Turn(j) ==
    \/ ReadTurn(j) \/ WriteTurn(j) \/ CopyTurn(j) \/ IterateTurn(j)
    \/ \E there \in BOOLEAN : ListTurn(j, there)

-----------------------------------------------------------------------------
Next ==
    \/ \E j \in Jobs : Turn(j) \/ List(j) \/ \E there \in BOOLEAN : Iterate(j, there)
    \/ \E j \in Jobs, p \in Names : Read(j, p) \/ Write(j, p) \/ AppendTo(j, p)
    \/ \E j \in Jobs, p, q \in Names : Copy(j, p, q)
    \/ \E p \in Names : Create(p) \/ Remove(p)
    \/ \E p, q \in Names : Rename(p, q)

Spec == Init /\ [][Next]_vars

-----------------------------------------------------------------------------
(* What becomes of a file that nobody else changes meanwhile: a read has   *)
(* its text up to where it is, and all of it when it is resolved; a write  *)
(* makes it the message, an append adds the message, as often as it took   *)
(* rounds, of which the last may have failed; and a copy, its source.      *)
ReadSound(r) ==
    /\ r.acc = SubSeq(text[r.src], 1, r.pos)
    /\ r.state = "resolved" /\ ~r.failed => r.pos = Len(text[r.src])

Repeated(m, n) == [k \in 1..n |-> m[1 + ((k - 1) % Length)]]

WriteSound(j, r) ==
    /\ text[r.des] = r.base \o Repeated(Message(j), r.rounds * Length + r.data)
    /\ r.state = "resolved" /\ ~r.failed => r.done >= Length /\ r.rounds >= 1
    /\ ~r.pieces => r.rounds <= 1 /\ r.done = r.rounds * Length

CopySound(r) ==
    /\ text[r.des] = SubSeq(text[r.src], 1, r.at)
    /\ r.state = "resolved" /\ ~r.failed => text[r.des] = text[r.src]

FilesKept ==
    \A j \in Jobs :
        LET r == job[j] IN
        r.calm /\ r.state \in {"running", "resolved"} =>
            /\ r.op = "read" => ReadSound(r)
            /\ r.op \in {"write", "append"} => WriteSound(j, r)
            /\ r.op = "copy" => CopySound(r)
=============================================================================
