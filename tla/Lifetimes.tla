------------------------------ MODULE Lifetimes ------------------------------
(***************************************************************************)
(* The life of a stream, a file_t (posix/file.h) or a socket_t             *)
(* (posix/socket.h, the same code): its state bits, its events, the copies *)
(* that share its NODE, and what stream.h builds on it: pipe(), unpipe(),  *)
(* resolve() and readable().                                               *)
(*                                                                         *)
(* A chunk is what one read takes.  The listener of onDrain may call the   *)
(* stream back; an event that is being emitted takes no second emission    *)
(* (event.h).                                                              *)
(***************************************************************************)
EXTENDS Integers, FiniteSets

CONSTANTS
    MaxChunks,      \* bound on the chunks of the source
    MaxCalls,       \* bound on the calls of the program that change the state
    Captures        \* may the listener of onData hold the stream itself?

VARIABLES
    bits,           \* NODE::state
    copies,         \* who has the stream: "program", "task", "listener"
    ears,           \* the events of the stream have their listeners
    drains, closes, \* how often onDrain and onClose were heard
    source,         \* [came, read: chunks; ended]
    borrow,         \* the chunk in NODE::borrow, 0 for none
    pipe,           \* stream::pipe(): "none", "poll", "run"
    heard,          \* the chunks onData passed on
    promise, got,   \* of resolve(): how it stands, what it was given
    want,           \* of readable(): how it stands
    calls           \* the program's calls so far

vars == <<bits, copies, ears, drains, closes, source, borrow, pipe, heard,
          promise, got, want, calls>>

DISABLE == {"CLOSE", "KILL", "STOP"}

IsClosed == bits \cap DISABLE # {}

\* What the calls below work on: the bits, the events and who listens.
Node == [bits |-> bits, ears |-> ears, drains |-> drains, closes |-> closes]

Becomes(n) ==
    /\ bits' = n.bits /\ ears' = n.ears
    /\ drains' = n.drains /\ closes' = n.closes
    /\ IF promise = "pending" /\ n.drains > drains
       THEN promise' = "resolved" /\ got' = heard'
       ELSE UNCHANGED <<promise, got>>

-----------------------------------------------------------------------------
(* The calls: first what they do where nobody hears onDrain, then with a   *)
(* listener of it that makes the call r, to which the event is in use.     *)

With(n, bit) == [n EXCEPT !.bits = @ \cup {bit}]

Resumed(n) == [n EXCEPT !.bits = @ \ {"STOP"}]

Reused(n, mode) ==
    [n EXCEPT !.bits = IF mode THEN @ \cup {"REUSE"} ELSE @ \ {"REUSE"}]

\* A free stream stays closed; to close one forgets the other bits.
SetClose(n) == IF "KILL" \in n.bits THEN n ELSE [n EXCEPT !.bits = {"CLOSE"}]

\* free() does nothing while a stopped stream has another copy.
Held(n, shared) == ("STOP" \in n.bits /\ shared) \/ "KILL" \in n.bits

Gone(n) == [n EXCEPT !.ears = FALSE, !.closes = @ + 1]

QuietFree(n, shared) == IF Held(n, shared) THEN n ELSE Gone(With(n, "KILL"))

QuietClose(n, shared) ==
    IF n.bits \cap (DISABLE \cup {"REUSE"}) # {} THEN n
    ELSE QuietFree(SetClose(n), shared)

Calls == {"stop", "resume", "close", "free", "reuse", "no reuse"}

Quiet(n, c, shared) ==
    CASE c = "stop"     -> With(n, "STOP")
      [] c = "resume"   -> Resumed(n)
      [] c = "close"    -> QuietClose(n, shared)
      [] c = "free"     -> QuietFree(n, shared)
      [] c = "reuse"    -> Reused(n, TRUE)
      [] c = "no reuse" -> Reused(n, FALSE)
      [] c = "none"     -> n

\* After free() nobody listens.
Drained(n, r, shared) ==
    IF n.ears THEN Quiet([n EXCEPT !.drains = @ + 1], r, shared) ELSE n

Stopped(n, r, shared) ==
    IF "STOP" \in n.bits THEN n ELSE With(Drained(n, r, shared), "STOP")

Freed(n, r, shared) ==
    IF Held(n, shared) THEN n
    ELSE LET k == With(n, "KILL")
         IN  Gone(IF k.bits \cap {"CLOSE", "STOP"} # {} THEN k ELSE Drained(k, r, shared))

Shut(n, r, shared) ==
    IF n.bits \cap DISABLE # {} THEN n
    ELSE LET m == Drained(n, r, shared)
         IN  IF "REUSE" \in m.bits THEN m ELSE QuietFree(SetClose(m), shared)

Call(n, c, r, shared) ==
    CASE c = "stop"  -> Stopped(n, r, shared)
      [] c = "free"  -> Freed(n, r, shared)
      [] c = "close" -> Shut(n, r, shared)
      [] OTHER       -> Quiet(n, c, shared)

Shared == Cardinality(copies) > 1

Outcome(c, r) == Call(Node, c, r, Shared)

\* A copy goes: ~file_t(), and onData with what its listener holds when the
\* stream is freed.
Released(who, n) ==
    LET others == Cardinality(who) > 1
    IN  IF others /\ n.bits \cap DISABLE = {} THEN n
        ELSE Freed(n, "none", others)

Hold(S, n) == copies' = IF n.ears THEN S ELSE S \ {"listener"}

-----------------------------------------------------------------------------
Init ==
    /\ bits = {"OPEN"} /\ ears = TRUE /\ drains = 0 /\ closes = 0
    /\ copies \in {{"program"}} \cup {{"program", "listener"} : c \in Captures \cap {TRUE}}
    /\ source = [came |-> 0, read |-> 0, ended |-> FALSE]
    /\ borrow = 0 /\ pipe = "none" /\ heard = 0
    /\ promise = "none" /\ got = -1 /\ want = "none"
    /\ calls = 0

Counted == calls < MaxCalls /\ calls' = calls + 1

Program == "program" \in copies

(* The other end.                                                          *)
Comes ==
    /\ ~source.ended /\ source.came < MaxChunks
    /\ source' = [source EXCEPT !.came = @ + 1]
    /\ UNCHANGED <<bits, copies, ears, drains, closes, borrow, pipe, heard,
                   promise, got, want, calls>>

EndsSource ==
    /\ ~source.ended
    /\ source' = [source EXCEPT !.ended = TRUE]
    /\ UNCHANGED <<bits, copies, ears, drains, closes, borrow, pipe, heard,
                   promise, got, want, calls>>

(* The program.                                                            *)
Calls_ ==
    /\ Program /\ Counted
    /\ \E c \in Calls, r \in Calls \cup {"none"} :
        LET n == Outcome(c, r) IN
        /\ heard' = heard
        /\ Becomes(n) /\ Hold(copies, n)
    /\ UNCHANGED <<source, borrow, pipe, want>>

\* stream::pipe( fa ): nothing of a stream that is closed or stopped.  Its
\* task starts with resume().
StartPipe ==
    /\ Program /\ pipe = "none" /\ ~IsClosed /\ want # "pending"
    /\ pipe' = "run" /\ copies' = copies \cup {"task"}

Pipe ==
    /\ StartPipe
    /\ UNCHANGED <<bits, ears, drains, closes, source, borrow, heard, promise,
                   got, want, calls>>

Resolve ==
    /\ promise = "none"
    /\ IF IsClosed
       THEN /\ Program /\ promise' = "rejected" /\ UNCHANGED <<pipe, copies>>
       ELSE /\ StartPipe /\ promise' = "pending"
    /\ UNCHANGED <<bits, ears, drains, closes, source, borrow, heard, got,
                   want, calls>>

\* readable( fa, 0 ), of a stream nobody reads.
Readable ==
    /\ Program /\ want = "none" /\ pipe = "none" /\ ~IsClosed
    /\ want' = "pending"
    /\ UNCHANGED <<bits, copies, ears, drains, closes, source, borrow, pipe,
                   heard, promise, got, calls>>

Drop ==
    /\ Program
    /\ LET n == Released(copies, Node) IN
        /\ heard' = heard
        /\ Becomes(n) /\ Hold(copies \ {"program"}, n)
    /\ UNCHANGED <<source, borrow, pipe, want, calls>>

-----------------------------------------------------------------------------
(* A turn of the task of readable(): the poll ends it when the stream is   *)
(* closed, and then nobody answers.                                        *)

ReadableTurn ==
    /\ want = "pending"
    /\ \/ IsClosed /\ want' = "lost" /\ UNCHANGED <<source, borrow>>
       \/ /\ ~IsClosed /\ borrow # 0
          /\ want' = "resolved" /\ UNCHANGED <<source, borrow>>
       \/ /\ ~IsClosed /\ borrow = 0 /\ source.read < source.came
          /\ source' = [source EXCEPT !.read = @ + 1]
          /\ borrow' = source.read + 1
          /\ want' = "resolved"
       \/ /\ ~IsClosed /\ borrow = 0 /\ source.read = source.came /\ source.ended
          /\ want' = "rejected" /\ UNCHANGED <<source, borrow>>
    /\ UNCHANGED <<bits, copies, ears, drains, closes, pipe, heard, promise,
                   got, calls>>

(* A turn of the task of pipe(): a chunk, which waits in the borrow or is  *)
(* read, goes to onData, whose listener may make a call.                   *)

Nothing == borrow = 0 /\ source.read = source.came

PipeHears ==
    /\ ~IsClosed /\ ~Nothing
    /\ heard' = heard + 1
    /\ borrow' = 0
    /\ source' = IF borrow # 0 THEN source ELSE [source EXCEPT !.read = @ + 1]
    /\ pipe' = "run"
    /\ \/ UNCHANGED <<bits, copies, ears, drains, closes, promise, got, calls>>
       \/ /\ Counted
          /\ \E c \in Calls : LET n == Outcome(c, "none") IN
                Becomes(n) /\ Hold(copies, n)

PipeBlocked ==
    /\ ~IsClosed /\ Nothing /\ ~source.ended
    /\ pipe' = "poll"
    /\ UNCHANGED <<bits, copies, ears, drains, closes, source, borrow, heard,
                   promise, got, calls>>

\* The end of the source stops the stream; close() then does nothing, and the
\* task lets go of it.
PipeEnds ==
    /\ IsClosed \/ (Nothing /\ source.ended)
    /\ \E r \in Calls \cup {"none"} :
        LET m == IF IsClosed THEN Node ELSE Outcome("stop", r)
            n == Released(copies, m)
        IN  /\ heard' = heard
            /\ Becomes(n) /\ Hold(copies \ {"task"}, n)
    /\ pipe' = "none"
    /\ UNCHANGED <<source, borrow, calls>>

PipeTurn ==
    /\ pipe = "run" \/ (pipe = "poll" /\ (IsClosed \/ ~Nothing \/ source.ended))
    /\ PipeHears \/ PipeBlocked \/ PipeEnds
    /\ UNCHANGED want

-----------------------------------------------------------------------------
Next ==
    \/ Comes \/ EndsSource
    \/ Calls_ \/ Pipe \/ Resolve \/ Readable \/ Drop
    \/ ReadableTurn \/ PipeTurn

Spec == Init /\ [][Next]_vars

FairSpec == Spec /\ WF_vars(PipeTurn) /\ WF_vars(ReadableTurn)

-----------------------------------------------------------------------------
(* A stream that is freed told its program so, once, after onDrain; what   *)
(* the source sent is heard, or is still to be read; a promise of          *)
(* resolve() is pending only while the stream is open, and has everything  *)
(* when the program made no call.                                          *)
ClosedOnce ==
    /\ closes = (IF "KILL" \in bits THEN 1 ELSE 0)
    /\ closes = 1 => drains >= 1
    /\ heard + (IF borrow # 0 THEN 1 ELSE 0) = source.read
    /\ promise = "pending" => ~IsClosed
    /\ promise = "resolved" /\ calls = 0 => got = source.came

(* A stream that nobody has left and whose source has ended is closed.     *)
LeftAtEnd == source.ended /\ pipe # "none" /\ ~Program

EndIsClosed == LeftAtEnd ~> closes = 1
=============================================================================
