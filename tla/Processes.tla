------------------------------ MODULE Processes ------------------------------
(***************************************************************************)
(* Child processes: popen_t and cluster_t (posix/popen.h, posix/cluster.h) *)
(* with the two coroutines that popen::add and cluster::add hang on the    *)
(* pipes of the child (popen.h, cluster.h) and the promise of resolve().   *)
(* One node: what a parent keeps of a child (popen or cluster), or what a  *)
(* cluster child keeps of its own standard streams.                        *)
(*                                                                         *)
(* The node lives as long as a handle of the program or a coroutine that   *)
(* has not ended; with it goes the child (~NODE).  A chunk is what one     *)
(* read takes.                                                             *)
(*                                                                         *)
(* Operators whose name starts with Bad are the definition that follows    *)
(* them with one plausible mistake in it; no specification uses them.      *)
(***************************************************************************)
EXTENDS Integers, Sequences

CONSTANTS MaxChunks     \* bound on the chunks of a pipe

VARIABLES
    role,           \* "popen", "cluster" or "child", once the node is made
    proc,           \* the child: "none", "runs", "zombie", "reaped", "spared"
    pipe,           \* pipe[s]: [came, read: chunks, open: the writer has it]
    stopped,        \* the files that were stopped
    reader,         \* the coroutine of a pipe: "none", "poll", "next", "done"
    state,          \* NODE::state
    held,           \* the program has a handle
    heard,          \* the chunks that onData passed on, in order
    drains, closes, \* how often onDrain and onClose were emitted
    answer,         \* how many chunks the promise of resolve() has, -1 for none
    asked           \* history: the program closed the node or let go of it

vars == <<role, proc, pipe, stopped, reader, state, held, heard, drains,
          closes, answer, asked>>

Streams == {"out", "err"}

Init ==
    /\ role = "none" /\ proc = "none"
    /\ pipe = [s \in Streams |-> [came |-> 0, read |-> 0, open |-> FALSE]]
    /\ stopped = Streams
    /\ reader = [s \in Streams |-> "none"]
    /\ state = {"CLOSE"} /\ held = FALSE
    /\ heard = <<>> /\ drains = 0 /\ closes = 0 /\ answer = -1
    /\ asked = FALSE

-----------------------------------------------------------------------------
(* The child, or whoever is at the other end.                              *)

Writes(s) ==
    /\ pipe[s].open /\ pipe[s].came < MaxChunks
    /\ pipe' = [pipe EXCEPT ![s].came = @ + 1]
    /\ UNCHANGED <<role, proc, stopped, reader, state, held, heard, drains, closes, answer, asked>>

ClosesPipe(s) ==
    /\ pipe[s].open
    /\ pipe' = [pipe EXCEPT ![s].open = FALSE]
    /\ UNCHANGED <<role, proc, stopped, reader, state, held, heard, drains, closes, answer, asked>>

Shut(p) == [s \in Streams |-> [p[s] EXCEPT !.open = FALSE]]

Exits ==
    /\ proc = "runs"
    /\ proc' = "zombie" /\ pipe' = Shut(pipe)
    /\ UNCHANGED <<role, stopped, reader, state, held, heard, drains, closes, answer, asked>>

-----------------------------------------------------------------------------
(* _init_() and add(): fork, or the streams of the process itself.         *)

Made(r, ss) ==
    /\ role' = r /\ held' = TRUE
    /\ state' = {"OPEN"}
    /\ stopped' = Streams \ ss
    /\ pipe' = [s \in Streams |-> [pipe[s] EXCEPT !.open = s \in ss]]
    /\ reader' = [s \in Streams |-> IF s \in ss THEN "poll" ELSE "none"]
    /\ UNCHANGED <<heard, drains, closes, answer, asked>>

Spawn ==
    /\ role = "none"
    /\ Made("popen", Streams)
    /\ proc' = "runs"

\* fork() failed: add() hands back a node without pipes, and no error.
SpawnFails ==
    /\ role = "none"
    /\ role' = "popen" /\ held' = TRUE
    /\ UNCHANGED <<proc, pipe, stopped, reader, state, heard, drains, closes, answer, asked>>

\* In a cluster child the node is about stdin, and only that is read; what it
\* has of stderr stays open for ever.
SpawnCluster ==
    /\ role = "none"
    /\ \/ Made("cluster", Streams) /\ proc' = "runs"
       \/ Made("child", {"out"}) /\ proc' = "none"

-----------------------------------------------------------------------------
(* The life of the node.                                                   *)

\* is_alive(): a child that is not reaped can be signalled.
PopenAlive == proc \in {"runs", "zombie"} /\ stopped # Streams

ClusterAlive ==
    IF role = "child" THEN TRUE
    ELSE proc \in {"runs", "zombie"} /\ stopped # Streams

IsClosed ==
    \/ state \cap {"CLOSE", "KILL"} # {}
    \/ ~(IF role = "popen" THEN PopenAlive ELSE ClusterAlive)
    \/ "out" \in stopped

\* free(), with what was heard last.  The promise takes what onDrain finds.
BadFreed(st, h) ==
    /\ state' = st \cup {"KILL"}
    /\ closes' = closes + 1
    /\ drains' = IF "CLOSE" \in st THEN drains ELSE drains + 1
    /\ answer' = IF "CLOSE" \notin st /\ answer = -1 THEN Len(h) ELSE answer

Freed(st, h) ==
    IF "KILL" \in st
    THEN state' = st /\ UNCHANGED <<closes, drains, answer>>
    ELSE /\ state' = st \cup {"KILL"}
         /\ closes' = closes + 1
         /\ drains' = IF "CLOSE" \in st THEN drains ELSE drains + 1
         /\ answer' = IF "CLOSE" \notin st /\ answer = -1 THEN Len(h) ELSE answer

\* close(): onDrain, then free() of a node whose state is CLOSE.
Shutting(h) ==
    IF state \cap {"CLOSE", "KILL"} # {}
    THEN UNCHANGED <<state, closes, drains, answer>>
    ELSE /\ state' = {"CLOSE", "KILL"}
         /\ drains' = drains + 1 /\ closes' = closes + 1
         /\ answer' = IF answer = -1 THEN Len(h) ELSE answer

Close ==
    /\ held /\ Shutting(heard)
    /\ asked' = TRUE
    /\ UNCHANGED <<role, proc, pipe, stopped, reader, held, heard>>

\* The last handle of the program goes.  ~popen_t() frees the node when no
\* coroutine has it, or when it counts as closed already.
Attended == \E s \in Streams : reader[s] \in {"poll", "next"}

DropHandle ==
    /\ held
    /\ held' = FALSE /\ asked' = TRUE
    /\ IF Attended /\ ~IsClosed THEN UNCHANGED <<state, closes, drains, answer>>
       ELSE Freed(state, heard)
    /\ UNCHANGED <<role, proc, pipe, stopped, reader, heard>>

\* ~NODE(): SIGKILL and one waitpid(), which may come before the child is
\* dead; then nobody waits for it again.  A cluster child kills nobody.
Destroy ==
    /\ role # "none" /\ ~held /\ ~Attended /\ proc \in {"runs", "zombie"}
    /\ \/ proc' = "reaped"
       \/ proc = "runs" /\ proc' = "spared"
    /\ pipe' = Shut(pipe)
    /\ UNCHANGED <<role, stopped, reader, state, held, heard, drains, closes, answer, asked>>

-----------------------------------------------------------------------------
(* A turn of a coroutine.                                                  *)

Waiting(s) == reader[s] = "poll" /\ pipe[s].open /\ pipe[s].read = pipe[s].came

\* The node is closed: the coroutine frees it and ends.
Leaves(s) ==
    /\ IsClosed
    /\ reader' = [reader EXCEPT ![s] = "done"]
    /\ Freed(state, heard)
    /\ UNCHANGED <<pipe, stopped, heard, asked>>

\* A chunk for onDout or onDerr and for onData, whose listener may close.
Hears(s) ==
    /\ ~IsClosed /\ s \notin stopped /\ pipe[s].read < pipe[s].came
    /\ pipe' = [pipe EXCEPT ![s].read = @ + 1]
    /\ heard' = Append(heard, <<s, pipe[s].read + 1>>)
    /\ reader' = [reader EXCEPT ![s] = "next"]
    /\ \/ UNCHANGED <<state, closes, drains, answer, asked>>
       \/ Shutting(heard') /\ asked' = TRUE
    /\ UNCHANGED stopped

Blocked(s) ==
    /\ ~IsClosed /\ s \notin stopped
    /\ pipe[s].open /\ pipe[s].read = pipe[s].came
    /\ reader' = [reader EXCEPT ![s] = "poll"]
    /\ UNCHANGED <<pipe, stopped, state, heard, closes, drains, answer, asked>>

BadEnds(s) ==
    /\ ~IsClosed /\ ~pipe[s].open /\ pipe[s].read = pipe[s].came
    /\ reader' = [reader EXCEPT ![s] = "poll"]
    /\ UNCHANGED <<pipe, stopped, state, heard, closes, drains, answer, asked>>

\* The end of the pipe stops the file and ends the whole node, whatever the
\* other pipe still holds.
Ends(s) ==
    /\ ~IsClosed /\ ~pipe[s].open /\ pipe[s].read = pipe[s].came
    /\ stopped' = stopped \cup {s}
    /\ reader' = [reader EXCEPT ![s] = "done"]
    /\ Freed(state, heard)
    /\ UNCHANGED <<pipe, heard, asked>>

Reads(s) ==
    /\ reader[s] \in {"poll", "next"} /\ ~Waiting(s)
    /\ Leaves(s) \/ Hears(s) \/ Blocked(s) \/ Ends(s)
    /\ UNCHANGED <<role, proc, held>>

-----------------------------------------------------------------------------
Next ==
    \/ Spawn \/ SpawnFails \/ SpawnCluster \/ Exits
    \/ \E s \in Streams : Writes(s) \/ ClosesPipe(s) \/ Reads(s)
    \/ Close \/ DropHandle \/ Destroy

Spec == Init /\ [][Next]_vars

-----------------------------------------------------------------------------
\* The numbers of the chunks of a pipe that were heard.
Of(s) == {heard[i][2] : i \in {k \in DOMAIN heard : heard[k][1] = s}}

Complete(s) == ~pipe[s].open /\ Of(s) = 1..pipe[s].came

\* A program hears of each pipe what was written to it, in order, then onDrain
\* once, and onClose once; the promise has all that was heard; and the node
\* closes of itself only when one pipe has ended and was heard to its end.
Told ==
    /\ \A s \in Streams : Of(s) = 1..pipe[s].read
    /\ \A i, j \in DOMAIN heard :
          i < j /\ heard[i][1] = heard[j][1] => heard[i][2] < heard[j][2]
    /\ closes <= 1 /\ drains <= 1
    /\ closes = 1 /\ reader # [s \in Streams |-> "none"] => drains = 1
    /\ answer # -1 => answer = Len(heard)
    /\ closes = 1 /\ ~asked => \E s \in Streams : Complete(s)

\* The child is killed only after the program heard that the node is closed.
KilledLast == proc = "reaped" \/ proc = "spared" => closes = 1

(* The end of a pipe that a coroutine reads is heard of: the node closes.   *)
EndsHeard ==
    \A s \in Streams : (reader[s] # "none" /\ ~pipe[s].open) ~> closes = 1
=============================================================================
