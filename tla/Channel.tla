------------------------------- MODULE Channel -------------------------------
(***************************************************************************)
(* channel_t of channel.h: a queue behind a mutex_t, written and read by   *)
(* the threads of a process.  empty() and size() do not take the mutex.    *)
(*                                                                         *)
(* Operators whose name starts with Bad are the definition that follows    *)
(* them with one plausible mistake in it; no specification uses them.      *)
(***************************************************************************)
EXTENDS Naturals, Sequences

CONSTANTS
    Threads,
    Nil,
    Values,         \* V
    Limit           \* NODE::limit, 0 for none

ASSUME ChannelAssumption == Nil \notin Threads /\ Limit \in Nat

VARIABLES
    line,           \* NODE::queue
    held,           \* the thread inside NODE::mut, or Nil
    call,           \* what each thread is doing in the channel
    accepted,       \* history: the values pushed, in order
    taken           \* history: the values read or cleared away, in order

chVars == <<line, held, call, accepted, taken>>

\* Between two calls, with what the last one returned.
Idle(n) == [op |-> "idle", rest |-> <<>>, n |-> n]

ChannelInit ==
    /\ line = <<>> /\ held = Nil
    /\ call = [t \in Threads |-> Idle(0)]
    /\ accepted = <<>> /\ taken = <<>>

-----------------------------------------------------------------------------
(* mutex_t: lock() comes back when nobody else is inside.                  *)

BadEnter(t, c) ==
    /\ call[t].op = "idle"
    /\ held' = t
    /\ call' = [call EXCEPT ![t] = c]

Enter(t, c) ==
    /\ held = Nil
    /\ call[t].op = "idle"
    /\ held' = t
    /\ call' = [call EXCEPT ![t] = c]

Leave(t, result) ==
    /\ held' = Nil
    /\ call' = [call EXCEPT ![t] = Idle(result)]

Inside(t, op) == held = t /\ call[t].op = op

-----------------------------------------------------------------------------
(* write( args... ): pushes until one does not fit; the answer is how many *)
(* went in.                                                                *)

Full == Limit > 0 /\ Len(line) >= Limit

Write(t, args) ==
    /\ Enter(t, [op |-> "write", rest |-> args, n |-> 0])
    /\ UNCHANGED <<line, accepted, taken>>

Push(t) ==
    LET c == call[t] IN
    /\ Inside(t, "write") /\ c.rest # <<>> /\ ~Full
    /\ line' = Append(line, Head(c.rest))
    /\ accepted' = Append(accepted, Head(c.rest))
    /\ call' = [call EXCEPT ![t] = [op |-> "write", rest |-> Tail(c.rest), n |-> c.n + 1]]
    /\ UNCHANGED <<held, taken>>

Written(t) ==
    /\ Inside(t, "write")
    /\ call[t].rest = <<>> \/ Full
    /\ Leave(t, call[t].n)
    /\ UNCHANGED <<line, accepted, taken>>

-----------------------------------------------------------------------------
(* read(): the whole queue is copied out, then cleared.  clear() drops it. *)

Read(t) ==
    /\ Enter(t, [op |-> "read", rest |-> <<>>, n |-> 0])
    /\ UNCHANGED <<line, accepted, taken>>

Copied(t) ==
    /\ Inside(t, "read") /\ line # <<>>
    /\ call' = [call EXCEPT ![t] = [op |-> "empty", rest |-> line, n |-> 0]]
    /\ UNCHANGED <<line, held, accepted, taken>>

NoneRead(t) ==
    /\ Inside(t, "read") /\ line = <<>>
    /\ Leave(t, 0)
    /\ UNCHANGED <<line, accepted, taken>>

Emptied(t) ==
    /\ Inside(t, "empty")
    /\ line' = <<>>
    /\ taken' = taken \o call[t].rest
    /\ Leave(t, Len(call[t].rest))
    /\ UNCHANGED accepted

Clear(t) ==
    /\ held = Nil /\ call[t].op = "idle"
    /\ taken' = taken \o line
    /\ line' = <<>>
    /\ UNCHANGED <<held, call, accepted>>

ChannelStep(t) == Push(t) \/ Written(t) \/ Copied(t) \/ NoneRead(t) \/ Emptied(t)

-----------------------------------------------------------------------------
\* Every value that was accepted is read or cleared exactly once, in the order
\* in which it was accepted, and the limit is kept, whichever threads write,
\* read and clear at the same time (channel.h 40-62).
Conserved ==
    /\ accepted = taken \o line
    /\ Limit > 0 => Len(line) <= Limit
    /\ \A t \in Threads : call[t].op = "empty" => call[t].rest = line
=============================================================================
