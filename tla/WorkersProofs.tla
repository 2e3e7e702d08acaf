---------------------------- MODULE WorkersProofs ----------------------------
(***************************************************************************)
(* Proofs about the channel and the workers, for any number of workers,    *)
(* any limit and any batches.                                              *)
(***************************************************************************)
EXTENDS MCWorkers, SequenceTheorems, TLAPS

-----------------------------------------------------------------------------
(* The channel.                                                            *)

Call == [op : {"idle", "write", "read", "empty"}, rest : Seq(Values), n : Nat]

ChannelTypeOK ==
    /\ line \in Seq(Values) /\ accepted \in Seq(Values) /\ taken \in Seq(Values)
    /\ held \in Threads \cup {Nil}
    /\ call \in [Threads -> Call]

\* Whoever is in the middle of a call is the one inside the mutex.
OneInside == \A t \in Threads : call[t].op # "idle" => held = t

ChInv == ChannelTypeOK /\ OneInside /\ Conserved

\* A call that waits for the mutex leaves the queue alone.
LEMMA EnterKeeps ==
    ASSUME ChInv, NEW t \in Threads, NEW c \in Call, c.op \in {"write", "read"},
           Enter(t, c), UNCHANGED <<line, accepted, taken>>
    PROVE  ChInv'
<1>. USE DEF ChInv, ChannelTypeOK
<1>1. ChannelTypeOK'
    BY DEF Enter
<1>2. \A u \in Threads : call[u].op = "idle"
    BY ChannelAssumption DEF OneInside, Enter
<1>3. OneInside'
    BY <1>2 DEF OneInside, Enter
<1>4. Conserved'
    BY <1>2 DEF Conserved, Enter
<1>. QED
    BY <1>1, <1>3, <1>4

\* A value moves from the arguments of the writer to the end of the queue.
LEMMA PushKeeps ==
    ASSUME ChInv, NEW t \in Threads, Push(t)
    PROVE  ChInv'
<1>. DEFINE c == call[t]
            x == Head(c.rest)
<1>1. c \in Call /\ c.rest \in Seq(Values) /\ c.rest # <<>> /\ c.n \in Nat
    BY DEF ChInv, ChannelTypeOK, Call, Push
<1>2. x \in Values /\ Tail(c.rest) \in Seq(Values)
    BY <1>1, HeadTailProperties
<1>3. line' = Append(line, x) /\ accepted' = Append(accepted, x) /\ taken' = taken
    BY DEF Push
<1>4. line' \in Seq(Values) /\ accepted' \in Seq(Values) /\ Len(line') = Len(line) + 1
    BY <1>2, <1>3 DEF ChInv, ChannelTypeOK
<1>5. call' \in [Threads -> Call] /\ \A u \in Threads : call'[u].op = call[u].op
    <2>. DEFINE d == [op |-> "write", rest |-> Tail(c.rest), n |-> c.n + 1]
    <2>1. call \in [Threads -> Call]
        BY DEF ChInv, ChannelTypeOK
    <2>2. c.op = "write"
        BY DEF Push, Inside
    <2>3. call' = [call EXCEPT ![t] = d]
        BY DEF Push
    <2>4. d \in Call
        BY <1>1, <1>2 DEF Call
    <2>. HIDE DEF d
    <2>5. d.op = c.op
        BY <2>2 DEF d
    <2>. QED
        BY <2>1, <2>3, <2>4, <2>5
<1>6. ChannelTypeOK'
    BY <1>3, <1>4, <1>5 DEF ChInv, ChannelTypeOK, Push
<1>7. OneInside'
    BY <1>5 DEF ChInv, OneInside, Push
<1>8. \A u \in Threads : call'[u].op # "empty"
    BY <1>5, ChannelAssumption DEF ChInv, OneInside, Push, Inside
<1>9. Limit > 0 => Len(line') <= Limit
    BY <1>4, ChannelAssumption, LenProperties DEF ChInv, ChannelTypeOK, Push, Full
<1>10. accepted' = taken' \o line'
    <2>1. accepted = taken \o line
        BY DEF ChInv, Conserved
    <2>2. <<x>> \in Seq(Values) /\ taken \in Seq(Values) /\ line \in Seq(Values)
        BY <1>2 DEF ChInv, ChannelTypeOK
    <2>3. taken \o line \in Seq(Values)
        BY <2>2
    <2>4. Append(taken \o line, x) = (taken \o line) \o <<x>> /\ Append(line, x) = line \o <<x>>
        BY <1>2, <2>2, <2>3, AppendIsConcat
    <2>5. (taken \o line) \o <<x>> = taken \o (line \o <<x>>)
        BY <2>2, ConcatAssociative
    <2>. QED
        BY <1>3, <2>1, <2>4, <2>5
<1>. QED
    BY <1>6, <1>7, <1>8, <1>9, <1>10 DEF ChInv, Conserved

\* The end of a call that took nothing.
LEMMA LeaveKeeps ==
    ASSUME ChInv, NEW t \in Threads, NEW n \in Nat, held = t, Leave(t, n),
           UNCHANGED <<line, accepted, taken>>
    PROVE  ChInv'
<1>. USE DEF ChInv, ChannelTypeOK
<1>1. Idle(n) \in Call /\ Idle(n).op = "idle"
    BY DEF Idle, Call
<1>2. ChannelTypeOK'
    BY <1>1 DEF Leave
<1>3. \A u \in Threads : call'[u].op = "idle"
    BY <1>1 DEF OneInside, Leave
<1>. QED
    BY <1>2, <1>3 DEF OneInside, Conserved

\* What read() copied is what it clears.
LEMMA EmptiedKeeps ==
    ASSUME ChInv, NEW t \in Threads, Emptied(t)
    PROVE  ChInv'
<1>. USE DEF ChInv, ChannelTypeOK
<1>1. call[t] \in Call /\ call[t].rest = line /\ held = t
    BY DEF Emptied, Inside, Conserved
<1>2. Len(call[t].rest) \in Nat
    BY <1>1, LenProperties
<1>3. Idle(Len(call[t].rest)) \in Call
    BY <1>2 DEF Idle, Call
<1>4. taken' = taken \o line /\ line' = <<>> /\ accepted' = accepted
    BY <1>1 DEF Emptied
<1>5. taken' \in Seq(Values) /\ line' \in Seq(Values) /\ Len(line') = 0
    BY <1>4, ConcatProperties, EmptySeq
<1>6. ChannelTypeOK'
    BY <1>3, <1>4, <1>5 DEF Emptied, Leave
<1>7. \A u \in Threads : call'[u].op = "idle"
    BY <1>1, <1>3 DEF OneInside, Emptied, Leave, Idle
<1>8. accepted' = taken' \o line'
    BY <1>4, <1>5 DEF Conserved
<1>9. Limit > 0 => Len(line') <= Limit
    BY <1>5, ChannelAssumption
<1>. QED
    BY <1>6, <1>7, <1>8, <1>9 DEF OneInside, Conserved

\* clear() comes when nobody is inside.
LEMMA ClearKeeps ==
    ASSUME ChInv, NEW t \in Threads, Clear(t)
    PROVE  ChInv'
<1>. USE DEF ChInv, ChannelTypeOK
<1>1. taken' = taken \o line /\ line' = <<>> /\ UNCHANGED <<held, call, accepted>>
    BY DEF Clear
<1>2. taken' \in Seq(Values) /\ line' \in Seq(Values) /\ Len(line') = 0
    BY <1>1, ConcatProperties, EmptySeq
<1>3. \A u \in Threads : call[u].op = "idle"
    BY ChannelAssumption DEF OneInside, Clear
<1>4. accepted' = taken' \o line'
    BY <1>1, <1>2 DEF Conserved
<1>5. Limit > 0 => Len(line') <= Limit
    BY <1>2, ChannelAssumption
<1>. QED
    BY <1>1, <1>2, <1>3, <1>4, <1>5 DEF OneInside, Conserved

\* Every step of a thread inside the channel.
LEMMA ChannelStepKeeps ==
    ASSUME ChInv, NEW t \in Threads, ChannelStep(t)
    PROVE  ChInv'
<1>1. CASE Push(t)
    BY <1>1, PushKeeps
<1>2. CASE Written(t)
    <2>1. call[t].n \in Nat
        BY DEF ChInv, ChannelTypeOK, Call
    <2>. QED
        BY <1>2, <2>1, LeaveKeeps DEF Written, Inside
<1>3. CASE Copied(t)
    <2>. USE DEF ChInv, ChannelTypeOK
    <2>1. [op |-> "empty", rest |-> line, n |-> 0] \in Call
        BY DEF Call
    <2>2. ChannelTypeOK'
        BY <1>3, <2>1 DEF Copied
    <2>3. OneInside'
        BY <1>3 DEF Copied, Inside, OneInside
    <2>4. Conserved'
        BY <1>3 DEF Copied, Conserved
    <2>. QED
        BY <2>2, <2>3, <2>4
<1>4. CASE NoneRead(t)
    BY <1>4, LeaveKeeps DEF NoneRead, Inside
<1>5. CASE Emptied(t)
    BY <1>5, EmptiedKeeps
<1>. QED
    BY <1>1, <1>2, <1>3, <1>4, <1>5 DEF ChannelStep

\* A channel is used by the workers and their maker only as it allows.
THEOREM ChannelInvariance == Spec => []ChInv
<1>1. Init => ChInv
    <2>. SUFFICES ASSUME Init PROVE ChInv
        OBVIOUS
    <2>1. line = <<>> /\ accepted = <<>> /\ taken = <<>> /\ held = Nil
        BY DEF Init, ChannelInit
    <2>2. call \in [Threads -> Call] /\ \A t \in Threads : call[t].op = "idle"
        BY DEF Init, ChannelInit, Idle, Call
    <2>3. Len(line) = 0 /\ accepted = taken \o line
        BY <2>1
    <2>. QED
        BY <2>1, <2>2, <2>3, ChannelAssumption
        DEF ChInv, ChannelTypeOK, OneInside, Conserved
<1>2. ChInv /\ [Next]_vars => ChInv'
    <2>. SUFFICES ASSUME ChInv, [Next]_vars PROVE ChInv'
        OBVIOUS
    <2>1. CASE UNCHANGED chVars
        BY <2>1 DEF chVars, ChInv, ChannelTypeOK, OneInside, Conserved
    <2>2. CASE \E t \in Threads : Channelling(t)
        BY <2>2, ChannelStepKeeps DEF Channelling
    <2>3. CASE \E w \in Ws : Turn(w)
        <3>1. PICK w \in Ws : Write(w, Batch(w)) \/ UNCHANGED chVars
            BY <2>3 DEF Turn
        <3>2. CASE Write(w, Batch(w))
            <4>1. [op |-> "write", rest |-> Batch(w), n |-> 0] \in Call
                BY WorkersAssumption DEF Call
            <4>. QED
                BY <3>2, <4>1, WorkersAssumption, EnterKeeps DEF Write
        <3>. QED
            BY <2>1, <3>1, <3>2
    <2>4. CASE MainReads
        <3>1. [op |-> "read", rest |-> <<>>, n |-> 0] \in Call /\ Main \in Threads
            BY WorkersAssumption DEF Call
        <3>. QED
            BY <2>4, <3>1, EnterKeeps, ClearKeeps DEF MainReads, Read
    <2>5. \/ UNCHANGED chVars
          \/ \E t \in Threads : Channelling(t)
          \/ \E w \in Ws : Turn(w)
          \/ MainReads
        BY DEF Next, vars, Freeing, FreeLock, FreeDrop, Work, Start, Stop, Closed,
               End, Make, Made, Await, Drop, Free, ToWait, MainLoop, Check, Delay,
               Epoll
    <2>. QED
        BY <2>1, <2>2, <2>3, <2>4, <2>5
<1>. QED
    BY <1>1, <1>2, PTL DEF Spec

\* Every value accepted is read or cleared once and in order, and the limit is
\* kept, for any number of threads.
THEOREM ChannelConserved == Spec => []Conserved
<1>1. ChInv => Conserved
    BY DEF ChInv
<1>. QED
    BY <1>1, ChannelInvariance, PTL

-----------------------------------------------------------------------------
(* The workers.                                                            *)

At == {"no", "lock", "drop"}

WorkersTypeOK ==
    /\ state \in [Ws -> {"unknown", "open", "kill"}]
    /\ entry \subseteq Ws /\ closure \subseteq Ws /\ krn \subseteq Ws
    /\ handle \subseteq Ws /\ freed \subseteq Ws
    /\ freeing \in [Threads -> [at : At, of : Ws \cup {Nil}]]
    /\ \A t \in Threads : freeing[t].at # "no" => freeing[t].of \in Ws
    /\ pc \in [Ws -> {"none", "start", "run", "ending", "gone"}]
    /\ main \in {"busy", "await", "wait", "done"}

\* A worker's own thread frees that worker, at its end.
OwnEnd ==
    \A t \in Ws : freeing[t].at # "no" => freeing[t].of = t /\ pc[t] = "gone"

\* Before it is made a worker has no part in anything.
Unmade ==
    \A w \in Ws : state[w] = "unknown" =>
        /\ pc[w] = "none" /\ w \notin entry /\ w \notin krn
        /\ freeing[Main].of # w

\* A worker that the maker did not set out to free is marked by its own thread
\* only, and nobody else takes its entry away: what the maker drops the last
\* handle of has no entry any more.
Untouched ==
    \A w \in Ws \ freed :
        /\ freeing[Main].of = w => freeing[Main].at # "drop" /\ w \notin entry
        /\ Running(w) => state[w] = "open"
        /\ freeing[w].at = "lock" => w \in entry
        /\ freeing[w].at = "drop" => w \notin krn
        /\ w \in krn => pc[w] # "none"

IInv ==
    /\ WorkersTypeOK /\ OwnEnd /\ entry = closure /\ Unmade /\ Untouched
    /\ SelfAlive

LEMMA InitIInv == Init => IInv
<1>. SUFFICES ASSUME Init PROVE IInv
    OBVIOUS
<1>. USE DEF Init
<1>1. WorkersTypeOK
    BY DEF WorkersTypeOK, NotFreeing, At
<1>2. OwnEnd /\ Unmade /\ Untouched /\ SelfAlive
    BY WorkersAssumption, ChannelAssumption
    DEF OwnEnd, Unmade, Untouched, SelfAlive, NotFreeing, Running
<1>. QED
    BY <1>1, <1>2 DEF IInv

LEMMA NextIInv == IInv /\ [Next]_vars => IInv'
<1>. SUFFICES ASSUME IInv, [Next]_vars PROVE IInv'
    OBVIOUS
<1>. USE ChannelAssumption, WorkersAssumption
     DEF IInv, WorkersTypeOK, At, NotFreeing, Running
<1>1. CASE UNCHANGED vars
    BY <1>1 DEF vars, wkVars, mainVars, chVars, OwnEnd, Unmade, Untouched, SelfAlive
<1>2. ASSUME NEW t \in Threads, FreeLock(t) PROVE IInv'
    <2>0. PICK w : w = freeing[t].of
        OBVIOUS
    <2>1. /\ w \in Ws /\ freeing[t].at = "lock" /\ Nil \notin Ws /\ Main \notin Ws
          /\ (t \in Ws => w = t /\ pc[w] = "gone") /\ (t \notin Ws => t = Main)
          /\ UNCHANGED <<entry, closure, handle, pc, freed, main>>
        BY <1>2, <2>0 DEF FreeLock, OwnEnd
    <2>2. CASE /\ w \in entry
               /\ state' = [state EXCEPT ![w] = "kill"] /\ krn' = krn \ {w}
               /\ freeing' = [freeing EXCEPT ![t] = [at |-> "drop", of |-> w]]
        <3>0. /\ freeing' \in [Threads -> [at : At, of : Ws \cup {Nil}]]
              /\ freeing'[t].at = "drop" /\ freeing'[t].of = w
              /\ \A u \in Threads \ {t} : freeing'[u] = freeing[u]
            BY <2>1, <2>2
        <3>1. WorkersTypeOK'
            BY <2>1, <2>2, <3>0
        <3>2. OwnEnd'
            BY <2>1, <2>2, <3>0 DEF OwnEnd
        <3>3. Unmade'
            BY <2>1, <2>2, <3>0 DEF OwnEnd, Unmade
        <3>4. Untouched'
            <4>. SUFFICES ASSUME NEW x \in Ws \ freed
                          PROVE  /\ freeing'[Main].of = x => freeing'[Main].at # "drop" /\ x \notin entry'
                                 /\ Running(x)' => state'[x] = "open"
                                 /\ freeing'[x].at = "lock" => x \in entry'
                                 /\ freeing'[x].at = "drop" => x \notin krn'
                                 /\ x \in krn' => pc'[x] # "none"
                BY <2>1 DEF Untouched
            <4>1. /\ freeing[Main].of = x => freeing[Main].at # "drop" /\ x \notin entry
                  /\ Running(x) => state[x] = "open"
                  /\ freeing[x].at = "lock" => x \in entry
                  /\ freeing[x].at = "drop" => x \notin krn
                  /\ x \in krn => pc[x] # "none"
                BY DEF Untouched
            <4>2. CASE x = w
                <5>1. t # Main /\ t = x /\ pc[x] = "gone"
                    BY <2>0, <2>1, <2>2, <4>1, <4>2
                <5>2. freeing'[Main] = freeing[Main]
                    BY <2>1, <3>0, <5>1
                <5>3. freeing'[x].at = "drop" /\ pc' = pc /\ x \notin krn' /\ entry' = entry
                    BY <2>1, <2>2, <3>0, <4>2, <5>1
                <5>. QED
                    BY ONLY <4>1, <5>1, <5>2, <5>3 DEF Running
            <4>3. CASE x # w
                <5>1. /\ freeing'[Main].of = x => freeing'[Main] = freeing[Main]
                      /\ freeing'[x] = freeing[x]
                    BY <2>1, <3>0, <4>3
                <5>2. /\ pc' = pc /\ entry' = entry /\ state'[x] = state[x]
                      /\ x \in krn' <=> x \in krn
                    BY <2>1, <2>2, <4>3
                <5>. QED
                    BY ONLY <4>1, <5>1, <5>2 DEF Running
            <4>. QED
                BY <4>2, <4>3
        <3>5. SelfAlive'
            BY <2>1, <2>2, <3>0 DEF Untouched, SelfAlive
        <3>. QED
            BY <2>1, <3>1, <3>2, <3>3, <3>4, <3>5
    <2>3. CASE /\ w \notin entry /\ UNCHANGED <<state, krn>>
               /\ freeing' = [freeing EXCEPT ![t] = NotFreeing]
        <3>0. /\ freeing' \in [Threads -> [at : At, of : Ws \cup {Nil}]]
              /\ freeing'[t].at = "no" /\ freeing'[t].of = Nil
              /\ \A u \in Threads \ {t} : freeing'[u] = freeing[u]
            BY <2>1, <2>3
        <3>1. WorkersTypeOK'
            BY <2>1, <2>3, <3>0
        <3>2. OwnEnd'
            BY <2>1, <2>3, <3>0 DEF OwnEnd
        <3>3. Unmade'
            BY <2>1, <2>3, <3>0 DEF OwnEnd, Unmade
        <3>4. Untouched'
            BY <2>1, <2>3, <3>0 DEF OwnEnd, Untouched
        <3>5. SelfAlive'
            BY <2>1, <2>3, <3>0 DEF Untouched, SelfAlive
        <3>. QED
            BY <2>1, <3>1, <3>2, <3>3, <3>4, <3>5
    <2>. QED
        BY <1>2, <2>0, <2>1, <2>2, <2>3 DEF FreeLock
<1>3. ASSUME NEW t \in Threads, FreeDrop(t) PROVE IInv'
    <2>0. PICK w : w = freeing[t].of
        OBVIOUS
    <2>1. /\ w \in Ws /\ freeing[t].at = "drop" /\ Nil \notin Ws /\ Main \notin Ws
          /\ (t \in Ws => w = t /\ pc[w] = "gone") /\ (t \notin Ws => t = Main)
          /\ UNCHANGED <<state, krn, handle, pc, freed, main>>
        BY <1>3, <2>0 DEF FreeDrop, mainVars, OwnEnd
    <2>2. /\ entry' = entry \ {w} /\ closure' = closure \ {w}
          /\ freeing' = [freeing EXCEPT ![t] = NotFreeing]
        BY <1>3, <2>0 DEF FreeDrop
    <2>. USE <2>0, <2>1, <2>2
    <2>3. /\ freeing' \in [Threads -> [at : At, of : Ws \cup {Nil}]]
          /\ freeing'[t].at = "no" /\ freeing'[t].of = Nil
          /\ \A u \in Threads \ {t} : freeing'[u] = freeing[u]
        OBVIOUS
    <2>4. WorkersTypeOK'
        BY <2>3
    <2>5. OwnEnd' /\ (entry = closure)'
        BY <2>3 DEF OwnEnd
    <2>6. Unmade'
        BY <2>3 DEF Unmade
    <2>7. Untouched'
        <3>. SUFFICES ASSUME NEW x \in Ws \ freed
                      PROVE  /\ freeing'[Main].of = x => freeing'[Main].at # "drop" /\ x \notin entry'
                             /\ Running(x)' => state'[x] = "open"
                             /\ freeing'[x].at = "lock" => x \in entry'
                             /\ freeing'[x].at = "drop" => x \notin krn'
                             /\ x \in krn' => pc'[x] # "none"
            BY DEF Untouched
        <3>1. /\ freeing[Main].of = x => freeing[Main].at # "drop" /\ x \notin entry
              /\ Running(x) => state[x] = "open"
              /\ freeing[x].at = "lock" => x \in entry
              /\ freeing[x].at = "drop" => x \notin krn
              /\ x \in krn => pc[x] # "none"
            BY DEF Untouched
        <3>2. freeing'[Main].of = x => freeing'[Main] = freeing[Main]
            BY <2>3
        <3>3. CASE x = w
            <4>1. t = x /\ pc[x] = "gone"
                BY <3>1, <3>3
            <4>2. freeing'[x].at = "no" /\ pc' = pc /\ krn' = krn /\ x \notin entry'
                BY <2>3, <3>3, <4>1
            <4>. QED
                BY ONLY <3>1, <3>2, <4>1, <4>2 DEF Running
        <3>4. CASE x # w
            <4>1. freeing'[x] = freeing[x] /\ (x \in entry' <=> x \in entry)
                BY <2>3, <3>4
            <4>. QED
                BY <3>1, <3>2, <4>1
        <3>. QED
            BY <3>3, <3>4
    <2>8. SelfAlive'
        <3>. SUFFICES ASSUME NEW x \in Ws \ freed
                      PROVE  /\ Running(x)' => x \in closure' /\ x \in entry' /\ main' # "done"
                             /\ x \in krn' => Running(x)' \/ freeing'[x].of = x
            BY DEF SelfAlive
        <3>1. /\ Running(x) => x \in closure /\ x \in entry /\ main # "done"
              /\ x \in krn => Running(x) \/ freeing[x].of = x
            BY DEF SelfAlive
        <3>2. CASE x = w
            <4>1. /\ freeing[Main].of = x => freeing[Main].at # "drop"
                  /\ freeing[x].at = "drop" => x \notin krn
                BY DEF Untouched
            <4>2. t = x /\ pc'[x] = "gone"
                BY <3>2, <4>1
            <4>3. x \notin krn'
                BY <3>2, <4>1, <4>2
            <4>. QED
                BY ONLY <4>2, <4>3 DEF Running
        <3>3. CASE x # w
            <4>1. freeing'[x] = freeing[x] /\ (x \in entry' <=> x \in entry)
                  /\ (x \in closure' <=> x \in closure)
                BY <2>3, <3>3
            <4>. QED
                BY <3>1, <4>1
        <3>. QED
            BY <3>2, <3>3
    <2>. QED
        BY <2>4, <2>5, <2>6, <2>7, <2>8
<1>4. ASSUME NEW t \in Threads, Channelling(t) PROVE IInv'
    <2>1. WorkersTypeOK'
        BY <1>4 DEF Channelling, wkVars, mainVars
    <2>2. OwnEnd' /\ (entry = closure)'
        BY <1>4 DEF Channelling, wkVars, mainVars, OwnEnd
    <2>3. Unmade'
        BY <1>4 DEF Channelling, wkVars, mainVars, OwnEnd, Unmade
    <2>4. Untouched'
        BY <1>4 DEF Channelling, wkVars, mainVars, OwnEnd, Unmade, Untouched
    <2>5. SelfAlive'
        BY <1>4 DEF Channelling, wkVars, mainVars, Untouched, SelfAlive
    <2>. QED
        BY <2>1, <2>2, <2>3, <2>4, <2>5
<1>5. ASSUME NEW w \in Ws, Start(w) PROVE IInv'
    <2>1. WorkersTypeOK'
        BY <1>5 DEF Start, mainVars
    <2>2. OwnEnd' /\ (entry = closure)'
        BY <1>5 DEF Start, mainVars, OwnEnd
    <2>3. Unmade'
        BY <1>5 DEF Start, mainVars, OwnEnd, Unmade
    <2>4. Untouched'
        BY <1>5 DEF Start, mainVars, OwnEnd, Unmade, Untouched
    <2>5. SelfAlive'
        BY <1>5 DEF Start, mainVars, Untouched, SelfAlive
    <2>. QED
        BY <2>1, <2>2, <2>3, <2>4, <2>5
<1>6. ASSUME NEW w \in Ws, Turn(w) PROVE IInv'
    <2>1. WorkersTypeOK'
        BY <1>6 DEF Turn, mainVars
    <2>2. OwnEnd' /\ (entry = closure)'
        BY <1>6 DEF Turn, mainVars, OwnEnd
    <2>3. Unmade'
        BY <1>6 DEF Turn, mainVars, OwnEnd, Unmade
    <2>4. Untouched'
        BY <1>6 DEF Turn, mainVars, OwnEnd, Unmade, Untouched
    <2>5. SelfAlive'
        BY <1>6 DEF Turn, mainVars, Untouched, SelfAlive
    <2>. QED
        BY <2>1, <2>2, <2>3, <2>4, <2>5
<1>7. ASSUME NEW w \in Ws, Stop(w) PROVE IInv'
    <2>1. WorkersTypeOK'
        BY <1>7 DEF Stop
    <2>2. OwnEnd' /\ (entry = closure)'
        BY <1>7 DEF Stop, OwnEnd
    <2>3. Unmade'
        BY <1>7 DEF Stop, OwnEnd, Unmade
    <2>4. Untouched'
        BY <1>7 DEF Stop, OwnEnd, Unmade, Untouched
    <2>5. SelfAlive'
        BY <1>7 DEF Stop, Untouched, SelfAlive
    <2>. QED
        BY <2>1, <2>2, <2>3, <2>4, <2>5
<1>8. ASSUME NEW w \in Ws, Closed(w) PROVE IInv'
    <2>1. WorkersTypeOK'
        BY <1>8 DEF Closed, mainVars
    <2>2. OwnEnd' /\ (entry = closure)'
        BY <1>8 DEF Closed, mainVars, OwnEnd
    <2>3. Unmade'
        BY <1>8 DEF Closed, mainVars, OwnEnd, Unmade
    <2>4. Untouched'
        BY <1>8 DEF Closed, mainVars, OwnEnd, Unmade, Untouched
    <2>5. SelfAlive'
        BY <1>8 DEF Closed, mainVars, Untouched, SelfAlive
    <2>. QED
        BY <2>1, <2>2, <2>3, <2>4, <2>5
<1>9. ASSUME NEW w \in Ws, End(w) PROVE IInv'
    <2>1. /\ pc[w] = "ending" /\ pc' = [pc EXCEPT ![w] = "gone"]
          /\ UNCHANGED <<state, entry, closure, krn, handle, freed, main>>
          /\ Main \notin Ws /\ w \in Threads
        BY <1>9 DEF End, mainVars
    <2>2. CASE state[w] # "open" /\ UNCHANGED freeing
        BY <2>1, <2>2 DEF OwnEnd, Unmade, Untouched, SelfAlive
    <2>3. CASE state[w] = "open" /\ freeing' = [freeing EXCEPT ![w] = [at |-> "lock", of |-> w]]
        <3>1. WorkersTypeOK'
            BY <2>1, <2>3
        <3>2. OwnEnd' /\ Unmade'
            BY <2>1, <2>3 DEF OwnEnd, Unmade
        <3>3. Untouched'
            BY <2>1, <2>3 DEF Untouched, SelfAlive
        <3>4. SelfAlive'
            BY <2>1, <2>3 DEF SelfAlive
        <3>. QED
            BY <2>1, <3>1, <3>2, <3>3, <3>4
    <2>. QED
        BY <1>9, <2>2, <2>3 DEF End, FreeTest
<1>10. ASSUME NEW w \in Ws, Made(w),
             main' \in {"busy", "await"}, handle' \subseteq Ws
      PROVE  IInv'
    <2>1. /\ freeing[Main].of = Nil /\ freeing[Main].at = "no" /\ state[w] = "unknown"
          /\ Nil \notin Ws /\ Main \in Threads /\ Main \notin Ws
        BY <1>10 DEF Made, Ready
    <2>2. /\ state' = [state EXCEPT ![w] = "open"]
          /\ entry' = entry \cup {w} /\ closure' = closure \cup {w}
          /\ UNCHANGED krn
        BY <1>10 DEF Made
    <2>3. CASE pc' = [pc EXCEPT ![w] = "start"] /\ UNCHANGED <<freeing, freed>>
        <3>1. WorkersTypeOK' /\ OwnEnd' /\ Unmade'
            BY <1>10, <2>1, <2>2, <2>3 DEF OwnEnd, Unmade
        <3>2. Untouched'
            BY <1>10, <2>1, <2>2, <2>3 DEF OwnEnd, Unmade, Untouched
        <3>3. SelfAlive'
            BY <1>10, <2>1, <2>2, <2>3 DEF SelfAlive
        <3>. QED
            BY <2>2, <3>1, <3>2, <3>3
    <2>4. CASE /\ freeing' = [freeing EXCEPT ![Main] = [at |-> "lock", of |-> w]]
               /\ freed' = freed \cup {w}
               /\ UNCHANGED pc
        <3>1. WorkersTypeOK'
            BY <1>10, <2>1, <2>2, <2>4
        <3>2. OwnEnd'
            BY <1>10, <2>1, <2>2, <2>4, <3>1 DEF OwnEnd
        <3>3. Unmade'
            BY <1>10, <2>1, <2>2, <2>4, <3>1 DEF Unmade
        <3>4. Untouched'
            BY <1>10, <2>1, <2>2, <2>4, <3>1 DEF Untouched
        <3>5. SelfAlive'
            BY <1>10, <2>1, <2>2, <2>4, <3>1 DEF SelfAlive
        <3>. QED
            BY <1>10, <2>1, <2>2, <2>4, <3>1, <3>2, <3>3, <3>4, <3>5
    <2>. QED
        BY <1>10, <2>3, <2>4 DEF Made
<1>11. ASSUME NEW w \in Ws, Make(w) \/ Await(w) PROVE IInv'
    BY <1>10, <1>11 DEF Make, Await
<1>12. ASSUME NEW w \in Ws, Drop(w) \/ Free(w) PROVE IInv'
    <2>1. /\ freeing[Main].of = Nil /\ freeing[Main].at = "no"
          /\ Nil \notin Ws /\ Main \in Threads /\ Main \notin Ws
        BY <1>12 DEF Drop, Free, Ready
    <2>2. /\ UNCHANGED <<state, entry, closure, krn, pc, main>>
          /\ handle' \subseteq Ws /\ freed \subseteq freed' /\ freed' \subseteq freed \cup {w}
          /\ w \in entry => UNCHANGED freeing \/ w \in freed'
        BY <1>12 DEF Drop, Free, mainVars
    <2>3. CASE UNCHANGED freeing
        BY <2>1, <2>2, <2>3 DEF OwnEnd, Unmade, Untouched, SelfAlive
    <2>4. CASE state[w] = "open" /\ freeing' = [freeing EXCEPT ![Main] = [at |-> "lock", of |-> w]]
        <3>1. WorkersTypeOK'
            BY <2>1, <2>2, <2>4
        <3>2. OwnEnd'
            BY <2>1, <2>2, <2>4, <3>1 DEF OwnEnd
        <3>3. Unmade'
            BY <2>1, <2>2, <2>4, <3>1 DEF Unmade
        <3>4. Untouched'
            BY <2>1, <2>2, <2>4, <3>1 DEF Untouched
        <3>5. SelfAlive'
            BY <2>1, <2>2, <2>4, <3>1 DEF SelfAlive
        <3>. QED
            BY <2>1, <2>2, <2>4, <3>1, <3>2, <3>3, <3>4, <3>5
    <2>. QED
        BY <1>12, <2>3, <2>4 DEF Drop, Free, FreeTest
<1>13. CASE MainReads \/ ToWait
    BY <1>13 DEF MainReads, ToWait, wkVars, mainVars, OwnEnd, Unmade, Untouched, SelfAlive
<1>14. CASE MainLoop
    BY <1>14 DEF MainLoop, Check, Over, Counted, Delay, Epoll, wkVars, OwnEnd, Unmade, Untouched, SelfAlive
<1>. QED
    BY <1>1, <1>2, <1>3, <1>4, <1>5, <1>6, <1>7, <1>8, <1>9, <1>11, <1>12,
       <1>13, <1>14 DEF Next, Freeing, Work

\* The inductive invariant of the workers.
THEOREM WorkersInvariance == Spec => []IInv
<1>. QED
    BY InitIInv, NextIInv, PTL DEF Spec

\* The copy of itself that a worker uses lives as long as its thread, and its
\* maker does not end before it, for any number of workers, unless the maker
\* itself frees the worker.
THEOREM WorkersSelfAlive == Spec => []SelfAlive
<1>1. IInv => SelfAlive
    BY DEF IInv
<1>. QED
    BY <1>1, WorkersInvariance, PTL

-----------------------------------------------------------------------------
(* The child process.                                                      *)

Kid == Child!Streams

Pipe == [came : Nat, read : Nat, open : BOOLEAN]

ChildTyped ==
    /\ role \in {"none", "popen", "cluster", "child"}
    /\ proc \in {"none", "runs", "zombie", "reaped", "spared"}
    /\ pipe \in [Kid -> Pipe]
    /\ stopped \subseteq Kid
    /\ reader \in [Kid -> {"none", "poll", "next", "done"}]
    /\ status \subseteq {"OPEN", "CLOSE", "KILL"}
    /\ mine \in BOOLEAN /\ asked \in BOOLEAN
    /\ heard \in Seq(Kid \X (Nat \ {0}))
    /\ drains \in Nat /\ closes \in Nat
    /\ answer \in Nat \cup {-1}

Begun == reader # [s \in Kid |-> "none"]

Killed == "KILL" \in status

\* What was heard is what was read of each pipe, in order.
HeardOK ==
    /\ \A s \in Kid : Child!Of(s) = 1..pipe[s].read /\ pipe[s].read <= pipe[s].came
    /\ \A i, j \in DOMAIN heard :
          i < j /\ heard[i][1] = heard[j][1] => heard[i][2] < heard[j][2]

\* The node is freed once, and closed before only to be freed at once; who
\* frees it at the end of a pipe has heard all of that one.
FreedOnce ==
    /\ closes = IF Killed THEN 1 ELSE 0
    /\ Begun => drains = closes /\ ("CLOSE" \in status => Killed)
    /\ ~Begun => drains = 0 /\ "CLOSE" \in status
    /\ answer # -1 => Killed /\ answer = Len(heard)
    /\ Killed /\ ~asked => \E s \in Kid : Child!Complete(s)

\* Until then the child is there and its pipes are read by those who began.
Unended ==
    /\ role = "none" => ~Begun /\ ~mine /\ ~Killed /\ ~asked /\ proc = "none"
    /\ role # "none" /\ ~mine => asked /\ (Killed \/ Child!Attended)
    /\ (\E s \in Kid : reader[s] = "done") => Killed
    /\ Begun /\ ~Killed =>
          IF role = "child" THEN stopped = {"err"}
          ELSE stopped = {} /\ (mine \/ Child!Attended => proc \in {"runs", "zombie"})
    /\ proc \in {"reaped", "spared"} => Killed

ChildInv == ChildTyped /\ HeardOK /\ FreedOnce /\ Unended

\* A pipe that is opened or closed.
LEMMA PipeIs ==
    ASSUME NEW p \in Pipe, NEW o \in BOOLEAN
    PROVE  LET q == [p EXCEPT !.open = o]
           IN  q \in Pipe /\ q.came = p.came /\ q.read = p.read /\ q.open = o
    BY DEF Pipe

\* What was heard of a pipe, when a chunk more is heard.
Numbers(h, s) == {h[i][2] : i \in {k \in DOMAIN h : h[k][1] = s}}

OneMore(h, g, n, c) ==
    DOMAIN g = DOMAIN h \cup {n} /\ (\A i \in DOMAIN h : g[i] = h[i]) /\ g[n] = c

LEMMA OfOneMore ==
    ASSUME NEW n, NEW c, NEW s, NEW h, NEW g, OneMore(h, g, n, c)
    PROVE  Numbers(g, s) = Numbers(h, s) \cup (IF c[1] = s THEN {c[2]} ELSE {})
    BY DEF Numbers, OneMore

LEMMA ChildInit ==
    ASSUME Child!Init
    PROVE  ChildInv
<1>. USE DEF Child!Init
<1>1. ChildTyped
    <2>1. pipe \in [Kid -> Pipe]
        BY DEF Kid, Pipe
    <2>2. heard \in Seq(Kid \X (Nat \ {0}))
        OBVIOUS
    <2>. QED
        BY <2>1, <2>2 DEF ChildTyped, Kid
<1>2. HeardOK
    BY DEF HeardOK, Child!Of, Kid, Child!Streams
<1>3. ~Begun /\ ~Killed
    BY DEF Begun, Killed, Kid
<1>4. FreedOnce
    BY <1>3 DEF FreedOnce
<1>5. Unended
    BY <1>3 DEF Unended, Kid
<1>. QED
    BY <1>1, <1>2, <1>4, <1>5 DEF ChildInv

LEMMA FreedTyped ==
    ASSUME NEW st \in SUBSET {"OPEN", "CLOSE", "KILL"}, Child!Freed(st, heard),
           drains \in Nat, closes \in Nat, answer \in Nat \cup {-1}, Len(heard) \in Nat
    PROVE  /\ status' \subseteq {"OPEN", "CLOSE", "KILL"} /\ drains' \in Nat /\ closes' \in Nat
           /\ answer' \in Nat \cup {-1}
<1>1. status' = st \/ status' = st \cup {"KILL"}
    BY DEF Child!Freed
<1>2. (drains' = drains \/ drains' = drains + 1) /\ (closes' = closes \/ closes' = closes + 1)
    BY DEF Child!Freed
<1>3. answer' = answer \/ answer' = Len(heard)
    BY DEF Child!Freed
<1>4. status' \subseteq {"OPEN", "CLOSE", "KILL"}
    BY <1>1
<1>. QED
    BY <1>2, <1>3, <1>4

LEMMA ShuttingTyped ==
    ASSUME NEW h, Child!Shutting(h), status \subseteq {"OPEN", "CLOSE", "KILL"},
           drains \in Nat, closes \in Nat, answer \in Nat \cup {-1}, Len(h) \in Nat
    PROVE  /\ status' \subseteq {"OPEN", "CLOSE", "KILL"} /\ drains' \in Nat /\ closes' \in Nat
           /\ answer' \in Nat \cup {-1}
<1>1. status' = status \/ status' = {"CLOSE", "KILL"}
    BY DEF Child!Shutting
<1>2. (drains' = drains \/ drains' = drains + 1) /\ (closes' = closes \/ closes' = closes + 1)
    BY DEF Child!Shutting
<1>3. answer' = answer \/ answer' = Len(h)
    BY DEF Child!Shutting
<1>4. status' \subseteq {"OPEN", "CLOSE", "KILL"}
    BY <1>1
<1>. QED
    BY <1>2, <1>3, <1>4

\* free() and close(), by what they do to a node that is as it should be.
LEMMA FreedKeeps ==
    ASSUME ChildTyped, ChildTyped', HeardOK', FreedOnce,
           NEW h, h = heard', Child!Freed(status, h),
           UNCHANGED <<pipe, heard>> \/ ~Killed, Begun' <=> Begun,
           ~Killed => asked' \/ \E s \in Kid : Child!Complete(s)',
           asked => asked'
    PROVE  FreedOnce' /\ Killed' /\ status \subseteq status'
<1>1. CASE Killed
    <2>1. UNCHANGED <<status, closes, drains, answer, pipe, heard>>
        BY <1>1 DEF Child!Freed, Killed
    <2>2. (\E s \in Kid : Child!Complete(s)) => \E s \in Kid : Child!Complete(s)'
        BY <2>1 DEF Child!Complete, Child!Of
    <2>. QED
        BY <1>1, <2>1, <2>2 DEF FreedOnce, Killed
<1>2. CASE ~Killed
    <2>1. /\ status' = status \cup {"KILL"} /\ closes' = closes + 1
          /\ drains' = IF "CLOSE" \in status THEN drains ELSE drains + 1
          /\ answer' = IF "CLOSE" \notin status /\ answer = -1 THEN Len(h) ELSE answer
        BY <1>2 DEF Child!Freed, Killed
    <2>2. Killed' /\ closes = 0 /\ answer = -1 /\ drains \in Nat
        BY <1>2, <2>1 DEF Killed, FreedOnce, ChildTyped
    <2>3. closes' = 1
        BY <2>1, <2>2
    <2>4. Begun' => drains' = 1
        BY <1>2, <2>1, <2>2 DEF FreedOnce
    <2>5. ~Begun' => drains' = 0 /\ "CLOSE" \in status'
        BY <1>2, <2>1, <2>2 DEF FreedOnce
    <2>6. answer' # -1 => answer' = Len(heard')
        BY <2>1, <2>2
    <2>. QED
        BY <1>2, <2>1, <2>2, <2>3, <2>4, <2>5, <2>6 DEF FreedOnce
<1>. QED
    BY <1>1, <1>2

LEMMA ShuttingKeeps ==
    ASSUME ChildTyped, ChildTyped', HeardOK', FreedOnce,
           NEW h, h = heard', Child!Shutting(h),
           UNCHANGED <<pipe, heard>> \/ ~Killed, Begun' <=> Begun,
           asked'
    PROVE  FreedOnce' /\ (Killed => Killed') /\ (Begun => Killed')
<1>1. CASE status \cap {"CLOSE", "KILL"} # {}
    <2>1. UNCHANGED <<status, closes, drains, answer>>
        BY <1>1 DEF Child!Shutting
    <2>2. Begun => Killed
        BY <1>1 DEF FreedOnce, Killed
    <2>3. answer # -1 => UNCHANGED heard
        BY DEF FreedOnce
    <2>. QED
        BY <2>1, <2>2, <2>3 DEF FreedOnce, Killed
<1>2. CASE ~(status \cap {"CLOSE", "KILL"} # {})
    <2>1. /\ status' = {"CLOSE", "KILL"}
          /\ drains' = drains + 1 /\ closes' = closes + 1
          /\ answer' = IF answer = -1 THEN Len(h) ELSE answer
        BY <1>2 DEF Child!Shutting
    <2>2. ~Killed /\ Begun
        BY <1>2 DEF Killed, FreedOnce
    <2>3. closes = 0 /\ drains = 0 /\ answer = -1
        BY <2>2 DEF FreedOnce
    <2>4. Killed' /\ closes' = 1 /\ drains' = 1 /\ answer' = Len(heard')
        BY <2>1, <2>3 DEF Killed
    <2>. QED
        BY <2>1, <2>2, <2>4 DEF FreedOnce
<1>. QED
    BY <1>1, <1>2

\* Who writes at the other end changes nothing of what was heard.
LEMMA OtherEndKeeps ==
    ASSUME ChildInv, NEW s \in Kid, Child!Writes(s) \/ Child!ClosesPipe(s)
    PROVE  ChildInv'
<1>1. /\ pipe[s].open
      /\ UNCHANGED <<role, proc, stopped, reader, status, mine, heard, drains, closes, answer, asked>>
    BY DEF Child!Writes, Child!ClosesPipe
<1>2. PICK q \in Pipe : /\ pipe' = [pipe EXCEPT ![s] = q]
                        /\ q.came >= pipe[s].came /\ q.read = pipe[s].read
    <2>1. pipe[s] \in Pipe /\ pipe[s].came \in Nat
        BY DEF ChildInv, ChildTyped, Pipe
    <2>2. CASE Child!Writes(s)
        <3>. DEFINE q == [pipe[s] EXCEPT !.came = @ + 1]
        <3>1. q \in Pipe /\ q.came = pipe[s].came + 1 /\ q.read = pipe[s].read
            BY <2>1 DEF Pipe
        <3>3. q.came >= pipe[s].came
            BY <2>1, <3>1
        <3>2. pipe' = [pipe EXCEPT ![s] = q]
            BY <2>2 DEF Child!Writes
        <3>. HIDE DEF q
        <3>. QED
            BY <3>1, <3>2, <3>3, Zenon
    <2>3. CASE Child!ClosesPipe(s)
        <3>. DEFINE q == [pipe[s] EXCEPT !.open = FALSE]
        <3>1. q \in Pipe /\ q.came = pipe[s].came /\ q.read = pipe[s].read
            <4>1. FALSE \in BOOLEAN
                OBVIOUS
            <4>. QED
                BY ONLY <2>1, <4>1, PipeIs, Zenon
        <3>3. q.came >= pipe[s].came
            <4>. HIDE DEF q
            <4>. QED
                BY <2>1, <3>1
        <3>2. pipe' = [pipe EXCEPT ![s] = q]
            BY <2>3 DEF Child!ClosesPipe
        <3>. HIDE DEF q
        <3>. QED
            BY <3>1, <3>2, <3>3, Zenon
    <2>. QED
        BY <2>2, <2>3
<1>3. ChildTyped'
    BY <1>1, <1>2 DEF ChildInv, ChildTyped
<1>4. /\ \A t \in Kid : pipe'[t].read = pipe[t].read /\ pipe'[t].came >= pipe[t].came
      /\ \A t \in Kid : ~pipe[t].open => pipe'[t] = pipe[t]
    <2>1. ASSUME NEW t \in Kid PROVE pipe'[t] = IF t = s THEN q ELSE pipe[t]
        BY <1>2 DEF ChildInv, ChildTyped
    <2>2. \A t \in Kid : pipe[t].came \in Nat
        BY DEF ChildInv, ChildTyped, Pipe
    <2>. QED
        BY <1>1, <1>2, <2>1, <2>2
<1>5. HeardOK'
    <2>1. \A t \in Kid : pipe'[t].read <= pipe'[t].came
        <3>1. \A t \in Kid : pipe[t].read \in Nat /\ pipe[t].came \in Nat /\ pipe'[t].came \in Nat
            BY <1>3 DEF ChildInv, ChildTyped, Pipe
        <3>2. \A t \in Kid : pipe[t].read <= pipe[t].came
            BY DEF ChildInv, HeardOK
        <3>. QED
            BY <1>4, <3>1, <3>2
    <2>. QED
        BY <1>1, <1>4, <2>1 DEF ChildInv, HeardOK, Child!Of
<1>6. FreedOnce'
    <2>1. \A t \in Kid : Child!Complete(t) => Child!Complete(t)'
        BY <1>1, <1>4 DEF Child!Complete, Child!Of
    <2>. QED
        BY <1>1, <2>1 DEF ChildInv, FreedOnce, Killed, Begun
<1>7. Unended'
    BY <1>1 DEF ChildInv, Unended, Killed, Begun, Child!Attended
<1>. QED
    BY <1>3, <1>5, <1>6, <1>7 DEF ChildInv

LEMMA SpawnKeeps ==
    ASSUME ChildInv, Child!Spawn \/ Child!SpawnFails \/ Child!SpawnCluster
    PROVE  ChildInv'
<1>. USE DEF ChildInv
<1>1. role = "none" /\ ~Begun /\ ~Killed /\ ~asked /\ mine' /\ proc = "none"
    BY DEF Unended, Child!Spawn, Child!SpawnFails, Child!SpawnCluster, Child!Made
<1>2. CASE Child!SpawnFails
    <2>1. UNCHANGED <<proc, pipe, stopped, reader, status, heard, drains, closes, answer, asked>>
          /\ role' = "popen" /\ mine' = TRUE
        BY <1>2 DEF Child!SpawnFails
    <2>2. ChildTyped'
        BY <2>1 DEF ChildTyped
    <2>3. HeardOK' /\ FreedOnce'
        BY <2>1 DEF HeardOK, FreedOnce, Child!Of, Child!Complete, Begun, Killed
    <2>4. Unended'
        BY <1>1, <2>1 DEF Unended, Child!Attended, Begun, Killed
    <2>. QED
        BY <2>2, <2>3, <2>4
<1>3. ASSUME NEW r \in {"popen", "cluster", "child"}, NEW ss \in SUBSET Kid,
             ss = IF r = "child" THEN {"out"} ELSE Kid,
             Child!Made(r, ss), proc' = IF r = "child" THEN "none" ELSE "runs"
      PROVE  ChildInv'
    <2>1. /\ role' = r /\ mine' = TRUE /\ status' = {"OPEN"} /\ stopped' = Kid \ ss
          /\ pipe' = [s \in Kid |-> [pipe[s] EXCEPT !.open = s \in ss]]
          /\ reader' = [s \in Kid |-> IF s \in ss THEN "poll" ELSE "none"]
          /\ UNCHANGED <<heard, drains, closes, answer, asked>>
        BY <1>3 DEF Child!Made, Kid
    <2>0. ASSUME NEW s \in Kid
          PROVE  pipe'[s] \in Pipe /\ pipe'[s].came = pipe[s].came /\ pipe'[s].read = pipe[s].read
        <3>1. pipe'[s] = [pipe[s] EXCEPT !.open = s \in ss] /\ pipe[s] \in Pipe
            BY <2>1 DEF ChildTyped
        <3>2. (s \in ss) \in BOOLEAN
            OBVIOUS
        <3>3. LET q == [pipe[s] EXCEPT !.open = s \in ss]
              IN  q \in Pipe /\ q.came = pipe[s].came /\ q.read = pipe[s].read /\ q.open = (s \in ss)
            BY ONLY <3>1, <3>2, PipeIs, Zenon
        <3>. QED
            BY ONLY <3>1, <3>3, Zenon
    <2>3. pipe' \in [Kid -> Pipe]
        <3>1. \A s \in Kid : pipe'[s] \in Pipe
            BY <2>0
        <3>2. pipe' = [s \in Kid |-> pipe'[s]]
            BY <2>1
        <3>. QED
            BY <3>1, <3>2
    <2>4. reader' \in [Kid -> {"none", "poll", "next", "done"}]
        BY <2>1
    <2>5. ChildTyped'
        BY <1>3, <2>1, <2>3, <2>4 DEF ChildTyped
    <2>6. HeardOK'
        BY <2>0, <2>1 DEF HeardOK, Child!Of
    <2>7. "out" \in ss /\ "out" \in Kid
        BY <1>3 DEF Kid, Child!Streams
    <2>8. Begun' /\ ~Killed' /\ "CLOSE" \notin status'
        BY <2>1, <2>7 DEF Begun, Killed
    <2>9. FreedOnce'
        BY <1>1, <2>1, <2>8 DEF FreedOnce, ChildTyped
    <2>10. stopped' = IF r = "child" THEN {"err"} ELSE {}
        BY <1>3, <2>1 DEF Kid, Child!Streams
    <2>11. \A s \in Kid : reader'[s] # "done"
        BY <2>1
    <2>12. Unended'
        BY <1>1, <1>3, <2>1, <2>8, <2>10, <2>11 DEF Unended
    <2>. QED
        BY <2>5, <2>6, <2>9, <2>12
<1>4. CASE Child!Spawn
    BY <1>3, <1>4 DEF Child!Spawn, Kid
<1>5. CASE Child!SpawnCluster
    <2>1. {"out"} \subseteq Kid
        BY DEF Kid, Child!Streams
    <2>. QED
        BY <1>3, <1>5, <2>1 DEF Child!SpawnCluster, Kid
<1>. QED
    BY <1>2, <1>4, <1>5

\* The child dies, or is killed with its node.
LEMMA ChildEnds ==
    ASSUME ChildInv, Child!Exits \/ Child!Destroy
    PROVE  ChildInv'
<1>. USE DEF ChildInv
<1>1. /\ pipe' = [s \in Kid |-> [pipe[s] EXCEPT !.open = FALSE]]
      /\ UNCHANGED <<role, stopped, reader, status, mine, heard, drains, closes, answer, asked>>
      /\ proc' \in {"zombie", "reaped", "spared"} /\ proc \in {"runs", "zombie"}
    BY DEF Child!Exits, Child!Destroy, Child!Shut, Kid
<1>2. ASSUME NEW s \in Kid
      PROVE  /\ pipe'[s] \in Pipe /\ pipe'[s].came = pipe[s].came /\ pipe'[s].read = pipe[s].read
             /\ pipe'[s].open = FALSE
    <2>1. pipe'[s] = [pipe[s] EXCEPT !.open = FALSE] /\ pipe[s] \in Pipe
        BY <1>1 DEF ChildTyped
    <2>2. FALSE \in BOOLEAN
        OBVIOUS
    <2>3. LET q == [pipe[s] EXCEPT !.open = FALSE]
          IN  q \in Pipe /\ q.came = pipe[s].came /\ q.read = pipe[s].read /\ q.open = FALSE
        BY ONLY <2>1, <2>2, PipeIs, Zenon
    <2>. QED
        BY ONLY <2>1, <2>3, Zenon
<1>3. pipe' \in [Kid -> Pipe]
    <2>1. \A s \in Kid : pipe'[s] \in Pipe
        BY <1>2
    <2>2. pipe' = [s \in Kid |-> pipe'[s]]
        BY <1>1
    <2>. QED
        BY <2>1, <2>2
<1>4. ChildTyped'
    BY <1>1, <1>3 DEF ChildTyped
<1>5. HeardOK'
    <2>1. \A s \in Kid : pipe'[s].came = pipe[s].came /\ pipe'[s].read = pipe[s].read
        BY <1>2
    <2>2. heard' = heard
        BY <1>1
    <2>. QED
        BY <2>1, <2>2 DEF HeardOK, Child!Of
<1>6. FreedOnce'
    <2>1. \A s \in Kid : Child!Complete(s) => Child!Complete(s)'
        BY <1>1, <1>2 DEF Child!Complete, Child!Of
    <2>. QED
        BY <1>1, <2>1 DEF FreedOnce, Killed, Begun
<1>7. proc' = "zombie" \/ (role # "none" /\ ~mine /\ ~Child!Attended)
    BY DEF Child!Exits, Child!Destroy
<1>8. proc' = "zombie" \/ Killed
    BY <1>7 DEF Unended
<1>9. Unended'
    BY <1>1, <1>8 DEF Unended, Killed, Begun, Child!Attended
<1>. QED
    BY <1>4, <1>5, <1>6, <1>9

\* The program closes the node, or lets go of it.
LEMMA ProgramLeaves ==
    ASSUME ChildInv, Child!Close \/ Child!DropHandle
    PROVE  ChildInv'
<1>. USE DEF ChildInv
<1>1. /\ mine /\ asked' = TRUE
      /\ UNCHANGED <<role, proc, pipe, stopped, reader, heard>>
      /\ (mine' = FALSE \/ mine' = TRUE)
    BY DEF Child!Close, Child!DropHandle
<1>2. (Begun' <=> Begun) /\ heard' = heard /\ role # "none"
    BY <1>1 DEF Begun, Unended
<1>3. ChildTyped'
    <2>1. /\ status' \subseteq {"OPEN", "CLOSE", "KILL"} /\ drains' \in Nat /\ closes' \in Nat
          /\ answer' \in Nat \cup {-1}
        <3>1. Len(heard) \in Nat
            BY LenProperties DEF ChildTyped
        <3>2. status \in SUBSET {"OPEN", "CLOSE", "KILL"} /\ drains \in Nat /\ closes \in Nat /\ answer \in Nat \cup {-1}
            BY DEF ChildTyped
        <3>. QED
            BY <3>1, <3>2, FreedTyped, ShuttingTyped DEF Child!Close, Child!DropHandle
    <2>. QED
        BY <1>1, <2>1 DEF ChildTyped
<1>4. HeardOK'
    BY <1>1 DEF HeardOK, Child!Of
<1>5. FreedOnce' /\ (Killed => Killed') /\ (mine' \/ Killed' \/ Child!Attended)
    <2>1. CASE Child!Close
        <3>1. Child!Shutting(heard) /\ UNCHANGED mine
            BY <2>1 DEF Child!Close
        <3>. QED
            BY <1>1, <1>2, <1>3, <1>4, <3>1, ShuttingKeeps
    <2>2. CASE Child!DropHandle /\ Child!Attended /\ ~Child!IsClosed
        <3>1. UNCHANGED <<status, closes, drains, answer>>
            BY <2>2 DEF Child!DropHandle
        <3>. QED
            BY <1>1, <1>2, <2>2, <3>1 DEF FreedOnce, Killed
    <2>3. CASE Child!DropHandle /\ ~(Child!Attended /\ ~Child!IsClosed)
        <3>1. Child!Freed(status, heard)
            BY <2>3 DEF Child!DropHandle
        <3>. QED
            BY <1>1, <1>2, <1>3, <1>4, <3>1, FreedKeeps
    <2>. QED
        BY <2>1, <2>2, <2>3
<1>6. Child!Attended' <=> Child!Attended
    BY <1>1 DEF Child!Attended
<1>7. Unended'
    BY <1>1, <1>2, <1>5, <1>6 DEF Unended
<1>. QED
    BY <1>3, <1>4, <1>5, <1>7

\* While nobody asked, a node that was not freed counts as closed for nobody.
LEMMA NotClosed ==
    ASSUME ChildInv, Child!IsClosed, Begun, ~Killed
    PROVE  ~mine /\ ~Child!Attended
<1>. USE DEF ChildInv
<1>1. status \cap {"CLOSE", "KILL"} = {}
    BY DEF FreedOnce, Killed
<1>2. "out" \in Kid /\ "err" # "out"
    BY DEF Kid, Child!Streams
<1>3. CASE role = "child"
    <2>1. stopped = {"err"}
        BY <1>3 DEF Unended
    <2>2. "out" \notin stopped
        BY <1>2, <2>1
    <2>3. ~Child!IsClosed
        BY <1>1, <1>3, <2>2 DEF Child!IsClosed, Child!ClusterAlive
    <2>. QED
        BY <2>3
<1>4. CASE role # "child"
    <2>1. stopped = {} /\ (mine \/ Child!Attended => proc \in {"runs", "zombie"})
        BY <1>4 DEF Unended
    <2>2. "out" \notin stopped /\ stopped # Child!Streams
        BY <2>1 DEF Child!Streams
    <2>3. ~(proc \in {"runs", "zombie"})
        BY <1>1, <1>4, <2>2 DEF Child!IsClosed, Child!ClusterAlive, Child!PopenAlive
    <2>. QED
        BY <2>1, <2>3
<1>. QED
    BY <1>3, <1>4

\* A turn of a coroutine hears the next chunk of its pipe, or the end of it.
LEMMA TurnKeeps ==
    ASSUME ChildInv, NEW s \in Kid, Child!Reads(s)
    PROVE  ChildInv'
<1>. USE DEF ChildInv
<1>1. reader[s] \in {"poll", "next"} /\ UNCHANGED <<role, proc, mine>>
    BY DEF Child!Reads
<1>2. Begun /\ Child!Attended
    BY <1>1 DEF Begun, Child!Attended, Kid
<1>3. role # "none"
    BY <1>2 DEF Unended
<1>4. Len(heard) \in Nat
    BY LenProperties DEF ChildTyped
<1>5. CASE Child!Leaves(s) \/ Child!Ends(s)
    <2>1. /\ reader' = [reader EXCEPT ![s] = "done"] /\ Child!Freed(status, heard)
          /\ UNCHANGED <<pipe, heard, asked>> /\ stopped \subseteq stopped' /\ stopped' \subseteq Kid
        BY <1>5 DEF Child!Leaves, Child!Ends, ChildTyped
    <2>2. Begun'
        BY <2>1 DEF Begun, ChildTyped
    <2>3. ChildTyped'
        <3>1. /\ status' \subseteq {"OPEN", "CLOSE", "KILL"} /\ drains' \in Nat /\ closes' \in Nat
              /\ answer' \in Nat \cup {-1}
            BY <1>4, <2>1, FreedTyped DEF ChildTyped
        <3>. QED
            BY <1>1, <2>1, <3>1 DEF ChildTyped
    <2>4. HeardOK'
        BY <2>1 DEF HeardOK, Child!Of
    <2>5. ~Killed => asked' \/ \E t \in Kid : Child!Complete(t)'
        <3>1. CASE Child!Leaves(s)
            BY <1>2, <1>3, <2>1, <3>1, NotClosed DEF Child!Leaves
        <3>2. CASE Child!Ends(s)
            <4>1. Child!Complete(s)
                BY <3>2 DEF Child!Ends, Child!Complete, HeardOK
            <4>. QED
                BY <2>1, <4>1 DEF Child!Complete, Child!Of
        <3>. QED
            BY <1>5, <3>1, <3>2
    <2>6. FreedOnce' /\ Killed'
        BY <1>2, <2>1, <2>2, <2>3, <2>4, <2>5, FreedKeeps
    <2>7. Unended'
        BY <1>1, <1>3, <2>1, <2>6 DEF Unended
    <2>. QED
        BY <2>3, <2>4, <2>6, <2>7
<1>6. CASE Child!Blocked(s)
    <2>1. /\ reader' = [reader EXCEPT ![s] = "poll"]
          /\ UNCHANGED <<pipe, stopped, status, heard, closes, drains, answer, asked>>
        BY <1>6 DEF Child!Blocked
    <2>2. Begun' /\ ChildTyped' /\ Child!Attended' /\ (Killed' <=> Killed)
        BY <1>1, <2>1 DEF Begun, ChildTyped, Child!Attended, Kid, Killed
    <2>3. HeardOK' /\ FreedOnce'
        BY <1>2, <2>1, <2>2 DEF HeardOK, FreedOnce, Child!Of, Child!Complete
    <2>4. \A t \in Kid : reader'[t] = "done" => reader[t] = "done"
        BY <2>1 DEF ChildTyped
    <2>5. Unended'
        BY <1>1, <1>2, <1>3, <2>1, <2>2, <2>4 DEF Unended
    <2>. QED
        BY <2>2, <2>3, <2>5
<1>7. CASE Child!Hears(s)
    <2>. DEFINE n == pipe[s].read + 1
                c == <<s, n>>
    <2>1. /\ ~Child!IsClosed /\ pipe[s].read < pipe[s].came
          /\ reader' = [reader EXCEPT ![s] = "next"] /\ UNCHANGED stopped
          /\ heard' = Append(heard, c)
          /\ pipe' = [pipe EXCEPT ![s].read = @ + 1]
          /\ \/ UNCHANGED <<status, closes, drains, answer, asked>>
             \/ Child!Shutting(heard') /\ asked' = TRUE
        BY <1>7 DEF Child!Hears
    <2>2. pipe[s].came \in Nat /\ pipe[s].read \in Nat
        BY DEF ChildTyped, Pipe
    <2>3. PICK q \in Pipe : pipe' = [pipe EXCEPT ![s] = q] /\ q.read = n /\ q.came = pipe[s].came
        <3>. DEFINE q == [pipe[s] EXCEPT !.read = @ + 1]
        <3>1. q \in Pipe /\ q.read = n /\ q.came = pipe[s].came
            <4>1. pipe[s] \in Pipe
                BY DEF ChildTyped
            <4>. QED
                BY <2>2, <4>1 DEF Pipe
        <3>2. pipe' = [pipe EXCEPT ![s] = q]
            BY <2>1
        <3>. HIDE DEF q
        <3>. QED
            BY <3>1, <3>2
    <2>4. n \in Nat \ {0} /\ n <= pipe[s].came /\ c \in Kid \X (Nat \ {0})
        BY <2>1, <2>2
    <2>5. ~Killed
        BY <2>1 DEF Child!IsClosed, Killed
    <2>6. /\ heard \in Seq(Kid \X (Nat \ {0})) /\ heard' \in Seq(Kid \X (Nat \ {0}))
          /\ Len(heard') = Len(heard) + 1 /\ heard'[Len(heard) + 1] = c
          /\ \A i \in 1..Len(heard) : heard'[i] = heard[i]
          /\ DOMAIN heard = 1..Len(heard) /\ DOMAIN heard' = 1..(Len(heard) + 1)
        BY <2>1, <2>4 DEF ChildTyped
    <2>7. ChildTyped'
        <3>1. pipe' \in [Kid -> Pipe]
            BY <2>2, <2>3, <2>4 DEF ChildTyped
        <3>2. Len(heard') \in Nat
            BY <1>4, <2>6
        <3>3. /\ status' \subseteq {"OPEN", "CLOSE", "KILL"} /\ drains' \in Nat /\ closes' \in Nat
              /\ answer' \in Nat \cup {-1} /\ asked' \in BOOLEAN
            BY <2>1, <3>2, ShuttingTyped DEF ChildTyped
        <3>. QED
            BY <1>1, <2>1, <2>6, <3>1, <3>3 DEF ChildTyped
    <2>8. Begun' /\ Child!Attended'
        BY <2>1 DEF Begun, ChildTyped, Child!Attended, Kid
    <2>9. HeardOK'
        <3>1. pipe'[s].read = n /\ pipe'[s].came = pipe[s].came
            BY <2>3 DEF ChildTyped
        <3>2. \A t \in Kid : t # s => pipe'[t] = pipe[t]
            BY <2>3 DEF ChildTyped
        <3>10. c[1] = s /\ c[2] = n /\ Len(heard) + 1 \in DOMAIN heard'
            BY <1>4, <2>6
        <3>11. OneMore(heard, heard', Len(heard) + 1, c)
            BY <1>4, <2>6 DEF OneMore
        <3>3. ASSUME NEW t \in Kid
              PROVE  Child!Of(t)' = Child!Of(t) \cup (IF s = t THEN {n} ELSE {})
            <4>. HIDE DEF c, n
            <4>1. Numbers(heard', t) = Numbers(heard, t) \cup (IF c[1] = t THEN {c[2]} ELSE {})
                BY <3>11, OfOneMore
            <4>. QED
                BY <3>10, <4>1 DEF Child!Of, Numbers
        <3>4. \A t \in Kid : t # s => Child!Of(t)' = Child!Of(t)
            BY <3>3
        <3>5. Child!Of(s) = 1..pipe[s].read
            BY DEF HeardOK
        <3>6. Child!Of(s)' = 1..n
            <4>1. \A k : k \in 1..pipe[s].read \/ k = n <=> k \in 1..n
                BY <2>2
            <4>. HIDE DEF n
            <4>. QED
                BY <3>3, <3>5, <4>1
        <3>7. ASSUME NEW i \in 1..Len(heard), heard[i][1] = s PROVE heard[i][2] < n
            <4>1. heard[i][2] \in Child!Of(s)
                BY <2>6, <3>7 DEF Child!Of
            <4>. QED
                BY <2>2, <3>5, <4>1
        <3>8. ASSUME NEW i \in DOMAIN heard', NEW j \in DOMAIN heard',
                     i < j, heard'[i][1] = heard'[j][1]
              PROVE  heard'[i][2] < heard'[j][2]
            <4>1. i \in 1..Len(heard) /\ heard'[i] = heard[i]
                BY <1>4, <2>6, <3>8
            <4>2. CASE j = Len(heard) + 1
                BY <2>6, <3>7, <3>8, <4>1, <4>2
            <4>3. CASE j \in 1..Len(heard)
                BY <2>6, <3>8, <4>1, <4>3 DEF HeardOK
            <4>. QED
                BY <2>6, <1>4, <4>2, <4>3
        <3>9. \A t \in Kid : Child!Of(t)' = 1..pipe'[t].read /\ pipe'[t].read <= pipe'[t].came
            BY <2>4, <3>1, <3>2, <3>4, <3>6 DEF HeardOK
        <3>. QED
            BY <3>8, <3>9 DEF HeardOK
    <2>10. FreedOnce'
        <3>1. CASE UNCHANGED <<status, closes, drains, answer, asked>>
            BY <1>2, <2>5, <2>8, <3>1 DEF FreedOnce, Killed
        <3>2. CASE Child!Shutting(heard') /\ asked' = TRUE
            BY <1>2, <2>5, <2>7, <2>8, <2>9, <3>2, ShuttingKeeps
        <3>. QED
            BY <2>1, <3>1, <3>2
    <2>11. \A t \in Kid : reader'[t] = "done" => reader[t] = "done"
        BY <2>1 DEF ChildTyped
    <2>12. asked => asked'
        BY <2>1
    <2>13. Unended'
        BY <1>1, <1>2, <1>3, <2>1, <2>5, <2>8, <2>11, <2>12 DEF Unended
    <2>. QED
        BY <2>7, <2>9, <2>10, <2>13
<1>. QED
    BY <1>5, <1>6, <1>7 DEF Child!Reads

\* The inductive invariant of the child process.
THEOREM ChildInvariance == TwoSpec => []ChildInv
<1>1. TwoInit => ChildInv
    BY ChildInit DEF TwoInit
<1>2. ChildInv /\ [TwoNext]_all => ChildInv'
    <2>. SUFFICES ASSUME ChildInv, [TwoNext]_all PROVE ChildInv'
        OBVIOUS
    <2>1. CASE UNCHANGED childVars
        <3>1. UNCHANGED <<role, proc, pipe, stopped, reader, status, mine, heard, drains, closes, answer, asked>>
            BY <2>1 DEF childVars
        <3>. QED
            BY <3>1 DEF ChildInv, ChildTyped, HeardOK, FreedOnce, Unended, Begun, Killed,
                        Child!Of, Child!Complete, Child!Attended
    <2>2. CASE Child!Next
        <3>1. CASE Child!Spawn \/ Child!SpawnFails \/ Child!SpawnCluster
            BY <3>1, SpawnKeeps
        <3>2. CASE Child!Exits \/ Child!Destroy
            BY <3>2, ChildEnds
        <3>3. CASE Child!Close \/ Child!DropHandle
            BY <3>3, ProgramLeaves
        <3>4. ASSUME NEW s \in Kid, Child!Writes(s) \/ Child!ClosesPipe(s) \/ Child!Reads(s)
              PROVE  ChildInv'
            BY <3>4, OtherEndKeeps, TurnKeeps
        <3>. QED
            BY <2>2, <3>1, <3>2, <3>3, <3>4 DEF Child!Next, Kid
    <2>. QED
        BY <2>1, <2>2 DEF TwoNext, OnThreads, OnProcesses, all
<1>. QED
    BY <1>1, <1>2, PTL DEF TwoSpec

\* A program hears of each pipe of a child what was written to it, in order and
\* without a gap, and of its end once; and the child is killed only after that,
\* whatever it writes and however the program closes it or lets go of it.
THEOREM ChildHeard == TwoSpec => []ChildTold
<1>1. ChildInv => ChildTold
    <2>. SUFFICES ASSUME ChildInv PROVE Child!Told /\ Child!KilledLast
        BY DEF ChildTold
    <2>1. closes <= 1 /\ drains <= 1 /\ (Killed <=> closes = 1)
        BY DEF ChildInv, FreedOnce
    <2>2. Begun <=> reader # [s \in Child!Streams |-> "none"]
        BY DEF Begun, Kid
    <2>3. Child!Told
        BY <2>1, <2>2 DEF ChildInv, HeardOK, FreedOnce, Child!Told, Kid
    <2>4. Child!KilledLast
        BY <2>1 DEF ChildInv, Unended, Child!KilledLast
    <2>. QED
        BY <2>3, <2>4
<1>. QED
    BY <1>1, ChildInvariance, PTL

=============================================================================
