---------------------------- MODULE ServersProofs ----------------------------
(***************************************************************************)
(* Proofs about the servers of Servers.tla, for any clients and scenes.    *)
(***************************************************************************)
EXTENDS Servers, SequenceTheorems, FiniteSetTheorems, TLAPS

\* A server of web sockets has one client: the clients of one share skip()
\* and resume() of onConnect, so that with two of them one that was not
\* upgraded may be greeted.
OneByOne ==
    \A s \in Scenes : s.proto = "ws" => \A c, d \in s.crowd : c = d

-----------------------------------------------------------------------------
(* The inductive invariant.                                                *)

Served == {c \in Clients : cl[c].at \in {"new", "reading", "handling"}}

\* Who waits to be accepted waits once.
QueueOK ==
    /\ \A i \in 1..Len(backlog) : cl[backlog[i]].at = "backlog"
    /\ \A i, j \in 1..Len(backlog) : backlog[i] = backlog[j] => i = j

\* The handlers under way are those of the clients that are handled, one each.
\* A handshake is one of a client that is not upgraded; when it is over the
\* client is, or onConnect is skipped.
Frame == [c : Clients, stage : {"hand", "func"}, first : Nat]

FrameOK(f) ==
    /\ cl[f.c].at = "handling" /\ f.first > 0 /\ f.first <= cl[f.c].hand
    /\ f.stage = "hand" => scene.proto = "ws" /\ ~cl[f.c].upgraded
    /\ OneByOne /\ scene.proto = "ws" /\ f.stage = "func" =>
          closed \/ skipped \/ cl[f.c].upgraded

StackOK ==
    /\ stack \in Seq(Frame)
    /\ \A i \in 1..Len(stack) : FrameOK(stack[i])
    /\ \A i, j \in 1..Len(stack) : stack[i].c = stack[j].c => i = j

\* Before its handler ends a client is neither handled nor greeted, unless it
\* was upgraded: then its task greets it.
ClientOK(c) ==
    LET d == cl[c] IN
    /\ d.hand <= d.got /\ d.got <= d.sent
    /\ d.at # "none" => c \in scene.crowd
    /\ d.at \in {"none", "backlog", "new", "reading"} =>
          d.hand = 0 /\ d.called = 0 /\ d.greeted = 0 /\ ~d.upgraded /\ d.open
    /\ d.at = "handling" => d.hand > 0 /\ scene.proto # "tcp" /\ d.called = 0
    /\ d.at = "handling" /\ ~d.upgraded => d.open /\ d.greeted = 0
    /\ c \in tasks => d.upgraded /\ d.greeted = 0
    /\ d.upgraded => scene.proto = "ws" /\ d.called = 0
    /\ d.called <= 1 /\ d.greeted <= 1
    /\ d.at = "done" /\ ~closed =>
         /\ scene.proto = "tcp" => (d.greeted = 1 <=> d.hand > 0)
         /\ scene.proto = "http" => /\ d.called = 1 <=> d.hand > 0 /\ d.speech # "bad"
                                    /\ d.greeted = d.called
         /\ OneByOne /\ scene.proto = "ws" => (d.greeted = 1 => d.upgraded)

IInv ==
    /\ TypeOK /\ QueueOK /\ StackOK
    /\ \A c \in Clients : ClientOK(c)
    /\ skipped => scene.proto = "ws"
    /\ SlotsExact

-----------------------------------------------------------------------------
(* Sets of clients.                                                        *)

\* A client that gets a place, and one that gives its place back.
LEMMA Places ==
    ASSUME IsFiniteSet(Clients), NEW S \in SUBSET Clients, NEW c \in Clients
    PROVE  /\ Cardinality(S) \in Nat
           /\ c \notin S => Cardinality(S \cup {c}) = Cardinality(S) + 1
           /\ c \in S => Cardinality(S \ {c}) = Cardinality(S) - 1
<1>1. IsFiniteSet(S)
    BY FS_Subset
<1>. QED
    BY <1>1, FS_CardinalityType, FS_AddElement, FS_RemoveElement

\* What the scene is, and how many units its clients say.
LEMMA SceneProperties ==
    ASSUME scene \in Scenes
    PROVE  /\ scene.proto \in PROTOCOLS /\ scene.tls \in BOOLEAN
           /\ scene.crowd \subseteq Clients /\ scene.talk \subseteq SPEECHES
           /\ Hello \in 0..1 /\ Units \in 1..3 /\ MaxBatch \in Nat /\ IsFiniteSet(Clients)
<1>1. scene \in [proto: PROTOCOLS, tls: BOOLEAN, crowd: SUBSET Clients, talk: SUBSET SPEECHES]
    BY ServersAssumption
<1>. QED
    BY <1>1, ServersAssumption DEF Hello, Units

LEMMA MaxOfTwo ==
    ASSUME NEW a \in Int, NEW b \in Int
    PROVE  Max({a, b}) \in Int /\ Max({a, b}) >= a /\ Max({a, b}) >= b
<1>1. \E x \in {a, b} : \A y \in {a, b} : x >= y
    <2>1. CASE a >= b
        BY <2>1
    <2>2. CASE b >= a
        BY <2>2
    <2>. QED
        BY <2>1, <2>2
<1>2. Max({a, b}) \in {a, b} /\ \A y \in {a, b} : Max({a, b}) >= y
    BY <1>1 DEF Max
<1>. QED
    BY <1>2

-----------------------------------------------------------------------------
(* What a step that moves one client does to the others.                   *)

\* Units is a number of the scene.
LEMMA SameClient ==
    ASSUME scene' = scene
    PROVE  Client' = Client /\ Units' = Units /\ Hello' = Hello
    BY DEF Client, Units, Hello

\* The clients, when c becomes d.
LEMMA ClientsKeep ==
    ASSUME cl \in [Clients -> Client], \A q \in Clients : ClientOK(q),
           NEW c \in Clients, NEW d \in Client, cl' = [cl EXCEPT ![c] = d],
           scene' = scene, closed => closed', closed' \in BOOLEAN, closed \in BOOLEAN,
           \A q \in Clients \ {c} : q \in tasks' <=> q \in tasks,
           ClientOK(c)'
    PROVE  /\ cl' \in [Clients -> Client]' /\ \A q \in Clients : ClientOK(q)'
           /\ cl'[c] = d /\ \A q \in Clients \ {c} : cl'[q] = cl[q]
<1>1. cl' \in [Clients -> Client] /\ cl'[c] = d /\ \A q \in Clients \ {c} : cl'[q] = cl[q]
    OBVIOUS
<1>2. ASSUME NEW q \in Clients \ {c}
      PROVE  ClientOK(q)'
    BY <1>1, <1>2 DEF ClientOK
<1>. QED
    BY <1>1, <1>2, SameClient

\* The queue, when no client in it moves.
LEMMA QueueKeeps ==
    ASSUME QueueOK, backlog' = backlog, backlog \in Seq(Clients),
           \A q \in Clients : cl[q].at = "backlog" => cl'[q].at = "backlog"
    PROVE  QueueOK'
<1>1. \A i \in 1..Len(backlog) : backlog[i] \in Clients
    BY LenProperties
<1>. QED
    BY <1>1 DEF QueueOK

\* The stack, when no client on it moves.
LEMMA StackKeeps ==
    ASSUME StackOK, stack' = stack, scene' = scene, closed => closed',
           \A f \in Frame : FrameOK(f) => FrameOK(f)'
    PROVE  StackOK'
<1>1. \A i \in 1..Len(stack) : stack[i] \in Frame
    BY LenProperties DEF StackOK
<1>. QED
    BY <1>1 DEF StackOK

\* The clients with a place, when c becomes d.
LEMMA ServedStep ==
    ASSUME cl \in [Clients -> Client], NEW c \in Clients, NEW d, cl' = [cl EXCEPT ![c] = d]
    PROVE  Served' = IF d.at \in {"new", "reading", "handling"} THEN Served \cup {c}
                     ELSE Served \ {c}
<1>1. cl'[c] = d /\ \A q \in Clients \ {c} : cl'[q] = cl[q]
    OBVIOUS
<1>. QED
    BY <1>1 DEF Served

\* Places are exact when a client gets, keeps or gives back one.
LEMMA SlotsStep ==
    ASSUME IInv, NEW c \in Clients, NEW d \in Client, cl' = [cl EXCEPT ![c] = d],
           \/ /\ c \in Served <=> d.at \in {"new", "reading", "handling"}
              /\ enb' = enb
           \/ /\ c \notin Served /\ d.at \in {"new", "reading", "handling"}
              /\ enb <= MaxBatch /\ enb' = enb + 1
           \/ /\ c \in Served /\ d.at \notin {"new", "reading", "handling"}
              /\ enb' = enb - 1
    PROVE  SlotsExact' /\ enb' \in Nat
<1>1. /\ cl \in [Clients -> Client] /\ scene \in Scenes /\ enb \in Nat
      /\ enb = Cardinality(Served) /\ enb <= MaxBatch + 1
    BY DEF IInv, TypeOK, SlotsExact, Served
<1>2. MaxBatch \in Nat /\ IsFiniteSet(Clients)
    BY <1>1, SceneProperties
<1>3. Served \in SUBSET Clients
    BY DEF Served
<1>4. Served' = IF d.at \in {"new", "reading", "handling"} THEN Served \cup {c}
                ELSE Served \ {c}
    BY <1>1, ServedStep
<1>5. enb' = Cardinality(Served') /\ enb' <= MaxBatch + 1 /\ enb' \in Nat
    <2>1. CASE /\ c \in Served <=> d.at \in {"new", "reading", "handling"}
               /\ enb' = enb
        <3>1. Served' = Served
            BY <1>4, <2>1
        <3>. QED
            BY <1>1, <2>1, <3>1
    <2>2. CASE /\ c \notin Served /\ d.at \in {"new", "reading", "handling"}
               /\ enb <= MaxBatch /\ enb' = enb + 1
        BY <1>1, <1>2, <1>3, <1>4, <2>2, Places
    <2>3. CASE /\ c \in Served /\ d.at \notin {"new", "reading", "handling"}
               /\ enb' = enb - 1
        BY <1>1, <1>2, <1>3, <1>4, <2>3, Places
    <2>. QED
        BY <2>1, <2>2, <2>3
<1>. QED
    BY <1>5 DEF SlotsExact, Served

\* A step that changes one client only, who stays in the queue, or on the
\* stack, if there.
LEMMA OneMoves ==
    ASSUME IInv, NEW c \in Clients, NEW d \in Client, cl' = [cl EXCEPT ![c] = d],
           UNCHANGED <<scene, stack, backlog, skipped, closed, tasks>>,
           door' \in {"awake", "resting"}, SlotsExact', enb' \in Nat,
           ClientOK(c)',
           cl[c].at = "backlog" => d.at = "backlog",
           cl[c].at = "handling" =>
              d.at = "handling" /\ d.hand >= cl[c].hand /\ d.upgraded = cl[c].upgraded
    PROVE  IInv'
<1>1. /\ cl \in [Clients -> Client] /\ backlog \in Seq(Clients) /\ closed \in BOOLEAN
      /\ QueueOK /\ StackOK
      /\ \A q \in Clients : ClientOK(q)
    BY DEF IInv, TypeOK
<1>2. /\ cl' \in [Clients -> Client]' /\ \A q \in Clients : ClientOK(q)'
      /\ cl'[c] = d /\ \A q \in Clients \ {c} : cl'[q] = cl[q]
    BY <1>1, ClientsKeep
<1>3. QueueOK'
    BY <1>1, <1>2, QueueKeeps
<1>4. \A f \in Frame : FrameOK(f) => FrameOK(f)'
    <2>. SUFFICES ASSUME NEW f \in Frame, FrameOK(f)
                  PROVE  FrameOK(f)'
        OBVIOUS
    <2>1. f.c \in Clients /\ f.first \in Nat
        BY DEF Frame
    <2>2. cl[c].hand \in Nat /\ d.hand \in Nat
        BY <1>1, SceneProperties DEF IInv, TypeOK, Client
    <2>3. CASE f.c # c
        BY <1>2, <2>1, <2>3 DEF FrameOK
    <2>4. CASE f.c = c
        BY <1>2, <2>1, <2>2, <2>4 DEF FrameOK
    <2>. QED
        BY <2>3, <2>4
<1>5. StackOK'
    BY <1>1, <1>4, StackKeeps
<1>6. TypeOK'
    BY <1>2 DEF IInv, TypeOK
<1>. QED
    BY <1>2, <1>3, <1>5, <1>6 DEF IInv

-----------------------------------------------------------------------------
(* The steps.                                                              *)

\* What every client of a state that is right is.
LEMMA ClientProperties ==
    ASSUME IInv, NEW c \in Clients
    PROVE  /\ cl \in [Clients -> Client] /\ cl[c] \in Client /\ ClientOK(c)
           /\ cl[c].sent \in Nat /\ cl[c].got \in Nat /\ cl[c].hand \in Nat
           /\ cl[c].sent <= Units /\ cl[c].called \in Nat /\ cl[c].greeted \in Nat
           /\ Units \in 1..3 /\ Hello \in 0..1
           /\ c \in Served <=> cl[c].at \in {"new", "reading", "handling"}
<1>1. cl \in [Clients -> Client] /\ scene \in Scenes /\ ClientOK(c)
    BY DEF IInv, TypeOK
<1>2. Units \in 1..3 /\ Hello \in 0..1
    BY <1>1, SceneProperties
<1>. QED
    BY <1>1, <1>2 DEF Client, Served

LEMMA SendStep ==
    ASSUME IInv, NEW c \in Clients, Send(c)
    PROVE  IInv'
<1>. DEFINE d == [cl[c] EXCEPT !.sent = @ + 1, !.job = Woken(cl[c])]
<1>1. PICK n \in 0..Units : n = cl[c].sent + 1
    BY ClientProperties DEF Send
<1>2. PICK j \in {"off", "awake", "resting"} : j = Woken(cl[c])
    BY ClientProperties DEF Woken, Client
<1>3. d = [cl[c] EXCEPT !.sent = n, !.job = j]
    BY <1>1, <1>2
<1>4. d \in Client
    <2>1. [cl[c] EXCEPT !.sent = n, !.job = j] \in Client
        BY ZenonT(60), ClientProperties DEF Client
    <2>. QED
        BY <1>3, <2>1
<1>5. cl' = [cl EXCEPT ![c] = d] /\ cl'[c] = d
      /\ UNCHANGED <<scene, backlog, door, enb, stack, tasks, skipped, closed>>
    BY ClientProperties DEF Send, Set
<1>6. /\ d.at = cl[c].at /\ d.sent = n /\ d.got = cl[c].got /\ d.hand = cl[c].hand
      /\ d.called = cl[c].called /\ d.greeted = cl[c].greeted /\ d.open = cl[c].open
      /\ d.upgraded = cl[c].upgraded /\ d.speech = cl[c].speech
    BY <1>3, ClientProperties DEF Client
<1>. HIDE DEF d
<1>7. ClientOK(c)'
    BY <1>1, <1>5, <1>6, ClientProperties DEF ClientOK
<1>8. SlotsExact' /\ enb' \in Nat
    BY <1>4, <1>5, <1>6, SlotsStep, ClientProperties
<1>9. door' \in {"awake", "resting"}
    BY <1>5 DEF IInv, TypeOK
<1>10. cl[c].at = "handling" =>
          d.at = "handling" /\ d.hand >= cl[c].hand /\ d.upgraded = cl[c].upgraded
    BY <1>6, ClientProperties
<1>. QED
    BY <1>4, <1>5, <1>6, <1>7, <1>8, <1>9, <1>10, OneMoves

LEMMA HangupStep ==
    ASSUME IInv, NEW c \in Clients, Hangup(c)
    PROVE  IInv'
<1>. DEFINE d == [cl[c] EXCEPT !.end = TRUE, !.job = Woken(cl[c])]
<1>2. PICK j \in {"off", "awake", "resting"} : j = Woken(cl[c])
    BY ClientProperties DEF Woken, Client
<1>3. d = [cl[c] EXCEPT !.end = TRUE, !.job = j]
    BY <1>2
<1>4. d \in Client
    <2>1. [cl[c] EXCEPT !.end = TRUE, !.job = j] \in Client
        BY ZenonT(60), ClientProperties DEF Client
    <2>. QED
        BY <1>3, <2>1
<1>5. cl' = [cl EXCEPT ![c] = d] /\ cl'[c] = d
      /\ UNCHANGED <<scene, backlog, door, enb, stack, tasks, skipped, closed>>
    BY ClientProperties DEF Hangup, Set
<1>6. /\ d.at = cl[c].at /\ d.sent = cl[c].sent /\ d.got = cl[c].got /\ d.hand = cl[c].hand
      /\ d.called = cl[c].called /\ d.greeted = cl[c].greeted /\ d.open = cl[c].open
      /\ d.upgraded = cl[c].upgraded /\ d.speech = cl[c].speech
    BY <1>3, ClientProperties DEF Client
<1>. HIDE DEF d
<1>7. ClientOK(c)'
    BY <1>5, <1>6, ClientProperties DEF ClientOK
<1>8. SlotsExact' /\ enb' \in Nat
    BY <1>4, <1>5, <1>6, SlotsStep, ClientProperties
<1>9. door' \in {"awake", "resting"}
    BY <1>5 DEF IInv, TypeOK
<1>10. cl[c].at = "handling" =>
          d.at = "handling" /\ d.hand >= cl[c].hand /\ d.upgraded = cl[c].upgraded
    BY <1>6, ClientProperties
<1>. QED
    BY <1>4, <1>5, <1>6, <1>7, <1>8, <1>9, <1>10, OneMoves

LEMMA RegisterStep ==
    ASSUME IInv, NEW c \in Clients, Register(c)
    PROVE  IInv'
<1>. DEFINE d == [cl[c] EXCEPT !.at = "reading", !.job = "awake"]
<1>4. d \in Client
    BY ZenonT(60), ClientProperties DEF Client
<1>5. cl' = [cl EXCEPT ![c] = d] /\ cl'[c] = d /\ cl[c].at = "new"
      /\ UNCHANGED <<scene, backlog, door, enb, stack, tasks, skipped, closed>>
    BY ClientProperties DEF Register, Set
<1>6. /\ d.at = "reading" /\ d.sent = cl[c].sent /\ d.got = cl[c].got /\ d.hand = cl[c].hand
      /\ d.called = cl[c].called /\ d.greeted = cl[c].greeted /\ d.open = cl[c].open
      /\ d.upgraded = cl[c].upgraded /\ d.speech = cl[c].speech
    BY ClientProperties DEF Client
<1>. HIDE DEF d
<1>7. ClientOK(c)'
    BY <1>5, <1>6, ClientProperties DEF ClientOK
<1>8. SlotsExact' /\ enb' \in Nat
    BY <1>4, <1>5, <1>6, SlotsStep, ClientProperties
<1>9. door' \in {"awake", "resting"}
    BY <1>5 DEF IInv, TypeOK
<1>. QED
    BY <1>4, <1>5, <1>6, <1>7, <1>8, <1>9, OneMoves, ClientProperties

LEMMA ReadBlocksStep ==
    ASSUME IInv, NEW c \in Clients, ReadBlocks(c)
    PROVE  IInv'
<1>. DEFINE d == [cl[c] EXCEPT !.got = cl[c].sent, !.job = "resting"]
<1>4. d \in Client
    BY ZenonT(60), ClientProperties DEF Client
<1>5. cl' = [cl EXCEPT ![c] = d] /\ cl'[c] = d /\ cl[c].at = "reading"
      /\ UNCHANGED <<scene, backlog, door, enb, stack, tasks, skipped, closed>>
    BY ClientProperties DEF ReadBlocks, Reads, Set
<1>6. /\ d.at = "reading" /\ d.sent = cl[c].sent /\ d.got = cl[c].sent /\ d.hand = cl[c].hand
      /\ d.called = cl[c].called /\ d.greeted = cl[c].greeted /\ d.open = cl[c].open
      /\ d.upgraded = cl[c].upgraded /\ d.speech = cl[c].speech
    BY <1>5, ClientProperties DEF Client
<1>. HIDE DEF d
<1>7. ClientOK(c)'
    BY <1>5, <1>6, ClientProperties DEF ClientOK
<1>8. SlotsExact' /\ enb' \in Nat
    BY <1>4, <1>5, <1>6, SlotsStep, ClientProperties
<1>9. door' \in {"awake", "resting"}
    BY <1>5 DEF IInv, TypeOK
<1>. QED
    BY <1>4, <1>5, <1>6, <1>7, <1>8, <1>9, OneMoves, ClientProperties

\* A client that left before it said anything gives its place back.
LEMMA ReadFailsStep ==
    ASSUME IInv, NEW c \in Clients, ReadFails(c)
    PROVE  IInv'
<1>. DEFINE d == [Leaves(c, cl[c]) EXCEPT !.got = cl[c].sent, !.open = FALSE]
<1>4. d \in Client
    BY ZenonT(60), ClientProperties DEF Client, Leaves
<1>5. cl' = [cl EXCEPT ![c] = d] /\ cl'[c] = d /\ cl[c].at = "reading" /\ enb' = enb - 1
      /\ UNCHANGED <<scene, backlog, door, stack, tasks, skipped, closed>>
    BY ClientProperties DEF ReadFails, Reads, Set
<1>6. /\ d.at = "done" /\ d.sent = cl[c].sent /\ d.got = cl[c].sent /\ d.hand = cl[c].hand
      /\ d.called = cl[c].called /\ d.greeted = cl[c].greeted
      /\ d.upgraded = cl[c].upgraded /\ d.speech = cl[c].speech
    BY <1>5, ClientProperties DEF Client, Leaves
<1>. HIDE DEF d
<1>7. ClientOK(c)'
    BY <1>5, <1>6, ClientProperties DEF ClientOK
<1>8. SlotsExact' /\ enb' \in Nat
    BY <1>4, <1>5, <1>6, SlotsStep, ClientProperties
<1>9. door' \in {"awake", "resting"}
    BY <1>5 DEF IInv, TypeOK
<1>. QED
    BY <1>4, <1>5, <1>6, <1>7, <1>8, <1>9, OneMoves, ClientProperties

LEMMA ConnectStep ==
    ASSUME IInv, NEW c \in Clients, Connect(c)
    PROVE  IInv'
<1>1. PICK s \in scene.talk : cl' = [cl EXCEPT ![c] = [cl[c] EXCEPT !.at = "backlog", !.speech = s]]
    BY DEF Connect, Set
<1>2. s \in SPEECHES
    BY SceneProperties DEF IInv, TypeOK
<1>. DEFINE d == [cl[c] EXCEPT !.at = "backlog", !.speech = s]
            n == Len(backlog)
<1>4. d \in Client
    BY ZenonT(60), <1>2, ClientProperties DEF Client
<1>5. cl' = [cl EXCEPT ![c] = d] /\ cl'[c] = d /\ cl[c].at = "none" /\ c \in scene.crowd
      /\ backlog' = Append(backlog, c) /\ door' = "awake"
      /\ UNCHANGED <<scene, enb, stack, tasks, skipped, closed>>
    BY <1>1, ClientProperties DEF Connect
<1>6. /\ d.at = "backlog" /\ d.sent = cl[c].sent /\ d.got = cl[c].got /\ d.hand = cl[c].hand
      /\ d.called = cl[c].called /\ d.greeted = cl[c].greeted /\ d.open = cl[c].open
      /\ d.upgraded = cl[c].upgraded
    BY ClientProperties DEF Client
<1>. HIDE DEF d
<1>7. ClientOK(c)'
    BY <1>5, <1>6, ClientProperties DEF ClientOK
<1>8. SlotsExact' /\ enb' \in Nat
    BY <1>4, <1>5, <1>6, SlotsStep, ClientProperties
<1>9. /\ backlog \in Seq(Clients) /\ n \in Nat /\ \A i \in 1..n : backlog[i] \in Clients
      /\ cl \in [Clients -> Client] /\ closed \in BOOLEAN /\ StackOK /\ QueueOK
      /\ \A q \in Clients : ClientOK(q)
    BY LenProperties DEF IInv, TypeOK
<1>10. /\ cl' \in [Clients -> Client]' /\ \A q \in Clients : ClientOK(q)'
       /\ \A q \in Clients \ {c} : cl'[q] = cl[q]
    BY <1>4, <1>5, <1>7, <1>9, ClientsKeep
<1>11. /\ backlog' \in Seq(Clients) /\ Len(backlog') = n + 1 /\ backlog'[n + 1] = c
       /\ \A i \in 1..n : backlog'[i] = backlog[i]
    BY <1>5, <1>9, AppendProperties
<1>12. \A i \in 1..(n + 1) : i \in 1..n \/ i = n + 1
    BY <1>9
<1>13. \A i \in 1..n : backlog[i] # c
    BY <1>5, <1>9 DEF QueueOK
<1>14. QueueOK'
    BY <1>5, <1>6, <1>9, <1>10, <1>11, <1>12, <1>13 DEF QueueOK
<1>15. \A f \in Frame : FrameOK(f) => FrameOK(f)'
    BY <1>5, <1>10 DEF FrameOK, Frame
<1>16. StackOK'
    BY <1>5, <1>9, <1>15, StackKeeps
<1>17. TypeOK'
    BY <1>5, <1>8, <1>10, <1>11 DEF IInv, TypeOK
<1>. QED
    BY <1>5, <1>8, <1>10, <1>14, <1>16, <1>17 DEF IInv

\* The first in the queue gets a place.
LEMMA AcceptStep ==
    ASSUME IInv, Accept
    PROVE  IInv'
<1>. DEFINE n == Len(backlog)
<1>1. /\ backlog \in Seq(Clients) /\ n \in Nat /\ \A i \in 1..n : backlog[i] \in Clients
      /\ cl \in [Clients -> Client] /\ closed \in BOOLEAN /\ StackOK /\ QueueOK
      /\ backlog # <<>>
      /\ \A q \in Clients : ClientOK(q)
    BY LenProperties DEF IInv, TypeOK, Accept
<1>2. /\ n # 0 /\ Head(backlog) = backlog[1]
      /\ Tail(backlog) \in Seq(Clients) /\ Len(Tail(backlog)) = n - 1
      /\ \A i \in 1..(n - 1) : Tail(backlog)[i] = backlog[i + 1]
    BY <1>1, HeadTailProperties, EmptySeq
<1>3. \A i \in 1..(n - 1) : i + 1 \in 1..n /\ i + 1 # 1
    BY <1>1
<1>3a. 1 \in 1..n
    BY <1>1, <1>2
<1>4. PICK c \in Clients : c = Head(backlog)
    BY <1>1, <1>2, <1>3a
<1>. DEFINE d == [cl[c] EXCEPT !.at = "new"]
<1>5. d \in Client
    BY ClientProperties DEF Client
<1>6. cl' = [cl EXCEPT ![c] = d] /\ cl'[c] = d /\ cl[c].at = "backlog"
      /\ backlog' = Tail(backlog) /\ enb' = enb + 1 /\ enb <= MaxBatch
      /\ UNCHANGED <<scene, door, stack, tasks, skipped, closed>>
    BY <1>1, <1>2, <1>3a, <1>4 DEF Accept, Set, QueueOK
<1>7. /\ d.at = "new" /\ d.sent = cl[c].sent /\ d.got = cl[c].got /\ d.hand = cl[c].hand
      /\ d.called = cl[c].called /\ d.greeted = cl[c].greeted /\ d.open = cl[c].open
      /\ d.upgraded = cl[c].upgraded
    BY ClientProperties DEF Client
<1>. HIDE DEF d
<1>8. ClientOK(c)'
    BY <1>6, <1>7, ClientProperties DEF ClientOK
<1>9. SlotsExact' /\ enb' \in Nat
    BY <1>5, <1>6, <1>7, SlotsStep, ClientProperties
<1>10. /\ cl' \in [Clients -> Client]' /\ \A q \in Clients : ClientOK(q)'
       /\ \A q \in Clients \ {c} : cl'[q] = cl[q]
    BY <1>1, <1>5, <1>6, <1>8, ClientsKeep
<1>11. QueueOK'
    <2>1. \A i \in 1..(n - 1) : backlog'[i] = backlog[i + 1] /\ backlog[i + 1] # c
        BY <1>1, <1>2, <1>3, <1>3a, <1>4, <1>6 DEF QueueOK
    <2>2. Len(backlog') = n - 1
        BY <1>2, <1>6
    <2>3. \A i \in 1..(n - 1) : cl'[backlog'[i]].at = "backlog"
        BY <1>1, <1>3, <1>10, <2>1 DEF QueueOK
    <2>4. ASSUME NEW i \in 1..(n - 1), NEW j \in 1..(n - 1), backlog'[i] = backlog'[j]
          PROVE  i = j
        <3>1. i + 1 = j + 1
            BY <1>1, <1>3, <2>1, <2>4 DEF QueueOK
        <3>. QED
            BY <1>1, <3>1
    <2>. QED
        BY <2>2, <2>3, <2>4 DEF QueueOK
<1>12. \A f \in Frame : FrameOK(f) => FrameOK(f)'
    BY <1>6, <1>10 DEF FrameOK, Frame
<1>13. StackOK'
    BY <1>1, <1>6, <1>12, StackKeeps
<1>14. TypeOK'
    <2>1. backlog' \in Seq(Clients)
        BY <1>2, <1>6
    <2>2. door' \in {"awake", "resting"} /\ scene' \in Scenes
          /\ tasks' \subseteq Clients /\ skipped' \in BOOLEAN /\ closed' \in BOOLEAN
        BY <1>6 DEF IInv, TypeOK
    <2>. QED
        BY <2>1, <2>2, <1>9, <1>10 DEF TypeOK
<1>. QED
    BY <1>6, <1>9, <1>10, <1>11, <1>13, <1>14 DEF IInv

LEMMA CloseStep ==
    ASSUME IInv, CloseServer \/ AcceptFull \/ AcceptNone \/ UNCHANGED vars
    PROVE  IInv'
<1>1. /\ UNCHANGED <<scene, cl, backlog, enb, stack, tasks, skipped>>
      /\ (closed => closed') /\ closed' \in BOOLEAN
      /\ door' \in {"awake", "resting"}
    BY DEF CloseServer, AcceptFull, AcceptNone, vars, IInv, TypeOK
<1>2. \A q \in Clients : ClientOK(q)'
    BY <1>1 DEF IInv, ClientOK
<1>3. QueueOK'
    BY <1>1 DEF IInv, QueueOK
<1>4. \A f \in Frame : FrameOK(f) => FrameOK(f)'
    BY <1>1 DEF FrameOK
<1>5. StackOK'
    BY <1>1, <1>4, StackKeeps DEF IInv
<1>6. TypeOK'
    <2>1. Client' = Client
        BY <1>1, SameClient
    <2>2. cl' \in [Clients -> Client]'
        BY <1>1, <2>1 DEF IInv, TypeOK
    <2>3. /\ scene' \in Scenes /\ backlog' \in Seq(Clients) /\ enb' \in Nat
          /\ tasks' \subseteq Clients /\ skipped' \in BOOLEAN
        BY <1>1 DEF IInv, TypeOK
    <2>. QED
        BY <1>1, <2>2, <2>3 DEF TypeOK
<1>7. SlotsExact'
    BY <1>1 DEF IInv, SlotsExact
<1>. QED
    BY <1>1, <1>2, <1>3, <1>5, <1>6, <1>7 DEF IInv

-----------------------------------------------------------------------------
(* The steps of the innermost handler, and of those that bring one.        *)

\* The innermost handler, f, is that of a client no other handler is for.
LEMMA TopProperties ==
    ASSUME IInv, stack # <<>>
    PROVE  \E f \in Frame, n \in Nat \ {0} :
              /\ n = Len(stack) /\ f = stack[n] /\ f = Top /\ FrameOK(f)
              /\ \A i \in 1..n : stack[i] \in Frame /\ FrameOK(stack[i])
              /\ \A i \in 1..(n - 1) : i \in 1..n /\ stack[i].c # f.c
<1>1. stack \in Seq(Frame) /\ StackOK
    BY DEF IInv, StackOK
<1>2. Len(stack) \in Nat /\ Len(stack) # 0
    BY <1>1, LenProperties, EmptySeq
<1>3. \A i \in 1..Len(stack) : stack[i] \in Frame /\ FrameOK(stack[i])
    BY <1>1, LenProperties DEF StackOK
<1>4. Len(stack) \in 1..Len(stack)
    BY <1>2
<1>5. \A i \in 1..(Len(stack) - 1) : i \in 1..Len(stack) /\ i # Len(stack)
    BY <1>2
<1>6. \A i \in 1..(Len(stack) - 1) : stack[i].c # stack[Len(stack)].c
    BY <1>1, <1>4, <1>5 DEF StackOK
<1>. QED
    BY <1>2, <1>3, <1>4, <1>5, <1>6 DEF Top

LEMMA ReadMoreStep ==
    ASSUME IInv, ReadMore
    PROVE  IInv'
<1>1. PICK f \in Frame : f = Top /\ FrameOK(f)
    BY TopProperties DEF ReadMore
<1>2. PICK c \in Clients : c = f.c
    BY DEF Frame
<1>3. cl[c].at = "handling" /\ Top.c = c
    BY <1>1, <1>2 DEF FrameOK
<1>4. cl[c].got <= cl[c].sent /\ cl[c].hand <= cl[c].got
    BY ClientProperties DEF ClientOK
<1>5. PICK g \in 0..Units, h \in 0..Units :
         g = cl[c].got + Unread(c) /\ h = cl[c].hand + Unread(c)
    BY <1>4, ClientProperties DEF Unread
<1>. DEFINE d == [cl[c] EXCEPT !.got = g, !.hand = h]
<1>6. d \in Client
    BY ClientProperties DEF Client
<1>7. cl' = [cl EXCEPT ![c] = d] /\ cl'[c] = d
      /\ UNCHANGED <<scene, backlog, door, enb, stack, tasks, skipped, closed>>
    BY <1>3, <1>5, ClientProperties DEF ReadMore, Set
<1>8. /\ d.at = "handling" /\ d.sent = cl[c].sent /\ d.got = g /\ d.hand = h
      /\ d.called = cl[c].called /\ d.greeted = cl[c].greeted /\ d.open = cl[c].open
      /\ d.upgraded = cl[c].upgraded /\ d.speech = cl[c].speech
    BY <1>3, ClientProperties DEF Client
<1>. HIDE DEF d
<1>9. g = cl[c].sent /\ h <= g /\ h >= cl[c].hand
    BY <1>4, <1>5, ClientProperties DEF Unread
<1>10. ClientOK(c)'
    BY <1>3, <1>7, <1>8, <1>9, ClientProperties DEF ClientOK
<1>11. SlotsExact' /\ enb' \in Nat
    BY <1>3, <1>6, <1>7, <1>8, SlotsStep, ClientProperties
<1>12. door' \in {"awake", "resting"}
    BY <1>7 DEF IInv, TypeOK
<1>. QED
    BY <1>3, <1>6, <1>7, <1>8, <1>9, <1>10, <1>11, <1>12, OneMoves, ClientProperties

\* When the innermost handler is under way as g, or over, and its client
\* becomes d.  Nothing a step of it does disturbs the others.
LEMMA TopMoves ==
    ASSUME IInv, NEW n \in Nat \ {0}, n = Len(stack), NEW f \in Frame, f = stack[n],
           NEW c \in Clients, c = f.c, NEW d \in Client, cl' = [cl EXCEPT ![c] = d],
           \A i \in 1..n : stack[i] \in Frame /\ FrameOK(stack[i]),
           \A i \in 1..(n - 1) : i \in 1..n /\ stack[i].c # c,
           cl[c].at = "handling",
           UNCHANGED <<scene, backlog, door, closed>>,
           skipped => skipped', skipped' \in BOOLEAN, skipped' => scene.proto = "ws",
           tasks' \subseteq tasks \cup {c}, tasks \subseteq tasks',
           SlotsExact', enb' \in Nat, ClientOK(c)',
           \/ stack' = SubSeq(stack, 1, n - 1)
           \/ \E g \in Frame : /\ stack' = [stack EXCEPT ![n] = g]
                               /\ g.c = c /\ FrameOK(g)'
    PROVE  IInv'
<1>1. /\ cl \in [Clients -> Client] /\ backlog \in Seq(Clients) /\ closed \in BOOLEAN
      /\ tasks \subseteq Clients /\ QueueOK /\ StackOK /\ stack \in Seq(Frame)
      /\ \A q \in Clients : ClientOK(q)
    BY DEF IInv, TypeOK, StackOK
<1>2. /\ cl' \in [Clients -> Client]' /\ \A q \in Clients : ClientOK(q)'
      /\ cl'[c] = d /\ \A q \in Clients \ {c} : cl'[q] = cl[q]
    BY <1>1, ClientsKeep
<1>3. QueueOK'
    BY <1>1, <1>2, QueueKeeps
<1>4. \A i \in 1..(n - 1) : stack[i].c \in Clients \ {c}
    BY DEF Frame
<1>5. ASSUME NEW e \in Frame, FrameOK(e), e.c \in Clients \ {c}
      PROVE  FrameOK(e)'
    <2>1. cl'[e.c] = cl[e.c]
        BY <1>2, <1>5
    <2>. QED
        BY <1>5, <2>1 DEF FrameOK
<1>6. StackOK'
    <2>1. CASE stack' = SubSeq(stack, 1, n - 1)
        <3>1. /\ stack' \in Seq(Frame) /\ Len(stack') = n - 1
              /\ \A i \in 1..(n - 1) : stack'[i] = stack[i]
            BY <1>1, <2>1, SubSeqProperties
        <3>2. \A i, j \in 1..(n - 1) : stack[i].c = stack[j].c => i = j
            BY <1>1 DEF StackOK
        <3>3. ASSUME NEW i \in 1..(n - 1), NEW e, e = stack[i]
              PROVE  FrameOK(e)'
            BY <1>4, <1>5, <3>3
        <3>4. \A i \in 1..(n - 1), e \in Frame : e = stack[i] => FrameOK(e)'
            BY <3>3
        <3>5. \A i \in 1..(n - 1) : stack[i] \in Frame
            OBVIOUS
        <3>. QED
            BY <3>1, <3>2, <3>4, <3>5 DEF StackOK, FrameOK
    <2>2. ASSUME NEW g \in Frame, stack' = [stack EXCEPT ![n] = g], g.c = c, FrameOK(g)'
          PROVE  StackOK'
        <3>1. /\ stack' \in Seq(Frame) /\ Len(stack') = n /\ stack'[n] = g
              /\ \A i \in 1..n : i # n => stack'[i] = stack[i]
            BY <1>1, <2>2, ExceptSeq
        <3>2. \A i \in 1..n : i # n => i \in 1..(n - 1)
            OBVIOUS
        <3>3. \A i \in 1..n : stack'[i].c = stack[i].c
            BY <2>2, <3>1
        <3>4. \A i, j \in 1..n : stack[i].c = stack[j].c => i = j
            BY <1>1 DEF StackOK
        <3>5. ASSUME NEW i \in 1..n, NEW e \in Frame, e = stack'[i]
              PROVE  FrameOK(e)'
            <4>1. CASE i = n
                BY <2>2, <3>1, <3>5, <4>1
            <4>2. CASE i # n
                BY <1>4, <1>5, <3>1, <3>2, <3>5, <4>2
            <4>. QED
                BY <4>1, <4>2
        <3>6. \A i \in 1..n, e \in Frame : e = stack'[i] => FrameOK(e)'
            BY <3>5
        <3>7. \A i \in 1..n : stack'[i] \in Frame
            BY <2>2, <3>1
        <3>. QED
            BY <3>1, <3>3, <3>4, <3>6, <3>7 DEF StackOK, FrameOK
    <2>. QED
        BY <2>1, <2>2
<1>7. TypeOK'
    <2>1. /\ scene' \in Scenes /\ backlog' \in Seq(Clients) /\ door' \in {"awake", "resting"}
          /\ tasks' \subseteq Clients /\ closed' \in BOOLEAN
        BY <1>1 DEF IInv, TypeOK
    <2>. QED
        BY <2>1, <1>2 DEF TypeOK
<1>. QED
    BY <1>2, <1>3, <1>6, <1>7 DEF IInv

\* The client is upgraded: its task is to greet it.
LEMMA HandUpgradesStep ==
    ASSUME IInv, HandUpgrades
    PROVE  IInv'
<1>1. PICK f \in Frame, n \in Nat \ {0} :
         /\ n = Len(stack) /\ f = stack[n] /\ f = Top /\ FrameOK(f)
         /\ \A i \in 1..n : stack[i] \in Frame /\ FrameOK(stack[i])
         /\ \A i \in 1..(n - 1) : i \in 1..n /\ stack[i].c # f.c
    BY TopProperties DEF HandUpgrades
<1>2. PICK c \in Clients : c = f.c
    BY DEF Frame
<1>3. /\ cl[c].at = "handling" /\ Top.c = c /\ f.stage = "hand" /\ scene.proto = "ws"
      /\ ~cl[c].upgraded /\ f.first > 0 /\ f.first <= cl[c].hand
    BY <1>1, <1>2 DEF FrameOK, HandUpgrades
<1>. DEFINE d == [cl[c] EXCEPT !.upgraded = TRUE, !.open = FALSE]
<1>4. d \in Client
    BY ZenonT(60), ClientProperties DEF Client
<1>5. PICK g \in Frame :
         g = [f EXCEPT !.stage = "func"] /\ g.c = c /\ g.stage = "func" /\ g.first = f.first
    <2>1. [f EXCEPT !.stage = "func"] \in Frame
        BY DEF Frame
    <2>2. /\ [f EXCEPT !.stage = "func"].c = c /\ [f EXCEPT !.stage = "func"].stage = "func"
          /\ [f EXCEPT !.stage = "func"].first = f.first
        BY <1>2 DEF Frame
    <2>. QED
        BY <2>1, <2>2
<1>6. cl' = [cl EXCEPT ![c] = d] /\ cl'[c] = d /\ tasks' = tasks \cup {c}
      /\ UNCHANGED <<scene, backlog, door, enb, skipped, closed>>
    BY <1>3, ClientProperties DEF HandUpgrades, Set
<1>7. stack' = [stack EXCEPT ![n] = g]
    BY <1>1, <1>5 DEF HandUpgrades, ToFunc
<1>8. /\ d.at = "handling" /\ d.sent = cl[c].sent /\ d.got = cl[c].got /\ d.hand = cl[c].hand
      /\ d.called = cl[c].called /\ d.greeted = cl[c].greeted /\ d.upgraded
      /\ d.speech = cl[c].speech
    BY <1>3, ClientProperties DEF Client
<1>. HIDE DEF d
<1>9. ClientOK(c)'
    BY <1>3, <1>6, <1>8, ClientProperties DEF ClientOK
<1>10. SlotsExact' /\ enb' \in Nat
    BY <1>3, <1>4, <1>6, <1>8, SlotsStep, ClientProperties
<1>11. FrameOK(g)'
    BY <1>3, <1>5, <1>6, <1>8 DEF FrameOK
<1>12. /\ (skipped => skipped') /\ skipped' \in BOOLEAN /\ (skipped' => scene.proto = "ws")
       /\ tasks' \subseteq tasks \cup {c} /\ tasks \subseteq tasks'
    BY <1>3, <1>6 DEF IInv, TypeOK
<1>. QED
    BY ZenonT(60), <1>1, <1>2, <1>3, <1>4, <1>5, <1>6, <1>7, <1>9, <1>10, <1>11, <1>12, TopMoves

\* The client is not: onConnect is skipped.
LEMMA HandDeclinesStep ==
    ASSUME IInv, HandDeclines
    PROVE  IInv'
<1>1. PICK f \in Frame, n \in Nat \ {0} :
         /\ n = Len(stack) /\ f = stack[n] /\ f = Top /\ FrameOK(f)
         /\ \A i \in 1..n : stack[i] \in Frame /\ FrameOK(stack[i])
         /\ \A i \in 1..(n - 1) : i \in 1..n /\ stack[i].c # f.c
    BY TopProperties DEF HandDeclines
<1>2. PICK c \in Clients : c = f.c
    BY DEF Frame
<1>3. /\ cl[c].at = "handling" /\ Top.c = c /\ f.stage = "hand" /\ scene.proto = "ws"
      /\ ~cl[c].upgraded /\ f.first > 0 /\ f.first <= cl[c].hand /\ f.first \in Nat
    BY <1>1, <1>2 DEF FrameOK, HandDeclines, Frame
<1>3a. PICK h \in 0..Units : h = f.first
    BY <1>3, ClientProperties DEF ClientOK
<1>. DEFINE d == [cl[c] EXCEPT !.hand = h]
<1>4. d \in Client
    BY ClientProperties DEF Client
<1>5. PICK g \in Frame :
         g = [f EXCEPT !.stage = "func"] /\ g.c = c /\ g.stage = "func" /\ g.first = f.first
    <2>1. [f EXCEPT !.stage = "func"] \in Frame
        BY DEF Frame
    <2>2. /\ [f EXCEPT !.stage = "func"].c = c /\ [f EXCEPT !.stage = "func"].stage = "func"
          /\ [f EXCEPT !.stage = "func"].first = f.first
        BY <1>2 DEF Frame
    <2>. QED
        BY <2>1, <2>2
<1>6. cl' = [cl EXCEPT ![c] = d] /\ cl'[c] = d /\ skipped' = TRUE
      /\ UNCHANGED <<scene, backlog, door, enb, tasks, closed>>
    BY <1>1, <1>3, <1>3a, ClientProperties DEF HandDeclines, Set
<1>7. stack' = [stack EXCEPT ![n] = g]
    BY <1>1, <1>5 DEF HandDeclines, ToFunc
<1>8. /\ d.at = "handling" /\ d.sent = cl[c].sent /\ d.got = cl[c].got /\ d.hand = h
      /\ d.called = cl[c].called /\ d.greeted = cl[c].greeted /\ ~d.upgraded
      /\ d.speech = cl[c].speech /\ d.open = cl[c].open
    BY <1>3, ClientProperties DEF Client
<1>. HIDE DEF d
<1>9. ClientOK(c)'
    BY <1>3, <1>3a, <1>6, <1>8, ClientProperties DEF ClientOK
<1>10. SlotsExact' /\ enb' \in Nat
    BY <1>3, <1>4, <1>6, <1>8, SlotsStep, ClientProperties
<1>11. FrameOK(g)'
    BY <1>3, <1>3a, <1>5, <1>6, <1>8 DEF FrameOK
<1>12. /\ (skipped => skipped') /\ skipped' \in BOOLEAN /\ (skipped' => scene.proto = "ws")
       /\ tasks' \subseteq tasks \cup {c} /\ tasks \subseteq tasks'
    BY <1>3, <1>6 DEF IInv, TypeOK
<1>. QED
    BY ZenonT(60), <1>1, <1>2, <1>3, <1>4, <1>5, <1>6, <1>7, <1>9, <1>10, <1>11, <1>12, TopMoves

LEMMA FuncEndsStep ==
    ASSUME IInv, FuncEnds
    PROVE  IInv'
<1>1. PICK f \in Frame, n \in Nat \ {0} :
         /\ n = Len(stack) /\ f = stack[n] /\ f = Top /\ FrameOK(f)
         /\ \A i \in 1..n : stack[i] \in Frame /\ FrameOK(stack[i])
         /\ \A i \in 1..(n - 1) : i \in 1..n /\ stack[i].c # f.c
    BY TopProperties DEF FuncEnds
<1>2. PICK c \in Clients : c = f.c
    BY DEF Frame
<1>3. /\ cl[c].at = "handling" /\ Top.c = c /\ f.stage = "func"
      /\ OneByOne /\ scene.proto = "ws" => closed \/ skipped \/ cl[c].upgraded
    BY <1>1, <1>2 DEF FrameOK, FuncEnds
<1>4. /\ cl[c].hand > 0 /\ cl[c].called = 0 /\ scene.proto # "tcp"
      /\ ~cl[c].upgraded => cl[c].open /\ cl[c].greeted = 0 /\ c \notin tasks
      /\ cl[c].upgraded => scene.proto = "ws"
      /\ c \in tasks => cl[c].greeted = 0
      /\ cl[c].greeted <= 1 /\ cl[c].hand <= cl[c].got /\ cl[c].got <= cl[c].sent
      /\ c \in scene.crowd
    BY <1>3, ClientProperties DEF ClientOK
<1>5. skipped \in BOOLEAN /\ closed \in BOOLEAN /\ (skipped => scene.proto = "ws")
      /\ scene.proto \in PROTOCOLS
    BY SceneProperties DEF IInv, TypeOK
<1>. DEFINE d == Leaves(c, Handled(cl[c]))
<1>6. /\ d \in Client /\ d.at = "done" /\ d.sent = cl[c].sent /\ d.got = cl[c].got
      /\ d.hand = cl[c].hand /\ d.upgraded = cl[c].upgraded /\ d.speech = cl[c].speech
      /\ cl[c].upgraded => d.called = 0 /\ d.greeted = cl[c].greeted
      /\ ~cl[c].upgraded =>
            /\ d.called = IF cl[c].speech = "bad" THEN 0 ELSE 1
            /\ d.greeted = IF closed \/ skipped THEN 0 ELSE d.called
    <2>1. CASE cl[c].upgraded
        <3>1. d = [cl[c] EXCEPT !.at = "done", !.job = "off"]
            BY <2>1 DEF Handled, Leaves
        <3>2. d \in Client
            BY <3>1, ClientProperties DEF Client
        <3>3. /\ d.at = "done" /\ d.sent = cl[c].sent /\ d.got = cl[c].got
              /\ d.hand = cl[c].hand /\ d.upgraded = cl[c].upgraded
              /\ d.speech = cl[c].speech /\ d.called = cl[c].called
              /\ d.greeted = cl[c].greeted
            BY <3>1, ClientProperties DEF Client
        <3>. HIDE DEF d
        <3>. QED
            BY <1>4, <2>1, <3>2, <3>3
    <2>2. CASE ~cl[c].upgraded /\ cl[c].speech = "bad"
        <3>1. d = [cl[c] EXCEPT !.open = FALSE, !.at = "done", !.job = "off"]
            BY <2>2 DEF Handled, Leaves
        <3>2. d \in Client
            BY <3>1, ClientProperties DEF Client
        <3>3. /\ d.at = "done" /\ d.sent = cl[c].sent /\ d.got = cl[c].got
              /\ d.hand = cl[c].hand /\ d.upgraded = cl[c].upgraded
              /\ d.speech = cl[c].speech /\ d.called = cl[c].called
              /\ d.greeted = cl[c].greeted
            BY <3>1, ClientProperties DEF Client
        <3>4. d.called = 0 /\ d.greeted = 0
            BY <1>4, <2>2, <3>3
        <3>. HIDE DEF d
        <3>. QED
            BY <2>2, <3>2, <3>3, <3>4
    <2>3. CASE ~cl[c].upgraded /\ cl[c].speech # "bad"
        <3>. DEFINE e == [cl[c] EXCEPT !.called = @ + 1]
        <3>1. PICK k \in {1} : k = cl[c].called + 1
            BY <1>4
        <3>2. e = [cl[c] EXCEPT !.called = k]
            BY <3>1
        <3>3. /\ e \in Client /\ e.called = 1 /\ e.greeted = 0 /\ e.at = "handling"
              /\ e.sent = cl[c].sent /\ e.got = cl[c].got /\ e.hand = cl[c].hand
              /\ e.upgraded = cl[c].upgraded /\ e.speech = cl[c].speech
            <4>1. [cl[c] EXCEPT !.called = k] \in Client
                BY ClientProperties DEF Client
            <4>. QED
                BY <1>3, <1>4, <2>3, <3>1, <3>2, <4>1, ClientProperties DEF Client
        <3>4. d = Leaves(c, Greets(e))
            BY <1>4, <2>3 DEF Handled
        <3>. HIDE DEF e
        <3>5. PICK m \in {1} : m = e.greeted + 1
            BY <3>3
        <3>6. CASE closed \/ skipped
            <4>1. d = [e EXCEPT !.at = "done", !.job = "off"]
                BY <3>4, <3>6 DEF Greets, Leaves
            <4>2. d \in Client
                BY <3>3, <4>1 DEF Client
            <4>. QED
                BY <2>3, <3>3, <3>6, <4>1, <4>2 DEF Client
        <3>7. CASE ~(closed \/ skipped)
            <4>1. d = [e EXCEPT !.greeted = m, !.at = "done", !.job = "off"]
                BY <3>4, <3>5, <3>7 DEF Greets, Leaves
            <4>2. d \in Client
                BY <3>3, <4>1 DEF Client
            <4>. QED
                BY <2>3, <3>3, <3>5, <3>7, <4>1, <4>2 DEF Client
        <3>. QED
            BY <3>6, <3>7
    <2>. QED
        BY <2>1, <2>2, <2>3
<1>7. cl' = [cl EXCEPT ![c] = d] /\ cl'[c] = d /\ enb' = enb - 1
      /\ UNCHANGED <<scene, backlog, door, tasks, skipped, closed>>
    BY <1>3, ClientProperties DEF FuncEnds, Set
<1>8. stack' = SubSeq(stack, 1, n - 1)
    BY <1>1 DEF FuncEnds, Pop
<1>. HIDE DEF d
<1>9. ClientOK(c)'
    BY <1>3, <1>4, <1>5, <1>6, <1>7, ClientProperties DEF ClientOK, PROTOCOLS
<1>10. SlotsExact' /\ enb' \in Nat
    BY <1>3, <1>6, <1>7, SlotsStep, ClientProperties
<1>11. /\ (skipped => skipped') /\ skipped' \in BOOLEAN /\ (skipped' => scene.proto = "ws")
       /\ tasks' \subseteq tasks \cup {c} /\ tasks \subseteq tasks'
    BY <1>5, <1>7
<1>. QED
    BY ZenonT(60), <1>1, <1>2, <1>3, <1>6, <1>7, <1>8, <1>9, <1>10, <1>11, TopMoves

\* The task of an upgraded client greets it, and resumes onConnect: the only
\* client of its server, if OneByOne, is upgraded.
LEMMA UpgradeStep ==
    ASSUME IInv, NEW c \in Clients, Upgrade(c)
    PROVE  IInv'
<1>1. /\ cl[c].upgraded /\ cl[c].greeted = 0 /\ scene.proto = "ws" /\ cl[c].called = 0
      /\ cl[c].at \notin {"none", "backlog", "new", "reading"} /\ c \in scene.crowd
      /\ cl[c].hand <= cl[c].got /\ cl[c].got <= cl[c].sent
      /\ cl[c].at = "handling" => cl[c].hand > 0
    BY ClientProperties DEF Upgrade, ClientOK
<1>2. PICK g \in 0..2 : g <= 1 /\ g = IF closed THEN cl[c].greeted ELSE cl[c].greeted + 1
    BY <1>1
<1>. DEFINE d == [cl[c] EXCEPT !.open = TRUE, !.greeted = g]
<1>3. d \in Client
    BY ZenonT(60), ClientProperties DEF Client
<1>4. cl' = [cl EXCEPT ![c] = d] /\ cl'[c] = d /\ tasks' = tasks \ {c} /\ skipped' = FALSE
      /\ UNCHANGED <<scene, backlog, door, enb, stack, closed>>
    BY <1>2, ClientProperties DEF Upgrade, Set
<1>5. /\ d.at = cl[c].at /\ d.sent = cl[c].sent /\ d.got = cl[c].got /\ d.hand = cl[c].hand
      /\ d.called = cl[c].called /\ d.greeted = g /\ d.open
      /\ d.upgraded = cl[c].upgraded /\ d.speech = cl[c].speech
    BY ClientProperties DEF Client
<1>. HIDE DEF d
<1>6. ClientOK(c)'
    BY <1>1, <1>2, <1>4, <1>5, ClientProperties DEF ClientOK
<1>7. SlotsExact' /\ enb' \in Nat
    BY <1>3, <1>4, <1>5, SlotsStep, ClientProperties
<1>8. /\ cl \in [Clients -> Client] /\ backlog \in Seq(Clients) /\ closed \in BOOLEAN
      /\ QueueOK /\ StackOK /\ scene \in Scenes
      /\ \A q \in Clients : ClientOK(q)
    BY DEF IInv, TypeOK
<1>9. /\ cl' \in [Clients -> Client]' /\ \A q \in Clients : ClientOK(q)'
      /\ \A q \in Clients \ {c} : cl'[q] = cl[q]
    BY <1>3, <1>4, <1>6, <1>8, ClientsKeep
<1>10. QueueOK'
    BY <1>1, <1>4, <1>8, <1>9, QueueKeeps
<1>11. ASSUME NEW f \in Frame, FrameOK(f)
       PROVE  FrameOK(f)'
    <2>1. f.c \in Clients /\ cl[f.c].at = "handling"
        BY <1>11 DEF Frame, FrameOK
    <2>2. f.c \in scene.crowd
        BY <1>8, <2>1 DEF ClientOK
    <2>3. OneByOne => f.c = c
        BY <1>1, <1>8, <2>2 DEF OneByOne
    <2>4. /\ cl'[f.c].at = cl[f.c].at /\ cl'[f.c].hand = cl[f.c].hand
          /\ cl'[f.c].upgraded = cl[f.c].upgraded
        BY <1>4, <1>5, <1>9, <2>1
    <2>. QED
        BY <1>1, <1>4, <1>11, <2>3, <2>4 DEF FrameOK
<1>12. StackOK'
    BY <1>4, <1>8, <1>11, StackKeeps
<1>13. TypeOK'
    <2>1. /\ scene' \in Scenes /\ backlog' \in Seq(Clients) /\ door' \in {"awake", "resting"}
          /\ tasks' \subseteq Clients /\ closed' \in BOOLEAN /\ skipped' \in BOOLEAN
        BY <1>4 DEF IInv, TypeOK
    <2>. QED
        BY <2>1, <1>7, <1>9 DEF TypeOK
<1>. QED
    BY <1>4, <1>7, <1>9, <1>10, <1>12, <1>13 DEF IInv

\* The first bytes of a client: of plain TCP it is greeted and done with, of
\* the others its handlers are called.
LEMMA ReadFirstStep ==
    ASSUME IInv, NEW c \in Clients, ReadFirst(c)
    PROVE  IInv'
<1>1. /\ cl[c].at = "reading" /\ cl[c].sent > Max({Hello, cl[c].got})
      /\ UNCHANGED <<scene, backlog, door, tasks, skipped, closed>>
    BY DEF ReadFirst, Reads
<1>2. /\ cl[c].hand = 0 /\ cl[c].called = 0 /\ cl[c].greeted = 0 /\ ~cl[c].upgraded
      /\ cl[c].open /\ c \in scene.crowd /\ c \notin tasks
    BY <1>1, ClientProperties DEF ClientOK
<1>3. cl[c].sent > Hello
    <2>1. Hello \in Int /\ cl[c].got \in Int /\ cl[c].sent \in Int
        BY ClientProperties
    <2>2. Max({Hello, cl[c].got}) \in Int /\ Max({Hello, cl[c].got}) >= Hello
        BY <2>1, MaxOfTwo
    <2>. QED
        BY <1>1, <2>1, <2>2
<1>4. PICK h \in 0..Units : h = cl[c].sent - Hello /\ h > 0 /\ h <= cl[c].sent
    BY <1>3, ClientProperties
<1>5. PICK s \in 0..Units : s = cl[c].sent
    BY ClientProperties DEF Client
<1>. DEFINE d == [cl[c] EXCEPT !.got = s, !.job = "off", !.hand = h]
<1>6. /\ d \in Client /\ d.at = "reading" /\ d.sent = s /\ d.got = s /\ d.hand = h
      /\ d.called = 0 /\ d.greeted = 0 /\ ~d.upgraded /\ d.open /\ d.speech = cl[c].speech
    BY ZenonT(60), <1>1, <1>2, <1>5, ClientProperties DEF Client
<1>7. d = [cl[c] EXCEPT !.got = cl[c].sent, !.job = "off", !.hand = cl[c].sent - Hello]
    BY <1>4, <1>5
<1>. HIDE DEF d
<1>8. /\ skipped \in BOOLEAN /\ closed \in BOOLEAN /\ scene.proto \in PROTOCOLS
      /\ skipped => scene.proto = "ws"
    BY SceneProperties DEF IInv, TypeOK
<1>9. CASE scene.proto = "tcp"
    <2>. DEFINE e == Greets(Leaves(c, d))
                g == [d EXCEPT !.at = "done", !.job = "off"]
    <2>1. cl' = [cl EXCEPT ![c] = e] /\ cl'[c] = e /\ enb' = enb - 1 /\ stack' = stack
        BY <1>7, <1>9, ClientProperties DEF ReadFirst, Set
    <2>2. /\ g = Leaves(c, d) /\ g \in Client /\ g.at = "done" /\ g.sent = s /\ g.got = s
          /\ g.hand = h /\ g.called = 0 /\ g.greeted = 0 /\ ~g.upgraded
        BY <1>6 DEF Client, Leaves
    <2>. HIDE DEF g
    <2>3. PICK m \in {1} : m = g.greeted + 1
        BY <2>2
    <2>4. e = IF closed THEN g ELSE [g EXCEPT !.greeted = m]
        BY <1>8, <1>9, <2>2, <2>3 DEF Greets
    <2>5. /\ e \in Client /\ e.at = "done" /\ e.sent = s /\ e.got = s
          /\ e.hand = h /\ e.called = 0 /\ e.greeted = (IF closed THEN 0 ELSE 1)
          /\ ~e.upgraded
        <3>1. CASE closed
            BY <2>2, <2>4, <3>1
        <3>2. CASE ~closed
            <4>1. e \in Client
                BY <2>2, <2>3, <2>4, <3>2 DEF Client
            <4>. QED
                BY <2>2, <2>3, <2>4, <3>2, <4>1 DEF Client
        <3>. QED
            BY <3>1, <3>2
    <2>. HIDE DEF e
    <2>6. ClientOK(c)'
        BY <1>1, <1>2, <1>4, <1>5, <1>8, <1>9, <2>1, <2>5, ClientProperties DEF ClientOK
    <2>7. SlotsExact' /\ enb' \in Nat
        BY <1>1, <2>1, <2>5, SlotsStep, ClientProperties
    <2>8. door' \in {"awake", "resting"}
        BY <1>1 DEF IInv, TypeOK
    <2>. QED
        BY <1>1, <2>1, <2>5, <2>6, <2>7, <2>8, OneMoves
<1>10. CASE scene.proto # "tcp"
    <2>. DEFINE e == [d EXCEPT !.at = "handling"]
                n == Len(stack)
    <2>1. PICK f \in Frame : /\ f = [c |-> c, stage |-> Stage, first |-> h]
                             /\ f.c = c /\ f.stage = Stage /\ f.first = h
        <3>1. Stage \in {"hand", "func"}
            BY DEF Stage
        <3>2. [c |-> c, stage |-> Stage, first |-> h] \in Frame
            BY <3>1 DEF Frame
        <3>. QED
            BY <3>2
    <2>2. cl' = [cl EXCEPT ![c] = e] /\ cl'[c] = e /\ enb' = enb
        BY <1>7, <1>10, ClientProperties DEF ReadFirst, Set
    <2>3. stack' = Append(stack, f)
        BY <1>4, <1>10, <2>1, ClientProperties DEF ReadFirst
    <2>4. /\ e \in Client /\ e.at = "handling" /\ e.sent = s /\ e.got = s /\ e.hand = h
          /\ e.called = 0 /\ e.greeted = 0 /\ ~e.upgraded /\ e.open
        BY <1>6 DEF Client
    <2>. HIDE DEF e
    <2>5. ClientOK(c)'
        BY <1>1, <1>2, <1>4, <1>5, <1>10, <2>2, <2>4, ClientProperties DEF ClientOK
    <2>6. SlotsExact' /\ enb' \in Nat
        BY <1>1, <2>2, <2>4, SlotsStep, ClientProperties
    <2>7. /\ cl \in [Clients -> Client] /\ backlog \in Seq(Clients) /\ scene \in Scenes
          /\ QueueOK /\ StackOK /\ stack \in Seq(Frame)
          /\ \A q \in Clients : ClientOK(q)
        BY DEF IInv, TypeOK, StackOK
    <2>8. /\ cl' \in [Clients -> Client]' /\ \A q \in Clients : ClientOK(q)'
          /\ \A q \in Clients \ {c} : cl'[q] = cl[q]
        BY <1>1, <1>8, <2>2, <2>4, <2>5, <2>7, ClientsKeep
    <2>9. QueueOK'
        BY <1>1, <2>7, <2>8, QueueKeeps
    <2>10. /\ n \in Nat /\ stack' \in Seq(Frame) /\ Len(stack') = n + 1 /\ stack'[n + 1] = f
           /\ \A i \in 1..n : stack'[i] = stack[i]
        BY <2>3, <2>7, AppendProperties, LenProperties
    <2>11. \A i \in 1..(n + 1) : i \in 1..n \/ i = n + 1
        BY <2>10
    <2>12. \A i \in 1..n : stack[i] \in Frame /\ FrameOK(stack[i])
        BY <2>7, LenProperties DEF StackOK
    <2>13. \A i \in 1..n : stack[i].c \in Clients \ {c}
        BY <1>1, <2>12 DEF Frame, FrameOK
    <2>14. ASSUME NEW g \in Frame, g.c \in Clients \ {c}, FrameOK(g)
           PROVE  FrameOK(g)'
        <3>1. cl'[g.c] = cl[g.c]
            BY <2>8, <2>14
        <3>. QED
            BY <1>1, <2>14, <3>1 DEF FrameOK
    <2>15. OneByOne /\ scene.proto = "ws" /\ Stage = "func" => closed
        <3>. SUFFICES ASSUME OneByOne, scene.proto = "ws", Busy
                      PROVE  FALSE
            BY DEF Stage
        <3>1. PICK i \in 1..n : stack[i].stage = "hand"
            BY <2>7, <2>10, LenProperties DEF Busy
        <3>2. stack[i].c \in Clients \ {c} /\ cl[stack[i].c].at = "handling"
            BY <2>12, <2>13, <3>1 DEF FrameOK
        <3>3. stack[i].c \in scene.crowd
            BY <2>7, <3>2 DEF ClientOK
        <3>. QED
            BY <1>2, <2>7, <3>2, <3>3 DEF OneByOne
    <2>16. FrameOK(f)'
        <3>1. Stage = "hand" => scene.proto = "ws"
            BY DEF Stage
        <3>. QED
            BY <1>1, <1>4, <2>1, <2>2, <2>4, <2>15, <3>1 DEF FrameOK
    <2>17. StackOK'
        <3>1. ASSUME NEW i \in 1..(n + 1), NEW g \in Frame, g = stack'[i]
              PROVE  FrameOK(g)'
            <4>1. CASE i = n + 1
                BY <2>10, <2>16, <3>1, <4>1
            <4>2. CASE i \in 1..n
                BY <2>10, <2>12, <2>13, <2>14, <3>1, <4>2
            <4>. QED
                BY <2>11, <4>1, <4>2
        <3>2. \A i \in 1..(n + 1), g \in Frame : g = stack'[i] => FrameOK(g)'
            BY <3>1
        <3>3. \A i \in 1..(n + 1) : stack'[i] \in Frame
            BY <2>10, <2>11, <2>12
        <3>4. \A i, j \in 1..n : stack[i].c = stack[j].c => i = j
            BY <2>7 DEF StackOK
        <3>5. \A i, j \in 1..(n + 1) : stack'[i].c = stack'[j].c => i = j
            BY <2>1, <2>10, <2>11, <2>13, <3>4
        <3>. QED
            BY <2>10, <3>2, <3>3, <3>5 DEF StackOK, FrameOK
    <2>18. TypeOK'
        <3>1. /\ scene' \in Scenes /\ backlog' \in Seq(Clients) /\ door' \in {"awake", "resting"}
              /\ tasks' \subseteq Clients /\ closed' \in BOOLEAN /\ skipped' \in BOOLEAN
            BY <1>1, <1>8, <2>7 DEF IInv, TypeOK
        <3>. QED
            BY <2>6, <2>8, <3>1 DEF TypeOK
    <2>. QED
        BY <1>1, <1>8, <2>6, <2>8, <2>9, <2>17, <2>18 DEF IInv
<1>. QED
    BY <1>9, <1>10

-----------------------------------------------------------------------------
(* The theorems.                                                           *)

LEMMA Initially ==
    ASSUME Init
    PROVE  IInv
<1>1. /\ scene \in Scenes /\ cl = [c \in Clients |-> Absent]
      /\ backlog = <<>> /\ door = "awake" /\ enb = 0
      /\ stack = <<>> /\ tasks = {} /\ skipped = FALSE /\ closed = FALSE
    BY DEF Init
<1>2. MaxBatch \in Nat /\ Units \in 1..3
    BY <1>1, SceneProperties
<1>3. /\ Absent \in Client /\ Absent.at = "none" /\ Absent.hand = 0 /\ Absent.got = 0
      /\ Absent.sent = 0 /\ Absent.called = 0 /\ Absent.greeted = 0
      /\ ~Absent.upgraded /\ Absent.open
    BY <1>2 DEF Absent, Client, SPEECHES
<1>4. \A c \in Clients : cl[c] = Absent
    BY <1>1
<1>5. TypeOK
    BY <1>1, <1>3, EmptySeq DEF TypeOK
<1>6. QueueOK
    BY <1>1, EmptySeq DEF QueueOK
<1>7. StackOK
    BY <1>1, EmptySeq DEF StackOK
<1>8. \A c \in Clients : ClientOK(c)
    BY <1>1, <1>3, <1>4 DEF ClientOK
<1>9. SlotsExact
    <2>1. {c \in Clients : cl[c].at \in {"new", "reading", "handling"}} = {}
        BY <1>3, <1>4
    <2>2. Cardinality({}) = 0
        BY FS_EmptySet
    <2>3. Cardinality({c \in Clients : cl[c].at \in {"new", "reading", "handling"}}) = 0
        BY <2>1, <2>2
    <2>. QED
        BY <1>1, <1>2, <2>3 DEF SlotsExact
<1>. QED
    BY <1>1, <1>5, <1>6, <1>7, <1>8, <1>9 DEF IInv

LEMMA Stepwise ==
    ASSUME IInv, [Next]_vars
    PROVE  IInv'
<1>1. CASE Handler
    BY <1>1, ReadMoreStep, HandUpgradesStep, HandDeclinesStep, FuncEndsStep DEF Handler
<1>2. CASE Door \/ CloseServer \/ UNCHANGED vars
    BY <1>2, AcceptStep, CloseStep DEF Door
<1>3. ASSUME NEW c \in Clients, Connect(c) \/ Send(c) \/ Hangup(c) \/ Task(c)
      PROVE  IInv'
    BY <1>3, ConnectStep, SendStep, HangupStep, RegisterStep, ReadBlocksStep, ReadFailsStep,
       ReadFirstStep, UpgradeStep DEF Task
<1>. QED
    BY <1>1, <1>2, <1>3 DEF Next

\* Every state of a server is right: clients wait in order and once, handlers
\* are those of the clients they handle, and each place is one client's.
THEOREM Invariance == Spec => []IInv
    BY Initially, Stepwise, PTL DEF Spec

\* Whoever is accepted has one place until it is done with, and no more have
\* than the limit and one: tcp_t's *enb never leaks nor gives back twice.
THEOREM PlacesExact == Spec => []SlotsExact
<1>1. IInv => SlotsExact
    BY DEF IInv
<1>. QED
    BY <1>1, Invariance, PTL

\* Of servers that have one client each if they serve web sockets, every
\* client is handled and greeted once, and when it should.
THEOREM GreetedRight == OneByOne => (Spec => []GreetedOnce)
<1>. SUFFICES ASSUME OneByOne
              PROVE  Spec => []GreetedOnce
    OBVIOUS
<1>1. IInv => GreetedOnce
    <2>. SUFFICES ASSUME IInv, NEW c \in Clients
                  PROVE  /\ cl[c].called <= 1 /\ cl[c].greeted <= 1
                         /\ cl[c].at = "done" /\ ~closed =>
                              CASE scene.proto = "tcp"  -> cl[c].greeted = 1 <=> cl[c].hand > 0
                                [] scene.proto = "http" ->
                                     /\ cl[c].called = 1 <=> cl[c].hand > 0 /\ cl[c].speech # "bad"
                                     /\ cl[c].greeted = cl[c].called
                                [] scene.proto = "ws"   -> cl[c].greeted = 1 => cl[c].upgraded
        BY DEF GreetedOnce
    <2>1. scene.proto \in PROTOCOLS
        BY SceneProperties DEF IInv, TypeOK
    <2>. QED
        BY <2>1, ClientProperties DEF ClientOK, PROTOCOLS
<1>. QED
    BY <1>1, Invariance, PTL
=============================================================================
