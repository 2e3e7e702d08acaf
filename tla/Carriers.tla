------------------------------ MODULE Carriers -------------------------------
(***************************************************************************)
(* The readers and writers of a file or socket, and one stream from a      *)
(* writer to a reader.                                                     *)
(*                                                                         *)
(* First the two ends of a byte stream, as functions: recv() and send() as *)
(* file.h and socket.h call them, and the generators that http_t and ws_t  *)
(* put between them and their callers (generator::http, generator::ws).  A *)
(* symbol stands for a byte.  A reader and a writer are records that hold  *)
(* what their generators keep from one call to the next.                   *)
(*                                                                         *)
(* Then the generators of generator::file (read, split, until, line), the  *)
(* pipes of generator::stream that call them until the stream ends,        *)
(* read_header() and read_body() of http_t, and the handshake of ws_t.     *)
(* One step of a reader is one call of its innermost generator.            *)
(*                                                                         *)
(* Last the stream: file::write over a socket_t, an http_t or a ws_t, a    *)
(* network that cuts the bytes where it likes, and the reader's            *)
(* generators.  A scene says who talks and how:                            *)
(*                                                                         *)
(*   proto     what both ends speak: "raw", "http", "ws", or "file"        *)
(*   head      the lines the writer sends first                            *)
(*   messages  what it then passes to write(), one after the other         *)
(*   framed    whether the peer frames by itself what it sends             *)
(*   masked    whether the writer is a WebSocket client                    *)
(*   payload   what the messages mean                                      *)
(*   job       what the reader is for                                      *)
(*   range     the part of the file it reads                               *)
(*                                                                         *)
(* Operators whose name starts with Bad are the definition that follows    *)
(* them with one plausible mistake in it; no specification uses them.      *)
(***************************************************************************)
EXTENDS Arrays

CONSTANTS
    KeyBytes,       \* bytes of a mask (4)
    Direct, Medium, \* longest frames whose length takes no or few more bytes
    MediumBytes, LongBytes, \* how many more (2 and 8)
    Number(_),      \* the size that two hex digits mean
    Digits(_),      \* the two hex digits of a size
    Buf,            \* size of a file's buffer
    Unbff,          \* NODEPP_UNBFF_SIZE
    Delim,          \* what split and until look for
    Text,           \* bytes of a plain file
    Scenes,
    Cap             \* bytes between a send() and the recv() that takes them

ASSUME ReadersAssumption == Buf \in Nat \ {0} /\ Unbff \in Nat /\ Len(Delim) > 0
ASSUME CarriersAssumption == Cap \in Nat \ {0}
ASSUME FramingAssumption ==
    /\ KeyBytes \in Nat \ {0}
    /\ {MediumBytes, LongBytes} \subseteq Nat \ {0}
    /\ Direct \in 0..125 /\ Medium \in Nat /\ Direct < Medium

CRLF == <<"cr", "nl">>

Rest(s, n) == SubSeq(s, n + 1, Len(s))
Head1(s, n) == SubSeq(s, 1, Lesser(n, Len(s)))

\* What a call answers: 1 try again, -1 done, and the bytes it gives.
Answer(r, c, got) == [r |-> r, c |-> c, got |-> got]

-----------------------------------------------------------------------------
(* __read(): what has arrived, "wait" for EWOULDBLOCK, "end" for the end   *)
(* of the stream and for a file that is closed or stopped.                 *)

Recv(r, n) ==
    IF r.status # "open" THEN Answer(r, "end", <<>>)
    ELSE IF r.in # <<>>
    THEN Answer([r EXCEPT !.in = Rest(@, n), !.pos = @ + Lesser(n, Len(r.in))],
                "some", Head1(r.in, n))
    ELSE Answer(r, IF r.fin THEN "end" ELSE "wait", <<>>)

\* A generator adds what it reads to its own borrow and is called again.
Fill(r, n) ==
    LET a == Recv(r, n) IN
    Answer([a.r EXCEPT !.hb = @ \o a.got], IF a.c = "end" THEN -1 ELSE 1, <<>>)

\* A generator passes what it reads on.
Pass(r, n) ==
    LET a == Recv(r, n) IN Answer(a.r, IF a.c = "wait" THEN 1 ELSE -1, a.got)

-----------------------------------------------------------------------------
(* generator::http::read.                                                  *)

\* The rest of the chunk that is in the borrow, possibly nothing.
Take(r, n) ==
    LET c == Lesser(Lesser(r.size, n), Len(r.hb)) IN
    Answer([r EXCEPT !.hb = Rest(@, c), !.size = @ - c], -1, Head1(r.hb, c))

\* The end of the last chunk and the size line of the next one taken off.
Sized(r) ==
    LET bff  == IF StartsWith(r.hb, CRLF) THEN Rest(r.hb, 2) ELSE r.hb
        x    == Find(bff, CRLF, 0)
        line == Head1(bff, x.from)
        y    == Find(line, <<";">>, 0)
        size == Number(IF y = Nowhere THEN line ELSE Head1(line, y.from))
    IN  IF x = Nowhere \/ size = 0 THEN [r EXCEPT !.hb = bff]
        ELSE [r EXCEPT !.size = size, !.hb = Rest(bff, x.to)]

\* o: r with what is whole at the head of its borrow taken off.
ChunkRead(r, o, n) ==
    IF r.hb = <<>> THEN Fill(r, n)
    ELSE IF r.size # 0 THEN Take(r, n)
    ELSE IF o.size # 0 THEN Take(o, n)
    ELSE IF Find(o.hb, CRLF, 0) = Nowhere THEN Fill(o, n)
    ELSE Answer(o, -1, <<>>)

StreamRead(r, n) ==
    IF r.size = 0 THEN Answer(r, -1, <<>>)
    ELSE IF r.hb # <<>> THEN Take(r, r.size)
    ELSE LET a == Pass(r, Lesser(r.size, n)) IN
         Answer([a.r EXCEPT !.size = @ - Len(a.got)], a.c, a.got)

DefaultRead(r, n) ==
    IF r.hb = <<>> THEN Pass(r, n)
    ELSE Answer([r EXCEPT !.hb = Rest(@, n)], -1, Head1(r.hb, n))

HttpRead(r, o, n) ==
    CASE r.mode = "chunked" -> ChunkRead(r, o, n)
      [] r.mode = "stream"  -> StreamRead(r, n)
      [] r.mode = "unknown" -> DefaultRead(r, n)

-----------------------------------------------------------------------------
(* WebSocket frames: an opcode, a length, further bytes of the length, a   *)
(* key, the payload.                                                       *)

CLOSE  == 8
PING   == 9
MEDIUM == 126
LONG   == 127

\* n as w bytes.
Wide(n, w) == [i \in 1..w |-> <<"byte", i, n>>]

Key == [i \in 1..KeyBytes |-> <<"key", i>>]

\* x ^ key[k], twice the same key gives x again.
Masked(s) == [i \in DOMAIN s |-> <<"masked", s[i], (i - 1) % KeyBytes>>]

Unmask(x, k) == IF x[1] = "masked" /\ x[3] = k THEN x[2] ELSE "garbled"

\* write_ws_frame(): 2 for printable text and 1 for anything else.
Frame(s, masked) ==
    LET n   == Len(s)
        opc == IF "nul" \in {s[i] : i \in DOMAIN s} THEN 1 ELSE 2
        len == IF n <= Direct THEN n ELSE IF n <= Medium THEN MEDIUM ELSE LONG
        ext == CASE len = MEDIUM -> Wide(n, MediumBytes)
                 [] len = LONG   -> Wide(n, LongBytes)
                 [] OTHER        -> <<>>
    IN  << <<"opc", opc>>, <<"len", len, masked>> >> \o ext
        \o (IF masked THEN Key \o Masked(s) ELSE s)

\* read_ws_frame(): how many bytes the header takes, its length and mask.
Header(bff) ==
    LET form == bff[2][2]
        more == CASE form = MEDIUM -> MediumBytes
                  [] form = LONG   -> LongBytes
                  [] OTHER         -> 0
        long == Len(bff) >= 2 + more
    IN  [bytes |-> 2 + more + (IF bff[2][3] THEN KeyBytes ELSE 0),
         len   |-> IF more = 0 THEN form ELSE IF long THEN bff[3][3] ELSE 0,
         opc   |-> bff[1][2], masked |-> bff[2][3]]

Whole(bff) == Len(bff) >= 2 /\ Len(bff) >= Header(bff).bytes

BadOpened(r) ==
    LET h == Header(r.hb) IN
    [r EXCEPT !.hb = Rest(@, h.bytes), !.size = h.len, !.opc = h.opc,
              !.masked = h.masked]

Opened(r) ==
    LET h == Header(r.hb) IN
    [r EXCEPT !.hb = Rest(@, h.bytes), !.size = h.len, !.opc = h.opc,
              !.masked = h.masked, !.key = 0]

\* The payload of a pong or of a reserved frame is thrown away.
Payload(r, n) ==
    LET a   == Take(r, n)
        got == IF r.masked
               THEN [i \in DOMAIN a.got |-> Unmask(a.got[i], (r.key + i - 1) % KeyBytes)]
               ELSE a.got
        s   == [a.r EXCEPT !.key = IF r.masked THEN (@ + Len(got)) % KeyBytes ELSE @]
    IN  IF r.opc >= 9 \/ r.opc \in 3..7 THEN Answer(s, 1, <<>>) ELSE Answer(s, -1, got)

\* A ping and a close are answered through write(), which frames the answer.
Answered(o) ==
    IF o.opc \in {CLOSE, PING} \/ o.opc >= 20
    THEN [o EXCEPT !.replies = Append(@, IF o.opc = PING THEN "pong" ELSE "close")]
    ELSE o

WsRead(r, o, n) ==
    IF r.hb = <<>> \/ (r.size = 0 /\ ~Whole(r.hb)) THEN Fill(r, n)
    ELSE IF r.size # 0 THEN Payload(r, n)
    ELSE IF o.opc = CLOSE \/ o.opc >= 20 THEN Answer(Answered(o), -1, <<>>)
    ELSE IF o.size = 0 THEN Answer(Answered(o), 1, <<>>)
    ELSE IF o.hb = <<>> THEN Fill(Answered(o), n)
    ELSE Payload(Answered(o), n)

-----------------------------------------------------------------------------
(* The virtual _read() and _write().                                       *)

\* What a generator takes off its borrow before it gives any data.
Unwrapped(r) ==
    IF r.size # 0 \/ r.hb = <<>> THEN r
    ELSE IF r.proto = "http" /\ r.mode = "chunked" THEN Sized(r)
    ELSE IF r.proto = "ws" /\ Whole(r.hb) THEN Opened(r)
    ELSE r

Read(r, o, n) ==
    LET a == CASE r.proto = "http" -> HttpRead(r, o, n)
               [] r.proto = "ws"   -> WsRead(r, o, n)
    IN  IF r.proto = "raw" \/ r.status # "open" THEN Recv(r, n)
        ELSE Answer(a.r, IF a.c = 1 THEN "wait" ELSE IF a.got = <<>> THEN "end" ELSE "some",
                    a.got)

\* What one call of a writer does: w after it, the bytes that send() took, and
\* how many bytes of the message count as written, or -2 for EWOULDBLOCK or -1.
Wrote(w, put, c) == [w |-> w, put |-> put, c |-> c]

\* __write() of s into a send buffer that has room.
Send(w, s, room) ==
    LET put == Head1(s, room) IN Wrote(w, put, IF put = <<>> THEN -2 ELSE Len(put))

\* _write_(): a frame goes out whole, over as many calls as it takes.
SendFrame(w, frame, n, room) ==
    LET put  == Head1(Rest(frame, w.done), room)
        done == w.done + Len(put)
    IN  IF done < Len(frame) THEN Wrote([w EXCEPT !.wb = frame, !.done = done], put, -2)
        ELSE Wrote([w EXCEPT !.wb = <<>>, !.done = 0], put, n)

Chunk(s) == Digits(Len(s)) \o CRLF \o s \o CRLF

\* The rest of a message of which "wb" is already framed.
Framed(w, s) ==
    IF w.wb # <<>> THEN w.wb
    ELSE IF w.proto = "ws" THEN Frame(s, w.masked) ELSE Chunk(s)

Write(w, s, room) ==
    IF w.proto = "ws" \/ w.mode = "chunked" THEN SendFrame(w, Framed(w, s), Len(s), room)
    ELSE IF w.mode = "unknown" THEN Send(w, s, room)
    ELSE IF w.size = 0 THEN Wrote(w, <<>>, -1)
    ELSE LET a == Send(w, Head1(s, w.size), room) IN
         [a EXCEPT !.w.size = @ - Len(a.put)]
-----------------------------------------------------------------------------
\* r after a step, the answer of the step and the data the caller is given.
\* "again": call it once more; "given": the data; "end": the last data, if any.
Step(r, c, data) == [r |-> r, c |-> c, data |-> data]

\* stop() and resume() leave a closed file alone.
Stopped(r) == IF r.status = "open" THEN [r EXCEPT !.status = "stopped"] ELSE r
Resumed(r) == IF r.status = "stopped" THEN [r EXCEPT !.status = "open"] ELSE r

-----------------------------------------------------------------------------
(* generator::file::read.                                                  *)

\* A range is only set on a file: the part of it that is to be read.
Ranged(r) == r.range[2] # 0

Sought(r) ==
    IF Ranged(r) /\ r.pos < r.range[1]
    THEN [r EXCEPT !.borrow = <<>>, !.pos = r.range[1], !.in = Rest(Text, r.range[1])]
    ELSE r

AtMost(r) == IF Ranged(r) THEN Lesser(r.range[2] - r.range[1], Buf) ELSE Buf

\* Gives the borrow, first reading one if it is empty.  Here and below "a" is
\* what _read() answers now, to the one that comes to call it.
FileRead(r, a) ==
    LET s == Sought(r)
        Give(t, bff) == Step([t EXCEPT !.borrow = Rest(bff, AtMost(r))], "given",
                             Head1(bff, AtMost(r)))
    IN  CASE r.status # "open" -> Step(r, "end", <<>>)
          [] r.status = "open" /\ Ranged(r) /\ r.pos >= r.range[2] ->
                Step(Stopped(r), "end", <<>>)
          [] OTHER ->
                IF s.borrow # <<>> THEN Give(s, s.borrow)
                ELSE IF a.c = "wait" THEN Step(a.r, "again", <<>>)
                ELSE IF a.c = "end" THEN Step(Stopped(a.r), "end", <<>>)
                ELSE Give(a.r, a.got)

-----------------------------------------------------------------------------
(* generator::file::split: the delimiter alone, or what comes before it,   *)
(* without its first bytes at the end of the borrow if more precede them.  *)

Matched(bff) ==
    LET x    == Find(bff, Delim, 0)
        part == Hits(bff, Delim, 0)[1]
    IN  IF x # Nowhere THEN (IF x.from = 0 THEN Len(Delim) ELSE x.from)
        ELSE IF part < Len(bff) THEN Len(bff) - part ELSE Len(bff)

\* A generator that needs more: it parks in its read, then starts again with
\* what it kept and what it read.
More(r, keep) == Step([r EXCEPT !.borrow = <<>>, !.keep = keep, !.at = "read"], "again", <<>>)

BadRefilled(f, last) ==
    IF f.c = "again" THEN f
    ELSE IF f.c = "end" THEN Step([f.r EXCEPT !.at = "start"], "end", <<>>)
    ELSE Step([f.r EXCEPT !.at = "start", !.borrow = f.r.keep \o f.data], "again", <<>>)

Refilled(f, last) ==
    IF f.c = "again" THEN f
    ELSE IF f.c = "end" THEN Step([f.r EXCEPT !.at = "start"], "end", last)
    ELSE Step([f.r EXCEPT !.at = "start", !.borrow = f.r.keep \o f.data], "again", <<>>)

Split(r, a) ==
    LET n == Matched(r.borrow) IN
    CASE r.at = "read" -> Refilled(FileRead(r, a), <<>>)
      [] r.at = "start" /\ r.borrow # <<>> ->
            Step([r EXCEPT !.borrow = Rest(@, n)], "given", Head1(r.borrow, n))
      [] OTHER -> More(r, <<>>)

(* generator::file::until and line: what comes before the delimiter.  An   *)
(* empty piece is skipped, too long a borrow is given as it is, and the    *)
(* end of the stream gives what is left.                                   *)

Until(r, a, delim) ==
    LET x == Find(r.borrow, delim, 0) IN
    CASE r.at = "read" -> Refilled(FileRead(r, a), r.keep)
      [] r.at = "start" /\ x # Nowhere ->
            Step([r EXCEPT !.borrow = Rest(@, x.to)], IF x.from = 0 THEN "again" ELSE "given",
                 Head1(r.borrow, x.from))
      [] r.at = "start" /\ x = Nowhere /\ Len(r.borrow) > Unbff ->
            Step([r EXCEPT !.borrow = <<>>], "given", r.borrow)
      [] OTHER -> More(r, r.borrow)

NL == <<"nl">>

Line(r, a) == Until(r, a, NL)

-----------------------------------------------------------------------------
(* http_t::read_header().  A request or status line, then fields up to a   *)
(* line that is none; the end of the stream is taken for that line too.    *)

Fields == {"cl0", "cl1", "cl2", "cl3", "te", "field"}

ContentLength(x) ==
    CASE x = "cl0" -> 0 [] x = "cl1" -> 1 [] x = "cl2" -> 2 [] x = "cl3" -> 3

\* set_http_mode(): Content-Length goes before Transfer-Encoding.
HttpMode(s, fields) ==
    LET sizes == {x \in fields : x \notin {"te", "field"}} IN
    IF sizes # {} THEN [s EXCEPT !.mode = "stream", !.size = ContentLength(CHOOSE x \in sizes : TRUE)]
    ELSE [s EXCEPT !.mode = IF "te" \in fields THEN "chunked" ELSE "unknown", !.size = 0]

\* The borrow of the lines becomes that of the body.
BodyNext(r, job) ==
    [HttpMode(r, r.fields) EXCEPT !.hb = r.borrow, !.borrow = <<>>, !.at = "start", !.job = job]

\* A pipe resumes its socket, read_body() takes it as it is.
Begun(r) == IF r.job = "body" THEN r ELSE Resumed(r)

\* ws_t reads the same socket through a generator of its own, with an empty
\* borrow; the handshake stops the socket and the pipe resumes it.
WsNext(r, job) == [Resumed(Stopped(BodyNext(r, job))) EXCEPT !.proto = "ws", !.hb = <<>>, !.size = 0]

HeaderRead(r, l, next) ==
    LET line == l.data
        Body(s) == IF r.upgrade THEN WsNext(s, next) ELSE Begun(BodyNext(s, next))
        Gone(s) == [s EXCEPT !.status = "closed", !.job = "none"]
    IN  IF l.c = "again" THEN l.r
        ELSE IF r.job = "request"
        THEN IF line # <<>> /\ "http" \in {line[i] : i \in DOMAIN line}
             THEN [l.r EXCEPT !.job = "header"] ELSE Gone(l.r)
        ELSE IF line # <<>> /\ line[1] \in Fields
        THEN [l.r EXCEPT !.fields = @ \cup {line[1]}]
        ELSE Body(l.r)

-----------------------------------------------------------------------------
(* http_t::read_body(): a callback that the loop runs until it settles.  A *)
(* turn of its inner loop that has begun does not look at the clock.       *)

BodyStart(r) ==
    IF r.late THEN [r EXCEPT !.settled = "timeout"] ELSE [r EXCEPT !.at = "loop"]

Settle(r) == [r EXCEPT !.settled = IF r.body = <<>> THEN "nodata" ELSE "body"]

BodyLoop(r, a) ==
    LET s == IF a.c = 1 THEN [a.r EXCEPT !.at = "start"]
             ELSE [a.r EXCEPT !.body = @ \o a.got]
    IN  IF r.status # "open" \/ (r.mode = "stream" /\ r.size = 0) THEN Settle(r)
        ELSE IF a.c = 1 \/ r.mode = "stream" THEN s
        ELSE Settle(s)

BodyRead(r, a) == IF r.at = "start" THEN BodyStart(r) ELSE BodyLoop(r, a)

-----------------------------------------------------------------------------
(* generator::stream: pipe, split, until and line.                         *)

\* The loop asks is_available() whenever it has given something, and close()
\* leaves a socket that has stopped as it is.  p: what its generator answers.
Piped(r, p) ==
    LET some == p.data # <<>> /\ p.c # "again"
        s    == [p.r EXCEPT !.ask = p.c # "again",
                            !.given = IF some THEN Append(@, p.data) ELSE @]
    IN  IF (r.ask /\ r.status # "open") \/ (p.c = "end" /\ ~some)
        THEN [IF r.ask /\ r.status # "open" THEN r ELSE s EXCEPT !.job = "none"]
        ELSE s
-----------------------------------------------------------------------------
(* One stream from a writer over a network to a reader.                    *)

VARIABLES
    scene,
    w,              \* the writer
    net,            \* what send() has taken and recv() can not see yet
    r               \* the reader

vars == <<scene, w, net, r>>

\* A header line by line, set_send_mode() after it.
Writer(s) ==
    [pc |-> IF s.proto = "file" THEN "closed" ELSE "write",
     proto |-> "raw", masked |-> s.masked, mode |-> "unknown", size |-> 0,
     wb |-> <<>>, done |-> 0, data |-> 0,
     todo |-> IF s.head = <<>> THEN s.messages ELSE <<s.head>> \o s.messages]

Reader(s) ==
    [in |-> IF s.proto = "file" THEN Text ELSE <<>>, fin |-> s.proto = "file",
     pos |-> 0, range |-> s.range, status |-> "open",
     proto |-> IF s.head # <<>> THEN "http" ELSE IF s.proto = "file" THEN "raw" ELSE s.proto,
     upgrade |-> s.proto = "ws", mode |-> "unknown", size |-> 0,
     borrow |-> <<>>, hb |-> <<>>, keep |-> <<>>, at |-> "start", ask |-> TRUE,
     opc |-> 0, masked |-> FALSE, key |-> 0, replies |-> <<>>,
     job |-> IF s.head # <<>> THEN "request" ELSE s.job,
     fields |-> {}, late |-> FALSE, body |-> <<>>, settled |-> "no", given |-> <<>>]

Init ==
    /\ scene \in Scenes
    /\ w = Writer(scene)
    /\ r = Reader(scene)
    /\ net = <<>>

-----------------------------------------------------------------------------
(* The writer.                                                             *)

InHead == scene.head # <<>> /\ Len(w.todo) > Len(scene.messages)

\* What the next message is written as, once the head is out.
AfterHead(v) ==
    IF scene.proto = "ws" THEN [v EXCEPT !.proto = IF scene.framed THEN "raw" ELSE "ws"]
    ELSE HttpMode(v, {x \in Fields : \E i \in DOMAIN scene.head : scene.head[i] = x})

HandshakeDone == r.job \notin {"request", "header"}

\* file::write: once more what _write() has not taken yet.  A WebSocket peer is
\* taken to wait until the handshake is read: what comes with it is lost, in
\* the borrow of the http_t that read the header.
WriteOn ==
    /\ w.pc = "write" /\ w.todo # <<>>
    /\ InHead \/ scene.proto # "ws" \/ HandshakeDone
    /\ \E m \in {Head(w.todo)} : \E a \in {Write(w, Rest(m, w.data), Cap - Len(net))} :
           /\ net' = net \o a.put
           /\ w' = IF a.c = -1 THEN [a.w EXCEPT !.pc = "failed"]
                   ELSE IF a.c = -2 THEN a.w
                   ELSE IF w.data + a.c < Len(m) THEN [a.w EXCEPT !.data = @ + a.c]
                   ELSE LET v == [a.w EXCEPT !.data = 0, !.todo = Tail(@)] IN
                        IF InHead THEN AfterHead(v) ELSE v
    /\ UNCHANGED <<scene, r>>

WriteClose ==
    /\ w.pc = "write" /\ w.todo = <<>>
    /\ w' = [w EXCEPT !.pc = "closed"]
    /\ UNCHANGED <<scene, net, r>>

\* close() from another task of the writer's process.
WriteAbort ==
    /\ w.pc = "write" /\ w.todo # <<>>
    /\ w' = [w EXCEPT !.pc = "failed"]
    /\ UNCHANGED <<scene, net, r>>

-----------------------------------------------------------------------------
(* The network and the clock.                                              *)

Deliver ==
    /\ \E n \in 1..Len(net) :
          /\ r' = IF r.status = "closed" THEN r ELSE [r EXCEPT !.in = @ \o Head1(net, n)]
          /\ net' = Rest(net, n)
    /\ UNCHANGED <<scene, w>>

DeliverEnd ==
    /\ w.pc # "write" /\ net = <<>> /\ ~r.fin
    /\ r' = [r EXCEPT !.fin = TRUE]
    /\ UNCHANGED <<scene, w, net>>

Late ==
    /\ r.job = "body" /\ ~r.late
    /\ r' = [r EXCEPT !.late = TRUE]
    /\ UNCHANGED <<scene, w, net>>

-----------------------------------------------------------------------------
(* The reader.                                                             *)

ReadHeader ==
    /\ r.job \in {"request", "header"}
    /\ \E a \in {Read(r, r, Buf)} : \E l \in {Line(r, a)} : r' = HeaderRead(r, l, scene.job)
    /\ UNCHANGED <<scene, w, net>>

ReadBody ==
    /\ r.job = "body" /\ r.settled = "no"
    /\ \E o \in {Unwrapped(r)} : \E a \in {HttpRead(r, o, Buf)} : r' = BodyRead(r, a)
    /\ UNCHANGED <<scene, w, net>>

\* One call of the generator of a pipe, and what its loop does then.
Pulls(Generator(_, _)) ==
    /\ \E s \in {Sought(r)} : \E o \in {Unwrapped(s)} :
          \E a \in {Read(s, o, Buf)} : \E p \in {Generator(r, a)} : r' = Piped(r, p)
    /\ UNCHANGED <<scene, w, net>>

PipeChunk == r.job = "pipe"  /\ Pulls(FileRead)
PipeSplit == r.job = "split" /\ Pulls(Split)
PipeUntil == r.job = "until" /\ Pulls(LAMBDA s, a : Until(s, a, Delim))
PipeLine  == r.job = "line"  /\ Pulls(Line)

PipeOn == PipeChunk \/ PipeSplit \/ PipeUntil \/ PipeLine

\* close(), from a listener or from another task of the reader's process.
ReadClose ==
    /\ r.status = "open"
    /\ r' = [r EXCEPT !.status = "closed", !.in = <<>>]
    /\ UNCHANGED <<scene, w, net>>

Next ==
    \/ WriteOn \/ WriteClose \/ WriteAbort
    \/ Deliver \/ DeliverEnd \/ Late
    \/ ReadHeader \/ ReadBody \/ PipeOn \/ ReadClose

Spec == Init /\ [][Next]_vars

\* The loops of both processes turn and the network is alive; nobody has to
\* close or to be late.
FairSpec ==
    /\ Spec
    /\ WF_vars(WriteOn \/ WriteClose)
    /\ WF_vars(Deliver \/ DeliverEnd)
    /\ WF_vars(ReadHeader \/ ReadBody \/ PipeOn)

-----------------------------------------------------------------------------
Flat(ss) == FlattenSeq(ss)

Wanted == IF scene.range[2] = 0 THEN scene.payload
          ELSE SubSeq(scene.payload, scene.range[1] + 1, scene.range[2])

\* The pieces a text has when it is read at once.
Pieces(text, delim) == SelectSeq(SplitAt(text, delim, 0), LAMBDA p : p # <<>>)

Delimited == scene.job \in {"until", "line"}
Expected  == Pieces(Wanted, IF scene.job = "line" THEN NL ELSE Delim)

\* A line longer than Unbff may come in parts.
Short(i) == \A j \in 1..i : Len(Expected[j]) <= Unbff

WithoutDelim(s) == SelectSeq(s, LAMBDA x : x # "nl")

(* Whatever the network does to the bytes, and wherever the buffers, the   *)
(* chunks and the frames end, a pipe and a split give the payload in order *)
(* with nothing lost, doubled or garbled in between; until and line give   *)
(* the very pieces that a search of the whole text gives (generator.h:97,  *)
(* :132, :178, :468, :735, :785).  A resolved body of known length is      *)
(* complete (http.h:232).                                                  *)
Intact ==
    /\ scene.job \in {"pipe", "split"} => IsPrefix(Flat(r.given), Wanted)
    /\ Delimited =>
          LET cut   == r.status = "closed" \/ w.pc = "failed"
              whole == IF cut THEN Len(r.given) - 1 ELSE Len(r.given)
          IN  /\ \A i \in 1..Lesser(whole, Len(Expected)) :
                    Short(i) => r.given[i] = Expected[i]
              /\ Short(Len(Expected)) => whole <= Len(Expected)
    /\ scene.job = "line" => IsPrefix(Flat(r.given), WithoutDelim(Wanted))
    /\ scene.job = "body" =>
          /\ IsPrefix(r.body, Wanted)
          /\ r.settled = "body" /\ r.mode = "stream" => r.status # "open" \/ r.size = 0

\* Everything was passed on, none of it is still to come.
Arrived ==
    CASE scene.job = "body" -> r.settled = "body" /\ r.body = Wanted
      [] scene.job \in {"pipe", "split"} -> Flat(r.given) = Wanted
      [] Delimited -> Flat(r.given) = Flat(Expected)

Undisturbed == r.status = "closed" \/ r.late

(* What a peer has written before it closed reaches the listeners of the   *)
(* reader, unless the reader's own program closes first: the last line     *)
(* without a delimiter, the bytes that came with the header and those that *)
(* came with the end (generator.h:93, :160, http.h:212).                   *)
Claimed == "te" \notin r.fields /\ scene.job # "body"

Due  == w.pc = "closed" /\ Claimed
Come == Arrived \/ Undisturbed \/ ~Claimed

AllArrive == Due ~> Come

(* The same of chunked bodies.  The code loses a chunk whose size line is  *)
(* read before any of its bytes (generator.h:491).                         *)
ChunksArrive == (w.pc = "closed" /\ scene.job = "pipe") ~> (Arrived \/ Undisturbed)

(* read_body() answers: with the body, without one or with a timeout       *)
(* (http.h:219).                                                           *)
BodySettles == (r.job = "body") ~> (r.settled # "no")
=============================================================================
