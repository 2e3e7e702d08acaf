------------------------------ MODULE MCCarriers ------------------------------
(* Streams, in behaviours of their own each: Carriers with every protocol,  *)
(* framing and reader once, with buffers smaller than the chunks and frames *)
(* of all three lengths; Lifetimes with two chunks; and Datagrams with two  *)
(* peers.                                                                   *)
EXTENDS Carriers

CONSTANTS MaxChunks, MaxCalls, Captures,
          Peers, Remote, Nobody, MaxSent, MaxHeard, Buffer, Room

\* A datagram has room for a byte.
ASSUME StreamsAssumption == Buffer \in Nat \ {0}

VARIABLES topic,
          bits, copies, ears, drains, closes, source, borrow, pipe, heard,
          promise, got, want, calls,
          state, handle, task, said, server, address, piped, sent, wire, inbox,
          took, later, answers

Life == INSTANCE Lifetimes
Udp  == INSTANCE Datagrams WITH heard <- took

lifeVars == <<bits, copies, ears, drains, closes, source, borrow, pipe, heard,
              promise, got, want, calls>>
udpVars  == <<state, handle, task, said, server, address, piped, sent, wire,
              inbox, took, later, answers>>
all == <<topic, vars, lifeVars, udpVars>>

HexDigits(n) == <<"0", CASE n = 0 -> "0" [] n = 1 -> "1" [] n = 2 -> "2" [] n = 3 -> "3">>
HexNumber(s) == CHOOSE n \in 0..3 : HexDigits(n) = s

Scene(proto, head, messages, job) ==
    [proto |-> proto, head |-> head, messages |-> messages, framed |-> FALSE,
     masked |-> FALSE, payload |-> Flat(messages), job |-> job, range |-> <<0, 0>>]

Field(f) == <<"http", "cr", "nl", f, "cr", "nl", "cr", "nl">>
Plain    == <<"http", "cr", "nl", "cr", "nl">>

Raw ==
    { Scene("raw", <<>>, << <<"a", "b", "c", "d">>, <<"e">> >>, "pipe"),
      Scene("raw", <<>>, << <<"a", "x">>, <<"y", "x">>, <<"b", "x">> >>, "split"),
      Scene("raw", <<>>, << <<"a", "x">>, <<"y", "x", "y", "b">>, <<"c", "x", "x">> >>, "until"),
      Scene("raw", <<>>, << <<"nl", "a", "nl", "nl">>, <<"b", "c", "nl", "d">> >>, "line"),
      Scene("raw", <<>>, << <<"a", "b", "c", "d", "e", "f">>, <<"nl", "g">> >>, "line") }

Http ==
    { Scene("http", Field("te"),  << <<"a", "b">>, <<"c">> >>, "pipe"),
      Scene("http", Field("cl3"), << <<"a">>, <<"b", "c">> >>, "pipe"),
      Scene("http", Field("cl2"), << <<"a", "nl">> >>, "line"),
      Scene("http", Field("cl3"), << <<"a">>, <<"b", "c">> >>, "body"),
      Scene("http", Field("cl1"), << <<"a", "b">> >>, "pipe"),
      Scene("http", Field("cl0"), << >>, "body"),
      Scene("http", Plain, << <<"a", "b">>, <<"c">> >>, "pipe"),
      Scene("http", Plain, << <<"a", "b">> >>, "body"),
      Scene("http", <<"a", "cr", "nl">>, << <<"b">> >>, "pipe") }

Ws ==
    { [Scene("ws", Plain, << <<"a", "nul", "b">>, <<"c", "d">> >>, "pipe") EXCEPT !.masked = TRUE],
      Scene("ws", Plain, << <<"a">>, <<"b", "nl">> >>, "line") }

\* Pings, an unsolicited pong and a close from a peer of another make.
Control(opc, s) == << <<"opc", opc>>, <<"len", Len(s), FALSE>> >> \o s

Foreign ==
    { [Scene("ws", Plain, << Control(9, <<>>) \o Control(2, <<"a">>),
                             Control(10, <<"p">>) \o Control(0, <<"c">>), Control(8, <<>>) >>, "pipe")
         EXCEPT !.framed = TRUE, !.payload = <<"a", "c">>] }

MCDelim == <<"x", "y">>

FileText == <<"a", "x", "y", "b", "nl", "c", "d">>

Files ==
    { [Scene("file", <<>>, <<>>, j) EXCEPT !.payload = FileText, !.range = g] :
          j \in {"pipe", "split", "until", "line"}, g \in {<<0, 0>>} }
    \cup { [Scene("file", <<>>, <<>>, "pipe") EXCEPT !.payload = FileText, !.range = g] :
          g \in {<<1, 3>>, <<2, 5>>, <<0, 2>>} }

TheScenes == Raw \cup Http \cup Ws \cup Foreign \cup Files

-----------------------------------------------------------------------------
OnCarriers(A) == topic = "carriers" /\ A /\ UNCHANGED <<topic, lifeVars, udpVars>>
OnLife(A)     == topic = "lifetimes" /\ A /\ UNCHANGED <<topic, vars, udpVars>>
OnUdp(A)      == topic = "datagrams" /\ A /\ UNCHANGED <<topic, vars, lifeVars>>

ThreeInit ==
    /\ topic \in {"carriers", "lifetimes", "datagrams"}
    /\ Init /\ Life!Init /\ Udp!Init
    /\ topic # "carriers" => scene = CHOOSE s \in TheScenes : TRUE

ThreeNext == OnCarriers(Next) \/ OnLife(Life!Next) \/ OnUdp(Udp!Next)

ThreeFair ==
    /\ WF_all(OnCarriers(WriteOn \/ WriteClose) \/ OnLife(Life!PipeTurn) \/ OnUdp(Udp!Reads))
    /\ WF_all(OnCarriers(Deliver \/ DeliverEnd) \/ OnLife(Life!ReadableTurn))
    /\ WF_all(OnCarriers(ReadHeader \/ ReadBody \/ PipeOn))

ThreeSpec == ThreeInit /\ [][ThreeNext]_all /\ ThreeFair

-----------------------------------------------------------------------------
(* What a reader makes of the bytes is what the writer was given.           *)
StreamsIntact == topic = "carriers" => Intact

(* A stream is told of its end once, and a udp_t of its own.                *)
ToldOnce == Life!ClosedOnce /\ Udp!OpenedOnce

(* Every datagram and every answer has the right other end.                 *)
Attributed == Udp!Attributed

(* What is written arrives, and what has ended is closed.                   *)
SomeDue ==
    \/ topic = "carriers" /\ Due
    \/ topic = "lifetimes" /\ Life!LeftAtEnd
    \/ topic = "datagrams" /\ Udp!Waits

SomeDone ==
    \/ topic = "carriers" /\ Come
    \/ topic = "lifetimes" /\ closes = 1
    \/ topic = "datagrams" /\ Udp!Heard

AllDone == SomeDue ~> SomeDone
=============================================================================
