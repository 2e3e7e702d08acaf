---------------------------- MODULE CarriersProofs ----------------------------
(***************************************************************************)
(* A stream is told of its end once and never before it is free, a udp_t   *)
(* of its own, and every datagram has the right other end, for any number  *)
(* of chunks, calls, peers and datagrams.                                  *)
(***************************************************************************)
EXTENDS MCCarriers, FiniteSetTheorems, SequenceTheorems, TLAPS

-----------------------------------------------------------------------------
(* What a udp_t says.                                                      *)

Words == {"onError", "onConnect", "onClose"}

Has(s, e) == \E i \in 1..Len(s) : s[i] = e

Once(s, e) == \A i, j \in 1..Len(s) : s[i] = e /\ s[j] = e => i = j

InOrder(s) == \A i, j \in 1..Len(s) : s[i] = "onConnect" /\ s[j] = "onClose" => i < j

\* A udp_t that was used once stays so; its task runs once, and pipes the
\* socket as it says so.
SaidOK ==
    /\ said \in Seq(Words)
    /\ Once(said, "onConnect") /\ Once(said, "onClose") /\ InOrder(said)
    /\ Has(said, "onClose") <=> "CLOSED" \in state
    /\ Has(said, "onConnect") => task = "done"
    /\ piped # "no" => Has(said, "onConnect")
    /\ state = {} => task = "none"

LEMMA OneMore ==
    ASSUME NEW S, NEW s \in Seq(S), NEW e \in S
    PROVE  /\ Append(s, e) \in Seq(S)
           /\ \A x : Has(Append(s, e), x) <=> Has(s, x) \/ x = e
           /\ \A x : Once(s, x) /\ (x = e => ~Has(s, x)) => Once(Append(s, e), x)
           /\ InOrder(s) /\ (e = "onConnect" => ~Has(s, "onClose")) => InOrder(Append(s, e))
<1>. DEFINE t == Append(s, e)
<1>1. /\ t \in Seq(S) /\ Len(s) \in Nat /\ Len(t) = Len(s) + 1
      /\ \A i \in 1..Len(s) : t[i] = s[i]
      /\ t[Len(s) + 1] = e
    BY AppendProperties
<1>. HIDE DEF t
<1>2. \A i \in 1..Len(t) : i \in 1..Len(s) \/ i = Len(s) + 1
    BY <1>1
<1>3. \A i \in 1..Len(s) : i \in 1..Len(t) /\ i < Len(s) + 1
    BY <1>1
<1>4. Len(s) + 1 \in 1..Len(t)
    BY <1>1
<1>5. \A x : Has(t, x) <=> Has(s, x) \/ x = e
    BY <1>1, <1>2, <1>3, <1>4 DEF Has
<1>6. ASSUME NEW x, Once(s, x), x = e => ~Has(s, x)
      PROVE  Once(t, x)
    BY <1>1, <1>2, <1>6 DEF Once, Has
<1>7. ASSUME InOrder(s), e = "onConnect" => ~Has(s, "onClose")
      PROVE  InOrder(t)
    <2>. SUFFICES ASSUME NEW i \in 1..Len(t), NEW j \in 1..Len(t),
                         t[i] = "onConnect", t[j] = "onClose"
                  PROVE  i < j
        BY DEF InOrder
    <2>1. CASE i \in 1..Len(s) /\ j \in 1..Len(s)
        BY <2>1, <1>1, <1>7 DEF InOrder
    <2>2. CASE i \in 1..Len(s) /\ j = Len(s) + 1
        BY <2>2, <1>3
    <2>3. CASE i = Len(s) + 1
        <3>1. e = "onConnect" /\ j \in 1..Len(s)
            BY <2>3, <1>1, <1>2
        <3>. QED
            BY <3>1, <1>1, <1>7 DEF Has
    <2>. QED
        BY <2>1, <2>2, <2>3, <1>2
<1>. QED
    BY <1>1, <1>5, <1>6, <1>7 DEF t

LEMMA TwoMore ==
    ASSUME NEW S, NEW s \in Seq(S), NEW d \in S, NEW e \in S
    PROVE  s \o <<d, e>> = Append(Append(s, d), e)
<1>1. <<d>> \in Seq(S) /\ <<e>> \in Seq(S) /\ <<d, e>> = <<d>> \o <<e>>
    <2>1. <<d>> \in Seq(S) /\ Len(<<d>>) = 1 /\ <<d>>[1] = d
        OBVIOUS
    <2>2. <<e>> \in Seq(S) /\ Len(<<e>>) = 1 /\ <<e>>[1] = e
        OBVIOUS
    <2>3. <<d, e>> \in Seq(S) /\ Len(<<d, e>>) = 2 /\ <<d, e>>[1] = d /\ <<d, e>>[2] = e
        OBVIOUS
    <2>. DEFINE t == <<d>> \o <<e>>
    <2>4. t \in Seq(S) /\ Len(t) = 2 /\ t[1] = d /\ t[2] = e
        BY <2>1, <2>2, ConcatProperties
    <2>. HIDE DEF t
    <2>5. <<d, e>> = t
        BY <2>3, <2>4, SeqEqual
    <2>. QED
        BY <2>1, <2>2, <2>5 DEF t
<1>2. Append(s, d) \in Seq(S) /\ Append(s, d) = s \o <<d>>
    BY AppendIsConcat, AppendProperties
<1>3. Append(Append(s, d), e) = Append(s, d) \o <<e>>
    BY <1>2, AppendIsConcat
<1>4. (s \o <<d>>) \o <<e>> = s \o (<<d>> \o <<e>>)
    BY <1>1, ConcatAssociative
<1>. QED
    BY <1>1, <1>2, <1>3, <1>4

\* Nothing is said, to a udp_t whose place is as before.
LEMMA SaidRest ==
    ASSUME SaidOK, UNCHANGED <<state, task, said>>, piped' # "no" => piped # "no"
    PROVE  SaidOK'
    BY DEF SaidOK, Has, Once, InOrder

\* Freed() of a udp_t, whose task is as before.
LEMMA FreedSays ==
    ASSUME SaidOK, Udp!Freed(state), UNCHANGED <<task, piped>>
    PROVE  SaidOK'
<1>1. CASE "CLOSED" \in state
    BY <1>1, SaidRest DEF Udp!Freed
<1>2. CASE "CLOSED" \notin state
    <2>1. said' = Append(said, "onClose") /\ state' = {"CLOSED"} /\ said \in Seq(Words)
          /\ "onClose" \in Words
        BY <1>2 DEF Udp!Freed, Udp!Says, SaidOK, Words
    <2>2. said' \in Seq(Words) /\ Once(said', "onConnect") /\ Once(said', "onClose") /\ InOrder(said')
          /\ Has(said', "onClose") /\ (Has(said', "onConnect") <=> Has(said, "onConnect"))
        BY <2>1, <1>2, OneMore DEF SaidOK
    <2>. QED
        BY <2>1, <2>2 DEF SaidOK, Has, Once, InOrder
<1>. QED
    BY <1>1, <1>2

LEMMA ErrorSays ==
    ASSUME SaidOK, Udp!Says("onError"), UNCHANGED <<task, piped>>,
           state' # {}, "CLOSED" \in state' <=> "CLOSED" \in state
    PROVE  SaidOK'
<1>1. said' = Append(said, "onError") /\ said \in Seq(Words) /\ "onError" \in Words
    BY DEF Udp!Says, SaidOK, Words
<1>2. /\ said' \in Seq(Words) /\ Once(said', "onConnect") /\ Once(said', "onClose") /\ InOrder(said')
      /\ Has(said', "onClose") <=> Has(said, "onClose")
      /\ Has(said', "onConnect") <=> Has(said, "onConnect")
    BY <1>1, OneMore DEF SaidOK
<1>. QED
    BY <1>2 DEF SaidOK, Has, Once, InOrder

LEMMA TaskSays ==
    ASSUME SaidOK, Udp!Task
    PROVE  SaidOK'
<1>1. task = "queued" /\ task' = "done" /\ ~Has(said, "onConnect") /\ state # {}
      /\ said \in Seq(Words) /\ {"onConnect", "onClose"} \subseteq Words
    BY DEF Udp!Task, SaidOK, Words
<1>2. CASE "CLOSED" \in state
    BY <1>1, <1>2 DEF Udp!Task, SaidOK, Has, Once, InOrder
<1>3. CASE "CLOSED" \notin state
    <2>. DEFINE t == Append(said, "onConnect")
    <2>1. /\ t \in Seq(Words) /\ Once(t, "onConnect") /\ Once(t, "onClose") /\ InOrder(t)
          /\ Has(t, "onConnect") /\ ~Has(t, "onClose")
        BY <1>1, <1>3, OneMore DEF SaidOK
    <2>2. CASE handle
        <3>1. said' = t /\ state' = state
            BY <1>3, <2>2 DEF Udp!Task, Udp!Says
        <3>. HIDE DEF t
        <3>. QED
            BY <3>1, <2>1, <1>1, <1>3 DEF SaidOK, Has, Once, InOrder
    <2>3. CASE ~handle
        <3>0. said' = said \o <<"onConnect", "onClose">> /\ state' = {"CLOSED"}
            BY <1>3, <2>3, Zenon DEF Udp!Task
        <3>1. said' = Append(t, "onClose") /\ state' = {"CLOSED"}
            BY <1>1, <3>0, TwoMore
        <3>. HIDE DEF t
        <3>2. said' \in Seq(Words) /\ Once(said', "onConnect") /\ Once(said', "onClose")
              /\ InOrder(said') /\ Has(said', "onConnect") /\ Has(said', "onClose")
            BY <3>1, <2>1, <1>1, OneMore
        <3>. QED
            BY <3>1, <3>2, <1>1 DEF SaidOK, Has, Once, InOrder
    <2>. QED
        BY <2>2, <2>3
<1>. QED
    BY <1>2, <1>3

LEMMA UdpSays ==
    ASSUME SaidOK, Udp!Next
    PROVE  SaidOK'
<1>1. CASE Udp!Refused
    <2>1. CASE "CLOSED" \in state
        BY <1>1, <2>1, SaidRest DEF Udp!Refused, Udp!sockVars
    <2>2. CASE "CLOSED" \notin state
        BY <1>1, <2>2, ErrorSays DEF Udp!Refused, Udp!sockVars
    <2>. QED
        BY <2>1, <2>2
<1>2. CASE Udp!Fails
    <2>1. "CLOSED" \notin state' /\ "CLOSED" \notin state /\ state' # {}
        BY <1>2 DEF Udp!Fails
    <2>. QED
        BY <1>2, <2>1, ErrorSays DEF Udp!Fails, Udp!sockVars
<1>3. CASE Udp!Opens
    <2>1. "CLOSED" \notin state' /\ "CLOSED" \notin state /\ state' # {} /\ task = "none"
          /\ said' = said /\ piped' = piped
        BY <1>3 DEF Udp!Opens, SaidOK
    <2>. QED
        BY <2>1 DEF SaidOK, Has, Once, InOrder
<1>4. CASE Udp!Close \/ Udp!Drop
    <2>1. UNCHANGED <<task, piped>> /\ (Udp!Freed(state) \/ UNCHANGED <<state, said>>)
        BY <1>4 DEF Udp!Close, Udp!Drop, Udp!sockVars
    <2>. QED
        BY <2>1, FreedSays, SaidRest
<1>5. CASE ~Udp!Udp
    <2>1. UNCHANGED <<state, task, said>> /\ (piped' # "no" => piped # "no")
        BY <1>5 DEF Udp!Next, Udp!PeerSends, Udp!Network, Udp!Reads, Udp!ReadsEmpty, Udp!ReadsOne,
                    Udp!AnswersLate, Udp!udpVars, Udp!sockVars
    <2>. QED
        BY <2>1, SaidRest
<1>. QED
    BY <1>1, <1>2, <1>3, <1>4, <1>5, TaskSays DEF Udp!Udp

LEMMA SaidInit ==
    ASSUME Udp!Init
    PROVE  SaidOK
<1>1. said = <<>> /\ Len(said) = 0 /\ state = {} /\ task = "none" /\ piped = "no"
    BY DEF Udp!Init
<1>2. said \in Seq(Words) /\ 1..Len(said) = {}
    BY <1>1, EmptySeq
<1>. QED
    BY <1>1, <1>2 DEF SaidOK, Has, Once, InOrder

LEMMA SameCardinality == \A S : Udp!Cardinality(S) = Cardinality(S)
    BY DEF Udp!Cardinality, Cardinality

\* A place that is the only one of its word.
LEMMA OnePlace ==
    ASSUME SaidOK, NEW e, Once(said, e)
    PROVE  Udp!Cardinality(Udp!Position(e)) = IF Has(said, e) THEN 1 ELSE 0
<1>1. DOMAIN said = 1..Len(said)
    BY LenProperties DEF SaidOK
<1>2. CASE Has(said, e)
    <2>1. PICK i \in 1..Len(said) : said[i] = e
        BY <1>2 DEF Has
    <2>2. Udp!Position(e) = {i}
        BY <1>1, <2>1 DEF Udp!Position, Once
    <2>. QED
        BY <1>2, <2>2, SameCardinality, FS_Singleton
<1>3. CASE ~Has(said, e)
    <2>1. Udp!Position(e) = {}
        BY <1>1, <1>3 DEF Udp!Position, Has
    <2>. QED
        BY <1>3, <2>1, SameCardinality, FS_EmptySet
<1>. QED
    BY <1>2, <1>3

LEMMA SaidRight ==
    ASSUME SaidOK
    PROVE  Udp!OpenedOnce
<1>1. DOMAIN said = 1..Len(said)
    BY LenProperties DEF SaidOK
<1>2. Udp!Cardinality(Udp!Position("onConnect")) = IF Has(said, "onConnect") THEN 1 ELSE 0
    BY OnePlace DEF SaidOK
<1>3. Udp!Cardinality(Udp!Position("onClose")) = IF Has(said, "onClose") THEN 1 ELSE 0
    BY OnePlace DEF SaidOK
<1>4. Udp!Cardinality(Udp!Position("onConnect")) <= 1
    BY <1>2
<1>5. Udp!Cardinality(Udp!Position("onClose")) = IF "CLOSED" \in state THEN 1 ELSE 0
    BY <1>3 DEF SaidOK
<1>6. \A i \in Udp!Position("onConnect"), j \in Udp!Position("onClose") : i < j
    BY <1>1 DEF SaidOK, InOrder, Udp!Position
<1>7. piped # "no" => Udp!Position("onConnect") # {}
    BY <1>1 DEF SaidOK, Has, Udp!Position
<1>. QED
    BY <1>4, <1>5, <1>6, <1>7 DEF Udp!OpenedOnce

-----------------------------------------------------------------------------
(* Who the datagrams and the answers are from and to.                      *)

Mail == [from : Peers, id : Nat, size : Nat]

Ends == Peers \cup {Remote, Nobody}

Given == [to : Ends, of : Nat, prompt : BOOLEAN]

UdpTyped ==
    /\ sent \in [Peers -> Nat]
    /\ wire \subseteq Mail /\ inbox \in Seq(Mail) /\ took \in Seq(Mail)
    /\ address \in [server : Ends, client : Ends, tmp : Ends]
    /\ answers \in Seq(Given)

\* A datagram that its peer sent.
Sent(d) == d.id \in 1..sent[d.from]

Mailed(d) == Sent(d) /\ d.size \in {0, Buffer + 1}

\* What was heard of it.
Part(d) == Sent(d) /\ d.size \in 1..Buffer

\* An answer to one who was heard, and at once to the one who is answered.
Fits(a, s) ==
    /\ \E j \in 1..Len(s) : a.to = s[j].from
    /\ a.prompt => a.of \in 1..Len(s) /\ a.to = s[a.of].from

\* Nothing is heard before the socket is piped, and an open one has the
\* address of the one heard last.
UdpInv ==
    /\ UdpTyped
    /\ \A d \in wire : Mailed(d)
    /\ \A i \in 1..Len(inbox) : Mailed(inbox[i])
    /\ \A i \in 1..Len(took) : Part(took[i])
    /\ \A i \in 1..Len(answers) : Fits(answers[i], took)
    /\ later \subseteq 1..Len(took)
    /\ piped = "poll" /\ took # <<>> => Udp!ReadAddress(address) = took[Len(took)].from
    /\ piped = "no" => took = <<>>
    /\ state = {} => piped = "no" /\ task = "none"
    /\ task = "queued" => piped = "no"

LEMMA UdpInitial ==
    ASSUME Udp!Init
    PROVE  UdpInv
<1>1. /\ took = <<>> /\ inbox = <<>> /\ answers = <<>> /\ Len(took) = 0 /\ Len(inbox) = 0
      /\ Len(answers) = 0 /\ wire = {} /\ later = {}
      /\ sent = [p \in Peers |-> 0] /\ address = [server |-> Nobody, client |-> Nobody, tmp |-> Nobody]
      /\ piped = "no" /\ task = "none"
    BY DEF Udp!Init
<1>2. took \in Seq(Mail) /\ inbox \in Seq(Mail) /\ answers \in Seq(Given)
    BY <1>1, EmptySeq
<1>3. UdpTyped
    BY <1>1, <1>2 DEF UdpTyped, Ends
<1>. QED
    BY <1>1, <1>3 DEF UdpInv

\* A step that leaves what was sent, heard and answered alone.
LEMMA UdpRest ==
    ASSUME UdpInv, UNCHANGED <<sent, took, later, answers>>,
           wire' \subseteq Mail, \A d \in wire' : Mailed(d),
           inbox' \in Seq(Mail), \A i \in 1..Len(inbox') : Mailed(inbox'[i]),
           address' \in [server : Ends, client : Ends, tmp : Ends],
           piped' = "poll" /\ took # <<>> => Udp!ReadAddress(address)' = took[Len(took)].from,
           piped' = "no" => took = <<>>,
           state' = {} => piped' = "no" /\ task' = "none",
           task' = "queued" => piped' = "no"
    PROVE  UdpInv'
<1>1. \A d : Sent(d)' <=> Sent(d)
    BY DEF Sent
<1>2. \A d : (Mailed(d)' <=> Mailed(d)) /\ (Part(d)' <=> Part(d))
    BY <1>1 DEF Mailed, Part, Fits
<1>3. UdpTyped'
    BY DEF UdpTyped, UdpInv
<1>. QED
    BY <1>2, <1>3 DEF UdpInv

LEMMA SendKeeps ==
    ASSUME UdpInv, NEW p \in Peers, NEW n \in {0, Buffer + 1}, Udp!PeerSends(p, n)
    PROVE  UdpInv'
<1>0. PICK m : m = [from |-> p, id |-> sent[p] + 1, size |-> n]
    OBVIOUS
<1>1. /\ sent' = [sent EXCEPT ![p] = @ + 1] /\ wire' = wire \cup {m}
      /\ UNCHANGED <<state, task, piped, server, address, inbox, took, later, answers>>
    BY <1>0 DEF Udp!PeerSends, Udp!udpVars, Udp!sockVars
<1>2. m \in Mail /\ sent' \in [Peers -> Nat] /\ sent'[p] = sent[p] + 1
      /\ \A q \in Peers : sent[q] \in Nat /\ sent'[q] \in Nat /\ sent[q] <= sent'[q]
    BY <1>0, <1>1, StreamsAssumption DEF UdpInv, UdpTyped, Mail
<1>3. \A d \in Mail : Sent(d) => Sent(d)'
    BY <1>2 DEF Sent, Mail
<1>4. Sent(m)'
    <2>1. m.from = p /\ m.id = sent'[p] /\ sent'[p] \in Nat /\ sent'[p] > 0
        BY <1>0, <1>2
    <2>. QED
        BY <2>1 DEF Sent
<1>5. UdpTyped'
    BY <1>1, <1>2 DEF UdpInv, UdpTyped
<1>6. \A d \in wire' : Mailed(d)'
    <2>1. Mailed(m)'
        BY <1>0, <1>4 DEF Mailed
    <2>2. \A d \in wire : Mailed(d)'
        BY <1>3 DEF UdpInv, UdpTyped, Mailed
    <2>. QED
        BY <2>1, <2>2, <1>1
<1>7. (\A i \in 1..Len(inbox) : Mailed(inbox[i]))'
    <2>1. \A i \in 1..Len(inbox) : inbox[i] \in Mail /\ Mailed(inbox[i])
        BY ElementOfSeq DEF UdpInv, UdpTyped
    <2>2. \A d \in Mail : Mailed(d) => Mailed(d)'
        BY <1>3 DEF Mailed
    <2>. QED
        BY <2>1, <2>2, <1>1
<1>8. (\A i \in 1..Len(took) : Part(took[i]))'
    <2>1. \A i \in 1..Len(took) : took[i] \in Mail /\ Part(took[i])
        BY ElementOfSeq DEF UdpInv, UdpTyped
    <2>2. \A d \in Mail : Part(d) => Part(d)'
        BY <1>3 DEF Part
    <2>. QED
        BY <2>1, <2>2, <1>1
<1>9. \A i \in 1..Len(answers') : Fits(answers'[i], took')
    BY <1>1 DEF UdpInv, Fits
<1>. QED
    BY <1>1, <1>5, <1>6, <1>7, <1>8, <1>9 DEF UdpInv, Udp!ReadAddress

LEMMA NetworkKeeps ==
    ASSUME UdpInv, Udp!Network
    PROVE  UdpInv'
<1>1. UNCHANGED <<state, task, piped, server, address, sent, took, later, answers>>
    BY DEF Udp!Network, Udp!udpVars, Udp!sockVars
<1>2. wire' \subseteq wire
    BY DEF Udp!Network, Udp!Loses, Udp!Arrives
<1>3. inbox' \in Seq(Mail) /\ \A i \in 1..Len(inbox') : Mailed(inbox'[i])
    <2>1. CASE inbox' = inbox
        BY <2>1 DEF UdpInv, UdpTyped
    <2>2. ASSUME NEW d \in wire, inbox' = Append(inbox, d)
          PROVE  inbox' \in Seq(Mail) /\ \A i \in 1..Len(inbox') : Mailed(inbox'[i])
        <3>1. d \in Mail /\ Mailed(d) /\ inbox \in Seq(Mail)
            BY DEF UdpInv, UdpTyped
        <3>2. /\ inbox' \in Seq(Mail) /\ Len(inbox') = Len(inbox) + 1 /\ Len(inbox) \in Nat
              /\ \A i \in 1..Len(inbox) : inbox'[i] = inbox[i]
              /\ inbox'[Len(inbox) + 1] = d
            BY <2>2, <3>1, AppendProperties, LenProperties
        <3>3. \A i \in 1..Len(inbox') : i \in 1..Len(inbox) \/ i = Len(inbox) + 1
            BY <3>2
        <3>. QED
            BY <3>1, <3>2, <3>3 DEF UdpInv
    <2>. QED
        BY <2>1, <2>2 DEF Udp!Network, Udp!Loses, Udp!Arrives
<1>. QED
    BY <1>1, <1>2, <1>3, UdpRest DEF UdpInv, UdpTyped, Udp!ReadAddress

\* What the udp_t does to its socket: opens it before anything is heard.
LEMMA UdpKeeps ==
    ASSUME UdpInv, Udp!Udp
    PROVE  UdpInv'
<1>1. UNCHANGED <<sent, wire, inbox, took, later, answers>>
    BY DEF Udp!Udp, Udp!netVars
<1>2. CASE Udp!Opens
    <2>1. state = {} /\ state' # {} /\ task' = "queued" /\ piped' = piped /\ piped = "no" /\ took = <<>>
        BY <1>2 DEF Udp!Opens, UdpInv
    <2>2. address' \in [server : Ends, client : Ends, tmp : Ends]
        BY <1>2 DEF Udp!Opens, UdpInv, UdpTyped, Ends
    <2>. QED
        BY <1>1, <2>1, <2>2, UdpRest DEF UdpInv, UdpTyped
<1>3. CASE Udp!Task
    <2>1. /\ UNCHANGED <<server, address>> /\ task' = "done" /\ piped = "no" /\ took = <<>>
          /\ state # {} /\ state' # {} /\ piped' \in {"no", "poll"}
        BY <1>3 DEF Udp!Task, UdpInv
    <2>. QED
        BY <1>1, <2>1, UdpRest DEF UdpInv, UdpTyped
<1>4. CASE Udp!Refused \/ Udp!Fails \/ Udp!Close \/ Udp!Drop
    <2>1. UNCHANGED <<task, server, address, piped>> /\ (state' = {} => state = {})
        BY <1>4 DEF Udp!Refused, Udp!Fails, Udp!Close, Udp!Drop, Udp!Freed, Udp!sockVars
    <2>. QED
        BY <1>1, <2>1, UdpRest DEF UdpInv, UdpTyped, Udp!ReadAddress
<1>. QED
    BY <1>2, <1>3, <1>4 DEF Udp!Udp

\* set_write_address( get_read_address() ).
LEMMA TurnedTo ==
    ASSUME NEW a \in [server : Ends, client : Ends, tmp : Ends]
    PROVE  /\ Udp!Turned(a) \in [server : Ends, client : Ends, tmp : Ends]
           /\ Udp!ReadAddress(Udp!Turned(a)) = Udp!ReadAddress(a)
           /\ Udp!WriteAddress(Udp!Turned(a)) = Udp!ReadAddress(a)
           /\ Udp!ReadAddress(a) \in Ends
    BY DEF Udp!Turned, Udp!ReadAddress, Udp!WriteAddress

LEMMA ReceivedFrom ==
    ASSUME NEW a \in [server : Ends, client : Ends, tmp : Ends], NEW p \in Ends
    PROVE  /\ Udp!Received(a, p) \in [server : Ends, client : Ends, tmp : Ends]
           /\ Udp!ReadAddress(Udp!Received(a, p)) = p
    BY DEF Udp!Received, Udp!ReadAddress

LEMMA FitsLonger ==
    ASSUME NEW a, NEW s, NEW t, Fits(a, s), Len(s) \in Nat, Len(t) \in Nat, Len(s) <= Len(t),
           \A i \in 1..Len(s) : t[i] = s[i]
    PROVE  Fits(a, t)
<1>1. \A i \in 1..Len(s) : i \in 1..Len(t)
    OBVIOUS
<1>. QED
    BY <1>1 DEF Fits

\* One more answer.
LEMMA AnswerKeeps ==
    ASSUME answers \in Seq(Given), NEW a \in Given, answers' = Append(answers, a), Fits(a, took'),
           \A i \in 1..Len(answers) : Fits(answers[i], took')
    PROVE  answers' \in Seq(Given) /\ \A i \in 1..Len(answers') : Fits(answers'[i], took')
<1>1. /\ answers' \in Seq(Given) /\ Len(answers) \in Nat /\ Len(answers') = Len(answers) + 1
      /\ \A i \in 1..Len(answers) : answers'[i] = answers[i]
      /\ answers'[Len(answers) + 1] = a
    BY AppendProperties, LenProperties
<1>2. \A i \in 1..Len(answers') : i \in 1..Len(answers) \/ i = Len(answers) + 1
    BY <1>1
<1>3. \A i \in 1..Len(answers') : Fits(answers'[i], took')
    <2>. SUFFICES ASSUME NEW i \in 1..Len(answers')
                  PROVE  Fits(answers'[i], took')
        OBVIOUS
    <2>1. CASE i \in 1..Len(answers)
        BY <2>1, <1>1
    <2>2. CASE i = Len(answers) + 1
        BY <2>2, <1>1
    <2>. QED
        BY <2>1, <2>2, <1>2
<1>. QED
    BY <1>1, <1>3

LEMMA LateKeeps ==
    ASSUME UdpInv, Udp!AnswersLate
    PROVE  UdpInv'
<1>1. PICK i \in later :
          /\ address' = Udp!Turned(address)
          /\ answers' = Append(answers, [to |-> Udp!WriteAddress(Udp!Turned(address)),
                                         of |-> i, prompt |-> FALSE])
          /\ later' = later \ {i}
    BY DEF Udp!AnswersLate, Udp!Answer
<1>2. /\ UNCHANGED <<state, task, piped, server, sent, wire, inbox, took>> /\ piped = "poll"
    BY DEF Udp!AnswersLate, Udp!udpVars, Udp!netVars
<1>3. i \in 1..Len(took) /\ i \in Nat /\ took # <<>> /\ Len(took) \in 1..Len(took)
    <2>1. i \in 1..Len(took) /\ took \in Seq(Mail)
        BY DEF UdpInv, UdpTyped
    <2>2. Len(took) \in Nat
        BY <2>1, LenProperties
    <2>3. took # <<>>
        BY <2>1
    <2>. QED
        BY <2>1, <2>2, <2>3
<1>4. address \in [server : Ends, client : Ends, tmp : Ends]
    BY DEF UdpInv, UdpTyped
<1>5. PICK e \in Ends : e = took[Len(took)].from /\ e = Udp!ReadAddress(address)
    BY <1>2, <1>3, <1>4, TurnedTo DEF UdpInv
<1>6. PICK a \in Given : a = [to |-> e, of |-> i, prompt |-> FALSE]
    BY <1>3 DEF Given
<1>7. answers' = Append(answers, a)
    BY <1>1, <1>4, <1>5, <1>6, TurnedTo
<1>8. address' \in [server : Ends, client : Ends, tmp : Ends] /\ Udp!ReadAddress(address') = e
    BY <1>1, <1>4, <1>5, TurnedTo
<1>9. Udp!ReadAddress(address)' = e
    BY <1>2, <1>8 DEF Udp!ReadAddress
<1>10. Fits(a, took')
    BY <1>2, <1>3, <1>5, <1>6 DEF Fits
<1>11. answers' \in Seq(Given) /\ \A j \in 1..Len(answers') : Fits(answers'[j], took')
    <2>1. \A j \in 1..Len(answers) : Fits(answers[j], took')
        BY <1>2 DEF UdpInv, Fits
    <2>. QED
        BY <2>1, <1>7, <1>10, AnswerKeeps DEF UdpInv, UdpTyped
<1>12. UdpTyped'
    BY <1>2, <1>8, <1>11 DEF UdpInv, UdpTyped
<1>13. later' \subseteq 1..Len(took)
    BY <1>1 DEF UdpInv
<1>14. \A d : (Mailed(d)' <=> Mailed(d)) /\ (Part(d)' <=> Part(d))
    BY <1>2 DEF Mailed, Part, Sent
<1>. QED
    BY <1>2, <1>5, <1>9, <1>11, <1>12, <1>13, <1>14 DEF UdpInv

LEMMA ReadsKeeps ==
    ASSUME UdpInv, Udp!Reads
    PROVE  UdpInv'
<1>1. PICK d : d = Head(inbox)
    OBVIOUS
<1>2. /\ UNCHANGED <<state, task, server, sent, wire>> /\ piped = "poll" /\ inbox # <<>>
      /\ inbox' = Tail(inbox)
    BY DEF Udp!Reads, Udp!udpVars
<1>3. d \in Mail /\ Mailed(d) /\ inbox' \in Seq(Mail) /\ \A i \in 1..Len(inbox') : Mailed(inbox'[i])
    <2>1. inbox \in Seq(Mail) /\ \A i \in 1..Len(inbox) : Mailed(inbox[i])
        BY DEF UdpInv, UdpTyped
    <2>2. /\ Head(inbox) \in Mail /\ Tail(inbox) \in Seq(Mail) /\ Len(inbox) \in Nat
          /\ Len(inbox) > 0 /\ Len(Tail(inbox)) = Len(inbox) - 1
          /\ \A i \in 1..Len(Tail(inbox)) : Tail(inbox)[i] = inbox[i + 1]
        BY <1>2, <2>1, HeadTailProperties, LenProperties, EmptySeq
    <2>3. Head(inbox) = inbox[1] /\ 1 \in 1..Len(inbox)
        BY <2>1, <2>2
    <2>4. \A i \in 1..Len(Tail(inbox)) : i + 1 \in 1..Len(inbox)
        BY <2>2
    <2>. QED
        BY <1>1, <1>2, <2>1, <2>2, <2>3, <2>4
<1>4. address \in [server : Ends, client : Ends, tmp : Ends] /\ d.from \in Ends
    BY <1>3 DEF UdpInv, UdpTyped, Mail, Ends
<1>5. PICK a : a = Udp!Received(address, d.from)
    OBVIOUS
<1>6. a \in [server : Ends, client : Ends, tmp : Ends] /\ Udp!ReadAddress(a) = d.from
    BY <1>4, <1>5, ReceivedFrom
<1>7. state # {} /\ task # "queued"
    BY <1>2 DEF UdpInv
<1>8. CASE Udp!ReadsEmpty
    <2>1. piped' = "stopped" /\ address' = a /\ UNCHANGED <<took, later, answers>>
        BY <1>1, <1>5, <1>8 DEF Udp!ReadsEmpty
    <2>2. wire' \subseteq Mail /\ \A m \in wire' : Mailed(m)
        BY <1>2 DEF UdpInv, UdpTyped
    <2>. QED
        BY <1>2, <1>3, <1>6, <1>7, <2>1, <2>2, UdpRest
<1>9. CASE Udp!ReadsOne
    <2>1. PICK h : h = [d EXCEPT !.size = IF @ > Buffer THEN Buffer ELSE @]
        OBVIOUS
    <2>2. d.size # 0 /\ took' = Append(took, h) /\ piped' = piped
        BY <1>1, <1>9, <2>1 DEF Udp!ReadsOne
    <2>3. PICK k : k = Len(took) + 1
        OBVIOUS
    <2>4. \/ /\ address' = Udp!Turned(a) /\ later' = later
             /\ answers' = Append(answers, [to |-> Udp!WriteAddress(Udp!Turned(a)),
                                            of |-> k, prompt |-> TRUE])
          \/ /\ address' = a /\ later' \in {later, later \cup {k}} /\ answers' = answers
        BY <1>1, <1>5, <1>9, <2>3 DEF Udp!ReadsOne, Udp!Answer
    <2>5. h \in Mail /\ h.from = d.from /\ Part(h)
        BY <1>3, <2>1, <2>2, StreamsAssumption DEF Mail, Mailed, Part, Sent
    <2>6. /\ took' \in Seq(Mail) /\ Len(took) \in Nat /\ Len(took') = k /\ k \in 1..k /\ k \in Nat
          /\ \A i \in 1..Len(took) : took'[i] = took[i] /\ i \in 1..k
          /\ took'[k] = h
          /\ \A i \in 1..k : i \in 1..Len(took) \/ i = k
        <3>1. took \in Seq(Mail)
            BY DEF UdpInv, UdpTyped
        <3>2. /\ took' \in Seq(Mail) /\ Len(took) \in Nat /\ Len(took') = Len(took) + 1
              /\ \A i \in 1..Len(took) : took'[i] = took[i]
              /\ took'[Len(took) + 1] = h
            BY <3>1, <2>2, <2>5, AppendProperties, LenProperties
        <3>. QED
            BY <3>2, <2>3
    <2>7. took' # <<>>
        BY <2>2, <2>5, AppendProperties DEF UdpInv, UdpTyped
    <2>8. \A x : (Mailed(x)' <=> Mailed(x)) /\ (Part(x)' <=> Part(x))
        BY <1>2 DEF Mailed, Part, Sent
    <2>9. (\A i \in 1..Len(took) : Part(took[i]))'
        BY <2>5, <2>6, <2>8 DEF UdpInv
    <2>10. \A i \in 1..Len(answers) : Fits(answers[i], took')
        <3>1. \A i \in 1..Len(answers) : Fits(answers[i], took)
            BY DEF UdpInv
        <3>2. Len(took) <= Len(took') /\ Len(took') \in Nat
            BY <2>3, <2>6
        <3>. QED
            BY <2>6, <3>1, <3>2, FitsLonger
    <2>11. /\ address' \in [server : Ends, client : Ends, tmp : Ends]
           /\ Udp!ReadAddress(address)' = d.from
        <3>1. /\ address' \in [server : Ends, client : Ends, tmp : Ends]
              /\ Udp!ReadAddress(address') = d.from
            BY <1>6, <2>4, TurnedTo
        <3>. QED
            BY <3>1, <1>2 DEF Udp!ReadAddress
    <2>12. answers' \in Seq(Given) /\ \A i \in 1..Len(answers') : Fits(answers'[i], took')
        <3>1. CASE answers' = answers
            BY <3>1, <2>10 DEF UdpInv, UdpTyped
        <3>2. CASE answers' = Append(answers, [to |-> Udp!WriteAddress(Udp!Turned(a)),
                                               of |-> k, prompt |-> TRUE])
            <4>1. PICK g \in Given : g = [to |-> d.from, of |-> k, prompt |-> TRUE]
                BY <1>4, <2>6 DEF Given
            <4>2. answers' = Append(answers, g)
                BY <1>6, <3>2, <4>1, TurnedTo
            <4>3. Fits(g, took')
                BY <2>5, <2>6, <4>1 DEF Fits
            <4>. QED
                BY <2>10, <4>2, <4>3, AnswerKeeps DEF UdpInv, UdpTyped
        <3>. QED
            BY <2>4, <3>1, <3>2
    <2>13. later' \subseteq 1..k
        BY <2>4, <2>6 DEF UdpInv
    <2>14. UdpTyped'
        BY <1>2, <1>3, <2>6, <2>11, <2>12 DEF UdpInv, UdpTyped
    <2>. QED
        BY <1>2, <1>3, <1>7, <2>2, <2>5, <2>6, <2>7, <2>8, <2>9, <2>11, <2>12, <2>13, <2>14
           DEF UdpInv
<1>. QED
    BY <1>8, <1>9 DEF Udp!Reads

LEMMA UdpNext ==
    ASSUME UdpInv, Udp!Next
    PROVE  UdpInv'
    BY SendKeeps, NetworkKeeps, UdpKeeps, ReadsKeeps, LateKeeps DEF Udp!Next

LEMMA UdpRight ==
    ASSUME UdpInv
    PROVE  Udp!Attributed
<1>1. DOMAIN took = 1..Len(took) /\ DOMAIN answers = 1..Len(answers)
    BY LenProperties DEF UdpInv, UdpTyped
<1>. QED
    BY <1>1 DEF UdpInv, Part, Sent, Fits, Udp!Attributed

-----------------------------------------------------------------------------
(* A stream: what the calls do to its bits and to who listens.             *)

Bits == {"OPEN", "STOP", "CLOSE", "KILL", "REUSE"}

NodeSet == [bits : SUBSET Bits, ears : BOOLEAN, drains : Nat, closes : Nat]

\* Freed once and deaf since, and not stopped or closed before onDrain.
Sound(n) ==
    /\ n \in NodeSet
    /\ n.ears <=> "KILL" \notin n.bits
    /\ n.closes = IF "KILL" \in n.bits THEN 1 ELSE 0
    /\ n.bits \cap Life!DISABLE # {} => n.drains > 0

Open(n) == n.bits \cap Life!DISABLE = {}

LifeTyped ==
    /\ Life!Node \in NodeSet
    /\ copies \subseteq {"program", "task", "listener"}
    /\ source \in [came : Nat, read : Nat, ended : BOOLEAN]
    /\ borrow \in Nat /\ heard \in Nat /\ calls \in Nat

\* A promise is pending as long as the task runs that is to keep it.
LifeInv ==
    /\ LifeTyped /\ Sound(Life!Node)
    /\ heard + (IF borrow # 0 THEN 1 ELSE 0) = source.read
    /\ promise = "pending" => ~Life!IsClosed /\ pipe # "none"
    /\ promise = "resolved" /\ calls = 0 => got = source.came /\ source.ended
    /\ pipe # "none" => "task" \in copies

\* A node that was told it is free is not told again.
Dead(n) == n \in NodeSet /\ "KILL" \in n.bits

Answers == Life!Calls \cup {"none"}

LEMMA DeadStays ==
    ASSUME NEW n, Dead(n), NEW c \in Answers, NEW shared
    PROVE  /\ Dead(Life!Quiet(n, c, shared))
           /\ Life!Quiet(n, c, shared).closes = n.closes
           /\ Life!Quiet(n, c, shared).drains = n.drains
<1>. USE DEF Dead, NodeSet, Bits
<1>1. CASE c = "stop"
    BY <1>1 DEF Life!Quiet, Life!With
<1>2. CASE c = "resume"
    BY <1>2 DEF Life!Quiet, Life!Resumed
<1>3. CASE c = "close"
    BY <1>3 DEF Life!Quiet, Life!QuietClose, Life!DISABLE
<1>4. CASE c = "free"
    BY <1>4 DEF Life!Quiet, Life!QuietFree, Life!Held
<1>5. CASE c \in {"reuse", "no reuse"}
    BY <1>5 DEF Life!Quiet, Life!Reused
<1>6. CASE c = "none"
    BY <1>6 DEF Life!Quiet
<1>. QED
    BY <1>1, <1>2, <1>3, <1>4, <1>5, <1>6 DEF Answers, Life!Calls

LEMMA GoneOnce ==
    ASSUME NEW k, Dead(k), k.closes = 0, k.drains > 0
    PROVE  Sound(Life!Gone(k)) /\ Life!Gone(k).drains = k.drains
<1>1. PICK m : m = Life!Gone(k)
    OBVIOUS
<1>2. k \in NodeSet /\ k.closes + 1 \in Nat
    BY DEF Dead, NodeSet
<1>3. \A c \in Nat : [k EXCEPT !.ears = FALSE, !.closes = c] \in NodeSet
    BY <1>2 DEF NodeSet
<1>4. m \in NodeSet
    BY <1>1, <1>2, <1>3 DEF Life!Gone
<1>5. ~m.ears /\ m.closes = k.closes + 1 /\ m.drains = k.drains /\ m.bits = k.bits
    BY <1>1, <1>2 DEF NodeSet, Life!Gone
<1>6. Sound(m)
    BY <1>4, <1>5 DEF Dead, Sound
<1>. QED
    BY <1>1, <1>5, <1>6

LEMMA FreeOnce ==
    ASSUME NEW n, Sound(n), n.drains > 0, NEW shared
    PROVE  Sound(Life!QuietFree(n, shared)) /\ Life!QuietFree(n, shared).drains = n.drains
<1>1. CASE Life!Held(n, shared)
    BY <1>1 DEF Life!QuietFree
<1>2. CASE ~Life!Held(n, shared)
    <2>1. PICK k : k = Life!With(n, "KILL")
        OBVIOUS
    <2>2. "KILL" \notin n.bits /\ Dead(k) /\ k.closes = 0 /\ k.drains = n.drains
        BY <1>2, <2>1 DEF Life!Held, Life!With, Dead, Sound, NodeSet, Bits
    <2>3. Life!QuietFree(n, shared) = Life!Gone(k)
        BY <1>2, <2>1 DEF Life!QuietFree
    <2>. QED
        BY <2>2, <2>3, GoneOnce
<1>. QED
    BY <1>1, <1>2

LEMMA CloseOnce ==
    ASSUME NEW n, Sound(n), n.drains > 0, NEW shared
    PROVE  /\ Sound(Life!QuietFree(Life!SetClose(n), shared))
           /\ Life!QuietFree(Life!SetClose(n), shared).drains = n.drains
<1>1. Sound(Life!SetClose(n)) /\ Life!SetClose(n).drains = n.drains
    BY DEF Sound, NodeSet, Bits, Life!SetClose
<1>. QED
    BY <1>1, FreeOnce

LEMMA QuietKeeps ==
    ASSUME NEW n, Sound(n), n.drains > 0, NEW c \in Answers, NEW shared
    PROVE  Sound(Life!Quiet(n, c, shared)) /\ Life!Quiet(n, c, shared).drains = n.drains
<1>1. CASE c = "stop"
    BY <1>1 DEF Life!Quiet, Life!With, Sound, NodeSet, Bits
<1>2. CASE c = "resume"
    BY <1>2 DEF Life!Quiet, Life!Resumed, Sound, NodeSet, Bits
<1>3. CASE c = "close"
    BY <1>3, CloseOnce DEF Life!Quiet, Life!QuietClose
<1>4. CASE c = "free"
    BY <1>4, FreeOnce DEF Life!Quiet
<1>5. CASE c \in {"reuse", "no reuse"}
    BY <1>5 DEF Life!Quiet, Life!Reused, Sound, NodeSet, Bits, Life!DISABLE
<1>6. CASE c = "none"
    BY <1>6 DEF Life!Quiet
<1>. QED
    BY <1>1, <1>2, <1>3, <1>4, <1>5, <1>6 DEF Answers, Life!Calls

\* The listener of onDrain is called, if there is one, and may call back.
LEMMA DrainedKeeps ==
    ASSUME NEW n, Sound(n), NEW q \in Answers, NEW shared
    PROVE  /\ Sound(Life!Drained(n, q, shared))
           /\ Life!Drained(n, q, shared).drains = n.drains + (IF n.ears THEN 1 ELSE 0)
           /\ Life!Drained(n, q, shared).drains > 0
<1>1. CASE n.ears
    <2>. DEFINE m == [n EXCEPT !.drains = @ + 1]
    <2>1. Sound(m) /\ m.drains > 0 /\ m.drains = n.drains + 1
        BY DEF Sound, NodeSet
    <2>. HIDE DEF m
    <2>2. Life!Drained(n, q, shared) = Life!Quiet(m, q, shared)
        BY <1>1 DEF Life!Drained, m
    <2>. QED
        BY <1>1, <2>1, <2>2, QuietKeeps
<1>2. CASE ~n.ears
    BY <1>2 DEF Life!Drained, Sound, NodeSet, Life!DISABLE
<1>. QED
    BY <1>1, <1>2 DEF Sound, NodeSet

LEMMA StoppedKeeps ==
    ASSUME NEW n, Sound(n), NEW q \in Answers, NEW shared
    PROVE  /\ Sound(Life!Stopped(n, q, shared))
           /\ Open(n) => Life!Stopped(n, q, shared).drains > n.drains
           /\ Life!Stopped(n, q, shared).drains >= n.drains
<1>1. CASE "STOP" \in n.bits
    BY <1>1 DEF Life!Stopped, Open, Life!DISABLE, Sound, NodeSet
<1>2. CASE "STOP" \notin n.bits
    <2>1. PICK m : m = Life!Drained(n, q, shared)
        OBVIOUS
    <2>2. Sound(m) /\ m.drains > 0 /\ m.drains = n.drains + (IF n.ears THEN 1 ELSE 0)
        BY <2>1, DrainedKeeps
    <2>3. Life!Stopped(n, q, shared) = Life!With(m, "STOP")
        BY <1>2, <2>1 DEF Life!Stopped
    <2>4. Sound(Life!With(m, "STOP")) /\ Life!With(m, "STOP").drains = m.drains
        BY <2>2 DEF Life!With, Sound, NodeSet, Bits
    <2>. QED
        BY <2>2, <2>3, <2>4 DEF Open, Life!DISABLE, Sound, NodeSet
<1>. QED
    BY <1>1, <1>2

LEMMA ShutKeeps ==
    ASSUME NEW n, Sound(n), NEW q \in Answers, NEW shared
    PROVE  /\ Sound(Life!Shut(n, q, shared))
           /\ Open(n) => Life!Shut(n, q, shared).drains > n.drains
           /\ Life!Shut(n, q, shared).drains >= n.drains
<1>1. CASE ~Open(n)
    BY <1>1 DEF Life!Shut, Open, Sound, NodeSet
<1>2. CASE Open(n)
    <2>1. PICK m : m = Life!Drained(n, q, shared)
        OBVIOUS
    <2>2. Sound(m) /\ m.drains > 0 /\ m.drains = n.drains + (IF n.ears THEN 1 ELSE 0)
        BY <2>1, DrainedKeeps
    <2>3. n.ears /\ n.drains \in Nat
        BY <1>2 DEF Open, Life!DISABLE, Sound, NodeSet
    <2>4. Life!Shut(n, q, shared) \in {m, Life!QuietFree(Life!SetClose(m), shared)}
        BY <1>2, <2>1 DEF Life!Shut, Open
    <2>. QED
        BY <2>2, <2>3, <2>4, CloseOnce
<1>. QED
    BY <1>1, <1>2

LEMMA FreedKeeps ==
    ASSUME NEW n, Sound(n), NEW q \in Answers, NEW shared
    PROVE  /\ Sound(Life!Freed(n, q, shared))
           /\ Open(n) => Life!Freed(n, q, shared).drains > n.drains
           /\ Life!Freed(n, q, shared).drains >= n.drains
<1>1. CASE Life!Held(n, shared)
    BY <1>1 DEF Life!Freed, Life!Held, Open, Life!DISABLE, Sound, NodeSet
<1>2. CASE ~Life!Held(n, shared)
    <2>1. PICK k : k = Life!With(n, "KILL")
        OBVIOUS
    <2>2. /\ "KILL" \notin n.bits /\ n.ears /\ n.closes = 0 /\ n.drains \in Nat
          /\ Dead(k) /\ k.ears /\ k.closes = 0 /\ k.drains = n.drains
          /\ k.bits \cap {"CLOSE", "STOP"} # {} => n.drains > 0 /\ ~Open(n)
        BY <1>2, <2>1 DEF Life!Held, Life!With, Dead, Sound, NodeSet, Bits, Open, Life!DISABLE
    <2>3. PICK m : m = IF k.bits \cap {"CLOSE", "STOP"} # {} THEN k ELSE Life!Drained(k, q, shared)
        OBVIOUS
    <2>4. Life!Freed(n, q, shared) = Life!Gone(m)
        BY <1>2, <2>1, <2>3 DEF Life!Freed
    <2>5. Dead(m) /\ m.closes = 0 /\ m.drains > 0 /\ m.drains >= n.drains
          /\ (Open(n) => m.drains > n.drains)
        <3>1. CASE k.bits \cap {"CLOSE", "STOP"} # {}
            BY <3>1, <2>2, <2>3
        <3>2. CASE k.bits \cap {"CLOSE", "STOP"} = {}
            <4>1. PICK j : j = [k EXCEPT !.drains = @ + 1]
                OBVIOUS
            <4>2. Dead(j) /\ j.closes = 0 /\ j.drains = n.drains + 1
                BY <2>2, <4>1 DEF Dead, NodeSet
            <4>3. m = Life!Quiet(j, q, shared)
                BY <2>2, <2>3, <3>2, <4>1 DEF Life!Drained
            <4>. QED
                BY <2>2, <4>2, <4>3, DeadStays
        <3>. QED
            BY <3>1, <3>2
    <2>6. Sound(Life!Gone(m)) /\ Life!Gone(m).drains = m.drains
        BY <2>5, GoneOnce
    <2>. QED
        BY <2>4, <2>5, <2>6
<1>. QED
    BY <1>1, <1>2

\* A call of the program.
LEMMA CallKeeps ==
    ASSUME NEW n, Sound(n), NEW c \in Life!Calls, NEW q \in Answers, NEW shared
    PROVE  /\ Sound(Life!Call(n, c, q, shared))
           /\ Open(n) => \/ Life!Call(n, c, q, shared).drains > n.drains
                         \/ Open(Life!Call(n, c, q, shared))
           /\ Life!Call(n, c, q, shared).drains >= n.drains
           /\ c = "stop" /\ Open(n) => Life!Call(n, c, q, shared).drains > n.drains
<1>1. CASE c = "stop"
    BY <1>1, StoppedKeeps DEF Life!Call
<1>2. CASE c = "free"
    BY <1>2, FreedKeeps DEF Life!Call
<1>3. CASE c = "close"
    BY <1>3, ShutKeeps DEF Life!Call
<1>4. CASE c = "resume"
    BY <1>4 DEF Life!Call, Life!Quiet, Life!Resumed, Sound, NodeSet, Bits, Open, Life!DISABLE
<1>5. CASE c \in {"reuse", "no reuse"}
    <2>1. PICK m : m = Life!Call(n, c, q, shared)
        OBVIOUS
    <2>2. m = [n EXCEPT !.bits = n.bits \cup {"REUSE"}] \/ m = [n EXCEPT !.bits = n.bits \ {"REUSE"}]
        BY <1>5, <2>1 DEF Life!Call, Life!Quiet, Life!Reused
    <2>3. n \in NodeSet
        BY DEF Sound
    <2>4. /\ m \in NodeSet /\ m.ears = n.ears /\ m.closes = n.closes /\ m.drains = n.drains
          /\ m.bits \in {n.bits \cup {"REUSE"}, n.bits \ {"REUSE"}}
        BY <2>2, <2>3 DEF NodeSet, Bits
    <2>5. \A b \in {"KILL", "STOP", "CLOSE"} : b \in m.bits <=> b \in n.bits
        BY <2>4
    <2>6. m.bits \cap Life!DISABLE = n.bits \cap Life!DISABLE
        BY <2>5 DEF Life!DISABLE
    <2>7. Sound(m) /\ (Open(n) => Open(m)) /\ m.drains = n.drains /\ n.drains \in Nat
        <3>1. n.drains \in Nat
            BY <2>3 DEF NodeSet
        <3>. QED
            BY <3>1, <2>4, <2>5, <2>6 DEF Sound, Open
    <2>8. m.drains >= n.drains
        BY <2>7
    <2>9. c # "stop"
        BY <1>5
    <2>. QED
        BY <2>1, <2>7, <2>8, <2>9, Zenon
<1>6. c \in {"stop", "free", "close", "resume"} \cup {"reuse", "no reuse"}
    BY DEF Life!Calls
<1>7. c = "resume" \/ c \in {"reuse", "no reuse"} \/ c = "free" \/ c = "close" => c # "stop"
    OBVIOUS
<1>. QED
    BY <1>1, <1>2, <1>3, <1>4, <1>5, <1>6, <1>7

LEMMA ReleasedKeeps ==
    ASSUME NEW n, Sound(n), NEW who
    PROVE  /\ Sound(Life!Released(who, n))
           /\ Life!Released(who, n).drains >= n.drains
           /\ Open(n) => \/ Life!Released(who, n).drains > n.drains
                         \/ Life!Released(who, n) = n
           /\ Open(n) /\ Life!Cardinality(who) > 1 => Life!Released(who, n) = n
<1>1. n.drains \in Nat /\ "none" \in Answers
    BY DEF Sound, NodeSet, Answers
<1>2. Life!Released(who, n) \in {n, Life!Freed(n, "none", Life!Cardinality(who) > 1)}
    BY DEF Life!Released
<1>3. Open(n) /\ Life!Cardinality(who) > 1 => Life!Released(who, n) = n
    BY DEF Life!Released, Open
<1>. QED
    BY <1>1, <1>2, <1>3, FreedKeeps

-----------------------------------------------------------------------------
(* Every step keeps the invariant of the stream.                           *)

LEMMA LifeInit ==
    ASSUME Life!Init
    PROVE  LifeInv
<1>1. /\ bits = {"OPEN"} /\ ears = TRUE /\ drains = 0 /\ closes = 0 /\ borrow = 0 /\ heard = 0
      /\ calls = 0 /\ source = [came |-> 0, read |-> 0, ended |-> FALSE] /\ pipe = "none"
      /\ promise = "none" /\ copies \subseteq {"program", "listener"}
    BY DEF Life!Init
<1>2. Life!Node \in NodeSet /\ Sound(Life!Node)
    BY <1>1 DEF Life!Node, NodeSet, Bits, Sound, Life!DISABLE
<1>3. LifeTyped
    BY <1>1, <1>2 DEF LifeTyped
<1>. QED
    BY <1>1, <1>2, <1>3 DEF LifeInv

\* The stream becomes n, and what is pending then stays so only if it is open.
LEMMA BecomesKeeps ==
    ASSUME LifeInv, NEW n, Sound(n), n.drains >= drains, Life!Becomes(n),
           promise = "pending" => n.drains > drains \/ (Open(n) /\ pipe' # "none"),
           promise = "pending" /\ n.drains > drains /\ calls' = 0 =>
               heard' = source'.came /\ source'.ended,
           promise = "resolved" /\ calls' = 0 =>
               calls = 0 /\ source'.came = source.came /\ source'.ended = source.ended,
           copies' \subseteq {"program", "task", "listener"},
           source' \in [came : Nat, read : Nat, ended : BOOLEAN],
           borrow' \in Nat, heard' \in Nat, calls' \in Nat,
           heard' + (IF borrow' # 0 THEN 1 ELSE 0) = source'.read,
           pipe' # "none" => "task" \in copies'
    PROVE  LifeInv'
<1>1. n \in NodeSet /\ bits' = n.bits /\ ears' = n.ears /\ drains' = n.drains /\ closes' = n.closes
    BY DEF Life!Becomes, Sound
<1>2. n = [bits |-> bits', ears |-> ears', drains |-> drains', closes |-> closes']
    BY <1>1 DEF NodeSet
<1>3. Life!Node' = n
    BY <1>2 DEF Life!Node
<1>4. Sound(Life!Node)' /\ LifeTyped'
    BY <1>1, <1>3 DEF Sound, LifeTyped
<1>5. n.drains \in Nat /\ drains \in Nat
    BY <1>1 DEF NodeSet, LifeInv, LifeTyped, Life!Node
<1>6. promise = "pending" /\ n.drains > drains => promise' = "resolved" /\ got' = heard'
    BY DEF Life!Becomes
<1>7. ~(promise = "pending" /\ n.drains > drains) => promise' = promise /\ got' = got
    BY DEF Life!Becomes
<1>8. Open(n) => ~Life!IsClosed'
    BY <1>1 DEF Open, Life!IsClosed
<1>9. promise' = "pending" => ~Life!IsClosed' /\ pipe' # "none"
    BY <1>6, <1>7, <1>8
<1>10. promise' = "resolved" /\ calls' = 0 => got' = source'.came /\ source'.ended
    BY <1>6, <1>7 DEF LifeInv
<1>. QED
    BY <1>4, <1>9, <1>10 DEF LifeInv

\* What the stream is now, it becomes by doing nothing.
LEMMA StaysSo ==
    ASSUME LifeInv
    PROVE  /\ Sound(Life!Node) /\ Life!Node.drains = drains /\ drains \in Nat
           /\ UNCHANGED <<bits, ears, drains, closes, promise, got>> => Life!Becomes(Life!Node)
           /\ Open(Life!Node) <=> ~Life!IsClosed
           /\ promise = "pending" => Open(Life!Node)
<1>1. /\ Life!Node.bits = bits /\ Life!Node.ears = ears /\ Life!Node.drains = drains
      /\ Life!Node.closes = closes
    BY DEF Life!Node
<1>2. Sound(Life!Node) /\ drains \in Nat
    BY <1>1 DEF LifeInv, LifeTyped, NodeSet
<1>3. Open(Life!Node) <=> ~Life!IsClosed
    BY <1>1 DEF Open, Life!IsClosed
<1>4. ~(drains > drains)
    BY <1>2
<1>5. UNCHANGED <<bits, ears, drains, closes, promise, got>> => Life!Becomes(Life!Node)
    BY <1>1, <1>4 DEF Life!Becomes
<1>. QED
    BY <1>1, <1>2, <1>3, <1>5 DEF LifeInv

\* Steps that leave the stream, its promise and the program's count alone.
LEMMA StillKeeps ==
    ASSUME LifeInv, UNCHANGED <<bits, ears, drains, closes, promise, got, calls>>,
           promise = "pending" => pipe' # "none",
           promise = "resolved" /\ calls = 0 =>
               source'.came = source.came /\ source'.ended = source.ended,
           copies' \subseteq {"program", "task", "listener"},
           source' \in [came : Nat, read : Nat, ended : BOOLEAN],
           borrow' \in Nat, heard' \in Nat,
           heard' + (IF borrow' # 0 THEN 1 ELSE 0) = source'.read,
           pipe' # "none" => "task" \in copies'
    PROVE  LifeInv'
<1>1. ~(drains > drains) /\ drains >= drains
    BY StaysSo
<1>2. calls' \in Nat /\ calls' = calls
    BY DEF LifeInv, LifeTyped
<1>. QED
    BY <1>1, <1>2, StaysSo, BecomesKeeps

LEMMA SourceKeeps ==
    ASSUME LifeInv, Life!Comes \/ Life!EndsSource
    PROVE  LifeInv'
<1>1. /\ UNCHANGED <<bits, ears, drains, closes, promise, got, calls, copies, pipe, borrow, heard>>
      /\ ~source.ended
    BY DEF Life!Comes, Life!EndsSource
<1>2. source' \in [came : Nat, read : Nat, ended : BOOLEAN] /\ source'.read = source.read
    <2>1. source \in [came : Nat, read : Nat, ended : BOOLEAN]
        BY DEF LifeInv, LifeTyped
    <2>2. CASE Life!Comes
        BY <2>1, <2>2 DEF Life!Comes
    <2>3. CASE Life!EndsSource
        BY <2>1, <2>3 DEF Life!EndsSource
    <2>. QED
        BY <2>2, <2>3
<1>. QED
    BY <1>1, <1>2, StillKeeps DEF LifeInv, LifeTyped

LEMMA StartsKeep ==
    ASSUME LifeInv, Life!Pipe \/ Life!Readable \/ Life!Resolve
    PROVE  LifeInv'
<1>1. CASE Life!Pipe \/ Life!Readable
    <2>1. /\ UNCHANGED <<bits, ears, drains, closes, promise, got, calls, source, borrow, heard>>
          /\ \/ pipe' = pipe /\ copies' = copies
             \/ pipe' = "run" /\ copies' = copies \cup {"task"}
        BY <1>1 DEF Life!Pipe, Life!StartPipe, Life!Readable
    <2>. QED
        BY <2>1, StillKeeps DEF LifeInv, LifeTyped
<1>2. CASE Life!Resolve
    <2>1. UNCHANGED <<bits, ears, drains, closes, source, borrow, heard, got, calls>>
        BY <1>2 DEF Life!Resolve
    <2>2. \/ promise' = "rejected" /\ pipe' = pipe /\ copies' = copies
          \/ ~Life!IsClosed /\ promise' = "pending" /\ pipe' = "run" /\ copies' = copies \cup {"task"}
        BY <1>2 DEF Life!Resolve, Life!StartPipe
    <2>3. Life!Node' = Life!Node /\ (Life!IsClosed' <=> Life!IsClosed)
        BY <2>1 DEF Life!Node, Life!IsClosed
    <2>4. LifeTyped'
        BY <2>1, <2>2, <2>3 DEF LifeInv, LifeTyped
    <2>5. Sound(Life!Node)'
        BY <2>3 DEF LifeInv, Sound
    <2>. QED
        BY <2>1, <2>2, <2>3, <2>4, <2>5 DEF LifeInv
<1>. QED
    BY <1>1, <1>2

LEMMA ReadableKeeps ==
    ASSUME LifeInv, Life!ReadableTurn
    PROVE  LifeInv'
<1>1. UNCHANGED <<bits, ears, drains, closes, promise, got, calls, copies, pipe, heard>>
    BY DEF Life!ReadableTurn
<1>2. CASE UNCHANGED <<source, borrow>>
    BY <1>1, <1>2, StillKeeps DEF LifeInv, LifeTyped
<1>3. CASE /\ borrow = 0 /\ source.read < source.came
           /\ source' = [source EXCEPT !.read = @ + 1] /\ borrow' = source.read + 1
    <2>1. source \in [came : Nat, read : Nat, ended : BOOLEAN] /\ heard \in Nat /\ heard = source.read
        BY <1>3 DEF LifeInv, LifeTyped
    <2>2. source' \in [came : Nat, read : Nat, ended : BOOLEAN] /\ source'.read = source.read + 1
          /\ source'.came = source.came /\ source'.ended = source.ended
          /\ borrow' \in Nat /\ borrow' # 0
        BY <1>3, <2>1
    <2>. QED
        BY <1>1, <2>1, <2>2, StillKeeps DEF LifeInv, LifeTyped
<1>. QED
    BY <1>2, <1>3 DEF Life!ReadableTurn

\* Who has the stream, when a copy goes or its listeners do.
LEMMA HeldBy ==
    ASSUME LifeInv, NEW S, S \subseteq copies, NEW n, Life!Hold(S, n)
    PROVE  /\ copies' \subseteq {"program", "task", "listener"}
           /\ "task" \in S => "task" \in copies'
    BY DEF Life!Hold, LifeInv, LifeTyped

\* A call of the program, outside the stream or from its onData.
LEMMA OutcomeIs ==
    ASSUME LifeInv, NEW c \in Life!Calls, NEW q \in Answers
    PROVE  /\ Sound(Life!Outcome(c, q)) /\ Life!Outcome(c, q).drains >= drains
           /\ promise = "pending" => Life!Outcome(c, q).drains > drains \/ Open(Life!Outcome(c, q))
           /\ promise = "pending" /\ c = "stop" => Life!Outcome(c, q).drains > drains
<1>1. Life!Outcome(c, q) = Life!Call(Life!Node, c, q, Life!Shared)
    BY DEF Life!Outcome
<1>. QED
    BY <1>1, StaysSo, CallKeeps

LEMMA ProgramKeeps ==
    ASSUME LifeInv, Life!Calls_
    PROVE  LifeInv'
<1>1. PICK c \in Life!Calls, q \in Answers :
          Life!Becomes(Life!Outcome(c, q)) /\ Life!Hold(copies, Life!Outcome(c, q)) /\ heard' = heard
    BY DEF Life!Calls_, Answers
<1>2. PICK n : n = Life!Outcome(c, q)
    OBVIOUS
<1>3. UNCHANGED <<source, borrow, pipe, heard>> /\ calls' = calls + 1
    BY <1>1 DEF Life!Calls_, Life!Counted
<1>4. calls' \in Nat /\ calls' # 0
    BY <1>3 DEF LifeInv, LifeTyped
<1>5. Sound(n) /\ n.drains >= drains /\ (promise = "pending" => n.drains > drains \/ Open(n))
      /\ Life!Becomes(n)
    BY <1>1, <1>2, OutcomeIs
<1>6. copies' \subseteq {"program", "task", "listener"} /\ ("task" \in copies => "task" \in copies')
    BY <1>1, HeldBy
<1>. QED
    BY <1>3, <1>4, <1>5, <1>6, BecomesKeeps DEF LifeInv, LifeTyped

LEMMA SameLifeCardinality == \A S : Life!Cardinality(S) = Cardinality(S)
    BY DEF Life!Cardinality, Cardinality

LEMMA TwoCopies ==
    ASSUME LifeInv, "program" \in copies, "task" \in copies
    PROVE  Life!Cardinality(copies) > 1
<1>1. {"program", "task"} \subseteq copies /\ IsFiniteSet(copies)
    <2>1. copies \subseteq {"program", "task", "listener"}
        BY DEF LifeInv, LifeTyped
    <2>2. IsFiniteSet({"program", "task", "listener"})
        <3>1. {"program", "task", "listener"} = {"program"} \cup ({"task"} \cup {"listener"})
            OBVIOUS
        <3>2. IsFiniteSet({"program"}) /\ IsFiniteSet({"task"} \cup {"listener"})
            BY FS_Singleton, FS_Union
        <3>3. IsFiniteSet({"program"} \cup ({"task"} \cup {"listener"}))
            BY <3>2, FS_Union
        <3>. QED
            BY <3>1, <3>3
    <2>. QED
        BY <2>1, <2>2, FS_Subset
<1>2. Cardinality({"program", "task"}) = 2
    <2>1. Cardinality({"program"}) = 1 /\ IsFiniteSet({"program"})
        BY FS_Singleton
    <2>2. "task" \notin {"program"} /\ {"program"} \cup {"task"} = {"program", "task"}
        OBVIOUS
    <2>3. Cardinality({"program"} \cup {"task"}) = Cardinality({"program"}) + 1
        BY <2>1, <2>2, FS_AddElement
    <2>. QED
        BY <2>1, <2>2, <2>3
<1>3. Cardinality({"program", "task"}) <= Cardinality(copies) /\ Cardinality(copies) \in Nat
    BY <1>1, FS_Subset, FS_CardinalityType
<1>. QED
    BY <1>2, <1>3, SameLifeCardinality

\* While the task has a copy, the program's may go.
LEMMA DropKeeps ==
    ASSUME LifeInv, Life!Drop
    PROVE  LifeInv'
<1>1. PICK n : n = Life!Released(copies, Life!Node)
    OBVIOUS
<1>2. /\ UNCHANGED <<source, borrow, pipe, calls, heard>> /\ "program" \in copies
      /\ Life!Becomes(n) /\ Life!Hold(copies \ {"program"}, n)
    BY <1>1 DEF Life!Drop, Life!Program
<1>3. Sound(n) /\ n.drains >= drains
    BY <1>1, StaysSo, ReleasedKeeps
<1>4. promise = "pending" => n = Life!Node /\ pipe # "none"
    BY <1>1, <1>2, StaysSo, ReleasedKeeps, TwoCopies DEF LifeInv
<1>5. promise = "pending" => Open(n) /\ ~(n.drains > drains)
    BY <1>4, StaysSo
<1>6. copies' \subseteq {"program", "task", "listener"} /\ ("task" \in copies => "task" \in copies')
    BY <1>2, HeldBy
<1>. QED
    BY <1>2, <1>3, <1>4, <1>5, <1>6, BecomesKeeps DEF LifeInv, LifeTyped

LEMMA HearsKeeps ==
    ASSUME LifeInv, Life!PipeHears, pipe # "none"
    PROVE  LifeInv'
<1>1. source \in [came : Nat, read : Nat, ended : BOOLEAN] /\ heard \in Nat /\ borrow \in Nat
      /\ heard + (IF borrow # 0 THEN 1 ELSE 0) = source.read /\ "task" \in copies
    BY DEF LifeInv, LifeTyped
<1>2. /\ heard' = heard + 1 /\ borrow' = 0 /\ pipe' = "run"
      /\ source' = IF borrow # 0 THEN source ELSE [source EXCEPT !.read = @ + 1]
    BY DEF Life!PipeHears
<1>3. /\ source' \in [came : Nat, read : Nat, ended : BOOLEAN]
      /\ source'.came = source.came /\ source'.ended = source.ended
      /\ source'.read = IF borrow # 0 THEN source.read ELSE source.read + 1
    BY <1>1, <1>2
<1>4. heard' \in Nat /\ borrow' \in Nat /\ heard' + (IF borrow' # 0 THEN 1 ELSE 0) = source'.read
    BY <1>1, <1>2, <1>3
<1>5. CASE UNCHANGED <<bits, copies, ears, drains, closes, promise, got, calls>>
    BY <1>1, <1>2, <1>3, <1>4, <1>5, StillKeeps DEF LifeInv, LifeTyped
<1>6. ASSUME NEW c \in Life!Calls, Life!Counted, Life!Becomes(Life!Outcome(c, "none")),
             Life!Hold(copies, Life!Outcome(c, "none"))
      PROVE  LifeInv'
    <2>1. PICK n : n = Life!Outcome(c, "none")
        OBVIOUS
    <2>2. calls' \in Nat /\ calls' # 0
        BY <1>6 DEF LifeInv, LifeTyped, Life!Counted
    <2>3. "none" \in Answers
        BY DEF Answers
    <2>4. Sound(n) /\ n.drains >= drains /\ (promise = "pending" => n.drains > drains \/ Open(n))
          /\ Life!Becomes(n)
        BY <1>6, <2>1, <2>3, OutcomeIs
    <2>5. copies' \subseteq {"program", "task", "listener"} /\ "task" \in copies'
        BY <1>1, <1>6, HeldBy
    <2>. QED
        BY <1>2, <1>3, <1>4, <2>2, <2>4, <2>5, BecomesKeeps
<1>. QED
    BY <1>5, <1>6 DEF Life!PipeHears

\* The task ends; a stream that was open is stopped first, and tells the one
\* who waits for the whole of it.
LEMMA EndsKeeps ==
    ASSUME LifeInv, Life!PipeEnds, pipe # "none"
    PROVE  LifeInv'
<1>1. PICK q \in Answers :
          LET m == IF Life!IsClosed THEN Life!Node ELSE Life!Outcome("stop", q)
              n == Life!Released(copies, m)
          IN  heard' = heard /\ Life!Becomes(n) /\ Life!Hold(copies \ {"task"}, n)
    BY DEF Life!PipeEnds, Answers
<1>2. PICK m : m = IF Life!IsClosed THEN Life!Node ELSE Life!Outcome("stop", q)
    OBVIOUS
<1>3. PICK n : n = Life!Released(copies, m)
    OBVIOUS
<1>4. heard' = heard /\ Life!Becomes(n) /\ Life!Hold(copies \ {"task"}, n)
    BY <1>1, <1>2, <1>3
<1>5. UNCHANGED <<source, borrow, calls>> /\ pipe' = "none"
      /\ (Life!IsClosed \/ (Life!Nothing /\ source.ended))
    BY DEF Life!PipeEnds
<1>6. Sound(m) /\ m.drains >= drains /\ (promise = "pending" => m.drains > drains)
    <2>1. CASE Life!IsClosed
        BY <1>2, <2>1, StaysSo
    <2>2. CASE ~Life!IsClosed
        <3>1. "stop" \in Life!Calls
            BY DEF Life!Calls
        <3>. QED
            BY <1>2, <2>2, <3>1, OutcomeIs
    <2>. QED
        BY <2>1, <2>2
<1>7. Sound(n) /\ n.drains >= m.drains
    BY <1>3, <1>6, ReleasedKeeps
<1>8. n.drains >= drains /\ (promise = "pending" => n.drains > drains)
    <2>1. n.drains \in Nat /\ m.drains \in Nat /\ drains \in Nat
        BY <1>6, <1>7, StaysSo DEF Sound, NodeSet
    <2>. QED
        BY <1>6, <1>7, <2>1
<1>9. promise = "pending" => heard' = source'.came /\ source'.ended
    <2>1. promise = "pending" => Life!Nothing /\ source.ended
        BY <1>5 DEF LifeInv
    <2>2. source.read \in Nat /\ heard \in Nat /\ (borrow = 0 => heard = source.read)
        BY DEF LifeInv, LifeTyped
    <2>. QED
        BY <1>4, <1>5, <2>1, <2>2 DEF Life!Nothing
<1>10. copies' \subseteq {"program", "task", "listener"}
    BY <1>4, HeldBy
<1>. QED
    BY <1>4, <1>5, <1>7, <1>8, <1>9, <1>10, BecomesKeeps DEF LifeInv, LifeTyped

LEMMA LifeNext ==
    ASSUME LifeInv, Life!Next
    PROVE  LifeInv'
<1>1. CASE Life!PipeTurn
    <2>1. pipe # "none"
        BY <1>1 DEF Life!PipeTurn
    <2>2. CASE Life!PipeBlocked
        <3>1. /\ UNCHANGED <<bits, copies, ears, drains, closes, source, borrow, heard,
                             promise, got, calls>>
              /\ pipe' = "poll"
            BY <2>2 DEF Life!PipeBlocked
        <3>. QED
            BY <2>1, <3>1, StillKeeps DEF LifeInv, LifeTyped
    <2>. QED
        BY <1>1, <2>1, <2>2, HearsKeeps, EndsKeeps DEF Life!PipeTurn
<1>. QED
    BY <1>1, SourceKeeps, ProgramKeeps, StartsKeep, DropKeeps, ReadableKeeps DEF Life!Next

LEMMA LifeRight ==
    ASSUME LifeInv
    PROVE  Life!ClosedOnce
<1>1. /\ Life!Node.bits = bits /\ Life!Node.drains = drains /\ Life!Node.closes = closes
      /\ drains \in Nat
    BY DEF Life!Node, LifeInv, LifeTyped, NodeSet
<1>2. closes = (IF "KILL" \in bits THEN 1 ELSE 0) /\ (closes = 1 => drains >= 1)
    <2>1. closes = (IF "KILL" \in bits THEN 1 ELSE 0)
        BY <1>1 DEF LifeInv, Sound
    <2>2. "KILL" \in bits => drains > 0
        BY <1>1 DEF LifeInv, Sound, Life!DISABLE
    <2>. QED
        BY <1>1, <2>1, <2>2
<1>. QED
    BY <1>2 DEF LifeInv, Life!ClosedOnce

-----------------------------------------------------------------------------

\* While the others rest.
LEMMA LifeRest ==
    ASSUME LifeInv, UNCHANGED lifeVars
    PROVE  LifeInv'
    BY DEF lifeVars, LifeInv, LifeTyped, Sound, Life!Node, Life!IsClosed

LEMMA UdpStill ==
    ASSUME UdpInv, SaidOK, UNCHANGED udpVars
    PROVE  UdpInv' /\ SaidOK'
<1>1. UNCHANGED <<state, task, said, server, address, piped, sent, wire, inbox, took, later, answers>>
    BY DEF udpVars
<1>2. UdpInv'
    BY <1>1, UdpRest DEF UdpInv, UdpTyped, Udp!ReadAddress
<1>. QED
    BY <1>1, <1>2, SaidRest

LEMMA StreamsInit ==
    ASSUME ThreeInit
    PROVE  LifeInv /\ UdpInv /\ SaidOK
    BY LifeInit, UdpInitial, SaidInit DEF ThreeInit

LEMMA StreamsNext ==
    ASSUME LifeInv, UdpInv, SaidOK, [ThreeNext]_all
    PROVE  (LifeInv /\ UdpInv /\ SaidOK)'
<1>1. Life!Next \/ UNCHANGED lifeVars
    BY DEF ThreeNext, OnCarriers, OnLife, OnUdp, all
<1>2. Udp!Next \/ UNCHANGED udpVars
    BY DEF ThreeNext, OnCarriers, OnLife, OnUdp, all
<1>. QED
    BY <1>1, <1>2, LifeNext, LifeRest, UdpNext, UdpSays, UdpStill

\* file.h, socket.h: whatever the program calls, from listeners too, a stream
\* is told of its end once, after onDrain, its chunks are heard once each, and
\* who waits for its end is answered; and a udp_t tells of its connection and
\* of its end once, in that order (udp.h).
THEOREM ToldRight == ThreeSpec => []ToldOnce
<1>1. ThreeInit => LifeInv /\ UdpInv /\ SaidOK
    BY StreamsInit
<1>2. LifeInv /\ UdpInv /\ SaidOK /\ [ThreeNext]_all => (LifeInv /\ UdpInv /\ SaidOK)'
    BY StreamsNext
<1>3. LifeInv /\ UdpInv /\ SaidOK => ToldOnce
    BY LifeRight, SaidRight DEF ToldOnce
<1>. QED
    BY <1>1, <1>2, <1>3, PTL DEF ThreeSpec

\* udp.h: whatever is lost, repeated or overtaken, what is heard is part of a
\* datagram its peer sent, an answer given at once goes to that peer, and a
\* later one to somebody who was heard.
THEOREM AttributedRight == ThreeSpec => []Attributed
<1>1. ThreeInit => LifeInv /\ UdpInv /\ SaidOK
    BY StreamsInit
<1>2. LifeInv /\ UdpInv /\ SaidOK /\ [ThreeNext]_all => (LifeInv /\ UdpInv /\ SaidOK)'
    BY StreamsNext
<1>3. LifeInv /\ UdpInv /\ SaidOK => Attributed
    BY UdpRight DEF Attributed
<1>. QED
    BY <1>1, <1>2, <1>3, PTL DEF ThreeSpec
=============================================================================
