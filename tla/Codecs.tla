------------------------------- MODULE Codecs --------------------------------
(***************************************************************************)
(* The codecs of encoder.h and utf.h, and the contexts of crypto.h and     *)
(* zlib.h that are built on them.                                          *)
(*                                                                         *)
(* A byte string is a sequence of numbers below 256, a digit of a code is  *)
(* its index in the code's table (64 is the "=" that fills a base64 text), *)
(* a code point or a UTF-16 unit is a number.                              *)
(*                                                                         *)
(* A streaming context is given a text in pieces and hands out what it     *)
(* made of it, to the listeners of onData or at get().  A context is a     *)
(* record, an operation a function from context to context.  The           *)
(* arithmetic of OpenSSL and of zlib is external: a digest is the text it  *)
(* was made of, an enciphered byte its block and its place in it, and a    *)
(* unit of a compressed text the bytes it stands for.                      *)
(*                                                                         *)
(* Operators whose name starts with Bad are the definition that follows    *)
(* them with one plausible mistake in it; no specification uses them.      *)
(***************************************************************************)
EXTENDS FiniteSets, Arrays

-----------------------------------------------------------------------------
(* bytes, bin and hex: a number of w bytes, the highest first.             *)

BytesOf(num, w) == [y \in 1..w |-> (num \div 2^(8 * (w - y))) % 256]
OfBytes(bs)     == FoldLeft(LAMBDA out, b : 256 * out + b, 0, bs)

BitsOf(num, w)  == [x \in 1..(8 * w) |-> (num \div 2^(8 * w - x)) % 2]
OfBits(bits)    == FoldLeft(LAMBDA out, b : 2 * out + b, 0, bits)

RECURSIVE Nibbles(_)
Nibbles(num) == (IF num < 16 THEN <<>> ELSE Nibbles(num \div 16)) \o <<num % 16>>

HexOf(num)  == LET n == Nibbles(num) IN IF Len(n) % 2 = 0 THEN n ELSE <<0>> \o n
OfHex(n, w) == FoldLeft(LAMBDA out, c : (16 * out + c) % (256^w), 0, n)

\* hex::atob( bytes ) and hex::btoa( text ), which takes two digits a byte.
HexText(bs)   == FlattenSeq([i \in DOMAIN bs |-> HexOf(bs[i])])
HexBytes(txt) == [i \in 1..((Len(txt) + 1) \div 2) |->
                    OfHex(SubSeq(txt, 2 * i - 1, IF 2 * i <= Len(txt) THEN 2 * i ELSE Len(txt)), 1)]

-----------------------------------------------------------------------------
(* base64: acc are the bits not yet written, n their number; of pos1, an   *)
(* int, only these bits are ever looked at.                                *)

RECURSIVE Drain(_, _, _)
Drain(s, size, top) ==
    IF s.n < size THEN s
    ELSE Drain([out |-> Append(s.out, (s.acc \div 2^(s.n - size)) % (2^size)),
                acc |-> s.acc % (2^(s.n - size)), n |-> s.n - size], size, top)

Feed(s, c, width, size) ==
    Drain([s EXCEPT !.acc = @ * 2^width + c, !.n = @ + width], size, width)

Pad == 64

NoBits == [out |-> <<>>, acc |-> 0, n |-> 0]

BadBase64(bs) ==
    LET s    == FoldLeft(LAMBDA t, c : Feed(t, c, 8, 6), NoBits, bs)
        text == IF s.n > 0 THEN Append(s.out, s.acc) ELSE s.out
    IN  text \o [i \in 1..((4 - (Len(text) % 4)) % 4) |-> Pad]

Base64(bs) ==
    LET s    == FoldLeft(LAMBDA t, c : Feed(t, c, 8, 6), NoBits, bs)
        text == IF s.n > 0 THEN Append(s.out, s.acc * 2^(6 - s.n)) ELSE s.out
    IN  text \o [i \in 1..((4 - (Len(text) % 4)) % 4) |-> Pad]

\* Up to the first symbol that is not in the table.
OfBase64(text) ==
    LET stop == {i \in DOMAIN text : text[i] = Pad}
        read == IF stop = {} THEN text
                ELSE SubSeq(text, 1, (CHOOSE i \in stop : \A j \in stop : i <= j) - 1)
    IN  FoldLeft(LAMBDA t, c : Feed(t, c, 6, 8), NoBits, read).out

-----------------------------------------------------------------------------
(* base58: division of the number by 58 with the borrow carried from the   *)
(* highest byte down, and the product and sum from the lowest byte up.     *)

RECURSIVE Leading0(_, _)
Leading0(s, x) == IF s # <<>> /\ s[1] = x THEN 1 + Leading0(Tail(s), x) ELSE 0

Stripped(s, x) == SubSeq(s, Leading0(s, x) + 1, Len(s))

Divide(bs) ==
    FoldLeft(LAMBDA d, x : [quot |-> Append(d.quot, ((256 * d.rest + x) \div 58) % 256),
                            rest |-> (256 * d.rest + x) % 58],
             [quot |-> <<>>, rest |-> 0], bs)

RECURSIVE Base58Digits(_)
Base58Digits(bs) ==
    IF bs = <<>> THEN <<>>
    ELSE LET d == Divide(bs) IN Base58Digits(Stripped(d.quot, 0)) \o <<d.rest>>

Base58(bs) == [i \in 1..Leading0(bs, 0) |-> 0] \o Base58Digits(Stripped(bs, 0))

\* One digit more, on bytes that start with the lowest.
Carry(nmb, digit) ==
    LET sum == FoldLeft(LAMBDA a, x : [out |-> Append(a.out, (58 * x + a.borrow) % 256),
                                       borrow |-> (58 * x + a.borrow) \div 256],
                        [out |-> <<>>, borrow |-> digit], nmb)
    IN  sum.out \o (IF sum.borrow = 0 THEN <<>> ELSE <<sum.borrow>>)

\* The loop that would count the leading zeros looks at nmb, which is
\* still empty, so they are lost.
OfBase58(text) == Reverse(FoldLeft(Carry, <<>>, text))

-----------------------------------------------------------------------------
(* UTF-8, UTF-16 and UTF-32: Invalid is the null the code returns.         *)

Invalid == <<-1>>

\* The bytes of a code point.
Utf8Of(cp) ==
    IF cp <= 127 THEN <<cp>>
    ELSE IF cp <= 2047 THEN <<192 + cp \div 64, 128 + (cp % 64)>>
    ELSE IF cp <= 65535
    THEN <<224 + cp \div 4096, 128 + ((cp \div 64) % 64), 128 + (cp % 64)>>
    ELSE <<240 + cp \div 262144, 128 + ((cp \div 4096) % 64),
           128 + ((cp \div 64) % 64), 128 + (cp % 64)>>

Utf16Of(cp) ==
    IF cp <= 65535 THEN <<cp>>
    ELSE <<55296 + (cp - 65536) \div 1024, 56320 + ((cp - 65536) % 1024)>>

\* What stands at i: its code point and its length, or length 0.
Utf8At(u, i) ==
    LET b     == u[i]
        low(k) == u[i + k] % 64
        n     == IF b < 128 THEN 1 ELSE IF b \div 32 = 6 THEN 2
                 ELSE IF b \div 16 = 14 THEN 3 ELSE IF b \div 8 = 30 THEN 4 ELSE 0
    IN  IF n = 0 \/ i + n - 1 > Len(u) THEN [cp |-> 0, n |-> 0]
        ELSE [n |-> n,
              cp |-> CASE n = 1 -> b
                       [] n = 2 -> (b % 32) * 64 + low(1)
                       [] n = 3 -> (b % 16) * 4096 + low(1) * 64 + low(2)
                       [] n = 4 -> (b % 8) * 262144 + low(1) * 4096 + low(2) * 64 + low(3)]

Utf16At(u, i) ==
    IF u[i] < 55296 \/ u[i] > 57343 THEN [cp |-> u[i], n |-> 1]
    ELSE IF u[i] > 56319 \/ i = Len(u) THEN [cp |-> 0, n |-> 0]
    ELSE IF u[i + 1] < 56320 \/ u[i + 1] > 57343 THEN [cp |-> 0, n |-> 0]
    ELSE [cp |-> (u[i] - 55296) * 1024 + (u[i + 1] - 56320) + 65536, n |-> 2]

Decoded(u, Read(_, _)) ==
    LET step(d, i) ==
            LET r == Read(u, i) IN
            IF d.bad \/ i # d.at THEN d
            ELSE IF r.n = 0 THEN [d EXCEPT !.bad = TRUE]
            ELSE [d EXCEPT !.at = @ + r.n, !.out = Append(@, r.cp)]
        done == FoldLeft(step, [at |-> 1, out |-> <<>>, bad |-> FALSE],
                         [i \in DOMAIN u |-> i])
    IN  IF done.bad THEN Invalid ELSE done.out

Encoded(cps, Write(_)) ==
    IF cps = Invalid \/ \E i \in DOMAIN cps : cps[i] > 1114111 THEN Invalid
    ELSE FlattenSeq([i \in DOMAIN cps |-> Write(cps[i])])

Utf8ToUtf32(u)   == Decoded(u, Utf8At)
Utf16ToUtf32(u)  == Decoded(u, Utf16At)
Utf32ToUtf8(cps)  == Encoded(cps, Utf8Of)
Utf32ToUtf16(cps) == Encoded(cps, Utf16Of)
Utf8ToUtf16(u)   == Encoded(Decoded(u, Utf8At), Utf16Of)
Utf16ToUtf8(u)   == Encoded(Decoded(u, Utf16At), Utf8Of)

-----------------------------------------------------------------------------
(* pac: a 64-bit word is the set of its bits that are 1.                   *)

Xor(v, w) == (v \ w) \cup (w \ v)
Low(w)    == {b \in w : b < 48}

\* endian::flip( word ): the bytes in the opposite order.
Flip(w) == {8 * (7 - b \div 8) + (b % 8) : b \in w}

\* The four quarters of a word, one on the other.
Quarters(w) ==
    {b \in 0..15 : Cardinality({b, b + 16, b + 32, b + 48} \cap w) % 2 = 1}

Mask(pre) == Xor(pre, Flip(pre))

\* pre is the address of the shutdown flag.
Pac(address, mask, pre) ==
    Low(Xor(address, Mask(pre))) \cup {b + 48 : b \in Quarters(Low(Xor(address, Mask(mask))))}

OfPac(address, mask, pre) ==
    LET raw == Low(Xor(address, Mask(pre)))
        sum == Quarters(Low(Xor(raw, Mask(mask))))
    IN  IF {b - 48 : b \in address \ Low(address)} = sum THEN raw ELSE {}
-----------------------------------------------------------------------------
CONSTANTS
    Chunk,          \* NODEPP_CHUNK_SIZE, the size of a buffer
    Block,          \* bytes of a block of the cipher
    Key             \* the key of xor_t, bytes and the null behind them

(* The classes that are a context with one algorithm each.                 *)

Digests == {"hash", "hmac"}
Ciphers == {"encrypt", "decrypt"}
Coders58 == {"enc58", "dec58"}
Coders64 == {"enc64", "dec64"}
Presses == {"inflate", "deflate"}

\* open      state, or STATE_ZLIB_OPEN
\* rest      what the context holds back; of xor the position in the key
\* out       obj->buff, and what update() of zlib_t returned
\* hears     onData has a listener
\* heard     what it was given; late: of that after onClose
\* closes    emissions of onClose
NewContext(kind) ==
    [kind |-> kind, open |-> TRUE,
     rest |-> CASE kind = "xor" -> 0 [] kind \in Coders64 -> NoBits [] OTHER -> <<>>,
     out |-> <<>>, hears |-> FALSE, heard |-> <<>>, late |-> FALSE, closes |-> 0]

Listen(c) == IF c.open THEN [c EXCEPT !.hears = TRUE] ELSE c

Emit(c, bytes) ==
    IF ~c.hears THEN [c EXCEPT !.out = @ \o bytes]
    ELSE [c EXCEPT !.heard = @ \o bytes, !.late = @ \/ (bytes # <<>> /\ c.closes > 0)]

\* onClose.emit(), onData.clear(): the emissions of a closed context.
Closed(c, told) ==
    [c EXCEPT !.open = FALSE, !.hears = FALSE, !.closes = @ + (IF told THEN 1 ELSE 0)]

-----------------------------------------------------------------------------
(* The external part.                                                      *)

Digest(kind, bytes) == << <<kind, bytes>> >>

Masked(b, k)   == <<b, k>>
Enciphered(p)  == [i \in 1..Block |-> <<p, i>>]
Deciphered(u)  == FlattenSeq([j \in 1..(Len(u) \div Block) |-> u[Block * j][1]])
Padded(p)      == p \o [i \in 1..(Block - Len(p)) |-> -(Block - Len(p))]
\* Padding tells how long it is; a last block without is refused.
Unpadded(p)    == IF p[Len(p)] < 0 THEN SubSeq(p, 1, Len(p) + p[Len(p)]) ELSE <<>>

\* How many bytes EVP_EncryptUpdate and EVP_DecryptUpdate are done with: the
\* latter keeps a block that may be the last.
Ready(kind, n) ==
    IF kind = "decrypt" /\ n % Block = 0 /\ n > 0 THEN n - Block ELSE Block * (n \div Block)

Blocks(kind, bytes) ==
    IF kind = "decrypt" THEN Deciphered(bytes)
    ELSE FlattenSeq([j \in 1..(Len(bytes) \div Block) |->
                        Enciphered(SubSeq(bytes, Block * (j - 1) + 1, Block * j))])

-----------------------------------------------------------------------------
(* update(): the text goes in by pieces no longer than the buffer.         *)

\* The position moves by one more than the position, modulo the key; an
\* index beyond the key is taken modulo its length, the null included.
XorAll(c, bytes) ==
    FoldLeft(LAMBDA d, b : [Emit(d, <<Masked(b, Key[(d.rest % Len(Key)) + 1])>>)
                              EXCEPT !.rest = @ + ((@ + 1) % (Len(Key) - 1))], c, bytes)

Cipher(c, bytes) ==
    LET all == c.rest \o bytes
        n   == Ready(c.kind, Len(all))
    IN  [Emit(c, Blocks(c.kind, SubSeq(all, 1, n))) EXCEPT !.rest = SubSeq(all, n + 1, Len(all))]

\* Bits that are left wait for the next piece.  There are more digits than
\* bytes: a piece longer than three quarters of the buffer is not for this.
Encode64(c, bytes) ==
    LET s == FoldLeft(LAMBDA t, b : Feed(t, b, 8, 6), [c.rest EXCEPT !.out = <<>>], bytes)
    IN  [Emit(c, s.out) EXCEPT !.rest = s]

Decode64(c, text) ==
    LET stop == {i \in DOMAIN text : text[i] = Pad}
        n    == IF stop = {} THEN Len(text)
                ELSE (CHOOSE i \in stop : \A j \in stop : i <= j) - 1
        s    == FoldLeft(LAMBDA t, d : Feed(t, d, 6, 8), [c.rest EXCEPT !.out = <<>>],
                         SubSeq(text, 1, n))
    IN  [Emit(c, s.out) EXCEPT !.rest = s]

\* One call of ::inflate or ::deflate: what does not fit into the buffer is
\* not asked for again.  A unit is a sequence of bytes, the empty one is not
\* of a compressed text at all; update() returns nothing when it met one.
Inflate(c, units) ==
    LET bad  == {i \in DOMAIN units : units[i] = <<>>}
        good == IF bad = {} THEN Len(units) ELSE (CHOOSE i \in bad : \A j \in bad : i <= j) - 1
        made == FlattenSeq(SubSeq(units, 1, good))
        d    == IF bad # {} /\ ~c.hears THEN c ELSE Emit(c, SubSeq(made, 1, Lesser(Len(made), Chunk)))
    IN  IF bad = {} THEN d ELSE Closed(d, TRUE)

Deflate(c, bytes) ==
    LET made == [i \in DOMAIN bytes |-> <<bytes[i]>>] IN
    Emit(c, SubSeq(made, 1, Lesser(Len(made), Chunk)))

Fed(c, bytes) ==
    CASE c.kind \in Digests \cup Coders58 -> [c EXCEPT !.rest = @ \o bytes]
      [] c.kind = "xor"     -> XorAll(c, bytes)
      [] c.kind \in Ciphers -> Cipher(c, bytes)
      [] c.kind = "enc64"   -> Encode64(c, bytes)
      [] c.kind = "dec64"   -> Decode64(c, bytes)
      [] c.kind = "inflate" -> Inflate(c, bytes)
      [] c.kind = "deflate" -> Deflate(c, bytes)

Update(c, bytes) ==
    IF ~c.open THEN c
    ELSE IF c.kind \in Presses THEN (IF bytes = <<>> THEN c ELSE Fed(c, bytes))
    ELSE FoldLeft(Fed, c, Chunks(bytes, Chunk))

-----------------------------------------------------------------------------
(* free() and get().                                                       *)

\* Block ciphers: onClose is told only if the last block had bytes in it.
Finish(c) ==
    LET last == CASE c.kind = "encrypt" -> Enciphered(Padded(c.rest))
                  [] Len(c.rest) = Block -> Unpadded(Deciphered(c.rest))
                  [] OTHER -> <<>>
    IN  IF c.open THEN Closed(Emit(c, last), last # <<>>) ELSE c

Finish64(c) ==
    LET d == IF c.rest.n > 0 THEN <<c.rest.acc * 2^(6 - c.rest.n)>> ELSE <<>>
        n == Len(c.out) + Len(c.heard) + Len(d)
    IN  Closed(Emit(c, d \o [i \in 1..((4 - (n % 4)) % 4) |-> Pad]), TRUE)

\* The decoders test for the wrong state: they are never closed.
Close(c) ==
    CASE c.kind \in Ciphers -> Finish(c)
      [] ~c.open -> c
      [] c.kind \in Digests -> Closed(Emit(c, Digest(c.kind, c.rest)), FALSE)
      [] c.kind = "enc64" -> Finish64(c)
      [] c.kind \in Coders58 \cup {"dec64"} -> c
      [] OTHER -> Closed(c, TRUE)

\* What get() returns; zlib_t has none, its update() returned it.
Got(c) ==
    CASE c.kind = "enc58" -> Base58(c.rest)
      [] c.kind = "dec58" -> OfBase58(c.rest)
      [] OTHER -> Close(c).out
-----------------------------------------------------------------------------
(* zlib: get(), which is one update(), and the pipes.                      *)

ZlibGet(kind, bytes) == Update(NewContext(kind), bytes).out

\* What is read goes through the context to the listeners of the reader, and
\* to a second stream if there is one: nothing to write ends such a pipe.
Pumped(kind, two, reads) ==
    LET Pump(p, bytes) ==
            LET c == Update([p.c EXCEPT !.out = <<>>], bytes) IN
            IF ~p.on THEN p
            ELSE IF two /\ c.out = <<>> THEN [p EXCEPT !.c = c, !.on = FALSE]
            ELSE [p EXCEPT !.c = c, !.told = @ \o c.out]
    IN  FoldLeft(Pump, [c |-> NewContext(kind), on |-> TRUE, told |-> <<>>], reads)

\* resolve() and await(): all that the listeners were told until the end.
Resolved(kind, two, reads) == Pumped(kind, two, reads).told

-----------------------------------------------------------------------------
(* The key objects of crypto.h: rsa_t, dsa_t, dh_t, ec_t and X509_t, the     *)
(* memory or the files their keys are written to and read from, and what is  *)
(* made with them.  The mathematics is external: a key is a name, what is    *)
(* enciphered or signed says with which key, and who has the other half can  *)
(* undo or check it.  0 is no key.  The constructors only make an empty      *)
(* object.                                                                   *)

\* key.pub, key.priv   which keys the object holds
\* shared              dh_t: which of them are the number that it reads keys
\*                     and signs with
\* open                state
NoKey == [pub |-> 0, priv |-> 0, shared |-> {}, open |-> TRUE]

Generate(o, name) == [o EXCEPT !.pub = name, !.priv = name]

\* The private key of RSA and DSA is written with the public one in it, and
\* never enciphered, whatever the password.
Pem(o, half) ==
    [half |-> half, pub |-> o.pub, priv |-> IF half = "private" THEN o.priv ELSE 0]

\* PEM_read_bio_...: the object is left alone when the text is another half.
\* What RSA had of a private key stays behind a public one.
Read(o, half, pem) ==
    IF pem.half # half \/ pem.pub = 0 THEN [ret |-> -1, to |-> o]
    ELSE [ret |-> 1, to |-> [o EXCEPT !.pub = pem.pub,
                                      !.priv = IF half = "private" THEN pem.priv ELSE @]]

\* From a file, "" when there is none: whether the text was right is not said.
ReadFile(o, half, file) ==
    IF file = <<>> THEN [ret |-> -1, to |-> o]
    ELSE [ret |-> 1, to |-> Read(o, half, file[1]).to]

\* fs::write_file().await() is true when all is written; X509_t takes that
\* for the error.
WriteFile(kind, written) == IF written # (kind = "x509") THEN 1 ELSE -1

-----------------------------------------------------------------------------

CloseKey(o) == [o EXCEPT !.open = FALSE]

Nothing == <<>>

\* public_encrypt() and private_decrypt() of a text that fits the key, and
\* sign() and verify() of dsa_t.
Seal(o, text) == IF ~o.open \/ o.pub = 0 THEN Nothing ELSE <<"for", o.pub, text>>

Unseal(o, data) ==
    IF ~o.open \/ o.priv # o.pub \/ data[2] # o.priv THEN Nothing ELSE data[3]

Sign(o, text) == IF ~o.open \/ o.priv = 0 THEN Nothing ELSE <<"by", o.priv, text>>

Verify(o, text, sign) == o.open /\ o.pub # 0 /\ sign = <<"by", o.pub, text>>

-----------------------------------------------------------------------------
(* dh_t.                                                                   *)

\* BN_hex2bn( &k ) writes into a number that the DH object may hold.
Numbered(o, n) ==
    [o EXCEPT !.pub = IF "public" \in o.shared THEN n ELSE @,
              !.priv = IF "private" \in o.shared THEN n ELSE @]

\* DH_set0_key() takes the public key first: each sets the other half.
SetPublic(o, n) ==
    IF ~o.open THEN o ELSE [Numbered(o, n) EXCEPT !.priv = n, !.shared = @ \cup {"private"}]

SetPrivate(o, n) ==
    IF ~o.open THEN o ELSE [Numbered(o, n) EXCEPT !.pub = n, !.shared = @ \cup {"public"}]

\* sign(): the secret shared with the peer whose public key is n, and what
\* becomes of the object.
Shared(o, n)  == IF ~o.open THEN Nothing ELSE <<Numbered(o, n).priv, n>>
Signing(o, n) == IF ~o.open THEN o ELSE Numbered(o, n)

Verified(o, n, sign) == Shared(o, n) = sign

=============================================================================
