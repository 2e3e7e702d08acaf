-------------------------------- MODULE MCTexts --------------------------------
(***************************************************************************)
(* The pure part of the library, checked on inputs that grow one symbol at *)
(* a time: what array_t, map_t, regex_t, url, path, json and the encoders  *)
(* compute is compared with what the callers in src/ take it to be.        *)
(*                                                                         *)
(* A topic says what the text is: elements, map operations, the subject of *)
(* a pattern, parts of a url, path segments, values in postfix order, or   *)
(* bytes.  Two of the four map keys have the same hash, and the hash of    *)
(* one is the root of the tree.                                            *)
(***************************************************************************)
EXTENDS Formats, Codecs

VARIABLES lang, text

vars == <<lang, text>>

-----------------------------------------------------------------------------
(* The inputs.                                                             *)

HashOf(k) == CASE k = "x" -> 0 [] k = "y" -> 2 [] k = "z" -> 2 [] OTHER -> 5

Chr(c)         == <<"chr", c>>
Of(neg, cs)    == <<"set", neg, cs>>
Grp(alts)      == <<"grp", alts>>
Times0(e, l, h) == <<"rep", e, l, h>>

Patterns ==
    { << <<Chr("a"), Chr("b")>> >>,
      << <<Chr("a"), Chr("b")>>, <<Chr("a")>>, <<Of(TRUE, <<"a">>), Chr("b")>> >>,
      << <<Of(FALSE, <<"a", "1">>), Of(TRUE, <<"b", "A">>)>> >>,
      << <<Times0(Chr("a"), 0, 1), Chr("b")>> >>,
      << <<Times0(Chr("a"), 0, -1), Chr("b")>>, <<Chr("1")>> >>,
      << <<Times0(Of(TRUE, <<"1">>), 1, -1)>> >>,
      << <<Times0(Chr("a"), 1, 2), Times0(Of(FALSE, <<"a", "b">>), 2, 2)>> >>,
      << <<Grp(<< <<Chr("a")>>, <<Chr("b"), Chr("a")>> >>), Chr("1")>> >>,
      << <<Times0(Grp(<< <<Chr("a"), Chr("b")>>, <<Chr("b")>> >>), 1, -1)>> >>,
      << <<Chr("1"), Grp(<< <<Times0(Chr("a"), 1, -1), Chr("b")>> >>), Times0(Chr("1"), 0, 2)>> >> }

ABlock == 2
AChunk == 4
AKey   == <<11, 12, 13, 0>>

Bytes == <<7, 255, 0, 97, 128, 33>>

\* What a context of a kind is given.
Given(kind, plain) ==
    CASE kind = "decrypt" -> FlattenSeq([j \in 1..3 |-> Enciphered(SubSeq(
                                plain \o (IF Len(plain) = 4 THEN <<-2, -2>> ELSE <<-1>>), 2 * j - 1, 2 * j))])
      [] kind = "dec64"   -> Base64(plain)
      [] kind = "dec58"   -> Base58(plain)
      [] kind = "inflate" -> << <<7, 7>>, <<8>>, <<9>>, <<>>, <<7>> >>
      [] OTHER            -> plain

AContext(kind, plain) ==
    [topic |-> "context", kind |-> kind, plain |-> plain, given |-> Given(kind, plain)]

AContexts == {AContext(k, Bytes) : k \in {"hash", "hmac", "xor", "encrypt", "enc58", "enc64",
                                         "deflate"}}
            \cup {AContext(k, SubSeq(Bytes, 1, n)) : k \in {"decrypt", "dec64"}, n \in 4..5}
            \cup {AContext("dec58", <<7, 1>>), AContext("inflate", <<>>)}

AllTopics ==
    {[topic |-> "keys"]} \cup AContexts \cup
    {[topic |-> t] : t \in {"array", "url", "query", "coded", "path", "json", "bytes", "points", "pac"}}
    \cup {[topic |-> "string", values |-> v] : v \in {<< <<97, 66, 32, 97>>, <<>> >>, << <<98>>, <<97, 97>> >>}}
    \cup {[topic |-> "map", literal |-> l] : l \in {<<>>, << <<"y", 1>>, <<"x", 2>> >>}}
    \cup {[topic |-> "regex", pattern |-> p, icase |-> i] : p \in Patterns, i \in BOOLEAN}

PartSymbols(n) ==
    CASE n = 0 -> {<<"h", "t", "t", "p">>, <<"t", "c", "p">>, <<"w">>}
      [] n = 1 -> {<<>>, <<"a", ":", "b">>}
      [] n = 2 -> {<<"a", ".", "b">>, <<"h">>, <<"[", "a", ":", "b", "]">>}
      [] n = 3 -> {<<>>, <<"8">>, <<"8", "0">>}
      [] n = 4 -> {<<>>, <<"/", "a">>, <<"/", "a", "/", "b">>}
      [] n = 5 -> {<<>>, <<"?", "a", "=", "1">>}
      [] n = 6 -> {<<>>, <<"#", "b">>}

TypedSymbols(l, n) ==
    CASE l.topic = "array"  -> {1, 2, 3}
      [] l.topic = "string" ->
            {"push", "unshift", "insert", "pop", "shift", "erase", "slice", "splice", "append",
             "plus", "sort", "upper", "lower", "capital", "reverse", "copy", "view", "replace",
             "fill"} \X {1, 2}
      [] l.topic = "map"    -> {"put"} \X {"x", "y", "z"} \X {1, 2}
                               \cup {"get", "erase"} \X {"x", "y", "z"} \cup {<<"clear">>}
      [] l.topic = "regex"  -> {"a", "b", "A", "1"}
      [] l.topic = "url"    -> PartSymbols(n)
      [] l.topic = "query"  -> {<<"a">>, <<"b">>, <<"a", "b">>} \X {<<"1">>, <<"2", "0">>}
      [] l.topic = "coded"  -> {"a", "1", " ", "/", "&", "+", "@"}
      [] l.topic = "path"   -> {<<"a">>, <<"b">>, Up}
      [] l.topic = "json"   -> {Null, <<"bool", <<"true">> >>, <<"int", <<"1", "0">> >>,
                                <<"string", <<"a", ",", "b">> >>, <<"string", <<>> >>,
                                <<"array">>, <<"object">>, <<"ints">>, <<"strings">>}
      [] l.topic = "bytes"  -> {0, 1, 97, 128, 255}
      [] l.topic = "points" -> {65, 233, 2048, 55296, 65535, 65536, 1114111}
      [] l.topic = "context" -> {<<"update", 1>>, <<"update", 2>>, <<"update", 3>>,
                                 <<"listen">>, <<"get">>, <<"close">>}
      [] l.topic = "keys"   -> {"generate"} \X {1, 2} \cup {"write", "read"} \X {"public", "private"}
                               \cup {<<"close">>, <<"sign", 3>>}
      [] l.topic = "pac"    -> {0, 9, 17, 47, 63}

MaxTyped(l) ==
    CASE l.topic = "url" -> 7
      [] l.topic \in {"path", "regex", "pac"} -> 5
      [] l.topic \in {"map", "query", "coded", "points", "string"} -> 3
      [] OTHER -> 4

-----------------------------------------------------------------------------
Init == lang \in AllTopics /\ text = <<>>

Type ==
    /\ Len(text) < MaxTyped(lang)
    /\ \E c \in TypedSymbols(lang, Len(text)) : text' = Append(text, c)
    /\ UNCHANGED lang

Next == Type

Spec == Init /\ [][Next]_vars

About(topic) == lang.topic = topic

-----------------------------------------------------------------------------
(* array_t, queue_t, string_t.                                             *)

\* Where an index is that may count from the end.
FromStart(n, x) == IF x < 0 THEN n + x ELSE x

Indices(n) == {x \in -(n + 1)..(n + 1) : x < n /\ x >= -n}
Stops(n)   == {y \in -(n + 1)..(n + 1) : y # 0 /\ y > -n}

LessThan(S) == {p \in S \X S : p[1][1] < p[2][1]}

Without(s, x, y) == SubSeq(s, 1, x) \o SubSeq(s, y + 1, Len(s))

\* Answers agree with one another, and what is put at an end comes off it.
AskedRight(s, F) ==
    LET i == IndexOf(s, F)
        n == QueueCount(s, F)
        Longest == [p \in (0..9) \X (0..9) |-> IF p[1] < p[2] THEN p[2] ELSE p[1]]
    IN
    /\ ArraySome(s, F) <=> i >= 0
    /\ i >= 0 => s[i + 1] \in F /\ ArrayNone(SubSeq(s, 1, i), F)
    /\ ArrayCount(s, F) <= n /\ n + QueueCount(s, ToSet(s) \ F) = Len(s)
    /\ ArrayEvery(s, F) <=> ArrayNone(s, ToSet(s) \ F)
    /\ s # <<>> => /\ QueueSome(s, F) <=> ArraySome(s, F)
                   /\ QueueNone(s, F) <=> ArrayNone(s, F)
                   /\ QueueEvery(s, F) <=> ArrayEvery(s, F)
                   /\ \A b \in 0..1 : Reduce(s, Longest, b) = Max(ToSet(s) \cup {b})
    /\ ArrayNone(Replaced(s, F, 3), F) /\ QueueCount(Replaced(s, F, 3), {3}) >= n
    /\ Removed(s, F) = SelectSeq(s, LAMBDA e : e \notin F)
    /\ Popped(Pushed(s, 5)) = s /\ Shifted(Unshifted(s, 5)) = s
    /\ QueueReverse(QueueReverse(s)) = s
    /\ \A t \in {Popped(s), Plus(s, <<1>>), Replaced(s, {1}, 2), QueueReverse(s)} :
          LET lower == {p \in (0..3) \X (0..3) : p[1] < p[2]} IN
          /\ Compare(s, t, lower) = -Compare(t, s, lower)
          /\ Compare(s, t, lower) = 0 <=> s = t

(* Elements are only ever cut out, never lost, doubled or moved: a slice   *)
(* is the elements from start to before stop, a splice takes out a slice   *)
(* and leaves the rest (in array.h and in queue.h), a view of a view is    *)
(* the slice of a slice, both sorts are the one stable order, and what     *)
(* find() answers does hold the pattern, at or behind the offset.          *)
ArraysRight ==
    About("array") =>
    LET n    == Len(text)
        keys == [i \in DOMAIN text |-> <<text[i], i>>]
    IN
    /\ \A x \in Indices(n), y \in Stops(n) :
          LET from == FromStart(n, x)
              to   == Lesser(FromStart(n, y), n)
          IN  /\ Slice(text, x, y) = SubSeq(text, from + 1, to)
              /\ EraseRange(text, x, y)
                    = IF from < to THEN Without(text, from, to) ELSE text
              /\ \A u \in Indices(2), w \in {1, 2, -1} :
                    Seen(text, SliceView(SliceView(View(n), x, y), u, w))
                        = Slice(Slice(text, x, y), u, w)
    /\ \A x \in 0..(n - 1), y \in 1..(n + 1) :
          LET to == Lesser(x + y, n) IN
          /\ Splice(text, x, y) = [out |-> SubSeq(text, x + 1, to), left |-> Without(text, x, to)]
          /\ QueueSplice(text, x, y) = Splice(text, x, y)
          /\ SpliceIn(text, x, y, <<7, 8>>)
                = [out |-> SubSeq(text, x + 1, to),
                   left |-> InsertAll(Without(text, x, to), x, <<7, 8>>)]
    /\ LET t == ArraySort(keys, LessThan(ToSet(keys))) IN
       /\ t = QueueSort(keys, LessThan(ToSet(keys)))
       /\ ToSet(t) = ToSet(keys) /\ Len(t) = n
       /\ \A i \in 1..(n - 1) :
             t[i][1] < t[i + 1][1] \/ (t[i][1] = t[i + 1][1] /\ t[i][2] < t[i + 1][2])
    /\ \A p \in {<<1>>, <<1, 2>>, <<1, 1>>}, offset \in 0..n :
          LET r == Find(text, p, offset) IN
          r # Nowhere => r.from >= offset /\ SubSeq(text, r.from + 1, r.to) = p
    /\ \A F \in SUBSET {1, 2} : AskedRight(text, F)
    /\ Joined(Chunks(text, 2), <<>>) = text
    /\ Joined(SplitAt(text, <<1>>, 0), <<1>>) = text

-----------------------------------------------------------------------------
(* string_t.  Two strings, 1 and 2; an operation names the one it is of.   *)

Edited(st, op) ==
    LET h == op[2]  g == 3 - h IN
    CASE op[1] = "push"    -> Push(st, h, 99)
      [] op[1] = "unshift" -> Unshift(st, h, 99)
      [] op[1] = "insert"  -> InsertInto(st, h, 1, Chars(st, g))
      [] op[1] = "pop"     -> Pop(st, h)
      [] op[1] = "shift"   -> Shift(st, h)
      [] op[1] = "erase"   -> EraseFrom(st, h, 1, 3)
      [] op[1] = "slice"   -> SliceTo(st, g, h, 1, 3)
      [] op[1] = "splice"  -> SpliceTo(st, g, h, 1, 2, <<120>>)
      [] op[1] = "append"  -> AppendTo(st, h, g)
      [] op[1] = "plus"    -> PlusTo(st, h, g)
      [] op[1] = "sort"    -> SortTo(st, h)
      [] op[1] = "upper"   -> CaseTo(st, h, UpperCase(Chars(st, h)))
      [] op[1] = "lower"   -> CaseTo(st, h, LowerCase(Chars(st, h)))
      [] op[1] = "capital" -> CaseTo(st, h, CapitalCase(Chars(st, h)))
      [] op[1] = "reverse" -> ReverseTo(st, h)
      [] op[1] = "copy"    -> Share(st, g, h)
      [] op[1] = "view"    -> ViewTo(st, g, h, 1, 3)
      [] op[1] = "replace" -> ReplaceIn(st, h, 97, 98)
      [] op[1] = "fill"    -> FillIn(st, h, 98)

\* The same of two sequences.
OnValues(d, op) ==
    LET h == op[2]  g == 3 - h  s == d[h]  n == Len(d[h])
        one  == SubSeq(s, 1, Lesser(1, n))
        tail == SubSeq(s, 2, Lesser(3, n))
    IN
    CASE op[1] = "push"    -> [d EXCEPT ![h] = Append(s, 99)]
      [] op[1] = "unshift" -> [d EXCEPT ![h] = <<99>> \o s]
      [] op[1] = "insert"  -> [d EXCEPT ![h] = one \o d[g] \o SubSeq(s, 2, n)]
      [] op[1] = "pop"     -> [d EXCEPT ![h] = SubSeq(s, 1, n - 1)]
      [] op[1] = "shift"   -> [d EXCEPT ![h] = SubSeq(s, 2, n)]
      [] op[1] = "erase"   -> [d EXCEPT ![h] = one \o SubSeq(s, 4, n)]
      [] op[1] = "splice"  -> [d EXCEPT ![g] = tail,
                                  ![h] = IF n < 2 THEN s ELSE <<s[1], 120>> \o SubSeq(s, 4, n)]
      [] op[1] \in {"append", "plus"} -> [d EXCEPT ![h] = s \o d[g]]
      [] op[1] = "sort"    -> [d EXCEPT ![h] = SortSeq(s, LAMBDA c, e : c < e)]
      [] op[1] = "upper"   -> [d EXCEPT ![h] = [i \in 1..n |-> ToUpper(s[i])]]
      [] op[1] = "lower"   -> [d EXCEPT ![h] = [i \in 1..n |-> ToLower(s[i])]]
      [] op[1] = "capital" -> [d EXCEPT ![h] = CapitalCase(s)]
      [] op[1] = "reverse" -> [d EXCEPT ![h] = [i \in 1..n |-> s[n + 1 - i]]]
      [] op[1] = "copy"    -> [d EXCEPT ![g] = s]
      [] op[1] \in {"slice", "view"} -> [d EXCEPT ![g] = tail]
      [] op[1] = "replace" -> [d EXCEPT ![h] = [i \in 1..n |-> IF s[i] = 97 THEN 98 ELSE s[i]]]
      [] op[1] = "fill"    -> [d EXCEPT ![h] = [i \in 1..n |-> 98]]

(* Strings that share memory are still values: no operation on one of them *)
(* changes the other, but for replace() and fill(), which write in place;  *)
(* and what was neither viewed, filled nor reversed ends with its null,    *)
(* where the C functions of the library expect it.  A longer string is     *)
(* greater; equal ones are the same.                                       *)
StringsRight ==
    About("string") =>
    LET st == FoldLeft(Edited, TwoStrings(lang.values[1], lang.values[2]), text)
        d  == FoldLeft(OnValues, lang.values, text)
        did == {op[1] : op \in ToSet(text)}
    IN
    /\ did \cap {"replace", "fill"} = {} \/ did \cap {"copy", "view", "plus"} = {} =>
          \A h \in 1..2 : Chars(st, h) = d[h]
    /\ did \cap {"view", "fill", "reverse"} = {} =>
          \A h \in 1..2 : Empty(st, h) \/ Last(Whole(st, h)) = Zero
    /\ Equal(d[1], d[2]) <=> d[1] = d[2]
    /\ Len(d[1]) > Len(d[2]) => Greater(d[1], d[2]) /\ ~Greater(d[2], d[1])

-----------------------------------------------------------------------------
(* map_t.                                                                  *)

Apply(m, op) ==
    CASE op[1] = "put"   -> Put(m, op[2], op[3], 0)
      [] op[1] = "get"   -> Indexed(m, op[2], 0)
      [] op[1] = "erase" -> Erase(m, op[2])
      [] op[1] = "clear" -> EraseAll(m)

\* The same on a sequence of keys and a dictionary.
Plainly(d, op) ==
    LET in == op[2] \in DOMAIN d.value IN
    CASE op[1] = "put" \/ (op[1] = "get" /\ ~in) ->
            [order |-> IF in THEN d.order ELSE Append(d.order, op[2]),
             value |-> [k \in DOMAIN d.value \cup {op[2]} |->
                           IF k # op[2] THEN d.value[k] ELSE IF op[1] = "put" THEN op[3] ELSE 0]]
      [] op[1] = "get" /\ in -> d
      [] op[1] = "erase" ->
            [order |-> SelectSeq(d.order, LAMBDA k : k # op[2]),
             value |-> [k \in DOMAIN d.value \ {op[2]} |-> d.value[k]]]
      [] op[1] = "clear" -> [order |-> <<>>, value |-> << >>]

(* After any sequence of operator[], erase and clear on a map made from a  *)
(* literal of different keys, the map is the dictionary these operations   *)
(* describe, in the order the keys came in, and no bucket keeps a pointer  *)
(* to an entry that was deleted.                                           *)
MapsRight ==
    About("map") =>
    LET m == FoldLeft(Apply, Literal(lang.literal), text)
        d == FoldLeft(Plainly,
                      FoldLeft(LAMBDA e, p : Plainly(e, <<"put", p[1], p[2]>>),
                               [order |-> <<>>, value |-> << >>], lang.literal), text)
    IN  /\ Linked(m)
        /\ Keys(m) = d.order
        /\ \A k \in ToSet(d.order) : Has(m, k) /\ ValueAt(m, k) = d.value[k]
        /\ \A op \in ToSet(text) : op[1] # "clear" /\ Has(m, op[2]) => op[2] \in ToSet(d.order)

-----------------------------------------------------------------------------
(* regex_t.  A pattern is a sequence of alternatives, sequences of pieces: *)
(* <<"chr", c>>, <<"set", neg, symbols>>, <<"grp", alternatives>> or       *)
(* <<"rep", piece, least, most>>, -1 for no limit.                         *)

Amount(lo, hi) ==
    CASE <<lo, hi>> = <<0, 1>>  -> <<"?">>
      [] <<lo, hi>> = <<0, -1>> -> <<"*">>
      [] <<lo, hi>> = <<1, -1>> -> <<"+">>
      [] OTHER -> <<"{", Digits[lo + 1]>> \o (IF lo = hi THEN <<>> ELSE <<",", Digits[hi + 1]>>)
                  \o <<"}">>

RECURSIVE Written(_), WrittenAlts(_)
Written(e) ==
    CASE e[1] = "chr" -> <<e[2]>>
      [] e[1] = "set" -> <<"[">> \o (IF e[2] THEN <<"^">> ELSE <<>>) \o e[3] \o <<"]">>
      [] e[1] = "grp" -> <<"(">> \o WrittenAlts(e[2]) \o <<")">>
      [] e[1] = "rep" -> Written(e[2]) \o Amount(e[3], e[4])
WrittenAlts(alts) ==
    Joined([i \in DOMAIN alts |-> FlattenSeq([j \in DOMAIN alts[i] |-> Written(alts[i][j])])],
           <<"|">>)

\* Where a match that starts at one of the positions I may end.
RECURSIVE Ends(_, _, _, _), EndsOf(_, _, _, _), Times(_, _, _, _, _)
Ends(e, s, icase, I) ==
    CASE e[1] = "chr" -> {i + 1 : i \in {j \in I : j < Len(s) /\ Same(e[2], At(s, j), icase)}}
      [] e[1] = "set" ->
            {i + 1 : i \in {j \in I : j < Len(s) /\
                (\E c \in ToSet(e[3]) : Same(c, At(s, j), icase)) # e[2]}}
      [] e[1] = "grp" -> UNION {EndsOf(e[2][k], s, icase, I) : k \in DOMAIN e[2]}
      [] e[1] = "rep" -> Times(e[2], s, icase, I, <<e[3], e[4]>>)
EndsOf(es, s, icase, I) == FoldLeft(LAMBDA J, e : Ends(e, s, icase, J), I, es)
Times(e, s, icase, I, r) ==
    LET more == IF r[2] = 0 \/ I = {} THEN {}
                ELSE Times(e, s, icase, Ends(e, s, icase, I),
                           <<IF r[1] = 0 THEN 0 ELSE r[1] - 1, IF r[2] < 0 THEN -1 ELSE r[2] - 1>>)
    IN  (IF r[1] = 0 THEN I ELSE {}) \cup more

Matches(alts, s, icase, i) == UNION {EndsOf(alts[k], s, icase, {i}) : k \in DOMAIN alts}

\* Neither groups nor repetitions.
Flat(alts) == \A k \in DOMAIN alts : \A j \in DOMAIN alts[k] : alts[k][j][1] \in {"chr", "set"}

(* What the engine finds, though it never goes back, is never wrong: the   *)
(* ranges of search_all are in order and apart, each is in the language of *)
(* the pattern, and split, match_all, remove_all and replace_all cut the   *)
(* text at these very ranges.  Where nothing repeats and nothing is        *)
(* grouped it finds every match, the first alternative first.  The engine  *)
(* sees the null behind the text, and a negated set takes it for a symbol. *)
GraphRight ==
    About("regex") =>
    LET alts == lang.pattern
        seen == Append(text, Nul)
    IN
    \A made \in {Compile(WrittenAlts(alts))} : \A re \in {[next |-> made.next, icase |-> lang.icase]} :
    \A all \in {SearchAll(re, text)} : \A cut \in {SplitBy(re, text)} :
    LET hit == MatchAll(re, text)
    IN  /\ made.ok
        /\ \A i \in DOMAIN all :
              /\ all[i][1] < all[i][2] /\ all[i][1] < Len(text)
              /\ i > 1 => all[i - 1][2] <= all[i][1]
              /\ all[i][2] \in Matches(alts, seen, lang.icase, all[i][1])
        /\ text = FlattenSeq([i \in DOMAIN cut |->
                                IF i > Len(hit) THEN cut[i] ELSE cut[i] \o hit[i]])
        /\ RemoveEach(re, text) = Joined(cut, <<>>)
        /\ ReplaceEach(re, text, <<"8", "8">>) = Joined(cut, <<"8", "8">>)
        /\ ReplaceOne(re, text, <<>>) = RemoveOne(re, text)
        /\ Flat(alts) =>
              \A at \in {{i \in 0..(Len(text) - 1) : Matches(alts, seen, lang.icase, i) # {}}} :
              LET from == CHOOSE i \in at : \A j \in at : i <= j
                  ks   == {k \in DOMAIN alts : EndsOf(alts[k], seen, lang.icase, {from}) # {}}
                  k1   == CHOOSE k \in ks : \A j \in ks : k <= j
              IN  Search(re, text, 0) = IF at = {} THEN <<>> ELSE <<from, from + Len(alts[k1])>>

\* A pattern whose text holds no bracket.
Bare(p) == ToSet(p) \cap (Opens \cup Closes) = {}

(* The LITE engine is right in the same way, but for what ends where the   *)
(* text ends: there a bracket it has not come to yet stops it without a    *)
(* failure (regex.h 531-542).  On patterns without brackets it finds what  *)
(* the other engine finds.                                                 *)
LiteRight ==
    About("regex") =>
    LET alts == lang.pattern IN
    \A re \in {[p |-> WrittenAlts(alts), icase |-> lang.icase]} :
    \A all \in {LiteSearchAll(re, text)} : \A cut \in {LiteSplit(re, text)} :
        /\ \A i \in DOMAIN all :
              /\ i > 1 => all[i - 1][2] <= all[i][1]
              /\ all[i][1] < all[i][2] /\ all[i][2] <= Len(text)
              /\ \/ all[i][2] \in Matches(alts, text, lang.icase, all[i][1])
                 \/ all[i][2] = Len(text) /\ ~Bare(re.p)
        /\ LiteRemoveAll(re, text) = Joined(cut, <<>>)
        /\ LiteReplaceAll(re, text, <<"8", "8">>) = Joined(cut, <<"8", "8">>)
        /\ Bare(re.p) => all = SearchAll([next |-> Compile(re.p).next, icase |-> re.icase], text)

-----------------------------------------------------------------------------
(* url, query, cookie and path.                                            *)

\* Ways to follow a path: how far up it leads, and to which names then.
Meaning(sec) ==
    FoldLeft(LAMBDA d, s : CASE s = <<>> -> d
                             [] s = Up /\ d.names # <<>> -> [d EXCEPT !.names = Front(@)]
                             [] s = Up /\ d.names = <<>> -> [d EXCEPT !.up = @ + 1]
                             [] OTHER -> [d EXCEPT !.names = Append(@, s)],
             [up |-> 0, names |-> <<>>], sec)

\* After the sections that lead up at the start, never above that again.
NeverClimbs(sec) ==
    \A n \in Ups(sec)..Len(sec) : Meaning(SubSeq(sec, 1, n)).up = Ups(sec)

Part(name) == text[CASE name = "scheme" -> 1 [] name = "auth" -> 2 [] name = "host" -> 3
                     [] name = "port" -> 4 [] name = "path" -> 5 [] name = "search" -> 6
                     [] name = "hash" -> 7]

With(sign, part) == IF part = <<>> THEN <<>> ELSE part \o sign
After(sign, part) == IF part = <<>> THEN <<>> ELSE sign \o part

(* Every part of a url that was put together from parts is read back as it *)
(* was, a map is what the query and the cookie made from it say, and a     *)
(* path normalized, or reached by way of relative(), is still the same     *)
(* place.                                                                  *)
NamesRight ==
    /\ About("url") /\ Len(text) = 7 =>
       LET host == Part("host") \o After(<<":">>, Part("port"))
           orig == Part("scheme") \o <<":", "/", "/">> \o With(<<"@">>, Part("auth")) \o host
       IN
       \A u \in {ParseUrl(orig \o Part("path") \o Part("search") \o Part("hash"))} :
           /\ u.protocol = Part("scheme") /\ u.auth = Part("auth") /\ u.host = host
           /\ u.auth = <<>> \/ u.auth = u.user \o <<":">> \o u.pass
           /\ u.origin = orig /\ u.search = Part("search") /\ u.hash = Part("hash")
           /\ u.rawname = Part("host")
           /\ u.family = "IPv6" <=> u.rawname = <<"[">> \o u.hostname \o <<"]">>
           /\ u.port = IF Part("port") # <<>> THEN Number(Part("port"))
                       ELSE IF Part("scheme") = <<"w">> THEN 8000 ELSE 80
           /\ u.pathname = IF Part("path") = <<>> THEN <<"/">> ELSE Part("path")
    /\ About("query") /\ text # <<>> =>
       \A m \in {FoldLeft(LAMBDA d, p : Put(d, p[1], p[2], <<>>), EmptyMap, text)} :
       /\ Pairs(ParseQuery(FormatQuery(m))) = Pairs(m)
       /\ Pairs(ParseCookie(FormatCookie(m))) = Pairs(m)
    /\ About("coded") => NormalizeUrl(UnnormalizeUrl(text)) = text
    /\ About("path") /\ text # <<>> /\ NeverClimbs(text) =>
       \A p \in {Joined(text, Sep)} : \A n \in {Normalize(p)} :
           n # <<>> =>
           /\ Meaning(Sections(n)) = Meaning(text) /\ Normalize(n) = n
           /\ Len(Sections(n)) = Meaning(text).up + Len(Meaning(text).names)
           /\ PopPath(PushPath(p, <<"c">>)) = n
           /\ Len(text) > 1 => p = Dirname(p) \o Sep \o Basename(p)
           /\ Ups(text) = 0 => ShiftPath(UnshiftPath(p, <<"c">>)) = n
           /\ Ups(text) = 0 =>
              \A q \in {<<"a">>, <<"a", "/", "b">>, <<"b", "/", "a">>} :
                 Meaning(text \o Sections(Relative(p, q))) = Meaning(Sections(q))

-----------------------------------------------------------------------------
(* json.                                                                   *)

\* The values a postfix program leaves; "array", "object", "ints" and
\* "strings" take all that is there.
Collected(vs, op) ==
    CASE op = <<"array">>   -> << <<"array", vs>> >>
      [] op = <<"object">>  ->
            << <<"object", [i \in DOMAIN vs |-> << <<IF i = 1 THEN "a" ELSE Digits[i]>>, vs[i]>>]>> >>
      [] op = <<"ints">>    -> << <<"ints", [i \in DOMAIN vs |-> <<Digits[i + 1]>>]>> >>
      [] op = <<"strings">> -> << <<"strings", [i \in DOMAIN vs |-> <<Digits[i + 1], "a">>]>> >>
      [] OTHER              -> Append(vs, op)

\* A value as json can tell it: no types of arrays, no object without keys.
RECURSIVE Plain(_)
Plain(v) ==
    CASE v[1] = "object" ->
            IF v[2] = <<>> THEN Null
            ELSE <<"object", [i \in DOMAIN v[2] |-> <<v[2][i][1], Plain(v[2][i][2])>>]>>
      [] v[1] = "array"   -> <<"array", [i \in DOMAIN v[2] |-> Plain(v[2][i])]>>
      [] v[1] = "ints"    -> <<"array", [i \in DOMAIN v[2] |-> <<"int", v[2][i]>>]>>
      [] v[1] = "strings" -> <<"array", [i \in DOMAIN v[2] |-> <<"string", v[2][i]>>]>>
      [] OTHER -> v

(* parse() of what format() writes of an array or an object is that value  *)
(* again, however deep, as long as its strings hold no quote, bracket or   *)
(* backslash and its keys no colon.                                        *)
JsonRight ==
    About("json") =>
    LET vs == FoldLeft(Collected, <<>>, text) IN
    \A i \in DOMAIN vs :
        vs[i][1] \in {"array", "object", "ints", "strings"} =>
            ParseJson(FormatJson(vs[i])) = Plain(vs[i])

-----------------------------------------------------------------------------
(* encoder and utf.                                                        *)

(* Bytes come back from every encoding as they were (from base58 without   *)
(* the zeros in front), code points from every way through UTF-8, UTF-16   *)
(* and UTF-32, and a pointer comes back from its authentication code only  *)
(* with the mask it was made with.                                         *)
EncodersRight ==
    /\ About("bytes") =>
       /\ OfBase64(Base64(text)) = text /\ Len(Base64(text)) % 4 = 0
       /\ HexBytes(HexText(text)) = text
       /\ OfBase58(Base58(text)) = SubSeq(text, Leading0(text, 0) + 1, Len(text))
       /\ text # <<>> => LET n == OfBytes(SubSeq(text, 1, Lesser(3, Len(text)))) IN
                         /\ OfBytes(BytesOf(n, 3)) = n /\ OfBits(BitsOf(n, 3)) = n
                         /\ OfHex(HexOf(n), 3) = n
    /\ About("points") =>
       /\ Utf8ToUtf32(Utf32ToUtf8(text)) = text
       /\ (\A i \in DOMAIN text : text[i] \notin 55296..57343) =>
             /\ Utf16ToUtf32(Utf32ToUtf16(text)) = text
             /\ Utf8ToUtf16(Utf32ToUtf8(text)) = Utf32ToUtf16(text)
             /\ Utf16ToUtf8(Utf32ToUtf16(text)) = Utf32ToUtf8(text)
    /\ About("pac") =>
       LET bits(r) == {text[i] : i \in {j \in DOMAIN text : j % 3 = r}}
           address == bits(1) \cap 0..47
       IN  /\ OfPac(Pac(address, bits(2), bits(0)), bits(2), bits(0)) = address
           /\ \A b \in {0, 17, 40} :
                 OfPac(Pac(address, bits(2), bits(0)), Xor(bits(2), {b}), bits(0)) = {}

-----------------------------------------------------------------------------
(* crypto and zlib.  A topic "context" has a kind, and the text a context  *)
(* of it is given; an operation is <<"update", n>>, <<"listen">>, <<"get">>*)
(* or <<"close">>.                                                         *)

Handled(s, op) ==
    CASE op[1] = "update" ->
            LET to == Lesser(s.at + op[2], Len(lang.given)) IN
            [c |-> Update(s.c, SubSeq(lang.given, s.at + 1, to)), at |-> to]
      [] op[1] = "listen" -> [s EXCEPT !.c = Listen(@)]
      [] OTHER            -> [s EXCEPT !.c = Close(@)]

\* The bytes it was given before it was closed.
Taken ==
    LET lasts == lang.kind \in {"enc58", "dec58", "dec64"}
        ends  == {i \in DOMAIN text : text[i][1] \in {"get", "close"} /\ ~lasts}
        parts == [i \in DOMAIN text |->
                    IF text[i][1] = "update" /\ (\A j \in ends : i < j) THEN text[i][2] ELSE 0]
    IN  SubSeq(lang.given, 1, Lesser(FoldLeft(LAMBDA a, b : a + b, 0, parts), Len(lang.given)))

\* Where in the key the byte behind n others is masked.
RECURSIVE KeyPlace(_)
KeyPlace(n) == IF n = 0 THEN 0 ELSE KeyPlace(n - 1) + ((KeyPlace(n - 1) + 1) % (Len(Key) - 1))

(* The same text at once.  Of a decipherer this is the plain text, if all  *)
(* of it came.                                                             *)
AtOnce(kind, bytes) ==
    CASE kind \in {"hash", "hmac"} -> << <<kind, bytes>> >>
      [] kind = "xor"     -> [i \in DOMAIN bytes |->
                                Masked(bytes[i], Key[(KeyPlace(i - 1) % Len(Key)) + 1])]
      [] kind = "encrypt" ->
            LET whole == Len(bytes) - (Len(bytes) % Block)
            IN  Blocks(kind, SubSeq(bytes, 1, whole))
                    \o Enciphered(Padded(SubSeq(bytes, whole + 1, Len(bytes))))
      [] kind = "decrypt" ->
            IF bytes = lang.given THEN lang.plain
            ELSE SubSeq(lang.plain, 1, Ready(kind, Len(bytes)))
      [] kind = "enc64"   -> Base64(bytes)
      [] kind = "dec64"   -> OfBase64(bytes)
      [] kind = "enc58"   -> Base58(bytes)
      [] kind = "dec58"   -> OfBase58(bytes)
      [] kind = "inflate" -> FlattenSeq(bytes)
      [] kind = "deflate" -> [i \in DOMAIN bytes |-> <<bytes[i]>>]

\* The last operation before n of those that satisfy Meant, or 0.
LastOp(n, Meant(_)) ==
    LET at == {i \in 1..n : Meant(text[i])} IN IF at = {} THEN 0 ELSE CHOOSE i \in at : \A j \in at : j <= i

(* Two objects and a file: <<"generate", key>> and <<"write", half>> are   *)
(* done by one, <<"read", half>> by the other.                             *)
Exchanged(s, op) ==
    CASE op[1] = "generate" -> [s EXCEPT !.one = Generate(@, op[2])]
      [] op[1] = "write"    -> [s EXCEPT !.file = <<Pem(s.one, op[2])>>]
      [] op[1] = "read"     -> [s EXCEPT !.other = ReadFile(@, op[2], s.file).to]
      [] op[1] = "sign"     -> [s EXCEPT !.one = Signing(@, op[2])]
      [] op[1] = "close"    -> [s EXCEPT !.other = CloseKey(@)]

\* Which key a read of `half` at i finds in the file.
KeyRead(i) ==
    LET w == LastOp(i, LAMBDA o : o[1] = "write")
        g == LastOp(w, LAMBDA o : o[1] = "generate")
    IN  IF text[i][1] = "read" /\ w # 0 /\ g # 0 /\ text[w][2] = text[i][2]
        THEN text[g][2] ELSE 0

(* However a text is cut into pieces, and whoever takes what is made of it,*)
(* listeners or get(), it is all of it, once and in order, also what is    *)
(* held back until the end; get() again says the same, nobody hears of a   *)
(* context after its onClose, and a closed one takes nothing.  Keys read   *)
(* from a file are those written there: they open what was sealed, and     *)
(* check what was signed, with the other half.                             *)
CryptoRight ==
    /\ About("context") =>
       LET c    == FoldLeft(Handled, [c |-> NewContext(lang.kind), at |-> 0], text).c
           d    == Close(c)
           made == IF lang.kind \in {"enc58", "dec58"} THEN Got(c) ELSE Got(c) \o d.heard
           all  == AtOnce(lang.kind, Taken)
       IN  /\ IF lang.kind = "inflate" /\ <<>> \in ToSet(Taken) THEN IsPrefix(made, all) ELSE made = all
           /\ Got(d) = Got(c) /\ ~d.late /\ d.closes <= 1
           /\ lang.kind \in Presses =>
              LET r == <<SubSeq(lang.given, 1, 1), SubSeq(lang.given, 2, 3)>> IN
              /\ ZlibGet(lang.kind, r[1]) \o ZlibGet(lang.kind, r[2]) = Resolved(lang.kind, FALSE, r)
              /\ Resolved(lang.kind, TRUE, r) = AtOnce(lang.kind, r[1] \o r[2])
    /\ About("keys") =>
       LET s    == FoldLeft(Exchanged, [one |-> NoKey, other |-> NoKey, file |-> <<>>], text)
           last == LastOp(Len(text), LAMBDA o : o[1] = "generate")
           got  == {i \in DOMAIN text : KeyRead(i) # 0}
           full == {i \in got : text[i][2] = "private"}
           Latest(I) == IF I = {} THEN 0 ELSE KeyRead(CHOOSE i \in I : \A j \in I : j <= i)
           half == [s.other EXCEPT !.priv = 0]
       IN  /\ s.one.pub = (IF last = 0 THEN 0 ELSE text[last][2]) /\ s.one.priv = s.one.pub
           /\ last # 0 => Verified(s.one, 7, Shared(s.one, 7))
           /\ s.other.pub = Latest(got) /\ s.other.priv = Latest(full)
           /\ s.other.open /\ s.other.pub # 0 /\ s.other.priv = s.other.pub =>
                 /\ Unseal(s.other, Seal(half, "text")) = "text"
                 /\ Verify(half, "text", Sign(s.other, "text"))
-----------------------------------------------------------------------------

(* Arrays, queues, strings and maps: every operation keeps and moves each  *)
(* element as said above.                                                  *)
ContainersRight == ArraysRight /\ StringsRight /\ MapsRight

(* Both engines of regex_t find what the patterns say.                     *)
MatchesRight == GraphRight /\ LiteRight

(* Urls, paths and json: what is written is what is read.                  *)
ParsedRight == NamesRight /\ JsonRight

(* Encoders, ciphers, digests, compressors and keys: what is taken apart   *)
(* is what was put in.                                                     *)
CodesRight == EncodersRight /\ CryptoRight
=============================================================================
