------------------------------- MODULE Formats -------------------------------
(***************************************************************************)
(* string_t (string.h) and map_t (map.h), and what is read and written     *)
(* with them: url.h, query.h, cookie.h, path.h and json.h.                 *)
(*                                                                         *)
(* A string is a handle on a shared buffer that ends with a null.  Most    *)
(* operations make a new buffer; copies and views share one, and           *)
(* replace(), map() and fill() write into it.  A state is [mem: buffers,   *)
(* str: a view for each handle].  Characters are numbers; Wild stands for  *)
(* memory that was never written.                                          *)
(*                                                                         *)
(* A map has its entries in a queue, in the order they came in, and a      *)
(* table of buckets of pointers to them, which a binary tree finds by the  *)
(* bits of the hash of the key.  It is a record: queue, the entries with   *)
(* the name (id) a pointer to them has; table, a function from the paths   *)
(* of the tree whose node has a bucket to the ids in it; made, how many    *)
(* entries were ever made.                                                 *)
(*                                                                         *)
(* Every part of a url is what one regex finds in its text; a query and a  *)
(* cookie are read from the memory of one search; a path is the segments a *)
(* regex splits it into.  json.h has a parser of its own.                  *)
(*                                                                         *)
(* Operators whose name starts with Bad are the definition that follows    *)
(* them with one plausible mistake in it; no specification uses them.      *)
(***************************************************************************)
EXTENDS Regex, Functions

Zero == 0
Wild  == -1

\* string::buffer() and the constructors: nothing, or n characters and a null.
Buffer(s) == IF s = <<>> THEN <<>> ELSE Append(s, Zero)

On(i, b) == [on |-> i, offset |-> 0, limit |-> Len(b), length |-> Len(b)]

TwoStrings(s, t) ==
    [mem |-> <<Buffer(s), Buffer(t)>>, str |-> <<On(1, Buffer(s)), On(2, Buffer(t))>>]

\* begin() to the null, and size() of that.
Whole(st, h) == Seen(st.mem[st.str[h].on], st.str[h])
Chars(st, h) == IF Size(st.str[h]) <= 1 THEN <<>> ELSE Front(Whole(st, h))
Empty(st, h) == Chars(st, h) = <<>>

Becoming(st, h, b) ==
    [mem |-> Append(st.mem, b), str |-> [st.str EXCEPT ![h] = On(Len(st.mem) + 1, b)]]

\* Assignment, and the constructor of a copy.
Share(st, h, g) == [st EXCEPT !.str[h] = st.str[g]]

-----------------------------------------------------------------------------
(* What makes a new buffer.                                                *)

\* insert() moves what is behind the index with the null, or with what a view
\* has in its place.
InsertInto(st, h, i, v) ==
    Becoming(st, h, IF Empty(st, h) THEN Buffer(v) ELSE InsertAll(Whole(st, h), Lesser(i, Len(Chars(st, h))), v))

Push(st, h, c)    == InsertInto(st, h, Len(Chars(st, h)), <<c>>)
Unshift(st, h, c) == InsertInto(st, h, 0, <<c>>)

EraseFrom(st, h, x, y) ==
    IF Some(SliceRange(Len(Chars(st, h)), x, y))
    THEN Becoming(st, h, Buffer(EraseRange(Chars(st, h), x, y))) ELSE st

EraseOne(st, h, i) ==
    IF Some(SliceRange(Len(Chars(st, h)), Long(i), Len(Chars(st, h))))
    THEN Becoming(st, h, Buffer(EraseAt(Chars(st, h), i))) ELSE st

Shift(st, h) == EraseOne(st, h, 0)
Pop(st, h)   == EraseOne(st, h, IF Empty(st, h) THEN 0 ELSE Len(Chars(st, h)) - 1)

\* g = h.slice( x, y ), and g = h.splice( x, y, v ).
SliceTo(st, g, h, x, y) == Becoming(st, g, Buffer(Slice(Chars(st, h), x, y)))

SpliceTo(st, g, h, x, y, v) ==
    LET r    == SpliceRange(Len(Chars(st, h)), x, y)
        left == EraseFrom(st, h, r.from, r.to + 1)
    IN  IF Some(r)
        THEN Becoming(IF v = <<>> THEN left ELSE InsertInto(left, h, r.from, v), g,
                      Buffer(Cut(Chars(st, h), r)))
        ELSE Becoming(st, g, <<>>)

\* h += g of two strings that are not the same object.
AppendTo(st, h, g) ==
    IF Empty(st, g) THEN st ELSE Becoming(st, h, Buffer(Chars(st, h) \o Chars(st, g)))

\* h = h + g, which is one of them when the other is empty.
PlusTo(st, h, g) ==
    CASE Empty(st, h) -> Share(st, h, g)
      [] ~Empty(st, h) /\ Empty(st, g) -> st
      [] OTHER -> Becoming(st, h, Buffer(Chars(st, h) \o Chars(st, g)))

\* reverse() leaves the last byte as the allocator gave it.
ReverseTo(st, h) ==
    IF Empty(st, h) THEN st ELSE Becoming(st, h, Append(Reverse(Chars(st, h)), Wild))

SortTo(st, h) ==
    LET S == ToSet(Chars(st, h)) IN
    Becoming(st, h, Append(ArraySort(Chars(st, h), {p \in S \X S : p[1] < p[2]}), Zero))

IsUpper(c) == c \in 65..90
IsLower(c) == c \in 97..122
IsAlpha(c) == IsUpper(c) \/ IsLower(c)
ToUpper(c) == IF IsLower(c) THEN c - 32 ELSE c
ToLower(c) == IF IsUpper(c) THEN c + 32 ELSE c

UpperCase(s) == [i \in DOMAIN s |-> ToUpper(s[i])]
LowerCase(s) == [i \in DOMAIN s |-> ToLower(s[i])]

\* The first letter, and one behind what is no letter.
CapitalCase(s) ==
    [i \in DOMAIN s |-> IF i = 1 \/ ~IsAlpha(s[i - 1]) THEN ToUpper(s[i]) ELSE ToLower(s[i])]

CaseTo(st, h, s) == Becoming(st, h, Buffer(s))

-----------------------------------------------------------------------------
(* What shares a buffer, or writes into it.                                *)

ViewTo(st, g, h, x, y) ==
    LET r == SliceRange(Len(Chars(st, h)), x, y) IN
    IF Some(r) THEN [st EXCEPT !.str[g] = Narrow(st.str[h], r.from, r.to + 2)]
    ELSE Becoming(st, g, <<>>)

Overwrite(st, h, b) ==
    LET v == st.str[h] IN
    [st EXCEPT !.mem[v.on] =
        SubSeq(st.mem[v.on], 1, v.offset) \o b \o SubSeq(st.mem[v.on], v.offset + Len(b) + 1, v.length)]

ReplaceIn(st, h, c, d) ==
    Overwrite(st, h, [i \in DOMAIN Chars(st, h) |->
        IF Chars(st, h)[i] = c THEN d ELSE Chars(st, h)[i]])

\* fill() writes over the null, too.
FillIn(st, h, c) == Overwrite(st, h, [i \in 1..Size(st.str[h]) |-> c])

-----------------------------------------------------------------------------
(* compare(): by length, then memcmp(), which answers a difference, where  *)
(* the operators look for 1 and -1.                                        *)

Differ(s, t) ==
    LET D == {i \in DOMAIN s : s[i] # t[i]}
        i == CHOOSE k \in D : \A j \in D : k <= j
    IN  IF D = {} THEN 0 ELSE s[i] - t[i]

CompareTo(s, t) ==
    CASE Len(s) < Len(t) -> -1
      [] Len(s) > Len(t) -> 1
      [] OTHER -> Differ(s, t)

Equal(s, t)   == CompareTo(s, t) = 0
Greater(s, t) == CompareTo(s, t) = 1
-----------------------------------------------------------------------------
CONSTANT Hash(_)     \* get_key( id ) of a key

EmptyMap == [queue |-> <<>>, table |-> << >>, made |-> 0]

\* get_address(): down the tree, lowest bit first, until no bit is left.
Path[h \in Nat] == IF h = 0 THEN <<>> ELSE <<h % 2>> \o Path[h \div 2]

Bucket(m, k) == IF Path[Hash(k)] \in DOMAIN m.table THEN m.table[Path[Hash(k)]] ELSE <<>>

\* The entry a pointer leads to, if it still exists.
Entries(m, id) == SelectSeq(m.queue, LAMBDA e : e.id = id)

\* The first pointer of the bucket whose entry has the key.
Found(m, k) == SelectSeq(Bucket(m, k),
                         LAMBDA id : Entries(m, id) # <<>> /\ Entries(m, id)[1].first = k)

WithBucket(m, k, b) ==
    [m EXCEPT !.table = [p \in DOMAIN @ \cup {Path[Hash(k)]} |->
                            IF p = Path[Hash(k)] THEN b ELSE @[p]]]

\* append( pair ): a key that is there gets the value, and a second entry.
AppendPair(m, k, v) ==
    LET f    == Found(m, k)
        seen == [m EXCEPT !.queue = [i \in DOMAIN @ |->
                    IF f # <<>> /\ @[i].id = f[1] THEN [@[i] EXCEPT !.second = v] ELSE @[i]]]
        id   == m.made + 1
    IN  [WithBucket(seen, k, Append(Bucket(m, k), id))
            EXCEPT !.queue = Append(@, [id |-> id, first |-> k, second |-> v]),
                   !.made = id]

\* operator[]( id ): the id of its entry, made with V() when there is none.
Indexed(m, k, default) == IF Found(m, k) # <<>> THEN m ELSE AppendPair(m, k, default)

\* map[ id ] = v.
Put(m, k, v, default) ==
    LET n == Indexed(m, k, default) IN
    [n EXCEPT !.queue = [i \in DOMAIN @ |-> IF @[i].id = Found(n, k)[1]
                                            THEN [@[i] EXCEPT !.second = v] ELSE @[i]]]

Has(m, k) == Found(m, k) # <<>>

ValueAt(m, k) == Entries(m, Found(m, k)[1])[1].second

Keys(m)  == [i \in DOMAIN m.queue |-> m.queue[i].first]
Pairs(m) == [i \in DOMAIN m.queue |-> <<m.queue[i].first, m.queue[i].second>>]

\* erase( id ): the entry and the pointer to it.
Erase(m, k) ==
    IF ~Has(m, k) THEN m
    ELSE LET id == Found(m, k)[1] IN
         WithBucket([m EXCEPT !.queue = SelectSeq(@, LAMBDA e : e.id # id)],
                    k, SelectSeq(Bucket(m, k), LAMBDA i : i # id))

\* erase(): every bucket, then the entries.
EraseAll(m) == [m EXCEPT !.queue = <<>>, !.table = [p \in DOMAIN @ |-> <<>>]]

\* map_t( args ).
Literal(pairs) == FoldLeft(LAMBDA m, p : AppendPair(m, p[1], p[2]), EmptyMap, pairs)

-----------------------------------------------------------------------------
(* Every pointer leads to an entry of its bucket's hash, and every entry   *)
(* has exactly one pointer to it.                                          *)
Linked(m) ==
    /\ \A p \in DOMAIN m.table : \A i \in DOMAIN m.table[p] :
          Entries(m, m.table[p][i]) # <<>>
    /\ \A i \in DOMAIN m.queue :
          LET e == m.queue[i] IN
          SelectSeq(Bucket(m, e.first), LAMBDA id : id = e.id) = <<e.id>>
-----------------------------------------------------------------------------
ValidRe    == RegexCased(<<"^", "\\", "w", "+", ":", "/", "/", "[", "^", ".", "]", "+">>)
ProtocolRe == Regex(<<"^", "[", "^", ":", "]", "+">>)
AuthRe     == Regex(<<"/", "/", "\\", "w", "+", ":", "\\", "w", "+", "@">>)
PathRe     == Regex(<<"/", "[", "^", "/", "?", "#", "]", "+">>)
OriginRe   == Regex(<<"^", "[", "^", "/", "]", "+", "/", "/", "[", "^", "/", "?", "#", "]", "+">>)
HostRe     == Regex(<<"[", "/", "@", "]", "[", "^", "/", "#", "?", "]", "+">>)
UserRe     == Regex(<<"[", "^", "@", "]", "+", "@">>)
AtRe       == Regex(<<"@">>)
HashRe     == Regex(<<"#", "[", "^", "?", "]", "*">>)
SearchRe   == Regex(<<"\\", "?", "[", "^", "#", "]", "*">>)
FamilyRe   == Regex(<<"\\", "[", "[", "^", "\\", "]", "]", "+", "\\", "]">>)
RawRe      == Regex(<<"\\", "[", "[", "^", "\\", "]", "/", "]", "+", "\\", "]", "|",
                      "[", "^", ":", "]", "+">>)
HostnameRe == Regex(<<"[", "^", "\\", "[", "\\", "]", "]", "+">>)
PortRe     == Regex(<<":", "\\", "d", "+", "$">>)

IsValid(url) == Test(ValidRe, url)

\* What the regex finds in a valid url.
PartOf(re, url) == IF IsValid(url) THEN Match(re, url) ELSE <<>>

Rest(s) == Slice(s, 1, Len(s))

UrlProtocol(url) == PartOf(ProtocolRe, url)
UrlAuth(url)     == Slice(PartOf(AuthRe, url), 2, -1)
UrlUser(url)     == LET data == SplitAt(UrlAuth(url), <<":">>, 0) IN
                    IF Len(data) # 2 THEN <<>> ELSE data[1]
UrlPass(url)     == LET data == SplitAt(UrlAuth(url), <<":">>, 0) IN
                    IF Len(data) # 2 THEN <<>> ELSE data[2]

\* Every run behind a slash but the first, which is the host.
UrlPath(url) ==
    LET all == IF IsValid(url) THEN MatchAll(PathRe, url) ELSE <<>> IN
    IF Len(all) < 2 THEN <<"/">> ELSE Joined(Tail(all), <<>>)

UrlOrigin(url) == PartOf(OriginRe, url)

BadUrlHost(url) == Rest(PartOf(HostRe, url))

WithoutUser(data) == IF Test(AtRe, data) THEN ReplaceOne(UserRe, data, <<>>) ELSE data

UrlHost(url) == WithoutUser(Rest(PartOf(HostRe, url)))

UrlHash(url)     == PartOf(HashRe, url)
UrlSearch(url)   == PartOf(SearchRe, url)
UrlFamily(url)   == IF ~IsValid(url) THEN "" ELSE IF Test(FamilyRe, UrlHost(url)) THEN "IPv6" ELSE "IPv4"
UrlRawname(url)  == Match(RawRe, UrlHost(url))
UrlHostname(url) == Match(HostnameRe, UrlRawname(url))

\* protocols(), of the schemes the alphabet can spell.
Protocols == <<[name |-> <<"h", "t", "t", "p">>, port |-> 80],
               [name |-> <<"t", "c", "p">>, port |-> 80]>>

PortOf(host, known) ==
    IF host # <<>> /\ Test(PortRe, host) THEN Number(Rest(Match(PortRe, host)))
    ELSE IF known # <<>> THEN known[1].port ELSE 8000

UrlPort(url) == PortOf(UrlHost(url), SelectSeq(Protocols, LAMBDA p : p.name = UrlProtocol(url)))

ParseUrl(url) ==
    [family |-> UrlFamily(url), hostname |-> UrlHostname(url), rawname |-> UrlRawname(url),
     protocol |-> UrlProtocol(url), search |-> UrlSearch(url), origin |-> UrlOrigin(url),
     pathname |-> UrlPath(url), port |-> UrlPort(url), host |-> UrlHost(url),
     hash |-> UrlHash(url), user |-> UrlUser(url), pass |-> UrlPass(url),
     auth |-> UrlAuth(url), href |-> url, path |-> UrlPath(url) \o UrlSearch(url)]

FormatUrl(obj) ==
    LET base == IF obj.href # <<>> THEN obj.href
                ELSE IF obj.origin # <<>> THEN obj.origin
                ELSE obj.protocol \o <<"/", "/">> \o obj.auth \o <<"@">> \o obj.host
        url  == base \o (IF obj.path # <<>> THEN obj.path ELSE obj.pathname)
                \o obj.search \o obj.hash
    IN  IF IsValid(url) THEN url ELSE <<>>

-----------------------------------------------------------------------------
(* normalize( msg ) and unnormalize( msg ).                                *)

CodeRe   == RegexCased(<<"%", "[", "a", "-", "z", "0", "-", "9", "]", "{", "2", "}">>)
UncodeRe == RegexCased(<<"[", "^", "a", "-", "z", "0", "-", "9", "%", "]">>)

HexDigits == <<"0", "1", "2", "3", "4", "5", "6", "7", "8", "9", "a", "b", "c", "d", "e", "f">>
HexOfSymbol(c) == <<HexDigits[Code(c) \div 16 + 1], HexDigits[(Code(c) % 16) + 1]>>
IsHex(c) == Contains(HexDigits, Lower(c))
SymbolOfHex(h) ==
    LET d(i) == CHOOSE n \in 0..15 : HexDigits[n + 1] = Lower(h[i]) IN
    IF IsHex(h[1]) /\ IsHex(h[2]) THEN Symbol(16 * d(1) + d(2)) ELSE Nul

\* Until nothing looks like a code any more, the codes it made included.
RECURSIVE NormalizeUrl(_)
NormalizeUrl(msg) ==
    LET Decoded(data) ==
            IF data = <<>> THEN msg
            ELSE NormalizeUrl(ReplaceEach(Regex(data), msg, <<SymbolOfHex(Rest(data))>>))
    IN  Decoded(Match(CodeRe, msg))

\* The symbol is used as a pattern; when the pattern does not find the
\* symbol, or is refused, the loop never ends.
Endless == <<"endless">>

RECURSIVE UnnormalizeUrl(_)
GoneOn(msg, next) == IF next = msg THEN Endless ELSE UnnormalizeUrl(next)

Coding(msg, data, re) ==
    IF data = <<>> THEN msg
    ELSE IF ~re.ok THEN Endless
    ELSE GoneOn(msg, ReplaceEach([next |-> re.next, icase |-> FALSE], msg,
                                    <<"%">> \o HexOfSymbol(data[1])))

Symbolic(msg, data) == Coding(msg, data, Compile(data))

UnnormalizeUrl(msg) == Symbolic(msg, Match(UncodeRe, msg))

-----------------------------------------------------------------------------
(* query::parse and format, cookie::parse and format.                      *)

QueryRe  == Regex(<<"[", "?", "&", "]", "(", "[", "^", "=", " ", "]", "+", ")", "=",
                    "(", "[", "^", "?", "&", "]", "+", ")">>)
CookieRe == Regex(<<"(", "[", "^", "=", " ", ";", "]", "+", ")", "=",
                    "(", "[", "^", ";", "]", "+", ")">>)

\* The memory of the search, two by two.
Paired(mem) ==
    FoldLeft(LAMBDA m, x : Put(m, mem[2 * x - 1], mem[2 * x], <<>>), EmptyMap,
             [x \in 1..(Len(mem) \div 2) |-> x])

ParseQuery(data) ==
    IF data = <<>> \/ data[1] # "?" THEN EmptyMap ELSE Paired(Memory(QueryRe, data))
ParseCookie(data) == IF data = <<>> THEN EmptyMap ELSE Paired(Memory(CookieRe, data))

Assignments(m) == [i \in DOMAIN m.queue |-> m.queue[i].first \o <<"=">> \o m.queue[i].second]

FormatQuery(m) ==
    IF m.queue = <<>> THEN <<>>
    ELSE Format(<<"?", "$", "{", "0", "}">>, <<Joined(Assignments(m), <<"&">>)>>)
FormatCookie(m) ==
    IF m.queue = <<>> THEN <<>> ELSE Joined(Assignments(m), <<";", " ">>)

-----------------------------------------------------------------------------
(* path.h sees a path as the segments a regex splits it into.  The platform  *)
(* macros have their POSIX values.                                           *)

Sep     == <<"/">>
PathSel == Regex(<<"/", "+", "|", "\\", "\\", "+">>)
PathOne == Regex(<<"[", "^", "/", "]", "+">>)
PathPeg == Regex(<<"^", "/">>)
PathExt == Regex(<<"\\", ".", "\\", "w", "+", "$">>)

Up == <<".", ".">>

Sections(path) == SplitBy(PathSel, path)

\* How many sections lead up before anything else.
Ups(sec) == Cardinality({x \in DOMAIN sec : \A y \in 1..x : sec[y] = Up})

Follow(nsec, s) == IF s = Up /\ nsec # <<>> THEN Front(nsec) ELSE Append(nsec, s)
Walked(sec) == FoldLeft(Follow, SubSeq(sec, 1, Ups(sec)), SubSeq(sec, Ups(sec) + 1, Len(sec)))

Normalize(path) == Joined(Walked(Sections(path)), Sep)

IsAbsolute(path) == Test(PathPeg, path)

Extname(path) == IF Test(PathExt, path) THEN Slice(Match(PathExt, path), 1, Len(path)) ELSE <<>>

Dirname(path) == Joined(Front(Sections(path)), Sep)

Basename(path) == LET vec == MatchAll(PathOne, path) IN IF vec = <<>> THEN <<>> ELSE Last(vec)

\* basename( path, del ): del is a pattern.
BasenameWithout(path, del) ==
    IF Basename(path) = <<>> THEN <<>> ELSE ReplaceOne(Regex(del), Basename(path), <<>>)

ParsePath(path) ==
    [root |-> IF IsAbsolute(path) THEN Sep ELSE <<".", "/">>,
     path |-> path,
     ext  |-> Extname(path),
     dir  |-> Dirname(path),
     base |-> Basename(path),
     name |-> BasenameWithout(path, <<"\\", ".">> \o Extname(path))]

FormatPath(obj) ==
    IF obj.path # <<>> THEN obj.path
    ELSE (IF obj.root # <<>> THEN obj.root ELSE <<".", "/">>) \o obj.dir
         \o (IF obj.base # <<>> THEN obj.base
             ELSE (IF obj.name # <<>> THEN obj.name \o <<".">> ELSE <<>>) \o obj.ext)

Common(a, b) == Cardinality({x \in DOMAIN a \cap DOMAIN b : \A y \in 1..x : a[y] = b[y]})

Way(a, b) == [x \in 1..(Len(a) - Common(a, b)) |-> Up] \o SubSeq(b, Common(a, b) + 1, Len(b))

Relative(patha, pathb) ==
    Joined(Way(Sections(Normalize(patha)), Sections(Normalize(pathb))), Sep)

PushPath(path, dir)    == Normalize(Joined(Append(Sections(Normalize(path)), dir), Sep))
UnshiftPath(path, dir) == Normalize(Joined(<<dir>> \o Sections(Normalize(path)), Sep))
PopPath(path)          == Joined(Front(Sections(Normalize(path))), Sep)
ShiftPath(path)        == Joined(Tail(Sections(Normalize(path))), Sep)
JoinPath(parts)        == Normalize(Joined(parts, Sep))

-----------------------------------------------------------------------------
(* json_t (json.h) on object_t (object.h).  A value is a pair of its type  *)
(* and its content: <<"null">>, <<"bool", "true">>, <<"int", digits>>,     *)
(* <<"string", text>>, <<"array", values>>, <<"object", pairs>> or, for an *)
(* array of one C++ type, <<"ints", ...>>, <<"bools", ...>> and            *)
(* <<"strings", ...>>.  The words true, false and null are one symbol each *)
(* in a text; numbers are natural and keep their digits.                   *)

Quote == "\""
Comma == <<",">>
Null  == <<"null", <<>> >>

Quoted(s) == <<Quote>> \o s \o <<Quote>>

-----------------------------------------------------------------------------
(* get_next_key() and get_next_sec(): where what starts at pos ends.  The  *)
(* count k is a byte; the walks do not know that a bracket or a colon can  *)
(* be inside a string.                                                     *)

Step(k, d) == (k + d) % 256

RECURSIVE KeyEnd(_, _, _, _)
KeyEnd(s, pos, k, open) ==
    IF pos >= Len(s) \/ k >= 127 THEN pos
    ELSE LET c == At(s, pos)
             m == CASE c = "[" -> Step(k, 1) [] c = "]" -> Step(k, -1)
                    [] c = "{" -> Step(k, 3) [] c = "}" -> Step(k, -3)
                    [] c = Quote -> Step(k, IF open THEN 5 ELSE -5)
                    [] OTHER -> k
             p == IF c = "\\" THEN pos + 1 ELSE pos
         IN  IF m = 0 THEN p ELSE KeyEnd(s, p + 1, m, IF c = Quote THEN ~open ELSE open)

NextKeyEnd(s, pos) == KeyEnd(s, pos, 0, TRUE)

RECURSIVE SecEnd(_, _, _)

SecEnd(s, pos, k) ==
    IF pos >= Len(s) \/ k >= 127 THEN pos
    ELSE LET c == At(s, pos)
             p == IF c \in {"{", "[", Quote, "\\"} THEN NextKeyEnd(s, pos) ELSE pos
             m == CASE c = ":" -> Step(k, 6) [] c = "," -> Step(k, -6)
                    [] c \in {"}", "]"} -> 0 [] OTHER -> k
         IN  IF m = 0 THEN p ELSE SecEnd(s, p + 1, m)

NextSec(s, pos) == SecEnd(s, pos, 0)

-----------------------------------------------------------------------------
(* parse( str ).                                                           *)

\* The first position from x on where Stops holds, y at the latest.
FirstAt(s, x, y, Stops(_)) ==
    LET I == {i \in x..y : i = y \/ Stops(At(s, i))} IN
    IF x >= y THEN x ELSE CHOOSE i \in I : \A j \in I : i <= j

\* out[ key ] = value of an object_t.
SetPair(pairs, k, v) ==
    IF \E i \in DOMAIN pairs : pairs[i][1] = k
    THEN [i \in DOMAIN pairs |-> IF pairs[i][1] = k THEN <<k, v>> ELSE pairs[i]]
    ELSE Append(pairs, <<k, v>>)

\* sscanf( "%d" ) reads the digits that come first.
Leading(s) ==
    LET ds == SelectSeq(s, LAMBDA c : ~IsSpace(c))
        n  == FirstAt(ds, 0, Len(ds), LAMBDA c : ~IsDigit(c))
    IN  IF n = 0 THEN <<"0">> ELSE SubSeq(ds, 1, n)

RECURSIVE ParseJson(_), GetData(_), GetObject(_, _, _, _), GetArray(_, _, _, _), ParseFrom(_, _, _)

GetData(data) ==
    LET x == FirstAt(data, 0, Len(data), LAMBDA c : c # " ")
        c == At(data, x)
    IN  CASE data = <<>> \/ c = ","           -> Null
          [] data # <<>> /\ c = Quote         -> <<"string", Slice(data, x + 1, NextSec(data, x))>>
          [] data # <<>> /\ c \in {"{", "["}  -> ParseJson(data)
          [] OTHER ->
                IF Contains(data, "false") THEN <<"bool", <<"false">> >>
                ELSE IF Contains(data, "true") THEN <<"bool", <<"true">> >>
                ELSE IF Contains(data, "null") THEN Null
                ELSE IF \E i \in DOMAIN data : data[i] \in Letters /\ Lower(data[i]) = data[i]
                THEN <<"string", data>>
                ELSE <<"int", Leading(data)>>

GetObject(s, x, y, pairs) ==
    LET z     == NextSec(s, x)
        colon == FirstAt(s, x, y, LAMBDA c : c = ":")
        w     == NextSec(s, colon)
        here  == At(s, x) = Quote
        next  == IF here THEN SetPair(pairs, Slice(s, x + 1, z), GetData(Slice(s, colon + 1, w)))
                 ELSE pairs
        at    == IF here THEN w ELSE x
    IN  IF at < y THEN GetObject(s, at + 1, y, next)
        ELSE IF next = <<>> THEN Null ELSE <<"object", next>>

GetArray(s, x, y, data) ==
    LET c    == At(s, x)
        none == \/ IsSpace(c) \/ c = ","
                \/ c \notin {"{", "[", Quote} /\ x = y
        z    == IF c \in {"{", "["} THEN NextKeyEnd(s, x) + 1
                ELSE IF c = Quote THEN NextSec(s, x) + 1
                ELSE FirstAt(s, x, y, LAMBDA d : d = ",")
        at   == IF none THEN x ELSE z
        next == IF none THEN data ELSE Append(data, GetData(Slice(s, x, z)))
    IN  IF at < y THEN GetArray(s, at + 1, y, next) ELSE <<"array", next>>

ParseFrom(s, x, data) ==
    LET c    == At(s, x)
        pos  == NextKeyEnd(s, x)
        next == IF IsSpace(c) THEN data ELSE Append(data, c)
    IN  CASE c = "["             -> GetArray(s, x + 1, pos, <<>>)
          [] c = "{"             -> GetObject(s, x + 1, pos, <<>>)
          [] c = Quote           -> GetData(Slice(s, x + 1, pos - 1))
          [] c \in {"]", "}", ")"} -> Null
          [] OTHER -> IF x < Len(s) THEN ParseFrom(s, x + 1, next) ELSE GetData(next)

ParseJson(s) == IF s = <<>> THEN Null ELSE ParseFrom(s, 0, <<>>)

-----------------------------------------------------------------------------
(* format( obj ).                                                          *)

Spaced == <<",", " ">>

RECURSIVE FormatJson(_)
FormatJson(v) ==
    LET all(F(_)) == Joined([i \in DOMAIN v[2] |-> F(v[2][i])], Comma) IN
    CASE v[1] = "null"    -> <<"{", "}">>
      [] v[1] \in {"bool", "int"} -> v[2]
      [] v[1] = "string"  -> Quoted(v[2])
      [] v[1] = "object"  ->
            <<"{">> \o all(LAMBDA p : Quoted(p[1]) \o <<":">> \o FormatJson(p[2])) \o <<"}">>
      [] v[1] = "array"   -> <<"[">> \o all(LAMBDA e : FormatJson(e)) \o <<"]">>
      [] v[1] = "ints"    -> <<"[">> \o Joined(v[2], Spaced) \o <<"]">>
      [] v[1] \in {"strings", "bools"} -> <<"[">> \o all(Quoted) \o <<"]">>
=============================================================================
