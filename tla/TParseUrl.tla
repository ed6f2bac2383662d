------------------------------ MODULE TParseUrl ------------------------------
(***************************************************************************)
(* TParseUrl (HttpParser.h, HttpParser.cpp): the URL of a request taken    *)
(* apart, and the queries the login handler makes of it.  A URL is a       *)
(* sequence of characters.  The object is built from one URL and may be    *)
(* given another by SetUrl; std::string's constructor throws where the     *)
(* code hands it a negative length, and nothing catches it.                *)
(***************************************************************************)
EXTENDS Integers, Sequences, FiniteSets, SequencesExt, FiniteSetsExt, Functions

CONSTANTS
    Chars,      \* the characters URLs are made of
    Urls,       \* the URLs an object may be built from
    LaterUrls,  \* those of them SetUrl may give it later (a bound)
    Params      \* the names GetParam is asked for (module RequestUrl says of which form)

Digits == <<"0", "1", "2", "3", "4", "5", "6", "7", "8", "9">>

VARIABLES
    url,        \* the URL last given to the object
    v_param,    \* what ParseUrl made of it
    thrown      \* std::length_error has left ParseUrl

vars == <<url, v_param, thrown>>

UrlParam == [protocol |-> <<>>, host |-> <<>>, port |-> 80, uri |-> <<>>]

-----------------------------------------------------------------------------
(* The characters of u from offset i up to but not including offset j, the *)
(* way the code counts them: from 0.                                       *)
Chunk(u, i, j) == SubSeq(u, i + 1, j)
From(u, i) == Chunk(u, i, Len(u))

(* The offset of the first w in u, or -1.  posend is the last character,   *)
(* not the end: a w that ends u is not found.                              *)
Occurrences(u, w) == {i \in 0 .. Len(u) - 1 - Len(w) : Chunk(u, i, i + Len(w)) = w}

FindStr(u, w) ==
    LET hits == Occurrences(u, w)
    IN  IF hits = {} THEN -1 ELSE Min(hits)

(* The empty string is a number, and so is a sign with a character behind  *)
(* it.                                                                     *)
Signed(n) == Len(n) > 1 /\ n[1] \in {"+", "-"}
Unsigned(n) == IF Signed(n) THEN Tail(n) ELSE n
IsNumber(n) == \A i \in DOMAIN Unsigned(n) : Unsigned(n)[i] \in Range(Digits)

(* atoi, as far as it is used on what IsNumber lets pass, assigned to an   *)
(* unsigned short.  What does not fit in an int becomes INT_MAX or INT_MIN. *)
DigitValue(d) == (CHOOSE i \in DOMAIN Digits : Digits[i] = d) - 1
Counted(n) ==
    LET value[i \in 0 .. Len(n)] ==
            IF i = 0 THEN 0 ELSE 10 * value[i - 1] + DigitValue(n[i])
    IN  value[Len(n)]

INT_MAX == 2147483647
Clipped(v) == IF v > INT_MAX THEN INT_MAX ELSE IF v < -INT_MAX - 1 THEN -INT_MAX - 1 ELSE v
Atoi(n) ==
    LET size == Counted(Unsigned(n))
    IN  Clipped(IF Signed(n) /\ n[1] = "-" THEN -size ELSE size) % 65536

-----------------------------------------------------------------------------
(* ParseDomain(pos, posend, param): pos is the rest of the URL, all of it, *)
(* so the first colon may lie behind posend: then the length posend - pos  *)
(* is negative.                                                            *)
ParseDomain(pos, posend, param) ==
    LET point == FindStr(pos, <<":">>)
        named == [param EXCEPT !.host = Chunk(pos, 0, point)]
        tmp   == Chunk(pos, point + 1, posend)
    IN  CASE point < 0 -> [param |-> param, thrown |-> FALSE]
          [] point >= 0 /\ posend < point + 1 -> [param |-> named, thrown |-> TRUE]
          [] point >= 0 /\ posend >= point + 1 ->
                 [param |-> IF IsNumber(tmp) THEN [named EXCEPT !.port = Atoi(tmp)] ELSE named,
                  thrown |-> FALSE]

(* ParseUrl(u, param).  The protocol is the URL from the "://" on: that is *)
(* what std::string(url, point) makes.  Without a slash the domain's end   *)
(* is one character short, and with a throw the uri stays the whole URL.   *)
ParseUrl(u, param) ==
    LET whole  == [param EXCEPT !.uri = u]
        point  == FindStr(u, <<":", "/", "/">>)
        begun  == [whole EXCEPT !.protocol = From(u, point)]
        pos    == From(u, point + 3)
        slash  == FindStr(pos, <<"/">>)
        domain == [begun EXCEPT !.host = IF slash < 0 THEN pos ELSE Chunk(pos, 0, slash)]
        parsed == ParseDomain(pos, IF slash < 0 THEN Len(pos) - 1 ELSE slash, domain)
        rest   == IF slash < 0 THEN <<"/">> ELSE From(pos, slash + 1)
    IN  CASE point < 0 -> [param |-> whole, thrown |-> FALSE]
          [] point >= 0 /\ Len(pos) <= 1 -> [param |-> begun, thrown |-> FALSE]
          [] point >= 0 /\ Len(pos) > 1 ->
                 IF parsed.thrown THEN parsed
                 ELSE [parsed EXCEPT !.param.uri = rest]

(* Mutant: whether a field begins there is not looked at.                  *)
GetParamAnywhere(p) ==
    LET uri   == v_param.uri
        query == From(uri, FindStr(uri, <<"?">>) + 1)
        start == FindStr(query, Append(p, "="))
        value == From(query, start + Len(p) + 1)
        end   == FindStr(value, <<"&">>)
    IN  CASE start < 0 -> <<>>
          [] start >= 0 /\ end < 0 -> value
          [] start >= 0 /\ end >= 0 -> Chunk(value, 0, end)

(* GetParam(p): the first "p=" behind the first question mark, where a     *)
(* field begins; its value reaches to the next ampersand.                  *)
GetParam(p) ==
    LET uri   == v_param.uri
        mark  == FindStr(uri, <<"?">>)
        query == From(uri, mark + 1)
        start == FindStr(query, Append(p, "="))
        value == From(query, start + Len(p) + 1)
        end   == FindStr(value, <<"&">>)
    IN  IF mark < 0 \/ start < 0 \/ uri[mark + 1 + start] \notin {"&", "?"}
        THEN <<>>
        ELSE IF end < 0 THEN value ELSE Chunk(value, 0, end)

GetMethod ==
    LET end == FindStr(v_param.uri, <<"?">>)
    IN  IF end < 0 THEN v_param.uri ELSE Chunk(v_param.uri, 0, end)

-----------------------------------------------------------------------------
Parse(u, param) ==
    LET parsed == ParseUrl(u, param)
    IN  /\ url' = u
        /\ v_param' = parsed.param
        /\ thrown' = parsed.thrown

(* TParseUrl(url): the fields have their defaults when ParseUrl runs.      *)
Init ==
    \E u \in Urls :
        LET parsed == ParseUrl(u, UrlParam)
        IN  url = u /\ v_param = parsed.param /\ thrown = parsed.thrown

(* Mutant: SetUrl does not clear.                                          *)
SetUrlStale(u) == ~thrown /\ Parse(u, v_param)

(* SetUrl(url): UrlParam::clear, then ParseUrl.                            *)
SetUrl(u) == ~thrown /\ Parse(u, UrlParam)

Next == \E u \in LaterUrls : SetUrl(u)

Spec == Init /\ [][Next]_vars

-----------------------------------------------------------------------------
(* What a reader of a URL means by its parts, said without the code's      *)
(* scan.  A regular URL is protocol://domain/path or, with a query,        *)
(* protocol://domain/path?query: three slashes, at most one question mark, *)
(* and the last character is none of the marks.                            *)
At(u, c) == {i \in DOMAIN u : u[i] = c}

Regular(u) ==
    /\ u \in Seq(Chars)
    /\ \E i \in 2 .. Len(u) - 4, s \in DOMAIN u :
         /\ u[i] = ":" /\ \A j \in At(u, ":") : i <= j
         /\ At(u, "/") = {i + 1, i + 2, s} /\ i + 2 < s
         /\ \A m \in At(u, "?") : s < m
    /\ \A m, n \in At(u, "?") : m = n
    /\ u[Len(u)] \notin {"/", "?", "&", ":"}

Begin(u) == Min(At(u, "/")) + 2
Slash(u) == Max(At(u, "/"))
Mark(u)  == IF At(u, "?") = {} THEN Len(u) + 1 ELSE Min(At(u, "?"))

Domain(u) == SubSeq(u, Begin(u), Slash(u) - 1)
Path(u)   == SubSeq(u, Slash(u) + 1, Mark(u) - 1)
Query(u)  == SubSeq(u, Mark(u) + 1, Len(u))

LateColon(u) == At(Domain(u), ":") = {} /\ \E i \in At(u, ":") : i > Slash(u)

(* The fields of a query are what the ampersands leave between them, from  *)
(* an offset to an offset, and each is a name, an equals sign and a value. *)
Fields(q) ==
    {f \in (1 .. Len(q) + 1) \X (0 .. Len(q)) :
        /\ f[1] <= f[2] + 1
        /\ f[1] - 1 \in {0} \cup At(q, "&")
        /\ f[2] + 1 \in {Len(q) + 1} \cup At(q, "&")
        /\ At(q, "&") \cap f[1] .. f[2] = {}}

Equals(q, f) == At(q, "=") \cap f[1] .. f[2]
Name(q, f)   == SubSeq(q, f[1], Min(Equals(q, f)) - 1)
Value(q, f)  == SubSeq(q, Min(Equals(q, f)) + 1, f[2])

WellFormed(q) ==
    \A f \in Fields(q) :
        Cardinality(Equals(q, f)) = 1 /\ Name(q, f) # <<>> /\ Value(q, f) # <<>>

Named(q, p) == {f \in Fields(q) : Name(q, f) = p}
First(q, p) == CHOOSE f \in Named(q, p) : \A g \in Named(q, p) : f[1] <= g[1]
Shadowed(q, p) ==
    \E g \in Fields(q) :
        /\ IsStrictSuffix(p, Name(q, g))
        /\ \A f \in Named(q, p) : g[1] < f[1]

(* The number n stands for: its digits from the last to the first, each    *)
(* times the value of its place.                                           *)
Places(n) ==
    LET place[k \in 0 .. Len(n)] == IF k = 0 THEN 1 ELSE 10 * place[k - 1]
    IN  place

Decimal(n) ==
    LET sum[k \in 0 .. Len(n)] ==
            IF k = 0 THEN 0
            ELSE sum[k - 1] + DigitValue(n[Len(n) + 1 - k]) * Places(n)[k - 1]
    IN  sum[Len(n)]

-----------------------------------------------------------------------------
(* The parts are strings of the URL's characters and the port fits in the  *)
(* unsigned short that holds it.                                           *)
TypeOK ==
    /\ url \in Urls
    /\ thrown \in BOOLEAN
    /\ v_param \in [protocol : Seq(Chars), host : Seq(Chars), port : 0 .. 65535,
                    uri : Seq(Chars)]

(* What the login handler relies on: of a well formed query GetParam(p) is *)
(* the value of the first field named p, and nothing when there is none -  *)
(* and nothing as well when p is shadowed: of an earlier name that ends in *)
(* p the code finds the end, sees that no field begins there, and looks no *)
(* further.  A handler may not use two names of which one ends in another. *)
ParamExact ==
    LET q == Query(url) IN
    Regular(url) /\ ~thrown /\ At(url, "?") # {} /\ WellFormed(q) =>
        \A p \in Params :
            GetParam(p) = IF Named(q, p) = {} \/ Shadowed(q, p) THEN <<>>
                          ELSE Value(q, First(q, p))

(* DealPacket tells the request by it: GetMethod is the path, without the  *)
(* question mark and the query.                                            *)
MethodExact == Regular(url) /\ ~thrown => GetMethod = Path(url)

(* The method and the parameters, which DealPacket uses.                   *)
RequestExact == ParamExact /\ MethodExact

(* The port a text behind the colon means: the number, in 16 bits (one     *)
(* past INT_MAX is 65535, none at all 0), and 80 when there is no digit.   *)
PortExact(n, port) ==
    /\ (\A i \in DOMAIN n : n[i] \in Range(Digits)) =>
           port = IF Decimal(n) > INT_MAX THEN 65535 ELSE Decimal(n) % 65536
    /\ n # <<>> /\ (\A i \in DOMAIN n : n[i] \notin Range(Digits)) => port = 80

(* host and port are the domain's, of the URL the object was given last,   *)
(* and the port is 80 when the URL has no colon there.                     *)
DomainExact ==
    Regular(url) /\ ~thrown =>
        LET d == Domain(url)
            c == Min(At(d, ":"))
        IN  IF At(d, ":") = {} THEN v_param.host = d /\ v_param.port = 80
            ELSE /\ v_param.host = SubSeq(d, 1, c - 1)
                 /\ PortExact(SubSeq(d, c + 1, Len(d)), v_param.port)

(* ParseUrl throws exactly when the first colon behind the "://" lies past *)
(* the domain, as in the path or the query of a URL without a port; with a *)
(* port, or with no colon at all, it returns.                              *)
ThrowsOnLateColon == Regular(url) => (thrown <=> LateColon(url))

(* The colon, where ParseDomain looks for it: in the domain it begins the  *)
(* port, behind it ParseUrl throws.                                        *)
ColonExact == DomainExact /\ ThrowsOnLateColon
=============================================================================
