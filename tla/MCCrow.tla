------------------------------- MODULE MCCrow -------------------------------
(***************************************************************************)
(* The parts of Crow side by side: a behaviour is one of one part, chosen  *)
(* in Init, on the instance given here and in the cfg.  The other parts    *)
(* stay as they begin, and those with definitions of their own under a     *)
(* name here are off.  Nothing is said of two parts at once.               *)
(***************************************************************************)
EXTENDS Naturals, Integers, Sequences, TLC, CrowHttp, CrowWebSocket, CrowSession

VARIABLES part,
          par, stream, rest,                                    \* CrowParser
          app, methods, phase, late, answer,                    \* CrowRouter
          doc, writes, text, dumped, val,                       \* CrowJson
          tree, template, page, context, pages                  \* CrowMustache

Part == {"websocket", "http", "session", "parser", "router", "json", "mustache"}
Off == "off"                                          \* the value of what is off

-----------------------------------------------------------------------------
(* WebSocket: two frames of a client and a call of the application, or one *)
(* frame and two calls.                                                    *)
F(op, fin, masked, ext, size) == [op |-> op, fin |-> fin, masked |-> masked, ext |-> ext, size |-> size]
Frames == {F("data", TRUE, TRUE, 0, 1), F("data", FALSE, FALSE, 16, 2), F("data", TRUE, FALSE, 64, 3),
           F("ping", TRUE, TRUE, 0, 0), F("close", TRUE, TRUE, 0, 1)}

-----------------------------------------------------------------------------
(* HTTP: two connections of one worker side by side, a with two requests   *)
(* and b with one, that are handled; or c with three, of any kind.         *)
K(route, host, upgrade, expect, body, later, reply, close) ==
    [route |-> route, host |-> host, upgrade |-> upgrade, expect |-> expect, body |-> body,
     chunked |-> FALSE, later |-> later, reply |-> reply, close |-> close]
Kinds == {K(TRUE, TRUE, FALSE, FALSE, FALSE, FALSE, "small", FALSE),
          K(FALSE, TRUE, FALSE, FALSE, FALSE, FALSE, "small", FALSE),
          K(TRUE, TRUE, FALSE, FALSE, TRUE, TRUE, "small", FALSE),
          K(TRUE, TRUE, FALSE, TRUE, TRUE, FALSE, "static", FALSE),
          K(TRUE, FALSE, FALSE, FALSE, FALSE, FALSE, "small", FALSE),
          K(TRUE, TRUE, FALSE, FALSE, FALSE, TRUE, "streamed", TRUE),
          K(TRUE, TRUE, TRUE, FALSE, FALSE, FALSE, "small", FALSE)}

Handled == {k \in Kinds : k.route /\ k.host /\ ~k.upgrade}

Sending == [c \in {"a", "b", "c"} |-> IF c = "c" THEN Kinds ELSE Handled]
Requests == [c \in {"a", "b", "c"} |-> CASE c = "a" -> 2 [] c = "b" -> 1 [] c = "c" -> 3]

-----------------------------------------------------------------------------
(* Parser: messages of every framing, and faults, in front of a plain one. *)
Eol == <<"CR", "LF">>
Line(method, url, version) == method \o <<" ">> \o url \o <<" ", "HTTP/", version>> \o Eol
Field(name, value) == name \o <<":", " ">> \o value \o Eol
Wants(method, url, headers, body, close) ==
    [method |-> method, url |-> url, headers |-> headers, body |-> body, close |-> close]
Good(t, req) == [text |-> t, ok |-> TRUE, req |-> req]
Bad(t) == [text |-> t, ok |-> FALSE, req |-> Wants(<<>>, <<>>, <<>>, <<>>, FALSE)]
GET == <<"G", "ET">>
POST == <<"P", "OST">>
HConnection == <<"con", "nection">>
HLength == <<"con", "tent-length">>
HCoding == <<"transfer-", "encoding">>
HUpgrade == <<"up", "grade">>
KeepAlive == <<"keep-", "alive">>
CloseIt == <<"c", "lose">>
AChunked == <<"a", ",", "c", "hunked">>

Plain == Good(Line(GET, <<"/", "a", "?", "a">>, "1.1") \o Eol, Wants(GET, <<"/", "a">>, <<>>, <<>>, FALSE))
Simple == Good(GET \o <<" ", "/">> \o Eol \o Eol, Wants(GET, <<"/">>, <<>>, <<>>, FALSE))
Sized == Good(Line(POST, <<"/">>, "1.0") \o Field(HLength, <<"2">>) \o Field(HConnection, KeepAlive) \o Eol \o GET,
              Wants(POST, <<"/">>, <<<<HLength, <<"2">>>>, <<HConnection, KeepAlive>>>>, GET, FALSE))
Chunks == Good(Line(POST, <<"a", ":", "/", "/", "a", "/", "a">>, "1.1")
                 \o Field(HCoding, AChunked) \o Field(HConnection, CloseIt) \o Eol
                 \o <<"1", ";", "a">> \o Eol \o <<"0">> \o Eol
                 \o <<"2">> \o Eol \o <<"a", "/">> \o Eol
                 \o <<"0">> \o Eol \o <<"a", ":", "a">> \o Eol \o Eol,
               Wants(POST, <<"a", ":", "/", "/", "a", "/", "a">>,
                     <<<<HCoding, AChunked>>, <<HConnection, CloseIt>>>>, <<"0", "a", "/">>, TRUE))
Folded == Good(Line(GET, <<"/">>, "1.0") \o <<"a", ":", "CR", "LF", " ", "a", "CR", "LF", " ", "a">> \o Eol
                 \o <<"con", "a", ":">> \o Eol \o <<"a", ":", "c", "LF", "LF">>,
               Wants(GET, <<"/">>, <<<<<<"a">>, <<"a", " ", "a">>>>, <<<<"a">>, <<"c">>>>>>, <<>>, TRUE))
Upgraded == Good(Line(GET, <<"/">>, "1.1") \o Field(HUpgrade, <<"a">>) \o Eol,
                 Wants(GET, <<"/">>, <<<<HUpgrade, <<"a">>>>>>, <<>>, FALSE))
Tunnel == Good(Line(<<"C", "ONNECT">>, <<"a", ":", "9">>, "1.1") \o Eol,
               Wants(<<"C", "ONNECT">>, <<"a", ":", "9">>, <<>>, <<>>, FALSE))
Both == Bad(Line(POST, <<"/">>, "1.1") \o Field(HLength, <<"1">>) \o Field(HCoding, <<"c", "hunked">>) \o Eol
              \o <<"1">> \o Eol \o <<"a">> \o Eol \o <<"0">> \o Eol \o Eol)
Coded == Bad(Line(POST, <<"/">>, "1.1") \o Field(HCoding, <<"c", "hunked", ",", "a">>) \o Eol \o <<"a">>)
Long == Bad(Line(POST, <<"/">>, "1.1") \o Field(HLength, <<"9", "9", "9">>) \o Eol \o <<"a">>)
Twice == Bad(Line(POST, <<"/">>, "1.1") \o Field(HLength, <<"1">>) \o Field(HLength, <<"2">>) \o Eol \o <<"a">>)
Big == Bad(Line(GET, <<"/">>, "1.1") \o <<"a", ":">> \o [i \in 1 .. 40 |-> "a"] \o Eol \o Eol)
NoLength == Bad(Line(POST, <<"/">>, "1.1") \o Field(HCoding, <<"c", "hunked">>) \o Eol
                  \o <<"2", "0", "0", "0">> \o Eol \o <<"a">>)
Old == Bad(POST \o <<" ", "/">> \o Eol)
Streams == {<<m, Plain>> : m \in {Plain, Simple, Sized, Chunks, Folded,
                                  Both, Coded, Long, Twice, Big, NoLength, Old}}
             \cup {<<Sized, Chunks, Folded>>, <<Upgraded>>, <<Tunnel>>}

PARSER == INSTANCE CrowParser WITH Stream <- Streams, MaxHeader <- 40, MaxRead <- 3, Wide <- 999

-----------------------------------------------------------------------------
(* Router: two rules of a pool and a third one; blueprints, nested, bare   *)
(* and side by side, with rules added late.                                *)
Rule(pattern, ms, mw) == [pattern |-> pattern, methods |-> ms, mw |-> mw]
Blueprint(prefix, static, rules, children, catchall, mw) ==
    [prefix |-> prefix, static |-> static, rules |-> rules, children |-> children,
     catchall |-> catchall, mw |-> mw]
Get(pattern) == Rule(pattern, <<"GET">>, {})
Pool == {Get(<<"/">>), Get(<<"/", "a", "b">>), Get(<<"/", "a", "/">>), Get(<<"/", "<str>">>),
         Get(<<"/", "<str>", "/", "b">>),
         Rule(<<"/", "a">>, <<"GET", "POST">>, {1}), Rule(<<"/", "<int>">>, <<"GET">>, {2}),
         Rule(<<"/", "<uint>", "a">>, <<"POST">>, {1, 2}), Rule(<<"/", "a", "<path>">>, <<"GET", "HEAD">>, {})}
Ruled == {[bps |-> <<>>, rules |-> <<r, s, Get(<<"/", "<str>">>)>>, later |-> <<>>, catchall |-> TRUE] :
             r \in Pool, s \in Pool}
Inner == Blueprint(<<"a", "/", "b">>, TRUE, <<Rule(<<"/", "a", "/", "b", "/", "1">>, <<"GET">>, {2})>>, <<>>, TRUE, {1})
Other == Blueprint(<<"b">>, TRUE, <<Rule(<<"/", "b", "/", "<str>">>, <<"GET">>, {2})>>, <<>>, TRUE, {2})
Outer == Blueprint(<<"a">>, TRUE, <<Rule(<<"/", "a", "/", "2">>, <<"GET", "POST">>, {})>>, <<Inner>>, TRUE, {})
Quiet == Blueprint(<<"a">>, TRUE, <<Get(<<"/", "a">>)>>, <<Inner>>, FALSE, {})
Bare == Blueprint(<<"b">>, FALSE, <<>>, <<Inner>>, TRUE, {2})
Printed == {[bps |-> bps, rules |-> <<Get(<<"/", "a", "a">>)>>, later |-> later, catchall |-> catchall] :
               bps \in {<<Quiet>>, <<Outer, Other>>, <<Other, Outer>>, <<Bare>>},
               later \in {<<>>, <<Get(<<"/", "b", "b">>)>>}, catchall \in BOOLEAN}
Urls == {<<"/">> \o s : s \in UNION {[1 .. n -> {"/", "a", "b", "1", "-"}] : n \in 0 .. 2}}
          \cup {<<"/", "*">>, <<"/", "a", "/", "1">>, <<"/", "a", "/", "b">>, <<"/", "1", "2", "a">>,
                <<"/", "a", "/", "b", "/", "1">>, <<"/", "a", "/", "b", "/", "2">>, <<"/", "b", "/", "a", "/">>}

ROUTER == INSTANCE CrowRouter WITH App <- Ruled \cup Printed, Url <- Urls, Middleware <- {1, 2}, GlobalMw <- {3}

-----------------------------------------------------------------------------
(* Session: two requests of one browser.                                   *)
OneBrowser == <<1, 1>>

-----------------------------------------------------------------------------
(* JSON: documents of two assignments, and texts of a client.              *)
KeyOf(k) == [key |-> k, index |-> -1]
Nth(i) == [key |-> <<>>, index |-> i]
A == <<"a">>
B == <<"b">>
Quoted == <<"a", "\"">>
Paths == {<<>>, <<KeyOf(A)>>, <<KeyOf(Quoted)>>, <<KeyOf(B)>>, <<KeyOf(A), Nth(1)>>, <<Nth(0)>>, <<Nth(1), KeyOf(B)>>}
Leaf(t, s, float) == [t |-> t, s |-> s, float |-> float, l |-> <<>>, o |-> <<>>]
Scalars == {Leaf("true", <<>>, FALSE), Leaf("string", <<>>, FALSE),
            Leaf("string", <<"\\", "NL", "ESC", "u", "TAB", "/">>, FALSE),
            Leaf("number", <<"-", "1", "0">>, FALSE), Leaf("number", <<"1", ".", "0", "9", "0", "0">>, TRUE),
            Leaf("number", <<"1", ".", "9", "e", "+", "1">>, TRUE)}
UpTo(n, S) == UNION {[1 .. k -> S] : k \in 1 .. n}
Received ==
    UpTo(3, {"{", "}", "[", "]", ",", "\"", ":", "1", "0", "a", " ", "true"})
      \cup UpTo(4, {"1", "0", ".", "-", "+", "e"}) \cup UpTo(4, {"\"", "\\", "u", "n", "a"})
      \cup {<<"{", "\"">> \o s \o <<"}">> : s \in [1 .. 3 -> {"\"", ":", "1", "}", ",", "a"}]}
      \cup {<<"[">> \o s \o <<"]">> : s \in [1 .. 3 -> {"[", "]", "1", ","}]}
      \cup {<<"\"", "\\", "u", "0", "0", "1", "b", "\"">>}

JSON == INSTANCE CrowJson WITH Path <- Paths, Scalar <- Scalars, MaxWrites <- 2, Indent <- {-1, 0, 1},
                               Keys <- <<A, Quoted, B>>, Alphabet <- <<"\"", "a", "b">>,
                               ClientText <- Received, MaxDepth <- 3

-----------------------------------------------------------------------------
(* Mustache: pages of two or three nodes, sections of both kinds inline    *)
(* and on lines of their own, with partials, and bodies with a fault.      *)
N(k, name, s, kids, own, spaces) == [k |-> k, name |-> name, s |-> s, kids |-> kids, own |-> own, spaces |-> spaces]
Chars(s) == N("text", <<>>, s, <<>>, FALSE, 0)
Tag(k, name) == N(k, name, <<>>, <<>>, FALSE, 0)
XLine == Chars(<<"x", "NL">>)
Inside == {XLine, Tag("var", B), Tag("raw", <<".">>), Tag("var", <<"a", ".", "b">>),
           N("#", B, <<>>, <<Chars(<<"y">>)>>, FALSE, 0)}
Inline == Inside \cup {Tag("var", A), Tag("delims", A), Tag("!", <<"c">>), Tag(">", <<"p">>)}
            \cup {N(k, A, <<>>, <<i, j>>, FALSE, 0) : k \in {"#", "^"}, i \in Inside, j \in {XLine, Tag("var", B)}}
OwnLine == {N(k, A, <<>>, <<XLine, i, XLine>>, TRUE, n) : k \in {"#", "^"}, i \in Inside, n \in {0, 2}}
             \cup {N(k, <<"p">>, <<>>, <<>>, TRUE, n) : k \in {"!", ">"}, n \in {0, 2}}
Trees == {<<i, j>> : i \in Inline, j \in Inline} \cup {<<XLine, i>> : i \in OwnLine}
           \cup {<<i, j, Tag("var", B)>> : i \in OwnLine, j \in OwnLine}
Faults == {<<"{{", "}}">>, <<"x", "{{", "a">>, <<"{{", "#", "a", "}}">>, <<"{{", "/", "a", "}}">>,
           <<"{{", "#", "a", "}}", "{{", "/", "b", "}}">>, <<"{{", "{", "a", "}}">>,
           <<"{{", "#", "a", "}}", "{{", "^", "b", "}}", "{{", "/", "a", "}}", "{{", "/", "b", "}}">>,
           <<"{{", "=", "<%", "=", "}}">>, <<"{{", "=", "<%", " ", "%>", "}}">>}
Val(t, s, l, o) == [t |-> t, s |-> s, l |-> l, o |-> o]
Str(s) == Val("string", s, <<>>, <<>>)
Atom(t) == Val(t, <<t>>, <<>>, <<>>)
OnlyB(y) == Val("object", <<>>, <<>>, [k \in {B} |-> y])
Obj(x, y) == Val("object", <<>>, <<>>, [k \in {A, B} |-> IF k = A THEN x ELSE y])
Lst(l) == Val("list", <<>>, l, <<>>)
Contexts == {Obj(x, y) : x \in {Str(<<"<", "z">>), Str(<<>>), Atom("false"), Atom("true"), Atom("null"), Lst(<<>>),
                                Lst(<<Str(<<"1">>), OnlyB(Str(<<"2">>))>>), OnlyB(Str(<<"w">>)),
                                Obj(OnlyB(Str(<<"q">>)), Atom("null")),
                                Val("function", <<"{{", "b", "}}">>, <<>>, <<>>)},
                         y \in {Str(<<"&">>), Atom("true"), Atom("false")}}
Files == [n \in {<<"p">>} |-> <<"u", "NL", "v", "NL">>]

MUSTACHE == INSTANCE CrowMustache WITH Tree <- Trees, Faulty <- Faults, Context <- Contexts,
                                       Partials <- Files, MaxPages <- 1

-----------------------------------------------------------------------------
OffPARSER ==
    /\ par = Off /\ stream = Off /\ rest = Off
OffROUTER ==
    /\ app = Off /\ methods = Off /\ phase = Off /\ late = Off /\ answer = Off
OffJSON ==
    /\ doc = Off /\ writes = Off /\ text = Off /\ dumped = Off /\ val = Off
OffMUSTACHE ==
    /\ tree = Off /\ template = Off /\ page = Off /\ context = Off /\ pages = Off

Init ==
    /\ part \in Part
    /\ WsInit /\ HttpInit
    /\ SessionInit /\ (part # "session" => store = "memory")
    /\ IF part = "parser" THEN PARSER!Init ELSE OffPARSER
    /\ IF part = "router" THEN ROUTER!Init ELSE OffROUTER
    /\ IF part = "json" THEN JSON!Init ELSE OffJSON
    /\ IF part = "mustache" THEN MUSTACHE!Init ELSE OffMUSTACHE

parserVars == <<par, stream, rest>>
routerVars == <<app, methods, phase, late, answer>>
jsonVars == <<doc, writes, text, dumped, val>>
mustacheVars == <<tree, template, page, context, pages>>
vars == <<part, wsVars, httpVars, sessionVars, parserVars, routerVars, jsonVars, mustacheVars>>

Next ==
    /\ UNCHANGED part
    /\ \/ part = "websocket" /\ WsNext
          /\ UNCHANGED <<httpVars, sessionVars, parserVars, routerVars, jsonVars, mustacheVars>>
       \/ part = "http" /\ HttpNext
          /\ UNCHANGED <<wsVars, sessionVars, parserVars, routerVars, jsonVars, mustacheVars>>
       \/ part = "session" /\ SessionNext
          /\ UNCHANGED <<wsVars, httpVars, parserVars, routerVars, jsonVars, mustacheVars>>
       \/ part = "parser" /\ PARSER!Next
          /\ UNCHANGED <<wsVars, httpVars, sessionVars, routerVars, jsonVars, mustacheVars>>
       \/ part = "router" /\ ROUTER!Next
          /\ UNCHANGED <<wsVars, httpVars, sessionVars, parserVars, jsonVars, mustacheVars>>
       \/ part = "json" /\ JSON!Next
          /\ UNCHANGED <<wsVars, httpVars, sessionVars, parserVars, routerVars, mustacheVars>>
       \/ part = "mustache" /\ MUSTACHE!Next
          /\ UNCHANGED <<wsVars, httpVars, sessionVars, parserVars, routerVars, jsonVars>>

\* the fairness of the one part whose liveness is checked
Spec == Init /\ [][Next]_vars /\ WsFairness

-----------------------------------------------------------------------------
(* Properties: those of CrowWebSocket, CrowHttp and CrowSession, and each  *)
(* of the following, which is that of its part and stated there.           *)

\* the invariants that relate the fields of the objects, part by part
TypeOK ==
    /\ WsTypeOK /\ HttpTypeOK /\ SessionTypeOK
    /\ part = "parser" => PARSER!TypeOK

\* http_parser_merged.h, parser.h: what is routed is what was sent, however it was cut
RequestsAsSent == part = "parser" => PARSER!RequestsAsSent

\* routing.h: a request is answered by the rule that its url and method ask for
RoutedByRules == part = "router" => ROUTER!RoutedByRules

\* routing.h: a catch-all answers under its blueprint's prefix only
CatchallOfPrefix == part = "router" => ROUTER!CatchallOfPrefix

\* middleware.h: the after handlers that run are those whose before handlers ran, inside out
MiddlewareNested == part = "router" => ROUTER!MiddlewareNested

\* json.h: what dump() writes is loaded as the document it was written from
LoadsJson == part = "json" => JSON!LoadsJson

\* mustache.h: a page is what the template's tree means for the context
PageIsMeaning == part = "mustache" => MUSTACHE!PageIsMeaning
=============================================================================
