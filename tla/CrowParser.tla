----------------------------- MODULE CrowParser -----------------------------
(***************************************************************************)
(* crow/http_parser_merged.h and the callbacks of crow/parser.h: the bytes *)
(* of one connection, as its reads cut them, become requests.              *)
(*                                                                         *)
(* A character stands for itself or, in a method, a header's name, a value *)
(* and a version, for the run of characters the parser matches one by one. *)
(* The handler answers in on_message_complete.  A mark's callback is made  *)
(* per character, which its receivers do not see: they append. Only on_url *)
(* goes on to route, so the mark of the url is kept.                       *)
(***************************************************************************)
EXTENDS Naturals, Sequences, SequencesExt

CONSTANTS Stream,       \* what clients send: sequences of records text, ok, req
          MaxHeader,    \* CROW_HTTP_MAX_HEADER_SIZE
          MaxRead,      \* a read gives so many characters, or all there are
          Wide          \* CROW_ULLONG_MAX, and "no length"

VARIABLES par,          \* the HTTPParser
          stream,       \* the client's messages
          rest          \* what of their text was not read

parserVars == <<par, stream, rest>>

Digit == [d \in {"0", "1", "2", "9"} |-> CASE d = "0" -> 0 [] d = "1" -> 1 [] d = "2" -> 2 [] d = "9" -> 9]
Methods == {<<"G", "ET">>, <<"P", "OST">>, <<"P", "UT">>, <<"C", "ONNECT">>}
Connection == <<"con", "nection">>
ContentLength == <<"con", "tent-length">>
TransferEncoding == <<"transfer-", "encoding">>
Upgrade == <<"up", "grade">>
Names == {Connection, <<"proxy-", "connection">>, ContentLength, TransferEncoding, Upgrade}

Alpha == {"a", "G", "ET", "P", "OST", "C", "ONNECT", "c", "hunked", "lose", "keep-", "alive", "h"}
Token == Alpha \cup DOMAIN Digit \cup {"2c"} \cup UNION {{n[1], n[2]} : n \in Names}
UrlChar == Alpha \cup DOMAIN Digit \cup {"/", ":", ";", "=", "*", "@", ","}

NoRequest == [method |-> <<>>, url |-> <<>>, headers |-> <<>>, body |-> <<>>, close |-> FALSE]

Err(p, e) == [p EXCEPT !.err = e]
Go(p, state) == [p EXCEPT !.state = state]

-----------------------------------------------------------------------------
(* parser.h.                                                               *)

\* raw_url grows by a piece, and each time the handler routes what there is (noted until a read splits it)
OnUrl(p) ==
    LET raw == p.raw \o p.mark
        url == IF p.qs \notin 1 .. Len(raw) THEN raw ELSE SubSeq(raw, 1, p.qs)
    IN  [p EXCEPT !.raw = raw, !.mark = <<>>, !.marked = FALSE, !.req.url = url,
                  !.routed = IF p.split THEN @ ELSE Append(@, url)]

Emplace(p) == [p EXCEPT !.req.headers = Append(@, <<p.field, p.value>>), !.field = <<>>, !.value = <<>>]

\* a mutant of OnHeaderField: every piece of a name begins a header
OnHeaderFieldPiece(p, ch) ==
    [IF p.value # <<>> THEN Emplace(p) ELSE p EXCEPT !.field = <<ch>>, !.building = TRUE]

\* the header before is kept if it has a value
OnHeaderField(p, ch) ==
    IF p.building THEN [p EXCEPT !.field = Append(@, ch)]
    ELSE [IF p.value # <<>> THEN Emplace(p) ELSE p EXCEPT !.field = <<ch>>, !.building = TRUE]

OnHeaderValue(p, piece) ==
    IF p.building THEN [p EXCEPT !.value = piece, !.building = FALSE]
    ELSE [p EXCEPT !.value = @ \o piece]

\* set_connection_parameters(): when is the connection closed
OnHeadersComplete(p) ==
    LET q == IF p.field # <<>> THEN Emplace(p) ELSE p
    IN  [q EXCEPT !.req.close = \/ p.version = "1.0" /\ "KEEP_ALIVE" \notin p.flags
                                \/ p.version = "1.1" /\ "CLOSE" \in p.flags]

Clear(p) ==
    [p EXCEPT !.state = "start_req", !.req = NoRequest, !.raw = <<>>, !.field = <<>>,
              !.value = <<>>, !.building = FALSE, !.qs = 0, !.routed = <<>>, !.split = FALSE]

\* the request goes to the handler, which answers it and clears the parser
OnMessageComplete(p) ==
    Clear([p EXCEPT !.requests = Append(@, [req |-> p.req, routed |-> p.routed, split |-> p.split])])

-----------------------------------------------------------------------------
(* http_parser_execute(), by the states of the parser; a state that looks  *)
(* at its character again in another state comes after that one.           *)

StartReq(p, ch) ==
    IF ch \in {"CR", "LF"} THEN p
    ELSE IF \E m \in Methods : m[1] = ch
         THEN [p EXCEPT !.flags = {}, !.te = FALSE, !.len = Wide,
                        !.req.method = <<ch>>, !.state = "method"]
    ELSE Err(p, "INVALID_METHOD")

ReqMethod(p, ch) ==
    CASE ch = " " /\ p.req.method \in Methods -> Go(p, "spaces")
      [] Append(p.req.method, ch) \in Methods -> [p EXCEPT !.req.method = Append(@, ch)]
      [] OTHER -> Err(p, "INVALID_METHOD")

\* parse_url_char(): the state after a character of the url
NextUrl(s, ch) ==
    CASE s = "spaces" /\ ch \in {"/", "*"} -> "path"
      [] s \in {"spaces", "schema"} /\ ch \in Alpha -> "schema"
      [] s = "schema" /\ ch = ":" -> "schema_slash"
      [] s = "schema_slash" /\ ch = "/" -> "schema_slash_slash"
      [] s = "schema_slash_slash" /\ ch = "/" -> "server"
      [] s \in {"server", "server_with_at"} /\ ch = "/" -> "path"
      [] s = "server" /\ ch = "@" -> "server_with_at"
      [] s \in {"server", "server_with_at"} /\ ch \in UrlChar \ {"/", "@"} -> "server"
      [] s \in {"server", "server_with_at", "path"} /\ ch = "?" -> "query"
      [] s = "path" /\ ch \in UrlChar -> "path"
      [] s = "query" /\ ch \in UrlChar \cup {"?"} -> "query"
      [] OTHER -> "dead"

(* qs_point is counted from url_start_mark, which only the read that holds *)
(* the url's first character has; in a later one it is past the end.       *)
ParseUrlChar(p, s, ch) ==
    LET next == NextUrl(s, ch)
        q == [p EXCEPT !.mark = Append(@, ch), !.state = next]
    IN  IF next = "dead" THEN Err(p, "INVALID_URL")
        ELSE IF s # "query" /\ next = "query"
             THEN [q EXCEPT !.qs = IF p.started THEN Len(p.mark) ELSE Wide]
        ELSE q

SpacesBeforeUrl(p, ch) ==
    IF ch = " " THEN p
    ELSE ParseUrlChar([p EXCEPT !.marked = TRUE, !.started = TRUE],
                      IF p.req.method = <<"C", "ONNECT">> THEN "server" ELSE "spaces", ch)

\* the end of the url; without a version it is HTTP/0.9, which knows GET only
ReqUrl(p, ch) ==
    LET ends == p.state \in {"server", "server_with_at", "path", "query"}
    IN  CASE ends /\ ch = " " -> OnUrl(Go(p, "http_start"))
          [] ends /\ ch \in {"CR", "LF"} ->
                IF p.req.method # <<"G", "ET">> THEN Err(p, "INVALID_VERSION")
                ELSE OnUrl([p EXCEPT !.version = "0.9",
                        !.state = IF ch = "CR" THEN "line_almost_done" ELSE "header_field_start"])
          [] OTHER -> ParseUrlChar(p, p.state, ch)

HttpVersion(p, ch) ==
    CASE p.state = "http_start" /\ ch = " " -> p
      [] p.state = "http_start" /\ ch = "HTTP/" -> Go(p, "http_major")
      [] p.state = "http_start" /\ ch # "HTTP/" -> Err(p, "INVALID_CONSTANT")
      [] p.state = "http_major" /\ ch \in {"1.0", "1.1"} -> [p EXCEPT !.version = ch, !.state = "http_end"]
      [] p.state = "http_end" /\ ch = "CR" -> Go(p, "line_almost_done")
      [] p.state = "http_end" /\ ch = "LF" -> Go(p, "header_field_start")
      [] p.state = "line_almost_done" /\ ch = "LF" -> Go(p, "header_field_start")
      [] p.state = "line_almost_done" /\ ch # "LF" -> Err(p, "LF_EXPECTED")
      [] OTHER -> Err(p, "INVALID_VERSION")

-----------------------------------------------------------------------------
(* The body.                                                               *)

BodyIdentity(p, ch) ==
    LET q == [p EXCEPT !.len = @ - 1, !.req.body = Append(@, ch)]
    IN  IF q.len = 0 THEN OnMessageComplete(q) ELSE q

\* the digit of a size, added in a given base; refused long before it is lost
AddDigit(p, base, d) ==
    IF (Wide - base) \div base < p.len THEN Err(p, "INVALID_CONTENT_LENGTH")
    ELSE [p EXCEPT !.len = @ * base + d]

ChunkSize(p, ch) ==
    CASE ch \in DOMAIN Digit /\ p.state = "chunk_size_start" ->
            [p EXCEPT !.len = Digit[ch], !.state = "chunk_size"]
      [] ch \in DOMAIN Digit /\ p.state = "chunk_size" -> AddDigit(p, 16, Digit[ch])
      [] ch = "CR" /\ p.state = "chunk_size" -> Go(p, "chunk_size_almost_done")
      [] ch \in {";", " "} /\ p.state = "chunk_size" -> Go(p, "chunk_parameters")
      [] OTHER -> Err(p, "INVALID_CHUNK_SIZE")

ChunkParameters(p, ch) == IF ch = "CR" THEN Go(p, "chunk_size_almost_done") ELSE p

\* the last chunk is empty, and headers follow it
ChunkSizeAlmostDone(p, ch) ==
    IF ch # "LF" THEN Err(p, "STRICT")
    ELSE IF p.len = 0
         THEN [p EXCEPT !.nread = 0, !.flags = @ \cup {"TRAILING"}, !.state = "header_field_start"]
    ELSE [p EXCEPT !.nread = 0, !.state = "chunk_data"]

ChunkData(p, ch) ==
    [p EXCEPT !.len = @ - 1, !.req.body = Append(@, ch),
              !.state = IF p.len = 1 THEN "chunk_data_almost_done" ELSE @]

ChunkDataDone(p, ch) ==
    CASE p.state = "chunk_data_almost_done" /\ ch = "CR" -> Go(p, "chunk_data_done")
      [] p.state = "chunk_data_done" /\ ch = "LF" -> [p EXCEPT !.nread = 0, !.state = "chunk_size_start"]
      [] OTHER -> Err(p, "STRICT")

-----------------------------------------------------------------------------
(* The headers.                                                            *)

\* how the body is told: upgrade, chunks, a length, or none
HeadersDone(p) ==
    LET q == [p EXCEPT !.nread = 0]
    IN  CASE p.upgrade -> [OnMessageComplete(q) EXCEPT !.left = TRUE]
          [] ~p.upgrade /\ "CHUNKED" \in p.flags -> Go(q, "chunk_size_start")
          [] ~p.upgrade /\ "CHUNKED" \notin p.flags /\ p.te -> Err(q, "INVALID_TRANSFER_ENCODING")
          [] ~p.upgrade /\ ~p.te /\ p.len \in {0, Wide} -> OnMessageComplete(q)
          [] ~p.upgrade /\ ~p.te /\ p.len \notin {0, Wide} -> Go(q, "body_identity")

HeadersAlmostDone(p, ch) ==
    IF ch # "LF" THEN Err(p, "STRICT")
    ELSE IF "TRAILING" \in p.flags THEN OnMessageComplete(p)
    ELSE IF p.te /\ "CONTENTLENGTH" \in p.flags THEN Err(p, "UNEXPECTED_CONTENT_LENGTH")
    ELSE HeadersDone(OnHeadersComplete(
            [p EXCEPT !.upgrade = "UPGRADE" \in p.flags \/ p.req.method = <<"C", "ONNECT">>]))

\* header_state while a name is read: what of it may still be one of Names
Matched(h, ch) == IF \E n \in Names : IsPrefix(Append(h, ch), n) THEN Append(h, ch) ELSE <<"general">>

HeaderFieldStart(p, ch) ==
    CASE ch = "CR" -> Go(p, "headers_almost_done")
      [] ch = "LF" -> HeadersAlmostDone(p, ch)
      [] ch \in Token -> [OnHeaderField(p, ch) EXCEPT !.state = "header_field", !.h = Matched(<<>>, ch)]
      [] OTHER -> Err(p, "INVALID_HEADER_TOKEN")

HeaderField(p, ch) ==
    LET h == Matched(p.h, ch)
    IN  CASE ch = ":" -> Go(p, "header_value_discard_ws")
          [] ch \in Token -> [OnHeaderField(p, ch) EXCEPT !.h = h, !.te = @ \/ h = TransferEncoding]
          [] OTHER -> Err(p, "INVALID_HEADER_TOKEN")

\* the first character of a value; h2 is told from its second one, if that was read too
HeaderValueStart(p, ch, ahead) ==
    LET q == [OnHeaderValue(p, <<ch>>) EXCEPT !.state = "header_value", !.h = <<"general">>]
    IN  CASE p.h = Upgrade ->
                IF ch = "h" /\ ahead = "2c" THEN q ELSE [q EXCEPT !.flags = @ \cup {"UPGRADE"}]
          [] p.h = TransferEncoding -> [q EXCEPT !.h = IF ch = "c" THEN <<"te_matching">> ELSE <<"te_token">>]
          [] p.h \in {<<"te_start">>, <<"length_ws">>} -> [q EXCEPT !.h = p.h]
          [] p.h = ContentLength ->
                IF ch \notin DOMAIN Digit THEN Err(p, "INVALID_CONTENT_LENGTH")
                ELSE IF "CONTENTLENGTH" \in p.flags THEN Err(p, "UNEXPECTED_CONTENT_LENGTH")
                ELSE [q EXCEPT !.flags = @ \cup {"CONTENTLENGTH"}, !.len = Digit[ch], !.h = <<"length">>]
          [] p.h \in {Connection, <<"proxy-", "connection">>} ->
                [q EXCEPT !.h = CASE ch = "keep-" -> <<"keep_matching">>
                                  [] ch = "c" -> <<"close_matching">>
                                  [] OTHER -> <<"general">>]
          [] OTHER -> q

\* header_state while a value is read, but for a length
NextValue(h, ch) ==
    CASE h = "te_matching" -> IF ch = "hunked" THEN "chunked" ELSE "te_token"
      [] h = "te_token" /\ ch = "," -> "te_start"
      [] h = "te_start" /\ ch # " " ->
            IF ch = "c" THEN "te_matching" ELSE IF ch \in Token THEN "te_token" ELSE "general"
      [] h = "chunked" /\ ch # " " -> "te_token"
      [] h = "keep_matching" -> IF ch = "alive" THEN "keep_alive" ELSE "general"
      [] h = "close_matching" -> IF ch = "lose" THEN "close" ELSE "general"
      [] h \in {"keep_alive", "close"} /\ ch # " " -> "general"
      [] OTHER -> h

HeaderAlmostDone(p, ch) == IF ch = "LF" THEN Go(p, "header_value_lws") ELSE Err(p, "LF_EXPECTED")

HeaderValue(p, ch) ==
    CASE ch = "CR" -> Go(p, "header_almost_done")
      [] ch = "LF" -> HeaderAlmostDone(p, ch)
      [] ch = "ctl" -> Err(p, "INVALID_HEADER_TOKEN")
      [] ch \notin {"CR", "LF", "ctl"} /\ p.h \in {<<"length">>, <<"length_ws">>} ->
            IF ch = " " THEN [OnHeaderValue(p, <<ch>>) EXCEPT !.h = <<"length_ws">>]
            ELSE IF p.h = <<"length">> /\ ch \in DOMAIN Digit
                 THEN AddDigit(OnHeaderValue(p, <<ch>>), 10, Digit[ch])
            ELSE Err(p, "INVALID_CONTENT_LENGTH")
      [] OTHER -> [OnHeaderValue(p, <<ch>>) EXCEPT !.h = <<NextValue(p.h[1], ch)>>]

\* a line that begins with a space goes on with the value of the one before
HeaderValueLws(p, ch, ahead) ==
    LET flag == CASE p.h = <<"keep_alive">> -> {"KEEP_ALIVE"}
                  [] p.h = <<"close">> -> {"CLOSE"}
                  [] p.h = <<"chunked">> -> {"CHUNKED"}
                  [] OTHER -> {}
    IN  IF ch = " "
        THEN HeaderValueStart(IF p.h = <<"length">> THEN [p EXCEPT !.h = <<"length_ws">>] ELSE p,
                              ch, ahead)
        ELSE HeaderFieldStart([p EXCEPT !.flags = @ \cup flag], ch)

DiscardWs(p, ch, ahead) ==
    CASE ch = " " -> p
      [] ch = "CR" -> Go(p, "discard_ws_almost_done")
      [] ch = "LF" -> Go(p, "discard_lws")
      [] OTHER -> HeaderValueStart(p, ch, ahead)

\* a value that is empty
DiscardLws(p, ch) ==
    IF ch = " " THEN Go(p, "header_value_discard_ws") ELSE HeaderFieldStart(OnHeaderValue(p, <<>>), ch)

-----------------------------------------------------------------------------
BodyStates == {"chunk_data", "chunk_data_almost_done", "chunk_data_done", "body_identity"}
UrlStates == {"schema", "schema_slash", "schema_slash_slash", "server", "server_with_at", "path", "query"}

\* ahead is the character after ch in the same read, or "" at its end
ByState(p, ch, ahead) ==
    CASE p.state = "start_req" -> StartReq(p, ch)
      [] p.state = "method" -> ReqMethod(p, ch)
      [] p.state = "spaces" -> SpacesBeforeUrl(p, ch)
      [] p.state \in UrlStates -> ReqUrl(p, ch)
      [] p.state \in {"http_start", "http_major", "http_end", "line_almost_done"} -> HttpVersion(p, ch)
      [] p.state = "header_field_start" -> HeaderFieldStart(p, ch)
      [] p.state = "header_field" -> HeaderField(p, ch)
      [] p.state = "header_value_discard_ws" -> DiscardWs(p, ch, ahead)
      [] p.state = "discard_ws_almost_done" -> IF ch = "LF" THEN Go(p, "discard_lws") ELSE Err(p, "STRICT")
      [] p.state = "discard_lws" -> DiscardLws(p, ch)
      [] p.state = "header_value" -> HeaderValue(p, ch)
      [] p.state = "header_almost_done" -> HeaderAlmostDone(p, ch)
      [] p.state = "header_value_lws" -> HeaderValueLws(p, ch, ahead)
      [] p.state = "headers_almost_done" -> HeadersAlmostDone(p, ch)
      [] p.state \in {"chunk_size_start", "chunk_size"} -> ChunkSize(p, ch)
      [] p.state = "chunk_parameters" -> ChunkParameters(p, ch)
      [] p.state = "chunk_size_almost_done" -> ChunkSizeAlmostDone(p, ch)
      [] p.state = "chunk_data" -> ChunkData(p, ch)
      [] p.state \in {"chunk_data_almost_done", "chunk_data_done"} -> ChunkDataDone(p, ch)
      [] p.state = "body_identity" -> BodyIdentity(p, ch)

Step(p, ch, ahead) ==
    LET q == IF p.state \in BodyStates THEN p ELSE [p EXCEPT !.nread = @ + 1]
    IN  IF q.nread > MaxHeader THEN Err(q, "HEADER_OVERFLOW") ELSE ByState(q, ch, ahead)

(* The characters from i to j, one after the other (by halves, to keep     *)
(* TLC's stack low). After an error, or an upgrade, nothing is parsed.     *)
RECURSIVE Steps(_, _, _, _)
Steps(p, text, i, j) ==
    LET m == (i + j) \div 2
        second(q) == IF q.err # "OK" \/ q.left THEN q ELSE Steps(q, text, m + 1, j)
    IN  IF i = j THEN Step(p, text[i], IF i < Len(text) THEN text[i + 1] ELSE "")
        ELSE second(Steps(p, text, i, m))

\* one read: a url that goes on from the last one is marked from the start
Execute(p, text) ==
    LET begun == [p EXCEPT !.marked = p.state \in UrlStates, !.started = FALSE,
                           !.split = @ \/ p.state \in UrlStates \ {"query"}]
        ended(end) == IF end.marked /\ end.err = "OK" THEN OnUrl(end) ELSE end
    IN  ended(Steps(begun, text, 1, Len(text)))

Init ==
    /\ par = [state |-> "start_req", err |-> "OK", flags |-> {}, te |-> FALSE, len |-> 0,
              nread |-> 0, version |-> "", upgrade |-> FALSE, h |-> <<>>, qs |-> 0,
              mark |-> <<>>, marked |-> FALSE, started |-> FALSE, split |-> FALSE, left |-> FALSE,
              building |-> FALSE, field |-> <<>>, value |-> <<>>, raw |-> <<>>,
              req |-> NoRequest, routed |-> <<>>, requests |-> <<>>]
    /\ stream \in Stream
    /\ rest = FlattenSeq([i \in 1 .. Len(stream) |-> stream[i].text])

\* feed(), for as many of the characters as a read gives
Feed ==
    /\ par.err = "OK" /\ ~par.left
    /\ \E n \in {n \in 1 .. Len(rest) : n <= MaxRead \/ n = Len(rest)} :
          /\ par' = Execute(par, SubSeq(rest, 1, n))
          /\ rest' = SubSeq(rest, n + 1, Len(rest))
    /\ UNCHANGED stream

Next == Feed
Spec == Init /\ [][Next]_parserVars

-----------------------------------------------------------------------------
(* Properties.                                                             *)

\* the messages in front of the first one that is to be refused
Good == SelectSeq([i \in 1 .. Len(stream) |-> i], LAMBDA i : \A j \in 1 .. i : stream[j].ok)

TypeOK ==
    /\ par.flags \subseteq {"KEEP_ALIVE", "CLOSE", "CHUNKED", "TRAILING", "UPGRADE", "CONTENTLENGTH"}
    /\ par.len \in 0 .. Wide
    /\ par.nread \in 0 .. MaxHeader + 1
    /\ par.marked => par.err # "OK"

(* The handler gets the requests that were sent, in their order, however   *)
(* the reads cut them: method, headers with a value, body, and whether to  *)
(* close. The url is right, and was never routed on in part, if no read    *)
(* ends inside its path. Each message is answered or refused by the time   *)
(* its last character is read, and a refusal stops the parser there: a     *)
(* body that is ambiguous, too long for its number, or begins before the   *)
(* headers fit.                                                            *)
RequestsAsSent ==
    /\ Len(par.requests) <= Len(Good)
    /\ \A i \in 1 .. Len(par.requests) :
          LET got == par.requests[i]
              want == stream[i].req
          IN  /\ [got.req EXCEPT !.url = <<>>] = [want EXCEPT !.url = <<>>]
              /\ ~got.split => \A k \in 1 .. Len(got.routed) : got.routed[k] = want.url
    /\ par.err # "OK" => Len(par.requests) = Len(Good) /\ Len(Good) < Len(stream)
    /\ rest = <<>> => (par.err # "OK" \/ par.left \/ Len(par.requests) = Len(stream))
=============================================================================
