------------------------------ MODULE CrowJson ------------------------------
(***************************************************************************)
(* crow/json.h: a wvalue is written, dumped and loaded as an rvalue, whose *)
(* members are then looked up; or the text of a client is loaded.          *)
(*                                                                         *)
(* A text is a sequence of characters; true, false and null are each one.  *)
(* A value has the fields of every type: s holds the characters of a       *)
(* string, or those that to_string() or snprintf() gives for a number.     *)
(***************************************************************************)
EXTENDS Integers, Sequences, FiniteSets, SequencesExt

CONSTANTS Path,         \* what is assigned to: sequences of keys and indices
          Scalar,       \* what is assigned: no number with a fraction and an exponent that ends
                        \* in 0, which dump() takes for a zero of the fraction
          MaxWrites,    \* assignments to a document at most
          Indent,       \* the arguments of dump(); -1 is none
          Keys,         \* the keys, in order
          Alphabet,     \* the characters of keys, in order
          ClientText,   \* texts of clients
          MaxDepth      \* max_depth (10000)

VARIABLES doc, writes,  \* the wvalue, and how often it was written to
          text,         \* what is loaded
          dumped,       \* it was dumped from doc
          val           \* the rvalue

jsonVars == <<doc, writes, text, dumped, val>>

Blank == [t |-> "null", s |-> <<>>, float |-> FALSE, l |-> <<>>, o |-> <<>>]
NoValue == [t |-> "error", s |-> <<>>, escaped |-> FALSE, kids |-> <<>>, cached |-> FALSE]

Digits == {"0", "1", "9"}
Hex == Digits \cup {"a", "b", "e"}
White == {" ", "TAB", "CR", "NL"}
Escapes == {"\"", "\\", "/", "b", "f", "n", "r", "t"}

-----------------------------------------------------------------------------
(* wvalue: operator[] makes of a value what it is used as.                 *)

Key(k) == [key |-> k, index |-> -1]
Index(i) == [key |-> <<>>, index |-> i]

RECURSIVE Put(_, _, _)
Put(v, path, x) ==
    IF path = <<>> THEN x
    ELSE LET at == Head(path)
         IN  IF at.index >= 0
             THEN LET l == IF v.t = "list" THEN v.l ELSE <<>>
                      n == IF at.index + 1 > Len(l) THEN at.index + 1 ELSE Len(l)
                  IN  [Blank EXCEPT !.t = "list",
                            !.l = [k \in 1 .. n |-> LET old == IF k <= Len(l) THEN l[k] ELSE Blank
                                                    IN  IF k = at.index + 1 THEN Put(old, Tail(path), x) ELSE old]]
             ELSE LET o == IF v.t = "object" THEN v.o ELSE <<>>
                  IN  [Blank EXCEPT !.t = "object",
                            !.o = [k \in DOMAIN o \cup {at.key} |->
                                    LET old == IF k \in DOMAIN o THEN o[k] ELSE Blank
                                    IN  IF k = at.key THEN Put(old, Tail(path), x) ELSE old]]

\* what operator[] refers to, once it is there
RECURSIVE At(_, _)
At(v, path) ==
    IF path = <<>> THEN v
    ELSE IF Head(path).index >= 0
         THEN IF v.t = "list" /\ Head(path).index < Len(v.l) THEN At(v.l[Head(path).index + 1], Tail(path)) ELSE Blank
         ELSE IF v.t = "object" /\ Head(path).key \in DOMAIN v.o THEN At(v.o[Head(path).key], Tail(path)) ELSE Blank

-----------------------------------------------------------------------------
(* dump()                                                                  *)

\* a mutant of EscapeChar: a backslash is not escaped
EscapeQuote(c) == IF c = "\"" THEN <<"\\", "\"">> ELSE <<c>>

EscapeChar(c) ==
    CASE c \in {"\"", "\\"} -> <<"\\", c>>
      [] c = "NL" -> <<"\\", "n">>
      [] c = "TAB" -> <<"\\", "t">>
      [] c = "ESC" -> <<"\\", "u", "0", "0", "1", "b">>     \* and the other control characters
      [] OTHER -> <<c>>

DumpString(s) == <<"\"">> \o FlattenSeq([k \in 1 .. Len(s) |-> EscapeChar(s[k])]) \o <<"\"">>

\* a floating point number: zeros at the end, but the first after the point
Trim(s) ==
    LET dots == {k \in 1 .. Len(s) : s[k] = "."}
        dot  == CHOOSE k \in dots : TRUE
        from == IF dot < Len(s) /\ s[dot + 1] = "0" THEN dot + 2 ELSE dot + 1
        cut  == {k \in from .. Len(s) : \A j \in k .. Len(s) : s[j] = "0"}
    IN  IF dots = {} \/ cut = {} THEN s
        ELSE SubSeq(s, 1, (CHOOSE k \in cut : \A j \in cut : k <= j) - 1)

NewLine(indent, level) == IF indent < 0 THEN <<>> ELSE <<"NL">> \o [k \in 1 .. indent * level |-> " "]

Container(open, items, close, indent, level) ==
    LET separated(k) == (IF k = 1 THEN <<>> ELSE <<",">> \o NewLine(indent, level + 1)) \o items[k]
    IN  <<open>> \o NewLine(indent, level + 1)
        \o FlattenSeq([k \in 1 .. Len(items) |-> separated(k)])
        \o NewLine(indent, level) \o <<close>>

\* The order of an unordered_map is any; the keys come in that of order.
RECURSIVE DumpInternal(_, _, _, _)
DumpInternal(v, order, indent, level) ==
    CASE v.t = "number" -> IF v.float THEN Trim(v.s) ELSE v.s
      [] v.t = "string" -> DumpString(v.s)
      [] v.t = "list" ->
            Container("[", [k \in 1 .. Len(v.l) |-> DumpInternal(v.l[k], order, indent, level + 1)], "]", indent, level)
      [] v.t = "object" ->
            LET keys == SelectSeq(order, LAMBDA k : k \in DOMAIN v.o)
                space == IF indent < 0 THEN <<>> ELSE <<" ">>
            IN  Container("{", [k \in 1 .. Len(keys) |-> DumpString(keys[k]) \o <<":">> \o space
                                    \o DumpInternal(v.o[keys[k]], order, indent, level + 1)], "}", indent, level)
      [] OTHER -> <<v.t>>

-----------------------------------------------------------------------------
(* load(): every decode_ function gives the value and the place after it.  *)

Char(d, p) == IF p <= Len(d) THEN d[p] ELSE "NUL"
Result(v, p) == [v |-> v, p |-> p]
Failed == Result(NoValue, 0)
Bad(r) == r.v.t = "error"

RECURSIVE Skip(_, _)
Skip(d, p) == IF Char(d, p) \in White THEN Skip(d, p + 1) ELSE p

\* where the string ends that began before q, or 0
RECURSIVE StringEnd(_, _)
StringEnd(d, q) ==
    CASE Char(d, q) = "\"" -> q
      [] Char(d, q) = "NUL" -> 0
      [] Char(d, q) = "\\" ->
            IF Char(d, q + 1) = "u" /\ \A k \in 2 .. 5 : Char(d, q + k) \in Hex THEN StringEnd(d, q + 6)
            ELSE IF Char(d, q + 1) \in Escapes THEN StringEnd(d, q + 2) ELSE 0
      [] OTHER -> StringEnd(d, q + 1)

DecodeString(d, p) ==
    LET end == IF Char(d, p) = "\"" THEN StringEnd(d, p + 1) ELSE 0
        s   == SubSeq(d, p + 1, end - 1)
    IN  IF end = 0 THEN Failed
        ELSE Result([NoValue EXCEPT !.t = "string", !.s = s, !.escaped = "\\" \in ToSet(s)], end + 1)

\* the next state by the character; a state without an entry is Invalid
NumberStep(state, c) ==
    CASE c = "0" /\ state \in {"Minus", "AfterMinus"} -> "ZeroFirst"
      [] c \in Digits \ {"0"} /\ state \in {"Minus", "AfterMinus"} -> "Digits"
      [] c \in Digits /\ state \in {"Digits", "DigitsAfterPoints"} -> state
      [] c \in Digits /\ state \in {"E", "DigitsAfterE"} -> "DigitsAfterE"
      [] c = "." /\ state \in {"ZeroFirst", "Digits"} -> "DigitsAfterPoints"
      [] c = "-" /\ state = "Minus" -> "AfterMinus"
      [] c \in {"-", "+"} /\ state = "E" -> "DigitsAfterE"
      [] c = "e" /\ state \in {"Digits", "DigitsAfterPoints"} -> "E"
      [] OTHER -> "Invalid"

RECURSIVE NumberEnd(_, _, _)
NumberEnd(d, q, state) ==
    IF state = "Invalid" THEN 0
    ELSE IF Char(d, q) \in Digits \cup {".", "-", "+", "e"} THEN NumberEnd(d, q + 1, NumberStep(state, Char(d, q)))
    ELSE IF state \in {"ZeroFirst", "Digits", "DigitsAfterPoints", "DigitsAfterE"} THEN q ELSE 0

DecodeNumber(d, p) ==
    LET end == NumberEnd(d, p, "Minus")
    IN  IF end = 0 THEN Failed
        ELSE Result([NoValue EXCEPT !.t = "number", !.s = SubSeq(d, p, end - 1)], end)

\* unescape(): the code of \u as the bytes of UTF-8
HexValue(c) == CHOOSE k \in 0 .. 15 : <<"0", "1", "2", "3", "4", "5", "6", "7", "8", "9", "a", "b", "c", "d", "e", "f">>[k + 1] = c
Utf8(h) ==
    LET code == ((HexValue(h[1]) * 16 + HexValue(h[2])) * 16 + HexValue(h[3])) * 16 + HexValue(h[4])
    IN  IF code >= 2048 THEN <<"E0", code \div 4096, code \div 64 % 64, code % 64>>
        ELSE IF code >= 128 THEN <<"C0", code \div 64, code % 64>>
        ELSE IF code = 27 THEN <<"ESC">> ELSE <<"ASCII", code>>

RECURSIVE Unescape(_)
Unescape(s) ==
    IF s = <<>> THEN <<>>
    ELSE IF s[1] # "\\" THEN <<s[1]>> \o Unescape(Tail(s))
    ELSE IF s[2] = "u" THEN Utf8(SubSeq(s, 3, 6)) \o Unescape(SubSeq(s, 7, Len(s)))
    ELSE <<CASE s[2] = "n" -> "NL" [] s[2] = "t" -> "TAB" [] OTHER -> s[2]>> \o Unescape(SubSeq(s, 3, Len(s)))

StringOf(v) == IF v.escaped THEN Unescape(v.s) ELSE v.s

\* after an item at p: whether the container ends, and where to go on (0: nowhere)
AfterItem(d, p, close) ==
    LET q == Skip(d, p)
    IN  CASE Char(d, q) = close -> <<TRUE, q + 1>>
          [] Char(d, q) = "," -> <<FALSE, Skip(d, q + 1)>>
          [] OTHER -> <<TRUE, 0>>

RECURSIVE DecodeValue(_, _, _), Items(_, _, _, _, _)
Items(d, p, depth, close, kids) ==
    LET key   == DecodeString(d, p)
        colon == Skip(d, key.p)
        item  == IF close = "]" THEN DecodeValue(d, p, depth + 1)
                 ELSE IF Bad(key) \/ Char(d, colon) # ":" THEN Failed
                 ELSE DecodeValue(d, Skip(d, colon + 1), depth + 1)
        more  == Append(kids, [key |-> IF close = "]" THEN <<>> ELSE StringOf(key.v), val |-> item.v])
        next  == AfterItem(d, item.p, close)
        type  == IF close = "]" THEN "list" ELSE "object"
    IN  IF Bad(item) \/ next[2] = 0 THEN Failed
        ELSE IF next[1] THEN Result([NoValue EXCEPT !.t = type, !.kids = more], next[2])
        ELSE Items(d, next[2], depth, close, more)

\* decode_list() and decode_object()
DecodeContainer(d, p, depth, type, close) ==
    LET q == Skip(d, p + 1)
    IN  IF depth > MaxDepth THEN Failed
        ELSE IF Char(d, q) = close THEN Result([NoValue EXCEPT !.t = type], q + 1)
        ELSE Items(d, q, depth, close, <<>>)

DecodeValue(d, p, depth) ==
    CASE Char(d, p) = "[" -> DecodeContainer(d, p, depth + 1, "list", "]")
      [] Char(d, p) = "{" -> DecodeContainer(d, p, depth + 1, "object", "}")
      [] Char(d, p) = "\"" -> DecodeString(d, p)
      [] Char(d, p) \in {"true", "false", "null"} -> Result([NoValue EXCEPT !.t = d[p]], p + 1)
      [] OTHER -> DecodeNumber(d, p)

Load(d) ==
    LET r == DecodeValue(d, Skip(d, 1), 0)
    IN  IF Bad(r) \/ Char(d, Skip(d, r.p)) # "NUL" THEN NoValue ELSE r.v

-----------------------------------------------------------------------------
(* rvalue: the members are sorted when one is first looked up.             *)

Rank(c) == CHOOSE k \in 1 .. Len(Alphabet) : Alphabet[k] = c
Less(k1, k2) ==
    \E n \in 1 .. Len(k2) : /\ \A j \in 1 .. n - 1 : j <= Len(k1) /\ k1[j] = k2[j]
                            /\ n > Len(k1) \/ Rank(k1[n]) < Rank(k2[n])

Sorted(v) == IF v.cached THEN v
             ELSE [v EXCEPT !.kids = SortSeq(@, LAMBDA x, y : Less(x.key, y.key)), !.cached = TRUE]

RECURSIVE LowerBound(_, _, _, _)
LowerBound(kids, first, n, k) ==
    LET half == n \div 2
    IN  IF n = 0 THEN first
        ELSE IF Less(kids[first + half].key, k) THEN LowerBound(kids, first + half + 1, n - half - 1, k)
        ELSE LowerBound(kids, first, half, k)

\* operator[](key): the member, or NoValue where it throws
Member(v, k) ==
    LET kids == Sorted(v).kids
        it   == LowerBound(kids, 1, Len(kids), k)
    IN  IF it <= Len(kids) /\ kids[it].key = k THEN kids[it].val ELSE NoValue

-----------------------------------------------------------------------------
Write(path, x) ==
    /\ text = <<>> /\ writes < MaxWrites
    /\ doc' = Put(doc, path, x)
    /\ writes' = writes + 1
    /\ UNCHANGED <<text, dumped, val>>

\* a member that is read is made, in a const wvalue too
Read(path) ==
    /\ text = <<>> /\ writes < MaxWrites
    /\ doc' = Put(doc, path, At(doc, path))
    /\ writes' = writes + 1
    /\ UNCHANGED <<text, dumped, val>>

Dump(indent, order) ==
    /\ text = <<>>
    /\ text' = DumpInternal(doc, order, indent, 0)
    /\ dumped' = TRUE
    /\ val' = Load(text')
    /\ UNCHANGED <<doc, writes>>

Receive(d) ==
    /\ text = <<>> /\ writes = 0
    /\ text' = d
    /\ val' = Load(d)
    /\ UNCHANGED <<doc, writes, dumped>>

LookUp == /\ val.t = "object" /\ ~val.cached
          /\ val' = Sorted(val)
          /\ UNCHANGED <<doc, writes, text, dumped>>

Init == doc = Blank /\ writes = 0 /\ text = <<>> /\ dumped = FALSE /\ val = NoValue

Next == \/ \E path \in Path : Read(path) \/ \E x \in Scalar : Write(path, x)
        \/ \E indent \in Indent, order \in SetToSeqs(ToSet(Keys)) : Dump(indent, order)
        \/ \E d \in ClientText : Receive(d)
        \/ LookUp

Spec == Init /\ [][Next]_jsonVars

-----------------------------------------------------------------------------
\* the value of a number: before the point, after it without zeros at the end, exponent
NumberValue(s) ==
    LET first(c, otherwise) == IF c \in ToSet(s) THEN CHOOSE k \in 1 .. Len(s) : s[k] = c /\ c \notin ToSet(SubSeq(s, 1, k - 1))
                               ELSE otherwise
        e    == first("e", Len(s) + 1)
        dot  == first(".", e)
        frac == SubSeq(s, dot + 1, e - 1)
        keep == {0} \cup {k \in 1 .. Len(frac) : frac[k] # "0"}
    IN  <<SubSeq(s, 1, dot - 1), SubSeq(frac, 1, CHOOSE k \in keep : \A j \in keep : j <= k), SubSeq(s, e + 1, Len(s))>>

Simple(v) == [t |-> v.t, s |-> IF v.t = "number" THEN NumberValue(v.s) ELSE v.s]

RECURSIVE Same(_, _)
Same(w, v) ==
    CASE w.t = "list" -> /\ v.t = "list" /\ Len(v.kids) = Len(w.l)
                         /\ \A k \in 1 .. Len(w.l) : Same(w.l[k], v.kids[k].val)
      [] w.t = "object" -> /\ v.t = "object" /\ Len(v.kids) = Cardinality(DOMAIN w.o)
                           /\ \A k \in 1 .. Len(v.kids) : /\ v.kids[k].key \in DOMAIN w.o
                                                          /\ Same(w.o[v.kids[k].key], v.kids[k].val)
      [] OTHER -> Simple(w) = Simple([v EXCEPT !.s = StringOf(v)])

\* The grammar: what a text is, from its splits.  A number is one of JSON's,
\* but none begins with 0 and has an exponent, and digits may be missing
\* after the point and after the sign of the exponent.
Number(s) ==
    LET abs == IF s # <<>> /\ s[1] = "-" THEN Tail(s) ELSE s
        e   == IF "e" \in ToSet(abs) THEN CHOOSE k \in 1 .. Len(abs) : abs[k] = "e" ELSE Len(abs) + 1
        dot == IF "." \in ToSet(abs) THEN CHOOSE k \in 1 .. Len(abs) : abs[k] = "." ELSE e
        of(t) == ToSet(t) \subseteq Digits
        exp == SubSeq(abs, e + 1, Len(abs))
    IN  /\ 1 < dot /\ dot <= e
        /\ of(SubSeq(abs, 1, dot - 1)) /\ of(SubSeq(abs, dot + 1, e - 1))
        /\ abs[1] = "0" => dot = 2 /\ (dot = e => e = Len(abs) + 1)
        /\ e <= Len(abs) => exp # <<>> /\ of(IF exp[1] \in {"+", "-"} THEN Tail(exp) ELSE exp)

String(s) == /\ Len(s) > 1 /\ s[1] = "\"" /\ s[Len(s)] = "\""
             /\ StringEnd(s, 2) = Len(s)

RECURSIVE Strip(_)
Strip(s) == IF s # <<>> /\ s[1] \in White THEN Strip(Tail(s))
            ELSE IF s # <<>> /\ s[Len(s)] \in White THEN Strip(SubSeq(s, 1, Len(s) - 1)) ELSE s

RECURSIVE Json(_, _), List(_, _, _)
Json(t, nest) ==
    LET s == Strip(t)
    IN  /\ s # <<>>
        /\ \/ Len(s) = 1 /\ s[1] \in {"true", "false", "null"}
           \/ Number(s)
           \/ String(s)
           \/ /\ nest > 0 /\ Len(s) > 1
              /\ \/ s[1] = "[" /\ s[Len(s)] = "]"
                 \/ s[1] = "{" /\ s[Len(s)] = "}"
              /\ LET inside == SubSeq(s, 2, Len(s) - 1)
                 IN  Strip(inside) = <<>> \/ List(inside, s[1], nest - 1)
\* comma separated values, or members
List(t, open, nest) ==
    LET item(s) == IF open = "[" THEN Json(s, nest)
                   ELSE \E k \in 1 .. Len(s) : s[k] = ":" /\ String(Strip(SubSeq(s, 1, k - 1)))
                                               /\ Json(SubSeq(s, k + 1, Len(s)), nest)
    IN  \/ item(t)
        \/ \E k \in 1 .. Len(t) : t[k] = "," /\ item(SubSeq(t, 1, k - 1)) /\ List(SubSeq(t, k + 1, Len(t)), open, nest)

(* What was dumped is loaded with the same meaning, and each member is     *)
(* found by its key; of a client's text, what is JSON and nested at most   *)
(* half as deep as max_depth is loaded, as depth counts twice per level.   *)
LoadsJson ==
    text # <<>> =>
        IF dumped
        THEN /\ Same(doc, val)
             /\ doc.t = "object" => \A k \in ToSet(Keys) : IF k \in DOMAIN doc.o THEN Same(doc.o[k], Member(val, k))
                                                           ELSE Member(val, k) = NoValue
        ELSE (val # NoValue) = Json(text, (MaxDepth + 1) \div 2)
=============================================================================
