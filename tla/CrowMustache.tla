---------------------------- MODULE CrowMustache ----------------------------
(***************************************************************************)
(* crow/mustache.h: a template is compiled to fragments and actions, and   *)
(* rendered with contexts.  Templates are written from trees, whose        *)
(* meaning is what a page should be.                                       *)
(*                                                                         *)
(* A body is a sequence of characters, where "{{" and "}}" are one each,   *)
(* and places in it are from 1.  A range is [first, second).               *)
(***************************************************************************)
EXTENDS Integers, Sequences, SequencesExt

CONSTANTS Tree,         \* the templates, as sequences of nodes
          Faulty,       \* bodies that are no templates
          Context,      \* the values they are rendered with
          Partials,     \* the bodies of the files, by name
          MaxPages      \* pages rendered of a template at most

VARIABLES tree,         \* the template's tree, or NoTree
          template,     \* template_t
          page,         \* the page rendered last
          context,      \* with what
          pages

mustacheVars == <<tree, template, page, context, pages>>

NoTree == [faulty |-> TRUE, nodes |-> <<>>]
Invalid == [ok |-> FALSE, body |-> <<>>, fragments |-> <<>>, actions |-> <<>>]
NoPage == [ok |-> FALSE, out |-> <<>>]
EmptyString == [t |-> "string", s |-> <<>>, l |-> <<>>, o |-> <<>>]
NullContext == [EmptyString EXCEPT !.t = "null"]

Spaces(n) == [k \in 1 .. n |-> " "]

\* the first place of pattern in body from p on, or 0
Find(body, pattern, p) ==
    LET found == {k \in p .. Len(body) - Len(pattern) + 1 : SubSeq(body, k, k + Len(pattern) - 1) = pattern}
    IN  IF found = {} THEN 0 ELSE CHOOSE k \in found : \A j \in found : k <= j

RECURSIVE SkipSpaces(_, _), BackSpaces(_, _)
SkipSpaces(body, p) == IF body[p] = " " THEN SkipSpaces(body, p + 1) ELSE p
BackSpaces(body, p) == IF body[p - 1] = " " THEN BackSpaces(body, p - 1) ELSE p

-----------------------------------------------------------------------------
(* parse()                                                                 *)

Action(t, start, end, pos) == [t |-> t, start |-> start, end |-> end, pos |-> pos]
Name(body, a) == SubSeq(body, a.start, a.end - 1)

ByChar == [c \in {"#", "^", "/", ">", "{", "&"} |->
             CASE c = "#" -> "OpenBlock" [] c = "^" -> "ElseBlock" [] c = "/" -> "CloseBlock"
               [] c = ">" -> "Partial" [] OTHER -> "UnescapeTag"]

Start == [at |-> 1, open |-> <<"{{">>, close |-> <<"}}">>, fragments |-> <<>>, actions |-> <<>>, blocks |-> <<>>, ok |-> TRUE]

\* {{=open close=}}
Delimiters(body, st, idx, end) ==
    LET set(open, close) ==
            [st EXCEPT !.open = open, !.close = close,
                       !.ok = open # <<>> /\ close # <<>> /\ ~Contains(close, " "),
                       !.actions = Append(@, Action("Ignore", idx, end, 0))]
        cut(from, to, gap) ==
            IF body[end - 1] # "=" \/ gap = 0 THEN [st EXCEPT !.ok = FALSE]
            ELSE set(SubSeq(body, from, gap - 1), SubSeq(body, SkipSpaces(body, gap), to - 1))
        within(from, to) == cut(from, to, Find(SubSeq(body, 1, to - 1), <<" ">>, from))
    IN  within(SkipSpaces(body, idx), BackSpaces(body, end - 1))

CloseBlock(body, st, a) ==
    LET open == Last(st.blocks)
    IN  IF st.blocks = <<>> THEN [st EXCEPT !.ok = FALSE]
        ELSE IF Name(body, st.actions[open]) # Name(body, a) THEN [st EXCEPT !.ok = FALSE]
        ELSE [st EXCEPT !.actions = Append([@ EXCEPT ![open].pos = Len(st.actions) + 1], [a EXCEPT !.pos = open]),
                        !.blocks = Front(@)]

\* the tag whose text is body[idx .. end - 1]
Tag(body, st, idx, end) ==
    LET c     == body[idx]
        start == SkipSpaces(body, IF c \in DOMAIN ByChar THEN idx + 1 ELSE idx)
        a     == Action(IF c \in DOMAIN ByChar THEN ByChar[c] ELSE "Tag", start, BackSpaces(body, end), 0)
        more  == [st EXCEPT !.actions = Append(@, a)]
    IN  CASE c = "!" -> [st EXCEPT !.actions = Append(@, Action("Ignore", idx + 1, end, 0))]
          [] c = "=" -> Delimiters(body, st, idx + 1, end)
          [] c = "/" -> CloseBlock(body, st, a)
          [] c \in {"#", "^"} -> [more EXCEPT !.blocks = Append(@, Len(more.actions))]
          [] c = "{" -> [more EXCEPT !.at = @ + 1,
                              !.ok = st.open = <<"{{">> /\ st.close = <<"}}">> /\ end < Len(body) /\ body[end + 1] = "}"]
          [] OTHER -> more

RECURSIVE Tags(_, _)
Tags(body, st) ==
    LET found(idx, end) == [st EXCEPT !.fragments = Append(@, <<st.at, idx>>), !.at = end + Len(st.close)]
        tag(idx, end) ==
            IF end \in {0, idx + Len(st.open)} THEN [st EXCEPT !.ok = FALSE]
            ELSE Tags(body, Tag(body, found(idx, end), idx + Len(st.open), end))
        next(idx) ==
            IF idx = 0
            THEN [st EXCEPT !.fragments = Append(@, <<st.at, Len(body) + 1>>), !.actions = Append(@, Action("Ignore", 1, 1, 0))]
            ELSE tag(idx, Find(body, st.close, idx + Len(st.open)))
    IN  IF st.ok THEN next(Find(body, st.open, st.at)) ELSE st

\* a tag that is alone in its line takes the line with it
Standalone(body, T, i) ==
    LET before == T.fragments[i]
        after  == T.fragments[i + 1]
        other(range) == {k \in range[1] .. range[2] - 1 : body[k] # " "}
        j == CHOOSE k \in other(before) : \A m \in other(before) : m <= k
        k == CHOOSE m \in other(after) : \A n \in other(after) : m <= n
        start == IF other(before) = {} THEN i = 1 ELSE body[j] = "NL"
        stop  == IF other(after) = {} THEN i = Len(T.actions) - 1
                 ELSE body[k] = "NL" \/ (body[k] = "CR" /\ k < Len(body) /\ body[k + 1] = "NL")
        from  == IF other(before) = {} THEN before[1] ELSE j + 1
    IN  IF T.actions[i].t \in {"Tag", "UnescapeTag"} \/ ~start \/ ~stop THEN T
        ELSE [T EXCEPT !.actions[i].pos = IF T.actions[i].t = "Partial" THEN before[2] - from ELSE @,
                       !.fragments[i][2] = from,
                       !.fragments[i + 1][1] = IF other(after) = {} THEN @ ELSE IF body[k] = "NL" THEN k + 1 ELSE k + 2]

Parse(body) ==
    LET compiled(st) ==
            IF ~st.ok \/ st.blocks # <<>> THEN Invalid
            ELSE FoldRight(LAMBDA i, acc : Standalone(body, acc, i), [i \in 1 .. Len(st.actions) - 1 |-> i],
                           [ok |-> TRUE, body |-> body, fragments |-> st.fragments, actions |-> st.actions])
    IN  compiled(Tags(body, Start))

-----------------------------------------------------------------------------
(* render()                                                                *)

EscapeHtml(s) == FlattenSeq([k \in 1 .. Len(s) |->
                    IF s[k] \in {"&", "<", ">", "\"", "'", "/", "BACKTICK", "="} THEN <<"&", s[k], ";">> ELSE <<s[k]>>])

\* the part of a dotted name before the first dot, and the rest
Dot(name) == Find(name, <<".">>, 1)

RECURSIVE Walk(_, _)
Walk(v, name) ==
    LET part == IF Dot(name) = 0 THEN name ELSE SubSeq(name, 1, Dot(name) - 1)
    IN  IF v.t # "object" \/ part \notin DOMAIN v.o THEN <<>>
        ELSE IF Dot(name) = 0 THEN <<v.o[part]>>
        ELSE Walk(v.o[part], SubSeq(name, Dot(name) + 1, Len(name)))

\* find_context(): the value in a sequence of one, or none
FindContext(name, stack, onlyFirst) ==
    LET frames == IF onlyFirst /\ Dot(name) # 0 THEN {Len(stack)} ELSE 1 .. Len(stack)
        found  == {k \in frames : Walk(stack[k], name) # <<>>}
    IN  IF name = <<".">> THEN <<Last(stack)>>
        ELSE IF found = {} THEN <<>>
        ELSE Walk(stack[CHOOSE k \in found : \A j \in found : j <= k], name)

RECURSIVE InsideObjectBlock(_, _, _, _)
InsideObjectBlock(actions, i, opened, stack) ==
    IF i = 0 THEN FALSE
    ELSE CASE actions[i].t = "OpenBlock" ->
                 (opened = 0 /\ Last(stack).t = "object") \/ InsideObjectBlock(actions, i - 1, opened - 1, stack)
           [] actions[i].t = "CloseBlock" -> InsideObjectBlock(actions, i - 1, opened + 1, stack)
           [] OTHER -> InsideObjectBlock(actions, i - 1, opened, stack)

Fragment(T, i, indent) ==
    LET range == T.fragments[i]
    IN  FlattenSeq([n \in 1 .. range[2] - range[1] |->
            LET k == range[1] + n - 1
            IN  IF T.body[k] = "NL" /\ k # Len(T.body) THEN <<"NL">> \o Spaces(indent) ELSE <<T.body[k]>>])

\* Rendering goes on with what was printed and the stack, or has thrown.
State(out, stack, at) == [ok |-> TRUE, out |-> out, stack |-> stack, at |-> at]
Thrown == [ok |-> FALSE, out |-> <<>>, stack |-> <<>>, at |-> 0]

RECURSIVE RenderInternal(_, _, _, _, _, _), Render(_, _, _, _, _), Elements(_, _, _, _, _, _, _), RenderTag(_, _, _, _), Execute(_, _)

\* a function's text, rendered until it has no tags
Execute(s, ctx) ==
    LET again(r) == IF r.ok THEN Execute(r.out, ctx) ELSE Thrown
        run(T) == again(IF T.ok THEN RenderInternal(T, 1, Len(T.fragments), <<ctx>>, <<>>, 0) ELSE Thrown)
    IN  IF Contains(s, "{{") THEN run(Parse(s)) ELSE State(s, <<>>, 0)

RenderTag(T, a, at, stack) ==
    LET printed(v, run) ==
            IF v.t \in {"list", "object", "null"} \/ ~run.ok THEN Thrown
            ELSE State(IF a.t = "Tag" /\ v.t \in {"string", "function"} THEN EscapeHtml(run.out) ELSE run.out, <<>>, 0)
        shown(v) == printed(v, IF v.t = "function" THEN Execute(v.s, stack[1]) ELSE State(v.s, <<>>, 0))
        valued(found) == shown(IF found = <<>> THEN EmptyString ELSE found[1])
    IN  valued(FindContext(Name(T.body, a), stack, InsideObjectBlock(T.actions, at - 1, 0, stack)))

\* the elements of a list, each with a run of its own through the section
Elements(T, l, from, to, stack, out, indent) ==
    IF l = <<>> THEN State(out, stack, to)
    ELSE LET others(r) == IF r.ok THEN Elements(T, Tail(l), from, to, stack, r.out, indent) ELSE Thrown
         IN  others(RenderInternal(T, from, to, Append(stack, Head(l)), out, indent))

\* a mutant of IsEmpty: as in other languages
IsEmptyText(v) == v.t \in {"false", "null"} \/ (v.t = "list" /\ v.l = <<>>) \/ (v.t = "string" /\ v.s = <<>>)

IsEmpty(v) == v.t \in {"false", "null"} \/ (v.t = "list" /\ v.l = <<>>)

\* the action at a place, after what was printed; at is the last place done
Render(T, at, stack, out, indent) ==
    LET a     == T.actions[at]
        found == FindContext(Name(T.body, a), stack, FALSE)
        empty == IF found = <<>> THEN TRUE ELSE IsEmpty(found[1])
        partial(P) ==
            IF ~P.ok THEN Thrown
            ELSE [RenderInternal(P, 1, Len(P.fragments), stack, out, IF a.pos = 0 THEN 0 ELSE indent + a.pos) EXCEPT !.at = at]
        after(tag) == IF tag.ok THEN State(out \o tag.out, stack, at) ELSE Thrown
    IN  CASE a.t = "Partial" ->
               partial(Parse(IF Name(T.body, a) \in DOMAIN Partials THEN Partials[Name(T.body, a)] ELSE <<>>))
          [] a.t \in {"Tag", "UnescapeTag"} -> after(RenderTag(T, a, at, stack))
          [] a.t = "ElseBlock" ->
               IF empty THEN State(out, Append(stack, NullContext), at) ELSE State(out, stack, a.pos)
          [] a.t = "OpenBlock" ->
               IF empty THEN State(out, stack, a.pos)
               ELSE IF found[1].t = "list" THEN Elements(T, found[1].l, at + 1, a.pos, stack, out, indent)
               ELSE IF found[1].t = "function" THEN Thrown
               ELSE State(out, Append(stack, found[1]), at)
          [] a.t = "CloseBlock" -> State(out, Front(stack), at)
          [] OTHER -> State(out, stack, at)

RenderInternal(T, from, to, stack, out, indent) ==
    LET Loop[n \in 0 .. to - from] ==
            IF n = 0 THEN State(out \o Spaces(indent), stack, from - 1)
            ELSE LET goOn(st, at) ==
                        IF ~st.ok \/ st.at >= at THEN st
                        ELSE Render(T, at, st.stack, st.out \o Fragment(T, at, indent), indent)
                 IN  goOn(Loop[n - 1], from + n - 1)
        ended(end) == IF end.ok THEN [end EXCEPT !.out = @ \o Fragment(T, to, indent)] ELSE Thrown
    IN  ended(Loop[to - from])

-----------------------------------------------------------------------------
(* Trees.  A node on a line of its own is written with the line's spaces   *)
(* and its end, which a page does not show.                                *)

RECURSIVE Written(_)
Written(nodes) ==
    LET tag(n, c, name) == IF n.own THEN Spaces(n.spaces) \o <<"{{", c>> \o name \o <<"}}", "NL">>
                           ELSE <<"{{", c, " ">> \o name \o <<" ", "}}">>
        one(n) == CASE n.k = "text" -> n.s
                    [] n.k = "var" -> <<"{{">> \o n.name \o <<"}}">>
                    [] n.k = "raw" -> <<"{{", "{">> \o n.name \o <<"}}", "}">>
                    [] n.k = "delims" -> <<"{{", "=", "<%", " ", "%>", "=", "}}", "<%", "&">> \o n.name
                                         \o <<"%>", "<%", "=", "{{", " ", "}}", "=", "%>">>
                    [] n.k \in {"#", "^"} -> tag(n, n.k, n.name) \o Written(n.kids) \o tag(n, "/", n.name)
                    [] OTHER -> tag(n, n.k, n.name)
    IN  FlattenSeq([k \in 1 .. Len(nodes) |-> one(nodes[k])])

\* A dotted name within a section of an object is looked up there alone.
Value(name, stack, inside) ==
    LET found == FindContext(name, stack, inside /\ Last(stack).t = "object")
    IN  IF found = <<>> THEN EmptyString ELSE found[1]

\* the lines of a partial, each after the spaces before its tag
Indented(s, n) == Spaces(n) \o FlattenSeq([k \in 1 .. Len(s) |->
                     IF s[k] = "NL" /\ k < Len(s) THEN <<"NL">> \o Spaces(n) ELSE <<s[k]>>])

\* the page, as a set: empty when there is none
\* what a section goes through for a value, given as by FindContext
Items(found) ==
    IF found = <<>> \/ found[1].t \in {"false", "null"} THEN <<>>
    ELSE IF found[1].t = "list" THEN found[1].l ELSE found

\* a tag's text for its value: that of a function is rendered in the first frame
Shown(n, v, frame) ==
    LET text(s) == {IF n.k = "var" /\ v.t \in {"string", "function"} THEN EscapeHtml(s) ELSE s}
    IN  IF v.t \in {"list", "object", "null"} THEN {}
        ELSE text(IF v.t = "function" /\ Contains(v.s, "{{") THEN EscapeHtml(frame.o[<<v.s[2]>>].s) ELSE v.s)

RECURSIVE Meaning(_, _, _)
Meaning(nodes, stack, inside) ==
    LET all(parts) == FoldLeft(LAMBDA acc, p : {x \o y : x \in acc, y \in p}, {<<>>}, parts)
        section(n, items) ==
            CASE n.k = "^" -> IF items = <<>> THEN Meaning(n.kids, Append(stack, NullContext), inside) ELSE {<<>>}
              [] n.k = "#" /\ items # <<>> /\ items[1].t = "function" -> {}
              [] OTHER -> all([k \in 1 .. Len(items) |-> Meaning(n.kids, Append(stack, items[k]), TRUE)])
        one(n) == CASE n.k = "text" -> {n.s}
                    [] n.k \in {"var", "raw", "delims"} -> Shown(n, Value(n.name, stack, inside), stack[1])
                    [] n.k \in {"#", "^"} -> section(n, Items(FindContext(n.name, stack, FALSE)))
                    [] n.k = ">" -> {IF n.own /\ n.spaces > 0 THEN Indented(Partials[n.name], n.spaces) ELSE Partials[n.name]}
                    [] OTHER -> {<<>>}
    IN  all([k \in 1 .. Len(nodes) |-> one(nodes[k])])

-----------------------------------------------------------------------------
Init ==
    /\ \/ \E nodes \in Tree : tree = [faulty |-> FALSE, nodes |-> nodes] /\ template = Parse(Written(nodes))
       \/ \E body \in Faulty : tree = NoTree /\ template = Parse(body)
    /\ page = NoPage /\ context = NullContext /\ pages = 0

RenderPage(ctx) ==
    /\ template.ok /\ pages < MaxPages
    /\ LET r == RenderInternal(template, 1, Len(template.fragments), <<ctx>>, <<>>, 0)
       IN  page' = [ok |-> r.ok, out |-> r.out]
    /\ context' = ctx
    /\ pages' = pages + 1
    /\ UNCHANGED <<tree, template>>

Next == \E ctx \in Context : RenderPage(ctx)

Spec == Init /\ [][Next]_mustacheVars

-----------------------------------------------------------------------------
(* A page is what its template's tree means for the context, and there is  *)
(* none where the value of a tag is a list, an object or null, or that of  *)
(* a section a function; a body with a fault is not compiled.              *)
PageIsMeaning ==
    /\ template.ok = ~tree.faulty
    /\ pages > 0 => LET meant == Meaning(tree.nodes, <<context>>, FALSE)
                    IN  page.ok = (meant # {}) /\ (page.ok => page.out \in meant)
=============================================================================
