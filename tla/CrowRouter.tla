----------------------------- MODULE CrowRouter -----------------------------
(***************************************************************************)
(* crow/routing.h and middleware.h: the rules of an application and of its *)
(* blueprints become a trie per method, and requests are routed by it.     *)
(*                                                                         *)
(* A character of a url is one symbol, and so is a parameter of a rule's   *)
(* pattern.  A blueprint comes with its children and with the prefix and   *)
(* the patterns that register_blueprint gave it.  Indices are from 0 as in *)
(* the code: the rules of a method begin with two that are reserved.       *)
(***************************************************************************)
EXTENDS Integers, Sequences, FiniteSets, SequencesExt

CONSTANTS App,          \* applications: records bps, rules, later, catchall
          Url,          \* the urls requested, query strings cut off
          Middleware,   \* the indices of the local middlewares, 1 .. n
          GlobalMw      \* those that are called for every request

VARIABLES app,          \* the application
          methods,      \* per_methods_: rules and trie
          phase,        \* "new", "running" or "failed", when validate() has thrown
          late,         \* a rule was added to a trie that was optimized
          answer        \* what became of the last request

routerVars == <<app, methods, phase, late, answer>>

Method == {"GET", "POST", "HEAD", "OPTIONS"}    \* get_methods() of a rule has GET or POST
Params == {"<int>", "<uint>", "<str>", "<path>"}
Digits == {"1", "2"}
NoBp == -1

Node == [rule |-> 0, bp |-> NoBp, key |-> <<>>, param |-> "", children |-> <<>>]

NoAnswer == [method |-> "", url |-> <<>>, code |-> 0, rule |-> 0, params |-> <<>>, by |-> {}, log |-> <<>>, ends |-> 0, acts |-> <<>>]

-----------------------------------------------------------------------------
(* The trie.                                                               *)

IsSimpleNode(n) ==
    /\ n.rule = 0 /\ n.bp = NoBp /\ n.param = ""
    /\ Len(n.children) < 2
    /\ \A k \in 1 .. Len(n.children) : n.children[k].param = ""

(* optimizeNode(): a chain of nodes becomes one with a longer key.         *)
RECURSIVE OptimizeNode(_)
OptimizeNode(n) ==
    IF n.children = <<>> THEN n
    ELSE IF IsSimpleNode(n)
         THEN OptimizeNode([n.children[1] EXCEPT !.key = n.key \o @])
    ELSE [n EXCEPT !.children = [k \in 1 .. Len(@) |-> OptimizeNode(@[k])]]

Optimize(head) == [head EXCEPT !.children = [k \in 1 .. Len(@) |-> OptimizeNode(@[k])]]

\* the child that add() goes to: by its parameter, or the first character of its key
ChildFor(n, c) ==
    SelectInSeq(n.children, LAMBDA x : IF c \in Params THEN x.param = c
                                       ELSE x.param = "" /\ x.key[1] = c)

\* a mutant of BpAt: at the character before the prefix ends
BpAtEarly(bp, i) == IF bp.length > 0 /\ i = bp.length THEN bp.index ELSE NoBp

\* the blueprint index of a new node for character i, the "/" before the prefix being the first
BpAt(bp, i) == IF bp.length > 0 /\ i = bp.length + 1 THEN bp.index ELSE NoBp

(* add(), which believes that keys have one character. A blueprint's index *)
(* goes to the node its prefix ends at, if no rule has made that before.   *)
RECURSIVE AddAt(_, _, _, _, _)
AddAt(n, url, i, rule, bp) ==
    IF i > Len(url) THEN [n EXCEPT !.rule = rule]
    ELSE LET c == url[i]
             k == ChildFor(n, c)
             new == IF c \in Params THEN [Node EXCEPT !.param = c]
                    ELSE [Node EXCEPT !.key = <<c>>, !.bp = BpAt(bp, i)]
         IN  IF k > 0 THEN [n EXCEPT !.children[k] = AddAt(@, url, i + 1, rule, bp)]
             ELSE [n EXCEPT !.children = Append(@, AddAt(new, url, i + 1, rule, bp))]

RECURSIVE RuleAt(_, _, _)
RuleAt(n, url, i) ==
    IF i > Len(url) THEN n.rule
    ELSE LET k == ChildFor(n, url[i]) IN IF k = 0 THEN 0 ELSE RuleAt(n.children[k], url, i + 1)

\* how many characters a parameter takes from the url behind position pos; 0 if none
Run(url, pos, S) ==
    LET stops == {i \in pos + 1 .. Len(url) : url[i] \notin S}
    IN  (IF stops = {} THEN Len(url) + 1 ELSE CHOOSE i \in stops : \A j \in stops : i <= j) - pos - 1

Numeral(url, pos, signs) ==
    LET sign == IF url[pos + 1] \in signs THEN 1 ELSE 0
        n == Run(url, pos + sign, Digits)
    IN  IF n = 0 THEN 0 ELSE sign + n

Taken(param, url, pos) ==
    CASE param = "<int>" -> Numeral(url, pos, {"+", "-"})
      [] param = "<uint>" -> Numeral(url, pos, {"+"})
      [] param = "<str>" -> Run(url, pos, {url[i] : i \in 1 .. Len(url)} \ {"/"})
      [] param = "<path>" -> Len(url) - pos

(* find(): the rule with the lowest index of all that match. The list of   *)
(* blueprints is shared by the calls: each pops it after its children,     *)
(* whether or not it pushed, and whoever takes it leaves it empty.         *)
\* a mutant of Better: the rule found last is taken
BetterLast(old, new) == new # 0

Better(old, new) == new # 0 /\ (old = 0 \/ old > new)

Pop(stack) == IF stack = <<>> THEN stack ELSE Front(stack)

\* what was found so far, and then behind one more child
Joined(f, ret) ==
    LET better == Better(f.rule, ret.rule)
    IN  [rule |-> IF better THEN ret.rule ELSE f.rule,
         params |-> IF better THEN ret.params ELSE f.params,
         bps |-> ret.bps, stack |-> Pop(ret.stack), frag |-> TRUE]

\* a child takes size characters of the url: as many as its parameter, or its key
Fits(x, url, pos, size) ==
    /\ size > 0 /\ pos + size <= Len(url)
    /\ x.param = "" => SubSeq(url, pos + 1, pos + size) = x.key

RECURSIVE Find(_, _, _, _, _)
Find(url, n, pos, params, stack) ==
    LET none == [rule |-> 0, bps |-> <<>>, params |-> <<>>, stack |-> stack, frag |-> FALSE]
        down(f, x, size) ==
            IF ~Fits(x, url, pos, size) THEN f
            ELSE Joined(f, Find(url, x, pos + size,
                                IF x.param = "" THEN params
                                ELSE Append(params, <<x.param, SubSeq(url, pos + 1, pos + size)>>),
                                IF x.bp = NoBp THEN f.stack ELSE Append(f.stack, x.bp)))
        try(f, x) == down(f, x, IF x.param # "" THEN Taken(x.param, url, pos) ELSE Len(x.key))
        taken(end) == IF end.frag THEN end ELSE [end EXCEPT !.bps = stack, !.stack = <<>>]
    IN  IF pos = Len(url) THEN [rule |-> n.rule, bps |-> <<>>, params |-> params, stack |-> <<>>, frag |-> TRUE]
        ELSE taken(FoldLeft(try, none, n.children))

FindRule(m, url) == Find(url, methods[m].trie, 0, <<>>, <<>>)

-----------------------------------------------------------------------------
(* Building the tries. pm is per_methods_, with a flag for what was thrown.*)

NoBlueprint == [length |-> 0, index |-> NoBp]

TrieAdd(pm, m, url, rule, bp) ==
    IF RuleAt(pm.m[m].trie, url, 1) # 0 THEN [pm EXCEPT !.thrown = TRUE]
    ELSE [pm EXCEPT !.m[m].trie = AddAt(@, url, 1, rule, bp)]

\* a rule that ends in a slash takes the url without it as well, to redirect it
AddRule(pm, r, bp) ==
    LET add(p, m) ==
            LET q == TrieAdd([p EXCEPT !.m[m].rules = Append(@, r)], m, r.pattern,
                             Len(p.m[m].rules), bp)
            IN  IF Len(r.pattern) > 1 /\ Last(r.pattern) = "/"
                THEN TrieAdd(q, m, Front(r.pattern), 1, bp) ELSE q
    IN  FoldLeft(add, pm, r.methods)

\* get_recursive_child_methods()
RECURSIVE ChildMethods(_)
ChildMethods(b) ==
    (IF ~b.static /\ b.rules = <<>> THEN UNION {ChildMethods(b.children[k]) : k \in DOMAIN b.children}
     ELSE IF b.static THEN {"GET"} ELSE {})
        \cup UNION {ToSet(b.rules[k].methods) : k \in DOMAIN b.rules}

(* validate_bp(): depth first, the blueprint's own rules before those of   *)
(* its children, each with the middlewares of the blueprints around it. A  *)
(* blueprint of neither rules nor files leaves its prefix in the trie.     *)
RECURSIVE ValidateBp(_, _, _)
ValidateBp(pm, bps, mw) ==
    LET one(p, i) ==
            LET b == bps[i]
                bare == IF b.static \/ b.rules # <<>> THEN {} ELSE ChildMethods(b)
                p1 == FoldLeft(LAMBDA q, m : TrieAdd(q, m, b.prefix, 0, NoBlueprint), p, SetToSeq(bare))
                p2 == FoldLeft(LAMBDA q, r : AddRule(q, [r EXCEPT !.mw = @ \cup mw \cup b.mw],
                                                     [length |-> Len(b.prefix), index |-> i - 1]),
                               p1, b.rules)
            IN  ValidateBp(p2, b.children, mw \cup b.mw)
    IN  FoldLeft(one, pm, [i \in 1 .. Len(bps) |-> i])

Becomes(pm) ==
    LET throws == pm.thrown \/ \E m \in Method : ~IsSimpleNode(pm.m[m].trie)
    IN  /\ phase' = IF throws THEN "failed" ELSE "running"
        /\ methods' = [m \in Method |-> [pm.m[m] EXCEPT !.trie = Optimize(@)]]

Init ==
    /\ app \in App
    /\ methods = [m \in Method |-> [rules |-> <<0, 0>>, trie |-> Node]]
    /\ phase = "new"
    /\ late = FALSE
    /\ answer = NoAnswer

\* App::run() or validate(): the blueprints' rules, then the application's
Validate ==
    /\ phase = "new"
    /\ Becomes(FoldLeft(LAMBDA p, r : AddRule(p, r, NoBlueprint),
                        ValidateBp([m |-> methods, thrown |-> FALSE], app.bps, {}), app.rules))
    /\ UNCHANGED <<app, late, answer>>

\* a route that is added when the application was validated, and validate() again
ValidateAgain ==
    /\ phase = "running" /\ ~late /\ app.later # <<>>
    /\ Becomes(FoldLeft(LAMBDA p, r : AddRule(p, r, NoBlueprint),
                        [m |-> methods, thrown |-> FALSE], app.later))
    /\ late' = TRUE
    /\ answer' = NoAnswer
    /\ UNCHANGED app

-----------------------------------------------------------------------------
(* A url that no rule matches.                                             *)

StartsWith(s, t) == IsPrefix(t, s)

(* get_found_bp(): from indices along the path to the blueprints; an index *)
(* that is none of the last one's children is taken for one of the list    *)
(* above. Outside of a list it is not defined.                             *)
RECURSIVE FoundBp(_, _, _, _)
FoundBp(is, bps, found, index) ==
    IF index >= Len(is) THEN found
    ELSE LET i == is[index + 1]
             child == /\ index > 0 /\ i < Len(bps)
                      /\ StartsWith(bps[i + 1].prefix, Append(found[index].prefix, "/"))
             next == IF child THEN Append(found, bps[i + 1])
                     ELSE IF Len(found) < 2 THEN <<app.bps[i + 1]>>
                     ELSE Append(Front(found), Last(Front(found)).children[i + 1])
         IN  FoundBp(is, Last(next).children, next, index + 1)

\* get_error(): the innermost catch-all rule, but not that of the first blueprint, or the router's
CatchAll(bps) ==
    LET found == FoundBp(bps, app.bps, <<>>, 0)
        inner == SelectSeq(Tail(<<0>> \o [k \in 1 .. Len(found) |-> k]), LAMBDA k : k > 1 /\ found[k].catchall)
    IN  IF inner # <<>> THEN {found[Last(inner)].prefix} ELSE IF app.catchall THEN {<<>>} ELSE {}

Matches(m, url) == FindRule(m, url).rule # 0

\* HEAD is answered as GET if it has no rule of its own
Actual(m, url) == IF m = "HEAD" /\ ~Matches(m, url) THEN "GET" ELSE m

(* handle_initial(): the answer code, or the rule for handle(), given the  *)
(* actual method and what find() says of it.                               *)
HandleInitial(m, url, actual, found) ==
    LET answered(code, by) == [code |-> code, rule |-> 0, params |-> <<>>, by |-> by, method |-> actual]
        options(allow) == IF allow = {} THEN answered(404, {}) ELSE answered(204, allow \ {"HEAD"})
    IN  CASE m = "OPTIONS" /\ url = <<"/", "*">> ->
                answered(204, {x \in Method \ {"HEAD"} : methods[x].trie.children # <<>>})
          [] m = "OPTIONS" /\ url # <<"/", "*">> -> options({x \in Method : Matches(x, url)})
          [] m # "OPTIONS" /\ found.rule # 0 ->
                [code |-> 200, rule |-> found.rule, params |-> found.params, by |-> {}, method |-> actual]
          [] m = "HEAD" /\ found.rule = 0 -> answered(404, {})
          [] m \notin {"OPTIONS", "HEAD"} /\ found.rule = 0 ->
                answered(IF \E x \in Method : Matches(x, url) THEN 405 ELSE 404, CatchAll(found.bps))

-----------------------------------------------------------------------------
(* The middlewares. acts tells what each one's before_handle and, as 0,    *)
(* the rule's handler does: go on, end the response, or throw.             *)

Sorted(S) == SetToSortSeq(S, <)
\* a mutant of After: the first one is called first
AfterInOrder(mws) == [k \in 1 .. Len(mws) |-> <<"after", mws[k]>>]

After(mws) == [k \in 1 .. Len(mws) |-> <<"after", Reverse(mws)[k]>>]
Before(mws) == [k \in 1 .. Len(mws) |-> <<"before", mws[k]>>]

\* those whose before_handle is called: up to the first that does not go on
Ran(mws, acts) ==
    LET stop == SelectInSeq(mws, LAMBDA x : acts[x] # "pass")
    IN  IF stop = 0 THEN mws ELSE SubSeq(mws, 1, stop)

(* handle_rule(), under Router::handle(), which catches what is thrown and *)
(* ends the response. While a local middleware runs, end() does nothing.   *)
HandleRule(mw, acts) ==
    LET mws == Sorted(mw)
        ran == Ran(mws, acts)
        stopped == Len(ran) > 0 /\ acts[Last(ran)] # "pass"
        before == Before(Ran(mws, [acts EXCEPT ![0] = "pass"]))
    IN  IF stopped
        THEN IF acts[Last(ran)] = "throw" THEN [log |-> Before(ran), ends |-> 0]
             ELSE [log |-> Before(ran) \o After(ran), ends |-> 1]
        ELSE [log |-> before \o <<<<"handle", 0>>>> \o After(mws), ends |-> 1]

(* Connection::handle() and complete_request() around it: the middlewares  *)
(* for every request, which do not throw here.                             *)
Through(r) ==
    \E acts \in [0 .. Cardinality(Middleware \cup GlobalMw) -> {"pass", "end", "throw"}] :
        /\ acts[0] # "pass"
        /\ \A x \in DOMAIN acts \ {0} : x \notin r.rule.mw \cup GlobalMw => acts[x] = "pass"
        /\ \A x \in GlobalMw : acts[x] # "throw"
        /\ LET glob == Sorted(GlobalMw)
               ran == Ran(glob, acts)
               stopped == Len(ran) > 0 /\ acts[Last(ran)] = "end"
               inner == IF r.code = 301 THEN [log |-> <<>>, ends |-> 1] ELSE HandleRule(r.rule.mw, acts)
           IN  answer' = [r EXCEPT !.acts = acts,
                    !.log = IF stopped THEN Before(ran) \o After(ran)
                            ELSE Before(glob) \o inner.log \o IF inner.ends = 0 THEN <<>> ELSE After(glob),
                    !.ends = IF stopped THEN 1 ELSE inner.ends]

\* what is known of a request when its url was read; rule 1 redirects to the url with a slash
Routed(m, url, f) ==
    [NoAnswer EXCEPT !.method = m, !.url = url, !.by = f.by, !.params = f.params,
        !.code = IF f.rule = 1 THEN 301 ELSE f.code,
        !.ends = IF f.rule = 0 THEN 1 ELSE 0,
        !.rule = IF f.rule > 1 THEN methods[f.method].rules[f.rule + 1] ELSE [mw |-> {}]]

(* A request: routed when its url is known, and handled when it is read if *)
(* there is a rule. It leaves the router as it was, so that one for each   *)
(* state of the router is enough.                                          *)
Request ==
    /\ phase = "running" /\ answer.code = 0
    /\ \E m \in Method, url \in Url :
          LET handled(r) == IF r.ends = 1 THEN answer' = r ELSE Through(r)
              routed(actual) ==
                  handled(Routed(m, url, HandleInitial(m, url, actual, FindRule(actual, url))))
          IN  routed(Actual(m, url))
    /\ UNCHANGED <<app, methods, phase, late>>

Next == Validate \/ ValidateAgain \/ Request
Spec == Init /\ [][Next]_routerVars

-----------------------------------------------------------------------------
(* Properties.                                                             *)

\* what a pattern takes of a url, read off the two, from the left
RECURSIVE Reads(_, _)
Reads(pattern, url) ==
    IF pattern = <<>> \/ url = <<>> THEN {<<>> : x \in {y \in {1} : pattern = url}}
    ELSE LET c == Head(pattern)
             size == IF c \in Params THEN Taken(c, url, 0) ELSE IF url[1] = c THEN 1 ELSE 0
             rest == IF size = 0 THEN {} ELSE Reads(Tail(pattern), SubSeq(url, size + 1, Len(url)))
         IN  IF c \in Params THEN {<<<<c, SubSeq(url, 1, size)>>>> \o x : x \in rest} ELSE rest

\* the rules of a method in the order of their indices, and where the url without the slash leads
RECURSIVE BpRules(_, _)
BpRules(bps, mw) ==
    FlattenSeq([i \in 1 .. Len(bps) |->
        [k \in 1 .. Len(bps[i].rules) |-> [bps[i].rules[k] EXCEPT !.mw = @ \cup mw \cup bps[i].mw]]
            \o BpRules(bps[i].children, mw \cup bps[i].mw)])
AllRules == BpRules(app.bps, {}) \o app.rules \o IF late THEN app.later ELSE <<>>
RulesOf(m) == SelectSeq(AllRules, LAMBDA r : m \in ToSet(r.methods))
Slashed(m, url) == \E k \in 1 .. Len(RulesOf(m)) :
    LET p == RulesOf(m)[k].pattern IN Len(p) > 1 /\ Last(p) = "/" /\ Reads(Front(p), url) # {}
FirstOf(m, url) == SelectInSeq(RulesOf(m), LAMBDA r : Reads(r.pattern, url) # {})
Known(m, url) == Slashed(m, url) \/ FirstOf(m, url) # 0

(* A request goes to the rule a reader of the program expects, with the    *)
(* parameters of that rule: the first registered for its method that       *)
(* matches, wherever a trie shares and joins their characters; a redirect  *)
(* before all of them; 405 and 404 where no rule of the method, and none   *)
(* of any, matches; and OPTIONS gets the methods that have one.            *)
RoutedByRules ==
    answer.code # 0 /\ ~late =>
      LET m == IF answer.method = "HEAD" /\ ~Known("HEAD", answer.url) THEN "GET" ELSE answer.method
          url == answer.url
      IN  CASE m = "OPTIONS" /\ url = <<"/", "*">> -> answer.code = 204
            [] m = "OPTIONS" /\ url # <<"/", "*">> ->
                  LET allow == {x \in Method : Known(x, url)}
                  IN  IF allow = {} THEN answer.code = 404
                      ELSE answer.code = 204 /\ answer.by = allow \ {"HEAD"}
            [] m # "OPTIONS" /\ Slashed(m, url) -> answer.code = 301
            [] m # "OPTIONS" /\ ~Slashed(m, url) /\ Known(m, url) ->
                  LET r == RulesOf(m)[FirstOf(m, url)]
                  IN  /\ answer.code = 200 /\ answer.rule = r
                      /\ answer.params \in Reads(r.pattern, url)
            [] m # "OPTIONS" /\ ~Known(m, url) ->
                  answer.code = IF answer.method # "HEAD" /\ \E x \in Method : Known(x, url) THEN 405 ELSE 404

RECURSIVE Descendants(_)
Descendants(bps) == UNION {{bps[i]} \cup Descendants(bps[i].children) : i \in DOMAIN bps}

\* every blueprint has rules, and those of others do not begin with its prefix
Apart ==
    \A b \in Descendants(app.bps) :
        /\ b.rules # <<>>
        /\ \A c \in Descendants(app.bps) \ Descendants(<<b>>) :
              \A k \in DOMAIN c.rules : ~StartsWith(c.rules[k].pattern, <<"/">> \o b.prefix)

(* A request that is refused is given to no catch-all rule but one of a    *)
(* blueprint its url lies in, or the application's. That is so while the   *)
(* nodes where prefixes end belong to one blueprint each.                  *)
CatchallOfPrefix ==
    Apart /\ answer.method \notin {"OPTIONS", "HEAD"} /\ answer.code \in {404, 405} =>
        \A p \in answer.by : p = <<>> \/ StartsWith(answer.url, <<"/">> \o p)

\* what is left of a log when each before is struck out with its after
Unmatched(log) ==
    FoldLeft(LAMBDA open, e : IF e[1] = "before" THEN Append(open, e[2])
                              ELSE IF e[1] = "handle" THEN open
                              ELSE IF open # <<>> /\ Last(open) = e[2] THEN Front(open)
                              ELSE Append(open, 0), <<>>, log)

(* Middlewares are nested: whoever's before_handle was called hears of the *)
(* end, the last one first, where one of them ends the response and where  *)
(* the handler throws, and the response is ended once. A local one that    *)
(* throws leaves it without an answer.                                     *)
MiddlewareNested ==
    answer.code \in {200, 301} =>
        \/ answer.ends = 1 /\ Unmatched(answer.log) = <<>>
        \/ answer.ends = 0 /\ \E x \in Middleware : answer.acts[x] = "throw"
=============================================================================
