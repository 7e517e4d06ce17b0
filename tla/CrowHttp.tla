------------------------------ MODULE CrowHttp ------------------------------
(***************************************************************************)
(* crow/http_server.h, http_connection.h, parser.h and task_timer.h: the   *)
(* connections of one worker and the timer they share.                     *)
(*                                                                         *)
(* A handler of the worker's io_context is one step.  What one read gives  *)
(* is folded over the parser's callbacks; the operators on w, a connection *)
(* with its worker's timer, are the methods.  A request is the tokens      *)
(* "url", "head" and, of some, "body".  Applications call end() of a       *)
(* response once for each call of their handler, on the connection's       *)
(* io_context, and not on a connection that is gone: they have a reference *)
(* that keeps nothing alive.                                               *)
(***************************************************************************)
EXTENDS Integers, Sequences, FiniteSets, SequencesExt, FiniteSetsExt

CONSTANTS Client,       \* connections, each opened at most once
          Kind,         \* requests: records route, host, upgrade, expect, body, chunked, later, reply, close
          Sends,        \* the requests that each client may send
          MaxRequests,  \* bound on their number, client by client
          Together      \* bound: sets of clients that connect side by side

HttpConfig == Sends \in [Client -> SUBSET Kind] /\ MaxRequests \in [Client -> Nat]

ASSUME HttpAssumption == HttpConfig

VARIABLES con,          \* the Connection objects
          tasks,        \* tasks_ of the worker's task_timer: records id, conn
          highest_id,   \* its highest_id_
          robbed        \* connections whose deadline another one has cancelled

httpVars == <<con, tasks, highest_id, robbed>>

NoKind == [route |-> FALSE, host |-> TRUE, upgrade |-> FALSE, expect |-> FALSE,
           body |-> FALSE, chunked |-> FALSE, later |-> FALSE, reply |-> "small", close |-> FALSE]

Fresh == [life |-> "new", open |-> FALSE,
          reads |-> 0, rest |-> <<>>, sent |-> 0,   \* outstanding reads; what the client has still to send
          at |-> "start", kind |-> NoKind, req |-> 0, \* the parser and the request it has
          complete |-> FALSE, bad |-> FALSE,        \* message_complete, http_errno
          close |-> FALSE, after |-> FALSE,         \* close_connection_, need_to_call_after_handlers_
          resume |-> FALSE, continued |-> FALSE,    \* need_to_start_read_after_complete_, continue_requested
          task |-> 0, pending |-> FALSE,            \* task_id_; complete_request_handler_ is set
          ends |-> 0, completed |-> FALSE,          \* end() calls still to come; res.completed_
          thrown |-> FALSE, answers |-> <<>>,
          swallowed |-> FALSE]                      \* requests were taken for the end of another

\* lost: the client has gone, as far as a long response is concerned
World(c) == [me |-> c, c |-> con[c], tasks |-> tasks, high |-> highest_id,
             robbed |-> robbed, lost |-> FALSE]

-----------------------------------------------------------------------------
(* task_timer and the deadline.                                            *)

Cancel(w) ==
    LET hit == {t \in w.tasks : t.id = w.c.task}
    IN  [w EXCEPT !.tasks = @ \ hit,
                  !.robbed = @ \cup ({t.conn : t \in hit} \ {w.me})]

StartDeadline(w) ==
    LET v == Cancel(w)
    IN  [v EXCEPT !.high = @ + 1, !.c.task = v.high + 1,
                  !.tasks = @ \cup {[id |-> v.high + 1, conn |-> w.me]},
                  !.robbed = @ \ {w.me}]

DoRead(w) == [w EXCEPT !.c.reads = @ + 1]

ParserClear(w) == [w EXCEPT !.c.at = "start", !.c.complete = FALSE]

Shut(w) == [w EXCEPT !.c.open = FALSE]

-----------------------------------------------------------------------------
(* The response.                                                           *)

\* what is written to an open socket; do_write_sync clears the parser, but for "100 Continue"
WriteSync(w, answer) ==
    LET v == IF w.c.open THEN [w EXCEPT !.c.answers = @ \o answer] ELSE w
    IN  IF w.c.continued THEN [v EXCEPT !.c.continued = FALSE] ELSE ParserClear(v)

\* a mutant of WriteSmall: the read is started without a deadline
WriteSmallUntimed(w) ==
    LET v == WriteSync(w, <<w.c.req>>)
    IN  IF v.c.resume THEN DoRead([v EXCEPT !.c.resume = FALSE]) ELSE v

(* do_write_general() for a body below the threshold: reading goes on from *)
(* here if the read handler had to leave it to the response.               *)
WriteSmall(w) ==
    LET v == WriteSync(w, <<w.c.req>>)
    IN  IF v.c.resume THEN DoRead(StartDeadline([v EXCEPT !.c.resume = FALSE])) ELSE v

(* do_write_general() for a long body, and do_write_static(): the head is  *)
(* written by the overload of asio::write that throws, the deadline of the *)
(* first is cancelled, the socket is closed here, and no read is started.  *)
WriteLong(w) ==
    LET v == WriteSync(IF w.c.kind.reply = "streamed" THEN Cancel(w) ELSE w, <<w.c.req>>)
    IN  ParserClear(IF w.c.close THEN Shut(v) ELSE v)

\* complete_request(): the application's end() of the response, or an early answer
CompleteRequest(w) ==
    LET v == [w EXCEPT !.c.after = FALSE, !.c.completed = FALSE]
    IN  IF w.c.kind.reply = "small" \/ ~w.c.kind.route \/ ~w.c.kind.host \/ w.c.completed
        THEN WriteSmall(v)
        ELSE IF ~w.c.open \/ w.lost THEN [v EXCEPT !.c.thrown = TRUE]
        ELSE WriteLong(v)

\* a mutant of Handle: a request without a host is answered 400 and handled as well
HandleInvalid(w) ==
    LET v == [Cancel(w) EXCEPT !.c.close = w.c.kind.close]
    IN  IF w.c.kind.host THEN CompleteRequest([v EXCEPT !.c.after = TRUE])
        ELSE CompleteRequest(CompleteRequest(v))

(* handle(): the deadline is cancelled, and the request goes to a          *)
(* WebSocket, is answered at once, or is left to the application. Whatever *)
(* the kind, it is answered at once if the response counts as completed.   *)
Handle(w) ==
    LET k == w.c.kind
        v == [Cancel(w) EXCEPT !.c.close = k.close]
    IN  IF ~k.host THEN CompleteRequest([v EXCEPT !.c.after = FALSE])
        ELSE IF k.upgrade
             THEN Shut([v EXCEPT !.c.close = TRUE, !.c.life = "upgraded"])
        ELSE IF k.later /\ ~w.c.completed
             THEN [v EXCEPT !.c.after = TRUE, !.c.pending = TRUE, !.c.ends = @ + 1]
        ELSE CompleteRequest([v EXCEPT !.c.after = ~w.c.completed])

-----------------------------------------------------------------------------
(* The parser's callbacks, for one token each. A token where the parser    *)
(* does not look for it is an error, and after an error nothing is parsed. *)

\* handle_url(): no route, and the answer is written in the middle of the request
OnUrl(w, t) ==
    LET v == [w EXCEPT !.c.at = "line", !.c.kind = t.kind, !.c.req = t.req]
    IN  IF t.kind.route THEN v
        ELSE CompleteRequest([v EXCEPT !.c.bad = TRUE, !.c.after = TRUE])

OnMessageComplete(w) == Handle([w EXCEPT !.c.complete = TRUE, !.c.at = "done"])

(* handle_header(): "100 Continue" for the client that waits for it. What  *)
(* follows an upgrade in the same read is left, which feed() reports.      *)
OnHeadersComplete(w) ==
    LET v == IF w.c.kind.expect THEN WriteSync([w EXCEPT !.c.continued = TRUE], <<>>) ELSE w
    IN  IF w.c.kind.upgrade THEN [OnMessageComplete(v) EXCEPT !.c.at = "left"]
        ELSE IF w.c.kind.body THEN [v EXCEPT !.c.at = "body"]
        ELSE OnMessageComplete(v)

(* s_message_done: until the parser is cleared by the response, whatever   *)
(* follows a body with a length is the end of the same message once more.  *)
MessageDone(w) == [Handle(w) EXCEPT !.c.swallowed = TRUE]

Parse(w, t) ==
    IF w.c.bad \/ w.c.thrown THEN w
    ELSE CASE t.part = "url"  /\ w.c.at = "start" -> OnUrl(w, t)
           [] t.part = "head" /\ w.c.at = "line"  -> OnHeadersComplete(w)
           [] t.part = "body" /\ w.c.at = "body"  -> OnMessageComplete(w)
           [] w.c.at = "done" /\ w.c.kind.body /\ ~w.c.kind.chunked -> MessageDone(w)
           [] OTHER -> [w EXCEPT !.c.bad = TRUE]

\* feed() swallows what comes while a message is complete and not cleared
Feed(w, toks) ==
    LET v == IF w.c.at = "left" THEN [w EXCEPT !.c.at = "start"] ELSE w
        fed[n \in 0 .. Len(toks)] == IF n = 0 THEN v ELSE Parse(fed[n - 1], toks[n])
    IN  IF w.c.complete THEN w ELSE fed[Len(toks)]

(* The read handler: after an error the socket is closed; else the next    *)
(* read is started, by the response if that is still to come.              *)
AfterRead(w) ==
    IF w.c.thrown THEN w
    ELSE IF w.c.bad \/ ~w.c.open THEN Shut(Cancel(w))
    ELSE IF w.c.close THEN Cancel(w)
    ELSE IF ~w.c.after THEN DoRead(StartDeadline(w))
    ELSE [w EXCEPT !.c.resume = TRUE]

-----------------------------------------------------------------------------
(* Steps of the worker. An object that no read, timer task or pending      *)
(* response refers to is freed, and its socket closed.                     *)

Held(w) == w.c.reads > 0 \/ w.c.pending \/ \E t \in w.tasks : t.conn = w.me

Release(w) ==
    IF w.c.life \in {"up", "upgraded"} /\ ~Held(w)
    THEN [w EXCEPT !.c = [Fresh EXCEPT !.life = "freed", !.answers = w.c.answers,
                                     !.swallowed = w.c.swallowed]] ELSE w

\* the other connections lose their object when their last task goes
Becomes(w) ==
    /\ con' = [x \in Client |->
                 IF x = w.me THEN Release(w).c
                 ELSE Release([w EXCEPT !.me = x, !.c = con[x]]).c]
    /\ tasks' = w.tasks
    /\ highest_id' = w.high
    /\ robbed' = w.robbed

HttpInit ==
    /\ con = [c \in Client |-> Fresh]
    /\ tasks = {}
    /\ highest_id = 0
    /\ robbed = {}

\* do_accept posts start() to the worker and waits for the next one
Accept(c) ==
    /\ con[c].life = "new"
    /\ \E g \in Together : {c} \cup {x \in Client : con[x].life # "new"} \subseteq g
    /\ con' = [con EXCEPT ![c].life = "posted", ![c].open = TRUE]
    /\ UNCHANGED <<tasks, highest_id, robbed>>

Start(c) ==
    /\ con[c].life = "posted"
    /\ Becomes(DoRead(ParserClear(StartDeadline([World(c) EXCEPT !.c.life = "up"]))))

Tokens(k, n) ==
    LET t(p) == [part |-> p, kind |-> k, req |-> n]
    IN  <<t("url"), t("head")>> \o IF k.body THEN <<t("body")>> ELSE <<>>

\* what a client can write next: the rest of a request, and up to two more
Writable(c) ==
    LET m == con[c].sent
    IN  {con[c].rest}
        \cup {con[c].rest \o Tokens(k, m + 1) : k \in {k \in Sends[c] : m < MaxRequests[c]}}
        \cup {con[c].rest \o Tokens(k, m + 1) \o Tokens(j, m + 2) :
                k \in {k \in Sends[c] : m + 1 < MaxRequests[c]}, j \in Sends[c]}

\* one read gives part of the stream
Read(c) ==
    /\ con[c].life = "up" /\ con[c].reads > 0 /\ con[c].open
    /\ \E s \in Writable(c) :
          /\ s # <<>>
          /\ \E n \in 1 .. Len(s) :
                \E lost \in BOOLEAN :
                LET w == [World(c) EXCEPT !.lost = lost, !.c.reads = @ - 1,
                                          !.c.rest = SubSeq(s, n + 1, Len(s)),
                                          !.c.sent = Last(s).req]
                IN  Becomes(AfterRead(Feed(w, SubSeq(s, 1, n))))

\* the client's end of the stream, a reset, or a socket closed under the read
ReadFails(c) ==
    /\ con[c].life = "up" /\ con[c].reads > 0
    /\ Becomes(Shut(Cancel([World(c) EXCEPT !.c.reads = @ - 1])))

(* The application ends the response its handler put off. If another call  *)
(* has ended it, the next request's is completed before it is handled.     *)
End(c) ==
    /\ con[c].ends > 0
    /\ \E lost \in BOOLEAN :
       LET w == [World(c) EXCEPT !.lost = lost, !.c.ends = @ - 1]
       IN  Becomes(IF w.c.pending THEN CompleteRequest([w EXCEPT !.c.pending = FALSE])
                   ELSE [w EXCEPT !.c.completed = TRUE])

(* process_tasks(): the tasks that are due, the older first, close their   *)
(* connections; when none is left, numbers start from 1 again.             *)
Tick ==
    /\ \E due \in SUBSET tasks :
          /\ \A t \in due, u \in tasks \ due : t.id < u.id
          /\ due # {} \/ (tasks = {} /\ highest_id > 0)
          /\ tasks' = tasks \ due
          /\ highest_id' = IF tasks' = {} THEN 0 ELSE highest_id
          /\ LET shut == {t.conn : t \in due}
             IN  con' = [c \in Client |->
                           Release([me |-> c, tasks |-> tasks',
                                    c |-> IF c \in shut THEN [con[c] EXCEPT !.open = FALSE]
                                          ELSE con[c]]).c]
    /\ UNCHANGED robbed

HttpNext ==
    \/ \E c \in Client : Accept(c) \/ Start(c) \/ Read(c) \/ ReadFails(c) \/ End(c)
    \/ Tick

HttpSpec == HttpInit /\ [][HttpNext]_httpVars

-----------------------------------------------------------------------------
(* Properties.                                                             *)

(* At most one read of a connection is outstanding, wherever its restart   *)
(* is left to.                                                             *)
HttpTypeOK ==
    /\ \A c \in Client :
          /\ con[c].life \in {"new", "posted", "up", "upgraded", "freed"}
          /\ con[c].reads \in 0 .. 1
          /\ con[c].at \in {"start", "line", "body", "done", "left"}
          /\ con[c].sent \in 0 .. MaxRequests[c]
    /\ \A t \in tasks : t.id \in 1 .. highest_id /\ t.conn \in Client

(* The answers a client reads are those of its requests, in their order    *)
(* and no answer twice, with requests cut and joined by the reads as they  *)
(* come, and with responses that are ended later. None is left out, unless *)
(* requests were taken for the end of the one before.                      *)
AnsweredInOrder ==
    \A c \in Client :
        LET answers == con[c].answers
        IN  /\ \A i, j \in 1 .. Len(answers) : i < j => answers[i] < answers[j]
            /\ ~con[c].swallowed => \A i \in 1 .. Len(answers) : answers[i] = i

(* A connection that waits for its client has a deadline. The exception is *)
(* made by the numbers of tasks, which start again while a connection      *)
(* keeps its old one: its cancel then takes the deadline of another.       *)
DeadlineOrRobbed ==
    \A c \in Client :
        con[c].open /\ con[c].reads > 0 =>
            c \in robbed \/ \E t \in tasks : t.conn = c /\ t.id = con[c].task
=============================================================================
