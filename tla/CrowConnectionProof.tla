------------------------ MODULE CrowConnectionProof ------------------------
(***************************************************************************)
(* Proofs about the connections of Crow: CrowHttp, from the accept on, and *)
(* CrowWebSocket, from the upgrade to the deletion.                        *)
(*                                                                         *)
(* A step of CrowHttp is one handler, a long composition of operators on   *)
(* w. Each operator has a lemma that says what it keeps; what one read     *)
(* gives is an induction over its tokens with Parsing as the invariant;    *)
(* HttpInv is what holds between steps. The clients, requests and their    *)
(* number are any.                                                         *)
(*                                                                         *)
(* CrowWebSocket, at the end, has two invariants: WsSound is about the     *)
(* deletion and assumes nothing of the constants; WsWritten is about what  *)
(* is heard and what is written, and each method has a lemma that says     *)
(* what becomes of the four queues (Goes, Written) and of what was read    *)
(* (SameRead, Continues).                                                  *)
(***************************************************************************)
EXTENDS CrowHttp, CrowWebSocket, SequenceTheorems, WellFoundedInduction, TLAPS

Part == {"url", "head", "body"}
Token == [part : Part, kind : Kind, req : Nat]
At == {"start", "line", "body", "done", "left"}

ConFields == {"life", "open", "reads", "rest", "sent", "at", "kind", "req", "complete", "bad", "close",
              "after", "resume", "continued", "task", "pending", "ends", "completed", "thrown", "answers",
              "swallowed"}

Shape(w) == /\ DOMAIN w = {"me", "c", "tasks", "high", "robbed", "lost"}
            /\ DOMAIN w.c = ConFields

-----------------------------------------------------------------------------
(* The deadlines. TasksOk and Timed are parts of the invariant; Timer says *)
(* them of a worker in the middle of a step, for all connections but one.  *)

TasksOk(ts, high) == high \in Nat /\ \A t \in ts : t.id \in 1 .. high /\ t.conn \in Client

Due(x, c, ts) == \E t \in ts : t.conn = x /\ t.id = c.task

Timed(x, c, ts, rb) == c.open /\ c.reads = 1 => x \in rb \/ Due(x, c, ts)

Timer(w) == /\ TasksOk(w.tasks, w.high) /\ w.me \in Client
            /\ \A x \in Client : x # w.me => Timed(x, con[x], w.tasks, w.robbed)

LEMMA CancelKeeps ==
    ASSUME NEW w, Shape(w), Timer(w)
    PROVE  LET v == Cancel(w)
           IN  /\ Shape(v) /\ Timer(v)
               /\ v.c = w.c /\ v.me = w.me /\ v.lost = w.lost
<1> DEFINE hit == {t \in w.tasks : t.id = w.c.task}
           v == Cancel(w)
<1>1. /\ DOMAIN v = DOMAIN w /\ v.c = w.c /\ v.me = w.me /\ v.lost = w.lost /\ v.high = w.high
      /\ v.tasks = w.tasks \ hit
      /\ v.robbed = w.robbed \cup ({t.conn : t \in hit} \ {w.me})
  BY DEF Cancel, Shape
<1> HIDE DEF v
<1>2. ASSUME NEW x \in Client, x # v.me PROVE Timed(x, con[x], v.tasks, v.robbed)
  <2>1. Timed(x, con[x], w.tasks, w.robbed)
    BY <1>1, <1>2 DEF Timer
  <2> SUFFICES ASSUME con[x].open, con[x].reads = 1, x \notin w.robbed
               PROVE  x \in v.robbed \/ Due(x, con[x], v.tasks)
    BY <1>1 DEF Timed
  <2>2. PICK t \in w.tasks : t.conn = x /\ t.id = con[x].task
    BY <2>1 DEF Timed, Due
  <2>3. CASE t \in hit
    BY <2>2, <2>3, <1>1, <1>2
  <2>4. CASE t \notin hit
    BY <2>2, <2>4, <1>1 DEF Due
  <2> QED
    BY <2>3, <2>4
<1> QED
  BY <1>1, <1>2 DEF Shape, Timer, TasksOk, v

LEMMA StartDeadlineKeeps ==
    ASSUME NEW w, Shape(w), Timer(w)
    PROVE  LET v == StartDeadline(w)
           IN  /\ Shape(v) /\ Timer(v)
               /\ v.c = [w.c EXCEPT !.task = v.c.task]
               /\ v.me = w.me /\ v.lost = w.lost
               /\ Due(v.me, v.c, v.tasks)
<1>1. PICK u : u = Cancel(w)
  OBVIOUS
<1>2. Shape(u) /\ Timer(u) /\ u.c = w.c /\ u.me = w.me /\ u.lost = w.lost
  BY <1>1, CancelKeeps
<1> DEFINE v == StartDeadline(w)
           task == [id |-> u.high + 1, conn |-> w.me]
<1>3. /\ DOMAIN v = DOMAIN u /\ v.c = [u.c EXCEPT !.task = u.high + 1]
      /\ v.me = u.me /\ v.lost = u.lost /\ v.high = u.high + 1
      /\ v.tasks = u.tasks \cup {task}
      /\ v.robbed = u.robbed \ {w.me}
  BY <1>1, <1>2 DEF StartDeadline, Shape
<1> HIDE DEF v
<1>4. DOMAIN v.c = ConFields /\ v.c.task = u.high + 1
  BY <1>2, <1>3 DEF Shape, ConFields
<1>5. TasksOk(v.tasks, v.high)
  BY <1>2, <1>3 DEF TasksOk, Timer
<1>6. ASSUME NEW x \in Client, x # v.me PROVE Timed(x, con[x], v.tasks, v.robbed)
  BY <1>2, <1>3, <1>6 DEF Timer, Timed, Due
<1>7. Due(v.me, v.c, v.tasks)
  <2>1. task \in v.tasks /\ task.conn = v.me /\ task.id = v.c.task
    BY <1>2, <1>3, <1>4
  <2> QED
    BY <2>1 DEF Due
<1> QED
  BY <1>2, <1>3, <1>4, <1>5, <1>6, <1>7 DEF Shape, Timer, v

-----------------------------------------------------------------------------
(* The responses.                                                          *)

InOrder(c) ==
    /\ c.answers \in Seq(Nat)
    /\ \A i, j \in 1 .. Len(c.answers) : i < j => c.answers[i] < c.answers[j]
    /\ ~c.swallowed => \A i \in 1 .. Len(c.answers) : c.answers[i] = i

\* the last request that was answered is n, or one before n if some were swallowed
Upto(c, n) ==
    /\ n \in Nat /\ \A i \in 1 .. Len(c.answers) : c.answers[i] <= n
    /\ ~c.swallowed => n = Len(c.answers)

\* m is n, or before it if some were swallowed
Just(c, m, n) == m \in Nat /\ n \in Nat /\ IF c.swallowed THEN m <= n ELSE m = n

\* n may be answered next
Unanswered(c, n) == n \in Nat \ {0} /\ Upto(c, n - 1)

Base(w) == Shape(w) /\ Timer(w) /\ InOrder(w.c) /\ ~w.c.continued

\* what no response changes
Like(v, w) ==
    /\ v.me = w.me /\ v.lost = w.lost /\ v.c.swallowed = w.c.swallowed
    /\ v.c.life = w.c.life /\ v.c.rest = w.c.rest /\ v.c.sent = w.c.sent /\ v.c.kind = w.c.kind
    /\ v.c.req = w.c.req /\ v.c.bad = w.c.bad /\ v.c.close = w.c.close /\ v.c.pending = w.c.pending

LEMMA OneMore ==
    ASSUME NEW c, InOrder(c), NEW n, Unanswered(c, n), NEW d, d.answers = c.answers \o <<n>>,
           d.swallowed = c.swallowed
    PROVE  InOrder(d) /\ Upto(d, n)
<1>1. PICK s, u : s = c.answers /\ u = d.answers
  OBVIOUS
<1>2. s \in Seq(Nat) /\ Len(s) \in Nat /\ n \in Nat /\ n - 1 \in Nat /\ <<n>> \in Seq(Nat) /\ Len(<<n>>) = 1
  BY <1>1, LenProperties DEF InOrder, Unanswered
<1>3. u = Append(s, n)
  BY <1>1, <1>2, AppendIsConcat
<1>4. /\ u \in Seq(Nat) /\ Len(u) = Len(s) + 1
      /\ \A i \in 1 .. Len(s) : u[i] = s[i]
      /\ u[Len(s) + 1] = n
  BY <1>2, <1>3, AppendProperties
<1>5. /\ \A i \in 1 .. Len(s) : s[i] <= n - 1 /\ s[i] \in Nat
      /\ ~c.swallowed => n - 1 = Len(s) /\ \A i \in 1 .. Len(s) : s[i] = i
      /\ \A i, j \in 1 .. Len(s) : i < j => s[i] < s[j]
  BY <1>1, <1>2 DEF InOrder, Unanswered, Upto
<1>6. \A i \in 1 .. Len(u) : i \in 1 .. Len(s) \/ i = Len(s) + 1
  BY <1>2, <1>4
<1>7. ASSUME NEW i \in 1 .. Len(u), NEW j \in 1 .. Len(u), i < j PROVE u[i] < u[j]
  <2>1. i \in 1 .. Len(s)
    BY <1>2, <1>4, <1>7
  <2>2. CASE j \in 1 .. Len(s)
    <3>1. s[i] < s[j]
      BY <1>5, <1>7, <2>1, <2>2
    <3> QED
      BY <1>4, <2>1, <2>2, <3>1
  <2>3. CASE j = Len(s) + 1
    BY <1>2, <1>4, <1>5, <2>1, <2>3
  <2> QED
    BY <1>6, <2>2, <2>3
<1>8. ASSUME ~d.swallowed PROVE n = Len(u) /\ \A i \in 1 .. Len(u) : u[i] = i
  <2>1. n - 1 = Len(s) /\ \A i \in 1 .. Len(s) : s[i] = i
    BY <1>5, <1>8
  <2>2. Len(s) + 1 = n
    BY <1>2, <2>1
  <2>3. ASSUME NEW i \in 1 .. Len(u) PROVE u[i] = i
    <3>1. CASE i \in 1 .. Len(s)
      BY <1>4, <2>1, <3>1
    <3>2. CASE i = Len(s) + 1
      BY <1>4, <2>2, <3>2
    <3> QED
      BY <1>6, <3>1, <3>2
  <2> QED
    BY <1>4, <2>2, <2>3
<1>9. \A i \in 1 .. Len(u) : u[i] <= n
  BY <1>2, <1>4, <1>5, <1>6
<1> QED
  BY <1>1, <1>2, <1>4, <1>7, <1>8, <1>9 DEF InOrder, Upto

LEMMA Later ==
    ASSUME NEW c, NEW d, d.swallowed = c.swallowed, NEW m, NEW n, Just(c, m, n),
           InOrder(d), Upto(d, m)
    PROVE  Upto(d, n)
<1>1. PICK u : u = d.answers
  OBVIOUS
<1>2. /\ u \in Seq(Nat) /\ \A i \in 1 .. Len(u) : u[i] \in Nat /\ u[i] <= m
      /\ m \in Nat /\ n \in Nat /\ m <= n
      /\ ~d.swallowed => n = Len(u)
  BY <1>1, ElementOfSeq DEF InOrder, Just, Upto
<1>3. \A i \in 1 .. Len(u) : u[i] <= n
  BY <1>2
<1> QED
  BY <1>1, <1>2, <1>3 DEF Upto

\* WriteSync with the answer to the request in hand
LEMMA SyncWritten ==
    ASSUME NEW w, Base(w), w.c.open => Unanswered(w.c, w.c.req)
    PROVE  LET v == WriteSync(w, <<w.c.req>>)
           IN  /\ Base(v) /\ Like(v, w) /\ v.c.thrown = w.c.thrown
               /\ v.c.at = "start" /\ ~v.c.complete
               /\ v.c.open = w.c.open /\ v.c.reads = w.c.reads /\ v.c.resume = w.c.resume
               /\ v.c.after = w.c.after
               /\ w.c.open => Upto(v.c, w.c.req)
<1>1. PICK u : u = IF w.c.open THEN [w EXCEPT !.c.answers = @ \o <<w.c.req>>] ELSE w
  OBVIOUS
<1>2. /\ DOMAIN u = DOMAIN w /\ u.me = w.me /\ u.lost = w.lost /\ u.tasks = w.tasks /\ u.high = w.high /\ u.robbed = w.robbed
      /\ DOMAIN u.c = ConFields
      /\ \A f \in ConFields : f # "answers" => u.c[f] = w.c[f]
      /\ u.c.answers = IF w.c.open THEN w.c.answers \o <<w.c.req>> ELSE w.c.answers
  BY <1>1 DEF Base, Shape, ConFields
<1>3. InOrder(u.c) /\ (w.c.open => Upto(u.c, w.c.req))
  <2>0. InOrder(w.c) /\ u.c.swallowed = w.c.swallowed
    BY <1>2 DEF Base, ConFields
  <2>1. CASE w.c.open
    <3>1. Unanswered(w.c, w.c.req) /\ u.c.answers = w.c.answers \o <<w.c.req>>
      BY <2>1, <1>2
    <3> QED
      BY ONLY <2>0, <3>1, OneMore
  <2>2. CASE ~w.c.open
    BY <2>0, <2>2, <1>2 DEF InOrder
  <2> QED
    BY <2>1, <2>2
<1> DEFINE v == WriteSync(w, <<w.c.req>>)
<1>4. v = ParserClear(u)
  BY <1>1, Zenon DEF WriteSync, Base
<1>5. /\ DOMAIN v = DOMAIN u /\ v.me = u.me /\ v.lost = u.lost /\ v.tasks = u.tasks /\ v.high = u.high /\ v.robbed = u.robbed
      /\ DOMAIN v.c = ConFields
      /\ \A f \in ConFields : f \notin {"at", "complete"} => v.c[f] = u.c[f]
      /\ v.c.at = "start" /\ v.c.complete = FALSE
  BY <1>2, <1>4 DEF ParserClear, ConFields, Base, Shape
<1> HIDE DEF v
<1>6. /\ v.c.life = w.c.life /\ v.c.rest = w.c.rest /\ v.c.sent = w.c.sent /\ v.c.kind = w.c.kind
      /\ v.c.req = w.c.req /\ v.c.bad = w.c.bad /\ v.c.close = w.c.close /\ v.c.pending = w.c.pending
      /\ v.c.thrown = w.c.thrown /\ v.c.open = w.c.open /\ v.c.reads = w.c.reads /\ v.c.resume = w.c.resume
      /\ v.c.after = w.c.after /\ v.c.answers = u.c.answers /\ v.c.swallowed = w.c.swallowed /\ v.c.continued = w.c.continued
  BY <1>2, <1>5 DEF ConFields
<1>7. Base(v)
  <2>1. InOrder(v.c)
    BY <1>3, <1>6, <1>2 DEF InOrder, ConFields
  <2> QED
    BY <1>2, <1>5, <1>6, <2>1 DEF Base, Shape, Timer
<1>8. Like(v, w)
  BY <1>2, <1>5, <1>6 DEF Like
<1>9. w.c.open => Upto(v.c, w.c.req)
  BY <1>2, <1>3, <1>6 DEF Upto, ConFields
<1> QED
  BY <1>5, <1>6, <1>7, <1>8, <1>9 DEF v

\* started reading again, with a deadline
Reading(v) == v.c.reads = 1 /\ ~v.c.resume /\ Due(v.me, v.c, v.tasks)

LEMMA StartsReading ==
    ASSUME NEW w, Base(w), w.c.reads = 0
    PROVE  LET v == DoRead(StartDeadline(w))
           IN  /\ Base(v) /\ Like(v, w) /\ v.c.reads = 1 /\ Due(v.me, v.c, v.tasks)
               /\ v.c.thrown = w.c.thrown /\ v.c.at = w.c.at /\ v.c.complete = w.c.complete
               /\ v.c.open = w.c.open /\ v.c.resume = w.c.resume /\ v.c.after = w.c.after
               /\ v.c.answers = w.c.answers /\ v.c.swallowed = w.c.swallowed
<1>1. PICK u : u = StartDeadline(w)
  OBVIOUS
<1>2. /\ Shape(u) /\ Timer(u) /\ u.c = [w.c EXCEPT !.task = u.c.task]
      /\ u.me = w.me /\ u.lost = w.lost /\ Due(u.me, u.c, u.tasks)
  BY <1>1, StartDeadlineKeeps DEF Base
<1>3. \A f \in ConFields : f # "task" => u.c[f] = w.c[f]
  BY <1>2 DEF Base, Shape, ConFields
<1> DEFINE v == DoRead(u)
<1>4. /\ DOMAIN v = DOMAIN u /\ v.me = u.me /\ v.lost = u.lost /\ v.tasks = u.tasks /\ v.high = u.high /\ v.robbed = u.robbed
      /\ DOMAIN v.c = ConFields
      /\ \A f \in ConFields : f # "reads" => v.c[f] = u.c[f]
      /\ v.c.reads = u.c.reads + 1
  BY <1>2 DEF DoRead, ConFields, Shape
<1> HIDE DEF v
<1>5. /\ v.c.life = w.c.life /\ v.c.rest = w.c.rest /\ v.c.sent = w.c.sent /\ v.c.kind = w.c.kind
      /\ v.c.req = w.c.req /\ v.c.bad = w.c.bad /\ v.c.close = w.c.close /\ v.c.pending = w.c.pending
      /\ v.c.thrown = w.c.thrown /\ v.c.open = w.c.open /\ v.c.resume = w.c.resume
      /\ v.c.after = w.c.after /\ v.c.answers = w.c.answers /\ v.c.swallowed = w.c.swallowed /\ v.c.continued = w.c.continued
      /\ v.c.at = w.c.at /\ v.c.complete = w.c.complete /\ v.c.task = u.c.task
      /\ v.c.reads = 1
  BY <1>3, <1>4 DEF ConFields
<1>6. Base(v) /\ Due(v.me, v.c, v.tasks)
  BY <1>2, <1>4, <1>5 DEF Base, Shape, Timer, InOrder, Due
<1> QED
  BY <1>1, <1>2, <1>4, <1>5, <1>6 DEF Like, v

LEMMA SmallWritten ==
    ASSUME NEW w, Base(w), w.c.open => Unanswered(w.c, w.c.req), w.c.reads = 0
    PROVE  LET v == WriteSmall(w)
           IN  /\ Base(v) /\ Like(v, w) /\ v.c.thrown = w.c.thrown
               /\ v.c.at = "start" /\ ~v.c.complete /\ v.c.after = w.c.after
               /\ v.c.open = w.c.open
               /\ w.c.open => Upto(v.c, w.c.req)
               /\ IF w.c.resume THEN Reading(v) ELSE v.c.reads = 0 /\ v.c.resume = w.c.resume
<1>1. PICK u : u = WriteSync(w, <<w.c.req>>)
  OBVIOUS
<1>2. /\ Base(u) /\ Like(u, w) /\ u.c.thrown = w.c.thrown
      /\ u.c.at = "start" /\ ~u.c.complete
      /\ u.c.open = w.c.open /\ u.c.reads = w.c.reads /\ u.c.resume = w.c.resume
      /\ u.c.after = w.c.after
      /\ w.c.open => Upto(u.c, w.c.req)
  BY <1>1, SyncWritten
<1>3. CASE ~w.c.resume
  BY <1>1, <1>2, <1>3, Zenon DEF WriteSmall
<1>4. CASE w.c.resume
  <2>1. PICK x : x = [u EXCEPT !.c.resume = FALSE]
    OBVIOUS
  <2>2. /\ DOMAIN x = DOMAIN u /\ x.me = u.me /\ x.lost = u.lost /\ x.tasks = u.tasks /\ x.high = u.high /\ x.robbed = u.robbed
        /\ DOMAIN x.c = ConFields
        /\ \A f \in ConFields : f # "resume" => x.c[f] = u.c[f]
        /\ x.c.resume = FALSE
    BY <1>2, <2>1 DEF Base, Shape, ConFields
  <2>3. /\ x.c.life = u.c.life /\ x.c.rest = u.c.rest /\ x.c.sent = u.c.sent /\ x.c.kind = u.c.kind
        /\ x.c.req = u.c.req /\ x.c.bad = u.c.bad /\ x.c.close = u.c.close /\ x.c.pending = u.c.pending
        /\ x.c.thrown = u.c.thrown /\ x.c.open = u.c.open /\ x.c.reads = u.c.reads
        /\ x.c.after = u.c.after /\ x.c.answers = u.c.answers /\ x.c.swallowed = u.c.swallowed /\ x.c.continued = u.c.continued
        /\ x.c.at = u.c.at /\ x.c.complete = u.c.complete
    BY <2>2 DEF ConFields
  <2>4. Base(x)
    BY <1>2, <2>2, <2>3 DEF Base, Shape, Timer, InOrder
  <2>5. PICK v : v = DoRead(StartDeadline(x))
    OBVIOUS
  <2>6. /\ Base(v) /\ Like(v, x) /\ v.c.reads = 1 /\ Due(v.me, v.c, v.tasks)
        /\ v.c.thrown = x.c.thrown /\ v.c.at = x.c.at /\ v.c.complete = x.c.complete
        /\ v.c.open = x.c.open /\ v.c.resume = x.c.resume /\ v.c.after = x.c.after
        /\ v.c.answers = x.c.answers /\ v.c.swallowed = x.c.swallowed
    BY <1>2, <2>3, <2>4, <2>5, StartsReading
  <2>7. Like(v, w)
    BY <1>2, <2>2, <2>3, <2>6 DEF Like
  <2>8. WriteSmall(w) = v
    BY <1>1, <1>2, <1>4, <2>1, <2>5, Zenon DEF WriteSmall
  <2>9. Reading(v)
    BY <2>2, <2>6 DEF Reading
  <2> QED
    BY <1>2, <1>4, <2>2, <2>3, <2>6, <2>7, <2>8, <2>9 DEF Upto
<1> QED
  BY <1>3, <1>4

LEMMA LongWritten ==
    ASSUME NEW w, Base(w), w.c.open => Unanswered(w.c, w.c.req)
    PROVE  LET v == WriteLong(w)
           IN  /\ Base(v) /\ Like(v, w) /\ v.c.thrown = w.c.thrown
               /\ v.c.at = "start" /\ ~v.c.complete /\ v.c.after = w.c.after
               /\ v.c.open => w.c.open /\ Upto(v.c, w.c.req)
               /\ v.c.reads = w.c.reads /\ v.c.resume = w.c.resume
<1>1. PICK x : x = IF w.c.kind.reply = "streamed" THEN Cancel(w) ELSE w
  OBVIOUS
<1>2. Shape(x) /\ Timer(x) /\ x.c = w.c /\ x.me = w.me /\ x.lost = w.lost
  BY <1>1, CancelKeeps DEF Base
<1>3. Base(x)
  BY <1>2 DEF Base
<1>4. PICK u : u = WriteSync(x, <<x.c.req>>)
  OBVIOUS
<1>5. /\ Base(u) /\ Like(u, x) /\ u.c.thrown = x.c.thrown
      /\ u.c.at = "start" /\ ~u.c.complete
      /\ u.c.open = x.c.open /\ u.c.reads = x.c.reads /\ u.c.resume = x.c.resume
      /\ u.c.after = x.c.after
      /\ x.c.open => Upto(u.c, x.c.req)
  BY <1>2, <1>3, <1>4, SyncWritten
<1>6. PICK y : y = IF w.c.close THEN Shut(u) ELSE u
  OBVIOUS
<1>7. PICK v : v = ParserClear(y)
  OBVIOUS
<1>8. WriteLong(w) = v
  BY <1>1, <1>2, <1>4, <1>6, <1>7, Zenon DEF WriteLong
<1>9. /\ DOMAIN y = DOMAIN u /\ y.me = u.me /\ y.lost = u.lost /\ y.tasks = u.tasks /\ y.high = u.high /\ y.robbed = u.robbed
      /\ DOMAIN y.c = ConFields
      /\ \A f \in ConFields : f # "open" => y.c[f] = u.c[f]
      /\ y.c.open => u.c.open
  <2>1. CASE w.c.close
    BY <2>1, <1>5, <1>6 DEF Shut, ConFields, Base, Shape
  <2>2. CASE ~w.c.close
    BY <2>2, <1>5, <1>6 DEF Base, Shape
  <2> QED
    BY <2>1, <2>2
<1>10. /\ DOMAIN v = DOMAIN y /\ v.me = y.me /\ v.lost = y.lost /\ v.tasks = y.tasks /\ v.high = y.high /\ v.robbed = y.robbed
       /\ DOMAIN v.c = ConFields
       /\ \A f \in ConFields : f \notin {"at", "complete"} => v.c[f] = y.c[f]
       /\ v.c.at = "start" /\ v.c.complete = FALSE
  BY <1>5, <1>7, <1>9 DEF ParserClear, ConFields, Base, Shape
<1>11. /\ v.c.life = u.c.life /\ v.c.rest = u.c.rest /\ v.c.sent = u.c.sent /\ v.c.kind = u.c.kind
       /\ v.c.req = u.c.req /\ v.c.bad = u.c.bad /\ v.c.close = u.c.close /\ v.c.pending = u.c.pending
       /\ v.c.thrown = u.c.thrown /\ v.c.reads = u.c.reads /\ v.c.resume = u.c.resume
       /\ v.c.after = u.c.after /\ v.c.answers = u.c.answers /\ v.c.swallowed = u.c.swallowed /\ v.c.continued = u.c.continued
       /\ v.c.open => u.c.open
  BY <1>9, <1>10 DEF ConFields
<1>12. Base(v)
  BY <1>5, <1>9, <1>10, <1>11 DEF Base, Shape, Timer, InOrder
<1>13. Like(v, w)
  BY <1>2, <1>5, <1>9, <1>10, <1>11 DEF Like
<1> QED
  BY <1>2, <1>5, <1>8, <1>10, <1>11, <1>12, <1>13 DEF Upto, Unanswered

LEMMA RequestCompleted ==
    ASSUME NEW w, Base(w), w.c.open => Unanswered(w.c, w.c.req), w.c.reads = 0
    PROVE  LET v == CompleteRequest(w)
           IN  /\ Base(v) /\ Like(v, w) /\ ~v.c.after
               /\ \/ /\ v.c.thrown /\ v.c.at = w.c.at /\ v.c.complete = w.c.complete
                     /\ v.c.open = w.c.open /\ v.c.answers = w.c.answers /\ v.c.swallowed = w.c.swallowed
                     /\ v.c.reads = 0 /\ v.c.resume = w.c.resume
                  \/ /\ v.c.thrown = w.c.thrown /\ v.c.at = "start" /\ ~v.c.complete
                     /\ v.c.open => w.c.open /\ Upto(v.c, w.c.req)
                     /\ (v.c.reads = 0 /\ v.c.resume = w.c.resume) \/ (w.c.resume /\ v.c.open = w.c.open /\ Reading(v))
<1>1. PICK x : x = [w EXCEPT !.c.after = FALSE, !.c.completed = FALSE]
  OBVIOUS
<1>2. /\ DOMAIN x = DOMAIN w /\ x.me = w.me /\ x.lost = w.lost /\ x.tasks = w.tasks /\ x.high = w.high /\ x.robbed = w.robbed
      /\ DOMAIN x.c = ConFields
      /\ \A f \in ConFields : f \notin {"after", "completed"} => x.c[f] = w.c[f]
      /\ x.c.after = FALSE
  BY <1>1 DEF Base, Shape, ConFields
<1>3. /\ x.c.life = w.c.life /\ x.c.rest = w.c.rest /\ x.c.sent = w.c.sent /\ x.c.kind = w.c.kind
      /\ x.c.req = w.c.req /\ x.c.bad = w.c.bad /\ x.c.close = w.c.close /\ x.c.pending = w.c.pending
      /\ x.c.thrown = w.c.thrown /\ x.c.open = w.c.open /\ x.c.reads = w.c.reads
      /\ x.c.resume = w.c.resume /\ x.c.answers = w.c.answers /\ x.c.swallowed = w.c.swallowed /\ x.c.continued = w.c.continued
      /\ x.c.at = w.c.at /\ x.c.complete = w.c.complete
  BY <1>2 DEF ConFields
<1>4. Base(x)
  BY <1>2, <1>3 DEF Base, Shape, Timer, InOrder
<1>5. PICK y : y = [x EXCEPT !.c.thrown = TRUE]
  OBVIOUS
<1>6. CompleteRequest(w) \in {WriteSmall(x), WriteLong(x), y}
  BY <1>1, <1>5, Zenon DEF CompleteRequest
<1>7. CASE CompleteRequest(w) = WriteSmall(x)
  <2>1. PICK v : v = WriteSmall(x)
    OBVIOUS
  <2>2. /\ Base(v) /\ Like(v, x) /\ v.c.thrown = x.c.thrown
        /\ v.c.at = "start" /\ ~v.c.complete /\ v.c.after = x.c.after
        /\ v.c.open = x.c.open
        /\ x.c.open => Upto(v.c, x.c.req)
        /\ IF x.c.resume THEN Reading(v) ELSE v.c.reads = 0 /\ v.c.resume = x.c.resume
    <3>1. Base(x) /\ (x.c.open => Unanswered(x.c, x.c.req)) /\ x.c.reads = 0
      BY <1>3, <1>4 DEF Unanswered, Upto
    <3> QED
      BY ONLY <2>1, <3>1, SmallWritten
  <2>3. Like(v, w)
    BY <1>2, <1>3, <2>2 DEF Like
  <2> QED
    BY <1>2, <1>3, <1>7, <2>1, <2>2, <2>3
<1>8. CASE CompleteRequest(w) = WriteLong(x)
  <2>1. PICK v : v = WriteLong(x)
    OBVIOUS
  <2>2. /\ Base(v) /\ Like(v, x) /\ v.c.thrown = x.c.thrown
        /\ v.c.at = "start" /\ ~v.c.complete /\ v.c.after = x.c.after
        /\ v.c.open => x.c.open /\ Upto(v.c, x.c.req)
        /\ v.c.reads = x.c.reads /\ v.c.resume = x.c.resume
    <3>1. Base(x) /\ (x.c.open => Unanswered(x.c, x.c.req))
      BY <1>3, <1>4 DEF Unanswered, Upto
    <3> QED
      BY ONLY <2>1, <3>1, LongWritten
  <2>3. Like(v, w)
    BY <1>2, <1>3, <2>2 DEF Like
  <2> QED
    BY <1>2, <1>3, <1>8, <2>1, <2>2, <2>3
<1>9. CASE CompleteRequest(w) = y
  <2>1. /\ DOMAIN y = DOMAIN x /\ y.me = x.me /\ y.lost = x.lost /\ y.tasks = x.tasks /\ y.high = x.high /\ y.robbed = x.robbed
        /\ DOMAIN y.c = ConFields
        /\ \A f \in ConFields : f # "thrown" => y.c[f] = x.c[f]
        /\ y.c.thrown = TRUE
    BY <1>2, <1>5 DEF Base, Shape, ConFields
  <2>2. /\ y.c.life = x.c.life /\ y.c.rest = x.c.rest /\ y.c.sent = x.c.sent /\ y.c.kind = x.c.kind
        /\ y.c.req = x.c.req /\ y.c.bad = x.c.bad /\ y.c.close = x.c.close /\ y.c.pending = x.c.pending
        /\ y.c.open = x.c.open /\ y.c.reads = x.c.reads /\ y.c.after = x.c.after
        /\ y.c.resume = x.c.resume /\ y.c.answers = x.c.answers /\ y.c.swallowed = x.c.swallowed /\ y.c.continued = x.c.continued
        /\ y.c.at = x.c.at /\ y.c.complete = x.c.complete
    BY <2>1 DEF ConFields
  <2>3. Base(y)
    BY <1>4, <2>1, <2>2 DEF Base, Shape, Timer, InOrder
  <2>4. Like(y, w)
    BY <1>2, <1>3, <2>1, <2>2 DEF Like
  <2> QED
    BY <1>2, <1>3, <1>9, <2>1, <2>2, <2>3, <2>4
<1> QED
  BY <1>6, <1>7, <1>8, <1>9

-----------------------------------------------------------------------------
(* The requests.                                                           *)

\* what the handling of a request keeps of the connection
Keeps(v, w) ==
    /\ v.me = w.me /\ v.lost = w.lost
    /\ v.c.rest = w.c.rest /\ v.c.sent = w.c.sent
    /\ v.c.open => w.c.open

\* a request is in hand, and may be answered
InHand(w) ==
    /\ Base(w) /\ w.c.reads = 0 /\ ~w.c.resume /\ ~w.c.pending /\ ~w.c.thrown
    /\ w.c.life \in {"up", "upgraded"}
    /\ w.c.open => Unanswered(w.c, w.c.req)

\* it has been, with the parser ready for the next
Answered(v) ==
    /\ ~v.c.pending /\ ~v.c.complete /\ v.c.at = "start"
    /\ v.c.open => Upto(v.c, v.c.req)

Handed(v) ==
    /\ Base(v) /\ v.c.reads = 0 /\ ~v.c.resume /\ v.c.life \in {"up", "upgraded"}
    /\ v.c.at \in At
    /\ v.c.pending => /\ v.c.at = "done" /\ v.c.after /\ ~v.c.completed
                      /\ v.c.kind.host /\ ~v.c.kind.upgrade /\ v.c.kind.later
    /\ v.c.thrown => ~v.c.pending

LEMMA AnsweredAtOnce ==
    ASSUME NEW w, InHand(w), w.c.at \in At
    PROVE  LET v == CompleteRequest(w)
           IN  /\ Handed(v) /\ Keeps(v, w) /\ v.c.kind = w.c.kind /\ v.c.req = w.c.req
               /\ v.c.bad = w.c.bad
               /\ v.c.thrown \/ Answered(v)
<1>1. PICK v : v = CompleteRequest(w)
  OBVIOUS
<1>2. Base(w) /\ (w.c.open => Unanswered(w.c, w.c.req)) /\ w.c.reads = 0
  BY DEF InHand
<1>3. /\ Base(v) /\ Like(v, w) /\ ~v.c.after
      /\ \/ /\ v.c.thrown /\ v.c.at = w.c.at /\ v.c.complete = w.c.complete
            /\ v.c.open = w.c.open /\ v.c.answers = w.c.answers /\ v.c.swallowed = w.c.swallowed
            /\ v.c.reads = 0 /\ v.c.resume = w.c.resume
         \/ /\ v.c.thrown = w.c.thrown /\ v.c.at = "start" /\ ~v.c.complete
            /\ v.c.open => w.c.open /\ Upto(v.c, w.c.req)
            /\ (v.c.reads = 0 /\ v.c.resume = w.c.resume) \/ (w.c.resume /\ v.c.open = w.c.open /\ Reading(v))
  BY ONLY <1>1, <1>2, RequestCompleted
<1>4. ~w.c.resume /\ ~w.c.pending /\ w.c.life \in {"up", "upgraded"} /\ ~w.c.thrown
  BY DEF InHand
<1> QED
  BY <1>1, <1>3, <1>4 DEF Like, Keeps, Handed, Answered, At

LEMMA RequestHandled ==
    ASSUME NEW w, InHand(w), w.c.at = "done"
    PROVE  LET v == Handle(w)
           IN  /\ Handed(v) /\ Keeps(v, w) /\ v.c.kind = w.c.kind /\ v.c.req = w.c.req
               /\ v.c.bad = w.c.bad
               /\ \/ v.c.thrown \/ ~v.c.open \/ Answered(v)
                  \/ v.c.pending /\ v.c.answers = w.c.answers /\ v.c.swallowed = w.c.swallowed /\ w.c.kind.host /\ ~w.c.kind.upgrade
<1>1. PICK u : u = Cancel(w)
  OBVIOUS
<1>2. Shape(u) /\ Timer(u) /\ u.c = w.c /\ u.me = w.me /\ u.lost = w.lost
  BY <1>1, CancelKeeps DEF InHand, Base
<1>3. PICK x : x = [u EXCEPT !.c.close = w.c.kind.close]
  OBVIOUS
<1>4. /\ DOMAIN x = DOMAIN u /\ x.me = u.me /\ x.lost = u.lost /\ x.tasks = u.tasks /\ x.high = u.high /\ x.robbed = u.robbed
      /\ DOMAIN x.c = ConFields
      /\ \A f \in ConFields : f # "close" => x.c[f] = w.c[f]
  BY <1>2, <1>3 DEF Shape, ConFields
<1>5. ASSUME NEW y, NEW after,
             y = [x EXCEPT !.c.after = after]
      PROVE  /\ InHand(y) /\ y.c.at = "done" /\ y.c.kind = w.c.kind /\ y.c.req = w.c.req
             /\ y.c.bad = w.c.bad /\ Keeps(y, w) /\ y.c.answers = w.c.answers /\ y.c.swallowed = w.c.swallowed /\ y.c.after = after
             /\ Shape(y)
  <2>1. /\ DOMAIN y = DOMAIN x /\ y.me = x.me /\ y.lost = x.lost /\ y.tasks = x.tasks /\ y.high = x.high /\ y.robbed = x.robbed
        /\ DOMAIN y.c = ConFields
        /\ \A f \in ConFields : f \notin {"close", "after"} => y.c[f] = w.c[f]
        /\ y.c.after = after
    BY <1>2, <1>4, <1>5 DEF Shape, ConFields
  <2>2. /\ y.c.life = w.c.life /\ y.c.rest = w.c.rest /\ y.c.sent = w.c.sent /\ y.c.kind = w.c.kind
        /\ y.c.req = w.c.req /\ y.c.bad = w.c.bad /\ y.c.pending = w.c.pending
        /\ y.c.thrown = w.c.thrown /\ y.c.open = w.c.open /\ y.c.reads = w.c.reads
        /\ y.c.resume = w.c.resume /\ y.c.answers = w.c.answers /\ y.c.swallowed = w.c.swallowed /\ y.c.continued = w.c.continued
        /\ y.c.at = w.c.at
    BY <2>1 DEF ConFields
  <2>3. Shape(y) /\ Timer(y)
    BY <1>2, <1>4, <2>1 DEF Shape, Timer
  <2>4. Base(y)
    BY <2>2, <2>3 DEF InHand, Base, InOrder
  <2> QED
    BY <1>2, <1>4, <2>1, <2>2, <2>3, <2>4 DEF InHand, Keeps, Unanswered, Upto
<1>6. CASE \E after : Handle(w) = CompleteRequest([x EXCEPT !.c.after = after])
  <2>1. PICK after : Handle(w) = CompleteRequest([x EXCEPT !.c.after = after])
    BY <1>6
  <2>2. PICK y : y = [x EXCEPT !.c.after = after]
    OBVIOUS
  <2>3. /\ InHand(y) /\ y.c.at = "done" /\ y.c.kind = w.c.kind /\ y.c.req = w.c.req
        /\ y.c.bad = w.c.bad /\ Keeps(y, w)
    BY <1>5, <2>2
  <2>4. PICK v : v = CompleteRequest(y)
    OBVIOUS
  <2>5. /\ Handed(v) /\ Keeps(v, y) /\ v.c.kind = y.c.kind /\ v.c.req = y.c.req
        /\ v.c.bad = y.c.bad
        /\ v.c.thrown \/ Answered(v)
    BY <2>3, <2>4, AnsweredAtOnce DEF At
  <2>6. Handle(w) = v
    BY <2>1, <2>2, <2>4
  <2>7. Keeps(v, w)
    BY <2>3, <2>5 DEF Keeps
  <2> QED
    BY <2>3, <2>5, <2>6, <2>7
<1>7. CASE Handle(w) = Shut([x EXCEPT !.c.close = TRUE, !.c.life = "upgraded"])
  <2>1. PICK v : v = Shut([x EXCEPT !.c.close = TRUE, !.c.life = "upgraded"])
    OBVIOUS
  <2>2. /\ DOMAIN v = DOMAIN x /\ v.me = x.me /\ v.lost = x.lost /\ v.tasks = x.tasks /\ v.high = x.high /\ v.robbed = x.robbed
        /\ DOMAIN v.c = ConFields
        /\ \A f \in ConFields : f \notin {"close", "life", "open"} => v.c[f] = w.c[f]
        /\ v.c.open = FALSE /\ v.c.life = "upgraded"
    <3>1. PICK d : d = [x.c EXCEPT !.close = TRUE, !.life = "upgraded", !.open = FALSE]
      OBVIOUS
    <3>2. v = [x EXCEPT !.c = d]
      BY <1>2, <1>4, <2>1, <3>1 DEF Shape, Shut
    <3>3. /\ DOMAIN d = ConFields /\ d.open = FALSE /\ d.life = "upgraded"
          /\ \A f \in ConFields : f \notin {"close", "life", "open"} => d[f] = x.c[f]
      BY <1>4, <3>1 DEF ConFields
    <3> QED
      BY <1>2, <1>4, <3>2, <3>3 DEF Shape
  <2>3. /\ v.c.rest = w.c.rest /\ v.c.sent = w.c.sent /\ v.c.kind = w.c.kind
        /\ v.c.req = w.c.req /\ v.c.bad = w.c.bad /\ v.c.pending = w.c.pending
        /\ v.c.thrown = w.c.thrown /\ v.c.reads = w.c.reads
        /\ v.c.resume = w.c.resume /\ v.c.answers = w.c.answers /\ v.c.swallowed = w.c.swallowed /\ v.c.continued = w.c.continued
        /\ v.c.at = w.c.at
    BY <2>2 DEF ConFields
  <2>4. Base(v)
    BY <1>2, <1>4, <2>2, <2>3 DEF InHand, Base, Shape, Timer, InOrder
  <2> QED
    BY <1>2, <1>4, <1>7, <2>1, <2>2, <2>3, <2>4 DEF InHand, Handed, Keeps, At
<1>8. CASE /\ Handle(w) = [x EXCEPT !.c.after = TRUE, !.c.pending = TRUE, !.c.ends = @ + 1]
           /\ w.c.kind.host /\ ~w.c.kind.upgrade /\ w.c.kind.later /\ ~w.c.completed
  <2>1. PICK v : v = [x EXCEPT !.c.after = TRUE, !.c.pending = TRUE, !.c.ends = @ + 1]
    OBVIOUS
  <2>2. /\ DOMAIN v = DOMAIN x /\ v.me = x.me /\ v.lost = x.lost /\ v.tasks = x.tasks /\ v.high = x.high /\ v.robbed = x.robbed
        /\ DOMAIN v.c = ConFields
        /\ \A f \in ConFields : f \notin {"close", "after", "pending", "ends"} => v.c[f] = w.c[f]
        /\ v.c.after = TRUE /\ v.c.pending = TRUE
    <3>1. PICK d : d = [x.c EXCEPT !.after = TRUE, !.pending = TRUE, !.ends = @ + 1]
      OBVIOUS
    <3>2. v = [x EXCEPT !.c = d]
      BY <1>2, <1>4, <2>1, <3>1 DEF Shape
    <3>3. /\ DOMAIN d = ConFields /\ d.after = TRUE /\ d.pending = TRUE
          /\ \A f \in ConFields : f \notin {"close", "after", "pending", "ends"} => d[f] = x.c[f]
      BY <1>4, <3>1 DEF ConFields
    <3> QED
      BY <1>2, <1>4, <3>2, <3>3 DEF Shape
  <2>3. /\ v.c.rest = w.c.rest /\ v.c.sent = w.c.sent /\ v.c.kind = w.c.kind
        /\ v.c.req = w.c.req /\ v.c.bad = w.c.bad /\ v.c.life = w.c.life /\ v.c.open = w.c.open
        /\ v.c.thrown = w.c.thrown /\ v.c.reads = w.c.reads
        /\ v.c.resume = w.c.resume /\ v.c.answers = w.c.answers /\ v.c.swallowed = w.c.swallowed /\ v.c.continued = w.c.continued
        /\ v.c.at = w.c.at /\ v.c.completed = w.c.completed
    BY <2>2 DEF ConFields
  <2>4. Base(v)
    BY <1>2, <1>4, <2>2, <2>3 DEF InHand, Base, Shape, Timer, InOrder
  <2> QED
    BY <1>2, <1>4, <1>8, <2>1, <2>2, <2>3, <2>4 DEF InHand, Handed, Keeps, At
<1> QED
  <2>1. \/ \E after : Handle(w) = CompleteRequest([x EXCEPT !.c.after = after])
        \/ Handle(w) = Shut([x EXCEPT !.c.close = TRUE, !.c.life = "upgraded"])
        \/ /\ Handle(w) = [x EXCEPT !.c.after = TRUE, !.c.pending = TRUE, !.c.ends = @ + 1]
           /\ w.c.kind.host /\ ~w.c.kind.upgrade /\ w.c.kind.later /\ ~w.c.completed
    BY <1>1, <1>3, Zenon DEF Handle
  <2> QED
    BY <1>6, <1>7, <1>8, <2>1

\* the handler runs again while its response is to come
LEMMA HandledAgain ==
    ASSUME NEW w, Handed(w), w.c.pending
    PROVE  LET v == Handle(w)
           IN  /\ Handed(v) /\ Keeps(v, w) /\ v.c.pending
               /\ v.c.req = w.c.req /\ v.c.answers = w.c.answers /\ v.c.swallowed = w.c.swallowed
<1>1. PICK u : u = Cancel(w)
  OBVIOUS
<1>2. Shape(u) /\ Timer(u) /\ u.c = w.c /\ u.me = w.me /\ u.lost = w.lost
  BY <1>1, CancelKeeps DEF Handed, Base
<1>3. PICK x : x = [u EXCEPT !.c.close = w.c.kind.close]
  OBVIOUS
<1>4. PICK v : v = [x EXCEPT !.c.after = TRUE, !.c.pending = TRUE, !.c.ends = @ + 1]
  OBVIOUS
<1>5. Handle(w) = v
  BY <1>1, <1>3, <1>4, Zenon DEF Handle, Handed
<1>6. /\ DOMAIN x = DOMAIN u /\ x.me = u.me /\ x.lost = u.lost /\ x.tasks = u.tasks /\ x.high = u.high /\ x.robbed = u.robbed
      /\ DOMAIN x.c = ConFields
      /\ \A f \in ConFields : f # "close" => x.c[f] = w.c[f]
  BY <1>2, <1>3 DEF Shape, ConFields
<1>7. /\ DOMAIN v = DOMAIN x /\ v.me = x.me /\ v.lost = x.lost /\ v.tasks = x.tasks /\ v.high = x.high /\ v.robbed = x.robbed
      /\ DOMAIN v.c = ConFields
      /\ \A f \in ConFields : f \notin {"close", "after", "pending", "ends"} => v.c[f] = w.c[f]
      /\ v.c.after = TRUE /\ v.c.pending = TRUE
  BY <1>2, <1>4, <1>6 DEF Shape, ConFields
<1>8. /\ v.c.life = w.c.life /\ v.c.rest = w.c.rest /\ v.c.sent = w.c.sent /\ v.c.kind = w.c.kind
      /\ v.c.req = w.c.req /\ v.c.bad = w.c.bad /\ v.c.open = w.c.open
      /\ v.c.thrown = w.c.thrown /\ v.c.reads = w.c.reads
      /\ v.c.resume = w.c.resume /\ v.c.answers = w.c.answers /\ v.c.swallowed = w.c.swallowed /\ v.c.continued = w.c.continued
      /\ v.c.at = w.c.at /\ v.c.completed = w.c.completed
  BY <1>7 DEF ConFields
<1>9. Base(v)
  BY <1>2, <1>6, <1>7, <1>8 DEF Handed, Base, Shape, Timer, InOrder
<1> QED
  BY <1>2, <1>5, <1>6, <1>7, <1>8, <1>9 DEF Handed, Keeps

-----------------------------------------------------------------------------
(* The stream, and where the parser stands in it.                          *)

Final(t) == t.part = "body" \/ (t.part = "head" /\ ~t.kind.body)

Then(p) == IF p = "url" THEN "head" ELSE "body"

Follows(a, b) ==
    IF Final(a) THEN b.part = "url" /\ b.req = a.req + 1
    ELSE b.part = Then(a.part) /\ b.kind = a.kind /\ b.req = a.req

Awaits(p) == IF p = "url" THEN "start" ELSE IF p = "head" THEN "line" ELSE "body"

\* whole requests but perhaps for the first, up to the one numbered last
Flows(s, last) ==
    /\ s \in Seq(Token)
    /\ \A i \in 1 .. Len(s) - 1 : Follows(s[i], s[i + 1])
    /\ s # <<>> => Final(s[Len(s)]) /\ s[Len(s)].req = last

\* where the next read finds the parser
Ahead(c) == IF c.at = "left" THEN "start" ELSE c.at

\* after i tokens of s the parser awaits the next, of a request not yet answered
InStep(c, s, i) ==
    IF i = Len(s) THEN Ahead(c) = "start" /\ Upto(c, c.sent)
    ELSE /\ Unanswered(c, s[i + 1].req)
         /\ Ahead(c) = Awaits(s[i + 1].part)
         /\ s[i + 1].part # "url" => c.req = s[i + 1].req /\ c.kind = s[i + 1].kind

\* or the rest of one that was answered before its end, or swallowed in part: an error
Astray(c, s, i) == i < Len(s) /\ Ahead(c) = "start" /\ s[i + 1].part # "url"

\* or the application has still to answer
Waits(c, s, i) ==
    /\ Unanswered(c, c.req)
    /\ IF i = Len(s) THEN Just(c, c.req, c.sent)
       ELSE Just(c, c.req, s[i + 1].req - 1) /\ (s[i + 1].part = "url" \/ c.swallowed)

Place(c, s, i) ==
    \/ ~c.open \/ c.bad \/ c.thrown
    \/ c.pending /\ Waits(c, s, i)
    \/ ~c.pending /\ ~c.complete /\ (InStep(c, s, i) \/ Astray(c, s, i))

Parsing(w, s, i) == Handed(w) /\ Place(w.c, s, i)

LEMMA Finished ==
    ASSUME NEW w, NEW s, Flows(s, w.c.sent), NEW i \in 0 .. Len(s) - 1,
           InHand(w), w.c.at = "body" \/ w.c.at = "line",
           w.c.open => /\ w.c.kind = s[i + 1].kind /\ w.c.req = s[i + 1].req
                       /\ Final(s[i + 1]) \/ (s[i + 1].part = "head" /\ w.c.kind.upgrade)
    PROVE  LET v == OnMessageComplete(w)
           IN  /\ Parsing(v, s, i + 1) /\ Keeps(v, w) /\ v.c.kind = w.c.kind
               /\ v.c.thrown \/ ~v.c.open \/ v.c.pending \/ v.c.at = "start"
<1>1. PICK x : x = [w EXCEPT !.c.complete = TRUE, !.c.at = "done"]
  OBVIOUS
<1>2. /\ DOMAIN x = DOMAIN w /\ x.me = w.me /\ x.lost = w.lost /\ x.tasks = w.tasks /\ x.high = w.high /\ x.robbed = w.robbed
      /\ DOMAIN x.c = ConFields
      /\ \A f \in ConFields : f \notin {"complete", "at"} => x.c[f] = w.c[f]
      /\ x.c.at = "done"
  BY <1>1 DEF InHand, Base, Shape, ConFields
<1>3. /\ x.c.life = w.c.life /\ x.c.rest = w.c.rest /\ x.c.sent = w.c.sent /\ x.c.kind = w.c.kind
      /\ x.c.req = w.c.req /\ x.c.bad = w.c.bad /\ x.c.pending = w.c.pending
      /\ x.c.thrown = w.c.thrown /\ x.c.open = w.c.open /\ x.c.reads = w.c.reads
      /\ x.c.resume = w.c.resume /\ x.c.answers = w.c.answers /\ x.c.swallowed = w.c.swallowed /\ x.c.continued = w.c.continued
  BY <1>2 DEF ConFields
<1>4. InHand(x) /\ Keeps(x, w)
  <2>1. Base(x)
    BY <1>2, <1>3 DEF InHand, Base, Shape, Timer, InOrder
  <2> QED
    BY <1>2, <1>3, <2>1 DEF InHand, Keeps, Unanswered, Upto
<1>5. PICK v : v = Handle(x)
  OBVIOUS
<1>6. /\ Handed(v) /\ Keeps(v, x) /\ v.c.kind = x.c.kind /\ v.c.req = x.c.req
      /\ v.c.bad = x.c.bad
      /\ \/ v.c.thrown \/ ~v.c.open \/ Answered(v)
         \/ v.c.pending /\ v.c.answers = x.c.answers /\ v.c.swallowed = x.c.swallowed /\ x.c.kind.host /\ ~x.c.kind.upgrade
  BY ONLY <1>2, <1>4, <1>5, RequestHandled
<1>7. OnMessageComplete(w) = v
  BY <1>1, <1>5 DEF OnMessageComplete
<1>8. Keeps(v, w)
  BY <1>4, <1>6 DEF Keeps
<1>9. ASSUME v.c.open, ~v.c.thrown, Answered(v) PROVE Place(v.c, s, i + 1)
  <2>1. w.c.open /\ v.c.req = s[i + 1].req /\ Upto(v.c, v.c.req) /\ v.c.sent = w.c.sent
    BY <1>3, <1>6, <1>8, <1>9 DEF Keeps, Answered
  <2>2. CASE i + 1 = Len(s)
    <3>1. s[i + 1].req = v.c.sent
      BY <2>1, <2>2 DEF Flows
    <3> QED
      BY <1>9, <2>1, <2>2, <3>1 DEF InStep, Ahead, Place, Answered
  <2>3. CASE i + 1 # Len(s)
    <3>1. Len(s) \in Nat /\ i + 1 \in 1 .. Len(s) - 1
      BY <2>3, LenProperties DEF Flows
    <3>2. Follows(s[i + 1], s[i + 2])
      <4>1. (i + 1) + 1 = i + 2
        OBVIOUS
      <4> QED
        BY <3>1, <4>1 DEF Flows
    <3>3. (i + 1) + 1 = i + 2 /\ i + 1 < Len(s)
      BY <3>1
    <3>4. CASE Final(s[i + 1])
      <4>1. s[(i + 1) + 1].part = "url" /\ s[(i + 1) + 1].req = v.c.req + 1
        BY <2>1, <3>2, <3>3, <3>4 DEF Follows
      <4>2. Unanswered(v.c, s[(i + 1) + 1].req)
        BY <2>1, <4>1 DEF Upto, Unanswered
      <4> QED
        BY <1>9, <2>3, <4>1, <4>2 DEF InStep, Ahead, Place, Answered, Awaits
    <3>5. CASE ~Final(s[i + 1])
      <4>1. s[i + 1].part = "head"
        BY <2>1, <3>5
      <4>2. s[i + 2].part = "body"
        BY <3>2, <3>5, <4>1 DEF Follows, Then
      <4> QED
        BY <1>9, <3>3, <4>2 DEF Astray, Ahead, Place, Answered
    <3> QED
      BY <3>4, <3>5
  <2> QED
    BY <2>2, <2>3
<1>10. ASSUME v.c.open, v.c.pending, v.c.answers = x.c.answers /\ v.c.swallowed = x.c.swallowed, ~x.c.kind.upgrade
       PROVE  Place(v.c, s, i + 1)
  <2>1. /\ w.c.open /\ v.c.req = s[i + 1].req /\ Unanswered(v.c, v.c.req) /\ v.c.sent = w.c.sent
        /\ Final(s[i + 1]) /\ v.c.req \in Nat
    BY <1>3, <1>6, <1>8, <1>10 DEF Keeps, InHand, Unanswered, Upto
  <2>2. CASE i + 1 = Len(s)
    <3>1. s # <<>> /\ s[Len(s)].req = w.c.sent
      <4>1. s # <<>>
        BY <2>2
      <4> QED
        BY <4>1, Zenon DEF Flows
    <3> QED
      BY <1>10, <2>1, <2>2, <3>1 DEF Waits, Just, Place
  <2>3. CASE i + 1 # Len(s)
    <3>1. Len(s) \in Nat /\ i + 1 \in 1 .. Len(s) - 1
      BY <2>3, LenProperties DEF Flows
    <3>2. Follows(s[i + 1], s[(i + 1) + 1])
      BY <3>1 DEF Flows
    <3> QED
      BY <1>10, <2>1, <2>3, <3>2 DEF Waits, Just, Place, Follows
  <2> QED
    BY <2>2, <2>3
<1>11. Place(v.c, s, i + 1)
  BY <1>3, <1>6, <1>9, <1>10 DEF Place
<1> QED
  BY <1>3, <1>6, <1>7, <1>8, <1>11 DEF Parsing, Answered

LEMMA ContinueSent ==
    ASSUME NEW w, Base(w)
    PROVE  LET v == WriteSync([w EXCEPT !.c.continued = TRUE], <<>>)
           IN  /\ Base(v) /\ v.me = w.me /\ v.lost = w.lost
               /\ \A f \in ConFields : v.c[f] = w.c[f] \/ f = "continued"
<1>1. PICK x : x = [w EXCEPT !.c.continued = TRUE]
  OBVIOUS
<1>2. /\ DOMAIN x = DOMAIN w /\ x.me = w.me /\ x.lost = w.lost /\ x.tasks = w.tasks /\ x.high = w.high /\ x.robbed = w.robbed
      /\ DOMAIN x.c = ConFields
      /\ \A f \in ConFields : f # "continued" => x.c[f] = w.c[f]
      /\ x.c.continued = TRUE
  BY <1>1 DEF Base, Shape, ConFields
<1>3. PICK u : u = IF x.c.open THEN [x EXCEPT !.c.answers = @ \o <<>>] ELSE x
  OBVIOUS
<1>4. x.c.answers \o <<>> = x.c.answers
  BY <1>2, ConcatEmptySeq DEF Base, InOrder, ConFields
<1>5. /\ DOMAIN u = DOMAIN x /\ u.me = x.me /\ u.lost = x.lost /\ u.tasks = x.tasks /\ u.high = x.high /\ u.robbed = x.robbed
      /\ DOMAIN u.c = ConFields
      /\ \A f \in ConFields : u.c[f] = x.c[f]
  <2>1. CASE x.c.open
    BY <1>2, <1>3, <1>4, <2>1 DEF Base, Shape, ConFields
  <2>2. CASE ~x.c.open
    BY <1>2, <1>3, <2>2
  <2> QED
    BY <2>1, <2>2
<1>6. PICK v : v = [u EXCEPT !.c.continued = FALSE]
  OBVIOUS
<1>7. /\ DOMAIN v = DOMAIN u /\ v.me = u.me /\ v.lost = u.lost /\ v.tasks = u.tasks /\ v.high = u.high /\ v.robbed = u.robbed
      /\ DOMAIN v.c = ConFields
      /\ \A f \in ConFields : f # "continued" => v.c[f] = w.c[f]
      /\ v.c.continued = FALSE
  BY <1>2, <1>5, <1>6 DEF Base, Shape, ConFields
<1>8. WriteSync(x, <<>>) = v
  BY <1>2, <1>3, <1>6, Zenon DEF WriteSync
<1>9. v.c.answers = w.c.answers /\ v.c.swallowed = w.c.swallowed
  BY <1>7 DEF ConFields
<1>10. Base(v)
  BY <1>2, <1>5, <1>7, <1>9 DEF Base, Shape, Timer, InOrder
<1> QED
  BY <1>1, <1>2, <1>5, <1>7, <1>8, <1>10

\* what is known of a connection whose parser takes the next token
LEMMA TakesNext ==
    ASSUME NEW w, NEW s, NEW i \in 0 .. Len(s) - 1, Parsing(w, s, i),
           ~w.c.bad, ~w.c.thrown, w.c.at # "done",
           w.c.at = Awaits(s[i + 1].part)
    PROVE  /\ Handed(w) /\ ~w.c.pending
           /\ w.c.open => /\ Unanswered(w.c, s[i + 1].req)
                          /\ s[i + 1].part # "url" => w.c.req = s[i + 1].req /\ w.c.kind = s[i + 1].kind
<1>1. ~w.c.pending
  BY DEF Parsing, Handed
<1>2. i # Len(s)
  BY LenProperties
<1>3. ~Astray(w.c, s, i)
  BY DEF Astray, Ahead, Awaits
<1>4. Ahead(w.c) = w.c.at
  BY DEF Ahead, Awaits
<1> QED
  BY <1>1, <1>2, <1>3, <1>4 DEF Parsing, Place, InStep

LEMMA UrlParsed ==
    ASSUME NEW w, NEW s, Flows(s, w.c.sent), NEW i \in 0 .. Len(s) - 1, Parsing(w, s, i),
           ~w.c.bad, ~w.c.thrown, s[i + 1].part = "url", w.c.at = "start"
    PROVE  LET v == OnUrl(w, s[i + 1])
           IN  Parsing(v, s, i + 1) /\ Keeps(v, w)
<1>1. PICK t : t = s[i + 1]
  OBVIOUS
<1>2. /\ Handed(w) /\ ~w.c.pending /\ (w.c.open => Unanswered(w.c, t.req))
  BY <1>1, TakesNext DEF Awaits
<1>3. PICK x : x = [w EXCEPT !.c.at = "line", !.c.kind = t.kind, !.c.req = t.req]
  OBVIOUS
<1>4. /\ DOMAIN x = DOMAIN w /\ x.me = w.me /\ x.lost = w.lost /\ x.tasks = w.tasks /\ x.high = w.high /\ x.robbed = w.robbed
      /\ DOMAIN x.c = ConFields
      /\ \A f \in ConFields : f \notin {"at", "kind", "req"} => x.c[f] = w.c[f]
      /\ x.c.at = "line" /\ x.c.kind = t.kind /\ x.c.req = t.req
  BY <1>2, <1>3 DEF Handed, Base, Shape, ConFields
<1>5. /\ x.c.life = w.c.life /\ x.c.rest = w.c.rest /\ x.c.sent = w.c.sent
      /\ x.c.bad = w.c.bad /\ x.c.pending = w.c.pending /\ x.c.complete = w.c.complete
      /\ x.c.thrown = w.c.thrown /\ x.c.open = w.c.open /\ x.c.reads = w.c.reads
      /\ x.c.resume = w.c.resume /\ x.c.answers = w.c.answers /\ x.c.swallowed = w.c.swallowed /\ x.c.continued = w.c.continued
  BY <1>4 DEF ConFields
<1>6. Base(x)
  BY <1>2, <1>4, <1>5 DEF Handed, Base, Shape, Timer, InOrder
<1>7. CASE t.kind.route
  <2>1. OnUrl(w, t) = x
    BY <1>3, <1>7, Zenon DEF OnUrl
  <2>2. i + 1 # Len(s)
    BY <1>1 DEF Flows, Final
  <2>3. Len(s) \in Nat /\ i + 1 \in 1 .. Len(s) - 1
    BY <2>2, LenProperties DEF Flows
  <2>4. Follows(s[i + 1], s[(i + 1) + 1])
    BY <2>3 DEF Flows
  <2>5. /\ s[(i + 1) + 1].part = "head" /\ s[(i + 1) + 1].kind = t.kind
        /\ s[(i + 1) + 1].req = t.req
    BY <1>1, <2>4 DEF Follows, Final, Then
  <2>6. w.c.open => InStep(x.c, s, i + 1)
    BY <1>2, <1>4, <1>5, <2>2, <2>5 DEF InStep, Ahead, Awaits, Unanswered, Upto
  <2>7. w.c.open => ~w.c.complete
    BY <1>2 DEF Parsing, Place
  <2>8. Place(x.c, s, i + 1)
    BY <1>2, <1>5, <2>6, <2>7 DEF Place
  <2>9. Handed(x) /\ Keeps(x, w)
    BY <1>2, <1>4, <1>5, <1>6 DEF Handed, Keeps, At
  <2> QED
    BY <1>1, <2>1, <2>8, <2>9 DEF Parsing
<1>8. CASE ~t.kind.route
  <2>1. PICK y : y = [x EXCEPT !.c.bad = TRUE, !.c.after = TRUE]
    OBVIOUS
  <2>2. /\ DOMAIN y = DOMAIN x /\ y.me = x.me /\ y.lost = x.lost /\ y.tasks = x.tasks /\ y.high = x.high /\ y.robbed = x.robbed
        /\ DOMAIN y.c = ConFields
        /\ \A f \in ConFields : f \notin {"bad", "after"} => y.c[f] = x.c[f]
        /\ y.c.bad = TRUE
    BY <1>4, <1>6, <2>1 DEF Base, Shape, ConFields
  <2>3. /\ y.c.life = x.c.life /\ y.c.rest = x.c.rest /\ y.c.sent = x.c.sent /\ y.c.req = x.c.req
        /\ y.c.pending = x.c.pending /\ y.c.thrown = x.c.thrown /\ y.c.open = x.c.open
        /\ y.c.reads = x.c.reads /\ y.c.resume = x.c.resume /\ y.c.answers = x.c.answers /\ y.c.swallowed = x.c.swallowed
        /\ y.c.continued = x.c.continued /\ y.c.at = x.c.at
    BY <2>2 DEF ConFields
  <2>4. Base(y)
    BY <1>6, <2>2, <2>3 DEF Base, Shape, Timer, InOrder
  <2>5. InHand(y) /\ y.c.at \in At /\ Keeps(y, w)
    BY <1>2, <1>4, <1>5, <2>2, <2>3, <2>4 DEF InHand, Handed, Keeps, At, Unanswered, Upto
  <2>6. PICK v : v = CompleteRequest(y)
    OBVIOUS
  <2>7. Handed(v) /\ Keeps(v, y) /\ v.c.bad = y.c.bad
    BY ONLY <2>5, <2>6, AnsweredAtOnce
  <2>8. OnUrl(w, t) = v
    BY <1>3, <1>8, <2>1, <2>6, Zenon DEF OnUrl
  <2>9. Keeps(v, w) /\ Parsing(v, s, i + 1)
    BY <2>2, <2>5, <2>7 DEF Keeps, Parsing, Place
  <2> QED
    BY <1>1, <2>8, <2>9
<1> QED
  BY <1>7, <1>8

\* after an upgrade: the parser starts again at the next read
LEMMA LeftParsed ==
    ASSUME NEW v, NEW s, NEW i, Parsing(v, s, i), ~v.c.pending,
           v.c.thrown \/ ~v.c.open \/ v.c.pending \/ v.c.at = "start"
    PROVE  LET y == [v EXCEPT !.c.at = "left"]
           IN  Parsing(y, s, i) /\ Keeps(y, v)
<1>1. PICK y : y = [v EXCEPT !.c.at = "left"]
  OBVIOUS
<1>2. /\ DOMAIN y = DOMAIN v /\ y.me = v.me /\ y.lost = v.lost /\ y.tasks = v.tasks /\ y.high = v.high /\ y.robbed = v.robbed
      /\ DOMAIN y.c = ConFields
      /\ \A f \in ConFields : f # "at" => y.c[f] = v.c[f]
      /\ y.c.at = "left"
  BY <1>1 DEF Parsing, Handed, Base, Shape, ConFields
<1>3. /\ y.c.life = v.c.life /\ y.c.rest = v.c.rest /\ y.c.sent = v.c.sent /\ y.c.kind = v.c.kind
      /\ y.c.req = v.c.req /\ y.c.bad = v.c.bad /\ y.c.pending = v.c.pending
      /\ y.c.thrown = v.c.thrown /\ y.c.open = v.c.open /\ y.c.reads = v.c.reads
      /\ y.c.resume = v.c.resume /\ y.c.answers = v.c.answers /\ y.c.swallowed = v.c.swallowed
      /\ y.c.continued = v.c.continued /\ y.c.complete = v.c.complete
  BY <1>2 DEF ConFields
<1>4. Base(y)
  BY <1>2, <1>3 DEF Parsing, Handed, Base, Shape, Timer, InOrder
<1>5. Handed(y) /\ Keeps(y, v)
  BY <1>2, <1>3, <1>4 DEF Parsing, Handed, Keeps, At
<1>6. Place(y.c, s, i)
  BY <1>2, <1>3 DEF Parsing, Place, InStep, Astray, Ahead, Unanswered, Upto
<1> QED
  BY <1>1, <1>5, <1>6 DEF Parsing

LEMMA HeadParsed ==
    ASSUME NEW w, NEW s, Flows(s, w.c.sent), NEW i \in 0 .. Len(s) - 1, Parsing(w, s, i),
           ~w.c.bad, ~w.c.thrown, s[i + 1].part = "head", w.c.at = "line"
    PROVE  LET v == OnHeadersComplete(w)
           IN  Parsing(v, s, i + 1) /\ Keeps(v, w)
<1>1. /\ Handed(w) /\ ~w.c.pending
      /\ w.c.open => /\ Unanswered(w.c, s[i + 1].req)
                     /\ w.c.req = s[i + 1].req /\ w.c.kind = s[i + 1].kind
  BY TakesNext DEF Awaits
<1>2. PICK u : u = IF w.c.kind.expect THEN WriteSync([w EXCEPT !.c.continued = TRUE], <<>>) ELSE w
  OBVIOUS
<1>3. /\ Base(u) /\ u.me = w.me /\ u.lost = w.lost
      /\ \A f \in ConFields : u.c[f] = w.c[f] \/ f = "continued"
  <2>1. Base(w)
    BY <1>1 DEF Handed
  <2> QED
    BY <1>2, <2>1, ContinueSent
<1>4. /\ u.c.life = w.c.life /\ u.c.rest = w.c.rest /\ u.c.sent = w.c.sent /\ u.c.kind = w.c.kind
      /\ u.c.req = w.c.req /\ u.c.bad = w.c.bad /\ u.c.pending = w.c.pending
      /\ u.c.thrown = w.c.thrown /\ u.c.open = w.c.open /\ u.c.reads = w.c.reads
      /\ u.c.resume = w.c.resume /\ u.c.answers = w.c.answers /\ u.c.swallowed = w.c.swallowed /\ u.c.at = w.c.at
      /\ u.c.complete = w.c.complete
  BY <1>3 DEF ConFields
<1>5. InHand(u) /\ Keeps(u, w)
  BY <1>1, <1>3, <1>4 DEF InHand, Handed, Keeps, Unanswered, Upto
<1>6. CASE w.c.kind.body /\ ~w.c.kind.upgrade
  <2>1. PICK v : v = [u EXCEPT !.c.at = "body"]
    OBVIOUS
  <2>2. OnHeadersComplete(w) = v
    BY <1>2, <1>6, <2>1, Zenon DEF OnHeadersComplete
  <2>3. /\ DOMAIN v = DOMAIN u /\ v.me = u.me /\ v.lost = u.lost /\ v.tasks = u.tasks /\ v.high = u.high /\ v.robbed = u.robbed
        /\ DOMAIN v.c = ConFields
        /\ \A f \in ConFields : f # "at" => v.c[f] = u.c[f]
        /\ v.c.at = "body"
    BY <1>3, <2>1 DEF Base, Shape, ConFields
  <2>4. /\ v.c.life = u.c.life /\ v.c.rest = u.c.rest /\ v.c.sent = u.c.sent /\ v.c.kind = u.c.kind
        /\ v.c.req = u.c.req /\ v.c.bad = u.c.bad /\ v.c.pending = u.c.pending
        /\ v.c.thrown = u.c.thrown /\ v.c.open = u.c.open /\ v.c.reads = u.c.reads
        /\ v.c.resume = u.c.resume /\ v.c.answers = u.c.answers /\ v.c.swallowed = u.c.swallowed /\ v.c.continued = u.c.continued
        /\ v.c.complete = u.c.complete
    BY <2>3 DEF ConFields
  <2>5. Base(v)
    BY <1>3, <2>3, <2>4 DEF Base, Shape, Timer, InOrder
  <2>6. Handed(v) /\ Keeps(v, w)
    BY <1>1, <1>4, <1>5, <2>3, <2>4, <2>5 DEF Handed, Keeps, At
  <2>7. ASSUME w.c.open PROVE InStep(v.c, s, i + 1)
    <3>1. i + 1 # Len(s)
      BY <1>1, <1>6, <2>7 DEF Flows, Final
    <3>2. Len(s) \in Nat /\ i + 1 \in 1 .. Len(s) - 1
      BY <3>1, LenProperties DEF Flows
    <3>3. Follows(s[i + 1], s[(i + 1) + 1])
      BY <3>2 DEF Flows
    <3>4. /\ s[(i + 1) + 1].part = "body" /\ s[(i + 1) + 1].kind = s[i + 1].kind
          /\ s[(i + 1) + 1].req = s[i + 1].req
      BY <1>1, <1>6, <2>7, <3>3 DEF Follows, Final, Then
    <3> QED
      BY <1>1, <1>4, <2>3, <2>4, <2>7, <3>1, <3>4 DEF InStep, Ahead, Awaits, Unanswered, Upto
  <2>8. w.c.open => ~w.c.complete
    BY <1>1 DEF Parsing, Place
  <2>9. Place(v.c, s, i + 1)
    BY <1>1, <1>4, <2>4, <2>7, <2>8 DEF Place
  <2> QED
    BY <2>2, <2>6, <2>9 DEF Parsing
<1>7. CASE ~(w.c.kind.body /\ ~w.c.kind.upgrade)
  <2>1. PICK v : v = OnMessageComplete(u)
    OBVIOUS
  <2>2. OnHeadersComplete(w) = IF w.c.kind.upgrade THEN [v EXCEPT !.c.at = "left"] ELSE v
    BY <1>2, <1>7, <2>1, Zenon DEF OnHeadersComplete
  <2>3. u.c.open => /\ u.c.kind = s[i + 1].kind /\ u.c.req = s[i + 1].req
                    /\ Final(s[i + 1]) \/ (s[i + 1].part = "head" /\ u.c.kind.upgrade)
    BY <1>1, <1>4, <1>7 DEF Final
  <2>4. Flows(s, u.c.sent) /\ i \in 0 .. Len(s) - 1 /\ (u.c.at = "body" \/ u.c.at = "line")
    BY <1>4
  <2>5. /\ Parsing(v, s, i + 1) /\ Keeps(v, u) /\ v.c.kind = u.c.kind
        /\ v.c.thrown \/ ~v.c.open \/ v.c.pending \/ v.c.at = "start"
    BY ONLY <1>5, <2>1, <2>3, <2>4, Finished
  <2>6. Keeps(v, w)
    BY <1>5, <2>5 DEF Keeps
  <2>7. CASE ~w.c.kind.upgrade
    BY <2>2, <2>5, <2>6, <2>7
  <2>8. CASE w.c.kind.upgrade
    <3>1. PICK y : y = [v EXCEPT !.c.at = "left"]
      OBVIOUS
    <3>2. v.c.kind = w.c.kind /\ (v.c.thrown \/ ~v.c.open \/ v.c.pending \/ v.c.at = "start")
      BY <1>4, <2>5
    <3>3. ~v.c.pending
      BY <2>5, <2>8, <3>2 DEF Parsing, Handed
    <3>4. Parsing(y, s, i + 1) /\ Keeps(y, v)
      BY ONLY <2>5, <3>1, <3>2, <3>3, LeftParsed
    <3> QED
      BY <2>2, <2>6, <2>8, <3>1, <3>4 DEF Keeps
  <2> QED
    BY <2>7, <2>8
<1> QED
  BY <1>6, <1>7

LEMMA BodyParsed ==
    ASSUME NEW w, NEW s, Flows(s, w.c.sent), NEW i \in 0 .. Len(s) - 1, Parsing(w, s, i),
           ~w.c.bad, ~w.c.thrown, s[i + 1].part = "body", w.c.at = "body"
    PROVE  LET v == OnMessageComplete(w)
           IN  Parsing(v, s, i + 1) /\ Keeps(v, w)
<1>1. /\ Handed(w) /\ ~w.c.pending
      /\ w.c.open => /\ Unanswered(w.c, s[i + 1].req)
                     /\ w.c.req = s[i + 1].req /\ w.c.kind = s[i + 1].kind
  BY TakesNext DEF Awaits
<1>2. InHand(w)
  BY <1>1 DEF InHand, Handed
<1>3. w.c.open => /\ w.c.kind = s[i + 1].kind /\ w.c.req = s[i + 1].req
                  /\ Final(s[i + 1]) \/ (s[i + 1].part = "head" /\ w.c.kind.upgrade)
  BY <1>1 DEF Final
<1> QED
  BY <1>2, <1>3, Finished

\* a token that the parser does not look for
LEMMA ErrorParsed ==
    ASSUME NEW w, NEW s, NEW i \in 0 .. Len(s) - 1, Parsing(w, s, i)
    PROVE  LET v == [w EXCEPT !.c.bad = TRUE]
           IN  Parsing(v, s, i + 1) /\ Keeps(v, w)
<1>1. PICK v : v = [w EXCEPT !.c.bad = TRUE]
  OBVIOUS
<1>2. /\ DOMAIN v = DOMAIN w /\ v.me = w.me /\ v.lost = w.lost /\ v.tasks = w.tasks /\ v.high = w.high /\ v.robbed = w.robbed
      /\ DOMAIN v.c = ConFields
      /\ \A f \in ConFields : f # "bad" => v.c[f] = w.c[f]
      /\ v.c.bad = TRUE
  BY <1>1 DEF Parsing, Handed, Base, Shape, ConFields
<1>3. /\ v.c.life = w.c.life /\ v.c.rest = w.c.rest /\ v.c.sent = w.c.sent
      /\ v.c.pending = w.c.pending /\ v.c.after = w.c.after
      /\ v.c.thrown = w.c.thrown /\ v.c.open = w.c.open /\ v.c.reads = w.c.reads
      /\ v.c.resume = w.c.resume /\ v.c.answers = w.c.answers /\ v.c.swallowed = w.c.swallowed /\ v.c.continued = w.c.continued
      /\ v.c.at = w.c.at /\ v.c.kind = w.c.kind /\ v.c.completed = w.c.completed
  BY <1>2 DEF ConFields
<1>4. Base(v)
  BY <1>2, <1>3 DEF Parsing, Handed, Base, Shape, Timer, InOrder
<1>5. Handed(v) /\ Keeps(v, w) /\ Place(v.c, s, i + 1)
  BY <1>2, <1>3, <1>4 DEF Parsing, Handed, Keeps, Place
<1> QED
  BY <1>1, <1>5 DEF Parsing

\* what follows a body while the application has not answered
LEMMA MessageDoneParsed ==
    ASSUME NEW w, NEW s, Flows(s, w.c.sent), NEW i \in 0 .. Len(s) - 1, Parsing(w, s, i),
           ~w.c.bad, ~w.c.thrown, w.c.at = "done"
    PROVE  LET v == MessageDone(w)
           IN  Parsing(v, s, i + 1) /\ Keeps(v, w)
<1>1. PICK u : u = Handle(w)
  OBVIOUS
<1>2. PICK v : v = [u EXCEPT !.c.swallowed = TRUE]
  OBVIOUS
<1>3. MessageDone(w) = v
  BY <1>1, <1>2, Zenon DEF MessageDone
<1>4. /\ Handed(u) /\ Keeps(u, w)
      /\ w.c.pending => /\ u.c.pending /\ u.c.answers = w.c.answers /\ u.c.swallowed = w.c.swallowed
                        /\ u.c.req = w.c.req
  <2>1. CASE w.c.pending
    BY <1>1, <2>1, HandledAgain DEF Parsing
  <2>2. CASE ~w.c.pending
    <3>1. ~w.c.open
      BY <2>2 DEF Parsing, Place, InStep, Astray, Ahead, Awaits
    <3>2. InHand(w)
      BY <2>2, <3>1 DEF Parsing, Handed, InHand
    <3> QED
      BY <1>1, <2>2, <3>2, RequestHandled
  <2> QED
    BY <2>1, <2>2
<1>5. /\ DOMAIN v = DOMAIN u /\ v.me = u.me /\ v.lost = u.lost /\ v.tasks = u.tasks /\ v.high = u.high /\ v.robbed = u.robbed
      /\ DOMAIN v.c = ConFields
      /\ \A f \in ConFields : f # "swallowed" => v.c[f] = u.c[f]
      /\ v.c.swallowed = TRUE
  BY <1>2, <1>4 DEF Handed, Base, Shape, ConFields
<1>6. /\ v.c.life = u.c.life /\ v.c.rest = u.c.rest /\ v.c.sent = u.c.sent /\ v.c.kind = u.c.kind
      /\ v.c.req = u.c.req /\ v.c.bad = u.c.bad /\ v.c.pending = u.c.pending /\ v.c.after = u.c.after
      /\ v.c.thrown = u.c.thrown /\ v.c.open = u.c.open /\ v.c.reads = u.c.reads
      /\ v.c.resume = u.c.resume /\ v.c.answers = u.c.answers /\ v.c.continued = u.c.continued
      /\ v.c.at = u.c.at /\ v.c.completed = u.c.completed
  BY <1>5 DEF ConFields
<1>7. Handed(v) /\ Keeps(v, w)
  <2>1. Base(v)
    BY <1>4, <1>5, <1>6 DEF Handed, Base, Shape, Timer, InOrder
  <2> QED
    BY <1>4, <1>5, <1>6, <2>1 DEF Handed, Keeps
<1>8. Place(v.c, s, i + 1)
  <2>1. SUFFICES ASSUME v.c.open PROVE Place(v.c, s, i + 1)
    BY DEF Place
  <2>2. w.c.open /\ v.c.sent = w.c.sent
    BY <1>4, <1>6, <2>1 DEF Keeps
  <2>3. w.c.pending /\ Waits(w.c, s, i)
    BY <2>2 DEF Parsing, Place, InStep, Astray, Ahead, Awaits
  <2>4. v.c.pending /\ v.c.answers = w.c.answers /\ v.c.req = w.c.req
    BY <1>4, <1>6, <2>3
  <2>5. Unanswered(v.c, v.c.req)
    BY <1>5, <2>3, <2>4 DEF Waits, Unanswered, Upto
  <2>6. /\ v.c.req \in Nat /\ s[i + 1].req - 1 \in Nat /\ v.c.req <= s[i + 1].req - 1
        /\ s[i + 1].req \in Nat
    <3>1. i # Len(s) /\ i + 1 \in 1 .. Len(s) /\ s \in Seq(Token)
      BY LenProperties DEF Flows
    <3>2. s[i + 1] \in Token
      BY <3>1, ElementOfSeq
    <3>3. Just(w.c, w.c.req, s[i + 1].req - 1)
      BY <2>3, <3>1 DEF Waits
    <3> QED
      BY <2>4, <3>2, <3>3 DEF Just, Token
  <2>7. Waits(v.c, s, i + 1)
    <3>1. CASE i + 1 = Len(s)
      <4>1. s[i + 1].req = v.c.sent
        BY <2>2, <3>1 DEF Flows
      <4> QED
        BY <1>5, <2>5, <2>6, <3>1, <4>1 DEF Waits, Just
    <3>2. CASE i + 1 # Len(s)
      <4>1. Len(s) \in Nat /\ i + 1 \in 1 .. Len(s) - 1
        BY <3>2, LenProperties DEF Flows
      <4>2. Follows(s[i + 1], s[(i + 1) + 1])
        BY <4>1 DEF Flows
      <4>3. s[(i + 1) + 1].req \in {s[i + 1].req, s[i + 1].req + 1}
        BY <4>2 DEF Follows
      <4>4. Just(v.c, v.c.req, s[(i + 1) + 1].req - 1)
        BY <1>5, <2>6, <4>3 DEF Just
      <4> QED
        BY <1>5, <2>5, <3>2, <4>4 DEF Waits
    <3> QED
      BY <3>1, <3>2
  <2> QED
    BY <2>4, <2>7 DEF Place
<1> QED
  BY <1>3, <1>7, <1>8 DEF Parsing

LEMMA ParseCases ==
    ASSUME NEW w, NEW t
    PROVE  \/ Parse(w, t) = w /\ (w.c.bad \/ w.c.thrown)
           \/ /\ ~w.c.bad /\ ~w.c.thrown
              /\ \/ Parse(w, t) = OnUrl(w, t) /\ t.part = "url" /\ w.c.at = "start"
                 \/ Parse(w, t) = OnHeadersComplete(w) /\ t.part = "head" /\ w.c.at = "line"
                 \/ Parse(w, t) = OnMessageComplete(w) /\ t.part = "body" /\ w.c.at = "body"
                 \/ Parse(w, t) = MessageDone(w) /\ w.c.at = "done"
           \/ Parse(w, t) = [w EXCEPT !.c.bad = TRUE]
<1> DEFINE bad == w.c.bad \/ w.c.thrown
           url == t.part = "url" /\ w.c.at = "start"
           head == t.part = "head" /\ w.c.at = "line"
           body == t.part = "body" /\ w.c.at = "body"
           done == w.c.at = "done" /\ w.c.kind.body /\ ~w.c.kind.chunked
<1>1. CASE bad
  <2>1. Parse(w, t) = w
    BY <1>1, Zenon DEF Parse
  <2> QED
    BY <1>1, <2>1
<1>2. CASE ~bad /\ url
  <2>1. Parse(w, t) = OnUrl(w, t)
    BY <1>2, SMT DEF Parse
  <2> QED
    BY <1>2, <2>1
<1>3. CASE ~bad /\ head
  <2>1. Parse(w, t) = OnHeadersComplete(w)
    BY <1>3, SMT DEF Parse
  <2> QED
    BY <1>3, <2>1
<1>4. CASE ~bad /\ body
  <2>1. Parse(w, t) = OnMessageComplete(w)
    BY <1>4, SMT DEF Parse
  <2> QED
    BY <1>4, <2>1
<1>5. CASE ~bad /\ done
  <2>1. Parse(w, t) = MessageDone(w)
    BY <1>5, SMT DEF Parse
  <2> QED
    BY <1>5, <2>1
<1>6. CASE ~bad /\ ~url /\ ~head /\ ~body /\ ~done
  BY <1>6, Zenon DEF Parse
<1> QED
  BY <1>1, <1>2, <1>3, <1>4, <1>5, <1>6

LEMMA TokenParsed ==
    ASSUME NEW w, NEW s, Flows(s, w.c.sent), NEW i \in 0 .. Len(s) - 1, Parsing(w, s, i)
    PROVE  LET v == Parse(w, s[i + 1])
           IN  Parsing(v, s, i + 1) /\ Keeps(v, w)
<1>1. PICK t : t = s[i + 1]
  OBVIOUS
<1>2. PICK v : v = Parse(w, t)
  OBVIOUS
<1>3. CASE v = w /\ (w.c.bad \/ w.c.thrown)
  BY <1>1, <1>2, <1>3 DEF Parsing, Place, Keeps
<1>4. CASE v = OnUrl(w, t) /\ t.part = "url" /\ w.c.at = "start" /\ ~w.c.bad /\ ~w.c.thrown
  BY <1>1, <1>2, <1>4, UrlParsed
<1>5. CASE v = OnHeadersComplete(w) /\ t.part = "head" /\ w.c.at = "line" /\ ~w.c.bad /\ ~w.c.thrown
  BY <1>1, <1>2, <1>5, HeadParsed
<1>6. CASE v = OnMessageComplete(w) /\ t.part = "body" /\ w.c.at = "body" /\ ~w.c.bad /\ ~w.c.thrown
  BY <1>1, <1>2, <1>6, BodyParsed
<1>7. CASE v = [w EXCEPT !.c.bad = TRUE]
  <2>1. Parsing(v, s, i + 1) /\ Keeps(v, w)
    BY <1>7, ErrorParsed
  <2> QED
    BY <1>1, <1>2, <2>1
<1>8. \/ v = w /\ (w.c.bad \/ w.c.thrown)
      \/ /\ ~w.c.bad /\ ~w.c.thrown
         /\ \/ v = OnUrl(w, t) /\ t.part = "url" /\ w.c.at = "start"
            \/ v = OnHeadersComplete(w) /\ t.part = "head" /\ w.c.at = "line"
            \/ v = OnMessageComplete(w) /\ t.part = "body" /\ w.c.at = "body"
            \/ v = MessageDone(w) /\ w.c.at = "done"
      \/ v = [w EXCEPT !.c.bad = TRUE]
  BY <1>2, ParseCases
<1>9. CASE v = MessageDone(w) /\ w.c.at = "done" /\ ~w.c.bad /\ ~w.c.thrown
  BY <1>1, <1>2, <1>9, MessageDoneParsed
<1> QED
  BY <1>3, <1>4, <1>5, <1>6, <1>7, <1>8, <1>9

-----------------------------------------------------------------------------
(* What one read gives.                                                    *)

Less == {pair \in Nat \X Nat : pair[1] < pair[2]}

LEMMA AllUpTo ==
    ASSUME NEW n \in Nat, NEW P, 0 \in P, \A k \in 0 .. n - 1 : k \in P => k + 1 \in P
    PROVE  \A k \in 0 .. n : k \in P
<1> DEFINE T == {k \in 0 .. n : k \notin P}
<1>1. SUFFICES ASSUME T # {} PROVE FALSE
  OBVIOUS
<1>2. IsWellFoundedOn(Less, Nat)
  BY NatLessThanWellFounded DEF OpToRel, Less
<1>3. T \in SUBSET Nat
  OBVIOUS
<1>4. PICK m \in T : \A k \in T : ~(<<k, m>> \in Less)
  BY <1>1, <1>2, <1>3, WFMin
<1>5. m \in 1 .. n
  BY <1>4
<1>6. m - 1 \in 0 .. n - 1 /\ m - 1 < m /\ (m - 1) + 1 = m
  BY <1>5
<1>7. <<m - 1, m>> \in Less
  BY <1>3, <1>6 DEF Less
<1>8. m - 1 \in P
  BY <1>4, <1>6, <1>7
<1> QED
  BY <1>4, <1>6, <1>8

Folded(w, toks, fed) ==
    fed = [n \in 0 .. Len(toks) |-> IF n = 0 THEN w ELSE Parse(fed[n - 1], toks[n])]

\* the recursive function that Feed is made of exists
LEMMA FoldExists ==
    ASSUME NEW w, NEW toks, Len(toks) \in Nat PROVE \E fed : Folded(w, toks, fed)
<1> DEFINE Begun(n, g) == g = [k \in 0 .. n |-> IF k = 0 THEN w ELSE Parse(g[k - 1], toks[k])]
           P == {n \in 0 .. Len(toks) : \E g : Begun(n, g)}
<1>1. 0 \in P
  <2> DEFINE g == [k \in 0 .. 0 |-> w]
  <2>1. Begun(0, g)
    OBVIOUS
  <2> HIDE DEF g
  <2>2. \E f : Begun(0, f)
    BY <2>1
  <2> QED
    BY <2>2
<1>2. ASSUME NEW n \in 0 .. Len(toks) - 1, n \in P PROVE n + 1 \in P
  <2>1. PICK g : Begun(n, g)
    BY <1>2
  <2> DEFINE h == [k \in 0 .. n + 1 |-> IF k = n + 1 THEN Parse(g[n], toks[n + 1]) ELSE g[k]]
  <2>2. \A k \in 0 .. n : h[k] = g[k]
    OBVIOUS
  <2>3. ASSUME NEW k \in 0 .. n + 1
        PROVE  h[k] = IF k = 0 THEN w ELSE Parse(h[k - 1], toks[k])
    <3>1. CASE k = n + 1
      <4>1. h[k] = Parse(g[n], toks[n + 1]) /\ k - 1 = n /\ h[k - 1] = g[n] /\ k # 0
        BY <3>1
      <4> QED
        BY <3>1, <4>1
    <3>2. CASE k # n + 1
      <4>1. h[k] = g[k] /\ (k # 0 => h[k - 1] = g[k - 1])
        BY <3>2
      <4>2. g[k] = IF k = 0 THEN w ELSE Parse(g[k - 1], toks[k])
        BY <2>1, <3>2
      <4> QED
        BY <4>1, <4>2
    <3> QED
      BY <3>1, <3>2
  <2>4. Begun(n + 1, h)
    BY <2>3
  <2> HIDE DEF h
  <2>5. \E f : Begun(n + 1, f)
    BY <2>4
  <2> QED
    BY <2>5
<1>3. \A n \in 0 .. Len(toks) : n \in P
  <2> HIDE DEF P
  <2> QED
    BY <1>1, <1>2, AllUpTo
<1>4. Len(toks) \in P
  BY <1>3
<1> QED
  BY <1>4 DEF Folded

\* what an upgrade left of a read is gone with it
LEMMA StartParsed ==
    ASSUME NEW w, NEW s, Parsing(w, s, 0), w.c.at = "left"
    PROVE  LET z == [w EXCEPT !.c.at = "start"]
           IN  Parsing(z, s, 0) /\ Keeps(z, w)
<1>1. PICK z : z = [w EXCEPT !.c.at = "start"]
  OBVIOUS
<1>2. /\ DOMAIN z = DOMAIN w /\ z.me = w.me /\ z.lost = w.lost /\ z.tasks = w.tasks /\ z.high = w.high /\ z.robbed = w.robbed
      /\ DOMAIN z.c = ConFields
      /\ \A f \in ConFields : f # "at" => z.c[f] = w.c[f]
      /\ z.c.at = "start"
  BY <1>1 DEF Parsing, Handed, Base, Shape, ConFields
<1>3. /\ z.c.life = w.c.life /\ z.c.rest = w.c.rest /\ z.c.sent = w.c.sent /\ z.c.kind = w.c.kind
      /\ z.c.req = w.c.req /\ z.c.bad = w.c.bad /\ z.c.pending = w.c.pending
      /\ z.c.thrown = w.c.thrown /\ z.c.open = w.c.open /\ z.c.reads = w.c.reads
      /\ z.c.resume = w.c.resume /\ z.c.answers = w.c.answers /\ z.c.swallowed = w.c.swallowed
      /\ z.c.continued = w.c.continued /\ z.c.complete = w.c.complete
  BY <1>2 DEF ConFields
<1>4. Base(z) /\ ~w.c.pending
  BY <1>2, <1>3 DEF Parsing, Handed, Base, Shape, Timer, InOrder
<1>5. Handed(z) /\ Keeps(z, w)
  BY <1>2, <1>3, <1>4 DEF Parsing, Handed, Keeps, At
<1>6. Place(z.c, s, 0)
  BY <1>2, <1>3, <1>4 DEF Parsing, Place, InStep, Astray, Ahead, Unanswered, Upto
<1> QED
  BY <1>1, <1>5, <1>6 DEF Parsing

LEMMA ReadParsed ==
    ASSUME NEW w, NEW s, Flows(s, w.c.sent), NEW n \in 1 .. Len(s), Parsing(w, s, 0), ~w.c.complete
    PROVE  LET v == Feed(w, SubSeq(s, 1, n))
           IN  Parsing(v, s, n) /\ Keeps(v, w)
<1>1. PICK toks : toks = SubSeq(s, 1, n)
  OBVIOUS
<1>2. Len(s) \in Nat /\ s \in Seq(Token)
  BY LenProperties DEF Flows
<1>3. Len(toks) = n /\ \A i \in 1 .. n : toks[i] = s[i]
  BY <1>1, <1>2, SubSeqProperties
<1>a. PICK z : z = IF w.c.at = "left" THEN [w EXCEPT !.c.at = "start"] ELSE w
  OBVIOUS
<1>b. Parsing(z, s, 0) /\ Keeps(z, w)
  <2>1. CASE w.c.at = "left"
    BY <1>a, <2>1, StartParsed
  <2>2. CASE w.c.at # "left"
    BY <1>a, <2>2 DEF Keeps
  <2> QED
    BY <2>1, <2>2
<1> DEFINE fed == CHOOSE f : Folded(z, toks, f)
<1>4. Folded(z, toks, fed)
  <2>1. Len(toks) \in Nat
    BY <1>3
  <2>2. \E f : Folded(z, toks, f)
    BY <2>1, FoldExists
  <2> QED
    BY <2>2, Zenon
<1>5. Feed(w, toks) = fed[n]
  BY <1>3, <1>a, Zenon DEF Feed, Folded
<1>6. fed = [k \in 0 .. n |-> IF k = 0 THEN z ELSE Parse(fed[k - 1], toks[k])]
  BY <1>3, <1>4 DEF Folded
<1> HIDE DEF fed
<1>7. fed[0] = z /\ \A k \in 0 .. n - 1 : fed[k + 1] = Parse(fed[k], s[k + 1])
  <2>1. fed[0] = z
    BY <1>6
  <2>2. ASSUME NEW k \in 0 .. n - 1 PROVE fed[k + 1] = Parse(fed[k], s[k + 1])
    <3>1. k + 1 \in 0 .. n /\ k + 1 # 0 /\ (k + 1) - 1 = k /\ k + 1 \in 1 .. n
      OBVIOUS
    <3>2. fed[k + 1] = Parse(fed[(k + 1) - 1], toks[k + 1])
      BY <1>6, <3>1
    <3> QED
      BY <1>3, <3>1, <3>2
  <2> QED
    BY <2>1, <2>2
<1> DEFINE P == {k \in 0 .. n : Parsing(fed[k], s, k) /\ Keeps(fed[k], w)}
<1>8. 0 \in P
  BY <1>7, <1>b
<1>9. ASSUME NEW k \in 0 .. n - 1, k \in P PROVE k + 1 \in P
  <2>1. PICK u : u = fed[k]
    OBVIOUS
  <2>2. Parsing(u, s, k) /\ Keeps(u, w) /\ k \in 0 .. Len(s) - 1
    BY <1>2, <1>9, <2>1
  <2>3. Flows(s, u.c.sent)
    BY <2>2 DEF Keeps
  <2>4. PICK v : v = Parse(u, s[k + 1])
    OBVIOUS
  <2>5. Parsing(v, s, k + 1) /\ Keeps(v, u)
    BY ONLY <2>2, <2>3, <2>4, TokenParsed
  <2>6. Keeps(v, w) /\ fed[k + 1] = v
    BY <1>7, <2>1, <2>2, <2>4, <2>5 DEF Keeps
  <2> QED
    BY <2>5, <2>6
<1>10. n \in P
  <2> HIDE DEF P
  <2>1. \A k \in 0 .. n : k \in P
    BY <1>8, <1>9, AllUpTo
  <2> QED
    BY <2>1
<1> QED
  BY <1>1, <1>5, <1>10

-----------------------------------------------------------------------------
(* The stream a client writes.                                             *)

LEMMA TokensAre ==
    ASSUME NEW k \in Kind, NEW n \in Nat
    PROVE  LET q == Tokens(k, n)
           IN  /\ q \in Seq(Token) /\ Len(q) \in {2, 3} /\ (Len(q) = 3 <=> k.body)
               /\ \A i \in 1 .. Len(q) : q[i].kind = k /\ q[i].req = n
               /\ q[1] = [part |-> "url", kind |-> k, req |-> n]
               /\ q[2].part = "head" /\ (Len(q) = 3 => q[3].part = "body")
<1> DEFINE t(p) == [part |-> p, kind |-> k, req |-> n]
<1>1. PICK url, head, body : url = t("url") /\ head = t("head") /\ body = t("body")
  OBVIOUS
<1>2. /\ url \in Token /\ head \in Token /\ body \in Token
      /\ url.part = "url" /\ head.part = "head" /\ body.part = "body"
      /\ url.kind = k /\ head.kind = k /\ body.kind = k
      /\ url.req = n /\ head.req = n /\ body.req = n
  BY <1>1 DEF Token, Part
<1>3. Tokens(k, n) = <<url, head>> \o (IF k.body THEN <<body>> ELSE <<>>)
  BY <1>1, Zenon DEF Tokens
<1>4. CASE k.body
  <2>1. PICK q, a, b : q = a \o b /\ a = <<url, head>> /\ b = <<body>>
    OBVIOUS
  <2>2. /\ a \in Seq(Token) /\ Len(a) = 2 /\ a[1] = url /\ a[2] = head
        /\ b \in Seq(Token) /\ Len(b) = 1 /\ b[1] = body
    BY <1>2, <2>1
  <2>3. /\ q \in Seq(Token) /\ Len(q) = 3 /\ q[1] = url /\ q[2] = head /\ q[3] = body
    BY <2>1, <2>2, ConcatProperties
  <2>4. Tokens(k, n) = q
    BY <1>3, <1>4, <2>1
  <2> HIDE DEF t
  <2>5. \A i \in 1 .. 3 : i = 1 \/ i = 2 \/ i = 3
    OBVIOUS
  <2> QED
    BY <1>1, <1>2, <1>4, <2>3, <2>4, <2>5 DEF t
<1>5. CASE ~k.body
  <2>1. PICK q : q = <<url, head>>
    OBVIOUS
  <2>2. /\ q \in Seq(Token) /\ Len(q) = 2 /\ q[1] = url /\ q[2] = head
    BY <1>2, <2>1
  <2>3. q \o <<>> = q
    BY <2>2, ConcatEmptySeq
  <2>4. Tokens(k, n) = q
    BY <1>3, <1>5, <2>1, <2>3
  <2>5. \A i \in 1 .. Len(q) : i = 1 \/ i = 2
    BY <2>2
  <2>6. \A i \in 1 .. Len(q) : q[i].kind = k /\ q[i].req = n
    BY <1>2, <2>2, <2>5
  <2>7. Len(q) # 3
    BY <2>2
  <2> QED
    BY <1>1, <1>2, <1>5, <2>2, <2>4, <2>6, <2>7
<1> QED
  BY <1>4, <1>5

LEMMA RequestFlows ==
    ASSUME NEW r, NEW m \in Nat, Flows(r, m), NEW k \in Kind, NEW n, n = m + 1
    PROVE  LET s == r \o Tokens(k, n)
           IN  /\ Flows(s, n) /\ s # <<>> /\ s[Len(s)].req = n
               /\ s[1] = IF r = <<>> THEN [part |-> "url", kind |-> k, req |-> n] ELSE r[1]
<1>1. PICK q : q = Tokens(k, n)
  OBVIOUS
<1>2. n \in Nat
  OBVIOUS
<1>3. /\ q \in Seq(Token) /\ Len(q) \in {2, 3} /\ (Len(q) = 3 <=> k.body)
      /\ \A i \in 1 .. Len(q) : q[i].kind = k /\ q[i].req = n
      /\ q[1] = [part |-> "url", kind |-> k, req |-> n]
      /\ q[2].part = "head" /\ (Len(q) = 3 => q[3].part = "body")
  BY ONLY k \in Kind, <1>1, <1>2, TokensAre
<1>4. q[1].part = "url" /\ q[1].req = n /\ q[1].kind = k
  BY <1>3
<1>5. q[2].kind = k /\ q[2].req = n /\ (Len(q) = 3 => q[3].kind = k /\ q[3].req = n)
  BY <1>3
<1>6. ASSUME NEW i \in 1 .. Len(q) - 1 PROVE Follows(q[i], q[i + 1])
  <2>1. CASE i = 1
    <3>1. Follows(q[1], q[2])
      BY <1>3, <1>4, <1>5 DEF Follows, Final, Then
    <3> QED
      BY <2>1, <3>1
  <2>2. CASE i = 2 /\ Len(q) = 3
    <3>1. Follows(q[2], q[3])
      BY <1>3, <1>5, <2>2 DEF Follows, Final, Then
    <3> QED
      BY <2>2, <3>1
  <2> QED
    BY <1>3, <2>1, <2>2
<1>7. Final(q[Len(q)]) /\ q[Len(q)].req = n
  <2>1. CASE Len(q) = 3
    BY <1>3, <1>5, <2>1 DEF Final
  <2>2. CASE Len(q) = 2
    BY <1>3, <1>5, <2>2 DEF Final
  <2> QED
    BY <1>3, <2>1, <2>2
<1>8. PICK s : s = r \o q
  OBVIOUS
<1>9. r \in Seq(Token) /\ Len(r) \in Nat /\ Len(q) \in Nat
  BY <1>3, LenProperties DEF Flows
<1>10. s \in Seq(Token) /\ Len(s) = Len(r) + Len(q)
  BY <1>3, <1>8, <1>9, ConcatProperties
<1>11. \A i \in 1 .. Len(r) : s[i] = r[i]
  BY <1>3, <1>8, <1>9, ConcatProperties
<1>12. \A j \in 1 .. Len(q) : s[Len(r) + j] = q[j]
  <2>1. ASSUME NEW j \in 1 .. Len(q) PROVE s[Len(r) + j] = q[j]
    <3>1. Len(r) + j \in 1 .. Len(r) + Len(q) /\ ~(Len(r) + j <= Len(r)) /\ Len(r) + j - Len(r) = j
      BY <1>9
    <3> QED
      BY <1>3, <1>8, <1>9, <3>1, ConcatProperties
  <2> QED
    BY <2>1
<1>13. ASSUME NEW i \in 1 .. Len(s) - 1 PROVE Follows(s[i], s[i + 1])
  <2>1. CASE i + 1 <= Len(r)
    <3>1. i \in 1 .. Len(r) /\ i + 1 \in 1 .. Len(r) /\ i \in 1 .. Len(r) - 1
      BY <1>9, <1>10, <2>1
    <3>2. s[i] = r[i] /\ s[i + 1] = r[i + 1]
      BY <1>11, <3>1
    <3> QED
      BY <3>1, <3>2 DEF Flows
  <2>2. CASE i = Len(r)
    <3>1. Len(r) \in 1 .. Len(r) /\ 1 \in 1 .. Len(q) /\ r # <<>>
      BY <1>3, <1>9, <2>2, EmptySeq
    <3>2. s[i] = r[Len(r)] /\ s[i + 1] = q[1]
      BY <1>11, <1>12, <2>2, <3>1
    <3>3. Final(r[Len(r)]) /\ r[Len(r)].req = m
      BY <3>1, Zenon DEF Flows
    <3> QED
      BY <1>4, <3>2, <3>3 DEF Follows
  <2>3. CASE i > Len(r)
    <3>1. PICK j : j = i - Len(r)
      OBVIOUS
    <3>2. /\ j \in 1 .. Len(q) - 1 /\ j \in 1 .. Len(q) /\ j + 1 \in 1 .. Len(q)
          /\ Len(r) + j = i /\ Len(r) + (j + 1) = i + 1
      BY <1>9, <1>10, <2>3, <3>1
    <3>3. s[i] = q[j] /\ s[i + 1] = q[j + 1]
      BY <1>12, <3>2
    <3> QED
      BY <1>6, <3>2, <3>3
  <2> QED
    BY <1>9, <1>10, <2>1, <2>2, <2>3
<1>14. Len(s) > 0 /\ s # <<>> /\ s[Len(s)] = q[Len(q)]
  <2>1. Len(q) \in 1 .. Len(q)
    BY <1>3
  <2> QED
    BY <1>3, <1>9, <1>10, <1>12, <2>1, EmptySeq
<1>15. s[1] = IF r = <<>> THEN q[1] ELSE r[1]
  <2>1. CASE r = <<>>
    <3>1. Len(r) + 1 = 1 /\ 1 \in 1 .. Len(q)
      BY <1>3, <2>1
    <3> QED
      BY <1>12, <2>1, <3>1
  <2>2. CASE r # <<>>
    <3>1. 1 \in 1 .. Len(r)
      BY <1>9, <2>2, EmptySeq
    <3> QED
      BY <1>11, <2>2, <3>1
  <2> QED
    BY <2>1, <2>2
<1>16. Flows(s, n)
  BY <1>7, <1>10, <1>13, <1>14 DEF Flows
<1> QED
  BY <1>1, <1>3, <1>7, <1>8, <1>14, <1>15, <1>16

LEMMA WritableIs ==
    ASSUME HttpConfig, NEW c \in Client, NEW s \in Writable(c)
    PROVE  LET m == con[c].sent
               r == con[c].rest
           IN  \/ s = r
               \/ \E k \in Kind : s = r \o Tokens(k, m + 1) /\ m < MaxRequests[c]
               \/ \E k \in Kind, j \in Kind :
                     m + 1 < MaxRequests[c] /\ s = r \o Tokens(k, m + 1) \o Tokens(j, m + 2)
<1> DEFINE m == con[c].sent
           one == {con[c].rest \o Tokens(k, m + 1) : k \in {k \in Sends[c] : m < MaxRequests[c]}}
           some == {k \in Sends[c] : m + 1 < MaxRequests[c]}
           pair(k, j) == con[c].rest \o Tokens(k, m + 1) \o Tokens(j, m + 2)
           two == {pair(k, j) : k \in some, j \in Sends[c]}
<1>0. Sends[c] \subseteq Kind
  BY DEF HttpConfig
<1>1. Writable(c) = {con[c].rest} \cup one \cup two
  BY DEF Writable
<1>2. CASE s \in one
  BY <1>0, <1>2
<1>3. CASE s \in two
  <2> HIDE DEF some, pair
  <2>1. PICK k \in some, j \in Sends[c] : s = pair(k, j)
    BY <1>3, SMT
  <2> QED
    BY <1>0, <2>1 DEF some, pair
<1> HIDE DEF one, two
<1>4. s = con[c].rest \/ s \in one \/ s \in two
  BY <1>1
<1> QED
  BY <1>2, <1>3, <1>4

LEMMA StreamFlows ==
    ASSUME HttpConfig, NEW c \in Client, NEW r, NEW m, con[c].rest = r, con[c].sent = m,
           Flows(r, m), m \in 0 .. MaxRequests[c], NEW s \in Writable(c), s # <<>>
    PROVE  /\ Flows(s, Last(s).req) /\ Last(s).req \in 0 .. MaxRequests[c]
           /\ r # <<>> => s[1] = r[1]
           /\ r = <<>> => s[1].part = "url" /\ s[1].req = m + 1
<1>1. MaxRequests[c] \in Nat /\ m \in Nat
  BY DEF HttpConfig
<1>2. CASE s = r
  <2>1. Last(s).req = m
    BY <1>2, Zenon DEF Flows, Last
  <2> QED
    BY <1>2, <2>1
<1>3. ASSUME NEW k \in Kind, s = r \o Tokens(k, m + 1), m < MaxRequests[c]
      PROVE  /\ Flows(s, Last(s).req) /\ Last(s).req \in 0 .. MaxRequests[c]
             /\ r # <<>> => s[1] = r[1]
             /\ r = <<>> => s[1].part = "url" /\ s[1].req = m + 1
  <2>1. PICK n : n = m + 1
    OBVIOUS
  <2>2. s = r \o Tokens(k, n)
    BY <1>3, <2>1
  <2>3. Flows(s, n) /\ s[Len(s)].req = n
        /\ s[1] = IF r = <<>> THEN [part |-> "url", kind |-> k, req |-> n] ELSE r[1]
    BY ONLY <1>1, Flows(r, m), k \in Kind, <2>1, <2>2, RequestFlows
  <2>4. Last(s).req = n
    BY <2>3, Zenon DEF Last
  <2> QED
    BY <1>1, <1>3, <2>1, <2>3, <2>4
<1>4. ASSUME NEW k \in Kind, NEW j \in Kind, m + 1 < MaxRequests[c],
             s = r \o Tokens(k, m + 1) \o Tokens(j, m + 2)
      PROVE  /\ Flows(s, Last(s).req) /\ Last(s).req \in 0 .. MaxRequests[c]
             /\ r # <<>> => s[1] = r[1]
             /\ r = <<>> => s[1].part = "url" /\ s[1].req = m + 1
  <2>1. PICK n, o : n = m + 1 /\ o = m + 2
    OBVIOUS
  <2>2. n \in Nat /\ o = n + 1
    BY <1>1, <2>1
  <2>3. PICK u : u = r \o Tokens(k, n)
    OBVIOUS
  <2>4. Flows(u, n) /\ u # <<>>
        /\ u[1] = IF r = <<>> THEN [part |-> "url", kind |-> k, req |-> n] ELSE r[1]
    BY ONLY <1>1, Flows(r, m), k \in Kind, <2>1, <2>3, RequestFlows
  <2>5. s = u \o Tokens(j, o)
    BY <1>4, <2>1, <2>3
  <2>6. Flows(s, o) /\ s[Len(s)].req = o
        /\ s[1] = IF u = <<>> THEN [part |-> "url", kind |-> j, req |-> o] ELSE u[1]
    <3>1. Flows(u, n)
      BY <2>4
    <3> QED
      BY ONLY <2>2, <3>1, <2>5, j \in Kind, RequestFlows
  <2>7. Last(s).req = o
    BY <2>6, Zenon DEF Last
  <2> QED
    BY <1>1, <1>4, <2>1, <2>4, <2>6, <2>7
<1>5. \/ s = r
      \/ \E k \in Kind : s = r \o Tokens(k, m + 1) /\ m < MaxRequests[c]
      \/ \E k \in Kind, j \in Kind : m + 1 < MaxRequests[c] /\ s = r \o Tokens(k, m + 1) \o Tokens(j, m + 2)
  BY WritableIs
<1> QED
  BY <1>2, <1>3, <1>4, <1>5

-----------------------------------------------------------------------------
(* The invariant.                                                          *)

Ranges(x, c) ==
    /\ c.life \in {"new", "posted", "up", "upgraded", "freed"}
    /\ c.reads \in 0 .. 1
    /\ c.at \in At
    /\ c.sent \in 0 .. MaxRequests[x]

Unread(c) ==
    /\ ~c.resume /\ ~c.thrown /\ ~c.bad
    /\ c.rest = <<>> /\ c.sent = 0 /\ c.answers = <<>>

\* a connection of client x between two steps
Rests(x, c) ==
    /\ DOMAIN c = ConFields
    /\ Ranges(x, c)
    /\ c.life \in {"new", "posted", "freed"} => c.reads = 0 /\ ~c.pending
    /\ c.life \in {"new", "posted"} => Unread(c)
    /\ ~c.continued /\ InOrder(c) /\ Flows(c.rest, c.sent)
    /\ c.reads = 1 => /\ ~c.resume /\ ~c.pending /\ ~c.complete /\ ~c.thrown /\ ~c.bad
                      /\ c.open => InStep(c, c.rest, 0) \/ Astray(c, c.rest, 0)
    /\ c.pending => /\ c.open => Waits(c, c.rest, 0)
                    /\ c.resume => ~c.thrown /\ ~c.bad
                    /\ c.life \in {"up", "upgraded"}

HttpInv ==
    /\ con = [x \in Client |-> con[x]]
    /\ TasksOk(tasks, highest_id)
    /\ \A x \in Client : Rests(x, con[x]) /\ Timed(x, con[x], tasks, robbed)

Settled(w) ==
    /\ Timer(w) /\ "c" \in DOMAIN w /\ "me" \in DOMAIN w
    /\ Rests(w.me, w.c) /\ Timed(w.me, w.c, w.tasks, w.robbed)

LEMMA NoTokens == ASSUME NEW m PROVE Flows(<<>>, m)
<1>1. <<>> \in Seq(Token) /\ Len(<<>>) = 0
  OBVIOUS
<1> QED
  BY <1>1 DEF Flows

LEMMA FreshRests == ASSUME HttpConfig, NEW x \in Client PROVE Rests(x, Fresh) /\ Fresh.reads = 0
<1>1. /\ Fresh.life = "new" /\ Fresh.reads = 0 /\ Fresh.at = "start" /\ Fresh.sent = 0
      /\ Fresh.rest = <<>> /\ Fresh.continued = FALSE /\ Fresh.pending = FALSE /\ Fresh.answers = <<>>
      /\ DOMAIN Fresh = ConFields /\ Unread(Fresh)
  BY DEF Fresh, ConFields, Unread
<1>2. Ranges(x, Fresh)
  BY <1>1 DEF Ranges, At, HttpConfig
<1>3. InOrder(Fresh) /\ Flows(Fresh.rest, Fresh.sent)
  BY <1>1, NoTokens DEF InOrder
<1> QED
  BY <1>1, <1>2, <1>3 DEF Rests

\* the deletion of what nothing refers to
LEMMA Released ==
    ASSUME HttpConfig, NEW x \in Client, NEW w, NEW c, NEW ts, NEW rb, "c" \in DOMAIN w, w.c = c,
           Rests(x, c), Timed(x, c, ts, rb)
    PROVE  Rests(x, Release(w).c) /\ Timed(x, Release(w).c, ts, rb)
<1>1. PICK d : d = [Fresh EXCEPT !.life = "freed", !.answers = c.answers, !.swallowed = c.swallowed]
  OBVIOUS
<1>2. /\ d.life = "freed" /\ d.reads = 0 /\ d.at = "start" /\ d.sent = 0
      /\ d.rest = <<>> /\ d.continued = FALSE /\ d.pending = FALSE /\ d.answers = c.answers /\ d.swallowed = c.swallowed
      /\ DOMAIN d = ConFields
  BY <1>1 DEF Fresh, ConFields
<1>3. Rests(x, d) /\ d.reads = 0
  <2>1. Ranges(x, d)
    BY <1>2 DEF Ranges, At, HttpConfig
  <2>2. InOrder(d) /\ Flows(d.rest, d.sent)
    BY <1>2, NoTokens DEF InOrder, Rests
  <2> QED
    BY <1>2, <2>1, <2>2 DEF Rests
<1>4. Timed(x, d, ts, rb)
  BY <1>3 DEF Timed
<1>5. Release(w).c = c \/ Release(w).c = d
  BY <1>1 DEF Release
<1> QED
  BY <1>3, <1>4, <1>5

LEMMA WorldIs ==
    ASSUME HttpInv, NEW x \in Client
    PROVE  LET w == World(x)
           IN  Shape(w) /\ Timer(w) /\ w.me = x /\ w.c = con[x]
<1>1. Rests(x, con[x])
  BY DEF HttpInv
<1> QED
  BY <1>1 DEF World, Shape, Timer, HttpInv, Rests

LEMMA BecomesKeeps ==
    ASSUME HttpConfig, HttpInv, NEW w, Settled(w), Becomes(w)
    PROVE  HttpInv'
<1>1. /\ con' = [x \in Client |-> IF x = w.me THEN Release(w).c
                                  ELSE Release([w EXCEPT !.me = x, !.c = con[x]]).c]
      /\ tasks' = w.tasks /\ highest_id' = w.high /\ robbed' = w.robbed
  BY DEF Becomes
<1>2. ASSUME NEW x \in Client PROVE Rests(x, con'[x]) /\ Timed(x, con'[x], w.tasks, w.robbed)
  <2>1. CASE x = w.me
    <3>1. con'[x] = Release(w).c
      BY <1>1, <2>1
    <3> QED
      BY <2>1, <3>1, Released DEF Settled
  <2>2. CASE x # w.me
    <3>1. PICK v : v = [w EXCEPT !.me = x, !.c = con[x]]
      OBVIOUS
    <3>2. "c" \in DOMAIN v /\ v.c = con[x]
      BY <3>1 DEF Settled
    <3>3. con'[x] = Release(v).c
      BY <1>1, <2>2, <3>1
    <3>4. Rests(x, con[x]) /\ Timed(x, con[x], w.tasks, w.robbed)
      BY <2>2 DEF HttpInv, Settled, Timer
    <3> QED
      BY <3>2, <3>3, <3>4, Released
  <2> QED
    BY <2>1, <2>2
<1>3. con' = [x \in Client |-> con'[x]]
  BY <1>1
<1>4. TasksOk(tasks, highest_id)'
  <2>1. TasksOk(w.tasks, w.high)
    BY DEF Settled, Timer
  <2> QED
    BY <1>1, <2>1 DEF TasksOk
<1>5. \A x \in Client : Rests(x, con[x])' /\ Timed(x, con[x], tasks, robbed)'
  <2>1. SUFFICES ASSUME NEW x \in Client PROVE Rests(x, con'[x]) /\ Timed(x, con'[x], tasks', robbed')
    BY DEF Rests, Ranges, Unread, Timed, Due, InOrder, Upto, Just, Unanswered, Ahead, Flows, InStep, Astray, Waits, Follows, Final, Awaits, Then, Token, Part, At, ConFields, Fresh, NoKind
  <2> QED
    BY <1>1, <1>2
<1> QED
  BY <1>3, <1>4, <1>5 DEF HttpInv

-----------------------------------------------------------------------------
(* The steps.                                                              *)

LEMMA InitRests == HttpConfig /\ HttpInit => HttpInv
BY FreshRests DEF HttpInit, HttpInv, TasksOk, Timed

LEMMA AcceptRests == ASSUME HttpInv, NEW c \in Client, Accept(c) PROVE HttpInv'
<1>1. PICK d : d = [con[c] EXCEPT !.life = "posted", !.open = TRUE]
  OBVIOUS
<1>2. Rests(c, con[c]) /\ con[c].life = "new"
  BY DEF HttpInv, Accept
<1>3. /\ DOMAIN d = ConFields
      /\ \A f \in ConFields : f \notin {"life", "open"} => d[f] = con[c][f]
      /\ d.life = "posted"
  BY <1>1, <1>2 DEF Rests, ConFields
<1>4. /\ d.rest = con[c].rest /\ d.sent = con[c].sent /\ d.pending = con[c].pending
      /\ d.thrown = con[c].thrown /\ d.reads = con[c].reads /\ d.bad = con[c].bad
      /\ d.resume = con[c].resume /\ d.answers = con[c].answers /\ d.swallowed = con[c].swallowed /\ d.continued = con[c].continued
      /\ d.at = con[c].at
  BY <1>3 DEF ConFields
<1>5. Rests(c, d) /\ d.reads = 0
  BY <1>2, <1>3, <1>4 DEF Rests, Ranges, Unread, InOrder
<1>6. con' = [con EXCEPT ![c] = d] /\ UNCHANGED <<tasks, highest_id, robbed>>
  BY <1>1, Zenon DEF Accept
<1>7. con' = [x \in Client |-> IF x = c THEN d ELSE con[x]]
  BY <1>6 DEF HttpInv
<1>8. ASSUME NEW x \in Client PROVE Rests(x, con'[x]) /\ Timed(x, con'[x], tasks, robbed)
  BY <1>5, <1>7 DEF HttpInv, Timed
<1>9. \A x \in Client : Rests(x, con[x])' /\ Timed(x, con[x], tasks, robbed)'
  <2>1. SUFFICES ASSUME NEW x \in Client PROVE Rests(x, con'[x]) /\ Timed(x, con'[x], tasks', robbed')
    BY DEF Rests, Ranges, Unread, Timed, Due, InOrder, Upto, Just, Unanswered, Ahead, Flows, InStep, Astray, Waits, Follows, Final, Awaits, Then, Token, Part, At, ConFields, Fresh, NoKind
  <2> QED
    BY <1>6, <1>8
<1>10. con' = [x \in Client |-> con'[x]]
  BY <1>7
<1> QED
  BY <1>6, <1>9, <1>10 DEF HttpInv, TasksOk

LEMMA StartRests == ASSUME HttpConfig, HttpInv, NEW c \in Client, Start(c) PROVE HttpInv'
<1>1. PICK w : w = World(c)
  OBVIOUS
<1>2. Shape(w) /\ Timer(w) /\ w.me = c /\ w.c = con[c] /\ Rests(c, w.c) /\ w.c.life = "posted"
  BY <1>1, WorldIs DEF HttpInv, Start
<1>3. PICK x : x = [w EXCEPT !.c.life = "up"]
  OBVIOUS
<1>4. /\ DOMAIN x = DOMAIN w /\ x.me = w.me /\ x.lost = w.lost /\ x.tasks = w.tasks /\ x.high = w.high /\ x.robbed = w.robbed
      /\ DOMAIN x.c = ConFields
      /\ \A f \in ConFields : f # "life" => x.c[f] = w.c[f]
      /\ x.c.life = "up"
  BY <1>2, <1>3 DEF Shape, ConFields
<1>5. Shape(x) /\ Timer(x)
  BY <1>2, <1>4 DEF Shape, Timer
<1>6. PICK u : u = StartDeadline(x)
  OBVIOUS
<1>7. /\ Shape(u) /\ Timer(u) /\ u.c = [x.c EXCEPT !.task = u.c.task]
      /\ u.me = x.me /\ u.lost = x.lost /\ Due(u.me, u.c, u.tasks)
  BY ONLY <1>5, <1>6, StartDeadlineKeeps
<1>8. \A f \in ConFields : f # "task" => u.c[f] = x.c[f]
  BY <1>4, <1>7 DEF ConFields
<1>9. PICK v : v = DoRead(ParserClear(u))
  OBVIOUS
<1>10. /\ DOMAIN v = DOMAIN u /\ v.me = u.me /\ v.tasks = u.tasks /\ v.high = u.high /\ v.robbed = u.robbed
       /\ DOMAIN v.c = ConFields
       /\ \A f \in ConFields : f \notin {"at", "complete", "reads"} => v.c[f] = u.c[f]
       /\ v.c.reads = u.c.reads + 1 /\ v.c.at = "start" /\ v.c.complete = FALSE
  BY <1>7, <1>9 DEF DoRead, ParserClear, Shape, ConFields
<1>11. /\ v.c.rest = w.c.rest /\ v.c.sent = w.c.sent /\ v.c.pending = w.c.pending
       /\ v.c.thrown = w.c.thrown /\ v.c.bad = w.c.bad /\ u.c.reads = w.c.reads
       /\ v.c.resume = w.c.resume /\ v.c.answers = w.c.answers /\ v.c.swallowed = w.c.swallowed /\ v.c.continued = w.c.continued
       /\ v.c.life = "up" /\ v.c.task = u.c.task
  BY <1>4, <1>8, <1>10 DEF ConFields
<1>12. Unread(w.c) /\ w.c.reads = 0 /\ ~w.c.pending
  BY <1>2 DEF Rests
<1>13. InStep(v.c, v.c.rest, 0)
  <2>1. Len(<<>>) = 0
    OBVIOUS
  <2> QED
    BY <1>10, <1>11, <1>12, <2>1 DEF Unread, InStep, Ahead, Upto
<1>14. Rests(c, v.c)
  BY <1>2, <1>10, <1>11, <1>12, <1>13 DEF Rests, Ranges, Unread, InOrder, At
<1>15. Due(v.me, v.c, v.tasks) /\ Timer(v)
  BY <1>7, <1>10, <1>11 DEF Due, Timer
<1>16. Settled(v)
  BY <1>2, <1>4, <1>7, <1>10, <1>14, <1>15 DEF Settled, Shape, Timed
<1>17. Becomes(v)
  BY <1>1, <1>3, <1>6, <1>9, Zenon DEF Start
<1> QED
  BY <1>16, <1>17, BecomesKeeps

LEMMA ReadFailsRests == ASSUME HttpConfig, HttpInv, NEW c \in Client, ReadFails(c) PROVE HttpInv'
<1>1. PICK w : w = World(c)
  OBVIOUS
<1>2. Shape(w) /\ Timer(w) /\ w.me = c /\ w.c = con[c] /\ Rests(c, w.c) /\ w.c.life = "up" /\ w.c.reads > 0
  BY <1>1, WorldIs DEF HttpInv, ReadFails
<1>3. PICK x : x = [w EXCEPT !.c.reads = @ - 1]
  OBVIOUS
<1>4. /\ DOMAIN x = DOMAIN w /\ x.me = w.me /\ x.lost = w.lost /\ x.tasks = w.tasks /\ x.high = w.high /\ x.robbed = w.robbed
      /\ DOMAIN x.c = ConFields
      /\ \A f \in ConFields : f # "reads" => x.c[f] = w.c[f]
      /\ x.c.reads = w.c.reads - 1
  BY <1>2, <1>3 DEF Shape, ConFields
<1>5. Shape(x) /\ Timer(x)
  BY <1>2, <1>4 DEF Shape, Timer
<1>6. PICK u : u = Cancel(x)
  OBVIOUS
<1>7. Shape(u) /\ Timer(u) /\ u.c = x.c /\ u.me = x.me /\ u.lost = x.lost
  BY ONLY <1>5, <1>6, CancelKeeps
<1>8. PICK v : v = Shut(u)
  OBVIOUS
<1>9. /\ DOMAIN v = DOMAIN u /\ v.me = u.me /\ v.tasks = u.tasks /\ v.high = u.high /\ v.robbed = u.robbed
      /\ DOMAIN v.c = ConFields
      /\ \A f \in ConFields : f # "open" => v.c[f] = x.c[f]
      /\ v.c.open = FALSE
  BY <1>4, <1>7, <1>8 DEF Shut, Shape, ConFields
<1>10. /\ v.c.rest = w.c.rest /\ v.c.sent = w.c.sent /\ v.c.pending = w.c.pending
       /\ v.c.answers = w.c.answers /\ v.c.swallowed = w.c.swallowed /\ v.c.continued = w.c.continued
       /\ v.c.at = w.c.at /\ v.c.life = w.c.life /\ v.c.reads = w.c.reads - 1
  BY <1>4, <1>9 DEF ConFields
<1>11. w.c.reads = 1 /\ ~w.c.pending
  BY <1>2 DEF Rests, Ranges
<1>12. Rests(c, v.c)
  BY <1>2, <1>9, <1>10, <1>11 DEF Rests, Ranges, InOrder
<1>13. Settled(v)
  BY <1>2, <1>4, <1>7, <1>9, <1>12 DEF Settled, Shape, Timer, Timed
<1>14. Becomes(v)
  BY <1>1, <1>3, <1>6, <1>8, Zenon DEF ReadFails
<1> QED
  BY <1>13, <1>14, BecomesKeeps

\* the application answers the request that waits
LEMMA WaitingAnswered ==
    ASSUME HttpConfig, HttpInv, NEW c \in Client, NEW w, w = World(c), NEW lost, w.c.pending
    PROVE  Settled(CompleteRequest([w EXCEPT !.lost = lost, !.c.ends = @ - 1, !.c.pending = FALSE]))
<1>2. Shape(w) /\ Timer(w) /\ w.me = c /\ w.c = con[c] /\ Rests(c, w.c) /\ w.c.pending
  BY WorldIs DEF HttpInv
<1>4. PICK x : x = [w EXCEPT !.lost = lost, !.c.ends = @ - 1, !.c.pending = FALSE]
  OBVIOUS
<1>5. /\ DOMAIN x = DOMAIN w /\ x.me = w.me /\ x.tasks = w.tasks /\ x.high = w.high /\ x.robbed = w.robbed
      /\ DOMAIN x.c = ConFields
      /\ \A f \in ConFields : f \notin {"pending", "ends"} => x.c[f] = w.c[f]
      /\ x.c.pending = FALSE
  BY <1>2, <1>4 DEF Shape, ConFields
<1>6. /\ x.c.life = w.c.life /\ x.c.rest = w.c.rest /\ x.c.sent = w.c.sent /\ x.c.req = w.c.req
      /\ x.c.bad = w.c.bad /\ x.c.thrown = w.c.thrown /\ x.c.open = w.c.open /\ x.c.reads = w.c.reads
      /\ x.c.resume = w.c.resume /\ x.c.answers = w.c.answers /\ x.c.swallowed = w.c.swallowed /\ x.c.continued = w.c.continued
      /\ x.c.at = w.c.at
  BY <1>5 DEF ConFields
<1>7. Base(x)
  BY <1>2, <1>5, <1>6 DEF Base, Shape, Timer, InOrder, Rests
<1>8. /\ x.c.reads = 0 /\ (x.c.open => Waits(x.c, x.c.rest, 0))
      /\ x.c.resume => ~x.c.thrown /\ ~x.c.bad
      /\ x.c.life \in {"up", "upgraded"}
  BY <1>2, <1>6, w.c.pending DEF Rests, Ranges, Waits, Just, Unanswered, Upto
<1>9. x.c.open => Unanswered(x.c, x.c.req)
  BY <1>8 DEF Waits
<1>10. PICK v : v = CompleteRequest(x)
  OBVIOUS
<1>11. /\ Base(v) /\ Like(v, x) /\ ~v.c.after
       /\ \/ /\ v.c.thrown /\ v.c.at = x.c.at /\ v.c.complete = x.c.complete
             /\ v.c.open = x.c.open /\ v.c.answers = x.c.answers /\ v.c.swallowed = x.c.swallowed
             /\ v.c.reads = 0 /\ v.c.resume = x.c.resume
          \/ /\ v.c.thrown = x.c.thrown /\ v.c.at = "start" /\ ~v.c.complete
             /\ v.c.open => x.c.open /\ Upto(v.c, x.c.req)
             /\ (v.c.reads = 0 /\ v.c.resume = x.c.resume) \/ (x.c.resume /\ v.c.open = x.c.open /\ Reading(v))
  <2>1. x.c.reads = 0
    BY <1>8
  <2> QED
    BY ONLY <1>7, <1>9, <1>10, <2>1, RequestCompleted
<1>12. ~v.c.pending /\ v.c.life \in {"up", "upgraded"} /\ v.c.at \in At /\ v.c.reads \in 0 .. 1
  BY <1>2, <1>5, <1>6, <1>8, <1>11 DEF Like, Reading, Rests, Ranges, At
<1>13. ASSUME v.c.reads = 1
       PROVE  /\ Reading(v) /\ ~v.c.thrown /\ ~v.c.bad /\ ~v.c.complete
              /\ v.c.open => InStep(v.c, v.c.rest, 0) \/ Astray(v.c, v.c.rest, 0)
  <2>1. /\ x.c.resume /\ v.c.open = x.c.open /\ Reading(v) /\ v.c.thrown = x.c.thrown
        /\ v.c.at = "start" /\ ~v.c.complete /\ (v.c.open => Upto(v.c, x.c.req))
    BY <1>11, <1>13
  <2>2. v.c.rest = x.c.rest /\ v.c.sent = x.c.sent /\ v.c.bad = x.c.bad
    BY <1>11 DEF Like
  <2>4. v.c.swallowed = x.c.swallowed
    BY <1>11 DEF Like
  <2>3. v.c.open => InStep(v.c, v.c.rest, 0) \/ Astray(v.c, v.c.rest, 0)
    <3>1. SUFFICES ASSUME v.c.open PROVE InStep(v.c, v.c.rest, 0) \/ Astray(v.c, v.c.rest, 0)
      OBVIOUS
    <3>2. Waits(x.c, x.c.rest, 0) /\ Upto(v.c, x.c.req) /\ Ahead(v.c) = "start"
      BY <1>8, <2>1, <3>1 DEF Ahead
    <3>3. x.c.rest \in Seq(Token) /\ Len(x.c.rest) \in Nat
      BY <1>2, <1>6, LenProperties DEF Rests, Flows
    <3>4. CASE Len(x.c.rest) = 0
      <4>1. Just(x.c, x.c.req, x.c.sent)
        BY <3>2, <3>4 DEF Waits
      <4>2. Upto(v.c, v.c.sent)
        BY <1>11, <2>2, <2>4, <3>2, <4>1, Later DEF Base
      <4> QED
        BY <2>2, <3>2, <3>4, <4>2 DEF InStep
    <3>5. CASE Len(x.c.rest) # 0 /\ x.c.rest[1].part = "url"
      <4>1. Just(x.c, x.c.req, x.c.rest[1].req - 1) /\ x.c.rest[1] \in Token
        BY <3>2, <3>3, <3>5, ElementOfSeq DEF Waits
      <4>2. Upto(v.c, x.c.rest[1].req - 1)
        BY <1>11, <2>4, <3>2, <4>1, Later DEF Base
      <4>3. Unanswered(v.c, x.c.rest[1].req)
        BY <4>1, <4>2 DEF Unanswered, Upto, Token
      <4> QED
        BY <2>2, <3>2, <3>5, <4>3 DEF InStep, Awaits
    <3>6. CASE Len(x.c.rest) # 0 /\ x.c.rest[1].part # "url"
      BY <2>2, <3>2, <3>3, <3>6 DEF Astray
    <3> QED
      BY <3>4, <3>5, <3>6
  <2> QED
    BY <1>8, <2>1, <2>2, <2>3
<1>14. Rests(c, v.c)
  <2>1. v.c.rest = x.c.rest /\ v.c.sent = x.c.sent
    BY <1>11 DEF Like
  <2>2. Ranges(c, v.c) /\ Flows(v.c.rest, v.c.sent)
    BY <1>2, <1>6, <1>12, <2>1 DEF Ranges, Rests
  <2>3. DOMAIN v.c = ConFields /\ ~v.c.continued /\ InOrder(v.c)
    BY <1>11 DEF Base, Shape
  <2> QED
    BY <1>12, <1>13, <2>2, <2>3 DEF Rests, Reading
<1>15. Settled(v)
  <2>1. v.me = c /\ Timer(v) /\ Shape(v)
    BY <1>2, <1>5, <1>11 DEF Like, Base
  <2>2. Timed(v.me, v.c, v.tasks, v.robbed)
    BY <1>13 DEF Timed, Reading
  <2> QED
    BY <1>14, <2>1, <2>2 DEF Settled, Shape
<1> QED
  BY <1>4, <1>10, <1>15

\* or what comes next is not to be handled
LEMMA AnswerKept ==
    ASSUME HttpConfig, HttpInv, NEW c \in Client, NEW w, w = World(c), NEW lost
    PROVE  Settled([w EXCEPT !.lost = lost, !.c.ends = @ - 1, !.c.completed = TRUE])
<1>1. PICK x : x = [w EXCEPT !.lost = lost, !.c.ends = @ - 1, !.c.completed = TRUE]
  OBVIOUS
<1>2. Shape(w) /\ Timer(w) /\ w.me = c /\ w.c = con[c] /\ Rests(c, w.c) /\ Timed(c, w.c, tasks, robbed)
      /\ w.tasks = tasks /\ w.robbed = robbed
  BY WorldIs DEF HttpInv, World
<1>3. /\ DOMAIN x = DOMAIN w /\ x.me = w.me /\ x.tasks = w.tasks /\ x.high = w.high /\ x.robbed = w.robbed
      /\ DOMAIN x.c = ConFields
      /\ \A f \in ConFields : f \notin {"completed", "ends"} => x.c[f] = w.c[f]
  BY <1>1, <1>2 DEF Shape, ConFields
<1>4. /\ x.c.life = w.c.life /\ x.c.rest = w.c.rest /\ x.c.sent = w.c.sent /\ x.c.req = w.c.req
      /\ x.c.bad = w.c.bad /\ x.c.thrown = w.c.thrown /\ x.c.open = w.c.open /\ x.c.reads = w.c.reads
      /\ x.c.resume = w.c.resume /\ x.c.answers = w.c.answers /\ x.c.swallowed = w.c.swallowed /\ x.c.continued = w.c.continued
      /\ x.c.at = w.c.at /\ x.c.pending = w.c.pending /\ x.c.complete = w.c.complete /\ x.c.kind = w.c.kind
      /\ x.c.task = w.c.task
  BY <1>3 DEF ConFields
<1>5. /\ InStep(w.c, w.c.rest, 0) => InStep(x.c, x.c.rest, 0)
      /\ Astray(w.c, w.c.rest, 0) => Astray(x.c, x.c.rest, 0)
      /\ Waits(w.c, w.c.rest, 0) => Waits(x.c, x.c.rest, 0)
  BY <1>4 DEF InStep, Astray, Waits, Ahead, Just, Unanswered, Upto
<1>6. Ranges(c, x.c) /\ (Unread(w.c) => Unread(x.c)) /\ InOrder(x.c) /\ Flows(x.c.rest, x.c.sent)
  BY <1>2, <1>4 DEF Rests, Ranges, Unread, InOrder
<1>7. Rests(c, x.c)
  BY <1>2, <1>3, <1>4, <1>5, <1>6 DEF Rests
<1>8. Timed(c, x.c, x.tasks, x.robbed)
  BY <1>2, <1>3, <1>4 DEF Timed, Due
<1> QED
  BY <1>1, <1>2, <1>3, <1>7, <1>8 DEF Settled, Shape, Timer

LEMMA EndRests == ASSUME HttpConfig, HttpInv, NEW c \in Client, End(c) PROVE HttpInv'
<1>1. PICK w : w = World(c)
  OBVIOUS
<1>2. Shape(w)
  BY <1>1, WorldIs
<1> DEFINE y(lost) == [w EXCEPT !.lost = lost, !.c.ends = @ - 1]
<1>3. PICK lost \in BOOLEAN :
         Becomes(IF y(lost).c.pending THEN CompleteRequest([y(lost) EXCEPT !.c.pending = FALSE])
                 ELSE [y(lost) EXCEPT !.c.completed = TRUE])
  BY <1>1, Zenon DEF End
<1>4. /\ y(lost).c.pending = w.c.pending
      /\ [y(lost) EXCEPT !.c.pending = FALSE] = [w EXCEPT !.lost = lost, !.c.ends = @ - 1, !.c.pending = FALSE]
      /\ [y(lost) EXCEPT !.c.completed = TRUE] = [w EXCEPT !.lost = lost, !.c.ends = @ - 1, !.c.completed = TRUE]
  BY <1>2 DEF Shape, ConFields
<1> HIDE DEF y
<1>5. CASE w.c.pending
  <2>1. PICK v : v = CompleteRequest([w EXCEPT !.lost = lost, !.c.ends = @ - 1, !.c.pending = FALSE])
    OBVIOUS
  <2>2. Settled(v)
    BY <1>1, <1>5, <2>1, WaitingAnswered
  <2>3. Becomes(v)
    BY <1>3, <1>4, <1>5, <2>1
  <2> QED
    BY <2>2, <2>3, BecomesKeeps
<1>6. CASE ~w.c.pending
  <2>1. PICK v : v = [w EXCEPT !.lost = lost, !.c.ends = @ - 1, !.c.completed = TRUE]
    OBVIOUS
  <2>2. Settled(v)
    BY <1>1, <2>1, AnswerKept
  <2>3. Becomes(v)
    BY <1>3, <1>4, <1>6, <2>1
  <2> QED
    BY <2>2, <2>3, BecomesKeeps
<1> QED
  BY <1>5, <1>6

\* what is left of the stream after a read
LEMMA RestFlows ==
    ASSUME NEW s, NEW last, Flows(s, last), s # <<>>, NEW n \in 1 .. Len(s)
    PROVE  LET r == SubSeq(s, n + 1, Len(s))
           IN  /\ Flows(r, last)
               /\ r = <<>> <=> n = Len(s)
               /\ n # Len(s) => r[1] = s[n + 1]
<1>0. PICK r : r = SubSeq(s, n + 1, Len(s))
  OBVIOUS
<1>1. s \in Seq(Token) /\ Len(s) \in Nat /\ n \in Nat
  BY LenProperties DEF Flows
<1>2. /\ r \in Seq(Token) /\ Len(r) = Len(s) - n
      /\ \A i \in 1 .. Len(s) - n : r[i] = s[n + i]
  <2>1. n + 1 \in 1 .. Len(s) + 1 /\ Len(s) \in n .. Len(s)
    BY <1>1
  <2> QED
    BY <1>0, <1>1, <2>1, SubSeqProperties
<1>3. r = <<>> <=> n = Len(s)
  <2>1. r = <<>> <=> Len(r) = 0
    BY <1>2, EmptySeq
  <2> QED
    BY <1>1, <1>2, <2>1
<1>4. ASSUME NEW i \in 1 .. Len(r) - 1 PROVE Follows(r[i], r[i + 1])
  <2>1. i \in 1 .. Len(s) - n /\ i + 1 \in 1 .. Len(s) - n /\ n + i \in 1 .. Len(s) - 1 /\ n + (i + 1) = (n + i) + 1
    BY <1>1, <1>2
  <2>2. r[i] = s[n + i] /\ r[i + 1] = s[(n + i) + 1]
    BY <1>2, <2>1
  <2> QED
    BY <2>1, <2>2 DEF Flows
<1>5. ASSUME r # <<>> PROVE Final(r[Len(r)]) /\ r[Len(r)].req = last
  <2>1. Len(r) \in 1 .. Len(s) - n /\ n + Len(r) = Len(s)
    BY <1>1, <1>2, <1>3, <1>5
  <2>2. r[Len(r)] = s[Len(s)]
    BY <1>2, <2>1
  <2>3. Final(s[Len(s)]) /\ s[Len(s)].req = last
    BY Zenon DEF Flows
  <2> QED
    BY <2>2, <2>3
<1>6. n # Len(s) => r[1] = s[n + 1]
  <2>1. n # Len(s) => 1 \in 1 .. Len(s) - n
    BY <1>1
  <2> QED
    BY <1>2, <2>1
<1>7. Flows(r, last)
  BY <1>2, <1>4, <1>5 DEF Flows
<1> QED
  BY <1>0, <1>3, <1>6, <1>7

\* the read handler after the parser
LEMMA AfterReadRests ==
    ASSUME HttpConfig, NEW v, Handed(v), NEW s, NEW n \in 0 .. Len(s), Place(v.c, s, n),
           v.me \in Client, Flows(v.c.rest, v.c.sent), v.c.sent \in 0 .. MaxRequests[v.me],
           (n = Len(s) <=> v.c.rest = <<>>), n # Len(s) => v.c.rest[1] = s[n + 1]
    PROVE  Settled(AfterRead(v))
<1>1. Base(v) /\ v.c.reads = 0 /\ ~v.c.resume /\ v.c.life \in {"up", "upgraded"}
  BY DEF Handed
<1>2. Place(v.c, v.c.rest, 0)
  <2>1. v.c.rest \in Seq(Token) /\ (v.c.rest = <<>> <=> Len(v.c.rest) = 0) /\ Len(v.c.rest) \in Nat
    BY LenProperties, EmptySeq DEF Flows
  <2>2. (InStep(v.c, s, n) => InStep(v.c, v.c.rest, 0)) /\ (Waits(v.c, s, n) => Waits(v.c, v.c.rest, 0))
    BY <2>1 DEF InStep, Waits
  <2>3. Astray(v.c, s, n) => Astray(v.c, v.c.rest, 0)
    <3>1. Astray(v.c, s, n) => n # Len(s)
      BY DEF Astray
    <3> QED
      BY <2>1, <3>1 DEF Astray
  <2> QED
    BY <2>2, <2>3 DEF Place
\* a state of the connection with no read outstanding
<1>3. ASSUME NEW y, Timer(y), Shape(y), y.me = v.me,
             /\ y.c.reads = 0 /\ y.c.rest = v.c.rest /\ y.c.sent = v.c.sent /\ y.c.life = v.c.life
             /\ y.c.at = v.c.at /\ y.c.answers = v.c.answers /\ y.c.swallowed = v.c.swallowed /\ y.c.continued = v.c.continued
             /\ y.c.pending = v.c.pending /\ y.c.req = v.c.req
             /\ y.c.thrown = v.c.thrown /\ y.c.bad = v.c.bad,
             y.c.open => v.c.open,
             v.c.pending => (y.c.open => ~v.c.bad /\ ~v.c.thrown),
             y.c.resume => ~v.c.bad /\ ~v.c.thrown
      PROVE  Settled(y)
  <2>1. v.c.pending /\ y.c.open => Waits(y.c, y.c.rest, 0)
    BY <1>2, <1>3 DEF Place, Waits, Just, Unanswered, Upto
  <2>2. Ranges(y.me, y.c)
    BY <1>1, <1>3 DEF Handed, Ranges
  <2>3. InOrder(y.c) /\ Flows(y.c.rest, y.c.sent) /\ ~y.c.continued
    BY <1>1, <1>3 DEF Base, InOrder
  <2>4. Rests(y.me, y.c)
    BY <1>1, <1>3, <2>1, <2>2, <2>3 DEF Rests, Shape
  <2> QED
    BY <1>3, <2>4 DEF Settled, Shape, Timed
<1>4. CASE v.c.thrown
  <2>1. AfterRead(v) = v /\ ~v.c.pending
    BY <1>4 DEF AfterRead, Handed
  <2>2. Settled(v)
    BY <1>1, <1>3, <2>1 DEF Base
  <2> QED
    BY <2>1, <2>2
<1> DEFINE u == Cancel(v)
<1>5. Shape(u) /\ Timer(u) /\ u.c = v.c /\ u.me = v.me
  BY <1>1, CancelKeeps DEF Base
<1> HIDE DEF u
<1>6. CASE ~v.c.thrown /\ (v.c.bad \/ ~v.c.open)
  <2>1. PICK y : y = Shut(u)
    OBVIOUS
  <2>2. /\ DOMAIN y = DOMAIN u /\ y.me = u.me /\ y.tasks = u.tasks /\ y.high = u.high /\ y.robbed = u.robbed
        /\ DOMAIN y.c = ConFields
        /\ \A f \in ConFields : f # "open" => y.c[f] = v.c[f]
        /\ y.c.open = FALSE
    BY <1>5, <2>1 DEF Shut, Shape, ConFields
  <2>3. /\ y.c.reads = 0 /\ y.c.rest = v.c.rest /\ y.c.sent = v.c.sent /\ y.c.life = v.c.life
        /\ y.c.at = v.c.at /\ y.c.answers = v.c.answers /\ y.c.swallowed = v.c.swallowed /\ y.c.continued = v.c.continued
        /\ y.c.pending = v.c.pending /\ y.c.req = v.c.req
        /\ y.c.thrown = v.c.thrown /\ y.c.bad = v.c.bad /\ y.c.resume = v.c.resume
    BY <1>1, <2>2 DEF ConFields
  <2>4. Timer(y) /\ Shape(y) /\ y.me = v.me
    BY <1>5, <2>2 DEF Timer, Shape
  <2>5. Settled(y)
    BY <1>1, <1>3, <2>2, <2>3, <2>4
  <2>6. AfterRead(v) = y
    BY <1>6, <2>1, Zenon DEF AfterRead, u
  <2> QED
    BY <2>5, <2>6
<1>7. CASE ~v.c.thrown /\ ~v.c.bad /\ v.c.open /\ v.c.close
  <2>1. AfterRead(v) = u
    BY <1>7, Zenon DEF AfterRead, u
  <2>2. Settled(u)
    BY <1>1, <1>3, <1>5, <1>7
  <2> QED
    BY <2>1, <2>2
<1>8. CASE ~v.c.thrown /\ ~v.c.bad /\ v.c.open /\ ~v.c.close /\ ~v.c.after
  <2>1. PICK y : y = DoRead(StartDeadline(v))
    OBVIOUS
  <2>2. /\ Base(y) /\ Like(y, v) /\ y.c.reads = 1 /\ Due(y.me, y.c, y.tasks)
        /\ y.c.thrown = v.c.thrown /\ y.c.at = v.c.at /\ y.c.complete = v.c.complete
        /\ y.c.open = v.c.open /\ y.c.resume = v.c.resume /\ y.c.after = v.c.after
        /\ y.c.answers = v.c.answers /\ y.c.swallowed = v.c.swallowed
    BY ONLY <1>1, <2>1, StartsReading
  <2>3. ~v.c.pending /\ ~v.c.complete /\ (InStep(v.c, v.c.rest, 0) \/ Astray(v.c, v.c.rest, 0))
    BY <1>2, <1>8 DEF Place, Handed
  <2>4. /\ y.c.rest = v.c.rest /\ y.c.sent = v.c.sent /\ y.c.life = v.c.life /\ y.c.kind = v.c.kind
        /\ y.c.req = v.c.req /\ y.c.bad = v.c.bad /\ y.c.pending = v.c.pending /\ y.me = v.me
    BY <2>2 DEF Like
  <2>5. InStep(y.c, y.c.rest, 0) \/ Astray(y.c, y.c.rest, 0)
    BY <2>2, <2>3, <2>4 DEF InStep, Astray, Ahead, Unanswered, Upto
  <2>6. Ranges(y.me, y.c)
    BY <1>1, <2>2, <2>4 DEF Handed, Ranges
  <2>7. Rests(y.me, y.c)
    BY <1>1, <1>8, <2>2, <2>3, <2>4, <2>5, <2>6 DEF Rests, Base, Shape
  <2>8. Settled(y)
    BY <2>2, <2>7 DEF Settled, Base, Shape, Timed
  <2>9. AfterRead(v) = y
    BY <1>8, <2>1, Zenon DEF AfterRead
  <2> QED
    BY <2>8, <2>9
<1>9. CASE ~v.c.thrown /\ ~v.c.bad /\ v.c.open /\ ~v.c.close /\ v.c.after
  <2>1. PICK y : y = [v EXCEPT !.c.resume = TRUE]
    OBVIOUS
  <2>2. /\ DOMAIN y = DOMAIN v /\ y.me = v.me /\ y.tasks = v.tasks /\ y.high = v.high /\ y.robbed = v.robbed
        /\ DOMAIN y.c = ConFields
        /\ \A f \in ConFields : f # "resume" => y.c[f] = v.c[f]
    BY <1>1, <2>1 DEF Base, Shape, ConFields
  <2>3. /\ y.c.reads = 0 /\ y.c.rest = v.c.rest /\ y.c.sent = v.c.sent /\ y.c.life = v.c.life
        /\ y.c.at = v.c.at /\ y.c.answers = v.c.answers /\ y.c.swallowed = v.c.swallowed /\ y.c.continued = v.c.continued
        /\ y.c.pending = v.c.pending /\ y.c.req = v.c.req /\ y.c.open = v.c.open
        /\ y.c.thrown = v.c.thrown /\ y.c.bad = v.c.bad
    BY <1>1, <2>2 DEF ConFields
  <2>4. Timer(y) /\ Shape(y)
    BY <1>1, <2>2 DEF Base, Timer, Shape
  <2>5. Settled(y)
    BY <1>3, <1>9, <2>2, <2>3, <2>4
  <2>6. AfterRead(v) = y
    BY <1>9, <2>1, Zenon DEF AfterRead
  <2> QED
    BY <2>5, <2>6
<1> QED
  BY <1>4, <1>6, <1>7, <1>8, <1>9

LEMMA ReadRests == ASSUME HttpConfig, HttpInv, NEW c \in Client, Read(c) PROVE HttpInv'
<1>1. PICK w : w = World(c)
  OBVIOUS
<1>2. Shape(w) /\ Timer(w) /\ w.me = c /\ w.c = con[c] /\ Rests(c, w.c)
  BY <1>1, WorldIs DEF HttpInv
<1>3. /\ con[c].life = "up" /\ con[c].reads > 0 /\ con[c].open
      /\ \E s \in Writable(c) :
            /\ s # <<>>
            /\ \E n \in 1 .. Len(s) :
                  \E lost \in BOOLEAN :
                     LET x == [World(c) EXCEPT !.lost = lost, !.c.reads = @ - 1,
                                               !.c.rest = SubSeq(s, n + 1, Len(s)),
                                               !.c.sent = Last(s).req]
                     IN  Becomes(AfterRead(Feed(x, SubSeq(s, 1, n))))
  BY DEF Read
<1> DEFINE Given(s, n, lost) ==
             [World(c) EXCEPT !.lost = lost, !.c.reads = @ - 1,
                              !.c.rest = SubSeq(s, n + 1, Len(s)), !.c.sent = Last(s).req]
<1>3a. PICK s \in Writable(c) :
         /\ s # <<>>
         /\ \E n \in 1 .. Len(s) : \E lost \in BOOLEAN :
               Becomes(AfterRead(Feed(Given(s, n, lost), SubSeq(s, 1, n))))
  BY <1>3, Zenon
<1>3b. PICK n \in 1 .. Len(s) : \E lost \in BOOLEAN :
         Becomes(AfterRead(Feed(Given(s, n, lost), SubSeq(s, 1, n))))
  BY <1>3a, Zenon
<1>3c. PICK lost \in BOOLEAN : Becomes(AfterRead(Feed(Given(s, n, lost), SubSeq(s, 1, n))))
  BY <1>3b, Zenon
<1>4. s # <<>> /\ Becomes(AfterRead(Feed(Given(s, n, lost), SubSeq(s, 1, n))))
  BY <1>3a, <1>3c
<1>5. /\ w.c.reads = 1 /\ ~w.c.resume /\ ~w.c.pending /\ ~w.c.complete /\ ~w.c.thrown /\ ~w.c.bad
      /\ InStep(w.c, w.c.rest, 0) \/ Astray(w.c, w.c.rest, 0)
      /\ w.c.life = "up" /\ w.c.at \in At
  BY <1>2, <1>3 DEF Rests, Ranges
<1>6. PICK last : last = Last(s).req
  OBVIOUS
<1>7. /\ Flows(s, last) /\ last \in 0 .. MaxRequests[c]
      /\ w.c.rest # <<>> => s[1] = w.c.rest[1]
      /\ w.c.rest = <<>> => s[1].part = "url" /\ s[1].req = w.c.sent + 1
  <2>1. Flows(w.c.rest, w.c.sent) /\ w.c.sent \in 0 .. MaxRequests[c]
    BY <1>2 DEF Rests, Ranges
  <2> QED
    BY <1>2, <1>4, <1>6, <2>1, StreamFlows
<1> HIDE DEF Given
<1>8. PICK r : r = SubSeq(s, n + 1, Len(s))
  OBVIOUS
<1>9. /\ Flows(r, last) /\ (r = <<>> <=> n = Len(s))
      /\ n # Len(s) => r[1] = s[n + 1]
  <2>1. s # <<>>
    BY <1>4
  <2>2. Flows(s, last)
    BY <1>7
  <2> QED
    BY ONLY <2>1, <2>2, <1>8, n \in 1 .. Len(s), RestFlows
<1>10. PICK x : x = [w EXCEPT !.lost = lost, !.c.reads = @ - 1, !.c.rest = r, !.c.sent = last]
  OBVIOUS
<1>11. /\ DOMAIN x = DOMAIN w /\ x.me = w.me /\ x.tasks = w.tasks /\ x.high = w.high /\ x.robbed = w.robbed
       /\ DOMAIN x.c = ConFields
       /\ \A f \in ConFields : f \notin {"reads", "rest", "sent"} => x.c[f] = w.c[f]
       /\ x.c.reads = w.c.reads - 1 /\ x.c.rest = r /\ x.c.sent = last
  BY <1>2, <1>10 DEF Shape, ConFields
<1>12. /\ x.c.life = w.c.life /\ x.c.req = w.c.req /\ x.c.kind = w.c.kind
       /\ x.c.bad = w.c.bad /\ x.c.thrown = w.c.thrown /\ x.c.open = w.c.open
       /\ x.c.resume = w.c.resume /\ x.c.answers = w.c.answers /\ x.c.swallowed = w.c.swallowed /\ x.c.continued = w.c.continued
       /\ x.c.at = w.c.at /\ x.c.complete = w.c.complete /\ x.c.pending = w.c.pending
  BY <1>11 DEF ConFields
<1>13. Base(x)
  BY <1>2, <1>11, <1>12 DEF Base, Shape, Timer, InOrder, Rests
<1>14. Handed(x)
  BY <1>5, <1>11, <1>12, <1>13 DEF Handed
<1>15. InStep(x.c, s, 0) \/ Astray(x.c, s, 0)
  <2>1. s \in Seq(Token) /\ Len(s) \in Nat /\ Len(s) > 0
    BY <1>4, <1>7, LenProperties, EmptySeq DEF Flows
  <2>2. w.c.rest \in Seq(Token) /\ Len(w.c.rest) \in Nat /\ (w.c.rest = <<>> <=> Len(w.c.rest) = 0)
    BY <1>2, LenProperties, EmptySeq DEF Rests, Flows
  <2>3. CASE InStep(w.c, w.c.rest, 0) /\ w.c.rest = <<>>
    BY <1>2, <1>7, <1>12, <2>1, <2>2, <2>3 DEF Rests, Ranges, InStep, Ahead, Awaits, Unanswered, Upto
  <2>4. CASE InStep(w.c, w.c.rest, 0) /\ w.c.rest # <<>>
    BY <1>7, <1>12, <2>1, <2>2, <2>4 DEF InStep, Ahead, Unanswered, Upto
  <2>5. CASE Astray(w.c, w.c.rest, 0)
    BY <1>7, <1>12, <2>1, <2>2, <2>5 DEF Astray, Ahead
  <2> QED
    BY <1>5, <2>3, <2>4, <2>5
<1>16. Parsing(x, s, 0) /\ ~x.c.complete
  BY <1>5, <1>12, <1>14, <1>15 DEF Parsing, Place
<1>17. PICK v : v = Feed(x, SubSeq(s, 1, n))
  OBVIOUS
<1>18. Parsing(v, s, n) /\ Keeps(v, x)
  <2>1. Flows(s, x.c.sent)
    BY <1>7, <1>11
  <2> QED
    BY ONLY <1>16, <1>17, <2>1, n \in 1 .. Len(s), ReadParsed
<1>19. v.me = c /\ v.c.rest = r /\ v.c.sent = last
  BY <1>2, <1>11, <1>18 DEF Keeps
<1>20. Settled(AfterRead(v))
  <2>1. n \in 0 .. Len(s) /\ Handed(v) /\ Place(v.c, s, n)
    BY <1>18 DEF Parsing
  <2>2. /\ v.me \in Client /\ Flows(v.c.rest, v.c.sent) /\ v.c.sent \in 0 .. MaxRequests[v.me]
        /\ (n = Len(s) <=> v.c.rest = <<>>)
        /\ n # Len(s) => v.c.rest[1] = s[n + 1]
    BY <1>7, <1>9, <1>19
  <2> QED
    BY ONLY HttpConfig, <2>1, <2>2, AfterReadRests
<1>21. Becomes(AfterRead(v))
  <2>1. Given(s, n, lost) = x
    BY <1>1, <1>6, <1>8, <1>10, Zenon DEF Given
  <2> QED
    BY <1>4, <1>17, <2>1
<1> QED
  BY <1>20, <1>21, BecomesKeeps

LEMMA TickRests == ASSUME HttpConfig, HttpInv, Tick PROVE HttpInv'
<1>1. PICK due \in SUBSET tasks :
         /\ tasks' = tasks \ due
         /\ highest_id' = IF tasks' = {} THEN 0 ELSE highest_id
         /\ LET shut == {t.conn : t \in due}
            IN  con' = [c \in Client |->
                          Release([me |-> c, tasks |-> tasks',
                                   c |-> IF c \in shut THEN [con[c] EXCEPT !.open = FALSE]
                                         ELSE con[c]]).c]
  BY DEF Tick
<1>2. robbed' = robbed
  BY DEF Tick
<1> DEFINE shut == {t.conn : t \in due}
<1>3. TasksOk(tasks', highest_id')
  BY <1>1 DEF HttpInv, TasksOk
<1>4. ASSUME NEW x \in Client PROVE Rests(x, con'[x]) /\ Timed(x, con'[x], tasks', robbed)
  <2>1. PICK c : c = IF x \in shut THEN [con[x] EXCEPT !.open = FALSE] ELSE con[x]
    OBVIOUS
  <2>2. PICK w : w = [me |-> x, tasks |-> tasks', c |-> c]
    OBVIOUS
  <2>3. con'[x] = Release(w).c /\ "c" \in DOMAIN w /\ w.c = c
    BY <1>1, <2>1, <2>2
  <2>4. Rests(x, con[x]) /\ Timed(x, con[x], tasks, robbed)
    BY DEF HttpInv
  <2>5. Rests(x, c) /\ Timed(x, c, tasks', robbed)
    <3>1. CASE x \in shut
      <4>1. /\ DOMAIN c = ConFields
            /\ \A f \in ConFields : f # "open" => c[f] = con[x][f]
            /\ c.open = FALSE
        BY <2>1, <2>4, <3>1 DEF Rests, ConFields
      <4>2. /\ c.life = con[x].life /\ c.rest = con[x].rest /\ c.sent = con[x].sent /\ c.reads = con[x].reads
            /\ c.pending = con[x].pending /\ c.thrown = con[x].thrown /\ c.bad = con[x].bad
            /\ c.resume = con[x].resume /\ c.answers = con[x].answers /\ c.swallowed = con[x].swallowed /\ c.continued = con[x].continued
            /\ c.at = con[x].at /\ c.complete = con[x].complete
        BY <4>1 DEF ConFields
      <4>3. Rests(x, c)
        BY <2>4, <4>1, <4>2 DEF Rests, Ranges, Unread, InOrder
      <4> QED
        BY <4>1, <4>3 DEF Timed
    <3>2. CASE x \notin shut
      <4>1. c = con[x]
        BY <2>1, <3>2
      <4>2. \A t \in tasks : t.conn = x => t \in tasks'
        BY <1>1, <3>2
      <4> QED
        BY <2>4, <4>1, <4>2 DEF Timed, Due
    <3> QED
      BY <3>1, <3>2
  <2> QED
    BY <2>3, <2>5, Released
<1>5. con' = [x \in Client |-> con'[x]]
  BY <1>1
<1>6. \A x \in Client : Rests(x, con[x])' /\ Timed(x, con[x], tasks, robbed)'
  <2>1. SUFFICES ASSUME NEW x \in Client PROVE Rests(x, con'[x]) /\ Timed(x, con'[x], tasks', robbed')
    BY DEF Rests, Ranges, Unread, Timed, Due, InOrder, Upto, Just, Unanswered, Ahead, Flows, InStep, Astray, Waits, Follows, Final, Awaits, Then, Token, Part, At, ConFields, Fresh, NoKind
  <2> QED
    BY <1>2, <1>4
<1> QED
  BY <1>3, <1>5, <1>6 DEF HttpInv, TasksOk

LEMMA IdleRests == ASSUME HttpInv, UNCHANGED httpVars PROVE HttpInv'
<1>1. con' = con /\ tasks' = tasks /\ highest_id' = highest_id /\ robbed' = robbed
  BY DEF httpVars
<1>2. \A x \in Client : Rests(x, con[x])' /\ Timed(x, con[x], tasks, robbed)'
  <2>1. SUFFICES ASSUME NEW x \in Client PROVE Rests(x, con'[x]) /\ Timed(x, con'[x], tasks', robbed')
    BY DEF Rests, Ranges, Unread, Timed, Due, InOrder, Upto, Just, Unanswered, Ahead, Flows, InStep, Astray, Waits, Follows, Final, Awaits, Then, Token, Part, At, ConFields, Fresh, NoKind
  <2> QED
    BY <1>1 DEF HttpInv
<1> QED
  BY <1>1, <1>2 DEF HttpInv, TasksOk

LEMMA HttpAlways == ASSUME HttpConfig PROVE HttpSpec => []HttpInv
<1>1. HttpInit => HttpInv
  BY InitRests
<1>2. ASSUME HttpInv, [HttpNext]_httpVars PROVE HttpInv'
  BY <1>2, AcceptRests, StartRests, ReadRests, ReadFailsRests, EndRests, TickRests, IdleRests DEF HttpNext
<1> QED
  BY <1>1, <1>2, PTL DEF HttpSpec

(* At most one read of a connection is outstanding, whether it is started  *)
(* by the read handler or by the response that the handler left it to, and *)
(* tasks bear numbers that were given out: for any requests and clients.   *)
THEOREM OneRead == HttpSpec => []HttpTypeOK
<1>1. ASSUME HttpInv PROVE HttpTypeOK
  BY <1>1 DEF HttpInv, HttpTypeOK, Rests, Ranges, At, TasksOk
<1> QED
  BY <1>1, HttpAssumption, HttpAlways, PTL

(* Whatever the requests, however the reads cut and join them, and however *)
(* late responses are ended, a client reads the answers of its requests in *)
(* their order and none twice. None is left out, unless the parser has     *)
(* taken requests for the end of one that was not answered yet.            *)
THEOREM AnswersOfRequests == HttpSpec => []AnsweredInOrder
<1>1. ASSUME HttpInv PROVE AnsweredInOrder
  BY <1>1 DEF HttpInv, AnsweredInOrder, Rests, InOrder
<1> QED
  BY <1>1, HttpAssumption, HttpAlways, PTL

(* A connection that waits for its client has a deadline, unless a cancel  *)
(* of another one took it: for any clients, requests and timing.           *)
THEOREM ReadsAreTimed == HttpSpec => []DeadlineOrRobbed
<1>1. ASSUME HttpInv PROVE DeadlineOrRobbed
  BY <1>1 DEF HttpInv, DeadlineOrRobbed, Rests, Ranges, Timed, Due
<1> QED
  BY <1>1, HttpAssumption, HttpAlways, PTL

-----------------------------------------------------------------------------
(* CrowWebSocket: the invariant.                                           *)

Fields == {"life", "open", "broken", "posted", "texts", "closes", "state", "hdr", "left",
           "fragment", "message", "reading", "waiting", "tooBig", "sending", "buffers", "fails",
           "closing", "sentClose", "recvClose", "told", "calls", "delivered", "wire"}

(* A read that is outstanding is noted in is_reading, and close_handler_   *)
(* has been called when that is noted; nothing happens before start().     *)
Noted(s) ==
    /\ DOMAIN s = Fields
    /\ s.calls \in Nat
    /\ s.waiting => s.reading
    /\ s.told => s.calls > 0
    /\ s.life = "new" => /\ ~s.waiting /\ s.sending = <<>>
                         /\ s.wire = <<>> /\ s.posted = <<>>

Live(s) == Noted(s) /\ s.life = "up"

Quiet(s) ==
    s.life = "freed" => /\ ~s.waiting /\ s.sending = <<>>
                        /\ s.wire # <<>> => s.calls > 0

Sound(s) == Noted(s) /\ Quiet(s) /\ s.life \in {"new", "up", "freed"}

\* inductive
WsSound == Sound(ws)

-----------------------------------------------------------------------------
(* The methods that do not delete keep a live object live.                 *)

LEMMA LiveIsSound == ASSUME NEW s, Live(s) PROVE Sound(s)
BY DEF Live, Sound, Quiet

LEMMA ClosedLives == ASSUME NEW s, Live(s) PROVE Live(Closed(s))
BY DEF Live, Noted, Fields, Closed

LEMMA DoWriteLives == ASSUME NEW s, Live(s) PROVE Live(DoWrite(s))
BY DEF Live, Noted, Fields, DoWrite

LEMMA SendDataLives == ASSUME NEW s, NEW item, Live(s) PROVE Live(SendData(s, item))
BY DEF Live, Noted, Fields, SendData

LEMMA TookLives == ASSUME NEW s, Live(s) PROVE Live(Took(s))
BY DEF Live, Noted, Fields, Took

LEMMA WroteLives == ASSUME NEW s, NEW n, Live(s) PROVE Live(Wrote(s, n))
BY DEF Live, Noted, Fields, Wrote

LEMMA CloseLives == ASSUME NEW s, Live(s) PROVE Live(Close(s))
<1> DEFINE tell == s.recvClose /\ ~s.told
           t == [s EXCEPT !.sentClose = TRUE, !.told = @ \/ tell,
                          !.calls = IF tell THEN @ + 1 ELSE @,
                          !.buffers = Append(@, <<"close", 0>>)]
<1>1. DOMAIN t = Fields /\ t.life = s.life /\ t.wire = s.wire
      /\ t.waiting = s.waiting /\ t.reading = s.reading
  BY DEF Live, Noted, Fields
<1>2. t.calls = IF tell THEN s.calls + 1 ELSE s.calls
  BY DEF Live, Noted, Fields
<1>3. t.told <=> s.told \/ tell
  BY DEF Live, Noted, Fields
<1>4. Live(t)
  BY <1>1, <1>2, <1>3 DEF Live, Noted
<1> QED
  BY <1>4, DoWriteLives DEF Close

LEMMA ReactLives == ASSUME NEW s, NEW reply, Live(s) PROVE Live(React(s, reply))
<1> DEFINE t == [s EXCEPT !.texts = @ + 1]
           c == [s EXCEPT !.closes = @ + 1]
<1>1. Live(t) /\ Live(c)
  BY DEF Live, Noted, Fields
<1>2. Live(SendData(t, <<"text", s.texts + 1>>)) /\ Live(Close(c))
  BY <1>1, SendDataLives, CloseLives
<1> QED
  BY <1>2, Zenon DEF React

LEMMA MergeLives == ASSUME NEW s, NEW reply, Live(s) PROVE Live(Merge(s, reply))
<1> DEFINE m == s.message \o s.fragment
           t == [s EXCEPT !.message = <<>>, !.delivered = Append(@, m)]
           u == [s EXCEPT !.message = m]
<1>1. Live(t) /\ Live(u)
  BY DEF Live, Noted, Fields
<1>2. Live(React(t, reply))
  BY <1>1, ReactLives
<1> QED
  BY <1>1, <1>2, Zenon DEF Merge

-----------------------------------------------------------------------------
(* Those that may delete leave a sound object.                             *)

(* Whoever calls check_destroy, close_handler_ has been called after it,   *)
(* and the object is deleted only when both directions are at rest.        *)
LEMMA CheckDestroySound == ASSUME NEW s, Live(s) PROVE Sound(CheckDestroy(s))
<1> DEFINE t == [s EXCEPT !.calls = IF s.told THEN @ ELSE @ + 1]
<1>1. Live(t) /\ t.calls > 0
  BY DEF Live, Noted, Fields
<1>2. Sound(Delete(t))
  <2>1. CASE t.sending = <<>> /\ ~t.reading
    BY <1>1, <2>1 DEF Live, Noted, Fields, Sound, Quiet, Delete
  <2>2. CASE ~(t.sending = <<>> /\ ~t.reading)
    BY <1>1, <2>2, LiveIsSound DEF Delete
  <2> QED BY <2>1, <2>2
<1> QED
  BY <1>2 DEF CheckDestroy

LEMMA DoReadSound == ASSUME NEW s, Live(s) PROVE Sound(WsDoRead(s))
<1> DEFINE r == [s EXCEPT !.reading = TRUE]
           a == [r EXCEPT !.waiting = TRUE]
           b == [r EXCEPT !.tooBig = TRUE]
           c == [r EXCEPT !.waiting = TRUE, !.state = IF s.hdr.masked THEN "Mask" ELSE "Payload"]
<1>1. Live(r) /\ r.reading
  BY DEF Live, Noted, Fields
<1>2. Live(a) /\ Live(b) /\ Live(c)
  BY <1>1 DEF Live, Noted, Fields
<1>3. Sound(a) /\ Sound(c)
  BY <1>2, LiveIsSound
<1>4. Sound(CheckDestroy(Closed(s))) /\ Sound(CheckDestroy(Closed(b)))
  BY <1>2, ClosedLives, CheckDestroySound
<1> QED
  BY <1>3, <1>4, Zenon DEF WsDoRead

(* A frame that is complete: what is next is a read, or the deletion that  *)
(* follows the second close frame.                                         *)
LEMMA HandleFragmentSound ==
    ASSUME NEW s, NEW reply, Live(s) PROVE Sound(HandleFragment(s, reply))
<1> DEFINE next(t) == WsDoRead([t EXCEPT !.fragment = <<>>, !.state = "MiniHeader"])
           c == [s EXCEPT !.recvClose = TRUE]
           d == [c EXCEPT !.told = TRUE, !.calls = IF s.told THEN @ ELSE @ + 1]
<1>1. ASSUME NEW t, Live(t) PROVE Sound(next(t))
  <2>1. Live([t EXCEPT !.fragment = <<>>, !.state = "MiniHeader"])
    BY <1>1 DEF Live, Noted, Fields
  <2> QED BY <2>1, DoReadSound
<1>2. Live(c)
  BY DEF Live, Noted, Fields
<1>3. Live(d)
  BY DEF Live, Noted, Fields
<1>4. /\ Sound(next(Merge(s, reply))) /\ Sound(next(SendData(s, <<"pong", 0>>)))
      /\ Sound(next(Close(c))) /\ Sound(next(s))
  BY <1>1, <1>2, MergeLives, SendDataLives, CloseLives
<1>5. Sound(CheckDestroy(Closed(d)))
  BY <1>3, ClosedLives, CheckDestroySound
<1>6. HandleFragment(s, reply) \in {next(Merge(s, reply)), next(SendData(s, <<"pong", 0>>)),
                                    next(Close(c)), next(s), CheckDestroy(Closed(d))}
  BY Zenon DEF HandleFragment
<1> QED
  BY <1>4, <1>5, <1>6

-----------------------------------------------------------------------------
(* The steps.                                                              *)

LEMMA InitSound == WsInit => WsSound
BY DEF WsSound, WsInit, Sound, Noted, Quiet, Fields

LEMMA ReadSound == Sound(ws) /\ WsRead => Sound(ws')
<1> SUFFICES ASSUME Sound(ws), WsRead PROVE Sound(ws')
  OBVIOUS
<1>1. ws.life = "up" /\ Live(ws) /\ Live(Took(ws))
  BY TookLives DEF WsRead, ReadHeader, ReadHalfHeader, ReadLength, ReadMask, ReadPayload, WsReadFails,
                   Completes, Sound, Live
<1>2. ASSUME NEW f PROVE Sound(Header(f))
  <2> DEFINE t == [Took(ws) EXCEPT !.hdr = f, !.left = f.size,
                      !.state = CASE f.ext = 64 -> "Len64" [] f.ext = 16 -> "Len16" [] OTHER -> "Mask"]
  <2>1. Live(t)
    BY <1>1 DEF Live, Noted, Fields
  <2> QED BY <2>1, DoReadSound DEF Header
<1>3. CASE ReadHeader
  BY <1>2, <1>3 DEF ReadHeader
<1>4. CASE ReadHalfHeader
  BY <1>2, <1>4 DEF ReadHalfHeader
<1>5. ASSUME NEW state PROVE Sound(WsDoRead([Took(ws) EXCEPT !.state = state]))
  <2>1. Live([Took(ws) EXCEPT !.state = state])
    BY <1>1 DEF Live, Noted, Fields
  <2> QED BY <2>1, DoReadSound
<1>6. CASE ReadLength
  BY <1>5, <1>6 DEF ReadLength
<1>7. CASE ReadMask
  BY <1>5, <1>7 DEF ReadMask
<1>8. CASE ReadPayload
  <2>1. PICK k \in 0 .. ws.left, reply \in Replies :
          LET got == ws.hdr.size - ws.left
              s == [Took(ws) EXCEPT !.left = @ - k,
                       !.fragment = @ \o [i \in 1 .. k |-> <<Len(sent), got + i>>]]
          IN  ws' = IF s.left = 0 THEN HandleFragment(s, reply) ELSE WsDoRead(s)
    BY <1>8 DEF ReadPayload
  <2> DEFINE got == ws.hdr.size - ws.left
             s == [Took(ws) EXCEPT !.left = @ - k,
                      !.fragment = @ \o [i \in 1 .. k |-> <<Len(sent), got + i>>]]
  <2>2. Live(s)
    BY <1>1 DEF Live, Noted, Fields
  <2>3. Sound(HandleFragment(s, reply)) /\ Sound(WsDoRead(s))
    BY <2>2, HandleFragmentSound, DoReadSound
  <2>4. ws' \in {HandleFragment(s, reply), WsDoRead(s)}
    BY <2>1, Zenon
  <2> QED BY <2>3, <2>4
<1>9. CASE WsReadFails
  BY <1>1, <1>9, ClosedLives, CheckDestroySound DEF WsReadFails
<1> QED
  BY <1>3, <1>4, <1>6, <1>7, <1>8, <1>9 DEF WsRead

LEMMA WriteSound == Sound(ws) /\ Write => Sound(ws')
<1> SUFFICES ASSUME Sound(ws), Write PROVE Sound(ws')
  OBVIOUS
<1>1. ws.life = "up" /\ Live(ws)
  BY DEF Write, WriteDone, WriteFails, Sound, Live
<1>2. ASSUME NEW n PROVE Live(Wrote(ws, n))
  BY <1>1, WroteLives
<1>3. CASE WriteDone
  <2> DEFINE s == Wrote(ws, Len(ws.sending))
             t == IF s.buffers = <<>> THEN s ELSE DoWrite(s)
  <2>1. Live(s) /\ Live(t)
    BY <1>2, DoWriteLives
  <2>2. Live([t EXCEPT !.closing = s.sentClose])
    BY <2>1 DEF Live, Noted, Fields
  <2>3. Sound(CheckDestroy(s)) /\ Sound([t EXCEPT !.closing = s.sentClose])
    BY <2>1, <2>2, CheckDestroySound, LiveIsSound
  <2>4. ws' \in {CheckDestroy(s), [t EXCEPT !.closing = s.sentClose]}
    BY <1>3, Zenon DEF WriteDone
  <2> QED BY <2>3, <2>4
<1>4. CASE WriteFails
  <2>1. PICK n \in 0 .. IF ws.fails THEN 0 ELSE Len(ws.sending) :
          ws' = CheckDestroy([Wrote(ws, n) EXCEPT !.closing = TRUE, !.broken = TRUE])
    BY <1>4 DEF WriteFails
  <2>2. Live([Wrote(ws, n) EXCEPT !.closing = TRUE, !.broken = TRUE])
    BY <1>2 DEF Live, Noted, Fields
  <2> QED BY <2>1, <2>2, CheckDestroySound
<1> QED
  BY <1>3, <1>4 DEF Write

\* the constructor, start(), and what other threads ask for
LEMMA OtherSound ==
    Sound(ws) /\ (Refuse \/ WsStart \/ AppCalls \/ RunPosted) => Sound(ws')
<1> SUFFICES ASSUME Sound(ws), Refuse \/ WsStart \/ AppCalls \/ RunPosted PROVE Sound(ws')
  OBVIOUS
<1>1. CASE Refuse
  BY <1>1 DEF Refuse, Sound, Noted, Quiet, Fields
<1>2. CASE WsStart
  <2> DEFINE s == [ws EXCEPT !.life = "up", !.buffers = <<<<"101", 0>>>>]
  <2>1. Live(s)
    BY <1>2 DEF WsStart, Sound, Live, Noted, Fields
  <2>2. PICK reply \in Replies : ws' = WsDoRead(React(DoWrite(s), reply))
    BY <1>2 DEF WsStart
  <2> QED BY <2>1, <2>2, DoWriteLives, ReactLives, DoReadSound
<1>3. CASE AppCalls
  <2>1. Live(ws) /\ Live([ws EXCEPT !.closes = @ + 1])
    BY <1>3 DEF AppCalls, Sound, Live, Noted, Fields
  <2>2. /\ Live(React(ws, "send"))
        /\ Live(SendData([ws EXCEPT !.closes = @ + 1], <<"close", 0>>))
    BY <2>1, ReactLives, SendDataLives
  <2> QED BY <1>3, <2>2, LiveIsSound DEF AppCalls
<1>4. CASE RunPosted
  <2> DEFINE p == Head(ws.posted)
             s == [ws EXCEPT !.posted = Tail(@)]
             t == [s EXCEPT !.buffers = Append(@, p)]
  <2>1. CASE ws.life = "freed"
    <3>1. ws' = s
      BY <1>4, <2>1 DEF RunPosted
    <3> QED BY <2>1, <3>1 DEF Sound, Noted, Quiet, Fields
  <2>2. CASE ws.life # "freed"
    <3>1. Live(s) /\ Live(t)
      BY <1>4, <2>2 DEF RunPosted, Sound, Live, Noted, Fields
    <3>2. Live(Close(s)) /\ Live(DoWrite(t))
      BY <3>1, CloseLives, DoWriteLives
    <3>3. ws' \in {Close(s), DoWrite(t)}
      BY <1>4, <2>2, Zenon DEF RunPosted
    <3> QED BY <3>2, <3>3, LiveIsSound
  <2> QED BY <2>1, <2>2
<1> QED
  BY <1>1, <1>2, <1>3, <1>4

LEMMA StepSound == WsSound /\ [WsNext]_wsVars => WsSound'
<1> SUFFICES ASSUME Sound(ws), [WsNext]_wsVars PROVE Sound(ws')
  BY DEF WsSound
<1>1. CASE WsRead \/ Write \/ Refuse \/ WsStart \/ AppCalls \/ RunPosted
  BY <1>1, ReadSound, WriteSound, OtherSound
<1>2. CASE ClientCloses \/ UNCHANGED wsVars
  BY <1>2 DEF ClientCloses, wsVars
<1> QED
  BY <1>1, <1>2 DEF WsNext

(* A Connection is deleted, once, when no completion handler is left that  *)
(* would touch it, whatever frames come and in whatever order reads,       *)
(* writes, posted calls and either side's closing follow each other.       *)
THEOREM DeletedAtRest == WsSpec => []FreedIsQuiet
<1>1. WsInit => WsSound
  BY InitSound
<1>2. WsSound /\ [WsNext]_wsVars => WsSound'
  BY StepSound
<1>3. WsSound => FreedIsQuiet
  BY DEF WsSound, Sound, Quiet, FreedIsQuiet
<1> QED
  BY <1>1, <1>2, <1>3, PTL DEF WsSpec

-----------------------------------------------------------------------------
(* Texts with consecutive numbers, among other things that are written.    *)

Item == ({"101", "close", "pong"} \X {0}) \cup ({"text"} \X Nat)

\* the texts in q are those of the calls behind a up to b, in their order
Numbered(q, a, b) ==
    /\ q \in Seq(Item) /\ a \in Nat /\ b \in Nat /\ a <= b
    /\ \A i \in 1 .. Len(q) : q[i][1] = "text" => a < q[i][2] /\ q[i][2] <= b
    /\ \A n \in a + 1 .. b : \E i \in 1 .. Len(q) : q[i] = <<"text", n>>
    /\ \A i, j \in 1 .. Len(q) : i < j /\ q[i][1] = "text" /\ q[j][1] = "text" => q[i][2] < q[j][2]

LEMMA ItemIs ==
    ASSUME NEW x \in Item PROVE x[1] = "text" => x[2] \in Nat /\ x = <<"text", x[2]>>
BY DEF Item

LEMMA NoneNumbered == ASSUME NEW a \in Nat PROVE Numbered(<<>>, a, a)
<1>1. <<>> \in Seq(Item) /\ Len(<<>>) = 0
  BY EmptySeq
<1> QED
  BY <1>1 DEF Numbered

LEMMA OneNumbered ==
    ASSUME NEW a \in Nat, NEW x \in Item
    PROVE  /\ x[1] # "text" => Numbered(<<x>>, a, a)
           /\ x = <<"text", a + 1>> => Numbered(<<x>>, a, a + 1)
<1>1. <<x>> \in Seq(Item) /\ Len(<<x>>) = 1 /\ <<x>>[1] = x
  OBVIOUS
<1>2. \A i \in 1 .. 1 : i = 1
  OBVIOUS
<1>3. ASSUME x[1] # "text" PROVE Numbered(<<x>>, a, a)
  BY <1>1, <1>2, <1>3 DEF Numbered
<1>4. ASSUME x = <<"text", a + 1>> PROVE Numbered(<<x>>, a, a + 1)
  <2>1. x[1] = "text" /\ x[2] = a + 1
    BY <1>4
  <2>2. \A n \in a + 1 .. a + 1 : n = a + 1
    OBVIOUS
  <2> QED
    BY <1>1, <1>2, <1>4, <2>1, <2>2 DEF Numbered
<1> QED
  BY <1>3, <1>4

LEMMA JoinedNumbered ==
    ASSUME NEW q, NEW r, NEW a, NEW b, NEW c, Numbered(q, a, b), Numbered(r, b, c)
    PROVE  Numbered(q \o r, a, c)
<1>1. PICK u : u = q \o r
  OBVIOUS
<1>2. q \in Seq(Item) /\ r \in Seq(Item) /\ a \in Nat /\ b \in Nat /\ c \in Nat /\ a <= b /\ b <= c
  BY DEF Numbered
<1>3. /\ Len(q) \in Nat /\ Len(r) \in Nat /\ u \in Seq(Item) /\ Len(u) = Len(q) + Len(r)
      /\ \A i \in 1 .. Len(q) : u[i] = q[i]
      /\ \A i \in 1 .. Len(r) : u[Len(q) + i] = r[i]
  BY <1>1, <1>2, ConcatProperties, LenProperties
<1>4. ASSUME NEW i \in 1 .. Len(u)
      PROVE  \/ i \in 1 .. Len(q) /\ u[i] = q[i]
             \/ i > Len(q) /\ i - Len(q) \in 1 .. Len(r) /\ u[i] = r[i - Len(q)]
  <2>1. CASE i \in 1 .. Len(q)
    BY <1>3, <2>1
  <2>2. CASE i \notin 1 .. Len(q)
    <3>1. i - Len(q) \in 1 .. Len(r) /\ i = Len(q) + (i - Len(q)) /\ i > Len(q)
      BY <1>3, <2>2
    <3> QED
      BY <1>3, <3>1
  <2> QED
    BY <2>1, <2>2
<1>5. ASSUME NEW i \in 1 .. Len(u), u[i][1] = "text"
      PROVE  u[i][2] \in Nat /\ a < u[i][2] /\ u[i][2] <= c
             /\ (i \in 1 .. Len(q) => u[i][2] <= b) /\ (i > Len(q) => b < u[i][2])
  <2>1. u[i] \in Item
    BY <1>3
  <2>2. u[i][2] \in Nat
    BY <1>5, <2>1, ItemIs
  <2>3. CASE i \in 1 .. Len(q) /\ u[i] = q[i]
    <3>1. a < u[i][2] /\ u[i][2] <= b
      BY <1>5, <2>3 DEF Numbered
    <3> QED
      BY <1>2, <1>3, <2>2, <2>3, <3>1
  <2>4. CASE i > Len(q) /\ i - Len(q) \in 1 .. Len(r) /\ u[i] = r[i - Len(q)]
    <3>1. b < u[i][2] /\ u[i][2] <= c
      BY <1>5, <2>4 DEF Numbered
    <3> QED
      BY <1>2, <1>3, <2>2, <2>4, <3>1
  <2> QED
    BY <1>4, <2>3, <2>4
<1>6. ASSUME NEW n \in a + 1 .. c PROVE \E i \in 1 .. Len(u) : u[i] = <<"text", n>>
  <2>1. CASE n <= b
    <3>1. n \in a + 1 .. b
      BY <1>2, <2>1
    <3>2. PICK i \in 1 .. Len(q) : q[i] = <<"text", n>>
      BY <3>1 DEF Numbered
    <3>3. i \in 1 .. Len(u) /\ u[i] = <<"text", n>>
      BY <1>3, <3>2
    <3> QED
      BY <3>3
  <2>2. CASE ~(n <= b)
    <3>1. n \in b + 1 .. c
      BY <1>2, <2>2
    <3>2. PICK i \in 1 .. Len(r) : r[i] = <<"text", n>>
      BY <3>1 DEF Numbered
    <3>3. Len(q) + i \in 1 .. Len(u) /\ u[Len(q) + i] = <<"text", n>>
      BY <1>3, <3>2
    <3> QED
      BY <3>3
  <2> QED
    BY <2>1, <2>2
<1>7. ASSUME NEW i \in 1 .. Len(u), NEW j \in 1 .. Len(u), i < j, u[i][1] = "text", u[j][1] = "text"
      PROVE  u[i][2] < u[j][2]
  <2>1. CASE j \in 1 .. Len(q)
    <3>1. i \in 1 .. Len(q)
      BY <1>3, <1>7, <2>1
    <3>2. q[i][2] < q[j][2]
      BY <1>3, <1>7, <2>1, <3>1 DEF Numbered
    <3> QED
      BY <1>3, <2>1, <3>1, <3>2
  <2>2. CASE i \in 1 .. Len(q) /\ j \notin 1 .. Len(q)
    BY <1>2, <1>3, <1>5, <1>7, <2>2
  <2>3. CASE i \notin 1 .. Len(q)
    <3>1. i - Len(q) \in 1 .. Len(r) /\ j - Len(q) \in 1 .. Len(r) /\ i - Len(q) < j - Len(q)
          /\ u[i] = r[i - Len(q)] /\ u[j] = r[j - Len(q)]
      BY <1>3, <1>4, <1>7, <2>3
    <3> QED
      BY <1>7, <3>1 DEF Numbered
  <2> QED
    BY <2>1, <2>2, <2>3
<1>8. Numbered(u, a, c)
  <2>1. a <= c /\ u \in Seq(Item)
    BY <1>2, <1>3
  <2>2. \A i \in 1 .. Len(u) : u[i][1] = "text" => a < u[i][2] /\ u[i][2] <= c
    BY <1>5
  <2> QED
    BY <1>2, <1>6, <1>7, <2>1, <2>2 DEF Numbered
<1> QED
  BY <1>1, <1>8

LEMMA AppendNumbered ==
    ASSUME NEW q, NEW a, NEW b, NEW c, NEW x \in Item, Numbered(q, a, b), Numbered(<<x>>, b, c)
    PROVE  Numbered(Append(q, x), a, c)
<1>1. Append(q, x) = q \o <<x>>
  BY AppendIsConcat DEF Numbered
<1> QED
  BY <1>1, JoinedNumbered

\* the first of the items that wait
LEMMA HeadNumbered ==
    ASSUME NEW q, NEW a, NEW b, Numbered(q, a, b), q # <<>>
    PROVE  /\ Head(q) \in Item /\ Tail(q) \in Seq(Item)
           /\ \E m \in Nat : Numbered(<<Head(q)>>, a, m) /\ Numbered(Tail(q), m, b)
<1>1. q \in Seq(Item) /\ a \in Nat /\ b \in Nat /\ a <= b
  BY DEF Numbered
<1>2. PICK x, r : x = Head(q) /\ r = Tail(q)
  OBVIOUS
<1>3. /\ Len(q) \in Nat /\ Len(q) > 0 /\ x = q[1] /\ x \in Item /\ r \in Seq(Item) /\ Len(r) = Len(q) - 1
      /\ \A i \in 1 .. Len(r) : r[i] = q[i + 1]
  BY <1>1, <1>2, HeadTailProperties, EmptySeq, LenProperties
<1>4. \A i \in 1 .. Len(r) : i + 1 \in 1 .. Len(q)
  BY <1>3
<1>5. CASE x[1] # "text"
  <2>1. Numbered(r, a, b)
    <3>1. ASSUME NEW n \in a + 1 .. b PROVE \E i \in 1 .. Len(r) : r[i] = <<"text", n>>
      <4>1. PICK i \in 1 .. Len(q) : q[i] = <<"text", n>>
        BY DEF Numbered
      <4>2. i # 1
        BY <1>3, <1>5, <4>1
      <4>3. i - 1 \in 1 .. Len(r) /\ (i - 1) + 1 = i
        BY <1>3, <4>2
      <4>4. r[i - 1] = <<"text", n>>
        BY <1>3, <4>1, <4>3
      <4> QED
        BY <4>3, <4>4
    <3>2. \A i \in 1 .. Len(r) : r[i][1] = "text" => a < r[i][2] /\ r[i][2] <= b
      BY <1>3, <1>4 DEF Numbered
    <3>3. ASSUME NEW i \in 1 .. Len(r), NEW j \in 1 .. Len(r), i < j, r[i][1] = "text", r[j][1] = "text"
          PROVE  r[i][2] < r[j][2]
      <4>1. i + 1 < j + 1 /\ r[i] = q[i + 1] /\ r[j] = q[j + 1]
        BY <1>3, <3>3
      <4> QED
        BY <1>4, <3>3, <4>1 DEF Numbered
    <3> QED
      BY <1>1, <1>3, <3>1, <3>2, <3>3 DEF Numbered
  <2>2. Numbered(<<x>>, a, a)
    BY <1>1, <1>3, <1>5, OneNumbered
  <2> QED
    BY <1>1, <1>2, <1>3, <2>1, <2>2
<1>6. CASE x[1] = "text"
  <2>0. x[2] \in Nat /\ x = <<"text", x[2]>>
    BY <1>3, <1>6, ItemIs
  <2>1. a < x[2] /\ x[2] <= b
    BY <1>3, <1>6 DEF Numbered
  <2>2. ASSUME NEW i \in 1 .. Len(r), r[i][1] = "text" PROVE x[2] < r[i][2] /\ r[i][2] <= b
    <3>1. r[i] = q[i + 1] /\ 1 < i + 1 /\ 1 \in 1 .. Len(q) /\ i + 1 \in 1 .. Len(q)
      BY <1>3, <1>4
    <3> QED
      BY <1>3, <1>6, <2>2, <3>1 DEF Numbered
  <2>3. ASSUME NEW n \in a + 1 .. b, n # x[2] PROVE \E i \in 1 .. Len(r) : r[i] = <<"text", n>>
    <3>1. PICK i \in 1 .. Len(q) : q[i] = <<"text", n>>
      BY DEF Numbered
    <3>2. i # 1
      BY <1>3, <2>3, <3>1
    <3>3. i - 1 \in 1 .. Len(r) /\ (i - 1) + 1 = i
      BY <1>3, <3>2
    <3>4. r[i - 1] = <<"text", n>>
      BY <1>3, <3>1, <3>3
    <3> QED
      BY <3>3, <3>4
  <2>4. x[2] = a + 1
    <3>1. SUFFICES ASSUME x[2] # a + 1 PROVE FALSE
      OBVIOUS
    <3>2. a + 1 \in a + 1 .. b /\ a + 1 < x[2]
      BY <1>1, <2>0, <2>1, <3>1
    <3>3. PICK i \in 1 .. Len(r) : r[i] = <<"text", a + 1>>
      BY <2>3, <3>1, <3>2
    <3>4. r[i][1] = "text" /\ r[i][2] = a + 1
      BY <3>3
    <3>5. x[2] < a + 1
      BY <2>2, <3>4
    <3> QED
      BY <1>1, <2>0, <3>2, <3>5
  <2>5. Numbered(r, a + 1, b)
    <3>1. ASSUME NEW n \in (a + 1) + 1 .. b PROVE \E i \in 1 .. Len(r) : r[i] = <<"text", n>>
      <4>1. n \in a + 1 .. b /\ n # x[2]
        BY <1>1, <2>4
      <4> QED
        BY <2>3, <4>1
    <3>2. \A i \in 1 .. Len(r) : r[i][1] = "text" => a + 1 < r[i][2] /\ r[i][2] <= b
      BY <2>2, <2>4
    <3>3. ASSUME NEW i \in 1 .. Len(r), NEW j \in 1 .. Len(r), i < j, r[i][1] = "text", r[j][1] = "text"
          PROVE  r[i][2] < r[j][2]
      <4>1. i + 1 < j + 1 /\ r[i] = q[i + 1] /\ r[j] = q[j + 1]
        BY <1>3, <3>3
      <4> QED
        BY <1>4, <3>3, <4>1 DEF Numbered
    <3>4. a + 1 \in Nat /\ a + 1 <= b
      BY <1>1, <2>1, <2>4
    <3> QED
      BY <1>1, <1>3, <3>1, <3>2, <3>3, <3>4 DEF Numbered
  <2>6. Numbered(<<x>>, a, a + 1)
    BY <1>1, <1>3, <2>0, <2>4, OneNumbered
  <2> QED
    BY <1>1, <1>2, <1>3, <2>5, <2>6
<1> QED
  BY <1>5, <1>6

LEMMA NumberedInOrder ==
    ASSUME NEW q, NEW b, Numbered(q, 0, b) PROVE InCallOrder(q)
<1>0. q \in Seq(Item) /\ Len(q) \in Nat /\ b \in Nat
  BY LenProperties DEF Numbered
<1> SUFFICES ASSUME NEW i \in 1 .. Len(q), q[i][1] = "text"
             PROVE  /\ \A n \in 1 .. q[i][2] - 1 : \E j \in 1 .. i - 1 : q[j] = <<"text", n>>
                    /\ \A j \in 1 .. i - 1 : q[j][1] = "text" => q[j][2] < q[i][2]
  BY DEF InCallOrder
<1>1. q[i] \in Item
  BY <1>0
<1>1a. q[i][2] \in Nat /\ q[i][2] <= b
  BY <1>1, ItemIs DEF Numbered
<1>2. ASSUME NEW n \in 1 .. q[i][2] - 1 PROVE \E j \in 1 .. i - 1 : q[j] = <<"text", n>>
  <2>1. n \in 0 + 1 .. b /\ n < q[i][2]
    BY <1>0, <1>1a
  <2>2. PICK j \in 1 .. Len(q) : q[j] = <<"text", n>>
    BY <2>1 DEF Numbered
  <2>3. q[j][1] = "text" /\ q[j][2] = n
    BY <2>2
  <2>4. ~(i < j)
    <3>1. i < j => q[i][2] < q[j][2]
      BY <2>3 DEF Numbered
    <3> QED
      BY <1>1a, <2>1, <2>3, <3>1
  <2>5. i # j
    BY <1>1a, <2>1, <2>3
  <2>6. j \in 1 .. i - 1
    BY <1>0, <2>4, <2>5
  <2> QED
    BY <2>2, <2>6
<1>3. ASSUME NEW j \in 1 .. i - 1, q[j][1] = "text" PROVE q[j][2] < q[i][2]
  <2>1. j \in 1 .. Len(q) /\ j < i
    BY <1>0
  <2> QED
    BY <1>3, <2>1 DEF Numbered
<1> QED
  BY <1>2, <1>3

\* what is cut off at the end is no concern of what is in front
LEMMA CutInOrder ==
    ASSUME NEW q \in Seq(Item), NEW r \in Seq(Item), NEW n \in 0 .. Len(r), InCallOrder(q \o r)
    PROVE  InCallOrder(q \o SubSeq(r, 1, n))
<1>1. PICK u, v, w : u = q \o r /\ v = SubSeq(r, 1, n) /\ w = q \o v
  OBVIOUS
<1>2. Len(q) \in Nat /\ Len(r) \in Nat /\ n \in Nat
  BY LenProperties
<1>3. v \in Seq(Item) /\ Len(v) = n /\ \A i \in 1 .. n : v[i] = r[i]
  <2>1. 1 \in Int /\ n \in Int
    OBVIOUS
  <2>2. \A i \in 1 .. n : r[i] \in Item
    BY <1>2
  <2>3. v = [i \in 1 .. n |-> r[i]]
    BY <1>1, <1>2, SubSeqProperties
  <2> QED
    BY <1>2, <2>2, <2>3
<1>4. /\ Len(w) = Len(q) + n /\ Len(u) = Len(q) + Len(r)
      /\ \A i \in 1 .. Len(q) : u[i] = q[i] /\ w[i] = q[i]
      /\ \A i \in 1 .. Len(r) : u[Len(q) + i] = r[i]
      /\ \A i \in 1 .. n : w[Len(q) + i] = v[i]
  BY <1>1, <1>2, <1>3, ConcatProperties
<1>5. ASSUME NEW i \in 1 .. Len(w) PROVE w[i] = u[i] /\ i \in 1 .. Len(u)
  <2>1. CASE i \in 1 .. Len(q)
    BY <1>2, <1>4, <2>1
  <2>2. CASE i \notin 1 .. Len(q)
    <3>1. PICK k : k = i - Len(q)
      OBVIOUS
    <3>2. k \in 1 .. n /\ i = Len(q) + k /\ k \in 1 .. Len(r) /\ i \in 1 .. Len(u)
      BY <1>2, <1>4, <2>2, <3>1
    <3>3. w[Len(q) + k] = v[k] /\ v[k] = r[k] /\ u[Len(q) + k] = r[k]
      BY <1>3, <1>4, <3>2
    <3> QED
      BY <3>2, <3>3
  <2> QED
    BY <2>1, <2>2
<1>6. Len(w) \in Nat /\ \A i \in 1 .. Len(w) : \A j \in 1 .. i - 1 : j \in 1 .. Len(w)
  BY <1>2, <1>4
<1>7. InCallOrder(u)
  BY <1>1
<1>8. InCallOrder(w)
  <2> SUFFICES ASSUME NEW i \in 1 .. Len(w), w[i][1] = "text"
               PROVE  /\ \A m \in 1 .. w[i][2] - 1 : \E j \in 1 .. i - 1 : w[j] = <<"text", m>>
                      /\ \A j \in 1 .. i - 1 : w[j][1] = "text" => w[j][2] < w[i][2]
    BY DEF InCallOrder
  <2>1. /\ \A m \in 1 .. u[i][2] - 1 : \E j \in 1 .. i - 1 : u[j] = <<"text", m>>
        /\ \A j \in 1 .. i - 1 : u[j][1] = "text" => u[j][2] < u[i][2]
    BY <1>5, <1>7 DEF InCallOrder
  <2>2. \A j \in 1 .. i - 1 : w[j] = u[j]
    BY <1>5, <1>6
  <2> QED
    BY <1>5, <2>1, <2>2
<1> QED
  BY <1>1, <1>8

-----------------------------------------------------------------------------
LEMMA NothingNumbered == ASSUME NEW a, NEW b, Numbered(<<>>, a, b) PROVE a = b
<1>1. a \in Nat /\ b \in Nat /\ a <= b /\ Len(<<>>) = 0
  BY EmptySeq DEF Numbered
<1>2. ASSUME a < b PROVE FALSE
  <2>1. a + 1 \in a + 1 .. b
    BY <1>1, <1>2
  <2> QED
    BY <1>1, <2>1 DEF Numbered
<1> QED
  BY <1>1, <1>2

(* From the calls to the wire: what was written, what is being written,    *)
(* what is to be written next, and what was posted, hold all texts of the  *)
(* calls so far, in order, until a write fails; none is written after it.  *)
Chained(s) ==
    \E a, b, c \in Nat :
        /\ Numbered(s.wire, 0, a) /\ Numbered(s.sending, a, b)
        /\ Numbered(s.buffers, b, c) /\ Numbered(s.posted, c, s.texts)

WireOk(s) ==
    /\ s.wire \in Seq(Item) /\ InCallOrder(s.wire)
    /\ s.wire # <<>> => s.wire[1] = <<"101", 0>>

Writes(s) ==
    /\ WireOk(s)
    /\ s.broken => s.sending = <<>> \/ s.fails
    /\ ~s.broken => Chained(s) /\ (s.wire = <<>> => s.sending # <<>> /\ s.sending[1] = <<"101", 0>>)
    /\ s.sending \in Seq(Item) /\ s.buffers \in Seq(Item) /\ s.posted \in Seq(Item) /\ s.texts \in Nat

Goes(s) == Live(s) /\ Writes(s)

Written(s) ==
    /\ DOMAIN s = Fields
    /\ s.life \in {"new", "up", "freed"}
    /\ WireOk(s) /\ s.posted \in Seq(Item)
    /\ s.life = "up" => Writes(s)
    /\ s.life = "new" => /\ s.wire = <<>> /\ s.sending = <<>> /\ s.buffers = <<>> /\ s.posted = <<>>
                         /\ s.texts = 0 /\ ~s.broken

SameWrites(t, s) ==
    /\ t.wire = s.wire /\ t.sending = s.sending /\ t.buffers = s.buffers /\ t.posted = s.posted
    /\ t.texts = s.texts /\ t.broken = s.broken /\ t.fails = s.fails

SameRead(t, s) ==
    /\ t.state = s.state /\ t.hdr = s.hdr /\ t.left = s.left
    /\ t.fragment = s.fragment /\ t.message = s.message /\ t.delivered = s.delivered

LEMMA SameGoes == ASSUME NEW s, NEW t, Writes(s), SameWrites(t, s) PROVE Writes(t)
BY DEF Writes, WireOk, Chained, SameWrites

LEMMA GoesIsWritten == ASSUME NEW s, Goes(s) PROVE Written(s)
BY DEF Goes, Written, Writes, Live, Noted

LEMMA ClosedGoes == ASSUME NEW s, Goes(s) PROVE Goes(Closed(s)) /\ SameRead(Closed(s), s)
<1>1. SameWrites(Closed(s), s) /\ SameRead(Closed(s), s)
  BY DEF Closed, SameWrites, SameRead, Goes, Live, Noted, Fields
<1> QED
  BY <1>1, SameGoes, ClosedLives DEF Goes

LEMMA TookGoes == ASSUME NEW s, Goes(s) PROVE Goes(Took(s)) /\ SameRead(Took(s), s)
<1>1. SameWrites(Took(s), s) /\ SameRead(Took(s), s)
  BY DEF Took, SameWrites, SameRead, Goes, Live, Noted, Fields
<1> QED
  BY <1>1, SameGoes, TookLives DEF Goes

LEMMA DoWriteGoes == ASSUME NEW s, Goes(s) PROVE Goes(DoWrite(s)) /\ SameRead(DoWrite(s), s)
<1>1. PICK t : t = DoWrite(s)
  OBVIOUS
<1>2. Live(t)
  BY <1>1, DoWriteLives DEF Goes
<1>3. CASE s.sending # <<>>
  BY <1>1, <1>3 DEF DoWrite, SameRead, Goes
<1>4. CASE s.sending = <<>>
  <2>1. /\ t.wire = s.wire /\ t.sending = s.buffers /\ t.buffers = <<>> /\ t.posted = s.posted
        /\ t.texts = s.texts /\ t.broken = s.broken /\ (s.broken => t.fails)
        /\ SameRead(t, s)
    BY <1>1, <1>4 DEF DoWrite, SameRead, Goes, Live, Noted, Fields
  <2>2. ASSUME ~s.broken PROVE Chained(t) /\ s.wire # <<>>
    <3>1. s.wire # <<>> /\ Chained(s)
      BY <1>4, <2>2 DEF Goes, Writes
    <3>2. PICK a \in Nat, b \in Nat, c \in Nat :
             /\ Numbered(s.wire, 0, a) /\ Numbered(s.sending, a, b)
             /\ Numbered(s.buffers, b, c) /\ Numbered(s.posted, c, s.texts)
      BY <3>1 DEF Chained
    <3>3. a = b
      BY <1>4, <3>2, NothingNumbered
    <3>4. Numbered(t.buffers, c, c)
      BY <2>1, NoneNumbered
    <3> QED
      BY <2>1, <3>1, <3>2, <3>3, <3>4 DEF Chained
  <2>3. <<>> \in Seq(Item)
    BY EmptySeq
  <2>4. Writes(t)
    BY <2>1, <2>2, <2>3 DEF Goes, Writes, WireOk
  <2> QED
    BY <1>1, <1>2, <2>1, <2>4 DEF Goes
<1> QED
  BY <1>3, <1>4

\* a text of the next call, or an answer that is no text
LEMMA SendDataGoes ==
    ASSUME NEW s, Goes(s), NEW item \in Item, item[1] # "text"
    PROVE  Goes(SendData(s, item)) /\ SameRead(SendData(s, item), s)
<1>1. PICK t : t = SendData(s, item)
  OBVIOUS
<1>2. Live(t)
  BY <1>1, SendDataLives DEF Goes
<1>3. /\ t.wire = s.wire /\ t.sending = s.sending /\ t.buffers = s.buffers /\ t.posted = Append(s.posted, item)
      /\ t.texts = s.texts /\ t.broken = s.broken /\ t.fails = s.fails
      /\ SameRead(t, s)
  BY <1>1 DEF SendData, SameRead, Goes, Live, Noted, Fields
<1>4. ASSUME ~s.broken PROVE Chained(t)
  <2>1. Chained(s) /\ s.texts \in Nat
    BY <1>4 DEF Goes, Writes
  <2>2. PICK a \in Nat, b \in Nat, c \in Nat :
           /\ Numbered(s.wire, 0, a) /\ Numbered(s.sending, a, b)
           /\ Numbered(s.buffers, b, c) /\ Numbered(s.posted, c, s.texts)
    BY <2>1 DEF Chained
  <2>3. Numbered(t.posted, c, s.texts)
    BY <1>3, <2>1, <2>2, OneNumbered, AppendNumbered
  <2> QED
    BY <1>3, <2>2, <2>3 DEF Chained
<1>5. t.posted \in Seq(Item)
  BY <1>3, AppendProperties DEF Goes, Writes
<1> QED
  BY <1>1, <1>2, <1>3, <1>4, <1>5 DEF Goes, Writes, WireOk

LEMMA CloseGoes == ASSUME NEW s, Goes(s) PROVE Goes(Close(s)) /\ SameRead(Close(s), s)
<1> DEFINE tell == s.recvClose /\ ~s.told
           u == [s EXCEPT !.sentClose = TRUE, !.told = @ \/ tell,
                          !.calls = IF tell THEN @ + 1 ELSE @,
                          !.buffers = Append(@, <<"close", 0>>)]
<1>0. PICK t : t = u
  OBVIOUS
<1>1. DOMAIN t = Fields /\ t.life = s.life /\ t.waiting = s.waiting /\ t.reading = s.reading
      /\ t.wire = s.wire /\ t.sending = s.sending /\ t.buffers = Append(s.buffers, <<"close", 0>>)
      /\ t.posted = s.posted
      /\ t.texts = s.texts /\ t.broken = s.broken /\ t.fails = s.fails
      /\ SameRead(t, s)
  BY <1>0 DEF Goes, Live, Noted, Fields, SameRead
<1>2. t.calls = IF tell THEN s.calls + 1 ELSE s.calls
  BY <1>0 DEF Goes, Live, Noted, Fields
<1>3. t.told <=> s.told \/ tell
  BY <1>0 DEF Goes, Live, Noted, Fields
<1>4. Live(t)
  BY <1>1, <1>2, <1>3 DEF Goes, Live, Noted
<1>5. <<"close", 0>> \in Item /\ <<"close", 0>>[1] # "text"
  BY DEF Item
<1>6. ASSUME ~s.broken PROVE Chained(t)
  <2>1. Chained(s)
    BY <1>6 DEF Goes, Writes
  <2>2. PICK a \in Nat, b \in Nat, c \in Nat :
           /\ Numbered(s.wire, 0, a) /\ Numbered(s.sending, a, b)
           /\ Numbered(s.buffers, b, c) /\ Numbered(s.posted, c, s.texts)
    BY <2>1 DEF Chained
  <2>3. Numbered(t.buffers, b, c)
    BY <1>1, <1>5, <2>2, OneNumbered, AppendNumbered
  <2> QED
    BY <1>1, <2>2, <2>3 DEF Chained
<1>7. t.buffers \in Seq(Item)
  BY <1>1, <1>5, AppendProperties DEF Goes, Writes
<1>8. Goes(t)
  BY <1>1, <1>4, <1>6, <1>7 DEF Goes, Writes, WireOk
<1>9. Close(s) = DoWrite(t)
  BY <1>0 DEF Close
<1> QED
  BY <1>1, <1>8, <1>9, DoWriteGoes DEF SameRead

LEMMA ReactGoes ==
    ASSUME NEW s, NEW reply, Goes(s) PROVE Goes(React(s, reply)) /\ SameRead(React(s, reply), s)
<1>1. PICK t : t = SendData([s EXCEPT !.texts = @ + 1], <<"text", s.texts + 1>>)
  OBVIOUS
<1>2. /\ t.wire = s.wire /\ t.sending = s.sending /\ t.buffers = s.buffers
      /\ t.posted = Append(s.posted, <<"text", s.texts + 1>>)
      /\ t.texts = s.texts + 1 /\ t.broken = s.broken /\ t.fails = s.fails
      /\ SameRead(t, s) /\ Live(t)
  BY <1>1 DEF SendData, SameRead, Goes, Live, Noted, Fields
<1>3. <<"text", s.texts + 1>> \in Item /\ s.texts \in Nat /\ s.texts + 1 \in Nat
  BY DEF Item, Goes, Writes
<1>4. ASSUME ~s.broken PROVE Chained(t)
  <2>1. Chained(s)
    BY <1>4 DEF Goes, Writes
  <2>2. PICK a \in Nat, b \in Nat, c \in Nat :
           /\ Numbered(s.wire, 0, a) /\ Numbered(s.sending, a, b)
           /\ Numbered(s.buffers, b, c) /\ Numbered(s.posted, c, s.texts)
    BY <2>1 DEF Chained
  <2>3. Numbered(t.posted, c, s.texts + 1)
    BY <1>2, <1>3, <2>2, OneNumbered, AppendNumbered
  <2> QED
    BY <1>2, <2>2, <2>3 DEF Chained
<1>5. t.posted \in Seq(Item)
  BY <1>2, <1>3, AppendProperties DEF Goes, Writes
<1>6. Goes(t)
  BY <1>2, <1>3, <1>4, <1>5 DEF Goes, Writes, WireOk
<1>7. PICK c : c = [s EXCEPT !.closes = @ + 1]
  OBVIOUS
<1>8. Live(c) /\ SameWrites(c, s) /\ SameRead(c, s)
  BY <1>7 DEF Goes, Live, Noted, Fields, SameWrites, SameRead
<1>9. Goes(Close(c)) /\ SameRead(Close(c), s)
  BY <1>8, SameGoes, CloseGoes DEF Goes, SameRead
<1>10. React(s, reply) \in {t, Close(c), s}
  BY <1>1, <1>7, Zenon DEF React
<1> QED
  BY <1>2, <1>6, <1>9, <1>10 DEF SameRead

\* the object is deleted, or stays as it is
LEMMA CheckDestroyGoes ==
    ASSUME NEW s, Goes(s)
    PROVE  Written(CheckDestroy(s)) /\ SameRead(CheckDestroy(s), s)
<1>1. PICK t : t = [s EXCEPT !.calls = IF s.told THEN @ ELSE @ + 1]
  OBVIOUS
<1>2. Live(t) /\ SameWrites(t, s) /\ SameRead(t, s)
  BY <1>1 DEF Goes, Live, Noted, Fields, SameWrites, SameRead
<1>3. Goes(t)
  BY <1>2, SameGoes DEF Goes
<1>4. PICK v : v = Delete(t)
  OBVIOUS
<1>5. Written(v) /\ SameRead(v, t)
  <2>1. CASE t.sending = <<>> /\ ~t.reading
    <3>1. /\ DOMAIN v = Fields /\ v.life = "freed" /\ SameRead(v, t) /\ v.posted = t.posted /\ v.wire = t.wire
      BY <1>2, <1>4, <2>1 DEF Delete, Live, Noted, Fields, SameRead
    <3> QED
      BY <1>3, <3>1 DEF Goes, Writes, Written, WireOk
  <2>2. CASE ~(t.sending = <<>> /\ ~t.reading)
    BY <1>3, <1>4, <2>2, GoesIsWritten DEF Delete, SameRead
  <2> QED
    BY <2>1, <2>2
<1>6. CheckDestroy(s) = v
  BY <1>1, <1>4 DEF CheckDestroy
<1> QED
  BY <1>2, <1>5, <1>6 DEF SameRead

\* the next read is begun, or is not
Continues(t, s) ==
    /\ t.state = s.state \/ (s.state = "Mask" /\ t.state \in {"Mask", "Payload"})
    /\ t.hdr = s.hdr /\ t.left = s.left
    /\ t.fragment = s.fragment /\ t.message = s.message /\ t.delivered = s.delivered

LEMMA DoReadGoes ==
    ASSUME NEW s, Goes(s) PROVE Written(WsDoRead(s)) /\ Continues(WsDoRead(s), s)
<1> DEFINE r == [s EXCEPT !.reading = TRUE]
<1>1. PICK a, b, c : /\ a = [r EXCEPT !.waiting = TRUE]
                     /\ b = [r EXCEPT !.tooBig = TRUE]
                     /\ c = [r EXCEPT !.waiting = TRUE, !.state = IF s.hdr.masked THEN "Mask" ELSE "Payload"]
  OBVIOUS
<1>2. Live(a) /\ SameWrites(a, s) /\ SameRead(a, s)
  BY <1>1 DEF Goes, Live, Noted, Fields, SameWrites, SameRead
<1>3. Live(b) /\ SameWrites(b, s) /\ SameRead(b, s)
  BY <1>1 DEF Goes, Live, Noted, Fields, SameWrites, SameRead
<1>4. Live(c) /\ SameWrites(c, s)
      /\ c.state \in {"Mask", "Payload"}
      /\ c.hdr = s.hdr /\ c.left = s.left
      /\ c.fragment = s.fragment /\ c.message = s.message /\ c.delivered = s.delivered
  BY <1>1 DEF Goes, Live, Noted, Fields, SameWrites
<1>5. Goes(a) /\ Goes(b) /\ Goes(c)
  BY <1>2, <1>3, <1>4, SameGoes DEF Goes
<1>6. Goes(Closed(b)) /\ SameRead(Closed(b), b) /\ Goes(Closed(s)) /\ SameRead(Closed(s), s)
  BY <1>5, ClosedGoes
<1>7. PICK d, e : d = CheckDestroy(Closed(s)) /\ e = CheckDestroy(Closed(b))
  OBVIOUS
<1>8. Written(d) /\ SameRead(d, s) /\ Written(e) /\ SameRead(e, s)
  BY <1>3, <1>6, <1>7, CheckDestroyGoes DEF SameRead
<1>9. WsDoRead(s) = d \/ WsDoRead(s) = a \/ WsDoRead(s) = e \/ (s.state = "Mask" /\ WsDoRead(s) = c)
  BY <1>1, <1>7, Zenon DEF WsDoRead
<1>10. Written(a) /\ Written(c)
  BY <1>5, GoesIsWritten
<1>11. Continues(a, s) /\ Continues(d, s) /\ Continues(e, s)
  BY <1>2, <1>8 DEF SameRead, Continues
<1>12. s.state = "Mask" => Continues(c, s)
  BY <1>4 DEF Continues
<1> QED
  BY <1>8, <1>9, <1>10, <1>11, <1>12

-----------------------------------------------------------------------------
(* The messages of a sequence of frames, one frame after the other.        *)

Cut(fs, before, n) ==
    LET m == before.open \o Pieces(fs, n)
    IN  IF fs[n].op # "data" THEN before
        ELSE IF fs[n].fin THEN [whole |-> Append(before.whole, m), open |-> <<>>]
        ELSE [whole |-> before.whole, open |-> m]

Cutting(fs, cut) ==
    cut = [n \in 0 .. Len(fs) |-> IF n = 0 THEN [whole |-> <<>>, open |-> <<>>] ELSE Cut(fs, cut[n - 1], n)]

LEMMA CuttingExists == ASSUME NEW fs, Len(fs) \in Nat PROVE \E cut : Cutting(fs, cut)
<1> DEFINE None == [whole |-> <<>>, open |-> <<>>]
           Begun(n, g) == g = [k \in 0 .. n |-> IF k = 0 THEN None ELSE Cut(fs, g[k - 1], k)]
           P == {n \in 0 .. Len(fs) : \E g : Begun(n, g)}
<1> HIDE DEF None
<1>1. 0 \in P
  <2> DEFINE g == [k \in 0 .. 0 |-> None]
  <2>1. Begun(0, g)
    OBVIOUS
  <2> HIDE DEF g
  <2>2. \E f : Begun(0, f)
    BY <2>1
  <2> QED
    BY <2>2
<1>2. ASSUME NEW n \in 0 .. Len(fs) - 1, n \in P PROVE n + 1 \in P
  <2>1. PICK g : Begun(n, g)
    BY <1>2
  <2> DEFINE h == [k \in 0 .. n + 1 |-> IF k = n + 1 THEN Cut(fs, g[n], n + 1) ELSE g[k]]
  <2>2. \A k \in 0 .. n : h[k] = g[k]
    OBVIOUS
  <2>3. ASSUME NEW k \in 0 .. n + 1
        PROVE  h[k] = IF k = 0 THEN None ELSE Cut(fs, h[k - 1], k)
    <3>1. CASE k = n + 1
      <4>1. h[k] = Cut(fs, g[n], n + 1) /\ k - 1 = n /\ h[k - 1] = g[n] /\ k # 0
        BY <3>1
      <4> QED
        BY <3>1, <4>1
    <3>2. CASE k # n + 1
      <4>1. h[k] = g[k] /\ (k # 0 => h[k - 1] = g[k - 1])
        BY <3>2
      <4>2. g[k] = IF k = 0 THEN None ELSE Cut(fs, g[k - 1], k)
        BY <2>1, <3>2
      <4> QED
        BY <4>1, <4>2
    <3> QED
      BY <3>1, <3>2
  <2>4. Begun(n + 1, h)
    BY <2>3
  <2> HIDE DEF h
  <2>5. \E f : Begun(n + 1, f)
    BY <2>4
  <2> QED
    BY <2>5
<1>3. \A n \in 0 .. Len(fs) : n \in P
  <2> HIDE DEF P
  <2> QED
    BY <1>1, <1>2, AllUpTo
<1>4. Len(fs) \in P
  BY <1>3
<1> QED
  BY <1>4 DEF Cutting, None

LEMMA MessagesUnfold ==
    ASSUME NEW fs, Len(fs) \in Nat
    PROVE  /\ Messages(fs)[0] = [whole |-> <<>>, open |-> <<>>]
           /\ \A n \in 1 .. Len(fs) : Messages(fs)[n] = Cut(fs, Messages(fs)[n - 1], n)
<1> DEFINE cut == CHOOSE g : Cutting(fs, g)
<1>1. Cutting(fs, cut)
  BY CuttingExists
<1>2. Messages(fs) = cut
  BY DEF Messages, Cutting, Cut
<1> HIDE DEF cut
<1>3. ASSUME NEW n \in 0 .. Len(fs)
      PROVE  cut[n] = IF n = 0 THEN [whole |-> <<>>, open |-> <<>>] ELSE Cut(fs, cut[n - 1], n)
  BY <1>1 DEF Cutting
<1>4. 0 \in 0 .. Len(fs) /\ \A n \in 1 .. Len(fs) : n \in 0 .. Len(fs) /\ n # 0
  OBVIOUS
<1> QED
  BY <1>2, <1>3, <1>4

\* one more frame changes nothing in those before it
LEMMA MessagesGrow ==
    ASSUME NEW S, NEW fs \in Seq(S), NEW f \in S
    PROVE  \A n \in 0 .. Len(fs) : Messages(Append(fs, f))[n] = Messages(fs)[n]
<1>1. PICK gs : gs = Append(fs, f)
  OBVIOUS
<1>2. Len(fs) \in Nat /\ Len(gs) = Len(fs) + 1 /\ \A i \in 1 .. Len(fs) : gs[i] = fs[i]
  BY <1>1, AppendProperties, LenProperties
<1> DEFINE P == {n \in 0 .. Len(fs) : Messages(gs)[n] = Messages(fs)[n]}
<1>3. 0 \in P
  BY <1>2, MessagesUnfold
<1>4. ASSUME NEW k \in 0 .. Len(fs) - 1, k \in P PROVE k + 1 \in P
  <2>1. PICK n : n = k + 1
    OBVIOUS
  <2>2. n \in 1 .. Len(fs) /\ n \in 1 .. Len(gs) /\ n - 1 = k /\ gs[n] = fs[n]
    BY <1>2, <2>1
  <2>3. PICK p : p = Messages(fs)[k]
    OBVIOUS
  <2>4. Messages(gs)[n] = Cut(gs, p, n) /\ Messages(fs)[n] = Cut(fs, p, n)
    <3>1. Messages(gs)[k] = p
      BY <1>4, <2>3
    <3>2. Messages(gs)[n] = Cut(gs, Messages(gs)[n - 1], n)
      BY <1>2, <2>2, MessagesUnfold
    <3>3. Messages(fs)[n] = Cut(fs, Messages(fs)[n - 1], n)
      BY <1>2, <2>2, MessagesUnfold
    <3> QED
      BY <2>2, <2>3, <3>1, <3>2, <3>3
  <2>5. Cut(gs, p, n) = Cut(fs, p, n)
    BY <2>2, Zenon DEF Cut, Pieces
  <2> QED
    BY <2>1, <2>2, <2>4, <2>5
<1> HIDE DEF P
<1>5. \A n \in 0 .. Len(fs) : n \in P
  BY <1>2, <1>3, <1>4, AllUpTo
<1> QED
  BY <1>1, <1>5 DEF P

-----------------------------------------------------------------------------
(* What onmessage got of the frames fs, and what is at hand.               *)

States == {"MiniHeader", "Len16", "Len64", "Mask", "Payload"}
Headers == Frame \cup {NoFrame} \cup {[f EXCEPT !.masked = FALSE, !.ext = 0, !.size = 0] : f \in Frame}

Reads(s) == s.state \in States /\ s.hdr \in Headers /\ s.left \in 0 .. s.hdr.size

Got(s, msgs) == s.delivered = msgs.whole /\ s.message = msgs.open

Heard(s, fs) ==
    IF s.state = "MiniHeader" THEN s.fragment = <<>> /\ Got(s, Messages(fs)[Len(fs)])
    ELSE /\ fs # <<>> /\ s.hdr = fs[Len(fs)]
         /\ s.fragment = [i \in 1 .. s.hdr.size - s.left |-> <<Len(fs), i>>]
         /\ Got(s, Messages(fs)[Len(fs) - 1])

LEMMA SizeIs == ASSUME WsConfig, NEW h \in Headers PROVE h.size \in Nat
<1>1. CASE h \in Frame
  BY <1>1 DEF WsConfig
<1>2. CASE h = NoFrame
  BY <1>2 DEF NoFrame
<1>3. CASE h \in {[f EXCEPT !.masked = FALSE, !.ext = 0, !.size = 0] : f \in Frame}
  <2>1. PICK f \in Frame : h = [f EXCEPT !.masked = FALSE, !.ext = 0, !.size = 0]
    BY <1>3
  <2> QED
    BY <2>1 DEF WsConfig
<1> QED
  BY <1>1, <1>2, <1>3 DEF Headers

LEMMA SameReads ==
    ASSUME NEW s, NEW t, SameRead(t, s), NEW fs
    PROVE  (Reads(s) => Reads(t)) /\ (Heard(s, fs) => Heard(t, fs))
BY DEF SameRead, Reads, Heard, Got

LEMMA ContinuesReads ==
    ASSUME NEW s, NEW t, Continues(t, s), NEW fs
    PROVE  (Reads(s) => Reads(t)) /\ (Heard(s, fs) => Heard(t, fs))
BY DEF Continues, Reads, Heard, Got, States

LEMMA MergeGoes ==
    ASSUME NEW s, NEW reply, Goes(s)
    PROVE  LET t == Merge(s, reply)
               m == s.message \o s.fragment
           IN  /\ Goes(t) /\ t.hdr = s.hdr /\ t.left = s.left
               /\ IF s.hdr.fin THEN t.message = <<>> /\ t.delivered = Append(s.delivered, m)
                  ELSE t.message = m /\ t.delivered = s.delivered
<1>1. PICK m : m = s.message \o s.fragment
  OBVIOUS
<1>2. PICK u, v : /\ u = [s EXCEPT !.message = <<>>, !.delivered = Append(@, m)]
                  /\ v = [s EXCEPT !.message = m]
  OBVIOUS
<1>3. /\ Live(u) /\ SameWrites(u, s) /\ u.hdr = s.hdr /\ u.left = s.left
      /\ u.message = <<>> /\ u.delivered = Append(s.delivered, m)
  BY <1>2 DEF Goes, Live, Noted, Fields, SameWrites
<1>4. /\ Live(v) /\ SameWrites(v, s) /\ v.hdr = s.hdr /\ v.left = s.left
      /\ v.message = m /\ v.delivered = s.delivered
  BY <1>2 DEF Goes, Live, Noted, Fields, SameWrites
<1>5. Goes(u) /\ Goes(v)
  BY <1>3, <1>4, SameGoes DEF Goes
<1>6. Goes(React(u, reply)) /\ SameRead(React(u, reply), u)
  BY <1>5, ReactGoes
<1>7. PICK t : t = Merge(s, reply)
  OBVIOUS
<1>8. t = IF s.hdr.fin THEN React(u, reply) ELSE v
  BY <1>1, <1>2, <1>7, Zenon DEF Merge
<1> QED
  BY <1>1, <1>3, <1>4, <1>5, <1>6, <1>7, <1>8 DEF SameRead

\* the next header is read when a frame is done
LEMMA NextFrame ==
    ASSUME NEW t, Goes(t)
    PROVE  LET v == WsDoRead([t EXCEPT !.fragment = <<>>, !.state = "MiniHeader"])
           IN  /\ Written(v) /\ v.state = "MiniHeader" /\ v.fragment = <<>> /\ v.hdr = t.hdr /\ v.left = t.left
               /\ v.message = t.message /\ v.delivered = t.delivered
<1>1. PICK u : u = [t EXCEPT !.fragment = <<>>, !.state = "MiniHeader"]
  OBVIOUS
<1>2. /\ Live(u) /\ SameWrites(u, t)
      /\ u.state = "MiniHeader" /\ u.fragment = <<>> /\ u.hdr = t.hdr /\ u.left = t.left
      /\ u.message = t.message /\ u.delivered = t.delivered
  BY <1>1 DEF Goes, Live, Noted, Fields, SameWrites
<1>3. Goes(u)
  BY <1>2, SameGoes DEF Goes
<1>4. Written(WsDoRead(u)) /\ Continues(WsDoRead(u), u)
  BY <1>3, DoReadGoes
<1> QED
  BY <1>1, <1>2, <1>4 DEF Continues

(* A frame that is complete is part of the messages from then on, or is    *)
(* none of theirs.                                                         *)
LEMMA HandleFragmentGoes ==
    ASSUME WsConfig, NEW s, NEW reply, Goes(s), Reads(s), s.state = "Payload", s.left = 0
    PROVE  LET v == HandleFragment(s, reply)
           IN  /\ Written(v) /\ Reads(v)
               /\ \A fs : Len(fs) \in Nat /\ Heard(s, fs) => Heard(v, fs)
<1> DEFINE next(t) == WsDoRead([t EXCEPT !.fragment = <<>>, !.state = "MiniHeader"])
           Fine(v) == /\ Written(v) /\ Reads(v)
                      /\ \A fs : Len(fs) \in Nat /\ Heard(s, fs) => Heard(v, fs)
<1>1. ASSUME NEW fs, Len(fs) \in Nat, Heard(s, fs)
      PROVE  /\ fs # <<>> /\ Len(fs) \in 1 .. Len(fs) /\ s.hdr = fs[Len(fs)] /\ s.fragment = Pieces(fs, Len(fs))
             /\ Got(s, Messages(fs)[Len(fs) - 1])
             /\ Messages(fs)[Len(fs)] = Cut(fs, Messages(fs)[Len(fs) - 1], Len(fs))
  <2>1. /\ fs # <<>> /\ s.hdr = fs[Len(fs)]
        /\ s.fragment = [i \in 1 .. s.hdr.size - s.left |-> <<Len(fs), i>>]
        /\ Got(s, Messages(fs)[Len(fs) - 1])
    BY <1>1 DEF Heard
  <2>2. s.hdr.size - s.left = fs[Len(fs)].size
    BY <2>1, SizeIs DEF Reads
  <2>3. Len(fs) \in 1 .. Len(fs)
    BY <1>1, <2>1 
  <2> QED
    BY <1>1, <2>1, <2>2, <2>3, MessagesUnfold DEF Pieces
<1>2. ASSUME NEW t, Goes(t), t.hdr = s.hdr, t.left = s.left, SameRead(t, s), s.hdr.op # "data" PROVE Fine(next(t))
  <2>1. PICK v : v = next(t)
    OBVIOUS
  <2>2. /\ Written(v) /\ v.state = "MiniHeader" /\ v.fragment = <<>> /\ v.hdr = t.hdr /\ v.left = t.left
        /\ v.message = t.message /\ v.delivered = t.delivered
    BY <1>2, <2>1, NextFrame
  <2>3. Reads(v)
    BY <1>2, <2>2 DEF Reads, States
  <2>4. ASSUME NEW fs, Len(fs) \in Nat, Heard(s, fs) PROVE Heard(v, fs)
    <3>1. s.hdr = fs[Len(fs)] /\ Got(s, Messages(fs)[Len(fs) - 1])
          /\ Messages(fs)[Len(fs)] = Cut(fs, Messages(fs)[Len(fs) - 1], Len(fs))
      BY <1>1, <2>4
    <3>2. Messages(fs)[Len(fs)] = Messages(fs)[Len(fs) - 1]
      BY <1>2, <3>1 DEF Cut
    <3> QED
      BY <1>2, <2>2, <3>1, <3>2 DEF Heard, Got, SameRead
  <2> QED
    BY <2>1, <2>2, <2>3, <2>4
<1>3. ASSUME s.hdr.op = "data" PROVE Fine(next(Merge(s, reply)))
  <2>1. PICK t : t = Merge(s, reply)
    OBVIOUS
  <2>2. PICK m : m = s.message \o s.fragment
    OBVIOUS
  <2>3. /\ Goes(t) /\ t.hdr = s.hdr /\ t.left = s.left
        /\ IF s.hdr.fin THEN t.message = <<>> /\ t.delivered = Append(s.delivered, m)
           ELSE t.message = m /\ t.delivered = s.delivered
    BY <2>1, <2>2, MergeGoes
  <2>4. PICK v : v = next(t)
    OBVIOUS
  <2>5. /\ Written(v) /\ v.state = "MiniHeader" /\ v.fragment = <<>> /\ v.hdr = t.hdr /\ v.left = t.left
        /\ v.message = t.message /\ v.delivered = t.delivered
    BY <2>3, <2>4, NextFrame
  <2>6. Reads(v)
    BY <2>3, <2>5 DEF Reads, States
  <2>7. ASSUME NEW fs, Len(fs) \in Nat, Heard(s, fs) PROVE Heard(v, fs)
    <3>1. PICK p : p = Messages(fs)[Len(fs) - 1]
      OBVIOUS
    <3>2. s.hdr = fs[Len(fs)] /\ s.fragment = Pieces(fs, Len(fs)) /\ Got(s, p)
          /\ Messages(fs)[Len(fs)] = Cut(fs, p, Len(fs))
      BY <1>1, <2>7, <3>1
    <3>3. p.open \o Pieces(fs, Len(fs)) = m
      BY <2>2, <3>2 DEF Got
    <3>4. Messages(fs)[Len(fs)] = IF s.hdr.fin THEN [whole |-> Append(p.whole, m), open |-> <<>>]
                                     ELSE [whole |-> p.whole, open |-> m]
      BY <1>3, <3>2, <3>3 DEF Cut
    <3>5. Got(v, Messages(fs)[Len(fs)])
      <4>1. CASE s.hdr.fin
        BY <2>3, <2>5, <3>2, <3>4, <4>1 DEF Got
      <4>2. CASE ~s.hdr.fin
        BY <2>3, <2>5, <3>2, <3>4, <4>2 DEF Got
      <4> QED
        BY <4>1, <4>2
    <3> QED
      BY <2>5, <3>5 DEF Heard
  <2> QED
    BY <2>1, <2>4, <2>5, <2>6, <2>7
<1>4. PICK c : c = [s EXCEPT !.recvClose = TRUE]
  OBVIOUS
<1>5. Live(c) /\ SameWrites(c, s) /\ SameRead(c, s)
  BY <1>4 DEF Goes, Live, Noted, Fields, SameWrites, SameRead
<1>6. Goes(c)
  BY <1>5, SameGoes DEF Goes
<1>7. PICK d : d = [c EXCEPT !.told = TRUE, !.calls = IF s.told THEN @ ELSE @ + 1]
  OBVIOUS
<1>8. Live(d) /\ SameWrites(d, c) /\ SameRead(d, c)
  BY <1>4, <1>5, <1>7 DEF Goes, Live, Noted, Fields, SameWrites, SameRead
<1>9. Goes(d)
  BY <1>6, <1>8, SameGoes DEF Goes
<1>10. <<"pong", 0>> \in Item /\ <<"pong", 0>>[1] # "text"
  BY DEF Item
<1>11. ASSUME s.hdr.op # "data" PROVE Fine(next(SendData(s, <<"pong", 0>>))) /\ Fine(next(s)) /\ Fine(next(Close(c)))
  <2>1. Goes(SendData(s, <<"pong", 0>>)) /\ SameRead(SendData(s, <<"pong", 0>>), s)
    BY <1>10, SendDataGoes
  <2>2. Goes(Close(c)) /\ SameRead(Close(c), s)
    BY <1>5, <1>6, CloseGoes DEF SameRead
  <2>3. SameRead(s, s)
    BY DEF SameRead
  <2> HIDE DEF Fine, next
  <2>4. \A t : Goes(t) /\ SameRead(t, s) => Fine(next(t))
    BY <1>2, <1>11 DEF SameRead
  <2> QED
    BY <2>1, <2>2, <2>3, <2>4
<1>12. PICK x : x = CheckDestroy(Closed(d))
  OBVIOUS
<1>13. Fine(x)
  <2>1. Goes(Closed(d)) /\ SameRead(Closed(d), d)
    BY <1>9, ClosedGoes
  <2>2. Written(x) /\ SameRead(x, s)
    BY <1>5, <1>8, <1>12, <2>1, CheckDestroyGoes DEF SameRead
  <2> QED
    BY <2>2, SameReads
<1>14. LET v == HandleFragment(s, reply)
       IN  \/ s.hdr.op = "data" /\ v = next(Merge(s, reply))
           \/ s.hdr.op # "data" /\ v = next(SendData(s, <<"pong", 0>>))
           \/ s.hdr.op # "data" /\ v = next(Close(c))
           \/ s.hdr.op # "data" /\ v = next(s)
           \/ v = x
  <2> HIDE DEF next
  <2>1. CASE s.hdr.op = "data"
    BY <2>1, Zenon DEF HandleFragment, next
  <2>2. CASE s.hdr.op = "ping"
    BY <2>2, Zenon DEF HandleFragment, next
  <2>3. CASE s.hdr.op = "close" /\ ~s.sentClose
    BY <1>4, <2>3, Zenon DEF HandleFragment, next
  <2>4. CASE s.hdr.op = "close" /\ s.sentClose
    BY <1>4, <1>7, <1>12, <2>4, Zenon DEF HandleFragment, next
  <2>5. CASE s.hdr.op \notin {"data", "ping", "close"}
    BY <2>5, Zenon DEF HandleFragment, next
  <2> QED
    BY <2>1, <2>2, <2>3, <2>4, <2>5
<1> HIDE DEF Fine, next
<1>15. Fine(HandleFragment(s, reply))
  BY <1>3, <1>11, <1>13, <1>14
<1> QED
  BY <1>15 DEF Fine

-----------------------------------------------------------------------------
(* The invariant of the messages, inductive.                               *)

WsWritten ==
    /\ Sound(ws) /\ Written(ws) /\ Reads(ws)
    /\ sent \in Seq(Frame) /\ aligned \in BOOLEAN /\ peerGone \in BOOLEAN
    /\ aligned => Heard(ws, sent)

LEMMA MorePieces ==
    ASSUME NEW n, NEW g \in Nat, NEW k \in Nat
    PROVE  [i \in 1 .. g |-> <<n, i>>] \o [i \in 1 .. k |-> <<n, g + i>>] = [i \in 1 .. g + k |-> <<n, i>>]
<1> DEFINE p == [i \in 1 .. g |-> <<n, i>>]
           q == [i \in 1 .. k |-> <<n, g + i>>]
<1>0. PICK S : S = {<<n, i>> : i \in Nat}
  OBVIOUS
<1>1. p \in Seq(S) /\ q \in Seq(S) /\ Len(p) = g /\ Len(q) = k
  <2>1. \A i \in 1 .. g : <<n, i>> \in S
    BY <1>0
  <2>2. \A i \in 1 .. k : <<n, g + i>> \in S
    BY <1>0
  <2> QED
    BY <2>1, <2>2
<1>2. p \o q = [i \in 1 .. g + k |-> IF i <= g THEN p[i] ELSE q[i - g]]
  BY <1>1
<1>3. ASSUME NEW i \in 1 .. g + k PROVE (IF i <= g THEN p[i] ELSE q[i - g]) = <<n, i>>
  <2>1. CASE i <= g
    BY <2>1
  <2>2. CASE ~(i <= g)
    <3>1. i - g \in 1 .. k /\ g + (i - g) = i
      BY <2>2
    <3> QED
      BY <2>2, <3>1
  <2> QED
    BY <2>1, <2>2
<1> QED
  BY <1>2, <1>3

LEMMA InitWritten == WsInit => WsWritten
<1> SUFFICES ASSUME WsInit PROVE WsWritten
  OBVIOUS
<1>1. Sound(ws)
  BY InitSound DEF WsSound
<1>2. Written(ws)
  <2>1. <<>> \in Seq(Item) /\ Len(<<>>) = 0
    BY EmptySeq
  <2>2. ws.wire = <<>> /\ ws.posted = <<>> /\ ws.sending = <<>> /\ ws.buffers = <<>> /\ ws.life = "new"
        /\ ws.texts = 0 /\ ~ws.broken /\ DOMAIN ws = Fields
    BY DEF WsInit, Fields
  <2>3. InCallOrder(ws.wire)
    BY <2>1, <2>2 DEF InCallOrder
  <2> QED
    BY <2>1, <2>2, <2>3 DEF Written, WireOk
<1>3. Reads(ws)
  BY DEF WsInit, Reads, Headers, States, NoFrame
<1>4. Heard(ws, sent)
  <2>1. Len(<<>>) = 0 /\ sent = <<>>
    BY EmptySeq DEF WsInit
  <2>2. Messages(sent)[Len(sent)] = [whole |-> <<>>, open |-> <<>>]
    BY <2>1, MessagesUnfold
  <2> QED
    BY <2>2 DEF WsInit, Heard, Got
<1> QED
  BY <1>1, <1>2, <1>3, <1>4, EmptySeq DEF WsWritten, WsInit

LEMMA UpGoes == ASSUME Sound(ws), Written(ws), ws.life = "up" PROVE Goes(ws)
BY DEF Sound, Written, Goes, Live

-----------------------------------------------------------------------------
(* Reads.                                                                  *)

LEMMA HeaderGoes ==
    ASSUME WsConfig, WsWritten, Completes("MiniHeader"), NEW f \in Headers
    PROVE  /\ Written(Header(f)) /\ Reads(Header(f))
           /\ \A g \in Frame : g = f /\ Heard(ws, sent) => Heard(Header(f), Append(sent, g))
<1>1. Goes(ws) /\ ws.state = "MiniHeader"
  BY UpGoes DEF WsWritten, Completes
<1>2. PICK s : s = Took(ws)
  OBVIOUS
<1>3. Goes(s) /\ SameRead(s, ws)
  BY <1>1, <1>2, TookGoes
<1>4. PICK u : u = [s EXCEPT !.hdr = f, !.left = f.size,
                      !.state = CASE f.ext = 64 -> "Len64" [] f.ext = 16 -> "Len16" [] OTHER -> "Mask"]
  OBVIOUS
<1>5. /\ Live(u) /\ SameWrites(u, s)
      /\ u.state \in {"Len16", "Len64", "Mask"} /\ u.hdr = f /\ u.left = f.size
      /\ u.fragment = ws.fragment /\ u.message = ws.message /\ u.delivered = ws.delivered
  BY <1>3, <1>4 DEF Goes, Live, Noted, Fields, SameWrites, SameRead
<1>6. Goes(u)
  BY <1>3, <1>5, SameGoes DEF Goes
<1>7. PICK t : t = WsDoRead(u)
  OBVIOUS
<1>8. Written(t) /\ Continues(t, u)
  BY <1>6, <1>7, DoReadGoes
<1>9. t = Header(f)
  BY <1>2, <1>4, <1>7 DEF Header
<1>10. f.size \in Nat
  BY SizeIs
<1>11. Reads(t)
  BY <1>5, <1>8, <1>10 DEF Reads, Continues, States
<1>12. ASSUME NEW g \in Frame, g = f, Heard(ws, sent) PROVE Heard(t, Append(sent, g))
  <2>1. PICK fs : fs = Append(sent, g)
    OBVIOUS
  <2>2. sent \in Seq(Frame) /\ Len(sent) \in Nat
    BY LenProperties DEF WsWritten
  <2>3. Len(fs) = Len(sent) + 1 /\ fs[Len(fs)] = g /\ fs # <<>>
    BY <2>1, <2>2, AppendProperties
  <2>4. Messages(fs)[Len(fs) - 1] = Messages(sent)[Len(sent)]
    <3>1. Len(sent) \in 0 .. Len(sent) /\ Len(fs) - 1 = Len(sent)
      BY <2>2, <2>3
    <3> QED
      BY <2>1, <2>2, <3>1, MessagesGrow
  <2>5. ws.fragment = <<>> /\ Got(ws, Messages(sent)[Len(sent)])
    BY <1>1, <1>12 DEF Heard
  <2>6. [i \in 1 .. t.hdr.size - t.left |-> <<Len(fs), i>>] = <<>>
    <3>1. t.hdr.size - t.left = 0
      BY <1>5, <1>8, <1>10 DEF Continues
    <3> QED
      BY <3>1
  <2>7. t.state # "MiniHeader" /\ t.hdr = g /\ t.fragment = <<>> /\ Got(t, Messages(sent)[Len(sent)])
    BY <1>5, <1>8, <1>12, <2>5 DEF Continues, Got
  <2> QED
    BY <2>1, <2>3, <2>4, <2>6, <2>7 DEF Heard
<1> QED
  BY <1>8, <1>9, <1>11, <1>12

LEMMA ReadHeaderWritten ==
    ASSUME WsConfig, WsWritten, ReadHeader \/ ReadHalfHeader
    PROVE  Written(ws') /\ Reads(ws') /\ sent' \in Seq(Frame) /\ aligned' \in BOOLEAN /\ peerGone' \in BOOLEAN
           /\ (aligned' => Heard(ws', sent'))
<1>1. CASE ReadHeader
  <2>1. PICK f \in Frame : ws' = Header(f) /\ sent' = Append(sent, f)
    BY <1>1 DEF ReadHeader
  <2>2. Completes("MiniHeader") /\ aligned' = aligned /\ peerGone' = peerGone
    BY <1>1 DEF ReadHeader
  <2>3. f \in Headers
    BY DEF Headers
  <2>4. sent' \in Seq(Frame)
    BY <2>1, AppendProperties DEF WsWritten
  <2>5. Written(ws') /\ Reads(ws') /\ (Heard(ws, sent) => Heard(ws', sent'))
    BY <2>1, <2>2, <2>3, HeaderGoes
  <2> QED
    BY <2>2, <2>4, <2>5 DEF WsWritten
<1>2. CASE ReadHalfHeader
  <2>1. PICK f \in Frame : /\ ws' = Header([f EXCEPT !.masked = FALSE, !.ext = 0, !.size = 0])
                           /\ sent' = Append(sent, f)
    BY <1>2 DEF ReadHalfHeader
  <2>2. Completes("MiniHeader") /\ aligned' = FALSE /\ peerGone' = peerGone
    BY <1>2 DEF ReadHalfHeader
  <2>3. [f EXCEPT !.masked = FALSE, !.ext = 0, !.size = 0] \in Headers
    BY DEF Headers
  <2>4. sent' \in Seq(Frame)
    BY <2>1, AppendProperties DEF WsWritten
  <2>5. Written(ws') /\ Reads(ws')
    BY <2>1, <2>2, <2>3, HeaderGoes
  <2> QED
    BY <2>2, <2>4, <2>5 DEF WsWritten
<1> QED
  BY <1>1, <1>2

LEMMA ReadPayloadWritten ==
    ASSUME WsConfig, WsWritten, ReadPayload
    PROVE  Written(ws') /\ Reads(ws') /\ (Heard(ws, sent) => Heard(ws', sent))
<1>1. Goes(ws) /\ ws.state = "Payload" /\ Reads(ws)
  BY UpGoes DEF WsWritten, ReadPayload, Completes
<1>2. PICK k \in 0 .. ws.left, reply \in Replies :
          LET got == ws.hdr.size - ws.left
              s == [Took(ws) EXCEPT !.left = @ - k,
                       !.fragment = @ \o [i \in 1 .. k |-> <<Len(sent), got + i>>]]
          IN  ws' = IF s.left = 0 THEN HandleFragment(s, reply) ELSE WsDoRead(s)
  BY DEF ReadPayload
<1>3. PICK u : u = Took(ws)
  OBVIOUS
<1>4. Goes(u) /\ SameRead(u, ws)
  BY <1>1, <1>3, TookGoes
<1>5. PICK got : got = ws.hdr.size - ws.left
  OBVIOUS
<1>6. PICK s : s = [u EXCEPT !.left = @ - k, !.fragment = @ \o [i \in 1 .. k |-> <<Len(sent), got + i>>]]
  OBVIOUS
<1>7. ws' = IF s.left = 0 THEN HandleFragment(s, reply) ELSE WsDoRead(s)
  BY <1>2, <1>3, <1>5, <1>6, Zenon
<1>8. /\ Live(s) /\ SameWrites(s, u)
      /\ s.state = ws.state /\ s.hdr = ws.hdr /\ s.left = ws.left - k
      /\ s.fragment = ws.fragment \o [i \in 1 .. k |-> <<Len(sent), got + i>>]
      /\ s.message = ws.message /\ s.delivered = ws.delivered
  BY <1>4, <1>6 DEF Goes, Live, Noted, Fields, SameWrites, SameRead
<1>9. Goes(s)
  BY <1>4, <1>8, SameGoes DEF Goes
<1>10. ws.hdr.size \in Nat /\ ws.left \in 0 .. ws.hdr.size /\ got \in Nat /\ k \in Nat
       /\ ws.left - k \in 0 .. ws.hdr.size /\ ws.hdr.size - (ws.left - k) = got + k
  <2>1. ws.hdr.size \in Nat /\ ws.left \in 0 .. ws.hdr.size
    BY <1>1, SizeIs DEF Reads
  <2> QED
    BY <1>5, <2>1
<1>11. Reads(s)
  BY <1>1, <1>8, <1>10 DEF Reads
<1>12. ASSUME Heard(ws, sent) PROVE Heard(s, sent)
  <2>1. /\ sent # <<>> /\ ws.hdr = sent[Len(sent)]
        /\ ws.fragment = [i \in 1 .. got |-> <<Len(sent), i>>]
        /\ Got(ws, Messages(sent)[Len(sent) - 1])
    BY <1>1, <1>5, <1>12 DEF Heard
  <2>2. s.fragment = [i \in 1 .. got + k |-> <<Len(sent), i>>]
    <3>1. PICK n : n = Len(sent)
      OBVIOUS
    <3>2. [i \in 1 .. got |-> <<n, i>>] \o [i \in 1 .. k |-> <<n, got + i>>] = [i \in 1 .. got + k |-> <<n, i>>]
      BY <1>10, MorePieces
    <3>3. s.fragment = [i \in 1 .. got |-> <<n, i>>] \o [i \in 1 .. k |-> <<n, got + i>>]
      BY <1>8, <2>1, <3>1
    <3> QED
      BY <3>1, <3>2, <3>3
  <2>3. s.hdr.size - s.left = got + k
    BY <1>8, <1>10
  <2>4. s.fragment = [i \in 1 .. s.hdr.size - s.left |-> <<Len(sent), i>>]
    BY <2>2, <2>3
  <2> QED
    BY <1>1, <1>8, <2>1, <2>4 DEF Heard, Got
<1>13. Len(sent) \in Nat
  BY LenProperties DEF WsWritten
<1>14. CASE s.left = 0
  <2>1. ws' = HandleFragment(s, reply)
    BY <1>7, <1>14
  <2>2. s.state = "Payload"
    BY <1>1, <1>8
  <2>3. Written(ws') /\ Reads(ws') /\ (Heard(s, sent) => Heard(ws', sent))
    BY <1>9, <1>11, <1>13, <1>14, <2>1, <2>2, HandleFragmentGoes
  <2> QED
    BY <1>12, <2>3
<1>15. CASE s.left # 0
  <2>1. PICK t : t = WsDoRead(s)
    OBVIOUS
  <2>2. Written(t) /\ Continues(t, s)
    BY <1>9, <2>1, DoReadGoes
  <2>3. Reads(t) /\ (Heard(s, sent) => Heard(t, sent))
    BY <1>11, <2>2, ContinuesReads
  <2>4. ws' = t
    BY <1>7, <1>15, <2>1
  <2> QED
    BY <1>12, <2>2, <2>3, <2>4
<1> QED
  BY <1>14, <1>15

LEMMA ReadRestWritten ==
    ASSUME WsConfig, WsWritten, ReadLength \/ ReadMask \/ WsReadFails
    PROVE  Written(ws') /\ Reads(ws') /\ (Heard(ws, sent) => Heard(ws', sent))
<1>1. ws.life = "up" /\ Goes(ws) /\ Reads(ws)
  BY UpGoes DEF WsWritten, ReadLength, ReadMask, WsReadFails, Completes
<1>2. PICK s : s = Took(ws)
  OBVIOUS
<1>3. Goes(s) /\ SameRead(s, ws)
  BY <1>1, <1>2, TookGoes
<1>4. CASE ReadLength \/ ReadMask
  <2>1. PICK state \in {"Mask", "Payload"} : ws' = WsDoRead([s EXCEPT !.state = state])
    BY <1>2, <1>4 DEF ReadLength, ReadMask
  <2>2. ws.state # "MiniHeader"
    BY <1>4 DEF ReadLength, ReadMask, Completes
  <2>3. PICK u : u = [s EXCEPT !.state = state]
    OBVIOUS
  <2>4. /\ Live(u) /\ SameWrites(u, s) /\ u.state = state
        /\ u.hdr = s.hdr /\ u.left = s.left
        /\ u.fragment = s.fragment /\ u.message = s.message /\ u.delivered = s.delivered
    BY <1>3, <2>3 DEF Goes, Live, Noted, Fields, SameWrites
  <2>5. Goes(u)
    BY <1>3, <2>4, SameGoes DEF Goes
  <2>6. Reads(u) /\ (Heard(ws, sent) => Heard(u, sent))
    BY <1>1, <1>3, <2>2, <2>4 DEF Reads, States, Heard, Got, SameRead
  <2>7. Written(ws') /\ Continues(ws', u)
    BY <2>1, <2>3, <2>5, DoReadGoes
  <2> QED
    BY <2>6, <2>7, ContinuesReads
<1>5. CASE WsReadFails
  <2>1. PICK u : u = Closed(s)
    OBVIOUS
  <2>2. Goes(u) /\ SameRead(u, s)
    BY <1>3, <2>1, ClosedGoes
  <2>3. Written(CheckDestroy(u)) /\ SameRead(CheckDestroy(u), u)
    BY <2>2, CheckDestroyGoes
  <2>4. ws' = CheckDestroy(u)
    BY <1>2, <1>5, <2>1 DEF WsReadFails
  <2>5. Written(ws') /\ SameRead(ws', ws)
    BY <1>3, <2>2, <2>3, <2>4 DEF SameRead
  <2> QED
    BY <1>1, <2>5, SameReads
<1> QED
  BY <1>4, <1>5

-----------------------------------------------------------------------------
(* Writes.                                                                 *)

\* what goes out of an outstanding write goes on where the wire is
LEMMA WroteWire ==
    ASSUME NEW s, Goes(s), s.sending # <<>>, NEW n \in 0 .. Len(s.sending), n = 0 \/ ~s.fails
    PROVE  LET w == s.wire \o SubSeq(s.sending, 1, n)
           IN  w \in Seq(Item) /\ InCallOrder(w) /\ (w # <<>> => w[1] = <<"101", 0>>)
<1>1. /\ s.wire \in Seq(Item) /\ s.sending \in Seq(Item) /\ InCallOrder(s.wire)
      /\ s.wire # <<>> => s.wire[1] = <<"101", 0>>
  BY DEF Goes, Writes, WireOk
<1>2. PICK q, r : q = s.wire /\ r = s.sending
  OBVIOUS
<1>3. Len(q) \in Nat /\ Len(r) \in Nat /\ q \in Seq(Item) /\ r \in Seq(Item) /\ n \in Nat /\ n <= Len(r)
  BY <1>1, <1>2, LenProperties
<1>4. PICK v : v = SubSeq(r, 1, n)
  OBVIOUS
<1>5. v \in Seq(Item) /\ Len(v) = n /\ (n # 0 => v[1] = r[1])
  <2>1. \A i \in 1 .. n : r[i] \in Item
    BY <1>3
  <2>2. v = [i \in 1 .. n |-> r[i]]
    BY <1>3, <1>4, SubSeqProperties
  <2> QED
    BY <1>3, <2>1, <2>2
<1>6. PICK w : w = q \o v
  OBVIOUS
<1>7. /\ w \in Seq(Item) /\ Len(w) = Len(q) + n
      /\ \A i \in 1 .. Len(q) : w[i] = q[i]
      /\ \A i \in 1 .. n : w[Len(q) + i] = v[i]
  <2>1. /\ w \in Seq(Item) /\ Len(w) = Len(q) + Len(v)
        /\ \A i \in 1 .. Len(q) : w[i] = q[i]
        /\ \A i \in 1 .. Len(v) : w[Len(q) + i] = v[i]
    <3>1. q \in Seq(Item) /\ v \in Seq(Item)
      BY <1>3, <1>5
    <3> QED
      BY <1>6, <3>1, ConcatProperties
  <2> QED
    BY <1>5, <2>1
<1>8. CASE n = 0
  <2>1. v = <<>>
    BY <1>5, <1>8, EmptySeq
  <2>2. w = q
    BY <1>3, <1>6, <2>1, ConcatEmptySeq
  <2> QED
    BY <1>1, <1>2, <1>4, <1>6, <2>2
<1>9. CASE n # 0
  <2>1. ~s.broken
    BY <1>9 DEF Goes, Writes
  <2>2. Chained(s) /\ (q = <<>> => r[1] = <<"101", 0>>)
    BY <1>2, <2>1 DEF Goes, Writes
  <2>3. PICK a \in Nat, b \in Nat : Numbered(q, 0, a) /\ Numbered(r, a, b)
    BY <1>2, <2>2 DEF Chained
  <2>4. InCallOrder(q \o r)
    BY <2>3, JoinedNumbered, NumberedInOrder
  <2>5. InCallOrder(w)
    BY <1>3, <1>4, <1>6, <2>4, CutInOrder
  <2>6. w[1] = <<"101", 0>>
    <3>1. CASE q = <<>>
      <4>1. Len(q) = 0 /\ 1 \in 1 .. n
        BY <1>3, <1>9, <3>1, EmptySeq
      <4>2. w[1] = v[1]
        <5>1. Len(q) + 1 = 1
          BY <4>1
        <5>2. w[Len(q) + 1] = v[1]
          BY <1>7, <4>1
        <5> QED
          BY <5>1, <5>2
      <4> QED
        BY <1>5, <1>9, <2>2, <3>1, <4>2
    <3>2. CASE q # <<>>
      <4>1. 1 \in 1 .. Len(q)
        BY <1>3, <3>2, EmptySeq
      <4> QED
        BY <1>1, <1>2, <1>7, <3>2, <4>1
    <3> QED
      BY <3>1, <3>2
  <2> QED
    BY <1>2, <1>4, <1>6, <1>7, <2>5, <2>6
<1> QED
  BY <1>8, <1>9

LEMMA WroteAllGoes ==
    ASSUME NEW s, Goes(s), s.sending # <<>>, ~s.fails
    PROVE  Goes(Wrote(s, Len(s.sending))) /\ SameRead(Wrote(s, Len(s.sending)), s)
<1>1. s.sending \in Seq(Item) /\ s.wire \in Seq(Item) /\ ~s.broken
  BY DEF Goes, Writes, WireOk
<1>2. PICK n : n = Len(s.sending)
  OBVIOUS
<1>3. n \in 0 .. Len(s.sending) /\ n \in Nat
  BY <1>1, <1>2, LenProperties
<1>4. PICK w : w = s.wire \o SubSeq(s.sending, 1, n)
  OBVIOUS
<1>5. w \in Seq(Item) /\ InCallOrder(w) /\ (w # <<>> => w[1] = <<"101", 0>>)
  BY <1>3, <1>4, WroteWire
<1>6. w = s.wire \o s.sending /\ w # <<>>
  <2>1. SubSeq(s.sending, 1, n) = s.sending
    BY <1>1, <1>2, <1>3
  <2>2. Len(w) = Len(s.wire) + n /\ Len(s.wire) \in Nat /\ n # 0
    BY <1>1, <1>2, <1>4, <2>1, ConcatProperties, LenProperties, EmptySeq
  <2> QED
    <3>1. Len(w) # 0
      BY <1>3, <2>2
    <3> QED
      BY <1>4, <2>1, <3>1, EmptySeq
<1>7. PICK t : t = Wrote(s, n)
  OBVIOUS
<1>8. /\ Live(t) /\ t.wire = w /\ t.sending = <<>> /\ t.buffers = s.buffers /\ t.posted = s.posted
      /\ t.texts = s.texts /\ t.broken = s.broken /\ SameRead(t, s)
  BY <1>4, <1>7 DEF Wrote, Goes, Live, Noted, Fields, SameRead
<1>9. Chained(t)
  <2>1. PICK a \in Nat, b \in Nat, c \in Nat :
           /\ Numbered(s.wire, 0, a) /\ Numbered(s.sending, a, b)
           /\ Numbered(s.buffers, b, c) /\ Numbered(s.posted, c, s.texts)
    BY <1>1 DEF Goes, Writes, Chained
  <2>2. Numbered(w, 0, b) /\ Numbered(<<>>, b, b)
    BY <1>6, <2>1, JoinedNumbered, NoneNumbered
  <2> QED
    BY <1>8, <2>1, <2>2 DEF Chained
<1>10. Writes(t)
  BY <1>1, <1>5, <1>6, <1>8, <1>9, EmptySeq DEF Goes, Writes, WireOk
<1> QED
  BY <1>2, <1>7, <1>8, <1>10 DEF Goes

LEMMA WriteWritten ==
    ASSUME WsWritten, Write PROVE Written(ws') /\ SameRead(ws', ws)
<1>1. ws.life = "up" /\ Goes(ws) /\ ws.sending # <<>>
  BY UpGoes DEF WsWritten, Write, WriteDone, WriteFails
<1>2. CASE WriteDone
  <2>1. PICK s : s = Wrote(ws, Len(ws.sending))
    OBVIOUS
  <2>2. Goes(s) /\ SameRead(s, ws)
    BY <1>1, <1>2, <2>1, WroteAllGoes DEF WriteDone
  <2>3. Written(CheckDestroy(s)) /\ SameRead(CheckDestroy(s), s)
    BY <2>2, CheckDestroyGoes
  <2>4. PICK t : t = IF s.buffers = <<>> THEN s ELSE DoWrite(s)
    OBVIOUS
  <2>5. Goes(t) /\ SameRead(t, s)
    BY <2>2, <2>4, DoWriteGoes DEF SameRead
  <2>6. PICK u : u = [t EXCEPT !.closing = s.sentClose]
    OBVIOUS
  <2>7. Live(u) /\ SameWrites(u, t) /\ SameRead(u, t)
    BY <2>5, <2>6 DEF Goes, Live, Noted, Fields, SameWrites, SameRead
  <2>8. Written(u)
    BY <2>5, <2>7, SameGoes, GoesIsWritten DEF Goes
  <2>9. ws' = CheckDestroy(s) \/ ws' = u
    BY <1>2, <2>1, <2>4, <2>6, Zenon DEF WriteDone
  <2> QED
    BY <2>2, <2>3, <2>5, <2>7, <2>8, <2>9 DEF SameRead
<1>3. CASE WriteFails
  <2>1. PICK n \in 0 .. IF ws.fails THEN 0 ELSE Len(ws.sending) :
          ws' = CheckDestroy([Wrote(ws, n) EXCEPT !.closing = TRUE, !.broken = TRUE])
    BY <1>3 DEF WriteFails
  <2>2. n \in 0 .. Len(ws.sending) /\ (n = 0 \/ ~ws.fails)
    <3>1. Len(ws.sending) \in Nat
      BY <1>1, LenProperties DEF Goes, Writes
    <3> QED
      BY <2>1, <3>1
  <2>3. PICK w : w = ws.wire \o SubSeq(ws.sending, 1, n)
    OBVIOUS
  <2>4. w \in Seq(Item) /\ InCallOrder(w) /\ (w # <<>> => w[1] = <<"101", 0>>)
    BY <1>1, <2>2, <2>3, WroteWire
  <2>5. PICK t : t = [Wrote(ws, n) EXCEPT !.closing = TRUE, !.broken = TRUE]
    OBVIOUS
  <2>6. /\ Live(t) /\ t.wire = w /\ t.sending = <<>> /\ t.buffers = ws.buffers /\ t.posted = ws.posted
        /\ t.texts = ws.texts /\ t.broken /\ SameRead(t, ws)
    BY <1>1, <2>3, <2>5 DEF Wrote, Goes, Live, Noted, Fields, SameRead
  <2>7. Goes(t)
    BY <1>1, <2>4, <2>6, EmptySeq DEF Goes, Writes, WireOk
  <2>8. Written(ws') /\ SameRead(ws', t)
    BY <2>1, <2>5, <2>7, CheckDestroyGoes
  <2> QED
    BY <2>6, <2>8 DEF SameRead
<1> QED
  BY <1>2, <1>3 DEF Write

-----------------------------------------------------------------------------
(* The constructor, start(), and what other threads ask for.               *)

LEMMA NoText == ASSUME NEW x, NEW a, NEW b, Numbered(<<x>>, a, b), x[1] # "text" PROVE a = b
<1>1. a \in Nat /\ b \in Nat /\ a <= b
  BY DEF Numbered
<1>2. ASSUME a < b PROVE FALSE
  <2>1. a + 1 \in a + 1 .. b
    BY <1>1, <1>2
  <2>2. PICK i \in 1 .. Len(<<x>>) : <<x>>[i] = <<"text", a + 1>>
    BY <2>1 DEF Numbered
  <2>3. i = 1
    OBVIOUS
  <2> QED
    BY <2>2, <2>3
<1> QED
  BY <1>1, <1>2

LEMMA StartWritten ==
    ASSUME WsWritten, WsStart PROVE Written(ws') /\ Continues(ws', ws)
<1>1. ws.life = "new" /\ ws.wire = <<>> /\ ws.sending = <<>> /\ ws.buffers = <<>> /\ ws.posted = <<>>
      /\ ws.texts = 0 /\ ~ws.broken /\ DOMAIN ws = Fields
  BY DEF WsStart, WsWritten, Written
<1>2. PICK s : s = [ws EXCEPT !.life = "up", !.buffers = <<<<"101", 0>>>>]
  OBVIOUS
<1>3. PICK t : t = DoWrite(s)
  OBVIOUS
<1>4. /\ t.wire = <<>> /\ t.sending = <<<<"101", 0>>>> /\ t.buffers = <<>> /\ t.posted = <<>>
      /\ t.texts = 0 /\ ~t.broken /\ SameRead(t, ws)
  BY <1>1, <1>2, <1>3 DEF DoWrite, Fields, SameRead
<1>5. Live(t)
  <2>1. Live(s)
    BY <1>1, <1>2 DEF WsWritten, Sound, Live, Noted, Fields
  <2> QED
    BY <1>3, <2>1, DoWriteLives
<1>6. <<"101", 0>> \in Item /\ <<"101", 0>>[1] # "text"
  BY DEF Item
<1>7. Chained(t)
  <2>1. Numbered(<<>>, 0, 0) /\ Numbered(<<<<"101", 0>>>>, 0, 0)
    BY <1>6, NoneNumbered, OneNumbered
  <2> QED
    BY <1>4, <2>1 DEF Chained
<1>8. WireOk(t)
  BY <1>4, EmptySeq DEF WireOk, InCallOrder
<1>9. t.sending \in Seq(Item) /\ t.sending[1] = <<"101", 0>> /\ t.sending # <<>>
  BY <1>4, <1>6
<1>10. Goes(t)
  BY <1>4, <1>5, <1>7, <1>8, <1>9, EmptySeq DEF Goes, Writes
<1>11. PICK reply : ws' = WsDoRead(React(t, reply))
  BY <1>2, <1>3 DEF WsStart
<1>12. PICK u : u = React(t, reply)
  OBVIOUS
<1>13. Goes(u) /\ SameRead(u, t)
  BY <1>10, <1>12, ReactGoes
<1>14. Written(ws') /\ Continues(ws', u)
  BY <1>11, <1>12, <1>13, DoReadGoes
<1> QED
  BY <1>4, <1>13, <1>14 DEF SameRead, Continues

LEMMA RefuseWritten ==
    ASSUME WsWritten, Refuse PROVE Written(ws') /\ SameRead(ws', ws)
<1>1. ws.life = "new" /\ WireOk(ws) /\ ws.posted \in Seq(Item) /\ DOMAIN ws = Fields
  BY DEF Refuse, WsWritten, Written
<1>2. PICK t : t = [ws EXCEPT !.life = "freed", !.open = FALSE]
  OBVIOUS
<1>3. DOMAIN t = Fields /\ t.life = "freed" /\ t.wire = ws.wire /\ t.posted = ws.posted /\ SameRead(t, ws)
  BY <1>1, <1>2 DEF Fields, SameRead
<1>4. Written(t)
  BY <1>1, <1>3 DEF Written, WireOk
<1> QED
  BY <1>2, <1>3, <1>4 DEF Refuse

LEMMA AppCallsWritten ==
    ASSUME WsWritten, AppCalls PROVE Written(ws') /\ SameRead(ws', ws)
<1>1. Goes(ws)
  BY UpGoes DEF WsWritten, AppCalls
<1>2. Goes(React(ws, "send")) /\ SameRead(React(ws, "send"), ws)
  BY <1>1, ReactGoes
<1>3. PICK c : c = [ws EXCEPT !.closes = @ + 1]
  OBVIOUS
<1>4. Live(c) /\ SameWrites(c, ws) /\ SameRead(c, ws)
  BY <1>1, <1>3 DEF Goes, Live, Noted, Fields, SameWrites, SameRead
<1>5. Goes(c)
  BY <1>1, <1>4, SameGoes DEF Goes
<1>6. <<"close", 0>> \in Item /\ <<"close", 0>>[1] # "text"
  BY DEF Item
<1>7. Goes(SendData(c, <<"close", 0>>)) /\ SameRead(SendData(c, <<"close", 0>>), c)
  BY <1>5, <1>6, SendDataGoes
<1>8. ws' = React(ws, "send") \/ ws' = SendData(c, <<"close", 0>>)
  BY <1>3 DEF AppCalls
<1> QED
  BY <1>2, <1>4, <1>7, <1>8, GoesIsWritten DEF SameRead

LEMMA RunPostedWritten ==
    ASSUME WsWritten, RunPosted PROVE Written(ws') /\ SameRead(ws', ws)
<1>1. ws.posted # <<>> /\ ws.posted \in Seq(Item) /\ ws.life \in {"up", "freed"} /\ DOMAIN ws = Fields
  BY DEF RunPosted, WsWritten, Written
<1>2. PICK p, r : p = Head(ws.posted) /\ r = Tail(ws.posted)
  OBVIOUS
<1>3. p \in Item /\ r \in Seq(Item)
  BY <1>1, <1>2, HeadTailProperties
<1>4. PICK s : s = [ws EXCEPT !.posted = Tail(@)]
  OBVIOUS
<1>5. /\ s.wire = ws.wire /\ s.sending = ws.sending /\ s.buffers = ws.buffers /\ s.posted = r
      /\ s.texts = ws.texts /\ s.broken = ws.broken /\ s.fails = ws.fails
      /\ SameRead(s, ws) /\ DOMAIN s = Fields /\ s.life = ws.life
  BY <1>1, <1>2, <1>4 DEF Fields, SameRead
<1>6. PICK u : u = [s EXCEPT !.buffers = Append(@, p)]
  OBVIOUS
<1>7. /\ u.wire = ws.wire /\ u.sending = ws.sending /\ u.buffers = Append(ws.buffers, p) /\ u.posted = r
      /\ u.texts = ws.texts /\ u.broken = ws.broken /\ u.fails = ws.fails
      /\ SameRead(u, ws)
  BY <1>1, <1>4, <1>5, <1>6 DEF Fields, SameRead
<1>8. ws' = IF ws.life = "freed" THEN s ELSE IF p[1] = "close" THEN Close(s) ELSE DoWrite(u)
  <2>1. p = Head(ws.posted)
    BY <1>2
  <2>2. RunPosted
    OBVIOUS
  <2> QED
    BY <1>4, <1>6, <2>1, <2>2, Zenon DEF RunPosted
<1>9. CASE ws.life = "freed"
  <2>1. Written(s)
    BY <1>3, <1>5, <1>9 DEF WsWritten, Written, WireOk
  <2> QED
    BY <1>5, <1>8, <1>9, <2>1
<1>10. CASE ws.life = "up"
  <2>1. Goes(ws)
    BY <1>10, UpGoes DEF WsWritten
  <2>2. Live(s) /\ Live(u)
    BY <1>4, <1>6, <2>1 DEF Goes, Live, Noted, Fields
  <2>3. ASSUME ~ws.broken
        PROVE  Chained(u) /\ (p[1] = "close" => Chained(s))
    <3>1. PICK a \in Nat, b \in Nat, c \in Nat :
             /\ Numbered(ws.wire, 0, a) /\ Numbered(ws.sending, a, b)
             /\ Numbered(ws.buffers, b, c) /\ Numbered(ws.posted, c, ws.texts)
      BY <2>1, <2>3 DEF Goes, Writes, Chained
    <3>2. PICK m \in Nat : Numbered(<<p>>, c, m) /\ Numbered(r, m, ws.texts)
      BY <1>1, <1>2, <3>1, HeadNumbered
    <3>3. Numbered(Append(ws.buffers, p), b, m)
      BY <1>3, <3>1, <3>2, AppendNumbered
    <3>4. Chained(u)
      BY <1>7, <3>1, <3>2, <3>3 DEF Chained
    <3>5. ASSUME p[1] = "close" PROVE Chained(s)
      <4>1. c = m
        BY <3>2, <3>5, NoText
      <4> QED
        BY <1>5, <3>1, <3>2, <4>1 DEF Chained
    <3> QED
      BY <3>4, <3>5
  <2>4. Append(ws.buffers, p) \in Seq(Item)
    BY <1>3, <2>1, AppendProperties DEF Goes, Writes
  <2>5. Goes(u)
    BY <1>3, <1>7, <2>1, <2>2, <2>3, <2>4 DEF Goes, Writes, WireOk
  <2>6. ASSUME p[1] = "close" PROVE Goes(s)
    BY <1>3, <1>5, <2>1, <2>2, <2>3, <2>6 DEF Goes, Writes, WireOk
  <2>7. CASE p[1] = "close"
    <3>1. Goes(Close(s)) /\ SameRead(Close(s), s)
      BY <2>6, <2>7, CloseGoes
    <3> QED
      BY <1>5, <1>8, <1>10, <2>7, <3>1, GoesIsWritten DEF SameRead
  <2>8. CASE p[1] # "close"
    <3>1. Goes(DoWrite(u)) /\ SameRead(DoWrite(u), u)
      BY <2>5, DoWriteGoes
    <3> QED
      BY <1>7, <1>8, <1>10, <2>8, <3>1, GoesIsWritten DEF SameRead
  <2> QED
    BY <2>7, <2>8
<1> QED
  BY <1>1, <1>9, <1>10

-----------------------------------------------------------------------------
LEMMA StepWritten ==
    ASSUME WsConfig, WsWritten, [WsNext]_wsVars PROVE WsWritten'
<1>1. Sound(ws')
  BY StepSound DEF WsSound, WsWritten
<1>2. ASSUME Written(ws'), Reads(ws'), Heard(ws, sent) => Heard(ws', sent),
             UNCHANGED <<sent, aligned>>, peerGone' \in BOOLEAN
      PROVE  WsWritten'
  BY <1>1, <1>2 DEF WsWritten
<1>3. ASSUME Written(ws'), SameRead(ws', ws) \/ Continues(ws', ws)
      PROVE  Reads(ws') /\ (Heard(ws, sent) => Heard(ws', sent))
  BY <1>3, SameReads, ContinuesReads DEF WsWritten
<1>4. CASE ReadHeader \/ ReadHalfHeader
  <2>1. Written(ws') /\ Reads(ws') /\ sent' \in Seq(Frame) /\ aligned' \in BOOLEAN /\ peerGone' \in BOOLEAN
        /\ (aligned' => Heard(ws', sent'))
    BY <1>4, ReadHeaderWritten
  <2> QED
    BY <1>1, <2>1 DEF WsWritten
<1>5. CASE ReadPayload
  <2>1. Written(ws') /\ Reads(ws') /\ (Heard(ws, sent) => Heard(ws', sent))
    BY <1>5, ReadPayloadWritten
  <2> QED
    BY <1>2, <1>5, <2>1 DEF ReadPayload, WsWritten
<1>6. CASE ReadLength \/ ReadMask \/ WsReadFails
  <2>1. Written(ws') /\ Reads(ws') /\ (Heard(ws, sent) => Heard(ws', sent))
    BY <1>6, ReadRestWritten
  <2>2. UNCHANGED <<sent, aligned, peerGone>>
    BY <1>6 DEF ReadLength, ReadMask, WsReadFails
  <2> QED
    BY <1>2, <2>1, <2>2 DEF WsWritten
<1>7. CASE Write
  <2>1. Written(ws') /\ SameRead(ws', ws)
    BY <1>7, WriteWritten
  <2>2. UNCHANGED <<sent, aligned, peerGone>>
    BY <1>7 DEF Write, WriteDone, WriteFails
  <2> QED
    BY <1>2, <1>3, <2>1, <2>2 DEF WsWritten
<1>8. CASE WsStart
  BY <1>2, <1>3, <1>8, StartWritten DEF WsStart, WsWritten
<1>9. CASE Refuse
  BY <1>2, <1>3, <1>9, RefuseWritten DEF Refuse, WsWritten
<1>10. CASE AppCalls
  BY <1>2, <1>3, <1>10, AppCallsWritten DEF AppCalls, WsWritten
<1>11. CASE RunPosted
  BY <1>2, <1>3, <1>11, RunPostedWritten DEF RunPosted, WsWritten
<1>12. CASE ClientCloses
  BY <1>1, <1>12 DEF ClientCloses, WsWritten
<1>13. CASE UNCHANGED wsVars
  BY <1>1, <1>13 DEF wsVars, WsWritten
<1> QED
  BY <1>4, <1>5, <1>6, <1>7, <1>8, <1>9, <1>10, <1>11, <1>12, <1>13 DEF WsNext, WsRead

(* As long as no header was read by halves, onmessage has got all the      *)
(* messages that the client has completed, each once and whole, for any    *)
(* frames, any reads and any control frames in between. The client gets    *)
(* 101 first, then the texts in the order of the calls of send_text, none  *)
(* of them left out before a later one, whatever fails and whoever closes. *)
THEOREM MessagesKept == WsSpec => []MessagesAsSent
<1>1. WsInit => WsWritten
  BY WsAssumption, InitWritten
<1>2. WsWritten /\ [WsNext]_wsVars => WsWritten'
  BY WsAssumption, StepWritten
<1>3. WsWritten => MessagesAsSent
  BY DEF WsWritten, Written, WireOk, Heard, Got, MessagesAsSent, HeardAsSent
<1> QED
  BY <1>1, <1>2, <1>3, PTL DEF WsSpec

(* The reads stay inside the payload that the header announced, by halves  *)
(* or not: never more is left than its size, and never less than nothing.  *)
THEOREM PayloadsBounded == WsSpec => []WsTypeOK
<1>1. WsInit => WsWritten
  BY WsAssumption, InitWritten
<1>2. WsWritten /\ [WsNext]_wsVars => WsWritten'
  BY WsAssumption, StepWritten
<1>3. WsWritten => WsTypeOK
  BY DEF WsWritten, Written, Reads, States, Headers, WsTypeOK
<1> QED
  BY <1>1, <1>2, <1>3, PTL DEF WsSpec
=============================================================================
