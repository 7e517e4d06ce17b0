---------------------------- MODULE CrowSession ----------------------------
(***************************************************************************)
(* crow/middlewares/session.h: SessionMiddleware over an InMemoryStore or  *)
(* a FileStore, with the ExpirationTracker of the latter.                  *)
(*                                                                         *)
(* A session holds the value of one key.  before_handle and after_handle   *)
(* run under mutex_, and each operation of a handler under the mutex of    *)
(* its node, so each is one step; between them the requests interleave.    *)
(***************************************************************************)
EXTENDS Integers, FiniteSets, Functions

CONSTANTS Req,          \* requests that can be handled at once
          Browser,      \* the browser each request comes from, whose cookies it carries
          Values,       \* values a handler sets
          Expires,      \* expiration_seconds_
          EvictLimit,   \* the files that handle_expired deletes at most (3)
          MaxTime, MaxIds    \* bounds: the clock, the sessions ever created

SessionConfig == IsFiniteSet(Req) /\ Expires \in Nat /\ MaxIds \in Nat

ASSUME SessionAssumption == SessionConfig

VARIABLES store,        \* "memory" or "file"
          entries,      \* what the store holds: the sessions' values by id
          times, queue, \* ExpirationTracker
          saved,        \* the file .expirations
          clock,        \* chrono_time()
          nodes,        \* the CachedSessions
          cache,        \* cache_: nodes by session id
          ctx,          \* the node of each request being handled
          jar,          \* the session cookie of each browser
          ids,          \* the ids given out are 1 .. ids
          last,         \* ghost: the value set last, by id
          due, early,   \* ghosts: expirations granted, sessions evicted before
          gone, orphan  \* ghosts: sessions expired or lost, files nothing tracks

sessionVars == <<store, entries, times, queue, saved, clock, nodes, cache, ctx, jar, ids, last, due, early, gone, orphan>>
storeVars == <<entries, times, queue, due, early, gone, orphan>>

NoId == 0
None == "none"          \* no value: entries without the key
Idle == -1              \* ctx of a request that is not being handled
NoNode == 0

NewNode == [id |-> NoId, entries |-> None, dirty |-> FALSE, refresh |-> FALSE, referrers |-> 0]

Without(f, S) == Restrict(f, DOMAIN f \ S)
With(f, x, y) == [z \in DOMAIN f \cup {x} |-> IF z = x THEN y ELSE f[z]]
Cached == DOMAIN cache

\* a slot of the heap that nothing refers to
Free(n) == n \notin Range(cache) /\ n \notin Range(ctx) /\ \A m \in 1 .. n - 1 : m \in Range(cache) \cup Range(ctx)

-----------------------------------------------------------------------------
(* ExpirationTracker                                                       *)

\* a mutant of Add: the queue keeps the earlier time of the key
AddKeeps(id, t) == /\ times' = With(times, id, t)
                   /\ queue' = queue \cup {<<t, id>>}

Add(id, t) == /\ times' = With(times, id, t)
              /\ queue' = {p \in queue : p[2] # id} \cup {<<t, id>>}

Before(p, q) == p[1] < q[1] \/ (p[1] = q[1] /\ p[2] < q[2])

\* those that handle_expired() pops: the first few whose time has passed
Expired == {p \in queue : /\ p[1] < clock
                          /\ Cardinality({q \in queue : Before(q, p)}) < EvictLimit}

-----------------------------------------------------------------------------
(* The stores.                                                             *)

\* Without handle_expired() in the memory store.
HandleExpired ==
    LET evicted == IF store = "file" THEN {p[2] : p \in Expired} ELSE {}
    IN  /\ queue' = queue \ Expired
        /\ times' = Without(times, evicted)
        /\ gone' = gone \cup evicted
        /\ early' = early \cup {id \in evicted \cap DOMAIN due : due[id] >= clock}
        /\ orphan' = orphan \cup (evicted \cap Cached)
        /\ due' = Without(due, evicted)
        /\ entries' = Without(entries, evicted)

\* A file that is gone, or holds "null", is not a container: load() throws.
Loads(id) == \/ store = "memory"
             \/ id \notin {p[2] : p \in Expired} /\ entries[id] # None

Save(n) ==
    /\ IF store = "file" /\ n.refresh
       THEN Add(n.id, clock + Expires) /\ due' = With(due, n.id, clock + Expires)
       ELSE UNCHANGED <<times, queue, due>>
    /\ entries' = IF store = "memory" \/ n.dirty THEN With(entries, n.id, n.entries) ELSE entries
    /\ orphan' = IF n.refresh THEN orphan \ {n.id} ELSE orphan
    /\ gone' = IF store = "memory" \/ n.dirty THEN gone \ {n.id} ELSE gone
    /\ UNCHANGED early

-----------------------------------------------------------------------------
(* before_handle                                                           *)

FindCached(r) ==
    LET id == jar[Browser[r]]
    IN  /\ id \in Cached
        /\ ctx' = [ctx EXCEPT ![r] = cache[id]]
        /\ nodes' = [nodes EXCEPT ![cache[id]].referrers = @ + 1]
        /\ UNCHANGED <<storeVars, cache>>

NoSession(r) ==
    /\ jar[Browser[r]] \notin Cached \cup DOMAIN entries
    /\ ctx' = [ctx EXCEPT ![r] = NoNode]
    /\ UNCHANGED <<storeVars, nodes, cache>>

\* InMemoryStore::load moves the value out of the store.
LoadSession(r) ==
    LET id == jar[Browser[r]]
    IN  /\ id \in DOMAIN entries \ Cached
        /\ IF Loads(id)
           THEN \E n \in DOMAIN nodes :
                    /\ Free(n)
                    /\ nodes' = [nodes EXCEPT ![n] = [NewNode EXCEPT !.id = id, !.entries = entries[id], !.referrers = 1]]
                    /\ cache' = With(cache, id, n)
                    /\ ctx' = [ctx EXCEPT ![r] = n]
           ELSE ctx' = [ctx EXCEPT ![r] = NoNode] /\ UNCHANGED <<nodes, cache>>
        /\ IF store = "file" THEN HandleExpired
           ELSE entries' = [entries EXCEPT ![id] = None] /\ UNCHANGED <<times, queue, due, early, gone, orphan>>

BeforeHandle(r) ==
    /\ ctx[r] = Idle
    /\ FindCached(r) \/ NoSession(r) \/ LoadSession(r)
    /\ UNCHANGED <<store, saved, clock, jar, ids, last>>

-----------------------------------------------------------------------------
(* What a handler does with the context.                                   *)

\* check_node() makes a node where there is none; id is that of the session
Change(r, change(_)) ==
    \E n \in DOMAIN nodes :
        /\ IF ctx[r] = NoNode THEN Free(n) ELSE n = ctx[r]
        /\ LET new == change(IF ctx[r] = NoNode THEN NewNode ELSE nodes[n])
           IN  /\ nodes' = [nodes EXCEPT ![n] = new]
               /\ last' = IF new.id = NoId THEN last ELSE [last EXCEPT ![new.id] = new.entries]
        /\ ctx' = [ctx EXCEPT ![r] = n]
        /\ UNCHANGED <<store, storeVars, saved, clock, cache, jar, ids>>

\* set() and apply()
Set(r) ==
    /\ ctx[r] # Idle
    /\ \E v \in Values : Change(r, LAMBDA n : [n EXCEPT !.entries = v, !.dirty = TRUE])

\* mutex(): a node, and nothing in it
Mutex(r) == ctx[r] # Idle /\ Change(r, LAMBDA n : n)

RemoveKey(r) ==
    /\ ctx[r] \notin {Idle, NoNode}
    /\ Change(r, LAMBDA n : [n EXCEPT !.entries = None, !.dirty = TRUE])

RefreshExpiration(r) ==
    /\ ctx[r] \notin {Idle, NoNode}
    /\ Change(r, LAMBDA n : [n EXCEPT !.refresh = TRUE])

-----------------------------------------------------------------------------
(* after_handle                                                            *)

\* a mutant of IsLast: every request is
IsLastOfAny(n) == TRUE

IsLast(n) == n.referrers - 1 <= 0

\* without a session, or while other requests use the node
LeaveNode(r) ==
    /\ IF ctx[r] = NoNode THEN TRUE ELSE ~IsLast(nodes[ctx[r]])
    /\ nodes' = IF ctx[r] = NoNode THEN nodes ELSE [nodes EXCEPT ![ctx[r]].referrers = @ - 1]
    /\ UNCHANGED <<storeVars, cache, jar, ids, last>>

\* A new session has its id from random_alphanum(), taken to be unused.
SaveSession(r) ==
    LET n  == nodes[ctx[r]]
        id == IF n.id = NoId THEN ids + 1 ELSE n.id
        m  == [n EXCEPT !.id = id, !.refresh = @ \/ n.id = NoId]
    IN  /\ ctx[r] # NoNode /\ IsLast(n)
        /\ id <= MaxIds
        /\ ids' = IF n.id = NoId THEN id ELSE ids
        /\ last' = IF n.id = NoId THEN [last EXCEPT ![id] = n.entries] ELSE last
        /\ cache' = IF n.id = NoId THEN cache ELSE Without(cache, {id})
        /\ jar' = IF m.refresh THEN [jar EXCEPT ![Browser[r]] = id] ELSE jar
        /\ nodes' = [nodes EXCEPT ![ctx[r]] = IF \E q \in Req \ {r} : ctx[q] = ctx[r]
                                              THEN [m EXCEPT !.referrers = @ - 1] ELSE NewNode]
        /\ Save(m)

AfterHandle(r) ==
    /\ ctx[r] # Idle
    /\ LeaveNode(r) \/ SaveSession(r)
    /\ ctx' = [ctx EXCEPT ![r] = Idle]
    /\ UNCHANGED <<store, saved, clock>>

-----------------------------------------------------------------------------
(* The process ends, with ~FileStore() or without, and is started again.   *)

StartStore(tracked, kept) ==
    LET live == {id \in DOMAIN tracked : tracked[id] >= clock}
    IN  /\ entries' = Without(kept, DOMAIN tracked \ live)
        /\ times' = Restrict(tracked, live \cap DOMAIN kept)
        /\ queue' = {<<tracked[id], id>> : id \in live \cap DOMAIN kept}

Restart(crash) ==
    /\ saved' = IF crash \/ store = "memory" THEN saved ELSE times
    /\ StartStore(saved', IF store = "memory" THEN <<>> ELSE entries)
    /\ cache' = <<>>
    /\ ctx' = [r \in Req |-> Idle]
    /\ nodes' = [n \in DOMAIN nodes |-> NewNode]
    /\ last' = [id \in DOMAIN last |-> IF id \in DOMAIN entries' THEN entries'[id] ELSE None]
    /\ due' = times'
    /\ gone' = (1 .. ids) \ DOMAIN entries'
    /\ orphan' = orphan \cup (IF crash THEN DOMAIN entries' \ DOMAIN times' ELSE {})
    /\ UNCHANGED <<store, clock, jar, ids, early>>

ClockTick ==
    /\ clock < MaxTime
    /\ clock' = clock + 1
    /\ UNCHANGED <<store, storeVars, saved, nodes, cache, ctx, jar, ids, last>>

SessionInit ==
    /\ store \in {"memory", "file"}
    /\ entries = <<>> /\ times = <<>> /\ queue = {} /\ saved = <<>> /\ clock = 0
    /\ nodes = [n \in 1 .. Cardinality(Req) |-> NewNode]
    /\ cache = <<>>
    /\ ctx = [r \in Req |-> Idle]
    /\ jar = [b \in Range(Browser) |-> NoId]
    /\ ids = 0
    /\ last = [id \in 1 .. MaxIds |-> None]
    /\ due = <<>> /\ early = {} /\ gone = {} /\ orphan = {}

SessionNext ==
    \/ \E r \in Req : \/ BeforeHandle(r)
                      \/ Set(r) \/ Mutex(r) \/ RemoveKey(r) \/ RefreshExpiration(r)
                      \/ AfterHandle(r)
    \/ \E crash \in BOOLEAN : Restart(crash)
    \/ ClockTick

SessionSpec == SessionInit /\ [][SessionNext]_sessionVars

-----------------------------------------------------------------------------
(* Requests refer to nodes and the cache to the nodes of its ids, with as  *)
(* many referrers as there are requests; the queue orders the times.       *)
SessionTypeOK ==
    /\ \A r \in Req : ctx[r] \in {Idle, NoNode} \cup DOMAIN nodes
    /\ \A id \in Cached : /\ nodes[cache[id]].id = id
                          /\ nodes[cache[id]].referrers = Cardinality({r \in Req : ctx[r] = cache[id]})
    /\ queue = {<<times[id], id>> : id \in DOMAIN times}

(* What a handler set last in a session is what the next request of the    *)
(* session finds, in the cached node or in the store, whichever requests   *)
(* run side by side; unless the session expired or the process ended.      *)
LastSetKept ==
    \A id \in 1 .. ids :
        IF id \in Cached THEN nodes[cache[id]].entries = last[id]
        ELSE IF id \in DOMAIN entries THEN entries[id] = last[id]
        ELSE id \in gone \/ last[id] = None

(* A file is evicted after the expiration that was granted last, and each  *)
(* file has one, but for those evicted while a request used the session    *)
(* and those of a process that ended without ~FileStore().                 *)
ExpiryKept ==
    /\ early = {}
    /\ store = "file" => DOMAIN entries \subseteq DOMAIN times \cup orphan
=============================================================================
