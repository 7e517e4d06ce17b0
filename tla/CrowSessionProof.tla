-------------------------- MODULE CrowSessionProof --------------------------
(***************************************************************************)
(* Proofs about CrowSession, for every finite set of requests, every       *)
(* assignment of browsers, set of values, expiration and eviction limit:   *)
(* what was set last in a session is what its next request finds, however  *)
(* its requests interleave with each other, with evictions, crashes and    *)
(* restarts; and no file is evicted before the expiration granted last.    *)
(***************************************************************************)
EXTENDS CrowSession, FiniteSetTheorems, TLAPS

(* expiration_seconds_ is a size_t and the requests are those in memory.   *)

Node == 1 .. Cardinality(Req)
Contents == Values \cup {None}
CachedSession == [id : Nat, entries : Contents, dirty : BOOLEAN, refresh : BOOLEAN, referrers : Int]

\* the requests that use a node
Users(n) == {r \in Req : ctx[r] = n}

TypedStore ==
    /\ store \in {"memory", "file"} /\ clock \in Int /\ ids \in 0 .. MaxIds
    /\ entries \in [DOMAIN entries -> Contents] /\ DOMAIN entries \subseteq 1 .. ids
    /\ times \in [DOMAIN times -> Int] /\ saved \in [DOMAIN saved -> Int]
    /\ last \in [1 .. MaxIds -> Contents]

TypedNodes ==
    /\ nodes \in [Node -> CachedSession]
    /\ ctx \in [Req -> Node \cup {Idle, NoNode}]
    /\ cache \in [Cached -> Node] /\ Cached \subseteq 1 .. ids

(* A cached node knows its id and counts the requests that use it.         *)
CachedNodes ==
    \A id \in Cached : /\ nodes[cache[id]].id = id
                       /\ nodes[cache[id]].referrers = Cardinality(Users(cache[id]))

(* A node without an id belongs to one request, and is dirty if anything   *)
(* was ever in it; a node with an id is the one the cache has for the id.  *)
OwnNodes ==
    \A r \in Req : ctx[r] \in Node =>
        IF nodes[ctx[r]].id = NoId
        THEN /\ \A q \in Req : ctx[q] = ctx[r] => q = r
             /\ nodes[ctx[r]].dirty \/ nodes[ctx[r]].entries = None
        ELSE nodes[ctx[r]].id \in Cached /\ cache[nodes[ctx[r]].id] = ctx[r]

(* The tracker grants what was asked for last; it tracks the files, and    *)
(* the sessions that requests hold, but for the orphans.                   *)
Tracked ==
    /\ queue = {<<times[id], id>> : id \in DOMAIN times}
    /\ due = times
    /\ early = {}
    /\ store = "file" => DOMAIN entries \cup Cached \subseteq DOMAIN times \cup orphan

InStore(id) == IF id \in DOMAIN entries THEN entries[id] = last[id] ELSE id \in gone \/ last[id] = None

(* What was set last is in the cached node or in the store; while a node   *)
(* of a FileStore is not dirty the file holds it too.                      *)
Stored ==
    \A id \in 1 .. ids :
        IF id \in Cached
        THEN /\ nodes[cache[id]].entries = last[id]
             /\ store = "file" /\ ~nodes[cache[id]].dirty => InStore(id)
        ELSE InStore(id)

\* inductive
SessionInv == TypedStore /\ TypedNodes /\ CachedNodes /\ OwnNodes /\ Tracked /\ Stored

-----------------------------------------------------------------------------
(* Functions with a pair more, or with some fewer.                         *)

LEMMA WithIs ==
    ASSUME NEW f, NEW x, NEW y
    PROVE  /\ DOMAIN With(f, x, y) = DOMAIN f \cup {x}
           /\ With(f, x, y)[x] = y
           /\ \A z \in DOMAIN f : z # x => With(f, x, y)[z] = f[z]
           /\ With(f, x, y) \in [DOMAIN f \cup {x} -> {y} \cup {f[z] : z \in DOMAIN f}]
BY DEF With

LEMMA WithFits ==
    ASSUME NEW S, NEW f, f \in [DOMAIN f -> S], NEW x, NEW y \in S
    PROVE  With(f, x, y) \in [DOMAIN f \cup {x} -> S]
BY DEF With

LEMMA WithoutIs ==
    ASSUME NEW f, NEW S
    PROVE  /\ DOMAIN Without(f, S) = DOMAIN f \ S
           /\ \A z \in DOMAIN f \ S : Without(f, S)[z] = f[z]
BY DEF Without, Restrict

LEMMA WithoutFits ==
    ASSUME NEW T, NEW f, f \in [DOMAIN f -> T], NEW S
    PROVE  Without(f, S) \in [DOMAIN f \ S -> T]
BY DEF Without, Restrict

LEMMA UsersCount ==
    ASSUME SessionConfig, NEW n
    PROVE  IsFiniteSet(Users(n)) /\ Cardinality(Users(n)) \in Nat
<1>1. Users(n) \in SUBSET Req
  BY DEF Users
<1>2. IsFiniteSet(Users(n))
  BY <1>1, FS_Subset DEF SessionConfig
<1> QED
  BY <1>2, FS_CardinalityType

LEMMA NodeNumbers == ASSUME SessionConfig PROVE Node \subseteq Nat \ {0} /\ Idle \notin Node /\ NoNode \notin Node
<1>1. Cardinality(Req) \in Nat
  BY FS_CardinalityType DEF SessionConfig
<1> QED
  BY <1>1 DEF Node, Idle, NoNode

-----------------------------------------------------------------------------
(* handle_expired() evicts what is due and forgets it everywhere.          *)

LEMMA EvictionTracks ==
    ASSUME Tracked, TypedStore, store = "file", HandleExpired,
           Cached' \ Cached \subseteq DOMAIN entries \ {p[2] : p \in Expired}
    PROVE  Tracked'
<1> DEFINE evicted == {p[2] : p \in Expired}
<1>1. /\ queue' = queue \ Expired
      /\ times' = Without(times, evicted)
      /\ early' = early \cup {i \in evicted \cap DOMAIN due : due[i] >= clock}
      /\ orphan' = orphan \cup (evicted \cap Cached)
      /\ due' = Without(due, evicted)
      /\ entries' = Without(entries, evicted)
  BY DEF HandleExpired
<1>2. Expired \subseteq queue /\ \A p \in Expired : p[1] < clock
  BY DEF Expired
<1>3. \A p \in Expired : p[2] \in DOMAIN times /\ p = <<times[p[2]], p[2]>> /\ times[p[2]] < clock
  <2> SUFFICES ASSUME NEW p \in Expired
               PROVE  p[2] \in DOMAIN times /\ p = <<times[p[2]], p[2]>> /\ times[p[2]] < clock
    OBVIOUS
  <2>1. PICK i \in DOMAIN times : p = <<times[i], i>>
    BY <1>2 DEF Tracked
  <2> QED
    BY <2>1, <1>2
<1>4. early' = {}
  <2> SUFFICES ASSUME NEW i \in evicted \cap DOMAIN due, due[i] >= clock
               PROVE  FALSE
    BY <1>1 DEF Tracked
  <2>1. times[i] < clock /\ i \in DOMAIN times
    BY <1>3
  <2> QED
    BY <2>1 DEF Tracked, TypedStore
<1>5. DOMAIN times' = DOMAIN times \ evicted /\ \A i \in DOMAIN times \ evicted : times'[i] = times[i]
  BY <1>1, WithoutIs
<1>6. queue' = {<<times'[i], i>> : i \in DOMAIN times'}
  <2>1. ASSUME NEW p \in queue \ Expired PROVE p \in {<<times'[i], i>> : i \in DOMAIN times'}
    <3>1. PICK i \in DOMAIN times : p = <<times[i], i>>
      BY <2>1 DEF Tracked
    <3>2. i \notin evicted
      <4> SUFFICES ASSUME NEW q \in Expired, q[2] = i PROVE FALSE
        OBVIOUS
      <4>1. q = <<times[i], i>>
        BY <1>3
      <4> QED
        BY <4>1, <3>1, <2>1
    <3> QED
      BY <3>1, <3>2, <1>5
  <2>2. ASSUME NEW i \in DOMAIN times' PROVE <<times'[i], i>> \in queue \ Expired
    <3>1. i \in DOMAIN times /\ i \notin evicted /\ times'[i] = times[i]
      BY <1>5
    <3>2. <<times[i], i>> \in queue
      BY <3>1 DEF Tracked
    <3>3. <<times[i], i>> \notin Expired
      <4> SUFFICES ASSUME <<times[i], i>> \in Expired PROVE FALSE
        OBVIOUS
      <4>1. <<times[i], i>>[2] \in evicted
        OBVIOUS
      <4> QED
        BY <4>1, <3>1
    <3> QED
      BY <3>1, <3>2, <3>3
  <2> QED
    BY <2>1, <2>2, <1>1
<1>7. due' = times'
  BY <1>1 DEF Tracked
<1>8. DOMAIN entries' \cup Cached' \subseteq DOMAIN times' \cup orphan'
  <2>1. DOMAIN entries' = DOMAIN entries \ evicted
    BY <1>1, WithoutIs
  <2>2. DOMAIN entries \cup Cached \subseteq DOMAIN times \cup orphan
    BY DEF Tracked
  <2> QED
    BY <2>1, <2>2, <1>1, <1>5
<1> QED
  BY <1>4, <1>6, <1>7, <1>8 DEF Tracked

(* What is not evicted stays, what is evicted is known to be gone.         *)
LEMMA EvictionKeeps ==
    ASSUME HandleExpired, last' = last, NEW id, InStore(id)
    PROVE  InStore(id)'
<1> DEFINE evicted == IF store = "file" THEN {p[2] : p \in Expired} ELSE {}
<1>1. gone' = gone \cup evicted /\ entries' = Without(entries, evicted)
  BY DEF HandleExpired
<1> HIDE DEF evicted
<1>2. /\ DOMAIN entries' = DOMAIN entries \ evicted
      /\ \A z \in DOMAIN entries \ evicted : entries'[z] = entries[z]
  BY <1>1, WithoutIs
<1> QED
  BY <1>1, <1>2 DEF InStore

-----------------------------------------------------------------------------
(* before_handle: a node in the cache.                                     *)

LEMMA FindCachedStep ==
    ASSUME SessionConfig, SessionInv, NEW r \in Req, BeforeHandle(r), FindCached(r)
    PROVE  SessionInv'
<1> DEFINE users(n) == {q \in Req : ctx'[q] = n}
<1>1. PICK id, c :
      /\ id \in Cached /\ ctx[r] = Idle /\ c = cache[id]
      /\ ctx' = [ctx EXCEPT ![r] = c]
      /\ nodes' = [nodes EXCEPT ![c].referrers = @ + 1]
      /\ UNCHANGED <<store, saved, clock, jar, ids, last, entries, times, queue, due, early, gone, orphan, cache>>
  BY DEF BeforeHandle, FindCached, storeVars
<1>2. /\ TypedStore /\ CachedNodes /\ OwnNodes /\ Tracked /\ Stored
      /\ nodes \in [Node -> CachedSession]
      /\ ctx \in [Req -> Node \cup {Idle, NoNode}]
      /\ cache \in [Cached -> Node] /\ Cached \subseteq 1 .. ids
  BY DEF SessionInv, TypedNodes
<1>3. c \in Node /\ nodes[c].id = id /\ nodes[c].referrers = Cardinality(Users(c)) /\ nodes[c] \in CachedSession
  BY <1>1, <1>2 DEF CachedNodes
<1>4. nodes' = [nodes EXCEPT ![c] = [nodes[c] EXCEPT !.referrers = nodes[c].referrers + 1]]
  BY <1>1
<1>5. /\ nodes' \in [Node -> CachedSession]
      /\ \A n \in Node : /\ nodes'[n].id = nodes[n].id /\ nodes'[n].entries = nodes[n].entries
                         /\ nodes'[n].dirty = nodes[n].dirty
                         /\ n # c => nodes'[n] = nodes[n]
      /\ nodes'[c].referrers = nodes[c].referrers + 1
  BY <1>2, <1>3, <1>4 DEF CachedSession
<1>6. TypedStore'
  BY <1>1, <1>2 DEF TypedStore
<1>7. TypedNodes'
  BY <1>1, <1>2, <1>3, <1>5 DEF TypedNodes, Cached
<1>8. Idle \notin Node /\ NoNode \notin Node
  BY NodeNumbers
<1>9. CachedNodes'
  <2>1. users(c) = Users(c) \cup {r} /\ r \notin Users(c)
    BY <1>1, <1>2, <1>3, <1>8 DEF Users
  <2>2. Cardinality(users(c)) = Cardinality(Users(c)) + 1
    <3> HIDE DEF users
    <3> QED
      BY <2>1, UsersCount, FS_AddElement
  <2>3. \A n \in Node : n # c => users(n) = Users(n)
    BY <1>1, <1>2, <1>8 DEF Users
  <2> SUFFICES ASSUME NEW i \in Cached
               PROVE  nodes'[cache[i]].id = i /\ nodes'[cache[i]].referrers = Cardinality(users(cache[i]))
    BY <1>1 DEF CachedNodes, Cached, Users
  <2>4. cache[i] \in Node /\ nodes[cache[i]].id = i /\ nodes[cache[i]].referrers = Cardinality(Users(cache[i]))
    BY <1>2 DEF CachedNodes
  <2>5. CASE cache[i] = c
    BY <2>2, <2>4, <2>5, <1>3, <1>5
  <2>6. CASE cache[i] # c
    BY <2>3, <2>4, <2>6, <1>5
  <2> QED
    BY <2>5, <2>6
<1>10. OwnNodes'
  <2>1. id \in Nat \ {0}
    BY <1>1, <1>2 DEF TypedStore
  <2>2. \A q \in Req : q # r => ctx'[q] = ctx[q]
    BY <1>1, <1>2
  <2>3. ctx'[r] = c
    BY <1>1, <1>2
  <2>4. cache[id] = c
    BY <1>1
  <2> SUFFICES ASSUME NEW q \in Req, ctx'[q] \in Node
               PROVE  IF nodes'[ctx'[q]].id = NoId
                      THEN /\ \A p \in Req : ctx'[p] = ctx'[q] => p = q
                           /\ nodes'[ctx'[q]].dirty \/ nodes'[ctx'[q]].entries = None
                      ELSE nodes'[ctx'[q]].id \in Cached /\ cache[nodes'[ctx'[q]].id] = ctx'[q]
    BY <1>1, <1>2 DEF OwnNodes, Cached, Node
  <2>5. CASE ctx'[q] = c
    BY <2>5, <2>1, <2>4, <1>1, <1>3, <1>5 DEF NoId
  <2>6. CASE ctx'[q] # c
    BY <2>6, <2>2, <2>3, <1>2, <1>5 DEF OwnNodes
  <2> QED
    BY <2>5, <2>6
<1>11. Tracked'
  BY <1>1, <1>2 DEF Tracked, Cached
<1>12. Stored'
  <2> SUFFICES ASSUME NEW i \in 1 .. ids
               PROVE  IF i \in Cached
                      THEN /\ nodes'[cache[i]].entries = last[i]
                           /\ store = "file" /\ ~nodes'[cache[i]].dirty => InStore(i)
                      ELSE InStore(i)
    BY <1>1 DEF Stored, Cached, InStore
  <2> QED
    BY <1>2, <1>5 DEF Stored
<1> QED
  BY <1>6, <1>7, <1>9, <1>10, <1>11, <1>12 DEF SessionInv

(* A request that begins, or ends, without a node.                         *)
LEMMA NoNodeStep ==
    ASSUME SessionConfig, SessionInv, NEW r \in Req, ctx[r] \in {Idle, NoNode},
           NEW w \in {Idle, NoNode}, ctx' = [ctx EXCEPT ![r] = w],
           UNCHANGED <<store, ids, last, nodes, cache>>,
           TypedStore', Tracked', \A i \in 1 .. ids : InStore(i) => InStore(i)'
    PROVE  SessionInv'
<1>1. Idle \notin Node /\ NoNode \notin Node
  BY NodeNumbers
<1>2. \A n \in Node : {q \in Req : ctx'[q] = n} = Users(n)
  BY <1>1 DEF SessionInv, TypedNodes, Users
<1>3. TypedNodes'
  BY DEF SessionInv, TypedNodes, Cached
<1>4. CachedNodes'
  <2> SUFFICES ASSUME NEW i \in Cached
               PROVE  nodes[cache[i]].id = i /\ nodes[cache[i]].referrers = Cardinality({q \in Req : ctx'[q] = cache[i]})
    BY DEF CachedNodes, Cached, Users
  <2>1. PICK n \in Node : n = cache[i]
    BY DEF SessionInv, TypedNodes
  <2> QED
    BY <1>2, <2>1 DEF SessionInv, CachedNodes, Users
<1>5. OwnNodes'
  BY <1>1 DEF SessionInv, TypedNodes, OwnNodes, Cached, Node
<1>6. Stored'
  <2> SUFFICES ASSUME NEW i \in 1 .. ids
               PROVE  IF i \in Cached
                      THEN /\ nodes[cache[i]].entries = last[i]
                           /\ store = "file" /\ ~nodes[cache[i]].dirty => InStore(i)'
                      ELSE InStore(i)'
    BY DEF Stored, Cached, InStore
  <2> QED
    BY DEF SessionInv, Stored
<1> QED
  BY <1>3, <1>4, <1>5, <1>6 DEF SessionInv

LEMMA NoSessionStep ==
    ASSUME SessionConfig, SessionInv, NEW r \in Req, BeforeHandle(r), NoSession(r)
    PROVE  SessionInv'
<1>1. /\ ctx' = [ctx EXCEPT ![r] = NoNode] /\ ctx[r] = Idle
      /\ UNCHANGED <<store, saved, clock, jar, ids, last, entries, times, queue, due, early, gone, orphan, nodes, cache>>
  BY DEF BeforeHandle, NoSession, storeVars
<1>2. TypedStore' /\ Tracked' /\ \A i \in 1 .. ids : InStore(i) => InStore(i)'
  BY <1>1 DEF SessionInv, TypedStore, Tracked, Cached, InStore
<1> QED
  BY <1>1, <1>2, NoNodeStep

(* A new node: no request has it, nor the cache.                           *)
LEMMA FreeNode ==
    ASSUME TypedNodes, NEW n \in Node, Free(n)
    PROVE  /\ \A q \in Req : ctx[q] # n
           /\ \A i \in Cached : cache[i] # n
BY DEF TypedNodes, Free, Range, Cached

LEMMA LoadedNode ==
    ASSUME NEW id \in Nat, NEW e \in Contents
    PROVE  LET new == [NewNode EXCEPT !.id = id, !.entries = e, !.referrers = 1]
           IN  new \in CachedSession /\ new.id = id /\ new.entries = e /\ new.referrers = 1
<1> DEFINE m1 == [NewNode EXCEPT !.id = id]
           m2 == [m1 EXCEPT !.entries = e]
           m3 == [m2 EXCEPT !.referrers = 1]
<1>1. NewNode \in CachedSession
  BY DEF NewNode, CachedSession, Contents, NoId
<1>2. m1 \in CachedSession /\ m1.id = id
  BY <1>1 DEF CachedSession
<1> HIDE DEF m1
<1>3. m2 \in CachedSession /\ m2.id = id /\ m2.entries = e
  BY <1>2 DEF CachedSession
<1> HIDE DEF m2
<1>4. m3 \in CachedSession /\ m3.id = id /\ m3.entries = e /\ m3.referrers = 1
  BY <1>3 DEF CachedSession
<1> QED
  BY <1>4 DEF m1, m2, m3

(* A session that is not in the cache is loaded into a node of its own.    *)
LEMMA LoadedStep ==
    ASSUME SessionConfig, SessionInv, NEW r \in Req, ctx[r] = Idle,
           NEW id \in DOMAIN entries \ Cached, NEW n \in Node, Free(n),
           nodes' = [nodes EXCEPT ![n] = [NewNode EXCEPT !.id = id, !.entries = entries[id], !.referrers = 1]],
           cache' = With(cache, id, n),
           ctx' = [ctx EXCEPT ![r] = n],
           UNCHANGED <<store, saved, clock, jar, ids, last>>,
           TypedStore', Tracked',
           \A i \in 1 .. ids : (store = "file" \/ i # id) /\ InStore(i) => InStore(i)'
    PROVE  SessionInv'
<1> DEFINE new == [NewNode EXCEPT !.id = id, !.entries = entries[id], !.referrers = 1]
           users(m) == {q \in Req : ctx'[q] = m}
<1>1. /\ TypedStore /\ TypedNodes /\ CachedNodes /\ OwnNodes /\ Stored
      /\ nodes \in [Node -> CachedSession]
      /\ ctx \in [Req -> Node \cup {Idle, NoNode}]
      /\ cache \in [Cached -> Node] /\ Cached \subseteq 1 .. ids
  BY DEF SessionInv, TypedNodes
<1>2. Idle \notin Node /\ NoNode \notin Node
  BY NodeNumbers
<1>3. (\A q \in Req : ctx[q] # n) /\ (\A i \in Cached : cache[i] # n)
  BY <1>1, FreeNode
<1>4. id \in 1 .. ids /\ id \in Nat \ {0} /\ entries[id] \in Contents /\ ids \in Nat
  BY <1>1 DEF TypedStore
<1>5. /\ new \in CachedSession /\ new.id = id /\ new.entries = entries[id] /\ new.referrers = 1
  <2>1. id \in Nat
    BY <1>4
  <2> QED
    BY ONLY <2>1, <1>4, LoadedNode
<1> HIDE DEF new
<1>6. nodes' \in [Node -> CachedSession] /\ nodes'[n] = new /\ \A m \in Node : m # n => nodes'[m] = nodes[m]
  <2>1. nodes' = [nodes EXCEPT ![n] = new]
    BY DEF new
  <2> QED
    BY <2>1, <1>1, <1>5
<1>7. /\ Cached' = Cached \cup {id} /\ cache'[id] = n
      /\ \A i \in Cached : cache'[i] = cache[i]
      /\ cache' \in [Cached' -> Node]
  <2>1. DOMAIN cache' = DOMAIN cache \cup {id} /\ cache'[id] = n /\ \A z \in DOMAIN cache : z # id => cache'[z] = cache[z]
    BY DEF With
  <2>2. cache' \in [DOMAIN cache \cup {id} -> Node]
    BY <1>1, WithFits DEF Cached
  <2> QED
    BY <2>1, <2>2 DEF Cached
<1>8. TypedNodes'
  BY <1>1, <1>4, <1>6, <1>7 DEF TypedNodes, Node
<1>9. CachedNodes'
  <2>1. users(n) = {r}
    BY <1>1, <1>3
  <2>2. Cardinality(users(n)) = 1
    BY <2>1, FS_Singleton
  <2>3. \A m \in Node : m # n => users(m) = Users(m)
    BY <1>1, <1>2 DEF Users
  <2> SUFFICES ASSUME NEW i \in Cached \cup {id}
               PROVE  nodes'[cache'[i]].id = i /\ nodes'[cache'[i]].referrers = Cardinality(users(cache'[i]))
    BY <1>7 DEF CachedNodes, Users
  <2>4. CASE i = id
    BY <2>2, <2>4, <1>5, <1>6, <1>7
  <2>5. CASE i # id
    <3>1. i \in Cached /\ cache'[i] = cache[i] /\ cache[i] \in Node /\ cache[i] # n
      BY <2>5, <1>1, <1>3, <1>7
    <3> HIDE DEF users
    <3> QED
      BY <3>1, <2>3, <1>1, <1>6 DEF CachedNodes
  <2> QED
    BY <2>4, <2>5
<1>10. OwnNodes'
  <2> SUFFICES ASSUME NEW q \in Req, ctx'[q] \in Node
               PROVE  IF nodes'[ctx'[q]].id = NoId
                      THEN /\ \A p \in Req : ctx'[p] = ctx'[q] => p = q
                           /\ nodes'[ctx'[q]].dirty \/ nodes'[ctx'[q]].entries = None
                      ELSE nodes'[ctx'[q]].id \in Cached' /\ cache'[nodes'[ctx'[q]].id] = ctx'[q]
    BY DEF OwnNodes, Node
  <2>1. CASE q = r
    BY <2>1, <1>1, <1>4, <1>5, <1>6, <1>7 DEF NoId
  <2>2. CASE q # r
    <3>1. ctx'[q] = ctx[q] /\ ctx[q] # n /\ ctx'[r] = n /\ nodes'[ctx[q]] = nodes[ctx[q]] /\ ctx[q] \in Node
      BY <2>2, <1>1, <1>3, <1>6
    <3>2. \A p \in Req : ctx'[p] = ctx[q] => ctx[p] = ctx[q]
      BY <3>1, <1>1
    <3> QED
      BY <3>1, <3>2, <1>1, <1>7 DEF OwnNodes
  <2> QED
    BY <2>1, <2>2
<1>11. Stored'
  <2> SUFFICES ASSUME NEW i \in 1 .. ids
               PROVE  IF i \in Cached'
                      THEN /\ nodes'[cache'[i]].entries = last[i]
                           /\ store = "file" /\ ~nodes'[cache'[i]].dirty => InStore(i)'
                      ELSE InStore(i)'
    BY DEF Stored, InStore
  <2>1. CASE i = id
    <3>1. InStore(id) /\ entries[id] = last[id]
      BY <1>1, <1>4 DEF Stored, InStore
    <3> QED
      BY <3>1, <2>1, <1>5, <1>6, <1>7
  <2>2. CASE i # id
    <3>1. CASE i \in Cached
      BY <3>1, <2>2, <1>1, <1>3, <1>6, <1>7 DEF Stored
    <3>2. CASE i \notin Cached
      BY <3>2, <2>2, <1>1, <1>7 DEF Stored
    <3> QED
      BY <3>1, <3>2
  <2> QED
    BY <2>1, <2>2
<1> QED
  BY <1>8, <1>9, <1>10, <1>11 DEF SessionInv

LEMMA EvictionFits ==
    ASSUME TypedStore, HandleExpired, UNCHANGED <<store, saved, clock, ids, last>>
    PROVE  TypedStore'
<1> DEFINE evicted == IF store = "file" THEN {p[2] : p \in Expired} ELSE {}
<1>1. times' = Without(times, evicted) /\ entries' = Without(entries, evicted)
  BY DEF HandleExpired
<1> HIDE DEF evicted
<1>2. /\ DOMAIN times' = DOMAIN times \ evicted /\ times' \in [DOMAIN times \ evicted -> Int]
      /\ DOMAIN entries' = DOMAIN entries \ evicted /\ entries' \in [DOMAIN entries \ evicted -> Contents]
  BY <1>1, WithoutIs, WithoutFits DEF TypedStore
<1> QED
  BY <1>2 DEF TypedStore

LEMMA LoadSessionStep ==
    ASSUME SessionConfig, SessionInv, NEW r \in Req, BeforeHandle(r), LoadSession(r)
    PROVE  SessionInv'
<1>1. PICK id : id = jar[Browser[r]]
  OBVIOUS
<1>2. /\ id \in DOMAIN entries \ Cached /\ ctx[r] = Idle
      /\ UNCHANGED <<store, saved, clock, jar, ids, last>>
      /\ TypedStore /\ Tracked
  BY <1>1 DEF BeforeHandle, LoadSession, SessionInv
<1>3. CASE store = "file"
  <2>1. HandleExpired
    BY <1>3 DEF LoadSession
  <2>2. TypedStore' /\ \A i \in 1 .. ids : InStore(i) => InStore(i)'
    BY <2>1, <1>2, EvictionFits, EvictionKeeps
  <2>3. CASE Loads(id)
    <3>1. PICK n \in DOMAIN nodes :
             /\ Free(n)
             /\ nodes' = [nodes EXCEPT ![n] = [NewNode EXCEPT !.id = id, !.entries = entries[id], !.referrers = 1]]
             /\ cache' = With(cache, id, n)
             /\ ctx' = [ctx EXCEPT ![r] = n]
      BY <1>1, <2>3 DEF LoadSession
    <3>2. n \in Node
      BY DEF SessionInv, TypedNodes
    <3>3. Cached' = Cached \cup {id}
      BY <3>1 DEF With, Cached
    <3>4. id \notin {p[2] : p \in Expired}
      BY <1>3, <2>3 DEF Loads
    <3>5. Tracked'
      BY <1>2, <1>3, <2>1, <3>3, <3>4, EvictionTracks
    <3> QED
      BY <1>2, <1>3, <2>2, <3>1, <3>2, <3>5, LoadedStep
  <2>4. CASE ~Loads(id)
    <3>1. ctx' = [ctx EXCEPT ![r] = NoNode] /\ UNCHANGED <<nodes, cache>>
      BY <1>1, <2>4 DEF LoadSession
    <3>2. Tracked'
      BY <1>2, <1>3, <2>1, <3>1, EvictionTracks DEF Cached
    <3> QED
      BY <1>2, <2>2, <3>1, <3>2, NoNodeStep
  <2> QED
    BY <2>3, <2>4
<1>4. CASE store = "memory"
  <2>1. entries' = [entries EXCEPT ![id] = None] /\ UNCHANGED <<times, queue, due, early, gone, orphan>>
    BY <1>1, <1>4 DEF LoadSession
  <2>2. PICK n \in DOMAIN nodes :
           /\ Free(n)
           /\ nodes' = [nodes EXCEPT ![n] = [NewNode EXCEPT !.id = id, !.entries = entries[id], !.referrers = 1]]
           /\ cache' = With(cache, id, n)
           /\ ctx' = [ctx EXCEPT ![r] = n]
    BY <1>1, <1>4 DEF LoadSession, Loads
  <2>3. n \in Node
    BY DEF SessionInv, TypedNodes
  <2>4. /\ DOMAIN entries' = DOMAIN entries /\ \A i \in DOMAIN entries : i # id => entries'[i] = entries[i]
        /\ entries' \in [DOMAIN entries -> Contents]
    BY <1>2, <2>1 DEF TypedStore, Contents
  <2>5. TypedStore'
    BY <1>2, <2>1, <2>4 DEF TypedStore
  <2>6. Tracked'
    BY <1>2, <1>4, <2>1 DEF Tracked
  <2>7. \A i \in 1 .. ids : i # id /\ InStore(i) => InStore(i)'
    BY <1>2, <2>1, <2>4 DEF InStore
  <2> QED
    BY <1>2, <1>4, <2>2, <2>3, <2>5, <2>6, <2>7, LoadedStep
<1> QED
  BY <1>2, <1>3, <1>4 DEF TypedStore

LEMMA BeforeHandleStep ==
    ASSUME SessionConfig, SessionInv, NEW r \in Req, BeforeHandle(r)
    PROVE  SessionInv'
BY FindCachedStep, NoSessionStep, LoadSessionStep DEF BeforeHandle

-----------------------------------------------------------------------------
(* What a handler changes in its node, or in a new one.                    *)

(* The change keeps the id and the count, and marks what it writes dirty.  *)
LEMMA ChangedStep ==
    ASSUME SessionConfig, SessionInv, NEW r \in Req, ctx[r] # Idle,
           NEW n \in Node, IF ctx[r] = NoNode THEN Free(n) ELSE n = ctx[r],
           NEW old, old = IF ctx[r] = NoNode THEN NewNode ELSE nodes[n],
           NEW new \in CachedSession,
           new.id = old.id, new.referrers = old.referrers,
           new.dirty \/ (new.dirty = old.dirty /\ new.entries = old.entries),
           nodes' = [nodes EXCEPT ![n] = new],
           last' = IF new.id = NoId THEN last ELSE [last EXCEPT ![new.id] = new.entries],
           ctx' = [ctx EXCEPT ![r] = n],
           UNCHANGED <<store, storeVars, saved, clock, cache, jar, ids>>
    PROVE  SessionInv'
<1>1. /\ TypedStore /\ TypedNodes /\ CachedNodes /\ OwnNodes /\ Tracked /\ Stored
      /\ nodes \in [Node -> CachedSession]
      /\ ctx \in [Req -> Node \cup {Idle, NoNode}]
      /\ cache \in [Cached -> Node] /\ Cached \subseteq 1 .. ids
      /\ UNCHANGED <<store, entries, times, queue, due, early, gone, orphan, saved, clock, cache, jar, ids>>
  BY DEF SessionInv, TypedNodes, storeVars
<1>2. Idle \notin Node /\ NoNode \notin Node
  BY NodeNumbers
<1>3. nodes' \in [Node -> CachedSession] /\ nodes'[n] = new /\ \A m \in Node : m # n => nodes'[m] = nodes[m]
  BY <1>1
<1>4. ctx' \in [Req -> Node \cup {Idle, NoNode}] /\ ctx'[r] = n /\ \A q \in Req : q # r => ctx'[q] = ctx[q]
  BY <1>1
<1>5. \A m \in Node : ctx[r] # NoNode \/ m # n => {q \in Req : ctx'[q] = m} = Users(m)
  BY <1>1, <1>2, <1>4 DEF Users
<1>6. /\ ctx[r] = NoNode => new.id = NoId /\ old.dirty = FALSE /\ old.entries = None
      /\ ctx[r] = NoNode => (\A q \in Req : ctx[q] # n) /\ (\A i \in Cached : cache[i] # n)
  BY <1>1, FreeNode DEF NewNode
<1>7. new.id = NoId \/ (new.id \in Cached /\ cache[new.id] = n)
  BY <1>6, <1>1 DEF OwnNodes
<1>8. \A i \in Cached : i # new.id => cache[i] # n
  BY <1>1, <1>6 DEF CachedNodes
<1>9. /\ last' \in [1 .. MaxIds -> Contents]
      /\ \A i \in 1 .. ids : i # new.id => last'[i] = last[i]
      /\ new.id \in Cached => last'[new.id] = new.entries
  <2>1. last \in [1 .. MaxIds -> Contents] /\ ids \in 0 .. MaxIds /\ MaxIds \in Nat
    BY <1>1 DEF TypedStore, SessionConfig
  <2>2. new.entries \in Contents
    BY DEF CachedSession
  <2>3. \A i \in Cached : i \in 1 .. MaxIds /\ i # NoId
    BY <2>1, <1>1 DEF NoId
  <2> QED
    BY <2>1, <2>2, <2>3, <1>7
<1>10. TypedStore' /\ TypedNodes'
  BY <1>1, <1>3, <1>4, <1>9 DEF TypedStore, TypedNodes, Cached
<1>11. CachedNodes'
  <2> SUFFICES ASSUME NEW i \in Cached
               PROVE  nodes'[cache[i]].id = i /\ nodes'[cache[i]].referrers = Cardinality({q \in Req : ctx'[q] = cache[i]})
    BY <1>1 DEF CachedNodes, Cached, Users
  <2>1. cache[i] \in Node /\ nodes[cache[i]].id = i /\ nodes[cache[i]].referrers = Cardinality(Users(cache[i]))
    BY <1>1 DEF CachedNodes
  <2>2. {q \in Req : ctx'[q] = cache[i]} = Users(cache[i])
    BY <1>5, <1>6, <2>1
  <2>3. nodes'[cache[i]].id = i /\ nodes'[cache[i]].referrers = nodes[cache[i]].referrers
    BY <1>3, <1>6, <2>1
  <2> QED
    BY <2>1, <2>2, <2>3
<1>12. OwnNodes'
  <2> SUFFICES ASSUME NEW q \in Req, ctx'[q] \in Node
               PROVE  IF nodes'[ctx'[q]].id = NoId
                      THEN /\ \A p \in Req : ctx'[p] = ctx'[q] => p = q
                           /\ nodes'[ctx'[q]].dirty \/ nodes'[ctx'[q]].entries = None
                      ELSE nodes'[ctx'[q]].id \in Cached /\ cache[nodes'[ctx'[q]].id] = ctx'[q]
    BY <1>1 DEF OwnNodes, Cached, Node
  <2>1. CASE ctx'[q] = n /\ ctx[r] = NoNode
    <3>1. \A p \in Req : ctx'[p] = n => p = r
      BY <2>1, <1>4, <1>6
    <3>2. new.id = NoId /\ (new.dirty \/ new.entries = None)
      BY <2>1, <1>6
    <3> QED
      BY <3>1, <3>2, <2>1, <1>3
  <2>2. CASE ctx'[q] = n /\ ctx[r] # NoNode
    <3>1. ctx[r] = n /\ old = nodes[n]
      BY <2>2
    <3>2. \A p \in Req : ctx'[p] = ctx[p]
      BY <3>1, <1>4
    <3>3. IF new.id = NoId
          THEN /\ \A p \in Req : ctx[p] = n => p = r
               /\ new.dirty \/ new.entries = None
          ELSE new.id \in Cached /\ cache[new.id] = n
      BY <3>1, <1>1 DEF OwnNodes
    <3> QED
      BY <3>2, <3>3, <2>2, <1>3, <1>4
  <2>3. CASE ctx'[q] # n
    <3>1. q # r /\ ctx'[q] = ctx[q] /\ nodes'[ctx[q]] = nodes[ctx[q]] /\ ctx[q] \in Node
      BY <2>3, <1>3, <1>4
    <3>2. \A p \in Req : ctx'[p] = ctx[q] => ctx[p] = ctx[q]
      BY <2>3, <3>1, <1>4
    <3> QED
      BY <3>1, <3>2, <1>1 DEF OwnNodes
  <2> QED
    BY <2>1, <2>2, <2>3
<1>13. Tracked'
  BY <1>1 DEF Tracked, Cached
<1>14. Stored'
  <2> SUFFICES ASSUME NEW i \in 1 .. ids
               PROVE  IF i \in Cached
                      THEN /\ nodes'[cache[i]].entries = last'[i]
                           /\ store = "file" /\ ~nodes'[cache[i]].dirty => InStore(i)'
                      ELSE InStore(i)'
    BY <1>1 DEF Stored, Cached, InStore
  <2>1. CASE i = new.id /\ i \in Cached
    <3>1. cache[i] = n /\ nodes'[cache[i]] = new /\ last'[i] = new.entries /\ old = nodes[n]
      BY <2>1, <1>1, <1>3, <1>6, <1>7, <1>9 DEF NoId
    <3>2. ~new.dirty => ~old.dirty /\ last'[i] = last[i]
      BY <3>1, <2>1, <1>1 DEF Stored
    <3> QED
      BY <3>1, <3>2, <2>1, <1>1 DEF Stored, InStore
  <2>2. CASE i \in Cached /\ i # new.id
    <3>1. nodes'[cache[i]] = nodes[cache[i]] /\ last'[i] = last[i]
      BY <2>2, <1>1, <1>3, <1>8, <1>9
    <3> QED
      BY <3>1, <2>2, <1>1 DEF Stored, InStore
  <2>3. CASE i \notin Cached
    <3>1. i # new.id
      BY <2>3, <1>1, <1>7 DEF TypedStore, NoId
    <3>2. last'[i] = last[i]
      BY <3>1, <1>9
    <3> QED
      BY <3>2, <2>3, <1>1 DEF Stored, InStore
  <2> QED
    BY <2>1, <2>2, <2>3
<1> QED
  BY <1>10, <1>11, <1>12, <1>13, <1>14 DEF SessionInv

(* set() and apply(), mutex(), remove() and refresh_expiration() are such  *)
(* changes.                                                                *)
LEMMA HandlerStep ==
    ASSUME SessionConfig, SessionInv, NEW r \in Req, Set(r) \/ Mutex(r) \/ RemoveKey(r) \/ RefreshExpiration(r)
    PROVE  SessionInv'
<1>1. NewNode \in CachedSession
  BY DEF NewNode, CachedSession, Contents, NoId
<1>2. nodes \in [Node -> CachedSession]
  BY DEF SessionInv, TypedNodes
<1> DEFINE old(n) == IF ctx[r] = NoNode THEN NewNode ELSE nodes[n]
<1>3. \A n \in Node : old(n) \in CachedSession
  BY <1>1, <1>2
<1>4. PICK n \in Node, new \in CachedSession :
        /\ ctx[r] # Idle
        /\ IF ctx[r] = NoNode THEN Free(n) ELSE n = ctx[r]
        /\ new.id = old(n).id /\ new.referrers = old(n).referrers
        /\ new.dirty \/ (new.dirty = old(n).dirty /\ new.entries = old(n).entries)
        /\ nodes' = [nodes EXCEPT ![n] = new]
        /\ last' = IF new.id = NoId THEN last ELSE [last EXCEPT ![new.id] = new.entries]
        /\ ctx' = [ctx EXCEPT ![r] = n]
        /\ UNCHANGED <<store, storeVars, saved, clock, cache, jar, ids>>
  <2>1. CASE Set(r)
    <3>1. PICK v \in Values, n \in Node :
            /\ ctx[r] # Idle
            /\ IF ctx[r] = NoNode THEN Free(n) ELSE n = ctx[r]
            /\ LET new == [old(n) EXCEPT !.entries = v, !.dirty = TRUE]
               IN  /\ nodes' = [nodes EXCEPT ![n] = new]
                   /\ last' = IF new.id = NoId THEN last ELSE [last EXCEPT ![new.id] = new.entries]
            /\ ctx' = [ctx EXCEPT ![r] = n]
            /\ UNCHANGED <<store, storeVars, saved, clock, cache, jar, ids>>
      BY <2>1, <1>2 DEF Set, Change
    <3> DEFINE m == [old(n) EXCEPT !.entries = v]
               new == [m EXCEPT !.dirty = TRUE]
    <3>2. old(n) \in CachedSession
      BY <1>3
    <3> HIDE DEF old
    <3>3. m \in CachedSession /\ m.id = old(n).id /\ m.referrers = old(n).referrers
      BY <3>2 DEF CachedSession, Contents
    <3> HIDE DEF m
    <3>4. new \in CachedSession /\ new.id = old(n).id /\ new.referrers = old(n).referrers /\ new.dirty = TRUE
      BY <3>3 DEF CachedSession
    <3>5. new = [old(n) EXCEPT !.entries = v, !.dirty = TRUE]
      BY DEF m
    <3> HIDE DEF new
    <3> QED
      BY <3>1, <3>4, <3>5
  <2>2. CASE Mutex(r)
    <3>1. PICK n \in Node :
            /\ ctx[r] # Idle
            /\ IF ctx[r] = NoNode THEN Free(n) ELSE n = ctx[r]
            /\ LET new == old(n)
               IN  /\ nodes' = [nodes EXCEPT ![n] = new]
                   /\ last' = IF new.id = NoId THEN last ELSE [last EXCEPT ![new.id] = new.entries]
            /\ ctx' = [ctx EXCEPT ![r] = n]
            /\ UNCHANGED <<store, storeVars, saved, clock, cache, jar, ids>>
      BY <2>2, <1>2 DEF Mutex, Change
    <3>2. old(n) \in CachedSession
      BY <1>3
    <3> HIDE DEF old
    <3> QED
      BY <3>1, <3>2
  <2>3. CASE RemoveKey(r)
    <3>1. PICK n \in Node :
            /\ ctx[r] # Idle
            /\ IF ctx[r] = NoNode THEN Free(n) ELSE n = ctx[r]
            /\ LET new == [old(n) EXCEPT !.entries = None, !.dirty = TRUE]
               IN  /\ nodes' = [nodes EXCEPT ![n] = new]
                   /\ last' = IF new.id = NoId THEN last ELSE [last EXCEPT ![new.id] = new.entries]
            /\ ctx' = [ctx EXCEPT ![r] = n]
            /\ UNCHANGED <<store, storeVars, saved, clock, cache, jar, ids>>
      BY <2>3, <1>2 DEF RemoveKey, Change
    <3> DEFINE m == [old(n) EXCEPT !.entries = None]
               new == [m EXCEPT !.dirty = TRUE]
    <3>2. old(n) \in CachedSession
      BY <1>3
    <3> HIDE DEF old
    <3>3. m \in CachedSession /\ m.id = old(n).id /\ m.referrers = old(n).referrers
      BY <3>2 DEF CachedSession, Contents
    <3> HIDE DEF m
    <3>4. new \in CachedSession /\ new.id = old(n).id /\ new.referrers = old(n).referrers /\ new.dirty = TRUE
      BY <3>3 DEF CachedSession
    <3>5. new = [old(n) EXCEPT !.entries = None, !.dirty = TRUE]
      BY DEF m
    <3> HIDE DEF new
    <3> QED
      BY <3>1, <3>4, <3>5
  <2>4. CASE RefreshExpiration(r)
    <3>1. PICK n \in Node :
            /\ ctx[r] # Idle
            /\ IF ctx[r] = NoNode THEN Free(n) ELSE n = ctx[r]
            /\ LET new == [old(n) EXCEPT !.refresh = TRUE]
               IN  /\ nodes' = [nodes EXCEPT ![n] = new]
                   /\ last' = IF new.id = NoId THEN last ELSE [last EXCEPT ![new.id] = new.entries]
            /\ ctx' = [ctx EXCEPT ![r] = n]
            /\ UNCHANGED <<store, storeVars, saved, clock, cache, jar, ids>>
      BY <2>4, <1>2 DEF RefreshExpiration, Change
    <3> DEFINE new == [old(n) EXCEPT !.refresh = TRUE]
    <3>2. old(n) \in CachedSession
      BY <1>3
    <3> HIDE DEF old
    <3>3. /\ new \in CachedSession /\ new.id = old(n).id /\ new.referrers = old(n).referrers
          /\ new.dirty = old(n).dirty /\ new.entries = old(n).entries
      BY <3>2 DEF CachedSession
    <3> HIDE DEF new
    <3> QED
      BY <3>1, <3>3 DEF new
  <2> QED
    BY <2>1, <2>2, <2>3, <2>4
<1> QED
  BY <1>4, ChangedStep

-----------------------------------------------------------------------------
(* after_handle.                                                           *)

LEMMA LeaveNodeStep ==
    ASSUME SessionConfig, SessionInv, NEW r \in Req, AfterHandle(r), LeaveNode(r)
    PROVE  SessionInv'
<1>1. /\ ctx[r] # Idle /\ ctx' = [ctx EXCEPT ![r] = Idle]
      /\ IF ctx[r] = NoNode THEN TRUE ELSE ~IsLast(nodes[ctx[r]])
      /\ nodes' = IF ctx[r] = NoNode THEN nodes ELSE [nodes EXCEPT ![ctx[r]].referrers = @ - 1]
      /\ UNCHANGED <<store, saved, clock, jar, ids, last, entries, times, queue, due, early, gone, orphan, cache>>
  BY DEF AfterHandle, LeaveNode, storeVars
<1>2. /\ TypedStore /\ CachedNodes /\ OwnNodes /\ Tracked /\ Stored
      /\ nodes \in [Node -> CachedSession]
      /\ ctx \in [Req -> Node \cup {Idle, NoNode}]
      /\ cache \in [Cached -> Node] /\ Cached \subseteq 1 .. ids
  BY DEF SessionInv, TypedNodes
<1>3. TypedStore' /\ Tracked' /\ \A i \in 1 .. ids : InStore(i) => InStore(i)'
  BY <1>1, <1>2 DEF TypedStore, Tracked, Cached, InStore
<1>4. CASE ctx[r] = NoNode
  BY <1>1, <1>3, <1>4, NoNodeStep
<1>5. CASE ctx[r] # NoNode
  <2> DEFINE users(m) == {q \in Req : ctx'[q] = m}
  <2>1. PICK c \in Node : c = ctx[r]
    BY <1>1, <1>2, <1>5
  <2>2. /\ nodes' = [nodes EXCEPT ![c] = [nodes[c] EXCEPT !.referrers = nodes[c].referrers - 1]]
        /\ nodes[c] \in CachedSession
    BY <1>1, <1>2, <1>5, <2>1
  <2>3. /\ nodes' \in [Node -> CachedSession]
        /\ \A n \in Node : /\ nodes'[n].id = nodes[n].id /\ nodes'[n].entries = nodes[n].entries
                           /\ nodes'[n].dirty = nodes[n].dirty
                           /\ n # c => nodes'[n] = nodes[n]
        /\ nodes'[c].referrers = nodes[c].referrers - 1
    BY <1>2, <2>2 DEF CachedSession
  <2>4. Idle \notin Node /\ NoNode \notin Node
    BY NodeNumbers
  <2>5. TypedNodes'
    BY <1>1, <1>2, <2>3 DEF TypedNodes, Cached
  <2>6. CachedNodes'
    <3>1. users(c) = Users(c) \ {r} /\ r \in Users(c)
      BY <1>1, <1>2, <2>1, <2>4 DEF Users
    <3>2. Cardinality(users(c)) = Cardinality(Users(c)) - 1
      <4> HIDE DEF users
      <4> QED
        BY <3>1, UsersCount, FS_RemoveElement
    <3>3. \A n \in Node : n # c => users(n) = Users(n)
      BY <1>1, <1>2, <2>1, <2>4 DEF Users
    <3> SUFFICES ASSUME NEW i \in Cached
                 PROVE  nodes'[cache[i]].id = i /\ nodes'[cache[i]].referrers = Cardinality(users(cache[i]))
      BY <1>1 DEF CachedNodes, Cached, Users
    <3>4. cache[i] \in Node /\ nodes[cache[i]].id = i /\ nodes[cache[i]].referrers = Cardinality(Users(cache[i]))
      BY <1>2 DEF CachedNodes
    <3>5. CASE cache[i] = c
      BY <2>3, <3>2, <3>4, <3>5
    <3>6. CASE cache[i] # c
      BY <2>3, <3>3, <3>4, <3>6
    <3> QED
      BY <3>5, <3>6
  <2>7. OwnNodes'
    <3> SUFFICES ASSUME NEW q \in Req, ctx'[q] \in Node
                 PROVE  IF nodes'[ctx'[q]].id = NoId
                        THEN /\ \A p \in Req : ctx'[p] = ctx'[q] => p = q
                             /\ nodes'[ctx'[q]].dirty \/ nodes'[ctx'[q]].entries = None
                        ELSE nodes'[ctx'[q]].id \in Cached /\ cache[nodes'[ctx'[q]].id] = ctx'[q]
      BY <1>1, <1>2 DEF OwnNodes, Cached, Node
    <3>1. q # r /\ ctx'[q] = ctx[q] /\ \A p \in Req : ctx'[p] = ctx[q] => ctx[p] = ctx[q]
      BY <1>1, <1>2, <2>4
    <3> QED
      BY <3>1, <1>2, <2>3 DEF OwnNodes
  <2>8. Stored'
    <3> SUFFICES ASSUME NEW i \in 1 .. ids
                 PROVE  IF i \in Cached
                        THEN /\ nodes'[cache[i]].entries = last[i]
                             /\ store = "file" /\ ~nodes'[cache[i]].dirty => InStore(i)
                        ELSE InStore(i)
      BY <1>1 DEF Stored, Cached, InStore
    <3> QED
      BY <1>2, <2>3 DEF Stored
  <2> QED
    BY <1>3, <2>5, <2>6, <2>7, <2>8 DEF SessionInv
<1> QED
  BY <1>4, <1>5

(* The last request of a node: nobody else has it.                         *)
LEMMA LastAlone ==
    ASSUME SessionConfig, SessionInv, NEW r \in Req, NEW c \in Node, ctx[r] = c, IsLast(nodes[c])
    PROVE  \A q \in Req : ctx[q] = c => q = r
<1>1. CASE nodes[c].id = NoId
  BY <1>1 DEF SessionInv, OwnNodes
<1>2. CASE nodes[c].id # NoId
  <2>1. nodes[c].referrers = Cardinality(Users(c))
    BY <1>2 DEF SessionInv, OwnNodes, CachedNodes
  <2>2. Cardinality(Users(c)) \in Nat /\ IsFiniteSet(Users(c))
    BY UsersCount
  <2>3. r \in Users(c)
    BY DEF Users
  <2>4. Cardinality(Users(c)) <= 1
    BY <2>1, <2>2 DEF IsLast
  <2>5. Cardinality(Users(c)) # 0
    BY <2>2, <2>3, FS_EmptySet
  <2>6. Cardinality(Users(c)) = 1
    BY <2>2, <2>4, <2>5
  <2>7. \E x : Users(c) = {x}
    BY ONLY <2>2, <2>6, FS_Singleton, Zenon
  <2> QED
    BY <2>3, <2>7 DEF Users
<1> QED
  BY <1>1, <1>2

(* add() of the tracker, and the file, in the terms of the invariant.      *)
LEMMA AddTracks ==
    ASSUME NEW id, NEW t,
           queue = {<<times[i], i>> : i \in DOMAIN times}, Add(id, t)
    PROVE  queue' = {<<times'[i], i>> : i \in DOMAIN times'}
<1>1. DOMAIN times' = DOMAIN times \cup {id} /\ times'[id] = t /\ \A i \in DOMAIN times : i # id => times'[i] = times[i]
  BY DEF Add, With
<1>2. queue' = {p \in queue : p[2] # id} \cup {<<t, id>>}
  BY DEF Add
<1>3. ASSUME NEW p \in queue, p[2] # id PROVE p \in {<<times'[i], i>> : i \in DOMAIN times'}
  <2>1. PICK i \in DOMAIN times : p = <<times[i], i>>
    OBVIOUS
  <2> QED
    BY <2>1, <1>1, <1>3
<1>4. <<t, id>> \in {<<times'[i], i>> : i \in DOMAIN times'}
  BY <1>1
<1>5. ASSUME NEW i \in DOMAIN times' PROVE <<times'[i], i>> \in queue'
  <2>1. CASE i = id
    BY <2>1, <1>1, <1>2
  <2>2. CASE i # id
    <3>1. i \in DOMAIN times /\ times'[i] = times[i]
      BY <2>2, <1>1
    <3>2. <<times[i], i>> \in queue
      BY <3>1
    <3>3. <<times[i], i>>[2] = i
      OBVIOUS
    <3> QED
      BY <3>1, <3>2, <3>3, <2>2, <1>2
  <2> QED
    BY <2>1, <2>2
<1> QED
  BY <1>2, <1>3, <1>4, <1>5

(* What Save() leaves: the node's value in the store unless nothing is to  *)
(* be written to the file, and the file tracked.                           *)
LEMMA Saved ==
    ASSUME SessionConfig, SessionInv, NEW m \in CachedSession, m.id \in Nat \ {0}, m.id <= MaxIds, Save(m),
           UNCHANGED <<store, saved, clock>>,
           ids' \in 0 .. MaxIds, ids <= ids', m.id <= ids',
           m.refresh \/ m.id \in Cached,
           Cached' = Cached \ {m.id}, last' \in [1 .. MaxIds -> Contents]
    PROVE  /\ TypedStore' /\ Tracked'
           /\ store = "memory" \/ m.dirty => m.id \in DOMAIN entries' /\ entries'[m.id] = m.entries
           /\ store = "file" /\ ~m.dirty => UNCHANGED <<entries, gone>>
           /\ \A i \in Nat : i # m.id => /\ i \in DOMAIN entries' <=> i \in DOMAIN entries
                                         /\ i \in DOMAIN entries => entries'[i] = entries[i]
                                         /\ i \in gone' <=> i \in gone
<1> DEFINE id == m.id
           writes == store = "memory" \/ m.dirty
           adds == store = "file" /\ m.refresh
<1>1. /\ TypedStore /\ Tracked /\ store \in {"memory", "file"} /\ clock + Expires \in Int /\ m.entries \in Contents
      /\ ids \in Nat /\ ids' \in Nat
  BY DEF SessionInv, TypedStore, SessionConfig, CachedSession
<1>2. /\ IF adds THEN Add(id, clock + Expires) /\ due' = With(due, id, clock + Expires)
         ELSE UNCHANGED <<times, queue, due>>
      /\ entries' = IF writes THEN With(entries, id, m.entries) ELSE entries
      /\ orphan' = IF m.refresh THEN orphan \ {id} ELSE orphan
      /\ gone' = IF writes THEN gone \ {id} ELSE gone
      /\ early' = early
  BY DEF Save
<1>3. store = "file" /\ ~m.dirty => ~writes
  BY <1>1
<1>4. id \in Nat \ {0} /\ id <= ids' /\ (m.refresh \/ id \in Cached) /\ Cached' = Cached \ {id}
  OBVIOUS
<1>5. store = "memory" \/ m.dirty <=> writes
  OBVIOUS
<1>6. store = "file" /\ m.refresh <=> adds
  OBVIOUS
<1> HIDE DEF id, writes, adds
<1>7. /\ DOMAIN entries' = IF writes THEN DOMAIN entries \cup {id} ELSE DOMAIN entries
      /\ writes => entries'[id] = m.entries
      /\ \A i \in DOMAIN entries : i # id => entries'[i] = entries[i]
  BY <1>2 DEF With
<1>8. entries' \in [DOMAIN entries' -> Contents]
  <2>1. CASE writes
    BY <2>1, <1>1, <1>2, <1>7, WithFits DEF TypedStore
  <2>2. CASE ~writes
    BY <2>2, <1>1, <1>2 DEF TypedStore
  <2> QED
    BY <2>1, <2>2
<1>9. /\ DOMAIN times' = IF adds THEN DOMAIN times \cup {id} ELSE DOMAIN times
      /\ times' \in [DOMAIN times' -> Int]
  <2>1. CASE adds
    <3>1. times' = With(times, id, clock + Expires)
      BY <2>1, <1>2 DEF Add
    <3>2. DOMAIN times' = DOMAIN times \cup {id}
      BY <3>1 DEF With
    <3>3. times \in [DOMAIN times -> Int] /\ clock + Expires \in Int
      BY <1>1 DEF TypedStore
    <3>4. times' \in [DOMAIN times \cup {id} -> Int]
      BY <3>1, <3>3, WithFits
    <3> QED
      BY <2>1, <3>2, <3>4
  <2>2. CASE ~adds
    BY <2>2, <1>1, <1>2 DEF TypedStore
  <2> QED
    BY <2>1, <2>2
<1>10. DOMAIN entries' \subseteq 1 .. ids'
  BY <1>1, <1>4, <1>7 DEF TypedStore
<1>11. TypedStore'
  BY <1>1, <1>8, <1>9, <1>10 DEF TypedStore
<1>12. Tracked'
  <2>1. queue' = {<<times'[i], i>> : i \in DOMAIN times'}
    <3>1. CASE adds
      BY <3>1, <1>1, <1>2, AddTracks DEF Tracked
    <3>2. CASE ~adds
      BY <3>2, <1>1, <1>2 DEF Tracked
    <3> QED
      BY <3>1, <3>2
  <2>2. due' = times'
    BY <1>1, <1>2 DEF Tracked, Add
  <2>3. early' = {}
    BY <1>1, <1>2 DEF Tracked
  <2>4. ASSUME store = "file" PROVE DOMAIN entries' \cup Cached' \subseteq DOMAIN times' \cup orphan'
    <3>1. DOMAIN entries \cup Cached \subseteq DOMAIN times \cup orphan
      BY <2>4, <1>1 DEF Tracked
    <3>2. CASE m.refresh
      <4>1. adds
        BY <3>2, <2>4, <1>6
      <4> QED
        BY <4>1, <3>1, <3>2, <1>2, <1>4, <1>7, <1>9
    <3>3. CASE ~m.refresh
      <4>1. ~adds /\ id \in Cached /\ orphan' = orphan
        BY <3>3, <1>2, <1>4, <1>6
      <4> QED
        BY <4>1, <3>1, <1>4, <1>7, <1>9
    <3> QED
      BY <3>2, <3>3
  <2> QED
    BY <2>1, <2>2, <2>3, <2>4 DEF Tracked
<1>13. \A i \in Nat : i # id => /\ i \in DOMAIN entries' <=> i \in DOMAIN entries
                                /\ i \in DOMAIN entries => entries'[i] = entries[i]
                                /\ i \in gone' <=> i \in gone
  BY <1>2, <1>7
<1>14. /\ store = "memory" \/ m.dirty => id \in DOMAIN entries' /\ entries'[id] = m.entries
       /\ store = "file" /\ ~m.dirty => UNCHANGED <<entries, gone>>
  BY <1>2, <1>3, <1>5, <1>7
<1> QED
  BY <1>11, <1>12, <1>13, <1>14 DEF id

LEMMA SaveSessionStep ==
    ASSUME SessionConfig, SessionInv, NEW r \in Req, AfterHandle(r), SaveSession(r)
    PROVE  SessionInv'
<1> DEFINE n == nodes[ctx[r]]
           users(k) == {q \in Req : ctx'[q] = k}
<1>1. PICK c, id, m :
        /\ c = ctx[r]
        /\ id = IF n.id = NoId THEN ids + 1 ELSE n.id
        /\ m = [n EXCEPT !.id = id, !.refresh = @ \/ n.id = NoId]
  OBVIOUS
<1>2. /\ c \notin {Idle, NoNode} /\ IsLast(n) /\ id <= MaxIds
      /\ ids' = IF n.id = NoId THEN id ELSE ids
      /\ last' = IF n.id = NoId THEN [last EXCEPT ![id] = n.entries] ELSE last
      /\ cache' = IF n.id = NoId THEN cache ELSE Without(cache, {id})
      /\ nodes' = [nodes EXCEPT ![c] = IF \E q \in Req \ {r} : ctx[q] = c
                                       THEN [m EXCEPT !.referrers = @ - 1] ELSE NewNode]
      /\ Save(m)
      /\ ctx' = [ctx EXCEPT ![r] = Idle]
      /\ UNCHANGED <<store, saved, clock>>
  BY <1>1 DEF AfterHandle, SaveSession
<1>3. /\ TypedStore /\ CachedNodes /\ OwnNodes /\ Tracked /\ Stored
      /\ nodes \in [Node -> CachedSession]
      /\ ctx \in [Req -> Node \cup {Idle, NoNode}]
      /\ cache \in [Cached -> Node] /\ Cached \subseteq 1 .. ids
      /\ ids \in 0 .. MaxIds /\ MaxIds \in Nat /\ last \in [1 .. MaxIds -> Contents]
      /\ store \in {"memory", "file"}
  BY DEF SessionInv, TypedNodes, TypedStore, SessionConfig
<1>4. c \in Node /\ ctx[r] = c /\ n = nodes[c] /\ n \in CachedSession
  BY <1>1, <1>2, <1>3
<1>5. \A q \in Req : ctx[q] = c => q = r
  BY <1>2, <1>4, LastAlone
<1>6. Idle \notin Node /\ NoNode \notin Node
  BY NodeNumbers
<1>7. n.id # NoId => n.id \in Cached /\ cache[n.id] = c
  BY <1>3, <1>4 DEF OwnNodes
<1>8. /\ id \in Nat \ {0} /\ id \in 1 .. ids' /\ ids' \in 0 .. MaxIds /\ ids <= ids'
      /\ n.id = NoId => id \notin Cached /\ id \notin DOMAIN entries /\ id = ids + 1
      /\ n.id # NoId => id = n.id
      /\ ids' \in Nat
  <2>1. CASE n.id = NoId
    BY <2>1, <1>1, <1>2, <1>3 DEF TypedStore
  <2>2. CASE n.id # NoId
    BY <2>2, <1>1, <1>2, <1>3, <1>7
  <2> QED
    BY <2>1, <2>2
<1>9. /\ m \in CachedSession /\ m.id = id /\ m.entries = n.entries /\ m.dirty = n.dirty
      /\ m.refresh \/ n.id # NoId
  <2> DEFINE m1 == [n EXCEPT !.id = id]
             m2 == [m1 EXCEPT !.refresh = n.refresh \/ n.id = NoId]
  <2>1. m1 \in CachedSession /\ m1.id = id /\ m1.entries = n.entries /\ m1.dirty = n.dirty /\ m1.refresh = n.refresh
    BY <1>4, <1>8 DEF CachedSession
  <2>2. m = m2
    BY <1>1
  <2> HIDE DEF m1
  <2>3. m2 \in CachedSession /\ m2.id = id /\ m2.entries = n.entries /\ m2.dirty = n.dirty /\ m2.refresh = (n.refresh \/ n.id = NoId)
    BY <2>1 DEF CachedSession
  <2> QED
    BY <2>2, <2>3
<1>10. nodes' = [nodes EXCEPT ![c] = NewNode]
  BY <1>2, <1>5
<1>11. /\ nodes' \in [Node -> CachedSession] /\ \A k \in Node : k # c => nodes'[k] = nodes[k]
  <2>1. NewNode \in CachedSession
    BY DEF NewNode, CachedSession, Contents, NoId
  <2> QED
    BY <2>1, <1>3, <1>10
<1> HIDE DEF n
<1>12. /\ Cached' = Cached \ {id}
       /\ \A i \in Cached : i # id => cache'[i] = cache[i] /\ cache[i] # c
       /\ cache' \in [Cached' -> Node]
  <2>1. CASE n.id = NoId
    <3>1. \A i \in Cached : nodes[cache[i]].id = i /\ i # NoId
      BY <1>3 DEF CachedNodes, NoId
    <3> QED
      BY <2>1, <3>1, <1>2, <1>3, <1>4, <1>8 DEF Cached
  <2>2. CASE n.id # NoId
    <3>1. DOMAIN cache' = Cached \ {id} /\ \A i \in Cached : i # id => cache'[i] = cache[i]
      BY <2>2, <1>2 DEF Cached, Without, Restrict
    <3>2. cache' \in [DOMAIN cache \ {id} -> Node]
      BY <2>2, <1>2, <1>3, WithoutFits DEF Cached
    <3>3. \A i \in Cached : i # id => cache[i] # c
      BY <2>2, <1>3, <1>4, <1>8 DEF CachedNodes
    <3> QED
      BY <3>1, <3>2, <3>3 DEF Cached
  <2> QED
    BY <2>1, <2>2
<1>13. /\ last' \in [1 .. MaxIds -> Contents]
       /\ last'[id] = n.entries
       /\ \A i \in 1 .. ids : i # id => last'[i] = last[i]
  <2>1. CASE n.id = NoId
    <3>1. last' = [last EXCEPT ![id] = n.entries] /\ id \in 1 .. MaxIds /\ n.entries \in Contents
      BY <2>1, <1>2, <1>3, <1>4, <1>8 DEF CachedSession
    <3> QED
      BY <3>1, <1>3
  <2>2. CASE n.id # NoId
    <3>1. id \in Cached /\ cache[id] = c /\ id \in 1 .. ids
      BY <2>2, <1>3, <1>7, <1>8
    <3>2. last[id] = n.entries
      BY <3>1, <1>3, <1>4 DEF Stored
    <3> QED
      BY <2>2, <3>2, <1>2, <1>3
  <2> QED
    BY <2>1, <2>2
<1>14. /\ TypedStore' /\ Tracked'
       /\ store = "memory" \/ n.dirty => id \in DOMAIN entries' /\ entries'[id] = n.entries
       /\ store = "file" /\ ~n.dirty => UNCHANGED <<entries, gone>>
       /\ \A i \in Nat : i # id => /\ i \in DOMAIN entries' <=> i \in DOMAIN entries
                                   /\ i \in DOMAIN entries => entries'[i] = entries[i]
                                   /\ i \in gone' <=> i \in gone
  <2>1. m.refresh \/ m.id \in Cached
    BY <1>7, <1>8, <1>9
  <2>2. m.id \in Nat \ {0} /\ m.id <= MaxIds /\ ids' \in 0 .. MaxIds /\ ids <= ids' /\ m.id <= ids'
    BY <1>8, <1>9, <1>3
  <2>3. Cached' = Cached \ {m.id} /\ last' \in [1 .. MaxIds -> Contents] /\ Save(m) /\ m \in CachedSession
        /\ UNCHANGED <<store, saved, clock>> /\ m.dirty = n.dirty /\ m.id = id /\ m.entries = n.entries
    BY <1>2, <1>9, <1>12, <1>13
  <2>4. SessionConfig /\ SessionInv
    OBVIOUS
  <2> QED
    BY ONLY <2>1, <2>2, <2>3, <2>4, Saved
<1>15. TypedNodes'
  <2>1. Cached' \subseteq 1 .. ids'
    BY <1>3, <1>8, <1>12
  <2>2. ctx' \in [Req -> Node \cup {Idle, NoNode}]
    BY <1>2, <1>3
  <2> QED
    BY <2>1, <2>2, <1>11, <1>12 DEF TypedNodes, Node
<1>16. CachedNodes'
  <2> SUFFICES ASSUME NEW i \in Cached'
               PROVE  nodes'[cache'[i]].id = i /\ nodes'[cache'[i]].referrers = Cardinality(users(cache'[i]))
    BY DEF CachedNodes, Users
  <2>1. i \in Cached /\ cache'[i] = cache[i] /\ cache[i] # c /\ cache[i] \in Node
    BY <1>3, <1>12
  <2>2. users(cache[i]) = Users(cache[i])
    BY <2>1, <1>2, <1>3, <1>4, <1>6 DEF Users
  <2> HIDE DEF users
  <2> QED
    BY <2>1, <2>2, <1>3, <1>11 DEF CachedNodes
<1>17. OwnNodes'
  <2> SUFFICES ASSUME NEW q \in Req, ctx'[q] \in Node
               PROVE  IF nodes'[ctx'[q]].id = NoId
                      THEN /\ \A p \in Req : ctx'[p] = ctx'[q] => p = q
                           /\ nodes'[ctx'[q]].dirty \/ nodes'[ctx'[q]].entries = None
                      ELSE nodes'[ctx'[q]].id \in Cached' /\ cache'[nodes'[ctx'[q]].id] = ctx'[q]
    BY DEF OwnNodes, Node
  <2>1. /\ q # r /\ ctx'[q] = ctx[q] /\ ctx[q] # c /\ ctx[q] \in Node /\ nodes'[ctx[q]] = nodes[ctx[q]]
        /\ \A p \in Req : ctx'[p] = ctx[q] => ctx[p] = ctx[q]
    BY <1>2, <1>3, <1>5, <1>6, <1>11
  <2>2. CASE nodes[ctx[q]].id = NoId
    BY <2>1, <2>2, <1>3 DEF OwnNodes
  <2>3. CASE nodes[ctx[q]].id # NoId
    <3>1. nodes[ctx[q]].id \in Cached /\ cache[nodes[ctx[q]].id] = ctx[q]
      BY <2>1, <2>3, <1>3 DEF OwnNodes
    <3>2. nodes[ctx[q]].id # id
      BY <3>1, <2>1, <1>7, <1>8
    <3> QED
      BY <2>1, <2>3, <3>1, <3>2, <1>12
  <2> QED
    BY <2>2, <2>3
<1>18. Stored'
  <2> SUFFICES ASSUME NEW i \in 1 .. ids'
               PROVE  IF i \in Cached'
                      THEN /\ nodes'[cache'[i]].entries = last'[i]
                           /\ store' = "file" /\ ~nodes'[cache'[i]].dirty => InStore(i)'
                      ELSE InStore(i)'
    BY DEF Stored, InStore
  <2>1. CASE i = id
    <3>1. i \notin Cached'
      BY <2>1, <1>12
    <3>2. CASE store = "memory" \/ n.dirty
      BY <2>1, <3>1, <3>2, <1>13, <1>14 DEF InStore
    <3>3. CASE store = "file" /\ ~n.dirty
      <4>1. CASE n.id = NoId
        <5>1. n.entries = None
          BY <3>3, <4>1, <1>3, <1>4 DEF OwnNodes
        <5>2. id \notin DOMAIN entries'
          BY <3>3, <4>1, <1>8, <1>14
        <5> QED
          BY <2>1, <3>1, <5>1, <5>2, <1>13 DEF InStore
      <4>2. CASE n.id # NoId
        <5>1. id \in Cached /\ cache[id] = c /\ id \in 1 .. ids
          BY <4>2, <1>3, <1>7, <1>8
        <5>2. InStore(id) /\ last[id] = n.entries
          BY <5>1, <3>3, <1>3, <1>4 DEF Stored
        <5> QED
          BY <2>1, <3>1, <3>3, <5>2, <1>13, <1>14 DEF InStore
      <4> QED
        BY <4>1, <4>2
    <3> QED
      BY <3>2, <3>3, <1>3
  <2>2. CASE i # id
    <3>1. i \in 1 .. ids /\ i \in Nat
      BY <2>2, <1>2, <1>3, <1>8
    <3>2. InStore(i) => InStore(i)'
      BY <2>2, <3>1, <1>13, <1>14 DEF InStore
    <3>3. CASE i \in Cached
      <4>1. i \in Cached' /\ cache'[i] = cache[i] /\ nodes'[cache[i]] = nodes[cache[i]] /\ last'[i] = last[i] /\ store' = store
        BY <2>2, <3>1, <3>3, <1>2, <1>3, <1>11, <1>12, <1>13
      <4> QED
        BY <3>1, <3>2, <3>3, <4>1, <1>3 DEF Stored
    <3>4. CASE i \notin Cached
      BY <3>1, <3>2, <3>4, <1>3, <1>12 DEF Stored
    <3> QED
      BY <3>3, <3>4
  <2> QED
    BY <2>1, <2>2
<1> QED
  BY <1>14, <1>15, <1>16, <1>17, <1>18 DEF SessionInv

-----------------------------------------------------------------------------
(* The process ends and is started again.                                  *)

LEMMA RestartStep ==
    ASSUME SessionConfig, SessionInv, NEW crash \in BOOLEAN, Restart(crash)
    PROVE  SessionInv'
<1>1. PICK kept, live :
        /\ kept = IF store = "memory" THEN <<>> ELSE entries
        /\ live = {id \in DOMAIN saved' : saved'[id] >= clock}
  OBVIOUS
<1>2. /\ saved' = IF crash \/ store = "memory" THEN saved ELSE times
      /\ entries' = Without(kept, DOMAIN saved' \ live)
      /\ times' = Restrict(saved', live \cap DOMAIN kept)
      /\ queue' = {<<saved'[id], id>> : id \in live \cap DOMAIN kept}
      /\ cache' = <<>> /\ ctx' = [r \in Req |-> Idle] /\ nodes' = [n \in DOMAIN nodes |-> NewNode]
      /\ last' = [id \in DOMAIN last |-> IF id \in DOMAIN entries' THEN entries'[id] ELSE None]
      /\ due' = times'
      /\ gone' = (1 .. ids) \ DOMAIN entries'
      /\ orphan' = orphan \cup (IF crash THEN DOMAIN entries' \ DOMAIN times' ELSE {})
      /\ UNCHANGED <<store, clock, jar, ids, early>>
  BY <1>1 DEF Restart, StartStore
<1>3. /\ TypedStore /\ Tracked
      /\ nodes \in [Node -> CachedSession]
      /\ last \in [1 .. MaxIds -> Contents] /\ ids \in 0 .. MaxIds /\ MaxIds \in Nat
  BY DEF SessionInv, TypedNodes, TypedStore, SessionConfig
<1>4. /\ kept \in [DOMAIN kept -> Contents] /\ DOMAIN kept \subseteq 1 .. ids
      /\ saved' \in [DOMAIN saved' -> Int]
  BY <1>1, <1>2, <1>3 DEF TypedStore
<1>5. /\ DOMAIN entries' = DOMAIN kept \ (DOMAIN saved' \ live)
      /\ entries' \in [DOMAIN entries' -> Contents] /\ DOMAIN entries' \subseteq 1 .. ids
  <2>1. entries' \in [DOMAIN kept \ (DOMAIN saved' \ live) -> Contents]
    BY <1>2, <1>4, WithoutFits
  <2> QED
    BY <2>1, <1>4
<1>6. live \subseteq DOMAIN saved'
  BY <1>1
<1>7. /\ DOMAIN times' = live \cap DOMAIN kept
      /\ \A i \in DOMAIN times' : times'[i] = saved'[i]
      /\ times' \in [DOMAIN times' -> Int]
  BY <1>2, <1>4, <1>6 DEF Restrict
<1>8. /\ last' \in [1 .. MaxIds -> Contents]
      /\ \A i \in 1 .. MaxIds : last'[i] = IF i \in DOMAIN entries' THEN entries'[i] ELSE None
  BY <1>2, <1>3, <1>5 DEF Contents
<1>9. TypedStore'
  BY <1>2, <1>3, <1>4, <1>5, <1>7, <1>8 DEF TypedStore
<1>10. Cached' = {} /\ cache' \in [Cached' -> Node]
  BY <1>2 DEF Cached
<1>11. TypedNodes'
  <2>1. NewNode \in CachedSession
    BY DEF NewNode, CachedSession, Contents, NoId
  <2> QED
    BY <2>1, <1>2, <1>3, <1>10 DEF TypedNodes, Node
<1>12. CachedNodes'
  BY <1>10 DEF CachedNodes
<1>13. OwnNodes'
  <2>1. Idle \notin Node
    BY NodeNumbers
  <2> QED
    BY <2>1, <1>2 DEF OwnNodes, Node
<1>14. Tracked'
  <2>1. queue' = {<<times'[i], i>> : i \in DOMAIN times'}
    BY <1>2, <1>7
  <2>2. ASSUME store = "file" PROVE DOMAIN entries' \subseteq DOMAIN times' \cup orphan'
    <3>1. kept = entries /\ DOMAIN entries \subseteq DOMAIN times \cup orphan
      BY <2>2, <1>1, <1>3 DEF Tracked
    <3>2. CASE crash
      BY <3>2, <1>2
    <3>3. CASE ~crash
      <4>1. saved' = times /\ orphan' = orphan
        BY <2>2, <3>3, <1>2
      <4> QED
        BY <3>1, <4>1, <1>5, <1>6, <1>7
    <3> QED
      BY <3>2, <3>3
  <2> QED
    BY <2>1, <2>2, <1>2, <1>3, <1>10 DEF Tracked
<1>15. Stored'
  <2> SUFFICES ASSUME NEW i \in 1 .. ids PROVE InStore(i)'
    BY <1>2, <1>10 DEF Stored, InStore
  <2>1. i \in 1 .. MaxIds
    BY <1>3
  <2> QED
    BY <2>1, <1>2, <1>8 DEF InStore
<1> QED
  BY <1>9, <1>11, <1>12, <1>13, <1>14, <1>15 DEF SessionInv

LEMMA TickStep == ASSUME SessionInv, ClockTick PROVE SessionInv'
<1>1. clock' = clock + 1
      /\ UNCHANGED <<store, entries, times, queue, due, early, gone, orphan, saved, nodes, cache, ctx, jar, ids, last>>
  BY DEF ClockTick, storeVars
<1>2. TypedStore' /\ TypedNodes'
  BY <1>1 DEF SessionInv, TypedStore, TypedNodes, Cached
<1>3. CachedNodes' /\ OwnNodes'
  BY <1>1 DEF SessionInv, CachedNodes, OwnNodes, Cached, Users, Node
<1>4. Tracked' /\ Stored'
  BY <1>1 DEF SessionInv, Tracked, Stored, InStore, Cached
<1> QED
  BY <1>2, <1>3, <1>4 DEF SessionInv

-----------------------------------------------------------------------------

LEMMA SessionBegins == ASSUME SessionConfig, SessionInit PROVE SessionInv
<1>1. NewNode \in CachedSession
  BY DEF NewNode, CachedSession, Contents, NoId
<1>2. TypedStore
  BY DEF SessionInit, TypedStore, Contents, SessionConfig
<1>3. Cached = {}
  BY DEF SessionInit, Cached
<1>4. TypedNodes
  BY <1>1, <1>3 DEF SessionInit, TypedNodes, Node, Cached
<1>5. OwnNodes
  <2>1. Idle \notin Node
    BY NodeNumbers
  <2> QED
    BY <2>1 DEF SessionInit, OwnNodes
<1>6. CachedNodes /\ Tracked
  BY <1>3 DEF SessionInit, CachedNodes, Tracked
<1>7. Stored
  BY DEF SessionInit, Stored
<1> QED
  BY <1>2, <1>4, <1>5, <1>6, <1>7 DEF SessionInv

LEMMA SessionGoesOn == ASSUME SessionConfig, SessionInv, [SessionNext]_sessionVars PROVE SessionInv'
<1>1. ASSUME NEW r \in Req, AfterHandle(r) PROVE SessionInv'
  BY <1>1, LeaveNodeStep, SaveSessionStep DEF AfterHandle
<1>2. CASE UNCHANGED sessionVars
  <2>1. UNCHANGED <<store, entries, times, queue, saved, clock, nodes, cache, ctx, jar, ids, last, due, early, gone, orphan>>
    BY <1>2 DEF sessionVars
  <2>2. TypedStore' /\ TypedNodes'
    BY <2>1 DEF SessionInv, TypedStore, TypedNodes, Cached
  <2>3. CachedNodes' /\ OwnNodes'
    BY <2>1 DEF SessionInv, CachedNodes, OwnNodes, Cached, Users, Node
  <2>4. Tracked' /\ Stored'
    BY <2>1 DEF SessionInv, Tracked, Stored, InStore, Cached
  <2> QED
    BY <2>2, <2>3, <2>4 DEF SessionInv
<1> QED
  BY <1>1, <1>2, BeforeHandleStep, HandlerStep, RestartStep, TickStep DEF SessionNext

(* The invariant holds of every behaviour.                                 *)
LEMMA SessionAlways == ASSUME SessionConfig PROVE SessionSpec => []SessionInv
BY SessionBegins, SessionGoesOn, PTL DEF SessionSpec

(* Every request that is being handled refers to a node that exists, the   *)
(* node a session has in cache_ is that session's and counts the requests  *)
(* that use it, and the tracker's queue and map hold the same times.       *)
THEOREM ReferrersCounted == SessionSpec => []SessionTypeOK
<1>1. ASSUME SessionInv PROVE SessionTypeOK
  <2>1. DOMAIN nodes = Node
    BY <1>1 DEF SessionInv, TypedNodes
  <2> QED
    BY <1>1, <2>1 DEF SessionInv, TypedNodes, CachedNodes, Tracked, SessionTypeOK, Users
<1> QED
  BY <1>1, SessionAssumption, SessionAlways, PTL

(* What a handler set last in a session is what the next request of the    *)
(* session finds, whether the last of its requests or another one wrote    *)
(* it, unless the session expired or the process ended: for every number   *)
(* of requests, whichever browsers they come from.                         *)
THEOREM LastWriteKept == SessionSpec => []LastSetKept
<1>1. ASSUME SessionInv PROVE LastSetKept
  BY <1>1 DEF SessionInv, Stored, InStore, LastSetKept
<1> QED
  BY <1>1, SessionAssumption, SessionAlways, PTL

(* handle_expired() evicts no file before the expiration granted last, and *)
(* no file is left without one but those evicted in use and those a crash  *)
(* left: for every expiration, and however few files an eviction deletes.  *)
THEOREM EvictedInTime == SessionSpec => []ExpiryKept
<1>1. ASSUME SessionInv PROVE ExpiryKept
  BY <1>1 DEF SessionInv, Tracked, ExpiryKept
<1> QED
  BY <1>1, SessionAssumption, SessionAlways, PTL

=============================================================================
