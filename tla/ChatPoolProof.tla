---------------------------- MODULE ChatPoolProof ----------------------------
(***************************************************************************)
(* Proofs about ChatPool for every set of connections and every finite     *)
(* set of workers.                                                         *)
(***************************************************************************)
EXTENDS ChatPool, FiniteSetTheorems, TLAPS

-----------------------------------------------------------------------------
(* Typing.                                                                 *)

(* The queue holds connections, and a worker none or one of them.          *)
THEOREM Typing == Spec => []TypeOK
<1>1. Init => TypeOK
  BY DEF Init, TypeOK
<1>2. TypeOK /\ [Next]_vars => TypeOK'
  <2> SUFFICES ASSUME TypeOK, [Next]_vars PROVE TypeOK'
    OBVIOUS
  <2> USE NoneAssumption DEF TypeOK
  <2>1. ASSUME NEW c \in Conn, Accept(c) PROVE TypeOK'
    BY <2>1 DEF Accept
  <2>2. CASE AcceptFails
    BY <2>2 DEF AcceptFails
  <2>3. CASE Push
    BY <2>3 DEF Push
  <2>4. CASE NotifyOne
    BY <2>4 DEF NotifyOne, At
  <2>5. ASSUME NEW w \in Worker, Take(w) PROVE TypeOK'
    <3>1. Head(client_queue) \in Conn /\ Tail(client_queue) \in Seq(Conn)
      BY <2>5 DEF Take
    <3>2. QED
      BY <2>5, <3>1 DEF Take
  <2>6. ASSUME NEW w \in Worker, Wait(w) PROVE TypeOK'
    BY <2>6 DEF Wait
  <2>7. ASSUME NEW w \in Worker, SpuriousWakeup(w) PROVE TypeOK'
    BY <2>7 DEF SpuriousWakeup
  <2>8. ASSUME NEW w \in Worker, Return(w) PROVE TypeOK'
    BY <2>8 DEF Return
  <2>9. ASSUME NEW w \in Worker, Die(w) PROVE TypeOK'
    BY <2>9 DEF Die
  <2>10. CASE UNCHANGED vars
    BY <2>10 DEF vars
  <2>11. QED
    BY <2>1, <2>2, <2>3, <2>4, <2>5, <2>6, <2>7, <2>8, <2>9, <2>10
    DEF Next, Acceptor, Work
<1>3. QED
  BY <1>1, <1>2, PTL DEF Spec

-----------------------------------------------------------------------------
(* No wake-up is lost.  NoneStranded is inductive: a worker goes to sleep  *)
(* only when the queue is empty, and from then on every push is followed   *)
(* by a notify_one that turns a sleeper, if there is one, into a ready     *)
(* worker; taking an element costs one ready worker and one element.       *)

LEMMA ReadyIsFinite ==
  IsFiniteSet(At("ready")) /\ Cardinality(At("ready")) \in Nat
BY WorkerAssumption, FS_Subset, FS_CardinalityType DEF At

LEMMA ReadyGains ==
  ASSUME TypeOK, NEW w \in Worker, pc[w] # "ready", pc' = [pc EXCEPT ![w] = "ready"]
  PROVE  Cardinality(At("ready")') = Cardinality(At("ready")) + 1
<1>1. At("ready")' = At("ready") \cup {w} /\ w \notin At("ready")
  BY DEF At, TypeOK
<1>2. QED
  BY <1>1, ReadyIsFinite, FS_AddElement

LEMMA ReadyLoses ==
  ASSUME TypeOK, NEW w \in Worker, pc[w] = "ready",
         NEW l \in {"waiting", "serving"}, pc' = [pc EXCEPT ![w] = l]
  PROVE  Cardinality(At("ready")') = Cardinality(At("ready")) - 1
<1>1. At("ready")' = At("ready") \ {w} /\ w \in At("ready")
  BY DEF At, TypeOK
<1>2. QED
  BY <1>1, ReadyIsFinite, FS_RemoveElement

(* Every queued connection has a thread on its way to it, for any number   *)
(* of workers and connections and any spurious wake-ups.                   *)
THEOREM WakeupsSuffice == Spec => []NoneStranded
<1>1. Init => NoneStranded
  BY DEF Init, NoneStranded, At
<1>2. TypeOK /\ NoneStranded /\ [Next]_vars => NoneStranded'
  <2> SUFFICES ASSUME TypeOK, NoneStranded, [Next]_vars, At("waiting")' # {}
               PROVE  Len(client_queue') <= Cardinality(At("ready")')
                                             + IF main' = "notify" THEN 1 ELSE 0
    BY DEF NoneStranded
  <2> DEFINE Idle == At("waiting")
             Ready == Cardinality(At("ready"))
             Pending == IF main = "notify" THEN 1 ELSE 0
  <2>1. Ready \in Nat /\ Len(client_queue) \in Nat
    BY ReadyIsFinite DEF TypeOK
  <2>2. Idle # {} => Len(client_queue) <= Ready + Pending
    BY DEF NoneStranded
  <2>3. ASSUME UNCHANGED pc PROVE At("waiting")' = At("waiting") /\ At("ready")' = At("ready")
    BY <2>3 DEF At
  <2>4. ASSUME NEW c \in Conn, Accept(c) PROVE Len(client_queue') <= Ready' + Pending'
    BY <2>1, <2>2, <2>3, <2>4 DEF Accept
  <2>5. CASE AcceptFails \/ UNCHANGED vars
    BY <2>1, <2>2, <2>3, <2>5 DEF AcceptFails, vars
  <2>6. CASE Push
    <3>1. Len(client_queue') = Len(client_queue) + 1 /\ Pending' = 1 /\ Pending = 0
      BY <2>6 DEF Push, TypeOK
    <3>2. QED
      BY <2>1, <2>2, <2>3, <2>6, <3>1 DEF Push
  <2>7. CASE NotifyOne
    <3>1. Pending = 1 /\ Pending' = 0 /\ client_queue' = client_queue
      BY <2>7 DEF NotifyOne
    <3>2. Idle # {}
      BY <2>3, <2>7 DEF NotifyOne
    <3>3. PICK w \in Idle : pc' = [pc EXCEPT ![w] = "ready"]
      BY <2>7, <3>2 DEF NotifyOne
    <3>4. Ready' = Ready + 1
      BY <3>3, ReadyGains DEF At
    <3>5. QED
      BY <2>1, <2>2, <3>1, <3>2, <3>4
  <2>8. ASSUME NEW w \in Worker, Take(w) PROVE Len(client_queue') <= Ready' + Pending'
    <3>1. Len(client_queue') = Len(client_queue) - 1 /\ Pending' = Pending
      BY <2>8 DEF Take, TypeOK
    <3>2. Ready' = Ready - 1
      BY <2>8, ReadyLoses DEF Take
    <3>3. Idle # {}
      BY <2>8 DEF Take, At, TypeOK
    <3>4. QED
      BY <2>1, <2>2, <3>1, <3>2, <3>3
  <2>9. ASSUME NEW w \in Worker, Wait(w) PROVE Len(client_queue') <= Ready' + Pending'
    <3>1. Len(client_queue') = 0
      BY <2>9 DEF Wait
    <3>2. Ready' = Ready - 1 /\ w \in At("ready")
      BY <2>9, ReadyLoses DEF Wait, At
    <3>3. Ready # 0
      BY <3>2, ReadyIsFinite, FS_EmptySet
    <3>4. QED
      BY <2>1, <3>1, <3>2, <3>3
  <2>10. ASSUME NEW w \in Worker, SpuriousWakeup(w) PROVE Len(client_queue') <= Ready' + Pending'
    <3>1. Ready' = Ready + 1 /\ w \in Idle
      BY <2>10, ReadyGains DEF SpuriousWakeup, At
    <3>2. QED
      BY <2>1, <2>2, <2>10, <3>1 DEF SpuriousWakeup
  <2>11. ASSUME NEW w \in Worker, Return(w) PROVE Len(client_queue') <= Ready' + Pending'
    <3>1. Ready' = Ready + 1
      BY <2>11, ReadyGains DEF Return
    <3>2. Idle # {}
      BY <2>11 DEF Return, At, TypeOK
    <3>3. QED
      BY <2>1, <2>2, <2>11, <3>1, <3>2 DEF Return
  <2>12. ASSUME NEW w \in Worker, Die(w) PROVE Len(client_queue') <= Ready' + Pending'
    BY <2>1, <2>2, <2>3, <2>12 DEF Die
  <2>13. QED
    BY <2>4, <2>5, <2>6, <2>7, <2>8, <2>9, <2>10, <2>11, <2>12 DEF Next, Acceptor, Work
<1>3. QED
  BY <1>1, <1>2, Typing, PTL DEF Spec

-----------------------------------------------------------------------------
(* One handler per connection.  OneHandler alone is not inductive: that a  *)
(* connection just accepted is nowhere else follows from Accounted, every  *)
(* connection in sight having been accepted before.                        *)

Accounted ==
    /\ client_socket \in accepted \cup {None}
    /\ Queued \subseteq accepted
    /\ \A w \in Worker : client[w] \in accepted \cup {None}

InOnePlace == TypeOK /\ Accounted /\ OneHandler

LEMMA QueuedByPush ==
  ASSUME TypeOK, Push PROVE Queued' = Queued \cup {client_socket}
<1>1. client_socket \in Conn
  BY NoneAssumption DEF Push, TypeOK
<1>2. /\ Len(client_queue') = Len(client_queue) + 1
      /\ client_queue'[Len(client_queue) + 1] = client_socket
      /\ \A i \in 1 .. Len(client_queue) : client_queue'[i] = client_queue[i]
  BY <1>1 DEF Push, TypeOK
<1>3. QED
  BY <1>2 DEF Queued, TypeOK

LEMMA QueuedByTake ==
  ASSUME TypeOK, OneHandler, NEW w \in Worker, Take(w)
  PROVE  /\ Len(client_queue') = Len(client_queue) - 1
         /\ \A i \in 1 .. Len(client_queue') : client_queue'[i] = client_queue[i + 1]
         /\ client'[w] = client_queue[1]
         /\ client'[w] \in Queued /\ client'[w] \in Conn
         /\ Queued' = Queued \ {client'[w]}
<1>1. /\ Len(client_queue') = Len(client_queue) - 1
      /\ \A i \in 1 .. Len(client_queue') : client_queue'[i] = client_queue[i + 1]
      /\ client'[w] = client_queue[1]
  BY DEF Take, TypeOK
<1>2. Len(client_queue) \in Nat \ {0} /\ client_queue[1] \in Conn
  BY DEF Take, TypeOK
<1>3. client'[w] \in Queued /\ client'[w] \in Conn
  BY <1>1, <1>2 DEF Queued
<1>4. Queued' = Queued \ {client'[w]}
  <2>1. \A x : x \in Queued' => x \in Queued /\ x # client'[w]
    BY <1>1, <1>2 DEF Queued, OneHandler
  <2>2. \A x : x \in Queued /\ x # client'[w] => x \in Queued'
    <3> SUFFICES ASSUME NEW i \in 1 .. Len(client_queue), client_queue[i] # client'[w]
                 PROVE  client_queue[i] \in Queued'
      BY DEF Queued
    <3>1. i # 1 /\ i - 1 \in 1 .. Len(client_queue')
      BY <1>1, <1>2
    <3>2. client_queue'[i - 1] = client_queue[i]
      BY <1>1, <1>2, <3>1
    <3>3. QED
      BY <3>1, <3>2 DEF Queued
  <2>3. QED
    BY <2>1, <2>2
<1>5. QED
  BY <1>1, <1>3, <1>4

LEMMA StaysInOnePlace == InOnePlace /\ TypeOK' /\ [Next]_vars => InOnePlace'
<1> SUFFICES ASSUME InOnePlace, TypeOK', [Next]_vars PROVE Accounted' /\ OneHandler'
  BY DEF InOnePlace
<1> USE NoneAssumption
<1>1. TypeOK /\ Accounted /\ OneHandler
  BY DEF InOnePlace
<1>2. ASSUME NEW c \in Conn, Accept(c) PROVE Accounted' /\ OneHandler'
  <2>1. Queued' = Queued /\ client' = client /\ client_queue' = client_queue
    BY <1>2 DEF Accept, Queued
  <2>2. c \notin Queued /\ \A w \in Worker : client[w] # c
    BY <1>1, <1>2 DEF Accept, Accounted
  <2>3. QED
    BY <1>1, <1>2, <2>1, <2>2 DEF Accept, Accounted, OneHandler
<1>3. CASE AcceptFails \/ NotifyOne \/ UNCHANGED vars
  <2>1. UNCHANGED <<client_socket, accepted, client_queue, client>>
    BY <1>3 DEF AcceptFails, NotifyOne, vars
  <2>2. QED
    BY <1>1, <2>1 DEF Accounted, OneHandler, Queued
<1>4. CASE Push
  <2>1. Queued' = Queued \cup {client_socket}
    BY <1>1, <1>4, QueuedByPush
  <2>2. client_socket \in Conn /\ client_socket' = None /\ UNCHANGED <<accepted, client>>
    BY <1>1, <1>4 DEF Push, TypeOK
  <2>3. Accounted'
    BY <1>1, <2>1, <2>2 DEF Accounted
  <2>4. \A i, j \in 1 .. Len(client_queue') : i # j => client_queue'[i] # client_queue'[j]
    BY <1>1, <1>4 DEF Push, TypeOK, OneHandler, Queued
  <2>5. None \notin Queued'
    BY DEF TypeOK, Queued
  <2>6. QED
    BY <1>1, <2>1, <2>2, <2>3, <2>4, <2>5 DEF OneHandler
<1>5. ASSUME NEW w \in Worker, Take(w) PROVE Accounted' /\ OneHandler'
  <2>1. /\ Len(client_queue') = Len(client_queue) - 1
        /\ \A i \in 1 .. Len(client_queue') : client_queue'[i] = client_queue[i + 1]
        /\ client'[w] \in Queued /\ client'[w] \in Conn
        /\ Queued' = Queued \ {client'[w]}
    BY <1>1, <1>5, QueuedByTake
  <2>2. \A x \in Worker : x # w => client'[x] = client[x]
    BY <1>1, <1>5 DEF Take, TypeOK
  <2>3. UNCHANGED <<client_socket, accepted>>
    BY <1>5 DEF Take
  <2>4. Accounted'
    BY <1>1, <2>1, <2>2, <2>3 DEF Accounted
  <2>5. Len(client_queue) \in Nat
    BY <1>1 DEF TypeOK
  <2>6. \A i, j \in 1 .. Len(client_queue') : i # j => client_queue'[i] # client_queue'[j]
    BY <1>1, <2>1, <2>5 DEF OneHandler
  <2>7. \A x \in Worker : client'[x] \notin Queued'
    BY <1>1, <2>1, <2>2 DEF OneHandler
  <2>8. \A x, y \in Worker : x # y /\ client'[x] # None => client'[x] # client'[y]
    BY <1>1, <2>1, <2>2 DEF OneHandler
  <2>9. QED
    BY <1>1, <2>1, <2>2, <2>3, <2>4, <2>6, <2>7, <2>8 DEF OneHandler
<1>6. ASSUME NEW w \in Worker, Return(w) PROVE Accounted' /\ OneHandler'
  <2>1. client'[w] = None /\ \A x \in Worker : x # w => client'[x] = client[x]
    BY <1>1, <1>6 DEF Return, TypeOK
  <2>2. UNCHANGED <<client_socket, accepted, client_queue>> /\ Queued' = Queued
    BY <1>6 DEF Return, Queued
  <2>3. None \notin Queued
    BY <1>1 DEF TypeOK, Queued
  <2>4. QED
    BY <1>1, <2>1, <2>2, <2>3 DEF Accounted, OneHandler
<1>7. ASSUME NEW w \in Worker, Wait(w) \/ SpuriousWakeup(w) \/ Die(w)
      PROVE  Accounted' /\ OneHandler'
  <2>1. UNCHANGED <<client_socket, accepted, client_queue, client>>
    BY <1>7 DEF Wait, SpuriousWakeup, Die
  <2>2. QED
    BY <1>1, <2>1 DEF Accounted, OneHandler, Queued
<1>8. QED
  BY <1>2, <1>3, <1>4, <1>5, <1>6, <1>7 DEF Next, Acceptor, Work

LEMMA InOnePlaceAlways == Spec => []InOnePlace
<1>1. Init => TypeOK /\ Accounted /\ OneHandler
  BY NoneAssumption DEF Init, TypeOK, Accounted, OneHandler, Queued
<1>2. Init => InOnePlace
  BY <1>1 DEF InOnePlace
<1>3. QED
  BY <1>2, StaysInOnePlace, Typing, PTL DEF Spec

(* No connection is ever handed to two workers, or to one worker twice.    *)
THEOREM HandledOnce == Spec => []OneHandler
<1>1. InOnePlace => OneHandler
  BY DEF InOnePlace
<1>2. QED
  BY <1>1, InOnePlaceAlways, PTL

-----------------------------------------------------------------------------
(* Every step of the pool is a step of the first-come-first-served line or *)
(* leaves it as it is. (The progress that FifoService also promises is     *)
(* left to TLC.)                                                           *)
THEOREM ServesInOrder == Spec => Service!Init /\ [][Service!Next]_(Service!vars)
<1>1. Init => Service!Init
  BY DEF Init, Service!Init
<1>2. InOnePlace /\ [Next]_vars => [Service!Next]_(Service!vars)
  <2> SUFFICES ASSUME InOnePlace, [Next]_vars PROVE [Service!Next]_(Service!vars)
    OBVIOUS
  <2> USE NoneAssumption DEF Service!vars
  <2>1. TypeOK /\ Accounted
    BY DEF InOnePlace
  <2>2. ASSUME NEW c \in Conn, Accept(c) PROVE UNCHANGED Service!vars
    <3>1. client_socket = None /\ None \notin accepted /\ c \notin accepted
      BY <2>1, <2>2 DEF Accept, TypeOK
    <3>2. accepted' \ {client_socket'} = accepted \ {client_socket}
      BY <2>2, <3>1 DEF Accept
    <3>3. QED
      BY <2>2, <3>2 DEF Accept
  <2>3. CASE AcceptFails
    BY <2>3 DEF AcceptFails, Service!Next, Service!Stop
  <2>4. CASE Push
    <3>1. client_socket \in accepted /\ client_socket \in Conn /\ None \notin accepted
      BY <2>1, <2>4 DEF Push, TypeOK, Accounted
    <3>2. Service!Arrive(client_socket)
      BY <2>4, <3>1 DEF Push, Service!Arrive
    <3>3. QED
      BY <3>1, <3>2 DEF Service!Next
  <2>5. ASSUME NEW w \in Worker, Take(w) PROVE Service!Start(w)
    BY <2>1, <2>5 DEF Take, Service!Start, TypeOK
  <2>6. ASSUME NEW w \in Worker, Return(w) PROVE Service!Finish(w)
    BY <2>1, <2>6 DEF Return, Service!Finish, TypeOK
  <2>7. ASSUME NEW w \in Worker, Die(w) PROVE Service!Stop
    BY <2>7 DEF Die, Service!Stop
  <2>8. ASSUME NEW w \in Worker, Wait(w) \/ SpuriousWakeup(w) PROVE UNCHANGED Service!vars
    BY <2>8 DEF Wait, SpuriousWakeup
  <2>9. CASE NotifyOne \/ UNCHANGED vars
    BY <2>9 DEF NotifyOne, vars
  <2>10. QED
    BY <2>2, <2>3, <2>4, <2>5, <2>6, <2>7, <2>8, <2>9 DEF Next, Acceptor, Work, Service!Next
<1>3. QED
  BY <1>1, <1>2, InOnePlaceAlways, PTL DEF Spec
=============================================================================
