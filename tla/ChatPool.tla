------------------------------ MODULE ChatPool ------------------------------
(***************************************************************************)
(* main() of server/src/socket_server.cpp: the accepting thread, the       *)
(* queue client_queue, and THREAD_POOL_SIZE workers that wait on queue_cv. *)
(*                                                                         *)
(* Every critical section of queue_mtx is one step; notify_one is called   *)
(* after the section that pushes, so it is a step of its own.  Nothing     *)
(* sets server_running to false before a failed accept ends the process    *)
(* with exit(), so the tests of it and lines 102-107 never have an effect. *)
(***************************************************************************)
EXTENDS Naturals, Sequences, FiniteSets

CONSTANTS Conn,     \* connections, each accepted at most once
          Worker,   \* the threads of thread_pool
          None

ASSUME WorkerAssumption == IsFiniteSet(Worker)
ASSUME NoneAssumption == None \notin Conn

VARIABLES
    main,           \* control point of the accepting thread
    client_socket,  \* what accept returned, until it is in the queue
    accepted,       \* connections that accept has returned so far
    client_queue,
    pc,             \* Worker -> "ready" to lock queue_mtx, "waiting" on queue_cv, "serving"
    client,         \* Worker -> the connection handle_connection was called with
    up

vars == <<main, client_socket, accepted, client_queue, pc, client, up>>

At(l) == {w \in Worker : pc[w] = l}
Queued == {client_queue[i] : i \in 1 .. Len(client_queue)}

TypeOK ==
    /\ main \in {"accept", "push", "notify"}
    /\ client_socket \in Conn \cup {None}
    /\ (main = "push") <=> (client_socket # None)
    /\ accepted \in SUBSET Conn
    /\ client_queue \in Seq(Conn)
    /\ pc \in [Worker -> {"ready", "waiting", "serving"}]
    /\ client \in [Worker -> Conn \cup {None}]
    /\ \A w \in Worker : (pc[w] = "serving") <=> (client[w] # None)
    /\ up \in BOOLEAN

Init ==
    /\ main = "accept" /\ client_socket = None
    /\ accepted = {}
    /\ client_queue = <<>>
    /\ pc = [w \in Worker |-> "ready"]
    /\ client = [w \in Worker |-> None]
    /\ up = TRUE

-----------------------------------------------------------------------------
(* The accepting thread.                                                   *)

Accept(c) ==
    /\ up /\ main = "accept" /\ c \notin accepted
    /\ accepted' = accepted \cup {c}
    /\ client_socket' = c
    /\ main' = "push"
    /\ UNCHANGED <<client_queue, pc, client, up>>

\* handle_error("accept() failed!") ends the process, e.g. when descriptors run out
AcceptFails ==
    /\ up /\ main = "accept"
    /\ up' = FALSE
    /\ UNCHANGED <<main, client_socket, accepted, client_queue, pc, client>>

\* a mutant of Push: the call of notify_one is saved when others wait in line already
PushQuietly ==
    /\ up /\ main = "push"
    /\ client_queue' = Append(client_queue, client_socket)
    /\ client_socket' = None
    /\ main' = IF client_queue = <<>> THEN "notify" ELSE "accept"
    /\ UNCHANGED <<accepted, pc, client, up>>

Push ==
    /\ up /\ main = "push"
    /\ client_queue' = Append(client_queue, client_socket)
    /\ client_socket' = None
    /\ main' = "notify"
    /\ UNCHANGED <<accepted, pc, client, up>>

NotifyOne ==
    /\ up /\ main = "notify"
    /\ main' = "accept"
    /\ IF At("waiting") = {}
       THEN UNCHANGED pc
       ELSE \E w \in At("waiting") : pc' = [pc EXCEPT ![w] = "ready"]
    /\ UNCHANGED <<client_socket, accepted, client_queue, client, up>>

-----------------------------------------------------------------------------
(* A worker.                                                               *)

SpuriousWakeup(w) ==
    /\ up /\ pc[w] = "waiting"
    /\ pc' = [pc EXCEPT ![w] = "ready"]
    /\ UNCHANGED <<main, client_socket, accepted, client_queue, client, up>>

\* a mutant of Wait: no predicate to test again, and client is still -1
WaitOnce(w) ==
    /\ up /\ pc[w] = "ready" /\ client_queue = <<>>
    /\ pc' = [pc EXCEPT ![w] = "serving"]
    /\ UNCHANGED <<main, client_socket, accepted, client_queue, client, up>>

Wait(w) ==
    /\ up /\ pc[w] = "ready" /\ client_queue = <<>>
    /\ pc' = [pc EXCEPT ![w] = "waiting"]
    /\ UNCHANGED <<main, client_socket, accepted, client_queue, client, up>>

\* a mutant of Take: the newest connection first
TakeNewest(w) ==
    /\ up /\ pc[w] = "ready" /\ client_queue # <<>>
    /\ client' = [client EXCEPT ![w] = client_queue[Len(client_queue)]]
    /\ client_queue' = SubSeq(client_queue, 1, Len(client_queue) - 1)
    /\ pc' = [pc EXCEPT ![w] = "serving"]
    /\ UNCHANGED <<main, client_socket, accepted, up>>

\* a mutant of Take: front() without pop()
TakeAndKeep(w) ==
    /\ up /\ pc[w] = "ready" /\ client_queue # <<>>
    /\ client' = [client EXCEPT ![w] = Head(client_queue)]
    /\ pc' = [pc EXCEPT ![w] = "serving"]
    /\ UNCHANGED <<main, client_socket, accepted, client_queue, up>>

Take(w) ==
    /\ up /\ pc[w] = "ready" /\ client_queue # <<>>
    /\ client' = [client EXCEPT ![w] = Head(client_queue)]
    /\ client_queue' = Tail(client_queue)
    /\ pc' = [pc EXCEPT ![w] = "serving"]
    /\ UNCHANGED <<main, client_socket, accepted, up>>

\* handle_connection returns
Return(w) ==
    /\ up /\ pc[w] = "serving"
    /\ pc' = [pc EXCEPT ![w] = "ready"]
    /\ client' = [client EXCEPT ![w] = None]
    /\ UNCHANGED <<main, client_socket, accepted, client_queue, up>>

\* SIGPIPE, or an exception (stoi of no number) that leaves the thread's function
Die(w) ==
    /\ up /\ pc[w] = "serving"
    /\ up' = FALSE
    /\ UNCHANGED <<main, client_socket, accepted, client_queue, pc, client>>

Acceptor == (\E c \in Conn : Accept(c)) \/ AcceptFails \/ Push \/ NotifyOne
Work(w) == Take(w) \/ Wait(w) \/ SpuriousWakeup(w) \/ Return(w) \/ Die(w)

Next == Acceptor \/ \E w \in Worker : Work(w)

Spec == Init /\ [][Next]_vars

(* A thread that is in main's loop or wants queue_mtx goes on. Clients     *)
(* need not connect or hang up, and no wake-up need be spurious.           *)
Fairness ==
    /\ WF_vars(Push) /\ WF_vars(NotifyOne)
    /\ \A w \in Worker : WF_vars(Take(w) \/ Wait(w))

FairSpec == Spec /\ Fairness

-----------------------------------------------------------------------------
(* Each queued connection has a thread on its way to it before any thread  *)
(* sleeps: one that is going to test the queue, or the notify_one that     *)
(* main is about to call. A wake-up lost between push and wait breaks it.  *)
NoneStranded ==
    At("waiting") # {} =>
        Len(client_queue) <= Cardinality(At("ready")) + IF main = "notify" THEN 1 ELSE 0

(* A connection is in one place: with main, once in the queue or with one  *)
(* worker. ChatServer relies on it: one handler per connection.            *)
OneHandler ==
    /\ \A w, x \in Worker : w # x /\ client[w] # None => client[w] # client[x]
    /\ \A w \in Worker : client[w] \notin Queued
    /\ \A i, j \in 1 .. Len(client_queue) : i # j => client_queue[i] # client_queue[j]
    /\ client_socket \notin Queued
    /\ \A w \in Worker : client_socket # None => client_socket # client[w]

(* The pool implements the first-come-first-served line of FifoService,    *)
(* its progress included: a waiting connection never meets a free worker   *)
(* that sleeps on.                                                         *)
Service == INSTANCE FifoService WITH
    arrived <- accepted \ {client_socket},
    waiting <- client_queue,
    slot <- client,
    running <- up,
    Slot <- Worker

FirstComeFirstServed == Service!Spec
=============================================================================
