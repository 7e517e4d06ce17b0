----------------------------- MODULE FifoService -----------------------------
(***************************************************************************)
(* What the thread pool of socket_server.cpp promises: "FIRST COME FIRST   *)
(* SERVER QUEUE" (line 78).  Accepted connections wait in one line; the    *)
(* first of the line is served as soon as a slot is free, each connection  *)
(* once.  Nothing is said of threads, locks or wake-ups.                   *)
(***************************************************************************)
EXTENDS Sequences

CONSTANTS Conn, Slot, None

VARIABLES arrived,  \* connections that have entered the line
          waiting,  \* the line
          slot,     \* Slot -> the connection it serves, or None
          running   \* FALSE once the process has ended

vars == <<arrived, waiting, slot, running>>

Init ==
    /\ arrived = {}
    /\ waiting = <<>>
    /\ slot = [s \in Slot |-> None]
    /\ running = TRUE

Arrive(c) ==
    /\ running /\ c \notin arrived
    /\ arrived' = arrived \cup {c}
    /\ waiting' = Append(waiting, c)
    /\ UNCHANGED <<slot, running>>

Start(s) ==
    /\ running /\ waiting # <<>> /\ slot[s] = None
    /\ slot' = [slot EXCEPT ![s] = Head(waiting)]
    /\ waiting' = Tail(waiting)
    /\ UNCHANGED <<arrived, running>>

Finish(s) ==
    /\ running /\ slot[s] # None
    /\ slot' = [slot EXCEPT ![s] = None]
    /\ UNCHANGED <<arrived, waiting, running>>

Stop ==
    /\ running
    /\ running' = FALSE
    /\ UNCHANGED <<arrived, waiting, slot>>

Next ==
    \/ \E c \in Conn : Arrive(c)
    \/ \E s \in Slot : Start(s) \/ Finish(s)
    \/ Stop

(* A free slot and a waiting connection do not stay so for ever.           *)
Spec == Init /\ [][Next]_vars /\ WF_vars(\E s \in Slot : Start(s))
=============================================================================
