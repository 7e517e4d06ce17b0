---------------------------- MODULE LegacyServer ----------------------------
(***************************************************************************)
(* server/src/server.cpp, the server that socket_server.cpp replaced: one  *)
(* detached thread per connection and one mutex, mtx, for all the tables.  *)
(*                                                                         *)
(* Every case but '7' runs inside mtx, so a message is two steps: Recv and *)
(* then its case, which waits for the lock.  get_name_from_socket does not *)
(* test whether it found anything; where it did not, it dereferences       *)
(* end(), and the process dies.                                            *)
(***************************************************************************)
EXTENDS Naturals, FiniteSets

CONSTANTS Conn,         \* the connections that clients open, each at most once
          Name, Fd,     \* nicknames, descriptor numbers
          Room,         \* room numbers in range
          Length,       \* bound on the messages of one client
          None, Absent  \* no connection; no such key in client_sockets

ASSUME LegacyFd == Fd \subseteq Nat \ {0}
ASSUME LegacyNull == None \notin Conn \cup Name /\ Absent \notin Fd \cup {0}
ASSUME LegacyLength == Length \in Nat

Ops == {"msg", "login", "leaveApp", "join", "deny", "leaveRoom", "broadcast"}

VARIABLES open, fd, gone, sent,             \* kernel and clients, as in ChatServer
          pc, msg,                          \* a thread and the message it has read
          client_sockets, first, active_sockets,    \* rooms[r].second stays 0: see Join
          up                                \* FALSE once the process has died

kernel == <<open, fd, gone, sent>>
tables == <<client_sockets, first, active_sockets>>
vars   == <<kernel, pc, msg, tables, up>>

Message == [op: Ops \cup {"none"}, name: Name \cup {None}, room: Room \cup {0}]
Nothing == [op |-> "none", name |-> None, room |-> 0]

TypeOK ==
    /\ open \in [Fd -> Conn \cup {None}]
    /\ fd \in [Conn -> Fd \cup {0}]
    /\ gone \in SUBSET Conn
    /\ sent \in [Conn -> 0 .. Length]
    /\ pc \in [Conn -> {"new", "recv", "case", "lookup", "close", "done"}]
    /\ msg \in [Conn -> Message]
    /\ client_sockets \in [Name -> Fd \cup {0, Absent}]
    /\ first \in [Room -> Fd \cup {0}]
    /\ active_sockets \in SUBSET (Fd \cup {0})
    /\ up \in BOOLEAN

Init ==
    /\ open = [f \in Fd |-> None]
    /\ fd = [c \in Conn |-> 0]
    /\ gone = {}
    /\ sent = [c \in Conn |-> 0]
    /\ pc = [c \in Conn |-> "new"]
    /\ msg = [c \in Conn |-> Nothing]
    /\ client_sockets = [n \in Name |-> Absent]
    /\ first = [r \in Room |-> 0]
    /\ active_sockets = {0}                 \* ten of them
    /\ up = TRUE

-----------------------------------------------------------------------------
Goto(c, l) == pc' = [pc EXCEPT ![c] = l]
NamesOf(f) == {n \in Name : client_sockets[n] = f}

\* a send to each of a set of descriptors: SIGPIPE may end the process
Send(S) == up' \in IF \E f \in S \cap Fd : open[f] \in gone THEN BOOLEAN ELSE {TRUE}

(* Whether the process survives a case: a name that is not found ends it,  *)
(* a change of the map while '7' searches it with no lock may.             *)
Survive(found, changed) ==
    up' \in IF ~found THEN {FALSE}
           ELSE IF changed /\ \E d \in Conn : pc[d] = "lookup" THEN BOOLEAN ELSE {TRUE}

Accept(c) ==
    /\ up /\ pc[c] = "new"
    /\ \E f \in Fd :
          /\ open[f] = None
          /\ \A g \in Fd : g < f => open[g] # None
          /\ open' = [open EXCEPT ![f] = c]
          /\ fd' = [fd EXCEPT ![c] = f]
    /\ Goto(c, "recv")
    /\ UNCHANGED <<gone, sent, msg, tables, up>>

ClientClose(c) ==
    /\ up /\ c \notin gone
    /\ \E f \in Fd : open[f] = c
    /\ gone' = gone \cup {c}
    /\ UNCHANGED <<open, fd, sent, pc, msg, tables, up>>

\* one message of whoever the number belongs to by now
Recv(c) ==
    /\ up /\ pc[c] = "recv"
    /\ LET d == open[fd[c]]
       IN  /\ d # None
           /\ sent[d] < Length
           /\ sent' = [sent EXCEPT ![d] = @ + 1]
    /\ \E op \in Ops :
          /\ \E n \in IF op \in {"login", "join"} THEN Name ELSE {None},
                r \in IF op = "join" THEN Room ELSE IF op = "msg" THEN Room \cup {0} ELSE {0} :
                msg' = [msg EXCEPT ![c] = [op |-> op, name |-> n, room |-> r]]
          /\ Goto(c, IF op = "leaveRoom" THEN "lookup" ELSE "case")
    /\ UNCHANGED <<open, fd, gone, tables, up>>

Hangup(c) ==
    /\ up /\ pc[c] = "recv"
    /\ open[fd[c]] \in gone \cup {None}
    /\ Goto(c, "close")
    /\ UNCHANGED <<kernel, msg, tables, up>>

Close(c) ==
    /\ up /\ pc[c] = "close"
    /\ open' = [open EXCEPT ![fd[c]] = None]
    /\ Goto(c, "done")
    /\ UNCHANGED <<fd, gone, sent, msg, tables, up>>

-----------------------------------------------------------------------------
(* The cases. Case(c, op) is the lock and the switch.                      *)

Case(c, op) ==
    /\ up /\ pc[c] = "case" /\ msg[c].op = op
    /\ Goto(c, "recv")
    /\ msg' = [msg EXCEPT ![c] = Nothing]
    /\ UNCHANGED <<fd, gone, sent>>

\* '1': to whoever sits in the room the message names, or "Invalid room number."
Relay(c) ==
    /\ Case(c, "msg")
    /\ Send(IF msg[c].room = 0 THEN {fd[c]} ELSE {first[msg[c].room]} \ {fd[c]})
    /\ UNCHANGED <<open, tables>>

(* '2': add_socket_name closes a client whose nickname exists, but the     *)
(* case goes on: the number is listed, its name is looked up for the log,  *)
(* and the thread will read the number again.                              *)
Login(c) ==
    /\ Case(c, "login")
    /\ LET n == msg[c].name
           free == client_sockets[n] = Absent
       IN  /\ client_sockets' = IF free THEN [client_sockets EXCEPT ![n] = fd[c]]
                                        ELSE client_sockets
           /\ open' = IF free THEN open ELSE [open EXCEPT ![fd[c]] = None]
           /\ Survive(free \/ NamesOf(fd[c]) # {}, free)
    /\ active_sockets' = active_sockets \cup {fd[c]}
    /\ UNCHANGED first

\* a mutant of LeaveApp: the leaver's seats are kept
LeaveAppSeated(c) ==
    /\ Case(c, "leaveApp")
    /\ Survive(NamesOf(fd[c]) # {}, TRUE)
    /\ \E n \in NamesOf(fd[c]) \cup {None} :
          client_sockets' = [m \in Name |-> IF m = n THEN Absent ELSE client_sockets[m]]
    /\ active_sockets' = active_sockets \ {fd[c]}
    /\ open' = [open EXCEPT ![fd[c]] = None]
    /\ UNCHANGED first

\* '3': a name bound to the number, any one, and every seat and entry of the number
LeaveApp(c) ==
    /\ Case(c, "leaveApp")
    /\ Survive(NamesOf(fd[c]) # {}, TRUE)
    /\ \E n \in NamesOf(fd[c]) \cup {None} :
          /\ n = None => NamesOf(fd[c]) = {}
          /\ client_sockets' = [m \in Name |-> IF m = n THEN Absent ELSE client_sockets[m]]
    /\ first' = [r \in Room |-> IF first[r] = fd[c] THEN 0 ELSE first[r]]
    /\ active_sockets' = active_sockets \ {fd[c]}
    /\ open' = [open EXCEPT ![fd[c]] = None]

\* a mutant of Join: find() instead of operator[] for the nickname
JoinFind(c) ==
    /\ Case(c, "join")
    /\ LET r == msg[c].room
           f == client_sockets[msg[c].name]
       IN  first' = IF first[r] = 0 THEN [first EXCEPT ![r] = f] ELSE first
    /\ UNCHANGED <<open, client_sockets, active_sockets, up>>

(* '4': the number bound to the nickname in the message is seated, if the  *)
(* first seat is free; get_socket_from_name is operator[] and inserts 0    *)
(* for a name that is not there. With the first seat taken its holder's    *)
(* name is looked up for the log, and the second seat is left free.        *)
Join(c) ==
    /\ Case(c, "join")
    /\ LET n == msg[c].name
           r == msg[c].room
           f == IF client_sockets[n] = Absent THEN 0 ELSE client_sockets[n]
       IN  /\ client_sockets' = [client_sockets EXCEPT ![n] = f]
           /\ first' = IF first[r] = 0 THEN [first EXCEPT ![r] = f] ELSE first
           /\ Survive(first[r] = 0 \/ NamesOf(first[r]) # {}, client_sockets[n] = Absent)
    /\ UNCHANGED <<open, active_sockets>>

Deny(c) == Case(c, "deny") /\ Send({fd[c]}) /\ UNCHANGED <<open, tables>>

Broadcast(c) ==
    /\ Case(c, "broadcast")
    /\ Send(active_sockets \ {fd[c]})
    /\ UNCHANGED <<open, tables>>

\* '7', with no lock: only a look-up
LeaveRoom(c) ==
    /\ up /\ pc[c] = "lookup"
    /\ Goto(c, "recv")
    /\ msg' = [msg EXCEPT ![c] = Nothing]
    /\ up' = (NamesOf(fd[c]) # {})
    /\ UNCHANGED <<kernel, tables>>

Socket(c) == Accept(c) \/ ClientClose(c) \/ Recv(c) \/ Hangup(c) \/ Close(c)
Switch(c) == \/ Relay(c) \/ Login(c) \/ LeaveApp(c) \/ Join(c)
             \/ Deny(c) \/ Broadcast(c) \/ LeaveRoom(c)

Next == \E c \in Conn : Socket(c) \/ Switch(c)

Spec == Init /\ [][Next]_vars

-----------------------------------------------------------------------------
(* Every descriptor in a seat or in active_sockets is bound to a nickname, *)
(* whatever clients send, wherever connections break off and however the   *)
(* kernel reuses numbers: get_name_from_socket in case '4', which looks    *)
(* for the holder of a seat, never dereferences end().                     *)
ListedIsNamed ==
    up => \A f \in active_sockets \cup {first[r] : r \in Room} : f # 0 => NamesOf(f) # {}
=============================================================================
