----------------------------- MODULE ChatServer -----------------------------
(***************************************************************************)
(* The connection handlers of the chat server: handle_connection and      *)
(* message_type_actions of server/src/socket_server.cpp over the shared    *)
(* state of server/src/logic.cpp.                                          *)
(*                                                                         *)
(* One handler runs per accepted connection (ChatPool models the pool it   *)
(* runs on).  A step is one critical section, one system call, or - where  *)
(* the code touches shared memory with no lock held - one memory access.   *)
(* room_mtx is only ever held inside a step; client_mtx is held across     *)
(* steps by a broadcast and is therefore a variable.                       *)
(***************************************************************************)
EXTENDS Naturals, Sequences, FiniteSets

CONSTANTS
    Conn,       \* the connections that clients may open, each at most once
    Name,       \* nicknames clients ask for
    Fd,         \* descriptor numbers the kernel can hand out
    NumRooms,   \* NUM_ROOMS
    RoomNo,     \* room numbers that clients put into '4' and '5' messages
    Script,     \* Script[k]: the operations a client's k-th message may ask for
    Abrupt,     \* may a client close before it has sent its whole script?
    Wild,       \* values of the word in front of the vector rooms
    None, NoName

Ops == {"msg", "login", "leaveApp", "join", "query", "leaveRoom", "broadcast"}

ASSUME FdAssumption == Fd \subseteq Nat \ {0}
ASSUME RoomAssumption == NumRooms \in Nat \ {0} /\ RoomNo \subseteq 0 .. NumRooms
ASSUME ScriptAssumption == Script \in Seq(SUBSET Ops) /\ Abrupt \in BOOLEAN
ASSUME WildAssumption == Wild \subseteq Nat
ASSUME NullAssumption == None \notin Conn /\ NoName \notin Name

VARIABLES
    open,           \* descriptor table: Fd -> the connection it refers to, or None
    fd,             \* the argument `socket` of the handler of a connection
    gone,           \* connections whose client has closed its end
    sent,           \* how many messages of a connection have been read
    pc, reg, out,   \* control point, locals and pending send_message calls of a handler
    client_sockets, \* Name -> descriptor, 0 where the map has no such key
    rooms,          \* rooms[r] is the code's rooms[r - 1]; rooms[0] is out of bounds
    active_sockets, \* the non-zero elements of the vector (order and copies abstracted)
    client_mtx,     \* the handler that holds client_mtx across steps, or None
    up,             \* FALSE once a signal or a heap error has ended the process
    names, joined   \* what clients were told: nicknames granted, rooms they are in

kernel == <<open, fd, gone, sent>>
shared == <<client_sockets, rooms, active_sockets, client_mtx>>
view   == <<names, joined>>
vars   == <<kernel, pc, reg, out, shared, up, view>>

Room  == 1 .. NumRooms
Word  == Fd \cup {0} \cup Wild
Seat  == [first: Word, second: Word]
Reply == [kind: {"line", "20", "21", "2", "3", "4", "5", "6"},
          name: Name \cup {NoName}, room: 0 .. NumRooms]
Label == {"new", "recv", "close", "done", "send", "getRoom", "getPeer", "getName",
          "add", "erase", "erase2", "closeFd", "check", "seat", "test", "vacate",
          "readOther", "writeSeat", "forget", "forget2", "lock", "loop"}

(* The locals of message_type_actions. `first`: the leaver sits first;     *)
(* `snap`: active_sockets when remove() or the broadcast began to walk it; *)
(* `todo`: the elements the broadcast has still to visit.                  *)
Locals == [op: Ops \cup {"none"}, name: Name \cup {NoName}, room: 0 .. NumRooms,
           other: Word, first: BOOLEAN, snap: SUBSET Fd, todo: SUBSET Fd]
Begin(op, n, r) == [op |-> op, name |-> n, room |-> r, other |-> 0, first |-> FALSE,
                    snap |-> {}, todo |-> {}]
Idle == Begin("none", NoName, 0)

TypeOK ==
    /\ open \in [Fd -> Conn \cup {None}]
    /\ fd \in [Conn -> Fd \cup {0}]
    /\ gone \in SUBSET Conn
    /\ sent \in [Conn -> 0 .. Len(Script)]
    /\ pc \in [Conn -> Label]
    /\ reg \in [Conn -> Locals]
    /\ out \in [Conn -> Seq(Word \X Reply)]
    /\ client_sockets \in [Name -> Fd \cup {0}]
    /\ rooms \in [0 .. NumRooms -> Seat]
    /\ active_sockets \in SUBSET Fd
    /\ client_mtx \in Conn \cup {None}
    /\ up \in BOOLEAN
    /\ names \in [Conn -> SUBSET Name]
    /\ joined \in [Conn -> SUBSET (0 .. NumRooms)]

Init ==
    /\ open = [f \in Fd |-> None]
    /\ fd = [c \in Conn |-> 0]
    /\ gone = {}
    /\ sent = [c \in Conn |-> 0]
    /\ pc = [c \in Conn |-> "new"]
    /\ reg = [c \in Conn |-> Idle]
    /\ out = [c \in Conn |-> <<>>]
    /\ client_sockets = [n \in Name |-> 0]
    /\ \E w \in Wild : rooms = [r \in 0 .. NumRooms |->
                                  [first |-> IF r = 0 THEN w ELSE 0, second |-> 0]]
    /\ active_sockets = {}
    /\ client_mtx = None
    /\ up = TRUE
    /\ names = [c \in Conn |-> {}]
    /\ joined = [c \in Conn |-> {}]

-----------------------------------------------------------------------------
(* Operators of logic.cpp.                                                 *)

Seated(s, r) == rooms[r].first = s \/ rooms[r].second = s

\* a mutant of RoomOf: a loop that falls off its end without `return 0`
RoomOfNoDefault(s) ==
    IF \E r \in Room : Seated(s, r) THEN CHOOSE r \in Room : Seated(s, r) ELSE NumRooms + 1

\* get_room: the lowest-numbered room the descriptor sits in, 0 for none
RoomOf(s) ==
    IF \E r \in Room : Seated(s, r)
    THEN CHOOSE r \in Room : Seated(s, r) /\ \A q \in Room : Seated(s, q) => r <= q
    ELSE 0

\* get_name_from_socket: a key bound to the descriptor (unordered_map: any), or ""
NamesOf(s) ==
    LET keys == {n \in Name : client_sockets[n] = s}
    IN  IF keys = {} THEN {NoName} ELSE keys

HasSpace(r) == rooms[r].first = 0 \/ rooms[r].second = 0        \* check_room > 0

-----------------------------------------------------------------------------
(* Control: At, Goto and Finish move a handler; To queues a send_message.  *)

At(c, l) == up /\ pc[c] = l
Goto(c, l) == pc' = [pc EXCEPT ![c] = l]
Free == client_mtx = None
To(s, k, n, r) == <<<<s, [kind |-> k, name |-> n, room |-> r]>>>>
Finish(c, msgs) == Goto(c, "send") /\ out' = [out EXCEPT ![c] = msgs]

(* send_message on descriptor s: lost when s is closed (EBADF); when the   *)
(* client has closed its end the bytes are lost and a reset may turn the   *)
(* send into SIGPIPE, which nothing in the program handles.                *)
Deliver(s, m) ==
    LET d == IF s \in Fd THEN open[s] ELSE None
    IN  IF d \in Conn \ gone
        THEN /\ names' = IF m.kind = "21" THEN [names EXCEPT ![d] = @ \cup {m.name}] ELSE names
             /\ joined' = [joined EXCEPT ![d] = IF m.kind = "2" THEN @ \cup {m.room}
                                                ELSE IF m.kind = "5" THEN @ \ {m.room} ELSE @]
             /\ up' = up
        ELSE /\ UNCHANGED view
             /\ up' \in IF d \in gone THEN BOOLEAN ELSE {up}

\* accept returns the lowest free descriptor and a pool thread enters handle_connection
Accept(c) ==
    /\ At(c, "new")
    /\ \E f \in Fd :
          /\ open[f] = None
          /\ \A g \in Fd : g < f => open[g] # None
          /\ open' = [open EXCEPT ![f] = c]
          /\ fd' = [fd EXCEPT ![c] = f]
    /\ Goto(c, "recv")
    /\ UNCHANGED <<gone, sent, reg, out, shared, up, view>>

\* the client closes its end of the connection
ClientClose(c) ==
    /\ up /\ c \notin gone
    /\ \E f \in Fd : open[f] = c
    /\ Abrupt \/ sent[c] = Len(Script)
    /\ gone' = gone \cup {c}
    /\ UNCHANGED <<open, fd, sent, pc, reg, out, shared, up, view>>

Entry == [msg |-> "getRoom", leaveRoom |-> "getRoom", login |-> "add", leaveApp |-> "getName",
          join |-> "check", query |-> "check", broadcast |-> "lock"]

(* recv on the descriptor, whichever connection it refers to by now. A     *)
(* message sent before the client closed is read before the end of file.   *)
Recv(c) ==
    /\ At(c, "recv")
    /\ LET d == open[fd[c]]
       IN  /\ d # None
           /\ sent[d] < Len(Script)
           /\ sent' = [sent EXCEPT ![d] = @ + 1]
           /\ \E op \in Script[sent[d] + 1] :
                 /\ \E n \in IF op = "login" THEN Name ELSE {NoName},
                       r \in IF op \in {"join", "query"} THEN RoomNo ELSE {0} :
                       reg' = [reg EXCEPT ![c] = Begin(op, n, r)]
                 /\ Goto(c, Entry[op])
    /\ UNCHANGED <<open, fd, gone, out, shared, up, view>>

\* a mutant of Hangup: the descriptor is closed here as well as at the end
HangupTwice(c) ==
    /\ At(c, "recv")
    /\ open[fd[c]] \in gone \cup {None}
    /\ open' = [open EXCEPT ![fd[c]] = None]
    /\ Goto(c, "close")
    /\ UNCHANGED <<fd, gone, sent, reg, out, shared, up, view>>

\* recv fails: end of file, or the descriptor is closed
Hangup(c) ==
    /\ At(c, "recv")
    /\ open[fd[c]] \in gone \cup {None}
    /\ Goto(c, "close")
    /\ UNCHANGED <<kernel, reg, out, shared, up, view>>

(* close(socket): in case '3' (the handler then goes back to recv) and at  *)
(* the end of handle_connection. It closes whatever the number refers to.  *)
Close(c) ==
    /\ At(c, "closeFd") \/ At(c, "close")
    /\ open' = [open EXCEPT ![fd[c]] = None]
    /\ Goto(c, IF pc[c] = "closeFd" THEN "recv" ELSE "done")
    /\ reg' = [reg EXCEPT ![c] = Idle]
    /\ UNCHANGED <<fd, gone, sent, out, shared, up, view>>

\* the next send_message of the handler, then back to recv
Send(c) ==
    /\ At(c, "send")
    /\ out[c] # <<>>
    /\ Deliver(Head(out[c])[1], Head(out[c])[2])
    /\ out' = [out EXCEPT ![c] = Tail(@)]
    /\ IF Len(out[c]) > 1
       THEN UNCHANGED <<pc, reg>>
       ELSE Goto(c, "recv") /\ reg' = [reg EXCEPT ![c] = Idle]
    /\ UNCHANGED <<kernel, shared>>

-----------------------------------------------------------------------------
(* Cases '1', '2', '3' and the look-ups they share with '7'.               *)

GetRoom(c) ==
    /\ At(c, "getRoom")
    /\ reg' = [reg EXCEPT ![c].room = RoomOf(fd[c])]
    /\ Goto(c, IF reg[c].op = "msg" THEN "getPeer" ELSE "getName")
    /\ UNCHANGED <<kernel, out, shared, up, view>>

\* rooms[room - 1] in case '1'; out of bounds when get_room returned 0
GetPeer(c) ==
    /\ At(c, "getPeer")
    /\ LET seat == rooms[reg[c].room]
       IN  reg' = [reg EXCEPT ![c].other = IF seat.first = fd[c] THEN seat.second ELSE seat.first]
    /\ Goto(c, "getName")
    /\ UNCHANGED <<kernel, out, shared, up, view>>

GetName(c) ==
    /\ At(c, "getName") /\ Free
    /\ \E n \in NamesOf(fd[c]) :
          /\ reg' = [reg EXCEPT ![c].name = n]
          /\ LET line(s) == To(s, "line", n, reg[c].room)
             IN  \/ reg[c].op = "leaveRoom" /\ Goto(c, "test") /\ UNCHANGED out
                 \/ reg[c].op = "leaveApp" /\ Goto(c, "erase") /\ UNCHANGED out
                 \/ /\ reg[c].op = "msg"
                    /\ Finish(c, line(fd[c]) \o
                                 IF reg[c].other # 0 THEN line(reg[c].other) ELSE <<>>)
    /\ UNCHANGED <<kernel, shared, up, view>>

\* a mutant of AddName: operator[] without the look-up before it
AddNameUnchecked(c) ==
    /\ At(c, "add") /\ Free
    /\ client_sockets' = [client_sockets EXCEPT ![reg[c].name] = fd[c]]
    /\ Finish(c, To(fd[c], "21", reg[c].name, 0))
    /\ UNCHANGED <<kernel, reg, rooms, active_sockets, client_mtx, up, view>>

\* add_socket_name and the answer to it
AddName(c) ==
    /\ At(c, "add") /\ Free
    /\ LET n == reg[c].name
       IN  IF client_sockets[n] # 0
           THEN Finish(c, To(fd[c], "20", n, 0)) /\ UNCHANGED client_sockets
           ELSE /\ client_sockets' = [client_sockets EXCEPT ![n] = fd[c]]
                /\ Finish(c, To(fd[c], "21", n, 0))
    /\ UNCHANGED <<kernel, reg, rooms, active_sockets, client_mtx, up, view>>

(* Case '3' erases the name, and then again in remove_client_from_map,     *)
(* each time in a critical section of its own; "" is nobody's key.         *)
EraseName(c) ==
    /\ At(c, "erase") \/ At(c, "erase2")
    /\ Free
    /\ client_sockets' = [n \in Name |-> IF n = reg[c].name THEN 0 ELSE client_sockets[n]]
    /\ Goto(c, IF pc[c] = "erase" THEN "erase2" ELSE "closeFd")
    /\ UNCHANGED <<kernel, reg, out, rooms, active_sockets, client_mtx, up, view>>

-----------------------------------------------------------------------------
(* Cases '4' and '5'. check_room and the seating are two critical sections.*)

CheckRoom(c) ==
    /\ At(c, "check")
    /\ LET r == reg[c].room
           join == reg[c].op = "join"
       IN  \/ join /\ HasSpace(r) /\ Goto(c, "seat") /\ UNCHANGED out
           \/ join /\ ~HasSpace(r) /\ Finish(c, To(fd[c], "3", NoName, r))
           \/ ~join /\ Finish(c, To(fd[c], "4", NoName, r))
    /\ UNCHANGED <<kernel, reg, shared, up, view>>

TakeSeat(c) ==
    /\ At(c, "seat") /\ Free
    /\ LET r == reg[c].room
       IN  /\ rooms' = IF rooms[r].first = 0 THEN [rooms EXCEPT ![r].first = fd[c]]
                                             ELSE [rooms EXCEPT ![r].second = fd[c]]
           /\ Finish(c, To(fd[c], "2", NoName, r))
    /\ active_sockets' = active_sockets \cup {fd[c]}
    /\ UNCHANGED <<kernel, reg, client_sockets, client_mtx, up, view>>

-----------------------------------------------------------------------------
(* Case '7'. `scoped_lock(room_mtx,client_mtx);` constructs a temporary    *)
(* that locks and unlocks at once, so what follows runs with no lock: each *)
(* access to a seat is a step, and the clearing of the own seat and the    *)
(* read of the other one may reach memory in either order.                 *)

\* a mutant of TestSeat: the seats taken for one another
TestOtherSeat(c) ==
    /\ At(c, "test") /\ Free
    /\ reg' = [reg EXCEPT ![c].first = (rooms[reg[c].room].second = fd[c])]
    /\ Goto(c, "vacate")
    /\ UNCHANGED <<kernel, out, shared, up, view>>

TestSeat(c) ==
    /\ At(c, "test") /\ Free                    \* the temporary waits for client_mtx
    /\ reg' = [reg EXCEPT ![c].first = (rooms[reg[c].room].first = fd[c])]
    /\ Goto(c, "vacate")
    /\ UNCHANGED <<kernel, out, shared, up, view>>

\* a mutant of VacateSeat: the first seat is cleared whoever leaves
VacateFirst(c) ==
    /\ At(c, "vacate") \/ At(c, "writeSeat")
    /\ rooms' = [rooms EXCEPT ![reg[c].room].first = 0]
    /\ Goto(c, IF pc[c] = "vacate" THEN "readOther" ELSE "forget")
    /\ UNCHANGED <<kernel, reg, out, client_sockets, active_sockets, client_mtx, up, view>>

VacateSeat(c) ==
    /\ At(c, "vacate") \/ At(c, "writeSeat")
    /\ rooms' = IF reg[c].first THEN [rooms EXCEPT ![reg[c].room].first = 0]
                                ELSE [rooms EXCEPT ![reg[c].room].second = 0]
    /\ Goto(c, IF pc[c] = "vacate" THEN "readOther" ELSE "forget")
    /\ UNCHANGED <<kernel, reg, out, client_sockets, active_sockets, client_mtx, up, view>>

ReadOther(c) ==
    /\ At(c, "vacate") \/ At(c, "readOther")
    /\ LET seat == rooms[reg[c].room]
       IN  reg' = [reg EXCEPT ![c].other = IF reg[c].first THEN seat.second ELSE seat.first]
    /\ Goto(c, IF pc[c] = "vacate" THEN "writeSeat" ELSE "forget")
    /\ UNCHANGED <<kernel, out, shared, up, view>>

\* remove() starts to walk active_sockets
BeginForget(c) ==
    /\ At(c, "forget")
    /\ reg' = [reg EXCEPT ![c].snap = active_sockets]
    /\ Goto(c, "forget2")
    /\ UNCHANGED <<kernel, out, shared, up, view>>

(* remove() and erase() are done. If another handler changed the vector    *)
(* meanwhile, either change may be the one that survives, and a write into *)
(* a buffer that push_back has released may end the process.               *)
EndForget(c) ==
    /\ At(c, "forget2")
    /\ LET raced == active_sockets # reg[c].snap
           erased == active_sockets \ {fd[c]}
       IN  /\ active_sockets' \in IF raced
                                  THEN {erased, reg[c].snap \ {fd[c]}, active_sockets}
                                  ELSE {erased}
           /\ up' \in IF raced THEN BOOLEAN ELSE {up}
    /\ Finish(c, To(fd[c], "5", NoName, reg[c].room) \o
                 IF reg[c].other # 0 THEN To(reg[c].other, "6", reg[c].name, reg[c].room) ELSE <<>>)
    /\ UNCHANGED <<kernel, reg, client_sockets, rooms, client_mtx, view>>

-----------------------------------------------------------------------------
(* Case '8': admin_send_all_message holds client_mtx through its loop.     *)

LockBroadcast(c) ==
    /\ At(c, "lock") /\ Free
    /\ client_mtx' = c
    /\ reg' = [reg EXCEPT ![c].snap = active_sockets, ![c].todo = active_sockets]
    /\ Goto(c, "loop")
    /\ UNCHANGED <<kernel, out, client_sockets, rooms, active_sockets, up, view>>

(* The loop keeps the end it started with; once an unlocked erase has      *)
(* moved the elements, it may find any descriptor in a place.              *)
BroadcastOne(c) ==
    /\ At(c, "loop")
    /\ \E s \in reg[c].todo :
          /\ reg' = [reg EXCEPT ![c].todo = @ \ {s}]
          /\ \E t \in IF active_sockets = reg[c].snap THEN {s} ELSE Word :
                Deliver(t, [kind |-> "line", name |-> NoName, room |-> 0])
    /\ UNCHANGED <<kernel, pc, out, shared>>

UnlockBroadcast(c) ==
    /\ At(c, "loop") /\ reg[c].todo = {}
    /\ client_mtx' = None
    /\ reg' = [reg EXCEPT ![c] = Idle]
    /\ Goto(c, "recv")
    /\ UNCHANGED <<kernel, out, client_sockets, rooms, active_sockets, up, view>>

-----------------------------------------------------------------------------
Names(c)  == AddName(c) \/ GetName(c) \/ EraseName(c)
Rooms(c)  == GetRoom(c) \/ GetPeer(c) \/ CheckRoom(c) \/ TakeSeat(c)
Leave(c)  == TestSeat(c) \/ VacateSeat(c) \/ ReadOther(c) \/ BeginForget(c) \/ EndForget(c)
Admin(c)  == LockBroadcast(c) \/ BroadcastOne(c) \/ UnlockBroadcast(c)
Socket(c) == Accept(c) \/ ClientClose(c) \/ Recv(c) \/ Hangup(c) \/ Close(c) \/ Send(c)

Next == \E c \in Conn : Socket(c) \/ Names(c) \/ Rooms(c) \/ Leave(c) \/ Admin(c)

Spec == Init /\ [][Next]_vars

-----------------------------------------------------------------------------
(* What the handlers are to guarantee.                                     *)

Serving(c) == \E f \in Fd : open[f] = c
Leaving(c) == reg[c].op = "leaveApp"

(* A descriptor is read and closed by one handler at a time: of two        *)
(* handlers that were given the same number, one has returned. It fails if *)
(* a number can be reused while its old handler still runs.                *)
OneReader ==
    \A c, d \in Conn : c # d /\ fd[c] = fd[d] /\ fd[c] # 0
                        => pc[c] = "done" \/ pc[d] = "done"

(* add_socket_name: of the clients that are connected and not leaving, no  *)
(* two have been told that they logged in under the same nickname.         *)
NameHeldOnce ==
    \A c, d \in Conn : c # d /\ Serving(c) /\ Serving(d) /\ ~Leaving(c) /\ ~Leaving(d)
                        => names[c] \cap names[d] = {}

(* Although '7' runs with no lock, nobody loses a first seat to somebody   *)
(* else: it changes only to 0, and only by a handler of its own descriptor.*)
FirstSeatStable ==
    [][\A r \in Room : rooms[r].first # 0 /\ rooms'[r].first # rooms[r].first
          => /\ rooms'[r].first = 0
             /\ \E c \in Conn : VacateSeat(c) /\ fd[c] = rooms[r].first]_rooms

(* When every client that joined has also left ('7') and hung up, every    *)
(* seat is free again, whatever order the handlers raced in.               *)
SeatsDrain ==
    (\A c \in Conn : pc[c] = "done") => \A r \in Room : rooms[r] = [first |-> 0, second |-> 0]

(* At most two connected clients have been told ('2') that they are in a   *)
(* room: rooms have "a capacity of 2 people only" (server.cpp:45).         *)
RoomCapacity ==
    \A r \in Room : Cardinality({c \in Conn : Serving(c) /\ r \in joined[c]}) <= 2

(* get_room's 0 means "Not found" (logic_unit_test.cpp:65): the handlers   *)
(* of '1' and '7' never use it as the number of a room.                    *)
RoomIndexFound ==
    \A c \in Conn : pc[c] \in {"getPeer", "test", "vacate", "readOther", "writeSeat"}
                     => reg[c].room \in Room

(* "Name already in use" (socket_server.cpp:153): a name that              *)
(* add_socket_name refuses is bound to a connection that still exists.     *)
TakenNamesAreHeld ==
    \A n \in Name : client_sockets[n] # 0 => open[client_sockets[n]] # None
=============================================================================
