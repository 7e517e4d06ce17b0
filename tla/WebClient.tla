------------------------------ MODULE WebClient ------------------------------
(***************************************************************************)
(* Web pages (Chat-App/src/components: ChatLayout, useWebSocket, Sidebar,  *)
(* UsernameModal, MessageInput) against the cases '1', '2' and '4' of the  *)
(* server, the only ones a page asks for.                                  *)
(*                                                                         *)
(* JavaScript runs one callback at a time: a click, a timer, an event of   *)
(* the WebSocket is a step, with the render and the effects it causes. The *)
(* server's handlers are taken as atomic here (ChatServer is where they    *)
(* interleave), the proxy as delivering one text per message (Proxy).      *)
(***************************************************************************)
EXTENDS Naturals, Sequences

CONSTANTS
    Page, Name, NoName, Nobody,
    NumRooms,                       \* the page's rooms; the server has one more
    Tries,                          \* Page -> the nicknames its user would try, in order
    MaxClicks, MaxLines,            \* bounds: rooms clicked and lines typed, by all pages
    Patient                         \* do users wait: for the answer to a click before the next,
                                    \* and 100 ms after a click before they give a nickname?

ASSUME NullAssumption == NoName \notin Name
ASSUME BoundAssumption ==
    /\ NumRooms \in Nat /\ Tries \in [Page -> Seq(Name)] /\ MaxClicks \in Nat /\ MaxLines \in Nat
    /\ Patient \in BOOLEAN

Room == 1 .. NumRooms
Conn == UNION {{p} \X DOMAIN Tries[p] : p \in Page}    \* the WebSockets that pages open
ASSUME NobodyAssumption == Nobody \notin Conn

VARIABLES
    username,   \* Page -> the nickname it shows, or NoName while the modal is shown
    pending,    \* pendingRoomRef, 0 for null
    selected,   \* selectedChat, 0 for null
    full,       \* the rooms isRoomFull marks
    shown,      \* the lines in chatrooms
    timers,     \* texts that 100 ms timers will send; equal delays fire in their order
    nth, ready, \* useWebSocket: how many sockets were opened, the last one's readyState
    clicks, lines,
    up, down,   \* Conn -> texts on their way to the server, and to the page
    names,      \* client_sockets
    rooms       \* the server's table of seats

page   == <<username, pending, selected, full, shown>>
hook   == <<nth, ready>>
users  == <<clicks, lines>>
server == <<names, rooms>>
vars   == <<page, timers, hook, users, up, down, server>>

\* texts: the nickname of a "2", the room of a "4"
Text == [code : {"1", "2", "4"}, name : Name \cup {NoName}, room : 0 .. NumRooms]
Answer == [code : {"line", "2", "3", "20", "21"}, name : Name \cup {NoName}]
Line == [in : Room, name : Name]
Ask(k, n, r) == [code |-> k, name |-> n, room |-> r]
Say(k, n) == [code |-> k, name |-> n]

Cur(p) == <<p, nth[p]>>
Seated(c, r) == rooms[r].first = c \/ rooms[r].second = c

TypeOK ==
    /\ username \in [Page -> Name \cup {NoName}]
    /\ pending \in [Page -> 0 .. NumRooms] /\ selected \in [Page -> 0 .. NumRooms]
    /\ full \in [Page -> SUBSET Room] /\ shown \in [Page -> SUBSET Line]
    /\ timers \in [Page -> Seq(Text)]
    /\ nth \in [Page -> Nat] /\ \A p \in Page : nth[p] <= Len(Tries[p])
    /\ ready \in [Page -> {"none", "connecting", "open", "closed"}]
    /\ clicks \in 0 .. MaxClicks /\ lines \in 0 .. MaxLines
    /\ up \in [Conn -> Seq(Text)] /\ down \in [Conn -> Seq(Answer)]
    /\ names \in [Name -> Conn \cup {Nobody}]
    /\ rooms \in [1 .. NumRooms + 1 -> [first : Conn \cup {Nobody}, second : Conn \cup {Nobody}]]

Init ==
    /\ username = [p \in Page |-> NoName]
    /\ pending = [p \in Page |-> 0] /\ selected = [p \in Page |-> 0]
    /\ full = [p \in Page |-> {}] /\ shown = [p \in Page |-> {}]
    /\ timers = [p \in Page |-> <<>>]
    /\ nth = [p \in Page |-> 0] /\ ready = [p \in Page |-> "none"]
    /\ clicks = 0 /\ lines = 0
    /\ up = [c \in Conn |-> <<>>] /\ down = [c \in Conn |-> <<>>]
    /\ names = [n \in Name |-> Nobody]
    /\ rooms = [r \in 1 .. NumRooms + 1 |-> [first |-> Nobody, second |-> Nobody]]

-----------------------------------------------------------------------------
(* The user.                                                               *)

After100ms(p, text) == timers' = [timers EXCEPT ![p] = Append(@, text)]

\* the modal's nickname: a timer for '2', and the name makes useWebSocket open a socket
Submit(p) ==
    /\ username[p] = NoName /\ nth[p] < Len(Tries[p])
    /\ Patient => timers[p] = <<>>
    /\ After100ms(p, Ask("2", Tries[p][nth[p] + 1], 0))
    /\ username' = [username EXCEPT ![p] = Tries[p][nth[p] + 1]]
    /\ nth' = [nth EXCEPT ![p] = @ + 1] /\ ready' = [ready EXCEPT ![p] = "connecting"]
    /\ UNCHANGED <<pending, selected, full, shown, users, up, down, server>>

\* onRoomClick: a room that is marked full only shows an alert
Clickable(p, r) == username[p] # NoName /\ r \notin full[p]

\* a join of this page that has not been answered yet
Asked(p) ==
    \/ \E i \in DOMAIN timers[p] : timers[p][i].code = "4"
    \/ \E i \in DOMAIN up[Cur(p)] : up[Cur(p)][i].code = "4"
    \/ \E i \in DOMAIN down[Cur(p)] : down[Cur(p)][i].code \in {"2", "3"}

Click(p, r) ==
    /\ Clickable(p, r) /\ clicks < MaxClicks
    /\ Patient => ~Asked(p)
    /\ clicks' = clicks + 1
    /\ pending' = [pending EXCEPT ![p] = r]
    /\ After100ms(p, Ask("4", NoName, r))
    /\ UNCHANGED <<username, selected, full, shown, hook, lines, up, down, server>>

\* a mutant of Type: the field is there from the start
TypeAnytime(p) ==
    /\ username[p] # NoName /\ lines < MaxLines
    /\ lines' = lines + 1
    /\ After100ms(p, Ask("1", NoName, 0))
    /\ UNCHANGED <<page, hook, clicks, up, down, server>>

\* the field is there only while a chat is selected
Type(p) ==
    /\ username[p] # NoName /\ selected[p] # 0 /\ lines < MaxLines
    /\ lines' = lines + 1
    /\ After100ms(p, Ask("1", NoName, 0))
    /\ UNCHANGED <<page, hook, clicks, up, down, server>>

-----------------------------------------------------------------------------
(* useWebSocket and the timers.                                            *)

Opens(p) ==
    /\ ready[p] = "connecting"
    /\ ready' = [ready EXCEPT ![p] = "open"]
    /\ UNCHANGED <<page, timers, nth, users, up, down, server>>

\* the connection fails or ends: onerror and onclose only log, nothing opens it again
Breaks(p) ==
    /\ ready[p] \in {"connecting", "open"}
    /\ ready' = [ready EXCEPT ![p] = "closed"]
    /\ down' = [down EXCEPT ![Cur(p)] = <<>>]
    /\ up' \in {up, [up EXCEPT ![Cur(p)] = <<>>]}
    /\ UNCHANGED <<page, timers, nth, users, server>>

\* send drops the text, with a warning, unless the socket of the moment is open
Fire(p) ==
    /\ timers[p] # <<>>
    /\ timers' = [timers EXCEPT ![p] = Tail(@)]
    /\ up' = IF ready[p] = "open" THEN [up EXCEPT ![Cur(p)] = Append(@, Head(timers[p]))] ELSE up
    /\ UNCHANGED <<page, hook, users, down, server>>

-----------------------------------------------------------------------------
(* handleServerMessage.                                                    *)

Got(p, k) == ready[p] = "open" /\ down[Cur(p)] # <<>> /\ Head(down[Cur(p)]).code = k
Taken(p) == down' = [down EXCEPT ![Cur(p)] = Tail(@)]

Joined(p) ==
    /\ Got(p, "2")
    /\ Taken(p)
    /\ IF pending[p] # 0
       THEN selected' = [selected EXCEPT ![p] = pending[p]] /\ pending' = [pending EXCEPT ![p] = 0]
       ELSE UNCHANGED <<selected, pending>>
    /\ UNCHANGED <<username, full, shown, timers, hook, users, up, server>>

\* a mutant of Refused: the server's number of the room is marked
RefusedServerNumber(p) ==
    /\ Got(p, "3")
    /\ Taken(p)
    /\ full' = IF pending[p] # 0 THEN [full EXCEPT ![p] = @ \cup {pending[p] + 1}] ELSE full
    /\ pending' = [pending EXCEPT ![p] = 0]
    /\ UNCHANGED <<username, selected, shown, timers, hook, users, up, server>>

\* a mutant of Refused: the rejected join stays pending
RefusedStaysPending(p) ==
    /\ Got(p, "3")
    /\ Taken(p)
    /\ full' = IF pending[p] # 0 THEN [full EXCEPT ![p] = @ \cup {pending[p]}] ELSE full
    /\ UNCHANGED <<username, pending, selected, shown, timers, hook, users, up, server>>

Refused(p) ==
    /\ Got(p, "3")
    /\ Taken(p)
    /\ full' = IF pending[p] # 0 THEN [full EXCEPT ![p] = @ \cup {pending[p]}] ELSE full
    /\ pending' = [pending EXCEPT ![p] = 0]
    /\ UNCHANGED <<username, selected, shown, timers, hook, users, up, server>>

\* '20' takes the nickname back, which closes the socket; '21' changes only the modal's error
NameAnswered(p) ==
    \/ /\ Got(p, "20")
       /\ username' = [username EXCEPT ![p] = NoName]
       /\ ready' = [ready EXCEPT ![p] = "closed"]
       /\ down' = [down EXCEPT ![Cur(p)] = <<>>]
       /\ UNCHANGED <<pending, selected, full, shown, timers, nth, users, up, server>>
    \/ /\ Got(p, "21")
       /\ Taken(p)
       /\ UNCHANGED <<page, timers, hook, users, up, server>>

\* "name:text" goes into the chat that is selected now; with no name it is dropped
Shown(p) ==
    /\ Got(p, "line")
    /\ Taken(p)
    /\ LET m == Head(down[Cur(p)])
       IN  shown' = IF m.name # NoName /\ selected[p] # 0
                    THEN [shown EXCEPT ![p] = @ \cup {[in |-> selected[p], name |-> m.name]}]
                    ELSE shown
    /\ UNCHANGED <<username, pending, selected, full, timers, hook, users, up, server>>

-----------------------------------------------------------------------------
(* The server, one text of connection c at a time.                         *)

Asks(c, k) == up[c] # <<>> /\ Head(up[c]).code = k

\* what is sent to a socket that the page has closed is lost
Listens(d) == d \in Conn /\ nth[d[1]] = d[2] /\ ready[d[1]] = "open"
Reply(c, to, m) ==
    /\ up' = [up EXCEPT ![c] = Tail(@)]
    /\ down' = [d \in Conn |-> IF d \in to /\ Listens(d) THEN Append(down[d], m) ELSE down[d]]

Login(c) ==
    /\ Asks(c, "2")
    /\ LET n == Head(up[c]).name
       IN  \/ names[n] # Nobody /\ Reply(c, {c}, Say("20", NoName)) /\ UNCHANGED names
           \/ /\ names[n] = Nobody
              /\ Reply(c, {c}, Say("21", NoName))
              /\ names' = [names EXCEPT ![n] = c]
    /\ UNCHANGED <<page, timers, hook, users, rooms>>

\* a mutant of Join: the request is answered with success whatever check_room says
JoinUnchecked(c) ==
    /\ Asks(c, "4")
    /\ LET r == Head(up[c]).room + 1
       IN  /\ Reply(c, {c}, Say("2", NoName))
           /\ rooms' = IF rooms[r].first = Nobody THEN [rooms EXCEPT ![r].first = c]
                                                  ELSE [rooms EXCEPT ![r].second = c]
    /\ UNCHANGED <<page, timers, hook, users, names>>

\* the page asks for the number of its room and one; nobody is made to leave another room
Join(c) ==
    /\ Asks(c, "4")
    /\ LET r == Head(up[c]).room + 1
       IN  \/ /\ Nobody \notin {rooms[r].first, rooms[r].second}
              /\ Reply(c, {c}, Say("3", NoName)) /\ UNCHANGED rooms
           \/ /\ Nobody \in {rooms[r].first, rooms[r].second}
              /\ Reply(c, {c}, Say("2", NoName))
              /\ rooms' = IF rooms[r].first = Nobody THEN [rooms EXCEPT ![r].first = c]
                                                     ELSE [rooms EXCEPT ![r].second = c]
    /\ UNCHANGED <<page, timers, hook, users, names>>

\* get_room: the lowest room with the sender in it
Sits(c) == {r \in 1 .. NumRooms + 1 : Seated(c, r)}
RoomOf(c) == CHOOSE q \in Sits(c) : \A s \in Sits(c) : q <= s

\* a mutant of Peer: rooms[room] for rooms[room - 1]
PeerNextDoor(c) ==
    LET r == IF RoomOf(c) = NumRooms + 1 THEN 1 ELSE RoomOf(c) + 1
    IN  IF rooms[r].first = c THEN rooms[r].second ELSE rooms[r].first

Peer(c) == IF rooms[RoomOf(c)].first = c THEN rooms[RoomOf(c)].second ELSE rooms[RoomOf(c)].first

\* get_name_from_socket: any name of the sender, or none
NamesOf(c) == LET own == {n \in Name : names[n] = c} IN IF own = {} THEN {NoName} ELSE own

(* The line goes to the sender and to the other one in the room; to the    *)
(* sender twice when both seats are its own, which the page shows as one   *)
(* more line. With no room the code would use rooms[-1]: TypedFromASeat.   *)
Relay(c) ==
    /\ Asks(c, "1") /\ Sits(c) # {}
    /\ \E n \in NamesOf(c) : Reply(c, {c, Peer(c)}, Say("line", n))
    /\ UNCHANGED <<page, timers, hook, users, server>>

-----------------------------------------------------------------------------
Socket(p) == Opens(p) \/ Breaks(p) \/ Fire(p)
handleServerMessage(p) == Joined(p) \/ Refused(p) \/ NameAnswered(p) \/ Shown(p)
Handler(c) == Login(c) \/ Join(c) \/ Relay(c)

Next ==
    \/ \E p \in Page : \/ Submit(p) \/ Type(p) \/ \E r \in Room : Click(p, r)
                       \/ Socket(p) \/ handleServerMessage(p)
    \/ \E c \in Conn : Handler(c)

Spec == Init /\ [][Next]_vars

(* While timers are due, messages wait or texts wait, one of each goes on. *)
(* Users owe nothing, and no socket has to open.                           *)
Fairness ==
    /\ WF_vars(\E p \in Page : Fire(p))
    /\ WF_vars(\E p \in Page : handleServerMessage(p))
    /\ WF_vars(\E c \in Conn : Handler(c))

FairSpec == Spec /\ Fairness

-----------------------------------------------------------------------------
(* The chat a page has selected is a room where the server has given its   *)
(* connection a seat. pendingRoomRef has to fit the answer that arrives:   *)
(* '2' names no room.                                                      *)
SelectedIsSeat ==
    \A p \in Page : ready[p] = "open" /\ selected[p] # 0 => Seated(Cur(p), selected[p] + 1)

(* A room is marked full only when the server has given both its seats     *)
(* away: '3' names no room either.                                         *)
MarkedIsFull ==
    \A p \in Page : \A r \in full[p] : ~Seated(Nobody, r + 1)

(* A line that a page has typed always finds its sender in some room: no   *)
(* order of clicks, refusals and new nicknames makes case '1' use room 0.  *)
TypedFromASeat ==
    \A c \in Conn : \A i \in DOMAIN up[c] : up[c][i].code = "1"
        => \/ Sits(c) # {}
           \/ \E j \in 1 .. i : up[c][j].code = "4"

(* A join whose timer runs on an open socket is answered: the click does   *)
(* not stay pending, unless the socket goes.                               *)
ClickAnswered ==
    \A p \in Page : (ready[p] = "open" /\ Asked(p) /\ pending[p] # 0) ~> (pending[p] = 0 \/ ready[p] # "open")

(* A page is shown a line of somebody only when the two have got seats in  *)
(* one room.                                                               *)
ShownToRoomMates ==
    \A p \in Page : \A l \in shown[p] : Sits(Cur(p)) \cap Sits(names[l.name]) # {}
=============================================================================
