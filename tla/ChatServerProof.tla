--------------------------- MODULE ChatServerProof ---------------------------
(***************************************************************************)
(* Proofs about ChatServer for every set of connections, nicknames,        *)
(* descriptors and rooms: types for every script; descriptors, nicknames   *)
(* and first seats for scripts without '3'; all seats for scripts of       *)
(* visits to rooms, with two clients at a time.                            *)
(***************************************************************************)
EXTENDS ChatServer, WellFoundedInduction, TLAPS

-----------------------------------------------------------------------------
(* Typing.  TypeOK is not inductive: it holds because a handler that runs  *)
(* has a descriptor, one in case '2' has a nickname, and a "21" that waits *)
(* to be sent carries one.                                                 *)

HandlersTyped ==
    \A c \in Conn :
        /\ pc[c] # "new" => fd[c] \in Fd
        /\ pc[c] = "add" => reg[c].name \in Name
        /\ \A i \in 1 .. Len(out[c]) : out[c][i][2].kind = "21" => out[c][i][2].name \in Name

Typed == TypeOK /\ HandlersTyped

LEMMA WordHoldsFd == Fd \subseteq Word /\ 0 \in Word /\ Fd \subseteq Nat
BY FdAssumption DEF Word

LEMMA NoRoom == 0 \in 0 .. NumRooms
BY RoomAssumption

(* What a queue of one or two send_message calls holds.                    *)
LEMMA ToIsMessage ==
  ASSUME NEW s \in Word, NEW k \in {"line", "20", "21", "2", "3", "4", "5", "6"},
         NEW n \in Name \cup {NoName}, NEW r \in 0 .. NumRooms
  PROVE  /\ To(s, k, n, r) \in Seq(Word \X Reply)
         /\ Len(To(s, k, n, r)) = 1
         /\ To(s, k, n, r)[1] = <<s, [kind |-> k, name |-> n, room |-> r]>>
BY DEF To, Reply

LEMMA DeliverTyped ==
  ASSUME Typed, NEW s \in Word, NEW m \in Reply, m.kind = "21" => m.name \in Name,
         Deliver(s, m)
  PROVE  /\ names' \in [Conn -> SUBSET Name]
         /\ joined' \in [Conn -> SUBSET (0 .. NumRooms)]
         /\ up' \in BOOLEAN
<1> DEFINE d == IF s \in Fd THEN open[s] ELSE None
<1>1. names \in [Conn -> SUBSET Name] /\ joined \in [Conn -> SUBSET (0 .. NumRooms)] /\ up \in BOOLEAN
  BY DEF Typed, TypeOK
<1>2. CASE d \in Conn \ gone
  <2>1. /\ names' = IF m.kind = "21" THEN [names EXCEPT ![d] = @ \cup {m.name}] ELSE names
        /\ joined' = [joined EXCEPT ![d] = IF m.kind = "2" THEN @ \cup {m.room}
                                           ELSE IF m.kind = "5" THEN @ \ {m.room} ELSE @]
        /\ up' = up
    BY <1>2 DEF Deliver
  <2>2. names' \in [Conn -> SUBSET Name]
    BY <1>1, <1>2, <2>1
  <2>3. m.room \in 0 .. NumRooms
    BY DEF Reply
  <2>4. joined' \in [Conn -> SUBSET (0 .. NumRooms)]
    BY <1>1, <1>2, <2>1, <2>3
  <2>5. QED
    BY <1>1, <2>1, <2>2, <2>4
<1>3. CASE d \notin Conn \ gone
  BY <1>1, <1>3 DEF Deliver, view
<1>4. QED
  BY <1>2, <1>3

-----------------------------------------------------------------------------
(* One step of one handler. A handler may go on to a label other than      *)
(* "new" and "add" without further ado.                                    *)
LEMMA GotoTyped ==
  ASSUME Typed, NEW c \in Conn, NEW l \in Label \ {"new", "add"}, Goto(c, l),
         pc[c] # "new"
  PROVE  /\ pc' \in [Conn -> Label]
         /\ pc'[c] = l
         /\ \A d \in Conn : d # c => pc'[d] = pc[d]
         /\ \A d \in Conn : (pc'[d] # "new" => pc[d] # "new") /\ (pc'[d] = "add" => pc[d] = "add" /\ d # c)
BY DEF Typed, TypeOK, Goto

LEMMA FinishTyped ==
  ASSUME Typed, NEW c \in Conn, NEW msgs \in Seq(Word \X Reply), Finish(c, msgs),
         \A i \in 1 .. Len(msgs) : msgs[i][2].kind = "21" => msgs[i][2].name \in Name,
         pc[c] # "new"
  PROVE  /\ Goto(c, "send")
         /\ out' \in [Conn -> Seq(Word \X Reply)]
         /\ \A d \in Conn : \A i \in 1 .. Len(out'[d]) :
                out'[d][i][2].kind = "21" => out'[d][i][2].name \in Name
BY DEF Typed, TypeOK, HandlersTyped, Finish

LEMMA IdleTyped == Idle \in Locals /\ Idle.op = "none" /\ Idle.name = NoName
BY RoomAssumption DEF Idle, Begin, Locals, Word

LEMMA FieldTyped ==
  ASSUME NEW r \in Locals
  PROVE  /\ \A n \in Name \cup {NoName} : [r EXCEPT !.name = n] \in Locals
         /\ \A n \in 0 .. NumRooms : [r EXCEPT !.room = n] \in Locals
         /\ \A w \in Word : [r EXCEPT !.other = w] \in Locals
         /\ \A b \in BOOLEAN : [r EXCEPT !.first = b] \in Locals
         /\ \A v \in SUBSET Fd : [r EXCEPT !.snap = v] \in Locals
         /\ \A v \in SUBSET Fd : [r EXCEPT !.todo = v] \in Locals
         /\ \A v \in SUBSET Fd : [r EXCEPT !.snap = v, !.todo = v] \in Locals
<1>1. \A n \in Name \cup {NoName} : [r EXCEPT !.name = n] \in Locals
  BY DEF Locals
<1>2. \A n \in 0 .. NumRooms : [r EXCEPT !.room = n] \in Locals
  BY DEF Locals
<1>3. \A w \in Word : [r EXCEPT !.other = w] \in Locals
  BY DEF Locals
<1>4. \A b \in BOOLEAN : [r EXCEPT !.first = b] \in Locals
  BY DEF Locals
<1>5. \A v \in SUBSET Fd : [r EXCEPT !.snap = v] \in Locals
  BY DEF Locals
<1>6. \A v \in SUBSET Fd : [r EXCEPT !.todo = v] \in Locals
  BY DEF Locals
<1>7. \A v \in SUBSET Fd : [r EXCEPT !.snap = v, !.todo = v] \in Locals
  BY DEF Locals
<1>8. QED
  BY <1>1, <1>2, <1>3, <1>4, <1>5, <1>6, <1>7

(* reg[c] becomes r, the locals of the others stay.                        *)
LEMMA RegTyped ==
  ASSUME Typed, NEW c \in Conn, NEW r \in Locals, reg' = [reg EXCEPT ![c] = r]
  PROVE  reg' \in [Conn -> Locals] /\ reg'[c] = r /\ \A d \in Conn : d # c => reg'[d] = reg[d]
BY DEF Typed, TypeOK

(* The smallest element of a set of numbers, which get_room's loop finds.  *)
Less == {pair \in Nat \X Nat : pair[1] < pair[2]}

LEMMA Smallest ==
  ASSUME NEW T \in SUBSET Nat, T # {} PROVE \E m \in T : \A k \in T : m <= k
<1>1. IsWellFoundedOn(Less, Nat)
  BY NatLessThanWellFounded DEF OpToRel, Less
<1>2. \E m \in T : \A k \in T : ~ (<<k, m>> \in Less)
  BY <1>1, WFMin
<1>3. ASSUME NEW m \in T, NEW k \in T, <<k, m>> \notin Less PROVE m <= k
  <2>1. m \in Nat /\ k \in Nat /\ <<k, m>> \in Nat \X Nat
    OBVIOUS
  <2>2. ~ (k < m)
    BY <1>3, <2>1 DEF Less
  <2>3. QED
    BY <2>1, <2>2
<1>4. QED
  BY <1>2, <1>3

LEMMA RoomOfTyped == \A s : RoomOf(s) \in 0 .. NumRooms
<1> TAKE s
<1> DEFINE T == {r \in Room : Seated(s, r)}
<1>1. CASE T = {}
  BY <1>1, NoRoom DEF RoomOf
<1>2. CASE T # {}
  <2>1. T \in SUBSET Nat /\ Room \subseteq 0 .. NumRooms
    BY RoomAssumption DEF Room
  <2>2. \E m \in T : \A k \in T : m <= k
    BY <1>2, <2>1, Smallest
  <2>3. RoomOf(s) \in Room
    BY <1>2, <2>2 DEF RoomOf
  <2>4. QED
    BY <2>1, <2>3
<1>3. QED
  BY <1>1, <1>2

(* Writing a word into a seat.                                             *)
LEMMA SeatTyped ==
  ASSUME TypeOK, NEW r \in 0 .. NumRooms, NEW w \in Word
  PROVE  /\ [rooms EXCEPT ![r].first = w] \in [0 .. NumRooms -> Seat]
         /\ [rooms EXCEPT ![r].second = w] \in [0 .. NumRooms -> Seat]
BY DEF TypeOK, Seat

LEMMA SocketTyped ==
  ASSUME Typed, NEW c \in Conn, Socket(c) PROVE Typed'
<1> USE DEF Typed
<1>1. CASE Accept(c)
  BY <1>1 DEF Accept, TypeOK, HandlersTyped, At, Goto, shared, view, Label
<1>2. CASE ClientClose(c)
  BY <1>2 DEF ClientClose, TypeOK, HandlersTyped, shared, view
<1>3. CASE Recv(c)
  <2> DEFINE d == open[fd[c]]
  <2>1. d \in Conn /\ sent[d] \in Nat /\ sent[d] < Len(Script)
    <3>1. fd[c] \in Fd /\ d \in Conn
      BY <1>3 DEF Recv, TypeOK, HandlersTyped, At
    <3>2. sent[d] \in 0 .. Len(Script) /\ sent[d] < Len(Script)
      BY <1>3, <3>1 DEF Recv, TypeOK
    <3>3. QED
      BY <3>1, <3>2
  <2>2. PICK op \in Script[sent[d] + 1] :
          \E n \in IF op = "login" THEN Name ELSE {NoName},
             r \in IF op \in {"join", "query"} THEN RoomNo ELSE {0} :
               reg' = [reg EXCEPT ![c] = Begin(op, n, r)] /\ Goto(c, Entry[op])
    BY <1>3 DEF Recv
  <2>3. PICK n \in IF op = "login" THEN Name ELSE {NoName},
             r \in IF op \in {"join", "query"} THEN RoomNo ELSE {0} :
               reg' = [reg EXCEPT ![c] = Begin(op, n, r)] /\ Goto(c, Entry[op])
    BY <2>2
  <2>4. op \in Ops /\ n \in Name \cup {NoName} /\ r \in 0 .. NumRooms
    BY <2>1, <2>2, <2>3, ScriptAssumption, RoomAssumption
  <2>5. /\ Begin(op, n, r) \in Locals /\ Begin(op, n, r).name = n
        /\ Entry[op] \in Label \ {"new"}
        /\ Entry[op] = "add" => op = "login"
    BY <2>4 DEF Begin, Locals, Entry, Ops, Label, Word
  <2>6. /\ pc' = [pc EXCEPT ![c] = Entry[op]]
        /\ sent' = [sent EXCEPT ![d] = @ + 1]
        /\ UNCHANGED <<open, fd, gone, out, shared, up, view>>
    BY <1>3, <2>3 DEF Recv, Goto
  <2>7. sent' \in [Conn -> 0 .. Len(Script)]
    BY <2>1, <2>6, ScriptAssumption DEF TypeOK
  <2>8. TypeOK'
    BY <2>3, <2>5, <2>6, <2>7 DEF TypeOK, shared, view
  <2>9. HandlersTyped'
    BY <1>3, <2>3, <2>5, <2>6 DEF TypeOK, HandlersTyped, Recv, At
  <2>10. QED
    BY <2>8, <2>9
<1>4. CASE Hangup(c)
  BY <1>4 DEF Hangup, TypeOK, HandlersTyped, At, Goto, kernel, shared, view, Label
<1>5. CASE Close(c)
  BY <1>5, IdleTyped DEF Close, TypeOK, HandlersTyped, At, Goto, shared, view, Label
<1>6. CASE Send(c)
  <2> DEFINE s == Head(out[c])[1]
             m == Head(out[c])[2]
  <2>1. /\ out[c] \in Seq(Word \X Reply) /\ out[c] # <<>>
        /\ Head(out[c]) = out[c][1] /\ 1 \in 1 .. Len(out[c])
    BY <1>6 DEF Send, TypeOK
  <2>2. s \in Word /\ m \in Reply /\ (m.kind = "21" => m.name \in Name)
    BY <2>1 DEF HandlersTyped
  <2>3. /\ names' \in [Conn -> SUBSET Name]
        /\ joined' \in [Conn -> SUBSET (0 .. NumRooms)]
        /\ up' \in BOOLEAN
    BY <1>6, <2>2, DeliverTyped DEF Send
  <2>4. /\ Tail(out[c]) \in Seq(Word \X Reply)
        /\ \A i \in 1 .. Len(Tail(out[c])) : i + 1 \in 1 .. Len(out[c]) /\ Tail(out[c])[i] = out[c][i + 1]
    BY <2>1
  <2>5. out' = [out EXCEPT ![c] = Tail(@)] /\ UNCHANGED <<kernel, shared>>
    BY <1>6 DEF Send
  <2>6. out' \in [Conn -> Seq(Word \X Reply)]
    BY <2>4, <2>5 DEF TypeOK
  <2>7. /\ pc' \in [Conn -> Label]
        /\ \A d \in Conn : pc'[d] = pc[d] \/ (d = c /\ pc'[d] = "recv" /\ pc[d] = "send")
    BY <1>6 DEF Send, TypeOK, Goto, Label, At
  <2>8. /\ reg' \in [Conn -> Locals]
        /\ \A d \in Conn : reg'[d] = reg[d] \/ d = c
    <3>1. CASE reg' = reg
      BY <3>1 DEF TypeOK
    <3>2. CASE reg' = [reg EXCEPT ![c] = Idle]
      BY <3>2, IdleTyped, RegTyped
    <3>3. QED
      BY <1>6, <3>1, <3>2 DEF Send
  <2>9. TypeOK'
    BY <2>3, <2>5, <2>6, <2>7, <2>8 DEF TypeOK, kernel, shared
  <2>10. HandlersTyped'
    <3>1. ASSUME NEW d \in Conn
          PROVE  \A i \in 1 .. Len(out'[d]) : out'[d][i][2].kind = "21" => out'[d][i][2].name \in Name
      <4>1. CASE d = c
        <5>1. out'[d] = Tail(out[c])
          BY <2>5, <4>1 DEF TypeOK
        <5>2. QED
          BY <2>4, <5>1 DEF HandlersTyped
      <4>2. CASE d # c
        BY <2>5, <4>2 DEF TypeOK, HandlersTyped
      <4>3. QED
        BY <4>1, <4>2
    <3>2. ASSUME NEW d \in Conn
          PROVE  /\ pc'[d] # "new" => fd'[d] \in Fd
                 /\ pc'[d] = "add" => reg'[d].name \in Name
      BY <1>6, <2>5, <2>7, <2>8 DEF HandlersTyped, kernel, Send, At
    <3>3. QED
      BY <3>1, <3>2 DEF HandlersTyped
  <2>11. QED
    BY <2>9, <2>10
<1>7. QED
  BY <1>1, <1>2, <1>3, <1>4, <1>5, <1>6 DEF Socket

LEMMA NamesTyped ==
  ASSUME Typed, NEW c \in Conn, Names(c) PROVE Typed'
<1> USE DEF Typed
<1>1. CASE AddName(c)
  <2> DEFINE n == reg[c].name
  <2>1. /\ pc[c] = "add" /\ n \in Name /\ fd[c] \in Fd
    BY <1>1 DEF AddName, At, HandlersTyped
  <2>2. PICK k \in {"20", "21"} : Finish(c, To(fd[c], k, n, 0))
    BY <1>1 DEF AddName
  <2>3. client_sockets' \in [Name -> Fd \cup {0}]
    BY <1>1, <2>1 DEF AddName, TypeOK
  <2>4. /\ To(fd[c], k, n, 0) \in Seq(Word \X Reply)
        /\ \A i \in 1 .. Len(To(fd[c], k, n, 0)) : To(fd[c], k, n, 0)[i][2].name = n
    <3>1. fd[c] \in Word /\ n \in Name \cup {NoName} /\ 0 \in 0 .. NumRooms
      BY <2>1, WordHoldsFd, NoRoom
    <3>2. k \in {"line", "20", "21", "2", "3", "4", "5", "6"}
      BY <2>2
    <3>3. /\ To(fd[c], k, n, 0) \in Seq(Word \X Reply)
          /\ Len(To(fd[c], k, n, 0)) = 1
          /\ To(fd[c], k, n, 0)[1] = <<fd[c], [kind |-> k, name |-> n, room |-> 0]>>
      BY <3>1, <3>2, ToIsMessage
    <3>4. QED
      BY <3>3
  <2>5. /\ Goto(c, "send") /\ out' \in [Conn -> Seq(Word \X Reply)]
        /\ \A d \in Conn : \A i \in 1 .. Len(out'[d]) :
              out'[d][i][2].kind = "21" => out'[d][i][2].name \in Name
    BY <2>1, <2>2, <2>4, FinishTyped
  <2>6. /\ pc' \in [Conn -> Label]
        /\ \A d \in Conn : (pc'[d] # "new" => pc[d] # "new") /\ (pc'[d] = "add" => pc[d] = "add")
    BY <2>1, <2>5, GotoTyped DEF Label
  <2>7. UNCHANGED <<kernel, reg, rooms, active_sockets, client_mtx, up, view>>
    BY <1>1 DEF AddName
  <2>8. QED
    BY <2>3, <2>5, <2>6, <2>7 DEF TypeOK, HandlersTyped, kernel, view
<1>2. CASE GetName(c)
  <2>1. PICK n \in NamesOf(fd[c]) :
          /\ reg' = [reg EXCEPT ![c].name = n]
          /\ \/ Goto(c, "test") /\ UNCHANGED out
             \/ Goto(c, "erase") /\ UNCHANGED out
             \/ Finish(c, To(fd[c], "line", n, reg[c].room) \o
                            IF reg[c].other # 0 THEN To(reg[c].other, "line", n, reg[c].room) ELSE <<>>)
    BY <1>2 DEF GetName
  <2>2. n \in Name \cup {NoName} /\ pc[c] = "getName" /\ fd[c] \in Fd
    BY <1>2 DEF GetName, At, NamesOf, HandlersTyped
  <2> DEFINE first == To(fd[c], "line", n, reg[c].room)
             second == To(reg[c].other, "line", n, reg[c].room)
             msgs == first \o IF reg[c].other # 0 THEN second ELSE <<>>
  <2>3. /\ reg[c].room \in 0 .. NumRooms /\ reg[c].other \in Word /\ fd[c] \in Word
        /\ reg' \in [Conn -> Locals] /\ \A d \in Conn : d # c => reg'[d] = reg[d]
    <3>1. reg[c] \in Locals
      BY DEF TypeOK
    <3>2. [reg[c] EXCEPT !.name = n] \in Locals /\ reg' = [reg EXCEPT ![c] = [reg[c] EXCEPT !.name = n]]
      BY <2>1, <2>2, <3>1, FieldTyped
    <3>3. reg[c].room \in 0 .. NumRooms /\ reg[c].other \in Word
      BY <3>1 DEF Locals
    <3>4. QED
      BY <2>2, <3>2, <3>3, RegTyped, WordHoldsFd
  <2>4. /\ first \in Seq(Word \X Reply) /\ Len(first) = 1 /\ first[1][2].kind = "line"
        /\ second \in Seq(Word \X Reply) /\ Len(second) = 1 /\ second[1][2].kind = "line"
    <3>1. \A s \in Word : /\ To(s, "line", n, reg[c].room) \in Seq(Word \X Reply)
                          /\ Len(To(s, "line", n, reg[c].room)) = 1
                          /\ To(s, "line", n, reg[c].room)[1] =
                               <<s, [kind |-> "line", name |-> n, room |-> reg[c].room]>>
      BY <2>2, <2>3, ToIsMessage
    <3>2. QED
      BY <2>3, <3>1
  <2>5. msgs \in Seq(Word \X Reply) /\ \A i \in 1 .. Len(msgs) : msgs[i][2].kind = "line"
    <3> HIDE DEF first, second
    <3>1. QED
      BY <2>4
  <2>6. /\ \/ Goto(c, "test") \/ Goto(c, "erase") \/ Goto(c, "send")
        /\ out' \in [Conn -> Seq(Word \X Reply)]
        /\ \A d \in Conn : \A i \in 1 .. Len(out'[d]) :
              out'[d][i][2].kind = "21" => out'[d][i][2].name \in Name
    <3>1. CASE UNCHANGED out
      BY <2>1, <3>1 DEF TypeOK, HandlersTyped, Finish
    <3>2. CASE Finish(c, msgs)
      <4> HIDE DEF msgs
      <4>1. QED
        BY <2>2, <2>5, <3>2, FinishTyped
    <3>3. QED
      BY <2>1, <3>1, <3>2
  <2>7. /\ pc' \in [Conn -> Label]
        /\ \A d \in Conn : (pc'[d] # "new" => pc[d] # "new")
                             /\ (pc'[d] = "add" => pc[d] = "add" /\ d # c)
    BY <2>2, <2>6, GotoTyped DEF Label
  <2>8. UNCHANGED <<kernel, shared, up, view>>
    BY <1>2 DEF GetName
  <2>9. QED
    BY <2>3, <2>6, <2>7, <2>8 DEF TypeOK, HandlersTyped, kernel, shared, view
<1>3. CASE EraseName(c)
  BY <1>3 DEF EraseName, TypeOK, HandlersTyped, At, Goto, kernel, view, Label
<1>4. QED
  BY <1>1, <1>2, <1>3 DEF Names

(* A step that queues no message and binds no name.                        *)
LEMMA QuietStep ==
  ASSUME Typed, NEW c \in Conn, NEW l \in Label \ {"new", "add"}, Goto(c, l), pc[c] # "new",
         \A d \in Conn : d # c => reg'[d] = reg[d],
         UNCHANGED <<kernel, out>>
  PROVE  pc' \in [Conn -> Label] /\ HandlersTyped'
BY DEF Typed, TypeOK, HandlersTyped, Goto, kernel

LEMMA RoomsTyped ==
  ASSUME Typed, NEW c \in Conn, Rooms(c) PROVE Typed'
<1> USE DEF Typed
<1>1. CASE GetRoom(c)
  <2>1. RoomOf(fd[c]) \in 0 .. NumRooms
    BY RoomOfTyped
  <2>2. [reg[c] EXCEPT !.room = RoomOf(fd[c])] \in Locals
    BY <2>1, FieldTyped DEF TypeOK
  <2>3. reg' = [reg EXCEPT ![c] = [reg[c] EXCEPT !.room = RoomOf(fd[c])]]
    BY <1>1 DEF GetRoom
  <2>4. reg' \in [Conn -> Locals] /\ \A d \in Conn : d # c => reg'[d] = reg[d]
    BY <2>2, <2>3, RegTyped
  <2>5. pc[c] = "getRoom" /\ (Goto(c, "getPeer") \/ Goto(c, "getName"))
    BY <1>1 DEF GetRoom, At
  <2>6. UNCHANGED <<kernel, out, shared, up, view>>
    BY <1>1 DEF GetRoom
  <2>7. pc' \in [Conn -> Label] /\ HandlersTyped'
    BY <2>4, <2>5, <2>6, QuietStep DEF Label
  <2>8. QED
    BY <2>4, <2>6, <2>7 DEF TypeOK, kernel, shared, view
<1>2. CASE GetPeer(c)
  <2> DEFINE w == IF rooms[reg[c].room].first = fd[c] THEN rooms[reg[c].room].second
                                                     ELSE rooms[reg[c].room].first
  <2>1. w \in Word
    BY DEF TypeOK, Locals, Seat
  <2>2. [reg[c] EXCEPT !.other = w] \in Locals
    BY <2>1, FieldTyped DEF TypeOK
  <2>3. reg' = [reg EXCEPT ![c] = [reg[c] EXCEPT !.other = w]]
    BY <1>2 DEF GetPeer
  <2>4. reg' \in [Conn -> Locals] /\ \A d \in Conn : d # c => reg'[d] = reg[d]
    BY <2>2, <2>3, RegTyped
  <2>5. pc[c] = "getPeer" /\ Goto(c, "getName")
    BY <1>2 DEF GetPeer, At
  <2>6. UNCHANGED <<kernel, out, shared, up, view>>
    BY <1>2 DEF GetPeer
  <2>7. pc' \in [Conn -> Label] /\ HandlersTyped'
    BY <2>4, <2>5, <2>6, QuietStep DEF Label
  <2>8. QED
    BY <2>4, <2>6, <2>7 DEF TypeOK, kernel, shared, view
<1>3. CASE CheckRoom(c)
  <2>1. /\ pc[c] = "check" /\ fd[c] \in Word
        /\ reg[c].room \in 0 .. NumRooms /\ NoName \in Name \cup {NoName}
    BY <1>3, WordHoldsFd DEF CheckRoom, At, HandlersTyped, TypeOK, Locals
  <2>2. \/ Goto(c, "seat") /\ UNCHANGED out
        \/ Finish(c, To(fd[c], "3", NoName, reg[c].room))
        \/ Finish(c, To(fd[c], "4", NoName, reg[c].room))
    BY <1>3 DEF CheckRoom
  <2>3. \A k \in {"3", "4"} :
          /\ To(fd[c], k, NoName, reg[c].room) \in Seq(Word \X Reply)
          /\ Len(To(fd[c], k, NoName, reg[c].room)) = 1
          /\ To(fd[c], k, NoName, reg[c].room)[1] =
               <<fd[c], [kind |-> k, name |-> NoName, room |-> reg[c].room]>>
    <3> TAKE k \in {"3", "4"}
    <3>1. k \in {"line", "20", "21", "2", "3", "4", "5", "6"}
      OBVIOUS
    <3>2. NoName \in Name \cup {NoName} /\ fd[c] \in Word /\ reg[c].room \in 0 .. NumRooms
      BY <2>1
    <3>3. QED
      BY <3>1, <3>2 DEF To, Reply
  <2>4. /\ \/ Goto(c, "seat") \/ Goto(c, "send")
        /\ out' \in [Conn -> Seq(Word \X Reply)]
        /\ \A d \in Conn : \A i \in 1 .. Len(out'[d]) :
              out'[d][i][2].kind = "21" => out'[d][i][2].name \in Name
    <3>1. CASE Goto(c, "seat") /\ UNCHANGED out
      BY <3>1 DEF TypeOK, HandlersTyped
    <3>2. ASSUME NEW k \in {"3", "4"}, Finish(c, To(fd[c], k, NoName, reg[c].room))
          PROVE  <2>4!2 /\ <2>4!3 /\ Goto(c, "send")
      BY <2>1, <2>3, <3>2, FinishTyped
    <3>3. QED
      BY <2>2, <3>1, <3>2
  <2>5. /\ pc' \in [Conn -> Label]
        /\ \A d \in Conn : (pc'[d] # "new" => pc[d] # "new")
                             /\ (pc'[d] = "add" => pc[d] = "add" /\ d # c)
    BY <2>1, <2>4, GotoTyped DEF Label
  <2>6. UNCHANGED <<kernel, reg, shared, up, view>>
    BY <1>3 DEF CheckRoom
  <2>7. QED
    BY <2>4, <2>5, <2>6 DEF TypeOK, HandlersTyped, kernel, shared, view
<1>4. CASE TakeSeat(c)
  <2>1. /\ pc[c] = "seat" /\ fd[c] \in Fd /\ fd[c] \in Word
        /\ reg[c].room \in 0 .. NumRooms /\ NoName \in Name \cup {NoName}
    BY <1>4, WordHoldsFd DEF TakeSeat, At, HandlersTyped, TypeOK, Locals
  <2>2. rooms' \in [0 .. NumRooms -> Seat]
    BY <1>4, <2>1, SeatTyped DEF TakeSeat, TypeOK
  <2>3. active_sockets' \in SUBSET Fd
    BY <1>4, <2>1 DEF TakeSeat, TypeOK
  <2>4. Finish(c, To(fd[c], "2", NoName, reg[c].room))
    BY <1>4 DEF TakeSeat
  <2>5. /\ To(fd[c], "2", NoName, reg[c].room) \in Seq(Word \X Reply)
        /\ Len(To(fd[c], "2", NoName, reg[c].room)) = 1
        /\ To(fd[c], "2", NoName, reg[c].room)[1] =
             <<fd[c], [kind |-> "2", name |-> NoName, room |-> reg[c].room]>>
    <3>1. /\ NoName \in Name \cup {NoName} /\ fd[c] \in Word /\ reg[c].room \in 0 .. NumRooms
          /\ "2" \in {"line", "20", "21", "2", "3", "4", "5", "6"}
      BY <2>1
    <3>2. QED
      BY <3>1 DEF To, Reply
  <2>6. /\ Goto(c, "send")
        /\ out' \in [Conn -> Seq(Word \X Reply)]
        /\ \A d \in Conn : \A i \in 1 .. Len(out'[d]) :
              out'[d][i][2].kind = "21" => out'[d][i][2].name \in Name
    BY <2>1, <2>4, <2>5, FinishTyped
  <2>7. /\ pc' \in [Conn -> Label]
        /\ \A d \in Conn : (pc'[d] # "new" => pc[d] # "new")
                             /\ (pc'[d] = "add" => pc[d] = "add" /\ d # c)
    BY <2>1, <2>6, GotoTyped DEF Label
  <2>8. UNCHANGED <<kernel, reg, client_sockets, client_mtx, up, view>>
    BY <1>4 DEF TakeSeat
  <2>9. QED
    BY <2>2, <2>3, <2>6, <2>7, <2>8 DEF TypeOK, HandlersTyped, kernel, view
<1>5. QED
  BY <1>1, <1>2, <1>3, <1>4 DEF Rooms

LEMMA LeaveTyped ==
  ASSUME Typed, NEW c \in Conn, Leave(c) PROVE Typed'
<1> USE DEF Typed
<1>1. reg[c] \in Locals /\ reg[c].room \in 0 .. NumRooms /\ reg[c].other \in Word
      /\ reg[c].name \in Name \cup {NoName} /\ reg[c].snap \in SUBSET Fd
  BY DEF TypeOK, Locals
<1>2. CASE TestSeat(c)
  <2> DEFINE b == (rooms[reg[c].room].first = fd[c])
  <2>1. reg' = [reg EXCEPT ![c] = [reg[c] EXCEPT !.first = b]]
    BY <1>2 DEF TestSeat
  <2>2. [reg[c] EXCEPT !.first = b] \in Locals
    BY <1>1, FieldTyped
  <2>3. reg' \in [Conn -> Locals] /\ \A d \in Conn : d # c => reg'[d] = reg[d]
    BY <2>1, <2>2, RegTyped
  <2>4. UNCHANGED <<kernel, out, shared, up, view>>
    BY <1>2 DEF TestSeat
  <2>5. pc' \in [Conn -> Label] /\ HandlersTyped'
    BY <1>2, <2>3, <2>4, QuietStep DEF TestSeat, At, Label
  <2>6. QED
    BY <2>3, <2>4, <2>5 DEF TypeOK, kernel, shared, view
<1>3. CASE VacateSeat(c)
  <2>1. rooms' \in [0 .. NumRooms -> Seat]
    BY <1>1, <1>3, SeatTyped, WordHoldsFd DEF VacateSeat
  <2>2. UNCHANGED <<kernel, reg, out, client_sockets, active_sockets, client_mtx, up, view>>
    BY <1>3 DEF VacateSeat
  <2>3. pc' \in [Conn -> Label] /\ HandlersTyped'
    BY <1>3, <2>2, QuietStep DEF VacateSeat, At, Label
  <2>4. QED
    BY <2>1, <2>2, <2>3 DEF TypeOK, kernel, view
<1>4. CASE ReadOther(c)
  <2> DEFINE w == IF reg[c].first THEN rooms[reg[c].room].second ELSE rooms[reg[c].room].first
  <2>1. w \in Word
    BY <1>1 DEF TypeOK, Seat
  <2>2. reg' = [reg EXCEPT ![c] = [reg[c] EXCEPT !.other = w]]
    BY <1>4 DEF ReadOther
  <2>3. [reg[c] EXCEPT !.other = w] \in Locals
    BY <1>1, <2>1, FieldTyped
  <2>4. reg' \in [Conn -> Locals] /\ \A d \in Conn : d # c => reg'[d] = reg[d]
    BY <2>2, <2>3, RegTyped
  <2>5. UNCHANGED <<kernel, out, shared, up, view>>
    BY <1>4 DEF ReadOther
  <2>6. pc' \in [Conn -> Label] /\ HandlersTyped'
    BY <1>4, <2>4, <2>5, QuietStep DEF ReadOther, At, Label
  <2>7. QED
    BY <2>4, <2>5, <2>6 DEF TypeOK, kernel, shared, view
<1>5. CASE BeginForget(c)
  <2>1. reg' = [reg EXCEPT ![c] = [reg[c] EXCEPT !.snap = active_sockets]]
    BY <1>5 DEF BeginForget
  <2>2. [reg[c] EXCEPT !.snap = active_sockets] \in Locals
    BY <1>1, FieldTyped DEF TypeOK
  <2>3. reg' \in [Conn -> Locals] /\ \A d \in Conn : d # c => reg'[d] = reg[d]
    BY <2>1, <2>2, RegTyped
  <2>4. UNCHANGED <<kernel, out, shared, up, view>>
    BY <1>5 DEF BeginForget
  <2>5. pc' \in [Conn -> Label] /\ HandlersTyped'
    BY <1>5, <2>3, <2>4, QuietStep DEF BeginForget, At, Label
  <2>6. QED
    BY <2>3, <2>4, <2>5 DEF TypeOK, kernel, shared, view
<1>6. CASE EndForget(c)
  <2> DEFINE first == To(fd[c], "5", NoName, reg[c].room)
             second == To(reg[c].other, "6", reg[c].name, reg[c].room)
             msgs == first \o IF reg[c].other # 0 THEN second ELSE <<>>
  <2>1. pc[c] = "forget2" /\ fd[c] \in Word
    BY <1>6, WordHoldsFd DEF EndForget, At, HandlersTyped
  <2>2. active_sockets' \in SUBSET Fd /\ up' \in BOOLEAN
    BY <1>1, <1>6 DEF EndForget, TypeOK
  <2>3. /\ first \in Seq(Word \X Reply) /\ Len(first) = 1 /\ first[1][2].kind = "5"
        /\ second \in Seq(Word \X Reply) /\ Len(second) = 1 /\ second[1][2].kind = "6"
    BY <1>1, <2>1 DEF To, Reply
  <2>4. msgs \in Seq(Word \X Reply) /\ \A i \in 1 .. Len(msgs) : msgs[i][2].kind # "21"
    <3> HIDE DEF first, second
    <3>1. QED
      BY <2>3
  <2>5. Finish(c, msgs)
    BY <1>6 DEF EndForget
  <2>6. /\ Goto(c, "send")
        /\ out' \in [Conn -> Seq(Word \X Reply)]
        /\ \A d \in Conn : \A i \in 1 .. Len(out'[d]) :
              out'[d][i][2].kind = "21" => out'[d][i][2].name \in Name
    <3> HIDE DEF msgs
    <3>1. QED
      BY <2>1, <2>4, <2>5, FinishTyped
  <2>7. /\ pc' \in [Conn -> Label]
        /\ \A d \in Conn : (pc'[d] # "new" => pc[d] # "new")
                             /\ (pc'[d] = "add" => pc[d] = "add" /\ d # c)
    BY <2>1, <2>6, GotoTyped DEF Label
  <2>8. UNCHANGED <<kernel, reg, client_sockets, rooms, client_mtx, view>>
    BY <1>6 DEF EndForget
  <2>9. QED
    BY <2>2, <2>6, <2>7, <2>8 DEF TypeOK, HandlersTyped, kernel, view
<1>7. QED
  BY <1>2, <1>3, <1>4, <1>5, <1>6 DEF Leave

LEMMA AdminTyped ==
  ASSUME Typed, NEW c \in Conn, Admin(c) PROVE Typed'
<1> USE DEF Typed
<1>1. reg[c] \in Locals /\ reg[c].todo \in SUBSET Fd
  BY DEF TypeOK, Locals
<1>2. CASE LockBroadcast(c)
  <2> DEFINE r == [reg[c] EXCEPT !.snap = active_sockets, !.todo = active_sockets]
  <2>1. reg' = [reg EXCEPT ![c] = r]
    BY <1>2 DEF LockBroadcast
  <2>2. r \in Locals
    BY <1>1, FieldTyped DEF TypeOK
  <2>3. reg' \in [Conn -> Locals] /\ \A d \in Conn : d # c => reg'[d] = reg[d]
    BY <2>1, <2>2, RegTyped
  <2>4. UNCHANGED <<kernel, out, client_sockets, rooms, active_sockets, up, view>> /\ client_mtx' = c
    BY <1>2 DEF LockBroadcast
  <2>5. pc' \in [Conn -> Label] /\ HandlersTyped'
    BY <1>2, <2>3, <2>4, QuietStep DEF LockBroadcast, At, Label
  <2>6. QED
    BY <2>3, <2>4, <2>5 DEF TypeOK, kernel, view
<1>3. CASE BroadcastOne(c)
  <2> DEFINE m == [kind |-> "line", name |-> NoName, room |-> 0]
  <2>1. PICK s \in reg[c].todo :
          /\ reg' = [reg EXCEPT ![c].todo = @ \ {s}]
          /\ \E t \in IF active_sockets = reg[c].snap THEN {s} ELSE Word : Deliver(t, m)
    BY <1>3 DEF BroadcastOne
  <2>2. PICK t \in Word : Deliver(t, m)
    BY <1>1, <2>1, WordHoldsFd
  <2>3. m \in Reply /\ m.kind # "21"
    BY NoRoom DEF Reply
  <2>4. /\ names' \in [Conn -> SUBSET Name]
        /\ joined' \in [Conn -> SUBSET (0 .. NumRooms)]
        /\ up' \in BOOLEAN
    <3> HIDE DEF m
    <3>1. QED
      BY <2>2, <2>3, DeliverTyped
  <2>5. reg' = [reg EXCEPT ![c] = [reg[c] EXCEPT !.todo = reg[c].todo \ {s}]]
    BY <2>1
  <2>6. [reg[c] EXCEPT !.todo = reg[c].todo \ {s}] \in Locals
    <3>1. reg[c].todo \ {s} \in SUBSET Fd
      BY <1>1
    <3>2. QED
      BY <1>1, <3>1, FieldTyped
  <2>7. reg' \in [Conn -> Locals] /\ \A d \in Conn : d # c => reg'[d] = reg[d]
    BY <2>5, <2>6, RegTyped
  <2>8. pc[c] = "loop" /\ UNCHANGED <<kernel, pc, out, shared>>
    BY <1>3 DEF BroadcastOne, At
  <2>9. QED
    BY <2>4, <2>7, <2>8 DEF TypeOK, HandlersTyped, kernel, shared
<1>4. CASE UnlockBroadcast(c)
  <2>1. reg' \in [Conn -> Locals] /\ \A d \in Conn : d # c => reg'[d] = reg[d]
    BY <1>4, IdleTyped, RegTyped DEF UnlockBroadcast
  <2>2. UNCHANGED <<kernel, out, client_sockets, rooms, active_sockets, up, view>> /\ client_mtx' = None
    BY <1>4 DEF UnlockBroadcast
  <2>3. pc' \in [Conn -> Label] /\ HandlersTyped'
    BY <1>4, <2>1, <2>2, QuietStep DEF UnlockBroadcast, At, Label
  <2>4. QED
    BY <2>1, <2>2, <2>3 DEF TypeOK, kernel, view
<1>5. QED
  BY <1>2, <1>3, <1>4 DEF Admin

LEMMA AlwaysTyped == Spec => []Typed
<1>1. Init => Typed
  BY NoRoom, IdleTyped, WordHoldsFd DEF Init, Typed, TypeOK, HandlersTyped, Label, Seat, Word
<1>2. Typed /\ [Next]_vars => Typed'
  <2> SUFFICES ASSUME Typed, [Next]_vars PROVE Typed'
    OBVIOUS
  <2>1. CASE UNCHANGED vars
    BY <2>1 DEF vars, kernel, shared, view, Typed, TypeOK, HandlersTyped
  <2>2. QED
    BY <2>1, SocketTyped, NamesTyped, RoomsTyped, LeaveTyped, AdminTyped DEF Next
<1>3. QED
  BY <1>1, <1>2, PTL DEF Spec

(* Every variable keeps its type, whatever clients send.                   *)
THEOREM Typing == Spec => []TypeOK
<1>1. Typed => TypeOK
  BY DEF Typed
<1>2. QED
  BY <1>1, AlwaysTyped, PTL

-----------------------------------------------------------------------------
(* Nicknames, descriptors and first seats of ChatServer, as long as no     *)
(* client sends '3': the web client never does (ChatLayout.tsx:177-205).   *)
(*                                                                         *)
(* The argument: a handler that runs owns the number it was given, so two  *)
(* of them have two numbers; a nickname granted to a client is bound to    *)
(* that client's number, and a bound name is never bound anew.  A handler  *)
(* that is about to clear a first seat found its own number there, and     *)
(* nobody else writes to a first seat that is taken.                       *)

NoLogout == \A k \in 1 .. Len(Script) : "leaveApp" \notin Script[k]

Running(c) == pc[c] \notin {"new", "done"}

OwnFd ==
    \A c \in Conn : /\ pc[c] = "new" => fd[c] = 0 /\ out[c] = <<>> /\ names[c] = {}
                    /\ Running(c) => open[fd[c]] = c
OpenIsRead == \A f \in Fd, c \in Conn : open[f] = c => fd[c] = f /\ Running(c)
NobodyLeaves ==
    \A c \in Conn : reg[c].op # "leaveApp" /\ pc[c] \notin {"erase", "erase2", "closeFd"}
GrantsBound ==
    \A c \in Conn : \A i \in 1 .. Len(out[c]) :
        out[c][i][2].kind = "21"
            => out[c][i][1] = fd[c] /\ client_sockets[out[c][i][2].name] = fd[c]
NamesBound == \A c \in Conn : \A n \in names[c] : client_sockets[n] = fd[c]

Bound == OwnFd /\ OpenIsRead /\ NobodyLeaves /\ GrantsBound /\ NamesBound

-----------------------------------------------------------------------------
(* A step of a running handler that opens, closes and grants nothing.      *)
LEMMA QuietKeepsBound ==
  ASSUME Typed, Bound, NEW c \in Conn, Running(c),
         UNCHANGED <<open, fd, client_sockets, names>>,
         NEW l \in Label \ {"new", "done", "erase", "erase2", "closeFd"},
         Goto(c, l),
         \A d \in Conn : reg'[d].op # "leaveApp",
         \A d \in Conn : \/ out'[d] = out[d]
                         \/ d = c /\ \A i \in 1 .. Len(out'[d]) : out'[d][i][2].kind # "21"
  PROVE  Bound'
<1>1. \A d \in Conn : /\ pc'[d] = IF d = c THEN l ELSE pc[d]
                      /\ (pc'[d] = "new") = (pc[d] = "new")
                      /\ Running(d)' = Running(d)
  BY DEF Typed, TypeOK, Goto, Running
<1>2. OwnFd'
  BY <1>1 DEF Bound, OwnFd, Running
<1>3. OpenIsRead'
  BY <1>1 DEF Bound, OpenIsRead
<1>4. NobodyLeaves'
  BY <1>1 DEF Bound, NobodyLeaves
<1>5. GrantsBound'
  BY DEF Bound, GrantsBound
<1>6. NamesBound'
  BY DEF Bound, NamesBound
<1>7. QED
  BY <1>2, <1>3, <1>4, <1>5, <1>6 DEF Bound

(* A step that assigns one local of a handler does not change its case.    *)
LEMMA FieldKeepsOp ==
  ASSUME NEW r \in Locals, NEW v, NEW w
  PROVE  /\ [r EXCEPT !.name = v].op = r.op
         /\ [r EXCEPT !.room = v].op = r.op
         /\ [r EXCEPT !.other = v].op = r.op
         /\ [r EXCEPT !.snap = v].op = r.op
         /\ [r EXCEPT !.todo = v].op = r.op
         /\ [r EXCEPT !.snap = v, !.todo = w].op = r.op
BY DEF Locals

LEMMA StillNobodyLeaves ==
  ASSUME Typed, Bound, NEW c \in Conn, NEW r, r.op = reg[c].op \/ r = Idle,
         reg' = [reg EXCEPT ![c] = r]
  PROVE  \A d \in Conn : reg'[d].op # "leaveApp"
BY IdleTyped DEF Typed, TypeOK, Bound, NobodyLeaves

-----------------------------------------------------------------------------
LEMMA SocketKeepsBound ==
  ASSUME NoLogout, Typed, Bound, NEW c \in Conn, Socket(c) PROVE Bound'
<1>1. CASE Accept(c)
  <2>1. PICK f \in Fd : /\ open[f] = None
                        /\ open' = [open EXCEPT ![f] = c]
                        /\ fd' = [fd EXCEPT ![c] = f]
    BY <1>1 DEF Accept
  <2>2. /\ pc[c] = "new" /\ pc' = [pc EXCEPT ![c] = "recv"]
        /\ UNCHANGED <<reg, out, client_sockets, names>>
        /\ out[c] = <<>> /\ names[c] = {}
    BY <1>1 DEF Accept, At, Goto, shared, view, Bound, OwnFd
  <2>3. \A d \in Conn : /\ d # c => pc'[d] = pc[d] /\ fd'[d] = fd[d]
                        /\ Running(d)' = (Running(d) \/ d = c)
    BY <2>1, <2>2 DEF Typed, TypeOK, Running
  <2>4. OwnFd' /\ OpenIsRead'
    BY <2>1, <2>2, <2>3, NullAssumption DEF Typed, TypeOK, Bound, OwnFd, OpenIsRead, Running
  <2>5. NobodyLeaves'
    BY <2>2 DEF Typed, TypeOK, Bound, NobodyLeaves
  <2>6. GrantsBound' /\ NamesBound'
    BY <2>2, <2>3 DEF Bound, GrantsBound, NamesBound
  <2>7. QED
    BY <2>4, <2>5, <2>6 DEF Bound
<1>2. CASE ClientClose(c)
  BY <1>2 DEF ClientClose, shared, view, Bound, OwnFd, OpenIsRead, NobodyLeaves, GrantsBound,
              NamesBound, Running
<1>3. CASE Recv(c)
  <2> DEFINE d == open[fd[c]]
  <2>1. d \in Conn /\ sent[d] + 1 \in 1 .. Len(Script)
    <3>1. fd[c] \in Fd /\ d \in Conn
      BY <1>3 DEF Recv, Typed, TypeOK, HandlersTyped, At
    <3>2. sent[d] \in 0 .. Len(Script) /\ sent[d] < Len(Script)
      BY <1>3, <3>1 DEF Recv, Typed, TypeOK
    <3>3. QED
      BY <3>1, <3>2, ScriptAssumption
  <2>2. PICK op \in Script[sent[d] + 1] :
          \E n \in IF op = "login" THEN Name ELSE {NoName},
             r \in IF op \in {"join", "query"} THEN RoomNo ELSE {0} :
               reg' = [reg EXCEPT ![c] = Begin(op, n, r)] /\ Goto(c, Entry[op])
    BY <1>3 DEF Recv
  <2>3. PICK n, r : reg' = [reg EXCEPT ![c] = Begin(op, n, r)] /\ Goto(c, Entry[op])
    BY <2>2
  <2>4. op \in Ops /\ op # "leaveApp"
    BY <2>1, <2>2, ScriptAssumption DEF NoLogout
  <2>5. /\ Entry[op] \in Label \ {"new", "done", "erase", "erase2", "closeFd"}
        /\ Begin(op, n, r).op = op
    BY <2>4 DEF Entry, Ops, Label, Begin
  <2>6. \A e \in Conn : reg'[e].op # "leaveApp"
    BY <2>3, <2>4, <2>5 DEF Typed, TypeOK, Bound, NobodyLeaves
  <2>7. Running(c) /\ UNCHANGED <<open, fd, client_sockets, names, out>>
    BY <1>3 DEF Recv, At, Running, shared, view
  <2>8. QED
    BY <2>3, <2>5, <2>6, <2>7, QuietKeepsBound
<1>4. CASE Hangup(c)
  <2>1. /\ Running(c) /\ Goto(c, "close")
        /\ UNCHANGED <<open, fd, client_sockets, names, reg, out>>
    BY <1>4 DEF Hangup, At, Running, kernel, shared, view
  <2>2. QED
    BY <2>1, QuietKeepsBound DEF Bound, NobodyLeaves, Label
<1>5. CASE Close(c)
  <2>1. pc[c] = "close" /\ open[fd[c]] = c /\ fd[c] \in Fd
    BY <1>5 DEF Close, At, Bound, NobodyLeaves, OwnFd, Running, Typed, HandlersTyped
  <2>2. /\ open' = [open EXCEPT ![fd[c]] = None]
        /\ pc' = [pc EXCEPT ![c] = "done"]
        /\ reg' = [reg EXCEPT ![c] = Idle]
        /\ UNCHANGED <<fd, out, client_sockets, names>>
    BY <1>5, <2>1 DEF Close, Goto, shared, view
  <2>3. \A e \in Conn : /\ e # c => pc'[e] = pc[e] /\ reg'[e] = reg[e]
                        /\ Running(e)' = (Running(e) /\ e # c)
    BY <2>1, <2>2 DEF Typed, TypeOK, Running
  <2>4. OwnFd' /\ OpenIsRead'
    BY <2>1, <2>2, <2>3, NullAssumption DEF Typed, TypeOK, Bound, OwnFd, OpenIsRead, Running
  <2>5. NobodyLeaves'
    BY <2>2, <2>3, IdleTyped DEF Typed, TypeOK, Bound, NobodyLeaves
  <2>6. GrantsBound' /\ NamesBound'
    BY <2>2 DEF Bound, GrantsBound, NamesBound
  <2>7. QED
    BY <2>4, <2>5, <2>6 DEF Bound
<1>6. CASE Send(c)
  <2> DEFINE s == Head(out[c])[1]
             m == Head(out[c])[2]
  <2>1. /\ out[c] \in Seq(Word \X Reply) /\ out[c] # <<>>
        /\ Head(out[c]) = out[c][1] /\ 1 \in 1 .. Len(out[c])
    BY <1>6 DEF Send, Typed, TypeOK
  <2>2. /\ Running(c) /\ pc[c] = "send" /\ open[fd[c]] = c /\ fd[c] \in Fd
        /\ out' = [out EXCEPT ![c] = Tail(@)] /\ UNCHANGED <<open, fd, client_sockets>>
    BY <1>6 DEF Send, At, Running, kernel, shared, Bound, OwnFd, Typed, HandlersTyped
  <2>3. m.kind = "21" => s = fd[c] /\ client_sockets[m.name] = fd[c]
    BY <2>1 DEF Bound, GrantsBound
  <2>4. \A d \in Conn : \A n \in names'[d] : n \in names[d] \/ (d = c /\ client_sockets[n] = fd[c])
    <3>1. CASE names' = names
      BY <3>1
    <3>2. CASE names' # names
      <4>1. Deliver(s, m)
        BY <1>6 DEF Send
      <4>2. m.kind = "21" /\ names' = [names EXCEPT ![open[s]] = @ \cup {m.name}] /\ s \in Fd
        BY <3>2, <4>1, NullAssumption DEF Deliver, view
      <4>3. open[s] = c
        BY <2>2, <2>3, <4>2
      <4>4. QED
        BY <2>3, <4>2, <4>3 DEF Typed, TypeOK
    <3>3. QED
      BY <3>1, <3>2
  <2>5. \A d \in Conn : /\ pc'[d] = pc[d] \/ (d = c /\ pc'[d] = "recv")
                        /\ reg'[d].op # "leaveApp"
    BY <1>6, IdleTyped DEF Send, Goto, Typed, TypeOK, Bound, NobodyLeaves
  <2>6. \A d \in Conn : Running(d)' = Running(d) /\ (pc'[d] = "new") = (pc[d] = "new")
    BY <2>2, <2>5 DEF Running
  <2>7. \A d \in Conn : d # c => out'[d] = out[d] /\ \A n \in names'[d] : n \in names[d]
    BY <2>2, <2>4 DEF Typed, TypeOK
  <2>8. OwnFd' /\ OpenIsRead'
    BY <2>2, <2>6, <2>7, SocketTyped
       DEF Typed, TypeOK, Bound, OwnFd, OpenIsRead, Running
  <2>9. NobodyLeaves'
    BY <2>5 DEF Bound, NobodyLeaves
  <2>10. GrantsBound'
    <3>1. \A i \in 1 .. Len(Tail(out[c])) :
             i + 1 \in 1 .. Len(out[c]) /\ Tail(out[c])[i] = out[c][i + 1]
      BY <2>1
    <3>2. out'[c] = Tail(out[c])
      BY <2>2 DEF Typed, TypeOK
    <3>3. QED
      BY <2>2, <2>7, <3>1, <3>2 DEF Bound, GrantsBound
  <2>11. NamesBound'
    BY <2>2, <2>4 DEF Bound, NamesBound
  <2>12. QED
    BY <2>8, <2>9, <2>10, <2>11 DEF Bound
<1>7. QED
  BY <1>1, <1>2, <1>3, <1>4, <1>5, <1>6 DEF Socket

LEMMA NamesKeepBound ==
  ASSUME Typed, Bound, NEW c \in Conn, Names(c) PROVE Bound'
<1>1. CASE AddName(c)
  <2> DEFINE n == reg[c].name
  <2>1. /\ pc[c] = "add" /\ Running(c) /\ n \in Name /\ fd[c] \in Fd /\ fd[c] # 0
        /\ UNCHANGED <<open, fd, names, reg>>
    BY <1>1, FdAssumption DEF AddName, At, Running, Typed, HandlersTyped, kernel, view
  <2>2. PICK k \in {"20", "21"} :
          /\ pc' = [pc EXCEPT ![c] = "send"]
          /\ out' = [out EXCEPT ![c] = To(fd[c], k, n, 0)]
          /\ k = "21" => client_sockets[n] = 0
          /\ client_sockets' = IF k = "21" THEN [client_sockets EXCEPT ![n] = fd[c]]
                                           ELSE client_sockets
    BY <1>1 DEF AddName, Finish, Goto
  <2>3. \A d \in Conn : /\ Running(d)' = Running(d)
                        /\ (pc'[d] = "new") = (pc[d] = "new")
                        /\ pc'[d] \notin {"erase", "erase2", "closeFd"}
                        /\ d # c => out'[d] = out[d]
    BY <2>1, <2>2 DEF Typed, TypeOK, Running, Bound, NobodyLeaves
  <2>4. /\ \A x \in Name : client_sockets[x] # 0 => client_sockets'[x] = client_sockets[x]
        /\ k = "21" => client_sockets'[n] = fd[c]
    BY <2>1, <2>2 DEF Typed, TypeOK
  <2>5. OwnFd' /\ OpenIsRead' /\ NobodyLeaves'
    BY <2>1, <2>3 DEF Bound, OwnFd, OpenIsRead, NobodyLeaves, Running
  <2>6. GrantsBound'
    <3>1. ASSUME NEW d \in Conn, NEW i \in 1 .. Len(out'[d]), out'[d][i][2].kind = "21"
          PROVE  out'[d][i][1] = fd[d] /\ client_sockets'[out'[d][i][2].name] = fd[d]
      <4>1. CASE d = c
        <5>1. out'[c] = To(fd[c], k, n, 0)
          BY <2>2 DEF Typed, TypeOK
        <5>2. i = 1 /\ out'[d][i] = <<fd[c], [kind |-> k, name |-> n, room |-> 0]>>
          BY <4>1, <5>1, <3>1 DEF To
        <5>3. QED
          BY <2>4, <3>1, <4>1, <5>2
      <4>2. CASE d # c
        <5>1. out'[d] = out[d] /\ pc[d] # "new"
          BY <2>3, <3>1, <4>2 DEF Bound, OwnFd
        <5>2. /\ out[d][i][1] = fd[d] /\ client_sockets[out[d][i][2].name] = fd[d]
              /\ out[d][i][2].name \in Name
          BY <3>1, <5>1 DEF Bound, GrantsBound, Typed, HandlersTyped
        <5>3. fd[d] # 0
          BY <5>1, FdAssumption DEF Typed, HandlersTyped
        <5>4. QED
          BY <2>4, <5>1, <5>2, <5>3
      <4>3. QED
        BY <4>1, <4>2
    <3>2. QED
      BY <2>1, <3>1 DEF GrantsBound
  <2>7. NamesBound'
    <3>1. ASSUME NEW d \in Conn, NEW x \in names[d] PROVE client_sockets'[x] = fd[d]
      <4>1. x \in Name /\ fd[d] # 0
        BY FdAssumption DEF Typed, TypeOK, HandlersTyped, Bound, OwnFd
      <4>2. QED
        BY <2>4, <4>1 DEF Bound, NamesBound
    <3>2. QED
      BY <2>1, <3>1 DEF NamesBound
  <2>8. QED
    BY <2>5, <2>6, <2>7 DEF Bound
<1>2. CASE GetName(c)
  <2>1. PICK n \in NamesOf(fd[c]) :
          /\ reg' = [reg EXCEPT ![c].name = n]
          /\ \/ reg[c].op = "leaveRoom" /\ Goto(c, "test") /\ UNCHANGED out
             \/ reg[c].op = "leaveApp"
             \/ Finish(c, To(fd[c], "line", n, reg[c].room) \o
                            IF reg[c].other # 0 THEN To(reg[c].other, "line", n, reg[c].room) ELSE <<>>)
    BY <1>2 DEF GetName
  <2>2. /\ Running(c) /\ UNCHANGED <<open, fd, client_sockets, names>>
        /\ \A d \in Conn : reg'[d].op # "leaveApp"
    <3>1. reg[c] \in Locals
      BY DEF Typed, TypeOK
    <3>2. reg' = [reg EXCEPT ![c] = [reg[c] EXCEPT !.name = n]]
      BY <2>1
    <3>3. \A d \in Conn : reg'[d].op # "leaveApp"
      BY <3>1, <3>2, FieldKeepsOp, StillNobodyLeaves
    <3>4. QED
      BY <1>2, <3>3 DEF GetName, At, Running, kernel, shared, view
  <2> DEFINE msgs == To(fd[c], "line", n, reg[c].room) \o
                       IF reg[c].other # 0 THEN To(reg[c].other, "line", n, reg[c].room) ELSE <<>>
  <2>3. \A i \in 1 .. Len(msgs) : msgs[i][2].kind # "21"
    BY DEF To
  <2>4. CASE Goto(c, "test") /\ UNCHANGED out
    BY <2>2, <2>4, QuietKeepsBound DEF Label
  <2>5. CASE Finish(c, msgs)
    <3>1. /\ Goto(c, "send")
          /\ \A d \in Conn : out'[d] = IF d = c THEN msgs ELSE out[d]
      BY <2>5 DEF Finish, Typed, TypeOK
    <3> HIDE DEF msgs
    <3>2. QED
      BY <2>2, <2>3, <3>1, QuietKeepsBound DEF Label
  <2>6. QED
    BY <2>1, <2>4, <2>5 DEF Bound, NobodyLeaves
<1>3. CASE EraseName(c)
  BY <1>3 DEF EraseName, At, Bound, NobodyLeaves
<1>4. QED
  BY <1>1, <1>2, <1>3 DEF Names

LEMMA RoomsKeepBound ==
  ASSUME Typed, Bound, NEW c \in Conn, Rooms(c) PROVE Bound'
<1>1. /\ Running(c) /\ UNCHANGED <<open, fd, client_sockets, names>>
      /\ \A d \in Conn : reg'[d].op # "leaveApp"
  <2>1. reg[c] \in Locals
    BY DEF Typed, TypeOK
  <2>2. CASE GetRoom(c)
    <3>1. reg' = [reg EXCEPT ![c] = [reg[c] EXCEPT !.room = RoomOf(fd[c])]]
      BY <2>2 DEF GetRoom
    <3>2. \A d \in Conn : reg'[d].op # "leaveApp"
      BY <2>1, <3>1, FieldKeepsOp, StillNobodyLeaves
    <3>3. QED
      BY <2>2, <3>2 DEF GetRoom, At, Running, kernel, shared, view
  <2>3. CASE GetPeer(c)
    <3>1. PICK w : reg' = [reg EXCEPT ![c] = [reg[c] EXCEPT !.other = w]]
      BY <2>3 DEF GetPeer
    <3>2. \A d \in Conn : reg'[d].op # "leaveApp"
      BY <2>1, <3>1, FieldKeepsOp, StillNobodyLeaves
    <3>3. QED
      BY <2>3, <3>2 DEF GetPeer, At, Running, kernel, shared, view
  <2>4. CASE CheckRoom(c)
    BY <2>4 DEF CheckRoom, At, Running, kernel, shared, view, Bound, NobodyLeaves
  <2>5. CASE TakeSeat(c)
    <3>1. pc[c] = "seat" /\ UNCHANGED <<kernel, reg, client_sockets, names>>
      BY <2>5 DEF TakeSeat, At, view
    <3>2. QED
      BY <3>1 DEF Running, kernel, Bound, NobodyLeaves
  <2>6. QED
    BY <2>2, <2>3, <2>4, <2>5 DEF Rooms
<1>2. CASE GetRoom(c) \/ GetPeer(c)
  <2>1. PICK l \in {"getPeer", "getName"} : Goto(c, l) /\ UNCHANGED out
    BY <1>2 DEF GetRoom, GetPeer
  <2>2. QED
    BY <1>1, <2>1, QuietKeepsBound DEF Label
<1>3. CASE CheckRoom(c) \/ TakeSeat(c)
  <2>1. \/ Goto(c, "seat") /\ UNCHANGED out
        \/ \E k \in {"2", "3", "4"}, r \in 0 .. NumRooms : Finish(c, To(fd[c], k, NoName, r))
    <3>1. reg[c].room \in 0 .. NumRooms
      BY DEF Typed, TypeOK, Locals
    <3>2. QED
      BY <1>3, <3>1 DEF CheckRoom, TakeSeat
  <2>2. CASE Goto(c, "seat") /\ UNCHANGED out
    BY <1>1, <2>2, QuietKeepsBound DEF Label
  <2>3. ASSUME NEW k \in {"2", "3", "4"}, NEW r \in 0 .. NumRooms, Finish(c, To(fd[c], k, NoName, r))
        PROVE  Bound'
    <3>1. /\ Goto(c, "send")
          /\ \A d \in Conn : out'[d] = IF d = c THEN To(fd[c], k, NoName, r) ELSE out[d]
      BY <2>3 DEF Finish, Typed, TypeOK
    <3>2. \A i \in 1 .. Len(To(fd[c], k, NoName, r)) : To(fd[c], k, NoName, r)[i][2].kind # "21"
      BY DEF To
    <3>3. QED
      BY <1>1, <3>1, <3>2, QuietKeepsBound DEF Label
  <2>4. QED
    BY <2>1, <2>2, <2>3
<1>4. QED
  BY <1>2, <1>3 DEF Rooms

LEMMA LeaveKeepsBound ==
  ASSUME Typed, Bound, NEW c \in Conn, Leave(c) PROVE Bound'
<1>1. reg[c] \in Locals
  BY DEF Typed, TypeOK
<1>2. Running(c) /\ UNCHANGED <<open, fd, client_sockets, names>>
  <2>1. CASE VacateSeat(c)
    <3>1. /\ pc[c] \in {"vacate", "writeSeat"}
          /\ UNCHANGED <<kernel, client_sockets, view>>
      BY <2>1 DEF VacateSeat, At
    <3>2. QED
      BY <3>1 DEF Running, kernel, view
  <2>2. CASE ~VacateSeat(c)
    BY <2>2 DEF Leave, TestSeat, ReadOther, BeginForget, EndForget, At, Running, kernel, shared, view
  <2>3. QED
    BY <2>1, <2>2
<1>3. CASE TestSeat(c) \/ ReadOther(c) \/ BeginForget(c)
  <2>1. PICK l \in {"vacate", "writeSeat", "forget", "forget2"} : Goto(c, l) /\ UNCHANGED out
    BY <1>3 DEF TestSeat, ReadOther, BeginForget
  <2>2. CASE TestSeat(c)
    <3> DEFINE b == (rooms[reg[c].room].first = fd[c])
               r == [reg[c] EXCEPT !.first = b]
    <3>1. reg' = [reg EXCEPT ![c] = r]
      BY <2>2 DEF TestSeat
    <3>2. r.op = reg[c].op
      BY <1>1 DEF Locals
    <3> HIDE DEF r
    <3>3. QED
      BY <1>2, <2>1, <3>1, <3>2, StillNobodyLeaves, QuietKeepsBound DEF Label
  <2>3. CASE ReadOther(c) \/ BeginForget(c)
    <3>1. PICK w : \/ reg' = [reg EXCEPT ![c] = [reg[c] EXCEPT !.other = w]]
                   \/ reg' = [reg EXCEPT ![c] = [reg[c] EXCEPT !.snap = w]]
      BY <2>3 DEF ReadOther, BeginForget
    <3>2. \A d \in Conn : reg'[d].op # "leaveApp"
      <4>1. CASE reg' = [reg EXCEPT ![c] = [reg[c] EXCEPT !.other = w]]
        BY <1>1, <4>1, FieldKeepsOp, StillNobodyLeaves
      <4>2. CASE reg' = [reg EXCEPT ![c] = [reg[c] EXCEPT !.snap = w]]
        BY <1>1, <4>2, FieldKeepsOp, StillNobodyLeaves
      <4>3. QED
        BY <3>1, <4>1, <4>2
    <3>3. QED
      BY <1>2, <2>1, <3>2, QuietKeepsBound DEF Label
  <2>4. QED
    BY <1>3, <2>2, <2>3
<1>4. CASE VacateSeat(c)
  <2>1. PICK l \in {"readOther", "forget"} : Goto(c, l) /\ UNCHANGED <<reg, out>>
    BY <1>4 DEF VacateSeat
  <2>2. QED
    BY <1>2, <2>1, QuietKeepsBound DEF Label, Bound, NobodyLeaves
<1>5. CASE EndForget(c)
  <2> DEFINE msgs == To(fd[c], "5", NoName, reg[c].room) \o
                       IF reg[c].other # 0 THEN To(reg[c].other, "6", reg[c].name, reg[c].room) ELSE <<>>
  <2>1. \A i \in 1 .. Len(msgs) : msgs[i][2].kind # "21"
    BY DEF To
  <2>2. Finish(c, msgs) /\ UNCHANGED reg
    BY <1>5 DEF EndForget
  <2>3. /\ Goto(c, "send")
        /\ \A d \in Conn : out'[d] = IF d = c THEN msgs ELSE out[d]
    BY <2>2 DEF Finish, Typed, TypeOK
  <2> HIDE DEF msgs
  <2>4. QED
    BY <1>2, <2>1, <2>2, <2>3, QuietKeepsBound DEF Label, Bound, NobodyLeaves
<1>6. QED
  BY <1>3, <1>4, <1>5 DEF Leave

LEMMA AdminKeepsBound ==
  ASSUME Typed, Bound, NEW c \in Conn, Admin(c) PROVE Bound'
<1>1. reg[c] \in Locals
  BY DEF Typed, TypeOK
<1>2. CASE LockBroadcast(c) \/ UnlockBroadcast(c)
  <2>1. /\ Running(c) /\ UNCHANGED <<open, fd, client_sockets, names, out>>
    BY <1>2 DEF LockBroadcast, UnlockBroadcast, At, Running, kernel, view
  <2>2. PICK l \in {"loop", "recv"} : Goto(c, l)
    BY <1>2 DEF LockBroadcast, UnlockBroadcast
  <2>3. \A d \in Conn : reg'[d].op # "leaveApp"
    <3>1. CASE LockBroadcast(c)
      <4> DEFINE r == [reg[c] EXCEPT !.snap = active_sockets, !.todo = active_sockets]
      <4>1. reg' = [reg EXCEPT ![c] = r]
        BY <3>1 DEF LockBroadcast
      <4>2. r.op = reg[c].op
        BY <1>1, FieldKeepsOp
      <4> HIDE DEF r
      <4>3. QED
        BY <4>1, <4>2, StillNobodyLeaves
    <3>2. CASE UnlockBroadcast(c)
      BY <3>2, StillNobodyLeaves DEF UnlockBroadcast
    <3>3. QED
      BY <1>2, <3>1, <3>2
  <2>4. QED
    BY <2>1, <2>2, <2>3, QuietKeepsBound DEF Label
<1>3. CASE BroadcastOne(c)
  <2>1. PICK s \in reg[c].todo :
          /\ reg' = [reg EXCEPT ![c] = [reg[c] EXCEPT !.todo = reg[c].todo \ {s}]]
          /\ \E t : Deliver(t, [kind |-> "line", name |-> NoName, room |-> 0])
    BY <1>3 DEF BroadcastOne
  <2>2. names' = names
    BY <2>1 DEF Deliver, view
  <2>3. \A d \in Conn : reg'[d].op # "leaveApp"
    BY <1>1, <2>1, FieldKeepsOp, StillNobodyLeaves
  <2>4. UNCHANGED <<open, fd, pc, out, client_sockets>>
    BY <1>3 DEF BroadcastOne, kernel, shared
  <2>5. QED
    BY <2>2, <2>3, <2>4 DEF Bound, OwnFd, OpenIsRead, NobodyLeaves, GrantsBound, NamesBound, Running
<1>4. QED
  BY <1>2, <1>3 DEF Admin

-----------------------------------------------------------------------------
LEMMA BoundAlways == ASSUME NoLogout PROVE Spec => []Bound
<1>1. Init => Bound
  BY IdleTyped, NullAssumption
     DEF Init, Bound, OwnFd, OpenIsRead, NobodyLeaves, GrantsBound, NamesBound, Running
<1>2. Typed /\ Bound /\ [Next]_vars => Bound'
  <2> SUFFICES ASSUME Typed, Bound, [Next]_vars PROVE Bound'
    OBVIOUS
  <2>1. CASE UNCHANGED vars
    BY <2>1 DEF vars, kernel, shared, view, Bound, OwnFd, OpenIsRead, NobodyLeaves,
                GrantsBound, NamesBound, Running
  <2>2. QED
    BY <2>1, SocketKeepsBound, NamesKeepBound, RoomsKeepBound, LeaveKeepsBound, AdminKeepsBound
       DEF Next
<1>3. QED
  BY <1>1, <1>2, AlwaysTyped, PTL DEF Spec

(* As long as nobody sends '3', a descriptor is read and closed by one     *)
(* handler at a time, however connections break off and numbers are reused.*)
THEOREM ReadByOne == ASSUME NoLogout PROVE Spec => []OneReader
<1>1. Bound => OneReader
  <2> SUFFICES ASSUME Bound, NEW c \in Conn, NEW d \in Conn, c # d, fd[c] = fd[d], fd[c] # 0
               PROVE  pc[c] = "done" \/ pc[d] = "done"
    BY DEF OneReader
  <2>1. pc[c] # "new" /\ pc[d] # "new"
    BY DEF Bound, OwnFd
  <2>2. ~(Running(c) /\ Running(d))
    BY DEF Bound, OwnFd
  <2>3. QED
    BY <2>1, <2>2 DEF Running
<1>2. QED
  BY <1>1, BoundAlways, PTL

(* As long as nobody sends '3', add_socket_name grants a nickname to one   *)
(* connected client at most, for any number of clients, names and rooms.   *)
THEOREM NameGrantedOnce == ASSUME NoLogout PROVE Spec => []NameHeldOnce
<1>1. Typed /\ Bound => NameHeldOnce
  <2> SUFFICES ASSUME Typed, Bound, NEW c \in Conn, NEW d \in Conn, c # d, Serving(c), Serving(d),
                      NEW n \in names[c], n \in names[d]
               PROVE  FALSE
    BY DEF NameHeldOnce
  <2>1. fd[c] # fd[d]
    BY DEF Serving, Bound, OpenIsRead, OwnFd
  <2>2. client_sockets[n] = fd[c] /\ client_sockets[n] = fd[d]
    BY DEF Bound, NamesBound
  <2>3. QED
    BY <2>1, <2>2
<1>2. QED
  BY <1>1, AlwaysTyped, BoundAlways, PTL

-----------------------------------------------------------------------------
(* First seats.  Case '7' holds no lock between the test of the seat and   *)
(* the write that clears it; what the test found stays true meanwhile.     *)

ClearsFirst(c) == pc[c] \in {"vacate", "writeSeat"} /\ reg[c].first
LeaverFirst == \A c \in Conn : ClearsFirst(c) => rooms[reg[c].room].first = fd[c]

(* A step that leaves the seats alone and takes its handler elsewhere.     *)
LEMMA OthersKeepFirst ==
  ASSUME LeaverFirst, NEW c \in Conn, rooms' = rooms, pc'[c] \notin {"vacate", "writeSeat"},
         \A d \in Conn : d # c => pc'[d] = pc[d] /\ reg'[d] = reg[d] /\ fd'[d] = fd[d]
  PROVE  LeaverFirst'
BY DEF LeaverFirst, ClearsFirst

(* Two handlers never clear the first seat of one room at the same time.   *)
LEMMA OneClears ==
  ASSUME Bound, LeaverFirst, NEW c \in Conn, NEW d \in Conn,
         ClearsFirst(c), ClearsFirst(d), reg[c].room = reg[d].room
  PROVE  c = d
<1>1. fd[c] = fd[d]
  BY DEF LeaverFirst
<1>2. Running(c) /\ Running(d)
  BY DEF ClearsFirst, Running
<1>3. QED
  BY <1>1, <1>2 DEF Bound, OwnFd

LEMMA StepKeepsFirst ==
  ASSUME Typed, Bound, LeaverFirst, NEW c \in Conn,
         Socket(c) \/ Names(c) \/ Rooms(c) \/ Leave(c) \/ Admin(c)
  PROVE  LeaverFirst'
<1>1. CASE Socket(c)
  <2>1. CASE Recv(c)
    <3>1. PICK op \in Ops : /\ pc' = [pc EXCEPT ![c] = Entry[op]]
                            /\ \E n, r : reg' = [reg EXCEPT ![c] = Begin(op, n, r)]
      <4>1. PICK d \in Conn : sent[d] + 1 \in 1 .. Len(Script)
                              /\ \E op \in Script[sent[d] + 1] :
                                    /\ \E n, r : reg' = [reg EXCEPT ![c] = Begin(op, n, r)]
                                    /\ pc' = [pc EXCEPT ![c] = Entry[op]]
        <5>1. fd[c] \in Fd /\ open[fd[c]] \in Conn
          BY <2>1 DEF Recv, Typed, TypeOK, HandlersTyped, At
        <5>2. sent[open[fd[c]]] + 1 \in 1 .. Len(Script)
          BY <2>1, <5>1, ScriptAssumption DEF Recv, Typed, TypeOK
        <5>3. QED
          BY <2>1, <5>1, <5>2 DEF Recv, Goto
      <4>2. PICK op \in Script[sent[d] + 1] : /\ \E n, r : reg' = [reg EXCEPT ![c] = Begin(op, n, r)]
                                              /\ pc' = [pc EXCEPT ![c] = Entry[op]]
        BY <4>1
      <4>3. op \in Ops
        BY <4>1, <4>2, ScriptAssumption
      <4>4. QED
        BY <4>2, <4>3
    <3>2. Entry[op] \notin {"vacate", "writeSeat"}
      BY DEF Entry, Ops
    <3>3. rooms' = rooms /\ fd' = fd
      BY <2>1 DEF Recv, shared
    <3>4. QED
      BY <3>1, <3>2, <3>3, OthersKeepFirst DEF Typed, TypeOK
  <2>2. CASE ClientClose(c)
    BY <2>2 DEF ClientClose, shared, LeaverFirst, ClearsFirst
  <2>3. CASE Accept(c)
    <3>1. /\ rooms' = rooms /\ pc' = [pc EXCEPT ![c] = "recv"] /\ reg' = reg
          /\ \E f \in Fd : fd' = [fd EXCEPT ![c] = f]
      BY <2>3 DEF Accept, Goto, shared
    <3>2. QED
      BY <3>1, OthersKeepFirst DEF Typed, TypeOK
  <2>4. CASE Hangup(c)
    <3>1. rooms' = rooms /\ pc' = [pc EXCEPT ![c] = "close"] /\ UNCHANGED <<reg, fd>>
      BY <2>4 DEF Hangup, Goto, shared, kernel
    <3>2. QED
      BY <3>1, OthersKeepFirst DEF Typed, TypeOK
  <2>5. CASE Close(c)
    <3>1. /\ rooms' = rooms /\ fd' = fd /\ reg' = [reg EXCEPT ![c] = Idle]
          /\ \E l \in {"recv", "done"} : pc' = [pc EXCEPT ![c] = l]
      BY <2>5 DEF Close, Goto, shared
    <3>2. QED
      BY <3>1, OthersKeepFirst DEF Typed, TypeOK
  <2>6. CASE Send(c)
    <3>1. /\ pc[c] = "send" /\ rooms' = rooms /\ fd' = fd
          /\ \/ UNCHANGED <<pc, reg>>
             \/ pc' = [pc EXCEPT ![c] = "recv"] /\ reg' = [reg EXCEPT ![c] = Idle]
      BY <2>6 DEF Send, At, Goto, shared, kernel
    <3>2. QED
      BY <3>1, OthersKeepFirst DEF Typed, TypeOK
  <2>7. QED
    BY <1>1, <2>1, <2>2, <2>3, <2>4, <2>5, <2>6 DEF Socket
<1>2. CASE Names(c)
  <2>1. rooms' = rooms /\ fd' = fd
    BY <1>2 DEF Names, AddName, GetName, EraseName, kernel, shared
  <2>2. PICK l \in Label \ {"vacate", "writeSeat"} : pc' = [pc EXCEPT ![c] = l]
    BY <1>2 DEF Names, AddName, GetName, EraseName, Finish, Goto, Label
  <2>3. reg' = reg \/ \E r : reg' = [reg EXCEPT ![c] = r]
    BY <1>2 DEF Names, AddName, GetName, EraseName
  <2>4. QED
    BY <2>1, <2>2, <2>3, OthersKeepFirst DEF Typed, TypeOK
<1>3. CASE GetRoom(c) \/ GetPeer(c) \/ CheckRoom(c)
  <2>1. rooms' = rooms /\ fd' = fd
    BY <1>3 DEF GetRoom, GetPeer, CheckRoom, kernel, shared
  <2>2. PICK l \in Label \ {"vacate", "writeSeat"} : pc' = [pc EXCEPT ![c] = l]
    BY <1>3 DEF GetRoom, GetPeer, CheckRoom, Finish, Goto, Label
  <2>3. reg' = reg \/ \E r : reg' = [reg EXCEPT ![c] = r]
    BY <1>3 DEF GetRoom, GetPeer, CheckRoom
  <2>4. QED
    BY <2>1, <2>2, <2>3, OthersKeepFirst DEF Typed, TypeOK
<1>4. CASE TakeSeat(c)
  <2> DEFINE r == reg[c].room
  <2>1. /\ rooms' = IF rooms[r].first = 0 THEN [rooms EXCEPT ![r].first = fd[c]]
                                          ELSE [rooms EXCEPT ![r].second = fd[c]]
        /\ pc' = [pc EXCEPT ![c] = "send"] /\ UNCHANGED <<reg, fd>>
    BY <1>4 DEF TakeSeat, Finish, Goto, kernel
  <2>2. r \in 0 .. NumRooms
    BY DEF Typed, TypeOK, Locals
  <2>3. \A q \in 0 .. NumRooms : rooms[q].first # 0 => rooms'[q].first = rooms[q].first
    BY <2>1, <2>2 DEF Typed, TypeOK, Seat
  <2>4. ASSUME NEW d \in Conn, ClearsFirst(d)' PROVE rooms'[reg'[d].room].first = fd'[d]
    <3>1. d # c /\ ClearsFirst(d)
      BY <2>1, <2>4 DEF ClearsFirst, Typed, TypeOK
    <3>2. rooms[reg[d].room].first = fd[d] /\ reg[d].room \in 0 .. NumRooms
      BY <3>1 DEF LeaverFirst, Typed, TypeOK, Locals
    <3>3. fd[d] # 0
      BY <3>1, FdAssumption DEF ClearsFirst, Typed, HandlersTyped
    <3>4. QED
      BY <2>1, <2>3, <3>2, <3>3
  <2>5. QED
    BY <2>4 DEF LeaverFirst
<1>5. CASE TestSeat(c)
  <2> DEFINE r == [reg[c] EXCEPT !.first = (rooms[reg[c].room].first = fd[c])]
  <2>1. reg' = [reg EXCEPT ![c] = r] /\ UNCHANGED <<rooms, fd>>
        /\ pc' = [pc EXCEPT ![c] = "vacate"]
    BY <1>5 DEF TestSeat, Goto, kernel, shared
  <2>2. r.first = (rooms[reg[c].room].first = fd[c]) /\ r.room = reg[c].room
    BY DEF Typed, TypeOK, Locals
  <2> HIDE DEF r
  <2>3. QED
    BY <2>1, <2>2 DEF LeaverFirst, ClearsFirst, Typed, TypeOK
<1>6. CASE VacateSeat(c)
  <2> DEFINE r == reg[c].room
  <2>1. /\ pc[c] \in {"vacate", "writeSeat"} /\ UNCHANGED <<reg, fd>>
        /\ rooms' = IF reg[c].first THEN [rooms EXCEPT ![r].first = 0]
                                    ELSE [rooms EXCEPT ![r].second = 0]
        /\ \E l \in {"readOther", "forget"} : pc' = [pc EXCEPT ![c] = l]
    BY <1>6 DEF VacateSeat, At, Goto, kernel
  <2>2. r \in 0 .. NumRooms
    BY DEF Typed, TypeOK, Locals
  <2>3. ASSUME NEW d \in Conn, ClearsFirst(d)' PROVE rooms'[reg'[d].room].first = fd'[d]
    <3>1. d # c /\ ClearsFirst(d)
      BY <2>1, <2>3 DEF ClearsFirst, Typed, TypeOK
    <3>2. rooms[reg[d].room].first = fd[d] /\ reg[d].room \in 0 .. NumRooms
      BY <3>1 DEF LeaverFirst, Typed, TypeOK, Locals
    <3>3. ~(reg[c].first /\ reg[d].room = r)
      BY <2>1, <3>1, OneClears DEF ClearsFirst
    <3>4. rooms'[reg[d].room].first = rooms[reg[d].room].first
      BY <2>1, <2>2, <3>2, <3>3 DEF Typed, TypeOK, Seat
    <3>5. QED
      BY <2>1, <3>2, <3>4
  <2>4. QED
    BY <2>3 DEF LeaverFirst
<1>7. CASE ReadOther(c)
  <2>1. PICK w : reg' = [reg EXCEPT ![c] = [reg[c] EXCEPT !.other = w]]
    BY <1>7 DEF ReadOther
  <2>2. /\ pc[c] \in {"vacate", "readOther"} /\ UNCHANGED <<rooms, fd>>
        /\ pc' = [pc EXCEPT ![c] = IF pc[c] = "vacate" THEN "writeSeat" ELSE "forget"]
    BY <1>7 DEF ReadOther, At, Goto, kernel, shared
  <2>3. \A d \in Conn : reg'[d].first = reg[d].first /\ reg'[d].room = reg[d].room
    BY <2>1 DEF Typed, TypeOK, Locals
  <2>4. \A d \in Conn : ClearsFirst(d)' => ClearsFirst(d)
    BY <2>2, <2>3 DEF ClearsFirst, Typed, TypeOK
  <2>5. QED
    BY <2>2, <2>3, <2>4 DEF LeaverFirst
<1>8. CASE BeginForget(c) \/ EndForget(c)
  <2>1. rooms' = rooms /\ fd' = fd
    BY <1>8 DEF BeginForget, EndForget, kernel, shared
  <2>2. PICK l \in {"forget2", "send"} : pc' = [pc EXCEPT ![c] = l]
    BY <1>8 DEF BeginForget, EndForget, Finish, Goto
  <2>3. reg' = reg \/ \E r : reg' = [reg EXCEPT ![c] = r]
    BY <1>8 DEF BeginForget, EndForget
  <2>4. QED
    BY <2>1, <2>2, <2>3, OthersKeepFirst DEF Typed, TypeOK
<1>9. CASE Admin(c)
  <2>1. rooms' = rooms /\ fd' = fd /\ pc[c] \in {"lock", "loop"}
    BY <1>9 DEF Admin, LockBroadcast, BroadcastOne, UnlockBroadcast, At, kernel, shared
  <2>2. pc' = pc \/ \E l \in {"loop", "recv"} : pc' = [pc EXCEPT ![c] = l]
    BY <1>9 DEF Admin, LockBroadcast, BroadcastOne, UnlockBroadcast, Goto
  <2>3. \E r : reg' = [reg EXCEPT ![c] = r]
    BY <1>9 DEF Admin, LockBroadcast, BroadcastOne, UnlockBroadcast
  <2>4. QED
    BY <2>1, <2>2, <2>3, OthersKeepFirst DEF Typed, TypeOK
<1>10. QED
  BY <1>1, <1>2, <1>3, <1>4, <1>5, <1>6, <1>7, <1>8, <1>9 DEF Rooms, Leave

LEMMA LeaverFirstAlways == ASSUME NoLogout PROVE Spec => []LeaverFirst
<1>1. Init => LeaverFirst
  BY DEF Init, LeaverFirst, ClearsFirst
<1>2. Typed /\ Bound /\ LeaverFirst /\ [Next]_vars => LeaverFirst'
  <2> SUFFICES ASSUME Typed, Bound, LeaverFirst, [Next]_vars PROVE LeaverFirst'
    OBVIOUS
  <2>1. CASE UNCHANGED vars
    BY <2>1 DEF vars, kernel, shared, LeaverFirst, ClearsFirst
  <2>2. QED
    BY <2>1, StepKeepsFirst DEF Next
<1>3. QED
  BY <1>1, <1>2, AlwaysTyped, BoundAlways, PTL DEF Spec

(* Case '7' takes no lock, and yet, as long as nobody sends '3', a first   *)
(* seat that is taken changes only to 0 and only when the handler of the   *)
(* descriptor in it leaves the room: no join and no other leaver, however  *)
(* they interleave, takes it away.                                         *)
THEOREM FirstSeatKept == ASSUME NoLogout PROVE Spec => FirstSeatStable
<1> DEFINE Kept == \A r \in Room : rooms[r].first # 0 /\ rooms'[r].first # rooms[r].first
                       => /\ rooms'[r].first = 0
                          /\ \E c \in Conn : VacateSeat(c) /\ fd[c] = rooms[r].first
<1>1. Typed /\ LeaverFirst /\ [Next]_vars => [Kept]_rooms
  <2> SUFFICES ASSUME Typed, LeaverFirst, Next, rooms' # rooms,
                      NEW r \in Room, rooms[r].first # 0, rooms'[r].first # rooms[r].first
               PROVE  /\ rooms'[r].first = 0
                      /\ \E c \in Conn : VacateSeat(c) /\ fd[c] = rooms[r].first
    BY DEF vars, shared
  <2>1. PICK c \in Conn : TakeSeat(c) \/ VacateSeat(c)
    BY DEF Next, Socket, Accept, ClientClose, Recv, Hangup, Close, Send,
           Names, AddName, GetName, EraseName, Rooms, GetRoom, GetPeer, CheckRoom,
           Leave, TestSeat, ReadOther, BeginForget, EndForget,
           Admin, LockBroadcast, BroadcastOne, UnlockBroadcast, shared
  <2>2. reg[c].room \in 0 .. NumRooms /\ r \in 0 .. NumRooms
    BY RoomAssumption DEF Typed, TypeOK, Locals, Room
  <2>3. ASSUME TakeSeat(c) PROVE FALSE
    <3>1. rooms' = IF rooms[reg[c].room].first = 0
                   THEN [rooms EXCEPT ![reg[c].room].first = fd[c]]
                   ELSE [rooms EXCEPT ![reg[c].room].second = fd[c]]
      BY <2>3 DEF TakeSeat
    <3>2. rooms'[r].first = rooms[r].first
      BY <2>2, <3>1 DEF Typed, TypeOK, Seat
    <3>3. QED
      BY <3>2
  <2>4. VacateSeat(c)
    BY <2>1, <2>3
  <2>5. reg[c].first /\ reg[c].room = r /\ rooms'[r].first = 0
    BY <2>2, <2>4 DEF VacateSeat, Typed, TypeOK, Seat
  <2>6. ClearsFirst(c)
    BY <2>4, <2>5 DEF VacateSeat, At, ClearsFirst
  <2>7. QED
    BY <2>4, <2>5, <2>6 DEF LeaverFirst
<1>2. QED
  BY <1>1, AlwaysTyped, LeaverFirstAlways, PTL DEF Spec, FirstSeatStable

-----------------------------------------------------------------------------
(* Visits.  Clients that take turns in the rooms: each joins, may then     *)
(* talk, and leaves before it joins again or hangs up.  Inside(k): a       *)
(* client that has sent k messages of its script is in a room.             *)

Inside(k) == \E i \in 1 .. k : /\ Script[i] = {"join"}
                               /\ \A j \in i + 1 .. k : Script[j] # {"leaveRoom"}

Visits ==
    /\ Abrupt = FALSE /\ 0 \notin RoomNo
    /\ \A k \in 1 .. Len(Script) :
          \/ Script[k] = {"join"} /\ ~Inside(k - 1)
          \/ Script[k] = {"leaveRoom"} /\ Inside(k - 1)
          \/ Script[k] \subseteq {"login", "query", "broadcast"}
          \/ Script[k] \subseteq {"login", "query", "broadcast", "msg"} /\ Inside(k - 1)
    /\ ~Inside(Len(Script))

\* accept has two descriptor numbers to give: two clients are served at a time
TwoAtATime == \A f, g, h \in Fd : f = g \/ g = h \/ f = h

Sitting  == {"getRoom", "getPeer", "getName", "test", "vacate", "writeSeat"}
Standing == {"new", "done", "seat", "readOther", "forget", "forget2"}

(* The descriptor of c is in a seat.                                       *)
Sits(c) == \/ pc[c] \in Sitting
           \/ /\ pc[c] \notin Sitting \cup Standing
              /\ ~(pc[c] = "check" /\ reg[c].op = "join")
              /\ Inside(sent[c])

(* Where a handler is tells which message it handles ...                   *)
OpFits(c) ==
    /\ pc[c] \in {"new", "recv", "close", "done"} => reg[c].op = "none"
    /\ pc[c] \in {"getRoom", "getName"} => reg[c].op \in {"msg", "leaveRoom"}
    /\ pc[c] = "getPeer" => reg[c].op = "msg"
    /\ pc[c] \in {"test", "vacate", "readOther", "writeSeat", "forget", "forget2"}
          => reg[c].op = "leaveRoom"
    /\ pc[c] = "check" => reg[c].op \in {"join", "query"}
    /\ pc[c] = "seat" => reg[c].op = "join"
    /\ pc[c] = "add" => reg[c].op = "login"
    /\ pc[c] \in {"lock", "loop"} => reg[c].op = "broadcast"

(* ... and that whether the client is in a room when it is done with it.   *)
InTurn(c) ==
    /\ pc[c] = "new" => sent[c] = 0
    /\ c \in gone => sent[c] = Len(Script)
    /\ pc[c] = "close" => c \in gone
    /\ pc[c] \in {"check", "seat"} /\ reg[c].op = "join" => Inside(sent[c]) /\ reg[c].room \in Room
    /\ pc[c] \in Sitting /\ reg[c].op = "msg" => Inside(sent[c])
    /\ reg[c].op = "leaveRoom" => ~Inside(sent[c])

(* The room that get_room found is the one the descriptor sits in, and the *)
(* seat that '7' is about to clear is the leaver's own.                    *)
FoundRoom(c) ==
    /\ pc[c] \in Sitting \ {"getRoom"} => reg[c].room \in Room /\ Seated(fd[c], reg[c].room)
    /\ pc[c] = "readOther" => reg[c].room \in Room
    /\ pc[c] \in {"vacate", "writeSeat"} => reg[c].first = (rooms[reg[c].room].first = fd[c])

Visiting(c) == OpFits(c) /\ InTurn(c) /\ FoundRoom(c)

(* Who sits has a seat, who has a seat sits, and nobody has two.           *)
Seating ==
    /\ \A c \in Conn : Sits(c) => \E r \in Room : Seated(fd[c], r)
    /\ \A r \in Room : \A s \in {rooms[r].first, rooms[r].second} \ {0} :
          \E c \in Conn : Sits(c) /\ fd[c] = s
    /\ \A r, q \in Room :
          /\ rooms[r].first # 0 => rooms[r].first # rooms[q].second
          /\ r # q /\ rooms[r].first # 0 => rooms[r].first # rooms[q].first
          /\ r # q /\ rooms[r].second # 0 => rooms[r].second # rooms[q].second

RoomsInv == Seating /\ \A c \in Conn : Visiting(c)

-----------------------------------------------------------------------------
LEMMA NoRoomInside == ~Inside(0)
BY DEF Inside

(* What a message does to the place of its sender.                         *)
LEMMA OpInside ==
  ASSUME Visits, NEW k \in 1 .. Len(Script), NEW op \in Script[k]
  PROVE  /\ op \in {"join", "leaveRoom", "login", "query", "broadcast", "msg"}
         /\ op = "join" => ~Inside(k - 1) /\ Inside(k)
         /\ op = "leaveRoom" => Inside(k - 1) /\ ~Inside(k)
         /\ op \notin {"join", "leaveRoom"} => Inside(k) = Inside(k - 1)
         /\ op = "msg" => Inside(k)
<1>0. Len(Script) \in Nat
  BY ScriptAssumption
<1>1. CASE Script[k] = {"join"} /\ ~Inside(k - 1)
  <2>1. Inside(k)
    BY <1>0, <1>1 DEF Inside
  <2>2. QED
    BY <1>1, <2>1
<1>2. CASE Script[k] = {"leaveRoom"} /\ Inside(k - 1)
  <2>1. ASSUME NEW i \in 1 .. k, Script[i] = {"join"} PROVE ~\A j \in i + 1 .. k : Script[j] # {"leaveRoom"}
    <3>1. i # k
      BY <1>2, <2>1
    <3>2. k \in i + 1 .. k
      BY <1>0, <3>1
    <3>3. QED
      BY <1>2, <3>2
  <2>2. ~Inside(k)
    BY <2>1 DEF Inside
  <2>3. QED
    BY <1>2, <2>2
<1>3. CASE /\ Script[k] \subseteq {"login", "query", "broadcast", "msg"}
           /\ op = "msg" => Inside(k - 1)
  <2>1. Script[k] # {"join"} /\ Script[k] # {"leaveRoom"}
    BY <1>3
  <2>2. Inside(k) => Inside(k - 1)
    <3>1. ASSUME NEW i \in 1 .. k, Script[i] = {"join"}, \A j \in i + 1 .. k : Script[j] # {"leaveRoom"}
          PROVE  Inside(k - 1)
      <4>1. i \in 1 .. k - 1
        BY <1>0, <2>1, <3>1
      <4>2. \A j \in i + 1 .. k - 1 : j \in i + 1 .. k
        BY <1>0
      <4>3. QED
        BY <3>1, <4>1, <4>2 DEF Inside
    <3>2. QED
      BY <3>1 DEF Inside
  <2>3. Inside(k - 1) => Inside(k)
    <3>1. ASSUME NEW i \in 1 .. k - 1, Script[i] = {"join"},
                 \A j \in i + 1 .. k - 1 : Script[j] # {"leaveRoom"}
          PROVE  Inside(k)
      <4>1. i \in 1 .. k
        BY <1>0
      <4>2. \A j \in i + 1 .. k : j = k \/ j \in i + 1 .. k - 1
        BY <1>0
      <4>3. \A j \in i + 1 .. k : Script[j] # {"leaveRoom"}
        BY <2>1, <3>1, <4>2
      <4>4. QED
        BY <3>1, <4>1, <4>3 DEF Inside
    <3>2. QED
      BY <3>1 DEF Inside
  <2>4. Inside(k) = Inside(k - 1)
    BY <2>2, <2>3 DEF Inside
  <2>5. op = "msg" => Inside(k)
    BY <1>3, <2>3
  <2>6. QED
    BY <1>3, <2>4, <2>5
<1>4. QED
  BY <1>1, <1>2, <1>3 DEF Visits

LEMMA VisitsNoLogout == ASSUME Visits PROVE NoLogout
BY OpInside DEF NoLogout

-----------------------------------------------------------------------------
(* A step that leaves the seats alone, and its handler in or out of them.  *)
LEMMA CalmStep ==
  ASSUME RoomsInv, NEW c \in Conn, rooms' = rooms,
         \A d \in Conn : d # c => /\ pc'[d] = pc[d] /\ reg'[d] = reg[d] /\ fd'[d] = fd[d]
                                  /\ sent'[d] = sent[d] /\ (d \in gone') = (d \in gone),
         Visiting(c)', Sits(c)' = Sits(c), Sits(c) => fd'[c] = fd[c]
  PROVE  RoomsInv'
<1>1. \A d \in Conn : Sits(d)' = Sits(d) /\ (Sits(d) => fd'[d] = fd[d])
  BY DEF Sits
<1>2. \A r, s : Seated(s, r)' = Seated(s, r)
  BY DEF Seated
<1>3. \A d \in Conn : Visiting(d)'
  <2>1. ASSUME NEW d \in Conn, d # c PROVE Visiting(d)'
    <3>1. Visiting(d)
      BY DEF RoomsInv
    <3>2. OpFits(d)' /\ InTurn(d)'
      BY <2>1, <3>1 DEF Visiting, OpFits, InTurn
    <3>3. FoundRoom(d)'
      BY <2>1, <3>1, <1>2 DEF Visiting, FoundRoom
    <3>4. QED
      BY <3>2, <3>3 DEF Visiting
  <2>2. QED
    BY <2>1
<1>4. Seating'
  BY <1>1, <1>2 DEF RoomsInv, Seating
<1>5. QED
  BY <1>3, <1>4 DEF RoomsInv

LEMMA RecvVisits ==
  ASSUME Visits, Typed, Bound, RoomsInv, NEW c \in Conn, Recv(c)
  PROVE  RoomsInv'
<1>1. /\ pc[c] = "recv" /\ open[fd[c]] = c /\ UNCHANGED <<rooms, fd, gone>>
      /\ sent[c] < Len(Script) /\ sent[c] \in 0 .. Len(Script) /\ Len(Script) \in Nat
      /\ sent' = [sent EXCEPT ![c] = sent[c] + 1]
  <2>1. pc[c] = "recv" /\ UNCHANGED <<rooms, fd, gone>>
    BY DEF Recv, At, shared
  <2>2. open[fd[c]] = c
    BY <2>1 DEF Bound, OwnFd, Running
  <2>3. sent[c] \in 0 .. Len(Script) /\ Len(Script) \in Nat
    BY ScriptAssumption DEF Typed, TypeOK
  <2>4. sent[c] < Len(Script) /\ sent' = [sent EXCEPT ![c] = sent[c] + 1]
    BY <2>2 DEF Recv
  <2>5. QED
    BY <2>1, <2>2, <2>3, <2>4
<1>2. PICK op \in Script[sent[c] + 1] :
        /\ \E n \in IF op = "login" THEN Name ELSE {NoName},
              r \in IF op \in {"join", "query"} THEN RoomNo ELSE {0} :
              reg' = [reg EXCEPT ![c] = Begin(op, n, r)]
        /\ pc' = [pc EXCEPT ![c] = Entry[op]]
  BY <1>1 DEF Recv, Goto
<1>3. /\ pc'[c] = Entry[op] /\ reg'[c].op = op /\ sent'[c] = sent[c] + 1
      /\ op = "join" => reg'[c].room \in RoomNo
  BY <1>1, <1>2 DEF Typed, TypeOK, Begin
<1>4. sent[c] + 1 \in 1 .. Len(Script) /\ (sent[c] + 1) - 1 = sent[c]
  BY <1>1
<1>5. /\ op \in {"join", "leaveRoom", "login", "query", "broadcast", "msg"}
      /\ op = "join" => ~Inside(sent[c]) /\ Inside(sent[c] + 1)
      /\ op = "leaveRoom" => Inside(sent[c]) /\ ~Inside(sent[c] + 1)
      /\ op \notin {"join", "leaveRoom"} => Inside(sent[c] + 1) = Inside(sent[c])
      /\ op = "msg" => Inside(sent[c] + 1)
  BY <1>4, OpInside
<1>6. Entry[op] = CASE op \in {"msg", "leaveRoom"} -> "getRoom" [] op = "login" -> "add"
                    [] op = "broadcast" -> "lock" [] op \in {"join", "query"} -> "check"
  BY <1>5 DEF Entry
<1>7. c \notin gone
  BY <1>1 DEF RoomsInv, Visiting, InTurn
<1>8. OpFits(c)'
  BY <1>3, <1>5, <1>6 DEF OpFits
<1>9. RoomNo \subseteq Room
  BY RoomAssumption DEF Visits, Room
<1>10. InTurn(c)'
  BY <1>1, <1>3, <1>5, <1>6, <1>7, <1>9 DEF InTurn
<1>11. FoundRoom(c)'
  BY <1>3, <1>5, <1>6 DEF FoundRoom, Sitting
<1>12. Sits(c)' = Sits(c)
  <2>1. Sits(c) = Inside(sent[c])
    BY <1>1 DEF Sits, Sitting, Standing, Inside
  <2>2. Sits(c)' = Inside(sent[c])
    <3>1. CASE op \in {"msg", "leaveRoom"}
      BY <1>3, <1>5, <1>6, <3>1 DEF Sits, Sitting, Inside
    <3>2. CASE op = "join"
      BY <1>3, <1>5, <1>6, <3>2 DEF Sits, Sitting, Standing, Inside
    <3>3. CASE op \in {"login", "query", "broadcast"}
      BY <1>3, <1>5, <1>6, <3>3 DEF Sits, Sitting, Standing, Inside
    <3>4. QED
      BY <1>5, <3>1, <3>2, <3>3
  <2>3. QED
    BY <2>1, <2>2
<1>13. \A d \in Conn : d # c => pc'[d] = pc[d] /\ reg'[d] = reg[d] /\ sent'[d] = sent[d]
  BY <1>1, <1>2 DEF Typed, TypeOK
<1>14. QED
  BY <1>1, <1>8, <1>10, <1>11, <1>12, <1>13, CalmStep DEF Visiting

LEMMA SocketVisits ==
  ASSUME Visits, Typed, Bound, RoomsInv, NEW c \in Conn, Socket(c)
  PROVE  RoomsInv'
<1> USE DEF Typed, TypeOK, Visiting, OpFits, InTurn, FoundRoom, Sits, Sitting, Standing
<1>1. CASE Accept(c)
  <2>1. /\ pc[c] = "new" /\ pc' = [pc EXCEPT ![c] = "recv"]
        /\ UNCHANGED <<reg, sent, gone, rooms>>
        /\ \E f \in Fd : fd' = [fd EXCEPT ![c] = f]
    BY <1>1 DEF Accept, At, Goto, shared
  <2>2. reg[c].op = "none" /\ sent[c] = 0 /\ (c \in gone => sent[c] = Len(Script)) /\ ~Inside(sent[c])
    BY <2>1, NoRoomInside DEF RoomsInv
  <2>3. Visiting(c)' /\ ~Sits(c)' /\ ~Sits(c)
    BY <2>1, <2>2
  <2>4. QED
    BY <2>1, <2>3, CalmStep
<1>2. CASE ClientClose(c)
  <2>1. /\ UNCHANGED <<pc, reg, fd, sent, rooms>> /\ gone' = gone \cup {c}
        /\ sent[c] = Len(Script)
    BY <1>2 DEF ClientClose, shared, Visits
  <2>2. Visiting(c)
    BY DEF RoomsInv
  <2>3. Visiting(c)'
    <3>1. OpFits(c)' /\ InTurn(c)'
      BY <2>1, <2>2
    <3>2. FoundRoom(c)'
      BY <2>1, <2>2 DEF Seated
    <3>3. QED
      BY <3>1, <3>2
  <2>4. Sits(c)' = Sits(c)
    BY <2>1
  <2>5. \A d \in Conn : d # c => (d \in gone') = (d \in gone)
    BY <2>1
  <2> QED
    BY <2>1, <2>3, <2>4, <2>5, CalmStep
<1>3. CASE Recv(c)
  BY <1>3, RecvVisits
<1>4. CASE Hangup(c)
  <2>1. /\ pc[c] = "recv" /\ pc' = [pc EXCEPT ![c] = "close"]
        /\ UNCHANGED <<reg, fd, sent, gone, rooms>>
        /\ open[fd[c]] = c /\ open[fd[c]] \in gone \cup {None}
    BY <1>4 DEF Hangup, At, Goto, shared, kernel, Bound, OwnFd, Running
  <2>2. c \in gone
    BY <2>1, NullAssumption
  <2>3. Visiting(c)' /\ Sits(c)' = Sits(c)
    BY <2>1, <2>2 DEF RoomsInv
  <2>4. QED
    BY <2>1, <2>3, CalmStep
<1>5. CASE Close(c)
  <2>1. /\ pc[c] = "close" /\ pc' = [pc EXCEPT ![c] = "done"]
        /\ UNCHANGED <<fd, sent, gone, rooms>> /\ reg' = [reg EXCEPT ![c] = Idle]
    BY <1>5 DEF Close, At, Goto, shared, Bound, NobodyLeaves
  <2>2. sent[c] = Len(Script) /\ ~Inside(sent[c])
    BY <2>1 DEF RoomsInv, Visits
  <2>3. Visiting(c)' /\ Sits(c)' = Sits(c)
    BY <2>1, <2>2, IdleTyped DEF RoomsInv
  <2>4. QED
    BY <2>1, <2>3, CalmStep
<1>6. CASE Send(c)
  <2>1. /\ pc[c] = "send" /\ UNCHANGED <<fd, sent, gone, rooms>>
        /\ \/ UNCHANGED <<pc, reg>>
           \/ pc' = [pc EXCEPT ![c] = "recv"] /\ reg' = [reg EXCEPT ![c] = Idle]
    BY <1>6 DEF Send, At, Goto, shared, kernel
  <2>2. Visiting(c)' /\ Sits(c)' = Sits(c)
    BY <2>1, IdleTyped DEF RoomsInv
  <2>3. QED
    BY <2>1, <2>2, CalmStep
<1>7. QED
  BY <1>1, <1>2, <1>3, <1>4, <1>5, <1>6 DEF Socket

LEMMA NamesVisit ==
  ASSUME Visits, Typed, Bound, RoomsInv, NEW c \in Conn, Names(c)
  PROVE  RoomsInv'
<1> USE DEF Visiting, OpFits, InTurn, FoundRoom, Sits, Sitting, Standing
<1>1. CASE AddName(c)
  <2>1. /\ pc[c] = "add" /\ pc' = [pc EXCEPT ![c] = "send"] /\ UNCHANGED <<reg, fd, sent, gone, rooms>>
    BY <1>1 DEF AddName, At, Finish, Goto, kernel
  <2>2. Visiting(c)' /\ Sits(c)' = Sits(c)
    BY <2>1 DEF Typed, TypeOK, RoomsInv
  <2>3. QED
    BY <2>1, <2>2, CalmStep DEF Typed, TypeOK
<1>2. CASE GetName(c)
  <2>1. PICK n : reg' = [reg EXCEPT ![c] = [reg[c] EXCEPT !.name = n]]
    BY <1>2 DEF GetName
  <2>2. /\ pc[c] = "getName" /\ UNCHANGED <<fd, sent, gone, rooms>>
        /\ \/ reg[c].op = "leaveRoom" /\ pc' = [pc EXCEPT ![c] = "test"]
           \/ reg[c].op = "leaveApp"
           \/ reg[c].op = "msg" /\ pc' = [pc EXCEPT ![c] = "send"]
    BY <1>2 DEF GetName, At, Finish, Goto, kernel, shared
  <2>3. reg'[c].op = reg[c].op /\ reg'[c].room = reg[c].room
    BY <2>1 DEF Typed, TypeOK, Locals
  <2>4. Visiting(c)
    BY DEF RoomsInv
  <2>5. Visiting(c)' /\ Sits(c)' = Sits(c)
    <3>1. CASE reg[c].op = "leaveRoom"
      <4>1. pc'[c] = "test"
        BY <2>2, <3>1 DEF Typed, TypeOK
      <4>2. OpFits(c)' /\ InTurn(c)' /\ Sits(c)' = Sits(c)
        BY <2>2, <2>3, <2>4, <3>1, <4>1
      <4>3. FoundRoom(c)'
        BY <2>2, <2>3, <2>4, <4>1 DEF Seated
      <4>4. QED
        BY <4>2, <4>3
    <3>2. CASE reg[c].op = "msg"
      <4>1. pc'[c] = "send"
        BY <2>2, <3>2 DEF Typed, TypeOK
      <4>2. QED
        BY <2>2, <2>3, <2>4, <3>2, <4>1
    <3>3. QED
      BY <2>2, <2>4, <3>1, <3>2
  <2>6. \A d \in Conn : d # c => pc'[d] = pc[d] /\ reg'[d] = reg[d]
    BY <2>1, <2>2, <2>4 DEF Typed, TypeOK
  <2>7. QED
    BY <2>2, <2>5, <2>6, CalmStep
<1>3. CASE EraseName(c)
  BY <1>3 DEF EraseName, At, Bound, NobodyLeaves
<1>4. QED
  BY <1>1, <1>2, <1>3 DEF Names

LEMMA AdminVisits ==
  ASSUME Visits, Typed, Bound, RoomsInv, NEW c \in Conn, Admin(c)
  PROVE  RoomsInv'
<1>1. UNCHANGED <<fd, sent, gone, rooms>> /\ pc[c] \in {"lock", "loop"}
  BY DEF Admin, LockBroadcast, BroadcastOne, UnlockBroadcast, At, kernel, shared
<1>2. PICK r : reg' = [reg EXCEPT ![c] = r]
  BY DEF Admin, LockBroadcast, BroadcastOne, UnlockBroadcast
<1>3. \/ r.op = reg[c].op /\ pc'[c] = "loop" /\ pc' = [pc EXCEPT ![c] = "loop"]
      \/ r.op = "none" /\ pc'[c] = "recv" /\ pc' = [pc EXCEPT ![c] = "recv"]
  <2>1. CASE LockBroadcast(c)
    BY <1>2, <2>1 DEF LockBroadcast, Goto, Typed, TypeOK, Locals
  <2>2. CASE BroadcastOne(c)
    BY <1>2, <2>2 DEF BroadcastOne, At, Typed, TypeOK, Locals
  <2>3. CASE UnlockBroadcast(c)
    BY <1>2, <2>3, IdleTyped DEF UnlockBroadcast, Goto, Typed, TypeOK
  <2>4. QED
    BY <2>1, <2>2, <2>3 DEF Admin
<1>4. reg'[c] = r /\ \A d \in Conn : d # c => pc'[d] = pc[d] /\ reg'[d] = reg[d]
  BY <1>2, <1>3 DEF Typed, TypeOK
<1>5. Visiting(c)' /\ Sits(c)' = Sits(c)
  BY <1>1, <1>3, <1>4
     DEF RoomsInv, Visiting, OpFits, InTurn, FoundRoom, Sits, Sitting, Standing
<1>6. QED
  BY <1>1, <1>4, <1>5, CalmStep

-----------------------------------------------------------------------------
(* The seats.                                                              *)

LEMMA SitsRuns == ASSUME NEW c \in Conn, Sits(c) PROVE Running(c)
BY DEF Sits, Sitting, Standing, Running

LEMMA OwnNumber ==
  ASSUME Bound, NEW c \in Conn, NEW d \in Conn, Running(c), Running(d), fd[c] = fd[d]
  PROVE  c = d
BY DEF Bound, OwnFd

LEMMA FoundIsSeat ==
  ASSUME RoomsInv, NEW c \in Conn, Sits(c)
  PROVE  RoomOf(fd[c]) \in Room /\ Seated(fd[c], RoomOf(fd[c]))
<1>1. PICK r \in Room : Seated(fd[c], r)
  BY DEF RoomsInv, Seating
<1>2. Room \subseteq Nat
  BY RoomAssumption DEF Room
<1>3. PICK r1 \in {q \in Room : Seated(fd[c], q)} : \A q \in {q \in Room : Seated(fd[c], q)} : r1 <= q
  BY <1>1, <1>2, Smallest
<1>4. QED
  BY <1>1, <1>3 DEF RoomOf

(* Who runs and does not sit has its number in no seat.                    *)
LEMMA NotSeated ==
  ASSUME Typed, Bound, RoomsInv, NEW c \in Conn, Running(c), ~Sits(c), NEW r \in Room
  PROVE  rooms[r].first # fd[c] /\ rooms[r].second # fd[c]
<1>1. fd[c] # 0
  BY FdAssumption DEF Typed, HandlersTyped, Running
<1>2. ASSUME fd[c] \in {rooms[r].first, rooms[r].second} PROVE FALSE
  <2>1. PICK d \in Conn : Sits(d) /\ fd[d] = fd[c]
    BY <1>1, <1>2 DEF RoomsInv, Seating
  <2>2. QED
    BY <2>1, SitsRuns, OwnNumber
<1>3. QED
  BY <1>2

(* A client that does not sit finds space in every room: between the look  *)
(* of check_room and the taking of the seat, nobody can fill it.           *)
LEMMA AlwaysSpace ==
  ASSUME TwoAtATime, Typed, Bound, RoomsInv, NEW c \in Conn, Running(c), ~Sits(c), NEW r \in Room
  PROVE  HasSpace(r)
<1>1. SUFFICES ASSUME rooms[r].first # 0, rooms[r].second # 0 PROVE FALSE
  BY DEF HasSpace
<1>2. PICK d \in Conn : Sits(d) /\ fd[d] = rooms[r].first
  BY <1>1 DEF RoomsInv, Seating
<1>3. PICK e \in Conn : Sits(e) /\ fd[e] = rooms[r].second
  BY <1>1 DEF RoomsInv, Seating
<1>4. fd[c] \in Fd /\ fd[d] \in Fd /\ fd[e] \in Fd
  BY <1>2, <1>3, SitsRuns DEF Typed, HandlersTyped, Running
<1>5. fd[d] # fd[c] /\ fd[e] # fd[c]
  BY <1>2, <1>3, NotSeated
<1>6. fd[d] # fd[e]
  BY <1>1, <1>2, <1>3 DEF RoomsInv, Seating
<1>7. QED
  BY <1>4, <1>5, <1>6 DEF TwoAtATime

(* A step that changes seats only between free and its handler's number    *)
(* takes no seat from anybody else.                                        *)
LEMMA OthersStaySeated ==
  ASSUME Typed, Bound, RoomsInv, NEW c \in Conn, Running(c),
         \A d \in Conn : d # c => pc'[d] = pc[d] /\ reg'[d] = reg[d],
         UNCHANGED <<fd, sent, gone>>,
         \A q \in Room :
            /\ rooms'[q].first = rooms[q].first \/ {rooms[q].first, rooms'[q].first} \subseteq {0, fd[c]}
            /\ rooms'[q].second = rooms[q].second \/ {rooms[q].second, rooms'[q].second} \subseteq {0, fd[c]},
         NEW d \in Conn, d # c
  PROVE  /\ Visiting(d)'
         /\ Sits(d)' = Sits(d)
         /\ Sits(d) => \A q \in Room : Seated(fd[d], q)' = Seated(fd[d], q)
<1>1. Visiting(d)
  BY DEF RoomsInv
<1>2. OpFits(d)' /\ InTurn(d)'
  BY <1>1 DEF Visiting, OpFits, InTurn
<1>3. Sits(d)' = Sits(d)
  BY DEF Sits
<1>4. ASSUME Running(d), NEW q \in Room
      PROVE  (rooms'[q].first = fd[d]) = (rooms[q].first = fd[d]) /\ Seated(fd[d], q)' = Seated(fd[d], q)
  <2>1. fd[d] # 0 /\ fd[d] # fd[c] /\ fd'[d] = fd[d]
    BY <1>4, OwnNumber, FdAssumption DEF Typed, HandlersTyped, Running
  <2>2. (rooms'[q].first = fd[d]) = (rooms[q].first = fd[d])
    BY <2>1
  <2>3. (rooms'[q].second = fd[d]) = (rooms[q].second = fd[d])
    BY <2>1
  <2>4. QED
    BY <2>1, <2>2, <2>3 DEF Seated
<1>5. FoundRoom(d)'
  <2>1. CASE pc[d] \in Sitting \cup {"readOther"}
    <3>1. Running(d)
      BY <2>1 DEF Running, Sitting
    <3>2. pc[d] # "getRoom" => reg[d].room \in Room
      BY <1>1, <2>1 DEF Visiting, FoundRoom
    <3>3. QED
      BY <1>1, <1>4, <2>1, <3>1, <3>2 DEF Visiting, FoundRoom
  <2>2. CASE pc[d] \notin Sitting \cup {"readOther"}
    BY <2>2 DEF FoundRoom, Sitting
  <2>3. QED
    BY <2>1, <2>2
<1>6. QED
  BY <1>2, <1>3, <1>4, <1>5, SitsRuns DEF Visiting

LEMMA TakeSeatVisits ==
  ASSUME Visits, TwoAtATime, Typed, Bound, RoomsInv, NEW c \in Conn, TakeSeat(c)
  PROVE  RoomsInv'
<1> DEFINE r == reg[c].room
           s == fd[c]
<1>1. /\ pc[c] = "seat" /\ pc' = [pc EXCEPT ![c] = "send"] /\ UNCHANGED <<reg, fd, sent, gone>>
      /\ rooms' = IF rooms[r].first = 0 THEN [rooms EXCEPT ![r].first = s]
                                        ELSE [rooms EXCEPT ![r].second = s]
  BY DEF TakeSeat, At, Finish, Goto, kernel
<1>2. /\ reg[c].op = "join" /\ Inside(sent[c]) /\ r \in Room /\ Running(c) /\ ~Sits(c)
  BY <1>1 DEF RoomsInv, Visiting, OpFits, InTurn, Running, Sits, Sitting, Standing
<1>3. s \in Fd /\ s # 0
  BY <1>1, FdAssumption DEF Typed, HandlersTyped
<1>4. \A q \in Room : rooms[q].first # s /\ rooms[q].second # s
  BY <1>2, NotSeated
<1>5. rooms[r].first # 0 => rooms[r].second = 0
  BY <1>2, AlwaysSpace DEF HasSpace
<1>6. Room \subseteq 0 .. NumRooms
  BY RoomAssumption DEF Room
<1>7. \A q \in Room :
        /\ rooms'[q].first = IF q = r /\ rooms[r].first = 0 THEN s ELSE rooms[q].first
        /\ rooms'[q].second = IF q = r /\ rooms[r].first # 0 THEN s ELSE rooms[q].second
  BY <1>1, <1>2, <1>6 DEF Typed, TypeOK, Seat
<1>8. \A d \in Conn : d # c => pc'[d] = pc[d] /\ reg'[d] = reg[d]
  BY <1>1 DEF Typed, TypeOK
<1>9. \A d \in Conn : d # c => /\ Visiting(d)' /\ Sits(d)' = Sits(d)
                               /\ Sits(d) => \A q \in Room : Seated(fd[d], q)' = Seated(fd[d], q)
  BY <1>1, <1>2, <1>5, <1>7, <1>8, OthersStaySeated
<1>10. pc'[c] = "send"
  BY <1>1 DEF Typed, TypeOK
<1>11. Visiting(c)' /\ Sits(c)'
  BY <1>1, <1>2, <1>10 DEF RoomsInv, Visiting, OpFits, InTurn, FoundRoom, Sits, Sitting, Standing
<1>12. Seated(s, r)'
  BY <1>1, <1>2, <1>7 DEF Seated
<1>13. \A d \in Conn : Sits(d)' => \E q \in Room : Seated(fd[d], q)'
  BY <1>1, <1>2, <1>9, <1>12 DEF RoomsInv, Seating
<1>14. ASSUME NEW q \in Room, NEW t \in {rooms'[q].first, rooms'[q].second} \ {0}
       PROVE  \E d \in Conn : Sits(d)' /\ fd'[d] = t
  <2>1. CASE t = s
    BY <1>1, <1>11, <2>1
  <2>2. CASE t # s
    <3>1. t \in {rooms[q].first, rooms[q].second} \ {0}
      BY <1>7, <1>14, <2>2
    <3>2. PICK d \in Conn : Sits(d) /\ fd[d] = t
      BY <3>1 DEF RoomsInv, Seating
    <3>3. QED
      BY <1>1, <1>9, <2>2, <3>2
  <2>3. QED
    BY <2>1, <2>2
<1>15. ASSUME NEW p \in Room, NEW q \in Room
       PROVE  /\ rooms'[p].first # 0 => rooms'[p].first # rooms'[q].second
              /\ p # q /\ rooms'[p].first # 0 => rooms'[p].first # rooms'[q].first
              /\ p # q /\ rooms'[p].second # 0 => rooms'[p].second # rooms'[q].second
  BY <1>4, <1>7 DEF RoomsInv, Seating
<1>16. Seating'
  BY <1>13, <1>14, <1>15 DEF Seating
<1>17. QED
  BY <1>9, <1>11, <1>16 DEF RoomsInv

LEMMA VacateSeatVisits ==
  ASSUME Visits, Typed, Bound, RoomsInv, NEW c \in Conn, VacateSeat(c)
  PROVE  RoomsInv'
<1> DEFINE r == reg[c].room
           s == fd[c]
<1>1. /\ pc[c] \in {"vacate", "writeSeat"} /\ UNCHANGED <<reg, fd, sent, gone>>
      /\ pc' = [pc EXCEPT ![c] = IF pc[c] = "vacate" THEN "readOther" ELSE "forget"]
      /\ rooms' = IF reg[c].first THEN [rooms EXCEPT ![r].first = 0]
                                  ELSE [rooms EXCEPT ![r].second = 0]
  BY DEF VacateSeat, At, Goto, kernel
<1>2. /\ reg[c].op = "leaveRoom" /\ ~Inside(sent[c]) /\ r \in Room /\ Running(c) /\ Sits(c)
      /\ Seated(s, r) /\ reg[c].first = (rooms[r].first = s)
  BY <1>1 DEF RoomsInv, Visiting, OpFits, InTurn, FoundRoom, Running, Sits, Sitting, Standing
<1>3. s # 0
  BY <1>1, FdAssumption DEF Typed, HandlersTyped
<1>4. Room \subseteq 0 .. NumRooms
  BY RoomAssumption DEF Room
<1>5. \A q \in Room :
        /\ rooms'[q].first = IF q = r /\ rooms[r].first = s THEN 0 ELSE rooms[q].first
        /\ rooms'[q].second = IF q = r /\ rooms[r].first # s THEN 0 ELSE rooms[q].second
  BY <1>1, <1>2, <1>4 DEF Typed, TypeOK, Seat
<1>6. \A d \in Conn : d # c => pc'[d] = pc[d] /\ reg'[d] = reg[d]
  BY <1>1 DEF Typed, TypeOK
<1>7. rooms[r].first # s => rooms[r].second = s
  BY <1>2 DEF Seated
<1>8. \A d \in Conn : d # c => /\ Visiting(d)' /\ Sits(d)' = Sits(d)
                               /\ Sits(d) => \A q \in Room : Seated(fd[d], q)' = Seated(fd[d], q)
  BY <1>1, <1>2, <1>5, <1>6, <1>7, OthersStaySeated
<1>9. pc'[c] \in {"readOther", "forget"}
  BY <1>1 DEF Typed, TypeOK
<1>10. Visiting(c)' /\ ~Sits(c)'
  BY <1>1, <1>2, <1>9 DEF RoomsInv, Visiting, OpFits, InTurn, FoundRoom, Sits, Sitting, Standing
<1>11. \A d \in Conn : Sits(d)' => \E q \in Room : Seated(fd[d], q)'
  BY <1>1, <1>8, <1>10 DEF RoomsInv, Seating
<1>12. ASSUME NEW q \in Room, NEW t \in {rooms'[q].first, rooms'[q].second} \ {0}
       PROVE  \E d \in Conn : Sits(d)' /\ fd'[d] = t
  <2>1. t \in {rooms[q].first, rooms[q].second} \ {0} /\ t # s
    BY <1>2, <1>3, <1>5, <1>7, <1>12 DEF RoomsInv, Seating
  <2>2. PICK d \in Conn : Sits(d) /\ fd[d] = t
    BY <2>1 DEF RoomsInv, Seating
  <2>3. QED
    BY <1>1, <1>8, <2>1, <2>2
<1>13. ASSUME NEW p \in Room, NEW q \in Room
       PROVE  /\ rooms'[p].first # 0 => rooms'[p].first # rooms'[q].second
              /\ p # q /\ rooms'[p].first # 0 => rooms'[p].first # rooms'[q].first
              /\ p # q /\ rooms'[p].second # 0 => rooms'[p].second # rooms'[q].second
  BY <1>5 DEF RoomsInv, Seating
<1>14. Seating'
  BY <1>11, <1>12, <1>13 DEF Seating
<1>15. QED
  BY <1>8, <1>10, <1>14 DEF RoomsInv

LEMMA RoomsVisit ==
  ASSUME Visits, TwoAtATime, Typed, Bound, RoomsInv, NEW c \in Conn, Rooms(c)
  PROVE  RoomsInv'
<1>1. Visiting(c)
  BY DEF RoomsInv
<1>2. CASE GetRoom(c)
  <2>1. /\ reg' = [reg EXCEPT ![c] = [reg[c] EXCEPT !.room = RoomOf(fd[c])]]
        /\ pc[c] = "getRoom" /\ UNCHANGED <<fd, sent, gone, rooms>>
        /\ pc' = [pc EXCEPT ![c] = IF reg[c].op = "msg" THEN "getPeer" ELSE "getName"]
    BY <1>2 DEF GetRoom, At, Goto, kernel, shared
  <2>2. reg'[c].op = reg[c].op /\ reg'[c].room = RoomOf(fd[c])
    BY <2>1 DEF Typed, TypeOK, Locals
  <2>3. Sits(c)
    BY <2>1 DEF Sits, Sitting
  <2>4. RoomOf(fd[c]) \in Room /\ Seated(fd[c], RoomOf(fd[c]))
    BY <2>3, FoundIsSeat
  <2>5. reg[c].op \in {"msg", "leaveRoom"}
    BY <1>1, <2>1 DEF Visiting, OpFits
  <2>6. pc'[c] = IF reg[c].op = "msg" THEN "getPeer" ELSE "getName"
    BY <2>1 DEF Typed, TypeOK
  <2>7. FoundRoom(c)'
    BY <2>1, <2>2, <2>4, <2>6 DEF FoundRoom, Seated, Sitting
  <2>8. OpFits(c)' /\ InTurn(c)' /\ Sits(c)'
    BY <1>1, <2>1, <2>2, <2>5, <2>6 DEF Visiting, OpFits, InTurn, Sits, Sitting
  <2>9. \A d \in Conn : d # c => pc'[d] = pc[d] /\ reg'[d] = reg[d]
    BY <2>1 DEF Typed, TypeOK
  <2>10. Sits(c)' = Sits(c)
    BY <2>1, <2>3, <2>6 DEF Sits, Sitting
  <2>11. QED
    BY <2>1, <2>7, <2>8, <2>9, <2>10, CalmStep DEF Visiting
<1>3. CASE GetPeer(c)
  <2>1. PICK w : reg' = [reg EXCEPT ![c] = [reg[c] EXCEPT !.other = w]]
    BY <1>3 DEF GetPeer
  <2>2. pc[c] = "getPeer" /\ pc' = [pc EXCEPT ![c] = "getName"] /\ UNCHANGED <<fd, sent, gone, rooms>>
    BY <1>3 DEF GetPeer, At, Goto, kernel, shared
  <2>3. reg'[c].op = reg[c].op /\ reg'[c].room = reg[c].room /\ pc'[c] = "getName"
    BY <2>1, <2>2 DEF Typed, TypeOK, Locals
  <2>4. OpFits(c)' /\ InTurn(c)' /\ Sits(c)' = Sits(c)
    BY <1>1, <2>2, <2>3 DEF Visiting, OpFits, InTurn, Sits, Sitting
  <2>5. FoundRoom(c)'
    BY <1>1, <2>2, <2>3 DEF Visiting, FoundRoom, Seated, Sitting
  <2>6. \A d \in Conn : d # c => pc'[d] = pc[d] /\ reg'[d] = reg[d]
    BY <2>1, <2>2 DEF Typed, TypeOK
  <2>7. QED
    BY <2>2, <2>4, <2>5, <2>6, CalmStep DEF Visiting
<1>4. CASE CheckRoom(c)
  <2>1. /\ pc[c] = "check" /\ UNCHANGED <<reg, fd, sent, gone, rooms>>
        /\ \/ reg[c].op = "join" /\ pc' = [pc EXCEPT ![c] = "seat"]
           \/ reg[c].op = "join" /\ ~HasSpace(reg[c].room)
           \/ reg[c].op # "join" /\ pc' = [pc EXCEPT ![c] = "send"]
    BY <1>4 DEF CheckRoom, At, Finish, Goto, kernel, shared
  <2>2. CASE reg[c].op = "join"
    <3>1. reg[c].room \in Room /\ Running(c) /\ ~Sits(c)
      BY <1>1, <2>1, <2>2 DEF Visiting, InTurn, Running, Sits, Sitting
    <3>2. HasSpace(reg[c].room)
      BY <3>1, AlwaysSpace
    <3>3. pc' = [pc EXCEPT ![c] = "seat"] /\ pc'[c] = "seat"
      BY <2>1, <2>2, <3>2 DEF Typed, TypeOK
    <3>4. Visiting(c)' /\ Sits(c)' = Sits(c)
      BY <1>1, <2>1, <2>2, <3>1, <3>3
         DEF Visiting, OpFits, InTurn, FoundRoom, Sits, Sitting, Standing
    <3>5. QED
      BY <2>1, <3>3, <3>4, CalmStep DEF Typed, TypeOK
  <2>3. CASE reg[c].op # "join"
    <3>1. pc' = [pc EXCEPT ![c] = "send"] /\ pc'[c] = "send"
      BY <2>1, <2>3 DEF Typed, TypeOK
    <3>2. Visiting(c)' /\ Sits(c)' = Sits(c)
      BY <1>1, <2>1, <2>3, <3>1
         DEF Visiting, OpFits, InTurn, FoundRoom, Sits, Sitting, Standing
    <3>3. QED
      BY <2>1, <3>1, <3>2, CalmStep DEF Typed, TypeOK
  <2>4. QED
    BY <2>2, <2>3
<1>5. CASE TakeSeat(c)
  BY <1>5, TakeSeatVisits
<1>6. QED
  BY <1>2, <1>3, <1>4, <1>5 DEF Rooms

LEMMA LeaveVisits ==
  ASSUME Visits, Typed, Bound, RoomsInv, NEW c \in Conn, Leave(c)
  PROVE  RoomsInv'
<1>1. Visiting(c) /\ reg[c] \in Locals
  BY DEF RoomsInv, Typed, TypeOK
<1>2. CASE TestSeat(c)
  <2> DEFINE b == (rooms[reg[c].room].first = fd[c])
             r == [reg[c] EXCEPT !.first = b]
  <2>1. /\ reg' = [reg EXCEPT ![c] = r] /\ pc[c] = "test" /\ pc' = [pc EXCEPT ![c] = "vacate"]
        /\ UNCHANGED <<fd, sent, gone, rooms>>
    BY <1>2 DEF TestSeat, At, Goto, kernel, shared
  <2>2. r.first = b /\ r.room = reg[c].room /\ r.op = reg[c].op
    BY <1>1 DEF Locals
  <2> HIDE DEF r
  <2>3. reg'[c] = r /\ pc'[c] = "vacate" /\ \A d \in Conn : d # c => pc'[d] = pc[d] /\ reg'[d] = reg[d]
    BY <2>1 DEF Typed, TypeOK
  <2>4. OpFits(c)' /\ InTurn(c)' /\ Sits(c)' = Sits(c)
    BY <1>1, <2>1, <2>2, <2>3 DEF Visiting, OpFits, InTurn, Sits, Sitting
  <2>5. FoundRoom(c)'
    BY <1>1, <2>1, <2>2, <2>3 DEF Visiting, FoundRoom, Seated, Sitting
  <2>6. QED
    BY <2>1, <2>3, <2>4, <2>5, CalmStep DEF Visiting
<1>3. CASE VacateSeat(c)
  BY <1>3, VacateSeatVisits
<1>4. CASE ReadOther(c)
  <2>1. PICK w : reg' = [reg EXCEPT ![c] = [reg[c] EXCEPT !.other = w]]
    BY <1>4 DEF ReadOther
  <2>2. /\ pc[c] \in {"vacate", "readOther"} /\ UNCHANGED <<fd, sent, gone, rooms>>
        /\ pc' = [pc EXCEPT ![c] = IF pc[c] = "vacate" THEN "writeSeat" ELSE "forget"]
    BY <1>4 DEF ReadOther, At, Goto, kernel, shared
  <2>3. /\ reg'[c].op = reg[c].op /\ reg'[c].room = reg[c].room /\ reg'[c].first = reg[c].first
        /\ pc'[c] = IF pc[c] = "vacate" THEN "writeSeat" ELSE "forget"
        /\ \A d \in Conn : d # c => pc'[d] = pc[d] /\ reg'[d] = reg[d]
    BY <1>1, <2>1, <2>2 DEF Typed, TypeOK, Locals
  <2>4. OpFits(c)' /\ InTurn(c)' /\ Sits(c)' = Sits(c)
    BY <1>1, <2>2, <2>3 DEF Visiting, OpFits, InTurn, Sits, Sitting, Standing
  <2>5. FoundRoom(c)'
    BY <1>1, <2>2, <2>3 DEF Visiting, FoundRoom, Seated, Sitting
  <2>6. QED
    BY <2>2, <2>3, <2>4, <2>5, CalmStep DEF Visiting
<1>5. CASE BeginForget(c)
  <2>1. /\ reg' = [reg EXCEPT ![c] = [reg[c] EXCEPT !.snap = active_sockets]]
        /\ pc[c] = "forget" /\ pc' = [pc EXCEPT ![c] = "forget2"] /\ UNCHANGED <<fd, sent, gone, rooms>>
    BY <1>5 DEF BeginForget, At, Goto, kernel, shared
  <2>2. /\ reg'[c].op = reg[c].op /\ pc'[c] = "forget2"
        /\ \A d \in Conn : d # c => pc'[d] = pc[d] /\ reg'[d] = reg[d]
    BY <1>1, <2>1 DEF Typed, TypeOK, Locals
  <2>3. Visiting(c)' /\ Sits(c)' = Sits(c)
    BY <1>1, <2>1, <2>2 DEF Visiting, OpFits, InTurn, FoundRoom, Sits, Sitting, Standing
  <2>4. QED
    BY <2>1, <2>2, <2>3, CalmStep
<1>6. CASE EndForget(c)
  <2>1. pc[c] = "forget2" /\ pc' = [pc EXCEPT ![c] = "send"] /\ UNCHANGED <<reg, fd, sent, gone, rooms>>
    BY <1>6 DEF EndForget, At, Finish, Goto, kernel
  <2>2. pc'[c] = "send" /\ \A d \in Conn : d # c => pc'[d] = pc[d]
    BY <2>1 DEF Typed, TypeOK
  <2>3. Visiting(c)' /\ Sits(c)' = Sits(c)
    BY <1>1, <2>1, <2>2 DEF Visiting, OpFits, InTurn, FoundRoom, Sits, Sitting, Standing
  <2>4. QED
    BY <2>1, <2>2, <2>3, CalmStep
<1>7. QED
  BY <1>2, <1>3, <1>4, <1>5, <1>6 DEF Leave

LEMMA RoomsInvAlways == ASSUME Visits, TwoAtATime PROVE Spec => []RoomsInv
<1>1. Init => RoomsInv
  <2> SUFFICES ASSUME Init PROVE RoomsInv
    OBVIOUS
  <2>1. \A r \in Room : rooms[r].first = 0 /\ rooms[r].second = 0
    BY RoomAssumption DEF Init, Room
  <2>2. \A c \in Conn : ~Sits(c) /\ Visiting(c)
    BY IdleTyped DEF Init, Sits, Visiting, OpFits, InTurn, FoundRoom, Sitting, Standing
  <2>3. QED
    BY <2>1, <2>2 DEF RoomsInv, Seating
<1>2. Typed /\ Bound /\ RoomsInv /\ [Next]_vars => RoomsInv'
  <2> SUFFICES ASSUME Typed, Bound, RoomsInv, [Next]_vars PROVE RoomsInv'
    OBVIOUS
  <2>1. CASE UNCHANGED vars
    BY <2>1 DEF vars, kernel, shared, RoomsInv, Seating, Visiting, OpFits, InTurn, FoundRoom, Sits, Seated
  <2>2. QED
    BY <2>1, SocketVisits, NamesVisit, RoomsVisit, LeaveVisits, AdminVisits DEF Next
<1>3. QED
  BY <1>1, <1>2, AlwaysTyped, BoundAlways, VisitsNoLogout, PTL DEF Spec

(* However the unlocked steps of '7' and the two critical sections of '4'  *)
(* interleave: of any number of clients that visit any rooms, two at a     *)
(* time, none leaves a seat behind when all have hung up.                  *)
THEOREM SeatsFreed == ASSUME Visits, TwoAtATime PROVE Spec => []SeatsDrain
<1>1. Typed /\ RoomsInv => SeatsDrain
  <2> SUFFICES ASSUME Typed, RoomsInv, \A c \in Conn : pc[c] = "done", NEW r \in Room
               PROVE  rooms[r] = [first |-> 0, second |-> 0]
    BY DEF SeatsDrain
  <2>1. \A c \in Conn : ~Sits(c)
    BY DEF Sits, Sitting, Standing
  <2>2. rooms[r].first = 0 /\ rooms[r].second = 0
    BY <2>1 DEF RoomsInv, Seating
  <2>3. rooms[r] \in Seat
    BY RoomAssumption DEF Typed, TypeOK, Room
  <2>4. QED
    BY <2>2, <2>3 DEF Seat
<1>2. QED
  BY <1>1, AlwaysTyped, RoomsInvAlways, PTL

(* For such clients get_room never answers 0 to the handlers of '1' and    *)
(* '7', so rooms[room - 1] is never read or written out of bounds.         *)
THEOREM RoomsFound == ASSUME Visits, TwoAtATime PROVE Spec => []RoomIndexFound
<1>1. RoomsInv => RoomIndexFound
  BY DEF RoomsInv, Visiting, FoundRoom, RoomIndexFound, Sitting
<1>2. QED
  BY <1>1, RoomsInvAlways, PTL
=============================================================================
