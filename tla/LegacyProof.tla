----------------------------- MODULE LegacyProof -----------------------------
(* Proofs about LegacyServer: types, and that what is listed is named.     *)
EXTENDS LegacyServer, TLAPS

(* Typing is inductive with one addition: a message in hand has the name   *)
(* and the room its case uses.                                             *)
MessageFits ==
    \A c \in Conn :
        /\ pc[c] = "case" /\ msg[c].op \in {"login", "join"} => msg[c].name \in Name
        /\ pc[c] = "case" /\ msg[c].op = "join" => msg[c].room \in Room
        /\ pc[c] \notin {"new"} => fd[c] \in Fd

Typed == TypeOK /\ MessageFits

LEMMA TypedInit == Init => Typed
BY LegacyFd, LegacyLength DEF Init, Typed, TypeOK, MessageFits, Nothing, Message

\* accept, close and recv keep types
LEMMA TypedSocket ==
    ASSUME Typed, NEW c \in Conn, Socket(c) PROVE Typed'
<1> USE LegacyFd, LegacyLength DEF Typed, TypeOK, MessageFits, Goto, kernel, tables
<1>1. CASE Accept(c)
  BY <1>1 DEF Accept
<1>2. CASE ClientClose(c)
  BY <1>2 DEF ClientClose
<1>3. CASE Recv(c)
  <2>0. PICK d \in Conn : sent[d] < Length /\ sent' = [sent EXCEPT ![d] = @ + 1]
    <3>1. fd[c] \in Fd
      BY <1>3 DEF Recv
    <3>2. open[fd[c]] \in Conn
      BY <1>3, <3>1 DEF Recv
    <3>. QED
      BY <1>3, <3>2 DEF Recv
  <2>1. sent' \in [Conn -> 0 .. Length]
    <3>1. sent[d] + 1 \in 0 .. Length
      BY <2>0
    <3>. QED
      BY <2>0, <3>1
  <2>2. PICK op \in Ops, n \in Name \cup {None}, r \in Room \cup {0} :
            /\ op \in {"login", "join"} => n \in Name
            /\ op = "join" => r \in Room
            /\ msg' = [msg EXCEPT ![c] = [op |-> op, name |-> n, room |-> r]]
            /\ Goto(c, IF op = "leaveRoom" THEN "lookup" ELSE "case")
    BY <1>3 DEF Recv
  <2>3. [op |-> op, name |-> n, room |-> r] \in Message
    BY <2>2 DEF Message
  <2>. QED
    BY <1>3, <2>1, <2>2, <2>3 DEF Recv, Message
<1>4. CASE Hangup(c)
  BY <1>4 DEF Hangup
<1>5. CASE Close(c)
  BY <1>5 DEF Close
<1>. QED
  BY <1>1, <1>2, <1>3, <1>4, <1>5 DEF Socket

\* what every case does besides its own tables
LEMMA TypedCase ==
    ASSUME Typed, NEW c \in Conn, NEW op, Case(c, op) PROVE
        /\ fd' \in [Conn -> Fd \cup {0}] /\ gone' \in SUBSET Conn
        /\ sent' \in [Conn -> 0 .. Length]
        /\ pc' \in [Conn -> {"new", "recv", "case", "lookup", "close", "done"}]
        /\ msg' \in [Conn -> Message]
        /\ MessageFits'
        /\ fd[c] \in Fd
BY DEF Typed, TypeOK, MessageFits, Case, Goto, Nothing, Message

LEMMA TypedSwitch ==
    ASSUME Typed, NEW c \in Conn, Switch(c) PROVE Typed'
<1>1. CASE Relay(c)
  BY <1>1, TypedCase DEF Relay, Typed, TypeOK, Send, tables
<1>2. CASE Login(c)
  <2>1. msg[c].name \in Name
    BY <1>2 DEF Login, Case, Typed, MessageFits
  <2>. QED
    BY <1>2, <2>1, TypedCase DEF Login, Typed, TypeOK, Survive
<1>3. CASE LeaveApp(c)
  BY <1>3, TypedCase DEF LeaveApp, Typed, TypeOK, Survive
<1>4. CASE Join(c)
  <2>1. msg[c].name \in Name /\ msg[c].room \in Room
    BY <1>4 DEF Join, Case, Typed, MessageFits
  <2>. QED
    BY <1>4, <2>1, TypedCase DEF Join, Typed, TypeOK, Survive
<1>5. CASE Deny(c)
  BY <1>5, TypedCase DEF Deny, Typed, TypeOK, Send, tables
<1>6. CASE Broadcast(c)
  BY <1>6, TypedCase DEF Broadcast, Typed, TypeOK, Send, tables
<1>7. CASE LeaveRoom(c)
  BY <1>7 DEF LeaveRoom, Typed, TypeOK, MessageFits, Goto, Nothing, Message, kernel, tables
<1>. QED
  BY <1>1, <1>2, <1>3, <1>4, <1>5, <1>6, <1>7, Switch(c) DEF Switch

LEMMA TypedStep == Typed /\ [Next]_vars => Typed'
<1> SUFFICES ASSUME Typed, [Next]_vars PROVE Typed'
  OBVIOUS
<1>1. CASE UNCHANGED vars
  BY <1>1 DEF Typed, TypeOK, MessageFits, vars, kernel, tables, Message
<1>2. CASE Next
  BY <1>2, TypedSocket, TypedSwitch DEF Next
<1>. QED
  BY <1>1, <1>2

(* No sequence of messages, closes and reuses takes the tables of          *)
(* server.cpp out of their type.                                           *)
THEOREM LegacyTyping == Spec => []TypeOK
<1>1. Typed => TypeOK
  BY DEF Typed
<1>. QED
  BY <1>1, TypedInit, TypedStep, PTL DEF Spec

-----------------------------------------------------------------------------
Listed == active_sockets \cup {first[r] : r \in Room}

\* a step that takes no name away and lists only what is named keeps the property
LEMMA NamedMonotone ==
    ASSUME ListedIsNamed, up,
           \A f \in Listed' : f # 0 => f \in Listed \/ NamesOf(f)' # {},
           \A f \in Fd : NamesOf(f) # {} => NamesOf(f)' # {},
           Listed \subseteq Fd \cup {0}
    PROVE  ListedIsNamed'
BY DEF ListedIsNamed, Listed

LEMMA ListedTyped == TypeOK => Listed \subseteq Fd \cup {0}
BY DEF TypeOK, Listed

\* steps that leave the tables alone
LEMMA QuietKeepsNamed ==
    ASSUME ListedIsNamed, up, UNCHANGED tables PROVE ListedIsNamed'
BY DEF ListedIsNamed, NamesOf, tables

LEMMA NamedSwitch ==
    ASSUME Typed, Typed', ListedIsNamed, up, NEW c \in Conn, Login(c) \/ LeaveApp(c) \/ Join(c)
    PROVE  ListedIsNamed'
<1>0. Listed \subseteq Fd \cup {0} /\ fd[c] \in Fd
  BY ListedTyped DEF Typed, MessageFits, Login, LeaveApp, Join, Case
<1>1. CASE Login(c)
  <2>1. CASE client_sockets[msg[c].name] = Absent
    <3>1. msg[c].name \in Name
      BY <1>1 DEF Login, Case, Typed, MessageFits
    <3>2. client_sockets'[msg[c].name] = fd[c]
      BY <1>1, <2>1, <3>1 DEF Login, Typed, TypeOK
    <3>3. \A n \in Name : client_sockets[n] \in Fd => client_sockets'[n] = client_sockets[n]
      BY <1>1, <2>1, <3>1, LegacyNull DEF Login, Typed, TypeOK
    <3>4. \A f \in Fd : NamesOf(f) # {} => NamesOf(f)' # {}
      BY <3>3 DEF NamesOf
    <3>5. NamesOf(fd[c])' # {}
      BY <3>1, <3>2, <1>1 DEF NamesOf, Login, Case
    <3>6. Listed' = Listed \cup {fd[c]}
      BY <1>1 DEF Login, Listed
    <3>. QED
      BY <1>0, <3>4, <3>5, <3>6, <1>1, NamedMonotone DEF Login, Case
  <2>2. CASE client_sockets[msg[c].name] # Absent
    <3>1. up' => NamesOf(fd[c]) # {}
      BY <1>1, <2>2 DEF Login, Survive
    <3>2. \A f : NamesOf(f)' = NamesOf(f)
      BY <1>1, <2>2 DEF Login, NamesOf
    <3>3. Listed' = Listed \cup {fd[c]}
      BY <1>1 DEF Login, Listed
    <3>. QED
      BY <3>1, <3>2, <3>3 DEF ListedIsNamed, Listed
  <2>. QED
    BY <2>1, <2>2
<1>2. CASE LeaveApp(c)
  <2>1. \A f \in Fd : f # fd[c] => NamesOf(f)' = NamesOf(f)
    <3>1. PICK n \in NamesOf(fd[c]) \cup {None} :
             client_sockets' = [m \in Name |-> IF m = n THEN Absent ELSE client_sockets[m]]
      BY <1>2 DEF LeaveApp
    <3>2. \A m \in Name : m = n => client_sockets[m] = fd[c]
      BY <3>1, LegacyNull DEF NamesOf
    <3>3. \A m \in Name : client_sockets'[m] = IF m = n THEN Absent ELSE client_sockets[m]
      BY <3>1
    <3>. QED
      BY <3>2, <3>3, LegacyNull DEF NamesOf
  <2>2. Listed' \subseteq (Listed \cup {0}) \ {fd[c]}
    BY <1>0, <1>2, LegacyFd DEF LeaveApp, Listed, Typed, TypeOK
  <2>. QED
    BY <1>0, <2>1, <2>2 DEF ListedIsNamed, Listed
<1>3. CASE Join(c)
  <2>1. msg[c].name \in Name /\ msg[c].room \in Room
    BY <1>3 DEF Join, Case, Typed, MessageFits
  <2>2. \A n \in Name : client_sockets[n] \in Fd => client_sockets'[n] = client_sockets[n]
    BY <1>3, <2>1, LegacyNull DEF Join, Typed, TypeOK
  <2>3. \A f \in Fd : NamesOf(f) # {} => NamesOf(f)' # {}
    BY <2>2 DEF NamesOf
  <2>4. \A f \in Listed' : f # 0 => f \in Listed \/ f = client_sockets[msg[c].name]
    BY <1>3, <2>1 DEF Join, Listed, Typed, TypeOK
  <2>5. \A f \in Listed' : f \in Fd \cup {0}
    BY ListedTyped DEF Typed, Listed, TypeOK
  <2>6. \A f \in Listed' : f # 0 => f \in Listed \/ NamesOf(f)' # {}
    BY <2>1, <2>2, <2>4, <2>5 DEF NamesOf
  <2>. QED
    BY <1>0, <2>3, <2>6, NamedMonotone
<1>. QED
  BY <1>1, <1>2, <1>3

(* For every number of clients, names, rooms and descriptors: a number in  *)
(* a seat or in active_sockets is bound to a nickname, so case '4' always  *)
(* finds the name of a seat's holder.                                      *)
THEOREM SeatHoldersNamed == Spec => []ListedIsNamed
<1>1. Init => ListedIsNamed
  BY DEF Init, ListedIsNamed
<1>2. Typed /\ Typed' /\ ListedIsNamed /\ [Next]_vars => ListedIsNamed'
  <2> SUFFICES ASSUME Typed, Typed', ListedIsNamed, [Next]_vars PROVE ListedIsNamed'
    OBVIOUS
  <2>1. CASE ~up
    <3>1. ~up'
      BY <2>1 DEF Next, vars, Socket, Switch, Accept, ClientClose, Recv, Hangup, Close, Relay,
                  Login, LeaveApp, Join, Deny, Broadcast, LeaveRoom, Case
    <3>. QED
      BY <3>1 DEF ListedIsNamed
  <2>2. CASE up /\ UNCHANGED tables
    BY <2>2, QuietKeepsNamed
  <2>3. CASE up /\ ~UNCHANGED tables
    <3>1. PICK c \in Conn : Login(c) \/ LeaveApp(c) \/ Join(c)
      BY <2>3 DEF Next, vars, Socket, Switch, Accept, ClientClose, Recv, Hangup, Close, Relay,
                  Deny, Broadcast, LeaveRoom, tables
    <3>. QED
      BY <2>3, <3>1, NamedSwitch
  <2>. QED
    BY <2>1, <2>2, <2>3
<1>. QED
  BY <1>1, <1>2, TypedInit, TypedStep, PTL DEF Spec
=============================================================================
