-------------------------------- MODULE Proxy --------------------------------
(***************************************************************************)
(* One connection of the proxy (smallproxy.py, and with other names        *)
(* Proxy/smallproxy_functionbased.py): the coroutines websocket_to_tcp and *)
(* tcp_to_websocket, between the page's WebSocket and send_message of      *)
(* server/src/socket_server.cpp.                                           *)
(*                                                                         *)
(* The event loop runs a coroutine from one await to the next in one step. *)
(* The server's two send() calls per text are two chunks of the stream; a  *)
(* read returns one or several chunks that have arrived, as it would for   *)
(* texts that fit into its 1024 bytes.                                     *)
(***************************************************************************)
EXTENDS Naturals, Sequences

CONSTANTS Handler,          \* server threads that send to this client: its own, its peer's
          MaxUp, MaxDown    \* bounds: texts from the page, texts from the server

ASSUME BoundAssumption == MaxUp \in Nat /\ MaxDown \in Nat

VARIABLES
    websocket,  \* is the page's WebSocket open?
    socket,     \* is the server's end of the TCP connection open?
    conn,       \* handle_connection: "connecting", in "gather", or "returned"
    typed,      \* texts the page has sent, numbered in their order
    received,   \* how many of them websocket.recv has returned
    written,    \* texts written to the TCP connection
    sending,    \* Handler -> the text whose length it has sent, or 0
    begun,      \* how many texts the server has begun to send
    stream,     \* the chunks the server has sent
    taken,      \* how many of them reader.read has returned
    data,       \* the local of tcp_to_websocket: a message that is being sent
    given,      \* the chunks that were sent to the page
    up_at, down_at      \* where the coroutines are: at an await, or "ended"

page   == <<websocket, typed>>
server == <<socket, sending, begun, stream>>
up     == <<received, written, up_at>>
down   == <<taken, data, given, down_at>>
vars   == <<page, server, conn, up, down>>

Chunk == [of : 1 .. MaxDown, part : {"length", "text"}]
Gathering == conn = "gather"

TypeOK ==
    /\ websocket \in BOOLEAN /\ socket \in BOOLEAN
    /\ conn \in {"connecting", "gather", "returned"}
    /\ typed \in Seq(1 .. MaxUp) /\ written \in Seq(1 .. MaxUp)
    /\ received \in 0 .. Len(typed)
    /\ sending \in [Handler -> 0 .. MaxDown]
    /\ begun \in 0 .. MaxDown
    /\ stream \in Seq(Chunk) /\ taken \in 0 .. Len(stream)
    /\ data \in Seq(Chunk) /\ given \in Seq(Chunk)
    /\ up_at \in {"recv", "drain", "ended"}
    /\ down_at \in {"read", "send", "ended"} /\ (down_at = "send" <=> data # <<>>)

Init ==
    /\ websocket = TRUE /\ socket = TRUE /\ conn = "connecting"
    /\ typed = <<>> /\ received = 0 /\ written = <<>>
    /\ sending = [h \in Handler |-> 0] /\ begun = 0 /\ stream = <<>>
    /\ taken = 0 /\ data = <<>> /\ given = <<>>
    /\ up_at = "recv" /\ down_at = "read"

-----------------------------------------------------------------------------
(* The page and the server.                                                *)

PageSends ==
    /\ websocket /\ Len(typed) < MaxUp
    /\ typed' = Append(typed, Len(typed) + 1)
    /\ UNCHANGED <<websocket, server, conn, up, down>>

PageCloses ==
    /\ websocket
    /\ websocket' = FALSE
    /\ UNCHANGED <<typed, server, conn, up, down>>

\* send_message: the length, and later the text, with no lock on the socket
SendLength(h) ==
    /\ Gathering /\ socket /\ sending[h] = 0 /\ begun < MaxDown
    /\ begun' = begun + 1
    /\ sending' = [sending EXCEPT ![h] = begun + 1]
    /\ stream' = Append(stream, [of |-> begun + 1, part |-> "length"])
    /\ UNCHANGED <<socket, page, conn, up, down>>

SendText(h) ==
    /\ socket /\ sending[h] # 0
    /\ stream' = Append(stream, [of |-> sending[h], part |-> "text"])
    /\ sending' = [sending EXCEPT ![h] = 0]
    /\ UNCHANGED <<socket, begun, page, conn, up, down>>

\* the handler of '3' closes the connection, or the server process ends
ServerCloses ==
    /\ conn # "connecting" /\ socket
    /\ socket' = FALSE
    /\ UNCHANGED <<sending, begun, stream, page, conn, up, down>>

-----------------------------------------------------------------------------
(* handle_connection.                                                      *)

Connect ==
    /\ conn = "connecting"
    /\ conn' = "gather"
    /\ UNCHANGED <<page, server, up, down>>

\* open_connection raises; the library closes the WebSocket of a handler that returns
ConnectFails ==
    /\ conn = "connecting"
    /\ conn' = "returned" /\ websocket' = FALSE
    /\ UNCHANGED <<typed, server, up, down>>

\* a mutant of Forward: a text is written once more
ForwardTwice ==
    /\ Gathering /\ up_at = "recv" /\ received < Len(typed)
    /\ received' = received + 1
    /\ written' = IF socket THEN written \o <<typed[received + 1], typed[received + 1]>> ELSE written
    /\ up_at' = "drain"
    /\ UNCHANGED <<page, server, conn, down>>

\* websocket.recv returns a text; it is written at once (to nobody if the server is gone)
Forward ==
    /\ Gathering /\ up_at = "recv" /\ received < Len(typed)
    /\ received' = received + 1
    /\ written' = IF socket THEN Append(written, typed[received + 1]) ELSE written
    /\ up_at' = "drain"
    /\ UNCHANGED <<page, server, conn, down>>

\* writer.drain returns, or raises once the server's end is gone
Drain ==
    /\ Gathering /\ up_at = "drain"
    /\ up_at' \in IF socket THEN {"recv"} ELSE {"recv", "ended"}
    /\ UNCHANGED <<page, server, conn, received, written, down>>

\* websocket.recv raises ConnectionClosed after the last text
PageGone ==
    /\ Gathering /\ up_at = "recv" /\ received = Len(typed) /\ ~websocket
    /\ up_at' = "ended"
    /\ UNCHANGED <<page, server, conn, received, written, down>>

\* a mutant of Read: read again while the last message is still being sent
ReadAhead ==
    /\ Gathering /\ down_at \in {"read", "send"}
    /\ \E n \in taken + 1 .. Len(stream) :
          /\ data' = SubSeq(stream, taken + 1, n)
          /\ taken' = n
    /\ down_at' = "send"
    /\ UNCHANGED <<page, server, conn, up, given>>

\* a mutant of Read: the empty read at the end is not told from a message
ReadEmpty ==
    /\ Gathering /\ down_at = "read"
    /\ \E n \in taken .. Len(stream) :
          /\ n = taken => ~socket
          /\ data' = SubSeq(stream, taken + 1, n)
          /\ taken' = n
    /\ down_at' = "send"
    /\ UNCHANGED <<page, server, conn, up, given>>

\* reader.read(1024): whatever has arrived
Read ==
    /\ Gathering /\ down_at = "read"
    /\ \E n \in taken + 1 .. Len(stream) :
          /\ data' = SubSeq(stream, taken + 1, n)
          /\ taken' = n
    /\ down_at' = "send"
    /\ UNCHANGED <<page, server, conn, up, given>>

\* a mutant of ServerGone: the empty read is not taken for the end
ReadNothing ==
    /\ Gathering /\ down_at = "read" /\ ~socket
    /\ UNCHANGED vars

\* the read is empty at the end of the stream, or raises after a reset
ServerGone ==
    /\ Gathering /\ down_at = "read" /\ ~socket
    /\ down_at' = "ended"
    /\ UNCHANGED <<page, server, conn, up, taken, data, given>>

\* websocket.send, which raises when the page has gone
Give ==
    /\ Gathering /\ down_at = "send"
    /\ IF websocket
       THEN /\ given' = given \o data
            /\ down_at' = "read"
       ELSE down_at' = "ended" /\ UNCHANGED given
    /\ data' = <<>>
    /\ UNCHANGED <<page, server, conn, up, taken>>

\* gather is done when both have ended; then writer.close, and the handler returns
CleanUp ==
    /\ Gathering /\ up_at = "ended" /\ down_at = "ended"
    /\ conn' = "returned" /\ websocket' = FALSE
    /\ UNCHANGED <<typed, server, up, down>>

Loops == Connect \/ ConnectFails \/ Forward \/ Drain \/ PageGone \/ Read \/ ServerGone \/ Give \/ CleanUp
Ends == PageSends \/ PageCloses \/ ServerCloses \/ \E h \in Handler : SendLength(h) \/ SendText(h)

Next == Loops \/ Ends

Spec == Init /\ [][Next]_vars

(* The event loop resumes a coroutine whose await can return; open_connection *)
(* ends. Pages and the server owe nothing.                                  *)
Fairness ==
    /\ WF_vars(Connect \/ ConnectFails)
    /\ WF_vars(Forward \/ Drain \/ PageGone)
    /\ WF_vars(Read \/ ServerGone \/ Give)
    /\ WF_vars(CleanUp)

FairSpec == Spec /\ Fairness

-----------------------------------------------------------------------------
(* What the page types reaches the server in its order, each text once.    *)
UpPipe == INSTANCE Pipe WITH inp <- typed, outp <- written
TypedArrivesInOrder == UpPipe!Spec

(* What the server sends reaches the page in its order, each chunk once,   *)
(* however reads cut the stream.                                           *)
DownPipe == INSTANCE Pipe WITH inp <- stream, outp <- given
SentArrivesInOrder == DownPipe!Spec

(* Nothing that was read is dropped before the page has gone.              *)
NothingDropped ==
    down_at # "ended" => given \o data = SubSeq(stream, 1, taken)

(* A page that has gone is noticed, and its connection to the server is    *)
(* closed, as soon as the server sends something or closes its end.        *)
LeftPageNoticed ==
    (conn = "gather" /\ ~websocket /\ (~socket \/ taken < Len(stream))) ~> (conn = "returned")

(* A client disconnect ends with "Socket closed, resources cleaned."       *)
(* (test_smallproxy_functionbased.py:55).                                  *)
LeaveFreesConnection == ~websocket ~> (conn = "returned")
=============================================================================
