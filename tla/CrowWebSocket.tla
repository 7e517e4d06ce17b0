---------------------------- MODULE CrowWebSocket ----------------------------
(***************************************************************************)
(* crow/websocket.h: one Connection from the upgrade to its deletion.      *)
(*                                                                         *)
(* Its handlers all run on one io thread, so a step is one handler, from   *)
(* its start to its return; what other threads ask for is posted to that   *)
(* thread.  The operators on a state s of the object are its methods.      *)
(*                                                                         *)
(* The client sends frames.  A payload is so many pieces <<frame, piece>>, *)
(* and Payload reads take any number of them.  The first read of a frame   *)
(* may return one byte of the header's two: the rest of the stream is then *)
(* read at the wrong offset, and any header may come out of it.            *)
(***************************************************************************)
EXTENDS Naturals, Sequences, SequencesExt

CONSTANTS Frame,        \* the frames a client sends: records op, fin, masked, ext, size
          MaxPayload,   \* max_payload_bytes_, in pieces
          MaxFrames,    \* bound on the frames a client sends
          MaxCalls,     \* bound on the application's calls of send_text and close
          MaxInputs     \* bound on the frames and calls together

WsConfig == Frame \subseteq [op : STRING, fin : BOOLEAN, masked : BOOLEAN, ext : Nat, size : Nat]

ASSUME WsAssumption == WsConfig

VARIABLES ws,           \* the Connection, its socket, and what is posted for it
          sent,         \* the frames whose headers were read; the last one is arriving
          aligned,      \* no header was read by halves
          peerGone      \* the client has closed its end

wsVars == <<ws, sent, aligned, peerGone>>

NoFrame == [op |-> "none", fin |-> TRUE, masked |-> FALSE, ext |-> 0, size |-> 0]
Replies == {"none", "send", "close"}    \* what a handler of the application may do

-----------------------------------------------------------------------------
(* The methods.                                                            *)

MayCall(s) == s.texts + s.closes < MaxCalls /\ Len(sent) + s.texts + s.closes < MaxInputs

Closed(s) == [s EXCEPT !.closing = TRUE, !.open = FALSE]

\* a write is outstanding as long as sending_buffers_ is not empty
DoWrite(s) ==
    IF s.sending # <<>> THEN s
    ELSE [s EXCEPT !.sending = s.buffers, !.buffers = <<>>, !.fails = ~s.open \/ s.broken]

Delete(s) == IF s.sending = <<>> /\ ~s.reading THEN [s EXCEPT !.life = "freed"] ELSE s

\* a mutant of CheckDestroy: a read that is outstanding is not waited for
CheckDestroyReading(s) ==
    LET t == [s EXCEPT !.calls = IF s.told THEN @ ELSE @ + 1]
    IN  IF s.sending = <<>> THEN [t EXCEPT !.life = "freed"] ELSE t

\* the close handler is called, but not noted; handler_ never knew the object
CheckDestroy(s) == Delete([s EXCEPT !.calls = IF s.told THEN @ ELSE @ + 1])

\* close(), as dispatched: on the io thread it runs at once
Close(s) ==
    LET tell == s.recvClose /\ ~s.told
    IN  DoWrite([s EXCEPT !.sentClose = TRUE,
                          !.told = @ \/ tell,
                          !.calls = IF tell THEN @ + 1 ELSE @,
                          !.buffers = Append(@, <<"close", 0>>)])

SendData(s, item) == [s EXCEPT !.posted = Append(@, item)]

\* what a handler of the application does
React(s, reply) ==
    CASE reply = "send" /\ MayCall(s) ->
            SendData([s EXCEPT !.texts = @ + 1], <<"text", s.texts + 1>>)
      [] reply = "close" /\ MayCall(s) ->
            Close([s EXCEPT !.closes = @ + 1])
      [] OTHER -> s

(* do_read() starts the read its state calls for. is_reading is set before *)
(* the length is looked at, and stays set when the payload is too long.    *)
WsDoRead(s) ==
    LET r == [s EXCEPT !.reading = TRUE]
    IN  IF s.sentClose /\ s.recvClose THEN CheckDestroy(Closed(s))
        ELSE IF s.state # "Mask" THEN [r EXCEPT !.waiting = TRUE]
        ELSE IF s.left > MaxPayload THEN CheckDestroy(Closed([r EXCEPT !.tooBig = TRUE]))
        ELSE [r EXCEPT !.waiting = TRUE, !.state = IF s.hdr.masked THEN "Mask" ELSE "Payload"]

\* a mutant of Merge: message_ is not cleared after the handler was called
MergeOn(s, reply) ==
    LET m == s.message \o s.fragment
    IN  IF s.hdr.fin
        THEN React([s EXCEPT !.message = m, !.delivered = Append(@, m)], reply)
        ELSE [s EXCEPT !.message = m]

Merge(s, reply) ==
    LET m == s.message \o s.fragment
    IN  IF s.hdr.fin
        THEN React([s EXCEPT !.message = <<>>, !.delivered = Append(@, m)], reply)
        ELSE [s EXCEPT !.message = m]

(* handle_fragment(), and the read of the next header where it returns     *)
(* true. A client's close frame is answered, or it is the answer.          *)
HandleFragment(s, reply) ==
    LET next(t) == WsDoRead([t EXCEPT !.fragment = <<>>, !.state = "MiniHeader"])
        c == [s EXCEPT !.recvClose = TRUE]
    IN  CASE s.hdr.op = "data" -> next(Merge(s, reply))
          [] s.hdr.op = "ping" -> next(SendData(s, <<"pong", 0>>))
          [] s.hdr.op = "close" /\ ~s.sentClose -> next(Close(c))
          [] s.hdr.op = "close" /\ s.sentClose ->
                CheckDestroy(Closed([c EXCEPT !.told = TRUE,
                                              !.calls = IF s.told THEN @ ELSE @ + 1]))
          [] OTHER -> next(s)    \* a pong, or nothing that is known

-----------------------------------------------------------------------------
WsInit ==
    /\ ws = [life |-> "new", open |-> TRUE, broken |-> FALSE, posted |-> <<>>,
             texts |-> 0, closes |-> 0,
             state |-> "MiniHeader", hdr |-> NoFrame, left |-> 0, fragment |-> <<>>,
             message |-> <<>>, reading |-> FALSE, waiting |-> FALSE, tooBig |-> FALSE,
             sending |-> <<>>, buffers |-> <<>>, fails |-> FALSE,
             closing |-> FALSE, sentClose |-> FALSE, recvClose |-> FALSE,
             told |-> FALSE, calls |-> 0, delivered |-> <<>>, wire |-> <<>>]
    /\ sent = <<>>
    /\ aligned = TRUE
    /\ peerGone = FALSE

(* The constructor: a request that does not ask for "websocket", or that   *)
(* the accept handler turns down, ends it. start() answers 101, calls the  *)
(* open handler and reads.                                                 *)
Refuse ==
    /\ ws.life = "new"
    /\ ws' = [ws EXCEPT !.life = "freed", !.open = FALSE]
    /\ UNCHANGED <<sent, aligned, peerGone>>

WsStart ==
    /\ ws.life = "new"
    /\ \E reply \in Replies :
          ws' = WsDoRead(React(DoWrite([ws EXCEPT !.life = "up",
                                                  !.buffers = <<<<"101", 0>>>>]), reply))
    /\ UNCHANGED <<sent, aligned, peerGone>>

ClientCloses ==
    /\ ws.life = "up" /\ ~peerGone
    /\ peerGone' = TRUE
    /\ UNCHANGED <<ws, sent, aligned>>

-----------------------------------------------------------------------------
(* The completion of a read.                                               *)

Completes(state) == ws.life = "up" /\ ws.waiting /\ ws.state = state /\ ws.open

Took(s) == [s EXCEPT !.reading = FALSE, !.waiting = FALSE]

Header(f) ==
    WsDoRead([Took(ws) EXCEPT !.hdr = f, !.left = f.size,
                              !.state = CASE f.ext = 64 -> "Len64"
                                          [] f.ext = 16 -> "Len16"
                                          [] OTHER -> "Mask"])

MaySend == Len(sent) < MaxFrames /\ Len(sent) + ws.texts + ws.closes < MaxInputs

ReadHeader ==
    /\ Completes("MiniHeader") /\ MaySend
    /\ \E f \in Frame : ws' = Header(f) /\ sent' = Append(sent, f)
    /\ UNCHANGED <<aligned, peerGone>>

\* async_read_some returned one byte: the second one reads as 0
ReadHalfHeader ==
    /\ Completes("MiniHeader") /\ MaySend
    /\ \E f \in Frame :
          /\ ws' = Header([f EXCEPT !.masked = FALSE, !.ext = 0, !.size = 0])
          /\ sent' = Append(sent, f)
    /\ aligned' = FALSE
    /\ UNCHANGED peerGone

ReadLength ==
    /\ Completes("Len16") \/ Completes("Len64")
    /\ ws' = WsDoRead([Took(ws) EXCEPT !.state = "Mask"])
    /\ UNCHANGED <<sent, aligned, peerGone>>

ReadMask ==
    /\ Completes("Mask")
    /\ ws' = WsDoRead([Took(ws) EXCEPT !.state = "Payload"])
    /\ UNCHANGED <<sent, aligned, peerGone>>

\* a mutant of ReadPayload: the read is not limited to what remains
ReadPayloadBuffer ==
    /\ Completes("Payload")
    /\ \E k \in 1 .. MaxPayload : ws' = WsDoRead([Took(ws) EXCEPT !.left = @ - k])
    /\ UNCHANGED <<sent, aligned, peerGone>>

\* any part of what remains; nothing, and at once, if nothing does
ReadPayload ==
    /\ Completes("Payload")
    /\ \E k \in 0 .. ws.left, reply \in Replies :
          /\ k = 0 => ws.left = 0
          /\ LET got == ws.hdr.size - ws.left
                 s == [Took(ws) EXCEPT !.left = @ - k,
                          !.fragment = @ \o [i \in 1 .. k |-> <<Len(sent), got + i>>]]
             IN  ws' = IF s.left = 0 THEN HandleFragment(s, reply) ELSE WsDoRead(s)
    /\ UNCHANGED <<sent, aligned, peerGone>>

(* The end of the stream, in front of a frame or inside one, a reset, or a *)
(* socket that this side has closed.                                       *)
WsReadFails ==
    /\ ws.life = "up" /\ ws.waiting
    /\ ~ws.open \/ peerGone
    /\ ws' = CheckDestroy(Closed(Took(ws)))
    /\ UNCHANGED <<sent, aligned, peerGone>>

-----------------------------------------------------------------------------
(* The completion of a write: close_connection_ follows the first one      *)
(* after close(), whether or not the close frame was in it.                *)

Wrote(s, n) == [s EXCEPT !.wire = @ \o SubSeq(s.sending, 1, n), !.sending = <<>>]

WriteDone ==
    /\ ws.life = "up" /\ ws.sending # <<>> /\ ~ws.fails
    /\ LET s == Wrote(ws, Len(ws.sending))
       IN  ws' = IF ws.closing THEN CheckDestroy(s)
                 ELSE [IF s.buffers = <<>> THEN s ELSE DoWrite(s) EXCEPT !.closing = s.sentClose]
    /\ UNCHANGED <<sent, aligned, peerGone>>

\* a mutant of WriteFails: the object is left to the read
WriteFailsKept ==
    /\ ws.life = "up" /\ ws.sending # <<>>
    /\ ~ws.open \/ peerGone
    /\ ws' = [Wrote(ws, 0) EXCEPT !.closing = TRUE, !.broken = TRUE]
    /\ UNCHANGED <<sent, aligned, peerGone>>

WriteFails ==
    /\ ws.life = "up" /\ ws.sending # <<>>
    /\ ~ws.open \/ peerGone
    /\ \E n \in 0 .. IF ws.fails THEN 0 ELSE Len(ws.sending) :
          ws' = CheckDestroy([Wrote(ws, n) EXCEPT !.closing = TRUE, !.broken = TRUE])
    /\ UNCHANGED <<sent, aligned, peerGone>>

-----------------------------------------------------------------------------
(* The application's threads, which leave a connection alone once its      *)
(* close handler was called; the weak pointer in what they posted is null  *)
(* when the object is gone.                                                *)

AppCalls ==
    /\ ws.life = "up" /\ ws.calls = 0
    /\ MayCall(ws)
    /\ \/ ws' = React(ws, "send")
       \/ ws' = SendData([ws EXCEPT !.closes = @ + 1], <<"close", 0>>)
    /\ UNCHANGED <<sent, aligned, peerGone>>

RunPosted ==
    /\ ws.posted # <<>>
    /\ LET p == Head(ws.posted)
           s == [ws EXCEPT !.posted = Tail(@)]
       IN  ws' = IF ws.life = "freed" THEN s
                 ELSE IF p[1] = "close" THEN Close(s)
                 ELSE DoWrite([s EXCEPT !.buffers = Append(@, p)])
    /\ UNCHANGED <<sent, aligned, peerGone>>

WsRead == ReadHeader \/ ReadHalfHeader \/ ReadLength \/ ReadMask \/ ReadPayload \/ WsReadFails
Write == WriteDone \/ WriteFails

WsNext == Refuse \/ WsStart \/ ClientCloses \/ WsRead \/ Write \/ AppCalls \/ RunPosted

\* the io thread runs every completion and what is posted
WsFairness == WF_wsVars(WsRead) /\ WF_wsVars(Write) /\ WF_wsVars(RunPosted)

WsSpec == WsInit /\ [][WsNext]_wsVars

-----------------------------------------------------------------------------
(* Properties.                                                             *)

WsTypeOK ==
    /\ ws.life \in {"new", "up", "freed"}
    /\ ws.state \in {"MiniHeader", "Len16", "Len64", "Mask", "Payload"}
    /\ ws.hdr \in Frame \cup {NoFrame} \cup {[f EXCEPT !.masked = FALSE, !.ext = 0, !.size = 0] : f \in Frame}
    /\ ws.left \in 0 .. ws.hdr.size
    /\ sent \in Seq(Frame)
    /\ aligned \in BOOLEAN /\ peerGone \in BOOLEAN

(* No completion handler is left to touch a deleted Connection: it is      *)
(* deleted with no read and no write outstanding, wherever in the two the  *)
(* closing began, and after the application heard of the end of a          *)
(* connection that it saw opened.                                          *)
FreedIsQuiet ==
    ws.life = "freed" => /\ ~ws.waiting /\ ws.sending = <<>>
                         /\ ws.wire # <<>> => ws.calls > 0

\* the pieces of a frame's payload
Pieces(fs, i) == [j \in 1 .. fs[i].size |-> <<i, j>>]

(* The messages in the first n frames of fs: the payloads of the data      *)
(* frames, joined up to each that sets FIN; the last one may be open.      *)
Messages(fs) ==
    LET cut[n \in 0 .. Len(fs)] ==
            IF n = 0 THEN [whole |-> <<>>, open |-> <<>>]
            ELSE LET m == cut[n - 1].open \o Pieces(fs, n)
                 IN  IF fs[n].op # "data" THEN cut[n - 1]
                     ELSE IF fs[n].fin THEN [whole |-> Append(cut[n - 1].whole, m), open |-> <<>>]
                     ELSE [whole |-> cut[n - 1].whole, open |-> m]
    IN  cut

\* what onmessage got, and what waits for the rest of a message, of all frames but the arriving one
HeardAsSent ==
    LET n == IF ws.state = "MiniHeader" THEN Len(sent) ELSE Len(sent) - 1
    IN  /\ ws.delivered = Messages(sent)[n].whole
        /\ ws.message = Messages(sent)[n].open

\* texts, by the number of their calls: each went out once, behind all before it
InCallOrder(q) ==
    \A i \in 1 .. Len(q) : q[i][1] = "text" =>
        /\ \A n \in 1 .. q[i][2] - 1 : \E j \in 1 .. i - 1 : q[j] = <<"text", n>>
        /\ \A j \in 1 .. i - 1 : q[j][1] = "text" => q[j][2] < q[i][2]

(* What onmessage gets is what the client sent: all pieces, in order, and  *)
(* cut where it set FIN, whatever control frames come in between and       *)
(* however the payloads arrive. The client gets the answer 101 first, and  *)
(* the texts in the order of the calls of send_text, none left out before  *)
(* a later one, while other writes are outstanding, fail, or are cut off   *)
(* by the closing.                                                         *)
MessagesAsSent ==
    /\ aligned => HeardAsSent
    /\ ws.wire # <<>> => ws.wire[1] = <<"101", 0>>
    /\ InCallOrder(ws.wire)

(* Once the client is gone, or both sides have sent their close frames,    *)
(* the object is deleted in the end, unless it was given up for a payload  *)
(* that is too long.                                                       *)
EndsFreed ==
    (ws.life = "up" /\ (peerGone \/ (ws.sentClose /\ ws.recvClose)))
        ~> (ws.life = "freed" \/ ws.tooBig)
=============================================================================
