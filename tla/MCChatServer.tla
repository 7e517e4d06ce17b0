---------------------------- MODULE MCChatServer ----------------------------
(* Constants for model checking ChatServer: who sends what.                *)
EXTENDS ChatServer, TLC

\* the web client (ChatLayout.tsx) sends nothing else than these, at any time
Web == {"login", "join", "msg"}
WebScript == <<Web, Web>>
JoinScript == <<{"join"}, {"msg"}>>
\* join a room, leave it: the rooms' part of performance_test.py
RoomScript == <<{"join"}, {"leaveRoom"}>>
RejoinScript == RoomScript \o RoomScript
AllScript == <<Ops, Ops>>

\* 97 = 0x61 is the size word glibc keeps in front of ten pairs of int
HeapWord == {97}
Symmetry == Permutations(Conn)
NameSymmetry == Symmetry \cup Permutations(Name)
=============================================================================
