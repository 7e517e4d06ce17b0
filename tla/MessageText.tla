----------------------------- MODULE MessageText -----------------------------
(***************************************************************************)
(* The texts of the chat protocol, from the input field of one web client  *)
(* to the message list of another: sendToServer (ChatLayout.tsx),          *)
(* split_string and cases '1' and '2' of message_type_actions (the        *)
(* server), ws.onmessage (useWebSocket.tsx) and handleServerMessage.       *)
(*                                                                         *)
(* A text is a sequence of characters; only ";" and ":" mean anything.     *)
(* Framing and the proxy are left out: a text arrives as it was sent.      *)
(***************************************************************************)
EXTENDS Naturals, Sequences

CONSTANTS Letter,   \* the other characters; digits are among them
          MaxLen    \* bound on the texts that are typed

Char == Letter \cup {";", ":"}
Text == UNION {[1 .. n -> Char] : n \in 0 .. MaxLen}

\* the types that handleServerMessage gives a meaning
Codes == {<<"1">>, <<"2">>, <<"3">>, <<"5">>, <<"6">>, <<"9">>,
          <<"1", "0">>, <<"2", "0">>, <<"2", "1">>}

ASSUME TextAssumption == MaxLen \in Nat /\ Letter \cap {";", ":"} = {}

VARIABLES stage,    \* how far the message has come
          name,     \* what the sender typed as nickname
          text,     \* what the sender typed as message
          wire,     \* the text on its way
          shown     \* the entry added to the receiver's list, or <<>>

vars == <<stage, name, text, wire, shown>>

-----------------------------------------------------------------------------
\* first position >= i that holds d, else one past the end
NextOf(s, d, i) ==
    CHOOSE j \in i .. Len(s) + 1 :
        /\ j = Len(s) + 1 \/ s[j] = d
        /\ \A k \in i .. j - 1 : s[k] # d

\* a mutant of split_string: empty fields are skipped, as strtok does
split_skip(s, d) ==
    LET from[i \in 1 .. Len(s) + 1] ==
            IF i > Len(s) THEN <<>>
            ELSE LET j == NextOf(s, d, i)
                     rest == IF j > Len(s) THEN <<>> ELSE from[j + 1]
                 IN  IF j = i THEN rest ELSE <<SubSeq(s, i, j - 1)>> \o rest
    IN  from[1]

(* The getline loop: it stops at the end of the input, so a text that ends *)
(* in the delimiter has no empty last field and "" has no field at all.    *)
split_string(s, d) ==
    LET from[i \in 1 .. Len(s) + 1] ==
            IF i > Len(s) THEN <<>>
            ELSE LET j == NextOf(s, d, i)
                 IN  <<SubSeq(s, i, j - 1)>> \o IF j > Len(s) THEN <<>> ELSE from[j + 1]
    IN  from[1]

\* String.prototype.split: always one field more than there are delimiters
JsSplit(s, d) ==
    LET from[i \in 1 .. Len(s) + 1] ==
            LET j == NextOf(s, d, i)
            IN  <<SubSeq(s, i, j - 1)>> \o IF j > Len(s) THEN <<>> ELSE from[j + 1]
    IN  from[1]

Join(fields, d) ==
    LET upTo[i \in 0 .. Len(fields)] ==
            IF i = 0 THEN <<>>
            ELSE upTo[i - 1] \o (IF i = 1 THEN <<>> ELSE <<d>>) \o fields[i]
    IN  upTo[Len(fields)]

\* sendToServer(send, code, payload)
ToServer(code, payload) == <<code, ";">> \o payload

Parts(msg) == split_string(msg, ";")
HasArgument(msg) == Len(Parts(msg)) >= 2

\* a mutant of NameFor: the rest of the message instead of parts[1]
NameOfRest(typed) == typed

\* the nickname that case '2' stores
NameFor(typed) == Parts(ToServer("2", typed))[2]

\* a mutant of Entry: the line is cut at every colon
EntryOfTwo(type) ==
    LET words == JsSplit(type, ":")
    IN  IF Len(words) >= 2 /\ words[1] # <<>> /\ words[2] # <<>>
        THEN <<words[1], words[2]>> ELSE <<>>

\* the default case of handleServerMessage: [nameId, ...rest] = type.split(":")
Entry(type) ==
    LET words == JsSplit(type, ":")
        txt == Join(Tail(words), ":")
    IN  IF words[1] # <<>> /\ txt # <<>> THEN <<words[1], txt>> ELSE <<>>

-----------------------------------------------------------------------------
Init ==
    /\ stage = "typed"
    /\ name \in Text \ {<<>>}           \* UsernameModal refuses the empty name
    /\ text \in Text                    \* MessageInput refuses nothing
    /\ wire = <<>>
    /\ shown = <<>>

SendMessage ==
    /\ stage = "typed"
    /\ stage' = "sent"
    /\ wire' = ToServer("1", text)
    /\ UNCHANGED <<name, text, shown>>

\* case '1'; without a second part, parts[1] is out of range and undefined
Relay ==
    /\ stage = "sent"
    /\ IF HasArgument(wire)
       THEN stage' = "relayed" /\ wire' = NameFor(name) \o <<":">> \o Parts(wire)[2]
       ELSE stage' = "undefined" /\ UNCHANGED wire
    /\ UNCHANGED <<name, text, shown>>

\* [type, payload] = raw.split(';'), then the switch on type
Receive ==
    /\ stage = "relayed"
    /\ LET type == JsSplit(wire, ";")[1]
       IN  /\ wire' = type
           /\ stage' = IF type \in Codes THEN "obeyed" ELSE "shown"
           /\ shown' = IF type \in Codes THEN <<>> ELSE Entry(type)
    /\ UNCHANGED <<name, text>>

Next == SendMessage \/ Relay \/ Receive

Spec == Init /\ [][Next]_vars

-----------------------------------------------------------------------------
Contains(s, d) == \E i \in 1 .. Len(s) : s[i] = d

(* split_string against its meaning: the fields hold no delimiter, and     *)
(* joined again they are the text, but for one delimiter at its end.       *)
SplitMeaning ==
    LET fields == Parts(text)
    IN  /\ \A i \in 1 .. Len(fields) : ~Contains(fields[i], ";")
        /\ text \in {Join(fields, ";"), Join(fields, ";") \o <<";">>}

(* A chat line arrives as it was typed, "messages with additional colons"  *)
(* included (ChatLayout.tsx:151), if the name holds neither separator and  *)
(* the text holds no ";".                                                  *)
ColonsSurvive ==
    [][Receive /\ ~Contains(name, ":") /\ ~Contains(name, ";") /\ ~Contains(text, ";")
          => shown' = <<name, text>>]_vars

(* Whatever nickname and text somebody types, the line relayed by case '1' *)
(* is never taken for one of the server's own codes: a name cannot make    *)
(* the peer believe that it joined a room or lost its nickname.            *)
LineIsNoCode == stage # "obeyed"
=============================================================================
