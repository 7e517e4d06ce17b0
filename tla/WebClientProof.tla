--------------------------- MODULE WebClientProof ---------------------------
(***************************************************************************)
(* Proofs about WebClient with patient users, for every number of pages,   *)
(* nicknames, tries, rooms, clicks and lines: what a page believes of      *)
(* rooms is what the server has.                                           *)
(***************************************************************************)
EXTENDS WebClient, WellFoundedInduction, TLAPS

Alive(p) == ready[p] \in {"connecting", "open"}

Has(s, codes) == \E i \in DOMAIN s : s[i].code \in codes
Once(s, codes) == \A i, j \in DOMAIN s : s[i].code \in codes /\ s[j].code \in codes => i = j

(* At most one join of a page is under way: due, on its way to the server, *)
(* or answered.                                                            *)
OneJoin(p) ==
    /\ Once(timers[p], {"4"}) /\ Once(up[Cur(p)], {"4"}) /\ Once(down[Cur(p)], {"2", "3"})
    /\ Has(timers[p], {"4"}) => ~Has(up[Cur(p)], {"4"}) /\ ~Has(down[Cur(p)], {"2", "3"})
    /\ Has(up[Cur(p)], {"4"}) => ~Has(down[Cur(p)], {"2", "3"})

\* and its room is the one that is pending
Fits(p) ==
    /\ \A i \in DOMAIN timers[p] :
          timers[p][i].code = "4" => pending[p] # 0 /\ timers[p][i].room = pending[p]
    /\ \A i \in DOMAIN up[Cur(p)] :
          up[Cur(p)][i].code = "4" => pending[p] # 0 /\ up[Cur(p)][i].room = pending[p]
    /\ \A i \in DOMAIN down[Cur(p)] :
          /\ down[Cur(p)][i].code = "2" => pending[p] # 0 /\ Seated(Cur(p), pending[p] + 1)
          /\ down[Cur(p)][i].code = "3" => pending[p] # 0 /\ ~Seated(Nobody, pending[p] + 1)

(* The nickname is what a socket carries first, so that no room is joined  *)
(* by a connection whose nickname is refused later.                        *)
LoginFirst(p) ==
    /\ \A i \in DOMAIN timers[p] : timers[p][i].code = "2" =>
          i = 1 /\ up[Cur(p)] = <<>> /\ ~Has(down[Cur(p)], {"2"}) /\ selected[p] = 0
    /\ \A i \in DOMAIN up[Cur(p)] : up[Cur(p)][i].code = "2" =>
          i = 1 /\ ~Has(down[Cur(p)], {"2"}) /\ selected[p] = 0
    /\ \A i \in DOMAIN down[Cur(p)] : down[Cur(p)][i].code = "20" =>
          selected[p] = 0 /\ \A j \in DOMAIN down[Cur(p)] : j < i => down[Cur(p)][j].code # "2"

\* lines on their way to a page are from names that sit with it
Mates(p, n) == names[n] \in Conn /\ Sits(Cur(p)) \cap Sits(names[n]) # {}
LinesFromMates(p) ==
    \A i \in DOMAIN down[Cur(p)] :
        down[Cur(p)][i].code = "line" /\ down[Cur(p)][i].name # NoName => Mates(p, down[Cur(p)][i].name)

Queues(p) == nth[p] > 0 => OneJoin(p) /\ Fits(p) /\ LoginFirst(p) /\ LinesFromMates(p)

\* what the page itself keeps
Kept(p) ==
    /\ username[p] # NoName => nth[p] > 0
    /\ username[p] = NoName => selected[p] = 0 /\ ~Alive(p)
    /\ Alive(p) => nth[p] > 0
    /\ Alive(p) /\ selected[p] # 0 => Seated(Cur(p), selected[p] + 1)
    /\ selected[p] = 0 => shown[p] = {}
    /\ \A r \in full[p] : ~Seated(Nobody, r + 1)
    /\ \A l \in shown[p] : Mates(p, l.name)
    /\ \A i \in DOMAIN timers[p] : timers[p][i].code = "1" => selected[p] # 0

\* of connections that are not opened yet, and of lines under way
Unopened(c) == c[2] > nth[c[1]] => up[c] = <<>> /\ down[c] = <<>>
FromASeat(c) == \A i \in DOMAIN up[c] : up[c][i].code = "1" => Sits(c) # {}

Believed ==
    /\ TypeOK
    /\ \A p \in Page : Queues(p) /\ Kept(p)
    /\ \A c \in Conn : Unopened(c) /\ FromASeat(c)

-----------------------------------------------------------------------------
(* Sequences and connections.                                              *)

LEMMA AppendFacts ==
    ASSUME NEW T, NEW s \in Seq(T), NEW x \in T
    PROVE  /\ Append(s, x) \in Seq(T)
           /\ DOMAIN s = 1 .. Len(s) /\ Len(s) \in Nat /\ DOMAIN Append(s, x) = 1 .. Len(s) + 1
           /\ \A i \in DOMAIN s : Append(s, x)[i] = s[i]
           /\ Append(s, x)[Len(s) + 1] = x
OBVIOUS

LEMMA TailFacts ==
    ASSUME NEW T, NEW s \in Seq(T), s # <<>>
    PROVE  /\ Tail(s) \in Seq(T)
           /\ DOMAIN s = 1 .. Len(s) /\ Len(s) \in Nat \ {0}
           /\ DOMAIN Tail(s) = 1 .. Len(s) - 1
           /\ \A i \in DOMAIN Tail(s) : i + 1 \in DOMAIN s /\ Tail(s)[i] = s[i + 1]
           /\ 1 \in DOMAIN s /\ Head(s) = s[1] /\ Head(s) \in T
OBVIOUS

\* what is added, or taken from the front, and the codes in a queue
LEMMA HasAppend ==
    ASSUME NEW T, NEW s \in Seq(T), NEW x \in T, NEW codes
    PROVE  /\ Has(Append(s, x), codes) <=> Has(s, codes) \/ x.code \in codes
           /\ Once(s, codes) /\ (x.code \in codes => ~Has(s, codes)) => Once(Append(s, x), codes)
<1> DEFINE t == Append(s, x)
<1>1. /\ DOMAIN s = 1 .. Len(s) /\ Len(s) \in Nat /\ DOMAIN t = 1 .. Len(s) + 1
      /\ \A i \in DOMAIN s : t[i] = s[i]
      /\ t[Len(s) + 1] = x
  BY AppendFacts
<1> HIDE DEF t
<1> QED
  BY <1>1 DEF Has, Once

LEMMA HasTail ==
    ASSUME NEW T, NEW s \in Seq(T), s # <<>>, NEW codes
    PROVE  /\ Has(Tail(s), codes) => Has(s, codes)
           /\ Head(s).code \in codes => Has(s, codes)
           /\ Once(s, codes) => Once(Tail(s), codes)
           /\ Once(s, codes) /\ Head(s).code \in codes => ~Has(Tail(s), codes)
<1> DEFINE t == Tail(s)
           h == Head(s)
<1>1. /\ DOMAIN s = 1 .. Len(s) /\ Len(s) \in Nat \ {0} /\ DOMAIN t = 1 .. Len(s) - 1
      /\ \A i \in DOMAIN t : i + 1 \in DOMAIN s /\ t[i] = s[i + 1]
      /\ 1 \in DOMAIN s /\ h = s[1]
  BY TailFacts
<1> HIDE DEF t, h
<1> QED
  BY <1>1 DEF Has, Once

LEMMA ConnFacts ==
    /\ \A p \in Page, k \in Nat : k > 0 /\ k <= Len(Tries[p]) => <<p, k>> \in Conn
    /\ \A c \in Conn : c[1] \in Page /\ c[2] \in Nat /\ c = <<c[1], c[2]>> /\ c # Nobody
<1>1. \A p \in Page : Tries[p] \in Seq(Name) /\ DOMAIN Tries[p] = 1 .. Len(Tries[p]) /\ Len(Tries[p]) \in Nat
  BY BoundAssumption
<1>2. \A p \in Page, k \in Nat : k > 0 /\ k <= Len(Tries[p]) => <<p, k>> \in Conn
  BY <1>1 DEF Conn
<1>3. ASSUME NEW c \in Conn PROVE c[1] \in Page /\ c[2] \in Nat /\ c = <<c[1], c[2]>>
  BY <1>1 DEF Conn
<1> QED
  BY <1>2, <1>3, NobodyAssumption

LEMMA CurIsConn == ASSUME TypeOK, NEW p \in Page, nth[p] > 0 PROVE Cur(p) \in Conn
BY ConnFacts DEF TypeOK, Cur

-----------------------------------------------------------------------------
(* Types.                                                                  *)

LEMMA InitTyped == Init => TypeOK
<1>1. <<>> \in Seq(Text) /\ <<>> \in Seq(Answer)
  OBVIOUS
<1> QED
  BY <1>1, BoundAssumption DEF Init, TypeOK

LEMMA SayTyped ==
    ASSUME NEW k \in {"line", "2", "3", "20", "21"}, NEW n \in Name \cup {NoName}
    PROVE  Say(k, n) \in Answer
BY DEF Say, Answer

LEMMA TimerTyped ==
    ASSUME TypeOK, NEW p \in Page, NEW x \in Text, After100ms(p, x)
    PROVE  timers' \in [Page -> Seq(Text)]
BY AppendFacts DEF TypeOK, After100ms

LEMMA ReplyTyped ==
    ASSUME TypeOK, NEW c \in Conn, NEW to, NEW m \in Answer, up[c] # <<>>, Reply(c, to, m)
    PROVE  up' \in [Conn -> Seq(Text)] /\ down' \in [Conn -> Seq(Answer)]
<1>1. Tail(up[c]) \in Seq(Text)
  BY TailFacts DEF TypeOK
<1>2. \A d \in Conn : down[d] \in Seq(Answer) /\ Append(down[d], m) \in Seq(Answer)
  BY AppendFacts DEF TypeOK
<1> QED
  BY <1>1, <1>2 DEF TypeOK, Reply

LEMMA UserTyped ==
    ASSUME TypeOK, NEW p \in Page, Submit(p) \/ Type(p) \/ \E r \in Room : Click(p, r)
    PROVE  TypeOK'
<1>1. CASE Submit(p)
  <2> DEFINE n == Tries[p][nth[p] + 1]
  <2>1. nth[p] \in Nat /\ Tries[p] \in Seq(Name) /\ nth[p] < Len(Tries[p])
    BY <1>1, BoundAssumption DEF Submit, TypeOK
  <2>2. n \in Name /\ nth[p] + 1 <= Len(Tries[p])
    BY <2>1
  <2>3. Ask("2", n, 0) \in Text
    BY <2>2, BoundAssumption DEF Ask, Text
  <2>4. timers' \in [Page -> Seq(Text)]
    BY <1>1, <2>3, TimerTyped DEF Submit
  <2>5. nth' \in [Page -> Nat] /\ \A q \in Page : nth'[q] <= Len(Tries[q])
    BY <1>1, <2>2 DEF Submit, TypeOK
  <2>6. username' \in [Page -> Name \cup {NoName}]
    BY <1>1, <2>2 DEF Submit, TypeOK
  <2>7. ready' \in [Page -> {"none", "connecting", "open", "closed"}]
    BY <1>1 DEF Submit, TypeOK
  <2> QED BY <1>1, <2>4, <2>5, <2>6, <2>7 DEF Submit, TypeOK, users, server
<1>2. CASE Type(p)
  <2>1. Ask("1", NoName, 0) \in Text
    BY BoundAssumption DEF Ask, Text
  <2>2. timers' \in [Page -> Seq(Text)]
    BY <1>2, <2>1, TimerTyped DEF Type
  <2> QED BY <1>2, <2>2, BoundAssumption DEF Type, TypeOK, page, hook, server
<1>3. ASSUME NEW r \in Room, Click(p, r) PROVE TypeOK'
  <2>1. r \in 0 .. NumRooms /\ Ask("4", NoName, r) \in Text
    BY BoundAssumption DEF Room, Ask, Text
  <2>2. timers' \in [Page -> Seq(Text)]
    BY <1>3, <2>1, TimerTyped DEF Click
  <2>3. pending' \in [Page -> 0 .. NumRooms]
    BY <1>3, <2>1 DEF Click, TypeOK
  <2>4. clicks' \in 0 .. MaxClicks
    BY <1>3, BoundAssumption DEF Click, TypeOK
  <2> QED BY <1>3, <2>2, <2>3, <2>4 DEF Click, TypeOK, hook, server
<1> QED
  BY <1>1, <1>2, <1>3

LEMMA SocketTyped ==
    ASSUME TypeOK, \A q \in Page : Kept(q), NEW p \in Page, Socket(p)
    PROVE  TypeOK'
<1>1. CASE Opens(p)
  BY <1>1 DEF Opens, TypeOK, page, users, server
<1>2. CASE Breaks(p)
  <2>1. <<>> \in Seq(Text) /\ <<>> \in Seq(Answer)
    OBVIOUS
  <2> QED BY <1>2, <2>1 DEF Breaks, TypeOK, page, users, server
<1>3. CASE Fire(p)
  <2>1. Head(timers[p]) \in Text /\ timers' \in [Page -> Seq(Text)]
    BY <1>3, TailFacts DEF Fire, TypeOK
  <2>2. up' \in [Conn -> Seq(Text)]
    <3>1. \A d \in Conn : Append(up[d], Head(timers[p])) \in Seq(Text)
      BY <2>1, AppendFacts DEF TypeOK
    <3> QED BY <1>3, <3>1 DEF Fire, TypeOK
  <2> QED BY <1>3, <2>1, <2>2 DEF Fire, TypeOK, page, hook, users, server
<1> QED
  BY <1>1, <1>2, <1>3 DEF Socket

LEMMA PageTyped ==
    ASSUME TypeOK, \A q \in Page : Kept(q), NEW p \in Page, handleServerMessage(p)
    PROVE  TypeOK'
<1>1. Cur(p) \in Conn
  BY CurIsConn DEF handleServerMessage, Joined, Refused, NameAnswered, Shown, Got, Kept, Alive
<1>2. Taken(p) => down' \in [Conn -> Seq(Answer)]
  <2>1. down[Cur(p)] # <<>>
    BY DEF handleServerMessage, Joined, Refused, NameAnswered, Shown, Got
  <2> QED BY <1>1, <2>1, TailFacts DEF Taken, TypeOK
<1>3. CASE Joined(p)
  <2>1. /\ selected' \in [Page -> 0 .. NumRooms]
        /\ pending' \in [Page -> 0 .. NumRooms]
    <3>1. 0 \in 0 .. NumRooms /\ pending[p] \in 0 .. NumRooms
      BY BoundAssumption DEF TypeOK
    <3> QED BY <1>3, <3>1 DEF Joined, TypeOK
  <2> QED BY <1>2, <1>3, <2>1 DEF Joined, TypeOK, hook, users, server
<1>4. CASE Refused(p)
  <2>1. pending[p] # 0 => full[p] \cup {pending[p]} \in SUBSET Room
    BY BoundAssumption DEF TypeOK, Room
  <2>2. full' \in [Page -> SUBSET Room]
    BY <1>4, <2>1 DEF Refused, TypeOK
  <2>3. pending' \in [Page -> 0 .. NumRooms]
    BY <1>4, BoundAssumption DEF Refused, TypeOK
  <2> QED BY <1>2, <1>4, <2>2, <2>3 DEF Refused, TypeOK, hook, users, server
<1>5. CASE NameAnswered(p)
  <2>1. down' \in [Conn -> Seq(Answer)]
    <3>1. <<>> \in Seq(Answer)
      OBVIOUS
    <3> QED BY <1>1, <1>2, <1>5, <3>1 DEF NameAnswered, TypeOK
  <2>2. /\ username' \in [Page -> Name \cup {NoName}]
        /\ ready' \in [Page -> {"none", "connecting", "open", "closed"}]
    BY <1>5 DEF NameAnswered, TypeOK, page, hook
  <2>3. UNCHANGED <<pending, selected, full, shown, timers, nth, users, up, server>>
    BY <1>5 DEF NameAnswered, page, hook
  <2> QED BY <2>1, <2>2, <2>3 DEF TypeOK, users, server
<1>6. CASE Shown(p)
  <2> DEFINE m == Head(down[Cur(p)])
  <2>1. m \in Answer
    BY <1>1, <1>6, TailFacts DEF Shown, Got, TypeOK
  <2>2. m.name # NoName /\ selected[p] # 0 => [in |-> selected[p], name |-> m.name] \in Line
    BY <2>1, BoundAssumption DEF Answer, Line, TypeOK, Room
  <2>3. shown' \in [Page -> SUBSET Line]
    BY <1>6, <2>2 DEF Shown, TypeOK
  <2> QED BY <1>2, <1>6, <2>3 DEF Shown, TypeOK, hook, users, server
<1> QED
  BY <1>3, <1>4, <1>5, <1>6 DEF handleServerMessage

LEMMA HandlerTyped ==
    ASSUME TypeOK, NEW c \in Conn, Handler(c)
    PROVE  TypeOK'
<1>1. up[c] # <<>> /\ Head(up[c]) \in Text
  BY TailFacts DEF Handler, Login, Join, Relay, Asks, TypeOK
<1>2. CASE Login(c)
  <2>1. up' \in [Conn -> Seq(Text)] /\ down' \in [Conn -> Seq(Answer)]
    BY <1>1, <1>2, SayTyped, ReplyTyped DEF Login
  <2>2. names' \in [Name -> Conn \cup {Nobody}]
    BY <1>2 DEF Login, TypeOK
  <2> QED BY <1>2, <2>1, <2>2 DEF Login, TypeOK, page, hook, users
<1>3. CASE Join(c)
  <2>1. up' \in [Conn -> Seq(Text)] /\ down' \in [Conn -> Seq(Answer)]
    BY <1>1, <1>3, SayTyped, ReplyTyped DEF Join
  <2>2. rooms' \in [1 .. NumRooms + 1 -> [first : Conn \cup {Nobody}, second : Conn \cup {Nobody}]]
    <3> DEFINE r == Head(up[c]).room + 1
    <3>1. r \in 1 .. NumRooms + 1
      BY <1>1, BoundAssumption DEF Text
    <3>2. rooms' \in {rooms, [rooms EXCEPT ![r] = [@ EXCEPT !.first = c]],
                             [rooms EXCEPT ![r] = [@ EXCEPT !.second = c]]}
      BY <1>3 DEF Join
    <3> HIDE DEF r
    <3>3. rooms[r] \in [first : Conn \cup {Nobody}, second : Conn \cup {Nobody}]
      BY <3>1 DEF TypeOK
    <3>4. /\ [rooms[r] EXCEPT !.first = c] \in [first : Conn \cup {Nobody}, second : Conn \cup {Nobody}]
          /\ [rooms[r] EXCEPT !.second = c] \in [first : Conn \cup {Nobody}, second : Conn \cup {Nobody}]
      BY <3>3
    <3> QED BY <3>1, <3>2, <3>4 DEF TypeOK
  <2> QED BY <1>3, <2>1, <2>2 DEF Join, TypeOK, page, hook, users
<1>4. CASE Relay(c)
  <2>1. \A n \in NamesOf(c) : Say("line", n) \in Answer
    BY SayTyped DEF NamesOf
  <2>2. up' \in [Conn -> Seq(Text)] /\ down' \in [Conn -> Seq(Answer)]
    BY <1>1, <1>4, <2>1, ReplyTyped DEF Relay
  <2> QED BY <1>4, <2>2 DEF Relay, TypeOK, page, hook, users, server
<1> QED
  BY <1>2, <1>3, <1>4 DEF Handler

-----------------------------------------------------------------------------
(* Seats and names are given, never taken back.                            *)

Grown ==
    /\ \A c \in Conn, r \in 1 .. NumRooms + 1 : Seated(c, r) => Seated(c, r)'
    /\ \A r \in 1 .. NumRooms + 1 : ~Seated(Nobody, r) => ~Seated(Nobody, r)'
    /\ \A n \in Name : names[n] \in Conn => names'[n] = names[n]

LEMMA SameGrown == UNCHANGED server => Grown
BY DEF server, Grown, Seated

LEMMA SeatGiven ==
    ASSUME TypeOK, NEW c \in Conn, Join(c)
    PROVE  Grown /\ (Head(up[c]).room + 1 \in 1 .. NumRooms + 1)
<1> DEFINE r == Head(up[c]).room + 1
<1>1. Head(up[c]) \in Text
  BY TailFacts DEF Join, Asks, TypeOK
<1>2. r \in 1 .. NumRooms + 1
  BY <1>1, BoundAssumption DEF Text
<1>3. \/ rooms' = rooms
      \/ rooms[r].first = Nobody /\ rooms' = [rooms EXCEPT ![r] = [@ EXCEPT !.first = c]]
      \/ rooms[r].first # Nobody /\ rooms[r].second = Nobody
         /\ rooms' = [rooms EXCEPT ![r] = [@ EXCEPT !.second = c]]
  BY DEF Join
<1> HIDE DEF r
<1>4. c # Nobody /\ \A d \in Conn : d # Nobody
  BY NobodyAssumption
<1>5. \A s \in 1 .. NumRooms + 1 : rooms[s] \in [first : Conn \cup {Nobody}, second : Conn \cup {Nobody}]
  BY DEF TypeOK
<1>6. \A s \in 1 .. NumRooms + 1 : s # r => rooms'[s] = rooms[s]
  BY <1>2, <1>3 DEF TypeOK
<1>7. \/ rooms'[r] = rooms[r]
      \/ rooms[r].first = Nobody /\ rooms'[r].first = c /\ rooms'[r].second = rooms[r].second
      \/ rooms[r].first # Nobody /\ rooms[r].second = Nobody
         /\ rooms'[r].second = c /\ rooms'[r].first = rooms[r].first
  <2>1. \/ rooms'[r] = rooms[r]
        \/ rooms[r].first = Nobody /\ rooms'[r] = [rooms[r] EXCEPT !.first = c]
        \/ rooms[r].first # Nobody /\ rooms[r].second = Nobody
           /\ rooms'[r] = [rooms[r] EXCEPT !.second = c]
    BY <1>2, <1>3 DEF TypeOK
  <2>2. rooms[r] \in [first : Conn \cup {Nobody}, second : Conn \cup {Nobody}]
    BY <1>2, <1>5
  <2> QED BY <2>1, <2>2
<1>8. names' = names
  BY DEF Join
<1> QED
  BY <1>2, <1>4, <1>6, <1>7, <1>8 DEF Grown, Seated, r

LEMMA NameGiven ==
    ASSUME TypeOK, NEW c \in Conn, Login(c)
    PROVE  Grown
BY NobodyAssumption DEF Login, Grown, Seated, TypeOK

LEMMA SitsGrows ==
    ASSUME Grown, NEW c \in Conn PROVE Sits(c) \subseteq Sits(c)'
BY DEF Grown, Sits

LEMMA MatesStay ==
    ASSUME Grown, NEW p \in Page, NEW n \in Name, Cur(p) \in Conn, Cur(p)' = Cur(p), Mates(p, n)
    PROVE  Mates(p, n)'
<1>1. names'[n] = names[n] /\ names[n] \in Conn
  BY DEF Grown, Mates
<1>2. Sits(Cur(p)) \subseteq Sits(Cur(p))' /\ Sits(names[n]) \subseteq Sits(names[n])'
  <2>1. \A d \in Conn : Sits(d) \subseteq Sits(d)'
    BY SitsGrows
  <2>2. Sits(Cur(p))' = {r \in 1 .. NumRooms + 1 : rooms'[r].first = Cur(p) \/ rooms'[r].second = Cur(p)}
    BY DEF Sits, Seated
  <2>3. Sits(names[n])' = {r \in 1 .. NumRooms + 1 : rooms'[r].first = names[n] \/ rooms'[r].second = names[n]}
    BY <1>1 DEF Sits, Seated
  <2>4. \A d \in Conn : Sits(d) \subseteq {r \in 1 .. NumRooms + 1 : rooms'[r].first = d \/ rooms'[r].second = d}
    BY <2>1 DEF Sits, Seated
  <2> QED BY <1>1, <2>2, <2>3, <2>4
<1>3. (Sits(Cur(p)) \cap Sits(names[n]))' = Sits(Cur(p))' \cap Sits(names[n])'
  OBVIOUS
<1> QED
  BY <1>1, <1>2, <1>3 DEF Mates

-----------------------------------------------------------------------------
(* What a step leaves alone.                                               *)

SamePage(p) ==
    /\ username'[p] = username[p] /\ selected'[p] = selected[p] /\ pending'[p] = pending[p]
    /\ full'[p] = full[p] /\ shown'[p] = shown[p] /\ timers'[p] = timers[p]
    /\ nth'[p] = nth[p] /\ ready'[p] = ready[p]

SameQueues(p) == nth[p] > 0 => up'[Cur(p)] = up[Cur(p)] /\ down'[Cur(p)] = down[Cur(p)]

\* of the page's own state, seats and names may have grown
LEMMA KeptStays ==
    ASSUME TypeOK, Grown, NEW p \in Page, SamePage(p), Kept(p)
    PROVE  Kept(p)'
<1>1. Cur(p)' = Cur(p) /\ Alive(p)' = Alive(p)
  BY DEF SamePage, Cur, Alive
<1>2. Alive(p) /\ selected[p] # 0 => Seated(Cur(p), selected[p] + 1)'
  <2> SUFFICES ASSUME Alive(p), selected[p] # 0 PROVE Seated(Cur(p), selected[p] + 1)'
    OBVIOUS
  <2>1. Cur(p) \in Conn /\ selected[p] + 1 \in 1 .. NumRooms + 1
    BY CurIsConn, BoundAssumption DEF Kept, TypeOK
  <2>2. Seated(Cur(p), selected[p] + 1)
    BY DEF Kept
  <2> QED BY <1>1, <2>1, <2>2 DEF Grown, SamePage, Seated
<1>3. \A r \in full[p] : ~Seated(Nobody, r + 1)'
  <2> SUFFICES ASSUME NEW r \in full[p] PROVE ~Seated(Nobody, r + 1)'
    OBVIOUS
  <2>1. r + 1 \in 1 .. NumRooms + 1
    BY BoundAssumption DEF TypeOK, Room
  <2> QED BY <2>1 DEF Grown, Kept, Seated
<1>4. \A l \in shown[p] : Mates(p, l.name)'
  <2> SUFFICES ASSUME NEW l \in shown[p] PROVE Mates(p, l.name)'
    OBVIOUS
  <2>1. l.name \in Name
    BY DEF TypeOK, Line
  <2>2. nth[p] > 0
    BY DEF Kept
  <2>3. Cur(p) \in Conn
    BY <2>2, CurIsConn
  <2>4. Mates(p, l.name)
    BY DEF Kept
  <2> QED BY <1>1, <2>1, <2>3, <2>4, MatesStay
<1> QED
  BY <1>1, <1>2, <1>3, <1>4 DEF Kept, SamePage, Seated

LEMMA QueuesStay ==
    ASSUME TypeOK, Grown, NEW p \in Page, SamePage(p), SameQueues(p), Queues(p)
    PROVE  Queues(p)'
<1> SUFFICES ASSUME nth[p] > 0 PROVE (OneJoin(p) /\ Fits(p) /\ LoginFirst(p) /\ LinesFromMates(p))'
  BY DEF Queues, SamePage
<1>1. Cur(p)' = Cur(p) /\ Cur(p) \in Conn
  BY CurIsConn DEF SamePage, Cur
<1>2. /\ timers'[p] = timers[p] /\ up'[Cur(p)] = up[Cur(p)] /\ down'[Cur(p)] = down[Cur(p)]
      /\ pending'[p] = pending[p] /\ selected'[p] = selected[p]
  BY DEF SamePage, SameQueues
<1>3. OneJoin(p)' /\ LoginFirst(p)'
  BY <1>1, <1>2 DEF Queues, OneJoin, LoginFirst, Has, Once
<1>4. Fits(p)'
  <2>1. pending[p] # 0 => pending[p] + 1 \in 1 .. NumRooms + 1
    BY BoundAssumption DEF TypeOK
  <2>2. pending[p] # 0 => /\ Seated(Cur(p), pending[p] + 1) => Seated(Cur(p), pending[p] + 1)'
                          /\ ~Seated(Nobody, pending[p] + 1) => ~Seated(Nobody, pending[p] + 1)'
    BY <1>1, <1>2, <2>1 DEF Grown, Seated
  <2> QED BY <1>1, <1>2, <2>2 DEF Queues, Fits, Seated
<1>5. LinesFromMates(p)'
  <2> SUFFICES ASSUME NEW i \in DOMAIN down[Cur(p)], down[Cur(p)][i].code = "line",
                      down[Cur(p)][i].name # NoName
               PROVE  Mates(p, down[Cur(p)][i].name)'
    BY <1>1, <1>2 DEF LinesFromMates, Mates
  <2>1. down[Cur(p)][i].name \in Name
    <3>1. down[Cur(p)][i] \in Answer
      BY <1>1 DEF TypeOK
    <3> QED BY <3>1 DEF Answer
  <2>2. Mates(p, down[Cur(p)][i].name)
    BY DEF Queues, LinesFromMates
  <2> QED BY <1>1, <1>2, <2>1, <2>2, MatesStay DEF Mates
<1> QED
  BY <1>3, <1>4, <1>5

\* of a connection whose texts are the same
LEMMA ConnStays ==
    ASSUME Grown, NEW c \in Conn, up'[c] = up[c], down'[c] = down[c] \/ down'[c] = <<>>,
           nth'[c[1]] >= nth[c[1]], nth'[c[1]] \in Nat, nth[c[1]] \in Nat, Unopened(c), FromASeat(c)
    PROVE  Unopened(c)' /\ FromASeat(c)'
<1>1. Unopened(c)'
  BY ConnFacts DEF Unopened
<1>2. FromASeat(c)'
  BY SitsGrows DEF FromASeat
<1> QED BY <1>1, <1>2

(* A step of page p, from what it does to the page and to connections.     *)
LEMMA PageStep ==
    ASSUME Believed, TypeOK', Grown, NEW p \in Page,
           \A q \in Page \ {p} : SamePage(q) /\ SameQueues(q),
           \A c \in Conn : Unopened(c)' /\ FromASeat(c)',
           Queues(p)' /\ Kept(p)'
    PROVE  Believed'
<1>1. ASSUME NEW q \in Page, q # p PROVE Queues(q)' /\ Kept(q)'
  BY <1>1, KeptStays, QueuesStay DEF Believed
<1> QED
  BY <1>1 DEF Believed

-----------------------------------------------------------------------------
(* The user.                                                               *)

LEMMA SubmitBelieved ==
    ASSUME Patient, Believed, TypeOK', NEW p \in Page, Submit(p)
    PROVE  Believed'
<1> DEFINE n == Tries[p][nth[p] + 1]
           d == <<p, nth[p] + 1>>
<1>1. /\ nth[p] \in Nat /\ nth[p] < Len(Tries[p]) /\ timers[p] = <<>> /\ username[p] = NoName
      /\ Tries[p] \in Seq(Name) /\ n \in Name
  <2>1. /\ nth[p] \in Nat /\ nth[p] < Len(Tries[p]) /\ timers[p] = <<>> /\ username[p] = NoName
        /\ Tries[p] \in Seq(Name)
    BY BoundAssumption DEF Submit, Believed, TypeOK
  <2> QED BY <2>1
<1>2. d \in Conn /\ d[1] = p /\ d[2] = nth[p] + 1
  BY <1>1, ConnFacts
<1>3. /\ nth'[p] = nth[p] + 1 /\ Cur(p)' = d /\ ready'[p] = "connecting" /\ username'[p] = n
      /\ UNCHANGED <<pending, selected, full, shown, users, up, down, server>>
  BY DEF Submit, Believed, TypeOK, Cur
<1>4. up'[d] = <<>> /\ down'[d] = <<>>
  BY <1>1, <1>2, <1>3 DEF Believed, Unopened
<1>5. Grown
  BY <1>3, SameGrown
<1>6. selected[p] = 0 /\ shown[p] = {}
  BY <1>1 DEF Believed, Kept
<1>7. timers'[p] = <<Ask("2", n, 0)>>
  BY <1>1 DEF Submit, After100ms, Believed, TypeOK
<1>8. DOMAIN timers'[p] = {1} /\ timers'[p][1].code = "2"
  BY <1>7 DEF Ask
<1>9. Queues(p)'
  BY <1>3, <1>4, <1>6, <1>8 DEF Queues, OneJoin, Fits, LoginFirst, LinesFromMates, Has, Once
<1>10. Kept(p)'
  <2>1. \A r \in full[p] : ~Seated(Nobody, r + 1)'
    BY <1>3 DEF Believed, Kept, Seated, server
  <2> QED
    BY <1>1, <1>3, <1>6, <1>8, <2>1, NullAssumption DEF Kept
<1>11. \A q \in Page \ {p} : SamePage(q) /\ SameQueues(q)
  BY <1>3 DEF Submit, After100ms, Believed, TypeOK, SamePage, SameQueues
<1>12. \A c \in Conn : Unopened(c)' /\ FromASeat(c)'
  <2> TAKE c \in Conn
  <2>1. \A q \in Page : nth[q] \in Nat /\ nth'[q] \in Nat /\ nth'[q] >= nth[q]
    <3>1. nth \in [Page -> Nat] /\ nth' = [nth EXCEPT ![p] = @ + 1]
      BY DEF Submit, Believed, TypeOK
    <3> QED BY <3>1
  <2> QED BY <1>3, <1>5, <2>1, ConnFacts, ConnStays DEF Believed
<1> QED
  BY <1>5, <1>9, <1>10, <1>11, <1>12, PageStep

LEMMA ClickBelieved ==
    ASSUME Patient, Believed, TypeOK', NEW p \in Page, NEW r \in Room, Click(p, r)
    PROVE  Believed'
<1> DEFINE x == Ask("4", NoName, r)
<1>1. /\ UNCHANGED <<username, selected, full, shown, hook, lines, up, down, server>>
      /\ timers' = [timers EXCEPT ![p] = Append(timers[p], x)] /\ pending' = [pending EXCEPT ![p] = r]
  BY DEF Click, After100ms
<1>2. nth[p] > 0 /\ ~Asked(p)
  BY DEF Click, Clickable, Believed, Kept
<1>3. Cur(p) \in Conn /\ Cur(p)' = Cur(p)
  BY <1>1, <1>2, CurIsConn DEF Believed, Cur, hook
<1>4. Grown
  BY <1>1, SameGrown
<1>5. x \in Text /\ x.code = "4" /\ x.room = r /\ r # 0
  BY BoundAssumption DEF Ask, Text, Room
<1>6. /\ timers'[p] = Append(timers[p], x) /\ timers[p] \in Seq(Text) /\ pending'[p] = r
      /\ up'[Cur(p)] = up[Cur(p)] /\ down'[Cur(p)] = down[Cur(p)] /\ selected'[p] = selected[p]
  BY <1>1 DEF Believed, TypeOK
<1> HIDE DEF x
<1>7. /\ DOMAIN timers[p] = 1 .. Len(timers[p]) /\ Len(timers[p]) \in Nat
      /\ DOMAIN timers'[p] = 1 .. Len(timers[p]) + 1
      /\ \A i \in DOMAIN timers[p] : timers'[p][i] = timers[p][i]
      /\ timers'[p][Len(timers[p]) + 1] = x
  BY <1>5, <1>6, AppendFacts
<1>8. /\ \A i \in DOMAIN timers[p] : timers[p][i].code # "4"
      /\ \A i \in DOMAIN up[Cur(p)] : up[Cur(p)][i].code # "4"
      /\ \A i \in DOMAIN down[Cur(p)] : down[Cur(p)][i].code \notin {"2", "3"}
  BY <1>2 DEF Asked
<1>9. OneJoin(p)'
  BY <1>3, <1>5, <1>6, <1>7, <1>8 DEF OneJoin, Has, Once
<1>10. Fits(p)'
  BY <1>3, <1>5, <1>6, <1>7, <1>8 DEF Fits
<1>11. LoginFirst(p)'
  <2>1. LoginFirst(p)
    BY <1>2 DEF Believed, Queues
  <2> QED BY <1>3, <1>5, <1>6, <1>7, <2>1 DEF LoginFirst, Has
<1>12. LinesFromMates(p)'
  BY <1>1, <1>2, <1>3, <1>6 DEF Believed, Queues, LinesFromMates, Mates, Sits, Seated, server
<1>13. Kept(p)'
  <2>1. \A i \in DOMAIN timers'[p] : timers'[p][i].code = "1" => selected[p] # 0
    BY <1>5, <1>7 DEF Believed, Kept
  <2> QED
    BY <1>1, <1>3, <2>1 DEF Believed, Kept, Alive, Mates, Sits, Seated, server, hook
<1>14. \A q \in Page \ {p} : SamePage(q) /\ SameQueues(q)
  BY <1>1 DEF Believed, TypeOK, SamePage, SameQueues, hook
<1>15. \A c \in Conn : Unopened(c)' /\ FromASeat(c)'
  BY <1>1 DEF Believed, Unopened, FromASeat, Sits, Seated, hook, server
<1> QED
  BY <1>4, <1>9, <1>10, <1>11, <1>12, <1>13, <1>14, <1>15, PageStep DEF Queues

LEMMA TypeBelieved ==
    ASSUME Believed, TypeOK', NEW p \in Page, Type(p)
    PROVE  Believed'
<1> DEFINE x == Ask("1", NoName, 0)
<1>1. /\ UNCHANGED <<page, hook, clicks, up, down, server>>
      /\ timers' = [timers EXCEPT ![p] = Append(timers[p], x)]
  BY DEF Type, After100ms
<1>2. nth[p] > 0 /\ selected[p] # 0
  BY DEF Type, Believed, Kept
<1>3. Cur(p) \in Conn /\ Cur(p)' = Cur(p)
  BY <1>1, <1>2, CurIsConn DEF Believed, Cur, hook
<1>4. Grown
  BY <1>1, SameGrown
<1>5. x \in Text /\ x.code = "1"
  BY BoundAssumption DEF Ask, Text
<1>6. /\ timers'[p] = Append(timers[p], x) /\ timers[p] \in Seq(Text) /\ pending'[p] = pending[p]
      /\ up'[Cur(p)] = up[Cur(p)] /\ down'[Cur(p)] = down[Cur(p)] /\ selected'[p] = selected[p]
  BY <1>1 DEF Believed, TypeOK, page
<1> HIDE DEF x
<1>7. /\ DOMAIN timers[p] = 1 .. Len(timers[p]) /\ Len(timers[p]) \in Nat
      /\ DOMAIN timers'[p] = 1 .. Len(timers[p]) + 1
      /\ \A i \in DOMAIN timers[p] : timers'[p][i] = timers[p][i]
      /\ timers'[p][Len(timers[p]) + 1] = x
  BY <1>5, <1>6, AppendFacts
<1>8. OneJoin(p) /\ Fits(p) /\ LoginFirst(p) /\ LinesFromMates(p)
  BY <1>2 DEF Believed, Queues
<1>9. OneJoin(p)'
  BY <1>3, <1>5, <1>6, <1>7, <1>8 DEF OneJoin, Has, Once
<1>10. Fits(p)'
  BY <1>1, <1>3, <1>5, <1>6, <1>7, <1>8 DEF Fits, Seated, server
<1>11. LoginFirst(p)'
  BY <1>3, <1>5, <1>6, <1>7, <1>8 DEF LoginFirst, Has
<1>12. LinesFromMates(p)'
  BY <1>1, <1>3, <1>6, <1>8 DEF LinesFromMates, Mates, Sits, Seated, server
<1>13. Kept(p)'
  <2>1. \A i \in DOMAIN timers'[p] : timers'[p][i].code = "1" => selected[p] # 0
    BY <1>2
  <2> QED
    BY <1>1, <1>3, <2>1 DEF Believed, Kept, Alive, Mates, Sits, Seated, server, hook, page
<1>14. \A q \in Page \ {p} : SamePage(q) /\ SameQueues(q)
  BY <1>1 DEF Believed, TypeOK, SamePage, SameQueues, hook, page
<1>15. \A c \in Conn : Unopened(c)' /\ FromASeat(c)'
  BY <1>1 DEF Believed, Unopened, FromASeat, Sits, Seated, hook, server
<1> QED
  BY <1>4, <1>9, <1>10, <1>11, <1>12, <1>13, <1>14, <1>15, PageStep DEF Queues

-----------------------------------------------------------------------------
(* The socket.                                                             *)

LEMMA OpensBelieved ==
    ASSUME Believed, TypeOK', NEW p \in Page, Opens(p)
    PROVE  Believed'
<1>1. /\ UNCHANGED <<page, timers, nth, users, up, down, server>>
      /\ ready' = [ready EXCEPT ![p] = "open"] /\ ready[p] = "connecting"
  BY DEF Opens
<1>2. \A q \in Page : Queues(q)'
  <2> TAKE q \in Page
  <2>1. Cur(q)' = Cur(q)
    BY <1>1 DEF Cur
  <2> QED
    BY <1>1, <2>1 DEF Believed, Queues, OneJoin, Fits, LoginFirst, LinesFromMates, Has, Once, Mates, Sits, Seated, page, server
<1>3. \A q \in Page : Kept(q)'
  <2> TAKE q \in Page
  <2>1. Cur(q)' = Cur(q) /\ Alive(q)' = Alive(q)
    BY <1>1 DEF Cur, Alive, Believed, TypeOK
  <2> QED BY <1>1, <2>1 DEF Believed, Kept, Mates, Sits, Seated, page, server
<1>4. \A c \in Conn : Unopened(c)' /\ FromASeat(c)'
  BY <1>1 DEF Believed, Unopened, FromASeat, Sits, Seated, server
<1> QED
  BY <1>2, <1>3, <1>4 DEF Believed

LEMMA BreaksBelieved ==
    ASSUME Believed, TypeOK', NEW p \in Page, Breaks(p)
    PROVE  Believed'
<1>1. /\ UNCHANGED <<page, timers, nth, users, server>> /\ ready' = [ready EXCEPT ![p] = "closed"]
      /\ down' = [down EXCEPT ![Cur(p)] = <<>>] /\ up' \in {up, [up EXCEPT ![Cur(p)] = <<>>]}
  BY DEF Breaks
<1>2. nth[p] > 0 /\ Cur(p) \in Conn /\ Cur(p)' = Cur(p)
  BY <1>1, CurIsConn DEF Breaks, Believed, Kept, Alive, Cur
<1>3. Grown
  BY <1>1, SameGrown
<1>4. /\ down'[Cur(p)] = <<>> /\ up'[Cur(p)] \in {up[Cur(p)], <<>>}
      /\ \A c \in Conn \ {Cur(p)} : down'[c] = down[c] /\ up'[c] = up[c]
  BY <1>1, <1>2 DEF Believed, TypeOK
<1>5. OneJoin(p) /\ Fits(p) /\ LoginFirst(p)
  BY <1>2 DEF Believed, Queues
<1>6. OneJoin(p)' /\ LoginFirst(p)' /\ LinesFromMates(p)'
  BY <1>1, <1>2, <1>4, <1>5 DEF OneJoin, LoginFirst, LinesFromMates, Has, Once, page
<1>7. Fits(p)'
  BY <1>1, <1>2, <1>4, <1>5 DEF Fits, page
<1>8. Kept(p)'
  <2>1. ~Alive(p)'
    BY <1>1 DEF Alive, Believed, TypeOK
  <2> QED BY <1>1, <1>2, <2>1 DEF Believed, Kept, Mates, Sits, Seated, page, server
<1>9. \A q \in Page \ {p} : SamePage(q) /\ SameQueues(q)
  <2> TAKE q \in Page \ {p}
  <2>1. nth[q] > 0 => Cur(q) \in Conn \ {Cur(p)}
    BY CurIsConn DEF Believed, Cur
  <2> QED BY <1>1, <1>4, <2>1 DEF Believed, TypeOK, SamePage, SameQueues, page
<1>10. \A c \in Conn : Unopened(c)' /\ FromASeat(c)'
  BY <1>1, <1>4 DEF Believed, Unopened, FromASeat, Sits, Seated, server
<1> QED
  BY <1>3, <1>6, <1>7, <1>8, <1>9, <1>10, PageStep DEF Queues

LEMMA FireBelieved ==
    ASSUME Believed, TypeOK', NEW p \in Page, Fire(p)
    PROVE  Believed'
<1> DEFINE x == Head(timers[p])
<1>1. /\ timers[p] # <<>> /\ timers' = [timers EXCEPT ![p] = Tail(timers[p])]
      /\ up' = IF ready[p] = "open" THEN [up EXCEPT ![Cur(p)] = Append(up[Cur(p)], x)] ELSE up
      /\ UNCHANGED <<page, hook, users, down, server>>
  BY DEF Fire
<1>2. Cur(p)' = Cur(p) /\ Alive(p)' = Alive(p)
  BY <1>1 DEF hook, Cur, Alive
<1>3. Grown
  BY <1>1, SameGrown
<1>4. /\ timers[p] \in Seq(Text) /\ timers'[p] = Tail(timers[p])
      /\ pending'[p] = pending[p] /\ selected'[p] = selected[p] /\ nth'[p] = nth[p]
  BY <1>1 DEF Believed, TypeOK, page, hook
<1>5. /\ Len(timers[p]) \in Nat \ {0} /\ DOMAIN timers[p] = 1 .. Len(timers[p])
      /\ DOMAIN timers'[p] = 1 .. Len(timers[p]) - 1
      /\ \A i \in DOMAIN timers'[p] : i + 1 \in DOMAIN timers[p] /\ timers'[p][i] = timers[p][i + 1]
      /\ 1 \in DOMAIN timers[p] /\ x = timers[p][1] /\ x \in Text
  BY <1>1, <1>4, TailFacts
<1> HIDE DEF x
<1>6. Kept(p)'
  <2>1. \A i \in DOMAIN timers'[p] : timers'[p][i].code = "1" => selected[p] # 0
    BY <1>5 DEF Believed, Kept
  <2> QED BY <1>1, <1>2, <2>1 DEF Believed, Kept, Mates, Sits, Seated, page, hook, server
<1>7. CASE ready[p] # "open"
  <2>1. up' = up
    BY <1>1, <1>7
  <2>2. Queues(p)'
    <3> SUFFICES ASSUME nth[p] > 0 PROVE (OneJoin(p) /\ Fits(p) /\ LoginFirst(p) /\ LinesFromMates(p))'
      BY <1>4 DEF Queues
    <3>1. OneJoin(p) /\ Fits(p) /\ LoginFirst(p) /\ LinesFromMates(p)
      BY DEF Believed, Queues
    <3>2. OneJoin(p)'
      BY <1>1, <1>2, <1>5, <2>1, <3>1 DEF OneJoin, Has, Once
    <3>3. Fits(p)'
      BY <1>1, <1>2, <1>4, <1>5, <2>1, <3>1 DEF Fits, Seated, server
    <3>4. LoginFirst(p)'
      BY <1>1, <1>2, <1>4, <1>5, <2>1, <3>1 DEF LoginFirst, Has
    <3>5. LinesFromMates(p)'
      BY <1>1, <1>2, <3>1 DEF LinesFromMates, Mates, Sits, Seated, server
    <3> QED BY <3>2, <3>3, <3>4, <3>5
  <2>3. \A q \in Page \ {p} : SamePage(q) /\ SameQueues(q)
    BY <1>1, <2>1 DEF Believed, TypeOK, SamePage, SameQueues, page, hook
  <2>4. \A c \in Conn : Unopened(c)' /\ FromASeat(c)'
    BY <1>1, <2>1 DEF Believed, Unopened, FromASeat, Sits, Seated, server, hook
  <2> QED BY <1>3, <1>6, <2>2, <2>3, <2>4, PageStep
<1>8. CASE ready[p] = "open"
  <2> DEFINE c == Cur(p)
  <2>1. Alive(p) /\ nth[p] > 0 /\ c \in Conn
    BY <1>8, CurIsConn DEF Believed, Kept, Alive
  <2>2. /\ up'[c] = Append(up[c], x) /\ up[c] \in Seq(Text) /\ down'[c] = down[c]
        /\ \A d \in Conn \ {c} : up'[d] = up[d]
    BY <1>1, <1>8, <2>1 DEF Believed, TypeOK
  <2>3. /\ DOMAIN up[c] = 1 .. Len(up[c]) /\ Len(up[c]) \in Nat
        /\ DOMAIN up'[c] = 1 .. Len(up[c]) + 1
        /\ \A i \in DOMAIN up[c] : up'[c][i] = up[c][i]
        /\ up'[c][Len(up[c]) + 1] = x
    BY <1>5, <2>2, AppendFacts
  <2>4. OneJoin(p) /\ Fits(p) /\ LoginFirst(p) /\ LinesFromMates(p)
    BY <2>1 DEF Believed, Queues
  <2>5. OneJoin(p)'
    <3>1. /\ Once(Tail(timers[p]), {"4"})
          /\ Has(Tail(timers[p]), {"4"}) => Has(timers[p], {"4"}) /\ x.code # "4"
          /\ x.code = "4" => Has(timers[p], {"4"})
      BY <1>1, <1>4, <2>4, HasTail DEF OneJoin, x
    <3>2. /\ Has(Append(up[c], x), {"4"}) => Has(up[c], {"4"}) \/ x.code = "4"
          /\ (x.code = "4" => ~Has(up[c], {"4"})) => Once(Append(up[c], x), {"4"})
      BY <1>5, <2>2, <2>4, HasAppend DEF OneJoin
    <3> QED BY <1>2, <1>4, <2>2, <2>4, <3>1, <3>2 DEF OneJoin
  <2>6. Fits(p)'
    BY <1>1, <1>2, <1>4, <1>5, <2>2, <2>3, <2>4 DEF Fits, Seated, server
  <2>7. LoginFirst(p)'
    <3>1. x.code = "2" => up[c] = <<>> /\ ~Has(down[c], {"2"}) /\ selected[p] = 0
      BY <1>5, <2>4 DEF LoginFirst
    <3>2. \A i \in DOMAIN timers'[p] : timers'[p][i].code # "2"
      BY <1>5, <2>4 DEF LoginFirst
    <3> QED BY <1>2, <1>4, <2>2, <2>3, <2>4, <3>1, <3>2 DEF LoginFirst, Has
  <2>8. LinesFromMates(p)'
    BY <1>1, <1>2, <2>2, <2>4 DEF LinesFromMates, Mates, Sits, Seated, server
  <2>9. \A q \in Page \ {p} : SamePage(q) /\ SameQueues(q)
    <3> TAKE q \in Page \ {p}
    <3>1. nth[q] > 0 => Cur(q) \in Conn \ {c}
      BY CurIsConn DEF Believed, Cur
    <3> QED BY <1>1, <2>2, <3>1 DEF Believed, TypeOK, SamePage, SameQueues, page, hook
  <2>10. Unopened(c)' /\ FromASeat(c)'
    <3>1. x.code = "1" => Sits(c) # {}
      <4> SUFFICES ASSUME x.code = "1" PROVE Sits(c) # {}
        OBVIOUS
      <4>1. selected[p] # 0
        BY <1>5 DEF Believed, Kept
      <4>2. Seated(c, selected[p] + 1) /\ selected[p] + 1 \in 1 .. NumRooms + 1
        BY <2>1, <4>1, BoundAssumption DEF Believed, Kept, TypeOK
      <4> QED BY <4>2 DEF Sits
    <3>2. Sits(c)' = Sits(c)
      BY <1>1, <1>2 DEF Sits, Seated, server
    <3>3. FromASeat(c)'
      BY <1>2, <2>1, <2>3, <3>1, <3>2 DEF Believed, FromASeat
    <3>4. ~(c[2] > nth'[c[1]])
      BY <1>4, <2>1 DEF Cur, Believed, TypeOK
    <3> QED BY <1>2, <3>3, <3>4 DEF Unopened
  <2>11. \A d \in Conn \ {c} : Unopened(d)' /\ FromASeat(d)'
    BY <1>1, <2>2 DEF Believed, Unopened, FromASeat, Sits, Seated, server, hook
  <2>12. \A d \in Conn : Unopened(d)' /\ FromASeat(d)'
    BY <1>2, <2>10, <2>11 DEF Unopened, FromASeat, Sits, Seated
  <2> QED BY <1>3, <1>4, <1>6, <2>5, <2>6, <2>7, <2>8, <2>9, <2>12, PageStep DEF Queues
<1> QED
  BY <1>7, <1>8

-----------------------------------------------------------------------------
(* handleServerMessage.                                                    *)

\* a page that gets a message is connected, and its next message is another one
GotOne(p, m) ==
    /\ nth[p] > 0 /\ Cur(p) \in Conn /\ Alive(p) /\ m \in Answer
    /\ OneJoin(p) /\ Fits(p) /\ LoginFirst(p) /\ LinesFromMates(p) /\ Kept(p)
    /\ Len(down[Cur(p)]) \in Nat \ {0} /\ DOMAIN down[Cur(p)] = 1 .. Len(down[Cur(p)])
    /\ m = down[Cur(p)][1] /\ 1 \in DOMAIN down[Cur(p)]

LEMMA GotFacts ==
    ASSUME Believed, NEW p \in Page, NEW k, Got(p, k)
    PROVE  /\ GotOne(p, Head(down[Cur(p)]))
           /\ Head(down[Cur(p)]).code = k
           /\ down[Cur(p)] \in Seq(Answer) /\ down[Cur(p)] # <<>>
<1>1. Alive(p) /\ nth[p] > 0
  BY DEF Got, Believed, Kept, Alive
<1>2. Cur(p) \in Conn
  BY <1>1, CurIsConn DEF Believed
<1>3. down[Cur(p)] \in Seq(Answer) /\ down[Cur(p)] # <<>> /\ Head(down[Cur(p)]).code = k
  BY <1>2 DEF Got, Believed, TypeOK
<1> QED
  BY <1>1, <1>2, <1>3, TailFacts DEF GotOne, Believed, Queues

LEMMA TakenFacts ==
    ASSUME Believed, NEW p \in Page, NEW k, Got(p, k), Taken(p), UNCHANGED <<nth, up>>
    PROVE  /\ down'[Cur(p)] = Tail(down[Cur(p)]) /\ up'[Cur(p)] = up[Cur(p)] /\ Cur(p)' = Cur(p)
           /\ DOMAIN down'[Cur(p)] = 1 .. Len(down[Cur(p)]) - 1
           /\ \A i \in DOMAIN down'[Cur(p)] :
                 i + 1 \in DOMAIN down[Cur(p)] /\ down'[Cur(p)][i] = down[Cur(p)][i + 1]
           /\ \A codes : Has(down'[Cur(p)], codes) => Has(down[Cur(p)], codes)
           /\ Once(down'[Cur(p)], {"2", "3"})
           /\ k \in {"2", "3"} => ~Has(down'[Cur(p)], {"2", "3"}) /\ Has(down[Cur(p)], {"2", "3"})
           /\ \A d \in Conn : d # Cur(p) => down'[d] = down[d]
           /\ \A d \in Conn : Unopened(d) => Unopened(d)'
<1> DEFINE c == Cur(p)
<1>1. c \in Conn /\ down[c] \in Seq(Answer) /\ down[c] # <<>> /\ Head(down[c]).code = k /\ OneJoin(p)
  BY GotFacts DEF GotOne
<1>2. down'[c] = Tail(down[c]) /\ \A d \in Conn : d # c => down'[d] = down[d]
  BY <1>1 DEF Taken, Believed, TypeOK
<1>3. Cur(p)' = c
  BY DEF Cur
<1>4. Once(down[c], {"2", "3"})
  BY <1>1 DEF OneJoin
<1>5. /\ \A codes : Has(Tail(down[c]), codes) => Has(down[c], codes)
      /\ Once(Tail(down[c]), {"2", "3"})
      /\ k \in {"2", "3"} => ~Has(Tail(down[c]), {"2", "3"}) /\ Has(down[c], {"2", "3"})
  BY <1>1, <1>4, HasTail
<1>6. /\ DOMAIN Tail(down[c]) = 1 .. Len(down[c]) - 1
      /\ \A i \in DOMAIN Tail(down[c]) : i + 1 \in DOMAIN down[c] /\ Tail(down[c])[i] = down[c][i + 1]
  BY <1>1, TailFacts
<1>7. ~(c[2] > nth[c[1]])
  BY GotFacts DEF GotOne, Cur, Believed, TypeOK
<1>8. \A d \in Conn : Unopened(d) => Unopened(d)'
  BY <1>2, <1>7 DEF Unopened
<1> QED
  BY <1>2, <1>3, <1>5, <1>6, <1>8

LEMMA TakenLines ==
    ASSUME Believed, NEW p \in Page, NEW k, Got(p, k), Taken(p), UNCHANGED <<nth, up, server>>
    PROVE  LinesFromMates(p)'
<1> DEFINE c == Cur(p)
<1>1. /\ Cur(p)' = c /\ \A i \in DOMAIN down'[c] : i + 1 \in DOMAIN down[c] /\ down'[c][i] = down[c][i + 1]
  BY TakenFacts
<1>2. LinesFromMates(p)
  BY GotFacts DEF GotOne
<1>3. \A n : Mates(p, n)' <=> Mates(p, n)
  BY <1>1 DEF Mates, Sits, Seated, server
<1>4. \A i \in DOMAIN down'[c] :
        down'[c][i].code = "line" /\ down'[c][i].name # NoName => Mates(p, down'[c][i].name)
  BY <1>1, <1>2 DEF LinesFromMates
<1> QED
  BY <1>1, <1>3, <1>4 DEF LinesFromMates

\* unless the message selects a room
LEMMA TakenLogin ==
    ASSUME Believed, NEW p \in Page, NEW k, Got(p, k), Taken(p), UNCHANGED <<nth, up>>,
           timers'[p] = timers[p], selected'[p] = selected[p]
    PROVE  LoginFirst(p)'
<1> DEFINE c == Cur(p)
<1>1. /\ Cur(p)' = c /\ up'[c] = up[c]
      /\ DOMAIN down'[c] = 1 .. Len(down[c]) - 1
      /\ \A i \in DOMAIN down'[c] : i + 1 \in DOMAIN down[c] /\ down'[c][i] = down[c][i + 1]
      /\ Has(down'[c], {"2"}) => Has(down[c], {"2"})
  BY TakenFacts
<1>2. LoginFirst(p) /\ Len(down[c]) \in Nat
  BY GotFacts DEF GotOne
<1>3. \A i \in DOMAIN down'[c] : down'[c][i].code = "20" =>
        selected[p] = 0 /\ \A j \in DOMAIN down'[c] : j < i => down'[c][j].code # "2"
  <2> TAKE i \in DOMAIN down'[c]
  <2> HAVE down'[c][i].code = "20"
  <2>1. down[c][i + 1].code = "20" /\ i + 1 \in DOMAIN down[c]
    BY <1>1
  <2>2. selected[p] = 0 /\ \A j \in DOMAIN down[c] : j < i + 1 => down[c][j].code # "2"
    BY <1>2, <2>1 DEF LoginFirst
  <2>3. ASSUME NEW j \in DOMAIN down'[c], j < i PROVE down'[c][j].code # "2"
    <3>1. j + 1 \in DOMAIN down[c] /\ j + 1 < i + 1 /\ down'[c][j] = down[c][j + 1]
      BY <1>1, <1>2, <2>3
    <3> QED BY <2>2, <3>1
  <2> QED BY <2>2, <2>3
<1> QED
  BY <1>1, <1>2, <1>3 DEF LoginFirst

LEMMA JoinedBelieved ==
    ASSUME Believed, TypeOK', NEW p \in Page, Joined(p)
    PROVE  Believed'
<1> DEFINE c == Cur(p)
           m == Head(down[c])
<1>1. /\ Got(p, "2") /\ Taken(p) /\ UNCHANGED <<username, full, shown, timers, hook, users, up, server>>
      /\ UNCHANGED <<nth, up>>
  BY DEF Joined, hook
<1>2. GotOne(p, m) /\ m.code = "2"
  BY <1>1, GotFacts
<1>3. /\ down'[c] = Tail(down[c]) /\ up'[c] = up[c] /\ Cur(p)' = c /\ timers'[p] = timers[p]
      /\ DOMAIN down'[c] = 1 .. Len(down[c]) - 1
      /\ \A i \in DOMAIN down'[c] : i + 1 \in DOMAIN down[c] /\ down'[c][i] = down[c][i + 1]
      /\ ~Has(down'[c], {"2", "3"}) /\ Has(down[c], {"2", "3"}) /\ Once(down'[c], {"2", "3"})
      /\ \A codes : Has(down'[c], codes) => Has(down[c], codes)
      /\ \A d \in Conn : d # c => down'[d] = down[d]
      /\ \A d \in Conn : Unopened(d) => Unopened(d)'
  BY <1>1, TakenFacts
<1>4. pending[p] # 0 /\ Seated(c, pending[p] + 1)
  BY <1>2 DEF GotOne, Fits
<1>5. selected'[p] = pending[p] /\ pending'[p] = 0 /\ nth'[p] = nth[p]
  BY <1>1, <1>4 DEF Joined, Believed, TypeOK, hook
<1>6. Grown
  BY <1>1, SameGrown
<1> HIDE DEF m
<1>7. ~Has(timers[p], {"4"}) /\ ~Has(up[c], {"4"})
  BY <1>2, <1>3 DEF GotOne, OneJoin
<1>8. OneJoin(p)'
  BY <1>2, <1>3, <1>7 DEF GotOne, OneJoin, Has, Once
<1>9. Fits(p)'
  BY <1>3, <1>7 DEF Fits, Has
<1>10. LoginFirst(p)'
  <2>1. Has(down[c], {"2"})
    BY <1>2 DEF GotOne, Has
  <2>2. /\ \A i \in DOMAIN timers[p] : timers[p][i].code # "2"
        /\ \A i \in DOMAIN up[c] : up[c][i].code # "2"
    BY <1>2, <2>1 DEF GotOne, LoginFirst
  <2>3. \A i \in DOMAIN down[c] : i > 1 => down[c][i].code # "20"
    BY <1>2 DEF GotOne, LoginFirst
  <2>4. \A i \in DOMAIN down'[c] : down'[c][i].code # "20"
    BY <1>2, <1>3, <2>3 DEF GotOne
  <2> QED BY <1>3, <2>2, <2>4 DEF LoginFirst
<1>11. LinesFromMates(p)'
  BY <1>1, TakenLines
<1>12. Kept(p)'
  <2>1. username'[p] # NoName /\ nth'[p] > 0
    BY <1>1, <1>2, <1>5 DEF GotOne, Kept
  <2> QED
    BY <1>1, <1>2, <1>3, <1>4, <1>5, <2>1 DEF GotOne, Kept, Mates, Sits, Seated, server
<1>13. \A q \in Page \ {p} : SamePage(q) /\ SameQueues(q)
  <2> TAKE q \in Page \ {p}
  <2>1. nth[q] > 0 => Cur(q) \in Conn \ {c}
    BY CurIsConn DEF Believed, Cur
  <2> QED BY <1>1, <1>3, <2>1 DEF Joined, Believed, TypeOK, SamePage, SameQueues, hook
<1>14. \A d \in Conn : Unopened(d)' /\ FromASeat(d)'
  BY <1>1, <1>3 DEF Believed, FromASeat, Sits, Seated, server
<1> QED
  BY <1>6, <1>8, <1>9, <1>10, <1>11, <1>12, <1>13, <1>14, PageStep DEF Queues

LEMMA RefusedBelieved ==
    ASSUME Believed, TypeOK', NEW p \in Page, Refused(p)
    PROVE  Believed'
<1> DEFINE c == Cur(p)
           m == Head(down[c])
<1>1. /\ Got(p, "3") /\ Taken(p) /\ UNCHANGED <<username, selected, shown, timers, hook, users, up, server>>
      /\ UNCHANGED <<nth, up>>
  BY DEF Refused, hook
<1>2. GotOne(p, m) /\ m.code = "3"
  BY <1>1, GotFacts
<1>3. /\ down'[c] = Tail(down[c]) /\ up'[c] = up[c] /\ Cur(p)' = c /\ timers'[p] = timers[p]
      /\ DOMAIN down'[c] = 1 .. Len(down[c]) - 1
      /\ \A i \in DOMAIN down'[c] : i + 1 \in DOMAIN down[c] /\ down'[c][i] = down[c][i + 1]
      /\ ~Has(down'[c], {"2", "3"}) /\ Has(down[c], {"2", "3"}) /\ Once(down'[c], {"2", "3"})
      /\ \A codes : Has(down'[c], codes) => Has(down[c], codes)
      /\ \A d \in Conn : d # c => down'[d] = down[d]
      /\ \A d \in Conn : Unopened(d) => Unopened(d)'
  BY <1>1, TakenFacts
<1>4. pending[p] # 0 /\ ~Seated(Nobody, pending[p] + 1)
  BY <1>2 DEF GotOne, Fits
<1>5. /\ selected'[p] = selected[p] /\ pending'[p] = 0 /\ full'[p] = full[p] \cup {pending[p]}
      /\ nth'[p] = nth[p]
  BY <1>1, <1>4 DEF Refused, Believed, TypeOK, hook
<1>6. Grown
  BY <1>1, SameGrown
<1> HIDE DEF m
<1>7. ~Has(timers[p], {"4"}) /\ ~Has(up[c], {"4"})
  BY <1>2, <1>3 DEF GotOne, OneJoin
<1>8. OneJoin(p)'
  BY <1>2, <1>3, <1>7 DEF GotOne, OneJoin, Has, Once
<1>9. Fits(p)'
  BY <1>3, <1>7 DEF Fits, Has
<1>10. LoginFirst(p)'
  BY <1>1, <1>3, <1>5, TakenLogin
<1>11. LinesFromMates(p)'
  BY <1>1, TakenLines
<1>12. Kept(p)'
  BY <1>1, <1>2, <1>3, <1>4, <1>5 DEF GotOne, Kept, Alive, Mates, Sits, Seated, server, hook
<1>13. \A q \in Page \ {p} : SamePage(q) /\ SameQueues(q)
  <2> TAKE q \in Page \ {p}
  <2>1. nth[q] > 0 => Cur(q) \in Conn \ {c}
    BY CurIsConn DEF Believed, Cur
  <2>2. full'[q] = full[q] /\ pending'[q] = pending[q]
    BY DEF Refused, Believed, TypeOK
  <2> QED BY <1>1, <1>3, <2>1, <2>2 DEF SamePage, SameQueues, hook
<1>14. \A d \in Conn : Unopened(d)' /\ FromASeat(d)'
  BY <1>1, <1>3 DEF Believed, FromASeat, Sits, Seated, server
<1> QED
  BY <1>6, <1>8, <1>9, <1>10, <1>11, <1>12, <1>13, <1>14, PageStep DEF Queues

LEMMA NameAnsweredBelieved ==
    ASSUME Believed, TypeOK', NEW p \in Page, NameAnswered(p)
    PROVE  Believed'
<1> DEFINE c == Cur(p)
<1>1. CASE /\ Got(p, "20")
           /\ username' = [username EXCEPT ![p] = NoName]
           /\ ready' = [ready EXCEPT ![p] = "closed"]
           /\ down' = [down EXCEPT ![c] = <<>>]
           /\ UNCHANGED <<pending, selected, full, shown, timers, nth, users, up, server>>
  <2>1. GotOne(p, Head(down[c])) /\ Head(down[c]).code = "20"
    BY <1>1, GotFacts
  <2>2. /\ down'[c] = <<>> /\ up'[c] = up[c] /\ Cur(p)' = c
        /\ \A d \in Conn \ {c} : down'[d] = down[d]
    BY <1>1, <2>1 DEF GotOne, Cur, Believed, TypeOK
  <2>3. selected[p] = 0 /\ OneJoin(p) /\ Fits(p) /\ LoginFirst(p)
    BY <2>1 DEF GotOne, LoginFirst
  <2>4. Grown
    BY <1>1, SameGrown
  <2>5. OneJoin(p)' /\ LoginFirst(p)' /\ LinesFromMates(p)'
    BY <1>1, <2>2, <2>3 DEF OneJoin, LoginFirst, LinesFromMates, Has, Once
  <2>6. Fits(p)'
    BY <1>1, <2>2, <2>3 DEF Fits
  <2>7. Kept(p)'
    <3>1. username'[p] = NoName /\ ~Alive(p)'
      BY <1>1 DEF Alive, Believed, TypeOK
    <3> QED BY <1>1, <2>2, <2>3, <3>1 DEF Believed, Kept, Mates, Sits, Seated, server
  <2>8. \A q \in Page \ {p} : SamePage(q) /\ SameQueues(q)
    <3> TAKE q \in Page \ {p}
    <3>1. nth[q] > 0 => Cur(q) \in Conn \ {c}
      BY CurIsConn DEF Believed, Cur
    <3>2. username'[q] = username[q] /\ ready'[q] = ready[q]
      BY <1>1 DEF Believed, TypeOK
    <3> QED BY <1>1, <2>2, <3>1, <3>2 DEF SamePage, SameQueues
  <2>9. \A d \in Conn : Unopened(d)' /\ FromASeat(d)'
    BY <1>1, <2>2 DEF Believed, Unopened, FromASeat, Sits, Seated, server
  <2> QED BY <2>4, <2>5, <2>6, <2>7, <2>8, <2>9, PageStep DEF Queues
<1>2. CASE Got(p, "21") /\ Taken(p) /\ UNCHANGED <<page, timers, hook, users, up, server>>
  <2>1. UNCHANGED <<nth, up>> /\ UNCHANGED <<nth, up, server>>
    BY <1>2 DEF hook
  <2>2. GotOne(p, Head(down[c]))
    BY <1>2, GotFacts
  <2>3. /\ up'[c] = up[c] /\ Cur(p)' = c /\ timers'[p] = timers[p]
        /\ \A i \in DOMAIN down'[c] : i + 1 \in DOMAIN down[c] /\ down'[c][i] = down[c][i + 1]
        /\ \A codes : Has(down'[c], codes) => Has(down[c], codes)
        /\ Once(down'[c], {"2", "3"})
        /\ \A d \in Conn : d # c => down'[d] = down[d]
        /\ \A d \in Conn : Unopened(d) => Unopened(d)'
    BY <1>2, <2>1, TakenFacts
  <2>4. Grown
    BY <1>2, SameGrown
  <2>5. OneJoin(p)'
    BY <2>2, <2>3 DEF GotOne, OneJoin, Has, Once
  <2>6. Fits(p)'
    BY <1>2, <2>2, <2>3 DEF GotOne, Fits, Seated, page, server
  <2>7. LoginFirst(p)' /\ LinesFromMates(p)'
    BY <1>2, <2>1, TakenLogin, TakenLines DEF page
  <2>8. Kept(p)'
    BY <1>2, <2>2, <2>3 DEF GotOne, Kept, Alive, Mates, Sits, Seated, server, hook, page
  <2>9. \A q \in Page \ {p} : SamePage(q) /\ SameQueues(q)
    <3> TAKE q \in Page \ {p}
    <3>1. nth[q] > 0 => Cur(q) \in Conn \ {c}
      BY CurIsConn DEF Believed, Cur
    <3> QED BY <1>2, <2>3, <3>1 DEF SamePage, SameQueues, hook, page
  <2>10. \A d \in Conn : Unopened(d)' /\ FromASeat(d)'
    BY <1>2, <2>3 DEF Believed, FromASeat, Sits, Seated, server
  <2> QED BY <2>4, <2>5, <2>6, <2>7, <2>8, <2>9, <2>10, PageStep DEF Queues
<1> QED
  BY <1>1, <1>2 DEF NameAnswered

LEMMA ShownBelieved ==
    ASSUME Believed, TypeOK', NEW p \in Page, Shown(p)
    PROVE  Believed'
<1> DEFINE c == Cur(p)
           m == Head(down[c])
<1>1. /\ Got(p, "line") /\ Taken(p) /\ UNCHANGED <<nth, up>> /\ UNCHANGED <<nth, up, server>>
      /\ UNCHANGED <<username, pending, selected, full, timers, hook, users, up, server>>
      /\ shown' = IF m.name # NoName /\ selected[p] # 0
                  THEN [shown EXCEPT ![p] = @ \cup {[in |-> selected[p], name |-> m.name]}]
                  ELSE shown
  BY DEF Shown, hook
<1>2. GotOne(p, m) /\ m.code = "line"
  BY <1>1, GotFacts
<1>3. /\ up'[c] = up[c] /\ Cur(p)' = c /\ timers'[p] = timers[p]
      /\ \A i \in DOMAIN down'[c] : i + 1 \in DOMAIN down[c] /\ down'[c][i] = down[c][i + 1]
      /\ \A codes : Has(down'[c], codes) => Has(down[c], codes)
      /\ Once(down'[c], {"2", "3"})
      /\ \A d \in Conn : d # c => down'[d] = down[d]
      /\ \A d \in Conn : Unopened(d) => Unopened(d)'
  BY <1>1, TakenFacts
<1>4. Grown
  BY <1>1, SameGrown
<1>5. m.name # NoName => Mates(p, m.name)
  BY <1>2 DEF GotOne, LinesFromMates
<1> HIDE DEF m
<1>6. OneJoin(p)'
  BY <1>1, <1>2, <1>3 DEF GotOne, OneJoin, Has, Once
<1>7. Fits(p)'
  BY <1>1, <1>2, <1>3 DEF GotOne, Fits, Seated, server
<1>8. LoginFirst(p)' /\ LinesFromMates(p)'
  BY <1>1, TakenLogin, TakenLines
<1>9. Kept(p)'
  <2>1. \A n : Mates(p, n)' <=> Mates(p, n)
    BY <1>1, <1>3 DEF Mates, Sits, Seated, server
  <2>2. shown'[p] = shown[p]
        \/ /\ m.name # NoName /\ selected[p] # 0
           /\ shown'[p] = shown[p] \cup {[in |-> selected[p], name |-> m.name]}
    BY <1>1 DEF Believed, TypeOK
  <2>3. /\ selected[p] = 0 => shown'[p] = {}
        /\ \A l \in shown'[p] : Mates(p, l.name)
    BY <1>2, <1>5, <2>2 DEF GotOne, Kept
  <2> QED BY <1>1, <1>2, <1>3, <2>1, <2>3 DEF GotOne, Kept, Alive, Seated, server, hook
<1>10. \A q \in Page \ {p} : SamePage(q) /\ SameQueues(q)
  <2> TAKE q \in Page \ {p}
  <2>1. nth[q] > 0 => Cur(q) \in Conn \ {c}
    BY CurIsConn DEF Believed, Cur
  <2>2. shown'[q] = shown[q]
    BY <1>1 DEF Believed, TypeOK
  <2> QED BY <1>1, <1>3, <2>1, <2>2 DEF SamePage, SameQueues, hook
<1>11. \A d \in Conn : Unopened(d)' /\ FromASeat(d)'
  BY <1>1, <1>3 DEF Believed, FromASeat, Sits, Seated, server
<1> QED
  BY <1>4, <1>6, <1>7, <1>8, <1>9, <1>10, <1>11, PageStep DEF Queues

-----------------------------------------------------------------------------
(* The server.                                                             *)

(* A page whose connection is sent m, as the answer to the text that was   *)
(* first in its queue or as somebody's line.                               *)
Answers(d, m) ==
    \/ up'[d] = up[d] /\ m.code = "line"
    \/ /\ up[d] # <<>> /\ up'[d] = Tail(up[d])
       /\ m.code \in {"2", "3"} => Head(up[d]).code = "4"
       /\ m.code = "20" => Head(up[d]).code = "2"

LEMMA AnsweredUp ==
    ASSUME NEW d, NEW m, Answers(d, m), up[d] \in Seq(Text), Once(up[d], {"4"}),
           \A i \in DOMAIN up[d] : up[d][i].code = "2" => i = 1
    PROVE  /\ Once(up'[d], {"4"})
           /\ Has(up'[d], {"4"}) => Has(up[d], {"4"})
           /\ m.code \in {"2", "3"} => Has(up[d], {"4"}) /\ ~Has(up'[d], {"4"})
           /\ \A i \in DOMAIN up'[d] : \E j \in DOMAIN up[d] : up'[d][i] = up[d][j]
           /\ \A i \in DOMAIN up'[d] : up'[d][i].code = "2" => i = 1 /\ up'[d] = up[d] /\ m.code = "line"
           /\ m.code \in {"2", "3"} => up[d] # <<>> /\ up[d][1].code = "4" /\ 1 \in DOMAIN up[d]
           /\ m.code = "20" => 1 \in DOMAIN up[d] /\ up[d][1].code = "2"
<1>1. CASE up'[d] = up[d] /\ m.code = "line"
  BY <1>1
<1>2. CASE /\ up[d] # <<>> /\ up'[d] = Tail(up[d])
           /\ m.code \in {"2", "3"} => Head(up[d]).code = "4"
           /\ m.code = "20" => Head(up[d]).code = "2"
  <2>1. /\ Len(up[d]) \in Nat \ {0}
        /\ DOMAIN up'[d] = 1 .. Len(up[d]) - 1
        /\ \A i \in DOMAIN up'[d] : i + 1 \in DOMAIN up[d] /\ up'[d][i] = up[d][i + 1]
        /\ 1 \in DOMAIN up[d] /\ Head(up[d]) = up[d][1]
    BY <1>2, TailFacts
  <2>2. /\ Has(Tail(up[d]), {"4"}) => Has(up[d], {"4"})
        /\ Once(Tail(up[d]), {"4"})
        /\ Head(up[d]).code = "4" => Has(up[d], {"4"}) /\ ~Has(Tail(up[d]), {"4"})
    BY <1>2, HasTail
  <2>3. \A i \in DOMAIN up'[d] : up'[d][i].code # "2"
    BY <2>1
  <2>4. \A i \in DOMAIN up'[d] : \E j \in DOMAIN up[d] : up'[d][i] = up[d][j]
    BY <2>1
  <2> QED BY <1>2, <2>1, <2>2, <2>3, <2>4
<1> QED
  BY <1>1, <1>2 DEF Answers

LEMMA QueuesAnswered ==
    ASSUME Believed, Grown, NEW p \in Page, SamePage(p), nth[p] > 0, NEW m \in Answer,
           Answers(Cur(p), m), down'[Cur(p)] \in {down[Cur(p)], Append(down[Cur(p)], m)},
           m.code = "2" => Seated(Cur(p), pending[p] + 1)',
           m.code = "3" => ~Seated(Nobody, pending[p] + 1)',
           m.code = "line" /\ m.name # NoName => Mates(p, m.name)'
    PROVE  Queues(p)'
<1> DEFINE d == Cur(p)
           e == Append(down[d], m)
<1>1. d \in Conn /\ Cur(p)' = d
  BY CurIsConn DEF SamePage, Cur, Believed
<1>2. /\ OneJoin(p) /\ Fits(p) /\ LoginFirst(p) /\ LinesFromMates(p)
      /\ up[d] \in Seq(Text) /\ down[d] \in Seq(Answer)
  BY <1>1 DEF Believed, Queues, TypeOK
<1>3. timers'[p] = timers[p] /\ pending'[p] = pending[p] /\ selected'[p] = selected[p]
  BY DEF SamePage
<1>4. /\ Once(up'[d], {"4"})
      /\ Has(up'[d], {"4"}) => Has(up[d], {"4"})
      /\ m.code \in {"2", "3"} => Has(up[d], {"4"}) /\ ~Has(up'[d], {"4"})
      /\ \A i \in DOMAIN up'[d] : \E j \in DOMAIN up[d] : up'[d][i] = up[d][j]
      /\ \A i \in DOMAIN up'[d] : up'[d][i].code = "2" => i = 1 /\ up'[d] = up[d] /\ m.code = "line"
      /\ m.code \in {"2", "3"} => up[d] # <<>> /\ up[d][1].code = "4" /\ 1 \in DOMAIN up[d]
      /\ m.code = "20" => 1 \in DOMAIN up[d] /\ up[d][1].code = "2"
  <2>1. Once(up[d], {"4"}) /\ \A i \in DOMAIN up[d] : up[d][i].code = "2" => i = 1
    BY <1>2 DEF OneJoin, LoginFirst
  <2> QED BY <1>2, <2>1, AnsweredUp
<1>5. /\ DOMAIN down[d] = 1 .. Len(down[d]) /\ Len(down[d]) \in Nat /\ DOMAIN e = 1 .. Len(down[d]) + 1
      /\ \A i \in DOMAIN down[d] : e[i] = down[d][i]
      /\ e[Len(down[d]) + 1] = m
  BY <1>2, AppendFacts
<1>6. \A codes : /\ Has(e, codes) <=> Has(down[d], codes) \/ m.code \in codes
                 /\ Once(down[d], codes) /\ (m.code \in codes => ~Has(down[d], codes)) => Once(e, codes)
  BY <1>2, HasAppend
<1> HIDE DEF e
<1>7. down'[d] \in {down[d], e}
  BY DEF e
<1>8. OneJoin(p)'
  <2>1. m.code \in {"2", "3"} => ~Has(down[d], {"2", "3"}) /\ ~Has(timers[p], {"4"})
    BY <1>2, <1>4 DEF OneJoin
  <2>2. Once(down'[d], {"2", "3"})
    BY <1>2, <1>6, <1>7, <2>1 DEF OneJoin
  <2>3. Has(down'[d], {"2", "3"}) => Has(down[d], {"2", "3"}) \/ m.code \in {"2", "3"}
    BY <1>6, <1>7
  <2>4. /\ Has(timers[p], {"4"}) => ~Has(up'[d], {"4"}) /\ ~Has(down'[d], {"2", "3"})
        /\ Has(up'[d], {"4"}) => ~Has(down'[d], {"2", "3"})
    BY <1>2, <1>4, <2>1, <2>3 DEF OneJoin
  <2>5. Once(timers[p], {"4"})
    BY <1>2 DEF OneJoin
  <2> QED BY <1>1, <1>3, <1>4, <2>2, <2>4, <2>5 DEF OneJoin
<1>9. Fits(p)'
  <2>1. m.code \in {"2", "3"} => pending[p] # 0
    BY <1>2, <1>4 DEF Fits
  <2>2. \A i \in DOMAIN up'[d] : up'[d][i].code = "4" => pending[p] # 0 /\ up'[d][i].room = pending[p]
    BY <1>2, <1>4 DEF Fits
  <2>3. pending[p] # 0 => pending[p] + 1 \in 1 .. NumRooms + 1
    BY BoundAssumption DEF Believed, TypeOK
  <2>4. pending[p] # 0 => /\ Seated(d, pending[p] + 1) => Seated(d, pending[p] + 1)'
                          /\ ~Seated(Nobody, pending[p] + 1) => ~Seated(Nobody, pending[p] + 1)'
    BY <1>1, <1>3, <2>3 DEF Grown, Seated
  <2>5. \A i \in DOMAIN down'[d] :
          /\ down'[d][i].code = "2" => pending[p] # 0 /\ Seated(d, pending[p] + 1)'
          /\ down'[d][i].code = "3" => pending[p] # 0 /\ ~Seated(Nobody, pending[p] + 1)'
    <3>1. \A i \in DOMAIN down[d] :
            /\ down[d][i].code = "2" => pending[p] # 0 /\ Seated(d, pending[p] + 1)'
            /\ down[d][i].code = "3" => pending[p] # 0 /\ ~Seated(Nobody, pending[p] + 1)'
      BY <1>2, <2>4 DEF Fits
    <3> QED BY <1>5, <1>7, <2>1, <3>1
  <2> QED BY <1>1, <1>2, <1>3, <2>2, <2>5 DEF Fits, Seated
<1>10. LoginFirst(p)'
  <2>1. (\E i \in DOMAIN timers[p] : timers[p][i].code = "2") => up'[d] = <<>> /\ m.code # "2"
    BY <1>2, <1>4 DEF LoginFirst, Answers
  <2>2. Has(down'[d], {"2"}) => Has(down[d], {"2"}) \/ m.code = "2"
    BY <1>6, <1>7
  <2>3. \A i \in DOMAIN timers[p] : timers[p][i].code = "2" =>
          i = 1 /\ up'[d] = <<>> /\ ~Has(down'[d], {"2"}) /\ selected[p] = 0
    BY <1>2, <2>1, <2>2 DEF LoginFirst
  <2>4. \A i \in DOMAIN up'[d] : up'[d][i].code = "2" =>
          i = 1 /\ ~Has(down'[d], {"2"}) /\ selected[p] = 0
    BY <1>2, <1>4, <2>2 DEF LoginFirst
  <2>5. m.code = "20" => selected[p] = 0 /\ ~Has(down[d], {"2"})
    BY <1>2, <1>4 DEF LoginFirst
  <2>6. \A i \in DOMAIN down'[d] : down'[d][i].code = "20" =>
          selected[p] = 0 /\ \A j \in DOMAIN down'[d] : j < i => down'[d][j].code # "2"
    <3>1. \A i \in DOMAIN down[d] : down[d][i].code = "20" =>
            selected[p] = 0 /\ \A j \in DOMAIN down[d] : j < i => down[d][j].code # "2"
      BY <1>2 DEF LoginFirst
    <3>2. m.code = "20" => \A j \in DOMAIN down[d] : down[d][j].code # "2"
      BY <2>5 DEF Has
    <3>3. CASE down'[d] = down[d]
      BY <3>1, <3>3
    <3>4. CASE down'[d] = e
      <4> SUFFICES ASSUME NEW i \in DOMAIN e, e[i].code = "20"
                   PROVE  selected[p] = 0 /\ \A j \in DOMAIN e : j < i => e[j].code # "2"
        BY <3>4
      <4>1. CASE i \in DOMAIN down[d]
        <5>1. \A j \in DOMAIN e : j < i => j \in DOMAIN down[d]
          BY <1>5, <4>1
        <5> QED BY <1>5, <3>1, <4>1, <5>1
      <4>2. CASE i = Len(down[d]) + 1
        <5>1. \A j \in DOMAIN e : j < i => j \in DOMAIN down[d]
          BY <1>5, <4>2
        <5> QED BY <1>5, <2>5, <3>2, <4>2, <5>1
      <4> QED BY <1>5, <4>1, <4>2
    <3> QED BY <1>7, <3>3, <3>4
  <2> QED BY <1>1, <1>3, <2>3, <2>4, <2>6 DEF LoginFirst
<1>11. LinesFromMates(p)'
  <2>1. ASSUME NEW i \in DOMAIN down[d], NEW n, n = down[d][i].name,
               down[d][i].code = "line", n # NoName
        PROVE  Mates(p, n)'
    <3>1. down[d][i] \in Answer
      BY <1>2
    <3>2. n \in Name /\ Mates(p, n)
      BY <1>2, <2>1, <3>1 DEF Answer, LinesFromMates
    <3> QED BY <1>1, <3>2, MatesStay
  <2>2. ASSUME NEW i \in DOMAIN down'[d], NEW n, n = down'[d][i].name,
               down'[d][i].code = "line", n # NoName
        PROVE  Mates(p, n)'
    <3>1. CASE i \in DOMAIN down[d] /\ down'[d][i] = down[d][i]
      BY <2>1, <2>2, <3>1
    <3>2. CASE down'[d][i] = m
      <4>1. n = m.name /\ Mates(p, m.name)'
        BY <2>2, <3>2
      <4> QED BY <4>1 DEF Mates
    <3> QED BY <1>5, <1>7, <3>1, <3>2
  <2> QED BY <1>1, <2>2 DEF LinesFromMates, Mates, Sits, Seated
<1> QED
  BY <1>8, <1>9, <1>10, <1>11 DEF Queues

(* A handler that serves a text of c and replies to some connections, of   *)
(* whose pages c's own is one, if it is still there.                       *)
LEMMA HandlerStep ==
    ASSUME Believed, TypeOK', Grown, NEW c \in Conn, NEW to, NEW m \in Answer,
           up[c] # <<>>, Reply(c, to, m), UNCHANGED <<page, timers, hook>>,
           c \in to, to # {c} => m.code = "line",
           m.code \in {"2", "3"} => Head(up[c]).code = "4",
           m.code = "20" => Head(up[c]).code = "2",
           NEW r, r = Head(up[c]).room + 1,
           m.code = "2" => Seated(c, r)',
           m.code = "3" => ~Seated(Nobody, r)',
           \A p \in Page : Cur(p) \in to /\ m.code = "line" /\ m.name # NoName => Mates(p, m.name)'
    PROVE  Believed'
<1>1. /\ up'[c] = Tail(up[c]) /\ up[c] \in Seq(Text)
      /\ \A d \in Conn \ {c} : up'[d] = up[d]
      /\ \A d \in Conn : down'[d] = IF d \in to /\ Listens(d) THEN Append(down[d], m) ELSE down[d]
  BY DEF Reply, Believed, TypeOK
<1>2. \A d \in Conn : Listens(d) => nth[d[1]] = d[2]
  BY DEF Listens
<1>3. \A p \in Page : SamePage(p) /\ Cur(p)' = Cur(p)
  BY DEF SamePage, page, hook, Cur
<1>4. \A p \in Page : Kept(p)'
  BY <1>3, KeptStays DEF Believed
<1>5. ASSUME NEW p \in Page PROVE Queues(p)'
  <2> SUFFICES ASSUME nth[p] > 0 PROVE Queues(p)'
    BY <1>3 DEF Queues, SamePage
  <2>1. Cur(p) \in Conn
    BY CurIsConn DEF Believed
  <2>2. CASE Cur(p) = c
    <3>1. Answers(Cur(p), m)
      BY <1>1, <2>2 DEF Answers
    <3>2. m.code \in {"2", "3"} => r = pending[p] + 1
      <4>1. up[c][1] = Head(up[c]) /\ 1 \in DOMAIN up[c]
        BY <1>1, TailFacts
      <4>2. Fits(p)
        BY DEF Believed, Queues
      <4> QED BY <2>2, <4>1, <4>2 DEF Fits
    <3>3. /\ m.code = "2" => Seated(Cur(p), pending[p] + 1)'
          /\ m.code = "3" => ~Seated(Nobody, pending[p] + 1)'
      <4>1. pending'[p] = pending[p]
        BY <1>3 DEF SamePage
      <4> QED BY <1>3, <2>2, <3>2, <4>1 DEF Seated
    <3>4. down'[Cur(p)] \in {down[Cur(p)], Append(down[Cur(p)], m)}
      BY <1>1, <2>1
    <3>5. m.code = "line" /\ m.name # NoName => Mates(p, m.name)'
      BY <2>2
    <3> QED BY <1>3, <3>1, <3>3, <3>4, <3>5, QueuesAnswered
  <2>3. CASE Cur(p) # c /\ Cur(p) \in to
    <3>1. Answers(Cur(p), m) /\ m.code = "line"
      BY <1>1, <2>1, <2>3 DEF Answers
    <3>2. down'[Cur(p)] \in {down[Cur(p)], Append(down[Cur(p)], m)}
      BY <1>1, <2>1
    <3>3. m.name # NoName => Mates(p, m.name)'
      BY <2>3, <3>1
    <3> QED BY <1>3, <3>1, <3>2, <3>3, QueuesAnswered
  <2>4. CASE Cur(p) # c /\ Cur(p) \notin to
    <3>1. SameQueues(p)
      BY <1>1, <2>1, <2>4 DEF SameQueues
    <3> QED BY <1>3, <3>1, QueuesStay DEF Believed
  <2> QED BY <2>2, <2>3, <2>4
<1>6. ASSUME NEW d \in Conn PROVE Unopened(d)'
  <2>1. d[1] \in Page /\ d[2] \in Nat /\ nth'[d[1]] = nth[d[1]] /\ nth[d[1]] \in Nat
    BY <1>3, ConnFacts DEF SamePage, Believed, TypeOK
  <2> QED BY <1>1, <1>2, <2>1 DEF Believed, Unopened
<1>7. ASSUME NEW d \in Conn \ {c} PROVE FromASeat(d)'
  <2>1. Sits(d) \subseteq Sits(d)' /\ FromASeat(d)
    BY SitsGrows DEF Believed
  <2> QED BY <1>1, <2>1 DEF FromASeat, Sits, Seated
<1>8. FromASeat(c)'
  <2>1. Sits(c) \subseteq Sits(c)' /\ FromASeat(c)
    BY SitsGrows DEF Believed
  <2>2. \A i \in DOMAIN up'[c] : i + 1 \in DOMAIN up[c] /\ up'[c][i] = up[c][i + 1]
    BY <1>1, TailFacts
  <2> QED BY <2>1, <2>2 DEF FromASeat, Sits, Seated
<1>9. ASSUME NEW d \in Conn PROVE FromASeat(d)'
  <2>1. CASE d # c
    BY <1>7, <2>1
  <2>2. CASE d = c
    BY <1>8, <2>2 DEF FromASeat, Sits, Seated
  <2> QED BY <2>1, <2>2
<1> QED
  BY <1>4, <1>5, <1>6, <1>9 DEF Believed

LEMMA LoginBelieved ==
    ASSUME Believed, TypeOK', NEW c \in Conn, Login(c)
    PROVE  Believed'
<1>1. /\ Grown /\ up[c] # <<>> /\ Head(up[c]).code = "2" /\ UNCHANGED <<page, timers, hook>>
      /\ Reply(c, {c}, Say("20", NoName)) \/ Reply(c, {c}, Say("21", NoName))
  BY NameGiven DEF Believed, Login, Asks
<1>2. ASSUME NEW k \in {"20", "21"}, Reply(c, {c}, Say(k, NoName)) PROVE Believed'
  <2> DEFINE m == Say(k, NoName)
             r == Head(up[c]).room + 1
  <2>1. m \in Answer /\ m.code = k
    BY SayTyped DEF Say
  <2>2. Reply(c, {c}, m)
    BY <1>2
  <2> HIDE DEF m, r
  <2>3. m.code \notin {"2", "3", "line"}
    BY <2>1
  <2>4. r = Head(up[c]).room + 1
    BY DEF r
  <2> QED BY <1>1, <2>1, <2>2, <2>3, <2>4, HandlerStep
<1> QED
  BY <1>1, <1>2

LEMMA JoinBelieved ==
    ASSUME Believed, TypeOK', NEW c \in Conn, Join(c)
    PROVE  Believed'
<1>1. TypeOK
  BY DEF Believed
<1>2. Grown /\ Head(up[c]).room + 1 \in 1 .. NumRooms + 1
  BY <1>1, SeatGiven
<1> DEFINE r0 == Head(up[c]).room + 1
<1>3. PICK r : r = r0
  OBVIOUS
<1>4. /\ up[c] # <<>> /\ Head(up[c]).code = "4" /\ UNCHANGED <<page, timers, hook>>
      /\ \/ /\ Reply(c, {c}, Say("3", NoName)) /\ rooms' = rooms
            /\ Nobody \notin {rooms[r].first, rooms[r].second}
         \/ /\ Reply(c, {c}, Say("2", NoName))
            /\ rooms' = [rooms EXCEPT ![r].first = c] \/ rooms' = [rooms EXCEPT ![r].second = c]
  BY <1>3 DEF Join, Asks
<1>5. CASE /\ Reply(c, {c}, Say("3", NoName)) /\ rooms' = rooms
           /\ Nobody \notin {rooms[r].first, rooms[r].second}
  <2> DEFINE m == Say("3", NoName)
  <2>1. m \in Answer /\ m.code = "3" /\ Reply(c, {c}, m)
    BY <1>5, SayTyped DEF Say
  <2>2. ~Seated(Nobody, r)'
    BY <1>5 DEF Seated
  <2> HIDE DEF m
  <2> QED BY <1>2, <1>3, <1>4, <2>1, <2>2, HandlerStep
<1>6. CASE /\ Reply(c, {c}, Say("2", NoName))
           /\ rooms' = [rooms EXCEPT ![r].first = c] \/ rooms' = [rooms EXCEPT ![r].second = c]
  <2> DEFINE m == Say("2", NoName)
  <2>1. m \in Answer /\ m.code = "2" /\ Reply(c, {c}, m)
    BY <1>6, SayTyped DEF Say
  <2>2. Seated(c, r)'
    <3>1. rooms[r] \in [first : Conn \cup {Nobody}, second : Conn \cup {Nobody}]
      BY <1>1, <1>2, <1>3 DEF TypeOK
    <3>2. \/ rooms'[r] = [rooms[r] EXCEPT !.first = c]
          \/ rooms'[r] = [rooms[r] EXCEPT !.second = c]
      BY <1>1, <1>2, <1>3, <1>6 DEF TypeOK
    <3> QED BY <3>1, <3>2 DEF Seated
  <2> HIDE DEF m
  <2> QED BY <1>2, <1>3, <1>4, <2>1, <2>2, HandlerStep
<1> QED
  BY <1>4, <1>5, <1>6

Less == {pair \in Nat \X Nat : pair[1] < pair[2]}

LEMMA Smallest ==
    ASSUME NEW T \in SUBSET Nat, T # {} PROVE \E q \in T : \A s \in T : q <= s
<1>1. \E q \in T : \A s \in T : <<s, q>> \notin Less
  <2>1. IsWellFoundedOn(Less, Nat)
    BY NatLessThanWellFounded DEF OpToRel, Less
  <2> QED BY <2>1, WFMin
<1>2. \A q, s \in T : <<s, q>> \in Nat \X Nat /\ (~(s < q) => q <= s)
  OBVIOUS
<1> QED
  BY <1>1, <1>2 DEF Less

\* the room that get_room finds is one in which its caller sits, with the peer
LEMMA PeerSits ==
    ASSUME NEW c \in Conn, Sits(c) # {}
    PROVE  RoomOf(c) \in Sits(c) /\ RoomOf(c) \in Sits(Peer(c))
<1>1. Sits(c) \in SUBSET Nat
  BY BoundAssumption DEF Sits
<1>2. RoomOf(c) \in Sits(c)
  BY <1>1, Smallest DEF RoomOf
<1> DEFINE r == RoomOf(c)
<1> HIDE DEF r
<1>3. r \in Sits(c) /\ Peer(c) = IF rooms[r].first = c THEN rooms[r].second ELSE rooms[r].first
  BY <1>2 DEF Peer, r
<1>4. r \in Sits(Peer(c))
  BY <1>3 DEF Sits, Seated
<1> QED
  BY <1>2, <1>4 DEF r

LEMMA RelayBelieved ==
    ASSUME Believed, TypeOK', NEW c \in Conn, Relay(c)
    PROVE  Believed'
<1>1. /\ up[c] # <<>> /\ Head(up[c]).code = "1" /\ Sits(c) # {}
      /\ UNCHANGED <<page, timers, hook, server>>
  BY DEF Relay, Asks
<1>2. PICK n \in NamesOf(c) : Reply(c, {c, Peer(c)}, Say("line", n))
  BY DEF Relay
<1> DEFINE m == Say("line", n)
           r == Head(up[c]).room + 1
<1>3. /\ n \in Name \cup {NoName}
      /\ n # NoName => names[n] = c
  BY NullAssumption DEF NamesOf
<1>4. m \in Answer /\ m.code = "line" /\ m.name = n
  BY <1>3, SayTyped DEF Say
<1>5. ASSUME NEW p \in Page, Cur(p) \in {c, Peer(c)}, n # NoName PROVE Mates(p, n)'
  <2>1. Sits(Cur(p)) \cap Sits(names[n]) # {}
    BY <1>1, <1>3, <1>5, PeerSits
  <2>2. Mates(p, n)
    BY <1>3, <1>5, <2>1 DEF Mates
  <2> QED BY <1>1, <2>2 DEF Mates, Sits, Seated, Cur, server, hook
<1>6. Grown
  BY <1>1, SameGrown
<1>7. Reply(c, {c, Peer(c)}, m) /\ r = Head(up[c]).room + 1
  BY <1>2
<1> HIDE DEF m, r
<1>8. \A p \in Page : Cur(p) \in {c, Peer(c)} /\ m.code = "line" /\ m.name # NoName => Mates(p, m.name)'
  <2>1. \A p \in Page : Cur(p) \in {c, Peer(c)} /\ n # NoName => Mates(p, n)'
    BY <1>5
  <2> QED BY <1>4, <2>1
<1> QED
  BY <1>1, <1>4, <1>6, <1>7, <1>8, HandlerStep

-----------------------------------------------------------------------------
(* The theorems.                                                           *)

LEMMA InitBelieved == Init => Believed
<1> SUFFICES ASSUME Init PROVE Believed
  OBVIOUS
<1>1. TypeOK
  BY InitTyped
<1>2. ASSUME NEW p \in Page PROVE Queues(p) /\ Kept(p)
  BY DEF Init, Queues, Kept, Alive
<1>3. ASSUME NEW c \in Conn PROVE Unopened(c) /\ FromASeat(c)
  BY DEF Init, Unopened, FromASeat
<1> QED
  BY <1>1, <1>2, <1>3 DEF Believed

LEMMA StepBelieved ==
    ASSUME Patient, Believed, [Next]_vars
    PROVE  Believed'
<1>1. TypeOK /\ \A q \in Page : Kept(q)
  BY DEF Believed
<1>2. ASSUME NEW p \in Page, Submit(p) PROVE Believed'
  BY <1>1, <1>2, UserTyped, SubmitBelieved
<1>3. ASSUME NEW p \in Page, Type(p) PROVE Believed'
  BY <1>1, <1>3, UserTyped, TypeBelieved
<1>4. ASSUME NEW p \in Page, NEW r \in Room, Click(p, r) PROVE Believed'
  BY <1>1, <1>4, UserTyped, ClickBelieved
<1>5. ASSUME NEW p \in Page, Socket(p) PROVE Believed'
  BY <1>1, <1>5, SocketTyped, OpensBelieved, BreaksBelieved, FireBelieved DEF Socket
<1>6. ASSUME NEW p \in Page, handleServerMessage(p) PROVE Believed'
  BY <1>1, <1>6, PageTyped, JoinedBelieved, RefusedBelieved, NameAnsweredBelieved, ShownBelieved
     DEF handleServerMessage
<1>7. ASSUME NEW c \in Conn, Handler(c) PROVE Believed'
  BY <1>1, <1>7, HandlerTyped, LoginBelieved, JoinBelieved, RelayBelieved DEF Handler
<1>8. CASE UNCHANGED vars
  <2>1. TypeOK'
    BY <1>1, <1>8 DEF TypeOK, vars, page, hook, users, server
  <2>2. Grown /\ (\A p \in Page : SamePage(p) /\ SameQueues(p)) /\ up' = up /\ down' = down /\ nth' = nth
    BY <1>8, SameGrown DEF SamePage, SameQueues, vars, page, hook
  <2>3. ASSUME NEW p \in Page PROVE Queues(p)' /\ Kept(p)'
    BY <1>1, <2>2, KeptStays, QueuesStay DEF Believed
  <2>4. ASSUME NEW c \in Conn PROVE Unopened(c)' /\ FromASeat(c)'
    BY <1>8 DEF Believed, Unopened, FromASeat, Sits, Seated, vars, hook, server
  <2> QED BY <2>1, <2>3, <2>4 DEF Believed
<1> QED
  BY <1>2, <1>3, <1>4, <1>5, <1>6, <1>7, <1>8 DEF Next

LEMMA AlwaysBelieved == ASSUME Patient PROVE Spec => []Believed
<1>1. Believed /\ [Next]_vars => Believed'
  BY StepBelieved
<1> QED
  BY <1>1, InitBelieved, PTL DEF Spec

(* What patient users see stays well formed.                               *)
THEOREM Typed == ASSUME Patient PROVE Spec => []TypeOK
<1>1. Believed => TypeOK
  BY DEF Believed
<1> QED
  BY <1>1, AlwaysBelieved, PTL

(* The chat that a page has selected is a room where the server has given  *)
(* the page's connection a seat, although '2' names no room.               *)
THEOREM SelectedSeated == ASSUME Patient PROVE Spec => []SelectedIsSeat
<1>1. Believed => SelectedIsSeat
  BY DEF Believed, Kept, Alive, SelectedIsSeat
<1> QED
  BY <1>1, AlwaysBelieved, PTL

(* A room that a page has marked full is full at the server, although '3'  *)
(* names no room.                                                          *)
THEOREM MarkedFull == ASSUME Patient PROVE Spec => []MarkedIsFull
<1>1. Believed => MarkedIsFull
  BY DEF Believed, Kept, MarkedIsFull
<1> QED
  BY <1>1, AlwaysBelieved, PTL

(* A line that is on its way to the server comes from a connection that    *)
(* sits in a room: case '1' never looks for a room in vain.                *)
THEOREM TypedSeated == ASSUME Patient PROVE Spec => []TypedFromASeat
<1>1. Believed => TypedFromASeat
  BY DEF Believed, FromASeat, TypedFromASeat
<1> QED
  BY <1>1, AlwaysBelieved, PTL

(* A page shows lines only of names that sit in a room with it.            *)
THEOREM ShownSeated == ASSUME Patient PROVE Spec => []ShownToRoomMates
<1>1. Believed => ShownToRoomMates
  BY DEF Believed, Kept, Mates, ShownToRoomMates
<1> QED
  BY <1>1, AlwaysBelieved, PTL
=============================================================================
