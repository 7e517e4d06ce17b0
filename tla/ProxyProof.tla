----------------------------- MODULE ProxyProof -----------------------------
(***************************************************************************)
(* Proofs about Proxy, for any number of server threads and any number of  *)
(* texts: both directions are pipes.                                       *)
(***************************************************************************)
EXTENDS Proxy, SequenceTheorems, TLAPS

(* Both coroutines, the clean-up and the two ends stay well formed.        *)
THEOREM Typed == Spec => []TypeOK
<1>1. Init => TypeOK
  BY BoundAssumption DEF Init, TypeOK
<1>2. TypeOK /\ [Next]_vars => TypeOK'
  <2> SUFFICES ASSUME TypeOK, [Next]_vars PROVE TypeOK'
    OBVIOUS
  <2> USE BoundAssumption
  <2>1. CASE PageSends
    BY <2>1 DEF PageSends, TypeOK, server, up, down
  <2>2. CASE PageCloses \/ ServerCloses \/ Connect \/ ConnectFails \/ CleanUp
    BY <2>2 DEF PageCloses, ServerCloses, Connect, ConnectFails, CleanUp, TypeOK, page, server, up, down
  <2>3. ASSUME NEW h \in Handler, SendLength(h) PROVE TypeOK'
    <3>1. begun + 1 \in 1 .. MaxDown /\ [of |-> begun + 1, part |-> "length"] \in Chunk
      BY <2>3 DEF SendLength, TypeOK, Chunk
    <3>2. QED
      BY <2>3, <3>1 DEF SendLength, TypeOK, page, up, down
  <2>4. ASSUME NEW h \in Handler, SendText(h) PROVE TypeOK'
    <3>1. sending[h] \in 1 .. MaxDown
      BY <2>4 DEF SendText, TypeOK
    <3>2. [of |-> sending[h], part |-> "text"] \in Chunk
      BY <3>1 DEF Chunk
    <3>3. stream' \in Seq(Chunk) /\ taken' \in 0 .. Len(stream')
      BY <2>4, <3>2 DEF SendText, TypeOK, down
    <3>4. sending' \in [Handler -> 0 .. MaxDown]
      BY <2>4 DEF SendText, TypeOK
    <3>5. UNCHANGED <<page, socket, begun, conn, up, data, given, down_at>>
      BY <2>4 DEF SendText, down
    <3>6. QED
      BY <3>3, <3>4, <3>5 DEF TypeOK, Chunk, page, up
  <2>5. CASE Forward
    <3>1. typed[received + 1] \in 1 .. MaxUp /\ received + 1 \in 0 .. Len(typed)
      BY <2>5 DEF Forward, TypeOK
    <3>2. Append(written, typed[received + 1]) \in Seq(1 .. MaxUp)
      BY <3>1 DEF TypeOK
    <3>3. written' \in Seq(1 .. MaxUp)
      BY <2>5, <3>2 DEF Forward, TypeOK
    <3>4. received' = received + 1 /\ up_at' = "drain" /\ UNCHANGED <<page, server, conn, down>>
      BY <2>5 DEF Forward
    <3>5. QED
      BY <3>1, <3>3, <3>4 DEF TypeOK, Chunk, page, server, down
  <2>6. CASE Drain \/ PageGone
    BY <2>6 DEF Drain, PageGone, TypeOK, page, server, down
  <2>7. CASE Read
    <3>1. PICK n \in taken + 1 .. Len(stream) : data' = SubSeq(stream, taken + 1, n) /\ taken' = n
      BY <2>7 DEF Read
    <3>2. SubSeq(stream, taken + 1, n) \in Seq(Chunk) /\ n \in 0 .. Len(stream)
      BY <3>1 DEF TypeOK
    <3>3. data' # <<>>
      <4>1. Len(data') > 0 /\ Len(<<>>) = 0
        BY <3>1 DEF TypeOK
      <4>2. QED
        BY <4>1
    <3>4. UNCHANGED <<page, server, conn, up, given>> /\ down_at' = "send"
      BY <2>7 DEF Read
    <3>5. QED
      BY <3>1, <3>2, <3>3, <3>4 DEF TypeOK, Chunk, page, server, up
  <2>8. CASE ServerGone
    BY <2>8 DEF ServerGone, TypeOK, page, server, up
  <2>9. CASE Give
    <3>1. UNCHANGED <<page, server, conn, up, taken>> /\ data' = <<>> /\ down_at' \in {"read", "ended"}
      BY <2>9 DEF Give
    <3>2. given' \in Seq(Chunk)
      <4>1. CASE UNCHANGED given
        BY <4>1 DEF TypeOK
      <4>2. CASE given' = given \o data
        BY <4>2 DEF TypeOK
      <4>3. QED
        BY <2>9, <4>1, <4>2 DEF Give
    <3>3. QED
      BY <3>1, <3>2 DEF TypeOK, page, server, up
  <2>10. CASE UNCHANGED vars
    BY <2>10 DEF vars, page, server, up, down, TypeOK
  <2>11. QED
    BY <2>1, <2>2, <2>3, <2>4, <2>5, <2>6, <2>7, <2>8, <2>9, <2>10 DEF Next, Loops, Ends
<1>3. QED
  BY <1>1, <1>2, PTL DEF Spec

-----------------------------------------------------------------------------
(* Prefixes, element by element.                                           *)
Starts(s, t) == Len(s) <= Len(t) /\ \A i \in 1 .. Len(s) : s[i] = t[i]

(* That is what the pipes mean by a prefix.                                *)
LEMMA StartsIsPrefix ==
    ASSUME NEW S, NEW s \in Seq(S), NEW t \in Seq(S), Starts(s, t)
    PROVE  UpPipe!IsPrefix(s, t) /\ DownPipe!IsPrefix(s, t)
<1>1. Len(s) \in Nat /\ Len(t) \in Nat /\ Len(s) <= Len(t)
  BY DEF Starts
<1>2. SubSeq(t, 1, Len(s)) \in Seq(S) /\ Len(SubSeq(t, 1, Len(s))) = Len(s)
  BY <1>1
<1>3. \A i \in 1 .. Len(s) : SubSeq(t, 1, Len(s))[i] = s[i]
  BY <1>1 DEF Starts
<1>4. SubSeq(t, 1, Len(s)) = s
  BY <1>2, <1>3, SeqEqual
<1>5. SubSeq(s, 1, Len(s)) = s
  BY SubSeqFull
<1>6. QED
  BY <1>1, <1>4, <1>5 DEF UpPipe!IsPrefix, DownPipe!IsPrefix

(* A sequence is a strict prefix of itself with more at its end.           *)
LEMMA GrowsStrictly ==
    ASSUME NEW S, NEW s \in Seq(S), NEW t \in Seq(S), t # <<>>
    PROVE  UpPipe!IsStrictPrefix(s, s \o t) /\ DownPipe!IsStrictPrefix(s, s \o t)
<1>1. s \o t \in Seq(S) /\ Len(s \o t) = Len(s) + Len(t)
  BY ConcatProperties
<1>2. Len(t) \in Nat \ {0} /\ Len(s) \in Nat
  BY EmptySeq
<1>3. s # s \o t
  BY <1>1, <1>2
<1>4. Starts(s, s \o t)
  BY <1>1, <1>2, ConcatProperties DEF Starts
<1>5. QED
  BY <1>1, <1>3, <1>4, StartsIsPrefix DEF UpPipe!IsStrictPrefix, DownPipe!IsStrictPrefix

-----------------------------------------------------------------------------
(* From the page to the server: what was written is what was received, as  *)
(* long as somebody was there to write to.                                 *)
WrittenInOrder ==
    /\ Starts(written, typed)
    /\ socket => Len(written) = received

LEMMA WrittenKept == Spec => []WrittenInOrder
<1>1. Init => WrittenInOrder
  BY DEF Init, WrittenInOrder, Starts
<1>2. TypeOK /\ WrittenInOrder /\ [Next]_vars => WrittenInOrder'
  <2> SUFFICES ASSUME TypeOK, WrittenInOrder, [Next]_vars PROVE WrittenInOrder'
    OBVIOUS
  <2>1. CASE PageSends
    <3>1. typed \in Seq(1 .. MaxUp) /\ typed' = Append(typed, Len(typed) + 1)
      BY <2>1 DEF PageSends, TypeOK
    <3>2. UNCHANGED <<written, socket, received>>
      BY <2>1 DEF PageSends, server, up
    <3>3. Len(typed') = Len(typed) + 1 /\ \A i \in 1 .. Len(typed) : typed'[i] = typed[i]
      BY <3>1
    <3>4. Len(written) \in Nat /\ Len(typed) \in Nat
      BY DEF TypeOK
    <3>5. QED
      BY <3>2, <3>3, <3>4 DEF WrittenInOrder, Starts
  <2>2. CASE Forward
    <3>1. received' = received + 1 /\ received < Len(typed) /\ UNCHANGED <<typed, socket>>
      BY <2>2 DEF Forward, page, server
    <3>2. CASE ~socket
      <4>1. written' = written
        BY <2>2, <3>2 DEF Forward
      <4>2. QED
        BY <3>1, <3>2, <4>1 DEF WrittenInOrder, Starts
    <3>3. CASE socket
      <4>1. written' = Append(written, typed[received + 1]) /\ Len(written) = received
        BY <2>2, <3>3 DEF Forward, WrittenInOrder
      <4>2. written \in Seq(1 .. MaxUp) /\ Len(typed) \in Nat /\ received \in Nat
        BY DEF TypeOK
      <4>3. /\ Len(written') = received + 1 /\ written'[received + 1] = typed[received + 1]
            /\ \A i \in 1 .. Len(written) : written'[i] = written[i]
        BY <4>1, <4>2
      <4>4. \A i \in 1 .. received + 1 : i \in 1 .. Len(written) \/ i = received + 1
        BY <4>1, <4>2
      <4>5. Starts(written', typed')
        BY <3>1, <4>1, <4>2, <4>3, <4>4 DEF WrittenInOrder, Starts
      <4>6. QED
        BY <3>1, <4>3, <4>5 DEF WrittenInOrder
    <3>4. QED
      BY <3>2, <3>3
  <2>3. CASE ServerCloses
    BY <2>3 DEF ServerCloses, WrittenInOrder, Starts, page, up
  <2>4. CASE UNCHANGED <<typed, socket, received, written>>
    BY <2>4 DEF WrittenInOrder, Starts
  <2>5. QED
    BY <2>1, <2>2, <2>3, <2>4 DEF Next, Loops, Ends, vars, page, server, up, down, PageCloses, SendLength,
       SendText, Connect, ConnectFails, Drain, PageGone, Read, ServerGone, Give, CleanUp
<1>3. QED
  BY <1>1, <1>2, Typed, PTL DEF Spec

(* The direction to the server is a pipe: what the page types is written   *)
(* in its order, each text once (websocket_to_tcp).                        *)
THEOREM OrderUp == Spec => TypedArrivesInOrder
<1>1. Init => UpPipe!Init
  BY DEF Init, UpPipe!Init
<1>2. ASSUME TypeOK, WrittenInOrder, WrittenInOrder', TypeOK', [Next]_vars
      PROVE  [UpPipe!Put \/ UpPipe!Take]_<<typed, written>>
  <2>1. CASE PageSends
    <3>1. typed \in Seq(Nat) /\ <<Len(typed) + 1>> \in Seq(Nat) /\ <<Len(typed) + 1>> # <<>>
      <4>1. typed \in Seq(1 .. MaxUp) /\ 1 .. MaxUp \subseteq Nat
        BY <1>2, BoundAssumption DEF TypeOK
      <4>2. typed \in Seq(Nat)
        BY <4>1, SeqMonotonic
      <4>3. QED
        BY <4>2
    <3>2. typed' = typed \o <<Len(typed) + 1>> /\ written' = written
      BY <2>1, <3>1 DEF PageSends, up
    <3>3. UpPipe!IsStrictPrefix(typed, typed')
      BY <3>1, <3>2, GrowsStrictly
    <3>4. QED
      BY <3>2, <3>3 DEF UpPipe!Put
  <2>2. CASE Forward /\ written' # written
    <3>1. /\ written' = Append(written, typed[received + 1])
          /\ typed' = typed /\ typed[received + 1] \in 1 .. MaxUp
      <4>1. received + 1 \in 1 .. Len(typed) /\ typed \in Seq(1 .. MaxUp)
        BY <1>2, <2>2 DEF Forward, TypeOK
      <4>2. typed[received + 1] \in 1 .. MaxUp
        BY <4>1, ElementOfSeq
      <4>3. QED
        BY <2>2, <4>2 DEF Forward, page
    <3>2. /\ written \in Seq(1 .. MaxUp) /\ written' \in Seq(1 .. MaxUp) /\ typed \in Seq(1 .. MaxUp)
          /\ <<typed[received + 1]>> \in Seq(1 .. MaxUp) /\ <<typed[received + 1]>> # <<>>
      BY <1>2, <3>1 DEF TypeOK
    <3>3. written' = written \o <<typed[received + 1]>>
      BY <3>1, <3>2
    <3>4. UpPipe!IsStrictPrefix(written, written')
      BY <3>2, <3>3, GrowsStrictly
    <3>5. UpPipe!IsPrefix(written', typed)
      BY <1>2, <3>1, <3>2, StartsIsPrefix DEF WrittenInOrder
    <3>6. QED
      BY <3>1, <3>4, <3>5 DEF UpPipe!Take
  <2>3. CASE UNCHANGED <<typed, written>>
    BY <2>3
  <2>4. QED
    BY <1>2, <2>1, <2>2, <2>3 DEF Next, Loops, Ends, vars, page, server, up, down, PageCloses, SendLength,
       SendText, ServerCloses, Connect, ConnectFails, Forward, Drain, PageGone, Read, ServerGone, Give, CleanUp
<1>3. QED
  BY <1>1, <1>2, Typed, WrittenKept, PTL DEF Spec, TypedArrivesInOrder, UpPipe!Spec

-----------------------------------------------------------------------------
(* From the server to the page: what was given, and then what is being     *)
(* sent, is what was read.                                                 *)
GivenInOrder ==
    /\ Starts(given, stream)
    /\ down_at # "ended" =>
          /\ Len(given) + Len(data) = taken
          /\ \A i \in 1 .. Len(data) : data[i] = stream[Len(given) + i]

LEMMA GivenKept == Spec => []GivenInOrder
<1>1. Init => GivenInOrder
  BY DEF Init, GivenInOrder, Starts
<1>2. TypeOK /\ GivenInOrder /\ [Next]_vars => GivenInOrder'
  <2> SUFFICES ASSUME TypeOK, GivenInOrder, [Next]_vars PROVE GivenInOrder'
    OBVIOUS
  <2>1. ASSUME NEW e \in Chunk, stream' = Append(stream, e), UNCHANGED down PROVE GivenInOrder'
    <3>1. stream \in Seq(Chunk) /\ Len(stream) \in Nat /\ Len(given) \in Nat /\ Len(data) \in Nat
      BY DEF TypeOK
    <3>2. Len(stream') = Len(stream) + 1 /\ \A i \in 1 .. Len(stream) : stream'[i] = stream[i]
      BY <2>1, <3>1
    <3>3. taken <= Len(stream) /\ UNCHANGED <<given, data, taken, down_at>>
      BY <2>1 DEF TypeOK, down
    <3>4. Starts(given', stream')
      BY <3>1, <3>2, <3>3 DEF GivenInOrder, Starts
    <3>5. ASSUME down_at # "ended"
          PROVE  /\ Len(given) + Len(data) = taken
                 /\ \A i \in 1 .. Len(data) : data[i] = stream'[Len(given) + i]
      BY <3>1, <3>2, <3>3, <3>5 DEF GivenInOrder
    <3>6. QED
      BY <3>3, <3>4, <3>5 DEF GivenInOrder
  <2>2. ASSUME NEW h \in Handler, SendLength(h) PROVE GivenInOrder'
    <3>1. [of |-> begun + 1, part |-> "length"] \in Chunk
      BY <2>2, BoundAssumption DEF SendLength, TypeOK, Chunk
    <3>2. QED
      BY <2>1, <2>2, <3>1 DEF SendLength
  <2>3. ASSUME NEW h \in Handler, SendText(h) PROVE GivenInOrder'
    <3>1. sending[h] \in 1 .. MaxDown
      BY <2>3, BoundAssumption DEF SendText, TypeOK
    <3>2. [of |-> sending[h], part |-> "text"] \in Chunk
      BY <3>1 DEF Chunk
    <3>3. QED
      BY <2>1, <2>3, <3>2 DEF SendText
  <2>4. CASE Read
    <3>1. PICK n \in taken + 1 .. Len(stream) : data' = SubSeq(stream, taken + 1, n) /\ taken' = n
      BY <2>4 DEF Read
    <3>2. /\ stream \in Seq(Chunk) /\ taken \in Nat /\ n \in Nat /\ n <= Len(stream)
          /\ Len(given) \in Nat /\ Len(stream) \in Nat
      BY <3>1 DEF TypeOK
    <3>3. Len(data') = n - taken /\ \A i \in 1 .. n - taken : data'[i] = stream[taken + i]
      BY <3>1, <3>2
    <3>4. Len(given) = taken
      <4>1. down_at = "read" /\ data = <<>>
        BY <2>4 DEF Read, TypeOK
      <4>2. QED
        BY <3>2, <4>1 DEF GivenInOrder
    <3>5. UNCHANGED <<stream, given>>
      BY <2>4 DEF Read, server
    <3>6. QED
      BY <3>1, <3>2, <3>3, <3>4, <3>5 DEF GivenInOrder, Starts
  <2>5. CASE Give
    <3>1. UNCHANGED <<stream, taken>> /\ data' = <<>>
      BY <2>5 DEF Give, server
    <3>2. CASE down_at' = "ended" /\ given' = given
      BY <3>1, <3>2 DEF GivenInOrder, Starts
    <3>3. CASE given' = given \o data
      <4>1. given \in Seq(Chunk) /\ data \in Seq(Chunk) /\ Len(given) \in Nat /\ Len(data) \in Nat
        BY DEF TypeOK
      <4>2. /\ Len(given') = Len(given) + Len(data)
            /\ \A i \in 1 .. Len(given) + Len(data) :
                  given'[i] = IF i <= Len(given) THEN given[i] ELSE data[i - Len(given)]
        BY <3>3, <4>1, ConcatProperties
      <4>3. Len(given) + Len(data) = taken /\ taken <= Len(stream) /\ taken \in Nat /\ Len(stream) \in Nat
        BY <2>5 DEF Give, GivenInOrder, TypeOK
      <4>4. ASSUME NEW i \in 1 .. Len(given') PROVE given'[i] = stream[i]
        <5>1. CASE i <= Len(given)
          BY <4>1, <4>2, <5>1 DEF GivenInOrder, Starts
        <5>2. CASE i > Len(given)
          <6>1. i - Len(given) \in 1 .. Len(data) /\ Len(given) + (i - Len(given)) = i
            BY <4>1, <4>2, <5>2
          <6>2. data[i - Len(given)] = stream[i]
            BY <2>5, <6>1 DEF Give, GivenInOrder
          <6>3. QED
            BY <4>1, <4>2, <5>2, <6>2
        <5>3. QED
          BY <4>1, <4>2, <5>1, <5>2
      <4>5. QED
        BY <3>1, <4>1, <4>2, <4>3, <4>4 DEF GivenInOrder, Starts
    <3>4. QED
      BY <2>5, <3>2, <3>3 DEF Give
  <2>6. CASE ServerGone
    BY <2>6 DEF ServerGone, GivenInOrder, Starts, server
  <2>7. CASE UNCHANGED <<stream, down>>
    BY <2>7 DEF GivenInOrder, Starts, down
  <2>8. QED
    BY <2>2, <2>3, <2>4, <2>5, <2>6, <2>7 DEF Next, Loops, Ends, vars, page, server, up, PageSends, PageCloses,
       ServerCloses, Connect, ConnectFails, Forward, Drain, PageGone, CleanUp
<1>3. QED
  BY <1>1, <1>2, Typed, PTL DEF Spec

(* Nothing that tcp_to_websocket has read is lost before it ends.          *)
THEOREM ReadsKept == Spec => []NothingDropped
<1>1. TypeOK /\ GivenInOrder => NothingDropped
  <2> SUFFICES ASSUME TypeOK, GivenInOrder, down_at # "ended"
               PROVE  given \o data = SubSeq(stream, 1, taken)
    BY DEF NothingDropped
  <2>1. /\ given \in Seq(Chunk) /\ data \in Seq(Chunk) /\ stream \in Seq(Chunk)
        /\ Len(given) \in Nat /\ Len(data) \in Nat /\ taken \in Nat /\ taken <= Len(stream)
    BY DEF TypeOK
  <2>2. Len(given) + Len(data) = taken
    BY DEF GivenInOrder
  <2>3. /\ given \o data \in Seq(Chunk) /\ Len(given \o data) = taken
        /\ \A i \in 1 .. taken : (given \o data)[i] = IF i <= Len(given) THEN given[i] ELSE data[i - Len(given)]
    BY <2>1, <2>2, ConcatProperties
  <2>4. /\ SubSeq(stream, 1, taken) \in Seq(Chunk) /\ Len(SubSeq(stream, 1, taken)) = taken
        /\ \A i \in 1 .. taken : SubSeq(stream, 1, taken)[i] = stream[i]
    BY <2>1
  <2>5. ASSUME NEW i \in 1 .. taken PROVE (given \o data)[i] = stream[i]
    <3>1. CASE i <= Len(given)
      <4>1. i \in 1 .. Len(given)
        BY <2>1, <3>1
      <4>2. given[i] = stream[i]
        BY <4>1 DEF GivenInOrder, Starts
      <4>3. QED
        BY <2>3, <3>1, <4>2
    <3>2. CASE i > Len(given)
      <4>1. i - Len(given) \in 1 .. Len(data) /\ Len(given) + (i - Len(given)) = i
        BY <2>1, <2>2, <3>2
      <4>2. data[i - Len(given)] = stream[i]
        BY <4>1 DEF GivenInOrder
      <4>3. QED
        BY <2>1, <2>3, <3>2, <4>2
    <3>3. i <= Len(given) \/ i > Len(given)
      BY <2>1
    <3>4. QED
      BY <3>1, <3>2, <3>3
  <2>6. QED
    BY <2>3, <2>4, <2>5, SeqEqual
<1>2. QED
  BY <1>1, Typed, GivenKept, PTL

(* The direction to the page is a pipe: what the server sends is given in  *)
(* its order, each chunk once, however the reads cut it (tcp_to_websocket).*)
THEOREM OrderDown == Spec => SentArrivesInOrder
<1>1. Init => DownPipe!Init
  BY DEF Init, DownPipe!Init
<1>2. ASSUME TypeOK, GivenInOrder, GivenInOrder', TypeOK', [Next]_vars
      PROVE  [DownPipe!Put \/ DownPipe!Take]_<<stream, given>>
  <2>1. ASSUME NEW e \in Chunk, stream' = Append(stream, e), given' = given
        PROVE  DownPipe!Put
    <3>1. stream \in Seq(Chunk) /\ <<e>> \in Seq(Chunk) /\ <<e>> # <<>>
      BY <1>2 DEF TypeOK
    <3>2. stream' = stream \o <<e>>
      BY <2>1, <3>1
    <3>3. DownPipe!IsStrictPrefix(stream, stream')
      BY <3>1, <3>2, GrowsStrictly
    <3>4. QED
      BY <2>1, <3>3 DEF DownPipe!Put
  <2>2. ASSUME NEW h \in Handler, SendLength(h) PROVE DownPipe!Put
    <3>1. [of |-> begun + 1, part |-> "length"] \in Chunk
      BY <1>2, <2>2, BoundAssumption DEF SendLength, TypeOK, Chunk
    <3>2. QED
      BY <2>1, <2>2, <3>1 DEF SendLength, down
  <2>3. ASSUME NEW h \in Handler, SendText(h) PROVE DownPipe!Put
    <3>1. sending[h] \in 1 .. MaxDown
      BY <1>2, <2>3, BoundAssumption DEF SendText, TypeOK
    <3>2. [of |-> sending[h], part |-> "text"] \in Chunk
      BY <3>1 DEF Chunk
    <3>3. QED
      BY <2>1, <2>3, <3>2 DEF SendText, down
  <2>4. CASE Give /\ given' # given
    <3>1. given' = given \o data /\ stream' = stream /\ down_at = "send"
      BY <2>4 DEF Give, server
    <3>2. given \in Seq(Chunk) /\ data \in Seq(Chunk) /\ data # <<>> /\ stream \in Seq(Chunk)
      BY <1>2, <3>1 DEF TypeOK
    <3>3. DownPipe!IsStrictPrefix(given, given')
      BY <3>1, <3>2, GrowsStrictly
    <3>4. given' \in Seq(Chunk) /\ Starts(given', stream)
      BY <1>2, <3>1, <3>2, ConcatProperties DEF GivenInOrder
    <3>5. DownPipe!IsPrefix(given', stream)
      BY <3>2, <3>4, StartsIsPrefix
    <3>6. QED
      BY <3>1, <3>3, <3>5 DEF DownPipe!Take
  <2>5. CASE UNCHANGED <<stream, given>>
    BY <2>5
  <2>6. QED
    BY <1>2, <2>2, <2>3, <2>4, <2>5 DEF Next, Loops, Ends, vars, page, server, up, down, PageSends, PageCloses,
       ServerCloses, Connect, ConnectFails, Forward, Drain, PageGone, Read, ServerGone, Give, CleanUp
<1>3. QED
  BY <1>1, <1>2, Typed, GivenKept, PTL DEF Spec, SentArrivesInOrder, DownPipe!Spec
=============================================================================
