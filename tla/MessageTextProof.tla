-------------------------- MODULE MessageTextProof --------------------------
(***************************************************************************)
(* Proofs about MessageText, for every alphabet and texts of every length. *)
(*                                                                         *)
(* split_string, JsSplit and Join are recursive functions; that they exist *)
(* and what they return is shown by looking at the smallest case that      *)
(* would fail.                                                             *)
(***************************************************************************)
EXTENDS MessageText, SequenceTheorems, WellFoundedInduction, TLAPS

-----------------------------------------------------------------------------
Less == {pair \in Nat \X Nat : pair[1] < pair[2]}

LEMMA Smallest ==
  ASSUME NEW T \in SUBSET Nat, T # {} PROVE \E m \in T : \A k \in T : m <= k
<1>1. IsWellFoundedOn(Less, Nat)
  BY NatLessThanWellFounded DEF OpToRel, Less
<1>2. \E m \in T : \A k \in T : ~ (<<k, m>> \in Less)
  BY <1>1, WFMin
<1>3. ASSUME NEW m \in T, NEW k \in T, <<k, m>> \notin Less PROVE m <= k
  <2>1. m \in Nat /\ k \in Nat /\ <<k, m>> \in Nat \X Nat
    OBVIOUS
  <2>2. ~ (k < m)
    BY <1>3, <2>1 DEF Less
  <2>3. QED
    BY <2>1, <2>2
<1>4. QED
  BY <1>2, <1>3

(* A set of numbers that holds 0 and with each number the next one below a *)
(* bound holds all of them.                                                *)
LEMMA AllUpTo ==
  ASSUME NEW n \in Nat, NEW P, 0 \in P, \A k \in 0 .. n - 1 : k \in P => k + 1 \in P
  PROVE  \A k \in 0 .. n : k \in P
<1> DEFINE T == {k \in 0 .. n : k \notin P}
<1>1. SUFFICES ASSUME T # {} PROVE FALSE
  OBVIOUS
<1>2. PICK m \in T : \A k \in T : m <= k
  <2>1. T \in SUBSET Nat
    OBVIOUS
  <2>2. QED
    BY <1>1, <2>1, Smallest
<1>3. m \in 1 .. n
  BY <1>2
<1>4. m - 1 \in 0 .. n - 1 /\ m - 1 \notin T /\ (m - 1) + 1 = m
  BY <1>2, <1>3
<1>5. m - 1 \in P
  BY <1>4
<1>6. QED
  BY <1>2, <1>4, <1>5

-----------------------------------------------------------------------------
(* Where the next delimiter is.                                            *)
LEMMA NextOfFound ==
  ASSUME NEW S, NEW s \in Seq(S), NEW d, NEW i \in 1 .. Len(s) + 1
  PROVE  /\ NextOf(s, d, i) \in i .. Len(s) + 1
         /\ NextOf(s, d, i) = Len(s) + 1 \/ s[NextOf(s, d, i)] = d
         /\ \A k \in i .. NextOf(s, d, i) - 1 : s[k] # d
<1>0. Len(s) \in Nat
  BY LenProperties
<1> DEFINE T == {j \in i .. Len(s) + 1 : j = Len(s) + 1 \/ s[j] = d}
<1>1. T \in SUBSET Nat /\ Len(s) + 1 \in T
  BY <1>0
<1>2. PICK m \in T : \A k \in T : m <= k
  BY <1>1, Smallest
<1>3. \A k \in i .. m - 1 : s[k] # d
  <2>1. ASSUME NEW k \in i .. m - 1, s[k] = d PROVE FALSE
    <3>1. k \in T /\ ~(m <= k)
      BY <1>0, <1>2, <2>1
    <3>2. QED
      BY <1>2, <3>1
  <2>2. QED
    BY <2>1
<1>4. \E j \in i .. Len(s) + 1 : /\ j = Len(s) + 1 \/ s[j] = d
                                 /\ \A k \in i .. j - 1 : s[k] # d
  BY <1>2, <1>3
<1>5. QED
  BY <1>4 DEF NextOf

(* The fields from each position on: split_string and JsSplit differ in    *)
(* what they give for the end of the text.                                 *)
Fields(s, d, last, from) ==
    from = [i \in 1 .. Len(s) + 1 |->
              IF i > Len(s) THEN last
              ELSE <<SubSeq(s, i, NextOf(s, d, i) - 1)>> \o
                     IF NextOf(s, d, i) > Len(s) THEN <<>> ELSE from[NextOf(s, d, i) + 1]]

LEMMA FieldsExist ==
  ASSUME NEW S, NEW s \in Seq(S), NEW d, NEW last PROVE \E from : Fields(s, d, last, from)
<1> DEFINE L == Len(s)
           Next1(i) == NextOf(s, d, i)
           Body(g, i) == IF i > L THEN last
                         ELSE <<SubSeq(s, i, Next1(i) - 1)>> \o IF Next1(i) > L THEN <<>> ELSE g[Next1(i) + 1]
           Dom(n) == L + 1 - n .. L + 1
           P == {n \in 0 .. L : \E g : g = [i \in Dom(n) |-> Body(g, i)]}
<1>1. L \in Nat
  BY LenProperties
<1>2. \A i \in 1 .. L + 1 : Next1(i) \in i .. L + 1
  BY NextOfFound
<1>3. 0 \in P
  <2>1. Dom(0) = {L + 1}
    BY <1>1
  <2> DEFINE g == [i \in Dom(0) |-> last]
  <2>2. \A i \in Dom(0) : Body(g, i) = last
    BY <1>1, <2>1
  <2>3. g = [i \in Dom(0) |-> Body(g, i)]
    BY <2>2
  <2> HIDE DEF g, Body
  <2>4. \E h : h = [i \in Dom(0) |-> Body(h, i)]
    BY <2>3
  <2>5. QED
    BY <1>1, <2>4
<1>4. ASSUME NEW n \in 0 .. L - 1, n \in P PROVE n + 1 \in P
  <2>1. PICK g : g = [i \in Dom(n) |-> Body(g, i)]
    BY <1>4
  <2> DEFINE h == [i \in Dom(n + 1) |-> IF i \in Dom(n) THEN g[i] ELSE Body(g, i)]
  <2>2. Dom(n + 1) = {L - n} \cup Dom(n) /\ L - n \in 1 .. L /\ L - n \notin Dom(n)
    BY <1>1
  <2>3. \A i \in Dom(n) : h[i] = g[i]
    BY <2>2
  <2>4. ASSUME NEW i \in Dom(n + 1) PROVE Body(h, i) = Body(g, i)
    <3>1. CASE i > L
      BY <3>1
    <3>2. CASE ~ (i > L) /\ Next1(i) > L
      <4> HIDE DEF h, Next1
      <4>1. QED
        BY <3>2
    <3>3. CASE ~ (i > L) /\ ~ (Next1(i) > L)
      <4>1. i \in 1 .. L /\ i >= L - n
        BY <1>1, <2>2, <3>3
      <4>2. Next1(i) + 1 \in Dom(n)
        BY <1>1, <1>2, <3>3, <4>1
      <4>3. h[Next1(i) + 1] = g[Next1(i) + 1]
        BY <2>3, <4>2
      <4> HIDE DEF h, Next1
      <4>4. QED
        BY <3>3, <4>3
    <3>4. QED
      BY <3>1, <3>2, <3>3
  <2>5. \A i \in Dom(n + 1) : h[i] = Body(h, i)
    <3>1. \A i \in Dom(n) : g[i] = Body(g, i)
      BY <2>1
    <3>2. \A i \in Dom(n + 1) : h[i] = Body(g, i)
      BY <3>1
    <3>3. QED
      BY <2>4, <3>2
  <2>6. h = [i \in Dom(n + 1) |-> Body(h, i)]
    BY <2>5
  <2> HIDE DEF h, Body
  <2>7. QED
    BY <1>1, <2>6
<1>5. L \in P
  <2> HIDE DEF P
  <2>1. \A k \in 0 .. L : k \in P
    BY <1>1, <1>3, <1>4, AllUpTo
  <2>2. QED
    BY <1>1, <2>1
<1>6. Dom(L) = 1 .. L + 1
  BY <1>1
<1>7. PICK g : g = [i \in 1 .. L + 1 |-> Body(g, i)]
  BY <1>5, <1>6
<1>8. Fields(s, d, last, g)
  BY <1>7 DEF Fields
<1>9. QED
  BY <1>8

LEMMA FieldsUnfold ==
  ASSUME NEW S, NEW s \in Seq(S), NEW d, NEW last, NEW from, Fields(s, d, last, from)
  PROVE  /\ from[Len(s) + 1] = last
         /\ \A i \in 1 .. Len(s) :
               from[i] = <<SubSeq(s, i, NextOf(s, d, i) - 1)>> \o
                           IF NextOf(s, d, i) > Len(s) THEN <<>> ELSE from[NextOf(s, d, i) + 1]
<1> DEFINE Body(i) == IF i > Len(s) THEN last
                      ELSE <<SubSeq(s, i, NextOf(s, d, i) - 1)>> \o
                             IF NextOf(s, d, i) > Len(s) THEN <<>> ELSE from[NextOf(s, d, i) + 1]
<1>1. Len(s) \in Nat
  BY LenProperties
<1>2. from = [i \in 1 .. Len(s) + 1 |-> Body(i)]
  BY DEF Fields
<1> HIDE DEF Body
<1>3. \A i \in 1 .. Len(s) + 1 : from[i] = Body(i)
  BY <1>2
<1>4. ASSUME NEW i \in 1 .. Len(s) PROVE from[i] = Body(i) /\ ~ (i > Len(s))
  BY <1>1, <1>3
<1>5. from[Len(s) + 1] = Body(Len(s) + 1) /\ Len(s) + 1 > Len(s)
  BY <1>1, <1>3
<1>6. QED
  BY <1>4, <1>5 DEF Body

LEMMA SplitFields ==
  ASSUME NEW S, NEW s \in Seq(S), NEW d
  PROVE  \E from : Fields(s, d, <<>>, from) /\ split_string(s, d) = from[1]
<1> DEFINE from == CHOOSE g : Fields(s, d, <<>>, g)
<1>1. Fields(s, d, <<>>, from)
  BY FieldsExist
<1>2. split_string(s, d) = from[1]
  BY DEF split_string, Fields
<1>3. QED
  BY <1>1, <1>2

LEMMA JsSplitFields ==
  ASSUME NEW S, NEW s \in Seq(S), NEW d
  PROVE  \E from : Fields(s, d, << <<>> >>, from) /\ JsSplit(s, d) = from[1]
<1> DEFINE L == Len(s)
           Next1(i) == NextOf(s, d, i)
           Body(g, i) == <<SubSeq(s, i, Next1(i) - 1)>> \o IF Next1(i) > L THEN <<>> ELSE g[Next1(i) + 1]
           from == CHOOSE g : g = [i \in 1 .. L + 1 |-> Body(g, i)]
<1>1. L \in Nat
  BY LenProperties
<1>2. \A g : Body(g, L + 1) = << <<>> >>
  <2>1. Next1(L + 1) = L + 1
    BY <1>1, NextOfFound
  <2>2. SubSeq(s, L + 1, L) = <<>>
    BY <1>1, SubSeqEmpty
  <2>3. << <<>> >> \o <<>> = << <<>> >>
    <3>1. << <<>> >> \in Seq(Seq(S))
      OBVIOUS
    <3>2. QED
      BY <3>1, ConcatEmptySeq
  <2>4. Next1(L + 1) > L /\ Next1(L + 1) - 1 = L
    BY <1>1, <2>1
  <2> HIDE DEF L, Next1
  <2>5. SUFFICES ASSUME NEW g PROVE Body(g, L + 1) = << <<>> >>
    OBVIOUS
  <2>6. Body(g, L + 1) = <<SubSeq(s, L + 1, L)>> \o <<>>
    BY <2>4
  <2>7. QED
    BY <2>2, <2>3, <2>6
<1>3. ASSUME NEW g PROVE Fields(s, d, << <<>> >>, g) <=> g = [i \in 1 .. L + 1 |-> Body(g, i)]
  <2> DEFINE Body2(i) == IF i > L THEN << <<>> >> ELSE Body(g, i)
  <2>1. ASSUME NEW i \in 1 .. L + 1 PROVE Body2(i) = Body(g, i)
    <3>1. CASE i > L
      <4>1. i = L + 1
        BY <1>1, <3>1
      <4> HIDE DEF Body
      <4>2. QED
        BY <1>2, <3>1, <4>1
    <3>2. CASE ~ (i > L)
      BY <3>2
    <3>3. QED
      BY <3>1, <3>2
  <2>2. Fields(s, d, << <<>> >>, g) <=> g = [i \in 1 .. L + 1 |-> Body2(i)]
    BY DEF Fields
  <2> HIDE DEF Body, Body2
  <2>3. [i \in 1 .. L + 1 |-> Body2(i)] = [i \in 1 .. L + 1 |-> Body(g, i)]
    BY <2>1
  <2>4. QED
    BY <2>2, <2>3
<1>4. JsSplit(s, d) = from[1]
  BY DEF JsSplit
<1>5. Fields(s, d, << <<>> >>, from)
  <2> HIDE DEF Body
  <2>1. \E g : Fields(s, d, << <<>> >>, g)
    BY FieldsExist
  <2>2. from = [i \in 1 .. L + 1 |-> Body(from, i)]
    BY <1>3, <2>1
  <2> HIDE DEF from
  <2>3. QED
    BY <1>3, <2>2
<1>6. QED
  BY <1>4, <1>5
-----------------------------------------------------------------------------
(* Join: the fields up to each position, and what one more in front adds.  *)
LEMMA JoinFrom ==
  ASSUME NEW S, NEW d \in S, NEW F \in Seq(Seq(S))
  PROVE  \E upTo : /\ Join(F, d) = upTo[Len(F)]
                   /\ upTo[0] = <<>>
                   /\ F # <<>> => upTo[1] = F[1]
                   /\ \A i \in 1 .. Len(F) - 1 : upTo[i + 1] = upTo[i] \o <<d>> \o F[i + 1]
                   /\ \A i \in 0 .. Len(F) : upTo[i] \in Seq(S)
<1> DEFINE L == Len(F)
           Body(g, i) == IF i = 0 THEN <<>> ELSE g[i - 1] \o (IF i = 1 THEN <<>> ELSE <<d>>) \o F[i]
           P == {n \in 0 .. L : \E g : g = [i \in 0 .. n |-> Body(g, i)]}
<1>1. L \in Nat
  BY LenProperties
<1>2. 0 \in P
  <2> DEFINE g == [i \in 0 .. 0 |-> <<>>]
  <2>1. \A i \in 0 .. 0 : Body(g, i) = <<>>
    OBVIOUS
  <2>2. g = [i \in 0 .. 0 |-> Body(g, i)]
    BY <2>1
  <2> HIDE DEF g, Body
  <2>3. \E h : h = [i \in 0 .. 0 |-> Body(h, i)]
    BY <2>2
  <2>4. QED
    BY <1>1, <2>3
<1>3. ASSUME NEW n \in 0 .. L - 1, n \in P PROVE n + 1 \in P
  <2>1. PICK g : g = [i \in 0 .. n |-> Body(g, i)]
    BY <1>3
  <2> DEFINE h == [i \in 0 .. n + 1 |-> IF i \in 0 .. n THEN g[i] ELSE Body(g, i)]
  <2>2. \A i \in 0 .. n : h[i] = g[i]
    BY <1>1
  <2>3. ASSUME NEW i \in 0 .. n + 1 PROVE Body(h, i) = Body(g, i)
    <3>1. CASE i = 0
      BY <3>1
    <3>2. CASE i # 0
      <4>1. i - 1 \in 0 .. n
        BY <1>1, <3>2
      <4>2. h[i - 1] = g[i - 1]
        BY <2>2, <4>1
      <4> HIDE DEF h
      <4>3. QED
        BY <3>2, <4>2
    <3>3. QED
      BY <3>1, <3>2
  <2>4. \A i \in 0 .. n + 1 : h[i] = Body(h, i)
    <3>1. \A i \in 0 .. n : g[i] = Body(g, i)
      BY <2>1
    <3>2. \A i \in 0 .. n + 1 : h[i] = Body(g, i)
      BY <3>1
    <3>3. QED
      BY <2>3, <3>2
  <2>5. h = [i \in 0 .. n + 1 |-> Body(h, i)]
    BY <2>4
  <2> HIDE DEF h, Body
  <2>6. QED
    BY <1>1, <2>5
<1>4. L \in P
  <2> HIDE DEF P
  <2>1. \A k \in 0 .. L : k \in P
    BY <1>1, <1>2, <1>3, AllUpTo
  <2>2. QED
    BY <1>1, <2>1
<1> DEFINE u == CHOOSE g : g = [i \in 0 .. L |-> Body(g, i)]
<1>5. u = [i \in 0 .. L |-> Body(u, i)]
  <2>1. \E g : g = [i \in 0 .. L |-> Body(g, i)]
    BY <1>4
  <2> HIDE DEF Body
  <2>2. QED
    BY <2>1
<1>6. Join(F, d) = u[L]
  BY DEF Join
<1> HIDE DEF u
<1>7. \A i \in 0 .. L : u[i] = Body(u, i)
  <2> HIDE DEF Body
  <2>1. QED
    BY <1>5
<1>8. u[0] = <<>>
  <2>1. 0 \in 0 .. L
    BY <1>1
  <2>2. QED
    BY <1>7, <2>1
<1>9. F # <<>> => u[1] = F[1] /\ 1 \in 1 .. L
  <2>1. SUFFICES ASSUME F # <<>> PROVE u[1] = F[1] /\ 1 \in 1 .. L
    OBVIOUS
  <2>2. 1 \in 1 .. L /\ 1 \in 0 .. L /\ 1 - 1 = 0
    BY <1>1, <2>1, EmptySeq
  <2>3. F[1] \in Seq(S)
    BY <2>2, ElementOfSeq
  <2>4. u[1] = u[0] \o <<>> \o F[1]
    <3>1. Body(u, 1) = u[1 - 1] \o <<>> \o F[1]
      OBVIOUS
    <3>3. u[1] = Body(u, 1)
      BY <1>7, <2>2
    <3> HIDE DEF Body
    <3>2. QED
      BY <2>2, <3>1, <3>3
  <2>5. <<>> \o <<>> = <<>> /\ <<>> \o F[1] = F[1]
    BY <2>3, ConcatEmptySeq, EmptySeq
  <2>6. QED
    BY <1>8, <2>2, <2>4, <2>5
<1>10. ASSUME NEW i \in 1 .. L - 1 PROVE u[i + 1] = u[i] \o <<d>> \o F[i + 1]
  <2>1. i + 1 \in 0 .. L /\ i + 1 # 0 /\ i + 1 # 1 /\ (i + 1) - 1 = i
    BY <1>1
  <2>2. u[i + 1] = Body(u, i + 1)
    BY <1>7, <2>1
  <2>3. u[i + 1] = u[(i + 1) - 1] \o <<d>> \o F[i + 1]
    BY <2>1, <2>2
  <2>4. QED
    BY <2>1, <2>3
<1> DEFINE Q == {i \in 0 .. L : u[i] \in Seq(S)}
<1>11. 0 \in Q
  <2>1. <<>> \in Seq(S)
    OBVIOUS
  <2>2. u[0] \in Seq(S) /\ 0 \in 0 .. L
    BY <1>1, <1>8, <2>1
  <2>3. QED
    BY <2>2
<1>12. ASSUME NEW n \in 0 .. L - 1, n \in Q PROVE n + 1 \in Q
  <2>1. n + 1 \in 1 .. L /\ u[n] \in Seq(S) /\ <<d>> \in Seq(S)
    BY <1>1, <1>12
  <2>2. F[n + 1] \in Seq(S)
    BY <2>1, ElementOfSeq
  <2>3. CASE n = 0
    BY <1>1, <1>9, <2>1, <2>2, <2>3, EmptySeq
  <2>4. CASE n # 0
    <3>0. n \in 1 .. L - 1
      BY <1>1, <2>4
    <3>1. u[n + 1] = u[n] \o <<d>> \o F[n + 1]
      BY <1>10, <3>0
    <3>2. u[n + 1] \in Seq(S)
      BY <2>1, <2>2, <3>1, ConcatProperties
    <3>3. QED
      BY <1>1, <3>2
  <2>5. QED
    BY <2>3, <2>4
<1>13. \A k \in 0 .. L : k \in Q
  <2> HIDE DEF Q
  <2>1. QED
    BY <1>1, <1>11, <1>12, AllUpTo
<1>14. \A i \in 0 .. L : u[i] \in Seq(S)
  BY <1>13
<1>15. QED
  BY <1>6, <1>8, <1>9, <1>10, <1>14

LEMMA JoinOne ==
  ASSUME NEW S, NEW d \in S, NEW F \in Seq(Seq(S)), Len(F) = 1 PROVE Join(F, d) = F[1]
<1>1. F # <<>>
  BY EmptySeq
<1>2. PICK u : /\ Join(F, d) = u[Len(F)]
               /\ u[0] = <<>>
               /\ F # <<>> => u[1] = F[1]
               /\ \A i \in 1 .. Len(F) - 1 : u[i + 1] = u[i] \o <<d>> \o F[i + 1]
               /\ \A i \in 0 .. Len(F) : u[i] \in Seq(S)
  BY JoinFrom
<1>3. QED
  BY <1>1, <1>2

LEMMA JoinCons ==
  ASSUME NEW S, NEW d \in S, NEW x \in Seq(S), NEW F \in Seq(Seq(S)), F # <<>>
  PROVE  Join(<<x>> \o F, d) = x \o <<d>> \o Join(F, d)
<1> DEFINE G == <<x>> \o F
           L == Len(F)
<1>0. L \in Nat \ {0}
  BY EmptySeq
<1>1. /\ G \in Seq(Seq(S)) /\ G # <<>> /\ Len(G) = L + 1
      /\ G[1] = x /\ \A k \in 1 .. L : G[k + 1] = F[k]
  <2>1. <<x>> \in Seq(Seq(S)) /\ Len(<<x>>) = 1 /\ <<x>>[1] = x
    OBVIOUS
  <2>2. /\ G \in Seq(Seq(S)) /\ Len(G) = 1 + L
        /\ \A i \in 1 .. 1 + L : G[i] = IF i <= 1 THEN <<x>>[i] ELSE F[i - 1]
    BY <2>1, ConcatProperties
  <2> HIDE DEF G
  <2>3. QED
    BY <1>0, <2>1, <2>2, EmptySeq
<1> HIDE DEF G
<1>2. PICK u : /\ Join(F, d) = u[L]
               /\ u[0] = <<>>
               /\ F # <<>> => u[1] = F[1]
               /\ \A i \in 1 .. L - 1 : u[i + 1] = u[i] \o <<d>> \o F[i + 1]
               /\ \A i \in 0 .. L : u[i] \in Seq(S)
  BY JoinFrom
<1>3. PICK v : /\ Join(G, d) = v[Len(G)]
               /\ v[0] = <<>>
               /\ G # <<>> => v[1] = G[1]
               /\ \A i \in 1 .. Len(G) - 1 : v[i + 1] = v[i] \o <<d>> \o G[i + 1]
               /\ \A i \in 0 .. Len(G) : v[i] \in Seq(S)
  BY <1>1, JoinFrom
<1> DEFINE D == <<d>>
<1>4. D \in Seq(S)
  OBVIOUS
<1>5. \A i \in 1 .. L - 1 : u[i + 1] = u[i] \o D \o F[i + 1]
  BY <1>2
<1>6. ASSUME NEW i \in 1 .. L PROVE v[i + 1] = v[i] \o D \o F[i]
  <2>1. i \in 1 .. Len(G) - 1
    BY <1>0, <1>1
  <2>2. v[i + 1] = v[i] \o <<d>> \o G[i + 1]
    BY <1>3, <2>1
  <2>3. QED
    BY <1>1, <2>2
<1> HIDE DEF D
<1> DEFINE P == {k \in 0 .. L - 1 : v[k + 2] = x \o D \o u[k + 1]}
<1>7. 0 \in P
  <2>1. u[1] = F[1] /\ v[1] = x
    BY <1>1, <1>2, <1>3
  <2>2. 1 \in 1 .. L /\ 1 + 1 = 2 /\ 0 + 1 = 1 /\ 0 + 2 = 2 /\ 0 \in 0 .. L - 1
    BY <1>0
  <2>3. v[2] = x \o D \o u[1]
    BY <1>6, <2>1, <2>2
  <2>4. QED
    BY <2>2, <2>3
<1>8. ASSUME NEW n, n \in 0 .. (L - 1) - 1, n \in P PROVE n + 1 \in P
  <2>1. /\ n + 2 \in 1 .. L /\ n + 1 \in 1 .. L - 1 /\ n + 1 \in 0 .. L
        /\ (n + 2) + 1 = n + 3 /\ (n + 1) + 2 = n + 3 /\ (n + 1) + 1 = n + 2 /\ n + 1 \in 0 .. L - 1
    BY <1>0, <1>8
  <2> DEFINE f == F[n + 2]
             w == u[n + 1]
  <2>2. f \in Seq(S) /\ w \in Seq(S)
    BY <1>2, <2>1, ElementOfSeq
  <2>3. v[n + 3] = v[n + 2] \o D \o f
    BY <1>6, <2>1
  <2>4. u[n + 2] = w \o D \o f
    BY <1>5, <2>1
  <2>5. v[n + 2] = (x \o D) \o w
    BY <1>8
  <2> HIDE DEF f, w
  <2>6. v[n + 3] = (x \o D) \o (w \o D \o f)
    <3> DEFINE xd == x \o D
               wd == w \o D
    <3>1. xd \in Seq(S) /\ wd \in Seq(S)
      BY <1>4, <2>2, ConcatProperties
    <3>2. v[n + 3] = ((xd \o w) \o D) \o f
      BY <2>3, <2>5
    <3> HIDE DEF xd
    <3>3. (xd \o w) \o D = xd \o (w \o D)
      BY ONLY <1>4, <2>2, <3>1, ConcatAssociative
    <3>4. v[n + 3] = (xd \o wd) \o f
      BY <3>2, <3>3
    <3> HIDE DEF wd
    <3>5. (xd \o wd) \o f = xd \o (wd \o f)
      <4>1. xd \in Seq(S)
        BY <3>1
      <4>2. wd \in Seq(S)
        BY <3>1
      <4>3. f \in Seq(S)
        BY <2>2
      <4>4. QED
        BY ONLY <4>1, <4>2, <4>3, ConcatAssociative, SMTT(60)
    <3>6. QED
      BY <3>4, <3>5 DEF xd, wd
  <2>7. v[n + 3] = x \o D \o u[n + 2]
    BY <2>4, <2>6
  <2>8. QED
    BY <2>1, <2>7
<1>9. L - 1 \in P
  <2> HIDE DEF P
  <2>1. L - 1 \in Nat
    BY <1>0
  <2>2. \A k \in 0 .. L - 1 : k \in P
    BY <1>7, <1>8, <2>1, AllUpTo
  <2>3. QED
    BY <2>1, <2>2
<1>10. (L - 1) + 2 = Len(G) /\ (L - 1) + 1 = L
  BY <1>0, <1>1
<1>11. QED
  BY <1>2, <1>3, <1>9, <1>10 DEF G, D
LEMMA JoinNone ==
  ASSUME NEW S, NEW d \in S PROVE Join(<<>>, d) = <<>>
<1> DEFINE F == <<>>
<1>1. F \in Seq(Seq(S)) /\ Len(F) = 0
  OBVIOUS
<1> HIDE DEF F
<1>2. PICK u : /\ Join(F, d) = u[Len(F)]
               /\ u[0] = <<>>
               /\ F # <<>> => u[1] = F[1]
               /\ \A i \in 1 .. Len(F) - 1 : u[i + 1] = u[i] \o <<d>> \o F[i + 1]
               /\ \A i \in 0 .. Len(F) : u[i] \in Seq(S)
  BY <1>1, JoinFrom
<1>3. QED
  BY <1>1, <1>2 DEF F

LEMMA JoinIsSeq ==
  ASSUME NEW S, NEW d \in S, NEW F \in Seq(Seq(S)) PROVE Join(F, d) \in Seq(S)
<1>1. PICK u : /\ Join(F, d) = u[Len(F)]
               /\ u[0] = <<>>
               /\ F # <<>> => u[1] = F[1]
               /\ \A i \in 1 .. Len(F) - 1 : u[i + 1] = u[i] \o <<d>> \o F[i + 1]
               /\ \A i \in 0 .. Len(F) : u[i] \in Seq(S)
  BY JoinFrom
<1>2. Len(F) \in 0 .. Len(F)
  BY LenProperties
<1>3. QED
  BY <1>1, <1>2

-----------------------------------------------------------------------------
(* What is cut out of a text.                                              *)
LEMMA SubSeqIsSeq ==
  ASSUME NEW S, NEW s \in Seq(S), NEW i \in 1 .. Len(s) + 1, NEW j \in i - 1 .. Len(s)
  PROVE  /\ SubSeq(s, i, j) \in Seq(S)
         /\ Len(SubSeq(s, i, j)) = j - i + 1
         /\ \A k \in 1 .. j - i + 1 : SubSeq(s, i, j)[k] = s[i + k - 1]
<1>1. Len(s) \in Nat
  BY LenProperties
<1>2. \A k \in i .. j : s[k] \in S
  BY <1>1, ElementOfSeq
<1>3. i \in Int /\ j \in Int /\ (i <= j \/ j - i + 1 = 0)
  BY <1>1
<1>4. /\ SubSeq(s, i, j) \in Seq(S)
      /\ Len(SubSeq(s, i, j)) = IF i <= j THEN j - i + 1 ELSE 0
      /\ \A k \in 1 .. j - i + 1 : SubSeq(s, i, j)[k] = s[i + k - 1]
  BY <1>2, <1>3, SubSeqProperties
<1>5. QED
  BY <1>3, <1>4

LEMMA OneField ==
  ASSUME NEW S, NEW s \in Seq(S), NEW d, NEW i \in 1 .. Len(s) + 1
  PROVE  /\ SubSeq(s, i, NextOf(s, d, i) - 1) \in Seq(S)
         /\ ~Contains(SubSeq(s, i, NextOf(s, d, i) - 1), d)
<1> DEFINE j == NextOf(s, d, i)
<1>1. Len(s) \in Nat
  BY LenProperties
<1>2. j \in i .. Len(s) + 1 /\ \A k \in i .. j - 1 : s[k] # d
  BY NextOfFound
<1> HIDE DEF j
<1> DEFINE f == SubSeq(s, i, j - 1)
<1>3. j - 1 \in i - 1 .. Len(s) /\ (j - 1) - i + 1 = j - i
  BY <1>1, <1>2
<1>4. f \in Seq(S) /\ Len(f) = j - i /\ \A k \in 1 .. j - i : f[k] = s[i + k - 1]
  BY <1>3, SubSeqIsSeq
<1> HIDE DEF f
<1>5. ASSUME NEW k \in 1 .. Len(f) PROVE f[k] # d
  <2>1. k \in 1 .. j - i /\ i + k - 1 \in i .. j - 1
    BY <1>1, <1>2, <1>4
  <2>2. QED
    BY <1>2, <1>4, <2>1
<1>6. QED
  BY <1>4, <1>5 DEF Contains, f, j

LEMMA CutAt ==
  ASSUME NEW S, NEW s \in Seq(S), NEW i \in 1 .. Len(s), NEW j \in i .. Len(s)
  PROVE  SubSeq(s, i, Len(s)) = SubSeq(s, i, j - 1) \o <<s[j]>> \o SubSeq(s, j + 1, Len(s))
<1>1. Len(s) \in Nat
  BY LenProperties
<1>2. SubSeq(s, i, j) \o SubSeq(s, j + 1, Len(s)) = SubSeq(s, i, Len(s))
  <2>1. i \in 1 .. Len(s) + 1 /\ j \in i - 1 .. Len(s) /\ Len(s) \in j .. Len(s)
    BY <1>1
  <2>2. QED
    BY <2>1, ConcatAdjacentSubSeq
<1>3. SubSeq(s, i, j) = SubSeq(s, i, j - 1) \o <<s[j]>>
  BY SubSeqRecursiveSecond
<1>4. QED
  BY <1>2, <1>3

-----------------------------------------------------------------------------
(* F is what is cut out of s from position i on.                           *)
Meant(S, s, d, last, F, i) ==
    /\ F \in Seq(Seq(S))
    /\ \A k \in 1 .. Len(F) : ~Contains(F[k], d)
    /\ F = <<>> => i = Len(s) + 1 /\ last = <<>>
    /\ \/ SubSeq(s, i, Len(s)) = Join(F, d)
       \/ last = <<>> /\ SubSeq(s, i, Len(s)) = Join(F, d) \o <<d>>

LEMMA MeantAtEnd ==
  ASSUME NEW S, NEW s \in Seq(S), NEW d \in S, NEW last \in {<<>>, << <<>> >>}
  PROVE  Meant(S, s, d, last, last, Len(s) + 1)
<1>1. Len(s) \in Nat
  BY LenProperties
<1>2. SubSeq(s, Len(s) + 1, Len(s)) = <<>>
  BY <1>1, SubSeqEmpty
<1>3. CASE last = <<>>
  <2>1. Join(last, d) = <<>>
    BY <1>3, JoinNone
  <2>2. last \in Seq(Seq(S)) /\ Len(last) = 0
    BY <1>3
  <2>3. \A k \in 1 .. Len(last) : ~Contains(last[k], d)
    BY <2>2
  <2>4. SubSeq(s, Len(s) + 1, Len(s)) = Join(last, d)
    BY <1>2, <2>1
  <2>5. QED
    BY <1>3, <2>2, <2>3, <2>4 DEF Meant
<1>4. CASE last = << <<>> >>
  <2>1. last \in Seq(Seq(S)) /\ Len(last) = 1 /\ last[1] = <<>> /\ Len(<<>>) = 0 /\ last # <<>>
    BY <1>4
  <2>2. Join(last, d) = <<>>
    BY <2>1, JoinOne
  <2>3. \A k \in 1 .. Len(last) : ~Contains(last[k], d)
    BY <2>1 DEF Contains
  <2>4. QED
    BY <1>2, <2>1, <2>2, <2>3 DEF Meant
<1>5. QED
  BY <1>3, <1>4

(* A field with no delimiter after it.                                     *)
LEMMA MeantLast ==
  ASSUME NEW S, NEW s \in Seq(S), NEW d \in S, NEW last, NEW i \in 1 .. Len(s),
         NextOf(s, d, i) > Len(s)
  PROVE  Meant(S, s, d, last, <<SubSeq(s, i, NextOf(s, d, i) - 1)>>, i)
<1> DEFINE f == SubSeq(s, i, NextOf(s, d, i) - 1)
           F == <<f>>
<1>1. Len(s) \in Nat
  BY LenProperties
<1>2. NextOf(s, d, i) - 1 = Len(s)
  <2>1. NextOf(s, d, i) \in i .. Len(s) + 1
    BY <1>1, NextOfFound
  <2>2. QED
    BY <1>1, <2>1
<1>3. f \in Seq(S) /\ ~Contains(f, d)
  BY <1>1, OneField
<1>4. f = SubSeq(s, i, Len(s))
  BY <1>2
<1> HIDE DEF f
<1>5. F \in Seq(Seq(S)) /\ Len(F) = 1 /\ F[1] = f
  BY <1>3
<1>6. F # <<>>
  BY <1>5
<1> HIDE DEF F
<1>7. Join(F, d) = f
  BY <1>5, JoinOne
<1>8. Meant(S, s, d, last, F, i)
  <2>1. \A k \in 1 .. Len(F) : ~Contains(F[k], d)
    BY <1>3, <1>5
  <2>2. SubSeq(s, i, Len(s)) = Join(F, d)
    BY <1>4, <1>7
  <2>3. QED
    BY <1>5, <1>6, <2>1, <2>2 DEF Meant
<1>9. QED
  BY <1>8 DEF F, f
(* A field with a delimiter after it, and what follows.                    *)
LEMMA MeantCut ==
  ASSUME NEW S, NEW s \in Seq(S), NEW d \in S, NEW last, NEW i \in 1 .. Len(s),
         NextOf(s, d, i) <= Len(s),
         NEW G, Meant(S, s, d, last, G, NextOf(s, d, i) + 1)
  PROVE  Meant(S, s, d, last, <<SubSeq(s, i, NextOf(s, d, i) - 1)>> \o G, i)
<1> DEFINE j == NextOf(s, d, i)
           f == SubSeq(s, i, j - 1)
           F == <<f>> \o G
           t == SubSeq(s, j + 1, Len(s))
           D == <<d>>
<1>1. Len(s) \in Nat
  BY LenProperties
<1>2. j \in i .. Len(s) /\ s[j] = d
  <2>1. j \in i .. Len(s) + 1 /\ (j = Len(s) + 1 \/ s[j] = d)
    BY <1>1, NextOfFound
  <2>2. QED
    BY <1>1, <2>1
<1>3. f \in Seq(S) /\ ~Contains(f, d)
  BY <1>1, OneField
<1>4. SubSeq(s, i, Len(s)) = f \o D \o t
  BY <1>2, CutAt
<1>5. /\ G \in Seq(Seq(S))
      /\ \A k \in 1 .. Len(G) : ~Contains(G[k], d)
      /\ G = <<>> => j + 1 = Len(s) + 1 /\ last = <<>>
      /\ t = Join(G, d) \/ (last = <<>> /\ t = Join(G, d) \o D)
  BY DEF Meant
<1>6. D \in Seq(S)
  OBVIOUS
<1>7. j = Len(s) => t = <<>>
  BY <1>1, SubSeqEmpty
<1> HIDE DEF j, f, t
<1>8. /\ F \in Seq(Seq(S)) /\ F # <<>>
      /\ \A k \in 1 .. Len(F) : ~Contains(F[k], d)
  <2>1. <<f>> \in Seq(Seq(S)) /\ Len(<<f>>) = 1 /\ <<f>>[1] = f
    BY <1>3
  <2>2. Len(G) \in Nat
    BY <1>5, LenProperties
  <2>3. /\ F \in Seq(Seq(S)) /\ Len(F) = 1 + Len(G)
        /\ \A k \in 1 .. 1 + Len(G) : F[k] = IF k <= 1 THEN <<f>>[k] ELSE G[k - 1]
    BY <1>5, <2>1, ConcatProperties
  <2> HIDE DEF F
  <2>4. F # <<>>
    BY <2>2, <2>3, EmptySeq
  <2>5. ASSUME NEW k \in 1 .. Len(F) PROVE ~Contains(F[k], d)
    <3>1. CASE k = 1
      BY <1>3, <2>1, <2>2, <2>3, <3>1
    <3>2. CASE k # 1
      <4>1. k - 1 \in 1 .. Len(G) /\ F[k] = G[k - 1]
        BY <2>2, <2>3, <3>2
      <4>2. QED
        BY <1>5, <4>1
    <3>3. QED
      BY <3>1, <3>2
  <2>6. QED
    BY <2>3, <2>4, <2>5
<1>9. \/ SubSeq(s, i, Len(s)) = Join(F, d)
      \/ last = <<>> /\ SubSeq(s, i, Len(s)) = Join(F, d) \o D
  <2>1. CASE G = <<>>
    <3>1. last = <<>> /\ t = <<>>
      BY <1>1, <1>2, <1>5, <1>7, <2>1
    <3>2. f \o D \o t = f \o D
      <4>1. f \o D \in Seq(S)
        BY <1>3, <1>6, ConcatProperties
      <4>2. QED
        BY <3>1, <4>1, ConcatEmptySeq
    <3>3. F = <<f>> /\ Len(F) = 1 /\ F[1] = f
      <4>1. <<f>> \in Seq(Seq(S)) /\ Len(<<f>>) = 1 /\ <<f>>[1] = f
        BY <1>3
      <4>2. F = <<f>>
        BY <2>1, <4>1, ConcatEmptySeq
      <4>3. QED
        BY <4>1, <4>2
    <3>4. Join(F, d) = f
      BY <1>8, <3>3, JoinOne
    <3>5. QED
      BY <1>4, <3>1, <3>2, <3>4
  <2>2. CASE G # <<>>
    <3>1. Join(F, d) = f \o D \o Join(G, d)
      BY <1>3, <1>5, <2>2, JoinCons
    <3>2. CASE t = Join(G, d)
      BY <1>4, <3>1, <3>2
    <3>3. CASE last = <<>> /\ t = Join(G, d) \o D
      <4> DEFINE fD == f \o D
                 J == Join(G, d)
      <4>1. J \in Seq(S)
        BY <1>5, JoinIsSeq
      <4>2. fD \in Seq(S)
        BY <1>3, <1>6, ConcatProperties
      <4>3. SubSeq(s, i, Len(s)) = fD \o (J \o D) /\ Join(F, d) = fD \o J
        BY <1>4, <3>1, <3>3
      <4> HIDE DEF fD, J, D
      <4>4. fD \o (J \o D) = (fD \o J) \o D
        BY ONLY <1>6, <4>1, <4>2, ConcatAssociative, SMTT(60)
      <4>5. QED
        BY <3>3, <4>3, <4>4 DEF D
    <3>4. QED
      BY <1>5, <3>2, <3>3
  <2>3. QED
    BY <2>1, <2>2
<1> HIDE DEF F
<1>10. Meant(S, s, d, last, F, i)
  BY <1>8, <1>9 DEF Meant
<1>11. QED
  BY <1>10 DEF F, f, j

(* So the fields hold no delimiter and, joined again, are the text.        *)
LEMMA FieldsMeaning ==
  ASSUME NEW S, NEW s \in Seq(S), NEW d \in S, NEW last \in {<<>>, << <<>> >>},
         NEW from, Fields(s, d, last, from)
  PROVE  \A i \in 1 .. Len(s) + 1 : Meant(S, s, d, last, from[i], i)
<1> DEFINE L == Len(s)
           Good(i) == Meant(S, s, d, last, from[i], i)
           P == {n \in 0 .. L : \A i \in L + 1 - n .. L + 1 : Good(i)}
<1>1. L \in Nat
  BY LenProperties
<1>2. /\ from[L + 1] = last
      /\ \A i \in 1 .. L :
            from[i] = <<SubSeq(s, i, NextOf(s, d, i) - 1)>> \o
                        IF NextOf(s, d, i) > L THEN <<>> ELSE from[NextOf(s, d, i) + 1]
  <2>1. Fields(s, d, last, from) /\ s \in Seq(S)
    OBVIOUS
  <2>2. QED
    BY ONLY <2>1, FieldsUnfold, SMTT(60)
<1>3. Good(L + 1)
  BY <1>2, MeantAtEnd
<1>4. 0 \in P
  <2> HIDE DEF Good
  <2>1. \A i \in L + 1 - 0 .. L + 1 : i = L + 1
    BY <1>1
  <2>2. QED
    BY <1>1, <1>3, <2>1
<1>5. ASSUME NEW m \in 1 .. L, \A i \in m + 1 .. L + 1 : Good(i) PROVE Good(m)
  <2> DEFINE j == NextOf(s, d, m)
  <2>1. j \in m .. L + 1
    BY <1>1, NextOfFound
  <2>2. CASE j > L
    <3>1. from[m] = <<SubSeq(s, m, j - 1)>>
      <4> DEFINE f == SubSeq(s, m, j - 1)
      <4>1. from[m] = <<f>> \o <<>>
        BY <1>2, <2>2
      <4>2. f \in Seq(S)
        BY <1>1, OneField
      <4> HIDE DEF f
      <4>3. <<f>> \in Seq(Seq(S))
        BY <4>2
      <4>4. <<f>> \o <<>> = <<f>>
        BY <4>3, ConcatEmptySeq
      <4>5. QED
        BY <4>1, <4>4 DEF f
    <3>2. Meant(S, s, d, last, <<SubSeq(s, m, j - 1)>>, m)
      BY <2>2, MeantLast
    <3>3. QED
      BY <3>1, <3>2
  <2>3. CASE ~ (j > L)
    <3>1. j <= L /\ j + 1 \in m + 1 .. L + 1
      BY <1>1, <2>1, <2>3
    <3>2. Meant(S, s, d, last, from[j + 1], j + 1)
      BY <1>5, <3>1
    <3>3. Meant(S, s, d, last, <<SubSeq(s, m, j - 1)>> \o from[j + 1], m)
      BY <3>1, <3>2, MeantCut
    <3>4. from[m] = <<SubSeq(s, m, j - 1)>> \o from[j + 1]
      BY <1>2, <2>3
    <3>5. QED
      BY <3>3, <3>4
  <2>4. QED
    BY <2>2, <2>3
<1> HIDE DEF Good
<1>6. ASSUME NEW n \in 0 .. L - 1, n \in P PROVE n + 1 \in P
  <2> DEFINE m == L - n
  <2>1. m \in 1 .. L /\ m + 1 = L + 1 - n /\ m = L + 1 - (n + 1) /\ n + 1 \in 0 .. L
    BY <1>1
  <2>2. \A i \in m + 1 .. L + 1 : Good(i)
    BY <1>6, <2>1
  <2>3. Good(m)
    BY <1>5, <2>1, <2>2
  <2>4. \A i \in m .. L + 1 : i = m \/ i \in m + 1 .. L + 1
    BY <1>1, <2>1
  <2>5. \A i \in m .. L + 1 : Good(i)
    BY <2>2, <2>3, <2>4
  <2>6. QED
    BY <2>1, <2>5
<1>7. L \in P
  <2> HIDE DEF P
  <2>1. \A k \in 0 .. L : k \in P
    BY <1>1, <1>4, <1>6, AllUpTo
  <2>2. QED
    BY <1>1, <2>1
<1>8. L + 1 - L = 1
  BY <1>1
<1>9. QED
  BY <1>7, <1>8 DEF Good

(* The first field, and what follows it.                                   *)
LEMMA FirstField ==
  ASSUME NEW S, NEW s \in Seq(S), NEW d \in S, NEW last \in {<<>>, << <<>> >>},
         NEW from, Fields(s, d, last, from), NEW i \in 1 .. Len(s)
  PROVE  /\ from[i] # <<>> /\ from[i][1] = SubSeq(s, i, NextOf(s, d, i) - 1)
         /\ IF NextOf(s, d, i) > Len(s) THEN Len(from[i]) = 1
            ELSE /\ Len(from[i]) = 1 + Len(from[NextOf(s, d, i) + 1])
                 /\ \A k \in 1 .. Len(from[NextOf(s, d, i) + 1]) : from[i][k + 1] = from[NextOf(s, d, i) + 1][k]
<1> DEFINE j == NextOf(s, d, i)
           f == SubSeq(s, i, j - 1)
           G == IF j > Len(s) THEN <<>> ELSE from[j + 1]
<1>1. Len(s) \in Nat
  BY LenProperties
<1>2. from[i] = <<f>> \o G
  BY FieldsUnfold
<1>3. j \in i .. Len(s) + 1
  BY <1>1, NextOfFound
<1>4. G \in Seq(Seq(S))
  <2>1. CASE j > Len(s)
    BY <2>1
  <2>2. CASE ~ (j > Len(s))
    <3>1. j + 1 \in 1 .. Len(s) + 1
      BY <1>1, <1>3, <2>2
    <3>2. Meant(S, s, d, last, from[j + 1], j + 1)
      BY <3>1, FieldsMeaning
    <3>3. from[j + 1] \in Seq(Seq(S))
      BY <3>2 DEF Meant
    <3>4. QED
      BY <2>2, <3>3
  <2>3. QED
    BY <2>1, <2>2
<1>5. f \in Seq(S)
  BY <1>1, OneField
<1> HIDE DEF f, G
<1>6. <<f>> \in Seq(Seq(S)) /\ Len(<<f>>) = 1 /\ <<f>>[1] = f
  BY <1>5
<1>7. Len(G) \in Nat
  BY <1>4, LenProperties
<1>8. /\ from[i] \in Seq(Seq(S)) /\ Len(from[i]) = 1 + Len(G)
      /\ \A k \in 1 .. 1 + Len(G) : from[i][k] = IF k <= 1 THEN <<f>>[k] ELSE G[k - 1]
  BY <1>2, <1>4, <1>6, ConcatProperties
<1>9. from[i] # <<>> /\ from[i][1] = f
  BY <1>6, <1>7, <1>8, EmptySeq
<1>10. ASSUME NEW k \in 1 .. Len(G) PROVE from[i][k + 1] = G[k]
  <2>1. k + 1 \in 1 .. 1 + Len(G) /\ ~ (k + 1 <= 1) /\ (k + 1) - 1 = k
    BY <1>7
  <2>2. QED
    BY <1>8, <2>1
<1>11. CASE j > Len(s)
  <2>1. Len(G) = 0
    BY <1>11 DEF G
  <2>2. QED
    BY <1>8, <1>9, <1>11, <2>1 DEF f
<1>12. CASE ~ (j > Len(s))
  <2>1. G = from[j + 1]
    BY <1>12 DEF G
  <2>2. QED
    BY <1>8, <1>9, <1>10, <1>12, <2>1 DEF f
<1>13. QED
  BY <1>11, <1>12
-----------------------------------------------------------------------------
(* A text of two parts around one character, as a chat line is.            *)
TwoPartsOf(S, s, a, c, b) ==
    /\ s \in Seq(S) /\ a \in Seq(S) /\ b \in Seq(S) /\ c \in S
    /\ Len(s) = Len(a) + 1 + Len(b)
    /\ \A k \in 1 .. Len(a) : s[k] = a[k]
    /\ s[Len(a) + 1] = c
    /\ \A k \in 1 .. Len(b) : s[Len(a) + 1 + k] = b[k]
    /\ SubSeq(s, 1, Len(a)) = a
    /\ SubSeq(s, Len(a) + 2, Len(s)) = b

LEMMA TwoParts ==
  ASSUME NEW S, NEW a \in Seq(S), NEW c \in S, NEW b \in Seq(S), NEW s, s = a \o <<c>> \o b
  PROVE  TwoPartsOf(S, s, a, c, b)
<1> DEFINE ac == a \o <<c>>
<1>1. <<c>> \in Seq(S) /\ Len(<<c>>) = 1 /\ <<c>>[1] = c
  OBVIOUS
<1>2. Len(a) \in Nat /\ Len(b) \in Nat
  BY LenProperties
<1>3. /\ ac \in Seq(S) /\ Len(ac) = Len(a) + 1
      /\ \A k \in 1 .. Len(a) + 1 : ac[k] = IF k <= Len(a) THEN a[k] ELSE <<c>>[k - Len(a)]
  BY <1>1, ConcatProperties
<1> HIDE DEF ac
<1>4. /\ s \in Seq(S) /\ Len(s) = Len(ac) + Len(b)
      /\ \A k \in 1 .. Len(ac) + Len(b) : s[k] = IF k <= Len(ac) THEN ac[k] ELSE b[k - Len(ac)]
  <2>1. s = ac \o b
    BY DEF ac
  <2>2. QED
    BY <1>3, <2>1, ConcatProperties
<1>5. Len(s) = Len(a) + 1 + Len(b)
  BY <1>2, <1>3, <1>4
<1>6. ASSUME NEW k \in 1 .. Len(a) PROVE s[k] = a[k]
  <2>1. k \in 1 .. Len(ac) + Len(b) /\ k <= Len(ac) /\ k \in 1 .. Len(a) + 1 /\ k <= Len(a)
    BY <1>2, <1>3
  <2>2. QED
    BY <1>3, <1>4, <2>1
<1>7. s[Len(a) + 1] = c
  <2> DEFINE k == Len(a) + 1
  <2>1. k \in 1 .. Len(ac) + Len(b) /\ k <= Len(ac) /\ k \in 1 .. Len(a) + 1 /\ ~ (k <= Len(a)) /\ k - Len(a) = 1
    BY <1>2, <1>3
  <2> HIDE DEF k
  <2>2. s[k] = <<c>>[k - Len(a)]
    BY <1>3, <1>4, <2>1
  <2>3. s[k] = <<c>>[1]
    BY <2>1, <2>2
  <2>4. QED
    BY <1>1, <2>3 DEF k
<1>8. ASSUME NEW k \in 1 .. Len(b) PROVE s[Len(a) + 1 + k] = b[k]
  <2> DEFINE m == Len(a) + 1 + k
  <2>1. m \in 1 .. Len(ac) + Len(b) /\ ~ (m <= Len(ac)) /\ m - Len(ac) = k
    BY <1>2, <1>3
  <2> HIDE DEF m
  <2>2. s[m] = b[m - Len(ac)]
    BY <1>4, <2>1
  <2>3. QED
    BY <2>1, <2>2 DEF m
<1>9. SubSeq(s, 1, Len(a)) = a
  <2> DEFINE x == SubSeq(s, 1, Len(a))
  <2>1. 1 \in 1 .. Len(s) + 1 /\ Len(a) \in 1 - 1 .. Len(s) /\ Len(a) - 1 + 1 = Len(a)
    BY <1>2, <1>5
  <2>2. x \in Seq(S) /\ Len(x) = Len(a) /\ \A k \in 1 .. Len(a) : x[k] = s[1 + k - 1]
    BY <1>4, <2>1, SubSeqIsSeq
  <2> HIDE DEF x
  <2>3. \A k \in 1 .. Len(x) : x[k] = a[k]
    BY <1>2, <1>6, <2>2
  <2>4. x = a
    BY <2>2, <2>3, SeqEqual
  <2>5. QED
    BY <2>4 DEF x
<1>10. SubSeq(s, Len(a) + 2, Len(s)) = b
  <2> DEFINE n == Len(s)
             m == Len(a) + 2
             x == SubSeq(s, m, n)
  <2>1. m \in 1 .. Len(s) + 1 /\ n \in m - 1 .. Len(s) /\ n - m + 1 = Len(b)
    BY <1>2, <1>5
  <2> HIDE DEF m, n
  <2>2. x \in Seq(S) /\ Len(x) = Len(b) /\ \A k \in 1 .. Len(b) : x[k] = s[m + k - 1]
    <3>1. x \in Seq(S) /\ Len(x) = n - m + 1 /\ \A k \in 1 .. n - m + 1 : x[k] = s[m + k - 1]
      <4>1. s \in Seq(S)
        BY <1>4
      <4>2. m \in 1 .. Len(s) + 1
        BY <2>1
      <4>3. n \in m - 1 .. Len(s)
        BY <2>1
      <4>4. QED
        BY ONLY <4>1, <4>2, <4>3, SubSeqIsSeq
    <3>2. QED
      BY <2>1, <3>1
  <2> HIDE DEF x
  <2>3. ASSUME NEW k \in 1 .. Len(x) PROVE x[k] = b[k]
    <3>1. m + k - 1 = Len(a) + 1 + k /\ k \in 1 .. Len(b)
      BY <1>2, <2>2 DEF m
    <3>2. QED
      BY <1>8, <2>2, <3>1
  <2>4. x = b
    BY <2>2, <2>3, SeqEqual
  <2>5. QED
    BY <2>4 DEF x, m, n
<1>11. QED
  BY <1>4, <1>5, <1>6, <1>7, <1>8, <1>9, <1>10 DEF TwoPartsOf

(* The first delimiter of such a text, if the first part holds none.       *)
LEMMA FirstAfter ==
  ASSUME NEW S, NEW a, NEW c, NEW b, NEW s, TwoPartsOf(S, s, a, c, b), NEW d, ~Contains(a, d)
  PROVE  IF c = d THEN NextOf(s, d, 1) = Len(a) + 1 ELSE NextOf(s, d, 1) > Len(a) + 1
<1> DEFINE j == NextOf(s, d, 1)
           A == Len(a)
<1>1. A \in Nat /\ Len(b) \in Nat
  BY LenProperties DEF TwoPartsOf
<1>2. /\ s \in Seq(S) /\ Len(s) = A + 1 + Len(b)
      /\ \A k \in 1 .. A : s[k] = a[k]
      /\ s[A + 1] = c
  BY DEF TwoPartsOf
<1>3. /\ j \in 1 .. Len(s) + 1
      /\ j = Len(s) + 1 \/ s[j] = d
      /\ \A k \in 1 .. j - 1 : s[k] # d
  <2>1. 1 \in 1 .. Len(s) + 1
    BY <1>1, <1>2
  <2>2. s \in Seq(S)
    BY <1>2
  <2>3. QED
    BY ONLY <2>1, <2>2, NextOfFound
<1> HIDE DEF j, A
<1>4. ~ (j <= A)
  <2>1. SUFFICES ASSUME j <= A PROVE FALSE
    OBVIOUS
  <2>2. j \in 1 .. A /\ j # Len(s) + 1
    BY <1>1, <1>2, <1>3, <2>1
  <2>3. a[j] = d
    BY <1>2, <1>3, <2>2
  <2>4. QED
    BY <2>2, <2>3 DEF Contains, A
<1>5. CASE c = d
  <2>1. A + 1 \notin 1 .. j - 1
    BY <1>2, <1>3, <1>5
  <2>2. j = A + 1
    BY <1>1, <1>2, <1>3, <1>4, <2>1
  <2>3. QED
    BY <1>5, <2>2 DEF j, A
<1>6. CASE c # d
  <2>1. j # A + 1
    BY <1>1, <1>2, <1>3, <1>6
  <2>2. j > A + 1
    BY <1>1, <1>2, <1>3, <1>4, <2>1
  <2>3. QED
    BY <1>6, <2>2 DEF j, A
<1>7. QED
  BY <1>5, <1>6

LEMMA NoneLeft ==
  ASSUME NEW S, NEW s \in Seq(S), NEW d, NEW i \in 1 .. Len(s) + 1,
         \A k \in i .. Len(s) : s[k] # d
  PROVE  NextOf(s, d, i) = Len(s) + 1
<1>1. Len(s) \in Nat
  BY LenProperties
<1>2. NextOf(s, d, i) \in i .. Len(s) + 1 /\ (NextOf(s, d, i) = Len(s) + 1 \/ s[NextOf(s, d, i)] = d)
  BY NextOfFound
<1>3. NextOf(s, d, i) \notin i .. Len(s) => NextOf(s, d, i) = Len(s) + 1
  BY <1>1, <1>2
<1>4. QED
  BY <1>2, <1>3
-----------------------------------------------------------------------------
(* A message of one argument: parts[1] is what stands before the next      *)
(* delimiter.                                                              *)
LEMMA SecondField ==
  ASSUME NEW S, NEW a, NEW d, NEW x, NEW s, TwoPartsOf(S, s, a, d, x), Len(a) = 1, ~Contains(a, d)
  PROVE  LET parts == split_string(s, d)
         IN  /\ Len(parts) >= 2 <=> x # <<>>
             /\ x # <<>> => /\ parts[2] \in Seq(S)
                            /\ ~Contains(parts[2], d)
                            /\ ~Contains(x, d) => parts[2] = x
<1> DEFINE parts == split_string(s, d)
<1>1. d \in S /\ s \in Seq(S) /\ x \in Seq(S)
  BY DEF TwoPartsOf
<1>5. Len(x) \in Nat /\ (x # <<>> => Len(x) > 0) /\ (x = <<>> => Len(x) = 0)
  BY <1>1, EmptySeq, LenProperties
<1>15. /\ Len(s) = 2 + Len(x)
       /\ \A k \in 1 .. Len(x) : s[2 + k] = x[k]
       /\ SubSeq(s, 3, Len(s)) = x
  <2> DEFINE A == Len(a)
  <2>1. /\ Len(s) = A + 1 + Len(x)
        /\ \A k \in 1 .. Len(x) : s[A + 1 + k] = x[k]
        /\ SubSeq(s, A + 2, Len(s)) = x
    BY DEF TwoPartsOf
  <2>2. A = 1
    OBVIOUS
  <2> HIDE DEF A
  <2>3. \A k \in 1 .. Len(x) : s[1 + 1 + k] = x[k]
    BY <2>1, <2>2
  <2>4. Len(s) = 1 + 1 + Len(x) /\ SubSeq(s, 1 + 2, Len(s)) = x
    BY <2>1, <2>2
  <2>5. 1 + 1 = 2 /\ 1 + 2 = 3
    OBVIOUS
  <2>6. QED
    BY <2>3, <2>4, <2>5
<1>6. Len(s) = 2 + Len(x)
  BY <1>15
<1>7. NextOf(s, d, 1) = 2
  <2>1. PICK e : e = d
    OBVIOUS
  <2>2. TwoPartsOf(S, s, a, e, x)
    BY <2>1
  <2>3. IF e = d THEN NextOf(s, d, 1) = Len(a) + 1 ELSE NextOf(s, d, 1) > Len(a) + 1
    BY <2>2, FirstAfter
  <2>4. QED
    BY <2>1, <2>3
<1>8. PICK from : Fields(s, d, <<>>, from) /\ parts = from[1]
  BY <1>1, SplitFields
<1> HIDE DEF parts
<1>9. /\ 1 \in 1 .. Len(s) /\ 3 \in 1 .. Len(s) + 1 /\ ~ (2 > Len(s)) /\ 2 + 1 = 3
  BY <1>5, <1>6
<1>10. Meant(S, s, d, <<>>, from[3], 3)
  BY <1>1, <1>8, <1>9, FieldsMeaning
<1>11. /\ Len(from[1]) = 1 + Len(from[3])
       /\ \A k \in 1 .. Len(from[3]) : from[1][k + 1] = from[3][k]
  <2> DEFINE j == NextOf(s, d, 1)
  <2>1. IF j > Len(s) THEN Len(from[1]) = 1
        ELSE /\ Len(from[1]) = 1 + Len(from[j + 1])
             /\ \A k \in 1 .. Len(from[j + 1]) : from[1][k + 1] = from[j + 1][k]
    BY <1>1, <1>8, <1>9, FirstField
  <2> HIDE DEF j
  <2>2. j = 2
    BY <1>7 DEF j
  <2>3. QED
    BY <1>9, <2>1, <2>2
<1>12. ASSUME x = <<>> PROVE ~ (Len(parts) >= 2)
  <2>1. 3 = Len(s) + 1
    BY <1>5, <1>6, <1>12
  <2>2. from[3] = <<>>
    BY <1>1, <1>8, <2>1, FieldsUnfold
  <2>3. Len(from[3]) = 0
    BY <2>2
  <2>4. QED
    BY <1>8, <1>11, <2>3
<1>13. ASSUME x # <<>>
       PROVE  /\ Len(parts) >= 2
              /\ parts[2] \in Seq(S)
              /\ ~Contains(parts[2], d)
              /\ ~Contains(x, d) => parts[2] = x
  <2> DEFINE G == from[3]
  <2>1. 3 \in 1 .. Len(s)
    BY <1>5, <1>6, <1>13
  <2>2. G # <<>> /\ G[1] = SubSeq(s, 3, NextOf(s, d, 3) - 1)
    BY <1>1, <1>8, <2>1, FirstField
  <2>3. G \in Seq(Seq(S)) /\ \A k \in 1 .. Len(G) : ~Contains(G[k], d)
    BY <1>10 DEF Meant
  <2> HIDE DEF G
  <2>4. Len(G) \in Nat /\ Len(G) >= 1
    BY <2>2, <2>3, EmptySeq
  <2>5. Len(parts) >= 2 /\ parts[2] = G[1]
    <3>1. 1 \in 1 .. Len(G) /\ 1 + 1 = 2
      BY <2>4
    <3>2. QED
      BY <1>8, <1>11, <2>4, <3>1 DEF G
  <2>6. G[1] \in Seq(S) /\ ~Contains(G[1], d)
    BY <2>3, <2>4, ElementOfSeq
  <2>7. ASSUME ~Contains(x, d) PROVE G[1] = x
    <3>1. \A k \in 3 .. Len(s) : s[k] # d
      <4>1. ASSUME NEW k \in 3 .. Len(s) PROVE s[k] # d
        <5>1. k - 2 \in 1 .. Len(x) /\ 2 + (k - 2) = k
          BY <1>5, <1>6
        <5>2. s[k] = x[k - 2]
          BY <1>15, <5>1
        <5>3. QED
          BY <2>7, <5>1, <5>2 DEF Contains
      <4>2. QED
        BY <4>1
    <3>2. NextOf(s, d, 3) = Len(s) + 1
      BY <1>1, <1>9, <3>1, NoneLeft
    <3>3. NextOf(s, d, 3) - 1 = Len(s)
      BY <1>5, <1>6, <3>2
    <3>4. QED
      BY <1>15, <2>2, <3>3
  <2>8. QED
    BY <2>5, <2>6, <2>7
<1>14. QED
  BY <1>12, <1>13 DEF parts

LEMMA OneChar ==
  ASSUME NEW S, NEW c \in S, NEW d, c # d
  PROVE  <<c>> \in Seq(S) /\ Len(<<c>>) = 1 /\ ~Contains(<<c>>, d) /\ <<c, d>> = <<c>> \o <<d>>
<1>1. <<c>> \in Seq(S) /\ Len(<<c>>) = 1 /\ <<c>>[1] = c
  OBVIOUS
<1>2. ~Contains(<<c>>, d)
  BY <1>1 DEF Contains
<1>3. <<c, d>> = <<c>> \o <<d>>
  <2> DEFINE C == {c, d}
             x == <<c>>
             y == <<d>>
             z == <<c, d>>
  <2>1. x \in Seq(C) /\ Len(x) = 1 /\ x[1] = c /\ y \in Seq(C) /\ Len(y) = 1 /\ y[1] = d
    OBVIOUS
  <2>2. z \in Seq(C) /\ Len(z) = 2 /\ z[1] = c /\ z[2] = d
    OBVIOUS
  <2> HIDE DEF C, x, y, z
  <2> DEFINE xy == x \o y
  <2>3. xy \in Seq(C) /\ Len(xy) = 2 /\ xy[1] = c /\ xy[2] = d
    <3>1. /\ xy \in Seq(C) /\ Len(xy) = 1 + 1
          /\ \A i \in 1 .. 1 + 1 : xy[i] = IF i <= 1 THEN x[i] ELSE y[i - 1]
      BY <2>1, ConcatProperties
    <3> HIDE DEF xy
    <3>2. xy[1] = x[1] /\ xy[2] = y[2 - 1] /\ 2 - 1 = 1
      BY <3>1
    <3>3. QED
      BY <2>1, <3>1, <3>2
  <2> HIDE DEF xy
  <2>4. z = xy
    BY <2>2, <2>3, SeqEqual
  <2>5. QED
    BY <2>4 DEF x, y, z, xy
<1>4. QED
  BY <1>1, <1>2, <1>3

LEMMA SentParts ==
  ASSUME NEW S, ";" \in S, NEW c \in S, c # ";", NEW x \in Seq(S)
  PROVE  LET s == ToServer(c, x)
         IN  /\ s \in Seq(S)
             /\ HasArgument(s) <=> x # <<>>
             /\ x # <<>> => /\ Parts(s)[2] \in Seq(S)
                            /\ ~Contains(Parts(s)[2], ";")
                            /\ ~Contains(x, ";") => Parts(s)[2] = x
<1> DEFINE d == ";"
           s == ToServer(c, x)
           a == <<c>>
<1>1. d \in S /\ c # d
  OBVIOUS
<1>9. a \in Seq(S) /\ Len(a) = 1 /\ ~Contains(a, d) /\ <<c, d>> = a \o <<d>>
  BY OneChar
<1>2. s = a \o <<d>> \o x
  <2>1. s = <<c, d>> \o x
    BY DEF ToServer
  <2>2. QED
    BY <1>9, <2>1
<1> HIDE DEF d, a
<1>4. Parts(s) = split_string(s, d) /\ (HasArgument(s) <=> Len(Parts(s)) >= 2)
  BY DEF Parts, HasArgument, d
<1> HIDE DEF s
<1>5. TwoPartsOf(S, s, a, d, x)
  BY <1>1, <1>2, <1>9, TwoParts
<1>6. s \in Seq(S)
  BY <1>5 DEF TwoPartsOf
<1>7. LET parts == split_string(s, d)
      IN  /\ Len(parts) >= 2 <=> x # <<>>
          /\ x # <<>> => /\ parts[2] \in Seq(S)
                         /\ ~Contains(parts[2], d)
                         /\ ~Contains(x, d) => parts[2] = x
  BY <1>5, <1>9, SecondField
<1>8. QED
  BY <1>4, <1>6, <1>7 DEF d, s

(* The first field of a line that JsSplit cuts at d.                       *)
LEMMA JsFirst ==
  ASSUME NEW S, NEW s \in Seq(S), NEW d \in S, s # <<>>
  PROVE  JsSplit(s, d)[1] = SubSeq(s, 1, NextOf(s, d, 1) - 1)
<1>1. 1 \in 1 .. Len(s)
  BY EmptySeq
<1>2. PICK from : Fields(s, d, << <<>> >>, from) /\ JsSplit(s, d) = from[1]
  BY JsSplitFields
<1> DEFINE last == << <<>> >>
<1>3. last \in {<<>>, << <<>> >>} /\ Fields(s, d, last, from)
  BY <1>2
<1> HIDE DEF last
<1>4. from[1][1] = SubSeq(s, 1, NextOf(s, d, 1) - 1)
  BY <1>1, <1>3, FirstField
<1>5. QED
  BY <1>2, <1>4

(* Cut at ";", a line that begins with a name still holds the colon: no    *)
(* code does.                                                              *)
LEMMA LineOfName ==
  ASSUME NEW S, NEW a, NEW c, NEW b, NEW s, TwoPartsOf(S, s, a, c, b),
         NEW d \in S, c # d, ~Contains(a, d)
  PROVE  Contains(JsSplit(s, d)[1], c)
<1> DEFINE j == NextOf(s, d, 1)
           f == SubSeq(s, 1, j - 1)
<1>2. Len(a) \in Nat /\ Len(b) \in Nat
  BY LenProperties DEF TwoPartsOf
<1>3. s \in Seq(S) /\ Len(s) = Len(a) + 1 + Len(b) /\ s[Len(a) + 1] = c
  BY DEF TwoPartsOf
<1>4. j > Len(a) + 1
  BY FirstAfter
<1>5. 1 \in 1 .. Len(s) + 1 /\ s # <<>>
  BY <1>2, <1>3, EmptySeq
<1>6. j \in 1 .. Len(s) + 1
  BY <1>3, <1>5, NextOfFound
<1>7. f = JsSplit(s, d)[1]
  BY <1>3, <1>5, JsFirst
<1> HIDE DEF j
<1>8. Len(f) = j - 1 /\ \A k \in 1 .. j - 1 : f[k] = s[k]
  <2>1. j - 1 \in 1 - 1 .. Len(s) /\ (j - 1) - 1 + 1 = j - 1
    BY <1>2, <1>3, <1>6
  <2>2. Len(f) = (j - 1) - 1 + 1 /\ \A k \in 1 .. (j - 1) - 1 + 1 : f[k] = s[1 + k - 1]
    BY <1>3, <1>5, <2>1, SubSeqIsSeq
  <2>3. \A k \in 1 .. j - 1 : 1 + k - 1 = k
    BY <1>2, <1>3, <1>6
  <2> HIDE DEF f
  <2>4. QED
    BY <2>1, <2>2, <2>3
<1> HIDE DEF f
<1>9. Len(a) + 1 \in 1 .. Len(f) /\ f[Len(a) + 1] = c
  BY <1>2, <1>3, <1>4, <1>6, <1>8
<1>10. QED
  BY <1>7, <1>9 DEF Contains

LEMMA CodesHoldNoColon == \A code \in Codes : ~Contains(code, ":")
  BY DEF Codes, Contains

(* Without a separator in the name and without ";" in the text, the line   *)
(* is taken apart where it was put together.                               *)
LEMMA LineTakenApart ==
  ASSUME NEW S, NEW a, NEW c, NEW b, NEW s, TwoPartsOf(S, s, a, c, b), a # <<>>, b # <<>>,
         NEW d \in S, c # d, ~Contains(a, c), ~Contains(a, d), ~Contains(b, d)
  PROVE  /\ JsSplit(s, d)[1] = s
         /\ LET words == JsSplit(s, c)
            IN  words[1] = a /\ Join(Tail(words), c) = b
<1> DEFINE A == Len(a)
<1>2. A \in Nat \ {0} /\ Len(b) \in Nat \ {0}
  BY EmptySeq DEF TwoPartsOf
<1>1. /\ s \in Seq(S) /\ c \in S
      /\ \A k \in 1 .. A : s[k] = a[k]
      /\ s[A + 1] = c
      /\ \A k \in 1 .. Len(b) : s[A + 1 + k] = b[k]
      /\ SubSeq(s, 1, A) = a
      /\ SubSeq(s, A + 2, Len(s)) = b
  BY DEF TwoPartsOf
<1>3. Len(s) = A + 1 + Len(b)
  BY DEF TwoPartsOf
<1>4. NextOf(s, c, 1) = A + 1
  BY FirstAfter
<1> HIDE DEF A
<1>5. s # <<>> /\ 1 \in 1 .. Len(s) + 1 /\ 1 \in 1 .. Len(s) /\ A + 2 \in 1 .. Len(s) + 1 /\ ~ (A + 1 > Len(s))
  BY <1>1, <1>2, <1>3, EmptySeq
<1>6. JsSplit(s, d)[1] = s
  <2>1. ASSUME NEW k \in 1 .. Len(s) PROVE s[k] # d
    <3>1. CASE k <= A
      <4>1. k \in 1 .. A
        BY <1>2, <1>3, <3>1
      <4>2. s[k] = a[k]
        BY <1>1, <4>1
      <4>3. QED
        BY <4>1, <4>2 DEF Contains, A
    <3>2. CASE k = A + 1
      BY <1>1, <3>2
    <3>3. CASE k > A + 1
      <4>1. k - (A + 1) \in 1 .. Len(b) /\ A + 1 + (k - (A + 1)) = k
        BY <1>2, <1>3, <3>3
      <4>2. s[k] = b[k - (A + 1)]
        BY <1>1, <4>1
      <4>3. QED
        BY <4>1, <4>2 DEF Contains
    <3>4. QED
      BY <1>2, <1>3, <3>1, <3>2, <3>3
  <2>2. NextOf(s, d, 1) = Len(s) + 1
    BY <1>1, <1>5, <2>1, NoneLeft
  <2>3. NextOf(s, d, 1) - 1 = Len(s)
    BY <1>2, <1>3, <2>2
  <2>4. JsSplit(s, d)[1] = SubSeq(s, 1, Len(s))
    BY <1>1, <1>5, <2>3, JsFirst
  <2>5. QED
    BY <1>1, <2>4, SubSeqFull
<1> DEFINE last == << <<>> >>
<1>7. PICK from : Fields(s, c, last, from) /\ JsSplit(s, c) = from[1]
  BY <1>1, JsSplitFields
<1>8. last \in {<<>>, << <<>> >>} /\ last # <<>>
  <2>1. Len(last) = 1 /\ Len(<<>>) = 0
    OBVIOUS
  <2>2. QED
    BY <2>1
<1> HIDE DEF last
<1> DEFINE words == from[1]
           rest == from[A + 2]
<1>9. /\ words[1] = a
      /\ Len(words) = 1 + Len(rest)
      /\ \A k \in 1 .. Len(rest) : words[k + 1] = rest[k]
  <2> DEFINE j == NextOf(s, c, 1)
  <2>1. /\ words[1] = SubSeq(s, 1, j - 1)
        /\ IF j > Len(s) THEN Len(words) = 1
           ELSE /\ Len(words) = 1 + Len(from[j + 1])
                /\ \A k \in 1 .. Len(from[j + 1]) : words[k + 1] = from[j + 1][k]
    <3>1. s \in Seq(S) /\ c \in S
      BY <1>1
    <3>2. last \in {<<>>, << <<>> >>} /\ Fields(s, c, last, from)
      BY <1>7, <1>8
    <3>3. 1 \in 1 .. Len(s)
      BY <1>5
    <3>4. QED
      BY ONLY <3>1, <3>2, <3>3, FirstField
  <2> HIDE DEF j
  <2>2. j - 1 = A /\ j + 1 = A + 2 /\ ~ (j > Len(s))
    BY <1>2, <1>4, <1>5 DEF j
  <2>3. QED
    BY <1>1, <2>1, <2>2
<1>10. Meant(S, s, c, last, words, 1) /\ Meant(S, s, c, last, rest, A + 2)
  BY <1>1, <1>5, <1>7, <1>8, FieldsMeaning
<1>11. /\ words \in Seq(Seq(S)) /\ words # <<>>
       /\ rest \in Seq(Seq(S)) /\ Join(rest, c) = b
  BY <1>1, <1>8, <1>10 DEF Meant
<1> HIDE DEF words, rest
<1>12. Tail(words) = rest
  <2> DEFINE tail == Tail(words)
  <2>1. /\ tail \in Seq(Seq(S)) /\ Len(tail) = Len(words) - 1
        /\ \A k \in 1 .. Len(tail) : tail[k] = words[k + 1]
    BY <1>11, HeadTailProperties
  <2>2. Len(rest) \in Nat
    BY <1>11, LenProperties
  <2> HIDE DEF tail
  <2>3. Len(tail) = Len(rest)
    BY <1>9, <2>1, <2>2
  <2>4. \A k \in 1 .. Len(tail) : tail[k] = rest[k]
    BY <1>9, <2>1, <2>3
  <2>5. tail = rest
    BY <1>11, <2>1, <2>3, <2>4, SeqEqual
  <2>6. QED
    BY <2>5 DEF tail
<1>13. JsSplit(s, c) = words
  BY <1>7 DEF words
<1>14. QED
  BY <1>6, <1>9, <1>11, <1>12, <1>13
-----------------------------------------------------------------------------
(* The characters on the wire: what can be typed, and the digits of the    *)
(* types.                                                                  *)
Sign == Char \cup {"1", "2"}

(* The inductive invariant: what the message has become so far.            *)
TextInv ==
    /\ name \in Seq(Char) /\ name # <<>> /\ text \in Seq(Char)
    /\ stage \in {"typed", "sent", "undefined", "relayed", "shown"}
    /\ stage = "sent" => wire = ToServer("1", text)
    /\ stage = "relayed" =>
         /\ text # <<>>
         /\ wire = NameFor(name) \o <<":">> \o Parts(ToServer("1", text))[2]

LEMMA TypedIsSeq == Text \subseteq Seq(Char)
<1>1. SUFFICES ASSUME NEW s \in Text PROVE s \in Seq(Char)
  OBVIOUS
<1>2. PICK n \in 0 .. MaxLen : s \in [1 .. n -> Char]
  BY DEF Text
<1>3. n \in Nat
  <2>1. MaxLen \in Nat
    BY TextAssumption DEF TextAssumption
  <2>2. QED
    BY <1>2, <2>1
<1>4. QED
  BY <1>2, <1>3

LEMMA Signs ==
  /\ ";" \in Sign /\ ":" \in Sign /\ "1" \in Sign /\ "2" \in Sign
  /\ \A s \in Seq(Char) : s \in Seq(Sign)
<1>1. Char \subseteq Sign
  BY DEF Sign
<1>2. \A s \in Seq(Char) : s \in Seq(Sign)
  BY <1>1, SeqMonotonic
<1>3. QED
  BY <1>2 DEF Sign, Char

(* The name that case '2' stores holds no ";"; a name typed without one is *)
(* stored as typed.                                                        *)
LEMMA NameStored ==
  ASSUME TextInv
  PROVE  /\ NameFor(name) \in Seq(Sign) /\ ~Contains(NameFor(name), ";")
         /\ ~Contains(name, ";") => NameFor(name) = name
<1>1. name \in Seq(Sign) /\ name # <<>> /\ ";" \in Sign /\ "2" \in Sign /\ "2" # ";"
  BY Signs DEF TextInv
<1>2. QED
  BY <1>1, SentParts DEF NameFor

LEMMA TextRelayed ==
  ASSUME TextInv
  PROVE  LET msg == ToServer("1", text)
         IN  /\ HasArgument(msg) <=> text # <<>>
             /\ text # <<>> => /\ Parts(msg)[2] \in Seq(Sign)
                               /\ ~Contains(text, ";") => Parts(msg)[2] = text
<1>1. text \in Seq(Sign) /\ ";" \in Sign /\ "1" \in Sign /\ "1" # ";"
  BY Signs DEF TextInv
<1>2. QED
  BY <1>1, SentParts

(* The line on the wire after case '1'.                                    *)
LEMMA RelayedLine ==
  ASSUME TextInv, stage = "relayed"
  PROVE  /\ TwoPartsOf(Sign, wire, NameFor(name), ":", Parts(ToServer("1", text))[2])
         /\ ~Contains(NameFor(name), ";")
<1> DEFINE a == NameFor(name)
           b == Parts(ToServer("1", text))[2]
           c == ":"
<1>1. a \in Seq(Sign) /\ ~Contains(a, ";")
  BY NameStored
<1>2. b \in Seq(Sign) /\ wire = a \o <<c>> \o b
  BY TextRelayed DEF TextInv
<1>3. c \in Sign
  BY Signs
<1> HIDE DEF a, b, c
<1>4. TwoPartsOf(Sign, wire, a, c, b)
  BY <1>1, <1>2, <1>3, TwoParts
<1>5. QED
  BY <1>1, <1>4 DEF a, b, c

LEMMA LineNoCode ==
  ASSUME TextInv, stage = "relayed"
  PROVE  JsSplit(wire, ";")[1] \notin Codes
<1> DEFINE a == NameFor(name)
           b == Parts(ToServer("1", text))[2]
           c == ":"
           d == ";"
<1>1. TwoPartsOf(Sign, wire, a, c, b) /\ ~Contains(a, d)
  BY RelayedLine
<1>2. d \in Sign /\ c # d
  BY Signs
<1> HIDE DEF a, b, c, d
<1>3. Contains(JsSplit(wire, d)[1], c)
  BY <1>1, <1>2, LineOfName
<1>4. QED
  BY <1>3, CodesHoldNoColon DEF c, d

LEMMA TextInvInit == Init => TextInv
<1>1. SUFFICES ASSUME Init PROVE TextInv
  OBVIOUS
<1>2. name \in Seq(Char) /\ name # <<>> /\ text \in Seq(Char)
  BY <1>1, TypedIsSeq DEF Init
<1>3. QED
  BY <1>1, <1>2 DEF Init, TextInv

LEMMA TextInvNext == TextInv /\ [Next]_vars => TextInv'
<1>1. SUFFICES ASSUME TextInv, [Next]_vars PROVE TextInv'
  OBVIOUS
<1>2. CASE SendMessage
  BY <1>1, <1>2 DEF SendMessage, TextInv
<1>3. CASE Relay
  <2>1. wire = ToServer("1", text) /\ UNCHANGED <<name, text>>
    BY <1>1, <1>3 DEF Relay, TextInv
  <2>2. CASE HasArgument(wire)
    <3>1. stage' = "relayed" /\ wire' = NameFor(name) \o <<":">> \o Parts(ToServer("1", text))[2]
      BY <1>3, <2>1, <2>2 DEF Relay
    <3>2. text # <<>>
      BY <1>1, <2>1, <2>2, TextRelayed
    <3>3. QED
      BY <1>1, <2>1, <3>1, <3>2 DEF TextInv
  <2>3. CASE ~HasArgument(wire)
    <3>1. stage' = "undefined"
      BY <1>3, <2>3 DEF Relay
    <3>2. QED
      BY <1>1, <2>1, <3>1 DEF TextInv
  <2>4. QED
    BY <2>2, <2>3
<1>4. CASE Receive
  <2>1. JsSplit(wire, ";")[1] \notin Codes
    BY <1>1, <1>4, LineNoCode DEF Receive
  <2>2. stage' = "shown" /\ UNCHANGED <<name, text>>
    BY <1>4, <2>1 DEF Receive
  <2>3. QED
    BY <1>1, <2>2 DEF TextInv
<1>5. CASE UNCHANGED vars
  BY <1>1, <1>5 DEF vars, TextInv
<1>6. QED
  BY <1>1, <1>2, <1>3, <1>4, <1>5 DEF Next

LEMMA TextInvAlways == Spec => []TextInv
  BY TextInvInit, TextInvNext, PTL DEF Spec

-----------------------------------------------------------------------------
(* Whatever nickname and text somebody types, the line that case '1'       *)
(* relays is never taken for one of the server's own codes by              *)
(* handleServerMessage: up to its first ";" it still holds the colon that  *)
(* case '1' put in, because the stored name holds no ";".                  *)
THEOREM NoCodeByName == Spec => []LineIsNoCode
<1>1. TextInv => LineIsNoCode
  BY DEF TextInv, LineIsNoCode
<1>2. QED
  BY <1>1, TextInvAlways, PTL

(* split_string, for every text: no field holds the delimiter, and the     *)
(* fields joined again are the text, but for one delimiter at its end.     *)
THEOREM SplitIsSplit == Spec => []SplitMeaning
<1>1. TextInv => SplitMeaning
  <2>1. SUFFICES ASSUME TextInv PROVE SplitMeaning
    OBVIOUS
  <2> DEFINE d == ";"
             fields == Parts(text)
             none == <<>>
  <2>2. text \in Seq(Char) /\ d \in Char /\ none \in {<<>>, << <<>> >>}
    BY <2>1 DEF TextInv, Char
  <2>3. PICK from : Fields(text, d, none, from) /\ split_string(text, d) = from[1]
    BY <2>2, SplitFields
  <2>4. fields = from[1]
    BY <2>3 DEF Parts
  <2>5. 1 \in 1 .. Len(text) + 1
    <3>1. text \in Seq(Char)
      BY <2>2
    <3>2. Len(text) \in Nat
      BY ONLY <3>1, LenProperties
    <3>3. QED
      BY ONLY <3>2
  <2> HIDE DEF d, fields, none
  <2>6. Meant(Char, text, d, none, from[1], 1)
    BY <2>2, <2>3, <2>5, FieldsMeaning
  <2>7. /\ \A k \in 1 .. Len(fields) : ~Contains(fields[k], d)
        /\ \/ SubSeq(text, 1, Len(text)) = Join(fields, d)
           \/ SubSeq(text, 1, Len(text)) = Join(fields, d) \o <<d>>
    BY <2>4, <2>6 DEF Meant
  <2>8. SubSeq(text, 1, Len(text)) = text
    BY <2>2, SubSeqFull
  <2>9. QED
    BY <2>7, <2>8 DEF SplitMeaning, d, fields
<1>2. QED
  BY <1>1, TextInvAlways, PTL

(* A chat line arrives as it was typed, colons in the text included, if    *)
(* the name holds neither separator and the text holds no ";".             *)
THEOREM LineAsTyped == Spec => ColonsSurvive
<1> DEFINE Survives == Receive /\ ~Contains(name, ":") /\ ~Contains(name, ";") /\ ~Contains(text, ";")
                         => shown' = <<name, text>>
<1>1. TextInv /\ [Next]_vars => Survives
  <2>1. SUFFICES ASSUME TextInv, Receive, ~Contains(name, ":"), ~Contains(name, ";"), ~Contains(text, ";")
                 PROVE  shown' = <<name, text>>
    OBVIOUS
  <2> DEFINE c == ":"
             d == ";"
  <2>2. stage = "relayed"
    BY <2>1 DEF Receive
  <2>3. text # <<>> /\ name # <<>>
    BY <2>1, <2>2 DEF TextInv
  <2>4. NameFor(name) = name /\ Parts(ToServer("1", text))[2] = text
    BY <2>1, <2>3, NameStored, TextRelayed
  <2>5. TwoPartsOf(Sign, wire, name, c, text)
    BY <2>1, <2>2, <2>4, RelayedLine
  <2>6. d \in Sign /\ c # d /\ ~Contains(name, c) /\ ~Contains(name, d) /\ ~Contains(text, d)
    BY <2>1, Signs
  <2> HIDE DEF c, d
  <2>7. /\ JsSplit(wire, d)[1] = wire
        /\ LET words == JsSplit(wire, c) IN words[1] = name /\ Join(Tail(words), c) = text
    BY <2>3, <2>5, <2>6, LineTakenApart
  <2>8. Entry(wire) = <<name, text>>
    BY <2>3, <2>7 DEF Entry, c
  <2>9. JsSplit(wire, ";")[1] = wire /\ JsSplit(wire, ";")[1] \notin Codes
    BY <2>1, <2>2, <2>7, LineNoCode DEF d
  <2>10. QED
    BY <2>1, <2>8, <2>9 DEF Receive
<1>2. TextInv /\ [Next]_vars => [Survives]_vars
  BY <1>1
<1>3. QED
  BY <1>2, TextInvAlways, PTL DEF Spec, ColonsSurvive
=============================================================================
