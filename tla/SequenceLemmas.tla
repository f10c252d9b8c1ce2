--------------------------- MODULE SequenceLemmas ---------------------------
(***************************************************************************)
(* Facts about sequences that the proofs of several components cite: what  *)
(* the queue operations and Keep do.  What Keep returns needs induction;   *)
(* the library's induction theorems take a predicate, which the provers    *)
(* cannot instantiate, so induction is stated here for sets.               *)
(***************************************************************************)
EXTENDS Filters, SequencesExt, SequenceTheorems, WellFoundedInduction, TLAPS

\* The empty sequence is a sequence over any set.
LEMMA EmptyIsSeq == ASSUME NEW S PROVE <<>> \in Seq(S) /\ Len(<<>>) = 0
OBVIOUS

\* What appending one element does.
LEMMA Appended ==
  ASSUME NEW S, NEW s \in Seq(S), NEW e \in S
  PROVE  /\ Append(s, e) \in Seq(S)
         /\ Len(Append(s, e)) = Len(s) + 1
         /\ \A i \in 1 .. Len(s) : Append(s, e)[i] = s[i]
         /\ Append(s, e)[Len(s) + 1] = e
OBVIOUS

\* What taking the first element away does.
LEMMA Shifted ==
  ASSUME NEW S, NEW s \in Seq(S), s # <<>>
  PROVE  /\ Tail(s) \in Seq(S)
         /\ Len(Tail(s)) = Len(s) - 1
         /\ \A i \in 1 .. Len(s) - 1 : Tail(s)[i] = s[i + 1]
         /\ Head(s) = s[1] /\ s[1] \in S /\ Len(s) \in Nat \ {0}
OBVIOUS

\* A sequence without elements of T.
LEMMA WithoutAny ==
  ASSUME NEW S, NEW T, NEW s \in Seq(S), \A i \in 1 .. Len(s) : s[i] \notin T
  PROVE  s \in Seq(S \ T)
OBVIOUS

\* What taking the first k elements away does.
LEMMA CutFront ==
  ASSUME NEW S, NEW s \in Seq(S), NEW k \in 0 .. Len(s)
  PROVE  /\ SubSeq(s, k + 1, Len(s)) \in Seq(S)
         /\ Len(SubSeq(s, k + 1, Len(s))) = Len(s) - k
         /\ \A i \in 1 .. Len(s) - k : SubSeq(s, k + 1, Len(s))[i] = s[i + k]
OBVIOUS

-----------------------------------------------------------------------------
(* Induction *)

\* Induction: a set of naturals that holds 0 and every successor is Nat.
LEMMA SetInduction ==
  ASSUME NEW T \in SUBSET Nat, 0 \in T, \A n \in T : n + 1 \in T
  PROVE  T = Nat
<1> SUFFICES ASSUME Nat \ T # {} PROVE FALSE
  OBVIOUS
<1>1. IsWellFoundedOn(OpToRel(<, Nat), Nat)
  BY Zenon, NatLessThanWellFounded
<1>2. PICK x \in Nat \ T : \A y \in Nat \ T : ~(<<y, x>> \in OpToRel(<, Nat))
  BY Zenon, <1>1, WFMin
<1>3. x # 0 /\ x - 1 \in Nat
  OBVIOUS
<1>4. x - 1 \notin T
  BY <1>3
<1>5. <<x - 1, x>> \in OpToRel(<, Nat)
  BY <1>3 DEF OpToRel
<1> QED
  BY <1>2, <1>3, <1>4, <1>5

\* A set of naturals that is not empty has a least element.
LEMMA LeastElement ==
  ASSUME NEW G \in SUBSET Nat, G # {} PROVE \E m \in G : \A j \in G : m <= j
<1>1. IsWellFoundedOn(OpToRel(<, Nat), Nat)
  BY Zenon, NatLessThanWellFounded
<1>2. PICK m \in G : \A j \in G : ~(<<j, m>> \in OpToRel(<, Nat))
  BY Zenon, <1>1, WFMin
<1>3. ASSUME NEW j \in G PROVE m <= j
  <2>1. j < m => <<j, m>> \in OpToRel(<, Nat)
    BY DEF OpToRel
  <2>2. j \in Nat /\ m \in Nat /\ ~(j < m)
    BY <1>2, <2>1
  <2> QED
    BY <2>2
<1> QED
  BY <1>3

\* Induction over sequences, for a set of sequences instead of a predicate.
LEMMA SeqInduction ==
  ASSUME NEW T, NEW P \in SUBSET Seq(T), <<>> \in P,
         \A s \in P, e \in T : Append(s, e) \in P
  PROVE  P = Seq(T)
<1> DEFINE N == {n \in Nat : \A s \in Seq(T) : Len(s) = n => s \in P}
<1>1. 0 \in N
  OBVIOUS
<1>2. ASSUME NEW n \in N PROVE n + 1 \in N
  <2>1. ASSUME NEW s \in Seq(T), Len(s) = n + 1 PROVE s \in P
    <3>0. s # <<>>
      BY <2>1
    <3>1. PICK front \in Seq(T), e \in T : s = Append(front, e)
      BY Zenon, <3>0, SequenceEmptyOrAppend
    <3>2. Len(front) = n
      BY <2>1, <3>1, Appended
    <3> QED
      BY <3>1, <3>2
  <2> QED
    BY <2>1
<1>3. N = Nat
  <2> HIDE DEF N
  <2>1. N \in SUBSET Nat
    BY DEF N
  <2> QED
    BY <1>1, <1>2, <2>1, SetInduction
<1>4. \A s \in Seq(T) : Len(s) \in Nat
  OBVIOUS
<1> QED
  BY <1>3, <1>4

-----------------------------------------------------------------------------
(* Keep *)

\* The equation of the recursive function in Keep.
Kept(g, s, S, n) ==
  IF n = 0 THEN <<>> ELSE IF s[n] \in S THEN Append(g[n - 1], s[n]) ELSE g[n - 1]

Solves(g, s, S, len) == g = [n \in 0 .. len |-> Kept(g, s, S, n)]

\* The equation has a solution, for sequences of any length.
LEMMA KeptExists ==
  ASSUME NEW s, NEW S, NEW len \in Nat
  PROVE  \E g : Solves(g, s, S, len)
<1> DEFINE Upto(g, n) == \A m \in 0 .. n : g[m] = Kept(g, s, S, m)
           N == {n \in Nat : \E g : Upto(g, n)}
<1>1. 0 \in N
  <2>1. Upto([m \in 0 .. 0 |-> <<>>], 0)
    BY DEF Kept
  <2> QED
    BY <2>1
<1>2. ASSUME NEW n \in N PROVE n + 1 \in N
  <2>1. PICK g : Upto(g, n)
    OBVIOUS
  <2> DEFINE h == [m \in 0 .. n + 1 |-> IF m <= n THEN g[m] ELSE Kept(g, s, S, m)]
  <2>2. (\A m \in 0 .. n : h[m] = g[m]) /\ h[n + 1] = Kept(g, s, S, n + 1)
    OBVIOUS
  <2> HIDE DEF h
  <2>3. Upto(h, n + 1)
    BY <2>1, <2>2 DEF Kept
  <2> QED
    BY <2>3
<1>3. N = Nat
  <2> HIDE DEF N
  <2>1. N \in SUBSET Nat
    BY DEF N
  <2> QED
    BY <1>1, <1>2, <2>1, SetInduction
<1>4. PICK g : Upto(g, len)
  BY <1>3
<1> DEFINE h == [n \in 0 .. len |-> g[n]]
<1>5. \A m \in 0 .. len : g[m] = Kept(h, s, S, m)
  BY <1>4 DEF Kept
<1> QED
  BY <1>5 DEF Solves

\* Keep is the value of a solution at the sequence's length.
LEMMA KeepUnfolds ==
  ASSUME NEW T, NEW S, NEW s \in Seq(T)
  PROVE  \E g : /\ \A n \in 0 .. Len(s) : g[n] = Kept(g, s, S, n)
                /\ Keep(s, S) = g[Len(s)]
<1> DEFINE k == CHOOSE g : Solves(g, s, S, Len(s))
<1>1. Len(s) \in Nat
  OBVIOUS
<1>2. Solves(k, s, S, Len(s))
  BY <1>1, KeptExists
<1>3. Keep(s, S) = k[Len(s)]
  BY Zenon DEF Keep, Kept, Solves
<1> HIDE DEF k
<1> QED
  BY <1>2, <1>3 DEF Solves

\* What Keep of the empty sequence is.
LEMMA KeepEmpty == ASSUME NEW S PROVE Keep(<<>>, S) = <<>>
<1>1. <<>> \in Seq({}) /\ Len(<<>>) = 0 /\ 0 \in 0 .. 0
  OBVIOUS
<1>2. PICK g : /\ \A n \in 0 .. Len(<<>>) : g[n] = Kept(g, <<>>, S, n)
               /\ Keep(<<>>, S) = g[Len(<<>>)]
  BY <1>1, KeepUnfolds
<1> QED
  BY <1>1, <1>2 DEF Kept

\* What Keep of one more element is.
LEMMA KeepAppend ==
  ASSUME NEW T, NEW S, NEW s \in Seq(T), NEW e \in T
  PROVE  Keep(Append(s, e), S) = IF e \in S THEN Append(Keep(s, S), e) ELSE Keep(s, S)
<1> DEFINE s2 == Append(s, e)
<1>1. /\ s2 \in Seq(T) /\ Len(s2) = Len(s) + 1 /\ Len(s) \in Nat
      /\ \A i \in 1 .. Len(s) : s2[i] = s[i]
      /\ s2[Len(s) + 1] = e
  BY Appended
<1> HIDE DEF s2
<1>2. PICK g : /\ \A n \in 0 .. Len(s) : g[n] = Kept(g, s, S, n)
               /\ Keep(s, S) = g[Len(s)]
  BY KeepUnfolds
<1>3. PICK h : /\ \A n \in 0 .. Len(s2) : h[n] = Kept(h, s2, S, n)
               /\ Keep(s2, S) = h[Len(s2)]
  BY <1>1, KeepUnfolds
<1> DEFINE N == {n \in Nat : n <= Len(s) => g[n] = h[n]}
<1>4. 0 \in N
  BY <1>1, <1>2, <1>3 DEF Kept
<1>5. ASSUME NEW n \in N PROVE n + 1 \in N
  BY <1>1, <1>2, <1>3 DEF Kept
<1>6. N = Nat
  <2> HIDE DEF N
  <2>1. N \in SUBSET Nat
    BY DEF N
  <2> QED
    BY <1>4, <1>5, <2>1, SetInduction
<1>7. g[Len(s)] = h[Len(s)]
  BY <1>1, <1>6
<1>8. h[Len(s) + 1] = IF e \in S THEN Append(h[Len(s)], e) ELSE h[Len(s)]
  BY <1>1, <1>3 DEF Kept
<1> QED
  BY <1>1, <1>2, <1>3, <1>7, <1>8 DEF s2

\* Every element of k, and every pair of them in its order, is in q.
InOrder(k, q) ==
  /\ \A j \in 1 .. Len(k) : \E b \in 1 .. Len(q) : k[j] = q[b]
  /\ \A i, j \in 1 .. Len(k) : i < j =>
       \E a, b \in 1 .. Len(q) : a < b /\ k[i] = q[a] /\ k[j] = q[b]

\* A sequence stays in the order of one that grows, also when it grows with it.
LEMMA InOrderAppend ==
  ASSUME NEW T, NEW q \in Seq(T), NEW k \in Seq(T), NEW e \in T, InOrder(k, q)
  PROVE  InOrder(k, Append(q, e)) /\ InOrder(Append(k, e), Append(q, e))
<1> DEFINE q2 == Append(q, e)
           k2 == Append(k, e)
<1>1. /\ \A i \in 1 .. Len(q) : i \in 1 .. Len(q2) /\ q2[i] = q[i] /\ i < Len(q2)
      /\ q2[Len(q2)] = e /\ Len(q2) \in 1 .. Len(q2)
  <2>1. Len(q) \in Nat
    OBVIOUS
  <2> QED
    BY <2>1, Appended
<1>2. /\ \A i \in 1 .. Len(k2) : (i \in 1 .. Len(k) /\ k2[i] = k[i]) \/ i = Len(k2)
      /\ k2[Len(k2)] = e
      /\ \A i, j \in 1 .. Len(k2) : i < j => i # Len(k2)
  <2>1. Len(k) \in Nat
    OBVIOUS
  <2> QED
    BY <2>1, Appended
<1> HIDE DEF q2, k2
<1>3. InOrder(k, q2)
  BY <1>1 DEF InOrder
<1>4. ASSUME NEW j \in 1 .. Len(k2) PROVE \E b \in 1 .. Len(q2) : k2[j] = q2[b]
  BY <1>1, <1>2, <1>3 DEF InOrder
<1>5. ASSUME NEW i \in 1 .. Len(k2), NEW j \in 1 .. Len(k2), i < j
      PROVE  \E a, b \in 1 .. Len(q2) : a < b /\ k2[i] = q2[a] /\ k2[j] = q2[b]
  <2>1. i \in 1 .. Len(k) /\ k2[i] = k[i]
    BY <1>2, <1>5
  <2>2. CASE j \in 1 .. Len(k) /\ k2[j] = k[j]
    <3>1. PICK a, b \in 1 .. Len(q2) : a < b /\ k[i] = q2[a] /\ k[j] = q2[b]
      BY <1>3, <1>5, <2>1, <2>2 DEF InOrder
    <3> QED
      BY <2>1, <2>2, <3>1
  <2>3. CASE j = Len(k2)
    <3>1. PICK a \in 1 .. Len(q) : k[i] = q[a]
      BY <2>1 DEF InOrder
    <3> QED
      BY <1>1, <1>2, <2>1, <2>3, <3>1
  <2> QED
    BY <1>2, <2>2, <2>3
<1>6. InOrder(k2, q2)
  BY <1>4, <1>5 DEF InOrder
<1> QED
  BY <1>3, <1>6 DEF q2, k2

\* Keep returns elements of the set, in their order.
LEMMA KeepProperties ==
  ASSUME NEW T, NEW S, NEW s \in Seq(T)
  PROVE  Keep(s, S) \in Seq(T \cap S) /\ InOrder(Keep(s, S), s)
<1> DEFINE P == {q \in Seq(T) : Keep(q, S) \in Seq(T \cap S) /\ InOrder(Keep(q, S), q)}
<1>1. <<>> \in P
  <2>1. <<>> \in Seq(T) /\ <<>> \in Seq(T \cap S) /\ Len(<<>>) = 0
    OBVIOUS
  <2>2. InOrder(<<>>, <<>>)
    BY <2>1 DEF InOrder
  <2> QED
    BY <2>1, <2>2, KeepEmpty
<1>2. ASSUME NEW q \in P, NEW e \in T PROVE Append(q, e) \in P
  <2> DEFINE k == Keep(q, S)
  <2>1. Append(q, e) \in Seq(T) /\ k \in Seq(T \cap S) /\ k \in Seq(T)
    BY SeqMonotonic
  <2>2. InOrder(k, Append(q, e)) /\ InOrder(Append(k, e), Append(q, e))
    BY <2>1, InOrderAppend
  <2>3. Keep(Append(q, e), S) = IF e \in S THEN Append(k, e) ELSE k
    BY KeepAppend
  <2> HIDE DEF k
  <2>4. Keep(Append(q, e), S) \in Seq(T \cap S)
    BY <2>1, <2>3
  <2> QED
    BY <2>1, <2>2, <2>3, <2>4
<1>3. P = Seq(T)
  <2> HIDE DEF P
  <2>1. P \in SUBSET Seq(T)
    BY DEF P
  <2> QED
    BY <1>1, <1>2, <2>1, SeqInduction
<1> QED
  BY <1>3

\* Keeping from two joined sequences.
LEMMA KeepConcat ==
  ASSUME NEW T, NEW S, NEW s \in Seq(T), NEW t \in Seq(T)
  PROVE  Keep(s \o t, S) = Keep(s, S) \o Keep(t, S)
<1>0. ASSUME NEW q \in Seq(T), NEW e \in T
      PROVE  Keep(Append(q, e), S) = IF e \in S THEN Append(Keep(q, S), e) ELSE Keep(q, S)
  BY KeepAppend
<1> DEFINE P == {q \in Seq(T) : Keep(s \o q, S) = Keep(s, S) \o Keep(q, S)}
<1>1. Keep(s, S) \in Seq(T \cap S)
  BY KeepProperties
<1>2. <<>> \in P
  <2>1. <<>> \in Seq(T) /\ s \o <<>> = s
    OBVIOUS
  <2>2. Keep(s, S) \o <<>> = Keep(s, S)
    BY <1>1
  <2> QED
    BY <2>1, <2>2, KeepEmpty
<1>3. ASSUME NEW q \in P, NEW e \in T PROVE Append(q, e) \in P
  <2> DEFINE k == Keep(s, S)
             kq == Keep(q, S)
  <2>1. /\ Append(q, e) \in Seq(T) /\ s \o q \in Seq(T)
        /\ s \o Append(q, e) = Append(s \o q, e)
    OBVIOUS
  <2>2. k \in Seq(T \cap S) /\ kq \in Seq(T \cap S)
    BY KeepProperties
  <2>3. Keep(Append(q, e), S) = IF e \in S THEN Append(kq, e) ELSE kq
    BY KeepAppend
  <2>4. Keep(Append(s \o q, e), S) = IF e \in S THEN Append(k \o kq, e) ELSE k \o kq
    <3> DEFINE sq == s \o q
    <3>1. Keep(sq, S) = k \o kq /\ sq \in Seq(T)
      OBVIOUS
    <3> HIDE DEF k, kq, P, sq
    <3>2. Keep(Append(sq, e), S) = IF e \in S THEN Append(Keep(sq, S), e) ELSE Keep(sq, S)
      BY <1>0, <3>1
    <3> QED
      BY <3>1, <3>2 DEF sq
  <2> HIDE DEF k, kq
  <2>5. e \in S => k \o Append(kq, e) = Append(k \o kq, e)
    BY <2>2
  <2>6. Keep(s \o Append(q, e), S) = k \o Keep(Append(q, e), S)
    BY <2>1, <2>3, <2>4, <2>5
  <2> QED
    BY <2>1, <2>6 DEF k
<1>4. P = Seq(T)
  <2> HIDE DEF P
  <2>1. P \in SUBSET Seq(T)
    BY DEF P
  <2> QED
    BY <1>2, <1>3, <2>1, SeqInduction
<1> QED
  BY <1>4

\* Keeping everything.
LEMMA KeepAll ==
  ASSUME NEW S, NEW T, NEW t \in Seq(T), \A i \in 1 .. Len(t) : t[i] \in S
  PROVE  Keep(t, S) = t
<1> DEFINE P == {q \in Seq(S) : Keep(q, S) = q}
<1>1. <<>> \in P
  BY EmptyIsSeq, KeepEmpty
<1>2. ASSUME NEW q \in P, NEW e \in S PROVE Append(q, e) \in P
  <2>1. Keep(Append(q, e), S) = Append(q, e)
    BY KeepAppend
  <2> QED
    BY <2>1
<1>3. P = Seq(S)
  <2> HIDE DEF P
  <2>1. P \in SUBSET Seq(S)
    BY DEF P
  <2> QED
    BY <1>1, <1>2, <2>1, SeqInduction
<1>4. t \in Seq(S)
  OBVIOUS
<1> QED
  BY <1>3, <1>4

\* Keeping nothing.
LEMMA KeepNone ==
  ASSUME NEW S, NEW T, NEW t \in Seq(T), \A i \in 1 .. Len(t) : t[i] \notin S
  PROVE  Keep(t, S) = <<>>
<1>1. t \in Seq(T \ S)
  OBVIOUS
<1>2. Keep(t, S) \in Seq((T \ S) \cap S)
  BY Zenon, <1>1, KeepProperties
<1>3. (T \ S) \cap S = {}
  OBVIOUS
<1>4. Keep(t, S) \in Seq({})
  BY <1>2, <1>3
<1> HIDE DEF Keep
<1> QED
  BY <1>4

\* What joining two sequences does.
LEMMA Joined ==
  ASSUME NEW S, NEW q \in Seq(S), NEW k \in Seq(S)
  PROVE  /\ q \o k \in Seq(S)
         /\ Len(q) \in Nat /\ Len(k) \in Nat /\ Len(q \o k) = Len(q) + Len(k)
         /\ \A i \in 1 .. Len(q) : (q \o k)[i] = q[i]
         /\ \A i \in 1 .. Len(k) : (q \o k)[Len(q) + i] = k[i]
         /\ \A i \in 1 .. Len(q \o k) :
              \/ i \in 1 .. Len(q) /\ (q \o k)[i] = q[i]
              \/ /\ i > Len(q) /\ i - Len(q) \in 1 .. Len(k)
                 /\ (q \o k)[i] = k[i - Len(q)]
OBVIOUS

\* Two sequences with the same elements are the same.
LEMMA SameSeq ==
  ASSUME NEW S, NEW T, NEW s \in Seq(S), NEW t \in Seq(T), Len(s) = Len(t),
         \A i \in 1 .. Len(s) : s[i] = t[i]
  PROVE  s = t
OBVIOUS

\* What lies after the first k elements, of a sequence that grows.
LEMMA CutJoined ==
  ASSUME NEW S, NEW s \in Seq(S), NEW t \in Seq(S), NEW k \in 0 .. Len(s)
  PROVE  SubSeq(s \o t, k + 1, Len(s \o t)) = SubSeq(s, k + 1, Len(s)) \o t
<1> DEFINE st == s \o t
           r == SubSeq(s, k + 1, Len(s))
           a == SubSeq(st, k + 1, Len(st))
<1>1. /\ st \in Seq(S) /\ Len(s) \in Nat /\ Len(t) \in Nat /\ Len(st) = Len(s) + Len(t)
      /\ \A i \in 1 .. Len(s) : st[i] = s[i]
      /\ \A i \in 1 .. Len(t) : st[Len(s) + i] = t[i]
  BY Joined
<1>2. /\ r \in Seq(S) /\ Len(r) = Len(s) - k
      /\ \A i \in 1 .. Len(s) - k : r[i] = s[i + k]
  BY CutFront
<1> HIDE DEF st, r
<1>3. /\ a \in Seq(S) /\ Len(a) = Len(st) - k
      /\ \A i \in 1 .. Len(st) - k : a[i] = st[i + k]
  BY <1>1, CutFront
<1> HIDE DEF a
<1> DEFINE b == r \o t
<1>4. /\ b \in Seq(S) /\ Len(b) = Len(r) + Len(t)
      /\ \A i \in 1 .. Len(r) : b[i] = r[i]
      /\ \A i \in 1 .. Len(t) : b[Len(r) + i] = t[i]
  <2>1. r \in Seq(S)
    BY <1>2
  <2> QED
    BY <2>1, Joined
<1> HIDE DEF b
<1>5. ASSUME NEW i \in 1 .. Len(a) PROVE a[i] = b[i]
  <2>1. a[i] = st[i + k]
    BY <1>3
  <2>2. CASE i <= Len(s) - k
    BY <1>1, <1>2, <1>3, <1>4, <2>1, <2>2
  <2>3. CASE i > Len(s) - k
    <3>1. i - Len(r) \in 1 .. Len(t) /\ Len(s) + (i - Len(r)) = i + k /\ Len(r) + (i - Len(r)) = i
      BY <1>1, <1>2, <1>3, <2>3
    <3> QED
      BY <1>1, <1>4, <2>1, <3>1
  <2> QED
    BY <1>1, <2>2, <2>3
<1>6. a = b
  BY <1>1, <1>2, <1>3, <1>4, <1>5, SameSeq
<1> QED
  BY <1>6 DEF a, b, st, r

\* The first element after the first k.
LEMMA CutOne ==
  ASSUME NEW S, NEW s \in Seq(S), NEW k \in Nat, k < Len(s)
  PROVE  /\ SubSeq(s, k + 1, Len(s)) = <<s[k + 1]>> \o SubSeq(s, k + 2, Len(s))
         /\ SubSeq(s, k + 2, Len(s)) \in Seq(S) /\ s[k + 1] \in S
<1> DEFINE r == SubSeq(s, k + 1, Len(s))
           r2 == SubSeq(s, k + 2, Len(s))
<1>1. /\ r \in Seq(S) /\ Len(r) = Len(s) - k /\ Len(s) \in Nat
      /\ \A i \in 1 .. Len(s) - k : r[i] = s[i + k]
  BY CutFront
<1>2. /\ r2 \in Seq(S) /\ Len(r2) = Len(s) - (k + 1) /\ k + 1 \in 0 .. Len(s)
      /\ \A i \in 1 .. Len(s) - (k + 1) : r2[i] = s[i + (k + 1)]
  <2>1. k + 1 \in 0 .. Len(s) /\ (k + 1) + 1 = k + 2
    OBVIOUS
  <2> QED
    BY <2>1, CutFront
<1>3. <<s[k + 1]>> \in Seq(S) /\ s[k + 1] \in S
  OBVIOUS
<1> HIDE DEF r, r2
<1> DEFINE c == <<s[k + 1]>> \o r2
<1>4. /\ c \in Seq(S) /\ Len(c) = 1 + Len(r2)
      /\ c[1] = s[k + 1]
      /\ \A i \in 1 .. Len(r2) : c[1 + i] = r2[i]
  BY <1>2, <1>3
<1> HIDE DEF c
<1>5. ASSUME NEW i \in 1 .. Len(r) PROVE r[i] = c[i]
  <2>1. CASE i = 1
    BY <1>1, <1>4, <2>1
  <2>2. CASE i > 1
    <3>1. i - 1 \in 1 .. Len(r2) /\ 1 + (i - 1) = i /\ (i - 1) + (k + 1) = i + k
      BY <1>1, <1>2, <2>2
    <3> QED
      BY <1>1, <1>2, <1>4, <3>1
  <2>3. i = 1 \/ i > 1
    BY <1>1
  <2> QED
    BY <2>1, <2>2, <2>3
<1>6. r = c
  <2>1. Len(r) = Len(c)
    BY <1>1, <1>2, <1>4
  <2> QED
    BY <1>1, <1>4, <1>5, <2>1, SameSeq
<1> QED
  BY <1>2, <1>3, <1>6 DEF r, r2, c

\* Keeping something.
LEMMA KeepSome ==
  ASSUME NEW S, NEW T, NEW t \in Seq(T), NEW i \in 1 .. Len(t), t[i] \in S
  PROVE  Keep(t, S) # <<>>
<1> DEFINE P == {q \in Seq(T) : (\E j \in 1 .. Len(q) : q[j] \in S) => Keep(q, S) # <<>>}
<1>1. <<>> \in P
  BY EmptyIsSeq
<1>2. ASSUME NEW q \in P, NEW e \in T PROVE Append(q, e) \in P
  <2> DEFINE k == Keep(q, S)
             q2 == Append(q, e)
  <2>1. Keep(q2, S) = IF e \in S THEN Append(k, e) ELSE k
    BY KeepAppend
  <2>2. k \in Seq(T \cap S)
    BY KeepProperties
  <2>3. /\ q2 \in Seq(T) /\ Len(q2) = Len(q) + 1 /\ Len(q) \in Nat
        /\ \A j \in 1 .. Len(q) : q2[j] = q[j]
        /\ q2[Len(q) + 1] = e
    BY Appended
  <2>4. (\E j \in 1 .. Len(q) : q[j] \in S) => k # <<>>
    OBVIOUS
  <2> HIDE DEF k, q2, P
  <2>5. Append(k, e) # <<>>
    BY <2>2
  <2>6. ASSUME NEW j \in 1 .. Len(q2), q2[j] \in S PROVE Keep(q2, S) # <<>>
    <3>1. j \in 1 .. Len(q) \/ j = Len(q) + 1
      BY <2>3
    <3> QED
      BY <2>1, <2>3, <2>4, <2>5, <2>6, <3>1
  <2> QED
    BY <2>3, <2>6 DEF P, q2
<1>3. P = Seq(T)
  <2> HIDE DEF P
  <2>1. P \in SUBSET Seq(T)
    BY DEF P
  <2> QED
    BY <1>1, <1>2, <2>1, SeqInduction
<1> QED
  BY <1>3

-----------------------------------------------------------------------------
(* FlattenSeq *)

\* The equation of the recursive function in FlattenSeq.
Flat(f, seqs, i) == IF i = 1 THEN seqs[i] ELSE f[i - 1] \o seqs[i]

\* The equation has a solution.
LEMMA FlatExists ==
  ASSUME NEW seqs, NEW len \in Nat PROVE \E f : f = [i \in 1 .. len |-> Flat(f, seqs, i)]
<1> DEFINE Upto(f, n) == \A m \in 1 .. n : f[m] = Flat(f, seqs, m)
           N == {n \in Nat : \E f : Upto(f, n)}
<1>1. 0 \in N
  OBVIOUS
<1>2. ASSUME NEW n \in N PROVE n + 1 \in N
  <2>1. PICK f : Upto(f, n)
    OBVIOUS
  <2> DEFINE g == [m \in 1 .. n + 1 |-> IF m <= n THEN f[m] ELSE Flat(f, seqs, m)]
  <2>2. (\A m \in 1 .. n : g[m] = f[m]) /\ g[n + 1] = Flat(f, seqs, n + 1)
    OBVIOUS
  <2> HIDE DEF g
  <2>3. Upto(g, n + 1)
    BY <2>1, <2>2 DEF Flat
  <2> QED
    BY <2>3
<1>3. N = Nat
  <2> HIDE DEF N
  <2>1. N \in SUBSET Nat
    BY DEF N
  <2> QED
    BY <1>1, <1>2, <2>1, SetInduction
<1>4. PICK f : Upto(f, len)
  BY <1>3
<1> DEFINE g == [i \in 1 .. len |-> f[i]]
<1>5. \A m \in 1 .. len : f[m] = Flat(g, seqs, m)
  BY <1>4 DEF Flat
<1> QED
  BY <1>5

\* FlattenSeq is the value of a solution at the sequence's length.
LEMMA FlatUnfolds ==
  ASSUME NEW T, NEW seqs \in Seq(T), seqs # <<>>
  PROVE  \E f : /\ \A i \in 1 .. Len(seqs) : f[i] = Flat(f, seqs, i)
                /\ FlattenSeq(seqs) = f[Len(seqs)]
<1> DEFINE f == CHOOSE f : f = [i \in 1 .. Len(seqs) |-> Flat(f, seqs, i)]
<1>1. Len(seqs) \in Nat /\ Len(seqs) # 0
  OBVIOUS
<1>2. FlattenSeq(seqs) = f[Len(seqs)]
  BY Zenon, <1>1 DEF FlattenSeq, Flat
<1>3. f = [i \in 1 .. Len(seqs) |-> Flat(f, seqs, i)]
  BY <1>1, FlatExists
<1> HIDE DEF f
<1> QED
  BY <1>2, <1>3

\* Joining no sequences.
LEMMA FlatEmpty == FlattenSeq(<<>>) = <<>>
<1>1. Len(<<>>) = 0
  OBVIOUS
<1> QED
  BY <1>1 DEF FlattenSeq

\* Joining one more sequence.
LEMMA FlatAppend ==
  ASSUME NEW S, NEW seqs \in Seq(Seq(S)), NEW e \in Seq(S)
  PROVE  FlattenSeq(Append(seqs, e)) = FlattenSeq(seqs) \o e
<1> DEFINE more == Append(seqs, e)
<1>1. /\ more \in Seq(Seq(S)) /\ Len(more) = Len(seqs) + 1 /\ Len(seqs) \in Nat
      /\ \A i \in 1 .. Len(seqs) : more[i] = seqs[i]
      /\ more[Len(seqs) + 1] = e /\ more # <<>>
  <2>1. more \in Seq(Seq(S)) /\ Len(more) = Len(seqs) + 1 /\ Len(seqs) \in Nat
    OBVIOUS
  <2> HIDE DEF more
  <2>2. more # <<>>
    BY <2>1
  <2> QED
    BY <2>1, <2>2 DEF more
<1> HIDE DEF more
<1>2. PICK g : /\ \A i \in 1 .. Len(more) : g[i] = Flat(g, more, i)
               /\ FlattenSeq(more) = g[Len(more)]
  BY <1>1, FlatUnfolds
<1>3. CASE seqs = <<>>
  <2>1. Len(seqs) = 0
    BY <1>3
  <2>2. FlattenSeq(more) = e
    BY <1>1, <1>2, <2>1 DEF Flat
  <2>3. <<>> \o e = e
    OBVIOUS
  <2> QED
    BY <1>3, <2>2, <2>3, FlatEmpty DEF more
<1>4. CASE seqs # <<>>
  <2>1. PICK f : /\ \A i \in 1 .. Len(seqs) : f[i] = Flat(f, seqs, i)
                 /\ FlattenSeq(seqs) = f[Len(seqs)]
    BY <1>4, FlatUnfolds
  <2>2. Len(seqs) # 0
    BY <1>4
  <2> DEFINE N == {n \in Nat : n + 1 <= Len(seqs) => f[n + 1] = g[n + 1]}
  <2>3. 0 \in N
    BY <1>1, <1>2, <2>1 DEF Flat
  <2>4. ASSUME NEW n \in N PROVE n + 1 \in N
    BY <1>1, <1>2, <2>1 DEF Flat
  <2>5. N = Nat
    <3> HIDE DEF N
    <3>1. N \in SUBSET Nat
      BY DEF N
    <3> QED
      BY <2>3, <2>4, <3>1, SetInduction
  <2>6. Len(seqs) - 1 \in Nat /\ (Len(seqs) - 1) + 1 = Len(seqs)
    BY <1>1, <2>2
  <2>7. f[Len(seqs)] = g[Len(seqs)]
    <3>1. Len(seqs) - 1 \in N
      BY <2>5, <2>6
    <3> QED
      BY <1>1, <2>6, <3>1
  <2>8. g[Len(seqs) + 1] = g[Len(seqs)] \o e
    <3>1. Len(seqs) + 1 \in 1 .. Len(more) /\ Len(seqs) + 1 # 1 /\ (Len(seqs) + 1) - 1 = Len(seqs)
      BY <1>1, <2>2
    <3>2. g[Len(seqs) + 1] = Flat(g, more, Len(seqs) + 1)
      BY <1>2, <3>1
    <3> QED
      BY <1>1, <3>1, <3>2 DEF Flat
  <2> QED
    BY <1>1, <1>2, <2>1, <2>7, <2>8 DEF more
<1> QED
  BY <1>3, <1>4

\* Joining sequences adds no elements of its own.
LEMMA Flattened ==
  ASSUME NEW S, NEW seqs \in Seq(Seq(S)) PROVE FlattenSeq(seqs) \in Seq(S)
<1> DEFINE P == {q \in Seq(Seq(S)) : FlattenSeq(q) \in Seq(S)}
<1>1. <<>> \in P
  BY FlatEmpty, EmptyIsSeq
<1>2. ASSUME NEW q \in P, NEW e \in Seq(S) PROVE Append(q, e) \in P
  <2>1. q \in Seq(Seq(S)) /\ FlattenSeq(q) \in Seq(S) /\ Append(q, e) \in Seq(Seq(S))
    OBVIOUS
  <2>2. FlattenSeq(Append(q, e)) = FlattenSeq(q) \o e
    BY <2>1, FlatAppend
  <2>3. FlattenSeq(q) \o e \in Seq(S)
    BY <2>1, Joined
  <2> QED
    BY <2>1, <2>2, <2>3
<1>3. P = Seq(Seq(S))
  <2> HIDE DEF P
  <2>1. P \in SUBSET Seq(Seq(S))
    BY DEF P
  <2> QED
    BY <1>1, <1>2, <2>1, SeqInduction
<1> QED
  BY <1>3

\* Where the sequence behind the first n ends in the joined one.
Cut(seqs, n) == Len(FlattenSeq(SubSeq(seqs, 1, n)))

\* The first n + 1 of a sequence.
LEMMA FirstMore ==
  ASSUME NEW T, NEW s \in Seq(T), NEW n \in 0 .. Len(s) - 1
  PROVE  SubSeq(s, 1, n + 1) = Append(SubSeq(s, 1, n), s[n + 1])
OBVIOUS

\* In the joined sequence each one has its place, right behind the one before.
LEMMA FlatCuts ==
  ASSUME NEW S, NEW seqs \in Seq(Seq(S))
  PROVE  /\ Cut(seqs, 0) = 0 /\ Cut(seqs, Len(seqs)) = Len(FlattenSeq(seqs))
         /\ \A n \in 0 .. Len(seqs) : Cut(seqs, n) \in 0 .. Len(FlattenSeq(seqs))
         /\ \A n \in 0 .. Len(seqs) - 1 :
              /\ Cut(seqs, n + 1) = Cut(seqs, n) + Len(seqs[n + 1])
              /\ \A i \in 1 .. Len(seqs[n + 1]) :
                   FlattenSeq(seqs)[Cut(seqs, n) + i] = seqs[n + 1][i]
<1> DEFINE F(n) == FlattenSeq(SubSeq(seqs, 1, n))
           len == Len(seqs)
<1>0. len \in Nat /\ \A i \in 1 .. len : seqs[i] \in Seq(S)
  OBVIOUS
<1>1. F(0) = <<>> /\ F(len) = FlattenSeq(seqs)
  <2>1. SubSeq(seqs, 1, 0) = <<>> /\ SubSeq(seqs, 1, len) = seqs
    OBVIOUS
  <2> QED
    BY <2>1, FlatEmpty
<1>2. ASSUME NEW n \in 0 .. len PROVE F(n) \in Seq(S) /\ Len(F(n)) \in Nat
  <2>1. SubSeq(seqs, 1, n) \in Seq(Seq(S))
    OBVIOUS
  <2>2. F(n) \in Seq(S)
    BY <2>1, Flattened
  <2> QED
    BY <2>2
<1>3. ASSUME NEW n \in 0 .. len - 1
      PROVE  F(n + 1) = F(n) \o seqs[n + 1]
  <2>1. SubSeq(seqs, 1, n + 1) = Append(SubSeq(seqs, 1, n), seqs[n + 1])
    BY FirstMore
  <2>2. SubSeq(seqs, 1, n) \in Seq(Seq(S)) /\ seqs[n + 1] \in Seq(S)
    OBVIOUS
  <2> QED
    BY <2>1, <2>2, FlatAppend
<1>4. ASSUME NEW n \in 0 .. len - 1
      PROVE  /\ Len(F(n + 1)) = Len(F(n)) + Len(seqs[n + 1])
             /\ \A i \in 1 .. Len(F(n)) : F(n + 1)[i] = F(n)[i]
             /\ \A i \in 1 .. Len(seqs[n + 1]) : F(n + 1)[Len(F(n)) + i] = seqs[n + 1][i]
  <2>1. F(n) \in Seq(S) /\ seqs[n + 1] \in Seq(S)
    BY <1>0, <1>2
  <2> HIDE DEF F
  <2> QED
    BY <1>3, <2>1, Joined
<1>5. ASSUME NEW n \in 0 .. len
      PROVE  Len(F(n)) <= Len(F(len)) /\ \A i \in 1 .. Len(F(n)) : F(len)[i] = F(n)[i]
  <2> DEFINE Starts(m) == Len(F(n)) <= Len(F(m)) /\ \A i \in 1 .. Len(F(n)) : F(m)[i] = F(n)[i]
             N == {d \in Nat : n + d <= len => Starts(n + d)}
  <2>1. 0 \in N
    BY <1>2
  <2>2. ASSUME NEW d \in N PROVE d + 1 \in N
    <3> SUFFICES ASSUME n + (d + 1) <= len PROVE Starts(n + (d + 1))
      OBVIOUS
    <3> DEFINE m == n + d
    <3>1. m \in 0 .. len - 1 /\ n + (d + 1) = m + 1 /\ m \in 0 .. len /\ n \in 0 .. len
      BY <1>0
    <3>2. Starts(m)
      BY <3>1
    <3>3. /\ Len(F(m + 1)) = Len(F(m)) + Len(seqs[m + 1])
          /\ \A i \in 1 .. Len(F(m)) : F(m + 1)[i] = F(m)[i]
      BY <1>4, <3>1
    <3>4. Len(seqs[m + 1]) \in Nat /\ Len(F(m)) \in Nat /\ Len(F(n)) \in Nat
      BY <1>0, <1>2, <3>1
    <3> HIDE DEF m, F
    <3>5. Starts(m + 1)
      BY <3>2, <3>3, <3>4
    <3> QED
      BY <3>1, <3>5
  <2>3. N = Nat
    <3> HIDE DEF N
    <3>1. N \in SUBSET Nat
      BY DEF N
    <3> QED
      BY <2>1, <2>2, <3>1, SetInduction
  <2>4. len - n \in Nat /\ n + (len - n) = len /\ n + (len - n) <= len
    BY <1>0
  <2>5. \A d \in Nat : n + d <= len => Starts(n + d)
    BY <2>3
  <2>6. Starts(n + (len - n))
    <3> HIDE DEF Starts, N
    <3> QED
      BY <2>4, <2>5
  <2> QED
    BY <2>4, <2>6
<1>6. \A n \in 0 .. len : Cut(seqs, n) = Len(F(n))
  BY DEF Cut
<1> HIDE DEF F
<1>7. ASSUME NEW n \in 0 .. len - 1, NEW i \in 1 .. Len(seqs[n + 1])
      PROVE  F(len)[Len(F(n)) + i] = seqs[n + 1][i]
  <2>1. /\ n + 1 \in 0 .. len /\ n \in 0 .. len /\ Len(seqs[n + 1]) \in Nat
        /\ Len(F(n)) \in Nat
    BY <1>0, <1>2
  <2>2. /\ Len(F(n + 1)) = Len(F(n)) + Len(seqs[n + 1])
        /\ F(n + 1)[Len(F(n)) + i] = seqs[n + 1][i]
    BY <1>4
  <2>3. Len(F(n)) + i \in 1 .. Len(F(n + 1))
    BY <2>1, <2>2
  <2> QED
    BY <1>5, <2>1, <2>2, <2>3
<1>8. Len(<<>>) = 0 /\ 0 \in 0 .. len /\ len \in 0 .. len
  BY <1>0
<1>9. \A n \in 0 .. len : Len(F(n)) \in 0 .. Len(F(len))
  BY <1>2, <1>5, <1>8
<1>10. \A n \in 0 .. len - 1 : n \in 0 .. len /\ n + 1 \in 0 .. len
  BY <1>0
<1>11. Cut(seqs, 0) = 0 /\ Cut(seqs, len) = Len(FlattenSeq(seqs))
  BY <1>1, <1>6, <1>8
<1>12. \A n \in 0 .. len : Cut(seqs, n) \in 0 .. Len(FlattenSeq(seqs))
  BY <1>1, <1>6, <1>9
<1>13. ASSUME NEW n \in 0 .. len - 1
       PROVE  /\ Cut(seqs, n + 1) = Cut(seqs, n) + Len(seqs[n + 1])
              /\ \A i \in 1 .. Len(seqs[n + 1]) : FlattenSeq(seqs)[Cut(seqs, n) + i] = seqs[n + 1][i]
  BY <1>1, <1>4, <1>6, <1>7, <1>10
<1> QED
  BY <1>11, <1>12, <1>13
=============================================================================
