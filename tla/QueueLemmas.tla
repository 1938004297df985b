---------------------------- MODULE QueueLemmas ----------------------------
(* Facts that the proofs of several components share. Of the sequence      *)
(* operators that model utils/linkedList.h: Append is PushBack, Head and   *)
(* Tail are PopFront, RemoveFirst is Remove. Of functions that are defined *)
(* by recursion over finite data: that there is one, and its range. Of     *)
(* division: the number of an entry and its place in a table of rows.      *)
EXTENDS Integers, SequencesExt, WellFoundedInduction, SequenceTheorems, TLAPS

NatLess == {ss \in Nat \X Nat : ss[1] < ss[2]}

LEMMA NatLessWellFounded == IsWellFoundedOn(NatLess, Nat)
<1>1. OpToRel(<, Nat) = NatLess
  BY DEF OpToRel, NatLess
<1>2. QED
  BY <1>1, NatLessThanWellFounded

LEMMA InNatLess ==
  ASSUME NEW x \in Nat, NEW y \in Nat, x < y
  PROVE  <<x, y>> \in NatLess
BY DEF NatLess

(* A nonempty set of numbers has a least element, and Min returns it.      *)
LEMMA MinOfNats ==
  ASSUME NEW I \in SUBSET Nat, I # {}
  PROVE  Min(I) \in I /\ \A i \in I : Min(I) <= i
<1>1. PICK m \in I : \A y \in I : <<y, m>> \notin NatLess
  BY NatLessWellFounded, WFMin
<1>2. ASSUME NEW y \in I, ~(m <= y)
      PROVE  FALSE
  <2>1. y \in Nat /\ m \in Nat /\ y < m
    BY <1>2
  <2>2. QED
    BY <1>1, <2>1, InNatLess
<1>3. \A y \in I : m <= y
  BY <1>2
<1>4. QED
  BY <1>3 DEF Min

LEMMA RemoveAtIs ==
  ASSUME NEW S, NEW s \in Seq(S), NEW k \in 1 .. Len(s)
  PROVE  /\ RemoveAt(s, k) \in Seq(S)
         /\ Len(RemoveAt(s, k)) = Len(s) - 1
         /\ \A i \in 1 .. Len(s) - 1 : RemoveAt(s, k)[i] = IF i < k THEN s[i] ELSE s[i + 1]
<1> DEFINE u == SubSeq(s, 1, k - 1)
           v == SubSeq(s, k + 1, Len(s))
<1>1. Len(s) \in Nat
  OBVIOUS
<1>2. /\ u \in Seq(S) /\ Len(u) = k - 1
      /\ \A i \in 1 .. k - 1 : u[i] = s[i]
      /\ v \in Seq(S) /\ Len(v) = Len(s) - k
      /\ \A i \in 1 .. Len(s) - k : v[i] = s[i + k]
  BY <1>1
<1>3. RemoveAt(s, k) = u \o v
  BY DEF RemoveAt
<1> HIDE DEF u, v
<1>4. /\ u \o v \in Seq(S) /\ Len(u \o v) = Len(u) + Len(v)
      /\ \A i \in 1 .. Len(u) + Len(v) : (u \o v)[i] = IF i <= Len(u) THEN u[i] ELSE v[i - Len(u)]
  BY <1>2, ConcatProperties
<1>5. ASSUME NEW i \in 1 .. Len(s) - 1
      PROVE  (u \o v)[i] = IF i < k THEN s[i] ELSE s[i + 1]
  <2>1. i \in 1 .. Len(u) + Len(v)
    BY <1>1, <1>2
  <2>2. CASE i < k
    BY <1>1, <1>2, <1>4, <2>1, <2>2
  <2>3. CASE ~(i < k)
    <3>1. i - (k - 1) \in 1 .. Len(s) - k /\ (i - (k - 1)) + k = i + 1 /\ ~(i <= Len(u))
      BY <1>1, <1>2, <2>3
    <3>2. v[i - (k - 1)] = s[i + 1]
      BY <1>2, <3>1
    <3>3. QED
      BY <1>2, <1>4, <2>1, <2>3, <3>1, <3>2
  <2>4. QED
    BY <2>2, <2>3
<1>6. QED
  BY <1>1, <1>2, <1>3, <1>4, <1>5

(* Remove() deletes one entry, the first that matches, or none.            *)
LEMMA RemoveFirstIs ==
  ASSUME NEW S, NEW s \in Seq(S), NEW e,
         \E i \in 1 .. Len(s) : s[i] = e
  PROVE  \E k \in 1 .. Len(s) :
           /\ s[k] = e
           /\ \A i \in 1 .. k - 1 : s[i] # e
           /\ RemoveFirst(s, e) \in Seq(S)
           /\ Len(RemoveFirst(s, e)) = Len(s) - 1
           /\ \A i \in 1 .. Len(s) - 1 :
                RemoveFirst(s, e)[i] = IF i < k THEN s[i] ELSE s[i + 1]
<1> DEFINE I == {i \in 1 .. Len(s) : s[i] = e}
           k == Min(I)
<1>1. I \in SUBSET Nat /\ I # {} /\ Len(s) \in Nat
  OBVIOUS
<1>2. k \in I /\ \A i \in I : k <= i
  <2> HIDE DEF I
  <2> QED BY <1>1, MinOfNats
<1>3. RemoveFirst(s, e) = RemoveAt(s, k)
  BY <1>1 DEF RemoveFirst, SelectInSeq
<1>4. k \in 1 .. Len(s) /\ s[k] = e /\ \A i \in 1 .. k - 1 : s[i] # e
  <2> HIDE DEF k
  <2> QED BY <1>1, <1>2
<1> HIDE DEF I, k
<1>5. QED
  BY <1>3, <1>4, RemoveAtIs

LEMMA RemoveFirstNone ==
  ASSUME NEW s, NEW e, \A i \in 1 .. Len(s) : s[i] # e
  PROVE  RemoveFirst(s, e) = s
BY DEF RemoveFirst
----------------------------------------------------------------------------
(* What each operation does to the set of entries.                         *)

LEMMA AppendEntries ==
  ASSUME NEW S, NEW q \in Seq(S), NEW e \in S
  PROVE  Append(q, e) \in Seq(S) /\ ToSet(Append(q, e)) = ToSet(q) \union {e}
<1> DEFINE n == Len(q)
           a == Append(q, e)
<1>1. /\ a \in Seq(S) /\ n \in Nat /\ DOMAIN q = 1 .. n /\ DOMAIN a = 1 .. n + 1
      /\ \A i \in 1 .. n : a[i] = q[i]
      /\ a[n + 1] = e
  OBVIOUS
<1> HIDE DEF n, a
<1>2. \A i \in 1 .. n + 1 : i = n + 1 \/ i \in 1 .. n
  BY <1>1
<1>3. ToSet(a) \subseteq ToSet(q) \union {e}
  BY <1>1, <1>2 DEF ToSet
<1>4. \A i \in 1 .. n : i \in 1 .. n + 1
  BY <1>1
<1>5. ToSet(q) \subseteq ToSet(a)
  BY <1>1, <1>4 DEF ToSet
<1>6. n + 1 \in 1 .. n + 1
  BY <1>1
<1>7. e \in ToSet(a)
  BY <1>1, <1>6 DEF ToSet
<1>8. QED
  BY <1>1, <1>3, <1>5, <1>7 DEF a

LEMMA PopEntries ==
  ASSUME NEW S, NEW q \in Seq(S), q # <<>>
  PROVE  /\ Head(q) \in S /\ Head(q) \in ToSet(q) /\ Tail(q) \in Seq(S)
         /\ ToSet(q) = {Head(q)} \union ToSet(Tail(q))
<1>1. Len(q) \in Nat \ {0} /\ Head(q) = q[1] /\ DOMAIN q = 1 .. Len(q)
  OBVIOUS
<1>2. Tail(q) \in Seq(S) /\ DOMAIN Tail(q) = 1 .. Len(q) - 1
  OBVIOUS
<1>3. \A i \in 1 .. Len(q) - 1 : Tail(q)[i] = q[i + 1]
  BY <1>1
<1>4. ASSUME NEW i \in 1 .. Len(q), i # 1
      PROVE  q[i] \in ToSet(Tail(q))
  <2>1. i - 1 \in 1 .. Len(q) - 1 /\ Tail(q)[i - 1] = q[i]
    BY <1>1, <1>3, <1>4
  <2>2. QED
    BY <1>2, <2>1 DEF ToSet
<1>5. ASSUME NEW i \in 1 .. Len(q) - 1
      PROVE  Tail(q)[i] \in ToSet(q)
  <2>1. i + 1 \in 1 .. Len(q) /\ Tail(q)[i] = q[i + 1]
    BY <1>1, <1>3
  <2>2. QED
    BY <1>1, <2>1 DEF ToSet
<1>6. Head(q) \in S /\ Head(q) \in ToSet(q)
  BY <1>1 DEF ToSet
<1>7. QED
  BY <1>1, <1>2, <1>4, <1>5, <1>6 DEF ToSet

LEMMA RemoveEntries ==
  ASSUME NEW S, NEW q \in Seq(S), NEW e
  PROVE  /\ RemoveFirst(q, e) \in Seq(S)
         /\ ToSet(RemoveFirst(q, e)) \subseteq ToSet(q)
         /\ ToSet(q) \ {e} \subseteq ToSet(RemoveFirst(q, e))
<1> DEFINE r == RemoveFirst(q, e)
<1>1. CASE \A i \in 1 .. Len(q) : q[i] # e
  BY <1>1, RemoveFirstNone
<1>2. CASE \E i \in 1 .. Len(q) : q[i] = e
  <2>1. PICK k \in 1 .. Len(q) :
          /\ q[k] = e
          /\ r \in Seq(S) /\ Len(r) = Len(q) - 1
          /\ \A i \in 1 .. Len(q) - 1 : r[i] = IF i < k THEN q[i] ELSE q[i + 1]
    BY <1>2, RemoveFirstIs
  <2> HIDE DEF r
  <2>2. Len(q) \in Nat /\ DOMAIN q = 1 .. Len(q) /\ DOMAIN r = 1 .. Len(q) - 1
    BY <2>1
  <2>3. ASSUME NEW i \in 1 .. Len(q) - 1
        PROVE  r[i] \in ToSet(q)
    <3>1. i \in 1 .. Len(q) /\ i + 1 \in 1 .. Len(q)
      BY <2>2
    <3>2. QED
      BY <2>1, <2>2, <3>1 DEF ToSet
  <2>4. ASSUME NEW i \in 1 .. Len(q), q[i] # e
        PROVE  q[i] \in ToSet(r)
    <3>1. CASE i < k
      <4>1. i \in 1 .. Len(q) - 1 /\ r[i] = q[i]
        BY <2>1, <2>2, <3>1
      <4>2. QED
        BY <2>2, <4>1 DEF ToSet
    <3>2. CASE ~(i < k)
      <4>1. i - 1 \in 1 .. Len(q) - 1 /\ ~(i - 1 < k) /\ (i - 1) + 1 = i
        BY <2>1, <2>2, <2>4, <3>2
      <4>2. r[i - 1] = q[i]
        BY <2>1, <4>1
      <4>3. QED
        BY <2>2, <4>1, <4>2 DEF ToSet
    <3>3. QED
      BY <3>1, <3>2
  <2>5. QED
    BY <2>1, <2>2, <2>3, <2>4 DEF ToSet, r
<1>3. QED
  BY <1>1, <1>2
----------------------------------------------------------------------------
(* The same on a queue that holds no entry twice.                          *)

LEMMA AppendInjective2 ==
  ASSUME NEW S, NEW q \in Seq(S), NEW e \in S, IsInjective(q), e \notin ToSet(q)
  PROVE  IsInjective(Append(q, e))
BY DEF IsInjective, ToSet

LEMMA PopInjective ==
  ASSUME NEW S, NEW q \in Seq(S), q # <<>>, IsInjective(q)
  PROVE  IsInjective(Tail(q)) /\ ToSet(Tail(q)) = ToSet(q) \ {Head(q)}
<1>1. Len(q) \in Nat \ {0} /\ Head(q) = q[1] /\ DOMAIN q = 1 .. Len(q)
  OBVIOUS
<1>2. DOMAIN Tail(q) = 1 .. Len(q) - 1 /\ \A i \in 1 .. Len(q) - 1 : Tail(q)[i] = q[i + 1]
  BY <1>1
<1>3. IsInjective(Tail(q))
  BY <1>1, <1>2 DEF IsInjective
<1>4. ASSUME NEW i \in 1 .. Len(q) - 1
      PROVE  Tail(q)[i] # Head(q)
  BY <1>1, <1>2 DEF IsInjective
<1>5. Head(q) \notin ToSet(Tail(q))
  BY <1>2, <1>4 DEF ToSet
<1>6. QED
  BY <1>3, <1>5, PopEntries

LEMMA RemoveInjective ==
  ASSUME NEW S, NEW q \in Seq(S), NEW e, IsInjective(q)
  PROVE  /\ IsInjective(RemoveFirst(q, e))
         /\ ToSet(RemoveFirst(q, e)) = ToSet(q) \ {e}
<1> DEFINE r == RemoveFirst(q, e)
<1>1. CASE \A i \in 1 .. Len(q) : q[i] # e
  BY <1>1, RemoveFirstNone DEF ToSet
<1>2. CASE \E i \in 1 .. Len(q) : q[i] = e
  <2>1. PICK k \in 1 .. Len(q) :
          /\ q[k] = e
          /\ r \in Seq(S) /\ Len(r) = Len(q) - 1
          /\ \A i \in 1 .. Len(q) - 1 : r[i] = IF i < k THEN q[i] ELSE q[i + 1]
    BY <1>2, RemoveFirstIs
  <2> HIDE DEF r
  <2>2. Len(q) \in Nat /\ DOMAIN q = 1 .. Len(q) /\ DOMAIN r = 1 .. Len(q) - 1
    BY <2>1
  <2>3. ASSUME NEW a \in 1 .. Len(q) - 1, NEW b \in 1 .. Len(q) - 1, r[a] = r[b]
        PROVE  a = b
    <3> DEFINE from(i) == IF i < k THEN i ELSE i + 1
    <3>1. from(a) \in 1 .. Len(q) /\ from(b) \in 1 .. Len(q)
      BY <2>2
    <3>2. q[from(a)] = q[from(b)]
      BY <2>1, <2>3
    <3>3. from(a) = from(b)
      BY <2>2, <3>1, <3>2 DEF IsInjective
    <3>4. QED
      BY <3>3, <2>2
  <2>3a. IsInjective(r)
    BY <2>2, <2>3 DEF IsInjective
  <2>4. ASSUME NEW i \in 1 .. Len(q) - 1
        PROVE  r[i] # e
    BY <2>1, <2>2 DEF IsInjective
  <2>5. e \notin ToSet(r)
    BY <2>2, <2>4 DEF ToSet
  <2>6. QED
    BY <2>3a, <2>5, RemoveEntries DEF r
<1>3. QED
  BY <1>1, <1>2
-----------------------------------------------------------------------------
(* Induction over the natural numbers, for a set instead of a predicate.   *)
LEMMA NatInd ==
  ASSUME NEW P, 0 \in P, \A n \in Nat : n \in P => n + 1 \in P
  PROVE  \A n \in Nat : n \in P
<1> DEFINE I == {n \in Nat : n \notin P}
<1>1. SUFFICES ASSUME I # {} PROVE FALSE
  OBVIOUS
<1>2. PICK m \in I : \A i \in I : m <= i
  <2>1. I \in SUBSET Nat
    OBVIOUS
  <2> HIDE DEF I
  <2> QED BY <1>1, <2>1, MinOfNats
<1>3. m \in Nat /\ m \notin P /\ m # 0
  OBVIOUS
<1>4. m - 1 \in Nat /\ (m - 1) + 1 = m
  BY <1>3
<1>5. m - 1 \in P
  BY <1>2, <1>4
<1>6. QED
  BY <1>3, <1>4, <1>5

(* Outside stop, next stays in S and makes size smaller.                   *)
Descends(S, size, stop, next) ==
  /\ size \in [S -> Nat]
  /\ \A s \in S : s \notin stop => next[s] \in S /\ size[next[s]] < size[s]

(* The values of such a recursion lie in R.                                *)
Yields(S, R, stop, base, join) ==
  \A s \in S : IF s \in stop THEN base[s] \in R ELSE \A r \in R : join[<<s, r>>] \in R

(* g is the function that the recursion defines.                           *)
Solves(g, S, stop, next, base, join) ==
  \A s \in S : g[s] = IF s \in stop THEN base[s] ELSE join[<<s, g[next[s]]>>]

(* A value lies in R when the value it is computed from does.              *)
Preserves(g, S, R, stop, next) ==
  \A s \in S : IF s \in stop THEN g[s] \in R ELSE g[next[s]] \in R => g[s] \in R

(* A recursion that descends has a solution.                               *)
LEMMA RecursionExists ==
  ASSUME NEW S, NEW R, NEW size, NEW stop, NEW next, NEW base, NEW join,
         Descends(S, size, stop, next), Yields(S, R, stop, base, join)
  PROVE  \E g \in [S -> R] : Solves(g, S, stop, next, base, join)
<1> USE DEF Descends, Yields, Solves
<1> DEFINE Below(n) == {s \in S : size[s] < n}
           Body(g, s) == IF s \in stop THEN base[s] ELSE join[<<s, g[next[s]]>>]
           Upto(n, g) == g \in [Below(n) -> R] /\ \A s \in Below(n) : g[s] = Body(g, s)
           P == {n \in Nat : \E g : Upto(n, g)}
<1>1. \A n \in Nat : n \in P
  <2>1. 0 \in P
    <3>1. Below(0) = {}
      OBVIOUS
    <3>2. Upto(0, [s \in Below(0) |-> base[s]])
      BY <3>1
    <3>3. QED
      BY <3>2
  <2>2. ASSUME NEW n \in Nat, n \in P
        PROVE  n + 1 \in P
    <3>1. PICK g : Upto(n, g)
      BY <2>2
    <3> DEFINE h == [s \in Below(n + 1) |-> Body(g, s)]
    <3>2. ASSUME NEW s \in Below(n + 1)
          PROVE  Body(g, s) \in R /\ (s \notin stop => next[s] \in Below(n))
      BY <3>1
    <3>3. h \in [Below(n + 1) -> R]
      <4> HIDE DEF Body, Below, Upto
      <4> QED BY <3>2
    <3>4. ASSUME NEW s \in Below(n)
          PROVE  s \in Below(n + 1) /\ h[s] = g[s]
      <4>1. s \in Below(n + 1)
        BY DEF Below
      <4>2. h[s] = Body(g, s)
        <5> HIDE DEF Body, Below
        <5> QED BY <4>1
      <4>3. QED
        BY <3>1, <4>1, <4>2
    <3>5. ASSUME NEW s \in Below(n + 1)
          PROVE  h[s] = Body(h, s)
      <4>1. h[s] = Body(g, s)
        OBVIOUS
      <4> HIDE DEF h
      <4>2. QED
        BY <3>2, <3>4, <4>1
    <3>6. Upto(n + 1, h)
      <4> HIDE DEF h
      <4> QED BY <3>3, <3>5
    <3>7. QED
      <4> HIDE DEF Upto, h
      <4> QED BY <3>6
  <2>3. QED
    <3> HIDE DEF P
    <3> QED BY <2>1, <2>2, NatInd
<1>2. ASSUME NEW m \in Nat, NEW n \in Nat, NEW g, NEW h, Upto(m, g), Upto(n, h)
      PROVE  \A s \in S : size[s] < m /\ size[s] < n => g[s] = h[s]
  <2> DEFINE Q == {k \in Nat : \A s \in S : size[s] < k /\ size[s] < m /\ size[s] < n => g[s] = h[s]}
  <2>1. 0 \in Q
    OBVIOUS
  <2>2. ASSUME NEW k \in Nat, k \in Q
        PROVE  k + 1 \in Q
    <3>1. ASSUME NEW s \in S, size[s] < k + 1, size[s] < m, size[s] < n
          PROVE  g[s] = h[s]
      <4>1. s \in Below(m) /\ s \in Below(n)
        BY <3>1
      <4>2. g[s] = Body(g, s) /\ h[s] = Body(h, s)
        BY <1>2, <4>1
      <4>3. s \notin stop => g[next[s]] = h[next[s]]
        <5>1. ASSUME s \notin stop
              PROVE  size[next[s]] < k /\ size[next[s]] < m /\ size[next[s]] < n /\ next[s] \in S
          BY <3>1, <5>1
        <5>2. QED
          BY <2>2, <5>1
      <4>4. QED
        BY <4>2, <4>3
    <3>2. QED
      BY <3>1
  <2>3. \A k \in Nat : k \in Q
    <3> HIDE DEF Q
    <3> QED BY <2>1, <2>2, NatInd
  <2>4. ASSUME NEW s \in S, size[s] < m, size[s] < n
        PROVE  g[s] = h[s]
    <3>1. size[s] + 1 \in Q /\ size[s] < size[s] + 1
      BY <2>3
    <3>2. QED
      BY <2>4, <3>1
  <2>5. QED
    BY <2>4
<1> DEFINE part(n) == CHOOSE g : Upto(n, g)
           f == [s \in S |-> part(size[s] + 1)[s]]
<1>3. ASSUME NEW n \in Nat
      PROVE  Upto(n, part(n))
  <2>1. \E g : Upto(n, g)
    <3> HIDE DEF Upto
    <3> QED BY <1>1
  <2>2. QED
    <3> HIDE DEF Upto
    <3> QED BY <2>1
<1>4. ASSUME NEW s \in S
      PROVE  f[s] \in R /\ f[s] = Body(f, s)
  <2>1. size[s] \in Nat /\ size[s] + 1 \in Nat /\ s \in Below(size[s] + 1)
    OBVIOUS
  <2> DEFINE g == part(size[s] + 1)
  <2>2. Upto(size[s] + 1, g)
    <3> HIDE DEF Upto, part
    <3> QED BY <1>3, <2>1
  <2>3. f[s] = g[s]
    <3> HIDE DEF part
    <3> QED OBVIOUS
  <2>4. g[s] \in R /\ g[s] = Body(g, s)
    <3> HIDE DEF g, Body, Below
    <3> QED BY <2>1, <2>2
  <2>5. ASSUME s \notin stop
        PROVE  g[next[s]] = f[next[s]]
    <3>1. next[s] \in S /\ size[next[s]] < size[s] /\ size[next[s]] \in Nat
      BY <2>5
    <3>2. Upto(size[next[s]] + 1, part(size[next[s]] + 1))
      <4> HIDE DEF Upto, part
      <4> QED BY <1>3, <3>1
    <3>3. g[next[s]] = part(size[next[s]] + 1)[next[s]]
      <4>1. size[next[s]] < size[s] + 1 /\ size[next[s]] < size[next[s]] + 1
        BY <2>1, <3>1
      <4>2. size[next[s]] + 1 \in Nat
        BY <3>1
      <4> HIDE DEF Upto, part, g
      <4>3. QED
        BY <1>2, <2>1, <2>2, <3>1, <3>2, <4>1, <4>2
    <3>4. QED
      <4> HIDE DEF part, g
      <4> QED BY <3>1, <3>3
  <2>6. Body(g, s) = Body(f, s)
    <3> HIDE DEF f, g
    <3> QED BY <2>5
  <2>7. QED
    <3> HIDE DEF f, g, Body
    <3> QED BY <2>3, <2>4, <2>6
<1>5. f \in [S -> R]
  <2>1. \A s \in S : f[s] \in R
    <3> HIDE DEF f
    <3> QED BY <1>4
  <2> HIDE DEF part
  <2>2. QED
    BY <2>1
<1>6. QED
  <2> HIDE DEF f
  <2> QED BY <1>4, <1>5

(* What every step of a recursion preserves holds of all its values.       *)
LEMMA RecursionRange ==
  ASSUME NEW S, NEW R, NEW size, NEW stop, NEW next, NEW g,
         Descends(S, size, stop, next), Preserves(g, S, R, stop, next)
  PROVE  \A s \in S : g[s] \in R
<1> USE DEF Descends, Preserves
<1> DEFINE P == {n \in Nat : \A s \in S : size[s] < n => g[s] \in R}
<1>1. 0 \in P
  OBVIOUS
<1>2. ASSUME NEW n \in Nat, n \in P
      PROVE  n + 1 \in P
  <2>1. ASSUME NEW s \in S, size[s] < n + 1
        PROVE  g[s] \in R
    <3>1. CASE s \in stop
      BY <3>1
    <3>2. CASE s \notin stop
      <4>1. next[s] \in S /\ size[next[s]] < n
        BY <2>1, <3>2
      <4>2. g[next[s]] \in R
        BY <1>2, <4>1
      <4>3. QED
        BY <3>2, <4>2
    <3>3. QED
      BY <3>1, <3>2
  <2>2. QED
    BY <2>1
<1>3. \A n \in Nat : n \in P
  <2> HIDE DEF P
  <2> QED BY <1>1, <1>2, NatInd
<1>4. ASSUME NEW s \in S
      PROVE  g[s] \in R
  <2>1. size[s] + 1 \in P /\ size[s] < size[s] + 1
    BY <1>3
  <2>2. QED
    BY <2>1
<1>5. QED
  BY <1>4

(* Sequences with the same length and the same elements are equal.         *)
LEMMA SameSequence ==
  ASSUME NEW S, NEW s \in Seq(S), NEW t \in Seq(S), Len(s) = Len(t),
         \A i \in 1..Len(s) : s[i] = t[i]
  PROVE  s = t
<1>1. s \in [1..Len(s) -> S] /\ t \in [1..Len(t) -> S]
  OBVIOUS
<1>2. QED
  BY <1>1

(* The head and the tail of a sequence.                                    *)
LEMMA HeadTail ==
  ASSUME NEW S, NEW s \in Seq(S), s # <<>>
  PROVE  /\ Len(s) \in Nat \ {0} /\ Head(s) = s[1] /\ s[1] \in S
         /\ Tail(s) \in Seq(S) /\ Len(Tail(s)) = Len(s) - 1
         /\ \A k \in 1..Len(s) - 1 : Tail(s)[k] = s[k + 1]
<1>1. Len(s) \in Nat \ {0}
  OBVIOUS
<1>2. Head(s) = s[1] /\ s[1] \in S
  BY <1>1
<1>3. Tail(s) \in Seq(S) /\ Len(Tail(s)) = Len(s) - 1
  OBVIOUS
<1>4. \A k \in 1..Len(s) - 1 : Tail(s)[k] = s[k + 1]
  BY <1>1
<1>5. QED
  BY <1>1, <1>2, <1>3, <1>4

(* The first m elements of a sequence.                                     *)
LEMMA PrefixIs ==
  ASSUME NEW S, NEW s \in Seq(S), NEW m \in 0..Len(s)
  PROVE  /\ SubSeq(s, 1, m) \in Seq(S) /\ Len(SubSeq(s, 1, m)) = m
         /\ \A i \in 1..m : SubSeq(s, 1, m)[i] = s[i]
<1>1. Len(s) \in Nat /\ m \in Nat /\ \A i \in 1..m : s[i] \in S
  OBVIOUS
<1> DEFINE u == SubSeq(s, 1, m)
<1>2. /\ u \in Seq(S) /\ Len(u) = IF 1 <= m THEN (m - 1) + 1 ELSE 0
      /\ \A i \in 1..(m - 1) + 1 : u[i] = s[(1 + i) - 1]
  BY <1>1, SubSeqProperties
<1> HIDE DEF u
<1>3. Len(u) = m /\ (m - 1) + 1 = m
  BY <1>1, <1>2
<1>4. ASSUME NEW i \in 1..m
      PROVE  u[i] = s[i]
  <2>1. (1 + i) - 1 = i
    OBVIOUS
  <2>2. QED
    BY <1>2, <1>3, <2>1
<1>5. QED
  BY <1>2, <1>3, <1>4 DEF u

(* A product grows with its factors.                                       *)
LEMMA TimesMonotone ==
  ASSUME NEW a \in Nat, NEW b \in Nat, NEW c \in Nat, a <= b
  PROVE  c * a \in Nat /\ c * b \in Nat /\ c * a <= c * b /\ a * c <= b * c
<1>1. PICK x \in Nat : b = a + x
  <2>1. b - a \in Nat /\ b = a + (b - a)
    OBVIOUS
  <2>2. QED
    BY <2>1
<1>2. c * b = c * a + c * x /\ c * x \in Nat /\ c * a \in Nat
  BY <1>1
<1> DEFINE u == c * a
           v == c * x
           w == c * b
<1>3. u \in Nat /\ v \in Nat /\ w = u + v /\ a * c = u /\ b * c = w
  BY <1>2
<1> HIDE DEF u, v, w
<1>4. u <= w /\ w \in Nat
  BY <1>3
<1>5. QED
  BY <1>3, <1>4 DEF u, w

(* The last element of a sequence.                                         *)
LEMMA LastIs ==
  ASSUME NEW S, NEW s \in Seq(S), s # <<>>
  PROVE  Last(s) = s[Len(s)] /\ Last(s) \in S /\ Len(s) \in Nat \ {0}
BY DEF Last

(* The number of an entry splits into the number of its cluster and its    *)
(* place there.                                                            *)
LEMMA DivMod ==
  ASSUME NEW a \in Nat \ {0}, NEW n \in Nat \ {0}
  PROVE  /\ ((n - 1) \div a) + 1 \in Nat \ {0} /\ ((n - 1) % a) + 1 \in 1..a
         /\ n = a * ((n - 1) \div a) + (((n - 1) % a) + 1)
<1> DEFINE m == n - 1
<1>1. m \in Nat /\ n = m + 1
  OBVIOUS
<1>2. m \div a \in Nat /\ m % a \in 0..a - 1 /\ m = a * (m \div a) + (m % a)
  <2> HIDE DEF m
  <2> QED BY <1>1
<1>3. a * (m \div a) \in Nat
  BY <1>2
<1> DEFINE x == m \div a
           y == m % a
           z == a * x
<1> HIDE DEF z, y, x, m
<1>4. x \in Nat /\ y \in 0..a - 1 /\ z \in Nat /\ m = z + y
  BY <1>2, <1>3 DEF x, y, z
<1>5. x + 1 \in Nat \ {0} /\ y + 1 \in 1..a /\ n = z + (y + 1)
  BY <1>1, <1>4
<1>6. QED
  BY <1>5 DEF x, y, z, m

(* Entry n is entry i of cluster k, when a cluster has a entries.          *)
Splits(a, n, k, i) == n \in Nat \ {0} /\ ((n - 1) \div a) + 1 = k /\ ((n - 1) % a) + 1 = i

(* The split of an entry's number is the only one.                         *)
LEMMA SplitsIs ==
  ASSUME NEW a \in Nat \ {0}, NEW k \in Nat \ {0}, NEW i \in 1..a, NEW n, n = a * (k - 1) + i
  PROVE  Splits(a, n, k, i)
<1>1. PICK q \in Nat : q = k - 1
  OBVIOUS
<1>2. PICK r \in Nat : r = i - 1 /\ r < a
  OBVIOUS
<1>3. (a * q + r) \div a = q /\ (a * q + r) % a = r
  BY <1>2
<1>4. a * q \in Nat
  OBVIOUS
<1>5. (a * q + i) - 1 = a * q + r /\ a * q + i \in Nat \ {0} /\ q + 1 = k /\ r + 1 = i
  <2> DEFINE z == a * q
  <2> HIDE DEF z
  <2>1. z \in Nat
    BY <1>4 DEF z
  <2>2. (z + i) - 1 = z + r /\ z + i \in Nat \ {0} /\ q + 1 = k /\ r + 1 = i
    BY <1>1, <1>2, <2>1
  <2>3. QED
    BY <2>2 DEF z
<1>6. n - 1 = a * q + r /\ n \in Nat \ {0}
  BY <1>1, <1>5
<1>7. QED
  BY <1>3, <1>5, <1>6 DEF Splits

(* Induction up to a number.                                               *)
LEMMA CountInd ==
  ASSUME NEW n \in Nat, NEW P, 0 \in P, \A i \in 1..n : i - 1 \in P => i \in P
  PROVE  \A i \in 0..n : i \in P
<1> DEFINE Q == {i \in Nat : i \in 0..n => i \in P}
<1>1. 0 \in Q
  OBVIOUS
<1>2. ASSUME NEW i \in Nat, i \in Q
      PROVE  i + 1 \in Q
  <2>1. SUFFICES ASSUME i + 1 \in 0..n PROVE i + 1 \in P
    OBVIOUS
  <2>2. i + 1 \in 1..n /\ (i + 1) - 1 = i /\ i \in 0..n
    BY <2>1
  <2>3. i \in P
    BY <1>2, <2>2
  <2> QED
    BY <2>2, <2>3
<1>3. \A i \in Nat : i \in Q
  <2> HIDE DEF Q
  <2> QED BY <1>1, <1>2, NatInd
<1> QED
  BY <1>3

(* What every step of a count keeps holds at its end.                      *)
LEMMA CountKeeps ==
  ASSUME NEW n \in Nat, NEW R, NEW g, g[0] \in R,
         \A i \in 1..n : g[i - 1] \in R => g[i] \in R
  PROVE  \A i \in 0..n : g[i] \in R
<1> DEFINE P == {i \in 0..n : g[i] \in R}
<1>1. 0 \in P /\ \A i \in 1..n : i - 1 \in P => i \in P
  OBVIOUS
<1>2. \A i \in 0..n : i \in P
  <2> HIDE DEF P
  <2> QED BY <1>1, CountInd
<1> QED
  BY <1>2

(* A step of a count stays in R, and a function that is such a count.      *)
StepsIn(n, R, join) == \A i \in 1..n, r \in R : join[<<i, r>>] \in R
Counts(g, n, b, join) == g[0] = b /\ \A i \in 1..n : g[i] = join[<<i, g[i - 1]>>]

(* A recursion that counts has a solution.                                 *)
LEMMA CountExists ==
  ASSUME NEW n \in Nat, NEW R, NEW b \in R, NEW join, StepsIn(n, R, join)
  PROVE  \E g \in [0..n -> R] : Counts(g, n, b, join)
<1> DEFINE size == [i \in 0..n |-> i]
           next == [i \in 0..n |-> i - 1]
           base == [i \in {0} |-> b]
<1>1. Descends(0..n, size, {0}, next)
  BY DEF Descends
<1>2. Yields(0..n, R, {0}, base, join)
  BY DEF Yields, StepsIn
<1>3. PICK g \in [0..n -> R] : Solves(g, 0..n, {0}, next, base, join)
  <2> HIDE DEF size, next, base
  <2> QED BY <1>1, <1>2, RecursionExists
<1>4. g[0] = b
  <2>1. 0 \in 0..n /\ 0 \in {0} /\ base[0] = b
    OBVIOUS
  <2>2. g[0] = base[0]
    BY <1>3, <2>1 DEF Solves
  <2> QED
    BY <2>1, <2>2
<1>5. ASSUME NEW i \in 1..n
      PROVE  g[i] = join[<<i, g[i - 1]>>]
  <2>1. i \in 0..n /\ i \notin {0} /\ next[i] = i - 1
    OBVIOUS
  <2>2. g[i] = join[<<i, g[next[i]]>>]
    BY <1>3, <2>1 DEF Solves
  <2> QED
    BY <2>1, <2>2
<1> QED
  BY <1>3, <1>4, <1>5 DEF Counts
=============================================================================
