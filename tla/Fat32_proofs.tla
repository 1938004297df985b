---------------------------- MODULE Fat32_proofs ----------------------------
(***************************************************************************)
(* The file system's invariants and what follows from them.                *)
(*                                                                         *)
(* First what the proofs need of the operators: chains, directories,       *)
(* searches and paths, and what writing to the disk does to the table of   *)
(* its chains. Then the invariants: each step of the specification keeps   *)
(* them, so they hold between any two writes, and a power loss leaves the  *)
(* disk with them. Last the properties that follow, and that every step    *)
(* does to the tree of files what FileTree says.                           *)
(***************************************************************************)
EXTENDS Fat32Invariant, QueueLemmas, FiniteSetTheorems

(* What GeometryAssumption says of the numbers of the disk.                *)
LEMMA Geometry ==
  /\ LastCluster \in Nat /\ LastCluster >= 2 /\ Root = 2 /\ Free = 0 /\ Eoc = LastCluster + 1
  /\ Cluster = 2..LastCluster /\ Root \in Cluster /\ Cluster \subseteq 0..LastCluster
  /\ Eoc \notin 0..LastCluster /\ 0 \notin Cluster /\ 0 \in 0..LastCluster
  /\ Slots \in Nat \ {0} /\ ClusterSize \in Nat \ {0}
BY GeometryAssumption DEF Root, Eoc, Cluster, Free

(* A chain without repetition is shorter than the disk.                    *)
LEMMA InjectiveShort ==
  ASSUME NEW q \in Seq(Cluster), \A k, l \in 1..Len(q) : q[k] = q[l] => k = l
  PROVE  Len(q) < LastCluster
<1>1. Len(q) \in Nat /\ q \in [1..Len(q) -> Cluster]
  OBVIOUS
<1>2. q \in Injection(1..Len(q), Cluster)
  BY <1>1 DEF Injection, IsInjective
<1>3. LastCluster \in Nat /\ LastCluster >= 2 /\ Cluster = 2..LastCluster
  BY Geometry
<1>4. IsFiniteSet(Cluster) /\ Cardinality(Cluster) = LastCluster - 1
  BY <1>3, FS_Interval
<1>5. Cardinality(1..Len(q)) = Len(q)
  BY <1>1, FS_Interval
<1>6. Len(q) <= LastCluster - 1
  BY <1>2, <1>4, <1>5, FS_Injection
<1>7. QED
  BY <1>1, <1>3, <1>6

(* The recursion of Chain ends for every FAT.                              *)
LEMMA FollowIs ==
  ASSUME NEW f \in Fats
  PROVE  /\ Follow(f) \in [Strings -> Strings]
         /\ \A s \in Strings :
              Follow(f)[s] = IF f[Last(s)] = Eoc \/ Len(s) > LastCluster THEN s
                             ELSE Follow(f)[Append(s, f[Last(s)])]
<1> DEFINE size == [s \in Strings |-> IF Len(s) > LastCluster THEN 0 ELSE (LastCluster + 1) - Len(s)]
           stop == {s \in Strings : f[Last(s)] = Eoc \/ Len(s) > LastCluster}
           next == [s \in Strings |-> Append(s, f[Last(s)])]
           base == [s \in Strings |-> s]
           join == [x \in Strings \X Strings |-> x[2]]
<1>1. LastCluster \in Nat /\ Eoc = LastCluster + 1
  BY Geometry
<1>2. ASSUME NEW s \in Strings
      PROVE  s \in Seq(0..LastCluster) /\ s # <<>> /\ Len(s) \in Nat \ {0} /\ Last(s) \in 0..LastCluster
  BY LastIs DEF Strings
<1>3. size \in [Strings -> Nat]
  BY <1>1, <1>2
<1>4. ASSUME NEW s \in Strings, s \notin stop
      PROVE  /\ next[s] \in Strings /\ size[next[s]] < size[s]
             /\ \A r \in Strings : join[<<s, r>>] \in Strings
  <2>1. f[Last(s)] \in 0..LastCluster /\ ~(Len(s) > LastCluster)
    <3>1. f[Last(s)] \in 0..Eoc /\ f[Last(s)] # Eoc
      BY <1>2, <1>4 DEF Fats
    <3>2. QED
      BY <1>1, <1>4, <3>1
  <2>2. next[s] = Append(s, f[Last(s)])
    OBVIOUS
  <2>3. next[s] \in Seq(0..LastCluster) /\ Len(next[s]) = Len(s) + 1
    BY <1>2, <2>1, <2>2
  <2>4. next[s] \in Strings
    BY <1>2, <2>3 DEF Strings
  <2>5. size[next[s]] < size[s]
    BY <1>1, <1>2, <2>1, <2>3, <2>4
  <2>6. QED
    BY <2>4, <2>5
<1>5. Descends(Strings, size, stop, next)
  <2> HIDE DEF size, stop, next
  <2> QED BY <1>3, <1>4 DEF Descends
<1>6. PICK g \in [Strings -> Strings] : Solves(g, Strings, stop, next, base, join)
  <2>1. \A s \in Strings : s \in stop => base[s] \in Strings
    OBVIOUS
  <2>2. Yields(Strings, Strings, stop, base, join)
    <3> HIDE DEF size, stop, next, base, join
    <3> QED BY <1>4, <2>1 DEF Yields
  <2> HIDE DEF size, stop, next, base, join
  <2> QED BY <1>5, <2>2, RecursionExists
<1>7. ASSUME NEW s \in Strings
      PROVE  g[s] = IF f[Last(s)] = Eoc \/ Len(s) > LastCluster THEN s ELSE g[Append(s, f[Last(s)])]
  <2>1. CASE s \in stop
    BY <1>6, <2>1 DEF Solves
  <2>2. CASE s \notin stop
    <3>1. next[s] \in Strings /\ g[next[s]] \in Strings
      <4>1. next[s] \in Strings
        BY <1>4, <2>2
      <4>2. QED
        BY <1>6, <4>1
    <3>2. g[s] = join[<<s, g[next[s]]>>]
      <4> HIDE DEF stop, next, base, join
      <4> QED BY <1>6, <2>2 DEF Solves
    <3>3. join[<<s, g[next[s]]>>] = g[next[s]]
      BY <3>1
    <3>4. QED
      BY <2>2, <3>2, <3>3
  <2>3. QED
    BY <2>1, <2>2
<1>8. g = [s \in Strings |-> IF f[Last(s)] = Eoc \/ Len(s) > LastCluster THEN s ELSE g[Append(s, f[Last(s)])]]
  <2>1. g = [s \in Strings |-> g[s]]
    BY <1>6
  <2>2. QED
    BY <1>7, <2>1
<1>9. Follow(f) = [s \in Strings |-> IF f[Last(s)] = Eoc \/ Len(s) > LastCluster THEN s
                                      ELSE Follow(f)[Append(s, f[Last(s)])]]
  BY <1>8 DEF Follow
<1>10. \A s \in Strings :
         Follow(f)[s] = IF f[Last(s)] = Eoc \/ Len(s) > LastCluster THEN s
                        ELSE Follow(f)[Append(s, f[Last(s)])]
  BY <1>9
<1>11. \A s \in Strings : s \in stop => Follow(f)[s] \in Strings
  BY <1>10
<1>12. ASSUME NEW s \in Strings, s \notin stop
       PROVE  /\ next[s] \in Strings /\ size[next[s]] < size[s]
              /\ Follow(f)[next[s]] \in Strings => Follow(f)[s] \in Strings
  BY <1>4, <1>10, <1>12
<1>13. \A s \in Strings : Follow(f)[s] \in Strings
  <2> HIDE DEF size, stop, next
  <2>1. Preserves(Follow(f), Strings, Strings, stop, next)
    BY <1>11, <1>12 DEF Preserves
  <2>2. QED
    BY <1>5, <2>1, RecursionRange
<1>14. Follow(f) \in [Strings -> Strings]
  BY <1>9, <1>13
<1>15. QED
  BY <1>10, <1>14

(* Chain returns the chain that is strung from its first cluster.          *)
LEMMA StrungChain ==
  ASSUME NEW f \in Fats, NEW h, NEW q, Strung(q, h, f)
  PROVE  ChainAt(f, h) = q
<1>1. /\ q \in Seq(Cluster) /\ q # <<>> /\ q[1] = h /\ f[q[Len(q)]] = Eoc
      /\ \A k \in 1..Len(q) - 1 : f[q[k]] = q[k + 1]
      /\ \A k, l \in 1..Len(q) : q[k] = q[l] => k = l
  BY DEF Strung
<1>2. Len(q) \in Nat \ {0} /\ Len(q) < LastCluster
  BY <1>1, InjectiveShort
<1>3. LastCluster \in Nat /\ Cluster \subseteq 0..LastCluster /\ Cluster = 2..LastCluster /\ Eoc = LastCluster + 1
  BY Geometry
<1> DEFINE s(k) == SubSeq(q, 1, k)
<1>4. ASSUME NEW k \in 1..Len(q)
      PROVE  /\ s(k) \in Strings /\ Len(s(k)) = k /\ Last(s(k)) = q[k]
             /\ \A i \in 1..k : s(k)[i] = q[i]
  <2>1. s(k) \in Seq(Cluster) /\ Len(s(k)) = k /\ \A i \in 1..k : s(k)[i] = q[i]
    BY <1>1, <1>2
  <2>2. s(k) \in Seq(0..LastCluster) /\ s(k) # <<>>
    <3>1. Seq(Cluster) \subseteq Seq(0..LastCluster)
      BY <1>3
    <3> HIDE DEF s
    <3>2. QED
      BY <2>1, <3>1
  <2>3. QED
    BY <2>1, <2>2 DEF Strings, Last
<1>5. Follow(f)[s(Len(q))] = s(Len(q))
  <2>1. Len(q) \in 1..Len(q)
    BY <1>2
  <2> HIDE DEF s
  <2>2. QED
    BY <1>1, <1>4, <2>1, FollowIs
<1>6. ASSUME NEW k \in 1..Len(q) - 1
      PROVE  Follow(f)[s(k)] = Follow(f)[s(k + 1)]
  <2>1. k \in 1..Len(q) /\ k + 1 \in 1..Len(q)
    BY <1>2
  <2>2. f[q[k]] = q[k + 1] /\ q[k + 1] \in Cluster
    BY <1>1, <2>1
  <2>3. f[q[k]] # Eoc /\ ~(k > LastCluster)
    BY <1>2, <1>3, <2>1, <2>2
  <2>4. Append(s(k), q[k + 1]) = s(k + 1)
    <3>1. s(k) \in Seq(0..LastCluster) /\ s(k + 1) \in Seq(0..LastCluster) /\ q[k + 1] \in 0..LastCluster
      BY <1>3, <1>4, <2>1, <2>2 DEF Strings
    <3>2. Len(s(k)) = k /\ Len(s(k + 1)) = k + 1 /\ k \in Nat
      BY <1>4, <2>1
    <3>3. \A i \in 1..k + 1 : s(k + 1)[i] = q[i]
      BY <1>4, <2>1
    <3>4. \A i \in 1..k : s(k)[i] = q[i]
      BY <1>4, <2>1
    <3> DEFINE a == Append(s(k), q[k + 1])
    <3> HIDE DEF s
    <3>5. a \in Seq(0..LastCluster) /\ Len(a) = k + 1
      BY <3>1, <3>2
    <3>6. ASSUME NEW i \in 1..k + 1
          PROVE  a[i] = s(k + 1)[i]
      <4>1. CASE i \in 1..k
        BY <3>1, <3>2, <3>3, <3>4, <4>1
      <4>2. CASE i = k + 1
        BY <3>1, <3>2, <3>3, <4>2
      <4>3. QED
        BY <3>2, <4>1, <4>2
    <3> HIDE DEF a
    <3>7. a = s(k + 1)
      BY <3>1, <3>2, <3>5, <3>6, SameSequence
    <3>8. QED
      BY <3>7 DEF a
  <2> HIDE DEF s
  <2>5. s(k) \in Strings /\ Last(s(k)) = q[k] /\ Len(s(k)) = k
    BY <1>4, <2>1
  <2>6. Follow(f)[s(k)] = Follow(f)[Append(s(k), f[Last(s(k))])]
    BY <2>3, <2>5, FollowIs
  <2>7. QED
    BY <2>2, <2>4, <2>5, <2>6
<1> DEFINE P == {n \in Nat : n < Len(q) => Follow(f)[s(Len(q) - n)] = s(Len(q))}
<1>7. \A n \in Nat : n \in P
  <2>1. 0 \in P
    BY <1>2, <1>5
  <2>2. ASSUME NEW n \in Nat, n \in P
        PROVE  n + 1 \in P
    <3>1. ASSUME n + 1 < Len(q)
          PROVE  Follow(f)[s(Len(q) - (n + 1))] = s(Len(q))
      <4>1. Len(q) - (n + 1) \in 1..Len(q) - 1 /\ (Len(q) - (n + 1)) + 1 = Len(q) - n /\ n < Len(q)
        BY <1>2, <3>1
      <4> HIDE DEF s
      <4>2. QED
        BY <1>6, <2>2, <4>1
    <3> HIDE DEF s
    <3>2. QED
      BY <3>1
  <2>3. QED
    <3> HIDE DEF P
    <3> QED BY <2>1, <2>2, NatInd
<1>8. Follow(f)[s(1)] = s(Len(q))
  <2>1. Len(q) - 1 \in P /\ Len(q) - 1 < Len(q) /\ Len(q) - (Len(q) - 1) = 1
    <3>1. Len(q) - 1 \in Nat
      BY <1>2
    <3> HIDE DEF P
    <3>2. QED
      BY <1>2, <1>7, <3>1
  <2> HIDE DEF s
  <2>2. QED
    BY <2>1
<1>9. s(1) = <<h>> /\ s(Len(q)) = q
  <2>1. 1 \in 1..Len(q) /\ Len(q) \in 1..Len(q)
    BY <1>2
  <2>2. s(1) \in Seq(0..LastCluster) /\ s(Len(q)) \in Seq(0..LastCluster)
    BY <1>4, <2>1 DEF Strings
  <2>3. Len(s(1)) = 1 /\ Len(s(Len(q))) = Len(q) /\ s(1)[1] = h /\ \A i \in 1..Len(q) : s(Len(q))[i] = q[i]
    <3> HIDE DEF s
    <3>1. Len(s(1)) = 1 /\ \A i \in 1..1 : s(1)[i] = q[i]
      BY <1>4, <2>1
    <3>2. Len(s(Len(q))) = Len(q) /\ \A i \in 1..Len(q) : s(Len(q))[i] = q[i]
      BY <1>4, <2>1
    <3>3. s(1)[1] = q[1]
      BY <3>1
    <3> QED BY <1>1, <3>1, <3>2, <3>3
  <2>4. q \in Seq(0..LastCluster)
    BY <1>1, <1>3
  <2>5. <<h>> \in Seq(0..LastCluster) /\ Len(<<h>>) = 1 /\ <<h>>[1] = h
    BY <1>1, <1>2, <1>3
  <2> HIDE DEF s
  <2>6. s(1) = <<h>>
    BY <2>2, <2>3, <2>5, SameSequence
  <2>7. s(Len(q)) = q
    BY <2>2, <2>3, <2>4, SameSequence
  <2>8. QED
    BY <2>6, <2>7
<1>10. QED
  BY <1>8, <1>9 DEF ChainAt

(* Whatever the FAT holds, Chain returns a sequence of cluster numbers.    *)
LEMMA ChainTyped ==
  ASSUME NEW f \in Fats, NEW c \in 0..LastCluster
  PROVE  ChainAt(f, c) \in Seq(0..LastCluster) /\ ChainAt(f, c) # <<>>
<1>1. <<c>> \in Strings
  BY DEF Strings
<1>2. QED
  BY <1>1, FollowIs DEF ChainAt, Strings

(* Chain is ChainAt of the FAT.                                            *)
LEMMA ChainIs == \A c : Chain(c) = ChainAt(fat, c)
BY DEF Chain, ChainAt, Follow, Strings

(* Directory is DirectoryAt of the disk.                                   *)
LEMMA DirectoryIs == \A c : Directory(c) = DirectoryAt(fat, data, c)
BY ChainIs DEF Directory, DirectoryAt, Scan

(* The type of a cluster's contents.                                       *)
LEMMA DiskFacts ==
  ASSUME NEW d \in Disks, NEW c \in 0..LastCluster
  PROVE  d[c] \in Content /\ d[c].slots \in Seq(Slot)
BY DEF Disks, Content

(* The recursion of Directory ends for every chain.                        *)
LEMMA ScanIs ==
  ASSUME NEW d \in Disks
  PROVE  /\ Scan(d) \in [Seq(0..LastCluster) -> Seq(Slot)]
         /\ Scan(d)[<<>>] = <<>>
         /\ \A s \in Seq(0..LastCluster) :
              s # <<>> => Scan(d)[s] = d[Head(s)].slots \o Scan(d)[Tail(s)]
<1> DEFINE S == Seq(0..LastCluster)
           R == Seq(Slot)
           size == [s \in S |-> Len(s)]
           stop == {<<>>}
           next == [s \in S |-> Tail(s)]
           base == [s \in S |-> <<>>]
           join == [x \in S \X R |-> d[Head(x[1])].slots \o x[2]]
<1>1. ASSUME NEW s \in S, s # <<>>
      PROVE  /\ next[s] \in S /\ next[s] = Tail(s) /\ size[next[s]] < size[s]
             /\ d[Head(s)].slots \in Seq(Slot)
  <2>1. Head(s) \in 0..LastCluster /\ Tail(s) \in S /\ Len(Tail(s)) = Len(s) - 1 /\ Len(s) \in Nat
    BY <1>1, HeadTail
  <2>2. QED
    BY <2>1, DiskFacts
<1>2. Descends(S, size, stop, next)
  <2>1. size \in [S -> Nat]
    OBVIOUS
  <2> HIDE DEF size, next, S
  <2>2. QED
    BY <1>1, <2>1 DEF Descends
<1>3. ASSUME NEW s \in S, s # <<>>, NEW r \in R
      PROVE  join[<<s, r>>] = d[Head(s)].slots \o r /\ join[<<s, r>>] \in R
  <2>1. join[<<s, r>>] = d[Head(s)].slots \o r
    OBVIOUS
  <2>2. d[Head(s)].slots \o r \in R
    <3>1. d[Head(s)].slots \in R
      BY <1>1, <1>3
    <3> DEFINE a == d[Head(s)].slots
    <3> HIDE DEF a
    <3>2. a \in Seq(Slot) => a \o r \in Seq(Slot)
      OBVIOUS
    <3>3. QED
      BY <3>1, <3>2 DEF a
  <2>3. QED
    BY <2>1, <2>2
<1>4. Yields(S, R, stop, base, join)
  <2>1. \A s \in S : base[s] = <<>>
    OBVIOUS
  <2>2. <<>> \in R
    OBVIOUS
  <2> HIDE DEF S, R, base, join
  <2>3. QED
    BY <1>3, <2>1, <2>2 DEF Yields
<1>5. PICK g \in [S -> R] : Solves(g, S, stop, next, base, join)
  <2> HIDE DEF S, R, size, stop, next, base, join
  <2> QED BY <1>2, <1>4, RecursionExists
<1>6. ASSUME NEW s \in S
      PROVE  g[s] = IF s = <<>> THEN <<>> ELSE d[Head(s)].slots \o g[Tail(s)]
  <2>1. g[s] = IF s \in stop THEN base[s] ELSE join[<<s, g[next[s]]>>]
    <3> HIDE DEF S, R, size, stop, next, base, join
    <3> QED BY <1>5 DEF Solves
  <2>2. CASE s = <<>>
    BY <2>1, <2>2
  <2>3. CASE s # <<>>
    <3>1. next[s] = Tail(s) /\ g[next[s]] \in R
      <4>1. next[s] = Tail(s) /\ next[s] \in S
        BY <1>1, <2>3
      <4> HIDE DEF next, S, R
      <4>2. QED
        BY <1>5, <4>1
    <3>2. s \notin stop
      BY <2>3
    <3> HIDE DEF S, R, size, stop, next, base, join
    <3>3. QED
      BY <1>3, <2>1, <2>3, <3>1, <3>2
  <2>4. QED
    BY <2>2, <2>3
<1>7. g = [s \in S |-> IF s = <<>> THEN <<>> ELSE d[Head(s)].slots \o g[Tail(s)]]
  <2>1. g = [s \in S |-> g[s]]
    <3> HIDE DEF S, R, stop, next, base, join
    <3> QED BY <1>5
  <2> HIDE DEF S, R, stop, next, base, join
  <2>2. QED
    BY <1>6, <2>1
<1>8. Scan(d) = [s \in S |-> IF s = <<>> THEN <<>> ELSE d[Head(s)].slots \o Scan(d)[Tail(s)]]
  BY <1>7 DEF Scan
<1>9. \A s \in S : Scan(d)[s] = IF s = <<>> THEN <<>> ELSE d[Head(s)].slots \o Scan(d)[Tail(s)]
  <2> HIDE DEF S
  <2> QED BY <1>8
<1>10. \A s \in S : Scan(d)[s] \in R
  <2>1. ASSUME NEW s \in S, s \notin stop, Scan(d)[next[s]] \in R
        PROVE  Scan(d)[s] \in R
    <3>1. Scan(d)[s] = d[Head(s)].slots \o Scan(d)[Tail(s)] /\ next[s] = Tail(s)
      BY <1>1, <1>9, <2>1
    <3> DEFINE a == d[Head(s)].slots
               b == Scan(d)[Tail(s)]
    <3>2. a \in Seq(Slot) /\ b \in Seq(Slot)
      BY <1>1, <2>1, <3>1
    <3> HIDE DEF a, b
    <3>3. a \o b \in Seq(Slot)
      BY <3>2
    <3>4. QED
      BY <3>1, <3>3 DEF a, b
  <2>2. \A s \in S : s \in stop => Scan(d)[s] \in R
    <3>1. <<>> \in R /\ <<>> \in S
      OBVIOUS
    <3> HIDE DEF S, R
    <3>2. QED
      BY <1>9, <3>1
  <2> HIDE DEF S, R, size, stop, next
  <2>3. Preserves(Scan(d), S, R, stop, next)
    BY <2>1, <2>2 DEF Preserves
  <2>4. QED
    BY <1>2, <2>3, RecursionRange
<1>11. Scan(d) \in [S -> R]
  <2> HIDE DEF S, R
  <2> QED BY <1>8, <1>10
<1>12. <<>> \in S
  OBVIOUS
<1>13. QED
  <2> HIDE DEF S, R
  <2>1. Scan(d)[<<>>] = <<>> /\ \A s \in S : s # <<>> => Scan(d)[s] = d[Head(s)].slots \o Scan(d)[Tail(s)]
    BY <1>9, <1>12
  <2>2. QED
    BY <1>11, <2>1 DEF S, R

(* Directory returns a sequence of slots.                                  *)
LEMMA DirectoryTyped ==
  ASSUME NEW f \in Fats, NEW d \in Disks, NEW c \in 0..LastCluster
  PROVE  DirectoryAt(f, d, c) \in Seq(Slot)
BY ChainTyped, ScanIs DEF DirectoryAt

(* Clusters that are full of slots are scanned in order.                   *)
LEMMA ScanOf ==
  ASSUME NEW d \in Disks, NEW s \in Seq(0..LastCluster), Filled(d, s)
  PROVE  Scanned(d, s)
<1> DEFINE Fits(q, m) == Len(q) = m /\ \A k \in 1..m : Len(d[q[k]].slots) = Slots
           Right(q, m) == /\ Len(Scan(d)[q]) = Slots * m
                          /\ \A k \in 1..m, i \in 1..Slots :
                               Scan(d)[q][Slots * (k - 1) + i] = d[q[k]].slots[i]
           P == {m \in Nat : \A q \in Seq(0..LastCluster) : Fits(q, m) => Right(q, m)}
<1>1. 0 \in P
  <2>1. ASSUME NEW q \in Seq(0..LastCluster), Len(q) = 0
        PROVE  Len(Scan(d)[q]) = Slots * 0
    <3>1. q = <<>>
      BY <2>1
    <3>2. Slots * 0 = 0
      BY Geometry
    <3>3. Scan(d)[q] = <<>> /\ Len(<<>>) = 0
      BY <3>1, ScanIs
    <3>4. QED
      BY <3>2, <3>3
  <2>2. QED
    BY <2>1
<1>2. ASSUME NEW m \in Nat, m \in P
      PROVE  m + 1 \in P
  <2>1. ASSUME NEW q \in Seq(0..LastCluster), Fits(q, m + 1)
        PROVE  Right(q, m + 1)
    <3>1. /\ q # <<>> /\ Head(q) = q[1] /\ q[1] \in 0..LastCluster
          /\ Tail(q) \in Seq(0..LastCluster) /\ Len(Tail(q)) = m
          /\ \A k \in 1..m : Tail(q)[k] = q[k + 1]
      <4>1. q # <<>> /\ Len(q) - 1 = m
        BY <2>1
      <4>2. QED
        BY <4>1, HeadTail
    <3>2. Fits(Tail(q), m)
      <4>1. ASSUME NEW k \in 1..m
            PROVE  Len(d[Tail(q)[k]].slots) = Slots
        <5>1. k + 1 \in 1..m + 1
          OBVIOUS
        <5>2. QED
          BY <2>1, <3>1, <5>1
      <4>2. QED
        BY <3>1, <4>1
    <3>3. /\ Len(Scan(d)[Tail(q)]) = Slots * m
          /\ \A k \in 1..m, i \in 1..Slots : Scan(d)[Tail(q)][Slots * (k - 1) + i] = d[Tail(q)[k]].slots[i]
      <4>1. Right(Tail(q), m)
        <5> HIDE DEF Fits, Right
        <5> QED BY <1>2, <3>1, <3>2
      <4>2. QED
        BY <4>1
    <3> DEFINE a == d[q[1]].slots
               b == Scan(d)[Tail(q)]
    <3>4. a \in Seq(Slot) /\ b \in Seq(Slot) /\ Scan(d)[q] = a \o b
      BY <3>1, DiskFacts, ScanIs
    <3>5. Len(a) = Slots
      <4>1. 1 \in 1..m + 1
        OBVIOUS
      <4>2. QED
        BY <2>1, <4>1
    <3>6. Len(b) = Slots * m /\ \A k \in 1..m, i \in 1..Slots : b[Slots * (k - 1) + i] = d[q[k + 1]].slots[i]
      <4>1. Len(b) = Slots * m
        BY <3>3
      <4>2. ASSUME NEW k \in 1..m, NEW i \in 1..Slots
            PROVE  b[Slots * (k - 1) + i] = d[q[k + 1]].slots[i]
        <5>1. b[Slots * (k - 1) + i] = d[Tail(q)[k]].slots[i]
          BY <3>3
        <5>2. Tail(q)[k] = q[k + 1]
          BY <3>1
        <5> QED
          BY <5>1, <5>2
      <4> QED
        BY <4>1, <4>2
    <3> HIDE DEF a, b
    <3>7. /\ Len(a \o b) = Len(a) + Len(b)
          /\ \A i \in 1..Len(a) + Len(b) : (a \o b)[i] = IF i <= Len(a) THEN a[i] ELSE b[i - Len(a)]
      BY <3>4, ConcatProperties
    <3>8. Slots \in Nat /\ Slots * m \in Nat /\ Slots + Slots * m = Slots * (m + 1)
      BY Geometry
    <3>9. Len(Scan(d)[q]) = Slots * (m + 1)
      BY <3>4, <3>5, <3>6, <3>7, <3>8
    <3>10. ASSUME NEW k \in 1..m + 1, NEW i \in 1..Slots
           PROVE  Scan(d)[q][Slots * (k - 1) + i] = d[q[k]].slots[i]
      <4>1. CASE k = 1
        <5>1. Slots * (k - 1) + i = i
          BY <4>1, Geometry
        <5>2. i <= Len(a) /\ i \in 1..Len(a) + Len(b)
          BY <3>5, <3>6, <3>8
        <5>3. (a \o b)[i] = a[i]
          BY <3>7, <5>2
        <5>4. QED
          BY <3>4, <4>1, <5>1, <5>3 DEF a
      <4>2. CASE k # 1
        <5>1. PICK l \in 1..m : k = l + 1
          BY <4>2
        <5> DEFINE x == Slots * (l - 1) + i
        <5>2. x \in 1..Slots * m
          <6>1. l - 1 \in Nat /\ l \in Nat /\ l <= m
            OBVIOUS
          <6>2. Slots * (l - 1) \in Nat /\ Slots * l \in Nat /\ Slots * (l - 1) + Slots = Slots * l /\ Slots * l <= Slots * m
            BY <6>1, Geometry
          <6> DEFINE u == Slots * (l - 1)
                     v == Slots * l
                     w == Slots * m
          <6> HIDE DEF u, v, w
          <6>3. u \in Nat /\ v \in Nat /\ w \in Nat /\ u + Slots = v /\ v <= w
            BY <3>8, <6>2 DEF u, v, w
          <6>4. u + i \in 1..w
            BY <3>8, <6>3
          <6>5. QED
            BY <6>4 DEF u, w
        <5>3. Slots * (k - 1) + i = Slots + x
          <6>1. Slots * (k - 1) = Slots * (l - 1) + Slots
            <7>1. k - 1 = (l - 1) + 1 /\ l - 1 \in Nat
              BY <5>1
            <7> DEFINE y == l - 1
            <7> HIDE DEF y
            <7>2. y \in Nat /\ k - 1 = y + 1
              BY <7>1 DEF y
            <7>3. Slots * (y + 1) = Slots * y + Slots
              BY <7>2, Geometry
            <7>4. QED
              BY <7>2, <7>3 DEF y
          <6> DEFINE u == Slots * (l - 1)
          <6>2. u \in Nat
            BY Geometry
          <6> HIDE DEF u
          <6>3. (u + Slots) + i = Slots + (u + i)
            BY <3>8, <6>2
          <6>4. QED
            BY <6>1, <6>3 DEF u
        <5> HIDE DEF x
        <5>4. (a \o b)[Slots + x] = b[x]
          <6>1. Slots + x \in 1..Len(a) + Len(b) /\ ~(Slots + x <= Len(a)) /\ (Slots + x) - Len(a) = x
            BY <3>5, <3>6, <3>8, <5>2
          <6>2. QED
            BY <3>7, <6>1
        <5>5. b[x] = d[q[l + 1]].slots[i]
          BY <3>6 DEF x
        <5>6. QED
          BY <3>4, <5>1, <5>3, <5>4, <5>5
      <4>3. QED
        BY <4>1, <4>2
    <3>11. QED
      BY <3>9, <3>10
  <2>2. QED
    <3> HIDE DEF Fits, Right
    <3> QED BY <2>1
<1>3. \A m \in Nat : m \in P
  <2> HIDE DEF P
  <2> QED BY <1>1, <1>2, NatInd
<1>4. Len(s) \in Nat
  OBVIOUS
<1>5. Fits(s, Len(s))
  BY DEF Filled
<1>6. Right(s, Len(s))
  <2> HIDE DEF Fits, Right
  <2> QED BY <1>3, <1>4, <1>5
<1>7. QED
  BY <1>6 DEF Scanned

(* The types of a slot's fields, and the slots that name nothing.          *)
LEMMA SlotFacts ==
  /\ \A s \in Slot : /\ s.kind \in {"end", "deleted", "file", "dir", "dot"} /\ s.first \in 0..LastCluster
                     /\ s.size \in Lengths \union {0} /\ s.size \in Nat
                     /\ s.name \in {NoName, DotName(1), DotName(2)} \union Names
  /\ End \in Slot /\ End.kind = "end" /\ Deleted \in Slot /\ Deleted.kind = "deleted"
  /\ End.first = 0
<1>1. ASSUME NEW s \in Slot
      PROVE  s.size \in Nat
  <2>1. s.size \in Lengths \union {0}
    BY DEF Slot
  <2>2. Lengths \subseteq Nat
    BY GeometryAssumption
  <2>3. CASE s.size \in Lengths
    BY <2>2, <2>3
  <2>4. CASE s.size \in {0}
    BY <2>4
  <2>5. QED
    BY <2>1, <2>3, <2>4
<1>2. 0 \in 0..LastCluster
  BY Geometry
<1>3. End \in Slot /\ End.kind = "end" /\ End.first = 0
  BY <1>2 DEF End, Slot
<1>4. Deleted = [kind |-> "deleted", name |-> NoName, first |-> 0, size |-> 0]
  BY DEF Deleted, End
<1>5. Deleted \in Slot /\ Deleted.kind = "deleted"
  BY <1>2, <1>4 DEF Slot
<1>6. QED
  BY <1>1, <1>3, <1>5 DEF Slot

(* FindEntryInCluster is FindAt of the directory.                          *)
LEMMA FindAtIs == \A c, name : FindEntryInCluster(c, name) = FindAt(DirectoryAt(fat, data, c), name)
BY DirectoryIs DEF FindEntryInCluster, FindAt

(* The search returns the first hit, unless the end comes first.           *)
LEMMA FindIs ==
  ASSUME NEW D \in Seq(Slot), NEW name
  PROVE  FindAt(D, name) \in Nat /\ IsFind(D, name, FindAt(D, name))
<1> DEFINE I == {i \in 1..Len(D) : Hit(D[i], name)}
           n == IF I # {} THEN Min(I) ELSE 0
<1>1. SelectInSeq(D, LAMBDA s : s.kind = "end" \/ (s.kind # "deleted" /\ s.name = name)) = n
  BY DEF SelectInSeq, Hit
<1> HIDE DEF n
<1>2. FindAt(D, name) = IF n # 0 /\ D[n].kind # "end" THEN n ELSE 0
  BY <1>1 DEF FindAt
<1>3. n = 0 => I = {}
  <2>1. I # {} => Min(I) \in I
    <3>1. I \in SUBSET Nat
      OBVIOUS
    <3> HIDE DEF I
    <3>2. QED
      BY <3>1, MinOfNats
  <2>2. 0 \notin I
    OBVIOUS
  <2> HIDE DEF I
  <2>3. QED
    BY <2>1, <2>2 DEF n
<1>4. n # 0 => n \in I /\ \A i \in I : n <= i
  <2>1. I \in SUBSET Nat
    OBVIOUS
  <2> HIDE DEF I
  <2>2. QED
    BY <2>1, MinOfNats DEF n
<1>5. Len(D) \in Nat
  OBVIOUS
<1>6. CASE n = 0
  BY <1>2, <1>3, <1>6 DEF IsFind
<1>7. CASE n # 0
  <2>1. n \in 1..Len(D) /\ Hit(D[n], name) /\ \A m \in 1..n - 1 : ~Hit(D[m], name)
    <3>1. \A m \in 1..n - 1 : m \in 1..Len(D) /\ ~(n <= m)
      BY <1>4, <1>5, <1>7
    <3>2. QED
      BY <1>4, <1>7, <3>1
  <2>2. CASE D[n].kind # "end"
    BY <1>2, <1>7, <2>1, <2>2 DEF IsFind
  <2>3. CASE D[n].kind = "end"
    <3>1. ASSUME NEW m \in 1..Len(D), Hit(D[m], name)
          PROVE  \E l \in 1..m : D[l].kind = "end"
      <4>1. n <= m
        BY <1>4, <1>7, <3>1
      <4>2. n \in 1..m
        BY <2>1, <4>1
      <4>3. QED
        BY <2>3, <4>2
    <3>2. FindAt(D, name) = 0
      BY <1>2, <2>3
    <3>3. QED
      BY <3>1, <3>2 DEF IsFind
  <2>4. QED
    BY <2>2, <2>3
<1>8. QED
  BY <1>6, <1>7

(* The result of the search is the only one.                               *)
LEMMA FindUnique ==
  ASSUME NEW D, Len(D) \in Nat, NEW name, NEW m \in Nat, NEW n \in Nat,
         IsFind(D, name, m), IsFind(D, name, n)
  PROVE  m = n
<1>1. ASSUME NEW a \in Nat, NEW b \in Nat, IsFind(D, name, a), IsFind(D, name, b), a # 0, b # a
      PROVE  FALSE
  <2>1. a \in 1..Len(D) /\ D[a].kind # "end" /\ Hit(D[a], name) /\ \A l \in 1..a - 1 : ~Hit(D[l], name)
    BY <1>1 DEF IsFind
  <2>2. CASE b = 0
    <3>1. PICK l \in 1..a : D[l].kind = "end"
      BY <1>1, <2>1, <2>2 DEF IsFind
    <3>2. l \in 1..a - 1
      BY <2>1, <3>1
    <3>3. Hit(D[l], name)
      BY <3>1 DEF Hit
    <3>4. QED
      BY <2>1, <3>2, <3>3
  <2>3. CASE b # 0
    <3>1. b \in 1..Len(D) /\ Hit(D[b], name) /\ \A l \in 1..b - 1 : ~Hit(D[l], name)
      BY <1>1, <2>3 DEF IsFind
    <3>2. a \in 1..b - 1 \/ b \in 1..a - 1
      BY <1>1, <2>1, <3>1
    <3>3. QED
      BY <2>1, <3>1, <3>2
  <2>4. QED
    BY <2>2, <2>3
<1>2. QED
  BY <1>1

(* A search sees the kinds and names of the entries and nothing else.      *)
LEMMA FindSame ==
  ASSUME NEW D \in Seq(Slot), NEW E \in Seq(Slot), NEW name, Len(D) = Len(E),
         \A m \in 1..Len(D) : D[m].kind = E[m].kind /\ D[m].name = E[m].name
  PROVE  FindAt(D, name) = FindAt(E, name)
<1> DEFINE n == FindAt(D, name)
<1>1. n \in Nat /\ IsFind(D, name, n) /\ Len(D) \in Nat
  BY FindIs
<1> HIDE DEF n
<1>2. \A m \in 1..Len(D) : Hit(D[m], name) <=> Hit(E[m], name)
  BY DEF Hit
<1>3. IsFind(E, name, n)
  <2>1. CASE n = 0
    <3>1. ASSUME NEW m \in 1..Len(D), Hit(D[m], name)
          PROVE  \E l \in 1..m : E[l].kind = "end"
      <4>1. PICK l \in 1..m : D[l].kind = "end"
        BY <1>1, <2>1, <3>1 DEF IsFind
      <4>2. l \in 1..Len(D)
        BY <1>1
      <4>3. QED
        BY <4>1, <4>2
    <3>2. QED
      BY <1>2, <2>1, <3>1 DEF IsFind
  <2>2. CASE n # 0
    <3>1. n \in 1..Len(D) /\ D[n].kind # "end" /\ Hit(D[n], name) /\ \A l \in 1..n - 1 : ~Hit(D[l], name)
      BY <1>1, <2>2 DEF IsFind
    <3>2. \A l \in 1..n - 1 : l \in 1..Len(D)
      BY <1>1, <3>1
    <3>3. QED
      BY <1>2, <2>2, <3>1, <3>2 DEF IsFind
  <2>3. QED
    BY <2>1, <2>2
<1>4. FindAt(E, name) \in Nat /\ IsFind(E, name, FindAt(E, name))
  BY FindIs
<1>5. QED
  BY <1>1, <1>3, <1>4, FindUnique DEF n

(* EntryIn is EntryInAt of the disk.                                       *)
LEMMA EntryInAtIs == \A c, name : EntryIn(c, name) = EntryInAt(fat, data, c, name)
BY DirectoryIs, FindAtIs DEF EntryIn, EntryInAt

(* EntryIn is the entry that the search finds, or the end.                 *)
LEMMA EntryInIs ==
  ASSUME NEW f \in Fats, NEW d \in Disks, NEW c \in 0..LastCluster, NEW name
  PROVE  LET n == FindAt(DirectoryAt(f, d, c), name)
         IN  /\ EntryInAt(f, d, c, name) = IF c = 0 \/ n = 0 THEN End ELSE DirectoryAt(f, d, c)[n]
             /\ EntryInAt(f, d, c, name) \in Slot
<1> DEFINE D == DirectoryAt(f, d, c)
           n == FindAt(D, name)
<1>1. D \in Seq(Slot)
  BY DirectoryTyped
<1> HIDE DEF D
<1>2. n \in Nat /\ IsFind(D, name, n)
  BY <1>1, FindIs
<1> HIDE DEF n
<1>3. EntryInAt(f, d, c, name) = IF c = 0 \/ n = 0 THEN End ELSE D[n]
  BY <1>2 DEF EntryInAt, n, D
<1>4. n # 0 => n \in 1..Len(D)
  BY <1>2 DEF IsFind
<1>5. n # 0 => D[n] \in Slot
  BY <1>1, <1>4
<1>6. EntryInAt(f, d, c, name) \in Slot
  BY <1>3, <1>5, SlotFacts
<1>7. QED
  BY <1>3, <1>6 DEF D, n

(* ResolvePath is ResolveAt of the disk.                                   *)
LEMMA ResolveIs == \A p : ResolvePath(p) = ResolveAt(fat, data, p)
BY DEF ResolvePath, ResolveAt, Walk, Inside, EntryIn, EntryInAt, FindEntryInCluster, FindAt,
       Directory, DirectoryAt, Scan, Chain, ChainAt, Follow, Strings

(* Each step of a walk goes to the directory that the step before found.   *)
LEMMA WalkIs ==
  ASSUME NEW f \in Fats, NEW d \in Disks, NEW p, Len(p) \in Nat
  PROVE  \A i \in 1..Len(p) :
           /\ Walk(f, d, p)[i] = IF i = 1 THEN Root
                                 ELSE Inside[EntryInAt(f, d, Walk(f, d, p)[i - 1], p[i - 1])]
           /\ Walk(f, d, p)[i] \in 0..LastCluster
<1> DEFINE S == 1..Len(p)
           R == 0..LastCluster
           size == [i \in S |-> i]
           stop == {1}
           next == [i \in S |-> i - 1]
           base == [i \in S |-> Root]
           join == [x \in S \X R |-> Inside[EntryInAt(f, d, x[2], p[x[1] - 1])]]
<1>1. ASSUME NEW c \in R, NEW name
      PROVE  Inside[EntryInAt(f, d, c, name)] \in R
  <2>1. EntryInAt(f, d, c, name) \in Slot
    BY EntryInIs
  <2>2. \A e \in Slot : Inside[e] \in R
    BY SlotFacts, Geometry DEF Inside
  <2>3. QED
    BY <2>1, <2>2
<1>2. ASSUME NEW i \in S, i # 1
      PROVE  next[i] \in S /\ next[i] = i - 1 /\ size[next[i]] < size[i]
  BY <1>2
<1>3. Descends(S, size, stop, next)
  <2>1. size \in [S -> Nat]
    OBVIOUS
  <2> HIDE DEF size, next, S
  <2>2. QED
    BY <1>2, <2>1 DEF Descends
<1>4. ASSUME NEW i \in S, NEW r \in R
      PROVE  join[<<i, r>>] = Inside[EntryInAt(f, d, r, p[i - 1])] /\ join[<<i, r>>] \in R
  <2>1. join[<<i, r>>] = Inside[EntryInAt(f, d, r, p[i - 1])]
    OBVIOUS
  <2>2. QED
    BY <1>1, <2>1
<1>5. Root \in R
  BY Geometry
<1>6. Yields(S, R, stop, base, join)
  <2>1. \A i \in S : base[i] = Root
    OBVIOUS
  <2> HIDE DEF S, R, base, join
  <2>2. QED
    BY <1>4, <1>5, <2>1 DEF Yields
<1>7. PICK g \in [S -> R] : Solves(g, S, stop, next, base, join)
  <2> HIDE DEF S, R, size, stop, next, base, join
  <2> QED BY <1>3, <1>6, RecursionExists
<1>8. ASSUME NEW i \in S
      PROVE  g[i] = IF i = 1 THEN Root ELSE Inside[EntryInAt(f, d, g[i - 1], p[i - 1])]
  <2>1. g[i] = IF i \in stop THEN base[i] ELSE join[<<i, g[next[i]]>>]
    <3> HIDE DEF S, R, size, stop, next, base, join
    <3> QED BY <1>7 DEF Solves
  <2>2. CASE i = 1
    BY <2>1, <2>2
  <2>3. CASE i # 1
    <3>1. next[i] = i - 1 /\ next[i] \in S
      BY <1>2, <2>3
    <3>2. g[i - 1] \in R /\ i \notin stop
      <4>1. i \notin stop
        BY <2>3
      <4> HIDE DEF S, R, next, stop
      <4>2. QED
        BY <1>7, <3>1, <4>1
    <3> HIDE DEF S, R, size, stop, next, base, join
    <3>3. QED
      BY <1>4, <2>1, <2>3, <3>1, <3>2
  <2>4. QED
    BY <2>2, <2>3
<1>9. g = [i \in S |-> IF i = 1 THEN Root ELSE Inside[EntryInAt(f, d, g[i - 1], p[i - 1])]]
  <2>1. g = [i \in S |-> g[i]]
    <3> HIDE DEF S, R
    <3> QED BY <1>7
  <2> HIDE DEF S, R
  <2>2. QED
    BY <1>8, <2>1
<1> DEFINE w == Walk(f, d, p)
<1>10. w = [i \in S |-> IF i = 1 THEN Root ELSE Inside[EntryInAt(f, d, w[i - 1], p[i - 1])]]
  BY <1>9 DEF Walk
<1> HIDE DEF w
<1>11. \A i \in S : w[i] = IF i = 1 THEN Root ELSE Inside[EntryInAt(f, d, w[i - 1], p[i - 1])]
  <2> HIDE DEF S
  <2> QED BY <1>10
<1>12. \A i \in S : w[i] \in R
  <2>1. ASSUME NEW i \in S, i # 1, w[next[i]] \in R
        PROVE  w[i] \in R
    <3>1. next[i] = i - 1
      BY <1>2, <2>1
    <3> HIDE DEF S, R, next
    <3>2. QED
      BY <1>1, <1>11, <2>1, <3>1
  <2>2. \A i \in S : i = 1 => w[i] \in R
    BY <1>5, <1>11
  <2>3. \A i \in S : i \in stop <=> i = 1
    OBVIOUS
  <2> HIDE DEF S, R, size, stop, next
  <2>4. Preserves(w, S, R, stop, next)
    BY <2>1, <2>2, <2>3 DEF Preserves
  <2>5. QED
    BY <1>3, <2>4, RecursionRange
<1>13. QED
  BY <1>11, <1>12 DEF w

(* The path that is stored for a path of the program.                      *)
LEMMA StoredFacts ==
  ASSUME NEW path \in Paths
  PROVE  /\ FatPath(path) \in Seq(Names) /\ FatPath(path) # <<>>
         /\ \A i \in DOMAIN FatPath(path) : \E s \in Seq(DOMAIN Upper) : FatPath(path)[i] = StringToFatName(s)
<1>1. path \in Seq(Seq(DOMAIN Upper)) /\ path # <<>>
  BY NamesAssumption
<1>2. Len(path) \in Nat \ {0} /\ DOMAIN path = 1..Len(path) /\ \A i \in 1..Len(path) : path[i] \in Seq(DOMAIN Upper)
  BY <1>1
<1>3. FatPath(path) = [i \in 1..Len(path) |-> StringToFatName(path[i])]
  BY <1>2 DEF FatPath, Stored
<1> DEFINE q == FatPath(path)
<1>4. Range(Stored[path]) \subseteq Names
  BY DEF Names
<1>5. q = Stored[path]
  BY DEF FatPath
<1>6. \A i \in 1..Len(path) : q[i] \in Names
  <2> HIDE DEF q
  <2> QED BY <1>3, <1>4, <1>5 DEF Range, q
<1>7. q \in [1..Len(path) -> Names]
  <2> HIDE DEF q
  <2> QED BY <1>3, <1>6 DEF q
<1>8. q \in Seq(Names)
  <2> HIDE DEF q
  <2> QED BY <1>2, <1>7
<1>9. q # <<>>
  <2>1. DOMAIN q # {}
    <3> HIDE DEF q
    <3> QED BY <1>2, <1>7
  <2> HIDE DEF q
  <2>2. QED
    BY <2>1
<1>10. QED
  BY <1>2, <1>3, <1>8, <1>9

(* The parts of a stored path.                                             *)
LEMMA PathFacts ==
  ASSUME NEW p \in FatPaths
  PROVE  /\ p \in Seq(Names) /\ p # <<>> /\ Len(p) \in Nat \ {0}
         /\ Last(p) \in Names /\ Last(p) = p[Len(p)]
         /\ Front(p) \in Seq(Names) /\ Front(p) = SubSeq(p, 1, Len(p) - 1)
         /\ p = Append(Front(p), Last(p))
         /\ \A i \in 1..Len(p) : p[i] \in Names
<1>1. p \in Seq(Names) /\ p # <<>>
  BY StoredFacts DEF FatPaths
<1>2. Len(p) \in Nat \ {0} /\ \A i \in 1..Len(p) : p[i] \in Names
  BY <1>1
<1>3. Last(p) = p[Len(p)] /\ Last(p) \in Names
  BY <1>2 DEF Last
<1>4. Front(p) = SubSeq(p, 1, Len(p) - 1) /\ Front(p) \in Seq(Names)
  BY <1>1, <1>2 DEF Front
<1> DEFINE u == SubSeq(p, 1, Len(p) - 1)
           a == Append(u, p[Len(p)])
<1>5. u \in Seq(Names) /\ Len(u) = Len(p) - 1 /\ \A i \in 1..Len(p) - 1 : u[i] = p[i]
  <2>1. Len(p) - 1 \in 0..Len(p)
    BY <1>2
  <2>2. QED
    BY <1>1, <2>1, PrefixIs
<1> HIDE DEF u
<1>6. a \in Seq(Names) /\ Len(a) = Len(p)
  BY <1>2, <1>5
<1>7. ASSUME NEW i \in 1..Len(p)
      PROVE  a[i] = p[i]
  <2>1. CASE i = Len(p)
    BY <1>2, <1>5, <2>1
  <2>2. CASE i # Len(p)
    <3>1. i \in 1..Len(p) - 1
      BY <1>2, <2>2
    <3>2. QED
      BY <1>5, <3>1
  <2>3. QED
    BY <2>1, <2>2
<1>8. a = p
  <2> HIDE DEF a
  <2> QED BY <1>1, <1>6, <1>7, SameSequence
<1>9. QED
  BY <1>1, <1>2, <1>3, <1>4, <1>8 DEF u

(* No name of a path is stored as the name of a dot entry.                 *)
LEMMA NoDots == DotName(1) \notin Names /\ DotName(2) \notin Names
<1> SUFFICES ASSUME NEW n \in {1, 2}, DotName(n) \in Names
             PROVE  FALSE
  OBVIOUS
<1>1. PICK path \in Paths : DotName(n) \in Range(Stored[path])
  BY DEF Names
<1>2. PICK i \in DOMAIN FatPath(path) : DotName(n) = FatPath(path)[i]
  BY <1>1 DEF Range, FatPath
<1>3. PICK s \in Seq(DOMAIN Upper) : DotName(n) = StringToFatName(s)
  BY <1>2, StoredFacts
<1> DEFINE cap == [j \in DOMAIN s |-> Upper[s[j]]]
           I == {j \in 1..Len(s) : s[j] = "."}
           dot == IF I # {} THEN Min(I) ELSE 0
           stem == IF dot = 0 THEN Len(s) ELSE dot - 1
           m == IF stem < NameLength THEN stem ELSE NameLength
<1>4. StringToFatName(s)[1] = SubSeq(cap, 1, m)
  BY DEF StringToFatName, SelectInSeq
<1>5. DotName(n)[1] = [j \in 1..n |-> "."]
  BY DEF DotName
<1>6. SubSeq(cap, 1, m) = [j \in 1..n |-> "."]
  BY <1>3, <1>4, <1>5
<1>7. dot \in Nat /\ (dot # 0 => dot \in I) /\ (dot = 0 => I = {}) /\ \A j \in I : dot <= j
  <2>1. I \in SUBSET Nat /\ 0 \notin I
    OBVIOUS
  <2> HIDE DEF I
  <2>2. I # {} => Min(I) \in I /\ \A j \in I : Min(I) <= j
    BY <2>1, MinOfNats
  <2>3. QED
    BY <2>1, <2>2
<1>8. Len(s) \in Nat /\ DOMAIN s = 1..Len(s) /\ dot <= Len(s) /\ NameLength \in Nat
  BY <1>7, NamesAssumption
<1> HIDE DEF dot
<1>9. stem \in 0..Len(s)
  BY <1>7, <1>8
<1> HIDE DEF stem
<1>10. m \in 0..Len(s) /\ m <= stem
  BY <1>8, <1>9
<1> HIDE DEF m
<1>11. SubSeq(cap, 1, m) = [j \in 1..m |-> cap[j]]
  <2>1. cap \in Seq({Upper[ch] : ch \in DOMAIN Upper}) /\ Len(cap) = Len(s)
    <3>1. \A j \in 1..Len(s) : s[j] \in DOMAIN Upper
      BY <1>8
    <3>2. cap \in [1..Len(s) -> {Upper[ch] : ch \in DOMAIN Upper}]
      BY <1>8, <3>1
    <3> HIDE DEF cap
    <3>3. QED
      BY <1>8, <3>2
  <2> HIDE DEF cap
  <2> DEFINE u == SubSeq(cap, 1, m)
  <2>2. /\ u \in Seq({Upper[ch] : ch \in DOMAIN Upper}) /\ Len(u) = m
        /\ \A j \in 1..m : u[j] = cap[j]
    BY <1>10, <2>1, PrefixIs
  <2> HIDE DEF u
  <2>3. u = [j \in 1..m |-> cap[j]]
    <3>1. u = [j \in 1..m |-> u[j]]
      BY <2>2
    <3>2. QED
      BY <2>2, <3>1
  <2>4. QED
    BY <2>3 DEF u
<1>12. m = n /\ cap[1] = "."
  <2> HIDE DEF cap
  <2>1. [j \in 1..m |-> cap[j]] = [j \in 1..n |-> "."]
    BY <1>6, <1>11
  <2>2. 1..m = 1..n
    <3>1. DOMAIN [j \in 1..m |-> cap[j]] = 1..m /\ DOMAIN [j \in 1..n |-> "."] = 1..n
      OBVIOUS
    <3>2. QED
      BY <2>1, <3>1
  <2>3. m = n
    <3>1. m \in Nat /\ n \in Nat
      BY <1>10
    <3>2. (m <= n \/ m \in 1..m) /\ (n <= m \/ n \in 1..n)
      BY <3>1
    <3>3. QED
      BY <2>2, <3>1, <3>2
  <2>4. 1 \in 1..m /\ 1 \in 1..n
    BY <2>3
  <2>5. [j \in 1..m |-> cap[j]][1] = cap[1] /\ [j \in 1..n |-> "."][1] = "."
    BY <2>4
  <2>6. QED
    BY <2>1, <2>3, <2>5
<1>13. 1 \in 1..Len(s)
  BY <1>10, <1>12
<1>14. cap[1] = Upper[s[1]] /\ s[1] \in DOMAIN Upper
  BY <1>8, <1>13
<1>15. s[1] = "."
  BY <1>12, <1>14, NamesAssumption
<1>16. 1 \in I
  BY <1>13, <1>15
<1>17. dot = 1
  BY <1>7, <1>16
<1>18. stem = 0
  BY <1>17 DEF stem
<1>19. QED
  BY <1>10, <1>12, <1>18

(* The operators of the model are those of the disk.                       *)
LEMMA OfState ==
  /\ \A c, n : Place(c, n) = PlaceAt(fat, c, n)
  /\ \A p : ResolvePath(p) = ResolveAt(fat, data, p)
  /\ \A p : PlaceOf(p) = WhereAt(fat, data, p)
<1>1. \A c, n : Place(c, n) = PlaceAt(fat, c, n)
  BY ChainIs DEF Place, PlaceAt
<1>2. \A p : ResolvePath(p) = ResolveAt(fat, data, p)
  BY ResolveIs
<1>3. \A p : PlaceOf(p) = WhereAt(fat, data, p)
  BY <1>1, <1>2, FindAtIs DEF PlaceOf, WhereAt
<1>4. QED
  BY <1>1, <1>2, <1>3

(* ResolvePath returns a cluster number or 0.                              *)
LEMMA ResolveTyped ==
  ASSUME NEW f \in Fats, NEW d \in Disks, NEW p \in FatPaths
  PROVE  ResolveAt(f, d, p) \in 0..LastCluster
<1>1. Len(p) \in 1..Len(p) /\ Len(p) \in Nat
  BY PathFacts
<1>2. QED
  BY <1>1, WalkIs DEF ResolveAt

(* EntryOf is EntryAt of the disk.                                         *)
LEMMA EntryOfIs ==
  ASSUME fat \in Fats, data \in Disks, NEW p \in FatPaths
  PROVE  EntryOf(p) = EntryAt(fat, data, p) /\ EntryOf(p) \in Slot
<1>1. ResolvePath(p) \in 0..LastCluster /\ ResolvePath(p) = ResolveAt(fat, data, p)
  BY ResolveTyped, OfState
<1>2. EntryOf(p) = EntryIn(ResolvePath(p), Last(p))
  BY <1>1 DEF EntryOf
<1>3. QED
  BY <1>1, <1>2, EntryInAtIs, EntryInIs DEF EntryAt

(* The entries of a directory, in the order they are scanned, are the      *)
(* slots of its chain.                                                     *)
LEMMA DirTidy ==
  ASSUME NEW f \in Fats, NEW d \in Disks, NEW h, NEW q, Strung(q, h, f),
         \A k \in 1..Len(q) : Len(d[q[k]].slots) = Slots
  PROVE  /\ DirectoryAt(f, d, h) \in Seq(Slot) /\ Len(DirectoryAt(f, d, h)) = Slots * Len(q)
         /\ \A n \in 1..Len(DirectoryAt(f, d, h)) :
              \E k \in 1..Len(q), i \in 1..Slots :
                /\ n = Slots * (k - 1) + i
                /\ PlaceAt(f, h, n) = <<q[k], i>>
                /\ DirectoryAt(f, d, h)[n] = d[q[k]].slots[i]
         /\ \A k \in 1..Len(q), i \in 1..Slots :
              /\ Slots * (k - 1) + i \in 1..Slots * Len(q)
              /\ PlaceAt(f, h, Slots * (k - 1) + i) = <<q[k], i>>
              /\ DirectoryAt(f, d, h)[Slots * (k - 1) + i] = d[q[k]].slots[i]
<1>1. q \in Seq(Cluster) /\ q # <<>> /\ q[1] = h /\ Len(q) \in Nat \ {0}
  BY DEF Strung
<1>2. ChainAt(f, h) = q
  BY StrungChain
<1>3. q \in Seq(0..LastCluster) /\ h \in 0..LastCluster
  BY <1>1, Geometry
<1> DEFINE D == DirectoryAt(f, d, h)
<1>4. D = Scan(d)[q]
  BY <1>2 DEF DirectoryAt
<1>5. D \in Seq(Slot)
  BY <1>3, DirectoryTyped
<1>6. /\ Len(D) = Slots * Len(q)
      /\ \A k \in 1..Len(q), i \in 1..Slots : D[Slots * (k - 1) + i] = d[q[k]].slots[i]
  BY <1>3, <1>4, ScanOf DEF Filled, Scanned
<1> HIDE DEF D
<1>7. Slots \in Nat \ {0}
  BY Geometry
<1>8. ASSUME NEW k \in 1..Len(q), NEW i \in 1..Slots
      PROVE  PlaceAt(f, h, Slots * (k - 1) + i) = <<q[k], i>>
  <2> DEFINE n == Slots * (k - 1) + i
  <2>1. k \in Nat \ {0}
    BY <1>1
  <2>2. Splits(Slots, n, k, i)
    <3> HIDE DEF n
    <3>1. n = Slots * (k - 1) + i
      BY DEF n
    <3>2. QED
      BY <1>7, <2>1, <3>1, SplitsIs
  <2> HIDE DEF n
  <2>3. PlaceAt(f, h, n) = <<q[k], i>>
    BY <1>2, <2>2 DEF PlaceAt, Splits
  <2>4. QED
    BY <2>3 DEF n
<1>9. ASSUME NEW k \in 1..Len(q), NEW i \in 1..Slots
      PROVE  Slots * (k - 1) + i \in 1..Slots * Len(q)
  <2> DEFINE u == Slots * (k - 1)
             v == Slots * k
             w == Slots * Len(q)
  <2>1. u \in Nat /\ v \in Nat /\ w \in Nat /\ u + Slots = v
    <3>1. PICK m \in Nat : m = k - 1
      BY <1>1
    <3>2. Slots * (m + 1) = Slots * m + Slots /\ Slots * m \in Nat /\ Slots * Len(q) \in Nat
      BY <1>1, <1>7
    <3>3. k = m + 1
      BY <1>1, <3>1
    <3>4. QED
      BY <3>1, <3>2, <3>3
  <2>2. v <= w
    <3>1. k \in Nat /\ Len(q) \in Nat /\ k <= Len(q)
      BY <1>1
    <3>2. QED
      BY <1>7, <3>1, TimesMonotone
  <2> HIDE DEF u, v, w
  <2>3. u + i \in 1..w
    BY <1>7, <2>1, <2>2
  <2>4. QED
    BY <2>3 DEF u, w
<1>10. ASSUME NEW n \in 1..Len(D)
       PROVE  \E k \in 1..Len(q), i \in 1..Slots :
                /\ n = Slots * (k - 1) + i
                /\ PlaceAt(f, h, n) = <<q[k], i>>
                /\ D[n] = d[q[k]].slots[i]
  <2>1. Len(D) \in Nat /\ n \in Nat \ {0} /\ n <= Slots * Len(q)
    BY <1>5, <1>6
  <2> DEFINE k == ((n - 1) \div Slots) + 1
             i == ((n - 1) % Slots) + 1
  <2>2. k \in Nat \ {0} /\ i \in 1..Slots /\ n = Slots * (k - 1) + i
    <3> DEFINE x == (n - 1) \div Slots
    <3>1. x + 1 \in Nat \ {0} /\ i \in 1..Slots /\ n = Slots * x + i /\ x \in Nat
      BY <1>7, <2>1, DivMod
    <3> HIDE DEF x
    <3>2. (x + 1) - 1 = x
      BY <3>1
    <3>3. QED
      BY <3>1, <3>2 DEF x
  <2> HIDE DEF k, i
  <2>3. k <= Len(q)
    <3>1. SUFFICES ASSUME k >= Len(q) + 1 PROVE FALSE
      BY <1>1, <2>2
    <3>2. Slots * (k - 1) >= Slots * Len(q)
      <4>1. k - 1 \in Nat /\ Len(q) \in Nat /\ k - 1 >= Len(q)
        BY <1>1, <2>2, <3>1
      <4> DEFINE m == k - 1
      <4> HIDE DEF m
      <4>2. m \in Nat /\ m >= Len(q)
        BY <4>1 DEF m
      <4>3. Slots * m >= Slots * Len(q)
        BY <1>7, <4>1, <4>2, TimesMonotone
      <4>4. QED
        BY <4>3 DEF m
    <3> DEFINE u == Slots * (k - 1)
               w == Slots * Len(q)
    <3>3. u \in Nat /\ w \in Nat /\ u >= w /\ n <= w /\ n = u + i
      BY <1>1, <1>7, <2>1, <2>2, <3>2
    <3> HIDE DEF u, w
    <3>4. QED
      BY <2>2, <3>3
  <2>4. k \in 1..Len(q)
    BY <1>1, <2>2, <2>3
  <2>5. PlaceAt(f, h, n) = <<q[k], i>> /\ D[n] = d[q[k]].slots[i]
    BY <1>6, <1>8, <2>2, <2>4
  <2>6. QED
    BY <2>2, <2>4, <2>5
<1>11. QED
  BY <1>5, <1>6, <1>8, <1>9, <1>10 DEF D

(* Facts about a row of the table.                                         *)
LEMMA RowFacts ==
  ASSUME NEW f \in Fats, NEW t, Table(t, f), NEW h \in DOMAIN t
  PROVE  /\ h \in Cluster /\ h \in 0..LastCluster /\ h # 0
         /\ t[h] \in Node /\ t[h].chain \in Seq(Cluster) /\ t[h].path \in Seq(Names)
         /\ t[h].kind \in {"file", "dir"}
         /\ Strung(t[h].chain, h, f)
         /\ Len(t[h].chain) \in Nat \ {0} /\ Len(t[h].chain) < LastCluster
         /\ h \in Of(t, h) /\ Of(t, h) \subseteq Cluster
         /\ \A k \in 1..Len(t[h].chain) : t[h].chain[k] \in Cluster /\ t[h].chain[k] \in Of(t, h)
         /\ Last(t[h].chain) = t[h].chain[Len(t[h].chain)]
<1>1. h \in Cluster /\ t[h] \in Node /\ Strung(t[h].chain, h, f)
  BY DEF Table
<1>2. h \in 0..LastCluster /\ h # 0
  BY <1>1, Geometry
<1>3. t[h].chain \in Seq(Cluster) /\ t[h].path \in Seq(Names) /\ t[h].kind \in {"file", "dir"}
  BY <1>1 DEF Node
<1> DEFINE q == t[h].chain
<1>4. /\ q \in Seq(Cluster) /\ q # <<>> /\ q[1] = h
      /\ \A k, l \in 1..Len(q) : q[k] = q[l] => k = l
  BY <1>1 DEF Strung
<1>5. Len(q) \in Nat \ {0} /\ Len(q) < LastCluster
  <2> HIDE DEF q
  <2> QED BY <1>4, InjectiveShort
<1>6. \A k \in 1..Len(q) : q[k] \in Cluster /\ q[k] \in Of(t, h)
  BY <1>4 DEF Of
<1>7. h \in Of(t, h)
  <2>1. 1 \in 1..Len(q)
    BY <1>5
  <2>2. QED
    BY <1>4, <1>6, <2>1
<1>8. Of(t, h) \subseteq Cluster
  BY <1>4 DEF Of
<1>9. Last(q) = q[Len(q)]
  BY DEF Last
<1>10. QED
  BY <1>1, <1>2, <1>3, <1>5, <1>6, <1>7, <1>8, <1>9

(* A directory of the table is one of its rows.                            *)
LEMMA DirRow ==
  ASSUME NEW f \in Fats, NEW t, Table(t, f), NEW h \in Dirs(t)
  PROVE  h \in DOMAIN t /\ t[h].kind = "dir" /\ Of(t, h) \subseteq InDirs(t)
BY DEF Dirs, InDirs

(* An entry that a search of a directory of the table finds is a slot of   *)
(* the directory, and has the name.                                        *)
LEMMA FoundTidy ==
  ASSUME NEW f \in Fats, NEW d \in Disks, NEW t, Table(t, f), Listed(t, d),
         NEW h \in Dirs(t), NEW name, NEW n, n = FindAt(DirectoryAt(f, d, h), name), n # 0,
         NEW place, place = PlaceAt(f, h, n)
  PROVE  /\ place = <<place[1], place[2]>> /\ place[1] \in Of(t, h) /\ place[2] \in 1..Slots
         /\ DirectoryAt(f, d, h)[n] = At(d, place)
         /\ At(d, place) \in Slot /\ At(d, place).kind \notin {"end", "deleted"}
         /\ At(d, place).name = name
         /\ Proper(t, t[h].path, At(d, place))
<1> DEFINE D == DirectoryAt(f, d, h)
           q == t[h].chain
<1>1. h \in DOMAIN t
  BY DirRow
<1>2. Strung(q, h, f) /\ \A k \in 1..Len(q) : q[k] \in Of(t, h)
  BY <1>1, RowFacts
<1>3. \A k \in 1..Len(q) : Len(d[q[k]].slots) = Slots
  BY <1>2 DEF Listed
<1>4. /\ D \in Seq(Slot)
      /\ \A m \in 1..Len(D) :
              \E k \in 1..Len(q), i \in 1..Slots :
                /\ m = Slots * (k - 1) + i
                /\ PlaceAt(f, h, m) = <<q[k], i>>
                /\ D[m] = d[q[k]].slots[i]
  <2> HIDE DEF q
  <2> QED BY <1>2, <1>3, DirTidy
<1> HIDE DEF D
<1>5. n \in 1..Len(D) /\ D[n].kind # "end" /\ Hit(D[n], name)
  BY <1>4, FindIs DEF D, IsFind
<1>6. PICK k \in 1..Len(q), i \in 1..Slots : place = <<q[k], i>> /\ D[n] = d[q[k]].slots[i]
  <2> HIDE DEF q
  <2> QED BY <1>4, <1>5
<1>7. place[1] = q[k] /\ place[2] = i
  BY <1>6
<1>8. D[n] \in Slot /\ D[n] = At(d, place)
  BY <1>4, <1>5, <1>6, <1>7 DEF At
<1>9. D[n].kind \notin {"end", "deleted"} /\ D[n].name = name
  BY <1>5 DEF Hit
<1>10. place[1] \in Of(t, h)
  BY <1>2, <1>7
<1>11. Proper(t, t[h].path, At(d, place))
  BY <1>7, <1>10 DEF Listed, At
<1>12. QED
  BY <1>6, <1>7, <1>8, <1>9, <1>10, <1>11 DEF D

(* The entry with a name in a directory of the table.                      *)
LEMMA EntryTidy ==
  ASSUME NEW f \in Fats, NEW d \in Disks, NEW t, Table(t, f), Listed(t, d),
         NEW h \in Dirs(t), NEW name \in Names, EntryInAt(f, d, h, name).kind # "end"
  PROVE  /\ FindAt(DirectoryAt(f, d, h), name) # 0
         /\ Rests(t, d, h, name, PlaceAt(f, h, FindAt(DirectoryAt(f, d, h), name)), EntryInAt(f, d, h, name))
<1> DEFINE e == EntryInAt(f, d, h, name)
           place == PlaceAt(f, h, FindAt(DirectoryAt(f, d, h), name))
<1> DEFINE n == FindAt(DirectoryAt(f, d, h), name)
<1>1. h \in 0..LastCluster /\ h # 0
  BY DirRow, RowFacts
<1>2. e = IF n = 0 THEN End ELSE DirectoryAt(f, d, h)[n]
  BY <1>1, EntryInIs
<1>3. n # 0
  BY <1>2, SlotFacts
<1> DEFINE D == DirectoryAt(f, d, h)
<1> HIDE DEF n, e
<1>4. /\ place = <<place[1], place[2]>> /\ place[1] \in Of(t, h) /\ place[2] \in 1..Slots
      /\ DirectoryAt(f, d, h)[n] = At(d, place)
      /\ At(d, place) \in Slot /\ At(d, place).kind \notin {"end", "deleted"}
      /\ At(d, place).name = name
      /\ Proper(t, t[h].path, At(d, place))
  <2> HIDE DEF place
  <2>1. place = PlaceAt(f, h, n)
    BY DEF place, n
  <2>2. QED
    BY <1>3, <2>1, FoundTidy DEF n
<1>5. e = At(d, place)
  BY <1>2, <1>3, <1>4
<1>6. e.kind # "dot"
  BY <1>4, <1>5 DEF Proper
<1>7. Live(e)
  BY <1>4, <1>5, <1>6, SlotFacts DEF Live
<1>8. QED
  <2> HIDE DEF place
  <2>1. Rests(t, d, h, name, place, e)
    BY <1>4, <1>5, <1>7 DEF Proper, Rests
  <2>2. QED
    BY <1>3, <2>1 DEF n, place, e

(* A step of a walk goes from a directory of the table to the next one.    *)
LEMMA StepTidy ==
  ASSUME NEW f \in Fats, NEW d \in Disks, NEW t, Table(t, f), Listed(t, d),
         NEW p \in Seq(Names), NEW i \in 2..Len(p), NEW c, Reaches(t, p, i - 1, c)
  PROVE  Reaches(t, p, i, Inside[EntryInAt(f, d, c, p[i - 1])])
<1> DEFINE name == p[i - 1]
           e == EntryInAt(f, d, c, name)
<1>1. i \in Nat /\ Len(p) \in Nat /\ i - 1 \in 1..Len(p) /\ name \in Names
  BY DEF name
<1>2. CASE c = 0
  <2>1. e = End
    BY <1>2 DEF EntryInAt
  <2>2. Inside[End] = 0
    BY SlotFacts DEF Inside
  <2>3. QED
    BY <2>1, <2>2 DEF Reaches
<1>3. CASE c # 0
  <2>1. c \in Dirs(t) /\ t[c].path = SubSeq(p, 1, (i - 1) - 1)
    BY <1>3 DEF Reaches
  <2>2. c \in DOMAIN t /\ c \in 0..LastCluster
    BY <2>1, DirRow, RowFacts
  <2>3. e \in Slot
    BY <2>2, EntryInIs
  <2> HIDE DEF e
  <2>4. CASE e.kind # "dir"
    <3>1. Inside[e] = 0
      BY <2>3, <2>4 DEF Inside
    <3>2. QED
      BY <3>1 DEF Reaches, e
  <2>5. CASE e.kind = "dir"
    <3>1. e.name = name /\ Named(t, t[c].path, e)
      BY <1>1, <2>1, <2>5, EntryTidy DEF e, Rests
    <3>2. e.first \in DOMAIN t /\ t[e.first].kind = "dir" /\ t[e.first].path = Append(t[c].path, name)
      BY <2>5, <3>1 DEF Named
    <3>3. e.first # 0
      BY <3>2, RowFacts
    <3>4. Inside[e] = e.first
      BY <2>3, <2>5, <3>3 DEF Inside
    <3>5. Append(SubSeq(p, 1, (i - 1) - 1), p[i - 1]) = SubSeq(p, 1, i - 1)
      <4> DEFINE u == SubSeq(p, 1, (i - 1) - 1)
                 v == SubSeq(p, 1, i - 1)
      <4>1. (i - 1) - 1 \in 0..Len(p) /\ i - 1 \in 0..Len(p)
        BY <1>1
      <4>2. u \in Seq(Names) /\ Len(u) = (i - 1) - 1 /\ \A k \in 1..(i - 1) - 1 : u[k] = p[k]
        BY <4>1, PrefixIs
      <4>3. v \in Seq(Names) /\ Len(v) = i - 1 /\ \A k \in 1..i - 1 : v[k] = p[k]
        BY <4>1, PrefixIs
      <4> DEFINE a == Append(u, name)
      <4> HIDE DEF u, v, name
      <4>4. a \in Seq(Names) /\ Len(a) = i - 1
        BY <1>1, <4>2
      <4>5. ASSUME NEW k \in 1..i - 1
            PROVE  a[k] = v[k]
        <5>1. CASE k = i - 1
          BY <1>1, <4>2, <4>3, <5>1 DEF name
        <5>2. CASE k # i - 1
          <6>1. k \in 1..(i - 1) - 1
            BY <1>1, <5>2
          <6>2. QED
            BY <4>2, <4>3, <6>1
        <5>3. QED
          BY <5>1, <5>2
      <4> HIDE DEF a
      <4>6. a = v
        BY <1>1, <4>3, <4>4, <4>5, SameSequence
      <4>7. QED
        BY <4>6 DEF a, u, v, name
    <3>6. e.first \in Dirs(t) /\ t[e.first].path = SubSeq(p, 1, i - 1)
      BY <2>1, <3>2, <3>5 DEF Dirs
    <3>7. QED
      BY <3>4, <3>6 DEF Reaches, e
  <2>6. QED
    BY <2>4, <2>5
<1>4. QED
  BY <1>2, <1>3

(* The walk along a path stays in directories of the table.                *)
LEMMA WalkTidy ==
  ASSUME NEW f \in Fats, NEW d \in Disks, NEW t, Table(t, f), Listed(t, d),
         NEW p \in Seq(Names)
  PROVE  \A i \in 1..Len(p) : Reaches(t, p, i, Walk(f, d, p)[i])
<1> DEFINE w == Walk(f, d, p)
           P == {n \in Nat : n \in 1..Len(p) => Reaches(t, p, n, w[n])}
<1>1. Len(p) \in Nat
  OBVIOUS
<1>2. \A i \in 1..Len(p) : w[i] = IF i = 1 THEN Root ELSE Inside[EntryInAt(f, d, w[i - 1], p[i - 1])]
  BY <1>1, WalkIs
<1> HIDE DEF w
<1>3. 0 \in P
  OBVIOUS
<1>4. ASSUME NEW n \in Nat, n \in P
      PROVE  n + 1 \in P
  <2>1. ASSUME n + 1 \in 1..Len(p)
        PROVE  Reaches(t, p, n + 1, w[n + 1])
    <3>1. CASE n = 0
      <4>1. w[n + 1] = Root
        BY <1>2, <2>1, <3>1
      <4>2. Root \in Dirs(t) /\ t[Root].path = <<>>
        BY DEF Table, Dirs
      <4>3. SubSeq(p, 1, (n + 1) - 1) = <<>>
        <5>1. (n + 1) - 1 = 0
          BY <3>1
        <5>2. SubSeq(p, 1, 0) = <<>>
          BY SubSeqEmpty
        <5>3. QED
          BY <5>1, <5>2
      <4>4. QED
        BY <4>1, <4>2, <4>3 DEF Reaches
    <3>2. CASE n # 0
      <4>1. n + 1 \in 2..Len(p) /\ n \in 1..Len(p) /\ (n + 1) - 1 = n
        BY <1>1, <2>1, <3>2
      <4>2. Reaches(t, p, n, w[n])
        BY <1>4, <4>1
      <4>3. w[n + 1] = Inside[EntryInAt(f, d, w[n], p[n])]
        <5>1. n + 1 # 1
          BY <3>2
        <5>2. w[n + 1] = Inside[EntryInAt(f, d, w[(n + 1) - 1], p[(n + 1) - 1])]
          BY <1>2, <2>1, <5>1
        <5>3. QED
          BY <4>1, <5>2
      <4> DEFINE m == n + 1
      <4>4. m \in 2..Len(p) /\ m - 1 = n
        BY <4>1
      <4> HIDE DEF m
      <4>5. Reaches(t, p, m, Inside[EntryInAt(f, d, w[n], p[m - 1])])
        <5>1. Reaches(t, p, m - 1, w[n])
          BY <4>2, <4>4
        <5>2. QED
          BY <4>4, <5>1, StepTidy
      <4>6. QED
        BY <4>3, <4>4, <4>5 DEF m
    <3>3. QED
      BY <3>1, <3>2
  <2>2. QED
    BY <2>1
<1>5. \A n \in Nat : n \in P
  <2> HIDE DEF P
  <2> QED BY <1>3, <1>4, NatInd
<1>6. QED
  BY <1>1, <1>5 DEF w

(* A directory that a path resolves to is the one its front names.         *)
LEMMA ResolveTidy ==
  ASSUME NEW f \in Fats, NEW d \in Disks, NEW t, Table(t, f), Listed(t, d), NEW p \in FatPaths,
         ResolveAt(f, d, p) # 0
  PROVE  ResolveAt(f, d, p) \in Dirs(t) /\ t[ResolveAt(f, d, p)].path = Front(p)
<1>1. p \in Seq(Names) /\ Len(p) \in 1..Len(p) /\ Front(p) = SubSeq(p, 1, Len(p) - 1)
  BY PathFacts
<1>2. Reaches(t, p, Len(p), Walk(f, d, p)[Len(p)])
  BY <1>1, WalkTidy
<1>3. QED
  BY <1>1, <1>2 DEF Reaches, ResolveAt

(* A path that is found has its entry in the directory of its front.       *)
LEMMA Lookup ==
  ASSUME NEW f \in Fats, NEW d \in Disks, NEW t, Table(t, f), Listed(t, d), NEW p \in FatPaths,
         EntryAt(f, d, p).kind # "end"
  PROVE  /\ ResolveAt(f, d, p) \in Dirs(t) /\ t[ResolveAt(f, d, p)].path = Front(p)
         /\ Rests(t, d, ResolveAt(f, d, p), Last(p), WhereAt(f, d, p), EntryAt(f, d, p))
<1>1. ResolveAt(f, d, p) # 0
  <2>1. SUFFICES ASSUME ResolveAt(f, d, p) = 0 PROVE FALSE
    OBVIOUS
  <2>2. EntryAt(f, d, p) = End
    BY <2>1 DEF EntryAt, EntryInAt
  <2>3. QED
    BY <2>2, SlotFacts
<1>2. ResolveAt(f, d, p) \in Dirs(t) /\ t[ResolveAt(f, d, p)].path = Front(p)
  BY <1>1, ResolveTidy
<1>3. Last(p) \in Names
  BY PathFacts
<1>4. Rests(t, d, ResolveAt(f, d, p), Last(p), WhereAt(f, d, p), EntryAt(f, d, p))
  BY <1>2, <1>3, EntryTidy DEF EntryAt, WhereAt
<1>5. QED
  BY <1>2, <1>4

(* A found entry with a first cluster is the row of its path.              *)
LEMMA FoundRow ==
  ASSUME NEW f \in Fats, NEW d \in Disks, NEW t, Table(t, f), Listed(t, d), NEW p \in FatPaths,
         EntryAt(f, d, p).kind # "end", EntryAt(f, d, p).first # 0
  PROVE  /\ EntryAt(f, d, p).first \in DOMAIN t
         /\ t[EntryAt(f, d, p).first].kind = EntryAt(f, d, p).kind
         /\ t[EntryAt(f, d, p).first].path = p
<1> DEFINE e == EntryAt(f, d, p)
           h == ResolveAt(f, d, p)
<1>1. h \in Dirs(t) /\ t[h].path = Front(p) /\ e.name = Last(p) /\ Named(t, t[h].path, e) /\ e.first # 0
  BY Lookup DEF Rests
<1>2. p = Append(Front(p), Last(p))
  BY PathFacts
<1> HIDE DEF e, h
<1>3. e.first \in DOMAIN t /\ t[e.first].kind = e.kind /\ t[e.first].path = p
  BY <1>1, <1>2 DEF Named
<1>4. QED
  BY <1>3 DEF e

(* A directory is scanned to the same names in the same places.            *)
LEMMA DirSame ==
  ASSUME NEW f \in Fats, NEW d \in Disks, NEW t, Table(t, f), Listed(t, d),
         NEW f2 \in Fats, NEW d2 \in Disks, TreeKept(t, f, d, f2, d2), NEW h \in Dirs(t)
  PROVE  /\ ChainAt(f2, h) = ChainAt(f, h)
         /\ Len(DirectoryAt(f2, d2, h)) = Len(DirectoryAt(f, d, h))
         /\ \A n \in 1..Len(DirectoryAt(f, d, h)) :
              /\ SameName(DirectoryAt(f, d, h)[n], DirectoryAt(f2, d2, h)[n])
              /\ DirectoryAt(f2, d2, h)[n] = At(d2, PlaceAt(f, h, n))
<1> DEFINE q == t[h].chain
           D == DirectoryAt(f, d, h)
           E == DirectoryAt(f2, d2, h)
<1>1. h \in DOMAIN t /\ Of(t, h) \subseteq InDirs(t)
  BY DirRow
<1>2. Strung(q, h, f) /\ Len(q) \in Nat \ {0} /\ \A k \in 1..Len(q) : q[k] \in Of(t, h)
  BY <1>1, RowFacts
<1>3. \A k \in 1..Len(q) : /\ Len(d[q[k]].slots) = Slots /\ Len(d2[q[k]].slots) = Slots
                           /\ f2[q[k]] = f[q[k]]
                           /\ \A i \in 1..Slots : SameName(d[q[k]].slots[i], d2[q[k]].slots[i])
  BY <1>1, <1>2 DEF Listed, TreeKept
<1> HIDE DEF q
<1>4. Strung(q, h, f2)
  <2>1. \A k \in 1..Len(q) - 1 : k \in 1..Len(q) /\ f2[q[k]] = f[q[k]]
    BY <1>2, <1>3
  <2>2. f2[q[Len(q)]] = f[q[Len(q)]]
    BY <1>2, <1>3
  <2>3. QED
    BY <1>2, <2>1, <2>2 DEF Strung
<1>5. ChainAt(f, h) = q /\ ChainAt(f2, h) = q
  BY <1>2, <1>4, StrungChain
<1>6. /\ Len(D) = Slots * Len(q)
      /\ \A n \in 1..Len(D) :
              \E k \in 1..Len(q), i \in 1..Slots :
                /\ n = Slots * (k - 1) + i
                /\ PlaceAt(f, h, n) = <<q[k], i>>
                /\ D[n] = d[q[k]].slots[i]
  BY <1>2, <1>3, DirTidy
<1>7. /\ Len(E) = Slots * Len(q)
      /\ \A k \in 1..Len(q), i \in 1..Slots : E[Slots * (k - 1) + i] = d2[q[k]].slots[i]
  BY <1>3, <1>4, DirTidy
<1> HIDE DEF D, E
<1>8. ASSUME NEW n \in 1..Len(D)
      PROVE  SameName(D[n], E[n]) /\ E[n] = At(d2, PlaceAt(f, h, n))
  <2>1. PICK k \in 1..Len(q), i \in 1..Slots :
          n = Slots * (k - 1) + i /\ PlaceAt(f, h, n) = <<q[k], i>> /\ D[n] = d[q[k]].slots[i]
    BY <1>6
  <2>2. E[n] = d2[q[k]].slots[i]
    BY <1>7, <2>1
  <2>3. SameName(d[q[k]].slots[i], d2[q[k]].slots[i])
    BY <1>3
  <2>4. At(d2, PlaceAt(f, h, n)) = d2[q[k]].slots[i]
    BY <2>1 DEF At
  <2>5. QED
    BY <2>1, <2>2, <2>3, <2>4
<1>9. QED
  BY <1>5, <1>6, <1>7, <1>8 DEF D, E

(* A search finds the same entry in it.                                    *)
LEMMA FindKept ==
  ASSUME NEW f \in Fats, NEW d \in Disks, NEW t, Table(t, f), Listed(t, d),
         NEW f2 \in Fats, NEW d2 \in Disks, TreeKept(t, f, d, f2, d2), NEW h \in Dirs(t), NEW name
  PROVE  /\ FindAt(DirectoryAt(f2, d2, h), name) = FindAt(DirectoryAt(f, d, h), name)
         /\ \A n : PlaceAt(f2, h, n) = PlaceAt(f, h, n)
         /\ SameName(EntryInAt(f, d, h, name), EntryInAt(f2, d2, h, name))
         /\ FindAt(DirectoryAt(f, d, h), name) # 0 =>
              EntryInAt(f2, d2, h, name) = At(d2, PlaceAt(f, h, FindAt(DirectoryAt(f, d, h), name)))
<1> DEFINE D == DirectoryAt(f, d, h)
           E == DirectoryAt(f2, d2, h)
           n == FindAt(D, name)
<1>1. h \in DOMAIN t /\ h \in 0..LastCluster /\ h # 0
  BY DirRow, RowFacts
<1>2. D \in Seq(Slot) /\ E \in Seq(Slot)
  BY <1>1, DirectoryTyped
<1>3. /\ ChainAt(f2, h) = ChainAt(f, h) /\ Len(E) = Len(D)
      /\ \A m \in 1..Len(D) : SameName(D[m], E[m]) /\ E[m] = At(d2, PlaceAt(f, h, m))
  BY DirSame
<1>4. \A m : PlaceAt(f2, h, m) = PlaceAt(f, h, m)
  BY <1>3 DEF PlaceAt
<1>5. FindAt(E, name) = n
  <2> HIDE DEF D, E
  <2>1. \A m \in 1..Len(D) : D[m].kind = E[m].kind /\ D[m].name = E[m].name
    BY <1>3 DEF SameName
  <2>2. QED
    BY <1>2, <1>3, <2>1, FindSame
<1>6. EntryInAt(f, d, h, name) = IF n = 0 THEN End ELSE D[n]
  BY <1>1, EntryInIs
<1>7. EntryInAt(f2, d2, h, name) = IF n = 0 THEN End ELSE E[n]
  <2>1. EntryInAt(f2, d2, h, name) = IF FindAt(E, name) = 0 THEN End ELSE E[FindAt(E, name)]
    BY <1>1, EntryInIs
  <2>2. QED
    BY <1>5, <2>1
<1>8. n # 0 => n \in 1..Len(D)
  <2> HIDE DEF D
  <2> QED BY <1>2, FindIs DEF IsFind
<1> HIDE DEF n, D, E
<1>9. SameName(EntryInAt(f, d, h, name), EntryInAt(f2, d2, h, name))
  BY <1>3, <1>6, <1>7, <1>8 DEF SameName
<1>10. n # 0 => EntryInAt(f2, d2, h, name) = At(d2, PlaceAt(f, h, n))
  BY <1>3, <1>7, <1>8
<1>11. QED
  BY <1>4, <1>5, <1>9, <1>10 DEF n, D, E

(* A step of a walk goes to the same directory.                            *)
LEMMA InsideKept ==
  ASSUME NEW f \in Fats, NEW d \in Disks, NEW t, Table(t, f), Listed(t, d),
         NEW f2 \in Fats, NEW d2 \in Disks, TreeKept(t, f, d, f2, d2),
         NEW c, c = 0 \/ c \in Dirs(t), NEW name
  PROVE  Inside[EntryInAt(f2, d2, c, name)] = Inside[EntryInAt(f, d, c, name)]
<1>1. CASE c = 0
  BY <1>1 DEF EntryInAt
<1>2. CASE c \in Dirs(t)
  <2>1. SameName(EntryInAt(f, d, c, name), EntryInAt(f2, d2, c, name))
    BY <1>2, FindKept
  <2>2. c \in 0..LastCluster
    BY <1>2, DirRow, RowFacts
  <2>3. EntryInAt(f, d, c, name) \in Slot /\ EntryInAt(f2, d2, c, name) \in Slot
    BY <2>2, EntryInIs
  <2>4. QED
    BY <2>1, <2>3 DEF SameName, Inside
<1>3. QED
  BY <1>1, <1>2

(* A walk does not see changes that keep the tree of directories.          *)
LEMMA WalkKept ==
  ASSUME NEW f \in Fats, NEW d \in Disks, NEW t, Table(t, f), Listed(t, d),
         NEW f2 \in Fats, NEW d2 \in Disks, TreeKept(t, f, d, f2, d2),
         NEW p \in Seq(Names)
  PROVE  \A i \in 1..Len(p) : Walk(f2, d2, p)[i] = Walk(f, d, p)[i]
<1> DEFINE w == Walk(f, d, p)
           x == Walk(f2, d2, p)
           P == {n \in Nat : n \in 1..Len(p) => x[n] = w[n]}
<1>1. Len(p) \in Nat
  OBVIOUS
<1>2. \A i \in 1..Len(p) : w[i] = IF i = 1 THEN Root ELSE Inside[EntryInAt(f, d, w[i - 1], p[i - 1])]
  BY <1>1, WalkIs
<1>3. \A i \in 1..Len(p) : x[i] = IF i = 1 THEN Root ELSE Inside[EntryInAt(f2, d2, x[i - 1], p[i - 1])]
  BY <1>1, WalkIs
<1>4. \A i \in 1..Len(p) : Reaches(t, p, i, w[i])
  BY WalkTidy
<1> HIDE DEF w, x
<1>5. 0 \in P
  OBVIOUS
<1>6. ASSUME NEW n \in Nat, n \in P
      PROVE  n + 1 \in P
  <2>1. ASSUME n + 1 \in 1..Len(p)
        PROVE  x[n + 1] = w[n + 1]
    <3>1. CASE n = 0
      BY <1>2, <1>3, <2>1, <3>1
    <3>2. CASE n # 0
      <4>1. n \in 1..Len(p) /\ (n + 1) - 1 = n /\ n + 1 # 1
        BY <1>1, <2>1, <3>2
      <4>2. x[n] = w[n] /\ (w[n] = 0 \/ w[n] \in Dirs(t))
        BY <1>4, <1>6, <4>1 DEF Reaches
      <4>3. w[n + 1] = Inside[EntryInAt(f, d, w[n], p[n])]
        <5>1. w[n + 1] = Inside[EntryInAt(f, d, w[(n + 1) - 1], p[(n + 1) - 1])]
          BY <1>2, <2>1, <4>1
        <5>2. QED
          BY <4>1, <5>1
      <4>4. x[n + 1] = Inside[EntryInAt(f2, d2, x[n], p[n])]
        <5>1. x[n + 1] = Inside[EntryInAt(f2, d2, x[(n + 1) - 1], p[(n + 1) - 1])]
          BY <1>3, <2>1, <4>1
        <5>2. QED
          BY <4>1, <5>1
      <4>5. Inside[EntryInAt(f2, d2, w[n], p[n])] = Inside[EntryInAt(f, d, w[n], p[n])]
        BY <4>2, InsideKept
      <4>6. QED
        BY <4>2, <4>3, <4>4, <4>5
    <3>3. QED
      BY <3>1, <3>2
  <2>2. QED
    BY <2>1
<1>7. \A n \in Nat : n \in P
  <2> HIDE DEF P
  <2> QED BY <1>5, <1>6, NatInd
<1>8. QED
  BY <1>1, <1>7 DEF w, x

(* A search for a path finds the same place after such a change.           *)
LEMMA LookupKept ==
  ASSUME NEW f \in Fats, NEW d \in Disks, NEW t, Table(t, f), Listed(t, d),
         NEW f2 \in Fats, NEW d2 \in Disks, TreeKept(t, f, d, f2, d2), NEW p \in FatPaths
  PROVE  /\ ResolveAt(f2, d2, p) = ResolveAt(f, d, p)
         /\ SameName(EntryAt(f, d, p), EntryAt(f2, d2, p))
         /\ EntryAt(f, d, p).kind # "end" =>
              /\ WhereAt(f2, d2, p) = WhereAt(f, d, p)
              /\ EntryAt(f2, d2, p) = At(d2, WhereAt(f, d, p))
<1>1. p \in Seq(Names) /\ Len(p) \in 1..Len(p) /\ Last(p) \in Names
  BY PathFacts
<1>2. ResolveAt(f2, d2, p) = ResolveAt(f, d, p)
  BY <1>1, WalkKept DEF ResolveAt
<1> DEFINE h == ResolveAt(f, d, p)
<1>3. CASE h = 0
  <2>1. EntryAt(f, d, p) = End /\ EntryAt(f2, d2, p) = End
    BY <1>2, <1>3 DEF EntryAt, EntryInAt
  <2>2. QED
    BY <1>2, <2>1, SlotFacts DEF SameName
<1>4. CASE h # 0
  <2>1. h \in Dirs(t)
    BY <1>4, ResolveTidy
  <2>2. EntryAt(f, d, p) = EntryInAt(f, d, h, Last(p)) /\ EntryAt(f2, d2, p) = EntryInAt(f2, d2, h, Last(p))
    BY <1>2 DEF EntryAt
  <2>3. /\ FindAt(DirectoryAt(f2, d2, h), Last(p)) = FindAt(DirectoryAt(f, d, h), Last(p))
        /\ \A n : PlaceAt(f2, h, n) = PlaceAt(f, h, n)
        /\ SameName(EntryInAt(f, d, h, Last(p)), EntryInAt(f2, d2, h, Last(p)))
        /\ FindAt(DirectoryAt(f, d, h), Last(p)) # 0 =>
              EntryInAt(f2, d2, h, Last(p)) = At(d2, PlaceAt(f, h, FindAt(DirectoryAt(f, d, h), Last(p))))
    <3> HIDE DEF h
    <3> QED BY <2>1, FindKept
  <2>4. EntryAt(f, d, p).kind # "end" => FindAt(DirectoryAt(f, d, h), Last(p)) # 0
    <3> HIDE DEF h
    <3> QED BY <1>1, <2>1, <2>2, EntryTidy
  <2>5. WhereAt(f2, d2, p) = WhereAt(f, d, p)
    BY <1>2, <2>3 DEF WhereAt
  <2>6. WhereAt(f, d, p) = PlaceAt(f, h, FindAt(DirectoryAt(f, d, h), Last(p)))
    BY DEF WhereAt
  <2> HIDE DEF h
  <2>7. QED
    BY <1>2, <2>2, <2>3, <2>4, <2>5, <2>6
<1>5. QED
  BY <1>3, <1>4

(* The free entry is the first that is deleted or the end.                 *)
LEMMA FreeIs ==
  ASSUME NEW D \in Seq(Slot)
  PROVE  /\ FreeAt(D) \in 0..Len(D)
         /\ FreeAt(D) # 0 => D[FreeAt(D)].kind \in {"end", "deleted"}
         /\ \A m \in 1..Len(D) : FreeAt(D) = 0 \/ m < FreeAt(D) => D[m].kind \notin {"end", "deleted"}
<1> DEFINE I == {i \in 1..Len(D) : D[i].kind \in {"end", "deleted"}}
           n == IF I # {} THEN Min(I) ELSE 0
<1>1. FreeAt(D) = n
  BY DEF SelectInSeq, FreeAt
<1>2. Len(D) \in Nat
  OBVIOUS
<1>3. I # {} => Min(I) \in I /\ \A i \in I : Min(I) <= i
  <2>1. I \in SUBSET Nat
    OBVIOUS
  <2> HIDE DEF I
  <2>2. QED
    BY <2>1, MinOfNats
<1>4. CASE I = {}
  BY <1>1, <1>2, <1>4
<1>5. CASE I # {}
  <2>1. n \in I /\ \A i \in I : n <= i
    BY <1>3, <1>5
  <2> HIDE DEF n
  <2>2. n # 0 /\ n \in Nat
    BY <2>1
  <2>3. ASSUME NEW m \in 1..Len(D), m < n
        PROVE  m \notin I
    BY <2>1, <2>2, <2>3
  <2>4. QED
    BY <1>1, <2>1, <2>2, <2>3
<1>6. QED
  BY <1>4, <1>5

(* FindFreeEntryInCluster is FreeAt of the directory.                      *)
LEMMA FreeAtIs == \A c : FindFreeEntryInCluster(c) = FreeAt(DirectoryAt(fat, data, c))
BY DirectoryIs DEF FindFreeEntryInCluster, FreeAt

(* The first free entry of a directory of the table is a slot of it that   *)
(* names nothing.                                                          *)
LEMMA FreePlace ==
  ASSUME NEW f \in Fats, NEW d \in Disks, NEW t, Table(t, f), Listed(t, d), NEW h \in Dirs(t),
         FreeAt(DirectoryAt(f, d, h)) # 0
  PROVE  LET place == PlaceAt(f, h, FreeAt(DirectoryAt(f, d, h)))
         IN  /\ place = <<place[1], place[2]>> /\ place[1] \in Of(t, h) /\ place[2] \in 1..Slots
             /\ At(d, place).kind \in {"end", "deleted"}
<1> DEFINE q == t[h].chain
           D == DirectoryAt(f, d, h)
           n == FreeAt(D)
<1>1. Strung(q, h, f) /\ \A k \in 1..Len(q) : q[k] \in Of(t, h)
  BY DirRow, RowFacts
<1>2. \A k \in 1..Len(q) : Len(d[q[k]].slots) = Slots
  BY <1>1 DEF Listed
<1> HIDE DEF q
<1>3. /\ D \in Seq(Slot)
      /\ \A m \in 1..Len(D) :
              \E k \in 1..Len(q), i \in 1..Slots :
                /\ m = Slots * (k - 1) + i
                /\ PlaceAt(f, h, m) = <<q[k], i>>
                /\ D[m] = d[q[k]].slots[i]
  BY <1>1, <1>2, DirTidy
<1> HIDE DEF D
<1>4. n \in 1..Len(D) /\ D[n].kind \in {"end", "deleted"}
  BY <1>3, FreeIs DEF D
<1> HIDE DEF n
<1>5. PICK k \in 1..Len(q), i \in 1..Slots : PlaceAt(f, h, n) = <<q[k], i>> /\ D[n] = d[q[k]].slots[i]
  BY <1>3, <1>4
<1>6. At(d, PlaceAt(f, h, n)) = D[n]
  BY <1>5 DEF At
<1>7. QED
  BY <1>1, <1>4, <1>5, <1>6 DEF n, D

(* The first free cluster is free.                                         *)
LEMMA FirstInIs ==
  ASSUME NEW f, \E c \in Cluster : f[c] = Free
  PROVE  FirstIn(f) \in Cluster /\ f[FirstIn(f)] = Free
<1> DEFINE I == {c \in Cluster : f[c] = Free}
<1>1. I \in SUBSET Nat /\ I # {}
  BY Geometry
<1>2. Min(I) \in I /\ \A i \in I : Min(I) <= i
  <2> HIDE DEF I
  <2> QED BY <1>1, MinOfNats
<1>3. \E c \in Cluster : f[c] = Free /\ \A b \in Cluster : f[b] = Free => c <= b
  BY <1>2
<1>4. QED
  BY <1>3 DEF FirstIn

(* FirstFree is FirstIn of the FAT.                                        *)
LEMMA FirstFreeIs == FirstFree = FirstIn(fat)
BY DEF FirstFree, FirstIn

(* A cluster of a chain is marked in the FAT and is another's than a loose *)
(* or a free one.                                                          *)
LEMMA TakenMarked ==
  ASSUME NEW f \in Fats, NEW t, Table(t, f), NEW c \in Taken(t)
  PROVE  c \in Cluster /\ f[c] # Free
<1>1. PICK h \in DOMAIN t : c \in Of(t, h)
  BY DEF Taken
<1> DEFINE q == t[h].chain
<1>2. Strung(q, h, f) /\ Len(q) \in Nat \ {0} /\ \A k \in 1..Len(q) : q[k] \in Cluster
  BY RowFacts
<1>3. PICK k \in 1..Len(q) : c = q[k]
  BY <1>1 DEF Of
<1> HIDE DEF q
<1>4. CASE k = Len(q)
  BY <1>2, <1>3, <1>4, Geometry DEF Strung
<1>5. CASE k # Len(q)
  <2>1. k \in 1..Len(q) - 1 /\ k + 1 \in 1..Len(q)
    BY <1>2, <1>5
  <2>2. f[c] = q[k + 1] /\ q[k + 1] \in Cluster
    BY <1>2, <1>3, <2>1 DEF Strung
  <2>3. QED
    BY <1>2, <1>3, <2>2, Geometry
<1>6. QED
  BY <1>4, <1>5

(* A chain whose links are not written stays strung.                       *)
LEMMA StrungKept ==
  ASSUME NEW f, NEW f2, NEW q, NEW h, Strung(q, h, f), \A k \in 1..Len(q) : f2[q[k]] = f[q[k]]
  PROVE  Strung(q, h, f2)
<1>1. q \in Seq(Cluster) /\ q # <<>>
  BY DEF Strung
<1>2. Len(q) \in 1..Len(q) /\ \A k \in 1..Len(q) - 1 : k \in 1..Len(q)
  BY <1>1
<1>3. f2[q[Len(q)]] = f[q[Len(q)]] /\ \A k \in 1..Len(q) - 1 : f2[q[k]] = f[q[k]]
  BY <1>2
<1>4. QED
  BY <1>1, <1>3 DEF Strung

(* Writes to clusters that no chain has.                                   *)
LEMMA KeepTidy ==
  ASSUME NEW f, NEW d, NEW t, NEW cut \in BOOLEAN, Tidy(t, f, d, cut), NEW f2 \in Fats, NEW d2 \in Disks,
         \A c \in Taken(t) : f2[c] = f[c] /\ d2[c] = d[c]
  PROVE  Tidy(t, f2, d2, cut) /\ TreeKept(t, f, d, f2, d2)
<1>1. f \in Fats /\ d \in Disks /\ Table(t, f) /\ Listed(t, d) /\ Held(t, d, cut)
  BY DEF Tidy
<1>2. \A h \in DOMAIN t : Of(t, h) \subseteq Taken(t)
  BY DEF Taken
<1>3. InDirs(t) \subseteq Taken(t) /\ \A h \in Dirs(t) : h \in DOMAIN t
  BY DEF Taken, InDirs, Dirs
<1>4. ASSUME NEW h \in DOMAIN t
      PROVE  Strung(t[h].chain, h, f2)
  <2>1. Strung(t[h].chain, h, f) /\ \A k \in 1..Len(t[h].chain) : t[h].chain[k] \in Taken(t)
    BY <1>1, <1>2, RowFacts
  <2>2. QED
    BY <2>1, StrungKept
<1>5. Table(t, f2)
  BY <1>1, <1>4 DEF Table
<1>6. \A c \in InDirs(t) : f2[c] = f[c] /\ d2[c] = d[c]
  BY <1>3
<1>7. Listed(t, d2)
  <2>1. \A h \in Dirs(t) : \A c \in Of(t, h) : d2[c] = d[c]
    BY <1>2, <1>3
  <2>2. \A h \in Dirs(t) : \A c \in Of(t, h) :
         Len(d2[c].slots) = Slots /\ \A i \in 1..Slots : Proper(t, t[h].path, d2[c].slots[i])
    BY <1>1, <2>1 DEF Listed
  <2>3. \A c, b \in InDirs(t), i, j \in 1..Slots :
       /\ Live(d2[c].slots[i]) /\ Live(d2[b].slots[j])
       /\ d2[c].slots[i].first = d2[b].slots[j].first /\ d2[c].slots[i].first # 0
       => c = b /\ i = j
    BY <1>1, <1>6 DEF Listed
  <2>4. QED
    BY <2>2, <2>3 DEF Listed
<1>8. ASSUME NEW h \in Dirs(t), NEW c \in Of(t, h), NEW i \in 1..Slots
      PROVE  Len(d[c].slots) = Slots /\ Proper(t, t[h].path, d[c].slots[i])
  BY <1>1 DEF Listed
<1>9. Held(t, d2, cut)
  <2>1. ASSUME NEW c \in InDirs(t), NEW i \in 1..Slots,
               d2[c].slots[i].kind = "file", d2[c].slots[i].first # 0
        PROVE  Holds(t[d2[c].slots[i].first], d2[c].slots[i].size, d2, cut)
    <3>1. d2[c].slots[i] = d[c].slots[i]
      BY <1>6
    <3> DEFINE e == d[c].slots[i]
    <3>2. PICK h \in Dirs(t) : c \in Of(t, h)
      BY DEF InDirs
    <3>3. Named(t, t[h].path, e)
      BY <1>8, <2>1, <3>1, <3>2 DEF Proper, Live
    <3>4. e.first \in DOMAIN t
      BY <2>1, <3>1, <3>3 DEF Named
    <3>5. Holds(t[e.first], e.size, d, cut)
      BY <1>1, <2>1, <3>1 DEF Held
    <3>6. \A k \in 1..Len(t[e.first].chain) : d2[t[e.first].chain[k]] = d[t[e.first].chain[k]]
      BY <1>1, <1>2, <3>4, RowFacts
    <3> HIDE DEF e
    <3>7. Holds(t[e.first], e.size, d2, cut)
      BY <3>5, <3>6 DEF Holds
    <3>8. QED
      BY <3>1, <3>7 DEF e
  <2>2. QED
    BY <2>1 DEF Held
<1>10. TreeKept(t, f, d, f2, d2)
  <2>1. ASSUME NEW c \in InDirs(t)
        PROVE  f2[c] = f[c] /\ Len(d2[c].slots) = Slots /\ \A i \in 1..Slots : SameName(d[c].slots[i], d2[c].slots[i])
    <3>1. PICK h \in Dirs(t) : c \in Of(t, h)
      BY DEF InDirs
    <3>2. Len(d[c].slots) = Slots
      BY <1>1, <3>1 DEF Listed
    <3>3. QED
      BY <1>6, <3>2 DEF SameName
  <2>2. QED
    BY <2>1 DEF TreeKept
<1>11. QED
  BY <1>1, <1>5, <1>7, <1>9, <1>10 DEF Tidy

(* A live slot of a directory of the table.                                *)
LEMMA LiveRow ==
  ASSUME NEW f, NEW d, NEW t, NEW cut, Tidy(t, f, d, cut),
         NEW h \in Dirs(t), NEW c \in Of(t, h), NEW i \in 1..Slots, Live(d[c].slots[i])
  PROVE  /\ Named(t, t[h].path, d[c].slots[i])
         /\ d[c].slots[i].first # 0 =>
              /\ d[c].slots[i].first \in DOMAIN t /\ d[c].slots[i].first \in Taken(t)
              /\ t[d[c].slots[i].first].kind = d[c].slots[i].kind
              /\ t[d[c].slots[i].first].path = Append(t[h].path, d[c].slots[i].name)
<1> DEFINE e == d[c].slots[i]
<1>1. Named(t, t[h].path, e)
  BY DEF Tidy, Listed, Proper
<1> HIDE DEF e
<1>2. e.first # 0 => /\ e.first \in DOMAIN t /\ t[e.first].kind = e.kind
                     /\ t[e.first].path = Append(t[h].path, e.name)
  BY <1>1 DEF Named
<1>3. ASSUME NEW g \in DOMAIN t
      PROVE  g \in Taken(t)
  BY RowFacts DEF Tidy, Taken
<1>4. QED
  BY <1>1, <1>2, <1>3 DEF e

(* A cluster of a directory is full of slots.                              *)
LEMMA InDirsFacts ==
  ASSUME NEW f, NEW d, NEW t, NEW cut, Tidy(t, f, d, cut), NEW c \in InDirs(t)
  PROVE  /\ \E h \in Dirs(t) : c \in Of(t, h)
         /\ c \in Taken(t) /\ c \in Cluster /\ c \in 0..LastCluster
         /\ Len(d[c].slots) = Slots /\ d[c].slots \in Seq(Slot) /\ \A i \in 1..Slots : d[c].slots[i] \in Slot
<1>1. PICK h \in Dirs(t) : c \in Of(t, h)
  BY DEF InDirs
<1>2. h \in DOMAIN t
  BY DEF Dirs
<1>3. c \in Taken(t)
  BY <1>1, <1>2 DEF Taken
<1>4. c \in Cluster /\ c \in 0..LastCluster
  BY <1>3, TakenMarked, Geometry DEF Tidy
<1>5. Len(d[c].slots) = Slots
  BY <1>1 DEF Tidy, Listed
<1>6. d[c].slots \in Seq(Slot)
  BY <1>4, DiskFacts DEF Tidy
<1>7. \A i \in 1..Slots : d[c].slots[i] \in Slot
  BY <1>5, <1>6
<1>8. QED
  BY <1>1, <1>3, <1>4, <1>5, <1>6, <1>7

(* The contents of files are no directories' clusters.                     *)
LEMMA FileRow ==
  ASSUME NEW f, NEW d, NEW t, NEW cut, Tidy(t, f, d, cut), NEW g \in DOMAIN t, t[g].kind = "file"
  PROVE  /\ Of(t, g) \cap InDirs(t) = {}
         /\ \A k \in 1..Len(t[g].chain) : /\ t[g].chain[k] \notin InDirs(t) /\ t[g].chain[k] \in Taken(t)
                                          /\ t[g].chain[k] \in 0..LastCluster
<1>1. ASSUME NEW c \in Of(t, g), c \in InDirs(t)
      PROVE  FALSE
  <2>1. PICK h \in Dirs(t) : c \in Of(t, h)
    BY <1>1 DEF InDirs
  <2>2. h = g
    BY <2>1 DEF Tidy, Table, Dirs
  <2>3. QED
    BY <2>2 DEF Dirs
<1>2. \A k \in 1..Len(t[g].chain) : t[g].chain[k] \in Of(t, g)
  BY DEF Of
<1>3. Of(t, g) \subseteq Taken(t) /\ Of(t, g) \subseteq 0..LastCluster
  <2>1. Of(t, g) \subseteq Taken(t)
    BY DEF Taken
  <2>2. QED
    BY <2>1, RowFacts, Geometry DEF Tidy
<1>4. QED
  BY <1>1, <1>2, <1>3

(* A file whose clusters are not written keeps its contents.               *)
LEMMA HoldsKept ==
  ASSUME NEW n, NEW size, NEW d, NEW cut, Holds(n, size, d, cut), NEW d2,
         \A k \in 1..Len(n.chain) : d2[n.chain[k]] = d[n.chain[k]]
  PROVE  Holds(n, size, d2, cut)
BY DEF Holds

(* An entry of a file with a first cluster names a row that holds what the *)
(* entry's size says.                                                      *)
LEMMA FileHolds ==
  ASSUME NEW f, NEW d, NEW t, NEW cut, Tidy(t, f, d, cut), NEW c \in InDirs(t), NEW i \in 1..Slots,
         d[c].slots[i].kind = "file", d[c].slots[i].first # 0
  PROVE  /\ d[c].slots[i].first \in DOMAIN t /\ t[d[c].slots[i].first].kind = "file"
         /\ Holds(t[d[c].slots[i].first], d[c].slots[i].size, d, cut)
<1>1. PICK h \in Dirs(t) : c \in Of(t, h)
  BY DEF InDirs
<1>2. Live(d[c].slots[i])
  BY DEF Live
<1>3. d[c].slots[i].first \in DOMAIN t /\ t[d[c].slots[i].first].kind = "file"
  BY <1>1, <1>2, LiveRow
<1>4. Holds(t[d[c].slots[i].first], d[c].slots[i].size, d, cut)
  BY DEF Tidy, Held
<1>5. QED
  BY <1>3, <1>4

(* Writing a slot changes that slot and nothing else.                      *)
LEMMA WriteSlotIs ==
  ASSUME NEW d \in Disks, NEW c \in 0..LastCluster, Len(d[c].slots) = Slots,
         NEW i \in 1..Slots, NEW x \in Slot
  PROVE  /\ WriteSlot(d, c, i, x) \in Disks
         /\ \A b \in 0..LastCluster : b # c => WriteSlot(d, c, i, x)[b] = d[b]
         /\ Len(WriteSlot(d, c, i, x)[c].slots) = Slots
         /\ WriteSlot(d, c, i, x)[c].slots[i] = x
         /\ \A j \in 1..Slots : j # i => WriteSlot(d, c, i, x)[c].slots[j] = d[c].slots[j]
<1>1. d[c] \in Content /\ d[c].slots \in Seq(Slot) /\ Slots \in Nat
  BY DiskFacts, Geometry
<1> DEFINE s == [d[c].slots EXCEPT ![i] = x]
           y == [d[c] EXCEPT !.slots = s]
<1>2. s \in Seq(Slot) /\ Len(s) = Slots /\ s[i] = x /\ \A j \in 1..Slots : j # i => s[j] = d[c].slots[j]
  BY <1>1
<1>3. WriteSlot(d, c, i, x) = [d EXCEPT ![c] = y]
  BY DEF WriteSlot
<1> HIDE DEF s
<1>4. y \in Content /\ y.slots = s
  BY <1>1, <1>2 DEF Content
<1> HIDE DEF y
<1>5. [d EXCEPT ![c] = y] \in Disks /\ [d EXCEPT ![c] = y][c] = y /\ \A b \in 0..LastCluster : b # c => [d EXCEPT ![c] = y][b] = d[b]
  BY <1>4 DEF Disks
<1>6. QED
  BY <1>2, <1>3, <1>4, <1>5

(* What adding a row changes.                                              *)
LEMMA AddedIs ==
  ASSUME NEW t, NEW h, h \notin DOMAIN t, NEW kind, NEW path
  PROVE  AddedTo(t, h, kind, path, Added(t, h, Row(kind, path, <<h>>)))
<1> DEFINE u == Added(t, h, Row(kind, path, <<h>>))
<1>1. DOMAIN u = DOMAIN t \union {h} /\ u[h] = Row(kind, path, <<h>>) /\ \A g \in DOMAIN t : u[g] = t[g]
  BY DEF Added
<1> HIDE DEF u
<1>2. u[h].kind = kind /\ u[h].path = path /\ u[h].chain = <<h>>
  BY <1>1 DEF Row
<1>3. Of(u, h) = {h}
  <2>1. Len(<<h>>) = 1 /\ <<h>>[1] = h
    OBVIOUS
  <2>2. Of(u, h) = {<<h>>[k] : k \in 1..1}
    BY <1>2, <2>1 DEF Of
  <2>3. QED
    BY <2>1, <2>2
<1>4. \A g \in DOMAIN t : Of(u, g) = Of(t, g)
  BY <1>1 DEF Of
<1>5. Taken(u) = Taken(t) \union {h}
  BY <1>1, <1>3, <1>4 DEF Taken
<1>6. Dirs(u) = IF kind = "dir" THEN Dirs(t) \union {h} ELSE Dirs(t)
  BY <1>1, <1>2 DEF Dirs
<1>7. \A g \in Dirs(t) : g \in DOMAIN t
  BY DEF Dirs
<1>8. InDirs(u) = IF kind = "dir" THEN InDirs(t) \union {h} ELSE InDirs(t)
  BY <1>3, <1>4, <1>6, <1>7 DEF InDirs
<1>9. QED
  BY <1>1, <1>2, <1>3, <1>4, <1>5, <1>6, <1>8 DEF AddedTo, u

(* A zeroed cluster is full of ends.                                       *)
LEMMA ZerosIs ==
  /\ Zeros.slots \in Seq(Slot) /\ Len(Zeros.slots) = Slots /\ Zeros.of = <<>> /\ Zeros.part = 0
  /\ \A i \in 1..Slots : /\ Zeros.slots[i] = End /\ ~Live(Zeros.slots[i])
                         /\ \A t, path : Proper(t, path, Zeros.slots[i])
<1>1. Zeros.slots = [i \in 1..Slots |-> End] /\ Zeros.of = <<>> /\ Zeros.part = 0
  BY DEF Zeros
<1>2. Zeros.slots \in Seq(Slot) /\ Len(Zeros.slots) = Slots
  BY <1>1, SlotFacts, Geometry
<1>3. \A i \in 1..Slots : Zeros.slots[i] = End
  BY <1>1
<1>4. End.kind = "end"
  BY SlotFacts
<1>5. QED
  BY <1>1, <1>2, <1>3, <1>4 DEF Live, Proper

(* A new row's chain is its loose first cluster.                           *)
LEMMA AddedTable ==
  ASSUME NEW f \in Fats, NEW t, Table(t, f), NEW g, Loose(t, f, g),
         NEW kind \in {"file", "dir"}, NEW path \in Seq(Names), path # <<>>
  PROVE  g \notin DOMAIN t /\ Table(Added(t, g, Row(kind, path, <<g>>)), f)
<1> DEFINE u == Added(t, g, Row(kind, path, <<g>>))
<1>1. g \in Cluster /\ g \notin Taken(t) /\ f[g] = Eoc
  BY DEF Loose
<1>2. g \notin DOMAIN t
  <2>1. SUFFICES ASSUME g \in DOMAIN t PROVE FALSE
    OBVIOUS
  <2>2. g \in Of(t, g)
    BY <2>1, RowFacts
  <2>3. QED
    BY <1>1, <2>1, <2>2 DEF Taken
<1>3. /\ DOMAIN u = DOMAIN t \union {g} /\ u[g] = Row(kind, path, <<g>>)
      /\ u[g].kind = kind /\ u[g].path = path /\ u[g].chain = <<g>> /\ Of(u, g) = {g}
      /\ \A h \in DOMAIN t : u[h] = t[h] /\ Of(u, h) = Of(t, h)
  <2>1. AddedTo(t, g, kind, path, u)
    BY <1>2, AddedIs
  <2> HIDE DEF u
  <2>2. QED
    BY <2>1 DEF AddedTo
<1> HIDE DEF u
<1>4. u[g] \in Node
  <2>1. <<g>> \in Seq(Cluster)
    BY <1>1
  <2>2. QED
    BY <1>3, <2>1 DEF Row, Node
<1>5. Strung(u[g].chain, g, f)
  <2>1. <<g>> \in Seq(Cluster) /\ <<g>> # <<>> /\ <<g>>[1] = g /\ Len(<<g>>) = 1
    BY <1>1
  <2>2. f[<<g>>[Len(<<g>>)]] = Eoc
    BY <1>1, <2>1
  <2>3. /\ \A k \in 1..Len(<<g>>) - 1 : f[<<g>>[k]] = <<g>>[k + 1]
        /\ \A k, l \in 1..Len(<<g>>) : <<g>>[k] = <<g>>[l] => k = l
    BY <2>1
  <2>4. Strung(<<g>>, g, f)
    BY <2>1, <2>2, <2>3 DEF Strung
  <2>5. QED
    BY <1>3, <2>4
<1>6. DOMAIN u \subseteq Cluster /\ \A h \in DOMAIN u : u[h] \in Node
  BY <1>1, <1>3, <1>4 DEF Table
<1>7. Root \in DOMAIN u /\ u[Root].kind = "dir" /\ u[Root].path = <<>>
  BY <1>3 DEF Table
<1>8. \A h \in DOMAIN u : Strung(u[h].chain, h, f)
  BY <1>3, <1>5 DEF Table
<1>9. ASSUME NEW x \in DOMAIN u, NEW y \in DOMAIN u, NEW c \in Of(u, x), c \in Of(u, y)
      PROVE  x = y
  <2>1. \A h \in DOMAIN t : g \notin Of(t, h)
    BY <1>1 DEF Taken
  <2>2. CASE x \in DOMAIN t /\ y \in DOMAIN t
    BY <1>3, <1>9, <2>2 DEF Table
  <2>3. CASE x = g \/ y = g
    BY <1>3, <1>9, <2>1, <2>3
  <2>4. QED
    BY <1>3, <2>2, <2>3
<1>10. Table(u, f)
  BY <1>6, <1>7, <1>8, <1>9 DEF Table
<1>11. QED
  BY <1>2, <1>10 DEF u

(* An entry that names a loose cluster makes it a row.                     *)
LEMMA AddRow ==
  ASSUME NEW f, NEW d, NEW t, NEW cut \in BOOLEAN, Tidy(t, f, d, cut),
         NEW h \in Dirs(t), NEW c \in Of(t, h), NEW i \in 1..Slots,
         NEW x \in Slot, Live(x), x.size = 0, x.name \in Names, Blank(t, f, d, x.first)
  PROVE  /\ Tidy(Added(t, x.first, Row(x.kind, Append(t[h].path, x.name), <<x.first>>)),
                 f, WriteSlot(d, c, i, x), cut)
         /\ x.first \notin DOMAIN t
         /\ \A b \in 0..LastCluster : b # c => WriteSlot(d, c, i, x)[b] = d[b]
<1>1. PICK g \in Cluster : g = x.first
  BY DEF Blank, Loose
<1>2. PICK path \in Seq(Names) : path = Append(t[h].path, x.name) /\ path # <<>>
  <2>1. h \in DOMAIN t /\ t[h].path \in Seq(Names)
    BY DirRow, RowFacts DEF Tidy
  <2>2. Append(t[h].path, x.name) \in Seq(Names) /\ Append(t[h].path, x.name) # <<>>
    BY <2>1
  <2>3. QED
    BY <2>2
<1> DEFINE u == Added(t, g, Row(x.kind, path, <<g>>))
           d2 == WriteSlot(d, c, i, x)
<1>3. f \in Fats /\ d \in Disks /\ Table(t, f) /\ Listed(t, d) /\ Held(t, d, cut)
  BY DEF Tidy
<1>4. x.kind \in {"file", "dir"}
  BY DEF Live
<1>5. g \notin Taken(t) /\ f[g] = Eoc /\ d[g] = Zeros /\ Loose(t, f, g) /\ g \in 0..LastCluster /\ g # 0
  BY <1>1, Geometry DEF Blank, Loose
<1>6. g \notin DOMAIN t /\ Table(u, f)
  BY <1>2, <1>3, <1>4, <1>5, AddedTable
<1>7. /\ DOMAIN u = DOMAIN t \union {g}
      /\ u[g].kind = x.kind /\ u[g].path = path /\ u[g].chain = <<g>> /\ Of(u, g) = {g}
      /\ \A y \in DOMAIN t : u[y] = t[y] /\ Of(u, y) = Of(t, y)
      /\ Dirs(u) = IF x.kind = "dir" THEN Dirs(t) \union {g} ELSE Dirs(t)
      /\ InDirs(u) = IF x.kind = "dir" THEN InDirs(t) \union {g} ELSE InDirs(t)
  <2>1. AddedTo(t, g, x.kind, path, u)
    BY <1>6, AddedIs
  <2> HIDE DEF u
  <2>2. QED
    BY <2>1 DEF AddedTo
<1> HIDE DEF u
<1>8. c \in InDirs(t) /\ h \in DOMAIN t
  BY DirRow, <1>3
<1>9. /\ c \in Taken(t) /\ c \in 0..LastCluster /\ Len(d[c].slots) = Slots
  BY <1>8, InDirsFacts
<1>10. c # g
  BY <1>5, <1>9
<1>11. /\ d2 \in Disks
       /\ \A b \in 0..LastCluster : b # c => d2[b] = d[b]
       /\ Len(d2[c].slots) = Slots
       /\ d2[c].slots[i] = x
       /\ \A j \in 1..Slots : j # i => d2[c].slots[j] = d[c].slots[j]
  BY <1>3, <1>9, WriteSlotIs
<1> HIDE DEF d2
<1>12. d2[g] = Zeros
  BY <1>5, <1>10, <1>11
<1>13. ASSUME NEW y \in Dirs(t)
       PROVE  y \in DOMAIN t /\ y \in Dirs(u) /\ \A b \in Of(t, y) : b \in InDirs(t) /\ b \in 0..LastCluster /\ b # g
  <2>1. y \in DOMAIN t /\ Of(t, y) \subseteq InDirs(t)
    BY <1>3, DirRow
  <2>2. \A b \in InDirs(t) : b \in 0..LastCluster /\ b \in Taken(t)
    BY InDirsFacts
  <2>3. QED
    BY <1>5, <1>7, <2>1, <2>2
<1>14. ASSUME NEW p, NEW e, Named(t, p, e)
       PROVE  Named(u, p, e)
  <2>1. e.first \in DOMAIN t => e.first \in DOMAIN u /\ u[e.first] = t[e.first]
    BY <1>7
  <2>2. QED
    BY <1>14, <2>1 DEF Named
<1>15. Named(u, t[h].path, x)
  BY <1>1, <1>2, <1>7 DEF Named
<1>16. x.kind # "dot"
  BY <1>4
<1>17. ASSUME NEW y \in Dirs(u), NEW b \in Of(u, y)
       PROVE  Len(d2[b].slots) = Slots /\ \A j \in 1..Slots : Proper(u, u[y].path, d2[b].slots[j])
  <2>1. CASE y = g
    <3>1. b = g
      BY <1>7, <1>17, <2>1
    <3>2. QED
      BY <1>12, <3>1, ZerosIs
  <2>2. CASE y # g
    <3>1. y \in Dirs(t) /\ u[y] = t[y] /\ b \in Of(t, y) /\ b \in 0..LastCluster
      <4>1. y \in Dirs(t)
        BY <1>7, <2>2
      <4>2. QED
        BY <1>7, <1>13, <1>17, <4>1
    <3>2. Len(d[b].slots) = Slots /\ \A j \in 1..Slots : Proper(t, t[y].path, d[b].slots[j])
      BY <1>3, <3>1 DEF Listed
    <3>3. \A j \in 1..Slots : Proper(u, t[y].path, d[b].slots[j])
      BY <1>14, <3>2 DEF Proper
    <3>4. CASE b # c
      BY <1>11, <3>1, <3>2, <3>3, <3>4
    <3>5. CASE b = c
      <4>1. y = h
        BY <1>3, <1>8, <1>13, <3>1, <3>5 DEF Table
      <4>2. Proper(u, t[y].path, d2[c].slots[i])
        BY <1>11, <1>15, <1>16, <4>1 DEF Proper
      <4>3. QED
        BY <1>11, <3>1, <3>3, <3>5, <4>2
    <3>6. QED
      BY <3>4, <3>5
  <2>3. QED
    BY <2>1, <2>2
<1>18. ASSUME NEW b \in InDirs(u), NEW j \in 1..Slots, Live(d2[b].slots[j])
       PROVE  /\ b \in InDirs(t) /\ b \in 0..LastCluster
              /\ \/ b = c /\ j = i /\ d2[b].slots[j] = x
                 \/ /\ ~(b = c /\ j = i) /\ d2[b].slots[j] = d[b].slots[j]
                    /\ d2[b].slots[j].first # g
  <2>1. b # g
    <3>1. b = g => d2[b].slots[j] = Zeros.slots[j]
      BY <1>12
    <3>2. ~Live(Zeros.slots[j])
      BY ZerosIs
    <3>3. QED
      BY <1>18, <3>1, <3>2
  <2>2. b \in InDirs(t)
    BY <1>7, <2>1
  <2>3. b \in 0..LastCluster
    BY <2>2, InDirsFacts
  <2>4. CASE b = c /\ j = i
    BY <1>11, <2>2, <2>3, <2>4
  <2>5. CASE ~(b = c /\ j = i)
    <3>1. d2[b].slots[j] = d[b].slots[j]
      BY <1>11, <2>3, <2>5
    <3>2. PICK y \in Dirs(t) : b \in Of(t, y)
      BY <2>2, InDirsFacts
    <3>3. Live(d[b].slots[j])
      BY <1>18, <3>1
    <3>4. d[b].slots[j].first # 0 => d[b].slots[j].first \in Taken(t)
      BY <3>2, <3>3, LiveRow
    <3>5. d[b].slots[j].first # g
      BY <1>5, <3>4
    <3>6. QED
      BY <2>2, <2>3, <2>5, <3>1, <3>5
  <2>6. QED
    BY <2>4, <2>5
<1>19. ASSUME NEW a \in InDirs(u), NEW b \in InDirs(u), NEW k \in 1..Slots, NEW j \in 1..Slots,
              Live(d2[a].slots[k]), Live(d2[b].slots[j]),
              d2[a].slots[k].first = d2[b].slots[j].first, d2[a].slots[k].first # 0
       PROVE  a = b /\ k = j
  <2>1. a \in InDirs(t) /\ (\/ a = c /\ k = i /\ d2[a].slots[k] = x
                 \/ /\ ~(a = c /\ k = i) /\ d2[a].slots[k] = d[a].slots[k]
                    /\ d2[a].slots[k].first # g)
    BY <1>18, <1>19
  <2>2. b \in InDirs(t) /\ (\/ b = c /\ j = i /\ d2[b].slots[j] = x
                 \/ /\ ~(b = c /\ j = i) /\ d2[b].slots[j] = d[b].slots[j]
                    /\ d2[b].slots[j].first # g)
    BY <1>18, <1>19
  <2>3. CASE (a = c /\ k = i) \/ (b = c /\ j = i)
    BY <1>1, <1>19, <2>1, <2>2, <2>3
  <2>4. CASE ~(a = c /\ k = i) /\ ~(b = c /\ j = i)
    <3>1. d2[a].slots[k] = d[a].slots[k] /\ d2[b].slots[j] = d[b].slots[j]
      BY <2>1, <2>2, <2>4
    <3>2. QED
      BY <1>3, <1>19, <2>1, <2>2, <3>1 DEF Listed
  <2>5. QED
    BY <2>3, <2>4
<1>20. Listed(u, d2)
  BY <1>17, <1>19 DEF Listed
<1>21. ASSUME NEW b \in InDirs(u), NEW j \in 1..Slots, d2[b].slots[j].kind = "file", d2[b].slots[j].first # 0
       PROVE  Holds(u[d2[b].slots[j].first], d2[b].slots[j].size, d2, cut)
  <2>1. Live(d2[b].slots[j])
    BY <1>21 DEF Live
  <2>2. b \in InDirs(t) /\ (\/ b = c /\ j = i /\ d2[b].slots[j] = x
                 \/ /\ ~(b = c /\ j = i) /\ d2[b].slots[j] = d[b].slots[j]
                    /\ d2[b].slots[j].first # g)
    BY <1>18, <1>21, <2>1
  <2>3. CASE b = c /\ j = i
    <3>1. d2[b].slots[j] = x
      BY <2>2, <2>3
    <3>2. u[g].chain = <<g>> /\ Len(<<g>>) = 1 /\ ClusterSize \in Nat /\ ~(0 * ClusterSize < 0) /\ 0 <= 1 * ClusterSize
      BY <1>7, Geometry
    <3>3. \A k \in 1..1 : k - 1 = 0
      OBVIOUS
    <3>4. Holds(u[g], 0, d2, cut)
      BY <3>2, <3>3 DEF Holds
    <3>5. QED
      BY <1>1, <3>1, <3>4
  <2>4. CASE ~(b = c /\ j = i)
    <3> DEFINE e == d[b].slots[j]
    <3>1. d2[b].slots[j] = e
      BY <2>2, <2>4
    <3>2. e.first \in DOMAIN t /\ t[e.first].kind = "file" /\ Holds(t[e.first], e.size, d, cut)
      BY <1>21, <2>2, <3>1, FileHolds
    <3> HIDE DEF e
    <3>3. \A k \in 1..Len(t[e.first].chain) : t[e.first].chain[k] \notin InDirs(t) /\ t[e.first].chain[k] \in 0..LastCluster
      BY <3>2, FileRow
    <3>4. \A k \in 1..Len(t[e.first].chain) : d2[t[e.first].chain[k]] = d[t[e.first].chain[k]]
      BY <1>8, <1>11, <3>3
    <3>5. Holds(t[e.first], e.size, d2, cut)
      BY <3>2, <3>4, HoldsKept
    <3>6. QED
      BY <1>7, <3>1, <3>2, <3>5
  <2>5. QED
    BY <2>3, <2>4
<1>22. Held(u, d2, cut)
  BY <1>21 DEF Held
<1>23. Tidy(u, f, d2, cut)
  BY <1>3, <1>6, <1>11, <1>20, <1>22 DEF Tidy
<1>24. QED
  BY <1>1, <1>2, <1>6, <1>11, <1>23 DEF u, d2

(* What extending a row changes.                                           *)
LEMMA ExtendedIs ==
  ASSUME NEW t, NEW h \in DOMAIN t, t[h].chain \in Seq(Cluster), NEW c \in Cluster
  PROVE  ExtendedTo(t, h, c, Extended(t, h, c))
<1> DEFINE u == Extended(t, h, c)
           q == t[h].chain
           r == Append(q, c)
<1>1. DOMAIN u = DOMAIN t /\ u[h] = Row(t[h].kind, t[h].path, r) /\ \A g \in DOMAIN t : g # h => u[g] = t[g]
  BY DEF Extended
<1> HIDE DEF u
<1>2. u[h].kind = t[h].kind /\ u[h].path = t[h].path /\ u[h].chain = r
  BY <1>1 DEF Row
<1>3. q \in Seq(Cluster) /\ Len(q) \in Nat
  OBVIOUS
<1>4. Len(r) = Len(q) + 1 /\ r[Len(q) + 1] = c /\ \A k \in 1..Len(q) : r[k] = q[k]
  <2> HIDE DEF q
  <2> QED BY <1>3
<1> HIDE DEF r
<1>5. Of(u, h) = Of(t, h) \union {c}
  <2>1. Of(u, h) = {r[k] : k \in 1..Len(q) + 1} /\ Of(t, h) = {q[k] : k \in 1..Len(q)}
    BY <1>2, <1>4 DEF Of
  <2> HIDE DEF q
  <2>2. \A k \in 1..Len(q) + 1 : k \in 1..Len(q) \/ k = Len(q) + 1
    BY <1>3
  <2>3. Len(q) + 1 \in 1..Len(q) + 1 /\ \A k \in 1..Len(q) : k \in 1..Len(q) + 1
    BY <1>3
  <2>4. QED
    BY <1>4, <2>1, <2>2, <2>3
<1>6. \A g \in DOMAIN t : g # h => Of(u, g) = Of(t, g)
  BY <1>1 DEF Of
<1>7. Taken(u) = Taken(t) \union {c}
  BY <1>1, <1>5, <1>6 DEF Taken
<1>8. \A g \in DOMAIN t : u[g].kind = t[g].kind /\ u[g].path = t[g].path
  BY <1>1, <1>2
<1>9. Dirs(u) = Dirs(t)
  BY <1>1, <1>8 DEF Dirs
<1>10. h \in Dirs(t) <=> t[h].kind = "dir"
  BY DEF Dirs
<1>11. InDirs(u) = IF t[h].kind = "dir" THEN InDirs(t) \union {c} ELSE InDirs(t)
  <2>1. \A g \in Dirs(t) : g \in DOMAIN t
    BY DEF Dirs
  <2>2. QED
    BY <1>5, <1>6, <1>9, <1>10, <2>1 DEF InDirs
<1>12. QED
  BY <1>1, <1>2, <1>4, <1>5, <1>6, <1>7, <1>8, <1>9, <1>11 DEF ExtendedTo, u, r

(* A chain that grows by a loose cluster.                                  *)
LEMMA ExtendedTable ==
  ASSUME NEW f \in Fats, NEW t, Table(t, f), NEW h \in DOMAIN t, NEW c, Loose(t, f, c)
  PROVE  /\ Linked(f, t, h, c) \in Fats /\ Table(Extended(t, h, c), Linked(f, t, h, c))
         /\ ExtendedTo(t, h, c, Extended(t, h, c))
         /\ \A b \in 0..LastCluster : b # Last(t[h].chain) => Linked(f, t, h, c)[b] = f[b]
         /\ Last(t[h].chain) \in Of(t, h)
<1> DEFINE q == t[h].chain
           u == Extended(t, h, c)
           f2 == Linked(f, t, h, c)
<1>1. /\ q \in Seq(Cluster) /\ Strung(q, h, f) /\ Len(q) \in Nat \ {0}
      /\ \A k \in 1..Len(q) : q[k] \in Cluster /\ q[k] \in Of(t, h)
      /\ Last(q) = q[Len(q)]
  BY RowFacts
<1>2. c \in Cluster /\ c \notin Taken(t) /\ f[c] = Eoc /\ c \in 0..LastCluster /\ c \in 0..Eoc
  BY Geometry DEF Loose
<1>3. ExtendedTo(t, h, c, u)
  BY <1>1, <1>2, ExtendedIs
<1>4. Last(q) \in Of(t, h) /\ Last(q) \in 0..LastCluster
  <2>1. Len(q) \in 1..Len(q)
    BY <1>1
  <2>2. QED
    BY <1>1, <2>1, Geometry
<1>5. /\ f2 \in Fats /\ f2[Last(q)] = c
      /\ \A b \in 0..LastCluster : b # Last(q) => f2[b] = f[b]
  BY <1>2, <1>4 DEF Fats, Linked
<1> DEFINE r == Append(q, c)
<1> HIDE DEF u, f2, q
<1>6. r \in Seq(Cluster) /\ r # <<>> /\ Len(r) = Len(q) + 1 /\ r[Len(q) + 1] = c /\ \A k \in 1..Len(q) : r[k] = q[k]
  BY <1>1, <1>2
<1> HIDE DEF r
<1>7. Strung(r, h, f2)
  <2>1. r[1] = h
    <3>1. 1 \in 1..Len(q)
      BY <1>1
    <3>2. QED
      BY <1>1, <1>6, <3>1 DEF Strung
  <2>2. \A g \in DOMAIN t : c \notin Of(t, g)
    BY <1>2 DEF Taken
  <2>3. f2[r[Len(r)]] = Eoc
    <3>1. c # Last(q)
      BY <1>4, <2>2
    <3>2. QED
      BY <1>2, <1>5, <1>6, <3>1
  <2>4. ASSUME NEW k \in 1..Len(r) - 1
        PROVE  f2[r[k]] = r[k + 1]
    <3>1. k \in 1..Len(q)
      BY <1>1, <1>6
    <3>2. CASE k = Len(q)
      BY <1>1, <1>5, <1>6, <3>1, <3>2
    <3>3. CASE k # Len(q)
      <4>1. k \in 1..Len(q) - 1 /\ k + 1 \in 1..Len(q) /\ Len(q) \in 1..Len(q)
        BY <1>1, <3>1, <3>3
      <4>2. q[k] # q[Len(q)]
        BY <1>1, <3>1, <3>3, <4>1 DEF Strung
      <4>3. q[k] \in 0..LastCluster
        BY <1>1, <3>1, Geometry
      <4>4. f2[q[k]] = q[k + 1]
        BY <1>1, <1>5, <4>1, <4>2, <4>3 DEF Strung
      <4>5. QED
        BY <1>6, <3>1, <4>1, <4>4
    <3>4. QED
      BY <3>2, <3>3
  <2>5. ASSUME NEW k \in 1..Len(r), NEW l \in 1..Len(r), r[k] = r[l]
        PROVE  k = l
    <3>1. (k \in 1..Len(q) \/ k = Len(q) + 1) /\ (l \in 1..Len(q) \/ l = Len(q) + 1)
      BY <1>1, <1>6
    <3>2. \A m \in 1..Len(q) : r[m] = q[m] /\ r[m] # c
      BY <1>1, <1>6, <2>2
    <3>3. CASE k \in 1..Len(q) /\ l \in 1..Len(q)
      <4>1. q[k] = q[l]
        BY <2>5, <3>2, <3>3
      <4>2. QED
        BY <1>1, <3>3, <4>1 DEF Strung
    <3>4. CASE k = Len(q) + 1 \/ l = Len(q) + 1
      BY <1>6, <2>5, <3>1, <3>2, <3>4
    <3>5. QED
      BY <3>1, <3>3, <3>4
  <2>6. QED
    BY <1>6, <2>1, <2>3, <2>4, <2>5 DEF Strung
<1>8. DOMAIN u \subseteq Cluster
  BY <1>3 DEF ExtendedTo, Table
<1>9. ASSUME NEW g \in DOMAIN u
      PROVE  u[g] \in Node /\ Strung(u[g].chain, g, f2)
  <2>1. CASE g = h
    <3>1. u[h] = Row(t[h].kind, t[h].path, r) /\ u[h].chain = r
      BY <1>3 DEF ExtendedTo, q, r
    <3>2. t[h].kind \in {"file", "dir"} /\ t[h].path \in Seq(Names)
      BY RowFacts
    <3>3. QED
      BY <1>6, <1>7, <2>1, <3>1, <3>2 DEF Row, Node
  <2>2. CASE g # h
    <3>1. g \in DOMAIN t /\ u[g] = t[g]
      BY <1>3, <2>2 DEF ExtendedTo
    <3>2. /\ t[g] \in Node /\ Strung(t[g].chain, g, f)
          /\ \A k \in 1..Len(t[g].chain) : t[g].chain[k] \in Of(t, g) /\ t[g].chain[k] \in Cluster
      BY <3>1, RowFacts
    <3>3. Last(q) \notin Of(t, g)
      BY <1>4, <2>2, <3>1 DEF Table
    <3>4. \A k \in 1..Len(t[g].chain) : f2[t[g].chain[k]] = f[t[g].chain[k]]
      BY <1>5, <3>2, <3>3, Geometry
    <3>5. Strung(t[g].chain, g, f2)
      BY <3>2, <3>4, StrungKept
    <3>6. QED
      BY <3>1, <3>2, <3>5
  <2>3. QED
    BY <2>1, <2>2
<1>10. Root \in DOMAIN u /\ u[Root].kind = "dir" /\ u[Root].path = <<>>
  BY <1>3 DEF ExtendedTo, Table
<1>11. ASSUME NEW x \in DOMAIN u, NEW y \in DOMAIN u, NEW b \in Of(u, x), b \in Of(u, y)
       PROVE  x = y
  <2>1. \A g \in DOMAIN t : c \notin Of(t, g)
    BY <1>2 DEF Taken
  <2>2. \A g \in DOMAIN t : Of(u, g) = IF g = h THEN Of(t, g) \union {c} ELSE Of(t, g)
    BY <1>3 DEF ExtendedTo
  <2>3. x \in DOMAIN t /\ y \in DOMAIN t
    BY <1>3 DEF ExtendedTo
  <2>4. QED
    BY <1>11, <2>1, <2>2, <2>3 DEF Table
<1>12. Table(u, f2)
  BY <1>8, <1>9, <1>10, <1>11 DEF Table
<1>13. QED
  BY <1>3, <1>4, <1>5, <1>12 DEF u, f2, q

(* Linking a blank cluster to the end of a chain extends its row: the disk *)
(* stays tidy.                                                             *)
LEMMA GrowRow ==
  ASSUME NEW f, NEW d, NEW t, NEW cut \in BOOLEAN, Tidy(t, f, d, cut),
         NEW h \in DOMAIN t, NEW c, Blank(t, f, d, c)
  PROVE  Tidy(Extended(t, h, c), Linked(f, t, h, c), d, cut)
<1> DEFINE u == Extended(t, h, c)
           f2 == Linked(f, t, h, c)
<1>1. f \in Fats /\ d \in Disks /\ Table(t, f) /\ Listed(t, d) /\ Held(t, d, cut)
  BY DEF Tidy
<1>2. Loose(t, f, c) /\ d[c] = Zeros
  BY DEF Blank
<1>3. f2 \in Fats /\ Table(u, f2) /\ ExtendedTo(t, h, c, u)
  BY <1>1, <1>2, ExtendedTable
<1> HIDE DEF u, f2
<1>4. ASSUME NEW p, NEW e, Proper(t, p, e)
      PROVE  Proper(u, p, e)
  BY <1>3, <1>4 DEF ExtendedTo, Proper, Named
<1>5. \A i \in 1..Slots : ~Live(d[c].slots[i])
  BY <1>2, ZerosIs
<1>6. ASSUME NEW g \in Dirs(u), NEW b \in Of(u, g)
      PROVE  Len(d[b].slots) = Slots /\ \A i \in 1..Slots : Proper(u, u[g].path, d[b].slots[i])
  <2>1. CASE b = c
    BY <1>2, <2>1, ZerosIs
  <2>2. CASE b # c
    <3>1. g \in Dirs(t) /\ g \in DOMAIN t /\ u[g].path = t[g].path
      BY <1>3 DEF ExtendedTo, Dirs
    <3>2. b \in Of(t, g)
      BY <1>3, <1>6, <2>2, <3>1 DEF ExtendedTo
    <3>3. Len(d[b].slots) = Slots /\ \A i \in 1..Slots : Proper(t, t[g].path, d[b].slots[i])
      BY <1>1, <3>1, <3>2 DEF Listed
    <3>4. QED
      BY <1>4, <3>1, <3>3
  <2>3. QED
    BY <2>1, <2>2
<1>7. ASSUME NEW b \in InDirs(u), NEW i \in 1..Slots, Live(d[b].slots[i])
      PROVE  b \in InDirs(t)
  BY <1>3, <1>5, <1>7 DEF ExtendedTo
<1>8. Listed(u, d)
  <2>1. ASSUME NEW a \in InDirs(u), NEW b \in InDirs(u), NEW i \in 1..Slots, NEW j \in 1..Slots,
               Live(d[a].slots[i]), Live(d[b].slots[j]),
               d[a].slots[i].first = d[b].slots[j].first, d[a].slots[i].first # 0
        PROVE  a = b /\ i = j
    <3>1. a \in InDirs(t) /\ b \in InDirs(t)
      BY <1>7, <2>1
    <3>2. QED
      BY <1>1, <2>1, <3>1 DEF Listed
  <2>2. QED
    BY <1>6, <2>1 DEF Listed
<1>9. ASSUME NEW b \in InDirs(u), NEW i \in 1..Slots, d[b].slots[i].kind = "file", d[b].slots[i].first # 0
      PROVE  Holds(u[d[b].slots[i].first], d[b].slots[i].size, d, cut)
  <2> DEFINE e == d[b].slots[i]
  <2>1. b \in InDirs(t)
    <3>1. Live(e)
      BY <1>9 DEF Live
    <3>2. QED
      BY <1>7, <3>1
  <2>2. e.first \in DOMAIN t /\ Holds(t[e.first], e.size, d, cut)
    BY <1>9, <2>1, FileHolds
  <2>3. e.size \in Nat
    <3>1. e \in Slot
      BY <2>1, InDirsFacts
    <3>2. QED
      BY <3>1, SlotFacts
  <2> HIDE DEF e
  <2>4. CASE e.first # h
    <3>1. u[e.first] = t[e.first]
      BY <1>3, <2>2, <2>4 DEF ExtendedTo
    <3>2. QED
      BY <2>2, <3>1 DEF e
  <2>5. CASE e.first = h
    <3> DEFINE q == t[h].chain
               r == u[h].chain
    <3>1. /\ Len(q) \in Nat /\ Len(r) = Len(q) + 1 /\ r[Len(q) + 1] = c /\ u[h].path = t[h].path
          /\ \A k \in 1..Len(q) : r[k] = q[k]
      BY <1>1, <1>3, RowFacts DEF ExtendedTo
    <3>2. /\ \A k \in 1..Len(q) : (k - 1) * ClusterSize < e.size =>
               d[q[k]] = Bytes(t[h].path, k - 1) \/ (cut /\ d[q[k]] = Zeros)
          /\ ~cut => e.size <= Len(q) * ClusterSize
      BY <2>2, <2>5 DEF Holds
    <3> HIDE DEF q, r
    <3>3. Len(q) * ClusterSize \in Nat /\ (Len(q) + 1) * ClusterSize \in Nat /\ Len(q) * ClusterSize <= (Len(q) + 1) * ClusterSize
      BY <3>1, Geometry, TimesMonotone
    <3>4. ASSUME NEW k \in 1..Len(r), (k - 1) * ClusterSize < e.size
          PROVE  d[r[k]] = Bytes(u[h].path, k - 1) \/ (cut /\ d[r[k]] = Zeros)
      <4>1. CASE k \in 1..Len(q)
        BY <3>1, <3>2, <3>4, <4>1
      <4>2. CASE k = Len(q) + 1
        <5>1. k - 1 = Len(q)
          BY <3>1, <4>2
        <5>2. cut
          <6> DEFINE z == Len(q) * ClusterSize
          <6>1. z < e.size /\ z \in Nat /\ (~cut => e.size <= z)
            BY <3>2, <3>3, <3>4, <5>1
          <6> HIDE DEF z
          <6>2. QED
            BY <2>3, <6>1
        <5>3. QED
          BY <1>2, <3>1, <4>2, <5>2
      <4>3. QED
        BY <3>1, <4>1, <4>2
    <3>5. ~cut => e.size <= Len(r) * ClusterSize
      <4> DEFINE z == Len(q) * ClusterSize
                 y == (Len(q) + 1) * ClusterSize
      <4>1. z \in Nat /\ y \in Nat /\ z <= y /\ (~cut => e.size <= z)
        BY <3>2, <3>3
      <4> HIDE DEF z, y
      <4>2. ~cut => e.size <= y
        BY <2>3, <4>1
      <4>3. QED
        BY <3>1, <4>2 DEF y
    <3>6. Holds(u[h], e.size, d, cut)
      BY <3>4, <3>5 DEF Holds, r
    <3>7. QED
      BY <2>5, <3>6 DEF e
  <2>6. QED
    BY <2>4, <2>5
<1>10. QED
  BY <1>1, <1>3, <1>8, <1>9 DEF Tidy, Held, u, f2

(* Entries that are taken away or get another size.                        *)
LEMMA RewriteTidy ==
  ASSUME NEW f, NEW d, NEW t, NEW cut \in BOOLEAN, Tidy(t, f, d, cut), NEW d2 \in Disks,
         \A c \in Taken(t) : c \notin InDirs(t) => d2[c] = d[c],
         \A c \in InDirs(t) : Len(d2[c].slots) = Slots /\
           \A i \in 1..Slots : Dead(d2[c].slots[i]) \/ Resized(t, d, cut, d[c].slots[i], d2[c].slots[i])
  PROVE  Tidy(t, f, d2, cut)
<1>1. f \in Fats /\ d \in Disks /\ Table(t, f) /\ Listed(t, d) /\ Held(t, d, cut)
  BY DEF Tidy
<1>2. ASSUME NEW c \in InDirs(t), NEW i \in 1..Slots, Live(d2[c].slots[i])
      PROVE  Live(d[c].slots[i]) /\ Resized(t, d, cut, d[c].slots[i], d2[c].slots[i])
  <2>1. Resized(t, d, cut, d[c].slots[i], d2[c].slots[i])
    BY <1>2 DEF Dead
  <2>2. Live(d[c].slots[i])
    BY <1>2, <2>1 DEF Resized, Live
  <2>3. QED
    BY <2>1, <2>2
<1>3. ASSUME NEW h \in Dirs(t), NEW c \in Of(t, h)
      PROVE  Len(d2[c].slots) = Slots /\ \A i \in 1..Slots : Proper(t, t[h].path, d2[c].slots[i])
  <2>1. c \in InDirs(t)
    BY DEF InDirs
  <2>2. ASSUME NEW i \in 1..Slots
        PROVE  Proper(t, t[h].path, d2[c].slots[i])
    <3> DEFINE e == d[c].slots[i]
               x == d2[c].slots[i]
    <3>1. Proper(t, t[h].path, e)
      BY <1>1 DEF Listed
    <3>2. Dead(x) \/ Resized(t, d, cut, e, x)
      BY <2>1
    <3>3. CASE Dead(x)
      <4> HIDE DEF x
      <4>1. Proper(t, t[h].path, x)
        BY <3>3 DEF Dead, Proper
      <4>2. QED
        BY <4>1 DEF x
    <3>4. CASE Resized(t, d, cut, e, x)
      <4>1. x.kind = "file" /\ x.first = 0 => x.size = e.size
        <5> HIDE DEF e, x
        <5> QED BY <3>4, Zenon DEF Resized
      <4>2. x.kind = e.kind /\ x.name = e.name /\ x.first = e.first
        BY <3>4 DEF Resized
      <4>3. ASSUME e.kind = "file", e.first = 0, Live(e)
            PROVE  Named(t, t[h].path, x)
        <5>1. Named(t, t[h].path, e) /\ e.first \notin DOMAIN t
          <6>1. \A g \in DOMAIN t : g # 0
            BY <1>1, RowFacts
          <6> HIDE DEF e, x
          <6>2. QED
            BY <3>1, <4>3, <6>1 DEF Proper
        <5> HIDE DEF e, x
        <5>2. e.size = 0
          BY <5>1 DEF Named
        <5>3. QED
          BY <4>1, <4>2, <4>3, <5>2 DEF Named
      <4> HIDE DEF e, x
      <4>4. ASSUME Live(x), ~(e.kind = "file" /\ e.first = 0)
            PROVE  Named(t, t[h].path, x)
        <5>1. Live(e)
          BY <4>2, <4>4 DEF Live
        <5>2. Named(t, t[h].path, e)
          BY <3>1, <5>1 DEF Proper
        <5>3. QED
          BY <4>2, <4>4, <5>2 DEF Named
      <4>5. Live(x) => Live(e)
        BY <4>2 DEF Live
      <4>6. Live(x) => Named(t, t[h].path, x)
        BY <4>3, <4>4, <4>5
      <4>7. QED
        BY <3>1, <4>2, <4>6 DEF Proper, e, x
    <3>5. QED
      BY <3>2, <3>3, <3>4
  <2>3. QED
    BY <2>1, <2>2
<1>4. Listed(t, d2)
  <2>1. ASSUME NEW a \in InDirs(t), NEW b \in InDirs(t), NEW i \in 1..Slots, NEW j \in 1..Slots,
               Live(d2[a].slots[i]), Live(d2[b].slots[j]),
               d2[a].slots[i].first = d2[b].slots[j].first, d2[a].slots[i].first # 0
        PROVE  a = b /\ i = j
    <3>1. /\ Live(d[a].slots[i]) /\ d[a].slots[i].first = d2[a].slots[i].first
          /\ Live(d[b].slots[j]) /\ d[b].slots[j].first = d2[b].slots[j].first
      BY <1>2, <2>1 DEF Resized
    <3>2. QED
      BY <1>1, <2>1, <3>1 DEF Listed
  <2>2. QED
    BY <1>3, <2>1 DEF Listed
<1>5. ASSUME NEW b \in InDirs(t), NEW j \in 1..Slots, d2[b].slots[j].kind = "file", d2[b].slots[j].first # 0
      PROVE  Holds(t[d2[b].slots[j].first], d2[b].slots[j].size, d2, cut)
  <2> DEFINE e == d[b].slots[j]
             x == d2[b].slots[j]
  <2>1. Live(x)
    BY <1>5 DEF Live
  <2>2. Resized(t, d, cut, e, x)
    BY <1>2, <2>1
  <2>3. e.kind = "file" /\ e.first # 0 /\ e.first = x.first
    BY <1>5, <2>2 DEF Resized
  <2>4. e.first \in DOMAIN t /\ t[e.first].kind = "file" /\ Holds(t[e.first], e.size, d, cut)
    BY <2>3, FileHolds
  <2>5. Holds(t[e.first], x.size, d, cut)
    BY <2>2, <2>4 DEF Resized
  <2> HIDE DEF e, x
  <2>6. \A k \in 1..Len(t[e.first].chain) : d2[t[e.first].chain[k]] = d[t[e.first].chain[k]]
    <3>1. \A k \in 1..Len(t[e.first].chain) : t[e.first].chain[k] \notin InDirs(t) /\ t[e.first].chain[k] \in Taken(t)
      BY <2>4, FileRow
    <3>2. QED
      BY <3>1
  <2>7. Holds(t[e.first], x.size, d2, cut)
    BY <2>5, <2>6, HoldsKept
  <2>8. QED
    BY <2>3, <2>7 DEF e, x
<1>6. QED
  BY <1>1, <1>4, <1>5 DEF Tidy, Held

(* What removing a row changes.                                            *)
LEMMA RemovedIs ==
  ASSUME NEW t, NEW h
  PROVE  RemovedFrom(t, h, Removed(t, h))
<1> DEFINE u == Removed(t, h)
<1>1. DOMAIN u = DOMAIN t \ {h} /\ \A g \in DOMAIN u : u[g] = t[g]
  BY DEF Removed
<1> HIDE DEF u
<1>2. \A g \in DOMAIN u : Of(u, g) = Of(t, g)
  BY <1>1 DEF Of
<1>3. Taken(u) \subseteq Taken(t)
  BY <1>1, <1>2 DEF Taken
<1>4. Dirs(u) \subseteq Dirs(t)
  BY <1>1 DEF Dirs
<1>5. InDirs(u) \subseteq InDirs(t)
  BY <1>1, <1>2, <1>4 DEF InDirs, Dirs
<1>6. QED
  BY <1>1, <1>2, <1>3, <1>4, <1>5 DEF RemovedFrom, u

(* A row that no entry names can go.                                       *)
LEMMA RemoveRow ==
  ASSUME NEW f, NEW d, NEW t, NEW cut \in BOOLEAN, Tidy(t, f, d, cut), NEW h \in DOMAIN t, h # Root,
         \A c \in InDirs(t), i \in 1..Slots : Live(d[c].slots[i]) => d[c].slots[i].first # h
  PROVE  Tidy(Removed(t, h), f, d, cut)
<1> DEFINE u == Removed(t, h)
<1>1. f \in Fats /\ d \in Disks /\ Table(t, f) /\ Listed(t, d) /\ Held(t, d, cut)
  BY DEF Tidy
<1>2. /\ DOMAIN u = DOMAIN t \ {h}
      /\ \A g \in DOMAIN u : u[g] = t[g] /\ Of(u, g) = Of(t, g)
      /\ Dirs(u) \subseteq Dirs(t) /\ InDirs(u) \subseteq InDirs(t)
  BY RemovedIs DEF RemovedFrom
<1> HIDE DEF u
<1>3. Table(u, f)
  BY <1>1, <1>2 DEF Table
<1>4. ASSUME NEW g \in Dirs(u), NEW c \in Of(u, g)
      PROVE  Len(d[c].slots) = Slots /\ \A i \in 1..Slots : Proper(u, u[g].path, d[c].slots[i])
  <2>1. g \in Dirs(t) /\ g \in DOMAIN u /\ u[g] = t[g] /\ c \in Of(t, g)
    BY <1>2 DEF Dirs
  <2>2. c \in InDirs(t)
    BY <2>1 DEF InDirs
  <2>3. Len(d[c].slots) = Slots /\ \A i \in 1..Slots : Proper(t, t[g].path, d[c].slots[i])
    BY <1>1, <2>1 DEF Listed
  <2>4. ASSUME NEW i \in 1..Slots
        PROVE  Proper(u, t[g].path, d[c].slots[i])
    <3> DEFINE e == d[c].slots[i]
    <3>1. Proper(t, t[g].path, e) /\ (Live(e) => e.first # h)
      BY <2>2, <2>3
    <3> HIDE DEF e
    <3>2. Proper(u, t[g].path, e)
      BY <1>2, <3>1 DEF Proper, Named
    <3>3. QED
      BY <3>2 DEF e
  <2>5. QED
    BY <2>1, <2>3, <2>4
<1>5. Listed(u, d)
  BY <1>1, <1>2, <1>4 DEF Listed
<1>6. ASSUME NEW c \in InDirs(u), NEW i \in 1..Slots, d[c].slots[i].kind = "file", d[c].slots[i].first # 0
      PROVE  Holds(u[d[c].slots[i].first], d[c].slots[i].size, d, cut)
  <2>1. c \in InDirs(t)
    BY <1>2
  <2>2. d[c].slots[i].first \in DOMAIN t /\ Holds(t[d[c].slots[i].first], d[c].slots[i].size, d, cut)
    BY <1>6, <2>1, FileHolds
  <2>3. d[c].slots[i].first # h
    BY <1>6, <2>1 DEF Live
  <2>4. QED
    BY <1>2, <2>2, <2>3
<1>7. QED
  BY <1>1, <1>3, <1>5, <1>6 DEF Tidy, Held, u

(* The entry of a row goes, and the row with it.                           *)
LEMMA DropRow ==
  ASSUME NEW f, NEW d, NEW t, NEW cut \in BOOLEAN, Tidy(t, f, d, cut),
         NEW h \in Dirs(t), NEW c \in Of(t, h), NEW i \in 1..Slots, Live(d[c].slots[i])
  PROVE  /\ Tidy(t, f, WriteSlot(d, c, i, Deleted), cut)
         /\ d[c].slots[i].first # 0 =>
              Tidy(Removed(t, d[c].slots[i].first), f, WriteSlot(d, c, i, Deleted), cut)
         /\ \A b \in 0..LastCluster : b # c => WriteSlot(d, c, i, Deleted)[b] = d[b]
<1> DEFINE d2 == WriteSlot(d, c, i, Deleted)
           g == d[c].slots[i].first
<1>1. f \in Fats /\ d \in Disks /\ Table(t, f) /\ Listed(t, d) /\ Held(t, d, cut)
  BY DEF Tidy
<1>2. c \in InDirs(t)
  BY DEF InDirs
<1>3. c \in 0..LastCluster /\ c \in Taken(t) /\ Len(d[c].slots) = Slots
  BY <1>2, InDirsFacts
<1>4. /\ d2 \in Disks
      /\ \A b \in 0..LastCluster : b # c => d2[b] = d[b]
      /\ Len(d2[c].slots) = Slots
      /\ d2[c].slots[i] = Deleted
      /\ \A j \in 1..Slots : j # i => d2[c].slots[j] = d[c].slots[j]
  BY <1>1, <1>3, SlotFacts, WriteSlotIs
<1> HIDE DEF d2
<1>5. Dead(Deleted)
  BY SlotFacts DEF Dead, Live
<1>6. ASSUME NEW b \in InDirs(t)
      PROVE  /\ Len(d2[b].slots) = Slots /\ b \in 0..LastCluster
             /\ \A j \in 1..Slots : \/ b = c /\ j = i /\ d2[b].slots[j] = Deleted
                                    \/ ~(b = c /\ j = i) /\ d2[b].slots[j] = d[b].slots[j]
  <2>1. b \in 0..LastCluster /\ Len(d[b].slots) = Slots
    BY InDirsFacts
  <2>2. QED
    BY <1>4, <2>1
<1>7. Tidy(t, f, d2, cut)
  <2>1. \A b \in Taken(t) : b \notin InDirs(t) => d2[b] = d[b]
    <3>1. \A b \in Taken(t) : b \in 0..LastCluster
      BY <1>1, TakenMarked, Geometry
    <3>2. QED
      BY <1>2, <1>4, <3>1
  <2>2. \A b \in InDirs(t) : Len(d2[b].slots) = Slots /\
           \A j \in 1..Slots : Dead(d2[b].slots[j]) \/ Resized(t, d, cut, d[b].slots[j], d2[b].slots[j])
    BY <1>5, <1>6 DEF Resized
  <2>3. QED
    BY <1>4, <2>1, <2>2, RewriteTidy
<1>8. ASSUME g # 0
      PROVE  Tidy(Removed(t, g), f, d2, cut)
  <2>1. g \in DOMAIN t /\ t[g].path = Append(t[h].path, d[c].slots[i].name)
    BY <1>8, LiveRow
  <2>2. g # Root
    <3>1. t[h].path \in Seq(Names) /\ t[Root].path = <<>>
      BY <1>1, DirRow, RowFacts DEF Table
    <3>2. Append(t[h].path, d[c].slots[i].name) # <<>>
      BY <3>1
    <3>3. QED
      BY <2>1, <3>1, <3>2
  <2>3. ASSUME NEW b \in InDirs(t), NEW j \in 1..Slots, Live(d2[b].slots[j])
        PROVE  d2[b].slots[j].first # g
    <3>1. ~(b = c /\ j = i) /\ d2[b].slots[j] = d[b].slots[j]
      BY <1>5, <1>6, <2>3 DEF Dead
    <3>2. QED
      BY <1>1, <1>2, <1>8, <2>3, <3>1 DEF Listed
  <2> HIDE DEF g
  <2>4. QED
    BY <1>7, <2>1, <2>2, <2>3, RemoveRow
<1>9. QED
  BY <1>4, <1>7, <1>8 DEF d2

(* The bytes of a file's cluster are written.                              *)
LEMMA WriteBytes ==
  ASSUME NEW f, NEW d, NEW t, NEW cut \in BOOLEAN, Tidy(t, f, d, cut),
         NEW g \in DOMAIN t, t[g].kind = "file", t[g].path \in FatPaths,
         NEW k \in 1..Len(t[g].chain),
         NEW d2, d2 = [d EXCEPT ![t[g].chain[k]] = Bytes(t[g].path, k - 1)]
  PROVE  Tidy(t, f, d2, cut) /\ TreeKept(t, f, d, f, d2)
<1> DEFINE a == t[g].chain[k]
           x == Bytes(t[g].path, k - 1)
<1>1. f \in Fats /\ d \in Disks /\ Table(t, f) /\ Listed(t, d) /\ Held(t, d, cut)
  BY DEF Tidy
<1>2. /\ a \in 0..LastCluster /\ a \notin InDirs(t) /\ a \in Of(t, g) /\ Len(t[g].chain) \in Nat
      /\ Len(t[g].chain) < LastCluster
  BY <1>1, RowFacts, FileRow
<1>3. x \in Content
  <2>1. k - 1 \in 0..LastCluster
    BY <1>2, Geometry
  <2>2. <<>> \in Seq(Slot)
    OBVIOUS
  <2>3. QED
    BY <2>1, <2>2 DEF Bytes, Content
<1>4. d2 \in Disks /\ d2[a] = x /\ \A b \in 0..LastCluster : b # a => d2[b] = d[b]
  <2> HIDE DEF x
  <2>1. d2 = [d EXCEPT ![a] = x]
    BY DEF x
  <2>2. QED
    BY <1>1, <1>2, <1>3, <2>1 DEF Disks
<1>5. \A b \in InDirs(t) : b \in 0..LastCluster /\ d2[b] = d[b] /\ Len(d[b].slots) = Slots
  BY <1>2, <1>4, InDirsFacts
<1>6. Listed(t, d2)
  <2>1. ASSUME NEW h \in Dirs(t), NEW c \in Of(t, h)
        PROVE  Len(d2[c].slots) = Slots /\ \A i \in 1..Slots : Proper(t, t[h].path, d2[c].slots[i])
    <3>1. c \in InDirs(t)
      BY DEF InDirs
    <3>2. d2[c] = d[c]
      BY <1>5, <3>1
    <3>3. Len(d[c].slots) = Slots /\ \A i \in 1..Slots : Proper(t, t[h].path, d[c].slots[i])
      BY <1>1 DEF Listed
    <3>4. QED
      BY <3>2, <3>3
  <2>2. \A c, b \in InDirs(t), i, j \in 1..Slots :
          /\ Live(d2[c].slots[i]) /\ Live(d2[b].slots[j])
          /\ d2[c].slots[i].first = d2[b].slots[j].first /\ d2[c].slots[i].first # 0
          => c = b /\ i = j
    <3>1. \A c \in InDirs(t) : d2[c] = d[c]
      BY <1>5
    <3> HIDE DEF Live
    <3>2. QED
      BY <1>1, <3>1 DEF Listed
  <2>3. QED
    BY <2>1, <2>2 DEF Listed
<1>7. TreeKept(t, f, d, f, d2)
  BY <1>5 DEF TreeKept, SameName
<1>8. ASSUME NEW c \in InDirs(t), NEW i \in 1..Slots, d2[c].slots[i].kind = "file", d2[c].slots[i].first # 0
      PROVE  Holds(t[d2[c].slots[i].first], d2[c].slots[i].size, d2, cut)
  <2>1. d2[c].slots[i] = d[c].slots[i]
    BY <1>5
  <2> DEFINE h == d[c].slots[i].first
             size == d[c].slots[i].size
  <2>2. h \in DOMAIN t /\ Holds(t[h], size, d, cut)
    BY <1>8, <2>1, FileHolds
  <2> HIDE DEF h, size, a, x
  <2>3. ASSUME NEW l \in 1..Len(t[h].chain), (l - 1) * ClusterSize < size
        PROVE  d2[t[h].chain[l]] = Bytes(t[h].path, l - 1) \/ (cut /\ d2[t[h].chain[l]] = Zeros)
    <3>1. t[h].chain[l] \in 0..LastCluster /\ t[h].chain[l] \in Of(t, h) /\ Strung(t[h].chain, h, f)
      BY <1>1, <2>2, RowFacts, Geometry
    <3>2. CASE t[h].chain[l] = a
      <4>1. h = g
        BY <1>1, <1>2, <2>2, <3>1, <3>2 DEF Table
      <4>2. l = k
        BY <3>1, <3>2, <4>1 DEF Strung, a
      <4>3. QED
        BY <1>4, <3>2, <4>1, <4>2 DEF x
    <3>3. CASE t[h].chain[l] # a
      BY <1>4, <2>2, <2>3, <3>1, <3>3 DEF Holds
    <3>4. QED
      BY <3>2, <3>3
  <2>4. Holds(t[h], size, d2, cut)
    BY <2>2, <2>3 DEF Holds
  <2>5. QED
    BY <2>1, <2>4 DEF h, size
<1>9. QED
  BY <1>1, <1>4, <1>6, <1>7, <1>8 DEF Tidy, Held
-----------------------------------------------------------------------------
(* AllocateCluster() may mark the first free cluster at any time.          *)
LEMMA ClaimIs ==
  ASSUME NEW f, NEW d, NEW t, NEW cut \in BOOLEAN, Tidy(t, f, d, cut), \E c \in Cluster : f[c] = Free
  PROVE  Claimed(t, f, d, cut, [f EXCEPT ![FirstIn(f)] = Eoc])
<1> DEFINE n == FirstIn(f)
           f2 == [f EXCEPT ![n] = Eoc]
<1>1. n \in Cluster /\ f[n] = Free /\ n \in 0..LastCluster
  BY FirstInIs, Geometry
<1> HIDE DEF n
<1>2. f \in Fats /\ d \in Disks
  BY DEF Tidy
<1>3. Eoc \in 0..Eoc
  BY Geometry
<1>4. f2 \in Fats /\ f2[n] = Eoc /\ \A b \in 0..LastCluster : b # n => f2[b] = f[b]
  BY <1>1, <1>2, <1>3 DEF Fats
<1> HIDE DEF f2
<1>5. \A c \in Taken(t) : c # n /\ f2[c] = f[c]
  <2>1. \A c \in Taken(t) : c \in Cluster /\ f[c] # Free
    BY TakenMarked DEF Tidy
  <2>2. QED
    BY <1>1, <1>4, <2>1, Geometry
<1>6. Tidy(t, f2, d, cut) /\ TreeKept(t, f, d, f2, d)
  BY <1>2, <1>4, <1>5, KeepTidy
<1>7. Loose(t, f2, n)
  BY <1>1, <1>4, <1>5 DEF Loose
<1>8. ASSUME NEW c, Loose(t, f, c)
      PROVE  Loose(t, f2, c) /\ c # n
  <2>1. c \in Cluster /\ f[c] = Eoc /\ c \in 0..LastCluster
    BY <1>8, Geometry DEF Loose
  <2>2. c # n
    BY <1>1, <2>1, Geometry
  <2>3. QED
    BY <1>4, <1>8, <2>1, <2>2 DEF Loose
<1>9. QED
  BY <1>1, <1>5, <1>6, <1>7, <1>8 DEF Claimed, n, f2

(* An entry that is not written stays the one a path finds.                *)
LEMMA EntryKept ==
  ASSUME NEW f, NEW d, NEW t, NEW cut, Tidy(t, f, d, cut), NEW f2 \in Fats, NEW d2 \in Disks,
         TreeKept(t, f, d, f2, d2), NEW p \in FatPaths, EntryAt(f, d, p).kind # "end",
         \A c \in InDirs(t) : d2[c] = d[c]
  PROVE  EntryAt(f2, d2, p) = EntryAt(f, d, p)
<1>1. f \in Fats /\ d \in Disks /\ Table(t, f) /\ Listed(t, d)
  BY DEF Tidy
<1>2. EntryAt(f2, d2, p) = At(d2, WhereAt(f, d, p))
  BY <1>1, LookupKept
<1>3. WhereAt(f, d, p)[1] \in InDirs(t) /\ EntryAt(f, d, p) = At(d, WhereAt(f, d, p))
  <2>1. /\ ResolveAt(f, d, p) \in Dirs(t)
        /\ Rests(t, d, ResolveAt(f, d, p), Last(p), WhereAt(f, d, p), EntryAt(f, d, p))
    BY <1>1, Lookup
  <2>2. QED
    BY <2>1 DEF Rests, InDirs
<1>4. QED
  BY <1>2, <1>3 DEF At

(* What a job has written stays written, whatever happens to clusters of   *)
(* no row.                                                                 *)
LEMMA WrittenKept ==
  ASSUME NEW f, NEW d, NEW t, NEW cut, Tidy(t, f, d, cut), NEW f2 \in Fats, NEW d2 \in Disks,
         TreeKept(t, f, d, f2, d2), NEW j, j.path \in FatPaths, NEW h, Written(t, f, d, j, h),
         \A c \in Taken(t) : d2[c] = d[c]
  PROVE  Written(t, f2, d2, j, h)
<1>1. \A c \in InDirs(t) : d2[c] = d[c]
  BY InDirsFacts
<1>2. EntryAt(f2, d2, j.path) = EntryAt(f, d, j.path)
  BY <1>1, EntryKept DEF Written
<1>3. \A k \in 1..Len(t[h].chain) : t[h].chain[k] \in Taken(t)
  BY FileRow DEF Written
<1>4. Len(t[h].chain) \in Nat
  BY RowFacts DEF Tidy, Written
<1>5. \A k \in 1..j.done : k \in 1..Len(t[h].chain)
  BY <1>4 DEF Written
<1>6. \A k \in 1..j.done : d2[t[h].chain[k]] = d[t[h].chain[k]]
  BY <1>3, <1>5
<1>7. QED
  BY <1>2, <1>6 DEF Written

(* Operations do not see writes to clusters that they do not know.         *)
LEMMA JobKept ==
  ASSUME NEW f, NEW d, NEW t, NEW cut, Tidy(t, f, d, cut), NEW f2 \in Fats, NEW d2 \in Disks,
         TreeKept(t, f, d, f2, d2), NEW j \in Jobs,
         \A c \in Taken(t) : d2[c] = d[c]
  PROVE  /\ GetsFirst(t, f, d, j) => GetsFirst(t, f2, d2, j)
         /\ Writes(t, f, d, j) => Writes(t, f2, d2, j)
         /\ Extends(t, f, d, j) => Extends(t, f2, d2, j)
<1>1. \A c \in InDirs(t) : d2[c] = d[c]
  BY InDirsFacts
<1>2. ASSUME GetsFirst(t, f, d, j)
      PROVE  GetsFirst(t, f2, d2, j)
  <2>1. EntryAt(f2, d2, j.path) = EntryAt(f, d, j.path)
    BY <1>1, <1>2, EntryKept DEF GetsFirst, Writing
  <2>2. QED
    BY <1>2, <2>1 DEF GetsFirst
<1>3. ASSUME NEW h, Written(t, f, d, j, h), Writing(j)
      PROVE  Written(t, f2, d2, j, h)
  BY <1>3, WrittenKept DEF Writing
<1>4. QED
  BY <1>2, <1>3 DEF Writes, Extends

(* The idle job needs nothing.                                             *)
LEMMA IdleIs ==
  /\ Idle \in Jobs /\ Idle.stage = ""
  /\ \A t, f, d, cut : JobOK(t, f, d, Idle, cut)
  /\ Opened(NoFile)
<1>1. Idle \in Jobs /\ Idle.stage = ""
  BY Geometry DEF Idle, Jobs
<1>2. ASSUME NEW t, NEW f, NEW d, NEW cut PROVE JobOK(t, f, d, Idle, cut)
  <2> DEFINE j == Idle
  <2>1. j.stage = ""
    BY <1>1
  <2> HIDE DEF j
  <2>2. JobOK(t, f, d, j, cut)
    BY <2>1 DEF JobOK
  <2>3. QED
    BY <2>2 DEF j
<1>3. Opened(NoFile)
  BY DEF Opened, NoFile
<1>4. QED
  BY <1>1, <1>2, <1>3

(* The claim of a cluster, in the present state.                           *)
LEMMA ClaimNow ==
  ASSUME NEW t, Tidy(t, fat, data, failed), failed \in BOOLEAN, HasFree,
         fat' = [fat EXCEPT ![FirstFree] = Eoc], UNCHANGED <<data, failed>>
  PROVE  Claimed(t, fat, data, failed, fat') /\ FirstFree = FirstIn(fat) /\ fat' \in Fats
         /\ fat \in Fats /\ data \in Disks
<1>1. \E c \in Cluster : fat[c] = Free
  BY DEF HasFree
<1>2. FirstFree = FirstIn(fat)
  BY FirstFreeIs
<1>3. Claimed(t, fat, data, failed, [fat EXCEPT ![FirstIn(fat)] = Eoc])
  BY <1>1, ClaimIs
<1>4. fat' = [fat EXCEPT ![FirstIn(fat)] = Eoc]
  BY <1>2
<1>5. Claimed(t, fat, data, failed, fat')
  BY <1>3, <1>4
<1>6. fat' \in Fats /\ fat \in Fats /\ data \in Disks
  BY <1>5 DEF Claimed, Tidy
<1>7. QED
  BY <1>2, <1>5, <1>6

(* Every path of the program has a stored path.                            *)
LEMMA FatPathIs == \A path \in Paths : FatPath(path) \in FatPaths
BY DEF FatPaths

(* CreateFile() and CreateDirectory() keep the table.                      *)
LEMMA CreateNow ==
  ASSUME Typed, NEW t, Now(t), NEW op \in {"file", "dir"}, NEW path \in Paths, Create(op, path)
  PROVE  Typed' /\ Now(t)'
<1>1. PICK p \in FatPaths : p = FatPath(path)
  BY FatPathIs
<1>2. /\ ResolvePath(p) # 0 /\ HasFree
      /\ fat' = [fat EXCEPT ![FirstFree] = Eoc]
      /\ UNCHANGED <<data, failed>> /\ file' = NoFile
      /\ job' = [[Idle EXCEPT !.op = op, !.path = p, !.first = FirstFree]
                   EXCEPT !.fresh = FirstFree, !.stage = "zero", !.then = "place"]
  BY <1>1 DEF Create, Claim, Outdate
<1>3. Tidy(t, fat, data, failed) /\ failed \in BOOLEAN
  BY DEF Typed, Now
<1>4. /\ Claimed(t, fat, data, failed, fat') /\ FirstFree = FirstIn(fat) /\ fat' \in Fats
      /\ fat \in Fats /\ data \in Disks
  BY <1>2, <1>3, ClaimNow
<1>5. PICK c \in 0..LastCluster : c = FirstFree
  BY <1>4 DEF Claimed
<1> DEFINE j == [Idle EXCEPT !.op = op, !.path = p, !.first = c]
<1>6. j \in Jobs /\ j.op = op /\ j.path = p /\ j.first = c
  <2>1. Idle \in Jobs
    BY IdleIs
  <2>2. QED
    BY <2>1 DEF Jobs
<1> HIDE DEF j
<1>7. job' = [j EXCEPT !.fresh = c, !.stage = "zero", !.then = "place"]
  BY <1>2, <1>5 DEF j
<1>8. /\ job' \in Jobs /\ job'.stage = "zero" /\ job'.fresh = c /\ job'.then = "place"
      /\ job'.op = op /\ job'.path = p /\ job'.first = c
  BY <1>6, <1>7 DEF Jobs
<1>9. ResolveAt(fat', data', p) # 0
  <2>1. ResolveAt(fat, data, p) # 0
    BY <1>2, OfState
  <2>2. TreeKept(t, fat, data, fat', data') /\ data' = data
    BY <1>2, <1>4 DEF Claimed
  <2>3. ResolveAt(fat', data', p) = ResolveAt(fat, data, p)
    BY <1>3, <1>4, <2>2, LookupKept DEF Tidy
  <2>4. QED
    BY <2>1, <2>3
<1>10. Places(t, fat', data', job') /\ Loose(t, fat', job'.fresh)
  BY <1>4, <1>5, <1>8, <1>9 DEF Places, Making, Claimed
<1>11. JobOK(t, fat', data', job', failed')
  BY <1>8, <1>10 DEF JobOK
<1>12. Tidy(t, fat', data', failed')
  BY <1>2, <1>4 DEF Claimed
<1>13. Typed'
  BY <1>2, <1>3, <1>8, IdleIs DEF Typed
<1>14. QED
  BY <1>11, <1>12, <1>13 DEF Now

(* Zeroing the new cluster keeps the table.                                *)
LEMMA ZeroNow ==
  ASSUME Typed, NEW t, Now(t), Zero
  PROVE  Typed' /\ Now(t)'
<1>1. /\ job.stage = "zero" /\ data' = [data EXCEPT ![job.fresh] = Zeros]
      /\ job' = [job EXCEPT !.stage = job.then] /\ UNCHANGED <<fat, file, failed>>
  BY DEF Zero
<1>2. /\ job \in Jobs /\ failed \in BOOLEAN /\ Tidy(t, fat, data, failed) /\ JobOK(t, fat, data, job, failed)
  BY DEF Typed, Now
<1>3. PICK c \in 0..LastCluster : c = job.fresh
  BY <1>2 DEF Jobs
<1>4. Loose(t, fat, c) /\ c \notin Taken(t)
  BY <1>1, <1>2, <1>3 DEF JobOK, Loose
<1>5. fat \in Fats /\ data \in Disks
  BY <1>2 DEF Tidy
<1>6. Zeros \in Content
  BY ZerosIs, Geometry DEF Content, Zeros
<1>7. data' \in Disks /\ data'[c] = Zeros /\ \A b \in 0..LastCluster : b # c => data'[b] = data[b]
  BY <1>1, <1>3, <1>5, <1>6 DEF Disks
<1>8. \A b \in Taken(t) : fat[b] = fat[b] /\ data'[b] = data[b]
  <2>1. \A b \in Taken(t) : b \in 0..LastCluster /\ b # c
    BY <1>2, <1>4, TakenMarked, Geometry DEF Tidy
  <2>2. QED
    BY <1>7, <2>1
<1>9. Tidy(t, fat, data', failed) /\ TreeKept(t, fat, data, fat, data')
  BY <1>2, <1>5, <1>7, <1>8, KeepTidy
<1>10. /\ GetsFirst(t, fat, data, job) => GetsFirst(t, fat, data', job)
       /\ Extends(t, fat, data, job) => Extends(t, fat, data', job)
  BY <1>2, <1>5, <1>7, <1>8, <1>9, JobKept
<1>11. /\ job' \in Jobs /\ job'.stage = job.then /\ job'.fresh = c
       /\ job'.op = job.op /\ job'.path = job.path /\ job'.first = job.first /\ job'.at = job.at
       /\ job'.length = job.length /\ job'.done = job.done
  BY <1>1, <1>2, <1>3 DEF Jobs
<1>12. Blank(t, fat, data', c)
  BY <1>4, <1>7 DEF Blank
<1>13. CASE job.then = "place" /\ Places(t, fat, data, job) /\ job.first = job.fresh
  <2>1. ResolveAt(fat, data', job.path) = ResolveAt(fat, data, job.path)
    BY <1>2, <1>5, <1>7, <1>9, <1>13, LookupKept DEF Tidy, Places, Making
  <2>2. Places(t, fat, data', job') /\ Blank(t, fat, data', job'.first)
    BY <1>3, <1>11, <1>12, <1>13, <2>1 DEF Places, Making
  <2>3. JobOK(t, fat, data', job', failed)
    BY <1>11, <1>13, <2>2 DEF JobOK
  <2>4. QED
    BY <1>1, <1>2, <1>9, <1>11, <2>3 DEF Typed, Now
<1>14. CASE job.then = "link" /\ LinksDir(t, fat, data, job)
  <2>1. Blank(t, fat, data', job'.first)
    <3>1. Blank(t, fat, data, job.first) /\ job.first # c /\ job.first \in 0..LastCluster
      BY <1>3, <1>14, Geometry DEF LinksDir, Blank, Loose
    <3>2. QED
      BY <1>7, <1>11, <3>1 DEF Blank
  <2>2. LinksDir(t, fat, data', job')
    BY <1>3, <1>11, <1>14, <2>1 DEF LinksDir, Making
  <2>3. JobOK(t, fat, data', job', failed)
    BY <1>11, <1>12, <1>14, <2>2 DEF JobOK
  <2>4. QED
    BY <1>1, <1>2, <1>9, <1>11, <2>3 DEF Typed, Now
<1>15. CASE job.then = "link" /\ Extends(t, fat, data, job)
  <2>1. Extends(t, fat, data', job')
    BY <1>10, <1>11, <1>15 DEF Extends, Writing, Written
  <2>2. JobOK(t, fat, data', job', failed)
    BY <1>11, <1>12, <1>15, <2>1 DEF JobOK
  <2>3. QED
    BY <1>1, <1>2, <1>9, <1>11, <2>2 DEF Typed, Now
<1>16. CASE job.then = "first" /\ GetsFirst(t, fat, data, job)
  <2>1. GetsFirst(t, fat, data', job')
    BY <1>10, <1>11, <1>16 DEF GetsFirst, Writing
  <2>2. JobOK(t, fat, data', job', failed)
    BY <1>11, <1>12, <1>16, <2>1 DEF JobOK
  <2>3. QED
    BY <1>1, <1>2, <1>9, <1>11, <2>2 DEF Typed, Now
<1>17. QED
  BY <1>1, <1>2, <1>13, <1>14, <1>15, <1>16 DEF JobOK

(* What holds before a power loss holds after it.                          *)
LEMMA TidyCut ==
  ASSUME NEW t, NEW f, NEW d, NEW cut \in BOOLEAN, Tidy(t, f, d, cut)
  PROVE  Tidy(t, f, d, TRUE)
<1>1. ASSUME NEW n, NEW size, Holds(n, size, d, cut) PROVE Holds(n, size, d, TRUE)
  BY <1>1 DEF Holds
<1>2. Held(t, d, TRUE)
  BY <1>1 DEF Held, Tidy
<1>3. QED
  BY <1>2 DEF Tidy

(* The parts of the invariant.                                             *)
LEMMA NowFacts ==
  ASSUME Typed, NEW t, Now(t)
  PROVE  /\ job \in Jobs /\ Opened(file) /\ failed \in BOOLEAN
         /\ Tidy(t, fat, data, failed) /\ JobOK(t, fat, data, job, failed)
         /\ fat \in Fats /\ data \in Disks /\ Table(t, fat) /\ Listed(t, data) /\ Held(t, data, failed)
BY DEF Typed, Now, Tidy

(* An operation ends with a tidy disk.                                     *)
LEMMA IdleNow ==
  ASSUME Typed, NEW t, Tidy(t, fat', data', failed'), job' = Idle, failed' \in BOOLEAN, Opened(file')
  PROVE  Typed' /\ Now(t)'
<1>1. job' \in Jobs /\ JobOK(t, fat', data', job', failed')
  <2>1. job' = Idle /\ Idle \in Jobs /\ JobOK(t, fat', data', Idle, failed')
    BY IdleIs
  <2> HIDE DEF Idle
  <2>2. QED
    BY <2>1
<1>2. QED
  BY <1>1 DEF Typed, Now

(* A power loss keeps the table: the job goes, the disk stays.             *)
LEMMA PowerLossNow ==
  ASSUME Typed, NEW t, Now(t), PowerLoss
  PROVE  Typed' /\ Now(t)'
<1>1. job' = Idle /\ file' = NoFile /\ failed' = TRUE /\ UNCHANGED <<fat, data>>
  BY DEF PowerLoss
<1>2. Tidy(t, fat, data, TRUE)
  BY NowFacts, TidyCut
<1>3. Tidy(t, fat', data', failed')
  BY <1>1, <1>2
<1>4. Opened(file')
  BY <1>1, IdleIs
<1>5. QED
  BY <1>1, <1>3, <1>4, IdleNow

(* A creation that finds neither a free entry nor a free cluster keeps the *)
(* table.                                                                  *)
LEMMA DirectoryFullNow ==
  ASSUME Typed, NEW t, Now(t), DirectoryFull
  PROVE  Typed' /\ Now(t)'
<1>1. job' = Idle /\ failed' = TRUE /\ UNCHANGED <<fat, data, file>>
  BY DEF DirectoryFull
<1>2. Tidy(t, fat, data, TRUE)
  BY NowFacts, TidyCut
<1>3. Tidy(t, fat', data', failed') /\ Opened(file')
  BY <1>1, <1>2, NowFacts
<1>4. QED
  BY <1>1, <1>3, IdleNow

(* Claiming a cluster for a directory keeps the table.                     *)
LEMMA GrowDirectoryNow ==
  ASSUME Typed, NEW t, Now(t), GrowDirectory
  PROVE  Typed' /\ Now(t)'
<1> DEFINE dir == ResolvePath(job.path)
<1>1. /\ job.stage = "place" /\ HasFree
      /\ fat' = [fat EXCEPT ![FirstFree] = Eoc]
      /\ job' = [[job EXCEPT !.at = Last(Chain(dir))] EXCEPT !.fresh = FirstFree, !.stage = "zero", !.then = "link"]
      /\ UNCHANGED <<data, file, failed>>
  BY DEF GrowDirectory, Claim
<1>2. /\ job \in Jobs /\ failed \in BOOLEAN /\ Tidy(t, fat, data, failed)
      /\ Places(t, fat, data, job) /\ Blank(t, fat, data, job.first)
      /\ fat \in Fats /\ data \in Disks /\ Table(t, fat) /\ Listed(t, data)
  BY <1>1, NowFacts DEF JobOK
<1>3. /\ Claimed(t, fat, data, failed, fat') /\ FirstFree = FirstIn(fat) /\ fat' \in Fats
  BY <1>1, <1>2, ClaimNow
<1>4. PICK c \in 0..LastCluster : c = FirstFree
  BY <1>3 DEF Claimed
<1>5. PICK h : h = dir
  OBVIOUS
<1>6. h \in Dirs(t) /\ t[h].path = Front(job.path)
  <2>1. h = ResolveAt(fat, data, job.path) /\ h # 0 /\ job.path \in FatPaths
    BY <1>2, <1>5, OfState DEF Places, Making
  <2>2. QED
    BY <1>2, <2>1, ResolveTidy
<1>7. Chain(h) = t[h].chain
  BY <1>2, <1>6, ChainIs, StrungChain, DirRow DEF Table
<1>8. PICK l \in 0..LastCluster : l = Last(t[h].chain)
  BY <1>2, <1>6, DirRow, RowFacts, Geometry
<1> HIDE DEF dir
<1>9. job' = [[job EXCEPT !.at = l] EXCEPT !.fresh = c, !.stage = "zero", !.then = "link"]
  BY <1>1, <1>4, <1>5, <1>7, <1>8
<1>10. /\ job' \in Jobs /\ job'.stage = "zero" /\ job'.fresh = c /\ job'.then = "link" /\ job'.at = l
       /\ job'.op = job.op /\ job'.path = job.path /\ job'.first = job.first
  BY <1>2, <1>9 DEF Jobs
<1>11. Loose(t, fat', c) /\ Blank(t, fat', data, job.first) /\ job.first # c
  BY <1>2, <1>3, <1>4 DEF Claimed, Blank
<1>12. LinksDir(t, fat', data, job')
  <2>1. Making(job') /\ Blank(t, fat', data, job'.first) /\ job'.first # job'.fresh
    BY <1>2, <1>10, <1>11 DEF Places, Making
  <2>2. h \in Dirs(t) /\ t[h].path = Front(job'.path) /\ job'.at = Last(t[h].chain)
    BY <1>6, <1>8, <1>10
  <2>3. QED
    BY <2>1, <2>2 DEF LinksDir
<1>13. JobOK(t, fat', data, job', failed)
  BY <1>10, <1>11, <1>12 DEF JobOK
<1>14. Tidy(t, fat', data, failed)
  BY <1>3 DEF Claimed
<1>15. QED
  BY <1>1, <1>2, <1>10, <1>13, <1>14 DEF Typed, Now

(* FreeChain() frees clusters of no row and keeps the table.               *)
LEMMA FreeChainNow ==
  ASSUME Typed, NEW t, Now(t), FreeChain
  PROVE  Typed' /\ Now(t)'
<1>1. /\ job.stage = "free" /\ fat' = [fat EXCEPT ![job.at] = Free] /\ data' = [data EXCEPT ![job.at] = Junk]
      /\ job' = IF fat[job.at] \in Cluster THEN [job EXCEPT !.at = fat[job.at]] ELSE Idle
      /\ UNCHANGED <<file, failed>>
  BY DEF FreeChain
<1>2. /\ job \in Jobs /\ failed \in BOOLEAN /\ Tidy(t, fat, data, failed) /\ Opened(file)
      /\ fat \in Fats /\ data \in Disks /\ Table(t, fat)
  BY NowFacts
<1>3. PICK g : Strung(g, job.at, fat) /\ \A k \in 1..Len(g) : g[k] \notin Taken(t)
  BY <1>1, NowFacts DEF JobOK, Frees
<1>4. PICK a : a = job.at
  OBVIOUS
<1>5. /\ g \in Seq(Cluster) /\ Len(g) \in Nat \ {0} /\ g[1] = a /\ a \in Cluster /\ a \in 0..LastCluster
      /\ a \notin Taken(t)
  BY <1>3, <1>4, Geometry DEF Strung
<1>6. Junk \in Content
  BY Geometry DEF Junk, Bytes, Content
<1>7. /\ fat' \in Fats /\ data' \in Disks
      /\ \A b \in 0..LastCluster : b # a => fat'[b] = fat[b] /\ data'[b] = data[b]
  BY <1>1, <1>2, <1>4, <1>5, <1>6, Geometry DEF Fats, Disks
<1>8. \A b \in Taken(t) : fat'[b] = fat[b] /\ data'[b] = data[b]
  <2>1. \A b \in Taken(t) : b \in 0..LastCluster /\ b # a
    BY <1>2, <1>5, TakenMarked, Geometry
  <2>2. QED
    BY <1>7, <2>1
<1>9. Tidy(t, fat', data', failed)
  BY <1>2, <1>7, <1>8, KeepTidy
<1>10. CASE fat[a] \notin Cluster
  <2>1. job' = Idle
    BY <1>1, <1>4, <1>10
  <2>2. QED
    BY <1>1, <1>2, <1>9, <2>1, IdleNow
<1>11. CASE fat[a] \in Cluster
  <2>1. job' = [job EXCEPT !.at = fat[a]] /\ fat[a] \in 0..LastCluster
    BY <1>1, <1>4, <1>11, Geometry
  <2>2. job' \in Jobs /\ job'.stage = "free" /\ job'.at = fat[a]
    BY <1>1, <1>2, <2>1 DEF Jobs
  <2>3. Len(g) # 1
    BY <1>3, <1>5, <1>11, Geometry DEF Strung
  <2>4. /\ Tail(g) \in Seq(Cluster) /\ Len(Tail(g)) = Len(g) - 1
        /\ \A k \in 1..Len(g) - 1 : Tail(g)[k] = g[k + 1]
    BY <1>5, HeadTail
  <2>5. Len(Tail(g)) \in Nat \ {0} /\ Tail(g)[1] = g[2] /\ fat[a] = g[2] /\ g[2] \notin Taken(t)
    BY <1>3, <1>5, <2>3, <2>4 DEF Strung
  <2>6. \A k \in 1..Len(g) - 1 : g[k + 1] # a /\ g[k + 1] \in 0..LastCluster /\ fat'[g[k + 1]] = fat[g[k + 1]]
    BY <1>3, <1>5, <1>7, Geometry DEF Strung
  <2>7. Strung(Tail(g), fat[a], fat')
    <3>1. fat'[Tail(g)[Len(Tail(g))]] = Eoc
      <4>1. Tail(g)[Len(Tail(g))] = g[Len(g)]
        BY <1>5, <2>3, <2>4
      <4>2. fat'[g[Len(g)]] = fat[g[Len(g)]]
        <5>0. PICK n \in Nat \ {0} : n = Len(g) /\ n # 1
          BY <1>5, <2>3
        <5>1. Len(g) - 1 \in 1..Len(g) - 1 /\ (Len(g) - 1) + 1 = Len(g)
          BY <5>0
        <5>2. fat'[g[(Len(g) - 1) + 1]] = fat[g[(Len(g) - 1) + 1]]
          BY <2>6, <5>1
        <5>3. QED
          BY <5>1, <5>2
      <4>3. fat[g[Len(g)]] = Eoc
        BY <1>3 DEF Strung
      <4>4. QED
        BY <4>1, <4>2, <4>3
    <3>2. \A k \in 1..Len(Tail(g)) - 1 : fat'[Tail(g)[k]] = Tail(g)[k + 1]
      <4>1. SUFFICES ASSUME NEW k \in 1..Len(Tail(g)) - 1 PROVE fat'[Tail(g)[k]] = Tail(g)[k + 1]
        OBVIOUS
      <4>2. Tail(g)[k] = g[k + 1] /\ Tail(g)[k + 1] = g[(k + 1) + 1]
        BY <1>5, <2>4
      <4>3. k + 1 \in 1..Len(g) - 1 /\ k + 1 \in 1..Len(g) /\ k + 1 # 1
        BY <1>5, <2>4
      <4>4. fat[g[k + 1]] = g[(k + 1) + 1]
        BY <1>3, <4>3 DEF Strung
      <4>5. fat'[g[k + 1]] = fat[g[k + 1]]
        BY <2>6, <4>3
      <4>6. QED
        BY <4>2, <4>4, <4>5
    <3>3. \A k, l \in 1..Len(Tail(g)) : Tail(g)[k] = Tail(g)[l] => k = l
      <4>1. SUFFICES ASSUME NEW k \in 1..Len(Tail(g)), NEW l \in 1..Len(Tail(g)), Tail(g)[k] = Tail(g)[l] PROVE k = l
        OBVIOUS
      <4>2. g[k + 1] = g[l + 1] /\ k + 1 \in 1..Len(g) /\ l + 1 \in 1..Len(g)
        BY <1>5, <2>4, <4>1
      <4>3. QED
        BY <1>3, <4>2 DEF Strung
    <3>4. PICK r : r = Tail(g)
      OBVIOUS
    <3>5. Len(r) # 0 /\ r \in Seq(Cluster)
      BY <2>4, <2>5, <3>4
    <3>6. r # <<>>
      BY <3>5
    <3>7. Tail(g)[1] = fat[a]
      BY <2>5
    <3>8. Strung(r, fat[a], fat')
      BY <3>1, <3>2, <3>3, <3>4, <3>5, <3>6, <3>7 DEF Strung
    <3>9. QED
      BY <3>4, <3>8
  <2>8. \A k \in 1..Len(Tail(g)) : Tail(g)[k] \notin Taken(t)
    BY <1>3, <1>5, <2>4
  <2>9. Frees(t, fat', job')
    BY <2>2, <2>7, <2>8 DEF Frees
  <2>10. JobOK(t, fat', data', job', failed)
    BY <2>2, <2>9 DEF JobOK
  <2>11. QED
    BY <1>1, <1>2, <1>9, <2>2, <2>10 DEF Typed, Now
<1>12. QED
  BY <1>10, <1>11

(* A step that leaves the disk and the job alone keeps the table.          *)
LEMMA StillNow ==
  ASSUME Typed, NEW t, Now(t), UNCHANGED <<fat, data, job, failed>>, Opened(file')
  PROVE  Typed' /\ Now(t)'
BY DEF Typed, Now

(* Opening a file keeps the table.                                         *)
LEMMA OpenNow ==
  ASSUME Typed, NEW t, Now(t), NEW path \in Paths, Open(path)
  PROVE  Typed' /\ Now(t)'
<1>1. PICK p \in FatPaths : p = FatPath(path)
  BY FatPathIs
<1>2. EntryOf(p) \in Slot
  BY NowFacts, EntryOfIs
<1>3. EntryOf(p).size \in Nat
  BY <1>2, SlotFacts
<1>4. file' = [first |-> EntryOf(p).first, size |-> EntryOf(p).size, position |-> 0,
               path |-> p, got |-> <<>>] /\ UNCHANGED <<fat, data, job, failed>>
  BY <1>1 DEF Open
<1>5. Opened(file')
  BY <1>3, <1>4 DEF Opened
<1>6. QED
  BY <1>4, <1>5, StillNow

(* Read() keeps the table.                                                 *)
LEMMA ReadNow ==
  ASSUME Typed, NEW t, Now(t), NEW length \in 1..ClusterSize, Read(length)
  PROVE  Typed' /\ Now(t)'
<1>1. UNCHANGED <<fat, data, job, failed>> /\ file.position < file.size
  BY DEF Read
<1>2. \E n, got : /\ n = (IF file.position + length > file.size THEN file.size - file.position ELSE length)
                  /\ file' = [file EXCEPT !.position = @ + n, !.got = got]
  BY DEF Read
<1>3. PICK n, got : /\ n = (IF file.position + length > file.size THEN file.size - file.position ELSE length)
                    /\ file' = [file EXCEPT !.position = @ + n, !.got = got]
  BY <1>2
<1>4. /\ file.size \in Nat /\ file.position \in 0..file.size /\ length \in Nat
      /\ file = [first |-> file.first, size |-> file.size, position |-> file.position,
                 path |-> file.path, got |-> file.got]
  BY NowFacts, Geometry DEF Opened
<1>5. file.position + n \in 0..file.size
  BY <1>1, <1>3, <1>4
<1>6. file' = [first |-> file.first, size |-> file.size, position |-> file.position + n,
               path |-> file.path, got |-> got]
  BY <1>3, <1>4
<1>7. Opened(file')
  BY <1>4, <1>5, <1>6 DEF Opened
<1>8. QED
  BY <1>1, <1>7, StillNow

(* Seek() keeps the table.                                                 *)
LEMMA SeekNow ==
  ASSUME Typed, NEW t, Now(t), NEW position \in 1..ClusterSize, Seek(position)
  PROVE  Typed' /\ Now(t)'
<1>1. /\ UNCHANGED <<fat, data, job, failed>>
      /\ file' = [file EXCEPT !.position = IF position > file.size THEN file.size ELSE position, !.got = <<>>]
  BY DEF Seek
<1>2. /\ file.size \in Nat /\ position \in Nat
      /\ file = [first |-> file.first, size |-> file.size, position |-> file.position,
                 path |-> file.path, got |-> file.got]
  BY NowFacts, Geometry DEF Opened
<1>3. PICK n \in 0..file.size : n = (IF position > file.size THEN file.size ELSE position)
  BY <1>2
<1>4. file' = [first |-> file.first, size |-> file.size, position |-> n, path |-> file.path, got |-> <<>>]
  BY <1>1, <1>2, <1>3
<1>5. Opened(file')
  BY <1>2, <1>3, <1>4 DEF Opened
<1>6. QED
  BY <1>1, <1>5, StillNow

(* WriteFile() refuses a directory.                                        *)
LEMMA WriteDirectoryNow ==
  ASSUME Typed, NEW t, Now(t), NEW path \in Paths, WriteDirectory(path)
  PROVE  Typed' /\ Now(t)'
<1>1. job' = [Idle EXCEPT !.op = "undefined"] /\ file' = NoFile /\ UNCHANGED <<fat, data, failed>>
  BY DEF WriteDirectory, Outdate
<1>2. job' \in Jobs /\ job'.stage = ""
  <2>1. Idle \in Jobs /\ Idle.stage = ""
    BY IdleIs
  <2> HIDE DEF Idle
  <2>2. QED
    BY <1>1, <2>1 DEF Jobs
<1>3. JobOK(t, fat', data', job', failed')
  BY <1>2 DEF JobOK
<1>4. Opened(file')
  BY <1>1, IdleIs
<1>5. QED
  BY <1>1, <1>2, <1>3, <1>4 DEF Typed, Now

(* WriteFile() of no bytes keeps the table.                                *)
LEMMA WriteNothingNow ==
  ASSUME Typed, NEW t, Now(t), WriteNothing
  PROVE  Typed' /\ Now(t)'
<1>1. /\ job.stage = "data" /\ job.length = 0 /\ job' = [job EXCEPT !.stage = "size"]
      /\ UNCHANGED <<fat, data, file, failed>>
  BY DEF WriteNothing
<1>2. job \in Jobs /\ Writes(t, fat, data, job)
  BY <1>1, NowFacts DEF JobOK
<1>3. PICK h \in DOMAIN t : Written(t, fat, data, job, h)
  BY <1>2 DEF Writes
<1>4. /\ job' \in Jobs /\ job'.stage = "size" /\ job'.op = job.op /\ job'.path = job.path
      /\ job'.length = 0 /\ job'.done = job.done
  BY <1>1, <1>2 DEF Jobs
<1>5. Holds(t[h], 0, data, failed)
  <2>1. Len(t[h].chain) \in Nat
    BY <1>3, NowFacts, RowFacts
  <2>2. 0 <= Len(t[h].chain) * ClusterSize
    BY <2>1, Geometry
  <2>3. ASSUME NEW k \in 1..Len(t[h].chain) PROVE ~((k - 1) * ClusterSize < 0)
    BY <2>1, Geometry
  <2>4. QED
    BY <2>2, <2>3 DEF Holds
<1>6. Written(t, fat, data, job', h) /\ Writing(job')
  BY <1>2, <1>3, <1>4 DEF Written, Writes, Writing
<1>7. Sizes(t, fat, data, job', failed)
  BY <1>3, <1>4, <1>5, <1>6 DEF Sizes
<1>8. JobOK(t, fat, data, job', failed)
  BY <1>4, <1>7 DEF JobOK
<1>9. QED
  BY <1>1, <1>4, <1>8, NowFacts DEF Typed, Now

(* WriteFile() on a full disk keeps the table.                             *)
LEMMA DiskFullNow ==
  ASSUME Typed, NEW t, Now(t), DiskFull
  PROVE  Typed' /\ Now(t)'
<1>1. /\ job.stage = "extend" /\ job' = [job EXCEPT !.stage = "size"] /\ failed' = TRUE
      /\ UNCHANGED <<fat, data, file>>
  BY DEF DiskFull
<1>2. job \in Jobs /\ Extends(t, fat, data, job)
  BY <1>1, NowFacts DEF JobOK
<1>3. PICK h \in DOMAIN t : Written(t, fat, data, job, h) /\ job.done = Len(t[h].chain)
  BY <1>2 DEF Extends
<1>4. /\ job' \in Jobs /\ job'.stage = "size" /\ job'.op = job.op /\ job'.path = job.path
      /\ job'.length = job.length /\ job'.done = job.done
  BY <1>1, <1>2 DEF Jobs
<1>5. Holds(t[h], job'.length, data, TRUE)
  BY <1>3 DEF Holds, Written
<1>6. Written(t, fat, data, job', h) /\ Writing(job')
  BY <1>2, <1>3, <1>4 DEF Written, Extends, Writing
<1>7. Sizes(t, fat, data, job', TRUE)
  BY <1>3, <1>5, <1>6 DEF Sizes
<1>8. JobOK(t, fat, data, job', TRUE)
  BY <1>4, <1>7 DEF JobOK
<1>9. Tidy(t, fat, data, TRUE)
  BY NowFacts, TidyCut
<1>10. QED
  BY <1>1, <1>4, <1>8, <1>9, NowFacts DEF Typed, Now

(* Claiming a cluster for a file keeps the table.                          *)
LEMMA ExtendFileNow ==
  ASSUME Typed, NEW t, Now(t), ExtendFile
  PROVE  Typed' /\ Now(t)'
<1>1. /\ job.stage = "extend" /\ HasFree /\ fat' = [fat EXCEPT ![FirstFree] = Eoc]
      /\ job' = [job EXCEPT !.fresh = FirstFree, !.stage = "zero", !.then = "link"]
      /\ UNCHANGED <<data, file, failed>>
  BY DEF ExtendFile, Claim
<1>2. /\ job \in Jobs /\ failed \in BOOLEAN /\ Tidy(t, fat, data, failed) /\ Extends(t, fat, data, job)
      /\ fat \in Fats /\ data \in Disks
  BY <1>1, NowFacts DEF JobOK
<1>3. /\ Claimed(t, fat, data, failed, fat') /\ FirstFree = FirstIn(fat) /\ fat' \in Fats
  BY <1>1, <1>2, ClaimNow
<1>4. PICK c \in 0..LastCluster : c = FirstFree
  BY <1>3 DEF Claimed
<1>5. job' = [job EXCEPT !.fresh = c, !.stage = "zero", !.then = "link"]
  BY <1>1, <1>4
<1>6. /\ job' \in Jobs /\ job'.stage = "zero" /\ job'.fresh = c /\ job'.then = "link" /\ job'.at = job.at
      /\ job'.op = job.op /\ job'.path = job.path /\ job'.length = job.length /\ job'.done = job.done
  BY <1>2, <1>5 DEF Jobs
<1>7. Extends(t, fat', data, job)
  BY <1>2, <1>3, JobKept DEF Claimed
<1>8. Extends(t, fat', data, job')
  BY <1>6, <1>7 DEF Extends, Written, Writing
<1>9. JobOK(t, fat', data, job', failed)
  BY <1>3, <1>4, <1>6, <1>8 DEF JobOK, Claimed
<1>10. QED
  BY <1>1, <1>2, <1>3, <1>6, <1>9, NowFacts DEF Typed, Now, Claimed

(* The start of WriteFile() keeps the table.                               *)
LEMMA WriteFileNow ==
  ASSUME Typed, NEW t, Now(t), NEW path \in Paths, NEW length \in Lengths, WriteFile(path, length)
  PROVE  Typed' /\ Now(t)'
<1>1. PICK p \in FatPaths : p = FatPath(path)
  BY FatPathIs
<1> DEFINE j == [Idle EXCEPT !.op = "write", !.path = p, !.length = length]
<1>2. /\ Found(p) /\ EntryOf(p).kind = "file" /\ file' = NoFile /\ UNCHANGED <<data, failed>>
      /\ IF EntryOf(p).first = 0
           THEN HasFree /\ Claim(j, "first")
           ELSE job' = [j EXCEPT !.stage = "data", !.at = EntryOf(p).first] /\ UNCHANGED fat
  BY <1>1 DEF WriteFile, Outdate
<1>3. j \in Jobs /\ j.op = "write" /\ j.path = p /\ j.length = length /\ j.done = 0
  <2>1. Idle \in Jobs /\ Idle.done = 0
    BY IdleIs DEF Idle
  <2> HIDE DEF Idle
  <2>2. QED
    BY <2>1 DEF Jobs
<1> HIDE DEF j
<1>4. /\ Tidy(t, fat, data, failed) /\ failed \in BOOLEAN /\ fat \in Fats /\ data \in Disks
      /\ Table(t, fat) /\ Listed(t, data)
  BY NowFacts
<1>5. PICK e \in Slot : e = EntryOf(p) /\ e = EntryAt(fat, data, p)
  BY <1>4, EntryOfIs
<1>6. e.kind = "file" /\ e.kind # "end" /\ e.first \in 0..LastCluster
  BY <1>2, <1>5, SlotFacts
<1>7. CASE e.first = 0
  <2>1. /\ HasFree /\ fat' = [fat EXCEPT ![FirstFree] = Eoc]
        /\ job' = [j EXCEPT !.fresh = FirstFree, !.stage = "zero", !.then = "first"]
    BY <1>2, <1>5, <1>7 DEF Claim
  <2>2. /\ Claimed(t, fat, data, failed, fat') /\ FirstFree = FirstIn(fat) /\ fat' \in Fats
    BY <1>2, <1>4, <2>1, ClaimNow
  <2>3. PICK c \in 0..LastCluster : c = FirstFree
    BY <2>2 DEF Claimed
  <2>4. /\ job' \in Jobs /\ job'.stage = "zero" /\ job'.fresh = c /\ job'.then = "first"
        /\ job'.op = "write" /\ job'.path = p /\ job'.done = 0
    BY <1>3, <2>1, <2>3 DEF Jobs
  <2>5. EntryAt(fat', data, p) = e
    BY <1>4, <1>5, <1>6, <2>2, EntryKept DEF Claimed
  <2>6. GetsFirst(t, fat', data, job')
    BY <1>6, <1>7, <2>4, <2>5 DEF GetsFirst, Writing
  <2>7. JobOK(t, fat', data, job', failed)
    BY <2>2, <2>3, <2>4, <2>6 DEF JobOK, Claimed
  <2>8. Opened(file')
    BY <1>2, IdleIs
  <2>9. QED
    BY <1>2, <1>4, <2>2, <2>4, <2>7, <2>8 DEF Typed, Now, Claimed
<1>8. CASE e.first # 0
  <2>1. job' = [j EXCEPT !.stage = "data", !.at = e.first] /\ fat' = fat
    BY <1>2, <1>5, <1>8
  <2>2. /\ job' \in Jobs /\ job'.stage = "data" /\ job'.at = e.first
        /\ job'.op = "write" /\ job'.path = p /\ job'.done = 0
    BY <1>3, <1>6, <2>1 DEF Jobs
  <2>3. e.first \in DOMAIN t /\ t[e.first].kind = "file" /\ t[e.first].path = p
    BY <1>4, <1>5, <1>6, <1>8, FoundRow
  <2>4. Strung(t[e.first].chain, e.first, fat) /\ Len(t[e.first].chain) \in Nat \ {0}
    BY <1>4, <2>3, RowFacts
  <2>5. Written(t, fat, data, job', e.first)
    BY <1>5, <1>6, <2>2, <2>3, <2>4 DEF Written
  <2>6. job'.done < Len(t[e.first].chain) /\ job'.at = t[e.first].chain[job'.done + 1]
    BY <2>2, <2>4 DEF Strung
  <2>7. Writes(t, fat, data, job')
    BY <2>2, <2>3, <2>5, <2>6 DEF Writes, Writing
  <2>8. JobOK(t, fat, data, job', failed)
    BY <2>2, <2>7 DEF JobOK
  <2>9. Opened(file')
    BY <1>2, IdleIs
  <2>10. QED
    BY <1>2, <1>4, <2>1, <2>2, <2>8, <2>9 DEF Typed, Now
<1>9. QED
  BY <1>7, <1>8

(* Writing a cluster of a file keeps the table.                            *)
LEMMA WriteDataNow ==
  ASSUME Typed, NEW t, Now(t), WriteData
  PROVE  Typed' /\ Now(t)'
<1>1. /\ job.stage = "data" /\ job.done * ClusterSize < job.length
      /\ data' = [data EXCEPT ![job.at] = Bytes(job.path, job.done)]
      /\ UNCHANGED <<fat, file, failed>>
  BY DEF WriteData
<1>2. /\ job \in Jobs /\ failed \in BOOLEAN /\ Tidy(t, fat, data, failed) /\ Writes(t, fat, data, job)
      /\ fat \in Fats /\ data \in Disks /\ Table(t, fat) /\ Listed(t, data) /\ Opened(file)
  BY <1>1, NowFacts DEF JobOK
<1>3. PICK h \in DOMAIN t : /\ Written(t, fat, data, job, h) /\ job.done < Len(t[h].chain)
                            /\ job.at = t[h].chain[job.done + 1]
  BY <1>2 DEF Writes
<1>4. PICK q : q = t[h].chain
  OBVIOUS
<1>5. PICK k : k = job.done + 1
  OBVIOUS
<1>6. /\ Strung(q, h, fat) /\ q \in Seq(Cluster) /\ Len(q) \in Nat \ {0} /\ Last(q) = q[Len(q)]
      /\ \A l \in 1..Len(q) : q[l] \in Cluster
  BY <1>2, <1>4, RowFacts
<1>7. k \in 1..Len(q) /\ k \in Nat /\ job.done \in Nat /\ k - 1 = job.done /\ q[k] \in Cluster
      /\ job.at = q[k] /\ job.path = t[h].path /\ job.path \in FatPaths /\ t[h].kind = "file"
      /\ job.op = "write" /\ job.length \in Nat
  <2>1. job.done \in Nat /\ job.done < Len(q)
    BY <1>2, <1>3, <1>4 DEF Jobs
  <2>2. k \in 1..Len(q) /\ k \in Nat /\ k - 1 = job.done
    BY <1>5, <1>6, <2>1
  <2>3. q[k] \in Cluster /\ job.at = q[k]
    BY <1>3, <1>4, <1>5, <1>6, <2>2
  <2>4. job.path = t[h].path /\ t[h].kind = "file" /\ job.path \in FatPaths /\ job.op = "write"
    BY <1>2, <1>3 DEF Written, Writes, Writing
  <2>5. job.length \in Nat
    <3>1. job.length \in Lengths \union {0}
      BY <1>2 DEF Jobs
    <3>2. job.length = 0 \/ job.length \in Lengths
      BY <3>1
    <3>3. Lengths \subseteq Nat
      BY GeometryAssumption
    <3>4. CASE job.length = 0
      BY <3>4
    <3>5. CASE job.length \in Lengths
      BY <3>3, <3>5
    <3>6. QED
      BY <3>2, <3>4, <3>5
  <2>6. QED
    BY <2>1, <2>2, <2>3, <2>4, <2>5
<1>8. data' = [data EXCEPT ![t[h].chain[k]] = Bytes(t[h].path, k - 1)]
  BY <1>1, <1>4, <1>7
<1>9. Tidy(t, fat, data', failed) /\ TreeKept(t, fat, data, fat, data') /\ data' \in Disks
  BY <1>2, <1>4, <1>7, <1>8, WriteBytes DEF Tidy
<1>10. data'[q[k]] = Bytes(job.path, k - 1) /\ \A b \in 0..LastCluster : b # q[k] => data'[b] = data[b]
  BY <1>2, <1>4, <1>7, <1>8, Geometry DEF Disks
<1>11. \A c \in InDirs(t) : data'[c] = data[c]
  <2>1. q[k] \notin InDirs(t)
    BY <1>2, <1>4, <1>7, FileRow
  <2>2. \A c \in InDirs(t) : c \in 0..LastCluster
    BY <1>2, InDirsFacts
  <2>3. QED
    BY <1>10, <2>1, <2>2
<1>12. EntryAt(fat, data', job.path) = EntryAt(fat, data, job.path)
  <2>1. EntryAt(fat, data, job.path).kind # "end"
    BY <1>3 DEF Written
  <2>2. QED
    BY <1>2, <1>7, <1>9, <1>11, <2>1, EntryKept
<1>13. \A l \in 1..k : data'[q[l]] = Bytes(job.path, l - 1)
  <2>1. SUFFICES ASSUME NEW l \in 1..k PROVE data'[q[l]] = Bytes(job.path, l - 1)
    OBVIOUS
  <2>2. CASE l = k
    BY <1>10, <2>2
  <2>3. CASE l # k
    <3>1. l \in 1..job.done /\ l \in 1..Len(q)
      BY <1>7, <2>3
    <3>2. data[q[l]] = Bytes(job.path, l - 1)
      BY <1>3, <1>4, <3>1 DEF Written
    <3>3. q[l] # q[k] /\ q[l] \in 0..LastCluster
      BY <1>6, <1>7, <2>3, <3>1, Geometry DEF Strung
    <3>4. QED
      BY <1>10, <3>2, <3>3
  <2>4. QED
    BY <2>2, <2>3
<1>14. /\ h \in DOMAIN t /\ t[h].kind = "file" /\ t[h].path = job.path
       /\ EntryAt(fat, data', job.path).kind = "file" /\ EntryAt(fat, data', job.path).first = h
  BY <1>3, <1>7, <1>12 DEF Written
<1>15. PICK j : j = [job EXCEPT !.done = @ + 1]
  OBVIOUS
<1>16. /\ j \in Jobs /\ j.done = k /\ j.path = job.path /\ j.op = "write" /\ j.length = job.length /\ j.at = q[k]
  BY <1>2, <1>5, <1>7, <1>15 DEF Jobs
<1>17. job' = IF k * ClusterSize >= job.length THEN [j EXCEPT !.stage = "size"]
              ELSE IF fat[q[k]] # Eoc THEN [j EXCEPT !.at = fat[q[k]]]
              ELSE [j EXCEPT !.stage = "extend"]
  <2>1. job' = IF j.done * ClusterSize >= j.length THEN [j EXCEPT !.stage = "size"]
              ELSE IF fat[j.at] # Eoc THEN [j EXCEPT !.at = fat[j.at]]
              ELSE [j EXCEPT !.stage = "extend"]
    BY <1>15 DEF WriteData
  <2>2. QED
    BY <1>16, <2>1
<1>18. ASSUME NEW i, i.done = k, i.path = job.path, i.op = "write"
       PROVE  Written(t, fat, data', i, h) /\ Writing(i)
  BY <1>4, <1>7, <1>13, <1>14, <1>18 DEF Written, Writing
<1>19. CASE k * ClusterSize >= job.length
  <2>1. /\ job' \in Jobs /\ job'.stage = "size" /\ job'.done = k /\ job'.path = job.path
        /\ job'.op = "write" /\ job'.length = job.length
    BY <1>16, <1>17, <1>19 DEF Jobs
  <2>2. Holds(t[h], job.length, data', failed)
    <3>1. ASSUME NEW l \in 1..Len(q), (l - 1) * ClusterSize < job.length
          PROVE  data'[q[l]] = Bytes(job.path, l - 1)
      <4>1. l <= k
        <5>1. SUFFICES ASSUME k <= l - 1 PROVE FALSE
          BY <1>6, <1>7
        <5>2. k \in Nat /\ l - 1 \in Nat /\ ClusterSize \in Nat
          BY <1>6, <1>7, Geometry
        <5> DEFINE a == k * ClusterSize
                   b == (l - 1) * ClusterSize
        <5>3. a \in Nat /\ b \in Nat /\ a <= b
          BY <5>1, <5>2, TimesMonotone
        <5>4. b < job.length /\ a >= job.length
          BY <1>19, <3>1
        <5> HIDE DEF a, b
        <5>5. QED
          BY <1>7, <5>3, <5>4
      <4>2. l \in 1..k
        BY <1>6, <1>7, <4>1
      <4>3. QED
        BY <1>13, <4>2
    <3>2. job.length <= Len(q) * ClusterSize
      <4>1. k \in Nat /\ Len(q) \in Nat /\ ClusterSize \in Nat /\ k <= Len(q)
        BY <1>6, <1>7, Geometry
      <4> DEFINE a == k * ClusterSize
                 b == Len(q) * ClusterSize
      <4>2. a \in Nat /\ b \in Nat /\ a <= b
        BY <4>1, TimesMonotone
      <4>3. a >= job.length
        BY <1>19
      <4>4. job.length <= b
        <5> HIDE DEF a, b
        <5>1. QED
          BY <1>7, <4>2, <4>3
      <4>5. QED
        BY <4>4
    <3>3. QED
      BY <1>4, <1>7, <3>1, <3>2 DEF Holds
  <2>3. Sizes(t, fat, data', job', failed)
    BY <1>14, <1>18, <2>1, <2>2 DEF Sizes
  <2>4. JobOK(t, fat, data', job', failed)
    BY <2>1, <2>3 DEF JobOK
  <2>5. QED
    BY <1>1, <1>2, <1>9, <2>1, <2>4 DEF Typed, Now
<1>20. CASE ~(k * ClusterSize >= job.length) /\ fat[q[k]] # Eoc
  <2>1. k # Len(q)
    BY <1>6, <1>20 DEF Strung
  <2>2. k + 1 \in 1..Len(q) /\ k < Len(q) /\ fat[q[k]] = q[k + 1] /\ q[k + 1] \in 0..LastCluster
    <3>1. k + 1 \in 1..Len(q) /\ k < Len(q) /\ k \in 1..Len(q) - 1
      BY <1>6, <1>7, <2>1
    <3>2. fat[q[k]] = q[k + 1] /\ q[k + 1] \in Cluster
      BY <1>6, <3>1 DEF Strung
    <3>3. QED
      BY <3>1, <3>2, Geometry
  <2>3. job' = [j EXCEPT !.at = q[k + 1]]
    BY <1>17, <1>20, <2>2
  <2>4. /\ job' \in Jobs /\ job'.stage = "data" /\ job'.done = k /\ job'.path = job.path
        /\ job'.op = "write" /\ job'.at = q[k + 1]
    <3>1. j.stage = "data"
      BY <1>1, <1>2, <1>15 DEF Jobs
    <3>2. QED
      BY <1>16, <2>2, <2>3, <3>1 DEF Jobs
  <2>5. Writes(t, fat, data', job')
    BY <1>4, <1>14, <1>18, <2>2, <2>4 DEF Writes
  <2>6. JobOK(t, fat, data', job', failed)
    BY <2>4, <2>5 DEF JobOK
  <2>7. QED
    BY <1>1, <1>2, <1>9, <2>4, <2>6 DEF Typed, Now
<1>21. CASE ~(k * ClusterSize >= job.length) /\ fat[q[k]] = Eoc
  <2>1. k = Len(q)
    <3>1. SUFFICES ASSUME k # Len(q) PROVE FALSE
      OBVIOUS
    <3>2. k \in 1..Len(q) - 1 /\ k + 1 \in 1..Len(q)
      BY <1>6, <1>7, <3>1
    <3>3. fat[q[k]] = q[k + 1] /\ q[k + 1] \in Cluster
      BY <1>6, <3>2 DEF Strung
    <3>4. QED
      BY <1>21, <3>3, Geometry
  <2>2. /\ job' \in Jobs /\ job'.stage = "extend" /\ job'.done = k /\ job'.path = job.path
        /\ job'.op = "write" /\ job'.at = q[k] /\ job'.length = job.length
    BY <1>16, <1>17, <1>21 DEF Jobs
  <2>3. job'.done * ClusterSize < job'.length
    <3>1. PICK a : a = k * ClusterSize
      OBVIOUS
    <3>2. a \in Nat
      BY <1>7, <3>1, Geometry
    <3>3. a < job.length
      BY <1>7, <1>21, <3>1, <3>2
    <3>4. QED
      BY <2>2, <3>1, <3>3
  <2>4. Extends(t, fat, data', job')
    BY <1>4, <1>6, <1>14, <1>18, <2>1, <2>2, <2>3 DEF Extends
  <2>5. JobOK(t, fat, data', job', failed)
    BY <2>2, <2>4 DEF JobOK
  <2>6. QED
    BY <1>1, <1>2, <1>9, <2>2, <2>5 DEF Typed, Now
<1>22. QED
  BY <1>19, <1>20, <1>21

(* Storing the size of a file keeps the table.                             *)
LEMMA SetSizeNow ==
  ASSUME Typed, NEW t, Now(t), SetSize
  PROVE  Typed' /\ Now(t)'
<1>1. /\ job.stage = "size" /\ job' = Idle /\ UNCHANGED <<fat, file, failed>>
      /\ WriteEntry(PlaceOf(job.path), [EntryOf(job.path) EXCEPT !.size = job.length])
  BY DEF SetSize
<1>2. /\ job \in Jobs /\ failed \in BOOLEAN /\ Tidy(t, fat, data, failed) /\ Sizes(t, fat, data, job, failed)
      /\ fat \in Fats /\ data \in Disks /\ Table(t, fat) /\ Listed(t, data) /\ Opened(file)
  BY <1>1, NowFacts DEF JobOK
<1>3. PICK h \in DOMAIN t : Written(t, fat, data, job, h) /\ Holds(t[h], job.length, data, failed)
  BY <1>2 DEF Sizes
<1>4. PICK p \in FatPaths : p = job.path
  BY <1>2 DEF Sizes, Writing
<1>5. PICK e \in Slot : e = EntryOf(p) /\ e = EntryAt(fat, data, p)
  BY <1>2, EntryOfIs
<1>6. e.kind = "file" /\ e.kind # "end" /\ e.first = h /\ h # 0
  BY <1>2, <1>3, <1>4, <1>5, RowFacts DEF Written
<1>7. PICK place : place = WhereAt(fat, data, p)
  OBVIOUS
<1>8. PICK g \in Dirs(t) : Rests(t, data, g, Last(p), place, e)
  BY <1>2, <1>5, <1>6, <1>7, Lookup
<1>9. PICK c, i : c = place[1] /\ i = place[2]
  OBVIOUS
<1>10. /\ c \in Of(t, g) /\ i \in 1..Slots /\ e = data[c].slots[i]
  BY <1>8, <1>9 DEF Rests, At
<1>11. PICK x : x = [e EXCEPT !.size = job.length]
  OBVIOUS
<1>12. /\ x \in Slot /\ x.kind = e.kind /\ x.name = e.name /\ x.first = e.first /\ x.size = job.length
  BY <1>2, <1>11 DEF Slot, Jobs
<1>13. data' = WriteSlot(data, c, i, x)
  <2>1. PlaceOf(p) = place
    BY <1>7, OfState
  <2>2. data' = [data EXCEPT ![place[1]].slots[place[2]] = x]
    BY <1>1, <1>4, <1>5, <1>11, <2>1 DEF WriteEntry
  <2>3. QED
    BY <1>9, <2>2 DEF WriteSlot
<1>14. /\ c \in InDirs(t) /\ c \in 0..LastCluster /\ Len(data[c].slots) = Slots
  <2>1. c \in InDirs(t)
    BY <1>2, <1>10, DirRow
  <2>2. QED
    BY <1>2, <2>1, InDirsFacts
<1> HIDE DEF WriteSlot
<1>15. /\ WriteSlot(data, c, i, x) \in Disks
       /\ \A b \in 0..LastCluster : b # c => WriteSlot(data, c, i, x)[b] = data[b]
       /\ Len(WriteSlot(data, c, i, x)[c].slots) = Slots
       /\ WriteSlot(data, c, i, x)[c].slots[i] = x
       /\ \A j \in 1..Slots : j # i => WriteSlot(data, c, i, x)[c].slots[j] = data[c].slots[j]
  BY <1>2, <1>10, <1>12, <1>14, WriteSlotIs
<1>16. /\ data' \in Disks /\ \A b \in 0..LastCluster : b # c => data'[b] = data[b]
       /\ Len(data'[c].slots) = Slots /\ data'[c].slots[i] = x
       /\ \A j \in 1..Slots : j # i => data'[c].slots[j] = data[c].slots[j]
  BY <1>13, <1>15
<1>17. \A b \in Taken(t) : b \notin InDirs(t) => data'[b] = data[b]
  <2>1. \A b \in Taken(t) : b \in 0..LastCluster
    BY <1>2, TakenMarked, Geometry
  <2>2. QED
    BY <1>14, <1>16, <2>1
<1>18. ASSUME NEW b \in InDirs(t)
       PROVE  Len(data'[b].slots) = Slots /\
                \A j \in 1..Slots : Resized(t, data, failed, data[b].slots[j], data'[b].slots[j])
  <2>1. b \in 0..LastCluster /\ Len(data[b].slots) = Slots
    BY <1>2, InDirsFacts
  <2>2. \A y : Resized(t, data, failed, y, y)
    BY DEF Resized
  <2>3. CASE b # c
    BY <1>16, <2>1, <2>2, <2>3
  <2>4. CASE b = c
    <3>1. Resized(t, data, failed, e, x)
      BY <1>3, <1>6, <1>12 DEF Resized
    <3>2. ASSUME NEW j \in 1..Slots PROVE Resized(t, data, failed, data[b].slots[j], data'[b].slots[j])
      <4>1. CASE j = i
        BY <1>10, <1>16, <2>4, <3>1, <4>1
      <4>2. CASE j # i
        BY <1>16, <2>2, <2>4, <4>2
      <4>3. QED
        BY <4>1, <4>2
    <3>3. QED
      BY <1>16, <2>4, <3>2
  <2>5. QED
    BY <2>3, <2>4
<1>19. Tidy(t, fat, data', failed)
  BY <1>2, <1>16, <1>17, <1>18, RewriteTidy
<1>20. QED
  BY <1>1, <1>2, <1>19, IdleNow

(* The dot entries name nothing.                                           *)
LEMMA DotIs ==
  ASSUME NEW c \in 0..LastCluster
  PROVE  /\ Dot(1, c) \in Slot /\ Dot(2, c) \in Slot /\ Dead(Dot(1, c)) /\ Dead(Dot(2, c))
         /\ End \in Slot /\ Dead(End)
<1>1. Dot(1, c) \in Slot /\ Dot(2, c) \in Slot
  BY DEF Dot, Entry, Slot
<1>2. Dead(Dot(1, c)) /\ Dead(Dot(2, c))
  BY NoDots DEF Dead, Dot, Entry, Live
<1>3. End \in Slot /\ Dead(End)
  BY SlotFacts DEF Dead, Live
<1>4. QED
  BY <1>1, <1>2, <1>3

(* Writing the dot entries keeps the table.                                *)
LEMMA DotsNow ==
  ASSUME Typed, NEW t, Now(t), Dots
  PROVE  Typed' /\ Now(t)'
<1> DEFINE parent == ResolvePath(job.path)
           up == IF parent = Root THEN 0 ELSE parent
           row == [i \in 1..Slots |-> CASE i = 1 -> Dot(1, job.first)
                                        [] i = 2 -> Dot(2, up)
                                        [] OTHER -> End]
<1>1. /\ job.stage = "dots" /\ job' = Idle /\ UNCHANGED <<fat, file, failed>>
      /\ data' = [data EXCEPT ![job.first].slots = row]
  BY DEF Dots
<1>2. /\ job \in Jobs /\ failed \in BOOLEAN /\ Tidy(t, fat, data, failed) /\ AddsDots(t, data, job)
      /\ fat \in Fats /\ data \in Disks /\ Table(t, fat) /\ Listed(t, data) /\ Opened(file)
  BY <1>1, NowFacts DEF JobOK
<1>3. PICK c : c = job.first
  OBVIOUS
<1>4. c \in Dirs(t) /\ t[c].chain = <<c>> /\ c \in DOMAIN t /\ c \in 0..LastCluster /\ c \in InDirs(t)
  BY <1>2, <1>3, DirRow, RowFacts DEF AddsDots
<1>5. up \in 0..LastCluster
  BY <1>2, OfState, ResolveTyped, Geometry DEF AddsDots
<1> HIDE DEF parent, up
<1>6. PICK b \in 0..LastCluster : b = up
  BY <1>5
<1>7. \A i \in 1..Slots : row[i] \in {Dot(1, c), Dot(2, b), End}
  BY <1>3, <1>6
<1>8. Len(row) = Slots /\ row \in Seq(Slot) /\ \A i \in 1..Slots : Dead(row[i])
  <2>1. \A i \in 1..Slots : row[i] \in Slot /\ Dead(row[i])
    BY <1>4, <1>6, <1>7, DotIs
  <2>2. row \in [1..Slots -> Slot]
    BY <2>1
  <2> HIDE DEF row
  <2>3. row \in Seq(Slot) /\ Len(row) = Slots
    BY <2>2, Geometry
  <2>4. QED
    BY <2>1, <2>3
<1> HIDE DEF row
<1>9. data' \in Disks /\ data'[c].slots = row /\ \A a \in 0..LastCluster : a # c => data'[a] = data[a]
  <2>1. PICK r : r = row
    OBVIOUS
  <2>2. data[c] \in Content
    BY <1>2, <1>4 DEF Disks
  <2>3. [data[c] EXCEPT !.slots = r] \in Content /\ [data[c] EXCEPT !.slots = r].slots = r
    BY <1>8, <2>1, <2>2 DEF Content
  <2>4. data' = [data EXCEPT ![c] = [data[c] EXCEPT !.slots = r]]
    BY <1>1, <1>3, <2>1
  <2>5. QED
    BY <1>2, <1>4, <2>1, <2>3, <2>4 DEF Disks
<1>10. \A a \in Taken(t) : a \notin InDirs(t) => data'[a] = data[a]
  <2>1. \A a \in Taken(t) : a \in 0..LastCluster
    BY <1>2, TakenMarked, Geometry
  <2>2. QED
    BY <1>4, <1>9, <2>1
<1>11. ASSUME NEW a \in InDirs(t)
       PROVE  Len(data'[a].slots) = Slots /\
                \A j \in 1..Slots : Dead(data'[a].slots[j]) \/ Resized(t, data, failed, data[a].slots[j], data'[a].slots[j])
  <2>1. a \in 0..LastCluster /\ Len(data[a].slots) = Slots
    BY <1>2, InDirsFacts
  <2>2. \A y : Resized(t, data, failed, y, y)
    BY DEF Resized
  <2>3. CASE a # c
    BY <1>9, <2>1, <2>2, <2>3
  <2>4. CASE a = c
    BY <1>8, <1>9, <2>4
  <2>5. QED
    BY <2>3, <2>4
<1>12. Tidy(t, fat, data', failed)
  BY <1>2, <1>9, <1>10, <1>11, RewriteTidy
<1>13. QED
  BY <1>1, <1>2, <1>12, IdleNow

(* An entry that is written adds the row of the new file or directory.     *)
LEMMA EntryWrittenNow ==
  ASSUME Typed, NEW t, Now(t), NEW h \in Dirs(t), NEW c \in Of(t, h), NEW i \in 1..Slots,
         Making(job), t[h].path = Front(job.path), Blank(t, fat, data, job.first),
         EntryWritten(<<c, i>>)
  PROVE  Typed' /\ \E u : Now(u)' /\ u = Added(t, job.first, Row(job.op, job.path, <<job.first>>))
<1>1. /\ job \in Jobs /\ failed \in BOOLEAN /\ Tidy(t, fat, data, failed) /\ Opened(file)
      /\ fat \in Fats /\ data \in Disks /\ Table(t, fat) /\ Listed(t, data)
  BY NowFacts
<1>2. PICK p \in FatPaths, k \in {"file", "dir"}, b \in 0..LastCluster :
        p = job.path /\ k = job.op /\ b = job.first
  BY <1>1 DEF Making, Jobs
<1>3. PICK x : x = Entry(k, Last(p), b)
  OBVIOUS
<1>4. /\ x \in Slot /\ Live(x) /\ x.size = 0 /\ x.name = Last(p) /\ x.name \in Names /\ x.first = b /\ x.kind = k
  BY <1>3, PathFacts DEF Entry, Slot, Live
<1>5. /\ data' = WriteSlot(data, c, i, x) /\ UNCHANGED <<fat, file, failed>>
      /\ job' = IF k = "dir" THEN [job EXCEPT !.stage = "dots"] ELSE Idle
  BY <1>2, <1>3 DEF EntryWritten, WriteEntry, WriteSlot
<1>6. Append(t[h].path, x.name) = p
  BY <1>2, <1>4, PathFacts
<1>7. Blank(t, fat, data, x.first)
  BY <1>2, <1>4
<1> HIDE DEF WriteSlot, Added, Row
<1>8. /\ Tidy(Added(t, x.first, Row(x.kind, Append(t[h].path, x.name), <<x.first>>)), fat, WriteSlot(data, c, i, x), failed)
      /\ x.first \notin DOMAIN t
      /\ \A a \in 0..LastCluster : a # c => WriteSlot(data, c, i, x)[a] = data[a]
  BY <1>1, <1>4, <1>7, AddRow
<1>9. PICK u : u = Added(t, b, Row(k, p, <<b>>))
  OBVIOUS
<1>10. Tidy(u, fat, data', failed) /\ b \notin DOMAIN t
  BY <1>4, <1>5, <1>6, <1>8, <1>9
<1>11. CASE k = "file"
  <2>1. Tidy(u, fat', data', failed') /\ job' = Idle /\ Opened(file')
    BY <1>1, <1>5, <1>10, <1>11
  <2>2. Typed' /\ Now(u)'
    <3>1. job' \in Jobs /\ JobOK(u, fat', data', job', failed')
      <4>1. job' = Idle /\ Idle \in Jobs /\ JobOK(u, fat', data', Idle, failed')
        BY <2>1, IdleIs
      <4> HIDE DEF Idle
      <4>2. QED
        BY <4>1
    <3>2. QED
      BY <1>1, <1>5, <2>1, <3>1 DEF Typed, Now
  <2>3. QED
    BY <1>2, <1>9, <2>2
<1>12. CASE k = "dir"
  <2>1. job' = [job EXCEPT !.stage = "dots"]
    BY <1>5, <1>12
  <2>2. job' \in Jobs /\ job'.stage = "dots" /\ job'.path = p /\ job'.first = b
    BY <1>1, <1>2, <2>1 DEF Jobs
  <2>3. AddedTo(t, b, k, p, u)
    BY <1>9, <1>10, AddedIs
  <2>4. b \in Dirs(u) /\ u[b].chain = <<b>>
    BY <1>12, <2>3 DEF AddedTo
  <2>5. data'[b] = Zeros
    <3>1. b # c
      <4>1. c \in Taken(t)
        BY <1>1, DirRow DEF Taken
      <4>2. b \notin Taken(t)
        BY <1>4, <1>7 DEF Blank, Loose
      <4>3. QED
        BY <4>1, <4>2
    <3>2. data'[b] = data[b]
      BY <1>2, <1>5, <1>8, <3>1
    <3>3. QED
      BY <1>4, <1>7, <3>2 DEF Blank
  <2>6. AddsDots(u, data', job')
    BY <1>2, <2>2, <2>4, <2>5 DEF AddsDots
  <2>7. JobOK(u, fat, data', job', failed)
    BY <2>2, <2>6 DEF JobOK
  <2>8. Typed' /\ Now(u)'
    BY <1>1, <1>5, <1>10, <2>2, <2>7 DEF Typed, Now
  <2>9. QED
    BY <1>2, <1>9, <2>8
<1>13. QED
  BY <1>2, <1>11, <1>12

(* So it is when the entry goes to a free slot of the directory,           *)
LEMMA PlaceEntryNow ==
  ASSUME Typed, NEW t, Now(t), PlaceEntry
  PROVE  Typed' /\ \E u : Now(u)' /\ u = Added(t, job.first, Row(job.op, job.path, <<job.first>>))
<1> DEFINE dir == ResolvePath(job.path)
           n == FindFreeEntryInCluster(dir)
<1>1. job.stage = "place" /\ n # 0 /\ EntryWritten(Place(dir, n))
  BY DEF PlaceEntry
<1>2. /\ Places(t, fat, data, job) /\ Blank(t, fat, data, job.first) /\ Making(job)
      /\ fat \in Fats /\ data \in Disks /\ Table(t, fat) /\ Listed(t, data)
  BY <1>1, NowFacts DEF JobOK, Places
<1>3. PICK h : h = dir
  OBVIOUS
<1>4. h \in Dirs(t) /\ t[h].path = Front(job.path)
  <2>1. h = ResolveAt(fat, data, job.path) /\ h # 0 /\ job.path \in FatPaths
    BY <1>2, <1>3, OfState DEF Places, Making
  <2>2. QED
    BY <1>2, <2>1, ResolveTidy
<1>5. n = FreeAt(DirectoryAt(fat, data, h))
  BY <1>3, FreeAtIs
<1>6. PICK m : m = n
  OBVIOUS
<1> HIDE DEF n, dir
<1>7. m = FreeAt(DirectoryAt(fat, data, h)) /\ m # 0
  BY <1>1, <1>5, <1>6
<1>8. PICK place : place = PlaceAt(fat, h, FreeAt(DirectoryAt(fat, data, h)))
  OBVIOUS
<1>9. place = <<place[1], place[2]>> /\ place[1] \in Of(t, h) /\ place[2] \in 1..Slots
  BY <1>2, <1>4, <1>7, <1>8, FreePlace
<1>10. EntryWritten(<<place[1], place[2]>>)
  <2>1. Place(dir, n) = PlaceAt(fat, h, m)
    BY <1>3, <1>6, OfState
  <2>2. Place(dir, n) = <<place[1], place[2]>>
    BY <1>7, <1>8, <1>9, <2>1
  <2>3. QED
    BY <1>1, <2>2
<1>11. QED
  BY <1>2, <1>4, <1>9, <1>10, EntryWrittenNow

(* and when it goes to the cluster that the directory has grown by.        *)
LEMMA PlaceInGrownNow ==
  ASSUME Typed, NEW t, Now(t), PlaceInGrown
  PROVE  Typed' /\ \E u : Now(u)' /\ u = Added(t, job.first, Row(job.op, job.path, <<job.first>>))
<1>1. job.stage = "entry" /\ EntryWritten(<<job.fresh, 1>>)
  BY DEF PlaceInGrown
<1>2. Enters(t, fat, data, job)
  BY <1>1, NowFacts DEF JobOK
<1>3. PICK h \in Dirs(t) : t[h].path = Front(job.path) /\ job.fresh \in Of(t, h)
  BY <1>2 DEF Enters
<1>4. PICK c \in Of(t, h) : c = job.fresh
  BY <1>3
<1>5. 1 \in 1..Slots /\ EntryWritten(<<c, 1>>)
  BY <1>1, <1>4, Geometry
<1>6. QED
  BY <1>2, <1>3, <1>5, EntryWrittenNow DEF Enters

(* Linking the new cluster extends a row of the table.                     *)
LEMMA LinkNow ==
  ASSUME Typed, NEW t, Now(t), Link
  PROVE  Typed' /\ \E u : Now(u)' /\ \E h \in DOMAIN t : /\ job.at = Last(t[h].chain)
                                                     /\ u = Extended(t, h, job.fresh)
<1>1. /\ job.stage = "link" /\ fat' = [fat EXCEPT ![job.at] = job.fresh]
      /\ job' = IF job.op = "write" THEN [job EXCEPT !.at = job.fresh, !.stage = "data"]
                ELSE [job EXCEPT !.stage = "entry"]
      /\ UNCHANGED <<data, file, failed>>
  BY DEF Link
<1>2. /\ job \in Jobs /\ failed \in BOOLEAN /\ Tidy(t, fat, data, failed) /\ Opened(file)
      /\ fat \in Fats /\ data \in Disks /\ Table(t, fat) /\ Listed(t, data)
      /\ Blank(t, fat, data, job.fresh) /\ (LinksDir(t, fat, data, job) \/ Extends(t, fat, data, job))
  BY <1>1, NowFacts DEF JobOK
<1>3. PICK c \in 0..LastCluster : c = job.fresh
  BY <1>2 DEF Jobs
<1>4. Blank(t, fat, data, c) /\ Loose(t, fat, c) /\ c \in Cluster /\ c \notin Taken(t)
  BY <1>2, <1>3 DEF Blank, Loose
<1>5. \A h \in DOMAIN t : job.at = Last(t[h].chain) => fat' = Linked(fat, t, h, c)
  BY <1>1, <1>3 DEF Linked
<1> HIDE DEF Linked, Extended
<1>6. ASSUME NEW h \in DOMAIN t, job.at = Last(t[h].chain)
      PROVE  /\ fat' \in Fats /\ Tidy(Extended(t, h, c), fat', data, failed)
             /\ ExtendedTo(t, h, c, Extended(t, h, c))
             /\ \A b \in 0..LastCluster : b # Last(t[h].chain) => fat'[b] = fat[b]
             /\ Last(t[h].chain) \in Of(t, h) /\ Last(t[h].chain) \in Taken(t)
  <2>1. /\ Linked(fat, t, h, c) \in Fats
        /\ ExtendedTo(t, h, c, Extended(t, h, c))
        /\ \A b \in 0..LastCluster : b # Last(t[h].chain) => Linked(fat, t, h, c)[b] = fat[b]
        /\ Last(t[h].chain) \in Of(t, h)
    BY <1>2, <1>4, ExtendedTable
  <2>2. Tidy(Extended(t, h, c), Linked(fat, t, h, c), data, failed)
    BY <1>2, <1>4, GrowRow
  <2>3. fat' = Linked(fat, t, h, c)
    BY <1>5, <1>6
  <2>4. QED
    BY <2>1, <2>2, <2>3 DEF Taken
<1>7. CASE LinksDir(t, fat, data, job)
  <2>1. PICK h \in Dirs(t) : t[h].path = Front(job.path) /\ job.at = Last(t[h].chain)
    BY <1>7 DEF LinksDir
  <2>2. h \in DOMAIN t /\ t[h].kind = "dir"
    BY <1>2, <2>1, DirRow
  <2>3. PICK u : u = Extended(t, h, c)
    OBVIOUS
  <2>4. /\ fat' \in Fats /\ Tidy(u, fat', data, failed) /\ ExtendedTo(t, h, c, u)
        /\ \A b \in 0..LastCluster : b # Last(t[h].chain) => fat'[b] = fat[b]
        /\ Last(t[h].chain) \in Taken(t)
    BY <1>6, <2>1, <2>2, <2>3
  <2>5. job' = [job EXCEPT !.stage = "entry"]
    BY <1>1, <1>7 DEF LinksDir, Making
  <2>6. /\ job' \in Jobs /\ job'.stage = "entry" /\ job'.op = job.op /\ job'.path = job.path
        /\ job'.first = job.first /\ job'.fresh = c
    BY <1>2, <1>3, <2>5 DEF Jobs
  <2>7. Blank(u, fat', data, job.first)
    <3>1. Blank(t, fat, data, job.first) /\ job.first # c
      BY <1>3, <1>7 DEF LinksDir
    <3>2. job.first \notin Taken(u)
      BY <2>4, <3>1 DEF ExtendedTo, Blank, Loose
    <3>3. job.first # Last(t[h].chain) /\ job.first \in 0..LastCluster
      BY <2>4, <3>1, Geometry DEF Blank, Loose
    <3>4. QED
      BY <2>4, <3>1, <3>2, <3>3 DEF Blank, Loose
  <2>8. h \in Dirs(u) /\ u[h].path = Front(job'.path) /\ job'.fresh \in Of(u, h)
    BY <2>1, <2>4, <2>6 DEF ExtendedTo
  <2>9. Making(job') /\ data[job'.fresh] = Zeros
    BY <1>4, <1>7, <2>6 DEF LinksDir, Making, Blank
  <2>10. Enters(u, fat', data, job')
    BY <2>6, <2>7, <2>8, <2>9 DEF Enters
  <2>11. JobOK(u, fat', data, job', failed)
    BY <2>6, <2>10 DEF JobOK
  <2>12. Typed' /\ Now(u)'
    BY <1>1, <1>2, <2>4, <2>6, <2>11 DEF Typed, Now
  <2>13. QED
    BY <1>3, <2>1, <2>2, <2>3, <2>12
<1>8. CASE Extends(t, fat, data, job)
  <2>1. PICK h \in DOMAIN t : /\ Written(t, fat, data, job, h) /\ job.done = Len(t[h].chain)
                              /\ job.at = Last(t[h].chain)
    BY <1>8 DEF Extends
  <2>2. PICK u : u = Extended(t, h, c)
    OBVIOUS
  <2>3. /\ fat' \in Fats /\ Tidy(u, fat', data, failed) /\ ExtendedTo(t, h, c, u)
        /\ \A b \in 0..LastCluster : b # Last(t[h].chain) => fat'[b] = fat[b]
        /\ Last(t[h].chain) \in Of(t, h)
    BY <1>6, <2>1, <2>2
  <2>4. Writing(job) /\ job.op = "write" /\ job.path \in FatPaths /\ t[h].kind = "file"
    BY <1>8, <2>1 DEF Extends, Writing, Written
  <2>5. job' = [job EXCEPT !.at = c, !.stage = "data"]
    BY <1>1, <1>3, <2>4
  <2>6. /\ job' \in Jobs /\ job'.stage = "data" /\ job'.op = job.op /\ job'.path = job.path
        /\ job'.at = c /\ job'.done = job.done
    BY <1>2, <2>5 DEF Jobs
  <2>7. TreeKept(t, fat, data, fat', data)
    <3>1. Last(t[h].chain) \notin InDirs(t)
      BY <1>2, <2>3, <2>4, FileRow
    <3>2. \A b \in InDirs(t) : b \in 0..LastCluster /\ Len(data[b].slots) = Slots
      BY <1>2, InDirsFacts
    <3>3. QED
      BY <2>3, <3>1, <3>2 DEF TreeKept, SameName
  <2>8. EntryAt(fat', data, job.path) = EntryAt(fat, data, job.path)
    <3>1. EntryAt(fat, data, job.path).kind # "end"
      BY <2>1 DEF Written
    <3>2. QED
      BY <1>2, <2>3, <2>4, <2>7, <3>1, EntryKept
  <2>9. Len(t[h].chain) \in Nat
    BY <1>2, RowFacts
  <2>10. Written(u, fat', data, job', h)
    <3>1. h \in DOMAIN u /\ u[h].kind = "file" /\ u[h].path = job'.path
      BY <2>1, <2>3, <2>6 DEF Written, ExtendedTo
    <3>2. EntryAt(fat', data, job'.path).kind = "file" /\ EntryAt(fat', data, job'.path).first = h
      BY <2>1, <2>6, <2>8 DEF Written
    <3>3. job'.done \in 0..Len(u[h].chain)
      BY <2>1, <2>3, <2>6, <2>9 DEF ExtendedTo
    <3>4. \A k \in 1..job'.done : data[u[h].chain[k]] = Bytes(job'.path, k - 1)
      BY <2>1, <2>3, <2>6 DEF ExtendedTo, Written
    <3>5. QED
      BY <3>1, <3>2, <3>3, <3>4 DEF Written
  <2>11. job'.done < Len(u[h].chain) /\ job'.at = u[h].chain[job'.done + 1]
    BY <2>1, <2>3, <2>6, <2>9 DEF ExtendedTo
  <2>12. Writes(u, fat', data, job')
    BY <2>4, <2>6, <2>10, <2>11 DEF Writes, Writing, Written
  <2>13. JobOK(u, fat', data, job', failed)
    BY <2>6, <2>12 DEF JobOK
  <2>14. Typed' /\ Now(u)'
    BY <1>1, <1>2, <2>3, <2>6, <2>13 DEF Typed, Now
  <2>15. QED
    BY <1>3, <2>1, <2>2, <2>14
<1>9. QED
  BY <1>2, <1>7, <1>8

(* Storing the first cluster of an empty file adds its row.                *)
LEMMA SetFirstNow ==
  ASSUME Typed, NEW t, Now(t), SetFirst
  PROVE  Typed' /\ \E u : Now(u)' /\ u = Added(t, job.fresh, Row("file", job.path, <<job.fresh>>))
<1>1. /\ job.stage = "first" /\ job' = [job EXCEPT !.at = job.fresh, !.stage = "data"]
      /\ WriteEntry(PlaceOf(job.path), [EntryOf(job.path) EXCEPT !.first = job.fresh])
      /\ UNCHANGED <<fat, file, failed>>
  BY DEF SetFirst
<1>2. /\ job \in Jobs /\ failed \in BOOLEAN /\ Tidy(t, fat, data, failed) /\ Opened(file)
      /\ fat \in Fats /\ data \in Disks /\ Table(t, fat) /\ Listed(t, data)
      /\ Blank(t, fat, data, job.fresh) /\ GetsFirst(t, fat, data, job)
  BY <1>1, NowFacts DEF JobOK
<1>3. PICK p \in FatPaths, b \in 0..LastCluster : p = job.path /\ b = job.fresh
  BY <1>2 DEF GetsFirst, Writing, Jobs
<1>4. PICK e \in Slot : e = EntryOf(p) /\ e = EntryAt(fat, data, p)
  BY <1>2, EntryOfIs
<1>5. e.kind = "file" /\ e.kind # "end" /\ e.first = 0
  BY <1>2, <1>3, <1>4 DEF GetsFirst
<1>6. PICK place : place = WhereAt(fat, data, p)
  OBVIOUS
<1>7. PICK g \in Dirs(t) : t[g].path = Front(p) /\ Rests(t, data, g, Last(p), place, e)
  BY <1>2, <1>4, <1>5, <1>6, Lookup
<1>8. PICK c, i : c = place[1] /\ i = place[2]
  OBVIOUS
<1>9. /\ c \in Of(t, g) /\ i \in 1..Slots /\ e = data[c].slots[i] /\ e.name = Last(p)
      /\ Named(t, t[g].path, e)
  BY <1>7, <1>8 DEF Rests, At
<1>10. e.size = 0
  <2>1. 0 \notin DOMAIN t
    BY <1>2, Geometry DEF Table
  <2>2. QED
    BY <1>5, <1>9, <2>1 DEF Named
<1>11. PICK x : x = [e EXCEPT !.first = b]
  OBVIOUS
<1>12. /\ x \in Slot /\ x.kind = "file" /\ x.name = Last(p) /\ x.first = b /\ x.size = 0 /\ Live(x)
       /\ x.name \in Names
  <2>1. x \in Slot /\ x.kind = e.kind /\ x.name = e.name /\ x.first = b /\ x.size = e.size
    BY <1>3, <1>11 DEF Slot
  <2>2. Last(p) \in Names
    BY PathFacts
  <2>3. QED
    BY <1>5, <1>9, <1>10, <2>1, <2>2 DEF Live
<1>13. data' = WriteSlot(data, c, i, x)
  <2>1. PlaceOf(p) = place
    BY <1>6, OfState
  <2>2. data' = [data EXCEPT ![place[1]].slots[place[2]] = x]
    BY <1>1, <1>3, <1>4, <1>11, <2>1 DEF WriteEntry
  <2>3. QED
    BY <1>8, <2>2 DEF WriteSlot
<1>14. Append(t[g].path, x.name) = p /\ Blank(t, fat, data, x.first)
  <2>1. t[g].path = Front(p) /\ x.name = Last(p) /\ p = Append(Front(p), Last(p))
    BY <1>7, <1>12, PathFacts
  <2>2. Blank(t, fat, data, b)
    BY <1>2, <1>3
  <2>3. Append(t[g].path, x.name) = p
    BY <2>1
  <2>4. PICK a : a = x.first
    OBVIOUS
  <2>5. a = b
    BY <1>12, <2>4
  <2>6. Blank(t, fat, data, a)
    BY <2>2, <2>5
  <2>7. Blank(t, fat, data, x.first)
    BY <2>4, <2>6
  <2>8. QED
    BY <2>3, <2>7
<1> HIDE DEF WriteSlot, Added, Row
<1>15. /\ Tidy(Added(t, x.first, Row(x.kind, Append(t[g].path, x.name), <<x.first>>)), fat, WriteSlot(data, c, i, x), failed)
       /\ x.first \notin DOMAIN t
       /\ \A a \in 0..LastCluster : a # c => WriteSlot(data, c, i, x)[a] = data[a]
  <2>1. x \in Slot /\ Live(x) /\ x.size = 0 /\ x.name \in Names
    BY <1>12
  <2>2. Blank(t, fat, data, x.first)
    BY <1>14
  <2>3. Tidy(t, fat, data, failed) /\ failed \in BOOLEAN /\ c \in Of(t, g) /\ i \in 1..Slots
    BY <1>2, <1>9
  <2>4. QED
    BY <2>1, <2>2, <2>3, AddRow
<1>16. PICK u : u = Added(t, b, Row("file", p, <<b>>))
  OBVIOUS
<1>17. Tidy(u, fat, data', failed) /\ b \notin DOMAIN t /\ data' \in Disks
  BY <1>12, <1>13, <1>14, <1>15, <1>16 DEF Tidy
<1>18. AddedTo(t, b, "file", p, u)
  BY <1>16, <1>17, AddedIs
<1>19. TreeKept(t, fat, data, fat, data')
  <2>1. c \in InDirs(t) /\ c \in 0..LastCluster /\ Len(data[c].slots) = Slots
    <3>1. c \in InDirs(t)
      BY <1>2, <1>9, DirRow
    <3>2. QED
      BY <1>2, <3>1, InDirsFacts
  <2>2. /\ \A a \in 0..LastCluster : a # c => WriteSlot(data, c, i, x)[a] = data[a]
        /\ Len(WriteSlot(data, c, i, x)[c].slots) = Slots
        /\ WriteSlot(data, c, i, x)[c].slots[i] = x
        /\ \A j \in 1..Slots : j # i => WriteSlot(data, c, i, x)[c].slots[j] = data[c].slots[j]
    BY <1>2, <1>9, <1>12, <2>1, WriteSlotIs
  <2>3. /\ \A a \in 0..LastCluster : a # c => data'[a] = data[a]
        /\ Len(data'[c].slots) = Slots /\ data'[c].slots[i] = x
        /\ \A j \in 1..Slots : j # i => data'[c].slots[j] = data[c].slots[j]
    BY <1>13, <2>2
  <2>4. \A a \in InDirs(t) : a \in 0..LastCluster /\ Len(data[a].slots) = Slots
    BY <1>2, InDirsFacts
  <2>5. SameName(e, x)
    BY <1>5, <1>9, <1>12 DEF SameName
  <2>6. \A y : SameName(y, y)
    BY DEF SameName
  <2>7. ASSUME NEW a \in InDirs(t)
        PROVE  Len(data'[a].slots) = Slots /\ \A j \in 1..Slots : SameName(data[a].slots[j], data'[a].slots[j])
    <3>1. CASE a # c
      BY <2>3, <2>4, <2>6, <3>1
    <3>2. CASE a = c
      <4>1. ASSUME NEW j \in 1..Slots PROVE SameName(data[a].slots[j], data'[a].slots[j])
        <5>1. CASE j = i
          BY <1>9, <2>3, <2>5, <3>2, <5>1
        <5>2. CASE j # i
          BY <2>3, <2>6, <3>2, <5>2
        <5>3. QED
          BY <5>1, <5>2
      <4>2. QED
        BY <2>3, <3>2, <4>1
    <3>3. QED
      BY <3>1, <3>2
  <2>8. QED
    BY <2>7 DEF TreeKept
<1>20. EntryAt(fat, data', p) = x
  <2>1. EntryAt(fat, data, p).kind # "end"
    BY <1>4, <1>5
  <2>2. EntryAt(fat, data', p) = At(data', WhereAt(fat, data, p))
    BY <1>2, <1>17, <1>19, <2>1, LookupKept
  <2>3. WhereAt(fat, data, p) = <<c, i>>
    BY <1>6, <1>7, <1>8 DEF Rests
  <2>4. At(data', <<c, i>>) = data'[c].slots[i]
    BY DEF At
  <2>5. data'[c].slots[i] = x
    <3>1. c \in 0..LastCluster /\ Len(data[c].slots) = Slots
      <4>1. c \in InDirs(t)
        BY <1>2, <1>9, DirRow
      <4>2. QED
        BY <1>2, <4>1, InDirsFacts
    <3>2. QED
      BY <1>2, <1>9, <1>12, <1>13, <3>1, WriteSlotIs
  <2>6. QED
    BY <2>2, <2>3, <2>4, <2>5
<1>21. job' = [job EXCEPT !.at = b, !.stage = "data"]
  BY <1>1, <1>3
<1>22. /\ job' \in Jobs /\ job'.stage = "data" /\ job'.op = "write" /\ job'.path = p /\ job'.at = b /\ job'.done = 0
  BY <1>2, <1>3, <1>21 DEF Jobs, GetsFirst, Writing
<1>23. /\ b \in DOMAIN u /\ u[b].kind = "file" /\ u[b].path = p /\ u[b].chain = <<b>>
       /\ Len(u[b].chain) = 1 /\ u[b].chain[1] = b
  BY <1>18 DEF AddedTo
<1>24. Written(u, fat, data', job', b)
  BY <1>12, <1>20, <1>22, <1>23 DEF Written
<1>25. Writes(u, fat, data', job')
  <2>1. job'.done < Len(u[b].chain) /\ job'.done + 1 = 1
    BY <1>22, <1>23
  <2>2. job'.at = u[b].chain[job'.done + 1]
    BY <1>22, <1>23, <2>1
  <2>3. Writing(job')
    BY <1>22 DEF Writing
  <2>4. QED
    BY <1>23, <1>24, <2>1, <2>2, <2>3 DEF Writes
<1>26. JobOK(u, fat, data', job', failed)
  BY <1>22, <1>25 DEF JobOK
<1>27. Typed' /\ Now(u)'
  BY <1>1, <1>2, <1>17, <1>22, <1>26 DEF Typed, Now
<1>28. QED
  BY <1>3, <1>16, <1>27

(* Marking an entry deleted removes its row.                               *)
LEMMA MarkDeletedNow ==
  ASSUME Typed, NEW t, Now(t), NEW p \in FatPaths, Found(p), MarkDeleted(p)
  PROVE  Typed' /\ \E u : Now(u)' /\ u = (IF EntryOf(p).first = 0 THEN t ELSE Removed(t, EntryOf(p).first))
<1>1. /\ WriteEntry(PlaceOf(p), Deleted)
      /\ job' = IF EntryOf(p).first = 0 THEN Idle
                ELSE [Idle EXCEPT !.op = "delete", !.path = p, !.stage = "free", !.at = EntryOf(p).first]
      /\ file' = NoFile /\ UNCHANGED <<fat, failed>>
  BY DEF MarkDeleted, Outdate
<1>2. /\ job \in Jobs /\ failed \in BOOLEAN /\ Tidy(t, fat, data, failed)
      /\ fat \in Fats /\ data \in Disks /\ Table(t, fat) /\ Listed(t, data)
  BY NowFacts
<1>3. PICK e \in Slot : e = EntryOf(p) /\ e = EntryAt(fat, data, p)
  BY <1>2, EntryOfIs
<1>4. e.kind # "end" /\ e.first \in 0..LastCluster
  BY <1>3, SlotFacts DEF Found
<1>5. PICK place : place = WhereAt(fat, data, p)
  OBVIOUS
<1>6. PICK g \in Dirs(t) : t[g].path = Front(p) /\ Rests(t, data, g, Last(p), place, e)
  BY <1>2, <1>3, <1>4, <1>5, Lookup
<1>7. PICK c, i : c = place[1] /\ i = place[2]
  OBVIOUS
<1>8. /\ c \in Of(t, g) /\ i \in 1..Slots /\ e = data[c].slots[i] /\ Live(data[c].slots[i])
  BY <1>6, <1>7 DEF Rests, At
<1>9. data' = WriteSlot(data, c, i, Deleted)
  <2>1. PlaceOf(p) = place
    BY <1>5, OfState
  <2>2. data' = [data EXCEPT ![place[1]].slots[place[2]] = Deleted]
    BY <1>1, <2>1 DEF WriteEntry
  <2>3. QED
    BY <1>7, <2>2 DEF WriteSlot
<1> HIDE DEF WriteSlot, Removed
<1>10. /\ Tidy(t, fat, WriteSlot(data, c, i, Deleted), failed)
       /\ data[c].slots[i].first # 0 =>
            Tidy(Removed(t, data[c].slots[i].first), fat, WriteSlot(data, c, i, Deleted), failed)
  BY <1>2, <1>8, DropRow
<1>11. Opened(file')
  BY <1>1, IdleIs
<1>12. CASE e.first = 0
  <2>1. Tidy(t, fat', data', failed') /\ job' = Idle
    BY <1>1, <1>3, <1>9, <1>10, <1>12
  <2>2. Typed' /\ Now(t)'
    BY <1>1, <1>2, <1>11, <2>1, IdleNow
  <2>3. QED
    BY <1>3, <1>12, <2>2
<1>13. CASE e.first # 0
  <2>1. PICK b : b = e.first
    OBVIOUS
  <2>2. PICK u : u = Removed(t, b)
    OBVIOUS
  <2>3. Tidy(u, fat, data', failed) /\ RemovedFrom(t, b, u)
    BY <1>8, <1>9, <1>10, <1>13, <2>1, <2>2, RemovedIs
  <2>4. b \in DOMAIN t
    BY <1>2, <1>3, <1>4, <1>13, <2>1, FoundRow
  <2>5. job' = [Idle EXCEPT !.op = "delete", !.path = p, !.stage = "free", !.at = b]
    BY <1>1, <1>3, <1>13, <2>1
  <2>6. job' \in Jobs /\ job'.stage = "free" /\ job'.at = b
    <3>1. Idle \in Jobs /\ b \in 0..LastCluster
      BY <1>4, <2>1, IdleIs
    <3> HIDE DEF Idle
    <3>2. QED
      BY <2>5, <3>1 DEF Jobs
  <2>7. Strung(t[b].chain, b, fat) /\ \A k \in 1..Len(t[b].chain) : t[b].chain[k] \in Of(t, b)
    BY <1>2, <2>4, RowFacts
  <2>8. \A k \in 1..Len(t[b].chain) : t[b].chain[k] \notin Taken(u)
    <3>1. SUFFICES ASSUME NEW k \in 1..Len(t[b].chain), t[b].chain[k] \in Taken(u) PROVE FALSE
      OBVIOUS
    <3>2. PICK h \in DOMAIN u : t[b].chain[k] \in Of(u, h)
      BY <3>1 DEF Taken
    <3>3. h \in DOMAIN t /\ h # b /\ t[b].chain[k] \in Of(t, h)
      BY <2>3, <3>2 DEF RemovedFrom
    <3>4. QED
      BY <1>2, <2>4, <2>7, <3>3 DEF Table
  <2>9. Frees(u, fat, job')
    BY <2>6, <2>7, <2>8 DEF Frees
  <2>10. JobOK(u, fat, data', job', failed)
    BY <2>6, <2>9 DEF JobOK
  <2>11. Typed' /\ Now(u)'
    BY <1>1, <1>2, <1>11, <2>3, <2>6, <2>10 DEF Typed, Now
  <2>12. QED
    BY <1>3, <1>13, <2>1, <2>2, <2>11
<1>14. QED
  BY <1>12, <1>13

(* The root alone is the table of such a disk.                             *)
LEMMA FreshTidy ==
  ASSUME NEW f \in Fats, NEW d \in Disks, NEW cut, f[Root] = Eoc, Len(d[Root].slots) = Slots,
         \A i \in 1..Slots : \/ d[Root].slots[i].kind = "end"
                             \/ /\ d[Root].slots[i].kind = "file" /\ d[Root].slots[i].first = 0
                                /\ d[Root].slots[i].size = 0
  PROVE  Tidy(Fresh, f, d, cut)
<1>1. PICK t : t = Fresh
  OBVIOUS
<1>2. DOMAIN t = {Root} /\ t[Root] = [kind |-> "dir", path |-> <<>>, chain |-> <<Root>>]
  BY <1>1 DEF Fresh, Row
<1>3. t[Root].kind = "dir" /\ t[Root].path = <<>> /\ t[Root].chain = <<Root>> /\ t[Root] \in Node
  BY <1>2, Geometry DEF Node
<1>4. Len(t[Root].chain) = 1 /\ t[Root].chain[1] = Root
  BY <1>3
<1>5. Of(t, Root) = {Root}
  BY <1>4 DEF Of
<1>6. Dirs(t) = {Root} /\ InDirs(t) = {Root}
  BY <1>2, <1>3, <1>5 DEF Dirs, InDirs
<1>7. Strung(t[Root].chain, Root, f)
  BY <1>3, <1>4, Geometry DEF Strung
<1>8. Table(t, f)
  BY <1>2, <1>3, <1>5, <1>7, Geometry DEF Table
<1>9. \A i \in 1..Slots : Proper(t, <<>>, d[Root].slots[i])
  BY DEF Proper, Live, Named
<1>10. Listed(t, d)
  BY <1>3, <1>5, <1>6, <1>9 DEF Listed, Live
<1>11. Held(t, d, cut)
  BY <1>6 DEF Held
<1>12. QED
  BY <1>1, <1>8, <1>10, <1>11 DEF Tidy

(* The contents of clusters that no file has written.                      *)
LEMMA JunkIs == Junk \in Content /\ Zeros \in Content
<1>1. Junk \in Content
  BY Geometry DEF Junk, Bytes, Content
<1>2. Zeros \in Content
  BY ZerosIs, Geometry DEF Content, Zeros
<1>3. QED
  BY <1>1, <1>2

(* Format() ends with the table of an empty disk.                          *)
LEMMA FormatNow ==
  ASSUME Typed, NEW t, Now(t), Format
  PROVE  Typed' /\ \E u : Now(u)' /\ u = Fresh
<1>1. /\ job = Idle /\ file' = NoFile /\ job' = job /\ failed' = (FormatEnd < LastCluster)
      /\ fat' = [c \in 0..LastCluster |-> IF c <= Root THEN Eoc
                                          ELSE IF c <= FormatEnd THEN Free ELSE fat[c]]
      /\ data' = [c \in 0..LastCluster |-> IF c = Root THEN Zeros ELSE Junk]
  BY DEF Format, Outdate
<1>2. fat \in Fats
  BY NowFacts
<1>3. fat' \in Fats /\ fat'[Root] = Eoc
  <2>1. ASSUME NEW c \in 0..LastCluster
        PROVE  (IF c <= Root THEN Eoc ELSE IF c <= FormatEnd THEN Free ELSE fat[c]) \in 0..Eoc
    BY <1>2, Geometry DEF Fats
  <2>2. QED
    BY <1>1, <2>1, Geometry DEF Fats
<1>4. data' \in Disks /\ data'[Root] = Zeros
  <2> HIDE DEF Zeros, Junk
  <2>1. QED
    BY <1>1, JunkIs, Geometry DEF Disks
<1>5. Tidy(Fresh, fat', data', failed')
  <2>1. /\ Len(data'[Root].slots) = Slots /\ \A i \in 1..Slots : data'[Root].slots[i].kind = "end"
    BY <1>4, ZerosIs, SlotFacts
  <2>2. QED
    BY <1>3, <1>4, <2>1, FreshTidy
<1>6. job' = Idle /\ Opened(file') /\ failed' \in BOOLEAN
  <2>1. job' = Idle
    BY <1>1
  <2>2. file' = NoFile /\ Opened(NoFile)
    BY <1>1, IdleIs
  <2>3. Opened(file')
    BY <2>2
  <2>4. failed' \in BOOLEAN
    BY <1>1
  <2>5. QED
    BY <2>1, <2>3, <2>4
<1>7. PICK u : u = Fresh
  OBVIOUS
<1>8. Tidy(u, fat', data', failed')
  BY <1>5, <1>7
<1>9. Typed' /\ Now(u)'
  BY <1>6, <1>8, IdleNow
<1>10. QED
  BY <1>7, <1>9

(* At the start the table is the root alone.                               *)
LEMMA InitNow == Init => Typed /\ Now(Fresh) /\ Copied(data)
<1> SUFFICES ASSUME Init PROVE Typed /\ Now(Fresh) /\ Copied(data)
  OBVIOUS
<1>1. PICK n \in 0..Len(HostFiles) :
        data = [c \in 0..LastCluster |->
                 IF c # Root THEN Junk
                 ELSE [Zeros EXCEPT !.slots =
                         [i \in 1..Slots |-> IF i <= n THEN Entry("file", HostFiles[i], 0) ELSE End]]]
  BY DEF Init
<1>2. /\ fat = [c \in 0..LastCluster |-> IF c <= Root THEN Eoc ELSE Free]
      /\ job = Idle /\ file = NoFile /\ failed = FALSE
  BY DEF Init
<1>3. fat \in Fats /\ fat[Root] = Eoc
  BY <1>2, Geometry DEF Fats
<1>4. PICK row : row = [i \in 1..Slots |-> IF i <= n THEN Entry("file", HostFiles[i], 0) ELSE End]
  OBVIOUS
<1>5. ASSUME NEW i \in 1..Slots
      PROVE  /\ row[i] \in Slot
             /\ \/ row[i].kind = "end"
                \/ row[i].kind = "file" /\ row[i].first = 0 /\ row[i].size = 0
  <2>1. CASE i <= n
    <3>1. i \in 1..Len(HostFiles) /\ HostFiles \in Seq(Names)
      BY <2>1, HostAssumption, Geometry
    <3>2. HostFiles[i] \in Names
      BY <3>1
    <3>3. row[i] = [kind |-> "file", name |-> HostFiles[i], first |-> 0, size |-> 0]
      BY <1>4, <2>1 DEF Entry
    <3>4. QED
      BY <3>2, <3>3, Geometry DEF Slot
  <2>2. CASE ~(i <= n)
    BY <1>4, <2>2, SlotFacts
  <2>3. QED
    BY <2>1, <2>2
<1>6. row \in Seq(Slot) /\ Len(row) = Slots
  <2>1. row \in [1..Slots -> Slot]
    BY <1>4, <1>5
  <2>2. QED
    BY <2>1, Geometry
<1>7. data \in Disks /\ data[Root].slots = row
  <2>1. PICK z : z = [Zeros EXCEPT !.slots = row]
    OBVIOUS
  <2>2. Zeros \in Content /\ Junk \in Content
    BY JunkIs
  <2> HIDE DEF Zeros, Junk
  <2>3. z \in Content /\ z.slots = row
    BY <1>6, <2>1, <2>2 DEF Content
  <2>4. data = [c \in 0..LastCluster |-> IF c # Root THEN Junk ELSE z]
    BY <1>1, <1>4, <2>1
  <2>5. QED
    BY <2>2, <2>3, <2>4, Geometry DEF Disks
<1>8. Tidy(Fresh, fat, data, failed)
  BY <1>3, <1>5, <1>6, <1>7, FreshTidy
<1>9. JobOK(Fresh, fat, data, job, failed)
  <2>1. job = Idle /\ JobOK(Fresh, fat, data, Idle, failed)
    BY <1>2, IdleIs
  <2>2. QED
    BY <2>1
<1>10. Typed
  BY <1>2, IdleIs DEF Typed
<1>11. Now(Fresh)
  BY <1>8, <1>9 DEF Now
<1>12. Copied(data)
  BY <1>4, <1>7 DEF Copied
<1>13. QED
  BY <1>10, <1>11, <1>12

(* The invariant holds at the start.                                       *)
LEMMA InitInv == Init => Inv
BY InitNow DEF Inv

(* DeleteFile() and DeleteDirectory() keep the invariant.                  *)
LEMMA DeleteNow ==
  ASSUME Typed, NEW t, Now(t), NEW path \in Paths, DeleteFile(path) \/ DeleteDirectory(path)
  PROVE  Inv'
<1>1. PICK p \in FatPaths : p = FatPath(path)
  BY FatPathIs
<1>2. Found(p) /\ MarkDeleted(p)
  BY <1>1 DEF DeleteFile, DeleteDirectory
<1>3. QED
  BY <1>2, MarkDeletedNow DEF Inv

(* Every step keeps the invariant.                                         *)
LEMMA InvStep ==
  ASSUME Inv, [Next]_vars
  PROVE  Inv'
<1>1. PICK t : Typed /\ Now(t)
  BY DEF Inv
<1>2. CASE UNCHANGED vars
  BY <1>1, <1>2, StillNow, NowFacts DEF Inv, vars
<1>3. ASSUME NEW path \in Paths, CreateFile(path) \/ MakeDirectory(path) PROVE Inv'
  <2>1. PICK op \in {"file", "dir"} : Create(op, path)
    BY <1>3 DEF CreateFile, MakeDirectory
  <2>2. QED
    BY <1>1, <2>1, CreateNow DEF Inv
<1>4. ASSUME NEW path \in Paths, DeleteFile(path) \/ DeleteDirectory(path) PROVE Inv'
  BY <1>1, <1>4, DeleteNow
<1>5. ASSUME NEW path \in Paths, NEW length \in Lengths, WriteFile(path, length) PROVE Inv'
  BY <1>1, <1>5, WriteFileNow DEF Inv
<1>6. ASSUME NEW path \in Paths, WriteDirectory(path) PROVE Inv'
  BY <1>1, <1>6, WriteDirectoryNow DEF Inv
<1>7. ASSUME NEW path \in Paths, Open(path) PROVE Inv'
  BY <1>1, <1>7, OpenNow DEF Inv
<1>8. CASE Zero
  BY <1>1, <1>8, ZeroNow DEF Inv
<1>9. CASE PlaceEntry
  BY <1>1, <1>9, PlaceEntryNow DEF Inv
<1>10. CASE GrowDirectory
  BY <1>1, <1>10, GrowDirectoryNow DEF Inv
<1>11. CASE DirectoryFull
  BY <1>1, <1>11, DirectoryFullNow DEF Inv
<1>12. CASE Link
  BY <1>1, <1>12, LinkNow DEF Inv
<1>13. CASE PlaceInGrown
  BY <1>1, <1>13, PlaceInGrownNow DEF Inv
<1>14. CASE Dots
  BY <1>1, <1>14, DotsNow DEF Inv
<1>15. CASE FreeChain
  BY <1>1, <1>15, FreeChainNow DEF Inv
<1>16. CASE SetFirst
  BY <1>1, <1>16, SetFirstNow DEF Inv
<1>17. CASE WriteData
  BY <1>1, <1>17, WriteDataNow DEF Inv
<1>18. CASE WriteNothing
  BY <1>1, <1>18, WriteNothingNow DEF Inv
<1>19. CASE ExtendFile
  BY <1>1, <1>19, ExtendFileNow DEF Inv
<1>20. CASE DiskFull
  BY <1>1, <1>20, DiskFullNow DEF Inv
<1>21. CASE SetSize
  BY <1>1, <1>21, SetSizeNow DEF Inv
<1>22. ASSUME NEW n \in 1..ClusterSize, Read(n) \/ Seek(n) PROVE Inv'
  BY <1>1, <1>22, ReadNow, SeekNow DEF Inv
<1>23. CASE Format
  BY <1>1, <1>23, FormatNow DEF Inv
<1>24. CASE PowerLoss
  BY <1>1, <1>24, PowerLossNow DEF Inv
<1>25. QED
  BY <1>2, <1>3, <1>4, <1>5, <1>6, <1>7, <1>8, <1>9, <1>10, <1>11, <1>12, <1>13, <1>14, <1>15,
     <1>16, <1>17, <1>18, <1>19, <1>20, <1>21, <1>22, <1>23, <1>24 DEF Next

(* The file system always has a table: at every moment, between any two    *)
(* writes of an operation and after a power loss at any of them, the       *)
(* chains on the disk are disjoint, end, and are named by one entry each.  *)
THEOREM InvCorrect == Spec => []Inv
<1>1. Init => Inv
  BY InitInv
<1>2. Inv /\ [Next]_vars => Inv'
  BY InvStep
<1>3. QED
  BY <1>1, <1>2, PTL DEF Spec

(* The invariant types the variables.                                      *)
LEMMA InvType == Inv => TypeOK
<1> SUFFICES ASSUME Inv PROVE TypeOK
  OBVIOUS
<1>1. PICK t : Typed /\ Now(t)
  BY DEF Inv
<1>2. job \in Jobs /\ Opened(file) /\ failed \in BOOLEAN /\ fat \in Fats /\ data \in Disks
  BY <1>1, NowFacts
<1>3. fat \in [0..LastCluster -> 0..Eoc]
  BY <1>2 DEF Fats
<1>4. ASSUME NEW c \in 0..LastCluster
      PROVE  /\ data[c].slots \in Seq(Slot) /\ data[c].of \in FatPaths \union {<<>>}
             /\ data[c].part \in 0..LastCluster
  <2>1. data[c] \in Content
    BY <1>2 DEF Disks
  <2>2. QED
    BY <2>1 DEF Content
<1>5. /\ job.stage \in {"", "zero", "place", "link", "entry", "dots", "free", "first", "data",
                        "extend", "size"}
      /\ job.at \in 0..LastCluster /\ job.fresh \in 0..LastCluster /\ job.first \in 0..LastCluster
  BY <1>2 DEF Jobs
<1>6. file.position \in 0..file.size
  BY <1>2 DEF Opened
<1>7. QED
  BY <1>2, <1>3, <1>4, <1>5, <1>6 DEF TypeOK

(* The chain of a file that a search finds, and what it holds.            *)
LEMMA FileFound ==
  ASSUME NEW t, Tidy(t, fat, data, failed), NEW p \in FatPaths, NEW e, e = EntryAt(fat, data, p),
         e.kind = "file"
  PROVE  /\ e.size \in Nat
         /\ e.first = 0 => e.size = 0
         /\ e.first # 0 =>
              /\ e.first \in DOMAIN t /\ t[e.first].path = p /\ t[e.first].kind = "file"
              /\ Chain(e.first) = t[e.first].chain /\ Len(t[e.first].chain) \in Nat \ {0}
              /\ Holds(t[e.first], e.size, data, failed)
<1>1. fat \in Fats /\ data \in Disks /\ Table(t, fat) /\ Listed(t, data)
  BY DEF Tidy
<1>2. e \in Slot /\ e.kind # "end" /\ e.size \in Nat
  BY <1>1, EntryOfIs, SlotFacts
<1>3. PICK place : place = WhereAt(fat, data, p)
  OBVIOUS
<1>4. PICK g \in Dirs(t) : t[g].path = Front(p) /\ Rests(t, data, g, Last(p), place, e)
  BY <1>1, <1>2, <1>3, Lookup
<1>5. PICK c, i : c = place[1] /\ i = place[2]
  OBVIOUS
<1>6. /\ c \in Of(t, g) /\ i \in 1..Slots /\ e = data[c].slots[i] /\ Named(t, t[g].path, e)
  BY <1>4, <1>5 DEF Rests, At
<1>7. CASE e.first = 0
  <2>1. 0 \notin DOMAIN t
    BY <1>1, Geometry DEF Table
  <2>2. QED
    BY <1>2, <1>6, <1>7, <2>1 DEF Named
<1>8. CASE e.first # 0
  <2>1. PICK h : h = e.first
    OBVIOUS
  <2>2. h \in DOMAIN t /\ t[h].kind = "file" /\ t[h].path = p
    BY <1>1, <1>2, <1>8, <2>1, FoundRow
  <2>3. Strung(t[h].chain, h, fat) /\ Len(t[h].chain) \in Nat \ {0}
    BY <1>1, <2>2, RowFacts
  <2>4. Chain(h) = t[h].chain
    BY <1>1, <2>3, ChainIs, StrungChain
  <2>5. Holds(t[h], e.size, data, failed)
    <3>1. c \in InDirs(t)
      BY <1>1, <1>6, DirRow
    <3>2. QED
      BY <1>6, <1>8, <2>1, <3>1, FileHolds
  <2>6. QED
    BY <1>2, <1>8, <2>1, <2>2, <2>3, <2>4, <2>5
<1>9. QED
  BY <1>7, <1>8

(* With a table, every file that a search finds is whole.                  *)
LEMMA InvContents == Inv => ContentsKept
<1> SUFFICES ASSUME Inv PROVE ContentsKept
  OBVIOUS
<1>1. PICK t : Typed /\ Now(t)
  BY DEF Inv
<1>2. /\ failed \in BOOLEAN /\ Tidy(t, fat, data, failed) /\ fat \in Fats /\ data \in Disks
      /\ Table(t, fat) /\ Listed(t, data)
  BY <1>1, NowFacts
<1>3. SUFFICES ASSUME NEW p \in FatPaths, Found(p), EntryOf(p).kind = "file"
               PROVE  LET e == EntryOf(p)
                          chain == IF e.first = 0 THEN <<>> ELSE Chain(e.first)
                          parts == {k \in 0..LastCluster : k * ClusterSize < e.size}
                      IN  /\ \A k \in parts : k < Len(chain) =>
                               data[chain[k + 1]] \in {Bytes(p, k)} \union (IF failed THEN {Zeros} ELSE {})
                          /\ ~failed /\ job = Idle => \A k \in parts : k < Len(chain)
  BY DEF ContentsKept
<1>4. PICK e \in Slot : e = EntryOf(p) /\ e = EntryAt(fat, data, p)
  BY <1>2, EntryOfIs
<1>5. e.kind = "file"
  BY <1>3, <1>4
<1>6. e.size \in Nat
  BY <1>2, <1>4, <1>5, FileFound
<1>10. PICK chain : chain = (IF e.first = 0 THEN <<>> ELSE Chain(e.first))
  OBVIOUS
<1>11. CASE e.first = 0
  <2>1. e.size = 0
    BY <1>2, <1>4, <1>5, <1>11, FileFound
  <2>2. ASSUME NEW k \in 0..LastCluster PROVE ~(k * ClusterSize < 0)
    BY Geometry
  <2>3. \A k \in 0..LastCluster : ~(k * ClusterSize < EntryOf(p).size)
    BY <1>4, <2>1, <2>2
  <2>4. QED
    BY <2>3
<1>12. CASE e.first # 0
  <2>1. PICK h : h = e.first
    OBVIOUS
  <2>2. /\ t[h].path = p /\ Chain(h) = t[h].chain /\ Len(t[h].chain) \in Nat \ {0}
        /\ Holds(t[h], e.size, data, failed)
    BY <1>2, <1>4, <1>5, <1>12, <2>1, FileFound
  <2>3. chain = t[h].chain /\ Len(chain) \in Nat \ {0}
    BY <1>10, <1>12, <2>1, <2>2
  <2>6. /\ \A k \in 1..Len(chain) : (k - 1) * ClusterSize < e.size =>
             data[chain[k]] = Bytes(p, k - 1) \/ (failed /\ data[chain[k]] = Zeros)
        /\ ~failed => e.size <= Len(chain) * ClusterSize
    BY <2>2, <2>3 DEF Holds
  <2>7. ASSUME NEW k \in 0..LastCluster, k * ClusterSize < e.size, k < Len(chain)
        PROVE  data[chain[k + 1]] \in {Bytes(p, k)} \union (IF failed THEN {Zeros} ELSE {})
    <3>1. k + 1 \in 1..Len(chain) /\ (k + 1) - 1 = k
      BY <2>3, <2>7, Geometry
    <3>2. data[chain[k + 1]] = Bytes(p, (k + 1) - 1) \/ (failed /\ data[chain[k + 1]] = Zeros)
      BY <2>6, <2>7, <3>1
    <3> HIDE DEF Zeros
    <3>3. QED
      BY <3>1, <3>2
  <2>8. ASSUME NEW k \in 0..LastCluster, k * ClusterSize < e.size, ~failed
        PROVE  k < Len(chain)
    <3>1. SUFFICES ASSUME Len(chain) <= k PROVE FALSE
      BY <2>3, Geometry
    <3>2. k \in Nat /\ Len(chain) \in Nat /\ ClusterSize \in Nat
      BY <2>3, Geometry
    <3>3. PICK a, b : a = Len(chain) * ClusterSize /\ b = k * ClusterSize
      OBVIOUS
    <3>4. a \in Nat /\ b \in Nat /\ a <= b
      BY <3>1, <3>2, <3>3, TimesMonotone
    <3>5. e.size <= a /\ b < e.size
      BY <2>6, <2>8, <3>3
    <3>6. QED
      BY <1>6, <3>4, <3>5
  <2>9. EntryOf(p) = e
    BY <1>4
  <2>10. QED
    BY <1>10, <2>7, <2>8, <2>9
<1>13. QED
  BY <1>11, <1>12

(* Directories is what Reach yields from the root.                         *)
LEMMA DirectoriesIs == Directories = Reach[{Root}]
BY DEF Directories, Reach, StepOf, InsideOf

(* The live entries of a directory of the table are slots of its chain.    *)
LEMMA VisibleIs ==
  ASSUME NEW t, Tidy(t, fat, data, failed), NEW h \in Dirs(t), NEW n \in Visible(h)
  PROVE  \E c \in Of(t, h), i \in 1..Slots :
           /\ Place(h, n) = <<c, i>> /\ Directory(h)[n] = data[c].slots[i] /\ Live(data[c].slots[i])
<1>1. fat \in Fats /\ data \in Disks /\ Table(t, fat) /\ Listed(t, data)
  BY DEF Tidy
<1>2. PICK d : d = DirectoryAt(fat, data, h)
  OBVIOUS
<1>3. d = Directory(h)
  BY <1>2, DirectoryIs
<1>4. n \in DOMAIN d /\ Live(d[n])
  BY <1>3 DEF Visible
<1>5. Strung(t[h].chain, h, fat) /\ h \in DOMAIN t
  BY <1>1, DirRow DEF Table
<1>6. PICK q : q = t[h].chain
  OBVIOUS
<1>7. \A k \in 1..Len(q) : q[k] \in Of(t, h) /\ Len(data[q[k]].slots) = Slots
  BY <1>1, <1>6 DEF Of, Listed
<1>8. /\ d \in Seq(Slot)
      /\ \A m \in 1..Len(d) : \E k \in 1..Len(q), i \in 1..Slots :
           PlaceAt(fat, h, m) = <<q[k], i>> /\ d[m] = data[q[k]].slots[i]
  <2>1. /\ Strung(q, h, fat) /\ \A k \in 1..Len(q) : Len(data[q[k]].slots) = Slots
    BY <1>5, <1>6, <1>7
  <2>2. /\ DirectoryAt(fat, data, h) \in Seq(Slot)
        /\ \A m \in 1..Len(DirectoryAt(fat, data, h)) : \E k \in 1..Len(q), i \in 1..Slots :
              /\ m = Slots * (k - 1) + i
              /\ PlaceAt(fat, h, m) = <<q[k], i>>
              /\ DirectoryAt(fat, data, h)[m] = data[q[k]].slots[i]
    BY <1>1, <2>1, DirTidy
  <2>3. QED
    BY <1>2, <2>2
<1>9. n \in 1..Len(d)
  BY <1>4, <1>8
<1>10. PICK k \in 1..Len(q), i \in 1..Slots : PlaceAt(fat, h, n) = <<q[k], i>> /\ d[n] = data[q[k]].slots[i]
  BY <1>8, <1>9
<1>11. Place(h, n) = <<q[k], i>> /\ Directory(h)[n] = data[q[k]].slots[i] /\ Live(data[q[k]].slots[i])
  BY <1>3, <1>4, <1>10, OfState
<1>12. QED
  BY <1>7, <1>11

(* A step from directories of the table stays in them.                     *)
LEMMA InsideTidy ==
  ASSUME NEW t, Tidy(t, fat, data, failed), NEW above, above \subseteq Dirs(t)
  PROVE  StepOf(above) \subseteq Dirs(t)
<1>1. ASSUME NEW h \in Dirs(t), NEW n \in Visible(h), Directory(h)[n].kind = "dir"
      PROVE  Directory(h)[n].first \in Dirs(t)
  <2>1. PICK c \in Of(t, h), i \in 1..Slots : Directory(h)[n] = data[c].slots[i] /\ Live(data[c].slots[i])
    BY VisibleIs
  <2>2. Named(t, t[h].path, data[c].slots[i])
    BY <2>1, LiveRow
  <2>3. QED
    BY <1>1, <2>1, <2>2 DEF Named, Dirs
<1>2. QED
  BY <1>1 DEF StepOf, InsideOf

(* A step stays in cluster numbers.                                        *)
LEMMA InsideTyped ==
  ASSUME fat \in Fats, data \in Disks, NEW above \in SUBSET (0..LastCluster)
  PROVE  StepOf(above) \in SUBSET (0..LastCluster)
<1>1. ASSUME NEW c \in 0..LastCluster, NEW n \in Visible(c)
      PROVE  Directory(c)[n].first \in 0..LastCluster
  <2>1. Directory(c) \in Seq(Slot)
    BY DirectoryIs, DirectoryTyped
  <2>2. n \in DOMAIN Directory(c)
    BY DEF Visible
  <2>3. Directory(c)[n] \in Slot
    <3>1. PICK d : d = Directory(c)
      OBVIOUS
    <3>2. QED
      BY <2>1, <2>2, <3>1
  <2>4. QED
    BY <2>3, SlotFacts
<1>2. ASSUME NEW c \in 0..LastCluster PROVE InsideOf(c) \subseteq 0..LastCluster
  BY <1>1 DEF InsideOf
<1>3. ASSUME NEW x \in StepOf(above) PROVE x \in 0..LastCluster
  <2>1. CASE x \in above
    BY <2>1
  <2>2. CASE x \in UNION {InsideOf(c) : c \in above}
    <3>1. PICK c \in above : x \in InsideOf(c)
      BY <2>2
    <3>2. QED
      BY <1>2, <3>1
  <2>3. QED
    BY <1>3, <2>1, <2>2 DEF StepOf
<1>4. QED
  BY <1>3

(* It comes to an end.                                                     *)
LEMMA ReachDescends ==
  ASSUME NEW S, S \subseteq Sets, \A s \in S : StepOf(s) \in S
  PROVE  Descends(S, Unfound(S), Complete(S), Onward(S))
<1>1. \A s \in S : StepOf(s) \in S /\ s \subseteq StepOf(s)
  BY DEF StepOf
<1>2. IsFiniteSet(0..LastCluster)
  BY FS_Interval, Geometry
<1>3. \A s \in S : IsFiniteSet((0..LastCluster) \ s) /\ Cardinality((0..LastCluster) \ s) \in Nat
  <2>1. SUFFICES ASSUME NEW s \in S
                 PROVE  IsFiniteSet((0..LastCluster) \ s) /\ Cardinality((0..LastCluster) \ s) \in Nat
    OBVIOUS
  <2>2. (0..LastCluster) \ s \in SUBSET (0..LastCluster)
    OBVIOUS
  <2>3. IsFiniteSet((0..LastCluster) \ s)
    BY <1>2, <2>2, FS_Subset
  <2>4. QED
    BY <2>3, FS_CardinalityType
<1>4. Unfound(S) \in [S -> Nat]
  BY <1>3 DEF Unfound
<1>5. ASSUME NEW s \in S, s \notin Complete(S)
      PROVE  Onward(S)[s] \in S /\ Unfound(S)[Onward(S)[s]] < Unfound(S)[s]
  <2>1. StepOf(s) \in S /\ s \subseteq StepOf(s) /\ StepOf(s) # s
    BY <1>1, <1>5 DEF Complete
  <2>2. PICK u \in S : u = StepOf(s)
    BY <2>1
  <2>3. PICK A, B : A = (0..LastCluster) \ s /\ B = (0..LastCluster) \ u
    OBVIOUS
  <2>4. IsFiniteSet(A) /\ Cardinality(A) \in Nat /\ Cardinality(B) \in Nat
    BY <1>3, <2>3
  <2>5. B \in SUBSET A /\ B # A
    <3>1. u \subseteq 0..LastCluster /\ s \subseteq 0..LastCluster
      BY <2>2 DEF Sets
    <3>2. QED
      BY <2>1, <2>2, <2>3, <3>1
  <2>6. Cardinality(B) <= Cardinality(A) /\ Cardinality(B) # Cardinality(A)
    BY <2>4, <2>5, FS_Subset
  <2>7. Cardinality(B) < Cardinality(A)
    BY <2>4, <2>6
  <2>8. Unfound(S)[u] = Cardinality(B) /\ Unfound(S)[s] = Cardinality(A) /\ Onward(S)[s] = u
    BY <2>2, <2>3 DEF Unfound, Onward
  <2>9. QED
    BY <2>2, <2>7, <2>8
<1>6. QED
  BY <1>4, <1>5 DEF Descends

(* The recursion ends, for every disk.                                     *)
LEMMA ReachIs ==
  ASSUME fat \in Fats, data \in Disks
  PROVE  \A s \in Sets : Reach[s] = IF StepOf(s) = s THEN s ELSE Reach[StepOf(s)]
<1> DEFINE size == Unfound(Sets)
           stop == Complete(Sets)
           next == Onward(Sets)
           base == [s \in Sets |-> s]
           join == [x \in Sets \X Sets |-> x[2]]
<1>1. \A s \in Sets : StepOf(s) \in Sets
  BY InsideTyped DEF Sets
<1>2. Descends(Sets, size, stop, next)
  BY <1>1, ReachDescends
<1>3. \A s \in Sets : s \in stop => base[s] \in Sets
  OBVIOUS
<1>4. \A s, r \in Sets : join[<<s, r>>] = r
  OBVIOUS
<1>5. PICK g \in [Sets -> Sets] : Solves(g, Sets, stop, next, base, join)
  <2>1. Yields(Sets, Sets, stop, base, join)
    <3> HIDE DEF size, stop, next, base, join
    <3> QED BY <1>3, <1>4 DEF Yields
  <2> HIDE DEF size, stop, next, base, join
  <2> QED BY <1>2, <2>1, RecursionExists
<1>6. ASSUME NEW s \in Sets
      PROVE  g[s] = IF StepOf(s) = s THEN s ELSE g[StepOf(s)]
  <2>1. (s \in stop <=> StepOf(s) = s) /\ next[s] = StepOf(s) /\ base[s] = s /\ StepOf(s) \in Sets
    BY <1>1 DEF Complete, Onward
  <2> HIDE DEF size, stop, next, base, join
  <2>2. g[StepOf(s)] \in Sets
    BY <1>5, <2>1
  <2>3. g[s] = IF s \in stop THEN base[s] ELSE join[<<s, g[next[s]]>>]
    BY <1>5 DEF Solves
  <2>4. QED
    BY <1>4, <2>1, <2>2, <2>3
<1>7. g = [s \in Sets |-> IF StepOf(s) = s THEN s ELSE g[StepOf(s)]]
  <2>1. g = [s \in Sets |-> g[s]]
    BY <1>5
  <2>2. QED
    BY <1>6, <2>1
<1>8. Reach = [s \in Sets |-> IF StepOf(s) = s THEN s ELSE Reach[StepOf(s)]]
  BY <1>7 DEF Reach, Sets
<1>9. QED
  BY <1>8

(* It ends in a set that takes no further step.                            *)
LEMMA ReachEnds ==
  ASSUME fat \in Fats, data \in Disks, NEW S, S \subseteq Sets, \A s \in S : StepOf(s) \in S
  PROVE  \A s \in S : Reach[s] \in Complete(S)
<1>1. Descends(S, Unfound(S), Complete(S), Onward(S))
  BY ReachDescends
<1>2. PICK g : g = Reach
  OBVIOUS
<1>3. ASSUME NEW s \in S
      PROVE  IF s \in Complete(S) THEN g[s] \in Complete(S)
             ELSE g[Onward(S)[s]] \in Complete(S) => g[s] \in Complete(S)
  <2>1. g[s] = IF StepOf(s) = s THEN s ELSE g[StepOf(s)]
    BY <1>2, ReachIs
  <2>2. Onward(S)[s] = StepOf(s) /\ (s \in Complete(S) <=> StepOf(s) = s)
    BY DEF Onward, Complete
  <2>3. QED
    BY <2>1, <2>2
<1>4. Preserves(g, S, Complete(S), Complete(S), Onward(S))
  BY <1>3 DEF Preserves
<1>5. \A s \in S : g[s] \in Complete(S)
  BY <1>1, <1>4, RecursionRange
<1>6. QED
  BY <1>2, <1>5

(* From directories of the table it reaches directories of the table.      *)
LEMMA ReachTidy ==
  ASSUME NEW t, Tidy(t, fat, data, failed), NEW above \in SUBSET Dirs(t)
  PROVE  Reach[above] \in SUBSET Dirs(t)
<1>1. fat \in Fats /\ data \in Disks /\ Table(t, fat)
  BY DEF Tidy
<1>2. SUBSET Dirs(t) \subseteq Sets
  BY <1>1, Geometry DEF Table, Dirs, Sets
<1>3. \A s \in SUBSET Dirs(t) : StepOf(s) \in SUBSET Dirs(t)
  BY InsideTidy
<1>4. Reach[above] \in Complete(SUBSET Dirs(t))
  BY <1>1, <1>2, <1>3, ReachEnds
<1>5. QED
  BY <1>4 DEF Complete

(* Every directory that is reached is one of the table.                    *)
LEMMA DirectoriesTidy ==
  ASSUME NEW t, Tidy(t, fat, data, failed)
  PROVE  Directories \subseteq Dirs(t)
<1>1. {Root} \in SUBSET Dirs(t)
  BY DEF Tidy, Table, Dirs
<1>2. QED
  BY <1>1, ReachTidy, DirectoriesIs

(* A place that names a first cluster is a live slot of the table.         *)
LEMMA HeadIs ==
  ASSUME NEW t, Tidy(t, fat, data, failed), NEW o \in Heads
  PROVE  \E c \in InDirs(t), i \in 1..Slots :
           /\ Live(data[c].slots[i]) /\ o = <<<<c, i>>, data[c].slots[i].first>>
           /\ o[2] = data[c].slots[i].first
           /\ o[2] # 0 => o[2] \in DOMAIN t /\ o[2] # Root
<1>0. PICK h \in Directories : \E n \in Visible(h) : o = <<Place(h, n), Directory(h)[n].first>>
  BY DEF Heads
<1>1. PICK n \in Visible(h) : o = <<Place(h, n), Directory(h)[n].first>>
  BY <1>0
<1>2. h \in Dirs(t) /\ Table(t, fat) /\ fat \in Fats
  BY DirectoriesTidy DEF Tidy
<1>3. PICK c \in Of(t, h), i \in 1..Slots :
           /\ Place(h, n) = <<c, i>> /\ Directory(h)[n] = data[c].slots[i] /\ Live(data[c].slots[i])
  BY <1>2, VisibleIs
<1>4. c \in InDirs(t)
  BY <1>2, DirRow
<1>5. PICK x : x = data[c].slots[i]
  OBVIOUS
<1>6. o = <<<<c, i>>, x.first>> /\ o[2] = x.first
  BY <1>1, <1>3, <1>5
<1>7. ASSUME x.first # 0 PROVE x.first \in DOMAIN t /\ x.first # Root
  <2>1. /\ x.first \in DOMAIN t /\ t[x.first].path = Append(t[h].path, x.name)
    BY <1>2, <1>3, <1>5, <1>7, LiveRow
  <2>2. t[h].path \in Seq(Names)
    BY <1>2, DirRow, RowFacts
  <2>3. Append(t[h].path, x.name) # <<>>
    BY <2>2
  <2>4. t[Root].path = <<>>
    BY <1>2 DEF Table
  <2>5. QED
    BY <2>1, <2>3, <2>4
<1>8. QED
  BY <1>3, <1>4, <1>5, <1>6, <1>7

(* The clusters in use are those of the table.                             *)
LEMMA UsedTaken ==
  ASSUME NEW t, Tidy(t, fat, data, failed)
  PROVE  Used \subseteq Taken(t)
<1>1. fat \in Fats /\ Table(t, fat)
  BY DEF Tidy
<1>2. ASSUME NEW h \in DOMAIN t PROVE Range(Chain(h)) \subseteq Taken(t)
  <2>1. Chain(h) = t[h].chain
    BY <1>1, ChainIs, StrungChain DEF Table
  <2>2. t[h].chain \in Seq(Cluster)
    BY <1>1, RowFacts
  <2>3. \A k \in 1..Len(t[h].chain) : t[h].chain[k] \in Taken(t)
    BY <1>1, RowFacts DEF Taken
  <2>4. \A x \in Range(t[h].chain) : \E k \in 1..Len(t[h].chain) : x = t[h].chain[k]
    BY <2>2 DEF Range
  <2>5. QED
    BY <2>1, <2>3, <2>4
<1>3. Root \in DOMAIN t
  BY <1>1 DEF Table
<1>4. ASSUME NEW h \in Heads, h[2] # 0 PROVE h[2] \in DOMAIN t
  BY <1>4, HeadIs
<1>5. ASSUME NEW x \in Used PROVE x \in Taken(t)
  <2>1. CASE x \in Range(Chain(Root))
    BY <1>2, <1>3, <2>1
  <2>2. CASE x \in UNION {Range(Chain(h[2])) : h \in {h \in Heads : h[2] # 0}}
    <3>1. PICK h \in Heads : h[2] # 0 /\ x \in Range(Chain(h[2]))
      BY <2>2
    <3>2. h[2] \in DOMAIN t
      BY <1>4, <3>1
    <3>3. QED
      BY <1>2, <3>1, <3>2
  <2>3. QED
    BY <1>5, <2>1, <2>2 DEF Used
<1>6. QED
  BY <1>5

(* The owner of a cluster within a chain is the one before it.             *)
LEMMA BeforeIs ==
  ASSUME NEW f \in Fats, NEW t, Table(t, f), NEW c \in Taken(t), f[c] \in Cluster
  PROVE  \E h \in DOMAIN t : \E k \in 1..Len(t[h].chain) - 1 :
           /\ k + 1 \in 1..Len(t[h].chain) /\ k \in 1..Len(t[h].chain)
           /\ c = t[h].chain[k] /\ f[c] = t[h].chain[k + 1] /\ f[c] \in Of(t, h)
<1>1. PICK h \in DOMAIN t : c \in Of(t, h)
  BY DEF Taken
<1>2. PICK k \in 1..Len(t[h].chain) : c = t[h].chain[k]
  BY <1>1 DEF Of
<1>3. Strung(t[h].chain, h, f) /\ Len(t[h].chain) \in Nat \ {0}
  BY RowFacts
<1>4. k # Len(t[h].chain)
  BY <1>2, <1>3, Geometry DEF Strung
<1>5. k \in 1..Len(t[h].chain) - 1 /\ k + 1 \in 1..Len(t[h].chain)
  BY <1>3, <1>4
<1>6. f[c] = t[h].chain[k + 1]
  BY <1>2, <1>3, <1>5 DEF Strung
<1>7. f[c] \in Of(t, h)
  BY <1>5, <1>6 DEF Of
<1>8. QED
  BY <1>2, <1>5, <1>6, <1>7

(* With a table, no cluster has two owners.                                *)
LEMMA InvOwner == Inv => OneOwner
<1> SUFFICES ASSUME Inv PROVE OneOwner
  OBVIOUS
<1>1. PICK t : Typed /\ Now(t)
  BY DEF Inv
<1>2. Tidy(t, fat, data, failed) /\ fat \in Fats /\ data \in Disks /\ Table(t, fat) /\ Listed(t, data)
  BY <1>1, NowFacts
<1>3. \A c \in Used : c \in Taken(t) /\ c \in Cluster /\ fat[c] # Free
  BY <1>2, UsedTaken, TakenMarked
<1> DEFINE A == {<<<<c, 0>>, fat[c]>> : c \in Used}
           C == {<<<<0, 0>>, Root>>}
           owners == A \union Heads \union C
<1>4. ASSUME NEW x \in Cluster, NEW o \in A, o[2] = x
      PROVE  \E h \in DOMAIN t : \E k \in 1..Len(t[h].chain) - 1 :
               /\ k + 1 \in 1..Len(t[h].chain) /\ k \in 1..Len(t[h].chain)
               /\ o = <<<<t[h].chain[k], 0>>, x>> /\ x = t[h].chain[k + 1] /\ x \in Of(t, h)
  <2>1. PICK c \in Used : o = <<<<c, 0>>, fat[c]>>
    OBVIOUS
  <2>2. fat[c] = x /\ c \in Taken(t)
    BY <1>3, <1>4, <2>1
  <2>3. PICK h \in DOMAIN t : \E k \in 1..Len(t[h].chain) - 1 :
           /\ k + 1 \in 1..Len(t[h].chain) /\ k \in 1..Len(t[h].chain)
           /\ c = t[h].chain[k] /\ fat[c] = t[h].chain[k + 1] /\ fat[c] \in Of(t, h)
    BY <1>2, <2>2, BeforeIs
  <2>4. QED
    BY <2>1, <2>2, <2>3
<1>5. ASSUME NEW x \in Cluster, NEW o \in Heads, o[2] = x
      PROVE  /\ x \in DOMAIN t /\ x # Root
             /\ \E c \in InDirs(t), i \in 1..Slots :
                  Live(data[c].slots[i]) /\ o = <<<<c, i>>, x>> /\ data[c].slots[i].first = x
  <2>1. x # 0
    BY Geometry
  <2>2. QED
    BY <1>2, <1>5, <2>1, HeadIs
<1>6. ASSUME NEW x \in Cluster, NEW o \in C, o[2] = x PROVE x = Root /\ o = <<<<0, 0>>, Root>> /\ x \in DOMAIN t
  <2>1. o = <<<<0, 0>>, Root>>
    OBVIOUS
  <2>2. QED
    BY <1>2, <1>6, <2>1 DEF Table
<1>7. ASSUME NEW x \in DOMAIN t, NEW h \in DOMAIN t, NEW k \in 1..Len(t[h].chain) - 1,
             k + 1 \in 1..Len(t[h].chain), x = t[h].chain[k + 1], x \in Of(t, h)
      PROVE  FALSE
  <2>1. x \in Of(t, x) /\ Strung(t[x].chain, x, fat) /\ Len(t[x].chain) \in Nat \ {0}
    BY <1>2, RowFacts
  <2>2. h = x
    BY <1>2, <1>7, <2>1 DEF Table
  <2>3. PICK q : q = t[x].chain
    OBVIOUS
  <2>4. q[1] = x /\ \A i, j \in 1..Len(q) : q[i] = q[j] => i = j
    BY <2>1, <2>3 DEF Strung
  <2>5. q[k + 1] = x /\ k + 1 \in 1..Len(q) /\ 1 \in 1..Len(q) /\ k \in Nat \ {0}
    BY <1>7, <2>1, <2>2, <2>3
  <2>6. k + 1 = 1
    BY <2>4, <2>5
  <2>7. QED
    BY <2>5, <2>6
<1>8. ASSUME NEW x \in Cluster, NEW o \in A, NEW n \in A, o[2] = x, n[2] = x PROVE o = n
  <2>1. PICK h \in DOMAIN t : \E k \in 1..Len(t[h].chain) - 1 :
               /\ k + 1 \in 1..Len(t[h].chain) /\ k \in 1..Len(t[h].chain)
               /\ o = <<<<t[h].chain[k], 0>>, x>> /\ x = t[h].chain[k + 1] /\ x \in Of(t, h)
    BY <1>4, <1>8
  <2>2. PICK k \in 1..Len(t[h].chain) - 1 :
               /\ k + 1 \in 1..Len(t[h].chain) /\ k \in 1..Len(t[h].chain)
               /\ o = <<<<t[h].chain[k], 0>>, x>> /\ x = t[h].chain[k + 1] /\ x \in Of(t, h)
    BY <2>1
  <2>3. PICK g \in DOMAIN t : \E l \in 1..Len(t[g].chain) - 1 :
               /\ l + 1 \in 1..Len(t[g].chain) /\ l \in 1..Len(t[g].chain)
               /\ n = <<<<t[g].chain[l], 0>>, x>> /\ x = t[g].chain[l + 1] /\ x \in Of(t, g)
    BY <1>4, <1>8
  <2>4. PICK l \in 1..Len(t[g].chain) - 1 :
               /\ l + 1 \in 1..Len(t[g].chain) /\ l \in 1..Len(t[g].chain)
               /\ n = <<<<t[g].chain[l], 0>>, x>> /\ x = t[g].chain[l + 1] /\ x \in Of(t, g)
    BY <2>3
  <2>5. g = h
    BY <1>2, <2>2, <2>4 DEF Table
  <2>6. Strung(t[h].chain, h, fat) /\ Len(t[h].chain) \in Nat \ {0}
    BY <1>2, RowFacts
  <2>7. k + 1 = l + 1
    <3>1. t[h].chain[k + 1] = t[h].chain[l + 1] /\ k + 1 \in 1..Len(t[h].chain) /\ l + 1 \in 1..Len(t[h].chain)
      BY <2>2, <2>4, <2>5
    <3>2. \A i, j \in 1..Len(t[h].chain) : t[h].chain[i] = t[h].chain[j] => i = j
      BY <2>6 DEF Strung
    <3>3. QED
      BY <3>1, <3>2
  <2>8. k = l
    BY <2>5, <2>6, <2>7
  <2>9. QED
    BY <2>2, <2>4, <2>5, <2>8
<1>9. ASSUME NEW x \in Cluster, NEW o \in A, NEW n \in Heads \union C, o[2] = x, n[2] = x PROVE FALSE
  <2>1. x \in DOMAIN t
    BY <1>5, <1>6, <1>9
  <2>2. QED
    BY <1>4, <1>7, <1>9, <2>1
<1>10. ASSUME NEW x \in Cluster, NEW o \in Heads, NEW n \in Heads, o[2] = x, n[2] = x PROVE o = n
  <2>1. PICK c \in InDirs(t), i \in 1..Slots :
                  Live(data[c].slots[i]) /\ o = <<<<c, i>>, x>> /\ data[c].slots[i].first = x
    BY <1>5, <1>10
  <2>2. PICK b \in InDirs(t), j \in 1..Slots :
                  Live(data[b].slots[j]) /\ n = <<<<b, j>>, x>> /\ data[b].slots[j].first = x
    BY <1>5, <1>10
  <2>3. c = b /\ i = j
    BY <1>2, <2>1, <2>2, Geometry DEF Listed
  <2>4. QED
    BY <2>1, <2>2, <2>3
<1>11. ASSUME NEW x \in Cluster, NEW o \in Heads, NEW n \in C, o[2] = x, n[2] = x PROVE FALSE
  BY <1>5, <1>6, <1>11
<1>12. ASSUME NEW x \in Cluster, NEW o \in C, NEW n \in C PROVE o = n
  OBVIOUS
<1> HIDE DEF A, C
<1>13. ASSUME NEW x \in Cluster, NEW o \in owners, NEW n \in owners, o[2] = x, n[2] = x PROVE o = n
  BY <1>8, <1>9, <1>10, <1>11, <1>12, <1>13
<1>14. ASSUME NEW x \in Cluster PROVE Cardinality({o \in owners : o[2] = x}) <= 1
  <2>1. PICK Mine : Mine = {o \in owners : o[2] = x}
    OBVIOUS
  <2>2. CASE Mine = {}
    BY <2>1, <2>2, FS_EmptySet
  <2>3. CASE Mine # {}
    <3>1. PICK o \in Mine : TRUE
      BY <2>3
    <3>2. Mine = {o}
      BY <1>13, <2>1, <3>1
    <3>3. Cardinality(Mine) = 1
      BY <3>2, FS_Singleton
    <3>4. QED
      BY <2>1, <3>3
  <2>4. QED
    BY <2>2, <2>3
<1>15. OneOwner
  <2> USE DEF A, C
  <2>1. QED
    BY <1>3, <1>14 DEF OneOwner
<1>16. QED
  BY <1>15

(* The variables always have their types.                                  *)
THEOREM TypeCorrect == Spec => []TypeOK
BY InvCorrect, InvType, PTL

(* For every geometry, every set of paths and every sequence of operations *)
(* and power losses, no cluster that a reachable entry or a chain names is *)
(* named twice: a file is never part of another, nor of a directory.       *)
THEOREM OwnerCorrect == Spec => []OneOwner
BY InvCorrect, InvOwner, PTL

(* A file that a search finds holds what was last written to it, up to its *)
(* size: no operation on another path and no power loss puts another's     *)
(* bytes there.                                                            *)
THEOREM ContentsCorrect == Spec => []ContentsKept
BY InvCorrect, InvContents, PTL

(* Multiplication distributes over addition.                               *)
LEMMA Distributes ==
  ASSUME NEW a \in Nat, NEW b \in Nat, NEW c \in Nat
  PROVE  c * (a + b) = c * a + c * b /\ a * c = c * a
OBVIOUS

(* Quotient and remainder.                                                 *)
LEMMA DivModNat ==
  ASSUME NEW a \in Nat \ {0}, NEW n \in Nat
  PROVE  n \div a \in Nat /\ n % a \in 0..a - 1 /\ n = a * (n \div a) + (n % a)
<1>1. PICK m \in Nat \ {0} : m = n + 1 /\ m - 1 = n
  OBVIOUS
<1>2. /\ ((m - 1) \div a) + 1 \in Nat \ {0} /\ ((m - 1) % a) + 1 \in 1..a
      /\ m = a * ((m - 1) \div a) + (((m - 1) % a) + 1)
  BY DivMod
<1>3. PICK q, r : q = n \div a /\ r = n % a
  OBVIOUS
<1>4. q + 1 \in Nat \ {0} /\ r + 1 \in 1..a /\ m = a * q + (r + 1)
  BY <1>1, <1>2, <1>3
<1>5. q \in Int /\ r \in Int
  BY <1>3
<1>6. PICK x : x = a * q
  OBVIOUS
<1>7. x \in Int /\ n + 1 = x + (r + 1)
  BY <1>1, <1>4, <1>5, <1>6
<1>8. n = x + r /\ q \in Nat /\ r \in 0..a - 1
  BY <1>4, <1>5, <1>7
<1>9. QED
  BY <1>3, <1>6, <1>8

(* A byte of a file lies in the cluster and at the place its number says.  *)
LEMMA ByteAt ==
  ASSUME NEW position \in Nat, NEW b \in Nat \ {0}, NEW chunks \in Nat, NEW a \in Nat \ {0},
         position + b <= chunks * a
  PROVE  Spots(position, b, chunks, a, (position % a) + b - 1,
               (position \div a) + (((position % a) + b - 1) \div a))
<1>0. PICK m, k : m = (position % a) + b - 1 /\ k = (position \div a) + (m \div a)
  OBVIOUS
<1>1. PICK s, r, q, o : s = position \div a /\ r = position % a /\ q = m \div a /\ o = m % a
  OBVIOUS
<1>2. s \in Nat /\ r \in 0..a - 1 /\ position = a * s + r
  BY <1>1, DivModNat
<1>3. m \in Nat /\ m + 1 = r + b
  <2>1. m = r + b - 1
    BY <1>0, <1>1
  <2>2. QED
    BY <1>2, <2>1
<1>4. q \in Nat /\ o \in 0..a - 1 /\ m = a * q + o
  BY <1>1, <1>3, DivModNat
<1>5. k = s + q /\ k \in Nat
  BY <1>0, <1>1, <1>2, <1>4
<1>6. PICK x, y, z : x = a * s /\ y = a * q /\ z = k * a
  OBVIOUS
<1>7. x \in Nat /\ y \in Nat /\ z = x + y
  BY <1>2, <1>4, <1>5, <1>6, Distributes
<1>8. position = x + r /\ m = y + o
  BY <1>2, <1>4, <1>6
<1>9. z + (o + 1) = position + b /\ z < position + b
  BY <1>2, <1>3, <1>4, <1>7, <1>8
<1>10. k < chunks
  <2>1. SUFFICES ASSUME chunks <= k PROVE FALSE
    BY <1>5
  <2>2. PICK w : w = chunks * a
    OBVIOUS
  <2>3. w \in Nat /\ w <= z
    BY <1>5, <1>6, <2>1, <2>2, TimesMonotone
  <2>4. position + b <= w
    BY <2>2
  <2>5. QED
    BY <1>7, <1>9, <2>3, <2>4
<1>11. Spots(position, b, chunks, a, m, k)
  BY <1>1, <1>5, <1>6, <1>9, <1>10 DEF Spots
<1>12. QED
  BY <1>0, <1>11

(* What Read() of an open file returns is what the file holds.             *)
LEMMA ReadDelivers ==
  ASSUME Inv, Follows, ~failed, NEW length \in 1..ClusterSize, Read(length)
  PROVE  ReadsBack'
<1>1. PICK t : Typed /\ Now(t)
  BY DEF Inv
<1>2. /\ Opened(file) /\ Tidy(t, fat, data, failed)
  BY <1>1, NowFacts
<1>3. /\ file.position < file.size /\ file.size \in Nat /\ file.position \in Nat
      /\ file = [first |-> file.first, size |-> file.size, position |-> file.position,
                 path |-> file.path, got |-> file.got]
  BY <1>2 DEF Read, Opened
<1>4. file # NoFile
  BY <1>3 DEF NoFile
<1>5. PICK p \in FatPaths : \E e : /\ p = file.path /\ e = EntryAt(fat, data, p) /\ e.kind = "file"
                                  /\ e.first = file.first /\ e.size = file.size
  BY <1>4 DEF Follows
<1>5a. PICK e : /\ p = file.path /\ e = EntryAt(fat, data, p) /\ e.kind = "file"
              /\ e.first = file.first /\ e.size = file.size
  BY <1>5
<1>6. /\ e.size \in Nat /\ (e.first = 0 => e.size = 0)
      /\ e.first # 0 =>
              /\ e.first \in DOMAIN t /\ t[e.first].path = p /\ t[e.first].kind = "file"
              /\ Chain(e.first) = t[e.first].chain /\ Len(t[e.first].chain) \in Nat \ {0}
              /\ Holds(t[e.first], e.size, data, failed)
  BY <1>2, <1>5a, FileFound
<1>7. e.first # 0
  BY <1>3, <1>5a, <1>6
<1>8. PICK chain : chain = Chain(file.first)
  OBVIOUS
<1>9. /\ Len(chain) \in Nat \ {0}
      /\ file.size <= Len(chain) * ClusterSize
      /\ \A k \in 1..Len(chain) : (k - 1) * ClusterSize < file.size => data[chain[k]] = Bytes(p, k - 1)
  BY <1>5a, <1>6, <1>7, <1>8 DEF Holds
<1>10. PICK position, a : position = file.position /\ a = ClusterSize
  OBVIOUS
<1>11. PICK n : n = (IF file.position + length > file.size THEN file.size - file.position ELSE length)
  OBVIOUS
<1>12. n \in Nat \ {0} /\ position \in Nat /\ a \in Nat \ {0} /\ position + n <= file.size
  BY <1>3, <1>10, <1>11, Geometry
<1>13. PICK w : w = Len(chain) * a
  OBVIOUS
<1>14. w \in Nat /\ position + n <= w /\ n <= w - position
  BY <1>3, <1>9, <1>10, <1>12, <1>13
<1> DEFINE spot(b) == <<chain[(position \div a) + (((position % a) + b - 1) \div a) + 1],
                        (((position % a) + b - 1) % a) + 1>>
           places == [b \in 1..n |-> spot(b)]
<1>15. ReadStream(file.first, file.position, n) = places
  BY <1>8, <1>10, <1>12, <1>13, <1>14 DEF ReadStream
<1>16. file' = [file EXCEPT !.position = position + n,
                  !.got = [i \in 1..n |-> <<data[spot(i)[1]].of,
                                            (data[spot(i)[1]].part * ClusterSize) + spot(i)[2]>>]]
  <2>1. file' = [file EXCEPT !.position = @ + n,
                  !.got = [i \in DOMAIN places |-> LET c == data[places[i][1]]
                                                   IN  <<c.of, (c.part * ClusterSize) + places[i][2]>>]]
    <3> HIDE DEF places
    <3>1. QED
      BY <1>11, <1>15, <1>10 DEF Read
  <2>2. [i \in DOMAIN places |-> LET c == data[places[i][1]]
                                 IN  <<c.of, (c.part * ClusterSize) + places[i][2]>>]
        = [i \in 1..n |-> <<data[spot(i)[1]].of, (data[spot(i)[1]].part * ClusterSize) + spot(i)[2]>>]
    <3> HIDE DEF spot
    <3>1. DOMAIN places = 1..n /\ \A i \in 1..n : places[i] = spot(i)
      OBVIOUS
    <3>2. QED
      BY <3>1
  <2> HIDE DEF places, spot
  <2>3. QED
    BY <1>10, <2>1, <2>2
<1>17. ASSUME NEW i \in 1..n
       PROVE  <<data[spot(i)[1]].of, (data[spot(i)[1]].part * ClusterSize) + spot(i)[2]>>
                = <<p, position + i>>
  <2>1. PICK m, k : m = (position % a) + i - 1 /\ k = (position \div a) + (m \div a)
    OBVIOUS
  <2>2. i \in Nat \ {0} /\ position + i <= file.size /\ position + i <= w
    BY <1>3, <1>12, <1>14
  <2>3. /\ k \in Nat /\ k + 1 \in 1..Len(chain) /\ k * a < position + i
        /\ (k * a) + ((m % a) + 1) = position + i
    <3>1. position + i <= Len(chain) * a
      BY <1>13, <2>2
    <3>2. Len(chain) \in Nat
      BY <1>9
    <3>3. QED
      <4>1. Spots(position, i, Len(chain), a, (position % a) + i - 1,
                  (position \div a) + (((position % a) + i - 1) \div a))
        BY <1>12, <2>2, <3>1, <3>2, ByteAt
      <4>2. Spots(position, i, Len(chain), a, m, k)
        BY <2>1, <4>1
      <4>3. QED
        BY <4>2 DEF Spots
  <2>4. spot(i)[1] = chain[k + 1] /\ spot(i)[2] = (m % a) + 1
    BY <2>1
  <2>5. data[chain[k + 1]] = Bytes(p, k)
    <3>1. PICK z : z = k * a
      OBVIOUS
    <3>2. z < file.size
      <4>1. z \in Nat /\ z < position + i
        BY <1>12, <2>3, <3>1
      <4>2. QED
        BY <1>3, <1>12, <2>2, <4>1
    <3>3. (k + 1) - 1 = k
      BY <2>3
    <3>4. ((k + 1) - 1) * ClusterSize < file.size
      BY <1>10, <3>1, <3>2, <3>3
    <3>5. data[chain[k + 1]] = Bytes(p, (k + 1) - 1)
      BY <1>9, <2>3, <3>4
    <3>6. QED
      BY <3>3, <3>5
  <2>6. data[chain[k + 1]].of = p /\ data[chain[k + 1]].part = k
    BY <2>5 DEF Bytes
  <2> HIDE DEF spot
  <2>7. QED
    BY <1>10, <2>3, <2>4, <2>6
<1> HIDE DEF spot
<1>18. file' = [file EXCEPT !.position = position + n, !.got = [i \in 1..n |-> <<p, position + i>>]]
  BY <1>16, <1>17
<1>19. PICK got : got = [i \in 1..n |-> <<p, position + i>>]
  OBVIOUS
<1>20. DOMAIN got = 1..n /\ Len(got) = n /\ \A i \in 1..n : got[i] = <<p, position + i>>
  BY <1>12, <1>19
<1>21. file'.position = position + n /\ file'.got = got /\ file'.path = p
  BY <1>3, <1>5a, <1>18, <1>19
<1>22. \A i \in 1..n : (position + n) - n + i = position + i
  BY <1>12
<1>23. QED
  BY <1>20, <1>21, <1>22 DEF ReadsBack

(* It holds at the start: nothing is open.                                 *)
LEMMA InitReads == Init => Reads
<1> SUFFICES ASSUME Init PROVE Reads
  OBVIOUS
<1>1. file = NoFile
  BY DEF Init
<1>2. DOMAIN file.got = {}
  BY <1>1 DEF NoFile
<1>3. QED
  BY <1>1, <1>2, InitInv DEF Reads, Follows, ReadsBack

(* It holds when nothing is open.                                          *)
LEMMA NothingOpen ==
  ASSUME file' = NoFile
  PROVE  Follows' /\ ReadsBack'
<1>1. DOMAIN file'.got = {}
  BY DEF NoFile
<1>2. QED
  BY <1>1 DEF Follows, ReadsBack

(* It holds while an operation is under way: then nothing is open.         *)
LEMMA SameFile ==
  ASSUME Follows, ReadsBack, job.stage # "", UNCHANGED file
  PROVE  Follows' /\ ReadsBack'
<1>1. file' = NoFile
  BY DEF Follows
<1>2. QED
  BY <1>1, NothingOpen

(* Every step keeps it.                                                    *)
LEMMA ReadsStep ==
  ASSUME Reads, [Next]_vars
  PROVE  Reads'
<1>1. Inv /\ Follows /\ ReadsBack /\ Inv'
  BY InvStep DEF Reads
<1>2. ASSUME Follows', ReadsBack' PROVE Reads'
  BY <1>1, <1>2 DEF Reads
<1>3. CASE UNCHANGED vars
  BY <1>1, <1>2, <1>3 DEF vars, Follows, ReadsBack
<1>4. ASSUME NEW path \in Paths, CreateFile(path) \/ MakeDirectory(path) PROVE Reads'
  <2>1. file' = NoFile
    BY <1>4 DEF CreateFile, MakeDirectory, Create, Outdate
  <2>2. QED
    BY <1>2, <2>1, NothingOpen
<1>5. ASSUME NEW path \in Paths, DeleteFile(path) \/ DeleteDirectory(path) PROVE Reads'
  <2>1. file' = NoFile
    BY <1>5 DEF DeleteFile, DeleteDirectory, MarkDeleted, Outdate
  <2>2. QED
    BY <1>2, <2>1, NothingOpen
<1>6. ASSUME NEW path \in Paths, NEW length \in Lengths, WriteFile(path, length) PROVE Reads'
  <2>1. file' = NoFile
    BY <1>6 DEF WriteFile, Outdate
  <2>2. QED
    BY <1>2, <2>1, NothingOpen
<1>7. ASSUME NEW path \in Paths, WriteDirectory(path) PROVE Reads'
  <2>1. file' = NoFile
    BY <1>7 DEF WriteDirectory, Outdate
  <2>2. QED
    BY <1>2, <2>1, NothingOpen
<1>8. ASSUME NEW path \in Paths, Open(path) PROVE Reads'
  <2>1. PICK p \in FatPaths : p = FatPath(path)
    BY FatPathIs
  <2>2. /\ job = Idle /\ EntryOf(p).kind = "file" /\ UNCHANGED <<fat, data, job, failed>>
        /\ file' = [first |-> EntryOf(p).first, size |-> EntryOf(p).size, position |-> 0,
                    path |-> p, got |-> <<>>]
    BY <1>8, <2>1 DEF Open
  <2>3. EntryOf(p) = EntryAt(fat, data, p)
    BY <1>1, NowFacts, EntryOfIs DEF Inv
  <2>4. /\ file'.path = p /\ file'.first = EntryOf(p).first /\ file'.size = EntryOf(p).size
        /\ file'.got = <<>>
    BY <2>2
  <2>5. DOMAIN file'.got = {}
    BY <2>4
  <2>6. ReadsBack'
    BY <2>5 DEF ReadsBack
  <2>7. job'.stage = ""
    BY <2>2, IdleIs
  <2>8. Follows'
    BY <2>2, <2>3, <2>4, <2>7 DEF Follows
  <2>9. QED
    BY <1>2, <2>6, <2>8
<1>9. CASE Zero \/ PlaceEntry \/ GrowDirectory \/ DirectoryFull \/ Link \/ PlaceInGrown \/ Dots \/ FreeChain
  <2>1. job.stage # "" /\ UNCHANGED file
    BY <1>9 DEF Zero, PlaceEntry, GrowDirectory, DirectoryFull, Link, PlaceInGrown, Dots, FreeChain, EntryWritten
  <2>2. QED
    BY <1>1, <1>2, <2>1, SameFile
<1>10. CASE SetFirst \/ WriteData \/ WriteNothing \/ ExtendFile \/ DiskFull \/ SetSize
  <2>1. job.stage # "" /\ UNCHANGED file
    BY <1>10 DEF SetFirst, WriteData, WriteNothing, ExtendFile, DiskFull, SetSize
  <2>2. QED
    BY <1>1, <1>2, <2>1, SameFile
<1>11. ASSUME NEW n \in 1..ClusterSize, Read(n) PROVE Reads'
  <2>1. UNCHANGED <<fat, data, job, failed>>
    BY <1>11 DEF Read
  <2>2. ~failed => ReadsBack'
    BY <1>1, <1>11, ReadDelivers
  <2>3. failed => ReadsBack'
    BY <2>1 DEF ReadsBack
  <2>4. file # NoFile
    BY <1>11 DEF Read, NoFile
  <2>5. /\ file = [first |-> file.first, size |-> file.size, position |-> file.position,
                   path |-> file.path, got |-> file.got]
    BY <1>1, NowFacts DEF Inv, Opened
  <2>6. \E position, got : file' = [file EXCEPT !.position = position, !.got = got]
    BY <1>11 DEF Read
  <2>7. file'.path = file.path /\ file'.first = file.first /\ file'.size = file.size
    BY <2>5, <2>6
  <2>8. Follows'
    BY <1>1, <2>1, <2>4, <2>7 DEF Follows
  <2>9. QED
    BY <1>1, <1>2, <2>2, <2>3, <2>8 DEF Inv, Typed
<1>12. ASSUME NEW n \in 1..ClusterSize, Seek(n) PROVE Reads'
  <2>1. UNCHANGED <<fat, data, job, failed>> /\ file.path # <<>>
    BY <1>12 DEF Seek
  <2>2. file # NoFile
    BY <2>1 DEF NoFile
  <2>3. /\ file = [first |-> file.first, size |-> file.size, position |-> file.position,
                   path |-> file.path, got |-> file.got]
    BY <1>1, NowFacts DEF Inv, Opened
  <2>4. PICK position : file' = [file EXCEPT !.position = position, !.got = <<>>]
    BY <1>12 DEF Seek
  <2>5. file'.path = file.path /\ file'.first = file.first /\ file'.size = file.size /\ file'.got = <<>>
    BY <2>3, <2>4
  <2>6. Follows'
    BY <1>1, <2>1, <2>2, <2>5 DEF Follows
  <2>7. DOMAIN file'.got = {}
    BY <2>5
  <2>8. ReadsBack'
    BY <2>7 DEF ReadsBack
  <2>9. QED
    BY <1>2, <2>6, <2>8
<1>13. CASE Format
  <2>1. file' = NoFile
    BY <1>13 DEF Format, Outdate
  <2>2. QED
    BY <1>2, <2>1, NothingOpen
<1>14. CASE PowerLoss
  <2>1. file' = NoFile
    BY <1>14 DEF PowerLoss
  <2>2. QED
    BY <1>2, <2>1, NothingOpen
<1>15. QED
  BY <1>3, <1>4, <1>5, <1>6, <1>7, <1>8, <1>9, <1>10, <1>11, <1>12, <1>13, <1>14 DEF Reads, Next

(* What Read() returns through an open file, from any position to which    *)
(* Seek() or earlier reads have brought it and across clusters, is what    *)
(* was written there.                                                      *)
THEOREM ReadsCorrect == Spec => []ReadsBack
<1>1. Init => Reads
  BY InitReads
<1>2. Reads /\ [Next]_vars => Reads'
  BY ReadsStep
<1>3. Reads => ReadsBack
  BY DEF Reads
<1>4. QED
  BY <1>1, <1>2, <1>3, PTL DEF Spec

(* No cluster leaks. The invariant above says what is on the disk; this    *)
(* part says that it is all there is: the ends of a directory come last,   *)
(* its entries have different names, every row of the table but the root   *)
(* is named by an entry (Whole), and every cluster that is marked is a     *)
(* row's or the operation's that is under way (Kept).                      *)

(* An entry that is written where no end comes before it keeps the order.  *)
LEMMA OrderWrite ==
  ASSUME NEW q, NEW d, NEW d2, NEW l \in 1..Len(q), NEW j \in 1..Slots,
         InOrder(q, d), NoEndBefore(q, d, l, j), EntryAdded(q, d, d2, l, j)
  PROVE  InOrder(q, d2)
<1>1. SUFFICES ASSUME NEW k \in 1..Len(q), NEW m \in 1..Len(q), NEW i \in 1..Slots, NEW n \in 1..Slots,
                      After(k, i, m, n), d2[q[k]].slots[i].kind = "end"
               PROVE  d2[q[m]].slots[n].kind = "end"
  BY DEF InOrder
<1>2. ~(k = l /\ i = j)
  BY <1>1 DEF EntryAdded
<1>3. d[q[k]].slots[i].kind = "end"
  BY <1>1, <1>2 DEF EntryAdded
<1>4. ~(m = l /\ n = j)
  BY <1>1, <1>3 DEF NoEndBefore
<1>5. d[q[m]].slots[n].kind = "end"
  BY <1>1, <1>3 DEF InOrder
<1>6. QED
  BY <1>4, <1>5 DEF EntryAdded

(* No end comes before an entry that is none.                              *)
LEMMA LiveBefore ==
  ASSUME NEW q, NEW d, InOrder(q, d), NEW l \in 1..Len(q), NEW j \in 1..Slots, d[q[l]].slots[j].kind # "end"
  PROVE  NoEndBefore(q, d, l, j)
BY DEF NoEndBefore, InOrder

(* A write that changes no kind keeps the order.                           *)
LEMMA OrderKept ==
  ASSUME NEW q, NEW d, NEW d2, InOrder(q, d),
         \A k \in 1..Len(q), i \in 1..Slots : d2[q[k]].slots[i].kind = d[q[k]].slots[i].kind
  PROVE  InOrder(q, d2)
BY DEF InOrder

(* The number of an entry grows with its place.                            *)
LEMMA Numbers ==
  ASSUME NEW k \in Nat \ {0}, NEW l \in Nat \ {0}, NEW i \in 1..Slots, NEW j \in 1..Slots, After(k, i, l, j)
  PROVE  Slots * (k - 1) + i < Slots * (l - 1) + j
<1>1. Slots \in Nat \ {0}
  BY Geometry
<1>2. CASE k = l
  <2>1. PICK a : a = Slots * (k - 1)
    OBVIOUS
  <2>2. k - 1 \in Nat /\ i < j
    BY <1>2 DEF After
  <2>3. a \in Nat
    BY <1>1, <2>1, <2>2
  <2>4. QED
    BY <1>2, <2>1, <2>2, <2>3
<1>3. CASE k < l
  <2>1. PICK a \in Nat, b \in Nat : a = k - 1 /\ b = l - 1
    OBVIOUS
  <2>2. a + 1 \in Nat /\ a + 1 <= b
    BY <1>3, <2>1
  <2>3. Slots * (a + 1) <= Slots * b /\ Slots * (a + 1) \in Nat /\ Slots * b \in Nat
    BY <1>1, <2>2, TimesMonotone
  <2>4. Slots * (a + 1) = Slots * a + Slots * 1 /\ Slots * 1 = Slots
    BY <1>1, Distributes
  <2>5. PICK m \in Nat, n \in Nat : m = Slots * a /\ n = Slots * b
    BY <1>1, <2>3
  <2>6. m + Slots <= n
    BY <2>3, <2>4, <2>5
  <2>7. m + i < n + j
    BY <1>1, <2>6
  <2>8. QED
    BY <2>1, <2>5, <2>7
<1>4. QED
  BY <1>2, <1>3 DEF After

(* The first free entry has no end before it, and a directory without one  *)
(* has no end.                                                             *)
LEMMA FreeBefore ==
  ASSUME NEW f \in Fats, NEW d \in Disks, NEW t, Table(t, f), Listed(t, d), NEW h \in Dirs(t)
  PROVE  /\ FreeAt(DirectoryAt(f, d, h)) # 0 =>
              \E l \in 1..Len(t[h].chain), j \in 1..Slots :
                /\ PlaceAt(f, h, FreeAt(DirectoryAt(f, d, h))) = <<t[h].chain[l], j>>
                /\ NoEndBefore(t[h].chain, d, l, j)
                /\ d[t[h].chain[l]].slots[j].kind \in {"end", "deleted"}
         /\ FreeAt(DirectoryAt(f, d, h)) = 0 => \A c \in Of(t, h) : Endless(d, c)
<1> DEFINE q == t[h].chain
           D == DirectoryAt(f, d, h)
           n == FreeAt(D)
<1>1. Strung(q, h, f) /\ (\A k \in 1..Len(q) : q[k] \in Of(t, h)) /\ Len(q) \in Nat
  BY DirRow, RowFacts
<1>2. \A k \in 1..Len(q) : Len(d[q[k]].slots) = Slots
  BY <1>1 DEF Listed
<1>3. Of(t, h) = {q[k] : k \in 1..Len(q)}
  BY DEF Of
<1> HIDE DEF q
<1>4. /\ D \in Seq(Slot) /\ Len(D) = Slots * Len(q)
      /\ \A m \in 1..Len(D) :
              \E k \in 1..Len(q), i \in 1..Slots :
                /\ m = Slots * (k - 1) + i
                /\ PlaceAt(f, h, m) = <<q[k], i>>
                /\ D[m] = d[q[k]].slots[i]
      /\ \A k \in 1..Len(q), i \in 1..Slots :
              /\ Slots * (k - 1) + i \in 1..Slots * Len(q)
              /\ D[Slots * (k - 1) + i] = d[q[k]].slots[i]
  BY <1>1, <1>2, DirTidy
<1> HIDE DEF D
<1>5. /\ n \in 0..Len(D)
      /\ n # 0 => D[n].kind \in {"end", "deleted"}
      /\ \A m \in 1..Len(D) : n = 0 \/ m < n => D[m].kind \notin {"end", "deleted"}
  BY <1>4, FreeIs
<1> HIDE DEF n
<1>6. ASSUME n # 0
      PROVE  \E l \in 1..Len(q), j \in 1..Slots :
               /\ PlaceAt(f, h, n) = <<q[l], j>> /\ NoEndBefore(q, d, l, j)
               /\ d[q[l]].slots[j].kind \in {"end", "deleted"}
  <2>1. n \in 1..Len(D)
    BY <1>4, <1>5, <1>6
  <2>2. PICK l \in 1..Len(q), j \in 1..Slots :
          n = Slots * (l - 1) + j /\ PlaceAt(f, h, n) = <<q[l], j>> /\ D[n] = d[q[l]].slots[j]
    BY <1>4, <2>1
  <2>3. ASSUME NEW k \in 1..Len(q), NEW i \in 1..Slots, After(k, i, l, j)
        PROVE  d[q[k]].slots[i].kind # "end"
    <3>1. PICK m : m = Slots * (k - 1) + i
      OBVIOUS
    <3>2. m \in 1..Len(D) /\ D[m] = d[q[k]].slots[i]
      BY <1>4, <3>1
    <3>3. m < n
      <4>1. k \in Nat \ {0} /\ l \in Nat \ {0}
        BY <1>1
      <4>2. QED
        BY <2>2, <2>3, <3>1, <4>1, Numbers
    <3>4. QED
      BY <1>5, <3>2, <3>3
  <2>4. QED
    BY <1>5, <1>6, <2>2, <2>3 DEF NoEndBefore
<1>7. ASSUME n = 0, NEW c \in Of(t, h)
      PROVE  Endless(d, c)
  <2>1. PICK k \in 1..Len(q) : c = q[k]
    BY <1>3
  <2>2. ASSUME NEW i \in 1..Slots
        PROVE  d[c].slots[i].kind # "end"
    <3>1. PICK m : m = Slots * (k - 1) + i
      OBVIOUS
    <3>2. m \in 1..Len(D) /\ D[m] = d[c].slots[i]
      BY <1>4, <2>1, <3>1
    <3>3. QED
      BY <1>5, <1>7, <3>2
  <2>3. QED
    BY <2>2 DEF Endless
<1>8. QED
  BY <1>6, <1>7 DEF n, D, q

(* Paths with the same last part are equal before it.                      *)
LEMMA AppendSame ==
  ASSUME NEW S, NEW p \in Seq(S), NEW q \in Seq(S), NEW a, NEW b, Append(p, a) = Append(q, b)
  PROVE  p = q /\ a = b
<1>0. PICK R : R = S \union {a, b}
  OBVIOUS
<1>1. p \in Seq(R) /\ q \in Seq(R) /\ a \in R /\ b \in R
  BY <1>0
<1>2. Len(p) = Len(q) /\ Len(p) \in Nat
  <2>1. Len(Append(p, a)) = Len(p) + 1 /\ Len(Append(q, b)) = Len(q) + 1 /\ Len(p) \in Nat /\ Len(q) \in Nat
    BY <1>1
  <2>2. QED
    BY <2>1
<1>3. Append(p, a)[Len(p) + 1] = a /\ Append(q, b)[Len(q) + 1] = b
  BY <1>1
<1>4. ASSUME NEW k \in 1..Len(p)
      PROVE  p[k] = q[k]
  <2>1. Append(p, a)[k] = p[k] /\ Append(q, b)[k] = q[k]
    BY <1>1, <1>2
  <2>2. QED
    BY <2>1
<1>5. p = q
  BY <1>2, <1>4, SameSequence
<1>6. QED
  BY <1>2, <1>3, <1>5

(* A row that an entry names has the entry's path.                         *)
LEMMA RowNamed ==
  ASSUME NEW f, NEW d, NEW t, NEW cut, Tidy(t, f, d, cut), Whole(t, d), NEW g \in DOMAIN t, g # Root
  PROVE  \E h \in Dirs(t) : \E c \in Of(t, h), i \in 1..Slots :
           /\ Live(d[c].slots[i]) /\ d[c].slots[i].first = g /\ c \in InDirs(t)
           /\ t[g].kind = d[c].slots[i].kind
           /\ t[g].path = Append(t[h].path, d[c].slots[i].name)
<1>1. PICK c \in InDirs(t), i \in 1..Slots : Live(d[c].slots[i]) /\ d[c].slots[i].first = g
  BY DEF Whole
<1>2. PICK h \in Dirs(t) : c \in Of(t, h)
  BY InDirsFacts
<1>3. g # 0
  BY Geometry DEF Tidy, Table
<1>4. QED
  BY <1>1, <1>2, <1>3, LiveRow

(* A name that is new to a directory makes a path of no row.               *)
LEMMA NewPath ==
  ASSUME NEW f, NEW d, NEW t, NEW cut, Tidy(t, f, d, cut), Shape(t, d),
         NEW h \in Dirs(t), NEW b, NEW j, NEW name, Vacant(t, d, h, b, j, name), NEW y \in DOMAIN t
  PROVE  t[y].path # Append(t[h].path, name)
<1>1. h \in DOMAIN t /\ t[h].path \in Seq(Names) /\ t[Root].path = <<>>
  BY DirRow, RowFacts DEF Tidy, Table
<1>2. CASE y = Root
  <2>1. Append(t[h].path, name) # <<>>
    BY <1>1
  <2>2. QED
    BY <1>1, <1>2, <2>1
<1>3. CASE y # Root
  <2>1. PICK g \in Dirs(t) : \E c \in Of(t, g), i \in 1..Slots :
           /\ Live(d[c].slots[i]) /\ d[c].slots[i].first = y /\ c \in InDirs(t)
           /\ t[y].kind = d[c].slots[i].kind
           /\ t[y].path = Append(t[g].path, d[c].slots[i].name)
    BY <1>3, RowNamed DEF Shape
  <2>2. PICK c \in Of(t, g), i \in 1..Slots :
          /\ Live(d[c].slots[i]) /\ d[c].slots[i].first = y
          /\ t[y].path = Append(t[g].path, d[c].slots[i].name)
    BY <2>1
  <2>3. SUFFICES ASSUME t[y].path = Append(t[h].path, name) PROVE FALSE
    OBVIOUS
  <2>4. g \in DOMAIN t /\ t[g].path \in Seq(Names)
    BY DirRow, RowFacts DEF Tidy
  <2>5. PICK n, p, q : n = d[c].slots[i].name /\ p = t[g].path /\ q = t[h].path
    OBVIOUS
  <2>6. t[g].path = t[h].path /\ n = name
    <3>1. p \in Seq(Names) /\ q \in Seq(Names) /\ Append(p, n) = Append(q, name)
      BY <1>1, <2>2, <2>3, <2>4, <2>5
    <3>2. p = q /\ n = name
      BY <3>1, AppendSame
    <3>3. QED
      BY <2>5, <3>2
  <2>7. g = h
    BY <1>1, <2>4, <2>6 DEF Shape
  <2>8. b = c /\ j = i
    BY <2>2, <2>5, <2>6, <2>7 DEF Vacant
  <2>9. y = 0
    BY <2>2, <2>8 DEF Vacant
  <2>10. QED
    BY <2>9, Geometry DEF Tidy, Table
<1>4. QED
  BY <1>2, <1>3

(* A new entry for a new file or directory keeps the tree in shape.        *)
LEMMA ShapeAdd ==
  ASSUME NEW f, NEW d, NEW t, NEW cut, Tidy(t, f, d, cut), Shape(t, d),
         NEW h \in Dirs(t), NEW l \in 1..Len(t[h].chain), NEW i \in 1..Slots,
         NoEndBefore(t[h].chain, d, l, i), NEW x \in Slot, Live(x),
         Vacant(t, d, h, t[h].chain[l], i, x.name), Blank(t, f, d, x.first),
         NEW path \in FatPaths, path = Append(t[h].path, x.name)
  PROVE  Shape(Added(t, x.first, Row(x.kind, path, <<x.first>>)), WriteSlot(d, t[h].chain[l], i, x))
<1> DEFINE c == t[h].chain[l]
           g == x.first
           u == Added(t, g, Row(x.kind, path, <<g>>))
           d2 == WriteSlot(d, c, i, x)
<1>1. f \in Fats /\ d \in Disks /\ Table(t, f) /\ Listed(t, d)
  BY DEF Tidy
<1>2. h \in DOMAIN t /\ c \in Of(t, h) /\ c \in InDirs(t) /\ c \in 0..LastCluster /\ c \in Taken(t)
      /\ Len(d[c].slots) = Slots /\ Strung(t[h].chain, h, f)
  <2>1. h \in DOMAIN t /\ c \in Of(t, h) /\ c \in InDirs(t) /\ Strung(t[h].chain, h, f)
    BY <1>1, DirRow, RowFacts
  <2>2. QED
    BY <2>1, InDirsFacts
<1>3. g \notin Taken(t) /\ g \in Cluster /\ g \in 0..LastCluster /\ d[g] = Zeros /\ g # c
  BY <1>2, Geometry DEF Blank, Loose
<1>4. g \notin DOMAIN t
  <2>1. \A y \in DOMAIN t : y \in Taken(t)
    BY <1>1, RowFacts DEF Taken
  <2>2. QED
    BY <1>3, <2>1
<1>5. /\ DOMAIN u = DOMAIN t \union {g}
      /\ u[g].kind = x.kind /\ u[g].path = path /\ u[g].chain = <<g>> /\ Of(u, g) = {g}
      /\ \A y \in DOMAIN t : u[y] = t[y] /\ Of(u, y) = Of(t, y)
      /\ Dirs(u) = IF x.kind = "dir" THEN Dirs(t) \union {g} ELSE Dirs(t)
      /\ InDirs(u) = IF x.kind = "dir" THEN InDirs(t) \union {g} ELSE InDirs(t)
  <2>1. AddedTo(t, g, x.kind, path, u)
    BY <1>4, AddedIs
  <2> HIDE DEF u
  <2>2. QED
    BY <2>1 DEF AddedTo
<1>6. /\ \A b \in 0..LastCluster : b # c => d2[b] = d[b]
      /\ d2[c].slots[i] = x
      /\ \A j \in 1..Slots : j # i => d2[c].slots[j] = d[c].slots[j]
  BY <1>1, <1>2, WriteSlotIs
<1>14. Vacant(t, d, h, c, i, x.name)
  OBVIOUS
<1> HIDE DEF u, d2, c, g
<1>7. \A j \in 1..Slots : d2[g].slots[j] = End /\ ~Live(d2[g].slots[j])
  <2>1. d2[g] = Zeros
    BY <1>3, <1>6
  <2>2. QED
    BY <2>1, ZerosIs
<1>8. ASSUME NEW y \in Dirs(t)
      PROVE  /\ y \in DOMAIN t /\ y # g /\ Strung(t[y].chain, y, f) /\ u[y] = t[y] /\ Of(u, y) = Of(t, y)
             /\ \A b \in Of(t, y) : b \in InDirs(t) /\ b \in 0..LastCluster /\ (b = c => y = h)
             /\ \A k \in 1..Len(t[y].chain) : t[y].chain[k] \in Of(t, y)
  <2>1. y \in DOMAIN t /\ Of(t, y) \subseteq InDirs(t) /\ Strung(t[y].chain, y, f)
        /\ \A k \in 1..Len(t[y].chain) : t[y].chain[k] \in Of(t, y)
    BY <1>1, DirRow, RowFacts
  <2>2. \A b \in Of(t, y) : b = c => y = h
    BY <1>1, <1>2, <2>1 DEF Table
  <2>3. \A b \in InDirs(t) : b \in 0..LastCluster
    BY InDirsFacts
  <2>4. QED
    BY <1>4, <1>5, <2>1, <2>2, <2>3
<1>9. ASSUME NEW y \in Dirs(u)
      PROVE  InOrder(u[y].chain, d2) /\ Distinct(u, d2, y)
  <2>1. CASE y = g
    <3>1. u[y].chain = <<g>> /\ Of(u, y) = {g}
      BY <1>5, <2>1
    <3>2. Distinct(u, d2, y)
      BY <1>7, <3>1 DEF Distinct
    <3>3. \A k \in 1..Len(<<g>>) : <<g>>[k] = g
      OBVIOUS
    <3>4. InOrder(<<g>>, d2)
      BY <1>7, <3>3, SlotFacts DEF InOrder
    <3>5. QED
      BY <3>1, <3>2, <3>4
  <2>2. CASE y # g /\ y # h
    <3>1. y \in Dirs(t)
      BY <1>5, <2>2
    <3>2. u[y].chain = t[y].chain /\ Of(u, y) = Of(t, y) /\ \A b \in Of(t, y) : d2[b] = d[b]
      BY <1>6, <1>8, <2>2, <3>1
    <3>3. InOrder(t[y].chain, d) /\ Distinct(t, d, y)
      BY <3>1 DEF Shape
    <3>4. InOrder(t[y].chain, d2)
      BY <1>8, <3>1, <3>2, <3>3, OrderKept
    <3>5. Distinct(u, d2, y)
      BY <3>2, <3>3 DEF Distinct
    <3>6. QED
      BY <3>2, <3>4, <3>5
  <2>3. CASE y = h
    <3>1. u[h].chain = t[h].chain /\ Of(u, h) = Of(t, h) /\ InOrder(t[h].chain, d) /\ Distinct(t, d, h)
      BY <1>8 DEF Shape
    <3>2. ASSUME NEW b \in Of(t, h), NEW j \in 1..Slots
          PROVE  \/ b = c /\ j = i /\ d2[b].slots[j] = x
                 \/ ~(b = c /\ j = i) /\ d2[b].slots[j] = d[b].slots[j]
      BY <1>6, <1>8
    <3>3. InOrder(t[h].chain, d2)
      <4>1. PICK q : q = t[h].chain
        OBVIOUS
      <4>2. \A k \in 1..Len(q) : q[k] \in Of(t, h) /\ (q[k] = c => k = l)
        BY <1>2, <1>8, <4>1 DEF Strung, c
      <4>3. \A k \in 1..Len(q), j \in 1..Slots : (k = l /\ j = i) \/ d2[q[k]].slots[j].kind = d[q[k]].slots[j].kind
        BY <3>2, <4>2
      <4>4. q[l] = c /\ d2[q[l]].slots[i].kind # "end" /\ l \in 1..Len(q)
        BY <1>6, <4>1 DEF c, Live
      <4>5. Strung(q, h, f) /\ InOrder(q, d) /\ NoEndBefore(q, d, l, i)
        BY <1>2, <3>1, <4>1
      <4>6. InOrder(q, d2)
        <5>1. EntryAdded(q, d, d2, l, i)
          BY <4>3, <4>4 DEF EntryAdded
        <5>2. QED
          BY <4>4, <4>5, <5>1, OrderWrite
      <4>7. QED
        BY <4>1, <4>6
    <3>4. Distinct(u, d2, h)
      <4>1. SUFFICES ASSUME NEW b \in Of(t, h), NEW a \in Of(t, h), NEW j \in 1..Slots, NEW k \in 1..Slots,
                            Live(d2[b].slots[j]), Live(d2[a].slots[k]), d2[b].slots[j].name = d2[a].slots[k].name
                     PROVE  b = a /\ j = k
        BY <3>1 DEF Distinct
      <4> HIDE DEF Live
      <4>2. CASE b = c /\ j = i
        <5>1. d2[b].slots[j] = x
          BY <1>6, <4>2
        <5>2. CASE a = c /\ k = i
          BY <4>2, <5>2
        <5>3. CASE ~(a = c /\ k = i)
          <6>1. d2[a].slots[k] = d[a].slots[k]
            BY <3>2, <5>3
          <6>2. QED
            BY <1>14, <4>1, <4>2, <5>1, <5>3, <6>1 DEF Vacant
        <5>4. QED
          BY <5>2, <5>3
      <4>3. CASE ~(b = c /\ j = i)
        <5>1. d2[b].slots[j] = d[b].slots[j]
          BY <3>2, <4>3
        <5>2. CASE a = c /\ k = i
          <6>1. d2[a].slots[k] = x
            BY <1>6, <5>2
          <6>2. QED
            BY <1>14, <4>1, <4>3, <5>1, <5>2, <6>1 DEF Vacant
        <5>3. CASE ~(a = c /\ k = i)
          <6>1. d2[a].slots[k] = d[a].slots[k]
            BY <3>2, <5>3
          <6>2. QED
            BY <3>1, <4>1, <5>1, <6>1 DEF Distinct
        <5>4. QED
          BY <5>2, <5>3
      <4>4. QED
        BY <4>2, <4>3
    <3>5. QED
      BY <2>3, <3>1, <3>3, <3>4
  <2>4. QED
    BY <2>1, <2>2, <2>3
<1>10. Whole(u, d2)
  <2>1. SUFFICES ASSUME NEW y \in DOMAIN u, y # Root
                 PROVE  \E b \in InDirs(u), j \in 1..Slots : Live(d2[b].slots[j]) /\ d2[b].slots[j].first = y
    BY DEF Whole
  <2>2. CASE y = g
    <3>1. c \in InDirs(u) /\ Live(d2[c].slots[i]) /\ d2[c].slots[i].first = g
      BY <1>2, <1>5, <1>6 DEF g
    <3>2. QED
      BY <2>2, <3>1
  <2>3. CASE y # g
    <3>1. PICK b \in InDirs(t), j \in 1..Slots : Live(d[b].slots[j]) /\ d[b].slots[j].first = y
      BY <1>5, <2>1, <2>3 DEF Shape, Whole
    <3>2. ~(b = c /\ j = i)
      <4>1. y # 0
        BY <1>1, <1>5, <2>1, <2>3, Geometry DEF Table
      <4>2. QED
        BY <1>14, <3>1, <4>1 DEF Vacant
    <3>3. d2[b].slots[j] = d[b].slots[j]
      <4>1. b \in 0..LastCluster
        BY InDirsFacts
      <4>2. QED
        BY <1>6, <3>2, <4>1
    <3>4. QED
      BY <1>5, <3>1, <3>3
  <2>4. QED
    BY <2>2, <2>3
<1>11. \A y, z \in DOMAIN u : u[y].path = u[z].path => y = z
  <2>1. \A y \in DOMAIN t : t[y].path # path
    BY <1>14, NewPath
  <2>2. \A y, z \in DOMAIN t : t[y].path = t[z].path => y = z
    BY DEF Shape
  <2>3. QED
    BY <1>5, <2>1, <2>2
<1>12. \A y \in DOMAIN u : u[y].path \in FatPaths \union {<<>>}
  BY <1>5 DEF Shape
<1>13. Shape(u, d2)
  BY <1>9, <1>10, <1>11, <1>12 DEF Shape
<1>15. QED
  BY <1>13 DEF u, d2, c, g

(* What is written to other clusters than directories', or into an entry   *)
(* beside its name and first cluster, leaves the tree in shape.            *)
LEMMA ShapeKept ==
  ASSUME NEW f, NEW d, NEW t, NEW cut, Tidy(t, f, d, cut), Shape(t, d), NEW d2,
         \A c \in InDirs(t), i \in 1..Slots : SameEntry(d[c].slots[i], d2[c].slots[i])
  PROVE  Shape(t, d2)
<1>1. ASSUME NEW h \in Dirs(t)
      PROVE  /\ \A c \in Of(t, h) : c \in InDirs(t)
             /\ \A k \in 1..Len(t[h].chain) : t[h].chain[k] \in Of(t, h)
  BY DirRow, RowFacts DEF Tidy
<1>2. ASSUME NEW h \in Dirs(t)
      PROVE  InOrder(t[h].chain, d2) /\ Distinct(t, d2, h)
  <2>1. InOrder(t[h].chain, d) /\ Distinct(t, d, h)
    BY DEF Shape
  <2>2. \A k \in 1..Len(t[h].chain), i \in 1..Slots : d2[t[h].chain[k]].slots[i].kind = d[t[h].chain[k]].slots[i].kind
    BY <1>1 DEF SameEntry
  <2>3. InOrder(t[h].chain, d2)
    BY <2>1, <2>2, OrderKept
  <2>4. \A c \in Of(t, h), i \in 1..Slots : SameEntry(d[c].slots[i], d2[c].slots[i])
    BY <1>1
  <2>5. Distinct(t, d2, h)
    BY <2>1, <2>4 DEF Distinct, SameEntry, Live
  <2>6. QED
    BY <2>3, <2>5
<1>3. Whole(t, d2)
  BY DEF Shape, Whole, SameEntry, Live
<1>4. QED
  BY <1>2, <1>3 DEF Shape

(* A chain that grows by a zeroed cluster leaves the tree in shape.        *)
LEMMA ShapeExtend ==
  ASSUME NEW f, NEW d, NEW t, NEW cut, Tidy(t, f, d, cut), Shape(t, d),
         NEW h \in DOMAIN t, NEW c, Blank(t, f, d, c)
  PROVE  Shape(Extended(t, h, c), d)
<1> DEFINE u == Extended(t, h, c)
<1>1. c \in Cluster /\ d[c] = Zeros /\ f \in Fats /\ Table(t, f)
  BY DEF Blank, Loose, Tidy
<1>2. t[h].chain \in Seq(Cluster) /\ Len(t[h].chain) \in Nat
  BY <1>1, RowFacts
<1>3. ExtendedTo(t, h, c, u)
  BY <1>1, <1>2, ExtendedIs
<1> HIDE DEF u
<1>4. /\ DOMAIN u = DOMAIN t /\ Dirs(u) = Dirs(t)
      /\ \A b \in InDirs(t) : b \in InDirs(u)
      /\ \A g \in DOMAIN t : u[g].path = t[g].path /\ (g # h => u[g] = t[g] /\ Of(u, g) = Of(t, g))
      /\ Of(u, h) = Of(t, h) \union {c}
      /\ Len(u[h].chain) = Len(t[h].chain) + 1 /\ u[h].chain[Len(t[h].chain) + 1] = c
      /\ \A k \in 1..Len(t[h].chain) : u[h].chain[k] = t[h].chain[k]
  BY <1>3 DEF ExtendedTo
<1>5. \A j \in 1..Slots : d[c].slots[j].kind = "end" /\ ~Live(d[c].slots[j])
  BY <1>1, ZerosIs, SlotFacts
<1>6. ASSUME NEW y \in Dirs(u)
      PROVE  InOrder(u[y].chain, d) /\ Distinct(u, d, y)
  <2>1. y \in Dirs(t) /\ y \in DOMAIN t /\ InOrder(t[y].chain, d) /\ Distinct(t, d, y)
    BY <1>1, <1>4, DirRow DEF Shape
  <2>2. CASE y # h
    BY <1>4, <2>1, <2>2 DEF Distinct
  <2>3. CASE y = h
    <3>1. Distinct(u, d, h)
      BY <1>4, <1>5, <2>1, <2>3 DEF Distinct
    <3>2. InOrder(u[h].chain, d)
      <4>1. PICK n \in Nat : n = Len(t[h].chain)
        BY <1>2
      <4>2. SUFFICES ASSUME NEW k \in 1..n + 1, NEW l \in 1..n + 1, NEW i \in 1..Slots, NEW j \in 1..Slots,
                            After(k, i, l, j), d[u[h].chain[k]].slots[i].kind = "end"
                     PROVE  d[u[h].chain[l]].slots[j].kind = "end"
        BY <1>4, <4>1 DEF InOrder
      <4>3. CASE l = n + 1
        BY <1>4, <1>5, <4>1, <4>3
      <4>4. CASE l # n + 1
        <5>1. l \in 1..n /\ k \in 1..n
          BY <4>2, <4>4 DEF After
        <5>2. u[h].chain[k] = t[h].chain[k] /\ u[h].chain[l] = t[h].chain[l]
          BY <1>4, <4>1, <5>1
        <5>3. QED
          BY <2>1, <2>3, <4>1, <4>2, <5>1, <5>2 DEF InOrder
      <4>5. QED
        BY <4>3, <4>4
    <3>3. QED
      BY <2>3, <3>1, <3>2
  <2>4. QED
    BY <2>2, <2>3
<1>7. Whole(u, d)
  BY <1>4 DEF Shape, Whole
<1>8. \A y, z \in DOMAIN u : u[y].path = u[z].path => y = z
  BY <1>4 DEF Shape
<1>9. \A y \in DOMAIN u : u[y].path \in FatPaths \union {<<>>}
  BY <1>4 DEF Shape
<1>10. Shape(u, d)
  BY <1>6, <1>7, <1>8, <1>9 DEF Shape
<1>11. QED
  BY <1>10 DEF u

(* An entry that goes leaves the tree in shape, if it is no directory's    *)
(* that has live entries.                                                  *)
LEMMA ShapeRemove ==
  ASSUME NEW f, NEW d, NEW t, NEW cut, Tidy(t, f, d, cut), Shape(t, d),
         NEW h \in Dirs(t), NEW l \in 1..Len(t[h].chain), NEW i \in 1..Slots,
         Live(d[t[h].chain[l]].slots[i]),
         NEW e, e = d[t[h].chain[l]].slots[i],
         e.kind = "dir" => \A b \in Of(t, e.first), j \in 1..Slots : ~Live(d[b].slots[j])
  PROVE  Shape(Without(t, e), WriteSlot(d, t[h].chain[l], i, Deleted))
<1>1. f \in Fats /\ d \in Disks /\ Table(t, f) /\ Listed(t, d)
  BY DEF Tidy
<1>2. PICK c : c = t[h].chain[l]
  OBVIOUS
<1>3. h \in DOMAIN t /\ c \in Of(t, h) /\ c \in InDirs(t) /\ c \in 0..LastCluster
      /\ Len(d[c].slots) = Slots /\ Strung(t[h].chain, h, f)
  <2>1. h \in DOMAIN t /\ c \in Of(t, h) /\ c \in InDirs(t) /\ Strung(t[h].chain, h, f)
    BY <1>1, <1>2, DirRow, RowFacts
  <2>2. QED
    BY <2>1, InDirsFacts
<1>4. PICK d2 : d2 = WriteSlot(d, c, i, Deleted)
  OBVIOUS
<1>5. /\ \A b \in 0..LastCluster : b # c => d2[b] = d[b]
      /\ d2[c].slots[i] = Deleted
      /\ \A j \in 1..Slots : j # i => d2[c].slots[j] = d[c].slots[j]
  BY <1>1, <1>3, <1>4, SlotFacts, WriteSlotIs
<1>6. PICK u : u = Without(t, e)
  OBVIOUS
<1>7. /\ DOMAIN u \subseteq DOMAIN t
      /\ \A y \in DOMAIN u : u[y] = t[y] /\ Of(u, y) = Of(t, y) /\ (y = e.first => y = 0)
      /\ \A y \in DOMAIN t : y # e.first => y \in DOMAIN u
  <2>1. CASE e.first = 0
    <3>1. u = t
      BY <1>6, <2>1 DEF Without
    <3>2. QED
      BY <2>1, <3>1
  <2>2. CASE e.first # 0
    <3>1. RemovedFrom(t, e.first, u)
      BY <1>6, <2>2, RemovedIs DEF Without
    <3>2. QED
      BY <3>1 DEF RemovedFrom
  <2>3. QED
    BY <2>1, <2>2
<1>8. \A y \in Dirs(u) : y \in Dirs(t) /\ y \in DOMAIN u
  BY <1>7 DEF Dirs
<1>9. ASSUME NEW y \in Dirs(t)
      PROVE  /\ y \in DOMAIN t /\ Strung(t[y].chain, y, f)
             /\ \A b \in Of(t, y) : b \in InDirs(t) /\ b \in 0..LastCluster /\ (b = c => y = h)
             /\ \A k \in 1..Len(t[y].chain) : t[y].chain[k] \in Of(t, y)
  <2>1. y \in DOMAIN t /\ Of(t, y) \subseteq InDirs(t) /\ Strung(t[y].chain, y, f)
        /\ \A k \in 1..Len(t[y].chain) : t[y].chain[k] \in Of(t, y)
    BY <1>1, DirRow, RowFacts
  <2>2. \A b \in Of(t, y) : b = c => y = h
    BY <1>1, <1>3, <2>1 DEF Table
  <2>3. \A b \in InDirs(t) : b \in 0..LastCluster
    BY InDirsFacts
  <2>4. QED
    BY <2>1, <2>2, <2>3
<1>10. ASSUME NEW y \in Dirs(t), NEW b \in Of(t, y), NEW j \in 1..Slots
       PROVE  \/ b = c /\ j = i /\ d2[b].slots[j] = Deleted
              \/ ~(b = c /\ j = i) /\ d2[b].slots[j] = d[b].slots[j]
  BY <1>5, <1>9
<1>11. ~Live(Deleted) /\ Deleted.kind # "end"
  BY SlotFacts DEF Live
<1>12. e = d[c].slots[i] /\ Live(e)
  BY <1>2
<1>13. ASSUME NEW y \in Dirs(u)
       PROVE  InOrder(u[y].chain, d2) /\ Distinct(u, d2, y)
  <2>1. /\ y \in Dirs(t) /\ u[y].chain = t[y].chain /\ Of(u, y) = Of(t, y)
        /\ InOrder(t[y].chain, d) /\ Distinct(t, d, y)
    BY <1>7, <1>8 DEF Shape
  <2>2. Distinct(u, d2, y)
    <3> HIDE DEF Live
    <3>1. QED
      BY <1>10, <1>11, <2>1 DEF Distinct
  <2>3. CASE y # h
    <3>1. \A k \in 1..Len(t[y].chain), j \in 1..Slots : d2[t[y].chain[k]].slots[j].kind = d[t[y].chain[k]].slots[j].kind
      BY <1>9, <1>10, <2>1, <2>3
    <3>2. QED
      BY <2>1, <2>2, <3>1, OrderKept
  <2>4. CASE y = h
    <3>1. PICK q : q = t[h].chain
      OBVIOUS
    <3>2. InOrder(q, d) /\ l \in 1..Len(q) /\ q[l] = c /\ d[q[l]].slots[i].kind # "end"
      BY <1>2, <1>12, <2>1, <2>4, <3>1 DEF Live
    <3>3. NoEndBefore(q, d, l, i)
      BY <3>2, LiveBefore
    <3>4. \A k \in 1..Len(q) : q[k] \in Of(t, h) /\ (q[k] = c => k = l)
      BY <1>2, <1>3, <1>9, <3>1 DEF Strung
    <3>5. EntryAdded(q, d, d2, l, i)
      <4>1. ASSUME NEW k \in 1..Len(q), NEW j \in 1..Slots
            PROVE  (k = l /\ j = i) \/ d2[q[k]].slots[j].kind = d[q[k]].slots[j].kind
        BY <1>10, <3>4
      <4>2. d2[q[l]].slots[i].kind # "end"
        BY <1>5, <1>11, <3>2
      <4>3. QED
        BY <4>1, <4>2 DEF EntryAdded
    <3>6. InOrder(q, d2)
      BY <3>2, <3>3, <3>5, OrderWrite
    <3>7. QED
      BY <2>1, <2>2, <2>4, <3>1, <3>6
  <2>5. QED
    BY <2>3, <2>4
<1>14. Whole(u, d2)
  <2>1. SUFFICES ASSUME NEW y \in DOMAIN u, y # Root
                 PROVE  \E b \in InDirs(u), j \in 1..Slots : Live(d2[b].slots[j]) /\ d2[b].slots[j].first = y
    BY DEF Whole
  <2>2. PICK b \in InDirs(t), j \in 1..Slots : Live(d[b].slots[j]) /\ d[b].slots[j].first = y
    BY <1>7, <2>1 DEF Shape, Whole
  <2>3. y # 0 /\ y # e.first
    BY <1>1, <1>7, <2>1, Geometry DEF Table
  <2>4. PICK g \in Dirs(t) : b \in Of(t, g)
    BY InDirsFacts
  <2>5. ~(b = c /\ j = i)
    BY <1>12, <2>2, <2>3
  <2>6. d2[b].slots[j] = d[b].slots[j]
    BY <1>10, <2>4, <2>5
  <2>7. g # e.first
    <3>1. SUFFICES ASSUME g = e.first PROVE FALSE
      OBVIOUS
    <3>2. e.first # 0
      BY <1>1, <1>9, <3>1, Geometry DEF Table
    <3>3. t[g].kind = e.kind
      <4>1. Live(d[c].slots[i]) /\ d[c].slots[i].first # 0
        BY <1>12, <3>2
      <4>2. t[d[c].slots[i].first].kind = d[c].slots[i].kind
        BY <1>3, <4>1, LiveRow
      <4>3. QED
        BY <1>12, <3>1, <4>2
    <3>4. e.kind = "dir"
      BY <3>3 DEF Dirs
    <3>5. QED
      BY <2>2, <2>4, <3>1, <3>4
  <2>8. g \in Dirs(u) /\ b \in Of(u, g)
    BY <1>7, <1>9, <2>4, <2>7 DEF Dirs
  <2>9. QED
    BY <2>2, <2>6, <2>8 DEF InDirs
<1>15. /\ \A y, z \in DOMAIN u : u[y].path = u[z].path => y = z
       /\ \A y \in DOMAIN u : u[y].path \in FatPaths \union {<<>>}
  BY <1>7 DEF Shape
<1>16. Shape(u, d2)
  BY <1>13, <1>14, <1>15 DEF Shape
<1>17. QED
  BY <1>2, <1>4, <1>6, <1>16

(* A new directory gets its dots.                                          *)
LEMMA ShapeDots ==
  ASSUME NEW f, NEW d, NEW t, NEW cut, Tidy(t, f, d, cut), Shape(t, d),
         NEW h \in Dirs(t), t[h].chain = <<h>>, d[h] = Zeros,
         NEW d2, \A b \in 0..LastCluster : b # h => d2[b] = d[b],
         \A i \in 1..Slots : ~Live(d2[h].slots[i]) /\ (i > 2 <=> d2[h].slots[i].kind = "end")
  PROVE  Shape(t, d2)
<1>1. ASSUME NEW y \in Dirs(t)
      PROVE  /\ y \in DOMAIN t /\ y \in Of(t, y)
             /\ \A b \in Of(t, y) : b \in InDirs(t) /\ b \in 0..LastCluster /\ (b = h => y = h)
             /\ \A k \in 1..Len(t[y].chain) : t[y].chain[k] \in Of(t, y)
  <2>1. y \in DOMAIN t /\ Of(t, y) \subseteq InDirs(t) /\ y \in Of(t, y) /\ h \in DOMAIN t /\ h \in Of(t, h)
        /\ \A k \in 1..Len(t[y].chain) : t[y].chain[k] \in Of(t, y)
    BY DirRow, RowFacts DEF Tidy
  <2>2. \A b \in Of(t, y) : b = h => y = h
    BY <2>1 DEF Table, Tidy
  <2>3. \A b \in InDirs(t) : b \in 0..LastCluster
    BY InDirsFacts
  <2>4. QED
    BY <2>1, <2>2, <2>3
<1>2. \A k \in 1..Len(<<h>>) : <<h>>[k] = h /\ k = 1
  OBVIOUS
<1>3. Of(t, h) = {h}
  BY <1>2 DEF Of
<1>4. \A i \in 1..Slots : ~Live(d[h].slots[i])
  BY ZerosIs
<1>5. ASSUME NEW y \in Dirs(t)
      PROVE  InOrder(t[y].chain, d2) /\ Distinct(t, d2, y)
  <2>1. CASE y = h
    <3>1. Distinct(t, d2, h)
      BY <1>3 DEF Distinct
    <3>2. InOrder(<<h>>, d2)
      <4>1. SUFFICES ASSUME NEW k \in 1..Len(<<h>>), NEW l \in 1..Len(<<h>>), NEW i \in 1..Slots, NEW j \in 1..Slots,
                            After(k, i, l, j), d2[<<h>>[k]].slots[i].kind = "end"
                     PROVE  d2[<<h>>[l]].slots[j].kind = "end"
        BY DEF InOrder
      <4>2. <<h>>[k] = h /\ <<h>>[l] = h /\ k = 1 /\ l = 1
        BY <1>2
      <4>3. i < j /\ i > 2
        BY <4>1, <4>2 DEF After
      <4>4. j > 2
        BY <4>3, Geometry
      <4>5. QED
        BY <4>2, <4>4
    <3>3. QED
      BY <2>1, <3>1, <3>2
  <2>2. CASE y # h
    <3>1. InOrder(t[y].chain, d) /\ Distinct(t, d, y)
      BY DEF Shape
    <3>2. \A b \in Of(t, y) : d2[b] = d[b]
      BY <1>1, <2>2
    <3>3. Distinct(t, d2, y)
      BY <3>1, <3>2 DEF Distinct
    <3>4. \A k \in 1..Len(t[y].chain), i \in 1..Slots : d2[t[y].chain[k]].slots[i].kind = d[t[y].chain[k]].slots[i].kind
      BY <1>1, <3>2
    <3>5. QED
      BY <3>1, <3>3, <3>4, OrderKept
  <2>3. QED
    BY <2>1, <2>2
<1>6. Whole(t, d2)
  <2>1. SUFFICES ASSUME NEW y \in DOMAIN t, y # Root
                 PROVE  \E b \in InDirs(t), j \in 1..Slots : Live(d2[b].slots[j]) /\ d2[b].slots[j].first = y
    BY DEF Whole
  <2>2. PICK b \in InDirs(t), j \in 1..Slots : Live(d[b].slots[j]) /\ d[b].slots[j].first = y
    BY <2>1 DEF Shape, Whole
  <2>3. b # h /\ b \in 0..LastCluster
    BY <1>4, <2>2, InDirsFacts
  <2>4. QED
    BY <2>2, <2>3
<1>7. QED
  BY <1>5, <1>6 DEF Shape

(* The shape of a disk that has just been formatted, or to whose root the  *)
(* host has copied files of different names.                               *)
LEMMA ShapeFresh ==
  ASSUME NEW d, NEW n \in Nat,
         \A i \in 1..Slots : IF i <= n THEN d[Root].slots[i].kind = "file" ELSE d[Root].slots[i].kind = "end",
         \A i, j \in 1..Slots : i <= n /\ j <= n /\ d[Root].slots[i].name = d[Root].slots[j].name => i = j
  PROVE  Shape(Fresh, d)
<1>1. PICK t : t = Fresh
  OBVIOUS
<1>2. DOMAIN t = {Root} /\ t[Root].kind = "dir" /\ t[Root].path = <<>> /\ t[Root].chain = <<Root>>
  BY <1>1 DEF Fresh, Row
<1>3. \A k \in 1..Len(<<Root>>) : <<Root>>[k] = Root /\ k = 1
  OBVIOUS
<1>4. Of(t, Root) = {Root}
  BY <1>2, <1>3 DEF Of
<1>5. Distinct(t, d, Root)
  <2>1. SUFFICES ASSUME NEW i \in 1..Slots, NEW j \in 1..Slots, Live(d[Root].slots[i]), Live(d[Root].slots[j]),
                        d[Root].slots[i].name = d[Root].slots[j].name
                 PROVE  i = j
    BY <1>4 DEF Distinct
  <2>2. i <= n /\ j <= n
    BY <2>1 DEF Live
  <2>3. QED
    BY <2>1, <2>2
<1>6. InOrder(<<Root>>, d)
  <2>1. SUFFICES ASSUME NEW k \in 1..Len(<<Root>>), NEW l \in 1..Len(<<Root>>), NEW i \in 1..Slots, NEW j \in 1..Slots,
                        After(k, i, l, j), d[<<Root>>[k]].slots[i].kind = "end"
                 PROVE  d[<<Root>>[l]].slots[j].kind = "end"
    BY DEF InOrder
  <2>2. <<Root>>[k] = Root /\ <<Root>>[l] = Root /\ k = 1 /\ l = 1
    BY <1>3
  <2>3. i < j /\ ~(i <= n)
    BY <2>1, <2>2 DEF After
  <2>4. ~(j <= n)
    BY <2>3, Geometry
  <2>5. QED
    BY <2>2, <2>4
<1>7. Whole(t, d)
  BY <1>2 DEF Whole
<1>8. Dirs(t) = {Root}
  BY <1>2 DEF Dirs
<1>9. Shape(t, d)
  BY <1>2, <1>5, <1>6, <1>7, <1>8 DEF Shape
<1>10. QED
  BY <1>1, <1>9

(* The order of the numbers is that of the places.                         *)
LEMMA NumbersBack ==
  ASSUME NEW k \in Nat \ {0}, NEW l \in Nat \ {0}, NEW i \in 1..Slots, NEW j \in 1..Slots,
         Slots * (k - 1) + i <= Slots * (l - 1) + j
  PROVE  After(k, i, l, j) \/ (k = l /\ i = j)
<1>1. PICK a, b : a = Slots * (k - 1) + i /\ b = Slots * (l - 1) + j
  OBVIOUS
<1>2. a \in Nat /\ b \in Nat /\ a <= b
  <2>1. k - 1 \in Nat /\ l - 1 \in Nat /\ Slots \in Nat
    BY Geometry
  <2>2. Slots * (k - 1) \in Nat /\ Slots * (l - 1) \in Nat
    BY <2>1
  <2>3. QED
    BY <1>1, <2>2
<1>3. After(l, j, k, i) => b < a
  BY <1>1, Numbers
<1>4. ~After(l, j, k, i)
  BY <1>2, <1>3
<1>5. QED
  BY <1>4, Geometry DEF After

(* In a directory in order, a search finds every live entry.               *)
LEMMA LiveFound ==
  ASSUME NEW f, NEW d, NEW t, NEW cut, Tidy(t, f, d, cut), Shape(t, d),
         NEW h \in Dirs(t), NEW c \in Of(t, h), NEW i \in 1..Slots, Live(d[c].slots[i]),
         d[c].slots[i].name \in Names
  PROVE  /\ EntryInAt(f, d, h, d[c].slots[i].name) = d[c].slots[i]
         /\ PlaceAt(f, h, FindAt(DirectoryAt(f, d, h), d[c].slots[i].name)) = <<c, i>>
<1>1. f \in Fats /\ d \in Disks /\ Table(t, f) /\ Listed(t, d)
  BY DEF Tidy
<1>2. PICK name \in Names : name = d[c].slots[i].name
  OBVIOUS
<1>3. PICK q : q = t[h].chain
  OBVIOUS
<1>4. /\ Strung(q, h, f) /\ (\A k \in 1..Len(q) : q[k] \in Of(t, h)) /\ Len(q) \in Nat
      /\ h \in 0..LastCluster /\ h # 0
  BY <1>1, <1>3, DirRow, RowFacts
<1>5. \A k \in 1..Len(q) : Len(d[q[k]].slots) = Slots
  BY <1>1, <1>4 DEF Listed
<1>6. PICK k \in 1..Len(q) : c = q[k]
  BY <1>3 DEF Of
<1> DEFINE D == DirectoryAt(f, d, h)
<1>7. D = DirectoryAt(f, d, h)
  OBVIOUS
<1>8. /\ D \in Seq(Slot) /\ Len(D) = Slots * Len(q)
      /\ \A m \in 1..Len(D) :
              \E l \in 1..Len(q), j \in 1..Slots :
                /\ m = Slots * (l - 1) + j
                /\ PlaceAt(f, h, m) = <<q[l], j>>
                /\ D[m] = d[q[l]].slots[j]
      /\ \A l \in 1..Len(q), j \in 1..Slots :
              /\ Slots * (l - 1) + j \in 1..Slots * Len(q)
              /\ PlaceAt(f, h, Slots * (l - 1) + j) = <<q[l], j>>
              /\ D[Slots * (l - 1) + j] = d[q[l]].slots[j]
  <2>1. Strung(q, h, f) /\ \A m \in 1..Len(q) : Len(d[q[m]].slots) = Slots
    BY <1>4, <1>5
  <2>2. QED
    BY <1>1, <2>1, DirTidy
<1> HIDE DEF D
<1>9. PICK m : m = Slots * (k - 1) + i
  OBVIOUS
<1>10. m \in 1..Len(D) /\ D[m] = d[c].slots[i] /\ Live(D[m]) /\ D[m].name = name
  <2>1. m \in 1..Len(D) /\ D[m] = d[q[k]].slots[i]
    BY <1>8, <1>9
  <2>2. QED
    BY <1>2, <1>6, <2>1
<1>11. PICK n : n = FindAt(D, name)
  OBVIOUS
<1>12. n \in Nat /\ IsFind(D, name, n)
  BY <1>8, <1>11, FindIs
<1>13. InOrder(q, d) /\ Distinct(t, d, h)
  BY <1>3 DEF Shape
<1>14. n # 0
  <2>1. SUFFICES ASSUME n = 0 PROVE FALSE
    OBVIOUS
  <2>2. PICK x \in 1..m : D[x].kind = "end"
    BY <1>10, <1>12, <2>1 DEF IsFind, Hit, Live
  <2>3. x \in 1..Len(D) /\ x <= m
    BY <1>8, <1>10
  <2>4. PICK l \in 1..Len(q), j \in 1..Slots : x = Slots * (l - 1) + j /\ D[x] = d[q[l]].slots[j]
    BY <1>8, <2>3
  <2>5. l \in Nat \ {0} /\ k \in Nat \ {0}
    BY <1>4
  <2>6. After(l, j, k, i) \/ (l = k /\ j = i)
    BY <1>9, <2>3, <2>4, <2>5, NumbersBack
  <2>7. D[m].kind = "end"
    BY <1>6, <1>10, <1>13, <2>2, <2>4, <2>6 DEF InOrder
  <2>8. QED
    BY <1>10, <2>7 DEF Live
<1>15. n \in 1..Len(D) /\ D[n].kind # "end" /\ Hit(D[n], name)
  BY <1>12, <1>14 DEF IsFind
<1>16. PICK l \in 1..Len(q), j \in 1..Slots : PlaceAt(f, h, n) = <<q[l], j>> /\ D[n] = d[q[l]].slots[j]
  BY <1>8, <1>15
<1>17. Live(D[n]) /\ D[n].name = name
  <2>1. D[n].kind # "deleted" /\ D[n].name = name
    BY <1>15 DEF Hit
  <2>2. D[n].kind # "dot"
    <3>1. Proper(t, t[h].path, d[q[l]].slots[j])
      BY <1>1, <1>4 DEF Listed
    <3>2. QED
      BY <1>16, <2>1, <3>1 DEF Proper
  <2>3. D[n] \in Slot
    BY <1>8, <1>15
  <2>4. QED
    BY <1>15, <2>1, <2>2, <2>3, SlotFacts DEF Live
<1>18. q[l] = c /\ j = i
  <2> HIDE DEF Live
  <2>1. QED
    <3>1. PICK b \in Of(t, h) : b = q[l]
      BY <1>4
    <3>2. /\ Live(d[b].slots[j]) /\ Live(d[c].slots[i])
          /\ d[b].slots[j].name = d[c].slots[i].name
      BY <1>10, <1>16, <1>17, <3>1
    <3>3. b = c /\ j = i
      BY <1>13, <3>2 DEF Distinct
    <3>4. QED
      BY <3>1, <3>3
<1>19. PlaceAt(f, h, FindAt(DirectoryAt(f, d, h), name)) = <<c, i>>
  BY <1>7, <1>11, <1>16, <1>18
<1>20. EntryInAt(f, d, h, name) = d[c].slots[i]
  <2>1. FindAt(DirectoryAt(f, d, h), name) # 0 /\ DirectoryAt(f, d, h)[FindAt(DirectoryAt(f, d, h), name)] = d[c].slots[i]
    BY <1>7, <1>11, <1>14, <1>16, <1>18
  <2>2. QED
    BY <1>1, <1>4, <2>1, EntryInIs
<1>21. QED
  BY <1>2, <1>19, <1>20

(* A path that is not found has a new name in its directory.               *)
LEMMA NotFoundNew ==
  ASSUME NEW f, NEW d, NEW t, NEW cut, Tidy(t, f, d, cut), Shape(t, d),
         NEW p \in FatPaths, ResolveAt(f, d, p) # 0, EntryAt(f, d, p).kind = "end",
         NEW h \in Dirs(t), t[h].path = Front(p)
  PROVE  NewName(t, d, h, Last(p))
<1>1. f \in Fats /\ d \in Disks /\ Table(t, f) /\ Listed(t, d)
  BY DEF Tidy
<1>2. ResolveAt(f, d, p) \in Dirs(t) /\ t[ResolveAt(f, d, p)].path = Front(p)
  BY <1>1, ResolveTidy
<1>3. ResolveAt(f, d, p) \in DOMAIN t /\ h \in DOMAIN t
  BY <1>1, <1>2, DirRow
<1>4. h = ResolveAt(f, d, p)
  BY <1>2, <1>3 DEF Shape
<1>5. Last(p) \in Names
  BY PathFacts
<1>6. SUFFICES ASSUME NEW c \in Of(t, h), NEW i \in 1..Slots, Live(d[c].slots[i]), d[c].slots[i].name = Last(p)
               PROVE  FALSE
  BY DEF NewName
<1>7. EntryInAt(f, d, h, d[c].slots[i].name) = d[c].slots[i]
  BY <1>5, <1>6, LiveFound
<1>8. EntryAt(f, d, p) = d[c].slots[i]
  BY <1>4, <1>6, <1>7 DEF EntryAt
<1>9. QED
  BY <1>6, <1>8 DEF Live

(* Facts that the steps below start from.                                  *)
LEMMA FullFacts ==
  ASSUME NEW t, Full(t)
  PROVE  Shape(t, data) /\ JobShape(t, data, job) /\ Kept(t, fat, job, failed)
BY DEF Full

(* An operation that writes a file has a cluster of its own only while it  *)
(* gets one, and an idle one has none.                                     *)
LEMMA NoneUnderway ==
  /\ \A f, j, c : Writing(j) /\ j.stage \in {"data", "extend", "size"} => ~Underway(f, j, c)
  /\ \A f, c : ~Underway(f, Idle, c)
  /\ \A j : Writing(j) => ~Making(j)
  /\ ~Making(Idle)
BY DEF Underway, Writing, Making, Idle

(* A step that marks nothing and makes nothing.                            *)
LEMMA QuietFull ==
  ASSUME NEW t, Full(t), Shape(t, data'), fat' = fat, ~Making(job'),
         failed' \/ (failed' = failed /\ \A c : ~Underway(fat, job, c))
  PROVE  Full(t)'
<1>1. JobShape(t, data', job')
  BY DEF JobShape
<1>2. Kept(t, fat', job', failed')
  BY FullFacts DEF Kept
<1>3. QED
  BY <1>1, <1>2 DEF Full

(* AllocateCluster() keeps account of the clusters that are marked.        *)
LEMMA ClaimKept ==
  ASSUME Typed, NEW t, Now(t), Full(t), HasFree, fat' = [fat EXCEPT ![FirstFree] = Eoc],
         failed' = failed, job'.stage = "zero", job'.fresh = FirstFree,
         \A c \in Cluster : Underway(fat, job, c) => Underway(fat', job', c)
  PROVE  Kept(t, fat', job', failed')
<1>1. fat \in Fats
  BY NowFacts
<1>2. ASSUME ~failed', NEW c \in Cluster, fat'[c] # Free
      PROVE  c \in Taken(t) \/ Underway(fat', job', c)
  <2>1. CASE c = FirstFree
    BY <2>1 DEF Underway
  <2>2. CASE c # FirstFree
    <3>1. fat'[c] = fat[c]
      BY <1>1, <2>2, Geometry DEF Fats
    <3>2. c \in Taken(t) \/ Underway(fat, job, c)
      BY <1>2, <3>1, FullFacts DEF Kept
    <3>3. QED
      BY <3>2
  <2>3. QED
    BY <2>1, <2>2
<1>3. QED
  BY <1>2 DEF Kept

(* What changes no directory leaves the tree in shape.                     *)
LEMMA ShapeSame ==
  ASSUME NEW f, NEW d, NEW t, NEW cut, Tidy(t, f, d, cut), Shape(t, d), NEW d2,
         \A c \in InDirs(t) : d2[c] = d[c]
  PROVE  Shape(t, d2)
BY ShapeKept DEF SameEntry

(* Nothing changes but the open file.                                      *)
LEMMA StillFull ==
  ASSUME NEW t, Full(t), UNCHANGED <<fat, data, job, failed>>
  PROVE  Full(t)'
BY DEF Full

(* CreateFile() and MakeDirectory() take a cluster for a name that is new. *)
LEMMA CreateFull ==
  ASSUME Typed, NEW t, Now(t), Full(t), NEW op \in {"file", "dir"}, NEW path \in Paths, Create(op, path)
  PROVE  Full(t)'
<1>1. PICK p \in FatPaths : p = FatPath(path)
  BY FatPathIs
<1>2. /\ job = Idle /\ ResolvePath(p) # 0 /\ ~Found(p) /\ HasFree
      /\ fat' = [fat EXCEPT ![FirstFree] = Eoc]
      /\ UNCHANGED <<data, failed>>
      /\ job' = [[Idle EXCEPT !.op = op, !.path = p, !.first = FirstFree]
                   EXCEPT !.fresh = FirstFree, !.stage = "zero", !.then = "place"]
  BY <1>1 DEF Create, Claim
<1>3. /\ fat \in Fats /\ data \in Disks /\ Tidy(t, fat, data, failed) /\ Shape(t, data)
  BY NowFacts, FullFacts
<1>4. job'.stage = "zero" /\ job'.fresh = FirstFree /\ job'.path = p /\ job'.first = FirstFree
  BY <1>2 DEF Idle
<1>5. Kept(t, fat', job', failed')
  BY <1>2, <1>4, ClaimKept, NoneUnderway
<1>6. ResolveAt(fat, data, p) # 0 /\ EntryAt(fat, data, p).kind = "end"
  BY <1>2, <1>3, OfState, EntryOfIs DEF Found
<1>7. ASSUME NEW h \in Dirs(t), t[h].path = Front(p)
      PROVE  NewName(t, data, h, Last(p))
  BY <1>3, <1>6, <1>7, NotFoundNew
<1>8. JobShape(t, data', job')
  BY <1>2, <1>4, <1>7 DEF JobShape
<1>9. QED
  BY <1>2, <1>3, <1>5, <1>8 DEF Full

(* Clearing the new cluster.                                               *)
LEMMA ZeroFull ==
  ASSUME Typed, NEW t, Now(t), Full(t), Zero
  PROVE  Full(t)'
<1>1. /\ job.stage = "zero" /\ data' = [data EXCEPT ![job.fresh] = Zeros]
      /\ job' = [job EXCEPT !.stage = job.then] /\ UNCHANGED <<fat, file, failed>>
  BY DEF Zero
<1>2. /\ job \in Jobs /\ Tidy(t, fat, data, failed) /\ JobOK(t, fat, data, job, failed)
      /\ fat \in Fats /\ data \in Disks /\ Table(t, fat)
      /\ Shape(t, data) /\ JobShape(t, data, job) /\ Kept(t, fat, job, failed)
  BY NowFacts, FullFacts
<1>3. PICK a : a = job.fresh
  OBVIOUS
<1>4. a \notin Taken(t)
  BY <1>1, <1>2, <1>3 DEF JobOK, Loose
<1>5. \A c \in Taken(t) : data'[c] = data[c]
  <2>1. \A c \in Taken(t) : c \in 0..LastCluster /\ c # a
    BY <1>2, <1>4, TakenMarked, Geometry
  <2>2. QED
    BY <1>1, <1>2, <1>3, <2>1 DEF Disks
<1>6. \A h \in Dirs(t) : \A c \in Of(t, h) : c \in InDirs(t) /\ c \in Taken(t)
  BY DEF InDirs, Taken, Dirs
<1>7. Shape(t, data')
  BY <1>2, <1>5, <1>6, ShapeSame DEF InDirs
<1>8. /\ job'.stage = job.then /\ job'.fresh = job.fresh /\ job'.op = job.op /\ job'.path = job.path
      /\ job'.first = job.first
  BY <1>1, <1>2 DEF Jobs
<1>9. \/ job.then = "place" /\ job.first = job.fresh
      \/ job.then = "link" /\ LinksDir(t, fat, data, job)
      \/ job.then = "link" /\ Writing(job)
      \/ job.then = "first" /\ Writing(job)
  BY <1>1, <1>2 DEF JobOK, Extends, GetsFirst
<1>10. JobShape(t, data', job')
  <2>1. SUFFICES ASSUME Making(job'), NEW h \in Dirs(t), t[h].path = Front(job.path)
                 PROVE  /\ NewName(t, data', h, Last(job.path))
                        /\ job'.stage = "link" => \A c \in Of(t, h) : Endless(data', c)
                        /\ job'.stage \in {"place", "link"}
    BY <1>8 DEF JobShape
  <2>2. Making(job) /\ ~Writing(job)
    BY <1>8, <2>1 DEF Making, Writing
  <2>3. job'.stage = "link" => job.first # job.fresh
    BY <1>8, <1>9, <2>2 DEF LinksDir
  <2>4. /\ NewName(t, data, h, Last(job.path))
        /\ job'.stage = "link" => \A c \in Of(t, h) : Endless(data, c)
    BY <1>1, <1>2, <2>1, <2>2, <2>3 DEF JobShape
  <2>5. NewName(t, data', h, Last(job.path))
    BY <1>5, <1>6, <2>4 DEF NewName
  <2>6. job'.stage = "link" => \A c \in Of(t, h) : Endless(data', c)
    BY <1>5, <1>6, <2>4 DEF Endless
  <2>7. QED
    BY <1>8, <1>9, <2>2, <2>5, <2>6
<1>11. ASSUME NEW c \in Cluster, Underway(fat, job, c) PROVE Underway(fat, job', c)
  <2>1. c = job.fresh \/ (Making(job) /\ c = job.first)
    BY <1>1, <1>11 DEF Underway
  <2>2. Making(job') <=> Making(job)
    BY <1>8 DEF Making
  <2>3. Making(job) => ~Writing(job)
    BY DEF Making, Writing
  <2>4. CASE job.then = "place"
    <3>1. Making(job)
      BY <1>1, <1>2, <2>4 DEF JobOK, Places
    <3>2. QED
      BY <1>8, <1>9, <2>1, <2>2, <2>4, <3>1 DEF Underway
  <2>5. CASE job.then \in {"link", "first"}
    BY <1>8, <1>9, <2>1, <2>2, <2>3, <2>5 DEF Underway
  <2>6. QED
    BY <1>9, <2>4, <2>5
<1>12. Kept(t, fat', job', failed')
  BY <1>1, <1>2, <1>11 DEF Kept
<1>13. QED
  BY <1>7, <1>10, <1>12 DEF Full

(* The directory that grows had no free entry.                             *)
LEMMA GrowDirectoryFull ==
  ASSUME Typed, NEW t, Now(t), Full(t), GrowDirectory
  PROVE  Full(t)'
<1> DEFINE dir == ResolvePath(job.path)
<1>1. /\ job.stage = "place" /\ HasFree /\ FindFreeEntryInCluster(dir) = 0
      /\ fat' = [fat EXCEPT ![FirstFree] = Eoc]
      /\ job' = [[job EXCEPT !.at = Last(Chain(dir))] EXCEPT !.fresh = FirstFree, !.stage = "zero", !.then = "link"]
      /\ UNCHANGED <<data, file, failed>>
  BY DEF GrowDirectory, Claim
<1>2. /\ job \in Jobs /\ Tidy(t, fat, data, failed)
      /\ Places(t, fat, data, job)
      /\ fat \in Fats /\ data \in Disks /\ Table(t, fat) /\ Listed(t, data)
      /\ Shape(t, data) /\ JobShape(t, data, job) /\ Kept(t, fat, job, failed)
  BY <1>1, NowFacts, FullFacts DEF JobOK
<1>3. /\ job'.stage = "zero" /\ job'.fresh = FirstFree
      /\ job'.op = job.op /\ job'.path = job.path /\ job'.first = job.first
  BY <1>1, <1>2 DEF Jobs
<1>4. PICK r : r = dir
  OBVIOUS
<1>5. r = ResolveAt(fat, data, job.path) /\ FreeAt(DirectoryAt(fat, data, r)) = 0
  BY <1>1, <1>4, OfState, FreeAtIs
<1>6. r \in Dirs(t) /\ t[r].path = Front(job.path) /\ Making(job)
  BY <1>2, <1>5, ResolveTidy DEF Places, Making
<1>7. \A c \in Of(t, r) : Endless(data, c)
  BY <1>2, <1>5, <1>6, FreeBefore
<1>8. JobShape(t, data', job')
  <2>1. SUFFICES ASSUME NEW h \in Dirs(t), t[h].path = Front(job.path)
                 PROVE  NewName(t, data, h, Last(job.path)) /\ \A c \in Of(t, h) : Endless(data, c)
    BY <1>1, <1>3 DEF JobShape
  <2>2. NewName(t, data, h, Last(job.path))
    BY <1>1, <1>2, <1>6, <2>1 DEF JobShape
  <2>3. h = r
    BY <1>2, <1>6, <2>1, DirRow DEF Shape
  <2>4. QED
    BY <1>7, <2>2, <2>3
<1>9. \A c \in Cluster : Underway(fat, job, c) => Underway(fat', job', c)
  BY <1>1, <1>3 DEF Underway, Making
<1>10. Kept(t, fat', job', failed')
  BY <1>1, <1>3, <1>9, ClaimKept
<1>11. QED
  BY <1>1, <1>2, <1>8, <1>10 DEF Full

(* A directory that is being made is entered under a new name.             *)
LEMMA EntryWrittenFull ==
  ASSUME Typed, NEW t, Now(t), Full(t), NEW h \in Dirs(t), NEW l \in 1..Len(t[h].chain), NEW i \in 1..Slots,
         Making(job), t[h].path = Front(job.path), Blank(t, fat, data, job.first),
         NewName(t, data, h, Last(job.path)), NoEndBefore(t[h].chain, data, l, i),
         ~Live(data[t[h].chain[l]].slots[i]), job.stage \in {"place", "entry"},
         EntryWritten(<<t[h].chain[l], i>>),
         NEW u, u = Added(t, job.first, Row(job.op, job.path, <<job.first>>))
  PROVE  Full(u)'
<1>1. /\ job \in Jobs /\ Tidy(t, fat, data, failed)
      /\ fat \in Fats /\ data \in Disks /\ Table(t, fat)
      /\ Shape(t, data) /\ Kept(t, fat, job, failed)
  BY NowFacts, FullFacts
<1>2. PICK p \in FatPaths, k \in {"file", "dir"}, b \in 0..LastCluster :
        p = job.path /\ k = job.op /\ b = job.first
  BY <1>1 DEF Making, Jobs
<1>3. PICK x : x = Entry(k, Last(p), b)
  OBVIOUS
<1>4. x \in Slot /\ Live(x) /\ x.name = Last(p) /\ x.first = b /\ x.kind = k
  BY <1>3, PathFacts DEF Entry, Slot, Live
<1>5. PICK c : c = t[h].chain[l]
  OBVIOUS
<1>6. /\ data' = WriteSlot(data, c, i, x) /\ UNCHANGED <<fat, failed>>
      /\ job' = IF k = "dir" THEN [job EXCEPT !.stage = "dots"] ELSE Idle
  BY <1>2, <1>3, <1>5 DEF EntryWritten, WriteEntry, WriteSlot
<1>7. p = Append(t[h].path, x.name)
  BY <1>2, <1>4, PathFacts
<1>8. Vacant(t, data, h, c, i, x.name)
  BY <1>2, <1>4, <1>5 DEF Vacant, NewName
<1>9. Blank(t, fat, data, b) /\ b \notin DOMAIN t
  <2>1. Blank(t, fat, data, b)
    BY <1>2
  <2>2. \A g \in DOMAIN t : g \in Taken(t)
    BY <1>1, RowFacts DEF Taken
  <2>3. QED
    BY <2>1, <2>2 DEF Blank, Loose
<1>10. Blank(t, fat, data, x.first)
  <2>1. PICK a : a = x.first
    OBVIOUS
  <2>2. a = b
    BY <1>4, <2>1
  <2>3. Blank(t, fat, data, a)
    BY <1>9, <2>2
  <2>4. QED
    BY <2>1, <2>3
<1> HIDE DEF WriteSlot, Added, Row, Idle
<1>11. Shape(Added(t, x.first, Row(x.kind, p, <<x.first>>)), WriteSlot(data, t[h].chain[l], i, x))
  <2>1. Vacant(t, data, h, t[h].chain[l], i, x.name)
    BY <1>5, <1>8
  <2>2. QED
    BY <1>1, <1>4, <1>7, <1>10, <2>1, ShapeAdd
<1>12. Shape(u, data')
  BY <1>2, <1>4, <1>5, <1>6, <1>11
<1>13. AddedTo(t, b, k, p, u)
  BY <1>2, <1>9, AddedIs
<1>14. Kept(u, fat', job', failed')
  <2>1. SUFFICES ASSUME ~failed, NEW a \in Cluster, fat[a] # Free
                 PROVE  a \in Taken(u)
    BY <1>6 DEF Kept
  <2>2. a \in Taken(t) \/ Underway(fat, job, a)
    BY <1>1, <2>1 DEF Kept
  <2>3. Underway(fat, job, a) => a = b
    BY <1>2 DEF Underway
  <2>4. Taken(u) = Taken(t) \union {b}
    BY <1>13 DEF AddedTo
  <2>5. QED
    BY <2>2, <2>3, <2>4
<1>15. JobShape(u, data', job')
  <2>1. CASE k = "dir"
    <3>1. job'.stage = "dots"
      BY <1>1, <1>6, <2>1 DEF Jobs
    <3>2. QED
      BY <3>1 DEF JobShape
  <2>2. CASE k # "dir"
    <3>1. ~Making(job')
      BY <1>6, <2>2, NoneUnderway
    <3>2. QED
      BY <3>1 DEF JobShape
  <2>3. QED
    BY <2>1, <2>2
<1>16. QED
  BY <1>12, <1>14, <1>15 DEF Full

(* The first free entry of the directory takes the new name.               *)
LEMMA PlaceEntrySlot ==
  ASSUME Typed, NEW t, Now(t), Full(t), PlaceEntry
  PROVE  \E h \in Dirs(t) : \E l \in 1..Len(t[h].chain), i \in 1..Slots : Entering(t, h, l, i)
<1> DEFINE dir == ResolvePath(job.path)
           n == FindFreeEntryInCluster(dir)
<1>1. job.stage = "place" /\ n # 0 /\ EntryWritten(Place(dir, n))
  BY DEF PlaceEntry
<1>2. /\ Places(t, fat, data, job) /\ Blank(t, fat, data, job.first) /\ Making(job)
      /\ fat \in Fats /\ data \in Disks /\ Table(t, fat) /\ Listed(t, data)
      /\ JobShape(t, data, job)
  BY <1>1, NowFacts, FullFacts DEF JobOK, Places
<1>3. PICK h : h = dir
  OBVIOUS
<1>4. h \in Dirs(t) /\ t[h].path = Front(job.path)
  <2>1. h = ResolveAt(fat, data, job.path) /\ h # 0 /\ job.path \in FatPaths
    BY <1>2, <1>3, OfState DEF Places, Making
  <2>2. QED
    BY <1>2, <2>1, ResolveTidy
<1>5. n = FreeAt(DirectoryAt(fat, data, h))
  BY <1>3, FreeAtIs
<1>6. Place(dir, n) = PlaceAt(fat, h, FreeAt(DirectoryAt(fat, data, h)))
  BY <1>3, <1>5, OfState
<1> HIDE DEF n, dir
<1>7. PICK l \in 1..Len(t[h].chain), j \in 1..Slots :
        /\ PlaceAt(fat, h, FreeAt(DirectoryAt(fat, data, h))) = <<t[h].chain[l], j>>
        /\ NoEndBefore(t[h].chain, data, l, j)
        /\ data[t[h].chain[l]].slots[j].kind \in {"end", "deleted"}
  BY <1>1, <1>2, <1>4, <1>5, FreeBefore
<1>8. EntryWritten(<<t[h].chain[l], j>>)
  BY <1>1, <1>6, <1>7
<1>9. ~Live(data[t[h].chain[l]].slots[j])
  BY <1>7 DEF Live
<1>10. NewName(t, data, h, Last(job.path))
  BY <1>1, <1>2, <1>4 DEF JobShape
<1>11. QED
  BY <1>1, <1>2, <1>4, <1>7, <1>8, <1>9, <1>10 DEF Entering

(* So does the first entry of the cluster that the directory grew by.      *)
LEMMA PlaceInGrownSlot ==
  ASSUME Typed, NEW t, Now(t), Full(t), PlaceInGrown
  PROVE  \E h \in Dirs(t) : \E l \in 1..Len(t[h].chain), i \in 1..Slots : Entering(t, h, l, i)
<1>1. job.stage = "entry" /\ EntryWritten(<<job.fresh, 1>>)
  BY DEF PlaceInGrown
<1>2. /\ Enters(t, fat, data, job) /\ JobShape(t, data, job)
      /\ fat \in Fats /\ data \in Disks /\ Table(t, fat) /\ Listed(t, data)
  BY <1>1, NowFacts, FullFacts DEF JobOK
<1>3. PICK h \in Dirs(t) : t[h].path = Front(job.path)
  BY <1>2 DEF Enters
<1>4. PICK q : q = t[h].chain
  OBVIOUS
<1>5. Strung(q, h, fat) /\ (\A k \in 1..Len(q) : q[k] \in Of(t, h)) /\ Len(q) \in Nat \ {0} /\ Last(q) = q[Len(q)]
  BY <1>2, <1>4, DirRow, RowFacts
<1>6. PICK l \in 1..Len(q) : l = Len(q)
  BY <1>5
<1>7. /\ NewName(t, data, h, Last(job.path)) /\ job.fresh = q[l]
      /\ \A c \in Of(t, h) : c # q[l] => Endless(data, c)
  BY <1>1, <1>2, <1>3, <1>4, <1>5, <1>6 DEF JobShape, Enters
<1>8. 1 \in 1..Slots /\ EntryWritten(<<q[l], 1>>)
  BY <1>1, <1>7, Geometry
<1>9. NoEndBefore(q, data, l, 1)
  <2>1. SUFFICES ASSUME NEW k \in 1..Len(q), NEW i \in 1..Slots, After(k, i, l, 1)
                 PROVE  data[q[k]].slots[i].kind # "end"
    BY DEF NoEndBefore
  <2>2. k # l
    BY <2>1, Geometry DEF After
  <2>3. q[k] \in Of(t, h) /\ q[k] # q[l]
    BY <1>5, <2>2 DEF Strung
  <2>4. QED
    BY <1>7, <2>3 DEF Endless
<1>10. ~Live(data[q[l]].slots[1])
  <2>1. data[q[l]] = Zeros
    BY <1>2, <1>7 DEF Enters
  <2>2. QED
    BY <1>8, <2>1, ZerosIs
<1>11. QED
  BY <1>1, <1>2, <1>3, <1>4, <1>7, <1>8, <1>9, <1>10 DEF Entering, Enters

(* So the first free entry of the directory makes a row,                   *)
LEMMA PlaceEntryFull ==
  ASSUME Typed, NEW t, Now(t), Full(t), PlaceEntry,
         NEW u, u = Added(t, job.first, Row(job.op, job.path, <<job.first>>))
  PROVE  Full(u)'
<1>1. PICK h \in Dirs(t) : \E l \in 1..Len(t[h].chain), i \in 1..Slots : Entering(t, h, l, i)
  BY PlaceEntrySlot
<1>2. PICK l \in 1..Len(t[h].chain), i \in 1..Slots : Entering(t, h, l, i)
  BY <1>1
<1>3. QED
  BY <1>2, EntryWrittenFull DEF Entering

(* and so does the first of the cluster that it grew by.                   *)
LEMMA PlaceInGrownFull ==
  ASSUME Typed, NEW t, Now(t), Full(t), PlaceInGrown,
         NEW u, u = Added(t, job.first, Row(job.op, job.path, <<job.first>>))
  PROVE  Full(u)'
<1>1. PICK h \in Dirs(t) : \E l \in 1..Len(t[h].chain), i \in 1..Slots : Entering(t, h, l, i)
  BY PlaceInGrownSlot
<1>2. PICK l \in 1..Len(t[h].chain), i \in 1..Slots : Entering(t, h, l, i)
  BY <1>1
<1>3. QED
  BY <1>2, EntryWrittenFull DEF Entering

(* The new directory gets its dots.                                        *)
LEMMA DotsFull ==
  ASSUME Typed, NEW t, Now(t), Full(t), Dots
  PROVE  Full(t)'
<1> DEFINE parent == ResolvePath(job.path)
           up == IF parent = Root THEN 0 ELSE parent
           row == [i \in 1..Slots |-> CASE i = 1 -> Dot(1, job.first)
                                        [] i = 2 -> Dot(2, up)
                                        [] OTHER -> End]
<1>1. /\ job.stage = "dots" /\ job' = Idle /\ UNCHANGED <<fat, file, failed>>
      /\ data' = [data EXCEPT ![job.first].slots = row]
  BY DEF Dots
<1>2. /\ Tidy(t, fat, data, failed) /\ AddsDots(t, data, job)
      /\ fat \in Fats /\ data \in Disks /\ Table(t, fat) /\ Shape(t, data)
  BY <1>1, NowFacts, FullFacts DEF JobOK
<1>3. PICK c : c = job.first
  OBVIOUS
<1>4. c \in Dirs(t) /\ t[c].chain = <<c>> /\ c \in DOMAIN t /\ c \in 0..LastCluster /\ data[c] = Zeros
  BY <1>2, <1>3, DirRow, RowFacts DEF AddsDots
<1>5. \A i \in 1..Slots : ~Live(row[i]) /\ (i > 2 <=> row[i].kind = "end")
  BY DEF Dot, Entry, End, Live
<1> HIDE DEF row, up, parent
<1>6. data'[c].slots = row /\ \A b \in 0..LastCluster : b # c => data'[b] = data[b]
  <2>1. PICK r : r = row
    OBVIOUS
  <2>2. data[c] \in Content
    BY <1>2, <1>4 DEF Disks
  <2>3. [data[c] EXCEPT !.slots = r].slots = r
    BY <2>2 DEF Content
  <2>4. data' = [data EXCEPT ![c] = [data[c] EXCEPT !.slots = r]]
    BY <1>1, <1>3, <2>1
  <2>5. QED
    BY <1>2, <1>4, <2>1, <2>3, <2>4 DEF Disks
<1>7. Shape(t, data')
  <2>1. PICK d2 : d2 = data'
    OBVIOUS
  <2>2. \A b \in 0..LastCluster : b # c => d2[b] = data[b]
    BY <1>6, <2>1
  <2>3. \A i \in 1..Slots : ~Live(d2[c].slots[i]) /\ (i > 2 <=> d2[c].slots[i].kind = "end")
    BY <1>5, <1>6, <2>1
  <2>4. Shape(t, d2)
    BY <1>2, <1>4, <2>2, <2>3, ShapeDots
  <2>5. QED
    BY <2>1, <2>4
<1>8. \A a : ~Underway(fat, job, a)
  BY <1>1 DEF Underway
<1>9. ~Making(job')
  BY <1>1, NoneUnderway
<1>10. QED
  BY <1>1, <1>7, <1>8, <1>9, QuietFull

(* SetFATEntry() links a zeroed cluster to a file, or to a directory that  *)
(* had no free entry.                                                      *)
LEMMA LinkFull ==
  ASSUME Typed, NEW t, Now(t), Full(t), Link,
         NEW h \in DOMAIN t, job.at = Last(t[h].chain), NEW u, u = Extended(t, h, job.fresh)
  PROVE  Full(u)'
<1>1. /\ job.stage = "link" /\ fat' = [fat EXCEPT ![job.at] = job.fresh]
      /\ job' = IF job.op = "write" THEN [job EXCEPT !.at = job.fresh, !.stage = "data"]
                ELSE [job EXCEPT !.stage = "entry"]
      /\ UNCHANGED <<data, file, failed>>
  BY DEF Link
<1>2. /\ job \in Jobs /\ Tidy(t, fat, data, failed)
      /\ fat \in Fats /\ data \in Disks /\ Table(t, fat) /\ Listed(t, data)
      /\ Blank(t, fat, data, job.fresh) /\ (LinksDir(t, fat, data, job) \/ Extends(t, fat, data, job))
      /\ Shape(t, data) /\ JobShape(t, data, job) /\ Kept(t, fat, job, failed)
  BY <1>1, NowFacts, FullFacts DEF JobOK
<1>3. PICK c : c = job.fresh
  OBVIOUS
<1>4. Blank(t, fat, data, c) /\ c \in Cluster /\ c \notin Taken(t) /\ data[c] = Zeros
  BY <1>2, <1>3 DEF Blank, Loose
<1>5. t[h].chain \in Seq(Cluster) /\ Last(t[h].chain) \in Of(t, h) /\ Len(t[h].chain) \in Nat \ {0}
  BY <1>2, RowFacts
<1>6. ExtendedTo(t, h, c, u)
  BY <1>3, <1>4, <1>5, ExtendedIs
<1>7. Shape(u, data')
  BY <1>1, <1>2, <1>3, <1>4, ShapeExtend
<1>8. Taken(u) = Taken(t) \union {c}
  BY <1>6 DEF ExtendedTo
<1>9. PICK z : z = job.at
  OBVIOUS
<1>10. z \in Taken(t)
  BY <1>5, <1>9 DEF Taken
<1>11. \A b \in Cluster : b # z => fat'[b] = fat[b]
  BY <1>1, <1>2, <1>9, Geometry DEF Fats
<1>12. CASE LinksDir(t, fat, data, job)
  <2>1. Making(job) /\ ~Writing(job) /\ job.first # job.fresh
    BY <1>12 DEF LinksDir, Making, Writing
  <2>2. PICK g \in Dirs(t) : t[g].path = Front(job.path) /\ job.at = Last(t[g].chain)
    BY <1>12 DEF LinksDir
  <2>3. g = h
    <3>1. g \in DOMAIN t /\ Last(t[g].chain) \in Of(t, g)
      BY <1>2, <2>2, DirRow, RowFacts
    <3>2. QED
      BY <1>2, <1>5, <2>2, <3>1 DEF Table
  <2>4. job'.stage = "entry" /\ job'.op = job.op /\ job'.path = job.path /\ job'.first = job.first /\ job'.fresh = c
    BY <1>1, <1>2, <1>3, <2>1 DEF Jobs, Making
  <2>5. Kept(u, fat', job', failed')
    <3>1. SUFFICES ASSUME ~failed, NEW b \in Cluster, fat'[b] # Free
                   PROVE  b \in Taken(u) \/ Underway(fat', job', b)
      BY <1>1 DEF Kept
    <3>2. CASE b = z
      BY <1>8, <1>10, <3>2
    <3>3. CASE b # z
      <4>1. b \in Taken(t) \/ Underway(fat, job, b)
        BY <1>2, <1>11, <3>1, <3>3 DEF Kept
      <4>2. Underway(fat, job, b) => b = c \/ b = job.first
        BY <1>1, <1>3 DEF Underway
      <4>3. Underway(fat', job', job'.first)
        BY <2>1, <2>4 DEF Underway, Making
      <4>4. QED
        BY <1>8, <2>4, <4>1, <4>2, <4>3
    <3>4. QED
      BY <3>2, <3>3
  <2>6. JobShape(u, data', job')
    <3>1. SUFFICES ASSUME NEW e \in Dirs(u), u[e].path = Front(job.path)
                   PROVE  /\ NewName(u, data, e, Last(job.path)) /\ c = Last(u[e].chain)
                          /\ \A a \in Of(u, e) : a # c => Endless(data, a)
      BY <1>1, <2>4 DEF JobShape
    <3>2. e = h
      <4>1. e \in DOMAIN t /\ t[e].path = Front(job.path)
        BY <1>2, <1>6, <3>1, DirRow DEF ExtendedTo
      <4>2. QED
        BY <1>2, <2>2, <2>3, <4>1 DEF Shape
    <3>3. NewName(t, data, h, Last(job.path)) /\ \A a \in Of(t, h) : Endless(data, a)
      BY <1>1, <1>2, <2>1, <2>2, <2>3 DEF JobShape
    <3>4. Of(u, h) = Of(t, h) \union {c} /\ Last(u[h].chain) = c
      <4>1. u[h].chain = Append(t[h].chain, c) /\ Of(u, h) = Of(t, h) \union {c}
        BY <1>6 DEF ExtendedTo
      <4>2. PICK q \in Seq(Cluster) : q = t[h].chain
        BY <1>5
      <4>3. Last(Append(q, c)) = c
        BY <1>4, <4>2 DEF Last
      <4>4. QED
        BY <4>1, <4>2, <4>3
    <3>5. NewName(u, data, h, Last(job.path))
      <4>1. \A i \in 1..Slots : ~Live(data[c].slots[i])
        BY <1>4, ZerosIs
      <4>2. QED
        BY <3>3, <3>4, <4>1 DEF NewName
    <3>6. QED
      BY <3>2, <3>3, <3>4, <3>5
  <2>7. QED
    BY <1>7, <2>5, <2>6 DEF Full
<1>13. CASE Extends(t, fat, data, job)
  <2>1. Writing(job) /\ ~Making(job)
    BY <1>13, NoneUnderway DEF Extends
  <2>2. job'.stage = "data" /\ job'.op = job.op /\ job'.path = job.path
    BY <1>1, <1>2, <2>1 DEF Jobs, Writing
  <2>3. ~Making(job')
    BY <2>1, <2>2 DEF Making, Writing
  <2>4. Kept(u, fat', job', failed')
    <3>1. SUFFICES ASSUME ~failed, NEW b \in Cluster, fat'[b] # Free
                   PROVE  b \in Taken(u)
      BY <1>1 DEF Kept
    <3>2. CASE b = z
      BY <1>8, <1>10, <3>2
    <3>3. CASE b # z
      <4>1. b \in Taken(t) \/ Underway(fat, job, b)
        BY <1>2, <1>11, <3>1, <3>3 DEF Kept
      <4>2. Underway(fat, job, b) => b = c
        BY <1>1, <1>3, <2>1 DEF Underway
      <4>3. QED
        BY <1>8, <4>1, <4>2
    <3>4. QED
      BY <3>2, <3>3
  <2>5. QED
    BY <1>7, <2>3, <2>4 DEF Full, JobShape
<1>14. QED
  BY <1>2, <1>12, <1>13

(* Where the entry of a path that is found lies.                           *)
LEMMA FoundSlot ==
  ASSUME Typed, NEW t, Now(t), NEW p \in FatPaths, EntryAt(fat, data, p).kind # "end"
  PROVE  \E g \in Dirs(t) : \E l \in 1..Len(t[g].chain), i \in 1..Slots :
           /\ t[g].path = Front(p) /\ PlaceOf(p) = <<t[g].chain[l], i>>
           /\ EntryOf(p) = data[t[g].chain[l]].slots[i] /\ EntryOf(p) = EntryAt(fat, data, p)
           /\ EntryOf(p) \in Slot /\ Live(EntryOf(p)) /\ EntryOf(p).name = Last(p)
           /\ Named(t, t[g].path, EntryOf(p))
<1>1. fat \in Fats /\ data \in Disks /\ Table(t, fat) /\ Listed(t, data)
  BY NowFacts
<1>2. PICK e : e = EntryAt(fat, data, p) /\ e = EntryOf(p)
  BY <1>1, EntryOfIs
<1>3. PICK place : place = WhereAt(fat, data, p)
  OBVIOUS
<1>4. PICK g \in Dirs(t) : t[g].path = Front(p) /\ Rests(t, data, g, Last(p), place, e)
  BY <1>1, <1>2, <1>3, Lookup
<1>5. PICK l \in 1..Len(t[g].chain) : place[1] = t[g].chain[l]
  BY <1>4 DEF Rests, Of
<1>6. PICK i \in 1..Slots : place[2] = i
  BY <1>4 DEF Rests
<1>7. PlaceOf(p) = <<t[g].chain[l], i>>
  BY <1>3, <1>4, <1>5, <1>6, OfState DEF Rests
<1>8. e = data[t[g].chain[l]].slots[i]
  BY <1>4, <1>5, <1>6 DEF Rests, At
<1>9. e \in Slot /\ Live(e) /\ e.name = Last(p) /\ Named(t, t[g].path, e)
  BY <1>4 DEF Rests
<1>10. QED
  BY <1>2, <1>4, <1>7, <1>8, <1>9

(* A cluster of a directory of the table.                                  *)
LEMMA RowSlots ==
  ASSUME NEW f, NEW d, NEW t, NEW cut, Tidy(t, f, d, cut), NEW g \in Dirs(t), NEW l \in 1..Len(t[g].chain)
  PROVE  /\ t[g].chain[l] \in InDirs(t) /\ t[g].chain[l] \in Of(t, g) /\ t[g].chain[l] \in 0..LastCluster
         /\ Len(d[t[g].chain[l]].slots) = Slots /\ d \in Disks
<1>1. t[g].chain[l] \in Of(t, g) /\ Of(t, g) \subseteq InDirs(t)
  BY DirRow DEF Tidy, Of
<1>2. QED
  BY <1>1, InDirsFacts DEF Tidy

(* The size of an entry is written.                                        *)
LEMMA SetSizeFull ==
  ASSUME Typed, NEW t, Now(t), Full(t), SetSize
  PROVE  Full(t)'
<1>1. /\ job.stage = "size" /\ job' = Idle /\ UNCHANGED <<fat, file, failed>>
      /\ WriteEntry(PlaceOf(job.path), [EntryOf(job.path) EXCEPT !.size = job.length])
  BY DEF SetSize
<1>2. /\ job \in Jobs /\ Tidy(t, fat, data, failed) /\ Sizes(t, fat, data, job, failed) /\ Shape(t, data)
  BY <1>1, NowFacts, FullFacts DEF JobOK
<1>3. Writing(job) /\ EntryAt(fat, data, job.path).kind = "file"
  BY <1>2 DEF Sizes, Written
<1>4. PICK p \in FatPaths : p = job.path
  BY <1>3 DEF Writing
<1>5. PICK g \in Dirs(t) : \E l \in 1..Len(t[g].chain), i \in 1..Slots :
        /\ PlaceOf(p) = <<t[g].chain[l], i>> /\ EntryOf(p) = data[t[g].chain[l]].slots[i] /\ EntryOf(p) \in Slot
  BY <1>3, <1>4, FoundSlot
<1>6. PICK l \in 1..Len(t[g].chain), i \in 1..Slots :
        /\ PlaceOf(p) = <<t[g].chain[l], i>> /\ EntryOf(p) = data[t[g].chain[l]].slots[i] /\ EntryOf(p) \in Slot
  BY <1>5
<1>7. PICK c, e, x : c = t[g].chain[l] /\ e = EntryOf(p) /\ x = [e EXCEPT !.size = job.length]
  OBVIOUS
<1>8. data' = WriteSlot(data, c, i, x)
  BY <1>1, <1>4, <1>6, <1>7 DEF WriteEntry, WriteSlot
<1>9. x \in Slot /\ SameEntry(e, x) /\ e = data[c].slots[i]
  BY <1>2, <1>6, <1>7 DEF Slot, Jobs, SameEntry
<1>10. c \in InDirs(t) /\ c \in 0..LastCluster /\ Len(data[c].slots) = Slots /\ data \in Disks
  BY <1>2, <1>7, RowSlots
<1> HIDE DEF WriteSlot
<1>11. /\ \A b \in 0..LastCluster : b # c => data'[b] = data[b]
       /\ data'[c].slots[i] = x
       /\ \A j \in 1..Slots : j # i => data'[c].slots[j] = data[c].slots[j]
  BY <1>8, <1>9, <1>10, WriteSlotIs
<1>12. \A b \in InDirs(t), j \in 1..Slots : SameEntry(data[b].slots[j], data'[b].slots[j])
  <2>1. SUFFICES ASSUME NEW b \in InDirs(t), NEW j \in 1..Slots
                 PROVE  SameEntry(data[b].slots[j], data'[b].slots[j])
    OBVIOUS
  <2>2. b \in 0..LastCluster
    BY <1>2, InDirsFacts
  <2>3. CASE b = c /\ j = i
    BY <1>9, <1>11, <2>3
  <2>4. CASE ~(b = c /\ j = i)
    <3>1. data'[b].slots[j] = data[b].slots[j]
      BY <1>11, <2>2, <2>4
    <3>2. QED
      BY <3>1 DEF SameEntry
  <2>5. QED
    BY <2>3, <2>4
<1>13. Shape(t, data')
  BY <1>2, <1>12, ShapeKept
<1>14. QED
  BY <1>1, <1>3, <1>13, NoneUnderway, QuietFull

(* An empty file gets its first cluster.                                   *)
LEMMA SetFirstFull ==
  ASSUME Typed, NEW t, Now(t), Full(t), SetFirst,
         NEW u, u = Added(t, job.fresh, Row("file", job.path, <<job.fresh>>))
  PROVE  Full(u)'
<1>1. /\ job.stage = "first" /\ job' = [job EXCEPT !.at = job.fresh, !.stage = "data"]
      /\ WriteEntry(PlaceOf(job.path), [EntryOf(job.path) EXCEPT !.first = job.fresh])
      /\ UNCHANGED <<fat, file, failed>>
  BY DEF SetFirst
<1>2. /\ job \in Jobs /\ Tidy(t, fat, data, failed) /\ Table(t, fat) /\ fat \in Fats
      /\ Blank(t, fat, data, job.fresh) /\ GetsFirst(t, fat, data, job) /\ Shape(t, data) /\ Kept(t, fat, job, failed)
  BY <1>1, NowFacts, FullFacts DEF JobOK
<1>3. Writing(job) /\ EntryAt(fat, data, job.path).kind = "file" /\ EntryAt(fat, data, job.path).first = 0
  BY <1>2 DEF GetsFirst
<1>4. PICK p \in FatPaths, b \in 0..LastCluster : p = job.path /\ b = job.fresh
  BY <1>2, <1>3 DEF Writing, Jobs
<1>5. PICK g \in Dirs(t) : \E l \in 1..Len(t[g].chain), i \in 1..Slots :
        /\ t[g].path = Front(p) /\ PlaceOf(p) = <<t[g].chain[l], i>>
        /\ EntryOf(p) = data[t[g].chain[l]].slots[i] /\ EntryOf(p) = EntryAt(fat, data, p)
        /\ EntryOf(p) \in Slot /\ Live(EntryOf(p)) /\ EntryOf(p).name = Last(p)
  BY <1>3, <1>4, FoundSlot
<1>6. PICK l \in 1..Len(t[g].chain), i \in 1..Slots :
        /\ t[g].path = Front(p) /\ PlaceOf(p) = <<t[g].chain[l], i>>
        /\ EntryOf(p) = data[t[g].chain[l]].slots[i] /\ EntryOf(p) = EntryAt(fat, data, p)
        /\ EntryOf(p) \in Slot /\ Live(EntryOf(p)) /\ EntryOf(p).name = Last(p)
  BY <1>5
<1>7. PICK c, e, x : c = t[g].chain[l] /\ e = EntryOf(p) /\ x = [e EXCEPT !.first = b]
  OBVIOUS
<1>8. data' = WriteSlot(data, c, i, x)
  BY <1>1, <1>4, <1>6, <1>7 DEF WriteEntry, WriteSlot
<1>9. /\ e \in Slot /\ e = data[c].slots[i] /\ e.kind = "file" /\ e.first = 0 /\ e.name = Last(p) /\ Live(e)
  BY <1>3, <1>4, <1>6, <1>7
<1>10. x \in Slot /\ x.kind = "file" /\ x.name = Last(p) /\ x.first = b /\ Live(x)
  BY <1>7, <1>9 DEF Slot, Live
<1>11. c \in InDirs(t) /\ c \in Of(t, g)
  BY <1>2, <1>7, RowSlots
<1>12. p = Append(t[g].path, x.name)
  BY <1>6, <1>10, PathFacts
<1>13. Vacant(t, data, g, c, i, x.name)
  <2>1. Distinct(t, data, g)
    BY <1>2 DEF Shape
  <2> HIDE DEF Live
  <2>2. QED
    BY <1>9, <1>10, <1>11, <2>1 DEF Vacant, Distinct
<1>14. NoEndBefore(t[g].chain, data, l, i)
  <2>1. InOrder(t[g].chain, data)
    BY <1>2 DEF Shape
  <2>2. data[t[g].chain[l]].slots[i].kind # "end"
    BY <1>7, <1>9
  <2>3. QED
    BY <2>1, <2>2, LiveBefore
<1>15. Blank(t, fat, data, b) /\ b \notin DOMAIN t
  <2>1. Blank(t, fat, data, b)
    BY <1>2, <1>4
  <2>2. \A h \in DOMAIN t : h \in Taken(t)
    BY <1>2, RowFacts DEF Taken
  <2>3. QED
    BY <2>1, <2>2 DEF Blank, Loose
<1>16. Blank(t, fat, data, x.first)
  <2>1. PICK a : a = x.first
    OBVIOUS
  <2>2. a = b
    BY <1>10, <2>1
  <2>3. Blank(t, fat, data, a)
    BY <1>15, <2>2
  <2>4. QED
    BY <2>1, <2>3
<1> HIDE DEF WriteSlot, Added, Row
<1>17. Shape(Added(t, x.first, Row(x.kind, p, <<x.first>>)), WriteSlot(data, t[g].chain[l], i, x))
  <2>1. Vacant(t, data, g, t[g].chain[l], i, x.name)
    BY <1>7, <1>13
  <2>2. QED
    BY <1>2, <1>10, <1>12, <1>14, <1>16, <2>1, ShapeAdd
<1>18. Shape(u, data')
  BY <1>4, <1>7, <1>8, <1>10, <1>17
<1>19. AddedTo(t, b, "file", p, u)
  BY <1>4, <1>15, AddedIs
<1>20. job'.stage = "data" /\ Writing(job')
  BY <1>1, <1>2, <1>3 DEF Jobs, Writing
<1>21. Kept(u, fat', job', failed')
  <2>1. SUFFICES ASSUME ~failed, NEW a \in Cluster, fat[a] # Free
                 PROVE  a \in Taken(u)
    BY <1>1 DEF Kept
  <2>2. a \in Taken(t) \/ Underway(fat, job, a)
    BY <1>2, <2>1 DEF Kept
  <2>3. Underway(fat, job, a) => a = b
    BY <1>1, <1>4 DEF Underway
  <2>4. Taken(u) = Taken(t) \union {b}
    BY <1>19 DEF AddedTo
  <2>5. QED
    BY <2>2, <2>3, <2>4
<1>22. ~Making(job')
  BY <1>20, NoneUnderway
<1>23. QED
  BY <1>18, <1>21, <1>22 DEF Full, JobShape

(* A file gets its bytes, in clusters that are no directory's.             *)
LEMMA WriteDataFull ==
  ASSUME Typed, NEW t, Now(t), Full(t), WriteData
  PROVE  Full(t)'
<1>1. /\ job.stage = "data"
      /\ data' = [data EXCEPT ![job.at] = Bytes(job.path, job.done)]
      /\ UNCHANGED <<fat, file, failed>>
  BY DEF WriteData
<1>2. /\ job \in Jobs /\ Tidy(t, fat, data, failed) /\ Writes(t, fat, data, job)
      /\ data \in Disks /\ Shape(t, data)
  BY <1>1, NowFacts, FullFacts DEF JobOK
<1>3. PICK h \in DOMAIN t : /\ Written(t, fat, data, job, h) /\ job.done < Len(t[h].chain)
                            /\ job.at = t[h].chain[job.done + 1]
  BY <1>2 DEF Writes
<1>4. PICK a : a = job.at
  OBVIOUS
<1>5. a \notin InDirs(t)
  <2>1. job.done \in Nat /\ Len(t[h].chain) \in Nat /\ t[h].kind = "file"
    BY <1>2, <1>3, RowFacts DEF Jobs, Written, Tidy
  <2>2. job.done + 1 \in 1..Len(t[h].chain)
    BY <1>3, <2>1
  <2>3. QED
    BY <1>2, <1>3, <1>4, <2>1, <2>2, FileRow
<1>6. \A c \in InDirs(t) : data'[c] = data[c]
  <2>1. \A c \in InDirs(t) : c \in 0..LastCluster /\ c # a
    BY <1>2, <1>5, InDirsFacts
  <2>2. QED
    BY <1>1, <1>2, <1>4, <2>1 DEF Disks
<1>7. Shape(t, data')
  BY <1>2, <1>6, ShapeSame
<1>8. Writing(job)
  BY <1>2 DEF Writes
<1>9. job'.op = job.op
  BY <1>2 DEF WriteData, Jobs
<1>10. ~Making(job')
  BY <1>8, <1>9 DEF Making, Writing
<1>11. QED
  BY <1>1, <1>7, <1>8, <1>10, NoneUnderway, QuietFull

(* The steps of a write that leave the disk alone.                         *)
LEMMA WriteNothingFull ==
  ASSUME Typed, NEW t, Now(t), Full(t), WriteNothing \/ DiskFull
  PROVE  Full(t)'
<1>1. /\ UNCHANGED <<fat, data>> /\ job' = [job EXCEPT !.stage = "size"]
      /\ job.stage \in {"data", "extend"} /\ (failed' = failed \/ failed')
  BY DEF WriteNothing, DiskFull
<1>2. job \in Jobs /\ Writing(job) /\ Shape(t, data)
  BY <1>1, NowFacts, FullFacts DEF JobOK, Writes, Extends
<1>3. ~Making(job')
  BY <1>1, <1>2 DEF Jobs, Making, Writing
<1>4. \A c : ~Underway(fat, job, c)
  BY <1>1, <1>2, NoneUnderway
<1>5. Shape(t, data')
  BY <1>1, <1>2
<1>6. QED
  BY <1>1, <1>3, <1>4, <1>5, QuietFull

(* A file that grows takes a cluster.                                      *)
LEMMA ExtendFileFull ==
  ASSUME Typed, NEW t, Now(t), Full(t), ExtendFile
  PROVE  Full(t)'
<1>1. /\ job.stage = "extend" /\ HasFree /\ fat' = [fat EXCEPT ![FirstFree] = Eoc]
      /\ job' = [job EXCEPT !.fresh = FirstFree, !.stage = "zero", !.then = "link"]
      /\ UNCHANGED <<data, file, failed>>
  BY DEF ExtendFile, Claim
<1>2. job \in Jobs /\ Writing(job) /\ Shape(t, data)
  BY <1>1, NowFacts, FullFacts DEF JobOK, Extends
<1>3. job'.stage = "zero" /\ job'.fresh = FirstFree /\ job'.op = job.op
  BY <1>1, <1>2 DEF Jobs
<1>4. ~Making(job')
  BY <1>2, <1>3 DEF Making, Writing
<1>5. Kept(t, fat', job', failed')
  BY <1>1, <1>2, <1>3, NoneUnderway, ClaimKept
<1>6. QED
  BY <1>1, <1>2, <1>4, <1>5 DEF Full, JobShape

(* WriteFile() begins.                                                     *)
LEMMA WriteFileFull ==
  ASSUME Typed, NEW t, Now(t), Full(t), NEW path \in Paths, NEW length \in Lengths, WriteFile(path, length)
  PROVE  Full(t)'
<1>1. PICK p : p = FatPath(path)
  OBVIOUS
<1> DEFINE j == [Idle EXCEPT !.op = "write", !.path = p, !.length = length]
<1>2. /\ job = Idle /\ UNCHANGED <<data, failed>>
      /\ IF EntryOf(p).first = 0
           THEN HasFree /\ Claim(j, "first")
           ELSE job' = [j EXCEPT !.stage = "data", !.at = EntryOf(p).first] /\ UNCHANGED fat
  BY <1>1 DEF WriteFile
<1>3. j.op = "write" /\ \A x, y, z : /\ [j EXCEPT !.stage = x, !.at = y].op = "write"
                                      /\ [j EXCEPT !.fresh = x, !.stage = y, !.then = z].op = "write"
                                      /\ [j EXCEPT !.fresh = x, !.stage = y, !.then = z].fresh = x
                                      /\ [j EXCEPT !.fresh = x, !.stage = y, !.then = z].stage = y
  BY DEF Idle
<1> HIDE DEF j
<1>4. Shape(t, data')
  BY <1>2, FullFacts
<1>5. CASE EntryOf(p).first = 0
  <2>1. /\ HasFree /\ fat' = [fat EXCEPT ![FirstFree] = Eoc]
        /\ job' = [j EXCEPT !.fresh = FirstFree, !.stage = "zero", !.then = "first"]
    BY <1>2, <1>5 DEF Claim
  <2>2. job'.stage = "zero" /\ job'.fresh = FirstFree /\ job'.op = "write"
    BY <1>3, <2>1
  <2>3. Kept(t, fat', job', failed')
    BY <1>2, <2>1, <2>2, NoneUnderway, ClaimKept
  <2>4. ~Making(job')
    BY <2>2 DEF Making
  <2>5. QED
    BY <1>4, <2>3, <2>4 DEF Full, JobShape
<1>6. CASE EntryOf(p).first # 0
  <2>1. job' = [j EXCEPT !.stage = "data", !.at = EntryOf(p).first] /\ fat' = fat
    BY <1>2, <1>6
  <2>2. job'.op = "write"
    BY <1>3, <2>1
  <2>3. ~Making(job')
    BY <2>2 DEF Making
  <2>4. QED
    BY <1>2, <1>4, <2>1, <2>3, NoneUnderway, QuietFull
<1>7. QED
  BY <1>5, <1>6

(* A write to a directory, and a stop.                                     *)
LEMMA StopFull ==
  ASSUME NEW t, Full(t), NEW path, WriteDirectory(path) \/ DirectoryFull \/ PowerLoss
  PROVE  Full(t)'
<1>1. fat' = fat /\ data' = data
  BY DEF WriteDirectory, DirectoryFull, PowerLoss
<1>2. ~Making(job')
  <2>1. job' = Idle \/ job' = [Idle EXCEPT !.op = "undefined"]
    BY DEF WriteDirectory, DirectoryFull, PowerLoss
  <2>2. ~Making([Idle EXCEPT !.op = "undefined"])
    BY DEF Making, Idle
  <2>3. QED
    BY <2>1, <2>2, NoneUnderway
<1>3. failed' \/ (failed' = failed /\ job = Idle)
  BY DEF WriteDirectory, DirectoryFull, PowerLoss
<1>4. Shape(t, data')
  BY <1>1, FullFacts
<1>5. QED
  BY <1>1, <1>2, <1>3, <1>4, NoneUnderway, QuietFull

(* A directory that is found empty has live entries only after an end.     *)
LEMMA EmptyIs ==
  ASSUME NEW D \in Seq(Slot), StopAt(D) # 0 => D[StopAt(D)].kind = "end",
         NEW m \in 1..Len(D), Live(D[m])
  PROVE  \E n \in 1..Len(D) : n < m /\ D[n].kind = "end"
<1> DEFINE I == {i \in 1..Len(D) : D[i].kind = "end" \/ Live(D[i])}
           n == IF I # {} THEN Min(I) ELSE 0
<1>1. StopAt(D) = n
  BY DEF SelectInSeq, StopAt
<1>2. m \in I
  OBVIOUS
<1>3. Min(I) \in I /\ \A i \in I : Min(I) <= i
  <2>1. I \in SUBSET Nat /\ I # {}
    BY <1>2
  <2> HIDE DEF I
  <2>2. QED
    BY <2>1, MinOfNats
<1>4. n \in I /\ n <= m
  BY <1>2, <1>3
<1> HIDE DEF n
<1>5. n \in 1..Len(D) /\ n # 0
  BY <1>4
<1>6. D[n].kind = "end"
  BY <1>1, <1>5
<1>7. n # m
  BY <1>6 DEF Live
<1>8. QED
  BY <1>4, <1>5, <1>6, <1>7

(* IsDirectoryEmpty is that of the directory's entries.                    *)
LEMMA EmptyAtIs ==
  \A c : IsDirectoryEmpty(c) =>
    (StopAt(DirectoryAt(fat, data, c)) # 0 => DirectoryAt(fat, data, c)[StopAt(DirectoryAt(fat, data, c))].kind = "end")
BY DirectoryIs DEF IsDirectoryEmpty, StopAt

(* A directory in order that is found empty has no live entries.           *)
LEMMA EmptyTidy ==
  ASSUME NEW t, Tidy(t, fat, data, failed), Shape(t, data), NEW h \in Dirs(t), IsDirectoryEmpty(h)
  PROVE  \A c \in Of(t, h), i \in 1..Slots : ~Live(data[c].slots[i])
<1>1. fat \in Fats /\ data \in Disks /\ Table(t, fat) /\ Listed(t, data)
  BY DEF Tidy
<1>2. SUFFICES ASSUME NEW c \in Of(t, h), NEW i \in 1..Slots, Live(data[c].slots[i])
               PROVE  FALSE
  OBVIOUS
<1>3. PICK q : q = t[h].chain
  OBVIOUS
<1>4. Strung(q, h, fat) /\ (\A k \in 1..Len(q) : q[k] \in Of(t, h)) /\ Len(q) \in Nat
  BY <1>1, <1>3, DirRow, RowFacts
<1>5. \A k \in 1..Len(q) : Len(data[q[k]].slots) = Slots
  BY <1>1, <1>4 DEF Listed
<1>6. PICK k \in 1..Len(q) : c = q[k]
  BY <1>3 DEF Of
<1> DEFINE D == DirectoryAt(fat, data, h)
<1>7. StopAt(D) # 0 => D[StopAt(D)].kind = "end"
  BY EmptyAtIs
<1>8. /\ D \in Seq(Slot) /\ Len(D) = Slots * Len(q)
      /\ \A m \in 1..Len(D) :
              \E l \in 1..Len(q), j \in 1..Slots :
                /\ m = Slots * (l - 1) + j
                /\ PlaceAt(fat, h, m) = <<q[l], j>>
                /\ D[m] = data[q[l]].slots[j]
      /\ \A l \in 1..Len(q), j \in 1..Slots :
              /\ Slots * (l - 1) + j \in 1..Slots * Len(q)
              /\ D[Slots * (l - 1) + j] = data[q[l]].slots[j]
  BY <1>1, <1>4, <1>5, DirTidy
<1> HIDE DEF D
<1>9. PICK m : m = Slots * (k - 1) + i
  OBVIOUS
<1>10. m \in 1..Len(D) /\ D[m] = data[c].slots[i] /\ Live(D[m])
  <2>1. m \in 1..Len(D) /\ D[m] = data[q[k]].slots[i]
    BY <1>8, <1>9
  <2>2. QED
    BY <1>2, <1>6, <2>1
<1>11. PICK n \in 1..Len(D) : n < m /\ D[n].kind = "end"
  BY <1>7, <1>8, <1>10, EmptyIs
<1>12. PICK l \in 1..Len(q), j \in 1..Slots : n = Slots * (l - 1) + j /\ D[n] = data[q[l]].slots[j]
  BY <1>8, <1>11
<1>13. n \in Nat /\ m \in Nat
  BY <1>8, <1>10, <1>11
<1>14. After(l, j, k, i) \/ (l = k /\ j = i)
  <2>1. l \in Nat \ {0} /\ k \in Nat \ {0}
    BY <1>4
  <2>2. Slots * (l - 1) + j <= Slots * (k - 1) + i
    BY <1>9, <1>11, <1>12, <1>13
  <2>3. QED
    BY <2>1, <2>2, NumbersBack
<1>15. data[c].slots[i].kind = "end"
  <2>1. InOrder(q, data)
    BY <1>3 DEF Shape
  <2>2. data[q[l]].slots[j].kind = "end"
    BY <1>11, <1>12
  <2>3. CASE After(l, j, k, i)
    BY <1>6, <2>1, <2>2, <2>3 DEF InOrder
  <2>4. CASE l = k /\ j = i
    BY <1>6, <2>2, <2>4
  <2>5. QED
    BY <1>14, <2>3, <2>4
<1>16. QED
  BY <1>2, <1>15 DEF Live

(* Removing a row takes away its clusters only.                            *)
LEMMA RemovedTaken ==
  ASSUME NEW t, NEW h \in DOMAIN t, NEW c \in Taken(t), c \notin Of(t, h)
  PROVE  c \in Taken(Removed(t, h))
<1>1. PICK g \in DOMAIN t : c \in Of(t, g)
  BY DEF Taken
<1>2. g \in DOMAIN t \ {h} /\ g \in DOMAIN Removed(t, h)
  BY <1>1 DEF Removed
<1>3. PICK u : u = Removed(t, h)
  OBVIOUS
<1>4. RemovedFrom(t, h, u)
  BY <1>3, RemovedIs
<1>5. c \in Of(u, g) /\ g \in DOMAIN u
  BY <1>1, <1>2, <1>3, <1>4 DEF RemovedFrom
<1>6. QED
  BY <1>3, <1>5 DEF Taken

(* A file, or a directory that is empty, loses its entry; its clusters are *)
(* the operation's until they are freed.                                   *)
LEMMA DeleteFull ==
  ASSUME Typed, NEW t, Now(t), Full(t), NEW p \in FatPaths, job = Idle, Found(p), MarkDeleted(p),
         EntryOf(p).kind = "dir" => IsDirectoryEmpty(EntryOf(p).first),
         NEW u, u = (IF EntryOf(p).first = 0 THEN t ELSE Removed(t, EntryOf(p).first))
  PROVE  Full(u)'
<1>1. /\ WriteEntry(PlaceOf(p), Deleted)
      /\ job' = IF EntryOf(p).first = 0 THEN Idle
                ELSE [Idle EXCEPT !.op = "delete", !.path = p, !.stage = "free", !.at = EntryOf(p).first]
      /\ UNCHANGED <<fat, failed>>
  BY DEF MarkDeleted
<1>2. /\ Tidy(t, fat, data, failed) /\ Shape(t, data) /\ Kept(t, fat, job, failed)
      /\ fat \in Fats /\ data \in Disks /\ Table(t, fat) /\ Listed(t, data)
  BY NowFacts, FullFacts
<1>3. EntryAt(fat, data, p).kind # "end" /\ EntryOf(p) = EntryAt(fat, data, p)
  BY <1>2, EntryOfIs DEF Found
<1>4. PICK g \in Dirs(t) : \E l \in 1..Len(t[g].chain), i \in 1..Slots :
        /\ PlaceOf(p) = <<t[g].chain[l], i>>
        /\ EntryOf(p) = data[t[g].chain[l]].slots[i] /\ Live(EntryOf(p))
  BY <1>3, FoundSlot
<1>5. PICK l \in 1..Len(t[g].chain), i \in 1..Slots :
        /\ PlaceOf(p) = <<t[g].chain[l], i>>
        /\ EntryOf(p) = data[t[g].chain[l]].slots[i] /\ Live(EntryOf(p))
  BY <1>4
<1>6. PICK c, e : c = t[g].chain[l] /\ e = EntryOf(p)
  OBVIOUS
<1>7. data' = WriteSlot(data, c, i, Deleted) /\ e = data[c].slots[i] /\ Live(e)
  BY <1>1, <1>5, <1>6 DEF WriteEntry, WriteSlot
<1>8. c \in Of(t, g)
  BY <1>2, <1>6, RowSlots
<1>9. e.first # 0 => e.first \in DOMAIN t /\ t[e.first].kind = e.kind
  BY <1>2, <1>7, <1>8, LiveRow
<1>10. e.kind = "dir" => e.first # 0
  <2>1. Named(t, t[g].path, e)
    BY <1>2, <1>7, <1>8, LiveRow
  <2>2. 0 \notin DOMAIN t
    BY <1>2, Geometry DEF Table
  <2>3. QED
    BY <2>1, <2>2 DEF Named
<1>11. e.kind = "dir" => \A b \in Of(t, e.first), j \in 1..Slots : ~Live(data[b].slots[j])
  <2>1. SUFFICES ASSUME e.kind = "dir" PROVE \A b \in Of(t, e.first), j \in 1..Slots : ~Live(data[b].slots[j])
    OBVIOUS
  <2>2. e.first \in Dirs(t)
    BY <1>9, <1>10, <2>1 DEF Dirs
  <2>3. IsDirectoryEmpty(e.first)
    BY <1>6, <2>1
  <2>4. PICK h \in Dirs(t) : h = e.first
    BY <2>2
  <2>5. IsDirectoryEmpty(h)
    BY <2>3, <2>4
  <2>6. \A b \in Of(t, h), j \in 1..Slots : ~Live(data[b].slots[j])
    BY <1>2, <2>5, EmptyTidy
  <2>7. QED
    BY <2>4, <2>6
<1> HIDE DEF WriteSlot, Removed, Idle
<1>12. Shape(u, data')
  <2>1. Live(data[t[g].chain[l]].slots[i]) /\ e = data[t[g].chain[l]].slots[i]
    BY <1>6, <1>7
  <2>2. Shape(Without(t, e), WriteSlot(data, t[g].chain[l], i, Deleted))
    BY <1>2, <1>11, <2>1, ShapeRemove
  <2>3. u = Without(t, e)
    BY <1>6 DEF Without
  <2>4. QED
    BY <1>6, <1>7, <2>2, <2>3
<1>13. CASE e.first = 0
  <2>1. job' = Idle /\ u = t
    BY <1>1, <1>6, <1>13
  <2>2. ~Making(job')
    BY <2>1, NoneUnderway
  <2>3. Kept(u, fat', job', failed')
    <3>1. job' = job
      BY <2>1
    <3>2. QED
      BY <1>1, <1>2, <2>1, <3>1 DEF Kept
  <2>4. QED
    BY <1>12, <2>2, <2>3 DEF Full, JobShape
<1>14. CASE e.first # 0
  <2>1. PICK b : b = e.first
    OBVIOUS
  <2>2. job' = [Idle EXCEPT !.op = "delete", !.path = p, !.stage = "free", !.at = b] /\ u = Removed(t, b)
    BY <1>1, <1>6, <1>14, <2>1
  <2>3. job'.stage = "free" /\ job'.at = b /\ job'.op = "delete"
    BY <2>2 DEF Idle
  <2>4. ~Making(job')
    BY <2>3 DEF Making
  <2>5. b \in DOMAIN t
    BY <1>9, <1>14, <2>1
  <2>6. ChainAt(fat, b) = t[b].chain
    BY <1>2, <2>5, RowFacts, StrungChain
  <2>7. Kept(u, fat', job', failed')
    <3>1. SUFFICES ASSUME ~failed, NEW a \in Cluster, fat[a] # Free
                   PROVE  a \in Taken(u) \/ Underway(fat, job', a)
      BY <1>1 DEF Kept
    <3>2. a \in Taken(t)
      BY <1>2, <3>1, NoneUnderway DEF Kept
    <3>3. CASE a \in Of(t, b)
      <4>1. \E k \in 1..Len(ChainAt(fat, b)) : a = ChainAt(fat, b)[k]
        BY <2>6, <3>3 DEF Of
      <4>2. QED
        BY <2>3, <4>1 DEF Underway
    <3>4. CASE a \notin Of(t, b)
      BY <2>2, <2>5, <3>2, <3>4, RemovedTaken
    <3>5. QED
      BY <3>3, <3>4
  <2>8. QED
    BY <1>12, <2>4, <2>7 DEF Full, JobShape
<1>15. QED
  BY <1>13, <1>14

(* What is left of a chain after its first cluster is freed.               *)
LEMMA StrungTail ==
  ASSUME NEW f, NEW f2, NEW g, NEW a, Strung(g, a, f), f[a] \in Cluster,
         \A b \in 0..LastCluster : b # a => f2[b] = f[b]
  PROVE  /\ Strung(Tail(g), f[a], f2)
         /\ Len(g) \in Nat \ {0, 1} /\ Len(Tail(g)) = Len(g) - 1
         /\ \A k \in 1..Len(g) - 1 : Tail(g)[k] = g[k + 1]
<1>1. g \in Seq(Cluster) /\ Len(g) \in Nat \ {0} /\ g[1] = a /\ a \in Cluster /\ a \in 0..LastCluster
  BY Geometry DEF Strung
<1>2. Len(g) # 1
  BY <1>1, Geometry DEF Strung
<1>3. /\ Tail(g) \in Seq(Cluster) /\ Len(Tail(g)) = Len(g) - 1
      /\ \A k \in 1..Len(g) - 1 : Tail(g)[k] = g[k + 1]
  BY <1>1, HeadTail
<1>4. Len(Tail(g)) \in Nat \ {0} /\ Tail(g)[1] = g[2] /\ f[a] = g[2]
  BY <1>1, <1>2, <1>3 DEF Strung
<1>5. \A k \in 1..Len(g) - 1 : g[k + 1] # a /\ g[k + 1] \in 0..LastCluster /\ f2[g[k + 1]] = f[g[k + 1]]
  BY <1>1, Geometry DEF Strung
<1>6. f2[Tail(g)[Len(Tail(g))]] = Eoc
  <2>1. Tail(g)[Len(Tail(g))] = g[Len(g)]
    BY <1>1, <1>2, <1>3
  <2>2. f2[g[Len(g)]] = f[g[Len(g)]]
    <3>1. PICK n \in Nat \ {0} : n = Len(g) /\ n # 1
      BY <1>1, <1>2
    <3>2. Len(g) - 1 \in 1..Len(g) - 1 /\ (Len(g) - 1) + 1 = Len(g)
      BY <3>1
    <3>3. f2[g[(Len(g) - 1) + 1]] = f[g[(Len(g) - 1) + 1]]
      BY <1>5, <3>2
    <3>4. QED
      BY <3>2, <3>3
  <2>3. f[g[Len(g)]] = Eoc
    BY DEF Strung
  <2>4. QED
    BY <2>1, <2>2, <2>3
<1>7. \A k \in 1..Len(Tail(g)) - 1 : f2[Tail(g)[k]] = Tail(g)[k + 1]
  <2>1. SUFFICES ASSUME NEW k \in 1..Len(Tail(g)) - 1 PROVE f2[Tail(g)[k]] = Tail(g)[k + 1]
    OBVIOUS
  <2>2. Tail(g)[k] = g[k + 1] /\ Tail(g)[k + 1] = g[(k + 1) + 1]
    BY <1>1, <1>3
  <2>3. k + 1 \in 1..Len(g) - 1 /\ k \in 1..Len(g) - 1
    BY <1>1, <1>3
  <2>4. f[g[k + 1]] = g[(k + 1) + 1]
    BY <2>3 DEF Strung
  <2>5. f2[g[k + 1]] = f[g[k + 1]]
    BY <1>5, <2>3
  <2>6. QED
    BY <2>2, <2>4, <2>5
<1>8. \A k, l \in 1..Len(Tail(g)) : Tail(g)[k] = Tail(g)[l] => k = l
  <2>1. SUFFICES ASSUME NEW k \in 1..Len(Tail(g)), NEW l \in 1..Len(Tail(g)), Tail(g)[k] = Tail(g)[l] PROVE k = l
    OBVIOUS
  <2>2. g[k + 1] = g[l + 1] /\ k + 1 \in 1..Len(g) /\ l + 1 \in 1..Len(g)
    BY <1>1, <1>3, <2>1
  <2>3. QED
    BY <2>2 DEF Strung
<1>9. PICK r : r = Tail(g)
  OBVIOUS
<1>10. Len(r) # 0 /\ r \in Seq(Cluster)
  BY <1>3, <1>4, <1>9
<1>11. r # <<>>
  BY <1>10
<1>12. Strung(r, f[a], f2)
  BY <1>4, <1>6, <1>7, <1>8, <1>9, <1>10, <1>11 DEF Strung
<1>13. QED
  BY <1>1, <1>2, <1>3, <1>9, <1>12

(* FreeClusterChain() frees the operation's clusters one by one.           *)
LEMMA FreeChainFull ==
  ASSUME Typed, NEW t, Now(t), Full(t), FreeChain
  PROVE  Full(t)'
<1>1. /\ job.stage = "free" /\ fat' = [fat EXCEPT ![job.at] = Free] /\ data' = [data EXCEPT ![job.at] = Junk]
      /\ job' = IF fat[job.at] \in Cluster THEN [job EXCEPT !.at = fat[job.at]] ELSE Idle
      /\ UNCHANGED <<file, failed>>
  BY DEF FreeChain
<1>2. /\ job \in Jobs /\ Tidy(t, fat, data, failed) /\ Shape(t, data) /\ Kept(t, fat, job, failed)
      /\ fat \in Fats /\ data \in Disks /\ Table(t, fat)
  BY NowFacts, FullFacts
<1>3. PICK g : Strung(g, job.at, fat) /\ \A k \in 1..Len(g) : g[k] \notin Taken(t)
  BY <1>1, NowFacts DEF JobOK, Frees
<1>4. PICK a : a = job.at
  OBVIOUS
<1>5. Len(g) \in Nat \ {0} /\ g[1] = a /\ a \in Cluster /\ a \in 0..LastCluster /\ a \notin Taken(t)
  BY <1>3, <1>4, Geometry DEF Strung
<1>6. \A b \in 0..LastCluster : b # a => fat'[b] = fat[b] /\ data'[b] = data[b]
  BY <1>1, <1>2, <1>4 DEF Fats, Disks
<1>7. fat'[a] = Free /\ fat' \in Fats
  BY <1>1, <1>2, <1>4, <1>5, Geometry DEF Fats
<1>8. Shape(t, data')
  <2>1. \A c \in InDirs(t) : c \in 0..LastCluster /\ c # a
    BY <1>2, <1>5, InDirsFacts
  <2>2. QED
    BY <1>2, <1>6, <2>1, ShapeSame
<1>9. CASE fat[a] \in Cluster
  <2>1. job'.stage = "free" /\ job'.at = fat[a]
    BY <1>1, <1>2, <1>4, <1>9 DEF Jobs
  <2>2. /\ Strung(Tail(g), fat[a], fat') /\ Len(Tail(g)) = Len(g) - 1
        /\ \A k \in 1..Len(g) - 1 : Tail(g)[k] = g[k + 1]
    <3>1. PICK f2 : f2 = fat'
      OBVIOUS
    <3>2. \A b \in 0..LastCluster : b # a => f2[b] = fat[b]
      BY <1>6, <3>1
    <3>3. Strung(g, a, fat)
      BY <1>3, <1>4
    <3>4. /\ Strung(Tail(g), fat[a], f2) /\ Len(Tail(g)) = Len(g) - 1
          /\ \A k \in 1..Len(g) - 1 : Tail(g)[k] = g[k + 1]
      BY <1>9, <3>2, <3>3, StrungTail
    <3>5. QED
      BY <3>1, <3>4
  <2>3. ChainAt(fat, a) = g
    BY <1>2, <1>3, <1>4, StrungChain
  <2>4. ChainAt(fat', fat[a]) = Tail(g)
    <3>1. PICK f2 \in Fats : f2 = fat'
      BY <1>7
    <3>2. Strung(Tail(g), fat[a], f2)
      BY <2>2, <3>1
    <3>3. ChainAt(f2, fat[a]) = Tail(g)
      BY <3>2, StrungChain
    <3>4. QED
      BY <3>1, <3>3
  <2>5. ASSUME ~failed, NEW c \in Cluster, fat'[c] # Free
        PROVE  c \in Taken(t) \/ Underway(fat', job', c)
    <3>1. c # a /\ fat[c] # Free
      BY <1>6, <1>7, <2>5, Geometry
    <3>2. c \in Taken(t) \/ Underway(fat, job, c)
      BY <1>2, <2>5, <3>1 DEF Kept
    <3>3. ASSUME Underway(fat, job, c) PROVE Underway(fat', job', c)
      <4>1. PICK k \in 1..Len(g) : c = g[k]
        BY <1>1, <1>4, <2>3, <3>3 DEF Underway
      <4>2. k # 1
        BY <1>5, <3>1, <4>1
      <4>3. k - 1 \in 1..Len(g) - 1 /\ (k - 1) + 1 = k
        BY <1>5, <4>2
      <4>4. c = Tail(g)[k - 1] /\ k - 1 \in 1..Len(Tail(g))
        BY <2>2, <4>1, <4>3
      <4>5. \E l \in 1..Len(ChainAt(fat', job'.at)) : c = ChainAt(fat', job'.at)[l]
        BY <2>1, <2>4, <4>4
      <4>6. QED
        BY <2>1, <4>5 DEF Underway
    <3>4. QED
      BY <3>2, <3>3
  <2>6. Kept(t, fat', job', failed')
    BY <1>1, <2>5 DEF Kept
  <2>7. QED
    BY <1>8, <2>1, <2>6 DEF Full, JobShape
<1>10. CASE fat[a] \notin Cluster
  <2>1. job' = Idle
    BY <1>1, <1>4, <1>10
  <2>2. Len(g) = 1
    <3>1. SUFFICES ASSUME Len(g) # 1 PROVE FALSE
      OBVIOUS
    <3>2. 1 \in 1..Len(g) - 1 /\ 2 \in 1..Len(g)
      <4>1. PICK n \in Nat \ {0} : n = Len(g) /\ n # 1
        BY <1>5, <3>1
      <4>2. 1 \in 1..n - 1 /\ 2 \in 1..n
        BY <4>1
      <4>3. QED
        BY <4>1, <4>2
    <3>3. fat[a] = g[2] /\ g[2] \in Cluster
      BY <1>3, <1>5, <3>2 DEF Strung
    <3>4. QED
      BY <1>10, <3>3
  <2>3. ChainAt(fat, a) = g
    BY <1>2, <1>3, <1>4, StrungChain
  <2>4. ASSUME ~failed, NEW c \in Cluster, fat'[c] # Free
        PROVE  c \in Taken(t)
    <3>1. c # a /\ fat[c] # Free
      BY <1>6, <1>7, <2>4, Geometry
    <3>2. c \in Taken(t) \/ Underway(fat, job, c)
      BY <1>2, <2>4, <3>1 DEF Kept
    <3>3. ASSUME Underway(fat, job, c) PROVE c = a
      <4>1. PICK k \in 1..Len(ChainAt(fat, a)) : c = ChainAt(fat, a)[k]
        BY <1>1, <1>4, <3>3 DEF Underway
      <4>2. k \in 1..1 /\ c = g[k]
        BY <2>2, <2>3, <4>1
      <4>3. QED
        BY <1>5, <4>2
    <3>4. QED
      BY <3>1, <3>2, <3>3
  <2>5. Kept(t, fat', job', failed')
    BY <1>1, <2>4 DEF Kept
  <2>6. ~Making(job')
    BY <2>1, NoneUnderway
  <2>7. QED
    BY <1>8, <2>5, <2>6 DEF Full, JobShape
<1>11. QED
  BY <1>9, <1>10

(* A disk that is formatted holds the root alone.                          *)
LEMMA FormatFull ==
  ASSUME Typed, NEW t, Now(t), Format, NEW u, u = Fresh
  PROVE  Full(u)'
<1>1. /\ job' = Idle /\ failed' = (FormatEnd < LastCluster)
      /\ fat' = [c \in 0..LastCluster |-> IF c <= Root THEN Eoc
                                          ELSE IF c <= FormatEnd THEN Free ELSE fat[c]]
      /\ data' = [c \in 0..LastCluster |-> IF c = Root THEN Zeros ELSE Junk]
  BY DEF Format
<1>2. data'[Root] = Zeros
  BY <1>1, Geometry
<1>3. \A i \in 1..Slots : data'[Root].slots[i].kind = "end"
  BY <1>2, ZerosIs, SlotFacts
<1>4. Shape(u, data')
  <2>1. PICK d : d = data'
    OBVIOUS
  <2>2. \A i \in 1..Slots : IF i <= 0 THEN d[Root].slots[i].kind = "file" ELSE d[Root].slots[i].kind = "end"
    BY <1>3, <2>1, Geometry
  <2>3. \A i, j \in 1..Slots : i <= 0 /\ j <= 0 /\ d[Root].slots[i].name = d[Root].slots[j].name => i = j
    BY Geometry
  <2>4. Shape(Fresh, d)
    BY <2>2, <2>3, ShapeFresh
  <2>5. QED
    BY <2>1, <2>4
<1>5. Root \in Taken(u)
  <2>1. DOMAIN u = {Root} /\ u[Root] = Row("dir", <<>>, <<Root>>)
    BY DEF Fresh
  <2>2. u[Root].chain = <<Root>>
    BY <2>1 DEF Row
  <2>3. Root \in Of(u, Root)
    BY <2>2 DEF Of
  <2>4. QED
    BY <2>1, <2>3 DEF Taken
<1>6. Kept(u, fat', job', failed')
  <2>1. SUFFICES ASSUME ~(FormatEnd < LastCluster), NEW c \in Cluster, fat'[c] # Free
                 PROVE  c = Root
    BY <1>1, <1>5 DEF Kept
  <2>2. FormatEnd \in Nat
    BY GeometryAssumption
  <2>3. c <= FormatEnd /\ c \in Nat /\ c >= 2
    BY <2>1, <2>2, Geometry
  <2>4. QED
    BY <1>1, <2>1, <2>3, Geometry
<1>7. ~Making(job')
  BY <1>1, NoneUnderway
<1>8. QED
  BY <1>4, <1>6, <1>7 DEF Full, JobShape

(* A disk begins with the root and the files that the host copied there,   *)
(* under different names.                                                  *)
LEMMA InitTree == Init => TreeInv
<1> SUFFICES ASSUME Init PROVE TreeInv
  OBVIOUS
<1>1. Typed /\ Now(Fresh) /\ Copied(data)
  BY InitNow
<1>2. /\ fat = [c \in 0..LastCluster |-> IF c <= Root THEN Eoc ELSE Free]
      /\ job = Idle /\ failed = FALSE
  BY DEF Init
<1>3. PICK n \in 0..Len(HostFiles) :
        \A i \in 1..Slots : data[Root].slots[i] = IF i <= n THEN Entry("file", HostFiles[i], 0) ELSE End
  BY <1>1 DEF Copied
<1>4. HostFiles \in Seq(Names) /\ n \in Nat /\ n <= Len(HostFiles)
  BY HostAssumption
<1>5. PICK d : d = data
  OBVIOUS
<1>6. ASSUME NEW i \in 1..Slots
      PROVE  /\ IF i <= n THEN d[Root].slots[i].kind = "file" ELSE d[Root].slots[i].kind = "end"
             /\ i <= n => d[Root].slots[i].name = HostFiles[i]
  <2>1. \A name : Entry("file", name, 0).kind = "file" /\ Entry("file", name, 0).name = name
    BY DEF Entry
  <2>2. End.kind = "end"
    BY SlotFacts
  <2>3. data[Root].slots[i] = IF i <= n THEN Entry("file", HostFiles[i], 0) ELSE End
    BY <1>3
  <2> HIDE DEF Entry, End
  <2>4. CASE i <= n
    BY <1>5, <2>1, <2>3, <2>4
  <2>5. CASE ~(i <= n)
    BY <1>5, <2>2, <2>3, <2>5
  <2>6. QED
    BY <2>4, <2>5
<1>7. \A i, j \in 1..Slots : i <= n /\ j <= n /\ d[Root].slots[i].name = d[Root].slots[j].name => i = j
  <2>1. SUFFICES ASSUME NEW i \in 1..Slots, NEW j \in 1..Slots, i <= n, j <= n,
                        d[Root].slots[i].name = d[Root].slots[j].name
                 PROVE  i = j
    OBVIOUS
  <2>2. d[Root].slots[i].name = HostFiles[i] /\ d[Root].slots[j].name = HostFiles[j]
    BY <1>6, <2>1
  <2>3. i \in DOMAIN HostFiles /\ j \in DOMAIN HostFiles
    BY <1>4, <2>1, Geometry
  <2>4. QED
    BY <2>1, <2>2, <2>3, HostAssumption DEF IsInjective
<1>8. Shape(Fresh, d)
  BY <1>4, <1>6, <1>7, ShapeFresh
<1>9. PICK u : u = Fresh
  OBVIOUS
<1>10. Shape(u, data) /\ Now(u)
  BY <1>1, <1>5, <1>8, <1>9
<1>11. Root \in Taken(u)
  <2>1. DOMAIN u = {Root} /\ u[Root] = Row("dir", <<>>, <<Root>>)
    BY <1>9 DEF Fresh
  <2>2. u[Root].chain = <<Root>>
    BY <2>1 DEF Row
  <2>3. Root \in Of(u, Root)
    BY <2>2 DEF Of
  <2>4. QED
    BY <2>1, <2>3 DEF Taken
<1>12. Kept(u, fat, job, failed)
  <2>1. \A c \in Cluster : fat[c] # Free => c = Root
    BY <1>2, Geometry
  <2>2. QED
    BY <1>11, <2>1 DEF Kept
<1>13. JobShape(u, data, job)
  BY <1>2, NoneUnderway DEF JobShape
<1>14. QED
  BY <1>1, <1>10, <1>12, <1>13 DEF TreeInv, Full

(* Every step keeps the invariant of the tree.                             *)
LEMMA TreeStep ==
  ASSUME TreeInv, [Next]_vars
  PROVE  TreeInv'
<1>1. PICK t : Typed /\ Now(t) /\ Full(t)
  BY DEF TreeInv
<1>2. CASE UNCHANGED vars
  BY <1>1, <1>2, StillNow, StillFull, NowFacts DEF TreeInv, vars
<1>3. ASSUME NEW path \in Paths, CreateFile(path) \/ MakeDirectory(path) PROVE TreeInv'
  <2>1. PICK op \in {"file", "dir"} : Create(op, path)
    BY <1>3 DEF CreateFile, MakeDirectory
  <2>2. QED
    BY <1>1, <2>1, CreateNow, CreateFull DEF TreeInv
<1>4. ASSUME NEW path \in Paths, DeleteFile(path) \/ DeleteDirectory(path) PROVE TreeInv'
  <2>1. PICK p \in FatPaths : p = FatPath(path)
    BY FatPathIs
  <2>2. job = Idle /\ Found(p) /\ MarkDeleted(p) /\ (EntryOf(p).kind = "dir" => IsDirectoryEmpty(EntryOf(p).first))
    BY <1>4, <2>1 DEF DeleteFile, DeleteDirectory
  <2>3. PICK u : u = (IF EntryOf(p).first = 0 THEN t ELSE Removed(t, EntryOf(p).first))
    OBVIOUS
  <2>4. Typed' /\ Now(u)'
    BY <1>1, <2>2, <2>3, MarkDeletedNow
  <2>5. Full(u)'
    BY <1>1, <2>2, <2>3, DeleteFull
  <2>6. QED
    BY <2>4, <2>5 DEF TreeInv
<1>5. ASSUME NEW path \in Paths, NEW length \in Lengths, WriteFile(path, length) PROVE TreeInv'
  BY <1>1, <1>5, WriteFileNow, WriteFileFull DEF TreeInv
<1>6. ASSUME NEW path \in Paths, WriteDirectory(path) PROVE TreeInv'
  BY <1>1, <1>6, WriteDirectoryNow, StopFull DEF TreeInv
<1>7. ASSUME NEW path \in Paths, Open(path) PROVE TreeInv'
  BY <1>1, <1>7, OpenNow, StillFull DEF TreeInv, Open
<1>8. CASE Zero
  BY <1>1, <1>8, ZeroNow, ZeroFull DEF TreeInv
<1>9. CASE PlaceEntry
  <2>1. PICK u : u = Added(t, job.first, Row(job.op, job.path, <<job.first>>))
    OBVIOUS
  <2>2. Typed' /\ Now(u)'
    BY <1>1, <1>9, <2>1, PlaceEntryNow
  <2>3. Full(u)'
    BY <1>1, <1>9, <2>1, PlaceEntryFull
  <2>4. QED
    BY <2>2, <2>3 DEF TreeInv
<1>10. CASE GrowDirectory
  BY <1>1, <1>10, GrowDirectoryNow, GrowDirectoryFull DEF TreeInv
<1>11. CASE DirectoryFull
  BY <1>1, <1>11, DirectoryFullNow, StopFull DEF TreeInv
<1>12. CASE Link
  <2>1. PICK u : Typed' /\ Now(u)' /\ \E h \in DOMAIN t : job.at = Last(t[h].chain) /\ u = Extended(t, h, job.fresh)
    BY <1>1, <1>12, LinkNow
  <2>2. Full(u)'
    BY <1>1, <1>12, <2>1, LinkFull
  <2>3. QED
    BY <2>1, <2>2 DEF TreeInv
<1>13. CASE PlaceInGrown
  <2>1. PICK u : u = Added(t, job.first, Row(job.op, job.path, <<job.first>>))
    OBVIOUS
  <2>2. Typed' /\ Now(u)'
    BY <1>1, <1>13, <2>1, PlaceInGrownNow
  <2>3. Full(u)'
    BY <1>1, <1>13, <2>1, PlaceInGrownFull
  <2>4. QED
    BY <2>2, <2>3 DEF TreeInv
<1>14. CASE Dots
  BY <1>1, <1>14, DotsNow, DotsFull DEF TreeInv
<1>15. CASE FreeChain
  BY <1>1, <1>15, FreeChainNow, FreeChainFull DEF TreeInv
<1>16. CASE SetFirst
  <2>1. PICK u : u = Added(t, job.fresh, Row("file", job.path, <<job.fresh>>))
    OBVIOUS
  <2>2. Typed' /\ Now(u)'
    BY <1>1, <1>16, <2>1, SetFirstNow
  <2>3. Full(u)'
    BY <1>1, <1>16, <2>1, SetFirstFull
  <2>4. QED
    BY <2>2, <2>3 DEF TreeInv
<1>17. CASE WriteData
  BY <1>1, <1>17, WriteDataNow, WriteDataFull DEF TreeInv
<1>18. CASE WriteNothing
  BY <1>1, <1>18, WriteNothingNow, WriteNothingFull DEF TreeInv
<1>19. CASE ExtendFile
  BY <1>1, <1>19, ExtendFileNow, ExtendFileFull DEF TreeInv
<1>20. CASE DiskFull
  BY <1>1, <1>20, DiskFullNow, WriteNothingFull DEF TreeInv
<1>21. CASE SetSize
  BY <1>1, <1>21, SetSizeNow, SetSizeFull DEF TreeInv
<1>22. ASSUME NEW n \in 1..ClusterSize, Read(n) \/ Seek(n) PROVE TreeInv'
  BY <1>1, <1>22, ReadNow, SeekNow, StillFull DEF TreeInv, Read, Seek
<1>23. CASE Format
  <2>1. PICK u : u = Fresh
    OBVIOUS
  <2>2. Typed' /\ Now(u)'
    BY <1>1, <1>23, <2>1, FormatNow
  <2>3. Full(u)'
    BY <1>1, <1>23, <2>1, FormatFull
  <2>4. QED
    BY <2>2, <2>3 DEF TreeInv
<1>24. CASE PowerLoss
  BY <1>1, <1>24, PowerLossNow, StopFull DEF TreeInv
<1>25. QED
  BY <1>2, <1>3, <1>4, <1>5, <1>6, <1>7, <1>8, <1>9, <1>10, <1>11, <1>12, <1>13, <1>14, <1>15,
     <1>16, <1>17, <1>18, <1>19, <1>20, <1>21, <1>22, <1>23, <1>24 DEF Next

(* The invariant of the tree holds in every state of the file system.      *)
THEOREM TreeInvCorrect == Spec => []TreeInv
<1>1. TreeInv /\ [Next]_vars => TreeInv'
  BY TreeStep
<1>2. QED
  BY <1>1, InitTree, PTL DEF Spec

(* The directories that are reached from the root hold no others.          *)
LEMMA DirectoriesClosed ==
  ASSUME fat \in Fats, data \in Disks
  PROVE  Root \in Directories /\ StepOf(Directories) = Directories
<1> DEFINE S == {s \in Sets : Root \in s}
<1>1. \A s \in S : StepOf(s) \in S
  BY InsideTyped DEF Sets, StepOf
<1>2. S \subseteq Sets /\ {Root} \in S
  BY Geometry DEF Sets
<1>3. Reach[{Root}] \in Complete(S)
  <2> HIDE DEF S
  <2>1. QED
    BY <1>1, <1>2, ReachEnds
<1>4. QED
  BY <1>3, DirectoriesIs DEF Complete

(* In a directory in order every live entry is visible.                    *)
LEMMA VisibleLive ==
  ASSUME NEW t, Tidy(t, fat, data, failed), Shape(t, data), NEW h \in Dirs(t),
         NEW c \in Of(t, h), NEW i \in 1..Slots, Live(data[c].slots[i])
  PROVE  \E n \in Visible(h) : Place(h, n) = <<c, i>> /\ Directory(h)[n] = data[c].slots[i]
<1>1. fat \in Fats /\ data \in Disks /\ Table(t, fat) /\ Listed(t, data)
  BY DEF Tidy
<1>2. PICK q : q = t[h].chain
  OBVIOUS
<1>3. Strung(q, h, fat) /\ (\A k \in 1..Len(q) : q[k] \in Of(t, h)) /\ Len(q) \in Nat
  BY <1>1, <1>2, DirRow, RowFacts
<1>4. \A k \in 1..Len(q) : Len(data[q[k]].slots) = Slots
  BY <1>1, <1>3 DEF Listed
<1>5. PICK k \in 1..Len(q) : c = q[k]
  BY <1>2 DEF Of
<1>6. PICK D : D = DirectoryAt(fat, data, h)
  OBVIOUS
<1>7. D = Directory(h)
  BY <1>6, DirectoryIs
<1>8. /\ D \in Seq(Slot) /\ Len(D) = Slots * Len(q)
      /\ \A m \in 1..Len(D) :
              \E l \in 1..Len(q), j \in 1..Slots :
                /\ m = Slots * (l - 1) + j
                /\ PlaceAt(fat, h, m) = <<q[l], j>>
                /\ D[m] = data[q[l]].slots[j]
      /\ \A l \in 1..Len(q), j \in 1..Slots :
              /\ Slots * (l - 1) + j \in 1..Slots * Len(q)
              /\ PlaceAt(fat, h, Slots * (l - 1) + j) = <<q[l], j>>
              /\ D[Slots * (l - 1) + j] = data[q[l]].slots[j]
  <2>1. Strung(q, h, fat) /\ \A m \in 1..Len(q) : Len(data[q[m]].slots) = Slots
    BY <1>3, <1>4
  <2>2. /\ DirectoryAt(fat, data, h) \in Seq(Slot) /\ Len(DirectoryAt(fat, data, h)) = Slots * Len(q)
        /\ \A m \in 1..Len(DirectoryAt(fat, data, h)) :
                \E l \in 1..Len(q), j \in 1..Slots :
                  /\ m = Slots * (l - 1) + j
                  /\ PlaceAt(fat, h, m) = <<q[l], j>>
                  /\ DirectoryAt(fat, data, h)[m] = data[q[l]].slots[j]
        /\ \A l \in 1..Len(q), j \in 1..Slots :
                /\ Slots * (l - 1) + j \in 1..Slots * Len(q)
                /\ PlaceAt(fat, h, Slots * (l - 1) + j) = <<q[l], j>>
                /\ DirectoryAt(fat, data, h)[Slots * (l - 1) + j] = data[q[l]].slots[j]
    BY <1>1, <2>1, DirTidy
  <2>3. QED
    BY <1>6, <2>2, Zenon
<1>9. PICK n : n = Slots * (k - 1) + i
  OBVIOUS
<1>10. n \in 1..Len(D) /\ D[n] = data[c].slots[i] /\ PlaceAt(fat, h, n) = <<c, i>>
  <2>1. /\ Slots * (k - 1) + i \in 1..Slots * Len(q)
        /\ PlaceAt(fat, h, Slots * (k - 1) + i) = <<q[k], i>>
        /\ D[Slots * (k - 1) + i] = data[q[k]].slots[i]
    BY <1>5, <1>8
  <2>2. QED
    BY <1>5, <1>8, <1>9, <2>1
<1>11. PICK m : m = SelectInSeq(D, LAMBDA s : s.kind = "end")
  OBVIOUS
<1>12. m # 0 => m \in 1..Len(D) /\ D[m].kind = "end"
  <2> DEFINE I == {x \in 1..Len(D) : D[x].kind = "end"}
  <2>1. m = IF I # {} THEN Min(I) ELSE 0
    BY <1>11 DEF SelectInSeq
  <2>2. I # {} => Min(I) \in I
    <3>1. I \in SUBSET Nat
      OBVIOUS
    <3> HIDE DEF I
    <3>2. QED
      BY <3>1, MinOfNats
  <2>3. QED
    BY <2>1, <2>2
<1>13. ASSUME m # 0 PROVE n < m
  <2>1. SUFFICES ASSUME m <= n PROVE FALSE
    BY <1>8, <1>10, <1>12, <1>13
  <2>2. PICK l \in 1..Len(q), j \in 1..Slots : m = Slots * (l - 1) + j /\ D[m] = data[q[l]].slots[j]
    BY <1>8, <1>12, <1>13
  <2>3. After(l, j, k, i) \/ (l = k /\ j = i)
    <3>1. l \in Nat \ {0} /\ k \in Nat \ {0}
      BY <1>3
    <3>2. Slots * (l - 1) + j <= Slots * (k - 1) + i
      BY <1>9, <2>1, <2>2
    <3>3. QED
      BY <3>1, <3>2, NumbersBack
  <2>4. data[q[l]].slots[j].kind = "end"
    BY <1>12, <1>13, <2>2
  <2>5. InOrder(q, data)
    BY <1>2 DEF Shape
  <2>6. data[c].slots[i].kind = "end"
    BY <1>5, <2>3, <2>4, <2>5 DEF InOrder
  <2>7. QED
    BY <2>6 DEF Live
<1>14. n \in Visible(h)
  <2>1. n \in DOMAIN D /\ Live(D[n])
    BY <1>8, <1>10
  <2>2. QED
    BY <1>7, <1>11, <1>13, <2>1 DEF Visible
<1>15. QED
  BY <1>7, <1>10, <1>14, OfState

(* Every directory of the table is reached.                                *)
LEMMA DirsReached ==
  ASSUME NEW t, Tidy(t, fat, data, failed), Shape(t, data)
  PROVE  Dirs(t) \subseteq Directories
<1>1. fat \in Fats /\ data \in Disks /\ Table(t, fat)
  BY DEF Tidy
<1>2. Root \in Directories /\ StepOf(Directories) = Directories
  BY <1>1, DirectoriesClosed
<1>3. ASSUME NEW h \in Dirs(t) PROVE h \in DOMAIN t /\ t[h].path \in Seq(Names) /\ Len(t[h].path) \in Nat
  BY <1>1, DirRow, RowFacts
<1> DEFINE P == {n \in Nat : \A h \in Dirs(t) : Len(t[h].path) <= n => h \in Directories}
<1>4. ASSUME NEW n \in Nat, \A h \in Dirs(t) : Len(t[h].path) < n => h \in Directories
      PROVE  n \in P
  <2>1. SUFFICES ASSUME NEW h \in Dirs(t), Len(t[h].path) <= n, h # Root PROVE h \in Directories
    BY <1>2
  <2>2. PICK g \in Dirs(t) : \E c \in Of(t, g), i \in 1..Slots :
          /\ Live(data[c].slots[i]) /\ data[c].slots[i].first = h
          /\ t[h].kind = data[c].slots[i].kind
          /\ t[h].path = Append(t[g].path, data[c].slots[i].name)
    <3>1. Whole(t, data)
      BY DEF Shape
    <3>2. QED
      BY <1>3, <2>1, <3>1, RowNamed
  <2>3. PICK c \in Of(t, g), i \in 1..Slots :
          /\ Live(data[c].slots[i]) /\ data[c].slots[i].first = h
          /\ t[h].kind = data[c].slots[i].kind
          /\ t[h].path = Append(t[g].path, data[c].slots[i].name)
    BY <2>2
  <2>4. Len(t[g].path) < n
    <3>1. Len(t[h].path) = Len(t[g].path) + 1
      BY <1>3, <2>3
    <3>2. QED
      BY <1>3, <2>1, <3>1
  <2>5. g \in Directories
    BY <1>4, <2>4
  <2>6. PICK m \in Visible(g) : Directory(g)[m] = data[c].slots[i]
    BY <2>3, VisibleLive
  <2>7. data[c].slots[i].kind = "dir"
    BY <2>1, <2>3 DEF Dirs
  <2>8. h \in InsideOf(g)
    BY <2>3, <2>6, <2>7 DEF InsideOf
  <2>9. h \in StepOf(Directories)
    BY <2>5, <2>8 DEF StepOf
  <2>10. QED
    BY <1>2, <2>9
<1>5. 0 \in P
  BY <1>3, <1>4
<1>6. \A n \in Nat : n \in P => n + 1 \in P
  <2>1. SUFFICES ASSUME NEW n \in Nat, n \in P PROVE n + 1 \in P
    OBVIOUS
  <2>2. \A h \in Dirs(t) : Len(t[h].path) < n + 1 => Len(t[h].path) <= n
    BY <1>3
  <2>3. \A h \in Dirs(t) : Len(t[h].path) < n + 1 => h \in Directories
    BY <2>1, <2>2
  <2>4. n + 1 \in Nat
    OBVIOUS
  <2> HIDE DEF P
  <2>5. QED
    BY <1>4, <2>3, <2>4
<1>7. \A n \in Nat : n \in P
  <2> HIDE DEF P
  <2>1. QED
    BY <1>5, <1>6, NatInd
<1>8. QED
  BY <1>3, <1>7

(* Every cluster of the table is used: it can be reached from the root.    *)
LEMMA TakenUsed ==
  ASSUME NEW t, Tidy(t, fat, data, failed), Shape(t, data)
  PROVE  Taken(t) \subseteq Used
<1>1. fat \in Fats /\ data \in Disks /\ Table(t, fat)
  BY DEF Tidy
<1>2. SUFFICES ASSUME NEW h \in DOMAIN t, NEW x \in Of(t, h) PROVE x \in Used
  BY DEF Taken
<1>3. x \in Range(Chain(h))
  <2>1. Chain(h) = t[h].chain /\ t[h].chain \in Seq(Cluster)
    BY <1>1, ChainIs, StrungChain, RowFacts
  <2>2. PICK k \in 1..Len(t[h].chain) : x = t[h].chain[k]
    BY DEF Of
  <2>3. k \in DOMAIN t[h].chain
    BY <2>1
  <2>4. QED
    BY <2>1, <2>2, <2>3 DEF Range
<1>4. CASE h = Root
  BY <1>3, <1>4 DEF Used
<1>5. CASE h # Root
  <2>1. PICK g \in Dirs(t) : \E c \in Of(t, g), i \in 1..Slots : Live(data[c].slots[i]) /\ data[c].slots[i].first = h
    <3>1. Whole(t, data)
      BY DEF Shape
    <3>2. QED
      BY <1>5, <3>1, RowNamed
  <2>2. PICK c \in Of(t, g), i \in 1..Slots : Live(data[c].slots[i]) /\ data[c].slots[i].first = h
    BY <2>1
  <2>3. PICK n \in Visible(g) : Directory(g)[n] = data[c].slots[i]
    BY <2>2, VisibleLive
  <2>4. g \in Directories
    BY DirsReached
  <2>5. PICK o : o = <<Place(g, n), Directory(g)[n].first>>
    OBVIOUS
  <2>6. o \in Heads
    BY <2>4, <2>5 DEF Heads
  <2>7. o[2] = h /\ h # 0
    BY <1>1, <2>2, <2>3, <2>5, RowFacts
  <2>8. QED
    BY <1>3, <2>6, <2>7 DEF Used
<1>6. QED
  BY <1>4, <1>5

(* A table that accounts for every cluster leaves none to leak.            *)
LEMMA InvLeaks == TreeInv => NothingLeaks
<1>1. SUFFICES ASSUME TreeInv, job = Idle, ~failed, NEW c \in Cluster, fat[c] # Free
               PROVE  c \in Used
  BY DEF NothingLeaks
<1>2. PICK t : Now(t) /\ Full(t)
  BY <1>1 DEF TreeInv
<1>3. Tidy(t, fat, data, failed) /\ Shape(t, data) /\ Kept(t, fat, job, failed)
  BY <1>2, FullFacts DEF Now
<1>4. ~Underway(fat, job, c)
  BY <1>1, NoneUnderway
<1>5. c \in Taken(t)
  BY <1>1, <1>3, <1>4 DEF Kept
<1>6. QED
  BY <1>3, <1>5, TakenUsed

(* Every cluster that is taken belongs to a file or directory, as long as  *)
(* no operation was stopped or gave up: for every size of the disk, of     *)
(* clusters and directories, and all names (DeleteFile, FreeClusterChain). *)
THEOREM LeaksCorrect == Spec => []NothingLeaks
BY TreeInvCorrect, InvLeaks, PTL

-----------------------------------------------------------------------------

(* A walk comes to each directory whose path its own begins with.          *)
LEMMA WalkFinds ==
  ASSUME NEW f, NEW d, NEW t, NEW cut, Tidy(t, f, d, cut), Shape(t, d), NEW p \in Seq(Names)
  PROVE  \A h \in Dirs(t) :
           Len(t[h].path) < Len(p) /\ (\A k \in 1..Len(t[h].path) : t[h].path[k] = p[k])
             => Walk(f, d, p)[Len(t[h].path) + 1] = h
<1>1. f \in Fats /\ d \in Disks /\ Table(t, f) /\ Listed(t, d)
  BY DEF Tidy
<1>2. ASSUME NEW h \in Dirs(t) PROVE h \in DOMAIN t /\ t[h].path \in Seq(Names) /\ Len(t[h].path) \in Nat
  BY <1>1, DirRow, RowFacts
<1> DEFINE w == Walk(f, d, p)
           Begins(h) == Len(t[h].path) < Len(p) /\ \A k \in 1..Len(t[h].path) : t[h].path[k] = p[k]
           P == {n \in Nat : \A h \in Dirs(t) : Len(t[h].path) <= n /\ Begins(h) => w[Len(t[h].path) + 1] = h}
<1>3. \A i \in 1..Len(p) : w[i] = IF i = 1 THEN Root ELSE Inside[EntryInAt(f, d, w[i - 1], p[i - 1])]
  BY <1>1, WalkIs
<1> HIDE DEF w
<1>4. ASSUME NEW n \in Nat, \A h \in Dirs(t) : Len(t[h].path) < n /\ Begins(h) => w[Len(t[h].path) + 1] = h
      PROVE  n \in P
  <2>1. SUFFICES ASSUME NEW h \in Dirs(t), Len(t[h].path) <= n, Begins(h) PROVE w[Len(t[h].path) + 1] = h
    OBVIOUS
  <2>2. CASE h = Root
    <3>1. Len(t[h].path) = 0
      BY <1>1, <2>2 DEF Table
    <3>2. QED
      BY <1>3, <2>1, <2>2, <3>1
  <2>3. CASE h # Root
    <3>1. PICK g \in Dirs(t) : \E c \in Of(t, g), i \in 1..Slots :
            /\ Live(d[c].slots[i]) /\ d[c].slots[i].first = h
            /\ t[h].kind = d[c].slots[i].kind
            /\ t[h].path = Append(t[g].path, d[c].slots[i].name)
      <4>1. Whole(t, d)
        BY DEF Shape
      <4>2. QED
        BY <1>2, <2>3, <4>1, RowNamed
    <3>2. PICK c \in Of(t, g), i \in 1..Slots :
            /\ Live(d[c].slots[i]) /\ d[c].slots[i].first = h
            /\ t[h].kind = d[c].slots[i].kind
            /\ t[h].path = Append(t[g].path, d[c].slots[i].name)
      BY <3>1
    <3>3. PICK m \in Nat : m = Len(t[g].path)
      BY <1>2
    <3>4. PICK e : e = d[c].slots[i]
      OBVIOUS
    <3>5. t[h].path = Append(t[g].path, e.name) /\ Live(e) /\ e.first = h /\ e.kind = "dir"
      BY <3>2, <3>4 DEF Dirs
    <3>6. Len(t[h].path) = m + 1 /\ t[h].path[m + 1] = e.name /\ \A k \in 1..m : t[h].path[k] = t[g].path[k]
      BY <1>2, <3>3, <3>5
    <3>7. m < n /\ m + 1 < Len(p) /\ m < Len(p) /\ m + 1 \in 1..Len(t[h].path)
      BY <2>1, <3>6
    <3>8. e.name = p[m + 1] /\ e.name \in Names
      <4>1. p[m + 1] \in Names
        BY <3>7
      <4>2. QED
        BY <2>1, <3>6, <3>7, <4>1
    <3>9. \A k \in 1..m : k \in 1..Len(t[h].path)
      BY <3>6
    <3>10. Begins(g)
      BY <2>1, <3>3, <3>6, <3>7, <3>9
    <3>11. w[m + 1] = g
      BY <1>4, <3>3, <3>7, <3>10
    <3>12. EntryInAt(f, d, g, e.name) = e
      BY <3>2, <3>4, <3>5, <3>8, LiveFound
    <3>13. w[m + 2] = Inside[e]
      <4>1. m + 2 \in 1..Len(p) /\ m + 2 # 1 /\ (m + 2) - 1 = m + 1
        BY <3>7
      <4>2. w[m + 2] = Inside[EntryInAt(f, d, w[(m + 2) - 1], p[(m + 2) - 1])]
        BY <1>3, <4>1
      <4>3. QED
        BY <3>8, <3>11, <3>12, <4>1, <4>2
    <3>14. Inside[e] = h
      <4>1. e \in Slot
        BY <3>2, <3>4, <1>1, DirRow, InDirsFacts
      <4>2. h # 0
        BY <1>1, <1>2, RowFacts
      <4>3. QED
        BY <3>5, <4>1, <4>2 DEF Inside
    <3>15. Len(t[h].path) + 1 = m + 2
      BY <3>6
    <3>16. QED
      BY <3>13, <3>14, <3>15
  <2>4. QED
    BY <2>2, <2>3
<1>5. 0 \in P
  BY <1>2, <1>4
<1>6. \A n \in Nat : n \in P => n + 1 \in P
  <2>1. SUFFICES ASSUME NEW n \in Nat, n \in P PROVE n + 1 \in P
    OBVIOUS
  <2>2. \A h \in Dirs(t) : Len(t[h].path) < n + 1 => Len(t[h].path) <= n
    BY <1>2
  <2>3. \A h \in Dirs(t) : Len(t[h].path) < n + 1 /\ Begins(h) => w[Len(t[h].path) + 1] = h
    <3> HIDE DEF Begins
    <3> QED BY <2>1, <2>2
  <2>4. n + 1 \in Nat
    OBVIOUS
  <2> HIDE DEF P, Begins
  <2>5. QED
    BY <1>4, <2>3, <2>4
<1>7. \A n \in Nat : n \in P
  <2> HIDE DEF P
  <2>1. QED
    BY <1>5, <1>6, NatInd
<1>8. QED
  BY <1>2, <1>7 DEF w

(* What lies in a place is what a search of its path finds,                *)
LEMMA LiesFound ==
  ASSUME NEW f, NEW d, NEW t, NEW cut, Tidy(t, f, d, cut), Shape(t, d), NEW p \in FatPaths,
         NEW e, Lies(t, d, p, e)
  PROVE  EntryAt(f, d, p) = e /\ e \in Slot /\ e.kind # "end"
<1>1. f \in Fats /\ d \in Disks /\ Table(t, f) /\ Listed(t, d)
  BY DEF Tidy
<1>2. PICK b, j : Stands(t, d, Front(p), b, j, e)
  BY DEF Lies
<1>3. PICK h \in Dirs(t) : t[h].path = Front(p) /\ b \in Of(t, h) /\ j \in 1..Slots /\ e = d[b].slots[j] /\ Live(e)
  BY <1>2 DEF Stands
<1>4. PICK n \in Nat \ {0} : n = Len(p)
  BY PathFacts
<1>5. /\ p \in Seq(Names) /\ Last(p) \in Names /\ Front(p) = SubSeq(p, 1, n - 1)
      /\ Len(Front(p)) = n - 1 /\ \A k \in 1..n - 1 : Front(p)[k] = p[k]
  <2>1. p \in Seq(Names) /\ Last(p) \in Names /\ Front(p) = SubSeq(p, 1, n - 1)
    BY <1>4, PathFacts
  <2>2. n - 1 \in 0..Len(p)
    BY <1>4
  <2>3. QED
    BY <2>1, <2>2, PrefixIs
<1>6. Walk(f, d, p)[n] = h
  <2>1. Len(t[h].path) < Len(p) /\ (\A k \in 1..Len(t[h].path) : t[h].path[k] = p[k]) /\ Len(t[h].path) + 1 = n
    BY <1>3, <1>4, <1>5
  <2>2. QED
    BY <1>3, <1>5, <2>1, WalkFinds
<1>7. EntryAt(f, d, p) = EntryInAt(f, d, h, Last(p))
  BY <1>4, <1>6 DEF EntryAt, ResolveAt
<1>8. e.name = Last(p)
  BY DEF Lies
<1>9. EntryInAt(f, d, h, e.name) = e
  BY <1>3, <1>5, <1>8, LiveFound
<1>10. e \in Slot
  BY <1>1, <1>3, DirRow, InDirsFacts
<1>11. QED
  BY <1>3, <1>7, <1>8, <1>9, <1>10 DEF Live

(* and the other way round.                                                *)
LEMMA FoundLies ==
  ASSUME NEW f, NEW d, NEW t, NEW cut, Tidy(t, f, d, cut), NEW p \in FatPaths, EntryAt(f, d, p).kind # "end"
  PROVE  Lies(t, d, p, EntryAt(f, d, p))
<1>1. f \in Fats /\ d \in Disks /\ Table(t, f) /\ Listed(t, d)
  BY DEF Tidy
<1>2. PICK h, e, w : h = ResolveAt(f, d, p) /\ e = EntryAt(f, d, p) /\ w = WhereAt(f, d, p)
  OBVIOUS
<1>3. h \in Dirs(t) /\ t[h].path = Front(p) /\ Rests(t, d, h, Last(p), w, e)
  BY <1>1, <1>2, Lookup
<1>4. w[1] \in Of(t, h) /\ w[2] \in 1..Slots /\ e = d[w[1]].slots[w[2]] /\ Live(e) /\ e.name = Last(p)
  BY <1>3 DEF Rests, At
<1>5. Stands(t, d, Front(p), w[1], w[2], e)
  BY <1>3, <1>4 DEF Stands
<1>6. QED
  BY <1>2, <1>4, <1>5 DEF Lies

(* Tree is TreeAt of the disk.                                             *)
LEMMA TreeIs == fat \in Fats /\ data \in Disks => Tree = TreeAt(fat, data)
<1> SUFFICES ASSUME fat \in Fats, data \in Disks PROVE Tree = TreeAt(fat, data)
  OBVIOUS
<1>1. \A p \in FatPaths : EntryOf(p) = EntryAt(fat, data, p) /\ EntryOf(p) \in Slot
  BY EntryOfIs
<1> DEFINE node == [e \in Slot |-> [dir |-> e.kind = "dir", size |-> e.size]]
           P == {p \in FatPaths : Found(p)}
<1>2. Tree = [p \in P |-> node[EntryOf(p)]]
  BY DEF Tree
<1>3. P = PathsAt(fat, data)
  BY <1>1 DEF Found, PathsAt
<1>4. \A p \in P : node[EntryOf(p)] = NodeOf(EntryAt(fat, data, p))
  BY <1>1 DEF NodeOf
<1> HIDE DEF node
<1>5. QED
  BY <1>2, <1>3, <1>4 DEF TreeAt

(* A path that is found elsewhere is still found.                          *)
LEMMA StillFound ==
  ASSUME NEW f, NEW d, NEW t, NEW cut, Tidy(t, f, d, cut), Shape(t, d),
         NEW f2, NEW d2, NEW u, NEW cut2, Tidy(u, f2, d2, cut2), Shape(u, d2),
         NEW c, NEW i, Elsewhere(t, d, u, d2, c, i), NEW S \in SUBSET FatPaths, OnlyOf(t, d, c, i, S),
         NEW q \in FatPaths, q \notin S, EntryAt(f, d, q).kind # "end"
  PROVE  EntryAt(f2, d2, q) = EntryAt(f, d, q)
<1>1. PICK e : e = EntryAt(f, d, q)
  OBVIOUS
<1>2. Lies(t, d, q, e)
  BY <1>1, FoundLies
<1>3. PICK b, j : e.name = Last(q) /\ Stands(t, d, Front(q), b, j, e)
  BY <1>2 DEF Lies
<1>4. ~(b = c /\ j = i)
  <2>1. SUFFICES ASSUME b = c, j = i PROVE FALSE
    OBVIOUS
  <2>2. PICK p \in S : Front(q) = Front(p) /\ Last(q) = Last(p)
    BY <1>3, <2>1 DEF OnlyOf
  <2>3. q = Append(Front(q), Last(q)) /\ p = Append(Front(p), Last(p))
    BY PathFacts
  <2>4. QED
    BY <2>2, <2>3
<1>5. Lies(u, d2, q, e)
  BY <1>3, <1>4 DEF Elsewhere, Lies
<1>6. QED
  BY <1>1, <1>5, LiesFound

(* Where slot i of cluster c is that of a path of S, the nodes of other    *)
(* paths stay.                                                             *)
LEMMA OthersAlike ==
  ASSUME NEW f, NEW d, NEW t, NEW cut, Tidy(t, f, d, cut), Shape(t, d),
         NEW f2, NEW d2, NEW u, NEW cut2, Tidy(u, f2, d2, cut2), Shape(u, d2),
         NEW c, NEW i, Elsewhere(t, d, u, d2, c, i), NEW S \in SUBSET FatPaths,
         OnlyOf(t, d, c, i, S), OnlyOf(u, d2, c, i, S)
  PROVE  OthersStay(f, d, f2, d2, S)
<1> SUFFICES ASSUME NEW q \in FatPaths, q \notin S
             PROVE  Alike(EntryAt(f, d, q), EntryAt(f2, d2, q))
  BY DEF OthersStay
<1>1. EntryAt(f, d, q).kind # "end" => EntryAt(f2, d2, q) = EntryAt(f, d, q)
  BY StillFound
<1>2. EntryAt(f2, d2, q).kind # "end" => EntryAt(f, d, q) = EntryAt(f2, d2, q)
  <2>1. Elsewhere(u, d2, t, d, c, i)
    BY DEF Elsewhere
  <2>2. QED
    BY <2>1, StillFound
<1>3. QED
  BY <1>1, <1>2 DEF Alike

(* The tree in its parts.                                                  *)
LEMMA TreeNodes ==
  ASSUME NEW f, NEW d, NEW T, T = TreeAt(f, d)
  PROVE  IsTree(T, f, d)
BY DEF TreeAt, IsTree

(* Entries that are alike make the same node.                              *)
LEMMA AlikeNode ==
  ASSUME NEW f, NEW d, NEW f2, NEW d2, NEW p \in FatPaths, Alike(EntryAt(f, d, p), EntryAt(f2, d2, p))
  PROVE  /\ p \in PathsAt(f, d) <=> p \in PathsAt(f2, d2)
         /\ p \in PathsAt(f, d) => NodeOf(EntryAt(f, d, p)) = NodeOf(EntryAt(f2, d2, p))
BY DEF Alike, PathsAt, NodeOf

(* Where the other nodes stay, so does the rest of the tree.               *)
LEMMA RestStays ==
  ASSUME NEW f, NEW d, NEW f2, NEW d2, NEW S, OthersStay(f, d, f2, d2, S),
         NEW T, IsTree(T, f, d), NEW T2, IsTree(T2, f2, d2)
  PROVE  RestSame(T, T2, S)
<1>1. DOMAIN T = PathsAt(f, d) /\ \A p \in PathsAt(f, d) : T[p] = NodeOf(EntryAt(f, d, p))
  BY DEF IsTree
<1>2. DOMAIN T2 = PathsAt(f2, d2) /\ \A p \in PathsAt(f2, d2) : T2[p] = NodeOf(EntryAt(f2, d2, p))
  BY DEF IsTree
<1>3. \A q \in FatPaths \ S :
        /\ q \in PathsAt(f, d) <=> q \in PathsAt(f2, d2)
        /\ q \in PathsAt(f, d) => NodeOf(EntryAt(f, d, q)) = NodeOf(EntryAt(f2, d2, q))
  BY AlikeNode DEF OthersStay
<1>4. PathsAt(f, d) \subseteq FatPaths /\ PathsAt(f2, d2) \subseteq FatPaths
  BY DEF PathsAt
<1>5. QED
  BY <1>1, <1>2, <1>3, <1>4 DEF RestSame

(* Where all nodes stay, the tree does.                                    *)
LEMMA TreeStays ==
  ASSUME NEW f, NEW d, NEW f2, NEW d2, OthersStay(f, d, f2, d2, {}),
         NEW T, IsTree(T, f, d), NEW T2, IsTree(T2, f2, d2)
  PROVE  T2 = T
<1>1. RestSame(T, T2, {})
  BY RestStays
<1>2. T = [p \in DOMAIN T |-> T[p]] /\ T2 = [p \in DOMAIN T2 |-> T2[p]]
  BY DEF IsTree
<1>3. DOMAIN T2 = DOMAIN T /\ \A q \in DOMAIN T : T2[q] = T[q]
  BY <1>1 DEF RestSame
<1>4. QED
  BY <1>2, <1>3

(* A path that is found now, with every other path as before, is made,     *)
LEMMA TreeMade ==
  ASSUME NEW f, NEW d, NEW f2, NEW d2, NEW p \in FatPaths, OthersStay(f, d, f2, d2, {p}),
         NEW T, IsTree(T, f, d), NEW T2, IsTree(T2, f2, d2),
         EntryAt(f, d, p).kind = "end", EntryAt(f2, d2, p).kind # "end"
  PROVE  WithNode(T, T2, p, NodeOf(EntryAt(f2, d2, p)))
<1>1. DOMAIN T2 \ {p} = DOMAIN T \ {p} /\ \A q \in DOMAIN T \ {p} : T2[q] = T[q]
  <2>1. RestSame(T, T2, {p})
    BY RestStays
  <2>2. QED
    BY <2>1 DEF RestSame
<1>2. p \notin DOMAIN T
  BY DEF IsTree, PathsAt
<1>3. p \in DOMAIN T2 /\ T2[p] = NodeOf(EntryAt(f2, d2, p)) /\ T2 = [q \in DOMAIN T2 |-> T2[q]]
  BY DEF IsTree, PathsAt
<1>4. PICK x : x = NodeOf(EntryAt(f2, d2, p))
  OBVIOUS
<1>5. DOMAIN T2 = DOMAIN T \union {p}
  BY <1>1, <1>2, <1>3
<1>6. \A q \in DOMAIN T2 : T2[q] = IF q = p THEN x ELSE T[q]
  BY <1>1, <1>3, <1>4, <1>5
<1>7. T2 = [q \in DOMAIN T \union {p} |-> IF q = p THEN x ELSE T[q]]
  BY <1>3, <1>5, <1>6
<1>8. T2 # T
  BY <1>2, <1>3
<1>9. QED
  BY <1>2, <1>4, <1>7, <1>8 DEF WithNode

(* one that is no more found is removed,                                   *)
LEMMA TreeLost ==
  ASSUME NEW f, NEW d, NEW f2, NEW d2, NEW p \in FatPaths, OthersStay(f, d, f2, d2, {p}),
         NEW T, IsTree(T, f, d), NEW T2, IsTree(T2, f2, d2),
         EntryAt(f, d, p).kind # "end", EntryAt(f2, d2, p).kind = "end"
  PROVE  WithoutNode(T, T2, p)
<1>1. DOMAIN T2 \ {p} = DOMAIN T \ {p} /\ \A q \in DOMAIN T \ {p} : T2[q] = T[q]
  <2>1. RestSame(T, T2, {p})
    BY RestStays
  <2>2. QED
    BY <2>1 DEF RestSame
<1>2. p \in DOMAIN T
  BY DEF IsTree, PathsAt
<1>3. p \notin DOMAIN T2 /\ T2 = [q \in DOMAIN T2 |-> T2[q]]
  BY DEF IsTree, PathsAt
<1>4. DOMAIN T2 = DOMAIN T \ {p}
  BY <1>1, <1>3
<1>5. T2 # T /\ T2 = [q \in DOMAIN T \ {p} |-> T[q]]
  BY <1>1, <1>2, <1>3, <1>4
<1>6. QED
  BY <1>2, <1>5 DEF WithoutNode

(* and a file with another size is resized.                                *)
LEMMA TreeSized ==
  ASSUME NEW f, NEW d, NEW f2, NEW d2, NEW p \in FatPaths, OthersStay(f, d, f2, d2, {p}),
         NEW T, IsTree(T, f, d), NEW T2, IsTree(T2, f2, d2),
         EntryAt(f, d, p).kind = "file", EntryAt(f2, d2, p).kind = "file"
  PROVE  p \in DOMAIN T /\ ~T[p].dir /\ T2 = [T EXCEPT ![p].size = EntryAt(f2, d2, p).size]
<1>1. DOMAIN T2 \ {p} = DOMAIN T \ {p} /\ \A q \in DOMAIN T \ {p} : T2[q] = T[q]
  <2>1. RestSame(T, T2, {p})
    BY RestStays
  <2>2. QED
    BY <2>1 DEF RestSame
<1>2. p \in DOMAIN T /\ T[p] = NodeOf(EntryAt(f, d, p)) /\ T = [q \in DOMAIN T |-> T[q]]
  BY DEF IsTree, PathsAt
<1>3. p \in DOMAIN T2 /\ T2[p] = NodeOf(EntryAt(f2, d2, p)) /\ T2 = [q \in DOMAIN T2 |-> T2[q]]
  BY DEF IsTree, PathsAt
<1>4. PICK s, s2 : s = EntryAt(f, d, p).size /\ s2 = EntryAt(f2, d2, p).size
  OBVIOUS
<1>5. T[p] = [dir |-> FALSE, size |-> s] /\ T2[p] = [dir |-> FALSE, size |-> s2]
  <2>1. EntryAt(f, d, p).kind # "dir" /\ EntryAt(f2, d2, p).kind # "dir"
    OBVIOUS
  <2>2. T[p] = [dir |-> EntryAt(f, d, p).kind = "dir", size |-> s]
    BY <1>2, <1>4 DEF NodeOf
  <2>3. T2[p] = [dir |-> EntryAt(f2, d2, p).kind = "dir", size |-> s2]
    BY <1>3, <1>4 DEF NodeOf
  <2>4. QED
    BY <2>1, <2>2, <2>3
<1>6. T2[p] = [T[p] EXCEPT !.size = s2] /\ ~T[p].dir
  <2>1. PICK no : no = FALSE
    OBVIOUS
  <2>2. PICK r, r2 : r = T[p] /\ r2 = T2[p]
    OBVIOUS
  <2>3. r = [dir |-> no, size |-> s] /\ r2 = [dir |-> no, size |-> s2]
    BY <1>5, <2>1, <2>2
  <2>4. r2 = [r EXCEPT !.size = s2] /\ r.dir = no
    BY <2>3
  <2>5. QED
    BY <2>1, <2>2, <2>4
<1>7. DOMAIN T2 = DOMAIN T
  BY <1>1, <1>2, <1>3
<1>8. PICK y : y = [T[p] EXCEPT !.size = s2]
  OBVIOUS
<1>9. \A q \in DOMAIN T : T2[q] = IF q = p THEN y ELSE T[q]
  BY <1>1, <1>6, <1>8
<1>10. T2 = [T EXCEPT ![p] = y]
  BY <1>2, <1>3, <1>7, <1>9
<1>11. QED
  BY <1>2, <1>4, <1>6, <1>8, <1>10

(* A path in a row's directory has its parent in the tree.                 *)
LEMMA ParentFound ==
  ASSUME NEW f, NEW d, NEW t, NEW cut, Tidy(t, f, d, cut), Shape(t, d),
         NEW h \in Dirs(t), t[h].path # <<>>
  PROVE  t[h].path \in FatPaths /\ EntryAt(f, d, t[h].path).kind = "dir" /\ EntryAt(f, d, t[h].path).first = h
<1>1. f \in Fats /\ d \in Disks /\ Table(t, f)
  BY DEF Tidy
<1>2. h \in DOMAIN t /\ h # Root /\ t[h].kind = "dir"
  BY <1>1, DirRow DEF Table
<1>3. PICK p \in FatPaths : p = t[h].path
  BY <1>2 DEF Shape
<1>4. PICK g \in Dirs(t) : \E c \in Of(t, g), i \in 1..Slots :
        /\ Live(d[c].slots[i]) /\ d[c].slots[i].first = h
        /\ t[h].kind = d[c].slots[i].kind
        /\ t[h].path = Append(t[g].path, d[c].slots[i].name)
  <2>1. Whole(t, d)
    BY DEF Shape
  <2>2. QED
    BY <1>2, <2>1, RowNamed
<1>5. PICK c \in Of(t, g), i \in 1..Slots :
        /\ Live(d[c].slots[i]) /\ d[c].slots[i].first = h
        /\ t[h].kind = d[c].slots[i].kind
        /\ t[h].path = Append(t[g].path, d[c].slots[i].name)
  BY <1>4
<1>6. PICK e : e = d[c].slots[i]
  OBVIOUS
<1>7. Live(e) /\ e.first = h /\ e.kind = "dir" /\ p = Append(t[g].path, e.name)
  BY <1>2, <1>3, <1>5, <1>6
<1>8. Front(p) = t[g].path /\ Last(p) = e.name
  <2>1. /\ p \in Seq(Names) /\ Front(p) \in Seq(Names) /\ p = Append(Front(p), Last(p))
        /\ t[g].path \in Seq(Names)
    BY <1>1, DirRow, PathFacts, RowFacts
  <2>2. PICK a, b, x, y : a = Front(p) /\ b = t[g].path /\ x = Last(p) /\ y = e.name
    OBVIOUS
  <2>3. a \in Seq(Names) /\ b \in Seq(Names) /\ Append(a, x) = Append(b, y)
    BY <1>7, <2>1, <2>2
  <2>4. a = b /\ x = y
    BY <2>3, AppendSame
  <2>5. QED
    BY <2>2, <2>4
<1>9. Lies(t, d, p, e)
  BY <1>5, <1>6, <1>7, <1>8 DEF Lies, Stands
<1>10. EntryAt(f, d, p) = e
  BY <1>9, LiesFound
<1>11. QED
  BY <1>3, <1>7, <1>10

(* Then nothing stands differently.                                        *)
LEMMA GrownElsewhere ==
  ASSUME NEW t, NEW d, NEW u, NEW d2, NEW c, NEW i, Grown(t, d, u, d2, c, i)
  PROVE  Elsewhere(t, d, u, d2, c, i) /\ Elsewhere(u, d2, t, d, c, i)
<1>1. ASSUME NEW q, NEW b, NEW j, NEW e, ~(b = c /\ j = i), Stands(t, d, q, b, j, e)
      PROVE  Stands(u, d2, q, b, j, e)
  <2>1. PICK h \in Dirs(t) : t[h].path = q /\ b \in Of(t, h) /\ j \in 1..Slots /\ e = d[b].slots[j] /\ Live(e)
    BY <1>1 DEF Stands
  <2>2. h \in Dirs(u) /\ u[h].path = q /\ b \in Of(u, h)
    BY <2>1 DEF Grown
  <2>3. d2[b].slots[j] = d[b].slots[j]
    BY <1>1, <2>1 DEF Grown
  <2>4. QED
    BY <2>1, <2>2, <2>3 DEF Stands
<1>2. ASSUME NEW q, NEW b, NEW j, NEW e, ~(b = c /\ j = i), Stands(u, d2, q, b, j, e)
      PROVE  Stands(t, d, q, b, j, e)
  <2>1. PICK h \in Dirs(u) : u[h].path = q /\ b \in Of(u, h) /\ j \in 1..Slots /\ e = d2[b].slots[j] /\ Live(e)
    BY <1>2 DEF Stands
  <2>2. h \in Dirs(t) /\ b \in Of(t, h) /\ t[h].path = q
    BY <2>1 DEF Grown
  <2>3. d2[b].slots[j] = d[b].slots[j]
    BY <1>2, <2>1, <2>2 DEF Grown
  <2>4. QED
    BY <2>1, <2>2, <2>3 DEF Stands
<1>3. QED
  BY <1>1, <1>2 DEF Elsewhere

(* The slot i of a cluster of h is that of the path p, if it has its name. *)
LEMMA SlotOf ==
  ASSUME NEW f, NEW d, NEW t, NEW cut, Tidy(t, f, d, cut),
         NEW h \in Dirs(t), NEW c \in Of(t, h), NEW i \in 1..Slots,
         NEW p \in FatPaths, t[h].path = Front(p),
         Live(d[c].slots[i]) => d[c].slots[i].name = Last(p)
  PROVE  OnlyOf(t, d, c, i, {p})
<1> SUFFICES ASSUME NEW q, NEW e, Stands(t, d, q, c, i, e)
             PROVE  q = Front(p) /\ e.name = Last(p)
  BY DEF OnlyOf
<1>1. PICK g \in Dirs(t) : t[g].path = q /\ c \in Of(t, g) /\ e = d[c].slots[i] /\ Live(e)
  BY DEF Stands
<1>2. g = h
  BY <1>1 DEF Tidy, Table, Dirs
<1>3. QED
  BY <1>1, <1>2

(* A live slot with the name of p in its directory is what p finds.        *)
LEMMA SlotFound ==
  ASSUME NEW f, NEW d, NEW t, NEW cut, Tidy(t, f, d, cut), Shape(t, d),
         NEW h \in Dirs(t), NEW c \in Of(t, h), NEW i \in 1..Slots,
         NEW p \in FatPaths, t[h].path = Front(p),
         Live(d[c].slots[i]), d[c].slots[i].name = Last(p)
  PROVE  EntryAt(f, d, p) = d[c].slots[i] /\ EntryAt(f, d, p).kind # "end"
<1>1. PICK e : e = d[c].slots[i]
  OBVIOUS
<1>2. Stands(t, d, Front(p), c, i, e)
  BY <1>1 DEF Stands
<1>3. Lies(t, d, p, e)
  BY <1>1, <1>2 DEF Lies
<1>4. QED
  BY <1>1, <1>3, LiesFound

(* A new name is not found.                                                *)
LEMMA NewNotFound ==
  ASSUME NEW f, NEW d, NEW t, NEW cut, Tidy(t, f, d, cut), Shape(t, d),
         NEW h \in Dirs(t), NEW p \in FatPaths, t[h].path = Front(p), NewName(t, d, h, Last(p))
  PROVE  EntryAt(f, d, p).kind = "end"
<1>1. SUFFICES ASSUME EntryAt(f, d, p).kind # "end" PROVE FALSE
  OBVIOUS
<1>2. PICK e : e = EntryAt(f, d, p)
  OBVIOUS
<1>3. Lies(t, d, p, e)
  BY <1>1, <1>2, FoundLies
<1>4. PICK b, j : e.name = Last(p) /\ Stands(t, d, Front(p), b, j, e)
  BY <1>3 DEF Lies
<1>5. PICK g \in Dirs(t) : t[g].path = Front(p) /\ b \in Of(t, g) /\ j \in 1..Slots /\ e = d[b].slots[j] /\ Live(e)
  BY <1>4 DEF Stands
<1>6. g = h
  BY <1>5 DEF Shape, Dirs
<1>7. QED
  BY <1>4, <1>5, <1>6 DEF NewName

(* Steps that leave every live slot alone leave the tree.                  *)
LEMMA StillTree ==
  ASSUME NEW f, NEW d, NEW t, NEW cut, Tidy(t, f, d, cut), Shape(t, d),
         NEW f2, NEW d2, NEW u, NEW cut2, Tidy(u, f2, d2, cut2), Shape(u, d2),
         Grown(t, d, u, d2, 0, 0)
  PROVE  OthersStay(f, d, f2, d2, {})
<1>1. Elsewhere(t, d, u, d2, 0, 0)
  BY GrownElsewhere
<1>2. OnlyOf(t, d, 0, 0, {}) /\ OnlyOf(u, d2, 0, 0, {})
  <2>1. 0 \notin 1..Slots
    BY Geometry
  <2>2. QED
    BY <2>1 DEF OnlyOf, Stands
<1>3. {} \in SUBSET FatPaths
  OBVIOUS
<1>4. QED
  BY <1>1, <1>2, <1>3, OthersAlike

(* Then the tree stays,                                                    *)
LEMMA SameTree ==
  ASSUME NEW f, NEW d, NEW t, NEW cut, Tidy(t, f, d, cut), Shape(t, d),
         NEW f2, NEW d2, NEW cut2, Tidy(t, f2, d2, cut2), Shape(t, d2), SameSlots(t, d, d2)
  PROVE  OthersStay(f, d, f2, d2, {})
<1>1. \A h \in Dirs(t) : \A b \in Of(t, h) : b \in InDirs(t)
  BY DEF InDirs
<1>2. Grown(t, d, t, d2, 0, 0)
  BY <1>1 DEF Grown, SameSlots
<1>3. QED
  BY <1>2, StillTree

(* where nothing but the FAT is written,                                   *)
LEMMA DataKept ==
  ASSUME NEW t, Now(t), Full(t), Now(t)', Full(t)', data' = data
  PROVE  OthersStay(fat, data, fat', data', {})
<1>1. Tidy(t, fat, data, failed) /\ Shape(t, data) /\ Tidy(t, fat', data', failed') /\ Shape(t, data')
  BY DEF Now, Full
<1>2. SameSlots(t, data, data')
  BY DEF SameSlots
<1>3. QED
  BY <1>1, <1>2, SameTree

(* or nothing but a cluster outside the directories,                       *)
LEMMA ElsewhereKept ==
  ASSUME NEW t, Now(t), Full(t), Now(t)', Full(t)', NEW c, c \notin InDirs(t), NEW x, data' = [data EXCEPT ![c] = x]
  PROVE  OthersStay(fat, data, fat', data', {})
<1>1. Tidy(t, fat, data, failed) /\ Shape(t, data) /\ Tidy(t, fat', data', failed') /\ Shape(t, data')
  BY DEF Now, Full
<1>2. \A b \in InDirs(t) : data'[b] = data[b]
  <2>1. data \in Disks
    BY <1>1 DEF Tidy
  <2>2. InDirs(t) \subseteq 0..LastCluster
    BY <1>1, InDirsFacts
  <2>3. QED
    BY <2>1, <2>2 DEF Disks
<1>3. SameSlots(t, data, data')
  BY <1>2 DEF SameSlots
<1>4. QED
  BY <1>1, <1>3, SameTree

(* a cluster that no row of the table has,                                 *)
LEMMA UntakenKept ==
  ASSUME NEW t, NEW c, c \notin Taken(t)
  PROVE  c \notin InDirs(t)
BY DEF InDirs, Taken, Dirs

(* or the dots of a directory without entries;                             *)
LEMMA DotsKept ==
  ASSUME Typed, NEW t, Now(t), Full(t), Now(t)', Full(t)', Dots
  PROVE  OthersStay(fat, data, fat', data', {})
<1> DEFINE parent == ResolvePath(job.path)
           up == IF parent = Root THEN 0 ELSE parent
           row == [i \in 1..Slots |-> CASE i = 1 -> Dot(1, job.first)
                                        [] i = 2 -> Dot(2, up)
                                        [] OTHER -> End]
<1>1. job.stage = "dots" /\ data' = [data EXCEPT ![job.first].slots = row]
  BY DEF Dots
<1>2. /\ Tidy(t, fat, data, failed) /\ Shape(t, data) /\ Tidy(t, fat', data', failed') /\ Shape(t, data')
      /\ data \in Disks /\ AddsDots(t, data, job)
  BY <1>1, NowFacts DEF Now, Full, JobOK
<1>3. \A i \in 1..Slots : ~Live(row[i])
  <2>1. Dot(1, job.first).kind = "dot" /\ Dot(2, up).kind = "dot" /\ End.kind = "end"
    BY SlotFacts DEF Dot, Entry
  <2> HIDE DEF up
  <2>2. \A i \in 1..Slots : row[i].kind \in {"dot", "end"}
    BY <2>1, Geometry
  <2>3. QED
    BY <2>2 DEF Live
<1> HIDE DEF row
<1>4. InDirs(t) \subseteq 0..LastCluster
  BY <1>2, InDirsFacts
<1>5. ASSUME NEW c \in InDirs(t), NEW i \in 1..Slots
      PROVE  data'[c].slots[i] = data[c].slots[i] \/ (~Live(data'[c].slots[i]) /\ ~Live(data[c].slots[i]))
  <2>1. CASE c # job.first
    BY <1>1, <1>2, <1>4, <2>1 DEF Disks
  <2>2. CASE c = job.first
    <3>1. ~Live(data[c].slots[i])
      BY <1>2, <2>2, ZerosIs DEF AddsDots
    <3>2. data[c] \in Content
      BY <1>2, <1>4, DiskFacts
    <3>3. data'[c].slots = row
      BY <1>1, <1>2, <1>4, <2>2, <3>2 DEF Disks, Content
    <3>4. QED
      BY <1>3, <3>1, <3>3
  <2>3. QED
    BY <2>1, <2>2
<1>6. SameSlots(t, data, data')
  BY <1>5 DEF SameSlots
<1>7. QED
  BY <1>2, <1>6, SameTree

(* or where a chain grows.                                                 *)
LEMMA LinkKept ==
  ASSUME NEW t, Now(t), Full(t), NEW u, Now(u)', Full(u)', data' = data,
         NEW h \in DOMAIN t, NEW c, Blank(t, fat, data, c), u = Extended(t, h, c)
  PROVE  OthersStay(fat, data, fat', data', {})
<1>1. Tidy(t, fat, data, failed) /\ Shape(t, data) /\ Tidy(u, fat', data', failed') /\ Shape(u, data')
  BY DEF Now, Full
<1>2. t[h].chain \in Seq(Cluster) /\ c \in Cluster /\ data[c] = Zeros
  BY <1>1, RowFacts DEF Tidy, Blank, Loose
<1>3. ExtendedTo(t, h, c, u)
  BY <1>2, ExtendedIs
<1>4. \A i \in 1..Slots : ~Live(data[c].slots[i])
  BY <1>2, ZerosIs
<1>5. /\ Dirs(u) = Dirs(t) /\ Dirs(t) \subseteq DOMAIN t
      /\ \A g \in DOMAIN t : u[g].path = t[g].path
      /\ Of(u, h) = Of(t, h) \union {c} /\ \A g \in DOMAIN t : g # h => Of(u, g) = Of(t, g)
  BY <1>3 DEF ExtendedTo, Dirs
<1>6. Grown(t, data, u, data', 0, 0)
  BY <1>4, <1>5 DEF Grown
<1>7. QED
  BY <1>1, <1>6, StillTree

(* The write of its entry makes a path.                                    *)
LEMMA EntryMakes ==
  ASSUME Typed, NEW t, Now(t), Full(t), NEW h \in Dirs(t), NEW l \in 1..Len(t[h].chain), NEW i \in 1..Slots,
         Entering(t, h, l, i),
         NEW u, u = Added(t, job.first, Row(job.op, job.path, <<job.first>>)), Now(u)', Full(u)'
  PROVE  Makes(fat, data, fat', data', job.path, job.op = "dir")
<1>1. /\ job \in Jobs /\ Tidy(t, fat, data, failed) /\ Shape(t, data)
      /\ Tidy(u, fat', data', failed') /\ Shape(u, data')
      /\ fat \in Fats /\ data \in Disks /\ Table(t, fat)
  BY NowFacts DEF Now, Full
<1>2. /\ Making(job) /\ t[h].path = Front(job.path) /\ Blank(t, fat, data, job.first)
      /\ NewName(t, data, h, Last(job.path)) /\ ~Live(data[t[h].chain[l]].slots[i])
      /\ EntryWritten(<<t[h].chain[l], i>>)
  BY DEF Entering
<1>3. PICK p \in FatPaths, k \in {"file", "dir"}, b \in 0..LastCluster :
        p = job.path /\ k = job.op /\ b = job.first
  BY <1>1, <1>2 DEF Making, Jobs
<1>4. PICK x : x = Entry(k, Last(p), b)
  OBVIOUS
<1>5. x \in Slot /\ Live(x) /\ x.name = Last(p) /\ x.first = b /\ x.kind = k /\ x.size = 0
  BY <1>3, <1>4, PathFacts DEF Entry, Slot, Live
<1>6. PICK c : c = t[h].chain[l]
  OBVIOUS
<1>7. data' = WriteSlot(data, c, i, x)
  BY <1>2, <1>3, <1>4, <1>6 DEF EntryWritten, WriteEntry, WriteSlot
<1>8. c \in InDirs(t) /\ c \in Of(t, h) /\ c \in 0..LastCluster /\ Len(data[c].slots) = Slots
  BY <1>1, <1>6, RowSlots
<1>9. Blank(t, fat, data, b) /\ b \notin DOMAIN t /\ b # c
  <2>1. Blank(t, fat, data, b)
    BY <1>2, <1>3
  <2>2. \A g \in DOMAIN t : g \in Taken(t)
    BY <1>1, RowFacts DEF Taken
  <2>3. c \in Taken(t)
    BY <1>1, <1>8, InDirsFacts
  <2>4. QED
    BY <2>1, <2>2, <2>3 DEF Blank, Loose
<1>10. AddedTo(t, b, k, p, u)
  <2>1. PICK v : v = Added(t, b, Row(k, p, <<b>>))
    OBVIOUS
  <2>2. AddedTo(t, b, k, p, v)
    BY <1>9, <2>1, AddedIs
  <2>3. v = u
    BY <1>3, <2>1
  <2>4. QED
    BY <2>2, <2>3
<1>11. PICK d2 : d2 = data'
  OBVIOUS
<1>12. /\ \A a \in 0..LastCluster : a # c => d2[a] = data[a]
       /\ d2[c].slots[i] = x
       /\ \A j \in 1..Slots : j # i => d2[c].slots[j] = data[c].slots[j]
  BY <1>1, <1>5, <1>7, <1>8, <1>11, WriteSlotIs
<1>13. /\ \A g \in Dirs(t) : g \in Dirs(u) /\ u[g] = t[g] /\ Of(u, g) = Of(t, g)
       /\ \A g \in Dirs(u) : g \in Dirs(t) \/ (g = b /\ Of(u, g) = {b})
  BY <1>10 DEF AddedTo, Dirs
<1>14. \A j \in 1..Slots : ~Live(d2[b].slots[j])
  <2>1. d2[b] = Zeros
    BY <1>3, <1>9, <1>12 DEF Blank
  <2>2. QED
    BY <2>1, ZerosIs
<1>15. Grown(t, data, u, d2, c, i)
  <2>1. \A g \in Dirs(t) : g \in Dirs(u) /\ u[g].path = t[g].path /\ Of(t, g) \subseteq Of(u, g)
    BY <1>13
  <2>2. \A g \in Dirs(u) : \A a \in Of(u, g), j \in 1..Slots :
          Live(d2[a].slots[j]) => g \in Dirs(t) /\ a \in Of(t, g)
    BY <1>13, <1>14
  <2>3. ASSUME NEW g \in Dirs(t), NEW a \in Of(t, g), NEW j \in 1..Slots, ~(a = c /\ j = i)
        PROVE  d2[a].slots[j] = data[a].slots[j]
    <3>1. a \in 0..LastCluster
      BY <1>1, <2>3, DirRow, InDirsFacts
    <3>2. QED
      BY <1>12, <2>3, <3>1
  <2>4. QED
    BY <2>1, <2>2, <2>3 DEF Grown
<1>16. PICK f2, cut2 : f2 = fat' /\ cut2 = failed'
  OBVIOUS
<1>17. Tidy(u, f2, d2, cut2) /\ Shape(u, d2)
  BY <1>1, <1>11, <1>16
<1>18. h \in Dirs(u) /\ c \in Of(u, h) /\ u[h].path = Front(p) /\ t[h].path = Front(p)
  BY <1>2, <1>3, <1>8, <1>13
<1>19. ~Live(data[c].slots[i]) /\ Live(d2[c].slots[i]) /\ d2[c].slots[i].name = Last(p)
  BY <1>2, <1>5, <1>6, <1>12
<1>20. OnlyOf(t, data, c, i, {p}) /\ OnlyOf(u, d2, c, i, {p})
  <2>1. OnlyOf(t, data, c, i, {p})
    BY <1>1, <1>8, <1>18, <1>19, SlotOf
  <2>2. OnlyOf(u, d2, c, i, {p})
    BY <1>17, <1>18, <1>19, SlotOf
  <2>3. QED
    BY <2>1, <2>2
<1>21. OthersStay(fat, data, f2, d2, {p})
  <2>1. Elsewhere(t, data, u, d2, c, i)
    BY <1>15, GrownElsewhere
  <2>2. {p} \in SUBSET FatPaths
    OBVIOUS
  <2>3. QED
    BY <1>1, <1>17, <1>20, <2>1, <2>2, OthersAlike
<1>22. EntryAt(fat, data, p).kind = "end"
  <2>1. NewName(t, data, h, Last(p))
    BY <1>2, <1>3
  <2>2. QED
    BY <1>1, <1>18, <2>1, NewNotFound
<1>23. EntryAt(f2, d2, p) = x
  <2>1. EntryAt(f2, d2, p) = d2[c].slots[i]
    BY <1>17, <1>18, <1>19, SlotFound
  <2>2. QED
    BY <1>12, <2>1
<1>24. ASSUME Len(p) > 1 PROVE Front(p) \in FatPaths /\ EntryAt(fat, data, Front(p)).kind = "dir"
  <2>1. t[h].path # <<>>
    BY <1>18, <1>24, PathFacts
  <2>2. t[h].path \in FatPaths /\ EntryAt(fat, data, t[h].path).kind = "dir"
    BY <1>1, <2>1, ParentFound
  <2>3. QED
    BY <1>18, <2>2
<1>25. PICK e2 : e2 = EntryAt(f2, d2, p)
  OBVIOUS
<1>26. e2.kind = (IF k = "dir" THEN "dir" ELSE "file") /\ e2.size = 0
  BY <1>3, <1>5, <1>23, <1>25
<1>27. Makes(fat, data, f2, d2, p, k = "dir")
  BY <1>21, <1>22, <1>24, <1>25, <1>26 DEF Makes
<1>28. QED
  BY <1>3, <1>11, <1>16, <1>27

(* Where the slot of a path is written, what other paths find stays.       *)
LEMMA RewriteStays ==
  ASSUME NEW f, NEW d, NEW t, NEW cut, Tidy(t, f, d, cut), Shape(t, d),
         NEW h \in Dirs(t), NEW c \in Of(t, h), NEW i \in 1..Slots,
         NEW p \in FatPaths, t[h].path = Front(p), Live(d[c].slots[i]), d[c].slots[i].name = Last(p),
         NEW x \in Slot, Live(x) => x.name = Last(p), NEW d2, d2 = WriteSlot(d, c, i, x),
         NEW f2, NEW u, NEW cut2, Tidy(u, f2, d2, cut2), Shape(u, d2), Fewer(t, d, u)
  PROVE  OthersStay(f, d, f2, d2, {p}) /\ NowFinds(f2, d2, p, x)
<1>1. c \in InDirs(t) /\ c \in 0..LastCluster /\ Len(d[c].slots) = Slots /\ d \in Disks
  BY DirRow, InDirsFacts DEF Tidy
<1>2. /\ \A b \in 0..LastCluster : b # c => d2[b] = d[b]
      /\ d2[c].slots[i] = x /\ \A j \in 1..Slots : j # i => d2[c].slots[j] = d[c].slots[j]
  BY <1>1, WriteSlotIs
<1>3. \A g \in Dirs(t) : Of(t, g) \subseteq 0..LastCluster
  BY DirRow, InDirsFacts DEF Tidy
<1>4. ASSUME NEW g \in Dirs(t), NEW b \in Of(t, g), NEW j \in 1..Slots, ~(b = c /\ j = i)
      PROVE  d2[b].slots[j] = d[b].slots[j]
  BY <1>2, <1>3, <1>4
<1>5. Grown(u, d2, t, d, c, i)
  <2>1. \A g \in Dirs(u) : g \in Dirs(t) /\ t[g].path = u[g].path /\ Of(u, g) \subseteq Of(t, g)
    BY DEF Fewer
  <2>2. \A g \in Dirs(t) : \A b \in Of(t, g), j \in 1..Slots :
          Live(d[b].slots[j]) => g \in Dirs(u) /\ b \in Of(u, g)
    BY DEF Fewer
  <2>3. \A g \in Dirs(u) : \A b \in Of(u, g), j \in 1..Slots :
          (b = c /\ j = i) \/ d[b].slots[j] = d2[b].slots[j]
    BY <1>4 DEF Fewer
  <2>4. QED
    BY <2>1, <2>2, <2>3 DEF Grown
<1>6. h \in Dirs(u) /\ u[h].path = Front(p) /\ c \in Of(u, h) /\ Of(u, h) = Of(t, h)
  BY DEF Fewer
<1>7. OnlyOf(t, d, c, i, {p}) /\ OnlyOf(u, d2, c, i, {p})
  <2>1. OnlyOf(t, d, c, i, {p})
    BY SlotOf
  <2>2. Live(d2[c].slots[i]) => d2[c].slots[i].name = Last(p)
    BY <1>2
  <2>3. OnlyOf(u, d2, c, i, {p})
    BY <1>6, <2>2, SlotOf
  <2>4. QED
    BY <2>1, <2>3
<1>8. OthersStay(f, d, f2, d2, {p})
  <2>1. Elsewhere(t, d, u, d2, c, i)
    BY <1>5, GrownElsewhere
  <2>2. {p} \in SUBSET FatPaths
    OBVIOUS
  <2>3. QED
    BY <1>7, <2>1, <2>2, OthersAlike
<1>9. CASE Live(x)
  <2>1. Live(d2[c].slots[i]) /\ d2[c].slots[i].name = Last(p)
    BY <1>2, <1>9
  <2>2. EntryAt(f2, d2, p) = d2[c].slots[i]
    BY <1>6, <2>1, SlotFound
  <2>3. QED
    BY <1>2, <1>8, <1>9, <2>2 DEF NowFinds
<1>10. CASE ~Live(x)
  <2>1. ASSUME NEW b \in Of(u, h), NEW j \in 1..Slots, Live(d2[b].slots[j])
        PROVE  d2[b].slots[j].name # Last(p)
    <3>1. ~(b = c /\ j = i)
      BY <1>2, <1>10, <2>1
    <3>2. d2[b].slots[j] = d[b].slots[j] /\ b \in Of(t, h)
      BY <1>4, <1>6, <3>1
    <3>3. Distinct(t, d, h)
      BY DEF Shape
    <3>4. Live(d[b].slots[j])
      BY <2>1, <3>2
    <3>5. d[b].slots[j].name # d[c].slots[i].name
      BY <3>1, <3>2, <3>3, <3>4 DEF Distinct
    <3>6. QED
      BY <3>2, <3>5
  <2>2. NewName(u, d2, h, Last(p))
    BY <2>1 DEF NewName
  <2>3. EntryAt(f2, d2, p).kind = "end"
    BY <1>6, <2>2, NewNotFound
  <2>4. QED
    BY <1>8, <1>10, <2>3 DEF NowFinds
<1>11. QED
  BY <1>9, <1>10

(* A path that is found has a slot.                                        *)
LEMMA HasSlot ==
  ASSUME Typed, NEW t, Now(t), NEW p \in FatPaths, EntryAt(fat, data, p).kind # "end"
  PROVE  \E g, c, i, e : Slotted(t, p, g, c, i, e)
<1>1. PICK g \in Dirs(t) : \E l \in 1..Len(t[g].chain), i \in 1..Slots :
           /\ t[g].path = Front(p) /\ PlaceOf(p) = <<t[g].chain[l], i>>
           /\ EntryOf(p) = data[t[g].chain[l]].slots[i] /\ EntryOf(p) = EntryAt(fat, data, p)
           /\ EntryOf(p) \in Slot /\ Live(EntryOf(p)) /\ EntryOf(p).name = Last(p)
           /\ Named(t, t[g].path, EntryOf(p))
  BY FoundSlot
<1>2. PICK l \in 1..Len(t[g].chain), i \in 1..Slots :
           /\ t[g].path = Front(p) /\ PlaceOf(p) = <<t[g].chain[l], i>>
           /\ EntryOf(p) = data[t[g].chain[l]].slots[i] /\ EntryOf(p) = EntryAt(fat, data, p)
           /\ EntryOf(p) \in Slot /\ Live(EntryOf(p)) /\ EntryOf(p).name = Last(p)
           /\ Named(t, t[g].path, EntryOf(p))
  BY <1>1
<1>3. PICK c, e : c = t[g].chain[l] /\ e = EntryOf(p)
  OBVIOUS
<1>4. c \in Of(t, g)
  BY <1>3 DEF Of
<1>5. Slotted(t, p, g, c, i, e)
  BY <1>2, <1>3, <1>4 DEF Slotted
<1>6. QED
  BY <1>5

(* A write over the slot of a path.                                        *)
LEMMA SlotWritten ==
  ASSUME NEW t, Now(t), Full(t), NEW p \in FatPaths, NEW g, NEW c, NEW i, NEW e, Slotted(t, p, g, c, i, e),
         NEW x \in Slot, Live(x) => x.name = Last(p), WriteEntry(PlaceOf(p), x),
         NEW u, Now(u)', Full(u)', Fewer(t, data, u)
  PROVE  OthersStay(fat, data, fat', data', {p}) /\ NowFinds(fat', data', p, x)
<1>1. data' = WriteSlot(data, c, i, x)
  BY DEF Slotted, WriteEntry, WriteSlot
<1>2. PICK f2, d2, cut2 : f2 = fat' /\ d2 = data' /\ cut2 = failed'
  OBVIOUS
<1>3. /\ Tidy(t, fat, data, failed) /\ Shape(t, data) /\ Tidy(u, f2, d2, cut2) /\ Shape(u, d2)
  BY <1>2 DEF Now, Full
<1>4. /\ g \in Dirs(t) /\ c \in Of(t, g) /\ i \in 1..Slots /\ t[g].path = Front(p)
      /\ Live(data[c].slots[i]) /\ data[c].slots[i].name = Last(p)
  BY DEF Slotted
<1>5. d2 = WriteSlot(data, c, i, x)
  BY <1>1, <1>2
<1>6. OthersStay(fat, data, f2, d2, {p}) /\ NowFinds(f2, d2, p, x)
  BY <1>3, <1>4, <1>5, RewriteStays
<1>7. QED
  BY <1>2, <1>6

(* The last write of WriteFile() gives the file its size.                  *)
LEMMA SetSizeResizes ==
  ASSUME Typed, NEW t, Now(t), Full(t), Now(t)', Full(t)', SetSize
  PROVE  Resizes(fat, data, fat', data', job.path)
<1>1. job.stage = "size" /\ WriteEntry(PlaceOf(job.path), [EntryOf(job.path) EXCEPT !.size = job.length])
  BY DEF SetSize
<1>2. job \in Jobs /\ Sizes(t, fat, data, job, failed)
  BY <1>1, NowFacts DEF JobOK
<1>3. Writing(job) /\ EntryAt(fat, data, job.path).kind = "file"
  BY <1>2 DEF Sizes, Written
<1>4. PICK p \in FatPaths : p = job.path
  BY <1>3 DEF Writing
<1>5. PICK g, c, i, e : Slotted(t, p, g, c, i, e)
  BY <1>3, <1>4, HasSlot
<1>6. e \in Slot /\ e.kind = "file" /\ e.name = Last(p) /\ e = EntryOf(p)
  BY <1>3, <1>4, <1>5 DEF Slotted
<1>7. PICK x : x = [e EXCEPT !.size = job.length]
  OBVIOUS
<1>8. x \in Slot /\ x.kind = "file" /\ x.name = Last(p) /\ Live(x)
  BY <1>2, <1>6, <1>7 DEF Slot, Jobs, Live
<1>9. WriteEntry(PlaceOf(p), x)
  BY <1>1, <1>4, <1>6, <1>7
<1>10. Fewer(t, data, t)
  BY DEF Fewer
<1>11. OthersStay(fat, data, fat', data', {p}) /\ NowFinds(fat', data', p, x)
  BY <1>5, <1>8, <1>9, <1>10, SlotWritten
<1>12. EntryAt(fat', data', p) = x
  BY <1>8, <1>11 DEF NowFinds
<1>13. QED
  BY <1>3, <1>4, <1>8, <1>11, <1>12 DEF Resizes

(* The first cluster of an empty file is not to be seen in the tree.       *)
LEMMA SetFirstKept ==
  ASSUME Typed, NEW t, Now(t), Full(t), SetFirst,
         NEW u, u = Added(t, job.fresh, Row("file", job.path, <<job.fresh>>)), Now(u)', Full(u)'
  PROVE  OthersStay(fat, data, fat', data', {})
<1>1. job.stage = "first" /\ WriteEntry(PlaceOf(job.path), [EntryOf(job.path) EXCEPT !.first = job.fresh])
  BY DEF SetFirst
<1>2. /\ job \in Jobs /\ Tidy(t, fat, data, failed) /\ Table(t, fat) /\ fat \in Fats
      /\ Blank(t, fat, data, job.fresh) /\ GetsFirst(t, fat, data, job)
  BY <1>1, NowFacts DEF JobOK
<1>3. Writing(job) /\ EntryAt(fat, data, job.path).kind = "file"
  BY <1>2 DEF GetsFirst
<1>4. PICK p \in FatPaths, b \in 0..LastCluster : p = job.path /\ b = job.fresh
  BY <1>2, <1>3 DEF Writing, Jobs
<1>5. PICK g, c, i, e : Slotted(t, p, g, c, i, e)
  BY <1>3, <1>4, HasSlot
<1>6. e \in Slot /\ e.kind = "file" /\ e.name = Last(p) /\ e = EntryOf(p) /\ e = EntryAt(fat, data, p)
  BY <1>3, <1>4, <1>5 DEF Slotted
<1>7. PICK x : x = [e EXCEPT !.first = b]
  OBVIOUS
<1>8. x \in Slot /\ x.kind = "file" /\ x.name = Last(p) /\ Live(x) /\ x.size = e.size
  BY <1>6, <1>7 DEF Slot, Live
<1>9. WriteEntry(PlaceOf(p), x)
  BY <1>1, <1>4, <1>6, <1>7
<1>10. b \notin DOMAIN t
  <2>1. \A h \in DOMAIN t : h \in Taken(t)
    BY <1>2, RowFacts DEF Taken
  <2>2. QED
    BY <1>2, <1>4, <2>1 DEF Blank, Loose
<1>11. AddedTo(t, b, "file", p, u)
  BY <1>4, <1>10, AddedIs
<1>12. Fewer(t, data, u)
  BY <1>11 DEF Fewer, AddedTo, Dirs
<1>13. OthersStay(fat, data, fat', data', {p}) /\ NowFinds(fat', data', p, x)
  BY <1>5, <1>8, <1>9, <1>12, SlotWritten
<1>14. EntryAt(fat', data', p) = x
  BY <1>8, <1>13 DEF NowFinds
<1>15. Alike(EntryAt(fat, data, p), EntryAt(fat', data', p))
  BY <1>6, <1>8, <1>14 DEF Alike
<1>16. QED
  BY <1>13, <1>15 DEF OthersStay

(* The beginnings of a sequence with one more.                             *)
LEMMA FrontOf ==
  ASSUME NEW S, NEW q \in Seq(S), NEW x \in S, NEW p, p = Append(q, x)
  PROVE  /\ Len(p) = Len(q) + 1 /\ \A k \in 0..Len(q) : SubSeq(p, 1, k) = SubSeq(q, 1, k)
         /\ SubSeq(p, 1, Len(q)) = q
<1>1. p \in Seq(S) /\ Len(q) \in Nat /\ Len(p) = Len(q) + 1 /\ \A i \in 1..Len(q) : p[i] = q[i]
  OBVIOUS
<1>2. ASSUME NEW k \in 0..Len(q) PROVE SubSeq(p, 1, k) = SubSeq(q, 1, k)
  <2>1. k \in 0..Len(p) /\ k \in 0..Len(q)
    BY <1>1
  <2>2. SubSeq(p, 1, k) \in Seq(S) /\ Len(SubSeq(p, 1, k)) = k /\ \A i \in 1..k : SubSeq(p, 1, k)[i] = p[i]
    BY <1>1, <2>1, PrefixIs
  <2>3. SubSeq(q, 1, k) \in Seq(S) /\ Len(SubSeq(q, 1, k)) = k /\ \A i \in 1..k : SubSeq(q, 1, k)[i] = q[i]
    BY <2>1, PrefixIs
  <2>4. PICK a, b : a = SubSeq(p, 1, k) /\ b = SubSeq(q, 1, k)
    OBVIOUS
  <2>5. a \in Seq(S) /\ b \in Seq(S) /\ Len(a) = k /\ Len(b) = k /\ \A i \in 1..k : a[i] = b[i]
    BY <1>1, <2>2, <2>3, <2>4
  <2>6. a = b
    BY <2>5, SameSequence
  <2>7. QED
    BY <2>4, <2>6
<1>3. SubSeq(q, 1, Len(q)) = q
  <2>1. Len(q) \in 0..Len(q)
    BY <1>1
  <2>2. SubSeq(q, 1, Len(q)) \in Seq(S) /\ Len(SubSeq(q, 1, Len(q))) = Len(q)
        /\ \A i \in 1..Len(q) : SubSeq(q, 1, Len(q))[i] = q[i]
    BY <2>1, PrefixIs
  <2>3. PICK a : a = SubSeq(q, 1, Len(q))
    OBVIOUS
  <2>4. a \in Seq(S) /\ Len(a) = Len(q) /\ \A i \in 1..Len(a) : a[i] = q[i]
    BY <2>2, <2>3
  <2>5. a = q
    BY <2>4, SameSequence
  <2>6. QED
    BY <2>3, <2>5
<1>4. QED
  BY <1>1, <1>2, <1>3

(* What holds above a directory holds above what is in it.                 *)
LEMMA AboveStep ==
  ASSUME NEW t, NEW d, NEW h \in Dirs(t), t[h].path \in Seq(Names), Occupied(t, d, h), Above(t, d, t[h].path),
         NEW x \in Names, NEW p, p = Append(t[h].path, x)
  PROVE  Above(t, d, p)
<1>1. PICK q : q = t[h].path
  OBVIOUS
<1>2. q \in Seq(Names) /\ Len(q) \in Nat
  BY <1>1
<1>3. /\ Len(p) = Len(q) + 1 /\ SubSeq(p, 1, Len(q)) = q
      /\ \A k \in 0..Len(q) : SubSeq(p, 1, k) = SubSeq(q, 1, k)
  BY <1>1, <1>2, FrontOf
<1>4. SUFFICES ASSUME NEW k \in 0..Len(p) - 1
               PROVE  \E g \in Dirs(t) : t[g].path = SubSeq(p, 1, k) /\ Occupied(t, d, g)
  BY DEF Above
<1>5. CASE k = Len(q)
  BY <1>1, <1>3, <1>5
<1>6. CASE k # Len(q)
  <2>1. k \in 0..Len(q) - 1 /\ k \in 0..Len(q)
    <3>1. PICK n : n = Len(q)
      OBVIOUS
    <3>2. n \in Nat /\ Len(p) = n + 1 /\ k # n
      BY <1>2, <1>3, <1>6, <3>1
    <3>3. k \in 0..n - 1 /\ k \in 0..n
      BY <1>4, <3>2
    <3>4. QED
      BY <3>1, <3>3
  <2>2. Above(t, d, q)
    BY <1>1
  <2>3. QED
    BY <1>3, <2>1, <2>2 DEF Above
<1>7. QED
  BY <1>5, <1>6

(* So it holds above every directory.                                      *)
LEMMA DirsAbove ==
  ASSUME NEW f, NEW d, NEW t, NEW cut, Tidy(t, f, d, cut), Shape(t, d)
  PROVE  \A h \in Dirs(t) : Above(t, d, t[h].path)
<1>1. f \in Fats /\ Table(t, f) /\ Whole(t, d)
  BY DEF Tidy, Shape
<1>2. \A h \in Dirs(t) : h \in DOMAIN t /\ t[h].path \in Seq(Names) /\ Len(t[h].path) \in Nat
  BY <1>1, DirRow, RowFacts
<1> DEFINE P == {n \in Nat : \A h \in Dirs(t) : Len(t[h].path) <= n => Above(t, d, t[h].path)}
<1>3. ASSUME NEW n \in Nat, NEW h \in Dirs(t), Len(t[h].path) <= n,
             \A m \in Nat : m < n => m \in P
      PROVE  Above(t, d, t[h].path)
  <2>1. CASE h = Root
    <3>1. Len(t[h].path) = 0
      BY <1>1, <2>1 DEF Table
    <3>2. QED
      BY <3>1 DEF Above
  <2>2. CASE h # Root
    <3>1. PICK g \in Dirs(t) : \E c \in Of(t, g), i \in 1..Slots :
            /\ Live(d[c].slots[i]) /\ d[c].slots[i].first = h
            /\ t[h].path = Append(t[g].path, d[c].slots[i].name)
      BY <1>1, <1>2, <2>2, RowNamed
    <3>2. PICK c \in Of(t, g), i \in 1..Slots :
            /\ Live(d[c].slots[i]) /\ t[h].path = Append(t[g].path, d[c].slots[i].name)
      BY <3>1
    <3>3. PICK p, q, x : p = t[h].path /\ q = t[g].path /\ x = d[c].slots[i].name
      OBVIOUS
    <3>4. p \in Seq(Names) /\ q \in Seq(Names) /\ p = Append(q, x) /\ Len(p) \in Nat /\ Len(q) \in Nat
      BY <1>2, <3>2, <3>3
    <3>5. Len(p) = Len(q) + 1 /\ x \in Names
      <4>1. Len(p) = Len(q) + 1 /\ p[Len(p)] = x
        BY <3>4
      <4>2. Len(p) \in 1..Len(p)
        BY <3>4, <4>1
      <4>3. QED
        BY <3>4, <4>1, <4>2
    <3>6. Above(t, d, t[g].path)
      <4>1. Len(q) <= n - 1 /\ n - 1 \in Nat /\ n - 1 < n
        BY <1>3, <3>3, <3>4, <3>5
      <4>2. n - 1 \in P
        BY <1>3, <4>1
      <4>3. QED
        BY <3>3, <4>1, <4>2
    <3>7. Occupied(t, d, g)
      BY <3>2 DEF Occupied
    <3>8. QED
      BY <1>2, <3>3, <3>4, <3>5, <3>6, <3>7, AboveStep
  <2>3. QED
    BY <2>1, <2>2
<1>4. 0 \in P
  BY <1>2, <1>3
<1>5. ASSUME NEW n \in Nat, n \in P PROVE n + 1 \in P
  <2>1. \A m \in Nat : m < n + 1 => m \in P
    BY <1>2, <1>5
  <2>2. QED
    BY <1>3, <2>1
<1> HIDE DEF P
<1>6. \A n \in Nat : n \in P
  BY <1>4, <1>5, NatInd
<1>7. QED
  BY <1>2, <1>6 DEF P

(* A path with a found path under it is an occupied directory's.           *)
LEMMA UnderOccupied ==
  ASSUME NEW f, NEW d, NEW t, NEW cut, Tidy(t, f, d, cut), Shape(t, d), NEW p \in FatPaths,
         NEW q \in FatPaths, EntryAt(f, d, q).kind # "end", Len(q) > Len(p), SubSeq(q, 1, Len(p)) = p
  PROVE  /\ EntryAt(f, d, p).kind = "dir" /\ EntryAt(f, d, p).first \in Dirs(t)
         /\ Occupied(t, d, EntryAt(f, d, p).first)
<1>1. PICK e : e = EntryAt(f, d, q)
  OBVIOUS
<1>2. Lies(t, d, q, e)
  BY <1>1, FoundLies
<1>3. PICK b, j : e.name = Last(q) /\ Stands(t, d, Front(q), b, j, e)
  BY <1>2 DEF Lies
<1>4. PICK g \in Dirs(t) : t[g].path = Front(q) /\ b \in Of(t, g) /\ j \in 1..Slots /\ e = d[b].slots[j] /\ Live(e)
  BY <1>3 DEF Stands
<1>5. Occupied(t, d, g)
  BY <1>4 DEF Occupied
<1>6. Last(q) \in Names /\ t[g].path \in Seq(Names) /\ q = Append(t[g].path, Last(q))
  BY <1>4, PathFacts
<1>7. Above(t, d, t[g].path)
  BY DirsAbove
<1>8. Above(t, d, q)
  BY <1>5, <1>6, <1>7, AboveStep
<1>9. Len(p) \in 0..Len(q) - 1 /\ p # <<>>
  BY PathFacts
<1>10. PICK h \in Dirs(t) : t[h].path = p /\ Occupied(t, d, h)
  BY <1>8, <1>9 DEF Above
<1>11. EntryAt(f, d, t[h].path).kind = "dir" /\ EntryAt(f, d, t[h].path).first = h
  BY <1>9, <1>10, ParentFound
<1>12. QED
  BY <1>10, <1>11

(* Where a directory goes, it was empty.                                   *)
LEMMA WithoutFewer ==
  ASSUME NEW t, Tidy(t, fat, data, failed), Shape(t, data),
         NEW path, NEW e, Named(t, path, e), e.kind = "dir" => IsDirectoryEmpty(e.first),
         NEW u, u = (IF e.first = 0 THEN t ELSE Removed(t, e.first))
  PROVE  Fewer(t, data, u)
<1>1. CASE e.first = 0
  BY <1>1 DEF Fewer
<1>2. CASE e.first # 0
  <2>1. e.first \in DOMAIN t /\ t[e.first].kind = e.kind
    BY <1>2 DEF Named
  <2>2. RemovedFrom(t, e.first, u)
    BY <1>2, RemovedIs
  <2>3. \A h \in Dirs(u) : h \in Dirs(t) /\ u[h].path = t[h].path /\ Of(u, h) = Of(t, h)
    BY <2>2 DEF RemovedFrom, Dirs
  <2>4. ASSUME NEW h \in Dirs(t), h \notin Dirs(u), NEW b \in Of(t, h), NEW j \in 1..Slots
        PROVE  ~Live(data[b].slots[j])
    <3>1. h = e.first
      BY <2>2, <2>4 DEF RemovedFrom, Dirs
    <3>2. e.kind = "dir"
      BY <2>1, <2>4, <3>1 DEF Dirs
    <3>3. IsDirectoryEmpty(h)
      BY <3>1, <3>2
    <3>4. QED
      BY <2>4, <3>3, EmptyTidy
  <2>5. QED
    BY <2>3, <2>4 DEF Fewer
<1>3. QED
  BY <1>1, <1>2

(* The mark in its entry removes a path.                                   *)
LEMMA MarkLoses ==
  ASSUME Typed, NEW t, Now(t), Full(t), NEW p \in FatPaths, Found(p), MarkDeleted(p),
         EntryOf(p).kind = "dir" => IsDirectoryEmpty(EntryOf(p).first),
         NEW u, u = (IF EntryOf(p).first = 0 THEN t ELSE Removed(t, EntryOf(p).first)), Now(u)', Full(u)'
  PROVE  Loses(fat, data, fat', data', p)
<1>1. fat \in Fats /\ data \in Disks /\ Tidy(t, fat, data, failed) /\ Shape(t, data)
  BY NowFacts, FullFacts
<1>2. EntryAt(fat, data, p).kind # "end"
  BY <1>1, EntryOfIs DEF Found
<1>3. PICK g, c, i, e : Slotted(t, p, g, c, i, e)
  BY <1>2, HasSlot
<1>4. Named(t, t[g].path, e) /\ e = EntryOf(p) /\ e = EntryAt(fat, data, p)
  BY <1>3 DEF Slotted
<1>5. u = (IF e.first = 0 THEN t ELSE Removed(t, e.first)) /\ (e.kind = "dir" => IsDirectoryEmpty(e.first))
  BY <1>4
<1>6. Fewer(t, data, u)
  BY <1>1, <1>4, <1>5, WithoutFewer
<1>7. WriteEntry(PlaceOf(p), Deleted) /\ Deleted \in Slot /\ ~Live(Deleted)
  BY SlotFacts DEF MarkDeleted, Live
<1> HIDE DEF Deleted, Live
<1>8. OthersStay(fat, data, fat', data', {p}) /\ NowFinds(fat', data', p, Deleted)
  BY <1>3, <1>6, <1>7, SlotWritten
<1>9. EntryAt(fat', data', p).kind = "end"
  BY <1>7, <1>8 DEF NowFinds
<1>10. ASSUME NEW q \in FatPaths, EntryAt(fat, data, q).kind # "end", Len(q) > Len(p), SubSeq(q, 1, Len(p)) = p
       PROVE  FALSE
  <2>1. e.kind = "dir" /\ e.first \in Dirs(t) /\ Occupied(t, data, e.first)
    BY <1>1, <1>4, <1>10, UnderOccupied
  <2>2. IsDirectoryEmpty(e.first)
    BY <1>5, <2>1
  <2>3. \A b \in Of(t, e.first), j \in 1..Slots : ~Live(data[b].slots[j])
    BY <1>1, <2>1, <2>2, EmptyTidy
  <2>4. QED
    BY <2>1, <2>3 DEF Occupied
<1>11. QED
  BY <1>2, <1>8, <1>9, <1>10 DEF Loses

(* Formatting leaves an empty root.                                        *)
LEMMA FormatWipes ==
  ASSUME NEW u, u = Fresh, Now(u)', Format
  PROVE  Wipes(fat', data')
<1>1. PICK f2, d2, cut2 : f2 = fat' /\ d2 = data' /\ cut2 = failed'
  OBVIOUS
<1>2. Tidy(u, f2, d2, cut2)
  BY <1>1 DEF Now
<1>3. d2[Root] = Zeros
  BY <1>1, Geometry DEF Format
<1>4. SUFFICES ASSUME NEW q \in FatPaths, EntryAt(f2, d2, q).kind # "end" PROVE FALSE
  BY <1>1 DEF Wipes
<1>5. PICK e : e = EntryAt(f2, d2, q)
  OBVIOUS
<1>6. Lies(u, d2, q, e)
  BY <1>2, <1>4, <1>5, FoundLies
<1>7. PICK b, j : Stands(u, d2, Front(q), b, j, e)
  BY <1>6 DEF Lies
<1>8. PICK h \in Dirs(u) : b \in Of(u, h) /\ j \in 1..Slots /\ Live(d2[b].slots[j])
  BY <1>7 DEF Stands
<1>9. h = Root /\ u[Root] = Row("dir", <<>>, <<Root>>)
  BY DEF Fresh, Dirs
<1>10. b = Root
  BY <1>8, <1>9 DEF Row, Of
<1>11. QED
  BY <1>3, <1>8, <1>10, ZerosIs

(* Every step of the file system does one of these.                        *)
LEMMA KeepsPromise ==
  ASSUME TreeInv, [Next]_vars
  PROVE  Keeps(fat, data, fat', data')
<1>1. PICK t : Typed /\ Now(t) /\ Full(t)
  BY DEF TreeInv
<1>2. ASSUME data' = data, Now(t)', Full(t)' PROVE Keeps(fat, data, fat', data')
  <2>1. OthersStay(fat, data, fat', data', {})
    BY <1>1, <1>2, DataKept
  <2>2. QED
    BY <2>1 DEF Keeps
<1>3. CASE UNCHANGED vars
  <2>1. Now(t)' /\ Full(t)'
    BY <1>1, <1>3, StillNow, StillFull, NowFacts DEF vars
  <2>2. QED
    BY <1>2, <1>3, <2>1 DEF vars
<1>4. ASSUME NEW path \in Paths, CreateFile(path) \/ MakeDirectory(path) PROVE Keeps(fat, data, fat', data')
  <2>1. PICK op \in {"file", "dir"} : Create(op, path)
    BY <1>4 DEF CreateFile, MakeDirectory
  <2>2. Now(t)' /\ Full(t)' /\ data' = data
    BY <1>1, <2>1, CreateNow, CreateFull DEF Create
  <2>3. QED
    BY <1>2, <2>2
<1>5. ASSUME NEW path \in Paths, DeleteFile(path) \/ DeleteDirectory(path) PROVE Keeps(fat, data, fat', data')
  <2>1. PICK p \in FatPaths : p = FatPath(path)
    BY FatPathIs
  <2>2. job = Idle /\ Found(p) /\ MarkDeleted(p) /\ (EntryOf(p).kind = "dir" => IsDirectoryEmpty(EntryOf(p).first))
    BY <1>5, <2>1 DEF DeleteFile, DeleteDirectory
  <2>3. PICK u : u = (IF EntryOf(p).first = 0 THEN t ELSE Removed(t, EntryOf(p).first))
    OBVIOUS
  <2>4. Now(u)'
    BY <1>1, <2>2, <2>3, MarkDeletedNow
  <2>5. Full(u)'
    BY <1>1, <2>2, <2>3, DeleteFull
  <2>6. Loses(fat, data, fat', data', p)
    BY <1>1, <2>2, <2>3, <2>4, <2>5, MarkLoses
  <2>7. QED
    BY <2>6 DEF Keeps
<1>6. ASSUME NEW path \in Paths, NEW length \in Lengths, WriteFile(path, length)
      PROVE  Keeps(fat, data, fat', data')
  BY <1>1, <1>2, <1>6, WriteFileNow, WriteFileFull DEF WriteFile
<1>7. ASSUME NEW path \in Paths, WriteDirectory(path) PROVE Keeps(fat, data, fat', data')
  BY <1>1, <1>2, <1>7, WriteDirectoryNow, StopFull DEF WriteDirectory
<1>8. ASSUME NEW path \in Paths, Open(path) PROVE Keeps(fat, data, fat', data')
  BY <1>1, <1>2, <1>8, OpenNow, StillFull DEF Open
<1>9. CASE Zero
  <2>1. job.stage = "zero" /\ data' = [data EXCEPT ![job.fresh] = Zeros]
    BY <1>9 DEF Zero
  <2>2. job.fresh \notin InDirs(t)
    BY <1>1, <2>1, UntakenKept DEF Now, JobOK, Loose
  <2>3. Now(t)' /\ Full(t)'
    BY <1>1, <1>9, ZeroNow, ZeroFull
  <2>4. OthersStay(fat, data, fat', data', {})
    BY <1>1, <2>1, <2>2, <2>3, ElsewhereKept
  <2>5. QED
    BY <2>4 DEF Keeps
<1>10. ASSUME PlaceEntry \/ PlaceInGrown PROVE Keeps(fat, data, fat', data')
  <2>1. PICK u : u = Added(t, job.first, Row(job.op, job.path, <<job.first>>))
    OBVIOUS
  <2>2. Now(u)'
    BY <1>1, <1>10, <2>1, PlaceEntryNow, PlaceInGrownNow
  <2>3. Full(u)'
    BY <1>1, <1>10, <2>1, PlaceEntryFull, PlaceInGrownFull
  <2>4. PICK h \in Dirs(t) : \E l \in 1..Len(t[h].chain), i \in 1..Slots : Entering(t, h, l, i)
    BY <1>1, <1>10, PlaceEntrySlot, PlaceInGrownSlot
  <2>5. PICK l \in 1..Len(t[h].chain), i \in 1..Slots : Entering(t, h, l, i)
    BY <2>4
  <2>6. Makes(fat, data, fat', data', job.path, job.op = "dir")
    BY <1>1, <2>1, <2>2, <2>3, <2>5, EntryMakes
  <2>7. job.path \in FatPaths /\ (job.op = "dir") \in BOOLEAN
    BY <2>6 DEF Makes
  <2>8. QED
    BY <2>6, <2>7 DEF Keeps
<1>11. CASE GrowDirectory
  BY <1>1, <1>2, <1>11, GrowDirectoryNow, GrowDirectoryFull DEF GrowDirectory
<1>12. CASE DirectoryFull
  BY <1>1, <1>2, <1>12, DirectoryFullNow, StopFull DEF DirectoryFull
<1>13. CASE Link
  <2>1. PICK u : Now(u)' /\ \E h \in DOMAIN t : job.at = Last(t[h].chain) /\ u = Extended(t, h, job.fresh)
    BY <1>1, <1>13, LinkNow
  <2>2. Full(u)'
    BY <1>1, <1>13, <2>1, LinkFull
  <2>3. PICK h \in DOMAIN t : u = Extended(t, h, job.fresh)
    BY <2>1
  <2>4. data' = data /\ Blank(t, fat, data, job.fresh)
    BY <1>1, <1>13 DEF Link, Now, JobOK
  <2>5. OthersStay(fat, data, fat', data', {})
    BY <1>1, <2>1, <2>2, <2>3, <2>4, LinkKept
  <2>6. QED
    BY <2>5 DEF Keeps
<1>14. CASE Dots
  <2>1. Now(t)' /\ Full(t)'
    BY <1>1, <1>14, DotsNow, DotsFull
  <2>2. OthersStay(fat, data, fat', data', {})
    BY <1>1, <1>14, <2>1, DotsKept
  <2>3. QED
    BY <2>2 DEF Keeps
<1>15. CASE FreeChain
  <2>1. job.stage = "free" /\ data' = [data EXCEPT ![job.at] = Junk]
    BY <1>15 DEF FreeChain
  <2>2. job.at \notin InDirs(t)
    <3>1. PICK g : Strung(g, job.at, fat) /\ \A k \in 1..Len(g) : g[k] \notin Taken(t)
      BY <1>1, <2>1 DEF Now, JobOK, Frees
    <3>2. 1 \in 1..Len(g) /\ g[1] = job.at
      BY <3>1 DEF Strung
    <3>3. QED
      BY <3>1, <3>2, UntakenKept
  <2>3. Now(t)' /\ Full(t)'
    BY <1>1, <1>15, FreeChainNow, FreeChainFull
  <2>4. OthersStay(fat, data, fat', data', {})
    BY <1>1, <2>1, <2>2, <2>3, ElsewhereKept
  <2>5. QED
    BY <2>4 DEF Keeps
<1>16. CASE SetFirst
  <2>1. PICK u : u = Added(t, job.fresh, Row("file", job.path, <<job.fresh>>))
    OBVIOUS
  <2>2. Now(u)'
    BY <1>1, <1>16, <2>1, SetFirstNow
  <2>3. Full(u)'
    BY <1>1, <1>16, <2>1, SetFirstFull
  <2>4. OthersStay(fat, data, fat', data', {})
    BY <1>1, <1>16, <2>1, <2>2, <2>3, SetFirstKept
  <2>5. QED
    BY <2>4 DEF Keeps
<1>17. CASE WriteData
  <2>1. job.stage = "data" /\ data' = [data EXCEPT ![job.at] = Bytes(job.path, job.done)]
    BY <1>17 DEF WriteData
  <2>2. job.at \notin InDirs(t)
    <3>1. Tidy(t, fat, data, failed) /\ Writes(t, fat, data, job)
      BY <1>1, <2>1 DEF Now, JobOK
    <3>2. PICK h \in DOMAIN t : Written(t, fat, data, job, h) /\ job.done < Len(t[h].chain) /\ job.at = t[h].chain[job.done + 1]
      BY <3>1 DEF Writes
    <3>3. t[h].kind = "file" /\ job.done \in 0..Len(t[h].chain)
      BY <3>2 DEF Written
    <3>4. job.done + 1 \in 1..Len(t[h].chain)
      <4>1. Len(t[h].chain) \in Nat
        BY <3>1, RowFacts DEF Tidy
      <4>2. QED
        BY <3>2, <3>3, <4>1
    <3>5. QED
      BY <3>1, <3>2, <3>3, <3>4, FileRow
  <2>3. Now(t)' /\ Full(t)'
    BY <1>1, <1>17, WriteDataNow, WriteDataFull
  <2>4. OthersStay(fat, data, fat', data', {})
    BY <1>1, <2>1, <2>2, <2>3, ElsewhereKept
  <2>5. QED
    BY <2>4 DEF Keeps
<1>18. CASE WriteNothing
  BY <1>1, <1>2, <1>18, WriteNothingNow, WriteNothingFull DEF WriteNothing
<1>19. CASE ExtendFile
  BY <1>1, <1>2, <1>19, ExtendFileNow, ExtendFileFull DEF ExtendFile
<1>20. CASE DiskFull
  BY <1>1, <1>2, <1>20, DiskFullNow, WriteNothingFull DEF DiskFull
<1>21. CASE SetSize
  <2>1. Now(t)' /\ Full(t)'
    BY <1>1, <1>21, SetSizeNow, SetSizeFull
  <2>2. Resizes(fat, data, fat', data', job.path)
    BY <1>1, <1>21, <2>1, SetSizeResizes
  <2>3. QED
    BY <2>2 DEF Keeps, Resizes
<1>22. ASSUME NEW n \in 1..ClusterSize, Read(n) \/ Seek(n) PROVE Keeps(fat, data, fat', data')
  BY <1>1, <1>2, <1>22, ReadNow, SeekNow, StillFull DEF Read, Seek
<1>23. CASE Format
  <2>1. PICK u : u = Fresh
    OBVIOUS
  <2>2. Now(u)'
    BY <1>1, <1>23, <2>1, FormatNow
  <2>3. QED
    BY <1>23, <2>1, <2>2, FormatWipes DEF Keeps
<1>24. CASE PowerLoss
  BY <1>1, <1>2, <1>24, PowerLossNow, StopFull DEF PowerLoss
<1>25. QED
  BY <1>3, <1>4, <1>5, <1>6, <1>7, <1>8, <1>9, <1>10, <1>11, <1>12, <1>13, <1>14, <1>15,
     <1>16, <1>17, <1>18, <1>19, <1>20, <1>21, <1>22, <1>23, <1>24 DEF Next

(* A node of the tree.                                                     *)
LEMMA NodeTyped ==
  ASSUME NEW e \in Slot
  PROVE  NodeOf(e) \in [dir : BOOLEAN, size : Size] /\ (NodeOf(e).dir <=> e.kind = "dir") /\ NodeOf(e).size = e.size
BY SlotFacts DEF NodeOf, Size

(* Slots are what searches find.                                           *)
LEMMA EntryTyped ==
  ASSUME NEW f \in Fats, NEW d \in Disks, NEW p \in FatPaths
  PROVE  EntryAt(f, d, p) \in Slot
BY ResolveTyped, EntryInIs DEF EntryAt

(* The first tree.                                                         *)
LEMMA InitImplements == Init => FileTree!TreeInit
<1> SUFFICES ASSUME Init PROVE FileTree!TreeInit
  OBVIOUS
<1>1. fat \in Fats /\ data \in Disks
  BY InitTree, NowFacts DEF TreeInv
<1>2. PICK T : T = Tree
  OBVIOUS
<1>3. T = TreeAt(fat, data)
  BY <1>1, <1>2, TreeIs
<1>4. IsTree(T, fat, data)
  BY <1>3, TreeNodes
<1>5. DOMAIN T \in SUBSET FatPaths /\ T \in [DOMAIN T -> [dir : BOOLEAN, size : Size]]
  <2>1. \A p \in DOMAIN T : p \in FatPaths /\ T[p] = NodeOf(EntryAt(fat, data, p))
    BY <1>4 DEF IsTree, PathsAt
  <2>2. \A p \in DOMAIN T : T[p] \in [dir : BOOLEAN, size : Size]
    BY <1>1, <2>1, EntryTyped, NodeTyped
  <2>3. QED
    BY <1>4, <2>1, <2>2 DEF IsTree
<1>6. T \in UNION {[P -> [dir : BOOLEAN, size : Size]] : P \in SUBSET FatPaths}
  BY <1>5
<1>7. QED
  BY <1>2, <1>6 DEF FileTree!TreeInit, FileTree!Node

(* Tree is TreeAt of the disk after a step too.                            *)
LEMMA TreeIsNext == (fat \in Fats /\ data \in Disks => Tree = TreeAt(fat, data))'
BY TreeIs, PTL

(* A step that keeps the promise is a step of the tree.                    *)
LEMMA StepImplements ==
  ASSUME TreeInv, TreeInv', Keeps(fat, data, fat', data')
  PROVE  [FileTree!TreeNext]_Tree
<1>1. PICK f2, d2 : f2 = fat' /\ d2 = data'
  OBVIOUS
<1>2. fat \in Fats /\ data \in Disks /\ f2 \in Fats /\ d2 \in Disks
  BY <1>1, NowFacts DEF TreeInv, Now, Tidy
<1>3. PICK T, T2 : T = Tree /\ T2 = Tree'
  OBVIOUS
<1>4. T = TreeAt(fat, data) /\ T2 = TreeAt(f2, d2)
  BY <1>1, <1>2, <1>3, TreeIs, TreeIsNext
<1>5. IsTree(T, fat, data) /\ IsTree(T2, f2, d2)
  BY <1>4, TreeNodes
<1>6. Keeps(fat, data, f2, d2)
  BY <1>1
<1>7. \A q \in FatPaths : EntryAt(fat, data, q) \in Slot /\ EntryAt(f2, d2, q) \in Slot
  BY <1>2, EntryTyped
<1>8. CASE OthersStay(fat, data, f2, d2, {})
  <2>1. T2 = T
    BY <1>5, <1>8, TreeStays
  <2>2. QED
    BY <1>3, <2>1
<1>9. ASSUME NEW p \in FatPaths, NEW isDir \in BOOLEAN, Makes(fat, data, f2, d2, p, isDir)
      PROVE  [FileTree!TreeNext]_Tree
  <2>1. PICK e : e = EntryAt(f2, d2, p)
    OBVIOUS
  <2>2. /\ OthersStay(fat, data, f2, d2, {p}) /\ EntryAt(fat, data, p).kind = "end"
        /\ e.kind = (IF isDir THEN "dir" ELSE "file") /\ e.size = 0
        /\ Len(p) > 1 => Front(p) \in FatPaths /\ EntryAt(fat, data, Front(p)).kind = "dir"
    BY <1>9, <2>1 DEF Makes
  <2>3. e.kind # "end" /\ (isDir <=> e.kind = "dir")
    BY <2>2
  <2>4. NodeOf(e) = [dir |-> isDir, size |-> 0]
    <3>1. isDir = (e.kind = "dir")
      BY <1>9, <2>3
    <3>2. QED
      BY <2>2, <3>1 DEF NodeOf
  <2>5. WithNode(T, T2, p, NodeOf(e))
    <3>1. EntryAt(f2, d2, p).kind # "end"
      BY <2>1, <2>3
    <3>2. WithNode(T, T2, p, NodeOf(EntryAt(f2, d2, p)))
      BY <1>5, <2>2, <3>1, TreeMade
    <3>3. QED
      BY <2>1, <3>2
  <2>6. /\ p \notin DOMAIN T /\ T2 # T
        /\ T2 = [q \in DOMAIN T \union {p} |-> IF q = p THEN [dir |-> isDir, size |-> 0] ELSE T[q]]
    <3>1. PICK n : n = [dir |-> isDir, size |-> 0]
      OBVIOUS
    <3>2. WithNode(T, T2, p, n)
      BY <2>4, <2>5, <3>1
    <3>3. QED
      BY <3>1, <3>2 DEF WithNode
  <2>7. ASSUME NEW q, q = SubSeq(p, 1, Len(p) - 1), Len(p) > 1
        PROVE  q \in DOMAIN T /\ T[q].dir
    <3>1. q = Front(p)
      BY <2>7, PathFacts
    <3>2. q \in FatPaths /\ EntryAt(fat, data, q).kind = "dir"
      BY <2>2, <2>7, <3>1
    <3>3. q \in DOMAIN T /\ T[q] = NodeOf(EntryAt(fat, data, q))
      BY <1>5, <3>2 DEF IsTree, PathsAt
    <3>4. QED
      BY <1>7, <3>2, <3>3, NodeTyped
  <2>8. FileTree!HasParent(p)
    BY <1>3, <2>7 DEF FileTree!HasParent
  <2>9. FileTree!Make(p, isDir)
    BY <1>3, <2>6, <2>8 DEF FileTree!Make
  <2>10. Tree' # Tree
    BY <1>3, <2>6
  <2>11. QED
    BY <2>9, <2>10 DEF FileTree!TreeNext
<1>10. ASSUME NEW p \in FatPaths, Loses(fat, data, f2, d2, p)
       PROVE  [FileTree!TreeNext]_Tree
  <2>1. /\ OthersStay(fat, data, f2, d2, {p})
        /\ EntryAt(fat, data, p).kind # "end" /\ EntryAt(f2, d2, p).kind = "end"
        /\ \A q \in FatPaths : EntryAt(fat, data, q).kind # "end" /\ Len(q) > Len(p) => SubSeq(q, 1, Len(p)) # p
    BY <1>10 DEF Loses
  <2>2. p \in DOMAIN T /\ T2 # T /\ T2 = [q \in DOMAIN T \ {p} |-> T[q]]
    <3>1. WithoutNode(T, T2, p)
      BY <1>5, <2>1, TreeLost
    <3>2. QED
      BY <3>1 DEF WithoutNode
  <2>3. \A q \in DOMAIN T : q \in FatPaths /\ EntryAt(fat, data, q).kind # "end"
    BY <1>5 DEF IsTree, PathsAt
  <2>4. FileTree!Childless(p)
    BY <1>3, <2>1, <2>3 DEF FileTree!Childless
  <2>5. FileTree!Restrict(T, DOMAIN T \ {p}) = [q \in DOMAIN T \ {p} |-> T[q]]
    BY DEF FileTree!Restrict
  <2>6. FileTree!Remove(p)
    BY <1>3, <2>2, <2>4, <2>5 DEF FileTree!Remove
  <2>7. Tree' # Tree
    BY <1>3, <2>2
  <2>8. QED
    BY <2>6, <2>7 DEF FileTree!TreeNext
<1>11. ASSUME NEW p \in FatPaths, Resizes(fat, data, f2, d2, p)
       PROVE  [FileTree!TreeNext]_Tree
  <2>1. /\ OthersStay(fat, data, f2, d2, {p}) /\ EntryAt(f2, d2, p) \in Slot
        /\ EntryAt(fat, data, p).kind = "file" /\ EntryAt(f2, d2, p).kind = "file"
    BY <1>11 DEF Resizes
  <2>2. PICK s : s = EntryAt(f2, d2, p).size
    OBVIOUS
  <2>3. s \in Size
    BY <2>1, <2>2, SlotFacts DEF Size
  <2>4. p \in DOMAIN T /\ ~T[p].dir /\ T2 = [T EXCEPT ![p].size = s]
    BY <1>5, <2>1, <2>2, TreeSized
  <2>5. FileTree!Resize(p, s)
    BY <1>3, <2>4 DEF FileTree!Resize
  <2>6. QED
    BY <2>3, <2>5 DEF FileTree!TreeNext
<1>12. CASE Wipes(f2, d2)
  <2>1. DOMAIN T2 = {} /\ T2 = [q \in DOMAIN T2 |-> T2[q]]
    BY <1>5, <1>12 DEF Wipes, IsTree, PathsAt
  <2>2. T2 = [q \in {} |-> [dir |-> FALSE, size |-> 0]]
    BY <2>1
  <2>3. FileTree!Wipe
    BY <1>3, <2>2 DEF FileTree!Wipe
  <2>4. QED
    BY <2>3 DEF FileTree!TreeNext
<1>13. QED
  BY <1>6, <1>8, <1>9, <1>10, <1>11, <1>12 DEF Keeps

(* The file system implements the tree: each operation changes it in one   *)
(* write, so that it is done or not begun wherever the machine stops.      *)
THEOREM TreeImplemented == Spec => ImplementsFileTree
<1>1. TreeInv /\ TreeInv' /\ [Next]_vars => [FileTree!TreeNext]_Tree
  BY KeepsPromise, StepImplements
<1>2. Init => FileTree!TreeInit
  BY InitImplements
<1>3. QED
  BY <1>1, <1>2, TreeInvCorrect, PTL DEF Spec, ImplementsFileTree, FileTree!TreeSpec
=============================================================================
